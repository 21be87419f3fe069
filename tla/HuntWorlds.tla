----------------------------- MODULE HuntWorlds -----------------------------
(***************************************************************************)
(* The shared combat worlds of one Battle server (battleserver/instance.go *)
(* and the ends of a connection's life in server.go and hunt.go): the      *)
(* registry Server.insts, the members of every huntInstance, the goroutine *)
(* that simulates and disposes of a world, and one goroutine per client    *)
(* connection.                                                             *)
(*                                                                         *)
(* Server.mu (the registry) and huntInstance.mu (one world) are taken one  *)
(* after the other and never nested, so every action below is exactly one  *)
(* critical section of one goroutine and all of them interleave.           *)
(*                                                                         *)
(* A member is keyed by its object id, which is 1000 + the user id: two    *)
(* connections of one user share the key.  Overlap says whether a user's   *)
(* next connection may arrive before the server has run the close of the   *)
(* previous one (a half-open socket); if FALSE connections of one user     *)
(* follow each other.                                                      *)
(***************************************************************************)
CONSTANTS Conns, Users, Rooms, Worlds, UserOf, Overlap,
          NoConn, NoWorld, NoRoom

ASSUME HuntAssumption == /\ UserOf \in [Conns -> Users]
                         /\ Overlap \in BOOLEAN
                         /\ NoConn \notin Conns
                         /\ NoWorld \notin Worlds
                         /\ NoRoom \notin Rooms

VARIABLES
  insts,    \* Server.insts: the world registered for a room
  closed,   \* huntInstance.closed
  members,  \* huntInstance.members: object id (here the user) -> conn
  ticker,   \* the goroutine of runInstanceTicker
  pc,       \* where a connection's goroutine stands
  room,     \* PendingBattle.Room of the launch this connection claimed
  inst,     \* conn.inst, and joinInstance's local of the same name before that
  tr        \* huntState.tr: the users whose avatar this client renders

vars == <<insts, closed, members, ticker, pc, room, inst, tr>>

\* The goroutine's place: it is about to run the critical section named here.
Joining == {"lookup", "insertNew", "insertFound"}
Inside  == {"startTicker", "building", "ready"}
Holding == {"insertNew", "insertFound"} \cup Inside   \* inst is not nil
Places  == {"offline", "gone"} \cup Joining \cup Inside

\* "fresh" is a world not allocated yet, or allocated and not ticking yet.
TickerStates == {"fresh", "running", "disposing", "done"}

TypeOK == /\ insts   \in [Rooms -> Worlds \cup {NoWorld}]
          /\ closed  \in [Worlds -> BOOLEAN]
          /\ members \in [Worlds -> [Users -> Conns \cup {NoConn}]]
          /\ ticker  \in [Worlds -> TickerStates]
          /\ pc      \in [Conns -> Places]
          /\ room    \in [Conns -> Rooms \cup {NoRoom}]
          /\ inst    \in [Conns -> Worlds \cup {NoWorld}]
          /\ tr      \in [Conns -> SUBSET Users]
          /\ \A c \in Conns : pc[c] # "offline" => room[c] # NoRoom
          /\ \A c \in Conns : pc[c] \in Holding => inst[c] # NoWorld

Init == /\ insts   = [r \in Rooms |-> NoWorld]
        /\ closed  = [w \in Worlds |-> FALSE]
        /\ members = [w \in Worlds |-> [u \in Users |-> NoConn]]
        /\ ticker  = [w \in Worlds |-> "fresh"]
        /\ pc      = [c \in Conns |-> "offline"]
        /\ room    = [c \in Conns |-> NoRoom]
        /\ inst    = [c \in Conns |-> NoWorld]
        /\ tr      = [c \in Conns |-> {}]

\* A world nobody has allocated: `new' returns a fresh identity, so a world is
\* never given out twice, not even after it was disposed of.
Unallocated(w) == /\ ticker[w] = "fresh"
                  /\ \A r \in Rooms : insts[r] # w
                  /\ \A c \in Conns : inst[c] # w

Member(w, c) == members[w][UserOf[c]] = c

\* memberList: the members whose scene is fully built.
memberList(w) == {c \in Conns : Member(w, c) /\ pc[c] = "ready"}

\* Whom c and the world introduce to each other: a client tracks its own object
\* id from the start, so an avatar with that id is never drawn a second time.
OthersReady(c) == {d \in memberList(inst[c]) : UserOf[d] # UserOf[c]}

(***************************************************************************)
(* The client's side: a CONNECT that claims a launch into room r, and the  *)
(* end of the socket, which handleConn sees between two packets.           *)
(***************************************************************************)
Connect(c, r) ==
  /\ pc[c] = "offline"
  /\ Overlap \/ \A d \in Conns : UserOf[d] = UserOf[c] => pc[d] \in {"offline", "gone"}
  /\ pc'   = [pc EXCEPT ![c] = "lookup"]
  /\ room' = [room EXCEPT ![c] = r]
  /\ UNCHANGED <<insts, closed, members, ticker, inst, tr>>

(***************************************************************************)
(* joinInstance.  Lookup is the section under Server.mu, the others are    *)
(* sections under the world's own mutex.                                   *)
(***************************************************************************)
LookupFound(c) ==
  /\ pc[c] = "lookup"
  /\ insts[room[c]] # NoWorld
  /\ inst' = [inst EXCEPT ![c] = insts[room[c]]]
  /\ pc'   = [pc EXCEPT ![c] = "insertFound"]
  /\ UNCHANGED <<insts, closed, members, ticker, room, tr>>

\* Variant: the ticker starts with the allocation, before the first member.
LookupCreateTicking(c, w) ==
  /\ pc[c] = "lookup"
  /\ insts[room[c]] = NoWorld
  /\ Unallocated(w)
  /\ insts'  = [insts EXCEPT ![room[c]] = w]
  /\ inst'   = [inst EXCEPT ![c] = w]
  /\ pc'     = [pc EXCEPT ![c] = "insertNew"]
  /\ ticker' = [ticker EXCEPT ![w] = "running"]
  /\ UNCHANGED <<closed, members, room, tr>>

LookupCreate(c, w) ==
  /\ pc[c] = "lookup"
  /\ insts[room[c]] = NoWorld
  /\ Unallocated(w)
  /\ insts' = [insts EXCEPT ![room[c]] = w]
  /\ inst'  = [inst EXCEPT ![c] = w]
  /\ pc'    = [pc EXCEPT ![c] = "insertNew"]
  /\ UNCHANGED <<closed, members, ticker, room, tr>>

InsertNew(c) ==
  /\ pc[c] = "insertNew"
  /\ members' = [members EXCEPT ![inst[c]][UserOf[c]] = c]
  /\ pc'      = [pc EXCEPT ![c] = "startTicker"]
  /\ UNCHANGED <<insts, closed, ticker, room, inst, tr>>

StartTicker(c) ==
  /\ pc[c] = "startTicker"
  /\ ticker' = [ticker EXCEPT ![inst[c]] = "running"]
  /\ pc'     = [pc EXCEPT ![c] = "building"]
  /\ UNCHANGED <<insts, closed, members, room, inst, tr>>

\* Variant: the world found is entered without looking at closed.
InsertUnchecked(c) ==
  /\ pc[c] = "insertFound"
  /\ members' = [members EXCEPT ![inst[c]][UserOf[c]] = c]
  /\ pc'      = [pc EXCEPT ![c] = "building"]
  /\ UNCHANGED <<insts, closed, ticker, room, inst, tr>>

InsertFound(c) ==
  /\ pc[c] = "insertFound"
  /\ ~closed[inst[c]]
  /\ members' = [members EXCEPT ![inst[c]][UserOf[c]] = c]
  /\ pc'      = [pc EXCEPT ![c] = "building"]
  /\ UNCHANGED <<insts, closed, ticker, room, inst, tr>>

\* The world is mid-disposal: look the room up again.
InsertRetry(c) ==
  /\ pc[c] = "insertFound"
  /\ closed[inst[c]]
  /\ inst' = [inst EXCEPT ![c] = NoWorld]
  /\ pc'   = [pc EXCEPT ![c] = "lookup"]
  /\ UNCHANGED <<insts, closed, members, ticker, room, tr>>

\* Variant: the newcomer is shown the others but not shown to them.
IntroduceOneWay(c) ==
  LET others == OthersReady(c) IN
  /\ pc[c] = "building"
  /\ tr' = [tr EXCEPT ![c] = @ \cup {UserOf[o] : o \in others}]
  /\ pc' = [pc EXCEPT ![c] = "ready"]
  /\ UNCHANGED <<insts, closed, members, ticker, room, inst>>

(***************************************************************************)
(* The end of sendHuntWorldState: introduceMemberLocked draws every ready  *)
(* member for the newcomer and the newcomer for them, and worldReady puts  *)
(* the newcomer into memberList, in one critical section.                  *)
(***************************************************************************)
BecomeReady(c) ==
  LET others == OthersReady(c) IN
  /\ pc[c] = "building"
  /\ tr' = [d \in Conns |->
              CASE d = c         -> tr[c] \cup {UserOf[o] : o \in others}
                [] d \in others  -> tr[d] \cup {UserOf[c]}
                [] OTHER         -> tr[d]]
  /\ pc' = [pc EXCEPT ![c] = "ready"]
  /\ UNCHANGED <<insts, closed, members, ticker, room, inst>>

(***************************************************************************)
(* closeHunt and leaveInstanceLocked: whoever is registered under the      *)
(* object id is removed, and every remaining member drops that avatar.     *)
(***************************************************************************)
\* Variant: the leaver's entry stays behind.
LeaveNobody(w, u) == members

LeaveMembers(w, u) == [members EXCEPT ![w][u] = NoConn]

CloseHunt(c) ==
  LET w == inst[c]
      u == UserOf[c] IN
  /\ pc[c] = "ready"
  /\ pc' = [pc EXCEPT ![c] = "gone"]
  /\ members' = LeaveMembers(w, u)
  /\ tr' = [d \in Conns |->
              IF members[w][u] # NoConn /\ Member(w, d) /\ UserOf[d] # u
              THEN tr[d] \ {u} ELSE tr[d]]
  /\ UNCHANGED <<insts, closed, ticker, room, inst>>

(***************************************************************************)
(* runInstanceTicker.  A tick of a populated world changes nothing that is *)
(* modelled here; the tick that finds it empty closes it under the world's *)
(* mutex, and the registry entry goes in a second section under Server.mu. *)
(***************************************************************************)
TickClose(w) ==
  /\ ticker[w] = "running"
  /\ ~closed[w]
  /\ \A u \in Users : members[w][u] = NoConn
  /\ closed' = [closed EXCEPT ![w] = TRUE]
  /\ ticker' = [ticker EXCEPT ![w] = "disposing"]
  /\ UNCHANGED <<insts, members, pc, room, inst, tr>>

\* Variant: the registry entry of a closed world is kept.
TickForgetful(w) ==
  /\ ticker[w] = "disposing"
  /\ ticker' = [ticker EXCEPT ![w] = "done"]
  /\ UNCHANGED <<insts, closed, members, pc, room, inst, tr>>

TickDispose(w) ==
  /\ ticker[w] = "disposing"
  /\ insts'  = [r \in Rooms |-> IF insts[r] = w THEN NoWorld ELSE insts[r]]
  /\ ticker' = [ticker EXCEPT ![w] = "done"]
  /\ UNCHANGED <<closed, members, pc, room, inst, tr>>

JoinStep(c) == \/ LookupFound(c)
               \/ \E w \in Worlds : LookupCreate(c, w)
               \/ InsertNew(c)
               \/ StartTicker(c)
               \/ InsertFound(c)
               \/ InsertRetry(c)
               \/ BecomeReady(c)

Tick(w) == TickClose(w) \/ TickDispose(w)

Next == \/ \E c \in Conns, r \in Rooms : Connect(c, r)
        \/ \E c \in Conns  : JoinStep(c)
        \/ \E c \in Conns  : CloseHunt(c)
        \/ \E w \in Worlds : Tick(w)

Spec == Init /\ [][Next]_vars

\* The scheduler runs every goroutine that can run: a connection that is
\* entering goes on entering, a world's ticker keeps ticking.  Clients are
\* under no obligation: they need not connect and need not leave.
Fairness == /\ \A c \in Conns  : WF_vars(JoinStep(c))
            /\ \A w \in Worlds : WF_vars(Tick(w))

FairSpec == Spec /\ Fairness
-----------------------------------------------------------------------------
(***************************************************************************)
(* Properties.                                                             *)
(***************************************************************************)

\* A connection that is inside a world is a member of it, the world is open
\* and it is the one the registry hands to whoever is launched into the room
\* next: joinInstance never leaves a player in a world the ticker has given
\* up, although the world is found under one lock and entered under another.
NeverStranded ==
  \A c \in Conns : pc[c] \in Inside =>
    /\ Member(inst[c], c)
    /\ ~closed[inst[c]]
    /\ insts[room[c]] = inst[c]

\* "disposes the world once the last member has left" (instance.go:283-285):
\* a world that is closed has nobody left inside.
DisposedOnlyWhenLeft ==
  \A w \in Worlds : closed[w] => \A c \in Conns : ~(pc[c] \in Inside /\ inst[c] = w)

\* The worldReady handshake: two ready members of a world render each other,
\* however their joins interleaved, and nobody renders a player who left.
RenderedExactly ==
  \A c \in Conns : pc[c] = "ready" =>
    tr[c] = {UserOf[d] : d \in memberList(inst[c]) \ {c}}

\* Whoever starts to enter a room gets in: the retry on a closed world ends.
JoinCompletes == \A c \in Conns : pc[c] = "lookup" ~> pc[c] = "ready"

\* Once everybody is gone for good, no world stays registered (no leak).
EmptyRoomsForgotten ==
  <>[](\A c \in Conns : pc[c] \in {"offline", "gone"})
    => <>[](\A r \in Rooms : insts[r] = NoWorld)

(***************************************************************************)
(* The refinement: what joinInstance, closeHunt and the ticker implement.  *)
(***************************************************************************)
PlaysIn      == [c \in Conns |-> IF pc[c] \in Inside THEN inst[c] ELSE NoWorld]
ClosedWorlds == {w \in Worlds : closed[w]}

Shared == INSTANCE SharedWorlds WITH where <- PlaysIn, room <- room, retired <- ClosedWorlds

ImplementsSharedWorlds == Shared!Spec
=============================================================================
