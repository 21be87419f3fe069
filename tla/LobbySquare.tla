---------------------------- MODULE LobbySquare ----------------------------
(***************************************************************************)
(* The central squares (battleserver/lobby_render.go, sendWorldState in    *)
(* server.go, closeHunt in hunt.go) together with the push hub that area   *)
(* chat goes through.  A square is never disposed of, so the registry of   *)
(* squares is left out; lobbyInstance.mu makes each section one action,    *)
(* and Hub.SetArea is called after it is released.                         *)
(*                                                                         *)
(* A connection of a user may arrive while the server still holds the      *)
(* previous one of that user (a half-open socket).  Travel says whether    *)
(* the previous one may then be in another square: FALSE means that it is  *)
(* in the same one or closed.                                              *)
(***************************************************************************)
EXTENDS MPDHub

CONSTANTS Conns, UserOf, Travel, NoConn

ASSUME SquareAssumption == /\ UserOf \in [Conns -> Users]
                           /\ Travel \in BOOLEAN
                           /\ NoConn \notin Conns

VARIABLES
  members,  \* lobbyInstance.members of every square: object id (user) -> conn
  pc,       \* where a connection's goroutine stands
  area,     \* the square the client asked for, conn.linst once it joined
  ltr,      \* conn.ltr: the users whose avatar this client renders
  latest    \* the connection the user's client is on (the newest one)

squareVars == <<members, pc, area, ltr, latest>>
vars == <<hubVars, squareVars>>

\* "setArea": in members, SetArea not called yet; "building": until lready.
Standing == {"setArea", "building", "ready"}

TypeOK == /\ HubTypeOK
          /\ members \in [Areas -> [Users -> Conns \cup {NoConn}]]
          /\ pc      \in [Conns -> {"offline", "join", "gone"} \cup Standing]
          /\ area    \in [Conns -> Areas \cup {NoArea}]
          /\ ltr     \in [Conns -> SUBSET Users]
          /\ latest  \in [Users -> Conns \cup {NoConn}]
          /\ \A c \in Conns : pc[c] # "offline" => area[c] # NoArea

Init == /\ HubInit
        /\ members = [a \in Areas |-> [u \in Users |-> NoConn]]
        /\ pc      = [c \in Conns |-> "offline"]
        /\ area    = [c \in Conns |-> NoArea]
        /\ ltr     = [c \in Conns |-> {}]
        /\ latest  = [u \in Users |-> NoConn]

Member(a, c) == members[a][UserOf[c]] = c

\* memberList: the occupants whose scene is fully built.
memberList(a) == {c \in Conns : Member(a, c) /\ pc[c] = "ready"}

\* A client opens its next connection when the previous one is through with
\* entering: it is ready, or over.
Connect(c, a) ==
  /\ pc[c] = "offline"
  /\ \A d \in Conns \ {c} : UserOf[d] = UserOf[c] =>
       \/ pc[d] \in {"offline", "gone"}
       \/ pc[d] = "ready" /\ (Travel \/ area[d] = a)
  /\ pc'     = [pc EXCEPT ![c] = "join"]
  /\ area'   = [area EXCEPT ![c] = a]
  /\ latest' = [latest EXCEPT ![UserOf[c]] = c]
  /\ UNCHANGED <<members, ltr, hubVars>>

(***************************************************************************)
(* joinLobbyInstance.                                                      *)
(***************************************************************************)
Join(c) ==
  /\ pc[c] = "join"
  /\ members' = [members EXCEPT ![area[c]][UserOf[c]] = c]
  /\ pc'      = [pc EXCEPT ![c] = "setArea"]
  /\ UNCHANGED <<area, ltr, latest, hubVars>>

\* Variant: the square is not mirrored into the hub.
MirrorNothing(c) ==
  /\ pc[c] = "setArea"
  /\ pc' = [pc EXCEPT ![c] = "building"]
  /\ UNCHANGED <<members, area, ltr, latest, hubVars>>

MirrorArea(c) ==
  /\ pc[c] = "setArea"
  /\ SetArea(UserOf[c], area[c])
  /\ pc' = [pc EXCEPT ![c] = "building"]
  /\ UNCHANGED <<members, area, ltr, latest, sockVars>>

(***************************************************************************)
(* The end of sendWorldState: introduceLobbyMemberLocked and lready under  *)
(* one lock.  A client tracks its own object id from the start, so it is   *)
(* never shown an avatar with that id.                                     *)
(***************************************************************************)
\* Variant: lready flips without the introduction.
ReadyUnseen(c) ==
  /\ pc[c] = "building"
  /\ pc' = [pc EXCEPT ![c] = "ready"]
  /\ UNCHANGED <<members, area, ltr, latest, hubVars>>

BecomeReady(c) ==
  LET others == {d \in memberList(area[c]) : UserOf[d] # UserOf[c]} IN
  /\ pc[c] = "building"
  /\ ltr' = [d \in Conns |->
               CASE d = c        -> ltr[c] \cup {UserOf[o] : o \in others}
                 [] d \in others -> ltr[d] \cup {UserOf[c]}
                 [] OTHER        -> ltr[d]]
  /\ pc' = [pc EXCEPT ![c] = "ready"]
  /\ UNCHANGED <<members, area, latest, hubVars>>

(***************************************************************************)
(* closeHunt -> leaveLobbyInstanceLocked.  Only the connection registered  *)
(* under the object id leaves; a stale one leaves nothing behind to undo.  *)
(***************************************************************************)
\* Variant: presence under the object id is enough to leave.
CloseAny(c) ==
  LET u == UserOf[c]
      a == area[c] IN
  /\ pc[c] = "ready"
  /\ pc' = [pc EXCEPT ![c] = "gone"]
  /\ members' = [members EXCEPT ![a][u] = NoConn]
  /\ ClearArea(u)
  /\ ltr' = [d \in Conns |->
               IF Member(a, d) /\ UserOf[d] # u THEN ltr[d] \ {u} ELSE ltr[d]]
  /\ UNCHANGED <<area, latest, sockVars>>

\* Variant: leaving does not clear the hub's record.
CloseKeepArea(c) ==
  /\ pc[c] = "ready"
  /\ pc' = [pc EXCEPT ![c] = "gone"]
  /\ IF Member(area[c], c)
     THEN /\ members' = [members EXCEPT ![area[c]][UserOf[c]] = NoConn]
          /\ ltr' = [d \in Conns |->
                       IF Member(area[c], d) /\ d # c THEN ltr[d] \ {UserOf[c]} ELSE ltr[d]]
     ELSE UNCHANGED <<members, ltr>>
  /\ UNCHANGED <<area, latest, hubVars>>

CloseSquare(c) ==
  LET u == UserOf[c]
      a == area[c] IN
  /\ pc[c] = "ready"
  /\ pc' = [pc EXCEPT ![c] = "gone"]
  /\ IF Member(a, c)
     THEN /\ members' = [members EXCEPT ![a][u] = NoConn]
          /\ ClearArea(u)
          /\ ltr' = [d \in Conns |->
                       IF Member(a, d) /\ d # c THEN ltr[d] \ {u} ELSE ltr[d]]
     ELSE UNCHANGED <<members, areas, ltr>>
  /\ UNCHANGED <<area, latest, sockVars>>

Next == \/ \E c \in Conns, a \in Areas : Connect(c, a)
        \/ \E c \in Conns : \/ Join(c)
                            \/ MirrorArea(c)
                            \/ BecomeReady(c)
                            \/ CloseSquare(c)
        \/ \E s \in Socks : SockStep(s) /\ UNCHANGED squareVars

Spec == Init /\ [][Next]_vars
-----------------------------------------------------------------------------
\* The connection c is the one its user is playing on, and it is in a square.
Playing(c) == latest[UserOf[c]] = c /\ pc[c] \in Standing

\* The close of a stale connection never takes the avatar of the connection
\* that replaced it off the square (the guard of lobby_render.go:80-83).
NotEvictedByStale == \A c \in Conns : Playing(c) => Member(area[c], c)

\* Who is on screen: everybody in the square whose scene is built is drawn,
\* and nobody is drawn who is not in the square any more.
RenderedInSquare ==
  \A c \in Conns : Playing(c) /\ pc[c] = "ready" =>
    /\ \A d \in memberList(area[c]) : d # c => UserOf[d] \in ltr[c]
    /\ \A u \in ltr[c] : members[area[c]][u] # NoConn

\* "Mirror square occupancy into the MPD hub so area chat can fan out to this
\* square" (lobby_render.go:51-52): whoever stands ready in a square is among
\* the AreaMembers of exactly that square.
MirrorsSquare ==
  \A c \in Conns : Playing(c) /\ pc[c] = "ready" =>
    UserOf[c] \in AreaMembers(area[c])

\* And nobody is recorded in a square without a connection on that square.
NoGhostInChat ==
  \A u \in Users : areas[u] # NoArea =>
    \E c \in Conns : UserOf[c] = u /\ pc[c] \in Standing /\ area[c] = areas[u]
=============================================================================
