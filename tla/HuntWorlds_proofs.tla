------------------------- MODULE HuntWorlds_proofs -------------------------
(***************************************************************************)
(* For every number of connections, users, rooms and worlds: as long as    *)
(* the connections of one user do not overlap (~Overlap), joinInstance,    *)
(* closeHunt and the ticker strand nobody, draw exactly who is there, and  *)
(* implement SharedWorlds.                                                 *)
(***************************************************************************)
EXTENDS HuntWorlds, TLAPS

Active(c) == pc[c] \notin {"offline", "gone"}

\* One live connection per user: what ~Overlap buys.
OneConnPerUser ==
  \A c, d \in Conns : Active(c) /\ Active(d) /\ UserOf[c] = UserOf[d] => c = d

\* A launch that was not claimed yet names no room.
OfflineRoom == \A c \in Conns : pc[c] = "offline" => room[c] = NoRoom

\* A world is closed by its ticker, and by nothing else.
ClosedByTicker == \A w \in Worlds : closed[w] <=> ticker[w] \in {"disposing", "done"}

\* Between the allocation of a world and the start of its ticker the world is
\* registered and in the hands of the one connection that created it.
CreatorHolds ==
  /\ \A c \in Conns : pc[c] \in {"insertNew", "startTicker"} =>
       /\ ticker[inst[c]] = "fresh"
       /\ insts[room[c]] = inst[c]
  /\ \A c, d \in Conns :
       /\ pc[c] \in {"insertNew", "startTicker"}
       /\ pc[d] \in {"insertNew", "startTicker"}
       /\ inst[c] = inst[d]
       => c = d

\* The world found under Server.mu is still the registered one when it is
\* entered, unless it was closed meanwhile.
FoundOrClosed ==
  \A c \in Conns : pc[c] = "insertFound" => insts[room[c]] = inst[c] \/ closed[inst[c]]

IInv == /\ TypeOK
        /\ OneConnPerUser
        /\ OfflineRoom
        /\ ClosedByTicker
        /\ CreatorHolds
        /\ FoundOrClosed
        /\ NeverStranded
-----------------------------------------------------------------------------
(* One lemma per action that the invariant is sensitive to. *)

USE HuntAssumption

LEMMA InitInv == ASSUME ~Overlap, Init PROVE IInv
BY DEF Init, IInv, TypeOK, OneConnPerUser, OfflineRoom, ClosedByTicker, CreatorHolds,
       FoundOrClosed, NeverStranded, Active, Places, Joining, Inside, Holding, TickerStates

LEMMA ConnectInv ==
  ASSUME ~Overlap, IInv, NEW c \in Conns, NEW r \in Rooms, Connect(c, r)
  PROVE  IInv'
<1> USE DEF IInv, Connect
<1>1. TypeOK'
  BY DEF TypeOK, Places, Joining, Inside, Holding
<1>2. OneConnPerUser'
  BY DEF OneConnPerUser, Active, TypeOK
<1>3. OfflineRoom' /\ ClosedByTicker'
  BY DEF OfflineRoom, ClosedByTicker, TypeOK
<1>4. CreatorHolds'
  BY DEF CreatorHolds, TypeOK
<1>5. FoundOrClosed' /\ NeverStranded'
  BY DEF FoundOrClosed, NeverStranded, TypeOK, Inside, Member
<1> QED BY <1>1, <1>2, <1>3, <1>4, <1>5

LEMMA LookupFoundInv ==
  ASSUME IInv, NEW c \in Conns, LookupFound(c)
  PROVE  IInv'
<1> USE DEF IInv, LookupFound
<1>1. TypeOK'
  BY DEF TypeOK, Places, Joining, Inside, Holding
<1>2. OneConnPerUser'
  BY DEF OneConnPerUser, Active, TypeOK
<1>3. OfflineRoom' /\ ClosedByTicker'
  BY DEF OfflineRoom, ClosedByTicker, TypeOK
<1>4. CreatorHolds'
  BY DEF CreatorHolds, TypeOK
<1>5. FoundOrClosed' /\ NeverStranded'
  BY DEF FoundOrClosed, NeverStranded, TypeOK, Inside, Member
<1> QED BY <1>1, <1>2, <1>3, <1>4, <1>5

LEMMA LookupCreateInv ==
  ASSUME IInv, NEW c \in Conns, NEW w \in Worlds, LookupCreate(c, w)
  PROVE  IInv'
<1> USE DEF IInv, LookupCreate, Unallocated
<1>1. TypeOK'
  BY DEF TypeOK, Places, Joining, Inside, Holding
<1>2. OneConnPerUser'
  BY DEF OneConnPerUser, Active, TypeOK
<1>3. OfflineRoom' /\ ClosedByTicker'
  BY DEF OfflineRoom, ClosedByTicker, TypeOK
<1>4. room[c] \in Rooms
  BY DEF TypeOK
<1>5. CreatorHolds'
  <2>1. ASSUME NEW d \in Conns, pc'[d] \in {"insertNew", "startTicker"}
        PROVE  ticker'[inst'[d]] = "fresh" /\ insts'[room'[d]] = inst'[d]
    <3>1. CASE d = c
      BY <3>1, <1>4 DEF TypeOK
    <3>2. CASE d # c
      <4>1. insts[room[d]] = inst[d] /\ inst[d] # NoWorld /\ ticker[inst[d]] = "fresh"
        BY <2>1, <3>2 DEF CreatorHolds, TypeOK, Holding, Inside
      <4>2. room[d] # room[c]
        BY <4>1
      <4> QED BY <3>2, <4>1, <4>2 DEF TypeOK
    <3> QED BY <3>1, <3>2
  <2>2. ASSUME NEW d \in Conns, NEW e \in Conns,
               pc'[d] \in {"insertNew", "startTicker"},
               pc'[e] \in {"insertNew", "startTicker"},
               inst'[d] = inst'[e]
        PROVE  d = e
    BY <2>2 DEF CreatorHolds, TypeOK
  <2> QED BY <2>1, <2>2 DEF CreatorHolds
<1>6. FoundOrClosed'
  BY <1>4 DEF FoundOrClosed, TypeOK, Holding
<1>7. NeverStranded'
  BY <1>4 DEF NeverStranded, TypeOK, Holding, Inside, Member
<1> QED BY <1>1, <1>2, <1>3, <1>5, <1>6, <1>7

LEMMA InsertNewInv ==
  ASSUME IInv, NEW c \in Conns, InsertNew(c)
  PROVE  IInv'
<1> USE DEF IInv, InsertNew
<1>1. inst[c] \in Worlds /\ room[c] \in Rooms /\ UserOf[c] \in Users
  BY DEF TypeOK, Holding
<1>2. TypeOK'
  BY <1>1 DEF TypeOK, Places, Joining, Inside, Holding
<1>3. OneConnPerUser'
  BY DEF OneConnPerUser, Active, TypeOK
<1>4. OfflineRoom' /\ ClosedByTicker'
  BY DEF OfflineRoom, ClosedByTicker, TypeOK
<1>5. CreatorHolds'
  BY DEF CreatorHolds, TypeOK
<1>6. FoundOrClosed'
  BY DEF FoundOrClosed, TypeOK
<1>7. NeverStranded'
  <2> SUFFICES ASSUME NEW d \in Conns, pc'[d] \in Inside
               PROVE  Member(inst[d], d)' /\ ~closed[inst[d]] /\ insts[room[d]] = inst[d]
    BY DEF NeverStranded
  <2>1. CASE d = c
    <3>1. ~closed[inst[c]] /\ insts[room[c]] = inst[c]
      BY <1>1 DEF CreatorHolds, ClosedByTicker
    <3> QED BY <2>1, <3>1, <1>1 DEF TypeOK, Member
  <2>2. CASE d # c
    <3>1. pc[d] \in Inside
      BY <2>2 DEF TypeOK
    <3>2. UserOf[d] # UserOf[c]
      BY <3>1, <2>2 DEF OneConnPerUser, Active, Inside
    <3> QED BY <3>1, <3>2, <1>1 DEF NeverStranded, Member, TypeOK, Holding
  <2> QED BY <2>1, <2>2
<1> QED BY <1>2, <1>3, <1>4, <1>5, <1>6, <1>7

LEMMA StartTickerInv ==
  ASSUME IInv, NEW c \in Conns, StartTicker(c)
  PROVE  IInv'
<1> USE DEF IInv, StartTicker
<1>1. inst[c] \in Worlds
  BY DEF TypeOK, Holding, Inside
<1>2. TypeOK'
  BY <1>1 DEF TypeOK, Places, Joining, Inside, Holding, TickerStates
<1>3. OneConnPerUser'
  BY DEF OneConnPerUser, Active, TypeOK
<1>4. OfflineRoom'
  BY DEF OfflineRoom, TypeOK
<1>5. ClosedByTicker'
  BY <1>1 DEF ClosedByTicker, CreatorHolds, TypeOK
<1>6. CreatorHolds'
  BY <1>1 DEF CreatorHolds, TypeOK, Holding, Inside
<1>7. FoundOrClosed' /\ NeverStranded'
  BY DEF FoundOrClosed, NeverStranded, TypeOK, Inside, Member
<1> QED BY <1>2, <1>3, <1>4, <1>5, <1>6, <1>7

LEMMA InsertFoundInv ==
  ASSUME IInv, NEW c \in Conns, InsertFound(c)
  PROVE  IInv'
<1> USE DEF IInv, InsertFound
<1>1. inst[c] \in Worlds /\ room[c] \in Rooms /\ UserOf[c] \in Users
  BY DEF TypeOK, Holding
<1>2. TypeOK'
  BY <1>1 DEF TypeOK, Places, Joining, Inside, Holding
<1>3. OneConnPerUser'
  BY DEF OneConnPerUser, Active, TypeOK
<1>4. OfflineRoom' /\ ClosedByTicker'
  BY DEF OfflineRoom, ClosedByTicker, TypeOK
<1>5. CreatorHolds'
  BY DEF CreatorHolds, TypeOK
<1>6. FoundOrClosed'
  BY DEF FoundOrClosed, TypeOK
<1>7. NeverStranded'
  <2> SUFFICES ASSUME NEW d \in Conns, pc'[d] \in Inside
               PROVE  Member(inst[d], d)' /\ ~closed[inst[d]] /\ insts[room[d]] = inst[d]
    BY DEF NeverStranded
  <2>1. CASE d = c
    BY <2>1, <1>1 DEF FoundOrClosed, TypeOK, Member
  <2>2. CASE d # c
    <3>1. pc[d] \in Inside
      BY <2>2 DEF TypeOK
    <3>2. UserOf[d] # UserOf[c]
      BY <3>1, <2>2 DEF OneConnPerUser, Active, Inside
    <3> QED BY <3>1, <3>2, <1>1 DEF NeverStranded, Member, TypeOK, Holding
  <2> QED BY <2>1, <2>2
<1> QED BY <1>2, <1>3, <1>4, <1>5, <1>6, <1>7

LEMMA InsertRetryInv ==
  ASSUME IInv, NEW c \in Conns, InsertRetry(c)
  PROVE  IInv'
<1> USE DEF IInv, InsertRetry
<1>1. TypeOK'
  BY DEF TypeOK, Places, Joining, Inside, Holding
<1>2. OneConnPerUser' /\ OfflineRoom' /\ ClosedByTicker'
  BY DEF OneConnPerUser, Active, OfflineRoom, ClosedByTicker, TypeOK
<1>3. CreatorHolds'
  BY DEF CreatorHolds, TypeOK
<1>4. FoundOrClosed' /\ NeverStranded'
  BY DEF FoundOrClosed, NeverStranded, TypeOK, Inside, Member
<1> QED BY <1>1, <1>2, <1>3, <1>4

LEMMA BecomeReadyInv ==
  ASSUME IInv, NEW c \in Conns, BecomeReady(c)
  PROVE  IInv'
<1> USE DEF IInv, BecomeReady
<1>1. TypeOK'
  <2>1. tr' \in [Conns -> SUBSET Users]
    BY DEF TypeOK, memberList, OthersReady
  <2> QED BY <2>1 DEF TypeOK, Places, Joining, Inside, Holding
<1>2. OneConnPerUser' /\ OfflineRoom' /\ ClosedByTicker'
  BY DEF OneConnPerUser, Active, OfflineRoom, ClosedByTicker, TypeOK
<1>3. CreatorHolds'
  BY DEF CreatorHolds, TypeOK
<1>4. FoundOrClosed' /\ NeverStranded'
  BY DEF FoundOrClosed, NeverStranded, TypeOK, Inside, Member
<1> QED BY <1>1, <1>2, <1>3, <1>4

LEMMA CloseHuntInv ==
  ASSUME IInv, NEW c \in Conns, CloseHunt(c)
  PROVE  IInv'
<1> USE DEF IInv, CloseHunt, LeaveMembers
<1>1. inst[c] \in Worlds /\ UserOf[c] \in Users
  BY DEF TypeOK, Holding, Inside
<1>2. TypeOK'
  BY <1>1 DEF TypeOK, Places, Joining, Inside, Holding
<1>3. OneConnPerUser' /\ OfflineRoom' /\ ClosedByTicker'
  BY DEF OneConnPerUser, Active, OfflineRoom, ClosedByTicker, TypeOK
<1>4. CreatorHolds' /\ FoundOrClosed'
  BY DEF CreatorHolds, FoundOrClosed, TypeOK
<1>5. NeverStranded'
  <2> SUFFICES ASSUME NEW d \in Conns, pc'[d] \in Inside
               PROVE  Member(inst[d], d)' /\ ~closed[inst[d]] /\ insts[room[d]] = inst[d]
    BY DEF NeverStranded
  <2>1. d # c /\ pc[d] \in Inside
    BY DEF TypeOK, Inside
  <2>2. UserOf[d] # UserOf[c]
    BY <2>1 DEF OneConnPerUser, Active, Inside
  <2> QED BY <2>1, <2>2, <1>1 DEF NeverStranded, Member, TypeOK, Holding
<1> QED BY <1>2, <1>3, <1>4, <1>5

LEMMA TickCloseInv ==
  ASSUME IInv, NEW w \in Worlds, TickClose(w)
  PROVE  IInv'
<1> USE DEF IInv, TickClose
<1>1. TypeOK'
  BY DEF TypeOK, Places, Joining, Inside, Holding, TickerStates
<1>2. OneConnPerUser' /\ OfflineRoom' /\ ClosedByTicker'
  BY DEF OneConnPerUser, Active, OfflineRoom, ClosedByTicker, TypeOK
<1>3. CreatorHolds'
  BY DEF CreatorHolds, TypeOK
<1>4. FoundOrClosed'
  BY DEF FoundOrClosed, TypeOK
<1>5. NeverStranded'
  \* The world is empty, so whoever is inside is inside another one.
  <2>1. ASSUME NEW d \in Conns, pc[d] \in Inside PROVE inst[d] # w
    BY <2>1 DEF NeverStranded, Member, TypeOK
  <2> QED BY <2>1 DEF NeverStranded, Member, TypeOK
<1> QED BY <1>1, <1>2, <1>3, <1>4, <1>5

LEMMA TickDisposeInv ==
  ASSUME IInv, NEW w \in Worlds, TickDispose(w)
  PROVE  IInv'
<1> USE DEF IInv, TickDispose
<1>1. TypeOK'
  BY DEF TypeOK, Places, Joining, Inside, Holding, TickerStates
<1>2. OneConnPerUser' /\ OfflineRoom' /\ ClosedByTicker'
  BY DEF OneConnPerUser, Active, OfflineRoom, ClosedByTicker, TypeOK
<1>3. closed[w]
  BY DEF ClosedByTicker
<1>4. CreatorHolds'
  BY DEF CreatorHolds, TypeOK
<1>5. FoundOrClosed'
  BY <1>3 DEF FoundOrClosed, TypeOK
<1>6. NeverStranded'
  BY <1>3 DEF NeverStranded, Member, TypeOK, Inside
<1> QED BY <1>1, <1>2, <1>4, <1>5, <1>6

LEMMA NextInv == ASSUME ~Overlap, IInv, [Next]_vars PROVE IInv'
<1>1. ASSUME NEW c \in Conns, NEW r \in Rooms, Connect(c, r) PROVE IInv'
  BY <1>1, ConnectInv
<1>2. ASSUME NEW c \in Conns, JoinStep(c) PROVE IInv'
  BY <1>2, LookupFoundInv, LookupCreateInv, InsertNewInv, StartTickerInv,
     InsertFoundInv, InsertRetryInv, BecomeReadyInv DEF JoinStep
<1>3. ASSUME NEW c \in Conns, CloseHunt(c) PROVE IInv'
  BY <1>3, CloseHuntInv
<1>4. ASSUME NEW w \in Worlds, Tick(w) PROVE IInv'
  BY <1>4, TickCloseInv, TickDisposeInv DEF Tick
<1>5. CASE UNCHANGED vars
  BY <1>5 DEF vars, IInv, TypeOK, OneConnPerUser, OfflineRoom, ClosedByTicker, CreatorHolds,
              FoundOrClosed, NeverStranded, Active, Member
<1> QED BY <1>1, <1>2, <1>3, <1>4, <1>5 DEF Next

\* Type correctness: in particular no goroutine that is entering or inside a
\* world holds a nil one (joinInstance, sendWorldState).
THEOREM TypeCorrect == ASSUME ~Overlap PROVE Spec => []TypeOK
<1>1. Init => IInv  BY InitInv
<1>2. IInv /\ [Next]_vars => IInv'  BY NextInv
<1>3. IInv => TypeOK  BY DEF IInv
<1> QED BY <1>1, <1>2, <1>3, PTL DEF Spec

\* joinInstance against runInstanceTicker: a player inside a world is a member
\* of the open world that the registry holds for the room.
THEOREM NobodyStranded == ASSUME ~Overlap PROVE Spec => []NeverStranded
<1>1. Init => IInv  BY InitInv
<1>2. IInv /\ [Next]_vars => IInv'  BY NextInv
<1>3. IInv => NeverStranded  BY DEF IInv
<1> QED BY <1>1, <1>2, <1>3, PTL DEF Spec

-----------------------------------------------------------------------------
(***************************************************************************)
(* The refinement: outside the actions below every step leaves what is    *)
(* substituted for where, room and retired alone.                          *)
(***************************************************************************)
LEMMA InitRefines == ASSUME Init PROVE Shared!Init
BY DEF Init, Shared!Init, PlaysIn, ClosedWorlds, Inside

LEMMA ConnectRefines ==
  ASSUME IInv, NEW c \in Conns, NEW r \in Rooms, Connect(c, r)
  PROVE  Shared!Launch(c, r)
<1>1. PlaysIn' = PlaysIn /\ ClosedWorlds' = ClosedWorlds
  BY DEF IInv, TypeOK, Connect, PlaysIn, ClosedWorlds, Inside
<1> QED BY <1>1 DEF IInv, OfflineRoom, Connect, Shared!Launch

\* Either way into a world: c gets inside inst[c], which is open and registered.
LEMMA InsertRefines ==
  ASSUME IInv, NEW c \in Conns, pc[c] \in {"insertNew", "insertFound"},
         pc' = [pc EXCEPT ![c] = "startTicker"] \/ pc' = [pc EXCEPT ![c] = "building"],
         ~closed[inst[c]], insts[room[c]] = inst[c],
         UNCHANGED <<closed, room, inst>>
  PROVE  Shared!Enter(c, inst[c])
<1>1. PlaysIn[c] = NoWorld /\ room[c] # NoRoom /\ inst[c] \notin ClosedWorlds
  BY DEF IInv, TypeOK, PlaysIn, ClosedWorlds, Inside
<1>2. ASSUME NEW d \in Shared!Inside(room[c]) PROVE PlaysIn[d] = inst[c]
  <2>1. d \in Conns /\ room[d] = room[c] /\ pc[d] \in Inside /\ PlaysIn[d] = inst[d]
    BY <1>2 DEF Shared!Inside, PlaysIn
  <2> QED BY <2>1 DEF IInv, NeverStranded
<1>3. PlaysIn' = [PlaysIn EXCEPT ![c] = inst[c]]
  BY DEF IInv, TypeOK, PlaysIn, Inside
<1>4. ClosedWorlds' = ClosedWorlds
  BY DEF ClosedWorlds
<1> QED BY <1>1, <1>2, <1>3, <1>4 DEF Shared!Enter

LEMMA CloseHuntRefines ==
  ASSUME IInv, NEW c \in Conns, CloseHunt(c)
  PROVE  Shared!Leave(c)
<1>1. PlaysIn[c] # NoWorld
  BY DEF IInv, TypeOK, CloseHunt, PlaysIn, Inside, Holding
<1>2. PlaysIn' = [PlaysIn EXCEPT ![c] = NoWorld]
  BY DEF IInv, TypeOK, CloseHunt, PlaysIn, Inside
<1> QED BY <1>1, <1>2 DEF CloseHunt, Shared!Leave, ClosedWorlds

LEMMA TickCloseRefines ==
  ASSUME IInv, NEW w \in Worlds, TickClose(w)
  PROVE  Shared!Retire(w)
<1>1. ASSUME NEW c \in Conns PROVE PlaysIn[c] # w
  <2>1. CASE pc[c] \in Inside /\ inst[c] = w
    <3>1. members[w][UserOf[c]] = c /\ UserOf[c] \in Users
      BY <2>1 DEF IInv, NeverStranded, Member
    <3> QED BY <3>1 DEF TickClose
  <2>2. CASE ~(pc[c] \in Inside /\ inst[c] = w)
    BY <2>2 DEF PlaysIn
  <2> QED BY <2>1, <2>2
<1>2. ClosedWorlds' = ClosedWorlds \cup {w}
  BY DEF IInv, TypeOK, TickClose, ClosedWorlds
<1>3. PlaysIn' = PlaysIn /\ room' = room
  BY DEF TickClose, PlaysIn
<1> QED BY <1>1, <1>2, <1>3 DEF Shared!Retire

\* The other steps change neither who is inside a world nor which worlds are open.
LEMMA StutterRefines ==
  ASSUME IInv, NEW c \in Conns,
         \/ LookupFound(c)
         \/ \E w \in Worlds : LookupCreate(c, w)
         \/ StartTicker(c)
         \/ InsertRetry(c)
         \/ BecomeReady(c)
  PROVE  UNCHANGED <<PlaysIn, room, ClosedWorlds>>
<1> USE DEF IInv, TypeOK, PlaysIn, ClosedWorlds, Inside
<1>1. CASE LookupFound(c)  BY <1>1 DEF LookupFound
<1>2. CASE \E w \in Worlds : LookupCreate(c, w)  BY <1>2 DEF LookupCreate
<1>3. CASE StartTicker(c)  BY <1>3 DEF StartTicker
<1>4. CASE InsertRetry(c)  BY <1>4 DEF InsertRetry
<1>5. CASE BecomeReady(c)  BY <1>5 DEF BecomeReady
<1> QED BY <1>1, <1>2, <1>3, <1>4, <1>5

LEMMA DisposeRefines ==
  ASSUME NEW w \in Worlds, TickDispose(w)
  PROVE  UNCHANGED <<PlaysIn, room, ClosedWorlds>>
BY DEF TickDispose, PlaysIn, ClosedWorlds

LEMMA NextRefines == ASSUME IInv, [Next]_vars PROVE [Shared!Next]_(Shared!vars)
<1>1. ASSUME NEW c \in Conns, NEW r \in Rooms, Connect(c, r) PROVE Shared!Next
  BY <1>1, ConnectRefines DEF Shared!Next
<1>2. ASSUME NEW c \in Conns, InsertNew(c) PROVE Shared!Next
  <2>1. inst[c] \in Worlds
    BY <1>2 DEF InsertNew, IInv, TypeOK, Holding
  <2>2. ~closed[inst[c]] /\ insts[room[c]] = inst[c]
    BY <1>2, <2>1 DEF InsertNew, IInv, CreatorHolds, ClosedByTicker
  <2>3. Shared!Enter(c, inst[c])
    BY <1>2, <2>2, InsertRefines DEF InsertNew
  <2> QED BY <2>1, <2>3 DEF Shared!Next
<1>3. ASSUME NEW c \in Conns, InsertFound(c) PROVE Shared!Next
  <2>1. inst[c] \in Worlds
    BY <1>3 DEF InsertFound, IInv, TypeOK, Holding
  <2>2. ~closed[inst[c]] /\ insts[room[c]] = inst[c]
    BY <1>3 DEF InsertFound, IInv, FoundOrClosed
  <2>3. Shared!Enter(c, inst[c])
    BY <1>3, <2>2, InsertRefines DEF InsertFound
  <2> QED BY <2>1, <2>3 DEF Shared!Next
<1>4. ASSUME NEW c \in Conns, CloseHunt(c) PROVE Shared!Next
  BY <1>4, CloseHuntRefines DEF Shared!Next
<1>5. ASSUME NEW w \in Worlds, TickClose(w) PROVE Shared!Next
  BY <1>5, TickCloseRefines DEF Shared!Next
<1>6. CASE UNCHANGED vars
  BY <1>6 DEF vars, Shared!vars, PlaysIn, ClosedWorlds
<1>7. ASSUME NEW c \in Conns, JoinStep(c) PROVE [Shared!Next]_(Shared!vars)
  <2>1. CASE InsertNew(c) \/ InsertFound(c)
    BY <2>1, <1>2, <1>3
  <2>2. CASE ~(InsertNew(c) \/ InsertFound(c))
    <3>1. \/ LookupFound(c)
          \/ \E w \in Worlds : LookupCreate(c, w)
          \/ StartTicker(c)
          \/ InsertRetry(c)
          \/ BecomeReady(c)
      BY <2>2, <1>7 DEF JoinStep
    <3>2. UNCHANGED <<PlaysIn, room, ClosedWorlds>>
      BY <3>1, StutterRefines
    <3> QED BY <3>2 DEF Shared!vars
  <2> QED BY <2>1, <2>2
<1>8. ASSUME NEW w \in Worlds, Tick(w) PROVE [Shared!Next]_(Shared!vars)
  <2>1. CASE TickClose(w)
    BY <2>1, <1>5
  <2>2. CASE TickDispose(w)
    BY <2>2, DisposeRefines DEF Shared!vars
  <2> QED BY <2>1, <2>2, <1>8 DEF Tick
<1> QED BY <1>1, <1>4, <1>6, <1>7, <1>8 DEF Next

\* The registry, the mutexes and the ticker implement the lock-free promise.
THEOREM Refinement == ASSUME ~Overlap PROVE Spec => ImplementsSharedWorlds
<1>1. Init => IInv  BY InitInv
<1>2. IInv /\ [Next]_vars => IInv'  BY NextInv
<1>3. Init => Shared!Init  BY InitRefines
<1>4. IInv /\ [Next]_vars => [Shared!Next]_(Shared!vars)  BY NextRefines
<1> QED BY <1>1, <1>2, <1>3, <1>4, PTL DEF Spec, Shared!Spec, ImplementsSharedWorlds

-----------------------------------------------------------------------------
(***************************************************************************)
(* Rendering.  RInv adds what RenderedExactly needs: an entry of members   *)
(* is always a connection of that user that is inside that world, and a    *)
(* scene that is not built yet shows nobody.                               *)
(***************************************************************************)
EntriesFaithful ==
  \A w \in Worlds, u \in Users : members[w][u] # NoConn =>
    /\ UserOf[members[w][u]] = u
    /\ pc[members[w][u]] \in Inside
    /\ inst[members[w][u]] = w

Unbuilt == \A c \in Conns : pc[c] \notin {"ready", "gone"} => tr[c] = {}

RInv == EntriesFaithful /\ Unbuilt /\ RenderedExactly

\* The users behind a set of connections.
Names(S) == {UserOf[e] : e \in S}

LEMMA InitR == ASSUME Init PROVE RInv
BY DEF Init, RInv, EntriesFaithful, Unbuilt, RenderedExactly

\* Steps that move no entry, make nobody ready and draw nothing.
LEMMA QuietR ==
  ASSUME IInv, RInv, UNCHANGED <<members, tr>>,
         \A d \in Conns : /\ pc[d] \in Inside => pc'[d] \in Inside /\ inst'[d] = inst[d]
                          /\ (pc[d] = "ready") <=> (pc'[d] = "ready")
                          /\ (pc[d] = "gone") <=> (pc'[d] = "gone")
  PROVE  RInv'
<1>1. EntriesFaithful'
  <2> SUFFICES ASSUME NEW v \in Worlds, NEW x \in Users, members[v][x] # NoConn
               PROVE  /\ UserOf[members[v][x]] = x
                      /\ pc'[members[v][x]] \in Inside
                      /\ inst'[members[v][x]] = v
    BY DEF EntriesFaithful
  <2>1. members[v][x] \in Conns
    BY DEF IInv, TypeOK
  <2> QED BY <2>1 DEF RInv, EntriesFaithful
<1>2. Unbuilt'
  BY DEF RInv, Unbuilt
<1>3. \A w \in Worlds : memberList(w)' = memberList(w)
  BY DEF memberList, Member
<1>4. ASSUME NEW d \in Conns, pc'[d] = "ready"
      PROVE  /\ inst'[d] = inst[d] /\ inst[d] \in Worlds
             /\ tr'[d] = Names(memberList(inst[d]) \ {d})
  BY <1>4 DEF RInv, RenderedExactly, IInv, TypeOK, Holding, Inside, Names
<1>5. RenderedExactly'
  BY <1>3, <1>4 DEF RenderedExactly, Names
<1> QED BY <1>1, <1>2, <1>5 DEF RInv

\* The two ways into a world: the key was free, because the user has no other
\* connection, so one entry appears and no ready member is displaced.
LEMMA InsertR ==
  ASSUME IInv, RInv, NEW c \in Conns, pc[c] \in {"insertNew", "insertFound"},
         members' = [members EXCEPT ![inst[c]][UserOf[c]] = c],
         pc' = [pc EXCEPT ![c] = "startTicker"] \/ pc' = [pc EXCEPT ![c] = "building"],
         UNCHANGED <<inst, tr>>
  PROVE  RInv'
<1> USE DEF IInv, TypeOK
<1>1. inst[c] \in Worlds /\ UserOf[c] \in Users
  BY DEF Holding
<1>2. members[inst[c]][UserOf[c]] = NoConn
  <2> SUFFICES ASSUME members[inst[c]][UserOf[c]] # NoConn PROVE FALSE
    OBVIOUS
  <2> DEFINE d == members[inst[c]][UserOf[c]]
  <2>1. d \in Conns /\ UserOf[d] = UserOf[c] /\ pc[d] \in Inside
    BY <1>1 DEF RInv, EntriesFaithful
  <2> QED BY <2>1 DEF OneConnPerUser, Active, Inside
<1>3. EntriesFaithful'
  <2> SUFFICES ASSUME NEW v \in Worlds, NEW x \in Users, members'[v][x] # NoConn
               PROVE  /\ UserOf[members'[v][x]] = x
                      /\ pc'[members'[v][x]] \in Inside
                      /\ inst[members'[v][x]] = v
    BY DEF EntriesFaithful
  <2>1. CASE v = inst[c] /\ x = UserOf[c]
    BY <2>1, <1>1 DEF Inside
  <2>2. CASE ~(v = inst[c] /\ x = UserOf[c])
    <3>1. members'[v][x] = members[v][x] /\ members[v][x] \in Conns
      BY <2>2, <1>1
    <3>2. pc[members[v][x]] \in Inside
      BY <3>1 DEF RInv, EntriesFaithful
    <3>3. members[v][x] # c
      BY <3>2 DEF Inside
    <3> QED BY <3>1, <3>2, <3>3 DEF RInv, EntriesFaithful
  <2> QED BY <2>1, <2>2
<1>4. Unbuilt'
  BY DEF RInv, Unbuilt
<1>5. \A w \in Worlds : memberList(w)' = memberList(w)
  BY <1>1, <1>2 DEF memberList, Member
<1>6. ASSUME NEW d \in Conns, pc'[d] = "ready"
      PROVE  inst[d] \in Worlds /\ tr[d] = Names(memberList(inst[d]) \ {d})
  BY <1>6 DEF Holding, Inside, RInv, RenderedExactly, Names
<1>7. RenderedExactly'
  BY <1>5, <1>6 DEF RenderedExactly, Names
<1> QED BY <1>3, <1>4, <1>7 DEF RInv

LEMMA BecomeReadyR ==
  ASSUME IInv, RInv, NEW c \in Conns, BecomeReady(c)
  PROVE  RInv'
<1> USE DEF IInv, TypeOK
<1>0. PICK w \in Worlds : w = inst[c]
  BY DEF BecomeReady, Holding, Inside
<1> DEFINE others == memberList(w) \ {c}
<1>1. /\ pc[c] = "building" /\ pc' = [pc EXCEPT ![c] = "ready"]
      /\ UNCHANGED <<members, inst>>
      /\ tr' = [d \in Conns |-> CASE d = c        -> tr[c] \cup {UserOf[o] : o \in others}
                                  [] d \in others -> tr[d] \cup {UserOf[c]}
                                  [] OTHER        -> tr[d]]
  <2>1. members[w][UserOf[c]] = c
    BY <1>0 DEF BecomeReady, Inside, NeverStranded, Member
  <2>2. OthersReady(c) = others
    BY <1>0, <2>1 DEF OthersReady, memberList, Member
  <2> QED BY <1>0, <2>2 DEF BecomeReady
<1>2. Member(w, c) /\ UserOf[c] \in Users
  BY <1>0, <1>1 DEF Holding, Inside, NeverStranded
<1>3. EntriesFaithful'
  BY <1>1 DEF RInv, EntriesFaithful, Inside
<1>4. Unbuilt'
  BY <1>1 DEF RInv, Unbuilt, memberList
<1>5. memberList(w)' = memberList(w) \cup {c} /\ c \notin memberList(w)
  BY <1>1, <1>2 DEF memberList, Member
<1>6. \A v \in Worlds : v # w => memberList(v)' = memberList(v)
  \* c is a member of its own world only
  BY <1>0, <1>1, <1>2 DEF memberList, Member, RInv, EntriesFaithful
<1>7. ASSUME NEW d \in Conns, pc'[d] = "ready", NEW v \in Worlds, v = inst[d]
      PROVE  tr'[d] = Names(memberList(v)' \ {d})
  <2>1. CASE d = c
    <3>1. tr'[c] = Names(others)
      BY <1>1 DEF RInv, Unbuilt, Names
    <3>2. memberList(w)' \ {c} = others
      BY <1>5
    <3> QED BY <2>1, <3>1, <3>2, <1>0, <1>7
  <2>2. CASE d # c /\ inst[d] = w
    <3>1. pc[d] = "ready" /\ Member(w, d)
      BY <1>1, <1>7, <2>2 DEF NeverStranded, Inside
    <3>2. d \in others
      BY <3>1, <2>2 DEF memberList
    <3>3. tr[d] = Names(memberList(w) \ {d})
      BY <3>1, <2>2 DEF RInv, RenderedExactly, Names
    <3>4. tr'[d] = tr[d] \cup {UserOf[c]}
      BY <1>1, <3>2, <2>2
    <3>5. memberList(w)' \ {d} = (memberList(w) \ {d}) \cup {c}
      BY <1>5, <2>2
    <3>6. Names((memberList(w) \ {d}) \cup {c}) = Names(memberList(w) \ {d}) \cup {UserOf[c]}
      BY DEF Names
    <3> QED BY <3>3, <3>4, <3>5, <3>6, <2>2, <1>7
  <2>3. CASE d # c /\ inst[d] # w
    <3>1. pc[d] = "ready" /\ inst[d] \in Worlds
      BY <1>1, <1>7, <2>3 DEF Holding, Inside
    <3>2. d \notin others
      <4>1. CASE members[w][UserOf[d]] = d
        BY <4>1, <2>3, <1>2 DEF RInv, EntriesFaithful
      <4>2. CASE members[w][UserOf[d]] # d
        BY <4>2 DEF memberList, Member
      <4> QED BY <4>1, <4>2
    <3>3. tr'[d] = tr[d]
      BY <1>1, <3>2, <2>3
    <3>4. tr[d] = Names(memberList(v) \ {d})
      BY <3>1, <1>7 DEF RInv, RenderedExactly, Names
    <3> QED BY <3>3, <3>4, <1>6, <1>7, <2>3
  <2> QED BY <2>1, <2>2, <2>3
<1>8. RenderedExactly'
  <2>1. ASSUME NEW d \in Conns, pc'[d] = "ready"
        PROVE  inst[d] \in Worlds /\ tr'[d] = Names(memberList(inst[d])' \ {d})
    <3>1. inst'[d] = inst[d] /\ inst[d] \in Worlds
      BY <1>1, <2>1 DEF Holding, Inside
    <3> QED BY <3>1, <2>1, <1>7
  <2> QED BY <2>1, <1>1 DEF RenderedExactly, Names
<1> QED BY <1>3, <1>4, <1>8 DEF RInv

LEMMA CloseHuntR ==
  ASSUME IInv, RInv, NEW c \in Conns, CloseHunt(c)
  PROVE  RInv'
<1> USE DEF IInv, TypeOK
<1>0. PICK w \in Worlds : w = inst[c]
  BY DEF CloseHunt, Holding, Inside
<1> DEFINE u == UserOf[c]
<1>1. /\ pc[c] = "ready" /\ pc' = [pc EXCEPT ![c] = "gone"]
      /\ members' = [members EXCEPT ![w][u] = NoConn] /\ inst' = inst
      /\ tr' = [d \in Conns |-> IF members[w][u] # NoConn /\ Member(w, d) /\ UserOf[d] # u
                               THEN tr[d] \ {u} ELSE tr[d]]
  BY <1>0 DEF CloseHunt, LeaveMembers
<1>2. u \in Users /\ members[w][u] = c
  BY <1>0, <1>1 DEF Holding, Inside, NeverStranded, Member
<1>3. EntriesFaithful'
  <2> SUFFICES ASSUME NEW v \in Worlds, NEW x \in Users, members'[v][x] # NoConn
               PROVE  /\ UserOf[members'[v][x]] = x
                      /\ pc'[members'[v][x]] \in Inside
                      /\ inst'[members'[v][x]] = v
    BY DEF EntriesFaithful
  <2>1. ~(v = w /\ x = u) /\ members'[v][x] = members[v][x]
    BY <1>1, <1>2
  <2>2. members[v][x] # c
    BY <2>1, <1>0, <1>2 DEF RInv, EntriesFaithful
  <2> QED BY <2>1, <2>2, <1>1 DEF RInv, EntriesFaithful
<1>4. Unbuilt'
  BY <1>1 DEF RInv, Unbuilt
<1>5. memberList(w)' = memberList(w) \ {c}
  BY <1>1, <1>2 DEF memberList, Member
<1>6. \A v \in Worlds : v # w => memberList(v)' = memberList(v)
  BY <1>0, <1>1, <1>2 DEF memberList, Member, RInv, EntriesFaithful
<1>7. ASSUME NEW d \in Conns, pc'[d] = "ready", NEW v \in Worlds, v = inst[d]
      PROVE  tr'[d] = Names(memberList(v)' \ {d})
  <2>1. pc[d] = "ready" /\ d # c /\ inst[d] \in Worlds
    BY <1>1, <1>7 DEF Holding, Inside
  <2>2. CASE inst[d] = w
    <3>1. Member(w, d) /\ UserOf[d] # u
      BY <2>1, <2>2, <1>2 DEF NeverStranded, Inside, Member
    <3>2. tr'[d] = tr[d] \ {u}
      BY <1>1, <1>2, <3>1
    <3>3. tr[d] = Names(memberList(w) \ {d})
      BY <2>1, <2>2 DEF RInv, RenderedExactly, Names
    <3>4. \A e \in memberList(w) : UserOf[e] = u => e = c
      BY <1>2 DEF memberList, Member
    <3>5. Names(memberList(w) \ {d}) \ {u} = Names((memberList(w) \ {c}) \ {d})
      BY <3>4 DEF Names
    <3> QED BY <3>2, <3>3, <3>5, <1>5, <1>7, <2>2
  <2>3. CASE inst[d] # w
    <3>1. ~Member(w, d)
      BY <2>1, <2>3, <1>2 DEF RInv, EntriesFaithful, Member
    <3>2. tr'[d] = tr[d]
      BY <1>1, <3>1
    <3>3. tr[d] = Names(memberList(v) \ {d})
      BY <2>1, <1>7 DEF RInv, RenderedExactly, Names
    <3> QED BY <3>2, <3>3, <1>6, <1>7, <2>3
  <2> QED BY <2>2, <2>3
<1>8. RenderedExactly'
  <2>1. ASSUME NEW d \in Conns, pc'[d] = "ready"
        PROVE  inst[d] \in Worlds /\ tr'[d] = Names(memberList(inst[d])' \ {d})
    <3>1. inst'[d] = inst[d] /\ inst[d] \in Worlds
      BY <1>1, <2>1 DEF Holding, Inside
    <3> QED BY <3>1, <2>1, <1>7
  <2> QED BY <2>1, <1>1 DEF RenderedExactly, Names
<1> QED BY <1>3, <1>4, <1>8 DEF RInv

LEMMA NextR == ASSUME IInv, RInv, [Next]_vars PROVE RInv'
<1> USE DEF IInv, TypeOK
<1>1. ASSUME NEW c \in Conns, NEW r \in Rooms, Connect(c, r) PROVE RInv'
  BY <1>1, QuietR DEF Connect, Places, Joining, Inside
<1>2. ASSUME NEW c \in Conns, JoinStep(c) PROVE RInv'
  <2>1. CASE LookupFound(c)
    BY <2>1, QuietR DEF LookupFound, Places, Joining, Inside
  <2>2. CASE \E w \in Worlds : LookupCreate(c, w)
    BY <2>2, QuietR DEF LookupCreate, Places, Joining, Inside
  <2>3. CASE InsertNew(c)
    BY <2>3, InsertR DEF InsertNew
  <2>4. CASE StartTicker(c)
    BY <2>4, QuietR DEF StartTicker, Places, Joining, Inside
  <2>5. CASE InsertFound(c)
    BY <2>5, InsertR DEF InsertFound
  <2>6. CASE InsertRetry(c)
    BY <2>6, QuietR DEF InsertRetry, Places, Joining, Inside
  <2>7. CASE BecomeReady(c)
    BY <2>7, BecomeReadyR
  <2> QED BY <1>2, <2>1, <2>2, <2>3, <2>4, <2>5, <2>6, <2>7 DEF JoinStep
<1>3. ASSUME NEW c \in Conns, CloseHunt(c) PROVE RInv'
  BY <1>3, CloseHuntR
<1>4. ASSUME NEW w \in Worlds, Tick(w) PROVE RInv'
  BY <1>4, QuietR DEF Tick, TickClose, TickDispose
<1>5. CASE UNCHANGED vars
  BY <1>5, QuietR DEF vars
<1> QED BY <1>1, <1>2, <1>3, <1>4, <1>5 DEF Next

\* introduceMemberLocked with worldReady, and leaveInstanceLocked: the avatars
\* on a player's screen are exactly the other ready members of the world.
THEOREM RenderingExact == ASSUME ~Overlap PROVE Spec => []RenderedExactly
<1>1. Init => IInv /\ RInv  BY InitInv, InitR
<1>2. (IInv /\ RInv) /\ [Next]_vars => (IInv /\ RInv)'  BY NextInv, NextR
<1>3. IInv /\ RInv => RenderedExactly  BY DEF RInv
<1> QED BY <1>1, <1>2, <1>3, PTL DEF Spec
=============================================================================
