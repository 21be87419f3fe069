--------------------------- MODULE Places_proofs ----------------------------
(***************************************************************************)
(* The squares and the match rooms.  For every number of users,            *)
(* connections, push sockets and squares: stale connections and evicted    *)
(* sockets that end late do no harm to their successors in the square, on  *)
(* the screens and in the hub; and as long as a half-open connection is in *)
(* the same square as its successor (~Travel), area chat reaches everybody *)
(* who stands in a square.  For every number of rooms, servers and players *)
(* and every grace period: the match host never tears down a match that    *)
(* its reaper has seen, sends everybody of a room to one server, and gives *)
(* the launch that creates a server its whole grace period.                *)
(***************************************************************************)
EXTENDS LobbySquare, MatchRooms, TLAPS

\* The player holds the answer of a launch.
Bound(p) == ppc[p] \in {"launched", "accepted", "playing"}

\* That answer is the shared server, the registered one of the room, or one being torn down.
Routed ==
  \A p \in Players : Bound(p) =>
    /\ room[p] \in Rooms
    /\ port[p] = Main \/ rooms[room[p]] = port[p] \/ Reaped(port[p])

\* The reaper of a server that has counted a player does not get past counting
\* while he plays; nobody is counted before he enters.
CountedIsKept ==
  \A p \in Players : /\ ppc[p] \in {"launched", "accepted"} => ~seen[p]
                     /\ ppc[p] = "playing" /\ seen[p] => port[p] \in Servers /\ reaper[port[p]] = "sleep"

\* Only servers that were created are registered or answered, and a server
\* listens until its reaper is done.
Created ==
  /\ \A r \in Rooms : rooms[r] # NoServer => reaper[rooms[r]] # "unborn"
  /\ \A p \in Players : ppc[p] = "launched" => port[p] = Main \/ reaper[port[p]] # "unborn"
  /\ \A s \in Servers : reaper[s] = "unborn" => idle[s] = 0
  /\ \A s \in Servers : reaper[s] \notin {"unborn", "done"} => s \in listening

\* A server has been idle for no longer than its creator has been under way.
Patience ==
  \A p \in Players : ppc[p] = "launched" /\ fresh[p] =>
    /\ port[p] \in Servers
    /\ idle[port[p]] <= waited[p]
    /\ Reaped(port[p]) => waited[p] = Grace

RoomsInv == RoomsTypeOK /\ Routed /\ CountedIsKept /\ Created /\ Patience /\ FirstLaunchHonoured
-----------------------------------------------------------------------------
(* One lemma per action. *)

USE MatchAssumption DEF ReaperStates, Reaped, Bound

LEMMA RoomsInitInv == RoomsInit => RoomsInv
BY DEF RoomsInit, RoomsInv, RoomsTypeOK, Routed, CountedIsKept, Created, Patience, FirstLaunchHonoured

LEMMA LaunchFoundInv ==
  ASSUME RoomsInv, NEW p \in Players, NEW r \in Rooms, LaunchFound(p, r)
  PROVE  RoomsInv'
<1> USE DEF RoomsInv, LaunchFound, Answer
<1>1. RoomsTypeOK'
  BY DEF RoomsTypeOK
<1>2. Routed'
  BY DEF RoomsTypeOK, Routed
<1>3. CountedIsKept'
  BY DEF RoomsTypeOK, CountedIsKept
<1>4. Created'
  BY DEF RoomsTypeOK, Created
<1>5. Patience'
  BY DEF RoomsTypeOK, Patience
<1>6. FirstLaunchHonoured'
  BY DEF RoomsTypeOK, FirstLaunchHonoured
<1> QED BY <1>1, <1>2, <1>3, <1>4, <1>5, <1>6

LEMMA LaunchCreateInv ==
  ASSUME RoomsInv, NEW p \in Players, NEW r \in Rooms, NEW s \in Servers, LaunchCreate(p, r, s)
  PROVE  RoomsInv'
<1> USE DEF RoomsInv, LaunchCreate, Answer
<1>1. RoomsTypeOK'
  BY DEF RoomsTypeOK
<1>2. Routed'
  BY DEF RoomsTypeOK, Routed
<1>3. CountedIsKept'
  BY DEF RoomsTypeOK, CountedIsKept
<1>4. Created'
  BY DEF RoomsTypeOK, Created
<1>5. Patience'
  BY DEF RoomsTypeOK, Patience, Created
<1>6. FirstLaunchHonoured'
  BY DEF RoomsTypeOK, FirstLaunchHonoured
<1> QED BY <1>1, <1>2, <1>3, <1>4, <1>5, <1>6

LEMMA LaunchFailsInv ==
  ASSUME RoomsInv, NEW p \in Players, NEW r \in Rooms, LaunchFails(p, r)
  PROVE  RoomsInv'
<1> USE DEF RoomsInv, LaunchFails, Answer
<1>1. RoomsTypeOK'
  BY DEF RoomsTypeOK
<1>2. Routed' /\ CountedIsKept'
  BY DEF RoomsTypeOK, Routed, CountedIsKept
<1>3. Created' /\ Patience' /\ FirstLaunchHonoured'
  BY DEF RoomsTypeOK, Created, Patience, FirstLaunchHonoured
<1> QED BY <1>1, <1>2, <1>3

LEMMA DialInv ==
  ASSUME RoomsInv, NEW p \in Players, Dial(p)
  PROVE  RoomsInv'
<1> USE DEF RoomsInv, Dial
<1>1. RoomsTypeOK'
  BY DEF RoomsTypeOK
<1>2. Routed'
  BY DEF RoomsTypeOK, Routed
<1>3. CountedIsKept'
  BY DEF RoomsTypeOK, CountedIsKept
<1>4. Created' /\ Patience'
  BY DEF RoomsTypeOK, Created, Patience
<1>5. FirstLaunchHonoured'
  \* refused means that the reaper of the port is done
  BY DEF RoomsTypeOK, FirstLaunchHonoured, Created, Patience
<1> QED BY <1>1, <1>2, <1>3, <1>4, <1>5

LEMMA EnterLeaveInv ==
  ASSUME RoomsInv, NEW p \in Players, Enter(p) \/ Leave(p)
  PROVE  RoomsInv'
<1> USE DEF RoomsInv, Enter, Leave
<1>1. RoomsTypeOK'
  BY DEF RoomsTypeOK
<1>2. Routed'
  BY DEF RoomsTypeOK, Routed
<1>3. CountedIsKept'
  BY DEF RoomsTypeOK, CountedIsKept
<1>4. Created' /\ Patience' /\ FirstLaunchHonoured'
  BY DEF RoomsTypeOK, Created, Patience, FirstLaunchHonoured
<1> QED BY <1>1, <1>2, <1>3, <1>4

LEMMA CountInv ==
  ASSUME RoomsInv, NEW s \in Servers, Count(s)
  PROVE  RoomsInv'
<1> USE DEF RoomsInv, Count
<1>1. RoomsTypeOK'
  BY DEF RoomsTypeOK
<1>2. Routed'
  BY DEF RoomsTypeOK, Routed
<1>3. CountedIsKept'
  \* whoever plays on s keeps its reaper asleep; elsewhere seen is unchanged
  BY DEF RoomsTypeOK, CountedIsKept, Occupied
<1>4. Created' /\ Patience' /\ FirstLaunchHonoured'
  BY DEF RoomsTypeOK, Created, Patience, FirstLaunchHonoured
<1> QED BY <1>1, <1>2, <1>3, <1>4

LEMMA DecideInv ==
  ASSUME RoomsInv, NEW s \in Servers, Decide(s)
  PROVE  RoomsInv'
<1> USE DEF RoomsInv, Decide, playerVars
<1>1. RoomsTypeOK'
  BY DEF RoomsTypeOK
<1>2. Routed' /\ CountedIsKept' /\ Created'
  BY DEF RoomsTypeOK, Routed, CountedIsKept, Created
<1>3. Patience' /\ FirstLaunchHonoured'
  \* the creator has waited as long as the server was idle: Grace
  BY DEF RoomsTypeOK, Patience, FirstLaunchHonoured
<1> QED BY <1>1, <1>2, <1>3

LEMMA TeardownInv ==
  ASSUME RoomsInv, NEW s \in Servers, Delete(s) \/ Close(s)
  PROVE  RoomsInv'
<1> USE DEF RoomsInv, Delete, Close, playerVars
<1>1. RoomsTypeOK'
  BY DEF RoomsTypeOK
<1>2. Routed' /\ CountedIsKept'
  BY DEF RoomsTypeOK, Routed, CountedIsKept
<1>3. Created'
  BY DEF RoomsTypeOK, Created
<1>4. Patience' /\ FirstLaunchHonoured'
  BY DEF RoomsTypeOK, Patience, FirstLaunchHonoured
<1> QED BY <1>1, <1>2, <1>3, <1>4

LEMMA TickInv == ASSUME RoomsInv, Tick PROVE RoomsInv'
<1> USE DEF RoomsInv, Tick
<1>1. RoomsTypeOK'
  BY DEF RoomsTypeOK
<1>2. Routed' /\ CountedIsKept' /\ Created'
  BY DEF RoomsTypeOK, Routed, CountedIsKept, Created
<1>3. Patience'
  BY DEF RoomsTypeOK, Patience
<1>4. FirstLaunchHonoured'
  BY DEF RoomsTypeOK, FirstLaunchHonoured
<1> QED BY <1>1, <1>2, <1>3, <1>4

LEMMA RoomsNextInv == ASSUME RoomsInv, [RoomsNext]_roomVars PROVE RoomsInv'
<1>1. CASE UNCHANGED roomVars
  BY <1>1 DEF roomVars, RoomsInv, RoomsTypeOK, Routed, CountedIsKept, Created, Patience, FirstLaunchHonoured
<1> QED BY <1>1, LaunchFoundInv, LaunchCreateInv, LaunchFailsInv, DialInv, EnterLeaveInv, CountInv,
           DecideInv, TeardownInv, TickInv DEF RoomsNext, Reap

LEMMA RoomsInvariant == RoomsSpec => []RoomsInv
BY RoomsInitInv, RoomsNextInv, PTL DEF RoomsSpec
-----------------------------------------------------------------------------
\* The types hold however many rooms are launched and reaped.
THEOREM RoomsTypeCorrect == RoomsSpec => []RoomsTypeOK
<1>1. RoomsInv => RoomsTypeOK  BY DEF RoomsInv
<1> QED BY <1>1, RoomsInvariant, PTL

\* reap: a member that LiveMemberCount has counted is not reaped while he plays.
THEOREM InProgressKept == RoomsSpec => []NeverReapedInProgress
<1>1. RoomsInv => NeverReapedInProgress
  BY DEF RoomsInv, CountedIsKept, NeverReapedInProgress
<1> QED BY <1>1, RoomsInvariant, PTL

\* Launch is get-or-create: whoever it answers for a room is on one server, but for one
\* being torn down; the fallback after a failed listen is the only other place.
THEOREM OneServer == RoomsSpec => []OneServerPerMatch
<1>1. RoomsInv => OneServerPerMatch
  BY DEF RoomsInv, Routed, OneServerPerMatch
<1> QED BY <1>1, RoomsInvariant, PTL

\* reap starts idleSince at the creation: the creator is never refused early.
THEOREM CreatorHonoured == RoomsSpec => []FirstLaunchHonoured
<1>1. RoomsInv => FirstLaunchHonoured  BY DEF RoomsInv
<1> QED BY <1>1, RoomsInvariant, PTL

HIDE MatchAssumption

-----------------------------------------------------------------------------
(***************************************************************************)
(* The squares and their hub.                                              *)
(***************************************************************************)

\* A connection that is on its way in is the newest of its user.
EnteringIsLatest ==
  \A c \in Conns : pc[c] \in {"join", "setArea", "building"} => latest[UserOf[c]] = c

\* The entry under a user's object id is a connection of that user, in that square.
EntriesFaithful ==
  \A a \in Areas, u \in Users : members[a][u] # NoConn =>
    /\ UserOf[members[a][u]] = u
    /\ area[members[a][u]] = a
    /\ pc[members[a][u]] \in Standing

\* A recorded area is one where the user has an entry.
AreaHasEntry == \A u \in Users : areas[u] # NoArea => members[areas[u]][u] # NoConn

\* Nothing is drawn before the scene is built.
Unbuilt == \A c \in Conns : pc[c] \notin {"ready", "gone"} => ltr[c] = {}

\* RenderedInSquare said of every member, the newest of its user or not.
Drawn ==
  /\ \A a \in Areas : \A c, d \in Conns :
       c \in memberList(a) /\ d \in memberList(a) /\ c # d => UserOf[d] \in ltr[c]
  /\ \A a \in Areas : \A c \in Conns : c \in memberList(a) =>
       \A u \in ltr[c] : members[a][u] # NoConn

SInv == /\ TypeOK
        /\ EnteringIsLatest
        /\ NotEvictedByStale
        /\ EntriesFaithful
        /\ AreaHasEntry
        /\ Unbuilt
        /\ Drawn

\* With ~Travel the open connections of a user are all in one square ...
SameSquare ==
  \A c, d \in Conns :
    UserOf[c] = UserOf[d] /\ pc[c] \notin {"offline", "gone"} /\ pc[d] \notin {"offline", "gone"}
    => area[c] = area[d]

\* ... which is the one recorded from SetArea on.
Recorded ==
  \A c \in Conns : Playing(c) /\ pc[c] \in {"building", "ready"} => areas[UserOf[c]] = area[c]

\* The registered socket is one of the user's own and was not unregistered.
RegisteredOwn ==
  \A u \in Users : conns[u] # NoSock =>
    SockUser[conns[u]] = u /\ spc[conns[u]] \in {"evict", "announce", "open"}

\* A socket that is not the registered one is over, or about to be evicted.
OthersDoomed ==
  /\ \A s \in Socks : spc[s] \in {"evict", "announce", "open"} =>
       \/ conns[SockUser[s]] = s
       \/ s \in dead
       \/ \E t \in Socks : spc[t] = "evict" /\ old[t] = s
  /\ \A t \in Socks : old[t] # NoSock => SockUser[old[t]] = SockUser[t]

HInv == TypeOK /\ RegisteredOwn /\ OthersDoomed
-----------------------------------------------------------------------------
USE HubAssumption, SquareAssumption DEF Standing, SockPlaces

LEMMA SquareInitInv == Init => SInv
BY DEF Init, HubInit, SInv, TypeOK, HubTypeOK, EnteringIsLatest, NotEvictedByStale, Playing,
       EntriesFaithful, AreaHasEntry, Unbuilt, Drawn, memberList

LEMMA ConnectInv ==
  ASSUME SInv, NEW c \in Conns, NEW a \in Areas, Connect(c, a)
  PROVE  SInv'
<1> USE DEF SInv, Connect, hubVars
<1>1. TypeOK'
  BY DEF TypeOK, HubTypeOK
<1>2. EnteringIsLatest'
  BY DEF TypeOK, EnteringIsLatest
<1>3. NotEvictedByStale'
  BY DEF TypeOK, NotEvictedByStale, Playing, Member
<1>4. EntriesFaithful' /\ AreaHasEntry' /\ Unbuilt'
  BY DEF TypeOK, EntriesFaithful, AreaHasEntry, Unbuilt
<1>5. \A b \in Areas : memberList(b)' = memberList(b)
  BY DEF TypeOK, memberList, Member
<1>6. Drawn'
  BY <1>5 DEF Drawn
<1> QED BY <1>1, <1>2, <1>3, <1>4, <1>6

LEMMA JoinInv ==
  ASSUME SInv, NEW c \in Conns, Join(c)
  PROVE  SInv'
<1> USE DEF SInv, Join, hubVars
<1>1. area[c] \in Areas /\ UserOf[c] \in Users
  BY DEF TypeOK
<1>2. TypeOK'
  BY <1>1 DEF TypeOK, HubTypeOK
<1>3. EnteringIsLatest'
  BY DEF TypeOK, EnteringIsLatest
<1>4. NotEvictedByStale'
  \* a newest connection of the same user is c itself
  BY <1>1 DEF TypeOK, NotEvictedByStale, Playing, Member, EnteringIsLatest
<1>5. EntriesFaithful'
  BY <1>1 DEF TypeOK, EntriesFaithful
<1>6. AreaHasEntry' /\ Unbuilt'
  BY <1>1 DEF TypeOK, HubTypeOK, AreaHasEntry, Unbuilt
<1>7. \A b \in Areas : memberList(b)' \subseteq memberList(b)
  BY <1>1 DEF TypeOK, memberList, Member
<1>8. \A b \in Areas, u \in Users : members[b][u] # NoConn => members'[b][u] # NoConn
  BY <1>1 DEF TypeOK
<1>9. Drawn'
  BY <1>7, <1>8 DEF Drawn, TypeOK
<1> QED BY <1>2, <1>3, <1>4, <1>5, <1>6, <1>9

LEMMA MirrorAreaInv ==
  ASSUME SInv, NEW c \in Conns, MirrorArea(c)
  PROVE  SInv'
<1> USE DEF SInv, MirrorArea, SetArea, sockVars
<1>1. area[c] \in Areas /\ UserOf[c] \in Users /\ members[area[c]][UserOf[c]] = c
  BY DEF TypeOK, EnteringIsLatest, NotEvictedByStale, Playing, Member
<1>2. TypeOK'
  BY <1>1 DEF TypeOK, HubTypeOK
<1>3. EnteringIsLatest' /\ NotEvictedByStale'
  BY DEF TypeOK, EnteringIsLatest, NotEvictedByStale, Playing, Member
<1>4. EntriesFaithful' /\ Unbuilt'
  BY DEF TypeOK, EntriesFaithful, Unbuilt
<1>5. AreaHasEntry'
  BY <1>1 DEF TypeOK, HubTypeOK, AreaHasEntry
<1>6. \A b \in Areas : memberList(b)' = memberList(b)
  BY DEF TypeOK, memberList, Member
<1>7. Drawn'
  BY <1>6 DEF Drawn
<1> QED BY <1>2, <1>3, <1>4, <1>5, <1>7

LEMMA BecomeReadyInv ==
  ASSUME SInv, NEW c \in Conns, BecomeReady(c)
  PROVE  SInv'
<1> USE DEF SInv
<1> DEFINE a == area[c]
           others == {d \in memberList(a) : UserOf[d] # UserOf[c]}
<1>1. /\ pc[c] = "building" /\ pc' = [pc EXCEPT ![c] = "ready"]
      /\ ltr' = [d \in Conns |-> CASE d = c        -> ltr[c] \cup {UserOf[o] : o \in others}
                                   [] d \in others -> ltr[d] \cup {UserOf[c]}
                                   [] OTHER        -> ltr[d]]
      /\ UNCHANGED <<members, area, latest, conns, areas, spc, dead, old, shown>>
  BY DEF BecomeReady, hubVars
<1>2. a \in Areas /\ UserOf[c] \in Users /\ members[a][UserOf[c]] = c
  BY <1>1 DEF TypeOK, EnteringIsLatest, NotEvictedByStale, Playing, Member
<1>3. TypeOK'
  <2>1. ltr' \in [Conns -> SUBSET Users]
    BY <1>1, <1>2 DEF TypeOK, memberList
  <2> QED BY <2>1, <1>1 DEF TypeOK, HubTypeOK
<1>4. EnteringIsLatest' /\ NotEvictedByStale'
  BY <1>1 DEF TypeOK, EnteringIsLatest, NotEvictedByStale, Playing, Member
<1>5. EntriesFaithful' /\ AreaHasEntry'
  BY <1>1 DEF TypeOK, EntriesFaithful, AreaHasEntry
<1>6. Unbuilt'
  BY <1>1 DEF TypeOK, Unbuilt, memberList
<1>7. memberList(a)' = memberList(a) \cup {c} /\ ltr[c] = {}
  BY <1>1, <1>2 DEF TypeOK, memberList, Member, Unbuilt
<1>8. \A b \in Areas : b # a => memberList(b)' = memberList(b)
  BY <1>1, <1>2 DEF TypeOK, memberList, Member, EntriesFaithful
<1>9. \A d \in memberList(a) : d # c => UserOf[d] # UserOf[c]
  BY <1>2 DEF memberList, Member
<1>10. \A b \in Areas : \A d \in memberList(b) : b # a => d \notin others /\ d # c
  BY <1>1, <1>2 DEF memberList, Member, EntriesFaithful, TypeOK
<1>11. Drawn'
  <2>1. ASSUME NEW b \in Areas, NEW d \in Conns, NEW e \in Conns,
               d \in memberList(b)', e \in memberList(b)', d # e
        PROVE  UserOf[e] \in ltr'[d]
    <3>1. CASE b # a
      <4>1. ltr'[d] = ltr[d]
        BY <3>1, <2>1, <1>1, <1>8, <1>10
      <4> QED BY <4>1, <3>1, <2>1, <1>8 DEF Drawn
    <3>2. CASE b = a /\ d = c
      BY <3>2, <2>1, <1>1, <1>7, <1>9
    <3>3. CASE b = a /\ e = c
      BY <3>3, <2>1, <1>1, <1>7, <1>9
    <3>4. CASE b = a /\ d # c /\ e # c
      <4>1. ltr[d] \subseteq ltr'[d]
        BY <1>1, <3>4
      <4>2. d \in memberList(a) /\ e \in memberList(a)
        BY <3>4, <2>1, <1>1, <1>7
      <4>3. UserOf[e] \in ltr[d]
        BY <4>2, <2>1, <1>2 DEF Drawn
      <4> QED BY <4>1, <4>3
    <3> QED BY <3>1, <3>2, <3>3, <3>4
  <2>2. ASSUME NEW b \in Areas, NEW d \in Conns, d \in memberList(b)', NEW u \in ltr'[d]
        PROVE  members[b][u] # NoConn
    <3>1. CASE b # a
      <4>1. ltr'[d] = ltr[d]
        BY <3>1, <2>2, <1>1, <1>8, <1>10
      <4> QED BY <4>1, <3>1, <2>2, <1>8 DEF Drawn
    <3>2. CASE b = a /\ d = c
      <4>1. PICK o \in others : u = UserOf[o]
        BY <3>2, <2>2, <1>1, <1>7
      <4> QED BY <4>1, <3>2 DEF memberList, Member
    <3>3. CASE b = a /\ d # c
      <4>1. u \in ltr[d] \/ u = UserOf[c]
        BY <3>3, <2>2, <1>1
      <4>2. d \in memberList(a)
        BY <3>3, <2>2, <1>1, <1>7
      <4> QED BY <4>1, <4>2, <3>3, <1>2 DEF Drawn
    <3> QED BY <3>1, <3>2, <3>3
  <2> QED BY <2>1, <2>2, <1>1 DEF Drawn
<1> QED BY <1>3, <1>4, <1>5, <1>6, <1>11

LEMMA CloseSquareInv ==
  ASSUME SInv, NEW c \in Conns, CloseSquare(c)
  PROVE  SInv'
<1> USE DEF SInv
<1> DEFINE a == area[c]
           u == UserOf[c]
<1>1. /\ pc[c] = "ready" /\ pc' = [pc EXCEPT ![c] = "gone"]
      /\ UNCHANGED <<area, latest, conns, spc, dead, old, shown>>
  BY DEF CloseSquare, sockVars
<1>2. a \in Areas /\ u \in Users
  BY <1>1 DEF TypeOK
<1>3. CASE ~Member(a, c)
  <2>1. UNCHANGED <<members, areas, ltr>>
    BY <1>3 DEF CloseSquare
  <2>2. \A b \in Areas, v \in Users : members[b][v] # c
    BY <1>3 DEF EntriesFaithful, Member, TypeOK
  <2>3. TypeOK' /\ EnteringIsLatest' /\ Unbuilt'
    BY <1>1, <2>1 DEF TypeOK, HubTypeOK, EnteringIsLatest, Unbuilt
  <2>4. NotEvictedByStale' /\ AreaHasEntry'
    BY <1>1, <2>1 DEF TypeOK, NotEvictedByStale, Playing, Member, AreaHasEntry
  <2>5. EntriesFaithful'
    BY <1>1, <2>1, <2>2 DEF TypeOK, EntriesFaithful
  <2>6. \A b \in Areas : memberList(b)' \subseteq memberList(b)
    BY <1>1, <2>1 DEF TypeOK, memberList, Member
  <2>7. Drawn'
    BY <2>1, <2>6 DEF Drawn
  <2> QED BY <2>3, <2>4, <2>5, <2>7
<1>4. CASE Member(a, c)
  <2>1. /\ members' = [members EXCEPT ![a][u] = NoConn]
        /\ areas' = [areas EXCEPT ![u] = NoArea]
        /\ ltr' = [d \in Conns |->
                     IF Member(a, d) /\ d # c THEN ltr[d] \ {u} ELSE ltr[d]]
    BY <1>4 DEF CloseSquare, ClearArea
  <2>2. TypeOK'
    <3>1. ltr' \in [Conns -> SUBSET Users]
      BY <2>1 DEF TypeOK
    <3> QED BY <3>1, <1>1, <1>2, <2>1 DEF TypeOK, HubTypeOK
  <2>3. EnteringIsLatest' /\ Unbuilt'
    BY <1>1, <2>1 DEF TypeOK, EnteringIsLatest, Unbuilt
  <2>4. NotEvictedByStale'
    \* the entry removed is that of c, which is gone
    BY <1>1, <1>4, <2>1 DEF TypeOK, NotEvictedByStale, Playing, Member
  <2>5. EntriesFaithful'
    BY <1>1, <1>2, <1>4, <2>1 DEF TypeOK, EntriesFaithful, Member
  <2>6. AreaHasEntry'
    BY <1>2, <2>1 DEF TypeOK, HubTypeOK, AreaHasEntry
  <2>7. \A b \in Areas : memberList(b)' \subseteq memberList(b) \ {c}
    BY <1>1, <1>2, <2>1 DEF TypeOK, memberList, Member
  <2>8. \A d \in memberList(a)' : UserOf[d] # u
    BY <1>1, <1>2, <2>1 DEF TypeOK, memberList, Member
  <2>9. \A b \in Areas : \A d \in memberList(b) : b # a => ~Member(a, d)
    BY <1>2 DEF memberList, Member, EntriesFaithful, TypeOK
  <2>10. Drawn'
    <3>1. ASSUME NEW b \in Areas, NEW d \in Conns, NEW e \in Conns,
                 d \in memberList(b)', e \in memberList(b)', d # e
          PROVE  UserOf[e] \in ltr'[d]
      <4>1. UserOf[e] \in ltr[d]
        BY <3>1, <2>7 DEF Drawn
      <4>2. CASE b = a
        BY <4>1, <4>2, <3>1, <2>1, <2>8, <1>1
      <4>3. CASE b # a
        BY <4>1, <4>3, <3>1, <2>1, <2>7, <2>9
      <4> QED BY <4>2, <4>3
    <3>2. ASSUME NEW b \in Areas, NEW d \in Conns, d \in memberList(b)', NEW v \in ltr'[d]
          PROVE  members'[b][v] # NoConn
      <4>1. v \in ltr[d] /\ d # c /\ d \in memberList(b) /\ v \in Users
        BY <3>2, <2>1, <2>7 DEF TypeOK
      <4>2. members[b][v] # NoConn
        BY <4>1 DEF Drawn
      <4>3. CASE b = a
        <5>1. v # u
          BY <4>1, <4>3, <3>2, <2>1 DEF memberList
        <5> QED BY <5>1, <4>1, <4>2, <2>1, <1>2 DEF TypeOK
      <4>4. CASE b # a
        BY <4>4, <4>1, <4>2, <2>1, <1>2 DEF TypeOK
      <4> QED BY <4>3, <4>4
    <3> QED BY <3>1, <3>2 DEF Drawn
  <2> QED BY <2>2, <2>3, <2>4, <2>5, <2>6, <2>10
<1> QED BY <1>3, <1>4

LEMMA SockStepInv ==
  ASSUME SInv, NEW s \in Socks, SockStep(s), UNCHANGED squareVars
  PROVE  SInv'
<1> USE DEF SInv, squareVars
<1>1. UNCHANGED areas
  BY DEF SockStep, Register, Evict, NotifyOnline, HangUp, Unregister, NotifyOffline
<1>0. TypeOK'
  <2>1. CASE Register(s) \/ Unregister(s)
    <3>1. SockUser[s] \in Users /\ conns[SockUser[s]] \in Socks \cup {NoSock}
      BY DEF TypeOK, HubTypeOK
    <3>2. conns' \in [Users -> Socks \cup {NoSock}]
      BY <2>1, <3>1 DEF TypeOK, HubTypeOK, Register, Unregister
    <3>3. old' \in [Socks -> Socks \cup {NoSock}]
      BY <2>1, <3>1 DEF TypeOK, HubTypeOK, Register, Unregister
    <3>4. spc' \in [Socks -> SockPlaces] /\ UNCHANGED <<areas, dead, shown>>
      BY <2>1 DEF TypeOK, HubTypeOK, Register, Unregister
    <3> QED BY <3>2, <3>3, <3>4 DEF TypeOK, HubTypeOK
  <2>2. CASE Evict(s)
    BY <2>2 DEF TypeOK, HubTypeOK, Evict
  <2>3. CASE NotifyOnline(s) \/ NotifyOffline(s)
    BY <2>3 DEF TypeOK, HubTypeOK, NotifyOnline, NotifyOffline
  <2>4. CASE HangUp(s)
    BY <2>4 DEF TypeOK, HubTypeOK, HangUp
  <2> QED BY <2>1, <2>2, <2>3, <2>4 DEF SockStep
<1>2. \A b \in Areas : memberList(b)' = memberList(b)
  BY DEF memberList, Member
<1>3. EnteringIsLatest' /\ NotEvictedByStale' /\ EntriesFaithful' /\ AreaHasEntry' /\ Unbuilt'
  BY <1>1 DEF EnteringIsLatest, NotEvictedByStale, Playing, Member, EntriesFaithful,
              AreaHasEntry, Unbuilt
<1>4. Drawn'
  BY <1>2 DEF Drawn
<1> QED BY <1>0, <1>3, <1>4

LEMMA SquareNextInv == ASSUME SInv, [Next]_vars PROVE SInv'
<1>1. CASE UNCHANGED vars
  <2>1. \A b \in Areas : memberList(b)' = memberList(b)
    BY <1>1 DEF vars, squareVars, memberList, Member
  <2> QED BY <1>1, <2>1 DEF vars, hubVars, squareVars, SInv, TypeOK, HubTypeOK,
            EnteringIsLatest, NotEvictedByStale, Playing, Member, EntriesFaithful,
            AreaHasEntry, Unbuilt, Drawn
<1> QED BY <1>1, ConnectInv, JoinInv, MirrorAreaInv, BecomeReadyInv, CloseSquareInv,
           SockStepInv DEF Next

LEMMA SquareInvariant == Spec => []SInv
BY SquareInitInv, SquareNextInv, PTL DEF Spec
-----------------------------------------------------------------------------
(* The squares without travel. *)

LEMMA NextTravel ==
  ASSUME ~Travel, SInv, SameSquare, Recorded, [Next]_vars
  PROVE  SameSquare' /\ Recorded'
<1> USE DEF SInv
<1>1. ASSUME NEW c \in Conns, NEW a \in Areas, Connect(c, a)
      PROVE  SameSquare' /\ Recorded'
  <2>1. SameSquare'
    BY <1>1 DEF Connect, TypeOK, SameSquare
  <2>2. Recorded'
    BY <1>1 DEF Connect, hubVars, TypeOK, Recorded, Playing
  <2> QED BY <2>1, <2>2
<1>2. ASSUME NEW c \in Conns, Join(c)
      PROVE  SameSquare' /\ Recorded'
  BY <1>2 DEF Join, hubVars, TypeOK, SameSquare, Recorded, Playing
<1>3. ASSUME NEW c \in Conns, MirrorArea(c)
      PROVE  SameSquare' /\ Recorded'
  <2>1. SameSquare'
    BY <1>3 DEF MirrorArea, TypeOK, SameSquare
  <2>2. latest[UserOf[c]] = c
    BY <1>3 DEF MirrorArea, EnteringIsLatest
  <2>3. Recorded'
    BY <1>3, <2>2 DEF MirrorArea, SetArea, TypeOK, HubTypeOK, Recorded, Playing
  <2> QED BY <2>1, <2>3
<1>4. ASSUME NEW c \in Conns, BecomeReady(c)
      PROVE  SameSquare' /\ Recorded'
  BY <1>4 DEF BecomeReady, hubVars, TypeOK, SameSquare, Recorded, Playing
<1>5. ASSUME NEW c \in Conns, CloseSquare(c)
      PROVE  SameSquare' /\ Recorded'
  <2>1. /\ pc[c] = "ready" /\ pc' = [pc EXCEPT ![c] = "gone"]
        /\ UNCHANGED <<area, latest>>
        /\ areas' = IF Member(area[c], c) THEN [areas EXCEPT ![UserOf[c]] = NoArea] ELSE areas
    BY <1>5 DEF CloseSquare, ClearArea
  <2>2. SameSquare'
    BY <2>1 DEF TypeOK, SameSquare
  <2>3. ASSUME NEW d \in Conns, Playing(d)', pc'[d] \in {"building", "ready"}
        PROVE  areas'[UserOf[d]] = area'[d]
    <3>1. d # c /\ Playing(d) /\ pc[d] \in {"building", "ready"}
      BY <2>1, <2>3 DEF TypeOK, Playing
    <3>2. UserOf[d] = UserOf[c] => ~Member(area[c], c)
      \* d is the user's entry in the square, which is also that of c
      BY <3>1, <2>1 DEF SameSquare, NotEvictedByStale, Member
    <3> QED BY <3>1, <3>2, <2>1 DEF Recorded, TypeOK, HubTypeOK
  <2> QED BY <2>2, <2>3 DEF Recorded
<1>6. ASSUME NEW s \in Socks, SockStep(s), UNCHANGED squareVars
      PROVE  SameSquare' /\ Recorded'
  <2>1. UNCHANGED areas
    BY <1>6 DEF SockStep, Register, Evict, NotifyOnline, HangUp, Unregister, NotifyOffline
  <2> QED BY <1>6, <2>1 DEF squareVars, SameSquare, Recorded, Playing
<1>7. CASE UNCHANGED vars
  BY <1>7 DEF vars, hubVars, squareVars, SameSquare, Recorded, Playing
<1> QED BY <1>1, <1>2, <1>3, <1>4, <1>5, <1>6, <1>7 DEF Next
-----------------------------------------------------------------------------
(* The hub. *)

LEMMA NextHub ==
  ASSUME SInv, HInv, [Next]_vars
  PROVE  HInv'
<1> USE DEF HInv
<1>0. TypeOK'
  BY SquareNextInv DEF SInv
<1>1. SUFFICES RegisteredOwn' /\ OthersDoomed'
  BY <1>0
<1>2. ASSUME UNCHANGED <<conns, spc, dead, old>>
      PROVE  RegisteredOwn' /\ OthersDoomed'
  BY <1>2 DEF RegisteredOwn, OthersDoomed
<1>3. ASSUME NEW s \in Socks, SockStep(s)
      PROVE  RegisteredOwn' /\ OthersDoomed'
  <2> DEFINE u == SockUser[s]
  <2>0. u \in Users /\ \A t \in Socks : SockUser[t] \in Users
    OBVIOUS
  <2>1. CASE Register(s)
    <3>1. RegisteredOwn'
      BY <2>0, <2>1 DEF Register, TypeOK, HubTypeOK, RegisteredOwn
    <3>2. ASSUME NEW t \in Socks, spc'[t] \in {"evict", "announce", "open"}
          PROVE  \/ conns'[SockUser[t]] = t
                 \/ t \in dead'
                 \/ \E x \in Socks : spc'[x] = "evict" /\ old'[x] = t
      <4>1. CASE t = s
        BY <4>1, <2>0, <2>1 DEF Register, TypeOK, HubTypeOK
      <4>2. CASE t # s /\ conns[SockUser[t]] = t
        BY <4>2, <2>0, <2>1, <3>2 DEF Register, TypeOK, HubTypeOK
      <4>3. CASE t # s /\ t \in dead
        BY <4>3, <2>1 DEF Register
      <4>4. CASE t # s /\ \E x \in Socks : spc[x] = "evict" /\ old[x] = t
        BY <4>4, <2>1 DEF Register, TypeOK, HubTypeOK
      <4>5. t # s => spc[t] \in {"evict", "announce", "open"}
        BY <3>2, <2>1 DEF Register, TypeOK, HubTypeOK
      <4> QED BY <4>1, <4>2, <4>3, <4>4, <4>5 DEF OthersDoomed
    <3>3. \A t \in Socks : old'[t] # NoSock => SockUser[old'[t]] = SockUser[t]
      BY <2>0, <2>1 DEF Register, TypeOK, HubTypeOK, OthersDoomed, RegisteredOwn
    <3> QED BY <3>1, <3>2, <3>3 DEF OthersDoomed
  <2>2. CASE Evict(s)
    BY <2>0, <2>2 DEF Evict, TypeOK, HubTypeOK, RegisteredOwn, OthersDoomed
  <2>3. CASE NotifyOnline(s)
    BY <2>0, <2>3 DEF NotifyOnline, TypeOK, HubTypeOK, RegisteredOwn, OthersDoomed
  <2>4. CASE HangUp(s)
    BY <2>0, <2>4 DEF HangUp, TypeOK, HubTypeOK, RegisteredOwn, OthersDoomed
  <2>5. CASE Unregister(s)
    <3>1. RegisteredOwn'
      BY <2>0, <2>5 DEF Unregister, TypeOK, HubTypeOK, RegisteredOwn
    <3>2. OthersDoomed'
      BY <2>0, <2>5 DEF Unregister, TypeOK, HubTypeOK, OthersDoomed
    <3> QED BY <3>1, <3>2
  <2>6. CASE NotifyOffline(s)
    BY <2>0, <2>6 DEF NotifyOffline, TypeOK, HubTypeOK, RegisteredOwn, OthersDoomed
  <2> QED BY <1>3, <2>1, <2>2, <2>3, <2>4, <2>5, <2>6 DEF SockStep
<1>4. ASSUME NEW c \in Conns, \/ \E a \in Areas : Connect(c, a)
                              \/ Join(c) \/ MirrorArea(c) \/ BecomeReady(c) \/ CloseSquare(c)
      PROVE  UNCHANGED <<conns, spc, dead, old>>
  BY <1>4 DEF Connect, Join, MirrorArea, BecomeReady, CloseSquare, hubVars, sockVars
<1>5. CASE UNCHANGED vars
  BY <1>2, <1>5 DEF vars, hubVars
<1> QED BY <1>2, <1>3, <1>4, <1>5 DEF Next
-----------------------------------------------------------------------------
\* The types hold for any number of connections and sockets.
THEOREM SquareTypeCorrect == Spec => []TypeOK
<1>1. SInv => TypeOK  BY DEF SInv
<1> QED BY <1>1, SquareInvariant, PTL

\* leaveLobbyInstanceLocked: its identity test keeps the successor in the square,
\* wherever the stale connection stands.
THEOREM StaleHarmless == Spec => []NotEvictedByStale
<1>1. SInv => NotEvictedByStale  BY DEF SInv
<1> QED BY <1>1, SquareInvariant, PTL

\* introduceLobbyMemberLocked with lready, and the broadcast of a leave: the
\* screens show who is in the square.
THEOREM ScreensRight == Spec => []RenderedInSquare
<1>1. SInv => RenderedInSquare
  <2> SUFFICES ASSUME SInv, NEW c \in Conns, Playing(c), pc[c] = "ready"
               PROVE  /\ \A d \in memberList(area[c]) : d # c => UserOf[d] \in ltr[c]
                      /\ \A u \in ltr[c] : members[area[c]][u] # NoConn
    BY DEF RenderedInSquare
  <2>1. area[c] \in Areas /\ c \in memberList(area[c])
    BY DEF SInv, TypeOK, NotEvictedByStale, memberList
  <2>2. memberList(area[c]) \subseteq Conns
    BY DEF memberList
  <2> QED BY <2>1, <2>2 DEF SInv, Drawn
<1> QED BY <1>1, SquareInvariant, PTL

\* SetArea and ClearArea: nobody is recorded in a square he has no connection in.
THEOREM NoGhosts == Spec => []NoGhostInChat
<1>1. SInv => NoGhostInChat
  <2> SUFFICES ASSUME SInv, NEW u \in Users, areas[u] # NoArea
               PROVE  \E c \in Conns : UserOf[c] = u /\ pc[c] \in Standing /\ area[c] = areas[u]
    BY DEF NoGhostInChat
  <2>1. areas[u] \in Areas /\ members[areas[u]][u] \in Conns
    BY DEF SInv, TypeOK, HubTypeOK, AreaHasEntry
  <2> QED BY <2>1 DEF SInv, EntriesFaithful, AreaHasEntry
<1> QED BY <1>1, SquareInvariant, PTL

\* Area chat reaches everybody in the square, if no half-open connection of a
\* user is left in another square.
THEOREM ChatReaches == ASSUME ~Travel PROVE Spec => []MirrorsSquare
<1>1. Init => SInv /\ SameSquare /\ Recorded
  BY SquareInitInv DEF Init, HubInit, SameSquare, Recorded
<1>2. (SInv /\ SameSquare /\ Recorded) /\ [Next]_vars => (SInv /\ SameSquare /\ Recorded)'
  BY SquareNextInv, NextTravel
<1>3. SInv /\ SameSquare /\ Recorded => MirrorsSquare
  BY DEF Recorded, MirrorsSquare, AreaMembers
<1> QED BY <1>1, <1>2, <1>3, PTL DEF Spec

\* Hub.register and unregister: a user's open socket is the registered one.
THEOREM NewestRegistered == Spec => []RegisteredIsLive
<1>1. Init => SInv /\ HInv
  BY SquareInitInv DEF Init, HubInit, HInv, SInv, RegisteredOwn, OthersDoomed
<1>2. (SInv /\ HInv) /\ [Next]_vars => (SInv /\ HInv)'
  BY SquareNextInv, NextHub
<1>3. HInv => RegisteredIsLive
  <2> SUFFICES ASSUME HInv, NEW u \in Users, Settled(u)
               PROVE  {s \in Socks : SockUser[s] = u /\ spc[s] = "open"} = {conns[u]} \ {NoSock}
    BY DEF RegisteredIsLive
  <2>1. ASSUME NEW s \in Socks, SockUser[s] = u, spc[s] = "open"
        PROVE  s = conns[u]
    <3>1. s \notin dead
      BY <2>1 DEF Settled
    <3>2. ASSUME NEW t \in Socks, spc[t] = "evict", old[t] = s
          PROVE  FALSE
      BY <3>2, <2>1 DEF HInv, OthersDoomed, Settled
    <3> QED BY <2>1, <3>1, <3>2 DEF HInv, OthersDoomed
  <2>2. ASSUME conns[u] # NoSock
        PROVE  conns[u] \in Socks /\ SockUser[conns[u]] = u /\ spc[conns[u]] = "open"
    BY <2>2 DEF HInv, TypeOK, HubTypeOK, RegisteredOwn, Settled
  <2> QED BY <2>1, <2>2
<1> QED BY <1>1, <1>2, <1>3, PTL DEF Spec
=============================================================================
