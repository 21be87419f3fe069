--------------------------- MODULE Launch_proofs ----------------------------
(***************************************************************************)
(* From the queue or the draft of a siege to the match, for any number of  *)
(* users, maps, avatars and rooms and any size of a match.  A user waits   *)
(* in one place and is seated once, and the room, map and side of that     *)
(* seat pass unchanged from the selection through the local copies of his  *)
(* handlers and the pending battle to the battle his connection claims;    *)
(* and for any number of fighters, castles, clans and battle windows, what *)
(* a fighter launches into is what one window gave him.                    *)
(***************************************************************************)
EXTENDS Matchmaking, CastleDraft, Lists_proofs

-----------------------------------------------------------------------------
(***************************************************************************)
(* The invariant.                                                          *)
(***************************************************************************)
Seats == UNION {[us -> Teams] : us \in SUBSET Users}
Roster == [map : Maps, teams : Seats]

\* The players of a formed match, in the order of the queue, and their sides.
Lineup(ro) ==
  \E s \in [1..DotaMatchSize -> DOMAIN ro.teams] :
    /\ \A i, j \in 1..DotaMatchSize : s[i] = s[j] => i = j
    /\ \A v \in DOMAIN ro.teams : \E i \in 1..DotaMatchSize : s[i] = v
    /\ \A i \in 1..DotaMatchSize : ro.teams[s[i]] = Side(ro.map, i)

\* x is the seat that one of the matches drawn for u gave him.
Seat(rs, u, x) ==
  \E r \in DOMAIN rs : \E a \in Avatars \cup {NoAvatar} :
    /\ u \in DOMAIN rs[r].teams
    /\ x = [map |-> rs[r].map, avatar |-> a, room |-> r, team |-> rs[r].teams[u]]

\* No match of a later room was drawn for u.
Newest(rs, u, r) == \A s \in DOMAIN rs : u \in DOMAIN rs[s].teams => s <= r

\* The zero selection, with an avatar perhaps.
Blank(x) == \E a \in Avatars \cup {NoAvatar} : x = [Unset EXCEPT !.avatar = a]

Waits(u) == \E m \in Maps : \E i \in DOMAIN dotaQueue[m] : dotaQueue[m][i] = u

\* The launches on their way to u, and the selections a launch of his can still come from.
Sent(u) == mail[u] \ {StartSelect}
Stored(u) == Real(fightSel[u]) /\ hpc[u] # "clear"
Held(u) == Real(tmp[u]) /\ hpc[u] \in {"select", "pend"}

\* Queues never fill up, and hold each user once.
QueuesInv ==
  /\ dotaQueue \in [Maps -> Seq(Users)]
  /\ \A m \in Maps : Len(dotaQueue[m]) < DotaMatchSize
  /\ \A m, n \in Maps : \A i \in DOMAIN dotaQueue[m], j \in DOMAIN dotaQueue[n] :
       dotaQueue[m][i] = dotaQueue[n][j] => m = n /\ i = j

RoomsInv ==
  /\ nextDotaRoom \in 0..MaxRooms
  /\ rosters \in Seq(Roster) /\ Len(rosters) = nextDotaRoom
  /\ \A r \in DOMAIN rosters : Lineup(rosters[r])

TablesInv ==
  /\ fightSel \in [Users -> Selection \cup {Nothing}]
  /\ pending  \in [Users -> Launch \cup {Nothing}]
  /\ hpc \in [Users -> {"idle", "select", "pend", "clear", "dequeue"}]
  /\ tmp \in [Users -> Selection]
  /\ mail \in [Users -> SUBSET Pushes]
  /\ screen \in [Users -> {"square", "queue", "avatars", "launching", "battle"}]
  /\ ticket \in [Users -> 0..MaxRooms]
  /\ battle \in [Users -> Launch \cup {Nothing}]
  /\ launched \in [Users -> 0..MaxRooms]
  /\ crossed \subseteq Users

\* Every copy of a seat is one that he was given, the copies a launch can still come
\* from are later than his launches, and a launch is claimed once.
UserInv(u) ==
  /\ fightSel[u] = Nothing \/ Blank(fightSel[u]) \/ Seat(rosters, u, fightSel[u])
  /\ Blank(tmp[u]) \/ Seat(rosters, u, tmp[u])
  /\ \A l \in {pending[u], battle[u]} : l = Nothing \/ Seat(rosters, u, l)
  /\ hpc[u] \in {"pend", "clear"} => Seat(rosters, u, tmp[u])
  /\ launched[u] <= nextDotaRoom
  /\ Stored(u) => fightSel[u].room > launched[u]
  /\ Held(u) => tmp[u].room > launched[u]
  /\ hpc[u] = "clear" => tmp[u].room = launched[u]
  /\ pending[u] # Nothing => /\ pending[u].room = launched[u]
                             /\ battle[u] # Nothing => pending[u].room > battle[u].room
  /\ battle[u] # Nothing => battle[u].room <= launched[u]

\* A user who sent no request across a push waits only before his match, and what he
\* has of a match is of his last one.
CalmInv(u) ==
  /\ Waits(u) => /\ screen[u] \in Lobby /\ mail[u] = {}
                 /\ pending[u] = Nothing /\ battle[u] = Nothing
                 /\ hpc[u] \in {"idle", "dequeue"}
  /\ battle[u] # Nothing => screen[u] = "battle"
  /\ pending[u] # Nothing => \/ hpc[u] = "clear" \/ pending[u].room \in mail[u]
                             \/ screen[u] = "launching"
  /\ hpc[u] \in {"pend", "clear"} \/ Sent(u) # {} => screen[u] = "avatars"
  /\ hpc[u] = "clear" => Sent(u) = {}
  /\ Sent(u) \subseteq {launched[u]}
  /\ Stored(u) \/ Held(u) => pending[u] = Nothing /\ Sent(u) = {}
  /\ Stored(u) => Newest(rosters, u, fightSel[u].room)
  /\ hpc[u] = "clear" \/ Held(u) => Newest(rosters, u, tmp[u].room)
  /\ \A l \in {pending[u], battle[u]} \ {Nothing} : Newest(rosters, u, l.room)

QueueIInv == /\ QueuesInv /\ RoomsInv /\ TablesInv
             /\ \A u \in Users : UserInv(u) /\ (u \notin crossed => CalmInv(u))

-----------------------------------------------------------------------------
(***************************************************************************)
(* The places in the queues.                                               *)
(***************************************************************************)
\* Without u nobody new waits, nobody waits twice, and no queue grows.
LEMMA WithoutFacts ==
  ASSUME QueuesInv, NEW u
  PROVE  /\ Without(u) \in [Maps -> Seq(Users)]
         /\ \A m \in Maps : /\ Len(Without(u)[m]) < DotaMatchSize
                            /\ \A i \in DOMAIN Without(u)[m] :
                                 Without(u)[m][i] # u /\ Waits(Without(u)[m][i])
         /\ \A m, n \in Maps : \A i \in DOMAIN Without(u)[m], j \in DOMAIN Without(u)[n] :
              Without(u)[m][i] = Without(u)[n][j] => m = n /\ i = j
  <1> DEFINE w(m) == Kept(dotaQueue[m], u)
  <1>1. ASSUME NEW m \in Maps
        PROVE  /\ w(m) \in Seq(Users) /\ Len(w(m)) <= Len(dotaQueue[m])
               /\ Sublist(w(m), dotaQueue[m], u, Len(dotaQueue[m]))
               /\ dotaQueue[m] \in Seq(Users) /\ Len(dotaQueue[m]) < DotaMatchSize
    <2>1. dotaQueue[m] \in Seq(Users) /\ Len(dotaQueue[m]) < DotaMatchSize BY DEF QueuesInv
    <2> QED BY <2>1, KeptIsSublist
  <1>2. \A m \in Maps : Without(u)[m] = w(m) BY DEF Without
  <1>3. Without(u) \in [Maps -> Seq(Users)] BY <1>1 DEF Without
  <1>4. ASSUME NEW m \in Maps
        PROVE  \E h \in [DOMAIN w(m) -> DOMAIN dotaQueue[m]] :
                 /\ \A k \in DOMAIN w(m) : w(m)[k] = dotaQueue[m][h[k]] /\ w(m)[k] # u
                 /\ \A k, l \in DOMAIN w(m) : h[k] = h[l] => k = l
    <2>1. /\ w(m) \in Seq(Users) /\ dotaQueue[m] \in Seq(Users)
          /\ Sublist(w(m), dotaQueue[m], u, Len(dotaQueue[m]))
      BY <1>1
    <2>2. DOMAIN w(m) = 1..Len(w(m)) /\ DOMAIN dotaQueue[m] = 1..Len(dotaQueue[m])
      BY <2>1
    <2> HIDE DEF w
    <2>3. PICK h \in [1..Len(w(m)) -> 1..Len(dotaQueue[m])] :
            /\ \A k \in 1..Len(w(m)) : w(m)[k] = dotaQueue[m][h[k]] /\ w(m)[k] # u
            /\ \A k, l \in 1..Len(w(m)) : k < l => h[k] < h[l]
      BY <2>1 DEF Sublist
    <2>4. \A k, l \in 1..Len(w(m)) : h[k] = h[l] => k = l
      <3> TAKE k, l \in 1..Len(w(m))
      <3>1. h[k] \in Nat /\ h[l] \in Nat BY <2>3
      <3>2. k < l \/ l < k \/ k = l OBVIOUS
      <3> QED BY <2>3, <3>1, <3>2
    <2> QED BY <2>2, <2>3, <2>4
  <1> HIDE DEF w
  <1>5. ASSUME NEW m \in Maps, NEW i \in DOMAIN w(m)
        PROVE  w(m)[i] # u /\ Waits(w(m)[i])
    <2>1. PICK h \in [DOMAIN w(m) -> DOMAIN dotaQueue[m]] :
            \A k \in DOMAIN w(m) : w(m)[k] = dotaQueue[m][h[k]] /\ w(m)[k] # u
      BY <1>4
    <2> QED BY <2>1 DEF Waits
  <1>6. ASSUME NEW m \in Maps, NEW n \in Maps, NEW i \in DOMAIN w(m), NEW j \in DOMAIN w(n),
               w(m)[i] = w(n)[j]
        PROVE  m = n /\ i = j
    <2>1. PICK h \in [DOMAIN w(m) -> DOMAIN dotaQueue[m]] :
            /\ \A k \in DOMAIN w(m) : w(m)[k] = dotaQueue[m][h[k]]
            /\ \A k, l \in DOMAIN w(m) : h[k] = h[l] => k = l
      BY <1>4
    <2>2. PICK g \in [DOMAIN w(n) -> DOMAIN dotaQueue[n]] :
            \A k \in DOMAIN w(n) : w(n)[k] = dotaQueue[n][g[k]]
      BY <1>4
    <2>3. dotaQueue[m][h[i]] = dotaQueue[n][g[j]] BY <1>6, <2>1, <2>2
    <2>4. m = n /\ h[i] = g[j] BY <2>1, <2>2, <2>3 DEF QueuesInv
    <2>5. dotaQueue[m][h[j]] = dotaQueue[m][h[i]] BY <1>6, <2>1, <2>4
    <2>6. h[j] = h[i] BY <2>1, <2>4, <2>5 DEF QueuesInv
    <2> QED BY <2>1, <2>4, <2>6
  <1>7. \A m \in Maps : Len(w(m)) < DotaMatchSize
    <2> TAKE m \in Maps
    <2>1. Len(w(m)) \in Nat /\ Len(dotaQueue[m]) \in Nat BY <1>1
    <2> QED BY <1>1, <2>1, QueueAssumption
  <1> QED BY <1>2, <1>3, <1>5, <1>6, <1>7

\* The joiner takes the last place; a queue that is full then is exactly a match.
LEMMA WaitingFacts ==
  ASSUME QueuesInv, NEW u \in Users, NEW m \in Maps
  PROVE  LET q == Waiting(u, m) IN
         /\ q \in Seq(Users) /\ Len(q) \in 1..DotaMatchSize /\ q[Len(q)] = u
         /\ \A i, j \in DOMAIN q : q[i] = q[j] => i = j
         /\ \A i \in DOMAIN q : q[i] = u \/ Waits(q[i])
         /\ \A n \in Maps : n # m =>
              \A i \in DOMAIN q, j \in DOMAIN Without(u)[n] : q[i] # Without(u)[n][j]
  <1> DEFINE w == Without(u)[m]  q == Waiting(u, m)
  <1>1. /\ w \in Seq(Users) /\ Len(w) < DotaMatchSize
        /\ \A i \in DOMAIN w : w[i] # u /\ Waits(w[i])
        /\ \A i, j \in DOMAIN w : w[i] = w[j] => i = j
    BY WithoutFacts
  <1>2. q = Append(w, u) BY DEF Waiting
  <1>3. \A n \in Maps : n # m =>
          /\ \A i \in DOMAIN w, j \in DOMAIN Without(u)[n] : w[i] # Without(u)[n][j]
          /\ \A j \in DOMAIN Without(u)[n] : Without(u)[n][j] # u
    BY WithoutFacts
  <1> HIDE DEF w, q
  <1>4. /\ q \in Seq(Users) /\ Len(q) = Len(w) + 1 /\ q[Len(q)] = u
        /\ DOMAIN q = 1..Len(q) /\ DOMAIN w = 1..Len(w) /\ Len(w) \in Nat
        /\ \A i \in DOMAIN w : q[i] = w[i]
    BY <1>1, <1>2
  <1>5. \A i \in DOMAIN q : i \in DOMAIN w \/ (i = Len(q) /\ q[i] = u) BY <1>4
  <1>6. \A i, j \in DOMAIN q : q[i] = q[j] => i = j BY <1>1, <1>4, <1>5
  <1>7. \A i \in DOMAIN q : q[i] = u \/ Waits(q[i]) BY <1>1, <1>4, <1>5
  <1>8. \A n \in Maps : n # m =>
          \A i \in DOMAIN q, j \in DOMAIN Without(u)[n] : q[i] # Without(u)[n][j]
    BY <1>3, <1>4, <1>5
  <1>9. Len(q) \in 1..DotaMatchSize BY <1>1, <1>4, QueueAssumption
  <1> QED BY <1>4, <1>6, <1>7, <1>8, <1>9 DEF q

-----------------------------------------------------------------------------
(***************************************************************************)
(* Seats and their copies.                                                 *)
(***************************************************************************)
\* A seat has the fields of a selection and, with an avatar, of a launch.
LEMMA SeatFacts ==
  ASSUME NEW rs \in Seq(Roster), Len(rs) <= MaxRooms, NEW u, NEW x, Seat(rs, u, x)
  PROVE  /\ x \in Selection /\ x # Nothing /\ Real(x) /\ x.room \in 1..Len(rs)
         /\ \A a \in Avatars : LET y == [x EXCEPT !.avatar = a] IN
              y \in Launch /\ y \in Selection /\ y.room = x.room /\ Seat(rs, u, y) /\ Real(y)
  <1>1. PICK r \in DOMAIN rs, b \in Avatars \cup {NoAvatar} :
          /\ u \in DOMAIN rs[r].teams
          /\ x = [map |-> rs[r].map, avatar |-> b, room |-> r, team |-> rs[r].teams[u]]
    BY DEF Seat
  <1>2. r \in RoomIds /\ r \in 1..Len(rs) /\ rs[r] \in Roster
    BY <1>1, QueueAssumption DEF RoomIds
  <1>3. rs[r].map \in Maps /\ rs[r].teams \in Seats BY <1>2 DEF Roster
  <1>4. rs[r].teams[u] \in Teams BY <1>1, <1>3 DEF Seats
  <1>5. \A a \in Avatars : LET y == [x EXCEPT !.avatar = a] IN
          /\ y = [map |-> rs[r].map, avatar |-> a, room |-> r, team |-> rs[r].teams[u]]
          /\ y \in Launch /\ y \in Selection /\ y.room = x.room /\ y.map \in Maps
    BY <1>1, <1>2, <1>3, <1>4, QueueAssumption DEF Selection, Launch, RoomIds
  <1>6. \A a \in Avatars : Seat(rs, u, [x EXCEPT !.avatar = a]) BY <1>1, <1>5 DEF Seat
  <1>7. x \in Selection /\ x.map \in Maps /\ x.room = r
    BY <1>1, <1>2, <1>3, <1>4, QueueAssumption DEF Selection, RoomIds
  <1>8. x # Nothing /\ \A a \in Avatars : [x EXCEPT !.avatar = a] # Nothing
    BY <1>5, <1>7, NothingAssumption
  <1> QED BY <1>2, <1>5, <1>6, <1>7, <1>8 DEF Real

\* The zero selection stays one, and launches nothing.
LEMMA BlankFacts ==
  ASSUME NEW x, Blank(x)
  PROVE  /\ x \in Selection /\ ~Real(x)
         /\ \A a \in Avatars : LET y == [x EXCEPT !.avatar = a] IN
              y \in Selection /\ Blank(y) /\ ~Real(y)
  <1>1. PICK b \in Avatars \cup {NoAvatar} :
          x = [map |-> Nothing, avatar |-> b, room |-> 0, team |-> 0]
    BY DEF Blank, Unset
  <1>2. \A a \in Avatars : [x EXCEPT !.avatar = a] =
          [map |-> Nothing, avatar |-> a, room |-> 0, team |-> 0]
    BY <1>1
  <1>3. \A a \in Avatars \cup {NoAvatar} :
          LET y == [map |-> Nothing, avatar |-> a, room |-> 0, team |-> 0] IN
          y \in Selection /\ Blank(y) /\ ~Real(y)
    BY QueueAssumption, NothingAssumption DEF Selection, Teams, Blank, Unset, Real
  <1> QED BY <1>1, <1>2, <1>3

\* The zero selection is one.
LEMMA UnsetIsBlank == Blank(Unset) /\ Unset \in Selection /\ ~Real(Unset)
  <1>1. [Unset EXCEPT !.avatar = NoAvatar] = Unset BY DEF Unset
  <1>2. Blank(Unset) BY <1>1 DEF Blank
  <1> QED BY <1>2, BlankFacts

-----------------------------------------------------------------------------
(***************************************************************************)
(* The invariant holds at the start and is kept by every section.          *)
(***************************************************************************)
\* The queues are empty at the start and nobody has a seat.
LEMMA QueueInit == Init => QueueIInv
  <1> SUFFICES ASSUME Init PROVE QueueIInv OBVIOUS
  <1>1. QueuesInv BY QueueAssumption DEF Init, QueuesInv
  <1>2. RoomsInv BY QueueAssumption DEF Init, RoomsInv
  <1>3. TablesInv BY UnsetIsBlank, QueueAssumption DEF Init, TablesInv
  <1>4. \A u \in Users : UserInv(u)
    BY UnsetIsBlank, QueueAssumption DEF Init, UserInv, Stored, Held, Real
  <1>5. \A u \in Users : CalmInv(u) BY DEF Init, CalmInv, Waits, Sent, Stored, Held, Real
  <1> QED BY <1>1, <1>2, <1>3, <1>4, <1>5 DEF QueueIInv

\* What belongs to a user, and that only his own handlers and a match change.
Same(v) == /\ fightSel'[v] = fightSel[v] /\ pending'[v] = pending[v] /\ battle'[v] = battle[v]
           /\ tmp'[v] = tmp[v] /\ hpc'[v] = hpc[v] /\ screen'[v] = screen[v]
           /\ mail'[v] = mail[v] /\ launched'[v] = launched[v]

\* A step that forms no match has to keep the invariant of its own user only.
LEMMA OneUserStep ==
  ASSUME QueueIInv, NEW u \in Users, QueuesInv', TablesInv', UNCHANGED <<nextDotaRoom, rosters>>,
         \A v \in Users \ {u} : Same(v) /\ (Waits(v)' => Waits(v)),
         crossed \subseteq crossed', UserInv(u)', u \notin crossed' => CalmInv(u)'
  PROVE  QueueIInv'
  <1>1. RoomsInv' BY DEF QueueIInv, RoomsInv
  <1>2. ASSUME NEW v \in Users \ {u} PROVE UserInv(v)' /\ (v \notin crossed' => CalmInv(v)')
    <2>1. UserInv(v) /\ (v \notin crossed => CalmInv(v)) BY DEF QueueIInv
    <2>2. Same(v) BY <1>2
    <2>3. UserInv(v)' BY <2>1, <2>2 DEF Same, UserInv, Stored, Held
    <2>4. v \notin crossed' => CalmInv(v)'
      BY <1>2, <2>1, <2>2 DEF Same, CalmInv, Stored, Held, Sent, Newest
    <2> QED BY <2>3, <2>4
  <1> QED BY <1>1, <1>2 DEF QueueIInv

\* The numbers of the rooms a user's copies are of.
LEMMA RoomNumbers ==
  ASSUME QueueIInv, NEW u \in Users
  PROVE  /\ rosters \in Seq(Roster) /\ Len(rosters) = nextDotaRoom /\ Len(rosters) <= MaxRooms
         /\ nextDotaRoom \in Nat /\ launched[u] \in Nat
         /\ \A x : Seat(rosters, u, x) => x.room \in Nat
  <1>1. rosters \in Seq(Roster) /\ Len(rosters) = nextDotaRoom /\ Len(rosters) <= MaxRooms
        /\ nextDotaRoom \in Nat
    BY QueueAssumption DEF QueueIInv, RoomsInv
  <1>2. launched[u] \in Nat BY QueueAssumption DEF QueueIInv, TablesInv
  <1> QED BY <1>1, <1>2, SeatFacts

\* fight|select_avatar and fight|ready copy the selection their user has.
LEMMA ReadStep ==
  ASSUME QueueIInv, NEW u \in Users, SelectGet(u) \/ ReadyGet(u)
  PROVE  QueueIInv'
  <1> DEFINE x == IF fightSel[u] = Nothing THEN Unset ELSE fightSel[u]
  <1>1. PICK next \in {"select", "pend"} :
          /\ Idle(u) /\ screen[u] = "avatars"
          /\ tmp' = [tmp EXCEPT ![u] = x]
          /\ next = "pend" => Real(x)
          /\ hpc' = [hpc EXCEPT ![u] = next]
          /\ UNCHANGED <<dotaQueue, nextDotaRoom, fightSel, pending, mail, screen, ticket, battle,
                         rosters, launched, crossed>>
    <2>1. CASE SelectGet(u) BY <2>1 DEF SelectGet
    <2>2. CASE ReadyGet(u)
      <3>1. Real(fightSel[u]) /\ x = fightSel[u] BY <2>2 DEF ReadyGet, Real
      <3> QED BY <2>2, <3>1 DEF ReadyGet
    <2> QED BY <2>1, <2>2
  <1>2. UserInv(u) /\ (u \notin crossed => CalmInv(u)) BY DEF QueueIInv
  <1>3. /\ Blank(x) \/ Seat(rosters, u, x)
        /\ Real(x) => fightSel[u] = x /\ Stored(u)
    BY <1>1, <1>2, UnsetIsBlank DEF UserInv, Stored, Idle
  <1>4. x \in Selection BY <1>3, UnsetIsBlank, BlankFacts, SeatFacts, RoomNumbers
  <1>5. Real(x) => Seat(rosters, u, x) BY <1>3, BlankFacts
  <1> HIDE DEF x
  <1>6. QueuesInv' BY <1>1 DEF QueueIInv, QueuesInv
  <1>7. TablesInv' BY <1>1, <1>4 DEF QueueIInv, TablesInv
  <1>8. \A v \in Users \ {u} : Same(v) /\ (Waits(v)' => Waits(v))
    BY <1>1 DEF QueueIInv, TablesInv, Same, Waits
  <1>9. tmp'[u] = x /\ hpc'[u] = next /\ hpc[u] = "idle"
    BY <1>1 DEF QueueIInv, TablesInv, Idle
  <1>10. UserInv(u)'
    BY <1>1, <1>2, <1>3, <1>5, <1>9 DEF UserInv, Stored, Held
  <1>11. u \notin crossed' => CalmInv(u)'
    <2> HAVE u \notin crossed'
    <2>1. CalmInv(u) BY <1>1, <1>2
    <2>2. ~Waits(u)' BY <1>1, <2>1 DEF CalmInv, Waits, Lobby
    <2>3. Held(u)' => Stored(u) /\ tmp'[u] = fightSel[u] BY <1>3, <1>9 DEF Held
    <2> QED BY <1>1, <1>9, <2>1, <2>2, <2>3 DEF CalmInv, Stored, Held, Sent, Newest
  <1> QED BY <1>1, <1>6, <1>7, <1>8, <1>10, <1>11, OneUserStep

\* The copy is stored again, with the avatar: still the same seat.
LEMMA SelectSetStep ==
  ASSUME QueueIInv, NEW u \in Users, NEW a \in Avatars, SelectSet(u, a)
  PROVE  QueueIInv'
  <1> DEFINE x == [tmp[u] EXCEPT !.avatar = a]
  <1>1. /\ hpc[u] = "select"
        /\ fightSel' = [fightSel EXCEPT ![u] = x]
        /\ hpc' = [hpc EXCEPT ![u] = "idle"] /\ tmp' = [tmp EXCEPT ![u] = Unset]
        /\ UNCHANGED <<dotaQueue, nextDotaRoom, pending, mail, screen, ticket, battle,
                       rosters, launched, crossed>>
    BY DEF SelectSet, Done
  <1>2. UserInv(u) /\ (u \notin crossed => CalmInv(u)) BY DEF QueueIInv
  <1>3. Blank(tmp[u]) \/ Seat(rosters, u, tmp[u]) BY <1>2 DEF UserInv
  <1>4. /\ x \in Selection /\ (Blank(x) \/ Seat(rosters, u, x))
        /\ Real(x) => Real(tmp[u]) /\ x.room = tmp[u].room
    BY <1>3, BlankFacts, SeatFacts, RoomNumbers
  <1> HIDE DEF x
  <1>5. QueuesInv' BY <1>1 DEF QueueIInv, QueuesInv
  <1>6. TablesInv' BY <1>1, <1>4, UnsetIsBlank DEF QueueIInv, TablesInv
  <1>7. \A v \in Users \ {u} : Same(v) /\ (Waits(v)' => Waits(v))
    BY <1>1 DEF QueueIInv, TablesInv, Same, Waits
  <1>8. fightSel'[u] = x /\ hpc'[u] = "idle" /\ tmp'[u] = Unset
    BY <1>1 DEF QueueIInv, TablesInv
  <1>9. Stored(u)' => Held(u) /\ fightSel'[u].room = tmp[u].room
    BY <1>1, <1>4, <1>8 DEF Stored, Held
  <1>10. UserInv(u)'
    BY <1>1, <1>2, <1>4, <1>8, <1>9, UnsetIsBlank DEF UserInv, Held
  <1>11. u \notin crossed' => CalmInv(u)'
    BY <1>1, <1>2, <1>8, <1>9 DEF CalmInv, Held, Sent, Newest, Waits
  <1> QED BY <1>1, <1>5, <1>6, <1>7, <1>10, <1>11, OneUserStep

\* The copy becomes the pending battle: a later room than any he was sent to.
LEMMA ReadyPendStep ==
  ASSUME QueueIInv, NEW u \in Users, NEW a \in Avatars, ReadyPend(u, a)
  PROVE  QueueIInv'
  <1> DEFINE x == [tmp[u] EXCEPT !.avatar = a]
  <1>1. /\ hpc[u] = "pend"
        /\ pending' = [pending EXCEPT ![u] = x] /\ hpc' = [hpc EXCEPT ![u] = "clear"]
        /\ launched' = [launched EXCEPT ![u] = tmp[u].room]
        /\ UNCHANGED <<dotaQueue, nextDotaRoom, fightSel, tmp, mail, screen, ticket, battle,
                       rosters, crossed>>
    BY DEF ReadyPend
  <1>2. UserInv(u) /\ (u \notin crossed => CalmInv(u)) BY DEF QueueIInv
  <1>3. Seat(rosters, u, tmp[u]) BY <1>1, <1>2 DEF UserInv
  <1>4. /\ x \in Launch /\ Seat(rosters, u, x) /\ x.room = tmp[u].room
        /\ Real(tmp[u]) /\ tmp[u].room \in 1..nextDotaRoom
    BY <1>3, SeatFacts, RoomNumbers
  <1>5. Held(u) /\ tmp[u].room > launched[u] /\ launched[u] \in Nat
    BY <1>1, <1>2, <1>4, RoomNumbers DEF UserInv, Held
  <1>6. battle[u] # Nothing => battle[u].room \in Nat /\ battle[u].room <= launched[u]
    BY <1>2, RoomNumbers DEF UserInv
  <1>0. tmp[u].room \in 0..MaxRooms BY <1>4, QueueAssumption DEF QueueIInv, RoomsInv
  <1> HIDE DEF x
  <1>7. QueuesInv' BY <1>1 DEF QueueIInv, QueuesInv
  <1>8. TablesInv' BY <1>0, <1>1, <1>4 DEF QueueIInv, TablesInv
  <1>9. \A v \in Users \ {u} : Same(v) /\ (Waits(v)' => Waits(v))
    BY <1>1 DEF QueueIInv, TablesInv, Same, Waits
  <1>10. /\ pending'[u] = x /\ hpc'[u] = "clear" /\ launched'[u] = tmp[u].room
         /\ tmp'[u] = tmp[u] /\ fightSel'[u] = fightSel[u] /\ battle'[u] = battle[u]
    BY <1>1 DEF QueueIInv, TablesInv
  <1>11. UserInv(u)'
    <2>1. ~Stored(u)' /\ ~Held(u)' BY <1>10 DEF Stored, Held
    <2>2. battle[u] # Nothing => x.room > battle[u].room /\ battle[u].room <= tmp[u].room
      BY <1>4, <1>5, <1>6
    <2>3. tmp[u].room <= nextDotaRoom BY <1>4, QueueAssumption DEF QueueIInv, RoomsInv
    <2> QED BY <1>1, <1>2, <1>3, <1>4, <1>10, <2>1, <2>2, <2>3 DEF UserInv
  <1>12. u \notin crossed' => CalmInv(u)'
    <2> HAVE u \notin crossed'
    <2>1. CalmInv(u) BY <1>1, <1>2
    <2>2. Sent(u) = {} /\ screen[u] = "avatars" /\ Newest(rosters, u, tmp[u].room) /\ ~Waits(u)
      BY <1>1, <1>5, <2>1 DEF CalmInv
    <2>3. ~Stored(u)' /\ ~Held(u)' /\ Sent(u)' = {} /\ ~Waits(u)'
      BY <1>1, <1>10, <2>2 DEF Stored, Held, Sent, Waits
    <2>4. Newest(rosters', u, tmp'[u].room) /\ Newest(rosters', u, x.room)
      BY <1>1, <1>4, <1>10, <2>2 DEF Newest
    <2>5. battle[u] # Nothing => Newest(rosters, u, battle[u].room) BY <2>1 DEF CalmInv
    <2> QED BY <1>1, <1>10, <2>1, <2>2, <2>3, <2>4, <2>5 DEF CalmInv, Newest
  <1> QED BY <1>1, <1>7, <1>8, <1>9, <1>11, <1>12, OneUserStep

\* fight|ready drops the selection and sends the launch.
LEMMA ReadyClearStep ==
  ASSUME QueueIInv, NEW u \in Users, ReadyClear(u)
  PROVE  QueueIInv'
  <1>1. /\ hpc[u] = "clear"
        /\ fightSel' = [fightSel EXCEPT ![u] = Nothing]
        /\ hpc' = [hpc EXCEPT ![u] = "idle"] /\ tmp' = [tmp EXCEPT ![u] = Unset]
        /\ mail' = [mail EXCEPT ![u] = @ \cup {tmp[u].room}]
        /\ UNCHANGED <<dotaQueue, nextDotaRoom, pending, screen, ticket, battle,
                       rosters, launched, crossed>>
    BY DEF ReadyClear, Done
  <1>2. UserInv(u) /\ (u \notin crossed => CalmInv(u)) BY DEF QueueIInv
  <1>3. Seat(rosters, u, tmp[u]) /\ tmp[u].room = launched[u] BY <1>1, <1>2 DEF UserInv
  <1>4. tmp[u].room \in Pushes
    <2>1. tmp[u].room \in 1..Len(rosters) /\ Len(rosters) \in Nat /\ Len(rosters) <= MaxRooms
      BY <1>3, SeatFacts, RoomNumbers
    <2> QED BY <2>1, QueueAssumption DEF Pushes, RoomIds
  <1>5. QueuesInv' BY <1>1 DEF QueueIInv, QueuesInv
  <1>6. TablesInv' BY <1>1, <1>4, UnsetIsBlank DEF QueueIInv, TablesInv
  <1>7. \A v \in Users \ {u} : Same(v) /\ (Waits(v)' => Waits(v))
    BY <1>1 DEF QueueIInv, TablesInv, Same, Waits
  <1>8. /\ fightSel'[u] = Nothing /\ hpc'[u] = "idle" /\ tmp'[u] = Unset
        /\ mail'[u] = mail[u] \cup {launched[u]}
    BY <1>1, <1>3 DEF QueueIInv, TablesInv
  <1>9. ~Stored(u)' /\ ~Held(u)' BY <1>8, UnsetIsBlank DEF Stored, Held, Real
  <1>10. UserInv(u)' BY <1>1, <1>2, <1>8, <1>9, UnsetIsBlank DEF UserInv
  <1>11. u \notin crossed' => CalmInv(u)'
    <2> HAVE u \notin crossed'
    <2>1. CalmInv(u) BY <1>1, <1>2
    <2>2. screen[u] = "avatars" /\ ~Waits(u) BY <1>1, <2>1 DEF CalmInv
    <2>3. ~Waits(u)' BY <1>1, <2>2 DEF Waits
    <2>4. pending[u] # Nothing => pending[u].room \in mail'[u] BY <1>2, <1>8 DEF UserInv
    <2>5. Sent(u)' \subseteq {launched'[u]} BY <1>1, <1>8, <2>1 DEF CalmInv, Sent
    <2> QED BY <1>1, <1>8, <1>9, <2>1, <2>2, <2>3, <2>4, <2>5 DEF CalmInv, Newest
  <1> QED BY <1>1, <1>5, <1>6, <1>7, <1>10, <1>11, OneUserStep

\* fight|desert drops the selection and brings the client back to the square.
LEMMA DesertClearStep ==
  ASSUME QueueIInv, NEW u \in Users, DesertClear(u)
  PROVE  QueueIInv'
  <1>1. /\ hpc[u] = "idle" /\ screen[u] \in {"queue", "avatars"}
        /\ fightSel' = [fightSel EXCEPT ![u] = Nothing]
        /\ screen' = [screen EXCEPT ![u] = "square"]
        /\ hpc' = [hpc EXCEPT ![u] = "dequeue"]
        /\ Crossed(u)
        /\ UNCHANGED <<dotaQueue, nextDotaRoom, pending, tmp, mail, ticket, battle,
                       rosters, launched>>
    BY DEF DesertClear, Idle
  <1>2. UserInv(u) /\ (u \notin crossed => CalmInv(u)) BY DEF QueueIInv
  <1>3. crossed \subseteq crossed' /\ crossed' \subseteq Users
        /\ (u \notin crossed' => u \notin crossed /\ mail[u] = {})
    BY <1>1 DEF Crossed, Crossing, QueueIInv, TablesInv
  <1>4. QueuesInv' BY <1>1 DEF QueueIInv, QueuesInv
  <1>5. TablesInv' BY <1>1, <1>3 DEF QueueIInv, TablesInv
  <1>6. \A v \in Users \ {u} : Same(v) /\ (Waits(v)' => Waits(v))
    BY <1>1 DEF QueueIInv, TablesInv, Same, Waits
  <1>7. fightSel'[u] = Nothing /\ hpc'[u] = "dequeue" /\ screen'[u] = "square"
    BY <1>1 DEF QueueIInv, TablesInv
  <1>8. ~Stored(u)' /\ ~Held(u)' BY <1>7 DEF Stored, Held, Real
  <1>9. UserInv(u)' BY <1>1, <1>2, <1>7, <1>8 DEF UserInv
  <1>10. u \notin crossed' => CalmInv(u)'
    <2> HAVE u \notin crossed'
    <2>1. CalmInv(u) /\ mail[u] = {} BY <1>2, <1>3
    <2>2. pending[u] = Nothing /\ battle[u] = Nothing BY <1>1, <2>1 DEF CalmInv
    <2>3. Sent(u)' = {} /\ (Waits(u)' => Waits(u)) BY <1>1, <2>1 DEF Sent, Waits
    <2> QED BY <1>1, <1>7, <1>8, <2>1, <2>2, <2>3 DEF CalmInv, Lobby
  <1> QED BY <1>1, <1>3, <1>4, <1>5, <1>6, <1>9, <1>10, OneUserStep

\* The second section of fight|desert gives up the place in the queue.
LEMMA DequeueStep ==
  ASSUME QueueIInv, NEW u \in Users, DesertDequeue(u)
  PROVE  QueueIInv'
  <1>1. /\ hpc[u] = "dequeue"
        /\ dotaQueue' = Without(u) /\ hpc' = [hpc EXCEPT ![u] = "idle"]
        /\ UNCHANGED <<nextDotaRoom, fightSel, pending, tmp, mail, screen, ticket, battle,
                       rosters, launched, crossed>>
    BY DEF DesertDequeue
  <1>2. UserInv(u) /\ (u \notin crossed => CalmInv(u)) BY DEF QueueIInv
  <1>3. QueuesInv' BY <1>1, WithoutFacts DEF QueueIInv, QueuesInv
  <1>4. TablesInv' BY <1>1 DEF QueueIInv, TablesInv
  <1>5. \A v \in Users : Waits(v)' => Waits(v) /\ v # u
    BY <1>1, WithoutFacts DEF QueueIInv, Waits
  <1>6. \A v \in Users \ {u} : Same(v) BY <1>1 DEF QueueIInv, TablesInv, Same
  <1>7. hpc'[u] = "idle" BY <1>1 DEF QueueIInv, TablesInv
  <1>8. UserInv(u)' BY <1>1, <1>2, <1>7 DEF UserInv, Stored, Held
  <1>9. u \notin crossed' => CalmInv(u)'
    BY <1>1, <1>2, <1>5, <1>7 DEF CalmInv, Stored, Held, Sent, Newest
  <1> QED BY <1>1, <1>3, <1>4, <1>5, <1>6, <1>8, <1>9, OneUserStep

\* fight|start_select_avatar and fight|launch reach the client.
LEMMA PushStep ==
  ASSUME QueueIInv, NEW u \in Users, Found(u) \/ \E r \in RoomIds : Launches(u, r)
  PROVE  QueueIInv'
  <1>1. PICK p \in Pushes, x \in {"avatars", "launching"}, t \in 0..MaxRooms :
          /\ p \in mail[u] /\ screen[u] \in Listening
          /\ x = "avatars" => p = StartSelect
          /\ x = "launching" => p # StartSelect
          /\ screen' = [screen EXCEPT ![u] = x] /\ ticket' = [ticket EXCEPT ![u] = t]
          /\ mail' = [mail EXCEPT ![u] = @ \ {p}]
          /\ UNCHANGED <<dotaQueue, nextDotaRoom, fightSel, pending, hpc, tmp, battle,
                         rosters, launched, crossed>>
    <2>1. CASE Found(u)
      <3>1. StartSelect \in Pushes BY DEF Pushes
      <3>2. ticket[u] \in 0..MaxRooms /\ ticket' = [ticket EXCEPT ![u] = ticket[u]]
        BY <2>1 DEF Found, QueueIInv, TablesInv
      <3> QED BY <2>1, <3>1, <3>2 DEF Found
    <2>2. CASE \E r \in RoomIds : Launches(u, r)
      <3>1. PICK r \in RoomIds : Launches(u, r) BY <2>2
      <3>2. r \in Pushes /\ r # StartSelect /\ r \in 0..MaxRooms
        BY QueueAssumption DEF Pushes, RoomIds, StartSelect
      <3> QED BY <3>1, <3>2 DEF Launches
    <2> QED BY <2>1, <2>2
  <1>2. UserInv(u) /\ (u \notin crossed => CalmInv(u)) BY DEF QueueIInv
  <1>3. QueuesInv' BY <1>1 DEF QueueIInv, QueuesInv
  <1>4. TablesInv' BY <1>1 DEF QueueIInv, TablesInv
  <1>5. \A v \in Users \ {u} : Same(v) /\ (Waits(v)' => Waits(v))
    BY <1>1 DEF QueueIInv, TablesInv, Same, Waits
  <1>6. screen'[u] = x /\ mail'[u] = mail[u] \ {p} BY <1>1 DEF QueueIInv, TablesInv
  <1>7. UserInv(u)' BY <1>1, <1>2 DEF UserInv, Stored, Held
  <1>8. u \notin crossed' => CalmInv(u)'
    <2> HAVE u \notin crossed'
    <2>1. CalmInv(u) BY <1>1, <1>2
    <2>2. ~Waits(u) /\ battle[u] = Nothing BY <1>1, <2>1 DEF CalmInv, Listening
    <2>3. ~Waits(u)' /\ Sent(u)' \subseteq Sent(u) /\ (Stored(u)' <=> Stored(u))
          /\ (Held(u)' <=> Held(u))
      BY <1>1, <1>6, <2>2 DEF Waits, Sent, Stored, Held
    <2>4. CASE x = "avatars"
      <3>1. pending[u] # Nothing => pending[u].room # StartSelect
        BY <1>2, SeatFacts, RoomNumbers DEF UserInv, StartSelect
      <3>2. screen[u] # "launching" BY <1>1 DEF Listening
      <3>3. pending[u] # Nothing => hpc'[u] = "clear" \/ pending'[u].room \in mail'[u]
        BY <1>1, <1>6, <2>1, <2>4, <3>1, <3>2 DEF CalmInv
      <3> QED BY <1>1, <1>6, <2>1, <2>2, <2>3, <2>4, <3>3 DEF CalmInv, Newest
    <2>5. CASE x = "launching"
      <3>1. p \in Sent(u) BY <1>1, <2>5 DEF Sent
      <3>2. hpc[u] # "clear" /\ ~Stored(u) /\ ~Held(u) BY <2>1, <3>1 DEF CalmInv
      <3>3. hpc[u] # "pend" BY <1>2, <3>2, SeatFacts, RoomNumbers DEF UserInv, Held
      <3>4. Sent(u)' = {}
        <4>1. Sent(u) \subseteq {launched[u]} BY <2>1 DEF CalmInv
        <4> QED BY <1>6, <3>1, <4>1 DEF Sent
      <3> QED BY <1>1, <1>6, <2>1, <2>2, <2>3, <2>5, <3>2, <3>3, <3>4 DEF CalmInv, Newest
    <2> QED BY <2>4, <2>5
  <1> QED BY <1>1, <1>3, <1>4, <1>5, <1>7, <1>8, OneUserStep

\* handleConnect consumes the pending battle, with its password or without.
LEMMA ConnectStep ==
  ASSUME QueueIInv, NEW u \in Users, Connect(u) \/ Reconnect(u)
  PROVE  QueueIInv'
  <1>1. PICK x \in {"battle", "square"}, b \in {pending[u], Nothing} :
          /\ x = "battle" => b = pending[u]
          /\ x = "square" => b = Nothing
          /\ battle' = [battle EXCEPT ![u] = b]
          /\ pending' = [pending EXCEPT ![u] = Nothing]
          /\ screen' = [screen EXCEPT ![u] = x]
          /\ ticket' = [ticket EXCEPT ![u] = 0]
          /\ UNCHANGED <<dotaQueue, nextDotaRoom, fightSel, hpc, tmp, mail, rosters, launched>>
          /\ crossed \subseteq crossed' /\ crossed' \subseteq Users
          /\ \/ screen[u] = "launching" /\ crossed' = crossed
             \/ x = "square" /\ (u \notin crossed' => mail[u] = {} /\ hpc[u] = "idle")
    <2>1. CASE Reconnect(u)
      <3>1. /\ battle' = [battle EXCEPT ![u] = Nothing]
            /\ pending' = [pending EXCEPT ![u] = Nothing]
            /\ screen' = [screen EXCEPT ![u] = "square"]
            /\ ticket' = [ticket EXCEPT ![u] = 0]
            /\ UNCHANGED <<dotaQueue, nextDotaRoom, fightSel, hpc, tmp, mail, rosters, launched>>
        BY <2>1 DEF Reconnect
      <3>2. /\ crossed \subseteq crossed' /\ crossed' \subseteq Users
            /\ u \notin crossed' => mail[u] = {} /\ hpc[u] = "idle"
        BY <2>1 DEF Reconnect, Crossed, Crossing, Idle, QueueIInv, TablesInv
      <3>3. "square" \in {"battle", "square"} /\ Nothing \in {pending[u], Nothing} OBVIOUS
      <3> WITNESS "square" \in {"battle", "square"}, Nothing \in {pending[u], Nothing}
      <3> QED BY <3>1, <3>2
    <2>2. CASE Connect(u)
      <3> DEFINE right == pending[u] # Nothing /\ pending[u].room = ticket[u]
                 c == IF right THEN pending[u] ELSE Nothing
                 y == IF right THEN "battle" ELSE "square"
      <3>1. /\ screen[u] = "launching"
            /\ battle' = [battle EXCEPT ![u] = c]
            /\ pending' = [pending EXCEPT ![u] = Nothing]
            /\ screen' = [screen EXCEPT ![u] = y]
            /\ ticket' = [ticket EXCEPT ![u] = 0]
            /\ UNCHANGED <<dotaQueue, nextDotaRoom, fightSel, hpc, tmp, mail, rosters, launched>>
            /\ crossed' = crossed /\ crossed \subseteq Users
        BY <2>2 DEF Connect, QueueIInv, TablesInv
      <3>2. /\ y \in {"battle", "square"} /\ c \in {pending[u], Nothing}
            /\ (y = "battle" => c = pending[u]) /\ (y = "square" => c = Nothing)
        OBVIOUS
      <3> HIDE DEF y, c
      <3> QED BY <3>1, <3>2
    <2> QED BY <2>1, <2>2
  <1>2. UserInv(u) /\ (u \notin crossed => CalmInv(u)) BY DEF QueueIInv
  <1>3. b \in Launch \cup {Nothing} BY DEF QueueIInv, TablesInv
  <1>4. QueuesInv' BY <1>1 DEF QueueIInv, QueuesInv
  <1>5. TablesInv' BY <1>1, <1>3, QueueAssumption DEF QueueIInv, TablesInv
  <1>6. \A v \in Users \ {u} : Same(v) /\ (Waits(v)' => Waits(v))
    BY <1>1 DEF QueueIInv, TablesInv, Same, Waits
  <1>7. battle'[u] = b /\ pending'[u] = Nothing /\ screen'[u] = x
    BY <1>1 DEF QueueIInv, TablesInv
  <1>8. UserInv(u)'
    <2>1. b # Nothing => b.room <= launched[u]
      BY <1>2, SeatFacts, RoomNumbers DEF UserInv
    <2>2. b = Nothing \/ Seat(rosters, u, b) BY <1>2 DEF UserInv
    <2> QED BY <1>1, <1>2, <1>7, <2>1, <2>2 DEF UserInv, Stored, Held
  <1>9. u \notin crossed' => CalmInv(u)'
    <2> HAVE u \notin crossed'
    <2>1. CalmInv(u) BY <1>1, <1>2
    <2>2. b # Nothing => Newest(rosters, u, b.room) BY <2>1 DEF CalmInv
    <2>3. b # Nothing => x = "battle" BY <1>1
    <2>4. Sent(u)' = {} /\ hpc'[u] \notin {"pend", "clear"} BY <1>1, <2>1 DEF CalmInv, Sent
    <2>5. Waits(u)' => Waits(u) /\ x = "square" BY <1>1, <2>1 DEF CalmInv, Waits, Lobby
    <2>6. (Stored(u)' => Stored(u)) /\ (Held(u)' => Held(u)) BY <1>1 DEF Stored, Held
    <2> QED BY <1>1, <1>7, <2>1, <2>2, <2>3, <2>4, <2>5, <2>6 DEF CalmInv, Newest, Lobby
  <1> QED BY <1>1, <1>4, <1>5, <1>6, <1>8, <1>9, OneUserStep

\* Who joins without crossing a push has no launch and no copy of a seat in a handler.
LEMMA JoinerIsFree ==
  ASSUME QueueIInv, NEW u \in Users, Joins(u)
  PROVE  /\ hpc[u] = "idle" /\ crossed \subseteq crossed' /\ crossed' \subseteq Users
         /\ u \notin crossed' => /\ CalmInv(u) /\ mail[u] = {}
                                 /\ pending[u] = Nothing /\ battle[u] = Nothing
  <1>1. hpc[u] = "idle" /\ screen[u] \in Lobby /\ Crossed(u) BY DEF Joins, Idle
  <1>2. crossed \subseteq crossed' /\ crossed' \subseteq Users
        /\ (u \notin crossed' => u \notin crossed /\ mail[u] = {})
    BY <1>1 DEF Crossed, Crossing, QueueIInv, TablesInv
  <1>3. u \notin crossed' => CalmInv(u) BY <1>2 DEF QueueIInv
  <1> QED BY <1>1, <1>2, <1>3 DEF CalmInv, Lobby

\* A join that does not fill its queue: the joiner holds its last place and no other.
LEMMA JoinWaitStep ==
  ASSUME QueueIInv, NEW u \in Users, NEW m \in Maps, JoinWait(u, m)
  PROVE  QueueIInv'
  <1> DEFINE q == Waiting(u, m)  w(n) == Without(u)[n]
  <1>1. /\ Joins(u) /\ Len(q) < DotaMatchSize
        /\ dotaQueue' = [Without(u) EXCEPT ![m] = q]
        /\ UNCHANGED <<nextDotaRoom, fightSel, mail, rosters>>
    BY DEF JoinWait
  <1>2. /\ screen' = [screen EXCEPT ![u] = "queue"]
        /\ UNCHANGED <<pending, hpc, tmp, ticket, battle, launched>>
    BY <1>1 DEF Joins
  <1>3. /\ q \in Seq(Users)
        /\ \A i, j \in DOMAIN q : q[i] = q[j] => i = j
        /\ \A i \in DOMAIN q : q[i] = u \/ Waits(q[i])
        /\ \A n \in Maps : n # m => \A i \in DOMAIN q, j \in DOMAIN w(n) : q[i] # w(n)[j]
    BY WaitingFacts DEF QueueIInv
  <1>4. /\ Without(u) \in [Maps -> Seq(Users)]
        /\ \A n \in Maps : Len(w(n)) < DotaMatchSize /\ \A i \in DOMAIN w(n) : Waits(w(n)[i])
        /\ \A n, o \in Maps : \A i \in DOMAIN w(n), j \in DOMAIN w(o) :
             w(n)[i] = w(o)[j] => n = o /\ i = j
    BY WithoutFacts DEF QueueIInv
  <1>5. dotaQueue' \in [Maps -> Seq(Users)]
        /\ dotaQueue'[m] = q /\ \A n \in Maps : n # m => dotaQueue'[n] = w(n)
    BY <1>1, <1>3, <1>4
  <1>6. UserInv(u) BY DEF QueueIInv
  <1> HIDE DEF q, w
  <1>7. QueuesInv'
    <2>1. \A n \in Maps : Len(dotaQueue'[n]) < DotaMatchSize BY <1>1, <1>4, <1>5
    <2>2. ASSUME NEW n \in Maps, NEW o \in Maps,
                 NEW i \in DOMAIN dotaQueue'[n], NEW j \in DOMAIN dotaQueue'[o],
                 dotaQueue'[n][i] = dotaQueue'[o][j]
          PROVE  n = o /\ i = j
      <3>1. CASE n = m /\ o = m BY <1>3, <1>5, <2>2, <3>1
      <3>2. CASE n = m /\ o # m BY <1>3, <1>5, <2>2, <3>2
      <3>3. CASE n # m /\ o = m BY <1>3, <1>5, <2>2, <3>3
      <3>4. CASE n # m /\ o # m BY <1>4, <1>5, <2>2, <3>4
      <3> QED BY <3>1, <3>2, <3>3, <3>4
    <2> QED BY <1>5, <2>1, <2>2 DEF QueuesInv
  <1>8. TablesInv' BY <1>1, <1>2, JoinerIsFree DEF QueueIInv, TablesInv
  <1>9. \A v \in Users \ {u} : Same(v) BY <1>1, <1>2 DEF QueueIInv, TablesInv, Same
  <1>10. \A v \in Users \ {u} : Waits(v)' => Waits(v)
    <2> SUFFICES ASSUME NEW v \in Users \ {u}, NEW n \in Maps, NEW i \in DOMAIN dotaQueue'[n],
                        dotaQueue'[n][i] = v
                 PROVE  Waits(v)
      BY DEF Waits
    <2> QED BY <1>3, <1>4, <1>5
  <1>11. UserInv(u)' BY <1>1, <1>2, <1>6 DEF UserInv, Stored, Held
  <1>12. u \notin crossed' => CalmInv(u)'
    <2> HAVE u \notin crossed'
    <2>1. /\ CalmInv(u) /\ mail[u] = {} /\ hpc[u] = "idle"
          /\ pending[u] = Nothing /\ battle[u] = Nothing
      BY <1>1, JoinerIsFree
    <2>2. screen'[u] = "queue" BY <1>2 DEF QueueIInv, TablesInv
    <2>3. Sent(u)' = {} /\ (Stored(u)' => Stored(u)) /\ (Held(u)' => Held(u))
      BY <1>1, <1>2, <2>1 DEF Sent, Stored, Held
    <2> QED BY <1>1, <1>2, <2>1, <2>2, <2>3 DEF CalmInv, Newest, Lobby
  <1> QED BY <1>1, <1>7, <1>8, <1>9, <1>10, <1>11, <1>12, JoinerIsFree, OneUserStep

\* A match drawn later takes no seat away, and concerns nobody it was not drawn with.
LEMMA LaterMatch ==
  ASSUME NEW rs, NEW R, rs \in Seq(R), NEW ro, NEW v
  PROVE  /\ \A x : Seat(rs, v, x) => Seat(Append(rs, ro), v, x)
         /\ v \notin DOMAIN ro.teams =>
              \A r : Newest(rs, v, r) => Newest(Append(rs, ro), v, r)
  <1> DEFINE ap == Append(rs, ro)
  <1>1. /\ DOMAIN ap = 1..(Len(rs) + 1) /\ DOMAIN rs = 1..Len(rs) /\ Len(rs) \in Nat
        /\ \A s \in DOMAIN rs : ap[s] = rs[s]
        /\ ap[Len(rs) + 1] = ro
    OBVIOUS
  <1> HIDE DEF ap
  <1>2. ASSUME NEW x, Seat(rs, v, x) PROVE Seat(ap, v, x)
    <2>1. PICK r \in DOMAIN rs, a \in Avatars \cup {NoAvatar} :
            /\ v \in DOMAIN rs[r].teams
            /\ x = [map |-> rs[r].map, avatar |-> a, room |-> r, team |-> rs[r].teams[v]]
      BY <1>2 DEF Seat
    <2>2. r \in DOMAIN ap /\ ap[r] = rs[r] BY <1>1
    <2> QED BY <2>1, <2>2 DEF Seat
  <1>3. ASSUME v \notin DOMAIN ro.teams, NEW r, Newest(rs, v, r) PROVE Newest(ap, v, r)
    <2>1. ASSUME NEW s \in DOMAIN ap, v \in DOMAIN ap[s].teams PROVE s <= r
      <3>1. s \in DOMAIN rs BY <1>1, <1>3, <2>1
      <3> QED BY <1>1, <1>3, <2>1, <3>1 DEF Newest
    <2> QED BY <2>1 DEF Newest
  <1> QED BY <1>2, <1>3 DEF ap

\* Who was just matched has his last seat in the newest room.
LEMMA NewestMatch ==
  ASSUME NEW rs, NEW R, rs \in Seq(R), NEW ro, NEW v, v \in DOMAIN ro.teams
  PROVE  LET r == Len(rs) + 1 IN
         /\ Seat(Append(rs, ro), v, [map |-> ro.map, avatar |-> NoAvatar,
                                     room |-> r, team |-> ro.teams[v]])
         /\ Newest(Append(rs, ro), v, r)
  <1> DEFINE ap == Append(rs, ro)  r == Len(rs) + 1
  <1>1. /\ DOMAIN ap = 1..r /\ r \in Nat /\ r \in DOMAIN ap /\ ap[r] = ro
    OBVIOUS
  <1> HIDE DEF ap, r
  <1>2. \A s \in DOMAIN ap : s <= r BY <1>1
  <1>3. Seat(ap, v, [map |-> ro.map, avatar |-> NoAvatar, room |-> r, team |-> ro.teams[v]])
    BY <1>1 DEF Seat
  <1> QED BY <1>2, <1>3 DEF ap, r, Newest

\* The full queue q is drawn up as it stands.
LEMMA DrawnUp ==
  ASSUME NEW q \in Seq(Users), Len(q) = DotaMatchSize, \A i, j \in DOMAIN q : q[i] = q[j] => i = j,
         NEW m \in Maps, NEW ro,
         ro = [map |-> m,
               teams |-> [v \in ToSet(q) |-> Side(m, CHOOSE i \in DOMAIN q : q[i] = v)]]
  PROVE  ro \in Roster /\ DOMAIN ro.teams = ToSet(q) /\ ro.map = m /\ Lineup(ro)
  <1>1. DOMAIN q = 1..DotaMatchSize /\ q \in [1..DotaMatchSize -> Users] BY QueueAssumption
  <1>2. ToSet(q) = {q[i] : i \in 1..DotaMatchSize} BY <1>1 DEF ToSet
  <1>3. ASSUME NEW i \in 1..DotaMatchSize PROVE ro.teams[q[i]] = Side(m, i)
    <2>1. q[i] \in ToSet(q) BY <1>2
    <2>2. (CHOOSE k \in DOMAIN q : q[k] = q[i]) = i BY <1>1
    <2> QED BY <2>1, <2>2
  <1>4. ASSUME NEW v \in ToSet(q) PROVE ro.teams[v] \in Teams
    <2>1. PICK i \in 1..DotaMatchSize : v = q[i] BY <1>2
    <2>2. Side(m, i) \in Teams BY QueueAssumption DEF Side, Teams
    <2> QED BY <1>3, <2>1, <2>2
  <1>5. DOMAIN ro.teams = ToSet(q) /\ ro.map = m OBVIOUS
  <1>6. ro.teams \in [ToSet(q) -> Teams] BY <1>4
  <1>7. ToSet(q) \in SUBSET Users BY <1>1, <1>2
  <1>8. ro \in Roster BY <1>6, <1>7 DEF Roster, Seats
  <1>9. Lineup(ro)
    <2>1. q \in [1..DotaMatchSize -> DOMAIN ro.teams] BY <1>1, <1>2, <1>5
    <2>2. \A v \in DOMAIN ro.teams : \E i \in 1..DotaMatchSize : q[i] = v BY <1>2, <1>5
    <2> QED BY <1>1, <1>3, <1>5, <2>1, <2>2 DEF Lineup
  <1> QED BY <1>5, <1>8, <1>9

\* A join that fills its queue: the match is that queue, whole, and it gets a new room.
LEMMA JoinFormStep ==
  ASSUME QueueIInv, NEW u \in Users, NEW m \in Maps, JoinForm(u, m)
  PROVE  QueueIInv'
  <1> DEFINE q  == Waiting(u, m)
             w(n) == Without(u)[n]
             r  == nextDotaRoom + 1
             sides(s) == [v \in ToSet(s) |-> Side(m, CHOOSE i \in DOMAIN s : s[i] = v)]
             ts == sides(q)
             ro == [map |-> m, teams |-> ts]
  <1>1. Joins(u) /\ Len(q) >= DotaMatchSize BY DEF JoinForm
  <1>2. /\ q \in Seq(Users) /\ Len(q) \in 1..DotaMatchSize /\ q[Len(q)] = u
        /\ \A i, j \in DOMAIN q : q[i] = q[j] => i = j
        /\ \A i \in DOMAIN q : q[i] = u \/ Waits(q[i])
        /\ \A n \in Maps : n # m => \A i \in DOMAIN q, j \in DOMAIN w(n) : q[i] # w(n)[j]
    BY WaitingFacts DEF QueueIInv
  <1>3. Len(q) = DotaMatchSize BY <1>1, <1>2, QueueAssumption
  <1>4. SubSeq(q, 1, DotaMatchSize) = q /\ SubSeq(q, DotaMatchSize + 1, Len(q)) = <<>>
    <2> HIDE DEF q
    <2> QED BY <1>2, <1>3, QueueAssumption
  <1>5. /\ nextDotaRoom < MaxRooms
        /\ dotaQueue' = [Without(u) EXCEPT ![m] = <<>>]
        /\ nextDotaRoom' = r
        /\ fightSel' = [v \in Users |-> IF v \in ToSet(q)
                          THEN [map |-> m, avatar |-> NoAvatar, room |-> r, team |-> ts[v]]
                          ELSE fightSel[v]]
        /\ rosters' = Append(rosters, ro)
        /\ mail' = [v \in Users |-> IF v \in ToSet(q) THEN mail[v] \cup {StartSelect} ELSE mail[v]]
    <2> DEFINE mt == SubSeq(q, 1, DotaMatchSize)
               tm == sides(mt)
    <2>1. /\ nextDotaRoom < MaxRooms
          /\ dotaQueue' = [Without(u) EXCEPT ![m] = SubSeq(q, DotaMatchSize + 1, Len(q))]
          /\ nextDotaRoom' = r
          /\ fightSel' = [v \in Users |-> IF v \in ToSet(mt)
                            THEN [map |-> m, avatar |-> NoAvatar, room |-> r, team |-> tm[v]]
                            ELSE fightSel[v]]
          /\ rosters' = Append(rosters, [map |-> m, teams |-> tm])
          /\ mail' = [v \in Users |-> IF v \in ToSet(mt) THEN mail[v] \cup {StartSelect}
                                      ELSE mail[v]]
      BY DEF JoinForm, Forms
    <2>2. mt = q BY <1>4
    <2> HIDE DEF sides, mt, q
    <2>3. tm = ts BY <2>2
    <2> HIDE DEF tm, ts
    <2> QED BY <1>4, <2>1, <2>2, <2>3
  <1>6. /\ screen' = [screen EXCEPT ![u] = "queue"]
        /\ UNCHANGED <<pending, hpc, tmp, ticket, battle, launched>>
        /\ crossed \subseteq crossed' /\ crossed' \subseteq Users
    BY <1>1, JoinerIsFree DEF Joins
  <1>7. ToSet(q) = {q[i] : i \in DOMAIN q} BY DEF ToSet
  <1>8. u \in ToSet(q) BY <1>2, <1>3, <1>7, QueueAssumption
  <1>9. ro \in Roster /\ DOMAIN ro.teams = ToSet(q) /\ Lineup(ro)
    <2> HIDE DEF q
    <2> QED BY <1>2, <1>3, DrawnUp
  <1>10. /\ Without(u) \in [Maps -> Seq(Users)]
         /\ \A n \in Maps : Len(w(n)) < DotaMatchSize /\ \A i \in DOMAIN w(n) : Waits(w(n)[i])
         /\ \A n, o \in Maps : \A i \in DOMAIN w(n), j \in DOMAIN w(o) :
              w(n)[i] = w(o)[j] => n = o /\ i = j
    BY WithoutFacts DEF QueueIInv
  <1>11. /\ dotaQueue' \in [Maps -> Seq(Users)]
         /\ dotaQueue'[m] = <<>> /\ \A n \in Maps : n # m => dotaQueue'[n] = w(n)
    BY <1>5, <1>10
  <1>12. ro.map = m /\ ro.teams = ts OBVIOUS
  <1>13. /\ rosters \in Seq(Roster) /\ Len(rosters) = nextDotaRoom
         /\ \A s \in DOMAIN rosters : Lineup(rosters[s])
    BY DEF QueueIInv, RoomsInv
  <1> HIDE DEF q, w, sides, ts, ro
  <1>14. QueuesInv'
    <2>1. \A n \in Maps : Len(dotaQueue'[n]) < DotaMatchSize
      <3> TAKE n \in Maps
      <3>1. CASE n = m BY <1>11, <3>1, QueueAssumption
      <3>2. CASE n # m BY <1>10, <1>11, <3>2
      <3> QED BY <3>1, <3>2
    <2>2. ASSUME NEW n \in Maps, NEW o \in Maps,
                 NEW i \in DOMAIN dotaQueue'[n], NEW j \in DOMAIN dotaQueue'[o],
                 dotaQueue'[n][i] = dotaQueue'[o][j]
          PROVE  n = o /\ i = j
      <3>1. n # m /\ o # m BY <1>11
      <3> QED BY <1>10, <1>11, <2>2, <3>1
    <2> QED BY <1>11, <2>1, <2>2 DEF QueuesInv
  <1>15. \A v \in Users : Waits(v)' => Waits(v) /\ v \notin ToSet(q)
    <2> SUFFICES ASSUME NEW v \in Users, NEW n \in Maps, NEW i \in DOMAIN dotaQueue'[n],
                        dotaQueue'[n][i] = v
                 PROVE  Waits(v) /\ v \notin ToSet(q)
      BY DEF Waits
    <2>1. n # m /\ dotaQueue'[n] = w(n) /\ i \in DOMAIN w(n) BY <1>11
    <2> QED BY <1>2, <1>7, <1>10, <2>1
  <1>16. RoomsInv'
    <2>1. rosters' \in Seq(Roster) /\ Len(rosters') = r
          /\ \A s \in DOMAIN rosters' :
               (s \in DOMAIN rosters /\ rosters'[s] = rosters[s]) \/ rosters'[s] = ro
      BY <1>5, <1>9, <1>13
    <2>2. r \in 0..MaxRooms BY <1>5, QueueAssumption DEF QueueIInv, RoomsInv
    <2>3. \A s \in DOMAIN rosters' : Lineup(rosters'[s]) BY <1>9, <1>13, <2>1
    <2> QED BY <1>5, <2>1, <2>2, <2>3 DEF RoomsInv
  <1>17. rosters' \in Seq(Roster) /\ Len(rosters') <= MaxRooms /\ r \in Nat
         /\ nextDotaRoom \in Nat
    BY <1>16, QueueAssumption DEF RoomsInv, QueueIInv
  <1>18. ASSUME NEW v \in ToSet(q)
         PROVE  /\ v \in Users /\ (v = u \/ Waits(v))
                /\ fightSel'[v] = [map |-> m, avatar |-> NoAvatar, room |-> r, team |-> ts[v]]
                /\ fightSel'[v] \in Selection /\ fightSel'[v].room = r
                /\ Seat(rosters', v, fightSel'[v]) /\ Newest(rosters', v, r)
                /\ mail'[v] = mail[v] \cup {StartSelect}
    <2>1. v \in Users /\ (v = u \/ Waits(v)) BY <1>2, <1>7
    <2>2. fightSel'[v] = [map |-> m, avatar |-> NoAvatar, room |-> r, team |-> ts[v]]
          /\ mail'[v] = mail[v] \cup {StartSelect}
      BY <1>5, <2>1
    <2>3. Seat(rosters', v, fightSel'[v]) /\ Newest(rosters', v, r)
      BY <1>5, <1>9, <1>12, <1>13, <2>2, NewestMatch
    <2>4. fightSel'[v] \in Selection BY <1>17, <2>3, SeatFacts
    <2>5. fightSel'[v].room = r BY <2>2
    <2> QED BY <2>1, <2>2, <2>3, <2>4, <2>5
  <1>19. ASSUME NEW v \in Users, v \notin ToSet(q)
         PROVE  Same(v)
    BY <1>5, <1>6, <1>8, <1>19 DEF Same, QueueIInv, TablesInv
  <1>20. TablesInv'
    <2>1. \A v \in Users : fightSel'[v] \in Selection \cup {Nothing}
      BY <1>5, <1>18 DEF QueueIInv, TablesInv
    <2>2. fightSel' \in [Users -> Selection \cup {Nothing}] BY <1>5, <2>1
    <2>3. \A v \in Users : mail'[v] \in SUBSET Pushes
      BY <1>5 DEF QueueIInv, TablesInv, Pushes
    <2>4. mail' \in [Users -> SUBSET Pushes] BY <1>5, <2>3
    <2> QED BY <1>6, <2>2, <2>4 DEF QueueIInv, TablesInv
  <1>21. \A v \in Users : \A x : Seat(rosters, v, x) => Seat(rosters', v, x)
    BY <1>5, <1>13, LaterMatch
  <1>22. ASSUME NEW v \in Users PROVE UserInv(v)'
    <2>0. UserInv(v) BY DEF QueueIInv
    <2>1. launched[v] <= nextDotaRoom /\ launched[v] \in Nat BY <2>0, RoomNumbers DEF UserInv
    <2>2. launched'[v] <= nextDotaRoom' BY <1>5, <1>6, <1>17, <2>1
    <2>3. /\ pending'[v] = pending[v] /\ battle'[v] = battle[v] /\ tmp'[v] = tmp[v]
          /\ hpc'[v] = hpc[v] /\ launched'[v] = launched[v]
      BY <1>6
    <2>4. CASE v \in ToSet(q)
      <3>1. fightSel'[v].room = r /\ Seat(rosters', v, fightSel'[v]) BY <1>18, <2>4
      <3>2. fightSel'[v].room > launched'[v] BY <1>17, <2>1, <2>3, <3>1
      <3> QED BY <1>21, <2>0, <2>2, <2>3, <3>1, <3>2 DEF UserInv, Stored, Held
    <2>5. CASE v \notin ToSet(q)
      <3>1. fightSel'[v] = fightSel[v] BY <1>19, <2>5 DEF Same
      <3> QED BY <1>21, <2>0, <2>2, <2>3, <3>1 DEF UserInv, Stored, Held
    <2> QED BY <2>4, <2>5
  <1>23. ASSUME NEW v \in Users, v \notin crossed' PROVE CalmInv(v)'
    <2>1. CalmInv(v) BY <1>6, <1>23 DEF QueueIInv
    <2>2. CASE v \in ToSet(q)
      <3>1. /\ pending[v] = Nothing /\ battle[v] = Nothing /\ mail[v] = {}
            /\ hpc[v] \in {"idle", "dequeue"}
        <4>1. CASE v = u BY <1>1, <1>23, <4>1, JoinerIsFree
        <4>2. CASE Waits(v) BY <2>1, <4>2 DEF CalmInv
        <4> QED BY <1>18, <2>2, <4>1, <4>2
      <3>2. ~Waits(v)' BY <1>15, <2>2
      <3>3. Sent(v)' = {} /\ ~Held(v)' BY <1>6, <1>18, <2>2, <3>1 DEF Sent, Held
      <3>4. fightSel'[v].room = r /\ Newest(rosters', v, r) BY <1>18, <2>2
      <3> QED BY <1>6, <3>1, <3>2, <3>3, <3>4 DEF CalmInv
    <2>3. CASE v \notin ToSet(q)
      <3>1. Same(v) BY <1>19, <2>3
      <3>2. Waits(v)' => Waits(v) BY <1>15
      <3>3. \A x : Newest(rosters, v, x) => Newest(rosters', v, x)
        BY <1>5, <1>9, <1>13, <2>3, LaterMatch
      <3>4. (Stored(v)' <=> Stored(v)) /\ (Held(v)' <=> Held(v)) /\ Sent(v)' = Sent(v)
        BY <3>1 DEF Same, Stored, Held, Sent
      <3> QED BY <2>1, <3>1, <3>2, <3>3, <3>4 DEF CalmInv, Same
    <2> QED BY <2>2, <2>3
  <1> QED BY <1>14, <1>16, <1>20, <1>22, <1>23 DEF QueueIInv

-----------------------------------------------------------------------------
(***************************************************************************)
(* Counting the players.                                                   *)
(***************************************************************************)
\* A set that can be numbered from 1 to n has n elements.
LEMMA CountOf ==
  ASSUME NEW S, NEW n \in Nat, NEW f \in [1..n -> S],
         \A i, j \in 1..n : f[i] = f[j] => i = j,
         \A v \in S : \E i \in 1..n : f[i] = v
  PROVE  IsFiniteSet(S) /\ Cardinality(S) = n
  <1>1. f \in Bijection(1..n, S) BY DEF Bijection, Injection, Surjection, IsInjective
  <1>2. ExistsBijection(1..n, S) BY <1>1 DEF ExistsBijection
  <1> QED BY <1>2, FS_NatBijection, FS_CountingElements

\* A lineup is full, and its DOTA sides alternate.
LEMMA LineupIsFair ==
  ASSUME NEW ro, Lineup(ro)
  PROVE  LET seated(t) == Cardinality({v \in DOMAIN ro.teams : ro.teams[v] = t}) IN
         /\ Cardinality(DOMAIN ro.teams) = DotaMatchSize
         /\ ro.map \in DotaMaps => seated(0) = 0 /\ seated(1) - seated(2) \in {0, 1}
  <1> DEFINE n == DotaMatchSize  on(t) == {v \in DOMAIN ro.teams : ro.teams[v] = t}
  <1>0. n \in Nat BY QueueAssumption
  <1>1. PICK s \in [1..n -> DOMAIN ro.teams] :
          /\ \A i, j \in 1..n : s[i] = s[j] => i = j
          /\ \A v \in DOMAIN ro.teams : \E i \in 1..n : s[i] = v
          /\ \A i \in 1..n : ro.teams[s[i]] = Side(ro.map, i)
    BY DEF Lineup
  <1>2. Cardinality(DOMAIN ro.teams) = n
    <2> DEFINE us == DOMAIN ro.teams
    <2>1. /\ s \in [1..n -> us] /\ \A i, j \in 1..n : s[i] = s[j] => i = j
          /\ \A v \in us : \E i \in 1..n : s[i] = v
      BY <1>1
    <2> HIDE DEF n, us
    <2>2. Cardinality(us) = n BY <1>0, <2>1, CountOf
    <2> QED BY <2>2 DEF us
  <1>3. ASSUME ro.map \in DotaMaps
        PROVE  Cardinality(on(0)) = 0 /\ Cardinality(on(1)) - Cardinality(on(2)) \in {0, 1}
    <2>1. \A i \in 1..n : ro.teams[s[i]] = 1 + ((i - 1) % 2) BY <1>1, <1>3 DEF Side
    <2> HIDE DEF n
    <2>2. PICK a \in Nat, b \in Nat : /\ a - b \in {0, 1}
                                      /\ n = a + b
      <3>1. CASE \E k \in Nat : n = 2 * k
        <4>1. PICK k \in Nat : n = 2 * k BY <3>1
        <4>2. k - k = 0 /\ n = k + k BY <4>1
        <4> QED BY <4>2
      <3>2. CASE \E k \in Nat : n = 2 * k + 1
        <4>1. PICK k \in Nat : n = 2 * k + 1 BY <3>2
        <4>2. k + 1 \in Nat /\ (k + 1) - k = 1 /\ n = (k + 1) + k BY <4>1
        <4> QED BY <4>1, <4>2
      <3>3. n = 2 * (n \div 2) \/ n = 2 * (n \div 2) + 1 BY <1>0
      <3>4. n \div 2 \in Nat BY <1>0
      <3> QED BY <3>1, <3>2, <3>3, <3>4
    <2>3. on(0) = {}
      <3>1. \A i \in 1..n : 1 + ((i - 1) % 2) # 0 BY <1>0
      <3> QED BY <1>1, <2>1, <3>1
    <2>4. Cardinality(on(1)) = a
      <3> DEFINE f == [k \in 1..a |-> s[2 * k - 1]]
      <3>1. \A k \in 1..a : 2 * k - 1 \in 1..n /\ 1 + (((2 * k - 1) - 1) % 2) = 1
        BY <1>0, <2>2
      <3>2. f \in [1..a -> on(1)] BY <1>1, <2>1, <3>1
      <3>3. \A k, l \in 1..a : f[k] = f[l] => k = l BY <1>1, <3>1
      <3>4. ASSUME NEW v \in on(1) PROVE \E k \in 1..a : f[k] = v
        <4>1. PICK i \in 1..n : s[i] = v BY <1>1
        <4>2. 1 + ((i - 1) % 2) = 1 BY <2>1, <4>1
        <4>3. (i + 1) \div 2 \in 1..a /\ 2 * ((i + 1) \div 2) - 1 = i BY <1>0, <2>2, <4>2
        <4> QED BY <4>1, <4>3
      <3> HIDE DEF f
      <3> QED BY <3>2, <3>3, <3>4, CountOf
    <2>5. Cardinality(on(2)) = b
      <3> DEFINE f == [k \in 1..b |-> s[2 * k]]
      <3>1. \A k \in 1..b : 2 * k \in 1..n /\ 1 + ((2 * k - 1) % 2) = 2
        BY <1>0, <2>2
      <3>2. f \in [1..b -> on(2)] BY <1>1, <2>1, <3>1
      <3>3. \A k, l \in 1..b : f[k] = f[l] => k = l BY <1>1, <3>1
      <3>4. ASSUME NEW v \in on(2) PROVE \E k \in 1..b : f[k] = v
        <4>1. PICK i \in 1..n : s[i] = v BY <1>1
        <4>2. 1 + ((i - 1) % 2) = 2 BY <2>1, <4>1
        <4>3. i \div 2 \in 1..b /\ 2 * (i \div 2) = i BY <1>0, <2>2, <4>2
        <4> QED BY <4>1, <4>3
      <3> HIDE DEF f
      <3> QED BY <3>2, <3>3, <3>4, CountOf
    <2> QED BY <2>2, <2>3, <2>4, <2>5, FS_EmptySet
  <1> QED BY <1>2, <1>3

-----------------------------------------------------------------------------
(***************************************************************************)
(* The theorems.                                                           *)
(***************************************************************************)
\* The invariant holds in every state, whatever sections interleave.
LEMMA QueueInvariance == Spec => []QueueIInv
  <1>1. ASSUME QueueIInv, Next PROVE QueueIInv'
    <2>1. PICK u \in Users : Acts(u) BY <1>1 DEF Next
    <2>2. CASE \E m \in Maps : JoinWait(u, m) \/ JoinForm(u, m)
      BY <1>1, <2>2, JoinWaitStep, JoinFormStep
    <2>3. CASE Found(u) \/ \E r \in RoomIds : Launches(u, r) BY <1>1, <2>3, PushStep
    <2>4. CASE SelectGet(u) \/ ReadyGet(u) BY <1>1, <2>4, ReadStep
    <2>5. CASE DesertClear(u) BY <1>1, <2>5, DesertClearStep
    <2>6. CASE Connect(u) \/ Reconnect(u) BY <1>1, <2>6, ConnectStep
    <2>7. CASE Handler(u)
      BY <1>1, <2>7, SelectSetStep, ReadyPendStep, ReadyClearStep, DequeueStep DEF Handler
    <2> QED BY <2>1, <2>2, <2>3, <2>4, <2>5, <2>6, <2>7 DEF Acts
  <1>2. ASSUME QueueIInv, UNCHANGED vars PROVE QueueIInv'
    <2>1. QueuesInv' /\ RoomsInv' /\ TablesInv'
      BY <1>2 DEF vars, QueueIInv, QueuesInv, RoomsInv, TablesInv
    <2>2. \A v \in Users : UserInv(v) /\ (v \notin crossed => CalmInv(v)) BY <1>2 DEF QueueIInv
    <2>3. \A v \in Users : UserInv(v)' BY <1>2, <2>2 DEF vars, UserInv, Stored, Held
    <2>4. \A v \in Users : v \notin crossed' => CalmInv(v)'
      BY <1>2, <2>2 DEF vars, CalmInv, Stored, Held, Sent, Waits, Newest
    <2> QED BY <2>1, <2>3, <2>4 DEF QueueIInv
  <1> QED BY QueueInit, <1>1, <1>2, PTL DEF Spec

\* The tables of fightMu and of the Store hold what the handlers that read them
\* expect, whatever sections interleave.
THEOREM QueueTypes == Spec => []TypeOK
  <1>1. QueueIInv => TypeOK
    BY QueueAssumption DEF QueueIInv, QueuesInv, RoomsInv, TablesInv, TypeOK
  <1> QED BY <1>1, QueueInvariance, PTL

\* handleFightJoin fills a match with DotaMatchSize different users, and the sides of
\* a DOTA match differ by one player at most.
THEOREM FullAndFair == Spec => []MatchesFullAndFair
  <1>1. QueueIInv => MatchesFullAndFair
    BY LineupIsFair DEF QueueIInv, RoomsInv, MatchesFullAndFair
  <1> QED BY <1>1, QueueInvariance, PTL

\* removeFromDotaQueueLocked before every join: one place over all queues for everybody,
\* and none for a matched user whose requests crossed no push.
THEOREM OnePlace == Spec => []WaitsOnceOrPlays
  <1>1. ASSUME QueueIInv, NEW u \in Users
        PROVE  LET places ==
                     UNION {{<<m, i>> : i \in {k \in DOMAIN dotaQueue[m] : dotaQueue[m][k] = u}}
                              : m \in Maps} IN
               /\ Cardinality(places) <= 1
               /\ u \notin crossed /\ screen[u] \in {"avatars", "launching", "battle"}
                    => places = {}
    <2> DEFINE at(m) == {k \in DOMAIN dotaQueue[m] : dotaQueue[m][k] = u}
               places == UNION {{<<m, i>> : i \in at(m)} : m \in Maps}
    <2>1. \A p, o \in places : p = o BY <1>1 DEF QueueIInv, QueuesInv
    <2>2. places # {} => Waits(u) BY DEF Waits
    <2>3. u \notin crossed /\ Waits(u) => screen[u] \in {"square", "queue"}
      BY <1>1 DEF QueueIInv, CalmInv, Lobby
    <2> HIDE DEF places
    <2>4. places = {} \/ \E p : places = {p} BY <2>1
    <2>5. Cardinality(places) = 0 \/ Cardinality(places) = 1
      BY <2>4, FS_EmptySet, FS_Singleton
    <2> QED BY <2>2, <2>3, <2>5 DEF places
  <1>2. QueueIInv => WaitsOnceOrPlays BY <1>1 DEF WaitsOnceOrPlays
  <1> QED BY <1>2, QueueInvariance, PTL

\* Both together: a queue seats a user once, whenever he joins again.
THEOREM OneSeat == Spec => []SeatedOnce
  BY FullAndFair, OnePlace, PTL DEF SeatedOnce

\* The room, the map and the side of the match pass unchanged from the selection
\* through the local copies of fight|select_avatar and fight|ready and the pending
\* battle to the battle that handleConnect opens.
THEOREM LaunchKeepsSeat == Spec => []LaunchedAsMatched
  <1>1. QueueIInv => LaunchedAsMatched
    <2> SUFFICES ASSUME QueueIInv, NEW u \in Users, NEW l \in {pending[u], battle[u]} \ {Nothing}
                 PROVE  /\ l.room \in DOMAIN rosters
                        /\ rosters[l.room].map = l.map
                        /\ u \in DOMAIN rosters[l.room].teams
                        /\ rosters[l.room].teams[u] = l.team
      BY DEF LaunchedAsMatched
    <2>1. Seat(rosters, u, l) BY DEF QueueIInv, UserInv
    <2> QED BY <2>1 DEF Seat
  <1> QED BY <1>1, QueueInvariance, PTL

\* fight|ready launches a seat once and never goes back to an earlier one, whatever
\* joins, selections and readies interleave, and a battle is claimed by one launch; and
\* the launches of a user whose requests crossed no push are of his last match.
THEOREM LaunchIsLast == Spec => []NoStaleLaunch
  <1>1. QueueIInv => LaunchedOnce BY DEF QueueIInv, UserInv, Stored, Held, LaunchedOnce
  <1>2. QueueIInv => LaunchIsOfLastMatch
    <2> SUFFICES ASSUME QueueIInv, NEW u \in Users \ crossed
                 PROVE  /\ \A l \in {pending[u], battle[u]} \ {Nothing} :
                             \A r \in DOMAIN rosters : u \in DOMAIN rosters[r].teams => r <= l.room
                        /\ screen[u] \in Lobby => pending[u] = Nothing
      BY DEF LaunchIsOfLastMatch
    <2>1. CalmInv(u) BY DEF QueueIInv
    <2>2. screen[u] \in Lobby => pending[u] = Nothing
      <3> HAVE screen[u] \in Lobby
      <3>1. hpc[u] # "clear" /\ Sent(u) = {} BY <2>1 DEF CalmInv, Lobby
      <3>2. pending[u] # Nothing => pending[u].room # StartSelect
        BY SeatFacts, RoomNumbers DEF QueueIInv, UserInv, StartSelect
      <3> QED BY <2>1, <3>1, <3>2 DEF CalmInv, Lobby, Sent
    <2> QED BY <2>1, <2>2 DEF CalmInv, Newest
  <1>3. QueueIInv => NoStaleLaunch BY <1>1, <1>2 DEF NoStaleLaunch
  <1> QED BY <1>3, QueueInvariance, PTL

-----------------------------------------------------------------------------
(***************************************************************************)
(* The draft of a siege.                                                   *)
(***************************************************************************)
Sides == {Attacker, Defender}
SeatPlans == UNION {[us -> Sides] : us \in SUBSET Fighters}
Windows == [castle : Keeps, teams : SeatPlans]

\* One of the windows ws gave u the selection or launch l.
GivenTo(ws, u, l) ==
  /\ l.room \in DOMAIN ws
  /\ ws[l.room].castle = l.castle
  /\ u \in DOMAIN ws[l.room].teams
  /\ ws[l.room].teams[u] = l.team

DraftIInv ==
  /\ castleRosters \in [Keeps -> SUBSET Fighters]
  /\ castleSel \in [Fighters -> CastleSelection \cup {NoOne}]
  /\ castlePending \in [Fighters -> CastleSelection \cup {NoOne}]
  /\ request \in [Fighters -> [pc : {"idle", "select", "pend", "clear"},
                               sel : CastleSelection \cup {NoOne}]]
  /\ windows \in Seq(Windows) /\ Len(windows) <= MaxWindows
  /\ \/ window = Asleep
     \/ /\ window.pc = "draft" /\ window.castle \in Keeps /\ window.teams \in SeatPlans
        /\ Len(windows) < MaxWindows
  /\ \A u \in Fighters :
       /\ castleSel[u] # NoOne => GivenTo(windows, u, castleSel[u])
       /\ castlePending[u] # NoOne => GivenTo(windows, u, castlePending[u])
       /\ request[u].sel # NoOne => GivenTo(windows, u, request[u].sel)
       /\ request[u].pc \in {"select", "pend"} => request[u].sel # NoOne

\* A window appended to the others takes nothing back.
LEMMA GivenStays ==
  ASSUME windows \in Seq(Windows), NEW w \in Windows, windows' = Append(windows, w),
         NEW u, NEW l, GivenTo(windows, u, l)
  PROVE  GivenTo(windows', u, l)
  BY DEF GivenTo

LEMMA DraftInitIInv == DraftInit => DraftIInv
  BY DraftAssumption DEF DraftInit, DraftIInv, Asleep, NoRequest

LEMMA FireStep ==
  ASSUME DraftIInv, NEW c \in Keeps, NEW o \in Clan, Fire(c, o)
  PROVE  DraftIInv'
  <1>1. PICK counted \in [castleRosters[c] -> Clan], seated \in [castleRosters[c] -> Clan] :
          \E defender \in Defenders(o, counted) :
            window' = [pc |-> "draft", castle |-> c, teams |-> AssignCastleTeams(defender, seated)]
    BY DEF Fire
  <1>a. PICK defender \in Defenders(o, counted) :
          window' = [pc |-> "draft", castle |-> c, teams |-> AssignCastleTeams(defender, seated)]
    BY <1>1
  <1>2. castleRosters[c] \subseteq Fighters BY DEF DraftIInv
  <1>3. AssignCastleTeams(defender, seated) \in [castleRosters[c] -> Sides]
    BY DEF AssignCastleTeams, Sides
  <1>4. AssignCastleTeams(defender, seated) \in SeatPlans BY <1>2, <1>3 DEF SeatPlans
  <1>5. UNCHANGED <<castleRosters, castleSel, castlePending, request, windows>>
        /\ Len(windows) < MaxWindows
    BY DEF Fire
  <1>6. /\ window'.pc = "draft" /\ window'.castle \in Keeps /\ window'.teams \in SeatPlans
        /\ Len(windows)' < MaxWindows
    BY <1>a, <1>4, <1>5
  <1>7. \A u, l : GivenTo(windows, u, l) => GivenTo(windows', u, l) BY <1>5 DEF GivenTo
  <1> QED BY <1>5, <1>6, <1>7 DEF DraftIInv

LEMMA DraftFightersStep ==
  ASSUME DraftIInv, DraftFighters
  PROVE  DraftIInv'
  <1> DEFINE room == Len(windows) + 1
             w == [castle |-> window.castle, teams |-> window.teams]
             new(u) == [castle |-> window.castle, avatar |-> NoOne, room |-> room,
                        team |-> window.teams[u]]
  <1>1. /\ window # Asleep /\ windows' = Append(windows, w) /\ window' = Asleep
        /\ castleSel' = [u \in Fighters |-> IF u \in DOMAIN window.teams THEN new(u) ELSE castleSel[u]]
        /\ UNCHANGED <<castleRosters, castlePending, request>>
    BY DEF DraftFighters, DraftInto
  <1>2. /\ window.castle \in Keeps /\ window.teams \in SeatPlans /\ Len(windows) < MaxWindows
        /\ w \in Windows /\ windows \in Seq(Windows)
    BY <1>1 DEF DraftIInv, Windows
  <1>3. /\ windows' \in Seq(Windows) /\ Len(windows') = room /\ Len(windows') <= MaxWindows
        /\ windows'[room] = w /\ room \in DOMAIN windows' /\ room \in 1..MaxWindows
    BY <1>1, <1>2, DraftAssumption
  <1>4. ASSUME NEW u \in Fighters, u \in DOMAIN window.teams
        PROVE  new(u) \in CastleSelection /\ GivenTo(windows', u, new(u))
    <2>1. window.teams[u] \in Sides BY <1>2, <1>4 DEF SeatPlans
    <2>2. new(u) \in CastleSelection BY <1>2, <1>3, <2>1 DEF CastleSelection, Sides
    <2>3. /\ new(u).room = room /\ new(u).castle = w.castle /\ new(u).team = w.teams[u]
          /\ u \in DOMAIN w.teams
      BY <1>4
    <2>4. GivenTo(windows', u, new(u)) BY <1>1, <1>3, <2>3 DEF GivenTo
    <2> QED BY <2>2, <2>4
  <1>5. \A u \in Fighters : \A l : GivenTo(windows, u, l) => GivenTo(windows', u, l)
    BY <1>1, <1>2, GivenStays
  <1> QED BY <1>1, <1>3, <1>4, <1>5 DEF DraftIInv

LEMMA ReadOrClearStep ==
  ASSUME DraftIInv, NEW u \in Fighters,
         ReadSelection(u, "select") \/ ReadSelection(u, "pend") \/ ClearDraft(u)
  PROVE  DraftIInv'
  <1>1. UNCHANGED <<castleRosters, castlePending, window, windows>>
    BY DEF ReadSelection, ClearDraft
  <1>2. \A v, l : GivenTo(windows, v, l) => GivenTo(windows', v, l) BY <1>1
  <1>3. ASSUME NEW next \in {"select", "pend"}, ReadSelection(u, next)
        PROVE  DraftIInv'
    <2>1. castleSel[u] \in CastleSelection /\ GivenTo(windows, u, castleSel[u])
      BY <1>3 DEF ReadSelection, DraftIInv
    <2>2. /\ request' = [request EXCEPT ![u] = [pc |-> next, sel |-> castleSel[u]]]
          /\ UNCHANGED <<castleSel, castlePending>>
      BY <1>3 DEF ReadSelection
    <2> DEFINE read == [pc |-> next, sel |-> castleSel[u]]
    <2>3. /\ read \in [pc : {"idle", "select", "pend", "clear"}, sel : CastleSelection \cup {NoOne}]
          /\ read.sel = castleSel[u] /\ castleSel[u] # NoOne
      BY <1>3, <2>1 DEF ReadSelection
    <2>4. request' = [request EXCEPT ![u] = read] BY <2>2
    <2> HIDE DEF read
    <2> QED BY <1>1, <1>2, <2>1, <2>2, <2>3, <2>4 DEF DraftIInv
  <1>4. CASE ClearDraft(u)
    BY <1>1, <1>2, <1>4 DEF ClearDraft, DraftIInv, NoRequest
  <1> QED BY <1>3, <1>4

LEMMA SectionStep ==
  ASSUME DraftIInv, NEW u \in Fighters, NEW a \in Heralds,
         SelectAvatar(u, a) \/ PendDraft(u, a)
  PROVE  DraftIInv'
  <1>1. UNCHANGED <<castleRosters, window, windows>>
    BY DEF SelectAvatar, StoreSelection, PendDraft
  <1>2. \A v, l : GivenTo(windows, v, l) => GivenTo(windows', v, l) BY <1>1
  <1>4. CASE SelectAvatar(u, a)
    <2> DEFINE sel == [request[u].sel EXCEPT !.avatar = a]
    <2>1. /\ request[u].pc = "select" /\ castleSel' = [castleSel EXCEPT ![u] = sel]
          /\ request' = [request EXCEPT ![u] = NoRequest] /\ UNCHANGED castlePending
      BY <1>4 DEF SelectAvatar, StoreSelection
    <2>2. request[u].sel \in CastleSelection /\ GivenTo(windows, u, request[u].sel)
      BY <2>1 DEF DraftIInv
    <2>3. sel \in CastleSelection /\ GivenTo(windows', u, sel) BY <1>2, <2>2 DEF CastleSelection, GivenTo
    <2> QED BY <1>1, <1>2, <2>1, <2>3 DEF DraftIInv, NoRequest
  <1>5. CASE PendDraft(u, a)
    <2> DEFINE l == [request[u].sel EXCEPT !.avatar = a]
    <2>1. /\ request[u].pc = "pend" /\ castlePending' = [castlePending EXCEPT ![u] = l]
          /\ request' = [request EXCEPT ![u].pc = "clear"] /\ UNCHANGED castleSel
      BY <1>5 DEF PendDraft
    <2>2. request[u].sel \in CastleSelection /\ GivenTo(windows, u, request[u].sel)
      BY <2>1 DEF DraftIInv
    <2>3. l \in CastleSelection /\ GivenTo(windows', u, l) BY <1>2, <2>2 DEF CastleSelection, GivenTo
    <2> QED BY <1>1, <1>2, <2>1, <2>2, <2>3 DEF DraftIInv
  <1> QED BY <1>4, <1>5

LEMMA DraftStep == DraftIInv /\ [DraftNext]_draftVars => DraftIInv'
  <1> SUFFICES ASSUME DraftIInv, [DraftNext]_draftVars PROVE DraftIInv' OBVIOUS
  <1>1. CASE Scheduler
    <2>1. CASE \E c \in Keeps, o \in Clan : Fire(c, o) BY <2>1, FireStep
    <2>2. CASE DraftFighters BY <2>2, DraftFightersStep
    <2> QED BY <1>1, <2>1, <2>2 DEF Scheduler
  <1>2. ASSUME NEW u \in Fighters, NEW c \in Keeps, SetFighters(u, c) \/ Desert(u, c)
        PROVE  DraftIInv'
    <2>1. /\ castleRosters' \in [Keeps -> SUBSET Fighters]
          /\ UNCHANGED <<castleSel, castlePending, window, request, windows>>
      BY <1>2 DEF SetFighters, Desert, DraftIInv
    <2> QED BY <2>1 DEF DraftIInv, GivenTo
  <1>3. ASSUME NEW u \in Fighters, DesertBattle(u) \/ Claim(u)
        PROVE  DraftIInv'
    <2>1. /\ castleSel' \in [Fighters -> CastleSelection \cup {NoOne}]
          /\ castlePending' \in [Fighters -> CastleSelection \cup {NoOne}]
          /\ UNCHANGED <<castleRosters, window, request, windows>>
      BY <1>3 DEF DesertBattle, Claim, DraftIInv
    <2>2. \A v \in Fighters : /\ castleSel'[v] \in {castleSel[v], NoOne}
                              /\ castlePending'[v] \in {castlePending[v], NoOne}
      BY <1>3 DEF DesertBattle, Claim, DraftIInv
    <2> QED BY <2>1, <2>2 DEF DraftIInv
  <1>4. CASE UNCHANGED draftVars BY <1>4 DEF draftVars, DraftIInv, GivenTo
  <1>5. ASSUME NEW u \in Fighters, Request(u)
        PROVE  DraftIInv'
    <2>1. CASE ReadSelection(u, "select") \/ ReadSelection(u, "pend") \/ ClearDraft(u)
      BY <2>1, ReadOrClearStep
    <2>2. CASE \E a \in Heralds : SelectAvatar(u, a) \/ PendDraft(u, a)
      BY <2>2, SectionStep
    <2> QED BY <1>2, <1>3, <1>5, <2>1, <2>2 DEF Request
  <1> QED BY <1>1, <1>4, <1>5 DEF DraftNext

\* The tables of the draft have their types: a roster holds users only, a
\* selection or a pending launch names a castle, a room of a window that was
\* opened and a side (castleRosters, castleSel, SetPendingBattle).
THEOREM DraftTypes == DraftSpec => []DraftTypeOK
  <1>1. DraftIInv => DraftTypeOK BY DEF DraftIInv, DraftTypeOK, Asleep
  <1> QED BY <1>1, DraftInitIInv, DraftStep, PTL DEF DraftSpec

\* However many windows open over the sections of a request, a fighter drafts for,
\* and launches into, the room, the castle and the side of one window
\* (handleCastleSelectAvatar, handleCastleReady).
THEOREM DraftLaunches == DraftSpec => []LaunchedAsDrafted
  <1>1. DraftIInv => LaunchedAsDrafted BY DEF DraftIInv, LaunchedAsDrafted, GivenTo
  <1> QED BY <1>1, DraftInitIInv, DraftStep, PTL DEF DraftSpec
=============================================================================
