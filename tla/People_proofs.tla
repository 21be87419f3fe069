--------------------------- MODULE People_proofs ----------------------------
(***************************************************************************)
(* Accounts, parties and friendships, for every number of people, keys and *)
(* requests: a banned key opens nothing, a restart changes nothing that a  *)
(* client was told, no id is handed out twice and nothing of a deleted     *)
(* account comes back; a party agrees on its members and its leader, and a *)
(* friendship is one of both sides, in memory and in the tables.           *)
(***************************************************************************)
EXTENDS Accounts, Social, Lists_proofs, SequenceTheorems

(***************************************************************************)
(* The inductive invariant of the accounts.                                *)
(***************************************************************************)
\* A write the operation under way has still to do.
Pending(w) == w \in ToSet(unwritten)

UserPending(i) == Pending([row |-> "account", id |-> i]) \/ Pending([row |-> "user", id |-> i])

\* The row of a banned user is written when his keys are dropped, that of a new one
\* before the row of his key.
InOrder ==
  \A m, n \in DOMAIN unwritten : m < n =>
    \/ unwritten[m].row \in {"account", "next"} /\ unwritten[n].row \in {"next", "session"}
    \/ unwritten[m].row = "drop" /\ unwritten[n].row \in {"drop", "user"}

\* The table of users holds what its objects hold, or is about to.
UsersSound ==
  /\ \A i \in Ids : object[i] # Nobody => i < nextUserID
  /\ \A i \in Ids : database.users[i] # Nobody =>
       /\ object[i] # Nobody /\ object[i].email = database.users[i].email
       /\ database.users[i] = object[i] \/ UserPending(i)
  /\ \A i, j \in Ids : database.users[i] # Nobody /\ database.users[j] # Nobody
                         /\ database.users[i].email = database.users[j].email => i = j
  /\ \A i, j \in known : object[i].email = object[j].email => i = j
  /\ \A i \in Ids : UserPending(i) => object[i] # Nobody
  /\ \A r \in Logins : login[r] # Finished => object[login[r].id] # Nobody

\* A key opens one account, in memory and, unless it is being dropped, in the table.
KeysSound ==
  /\ \A k \in Keys : sessions[k] # Nobody => sessions[k] \in known
  /\ \A k \in Keys : database.sessions[k] # Nobody => database.users[database.sessions[k]] # Nobody
  /\ \A k \in Keys : \/ database.sessions[k] \in {Nobody, sessions[k]}
                     \/ Pending([row |-> "drop", key |-> k])
  /\ \A k \in Keys : Pending([row |-> "drop", key |-> k]) => sessions[k] = Nobody
  /\ \A k \in Keys, i \in Ids : Pending([row |-> "session", key |-> k, id |-> i]) =>
       sessions[k] = i /\ k \notin told
  /\ \A r \in Logins : login[r].pc = "gate" => sessions[login[r].key] \in {login[r].id, Nobody}

\* A key told to a client opens no banned account, before or after a restart.
LockedOut ==
  \A k \in told :
    /\ sessions[k] # Nobody => ~object[sessions[k]].banned
    /\ database.sessions[k] # Nobody => ~database.users[database.sessions[k]].banned

\* What the memory holds is in the tables, or is about to be.
Mirrored ==
  revived = {} =>
    /\ \A i \in known : database.users[i] # Nobody \/ Pending([row |-> "account", id |-> i])
    /\ \A i \in Ids : database.users[i] # Nobody \/ UserPending(i) => i \in known
    /\ \A k \in Keys : sessions[k] # Nobody =>
         \/ database.sessions[k] = sessions[k]
         \/ Pending([row |-> "session", key |-> k, id |-> sessions[k]])

\* No id handed out is above the counter, in memory and in the table.
Counted ==
  ~broken =>
    /\ \A n \in DOMAIN registered : registered[n] < nextUserID
    /\ IsInjective(registered)
    /\ \A i \in Ids : Pending([row |-> "account", id |-> i]) =>
         \A n \in DOMAIN registered : registered[n] # i
    /\ database.next = nextUserID \/ Pending([row |-> "next"])

\* Nothing of a deleted account is left, and nothing of it is about to be written.
Gone ==
  \A i \in deleted \ revived :
    /\ i \notin known /\ database.users[i] = Nobody /\ ~UserPending(i)
    /\ \A k \in Keys : /\ sessions[k] # i /\ database.sessions[k] # i
                       /\ ~Pending([row |-> "session", key |-> k, id |-> i])

AccountsInv ==
  AccountsTypeOK /\ InOrder /\ UsersSound /\ KeysSound /\ LockedOut /\ Mirrored /\ Counted /\ Gone

USE AccountsAssumption
-----------------------------------------------------------------------------
(***************************************************************************)
(* The members of a sequence, and the writes of each operation.            *)
(***************************************************************************)
LEMMA ToSetFacts ==
  ASSUME NEW S, NEW s \in Seq(S)
  PROVE  /\ ToSet(s) \subseteq S
         /\ s = <<>> => ToSet(s) = {}
         /\ s # <<>> => ToSet(s) = {Head(s)} \cup ToSet(Tail(s))
  <1>1. s = <<>> => ToSet(s) = {} BY DEF ToSet
  <1>2. ASSUME s # <<>> PROVE ToSet(s) = {Head(s)} \cup ToSet(Tail(s))
    <2>1. 1 \in DOMAIN s /\ Head(s) = s[1] BY <1>2
    <2>2. ASSUME NEW n \in DOMAIN s, n # 1
          PROVE  n - 1 \in DOMAIN Tail(s) /\ Tail(s)[n - 1] = s[n]
      BY <1>2, <2>2
    <2>3. ASSUME NEW n \in DOMAIN Tail(s) PROVE n + 1 \in DOMAIN s /\ Tail(s)[n] = s[n + 1]
      BY <1>2
    <2>4. ToSet(s) \subseteq {Head(s)} \cup ToSet(Tail(s)) BY <2>1, <2>2 DEF ToSet
    <2>5. {Head(s)} \cup ToSet(Tail(s)) \subseteq ToSet(s) BY <2>1, <2>3 DEF ToSet
    <2> QED BY <2>4, <2>5
  <1> QED BY <1>1, <1>2 DEF ToSet

-----------------------------------------------------------------------------
(***************************************************************************)
(* What each operation leaves to be written.                               *)
(***************************************************************************)

LEMMA NothingPending ==
  ASSUME Unlocked
  PROVE  ToSet(unwritten) = {}
BY DEF Unlocked, ToSet

LEMMA IssueWrites ==
  ASSUME NEW r \in Logins, NEW i \in Ids, NEW k \in Keys, Issue(r, i, k, <<>>)
  PROVE  /\ unwritten' \in Seq(Row) /\ InOrder'
         /\ ToSet(unwritten') = {[row |-> "session", key |-> k, id |-> i]}
  <1> DEFINE w == [row |-> "session", key |-> k, id |-> i]
  <1>1. unwritten' = <<w>> BY DEF Issue
  <1>2. w \in Row BY DEF Row
  <1> HIDE DEF w
  <1>3. DOMAIN <<w>> = {1} /\ <<w>>[1] = w OBVIOUS
  <1>4. ToSet(<<w>>) = {w} BY <1>3 DEF ToSet
  <1>5. InOrder' BY <1>1, <1>3 DEF InOrder
  <1>6. <<w>> \in Seq(Row) BY <1>2
  <1>7. unwritten' \in Seq(Row) /\ ToSet(unwritten') = {w} BY <1>1, <1>4, <1>6
  <1> QED BY <1>5, <1>7 DEF w

LEMMA RegisterWrites ==
  ASSUME NEW r \in Logins, NEW e \in Emails, NEW k \in Keys, nextUserID \in Ids, Register(r, e, k)
  PROVE  /\ unwritten' \in Seq(Row) /\ InOrder'
         /\ ToSet(unwritten') = {[row |-> "account", id |-> nextUserID], [row |-> "next"],
                                 [row |-> "session", key |-> k, id |-> nextUserID]}
  <1> DEFINE a == [row |-> "account", id |-> nextUserID]
             b == [row |-> "next"]
             w == [row |-> "session", key |-> k, id |-> nextUserID]
  <1>1. unwritten' = <<a, b>> \o <<w>> BY DEF Register, RegisterWriting, Issue
  <1>2. a \in Row /\ b \in Row /\ w \in Row BY DEF Row
  <1>3. a.row = "account" /\ b.row = "next" /\ w.row = "session" OBVIOUS
  <1> HIDE DEF a, b, w
  <1> DEFINE s == <<a, b>> \o <<w>>
  <1>4. s \in Seq(Row) /\ Len(s) = 3 /\ s[1] = a /\ s[2] = b /\ s[3] = w BY <1>2
  <1>5. unwritten' = s BY <1>1
  <1> HIDE DEF s
  <1>6. DOMAIN s = {1, 2, 3}
    <2>1. DOMAIN s = 1..3 BY <1>4
    <2> QED BY <2>1
  <1>7. ToSet(s) = {a, b, w} BY <1>4, <1>6 DEF ToSet
  <1>8. InOrder' BY <1>3, <1>4, <1>5, <1>6 DEF InOrder
  <1>9. unwritten' \in Seq(Row) /\ ToSet(unwritten') = {a, b, w} BY <1>4, <1>5, <1>7
  <1> QED BY <1>8, <1>9 DEF a, b, w

\* One write alone.
LEMMA OneWrite ==
  ASSUME NEW w \in Row, unwritten' = <<w>>
  PROVE  unwritten' \in Seq(Row) /\ InOrder' /\ ToSet(unwritten') = {w}
  <1>1. DOMAIN <<w>> = {1} /\ <<w>>[1] = w OBVIOUS
  <1>2. ToSet(<<w>>) = {w} BY <1>1 DEF ToSet
  <1>3. InOrder' BY <1>1 DEF InOrder
  <1>4. <<w>> \in Seq(Row) OBVIOUS
  <1> QED BY <1>2, <1>3, <1>4

LEMMA BanWrites ==
  ASSUME NEW i \in Ids, Ban(i)
  PROVE  /\ unwritten' \in Seq(Row) /\ InOrder'
         /\ ToSet(unwritten') = {[row |-> "drop", key |-> k] : k \in KeysOf(i)}
                                  \cup {[row |-> "user", id |-> i]}
  <1>1. PICK order \in [1..Cardinality(KeysOf(i)) -> KeysOf(i)] :
          ToSet(order) = KeysOf(i) /\ BanWriting(i, Drops(order))
    BY DEF Ban
  <1> DEFINE n == Cardinality(KeysOf(i))
             u == [row |-> "user", id |-> i]
  <1>2. n \in Nat
    <2>1. KeysOf(i) \subseteq Keys BY DEF KeysOf
    <2> QED BY <2>1, FS_Subset, FS_CardinalityType
  <1>3. DOMAIN order = 1..n BY <1>1
  <1>4. order \in [1..n -> KeysOf(i)] BY <1>1
  <1> HIDE DEF n
  <1>5. DOMAIN Drops(order) = 1..n /\ \A m \in 1..n : Drops(order)[m] = [row |-> "drop", key |-> order[m]]
    BY <1>3 DEF Drops
  <1>6. \A m \in 1..n : order[m] \in Keys BY <1>4 DEF KeysOf
  <1>7. \A m \in 1..n : Drops(order)[m] \in Row /\ Drops(order)[m].row = "drop" BY <1>5, <1>6 DEF Row
  <1>8. Drops(order) \in [1..n -> Row] BY <1>5, <1>7 DEF Drops
  <1>9. Drops(order) \in Seq(Row) /\ Len(Drops(order)) = n BY <1>2, <1>8
  <1>10. u \in Row /\ u.row = "user" BY DEF Row
  <1>11. unwritten' = Drops(order) \o <<u>> BY <1>1 DEF BanWriting
  <1> DEFINE d == Drops(order)
             s == d \o <<u>>
  <1>12. {d[m] : m \in 1..n} = {[row |-> "drop", key |-> k] : k \in KeysOf(i)}
    <2>1. KeysOf(i) = {order[m] : m \in 1..n} BY <1>1, <1>3 DEF ToSet
    <2>2. {d[m] : m \in 1..n} = {[row |-> "drop", key |-> order[m]] : m \in 1..n} BY <1>5
    <2> QED BY <2>1, <2>2
  <1> HIDE DEF u, d
  <1>13. /\ d \in Seq(Row) /\ Len(d) = n /\ unwritten' = s
         /\ \A m \in 1..n : d[m] \in Row /\ d[m].row = "drop"
    BY <1>7, <1>9, <1>11 DEF d
  <1>14. s \in Seq(Row) /\ DOMAIN s = 1..(n + 1) /\ s[n + 1] = u /\ \A m \in 1..n : s[m] = d[m]
    BY <1>2, <1>10, <1>13
  <1> HIDE DEF s
  <1>15. InOrder'
    <2> SUFFICES ASSUME NEW l \in 1..(n + 1), NEW m \in 1..(n + 1), l < m
                 PROVE  s[l].row = "drop" /\ s[m].row \in {"drop", "user"}
      BY <1>13, <1>14 DEF InOrder
    <2>1. l \in 1..n /\ (m \in 1..n \/ m = n + 1) BY <1>2
    <2> QED BY <2>1, <1>10, <1>13, <1>14
  <1>16. ToSet(s) = {d[m] : m \in 1..n} \cup {u}
    <2>1. 1..(n + 1) = 1..n \cup {n + 1} BY <1>2
    <2> QED BY <2>1, <1>14 DEF ToSet
  <1> QED BY <1>12, <1>13, <1>14, <1>15, <1>16 DEF u

\* A write takes the first row and leaves the others, in an order that tells which.
LEMMA WriteTakes ==
  ASSUME unwritten \in Seq(Row), InOrder, Write
  PROVE  /\ Head(unwritten) \in Row
         /\ unwritten' \in Seq(Row) /\ InOrder'
         /\ ToSet(unwritten) = {Head(unwritten)} \cup ToSet(unwritten')
         /\ ToSet(unwritten') \subseteq Row
         /\ \A w \in ToSet(unwritten') :
              \/ Head(unwritten).row \in {"account", "next"} /\ w.row \in {"next", "session"}
              \/ Head(unwritten).row = "drop" /\ w.row \in {"drop", "user"}
  <1>1. unwritten # <<>> /\ unwritten' = Tail(unwritten) BY DEF Write
  <1>2. Head(unwritten) \in Row /\ unwritten' \in Seq(Row) /\ Head(unwritten) = unwritten[1] BY <1>1
  <1>3. 1 \in DOMAIN unwritten BY <1>1
  <1>4. \A n \in DOMAIN unwritten' : n \in Nat /\ n + 1 \in DOMAIN unwritten
                                     /\ unwritten'[n] = unwritten[n + 1] /\ 1 < n + 1
    BY <1>1
  <1>5. InOrder'
    <2> SUFFICES ASSUME NEW m \in DOMAIN unwritten', NEW n \in DOMAIN unwritten', m < n
                 PROVE \/ unwritten'[m].row \in {"account", "next"} /\ unwritten'[n].row \in {"next", "session"}
                       \/ unwritten'[m].row = "drop" /\ unwritten'[n].row \in {"drop", "user"}
      BY DEF InOrder
    <2>1. m + 1 < n + 1 BY <1>4
    <2> QED BY <2>1, <1>4 DEF InOrder
  <1>6. ToSet(unwritten) = {Head(unwritten)} \cup ToSet(unwritten') BY <1>1, ToSetFacts
  <1>7. ASSUME NEW w \in ToSet(unwritten')
        PROVE  \/ Head(unwritten).row \in {"account", "next"} /\ w.row \in {"next", "session"}
               \/ Head(unwritten).row = "drop" /\ w.row \in {"drop", "user"}
    <2>1. PICK n \in DOMAIN unwritten' : w = unwritten'[n] BY DEF ToSet
    <2> QED BY <2>1, <1>2, <1>3, <1>4 DEF InOrder
  <1>8. ToSet(unwritten') \subseteq Row BY <1>2, ToSetFacts
  <1> QED BY <1>2, <1>5, <1>6, <1>7, <1>8

-----------------------------------------------------------------------------
(***************************************************************************)
(* One lemma per operation.                                                *)
(***************************************************************************)

LEMMA AccountsInitInv == AccountsInit => AccountsInv
  <1> SUFFICES ASSUME AccountsInit PROVE AccountsInv OBVIOUS
  <1> USE DEF AccountsInit
  <1>1. AccountsTypeOK
    <2>1. 1 \in 1..(MaxAccounts + 1) OBVIOUS
    <2>2. object \in [Ids -> User \cup {Nobody}] /\ sessions \in [Keys -> Ids \cup {Nobody}] OBVIOUS
    <2>3. unwritten \in Seq(Row) /\ registered \in Seq(Ids) OBVIOUS
    <2> QED BY <2>1, <2>2, <2>3 DEF AccountsTypeOK
  <1>2. ToSet(unwritten) = {} BY DEF ToSet
  <1>3. InOrder BY DEF InOrder
  <1>4. UsersSound BY <1>2 DEF UsersSound, UserPending, Pending, Finished
  <1>5. KeysSound BY <1>2 DEF KeysSound, Pending, Finished
  <1>6. LockedOut /\ Gone BY DEF LockedOut, Gone
  <1>7. Mirrored BY <1>2 DEF Mirrored, UserPending, Pending
  <1>8. Counted BY <1>2 DEF Counted, Pending, IsInjective
  <1> QED BY <1>1, <1>3, <1>4, <1>5, <1>6, <1>7, <1>8 DEF AccountsInv

LEMMA LogInInv ==
  ASSUME AccountsInv, NEW r \in Logins, NEW i \in Ids, NEW k \in Keys, LogIn(r, i, k)
  PROVE  AccountsInv'
  <1> USE DEF AccountsInv, LogIn, Issue
  <1>1. ToSet(unwritten) = {} BY NothingPending
  <1>2. /\ unwritten' \in Seq(Row) /\ InOrder'
        /\ ToSet(unwritten') = {[row |-> "session", key |-> k, id |-> i]}
    BY IssueWrites
  <1>3. AccountsTypeOK' BY <1>2 DEF AccountsTypeOK, Request
  <1>4. UsersSound' BY <1>1, <1>2 DEF UsersSound, UserPending, Pending, AccountsTypeOK
  <1>5. KeysSound' BY <1>1, <1>2 DEF KeysSound, UserPending, Pending, AccountsTypeOK, NewKeys, Finished
  <1>6. LockedOut' BY DEF LockedOut, AccountsTypeOK, NewKeys
  <1>7. Mirrored' BY <1>1, <1>2 DEF Mirrored, UserPending, Pending, AccountsTypeOK
  <1>8. Counted' BY <1>1, <1>2 DEF Counted, Pending, AccountsTypeOK
  <1>9. Gone' BY <1>1, <1>2 DEF Gone, UserPending, Pending, AccountsTypeOK
  <1> QED BY <1>2, <1>3, <1>4, <1>5, <1>6, <1>7, <1>8, <1>9

LEMMA RegisterInv ==
  ASSUME AccountsInv, NEW r \in Logins, NEW e \in Emails, NEW k \in Keys, Register(r, e, k)
  PROVE  AccountsInv'
  <1> USE DEF AccountsInv, Register, RegisterWriting, Issue
  <1> DEFINE i == nextUserID
  <1>0. i \in Ids /\ i + 1 \in 1..(MaxAccounts + 1) BY DEF AccountsTypeOK, Ids
  <1>1. ToSet(unwritten) = {} BY NothingPending
  <1>2. /\ unwritten' \in Seq(Row) /\ InOrder'
        /\ ToSet(unwritten') = {[row |-> "account", id |-> i], [row |-> "next"],
                                [row |-> "session", key |-> k, id |-> i]}
    BY <1>0, RegisterWrites
  <1> DEFINE u == [email |-> e, banned |-> FALSE, hero |-> "none"]
  <1>u. u \in User /\ u # Nobody /\ u.email = e /\ object' = [object EXCEPT ![i] = u]
    <2>1. u \in User /\ u.email = e BY DEF User, Heroes
    <2>2. object' = [object EXCEPT ![i] = u] OBVIOUS
    <2> HIDE DEF u
    <2> QED BY <2>1, <2>2
  <1> HIDE DEF u
  <1>o. /\ object \in [Ids -> User \cup {Nobody}] /\ object'[i] = u
        /\ \A j \in Ids \ {i} : object'[j] = object[j]
    BY <1>0, <1>u DEF AccountsTypeOK
  <1>3. AccountsTypeOK'
    <2>2. object' \in [Ids -> User \cup {Nobody}] /\ known' \subseteq {j \in Ids : object'[j] # Nobody}
      BY <1>0, <1>u, <1>o DEF AccountsTypeOK
    <2>3. login' \in [Logins -> Request \cup {Finished}] BY <1>0 DEF AccountsTypeOK, Request
    <2>4. sessions' \in [Keys -> Ids \cup {Nobody}] /\ deleted' \subseteq Ids BY <1>0 DEF AccountsTypeOK
    <2> QED BY <1>0, <1>2, <2>2, <2>3, <2>4 DEF AccountsTypeOK
  <1>4. UsersSound'
    <2>0. /\ object[i] = Nobody /\ database.users[i] = Nobody /\ i \notin known
          /\ object'[i].email = e /\ object'[i] # Nobody
          /\ \A j \in Ids \ {i} : object'[j] = object[j]
      <3>1. object[i] = Nobody /\ database.users[i] = Nobody BY <1>0 DEF UsersSound, Ids
      <3> QED BY <1>u, <1>o, <3>1 DEF AccountsTypeOK
    <2>1. \A j \in Ids : UserPending(j)' <=> j = i BY <1>0, <1>2 DEF UserPending, Pending
    <2>2. \A j \in Ids : object'[j] # Nobody => j < nextUserID'
      BY <1>0, <2>0 DEF UsersSound, AccountsTypeOK, Ids
    <2>3. \A j \in Ids : database'.users[j] # Nobody =>
            /\ object'[j] # Nobody /\ object'[j].email = database'.users[j].email
            /\ database'.users[j] = object'[j] \/ UserPending(j)'
      BY <1>1, <2>0 DEF UsersSound, UserPending, Pending
    <2>4. \A j, l \in known' : object'[j].email = object'[l].email => j = l
      BY <2>0 DEF UsersSound, AccountsTypeOK
    <2>5. \A j \in Ids : UserPending(j)' => object'[j] # Nobody BY <2>0, <2>1
    <2>6. \A q \in Logins : login'[q] # Finished => object'[login'[q].id] # Nobody
      BY <1>0, <2>0 DEF UsersSound, AccountsTypeOK, Request, Finished
    <2>7. \A j, l \in Ids : database'.users[j] # Nobody /\ database'.users[l] # Nobody
                         /\ database'.users[j].email = database'.users[l].email => j = l
      BY DEF UsersSound
    <2> QED BY <2>2, <2>3, <2>4, <2>5, <2>6, <2>7 DEF UsersSound
  <1>5. KeysSound'
    <2>1. \A q \in Keys, j \in Ids : Pending([row |-> "session", key |-> q, id |-> j])' <=> q = k /\ j = i
      BY <1>0, <1>2 DEF Pending
    <2>2. sessions' = [sessions EXCEPT ![k] = i] /\ sessions \in [Keys -> Ids \cup {Nobody}]
      BY DEF AccountsTypeOK
    <2>3. \A q \in Keys : database.sessions[q] \in {Nobody, sessions[q]} BY <1>1 DEF KeysSound, Pending
    <2>4. \A q \in Keys : ~Pending([row |-> "drop", key |-> q])' BY <1>2 DEF Pending
    <2> QED BY <1>0, <2>1, <2>2, <2>3, <2>4 DEF KeysSound, AccountsTypeOK, NewKeys, Finished
  <1>6. LockedOut' BY <1>0 DEF LockedOut, AccountsTypeOK, NewKeys, KeysSound
  <1>7. Mirrored' BY <1>0, <1>1, <1>2 DEF Mirrored, UserPending, Pending, AccountsTypeOK
  <1>8. Counted'
    <2>1. \A j \in Ids : Pending([row |-> "account", id |-> j])' <=> j = i BY <1>0, <1>2 DEF Pending
    <2>2. Pending([row |-> "next"])' BY <1>2 DEF Pending
    <2>3. \A n \in DOMAIN registered : registered[n] \in Ids BY DEF AccountsTypeOK
    <2> QED BY <1>0, <2>1, <2>2, <2>3 DEF Counted, AccountsTypeOK, Ids
  <1>9. Gone' BY <1>0, <1>1, <1>2 DEF Gone, UserPending, Pending, AccountsTypeOK
  <1> QED BY <1>2, <1>3, <1>4, <1>5, <1>6, <1>7, <1>8, <1>9

LEMMA GateInv ==
  ASSUME AccountsInv, NEW r \in Logins, Gate(r)
  PROVE  AccountsInv'
  <1> USE DEF AccountsInv, Gate
  <1>0. login[r] \in Request BY DEF AccountsTypeOK, Finished
  <1>1. ToSet(unwritten) = {} /\ ToSet(unwritten') = {} BY NothingPending
  <1>2. InOrder' BY DEF InOrder
  <1>3. AccountsTypeOK' BY <1>0 DEF AccountsTypeOK, Request
  <1>4. UsersSound' BY <1>0, <1>1 DEF UsersSound, UserPending, Pending, AccountsTypeOK, Request, Finished
  <1>5. KeysSound' BY <1>0, <1>1 DEF KeysSound, Pending, AccountsTypeOK, Request, Finished
  <1>6. LockedOut'
    BY <1>0, <1>1 DEF LockedOut, KeysSound, UsersSound, UserPending, Pending, AccountsTypeOK, Request
  <1>7. Mirrored' BY <1>1 DEF Mirrored, UserPending, Pending
  <1>8. Counted' BY <1>1 DEF Counted, Pending
  <1>9. Gone' BY <1>1 DEF Gone, UserPending, Pending
  <1> QED BY <1>2, <1>3, <1>4, <1>5, <1>6, <1>7, <1>8, <1>9

LEMMA RevokeInv ==
  ASSUME AccountsInv, NEW r \in Logins, Revoke(r)
  PROVE  AccountsInv'
  <1> USE DEF AccountsInv, Revoke
  <1> DEFINE w == [row |-> "drop", key |-> login[r].key]
  <1>0. login[r] \in Request BY DEF AccountsTypeOK, Finished
  <1>1. ToSet(unwritten) = {} BY NothingPending
  <1>2. unwritten' \in Seq(Row) /\ InOrder' /\ ToSet(unwritten') = {w}
    <2>1. w \in Row BY <1>0 DEF Row, Request
    <2> QED BY <2>1, OneWrite
  <1>3. AccountsTypeOK' BY <1>0, <1>2 DEF AccountsTypeOK, Request
  <1>4. UsersSound' BY <1>0, <1>1, <1>2 DEF UsersSound, UserPending, Pending, AccountsTypeOK, Request, Finished
  <1>5. KeysSound' BY <1>0, <1>1, <1>2 DEF KeysSound, Pending, AccountsTypeOK, Request, Finished
  <1>6. LockedOut' BY <1>0 DEF LockedOut, AccountsTypeOK, Request
  <1>7. Mirrored' BY <1>0, <1>1, <1>2 DEF Mirrored, UserPending, Pending, AccountsTypeOK, Request
  <1>8. Counted' BY <1>1, <1>2 DEF Counted, Pending
  <1>9. Gone' BY <1>0, <1>1, <1>2 DEF Gone, UserPending, Pending, AccountsTypeOK, Request
  <1> QED BY <1>2, <1>3, <1>4, <1>5, <1>6, <1>7, <1>8, <1>9

\* An object that changes but for its address, and is written.
Rewritten(i) ==
  /\ i \in Ids /\ object[i] \in User /\ object'[i] \in User
  /\ object' \in [Ids -> User \cup {Nobody}]
  /\ object'[i].email = object[i].email
  /\ \A j \in Ids \ {i} : object'[j] = object[j]
  /\ [row |-> "user", id |-> i] \in ToSet(unwritten')
  /\ UNCHANGED <<known, nextUserID, database, told, registered, deleted, broken>>

LEMMA RewrittenUsers ==
  ASSUME AccountsInv, Unlocked, NEW i \in Ids, Rewritten(i),
         \A j \in Ids : UserPending(j)' <=> j = i,
         \A r \in Logins : login'[r] \in {login[r], Finished}
  PROVE  UsersSound'
  <1> USE DEF AccountsInv, Rewritten
  <1>1. ToSet(unwritten) = {} BY NothingPending
  <1>2. object'[i] # Nobody OBVIOUS
  <1>3. \A j \in Ids : object'[j] # Nobody <=> object[j] # Nobody OBVIOUS
  <1>4. \A j \in Ids : object[j] # Nobody => object'[j].email = object[j].email OBVIOUS
  <1>5. \A j \in Ids : database.users[j] # Nobody =>
           object[j] # Nobody /\ object[j] = database.users[j]
    BY <1>1 DEF UsersSound, UserPending, Pending
  <1>6. \A j \in Ids : object'[j] # Nobody => j < nextUserID' BY <1>3 DEF UsersSound
  <1>7. \A j \in Ids : database'.users[j] # Nobody =>
            /\ object'[j] # Nobody /\ object'[j].email = database'.users[j].email
            /\ database'.users[j] = object'[j] \/ UserPending(j)'
    BY <1>3, <1>4, <1>5
  <1>8. \A j, l \in known' : object'[j].email = object'[l].email => j = l
    BY <1>4 DEF UsersSound, AccountsTypeOK
  <1>9. \A q \in Logins : login'[q] # Finished => object'[login'[q].id] # Nobody
    BY <1>3 DEF UsersSound, AccountsTypeOK, Request, Finished
  <1>10. \A j, l \in Ids : database'.users[j] # Nobody /\ database'.users[l] # Nobody
                         /\ database'.users[j].email = database'.users[l].email => j = l
    BY DEF UsersSound
  <1> QED BY <1>2, <1>6, <1>7, <1>8, <1>9, <1>10 DEF UsersSound

LEMMA BanInv ==
  ASSUME AccountsInv, NEW i \in Ids, Ban(i)
  PROVE  AccountsInv'
  <1> USE DEF AccountsInv
  <1>b. PICK order : BanWriting(i, Drops(order)) BY DEF Ban
  <1>u. Unlocked /\ i \in known BY <1>b DEF BanWriting
  <1>1. ToSet(unwritten) = {} BY <1>u, NothingPending
  <1>2. /\ unwritten' \in Seq(Row) /\ InOrder'
        /\ ToSet(unwritten') = {[row |-> "drop", key |-> k] : k \in KeysOf(i)}
                                  \cup {[row |-> "user", id |-> i]}
    BY BanWrites
  <1>k. /\ sessions' \in [Keys -> Ids \cup {Nobody}]
        /\ \A k \in Keys : sessions'[k] = IF sessions[k] = i THEN Nobody ELSE sessions[k]
    BY <1>b DEF BanWriting, Revoked, AccountsTypeOK
  <1>o. object' = [object EXCEPT ![i].banned = TRUE] BY <1>b DEF BanWriting
  <1>f. UNCHANGED <<known, nextUserID, database, login, told, registered, deleted, revived, broken>>
    BY <1>b DEF BanWriting
  <1>w. /\ Rewritten(i)
        /\ \A j \in Ids : UserPending(j)' <=> j = i
        /\ \A k \in Keys, j \in Ids : ~Pending([row |-> "session", key |-> k, id |-> j])'
        /\ \A k \in Keys : sessions[k] = i => Pending([row |-> "drop", key |-> k])'
    <2>1. object[i] \in User BY <1>u DEF AccountsTypeOK
    <2>2. object' \in [Ids -> User \cup {Nobody}] /\ object'[i] \in User /\ object'[i].email = object[i].email
          /\ \A j \in Ids \ {i} : object'[j] = object[j]
      BY <1>o, <2>1 DEF AccountsTypeOK, User
    <2>3. Rewritten(i) BY <1>2, <1>f, <2>1, <2>2 DEF Rewritten
    <2>4. \A j \in Ids : UserPending(j)' <=> j = i BY <1>2 DEF UserPending, Pending
    <2>5. \A k \in Keys, j \in Ids : ~Pending([row |-> "session", key |-> k, id |-> j])'
      BY <1>2 DEF Pending
    <2>6. \A k \in Keys : sessions[k] = i => Pending([row |-> "drop", key |-> k])'
      BY <1>2 DEF Pending, KeysOf
    <2> QED BY <2>3, <2>4, <2>5, <2>6
  <1>3. AccountsTypeOK' BY <1>2, <1>k, <1>f, <1>w DEF AccountsTypeOK, Rewritten
  <1>4. UsersSound'
    <2>1. \A r \in Logins : login'[r] \in {login[r], Finished} BY <1>f
    <2> QED BY <1>u, <1>w, <2>1, RewrittenUsers
  <1>5. KeysSound'
    <2>1. \A k \in Keys : database.sessions[k] \in {Nobody, sessions[k]} BY <1>1 DEF KeysSound, Pending
    <2>2. \A r \in Logins : login[r].pc = "gate" => login[r].key \in Keys
      BY DEF AccountsTypeOK, Request, Finished
    <2>3. \A r \in Logins : login'[r].pc = "gate" => sessions'[login'[r].key] \in {login'[r].id, Nobody}
      BY <1>k, <1>f, <2>2 DEF KeysSound
    <2>4. \A k \in Keys : sessions'[k] # Nobody => sessions'[k] \in known' BY <1>k, <1>f DEF KeysSound
    <2>5. \A k \in Keys : \/ database'.sessions[k] \in {Nobody, sessions'[k]}
                         \/ Pending([row |-> "drop", key |-> k])'
      BY <1>k, <1>f, <1>w, <2>1
    <2>6. \A k \in Keys : Pending([row |-> "drop", key |-> k])' => sessions'[k] = Nobody
      BY <1>2, <1>k DEF Pending, KeysOf
    <2> QED BY <1>f, <1>w, <2>3, <2>4, <2>5, <2>6 DEF KeysSound
  <1>6. LockedOut' BY <1>k, <1>f, <1>w DEF LockedOut, Rewritten, AccountsTypeOK
  <1>7. Mirrored' BY <1>u, <1>1, <1>k, <1>f, <1>w DEF Mirrored, UserPending, Pending, AccountsTypeOK
  <1>8. Counted'
    <2>1. \A j \in Ids : ~Pending([row |-> "account", id |-> j])' BY <1>2 DEF Pending
    <2> QED BY <1>1, <1>f, <2>1 DEF Counted, Pending
  <1>9. Gone' BY <1>u, <1>1, <1>k, <1>f, <1>w DEF Gone, AccountsTypeOK
  <1> QED BY <1>2, <1>3, <1>4, <1>5, <1>6, <1>7, <1>8, <1>9

\* The object of i is changed and written, and no key is touched.
LEMMA RewriteInv ==
  ASSUME AccountsInv, Unlocked, NEW i \in Ids, i \in known \cup revived',
         unwritten' = <<[row |-> "user", id |-> i]>>,
         UNCHANGED <<known, nextUserID, sessions, database, told, registered, deleted, broken>>,
         object[i] \in User, object'[i] \in User,
         object' \in [Ids -> User \cup {Nobody}],
         object'[i].email = object[i].email,
         object'[i].banned => object[i].banned,
         \A j \in Ids \ {i} : object'[j] = object[j],
         login' \in [Logins -> Request \cup {Finished}],
         \A r \in Logins : login'[r] \in {login[r], Finished},
         revived \subseteq revived', revived' \subseteq Ids
  PROVE  AccountsInv'
  <1> USE DEF AccountsInv
  <1>1. ToSet(unwritten) = {} BY NothingPending
  <1>2. unwritten' \in Seq(Row) /\ InOrder' /\ ToSet(unwritten') = {[row |-> "user", id |-> i]}
    <2> DEFINE w == [row |-> "user", id |-> i]
    <2>1. w \in Row BY DEF Row
    <2> HIDE DEF w
    <2>2. unwritten' = <<w>> BY DEF w
    <2>3. unwritten' \in Seq(Row) /\ InOrder' /\ ToSet(unwritten') = {w} BY <2>1, <2>2, OneWrite
    <2> QED BY <2>3 DEF w
  <1>w. /\ Rewritten(i)
        /\ \A j \in Ids : UserPending(j)' <=> j = i
        /\ \A k \in Keys, j \in Ids : ~Pending([row |-> "session", key |-> k, id |-> j])'
        /\ \A j \in Ids : ~Pending([row |-> "account", id |-> j])'
    BY <1>2 DEF Rewritten, UserPending, Pending
  <1>3. AccountsTypeOK' BY <1>2 DEF AccountsTypeOK
  <1>4. UsersSound' BY <1>w, RewrittenUsers
  <1>5. KeysSound'
    <2>1. \A k \in Keys : database.sessions[k] \in {Nobody, sessions[k]} BY <1>1 DEF KeysSound, Pending
    <2>2. \A k \in Keys : ~Pending([row |-> "drop", key |-> k])' BY <1>2 DEF Pending
    <2> QED BY <1>w, <2>1, <2>2 DEF KeysSound, Finished
  <1>6. LockedOut' BY DEF LockedOut, AccountsTypeOK
  <1>7. Mirrored' BY <1>1, <1>w DEF Mirrored, UserPending, Pending, AccountsTypeOK
  <1>8. Counted' BY <1>1, <1>w DEF Counted, Pending
  <1>9. Gone' BY <1>1, <1>w DEF Gone, AccountsTypeOK
  <1> QED BY <1>2, <1>3, <1>4, <1>5, <1>6, <1>7, <1>8, <1>9

LEMMA UnbanInv ==
  ASSUME AccountsInv, NEW i \in Ids, Unban(i)
  PROVE  AccountsInv'
  <1> USE DEF AccountsInv, Unban
  <1>1. object[i] \in User BY DEF AccountsTypeOK
  <1>2. /\ object' \in [Ids -> User \cup {Nobody}] /\ object'[i] \in User
        /\ object'[i].email = object[i].email /\ ~object'[i].banned
        /\ \A j \in Ids \ {i} : object'[j] = object[j]
    BY <1>1 DEF AccountsTypeOK, User
  <1>3. login' \in [Logins -> Request \cup {Finished}] /\ \A r \in Logins : login'[r] \in {login[r], Finished}
    BY DEF AccountsTypeOK
  <1>4. revived \subseteq revived' /\ revived' \subseteq Ids BY DEF AccountsTypeOK
  <1> QED BY <1>1, <1>2, <1>3, <1>4, RewriteInv

LEMMA EarnInv ==
  ASSUME AccountsInv, NEW i \in Ids, Earn(i)
  PROVE  AccountsInv'
  <1> USE DEF AccountsInv, Earn
  <1>1. object[i] \in User BY DEF AccountsTypeOK
  <1>2. /\ object' \in [Ids -> User \cup {Nobody}] /\ object'[i] \in User
        /\ object'[i].email = object[i].email /\ object'[i].banned = object[i].banned
        /\ \A j \in Ids \ {i} : object'[j] = object[j]
    BY <1>1 DEF AccountsTypeOK, User, Heroes
  <1>3. login' \in [Logins -> Request \cup {Finished}] /\ \A r \in Logins : login'[r] \in {login[r], Finished}
    BY DEF AccountsTypeOK
  <1>4. revived \subseteq revived' /\ revived' \subseteq Ids BY DEF AccountsTypeOK
  <1> QED BY <1>1, <1>2, <1>3, <1>4, RewriteInv

LEMMA CreateHeroInv ==
  ASSUME AccountsInv, NEW r \in Logins, CreateHero(r)
  PROVE  AccountsInv'
  <1> USE DEF AccountsInv, CreateHero
  <1> DEFINE i == login[r].id
  <1>0. login[r] \in Request /\ i \in Ids BY DEF AccountsTypeOK, Finished, Request
  <1>1. object[i] \in User BY <1>0 DEF UsersSound, AccountsTypeOK, Request, Finished
  <1>2. /\ object' \in [Ids -> User \cup {Nobody}] /\ object'[i] \in User
        /\ object'[i].email = object[i].email /\ object'[i].banned = object[i].banned
        /\ \A j \in Ids \ {i} : object'[j] = object[j]
    BY <1>0, <1>1 DEF AccountsTypeOK, User, Heroes
  <1>3. login' \in [Logins -> Request \cup {Finished}] /\ \A q \in Logins : login'[q] \in {login[q], Finished}
    BY DEF AccountsTypeOK
  <1>4. revived \subseteq revived' /\ revived' \subseteq Ids /\ i \in known \cup revived'
    BY <1>0 DEF AccountsTypeOK
  <1>5. unwritten' = <<[row |-> "user", id |-> i]>> /\ Unlocked
        /\ UNCHANGED <<known, nextUserID, sessions, database, told, registered, deleted, broken>>
    OBVIOUS
  <1> HIDE DEF i, CreateHero
  <1> QED BY <1>0, <1>1, <1>2, <1>3, <1>4, <1>5, RewriteInv

LEMMA DeleteUserInv ==
  ASSUME AccountsInv, NEW i \in Ids, DeleteUser(i)
  PROVE  AccountsInv'
  <1> USE DEF AccountsInv, DeleteUser, DeleteLeaving
  <1>1. ToSet(unwritten) = {} /\ ToSet(unwritten') = {} BY NothingPending
  <1>2. InOrder' BY DEF InOrder
  <1>k. /\ sessions' \in [Keys -> Ids \cup {Nobody}]
        /\ \A k \in Keys : sessions'[k] = IF sessions[k] = i THEN Nobody ELSE sessions[k]
    BY DEF Revoked, AccountsTypeOK
  <1>d. /\ database'.users = [database.users EXCEPT ![i] = Nobody]
        /\ database'.sessions = [k \in Keys |-> IF database.sessions[k] = i THEN Nobody ELSE database.sessions[k]]
        /\ database'.next = database.next
        /\ database' \in [users : [Ids -> User \cup {Nobody}], sessions : [Keys -> Ids \cup {Nobody}],
                          next : 1..(MaxAccounts + 1)]
    BY DEF AccountsTypeOK
  <1>e. database.users \in [Ids -> User \cup {Nobody}] /\ database.sessions \in [Keys -> Ids \cup {Nobody}]
    BY DEF AccountsTypeOK
  <1>f. /\ Unlocked /\ i \in known /\ known' = known \ {i} /\ deleted' = deleted \cup {i}
        /\ UNCHANGED <<object, nextUserID, unwritten, login, told, registered, revived, broken>>
    OBVIOUS
  <1> HIDE DEF DeleteUser, DeleteLeaving
  <1>3. AccountsTypeOK' BY <1>k, <1>d, <1>f DEF AccountsTypeOK
  <1>4. UsersSound' BY <1>1, <1>d, <1>e, <1>f DEF UsersSound, UserPending, Pending, AccountsTypeOK
  <1>5. KeysSound'
    <2>1. \A r \in Logins : login[r].pc = "gate" => login[r].key \in Keys
      BY DEF AccountsTypeOK, Request, Finished
    <2>2. \A r \in Logins : login'[r].pc = "gate" => sessions'[login'[r].key] \in {login'[r].id, Nobody}
      BY <1>k, <1>f, <2>1 DEF KeysSound
    <2>3. \A k \in Keys : sessions'[k] # Nobody => sessions'[k] \in known' BY <1>k, <1>f DEF KeysSound
    <2>4. \A k \in Keys : database'.sessions[k] # Nobody => database'.users[database'.sessions[k]] # Nobody
      BY <1>d, <1>e DEF KeysSound
    <2>5. \A k \in Keys : database'.sessions[k] \in {Nobody, sessions'[k]}
      BY <1>1, <1>k, <1>d, <1>e DEF KeysSound, Pending
    <2> QED BY <1>1, <2>2, <2>3, <2>4, <2>5 DEF KeysSound, Pending
  <1>6. LockedOut' BY <1>k, <1>d, <1>e, <1>f DEF LockedOut, AccountsTypeOK
  <1>7. Mirrored' BY <1>1, <1>k, <1>d, <1>e, <1>f DEF Mirrored, UserPending, Pending, AccountsTypeOK
  <1>8. Counted' BY <1>1, <1>d, <1>f DEF Counted, Pending
  <1>9. Gone' BY <1>1, <1>k, <1>d, <1>e, <1>f DEF Gone, UserPending, Pending, AccountsTypeOK
  <1> QED BY <1>2, <1>3, <1>4, <1>5, <1>6, <1>7, <1>8, <1>9

LEMMA HeroCreateInv ==
  ASSUME AccountsInv, NEW r \in Logins, NEW k \in Keys, HeroCreate(r, k)
  PROVE  AccountsInv'
  <1> USE DEF AccountsInv, HeroCreate
  <1>1. ToSet(unwritten) = {} /\ ToSet(unwritten') = {} BY NothingPending
  <1>2. InOrder' BY DEF InOrder
  <1>3. AccountsTypeOK' BY DEF AccountsTypeOK, Request
  <1>4. UsersSound' BY <1>1 DEF UsersSound, UserPending, Pending, AccountsTypeOK, Request, Finished
  <1>5. KeysSound' BY <1>1 DEF KeysSound, Pending, AccountsTypeOK, Request, Finished
  <1>6. LockedOut' BY DEF LockedOut
  <1>7. Mirrored' BY <1>1 DEF Mirrored, UserPending, Pending
  <1>8. Counted' BY <1>1 DEF Counted, Pending
  <1>9. Gone' BY <1>1 DEF Gone, UserPending, Pending
  <1> QED BY <1>2, <1>3, <1>4, <1>5, <1>6, <1>7, <1>8, <1>9

\* The database a restart finds is the memory it brings up.
LEMMA ReloadInv ==
  ASSUME AccountsInv, Reload
  PROVE  AccountsInv'
  <1> USE DEF AccountsInv
  <1> DEFINE S == {database.next} \cup {i + 1 : i \in Stored}
  <1>e. /\ database.users \in [Ids -> User \cup {Nobody}] /\ database.sessions \in [Keys -> Ids \cup {Nobody}]
        /\ database.next \in 1..(MaxAccounts + 1)
        /\ Stored = {i \in Ids : database.users[i] # Nobody}
    BY DEF AccountsTypeOK, Stored
  <1>m. nextUserID' \in S /\ \A x \in S : x <= nextUserID'
    <2>1. S \in SUBSET 0..(MaxAccounts + 1) /\ S # {} BY <1>e DEF Ids
    <2>2. nextUserID' = Max(S) BY DEF Reload
    <2>3. MaxAccounts + 1 \in Nat OBVIOUS
    <2> HIDE DEF S
    <2>4. Max(S) \in S /\ \A x \in S : x <= Max(S) BY <2>1, <2>3, MaxIsGreatest
    <2> QED BY <2>2, <2>4
  <1>n. /\ nextUserID' \in 1..(MaxAccounts + 1)
        /\ database.next <= nextUserID' /\ \A i \in Stored : i < nextUserID'
        /\ nextUserID' = database.next \/ \E i \in Stored : nextUserID' = i + 1
    <2>1. database.next \in S /\ \A i \in Stored : i + 1 \in S /\ i \in 1..MaxAccounts BY <1>e DEF Ids
    <2>2. nextUserID' = database.next \/ \E i \in Stored : nextUserID' = i + 1 BY <1>m
    <2>3. nextUserID' \in 1..(MaxAccounts + 1) BY <1>e, <2>1, <2>2
    <2>4. database.next <= nextUserID' BY <1>m, <2>1
    <2>5. ASSUME NEW i \in Stored PROVE i < nextUserID'
      <3>1. i + 1 <= nextUserID' /\ i \in 1..MaxAccounts BY <1>m, <2>1
      <3> QED BY <2>3, <3>1
    <2> HIDE DEF S
    <2> QED BY <2>2, <2>3, <2>4, <2>5
  <1>f. /\ object' = database.users /\ known' = Stored
        /\ sessions' = [k \in Keys |-> IF database.sessions[k] \in Stored THEN database.sessions[k]
                                                                  ELSE Nobody]
        /\ unwritten' = <<>> /\ login' = [r \in Logins |-> Finished]
        /\ broken' = (broken \/ unwritten # <<>>)
        /\ UNCHANGED <<database, told, registered, deleted, revived>>
    BY DEF Reload
  <1>1. ToSet(unwritten') = {} BY <1>f DEF ToSet
  <1>2. InOrder' BY <1>f DEF InOrder
  <1>k. sessions' = database.sessions BY <1>e, <1>f DEF KeysSound
  <1>3. AccountsTypeOK'
    <2>1. unwritten' \in Seq(Row) BY <1>f
    <2> QED BY <1>e, <1>n, <1>f, <1>k, <2>1 DEF AccountsTypeOK
  <1>4. UsersSound'
    BY <1>1, <1>e, <1>n, <1>f DEF UsersSound, UserPending, Pending
  <1>5. KeysSound' BY <1>1, <1>e, <1>f, <1>k DEF KeysSound, Pending, Finished
  <1>6. LockedOut' BY <1>f, <1>k DEF LockedOut
  <1>7. Mirrored' BY <1>1, <1>e, <1>f, <1>k DEF Mirrored, UserPending, Pending
  <1>8. Counted'
    <2> SUFFICES ASSUME ~broken, Unlocked PROVE Counted' BY <1>f DEF Counted, Unlocked
    <2>1. ToSet(unwritten) = {} BY NothingPending
    <2>2. database.next = nextUserID BY <2>1 DEF Counted, Pending
    <2>3. \A i \in Stored : i < nextUserID BY <1>e DEF UsersSound
    <2>4. nextUserID' = database.next
      <3>1. \A i \in Stored : i \in Nat BY <1>e DEF Ids
      <3> QED BY <1>n, <2>2, <2>3, <3>1 DEF AccountsTypeOK
    <2> QED BY <1>1, <1>f, <2>2, <2>4 DEF Counted, Pending
  <1>9. Gone' BY <1>1, <1>e, <1>f, <1>k DEF Gone, UserPending, Pending
  <1> QED BY <1>2, <1>3, <1>4, <1>5, <1>6, <1>7, <1>8, <1>9

-----------------------------------------------------------------------------
(***************************************************************************)
(* A write.                                                                *)
(***************************************************************************)

LEMMA WriteInv ==
  ASSUME AccountsInv, Write
  PROVE  AccountsInv'
  <1> USE DEF AccountsInv
  <1> DEFINE w == Head(unwritten)
  <1>1. /\ w \in Row
        /\ unwritten' \in Seq(Row) /\ InOrder'
        /\ ToSet(unwritten) = {w} \cup ToSet(unwritten')
        /\ ToSet(unwritten') \subseteq Row
        /\ \A x \in ToSet(unwritten') :
              \/ w.row \in {"account", "next"} /\ x.row \in {"next", "session"}
              \/ w.row = "drop" /\ x.row \in {"drop", "user"}
    BY WriteTakes DEF AccountsTypeOK
  <1>d. /\ database' = CASE w.row = "account" -> UserRow(w.id)
                    [] w.row = "user"    -> UserRow(w.id)
                    [] w.row = "session" -> SessionRow(w.key, w.id)
                    [] w.row = "drop"    -> [database EXCEPT !.sessions[w.key] = Nobody]
                    [] w.row = "next"    -> [database EXCEPT !.next = nextUserID]
        /\ registered' = IF w.row = "account" /\ ~Clashes(w.id) THEN Append(registered, w.id)
                                                                ELSE registered
        /\ UNCHANGED <<object, known, nextUserID, sessions, login, told, deleted, revived, broken>>
    BY DEF Write
  <1> HIDE DEF w
  <1>e. /\ database.users \in [Ids -> User \cup {Nobody}] /\ database.sessions \in [Keys -> Ids \cup {Nobody}]
        /\ database \in [users : [Ids -> User \cup {Nobody}], sessions : [Keys -> Ids \cup {Nobody}],
                         next : 1..(MaxAccounts + 1)]
        /\ object \in [Ids -> User \cup {Nobody}] /\ sessions \in [Keys -> Ids \cup {Nobody}]
    BY DEF AccountsTypeOK
  <1>p. \A x : Pending(x) <=> x = w \/ Pending(x)' BY <1>1 DEF Pending
  <1>U. CASE w.row \in {"account", "user"}
    <2> DEFINE i == w.id
    <2>0. i \in Ids /\ w = [row |-> w.row, id |-> i] BY <1>1, <1>U DEF Row
    <2>1. /\ UserPending(i) /\ \A j \in Ids : UserPending(j) => j = i
          /\ \A j \in Ids : ~UserPending(j)'
          /\ \A k \in Keys : ~Pending([row |-> "drop", key |-> k])
          /\ \A k \in Keys : ~Pending([row |-> "drop", key |-> k])'
          /\ \A j \in Ids : Pending([row |-> "account", id |-> j]) => j = i /\ w.row = "account"
          /\ \A j \in Ids : ~Pending([row |-> "account", id |-> j])'
          /\ Pending([row |-> "next"]) <=> Pending([row |-> "next"])'
          /\ \A k \in Keys, j \in Ids : Pending([row |-> "session", key |-> k, id |-> j])
                                     <=> Pending([row |-> "session", key |-> k, id |-> j])'
      BY <1>1, <1>U, <1>p, <2>0 DEF UserPending, Pending
    <2>2. object[i] # Nobody /\ object[i] \in User BY <1>e, <2>0, <2>1 DEF UsersSound
    <2>3. ASSUME database.users[i] # Nobody \/ revived = {}
          PROVE  ~Clashes(i)
      <3> SUFFICES ASSUME NEW j \in Ids \ {i}, database.users[j] # Nobody,
                          database.users[j].email = object[i].email
                   PROVE  FALSE
        BY DEF Clashes
      <3>1. object[j].email = object[i].email BY DEF UsersSound
      <3>2. CASE database.users[i] # Nobody BY <2>0, <3>2 DEF UsersSound
      <3>3. CASE revived = {}
        <4>1. i \in known /\ j \in known BY <2>0, <2>1, <3>3 DEF Mirrored
        <4> QED BY <3>1, <4>1 DEF UsersSound
      <3> QED BY <2>3, <3>2, <3>3
    <2>4. /\ database'.users = IF Clashes(i) THEN database.users ELSE [database.users EXCEPT ![i] = object[i]]
          /\ database'.sessions = database.sessions /\ database'.next = database.next
          /\ database' \in [users : [Ids -> User \cup {Nobody}], sessions : [Keys -> Ids \cup {Nobody}],
                            next : 1..(MaxAccounts + 1)]
      BY <1>U, <1>d, <1>e, <2>0, <2>2 DEF UserRow
    <2> HIDE DEF i
    <2>5. /\ \A j \in Ids \ {i} : database'.users[j] = database.users[j]
          /\ database'.users[i] = IF Clashes(i) THEN Nobody ELSE object[i]
      BY <1>e, <2>0, <2>3, <2>4
    <2>6. AccountsTypeOK'
      <3>1. registered' \in Seq(Ids) BY <1>d, <2>0 DEF AccountsTypeOK, i
      <3> QED BY <1>1, <1>d, <2>4, <3>1 DEF AccountsTypeOK
    <2>7. UsersSound'
      <3>1. \A j \in Ids : database.users[j] # Nobody /\ j # i => database.users[j] = object[j]
        BY <2>1 DEF UsersSound
      <3>2. \A j \in Ids : database'.users[j] # Nobody => database'.users[j] = object[j] /\ object[j] # Nobody
        BY <2>2, <2>5, <3>1
      <3>3. ASSUME NEW j \in Ids, NEW l \in Ids, database'.users[j] # Nobody, database'.users[l] # Nobody,
                   database'.users[j].email = database'.users[l].email
            PROVE  j = l
        <4>1. CASE j # i /\ l # i BY <2>5, <3>3, <4>1 DEF UsersSound
        <4>2. CASE j = i /\ l # i BY <2>5, <3>3, <4>2 DEF Clashes
        <4>3. CASE j # i /\ l = i BY <2>5, <3>3, <4>3 DEF Clashes
        <4> QED BY <4>1, <4>2, <4>3
      <3> QED BY <1>d, <2>1, <3>2, <3>3 DEF UsersSound
    <2>8. KeysSound'
      <3>1. \A j \in Ids : database.users[j] # Nobody => database'.users[j] # Nobody
        BY <2>2, <2>3, <2>5
      <3>2. \A k \in Keys : database.sessions[k] \in {Nobody, sessions[k]} BY <2>1 DEF KeysSound
      <3>3. \A k \in Keys : database'.sessions[k] # Nobody => database'.users[database'.sessions[k]] # Nobody
        BY <1>e, <2>4, <3>1 DEF KeysSound
      <3> QED BY <1>d, <2>1, <2>4, <3>2, <3>3 DEF KeysSound
    <2>9. LockedOut'
      <3>1. \A k \in Keys : database.sessions[k] # Nobody => database.sessions[k] = sessions[k]
        BY <2>1 DEF KeysSound
      <3>2. \A j \in Ids : database'.users[j] \in {database.users[j], object[j]}
        BY <2>3, <2>5
      <3>3. \A k \in told : database'.sessions[k] # Nobody => ~database'.users[database'.sessions[k]].banned
        <4> TAKE k \in told
        <4> HAVE database'.sessions[k] # Nobody
        <4>1. k \in Keys /\ database.sessions[k] \in Ids BY <1>e, <2>4 DEF AccountsTypeOK
        <4>2. database.sessions[k] = sessions[k] /\ database'.sessions[k] = sessions[k] BY <2>4, <3>1, <4>1
        <4>3. ~object[sessions[k]].banned /\ ~database.users[sessions[k]].banned
          BY <2>4, <4>1, <4>2 DEF LockedOut
        <4> QED BY <3>2, <4>1, <4>2, <4>3
      <3> QED BY <1>d, <3>3 DEF LockedOut
    <2>10. Mirrored'
      <3> SUFFICES ASSUME revived = {} PROVE Mirrored' BY <1>d DEF Mirrored
      <3>1. database'.users[i] # Nobody BY <2>2, <2>3, <2>5
      <3>2. \A j \in known' : database'.users[j] # Nobody
        BY <1>d, <2>1, <2>5, <3>1 DEF Mirrored, AccountsTypeOK
      <3>3. \A j \in Ids : database'.users[j] # Nobody \/ UserPending(j)' => j \in known'
        BY <1>d, <2>1, <2>5 DEF Mirrored
      <3>4. \A k \in Keys : sessions'[k] # Nobody =>
              \/ database'.sessions[k] = sessions'[k]
              \/ Pending([row |-> "session", key |-> k, id |-> sessions[k]])'
        BY <1>d, <1>e, <2>1, <2>4 DEF Mirrored
      <3> QED BY <1>d, <3>2, <3>3, <3>4 DEF Mirrored
    <2>11. Counted'
      <3> SUFFICES ASSUME ~broken PROVE Counted' BY <1>d DEF Counted
      <3>1. CASE registered' = registered BY <1>d, <2>1, <2>4, <3>1 DEF Counted
      <3>2. CASE w.row = "account" /\ registered' = Append(registered, i)
        <4>1. \A n \in DOMAIN registered : registered[n] # i
          BY <1>p, <2>0, <3>2 DEF Counted
        <4>2. i < nextUserID BY <2>0, <2>2 DEF UsersSound
        <4>3. /\ DOMAIN registered' = 1..(Len(registered) + 1) /\ DOMAIN registered = 1..Len(registered)
              /\ registered'[Len(registered) + 1] = i
              /\ \A n \in 1..Len(registered) : registered'[n] = registered[n]
              /\ Len(registered) \in Nat
          BY <2>0, <3>2 DEF AccountsTypeOK
        <4>4. \A n \in DOMAIN registered' : n \in DOMAIN registered \/ n = Len(registered) + 1
          BY <4>3
        <4>5. IsInjective(registered')
          BY <4>1, <4>3, <4>4 DEF Counted, IsInjective
        <4>6. \A n \in DOMAIN registered' : registered'[n] < nextUserID
          BY <4>2, <4>3, <4>4 DEF Counted
        <4> QED BY <1>d, <2>1, <2>4, <4>5, <4>6 DEF Counted
      <3> QED BY <1>d, <3>1, <3>2 DEF i
    <2>12. Gone'
      <3> SUFFICES ASSUME NEW j \in deleted \ revived
                   PROVE /\ j \notin known /\ database'.users[j] = Nobody /\ ~UserPending(j)'
                         /\ \A k \in Keys :
                              /\ sessions[k] # j /\ database.sessions[k] # j
                              /\ ~Pending([row |-> "session", key |-> k, id |-> j])'
        BY <1>d, <2>4 DEF Gone
      <3>1. j \in Ids /\ j # i BY <2>1 DEF Gone, AccountsTypeOK
      <3> QED BY <2>1, <2>5, <3>1 DEF Gone
    <2> QED BY <1>1, <2>6, <2>7, <2>8, <2>9, <2>10, <2>11, <2>12
  <1>S. CASE w.row = "session"
    <2> DEFINE k == w.key
               i == w.id
    <2>0. k \in Keys /\ i \in Ids /\ w = [row |-> "session", key |-> k, id |-> i] BY <1>1, <1>S DEF Row
    <2>1. /\ ToSet(unwritten') = {}
          /\ \A j \in Ids : ~UserPending(j)
          /\ \A j \in Ids : ~UserPending(j)'
          /\ \A j \in Ids : ~Pending([row |-> "account", id |-> j])
          /\ \A q \in Keys : ~Pending([row |-> "drop", key |-> q])
          /\ Pending(w)
          /\ \A q \in Keys, j \in Ids : Pending([row |-> "session", key |-> q, id |-> j]) => q = k /\ j = i
          /\ ~Pending([row |-> "next"])
      BY <1>1, <1>S, <1>p, <2>0 DEF UserPending, Pending
    <2>2. sessions[k] = i /\ k \notin told BY <2>0, <2>1 DEF KeysSound
    <2>3. /\ database'.users = database.users /\ database'.next = database.next
          /\ database'.sessions = IF database.users[i] = Nobody THEN database.sessions
                                  ELSE [database.sessions EXCEPT ![k] = i]
          /\ database' \in [users : [Ids -> User \cup {Nobody}], sessions : [Keys -> Ids \cup {Nobody}],
                            next : 1..(MaxAccounts + 1)]
          /\ registered' = registered
      BY <1>S, <1>d, <1>e, <2>0 DEF SessionRow
    <2> HIDE DEF k, i
    <2>4. /\ \A q \in Keys \ {k} : database'.sessions[q] = database.sessions[q]
          /\ database'.sessions[k] = IF database.users[i] = Nobody THEN database.sessions[k] ELSE i
      BY <1>e, <2>0, <2>3
    <2>5. AccountsTypeOK' BY <1>1, <1>d, <2>3 DEF AccountsTypeOK
    <2>6. UsersSound'
      <3>1. \A j \in Ids : UserPending(j)' <=> UserPending(j) BY <2>1
      <3>2. \A j \in Ids : database'.users[j] # Nobody =>
             /\ object'[j] # Nobody /\ object'[j].email = database'.users[j].email
             /\ database'.users[j] = object'[j] \/ UserPending(j)'
        BY <1>d, <2>3, <3>1 DEF UsersSound
      <3>3. \A j \in Ids : object'[j] # Nobody => j < nextUserID' BY <1>d DEF UsersSound
      <3>4. \A j \in Ids : UserPending(j)' => object'[j] # Nobody BY <1>d, <3>1 DEF UsersSound
      <3>5. \A j, l \in known' : object'[j].email = object'[l].email => j = l BY <1>d DEF UsersSound
      <3>6. \A r \in Logins : login'[r] # Finished => object'[login'[r].id] # Nobody
        BY <1>d DEF UsersSound
      <3>7. \A j, l \in Ids : database'.users[j] # Nobody /\ database'.users[l] # Nobody
                         /\ database'.users[j].email = database'.users[l].email => j = l
        BY <2>3 DEF UsersSound
      <3> QED BY <3>2, <3>3, <3>4, <3>5, <3>6, <3>7 DEF UsersSound
    <2>7. KeysSound'
      <3>1. \A q \in Keys : database.sessions[q] \in {Nobody, sessions[q]} BY <2>1 DEF KeysSound
      <3>2. \A q \in Keys : database'.sessions[q] \in {Nobody, sessions[q]} BY <2>2, <2>4, <3>1
      <3>3. \A q \in Keys : database'.sessions[q] # Nobody => database'.users[database'.sessions[q]] # Nobody
        BY <2>3, <2>4 DEF KeysSound
      <3> QED BY <1>d, <2>1, <3>2, <3>3 DEF KeysSound, Pending
    <2>8. LockedOut' BY <1>d, <2>2, <2>3, <2>4 DEF LockedOut, AccountsTypeOK
    <2>9. Mirrored'
      <3> SUFFICES ASSUME revived = {} PROVE Mirrored' BY <1>d DEF Mirrored
      <3>1. database.users[i] # Nobody
        <4>1. i \in known BY <2>0, <2>2 DEF KeysSound, AccountsTypeOK
        <4> QED BY <2>0, <2>1, <4>1 DEF Mirrored
      <3>2. \A q \in Keys : sessions[q] # Nobody => database'.sessions[q] = sessions[q]
        BY <1>e, <2>0, <2>1, <2>2, <2>4, <3>1 DEF Mirrored
      <3>3. \A j \in known' : database'.users[j] # Nobody
        BY <1>d, <2>1, <2>3 DEF Mirrored, AccountsTypeOK
      <3>4. \A j \in Ids : database'.users[j] # Nobody \/ UserPending(j)' => j \in known'
        BY <1>d, <2>1, <2>3 DEF Mirrored
      <3> QED BY <1>d, <3>2, <3>3, <3>4 DEF Mirrored
    <2>10. Counted' BY <1>d, <2>0, <2>1, <2>3 DEF Counted, Pending
    <2>11. Gone'
      <3> SUFFICES ASSUME NEW j \in deleted \ revived
                   PROVE /\ j \notin known /\ database.users[j] = Nobody /\ ~UserPending(j)'
                         /\ \A q \in Keys :
                              /\ sessions[q] # j /\ database'.sessions[q] # j
                              /\ ~Pending([row |-> "session", key |-> q, id |-> j])'
        BY <1>d, <2>3 DEF Gone
      <3>1. j \in Ids /\ j # i BY <2>0, <2>2 DEF Gone, AccountsTypeOK
      <3>2. \A q \in Keys : ~Pending([row |-> "session", key |-> q, id |-> j])' BY <2>1 DEF Pending
      <3> QED BY <2>1, <2>4, <3>1, <3>2 DEF Gone
    <2> QED BY <1>1, <2>5, <2>6, <2>7, <2>8, <2>9, <2>10, <2>11
  <1>D. CASE w.row = "drop"
    <2> DEFINE k == w.key
    <2>0. k \in Keys /\ w = [row |-> "drop", key |-> k] BY <1>1, <1>D DEF Row
    <2>1. /\ \A j \in Ids : UserPending(j) <=> UserPending(j)'
          /\ \A j \in Ids : ~Pending([row |-> "account", id |-> j])
          /\ \A j \in Ids : ~Pending([row |-> "account", id |-> j])'
          /\ ~Pending([row |-> "next"])
          /\ \A q \in Keys, j \in Ids : ~Pending([row |-> "session", key |-> q, id |-> j])
          /\ \A q \in Keys, j \in Ids : ~Pending([row |-> "session", key |-> q, id |-> j])'
          /\ \A q \in Keys \ {k} : Pending([row |-> "drop", key |-> q])
                                   => Pending([row |-> "drop", key |-> q])'
          /\ \A q \in Keys : Pending([row |-> "drop", key |-> q])' => Pending([row |-> "drop", key |-> q])
      BY <1>1, <1>D, <1>p, <2>0 DEF UserPending, Pending
    <2>3. /\ database'.users = database.users /\ database'.next = database.next
          /\ database'.sessions = [database.sessions EXCEPT ![k] = Nobody]
          /\ database' \in [users : [Ids -> User \cup {Nobody}], sessions : [Keys -> Ids \cup {Nobody}],
                            next : 1..(MaxAccounts + 1)]
          /\ registered' = registered
      BY <1>D, <1>d, <1>e, <2>0
    <2> HIDE DEF k
    <2>4. /\ \A q \in Keys \ {k} : database'.sessions[q] = database.sessions[q]
          /\ database'.sessions[k] = Nobody
      BY <1>e, <2>0, <2>3
    <2>5. AccountsTypeOK' BY <1>1, <1>d, <2>3 DEF AccountsTypeOK
    <2>6. UsersSound'
      <3>1. \A j \in Ids : UserPending(j)' <=> UserPending(j) BY <2>1
      <3>2. \A j \in Ids : database'.users[j] # Nobody =>
             /\ object'[j] # Nobody /\ object'[j].email = database'.users[j].email
             /\ database'.users[j] = object'[j] \/ UserPending(j)'
        BY <1>d, <2>3, <3>1 DEF UsersSound
      <3>3. \A j \in Ids : object'[j] # Nobody => j < nextUserID' BY <1>d DEF UsersSound
      <3>4. \A j \in Ids : UserPending(j)' => object'[j] # Nobody BY <1>d, <3>1 DEF UsersSound
      <3>5. \A j, l \in known' : object'[j].email = object'[l].email => j = l BY <1>d DEF UsersSound
      <3>6. \A r \in Logins : login'[r] # Finished => object'[login'[r].id] # Nobody
        BY <1>d DEF UsersSound
      <3>7. \A j, l \in Ids : database'.users[j] # Nobody /\ database'.users[l] # Nobody
                         /\ database'.users[j].email = database'.users[l].email => j = l
        BY <2>3 DEF UsersSound
      <3> QED BY <3>2, <3>3, <3>4, <3>5, <3>6, <3>7 DEF UsersSound
    <2>7. KeysSound' BY <1>d, <2>0, <2>1, <2>3, <2>4 DEF KeysSound
    <2>8. LockedOut' BY <1>d, <2>3, <2>4 DEF LockedOut, AccountsTypeOK
    <2>9. Mirrored'
      <3> SUFFICES ASSUME revived = {} PROVE Mirrored' BY <1>d DEF Mirrored
      <3>2. \A q \in Keys : sessions[q] # Nobody => database'.sessions[q] = sessions[q]
        <4> TAKE q \in Keys
        <4> HAVE sessions[q] # Nobody
        <4>1. sessions[q] \in Ids BY <1>e
        <4>2. database.sessions[q] = sessions[q] BY <2>1, <4>1 DEF Mirrored
        <4>3. q # k
          <5>1. sessions[k] = Nobody BY <1>p, <2>0 DEF KeysSound
          <5> QED BY <5>1
        <4> QED BY <2>4, <4>2, <4>3
      <3>3. \A j \in known' : database'.users[j] # Nobody
        BY <1>d, <2>1, <2>3 DEF Mirrored, AccountsTypeOK
      <3>4. \A j \in Ids : database'.users[j] # Nobody \/ UserPending(j)' => j \in known'
        BY <1>d, <2>1, <2>3 DEF Mirrored
      <3> QED BY <1>d, <3>2, <3>3, <3>4 DEF Mirrored
    <2>10. Counted' BY <1>d, <2>1, <2>3 DEF Counted
    <2>11. Gone' BY <1>d, <2>0, <2>1, <2>3, <2>4 DEF Gone, AccountsTypeOK
    <2> QED BY <1>1, <2>5, <2>6, <2>7, <2>8, <2>9, <2>10, <2>11
  <1>N. CASE w.row = "next"
    <2>0. w = [row |-> "next"] BY <1>1, <1>N DEF Row
    <2>1. /\ \A j \in Ids : ~UserPending(j)
          /\ \A j \in Ids : ~UserPending(j)'
          /\ \A q \in Keys, j \in Ids : Pending([row |-> "session", key |-> q, id |-> j])
                                     <=> Pending([row |-> "session", key |-> q, id |-> j])'
          /\ \A q \in Keys : Pending([row |-> "drop", key |-> q])
                             <=> Pending([row |-> "drop", key |-> q])'
          /\ \A j \in Ids : ~Pending([row |-> "account", id |-> j])
          /\ \A j \in Ids : ~Pending([row |-> "account", id |-> j])'
      BY <1>1, <1>N, <1>p, <2>0 DEF UserPending, Pending
    <2>3. /\ database'.users = database.users /\ database'.next = nextUserID
          /\ database'.sessions = database.sessions
          /\ database' \in [users : [Ids -> User \cup {Nobody}], sessions : [Keys -> Ids \cup {Nobody}],
                            next : 1..(MaxAccounts + 1)]
          /\ registered' = registered
      BY <1>N, <1>d, <1>e DEF AccountsTypeOK
    <2>5. AccountsTypeOK' BY <1>1, <1>d, <2>3 DEF AccountsTypeOK
    <2>6. UsersSound'
      <3>1. \A j \in Ids : UserPending(j)' <=> UserPending(j) BY <2>1
      <3>2. \A j \in Ids : database'.users[j] # Nobody =>
             /\ object'[j] # Nobody /\ object'[j].email = database'.users[j].email
             /\ database'.users[j] = object'[j] \/ UserPending(j)'
        BY <1>d, <2>3, <3>1 DEF UsersSound
      <3>3. \A j \in Ids : object'[j] # Nobody => j < nextUserID' BY <1>d DEF UsersSound
      <3>4. \A j \in Ids : UserPending(j)' => object'[j] # Nobody BY <1>d, <3>1 DEF UsersSound
      <3>5. \A j, l \in known' : object'[j].email = object'[l].email => j = l BY <1>d DEF UsersSound
      <3>6. \A r \in Logins : login'[r] # Finished => object'[login'[r].id] # Nobody
        BY <1>d DEF UsersSound
      <3>7. \A j, l \in Ids : database'.users[j] # Nobody /\ database'.users[l] # Nobody
                         /\ database'.users[j].email = database'.users[l].email => j = l
        BY <2>3 DEF UsersSound
      <3> QED BY <3>2, <3>3, <3>4, <3>5, <3>6, <3>7 DEF UsersSound
    <2>7. KeysSound' BY <1>d, <2>1, <2>3 DEF KeysSound
    <2>8. LockedOut' BY <1>d, <2>3 DEF LockedOut
    <2>9. Mirrored' BY <1>d, <1>e, <2>1, <2>3 DEF Mirrored, AccountsTypeOK
    <2>10. Counted' BY <1>d, <2>1, <2>3 DEF Counted
    <2>11. Gone' BY <1>d, <2>1, <2>3 DEF Gone, AccountsTypeOK
    <2> QED BY <1>1, <2>5, <2>6, <2>7, <2>8, <2>9, <2>10, <2>11
  <1> QED BY <1>1, <1>U, <1>S, <1>D, <1>N DEF Row

-----------------------------------------------------------------------------
(***************************************************************************)
(* The theorems.                                                           *)
(***************************************************************************)

LEMMA AccountsNextInv == AccountsInv /\ [AccountsNext]_accountVars => AccountsInv'
  <1> SUFFICES ASSUME AccountsInv, [AccountsNext]_accountVars PROVE AccountsInv' OBVIOUS
  <1>1. CASE Write BY <1>1, WriteInv
  <1>2. CASE Reload BY <1>2, ReloadInv
  <1>3. CASE \E i \in Ids : Ban(i) \/ Unban(i) \/ DeleteUser(i) \/ Earn(i)
    BY <1>3, BanInv, UnbanInv, DeleteUserInv, EarnInv
  <1>4. CASE \E r \in Logins : Gate(r) \/ Revoke(r) \/ CreateHero(r)
    BY <1>4, GateInv, RevokeInv, CreateHeroInv
  <1>5. CASE \E r \in Logins : \E k \in Keys : \/ \E i \in Ids : LogIn(r, i, k)
                                               \/ \E e \in Emails : Register(r, e, k)
                                               \/ HeroCreate(r, k)
    BY <1>5, LogInInv, RegisterInv, HeroCreateInv
  <1>6. CASE UNCHANGED accountVars
    BY <1>6 DEF accountVars, AccountsInv, AccountsTypeOK, InOrder, UsersSound, KeysSound, LockedOut,
                Mirrored, Counted, Gone, UserPending, Pending
  <1> QED BY <1>1, <1>2, <1>3, <1>4, <1>5, <1>6 DEF AccountsNext

LEMMA AccountsInvariant == AccountsSpec => []AccountsInv
  <1> QED BY AccountsInitInv, AccountsNextInv, PTL DEF AccountsSpec

\* In every state the variables hold values of their types.
THEOREM AccountsTypeCorrect == AccountsSpec => []AccountsTypeOK
  <1>1. AccountsInv => AccountsTypeOK BY DEF AccountsInv
  <1> QED BY <1>1, AccountsInvariant, PTL

\* No key a client holds opens a banned account, for any number of accounts, keys
\* and requests, and with the process killed between any two writes.
THEOREM BannedStayOut == AccountsSpec => []BannedLockedOut
  <1>1. AccountsInv => BannedLockedOut BY DEF AccountsInv, LockedOut, BannedLockedOut
  <1> QED BY <1>1, AccountsInvariant, PTL

\* Outside an operation a restart brings up the very accounts and keys there were.
THEOREM RestartKeepsAll == AccountsSpec => []RestartInvisible
  <1>1. AccountsInv => RestartInvisible
    <2> SUFFICES ASSUME AccountsInv, Unlocked, revived = {}
                 PROVE  /\ database.sessions = sessions
                        /\ \A i \in Ids : database.users[i] = (IF i \in known THEN object[i] ELSE Nobody)
      BY DEF RestartInvisible
    <2> USE DEF AccountsInv
    <2>1. \A x : ~Pending(x) BY NothingPending DEF Pending
    <2>2. /\ database.users \in [Ids -> User \cup {Nobody}] /\ sessions \in [Keys -> Ids \cup {Nobody}]
          /\ database.sessions \in [Keys -> Ids \cup {Nobody}]
      BY DEF AccountsTypeOK
    <2>3. \A k \in Keys : database.sessions[k] = sessions[k] BY <2>1 DEF KeysSound, Mirrored
    <2>4. database.sessions = sessions BY <2>2, <2>3
    <2>5. \A i \in Ids : database.users[i] = (IF i \in known THEN object[i] ELSE Nobody)
      BY <2>1 DEF Mirrored, UsersSound, UserPending
    <2> QED BY <2>4, <2>5
  <1> QED BY <1>1, AccountsInvariant, PTL

\* No two accounts get one id unless the process died within a registration.
THEOREM IdsStayUnique == AccountsSpec => []IdsNeverReused
  <1>1. AccountsInv => IdsNeverReused BY DEF AccountsInv, Counted, IdsNeverReused
  <1> QED BY <1>1, AccountsInvariant, PTL

\* A deleted account leaves nothing behind, unless a hero creation writes it back.
THEOREM DeletedStayGone == AccountsSpec => []DeletedForGood
  <1>1. AccountsInv => DeletedForGood BY DEF AccountsInv, Gone, DeletedForGood
  <1> QED BY <1>1, AccountsInvariant, PTL

HIDE AccountsAssumption

-----------------------------------------------------------------------------
(***************************************************************************)
(* The inductive invariant of parties and friendships.                     *)
(***************************************************************************)
\* A party is led by one of its members, is never of one, and names nobody twice
\* whose account exists.
Sound(g) ==
  /\ Len(g.members) > 1
  /\ g.leader \in ToSet(g.members)
  /\ \A i, j \in DOMAIN g.members :
       g.members[i] = g.members[j] /\ g.members[i] \in present => i = j

\* Whoever has a party is one of its members, and whoever else it names has it
\* too, if his account exists.
PartyInv ==
  \A u \in People : groups[u] # Alone =>
    /\ Sound(groups[u])
    /\ u \in ToSet(groups[u].members)
    /\ \A v \in ToSet(groups[u].members) \cap present : groups[v] = groups[u]

Mutual(lists) == \A u, v \in present : v \in lists[u] => u \in lists[v]

Scrubbed(u) == friendRows[u] \cap present = friends[u] \cap present

\* Memory and tables have mutual lists among the accounts that exist, and only
\* those have lists.  Rows that differ are to be saved; when several transactions
\* are to come they are those of a deletion, and differ in the deleted only.
FriendsInv ==
  /\ Mutual(friends) /\ Mutual(friendRows)
  /\ \A u \in People \ present : friends[u] = {} /\ friendRows[u] = {}
  /\ ~scrubTorn => \A u \in People : friends[u] \subseteq present
  /\ \A u \in People : friendRows[u] = friends[u] \/ u \in UNION ToSet(unsaved)
  /\ Len(unsaved) <= 1 \/ \A u \in present : Scrubbed(u)

SocialInv == SocialTypeOK /\ PartyInv /\ FriendsInv

USE SocialAssumption

-----------------------------------------------------------------------------
(***************************************************************************)
(* Parties.                                                                *)
(***************************************************************************)
\* What the loop leaves of a party's members.
LEMMA KeptMembers ==
  ASSUME NEW q \in Seq(People), NEW u
  PROVE  /\ Kept(q, u) \in Seq(People)
         /\ ToSet(Kept(q, u)) = ToSet(q) \ {u}
         /\ \A S : (\A i, j \in DOMAIN q : q[i] = q[j] /\ q[i] \in S => i = j) =>
              \A i, j \in DOMAIN Kept(q, u) :
                Kept(q, u)[i] = Kept(q, u)[j] /\ Kept(q, u)[i] \in S => i = j
  <1> DEFINE p == Kept(q, u)
  <1>1. p \in Seq(People) /\ Sublist(p, q, u, Len(q)) BY KeptIsSublist
  <1> HIDE DEF p
  <1>2. PICK h \in [1..Len(p) -> 1..Len(q)] :
          /\ \A k \in 1..Len(p) : p[k] = q[h[k]] /\ p[k] # u
          /\ \A k, l \in 1..Len(p) : k < l => h[k] < h[l]
          /\ \A i \in 1..Len(q) : q[i] # u => \E k \in 1..Len(p) : p[k] = q[i]
    BY <1>1 DEF Sublist
  <1>3. DOMAIN p = 1..Len(p) /\ DOMAIN q = 1..Len(q) /\ Len(p) \in Nat /\ Len(q) \in Nat BY <1>1
  <1>4. ToSet(p) = ToSet(q) \ {u}
    <2>1. \A x \in ToSet(p) : x \in ToSet(q) \ {u} BY <1>2, <1>3 DEF ToSet
    <2>2. \A x \in ToSet(q) \ {u} : x \in ToSet(p) BY <1>2, <1>3 DEF ToSet
    <2> QED BY <2>1, <2>2
  <1>5. ASSUME NEW S, \A i, j \in DOMAIN q : q[i] = q[j] /\ q[i] \in S => i = j,
               NEW i \in DOMAIN p, NEW j \in DOMAIN p, p[i] = p[j], p[i] \in S
        PROVE  i = j
    <2>1. q[h[i]] = q[h[j]] /\ q[h[i]] \in S /\ h[i] \in DOMAIN q /\ h[j] \in DOMAIN q
      BY <1>2, <1>3, <1>5
    <2>2. h[i] = h[j] BY <1>5, <2>1
    <2>3. i \in 1..Len(p) /\ j \in 1..Len(p) BY <1>3
    <2>4. ~(h[i] < h[j]) /\ ~(h[j] < h[i]) BY <1>2, <1>3, <2>2, <2>3
    <2>5. ~(i < j) /\ ~(j < i) BY <1>2, <2>3, <2>4
    <2> QED BY <2>3, <2>5
  <1> QED BY <1>1, <1>4, <1>5 DEF p

LEMMA SeqToSet ==
  ASSUME NEW q \in Seq(People)
  PROVE  /\ ToSet(q) \subseteq People
         /\ \A x : x \in ToSet(q) <=> \E i \in 1..Len(q) : q[i] = x
  <1>1. DOMAIN q = 1..Len(q) OBVIOUS
  <1> QED BY <1>1 DEF ToSet

\* Somebody who has no party joins the one of another, or makes one with him.
LEMMA JoinInv ==
  ASSUME SocialTypeOK, PartyInv, NEW owner \in People, NEW invitee \in People,
         JoinGroup(owner, invitee), present' = present
  PROVE  groups' \in [People -> Party \cup {Alone}] /\ PartyInv'
  <1> DEFINE g == Led(owner)
             h == [g EXCEPT !.members = Append(@, invitee)]
             M == ToSet(g.members)
  <1>0. groups \in [People -> Party \cup {Alone}] /\ present \subseteq People BY DEF SocialTypeOK
  <1>1. CASE ~(owner # invitee /\ groups[invitee] = Alone)
    <2>1. groups' = groups BY <1>1 DEF JoinGroup
    <2> QED BY <1>0, <2>1 DEF PartyInv, Sound
  <1>2. CASE owner # invitee /\ groups[invitee] = Alone
    <2>1. /\ g \in Party /\ owner \in M /\ g.leader \in M /\ Len(g.members) >= 1
          /\ groups[owner] # Alone => g = groups[owner]
          /\ groups[owner] = Alone => M = {owner} /\ Len(g.members) = 1
      <3>1. CASE groups[owner] = Alone
        <4>1. g = [leader |-> owner, members |-> <<owner>>] BY <3>1 DEF Led
        <4>2. <<owner>> \in Seq(People) /\ Len(<<owner>>) = 1 OBVIOUS
        <4>3. ToSet(<<owner>>) = {owner}
          <5>1. DOMAIN <<owner>> = {1} /\ <<owner>>[1] = owner OBVIOUS
          <5> QED BY <5>1 DEF ToSet
        <4> QED BY <3>1, <4>1, <4>2, <4>3 DEF Party
      <3>2. CASE groups[owner] # Alone
        <4>1. g = groups[owner] /\ g \in Party BY <1>0, <3>2 DEF Led
        <4>2. Sound(g) /\ owner \in M BY <3>2, <4>1 DEF PartyInv
        <4> HIDE DEF g
        <4> QED BY <3>2, <4>1, <4>2 DEF Sound, Party
      <3> QED BY <3>1, <3>2
    <2> HIDE DEF g
    <2>2. /\ h \in Party /\ h # Alone /\ h.leader = g.leader /\ h.members = Append(g.members, invitee)
          /\ g.members \in Seq(People)
      <3>1. g.leader \in People /\ g.members \in Seq(People) BY <2>1 DEF Party
      <3>2. Append(g.members, invitee) \in Seq(People) BY <3>1
      <3>3. Alone \notin Party OBVIOUS
      <3> QED BY <2>1, <3>1, <3>2, <3>3 DEF Party
    <2>3. groups' = [Becomes(g, h) EXCEPT ![owner] = h, ![invitee] = h]
      BY <1>2 DEF JoinGroup, Joined, g
    <2> HIDE DEF h
    <2>4. /\ Len(h.members) = Len(g.members) + 1
          /\ \A i \in 1..Len(g.members) : h.members[i] = g.members[i]
          /\ h.members[Len(g.members) + 1] = invitee
          /\ Len(g.members) \in Nat
          /\ DOMAIN h.members = 1..(Len(g.members) + 1) /\ DOMAIN g.members = 1..Len(g.members)
      BY <2>2
    <2>5. ToSet(h.members) = M \cup {invitee}
      <3>1. \A x : x \in ToSet(h.members) <=> \E i \in 1..(Len(g.members) + 1) : h.members[i] = x
        BY <2>4 DEF ToSet
      <3>2. \A x : x \in M <=> \E i \in 1..Len(g.members) : g.members[i] = x BY <2>4 DEF ToSet
      <3>3. \A i \in 1..(Len(g.members) + 1) : i \in 1..Len(g.members) \/ i = Len(g.members) + 1
        BY <2>4
      <3>4. Len(g.members) + 1 \in 1..(Len(g.members) + 1) /\ 1..Len(g.members) \subseteq 1..(Len(g.members) + 1)
        BY <2>4
      <3> HIDE DEF M
      <3> QED BY <2>4, <3>1, <3>2, <3>3, <3>4
    <2> HIDE DEF M
    <2>6. \A v \in People : groups'[v] = IF v \in {owner, invitee} \/ groups[v] = g THEN h ELSE groups[v]
      BY <1>0, <2>3 DEF Becomes
    <2>7. groups' \in [People -> Party \cup {Alone}] BY <1>0, <2>2, <2>3 DEF Becomes
    <2>8. \A w \in People : groups[w] = g => groups[owner] = g
      <3> TAKE w \in People
      <3> HAVE groups[w] = g
      <3>1. groups[w] # Alone
        <4>1. Alone \notin Party OBVIOUS
        <4> QED BY <2>1, <4>1
      <3>2. Len(g.members) > 1 BY <3>1 DEF PartyInv, Sound
      <3>3. Len(g.members) # 1 BY <2>4, <3>2
      <3>4. groups[owner] # Alone BY <2>1, <3>3
      <3> QED BY <2>1, <3>4
    <2>9. \A v \in M \cap present : groups'[v] = h
      <3> TAKE v \in M \cap present
      <3>1. v \in People BY <1>0
      <3>2. CASE groups[owner] = Alone BY <2>1, <2>6, <3>1, <3>2
      <3>3. CASE groups[owner] # Alone
        <4>1. groups[v] = g BY <2>1, <3>3 DEF PartyInv, M
        <4> QED BY <2>6, <3>1, <4>1
      <3> QED BY <3>2, <3>3
    <2>10. invitee \notin M \cap present
      <3> SUFFICES ASSUME invitee \in M \cap present PROVE FALSE OBVIOUS
      <3>1. CASE groups[owner] = Alone BY <1>2, <2>1, <3>1
      <3>2. CASE groups[owner] # Alone
        <4>1. groups[invitee] = groups[owner] BY <2>1, <3>2 DEF PartyInv, M
        <4> QED BY <1>2, <3>2, <4>1
      <3> QED BY <3>1, <3>2
    <2>11. Sound(h)
      <3>1. ASSUME NEW i \in DOMAIN h.members, NEW j \in DOMAIN h.members,
                   h.members[i] = h.members[j], h.members[i] \in present
            PROVE  i = j
        <4>a. \A k \in 1..Len(g.members) : h.members[k] \in M BY <2>4 DEF M, ToSet
        <4>1. CASE i \in 1..Len(g.members) /\ j \in 1..Len(g.members)
          <5>1. g.members[i] = g.members[j] /\ g.members[i] \in present BY <2>4, <3>1, <4>1
          <5>2. CASE groups[owner] = Alone
            <6>1. Len(g.members) = 1 BY <2>1, <5>2
            <6> HIDE DEF g
            <6>2. i \in 1..1 /\ j \in 1..1 BY <4>1, <6>1
            <6> QED BY <6>2
          <5>3. CASE groups[owner] # Alone BY <2>1, <2>4, <4>1, <5>1, <5>3 DEF PartyInv, Sound
          <5> QED BY <5>2, <5>3
        <4>2. CASE i \in 1..Len(g.members) /\ j = Len(g.members) + 1 BY <2>4, <2>10, <3>1, <4>a, <4>2
        <4>3. CASE j \in 1..Len(g.members) /\ i = Len(g.members) + 1 BY <2>4, <2>10, <3>1, <4>a, <4>3
        <4>4. CASE i = Len(g.members) + 1 /\ j = Len(g.members) + 1 BY <4>4
        <4> QED BY <2>4, <4>1, <4>2, <4>3, <4>4
      <3>2. Len(h.members) > 1 /\ h.leader \in ToSet(h.members) BY <2>1, <2>2, <2>4, <2>5
      <3> QED BY <3>1, <3>2 DEF Sound
    <2>12. PartyInv'
      <3> SUFFICES ASSUME NEW u \in People, groups'[u] # Alone
                   PROVE  /\ Sound(groups'[u]) /\ u \in ToSet(groups'[u].members)
                          /\ \A v \in ToSet(groups'[u].members) \cap present : groups'[v] = groups'[u]
        BY DEF PartyInv, Sound
      <3>1. CASE u \in {owner, invitee} \/ groups[u] = g
        <4>1. groups'[u] = h BY <2>6, <3>1
        <4>2. u \in M \cup {invitee} BY <2>1, <2>8, <3>1 DEF PartyInv, M
        <4>3. \A v \in (M \cup {invitee}) \cap present : groups'[v] = h BY <2>6, <2>9
        <4> QED BY <2>5, <2>11, <4>1, <4>2, <4>3
      <3>2. CASE ~(u \in {owner, invitee} \/ groups[u] = g)
        <4>1. groups'[u] = groups[u] /\ groups[u] # Alone /\ groups[u] # g BY <2>6, <3>2
        <4>2. Sound(groups[u]) /\ u \in ToSet(groups[u].members) BY <4>1 DEF PartyInv
        <4>3. ASSUME NEW v \in ToSet(groups[u].members) \cap present PROVE groups'[v] = groups[u]
          <5>1. groups[v] = groups[u] /\ v \in People BY <1>0, <4>1 DEF PartyInv
          <5>2. v # invitee BY <1>2, <4>1, <5>1
          <5>3. v # owner BY <2>1, <4>1, <5>1
          <5> QED BY <2>6, <4>1, <5>1, <5>2, <5>3
        <4> QED BY <4>1, <4>2, <4>3
      <3> QED BY <3>1, <3>2
    <2> QED BY <2>7, <2>12
  <1> QED BY <1>1, <1>2

\* Somebody leaves his party, which goes on under its leader or the next in line,
\* or ends with its last but one.
LEMMA LeaveInv ==
  ASSUME SocialTypeOK, PartyInv, NEW u \in People, LeaveGroup(u), present' = present
  PROVE  groups' \in [People -> Party \cup {Alone}] /\ PartyInv'
  <1> DEFINE g == groups[u]
             r == Remaining(u)
             h == [leader |-> Heir(u), members |-> r]
             M == ToSet(g.members)
  <1>0. groups \in [People -> Party \cup {Alone}] /\ present \subseteq People BY DEF SocialTypeOK
  <1>1. CASE g = Alone
    <2>1. groups' = groups BY <1>1 DEF LeaveGroup
    <2> QED BY <1>0, <2>1 DEF PartyInv, Sound
  <1>2. CASE g # Alone
    <2>1. /\ g \in Party /\ Sound(g) /\ u \in M
          /\ \A v \in M \cap present : groups[v] = g
          /\ g.members \in Seq(People) /\ g.leader \in M
      BY <1>0, <1>2 DEF PartyInv, Sound, Party
    <2>2. /\ r \in Seq(People) /\ ToSet(r) = M \ {u}
          /\ \A i, j \in DOMAIN r : r[i] = r[j] /\ r[i] \in present => i = j
      <3>1. \A i, j \in DOMAIN g.members : g.members[i] = g.members[j] /\ g.members[i] \in present => i = j
        BY <2>1 DEF Sound
      <3> QED BY <2>1, <3>1, KeptMembers DEF Remaining
    <2>3. \A v \in People : groups[v] = g => v \in M BY <1>2 DEF PartyInv
    <2>4. M \subseteq People BY <2>1, SeqToSet
    <2> HIDE DEF r
    <2>5. CASE Len(r) > 1
      <3>1. groups' = [Becomes(g, h) EXCEPT ![u] = Alone] BY <1>2, <2>5 DEF LeaveGroup, Parted, r
      <3>2. Heir(u) \in M \ {u}
        <4>1. CASE g.leader = u
          <5>1. Heir(u) = r[1] BY <4>1 DEF Heir, r
          <5>2. 1 \in 1..Len(r) /\ Len(r) \in Nat BY <2>2, <2>5
          <5>3. r[1] \in ToSet(r) BY <2>2, <5>2, SeqToSet
          <5> QED BY <2>2, <5>1, <5>3
        <4>2. CASE g.leader # u BY <2>1, <4>2 DEF Heir
        <4> QED BY <4>1, <4>2
      <3>3. h \in Party /\ h # Alone /\ h.leader = Heir(u) /\ h.members = r
        <4>1. Heir(u) \in People BY <2>4, <3>2
        <4>2. Alone \notin Party OBVIOUS
        <4> QED BY <2>2, <4>1, <4>2 DEF Party
      <3> HIDE DEF h
      <3>4. Sound(h) BY <2>2, <2>5, <3>2, <3>3 DEF Sound
      <3>5. \A v \in People : groups'[v] = IF v = u THEN Alone ELSE IF groups[v] = g THEN h ELSE groups[v]
        BY <1>0, <3>1 DEF Becomes
      <3>6. groups' \in [People -> Party \cup {Alone}] BY <1>0, <3>1, <3>3 DEF Becomes
      <3> HIDE DEF g, M
      <3>7. PartyInv'
        <4> SUFFICES ASSUME NEW w \in People, groups'[w] # Alone
                     PROVE  /\ Sound(groups'[w]) /\ w \in ToSet(groups'[w].members)
                            /\ \A v \in ToSet(groups'[w].members) \cap present : groups'[v] = groups'[w]
          BY DEF PartyInv, Sound
        <4>1. w # u BY <3>5
        <4>2. CASE groups[w] = g
          <5>1. groups'[w] = h /\ w \in M \ {u} BY <2>3, <3>5, <4>1, <4>2
          <5>2. \A v \in (M \ {u}) \cap present : groups'[v] = h BY <1>0, <2>1, <3>5
          <5> QED BY <2>2, <3>3, <3>4, <5>1, <5>2
        <4>3. CASE groups[w] # g
          <5>1. groups'[w] = groups[w] /\ groups[w] # Alone BY <3>5, <4>1, <4>3
          <5>2. Sound(groups[w]) /\ w \in ToSet(groups[w].members) BY <5>1 DEF PartyInv
          <5>3. ASSUME NEW v \in ToSet(groups[w].members) \cap present PROVE groups'[v] = groups[w]
            <6>1. groups[v] = groups[w] /\ v \in People BY <1>0, <5>1 DEF PartyInv
            <6>2. v # u BY <4>3, <6>1 DEF g
            <6> QED BY <3>5, <4>3, <6>1, <6>2
          <5> QED BY <5>1, <5>2, <5>3
        <4> QED BY <4>2, <4>3
      <3> QED BY <3>6, <3>7
    <2>6. CASE ~(Len(r) > 1)
      <3>1. groups' = [v \in People |-> IF v \in M THEN Alone ELSE groups[v]]
        BY <1>2, <2>6 DEF LeaveGroup, r
      <3> HIDE DEF g, M
      <3>2. groups' \in [People -> Party \cup {Alone}] BY <1>0, <3>1
      <3>3. PartyInv'
        <4> SUFFICES ASSUME NEW w \in People, groups'[w] # Alone
                     PROVE  /\ Sound(groups'[w]) /\ w \in ToSet(groups'[w].members)
                            /\ \A v \in ToSet(groups'[w].members) \cap present : groups'[v] = groups'[w]
          BY DEF PartyInv, Sound
        <4>1. w \notin M /\ groups'[w] = groups[w] /\ groups[w] # Alone BY <3>1
        <4>2. groups[w] # g BY <2>3, <4>1
        <4>3. Sound(groups[w]) /\ w \in ToSet(groups[w].members) BY <4>1 DEF PartyInv
        <4>4. ASSUME NEW v \in ToSet(groups[w].members) \cap present PROVE groups'[v] = groups[w]
          <5>1. groups[v] = groups[w] /\ v \in People BY <1>0, <4>1 DEF PartyInv
          <5>2. v \notin M BY <2>1, <4>2, <5>1
          <5> QED BY <3>1, <5>1, <5>2
        <4> QED BY <4>1, <4>3, <4>4
      <3> QED BY <3>2, <3>3
    <2> QED BY <2>5, <2>6
  <1> QED BY <1>1, <1>2

\* The leader hands the party to another member.
LEMMA LeadInv ==
  ASSUME SocialTypeOK, PartyInv, NEW u \in People, NEW t \in People, ChangeLeader(u, t)
  PROVE  groups' \in [People -> Party \cup {Alone}] /\ PartyInv'
  <1> DEFINE g == groups[u]
             h == [g EXCEPT !.leader = t]
             M == ToSet(g.members)
  <1>0. groups \in [People -> Party \cup {Alone}] /\ present \subseteq People BY DEF SocialTypeOK
  <1>1. /\ g # Alone /\ t \in M /\ present' = present /\ groups' = Becomes(g, h)
    BY DEF ChangeLeader, Leads
  <1>2. /\ g \in Party /\ Sound(g) /\ \A v \in M \cap present : groups[v] = g
    BY <1>0, <1>1 DEF PartyInv
  <1>3. h \in Party /\ h # Alone /\ h.leader = t /\ h.members = g.members
    <2>1. Alone \notin Party OBVIOUS
    <2> QED BY <1>2, <2>1 DEF Party
  <1>4. \A v \in People : groups[v] = g => v \in M BY <1>1 DEF PartyInv
  <1> HIDE DEF h
  <1>5. Sound(h) BY <1>1, <1>2, <1>3 DEF Sound
  <1>6. \A v \in People : groups'[v] = IF groups[v] = g THEN h ELSE groups[v] BY <1>0, <1>1 DEF Becomes
  <1>7. groups' \in [People -> Party \cup {Alone}] BY <1>0, <1>1, <1>3 DEF Becomes
  <1>8. ToSet(h.members) = M BY <1>3
  <1> HIDE DEF g, M
  <1>9. PartyInv'
    <2> SUFFICES ASSUME NEW w \in People, groups'[w] # Alone
                 PROVE  /\ Sound(groups'[w]) /\ w \in ToSet(groups'[w].members)
                        /\ \A v \in ToSet(groups'[w].members) \cap present : groups'[v] = groups'[w]
      BY <1>1 DEF PartyInv, Sound
    <2>1. CASE groups[w] = g
      <3>1. groups'[w] = h /\ w \in M BY <1>4, <1>6, <2>1
      <3>2. \A v \in M \cap present : groups'[v] = h BY <1>0, <1>2, <1>6
      <3> QED BY <1>5, <1>8, <3>1, <3>2
    <2>2. CASE groups[w] # g
      <3>1. groups'[w] = groups[w] /\ groups[w] # Alone BY <1>6, <2>2
      <3>2. Sound(groups[w]) /\ w \in ToSet(groups[w].members) BY <3>1 DEF PartyInv
      <3>3. ASSUME NEW v \in ToSet(groups[w].members) \cap present PROVE groups'[v] = groups[w]
        <4>1. groups[v] = groups[w] /\ v \in People BY <1>0, <3>1 DEF PartyInv
        <4> QED BY <1>6, <2>2, <4>1
      <3> QED BY <3>1, <3>2, <3>3
    <2> QED BY <2>1, <2>2
  <1> QED BY <1>7, <1>9

\* A request about parties.
LEMMA PartyRequestInv ==
  ASSUME SocialTypeOK, PartyInv, NEW u \in People, PartyRequest(u)
  PROVE  /\ SocialTypeOK' /\ PartyInv' /\ present' = present
         /\ UNCHANGED friendVars
  <1> DEFINE Fits == groups' \in [People -> Party \cup {Alone}] /\ PartyInv'
  <1>0. /\ groups \in [People -> Party \cup {Alone}] /\ present \subseteq People
        /\ late \subseteq People \ present /\ invited \subseteq People \X People
        /\ asking \subseteq People \X People
        /\ kick \in [People -> [pc : {"check", "leave"}, target : People] \cup {NoKick}]
    BY DEF SocialTypeOK
  <1>1. groups' = groups /\ present' = present => Fits BY <1>0 DEF PartyInv, Sound
  <1>2. ASSUME present' = present, UNCHANGED friendVars, Fits,
               late' \subseteq late, invited' \subseteq People \X People, asking' \subseteq People \X People,
               kick' \in [People -> [pc : {"check", "leave"}, target : People] \cup {NoKick}]
        PROVE  SocialTypeOK' /\ PartyInv' /\ present' = present /\ UNCHANGED friendVars
    BY <1>2 DEF SocialTypeOK, friendVars
  <1> HIDE DEF Fits
  <1>3. ASSUME NEW t \in People, Invite(u, t)
        PROVE  SocialTypeOK' /\ PartyInv' /\ present' = present /\ UNCHANGED friendVars
    <2>1. /\ UNCHANGED <<present, groups, asking, kick, friendVars>> /\ late' \subseteq late
          /\ invited' \subseteq People \X People
      BY <1>0, <1>3 DEF Invite, Served
    <2> QED BY <1>0, <1>1, <1>2, <2>1
  <1>4. ASSUME NEW t \in People, JoinRequest(u, t)
        PROVE  SocialTypeOK' /\ PartyInv' /\ present' = present /\ UNCHANGED friendVars
    <2>1. /\ UNCHANGED <<present, groups, invited, kick, friendVars>> /\ late' \subseteq late
          /\ groups[t] # Alone /\ asking' = asking \cup {<<u, groups[t].leader>>}
      BY <1>4 DEF JoinRequest, Served
    <2>2. groups[t].leader \in People BY <1>0, <2>1 DEF Party
    <2> QED BY <1>0, <1>1, <1>2, <2>1, <2>2
  <1>5. ASSUME NEW t \in People, KickSent(u, t)
        PROVE  SocialTypeOK' /\ PartyInv' /\ present' = present /\ UNCHANGED friendVars
    <2>1. /\ UNCHANGED <<present, late, groups, invited, asking, friendVars>>
          /\ kick' = [kick EXCEPT ![u] = [pc |-> "check", target |-> t]]
      BY <1>5 DEF KickSent
    <2>2. kick' \in [People -> [pc : {"check", "leave"}, target : People] \cup {NoKick}] BY <1>0, <2>1
    <2> QED BY <1>0, <1>1, <1>2, <2>1, <2>2
  <1>6. ASSUME NEW t \in People, ChangeLeader(u, t)
        PROVE  SocialTypeOK' /\ PartyInv' /\ present' = present /\ UNCHANGED friendVars
    <2>1. UNCHANGED <<present, invited, asking, kick, friendVars>> /\ late' \subseteq late
      BY <1>6 DEF ChangeLeader, Served
    <2>2. Fits BY <1>6, LeadInv DEF Fits
    <2> QED BY <1>0, <1>2, <2>1, <2>2
  <1>7. ASSUME NEW t \in People, NEW yes \in BOOLEAN, InviteAnswer(u, t, yes)
        PROVE  SocialTypeOK' /\ PartyInv' /\ present' = present /\ UNCHANGED friendVars
    <2>1. /\ UNCHANGED <<present, asking, kick, friendVars>> /\ late' \subseteq late
          /\ invited' \subseteq People \X People
          /\ JoinGroup(t, u) \/ groups' = groups
      BY <1>0, <1>7 DEF InviteAnswer, Served
    <2>2. Fits BY <1>1, <2>1, JoinInv DEF Fits
    <2> QED BY <1>0, <1>2, <2>1, <2>2
  <1>8. ASSUME NEW t \in People, NEW yes \in BOOLEAN, JoinAnswer(u, t, yes)
        PROVE  SocialTypeOK' /\ PartyInv' /\ present' = present /\ UNCHANGED friendVars
    <2>1. /\ UNCHANGED <<present, invited, kick, friendVars>> /\ late' \subseteq late
          /\ asking' \subseteq People \X People
          /\ JoinGroup(u, t) \/ groups' = groups
      BY <1>0, <1>8 DEF JoinAnswer, Served
    <2>2. Fits BY <1>1, <2>1, JoinInv DEF Fits
    <2> QED BY <1>0, <1>2, <2>1, <2>2
  <1>9. CASE Leave(u)
    <2>1. UNCHANGED <<present, invited, asking, kick, friendVars>> /\ late' \subseteq late /\ LeaveGroup(u)
      BY <1>9 DEF Leave, Served
    <2>2. Fits BY <2>1, LeaveInv DEF Fits
    <2> QED BY <1>0, <1>2, <2>1, <2>2
  <1>10. CASE KickCheck(u)
    <2>1. /\ UNCHANGED <<present, late, groups, invited, asking, friendVars>> /\ kick[u].pc = "check"
          /\ kick' = [kick EXCEPT ![u] = IF Leads(u) THEN [kick[u] EXCEPT !.pc = "leave"] ELSE NoKick]
      BY <1>10 DEF KickCheck
    <2>2. kick' \in [People -> [pc : {"check", "leave"}, target : People] \cup {NoKick}]
      <3>1. kick[u] \in [pc : {"check", "leave"}, target : People] BY <1>0, <2>1 DEF NoKick
      <3>2. [kick[u] EXCEPT !.pc = "leave"] \in [pc : {"check", "leave"}, target : People] BY <3>1
      <3> QED BY <1>0, <2>1, <3>2
    <2> QED BY <1>0, <1>1, <1>2, <2>1, <2>2
  <1>11. CASE KickLeave(u)
    <2>1. /\ UNCHANGED <<present, late, invited, asking, friendVars>> /\ kick[u].pc = "leave"
          /\ LeaveGroup(kick[u].target) /\ kick' = [kick EXCEPT ![u] = NoKick]
      BY <1>11 DEF KickLeave
    <2>2. kick[u].target \in People BY <1>0, <2>1 DEF NoKick
    <2>3. kick' \in [People -> [pc : {"check", "leave"}, target : People] \cup {NoKick}] BY <1>0, <2>1
    <2>4. Fits BY <2>1, <2>2, LeaveInv DEF Fits
    <2> QED BY <1>0, <1>2, <2>1, <2>3, <2>4
  <1> QED BY <1>3, <1>4, <1>5, <1>6, <1>7, <1>8, <1>9, <1>10, <1>11 DEF PartyRequest

-----------------------------------------------------------------------------
(***************************************************************************)
(* Friendships.                                                            *)
(***************************************************************************)
LEMMA PairSaved ==
  ASSUME NEW u \in People, NEW t \in People
  PROVE  /\ SavedPair(u, t) \in Seq(SUBSET People)
         /\ Len(SavedPair(u, t)) = 1
         /\ UNION ToSet(SavedPair(u, t)) = {u, t}
  <1>1. SavedPair(u, t) = <<{u, t}>> BY DEF SavedPair, InOneGo
  <1>2. DOMAIN <<{u, t}>> = {1} /\ <<{u, t}>>[1] = {u, t} OBVIOUS
  <1>3. ToSet(<<{u, t}>>) = {{u, t}} BY <1>2 DEF ToSet
  <1>4. <<{u, t}>> \in Seq(SUBSET People) /\ Len(<<{u, t}>>) = 1 OBVIOUS
  <1> QED BY <1>1, <1>3, <1>4

\* Nothing of a friendship has changed.
LEMMA FriendsStay ==
  ASSUME FriendsInv, present' = present, UNCHANGED friendVars
  PROVE  FriendsInv'
  BY DEF FriendsInv, Mutual, Scrubbed, friendVars

\* With nothing left to be saved the tables are what the memory holds.
LEMMA AllSaved ==
  ASSUME SocialTypeOK, FriendsInv, unsaved = <<>>
  PROVE  friendRows = friends
  <1>1. ToSet(unsaved) = {} BY DEF ToSet
  <1>2. UNION ToSet(unsaved) = {} BY <1>1
  <1>3. \A u \in People : friendRows[u] = friends[u] BY <1>2 DEF FriendsInv
  <1> QED BY <1>3 DEF SocialTypeOK

\* A pair of lists changes in memory, and one transaction is to save it.
LEMMA PairInv ==
  ASSUME SocialTypeOK, FriendsInv, unsaved = <<>>,
         NEW u \in People, NEW t \in People, NEW lists \in [People -> SUBSET People],
         friends' = lists, unsaved' = SavedPair(u, t), present' = present,
         UNCHANGED <<friendRows, scrubTorn>>,
         Mutual(lists),
         \A v \in People \ {u, t} : lists[v] = friends[v],
         \A v \in People \ present : lists[v] = {},
         \A v \in People : lists[v] \subseteq friends[v] \cup present
  PROVE  FriendsInv' /\ friends' \in [People -> SUBSET People] /\ unsaved' \in Seq(SUBSET People)
  <1>1. friendRows = friends BY AllSaved
  <1>2. /\ unsaved' \in Seq(SUBSET People) /\ Len(unsaved') = 1
        /\ UNION ToSet(unsaved') = {u, t}
    BY PairSaved
  <1>3. Mutual(friends)' /\ Mutual(friendRows)' BY DEF Mutual, FriendsInv
  <1>4. \A v \in People \ present' : friends'[v] = {} /\ friendRows'[v] = {} BY DEF FriendsInv
  <1>5. scrubTorn' \/ \A v \in People : friends'[v] \subseteq present' BY DEF FriendsInv
  <1>6. \A v \in People : friendRows'[v] = friends'[v] \/ v \in UNION ToSet(unsaved')
    BY <1>1, <1>2
  <1>7. (Len(unsaved) <= 1)' BY <1>2
  <1> QED BY <1>2, <1>3, <1>4, <1>5, <1>6, <1>7 DEF FriendsInv

LEMMA BefriendedPair ==
  ASSUME SocialTypeOK, FriendsInv, NEW u \in present, NEW t \in present
  PROVE  /\ Befriended(u, t) \in [People -> SUBSET People]
         /\ Mutual(Befriended(u, t))
         /\ \A v \in People \ {u, t} : Befriended(u, t)[v] = friends[v]
         /\ \A v \in People \ present : Befriended(u, t)[v] = {}
         /\ \A v \in People : Befriended(u, t)[v] \subseteq friends[v] \cup present
  <1> DEFINE b == Befriended(u, t)
  <1>1. friends \in [People -> SUBSET People] /\ present \subseteq People BY DEF SocialTypeOK
  <1>2. b \in [People -> SUBSET People] BY <1>1 DEF Befriended
  <1>3. \A v \in People : b[v] = friends[v] \cup (IF v = u THEN {t} ELSE {})
                                            \cup (IF v = t THEN {u} ELSE {})
    BY <1>1 DEF Befriended
  <1> HIDE DEF b
  <1>4. Mutual(b)
    <2> SUFFICES ASSUME NEW x \in present, NEW y \in present, y \in b[x] PROVE x \in b[y] BY DEF Mutual
    <2>1. x \in People /\ y \in People BY <1>1
    <2>2. CASE y \in friends[x]
      <3>1. x \in friends[y] BY <2>2 DEF FriendsInv, Mutual
      <3> QED BY <1>3, <2>1, <3>1
    <2>3. CASE x = u /\ y = t BY <1>3, <2>1, <2>3
    <2>4. CASE x = t /\ y = u BY <1>3, <2>1, <2>4
    <2>5. y \in friends[x] \/ (x = u /\ y = t) \/ (x = t /\ y = u) BY <1>3, <2>1
    <2> QED BY <2>2, <2>3, <2>4, <2>5
  <1>5. \A v \in People \ {u, t} : b[v] = friends[v] BY <1>3
  <1>6. \A v \in People \ present : b[v] = {} BY <1>5 DEF FriendsInv
  <1>7. \A v \in People : b[v] \subseteq friends[v] \cup present BY <1>3
  <1> QED BY <1>2, <1>4, <1>5, <1>6, <1>7 DEF b

\* What each request about a friendship keeps.
LEMMA FriendRequestInv ==
  ASSUME SocialInv, NEW u \in People, FriendRequest(u)
  PROVE  SocialInv'
  <1> DEFINE Kinds == /\ asking' \cup invited' \cup friendReqs' \cup courting' \subseteq People \X People
                      /\ late' \subseteq late /\ UNCHANGED <<present, groups, kick, scrubTorn, friendRows>>
  <1>0. SocialTypeOK /\ PartyInv /\ FriendsInv BY DEF SocialInv
  <1>1. /\ invited \cup asking \cup friendReqs \cup courting \subseteq People \X People
        /\ friends \in [People -> SUBSET People] /\ present \subseteq People
    BY <1>0 DEF SocialTypeOK
  <1>2. ASSUME Kinds, FriendsInv', friends' \in [People -> SUBSET People],
               unsaved' \in Seq(SUBSET People)
        PROVE  SocialInv'
    <2>1. SocialTypeOK' BY <1>0, <1>2 DEF SocialTypeOK
    <2>2. PartyInv' BY <1>0, <1>2 DEF PartyInv, Sound
    <2> QED BY <1>2, <2>1, <2>2 DEF SocialInv
  <1>3. ASSUME NEW t \in People, Kinds, unsaved = <<>>, {u, t} \subseteq present,
               friends' = Befriended(u, t), unsaved' = SavedPair(u, t)
        PROVE  SocialInv'
    <2>1. FriendsInv' /\ friends' \in [People -> SUBSET People] /\ unsaved' \in Seq(SUBSET People)
      BY <1>0, <1>3, BefriendedPair, PairInv
    <2> QED BY <1>2, <1>3, <2>1
  <1>4. ASSUME Kinds, friends' = friends, unsaved' = unsaved
        PROVE  SocialInv'
    <2>1. FriendsInv' BY <1>0, <1>4 DEF FriendsInv, Mutual, Scrubbed
    <2>2. friends' \in [People -> SUBSET People] /\ unsaved' \in Seq(SUBSET People)
      BY <1>0, <1>4 DEF SocialTypeOK
    <2> QED BY <1>2, <1>4, <2>1, <2>2
  <1>5. ASSUME NEW t \in People, AddFriend(u, t) PROVE SocialInv'
    <2>1. Kinds /\ unsaved = <<>> /\ {u, t} \subseteq present
      BY <1>1, <1>5 DEF AddFriend, Acts, Served, Unasked
    <2>2. \/ friends' = Befriended(u, t) /\ unsaved' = SavedPair(u, t)
          \/ friends' = friends /\ unsaved' = unsaved
      BY <1>5 DEF AddFriend
    <2> HIDE DEF Kinds
    <2> QED BY <1>3, <1>4, <2>1, <2>2
  <1>6. ASSUME NEW t \in People, NEW yes \in BOOLEAN, FriendAnswer(u, t, yes) PROVE SocialInv'
    <2>1. Kinds /\ unsaved = <<>>
      BY <1>1, <1>6 DEF FriendAnswer, Acts, Served, Unasked
    <2>2. \/ friends' = Befriended(u, t) /\ unsaved' = SavedPair(u, t) /\ {u, t} \subseteq present
          \/ friends' = friends /\ unsaved' = unsaved
      BY <1>6 DEF FriendAnswer
    <2> HIDE DEF Kinds
    <2> QED BY <1>3, <1>4, <2>1, <2>2
  <1>7. ASSUME NEW t \in People, RemoveFriend(u, t) PROVE SocialInv'
    <2> DEFINE l == [friends EXCEPT ![u] = IF u \in present THEN @ \ {t} ELSE @,
                                    ![t] = IF t \in present THEN @ \ {u} ELSE @]
    <2>1. Kinds /\ unsaved = <<>> /\ t \in friends[u] /\ friends' = l /\ unsaved' = SavedPair(u, t)
      BY <1>1, <1>7 DEF RemoveFriend, Acts, Served
    <2>2. l \in [People -> SUBSET People] BY <1>1
    <2>3. u \in present BY <1>0, <2>1 DEF FriendsInv
    <2>4. \A v \in People : l[v] = friends[v] \ ((IF v = u THEN {t} ELSE {})
                                             \cup (IF v = t /\ t \in present THEN {u} ELSE {}))
      <3> TAKE v \in People
      <3>1. CASE v = u /\ v = t BY <1>1, <2>3, <3>1
      <3>2. CASE v = u /\ v # t BY <1>1, <2>3, <3>2
      <3>3. CASE v # u /\ v = t BY <1>1, <2>3, <3>3
      <3>4. CASE v # u /\ v # t BY <1>1, <2>3, <3>4
      <3> QED BY <3>1, <3>2, <3>3, <3>4
    <2> HIDE DEF l
    <2>5. Mutual(l)
      <3> SUFFICES ASSUME NEW x \in present, NEW y \in present, y \in l[x] PROVE x \in l[y] BY DEF Mutual
      <3>1. x \in People /\ y \in People BY <1>1
      <3>2. y \in friends[x] /\ x \in friends[y] BY <1>0, <2>4, <3>1 DEF FriendsInv, Mutual
      <3>3. ~(x = u /\ y = t) BY <2>4, <3>1
      <3>4. ~(x = t /\ y = u) BY <2>4, <3>1
      <3> QED BY <2>4, <3>1, <3>2, <3>3, <3>4
    <2>6. /\ \A v \in People \ {u, t} : l[v] = friends[v]
          /\ \A v \in People : l[v] \subseteq friends[v] \cup present
      BY <2>4
    <2>7. \A v \in People \ present : l[v] = {} BY <1>0, <2>4 DEF FriendsInv
    <2>8. FriendsInv' /\ friends' \in [People -> SUBSET People] /\ unsaved' \in Seq(SUBSET People)
      BY <1>0, <2>1, <2>2, <2>5, <2>6, <2>7, PairInv
    <2> QED BY <1>2, <2>1, <2>8
  <1> QED BY <1>5, <1>6, <1>7 DEF FriendRequest

\* One transaction is committed.
LEMMA SaveFriendsInv ==
  ASSUME SocialInv, SaveFriends
  PROVE  SocialInv'
  <1>0. SocialTypeOK /\ PartyInv /\ FriendsInv BY DEF SocialInv
  <1>1. /\ friends \in [People -> SUBSET People] /\ friendRows \in [People -> SUBSET People]
        /\ present \subseteq People /\ unsaved \in Seq(SUBSET People)
    BY <1>0 DEF SocialTypeOK
  <1>2. /\ unsaved # <<>> /\ unsaved' = Tail(unsaved)
        /\ friendRows' = [v \in People |-> IF v \in Head(unsaved) \cap present THEN friends[v]
                                                                            ELSE friendRows[v]]
        /\ UNCHANGED <<partyVars, friends, friendReqs, courting, scrubTorn>>
    BY DEF SaveFriends
  <1>3. present' = present /\ groups' = groups BY <1>2 DEF partyVars
  <1>4. \A v \in People : friendRows'[v] = IF v \in Head(unsaved) \cap present THEN friends[v] ELSE friendRows[v]
    BY <1>2
  <1>5. unsaved' \in Seq(SUBSET People) /\ friendRows' \in [People -> SUBSET People] BY <1>1, <1>2
  <1>6. SocialTypeOK'
    BY <1>0, <1>2, <1>5 DEF SocialTypeOK, partyVars
  <1>7. PartyInv' BY <1>0, <1>3 DEF PartyInv, Sound
  <1>8. \A x \in ToSet(unsaved) : x = Head(unsaved) \/ x \in ToSet(Tail(unsaved))
    <2> TAKE x \in ToSet(unsaved)
    <2>1. PICK i \in 1..Len(unsaved) : unsaved[i] = x BY <1>1 DEF ToSet
    <2>2. CASE i = 1 BY <2>1, <2>2, <1>1
    <2>3. CASE i # 1
      <3>1. i - 1 \in DOMAIN Tail(unsaved) /\ Tail(unsaved)[i - 1] = unsaved[i] BY <1>1, <1>2, <2>1, <2>3
      <3> QED BY <2>1, <3>1 DEF ToSet
    <2> QED BY <2>2, <2>3
  <1>9. \A v \in People \ present : friends[v] = {} /\ friendRows[v] = {} BY <1>0 DEF FriendsInv
  <1>10. \A v \in People : friendRows'[v] = friends'[v] \/ v \in UNION ToSet(unsaved')
    <2> TAKE v \in People
    <2>1. CASE v \in Head(unsaved) /\ v \in present BY <1>2, <1>4, <2>1
    <2>2. CASE v \notin present BY <1>2, <1>4, <1>9, <2>2
    <2>3. CASE v \notin Head(unsaved)
      <3>1. friendRows'[v] = friendRows[v] BY <1>4, <2>3
      <3>2. CASE friendRows[v] = friends[v] BY <1>2, <3>1, <3>2
      <3>3. CASE v \in UNION ToSet(unsaved)
        <4>1. PICK x \in ToSet(unsaved) : v \in x BY <3>3
        <4>2. x \in ToSet(Tail(unsaved)) BY <1>8, <2>3, <4>1
        <4> QED BY <1>2, <4>1, <4>2
      <3> QED BY <1>0, <3>2, <3>3 DEF FriendsInv
    <2> QED BY <2>1, <2>2, <2>3
  <1>11. \A v \in People \ present' : friends'[v] = {} /\ friendRows'[v] = {}
    BY <1>2, <1>3, <1>4, <1>9
  <1>12. Mutual(friends)' BY <1>0, <1>2, <1>3 DEF FriendsInv, Mutual
  <1>13. scrubTorn' \/ \A v \in People : friends'[v] \subseteq present'
    BY <1>0, <1>2, <1>3 DEF FriendsInv
  <1>14. CASE \A v \in present : Scrubbed(v)
    <2>1. \A v \in present : friendRows'[v] \cap present = friends[v] \cap present
      BY <1>1, <1>4, <1>14 DEF Scrubbed
    <2>2. Mutual(friendRows)'
      <3> SUFFICES ASSUME NEW x \in present, NEW y \in present, y \in friendRows'[x]
                   PROVE  x \in friendRows'[y]
        BY <1>3 DEF Mutual
      <3>1. y \in friends[x] BY <2>1
      <3>2. x \in friends[y] BY <1>0, <3>1 DEF FriendsInv, Mutual
      <3> QED BY <2>1, <3>2
    <2>3. \A v \in present' : Scrubbed(v)' BY <1>2, <1>3, <2>1 DEF Scrubbed
    <2>4. FriendsInv' BY <1>10, <1>11, <1>12, <1>13, <2>2, <2>3 DEF FriendsInv
    <2> QED BY <1>6, <1>7, <2>4 DEF SocialInv
  <1>15. CASE Len(unsaved) <= 1
    <2>0. Len(unsaved) \in Nat /\ Len(unsaved) # 0 BY <1>1, <1>2
    <2>1. Len(unsaved') = 0
      <3>1. Len(Tail(unsaved)) = Len(unsaved) - 1 BY <1>1, <1>2
      <3> QED BY <1>2, <1>15, <2>0, <3>1
    <2>2. unsaved' = <<>> BY <1>5, <2>1
    <2>3. UNION ToSet(unsaved') = {} BY <2>2 DEF ToSet
    <2>4. \A v \in People : friendRows'[v] = friends'[v] BY <1>10, <2>3
    <2>5. Mutual(friendRows)' BY <1>1, <1>3, <1>12, <2>4 DEF Mutual
    <2>6. (Len(unsaved) <= 1)' BY <2>1
    <2>7. FriendsInv' BY <1>10, <1>11, <1>12, <1>13, <2>5, <2>6 DEF FriendsInv
    <2> QED BY <1>6, <1>7, <2>7 DEF SocialInv
  <1> QED BY <1>0, <1>14, <1>15 DEF FriendsInv

\* An account is deleted: it is in no list any more, and one transaction for each
\* list that named it is to come.
LEMMA DeletePersonInv ==
  ASSUME SocialInv, NEW u \in People, DeletePerson(u)
  PROVE  SocialInv'
  <1> DEFINE listing == {v \in present \ {u} : u \in friends[v]}
  <1>0. SocialTypeOK /\ PartyInv /\ FriendsInv BY DEF SocialInv
  <1>1. /\ friends \in [People -> SUBSET People] /\ friendRows \in [People -> SUBSET People]
        /\ present \subseteq People /\ groups \in [People -> Party \cup {Alone}]
    BY <1>0 DEF SocialTypeOK
  <1>2. /\ unsaved = <<>> /\ u \in present /\ present' = present \ {u} /\ late' = late \cup {u}
        /\ groups' = [groups EXCEPT ![u] = Alone]
        /\ friends' = [v \in People |-> IF v = u THEN {} ELSE friends[v] \ {u}]
        /\ friendReqs' \subseteq friendReqs
        /\ friendRows' = [friendRows EXCEPT ![u] = {}]
        /\ UNCHANGED <<invited, asking, kick, courting, scrubTorn>>
    BY DEF DeletePerson
  <1>3. PICK order \in [1..Cardinality(listing) -> listing] :
          ToSet(order) = listing /\ unsaved' = [i \in DOMAIN order |-> {order[i]}]
    BY DEF DeletePerson
  <1>4. friendRows = friends BY <1>0, <1>2, AllSaved
  <1>5. /\ friends' \in [People -> SUBSET People] /\ friendRows' \in [People -> SUBSET People]
        /\ \A v \in People : /\ friends'[v] = IF v = u THEN {} ELSE friends[v] \ {u}
                             /\ friendRows'[v] = IF v = u THEN {} ELSE friends[v]
    BY <1>1, <1>2, <1>4
  <1>6. listing \subseteq People /\ Cardinality(listing) \in Nat
    <2>1. listing \subseteq People BY <1>1
    <2>2. IsFiniteSet(listing) BY <2>1, FS_Subset
    <2> QED BY <2>1, <2>2, FS_CardinalityType
  <1> HIDE DEF listing
  <1>7. unsaved' \in Seq(SUBSET People)
    <2> DEFINE n == Cardinality(listing)
    <2>1. DOMAIN order = 1..n BY <1>3
    <2>2. unsaved' \in [1..n -> SUBSET People] BY <1>3, <1>6, <2>1
    <2>3. n \in Nat BY <1>6
    <2> HIDE DEF n
    <2> QED BY <2>2, <2>3, SeqDef
  <1>8. SocialTypeOK'
    <2>1. present' \subseteq People /\ late' \subseteq People \ present' BY <1>0, <1>2 DEF SocialTypeOK
    <2>2. groups' \in [People -> Party \cup {Alone}] BY <1>1, <1>2
    <2>3. (invited \cup asking \cup friendReqs \cup courting)' \subseteq People \X People
      BY <1>0, <1>2 DEF SocialTypeOK
    <2>4. kick' \in [People -> [pc : {"check", "leave"}, target : People] \cup {NoKick}] /\ scrubTorn' \in BOOLEAN
      BY <1>0, <1>2 DEF SocialTypeOK, NoKick
    <2>5. NoKick' = NoKick BY DEF NoKick
    <2> QED BY <1>5, <1>7, <2>1, <2>2, <2>3, <2>4, <2>5 DEF SocialTypeOK
  <1>9. PartyInv'
    <2> SUFFICES ASSUME NEW w \in People, groups'[w] # Alone
                 PROVE  /\ Sound(groups[w])' /\ w \in ToSet(groups'[w].members)
                        /\ \A v \in ToSet(groups'[w].members) \cap present' : groups'[v] = groups'[w]
      BY DEF PartyInv, Sound
    <2>1. w # u /\ groups'[w] = groups[w] BY <1>1, <1>2
    <2>2. /\ Sound(groups[w]) /\ w \in ToSet(groups[w].members)
          /\ \A v \in ToSet(groups[w].members) \cap present : groups[v] = groups[w]
      BY <1>0, <2>1 DEF PartyInv
    <2>3. Sound(groups[w])' BY <1>2, <2>1, <2>2 DEF Sound
    <2>4. \A v \in present' : v # u /\ v \in present /\ groups'[v] = groups[v] BY <1>1, <1>2
    <2> QED BY <2>1, <2>2, <2>3, <2>4
  <1>10. FriendsInv'
    <2>1. \A v \in present' : v \in present /\ v # u /\ v \in People BY <1>1, <1>2
    <2>2. \A x, y \in present : y \in friends[x] => x \in friends[y] BY <1>0 DEF FriendsInv, Mutual
    <2>3. Mutual(friends)' BY <1>5, <2>1, <2>2 DEF Mutual
    <2>4. Mutual(friendRows)' BY <1>5, <2>1, <2>2 DEF Mutual
    <2>5. \A v \in People \ present' : friends'[v] = {} /\ friendRows'[v] = {}
      BY <1>0, <1>2, <1>5 DEF FriendsInv
    <2>6. scrubTorn' \/ \A v \in People : friends'[v] \subseteq present'
      BY <1>0, <1>2, <1>5 DEF FriendsInv
    <2>7. \A v \in People : friendRows'[v] = friends'[v] \/ v \in UNION ToSet(unsaved')
      <3> TAKE v \in People
      <3>1. CASE v = u \/ u \notin friends[v]
        <4>1. u \notin friends[v] => friends[v] \ {u} = friends[v] OBVIOUS
        <4> QED BY <1>5, <3>1, <4>1
      <3>2. CASE v # u /\ u \in friends[v]
        <4>1. v \in listing BY <1>0, <3>2 DEF FriendsInv, listing
        <4>2. PICK i \in DOMAIN order : order[i] = v BY <1>3, <4>1 DEF ToSet
        <4>3. unsaved'[i] = {v} /\ i \in DOMAIN unsaved' BY <1>3, <4>2
        <4>4. {v} \in ToSet(unsaved') BY <4>3 DEF ToSet
        <4> QED BY <4>4
      <3> QED BY <3>1, <3>2
    <2>8. \A v \in present' : Scrubbed(v)' BY <1>2, <1>5, <2>1 DEF Scrubbed
    <2> QED BY <2>3, <2>4, <2>5, <2>6, <2>7, <2>8 DEF FriendsInv
  <1> QED BY <1>8, <1>9, <1>10 DEF SocialInv

\* The process ends and starts again from the tables.
LEMMA RestartStoreInv ==
  ASSUME SocialInv, RestartStore
  PROVE  SocialInv'
  <1>0. SocialTypeOK /\ PartyInv /\ FriendsInv BY DEF SocialInv
  <1>1. /\ groups' = [v \in People |-> Alone] /\ late' = {} /\ kick' = [v \in People |-> NoKick]
        /\ friends' = friendRows /\ friendReqs' = {} /\ unsaved' = <<>>
        /\ scrubTorn' = (scrubTorn \/ unsaved # <<>>)
        /\ UNCHANGED <<present, invited, asking, courting, friendRows>>
    BY DEF RestartStore
  <1>2. SocialTypeOK'
    <2>1. NoKick' = NoKick BY DEF NoKick
    <2>2. <<>> \in Seq(SUBSET People) OBVIOUS
    <2>3. scrubTorn' \in BOOLEAN BY <1>0, <1>1 DEF SocialTypeOK
    <2>4. groups' \in [People -> Party \cup {Alone}]
          /\ kick' \in [People -> [pc : {"check", "leave"}, target : People] \cup {NoKick}]
      BY <1>1
    <2> QED BY <1>0, <1>1, <2>1, <2>2, <2>3, <2>4 DEF SocialTypeOK
  <1>3. PartyInv' BY <1>1 DEF PartyInv
  <1>4. FriendsInv'
    <2>1. Mutual(friends)' /\ Mutual(friendRows)' BY <1>0, <1>1 DEF FriendsInv, Mutual
    <2>2. \A v \in People \ present' : friends'[v] = {} /\ friendRows'[v] = {}
      BY <1>0, <1>1 DEF FriendsInv
    <2>3. scrubTorn' \/ \A v \in People : friends'[v] \subseteq present'
      <3>1. CASE unsaved = <<>>
        <4>1. friendRows = friends BY <1>0, <3>1, AllSaved
        <4> QED BY <1>0, <1>1, <4>1 DEF FriendsInv
      <3>2. CASE unsaved # <<>> BY <1>1, <3>2
      <3> QED BY <3>1, <3>2
    <2>4. \A v \in People : friendRows'[v] = friends'[v] BY <1>1
    <2>5. (Len(unsaved) <= 1)' BY <1>1
    <2> QED BY <2>1, <2>2, <2>3, <2>4, <2>5 DEF FriendsInv
  <1> QED BY <1>2, <1>3, <1>4 DEF SocialInv

LEMMA SocialInitInv ==
  ASSUME SocialInit
  PROVE  SocialInv
  <1>1. /\ present = People /\ late = {} /\ groups = [u \in People |-> Alone]
        /\ invited = {} /\ asking = {} /\ kick = [u \in People |-> NoKick]
        /\ friends = [u \in People |-> {}] /\ friendRows = friends
        /\ friendReqs = {} /\ courting = {} /\ unsaved = <<>> /\ scrubTorn = FALSE
    BY DEF SocialInit
  <1>2. SocialTypeOK
    <2>1. <<>> \in Seq(SUBSET People) OBVIOUS
    <2> QED BY <1>1, <2>1 DEF SocialTypeOK
  <1>3. PartyInv BY <1>1 DEF PartyInv
  <1>4. FriendsInv
    <2>1. Len(<<>>) <= 1 OBVIOUS
    <2> QED BY <1>1, <2>1 DEF FriendsInv, Mutual
  <1> QED BY <1>2, <1>3, <1>4 DEF SocialInv

LEMMA SocialNextInv ==
  ASSUME SocialInv, [SocialNext]_<<partyVars, friendVars>>
  PROVE  SocialInv'
  <1>0. SocialTypeOK /\ PartyInv /\ FriendsInv BY DEF SocialInv
  <1>1. ASSUME NEW u \in People, PartyRequest(u) PROVE SocialInv'
    <2>1. SocialTypeOK' /\ PartyInv' /\ present' = present /\ UNCHANGED friendVars
      BY <1>0, <1>1, PartyRequestInv
    <2>2. FriendsInv' BY <1>0, <2>1, FriendsStay
    <2> QED BY <2>1, <2>2 DEF SocialInv
  <1>2. ASSUME NEW u \in People, FriendRequest(u) PROVE SocialInv' BY <1>2, FriendRequestInv
  <1>3. ASSUME NEW u \in People, DeletePerson(u) PROVE SocialInv' BY <1>3, DeletePersonInv
  <1>4. CASE SaveFriends BY <1>4, SaveFriendsInv
  <1>5. CASE RestartStore BY <1>5, RestartStoreInv
  <1>6. CASE UNCHANGED <<partyVars, friendVars>>
    <2>1. SocialTypeOK' BY <1>0, <1>6 DEF SocialTypeOK, partyVars, friendVars, NoKick
    <2>2. PartyInv' BY <1>0, <1>6 DEF PartyInv, Sound, partyVars
    <2>3. FriendsInv' BY <1>0, <1>6, FriendsStay DEF partyVars
    <2> QED BY <2>1, <2>2, <2>3 DEF SocialInv
  <1> QED BY <1>1, <1>2, <1>3, <1>4, <1>5, <1>6 DEF SocialNext

LEMMA SocialInvariant == SocialSpec => []SocialInv
  <1>1. SocialInit => SocialInv BY SocialInitInv
  <1>2. SocialInv /\ [SocialNext]_<<partyVars, friendVars>> => SocialInv' BY SocialNextInv
  <1> QED BY <1>1, <1>2, PTL DEF SocialSpec

-----------------------------------------------------------------------------
\* Parties, lists and the transactions still to come have their types.
THEOREM SocialTypeCorrect == SocialSpec => []SocialTypeOK
  <1>1. SocialInv => SocialTypeOK BY DEF SocialInv
  <1> QED BY <1>1, SocialInvariant, PTL

\* Whoever has a party is in it once and not alone, has a member for its leader,
\* and shares it with its other members: JoinGroup, LeaveGroup and ChangeLeader
\* keep that in every order in which they come, with members deleted in between.
THEOREM PartiesStayWhole == SocialSpec => []PartiesAgree
  <1>1. SocialInv => PartiesAgree
    <2> SUFFICES ASSUME SocialInv, NEW u \in present, groups[u] # Alone
                 PROVE  LET members == groups[u].members IN
                        /\ Cardinality({i \in DOMAIN members : members[i] = u}) = 1
                        /\ groups[u].leader \in ToSet(members) /\ ToSet(members) # {u}
                        /\ \A v \in ToSet(members) \cap present : groups[v] = groups[u]
      BY DEF PartiesAgree
    <2> DEFINE m == groups[u].members
    <2>1. u \in People /\ groups[u] \in Party BY DEF SocialInv, SocialTypeOK
    <2>2. /\ Len(m) > 1 /\ groups[u].leader \in ToSet(m) /\ u \in ToSet(m)
          /\ \A i, j \in DOMAIN m : m[i] = m[j] /\ m[i] \in present => i = j
          /\ \A v \in ToSet(m) \cap present : groups[v] = groups[u]
      BY <2>1 DEF SocialInv, PartyInv, Sound
    <2>3. m \in Seq(People) BY <2>1 DEF Party
    <2> HIDE DEF m
    <2>4. Cardinality({i \in DOMAIN m : m[i] = u}) = 1
      <3>1. PICK k \in DOMAIN m : m[k] = u BY <2>2 DEF ToSet
      <3>2. {i \in DOMAIN m : m[i] = u} = {k} BY <2>2, <3>1
      <3> QED BY <3>2, FS_Singleton
    <2>5. ToSet(m) # {u}
      <3> SUFFICES ASSUME ToSet(m) = {u} PROVE FALSE OBVIOUS
      <3>1. 1 \in DOMAIN m /\ 2 \in DOMAIN m BY <2>2, <2>3
      <3>2. m[1] \in ToSet(m) /\ m[2] \in ToSet(m) BY <3>1 DEF ToSet
      <3>3. m[1] = u /\ m[2] = u BY <3>2
      <3>4. 1 = 2 BY <2>2, <3>1, <3>3
      <3> QED BY <3>4
    <2> QED BY <2>2, <2>4, <2>5 DEF m
  <1> QED BY <1>1, SocialInvariant, PTL

\* A friendship is one of both sides in memory and in the tables, at whatever
\* transaction the process ends, and a deleted account is on no list.
THEOREM FriendshipsStayMutual == SocialSpec => []FriendsMutual
  <1>1. SocialInv => FriendsMutual
    <2> SUFFICES ASSUME SocialInv, NEW lists \in {friends, friendRows},
                        NEW u \in People, NEW v \in People,
                        v \in lists[u]
                 PROVE  /\ {u, v} \subseteq present => u \in lists[v]
                        /\ ~scrubTorn /\ (unsaved = <<>> \/ lists = friends) => {u, v} \subseteq present
      BY DEF FriendsMutual
    <2>1. SocialTypeOK /\ FriendsInv BY DEF SocialInv
    <2>2. {u, v} \subseteq present => u \in lists[v] BY <2>1 DEF FriendsInv, Mutual
    <2>3. unsaved = <<>> => lists = friends BY <2>1, AllSaved
    <2>4. u \in present BY <2>1 DEF FriendsInv
    <2>5. ~scrubTorn /\ lists = friends => v \in present BY <2>1 DEF FriendsInv
    <2> QED BY <2>2, <2>3, <2>4, <2>5
  <1> QED BY <1>1, SocialInvariant, PTL
=============================================================================
