-------------------------- MODULE ClanStore_proofs --------------------------
(***************************************************************************)
(* For every number of users, clans and castles and every cap: the rules   *)
(* of a clan hold in memory and in the tables, after whichever transaction *)
(* the process ends; ids are never handed out twice; and what the memory   *)
(* holds is in the tables, or on its way there in the writes still to      *)
(* come.                                                                   *)
(***************************************************************************)
EXTENDS ClanStore, Lists_proofs, SequenceTheorems

(***************************************************************************)
(* The inductive invariant.                                                *)
(***************************************************************************)
\* The rows the operation under way has still to write.
Unwritten == UNION ToSet(writes)
MetaRow == <<"meta", "next_clan_id">>

\* The clan of a new hero row is known to the counter of the database.
HeroesLast ==
  \A m, n \in DOMAIN writes : \A u \in Users :
    MetaRow \in writes[m] /\ <<"heroes", u>> \in writes[n] => m < n

\* A row that has not to be written holds what the memory holds.
Saved ==
  /\ \A u \in Users : disk.heroes[u] = mem.heroes[u] \/ <<"heroes", u>> \in Unwritten
  /\ \A k \in ClanIds : disk.clans[k] = mem.clans[k] \/ <<"clans", k>> \in Unwritten
  /\ \A s \in Castles : disk.owner[s] = mem.owner[s] \/ <<"owner", s>> \in Unwritten
  /\ \A s \in Castles : disk.log[s] = mem.log[s] \/ <<"log", s>> \in Unwritten

\* The counter is above every clan, and its stored mark behind it by the newest
\* clan at most, to which nobody belongs.
Mark(tables) == tables.meta.next_clan_id

Numbered ==
  /\ 1 <= Mark(disk) /\ Mark(disk) <= Mark(mem)
  /\ \A k \in ClanIds : mem.clans[k] # None \/ disk.clans[k] # None => k < Mark(mem)
  /\ \/ MetaRow \in Unwritten
     \/ Mark(mem) = Mark(disk)
     \/ Mark(mem) - 1 \in ClanIds /\ disk.clans[Mark(mem) - 1] # None
  /\ \A u \in Users : disk.heroes[u] # None => disk.heroes[u].clan < Mark(disk)
  /\ \A u \in Users : Exists(u) => /\ Of(u).clan < Mark(mem)
                                   /\ Of(u).clan < Mark(disk) \/ MetaRow \in Unwritten
  /\ \A u \in Users : invites[u] < Mark(disk)
  /\ \A k \in ClanIds : <<"clans", k>> \in Unwritten /\ mem.clans[k] = None => k < Mark(disk)

\* An id of an earlier clan is one the next start will not hand out.
Fresh ==
  /\ IsInjective(founded)
  /\ \A n \in DOMAIN founded : \/ founded[n] < Mark(disk)
                               \/ disk.clans[founded[n]] # None
  /\ \A k \in ClanIds : <<"clans", k>> \in Unwritten /\ mem.clans[k] # None /\ disk.clans[k] = None =>
       \A n \in DOMAIN founded : founded[n] # k

\* A hero has a rank exactly in a clan, which exists.
Ranked(heroes) ==
  \A u \in Users : heroes[u] # None => ((heroes[u].role = 0) <=> (heroes[u].clan = NoClan))

Housed(heroes, clans) ==
  \A u \in Users : heroes[u] # None /\ heroes[u].clan # NoClan => clans[heroes[u].clan] # None

\* A clan that exists has its header's head for HEAD, and no other.
Headed(heroes, clans) ==
  \A k \in ClanIds : clans[k] # None =>
    \A u \in Users : heroes[u] # None =>
      ((heroes[u].clan = k /\ heroes[u].role = ClanHead) <=> u = clans[k].head)

\* The members of a clan in the database lag behind those in memory one way only:
\* an operation takes members in, or out.
MembersIn(heroes, k) == {u \in Users : heroes[u] # None /\ heroes[u].clan = k}

Capped ==
  \A k \in ClanIds : /\ Cardinality(MembersIn(mem.heroes, k)) <= ClanMaxMembers
                     /\ Cardinality(MembersIn(disk.heroes, k)) <= ClanMaxMembers
                     /\ \/ MembersIn(disk.heroes, k) \subseteq MembersIn(mem.heroes, k)
                        \/ MembersIn(mem.heroes, k) \subseteq MembersIn(disk.heroes, k)

ClanInv == /\ TypeOK /\ HeroesLast /\ Saved /\ Numbered /\ Fresh
           /\ Ranked(mem.heroes) /\ Ranked(disk.heroes) /\ Capped
           /\ ~torn => Housed(mem.heroes, mem.clans) /\ Headed(mem.heroes, mem.clans)

-----------------------------------------------------------------------------
(***************************************************************************)
(* The rows of a list of batches.                                          *)
(***************************************************************************)
USE ClanAssumption

\* Row names tell their table and their key.
LEMMA RowNames ==
  /\ \A u \in Users : <<"heroes", u>> \in Rows
  /\ \A k \in ClanIds : <<"clans", k>> \in Rows
  /\ \A s \in Castles : <<"owner", s>> \in Rows /\ <<"log", s>> \in Rows
  /\ MetaRow \in Rows
BY DEF Rows, MetaRow

LEMMA OneBatch ==
  ASSUME NEW A \in (SUBSET Rows) \ {{}}, writes' = <<A>>
  PROVE  /\ writes' \in Seq((SUBSET Rows) \ {{}}) /\ Unwritten' = A
         /\ MetaRow \notin A => HeroesLast'
  <1>1. DOMAIN <<A>> = {1} /\ <<A>>[1] = A OBVIOUS
  <1>2. ToSet(<<A>>) = {A} BY <1>1 DEF ToSet
  <1>3. Unwritten' = A BY <1>2 DEF Unwritten
  <1>4. MetaRow \notin A => HeroesLast' BY <1>1 DEF HeroesLast
  <1>5. <<A>> \in Seq((SUBSET Rows) \ {{}}) OBVIOUS
  <1> QED BY <1>3, <1>4, <1>5

LEMMA TwoBatches ==
  ASSUME NEW A \in (SUBSET Rows) \ {{}}, NEW B \in (SUBSET Rows) \ {{}}, writes' = <<A, B>>
  PROVE  /\ writes' \in Seq((SUBSET Rows) \ {{}}) /\ Unwritten' = A \cup B
         /\ MetaRow \notin A \cup B => HeroesLast'
  <1>1. DOMAIN <<A, B>> = {1, 2} /\ <<A, B>>[1] = A /\ <<A, B>>[2] = B OBVIOUS
  <1>2. ToSet(<<A, B>>) = {A, B} BY <1>1 DEF ToSet
  <1>3. Unwritten' = A \cup B BY <1>2 DEF Unwritten
  <1>4. MetaRow \notin A \cup B => HeroesLast' BY <1>1 DEF HeroesLast
  <1>5. <<A, B>> \in Seq((SUBSET Rows) \ {{}}) OBVIOUS
  <1> QED BY <1>3, <1>4, <1>5

LEMMA ThreeBatches ==
  ASSUME NEW A \in (SUBSET Rows) \ {{}}, NEW B \in (SUBSET Rows) \ {{}}, NEW C \in (SUBSET Rows) \ {{}},
         writes' = <<A, B, C>>
  PROVE  /\ writes' \in Seq((SUBSET Rows) \ {{}}) /\ Unwritten' = A \cup B \cup C
         /\ MetaRow \notin C /\ (\A u \in Users : <<"heroes", u>> \notin A \cup B) => HeroesLast'
         /\ MetaRow \notin A \cup B \cup C => HeroesLast'
  <1> DEFINE s == <<A, B, C>>
  <1>1. DOMAIN s = {1, 2, 3} /\ s[1] = A /\ s[2] = B /\ s[3] = C OBVIOUS
  <1>5. s \in Seq((SUBSET Rows) \ {{}}) OBVIOUS
  <1>6. writes' = s OBVIOUS
  <1> HIDE DEF s
  <1>2. ToSet(s) = {A, B, C} BY <1>1 DEF ToSet
  <1>3. Unwritten' = A \cup B \cup C BY <1>2, <1>6 DEF Unwritten
  <1>4. MetaRow \notin C /\ (\A u \in Users : <<"heroes", u>> \notin A \cup B) => HeroesLast'
    <2> SUFFICES ASSUME MetaRow \notin C, \A u \in Users : <<"heroes", u>> \notin A \cup B
                 PROVE HeroesLast'
      OBVIOUS
    <2>1. \A m \in DOMAIN s : MetaRow \in s[m] => m = 1 \/ m = 2 BY <1>1
    <2>2. \A n \in DOMAIN s : \A u \in Users : <<"heroes", u>> \in s[n] => n = 3 BY <1>1
    <2>3. ASSUME NEW m \in DOMAIN s, NEW n \in DOMAIN s, NEW u \in Users,
                 MetaRow \in s[m], <<"heroes", u>> \in s[n]
          PROVE  m < n
      <3>1. (m = 1 \/ m = 2) /\ n = 3 BY <2>1, <2>2, <2>3
      <3> QED BY <3>1
    <2> QED BY <1>6, <2>3 DEF HeroesLast
  <1>7. MetaRow \notin A \cup B \cup C => HeroesLast' BY <1>1, <1>6 DEF HeroesLast
  <1> QED BY <1>3, <1>4, <1>5, <1>6, <1>7

\* A row is written: it leaves the first batch, and with the last of its rows the
\* batch goes; heroes are not written while the mark is not.
LEMMA RowWritten ==
  ASSUME ClanInv, WriteRow
  PROVE  \E row \in Rows :
           /\ row \in Unwritten
           /\ \A u \in Users : row = <<"heroes", u>> => MetaRow \notin Unwritten
           /\ writes' \in Seq((SUBSET Rows) \ {{}}) /\ HeroesLast'
           /\ Unwritten' \subseteq Unwritten /\ Unwritten \subseteq Unwritten' \cup {row}
           /\ disk' = [disk EXCEPT ![row[1]][row[2]] = mem[row[1]][row[2]]]
           /\ founded' = IF Insert(row) THEN Append(founded, row[2]) ELSE founded
  <1> DEFINE S == (SUBSET Rows) \ {{}}
             h == Head(writes)
             t == Tail(writes)
  <1>0. writes \in Seq(S) /\ writes # <<>> BY DEF ClanInv, TypeOK, WriteRow, Free
  <1>1. PICK row \in h : /\ RowDone(row)
                         /\ disk' = [disk EXCEPT ![row[1]][row[2]] = mem[row[1]][row[2]]]
                         /\ founded' = IF Insert(row) THEN Append(founded, row[2]) ELSE founded
    BY DEF WriteRow
  <1> HIDE DEF S
  <1>2. /\ h = writes[1] /\ 1 \in DOMAIN writes /\ h \in S /\ t \in Seq(S)
        /\ \A n \in DOMAIN t : n \in Nat /\ n + 1 \in DOMAIN writes /\ t[n] = writes[n + 1] /\ 1 < n + 1
        /\ \A n \in DOMAIN writes : n = 1 \/ (n - 1 \in DOMAIN t /\ t[n - 1] = writes[n])
    BY <1>0
  <1>r. row \in Rows BY <1>1, <1>2 DEF S
  <1> DEFINE In(s, x) == \E n \in DOMAIN s : x \in s[n]
  <1>u. \A x : x \in Unwritten <=> In(writes, x) BY DEF Unwritten, ToSet
  <1>v. \A x : x \in Unwritten' <=> In(writes', x) BY DEF Unwritten, ToSet
  <1>w. \A x : In(writes, x) <=> x \in h \/ In(t, x)
    <2> TAKE x
    <2>1. In(writes, x) => x \in h \/ In(t, x) BY <1>2
    <2>2. x \in h => In(writes, x) BY <1>2
    <2>3. In(t, x) => In(writes, x) BY <1>2
    <2> QED BY <2>1, <2>2, <2>3
  <1>3. ASSUME NEW u \in Users, row = <<"heroes", u>> PROVE MetaRow \notin Unwritten
    <2> SUFFICES ASSUME NEW m \in DOMAIN writes, MetaRow \in writes[m] PROVE FALSE BY <1>u
    <2>1. m < 1 BY <1>1, <1>2, <1>3 DEF ClanInv, HeroesLast
    <2>2. m \in Nat /\ m >= 1 BY <1>0
    <2> QED BY <2>1, <2>2
  <1>4. CASE h = {row}
    <2>1. writes' = t BY <1>1, <1>4 DEF RowDone
    <2>2. writes' \in Seq(S) BY <1>2, <2>1
    <2>3. HeroesLast'
      <3> SUFFICES ASSUME NEW m \in DOMAIN t, NEW n \in DOMAIN t, NEW u \in Users,
                          MetaRow \in t[m], <<"heroes", u>> \in t[n]
                   PROVE  m < n
        BY <2>1 DEF HeroesLast
      <3>1. m + 1 < n + 1 BY <1>2 DEF ClanInv, HeroesLast
      <3> QED BY <1>2, <3>1
    <2>4. Unwritten' \subseteq Unwritten /\ Unwritten \subseteq Unwritten' \cup {row}
      BY <1>4, <1>u, <1>v, <1>w, <2>1
    <2>5. row \in Unwritten BY <1>1, <1>u, <1>w
    <2> QED BY <1>1, <1>r, <1>3, <2>2, <2>3, <2>4, <2>5 DEF S
  <1>5. CASE h # {row}
    <2> DEFINE g == h \ {row}
               s == <<g>> \o t
    <2>1. writes' = s BY <1>1, <1>5 DEF RowDone
    <2>2. g \in S BY <1>1, <1>2, <1>5 DEF S
    <2> HIDE DEF g
    <2>3. /\ s \in Seq(S) /\ 1 \in DOMAIN s /\ s[1] = g
          /\ DOMAIN s = DOMAIN writes
          /\ \A n \in DOMAIN writes : n # 1 => s[n] = writes[n]
      BY <1>0, <1>2, <2>2
    <2> HIDE DEF s
    <2>4. \A n \in DOMAIN s : s[n] \subseteq writes[n] BY <1>2, <2>3 DEF g
    <2>5. HeroesLast' BY <2>1, <2>3, <2>4 DEF HeroesLast, ClanInv
    <2>6. \A x : In(s, x) => In(writes, x) BY <2>3, <2>4
    <2>7. \A x : In(writes, x) => In(s, x) \/ x = row BY <1>2, <2>3 DEF g
    <2>8. Unwritten' \subseteq Unwritten /\ Unwritten \subseteq Unwritten' \cup {row}
      BY <1>u, <1>v, <2>1, <2>6, <2>7
    <2>9. row \in Unwritten BY <1>1, <1>u, <1>w
    <2> QED BY <1>1, <1>r, <1>3, <2>1, <2>3, <2>5, <2>8, <2>9 DEF S
  <1> QED BY <1>4, <1>5

-----------------------------------------------------------------------------
(***************************************************************************)
(* The shape of the tables, and an operation's start.                      *)
(***************************************************************************)
LEMMA TablesShape ==
  ASSUME NEW d \in Tables
  PROVE  /\ d.heroes \in [Users -> Hero \cup {None}] /\ d.clans \in [ClanIds -> Clan \cup {None}]
         /\ d.meta \in [next_clan_id : Nat] /\ Mark(d) \in Nat
         /\ d.owner \in [Castles -> {NoClan} \cup ClanIds] /\ d.log \in [Castles -> Seq(Siege)]
         /\ d = [heroes |-> d.heroes, clans |-> d.clans, meta |-> d.meta, owner |-> d.owner, log |-> d.log]
BY DEF Tables, Mark

LEMMA Quiet ==
  ASSUME ClanInv, Free
  PROVE  /\ Unwritten = {}
         /\ disk.heroes = mem.heroes /\ disk.clans = mem.clans
         /\ disk.owner = mem.owner /\ disk.log = mem.log
         /\ \A u \in Users : Exists(u) => Of(u).clan < Mark(disk)
         /\ Mark(mem) = Mark(disk) \/ (Mark(mem) - 1 \in ClanIds /\ disk.clans[Mark(mem) - 1] # None)
  <1> USE DEF ClanInv
  <1>1. Unwritten = {}
    <2>1. ToSet(writes) = {} BY DEF Free, ToSet
    <2> QED BY <2>1 DEF Unwritten
  <1>2. /\ disk.heroes \in [Users -> Hero \cup {None}] /\ mem.heroes \in [Users -> Hero \cup {None}]
        /\ disk.clans \in [ClanIds -> Clan \cup {None}] /\ mem.clans \in [ClanIds -> Clan \cup {None}]
        /\ disk.owner \in [Castles -> {NoClan} \cup ClanIds] /\ mem.owner \in [Castles -> {NoClan} \cup ClanIds]
        /\ disk.log \in [Castles -> Seq(Siege)] /\ mem.log \in [Castles -> Seq(Siege)]
    BY TablesShape DEF TypeOK
  <1>3. disk.heroes = mem.heroes BY <1>1, <1>2 DEF Saved
  <1>4. disk.clans = mem.clans BY <1>1, <1>2 DEF Saved
  <1>5. disk.owner = mem.owner BY <1>1, <1>2 DEF Saved
  <1>6. disk.log = mem.log BY <1>1, <1>2 DEF Saved
  <1>7. \A u \in Users : Exists(u) => Of(u).clan < Mark(disk) BY <1>1 DEF Numbered
  <1>8. Mark(mem) = Mark(disk) \/ (Mark(mem) - 1 \in ClanIds /\ disk.clans[Mark(mem) - 1] # None)
    BY <1>1 DEF Numbered
  <1> QED BY <1>1, <1>3, <1>4, <1>5, <1>6, <1>7, <1>8

LEMMA MembersFinite ==
  \A heroes, k : /\ IsFiniteSet(MembersIn(heroes, k))
                 /\ Cardinality(MembersIn(heroes, k)) \in Nat
  <1> TAKE heroes, k
  <1>1. MembersIn(heroes, k) \subseteq Users BY DEF MembersIn
  <1> QED BY <1>1, FS_Subset, FS_CardinalityType

\* An operation that founds no clan.
LEMMA NoFounding ==
  ASSUME ClanInv, Free, UNCHANGED <<disk, founded>>, Mark(mem)' = Mark(mem),
         MetaRow \notin Unwritten',
         \A k \in ClanIds : mem'.clans[k] # None => mem.clans[k] # None,
         \A k \in ClanIds : <<"clans", k>> \in Unwritten' /\ mem'.clans[k] = None => k < Mark(disk),
         \A u \in Users : mem'.heroes[u] # None => mem'.heroes[u].clan < Mark(disk),
         \A u \in Users : invites'[u] < Mark(disk), TypeOK'
  PROVE  Numbered' /\ Fresh'
  <1> USE DEF ClanInv
  <1>0. Mark(disk)' = Mark(disk) BY DEF Mark
  <1>1. /\ Mark(disk) \in Nat /\ Mark(mem) \in Nat /\ 1 <= Mark(disk) /\ Mark(disk) <= Mark(mem)
        /\ \A u \in Users : mem'.heroes[u] # None => mem'.heroes[u].clan \in Nat
    <2>1. Mark(disk) \in Nat /\ Mark(mem) \in Nat BY TablesShape DEF TypeOK
    <2>2. mem'.heroes \in [Users -> Hero \cup {None}] BY TablesShape DEF TypeOK
    <2>3. \A u \in Users : mem'.heroes[u] # None => mem'.heroes[u].clan \in {NoClan} \cup ClanIds
      BY <2>2 DEF Hero
    <2> QED BY <2>1, <2>3 DEF Numbered, ClanIds, NoClan
  <1>2. \A k \in ClanIds : mem'.clans[k] # None \/ disk'.clans[k] # None => k < Mark(mem)'
    BY Quiet DEF Numbered
  <1>3. Mark(mem)' = Mark(disk)' \/ (Mark(mem)' - 1 \in ClanIds /\ disk'.clans[Mark(mem)' - 1] # None)
    BY <1>0, Quiet
  <1>4. \A u \in Users : disk'.heroes[u] # None => disk'.heroes[u].clan < Mark(disk)'
    BY <1>0 DEF Numbered
  <1>5. \A u \in Users : Exists(u)' => /\ Of(u)'.clan < Mark(mem)'
                                       /\ Of(u)'.clan < Mark(disk)'
    <2> SUFFICES ASSUME NEW u \in Users, mem'.heroes[u] # None
                 PROVE  mem'.heroes[u].clan < Mark(mem) /\ mem'.heroes[u].clan < Mark(disk)
      BY <1>0 DEF Exists, Of
    <2> QED BY <1>1
  <1>6. Numbered' BY <1>0, <1>1, <1>2, <1>3, <1>4, <1>5 DEF Numbered
  <1>7. \A k \in ClanIds : mem'.clans[k] # None => disk'.clans[k] # None BY Quiet
  <1>8. Fresh' BY <1>0, <1>7 DEF Fresh
  <1> QED BY <1>6, <1>8

\* Members who leave break no cap, and one who joins is counted.
LEMMA CapKept ==
  ASSUME ClanInv, Free, disk' = disk,
         \A k \in ClanIds :
           \/ MembersIn(mem'.heroes, k) \subseteq MembersIn(mem.heroes, k)
           \/ \E u \in Users : /\ MembersIn(mem'.heroes, k) = MembersIn(mem.heroes, k) \cup {u}
                               /\ Cardinality(MembersIn(mem.heroes, k)) < ClanMaxMembers
  PROVE  Capped'
  <1> SUFFICES ASSUME NEW k \in ClanIds
               PROVE  /\ Cardinality(MembersIn(mem'.heroes, k)) <= ClanMaxMembers
                      /\ Cardinality(MembersIn(disk'.heroes, k)) <= ClanMaxMembers
                      /\ \/ MembersIn(disk'.heroes, k) \subseteq MembersIn(mem'.heroes, k)
                         \/ MembersIn(mem'.heroes, k) \subseteq MembersIn(disk'.heroes, k)
    BY DEF Capped
  <1> DEFINE M == MembersIn(mem.heroes, k)
             N == MembersIn(mem'.heroes, k)
  <1>1. MembersIn(disk'.heroes, k) = M BY Quiet
  <1>2. Cardinality(M) <= ClanMaxMembers BY DEF ClanInv, Capped
  <1>3. IsFiniteSet(M) /\ IsFiniteSet(N) /\ Cardinality(M) \in Nat /\ Cardinality(N) \in Nat
    BY MembersFinite
  <1>a. \/ N \subseteq M
        \/ \E u \in Users : N = M \cup {u} /\ Cardinality(M) < ClanMaxMembers
    OBVIOUS
  <1> HIDE DEF M, N
  <1>4. CASE N \subseteq M
    <2>1. Cardinality(N) <= Cardinality(M) BY <1>3, <1>4, FS_Subset
    <2>2. Cardinality(N) <= ClanMaxMembers BY <1>2, <1>3, <2>1
    <2> QED BY <1>1, <1>2, <1>4, <2>2 DEF N
  <1>5. ASSUME NEW u \in Users, N = M \cup {u}, Cardinality(M) < ClanMaxMembers
        PROVE  Cardinality(N) <= ClanMaxMembers /\ M \subseteq N
    <2>1. Cardinality(M \cup {u}) = IF u \in M THEN Cardinality(M) ELSE Cardinality(M) + 1
      BY <1>3, FS_AddElement
    <2> QED BY <1>3, <1>5, <2>1
  <1> QED BY <1>a, <1>1, <1>2, <1>4, <1>5 DEF N

LEMMA ClanInit == Init => ClanInv
  <1> SUFFICES ASSUME Init PROVE ClanInv OBVIOUS
  <1> DEFINE hero == [clan |-> NoClan, role |-> 0, money |-> Wallet, won |-> 0]
             t == [heroes |-> [u \in Users |-> hero], clans |-> [k \in ClanIds |-> None],
                   meta |-> [next_clan_id |-> 1], owner |-> [s \in Castles |-> NoClan],
                   log |-> [s \in Castles |-> <<>>]]
  <1>1. mem = t /\ disk = t /\ writes = <<>> BY DEF Init
  <1>2. hero \in Hero /\ hero # None /\ hero.clan = 0 /\ hero.role = 0 BY DEF Hero, NoClan
  <1> HIDE DEF hero
  <1>3. t \in Tables
    <2>1. [u \in Users |-> hero] \in [Users -> Hero \cup {None}] BY <1>2
    <2>2. [k \in ClanIds |-> None] \in [ClanIds -> Clan \cup {None}] OBVIOUS
    <2>3. [next_clan_id |-> 1] \in [next_clan_id : Nat] OBVIOUS
    <2>4. [s \in Castles |-> NoClan] \in [Castles -> {NoClan} \cup ClanIds] OBVIOUS
    <2>5. [s \in Castles |-> <<>>] \in [Castles -> Seq(Siege)] OBVIOUS
    <2> QED BY <2>1, <2>2, <2>3, <2>4, <2>5 DEF Tables
  <1>4. /\ \A u \in Users : t.heroes[u] = hero
        /\ \A k \in ClanIds : t.clans[k] = None
        /\ Mark(t) = 1
    BY DEF Mark
  <1> HIDE DEF t
  <1>5. TypeOK
    <2>1. writes \in Seq((SUBSET Rows) \ {{}}) /\ founded \in Seq(ClanIds) BY DEF Init
    <2> QED BY <1>1, <1>3, <2>1 DEF Init, TypeOK
  <1>6. Unwritten = {} /\ HeroesLast
    <2>1. ToSet(writes) = {} BY <1>1 DEF ToSet
    <2> QED BY <1>1, <2>1 DEF Unwritten, HeroesLast
  <1>7. Saved BY <1>1 DEF Saved
  <1>8. Numbered BY <1>1, <1>2, <1>4, <1>6 DEF Numbered, Init, Of, NoClan
  <1>9. Fresh BY <1>6 DEF Fresh, Init, IsInjective
  <1>10. Ranked(mem.heroes) /\ Ranked(disk.heroes) BY <1>1, <1>2, <1>4 DEF Ranked, NoClan
  <1>11. Housed(mem.heroes, mem.clans) /\ Headed(mem.heroes, mem.clans)
    BY <1>1, <1>2, <1>4 DEF Housed, Headed, NoClan
  <1>12. Capped
    <2>1. \A k \in ClanIds : MembersIn(t.heroes, k) = {} BY <1>2, <1>4 DEF MembersIn, ClanIds
    <2>2. Cardinality({}) <= ClanMaxMembers BY FS_EmptySet
    <2> QED BY <1>1, <2>1, <2>2 DEF Capped
  <1> QED BY <1>5, <1>6, <1>7, <1>8, <1>9, <1>10, <1>11, <1>12 DEF ClanInv

-----------------------------------------------------------------------------
(***************************************************************************)
(* One lemma per operation.                                                *)
(***************************************************************************)
LEMMA HeroRowsFacts ==
  ASSUME NEW us \in SUBSET Users
  PROVE  /\ HeroRows(us) \in SUBSET Rows /\ (us # {} => HeroRows(us) # {})
         /\ MetaRow \notin HeroRows(us)
         /\ \A k : <<"clans", k>> \notin HeroRows(us)
         /\ \A u : <<"heroes", u>> \in HeroRows(us) <=> u \in us
BY RowNames DEF HeroRows, MetaRow

LEMMA Enlisted ==
  ASSUME NEW m \in Tables, NEW u \in Users, m.heroes[u] # None,
         NEW k \in {NoClan} \cup ClanIds, NEW role \in {0} \cup Roles
  PROVE  /\ Enlist(m, u, k, role) \in Tables
         /\ Enlist(m, u, k, role).clans = m.clans /\ Enlist(m, u, k, role).meta = m.meta
         /\ Enlist(m, u, k, role).owner = m.owner /\ Enlist(m, u, k, role).log = m.log
         /\ \A v \in Users \ {u} : Enlist(m, u, k, role).heroes[v] = m.heroes[v]
         /\ Enlist(m, u, k, role).heroes[u] \in Hero
         /\ Enlist(m, u, k, role).heroes[u].clan = k /\ Enlist(m, u, k, role).heroes[u].role = role
  <1> DEFINE h == [m.heroes[u] EXCEPT !.clan = k, !.role = role]
             e == Enlist(m, u, k, role)
  <1>1. /\ m.heroes \in [Users -> Hero \cup {None}] /\ m.clans \in [ClanIds -> Clan \cup {None}]
        /\ m.meta \in [next_clan_id : Nat]
        /\ m.owner \in [Castles -> {NoClan} \cup ClanIds] /\ m.log \in [Castles -> Seq(Siege)]
    BY TablesShape
  <1>2. m.heroes[u] \in Hero BY <1>1
  <1>3. h \in Hero /\ h.clan = k /\ h.role = role BY <1>2 DEF Hero
  <1>4. e = [m EXCEPT !.heroes = [m.heroes EXCEPT ![u] = h]] BY <1>1, <1>2 DEF Enlist, Tables, Hero
  <1> HIDE DEF h, e
  <1>5. /\ e.heroes = [m.heroes EXCEPT ![u] = h] /\ e.clans = m.clans /\ e.meta = m.meta
        /\ e.owner = m.owner /\ e.log = m.log
        /\ e \in Tables
    BY <1>1, <1>3, <1>4 DEF Tables
  <1>6. e.heroes[u] = h /\ \A v \in Users \ {u} : e.heroes[v] = m.heroes[v] BY <1>1, <1>5
  <1> QED BY <1>3, <1>5, <1>6 DEF e, h

\* One who is no HEAD enters a clan, not as its HEAD, or leaves his.
LEMMA Enlists ==
  ASSUME ClanInv, Free, NEW u \in Users, Exists(u), Of(u).role # ClanHead,
         NEW k \in {NoClan} \cup ClanIds, k < Mark(disk),
         NEW role \in {0} \cup Roles, role # ClanHead, (role = 0) <=> (k = NoClan),
         k # NoClan => mem.clans[k] # None /\ Cardinality(Members(k)) < ClanMaxMembers,
         mem' = Enlist(mem, u, k, role), writes' = <<HeroRows({u})>>,
         UNCHANGED <<disk, founded, torn>>, cooling' = cooling,
         invites' \in [Users -> {NoClan} \cup ClanIds], \A v \in Users : invites'[v] < Mark(disk)
  PROVE  ClanInv'
  <1> USE DEF ClanInv
  <1>0. mem \in Tables /\ disk \in Tables /\ mem.heroes[u] # None /\ mem.heroes[u].role # ClanHead
    BY DEF TypeOK, Exists, Of
  <1>1. /\ mem' \in Tables /\ mem'.clans = mem.clans /\ mem'.meta = mem.meta
        /\ mem'.owner = mem.owner /\ mem'.log = mem.log
        /\ \A v \in Users \ {u} : mem'.heroes[v] = mem.heroes[v]
        /\ mem'.heroes[u] # None /\ mem'.heroes[u].clan = k /\ mem'.heroes[u].role = role
    <2>1. None \notin Hero OBVIOUS
    <2> HIDE DEF ClanInv
    <2> DEFINE e == Enlist(mem, u, k, role)
    <2>2. /\ e \in Tables /\ e.clans = mem.clans /\ e.meta = mem.meta
          /\ e.owner = mem.owner /\ e.log = mem.log
          /\ \A v \in Users \ {u} : e.heroes[v] = mem.heroes[v]
          /\ e.heroes[u] \in Hero /\ e.heroes[u].clan = k /\ e.heroes[u].role = role
      <3>1. u \in Users /\ k \in {NoClan} \cup ClanIds /\ role \in {0} \cup Roles OBVIOUS
      <3> QED BY ONLY <1>0, <3>1, Enlisted
    <2>3. mem' = e OBVIOUS
    <2> HIDE DEF e
    <2> QED BY <2>1, <2>2, <2>3
  <1>2. /\ writes' \in Seq((SUBSET Rows) \ {{}}) /\ Unwritten' = HeroRows({u}) /\ HeroesLast'
        /\ MetaRow \notin Unwritten' /\ <<"heroes", u>> \in Unwritten'
        /\ \A j \in ClanIds : <<"clans", j>> \notin Unwritten'
    <2> DEFINE A == HeroRows({u})
    <2>1. {u} \in SUBSET Users /\ {u} # {} OBVIOUS
    <2>2. /\ A \in SUBSET Rows /\ A # {} /\ MetaRow \notin A /\ <<"heroes", u>> \in A
          /\ \A j \in ClanIds : <<"clans", j>> \notin A
      BY <2>1, HeroRowsFacts
    <2>3. writes' = <<A>> OBVIOUS
    <2> HIDE DEF A, ClanInv
    <2>4. A \in (SUBSET Rows) \ {{}} BY <2>2
    <2>5. writes' \in Seq((SUBSET Rows) \ {{}}) /\ Unwritten' = A /\ HeroesLast' BY <2>2, <2>3, <2>4, OneBatch
    <2> QED BY <2>2, <2>5 DEF A
  <1>3. TypeOK' BY <1>1, <1>2 DEF TypeOK
  <1>4. Saved' BY <1>1, <1>2, Quiet DEF Saved
  <1>5. Numbered' /\ Fresh'
    <2>1. \A v \in Users : mem'.heroes[v] # None => mem'.heroes[v].clan < Mark(disk)
      BY <1>1, Quiet DEF Exists, Of
    <2>2. Mark(mem)' = Mark(mem) BY <1>1 DEF Mark
    <2> QED BY <1>1, <1>2, <1>3, <2>1, <2>2, NoFounding
  <1>6. Ranked(mem'.heroes) /\ Ranked(disk'.heroes) BY <1>1 DEF Ranked
  <1>7. ~torn' => Housed(mem'.heroes, mem'.clans) /\ Headed(mem'.heroes, mem'.clans)
    BY <1>0, <1>1 DEF Housed, Headed
  <1>8. Capped'
    <2> SUFFICES ASSUME NEW j \in ClanIds
                 PROVE \/ MembersIn(mem'.heroes, j) \subseteq MembersIn(mem.heroes, j)
                       \/ /\ MembersIn(mem'.heroes, j) = MembersIn(mem.heroes, j) \cup {u}
                          /\ Cardinality(MembersIn(mem.heroes, j)) < ClanMaxMembers
      BY CapKept
    <2>1. CASE j = k
      <3>1. MembersIn(mem'.heroes, j) = MembersIn(mem.heroes, j) \cup {u} BY <1>1, <2>1 DEF MembersIn
      <3>2. Members(j) = MembersIn(mem.heroes, j) BY DEF Members, MembersIn, Exists, Of
      <3>3. k # NoClan BY <2>1 DEF ClanIds, NoClan
      <3> QED BY <2>1, <3>1, <3>2, <3>3
    <2>2. CASE j # k
      <3>1. MembersIn(mem'.heroes, j) \subseteq MembersIn(mem.heroes, j) BY <1>1, <2>2 DEF MembersIn
      <3> QED BY <3>1
    <2> QED BY <2>1, <2>2
  <1> QED BY <1>2, <1>3, <1>4, <1>5, <1>6, <1>7, <1>8

LEMMA RemoveInv ==
  ASSUME ClanInv, NEW a \in Users, NEW t \in Users, RemoveClanMember(a, t)
  PROVE  ClanInv'
  <1> USE DEF RemoveClanMember, Commit, ClanInv
  <1>1. mem.heroes \in [Users -> Hero \cup {None}] BY TablesShape DEF TypeOK
  <1>2. Exists(a) /\ Exists(t) /\ Of(a) \in Hero /\ Of(t) \in Hero BY <1>1 DEF InClan, Exists, Of
  <1>3. Of(t).role # ClanHead BY <1>2 DEF Hero, Roles, Warrior, Recruiter, ClanHead
  <1>4. NoClan < Mark(disk) BY TablesShape DEF TypeOK, Numbered, NoClan
  <1>5. /\ invites' \in [Users -> {NoClan} \cup ClanIds] /\ \A v \in Users : invites'[v] < Mark(disk)
        /\ Free /\ mem' = Enlist(mem, t, NoClan, 0) /\ writes' = <<HeroRows({t})>>
        /\ UNCHANGED <<disk, founded, torn>> /\ cooling' = cooling
    BY DEF TypeOK, Numbered
  <1>6. 0 # ClanHead BY DEF ClanHead
  <1> HIDE DEF RemoveClanMember, Commit, ClanInv
  <1> QED BY <1>2, <1>3, <1>4, <1>5, <1>6, Enlists

LEMMA AnswerInv ==
  ASSUME ClanInv, NEW t \in Users, NEW accept \in BOOLEAN, AnswerClanInvite(t, accept)
  PROVE  ClanInv'
  <1> USE DEF AnswerClanInvite, Answer
  <1> DEFINE joins == accept /\ MayJoin(t) /\ Cardinality(Members(invites[t])) < ClanMaxMembers
             k == invites[t]
  <1>0. /\ mem.heroes \in [Users -> Hero \cup {None}] /\ Mark(disk) \in Nat /\ 1 <= Mark(disk)
        /\ invites \in [Users -> {NoClan} \cup ClanIds]
    BY TablesShape DEF TypeOK, Numbered, ClanInv
  <1>1. /\ invites' \in [Users -> {NoClan} \cup ClanIds] /\ \A v \in Users : invites'[v] < Mark(disk)
        /\ Free /\ UNCHANGED <<disk, founded, torn>> /\ cooling' = cooling /\ k # NoClan
    <2>1. Free /\ k # NoClan /\ invites' = [invites EXCEPT ![t] = NoClan]
          /\ UNCHANGED <<disk, founded, torn>> /\ cooling' = cooling
      OBVIOUS
    <2>2. \A v \in Users : invites[v] < Mark(disk) BY DEF ClanInv, Numbered
    <2>3. \A v \in Users : invites'[v] = IF v = t THEN NoClan ELSE invites[v] BY <1>0, <2>1
    <2>4. \A v \in Users : invites'[v] < Mark(disk) BY <1>0, <2>2, <2>3 DEF NoClan
    <2>5. invites' \in [Users -> {NoClan} \cup ClanIds] BY <1>0, <2>1
    <2> QED BY <2>1, <2>4, <2>5
  <1>2. CASE joins
    <2>1. mem' = Enlist(mem, t, k, Warrior) /\ writes' = <<HeroRows({t})>>
      BY <1>2 DEF Commit
    <2>2. Exists(t) /\ ~InClan(t) /\ mem.clans[k] # None /\ Cardinality(Members(k)) < ClanMaxMembers
      BY <1>2 DEF MayJoin
    <2>3. Of(t).role # ClanHead
      BY <2>2 DEF ClanInv, Ranked, InClan, Exists, Of, ClanHead
    <2>4. k \in {NoClan} \cup ClanIds /\ k < Mark(disk) BY <1>0 DEF ClanInv, Numbered
    <2>5. Warrior \in {0} \cup Roles /\ Warrior # ClanHead /\ Warrior # 0
      BY DEF Warrior, Roles, ClanHead
    <2> HIDE DEF AnswerClanInvite, Answer, joins, k
    <2> QED BY <1>1, <2>1, <2>2, <2>3, <2>4, <2>5, Enlists
  <1>3. CASE ~joins
    <2>1. UNCHANGED <<mem, writes>> BY <1>3
    <2>2. Unwritten' = Unwritten /\ HeroesLast' BY <2>1 DEF Unwritten, ClanInv, HeroesLast
    <2> HIDE DEF AnswerClanInvite, Answer, joins, k
    <2> USE DEF ClanInv
    <2>3. TypeOK' BY <1>1, <2>1 DEF TypeOK
    <2>4. Saved' BY <1>1, <2>1, <2>2 DEF Saved
    <2>5. Numbered' /\ Fresh' BY <1>1, <2>1, <2>2 DEF Numbered, Fresh, Mark, Exists, Of
    <2>6. Ranked(mem'.heroes) /\ Ranked(disk'.heroes) BY <1>1, <2>1
    <2>7. Capped' BY <1>1, <2>1 DEF Capped
    <2>8. ~torn' => Housed(mem'.heroes, mem'.clans) /\ Headed(mem'.heroes, mem'.clans)
      BY <1>1, <2>1
    <2> QED BY <2>2, <2>3, <2>4, <2>5, <2>6, <2>7, <2>8
  <1> QED BY <1>2, <1>3

LEMMA CreateClanInv ==
  ASSUME ClanInv, NEW u \in Users, NEW n \in Names, CreateClan(u, n)
  PROVE  ClanInv'
  <1> USE DEF ClanInv
  <1> DEFINE k == Mark(mem)
             g == [mem.heroes[u] EXCEPT !.clan = k, !.role = ClanHead]
             h == [g EXCEPT !.money = @ - 1]
             c == [name |-> n, head |-> u]
             e == Enlist(mem, u, k, ClanHead)
  <1>0. /\ mem \in Tables /\ disk \in Tables
        /\ mem.heroes \in [Users -> Hero \cup {None}] /\ mem.clans \in [ClanIds -> Clan \cup {None}]
        /\ mem.meta \in [next_clan_id : Nat] /\ Mark(disk) \in Nat /\ k \in Nat
        /\ 1 <= Mark(disk) /\ Mark(disk) <= k
    BY TablesShape DEF TypeOK, Numbered
  <1>1. /\ Free /\ k \in ClanIds /\ mem.heroes[u] \in Hero /\ mem.heroes[u].money > 0
        /\ mem.heroes[u].clan = NoClan
    BY <1>0 DEF CreateClan, Commit, Mark, ClanIds, Exists, Of, InClan
  <1>w. /\ mem' = [e EXCEPT !.heroes[u].money = @ - 1, !.meta.next_clan_id = k + 1, !.clans[k] = c]
        /\ writes' = <<{<<"clans", k>>}, {MetaRow}, HeroRows({u})>>
        /\ UNCHANGED <<disk, invites, cooling, founded, torn>>
    BY DEF CreateClan, Commit, Mark, MetaRow
  <1>2. /\ g \in Hero /\ g.clan = k /\ g.role = ClanHead /\ g.money = mem.heroes[u].money
        /\ c \in Clan /\ c # None /\ c.head = u
    <2>1. ClanHead \in Roles BY DEF Roles, ClanHead, Warrior
    <2>2. c \in Clan /\ c.head = u BY DEF Clan
    <2> HIDE DEF k
    <2>3. g \in Hero /\ g.clan = k /\ g.role = ClanHead /\ g.money = mem.heroes[u].money
      BY <1>1, <2>1 DEF Hero
    <2> QED BY <2>2, <2>3
  <1>3. h \in Hero /\ h # None /\ h.clan = k /\ h.role = ClanHead
    <2> HIDE DEF g
    <2>1. g.money \in 0..Wallet /\ g.money > 0 /\ g.money - 1 \in 0..Wallet BY <1>1, <1>2 DEF Hero
    <2> QED BY <1>2, <2>1 DEF Hero
  <1>e. /\ e \in Tables /\ e.clans = mem.clans /\ e.meta = mem.meta /\ e.owner = mem.owner
        /\ e.log = mem.log /\ e.heroes[u] = g /\ \A v \in Users \ {u} : e.heroes[v] = mem.heroes[v]
    <2>1. ClanHead \in {0} \cup Roles BY DEF Roles, ClanHead, Warrior
    <2>2. mem.heroes[u] # None /\ u \in Users BY <1>1
    <2>3. k \in {NoClan} \cup ClanIds BY <1>1
    <2> HIDE DEF k
    <2>4. /\ e \in Tables /\ e.clans = mem.clans /\ e.meta = mem.meta
          /\ e.owner = mem.owner /\ e.log = mem.log
          /\ \A v \in Users \ {u} : e.heroes[v] = mem.heroes[v]
      BY ONLY <1>0, <2>1, <2>2, <2>3, Enlisted
    <2>5. e.heroes[u] = g BY <1>0, <1>1 DEF Enlist, Tables, Hero
    <2> QED BY <2>4, <2>5
  <1> HIDE DEF g, c, e, k
  <1>4. /\ mem' \in Tables /\ mem'.owner = mem.owner /\ mem'.log = mem.log /\ Mark(mem)' = k + 1
        /\ mem'.heroes[u] = h /\ \A v \in Users \ {u} : mem'.heroes[v] = mem.heroes[v]
        /\ mem'.clans[k] = c /\ \A j \in ClanIds \ {k} : mem'.clans[j] = mem.clans[j]
    <2>1. /\ e.heroes \in [Users -> Hero \cup {None}] /\ e.clans \in [ClanIds -> Clan \cup {None}]
          /\ e.meta \in [next_clan_id : Nat]
      BY <1>e, TablesShape
    <2>2. mem' = [e EXCEPT !.heroes = [e.heroes EXCEPT ![u] = h],
                           !.meta = [e.meta EXCEPT !.next_clan_id = k + 1],
                           !.clans = [e.clans EXCEPT ![k] = c]]
      BY <1>w, <1>e, <1>2, <2>1 DEF Tables, Hero
    <2> DEFINE hs == [e.heroes EXCEPT ![u] = h]
               ms == [e.meta EXCEPT !.next_clan_id = k + 1]
               cs == [e.clans EXCEPT ![k] = c]
    <2>3. /\ hs \in [Users -> Hero \cup {None}] /\ cs \in [ClanIds -> Clan \cup {None}]
          /\ hs[u] = h /\ \A v \in Users \ {u} : hs[v] = e.heroes[v]
          /\ cs[k] = c /\ \A j \in ClanIds \ {k} : cs[j] = e.clans[j]
      <3> HIDE DEF h
      <3> QED BY <1>1, <1>2, <1>3, <2>1
    <2>4. ms \in [next_clan_id : Nat] /\ ms.next_clan_id = k + 1 BY <1>0, <2>1
    <2> HIDE DEF hs, ms, cs, h
    <2>5. mem' = [e EXCEPT !.heroes = hs, !.meta = ms, !.clans = cs] BY <2>2 DEF hs, ms, cs
    <2>6. /\ mem'.heroes = hs /\ mem'.meta = ms /\ mem'.clans = cs /\ mem'.owner = e.owner
          /\ mem'.log = e.log /\ mem' \in Tables
      BY <1>e, <2>3, <2>4, <2>5 DEF Tables
    <2> QED BY <1>e, <2>3, <2>4, <2>6 DEF Mark
  <1> HIDE DEF h
  <1>5. /\ writes' \in Seq((SUBSET Rows) \ {{}}) /\ HeroesLast'
        /\ Unwritten' = {<<"clans", k>>} \cup {MetaRow} \cup HeroRows({u})
    <2> DEFINE A == {<<"clans", k>>}  B == {MetaRow}  C == HeroRows({u})
    <2>1. A \in (SUBSET Rows) \ {{}} /\ B \in (SUBSET Rows) \ {{}} BY <1>1, RowNames
    <2>2. C \in (SUBSET Rows) \ {{}} /\ MetaRow \notin C
      <3>1. {u} \in SUBSET Users /\ {u} # {} OBVIOUS
      <3> QED BY <3>1, HeroRowsFacts
    <2>3. \A v \in Users : <<"heroes", v>> \notin A \cup B BY DEF MetaRow
    <2>4. writes' = <<A, B, C>> BY <1>w
    <2> HIDE DEF A, B, C
    <2>5. /\ writes' \in Seq((SUBSET Rows) \ {{}}) /\ Unwritten' = A \cup B \cup C /\ HeroesLast'
      BY <2>1, <2>2, <2>3, <2>4, ThreeBatches
    <2> QED BY <2>5 DEF A, B, C
  <1>6. /\ MetaRow \in Unwritten' /\ <<"heroes", u>> \in Unwritten' /\ <<"clans", k>> \in Unwritten'
        /\ \A j \in ClanIds : <<"clans", j>> \in Unwritten' => j = k
    BY <1>5 DEF HeroRows, MetaRow
  <1>7. \A v \in Users : mem.heroes[v] # None => mem.heroes[v].clan < Mark(disk) /\ mem.heroes[v].clan < k
    <2> SUFFICES ASSUME NEW v \in Users, mem.heroes[v] # None
                 PROVE mem.heroes[v].clan < Mark(disk) /\ mem.heroes[v].clan < k
      OBVIOUS
    <2>1. mem.heroes[v].clan < Mark(disk) BY <1>1, Quiet DEF Exists, Of
    <2>2. mem.heroes[v].clan \in Nat BY <1>0 DEF Hero, ClanIds, NoClan
    <2> QED BY <1>0, <2>1, <2>2
  <1>8. \A j \in ClanIds : mem.clans[j] # None \/ disk.clans[j] # None => j < k BY DEF Numbered, k
  <1>9. TypeOK' BY <1>4, <1>5, <1>w DEF TypeOK
  <1>10. Saved'
    <2>1. disk' = disk BY <1>w
    <2>2. \A v \in Users : disk'.heroes[v] = mem'.heroes[v] \/ <<"heroes", v>> \in Unwritten'
      BY <1>1, <1>4, <1>6, <2>1, Quiet
    <2>3. \A j \in ClanIds : disk'.clans[j] = mem'.clans[j] \/ <<"clans", j>> \in Unwritten'
      BY <1>1, <1>4, <1>6, <2>1, Quiet
    <2> QED BY <1>1, <1>4, <2>1, <2>2, <2>3, Quiet DEF Saved
  <1>11. Numbered'
    <2>0. Mark(disk)' = Mark(disk) /\ disk' = disk /\ invites' = invites BY <1>w DEF Mark
    <2>1. 1 <= Mark(disk)' /\ Mark(disk)' <= Mark(mem)' BY <1>0, <1>4, <2>0
    <2>2. \A j \in ClanIds : mem'.clans[j] # None \/ disk'.clans[j] # None => j < Mark(mem)'
      <3> TAKE j \in ClanIds
      <3>1. j \in Nat BY DEF ClanIds
      <3> QED BY <1>0, <1>4, <1>8, <2>0, <3>1
    <2>3. \A v \in Users : disk'.heroes[v] # None => disk'.heroes[v].clan < Mark(disk)'
      BY <2>0 DEF Numbered
    <2>4. \A v \in Users : mem'.heroes[v] # None => mem'.heroes[v].clan < Mark(mem)'
      <3> SUFFICES ASSUME NEW v \in Users, mem'.heroes[v] # None PROVE mem'.heroes[v].clan < k + 1
        BY <1>4
      <3>1. CASE v = u BY <1>0, <1>2, <1>3, <1>4, <3>1
      <3>2. CASE v # u
        <4>1. mem.heroes[v].clan < k /\ mem.heroes[v] \in Hero BY <1>0, <1>4, <1>7, <3>2
        <4>2. mem.heroes[v].clan \in Nat BY <4>1 DEF Hero, ClanIds, NoClan
        <4> QED BY <1>0, <1>4, <3>2, <4>1, <4>2
      <3> QED BY <3>1, <3>2
    <2>5. \A v \in Users : invites'[v] < Mark(disk)' BY <2>0 DEF Numbered
    <2>6. \A j \in ClanIds : <<"clans", j>> \in Unwritten' => mem'.clans[j] # None BY <1>2, <1>3, <1>4, <1>6
    <2> QED BY <1>6, <2>1, <2>2, <2>3, <2>4, <2>5, <2>6 DEF Numbered, Exists, Of
  <1>12. Fresh'
    <2>0. Mark(disk)' = Mark(disk) /\ disk' = disk /\ founded' = founded BY <1>w DEF Mark
    <2>1. ASSUME NEW i \in DOMAIN founded PROVE founded[i] # k
      <3>1. founded[i] \in ClanIds BY DEF TypeOK
      <3>2. CASE founded[i] < Mark(disk) BY <1>0, <3>1, <3>2 DEF ClanIds
      <3>3. CASE disk.clans[founded[i]] # None
        <4>1. founded[i] < k BY <1>8, <3>1, <3>3
        <4> QED BY <1>0, <3>1, <4>1 DEF ClanIds
      <3> QED BY <3>2, <3>3 DEF Fresh
    <2> QED BY <1>6, <2>0, <2>1 DEF Fresh
  <1>13. Ranked(mem'.heroes) /\ Ranked(disk'.heroes)
    <2>1. k # NoClan /\ ClanHead # 0 BY <1>1 DEF ClanIds, NoClan, ClanHead
    <2>2. ASSUME NEW v \in Users, mem'.heroes[v] # None
          PROVE  (mem'.heroes[v].role = 0) <=> (mem'.heroes[v].clan = NoClan)
      <3>1. CASE v = u BY <1>3, <1>4, <2>1, <3>1
      <3>2. CASE v # u BY <1>4, <2>2, <3>2 DEF Ranked
      <3> QED BY <3>1, <3>2
    <2>3. disk' = disk BY <1>w
    <2> QED BY <2>2, <2>3 DEF Ranked
  <1>14. ~torn' => Housed(mem'.heroes, mem'.clans) /\ Headed(mem'.heroes, mem'.clans)
    <2> SUFFICES ASSUME ~torn PROVE Housed(mem'.heroes, mem'.clans) /\ Headed(mem'.heroes, mem'.clans)
      BY <1>w
    <2>0. \A v \in Users : mem.heroes[v] # None => mem.heroes[v].clan # k
      <3> TAKE v \in Users
      <3> HAVE mem.heroes[v] # None
      <3>1. mem.heroes[v].clan < k BY <1>7
      <3> QED BY <1>0, <3>1
    <2>1. Housed(mem'.heroes, mem'.clans)
      <3> SUFFICES ASSUME NEW v \in Users, mem'.heroes[v] # None, mem'.heroes[v].clan # NoClan
                   PROVE  mem'.clans[mem'.heroes[v].clan] # None
        BY DEF Housed
      <3>1. CASE v = u BY <1>2, <1>3, <1>4, <3>1
      <3>2. CASE v # u
        <4>1. mem'.heroes[v] = mem.heroes[v] /\ mem.heroes[v] \in Hero BY <1>0, <1>4, <3>2
        <4>2. mem.heroes[v].clan \in ClanIds \ {k} BY <2>0, <4>1 DEF Hero
        <4> QED BY <1>4, <4>1, <4>2 DEF Housed
      <3> QED BY <3>1, <3>2
    <2>2. Headed(mem'.heroes, mem'.clans)
      <3> SUFFICES ASSUME NEW j \in ClanIds, mem'.clans[j] # None, NEW v \in Users, mem'.heroes[v] # None
                   PROVE (mem'.heroes[v].clan = j /\ mem'.heroes[v].role = ClanHead) <=> v = mem'.clans[j].head
        BY DEF Headed
      <3>1. CASE j = k /\ v = u BY <1>2, <1>3, <1>4, <3>1
      <3>2. CASE j = k /\ v # u BY <1>2, <1>3, <1>4, <2>0, <3>2
      <3>3. CASE j # k /\ v = u
        <4>1. mem'.heroes[v].clan # j BY <1>2, <1>3, <1>4, <3>3
        <4>2. v # mem.clans[j].head
          <5>1. mem.heroes[u].clan # j BY <1>1 DEF ClanIds, NoClan
          <5> QED BY <1>1, <1>4, <3>3, <5>1 DEF Headed
        <4> QED BY <1>4, <3>3, <4>1, <4>2
      <3>4. CASE j # k /\ v # u BY <1>4, <3>4 DEF Headed
      <3> QED BY <3>1, <3>2, <3>3, <3>4
    <2> QED BY <2>1, <2>2
  <1>15. Capped'
    <2>1. ASSUME NEW j \in ClanIds, j # k
          PROVE MembersIn(mem'.heroes, j) \subseteq MembersIn(mem.heroes, j)
      BY <1>2, <1>3, <1>4, <2>1 DEF MembersIn
    <2>2. /\ MembersIn(mem'.heroes, k) = MembersIn(mem.heroes, k) \cup {u}
          /\ Cardinality(MembersIn(mem.heroes, k)) < ClanMaxMembers
      <3>1. MembersIn(mem.heroes, k) = {}
        <4>1. \A v \in Users : mem.heroes[v] # None => mem.heroes[v].clan # k
          <5> TAKE v \in Users
          <5> HAVE mem.heroes[v] # None
          <5>1. mem.heroes[v].clan < k BY <1>7
          <5> QED BY <1>0, <5>1
        <4> QED BY <4>1 DEF MembersIn
      <3>2. MembersIn(mem'.heroes, k) = {u}
        <4>1. \A v \in Users \ {u} : mem.heroes[v] # None => mem.heroes[v].clan # k
          BY <3>1 DEF MembersIn
        <4> QED BY <1>2, <1>3, <1>4, <4>1 DEF MembersIn
      <3>3. Cardinality({}) = 0 BY FS_EmptySet
      <3> QED BY <3>1, <3>2, <3>3
    <2>3. disk' = disk BY <1>w
    <2> QED BY <1>1, <2>1, <2>2, <2>3, CapKept
  <1> QED BY <1>5, <1>9, <1>10, <1>11, <1>12, <1>13, <1>14, <1>15

\* An operation that lets nobody in or out and founds and disbands no clan.
LEMMA SameMembers ==
  ASSUME ClanInv, Free, UNCHANGED <<disk, invites, founded, torn>>, TypeOK', HeroesLast', Saved',
         Mark(mem)' = Mark(mem), MetaRow \notin Unwritten',
         \A k \in ClanIds : <<"clans", k>> \in Unwritten' => mem'.clans[k] # None,
         \A k \in ClanIds : mem'.clans[k] # None <=> mem.clans[k] # None,
         \A u \in Users : mem'.heroes[u] # None <=> mem.heroes[u] # None,
         \A u \in Users : mem.heroes[u] # None => mem'.heroes[u].clan = mem.heroes[u].clan,
         Ranked(mem'.heroes),
         ~torn => Headed(mem'.heroes, mem'.clans)
  PROVE  ClanInv'
  <1> USE DEF ClanInv
  <1>1. Numbered' /\ Fresh'
    <2>1. \A u \in Users : mem'.heroes[u] # None => mem'.heroes[u].clan < Mark(disk)
      BY Quiet DEF Exists, Of
    <2>2. \A u \in Users : invites'[u] < Mark(disk) BY DEF Numbered
    <2> QED BY <2>1, <2>2, NoFounding
  <1>2. Capped'
    <2>1. \A k \in ClanIds : MembersIn(mem'.heroes, k) \subseteq MembersIn(mem.heroes, k) BY DEF MembersIn
    <2> QED BY <2>1, CapKept
  <1>3. Ranked(disk'.heroes) OBVIOUS
  <1>4. ~torn' => Housed(mem'.heroes, mem'.clans)
    <2> SUFFICES ASSUME ~torn, NEW u \in Users, mem'.heroes[u] # None, mem'.heroes[u].clan # NoClan
                 PROVE  mem'.clans[mem'.heroes[u].clan] # None
      BY DEF Housed
    <2>1. mem.heroes[u] # None /\ mem'.heroes[u].clan = mem.heroes[u].clan OBVIOUS
    <2>2. mem.clans[mem.heroes[u].clan] # None BY <2>1 DEF Housed
    <2>3. mem.heroes[u].clan \in ClanIds
      <3>1. mem.heroes \in [Users -> Hero \cup {None}] BY TablesShape DEF TypeOK
      <3> QED BY <2>1, <3>1 DEF Hero
    <2> QED BY <2>1, <2>2, <2>3
  <1> QED BY <1>1, <1>2, <1>3, <1>4

\* Changing the heroes of a set, each to a hero, is a change of that table.
LEMMA HeroesChanged ==
  ASSUME NEW m \in Tables, NEW hs \in [Users -> Hero \cup {None}]
  PROVE  /\ [m EXCEPT !.heroes = hs] \in Tables
         /\ [m EXCEPT !.heroes = hs].heroes = hs
         /\ [m EXCEPT !.heroes = hs].clans = m.clans /\ [m EXCEPT !.heroes = hs].meta = m.meta
         /\ [m EXCEPT !.heroes = hs].owner = m.owner /\ [m EXCEPT !.heroes = hs].log = m.log
BY DEF Tables

LEMMA EditRolesFacts ==
  ASSUME ClanInv, NEW a \in Users, NEW roles \in Batches(a), RolesAllowed(a, roles)
  PROVE  /\ DOMAIN roles \in SUBSET Users /\ DOMAIN roles # {}
         /\ \A t \in DOMAIN roles : /\ mem.heroes[t] # None /\ mem.heroes[t].clan = mem.heroes[a].clan
                                    /\ roles[t] \in Roles
         /\ mem.heroes[a] # None /\ mem.heroes[a].clan \in ClanIds
  <1>1. mem.heroes \in [Users -> Hero \cup {None}] BY TablesShape DEF TypeOK, ClanInv
  <1>2. InClan(a) BY DEF RolesAllowed
  <1>3. PICK us \in (SUBSET Members(Of(a).clan)) \ {{}} : roles \in [us -> Edits] BY <1>2 DEF Batches
  <1>4. DOMAIN roles = us BY <1>3
  <1>5. us \in SUBSET Users /\ us # {} BY <1>3 DEF Members
  <1>6. mem.heroes[a] # None /\ mem.heroes[a].clan \in ClanIds BY <1>1, <1>2 DEF InClan, Exists, Of, Hero
  <1>7. \A t \in DOMAIN roles : EditAllowed(a, t, roles[t]) BY DEF RolesAllowed
  <1> QED BY <1>4, <1>5, <1>6, <1>7 DEF EditAllowed, Exists, Of

LEMMA EditedFacts ==
  ASSUME NEW m \in Tables, mem = m, NEW D \in SUBSET Users, NEW roles, DOMAIN roles = D,
         \A t \in D : m.heroes[t] # None /\ roles[t] \in Roles
  PROVE  /\ Edited(roles) \in Tables
         /\ Edited(roles).clans = m.clans /\ Edited(roles).meta = m.meta
         /\ Edited(roles).owner = m.owner /\ Edited(roles).log = m.log
         /\ \A t \in Users \ D : Edited(roles).heroes[t] = m.heroes[t]
         /\ \A t \in D : /\ Edited(roles).heroes[t] \in Hero
                         /\ Edited(roles).heroes[t].clan = m.heroes[t].clan
                         /\ Edited(roles).heroes[t].role = roles[t]
  <1> DEFINE hs == [u \in Users |-> IF u \in DOMAIN roles THEN [m.heroes[u] EXCEPT !.role = roles[u]]
                                                          ELSE m.heroes[u]]
  <1>1. m.heroes \in [Users -> Hero \cup {None}] BY TablesShape
  <1>2. \A t \in D : /\ [m.heroes[t] EXCEPT !.role = roles[t]] \in Hero
                     /\ [m.heroes[t] EXCEPT !.role = roles[t]].clan = m.heroes[t].clan
                     /\ [m.heroes[t] EXCEPT !.role = roles[t]].role = roles[t]
    <2> TAKE t \in D
    <2>1. m.heroes[t] \in Hero /\ roles[t] \in Roles BY <1>1
    <2> QED BY <2>1 DEF Hero
  <1>3. Edited(roles) = [m EXCEPT !.heroes = hs] BY DEF Edited, Tables
  <1>4. /\ hs \in [Users -> Hero \cup {None}]
        /\ \A t \in Users \ D : hs[t] = m.heroes[t]
        /\ \A t \in D : hs[t] = [m.heroes[t] EXCEPT !.role = roles[t]]
    BY <1>1, <1>2
  <1> DEFINE e == [m EXCEPT !.heroes = hs]
  <1> HIDE DEF hs
  <1>5. /\ e \in Tables /\ e.heroes = hs /\ e.clans = m.clans /\ e.meta = m.meta
        /\ e.owner = m.owner /\ e.log = m.log
    BY <1>4, HeroesChanged
  <1>6. Edited(roles) = e BY <1>3
  <1> HIDE DEF e
  <1>7. \A t \in D : /\ hs[t] \in Hero /\ hs[t].clan = m.heroes[t].clan /\ hs[t].role = roles[t]
    BY <1>2, <1>4
  <1> QED BY <1>4, <1>5, <1>6, <1>7

LEMMA EditRolesInv ==
  ASSUME ClanInv, NEW a \in Users, NEW roles \in Batches(a), EditRoles(a, roles)
  PROVE  ClanInv'
  <1> DEFINE D == DOMAIN roles
             A == HeroRows(D)
  <1>1. /\ RolesAllowed(a, roles) /\ NewHeads(roles) = {} /\ Free
        /\ mem' = Edited(roles) /\ writes' = <<A>>
        /\ UNCHANGED <<disk, invites, cooling, founded, torn>>
    BY DEF EditRoles, Commit
  <1>2. /\ D \in SUBSET Users /\ D # {}
        /\ \A t \in D : mem.heroes[t] # None /\ roles[t] \in Roles
    BY <1>1, EditRolesFacts
  <1>3. mem \in Tables /\ mem.heroes \in [Users -> Hero \cup {None}] BY TablesShape DEF ClanInv, TypeOK
  <1> DEFINE e == Edited(roles)
  <1>4. /\ e \in Tables
        /\ e.clans = mem.clans /\ e.meta = mem.meta /\ e.owner = mem.owner /\ e.log = mem.log
        /\ \A t \in Users \ D : e.heroes[t] = mem.heroes[t]
        /\ \A t \in D : /\ e.heroes[t] \in Hero /\ e.heroes[t].clan = mem.heroes[t].clan
                         /\ e.heroes[t].role = roles[t]
    BY ONLY <1>2, <1>3, EditedFacts
  <1>5. A \in (SUBSET Rows) \ {{}} /\ MetaRow \notin A /\ \A t \in D : <<"heroes", t>> \in A
    BY <1>2, HeroRowsFacts
  <1>6. \A j \in ClanIds : <<"clans", j>> \notin A BY <1>2, HeroRowsFacts
  <1>7. mem' = e BY <1>1
  <1> HIDE DEF e, A
  <1>8. writes' \in Seq((SUBSET Rows) \ {{}}) /\ Unwritten' = A /\ HeroesLast' BY <1>1, <1>5, OneBatch
  <1>9. TypeOK' BY <1>1, <1>4, <1>7, <1>8 DEF TypeOK, ClanInv
  <1>10. Saved'
    <2>1. \A u \in Users : disk'.heroes[u] = mem'.heroes[u] \/ <<"heroes", u>> \in Unwritten'
      BY <1>1, <1>4, <1>5, <1>7, <1>8, Quiet
    <2>2. disk'.clans = mem'.clans /\ disk'.owner = mem'.owner /\ disk'.log = mem'.log
      BY <1>1, <1>4, <1>7, Quiet
    <2> QED BY <2>1, <2>2 DEF Saved
  <1>11. \A t \in D : roles[t] # ClanHead BY <1>1 DEF NewHeads
  <1>12. \A t \in D : mem.heroes[t].role # ClanHead /\ mem.heroes[t].clan # NoClan
    <2> TAKE t \in D
    <2>1. EditAllowed(a, t, roles[t]) BY <1>1 DEF RolesAllowed
    <2>2. mem.heroes[a].role > mem.heroes[t].role /\ mem.heroes[t].clan = mem.heroes[a].clan
      BY <1>11, <2>1 DEF EditAllowed, Of
    <2>3. mem.heroes[a] \in Hero /\ mem.heroes[t] \in Hero /\ mem.heroes[a].clan \in ClanIds
      BY <1>1, <1>2, <1>3, EditRolesFacts
    <2> QED BY <2>2, <2>3 DEF Hero, Roles, ClanHead, Warrior, ClanIds, NoClan
  <1>13. \A u \in Users : /\ mem'.heroes[u] # None <=> mem.heroes[u] # None
                          /\ mem.heroes[u] # None => mem'.heroes[u].clan = mem.heroes[u].clan
    <2> TAKE u \in Users
    <2>1. CASE u \in D
      <3>1. None \notin Hero OBVIOUS
      <3> QED BY <1>2, <1>4, <1>7, <2>1, <3>1
    <2>2. CASE u \notin D BY <1>4, <1>7, <2>2
    <2> QED BY <2>1, <2>2
  <1>14. Ranked(mem'.heroes)
    <2> SUFFICES ASSUME NEW u \in Users, mem'.heroes[u] # None
                 PROVE  (mem'.heroes[u].role = 0) <=> (mem'.heroes[u].clan = NoClan)
      BY DEF Ranked
    <2>1. CASE u \in D
      <3>1. roles[u] # 0 BY <1>2, <2>1 DEF Roles, Warrior
      <3> QED BY <1>4, <1>7, <1>12, <2>1, <3>1
    <2>2. CASE u \notin D BY <1>4, <1>7, <2>2 DEF ClanInv, Ranked
    <2> QED BY <2>1, <2>2
  <1>15. ~torn => Headed(mem'.heroes, mem'.clans)
    <2> SUFFICES ASSUME ~torn, NEW j \in ClanIds, mem'.clans[j] # None, NEW v \in Users, mem'.heroes[v] # None
                 PROVE (mem'.heroes[v].clan = j /\ mem'.heroes[v].role = ClanHead) <=> v = mem'.clans[j].head
      BY DEF Headed
    <2>1. (mem.heroes[v].clan = j /\ mem.heroes[v].role = ClanHead) <=> v = mem.clans[j].head
      BY <1>4, <1>7, <1>13 DEF ClanInv, Headed
    <2>2. CASE v \in D BY <1>4, <1>7, <1>11, <1>12, <2>1, <2>2
    <2>3. CASE v \notin D BY <1>4, <1>7, <2>1, <2>3
    <2> QED BY <2>2, <2>3
  <1>16. Mark(mem)' = Mark(mem) BY <1>4, <1>7 DEF Mark
  <1> HIDE DEF D
  <1> QED BY <1>1, <1>4, <1>5, <1>6, <1>7, <1>8, <1>9, <1>10, <1>13, <1>14, <1>15, <1>16, SameMembers

LEMMA TransferHeadInv ==
  ASSUME ClanInv, NEW a \in Users, NEW roles \in Batches(a), TransferHead(a, roles)
  PROVE  ClanInv'
  <1> DEFINE D == DOMAIN roles
             k == mem.heroes[a].clan
             e == Edited(roles)
             ha == [mem.heroes[a] EXCEPT !.role = Deputy]
             m == [e EXCEPT !.heroes[a].role = Deputy]
             A == HeroRows(D \cup {a})
  <1>1. /\ RolesAllowed(a, roles) /\ NewHeads(roles) # {} /\ Free
        /\ UNCHANGED <<disk, invites, cooling, founded, torn>>
    BY DEF TransferHead, TransferBy, Commit
  <1>w. IF mem.clans[k] = None
          THEN mem' = m /\ writes' = <<A>>
          ELSE /\ mem' = [m EXCEPT !.clans[k].head = CHOOSE t \in NewHeads(roles) : TRUE]
               /\ writes' = <<{<<"clans", k>>}, A>>
    BY DEF TransferHead, TransferBy, Commit, Of
  <1>2. /\ D \in SUBSET Users /\ D # {}
        /\ \A t \in D : mem.heroes[t] # None /\ roles[t] \in Roles
        /\ \A t \in D : mem.heroes[t].clan = k
        /\ mem.heroes[a] # None /\ k \in ClanIds
    BY <1>1, EditRolesFacts
  <1>3. /\ mem \in Tables /\ mem.heroes \in [Users -> Hero \cup {None}] /\ mem.clans \in [ClanIds -> Clan \cup {None}]
    BY TablesShape DEF ClanInv, TypeOK
  <1>4. /\ e \in Tables
        /\ e.clans = mem.clans /\ e.meta = mem.meta /\ e.owner = mem.owner /\ e.log = mem.log
        /\ \A t \in Users \ D : e.heroes[t] = mem.heroes[t]
        /\ \A t \in D : /\ e.heroes[t] \in Hero /\ e.heroes[t].clan = mem.heroes[t].clan
                        /\ e.heroes[t].role = roles[t]
    <2>1. D \in SUBSET Users /\ \A t \in D : mem.heroes[t] # None /\ roles[t] \in Roles BY <1>2
    <2>2. mem \in Tables BY <1>3
    <2> QED BY ONLY <2>1, <2>2, EditedFacts
  <1>5. Of(a).role = ClanHead /\ Cardinality(NewHeads(roles)) = 1 /\ a \notin NewHeads(roles)
    BY <1>1 DEF RolesAllowed
  <1>6. a \notin D
    <2> SUFFICES ASSUME a \in D PROVE FALSE OBVIOUS
    <2>1. EditAllowed(a, a, roles[a]) BY <1>1 DEF RolesAllowed
    <2>2. roles[a] # ClanHead BY <1>5 DEF NewHeads
    <2>3. mem.heroes[a] \in Hero BY <1>2, <1>3
    <2>4. mem.heroes[a].role > mem.heroes[a].role BY <2>1, <2>2 DEF EditAllowed, Of
    <2> QED BY <2>3, <2>4 DEF Hero, Roles, Warrior, ClanHead
  <1>7. PICK t \in D : NewHeads(roles) = {t} /\ roles[t] = ClanHead /\ t # a
    <2>1. NewHeads(roles) \subseteq D BY DEF NewHeads
    <2>2. IsFiniteSet(NewHeads(roles)) BY <1>2, <2>1, FS_Subset
    <2>3. PICK t : NewHeads(roles) = {t} BY <1>5, <2>2, FS_Singleton
    <2> QED BY <1>5, <2>1, <2>3 DEF NewHeads
  <1>8. \A v \in D : v # t => roles[v] # ClanHead BY <1>7 DEF NewHeads
  <1>9. ha \in Hero /\ ha.clan = k /\ ha.role = Deputy /\ Deputy \in Roles /\ Deputy # ClanHead
    BY <1>2, <1>3 DEF Hero, Roles, Warrior, Deputy, ClanHead
  <1>10. /\ m \in Tables
         /\ m.clans = mem.clans /\ m.meta = mem.meta /\ m.owner = mem.owner /\ m.log = mem.log
         /\ m.heroes[a] = ha
         /\ \A v \in Users \ {a} : m.heroes[v] = e.heroes[v]
    <2> DEFINE hs == [e.heroes EXCEPT ![a] = ha]
    <2>1. e.heroes \in [Users -> Hero \cup {None}] BY <1>4, TablesShape
    <2>2. e.heroes[a] = mem.heroes[a] BY <1>4, <1>6
    <2>3. m = [e EXCEPT !.heroes = hs] BY <1>4, <2>1, <2>2 DEF Tables, Hero
    <2>4. hs \in [Users -> Hero \cup {None}] /\ hs[a] = ha /\ \A v \in Users \ {a} : hs[v] = e.heroes[v]
      <3> HIDE DEF ha, e
      <3> QED BY <1>9, <2>1
    <2> DEFINE x == [e EXCEPT !.heroes = hs]
    <2> HIDE DEF hs, e
    <2>5. /\ x \in Tables /\ x.heroes = hs /\ x.clans = e.clans /\ x.meta = e.meta
          /\ x.owner = e.owner /\ x.log = e.log
      BY <1>4, <2>4, HeroesChanged
    <2>6. m = x BY <2>3
    <2> HIDE DEF x, m, ha
    <2> QED BY <1>4, <2>4, <2>5, <2>6
  <1> HIDE DEF m, e, ha, A
  <1>11. /\ A \in (SUBSET Rows) \ {{}} /\ MetaRow \notin A
         /\ \A v \in D \cup {a} : <<"heroes", v>> \in A
         /\ \A j \in ClanIds : <<"clans", j>> \notin A
    BY <1>2, HeroRowsFacts DEF A
  <1>12. /\ mem' \in Tables /\ mem'.heroes = m.heroes /\ mem'.meta = mem.meta
         /\ mem'.owner = mem.owner /\ mem'.log = mem.log
         /\ \A j \in ClanIds \ {k} : mem'.clans[j] = mem.clans[j]
         /\ mem.clans[k] = None => mem'.clans[k] = None
         /\ mem.clans[k] # None => mem'.clans[k] \in Clan /\ mem'.clans[k].head = t
    <2>1. CASE mem.clans[k] = None BY <1>10, <1>w, <2>1
    <2>2. CASE mem.clans[k] # None
      <3> DEFINE c == [mem.clans[k] EXCEPT !.head = t]
                 cs == [m.clans EXCEPT ![k] = c]
      <3>1. mem.clans[k] \in Clan BY <1>2, <1>3, <2>2
      <3>2. c \in Clan /\ c.head = t BY <1>2, <3>1 DEF Clan
      <3>3. (CHOOSE x \in NewHeads(roles) : TRUE) = t BY <1>7
      <3>4. mem' = [m EXCEPT !.clans[k].head = t] BY <1>w, <2>2, <3>3
      <3>5. mem' = [m EXCEPT !.clans = cs] BY <1>2, <1>3, <1>10, <3>1, <3>4 DEF Tables, Clan
      <3> HIDE DEF c
      <3>6. cs \in [ClanIds -> Clan \cup {None}] /\ cs[k] = c /\ \A j \in ClanIds \ {k} : cs[j] = mem.clans[j]
        BY <1>2, <1>3, <1>10, <3>2
      <3> HIDE DEF cs
      <3>7. /\ mem' \in Tables /\ mem'.heroes = m.heroes /\ mem'.meta = m.meta /\ mem'.clans = cs
            /\ mem'.owner = m.owner /\ mem'.log = m.log
        BY <1>10, <3>5, <3>6 DEF Tables
      <3> QED BY <1>10, <2>2, <3>2, <3>6, <3>7
    <2> QED BY <2>1, <2>2
  <1>13. /\ writes' \in Seq((SUBSET Rows) \ {{}}) /\ HeroesLast' /\ MetaRow \notin Unwritten'
         /\ A \subseteq Unwritten'
         /\ \A j \in ClanIds : <<"clans", j>> \in Unwritten' => j = k /\ mem.clans[k] # None
         /\ mem.clans[k] # None => <<"clans", k>> \in Unwritten'
    <2>1. CASE mem.clans[k] = None
      <3>1. writes' = <<A>> BY <1>w, <2>1
      <3>2. writes' \in Seq((SUBSET Rows) \ {{}}) /\ Unwritten' = A /\ HeroesLast' BY <1>11, <3>1, OneBatch
      <3> QED BY <1>11, <2>1, <3>2
    <2>2. CASE mem.clans[k] # None
      <3> DEFINE C == {<<"clans", k>>}
      <3>1. writes' = <<C, A>> BY <1>w, <2>2
      <3>2. C \in (SUBSET Rows) \ {{}} /\ MetaRow \notin C BY <1>2, RowNames DEF MetaRow
      <3>3. writes' \in Seq((SUBSET Rows) \ {{}}) /\ Unwritten' = C \cup A /\ HeroesLast'
        <4> HIDE DEF C
        <4> QED BY <1>11, <3>1, <3>2, TwoBatches
      <3> QED BY <1>11, <2>2, <3>2, <3>3
    <2> QED BY <2>1, <2>2
  <1>14. TypeOK' BY <1>1, <1>12, <1>13 DEF TypeOK, ClanInv
  <1>15. Saved'
    <2>1. \A u \in Users : disk'.heroes[u] = mem'.heroes[u] \/ <<"heroes", u>> \in Unwritten'
      <3> TAKE u \in Users
      <3>1. disk'.heroes[u] = mem.heroes[u] BY <1>1, Quiet
      <3>2. CASE u \in D \cup {a} BY <1>11, <1>13, <3>2
      <3>3. CASE u \notin D \cup {a} BY <1>4, <1>10, <1>12, <3>1, <3>3
      <3> QED BY <3>2, <3>3
    <2>2. \A j \in ClanIds : disk'.clans[j] = mem'.clans[j] \/ <<"clans", j>> \in Unwritten'
      <3> TAKE j \in ClanIds
      <3>1. disk'.clans[j] = mem.clans[j] BY <1>1, Quiet
      <3> QED BY <1>12, <1>13, <3>1
    <2>3. disk'.owner = mem'.owner /\ disk'.log = mem'.log BY <1>1, <1>12, Quiet
    <2> QED BY <2>1, <2>2, <2>3 DEF Saved
  <1>16. \A u \in Users : /\ mem'.heroes[u] # None <=> mem.heroes[u] # None
                          /\ mem.heroes[u] # None => mem'.heroes[u].clan = mem.heroes[u].clan
    <2> TAKE u \in Users
    <2>0. None \notin Hero OBVIOUS
    <2>1. CASE u \in D BY <1>2, <1>4, <1>6, <1>10, <1>12, <2>0, <2>1
    <2>2. CASE u = a BY <1>2, <1>9, <1>10, <1>12, <2>0, <2>2
    <2>3. CASE u \notin D /\ u # a BY <1>4, <1>10, <1>12, <2>3
    <2> QED BY <2>1, <2>2, <2>3
  <1>17. k # NoClan BY <1>2 DEF ClanIds, NoClan
  <1>18. Ranked(mem'.heroes)
    <2> SUFFICES ASSUME NEW u \in Users, mem'.heroes[u] # None
                 PROVE  (mem'.heroes[u].role = 0) <=> (mem'.heroes[u].clan = NoClan)
      BY DEF Ranked
    <2>1. CASE u \in D
      <3>1. roles[u] # 0 BY <1>2, <2>1 DEF Roles, Warrior
      <3> QED BY <1>2, <1>4, <1>6, <1>10, <1>12, <1>17, <2>1, <3>1
    <2>2. CASE u = a BY <1>9, <1>10, <1>12, <1>17, <2>2 DEF Deputy
    <2>3. CASE u \notin D /\ u # a BY <1>4, <1>10, <1>12, <2>3 DEF ClanInv, Ranked
    <2> QED BY <2>1, <2>2, <2>3
  <1>19. ~torn => Headed(mem'.heroes, mem'.clans)
    <2> SUFFICES ASSUME ~torn, NEW j \in ClanIds, mem'.clans[j] # None, NEW v \in Users, mem'.heroes[v] # None
                 PROVE (mem'.heroes[v].clan = j /\ mem'.heroes[v].role = ClanHead) <=> v = mem'.clans[j].head
      BY DEF Headed
    <2>1. mem.clans[j] # None BY <1>12
    <2>2. (mem.heroes[v].clan = j /\ mem.heroes[v].role = ClanHead) <=> v = mem.clans[j].head
      BY <1>16, <2>1 DEF ClanInv, Headed
    <2>3. j = k => a = mem.clans[j].head BY <1>2, <1>5, <2>1 DEF ClanInv, Headed, Of
    <2>4. mem'.heroes[v].clan = mem.heroes[v].clan BY <1>16
    <2>5. CASE v \in D
      <3>1. v # a /\ mem'.heroes[v].clan = k /\ mem'.heroes[v].role = roles[v]
        BY <1>2, <1>4, <1>6, <1>10, <1>12, <2>5
      <3>2. CASE j = k BY <1>7, <1>8, <1>12, <2>1, <2>5, <3>1, <3>2
      <3>3. CASE j # k BY <1>2, <1>12, <2>2, <2>5, <3>1, <3>3
      <3> QED BY <3>2, <3>3
    <2>6. CASE v = a
      <3>1. mem'.heroes[v].role # ClanHead BY <1>9, <1>10, <1>12, <2>6
      <3>2. CASE j = k BY <1>7, <1>12, <2>1, <2>6, <3>1, <3>2
      <3>3. CASE j # k BY <1>12, <2>2, <2>6, <3>1, <3>3
      <3> QED BY <3>2, <3>3
    <2>7. CASE v \notin D /\ v # a
      <3>1. mem'.heroes[v] = mem.heroes[v] BY <1>4, <1>10, <1>12, <2>7
      <3>2. CASE j = k BY <1>7, <1>12, <2>1, <2>2, <2>3, <2>7, <3>1, <3>2
      <3>3. CASE j # k BY <1>12, <2>2, <3>1, <3>3
      <3> QED BY <3>2, <3>3
    <2> QED BY <2>5, <2>6, <2>7
  <1>20. Mark(mem)' = Mark(mem) BY <1>12 DEF Mark
  <1>21. \A j \in ClanIds : /\ <<"clans", j>> \in Unwritten' => mem'.clans[j] # None
                            /\ mem'.clans[j] # None <=> mem.clans[j] # None
    <2> TAKE j \in ClanIds
    <2>0. None \notin Clan OBVIOUS
    <2> QED BY <1>12, <1>13, <2>0
  <1> HIDE DEF D, k
  <1> QED BY <1>1, <1>13, <1>14, <1>15, <1>16, <1>18, <1>19, <1>20, <1>21, SameMembers

LEMMA DisbandInv ==
  ASSUME ClanInv, NEW a \in Users, DisbandClan(a)
  PROVE  ClanInv'
  <1> DEFINE k == mem.heroes[a].clan
             M == Members(k)
             hs == [u \in Users |-> IF u \in M THEN [mem.heroes[u] EXCEPT !.clan = NoClan, !.role = 0]
                                               ELSE mem.heroes[u]]
             cs == [mem.clans EXCEPT ![k] = None]
             A == {<<"clans", k>>}
             B == HeroRows(M)
  <1>0. /\ mem \in Tables /\ disk \in Tables
        /\ mem.heroes \in [Users -> Hero \cup {None}] /\ mem.clans \in [ClanIds -> Clan \cup {None}]
        /\ Mark(disk) \in Nat /\ Mark(mem) \in Nat /\ 1 <= Mark(disk)
    BY TablesShape DEF ClanInv, TypeOK, Numbered
  <1>1. /\ InClan(a) /\ mem.heroes[a].role = ClanHead /\ Free
        /\ mem' = [mem EXCEPT !.clans[k] = None, !.heroes = hs]
        /\ writes' = <<A, B>>
        /\ UNCHANGED <<disk, invites, cooling, founded, torn>>
    BY <1>0 DEF DisbandClan, Commit, Of, Tables
  <1>2. mem.heroes[a] # None /\ k \in ClanIds /\ k # NoClan /\ a \in M /\ M \in SUBSET Users
    BY <1>0, <1>1 DEF InClan, Exists, Of, Hero, Members
  <1>3. k < Mark(disk) BY <1>1, <1>2, Quiet DEF Exists, Of
  <1>m. \A u \in Users : u \in M <=> mem.heroes[u] # None /\ mem.heroes[u].clan = k
    BY DEF Members, Exists, Of
  <1>4. \A u \in M : /\ hs[u] \in Hero /\ hs[u].clan = NoClan /\ hs[u].role = 0
    <2> TAKE u \in M
    <2>1. u \in Users BY <1>2
    <2>2. mem.heroes[u] \in Hero BY <1>0, <1>m, <2>1
    <2>3. hs[u] = [mem.heroes[u] EXCEPT !.clan = NoClan, !.role = 0] BY <2>1
    <2> HIDE DEF hs, M
    <2> QED BY <2>2, <2>3 DEF Hero
  <1>5. /\ \A u \in Users : u \notin M => hs[u] = mem.heroes[u]
        /\ hs \in [Users -> Hero \cup {None}]
    BY <1>0, <1>4
  <1>6. /\ cs \in [ClanIds -> Clan \cup {None}] /\ cs[k] = None
        /\ \A j \in ClanIds : j # k => cs[j] = mem.clans[j]
    BY <1>0, <1>2
  <1>7. mem' = [mem EXCEPT !.clans = cs, !.heroes = hs] BY <1>0, <1>1 DEF Tables
  <1>8. /\ A \in (SUBSET Rows) \ {{}} /\ MetaRow \notin A /\ B \in (SUBSET Rows) \ {{}} /\ MetaRow \notin B
        /\ \A u \in M : <<"heroes", u>> \in B
        /\ \A j \in ClanIds : <<"clans", j>> \notin B
        /\ \A j \in ClanIds : <<"clans", j>> \in A <=> j = k
    BY <1>2, HeroRowsFacts, RowNames DEF MetaRow
  <1> HIDE DEF hs, cs, A, B
  <1>9. /\ mem' \in Tables /\ mem'.heroes = hs /\ mem'.clans = cs /\ mem'.meta = mem.meta
        /\ mem'.owner = mem.owner /\ mem'.log = mem.log
    BY <1>0, <1>5, <1>6, <1>7 DEF Tables
  <1>10. writes' \in Seq((SUBSET Rows) \ {{}}) /\ Unwritten' = A \cup B /\ HeroesLast'
    BY <1>1, <1>8, TwoBatches
  <1>11. TypeOK' BY <1>1, <1>9, <1>10 DEF TypeOK, ClanInv
  <1>12. Saved'
    <2>1. \A u \in Users : disk'.heroes[u] = mem'.heroes[u] \/ <<"heroes", u>> \in Unwritten'
      BY <1>1, <1>5, <1>8, <1>9, <1>10, Quiet
    <2>2. \A j \in ClanIds : disk'.clans[j] = mem'.clans[j] \/ <<"clans", j>> \in Unwritten'
      <3> TAKE j \in ClanIds
      <3>1. disk'.clans[j] = mem.clans[j] BY <1>1, Quiet
      <3> QED BY <1>6, <1>8, <1>9, <1>10, <3>1
    <2>3. disk'.owner = mem'.owner /\ disk'.log = mem'.log BY <1>1, <1>9, Quiet
    <2> QED BY <2>1, <2>2, <2>3 DEF Saved
  <1>13. Numbered' /\ Fresh'
    <2>1. \A u \in Users : mem'.heroes[u] # None => mem'.heroes[u].clan < Mark(disk)
      <3> SUFFICES ASSUME NEW u \in Users, mem'.heroes[u] # None PROVE mem'.heroes[u].clan < Mark(disk)
        OBVIOUS
      <3>1. CASE u \in M BY <1>0, <1>4, <1>9, <3>1 DEF NoClan
      <3>2. CASE u \notin M
        <4>1. mem'.heroes[u] = mem.heroes[u] BY <1>5, <1>9, <3>2
        <4> QED BY <1>1, <4>1, Quiet DEF Exists, Of
      <3> QED BY <3>1, <3>2
    <2>2. \A u \in Users : invites'[u] < Mark(disk) BY <1>1 DEF Numbered, ClanInv
    <2>3. Mark(mem)' = Mark(mem) BY <1>9 DEF Mark
    <2>4. MetaRow \notin Unwritten' BY <1>8, <1>10
    <2>5. \A j \in ClanIds : mem'.clans[j] # None => mem.clans[j] # None BY <1>6, <1>9
    <2>6. \A j \in ClanIds : <<"clans", j>> \in Unwritten' /\ mem'.clans[j] = None => j < Mark(disk)
      BY <1>3, <1>8, <1>10
    <2> HIDE DEF M, k
    <2> QED BY <1>1, <1>11, <2>1, <2>2, <2>3, <2>4, <2>5, <2>6, NoFounding
  <1>14. Ranked(mem'.heroes) /\ Ranked(disk'.heroes)
    <2>1. ASSUME NEW u \in Users, mem'.heroes[u] # None
          PROVE  (mem'.heroes[u].role = 0) <=> (mem'.heroes[u].clan = NoClan)
      <3>1. CASE u \in M BY <1>4, <1>9, <3>1
      <3>2. CASE u \notin M BY <1>5, <1>9, <2>1, <3>2 DEF ClanInv, Ranked
      <3> QED BY <3>1, <3>2
    <2> QED BY <1>1, <2>1 DEF ClanInv, Ranked
  <1>15. ~torn' => Housed(mem'.heroes, mem'.clans) /\ Headed(mem'.heroes, mem'.clans)
    <2> SUFFICES ASSUME ~torn PROVE Housed(mem'.heroes, mem'.clans) /\ Headed(mem'.heroes, mem'.clans)
      BY <1>1
    <2>1. Housed(mem'.heroes, mem'.clans)
      <3> SUFFICES ASSUME NEW v \in Users, mem'.heroes[v] # None, mem'.heroes[v].clan # NoClan
                   PROVE  mem'.clans[mem'.heroes[v].clan] # None
        BY DEF Housed
      <3>1. v \notin M BY <1>4, <1>9
      <3>2. mem'.heroes[v] = mem.heroes[v] BY <1>5, <1>9, <3>1
      <3>3. mem.heroes[v].clan \in ClanIds BY <1>0, <3>2 DEF Hero
      <3>4. mem.heroes[v].clan # k BY <1>m, <3>1, <3>2
      <3>5. mem.clans[mem.heroes[v].clan] # None BY <3>2 DEF ClanInv, Housed
      <3> QED BY <1>6, <1>9, <3>2, <3>3, <3>4, <3>5
    <2>2. Headed(mem'.heroes, mem'.clans)
      <3> SUFFICES ASSUME NEW j \in ClanIds, mem'.clans[j] # None, NEW v \in Users, mem'.heroes[v] # None
                   PROVE (mem'.heroes[v].clan = j /\ mem'.heroes[v].role = ClanHead) <=> v = mem'.clans[j].head
        BY DEF Headed
      <3>1. j # k /\ mem'.clans[j] = mem.clans[j] BY <1>6, <1>9
      <3>2. CASE v \in M
        <4>1. mem.heroes[v] # None /\ mem.heroes[v].clan # j BY <1>m, <3>1, <3>2
        <4>2. v # mem.clans[j].head BY <3>1, <4>1 DEF ClanInv, Headed
        <4>3. mem'.heroes[v].role # ClanHead BY <1>4, <1>9, <3>2 DEF ClanHead
        <4> QED BY <3>1, <4>2, <4>3
      <3>3. CASE v \notin M
        <4>1. mem'.heroes[v] = mem.heroes[v] BY <1>5, <1>9, <3>3
        <4> QED BY <3>1, <4>1 DEF ClanInv, Headed
      <3> QED BY <3>2, <3>3
    <2> QED BY <2>1, <2>2
  <1>16. Capped'
    <2>1. \A j \in ClanIds : MembersIn(mem'.heroes, j) \subseteq MembersIn(mem.heroes, j)
      <3> SUFFICES ASSUME NEW j \in ClanIds, NEW v \in Users, mem'.heroes[v] # None, mem'.heroes[v].clan = j
                   PROVE mem.heroes[v] # None /\ mem.heroes[v].clan = j
        BY DEF MembersIn
      <3>1. v \notin M BY <1>4, <1>9 DEF ClanIds, NoClan
      <3> QED BY <1>5, <1>9, <3>1
    <2> QED BY <1>1, <2>1, CapKept
  <1> QED BY <1>10, <1>11, <1>12, <1>13, <1>14, <1>15, <1>16 DEF ClanInv

\* Only invites and cooldowns change.
LEMMA InvitesOnly ==
  ASSUME ClanInv, UNCHANGED <<mem, disk, writes, founded, torn>>,
         invites' \in [Users -> {NoClan} \cup ClanIds], \A v \in Users : invites'[v] < Mark(disk),
         cooling' \subseteq Users
  PROVE  ClanInv'
  <1> USE DEF ClanInv
  <1>1. Unwritten' = Unwritten /\ HeroesLast' BY DEF Unwritten, HeroesLast
  <1>2. TypeOK' BY DEF TypeOK
  <1>3. Saved' BY <1>1 DEF Saved
  <1>4. Numbered' /\ Fresh' BY <1>1 DEF Numbered, Fresh, Mark, Exists, Of
  <1>5. Ranked(mem'.heroes) /\ Ranked(disk'.heroes) OBVIOUS
  <1>6. Capped' BY DEF Capped
  <1>7. ~torn' => Housed(mem'.heroes, mem'.clans) /\ Headed(mem'.heroes, mem'.clans) OBVIOUS
  <1> QED BY <1>1, <1>2, <1>3, <1>4, <1>5, <1>6, <1>7

LEMMA RecordInviteInv ==
  ASSUME ClanInv, NEW a \in Users, NEW t \in Users, RecordClanInvite(a, t)
  PROVE  ClanInv'
  <1>0. /\ mem.heroes \in [Users -> Hero \cup {None}] /\ invites \in [Users -> {NoClan} \cup ClanIds]
        /\ cooling \subseteq Users
    BY TablesShape DEF ClanInv, TypeOK
  <1>1. /\ Free /\ InClan(a) /\ invites' = [invites EXCEPT ![t] = Of(a).clan]
        /\ cooling' = cooling \cup {t} /\ UNCHANGED <<mem, disk, writes, founded, torn>>
    BY DEF RecordClanInvite
  <1>2. Of(a).clan \in {NoClan} \cup ClanIds /\ Of(a).clan < Mark(disk)
    BY <1>0, <1>1, Quiet DEF InClan, Exists, Of, Hero
  <1>3. invites' \in [Users -> {NoClan} \cup ClanIds] /\ cooling' \subseteq Users BY <1>0, <1>1, <1>2
  <1>4. \A v \in Users : invites'[v] < Mark(disk) BY <1>0, <1>1, <1>2 DEF ClanInv, Numbered
  <1> QED BY <1>1, <1>3, <1>4, InvitesOnly

LEMMA CooldownEndsInv ==
  ASSUME ClanInv, NEW t \in Users, CooldownEnds(t)
  PROVE  ClanInv'
  <1>1. /\ invites' = invites /\ cooling' = cooling \ {t} /\ UNCHANGED <<mem, disk, writes, founded, torn>>
    BY DEF CooldownEnds
  <1>2. /\ invites' \in [Users -> {NoClan} \cup ClanIds] /\ cooling' \subseteq Users
        /\ \A v \in Users : invites'[v] < Mark(disk)
    BY <1>1 DEF ClanInv, TypeOK, Numbered
  <1> QED BY <1>1, <1>2, InvitesOnly

LEMMA NoBatch ==
  ASSUME writes' = <<>>
  PROVE  writes' \in Seq((SUBSET Rows) \ {{}}) /\ Unwritten' = {} /\ HeroesLast'
  <1>1. ToSet(writes') = {} BY DEF ToSet
  <1> QED BY <1>1 DEF Unwritten, HeroesLast

LEMMA SettleInv ==
  ASSUME ClanInv, NEW s \in Castles, NEW winner \in {NoClan} \cup ToSet(founded), NEW us \in Parties,
         SettleCastleBattle(s, winner, us)
  PROVE  ClanInv'
  <1> DEFINE paid == {u \in us : Exists(u)}
             hs == [u \in Users |-> IF u \in paid THEN [mem.heroes[u] EXCEPT !.won = mem.heroes[u].won + 1] ELSE mem.heroes[u]]
             m == [mem EXCEPT !.heroes = hs]
             siege == [winner |-> winner, fighters |-> paid]
             O == {<<"owner", s>>}
             L == {<<"log", s>>}
             B == HeroRows(paid)
  <1>0. /\ mem \in Tables
        /\ mem.heroes \in [Users -> Hero \cup {None}]
        /\ mem.owner \in [Castles -> {NoClan} \cup ClanIds] /\ mem.log \in [Castles -> Seq(Siege)]
    BY TablesShape DEF ClanInv, TypeOK
  <1>1. Free /\ UNCHANGED <<disk, invites, cooling, founded, torn>>
    BY DEF SettleCastleBattle, Commit
  <1>p. paid \in SUBSET Users /\ \A u \in paid : mem.heroes[u] # None BY DEF Exists
  <1>w. IF winner = NoClan
          THEN mem' = m /\ writes' = HeroBatch(paid)
          ELSE /\ mem' = [m EXCEPT !.owner[s] = winner, !.log[s] = Append(@, siege)]
               /\ writes' = <<O, L>> \o HeroBatch(paid)
    BY DEF SettleCastleBattle, Commit, Of
  <1> HIDE DEF paid
  <1>2. \A u \in paid : /\ hs[u] \in Hero /\ hs[u].clan = mem.heroes[u].clan
                        /\ hs[u].role = mem.heroes[u].role
    <2> TAKE u \in paid
    <2>1. u \in Users /\ mem.heroes[u] \in Hero BY <1>0, <1>p
    <2>2. hs[u] = [mem.heroes[u] EXCEPT !.won = mem.heroes[u].won + 1] BY <2>1
    <2> HIDE DEF hs
    <2> QED BY <2>1, <2>2 DEF Hero
  <1>3. /\ \A u \in Users : u \notin paid => hs[u] = mem.heroes[u]
        /\ hs \in [Users -> Hero \cup {None}]
    BY <1>0, <1>2
  <1> HIDE DEF hs
  <1>4. /\ m \in Tables /\ m.heroes = hs /\ m.clans = mem.clans /\ m.meta = mem.meta
        /\ m.owner = mem.owner /\ m.log = mem.log
    BY <1>0, <1>3, HeroesChanged
  <1> HIDE DEF m
  <1>5. /\ mem' \in Tables /\ mem'.heroes = hs /\ mem'.clans = mem.clans /\ mem'.meta = mem.meta
        /\ \A c \in Castles : c # s \/ winner = NoClan => /\ mem'.owner[c] = mem.owner[c]
                                                          /\ mem'.log[c] = mem.log[c]
    <2>1. CASE winner = NoClan BY <1>4, <1>w, <2>1
    <2>2. CASE winner # NoClan
      <3> DEFINE os == [mem.owner EXCEPT ![s] = winner]
                 ls == [mem.log EXCEPT ![s] = Append(mem.log[s], siege)]
      <3>1. winner \in ClanIds
        <4>1. founded \in Seq(ClanIds) BY DEF ClanInv, TypeOK
        <4>2. winner \in ToSet(founded) BY <2>2
        <4>3. PICK n \in DOMAIN founded : winner = founded[n] BY <4>2 DEF ToSet
        <4> QED BY <4>1, <4>3
      <3>2. siege \in Siege BY <1>p, <3>1 DEF Siege
      <3> HIDE DEF siege
      <3>3. os \in [Castles -> {NoClan} \cup ClanIds] /\ \A c \in Castles : c # s => os[c] = mem.owner[c]
        BY <1>0, <3>1
      <3>4. ls \in [Castles -> Seq(Siege)] /\ \A c \in Castles : c # s => ls[c] = mem.log[c]
        <4>1. Append(mem.log[s], siege) \in Seq(Siege) BY <1>0, <3>2
        <4> QED BY <1>0, <4>1
      <3>5. mem' = [m EXCEPT !.owner = os, !.log = ls] BY <1>0, <1>4, <1>w, <2>2 DEF Tables
      <3> HIDE DEF os, ls
      <3>6. /\ mem' \in Tables /\ mem'.heroes = m.heroes /\ mem'.clans = m.clans /\ mem'.meta = m.meta
            /\ mem'.owner = os /\ mem'.log = ls
        BY <1>4, <3>3, <3>4, <3>5 DEF Tables
      <3> QED BY <1>4, <2>2, <3>3, <3>4, <3>6
    <2> QED BY <2>1, <2>2
  <1>6. /\ B \in SUBSET Rows /\ (paid # {} => B # {}) /\ MetaRow \notin B
        /\ \A j \in ClanIds : <<"clans", j>> \notin B
        /\ \A u \in paid : <<"heroes", u>> \in B
    BY <1>p, HeroRowsFacts
  <1>7. /\ O \in (SUBSET Rows) \ {{}} /\ L \in (SUBSET Rows) \ {{}} /\ MetaRow \notin O \cup L
        /\ \A j \in ClanIds : <<"clans", j>> \notin O \cup L
        /\ <<"owner", s>> \in O /\ <<"log", s>> \in L
    BY RowNames DEF MetaRow
  <1>h. /\ paid = {} => HeroBatch(paid) = <<>> /\ <<O, L>> \o HeroBatch(paid) = <<O, L>>
        /\ paid # {} => HeroBatch(paid) = <<B>> /\ <<O, L>> \o HeroBatch(paid) = <<O, L, B>>
    <2>1. paid = {} => HeroBatch(paid) = <<>> BY DEF HeroBatch
    <2>2. paid # {} => HeroBatch(paid) = <<B>> BY DEF HeroBatch
    <2> HIDE DEF B, O, L
    <2>3. <<O, L>> \o <<>> = <<O, L>>
      <3>1. <<O, L>> \in Seq({O, L}) OBVIOUS
      <3> QED BY <3>1, ConcatEmptySeq
    <2>4. <<O, L>> \o <<B>> = <<O, L, B>>
      <3> DEFINE S == {O, L, B}  x == <<O, L>> \o <<B>>  y == <<O, L, B>>
      <3>1. <<O, L>> \in Seq(S) /\ <<B>> \in Seq(S) /\ y \in Seq(S) OBVIOUS
      <3>2. Len(<<O, L>>) = 2 /\ Len(<<B>>) = 1 /\ Len(y) = 3 OBVIOUS
      <3>3. x \in Seq(S) /\ Len(x) = 3 BY <3>1, <3>2, ConcatProperties
      <3>4. x[1] = O /\ x[2] = L /\ x[3] = B BY <3>1, <3>2, ConcatProperties
      <3>5. y[1] = O /\ y[2] = L /\ y[3] = B OBVIOUS
      <3> HIDE DEF S, x, y
      <3>6. \A i \in 1..3 : x[i] = y[i] BY <3>4, <3>5
      <3>7. x \in Seq(S) /\ y \in Seq(S) /\ Len(x) = Len(y) BY <3>1, <3>2, <3>3
      <3>8. x = y BY <3>3, <3>6, <3>7, SeqEqual
      <3> QED BY <3>8 DEF x, y
    <2> QED BY <2>1, <2>2, <2>3, <2>4
  <1> HIDE DEF O, L, B
  <1>8. /\ writes' \in Seq((SUBSET Rows) \ {{}}) /\ HeroesLast' /\ MetaRow \notin Unwritten'
        /\ \A j \in ClanIds : <<"clans", j>> \notin Unwritten'
        /\ \A u \in paid : <<"heroes", u>> \in Unwritten'
        /\ winner # NoClan => <<"owner", s>> \in Unwritten' /\ <<"log", s>> \in Unwritten'
    <2>1. CASE winner = NoClan /\ paid = {} BY <1>h, <1>w, <2>1, NoBatch
    <2>2. CASE winner = NoClan /\ paid # {}
      <3>1. writes' = <<B>> /\ B \in (SUBSET Rows) \ {{}} BY <1>6, <1>h, <1>w, <2>2
      <3> QED BY <1>6, <2>2, <3>1, OneBatch
    <2>3. CASE winner # NoClan /\ paid = {}
      <3>1. writes' = <<O, L>> BY <1>h, <1>w, <2>3
      <3>2. writes' \in Seq((SUBSET Rows) \ {{}}) /\ Unwritten' = O \cup L /\ HeroesLast' BY <1>7, <3>1, TwoBatches
      <3> QED BY <1>7, <2>3, <3>2
    <2>4. CASE winner # NoClan /\ paid # {}
      <3>1. writes' = <<O, L, B>> /\ B \in (SUBSET Rows) \ {{}} BY <1>6, <1>h, <1>w, <2>4
      <3>2. MetaRow \notin O \cup L \cup B BY <1>6, <1>7
      <3>3. writes' \in Seq((SUBSET Rows) \ {{}}) /\ Unwritten' = O \cup L \cup B /\ HeroesLast'
        BY <1>7, <3>1, <3>2, ThreeBatches
      <3> QED BY <1>6, <1>7, <2>4, <3>3
    <2> QED BY <2>1, <2>2, <2>3, <2>4
  <1>9. TypeOK' BY <1>1, <1>5, <1>8 DEF TypeOK, ClanInv
  <1>10. Saved'
    <2>1. \A u \in Users : disk'.heroes[u] = mem'.heroes[u] \/ <<"heroes", u>> \in Unwritten'
      BY <1>1, <1>3, <1>5, <1>8, Quiet
    <2>2. disk'.clans = mem'.clans BY <1>1, <1>5, Quiet
    <2>3. \A c \in Castles : disk'.owner[c] = mem'.owner[c] \/ <<"owner", c>> \in Unwritten'
      <3> TAKE c \in Castles
      <3>1. disk'.owner[c] = mem.owner[c] BY <1>1, Quiet
      <3> QED BY <1>5, <1>8, <3>1
    <2>4. \A c \in Castles : disk'.log[c] = mem'.log[c] \/ <<"log", c>> \in Unwritten'
      <3> TAKE c \in Castles
      <3>1. disk'.log[c] = mem.log[c] BY <1>1, Quiet
      <3> QED BY <1>5, <1>8, <3>1
    <2> QED BY <2>1, <2>2, <2>3, <2>4 DEF Saved
  <1>11. \A u \in Users : /\ mem'.heroes[u] # None <=> mem.heroes[u] # None
                          /\ mem.heroes[u] # None => /\ mem'.heroes[u].clan = mem.heroes[u].clan
                                                     /\ mem'.heroes[u].role = mem.heroes[u].role
    <2> TAKE u \in Users
    <2>0. None \notin Hero OBVIOUS
    <2>1. CASE u \in paid BY <1>2, <1>5, <1>p, <2>0, <2>1
    <2>2. CASE u \notin paid BY <1>3, <1>5, <2>2
    <2> QED BY <2>1, <2>2
  <1>12. Ranked(mem'.heroes) BY <1>11 DEF ClanInv, Ranked
  <1>13. ~torn => Headed(mem'.heroes, mem'.clans) BY <1>5, <1>11 DEF ClanInv, Headed
  <1>14. Mark(mem)' = Mark(mem) BY <1>5 DEF Mark
  <1> QED BY <1>1, <1>5, <1>8, <1>9, <1>10, <1>11, <1>12, <1>13, <1>14, SameMembers

LEMMA DeleteAccountInv ==
  ASSUME ClanInv, NEW u \in Users, DeleteAccount(u)
  PROVE  ClanInv'
  <1> DEFINE hs == [mem.heroes EXCEPT ![u] = None]
  <1>0. /\ mem \in Tables /\ disk \in Tables /\ mem.heroes \in [Users -> Hero \cup {None}]
    BY TablesShape DEF ClanInv, TypeOK
  <1>1. Free /\ UNCHANGED <<writes, invites, cooling, founded, torn>> BY DEF DeleteAccount
  <1>q. Unwritten = {} /\ disk.heroes = mem.heroes /\ disk.clans = mem.clans
        /\ disk.owner = mem.owner /\ disk.log = mem.log
    BY <1>1, Quiet
  <1>2. hs \in [Users -> Hero \cup {None}] /\ hs[u] = None /\ \A v \in Users \ {u} : hs[v] = mem.heroes[v]
    BY <1>0
  <1>3. mem' = [mem EXCEPT !.heroes = hs] /\ disk' = [disk EXCEPT !.heroes = hs]
    BY <1>0, <1>q DEF DeleteAccount, Tables
  <1> HIDE DEF hs
  <1>4. /\ mem' \in Tables /\ mem'.heroes = hs /\ mem'.clans = mem.clans /\ mem'.meta = mem.meta
        /\ mem'.owner = mem.owner /\ mem'.log = mem.log
        /\ disk' \in Tables /\ disk'.heroes = hs /\ disk'.clans = disk.clans /\ disk'.meta = disk.meta
        /\ disk'.owner = disk.owner /\ disk'.log = disk.log
    BY <1>0, <1>2, <1>3 DEF Tables
  <1>5. Unwritten' = {} /\ HeroesLast' BY <1>1, <1>q DEF Unwritten, HeroesLast, ClanInv
  <1>6. TypeOK' BY <1>1, <1>4 DEF TypeOK, ClanInv
  <1>7. Saved' BY <1>4, <1>q DEF Saved
  <1>8. \A v \in Users : hs[v] # None => hs[v] = mem.heroes[v] /\ mem.heroes[v] # None BY <1>2
  <1>9. Numbered'
    <2>1. Mark(mem)' = Mark(mem) /\ Mark(disk)' = Mark(disk) BY <1>4 DEF Mark
    <2>2. \A v \in Users : disk'.heroes[v] # None => disk'.heroes[v].clan < Mark(disk)
      BY <1>4, <1>8, <1>q DEF ClanInv, Numbered
    <2>3. \A v \in Users : mem'.heroes[v] # None => /\ mem'.heroes[v].clan < Mark(mem)
                                                    /\ mem'.heroes[v].clan < Mark(disk)
      BY <1>4, <1>8, <1>q DEF ClanInv, Numbered, Exists, Of
    <2> QED BY <1>1, <1>4, <1>5, <1>q, <2>1, <2>2, <2>3 DEF ClanInv, Numbered, Exists, Of
  <1>10. Fresh'
    <2>1. Mark(disk)' = Mark(disk) BY <1>4 DEF Mark
    <2> QED BY <1>1, <1>4, <1>5, <2>1 DEF ClanInv, Fresh
  <1>11. Ranked(mem'.heroes) /\ Ranked(disk'.heroes) BY <1>4, <1>8 DEF ClanInv, Ranked
  <1>12. ~torn' => Housed(mem'.heroes, mem'.clans) BY <1>1, <1>4, <1>8 DEF ClanInv, Housed
  <1>13. ~torn' => Headed(mem'.heroes, mem'.clans) BY <1>1, <1>4, <1>8 DEF ClanInv, Headed
  <1>14. Capped'
    <2> SUFFICES ASSUME NEW k \in ClanIds
                 PROVE  Cardinality(MembersIn(hs, k)) <= ClanMaxMembers
      BY <1>4 DEF Capped
    <2>1. MembersIn(hs, k) \subseteq MembersIn(mem.heroes, k) BY <1>8 DEF MembersIn
    <2>2. Cardinality(MembersIn(hs, k)) <= Cardinality(MembersIn(mem.heroes, k))
      BY <2>1, MembersFinite, FS_Subset
    <2>3. Cardinality(MembersIn(mem.heroes, k)) <= ClanMaxMembers BY DEF ClanInv, Capped
    <2> QED BY <2>2, <2>3, MembersFinite
  <1> QED BY <1>5, <1>6, <1>7, <1>9, <1>10, <1>11, <1>12, <1>13, <1>14 DEF ClanInv

\* A step of the database: the memory and the invites stay.
LEMMA Written ==
  ASSUME ClanInv, UNCHANGED <<mem, invites, cooling, torn>>,
         writes' \in Seq((SUBSET Rows) \ {{}}), HeroesLast', disk' \in Tables, founded' \in Seq(ClanIds),
         Saved', Numbered', Fresh', Ranked(disk'.heroes), Capped'
  PROVE  ClanInv'
  <1>1. TypeOK' BY DEF ClanInv, TypeOK
  <1>2. Ranked(mem'.heroes) /\ (~torn' => Housed(mem'.heroes, mem'.clans) /\ Headed(mem'.heroes, mem'.clans))
    BY DEF ClanInv
  <1> QED BY <1>1, <1>2 DEF ClanInv

LEMMA HeroWritten ==
  ASSUME ClanInv, UNCHANGED <<mem, invites, cooling, torn, founded>>,
         writes' \in Seq((SUBSET Rows) \ {{}}), HeroesLast',
         NEW u \in Users, MetaRow \notin Unwritten,
         Unwritten' \subseteq Unwritten, Unwritten \subseteq Unwritten' \cup {<<"heroes", u>>},
         disk' = [disk EXCEPT !.heroes[u] = mem.heroes[u]]
  PROVE  ClanInv'
  <1> DEFINE hs == [disk.heroes EXCEPT ![u] = mem.heroes[u]]
  <1>0. /\ disk \in Tables /\ disk.heroes \in [Users -> Hero \cup {None}]
        /\ mem.heroes \in [Users -> Hero \cup {None}]
    BY TablesShape DEF ClanInv, TypeOK
  <1>1. disk' = [disk EXCEPT !.heroes = hs] BY <1>0 DEF Tables
  <1>2. /\ hs \in [Users -> Hero \cup {None}] /\ hs[u] = mem.heroes[u]
        /\ \A v \in Users \ {u} : hs[v] = disk.heroes[v]
    BY <1>0
  <1> HIDE DEF hs
  <1>3. /\ disk' \in Tables /\ disk'.heroes = hs /\ disk'.clans = disk.clans /\ disk'.meta = disk.meta
        /\ disk'.owner = disk.owner /\ disk'.log = disk.log
    BY <1>0, <1>1, <1>2, HeroesChanged
  <1>4. Saved'
    <2>1. \A v \in Users : disk'.heroes[v] = mem'.heroes[v] \/ <<"heroes", v>> \in Unwritten'
      BY <1>2, <1>3 DEF ClanInv, Saved
    <2>2. \A x : x # <<"heroes", u>> /\ x \in Unwritten => x \in Unwritten' OBVIOUS
    <2>3. \A k : <<"clans", k>> # <<"heroes", u>> /\ <<"owner", k>> # <<"heroes", u>> /\ <<"log", k>> # <<"heroes", u>>
      OBVIOUS
    <2> QED BY <1>3, <2>1, <2>2, <2>3 DEF ClanInv, Saved
  <1>5. Numbered'
    <2>1. Mark(mem)' = Mark(mem) /\ Mark(disk)' = Mark(disk) BY <1>3 DEF Mark
    <2>2. \A v \in Users : disk'.heroes[v] # None => disk'.heroes[v].clan < Mark(disk)
      BY <1>2, <1>3 DEF ClanInv, Numbered, Exists, Of
    <2> QED BY <1>3, <2>1, <2>2 DEF ClanInv, Numbered, Exists, Of
  <1>6. Fresh'
    <2>1. Mark(disk)' = Mark(disk) BY <1>3 DEF Mark
    <2> QED BY <1>3, <2>1 DEF ClanInv, Fresh
  <1>7. Ranked(disk'.heroes) BY <1>2, <1>3 DEF ClanInv, Ranked
  <1>8. Capped'
    <2> SUFFICES ASSUME NEW k \in ClanIds
                 PROVE  /\ Cardinality(MembersIn(mem.heroes, k)) <= ClanMaxMembers
                        /\ Cardinality(MembersIn(hs, k)) <= ClanMaxMembers
                        /\ \/ MembersIn(hs, k) \subseteq MembersIn(mem.heroes, k)
                           \/ MembersIn(mem.heroes, k) \subseteq MembersIn(hs, k)
      BY <1>3 DEF Capped
    <2> DEFINE M == MembersIn(mem.heroes, k)  D == MembersIn(disk.heroes, k)  E == MembersIn(hs, k)
    <2>1. /\ Cardinality(M) <= ClanMaxMembers /\ Cardinality(D) <= ClanMaxMembers
          /\ D \subseteq M \/ M \subseteq D
      BY DEF ClanInv, Capped
    <2>2. /\ IsFiniteSet(M) /\ IsFiniteSet(D) /\ IsFiniteSet(E)
          /\ Cardinality(M) \in Nat /\ Cardinality(D) \in Nat /\ Cardinality(E) \in Nat
      BY MembersFinite
    <2>3. (u \in E <=> u \in M) /\ \A v : v # u => (v \in E <=> v \in D) BY <1>2 DEF MembersIn
    <2> HIDE DEF M, D, E
    <2>4. (E \subseteq M /\ D \subseteq M) \/ (M \subseteq E /\ E \subseteq D) BY <2>1, <2>3
    <2>5. Cardinality(E) <= ClanMaxMembers
      <3>1. CASE E \subseteq M
        <4>1. Cardinality(E) <= Cardinality(M) BY <2>2, <3>1, FS_Subset
        <4> QED BY <2>1, <2>2, <4>1
      <3>2. CASE E \subseteq D
        <4>1. Cardinality(E) <= Cardinality(D) BY <2>2, <3>2, FS_Subset
        <4> QED BY <2>1, <2>2, <4>1
      <3> QED BY <2>4, <3>1, <3>2
    <2> QED BY <2>1, <2>4, <2>5 DEF M, E
  <1>9. founded' \in Seq(ClanIds) BY DEF ClanInv, TypeOK
  <1> QED BY <1>3, <1>4, <1>5, <1>6, <1>7, <1>8, <1>9, Written

\* A clan inserted is noted; none of its id was before it.
LEMMA ClanWritten ==
  ASSUME ClanInv, UNCHANGED <<mem, invites, cooling, torn>>,
         writes' \in Seq((SUBSET Rows) \ {{}}), HeroesLast',
         NEW k \in ClanIds, <<"clans", k>> \in Unwritten,
         Unwritten' \subseteq Unwritten, Unwritten \subseteq Unwritten' \cup {<<"clans", k>>},
         disk' = [disk EXCEPT !.clans[k] = mem.clans[k]],
         founded' = IF mem.clans[k] # None /\ disk.clans[k] = None THEN Append(founded, k) ELSE founded
  PROVE  ClanInv'
  <1> DEFINE cs == [disk.clans EXCEPT ![k] = mem.clans[k]]
             new == mem.clans[k] # None /\ disk.clans[k] = None
  <1>0. /\ disk \in Tables /\ disk.clans \in [ClanIds -> Clan \cup {None}]
        /\ mem.clans \in [ClanIds -> Clan \cup {None}] /\ Mark(disk) \in Nat /\ Mark(mem) \in Nat
        /\ founded \in Seq(ClanIds)
    BY TablesShape DEF ClanInv, TypeOK
  <1>1. disk' = [disk EXCEPT !.clans = cs] BY <1>0 DEF Tables
  <1>2. /\ cs \in [ClanIds -> Clan \cup {None}] /\ cs[k] = mem.clans[k]
        /\ \A j \in ClanIds \ {k} : cs[j] = disk.clans[j]
    BY <1>0
  <1> HIDE DEF cs
  <1>3. /\ disk' \in Tables /\ disk'.heroes = disk.heroes /\ disk'.clans = cs /\ disk'.meta = disk.meta
        /\ disk'.owner = disk.owner /\ disk'.log = disk.log
    BY <1>0, <1>1, <1>2 DEF Tables
  <1>4. Saved'
    <2>1. \A j \in ClanIds : disk'.clans[j] = mem'.clans[j] \/ <<"clans", j>> \in Unwritten'
      BY <1>2, <1>3 DEF ClanInv, Saved
    <2>2. \A x : x # <<"clans", k>> /\ x \in Unwritten => x \in Unwritten' OBVIOUS
    <2>3. \A v : <<"heroes", v>> # <<"clans", k>> /\ <<"owner", v>> # <<"clans", k>> /\ <<"log", v>> # <<"clans", k>>
      OBVIOUS
    <2> QED BY <1>3, <2>1, <2>2, <2>3 DEF ClanInv, Saved
  <1>m. Mark(mem)' = Mark(mem) /\ Mark(disk)' = Mark(disk) BY <1>3 DEF Mark
  <1>5. mem.clans[k] = None => k < Mark(disk) BY DEF ClanInv, Numbered
  <1>6. Numbered'
    <2>1. 1 <= Mark(disk) /\ Mark(disk) <= Mark(mem) BY DEF ClanInv, Numbered
    <2>2. \A j \in ClanIds : mem'.clans[j] # None \/ disk'.clans[j] # None => j < Mark(mem)
      BY <1>2, <1>3 DEF ClanInv, Numbered
    <2>3. \/ MetaRow \in Unwritten'
          \/ Mark(mem) = Mark(disk)
          \/ Mark(mem) - 1 \in ClanIds /\ disk'.clans[Mark(mem) - 1] # None
      <3>1. CASE MetaRow \in Unwritten
        <4>1. MetaRow # <<"clans", k>> BY DEF MetaRow
        <4> QED BY <3>1, <4>1
      <3>2. CASE Mark(mem) = Mark(disk) BY <3>2
      <3>3. CASE Mark(mem) - 1 \in ClanIds /\ disk.clans[Mark(mem) - 1] # None
        <4>1. CASE Mark(mem) - 1 = k /\ mem.clans[k] = None
          <5>1. Mark(mem) - 1 < Mark(disk) BY <1>5, <4>1
          <5>2. Mark(mem) = Mark(disk) BY <1>0, <2>1, <5>1
          <5> QED BY <5>2
        <4>2. CASE Mark(mem) - 1 = k /\ mem.clans[k] # None BY <1>2, <1>3, <3>3, <4>2
        <4>3. CASE Mark(mem) - 1 # k
          <5>1. Mark(mem) - 1 \in ClanIds \ {k} BY <3>3, <4>3
          <5>2. cs[Mark(mem) - 1] = disk.clans[Mark(mem) - 1] BY <1>2, <5>1
          <5> QED BY <1>3, <3>3, <5>2
        <4> QED BY <4>1, <4>2, <4>3
      <3> QED BY <3>1, <3>2, <3>3 DEF ClanInv, Numbered
    <2>4. \A v \in Users : Exists(v) => /\ Of(v).clan < Mark(mem)
                                        /\ Of(v).clan < Mark(disk) \/ MetaRow \in Unwritten'
      <3>1. MetaRow \in Unwritten => MetaRow \in Unwritten' BY DEF MetaRow
      <3> QED BY <3>1 DEF ClanInv, Numbered
    <2>5. \A v \in Users : disk'.heroes[v] # None => disk'.heroes[v].clan < Mark(disk)
      BY <1>3 DEF ClanInv, Numbered
    <2>6. /\ \A v \in Users : invites'[v] < Mark(disk)
          /\ \A j \in ClanIds : <<"clans", j>> \in Unwritten' /\ mem'.clans[j] = None => j < Mark(disk)
      BY DEF ClanInv, Numbered
    <2> QED BY <1>m, <2>1, <2>2, <2>3, <2>4, <2>5, <2>6 DEF Numbered, Exists, Of
  <1>7. founded' \in Seq(ClanIds) BY <1>0
  <1>8. /\ \A n \in DOMAIN founded : n \in DOMAIN founded' /\ founded'[n] = founded[n] /\ founded[n] \in ClanIds
        /\ \A n \in DOMAIN founded' : n \in DOMAIN founded \/ (new /\ founded'[n] = k /\ n = Len(founded) + 1)
    <2>1. CASE new
      <3>1. founded' = Append(founded, k) BY <2>1
      <3> QED BY <1>0, <2>1, <3>1
    <2>2. CASE ~new
      <3>1. founded' = founded BY <2>2
      <3> QED BY <1>0, <3>1
    <2> QED BY <2>1, <2>2
  <1>9. new => \A n \in DOMAIN founded : founded[n] # k BY DEF ClanInv, Fresh
  <1>10. Fresh'
    <2>1. IsInjective(founded')
      <3> SUFFICES ASSUME NEW i \in DOMAIN founded', NEW n \in DOMAIN founded', founded'[i] = founded'[n]
                   PROVE  i = n
        BY DEF IsInjective
      <3>1. CASE i \in DOMAIN founded /\ n \in DOMAIN founded
        <4>1. founded[i] = founded[n] BY <1>8, <3>1
        <4> QED BY <3>1, <4>1 DEF ClanInv, Fresh, IsInjective
      <3>2. CASE ~(i \in DOMAIN founded /\ n \in DOMAIN founded)
        <4> HIDE DEF new
        <4> QED BY <1>8, <1>9, <3>2
      <3> QED BY <3>1, <3>2
    <2>2. \A n \in DOMAIN founded' : founded'[n] < Mark(disk) \/ disk'.clans[founded'[n]] # None
      <3> SUFFICES ASSUME NEW n \in DOMAIN founded'
                   PROVE  founded'[n] < Mark(disk) \/ cs[founded'[n]] # None
        BY <1>3
      <3>1. CASE n \in DOMAIN founded
        <4>1. founded'[n] = founded[n] /\ founded[n] \in ClanIds BY <1>8, <3>1
        <4>2. founded[n] < Mark(disk) \/ disk.clans[founded[n]] # None BY <3>1 DEF ClanInv, Fresh
        <4>3. CASE founded[n] = k BY <1>2, <1>5, <4>1, <4>3
        <4>4. CASE founded[n] # k BY <1>2, <4>1, <4>2, <4>4
        <4> QED BY <4>3, <4>4
      <3>2. CASE n \notin DOMAIN founded
        <4>1. new /\ founded'[n] = k BY <1>8, <3>2
        <4> QED BY <1>2, <4>1
      <3> QED BY <3>1, <3>2
    <2>3. \A j \in ClanIds : <<"clans", j>> \in Unwritten' /\ mem'.clans[j] # None /\ disk'.clans[j] = None =>
            \A n \in DOMAIN founded' : founded'[n] # j
      <3> SUFFICES ASSUME NEW j \in ClanIds, <<"clans", j>> \in Unwritten', mem.clans[j] # None, cs[j] = None,
                          NEW n \in DOMAIN founded'
                   PROVE  founded'[n] # j
        BY <1>3
      <3>1. j # k /\ disk.clans[j] = None BY <1>2
      <3>2. \A i \in DOMAIN founded : founded[i] # j BY <3>1 DEF ClanInv, Fresh
      <3> QED BY <1>8, <3>1, <3>2
    <2> QED BY <1>m, <2>1, <2>2, <2>3 DEF Fresh
  <1>11. Ranked(disk'.heroes) /\ Capped' BY <1>3 DEF ClanInv, Capped
  <1> QED BY <1>3, <1>4, <1>6, <1>7, <1>10, <1>11, Written

LEMMA MarkWritten ==
  ASSUME ClanInv, UNCHANGED <<mem, invites, cooling, torn, founded>>,
         writes' \in Seq((SUBSET Rows) \ {{}}), HeroesLast',
         Unwritten' \subseteq Unwritten, Unwritten \subseteq Unwritten' \cup {MetaRow},
         disk' = [disk EXCEPT !.meta.next_clan_id = mem.meta.next_clan_id]
  PROVE  ClanInv'
  <1>0. /\ disk \in Tables /\ disk.meta \in [next_clan_id : Nat] /\ mem.meta \in [next_clan_id : Nat]
        /\ Mark(disk) \in Nat /\ Mark(mem) \in Nat
        /\ mem.heroes \in [Users -> Hero \cup {None}] /\ disk.heroes \in [Users -> Hero \cup {None}]
        /\ invites \in [Users -> {NoClan} \cup ClanIds]
        /\ founded \in Seq(ClanIds)
    BY TablesShape DEF ClanInv, TypeOK
  <1>1. disk' = [disk EXCEPT !.meta = mem.meta] BY <1>0 DEF Tables
  <1>3. /\ disk' \in Tables /\ disk'.heroes = disk.heroes /\ disk'.clans = disk.clans /\ disk'.meta = mem.meta
        /\ disk'.owner = disk.owner /\ disk'.log = disk.log
    BY <1>0, <1>1 DEF Tables
  <1>4. Saved'
    <2>1. \A x : x # MetaRow /\ x \in Unwritten => x \in Unwritten' OBVIOUS
    <2>2. \A v : /\ <<"heroes", v>> # MetaRow /\ <<"clans", v>> # MetaRow
                 /\ <<"owner", v>> # MetaRow /\ <<"log", v>> # MetaRow
      BY DEF MetaRow
    <2> QED BY <1>3, <2>1, <2>2 DEF ClanInv, Saved
  <1>m. Mark(mem)' = Mark(mem) /\ Mark(disk)' = Mark(mem) BY <1>3 DEF Mark
  <1>5. 1 <= Mark(disk) /\ Mark(disk) <= Mark(mem) BY DEF ClanInv, Numbered
  <1>6. Numbered'
    <2>1. \A v \in Users : disk.heroes[v] # None => disk.heroes[v].clan < Mark(mem)
      <3> SUFFICES ASSUME NEW v \in Users, disk.heroes[v] # None PROVE disk.heroes[v].clan < Mark(mem)
        OBVIOUS
      <3>1. disk.heroes[v].clan < Mark(disk) BY DEF ClanInv, Numbered
      <3>2. disk.heroes[v].clan \in Nat BY <1>0 DEF Hero, ClanIds, NoClan
      <3> QED BY <1>0, <1>5, <3>1, <3>2
    <2>2. \A v \in Users : Exists(v) => Of(v).clan < Mark(mem) BY DEF ClanInv, Numbered
    <2>3. \A v \in Users : invites[v] < Mark(mem)
      <3> TAKE v \in Users
      <3>1. invites[v] < Mark(disk) BY DEF ClanInv, Numbered
      <3>2. invites[v] \in Nat BY <1>0 DEF ClanIds, NoClan
      <3> QED BY <1>0, <1>5, <3>1, <3>2
    <2>4. \A k \in ClanIds : <<"clans", k>> \in Unwritten /\ mem.clans[k] = None => k < Mark(mem)
      <3> SUFFICES ASSUME NEW k \in ClanIds, <<"clans", k>> \in Unwritten, mem.clans[k] = None
                   PROVE  k < Mark(mem)
        OBVIOUS
      <3>1. k < Mark(disk) BY DEF ClanInv, Numbered
      <3> QED BY <1>0, <1>5, <3>1 DEF ClanIds
    <2>5. \A k \in ClanIds : mem.clans[k] # None \/ disk.clans[k] # None => k < Mark(mem)
      BY DEF ClanInv, Numbered
    <2>6. 1 <= Mark(mem) /\ Mark(mem) <= Mark(mem) BY <1>0, <1>5
    <2> QED BY <1>3, <1>m, <2>1, <2>2, <2>3, <2>4, <2>5, <2>6 DEF Numbered, Exists, Of
  <1>7. Fresh'
    <2>1. \A n \in DOMAIN founded : founded[n] < Mark(mem) \/ disk.clans[founded[n]] # None
      <3> SUFFICES ASSUME NEW n \in DOMAIN founded, ~(disk.clans[founded[n]] # None)
                   PROVE  founded[n] < Mark(mem)
        OBVIOUS
      <3>1. founded[n] < Mark(disk) BY DEF ClanInv, Fresh
      <3>2. founded[n] \in Nat BY <1>0 DEF ClanIds
      <3> QED BY <1>0, <1>5, <3>1, <3>2
    <2> QED BY <1>3, <1>m, <2>1 DEF ClanInv, Fresh
  <1>8. Ranked(disk'.heroes) /\ Capped' BY <1>3 DEF ClanInv, Capped
  <1> QED BY <1>0, <1>3, <1>4, <1>6, <1>7, <1>8, Written

LEMMA CastleWritten ==
  ASSUME ClanInv, UNCHANGED <<mem, invites, cooling, torn, founded>>,
         writes' \in Seq((SUBSET Rows) \ {{}}), HeroesLast',
         NEW s \in Castles,
         \/ /\ disk' = [disk EXCEPT !.owner[s] = mem.owner[s]]
            /\ Unwritten' \subseteq Unwritten /\ Unwritten \subseteq Unwritten' \cup {<<"owner", s>>}
         \/ /\ disk' = [disk EXCEPT !.log[s] = mem.log[s]]
            /\ Unwritten' \subseteq Unwritten /\ Unwritten \subseteq Unwritten' \cup {<<"log", s>>}
  PROVE  ClanInv'
  <1> DEFINE os == [disk.owner EXCEPT ![s] = mem.owner[s]]
             ls == [disk.log EXCEPT ![s] = mem.log[s]]
  <1>0. /\ disk \in Tables
        /\ disk.owner \in [Castles -> {NoClan} \cup ClanIds] /\ mem.owner \in [Castles -> {NoClan} \cup ClanIds]
        /\ disk.log \in [Castles -> Seq(Siege)] /\ mem.log \in [Castles -> Seq(Siege)]
    BY TablesShape DEF ClanInv, TypeOK
  <1>1. os \in [Castles -> {NoClan} \cup ClanIds] /\ ls \in [Castles -> Seq(Siege)]
        /\ os[s] = mem.owner[s] /\ ls[s] = mem.log[s]
        /\ \A c \in Castles \ {s} : os[c] = disk.owner[c] /\ ls[c] = disk.log[c]
    BY <1>0
  <1>2. disk' = [disk EXCEPT !.owner = os] \/ disk' = [disk EXCEPT !.log = ls] BY <1>0 DEF Tables
  <1> HIDE DEF os, ls
  <1>3. disk' \in Tables /\ disk'.heroes = disk.heroes /\ disk'.clans = disk.clans /\ disk'.meta = disk.meta
    BY <1>0, <1>1, <1>2 DEF Tables
  <1>4. /\ \A x : x[1] # "owner" /\ x[1] # "log" /\ x \in Unwritten => x \in Unwritten'
        /\ MetaRow \in Unwritten => MetaRow \in Unwritten'
        /\ Unwritten' \subseteq Unwritten
    <2>1. <<"owner", s>>[1] = "owner" /\ <<"log", s>>[1] = "log" /\ MetaRow[1] = "meta" BY DEF MetaRow
    <2> QED BY <2>1
  <1>5. /\ \A c \in Castles : disk'.owner[c] = mem.owner[c] \/ <<"owner", c>> \in Unwritten'
        /\ \A c \in Castles : disk'.log[c] = mem.log[c] \/ <<"log", c>> \in Unwritten'
    <2>0. \A c, d : <<"owner", c>> # <<"log", d>> OBVIOUS
    <2>o. ASSUME disk' = [disk EXCEPT !.owner[s] = mem.owner[s]],
                 Unwritten \subseteq Unwritten' \cup {<<"owner", s>>}, NEW c \in Castles
          PROVE  /\ disk'.owner[c] = mem.owner[c] \/ <<"owner", c>> \in Unwritten'
                 /\ disk'.log[c] = mem.log[c] \/ <<"log", c>> \in Unwritten'
      <3>1. disk' = [disk EXCEPT !.owner = os] BY <1>0, <2>o DEF Tables, os
      <3>2. disk'.owner = os /\ disk'.log = disk.log BY <1>0, <3>1 DEF Tables
      <3> QED BY <1>1, <2>0, <2>o, <3>2 DEF ClanInv, Saved
    <2>l. ASSUME disk' = [disk EXCEPT !.log[s] = mem.log[s]],
                 Unwritten \subseteq Unwritten' \cup {<<"log", s>>}, NEW c \in Castles
          PROVE  /\ disk'.owner[c] = mem.owner[c] \/ <<"owner", c>> \in Unwritten'
                 /\ disk'.log[c] = mem.log[c] \/ <<"log", c>> \in Unwritten'
      <3>1. disk' = [disk EXCEPT !.log = ls] BY <1>0, <2>l DEF Tables, ls
      <3>2. disk'.log = ls /\ disk'.owner = disk.owner BY <1>0, <3>1 DEF Tables
      <3> QED BY <1>1, <2>0, <2>l, <3>2 DEF ClanInv, Saved
    <2> QED BY <2>o, <2>l
  <1>6. Saved'
    <2>1. \A v : <<"heroes", v>>[1] = "heroes" /\ <<"clans", v>>[1] = "clans" OBVIOUS
    <2>2. \A v \in Users : disk'.heroes[v] = mem.heroes[v] \/ <<"heroes", v>> \in Unwritten'
      BY <1>3, <1>4, <2>1 DEF ClanInv, Saved
    <2>3. \A k \in ClanIds : disk'.clans[k] = mem.clans[k] \/ <<"clans", k>> \in Unwritten'
      BY <1>3, <1>4, <2>1 DEF ClanInv, Saved
    <2> QED BY <1>5, <2>2, <2>3 DEF Saved
  <1>m. Mark(mem)' = Mark(mem) /\ Mark(disk)' = Mark(disk) BY <1>3 DEF Mark
  <1>7. Numbered' BY <1>3, <1>4, <1>m DEF ClanInv, Numbered, Exists, Of
  <1>8. Fresh' BY <1>3, <1>4, <1>m DEF ClanInv, Fresh
  <1>9. Ranked(disk'.heroes) /\ Capped' BY <1>3 DEF ClanInv, Capped
  <1>10. founded' \in Seq(ClanIds) BY DEF ClanInv, TypeOK
  <1> QED BY <1>3, <1>6, <1>7, <1>8, <1>9, <1>10, Written

LEMMA WriteInv ==
  ASSUME ClanInv, WriteRow
  PROVE  ClanInv'
  <1>1. PICK row \in Rows :
           /\ row \in Unwritten
           /\ \A u \in Users : row = <<"heroes", u>> => MetaRow \notin Unwritten
           /\ writes' \in Seq((SUBSET Rows) \ {{}}) /\ HeroesLast'
           /\ Unwritten' \subseteq Unwritten /\ Unwritten \subseteq Unwritten' \cup {row}
           /\ disk' = [disk EXCEPT ![row[1]][row[2]] = mem[row[1]][row[2]]]
           /\ founded' = IF Insert(row) THEN Append(founded, row[2]) ELSE founded
    BY RowWritten
  <1>2. UNCHANGED <<mem, invites, cooling, torn>> BY DEF WriteRow
  <1>3. ASSUME NEW u \in Users, row = <<"heroes", u>> PROVE ClanInv'
    <2>1. row[1] = "heroes" /\ row[2] = u BY <1>3
    <2>2. founded' = founded BY <1>1, <2>1 DEF Insert
    <2>3. disk' = [disk EXCEPT !.heroes[u] = mem.heroes[u]] BY <1>1, <2>1
    <2> QED BY <1>1, <1>2, <1>3, <2>2, <2>3, HeroWritten
  <1>4. ASSUME NEW k \in ClanIds, row = <<"clans", k>> PROVE ClanInv'
    <2>1. row[1] = "clans" /\ row[2] = k BY <1>4
    <2>2. founded' = IF mem.clans[k] # None /\ disk.clans[k] = None THEN Append(founded, k) ELSE founded
      BY <1>1, <2>1 DEF Insert
    <2>3. disk' = [disk EXCEPT !.clans[k] = mem.clans[k]] BY <1>1, <2>1
    <2> QED BY <1>1, <1>2, <1>4, <2>2, <2>3, ClanWritten
  <1>5. ASSUME row = MetaRow PROVE ClanInv'
    <2>1. row[1] = "meta" /\ row[2] = "next_clan_id" BY <1>5 DEF MetaRow
    <2>2. founded' = founded BY <1>1, <2>1 DEF Insert
    <2>3. disk' = [disk EXCEPT !.meta.next_clan_id = mem.meta.next_clan_id] BY <1>1, <2>1
    <2> QED BY <1>1, <1>2, <1>5, <2>2, <2>3, MarkWritten
  <1>6. ASSUME NEW s \in Castles, row = <<"owner", s>> PROVE ClanInv'
    <2>1. row[1] = "owner" /\ row[2] = s BY <1>6
    <2>2. founded' = founded BY <1>1, <2>1 DEF Insert
    <2>3. disk' = [disk EXCEPT !.owner[s] = mem.owner[s]] BY <1>1, <2>1
    <2> QED BY <1>1, <1>2, <1>6, <2>2, <2>3, CastleWritten
  <1>7. ASSUME NEW s \in Castles, row = <<"log", s>> PROVE ClanInv'
    <2>1. row[1] = "log" /\ row[2] = s BY <1>7
    <2>2. founded' = founded BY <1>1, <2>1 DEF Insert
    <2>3. disk' = [disk EXCEPT !.log[s] = mem.log[s]] BY <1>1, <2>1
    <2> QED BY <1>1, <1>2, <1>7, <2>2, <2>3, CastleWritten
  <1>8. \/ \E u \in Users : row = <<"heroes", u>>
        \/ \E k \in ClanIds : row = <<"clans", k>>
        \/ row = MetaRow
        \/ \E s \in Castles : row = <<"owner", s>>
        \/ \E s \in Castles : row = <<"log", s>>
    BY <1>1 DEF Rows, MetaRow
  <1> QED BY <1>3, <1>4, <1>5, <1>6, <1>7, <1>8

\* The counter the next start computes: the stored mark, or one above the newest
\* clan left.
LEMMA NextClanIDFacts ==
  ASSUME NEW d \in Tables
  PROVE  /\ NextClanID(d) \in Nat /\ Mark(d) <= NextClanID(d)
         /\ \A k \in ClanIds : d.clans[k] # None => k < NextClanID(d)
         /\ \/ NextClanID(d) = Mark(d)
            \/ NextClanID(d) - 1 \in ClanIds /\ d.clans[NextClanID(d) - 1] # None
  <1> DEFINE C == {j \in ClanIds : d.clans[j] # None}
             S == {d.meta.next_clan_id} \cup {k + 1 : k \in C}
             N == Mark(d) + MaxClans + 2
             m == NextClanID(d)
  <1>1. Mark(d) \in Nat BY TablesShape
  <1>2. S \in SUBSET 0..N /\ S # {} /\ N \in Nat /\ C \subseteq ClanIds /\ Mark(d) \in S
    <2>1. N \in Nat BY <1>1
    <2>2. Mark(d) \in 0..N BY <1>1
    <2>3. \A k \in ClanIds : k + 1 \in 0..N BY <1>1 DEF ClanIds
    <2> QED BY <2>1, <2>2, <2>3 DEF Mark
  <1>3. \A x \in S : x = Mark(d) \/ \E k \in C : x = k + 1 BY DEF Mark
  <1>4. \A k \in C : k + 1 \in S OBVIOUS
  <1>5. m = Max(S) BY DEF NextClanID
  <1> HIDE DEF S, N, m
  <1>6. m \in S /\ \A x \in S : x <= m BY <1>2, <1>5, MaxIsGreatest
  <1>7. m \in Nat BY <1>2, <1>6
  <1>8. Mark(d) <= m BY <1>2, <1>6
  <1>9. ASSUME NEW k \in C PROVE k < m
    <2>1. k + 1 <= m /\ k \in Nat BY <1>4, <1>6 DEF ClanIds
    <2> QED BY <1>7, <2>1
  <1>10. m = Mark(d) \/ (m - 1 \in ClanIds /\ d.clans[m - 1] # None)
    <2> SUFFICES ASSUME NEW k \in C, m = k + 1 PROVE m - 1 \in ClanIds /\ d.clans[m - 1] # None
      BY <1>3, <1>6
    <2>1. m - 1 = k BY DEF ClanIds
    <2> QED BY <2>1
  <1> QED BY <1>7, <1>8, <1>9, <1>10 DEF m

LEMMA RestartInv ==
  ASSUME ClanInv, Restart
  PROVE  ClanInv'
  <1> DEFINE m == NextClanID(disk)
  <1>0. /\ disk \in Tables /\ disk.meta \in [next_clan_id : Nat] /\ Mark(disk) \in Nat
        /\ disk.heroes \in [Users -> Hero \cup {None}]
    BY TablesShape DEF ClanInv, TypeOK
  <1>1. /\ mem' = [disk EXCEPT !.meta.next_clan_id = m] /\ writes' = <<>>
        /\ invites' = [u \in Users |-> NoClan] /\ cooling' = {} /\ torn' = (torn \/ ~Free)
        /\ disk' = disk /\ founded' = founded
    BY DEF Restart, Load
  <1>2. /\ m \in Nat /\ Mark(disk) <= m
        /\ \A k \in ClanIds : disk.clans[k] # None => k < m
        /\ m = Mark(disk) \/ (m - 1 \in ClanIds /\ disk.clans[m - 1] # None)
    BY <1>0, NextClanIDFacts
  <1> HIDE DEF m
  <1>3. /\ mem' \in Tables /\ mem'.heroes = disk.heroes /\ mem'.clans = disk.clans /\ Mark(mem)' = m
        /\ mem'.owner = disk.owner /\ mem'.log = disk.log
    <2> DEFINE mt == [disk.meta EXCEPT !.next_clan_id = m]
    <2>1. mt \in [next_clan_id : Nat] /\ mt.next_clan_id = m BY <1>0, <1>2
    <2>2. mem' = [disk EXCEPT !.meta = mt] BY <1>0, <1>1 DEF Tables
    <2> HIDE DEF mt
    <2>3. /\ mem' \in Tables /\ mem'.heroes = disk.heroes /\ mem'.clans = disk.clans /\ mem'.meta = mt
          /\ mem'.owner = disk.owner /\ mem'.log = disk.log
      BY <1>0, <2>1, <2>2 DEF Tables
    <2> QED BY <2>1, <2>3 DEF Mark
  <1>4. writes' \in Seq((SUBSET Rows) \ {{}}) /\ Unwritten' = {} /\ HeroesLast' BY <1>1, NoBatch
  <1>5. TypeOK' BY <1>1, <1>3, <1>4 DEF ClanInv, TypeOK
  <1>6. Saved' BY <1>1, <1>3 DEF Saved
  <1>m. Mark(disk)' = Mark(disk) BY <1>1 DEF Mark
  <1>7. Numbered'
    <2>1. \A v \in Users : disk.heroes[v] # None => disk.heroes[v].clan < m /\ disk.heroes[v].clan < Mark(disk)
      <3> SUFFICES ASSUME NEW v \in Users, disk.heroes[v] # None
                   PROVE  disk.heroes[v].clan < m /\ disk.heroes[v].clan < Mark(disk)
        OBVIOUS
      <3>1. disk.heroes[v].clan < Mark(disk) BY DEF ClanInv, Numbered
      <3>2. disk.heroes[v].clan \in Nat BY <1>0 DEF Hero, ClanIds, NoClan
      <3> QED BY <1>0, <1>2, <3>1, <3>2
    <2>2. 1 <= Mark(disk) BY DEF ClanInv, Numbered
    <2>3. \A v \in Users : invites'[v] < Mark(disk) BY <1>0, <1>1, <2>2 DEF NoClan
    <2> QED BY <1>1, <1>2, <1>3, <1>4, <1>m, <2>1, <2>2, <2>3 DEF Numbered, Exists, Of
  <1>8. Fresh' BY <1>1, <1>4, <1>m DEF ClanInv, Fresh
  <1>9. Ranked(mem'.heroes) /\ Ranked(disk'.heroes) BY <1>1, <1>3 DEF ClanInv
  <1>10. Capped' BY <1>1, <1>3 DEF ClanInv, Capped
  <1>11. ~torn' => Housed(mem'.heroes, mem'.clans) /\ Headed(mem'.heroes, mem'.clans)
    <2> SUFFICES ASSUME ~torn, Free PROVE Housed(mem'.heroes, mem'.clans) /\ Headed(mem'.heroes, mem'.clans)
      BY <1>1
    <2>1. mem'.heroes = mem.heroes /\ mem'.clans = mem.clans BY <1>3, Quiet
    <2> QED BY <2>1 DEF ClanInv
  <1> QED BY <1>4, <1>5, <1>6, <1>7, <1>8, <1>9, <1>10, <1>11 DEF ClanInv

LEMMA ClanNext ==
  ASSUME ClanInv, [Next]_vars
  PROVE  ClanInv'
  <1>1. CASE UNCHANGED vars
    <2>1. /\ invites' \in [Users -> {NoClan} \cup ClanIds] /\ cooling' \subseteq Users
          /\ \A v \in Users : invites'[v] < Mark(disk)
      BY <1>1 DEF vars, ClanInv, TypeOK, Numbered
    <2>2. UNCHANGED <<mem, disk, writes, founded, torn>> BY <1>1 DEF vars
    <2> QED BY <2>1, <2>2, InvitesOnly
  <1>2. CASE ClanOperation
    BY <1>2, CreateClanInv, RemoveInv, DisbandInv, EditRolesInv, TransferHeadInv, RecordInviteInv, AnswerInv
       DEF ClanOperation
  <1>3. CASE Operate BY <1>2, <1>3, CooldownEndsInv, DeleteAccountInv, WriteInv DEF Operate
  <1>4. CASE Settle BY <1>4, SettleInv DEF Settle
  <1>5. CASE Restart BY <1>5, RestartInv
  <1> QED BY <1>1, <1>3, <1>4, <1>5 DEF Next

LEMMA ClanInvariant == Spec => []ClanInv
BY ClanInit, ClanNext, PTL DEF Spec

-----------------------------------------------------------------------------
(***************************************************************************)
(* Theorems.                                                               *)
(***************************************************************************)
\* The tables in memory and in the database, the rows to write, the invites and
\* the ids keep their types through every operation, write and restart.
THEOREM ClanTypeCorrect == Spec => []TypeOK
BY ClanInvariant, PTL DEF ClanInv

\* In memory a clan always has its header's head for its only HEAD
\* (CreateClan, RemoveClanMember, ChangeClanRoles, DeleteAccount), unless the
\* process died between two writes of one operation.
THEOREM OneHeadAlways == Spec => []OneHead
  <1>1. ClanInv => OneHead
    <2> SUFFICES ASSUME ClanInv, ~torn, NEW k \in ClanIds, mem.clans[k] # None, NEW u
                 PROVE  (u \in Members(k) /\ Of(u).role = ClanHead) <=> (u = mem.clans[k].head /\ Exists(u))
      BY DEF OneHead
    <2>1. mem.clans[k].head \in Users
      <3>1. mem.clans \in [ClanIds -> Clan \cup {None}] BY TablesShape DEF ClanInv, TypeOK
      <3> QED BY <3>1 DEF Clan
    <2>2. \A v \in Users : mem.heroes[v] # None =>
            ((mem.heroes[v].clan = k /\ mem.heroes[v].role = ClanHead) <=> v = mem.clans[k].head)
      BY DEF ClanInv, Headed
    <2> QED BY <2>1, <2>2 DEF Members, Exists, Of
  <1> QED BY <1>1, ClanInvariant, PTL

\* Nobody is left in a clan that is gone or without a rank, and no clan outgrows
\* its cap, however many invites were open when its last places were taken
\* (AnswerClanInvite counts the members again).
THEOREM MembersStaySound == Spec => []MembersSound
  <1>1. ClanInv => NoOrphans BY DEF ClanInv, NoOrphans, Housed, Ranked, InClan, Exists, Of
  <1>2. ClanInv => WithinCap
    <2> SUFFICES ASSUME ClanInv, NEW k \in ClanIds PROVE Cardinality(Members(k)) <= ClanMaxMembers
      BY DEF WithinCap
    <2>1. Members(k) = MembersIn(mem.heroes, k) BY DEF Members, MembersIn, Exists, Of
    <2> QED BY <2>1 DEF ClanInv, Capped
  <1>3. ClanInv => MembersSound BY <1>1, <1>2 DEF MembersSound
  <1> QED BY <1>3, ClanInvariant, PTL

\* No id is given to a second clan (loadAllLocked, NextClanID), whatever rows a
\* process that died had still to write.
THEOREM ClanIdsStayFresh == Spec => []ClanIdsFresh
BY ClanInvariant, PTL DEF ClanInv, Fresh, ClanIdsFresh

\* Whenever nobody holds Store.mu the database says all the memory does.
THEOREM AllIsSaved == Spec => []NothingUnsaved
  <1>1. ASSUME ClanInv, Free PROVE Load(disk) = mem
    <2> DEFINE m == NextClanID(disk)
    <2>0. /\ disk \in Tables /\ mem \in Tables /\ mem.meta \in [next_clan_id : Nat]
          /\ disk.meta \in [next_clan_id : Nat]
          /\ Mark(disk) \in Nat /\ Mark(mem) \in Nat
      BY <1>1, TablesShape DEF ClanInv, TypeOK
    <2>1. /\ m \in Nat /\ Mark(disk) <= m
          /\ \A k \in ClanIds : disk.clans[k] # None => k < m
          /\ m = Mark(disk) \/ (m - 1 \in ClanIds /\ disk.clans[m - 1] # None)
      BY <2>0, NextClanIDFacts
    <2>2. /\ disk.heroes = mem.heroes /\ disk.clans = mem.clans /\ disk.owner = mem.owner /\ disk.log = mem.log
          /\ Mark(mem) = Mark(disk) \/ (Mark(mem) - 1 \in ClanIds /\ disk.clans[Mark(mem) - 1] # None)
      BY <1>1, Quiet
    <2>3. /\ Mark(disk) <= Mark(mem)
          /\ \A k \in ClanIds : disk.clans[k] # None => k < Mark(mem)
      BY <1>1 DEF ClanInv, Numbered
    <2> HIDE DEF m
    <2>4. m = Mark(mem)
      <3>1. m <= Mark(mem)
        <4>1. CASE m = Mark(disk) BY <2>3, <4>1
        <4>2. CASE m - 1 \in ClanIds /\ disk.clans[m - 1] # None
          <5>1. m - 1 < Mark(mem) BY <2>3, <4>2
          <5> QED BY <2>0, <2>1, <5>1
        <4> QED BY <2>1, <4>1, <4>2
      <3>2. Mark(mem) <= m
        <4>1. CASE Mark(mem) = Mark(disk) BY <2>1, <4>1
        <4>2. CASE Mark(mem) - 1 \in ClanIds /\ disk.clans[Mark(mem) - 1] # None
          <5>1. Mark(mem) - 1 < m BY <2>1, <4>2
          <5> QED BY <2>0, <2>1, <5>1
        <4> QED BY <2>2, <4>1, <4>2
      <3> QED BY <2>0, <2>1, <3>1, <3>2
    <2>5. Load(disk) = [disk EXCEPT !.meta = [disk.meta EXCEPT !.next_clan_id = m]]
      BY <2>0 DEF Load, Tables, m
    <2>6. [disk.meta EXCEPT !.next_clan_id = m] = mem.meta BY <2>0, <2>4 DEF Mark
    <2>7. Load(disk) = [disk EXCEPT !.meta = mem.meta] BY <2>5, <2>6
    <2> QED BY <2>0, <2>2, <2>7 DEF Tables
  <1>2. ClanInv => NothingUnsaved BY <1>1 DEF NothingUnsaved
  <1> QED BY <1>2, ClanInvariant, PTL
=============================================================================
