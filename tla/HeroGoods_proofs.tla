-------------------------- MODULE HeroGoods_proofs --------------------------
(***************************************************************************)
(* What a hero owns and earns.  For any catalogue, any number of requests  *)
(* at a time and any width of the balance: every item ever bought is in    *)
(* exactly one place, a slot holds one item of its kind, and no order of   *)
(* purchases and sales makes money.  For any catalogue of quests,          *)
(* creatures, counts and cooldowns: a reward is paid for a whole round of  *)
(* kills, and again only for a replay quest that has cooled down.  For any *)
(* number of articles and requests: no unit of the bag is used twice or    *)
(* vanishes, the battle's copy of it never promises more than it holds,    *)
(* and one request at a time starts one rune of a category.                *)
(***************************************************************************)
EXTENDS HeroGear, HeroQuests, HeroBag, Lists_proofs, SequenceTheorems

GInv == GearTypeOK /\ OnePlace /\ OnePerSlot

USE GearAssumption
-----------------------------------------------------------------------------
(* What IDsOf makes of the operations on sets of items. *)

LEMMA IDsUnion ==
  ASSUME NEW S, NEW T
  PROVE  IDsOf(S \cup T) = IDsOf(S) \cup IDsOf(T)
BY DEF IDsOf

LEMMA IDsOne ==
  ASSUME NEW x
  PROVE  IDsOf({x}) = {x.id}
BY DEF IDsOf

LEMMA IDsMinus ==
  ASSUME NEW S, NEW T, T \subseteq S, \A x, y \in S : x.id = y.id => x = y
  PROVE  IDsOf(S \ T) = IDsOf(S) \ IDsOf(T)
BY DEF IDsOf

LEMMA IDsWithout ==
  ASSUME NEW S, NEW x \in S, \A y, z \in S : y.id = z.id => y = z
  PROVE  IDsOf(S \ {x}) = IDsOf(S) \ {x.id}
<1>1. {x} \subseteq S
  OBVIOUS
<1>2. IDsOf(S \ {x}) = IDsOf(S) \ IDsOf({x})
  BY <1>1, IDsMinus
<1> QED BY <1>2, IDsOne

LEMMA IDsBare ==
  ASSUME NEW S
  PROVE  IDsOf({Bare(d) : d \in S}) = IDsOf(S)
<1>1. \A d \in S : Bare(d).id = d.id
  BY DEF Bare
<1> QED BY <1>1 DEF IDsOf
-----------------------------------------------------------------------------
(* One lemma per action. *)

LEMMA GearInitInv == GearInit => GInv
BY DEF GearInit, GInv, GearTypeOK, OnePlace, OnePerSlot, IDsOf, NoTask

LEMMA MoneyInv ==
  ASSUME GInv, NEW d \in {1, 2}, AddHeroMoney(d) \/ SpendHeroMoney(d)
  PROVE  GInv'
<1> USE DEF GInv, AddHeroMoney, SpendHeroMoney, Int32
<1>1. GearTypeOK'
  BY DEF GearTypeOK
<1>2. OnePlace' /\ OnePerSlot'
  BY DEF OnePlace, OnePerSlot
<1> QED BY <1>1, <1>2

LEMMA BeginInv ==
  ASSUME GInv, NEW t \in Traders, NEW kind \in {"sell", "dress"},
         NEW items \in SUBSET owned, Begin(t, kind, items)
  PROVE  GInv'
<1> USE DEF GInv, Begin
<1>1. GearTypeOK'
  BY DEF GearTypeOK
<1>2. OnePlace' /\ OnePerSlot'
  BY DEF OnePlace, OnePerSlot
<1> QED BY <1>1, <1>2

LEMMA FinishType ==
  ASSUME GearTypeOK, NEW t \in Traders, NEW it, Finish(t, it)
  PROVE  task' \in [Traders -> [kind : {"none", "sell", "dress"}, items : SUBSET Items]]
<1> DEFINE Tasks == [kind : {"none", "sell", "dress"}, items : SUBSET Items]
           left == task[t].items \ {it}
           rest == [kind |-> task[t].kind, items |-> left]
<1>1. task \in [Traders -> Tasks]
  BY DEF GearTypeOK
<1>2. rest \in Tasks
  BY <1>1
<1>3. NoTask \in Tasks
  BY DEF NoTask
<1>4. task' = [task EXCEPT ![t] = IF left = {} THEN NoTask ELSE rest]
  BY DEF Finish
<1> HIDE DEF Tasks, left, rest
<1>5. task' \in [Traders -> Tasks]
  BY <1>1, <1>2, <1>3, <1>4
<1> QED BY <1>5 DEF Tasks

LEMMA BuyInv ==
  ASSUME GInv, NEW a \in Wearables, NEW n \in {1, 2}, BuyWearables(a, n)
  PROVE  GInv'
<1> DEFINE New == {[id |-> i, art |-> a] : i \in nextID..(nextID + n - 1)}
<1> USE DEF GInv, BuyWearables
<1>0. nextID \in Nat /\ nextID + n <= MaxItems /\ money \in Int
  BY DEF GearTypeOK
<1>1. New \subseteq Items
  BY <1>0 DEF Items, ItemIDs
<1>2. money' \in -(MaxMoney + 1)..MaxMoney
  <2>1. Price[a] \in 0..MaxMoney
    OBVIOUS
  <2>2. CASE n = 1
    BY <2>1, <2>2 DEF GearTypeOK
  <2>3. CASE n = 2
    BY <2>1, <2>3 DEF GearTypeOK
  <2> QED BY <2>2, <2>3
<1>3. GearTypeOK'
  BY <1>0, <1>1, <1>2 DEF GearTypeOK
<1>4. IDsOf(New) = nextID..(nextID + n - 1)
  <2>1. \A x \in New : x.id \in nextID..(nextID + n - 1)
    OBVIOUS
  <2>2. \A i \in nextID..(nextID + n - 1) : \E x \in New : x.id = i
    <3>1. \A i \in nextID..(nextID + n - 1) : [id |-> i, art |-> a] \in New
      OBVIOUS
    <3> QED BY <3>1
  <2> HIDE DEF New
  <2> QED BY <2>1, <2>2 DEF IDsOf
<1>5. IDsOf(owned') = IDsOf(owned) \cup IDsOf(New)
  BY IDsUnion
<1>6. OnePlace'
  <2>1. /\ IDsOf(owned') \cup IDsOf(dressed') \cup sold' = 0..(nextID' - 1)
        /\ IDsOf(owned') \cap IDsOf(dressed') = {}
        /\ (IDsOf(owned') \cup IDsOf(dressed')) \cap sold' = {}
    <3>1. 0..(nextID' - 1) = (0..(nextID - 1)) \cup (nextID..(nextID + n - 1))
      BY <1>0
    <3>2. (0..(nextID - 1)) \cap (nextID..(nextID + n - 1)) = {}
      BY <1>0
    <3>3. IDsOf(dressed') = IDsOf(dressed) /\ sold' = sold
      OBVIOUS
    <3> HIDE DEF New
    <3> QED BY <1>4, <1>5, <3>1, <3>2, <3>3, Zenon DEF OnePlace
  <2>2. ASSUME NEW x \in owned', NEW y \in owned', x.id = y.id
        PROVE  x = y
    <3>1. \A z \in owned : z.id \in 0..(nextID - 1)
      BY DEF OnePlace, IDsOf
    <3>2. \A z \in New : z.id >= nextID /\ z = [id |-> z.id, art |-> a]
      BY <1>0
    <3> QED BY <2>2, <3>1, <3>2, <1>0 DEF OnePlace
  <2> QED BY <2>1, <2>2 DEF OnePlace
<1>7. OnePerSlot'
  BY DEF OnePerSlot
<1> QED BY <1>3, <1>6, <1>7

LEMMA SellInv ==
  ASSUME GInv, NEW t \in Traders, NEW it \in task[t].items, SellWearable(t, it)
  PROVE  GInv'
<1> USE DEF GInv, SellWearable
<1>1. CASE it \notin owned
  BY <1>1, FinishType DEF GearTypeOK, OnePlace, OnePerSlot
<1>2. CASE it \in owned
  <2>1. it \in Items
    BY <1>2 DEF GearTypeOK
  <2>2. money' \in -(MaxMoney + 1)..MaxMoney
    BY <1>2, <2>1 DEF Refund, Int32, GearTypeOK, Items
  <2>3. GearTypeOK'
    BY <1>2, <2>1, <2>2, FinishType DEF GearTypeOK, Items
  <2>4. IDsOf(owned') = IDsOf(owned) \ {it.id}
    BY <1>2, IDsWithout DEF OnePlace
  <2>5. it.id \in IDsOf(owned)
    BY <1>2 DEF IDsOf
  <2>6. OnePlace'
    BY <1>2, <2>4, <2>5 DEF OnePlace
  <2> QED BY <2>3, <2>6 DEF OnePerSlot
<1> QED BY <1>1, <1>2

LEMMA DressInv ==
  ASSUME GInv, NEW t \in Traders, NEW it \in task[t].items, DressWearable(t, it)
  PROVE  GInv'
<1> DEFINE s == SlotOf[it.art]
           out == Occupants(s)
<1> USE DEF GInv, DressWearable, Wear
<1>1. CASE it \notin owned
  BY <1>1, FinishType DEF GearTypeOK, OnePlace, OnePerSlot
<1>2. CASE it \in owned
  <2>0. /\ owned' = (owned \ {it}) \cup {Bare(d) : d \in out}
        /\ dressed' = (dressed \ out) \cup {Worn(it, s)}
        /\ UNCHANGED <<nextID, money, sold, earned>>
    BY <1>2
  <2>1. it \in Items /\ s \in Slots /\ out \subseteq dressed
    BY <1>2 DEF GearTypeOK, Items, Occupants
  <2>2. GearTypeOK'
    BY <2>0, <2>1, FinishType DEF GearTypeOK, Items, Bare, Worn
  <2>3. IDsOf(owned') = (IDsOf(owned) \ {it.id}) \cup IDsOf(out)
    <3>1. IDsOf(owned \ {it}) = IDsOf(owned) \ {it.id}
      BY <1>2, IDsWithout DEF OnePlace
    <3>2. IDsOf({Bare(d) : d \in out}) = IDsOf(out)
      BY IDsBare
    <3>3. IDsOf(owned') = IDsOf(owned \ {it}) \cup IDsOf({Bare(d) : d \in out})
      BY <2>0, IDsUnion
    <3> QED BY <3>1, <3>2, <3>3
  <2>4. IDsOf(dressed') = (IDsOf(dressed) \ IDsOf(out)) \cup {it.id}
    <3>1. IDsOf(dressed \ out) = IDsOf(dressed) \ IDsOf(out)
      BY <2>1, IDsMinus DEF OnePlace
    <3>2. IDsOf({Worn(it, s)}) = {it.id}
      BY IDsOne DEF Worn
    <3>3. IDsOf(dressed') = IDsOf(dressed \ out) \cup IDsOf({Worn(it, s)})
      BY <2>0, IDsUnion
    <3> QED BY <3>1, <3>2, <3>3
  <2>5. {it.id} \subseteq IDsOf(owned)
    BY <1>2 DEF IDsOf
  <2>6. /\ IDsOf(owned') \cup IDsOf(dressed') = IDsOf(owned) \cup IDsOf(dressed)
        /\ IDsOf(owned') \cap IDsOf(dressed') = {}
    <3>1. IDsOf(owned) \cap IDsOf(dressed) = {}
      BY DEF OnePlace
    <3>2. IDsOf(out) \subseteq IDsOf(dressed)
      BY <2>1 DEF IDsOf
    <3> HIDE DEF out
    <3> QED BY <2>3, <2>4, <2>5, <3>1, <3>2
  <2>7. \A x, y \in owned' : x.id = y.id => x = y
    <3>1. \A x \in owned : x.id \in IDsOf(owned)
      BY DEF IDsOf
    <3>2. \A d \in out : d.id \in IDsOf(dressed)
      BY <2>1 DEF IDsOf
    <3> QED BY <2>0, <2>1, <3>1, <3>2 DEF OnePlace, Bare, GearTypeOK
  <2>8. \A x, y \in dressed' : x.id = y.id => x = y
    <3>1. \A x \in dressed : x.id \in IDsOf(dressed)
      BY DEF IDsOf
    <3> QED BY <2>0, <2>5, <3>1 DEF OnePlace, Worn
  <2>9. OnePlace'
    BY <2>0, <2>6, <2>7, <2>8 DEF OnePlace
  <2>10. OnePerSlot'
    BY <2>0 DEF OnePerSlot, Worn, Occupants
  <2> QED BY <2>2, <2>9, <2>10
<1> QED BY <1>1, <1>2

LEMMA UndressInv ==
  ASSUME GInv, NEW s \in Slots, UndressWearable(s)
  PROVE  GInv'
<1> DEFINE out == Occupants(s)
<1> USE DEF GInv, UndressWearable
<1>1. out \subseteq dressed
  BY DEF Occupants
<1>2. GearTypeOK'
  BY <1>1 DEF GearTypeOK, Items, Bare
<1>3. IDsOf(owned') = IDsOf(owned) \cup IDsOf(out)
  BY IDsUnion, IDsBare
<1>4. IDsOf(dressed') = IDsOf(dressed) \ IDsOf(out)
  BY <1>1, IDsMinus DEF OnePlace
<1>5. /\ IDsOf(owned') \cup IDsOf(dressed') = IDsOf(owned) \cup IDsOf(dressed)
      /\ IDsOf(owned') \cap IDsOf(dressed') = {}
  <2>1. IDsOf(owned) \cap IDsOf(dressed) = {}
    BY DEF OnePlace
  <2>2. IDsOf(out) \subseteq IDsOf(dressed)
    BY <1>1 DEF IDsOf
  <2> HIDE DEF out
  <2> QED BY <1>3, <1>4, <2>1, <2>2
<1>6. \A x, y \in owned' : x.id = y.id => x = y
  <2>1. \A x \in owned : x.id \in IDsOf(owned)
    BY DEF IDsOf
  <2>2. \A d \in out : d.id \in IDsOf(dressed)
    BY <1>1 DEF IDsOf
  <2> QED BY <1>1, <2>1, <2>2 DEF OnePlace, Bare, GearTypeOK
<1>7. OnePlace'
  BY <1>5, <1>6 DEF OnePlace
<1>8. OnePerSlot'
  BY DEF OnePerSlot
<1> QED BY <1>2, <1>7, <1>8

LEMMA GearNextInv == GInv /\ [GearNext]_gearVars => GInv'
<1> SUFFICES ASSUME GInv, [GearNext]_gearVars PROVE GInv'
  OBVIOUS
<1>1. CASE \E a \in Wearables, n \in {1, 2} : BuyWearables(a, n)
  BY <1>1, BuyInv
<1>2. ASSUME NEW t \in Traders,
             \/ \E items \in SUBSET owned : Begin(t, "sell", items)
             \/ \E it \in owned : Begin(t, "dress", {it})
      PROVE  GInv'
  BY <1>2, BeginInv
<1>3. ASSUME NEW t \in Traders,
             \E it \in task[t].items : SellWearable(t, it) \/ DressWearable(t, it)
      PROVE  GInv'
  BY <1>3, SellInv, DressInv
<1>4. CASE \E s \in Slots : UndressWearable(s)
  BY <1>4, UndressInv
<1>5. CASE \E d \in {1, 2} : AddHeroMoney(d) \/ SpendHeroMoney(d)
  BY <1>5, MoneyInv
<1>6. CASE UNCHANGED gearVars
  BY <1>6 DEF gearVars, GInv, GearTypeOK, OnePlace, OnePerSlot
<1> QED BY <1>1, <1>2, <1>3, <1>4, <1>5, <1>6 DEF GearNext
-----------------------------------------------------------------------------
\* The invariant the theorems rest on.
THEOREM GearInvariant == GearSpec => []GInv
BY GearInitInv, GearNextInv, PTL DEF GearSpec

\* The types hold: ids stay below the next one, and the balance within its width.
THEOREM GearTypeCorrect == GearSpec => []GearTypeOK
<1>1. GInv => GearTypeOK
  BY DEF GInv
<1> QED BY <1>1, GearInvariant, PTL

\* Every item ever bought is in the bag, worn or sold, and only once, and a slot of
\* the doll holds at most one item, of its kind (the account's rows can be saved),
\* for any number of overlapping sales, swaps and undresses.
THEOREM NoDuplicates == GearSpec => []EachItemOnce
<1>1. GInv => EachItemOnce
  BY DEF GInv, EachItemOnce
<1> QED BY <1>1, GearInvariant, PTL

-----------------------------------------------------------------------------
(***************************************************************************)
(* What a set of items is worth.  MapThenSumSet is a recursive function on *)
(* the subsets of its argument: that it exists, that it does not depend on *)
(* the order of its choices, and that those for two sets agree on what     *)
(* they share, are inductions on the number of items.                      *)
(***************************************************************************)
Worth(S) == MapThenSumSet(LAMBDA it : SellPrice[it.art], S)
Pick(s) == CHOOSE x \in s : TRUE
UpTo(S, n) == {s \in SUBSET S : Cardinality(s) <= n}
Priced(S) == IsFiniteSet(S) /\ \A x \in S : x.art \in Wearables

\* f adds the prices of each of the sets in U.
Adds(f, U) ==
  f = [s \in U |-> IF s = {} THEN 0 ELSE SellPrice[Pick(s).art] + f[s \ {Pick(s)}]]

\* Any item of a subset may be added last.
AnyOrder(f, S) ==
  /\ f[{}] = 0
  /\ \A s \in SUBSET S : f[s] \in Nat /\ \A x \in s : f[s] = SellPrice[x.art] + f[s \ {x}]

LEMMA WorthIs ==
  ASSUME NEW S
  PROVE  Worth(S) = (CHOOSE f : Adds(f, SUBSET S))[S]
  BY DEF Worth, MapThenSumSet, MapThenFoldSet, Adds, Pick

LEMMA SmallSets ==
  ASSUME NEW S, IsFiniteSet(S)
  PROVE  /\ \A s \in SUBSET S : IsFiniteSet(s) /\ Cardinality(s) \in 0..Cardinality(S)
         /\ \A s \in SUBSET S : \A x \in s : Cardinality(s \ {x}) = Cardinality(s) - 1
         /\ \A s \in SUBSET S : (Cardinality(s) = 0) <=> (s = {})
         /\ \A s \in SUBSET S : s # {} => Pick(s) \in s
  <1>1. ASSUME NEW s \in SUBSET S PROVE IsFiniteSet(s) /\ Cardinality(s) \in 0..Cardinality(S)
    <2>1. IsFiniteSet(s) /\ Cardinality(s) <= Cardinality(S) BY FS_Subset
    <2>2. Cardinality(s) \in Nat /\ Cardinality(S) \in Nat BY <2>1, FS_CardinalityType
    <2> QED BY <2>1, <2>2
  <1>2. ASSUME NEW s \in SUBSET S, NEW x \in s PROVE Cardinality(s \ {x}) = Cardinality(s) - 1
    BY <1>1, FS_RemoveElement
  <1>3. \A s \in SUBSET S : (Cardinality(s) = 0) <=> (s = {}) BY <1>1, FS_EmptySet
  <1>4. \A s \in SUBSET S : s # {} => Pick(s) \in s BY DEF Pick
  <1> QED BY <1>1, <1>2, <1>3, <1>4

LEMMA AddsExists ==
  ASSUME NEW S, IsFiniteSet(S)
  PROVE  \E f : Adds(f, SUBSET S)
  <1> DEFINE N == {n \in Nat : \E f : Adds(f, UpTo(S, n))}
  <1>1. 0 \in N
    <2> DEFINE f == [s \in UpTo(S, 0) |-> 0]
    <2>1. \A s \in UpTo(S, 0) : s = {} BY SmallSets DEF UpTo
    <2>2. f = [s \in UpTo(S, 0) |-> IF s = {} THEN 0 ELSE SellPrice[Pick(s).art] + f[s \ {Pick(s)}]]
      BY <2>1
    <2> HIDE DEF f
    <2>3. Adds(f, UpTo(S, 0)) BY <2>2 DEF Adds
    <2> QED BY <2>3
  <1>2. ASSUME NEW n \in N PROVE n + 1 \in N
    <2>1. PICK f : Adds(f, UpTo(S, n)) OBVIOUS
    <2> DEFINE U == UpTo(S, n)  V == UpTo(S, n + 1)
               rest(s) == s \ {Pick(s)}
               g == [s \in V |-> IF s = {} THEN 0 ELSE SellPrice[Pick(s).art] + f[rest(s)]]
    <2>2. n \in Nat OBVIOUS
    <2>3. \A s \in V : s # {} => rest(s) \in U
      <3> SUFFICES ASSUME NEW s \in V, s # {} PROVE rest(s) \in U
        OBVIOUS
      <3>1. s \in SUBSET S /\ Cardinality(s) <= n + 1 /\ Pick(s) \in s BY SmallSets DEF UpTo
      <3>2. Cardinality(rest(s)) = Cardinality(s) - 1 /\ Cardinality(s) \in Int BY <3>1, SmallSets
      <3> QED BY <2>2, <3>1, <3>2 DEF UpTo
    <2>4. \A s \in U : s \in V
      <3> SUFFICES ASSUME NEW s \in U PROVE s \in V
        OBVIOUS
      <3>1. s \in SUBSET S /\ Cardinality(s) <= n BY DEF UpTo
      <3>2. Cardinality(s) \in Int BY <3>1, SmallSets
      <3> QED BY <2>2, <3>1, <3>2 DEF UpTo
    <2>5. \A s \in U : f[s] = IF s = {} THEN 0 ELSE SellPrice[Pick(s).art] + f[rest(s)]
      BY <2>1 DEF Adds
    <2>6. \A s \in V : g[s] = IF s = {} THEN 0 ELSE SellPrice[Pick(s).art] + f[rest(s)]
      OBVIOUS
    <2>7. \A s \in U : g[s] = f[s] BY <2>4, <2>5, <2>6
    <2>8. \A s \in V : s # {} => f[rest(s)] = g[rest(s)] BY <2>3, <2>7
    <2>9. g = [s \in V |-> IF s = {} THEN 0 ELSE SellPrice[Pick(s).art] + g[rest(s)]]
      <3> DEFINE k == [s \in V |-> IF s = {} THEN 0 ELSE SellPrice[Pick(s).art] + g[rest(s)]]
      <3> HIDE DEF rest, U, V
      <3>1. \A s \in V : g[s] = k[s] BY <2>8
      <3> QED BY <3>1
    <2> HIDE DEF g
    <2>10. Adds(g, V) BY <2>9 DEF Adds
    <2> QED BY <2>2, <2>10
  <1>3. Cardinality(S) \in Nat BY FS_CardinalityType
  <1>4. Cardinality(S) \in N
    <2> HIDE DEF N
    <2>1. N \subseteq Nat BY DEF N
    <2>2. 0..Cardinality(S) \subseteq N BY <1>1, <1>2, <1>3, <2>1, Induction
    <2> QED BY <1>3, <2>2
  <1>5. UpTo(S, Cardinality(S)) = SUBSET S BY <1>3, SmallSets DEF UpTo
  <1> QED BY <1>4, <1>5

LEMMA AddsAny ==
  ASSUME NEW S, Priced(S), NEW f, Adds(f, SUBSET S)
  PROVE  AnyOrder(f, S)
  <1> DEFINE Right(s) == f[s] \in Nat /\ \A x \in s : f[s] = SellPrice[x.art] + f[s \ {x}]
             N == {n \in Nat : \A s \in UpTo(S, n) : Right(s)}
  <1>0. \A s \in SUBSET S : f[s] = IF s = {} THEN 0 ELSE SellPrice[Pick(s).art] + f[s \ {Pick(s)}]
    BY DEF Adds
  <1>a. \A x \in S : SellPrice[x.art] \in Nat BY DEF Priced
  <1>b. IsFiniteSet(S) BY DEF Priced
  <1>1. 0 \in N
    <2>1. \A s \in UpTo(S, 0) : s = {} BY <1>b, SmallSets DEF UpTo
    <2> QED BY <1>0, <2>1
  <1>2. ASSUME NEW n \in N PROVE n + 1 \in N
    <2>0. n \in Nat /\ \A s \in UpTo(S, n) : Right(s) OBVIOUS
    <2>1. ASSUME NEW s \in UpTo(S, n + 1) PROVE Right(s)
      <3>1. s \in SUBSET S /\ Cardinality(s) <= n + 1 /\ Cardinality(s) \in Nat
        BY <1>b, SmallSets DEF UpTo
      <3>2. CASE s = {}
        <4>1. f[s] = 0 BY <1>0, <3>1, <3>2
        <4> QED BY <3>2, <4>1
      <3>3. CASE s # {}
        <4> DEFINE p == Pick(s)
        <4>1. p \in s BY <1>b, <3>1, <3>3, SmallSets
        <4>2. ASSUME NEW y \in s PROVE s \ {y} \in UpTo(S, n)
          <5>1. Cardinality(s \ {y}) = Cardinality(s) - 1 BY <1>b, <3>1, SmallSets
          <5>2. Cardinality(s \ {y}) <= n BY <2>0, <3>1, <5>1
          <5> QED BY <3>1, <5>2 DEF UpTo
        <4>3. f[s] = SellPrice[p.art] + f[s \ {p}] BY <1>0, <3>1, <3>3
        <4>4. f[s \ {p}] \in Nat BY <2>0, <4>1, <4>2
        <4>5. SellPrice[p.art] \in Nat BY <1>a, <3>1, <4>1
        <4> HIDE DEF p
        <4>6. ASSUME NEW x \in s PROVE f[s] = SellPrice[x.art] + f[s \ {x}]
          <5>1. CASE x = p BY <4>3, <5>1
          <5>2. CASE x # p
            <6>1. s \ {p} \in UpTo(S, n) /\ s \ {x} \in UpTo(S, n) BY <4>1, <4>2
            <6>2. Right(s \ {p}) /\ Right(s \ {x}) BY <2>0, <6>1
            <6>3. x \in s \ {p} /\ p \in s \ {x} BY <4>1, <5>2
            <6>4. f[s \ {p}] = SellPrice[x.art] + f[(s \ {p}) \ {x}] BY <6>2, <6>3
            <6>5. f[s \ {x}] = SellPrice[p.art] + f[(s \ {x}) \ {p}] BY <6>2, <6>3
            <6>6. (s \ {p}) \ {x} = (s \ {x}) \ {p} OBVIOUS
            <6>7. f[(s \ {p}) \ {x}] \in Nat
              <7>1. (s \ {p}) \ {x} \in SUBSET (s \ {p}) OBVIOUS
              <7>2. Cardinality((s \ {p}) \ {x}) = Cardinality(s \ {p}) - 1 /\ Cardinality(s \ {p}) \in Int
                BY <1>b, <3>1, <6>3, SmallSets
              <7>3. Cardinality(s \ {p}) <= n BY <6>1 DEF UpTo
              <7>4. Cardinality((s \ {p}) \ {x}) <= n BY <2>0, <7>2, <7>3
              <7>5. (s \ {p}) \ {x} \in UpTo(S, n) BY <3>1, <7>4 DEF UpTo
              <7> QED BY <2>0, <7>5
            <6>8. SellPrice[x.art] \in Nat BY <1>a, <3>1
            <6> DEFINE v == f[(s \ {p}) \ {x}]
            <6>9. f[s \ {p}] = SellPrice[x.art] + v /\ f[s \ {x}] = SellPrice[p.art] + v
              BY <6>4, <6>5, <6>6
            <6>10. v \in Nat BY <6>7
            <6> HIDE DEF v
            <6> QED BY <4>3, <4>5, <6>8, <6>9, <6>10
          <5> QED BY <5>1, <5>2
        <4>7. f[s] \in Nat BY <4>3, <4>4, <4>5
        <4> QED BY <4>6, <4>7
      <3> QED BY <3>2, <3>3
    <2> HIDE DEF Right
    <2> QED BY <2>0, <2>1
  <1>3. Cardinality(S) \in Nat BY <1>b, FS_CardinalityType
  <1>4. Cardinality(S) \in N
    <2> HIDE DEF N
    <2>1. N \subseteq Nat BY DEF N
    <2>2. 0..Cardinality(S) \subseteq N BY <1>1, <1>2, <1>3, <2>1, Induction
    <2> QED BY <1>3, <2>2
  <1>5. UpTo(S, Cardinality(S)) = SUBSET S BY <1>b, <1>3, SmallSets DEF UpTo
  <1> QED BY <1>0, <1>4, <1>5 DEF AnyOrder

LEMMA AddsAgree ==
  ASSUME NEW S, IsFiniteSet(S), NEW T \in SUBSET S,
         NEW f, Adds(f, SUBSET S), NEW g, Adds(g, SUBSET T)
  PROVE  f[T] = g[T]
  <1> DEFINE N == {n \in Nat : \A s \in UpTo(T, n) : f[s] = g[s]}
  <1>0. /\ \A s \in SUBSET S : f[s] = IF s = {} THEN 0 ELSE SellPrice[Pick(s).art] + f[s \ {Pick(s)}]
        /\ \A s \in SUBSET T : g[s] = IF s = {} THEN 0 ELSE SellPrice[Pick(s).art] + g[s \ {Pick(s)}]
    BY DEF Adds
  <1>a. IsFiniteSet(T) BY FS_Subset
  <1>1. 0 \in N
    <2>1. \A s \in UpTo(T, 0) : s = {} BY <1>a, SmallSets DEF UpTo
    <2> QED BY <1>0, <2>1
  <1>2. ASSUME NEW n \in N PROVE n + 1 \in N
    <2>0. n \in Nat /\ \A s \in UpTo(T, n) : f[s] = g[s] OBVIOUS
    <2>1. ASSUME NEW s \in UpTo(T, n + 1) PROVE f[s] = g[s]
      <3>1. s \in SUBSET T /\ Cardinality(s) <= n + 1 /\ Cardinality(s) \in Nat
        BY <1>a, SmallSets DEF UpTo
      <3>2. CASE s = {} BY <1>0, <3>2
      <3>3. CASE s # {}
        <4> DEFINE p == Pick(s)
        <4>1. p \in s BY <1>a, <3>1, <3>3, SmallSets
        <4>2. Cardinality(s \ {p}) = Cardinality(s) - 1 BY <1>a, <3>1, <4>1, SmallSets
        <4>3. Cardinality(s \ {p}) <= n BY <2>0, <3>1, <4>2
        <4>4. s \ {p} \in UpTo(T, n) BY <3>1, <4>3 DEF UpTo
        <4>5. f[s \ {p}] = g[s \ {p}] BY <2>0, <4>4
        <4> QED BY <1>0, <3>1, <3>3, <4>5
      <3> QED BY <3>2, <3>3
    <2> QED BY <2>0, <2>1
  <1>3. Cardinality(T) \in Nat BY <1>a, FS_CardinalityType
  <1>4. Cardinality(T) \in N
    <2> HIDE DEF N
    <2>1. N \subseteq Nat BY DEF N
    <2>2. 0..Cardinality(T) \subseteq N BY <1>1, <1>2, <1>3, <2>1, Induction
    <2> QED BY <1>3, <2>2
  <1>5. T \in UpTo(T, Cardinality(T)) BY <1>3 DEF UpTo
  <1> QED BY <1>4, <1>5

\* A set of items is worth what one of them is and the others are.
LEMMA WorthOf ==
  ASSUME NEW S, Priced(S)
  PROVE  /\ Worth(S) \in Nat
         /\ S = {} => Worth(S) = 0
         /\ \A x \in S : SellPrice[x.art] \in Nat /\ Priced(S \ {x})
                         /\ Worth(S \ {x}) \in Nat
                         /\ Worth(S) = SellPrice[x.art] + Worth(S \ {x})
  <1>1. ASSUME NEW T, Priced(T) PROVE Adds(CHOOSE f : Adds(f, SUBSET T), SUBSET T)
    <2>1. \E f : Adds(f, SUBSET T) BY <1>1, AddsExists DEF Priced
    <2> QED BY <2>1
  <1> DEFINE F(T) == CHOOSE f : Adds(f, SUBSET T)
  <1>2. \A T : Worth(T) = F(T)[T] BY WorthIs
  <1>3. ASSUME NEW T, Priced(T) PROVE AnyOrder(F(T), T)
    <2>1. Adds(F(T), SUBSET T) BY <1>1, <1>3
    <2> HIDE DEF F
    <2> QED BY <1>3, <2>1, AddsAny
  <1>4. ASSUME NEW x \in S
        PROVE  SellPrice[x.art] \in Nat /\ Priced(S \ {x}) /\ F(S)[S \ {x}] = F(S \ {x})[S \ {x}]
    <2>1. IsFiniteSet(S \ {x}) BY FS_RemoveElement DEF Priced
    <2>2. Priced(S \ {x}) BY <2>1 DEF Priced
    <2>3. Adds(F(S), SUBSET S) /\ Adds(F(S \ {x}), SUBSET (S \ {x})) BY <1>1, <2>2
    <2> HIDE DEF F
    <2>4. F(S)[S \ {x}] = F(S \ {x})[S \ {x}]
      <3>1. S \ {x} \in SUBSET S /\ IsFiniteSet(S) BY DEF Priced
      <3> QED BY <2>3, <3>1, AddsAgree
    <2>5. SellPrice[x.art] \in Nat BY DEF Priced
    <2> QED BY <2>2, <2>4, <2>5
  <1> HIDE DEF F
  <1>5. Worth(S) \in Nat
    <2>1. S \in SUBSET S OBVIOUS
    <2> QED BY <1>2, <1>3, <2>1 DEF AnyOrder
  <1>6. S = {} => Worth(S) = 0 BY <1>2, <1>3 DEF AnyOrder
  <1>7. ASSUME NEW x \in S
        PROVE  Worth(S \ {x}) \in Nat /\ Worth(S) = SellPrice[x.art] + Worth(S \ {x})
    <2>1. S \in SUBSET S /\ S \ {x} \in SUBSET S OBVIOUS
    <2>2. F(S)[S] = SellPrice[x.art] + F(S)[S \ {x}] /\ F(S)[S \ {x}] \in Nat BY <1>3, <2>1 DEF AnyOrder
    <2>3. F(S)[S \ {x}] = Worth(S \ {x}) BY <1>2, <1>4
    <2> QED BY <1>2, <2>2, <2>3
  <1> QED BY <1>4, <1>5, <1>6, <1>7

LEMMA WorthPlus ==
  ASSUME NEW S, Priced(S), NEW x, x \notin S, x.art \in Wearables
  PROVE  /\ Priced(S \cup {x}) /\ SellPrice[x.art] \in Nat
         /\ Worth(S \cup {x}) = Worth(S) + SellPrice[x.art]
  <1> DEFINE T == S \cup {x}
  <1>1. Priced(T)
    <2>1. IsFiniteSet(T) BY FS_AddElement DEF Priced
    <2> QED BY <2>1 DEF Priced
  <1>2. x \in T /\ T \ {x} = S OBVIOUS
  <1> HIDE DEF T
  <1>3. SellPrice[x.art] \in Nat /\ Worth(T) = SellPrice[x.art] + Worth(S) /\ Worth(S) \in Nat
    BY <1>1, <1>2, WorthOf
  <1> QED BY <1>1, <1>3 DEF T

\* The items of the hero are finitely many: each has an id of its own.
LEMMA ItemsPriced ==
  ASSUME GInv
  PROVE  Priced(owned) /\ Priced(dressed) /\ Worth(owned) \in Nat /\ Worth(dressed) \in Nat
  <1>1. IsFiniteSet(ItemIDs) BY FS_Interval DEF ItemIDs
  <1>2. ASSUME NEW S, \A x \in S : x.id \in ItemIDs, \A x, y \in S : x.id = y.id => x = y
        PROVE  IsFiniteSet(S)
    <2> DEFINE f == [x \in S |-> x.id]
    <2>1. f \in [S -> ItemIDs] BY <1>2
    <2>2. \A x, y \in S : f[x] = f[y] => x = y BY <1>2
    <2> HIDE DEF f
    <2>3. f \in Injection(S, ItemIDs) BY <2>1, <2>2 DEF Injection, IsInjective
    <2> QED BY <1>1, <2>3, FS_Injection
  <1>3. /\ \A x \in owned : x.id \in ItemIDs /\ x.art \in Wearables
        /\ \A x \in dressed : x.id \in ItemIDs /\ x.art \in Wearables
    BY DEF GInv, GearTypeOK, Items
  <1>4. IsFiniteSet(owned) /\ IsFiniteSet(dressed) BY <1>2, <1>3 DEF GInv, OnePlace
  <1>5. Priced(owned) /\ Priced(dressed) BY <1>3, <1>4 DEF Priced
  <1> QED BY <1>5, WorthOf

LEMMA IDsApart ==
  ASSUME GInv
  PROVE  /\ nextID \in Nat /\ \A x \in owned : x.id < nextID
         /\ \A x \in owned : \A d \in dressed : x.id # d.id
  <1>1. nextID \in Nat BY DEF GInv, GearTypeOK
  <1>2. \A x \in owned : x.id \in IDsOf(owned) BY DEF IDsOf
  <1>3. \A d \in dressed : d.id \in IDsOf(dressed) BY DEF IDsOf
  <1>4. IDsOf(owned) \subseteq 0..(nextID - 1) /\ IDsOf(owned) \cap IDsOf(dressed) = {}
    BY DEF GInv, OnePlace
  <1>5. \A x \in owned : x.id \in 0..(nextID - 1) BY <1>2, <1>4
  <1>6. \A x \in owned : x.id < nextID BY <1>1, <1>5
  <1> QED BY <1>1, <1>2, <1>3, <1>4, <1>6

-----------------------------------------------------------------------------
(***************************************************************************)
(* Nothing is for free.  The balance may wrap to a negative one, which the *)
(* next credit clamps to zero: that makes no money because the items alone *)
(* are worth no more than what was credited, either.                       *)
(***************************************************************************)
Paid == /\ Worth(owned) + Worth(dressed) <= earned
        /\ money + Worth(owned) + Worth(dressed) <= earned

LEMMA GearNumbers ==
  ASSUME GInv
  PROVE  /\ money \in Int /\ earned \in Nat /\ MaxMoney \in Nat
         /\ \A x \in Int : Int32(x) \in Int /\ Int32(x) <= x
         /\ \A a \in Wearables : SellPrice[a] \in Nat /\ Price[a] \in Nat /\ SellPrice[a] <= Price[a]
  <1>1. money \in Int /\ earned \in Nat /\ MaxMoney \in Nat BY DEF GInv, GearTypeOK
  <1>2. \A x \in Int : Int32(x) \in Int /\ Int32(x) <= x BY <1>1 DEF Int32
  <1>3. \A a \in Wearables : SellPrice[a] \in Nat /\ Price[a] \in Nat /\ SellPrice[a] <= Price[a]
    BY <1>1
  <1> QED BY <1>1, <1>2, <1>3

LEMMA MoneyPaid ==
  ASSUME GInv, Paid, NEW d \in {1, 2}, AddHeroMoney(d) \/ SpendHeroMoney(d)
  PROVE  Paid'
  <1>1. UNCHANGED <<owned, dressed>> BY DEF AddHeroMoney, SpendHeroMoney
  <1> DEFINE v == Worth(owned) + Worth(dressed)
  <1>2. v \in Nat /\ v <= earned /\ money + v <= earned BY ItemsPriced, GearNumbers DEF Paid
  <1> HIDE DEF v
  <1>3. CASE AddHeroMoney(d)
    <2> DEFINE m == Int32(money + d)
    <2>1. earned' = earned + d /\ money' = IF m < 0 THEN 0 ELSE m BY <1>3 DEF AddHeroMoney
    <2>2. m \in Int /\ m <= money + d BY GearNumbers
    <2> HIDE DEF m
    <2>3. v <= earned' /\ money' + v <= earned' BY <1>2, <2>1, <2>2, GearNumbers
    <2> QED BY <1>1, <2>1, <2>2, <2>3, ItemsPriced DEF Paid, v
  <1>4. CASE SpendHeroMoney(d)
    <2>1. earned' = earned /\ money' = money - d BY <1>4 DEF SpendHeroMoney
    <2>2. v <= earned' /\ money' + v <= earned' BY <1>2, <2>1, GearNumbers
    <2> QED BY <1>1, <2>1, <2>2, ItemsPriced, GearNumbers DEF Paid, v
  <1> QED BY <1>3, <1>4

LEMMA BuyPaid ==
  ASSUME GInv, Paid, NEW a \in Wearables, NEW n \in {1, 2}, BuyWearables(a, n)
  PROVE  Paid'
  <1> DEFINE item(i) == [id |-> i, art |-> a]
             p == Price[a]  s == SellPrice[a]
  <1>1. /\ money >= n * p /\ money' = money - n * p
        /\ owned' = owned \cup {item(i) : i \in nextID..(nextID + n - 1)}
        /\ dressed' = dressed /\ earned' = earned
    BY DEF BuyWearables
  <1>2. nextID \in Nat /\ \A x \in owned : x.id < nextID BY IDsApart
  <1>3. \A i : item(i).art = a /\ item(i).id = i OBVIOUS
  <1>4. p \in Nat /\ s \in Nat /\ s <= p BY GearNumbers
  <1>5. Priced(owned) /\ Worth(owned) \in Nat /\ Worth(dressed) \in Nat BY ItemsPriced
  <1>6. item(nextID) \notin owned BY <1>2, <1>3
  <1>7. /\ Priced(owned \cup {item(nextID)})
        /\ Worth(owned \cup {item(nextID)}) = Worth(owned) + s
    <2> HIDE DEF item
    <2> QED BY <1>3, <1>5, <1>6, WorthPlus
  <1>8. CASE n = 1
    <2>1. nextID..(nextID + n - 1) = {nextID} BY <1>2, <1>8
    <2>2. owned' = owned \cup {item(nextID)} BY <1>1, <2>1
    <2>3. money' = money - p /\ money >= p BY <1>1, <1>4, <1>8
    <2>4. Worth(owned') = Worth(owned) + s
      <3> HIDE DEF item
      <3> QED BY <1>7, <2>2
    <2> HIDE DEF item, p, s
    <2> QED BY <1>1, <1>4, <1>5, <2>3, <2>4, GearNumbers DEF Paid
  <1>9. CASE n = 2
    <2>1. nextID..(nextID + n - 1) = {nextID, nextID + 1} BY <1>2, <1>9
    <2>2. owned' = (owned \cup {item(nextID)}) \cup {item(nextID + 1)} BY <1>1, <2>1
    <2>3. item(nextID + 1) \notin owned \cup {item(nextID)} BY <1>2, <1>3
    <2>4. Worth(owned') = Worth(owned) + s + s
      <3> HIDE DEF item, s
      <3>1. Worth(owned') = Worth(owned \cup {item(nextID)}) + SellPrice[item(nextID + 1).art]
        BY <1>3, <1>7, <2>2, <2>3, WorthPlus
      <3> QED BY <1>3, <1>7, <3>1 DEF s
    <2>5. money' = money - 2 * p /\ money >= 2 * p BY <1>1, <1>9
    <2> HIDE DEF item, p, s
    <2> QED BY <1>1, <1>4, <1>5, <2>4, <2>5, GearNumbers DEF Paid
  <1> QED BY <1>8, <1>9

LEMMA SellPaid ==
  ASSUME GInv, Paid, NEW t \in Traders, NEW it \in task[t].items, SellWearable(t, it)
  PROVE  Paid'
  <1>1. dressed' = dressed /\ earned' = earned BY DEF SellWearable
  <1>2. CASE it \notin owned
    <2>1. owned' = owned /\ money' = money BY <1>2 DEF SellWearable
    <2> QED BY <1>1, <2>1 DEF Paid
  <1>3. CASE it \in owned
    <2> DEFINE s == SellPrice[it.art]
    <2>1. owned' = owned \ {it} /\ money' = Int32(money + s) BY <1>3 DEF SellWearable, Refund
    <2>2. s \in Nat /\ Worth(owned \ {it}) \in Nat /\ Worth(owned) = s + Worth(owned \ {it})
      BY <1>3, ItemsPriced, WorthOf
    <2>3. money' \in Int /\ money' <= money + s BY <2>1, <2>2, GearNumbers
    <2> HIDE DEF s
    <2> QED BY <1>1, <2>1, <2>2, <2>3, ItemsPriced, GearNumbers DEF Paid
  <1> QED BY <1>2, <1>3

\* What a swap or an undress moves keeps its price.
LEMMA DressPaid ==
  ASSUME GInv, Paid, NEW t \in Traders, NEW it \in task[t].items, DressWearable(t, it)
  PROVE  Paid'
  <1> DEFINE s == SlotOf[it.art]  out == Occupants(s)
  <1>1. money' = money /\ earned' = earned BY DEF DressWearable, Wear
  <1>2. CASE it \notin owned
    <2>1. owned' = owned /\ dressed' = dressed BY <1>2 DEF DressWearable, Wear
    <2> QED BY <1>1, <2>1 DEF Paid
  <1>3. CASE it \in owned
    <2> DEFINE A == owned \ {it}  w == Worn(it, s)
    <2>1. owned' = A \cup {Bare(d) : d \in out} /\ dressed' = (dressed \ out) \cup {w}
      BY <1>3 DEF DressWearable, Wear
    <2>2. /\ Priced(A) /\ Worth(A) \in Nat /\ SellPrice[it.art] \in Nat
          /\ Worth(owned) = SellPrice[it.art] + Worth(A)
      BY <1>3, ItemsPriced, WorthOf
    <2>3. w.art = it.art /\ w.id = it.id /\ it.art \in Wearables
      BY <1>3 DEF Worn, GInv, GearTypeOK, Items
    <2>4. w \notin dressed
      <3>1. \A d \in dressed : d.id # it.id BY <1>3, IDsApart
      <3> QED BY <2>3, <3>1
    <2>5. CASE out = {}
      <3>1. owned' = A /\ dressed' = dressed \cup {w} BY <2>1, <2>5
      <3>2. Worth(dressed') = Worth(dressed) + SellPrice[it.art]
        <4> HIDE DEF w
        <4> QED BY <2>3, <2>4, <3>1, ItemsPriced, WorthPlus
      <3> HIDE DEF A, w
      <3> QED BY <1>1, <2>2, <3>1, <3>2, ItemsPriced, GearNumbers DEF Paid
    <2>6. CASE out # {}
      <3>1. PICK d \in dressed : out = {d}
        <4>1. PICK d \in out : TRUE BY <2>6
        <4>2. d \in dressed /\ \A e \in out : e = d BY DEF Occupants, GInv, OnePerSlot
        <4> QED BY <4>1, <4>2
      <3> DEFINE b == Bare(d)  D == dressed \ {d}
      <3>2. owned' = A \cup {b} /\ dressed' = D \cup {w} BY <2>1, <3>1
      <3>3. b.art = d.art /\ b.id = d.id /\ d.art \in Wearables BY DEF Bare, GInv, GearTypeOK
      <3>4. b \notin A
        <4>1. \A x \in owned : x.id # d.id BY IDsApart
        <4> QED BY <3>3, <4>1
      <3>5. w \notin D BY <2>4
      <3>6. /\ Priced(D) /\ Worth(D) \in Nat /\ SellPrice[d.art] \in Nat
            /\ Worth(dressed) = SellPrice[d.art] + Worth(D)
        BY ItemsPriced, WorthOf
      <3> HIDE DEF A, w, b, D
      <3>7. Worth(owned') = Worth(A) + SellPrice[d.art] BY <2>2, <3>2, <3>3, <3>4, WorthPlus
      <3>8. Worth(dressed') = Worth(D) + SellPrice[it.art] BY <2>3, <3>2, <3>5, <3>6, WorthPlus
      <3> QED BY <1>1, <2>2, <3>6, <3>7, <3>8, GearNumbers DEF Paid
    <2> QED BY <2>5, <2>6
  <1> QED BY <1>2, <1>3

LEMMA UndressPaid ==
  ASSUME GInv, Paid, NEW s \in Slots, UndressWearable(s)
  PROVE  Paid'
  <1> DEFINE out == Occupants(s)
  <1>1. /\ out # {} /\ owned' = owned \cup {Bare(d) : d \in out} /\ dressed' = dressed \ out
        /\ money' = money /\ earned' = earned
    BY DEF UndressWearable
  <1>2. PICK d \in dressed : out = {d}
    <2>1. PICK d \in out : TRUE BY <1>1
    <2>2. d \in dressed /\ \A e \in out : e = d BY DEF Occupants, GInv, OnePerSlot
    <2> QED BY <2>1, <2>2
  <1> DEFINE b == Bare(d)
  <1>3. owned' = owned \cup {b} /\ dressed' = dressed \ {d} BY <1>1, <1>2
  <1>4. b.art = d.art /\ b.id = d.id /\ d.art \in Wearables BY DEF Bare, GInv, GearTypeOK
  <1>5. b \notin owned
    <2>1. \A x \in owned : x.id # d.id BY IDsApart
    <2> QED BY <1>4, <2>1
  <1>6. /\ Worth(dressed \ {d}) \in Nat /\ SellPrice[d.art] \in Nat
        /\ Worth(dressed) = SellPrice[d.art] + Worth(dressed \ {d})
    BY ItemsPriced, WorthOf
  <1> HIDE DEF b
  <1>7. Worth(owned') = Worth(owned) + SellPrice[d.art] BY <1>3, <1>4, <1>5, ItemsPriced, WorthPlus
  <1>8. Worth(dressed) = SellPrice[d.art] + Worth(dressed') /\ Worth(dressed') \in Nat BY <1>3, <1>6
  <1> QED BY <1>1, <1>6, <1>7, <1>8, ItemsPriced, GearNumbers DEF Paid

LEMMA PaidNext == GInv /\ Paid /\ [GearNext]_gearVars => Paid'
  <1> SUFFICES ASSUME GInv, Paid, [GearNext]_gearVars PROVE Paid'
    OBVIOUS
  <1>1. CASE \E a \in Wearables, n \in {1, 2} : BuyWearables(a, n) BY <1>1, BuyPaid
  <1>2. CASE \E t \in Traders : \/ \E items \in SUBSET owned : Begin(t, "sell", items)
                                \/ \E it \in owned : Begin(t, "dress", {it})
    BY <1>2 DEF Begin, Paid
  <1>3. CASE \E t \in Traders : \E it \in task[t].items : SellWearable(t, it) \/ DressWearable(t, it)
    BY <1>3, SellPaid, DressPaid
  <1>4. CASE \E s \in Slots : UndressWearable(s) BY <1>4, UndressPaid
  <1>5. CASE \E d \in {1, 2} : AddHeroMoney(d) \/ SpendHeroMoney(d) BY <1>5, MoneyPaid
  <1>6. CASE UNCHANGED gearVars BY <1>6 DEF gearVars, Paid
  <1> QED BY <1>1, <1>2, <1>3, <1>4, <1>5, <1>6 DEF GearNext

\* What a hero has, with his items at their selling price, was credited to him: for
\* any catalogue that buys back for no more than it sells, no order of purchases,
\* overlapping sales and debits makes money, even where the balance overflows.
THEOREM MoneyIsEarned == GearSpec => []NothingForFree
  <1>1. GearInit => Paid
    <2> SUFFICES ASSUME GearInit PROVE Paid
      OBVIOUS
    <2>1. GInv BY GearInitInv
    <2>2. owned = {} /\ dressed = {} /\ money = earned BY DEF GearInit
    <2>3. Worth(owned) = 0 /\ Worth(dressed) = 0 BY <2>1, <2>2, ItemsPriced, WorthOf
    <2> QED BY <2>1, <2>2, <2>3, GearNumbers DEF Paid
  <1>2. Paid => NothingForFree BY DEF Paid, NothingForFree, Worth
  <1> QED BY <1>1, <1>2, PaidNext, GearInvariant, PTL DEF GearSpec

HIDE GearAssumption

-----------------------------------------------------------------------------
(***************************************************************************)
(* The quests.                                                             *)
(***************************************************************************)

\* Progress is never ahead of the kills, and a quest that reads done has them all.
Earned ==
  \A q \in Quests : /\ status[q] = "InProgress" => progress[q] <= kills[q]
                    /\ status[q] = "Done" => kills[q] >= Count[q]

\* A quest that cools down still has to rest for what its timer shows.
Parked ==
  \A q \in Quests : status[q] = "WaitCooldown" =>
    q \in Replay /\ cooling[q] + rested[q] >= Cooldown[q]

\* A quest that can be reached again after a reward has rested.
Rested ==
  \A q \in Quests : status[q] \in {"None", "InProgress", "Done"} /\ paid[q] > 0 =>
    q \in Replay /\ rested[q] >= Cooldown[q]

QInv == QuestTypeOK /\ Earned /\ Parked /\ Rested

USE QuestAssumption
-----------------------------------------------------------------------------
(* One lemma per action. *)

LEMMA QuestInitInv == QuestInit => QInv
BY DEF QuestInit, QInv, QuestTypeOK, Statuses, Earned, Parked, Rested

LEMMA AcceptInv ==
  ASSUME QInv, NEW q \in Quests, AcceptQuest(q)
  PROVE  QInv'
<1> USE DEF QInv, AcceptQuest
<1>1. QuestTypeOK'
  BY DEF QuestTypeOK, Statuses
<1>2. Earned'
  BY DEF QuestTypeOK, Earned
<1>3. Parked'
  BY DEF QuestTypeOK, Parked
<1>4. Rested'
  BY DEF QuestTypeOK, Parked, Rested, CooledDown
<1> QED BY <1>1, <1>2, <1>3, <1>4

\* A quest that is parked can be cancelled only after it has cooled down.
LEMMA CancelInv ==
  ASSUME QInv, NEW q \in Quests, CancelQuest(q)
  PROVE  QInv'
<1> USE DEF QInv, CancelQuest, Drop
<1>1. QuestTypeOK'
  BY DEF QuestTypeOK, Statuses
<1>2. Earned'
  BY DEF QuestTypeOK, Earned
<1>3. Parked'
  BY DEF QuestTypeOK, Parked
<1>4. Rested'
  BY DEF QuestTypeOK, Parked, Rested, CooledDown
<1> QED BY <1>1, <1>2, <1>3, <1>4

LEMMA CompleteInv ==
  ASSUME QInv, NEW q \in Quests, CompleteQuest(q)
  PROVE  QInv'
<1> USE DEF QInv, CompleteQuest
<1>1. QuestTypeOK'
  BY DEF QuestTypeOK, Statuses
<1>2. Earned'
  BY DEF QuestTypeOK, Earned
<1>3. Parked'
  BY DEF QuestTypeOK, Parked
<1>4. Rested'
  BY DEF QuestTypeOK, Rested
<1> QED BY <1>1, <1>2, <1>3, <1>4

LEMMA KillInv ==
  ASSUME QInv, NEW m \in Mobs, AddQuestKill(m)
  PROVE  QInv'
<1> USE DEF QInv, AddQuestKill, Advanced
<1>1. QuestTypeOK'
  BY DEF QuestTypeOK, Statuses
<1>2. Earned'
  BY DEF QuestTypeOK, Earned
<1>3. Parked'
  BY DEF QuestTypeOK, Parked
<1>4. Rested'
  BY DEF QuestTypeOK, Rested
<1> QED BY <1>1, <1>2, <1>3, <1>4

LEMMA TickInv ==
  ASSUME QInv, QuestTick
  PROVE  QInv'
<1> USE DEF QInv, QuestTick
<1>1. QuestTypeOK'
  BY DEF QuestTypeOK, Statuses
<1>2. Earned'
  BY DEF QuestTypeOK, Earned
<1>3. Parked'
  BY DEF QuestTypeOK, Parked
<1>4. Rested'
  BY DEF QuestTypeOK, Rested
<1> QED BY <1>1, <1>2, <1>3, <1>4

LEMMA QuestNextInv == QInv /\ [QuestNext]_questVars => QInv'
<1> SUFFICES ASSUME QInv, [QuestNext]_questVars PROVE QInv'
  OBVIOUS
<1>1. CASE \E q \in Quests : AcceptQuest(q) \/ CancelQuest(q) \/ CompleteQuest(q)
  BY <1>1, AcceptInv, CancelInv, CompleteInv
<1>2. CASE \E m \in Mobs : AddQuestKill(m)
  BY <1>2, KillInv
<1>3. CASE QuestTick
  BY <1>3, TickInv
<1>4. CASE UNCHANGED questVars
  BY <1>4 DEF questVars, QInv, QuestTypeOK, Earned, Parked, Rested
<1> QED BY <1>1, <1>2, <1>3, <1>4 DEF QuestNext

\* Only a turn-in changes what was paid, and it starts from a quest that is done.
LEMMA PaidEarned ==
  QInv /\ [QuestNext]_questVars =>
    [\A q \in Quests : paid'[q] # paid[q] =>
       /\ kills[q] >= Count[q]
       /\ paid[q] > 0 => q \in Replay /\ rested[q] >= Cooldown[q]]_questVars
<1> SUFFICES ASSUME QInv, QuestNext, NEW q \in Quests, paid'[q] # paid[q]
             PROVE  /\ kills[q] >= Count[q]
                    /\ paid[q] > 0 => q \in Replay /\ rested[q] >= Cooldown[q]
  OBVIOUS
<1>1. PICK r \in Quests : CompleteQuest(r)
  BY DEF QuestNext, AcceptQuest, CancelQuest, Drop, AddQuestKill, QuestTick
<1>2. r = q
  BY <1>1 DEF CompleteQuest, QInv, QuestTypeOK
<1> QED BY <1>1, <1>2 DEF CompleteQuest, QInv, Earned, Rested
-----------------------------------------------------------------------------
\* The invariant the theorems rest on.
THEOREM QuestInvariant == QuestSpec => []QInv
BY QuestInitInv, QuestNextInv, PTL DEF QuestSpec

\* The types hold for any catalogue.
THEOREM QuestTypeCorrect == QuestSpec => []QuestTypeOK
<1>1. QInv => QuestTypeOK
  BY DEF QInv
<1> QED BY <1>1, QuestInvariant, PTL

\* Every reward is paid for a whole round of kills, and a later one only for a
\* replay quest that has cooled down, for any catalogue and any bound of turn-ins.
THEOREM RewardsAreEarned == QuestSpec => RewardsEarned
<1>1. QuestSpec => [][QuestNext]_questVars
  BY PTL DEF QuestSpec
<1> QED BY <1>1, QuestInvariant, PaidEarned, PTL DEF RewardsEarned

HIDE QuestAssumption

-----------------------------------------------------------------------------
(***************************************************************************)
(* The bag.                                                                *)
(***************************************************************************)
(***************************************************************************)
(* The inductive invariant.                                                *)
(***************************************************************************)
\* What a request resolved to is in the bag, and is no potion: those leave the bag
\* in a battle only.
Resolved ==
  \A r \in Reqs : req[r].pc \in {"check", "consume", "coins", "loot", "start", "push"} =>
    /\ req[r].art \in Articles \ Potions
    /\ req[r].pc = "start" => req[r].art \in Buffing

\* As long as requests came one after the other there is one under way, and the
\* rune it has been allowed to start is the only one of its category.
OneAtATime ==
  ~doubled =>
    /\ \A r, q \in Reqs : req[r].pc # "idle" /\ req[q].pc # "idle" => r = q
    /\ \A r \in Reqs : req[r].pc \in {"consume", "start"} /\ req[r].art \in Runes =>
         \A b \in buffs \cap Runes : Category[b] # Category[req[r].art]

BagInv == /\ BagTypeOK /\ OneStackPerArticle /\ UnitsConserved /\ PackCovered
          /\ Resolved /\ OneAtATime /\ OneRunePerCategory

\* The same of any bag b.
StacksIn(b, a) == {i \in DOMAIN b : b[i].article = a}
HeldIn(b, a) == IF StacksIn(b, a) = {} THEN 0 ELSE b[Min(StacksIn(b, a))].count
OneOfEach(b) == \A i, j \in DOMAIN b : b[i].article = b[j].article => i = j
AddedTo(b, a) == IF StacksIn(b, a) = {} THEN Append(b, [article |-> a, count |-> 1])
                                        ELSE [b EXCEPT ![Min(StacksIn(b, a))].count = @ + 1]
TakenFrom(b, i) == IF b[i].count = 1 THEN RemoveAt(b, i) ELSE [b EXCEPT ![i].count = @ - 1]

USE BagAssumption

-----------------------------------------------------------------------------
(***************************************************************************)
(* The sections of the Store.                                              *)
(***************************************************************************)
LEMMA StackAt ==
  ASSUME NEW b \in Seq(Stack), NEW i \in DOMAIN b
  PROVE  /\ b[i] \in Stack /\ b[i].article \in Articles /\ b[i].count \in Nat \ {0}
         /\ DOMAIN b = 1..Len(b) /\ Len(b) \in Nat /\ i \in Nat
  <1>1. DOMAIN b = 1..Len(b) /\ Len(b) \in Nat /\ i \in Nat /\ b[i] \in Stack OBVIOUS
  <1>2. \A s \in Stack : s.article \in Articles /\ s.count \in Nat \ {0} BY DEF Stack
  <1> QED BY <1>1, <1>2

CountSet(s, n) == LET t == [s EXCEPT !.count = n] IN
                  t \in Stack /\ t.article = s.article /\ t.count = n

LEMMA NewCount ==
  ASSUME NEW s \in Stack, NEW n \in Nat \ {0}
  PROVE  CountSet(s, n)
  <1> DEFINE t == [s EXCEPT !.count = n]
  <1>1. s = [article |-> s.article, count |-> s.count] /\ s.article \in Articles BY DEF Stack
  <1>2. t = [article |-> s.article, count |-> n] BY <1>1
  <1>3. t \in Stack BY <1>1, <1>2 DEF Stack
  <1> QED BY <1>2, <1>3 DEF CountSet

LEMMA StackSet ==
  ASSUME NEW b \in Seq(Stack), NEW k \in DOMAIN b, NEW s \in Stack
  PROVE  LET c == [b EXCEPT ![k] = s] IN
         /\ c \in Seq(Stack) /\ DOMAIN c = DOMAIN b /\ c[k] = s
         /\ \A i \in DOMAIN b \ {k} : c[i] = b[i]
  OBVIOUS

\* With one stack of an article, what is held of it is that stack's count.
LEMMA HeldIs ==
  ASSUME NEW b \in Seq(Stack), OneOfEach(b)
  PROVE  /\ \A i \in DOMAIN b : /\ StacksIn(b, b[i].article) = {i}
                                /\ Min(StacksIn(b, b[i].article)) = i
                                /\ HeldIn(b, b[i].article) = b[i].count
         /\ \A a : (\A i \in DOMAIN b : b[i].article # a) =>
                      StacksIn(b, a) = {} /\ HeldIn(b, a) = 0
         /\ \A a : HeldIn(b, a) \in Nat
  <1>1. ASSUME NEW i \in DOMAIN b
        PROVE  /\ StacksIn(b, b[i].article) = {i}
               /\ Min(StacksIn(b, b[i].article)) = i
               /\ HeldIn(b, b[i].article) = b[i].count
    <2>1. StacksIn(b, b[i].article) = {i} BY DEF StacksIn, OneOfEach
    <2>2. i \in Nat BY StackAt
    <2>3. Min({i}) = i
      <3>1. \E x \in {i} : \A y \in {i} : x <= y BY <2>2
      <3> QED BY <3>1 DEF Min
    <2> QED BY <2>1, <2>3 DEF HeldIn
  <1>2. ASSUME NEW a, \A i \in DOMAIN b : b[i].article # a
        PROVE  StacksIn(b, a) = {} /\ HeldIn(b, a) = 0
    BY <1>2 DEF StacksIn, HeldIn
  <1>3. ASSUME NEW a PROVE HeldIn(b, a) \in Nat
    <2>1. CASE \A i \in DOMAIN b : b[i].article # a BY <1>2, <2>1
    <2>2. CASE \E i \in DOMAIN b : b[i].article = a
      <3>1. PICK i \in DOMAIN b : b[i].article = a BY <2>2
      <3>2. HeldIn(b, a) = b[i].count BY <1>1, <3>1
      <3> QED BY <3>2, StackAt
    <2> QED BY <2>1, <2>2
  <1> QED BY <1>1, <1>2, <1>3

\* A bag with one stack per article has no more rows than the client knows.
LEMMA BagFits ==
  ASSUME NEW b \in Seq(Stack), OneOfEach(b)
  PROVE  Len(b) <= Rows
  <1> DEFINE f == [i \in 1..Len(b) |-> b[i].article]
  <1>1. Len(b) \in Nat /\ DOMAIN b = 1..Len(b) OBVIOUS
  <1>2. \A i \in 1..Len(b) : b[i].article \in Articles BY <1>1, StackAt
  <1>3. f \in Injection(1..Len(b), Articles)
    <2>1. f \in [1..Len(b) -> Articles] BY <1>2
    <2>2. \A i, j \in 1..Len(b) : f[i] = f[j] => i = j BY <1>1 DEF OneOfEach
    <2> HIDE DEF f
    <2> QED BY <2>1, <2>2 DEF Injection, IsInjective
  <1>4. Cardinality(1..Len(b)) <= Cardinality(Articles)
    <2> HIDE DEF f
    <2> QED BY <1>3, FS_Injection
  <1>5. Cardinality(1..Len(b)) = Len(b)
    <2>1. 1 \in Int /\ Len(b) \in Int BY <1>1
    <2>2. Cardinality(1..Len(b)) = IF 1 > Len(b) THEN 0 ELSE Len(b) - 1 + 1
      BY <2>1, FS_Interval
    <2> QED BY <1>1, <2>2
  <1>6. Cardinality(Articles) \in Nat BY FS_CardinalityType
  <1> QED BY <1>1, <1>4, <1>5, <1>6

\* One unit more: the article's stack grows, or a new one is put last.
LEMMA UnitAdded ==
  ASSUME NEW b \in Seq(Stack), OneOfEach(b), NEW a \in Articles
  PROVE  /\ AddedTo(b, a) \in Seq(Stack) /\ OneOfEach(AddedTo(b, a))
         /\ \A x : HeldIn(AddedTo(b, a), x) = IF x = a THEN HeldIn(b, x) + 1 ELSE HeldIn(b, x)
  <1> DEFINE c == AddedTo(b, a)
  <1>0. Len(b) \in Nat /\ DOMAIN b = 1..Len(b) OBVIOUS
  <1>1. CASE \A i \in DOMAIN b : b[i].article # a
    <2> DEFINE s == [article |-> a, count |-> 1]
    <2>a. s \in Stack
      <3>1. 1 \in Nat \ {0} OBVIOUS
      <3> QED BY <3>1 DEF Stack
    <2>b. StacksIn(b, a) = {} BY <1>1 DEF StacksIn
    <2>1. c = Append(b, s) /\ s \in Stack /\ s.article = a /\ s.count = 1 BY <2>a, <2>b DEF AddedTo
    <2> HIDE DEF s, c
    <2>2. /\ c \in Seq(Stack) /\ DOMAIN c = 1..(Len(b) + 1) /\ c[Len(b) + 1] = s
          /\ \A i \in DOMAIN b : c[i] = b[i]
      <3>1. c \in Seq(Stack) /\ Len(c) = Len(b) + 1 /\ c[Len(b) + 1] = s BY <2>1
      <3>2. \A i \in 1..Len(b) : c[i] = b[i] BY <2>1
      <3>3. DOMAIN c = 1..Len(c) BY <3>1
      <3> QED BY <1>0, <3>1, <3>2, <3>3
    <2>3. OneOfEach(c)
      <3> SUFFICES ASSUME NEW i \in DOMAIN c, NEW j \in DOMAIN c, c[i].article = c[j].article
                   PROVE  i = j
        BY DEF OneOfEach
      <3>1. i \in DOMAIN b \/ i = Len(b) + 1 BY <1>0, <2>2
      <3>2. j \in DOMAIN b \/ j = Len(b) + 1 BY <1>0, <2>2
      <3> QED BY <1>1, <2>1, <2>2, <3>1, <3>2 DEF OneOfEach
    <2>4. ASSUME NEW x PROVE HeldIn(c, x) = IF x = a THEN HeldIn(b, x) + 1 ELSE HeldIn(b, x)
      <3>1. Len(b) + 1 \in DOMAIN c /\ DOMAIN b \subseteq DOMAIN c BY <1>0, <2>2
      <3>2. CASE x = a
        <4>1. HeldIn(c, a) = 1 BY <2>1, <2>2, <2>3, <3>1, HeldIs
        <4>2. HeldIn(b, a) = 0 BY <1>1, HeldIs
        <4> QED BY <3>2, <4>1, <4>2
      <3>3. CASE x # a /\ \E i \in DOMAIN b : b[i].article = x
        <4>1. PICK i \in DOMAIN b : b[i].article = x BY <3>3
        <4>2. HeldIn(b, x) = b[i].count BY <4>1, HeldIs
        <4>a. i \in DOMAIN c /\ c[i] = b[i] BY <2>2, <3>1
        <4>3. HeldIn(c, c[i].article) = c[i].count BY <2>2, <2>3, <4>a, HeldIs
        <4> QED BY <3>3, <4>1, <4>2, <4>3, <4>a
      <3>4. CASE x # a /\ \A i \in DOMAIN b : b[i].article # x
        <4>1. \A i \in DOMAIN c : c[i].article # x
          <5> TAKE i \in DOMAIN c
          <5>1. i \in DOMAIN b \/ i = Len(b) + 1 BY <1>0, <2>2
          <5> QED BY <2>1, <2>2, <3>4, <5>1
        <4>2. HeldIn(c, x) = 0 BY <2>2, <2>3, <4>1, HeldIs
        <4>3. HeldIn(b, x) = 0 BY <3>4, HeldIs
        <4> QED BY <3>4, <4>2, <4>3
      <3> QED BY <3>2, <3>3, <3>4
    <2> QED BY <2>2, <2>3, <2>4 DEF c
  <1>2. CASE \E i \in DOMAIN b : b[i].article = a
    <2>1. PICK k \in DOMAIN b : b[k].article = a BY <1>2
    <2>2. StacksIn(b, a) = {k} /\ Min(StacksIn(b, a)) = k /\ HeldIn(b, a) = b[k].count
      BY <2>1, HeldIs
    <2>3. c = [b EXCEPT ![k].count = @ + 1] BY <2>2 DEF AddedTo
    <2> HIDE DEF c
    <2>4. b[k] \in Stack /\ b[k].count \in Nat \ {0} BY StackAt
    <2>5. CountSet(b[k], b[k].count + 1) BY <2>4, NewCount
    <2>6. /\ c \in Seq(Stack) /\ DOMAIN c = DOMAIN b /\ c[k].article = a /\ c[k].count = b[k].count + 1
          /\ \A i \in DOMAIN b \ {k} : c[i] = b[i]
      <3> DEFINE s == [b[k] EXCEPT !.count = b[k].count + 1]
      <3>1. c = [b EXCEPT ![k] = s] BY <2>3
      <3>2. s \in Stack /\ s.article = a /\ s.count = b[k].count + 1 BY <2>1, <2>5 DEF CountSet
      <3> HIDE DEF s
      <3>3. /\ [b EXCEPT ![k] = s] \in Seq(Stack) /\ DOMAIN [b EXCEPT ![k] = s] = DOMAIN b
            /\ [b EXCEPT ![k] = s][k] = s
            /\ \A i \in DOMAIN b \ {k} : [b EXCEPT ![k] = s][i] = b[i]
        BY <3>2, StackSet
      <3> QED BY ONLY <3>1, <3>2, <3>3
    <2>7. \A i \in DOMAIN b : c[i].article = b[i].article BY <2>1, <2>6
    <2>8. OneOfEach(c) BY <2>6, <2>7 DEF OneOfEach
    <2>9. ASSUME NEW x PROVE HeldIn(c, x) = IF x = a THEN HeldIn(b, x) + 1 ELSE HeldIn(b, x)
      <3>1. CASE x = a
        <4>1. HeldIn(c, c[k].article) = c[k].count BY <2>6, <2>8, HeldIs
        <4> QED BY <2>2, <2>6, <3>1, <4>1
      <3>2. CASE x # a /\ \E i \in DOMAIN b : b[i].article = x
        <4>1. PICK i \in DOMAIN b : b[i].article = x BY <3>2
        <4>2. HeldIn(b, x) = b[i].count BY <4>1, HeldIs
        <4>3. HeldIn(c, c[i].article) = c[i].count BY <2>6, <2>8, HeldIs
        <4>4. i # k BY <2>1, <3>2, <4>1
        <4> QED BY <2>6, <3>2, <4>1, <4>2, <4>3, <4>4
      <3>3. CASE x # a /\ \A i \in DOMAIN b : b[i].article # x
        <4>a. \A i \in DOMAIN c : c[i].article # x BY <2>6, <2>7, <3>3
        <4>1. HeldIn(c, x) = 0 BY <2>6, <2>8, <4>a, HeldIs
        <4>2. HeldIn(b, x) = 0 BY <3>3, HeldIs
        <4> QED BY <3>3, <4>1, <4>2
      <3> QED BY <3>1, <3>2, <3>3
    <2> QED BY <2>6, <2>8, <2>9 DEF c
  <1> QED BY <1>1, <1>2

\* A stack taken out: the others close up.
LEMMA RemovedAt ==
  ASSUME NEW b \in Seq(Stack), NEW k \in DOMAIN b
  PROVE  /\ RemoveAt(b, k) \in Seq(Stack)
         /\ DOMAIN RemoveAt(b, k) = 1..(Len(b) - 1)
         /\ \A i \in 1..(Len(b) - 1) : RemoveAt(b, k)[i] = IF i < k THEN b[i] ELSE b[i + 1]
  <1> DEFINE p == SubSeq(b, 1, k - 1)  q == SubSeq(b, k + 1, Len(b))
  <1>0. Len(b) \in Nat /\ DOMAIN b = 1..Len(b) /\ k \in 1..Len(b) OBVIOUS
  <1>1. /\ p \in Seq(Stack) /\ Len(p) = k - 1
        /\ \A i \in 1..(k - 1) : p[i] = b[i]
    BY <1>0
  <1>2. /\ q \in Seq(Stack) /\ Len(q) = Len(b) - k
        /\ \A i \in 1..(Len(b) - k) : q[i] = b[i + k]
    <2>1. k + 1 \in 1..(Len(b) + 1) /\ Len(b) \in 0..Len(b) BY <1>0
    <2>2. q \in Seq(Stack) /\ Len(q) = IF k + 1 <= Len(b) THEN Len(b) - (k + 1) + 1 ELSE 0
      BY <1>0, <2>1
    <2>3. Len(q) = Len(b) - k BY <1>0, <2>2
    <2>4. \A i \in 1..(Len(b) - k) : q[i] = b[(k + 1) + i - 1] BY <1>0, <2>1, <2>2
    <2>5. \A i \in 1..(Len(b) - k) : (k + 1) + i - 1 = i + k BY <1>0
    <2> HIDE DEF q
    <2> QED BY <2>2, <2>3, <2>4, <2>5
  <1>3. RemoveAt(b, k) = p \o q BY DEF RemoveAt
  <1> HIDE DEF p, q
  <1>4. /\ p \o q \in Seq(Stack) /\ Len(p \o q) = Len(b) - 1
        /\ \A i \in 1..(Len(b) - 1) : (p \o q)[i] = IF i <= Len(p) THEN p[i] ELSE q[i - Len(p)]
    <2>1. Len(p) + Len(q) = Len(b) - 1 BY <1>0, <1>1, <1>2
    <2>2. /\ p \o q \in Seq(Stack) /\ Len(p \o q) = Len(p) + Len(q)
          /\ \A i \in 1..(Len(p) + Len(q)) :
               (p \o q)[i] = IF i <= Len(p) THEN p[i] ELSE q[i - Len(p)]
      BY <1>1, <1>2
    <2> QED BY <2>1, <2>2
  <1>5. ASSUME NEW i \in 1..(Len(b) - 1)
        PROVE  (p \o q)[i] = IF i < k THEN b[i] ELSE b[i + 1]
    <2>1. CASE i < k BY <1>0, <1>1, <1>4, <2>1
    <2>2. CASE ~(i < k)
      <3>1. i - Len(p) \in 1..(Len(b) - k) /\ (i - Len(p)) + k = i + 1 BY <1>0, <1>1, <2>2
      <3>2. (p \o q)[i] = q[i - Len(p)] BY <1>0, <1>1, <1>4, <2>2
      <3> QED BY <1>2, <2>2, <3>1, <3>2
    <2> QED BY <2>1, <2>2
  <1> QED BY <1>3, <1>4, <1>5

\* One unit less of the article that stack k is of.
LEMMA UnitTaken ==
  ASSUME NEW b \in Seq(Stack), OneOfEach(b), NEW k \in DOMAIN b
  PROVE  /\ TakenFrom(b, k) \in Seq(Stack) /\ OneOfEach(TakenFrom(b, k))
         /\ \A x : HeldIn(TakenFrom(b, k), x) = IF x = b[k].article THEN HeldIn(b, x) - 1 ELSE HeldIn(b, x)
  <1> DEFINE c == TakenFrom(b, k)
  <1>0. Len(b) \in Nat /\ DOMAIN b = 1..Len(b) /\ k \in 1..Len(b) OBVIOUS
  <1>a. b[k] \in Stack /\ b[k].count \in Nat \ {0} /\ HeldIn(b, b[k].article) = b[k].count
    BY StackAt, HeldIs
  <1>1. CASE b[k].count = 1
    <2> DEFINE at(i) == IF i < k THEN i ELSE i + 1
    <2>1. c = RemoveAt(b, k) BY <1>1 DEF TakenFrom
    <2>2. /\ c \in Seq(Stack) /\ DOMAIN c = 1..(Len(b) - 1)
          /\ \A i \in DOMAIN c : c[i] = b[at(i)]
      BY <2>1, RemovedAt
    <2>3. \A i \in DOMAIN c : at(i) \in DOMAIN b \ {k} BY <1>0, <2>2
    <2>4. \A i, j \in DOMAIN c : at(i) = at(j) => i = j BY <1>0, <2>2
    <2>5. \A i \in DOMAIN b \ {k} : \E j \in DOMAIN c : at(j) = i
      <3> TAKE i \in DOMAIN b \ {k}
      <3>1. CASE i < k
        <4>1. i \in DOMAIN c /\ at(i) = i BY <1>0, <2>2, <3>1
        <4> QED BY <4>1
      <3>2. CASE i > k
        <4>1. i - 1 \in DOMAIN c /\ at(i - 1) = i BY <1>0, <2>2, <3>2
        <4> QED BY <4>1
      <3> QED BY <1>0, <3>1, <3>2
    <2> HIDE DEF at, c
    <2>6. OneOfEach(c) BY <2>2, <2>3, <2>4 DEF OneOfEach
    <2>7. ASSUME NEW x PROVE HeldIn(c, x) = IF x = b[k].article THEN HeldIn(b, x) - 1 ELSE HeldIn(b, x)
      <3>1. CASE x = b[k].article
        <4>1. \A i \in DOMAIN c : c[i].article # x BY <2>2, <2>3, <3>1 DEF OneOfEach
        <4>2. HeldIn(c, x) = 0 BY <2>2, <2>6, <4>1, HeldIs
        <4> QED BY <1>1, <1>a, <3>1, <4>2
      <3>2. CASE x # b[k].article /\ \E i \in DOMAIN b : b[i].article = x
        <4>1. PICK i \in DOMAIN b : b[i].article = x BY <3>2
        <4>2. PICK j \in DOMAIN c : at(j) = i BY <2>5, <3>2, <4>1
        <4>3. HeldIn(b, b[i].article) = b[i].count BY HeldIs
        <4>4. HeldIn(c, c[j].article) = c[j].count BY <2>2, <2>6, HeldIs
        <4>5. c[j] = b[i] BY <2>2, <4>2
        <4> QED BY <3>2, <4>1, <4>3, <4>4, <4>5
      <3>3. CASE x # b[k].article /\ \A i \in DOMAIN b : b[i].article # x
        <4>1. \A i \in DOMAIN c : c[i].article # x BY <2>2, <2>3, <3>3
        <4>2. HeldIn(c, x) = 0 BY <2>2, <2>6, <4>1, HeldIs
        <4>3. HeldIn(b, x) = 0 BY <3>3, HeldIs
        <4> QED BY <3>3, <4>2, <4>3
      <3> QED BY <3>1, <3>2, <3>3
    <2> QED BY <2>2, <2>6, <2>7 DEF c
  <1>2. CASE b[k].count # 1
    <2>1. c = [b EXCEPT ![k].count = @ - 1] BY <1>2 DEF TakenFrom
    <2>2. CountSet(b[k], b[k].count - 1)
      <3>1. b[k].count - 1 \in Nat \ {0} BY <1>2, <1>a
      <3> QED BY <1>a, <3>1, NewCount
    <2>3. /\ c \in Seq(Stack) /\ DOMAIN c = DOMAIN b
          /\ c[k].article = b[k].article /\ c[k].count = b[k].count - 1
          /\ \A i \in DOMAIN b \ {k} : c[i] = b[i]
      <3> DEFINE s == [b[k] EXCEPT !.count = b[k].count - 1]
      <3>1. c = [b EXCEPT ![k] = s] BY <2>1
      <3>2. s \in Stack /\ s.article = b[k].article /\ s.count = b[k].count - 1 BY <2>2 DEF CountSet
      <3> HIDE DEF s, c
      <3> QED BY <3>1, <3>2, StackSet
    <2> HIDE DEF c
    <2>4. \A i \in DOMAIN b : c[i].article = b[i].article BY <2>3
    <2>5. OneOfEach(c) BY <2>3, <2>4 DEF OneOfEach
    <2>6. ASSUME NEW x PROVE HeldIn(c, x) = IF x = b[k].article THEN HeldIn(b, x) - 1 ELSE HeldIn(b, x)
      <3>1. CASE x = b[k].article
        <4>1. HeldIn(c, c[k].article) = c[k].count BY <2>3, <2>5, HeldIs
        <4> QED BY <1>a, <2>3, <3>1, <4>1
      <3>2. CASE x # b[k].article /\ \E i \in DOMAIN b : b[i].article = x
        <4>1. PICK i \in DOMAIN b : b[i].article = x BY <3>2
        <4>2. HeldIn(b, b[i].article) = b[i].count BY HeldIs
        <4>3. HeldIn(c, c[i].article) = c[i].count BY <2>3, <2>5, HeldIs
        <4>4. c[i] = b[i] BY <2>3, <3>2, <4>1
        <4> QED BY <3>2, <4>1, <4>2, <4>3, <4>4
      <3>3. CASE x # b[k].article /\ \A i \in DOMAIN b : b[i].article # x
        <4>1. HeldIn(c, x) = 0 BY <2>3, <2>4, <2>5, <3>3, HeldIs
        <4>2. HeldIn(b, x) = 0 BY <3>3, HeldIs
        <4> QED BY <3>3, <4>1, <4>2
      <3> QED BY <3>1, <3>2, <3>3
    <2> QED BY <2>3, <2>5, <2>6 DEF c
  <1> QED BY <1>1, <1>2

\* The stacks come back from the table in another order.
LEMMA BagReloaded ==
  ASSUME NEW b \in Seq(Stack), OneOfEach(b), NEW c \in ByArticle(ToSet(b))
  PROVE  /\ c \in Seq(Stack) /\ OneOfEach(c)
         /\ \A x : HeldIn(c, x) = HeldIn(b, x)
  <1> DEFINE S == ToSet(b)  n == Cardinality(S)
  <1>0. Len(b) \in Nat /\ DOMAIN b = 1..Len(b) /\ \A i \in DOMAIN b : b[i] \in Stack BY StackAt
  <1>1. IsFiniteSet(S) /\ n \in Nat
    <2>1. b \in Surjection(1..Len(b), S)
      <3>1. b \in [1..Len(b) -> S] BY <1>0 DEF ToSet
      <3>2. \A x \in S : \E i \in 1..Len(b) : b[i] = x BY <1>0 DEF ToSet
      <3> HIDE DEF S
      <3> QED BY <3>1, <3>2 DEF Surjection
    <2>2. IsFiniteSet(1..Len(b)) BY <1>0, FS_Interval
    <2>3. IsFiniteSet(S) BY <2>1, <2>2, FS_Surjection
    <2> QED BY <2>3, FS_CardinalityType
  <1>2. c \in [1..n -> S] /\ ToSet(c) = S BY DEF ByArticle
  <1>3. \A x \in S : \E i \in 1..n : c[i] = x BY <1>2 DEF ToSet
  <1>4. \A x \in S : x \in Stack /\ \E i \in DOMAIN b : b[i] = x BY <1>0 DEF ToSet
  <1>b. \A i \in DOMAIN b : b[i] \in S BY DEF ToSet
  <1>5. c \in Injection(1..n, S)
    <2> HIDE DEF S
    <2>1. c \in Surjection(1..n, S) BY <1>2, <1>3 DEF Surjection
    <2>2. IsFiniteSet(1..n) /\ Cardinality(1..n) = n
      <3>1. 1 \in Int /\ n \in Int BY <1>1
      <3>2. IsFiniteSet(1..n) /\ Cardinality(1..n) = IF 1 > n THEN 0 ELSE n - 1 + 1
        BY <3>1, FS_Interval
      <3> QED BY <1>1, <3>2
    <2> QED BY <2>1, <2>2, FS_SurjSameCardinalityImpliesInj
  <1>6. \A i, j \in 1..n : c[i] = c[j] => i = j BY <1>5 DEF Injection, IsInjective
  <1> HIDE DEF S
  <1>7. c \in Seq(Stack) /\ DOMAIN c = 1..n
    <2>1. c \in [1..n -> Stack] BY <1>2, <1>4
    <2> HIDE DEF n
    <2> QED BY <1>1, <2>1, SeqDef
  <1> HIDE DEF n
  <1>8. OneOfEach(c)
    <2> SUFFICES ASSUME NEW i \in 1..n, NEW j \in 1..n, c[i].article = c[j].article PROVE i = j
      BY <1>7 DEF OneOfEach
    <2>1. c[i] \in S /\ c[j] \in S BY <1>2
    <2>2. PICK k \in DOMAIN b : b[k] = c[i] BY <1>4, <2>1
    <2>3. PICK l \in DOMAIN b : b[l] = c[j] BY <1>4, <2>1
    <2>4. k = l BY <2>2, <2>3 DEF OneOfEach
    <2> QED BY <1>6, <2>2, <2>3, <2>4
  <1>9. ASSUME NEW x PROVE HeldIn(c, x) = HeldIn(b, x)
    <2>1. CASE \E i \in DOMAIN b : b[i].article = x
      <3>1. PICK i \in DOMAIN b : b[i].article = x BY <2>1
      <3>2. PICK j \in 1..n : c[j] = b[i] BY <1>3, <1>b
      <3>3. HeldIn(b, b[i].article) = b[i].count BY HeldIs
      <3>4. HeldIn(c, c[j].article) = c[j].count BY <1>7, <1>8, HeldIs
      <3> QED BY <3>1, <3>2, <3>3, <3>4
    <2>2. CASE \A i \in DOMAIN b : b[i].article # x
      <3>1. \A j \in DOMAIN c : c[j].article # x
        <4> TAKE j \in DOMAIN c
        <4>1. c[j] \in S BY <1>2
        <4> QED BY <1>4, <2>2, <4>1
      <3>2. HeldIn(c, x) = 0 BY <1>7, <1>8, <3>1, HeldIs
      <3>3. HeldIn(b, x) = 0 BY <2>2, HeldIs
      <3> QED BY <3>2, <3>3
    <2> QED BY <2>1, <2>2
  <1> QED BY <1>7, <1>8, <1>9

-----------------------------------------------------------------------------
(***************************************************************************)
(* The requests.                                                           *)
(***************************************************************************)
Pcs == {"idle", "resolve", "check", "consume", "coins", "loot", "start", "push"}
HandsIn(q, a) == {r \in Reqs : q[r].pc \in {"coins", "start"} /\ q[r].art = a}
Counted(q, r, a) == IF r \in HandsIn(q, a) THEN 1 ELSE 0

\* The handler h with some of its fields changed.
Moved(h, s, a, n) == [pc |-> s, row |-> h.row, art |-> a, left |-> n, seen |-> h.seen]

LEMMA HandlerSet ==
  ASSUME NEW h \in Handler
  PROVE  /\ h.pc \in Pcs /\ h.row \in 0..Rows /\ h.art \in Articles \cup {None} /\ h.left \in Nat
         /\ h = Moved(h, h.pc, h.art, h.left)
         /\ \A s \in Pcs : [h EXCEPT !.pc = s] = Moved(h, s, h.art, h.left)
         /\ \A s \in Pcs, a \in Articles : [h EXCEPT !.art = a, !.pc = s] = Moved(h, s, a, h.left)
         /\ \A s \in Pcs, n \in Nat : [h EXCEPT !.left = n, !.pc = s] = Moved(h, s, h.art, n)
         /\ \A s \in Pcs, a \in Articles \cup {None}, n \in Nat : Moved(h, s, a, n) \in Handler
  <1>1. /\ h = [pc |-> h.pc, row |-> h.row, art |-> h.art, left |-> h.left, seen |-> h.seen]
        /\ h.pc \in Pcs /\ h.row \in 0..Rows /\ h.art \in Articles \cup {None} /\ h.left \in Nat
        /\ h.seen \in Articles \cup {None}
    BY DEF Handler, Pcs
  <1>2. \A s \in Pcs : [h EXCEPT !.pc = s] = Moved(h, s, h.art, h.left) BY <1>1 DEF Moved
  <1>3. \A s \in Pcs, a \in Articles : [h EXCEPT !.art = a, !.pc = s] = Moved(h, s, a, h.left)
    <2> TAKE s \in Pcs, a \in Articles
    <2>1. [h EXCEPT !.art = a] = Moved(h, h.pc, a, h.left) BY <1>1 DEF Moved
    <2>2. [h EXCEPT !.art = a, !.pc = s] = [[h EXCEPT !.art = a] EXCEPT !.pc = s] OBVIOUS
    <2>3. [Moved(h, h.pc, a, h.left) EXCEPT !.pc = s] = Moved(h, s, a, h.left) BY DEF Moved
    <2> QED BY <2>1, <2>2, <2>3
  <1>4. \A s \in Pcs, n \in Nat : [h EXCEPT !.left = n, !.pc = s] = Moved(h, s, h.art, n)
    <2> TAKE s \in Pcs, n \in Nat
    <2>1. [h EXCEPT !.left = n] = Moved(h, h.pc, h.art, n) BY <1>1 DEF Moved
    <2>2. [h EXCEPT !.left = n, !.pc = s] = [[h EXCEPT !.left = n] EXCEPT !.pc = s] OBVIOUS
    <2>3. [Moved(h, h.pc, h.art, n) EXCEPT !.pc = s] = Moved(h, s, h.art, n) BY DEF Moved
    <2> QED BY <2>1, <2>2, <2>3
  <1>5. ASSUME NEW s \in Pcs, NEW a \in Articles \cup {None}, NEW n \in Nat
        PROVE  Moved(h, s, a, n) \in Handler
    BY <1>1 DEF Moved, Handler, Pcs
  <1>6. h = Moved(h, h.pc, h.art, h.left) BY <1>1 DEF Moved
  <1> QED BY <1>1, <1>2, <1>3, <1>4, <1>5, <1>6

LEMMA IdleIsHandler == Idle \in Handler /\ Idle.pc = "idle" /\ Idle.art = None
  <1>1. 0 \in 0..Rows /\ 0 \in Nat OBVIOUS
  <1> QED BY <1>1 DEF Idle, Handler

\* When one request moves, the units in hand change by his.
LEMMA HandsStep ==
  ASSUME NEW q, NEW p, NEW r \in Reqs, \A s \in Reqs \ {r} : p[s] = q[s], NEW a
  PROVE  /\ Cardinality(HandsIn(q, a)) \in Nat /\ Cardinality(HandsIn(p, a)) \in Nat
         /\ Cardinality(HandsIn(p, a)) =
              Cardinality(HandsIn(q, a)) + Counted(p, r, a) - Counted(q, r, a)
  <1> DEFINE P == HandsIn(p, a)  Q == HandsIn(q, a)
  <1>1. P \subseteq Reqs /\ Q \subseteq Reqs /\ P \ {r} = Q \ {r} BY DEF HandsIn
  <1>2. IsFiniteSet(P) /\ IsFiniteSet(Q) BY <1>1, FS_Subset
  <1>3. Cardinality(P) \in Nat /\ Cardinality(Q) \in Nat BY <1>2, FS_CardinalityType
  <1>4. Cardinality(P \ {r}) = IF r \in P THEN Cardinality(P) - 1 ELSE Cardinality(P)
    BY <1>2, FS_RemoveElement
  <1>5. Cardinality(Q \ {r}) = IF r \in Q THEN Cardinality(Q) - 1 ELSE Cardinality(Q)
    BY <1>2, FS_RemoveElement
  <1> HIDE DEF P, Q
  <1>6. Cardinality(P) = Cardinality(Q) + (IF r \in P THEN 1 ELSE 0) - (IF r \in Q THEN 1 ELSE 0)
    <2>1. Cardinality(P \ {r}) = Cardinality(Q \ {r}) BY <1>1
    <2>2. CASE r \in P /\ r \in Q BY <1>3, <1>4, <1>5, <2>1, <2>2
    <2>3. CASE r \in P /\ r \notin Q BY <1>3, <1>4, <1>5, <2>1, <2>3
    <2>4. CASE r \notin P /\ r \in Q BY <1>3, <1>4, <1>5, <2>1, <2>4
    <2>5. CASE r \notin P /\ r \notin Q BY <1>3, <1>4, <1>5, <2>1, <2>5
    <2> QED BY <2>2, <2>3, <2>4, <2>5
  <1> QED BY <1>3, <1>6 DEF P, Q, Counted

\* What is true of the bag, with what is in the hands of requests counted.
Ledger(b, g, u, q, l) ==
  \A a \in Articles : g[a] = HeldIn(b, a) + u[a] + Cardinality(HandsIn(q, a)) + l[a]

LEMMA LedgerIs ==
  /\ UnitsConserved <=> Ledger(bag, granted, used, req, lost)
  /\ UnitsConserved' <=> Ledger(bag', granted', used', req', lost')
  /\ OneStackPerArticle <=> OneOfEach(bag)
  /\ OneStackPerArticle' <=> OneOfEach(bag')
  /\ \A a : Held(a) = HeldIn(bag, a) /\ Stacks(a) = StacksIn(bag, a)
            /\ Held(a)' = HeldIn(bag', a)
  <1>1. \A a : Held(a) = HeldIn(bag, a) /\ Stacks(a) = StacksIn(bag, a)
               /\ Held(a)' = HeldIn(bag', a)
    BY DEF Held, HeldIn, Stacks, StacksIn
  <1>2. \A a : InHand(a) = Cardinality(HandsIn(req, a)) /\ InHand(a)' = Cardinality(HandsIn(req', a))
    BY DEF InHand, HandsIn, Taken
  <1> QED BY <1>1, <1>2 DEF UnitsConserved, Ledger, OneStackPerArticle, OneOfEach

\* A request moves on, and nothing is taken, used or credited.
LEMMA RequestMoves ==
  ASSUME BagInv, NEW r \in Reqs, NEW t \in Handler, req' = [req EXCEPT ![r] = t],
         UNCHANGED <<bag, granted, used, lost, pack>>,
         \A a \in Articles : Counted(req', r, a) = Counted(req, r, a),
         t.pc \in Pcs \ {"idle", "resolve"} => t.art \in Articles \ Potions, t.pc # "start"
  PROVE  /\ req' \in [Reqs -> Handler] /\ OneStackPerArticle' /\ UnitsConserved' /\ PackCovered'
         /\ Resolved'
  <1>1. req \in [Reqs -> Handler] BY DEF BagInv, BagTypeOK
  <1>2. req' \in [Reqs -> Handler] /\ req'[r] = t /\ \A s \in Reqs \ {r} : req'[s] = req[s] BY <1>1
  <1>3. OneStackPerArticle' BY DEF BagInv, OneStackPerArticle
  <1>4. UnitsConserved'
    <2>1. Ledger(bag, granted, used, req, lost) BY LedgerIs DEF BagInv
    <2>2. \A a \in Articles : Cardinality(HandsIn(req', a)) = Cardinality(HandsIn(req, a))
      <3> TAKE a \in Articles
      <3>1. /\ Cardinality(HandsIn(req, a)) \in Nat /\ Cardinality(HandsIn(req', a)) \in Nat
            /\ Cardinality(HandsIn(req', a)) =
                 Cardinality(HandsIn(req, a)) + Counted(req', r, a) - Counted(req, r, a)
        BY ONLY <1>2, HandsStep, r \in Reqs
      <3>2. Counted(req, r, a) \in {0, 1} BY DEF Counted
      <3>3. Counted(req', r, a) = Counted(req, r, a) OBVIOUS
      <3> QED BY ONLY <3>1, <3>2, <3>3
    <2>3. Ledger(bag', granted', used', req', lost') BY <2>1, <2>2 DEF Ledger
    <2> QED BY <2>3, LedgerIs
  <1>5. PackCovered'
    <2>1. \A a : Held(a)' = Held(a) BY DEF Held, Stacks
    <2> QED BY <2>1 DEF BagInv, PackCovered
  <1>6. Resolved'
    <2> SUFFICES ASSUME NEW s \in Reqs,
                        req'[s].pc \in {"check", "consume", "coins", "loot", "start", "push"}
                 PROVE  /\ req'[s].art \in Articles \ Potions
                        /\ req'[s].pc = "start" => req'[s].art \in Buffing
      BY DEF Resolved
    <2>1. CASE s = r BY <1>2, <2>1 DEF Pcs
    <2>2. CASE s # r BY <1>2, <2>2 DEF BagInv, Resolved
    <2> QED BY <2>1, <2>2
  <1> QED BY <1>2, <1>3, <1>4, <1>5, <1>6

\* One request moves: if it was under way before, it is still the only one, if it
\* was.
LEMMA OneMoves ==
  ASSUME BagInv, NEW r \in Reqs, NEW t \in Handler, req' = [req EXCEPT ![r] = t],
         req[r].pc # "idle", doubled' = doubled,
         ~doubled /\ t.pc \in {"consume", "start"} /\ t.art \in Runes =>
           \A b \in buffs' \cap Runes : Category[b] # Category[t.art]
  PROVE  OneAtATime'
  <1>1. req \in [Reqs -> Handler] BY DEF BagInv, BagTypeOK
  <1>2. req'[r] = t /\ \A s \in Reqs \ {r} : req'[s] = req[s] BY <1>1
  <1> SUFFICES ASSUME ~doubled'
               PROVE  /\ \A s, q \in Reqs : req'[s].pc # "idle" /\ req'[q].pc # "idle" => s = q
                      /\ \A s \in Reqs : req'[s].pc \in {"consume", "start"} /\ req'[s].art \in Runes =>
                           \A b \in buffs' \cap Runes : Category[b] # Category[req'[s].art]
    BY DEF OneAtATime
  <1>3. \A s \in Reqs \ {r} : req[s].pc = "idle" BY DEF BagInv, OneAtATime
  <1>4. \A s \in Reqs \ {r} : req'[s].pc = "idle" BY <1>2, <1>3
  <1> QED BY <1>2, <1>4

\* Nothing happens to the requests.
LEMMA OneStays ==
  ASSUME BagInv, UNCHANGED <<req, doubled>>, buffs' \subseteq buffs
  PROVE  OneAtATime' /\ OneRunePerCategory' /\ Resolved'
  BY DEF BagInv, OneAtATime, OneRunePerCategory, Resolved

LEMMA NothingTaken ==
  ASSUME BagInv, UNCHANGED <<bag, granted, used, lost, req>>
  PROVE  OneStackPerArticle' /\ UnitsConserved' /\ \A a : Held(a)' = Held(a)
  <1>1. \A a : Held(a)' = Held(a) /\ InHand(a)' = InHand(a) BY DEF Held, Stacks, InHand, Taken
  <1> QED BY <1>1 DEF BagInv, UnitsConserved, OneStackPerArticle

LEMMA FetchBagInv == ASSUME BagInv, FetchBag PROVE BagInv'
  <1>1. /\ screen' = [i \in 1..Rows |-> IF i \in DOMAIN bag THEN bag[i].article ELSE None]
        /\ UNCHANGED <<bag, buffs, req, pack, granted, used, lost, doubled>>
    BY DEF FetchBag
  <1>2. bag \in Seq(Stack) BY DEF BagInv, BagTypeOK
  <1>3. screen' \in [1..Rows -> Articles \cup {None}] BY <1>1, <1>2, StackAt
  <1>4. BagTypeOK' BY <1>1, <1>3 DEF BagInv, BagTypeOK
  <1>5. OneStackPerArticle' /\ UnitsConserved' /\ PackCovered'
    BY <1>1, NothingTaken DEF BagInv, PackCovered
  <1> QED BY <1>1, <1>4, <1>5, OneStays DEF BagInv

LEMMA RequestInv == ASSUME BagInv, NEW r \in Reqs, NEW i \in 1..Rows, Request(r, i) PROVE BagInv'
  <1> DEFINE t == [Idle EXCEPT !.pc = "resolve", !.row = i, !.seen = screen[i]]
  <1>1. /\ req[r].pc = "idle" /\ req' = [req EXCEPT ![r] = t]
        /\ doubled' = (doubled \/ \E q \in Reqs : req[q].pc # "idle")
        /\ UNCHANGED <<bag, buffs, pack, screen, granted, used, lost>>
    BY DEF Request
  <1>2. req \in [Reqs -> Handler] /\ screen \in [1..Rows -> Articles \cup {None}] BY DEF BagInv, BagTypeOK
  <1>3. t = [pc |-> "resolve", row |-> i, art |-> None, left |-> 0, seen |-> screen[i]]
    <2>1. Idle = [pc |-> "idle", row |-> 0, art |-> None, left |-> 0, seen |-> None] BY DEF Idle
    <2>2. [Idle EXCEPT !.pc = "resolve"]
            = [pc |-> "resolve", row |-> 0, art |-> None, left |-> 0, seen |-> None]
      BY <2>1
    <2> DEFINE x == [pc |-> "resolve", row |-> 0, art |-> None, left |-> 0, seen |-> None]
               y == [pc |-> "resolve", row |-> i, art |-> None, left |-> 0, seen |-> None]
    <2>3. t = [[[Idle EXCEPT !.pc = "resolve"] EXCEPT !.row = i] EXCEPT !.seen = screen[i]] OBVIOUS
    <2>4. [x EXCEPT !.row = i] = y OBVIOUS
    <2>5. [y EXCEPT !.seen = screen[i]]
            = [pc |-> "resolve", row |-> i, art |-> None, left |-> 0, seen |-> screen[i]]
      OBVIOUS
    <2> HIDE DEF t
    <2> QED BY <2>2, <2>3, <2>4, <2>5
  <1>4. t \in Handler /\ t.pc = "resolve"
    <2>1. i \in 0..Rows /\ 0 \in Nat /\ screen[i] \in Articles \cup {None} BY <1>2
    <2> QED BY <1>3, <2>1 DEF Handler
  <1> HIDE DEF t
  <1>5. req'[r] = t /\ \A s \in Reqs \ {r} : req'[s] = req[s] BY <1>1, <1>2
  <1>6. \A a \in Articles : Counted(req', r, a) = Counted(req, r, a)
    BY <1>1, <1>4, <1>5 DEF Counted, HandsIn
  <1>7. /\ req' \in [Reqs -> Handler] /\ OneStackPerArticle' /\ UnitsConserved' /\ PackCovered'
        /\ Resolved'
    BY <1>1, <1>4, <1>6, RequestMoves
  <1>8. BagTypeOK' BY <1>1, <1>7 DEF BagInv, BagTypeOK
  <1>9. OneAtATime'
    <2> SUFFICES ASSUME ~doubled'
                 PROVE  /\ \A s, q \in Reqs : req'[s].pc # "idle" /\ req'[q].pc # "idle" => s = q
                        /\ \A s \in Reqs : req'[s].pc \in {"consume", "start"} /\ req'[s].art \in Runes =>
                             \A b \in buffs' \cap Runes : Category[b] # Category[req'[s].art]
      BY DEF OneAtATime
    <2>1. \A s \in Reqs \ {r} : req'[s].pc = "idle" BY <1>1, <1>5
    <2>2. req'[r].pc = "resolve" BY <1>4, <1>5
    <2> QED BY <2>1, <2>2
  <1>10. OneRunePerCategory' BY <1>1 DEF BagInv, OneRunePerCategory
  <1> QED BY <1>7, <1>8, <1>9, <1>10 DEF BagInv

\* A section of a request that reads, or sends what it has found.
LEMMA ReadInv ==
  ASSUME BagInv, NEW r \in Reqs, NEW t \in Handler, req' = [req EXCEPT ![r] = t],
         req[r].pc # "idle", UNCHANGED <<bag, buffs, granted, used, lost, pack, doubled>>,
         screen' \in [1..Rows -> Articles \cup {None}],
         req[r].pc \notin {"coins", "start"}, t.pc \notin {"coins", "start"}, t.pc \in Pcs,
         t.pc \notin {"idle", "resolve"} => t.art \in Articles \ Potions,
         ~doubled /\ t.pc = "consume" /\ t.art \in Runes =>
           \A b \in buffs \cap Runes : Category[b] # Category[t.art]
  PROVE  BagInv'
  <1>1. req \in [Reqs -> Handler] BY DEF BagInv, BagTypeOK
  <1>2. req'[r] = t BY <1>1
  <1>3. \A a \in Articles : Counted(req', r, a) = Counted(req, r, a) BY <1>2 DEF Counted, HandsIn
  <1>4. /\ req' \in [Reqs -> Handler] /\ OneStackPerArticle' /\ UnitsConserved' /\ PackCovered'
        /\ Resolved'
    BY <1>3, RequestMoves
  <1>5. OneAtATime' BY OneMoves
  <1>6. BagTypeOK' BY <1>4 DEF BagInv, BagTypeOK
  <1>7. OneRunePerCategory' BY DEF BagInv, OneRunePerCategory
  <1> QED BY <1>4, <1>5, <1>6, <1>7 DEF BagInv

LEMMA ResolveInv == ASSUME BagInv, NEW r \in Reqs, Resolve(r) PROVE BagInv'
  <1> DEFINE i == req[r].row  h == req[r]
  <1>1. h \in Handler /\ bag \in Seq(Stack) /\ screen \in [1..Rows -> Articles \cup {None}]
    BY DEF BagInv, BagTypeOK
  <1>2. h.pc = "resolve" /\ UNCHANGED <<bag, buffs, pack, screen, granted, used, lost, doubled>>
    BY DEF Resolve
  <1>3. CASE ~(i \in DOMAIN bag /\ bag[i].article \notin Potions)
    <2>1. req' = [req EXCEPT ![r] = Idle] BY <1>3 DEF Resolve, Done
    <2>2. "idle" \in Pcs BY DEF Pcs
    <2> QED BY <1>1, <1>2, <2>1, <2>2, IdleIsHandler, ReadInv
  <1>4. CASE i \in DOMAIN bag /\ bag[i].article \notin Potions
    <2> DEFINE a == bag[i].article
               s == IF a \in Runes THEN "check" ELSE "consume"
               t == Moved(h, s, a, h.left)
    <2>1. a \in Articles \ Potions /\ s \in Pcs BY <1>1, <1>4, StackAt DEF Pcs
    <2>2. req' = [req EXCEPT ![r] = [h EXCEPT !.art = a, !.pc = s]] BY <1>4 DEF Resolve
    <2>3. req' = [req EXCEPT ![r] = t] /\ t \in Handler
      <3> HIDE DEF a, s, h
      <3>1. [h EXCEPT !.art = a, !.pc = s] = Moved(h, s, a, h.left) BY <1>1, <2>1, HandlerSet
      <3>2. Moved(h, s, a, h.left) \in Handler BY <1>1, <2>1, HandlerSet
      <3> QED BY <2>2, <3>1, <3>2
    <2>4. t.pc = s /\ t.art = a /\ s \in {"check", "consume"} /\ (s = "consume" => a \notin Runes)
      BY DEF Moved
    <2> HIDE DEF a, s, t
    <2> QED BY <1>1, <1>2, <2>1, <2>3, <2>4, ReadInv
  <1> QED BY <1>3, <1>4

LEMMA CheckInv == ASSUME BagInv, NEW r \in Reqs, Check(r) PROVE BagInv'
  <1> DEFINE h == req[r]
             refused == \E b \in buffs \cap Runes : Category[b] = Category[h.art]
  <1>1. h \in Handler /\ screen \in [1..Rows -> Articles \cup {None}] BY DEF BagInv, BagTypeOK
  <1>2. /\ h.pc = "check" /\ UNCHANGED <<bag, buffs, pack, screen, granted, used, lost, doubled>>
        /\ req' = [req EXCEPT ![r] = IF refused THEN Idle ELSE [h EXCEPT !.pc = "consume"]]
    BY DEF Check, CheckAgainst, Done, Goto
  <1>3. CASE refused
    <2>1. req' = [req EXCEPT ![r] = Idle] BY <1>2, <1>3
    <2>2. "idle" \in Pcs BY DEF Pcs
    <2> QED BY <1>1, <1>2, <2>1, <2>2, IdleIsHandler, ReadInv
  <1>4. CASE ~refused
    <2> DEFINE t == Moved(h, "consume", h.art, h.left)
    <2>1. "consume" \in Pcs BY DEF Pcs
    <2>2. req' = [req EXCEPT ![r] = t] /\ t \in Handler
      <3>1. req' = [req EXCEPT ![r] = [h EXCEPT !.pc = "consume"]] BY <1>2, <1>4
      <3> HIDE DEF h
      <3> QED BY <1>1, <2>1, <3>1, HandlerSet
    <2>3. t.pc = "consume" /\ t.art = h.art BY DEF Moved
    <2>4. h.art \in Articles \ Potions BY <1>2 DEF BagInv, Resolved
    <2>5. \A b \in buffs \cap Runes : Category[b] # Category[t.art] BY <1>4, <2>3
    <2>6. t.art \in Articles \ Potions /\ t.pc \in Pcs /\ t.pc \notin {"coins", "start"}
      BY <2>1, <2>3, <2>4
    <2>7. req[r].pc \notin {"coins", "start", "idle"} BY <1>2
    <2>8. screen' \in [1..Rows -> Articles \cup {None}] BY <1>1, <1>2
    <2> HIDE DEF t, refused, h
    <2> QED BY <1>2, <2>2, <2>5, <2>6, <2>7, <2>8, ReadInv
  <1> QED BY <1>3, <1>4

LEMMA PushBagInv == ASSUME BagInv, NEW r \in Reqs, PushBag(r) PROVE BagInv'
  <1>1. req[r] \in Handler /\ screen \in [1..Rows -> Articles \cup {None}] BY DEF BagInv, BagTypeOK
  <1>2. /\ req[r].pc = "push" /\ req' = [req EXCEPT ![r] = Idle]
        /\ screen' = [screen EXCEPT ![req[r].row] = IF req[r].left = 0 THEN None ELSE req[r].art]
        /\ UNCHANGED <<bag, buffs, pack, granted, used, lost, doubled>>
    BY DEF PushBag, Done
  <1>3. req[r].art \in Articles \cup {None} BY <1>1, HandlerSet
  <1>4. screen' \in [1..Rows -> Articles \cup {None}] BY <1>1, <1>2, <1>3
  <1>5. "idle" \in Pcs BY DEF Pcs
  <1> QED BY <1>1, <1>2, <1>4, <1>5, IdleIsHandler, ReadInv

LEMMA BuffExpiresInv == ASSUME BagInv, NEW b \in buffs, BuffExpires(b) PROVE BagInv'
  <1>1. buffs' = buffs \ {b} /\ UNCHANGED <<bag, req, pack, screen, granted, used, lost, doubled>>
    BY DEF BuffExpires
  <1>2. BagTypeOK' BY <1>1 DEF BagInv, BagTypeOK
  <1>3. OneStackPerArticle' /\ UnitsConserved' /\ PackCovered'
    BY <1>1, NothingTaken DEF BagInv, PackCovered
  <1> QED BY <1>1, <1>2, <1>3, OneStays DEF BagInv

\* Into the battle with a copy of the potions, and out of it.
LEMMA BattleInv == ASSUME BagInv, EnterBattle \/ LeaveBattle PROVE BagInv'
  <1>1. /\ pack' = [p \in Potions |-> Held(p)] \/ pack' = None
        /\ UNCHANGED <<bag, buffs, req, screen, granted, used, lost, doubled>>
    BY DEF EnterBattle, LeaveBattle
  <1>2. bag \in Seq(Stack) /\ OneOfEach(bag) BY DEF BagInv, BagTypeOK, OneStackPerArticle, OneOfEach
  <1>3. \A p : Held(p) \in Nat BY <1>2, HeldIs, LedgerIs
  <1>4. pack' \in [Potions -> Nat] \cup {None} BY <1>1, <1>3
  <1>5. BagTypeOK' BY <1>1, <1>4 DEF BagInv, BagTypeOK
  <1>6. OneStackPerArticle' /\ UnitsConserved' /\ \A p : Held(p)' = Held(p)
    BY <1>1, NothingTaken
  <1>7. PackCovered'
    <2> SUFFICES ASSUME pack' # None, NEW p \in Potions PROVE pack'[p] <= Held(p)'
      BY DEF PackCovered
    <2>1. pack'[p] = Held(p) BY <1>1
    <2> QED BY <1>3, <1>6, <2>1
  <1> QED BY <1>1, <1>5, <1>6, <1>7, OneStays DEF BagInv

-----------------------------------------------------------------------------
(***************************************************************************)
(* The sections that take, use and credit units.                           *)
(***************************************************************************)
LEMMA BagFacts ==
  ASSUME BagInv
  PROVE  /\ bag \in Seq(Stack) /\ OneOfEach(bag) /\ req \in [Reqs -> Handler]
         /\ granted \in [Articles -> Nat] /\ used \in [Articles -> Nat] /\ lost \in [Articles -> Nat]
         /\ Ledger(bag, granted, used, req, lost)
         /\ \A a : HeldIn(bag, a) \in Nat
         /\ \A a : Cardinality(HandsIn(req, a)) \in Nat
  <1>1. /\ bag \in Seq(Stack) /\ OneOfEach(bag) /\ req \in [Reqs -> Handler]
        /\ granted \in [Articles -> Nat] /\ used \in [Articles -> Nat] /\ lost \in [Articles -> Nat]
        /\ Ledger(bag, granted, used, req, lost)
    BY LedgerIs DEF BagInv, BagTypeOK
  <1>2. \A a : HeldIn(bag, a) \in Nat BY <1>1, HeldIs
  <1>3. ASSUME NEW a PROVE Cardinality(HandsIn(req, a)) \in Nat
    <2>1. IsFiniteSet(HandsIn(req, a))
      <3>1. HandsIn(req, a) \subseteq Reqs BY DEF HandsIn
      <3> QED BY <3>1, FS_Subset
    <2> QED BY <2>1, FS_CardinalityType
  <1> QED BY <1>1, <1>2, <1>3

\* The stack of an article that is held.
LEMMA StackOf ==
  ASSUME BagInv, NEW a, Stacks(a) # {}
  PROVE  /\ Min(Stacks(a)) \in DOMAIN bag
         /\ bag[Min(Stacks(a))].article = a
         /\ bag[Min(Stacks(a))].count = Held(a)
  <1>1. PICK i \in DOMAIN bag : bag[i].article = a BY DEF Stacks
  <1>2. Min(StacksIn(bag, a)) = i /\ HeldIn(bag, a) = bag[i].count BY <1>1, BagFacts, HeldIs
  <1> QED BY <1>1, <1>2, LedgerIs

LEMMA ConsumeOneInv == ASSUME BagInv, NEW r \in Reqs, ConsumeOne(r) PROVE BagInv'
  <1> DEFINE h == req[r]
             a == h.art
  <1>1. h \in Handler /\ screen \in [1..Rows -> Articles \cup {None}] BY DEF BagInv, BagTypeOK
  <1>2. h.pc = "consume" /\ UNCHANGED <<buffs, pack, screen, granted, used, lost, doubled>>
    BY DEF ConsumeOne, ConsumeOf
  <1>3. CASE Stacks(a) = {}
    <2>1. req' = [req EXCEPT ![r] = Idle] /\ bag' = bag BY <1>3 DEF ConsumeOne, ConsumeOf, Done
    <2>2. "idle" \in Pcs BY DEF Pcs
    <2> QED BY <1>1, <1>2, <2>1, <2>2, IdleIsHandler, ReadInv
  <1>4. CASE Stacks(a) # {}
    <2> DEFINE i == Min(Stacks(a))
               s == IF a \in Chests THEN "coins" ELSE "start"
               n == bag[i].count - 1
               t == Moved(h, s, a, n)
    <2>1. bag' = TakenFrom(bag, i) /\ req' = [req EXCEPT ![r] = [h EXCEPT !.left = n, !.pc = s]]
      BY <1>4 DEF ConsumeOne, ConsumeOf, TakeFrom, TakenFrom
    <2>2. i \in DOMAIN bag /\ bag[i].article = a BY <1>4, StackOf
    <2>3. n \in Nat /\ s \in Pcs
      <3>1. bag[i].count \in Nat \ {0} BY <2>2, BagFacts, StackAt
      <3> QED BY <3>1 DEF Pcs
    <2>4. a \in Articles \ Potions BY <1>2 DEF BagInv, Resolved
    <2>5. req' = [req EXCEPT ![r] = t] /\ t \in Handler
      <3>1. \A g \in Handler, u \in Pcs, m \in Nat : [g EXCEPT !.left = m, !.pc = u] = Moved(g, u, g.art, m)
        BY HandlerSet
      <3> HIDE DEF i, s, n, h, t
      <3>2. [h EXCEPT !.left = n, !.pc = s] = Moved(h, s, a, n) BY ONLY <1>1, <2>3, <3>1
      <3>3. Moved(h, s, a, n) \in Handler BY <1>1, <2>3, <2>4, HandlerSet
      <3> QED BY <2>1, <3>2, <3>3 DEF t
    <2>6. t.pc = s /\ t.art = a /\ s \in {"coins", "start"} BY DEF Moved
    <2>7. /\ bag' \in Seq(Stack) /\ OneOfEach(bag')
          /\ \A x : HeldIn(bag', x) = IF x = a THEN HeldIn(bag, x) - 1 ELSE HeldIn(bag, x)
      <3> HIDE DEF i, a
      <3> QED BY <2>1, <2>2, BagFacts, UnitTaken
    <2> HIDE DEF t, s, n, i, a
    <2>8. /\ req' \in [Reqs -> Handler] /\ req'[r] = t /\ \A q \in Reqs \ {r} : req'[q] = req[q]
      BY <2>5, BagFacts
    <2>9. Ledger(bag', granted', used', req', lost')
      <3> SUFFICES ASSUME NEW x \in Articles
                   PROVE  granted[x] = HeldIn(bag', x) + used[x] + Cardinality(HandsIn(req', x)) + lost[x]
        BY <1>2 DEF Ledger
      <3>1. granted[x] = HeldIn(bag, x) + used[x] + Cardinality(HandsIn(req, x)) + lost[x]
        BY BagFacts DEF Ledger
      <3>2. /\ Cardinality(HandsIn(req, x)) \in Nat /\ Cardinality(HandsIn(req', x)) \in Nat
            /\ Cardinality(HandsIn(req', x)) =
                 Cardinality(HandsIn(req, x)) + Counted(req', r, x) - Counted(req, r, x)
        BY ONLY <2>8, HandsStep, r \in Reqs
      <3>3. Counted(req, r, x) = 0 BY <1>2 DEF Counted, HandsIn
      <3>4. Counted(req', r, x) = IF x = a THEN 1 ELSE 0 BY <2>6, <2>8 DEF Counted, HandsIn
      <3>5. HeldIn(bag', x) = IF x = a THEN HeldIn(bag, x) - 1 ELSE HeldIn(bag, x) BY <2>7
      <3>6. HeldIn(bag, x) \in Nat /\ used[x] \in Nat /\ lost[x] \in Nat BY BagFacts
      <3>7. CASE x = a
        <4>1. /\ Cardinality(HandsIn(req', x)) = Cardinality(HandsIn(req, x)) + 1
              /\ HeldIn(bag', x) = HeldIn(bag, x) - 1
          BY ONLY <3>2, <3>3, <3>4, <3>5, <3>7
        <4> QED BY ONLY <3>1, <3>2, <3>6, <4>1
      <3>8. CASE x # a
        <4>1. /\ Cardinality(HandsIn(req', x)) = Cardinality(HandsIn(req, x))
              /\ HeldIn(bag', x) = HeldIn(bag, x)
          BY ONLY <3>2, <3>3, <3>4, <3>5, <3>8
        <4> QED BY ONLY <3>1, <3>2, <3>6, <4>1
      <3> QED BY <3>7, <3>8
    <2>10. OneStackPerArticle' /\ UnitsConserved' BY <2>7, <2>9, LedgerIs
    <2>11. PackCovered'
      <3> SUFFICES ASSUME pack # None, NEW p \in Potions PROVE pack[p] <= Held(p)'
        BY <1>2 DEF PackCovered
      <3>1. p # a BY <2>4
      <3>2. Held(p)' = Held(p) BY <2>7, <3>1, LedgerIs
      <3> QED BY <3>2 DEF BagInv, PackCovered
    <2>12. Resolved'
      <3>1. s = "start" => a \in Buffing BY <2>4 DEF Articles, Buffing, s
      <3> QED BY <2>4, <2>6, <2>8, <3>1 DEF BagInv, Resolved
    <2>13. OneAtATime'
      <3>1. h.pc # "idle" BY <1>2
      <3>2. ~doubled /\ a \in Runes => \A b \in buffs' \cap Runes : Category[b] # Category[a]
        BY <1>2 DEF BagInv, OneAtATime, a
      <3> QED BY <1>2, <2>5, <2>6, <3>1, <3>2, OneMoves
    <2>14. OneRunePerCategory' BY <1>2 DEF BagInv, OneRunePerCategory
    <2>15. BagTypeOK'
      <3>1. Len(bag') <= Rows BY <2>7, BagFits
      <3> QED BY <1>2, <2>7, <2>8, <3>1 DEF BagInv, BagTypeOK
    <2> QED BY <2>10, <2>11, <2>12, <2>13, <2>14, <2>15 DEF BagInv
  <1> QED BY <1>3, <1>4

\* What a request took has its effect: coins are paid, or a buff is started.
LEMMA EffectInv ==
  ASSUME BagInv, NEW r \in Reqs, NEW s \in {"loot", "push"},
         req[r].pc \in {"coins", "start"}, Use(req[r].art), Goto(r, s),
         UNCHANGED <<bag, pack, screen, granted, lost, doubled>>,
         buffs' \subseteq Buffing, OneRunePerCategory'
  PROVE  BagInv'
  <1> DEFINE h == req[r]  a == h.art  t == Moved(h, s, a, h.left)
  <1>1. h \in Handler /\ a \in Articles \ Potions BY DEF BagInv, BagTypeOK, Resolved
  <1>2. req' = [req EXCEPT ![r] = t] /\ t \in Handler
    <2>1. req' = [req EXCEPT ![r] = [h EXCEPT !.pc = s]] BY DEF Goto
    <2>2. s \in Pcs BY DEF Pcs
    <2> HIDE DEF h
    <2> QED BY <1>1, <2>1, <2>2, HandlerSet
  <1>3. t.pc = s /\ t.art = a BY DEF Moved
  <1> HIDE DEF t
  <1>4. req' \in [Reqs -> Handler] /\ req'[r] = t /\ \A q \in Reqs \ {r} : req'[q] = req[q]
    BY <1>2, BagFacts
  <1>5. used' = [used EXCEPT ![a] = @ + 1] BY DEF Use
  <1>6. used' \in [Articles -> Nat]
    <2>1. used \in [Articles -> Nat] BY BagFacts
    <2>2. a \in Articles BY <1>1
    <2> QED BY ONLY <1>5, <2>1, <2>2
  <1>7. Ledger(bag', granted', used', req', lost')
    <2> SUFFICES ASSUME NEW x \in Articles
                 PROVE  granted[x] = HeldIn(bag, x) + used'[x] + Cardinality(HandsIn(req', x)) + lost[x]
      BY DEF Ledger
    <2>1. granted[x] = HeldIn(bag, x) + used[x] + Cardinality(HandsIn(req, x)) + lost[x]
      BY BagFacts DEF Ledger
    <2>2. /\ Cardinality(HandsIn(req, x)) \in Nat /\ Cardinality(HandsIn(req', x)) \in Nat
          /\ Cardinality(HandsIn(req', x)) =
               Cardinality(HandsIn(req, x)) + Counted(req', r, x) - Counted(req, r, x)
      BY ONLY <1>4, HandsStep, r \in Reqs
    <2>3. Counted(req, r, x) = IF x = a THEN 1 ELSE 0 BY DEF Counted, HandsIn
    <2>4. Counted(req', r, x) = 0 BY <1>3, <1>4 DEF Counted, HandsIn
    <2>5. used'[x] = IF x = a THEN used[x] + 1 ELSE used[x] BY <1>5, BagFacts
    <2>6. HeldIn(bag, x) \in Nat /\ used[x] \in Nat /\ lost[x] \in Nat BY BagFacts
    <2>7. CASE x = a
      <3>1. Cardinality(HandsIn(req', x)) = Cardinality(HandsIn(req, x)) - 1 /\ used'[x] = used[x] + 1
        BY ONLY <2>2, <2>3, <2>4, <2>5, <2>7
      <3> QED BY ONLY <2>1, <2>2, <2>6, <3>1
    <2>8. CASE x # a
      <3>1. Cardinality(HandsIn(req', x)) = Cardinality(HandsIn(req, x)) /\ used'[x] = used[x]
        BY ONLY <2>2, <2>3, <2>4, <2>5, <2>8
      <3> QED BY ONLY <2>1, <2>2, <2>6, <3>1
    <2> QED BY <2>7, <2>8
  <1>8. UnitsConserved' BY <1>7, LedgerIs
  <1>9. OneStackPerArticle' BY DEF BagInv, OneStackPerArticle
  <1>10. PackCovered'
    <2>1. \A p : Held(p)' = Held(p) BY DEF Held, Stacks
    <2> QED BY <2>1 DEF BagInv, PackCovered
  <1>11. Resolved' BY <1>1, <1>3, <1>4 DEF BagInv, Resolved
  <1>12. OneAtATime' BY <1>2, <1>3, OneMoves
  <1>13. BagTypeOK' BY <1>4, <1>6 DEF BagInv, BagTypeOK
  <1> QED BY <1>8, <1>9, <1>10, <1>11, <1>12, <1>13 DEF BagInv

LEMMA PayCoinsInv == ASSUME BagInv, NEW r \in Reqs, PayCoins(r) PROVE BagInv'
  <1>1. PICK s \in {"loot", "push"} : Goto(r, s) BY DEF PayCoins
  <1>2. /\ req[r].pc = "coins" /\ Use(req[r].art)
        /\ UNCHANGED <<bag, buffs, pack, screen, granted, lost, doubled>>
    BY DEF PayCoins
  <1>3. buffs' \subseteq Buffing /\ OneRunePerCategory'
    BY <1>2 DEF BagInv, BagTypeOK, OneRunePerCategory
  <1> QED BY <1>1, <1>2, <1>3, EffectInv

LEMMA StartBuffInv == ASSUME BagInv, NEW r \in Reqs, StartBuff(r) PROVE BagInv'
  <1> DEFINE a == req[r].art
  <1>1. /\ req[r].pc = "start" /\ Use(a) /\ Goto(r, "push") /\ buffs' = buffs \cup {a}
        /\ UNCHANGED <<bag, pack, screen, granted, lost, doubled>>
    BY DEF StartBuff
  <1>2. buffs' \subseteq Buffing BY <1>1 DEF BagInv, BagTypeOK, Resolved
  <1>3. OneRunePerCategory'
    <2> SUFFICES ASSUME ~doubled, NEW b \in buffs' \cap Runes, NEW c \in buffs' \cap Runes,
                        Category[b] = Category[c]
                 PROVE  b = c
      BY <1>1 DEF OneRunePerCategory
    <2>1. a \in Runes => \A d \in buffs \cap Runes : Category[d] # Category[a]
      BY <1>1 DEF BagInv, OneAtATime
    <2>2. CASE b \in buffs /\ c \in buffs BY <2>2 DEF BagInv, OneRunePerCategory
    <2>3. CASE b = a /\ c \in buffs BY <2>1, <2>3
    <2>4. CASE b \in buffs /\ c = a BY <2>1, <2>4
    <2> QED BY <1>1, <2>2, <2>3, <2>4
  <1> QED BY <1>1, <1>2, <1>3, EffectInv

\* A unit is credited.
LEMMA GrantStep ==
  ASSUME BagInv, NEW a \in Articles, Grant(a), UNCHANGED <<used, lost>>,
         \A x \in Articles : Cardinality(HandsIn(req', x)) = Cardinality(HandsIn(req, x))
  PROVE  /\ bag' \in Seq(Stack) /\ Len(bag') <= Rows /\ granted' \in [Articles -> Nat]
         /\ OneStackPerArticle' /\ UnitsConserved'
         /\ \A x : Held(x)' = IF x = a THEN Held(x) + 1 ELSE Held(x)
  <1>1. granted' = [granted EXCEPT ![a] = @ + 1] /\ AddBagItem(a) BY DEF Grant
  <1>2. bag' = AddedTo(bag, a) BY <1>1 DEF AddBagItem, AddedTo, Stacks, StacksIn
  <1>3. /\ bag' \in Seq(Stack) /\ OneOfEach(bag')
        /\ \A x : HeldIn(bag', x) = IF x = a THEN HeldIn(bag, x) + 1 ELSE HeldIn(bag, x)
    <2>1. bag \in Seq(Stack) /\ OneOfEach(bag) BY BagFacts
    <2> QED BY <1>2, <2>1, UnitAdded
  <1>4. Len(bag') <= Rows BY <1>3, BagFits
  <1>5. granted' \in [Articles -> Nat] /\ \A x \in Articles : granted'[x] = IF x = a THEN granted[x] + 1 ELSE granted[x]
    <2>1. granted \in [Articles -> Nat] BY BagFacts
    <2> QED BY ONLY <1>1, <2>1, a \in Articles
  <1>6. Ledger(bag', granted', used', req', lost')
    <2> SUFFICES ASSUME NEW x \in Articles
                 PROVE  granted'[x] = HeldIn(bag', x) + used[x] + Cardinality(HandsIn(req', x)) + lost[x]
      BY DEF Ledger
    <2>1. granted[x] = HeldIn(bag, x) + used[x] + Cardinality(HandsIn(req, x)) + lost[x]
      BY BagFacts DEF Ledger
    <2>2. Cardinality(HandsIn(req', x)) = Cardinality(HandsIn(req, x)) OBVIOUS
    <2>3. /\ HeldIn(bag, x) \in Nat /\ used[x] \in Nat /\ lost[x] \in Nat /\ granted[x] \in Nat
          /\ Cardinality(HandsIn(req, x)) \in Nat
      BY BagFacts
    <2>4. CASE x = a
      <3>1. granted'[x] = granted[x] + 1 /\ HeldIn(bag', x) = HeldIn(bag, x) + 1 BY <1>3, <1>5, <2>4
      <3> QED BY ONLY <2>1, <2>2, <2>3, <3>1
    <2>5. CASE x # a
      <3>1. granted'[x] = granted[x] /\ HeldIn(bag', x) = HeldIn(bag, x) BY <1>3, <1>5, <2>5
      <3> QED BY ONLY <2>1, <2>2, <2>3, <3>1
    <2> QED BY <2>4, <2>5
  <1> QED BY <1>3, <1>4, <1>5, <1>6, LedgerIs

LEMMA PayLootInv == ASSUME BagInv, NEW r \in Reqs, NEW a \in Articles, PayLoot(r, a) PROVE BagInv'
  <1> DEFINE h == req[r]  t == Moved(h, "push", h.art, h.left)
  <1>1. /\ h.pc = "loot" /\ Grant(a) /\ req' = [req EXCEPT ![r] = [h EXCEPT !.pc = "push"]]
        /\ UNCHANGED <<buffs, pack, screen, used, lost, doubled>>
    BY DEF PayLoot, Goto
  <1>2. h \in Handler /\ h.art \in Articles \ Potions BY <1>1 DEF BagInv, BagTypeOK, Resolved
  <1>3. req' = [req EXCEPT ![r] = t] /\ t \in Handler
    <2>1. "push" \in Pcs BY DEF Pcs
    <2> HIDE DEF h
    <2> QED BY <1>1, <1>2, <2>1, HandlerSet
  <1>4. t.pc = "push" /\ t.art = h.art BY DEF Moved
  <1> HIDE DEF t
  <1>5. req' \in [Reqs -> Handler] /\ req'[r] = t /\ \A q \in Reqs \ {r} : req'[q] = req[q]
    BY <1>3, BagFacts
  <1>6. ASSUME NEW x \in Articles PROVE Cardinality(HandsIn(req', x)) = Cardinality(HandsIn(req, x))
    <2>1. HandsIn(req', x) = HandsIn(req, x)
      <3>1. \A q \in Reqs : q \in HandsIn(req', x) <=> q \in HandsIn(req, x)
        <4> TAKE q \in Reqs
        <4>1. CASE q = r BY <1>1, <1>4, <1>5, <4>1 DEF HandsIn
        <4>2. CASE q # r BY <1>5, <4>2 DEF HandsIn
        <4> QED BY <4>1, <4>2
      <3> QED BY <3>1 DEF HandsIn
    <2> QED BY <2>1
  <1>7. /\ bag' \in Seq(Stack) /\ Len(bag') <= Rows /\ granted' \in [Articles -> Nat]
        /\ OneStackPerArticle' /\ UnitsConserved'
        /\ \A x : Held(x)' = IF x = a THEN Held(x) + 1 ELSE Held(x)
    BY <1>1, <1>6, GrantStep
  <1>8. PackCovered'
    <2> SUFFICES ASSUME pack # None, NEW p \in Potions PROVE pack[p] <= Held(p)'
      BY <1>1 DEF PackCovered
    <2>1. pack[p] <= Held(p) BY DEF BagInv, PackCovered
    <2>2. Held(p) \in Nat /\ pack[p] \in Nat BY BagFacts, LedgerIs DEF BagInv, BagTypeOK
    <2>3. Held(p)' = Held(p) + 1 \/ Held(p)' = Held(p) BY <1>7
    <2> QED BY <2>1, <2>2, <2>3
  <1>9. Resolved' BY <1>2, <1>4, <1>5 DEF BagInv, Resolved
  <1>10. OneAtATime' BY <1>1, <1>3, <1>4, OneMoves
  <1>11. OneRunePerCategory' BY <1>1 DEF BagInv, OneRunePerCategory
  <1>12. BagTypeOK' BY <1>1, <1>5, <1>7 DEF BagInv, BagTypeOK
  <1> QED BY <1>7, <1>8, <1>9, <1>10, <1>11, <1>12 DEF BagInv

\* A unit from outside: an admin credits it, or the hero picks it up.
LEMMA CreditInv == ASSUME BagInv, NEW a \in Articles, PickUp(a) \/ AdminGrant(a) PROVE BagInv'
  <1>1. Grant(a) /\ UNCHANGED <<buffs, req, screen, used, lost, doubled>> BY DEF PickUp, AdminGrant
  <1>2. /\ bag' \in Seq(Stack) /\ Len(bag') <= Rows /\ granted' \in [Articles -> Nat]
        /\ OneStackPerArticle' /\ UnitsConserved'
        /\ \A x : Held(x)' = IF x = a THEN Held(x) + 1 ELSE Held(x)
    BY <1>1, GrantStep
  <1>3. /\ pack' \in [Potions -> Nat] \cup {None}
        /\ pack' # None => pack # None /\ \A p \in Potions : pack'[p] = pack[p] \/ (p = a /\ pack'[p] = pack[p] + 1)
    <2>1. pack \in [Potions -> Nat] \cup {None} BY DEF BagInv, BagTypeOK
    <2>2. CASE pack' = pack BY ONLY <2>1, <2>2
    <2>3. CASE pack # None /\ a \in Potions /\ pack' = [pack EXCEPT ![a] = @ + 1]
      <3>1. pack \in [Potions -> Nat] BY <2>1, <2>3
      <3>2. pack' \in [Potions -> Nat] BY ONLY <2>3, <3>1
      <3>3. \A p \in Potions : pack'[p] = IF p = a THEN pack[p] + 1 ELSE pack[p] BY ONLY <2>3, <3>1
      <3> QED BY <2>3, <3>2, <3>3
    <2> QED BY <2>2, <2>3 DEF PickUp, AdminGrant
  <1>4. PackCovered'
    <2> SUFFICES ASSUME pack' # None, NEW p \in Potions PROVE pack'[p] <= Held(p)'
      BY DEF PackCovered
    <2>1. pack # None /\ pack[p] <= Held(p) BY <1>3 DEF BagInv, PackCovered
    <2>2. Held(p) \in Nat /\ pack[p] \in Nat BY <2>1, BagFacts, LedgerIs DEF BagInv, BagTypeOK
    <2>3. Held(p)' = IF p = a THEN Held(p) + 1 ELSE Held(p) BY <1>2
    <2>4. pack'[p] = pack[p] \/ (p = a /\ pack'[p] = pack[p] + 1) BY <1>3
    <2> QED BY ONLY <2>1, <2>2, <2>3, <2>4
  <1>5. BagTypeOK' BY <1>1, <1>2, <1>3 DEF BagInv, BagTypeOK
  <1> QED BY <1>1, <1>2, <1>4, <1>5, OneStays DEF BagInv

\* A potion is drunk: the pack has it, so the bag has.
LEMMA DrinkInv == ASSUME BagInv, NEW p \in Potions, Drink(p) PROVE BagInv'
  <1> DEFINE i == Min(Stacks(p))
  <1>1. /\ pack # None /\ pack[p] > 0 /\ pack' = [pack EXCEPT ![p] = @ - 1]
        /\ used' = [used EXCEPT ![p] = @ + 1]
        /\ UNCHANGED <<buffs, req, screen, granted, lost, doubled>>
    BY DEF Drink, Use
  <1>2. p \in Articles BY DEF Articles
  <1>3. pack \in [Potions -> Nat] BY <1>1 DEF BagInv, BagTypeOK
  <1>4. Stacks(p) # {}
    <2>1. pack[p] <= Held(p) /\ pack[p] \in Nat BY <1>1, <1>3 DEF BagInv, PackCovered
    <2>2. Held(p) # 0 BY <1>1, <2>1
    <2> QED BY <2>2 DEF Held
  <1>5. bag' = TakenFrom(bag, i) BY <1>4 DEF Drink, TakeFrom, TakenFrom
  <1>6. i \in DOMAIN bag /\ bag[i].article = p BY <1>4, StackOf
  <1>7. /\ bag' \in Seq(Stack) /\ OneOfEach(bag')
        /\ \A x : HeldIn(bag', x) = IF x = p THEN HeldIn(bag, x) - 1 ELSE HeldIn(bag, x)
    <2> HIDE DEF i
    <2> QED BY <1>5, <1>6, BagFacts, UnitTaken
  <1>8. Len(bag') <= Rows BY <1>7, BagFits
  <1>9. used' \in [Articles -> Nat] /\ \A x \in Articles : used'[x] = IF x = p THEN used[x] + 1 ELSE used[x]
    <2>1. used \in [Articles -> Nat] BY BagFacts
    <2> QED BY ONLY <1>1, <1>2, <2>1
  <1>10. pack' \in [Potions -> Nat] /\ \A x \in Potions : pack'[x] = IF x = p THEN pack[x] - 1 ELSE pack[x]
    BY ONLY <1>1, <1>3, p \in Potions
  <1>11. Ledger(bag', granted', used', req', lost')
    <2> SUFFICES ASSUME NEW x \in Articles
                 PROVE  granted[x] = HeldIn(bag', x) + used'[x] + Cardinality(HandsIn(req, x)) + lost[x]
      BY <1>1 DEF Ledger
    <2>1. granted[x] = HeldIn(bag, x) + used[x] + Cardinality(HandsIn(req, x)) + lost[x]
      BY BagFacts DEF Ledger
    <2>2. /\ HeldIn(bag, x) \in Nat /\ used[x] \in Nat /\ lost[x] \in Nat
          /\ Cardinality(HandsIn(req, x)) \in Nat
      BY BagFacts
    <2>3. CASE x = p
      <3>1. used'[x] = used[x] + 1 /\ HeldIn(bag', x) = HeldIn(bag, x) - 1 BY <1>7, <1>9, <2>3
      <3> QED BY ONLY <2>1, <2>2, <3>1
    <2>4. CASE x # p
      <3>1. used'[x] = used[x] /\ HeldIn(bag', x) = HeldIn(bag, x) BY <1>7, <1>9, <2>4
      <3> QED BY ONLY <2>1, <2>2, <3>1
    <2> QED BY <2>3, <2>4
  <1>12. OneStackPerArticle' /\ UnitsConserved' BY <1>7, <1>11, LedgerIs
  <1>13. PackCovered'
    <2> SUFFICES ASSUME NEW x \in Potions PROVE pack'[x] <= Held(x)'
      BY DEF PackCovered
    <2>1. pack[x] <= Held(x) BY <1>1 DEF BagInv, PackCovered
    <2>2. Held(x) \in Nat /\ pack[x] \in Nat BY <1>3, BagFacts, LedgerIs
    <2>3. Held(x)' = IF x = p THEN Held(x) - 1 ELSE Held(x) BY <1>7, LedgerIs
    <2>4. pack'[x] = IF x = p THEN pack[x] - 1 ELSE pack[x] BY <1>10
    <2> QED BY ONLY <2>1, <2>2, <2>3, <2>4
  <1>14. BagTypeOK' BY <1>1, <1>7, <1>8, <1>9, <1>10 DEF BagInv, BagTypeOK
  <1> QED BY <1>1, <1>12, <1>13, <1>14, OneStays DEF BagInv

\* The process dies: what was in hand is lost, and nothing else.
LEMMA RestartInv == ASSUME BagInv, Restart PROVE BagInv'
  <1>1. /\ bag' \in ByArticle(ToSet(bag)) /\ lost' = [a \in Articles |-> lost[a] + InHand(a)]
        /\ req' = [r \in Reqs |-> Idle] /\ pack' = None /\ screen' = NoRows
        /\ UNCHANGED <<buffs, granted, used, doubled>>
    BY DEF Restart
  <1>2. bag' \in Seq(Stack) /\ OneOfEach(bag') /\ \A x : HeldIn(bag', x) = HeldIn(bag, x)
    BY <1>1, BagFacts, BagReloaded
  <1>3. Len(bag') <= Rows BY <1>2, BagFits
  <1>4. \A x : InHand(x) = Cardinality(HandsIn(req, x)) BY DEF InHand, HandsIn, Taken
  <1>5. lost' \in [Articles -> Nat]
    <2>1. \A a \in Articles : lost[a] + InHand(a) \in Nat BY <1>4, BagFacts
    <2> QED BY <1>1, <2>1
  <1>6. req' \in [Reqs -> Handler] /\ \A r \in Reqs : req'[r].pc = "idle" BY <1>1, IdleIsHandler
  <1>7. \A x : Cardinality(HandsIn(req', x)) = 0
    <2> TAKE x
    <2>1. HandsIn(req', x) = {} BY <1>6 DEF HandsIn
    <2> QED BY <2>1, FS_EmptySet
  <1>8. Ledger(bag', granted', used', req', lost')
    <2> SUFFICES ASSUME NEW x \in Articles
                 PROVE  granted[x] = HeldIn(bag', x) + used[x] + Cardinality(HandsIn(req', x)) + lost'[x]
      BY <1>1 DEF Ledger
    <2>1. granted[x] = HeldIn(bag, x) + used[x] + Cardinality(HandsIn(req, x)) + lost[x]
      BY BagFacts DEF Ledger
    <2>2. /\ HeldIn(bag, x) \in Nat /\ used[x] \in Nat /\ lost[x] \in Nat
          /\ Cardinality(HandsIn(req, x)) \in Nat
      BY BagFacts
    <2>3. lost'[x] = lost[x] + Cardinality(HandsIn(req, x)) BY <1>1, <1>4
    <2> QED BY <1>2, <1>7, <2>1, <2>2, <2>3
  <1>9. OneStackPerArticle' /\ UnitsConserved' BY <1>2, <1>8, LedgerIs
  <1>10. PackCovered' BY <1>1 DEF PackCovered
  <1>11. Resolved' /\ OneAtATime' BY <1>6 DEF Resolved, OneAtATime
  <1>12. OneRunePerCategory' BY <1>1 DEF BagInv, OneRunePerCategory
  <1>13. screen' \in [1..Rows -> Articles \cup {None}] BY <1>1 DEF NoRows
  <1>14. BagTypeOK' BY <1>1, <1>2, <1>3, <1>5, <1>6, <1>13 DEF BagInv, BagTypeOK
  <1> QED BY <1>9, <1>10, <1>11, <1>12, <1>14 DEF BagInv

-----------------------------------------------------------------------------
(***************************************************************************)
(* The theorems.                                                           *)
(***************************************************************************)
LEMMA BagInitInv == BagInit => BagInv
  <1> SUFFICES ASSUME BagInit PROVE BagInv
    OBVIOUS
  <1>1. /\ bag = <<>> /\ buffs = {} /\ req = [r \in Reqs |-> Idle] /\ pack = None /\ screen = NoRows
        /\ granted = Zero /\ used = Zero /\ lost = Zero /\ doubled = FALSE
    BY DEF BagInit
  <1>2. req \in [Reqs -> Handler] /\ \A r \in Reqs : req[r].pc = "idle" BY <1>1, IdleIsHandler
  <1>3. bag \in Seq(Stack) /\ DOMAIN bag = {} /\ OneOfEach(bag) BY <1>1 DEF OneOfEach
  <1>4. Len(bag) <= Rows BY <1>3, BagFits
  <1>5. screen \in [1..Rows -> Articles \cup {None}] BY <1>1 DEF NoRows
  <1>6. Zero \in [Articles -> Nat] /\ \A a \in Articles : Zero[a] = 0 BY DEF Zero
  <1>7. BagTypeOK BY <1>1, <1>2, <1>3, <1>4, <1>5, <1>6 DEF BagTypeOK
  <1>8. Ledger(bag, granted, used, req, lost)
    <2> SUFFICES ASSUME NEW a \in Articles
                 PROVE  0 = HeldIn(bag, a) + 0 + Cardinality(HandsIn(req, a)) + 0
      BY <1>1, <1>6 DEF Ledger
    <2>1. HeldIn(bag, a) = 0 BY <1>3, HeldIs
    <2>2. HandsIn(req, a) = {} BY <1>2 DEF HandsIn
    <2>3. Cardinality(HandsIn(req, a)) = 0 BY <2>2, FS_EmptySet
    <2> QED BY <2>1, <2>3
  <1>9. OneStackPerArticle /\ UnitsConserved BY <1>3, <1>8, LedgerIs
  <1>10. PackCovered /\ OneRunePerCategory BY <1>1 DEF PackCovered, OneRunePerCategory
  <1>11. Resolved /\ OneAtATime BY <1>2 DEF Resolved, OneAtATime
  <1> QED BY <1>7, <1>9, <1>10, <1>11 DEF BagInv

LEMMA BagNextInv == BagInv /\ [BagNext]_bagVars => BagInv'
  <1> SUFFICES ASSUME BagInv, [BagNext]_bagVars PROVE BagInv'
    OBVIOUS
  <1>1. CASE UNCHANGED bagVars
    <2>1. UNCHANGED <<bag, buffs, req, pack, screen, granted, used, lost, doubled>> BY <1>1 DEF bagVars
    <2>2. BagTypeOK' BY <2>1 DEF BagInv, BagTypeOK
    <2>3. OneStackPerArticle' /\ UnitsConserved' /\ PackCovered'
      BY <2>1, NothingTaken DEF BagInv, PackCovered
    <2> QED BY <2>1, <2>2, <2>3, OneStays DEF BagInv
  <1>2. CASE FetchBag BY <1>2, FetchBagInv
  <1>3. ASSUME NEW r \in Reqs, NEW i \in 1..Rows, Request(r, i) PROVE BagInv' BY <1>3, RequestInv
  <1>4. ASSUME NEW r \in Reqs, Resolve(r) PROVE BagInv' BY <1>4, ResolveInv
  <1>5. ASSUME NEW r \in Reqs, Check(r) PROVE BagInv' BY <1>5, CheckInv
  <1>6. ASSUME NEW r \in Reqs, ConsumeOne(r) PROVE BagInv' BY <1>6, ConsumeOneInv
  <1>7. ASSUME NEW r \in Reqs, PayCoins(r) PROVE BagInv' BY <1>7, PayCoinsInv
  <1>8. ASSUME NEW r \in Reqs, StartBuff(r) PROVE BagInv' BY <1>8, StartBuffInv
  <1>9. ASSUME NEW r \in Reqs, PushBag(r) PROVE BagInv' BY <1>9, PushBagInv
  <1>10. ASSUME NEW r \in Reqs, NEW a \in Articles, PayLoot(r, a) PROVE BagInv' BY <1>10, PayLootInv
  <1>11. ASSUME NEW b \in buffs, BuffExpires(b) PROVE BagInv' BY <1>11, BuffExpiresInv
  <1>12. CASE EnterBattle \/ LeaveBattle BY <1>12, BattleInv
  <1>13. ASSUME NEW a \in Articles, PickUp(a) \/ AdminGrant(a) PROVE BagInv' BY <1>13, CreditInv
  <1>14. ASSUME NEW p \in Potions, Drink(p) PROVE BagInv' BY <1>14, DrinkInv
  <1>15. CASE Restart BY <1>15, RestartInv
  <1> QED BY <1>1, <1>2, <1>3, <1>4, <1>5, <1>6, <1>7, <1>8, <1>9, <1>10, <1>11, <1>12, <1>13,
             <1>14, <1>15 DEF BagNext

LEMMA BagInvariant == BagSpec => []BagInv
  BY BagInitInv, BagNextInv, PTL DEF BagSpec

\* The bag, the buffs, the requests, the pack of a battle and the client's rows have
\* their types, and the bag never has more rows than there are articles.
THEOREM BagTypeCorrect == BagSpec => []BagTypeOK
  <1>1. BagInv => BagTypeOK BY DEF BagInv
  <1> QED BY <1>1, BagInvariant, PTL

\* Every unit credited is in the bag, has had its effect once, is in the hands of one
\* request, or died with the process, for any number of requests, articles and
\* restarts.
THEOREM NothingUsedTwice == BagSpec => []UnitsConserved
  <1>1. BagInv => UnitsConserved BY DEF BagInv
  <1> QED BY <1>1, BagInvariant, PTL

\* There is one stack per article, as the table's primary key needs.
THEOREM StacksStaySingle == BagSpec => []OneStackPerArticle
  <1>1. BagInv => OneStackPerArticle BY DEF BagInv
  <1> QED BY <1>1, BagInvariant, PTL

\* What a hero may drink in a battle is in his account.
THEOREM PackStaysCovered == BagSpec => []PackCovered
  <1>1. BagInv => PackCovered BY DEF BagInv
  <1> QED BY <1>1, BagInvariant, PTL

\* As long as a hero's requests come one after the other, at most one rune of a
\* category is active.
THEOREM OneRuneAtATime == BagSpec => []OneRunePerCategory
  <1>1. BagInv => OneRunePerCategory BY DEF BagInv
  <1> QED BY <1>1, BagInvariant, PTL
=============================================================================
