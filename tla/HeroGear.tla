------------------------------ MODULE HeroGear ------------------------------
(***************************************************************************)
(* The wearables and the money of one hero: the shop and the paperdoll     *)
(* (session/inventory.go, ctrlserver/hero_items.go), and the money that    *)
(* everything else credits and debits (session/session.go).                *)
(*                                                                         *)
(* Sell and dress look the items up in one section of the Store and act on *)
(* them in later ones; requests (Traders) interleave between them.  Money  *)
(* is a signed integer of the machine, MaxMoney its largest value.         *)
(***************************************************************************)
EXTENDS Integers, FiniteSets, FiniteSetsExt

CONSTANTS Traders,
          Wearables, Slots, SlotOf, Price, SellPrice,
          MaxMoney,
          Purse,        \* the money a hero starts with
          MaxItems,     \* bound: items bought
          MaxEarned     \* bound: money credited by other parts

ASSUME GearAssumption == /\ SlotOf \in [Wearables -> Slots]
                         /\ {MaxMoney, Purse, MaxItems, MaxEarned} \subseteq Nat
                         /\ Price \in [Wearables -> 0..MaxMoney]
                         /\ SellPrice \in [Wearables -> 0..MaxMoney]
                         /\ \A a \in Wearables : SellPrice[a] <= Price[a]
                         /\ Purse <= MaxMoney
                         /\ IsFiniteSet(Wearables)

VARIABLES
  owned,    \* Hero.Owned: items [id, art]
  dressed,  \* Hero.Dressed: items [id, art, slot]
  nextID,   \* Hero.NextItemID, counted from 0
  money,    \* Hero.Money
  task,     \* what a request found in HeroOwned and is about to do with it
  sold,     \* history: the ids sold
  earned    \* history: the money credited, the starting purse included

gearVars == <<owned, dressed, nextID, money, task, sold, earned>>

ItemIDs == 0..(MaxItems - 1)
Items == [id : ItemIDs, art : Wearables]
NoTask == [kind |-> "none", items |-> {}]

GearTypeOK ==
  /\ owned \subseteq Items
  /\ dressed \subseteq [id : ItemIDs, art : Wearables, slot : Slots]
  /\ nextID \in 0..MaxItems
  /\ money \in -(MaxMoney + 1)..MaxMoney
  /\ task \in [Traders -> [kind : {"none", "sell", "dress"}, items : SUBSET Items]]
  /\ sold \subseteq ItemIDs
  /\ earned \in Nat

GearInit == /\ owned = {} /\ dressed = {} /\ nextID = 0 /\ sold = {}
            /\ money = Purse /\ earned = Purse
            /\ task = [t \in Traders |-> NoTask]

Int32(x) == IF x > MaxMoney THEN x - 2 * (MaxMoney + 1) ELSE x

\* AddHeroMoney: coins, chests, quest rewards.
AddHeroMoney(delta) ==
  /\ earned + delta <= MaxEarned
  /\ earned' = earned + delta
  /\ money' = IF Int32(money + delta) < 0 THEN 0 ELSE Int32(money + delta)
  /\ UNCHANGED <<owned, dressed, nextID, task, sold>>

\* SpendHeroMoney: the items of a battle.
SpendHeroMoney(amount) ==
  /\ money >= amount
  /\ money' = money - amount
  /\ UNCHANGED <<owned, dressed, nextID, task, sold, earned>>

\* BuyWearables: n items of one kind.
BuyWearables(a, n) ==
  /\ nextID + n <= MaxItems
  /\ money >= n * Price[a]
  /\ money' = money - n * Price[a]
  /\ owned' = owned \cup {[id |-> i, art |-> a] : i \in nextID..(nextID + n - 1)}
  /\ nextID' = nextID + n
  /\ UNCHANGED <<dressed, task, sold, earned>>

\* handleStoreSell and handleUserDress read HeroOwned.
Begin(t, kind, items) ==
  /\ task[t] = NoTask
  /\ items # {} /\ items \subseteq owned
  /\ task' = [task EXCEPT ![t] = [kind |-> kind, items |-> items]]
  /\ UNCHANGED <<owned, dressed, nextID, money, sold, earned>>

\* The basket of a sale goes item by item, in the order of a Go map.
Finish(t, it) ==
  LET left == task[t].items \ {it} IN
  task' = [task EXCEPT ![t] = IF left = {} THEN NoTask
                                           ELSE [kind |-> task[t].kind, items |-> left]]

Refund(it) == money' = Int32(money + SellPrice[it.art])

\* Variant: the item is not looked up again.
SellFound(t, it) ==
  /\ task[t].kind = "sell" /\ it \in task[t].items
  /\ owned' = owned \ {it} /\ sold' = sold \cup {it.id} /\ Refund(it)
  /\ Finish(t, it)
  /\ UNCHANGED <<dressed, nextID, earned>>

SellWearable(t, it) ==
  /\ task[t].kind = "sell" /\ it \in task[t].items
  /\ IF it \in owned
       THEN owned' = owned \ {it} /\ sold' = sold \cup {it.id} /\ Refund(it)
       ELSE UNCHANGED <<owned, sold, money>>
  /\ Finish(t, it)
  /\ UNCHANGED <<dressed, nextID, earned>>

Bare(it) == [id |-> it.id, art |-> it.art]
Worn(it, s) == [id |-> it.id, art |-> it.art, slot |-> s]
Occupants(s) == {d \in dressed : d.slot = s}

\* The occupants out go back to the bag.
Wear(t, it, out) ==
  /\ task[t].kind = "dress" /\ it \in task[t].items
  /\ IF it \in owned
       THEN /\ owned' = (owned \ {it}) \cup {Bare(d) : d \in out}
            /\ dressed' = (dressed \ out) \cup {Worn(it, SlotOf[it.art])}
       ELSE UNCHANGED <<owned, dressed>>
  /\ Finish(t, it)
  /\ UNCHANGED <<nextID, money, sold, earned>>

\* Variant: the slot is taken as it is.
DressOver(t, it) == Wear(t, it, {})

DressWearable(t, it) == Wear(t, it, Occupants(SlotOf[it.art]))

UndressWearable(s) ==
  /\ Occupants(s) # {}
  /\ owned' = owned \cup {Bare(d) : d \in Occupants(s)}
  /\ dressed' = dressed \ Occupants(s)
  /\ UNCHANGED <<nextID, money, task, sold, earned>>

GearNext ==
  \/ \E a \in Wearables, n \in {1, 2} : BuyWearables(a, n)
  \/ \E t \in Traders :
       \/ \E items \in SUBSET owned : Begin(t, "sell", items)
       \/ \E it \in owned : Begin(t, "dress", {it})
       \/ \E it \in task[t].items : SellWearable(t, it) \/ DressWearable(t, it)
  \/ \E s \in Slots : UndressWearable(s)
  \/ \E d \in {1, 2} : AddHeroMoney(d) \/ SpendHeroMoney(d)

GearSpec == GearInit /\ [][GearNext]_gearVars

-----------------------------------------------------------------------------
IDsOf(items) == {it.id : it \in items}

\* Every item ever bought is in one place: in the bag, worn, or sold -- and only
\* once, whatever a sale, a swap and an undress do to it at the same time.
OnePlace ==
  /\ IDsOf(owned) \cup IDsOf(dressed) \cup sold = 0..(nextID - 1)
  /\ IDsOf(owned) \cap IDsOf(dressed) = {}
  /\ (IDsOf(owned) \cup IDsOf(dressed)) \cap sold = {}
  /\ \A x, y \in owned : x.id = y.id => x = y
  /\ \A x, y \in dressed : x.id = y.id => x = y

\* One item per slot, of the kind the slot is for: dressed_items has the primary
\* key (user_id, slot), so a second one would make the account's saves fail.
OnePerSlot == \A x, y \in dressed : x.slot = SlotOf[x.art] /\ (x.slot = y.slot => x = y)

\* Both together: wherever an item is, it is there alone.
EachItemOnce == OnePlace /\ OnePerSlot

\* No order of purchases, sales and debits, and no overflow, makes money: what the
\* hero has, with his items at their selling price, was credited to him.
NothingForFree ==
  money + MapThenSumSet(LAMBDA it : SellPrice[it.art], owned)
        + MapThenSumSet(LAMBDA it : SellPrice[it.art], dressed) <= earned
=============================================================================
