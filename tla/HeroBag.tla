------------------------------ MODULE HeroBag ------------------------------
(***************************************************************************)
(* The consumables of one hero: his persistent bag (session/session.go,    *)
(* inventory.go), the chests, runes and elixirs he uses in the city        *)
(* (ctrlserver/actions.go), the buffs they start (buffs.go), the potions   *)
(* he drinks in a battle (battleserver/consumables.go), and what his       *)
(* client shows of it.                                                     *)
(*                                                                         *)
(* Each request (Reqs) is a goroutine; it enters the Store several times   *)
(* and holds Store.mu only while it is in it.  A section saves the whole   *)
(* account in one transaction, so the database is the bag itself, without  *)
(* its order.                                                              *)
(***************************************************************************)
EXTENDS Integers, Sequences, FiniteSets, SequencesExt

CONSTANTS Reqs, Category, None,
          Chests, Runes, Elixirs, Potions,  \* article ids, disjoint
          Rows,                             \* bound: the row ids a client knows
          MaxGrants                         \* bound: units credited in a behaviour

Articles == Chests \cup Runes \cup Elixirs \cup Potions
Buffing == Runes \cup Elixirs

ASSUME BagAssumption == /\ Articles \subseteq Nat /\ None \notin Articles
                        /\ Category \in [Runes -> STRING]
                        /\ IsFiniteSet(Reqs) /\ IsFiniteSet(Articles)
                        /\ Rows \in Nat /\ Cardinality(Articles) <= Rows
                        /\ MaxGrants \in Nat

VARIABLES
  bag,      \* Hero.Bag: the stacks in order; row i of a user|bag reply is stack i
  buffs,    \* the articles in Hero.Buffs that have not expired
  req,      \* the requests under way (see Request below)
  pack,     \* huntState.bag of his battle: potions only; None outside
  screen,   \* the bag his client shows: row id -> article or None
  granted,  \* history: units of an article ever credited
  used,     \* history: units that had their effect: loot paid, buff started, drunk
  lost,     \* history: units taken by a request that died with the process
  doubled   \* history: have two requests ever been under way at once?

bagVars == <<bag, buffs, req, pack, screen, granted, used, lost, doubled>>

Stack == [article : Articles, count : Nat \ {0}]
NoRows == [i \in 1..Rows |-> None]
Zero == [a \in Articles |-> 0]

\* Where a handler is, the artifact_id it was sent with, the article that
\* resolved to, the stack count ConsumeOneBagArticle returned, and (history) the
\* article the client showed in that row.
Handler == [pc : {"idle", "resolve", "check", "consume", "coins", "loot", "start", "push"},
            row : 0..Rows, art : Articles \cup {None}, left : Nat,
            seen : Articles \cup {None}]
Idle == [pc |-> "idle", row |-> 0, art |-> None, left |-> 0, seen |-> None]

BagTypeOK ==
  /\ bag \in Seq(Stack) /\ Len(bag) <= Rows
  /\ buffs \subseteq Buffing
  /\ req \in [Reqs -> Handler]
  /\ pack \in [Potions -> Nat] \cup {None}
  /\ screen \in [1..Rows -> Articles \cup {None}]
  /\ {granted, used, lost} \subseteq [Articles -> Nat]
  /\ doubled \in BOOLEAN

BagInit ==
  /\ bag = <<>> /\ buffs = {}
  /\ req = [r \in Reqs |-> Idle]
  /\ pack = None
  /\ screen = NoRows
  /\ granted = Zero /\ used = Zero /\ lost = Zero /\ doubled = FALSE

Stacks(a) == {i \in DOMAIN bag : bag[i].article = a}
Held(a) == IF Stacks(a) = {} THEN 0 ELSE bag[Min(Stacks(a))].count
Total == FoldFunctionOnSet(LAMBDA x, y : x + y, 0, granted, Articles)

(***************************************************************************)
(* The sections of the Store.                                              *)
(***************************************************************************)
AddBagItem(a) ==
  IF Stacks(a) = {} THEN bag' = Append(bag, [article |-> a, count |-> 1])
                    ELSE bag' = [bag EXCEPT ![Min(Stacks(a))].count = @ + 1]

\* One unit off stack i, which goes when it is empty.
TakeFrom(i) == bag' = IF bag[i].count = 1 THEN RemoveAt(bag, i)
                                          ELSE [bag EXCEPT ![i].count = @ - 1]

Grant(a) == /\ Total < MaxGrants
            /\ granted' = [granted EXCEPT ![a] = @ + 1]
            /\ AddBagItem(a)

Use(a) == used' = [used EXCEPT ![a] = @ + 1]

(***************************************************************************)
(* common|action.                                                          *)
(***************************************************************************)
Goto(r, s) == req' = [req EXCEPT ![r].pc = s]
Done(r) == req' = [req EXCEPT ![r] = Idle]

\* handleUserBag: the client asks for its bag between two actions.
FetchBag ==
  /\ \A r \in Reqs : req[r].pc = "idle"
  /\ screen' = [i \in 1..Rows |-> IF i \in DOMAIN bag THEN bag[i].article ELSE None]
  /\ UNCHANGED <<bag, buffs, req, pack, granted, used, lost, doubled>>

\* The player uses what he sees in row i.
Request(r, i) ==
  /\ req[r].pc = "idle" /\ screen[i] # None
  /\ req' = [req EXCEPT ![r] = [Idle EXCEPT !.pc = "resolve", !.row = i, !.seen = screen[i]]]
  /\ doubled' = (doubled \/ \E q \in Reqs : req[q].pc # "idle")
  /\ UNCHANGED <<bag, buffs, pack, screen, granted, used, lost>>

\* BagArticleAtIndex, and the dispatch on the article's family: a potion or
\* a row that is not there is only acknowledged.
Resolve(r) ==
  LET i == req[r].row IN
  /\ req[r].pc = "resolve"
  /\ IF i \in DOMAIN bag /\ bag[i].article \notin Potions
       THEN req' = [req EXCEPT ![r].art = bag[i].article,
                               ![r].pc = IF bag[i].article \in Runes THEN "check" ELSE "consume"]
       ELSE Done(r)
  /\ UNCHANGED <<bag, buffs, pack, screen, granted, used, lost, doubled>>

\* HeroActiveBuffs: a rune is refused while one of its category is active.
CheckAgainst(r, refuses(_)) ==
  /\ req[r].pc = "check"
  /\ IF \E b \in buffs \cap Runes : refuses(b) THEN Done(r) ELSE Goto(r, "consume")
  /\ UNCHANGED <<bag, buffs, pack, screen, granted, used, lost, doubled>>

\* Variant: only the same rune is refused.
CheckSameRune(r) == CheckAgainst(r, LAMBDA b : b = req[r].art)

Check(r) == CheckAgainst(r, LAMBDA b : Category[b] = Category[req[r].art])

\* ConsumeOneBagArticle, from one of the given stacks.
ConsumeOf(r, stacks) ==
  /\ req[r].pc = "consume"
  /\ IF stacks = {} THEN Done(r) /\ UNCHANGED bag
     ELSE LET i == Min(stacks) IN
          /\ TakeFrom(i)
          /\ req' = [req EXCEPT ![r].left = bag[i].count - 1,
                                ![r].pc = IF req[r].art \in Chests THEN "coins" ELSE "start"]
  /\ UNCHANGED <<buffs, pack, screen, granted, used, lost, doubled>>

\* Variant: the stack is the one in the row that was sent.
ConsumeRow(r) == ConsumeOf(r, {req[r].row} \cap DOMAIN bag)

ConsumeOne(r) == ConsumeOf(r, Stacks(req[r].art))

\* openChest: the coins (AddHeroMoney), then the bonus item it may have rolled.
PayCoins(r) ==
  /\ req[r].pc = "coins"
  /\ Use(req[r].art)
  /\ \E s \in {"loot", "push"} : Goto(r, s)
  /\ UNCHANGED <<bag, buffs, pack, screen, granted, lost, doubled>>

PayLoot(r, a) ==
  /\ req[r].pc = "loot" /\ a \notin Chests
  /\ Grant(a)
  /\ Goto(r, "push")
  /\ UNCHANGED <<buffs, pack, screen, used, lost, doubled>>

\* useBuffItem: AddGlobalBuff starts or refreshes the timer.
StartBuff(r) ==
  /\ req[r].pc = "start"
  /\ buffs' = buffs \cup {req[r].art}
  /\ Use(req[r].art)
  /\ Goto(r, "push")
  /\ UNCHANGED <<bag, pack, screen, granted, lost, doubled>>

\* pushBagUpdate: the row that was sent, with what is left of the stack.
PushBag(r) ==
  /\ req[r].pc = "push"
  /\ screen' = [screen EXCEPT ![req[r].row] = IF req[r].left = 0 THEN None ELSE req[r].art]
  /\ Done(r)
  /\ UNCHANGED <<bag, buffs, pack, granted, used, lost, doubled>>

BuffExpires(b) ==
  /\ b \in buffs
  /\ buffs' = buffs \ {b}
  /\ UNCHANGED <<bag, req, pack, screen, granted, used, lost, doubled>>

(***************************************************************************)
(* The Battle server, in the goroutine of the hero's connection.           *)
(***************************************************************************)
\* sendInitialBagLocked.
EnterBattle ==
  /\ pack = None
  /\ pack' = [p \in Potions |-> Held(p)]
  /\ UNCHANGED <<bag, buffs, req, screen, granted, used, lost, doubled>>

LeaveBattle ==
  /\ pack # None
  /\ pack' = None
  /\ UNCHANGED <<bag, buffs, req, screen, granted, used, lost, doubled>>

\* grantItemLocked: a drop picked up is credited to the account and the pack.
PickUp(a) ==
  /\ pack # None
  /\ Grant(a)
  /\ pack' = IF a \in Potions THEN [pack EXCEPT ![a] = @ + 1] ELSE pack
  /\ UNCHANGED <<buffs, req, screen, used, lost, doubled>>

\* Variant: the pack is left as it was.
DrinkFree(p) ==
  /\ pack # None /\ pack[p] > 0
  /\ IF Stacks(p) # {} THEN TakeFrom(Min(Stacks(p))) ELSE UNCHANGED bag
  /\ Use(p)
  /\ UNCHANGED <<buffs, req, pack, screen, granted, lost, doubled>>

\* useItemLocked: the pack decides, RemoveBagItem takes what there is.
Drink(p) ==
  /\ pack # None
  /\ pack[p] > 0
  /\ pack' = [pack EXCEPT ![p] = @ - 1]
  /\ IF Stacks(p) # {} THEN TakeFrom(Min(Stacks(p))) ELSE UNCHANGED bag
  /\ Use(p)
  /\ UNCHANGED <<buffs, req, screen, granted, lost, doubled>>

\* The admin server credits an item at any time.
AdminGrant(a) ==
  /\ Grant(a)
  /\ UNCHANGED <<buffs, req, pack, screen, used, lost, doubled>>

(***************************************************************************)
(* The process dies and starts again: the stacks come back in the order of *)
(* their articles (persist.go:366).  The client is assumed to ask for its  *)
(* bag anew, though its session survives.                                  *)
(***************************************************************************)
Taken(r) == req[r].pc \in {"coins", "start"}
InHand(a) == Cardinality({r \in Reqs : Taken(r) /\ req[r].art = a})

ByArticle(stacks) ==
  {s \in [1..Cardinality(stacks) -> stacks] :
     ToSet(s) = stacks /\ \A i, j \in DOMAIN s : i < j => s[i].article < s[j].article}

Restart ==
  /\ bag' \in ByArticle(ToSet(bag))
  /\ lost' = [a \in Articles |-> lost[a] + InHand(a)]
  /\ req' = [r \in Reqs |-> Idle]
  /\ pack' = None /\ screen' = NoRows
  /\ UNCHANGED <<buffs, granted, used, doubled>>

BagNext ==
  \/ FetchBag
  \/ \E r \in Reqs :
       \/ \E i \in 1..Rows : Request(r, i)
       \/ Resolve(r) \/ Check(r) \/ ConsumeOne(r)
       \/ PayCoins(r) \/ StartBuff(r) \/ PushBag(r)
       \/ \E a \in Articles : PayLoot(r, a)
  \/ \E b \in buffs : BuffExpires(b)
  \/ EnterBattle \/ LeaveBattle
  \/ \E a \in Articles : PickUp(a) \/ AdminGrant(a)
  \/ \E p \in Potions : Drink(p)
  \/ Restart

BagSpec == BagInit /\ [][BagNext]_bagVars

-----------------------------------------------------------------------------
\* Nothing is used twice or vanishes: every unit ever credited is in the bag, has
\* had its effect, is in the hands of one request on its way to it, or was in
\* such hands when the process died -- however the sections of double clicks, the
\* drops and the battle interleave (inventory.go:44: "can't be consumed twice by
\* concurrent requests").
UnitsConserved ==
  \A a \in Articles : granted[a] = Held(a) + used[a] + InHand(a) + lost[a]

\* One stack per article: bag_items has the primary key (user_id, article_id), so
\* a second stack would make every later save of the account fail.
OneStackPerArticle == \A i, j \in DOMAIN bag : bag[i].article = bag[j].article => i = j

\* A potion the battle lets him drink is in the account: the pack is a copy taken
\* at the start, and the account lives on without it.
PackCovered == pack # None => \A p \in Potions : pack[p] <= Held(p)

\* A request opens or uses the article the client shows in that row
\* (inventory.go:25-29 resolves "the bag-row id ... to the article the player is
\* opening/using").
UsesWhatIsShown == \A r \in Reqs : Taken(r) => req[r].art = req[r].seen

\* At most one rune of a category is active (actions.go:90: "A hero may hold only
\* ONE rune per category"), if his requests come one after the other: the test and
\* the start are different sections of the Store.
OneRunePerCategory ==
  ~doubled => \A b, c \in buffs \cap Runes : Category[b] = Category[c] => b = c
=============================================================================
