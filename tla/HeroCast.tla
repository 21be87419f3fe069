------------------------------ MODULE HeroCast ------------------------------
(***************************************************************************)
(* The skills of one hero (battleserver/effects.go, and the parts of       *)
(* mobai.go, hunt.go and server.go that answer his orders): an order may   *)
(* have to walk into reach first; a cast queues its impact (payloads) and  *)
(* its end (actionDones); an impact may start a channel.  A toggle is only *)
(* switched on and off.  memberTickLocked works these queues off, and      *)
(* between two ticks the player orders, walks, is stunned, dies, or loses  *)
(* his target; a match may end, which freezes him (dotaFreezeLocked):      *)
(* there are no more ticks then, but he may go on giving orders.           *)
(*                                                                         *)
(* All of it runs under the world's lock, one handler at a time.  Places,  *)
(* mana and damage are abstracted: a target may be in reach or not, an     *)
(* order may be affordable or not.  A moment that has been waited for is   *)
(* marked due by Elapse, and found by the next tick.                       *)
(***************************************************************************)
EXTENDS Naturals, Sequences, SequencesExt, FiniteSets

CONSTANTS Skills,         \* active skills
          Kits,           \* the sets of skills that avatars have
          Aimed,          \* cast at a unit
          SelfCast,       \* cast in place
          Instant,        \* no PayloadDelay
          Flying,         \* PayloadFlightSpeed: the impact comes after a flight
          Channels,       \* skillHasChannel
          Interruptible,  \* channelInterruptible
          Sustained,      \* channelSustainsThroughDisruption
          Walking,        \* channelAllowsMovement, channelBlocksOtherAbilities
          Toggles,        \* Type "TOGGLE"
          Prey, Rivals,   \* mobs and enemy heroes
          Nobody

ASSUME CastAssumption ==
  /\ Kits \subseteq SUBSET Skills
  /\ SelfCast \cap Aimed = {}
  /\ Interruptible \cup Sustained \cup Walking \subseteq Channels
  /\ Walking \subseteq Instant \ Flying      \* Tangren's spin starts where he stands
  /\ Toggles \cap (SelfCast \cup Aimed \cup Instant \cup Flying \cup Channels) = {}
  /\ Nobody \notin Prey \cup Rivals
  /\ Nobody \notin [slot : Skills, target : Prey \cup Rivals \cup {Nobody}]

VARIABLES kit,   \* the skills of this avatar
          mage   \* his huntState and conn, as far as skills go

castVars == <<kit, mage>>

Victims == Prey \cup Rivals

Impact  == [slot : kit, target : Victims \cup {Nobody}, flown : BOOLEAN, due : BOOLEAN]
Ending  == [slot : kit, target : Victims \cup {Nobody}, due : BOOLEAN]
Order   == [slot : kit, target : Victims \cup {Nobody}]

CastTypeOK ==
  /\ kit \in Kits
  /\ mage \in [order : Order \cup {Nobody},       \* the approach-cast under way
               cooling : SUBSET kit,              \* cooldownUntil
               payloads : Seq(Impact), actionDones : Seq(Ending),
               channels : SUBSET Ending,
               castLock : kit \cup {Nobody},      \* whose wind-up castLockUntil is
               attackTarget : Prey \cup {Nobody}, autoResumed : BOOLEAN,
               hasDest : BOOLEAN, stunned : BOOLEAN, dead : BOOLEAN,
               gone : SUBSET Victims,             \* dead, away or invisible
               on : SUBSET kit,                   \* toggleOn
               ended : BOOLEAN,                   \* his match has ended
               open : [kit -> Nat],    \* history: orders the client waits for, no toggles
               dropped : [kit -> Nat], \* history: those whose answer the freeze threw away
               owed : [kit -> Nat]]    \* history: casts still to land

CastInit ==
  /\ kit \in Kits
  /\ mage = [order |-> Nobody, cooling |-> {}, payloads |-> <<>>, actionDones |-> <<>>,
             channels |-> {}, castLock |-> Nobody, attackTarget |-> Nobody,
             autoResumed |-> FALSE, hasDest |-> FALSE, stunned |-> FALSE, dead |-> FALSE,
             gone |-> {}, on |-> {}, ended |-> FALSE, open |-> [s \in kit |-> 0],
             dropped |-> [s \in kit |-> 0], owed |-> [s \in kit |-> 0]]

Are(queue, s) == {i \in DOMAIN queue : queue[i].slot = s}

-----------------------------------------------------------------------------
(***************************************************************************)
(* orderDoneLocked, cancelOrderLocked, movementBlockedLocked.              *)
(***************************************************************************)
OrderDone(x, s) == [x EXCEPT !.open[s] = @ - 1]

\* Variant: the order is dropped and its client never told.
CancelSilently(x) == [x EXCEPT !.order = Nobody]

CancelOrder(x) == IF x.order = Nobody THEN x
                  ELSE OrderDone([x EXCEPT !.order = Nobody], x.order.slot)

MovementBlocked(x) == x.castLock # Nobody \/ x.stunned

\* chaseMoveLocked; go: this call finds a new route.
Chase(x, go) == [x EXCEPT !.hasDest = ~MovementBlocked(x) /\ (@ \/ go)]

(***************************************************************************)
(* Channels: what an impact starts, what a new act of the caster breaks,   *)
(* and what blocks his ability bar.                                        *)
(***************************************************************************)
BreakInterruptibleChannels(x) ==
  [x EXCEPT !.channels = {c \in @ : c.slot \notin Interruptible}]

AbilityBlocked(x) ==
  \/ \E c \in x.channels : c.slot \in Walking /\ ~c.due
  \/ \E i \in DOMAIN x.payloads : x.payloads[i].slot \in Walking /\ ~x.payloads[i].due

\* A channel planted in the ground goes on without its caster.
GroundAnchored(c) == c.target = Nobody /\ c.slot \notin SelfCast

Broken(x, c) ==
  \/ x.dead \/ c.target \in x.gone
  \/ /\ ~GroundAnchored(c) \/ c.slot \in Interruptible
     /\ c.slot \notin Sustained
     /\ x.stunned \/ x.hasDest

TickChannels(x) == [x EXCEPT !.channels = {c \in @ : ~Broken(x, c) /\ ~c.due}]

(***************************************************************************)
(* toggleOffLocked, and dotaFreezeLocked: the orders whose endings it      *)
(* throws away stay open, the casts whose impacts it clears are called     *)
(* off.                                                                    *)
(***************************************************************************)
ToggleOff(x, ss) == [x EXCEPT !.on = @ \ ss, !.cooling = @ \cup ss]

Thrown(x) ==
  [x EXCEPT !.dropped = [s \in kit |-> @[s] + Cardinality(Are(x.actionDones, s))],
            !.owed = [s \in kit |-> @[s] - Cardinality(Are(x.payloads, s))],
            !.actionDones = <<>>, !.payloads = <<>>, !.channels = {},
            !.castLock = Nobody, !.attackTarget = Nobody, !.hasDest = FALSE,
            !.ended = TRUE]

DotaFreeze(x) == IF x.ended THEN x ELSE Thrown(CancelOrder(x))

(***************************************************************************)
(* startAttackLocked, and resumeAutoAttackLocked after a cast or a kill:   *)
(* near is the nearest mob within aggro range.                             *)
(***************************************************************************)
TakeOn(x, m) ==
  IF x.dead \/ x.attackTarget = m THEN x
  ELSE [CancelOrder(BreakInterruptibleChannels(x)) EXCEPT !.attackTarget = m]

ResumeAutoAttack(x, preferred, near) ==
  LET m == IF preferred \in Prey \ x.gone THEN preferred ELSE near IN
  IF \/ x.dead \/ x.stunned \/ x.attackTarget # Nobody \/ x.order # Nobody \/ x.hasDest
     \/ m = Nobody
    THEN x ELSE [TakeOn(x, m) EXCEPT !.autoResumed = TRUE]

(***************************************************************************)
(* firePayloadLocked and runDuePayloadsLocked.  An impact that has to fly  *)
(* first is queued again while the queue is worked off.  The impact of     *)
(* number last fells an altar: the match ends in the middle of the loop    *)
(* (0: none does).                                                         *)
(***************************************************************************)
Impacts(x, p) ==
  LET t == IF p.target \in x.gone THEN Nobody ELSE p.target
      y == [x EXCEPT !.owed[p.slot] = @ - 1] IN
  IF p.slot \in Channels
    THEN [y EXCEPT !.channels = @ \cup {[slot |-> p.slot, target |-> t, due |-> FALSE]}]
    ELSE y

FirePayload(x, p, fells) ==
  IF p.slot \in Flying /\ ~p.flown /\ p.target \notin x.gone
    THEN [x EXCEPT !.payloads = Append(@, [p EXCEPT !.flown = TRUE, !.due = FALSE])]
    ELSE Impacts(IF fells THEN DotaFreeze(x) ELSE x, p)

\* What the loop over a queue finds due, or what it keeps.
Marked(queue, due) ==
  LET out[i \in 0..Len(queue)] ==
        IF i = 0 THEN <<>>
        ELSE IF queue[i].due = due THEN Append(out[i-1], queue[i]) ELSE out[i-1]
  IN  out[Len(queue)]

Due(queue)   == Marked(queue, TRUE)
Undue(queue) == Marked(queue, FALSE)

FireAll(x, last) ==
  LET ripe == Due(x.payloads)
      after[i \in 0..Len(ripe)] ==
        IF i = 0 THEN [x EXCEPT !.payloads = <<>>]
        ELSE FirePayload(after[i-1], ripe[i], i = last)
  IN  after[Len(ripe)]

\* Variant: the queue is overwritten with what was left of the old one.
RunDueSnapshot(x, last) == [FireAll(x, last) EXCEPT !.payloads = Undue(x.payloads)]

RunDuePayloads(x, last) == [FireAll(x, last) EXCEPT !.payloads = @ \o Undue(x.payloads)]

\* Which impact may be the last of the match, if another cast is made or not.
Finishers(x) == IF x.ended THEN {0} ELSE 0..(Len(x.payloads) + 1)

(***************************************************************************)
(* execCastLocked.  able: he can pay for it now.                           *)
(***************************************************************************)
Committed(x, s, t) ==
  BreakInterruptibleChannels(
    [x EXCEPT !.cooling = @ \cup {s}, !.owed[s] = @ + 1, !.hasDest = FALSE,
              !.attackTarget = IF s \in Channels THEN Nobody ELSE @,
              !.payloads = Append(@, [slot |-> s, target |-> t, flown |-> FALSE,
                                      due |-> s \in Instant])])

ExecCast(x, s, t, able, last) ==
  LET y == Committed(x, s, t)
      z == IF s \in Instant THEN RunDuePayloads(y, last) ELSE y IN
  IF ~able \/ s \in x.cooling THEN OrderDone(x, s)
  ELSE [z EXCEPT !.actionDones = Append(@, [slot |-> s, target |-> t, due |-> FALSE]),
                 !.castLock = IF s \in Walking THEN Nobody ELSE s]

(***************************************************************************)
(* startSkillOrderLocked: the order is refused (he may be short of mana,   *)
(* or silenced), the skill is cast at once, or he sets out for its target. *)
(* A toggle goes its own way (toggleSkillLocked), with no answer: when it  *)
(* is refused here (he is silenced, say) the order is answered, when it is *)
(* switched or refused there (he is short of mana, or it cools) it is not. *)
(***************************************************************************)
Aims(s) == IF s \in Aimed THEN Victims ELSE {Nobody}

Barred(x) == x.dead \/ x.stunned \/ AbilityBlocked(x)

Refused(x, s, t) == Barred(x) \/ s \in x.cooling \/ t \in x.gone

SkillOrders(x, s, t) ==
  {OrderDone(x, s)} \cup
  (IF Refused(x, s, t) THEN {}
   ELSE {ExecCast(x, s, t, TRUE, last) : last \in Finishers(x)} \cup
        (IF s \in SelfCast THEN {}
         ELSE {Chase([x EXCEPT !.order = [slot |-> s, target |-> t]], TRUE)}))

Asked(x, s) == [x EXCEPT !.open[s] = @ + 1]

\* Variant: an order under way is left to the tick.
UseSkillBeside(s, t) == mage' \in SkillOrders(Asked(mage, s), s, t) /\ UNCHANGED kit

UseSkill(s, t) ==
  mage' \in SkillOrders(CancelOrder(Asked(mage, s)), s, t) /\ UNCHANGED kit

Switched(x, s) ==
  IF s \in x.on THEN {ToggleOff(x, {s})}
  ELSE IF s \in x.cooling THEN {} ELSE {[x EXCEPT !.on = @ \cup {s}]}

UseToggle(s) ==
  LET x == CancelOrder(mage) IN
  /\ mage' \in {x} \cup (IF Barred(x) THEN {} ELSE Switched(x, s))
  /\ UNCHANGED kit

(***************************************************************************)
(* The other orders: DO_ACTION on a mob or an enemy hero, MOVE_PLAYER,     *)
(* STOP_PLAYER.                                                            *)
(***************************************************************************)
AttackMob(m) ==
  /\ m \notin mage.gone
  /\ mage' = TakeOn([mage EXCEPT !.autoResumed = FALSE], m)
  /\ UNCHANGED kit

AttackHero(v) ==
  /\ v \notin mage.gone /\ ~mage.dead
  /\ mage' = CancelOrder([mage EXCEPT !.attackTarget = Nobody])
  /\ UNCHANGED kit

Walk ==
  /\ mage' = IF MovementBlocked(mage) THEN [mage EXCEPT !.hasDest = FALSE]
             ELSE CancelOrder([mage EXCEPT !.attackTarget = Nobody, !.hasDest = TRUE])
  /\ UNCHANGED kit

\* He arrives, or stops.
Halt == mage.hasDest /\ mage' = [mage EXCEPT !.hasDest = FALSE] /\ UNCHANGED kit

\* The attack timer walks him to his target (no mob is attacked out of a grave).
Pursue ==
  /\ mage.attackTarget \notin mage.gone \cup {Nobody}
  /\ mage' = Chase(mage, TRUE)
  /\ UNCHANGED kit

GiveUp ==
  /\ mage.attackTarget \in mage.gone
  /\ mage' = [mage EXCEPT !.attackTarget = Nobody]
  /\ UNCHANGED kit

(***************************************************************************)
(* What befalls him: dotaStunHeroLocked, playerDieLocked, a respawn (long  *)
(* after his last cast).                                                   *)
(***************************************************************************)
Stunned == /\ ~mage.dead
           /\ mage' = CancelOrder([mage EXCEPT !.stunned = TRUE, !.attackTarget = Nobody,
                                               !.hasDest = FALSE])
           /\ UNCHANGED kit

Recover == mage.stunned /\ mage' = [mage EXCEPT !.stunned = FALSE] /\ UNCHANGED kit

PlayerDies == /\ ~mage.dead
              /\ LET x == [mage EXCEPT !.dead = TRUE, !.channels = {},
                                       !.attackTarget = Nobody, !.hasDest = FALSE]
                 IN  mage' = CancelOrder(ToggleOff(x, x.on))
              /\ UNCHANGED kit

\* The hits it was good for are spent.
ShieldSpent(s) == mage' = ToggleOff(mage, {s}) /\ UNCHANGED kit

Revive == /\ mage.dead /\ ~mage.ended /\ mage.payloads = <<>> /\ mage.actionDones = <<>>
          /\ mage' = [mage EXCEPT !.dead = FALSE]
          /\ UNCHANGED kit

\* A target dies or cannot be seen any more; mine: by the hero's own hit.
Vanish(t, mine, near) ==
  LET x == [mage EXCEPT !.gone = @ \cup {t}]
      y == [x EXCEPT !.attackTarget = Nobody] IN
  /\ t \notin mage.gone
  /\ mage' = IF ~mine \/ x.attackTarget # t THEN x
             ELSE IF x.autoResumed THEN ResumeAutoAttack(y, Nobody, near) ELSE y
  /\ UNCHANGED kit

Meant(t) == \/ mage.attackTarget = t
            \/ mage.order # Nobody /\ mage.order.target = t
            \/ \E e \in Range(mage.payloads) \cup Range(mage.actionDones) \cup mage.channels :
                 e.target = t

\* The hero is back or visible again; another mob, which nothing was aimed at.
Appear(t) ==
  /\ t \in mage.gone
  /\ t \in Rivals \/ ~Meant(t)
  /\ mage' = [mage EXCEPT !.gone = @ \ {t}]
  /\ UNCHANGED kit

(***************************************************************************)
(* Time: an impact, the end of a cast (never before its impact, and with   *)
(* it the cast lock), of a channel, of a cooldown (which outlasts all of   *)
(* these).                                                                 *)
(***************************************************************************)
ImpactDue(i) ==
  /\ ~mage.payloads[i].due
  /\ mage' = [mage EXCEPT !.payloads[i].due = TRUE]

EndingDue(i) ==
  LET s == mage.actionDones[i].slot IN
  /\ ~mage.actionDones[i].due
  /\ \A j \in Are(mage.payloads, s) : mage.payloads[j].due \/ mage.payloads[j].flown
  /\ mage' = [mage EXCEPT !.actionDones[i].due = TRUE,
                          !.castLock = IF @ = s THEN Nobody ELSE @]

ChannelDue(c) ==
  /\ ~c.due
  /\ mage' = [mage EXCEPT !.channels = (@ \ {c}) \cup {[c EXCEPT !.due = TRUE]}]

Cooled(s) ==
  /\ Are(mage.payloads, s) \cup Are(mage.actionDones, s) = {}
  /\ \A c \in mage.channels : c.slot # s
  /\ mage' = [mage EXCEPT !.cooling = @ \ {s}]

Elapse == /\ \/ \E i \in DOMAIN mage.payloads : ImpactDue(i)
             \/ \E i \in DOMAIN mage.actionDones : EndingDue(i)
             \/ \E c \in mage.channels : ChannelDue(c)
             \/ \E s \in mage.cooling : Cooled(s)
          /\ UNCHANGED kit

(***************************************************************************)
(* memberTickLocked: due impacts, due endings, the approach-cast, toggles  *)
(* (some may run out of mana), channels.  The pulse of an aura or of a     *)
(* channel may end the match, too: the channels that the loop has kept     *)
(* outlive the freeze.                                                     *)
(***************************************************************************)
CloseAction(x, d, near) ==
  LET y == OrderDone(x, d.slot) IN
  IF d.slot \in Channels THEN y ELSE ResumeAutoAttack(y, d.target, near)

CloseAll(x, near) ==
  LET ripe == Due(x.actionDones)
      after[i \in 0..Len(ripe)] ==
        IF i = 0 THEN x ELSE CloseAction(after[i-1], ripe[i], near)
  IN  after[Len(ripe)]

CloseActions(x, near) == [CloseAll(x, near) EXCEPT !.actionDones = Undue(@)]

\* In reach he casts, if he still can; out of reach he follows the target.
TickOrder(x) ==
  LET o == x.order
      y == [x EXCEPT !.order = Nobody] IN
  IF o = Nobody THEN {x}
  ELSE IF o.target \in x.gone THEN {OrderDone(y, o.slot)}
  ELSE {ExecCast(y, o.slot, o.target, able, last) : able \in BOOLEAN, last \in Finishers(y)}
       \cup {Chase(x, go) : go \in BOOLEAN}

TickToggles(x) ==
  LET y == {ToggleOff(x, spent) : spent \in SUBSET x.on} IN
  y \cup (IF x.on = {} THEN {} ELSE {DotaFreeze(z) : z \in y})

Pulses(x) ==
  LET y == TickChannels(x) IN
  {y} \cup (IF y.channels = {} THEN {} ELSE {[DotaFreeze(y) EXCEPT !.channels = y.channels]})

MemberTick(near) ==
  /\ ~mage.ended
  /\ \E last \in Finishers(mage) :
       \E x \in TickOrder(CloseActions(RunDuePayloads(mage, last), near)) :
         \E y \in TickToggles(x) : mage' \in Pulses(y)
  /\ UNCHANGED kit

\* Another's blow ends the match; the tick under way may still come to this hero, and
\* finds nothing but his toggles.
MatchEnds ==
  /\ ~mage.ended
  /\ \E spent \in SUBSET mage.on : mage' = ToggleOff(DotaFreeze(mage), spent)
  /\ UNCHANGED kit

Near == (Prey \ mage.gone) \cup {Nobody}

CastNext ==
  \/ \E s \in kit \ Toggles : \E t \in Aims(s) : UseSkill(s, t)
  \/ \E s \in kit \cap Toggles : UseToggle(s)
  \/ \E s \in mage.on : ShieldSpent(s)
  \/ \E m \in Prey : AttackMob(m)
  \/ \E v \in Rivals : AttackHero(v)
  \/ Walk \/ Halt \/ Pursue \/ GiveUp \/ Stunned \/ Recover \/ PlayerDies \/ Revive
  \/ \E t \in Victims, mine \in BOOLEAN : \E near \in Near \ {t} : Vanish(t, mine, near)
  \/ \E t \in Victims : Appear(t)
  \/ Elapse
  \/ \E near \in Near : MemberTick(near)
  \/ MatchEnds

CastSpec == CastInit /\ [][CastNext]_castVars

-----------------------------------------------------------------------------
(***************************************************************************)
(* Properties.                                                             *)
(***************************************************************************)
\* Every order of a skill that is no toggle is answered with ORDER_DONE exactly once,
\* whatever refuses, supersedes, interrupts or completes it, but for those that the end
\* of the match catches: an order the client still waits for is the approach under way,
\* or a cast whose end is scheduled, or one whose end the freeze threw away ("mandatory:
\* without it the client-side DEFENCE auto-attack blocks forever", effects.go:150-151).
\* The code breaks that rule for toggles (effects.go:196-199), and at the end of a match
\* (dota.go:899-900); after it no tick comes to close what is still scheduled.
OrdersAnswered ==
  \A s \in kit \ Toggles :
    /\ mage.open[s] =
         Cardinality(Are(mage.actionDones, s)) +
         (IF mage.order # Nobody /\ mage.order.slot = s THEN 1 ELSE 0) +
         mage.dropped[s]
    /\ mage.dropped[s] > 0 => mage.ended

\* A cast that was paid for lands exactly once, though impacts are queued again while
\* the queue is worked off (effects.go:861-865), unless the freeze calls it off.
LandsOnce == \A s \in kit : mage.owed[s] = Cardinality(Are(mage.payloads, s))

\* While a spin owns the ability bar no other skill starts, neither by an order
\* nor by an approach that was under way (effects.go:396-398), and no toggle goes on.
BarOwned == [][AbilityBlocked(mage) => /\ mage'.cooling \ Toggles \subseteq mage.cooling
                                       /\ mage'.on \subseteq mage.on]_castVars
=============================================================================
