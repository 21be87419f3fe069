----------------------------- MODULE HeroFight -----------------------------
(***************************************************************************)
(* The fights of heroes in a match ("Arena", or "Shturm": dota): orders    *)
(* to attack, the timers that carry them out, deaths and frags, and the    *)
(* end of the match (battleserver/hunt.go, arena.go, dota.go, mobai.go,    *)
(* rating.go).                                                             *)
(*                                                                         *)
(* Everything runs under the world's lock, one callback at a time.  An     *)
(* order arms a chain of timers; nobody ever stops a timer.  A callback    *)
(* finds out when it fires whether it is still wanted: by comparing the    *)
(* attackSeq it was armed with to the hero's own, unless its hit is        *)
(* committed.  Each timer is an element of timers until it fires.          *)
(*                                                                         *)
(* Places, damage and health are abstracted: a swing may be out of reach   *)
(* and a hit may be lethal, or not.                                        *)
(***************************************************************************)
EXTENDS Naturals

CONSTANTS Heroes, Creatures, NoOne,
          Side,        \* the team of every hero and mob (0: a creature of neither)
          Altars,      \* the mobs whose death ends a dota match
          Shooters,    \* heroes with a projectile
          Bots,        \* heroes the server plays
          Revivers,    \* heroes who learned a revive
          Thorny,      \* heroes who reflect a melee hit
          FragLimit,   \* frags of a team that win an arena match
          Modes,       \* the kinds of match played
          StunsMidSwing, \* may a stun find its hero in the middle of a swing?
          MaxSeq,      \* bound: a hero's orders, by the attackSeq they may start from
          MaxDeaths    \* bound: a hero who died so often does not respawn

ASSUME FightAssumption ==
  /\ Heroes \cap Creatures = {} /\ NoOne \notin Heroes \cup Creatures
  /\ Altars \subseteq Creatures
  /\ Side \in [Heroes \cup Creatures -> 0..2] /\ \A u \in Heroes \cup Altars : Side[u] # 0
  /\ Modes \subseteq {"arena", "dota"}
  /\ FragLimit \in Nat /\ FragLimit > 0
  /\ StunsMidSwing \in BOOLEAN
  /\ MaxSeq \in [Heroes -> Nat] /\ MaxDeaths \in Nat

VARIABLES
  mode,    \* the kind of this match
  hs,      \* huntState of every hero
  slain,   \* the mobs that are dead
  match,   \* arenaState or dotaState, the published fight log, the rating
  timers   \* the callbacks that have not fired yet

fightVars == <<mode, hs, slain, match, timers>>

Units == Heroes \cup Creatures
Teams == {1, 2}

HeroState == [attackTarget : Creatures \cup {NoOne}, pvpTarget : Heroes \cup {NoOne},
              attackSeq : Nat,
              attackActionActive : BOOLEAN,
              shown : Nat,              \* ACTIONs a teammate saw since the last ACTION_DONE
              dead : BOOLEAN,           \* deadUntil > 0
              closed : BOOLEAN,         \* left the match
              reviveReady : BOOLEAN,
              lastHeroDamager : Heroes \cup {NoOne},
              frags : Nat, deaths : Nat]

Score == [Heroes -> [frags : Nat, deaths : Nat] \cup {NoOne}]

Match == [ended : BOOLEAN, winner : Teams \cup {NoOne},
          frags : [Teams -> Nat],
          log : Score \cup {NoOne},      \* the scoreboard fight|log answers with
          rated : [Heroes -> Nat]]      \* history: how often the hero's rating was settled

Timer == [kind : {"swing", "hit", "release", "done"}, hero : Heroes, target : Units,
          seq : Nat, committed : BOOLEAN]

FightTypeOK == /\ mode \in Modes
               /\ hs \in [Heroes -> HeroState]
               /\ slain \subseteq Creatures
               /\ match \in Match
               /\ timers \subseteq Timer

FightInit ==
  /\ mode \in Modes
  /\ hs = [h \in Heroes |->
             [attackTarget |-> NoOne, pvpTarget |-> NoOne, attackSeq |-> 0,
              attackActionActive |-> FALSE, shown |-> 0, dead |-> FALSE,
              closed |-> FALSE, reviveReady |-> h \in Revivers,
              lastHeroDamager |-> NoOne, frags |-> 0, deaths |-> 0]]
  /\ slain = {}
  /\ match = [ended |-> FALSE, winner |-> NoOne, frags |-> [t \in Teams |-> 0],
              log |-> NoOne, rated |-> [h \in Heroes |-> 0]]
  /\ timers = {}

Enemies(a, b) == Side[a] # Side[b]

\* The part of the state a callback changes, passed through the calls it makes.
World == [hs |-> hs, slain |-> slain, match |-> match]
Become(w) == hs' = w.hs /\ slain' = w.slain /\ match' = w.match

Present(w) == {h \in Heroes : ~w.hs[h].closed}

(***************************************************************************)
(* stopAttackLocked and stopPvpAttackLocked, on one hero's state.          *)
(***************************************************************************)
Halted(x, silent) == [x EXCEPT !.attackSeq = @ + 1, !.attackActionActive = FALSE,
                               !.shown = IF silent THEN @ ELSE 0]

StopAttack(x, silent) ==
  IF x.attackTarget = NoOne /\ ~x.attackActionActive THEN x
  ELSE [Halted(x, silent) EXCEPT !.attackTarget = NoOne]

StopPvp(x, silent) ==
  IF x.pvpTarget = NoOne /\ ~x.attackActionActive THEN x
  ELSE [Halted(x, silent) EXCEPT !.pvpTarget = NoOne]

StopBoth(x, silent) == StopPvp(StopAttack(x, silent), silent)

(***************************************************************************)
(* The fight log and the end of a match.  The result is latched, and in a  *)
(* dota match every hero who is still there is frozen.                     *)
(***************************************************************************)
ScoreOf(w) == [h \in Heroes |-> IF w.hs[h].closed THEN NoOne
                                ELSE [frags |-> w.hs[h].frags, deaths |-> w.hs[h].deaths]]

PublishLive(w) == IF mode # "dota" \/ w.match.ended THEN w
                  ELSE [w EXCEPT !.match.log = ScoreOf(w)]

Contested(w) == \A t \in Teams : \E h \in Present(w) : Side[h] = t

Settle(w) == [w EXCEPT
                !.match.log = ScoreOf(w),
                !.match.rated = [h \in Heroes |->
                   IF Contested(w) /\ h \in Present(w) \ Bots THEN @[h] + 1 ELSE @[h]]]

Freeze(w) == [w EXCEPT !.hs = [h \in Heroes |->
                IF @[h].closed THEN @[h] ELSE StopBoth(@[h], FALSE)]]

Latch(w, team) == [w EXCEPT !.match.ended = TRUE, !.match.winner = team]

\* Variant: whoever fells the second altar wins once more.
EndUnlatched(w, team) == Settle(Freeze(Latch(w, team)))

DotaEnd(w, team) == IF w.match.ended THEN w ELSE Settle(Freeze(Latch(w, team)))

ArenaEnd(w, team) == IF w.match.ended THEN w ELSE Settle(Latch(w, team))

(***************************************************************************)
(* Kill credit: arenaCreditKillLocked, dotaCreditHeroKillLocked.           *)
(***************************************************************************)
ArenaScored(w, killer) ==
  LET team == Side[killer]
      w1 == [w EXCEPT !.hs[killer].frags = @ + 1, !.match.frags[team] = @ + 1] IN
  IF w1.match.frags[team] >= FragLimit THEN ArenaEnd(w1, team) ELSE w1

ArenaCredit(w, killer) == IF w.match.ended THEN w ELSE ArenaScored(w, killer)

DotaCredit(w, killer) == PublishLive([w EXCEPT !.hs[killer].frags = @ + 1])

Credit(w, killer) == IF killer = NoOne THEN w
                     ELSE IF mode = "dota" THEN DotaCredit(w, killer)
                     ELSE ArenaCredit(w, killer)

(***************************************************************************)
(* playerDieLocked: a revive in place, or the death.                       *)
(***************************************************************************)
Buried(x) == [x EXCEPT !.dead = TRUE, !.deaths = @ + 1, !.lastHeroDamager = NoOne]

\* Variant: only the order against a creature ends.
DieDuelling(w, v) ==
  LET w1 == PublishLive([w EXCEPT !.hs[v] = Buried(@)])
  IN [w1 EXCEPT !.hs[v] = StopAttack(@, TRUE)]

Die(w, v) ==
  LET w1 == PublishLive([w EXCEPT !.hs[v] = Buried(@)])
  IN [w1 EXCEPT !.hs[v] = StopBoth(@, TRUE)]

PlayerDie(w, v) == IF w.hs[v].reviveReady THEN [w EXCEPT !.hs[v].reviveReady = FALSE]
                                          ELSE Die(w, v)

(***************************************************************************)
(* hitPlayerFromLocked: by is the enemy hero who hit, or NoOne for a creep. *)
(* In a dota match the kill of a creep goes to the hero whose hit is       *)
(* remembered, if he is still there.                                       *)
(***************************************************************************)
RecentDamager(w, v) ==
  LET k == w.hs[v].lastHeroDamager IN
  IF mode = "dota" /\ k \in Present(w) THEN k ELSE NoOne

Blow(w, v, by, lethal) ==
  LET w1 == IF by = NoOne THEN w ELSE [w EXCEPT !.hs[v].lastHeroDamager = by]
      killer == IF by = NoOne THEN RecentDamager(w1, v) ELSE by IN
  IF w.hs[v].dead THEN w ELSE IF lethal THEN Credit(PlayerDie(w1, v), killer) ELSE w1

\* The share a thorny hero reflects strikes first, and may kill.
Reflects(v, by) == v \in Thorny /\ by \in Heroes \ Shooters

HitHero(w, v, by, lethal, thorns) ==
  Blow(IF Reflects(v, by) /\ ~w.hs[v].dead THEN Blow(w, by, v, thorns) ELSE w, v, by, lethal)

(***************************************************************************)
(* hitMobFlagsLocked: the killer's order onto this mob ends, and the match *)
(* with it when the mob is an altar.                                       *)
(***************************************************************************)
SlayMob(w, h, m) ==
  LET w1 == [w EXCEPT !.slain = @ \cup {m},
                      !.hs[h] = IF @.attackTarget = m THEN StopAttack(@, FALSE) ELSE @] IN
  IF m \in Altars THEN DotaEnd(w1, 3 - Side[m]) ELSE w1

Land(w, h, x, lethal, thorns) ==
  IF x \in Heroes THEN HitHero(w, x, h, lethal, thorns)
  ELSE IF lethal THEN SlayMob(w, h, x) ELSE w

(***************************************************************************)
(* Orders: DO_ACTION on a mob or an enemy hero, MOVE_PLAYER.  Asking for   *)
(* the order under way again changes nothing: its timer goes on.           *)
(***************************************************************************)
SwingTimer(h, x, seq) ==
  [kind |-> "swing", hero |-> h, target |-> x, seq |-> seq, committed |-> FALSE]

MayOrder(h) == ~hs[h].closed /\ ~hs[h].dead /\ hs[h].attackSeq < MaxSeq[h]

Ordered(h, x, target) ==
  /\ Become([World EXCEPT !.hs[h] = x])
  /\ timers' = timers \cup {SwingTimer(h, target, x.attackSeq)}
  /\ UNCHANGED mode

StopForMob(x) == IF x.pvpTarget # NoOne THEN StopPvp(x, FALSE) ELSE x

StartAttack(h, m) ==
  LET x == StopAttack(StopForMob(hs[h]), FALSE) IN
  /\ MayOrder(h)
  /\ mode = "dota" /\ m \notin slain /\ Enemies(h, m)     \* an arena has no mobs
  /\ hs[h].attackTarget # m \/ hs[h].pvpTarget # NoOne
  /\ Ordered(h, [x EXCEPT !.attackTarget = m, !.pvpTarget = NoOne, !.attackSeq = @ + 1], m)

StartPvpAttack(h, v) ==
  LET x == StopAttack(hs[h], FALSE) IN
  /\ MayOrder(h)
  /\ v \in Present(World) /\ Enemies(h, v) /\ ~hs[v].dead
  /\ hs[h].pvpTarget # v \/ hs[h].attackTarget # NoOne
  /\ Ordered(h, [x EXCEPT !.attackTarget = NoOne, !.pvpTarget = v, !.attackSeq = @ + 1], v)

Moved(x) ==
  LET y == IF x.attackTarget # NoOne \/ (x.attackActionActive /\ x.pvpTarget = NoOne)
             THEN StopAttack(x, FALSE) ELSE x IN
  IF y.pvpTarget # NoOne \/ (y.attackActionActive /\ y.attackTarget = NoOne)
    THEN StopPvp(y, FALSE) ELSE y

Move(h) ==
  /\ ~hs[h].closed
  /\ Become([World EXCEPT !.hs[h] = Moved(@)])
  /\ UNCHANGED <<mode, timers>>

(***************************************************************************)
(* dotaStunHeroLocked: a spell of an enemy hero stuns this one, and drops  *)
(* his order onto a mob.  Nobody is told.                                  *)
(***************************************************************************)
Stun(h) ==
  /\ ~hs[h].closed /\ ~hs[h].dead /\ \E e \in Present(World) : Enemies(e, h)
  /\ StunsMidSwing \/ ~hs[h].attackActionActive
  /\ hs' = [hs EXCEPT ![h] = StopAttack(@, TRUE)]
  /\ UNCHANGED <<mode, slain, match, timers>>

(***************************************************************************)
(* The timer chain of an order: armAttackTimer, armPvpAttackTimer.         *)
(***************************************************************************)
Gone(h, x) == IF x \in Creatures THEN x \in slain
                            ELSE hs[x].closed \/ ~Enemies(h, x) \/ hs[x].dead

\* The callbacks of one swing come before the next swing of the same order.
InSwing(t) == \E u \in timers : /\ u.kind \in {"hit", "release", "done"} /\ ~u.committed
                                /\ u.hero = t.hero /\ u.seq = t.seq

\* Variant: nobody tells the teammates that the swing is over.
StrikeOpenEnded(t) == {[t EXCEPT !.kind = "hit"]}

Strike(t) ==
  LET bot == t.hero \in Bots /\ t.target \in Creatures IN
  {[t EXCEPT !.kind = IF t.hero \in Shooters THEN "release" ELSE "hit",
             !.committed = bot /\ t.hero \notin Shooters],
   [t EXCEPT !.kind = "done"]}

SwingLive(t) == ~hs[t.hero].closed /\ hs[t.hero].attackSeq = t.seq /\ ~hs[t.hero].dead

SwingDropped(t) ==
  /\ ~SwingLive(t)
  /\ timers' = timers \ {t}
  /\ UNCHANGED <<mode, hs, slain, match>>

OrderEnds(x, target) == IF target \in Creatures THEN StopAttack(x, FALSE) ELSE StopPvp(x, FALSE)

SwingEnds(t) ==
  /\ SwingLive(t) /\ Gone(t.hero, t.target)
  /\ Become([World EXCEPT !.hs[t.hero] = OrderEnds(@, t.target)])
  /\ timers' = timers \ {t}
  /\ UNCHANGED mode

\* Stunned or out of reach, the timer is armed anew: the same element.  In reach:
SwingStrikes(t) ==
  /\ SwingLive(t) /\ ~Gone(t.hero, t.target) /\ ~InSwing(t)
  /\ Become([World EXCEPT !.hs[t.hero].attackActionActive = TRUE, !.hs[t.hero].shown = @ + 1])
  /\ timers' = timers \cup Strike(t)
  /\ UNCHANGED mode

Swing(t) == SwingDropped(t) \/ SwingEnds(t) \/ SwingStrikes(t)

(***************************************************************************)
(* scheduleProjectileLocked: the arrow leaves, and its hit is committed.   *)
(***************************************************************************)
Bolt(t) == [t EXCEPT !.kind = "hit", !.seq = 0, !.committed = TRUE]

Looses(t) ==
  LET x == hs[t.hero] IN
  /\ ~x.closed /\ ~x.dead
  /\ (t.hero \in Bots /\ t.target \in Creatures) \/ x.attackSeq = t.seq
  /\ IF t.target \in Creatures THEN t.target \notin slain
                          ELSE ~hs[t.target].closed /\ ~hs[t.target].dead

Release(t) ==
  /\ timers' = (timers \ {t}) \cup (IF Looses(t) THEN {Bolt(t)} ELSE {})
  /\ UNCHANGED <<mode, hs, slain, match>>

(***************************************************************************)
(* scheduleHitAfterLocked, schedulePvpHitAfterLocked.  A melee swing may   *)
(* also find its target out of reach by now.                               *)
(***************************************************************************)
Lands(t) ==
  /\ ~hs[t.hero].closed
  /\ t.committed \/ hs[t.hero].attackSeq = t.seq
  /\ IF t.target \in Creatures THEN t.target \notin slain
                          ELSE ~hs[t.target].closed /\ ~hs[t.target].dead

Hit(t, lethal, thorns) ==
  /\ timers' = timers \ {t}
  /\ \/ Lands(t) /\ Become(Land(World, t.hero, t.target, lethal, thorns))
     \/ ~Lands(t) /\ UNCHANGED <<hs, slain, match>>
  /\ UNCHANGED mode

(***************************************************************************)
(* scheduleSwingDone.                                                      *)
(***************************************************************************)
SwingDone(t) ==
  LET x == hs[t.hero] IN
  /\ timers' = timers \ {t}
  /\ IF x.closed \/ x.attackSeq # t.seq \/ ~x.attackActionActive
       THEN UNCHANGED hs
       ELSE hs' = [hs EXCEPT ![t.hero].attackActionActive = FALSE, ![t.hero].shown = 0]
  /\ UNCHANGED <<mode, slain, match>>

(***************************************************************************)
(* The ticker: creeps and guns hit heroes and fell altars, the dead come   *)
(* back.  A dota match that has ended is not ticked any more.              *)
(***************************************************************************)
Ticked == ~(mode = "dota" /\ match.ended)

CreepHit(v, lethal) ==
  /\ mode = "dota" /\ Ticked /\ ~hs[v].closed /\ ~hs[v].dead
  /\ Become(HitHero(World, v, NoOne, lethal, FALSE))
  /\ UNCHANGED <<mode, timers>>

UnitFells(m) ==
  /\ mode = "dota" /\ Ticked /\ Present(World) # {} /\ m \notin slain
  /\ LET w == [World EXCEPT !.slain = @ \cup {m}]
     IN Become(IF m \in Altars THEN DotaEnd(w, 3 - Side[m]) ELSE w)
  /\ UNCHANGED <<mode, timers>>

Respawn(h) ==
  /\ Ticked /\ ~hs[h].closed /\ hs[h].dead /\ hs[h].deaths < MaxDeaths
  /\ hs' = [hs EXCEPT ![h].dead = FALSE, ![h].shown = 0]
  /\ UNCHANGED <<mode, slain, match, timers>>

\* dotaHeroKillCreditWindow passes.
TagFades(h) ==
  /\ hs[h].lastHeroDamager # NoOne
  /\ hs' = [hs EXCEPT ![h].lastHeroDamager = NoOne]
  /\ UNCHANGED <<mode, slain, match, timers>>

\* closeHunt and leaveInstanceLocked.
Leave(h) ==
  /\ ~hs[h].closed
  /\ Become(PublishLive([World EXCEPT !.hs[h].closed = TRUE, !.hs[h].attackSeq = @ + 1]))
  /\ UNCHANGED <<mode, timers>>

Fire(t) == \/ t.kind = "swing" /\ Swing(t)
           \/ t.kind = "release" /\ Release(t)
           \/ t.kind = "hit" /\ \E lethal, thorns \in BOOLEAN : Hit(t, lethal, thorns)
           \/ t.kind = "done" /\ SwingDone(t)

FightNext ==
  \/ \E t \in timers : Fire(t)
  \/ \E h \in Heroes, m \in Creatures : StartAttack(h, m)
  \/ \E h, v \in Heroes : StartPvpAttack(h, v)
  \/ \E h \in Heroes : Move(h) \/ Stun(h) \/ Respawn(h) \/ TagFades(h) \/ Leave(h)
  \/ \E h \in Heroes, lethal \in BOOLEAN : CreepHit(h, lethal)
  \/ \E m \in Creatures : UnitFells(m)

FightSpec == FightInit /\ [][FightNext]_fightVars

-----------------------------------------------------------------------------
(***************************************************************************)
(* Properties.                                                             *)
(***************************************************************************)
OrderOf(h) == (IF hs[h].attackTarget # NoOne THEN {hs[h].attackTarget} ELSE {})
              \cup (IF hs[h].pvpTarget # NoOne THEN {hs[h].pvpTarget} ELSE {})

\* The swing timers that would still act for the hero.
Driving(h) == {t \in timers : t.kind = "swing" /\ t.hero = h /\ t.seq = hs[h].attackSeq}

\* A hero who is there has at most one order, none when he is dead, and exactly
\* one live timer drives the order he has: an order without a timer could not even
\* be given again (startAttackLocked returns early on the target he already has),
\* a second timer would strike twice as often, and one without an order would walk
\* him back into a fight he fled from (arena.go:173-178).
OrderDriven ==
  \A h \in Heroes : ~hs[h].closed =>
    /\ hs[h].dead => OrderOf(h) = {}
    /\ Driving(h) = {SwingTimer(h, x, hs[h].attackSeq) : x \in OrderOf(h)}
    /\ hs[h].attackTarget = NoOne \/ hs[h].pvpTarget = NoOne

\* A teammate never gets the ACTION of a swing while the last one is still open on
\* his screen (hunt.go:2335-2341: the client rejects it, and "sees the avatar swing
\* once then freeze"), and none stays open once the living hero has no order.
SwingsSeen ==
  \A h \in Heroes :
    /\ hs[h].shown <= 1
    /\ hs[h].shown = 1 /\ ~hs[h].dead /\ ~hs[h].closed =>
         hs[h].attackActionActive /\ OrderOf(h) # {}

\* A hero is remembered as the one who hit last only by a victim who has not died
\* since: no creep hands him the kill of a later life.
TagsOfThisLife == \A h \in Heroes : hs[h].dead => hs[h].lastHeroDamager = NoOne

\* An arena match is decided by the frag that reaches the limit, and by no other.
ArenaDecided ==
  mode = "arena" => /\ match.ended <=> \E t \in Teams : match.frags[t] >= FragLimit
                    /\ \A t \in Teams : match.frags[t] <= FragLimit
                    /\ match.ended => match.frags[match.winner] = FragLimit

\* The result stands: whatever still flies, dies or leaves when a match has ended
\* changes neither the winner nor the final scoreboard, and rates nobody twice.
ResultStands == [][match.ended => match' = match]_fightVars

\* "Deferred casts/hits cannot mature after the result is authoritative"
\* (dota.go:898): the scene of a dota match that has ended is frozen.
FrozenAfterEnd ==
  [][mode = "dota" /\ match.ended =>
       slain' = slain /\ \A h \in Heroes : hs'[h].deaths = hs[h].deaths]_fightVars
=============================================================================
