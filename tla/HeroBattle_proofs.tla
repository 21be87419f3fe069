------------------------- MODULE HeroBattle_proofs --------------------------
(***************************************************************************)
(* The fights and the skills of heroes, for any number of heroes,          *)
(* creatures, skills and kinds of match.                                   *)
(*                                                                         *)
(* Fights (HeroFight): every callback but the two that give an order leads *)
(* each hero's state "onward": his order stays with its attackSeq, or it   *)
(* ends and attackSeq has grown, or he has none before and after; and the  *)
(* swing his teammates see is closed, or stays as it was.  The operators   *)
(* the model is built from do, one lemma each, and so does what they call. *)
(* All of it for matches in which no stun comes in the middle of a swing   *)
(* (~StunsMidSwing): such a stun leaves a duel without its timer.          *)
(*                                                                         *)
(* Skills (HeroCast): between any two calls inside a handler the books are *)
(* right: the orders still to be answered are those of the queued endings, *)
(* of the approach under way and of the handler itself, and those whose    *)
(* endings the end of the match threw away; and the casts still to land    *)
(* are the queued impacts.  Toggles are outside the books: an order that   *)
(* switches one is not answered.                                           *)
(***************************************************************************)
EXTENDS HeroFight, HeroCast, Lists_proofs, SequenceTheorems

Idle(x) == x.attackTarget = NoOne /\ x.pvpTarget = NoOne

Steady(x, y) ==
  /\ x.closed => y.closed
  /\ y.attackSeq >= x.attackSeq
  /\ \/ y.closed
     \/ /\ y.attackTarget = x.attackTarget /\ y.pvpTarget = x.pvpTarget
        /\ y.attackSeq = x.attackSeq /\ (y.dead => x.dead)
     \/ Idle(y) /\ (y.attackSeq > x.attackSeq \/ Idle(x))

\* The swing on the teammates' screens is closed, or stays as it is until he dies.
Up(x) == ~x.dead /\ ~x.closed

Fades(x, y) ==
  \/ y.shown = 0
  \/ /\ y.shown = x.shown
     /\ Up(y) => /\ Up(x) /\ y.attackActionActive = x.attackActionActive
                 /\ y.attackTarget = x.attackTarget /\ y.pvpTarget = x.pvpTarget
                 /\ y.attackSeq = x.attackSeq

Calmer(x, y) == Steady(x, y) /\ Fades(x, y)

\* A hero state that may stand on its own.
Sound(x) == x \in HeroState /\ (x.dead => x.lastHeroDamager = NoOne)

Worlds == [hs : [Heroes -> HeroState], slain : SUBSET Creatures, match : Match]

WorldOK(w) == w \in Worlds /\ \A h \in Heroes : Sound(w.hs[h])

Onward(w, z) == WorldOK(z) /\ \A h \in Heroes : Calmer(w.hs[h], z.hs[h])

\* The order of a hero, and the timers that would act on it.
OrderOfState(x) == (IF x.attackTarget # NoOne THEN {x.attackTarget} ELSE {})
                   \cup (IF x.pvpTarget # NoOne THEN {x.pvpTarget} ELSE {})

LiveSwings(h, x, ts) == {t \in ts : t.kind = "swing" /\ t.hero = h /\ t.seq = x.attackSeq}

Wanted(h, x) == {SwingTimer(h, u, x.attackSeq) : u \in OrderOfState(x)}

Driven(h, x, ts) ==
  ~x.closed =>
    /\ x.dead => Idle(x)
    /\ LiveSwings(h, x, ts) = Wanted(h, x)
    /\ x.attackTarget = NoOne \/ x.pvpTarget = NoOne

Past(h, x, ts) == \A t \in ts : t.hero = h => t.seq <= x.attackSeq

\* The announced swing of a hero: his order stands, and its end is still to come.
Closing(h, x, ts) == {t \in ts : t.kind = "done" /\ ~t.committed /\ t.hero = h
                                                /\ t.seq = x.attackSeq}

Seen(h, x, ts) ==
  /\ x.shown <= 1
  /\ x.shown = 1 /\ Up(x) => x.attackActionActive /\ ~Idle(x) /\ Closing(h, x, ts) # {}

IInv == /\ mode \in Modes
        /\ WorldOK(World)
        /\ timers \subseteq Timer
        /\ \A h \in Heroes : /\ Driven(h, hs[h], timers) /\ Past(h, hs[h], timers)
                            /\ Seen(h, hs[h], timers)

-----------------------------------------------------------------------------
(***************************************************************************)
(* Onward is a preorder, and one hero's or the match's change is onward.   *)
(***************************************************************************)
LEMMA CalmerTrans ==
  ASSUME NEW x \in HeroState, NEW y \in HeroState, NEW z \in HeroState,
         Calmer(x, y), Calmer(y, z)
  PROVE  Calmer(x, z)
  BY DEF Calmer, Steady, Fades, Up, Idle, HeroState

LEMMA OnwardRefl == ASSUME NEW w, WorldOK(w) PROVE Onward(w, w)
  BY DEF Onward, WorldOK, Worlds, Calmer, Steady, Fades, Up, HeroState

LEMMA OnwardTrans ==
  ASSUME NEW v, NEW w, NEW z, WorldOK(v), Onward(v, w), Onward(w, z)
  PROVE  Onward(v, z)
  <1>1. ASSUME NEW h \in Heroes PROVE Calmer(v.hs[h], z.hs[h])
    BY CalmerTrans, v.hs[h] \in HeroState, w.hs[h] \in HeroState, z.hs[h] \in HeroState
       DEF Onward, WorldOK, Worlds
  <1> QED BY <1>1 DEF Onward

LEMMA OneHero ==
  ASSUME NEW w, WorldOK(w), NEW h \in Heroes, NEW y, Sound(y), Calmer(w.hs[h], y)
  PROVE  Onward(w, [w EXCEPT !.hs[h] = y])
  <1> DEFINE z == [w EXCEPT !.hs[h] = y]
  <1>1. z \in Worlds BY DEF WorldOK, Worlds, Sound
  <1>2. \A k \in Heroes : z.hs[k] = IF k = h THEN y ELSE w.hs[k] BY DEF WorldOK, Worlds
  <1>3. \A k \in Heroes : Calmer(w.hs[k], w.hs[k]) BY OnwardRefl DEF Onward
  <1> QED BY <1>1, <1>2, <1>3 DEF Onward, WorldOK

LEMMA SameHeroes ==
  ASSUME NEW w, NEW z, WorldOK(w), z \in Worlds, z.hs = w.hs
  PROVE  Onward(w, z)
  BY OnwardRefl DEF Onward, WorldOK

-----------------------------------------------------------------------------
(***************************************************************************)
(* The operations on one hero's state.                                     *)
(***************************************************************************)
LEMMA HaltedOK ==
  ASSUME NEW x \in HeroState, NEW n \in Nat, NEW j \in Nat
  PROVE  /\ [x EXCEPT !.attackSeq = n, !.attackActionActive = FALSE, !.shown = j,
                      !.attackTarget = NoOne] \in HeroState
         /\ [x EXCEPT !.attackSeq = n, !.attackActionActive = FALSE, !.shown = j,
                      !.pvpTarget = NoOne] \in HeroState
  BY DEF HeroState

LEMMA StopAttackFacts ==
  ASSUME NEW x, Sound(x), NEW s \in BOOLEAN
  PROVE  LET y == StopAttack(x, s) IN
         /\ Sound(y) /\ y.attackTarget = NoOne /\ y.pvpTarget = x.pvpTarget
         /\ y.closed = x.closed /\ y.dead = x.dead
         /\ y = x \/ y.attackSeq = x.attackSeq + 1
         /\ y = x \/ y.shown = 0 \/ (s /\ y.shown = x.shown)
  <1> DEFINE n == x.attackSeq + 1
             j == IF s THEN x.shown ELSE 0
             y == [x EXCEPT !.attackSeq = n, !.attackActionActive = FALSE, !.shown = j,
                            !.attackTarget = NoOne]
  <1>0. x \in HeroState /\ n \in Nat /\ j \in Nat BY DEF Sound, HeroState
  <1>1. CASE x.attackTarget = NoOne /\ ~x.attackActionActive
    BY <1>1 DEF StopAttack
  <1>2. CASE ~(x.attackTarget = NoOne /\ ~x.attackActionActive)
    <2>1. StopAttack(x, s) = y BY <1>0, <1>2 DEF StopAttack, Halted, HeroState
    <2>2. y \in HeroState
      <3> HIDE DEF n, j
      <3> QED BY <1>0, HaltedOK
    <2> QED BY <1>0, <2>1, <2>2 DEF Sound, HeroState
  <1> QED BY <1>1, <1>2

LEMMA StopPvpFacts ==
  ASSUME NEW x, Sound(x), NEW s \in BOOLEAN
  PROVE  LET y == StopPvp(x, s) IN
         /\ Sound(y) /\ y.pvpTarget = NoOne /\ y.attackTarget = x.attackTarget
         /\ y.closed = x.closed /\ y.dead = x.dead
         /\ y = x \/ y.attackSeq = x.attackSeq + 1
         /\ y = x \/ y.shown = 0 \/ (s /\ y.shown = x.shown)
  <1> DEFINE n == x.attackSeq + 1
             j == IF s THEN x.shown ELSE 0
             y == [x EXCEPT !.attackSeq = n, !.attackActionActive = FALSE, !.shown = j,
                            !.pvpTarget = NoOne]
  <1>0. x \in HeroState /\ n \in Nat /\ j \in Nat BY DEF Sound, HeroState
  <1>1. CASE x.pvpTarget = NoOne /\ ~x.attackActionActive
    BY <1>1 DEF StopPvp
  <1>2. CASE ~(x.pvpTarget = NoOne /\ ~x.attackActionActive)
    <2>1. StopPvp(x, s) = y BY <1>0, <1>2 DEF StopPvp, Halted, HeroState
    <2>2. y \in HeroState
      <3> HIDE DEF n, j
      <3> QED BY <1>0, HaltedOK
    <2> QED BY <1>0, <2>1, <2>2 DEF Sound, HeroState
  <1> QED BY <1>1, <1>2

LEMMA StopsAloud ==
  ASSUME NEW x, Sound(x)
  PROVE  /\ LET y == StopAttack(x, FALSE) IN
            /\ Sound(y) /\ y.attackTarget = NoOne /\ y.pvpTarget = x.pvpTarget
            /\ y.closed = x.closed /\ y.dead = x.dead
            /\ y.attackSeq \in Nat /\ y.attackSeq >= x.attackSeq
            /\ y = x \/ y.attackSeq = x.attackSeq + 1
            /\ y = x \/ y.shown = 0
         /\ LET z == StopPvp(x, FALSE) IN
            /\ Sound(z) /\ z.pvpTarget = NoOne /\ z.attackTarget = x.attackTarget
            /\ z.closed = x.closed /\ z.dead = x.dead
            /\ z.attackSeq \in Nat /\ z.attackSeq >= x.attackSeq
            /\ z = x \/ z.attackSeq = x.attackSeq + 1
            /\ z = x \/ z.shown = 0
  <1> DEFINE y == StopAttack(x, FALSE)
             z == StopPvp(x, FALSE)
  <1>1. /\ Sound(y) /\ y.attackTarget = NoOne /\ y.pvpTarget = x.pvpTarget
        /\ y.closed = x.closed /\ y.dead = x.dead
        /\ y = x \/ y.attackSeq = x.attackSeq + 1
        /\ y = x \/ y.shown = 0
    BY StopAttackFacts
  <1>2. /\ Sound(z) /\ z.pvpTarget = NoOne /\ z.attackTarget = x.attackTarget
        /\ z.closed = x.closed /\ z.dead = x.dead
        /\ z = x \/ z.attackSeq = x.attackSeq + 1
        /\ z = x \/ z.shown = 0
    BY StopPvpFacts
  <1> HIDE DEF y, z
  <1>3. x.attackSeq \in Nat /\ y.attackSeq \in Nat /\ z.attackSeq \in Nat
    BY <1>1, <1>2 DEF Sound, HeroState
  <1>4. y.attackSeq >= x.attackSeq /\ z.attackSeq >= x.attackSeq BY <1>1, <1>2, <1>3
  <1> QED BY <1>1, <1>2, <1>3, <1>4 DEF y, z

\* A stop that has something to stop closes the swing on the screens.
LEMMA StopsLoud ==
  ASSUME NEW x, Sound(x), ~(x.attackTarget = NoOne /\ ~x.attackActionActive)
  PROVE  StopAttack(x, FALSE).shown = 0
  <1> DEFINE y == Halted(x, FALSE)
  <1>1. StopAttack(x, FALSE) = [y EXCEPT !.attackTarget = NoOne] BY DEF StopAttack
  <1>2. y.shown = 0 /\ DOMAIN y = DOMAIN x BY DEF Halted, Sound, HeroState
  <1> QED BY <1>1, <1>2 DEF Halted, Sound, HeroState

\* With both stopped there is no order, whatever there was.  Only the dead stop
\* in silence.
LEMMA StopBothOnward ==
  ASSUME NEW x, Sound(x), NEW s \in BOOLEAN, s => x.dead
  PROVE  LET y == StopBoth(x, s) IN
         /\ Sound(y) /\ Idle(y) /\ Calmer(x, y)
         /\ y.closed = x.closed /\ y.dead = x.dead
  <1> DEFINE y == StopAttack(x, s)
             z == StopPvp(y, s)
  <1>1. /\ Sound(y) /\ y.attackTarget = NoOne /\ y.pvpTarget = x.pvpTarget
        /\ y.closed = x.closed /\ y.dead = x.dead
        /\ y = x \/ y.attackSeq = x.attackSeq + 1
        /\ y = x \/ y.shown = 0 \/ (s /\ y.shown = x.shown)
    BY StopAttackFacts
  <1>2. /\ Sound(z) /\ z.pvpTarget = NoOne /\ z.attackTarget = y.attackTarget
        /\ z.closed = y.closed /\ z.dead = y.dead
        /\ z = y \/ z.attackSeq = y.attackSeq + 1
        /\ z = y \/ z.shown = 0 \/ (s /\ z.shown = y.shown)
    <2> HIDE DEF y
    <2> QED BY <1>1, StopPvpFacts
  <1>3. x.attackSeq \in Nat /\ y.attackSeq \in Nat /\ z.attackSeq \in Nat
    BY <1>1, <1>2 DEF Sound, HeroState
  <1>4. StopBoth(x, s) = z BY DEF StopBoth
  <1> HIDE DEF y, z
  <1>5. Calmer(x, z) BY <1>1, <1>2, <1>3 DEF Calmer, Steady, Fades, Up, Idle
  <1> QED BY <1>1, <1>2, <1>4, <1>5 DEF Idle

LEMMA BuriedSound ==
  ASSUME NEW x, Sound(x)
  PROVE  /\ Sound(Buried(x)) /\ Buried(x).closed = x.closed
         /\ Buried(x).attackSeq = x.attackSeq
         /\ Buried(x).attackTarget = x.attackTarget /\ Buried(x).pvpTarget = x.pvpTarget
         /\ Buried(x).dead /\ Buried(x).shown = x.shown
  <1> DEFINE n == x.deaths + 1
             y == [x EXCEPT !.dead = TRUE, !.deaths = n, !.lastHeroDamager = NoOne]
  <1>1. x \in HeroState /\ n \in Nat BY DEF Sound, HeroState
  <1>2. Buried(x) = y BY DEF Buried
  <1>3. y \in HeroState
    <2> HIDE DEF n
    <2> QED BY <1>1 DEF HeroState
  <1> QED BY <1>1, <1>2, <1>3 DEF Sound, HeroState

-----------------------------------------------------------------------------
(***************************************************************************)
(* The scoreboard and the end of a match.                                  *)
(***************************************************************************)
LEMMA NewMatch ==
  ASSUME NEW w, WorldOK(w), NEW m \in Match
  PROVE  Onward(w, [w EXCEPT !.match = m]) /\ [w EXCEPT !.match = m].hs = w.hs
  <1>1. [w EXCEPT !.match = m] \in Worlds BY DEF WorldOK, Worlds
  <1>2. [w EXCEPT !.match = m].hs = w.hs BY DEF WorldOK, Worlds
  <1> QED BY <1>1, <1>2, SameHeroes

LEMMA ScoreType == ASSUME NEW w, WorldOK(w) PROVE ScoreOf(w) \in Score
  BY DEF WorldOK, Worlds, HeroState, ScoreOf, Score

LEMMA LogOnward ==
  ASSUME NEW w, WorldOK(w)
  PROVE  LET z == [w EXCEPT !.match.log = ScoreOf(w)] IN Onward(w, z) /\ z.hs = w.hs
  <1> DEFINE sc == ScoreOf(w)
             m == [w.match EXCEPT !.log = sc]
  <1>1. m \in Match
    <2>1. sc \in Score /\ w.match \in Match BY ScoreType DEF WorldOK, Worlds
    <2> HIDE DEF sc
    <2> QED BY <2>1 DEF Match
  <1>2. [w EXCEPT !.match.log = ScoreOf(w)] = [w EXCEPT !.match = m] BY DEF WorldOK, Worlds
  <1> QED BY <1>1, <1>2, NewMatch

LEMMA PublishLiveOnward ==
  ASSUME NEW w, WorldOK(w)
  PROVE  Onward(w, PublishLive(w)) /\ PublishLive(w).hs = w.hs
  BY LogOnward, OnwardRefl DEF PublishLive

LEMMA SettleOnward ==
  ASSUME NEW w, WorldOK(w)
  PROVE  Onward(w, Settle(w))
  <1> DEFINE sc == ScoreOf(w)
             rated == [h \in Heroes |-> IF Contested(w) /\ h \in Present(w) \ Bots
                                       THEN w.match.rated[h] + 1 ELSE w.match.rated[h]]
             m == [w.match EXCEPT !.log = sc, !.rated = rated]
  <1>1. sc \in Score /\ w.match \in Match BY ScoreType DEF WorldOK, Worlds
  <1>2. rated \in [Heroes -> Nat] BY <1>1 DEF Match
  <1>3. m \in Match
    <2> HIDE DEF sc, rated
    <2> QED BY <1>1, <1>2 DEF Match
  <1>4. Settle(w) = [w EXCEPT !.match = m] BY <1>1 DEF Settle, WorldOK, Worlds, Match
  <1> QED BY <1>3, <1>4, NewMatch

LEMMA FreezeOnward ==
  ASSUME NEW w, WorldOK(w)
  PROVE  Onward(w, Freeze(w))
  <1> DEFINE f == [h \in Heroes |-> IF w.hs[h].closed THEN w.hs[h] ELSE StopBoth(w.hs[h], FALSE)]
  <1>1. Freeze(w) = [w EXCEPT !.hs = f] BY DEF Freeze, WorldOK, Worlds
  <1>2. \A h \in Heroes : Sound(f[h]) /\ Calmer(w.hs[h], f[h])
    <2>1. \A h \in Heroes : Calmer(w.hs[h], w.hs[h]) BY OnwardRefl DEF Onward
    <2> QED BY <2>1, StopBothOnward DEF WorldOK
  <1>3. f \in [Heroes -> HeroState]
    <2> HIDE DEF f
    <2>1. f = [h \in Heroes |-> f[h]] BY DEF f
    <2> QED BY <1>2, <2>1 DEF Sound
  <1>4. Freeze(w).hs = f /\ Freeze(w) \in Worlds
    <2> HIDE DEF f
    <2> QED BY <1>1, <1>3 DEF WorldOK, Worlds
  <1> HIDE DEF f
  <1> QED BY <1>2, <1>4 DEF Onward, WorldOK

LEMMA LatchOnward ==
  ASSUME NEW w, WorldOK(w), NEW team \in Teams
  PROVE  Onward(w, Latch(w, team))
  <1> DEFINE m == [w.match EXCEPT !.ended = TRUE, !.winner = team]
  <1>1. m \in Match BY DEF WorldOK, Worlds, Match
  <1>2. Latch(w, team) = [w EXCEPT !.match = m] BY DEF Latch, WorldOK, Worlds
  <1> QED BY <1>1, <1>2, NewMatch

LEMMA DotaEndOnward ==
  ASSUME NEW w, WorldOK(w), NEW team \in Teams
  PROVE  Onward(w, DotaEnd(w, team))
  <1> DEFINE v == Latch(w, team)
             z == Freeze(v)
  <1>1. Onward(w, v) BY LatchOnward
  <1>2. Onward(v, z) BY <1>1, FreezeOnward DEF Onward
  <1>3. Onward(z, Settle(z)) BY <1>2, SettleOnward DEF Onward
  <1>4. Onward(w, Settle(z)) BY <1>1, <1>2, <1>3, OnwardTrans DEF Onward
  <1> QED BY <1>4, OnwardRefl DEF DotaEnd

LEMMA ArenaEndOnward ==
  ASSUME NEW w, WorldOK(w), NEW team \in Teams
  PROVE  Onward(w, ArenaEnd(w, team))
  <1> DEFINE v == Latch(w, team)
  <1>1. Onward(w, v) BY LatchOnward
  <1>2. Onward(v, Settle(v)) BY <1>1, SettleOnward DEF Onward
  <1>3. Onward(w, Settle(v)) BY <1>1, <1>2, OnwardTrans
  <1> QED BY <1>3, OnwardRefl DEF ArenaEnd

-----------------------------------------------------------------------------
(***************************************************************************)
(* Deaths, kills and hits.                                                 *)
(***************************************************************************)
LEMMA FragOnward ==
  ASSUME NEW w, WorldOK(w), NEW k \in Heroes
  PROVE  Onward(w, [w EXCEPT !.hs[k].frags = @ + 1])
  <1> DEFINE y == [w.hs[k] EXCEPT !.frags = @ + 1]
  <1>1. w.hs[k] \in HeroState BY DEF WorldOK, Worlds
  <1>2. Sound(y) /\ Calmer(w.hs[k], y)
    BY <1>1 DEF WorldOK, Sound, HeroState, Calmer, Steady, Fades, Up
  <1>3. [w EXCEPT !.hs[k].frags = @ + 1] = [w EXCEPT !.hs[k] = y] BY DEF WorldOK, Worlds
  <1> HIDE DEF y
  <1> QED BY <1>2, <1>3, OneHero

LEMMA CreditOnward ==
  ASSUME NEW w, WorldOK(w), NEW k \in Heroes \cup {NoOne}
  PROVE  Onward(w, Credit(w, k))
  <1>1. CASE k = NoOne BY <1>1, OnwardRefl DEF Credit
  <1>2. CASE k # NoOne
    <2> DEFINE v == [w EXCEPT !.hs[k].frags = @ + 1]
               m == [v.match EXCEPT !.frags[Side[k]] = @ + 1]
               z == [v EXCEPT !.match = m]
    <2>1. k \in Heroes /\ Side[k] \in Teams BY <1>2, FightAssumption DEF Teams
    <2>2. Onward(w, v) BY <2>1, FragOnward
    <2>3. m \in Match BY <2>1, <2>2 DEF Onward, WorldOK, Worlds, Match
    <2>4. Onward(v, z) BY <2>2, <2>3, NewMatch DEF Onward
    <2>5. Onward(w, z) BY <2>2, <2>4, OnwardTrans
    <2>6. Onward(w, ArenaCredit(w, k))
      <3>1. Onward(w, ArenaEnd(z, Side[k]))
        <4> HIDE DEF z
        <4>1. Onward(z, ArenaEnd(z, Side[k])) BY <2>1, <2>5, ArenaEndOnward DEF Onward
        <4> QED BY <2>5, <4>1, OnwardTrans
      <3>2. [w EXCEPT !.hs[k].frags = @ + 1, !.match.frags[Side[k]] = @ + 1] = z
        BY DEF WorldOK, Worlds
      <3> HIDE DEF z
      <3> QED BY <2>5, <3>1, <3>2, OnwardRefl DEF ArenaCredit, ArenaScored
    <2>7. Onward(w, DotaCredit(w, k))
      <3> HIDE DEF v
      <3>1. Onward(v, PublishLive(v)) BY <2>2, PublishLiveOnward DEF Onward
      <3>2. Onward(w, PublishLive(v)) BY <2>2, <3>1, OnwardTrans
      <3> QED BY <3>2 DEF DotaCredit, v
    <2> QED BY <1>2, <2>6, <2>7 DEF Credit
  <1> QED BY <1>1, <1>2

LEMMA DieOnward ==
  ASSUME NEW w, WorldOK(w), NEW v \in Heroes
  PROVE  Onward(w, Die(w, v))
  <1> DEFINE x == Buried(w.hs[v])
             y == StopBoth(x, TRUE)
             w0 == [w EXCEPT !.hs[v] = x]
             w1 == PublishLive(w0)
             z == [w1 EXCEPT !.hs[v] = y]
  <1>1. /\ Sound(x) /\ x.closed = w.hs[v].closed /\ x.attackSeq = w.hs[v].attackSeq
        /\ x.attackTarget = w.hs[v].attackTarget /\ x.pvpTarget = w.hs[v].pvpTarget
        /\ x.dead /\ x.shown = w.hs[v].shown
    BY BuriedSound DEF WorldOK
  <1>2. Sound(y) /\ Idle(y) /\ Calmer(x, y) /\ y.dead
    <2> HIDE DEF x
    <2> QED BY <1>1, StopBothOnward
  <1>3. Calmer(w.hs[v], y)
    <2>1. w.hs[v] \in HeroState /\ y \in HeroState /\ x \in HeroState
      BY <1>1, <1>2 DEF WorldOK, Sound
    <2> HIDE DEF x, y
    <2> QED BY <1>1, <1>2, <2>1 DEF Calmer, Steady, Fades, Up, Idle, HeroState
  <1>4. WorldOK(w0)
    <2> HIDE DEF x
    <2> QED BY <1>1 DEF WorldOK, Worlds, Sound
  <1>5. WorldOK(w1) /\ w1.hs = w0.hs
    <2> HIDE DEF w0
    <2> QED BY <1>4, PublishLiveOnward DEF Onward
  <1>6. Die(w, v) = z
    <2>1. w1.hs[v] = x BY <1>5 DEF WorldOK, Worlds
    <2>2. z = [w1 EXCEPT !.hs[v] = StopBoth(@, TRUE)]
      <3> HIDE DEF x, w1
      <3> QED BY <1>5, <2>1 DEF WorldOK, Worlds
    <2> QED BY <2>2 DEF Die
  <1>7. z \in Worlds /\ \A h \in Heroes : z.hs[h] = IF h = v THEN y ELSE w.hs[h]
    <2>1. w0.hs \in [Heroes -> HeroState] /\ \A h \in Heroes : h # v => w0.hs[h] = w.hs[h]
      BY <1>4 DEF WorldOK, Worlds
    <2> HIDE DEF w0, w1, y
    <2> QED BY <1>2, <1>5, <2>1 DEF WorldOK, Worlds, Sound
  <1>8. \A h \in Heroes : Calmer(w.hs[h], w.hs[h]) BY OnwardRefl DEF Onward
  <1> HIDE DEF z, y
  <1> QED BY <1>2, <1>3, <1>6, <1>7, <1>8 DEF Onward, WorldOK

LEMMA PlayerDieOnward ==
  ASSUME NEW w, WorldOK(w), NEW v \in Heroes
  PROVE  Onward(w, PlayerDie(w, v))
  <1> DEFINE y == [w.hs[v] EXCEPT !.reviveReady = FALSE]
  <1>1. w.hs[v] \in HeroState BY DEF WorldOK, Worlds
  <1>2. Sound(y) /\ Calmer(w.hs[v], y)
    <2>1. y \in HeroState BY <1>1 DEF HeroState
    <2>2. y.lastHeroDamager = w.hs[v].lastHeroDamager /\ y.dead = w.hs[v].dead
      BY <1>1 DEF HeroState
    <2>3. Calmer(w.hs[v], y) BY <1>1 DEF HeroState, Calmer, Steady, Fades, Up
    <2> QED BY <2>1, <2>2, <2>3 DEF WorldOK, Sound
  <1>3. [w EXCEPT !.hs[v].reviveReady = FALSE] = [w EXCEPT !.hs[v] = y] BY DEF WorldOK, Worlds
  <1>4. Onward(w, [w EXCEPT !.hs[v].reviveReady = FALSE])
    <2> HIDE DEF y
    <2> QED BY <1>2, <1>3, OneHero
  <1> QED BY <1>4, DieOnward DEF PlayerDie

LEMMA BlowOnward ==
  ASSUME NEW w, WorldOK(w), NEW v \in Heroes, NEW by \in Heroes \cup {NoOne},
         NEW lethal \in BOOLEAN
  PROVE  Onward(w, Blow(w, v, by, lethal))
  <1> DEFINE y == [w.hs[v] EXCEPT !.lastHeroDamager = by]
             w1 == IF by = NoOne THEN w ELSE [w EXCEPT !.hs[v].lastHeroDamager = by]
             killer == IF by = NoOne THEN RecentDamager(w1, v) ELSE by
  <1>1. CASE w.hs[v].dead BY <1>1, OnwardRefl DEF Blow
  <1>2. CASE ~w.hs[v].dead
    <2>1. w.hs[v] \in HeroState BY DEF WorldOK, Worlds
    <2>2. Sound(y) /\ Calmer(w.hs[v], y) BY <1>2, <2>1 DEF Sound, HeroState, Calmer, Steady, Fades, Up
    <2>3. [w EXCEPT !.hs[v].lastHeroDamager = by] = [w EXCEPT !.hs[v] = y]
      BY DEF WorldOK, Worlds
    <2>4. Onward(w, w1)
      <3> HIDE DEF y
      <3> QED BY <2>2, <2>3, OneHero, OnwardRefl
    <2>5. killer \in Heroes \cup {NoOne}
      <3> HIDE DEF w1
      <3> QED BY DEF RecentDamager, Present
    <2>6. Onward(w, Credit(PlayerDie(w1, v), killer))
      <3> HIDE DEF w1, killer
      <3> DEFINE w2 == PlayerDie(w1, v)
      <3>1. Onward(w1, w2) BY <2>4, PlayerDieOnward DEF Onward
      <3> HIDE DEF w2
      <3>2. Onward(w2, Credit(w2, killer)) BY <2>5, <3>1, CreditOnward DEF Onward
      <3>3. Onward(w, w2) BY <2>4, <3>1, OnwardTrans
      <3>4. Onward(w, Credit(w2, killer)) BY <3>2, <3>3, OnwardTrans
      <3> QED BY <3>4 DEF w2
    <2>7. Blow(w, v, by, lethal) = IF lethal THEN Credit(PlayerDie(w1, v), killer) ELSE w1
      BY <1>2 DEF Blow
    <2> HIDE DEF w1, killer
    <2> QED BY <2>4, <2>6, <2>7
  <1> QED BY <1>1, <1>2

LEMMA HitHeroOnward ==
  ASSUME NEW w, WorldOK(w), NEW v \in Heroes, NEW by \in Heroes \cup {NoOne},
         NEW lethal \in BOOLEAN, NEW thorns \in BOOLEAN
  PROVE  Onward(w, HitHero(w, v, by, lethal, thorns))
  <1> DEFINE w1 == IF Reflects(v, by) /\ ~w.hs[v].dead THEN Blow(w, by, v, thorns) ELSE w
  <1>1. Onward(w, w1) BY BlowOnward, OnwardRefl DEF Reflects
  <1> HIDE DEF w1
  <1>2. Onward(w1, Blow(w1, v, by, lethal)) BY <1>1, BlowOnward DEF Onward
  <1>3. Onward(w, Blow(w1, v, by, lethal)) BY <1>1, <1>2, OnwardTrans
  <1> QED BY <1>3 DEF HitHero, w1

LEMMA SlayMobOnward ==
  ASSUME NEW w, WorldOK(w), NEW h \in Heroes, NEW m \in Creatures,
         w.hs[h].attackTarget = NoOne \/ w.hs[h].pvpTarget = NoOne
  PROVE  Onward(w, SlayMob(w, h, m))
  <1> DEFINE x == w.hs[h]
             y == IF x.attackTarget = m THEN StopAttack(x, FALSE) ELSE x
             w0 == [w EXCEPT !.hs[h] = y]
             w1 == [w EXCEPT !.slain = @ \cup {m}, !.hs[h] = y]
  <1>1. Sound(x) /\ x \in HeroState BY DEF WorldOK, Worlds
  <1>2. m # NoOne BY FightAssumption
  <1>3. Sound(y) /\ Calmer(x, y)
    <2>1. CASE x.attackTarget = m
      <3> DEFINE z == StopAttack(x, FALSE)
      <3>1. /\ Sound(z) /\ z.attackTarget = NoOne /\ z.pvpTarget = x.pvpTarget
            /\ z.closed = x.closed /\ z.dead = x.dead
            /\ (z = x \/ z.attackSeq = x.attackSeq + 1) /\ (z = x \/ z.shown = 0)
        <4> HIDE DEF x
        <4> QED BY <1>1, StopAttackFacts
      <3>2. x.pvpTarget = NoOne BY <1>2, <2>1
      <3>3. x.attackSeq \in Nat BY <1>1 DEF HeroState
      <3> HIDE DEF z, x
      <3>4. Calmer(x, z) BY <1>2, <2>1, <3>1, <3>2, <3>3 DEF Calmer, Steady, Fades, Up, Idle
      <3> QED BY <2>1, <3>1, <3>4 DEF z
    <2>2. CASE x.attackTarget # m
      BY <1>1, <2>2 DEF Calmer, Steady, Fades, Up, HeroState
    <2> QED BY <2>1, <2>2
  <1>4. Onward(w, w0)
    <2> HIDE DEF y
    <2> QED BY <1>3, OneHero
  <1>5. w1 = [w0 EXCEPT !.slain = @ \cup {m}]
    <2> HIDE DEF y
    <2> QED BY DEF WorldOK, Worlds
  <1>6. Onward(w, w1)
    <2> HIDE DEF w0, w1
    <2>1. w1 \in Worlds /\ w1.hs = w0.hs BY <1>4, <1>5 DEF Onward, WorldOK, Worlds
    <2>2. Onward(w0, w1) BY <1>4, <2>1, SameHeroes DEF Onward
    <2> QED BY <1>4, <2>2, OnwardTrans
  <1>7. w1 = [w EXCEPT !.slain = @ \cup {m},
                       !.hs[h] = IF @.attackTarget = m THEN StopAttack(@, FALSE) ELSE @]
    BY DEF WorldOK, Worlds
  <1>8. ASSUME m \in Altars PROVE Onward(w, DotaEnd(w1, 3 - Side[m]))
    <2> HIDE DEF w1
    <2>1. 3 - Side[m] \in Teams BY <1>8, FightAssumption DEF Teams
    <2>2. Onward(w1, DotaEnd(w1, 3 - Side[m])) BY <1>6, <2>1, DotaEndOnward DEF Onward
    <2> QED BY <1>6, <2>2, OnwardTrans
  <1> HIDE DEF w1
  <1> QED BY <1>6, <1>7, <1>8 DEF SlayMob

LEMMA LandOnward ==
  ASSUME NEW w, WorldOK(w), NEW h \in Heroes, NEW x \in Units,
         w.hs[h].attackTarget = NoOne \/ w.hs[h].pvpTarget = NoOne,
         NEW lethal \in BOOLEAN, NEW thorns \in BOOLEAN
  PROVE  Onward(w, Land(w, h, x, lethal, thorns))
  BY HitHeroOnward, SlayMobOnward, OnwardRefl DEF Land, Units

-----------------------------------------------------------------------------
(***************************************************************************)
(* The steps.                                                              *)
(***************************************************************************)
LEMMA BecomesWorld == ASSUME NEW w \in Worlds, Become(w) PROVE World' = w
  BY DEF Worlds, Become, World

\* A step that keeps or ends every order, and takes no timer away that would still
\* act: what it leaves is driven.
LEMMA DrivenStep ==
  ASSUME IInv, WorldOK(World)', \A h \in Heroes : Steady(hs[h], hs'[h]), timers' \subseteq Timer,
         \A t \in timers' \ timers : t.kind # "swing" /\ t.seq <= hs[t.hero].attackSeq,
         \A t \in timers \ timers' :
           \/ hs'[t.hero].closed \/ t.seq # hs'[t.hero].attackSeq
           \/ t.kind = "done" /\ ~hs'[t.hero].attackActionActive
           \/ t.kind \in {"hit", "release"}
  PROVE  \A h \in Heroes : Driven(h, hs'[h], timers') /\ Past(h, hs'[h], timers')
  <1>1. hs \in [Heroes -> HeroState] /\ hs' \in [Heroes -> HeroState]
    BY DEF IInv, WorldOK, Worlds, World
  <1>2. ASSUME NEW h \in Heroes PROVE Driven(h, hs'[h], timers') /\ Past(h, hs'[h], timers')
    <2> DEFINE x == hs[h]
               y == hs'[h]
    <2>1. /\ x \in HeroState /\ y \in HeroState /\ Steady(x, y)
          /\ Driven(h, x, timers) /\ Past(h, x, timers)
      BY <1>1 DEF IInv
    <2>2. Past(h, y, timers')
      BY <2>1 DEF Past, Steady, Timer, HeroState
    <2>3. CASE y.closed BY <2>1, <2>2, <2>3 DEF Driven, HeroState
    <2>4. CASE /\ ~y.closed
               /\ y.attackTarget = x.attackTarget /\ y.pvpTarget = x.pvpTarget
               /\ y.attackSeq = x.attackSeq /\ (y.dead => x.dead)
      <3>1. LiveSwings(h, y, timers') = LiveSwings(h, x, timers)
        BY <2>4 DEF LiveSwings
      <3>2. Wanted(h, y) = Wanted(h, x) BY <2>4 DEF Wanted, OrderOfState
      <3>3. ~x.closed /\ (y.dead => Idle(y)) BY <2>1, <2>4 DEF Driven, Idle, Steady
      <3> QED BY <2>1, <2>2, <2>4, <3>1, <3>2, <3>3 DEF Driven
    <2>5. CASE ~y.closed /\ Idle(y) /\ (y.attackSeq > x.attackSeq \/ Idle(x))
      <3>1. OrderOfState(y) = {} BY <2>5 DEF OrderOfState, Idle
      <3>2. LiveSwings(h, y, timers') \subseteq LiveSwings(h, y, timers)
        BY DEF LiveSwings
      <3>3. LiveSwings(h, y, timers) = {}
        <4>1. CASE y.attackSeq > x.attackSeq
          BY <2>1, <4>1 DEF Past, LiveSwings, HeroState, IInv, Timer
        <4>2. CASE Idle(x) /\ y.attackSeq = x.attackSeq
          <5>1. OrderOfState(x) = {} BY <4>2 DEF OrderOfState, Idle
          <5>2. ~x.closed BY <2>1, <2>5 DEF Steady
          <5>3. LiveSwings(h, x, timers) = {} BY <2>1, <5>1, <5>2 DEF Driven, Wanted
          <5> QED BY <4>2, <5>3 DEF LiveSwings
        <4> QED BY <2>1, <2>5, <4>1, <4>2 DEF Steady, HeroState
      <3>4. Wanted(h, y) = {} BY <3>1 DEF Wanted
      <3> QED BY <2>2, <2>5, <3>2, <3>3, <3>4 DEF Driven, Idle
    <2>6. \/ y.closed
          \/ /\ y.attackTarget = x.attackTarget /\ y.pvpTarget = x.pvpTarget
             /\ y.attackSeq = x.attackSeq /\ (y.dead => x.dead)
          \/ Idle(y) /\ (y.attackSeq > x.attackSeq \/ Idle(x))
      BY <2>1 DEF Steady
    <2> QED BY <2>2, <2>3, <2>4, <2>5, <2>6
  <1> QED BY <1>2

\* A step that leads onward: what it leaves is driven and seen.
LEMMA QuietStep ==
  ASSUME IInv, mode' = mode, Onward(World, World'), timers' \subseteq Timer,
         \A t \in timers' \ timers : t.kind # "swing" /\ t.seq <= hs[t.hero].attackSeq,
         \A t \in timers \ timers' :
           \/ hs'[t.hero].closed \/ t.seq # hs'[t.hero].attackSeq
           \/ t.kind = "done" /\ ~hs'[t.hero].attackActionActive
           \/ t.kind \in {"hit", "release"}
  PROVE  IInv'
  <1>1. /\ hs \in [Heroes -> HeroState] /\ hs' \in [Heroes -> HeroState]
        /\ WorldOK(World)'
    BY DEF IInv, Onward, WorldOK, Worlds, World
  <1>2. \A h \in Heroes : Steady(hs[h], hs'[h]) /\ Fades(hs[h], hs'[h])
    BY DEF Onward, World, Calmer
  <1>3. \A h \in Heroes : Driven(h, hs'[h], timers') /\ Past(h, hs'[h], timers')
    BY <1>1, <1>2, DrivenStep
  <1>4. ASSUME NEW h \in Heroes PROVE Seen(h, hs'[h], timers')
    <2> DEFINE x == hs[h]
               y == hs'[h]
    <2>1. /\ x \in HeroState /\ y \in HeroState /\ Fades(x, y) /\ Seen(h, x, timers)
      BY <1>1, <1>2 DEF IInv
    <2>2. CASE y.shown = 0 BY <2>2 DEF Seen
    <2>3. CASE y.shown = x.shown /\ ~(y.shown = 1 /\ Up(y)) BY <2>1, <2>3 DEF Seen
    <2>4. CASE y.shown = 1 /\ y.shown = x.shown /\ Up(y)
      <3>1. CASE Up(x) /\ y.attackActionActive = x.attackActionActive
                 /\ y.attackTarget = x.attackTarget /\ y.pvpTarget = x.pvpTarget
                 /\ y.attackSeq = x.attackSeq
        <4>1. x.attackActionActive /\ ~Idle(x) /\ Closing(h, x, timers) # {}
          BY <2>1, <2>4, <3>1 DEF Seen
        <4>2. PICK t \in timers : /\ t.kind = "done" /\ ~t.committed /\ t.hero = h
                                  /\ t.seq = x.attackSeq
          BY <4>1 DEF Closing
        <4>3. t \in timers' BY <2>4, <3>1, <4>1, <4>2 DEF Up
        <4>4. t \in Closing(h, y, timers') BY <3>1, <4>2, <4>3 DEF Closing
        <4> QED BY <2>4, <3>1, <4>1, <4>4 DEF Seen, Idle
      <3> QED BY <2>1, <2>4, <3>1 DEF Fades
    <2> QED BY <2>1, <2>2, <2>3, <2>4 DEF Fades
  <1> QED BY <1>1, <1>3, <1>4 DEF IInv

\* A step that gives a new order, and arms its timer.
LEMMA OrderStep ==
  ASSUME IInv, NEW h \in Heroes, NEW x, Sound(x), NEW u \in Units,
         \/ x.attackTarget = u /\ x.pvpTarget = NoOne
         \/ x.attackTarget = NoOne /\ x.pvpTarget = u,
         x.attackSeq > hs[h].attackSeq, ~x.dead, x.shown = 0,
         Ordered(h, x, u)
  PROVE  IInv'
  <1> DEFINE t == SwingTimer(h, u, x.attackSeq)
  <1>0. World \in Worlds /\ hs \in [Heroes -> HeroState] /\ x \in HeroState
    BY DEF IInv, WorldOK, Worlds, World, Sound
  <1>1. /\ hs' = [hs EXCEPT ![h] = x] /\ slain' = slain /\ match' = match
        /\ timers' = timers \cup {t} /\ mode' = mode
    BY DEF Ordered, Become, World
  <1>2. t \in Timer BY <1>0 DEF SwingTimer, Timer, HeroState
  <1>3. WorldOK(World') BY <1>0, <1>1 DEF IInv, WorldOK, World, Worlds, Sound
  <1>4. u # NoOne BY FightAssumption DEF Units
  <1>5. ASSUME NEW k \in Heroes PROVE /\ Driven(k, hs'[k], timers') /\ Past(k, hs'[k], timers')
              /\ Seen(k, hs'[k], timers')
    <2>0. t.kind = "swing" /\ t.hero = h /\ t.seq = x.attackSeq BY DEF SwingTimer
    <2> HIDE DEF t
    <2>1. CASE k # h
      <3>1. hs'[k] = hs[k] BY <1>0, <1>1, <2>1
      <3>2. LiveSwings(k, hs[k], timers') = LiveSwings(k, hs[k], timers)
        BY <1>1, <2>0, <2>1 DEF LiveSwings
      <3>3. Past(k, hs[k], timers') BY <1>1, <2>0, <2>1 DEF IInv, Past
      <3>4. Closing(k, hs[k], timers) \subseteq Closing(k, hs[k], timers') BY <1>1 DEF Closing
      <3>5. Seen(k, hs[k], timers') BY <3>4 DEF IInv, Seen
      <3> QED BY <3>1, <3>2, <3>3, <3>5 DEF IInv, Driven
    <2>2. CASE k = h
      <3>1. hs'[k] = x BY <1>0, <1>1, <2>2
      <3>2. Past(k, x, timers')
        BY <1>0, <1>1, <2>0, <2>2 DEF IInv, Past, Timer, HeroState
      <3>3. LiveSwings(k, x, timers') = {t}
        BY <1>0, <1>1, <2>0, <2>2 DEF IInv, Past, Timer, HeroState, LiveSwings
      <3>4. OrderOfState(x) = {u} BY <1>4 DEF OrderOfState
      <3>5. Wanted(k, x) = {t} BY <2>2, <3>4 DEF Wanted, t
      <3>6. Seen(k, x, timers') BY DEF Seen
      <3> QED BY <3>1, <3>2, <3>3, <3>5, <3>6 DEF Driven
    <2> QED BY <2>1, <2>2
  <1> QED BY <1>1, <1>2, <1>3, <1>5 DEF IInv

LEMMA StartAttackStep ==
  ASSUME IInv, NEW h \in Heroes, NEW m \in Creatures, StartAttack(h, m)
  PROVE  IInv'
  <1> DEFINE s == StopForMob(hs[h])
             x == StopAttack(s, FALSE)
             n == x.attackSeq + 1
             y == [x EXCEPT !.attackTarget = m, !.pvpTarget = NoOne, !.attackSeq = n]
  <1>1. Sound(hs[h]) /\ hs[h] \in HeroState BY DEF IInv, WorldOK, World, Worlds
  <1>2. /\ Sound(s) /\ s.dead = hs[h].dead /\ s.attackSeq \in Nat
        /\ s.attackSeq >= hs[h].attackSeq /\ (s = hs[h] \/ s.shown = 0)
    <2>1. CASE hs[h].pvpTarget = NoOne BY <1>1, <2>1 DEF StopForMob, HeroState
    <2>2. CASE hs[h].pvpTarget # NoOne
      BY <1>1, <2>2, StopsAloud DEF StopForMob
    <2> QED BY <2>1, <2>2
  <1>3. /\ Sound(x) /\ x.dead = hs[h].dead /\ x.attackSeq \in Nat
        /\ x.attackSeq >= hs[h].attackSeq
    <2> HIDE DEF s
    <2>1. /\ x.attackSeq \in Nat /\ Sound(x) /\ x.dead = s.dead /\ x.attackSeq >= s.attackSeq
      BY <1>2, StopsAloud
    <2> HIDE DEF x
    <2> QED BY <1>1, <1>2, <2>1 DEF HeroState
  <1>4. ~hs[h].dead /\ ~hs[h].closed BY DEF StartAttack, MayOrder
  <1>8. x.shown = 0
    <2>1. CASE s = hs[h] /\ s.attackTarget = NoOne /\ ~s.attackActionActive
      <3>1. s.shown = 0
        <4> HIDE DEF s
        <4> QED BY <1>1, <1>4, <2>1 DEF IInv, Seen, Up, HeroState
      <3> QED BY <2>1, <3>1 DEF StopAttack
    <2>2. CASE s.shown = 0
      <3> HIDE DEF s
      <3> QED BY <1>2, <2>2, StopsAloud
    <2>3. CASE ~(s.attackTarget = NoOne /\ ~s.attackActionActive)
      <3> HIDE DEF s
      <3> QED BY <1>2, <2>3, StopsLoud
    <2> QED BY <1>2, <2>1, <2>2, <2>3
  <1>5. Ordered(h, y, m) BY DEF StartAttack
  <1> HIDE DEF x
  <1>6. Sound(y) /\ y.attackTarget = m /\ y.pvpTarget = NoOne /\ ~y.dead /\ y.attackSeq = n
        /\ y.shown = 0
    <2>1. n \in Nat BY <1>3
    <2>2. x \in HeroState /\ ~x.dead /\ x.shown = 0 BY <1>3, <1>4, <1>8 DEF Sound
    <2> HIDE DEF n
    <2> QED BY <2>1, <2>2 DEF Sound, HeroState
  <1>7. y.attackSeq > hs[h].attackSeq BY <1>1, <1>3, <1>6 DEF HeroState
  <1> HIDE DEF y
  <1> QED BY <1>5, <1>6, <1>7, OrderStep DEF Units

LEMMA StartPvpAttackStep ==
  ASSUME IInv, NEW h \in Heroes, NEW v \in Heroes, StartPvpAttack(h, v)
  PROVE  IInv'
  <1> DEFINE x == StopAttack(hs[h], FALSE)
             n == x.attackSeq + 1
             y == [x EXCEPT !.attackTarget = NoOne, !.pvpTarget = v, !.attackSeq = n]
  <1>1. Sound(hs[h]) /\ hs[h] \in HeroState BY DEF IInv, WorldOK, World, Worlds
  <1>3. /\ Sound(x) /\ x.dead = hs[h].dead /\ x.attackSeq \in Nat
        /\ x.attackSeq >= hs[h].attackSeq
    BY <1>1, StopsAloud
  <1>4. ~hs[h].dead /\ ~hs[h].closed BY DEF StartPvpAttack, MayOrder
  <1>8. x.shown = 0
    <2>1. CASE hs[h].attackTarget = NoOne /\ ~hs[h].attackActionActive
      <3>1. hs[h].shown = 0 BY <1>1, <1>4, <2>1 DEF IInv, Seen, Up, HeroState
      <3> QED BY <2>1, <3>1 DEF StopAttack
    <2> QED BY <1>1, <2>1, StopsLoud
  <1>5. Ordered(h, y, v) BY DEF StartPvpAttack
  <1> HIDE DEF x
  <1>6. Sound(y) /\ y.attackTarget = NoOne /\ y.pvpTarget = v /\ ~y.dead /\ y.attackSeq = n
        /\ y.shown = 0
    <2>1. n \in Nat BY <1>3
    <2>2. x \in HeroState /\ ~x.dead /\ x.shown = 0 BY <1>3, <1>4, <1>8 DEF Sound
    <2> HIDE DEF n
    <2> QED BY <2>1, <2>2 DEF Sound, HeroState
  <1>7. y.attackSeq > hs[h].attackSeq BY <1>1, <1>3, <1>6 DEF HeroState
  <1> HIDE DEF y
  <1> QED BY <1>5, <1>6, <1>7, OrderStep DEF Units

LEMMA MoveStep ==
  ASSUME IInv, NEW h \in Heroes, Move(h)
  PROVE  IInv'
  <1> DEFINE x == hs[h]
             y == IF x.attackTarget # NoOne \/ (x.attackActionActive /\ x.pvpTarget = NoOne)
                    THEN StopAttack(x, FALSE) ELSE x
             z == IF y.pvpTarget # NoOne \/ (y.attackActionActive /\ y.attackTarget = NoOne)
                    THEN StopPvp(y, FALSE) ELSE y
  <1>1. /\ Sound(x) /\ x \in HeroState /\ WorldOK(World)
        /\ ~x.closed /\ (x.attackTarget = NoOne \/ x.pvpTarget = NoOne)
    BY DEF IInv, WorldOK, World, Worlds, Driven, Move
  <1>2. /\ Sound(y) /\ y \in HeroState /\ y.closed = x.closed /\ y.dead = x.dead
        /\ y.attackTarget = NoOne /\ y.pvpTarget = x.pvpTarget
        /\ y = x \/ (y.attackSeq = x.attackSeq + 1 /\ x.pvpTarget = NoOne)
        /\ y = x \/ y.shown = 0
    <2> DEFINE v == StopAttack(x, FALSE)
    <2>1. /\ Sound(v) /\ v.attackTarget = NoOne /\ v.pvpTarget = x.pvpTarget
          /\ v.closed = x.closed /\ v.dead = x.dead /\ (v = x \/ v.attackSeq = x.attackSeq + 1)
          /\ v = x \/ v.shown = 0
      BY <1>1, StopsAloud
    <2>2. y = IF x.attackTarget # NoOne \/ (x.attackActionActive /\ x.pvpTarget = NoOne)
                THEN v ELSE x
      OBVIOUS
    <2>3. v \in HeroState BY <2>1 DEF Sound
    <2> HIDE DEF v, x, y
    <2>4. CASE y = x /\ x.attackTarget = NoOne BY <1>1, <2>4
    <2>5. CASE y = v /\ x.pvpTarget = NoOne BY <1>1, <2>1, <2>3, <2>5
    <2> QED BY <1>1, <2>2, <2>4, <2>5
  <1>3. /\ Sound(z) /\ z \in HeroState /\ z.closed = y.closed /\ z.dead = y.dead
        /\ z.attackTarget = NoOne /\ z.pvpTarget = NoOne
        /\ z = y \/ z.attackSeq = y.attackSeq + 1
        /\ z = y \/ z.shown = 0
    <2> HIDE DEF y
    <2> QED BY <1>2, StopPvpFacts DEF Sound
  <1>4. Calmer(x, z)
    <2> HIDE DEF x, y, z
    <2> QED BY <1>1, <1>2, <1>3 DEF Calmer, Steady, Fades, Up, Idle, HeroState
  <1>5. Moved(x) = z BY DEF Moved
  <1>6. Become([World EXCEPT !.hs[h] = z]) /\ mode' = mode /\ timers' = timers
    BY <1>5 DEF Move, World
  <1>7. Onward(World, [World EXCEPT !.hs[h] = z])
    <2> HIDE DEF z
    <2> QED BY <1>1, <1>3, <1>4, OneHero DEF World
  <1>8. World' = [World EXCEPT !.hs[h] = z]
    <2> HIDE DEF z
    <2> QED BY <1>6, <1>7, BecomesWorld DEF Onward, WorldOK
  <1> QED BY <1>6, <1>7, <1>8, QuietStep DEF IInv

LEMMA Basics ==
  ASSUME IInv
  PROVE  /\ WorldOK(World) /\ World \in Worlds /\ Onward(World, World)
         /\ hs \in [Heroes -> HeroState] /\ \A h \in Heroes : Sound(hs[h])
  BY OnwardRefl DEF IInv, WorldOK, Worlds, World

\* The callbacks that only come and go.
LEMMA TimersStep ==
  ASSUME IInv, UNCHANGED <<mode, hs, slain, match>>, timers' \subseteq Timer,
         \A t \in timers' \ timers : t.kind # "swing" /\ t.seq <= hs[t.hero].attackSeq,
         \A t \in timers \ timers' :
           \/ hs[t.hero].closed \/ t.seq # hs[t.hero].attackSeq
           \/ t.kind = "done" /\ ~hs[t.hero].attackActionActive
           \/ t.kind \in {"hit", "release"}
  PROVE  IInv'
  <1>1. World' = World BY DEF World
  <1> QED BY <1>1, Basics, QuietStep

\* One hero changes, and no swing is due.
LEMMA HeroStep ==
  ASSUME IInv, NEW h \in Heroes, NEW y, Sound(y), Calmer(hs[h], y),
         hs' = [hs EXCEPT ![h] = y], UNCHANGED <<mode, slain, match>>,
         timers' \subseteq Timer,
         \A t \in timers' \ timers : t.kind # "swing" /\ t.seq <= hs[t.hero].attackSeq,
         \A t \in timers \ timers' :
           \/ hs'[t.hero].closed \/ t.seq # hs'[t.hero].attackSeq
           \/ t.kind = "done" /\ ~hs'[t.hero].attackActionActive
           \/ t.kind \in {"hit", "release"}
  PROVE  IInv'
  <1>1. World' = [World EXCEPT !.hs[h] = y] BY DEF World
  <1>2. Onward(World, World') BY <1>1, Basics, OneHero DEF World
  <1> QED BY <1>2, QuietStep

LEMMA SwingDroppedStep ==
  ASSUME IInv, NEW t \in timers, t.kind = "swing", SwingDropped(t)
  PROVE  IInv'
  <1>1. t.hero \in Heroes /\ t \in Timer BY DEF IInv, Timer
  <1>2. hs[t.hero].closed \/ t.seq # hs[t.hero].attackSeq
    <2>1. SUFFICES ASSUME ~hs[t.hero].closed, t.seq = hs[t.hero].attackSeq PROVE FALSE
      OBVIOUS
    <2>2. hs[t.hero].dead BY <1>1, <2>1, Basics DEF SwingDropped, SwingLive
    <2>3. Idle(hs[t.hero]) /\ LiveSwings(t.hero, hs[t.hero], timers) = Wanted(t.hero, hs[t.hero])
      BY <1>1, <2>1, <2>2 DEF IInv, Driven
    <2>4. t \in LiveSwings(t.hero, hs[t.hero], timers) BY <2>1 DEF LiveSwings
    <2> QED BY <2>3, <2>4 DEF Wanted, OrderOfState, Idle
  <1> QED BY <1>1, <1>2, TimersStep DEF SwingDropped, IInv

LEMMA SwingEndsStep ==
  ASSUME IInv, NEW t \in timers, t.kind = "swing", SwingEnds(t)
  PROVE  IInv'
  <1> DEFINE h == t.hero
             x == hs[h]
             y == OrderEnds(x, t.target)
  <1>1. /\ h \in Heroes /\ t \in Timer /\ t.target \in Units
        /\ ~x.closed /\ x.attackSeq = t.seq /\ Sound(x) /\ x \in HeroState
    BY Basics DEF IInv, Timer, SwingEnds, SwingLive
  <1>2. /\ LiveSwings(h, x, timers) = Wanted(h, x)
        /\ x.attackTarget = NoOne \/ x.pvpTarget = NoOne
    BY <1>1 DEF IInv, Driven
  <1>3. t.target \in OrderOfState(x)
    <2>1. t \in LiveSwings(h, x, timers) BY <1>1 DEF LiveSwings
    <2>2. PICK u \in OrderOfState(x) : t = SwingTimer(h, u, x.attackSeq)
      BY <1>2, <2>1 DEF Wanted
    <2> QED BY <2>2 DEF SwingTimer
  <1>4. /\ t.target \in Creatures => x.attackTarget = t.target /\ x.pvpTarget = NoOne
        /\ t.target \notin Creatures => x.pvpTarget = t.target /\ x.attackTarget = NoOne
    <2> HIDE DEF x
    <2> QED BY <1>1, <1>2, <1>3, FightAssumption DEF OrderOfState, Units, HeroState
  <1>5. /\ Sound(y) /\ Idle(y) /\ y.closed = x.closed /\ y.dead = x.dead
        /\ y.attackSeq = x.attackSeq + 1 /\ y.shown = 0
    <2>1. t.target # NoOne BY <1>1, FightAssumption DEF Units
    <2>2. CASE t.target \in Creatures
      <3> DEFINE v == StopAttack(x, FALSE)
      <3>1. /\ Sound(v) /\ v.attackTarget = NoOne /\ v.pvpTarget = x.pvpTarget
            /\ v.closed = x.closed /\ v.dead = x.dead
            /\ v = x \/ v.attackSeq = x.attackSeq + 1
            /\ v = x \/ v.shown = 0
        BY <1>1, StopsAloud
      <3>2. y = v BY <2>2 DEF OrderEnds
      <3> HIDE DEF v, y, x
      <3> QED BY <1>4, <2>1, <2>2, <3>1, <3>2 DEF Idle
    <2>3. CASE t.target \notin Creatures
      <3> DEFINE v == StopPvp(x, FALSE)
      <3>1. /\ Sound(v) /\ v.pvpTarget = NoOne /\ v.attackTarget = x.attackTarget
            /\ v.closed = x.closed /\ v.dead = x.dead
            /\ v = x \/ v.attackSeq = x.attackSeq + 1
            /\ v = x \/ v.shown = 0
        BY <1>1, StopsAloud
      <3>2. y = v BY <2>3 DEF OrderEnds
      <3> HIDE DEF v, y, x
      <3> QED BY <1>4, <2>1, <2>3, <3>1, <3>2 DEF Idle
    <2> QED BY <2>2, <2>3
  <1>6. Calmer(x, y)
    <2> HIDE DEF x, y
    <2> QED BY <1>1, <1>5 DEF Calmer, Steady, Fades, Up, HeroState
  <1>7. hs' = [hs EXCEPT ![h] = y] /\ timers' = timers \ {t} /\ UNCHANGED <<mode, slain, match>>
    BY DEF SwingEnds, Become, World
  <1>8. hs'[h].attackSeq # t.seq
    <2>1. hs'[h] = y BY <1>1, <1>7, Basics
    <2> HIDE DEF x, y
    <2> QED BY <1>1, <1>5, <2>1 DEF HeroState
  <1> HIDE DEF y
  <1> QED BY <1>1, <1>5, <1>6, <1>7, <1>8, HeroStep DEF IInv

LEMMA SwingStrikesStep ==
  ASSUME IInv, NEW t \in timers, t.kind = "swing", SwingStrikes(t)
  PROVE  IInv'
  <1> DEFINE h == t.hero
             x == hs[h]
             n == x.shown + 1
             y == [x EXCEPT !.attackActionActive = TRUE, !.shown = n]
  <1>1. /\ h \in Heroes /\ t \in Timer /\ x.attackSeq = t.seq /\ Up(x)
        /\ Sound(x) /\ x \in HeroState /\ Driven(h, x, timers) /\ Seen(h, x, timers)
    BY Basics DEF IInv, Timer, SwingStrikes, SwingLive, Up
  <1>2. ~t.committed /\ ~Idle(x)
    <2>1. t \in Wanted(h, x) BY <1>1 DEF Driven, LiveSwings, Up
    <2>2. PICK u \in OrderOfState(x) : t = SwingTimer(h, u, x.attackSeq) BY <2>1 DEF Wanted
    <2>3. ~t.committed
      <3>1. SwingTimer(h, u, x.attackSeq).committed = FALSE BY DEF SwingTimer
      <3> QED BY <2>2, <3>1
    <2> QED BY <2>2, <2>3 DEF OrderOfState, Idle
  <1>3. x.shown = 0
    <2>1. Closing(h, x, timers) = {} BY <1>1 DEF SwingStrikes, InSwing, Closing
    <2> QED BY <1>1, <2>1 DEF Seen, HeroState
  <1>4. /\ y \in HeroState /\ y.dead = x.dead /\ y.lastHeroDamager = x.lastHeroDamager
        /\ y.shown = 1 /\ y.attackActionActive /\ y.attackSeq = x.attackSeq
        /\ y.attackTarget = x.attackTarget /\ y.pvpTarget = x.pvpTarget /\ Steady(x, y)
    <2>1. n = 1 BY <1>3
    <2> HIDE DEF n, x
    <2>2. y \in HeroState BY <1>1, <2>1 DEF HeroState
    <2>3. Steady(x, y) BY <1>1 DEF HeroState, Steady, Up
    <2> QED BY <1>1, <2>1, <2>2, <2>3 DEF HeroState
  <1>5. hs' = [hs EXCEPT ![h] = y] /\ timers' = timers \cup Strike(t)
        /\ UNCHANGED <<mode, slain, match>>
    BY Basics DEF SwingStrikes, Become, World
  <1>6. \A s \in Strike(t) : s \in Timer /\ s.kind # "swing" /\ s.hero = h /\ s.seq = t.seq
    BY <1>1 DEF Strike, Timer
  <1>7. [t EXCEPT !.kind = "done"] \in Closing(h, y, timers')
    BY <1>1, <1>2, <1>4, <1>5 DEF Strike, Closing, Timer
  <1>8. x.attackSeq <= x.attackSeq BY <1>1 DEF HeroState
  <1> HIDE DEF y
  <1>9. \A k \in Heroes : hs'[k] = IF k = h THEN y ELSE hs[k] BY <1>5, Basics
  <1>10. WorldOK(World)' BY <1>1, <1>4, <1>5, <1>9, Basics DEF WorldOK, Worlds, World, Sound
  <1>11. \A k \in Heroes : Steady(hs[k], hs'[k])
    <2>1. \A k \in Heroes : Steady(hs[k], hs[k]) BY Basics DEF Onward, Calmer, World
    <2> QED BY <1>4, <1>9, <2>1
  <1>12. timers' \subseteq Timer BY <1>5, <1>6 DEF IInv
  <1>13. \A k \in Heroes : Driven(k, hs'[k], timers') /\ Past(k, hs'[k], timers')
    BY <1>1, <1>5, <1>6, <1>8, <1>10, <1>11, <1>12, DrivenStep
  <1>14. ASSUME NEW k \in Heroes PROVE Seen(k, hs'[k], timers')
    <2>1. CASE k = h BY <1>2, <1>4, <1>7, <1>9, <2>1 DEF Seen, Idle
    <2>2. CASE k # h
      <3>1. Closing(k, hs[k], timers) \subseteq Closing(k, hs[k], timers') BY <1>5 DEF Closing
      <3> QED BY <1>9, <2>2, <3>1 DEF IInv, Seen
    <2> QED BY <2>1, <2>2
  <1> QED BY <1>5, <1>10, <1>12, <1>13, <1>14 DEF IInv

LEMMA ReleaseStep ==
  ASSUME IInv, NEW t \in timers, t.kind = "release", Release(t)
  PROVE  IInv'
  <1>1. t \in Timer /\ t.hero \in Heroes BY DEF IInv, Timer
  <1>2. Bolt(t) \in Timer /\ Bolt(t).kind = "hit" /\ Bolt(t).seq = 0 /\ Bolt(t).hero = t.hero
    BY <1>1 DEF Bolt, Timer
  <1>3. hs[t.hero].attackSeq \in Nat BY <1>1, Basics DEF HeroState
  <1>4. 0 <= hs[t.hero].attackSeq BY <1>3
  <1> QED BY <1>1, <1>2, <1>4, TimersStep DEF Release, IInv

LEMMA HitStep ==
  ASSUME IInv, NEW t \in timers, t.kind = "hit", NEW lethal \in BOOLEAN, NEW thorns \in BOOLEAN,
         Hit(t, lethal, thorns)
  PROVE  IInv'
  <1> DEFINE w == Land(World, t.hero, t.target, lethal, thorns)
  <1>1. t \in Timer /\ t.hero \in Heroes /\ t.target \in Units BY DEF IInv, Timer
  <1>2. mode' = mode /\ timers' = timers \ {t} BY DEF Hit
  <1>3. CASE Lands(t) /\ Become(w)
    <2>1. hs[t.hero].attackTarget = NoOne \/ hs[t.hero].pvpTarget = NoOne
      BY <1>1, <1>3 DEF IInv, Driven, Lands
    <2>2. Onward(World, w)
      <3> World.hs = hs BY DEF World
      <3> QED BY <1>1, <2>1, Basics, LandOnward
    <2> HIDE DEF w
    <2>3. World' = w BY <1>3, <2>2, BecomesWorld DEF Onward, WorldOK
    <2> QED BY <1>2, <2>2, <2>3, QuietStep DEF IInv
  <1>4. CASE UNCHANGED <<hs, slain, match>> BY <1>2, <1>4, TimersStep DEF IInv
  <1> QED BY <1>3, <1>4 DEF Hit

LEMMA SwingDoneStep ==
  ASSUME IInv, NEW t \in timers, t.kind = "done", SwingDone(t)
  PROVE  IInv'
  <1> DEFINE x == hs[t.hero]
             y == [x EXCEPT !.attackActionActive = FALSE, !.shown = 0]
  <1>1. t.hero \in Heroes /\ x \in HeroState /\ Sound(x) BY Basics DEF IInv, Timer
  <1>2. timers' = timers \ {t} /\ UNCHANGED <<mode, slain, match>> BY DEF SwingDone
  <1>3. CASE UNCHANGED hs /\ (x.closed \/ x.attackSeq # t.seq \/ ~x.attackActionActive)
    BY <1>2, <1>3, TimersStep DEF IInv
  <1>4. CASE hs' = [hs EXCEPT ![t.hero].attackActionActive = FALSE, ![t.hero].shown = 0]
    <2>1. hs' = [hs EXCEPT ![t.hero] = y] BY <1>1, <1>4, Basics
    <2>3. ~y.attackActionActive BY <1>1 DEF HeroState
    <2>2. Sound(y) /\ Calmer(x, y)
      <3> HIDE DEF x
      <3>1. y \in HeroState /\ y.dead = x.dead /\ y.lastHeroDamager = x.lastHeroDamager
        BY <1>1 DEF HeroState
      <3>2. Calmer(x, y) BY <1>1 DEF Calmer, Steady, Fades, Up, HeroState
      <3> QED BY <1>1, <3>1, <3>2 DEF Sound
    <2> HIDE DEF y
    <2>4. hs'[t.hero] = y BY <1>1, <2>1, Basics
    <2> QED BY <1>1, <1>2, <2>1, <2>2, <2>3, <2>4, HeroStep DEF IInv
  <1> QED BY <1>3, <1>4 DEF SwingDone

LEMMA CreepHitStep ==
  ASSUME IInv, NEW v \in Heroes, NEW lethal \in BOOLEAN, CreepHit(v, lethal)
  PROVE  IInv'
  <1> DEFINE w == HitHero(World, v, NoOne, lethal, FALSE)
  <1>1. Onward(World, w) BY Basics, HitHeroOnward
  <1>2. Become(w) /\ mode' = mode /\ timers' = timers BY DEF CreepHit
  <1> HIDE DEF w
  <1>3. World' = w BY <1>1, <1>2, BecomesWorld DEF Onward, WorldOK
  <1> QED BY <1>1, <1>2, <1>3, QuietStep DEF IInv

LEMMA UnitFellsStep ==
  ASSUME IInv, NEW m \in Creatures, UnitFells(m)
  PROVE  IInv'
  <1> DEFINE v == [World EXCEPT !.slain = @ \cup {m}]
             w == IF m \in Altars THEN DotaEnd(v, 3 - Side[m]) ELSE v
  <1>1. Onward(World, v)
    <2>1. v \in Worlds /\ v.hs = World.hs BY Basics DEF Worlds
    <2> HIDE DEF v
    <2> QED BY <2>1, Basics, SameHeroes
  <1>2. Become(w) /\ mode' = mode /\ timers' = timers BY DEF UnitFells
  <1> HIDE DEF v
  <1>3. Onward(World, w)
    <2>1. ASSUME m \in Altars PROVE Onward(World, DotaEnd(v, 3 - Side[m]))
      <3>1. 3 - Side[m] \in Teams BY <2>1, FightAssumption DEF Teams
      <3>2. Onward(v, DotaEnd(v, 3 - Side[m])) BY <1>1, <3>1, DotaEndOnward DEF Onward
      <3> QED BY <1>1, <3>2, Basics, OnwardTrans
    <2> QED BY <1>1, <2>1
  <1> HIDE DEF w
  <1>4. World' = w BY <1>2, <1>3, BecomesWorld DEF Onward, WorldOK
  <1> QED BY <1>2, <1>3, <1>4, QuietStep DEF IInv

\* Between two swings a stun ends the order onto a mob, or nothing.
LEMMA StunStep ==
  ASSUME ~StunsMidSwing, IInv, NEW h \in Heroes, Stun(h)
  PROVE  IInv'
  <1> DEFINE x == hs[h]
             y == StopAttack(x, TRUE)
  <1>1. /\ x \in HeroState /\ Sound(x) /\ ~x.closed /\ ~x.attackActionActive
        /\ x.attackTarget = NoOne \/ x.pvpTarget = NoOne
        /\ x.shown = 0
    BY Basics DEF IInv, Driven, Stun, Seen, Up, HeroState
  <1>2. /\ Sound(y) /\ y.attackTarget = NoOne /\ y.pvpTarget = x.pvpTarget
        /\ y.closed = x.closed /\ y.dead = x.dead
        /\ y = x \/ y.attackSeq = x.attackSeq + 1
        /\ y = x \/ y.shown = 0 \/ y.shown = x.shown
    BY <1>1, StopAttackFacts
  <1>3. x.attackTarget = NoOne => y = x BY <1>1 DEF StopAttack
  <1>4. Calmer(x, y)
    <2> HIDE DEF x, y
    <2> QED BY <1>1, <1>2, <1>3 DEF Calmer, Steady, Fades, Up, Idle, HeroState
  <1>5. hs' = [hs EXCEPT ![h] = y] /\ UNCHANGED <<mode, slain, match, timers>> BY DEF Stun
  <1> HIDE DEF y
  <1> QED BY <1>2, <1>4, <1>5, HeroStep DEF IInv

LEMMA RespawnStep ==
  ASSUME IInv, NEW h \in Heroes, Respawn(h)
  PROVE  IInv'
  <1> DEFINE x == hs[h]
             y == [x EXCEPT !.dead = FALSE, !.shown = 0]
  <1>1. x \in HeroState BY Basics
  <1>2. Sound(y) /\ Calmer(x, y)
    <2> HIDE DEF x
    <2>1. y \in HeroState /\ ~y.dead BY <1>1 DEF HeroState
    <2>2. Calmer(x, y) BY <1>1 DEF Calmer, Steady, Fades, Up, HeroState
    <2> QED BY <2>1, <2>2 DEF Sound
  <1>3. hs' = [hs EXCEPT ![h] = y] /\ UNCHANGED <<mode, slain, match, timers>>
    BY Basics DEF Respawn
  <1> HIDE DEF y
  <1> QED BY <1>2, <1>3, HeroStep DEF IInv

LEMMA TagFadesStep ==
  ASSUME IInv, NEW h \in Heroes, TagFades(h)
  PROVE  IInv'
  <1> DEFINE x == hs[h]
             y == [x EXCEPT !.lastHeroDamager = NoOne]
  <1>1. x \in HeroState BY Basics
  <1>2. Sound(y) /\ Calmer(x, y)
    <2> HIDE DEF x
    <2>1. y \in HeroState /\ y.lastHeroDamager = NoOne BY <1>1 DEF HeroState
    <2>2. Calmer(x, y) BY <1>1 DEF Calmer, Steady, Fades, Up, HeroState
    <2> QED BY <2>1, <2>2 DEF Sound
  <1>3. hs' = [hs EXCEPT ![h] = y] /\ UNCHANGED <<mode, slain, match, timers>>
    BY Basics DEF TagFades
  <1> HIDE DEF y
  <1> QED BY <1>2, <1>3, HeroStep DEF IInv

LEMMA LeaveStep ==
  ASSUME IInv, NEW h \in Heroes, Leave(h)
  PROVE  IInv'
  <1> DEFINE x == hs[h]
             n == x.attackSeq + 1
             y == [x EXCEPT !.closed = TRUE, !.attackSeq = n]
             v == [World EXCEPT !.hs[h].closed = TRUE, !.hs[h].attackSeq = @ + 1]
             w == PublishLive(v)
  <1>1. x \in HeroState /\ Sound(x) BY Basics
  <1>2. Sound(y) /\ Calmer(x, y)
    <2>1. n \in Nat /\ n >= x.attackSeq BY <1>1 DEF HeroState
    <2> HIDE DEF x, n
    <2>2. /\ y \in HeroState /\ y.closed /\ y.dead = x.dead /\ y.attackSeq = n
          /\ y.lastHeroDamager = x.lastHeroDamager
      BY <1>1, <2>1 DEF HeroState
    <2>3. Calmer(x, y) BY <2>1, <2>2 DEF Calmer, Steady, Fades, Up
    <2> QED BY <1>1, <2>2, <2>3 DEF Sound
  <1>3. v = [World EXCEPT !.hs[h] = y] BY Basics DEF World
  <1>4. Onward(World, v)
    <2>1. World.hs[h] = x BY DEF World
    <2> HIDE DEF x, y, v
    <2> QED BY <1>2, <1>3, <2>1, Basics, OneHero
  <1>5. Onward(World, w)
    <2> HIDE DEF v
    <2>1. Onward(v, w) BY <1>4, PublishLiveOnward DEF Onward
    <2> QED BY <1>4, <2>1, Basics, OnwardTrans
  <1>6. Become(w) /\ mode' = mode /\ timers' = timers BY DEF Leave
  <1> HIDE DEF w
  <1>7. World' = w BY <1>5, <1>6, BecomesWorld DEF Onward, WorldOK
  <1> QED BY <1>5, <1>6, <1>7, QuietStep DEF IInv

-----------------------------------------------------------------------------
(***************************************************************************)
(* The invariant.                                                          *)
(***************************************************************************)
LEMMA InitIInv == FightInit => IInv
  <1> SUFFICES ASSUME FightInit PROVE IInv OBVIOUS
  <1>1. hs \in [Heroes -> HeroState]
    BY FightAssumption DEF FightInit, HeroState
  <1>2. match \in Match BY DEF FightInit, Match, Score
  <1>3. ASSUME NEW h \in Heroes
        PROVE  /\ Idle(hs[h]) /\ hs[h].lastHeroDamager = NoOne
    BY <1>3 DEF FightInit, Idle
  <1>4. ASSUME NEW h \in Heroes
        PROVE  /\ Driven(h, hs[h], timers) /\ Past(h, hs[h], timers)
               /\ Seen(h, hs[h], timers)
    <2>1. timers = {} BY DEF FightInit
    <2>2. OrderOfState(hs[h]) = {} BY <1>3 DEF OrderOfState, Idle
    <2>3. Wanted(h, hs[h]) = {} BY <2>2 DEF Wanted
    <2>4. LiveSwings(h, hs[h], timers) = {} BY <2>1 DEF LiveSwings
    <2>5. hs[h].shown = 0 BY DEF FightInit
    <2>6. Seen(h, hs[h], timers) BY <2>5 DEF Seen
    <2> QED BY <1>3, <2>1, <2>3, <2>4, <2>6 DEF Driven, Past, Idle
  <1>5. WorldOK(World)
    BY <1>1, <1>2, <1>3 DEF WorldOK, Worlds, World, Sound, FightInit
  <1> QED BY <1>4, <1>5 DEF IInv, FightInit

LEMMA NextIInv ==
  ASSUME ~StunsMidSwing, IInv, [FightNext]_fightVars
  PROVE  IInv'
  <1>1. CASE UNCHANGED fightVars BY <1>1, TimersStep DEF fightVars, IInv
  <1>2. ASSUME NEW t \in timers, Fire(t) PROVE IInv'
    <2>1. CASE t.kind = "swing" /\ Swing(t)
      BY <2>1, SwingDroppedStep, SwingEndsStep, SwingStrikesStep DEF Swing
    <2>2. CASE t.kind = "release" /\ Release(t) BY <2>2, ReleaseStep
    <2>3. CASE t.kind = "hit" /\ \E lethal, thorns \in BOOLEAN : Hit(t, lethal, thorns)
      BY <2>3, HitStep
    <2>4. CASE t.kind = "done" /\ SwingDone(t) BY <2>4, SwingDoneStep
    <2> QED BY <1>2, <2>1, <2>2, <2>3, <2>4 DEF Fire
  <1>3. ASSUME NEW h \in Heroes, NEW m \in Creatures, StartAttack(h, m) PROVE IInv'
    BY <1>3, StartAttackStep
  <1>4. ASSUME NEW h \in Heroes, NEW v \in Heroes, StartPvpAttack(h, v) PROVE IInv'
    BY <1>4, StartPvpAttackStep
  <1>5. ASSUME NEW h \in Heroes, Move(h) \/ Stun(h) \/ Respawn(h) \/ TagFades(h) \/ Leave(h)
        PROVE IInv'
    BY <1>5, MoveStep, StunStep, RespawnStep, TagFadesStep, LeaveStep
  <1>6. ASSUME NEW h \in Heroes, NEW lethal \in BOOLEAN, CreepHit(h, lethal) PROVE IInv'
    BY <1>6, CreepHitStep
  <1>7. ASSUME NEW m \in Creatures, UnitFells(m) PROVE IInv' BY <1>7, UnitFellsStep
  <1> QED BY <1>1, <1>2, <1>3, <1>4, <1>5, <1>6, <1>7 DEF FightNext

LEMMA Invariance == ASSUME ~StunsMidSwing PROVE FightSpec => []IInv
  <1>1. IInv /\ [FightNext]_fightVars => IInv' BY NextIInv
  <1> QED BY <1>1, InitIInv, PTL DEF FightSpec

\* The types hold, for any match.
THEOREM FightTypes == ASSUME ~StunsMidSwing PROVE FightSpec => []FightTypeOK
  <1>1. IInv => FightTypeOK BY DEF IInv, FightTypeOK, WorldOK, Worlds, World
  <1> QED BY <1>1, Invariance, PTL

\* An order and its one live timer go together, whatever timers are still under
\* way and however hits, reflected blows and the end of the match cut orders short.
THEOREM OrdersAreDriven == ASSUME ~StunsMidSwing PROVE FightSpec => []OrderDriven
  <1>1. IInv => OrderDriven
    <2> SUFFICES ASSUME IInv, NEW h \in Heroes, ~hs[h].closed
                 PROVE  /\ hs[h].dead => OrderOf(h) = {}
                        /\ Driving(h) = {SwingTimer(h, x, hs[h].attackSeq) : x \in OrderOf(h)}
                        /\ hs[h].attackTarget = NoOne \/ hs[h].pvpTarget = NoOne
      BY DEF OrderDriven
    <2>1. OrderOf(h) = OrderOfState(hs[h]) BY DEF OrderOf, OrderOfState
    <2>2. Driving(h) = LiveSwings(h, hs[h], timers) BY DEF Driving, LiveSwings
    <2>3. Driven(h, hs[h], timers) BY DEF IInv
    <2> QED BY <2>1, <2>2, <2>3 DEF Driven, Wanted, Idle, OrderOfState
  <1> QED BY <1>1, Invariance, PTL

\* No teammate is shown a swing while the last one is open, nor left with an open one
\* by a hero who lives and has no order: the silent stops come to the dead, or to
\* heroes between two swings.
THEOREM NoSwingLeftOpen == ASSUME ~StunsMidSwing PROVE FightSpec => []SwingsSeen
  <1>1. IInv => SwingsSeen
    <2> SUFFICES ASSUME IInv, NEW h \in Heroes
                 PROVE  /\ hs[h].shown <= 1
                        /\ hs[h].shown = 1 /\ ~hs[h].dead /\ ~hs[h].closed =>
                             hs[h].attackActionActive /\ OrderOf(h) # {}
      BY DEF SwingsSeen
    <2>1. Seen(h, hs[h], timers) BY DEF IInv
    <2> QED BY <2>1 DEF Seen, Up, Idle, OrderOf
  <1> QED BY <1>1, Invariance, PTL

\* Nobody lying dead is remembered as the victim of a hero's hit: the kill of his
\* next life is earned in his next life.
THEOREM TagsDieToo == ASSUME ~StunsMidSwing PROVE FightSpec => []TagsOfThisLife
  <1>1. IInv => TagsOfThisLife BY DEF IInv, WorldOK, World, Sound, TagsOfThisLife
  <1> QED BY <1>1, Invariance, PTL

-----------------------------------------------------------------------------
(***************************************************************************)
(* The result: once a match has ended, no operation touches it.            *)
(***************************************************************************)
Stands(w, z) == w.match.ended => z.match = w.match

LEMMA PublishLiveStands ==
  ASSUME NEW w, NEW z, WorldOK(z), z.match = w.match
  PROVE  Stands(w, PublishLive(z))
  BY DEF Stands, PublishLive

LEMMA CreditStands ==
  ASSUME NEW w, WorldOK(w), NEW k \in Heroes \cup {NoOne}
  PROVE  Stands(w, Credit(w, k))
  <1>1. CASE k = NoOne BY <1>1 DEF Credit, Stands
  <1>2. CASE k # NoOne
    <2> DEFINE z == [w EXCEPT !.hs[k].frags = @ + 1]
    <2>1. Onward(w, z) /\ z.match = w.match
      BY <1>2, FragOnward DEF WorldOK, Worlds
    <2> HIDE DEF z
    <2>2. Stands(w, PublishLive(z)) BY <2>1, PublishLiveStands DEF Onward
    <2> QED BY <1>2, <2>2 DEF Credit, DotaCredit, ArenaCredit, Stands, z
  <1> QED BY <1>1, <1>2

LEMMA PlayerDieStands ==
  ASSUME NEW w, WorldOK(w), NEW v \in Heroes
  PROVE  Stands(w, PlayerDie(w, v))
  <1> DEFINE w0 == [w EXCEPT !.hs[v] = Buried(@)]
             w1 == PublishLive(w0)
  <1>1. WorldOK(w0) /\ w0.match = w.match
    <2> DEFINE x == Buried(w.hs[v])
    <2>1. Sound(x) BY BuriedSound DEF WorldOK
    <2>2. w0 = [w EXCEPT !.hs[v] = x] BY DEF WorldOK, Worlds
    <2> HIDE DEF x, w0
    <2> QED BY <2>1, <2>2 DEF WorldOK, Worlds, Sound
  <1>2. Stands(w, w1) /\ WorldOK(w1)
    <2> HIDE DEF w0
    <2> QED BY <1>1, PublishLiveStands, PublishLiveOnward DEF Onward
  <1> HIDE DEF w1
  <1>3. [w1 EXCEPT !.hs[v] = StopBoth(@, TRUE)].match = w1.match BY <1>2 DEF WorldOK, Worlds
  <1>4. Stands(w, Die(w, v)) BY <1>2, <1>3 DEF Die, Stands, w1
  <1>5. [w EXCEPT !.hs[v].reviveReady = FALSE].match = w.match BY DEF WorldOK, Worlds
  <1> QED BY <1>4, <1>5 DEF PlayerDie, Stands

LEMMA BlowStands ==
  ASSUME NEW w, WorldOK(w), NEW v \in Heroes, NEW by \in Heroes \cup {NoOne},
         NEW lethal \in BOOLEAN
  PROVE  Stands(w, Blow(w, v, by, lethal))
  <1> DEFINE w1 == IF by = NoOne THEN w ELSE [w EXCEPT !.hs[v].lastHeroDamager = by]
             killer == IF by = NoOne THEN RecentDamager(w1, v) ELSE by
  <1>1. CASE w.hs[v].dead BY <1>1 DEF Blow, Stands
  <1>2. CASE ~w.hs[v].dead
    <2>1. Onward(w, w1)
      <3>1. Blow(w, v, by, FALSE) = w1 BY <1>2 DEF Blow
      <3> HIDE DEF w1
      <3> QED BY <3>1, BlowOnward
    <2>2. w1.match = w.match BY DEF WorldOK, Worlds
    <2>3. killer \in Heroes \cup {NoOne}
      <3> HIDE DEF w1
      <3> QED BY DEF RecentDamager, Present
    <2>4. Blow(w, v, by, lethal) = IF lethal THEN Credit(PlayerDie(w1, v), killer) ELSE w1
      BY <1>2 DEF Blow
    <2> HIDE DEF w1, killer
    <2> DEFINE w2 == PlayerDie(w1, v)
    <2>5. Stands(w1, w2) /\ WorldOK(w2)
      BY <2>1, PlayerDieStands, PlayerDieOnward DEF Onward
    <2> HIDE DEF w2
    <2>6. Stands(w2, Credit(w2, killer)) BY <2>3, <2>5, CreditStands
    <2> QED BY <2>2, <2>4, <2>5, <2>6 DEF Stands, w2
  <1> QED BY <1>1, <1>2

LEMMA HitHeroStands ==
  ASSUME NEW w, WorldOK(w), NEW v \in Heroes, NEW by \in Heroes \cup {NoOne},
         NEW lethal \in BOOLEAN, NEW thorns \in BOOLEAN
  PROVE  Stands(w, HitHero(w, v, by, lethal, thorns))
  <1> DEFINE w1 == IF Reflects(v, by) /\ ~w.hs[v].dead THEN Blow(w, by, v, thorns) ELSE w
  <1>1. WorldOK(w1) /\ Stands(w, w1)
    BY BlowOnward, BlowStands DEF Reflects, Stands, Onward
  <1> HIDE DEF w1
  <1>2. Stands(w1, Blow(w1, v, by, lethal)) BY <1>1, BlowStands
  <1> QED BY <1>1, <1>2 DEF HitHero, Stands, w1

LEMMA SlayMobStands ==
  ASSUME NEW w, WorldOK(w), NEW h \in Heroes, NEW m \in Creatures
  PROVE  Stands(w, SlayMob(w, h, m))
  <1> DEFINE w1 == [w EXCEPT !.slain = @ \cup {m},
                      !.hs[h] = IF @.attackTarget = m THEN StopAttack(@, FALSE) ELSE @]
  <1>1. w1.match = w.match BY DEF WorldOK, Worlds
  <1> HIDE DEF w1
  <1> QED BY <1>1 DEF SlayMob, DotaEnd, Stands, w1

\* Whatever still flies, dies or leaves when a match has ended, the winner, the
\* final scoreboard and the ratings settled with it stay as they are.
THEOREM ResultIsFinal == ASSUME ~StunsMidSwing PROVE FightSpec => ResultStands
  <1>1. IInv /\ [FightNext]_fightVars => [match.ended => match' = match]_fightVars
    <2> SUFFICES ASSUME IInv, FightNext, match.ended PROVE match' = match
      BY DEF fightVars
    <2>1. World.match = match /\ WorldOK(World) BY Basics DEF World
    <2>2. ASSUME NEW w, Become(w), Stands(World, w) PROVE match' = match
      BY <2>1, <2>2 DEF Stands, Become
    <2>3. ASSUME NEW t \in timers, Fire(t) PROVE match' = match
      <3>1. t \in Timer /\ t.hero \in Heroes /\ t.target \in Units BY DEF IInv, Timer
      <3>2. CASE t.kind = "swing" /\ Swing(t)
        BY <3>2 DEF Swing, SwingDropped, SwingEnds, SwingStrikes, Become, World
      <3>3. CASE t.kind = "release" /\ Release(t) BY <3>3 DEF Release
      <3>4. CASE t.kind = "done" /\ SwingDone(t) BY <3>4 DEF SwingDone
      <3>5. ASSUME NEW lethal \in BOOLEAN, NEW thorns \in BOOLEAN, Hit(t, lethal, thorns)
            PROVE match' = match
        <4>1. Stands(World, Land(World, t.hero, t.target, lethal, thorns))
          BY <2>1, <3>1, HitHeroStands, SlayMobStands DEF Land, Units, Stands
        <4> QED BY <2>2, <3>5, <4>1 DEF Hit
      <3> QED BY <2>3, <3>2, <3>3, <3>4, <3>5 DEF Fire
    <2>4. ASSUME NEW h \in Heroes, NEW m \in Creatures, StartAttack(h, m) PROVE match' = match
      BY <2>4 DEF StartAttack, Ordered, Become, World
    <2>5. ASSUME NEW h \in Heroes, NEW v \in Heroes, StartPvpAttack(h, v) PROVE match' = match
      BY <2>5 DEF StartPvpAttack, Ordered, Become, World
    <2>6. ASSUME NEW h \in Heroes, Move(h) \/ Stun(h) \/ Respawn(h) \/ TagFades(h)
          PROVE match' = match
      BY <2>6 DEF Move, Stun, Respawn, TagFades, Become, World
    <2>7. ASSUME NEW h \in Heroes, Leave(h) PROVE match' = match
      <3> DEFINE v == [World EXCEPT !.hs[h].closed = TRUE, !.hs[h].attackSeq = @ + 1]
      <3>1. v.match = match BY DEF World
      <3>2. Become(PublishLive(v)) BY <2>7 DEF Leave
      <3> HIDE DEF v
      <3> QED BY <3>1, <3>2 DEF PublishLive, Become
    <2>8. ASSUME NEW h \in Heroes, NEW lethal \in BOOLEAN, CreepHit(h, lethal)
          PROVE match' = match
      <3>1. Stands(World, HitHero(World, h, NoOne, lethal, FALSE)) BY <2>1, HitHeroStands
      <3> QED BY <2>2, <2>8, <3>1 DEF CreepHit
    <2>9. ASSUME NEW m \in Creatures, UnitFells(m) PROVE match' = match
      <3> DEFINE v == [World EXCEPT !.slain = @ \cup {m}]
      <3>1. v.match = match BY DEF World
      <3>2. Become(IF m \in Altars THEN DotaEnd(v, 3 - Side[m]) ELSE v) BY <2>9 DEF UnitFells
      <3> HIDE DEF v
      <3> QED BY <3>1, <3>2 DEF DotaEnd, Become
    <2> QED BY <2>3, <2>4, <2>5, <2>6, <2>7, <2>8, <2>9 DEF FightNext
  <1> QED BY <1>1, Invariance, PTL DEF FightSpec, ResultStands

-----------------------------------------------------------------------------
(***************************************************************************)
(* The frag that decides an arena match: the frags of the teams change by  *)
(* kill credit alone, which stops with the one that reaches the limit.     *)
(***************************************************************************)
Counted(m) ==
  /\ m.ended <=> \E t \in Teams : m.frags[t] >= FragLimit
  /\ \A t \in Teams : m.frags[t] <= FragLimit
  /\ m.ended => m.winner \in Teams /\ m.frags[m.winner] = FragLimit

\* An arena has no mobs, so nobody is on his way to strike one.
Duels == \A t \in timers : t.target \in Heroes

ArenaInv == mode = "arena" => Counted(match) /\ Duels

LEMMA LastFrag ==
  ASSUME NEW m \in Match, Counted(m), ~m.ended, NEW team \in Teams, NEW n \in Match,
         n.frags = [m.frags EXCEPT ![team] = @ + 1],
         n.ended <=> n.frags[team] >= FragLimit,
         n.ended => n.winner = team
  PROVE  Counted(n)
  <1>1. /\ m.frags \in [Teams -> Nat] /\ FragLimit \in Nat
        /\ \A t \in Teams : m.frags[t] < FragLimit
    BY FightAssumption DEF Match, Counted
  <1>2. \A t \in Teams : n.frags[t] = IF t = team THEN m.frags[t] + 1 ELSE m.frags[t]
    BY <1>1
  <1>3. \A t \in Teams : n.frags[t] <= FragLimit /\ (t # team => n.frags[t] < FragLimit)
    BY <1>1, <1>2
  <1>4. n.frags[team] \in Nat BY <1>1, <1>2
  <1> QED BY <1>1, <1>2, <1>3, <1>4 DEF Counted

LEMMA CreditCounts ==
  ASSUME mode = "arena", NEW w, WorldOK(w), NEW k \in Heroes \cup {NoOne}, Counted(w.match)
  PROVE  Counted(Credit(w, k).match)
  <1>1. CASE k = NoOne \/ w.match.ended BY <1>1 DEF Credit, ArenaCredit
  <1>2. CASE k # NoOne /\ ~w.match.ended
    <2> DEFINE team == Side[k]
               v == [w EXCEPT !.hs[k].frags = @ + 1, !.match.frags[team] = @ + 1]
               n == v.match
    <2>1. k \in Heroes /\ team \in Teams BY <1>2, FightAssumption DEF Teams
    <2>2. w \in Worlds /\ w.match \in Match BY DEF WorldOK, Worlds
    <2>3. n = [w.match EXCEPT !.frags[team] = @ + 1] BY <2>2 DEF Worlds
    <2>4. /\ n.frags = [w.match.frags EXCEPT ![team] = @ + 1] /\ n.ended = FALSE
          /\ n \in Match
      BY <1>2, <2>1, <2>2, <2>3 DEF Match
    <2>5. Credit(w, k) = IF n.frags[team] >= FragLimit THEN ArenaEnd(v, team) ELSE v
      BY <1>2 DEF Credit, ArenaCredit, ArenaScored
    <2>6. v \in Worlds /\ WorldOK(v)
      <3> DEFINE u == [w EXCEPT !.hs[k].frags = @ + 1]
      <3>1. WorldOK(u) BY <2>1, FragOnward DEF Onward
      <3>2. v.hs = u.hs /\ v.slain = u.slain /\ v = [u EXCEPT !.match = n]
        BY <2>2 DEF Worlds
      <3> HIDE DEF u, n
      <3> QED BY <2>4, <3>1, <3>2, NewMatch DEF Onward, WorldOK
    <2> HIDE DEF v
    <2>7. CASE n.frags[team] < FragLimit
      BY <2>1, <2>2, <2>4, <2>5, <2>7, <1>2, LastFrag, FightAssumption DEF Match
    <2>8. CASE n.frags[team] >= FragLimit
      <3> DEFINE z == Latch(v, team)
                 e == Settle(z)
      <3>1. Credit(w, k) = e BY <2>4, <2>5, <2>8 DEF ArenaEnd
      <3>2. /\ z \in Worlds /\ WorldOK(z) /\ z.match.ended = TRUE /\ z.match.winner = team
            /\ z.match.frags = n.frags
        <4>1. WorldOK(z) BY <2>1, <2>6, LatchOnward DEF Onward
        <4>2. z.match = [n EXCEPT !.ended = TRUE, !.winner = team] BY <2>6 DEF Latch, Worlds
        <4> QED BY <2>4, <4>1, <4>2 DEF WorldOK, Match
      <3> HIDE DEF z, n
      <3>3. /\ e.match.ended = z.match.ended /\ e.match.winner = z.match.winner
            /\ e.match.frags = z.match.frags
        BY <3>2 DEF Settle, Worlds, Match
      <3>4. e.match \in Match BY <3>2, SettleOnward DEF Onward, WorldOK, Worlds
      <3> HIDE DEF e
      <3> QED BY <1>2, <2>1, <2>2, <2>4, <2>8, <3>1, <3>2, <3>3, <3>4, LastFrag
    <2>9. n.frags[team] \in Nat BY <2>1, <2>4 DEF Match
    <2> QED BY <2>7, <2>8, <2>9, FightAssumption
  <1> QED BY <1>1, <1>2

LEMMA PlayerDieCounts ==
  ASSUME mode = "arena", NEW w, WorldOK(w), NEW v \in Heroes
  PROVE  PlayerDie(w, v).match = w.match
  BY DEF PlayerDie, Die, PublishLive, WorldOK, Worlds

LEMMA BlowCounts ==
  ASSUME mode = "arena", NEW w, WorldOK(w), NEW v \in Heroes, NEW by \in Heroes \cup {NoOne},
         NEW lethal \in BOOLEAN, Counted(w.match)
  PROVE  Counted(Blow(w, v, by, lethal).match)
  <1> DEFINE w1 == IF by = NoOne THEN w ELSE [w EXCEPT !.hs[v].lastHeroDamager = by]
             killer == IF by = NoOne THEN RecentDamager(w1, v) ELSE by
  <1>1. CASE w.hs[v].dead BY <1>1 DEF Blow
  <1>2. CASE ~w.hs[v].dead
    <2>1. Onward(w, w1)
      <3>1. Blow(w, v, by, FALSE) = w1 BY <1>2 DEF Blow
      <3> HIDE DEF w1
      <3> QED BY <3>1, BlowOnward
    <2>2. w1.match = w.match BY DEF WorldOK, Worlds
    <2>3. killer \in Heroes \cup {NoOne}
      <3> HIDE DEF w1
      <3> QED BY DEF RecentDamager, Present
    <2>4. Blow(w, v, by, lethal) = IF lethal THEN Credit(PlayerDie(w1, v), killer) ELSE w1
      BY <1>2 DEF Blow
    <2> HIDE DEF w1, killer
    <2> DEFINE w2 == PlayerDie(w1, v)
    <2>5. w2.match = w1.match /\ WorldOK(w2)
      BY <2>1, PlayerDieCounts, PlayerDieOnward DEF Onward
    <2> HIDE DEF w2
    <2>6. Counted(Credit(w2, killer).match) BY <2>2, <2>3, <2>5, CreditCounts
    <2> QED BY <2>2, <2>4, <2>6 DEF w2
  <1> QED BY <1>1, <1>2

LEMMA HitHeroCounts ==
  ASSUME mode = "arena", NEW w, WorldOK(w), NEW v \in Heroes, NEW by \in Heroes,
         NEW lethal \in BOOLEAN, NEW thorns \in BOOLEAN, Counted(w.match)
  PROVE  Counted(HitHero(w, v, by, lethal, thorns).match)
  <1> DEFINE w1 == IF Reflects(v, by) /\ ~w.hs[v].dead THEN Blow(w, by, v, thorns) ELSE w
  <1>1. WorldOK(w1) /\ Counted(w1.match) BY BlowOnward, BlowCounts DEF Onward
  <1> HIDE DEF w1
  <1>2. Counted(Blow(w1, v, by, lethal).match) BY <1>1, BlowCounts
  <1> QED BY <1>2 DEF HitHero, w1

LEMMA InitArena == FightInit => ArenaInv
  BY FightAssumption DEF FightInit, ArenaInv, Counted, Duels, Teams

LEMMA FireArena ==
  ASSUME IInv, mode = "arena", Counted(match), Duels, NEW t \in timers, Fire(t)
  PROVE  Counted(match)' /\ Duels'
  <1>1. World.match = match /\ WorldOK(World) BY Basics DEF World
  <1>2. t \in Timer /\ t.hero \in Heroes /\ t.target \in Heroes BY DEF IInv, Timer, Duels
  <1>3. CASE t.kind = "swing" /\ Swing(t)
    <2>1. match' = match
      BY <1>3 DEF Swing, SwingDropped, SwingEnds, SwingStrikes, Become, World
    <2>2. \A u \in Strike(t) : u.target = t.target BY <1>2 DEF Strike, Timer
    <2>3. Duels'
      BY <1>2, <1>3, <2>2 DEF Swing, SwingDropped, SwingEnds, SwingStrikes, Duels
    <2> QED BY <2>1, <2>3
  <1>4. CASE t.kind = "release" /\ Release(t)
    <2>1. Bolt(t).target = t.target BY <1>2 DEF Bolt, Timer
    <2> QED BY <1>2, <1>4, <2>1 DEF Release, Duels
  <1>5. CASE t.kind = "done" /\ SwingDone(t) BY <1>5 DEF SwingDone, Duels
  <1>6. ASSUME NEW lethal \in BOOLEAN, NEW thorns \in BOOLEAN, Hit(t, lethal, thorns)
        PROVE Counted(match)' /\ Duels'
    <2>1. Counted(Land(World, t.hero, t.target, lethal, thorns).match)
      BY <1>1, <1>2, HitHeroCounts DEF Land
    <2> QED BY <1>6, <2>1 DEF Hit, Become, Duels
  <1> QED BY <1>3, <1>4, <1>5, <1>6 DEF Fire

LEMMA NextArena ==
  ASSUME IInv, ArenaInv, [FightNext]_fightVars
  PROVE  ArenaInv'
  <1> SUFFICES ASSUME mode' = "arena" PROVE Counted(match)' /\ Duels' BY DEF ArenaInv
  <1>1. CASE UNCHANGED fightVars BY <1>1 DEF fightVars, ArenaInv, Duels
  <1>2. ASSUME NEW t \in timers, Fire(t) PROVE Counted(match)' /\ Duels'
    <2>1. mode' = mode
      BY <1>2 DEF Fire, Swing, SwingDropped, SwingEnds, SwingStrikes, Release, SwingDone, Hit
    <2> QED BY <1>2, <2>1, FireArena DEF ArenaInv
  <1>3. ASSUME NEW h \in Heroes, NEW m \in Creatures, StartAttack(h, m)
        PROVE Counted(match)' /\ Duels'
    BY <1>3 DEF StartAttack, Ordered
  <1>4. ASSUME NEW h \in Heroes, NEW v \in Heroes, StartPvpAttack(h, v)
        PROVE Counted(match)' /\ Duels'
    <2>1. match' = match /\ mode' = mode BY <1>4 DEF StartPvpAttack, Ordered, Become, World
    <2>2. PICK s : timers' = timers \cup {SwingTimer(h, v, s)}
      BY <1>4 DEF StartPvpAttack, Ordered
    <2>3. SwingTimer(h, v, s).target = v BY DEF SwingTimer
    <2> QED BY <2>1, <2>2, <2>3 DEF ArenaInv, Duels
  <1>5. ASSUME NEW h \in Heroes, Move(h) \/ Stun(h) \/ Respawn(h) \/ TagFades(h)
        PROVE Counted(match)' /\ Duels'
    <2>1. match' = match /\ mode' = mode /\ timers' = timers
      BY <1>5 DEF Move, Stun, Respawn, TagFades, Become, World
    <2> QED BY <2>1 DEF ArenaInv, Duels
  <1>6. ASSUME NEW h \in Heroes, Leave(h) PROVE Counted(match)' /\ Duels'
    <2> DEFINE v == [World EXCEPT !.hs[h].closed = TRUE, !.hs[h].attackSeq = @ + 1]
    <2>1. v.match = match BY DEF World
    <2>2. Become(PublishLive(v)) /\ mode' = mode /\ timers' = timers BY <1>6 DEF Leave
    <2> HIDE DEF v
    <2>3. match' = match BY <2>1, <2>2 DEF PublishLive, Become
    <2> QED BY <2>2, <2>3 DEF ArenaInv, Duels
  <1>7. ASSUME NEW h \in Heroes, NEW lethal \in BOOLEAN, CreepHit(h, lethal)
        PROVE Counted(match)' /\ Duels'
    BY <1>7 DEF CreepHit
  <1>8. ASSUME NEW m \in Creatures, UnitFells(m) PROVE Counted(match)' /\ Duels'
    BY <1>8 DEF UnitFells
  <1> QED BY <1>1, <1>2, <1>3, <1>4, <1>5, <1>6, <1>7, <1>8 DEF FightNext

\* An arena match ends with the frag that brings a team to the limit, for that team,
\* whatever reflected blows, arrows in flight and deaths of one moment come after it.
THEOREM LastFragDecides == ASSUME ~StunsMidSwing PROVE FightSpec => []ArenaDecided
  <1>1. IInv /\ ArenaInv /\ [FightNext]_fightVars => ArenaInv' BY NextArena
  <1>2. ArenaInv => ArenaDecided BY DEF ArenaInv, Counted, ArenaDecided
  <1> QED BY <1>1, <1>2, InitArena, Invariance, PTL DEF FightSpec

-----------------------------------------------------------------------------
(***************************************************************************)
(* The skills of one hero: how often a skill occurs in a queue.            *)
(***************************************************************************)
\* How often s occurs in a queue.
Count(q, s) == Cardinality(Are(q, s))

\* An empty queue.
LEMMA CountEmpty == ASSUME NEW s PROVE Count(<<>>, s) = 0
  <1>1. Are(<<>>, s) = {} BY DEF Are
  <1> QED BY <1>1, FS_EmptySet DEF Count

\* Of a queue, the entries of a skill are finitely many.
LEMMA CountNat ==
  ASSUME NEW T, NEW q \in Seq(T), NEW s
  PROVE  Are(q, s) \subseteq 1..Len(q) /\ IsFiniteSet(Are(q, s)) /\ Count(q, s) \in Nat
  <1>1. Are(q, s) \subseteq 1..Len(q) BY DEF Are
  <1>2. IsFiniteSet(1..Len(q)) BY FS_Interval
  <1>3. IsFiniteSet(Are(q, s)) BY <1>1, <1>2, FS_Subset
  <1> QED BY <1>1, <1>3, FS_CardinalityType DEF Count

\* One more entry counts if it is of that skill.
LEMMA CountAppend ==
  ASSUME NEW T, NEW q \in Seq(T), NEW e \in T, NEW s
  PROVE  Count(Append(q, e), s) = Count(q, s) + (IF e.slot = s THEN 1 ELSE 0)
  <1> DEFINE p == Append(q, e)
             n == Len(q) + 1
  <1>1. p \in Seq(T) /\ Len(p) = n /\ p[n] = e /\ \A i \in 1..Len(q) : p[i] = q[i] OBVIOUS
  <1>2. DOMAIN p = 1..n /\ DOMAIN q = 1..Len(q) /\ n \notin DOMAIN q /\ Len(q) \in Nat BY <1>1
  <1> HIDE DEF p
  <1>3. CASE e.slot = s
    <2>1. Are(p, s) = Are(q, s) \cup {n}
      <3> HIDE DEF n
      <3>1. \A i \in 1..n : i \in 1..Len(q) \/ i = n BY DEF n
      <3>2. n \in 1..n /\ 1..Len(q) \subseteq 1..n BY DEF n
      <3> QED BY <1>1, <1>2, <1>3, <3>1, <3>2 DEF Are
    <2>2. n \notin Are(q, s) BY <1>2 DEF Are
    <2>3. IsFiniteSet(Are(q, s)) BY CountNat
    <2> QED BY <1>3, <2>1, <2>2, <2>3, FS_AddElement DEF Count, p
  <1>4. CASE e.slot # s
    <2>1. Are(p, s) = Are(q, s)
      <3> HIDE DEF n
      <3>1. \A i \in 1..n : i \in 1..Len(q) \/ i = n BY DEF n
      <3>2. n \in 1..n /\ 1..Len(q) \subseteq 1..n BY DEF n
      <3> QED BY <1>1, <1>2, <1>4, <3>1, <3>2 DEF Are
    <2>2. Count(q, s) \in Nat BY CountNat
    <2> QED BY <1>4, <2>1, <2>2 DEF Count, p
  <1> QED BY <1>3, <1>4

\* What two queues hold together.
LEMMA CountConcat ==
  ASSUME NEW T, NEW p \in Seq(T), NEW q \in Seq(T), NEW s
  PROVE  Count(p \o q, s) = Count(p, s) + Count(q, s)
  <1> DEFINE r == p \o q
             m == Len(p)
             A == Are(p, s)
             B == Are(q, s)
             C == {i + m : i \in B}
  <1>1. /\ r \in Seq(T) /\ Len(r) = m + Len(q) /\ m \in Nat /\ Len(q) \in Nat
        /\ \A i \in 1..m : r[i] = p[i]
        /\ \A i \in 1..Len(q) : r[i + m] = q[i]
    OBVIOUS
  <1>2. DOMAIN r = 1..(m + Len(q)) /\ DOMAIN p = 1..m /\ DOMAIN q = 1..Len(q) BY <1>1
  <1>3. /\ A \subseteq 1..m /\ IsFiniteSet(A) /\ Cardinality(A) \in Nat
        /\ B \subseteq 1..Len(q) /\ IsFiniteSet(B) /\ Cardinality(B) \in Nat
    BY CountNat DEF Count
  <1> HIDE DEF r, m
  <1>4. Are(r, s) = A \cup C
    <2>1. ASSUME NEW i \in Are(r, s) PROVE i \in A \cup C
      <3>1. i \in 1..(m + Len(q)) /\ r[i].slot = s BY <1>2 DEF Are
      <3>2. CASE i <= m
        <4>1. i \in 1..m BY <1>1, <3>1, <3>2
        <4> QED BY <1>1, <1>2, <3>1, <4>1 DEF Are
      <3>3. CASE i > m
        <4>1. i - m \in 1..Len(q) /\ (i - m) + m = i BY <1>1, <3>1, <3>3
        <4>2. i - m \in B BY <1>1, <1>2, <3>1, <4>1 DEF Are
        <4> QED BY <4>1, <4>2
      <3> QED BY <1>1, <3>1, <3>2, <3>3
    <2>2. ASSUME NEW i \in A PROVE i \in Are(r, s)
      <3>1. i \in 1..m /\ p[i].slot = s BY <1>2 DEF Are
      <3>2. i \in 1..(m + Len(q)) BY <1>1, <3>1
      <3> QED BY <1>1, <1>2, <3>1, <3>2 DEF Are
    <2>3. ASSUME NEW i \in B PROVE i + m \in Are(r, s)
      <3>1. i \in 1..Len(q) /\ q[i].slot = s BY <1>2 DEF Are
      <3>2. i + m \in 1..(m + Len(q)) BY <1>1, <3>1
      <3> QED BY <1>1, <1>2, <3>1, <3>2 DEF Are
    <2> QED BY <2>1, <2>2, <2>3
  <1>5. A \cap C = {}
    <2>1. \A i \in B : i + m \notin 1..m BY <1>1, <1>3
    <2> QED BY <1>3, <2>1
  <1>6. IsFiniteSet(C) /\ Cardinality(C) = Cardinality(B)
    <2> DEFINE f == [i \in B |-> i + m]
    <2>1. f \in Bijection(B, C)
      <3>1. f \in Surjection(B, C) BY DEF Surjection
      <3>2. f \in Injection(B, C)
        <4>1. \A a, b \in B : a + m = b + m => a = b BY <1>1, <1>3
        <4> QED BY <4>1 DEF Injection, IsInjective
      <3> QED BY <3>1, <3>2 DEF Bijection
    <2> HIDE DEF f
    <2> QED BY <1>3, <2>1, FS_Bijection DEF ExistsBijection
  <1>7. Cardinality(A \cup C) = Cardinality(A) + Cardinality(C) - Cardinality(A \cap C)
    BY <1>3, <1>6, FS_Union
  <1>8. Cardinality(A \cap C) = 0 BY <1>5, FS_EmptySet
  <1> QED BY <1>3, <1>4, <1>6, <1>7, <1>8 DEF Count, r

-----------------------------------------------------------------------------
(***************************************************************************)
(* The loops.                                                              *)
(***************************************************************************)
\* f is a run of n steps g from b.
Run(f, b, n, g) == f[0] = b /\ \A i \in 1..n : f[i] = g[<<f[i-1], i>>]

\* A step that stays within V can be taken N times from any b of V.
LEMMA Iterates ==
  ASSUME NEW V, NEW b \in V, NEW N \in Nat, NEW g \in [V \X (1..N) -> V]
  PROVE  \E f \in [0..N -> V] : Run(f, b, N, g)
  <1> USE DEF Run
  <1> DEFINE S == {n \in 0..N : \E f \in [0..n -> V] : Run(f, b, n, g)}
  <1>1. 0 \in S
    <2> DEFINE one == [i \in 0..0 |-> b]
    <2>1. one \in [0..0 -> V] /\ Run(one, b, 0, g) OBVIOUS
    <2>2. 0 \in 0..N OBVIOUS
    <2> HIDE DEF one
    <2> HIDE DEF Run
    <2> QED BY <2>1, <2>2
  <1>2. ASSUME NEW n \in S, n < N PROVE n + 1 \in S
    <2>1. PICK f \in [0..n -> V] : Run(f, b, n, g) OBVIOUS
    <2> DEFINE h == [i \in 0..(n+1) |-> IF i <= n THEN f[i] ELSE g[<<f[n], n + 1>>]]
    <2>2. n \in 0..N /\ n + 1 \in 1..N /\ n + 1 \in 0..N BY <1>2
    <2>3. f[n] \in V /\ g[<<f[n], n + 1>>] \in V BY <2>2
    <2>4. h \in [0..(n+1) -> V] BY <2>2, <2>3
    <2>5. (\A i \in 0..n : h[i] = f[i]) /\ h[n+1] = g[<<f[n], n + 1>>] BY <2>2
    <2> HIDE DEF h
    <2>6. ASSUME NEW i \in 1..(n+1) PROVE h[i] = g[<<h[i-1], i>>]
      <3>1. CASE i \in 1..n
        <4>1. i \in 0..n /\ i - 1 \in 0..n BY <2>2, <3>1
        <4>2. f[i] = g[<<f[i-1], i>>] BY <2>1, <3>1
        <4> QED BY <2>5, <4>1, <4>2
      <3>2. CASE i = n + 1
        <4>1. i - 1 = n /\ n \in 0..n BY <2>2, <3>2
        <4> QED BY <2>5, <3>2, <4>1
      <3> QED BY <2>2, <3>1, <3>2
    <2>7. 0 \in 0..n BY <2>2
    <2>8. Run(h, b, n + 1, g) BY <2>1, <2>5, <2>6, <2>7
    <2> QED BY <2>2, <2>4, <2>8
  <1>3. 0..N \subseteq S
    <2>1. S \in SUBSET Nat OBVIOUS
    <2>2. \A n \in S : n < N => n + 1 \in S BY <1>2
    <2> HIDE DEF S
    <2> QED BY <1>1, <2>1, <2>2, Induction
  <1>4. N \in S BY <1>3
  <1> QED BY <1>4

\* f holds what of q was marked d after each step of the loop.
MarkLoop(q, d, f) ==
  f = [i \in 0..Len(q) |-> IF i = 0 THEN <<>>
                           ELSE IF q[i].due = d THEN Append(f[i-1], q[i]) ELSE f[i-1]]

MarkedOf(q, s, d, n) == {i \in 1..n : q[i].slot = s /\ q[i].due = d}

\* What the loop keeps of a queue are entries so marked, as many of a skill as there were.
LEMMA MarkedKeeps ==
  ASSUME NEW T, NEW q \in Seq(T), NEW d
  PROVE  /\ Marked(q, d) \in Seq({e \in T : e.due = d})
         /\ \A s : Count(Marked(q, d), s) = Cardinality(MarkedOf(q, s, d, Len(q)))
  <1> DEFINE out == CHOOSE f : MarkLoop(q, d, f)
             U == {e \in T : e.due = d}
             N == Len(q)
  <1>0. N \in Nat /\ \A i \in 1..N : q[i] \in T OBVIOUS
  <1>1. Marked(q, d) = out[Len(q)] BY DEF Marked, MarkLoop
  <1>2. \E f : MarkLoop(q, d, f)
    <2> DEFINE g == [x \in Seq(T) \X (1..N) |->
                       IF q[x[2]].due = d THEN Append(x[1], q[x[2]]) ELSE x[1]]
    <2>1. g \in [Seq(T) \X (1..N) -> Seq(T)] BY <1>0
    <2>2. <<>> \in Seq(T) OBVIOUS
    <2>3. \A v \in Seq(T), i \in 1..N :
             g[<<v, i>>] = IF q[i].due = d THEN Append(v, q[i]) ELSE v
      OBVIOUS
    <2>4. PICK f \in [0..N -> Seq(T)] : f[0] = <<>> /\ \A i \in 1..N : f[i] = g[<<f[i-1], i>>]
      <3>1. N \in Nat BY <1>0
      <3> HIDE DEF g, N
      <3>2. \E f \in [0..N -> Seq(T)] : Run(f, <<>>, N, g) BY <2>1, <2>2, <3>1, Iterates
      <3> QED BY <3>2 DEF Run
    <2> HIDE DEF g
    <2>5. ASSUME NEW i \in 1..N PROVE f[i] = IF q[i].due = d THEN Append(f[i-1], q[i]) ELSE f[i-1]
      <3>1. i - 1 \in 0..N BY <1>0
      <3>2. f[i-1] \in Seq(T) BY <3>1
      <3> QED BY <2>3, <2>4, <3>2
    <2>6. MarkLoop(q, d, f)
      <3>1. \A i \in 0..N : f[i] = IF i = 0 THEN <<>>
                    ELSE IF q[i].due = d THEN Append(f[i-1], q[i]) ELSE f[i-1]
        <4> TAKE i \in 0..N
        <4>1. i = 0 \/ i \in 1..N BY <1>0
        <4> QED BY <2>4, <2>5, <4>1
      <3>2. f = [i \in 0..N |-> f[i]] OBVIOUS
      <3> QED BY <3>1, <3>2 DEF MarkLoop
    <2> QED BY <2>6
  <1>3. MarkLoop(q, d, out) BY <1>2
  <1> HIDE DEF out
  <1> DEFINE Good(n) == /\ out[n] \in Seq(U)
                        /\ \A s : Count(out[n], s) = Cardinality(MarkedOf(q, s, d, n))
             S == {n \in 0..N : Good(n)}
  <1>4. 0 \in S
    <2>1. out[0] = <<>> BY <1>0, <1>3 DEF MarkLoop
    <2>2. \A s : MarkedOf(q, s, d, 0) = {} BY DEF MarkedOf
    <2>3. \A s : Count(out[0], s) = Cardinality(MarkedOf(q, s, d, 0))
      BY <2>1, <2>2, CountEmpty, FS_EmptySet
    <2>4. out[0] \in Seq(U) BY <2>1
    <2> QED BY <1>0, <2>3, <2>4
  <1>5. ASSUME NEW n \in S, n < N PROVE n + 1 \in S
    <2>0. n \in 0..N /\ n + 1 \in 1..N /\ n + 1 \in 0..N BY <1>0, <1>5
    <2>1. Good(n) OBVIOUS
    <2>2. out[n+1] = IF q[n+1].due = d THEN Append(out[n], q[n+1]) ELSE out[n]
      <3>1. n + 1 # 0 /\ (n + 1) - 1 = n BY <2>0
      <3> QED BY <1>3, <2>0, <3>1 DEF MarkLoop
    <2>3. \A s : /\ IsFiniteSet(MarkedOf(q, s, d, n))
                 /\ Cardinality(MarkedOf(q, s, d, n)) \in Nat
                 /\ n + 1 \notin MarkedOf(q, s, d, n)
      <3> TAKE s
      <3>1. MarkedOf(q, s, d, n) \subseteq 1..n BY DEF MarkedOf
      <3>2. IsFiniteSet(1..n) BY <2>0, FS_Interval
      <3>3. IsFiniteSet(MarkedOf(q, s, d, n)) BY <3>1, <3>2, FS_Subset
      <3>4. n + 1 \notin 1..n BY <2>0
      <3> QED BY <3>1, <3>3, <3>4, FS_CardinalityType
    <2>4. \A s : MarkedOf(q, s, d, n + 1) =
                   IF q[n+1].slot = s /\ q[n+1].due = d
                     THEN MarkedOf(q, s, d, n) \cup {n + 1} ELSE MarkedOf(q, s, d, n)
      <3>1. \A i : i \in 1..(n+1) <=> (i \in 1..n \/ i = n + 1) BY <2>0
      <3> QED BY <3>1 DEF MarkedOf
    <2>5. CASE q[n+1].due = d
      <3>1. q[n+1] \in U BY <1>0, <2>0, <2>5
      <3>2. out[n+1] = Append(out[n], q[n+1]) BY <2>2, <2>5
      <3>3. out[n+1] \in Seq(U) BY <2>1, <3>1, <3>2
      <3>4. \A s : Count(out[n+1], s) = Count(out[n], s) + (IF q[n+1].slot = s THEN 1 ELSE 0)
        <4> HIDE DEF U
        <4> QED BY <2>1, <3>1, <3>2, CountAppend
      <3>5. \A s : Count(out[n+1], s) = Cardinality(MarkedOf(q, s, d, n + 1))
        <4> TAKE s
        <4>0. Count(out[n], s) = Cardinality(MarkedOf(q, s, d, n)) BY <2>1
        <4>1. CASE q[n+1].slot = s
          <5>1. MarkedOf(q, s, d, n + 1) = MarkedOf(q, s, d, n) \cup {n + 1} BY <2>4, <2>5, <4>1
          <5>2. Cardinality(MarkedOf(q, s, d, n) \cup {n + 1})
                  = Cardinality(MarkedOf(q, s, d, n)) + 1
            BY <2>3, FS_AddElement
          <5>3. Count(out[n+1], s) = Count(out[n], s) + 1 BY <3>4, <4>1
          <5> QED BY <4>0, <5>1, <5>2, <5>3
        <4>2. CASE q[n+1].slot # s
          <5>1. MarkedOf(q, s, d, n + 1) = MarkedOf(q, s, d, n) BY <2>4, <2>5, <4>2
          <5>2. Count(out[n+1], s) = Count(out[n], s) + 0 BY <3>4, <4>2
          <5> QED BY ONLY <2>3, <4>0, <5>1, <5>2
        <4> QED BY <4>1, <4>2
      <3> QED BY <2>0, <3>3, <3>5
    <2>6. CASE q[n+1].due # d
      <3>1. out[n+1] = out[n] BY <2>2, <2>6
      <3>2. \A s : MarkedOf(q, s, d, n + 1) = MarkedOf(q, s, d, n) BY <2>4, <2>6
      <3> QED BY <2>0, <2>1, <3>1, <3>2
    <2> QED BY <2>5, <2>6
  <1>6. 0..N \subseteq S
    <2>1. S \in SUBSET Nat OBVIOUS
    <2>2. \A n \in S : n < N => n + 1 \in S BY <1>5
    <2> HIDE DEF S, N
    <2> QED BY <1>0, <1>4, <2>1, <2>2, Induction
  <1>7. Good(N)
    <2>1. N \in 0..N BY <1>0
    <2>2. N \in S BY <1>6, <2>1
    <2> QED BY <2>2
  <1> QED BY <1>1, <1>7

\* Of every skill, an entry is either due or not.
LEMMA DueAndUndue ==
  ASSUME NEW T, \A e \in T : e.due \in BOOLEAN, NEW q \in Seq(T), NEW s
  PROVE  Count(Due(q), s) + Count(Undue(q), s) = Count(q, s)
  <1> DEFINE A == MarkedOf(q, s, TRUE, Len(q))
             B == MarkedOf(q, s, FALSE, Len(q))
  <1>1. Count(Due(q), s) = Cardinality(A) /\ Count(Undue(q), s) = Cardinality(B)
    BY MarkedKeeps DEF Due, Undue
  <1>2. DOMAIN q = 1..Len(q) /\ \A i \in 1..Len(q) : q[i].due \in BOOLEAN OBVIOUS
  <1>3. A \cup B = Are(q, s) /\ A \cap B = {} BY <1>2 DEF MarkedOf, Are
  <1>4. IsFiniteSet(Are(q, s)) BY CountNat
  <1>5. IsFiniteSet(A) /\ IsFiniteSet(B) BY <1>3, <1>4, FS_Subset
  <1> HIDE DEF A
  <1> HIDE DEF B
  <1>6. Cardinality(A) \in Nat /\ Cardinality(B) \in Nat BY <1>5, FS_CardinalityType
  <1>7. Cardinality(A \cup B) = Cardinality(A) + Cardinality(B) - Cardinality(A \cap B)
    BY <1>5, FS_Union
  <1>8. Cardinality(A \cap B) = 0 BY <1>3, FS_EmptySet
  <1> QED 
    <2>1. Count(q, s) = Cardinality(A \cup B) BY <1>3 DEF Count
    <2> QED BY <1>1, <1>6, <1>7, <1>8, <2>1

-----------------------------------------------------------------------------
(***************************************************************************)
(* A state of the hero in the middle of a handler.                         *)
(***************************************************************************)
Mage == [order : Order \cup {Nobody}, cooling : SUBSET kit,
         payloads : Seq(Impact), actionDones : Seq(Ending), channels : SUBSET Ending,
         castLock : kit \cup {Nobody}, attackTarget : Prey \cup {Nobody},
         autoResumed : BOOLEAN, hasDest : BOOLEAN, stunned : BOOLEAN, dead : BOOLEAN,
         gone : SUBSET Victims, on : SUBSET (kit \cap Toggles), ended : BOOLEAN,
         open : [kit -> Int], dropped : [kit -> Nat], owed : [kit -> Int]]

\* The approach under way, as far as orders of s are concerned.
Underway(x, s) == IF x.order # Nobody /\ x.order.slot = s THEN 1 ELSE 0

\* Every order is answered but those that the freeze threw away, and those of U, which
\* this handler still has to answer.
Answered(x, U) ==
  \A s \in kit : x.open[s] = Count(x.actionDones, s) + Underway(x, s) + x.dropped[s]
                             + (IF s \in U THEN 1 ELSE 0)

\* Nothing is thrown away before the match ends.
DropsNone(x) == ~x.ended => \A s \in kit : x.dropped[s] = 0

Landed(x) == \A s \in kit : x.owed[s] = Count(x.payloads, s)

\* The impacts that start no spin.
Calm == {p \in Impact : p.slot \notin Walking}

\* A spin is never queued, and while it runs no approach is under way.
SpinsAlone(x) ==
  /\ x.payloads \in Seq(Calm)
  /\ \A c \in x.channels : c.slot \in Walking /\ ~c.due => x.order = Nobody

Booked(x, U) == x \in Mage /\ Answered(x, U) /\ Landed(x) /\ SpinsAlone(x) /\ DropsNone(x)

\* No toggle goes on or off, and no match ends.
Aside(x, y) == y.on = x.on /\ y.ended = x.ended /\ y.dropped = x.dropped

USE DEF Aside

\* y differs from x in nothing that the books are about, but may have lost channels.
Alike(x, y) ==
  /\ y \in Mage
  /\ y.order = x.order /\ y.payloads = x.payloads /\ y.actionDones = x.actionDones
  /\ y.open = x.open /\ y.owed = x.owed /\ y.cooling = x.cooling /\ Aside(x, y)
  /\ \A c \in y.channels : c \in x.channels \/ c.due

\* So the books that were right stay right.
LEMMA AlikeBooked ==
  ASSUME NEW x, NEW y, NEW U, Booked(x, U), Alike(x, y)
  PROVE  Booked(y, U)
  BY DEF Booked, Alike, Answered, Landed, SpinsAlone, DropsNone, Underway

\* Such steps compose.
LEMMA AlikeAgain ==
  ASSUME NEW x, NEW y, NEW z, Alike(x, y), Alike(y, z)
  PROVE  Alike(x, z)
  BY DEF Alike

\* Breaking channels is such a step, and so are chasing a target and a tick of the
\* channels.
LEMMA BreakAlike ==
  ASSUME NEW x \in Mage
  PROVE  Alike(x, BreakInterruptibleChannels(x))
  BY DEF Alike, BreakInterruptibleChannels, Mage

LEMMA ChaseAlike ==
  ASSUME NEW x \in Mage, NEW go \in BOOLEAN
  PROVE  Alike(x, Chase(x, go))
  BY DEF Alike, Chase, MovementBlocked, Mage

LEMMA TickChannelsAlike ==
  ASSUME NEW x \in Mage
  PROVE  Alike(x, TickChannels(x))
  BY DEF Alike, TickChannels, Mage

\* An order that this handler owes an answer is answered.
LEMMA Done ==
  ASSUME NEW x, NEW s \in kit, Booked(x, {s})
  PROVE  Booked(OrderDone(x, s), {}) /\ OrderDone(x, s).cooling = x.cooling
         /\ OrderDone(x, s).order = x.order /\ Aside(x, OrderDone(x, s))
  <1> DEFINE y == OrderDone(x, s)
  <1>1. x \in Mage BY DEF Booked
  <1>2. /\ y \in Mage
        /\ y.order = x.order /\ y.payloads = x.payloads /\ y.actionDones = x.actionDones
        /\ y.owed = x.owed /\ y.cooling = x.cooling /\ y.channels = x.channels
        /\ Aside(x, y)
        /\ y.open = [x.open EXCEPT ![s] = @ - 1]
    <2> DEFINE o == [x.open EXCEPT ![s] = @ - 1]
    <2>1. o \in [kit -> Int] BY <1>1 DEF Mage
    <2>2. y = [x EXCEPT !.open = o] BY DEF OrderDone
    <2> HIDE DEF o
    <2>3. /\ y \in Mage /\ y.open = o
          /\ y.order = x.order /\ y.payloads = x.payloads /\ y.actionDones = x.actionDones
          /\ y.owed = x.owed /\ y.cooling = x.cooling /\ y.channels = x.channels
          /\ Aside(x, y)
      BY <1>1, <2>1, <2>2 DEF Mage
    <2> HIDE DEF y
    <2> QED BY <2>3 DEF o
  <1>3. /\ x.open \in [kit -> Int] /\ x.actionDones \in Seq(Ending)
        /\ x.dropped \in [kit -> Nat]
    BY <1>1 DEF Mage
  <1>4. Answered(y, {})
    <2> SUFFICES ASSUME NEW t \in kit
                 PROVE  y.open[t] = Count(y.actionDones, t) + Underway(y, t)
                                      + y.dropped[t] + (IF t \in {} THEN 1 ELSE 0)
      BY DEF Answered
    <2>1. x.open[t] = Count(x.actionDones, t) + Underway(x, t)
                      + x.dropped[t] + (IF t \in {s} THEN 1 ELSE 0)
      BY DEF Booked, Answered
    <2>2. Count(x.actionDones, t) \in Nat BY <1>3, CountNat
    <2>3. Underway(x, t) \in Nat /\ Underway(y, t) = Underway(x, t) BY <1>2 DEF Underway
    <2>4. y.open[t] = IF t = s THEN x.open[t] - 1 ELSE x.open[t] BY <1>2, <1>3
    <2>5. x.dropped[t] \in Nat BY <1>3
    <2> HIDE DEF y
    <2> QED BY <1>2, <2>1, <2>2, <2>3, <2>4, <2>5
  <1> HIDE DEF y
  <1>5. Landed(y) /\ SpinsAlone(y) /\ DropsNone(y)
    BY <1>2 DEF Booked, Landed, SpinsAlone, DropsNone
  <1> QED BY <1>2, <1>4, <1>5 DEF Booked, y

\* A new order is owed an answer.
LEMMA AskedOwes ==
  ASSUME NEW x, NEW s \in kit, Booked(x, {})
  PROVE  Booked(Asked(x, s), {s}) /\ Asked(x, s).cooling = x.cooling
         /\ Asked(x, s).channels = x.channels /\ Asked(x, s).payloads = x.payloads
         /\ Aside(x, Asked(x, s))
  <1> DEFINE y == Asked(x, s)
  <1>1. x \in Mage BY DEF Booked
  <1>2. /\ y \in Mage
        /\ y.order = x.order /\ y.payloads = x.payloads /\ y.actionDones = x.actionDones
        /\ y.owed = x.owed /\ y.cooling = x.cooling /\ y.channels = x.channels
        /\ Aside(x, y)
        /\ y.open = [x.open EXCEPT ![s] = @ + 1]
    <2> DEFINE o == [x.open EXCEPT ![s] = @ + 1]
    <2>1. o \in [kit -> Int] BY <1>1 DEF Mage
    <2>2. y = [x EXCEPT !.open = o] BY DEF Asked
    <2> HIDE DEF o
    <2>3. /\ y \in Mage /\ y.open = o
          /\ y.order = x.order /\ y.payloads = x.payloads /\ y.actionDones = x.actionDones
          /\ y.owed = x.owed /\ y.cooling = x.cooling /\ y.channels = x.channels
          /\ Aside(x, y)
      BY <1>1, <2>1, <2>2 DEF Mage
    <2> HIDE DEF y
    <2> QED BY <2>3 DEF o
  <1>3. /\ x.open \in [kit -> Int] /\ x.actionDones \in Seq(Ending)
        /\ x.dropped \in [kit -> Nat]
    BY <1>1 DEF Mage
  <1>4. Answered(y, {s})
    <2> SUFFICES ASSUME NEW t \in kit
                 PROVE  y.open[t] = Count(y.actionDones, t) + Underway(y, t)
                                      + y.dropped[t] + (IF t \in {s} THEN 1 ELSE 0)
      BY DEF Answered
    <2>1. x.open[t] = Count(x.actionDones, t) + Underway(x, t)
                      + x.dropped[t] + (IF t \in {} THEN 1 ELSE 0)
      BY DEF Booked, Answered
    <2>2. Count(x.actionDones, t) \in Nat BY <1>3, CountNat
    <2>3. Underway(x, t) \in Nat /\ Underway(y, t) = Underway(x, t) BY <1>2 DEF Underway
    <2>4. y.open[t] = IF t = s THEN x.open[t] + 1 ELSE x.open[t] BY <1>2, <1>3
    <2>5. x.dropped[t] \in Nat BY <1>3
    <2> HIDE DEF y
    <2> QED BY <1>2, <2>1, <2>2, <2>3, <2>4, <2>5
  <1> HIDE DEF y
  <1>5. Landed(y) /\ SpinsAlone(y) /\ DropsNone(y)
    BY <1>2 DEF Booked, Landed, SpinsAlone, DropsNone
  <1> QED BY <1>2, <1>4, <1>5 DEF Booked, y

\* One less at one place is a function to the integers again.
LEMMA OneLess ==
  ASSUME NEW S, NEW v \in [S -> Int], NEW u \in S
  PROVE  [v EXCEPT ![u] = @ - 1] \in [S -> Int]
  OBVIOUS

\* Cancelling the approach under way answers its order, and nothing else.
LEMMA CancelAnswers ==
  ASSUME NEW x \in Mage
  PROVE  LET y == CancelOrder(x) IN
         /\ y \in Mage /\ y.order = Nobody /\ y.payloads = x.payloads
         /\ y.actionDones = x.actionDones /\ y.owed = x.owed
         /\ y.cooling = x.cooling /\ y.channels = x.channels /\ Aside(x, y)
         /\ \A U : Answered(x, U) => Answered(y, U)
  <1> DEFINE y == [x EXCEPT !.order = Nobody]
             u == x.order.slot
             z == OrderDone(y, u)
  <1>2. CASE x.order = Nobody BY <1>2 DEF CancelOrder
  <1>3. CASE x.order # Nobody
    <2>1. u \in kit BY <1>3 DEF Mage, Order
    <2>2. /\ y \in Mage /\ y.order = Nobody /\ y.payloads = x.payloads
          /\ y.actionDones = x.actionDones /\ y.owed = x.owed /\ y.open = x.open
          /\ y.cooling = x.cooling /\ y.channels = x.channels /\ Aside(x, y)
      BY DEF Mage
    <2> HIDE DEF y
    <2> HIDE DEF u
    <2>3. /\ z \in Mage
          /\ z.order = Nobody /\ z.payloads = x.payloads /\ z.actionDones = x.actionDones
          /\ z.owed = x.owed /\ z.cooling = x.cooling /\ z.channels = x.channels
          /\ Aside(x, z)
          /\ z.open = [x.open EXCEPT ![u] = @ - 1]
      <3> DEFINE o == [y.open EXCEPT ![u] = @ - 1]
      <3>0. x.open \in [kit -> Int] BY DEF Mage
      <3>1. o \in [kit -> Int]
        <4>1. y.open \in [kit -> Int] BY <2>2, <3>0
        <4> QED BY <2>1, <4>1, OneLess
      <3>2. z = [y EXCEPT !.open = o] BY DEF OrderDone
      <3> HIDE DEF o
      <3>3. /\ z \in Mage /\ z.open = o
            /\ z.order = y.order /\ z.payloads = y.payloads /\ z.actionDones = y.actionDones
            /\ z.owed = y.owed /\ z.cooling = y.cooling /\ z.channels = y.channels
            /\ Aside(y, z)
        BY <2>2, <3>1, <3>2 DEF Mage
      <3> HIDE DEF z
      <3> QED BY <2>2, <3>3 DEF o
    <2>4. CancelOrder(x) = z BY <1>3 DEF CancelOrder, y, u
    <2> HIDE DEF z
    <2>5. /\ x.open \in [kit -> Int] /\ x.actionDones \in Seq(Ending)
          /\ x.dropped \in [kit -> Nat]
      BY DEF Mage
    <2>6. ASSUME NEW U, Answered(x, U) PROVE Answered(z, U)
      <3> SUFFICES ASSUME NEW t \in kit
                   PROVE  z.open[t] = Count(z.actionDones, t) + Underway(z, t)
                                        + z.dropped[t] + (IF t \in U THEN 1 ELSE 0)
        BY DEF Answered
      <3>1. x.open[t] = Count(x.actionDones, t) + Underway(x, t)
                          + x.dropped[t] + (IF t \in U THEN 1 ELSE 0)
        BY <2>6 DEF Answered
      <3>2. Count(x.actionDones, t) \in Nat BY <2>5, CountNat
      <3>3. Underway(x, t) = (IF t = u THEN 1 ELSE 0) /\ Underway(z, t) = 0
        BY <1>3, <2>3 DEF Underway, u
      <3>4. z.open[t] = IF t = u THEN x.open[t] - 1 ELSE x.open[t] BY <2>1, <2>3, <2>5
      <3>5. x.dropped[t] \in Nat BY <2>5
      <3> QED BY <2>3, <3>1, <3>2, <3>3, <3>4, <3>5
    <2> QED BY <2>3, <2>4, <2>6
  <1> QED BY <1>2, <1>3

\* So the books stay right.
LEMMA Cancel ==
  ASSUME NEW x, NEW U, Booked(x, U)
  PROVE  /\ Booked(CancelOrder(x), U) /\ CancelOrder(x).order = Nobody
         /\ CancelOrder(x).cooling = x.cooling /\ CancelOrder(x).channels = x.channels
         /\ CancelOrder(x).payloads = x.payloads /\ Aside(x, CancelOrder(x))
  <1> DEFINE y == CancelOrder(x)
  <1>1. x \in Mage BY DEF Booked
  <1>2. /\ y \in Mage /\ y.order = Nobody /\ y.payloads = x.payloads
        /\ y.actionDones = x.actionDones /\ y.owed = x.owed
        /\ y.cooling = x.cooling /\ y.channels = x.channels /\ Aside(x, y)
        /\ Answered(x, U) => Answered(y, U)
    BY <1>1, CancelAnswers
  <1> HIDE DEF y
  <1>3. Landed(y) /\ SpinsAlone(y) /\ DropsNone(y)
    BY <1>2 DEF Booked, Landed, SpinsAlone, DropsNone
  <1> QED BY <1>2, <1>3 DEF Booked, y

\* Taking on a mob answers the approach it cancels.
LEMMA Took ==
  ASSUME NEW x, NEW m \in Prey, NEW U, Booked(x, U)
  PROVE  Booked(TakeOn(x, m), U) /\ TakeOn(x, m).cooling = x.cooling
         /\ Aside(x, TakeOn(x, m))
  <1>1. CASE x.dead \/ x.attackTarget = m BY <1>1 DEF TakeOn
  <1>2. CASE ~(x.dead \/ x.attackTarget = m)
    <2> DEFINE y == BreakInterruptibleChannels(x)
               z == CancelOrder(y)
               w == [z EXCEPT !.attackTarget = m]
    <2>1. x \in Mage BY DEF Booked
    <2>2. Alike(x, y) BY <2>1, BreakAlike
    <2>3. Booked(y, U) /\ y.cooling = x.cooling /\ Aside(x, y)
      BY <2>2, AlikeBooked DEF Alike
    <2> HIDE DEF y
    <2>4. Booked(z, U) /\ z.cooling = x.cooling /\ Aside(x, z) BY <2>3, Cancel
    <2>5. TakeOn(x, m) = w BY <1>2 DEF TakeOn, y
    <2> HIDE DEF z
    <2>6. z \in Mage BY <2>4 DEF Booked
    <2>7. Alike(z, w) BY <2>6 DEF Alike, Mage
    <2> HIDE DEF w
    <2> QED BY <2>4, <2>5, <2>7, AlikeBooked DEF Alike
  <1> QED BY <1>1, <1>2

\* A resumed attack finds no approach that it could cancel.
LEMMA ResumeAlike ==
  ASSUME NEW x \in Mage, NEW preferred, NEW near \in Prey \cup {Nobody}
  PROVE  Alike(x, ResumeAutoAttack(x, preferred, near))
  <1> DEFINE m == IF preferred \in Prey \ x.gone THEN preferred ELSE near
             idle == \/ x.dead \/ x.stunned \/ x.attackTarget # Nobody \/ x.order # Nobody
                     \/ x.hasDest \/ m = Nobody
  <1>1. CASE idle
    <2>1. ResumeAutoAttack(x, preferred, near) = x BY <1>1 DEF ResumeAutoAttack
    <2>2. Alike(x, x) BY DEF Alike
    <2> QED BY <2>1, <2>2
  <1>2. CASE ~idle
    <2> DEFINE y == BreakInterruptibleChannels(x)
               z == [y EXCEPT !.attackTarget = m]
               w == [z EXCEPT !.autoResumed = TRUE]
    <2>1. m \in Prey
      <3>1. m # Nobody BY <1>2
      <3> QED BY <3>1
    <2>2. ~x.dead /\ x.attackTarget # m /\ x.order = Nobody BY <1>2
    <2>3. Alike(x, y) BY BreakAlike
    <2>4. CancelOrder(y) = y BY <2>2, <2>3 DEF CancelOrder, Alike
    <2>5. ResumeAutoAttack(x, preferred, near) = w
      <3>1. ResumeAutoAttack(x, preferred, near) = [TakeOn(x, m) EXCEPT !.autoResumed = TRUE]
        BY <1>2 DEF ResumeAutoAttack
      <3>2. TakeOn(x, m) = z BY <2>2, <2>4 DEF TakeOn
      <3> QED BY <3>1, <3>2
    <2>6. y \in Mage BY <2>3 DEF Alike
    <2> HIDE DEF y
    <2> HIDE DEF m
    <2>7. Alike(y, z) BY <2>1, <2>6 DEF Alike, Mage
    <2>8. z \in Mage BY <2>7 DEF Alike
    <2> HIDE DEF z
    <2>9. Alike(z, w) BY <2>8 DEF Alike, Mage
    <2> QED BY <2>3, <2>5, <2>7, <2>9, AlikeAgain
  <1> QED BY <1>1, <1>2

-----------------------------------------------------------------------------
(***************************************************************************)
(* The queue of impacts.                                                   *)
(***************************************************************************)
\* What working the queue off leaves alone: it answers what it cancels.
Spared(x, y) ==
  /\ y \in Mage
  /\ y.order \in {x.order, Nobody} /\ y.cooling = x.cooling /\ y.on = x.on
  /\ DropsNone(x) => DropsNone(y)
  /\ \A U : Answered(x, U) => Answered(y, U)

\* The freeze throws away the endings, and with the impacts what is owed for them.
LEMMA ThrownSpares ==
  ASSUME NEW x \in Mage, x.order = Nobody
  PROVE  LET y == Thrown(x) IN
         /\ Spared(x, y) /\ y.payloads = <<>> /\ y.channels = {} /\ y.ended
         /\ \A s \in kit : y.owed[s] = x.owed[s] - Count(x.payloads, s)
  <1> DEFINE none == <<>>
             d == [s \in kit |-> x.dropped[s] + Count(x.actionDones, s)]
             o == [s \in kit |-> x.owed[s] - Count(x.payloads, s)]
             x1 == [x EXCEPT !.dropped = d]
             x2 == [x1 EXCEPT !.owed = o]
             x3 == [x2 EXCEPT !.actionDones = none]
             x4 == [x3 EXCEPT !.payloads = none]
             x5 == [x4 EXCEPT !.channels = {}]
             x6 == [x5 EXCEPT !.castLock = Nobody]
             x7 == [x6 EXCEPT !.attackTarget = Nobody]
             x8 == [x7 EXCEPT !.hasDest = FALSE]
             x9 == [x8 EXCEPT !.ended = TRUE]
  <1>1. /\ x.dropped \in [kit -> Nat] /\ x.owed \in [kit -> Int] /\ x.open \in [kit -> Int]
        /\ x.actionDones \in Seq(Ending) /\ x.payloads \in Seq(Impact)
    BY DEF Mage
  <1>2. \A s : Count(x.actionDones, s) \in Nat /\ Count(x.payloads, s) \in Nat
    BY <1>1, CountNat
  <1>3. Thrown(x) = x9
    <2>1. d = [s \in kit |-> x.dropped[s] + Cardinality(Are(x.actionDones, s))] BY DEF Count
    <2>2. o = [s \in kit |-> x.owed[s] - Cardinality(Are(x.payloads, s))] BY DEF Count
    <2> HIDE DEF d
    <2> HIDE DEF o
    <2> QED BY <2>1, <2>2 DEF Thrown
  <1>4. /\ d \in [kit -> Nat] /\ o \in [kit -> Int]
        /\ \A s \in kit : /\ d[s] = x.dropped[s] + Count(x.actionDones, s)
                          /\ o[s] = x.owed[s] - Count(x.payloads, s)
    BY <1>1, <1>2
  <1>5. none \in Seq(Ending) /\ none \in Seq(Impact) /\ \A s : Count(none, s) = 0
    BY CountEmpty
  <1> HIDE DEF none
  <1> HIDE DEF d
  <1> HIDE DEF o
  <1>6. /\ x1 \in Mage /\ x1.order = Nobody /\ x1.open = x.open /\ x1.cooling = x.cooling
        /\ x1.on = x.on /\ x1.dropped = d
    BY <1>4 DEF Mage
  <1> HIDE DEF x1
  <1>7. /\ x2 \in Mage /\ x2.order = Nobody /\ x2.open = x.open /\ x2.cooling = x.cooling
        /\ x2.on = x.on /\ x2.dropped = d /\ x2.owed = o
    BY <1>4, <1>6 DEF Mage
  <1> HIDE DEF x2
  <1>8. /\ x3 \in Mage /\ x3.order = Nobody /\ x3.open = x.open /\ x3.cooling = x.cooling
        /\ x3.on = x.on /\ x3.dropped = d /\ x3.owed = o /\ x3.actionDones = none
    BY <1>5, <1>7 DEF Mage
  <1> HIDE DEF x3
  <1>9. /\ x4 \in Mage /\ x4.order = Nobody /\ x4.open = x.open /\ x4.cooling = x.cooling
        /\ x4.on = x.on /\ x4.dropped = d /\ x4.owed = o /\ x4.actionDones = none
        /\ x4.payloads = none
    BY <1>5, <1>8 DEF Mage
  <1> HIDE DEF x4
  <1>10. /\ x5 \in Mage /\ x5.order = Nobody /\ x5.open = x.open /\ x5.cooling = x.cooling
         /\ x5.on = x.on /\ x5.dropped = d /\ x5.owed = o /\ x5.actionDones = none
         /\ x5.payloads = none /\ x5.channels = {}
    BY <1>9 DEF Mage
  <1> HIDE DEF x5
  <1>11. /\ x6 \in Mage /\ x6.order = Nobody /\ x6.open = x.open /\ x6.cooling = x.cooling
         /\ x6.on = x.on /\ x6.dropped = d /\ x6.owed = o /\ x6.actionDones = none
         /\ x6.payloads = none /\ x6.channels = {}
    BY <1>10 DEF Mage
  <1> HIDE DEF x6
  <1>12. /\ x7 \in Mage /\ x7.order = Nobody /\ x7.open = x.open /\ x7.cooling = x.cooling
         /\ x7.on = x.on /\ x7.dropped = d /\ x7.owed = o /\ x7.actionDones = none
         /\ x7.payloads = none /\ x7.channels = {}
    BY <1>11 DEF Mage
  <1> HIDE DEF x7
  <1>13. /\ x8 \in Mage /\ x8.order = Nobody /\ x8.open = x.open /\ x8.cooling = x.cooling
         /\ x8.on = x.on /\ x8.dropped = d /\ x8.owed = o /\ x8.actionDones = none
         /\ x8.payloads = none /\ x8.channels = {}
    BY <1>12 DEF Mage
  <1> HIDE DEF x8
  <1>14. /\ x9 \in Mage /\ x9.order = Nobody /\ x9.open = x.open /\ x9.cooling = x.cooling
         /\ x9.on = x.on /\ x9.dropped = d /\ x9.owed = o /\ x9.actionDones = none
         /\ x9.payloads = none /\ x9.channels = {} /\ x9.ended
    BY <1>13 DEF Mage
  <1> HIDE DEF x9
  <1>15. ASSUME NEW U, Answered(x, U) PROVE Answered(x9, U)
    <2> SUFFICES ASSUME NEW s \in kit
                 PROVE  x9.open[s] = Count(x9.actionDones, s) + Underway(x9, s)
                                       + x9.dropped[s] + (IF s \in U THEN 1 ELSE 0)
      BY DEF Answered
    <2>1. x.open[s] = Count(x.actionDones, s) + Underway(x, s)
                        + x.dropped[s] + (IF s \in U THEN 1 ELSE 0)
      BY <1>15 DEF Answered
    <2>2. Underway(x, s) = 0 /\ Underway(x9, s) = 0 BY <1>14 DEF Underway
    <2>3. x.dropped[s] \in Nat /\ Count(x.actionDones, s) \in Nat BY <1>1, <1>2
    <2>4. Count(x9.actionDones, s) = 0 BY <1>5, <1>14
    <2>5. x9.dropped[s] = x.dropped[s] + Count(x.actionDones, s) BY <1>4, <1>14
    <2>6. x9.open[s] = x.open[s] BY <1>14
    <2> QED BY ONLY <2>1, <2>2, <2>3, <2>4, <2>5, <2>6
  <1>16. DropsNone(x9) BY <1>14 DEF DropsNone
  <1>17. Spared(x, x9) BY <1>14, <1>15, <1>16 DEF Spared
  <1> QED BY <1>3, <1>4, <1>14, <1>17 DEF none

\* So what is owed beyond the queue stays as it was.
LEMMA FreezeSpares ==
  ASSUME NEW x \in Mage
  PROVE  LET y == DotaFreeze(x) IN
         /\ Spared(x, y) /\ y.ended
         /\ \A s \in kit : y.owed[s] - Count(y.payloads, s) = x.owed[s] - Count(x.payloads, s)
         /\ y = x \/ (y.order = Nobody /\ y.payloads = <<>> /\ y.channels = {})
  <1> DEFINE w == CancelOrder(x)
             y == Thrown(w)
  <1>1. CASE x.ended
    <2>1. DotaFreeze(x) = x BY <1>1 DEF DotaFreeze
    <2>2. Spared(x, x) BY DEF Spared
    <2> QED BY <1>1, <2>1, <2>2
  <1>2. CASE ~x.ended
    <2>1. DotaFreeze(x) = y BY <1>2 DEF DotaFreeze
    <2>2. /\ w \in Mage /\ w.order = Nobody /\ w.payloads = x.payloads /\ w.owed = x.owed
          /\ w.cooling = x.cooling /\ Aside(x, w)
          /\ \A U : Answered(x, U) => Answered(w, U)
      BY CancelAnswers
    <2> HIDE DEF w
    <2>3. /\ Spared(w, y) /\ y.payloads = <<>> /\ y.channels = {} /\ y.ended
          /\ \A s \in kit : y.owed[s] = w.owed[s] - Count(w.payloads, s)
      BY <2>2, ThrownSpares
    <2> HIDE DEF y
    <2>4. y.order = Nobody BY <2>2, <2>3 DEF Spared
    <2>5. DropsNone(x) => DropsNone(w) BY <2>2 DEF DropsNone
    <2>6. Spared(x, y) BY <2>2, <2>3, <2>4, <2>5 DEF Spared
    <2>7. ASSUME NEW s \in kit
          PROVE  y.owed[s] - Count(y.payloads, s) = x.owed[s] - Count(x.payloads, s)
      <3>1. Count(y.payloads, s) = 0 BY <2>3, CountEmpty
      <3>2. x.owed \in [kit -> Int] /\ x.payloads \in Seq(Impact) BY DEF Mage
      <3>3. x.owed[s] \in Int /\ Count(x.payloads, s) \in Nat BY <3>2, CountNat
      <3>4. y.owed[s] = x.owed[s] - Count(x.payloads, s) BY <2>2, <2>3
      <3> QED BY ONLY <3>1, <3>3, <3>4
    <2> QED BY <2>1, <2>3, <2>4, <2>6, <2>7
  <1> QED BY <1>1, <1>2

\* If nothing is owed beyond the queue, it stays so.
LEMMA BeyondTheQueue ==
  ASSUME NEW x \in Mage, NEW y \in Mage, Landed(x),
         \A s \in kit : y.owed[s] - Count(y.payloads, s) = x.owed[s] - Count(x.payloads, s)
  PROVE  Landed(y)
  <1> SUFFICES ASSUME NEW s \in kit PROVE y.owed[s] = Count(y.payloads, s) BY DEF Landed
  <1>1. x.owed[s] = Count(x.payloads, s) BY DEF Landed
  <1>2. /\ x.payloads \in Seq(Impact) /\ y.payloads \in Seq(Impact)
        /\ y.owed[s] \in Int
    BY DEF Mage
  <1>3. Count(x.payloads, s) \in Nat /\ Count(y.payloads, s) \in Nat BY <1>2, CountNat
  <1>4. y.owed[s] - Count(y.payloads, s) = x.owed[s] - Count(x.payloads, s) OBVIOUS
  <1> QED BY ONLY <1>1, <1>2, <1>3, <1>4

\* The books of a frozen hero are right.
LEMMA FreezeBooked ==
  ASSUME NEW x, NEW U, Booked(x, U)
  PROVE  LET y == DotaFreeze(x) IN
         /\ Booked(y, U) /\ y.ended /\ y.cooling = x.cooling /\ y.on = x.on
         /\ y = x \/ y.order = Nobody
  <1> DEFINE y == DotaFreeze(x)
  <1>1. x \in Mage BY DEF Booked
  <1>2. /\ Spared(x, y) /\ y.ended
        /\ \A s \in kit : y.owed[s] - Count(y.payloads, s) = x.owed[s] - Count(x.payloads, s)
        /\ y = x \/ (y.order = Nobody /\ y.payloads = <<>> /\ y.channels = {})
    BY <1>1, FreezeSpares
  <1> HIDE DEF y
  <1>3. y \in Mage /\ Answered(y, U) /\ DropsNone(y) BY <1>2 DEF Booked, Spared
  <1>4. Landed(y) BY <1>1, <1>2, <1>3, BeyondTheQueue DEF Booked
  <1>5. SpinsAlone(y)
    <2>1. CASE y = x BY <2>1 DEF Booked
    <2>2. CASE y.payloads = <<>> /\ y.channels = {}
      <3>1. y.payloads \in Seq(Calm) BY <2>2
      <3> QED BY <2>2, <3>1 DEF SpinsAlone
    <2> QED BY <1>2, <2>1, <2>2
  <1> QED BY <1>2, <1>3, <1>4, <1>5 DEF Booked, Spared, y

\* Toggles that go off cool.
LEMMA ToggleOffBooked ==
  ASSUME NEW x, NEW U, Booked(x, U), NEW ss \in SUBSET x.on
  PROVE  LET y == ToggleOff(x, ss) IN
         /\ Booked(y, U) /\ y.order = x.order /\ y.ended = x.ended
         /\ y.cooling = x.cooling \cup ss /\ y.on = x.on \ ss /\ ss \subseteq Toggles
  <1> DEFINE o == x.on \ ss
             k == x.cooling \cup ss
             w == [x EXCEPT !.on = o]
             y == [w EXCEPT !.cooling = k]
  <1>1. x \in Mage BY DEF Booked
  <1>2. x.on \subseteq kit \cap Toggles /\ x.cooling \subseteq kit BY <1>1 DEF Mage
  <1>3. o \subseteq kit \cap Toggles /\ k \subseteq kit BY <1>2
  <1>4. ToggleOff(x, ss) = y BY DEF ToggleOff
  <1> HIDE DEF o
  <1> HIDE DEF k
  <1>5. /\ w \in Mage /\ w.order = x.order /\ w.payloads = x.payloads /\ w.open = x.open
        /\ w.actionDones = x.actionDones /\ w.owed = x.owed /\ w.channels = x.channels
        /\ w.ended = x.ended /\ w.dropped = x.dropped /\ w.on = o
    BY <1>1, <1>3 DEF Mage
  <1> HIDE DEF w
  <1>6. /\ y \in Mage /\ y.order = x.order /\ y.payloads = x.payloads /\ y.open = x.open
        /\ y.actionDones = x.actionDones /\ y.owed = x.owed /\ y.channels = x.channels
        /\ y.ended = x.ended /\ y.dropped = x.dropped /\ y.on = o /\ y.cooling = k
    BY <1>3, <1>5 DEF Mage
  <1> HIDE DEF y
  <1>7. Booked(y, U) BY <1>6 DEF Booked, Answered, Landed, SpinsAlone, DropsNone, Underway
  <1> QED BY <1>2, <1>4, <1>6, <1>7 DEF o, k

\* One impact lands, or flies on and is queued again, or ends the match before it lands;
\* none of them is a spin that was not one before.
LEMMA FireOne ==
  ASSUME NEW x \in Mage, NEW p \in Impact, NEW fells \in BOOLEAN, x.payloads \in Seq(Calm)
  PROVE  LET y == FirePayload(x, p, fells) IN
         /\ Spared(x, y) /\ y.payloads \in Seq(Calm)
         /\ \A s \in kit : y.owed[s] - Count(y.payloads, s)
              = x.owed[s] - Count(x.payloads, s) - (IF p.slot = s THEN 1 ELSE 0)
         /\ \A c \in y.channels : c \in x.channels \/ c.slot = p.slot
  <1> DEFINE flies == p.slot \in Flying /\ ~p.flown /\ p.target \notin x.gone
             y == FirePayload(x, p, fells)
  <1>1. /\ x.owed \in [kit -> Int] /\ x.payloads \in Seq(Impact) /\ p.slot \in kit
        /\ x.channels \subseteq Ending
    BY DEF Mage, Impact
  <1>2. \A s : Count(x.payloads, s) \in Nat BY <1>1, CountNat
  <1>3. CASE flies
    <2> DEFINE e == [[p EXCEPT !.flown = TRUE] EXCEPT !.due = FALSE]
               q == Append(x.payloads, e)
    <2>1. e \in Impact /\ e.slot = p.slot BY DEF Impact
    <2>2. y = [x EXCEPT !.payloads = q] BY <1>3 DEF FirePayload
    <2>3. e \in Calm BY <1>3, <2>1, CastAssumption DEF Calm
    <2>c. \A s : Count(q, s) = Count(x.payloads, s) + (IF p.slot = s THEN 1 ELSE 0)
      <3> HIDE DEF e
      <3> QED BY <1>1, <2>1, CountAppend
    <2> HIDE DEF e
    <2>4. q \in Seq(Calm) /\ q \in Seq(Impact) BY <1>1, <2>1, <2>3
    <2> HIDE DEF q
    <2>5. /\ y \in Mage /\ y.payloads = q /\ y.owed = x.owed /\ y.channels = x.channels
          /\ y.order = x.order /\ y.actionDones = x.actionDones /\ y.open = x.open
          /\ y.cooling = x.cooling /\ Aside(x, y)
      BY <2>2, <2>4 DEF Mage
    <2> HIDE DEF y
    <2>6. \A s \in kit : x.owed[s] \in Int BY <1>1
    <2>7. \A s \in kit : y.owed[s] - Count(y.payloads, s)
              = x.owed[s] - Count(x.payloads, s) - (IF p.slot = s THEN 1 ELSE 0)
      BY <1>2, <2>c, <2>5, <2>6
    <2>8. Spared(x, y) BY <2>5 DEF Spared, Answered, Underway, DropsNone
    <2> QED BY <2>4, <2>5, <2>7, <2>8 DEF y
  <1>4. CASE ~flies
    <2> DEFINE v == IF fells THEN DotaFreeze(x) ELSE x
               t == IF p.target \in v.gone THEN Nobody ELSE p.target
               o == [v.owed EXCEPT ![p.slot] = @ - 1]
               z == [v EXCEPT !.owed = o]
               c == [slot |-> p.slot, target |-> t, due |-> FALSE]
               w == [z EXCEPT !.channels = @ \cup {c}]
    <2>0. /\ Spared(x, v) /\ v.payloads \in Seq(Calm) /\ v.channels \subseteq x.channels
          /\ \A s \in kit : v.owed[s] - Count(v.payloads, s) = x.owed[s] - Count(x.payloads, s)
      <3> DEFINE u == DotaFreeze(x)
      <3>1. /\ Spared(x, u)
            /\ \A s \in kit : u.owed[s] - Count(u.payloads, s) = x.owed[s] - Count(x.payloads, s)
            /\ u = x \/ (u.payloads = <<>> /\ u.channels = {})
        BY FreezeSpares
      <3> HIDE DEF u
      <3>2. u.payloads \in Seq(Calm) /\ u.channels \subseteq x.channels
        <4>1. CASE u = x BY <4>1
        <4>2. CASE u.payloads = <<>> /\ u.channels = {} BY <4>2
        <4> QED BY <3>1, <4>1, <4>2
      <3>3. Spared(x, x) BY DEF Spared
      <3>4. v = u \/ v = x BY DEF u
      <3> HIDE DEF v
      <3> QED BY <3>1, <3>2, <3>3, <3>4
    <2>1. y = IF p.slot \in Channels THEN w ELSE z BY <1>4 DEF FirePayload, Impacts
    <2> HIDE DEF v
    <2>a. v \in Mage /\ v.owed \in [kit -> Int] /\ v.payloads \in Seq(Impact)
      BY <2>0 DEF Spared, Mage
    <2>2. o \in [kit -> Int] /\ \A s \in kit : o[s] = v.owed[s] - (IF p.slot = s THEN 1 ELSE 0)
      BY <1>1, <2>a
    <2>3. c \in Ending BY DEF Impact, Ending
    <2>4. c.slot = p.slot OBVIOUS
    <2> HIDE DEF o
    <2> HIDE DEF c
    <2>5. /\ z \in Mage /\ z.payloads = v.payloads /\ z.owed = o /\ z.channels = v.channels
          /\ z.order = v.order /\ z.actionDones = v.actionDones /\ z.open = v.open
          /\ z.cooling = v.cooling /\ Aside(v, z)
      BY <2>2, <2>a DEF Mage
    <2> HIDE DEF z
    <2>6. /\ w \in Mage /\ w.payloads = z.payloads /\ w.owed = z.owed
          /\ w.channels = z.channels \cup {c}
          /\ w.order = z.order /\ w.actionDones = z.actionDones /\ w.open = z.open
          /\ w.cooling = z.cooling /\ Aside(z, w)
      BY <2>3, <2>5 DEF Mage
    <2> HIDE DEF w
    <2> HIDE DEF y
    <2>7. /\ y \in Mage /\ y.payloads = v.payloads /\ y.owed = o
          /\ y.channels \subseteq v.channels \cup {c}
          /\ y.order = v.order /\ y.actionDones = v.actionDones /\ y.open = v.open
          /\ y.cooling = v.cooling /\ Aside(v, y)
      BY <2>1, <2>5, <2>6
    <2>8. ASSUME NEW s \in kit
          PROVE  y.owed[s] - Count(y.payloads, s)
                   = x.owed[s] - Count(x.payloads, s) - (IF p.slot = s THEN 1 ELSE 0)
      <3>1. v.owed[s] - Count(v.payloads, s) = x.owed[s] - Count(x.payloads, s) BY <2>0
      <3>2. v.owed[s] \in Int /\ x.owed[s] \in Int BY <1>1, <2>a
      <3>3. Count(v.payloads, s) \in Nat /\ Count(x.payloads, s) \in Nat
        BY <1>2, <2>a, CountNat
      <3>4. y.owed[s] = v.owed[s] - (IF p.slot = s THEN 1 ELSE 0) BY <2>2, <2>7
      <3>5. Count(y.payloads, s) = Count(v.payloads, s) BY <2>7
      <3> QED BY ONLY <3>1, <3>2, <3>3, <3>4, <3>5
    <2>9. \A U : Answered(v, U) => Answered(y, U) BY <2>7 DEF Answered, Underway
    <2>10. DropsNone(v) => DropsNone(y) BY <2>7 DEF DropsNone
    <2>11. Spared(x, y) BY <2>0, <2>7, <2>9, <2>10 DEF Spared
    <2> QED BY <2>0, <2>4, <2>7, <2>8, <2>11 DEF y
  <1> QED BY <1>3, <1>4

\* f holds the hero after each of the impacts of ripe.
FireLoop(x, ripe, last, f) ==
  f = [i \in 0..Len(ripe) |->
         IF i = 0 THEN [x EXCEPT !.payloads = <<>>] ELSE FirePayload(f[i-1], ripe[i], i = last)]

\* How often s occurs among the first n of a queue.
Among(q, s, n) == {i \in 1..n : q[i].slot = s}

\* The next entry counts if it is of that skill.
LEMMA AmongGrows ==
  ASSUME NEW T, NEW q \in Seq(T), NEW s, NEW n \in Nat, n < Len(q)
  PROVE  /\ Cardinality(Among(q, s, n)) \in Nat
         /\ Cardinality(Among(q, s, n + 1))
              = Cardinality(Among(q, s, n)) + (IF q[n+1].slot = s THEN 1 ELSE 0)
  <1> DEFINE A == Among(q, s, n)
  <1>1. A \subseteq 1..n /\ IsFiniteSet(1..n) BY FS_Interval DEF Among
  <1>2. IsFiniteSet(A) BY <1>1, FS_Subset
  <1>3. n + 1 \notin A BY <1>1
  <1>4. Among(q, s, n + 1) = IF q[n+1].slot = s THEN A \cup {n + 1} ELSE A
    <2>1. \A i : i \in 1..(n+1) <=> (i \in 1..n \/ i = n + 1) OBVIOUS
    <2> QED BY <2>1 DEF Among
  <1> HIDE DEF A
  <1>5. Cardinality(A) \in Nat BY <1>2, FS_CardinalityType
  <1>6. Cardinality(A \cup {n + 1}) = Cardinality(A) + 1 BY <1>2, <1>3, FS_AddElement
  <1> QED BY <1>4, <1>5, <1>6 DEF A

\* All of a queue.
LEMMA AmongAll ==
  ASSUME NEW T, NEW q \in Seq(T), NEW s
  PROVE  Cardinality(Among(q, s, 0)) = 0 /\ Cardinality(Among(q, s, Len(q))) = Count(q, s)
  <1>1. Among(q, s, 0) = {} BY DEF Among
  <1>2. Among(q, s, Len(q)) = Are(q, s)
    <2>1. DOMAIN q = 1..Len(q) OBVIOUS
    <2> QED BY <2>1 DEF Among, Are
  <1> QED BY <1>1, <1>2, FS_EmptySet DEF Count

\* After n impacts of ripe.
Fired(x, ripe, y, n) ==
  /\ Spared(x, y) /\ y.payloads \in Seq(Calm)
  /\ \A s \in kit : y.owed[s] - Count(y.payloads, s) = x.owed[s] - Cardinality(Among(ripe, s, n))
  /\ \A c \in y.channels : c \in x.channels \/ \E i \in 1..n : c.slot = ripe[i].slot

\* The loop of runDuePayloadsLocked: every impact of ripe lands, or is queued again.
LEMMA FireAllFires ==
  ASSUME NEW x \in Mage, NEW last, NEW ripe \in Seq(Impact), ripe = Due(x.payloads)
  PROVE  Fired(x, ripe, FireAll(x, last), Len(ripe))
  <1> DEFINE f == CHOOSE f : FireLoop(x, ripe, last, f)
             V == {y \in Mage : y.payloads \in Seq(Calm)}
             N == Len(ripe)
             b == [x EXCEPT !.payloads = <<>>]
  <1>0. N \in Nat /\ \A i \in 1..N : ripe[i] \in Impact OBVIOUS
  <1>1. FireAll(x, last) = f[N] BY DEF FireAll, FireLoop
  <1>2. /\ b \in Mage /\ b.payloads = <<>> /\ b.owed = x.owed /\ b.channels = x.channels
        /\ b.order = x.order /\ b.actionDones = x.actionDones /\ b.open = x.open
        /\ b.cooling = x.cooling /\ Aside(x, b)
    <2> DEFINE none == <<>>
    <2>1. none \in Seq(Impact) OBVIOUS
    <2> HIDE DEF none
    <2>2. LET y == [x EXCEPT !.payloads = none] IN
          /\ y \in Mage /\ y.payloads = none /\ y.owed = x.owed /\ y.channels = x.channels
          /\ y.order = x.order /\ y.actionDones = x.actionDones /\ y.open = x.open
          /\ y.cooling = x.cooling /\ Aside(x, y)
      BY <2>1 DEF Mage
    <2> QED BY <2>2 DEF none
  <1>3. b \in V
    <2>1. <<>> \in Seq(Calm) OBVIOUS
    <2> HIDE DEF b
    <2> QED BY <1>2, <2>1
  <1>4. \A y \in V : \A p \in Impact : \A fells \in BOOLEAN : FirePayload(y, p, fells) \in V
    BY FireOne DEF Spared
  <1> HIDE DEF b
  <1>5. \E h : FireLoop(x, ripe, last, h)
    <2> DEFINE g == [z \in V \X (1..N) |-> FirePayload(z[1], ripe[z[2]], z[2] = last)]
    <2>1. g \in [V \X (1..N) -> V] BY <1>0, <1>4
    <2>2. \A v \in V, i \in 1..N : g[<<v, i>>] = FirePayload(v, ripe[i], i = last) OBVIOUS
    <2>3. PICK h \in [0..N -> V] : h[0] = b /\ \A i \in 1..N : h[i] = g[<<h[i-1], i>>]
      <3>1. N \in Nat BY <1>0
      <3> HIDE DEF g
      <3> HIDE DEF N
      <3> HIDE DEF V
      <3>2. \E h \in [0..N -> V] : Run(h, b, N, g) BY <1>3, <2>1, <3>1, Iterates
      <3> QED BY <3>2 DEF Run
    <2> HIDE DEF g
    <2> HIDE DEF V
    <2>4. ASSUME NEW i \in 1..N PROVE h[i] = FirePayload(h[i-1], ripe[i], i = last)
      <3>1. i - 1 \in 0..N BY <1>0
      <3>2. h[i-1] \in V BY <2>3, <3>1
      <3> QED BY <2>2, <2>3, <3>2
    <2>5. FireLoop(x, ripe, last, h)
      <3>1. \A i \in 0..N : h[i] = IF i = 0 THEN b ELSE FirePayload(h[i-1], ripe[i], i = last)
        <4> TAKE i \in 0..N
        <4>1. i = 0 \/ i \in 1..N BY <1>0
        <4> QED BY <2>3, <2>4, <4>1
      <3>2. h = [i \in 0..N |-> h[i]] OBVIOUS
      <3> QED BY <3>1, <3>2 DEF FireLoop, b
    <2> QED BY <2>5
  <1>6. FireLoop(x, ripe, last, f) BY <1>5
  <1> HIDE DEF f
  <1>7. f[0] = b /\ \A i \in 1..N : f[i] = FirePayload(f[i-1], ripe[i], i = last)
    <2>1. 0 \in 0..N /\ \A i \in 1..N : i \in 0..N /\ i # 0 BY <1>0
    <2> QED BY <1>6, <2>1 DEF FireLoop, b
  <1> DEFINE S == {n \in 0..N : Fired(x, ripe, f[n], n)}
  <1>8. 0 \in S
    <2>1. \A s : Count(b.payloads, s) = 0 /\ Cardinality(Among(ripe, s, 0)) = 0
      BY <1>2, CountEmpty, AmongAll
    <2>2. \A s \in kit : x.owed[s] \in Int BY DEF Mage
    <2>3. \A s \in kit : b.owed[s] - Count(b.payloads, s)
                            = x.owed[s] - Cardinality(Among(ripe, s, 0))
      BY <1>2, <2>1, <2>2
    <2>4. b.payloads \in Seq(Calm) BY <1>2
    <2>5. Spared(x, b) BY <1>2 DEF Spared, Answered, Underway, DropsNone
    <2>6. Fired(x, ripe, b, 0) BY <1>2, <2>3, <2>4, <2>5 DEF Fired
    <2> QED BY <1>0, <1>7, <2>6
  <1>9. ASSUME NEW n \in S, n < N PROVE n + 1 \in S
    <2> DEFINE y == f[n]
               z == f[n+1]
               p == ripe[n+1]
    <2>1. n \in 0..N /\ n + 1 \in 1..N /\ n + 1 \in 0..N BY <1>0, <1>9
    <2>2. Fired(x, ripe, y, n) OBVIOUS
    <2>3. z = FirePayload(y, p, n + 1 = last) /\ p \in Impact
      <3>1. (n + 1) - 1 = n BY <2>1
      <3> QED BY <1>0, <1>7, <2>1, <3>1
    <2> HIDE DEF S
    <2> HIDE DEF y
    <2> HIDE DEF z
    <2>4. y \in Mage /\ y.payloads \in Seq(Calm) BY <2>2 DEF Fired, Spared
    <2>5. /\ Spared(y, z) /\ z.payloads \in Seq(Calm)
          /\ \A s \in kit : z.owed[s] - Count(z.payloads, s)
               = y.owed[s] - Count(y.payloads, s) - (IF p.slot = s THEN 1 ELSE 0)
          /\ \A c \in z.channels : c \in y.channels \/ c.slot = p.slot
      BY <2>3, <2>4, FireOne
    <2>6. ASSUME NEW s \in kit
          PROVE  z.owed[s] - Count(z.payloads, s)
                   = x.owed[s] - Cardinality(Among(ripe, s, n + 1))
      <3>1. /\ Cardinality(Among(ripe, s, n)) \in Nat
            /\ Cardinality(Among(ripe, s, n + 1))
                 = Cardinality(Among(ripe, s, n)) + (IF p.slot = s THEN 1 ELSE 0)
        BY <1>9, <2>1, AmongGrows
      <3>2. y.owed[s] - Count(y.payloads, s) = x.owed[s] - Cardinality(Among(ripe, s, n))
        BY <2>2 DEF Fired
      <3>3. x.owed[s] \in Int BY DEF Mage
      <3>4. z.owed[s] - Count(z.payloads, s)
              = y.owed[s] - Count(y.payloads, s) - (IF p.slot = s THEN 1 ELSE 0)
        BY <2>5
      <3> QED BY ONLY <3>1, <3>2, <3>3, <3>4
    <2>7. \A c \in z.channels : c \in x.channels \/ \E i \in 1..(n+1) : c.slot = ripe[i].slot
      <3>1. \A i \in 1..n : i \in 1..(n+1) BY <2>1
      <3>2. n + 1 \in 1..(n+1) BY <2>1
      <3> QED BY <2>2, <2>5, <3>1, <3>2 DEF Fired
    <2>8. Spared(x, z) BY <2>2, <2>5 DEF Fired, Spared
    <2>9. Fired(x, ripe, z, n + 1) BY <2>5, <2>6, <2>7, <2>8 DEF Fired
    <2> QED BY <2>1, <2>9 DEF S, z
  <1>10. 0..N \subseteq S
    <2>1. S \in SUBSET Nat OBVIOUS
    <2>2. \A n \in S : n < N => n + 1 \in S BY <1>9
    <2>3. N \in Nat BY <1>0
    <2> HIDE DEF S
    <2> HIDE DEF N
    <2> QED BY <1>8, <2>1, <2>2, <2>3, Induction
  <1>11. N \in S
    <2>1. N \in 0..N BY <1>0
    <2> QED BY <1>10, <2>1
  <1> QED BY <1>1, <1>11

\* Working the queue off takes from what is owed what it takes from the queue, and
\* starts no spin that was not queued.
LEMMA RunDue ==
  ASSUME NEW x \in Mage, NEW T \in SUBSET Impact, x.payloads \in Seq(T),
         \A p \in T : p.slot \in Walking => p.due, NEW last
  PROVE  LET y == RunDuePayloads(x, last) IN
         /\ Spared(x, y) /\ y.payloads \in Seq(Calm)
         /\ \A s \in kit : y.owed[s] - Count(y.payloads, s) = x.owed[s] - Count(x.payloads, s)
         /\ \A c \in y.channels : c \in x.channels \/ \E p \in T : c.slot = p.slot
  <1> DEFINE ripe == Due(x.payloads)
             rest == Undue(x.payloads)
             z == FireAll(x, last)
             q == z.payloads \o rest
             y == RunDuePayloads(x, last)
  <1>1. ripe \in Seq({p \in T : p.due = TRUE}) /\ rest \in Seq({p \in T : p.due = FALSE})
    BY MarkedKeeps DEF Due, Undue
  <1>2. {p \in T : p.due = TRUE} \subseteq Impact /\ {p \in T : p.due = TRUE} \subseteq T
        /\ {p \in T : p.due = FALSE} \subseteq Calm /\ Calm \subseteq Impact
    BY DEF Calm, Impact
  <1>3. ripe \in Seq(Impact) /\ ripe \in Seq(T) /\ rest \in Seq(Calm) BY <1>1, <1>2
  <1> HIDE DEF ripe
  <1> HIDE DEF rest
  <1>4. Fired(x, ripe, z, Len(ripe)) BY <1>3, FireAllFires DEF ripe
  <1> HIDE DEF z
  <1>5. z \in Mage /\ z.payloads \in Seq(Calm) BY <1>4 DEF Fired, Spared
  <1>6. q \in Seq(Calm) BY <1>3, <1>5
  <1>7. q \in Seq(Impact) BY <1>2, <1>6
  <1>8. \A s : /\ Count(q, s) = Count(z.payloads, s) + Count(rest, s)
               /\ Count(z.payloads, s) \in Nat /\ Count(rest, s) \in Nat
    BY <1>3, <1>5, CountConcat, CountNat
  <1>9. y = [z EXCEPT !.payloads = q] BY DEF RunDuePayloads, z, rest
  <1> HIDE DEF q
  <1>10. /\ y \in Mage /\ y.payloads = q /\ y.owed = z.owed /\ y.channels = z.channels
         /\ y.order = z.order /\ y.actionDones = z.actionDones /\ y.open = z.open
         /\ y.cooling = z.cooling /\ Aside(z, y)
    BY <1>5, <1>7, <1>9 DEF Mage
  <1> HIDE DEF y
  <1>11. Spared(x, y)
    <2>1. Spared(x, z) BY <1>4 DEF Fired
    <2>2. DropsNone(z) => DropsNone(y) BY <1>10 DEF DropsNone
    <2>3. \A U : Answered(z, U) => Answered(y, U) BY <1>10 DEF Answered, Underway
    <2> QED BY <1>10, <2>1, <2>2, <2>3 DEF Spared
  <1>12. ASSUME NEW s \in kit
         PROVE  y.owed[s] - Count(y.payloads, s) = x.owed[s] - Count(x.payloads, s)
    <2>1. z.owed[s] - Count(z.payloads, s) = x.owed[s] - Cardinality(Among(ripe, s, Len(ripe)))
      BY <1>4 DEF Fired
    <2>2. Cardinality(Among(ripe, s, Len(ripe))) = Count(ripe, s) BY <1>3, AmongAll
    <2>3. Count(ripe, s) + Count(rest, s) = Count(x.payloads, s)
      <3>1. \A p \in T : p.due \in BOOLEAN BY DEF Impact
      <3> QED BY <3>1, DueAndUndue DEF ripe, rest
    <2>4. x.owed[s] \in Int /\ z.owed[s] \in Int BY <1>5 DEF Mage
    <2>5. Count(ripe, s) \in Nat BY <1>3, CountNat
    <2>6. y.owed[s] = z.owed[s] /\ Count(y.payloads, s) = Count(z.payloads, s) + Count(rest, s)
      BY <1>8, <1>10
    <2> QED BY <1>8, <2>1, <2>2, <2>3, <2>4, <2>5, <2>6
  <1>13. \A c \in y.channels : c \in x.channels \/ \E p \in T : c.slot = p.slot
    <2>1. \A i \in 1..Len(ripe) : ripe[i] \in T BY <1>3
    <2> QED BY <1>4, <1>10, <2>1 DEF Fired
  <1> QED BY <1>6, <1>10, <1>11, <1>12, <1>13 DEF y

-----------------------------------------------------------------------------
(***************************************************************************)
(* A cast, and the orders that may lead to one.                            *)
(***************************************************************************)
\* The impact of s that a cast queues.
Queued(s, t) == [slot |-> s, target |-> t, flown |-> FALSE, due |-> s \in Instant]

\* A cast that is paid for owes one impact and queues it.
LEMMA CommittedOwes ==
  ASSUME NEW x \in Mage, NEW s \in kit, NEW t \in Victims \cup {Nobody}
  PROVE  LET y == Committed(x, s, t) IN
         /\ y \in Mage
         /\ y.order = x.order /\ y.actionDones = x.actionDones /\ y.open = x.open
         /\ y.cooling = x.cooling \cup {s} /\ y.channels \subseteq x.channels /\ Aside(x, y)
         /\ y.payloads = Append(x.payloads, Queued(s, t))
         /\ \A r \in kit : y.owed[r] = x.owed[r] + (IF r = s THEN 1 ELSE 0)
  <1> DEFINE a == IF s \in Channels THEN Nobody ELSE x.attackTarget
             o == [x.owed EXCEPT ![s] = @ + 1]
             q == Append(x.payloads, Queued(s, t))
             k == x.cooling \cup {s}
             x1 == [x EXCEPT !.cooling = k]
             x2 == [x1 EXCEPT !.owed = o]
             x3 == [x2 EXCEPT !.hasDest = FALSE]
             x4 == [x3 EXCEPT !.attackTarget = a]
             x5 == [x4 EXCEPT !.payloads = q]
  <1>1. Queued(s, t) \in Impact BY DEF Queued, Impact
  <1>2. /\ a \in Prey \cup {Nobody} /\ k \subseteq kit
        /\ o \in [kit -> Int] /\ \A r \in kit : o[r] = x.owed[r] + (IF r = s THEN 1 ELSE 0)
    <2>1. x.attackTarget \in Prey \cup {Nobody} /\ x.cooling \subseteq kit BY DEF Mage
    <2>2. x.owed \in [kit -> Int] BY DEF Mage
    <2> QED BY <2>1, <2>2
  <1>3. q \in Seq(Impact)
    <2>1. x.payloads \in Seq(Impact) BY DEF Mage
    <2> QED BY <1>1, <2>1
  <1>4. Committed(x, s, t) = BreakInterruptibleChannels(x5) BY DEF Committed, Queued
  <1> HIDE DEF a
  <1> HIDE DEF o
  <1> HIDE DEF q
  <1> HIDE DEF k
  <1>5. /\ x1 \in Mage /\ x1.cooling = k
        /\ x1.order = x.order /\ x1.actionDones = x.actionDones /\ x1.open = x.open
        /\ x1.channels = x.channels /\ Aside(x, x1)
    BY <1>2 DEF Mage
  <1> HIDE DEF x1
  <1>6. /\ x2 \in Mage /\ x2.cooling = k /\ x2.owed = o
        /\ x2.order = x.order /\ x2.actionDones = x.actionDones /\ x2.open = x.open
        /\ x2.channels = x.channels /\ Aside(x, x2)
    BY <1>2, <1>5 DEF Mage
  <1> HIDE DEF x2
  <1>7. /\ x3 \in Mage /\ x3.cooling = k /\ x3.owed = o
        /\ x3.order = x.order /\ x3.actionDones = x.actionDones /\ x3.open = x.open
        /\ x3.channels = x.channels /\ Aside(x, x3)
    BY <1>6 DEF Mage
  <1> HIDE DEF x3
  <1>8. /\ x4 \in Mage /\ x4.cooling = k /\ x4.owed = o
        /\ x4.order = x.order /\ x4.actionDones = x.actionDones /\ x4.open = x.open
        /\ x4.channels = x.channels /\ Aside(x, x4)
    BY <1>2, <1>7 DEF Mage
  <1> HIDE DEF x4
  <1>9. /\ x5 \in Mage /\ x5.cooling = k /\ x5.owed = o /\ x5.payloads = q
        /\ x5.order = x.order /\ x5.actionDones = x.actionDones /\ x5.open = x.open
        /\ x5.channels = x.channels /\ Aside(x, x5)
    BY <1>3, <1>8 DEF Mage
  <1> HIDE DEF x5
  <1> DEFINE y == BreakInterruptibleChannels(x5)
  <1>10. Alike(x5, y) BY <1>9, BreakAlike
  <1>11. y.channels \subseteq x5.channels BY <1>9 DEF BreakInterruptibleChannels, Mage
  <1> HIDE DEF y
  <1>12. /\ y \in Mage /\ y.cooling = k /\ y.owed = o /\ y.payloads = q
         /\ y.order = x.order /\ y.actionDones = x.actionDones /\ y.open = x.open
         /\ y.channels \subseteq x.channels /\ Aside(x, y)
    BY <1>9, <1>10, <1>11 DEF Alike
  <1> QED BY <1>2, <1>4, <1>12 DEF y, k, q

\* A cast answers its order at once, or with its end; no approach is left under way.
LEMMA Cast ==
  ASSUME NEW x, NEW s \in kit, NEW t \in Victims \cup {Nobody}, NEW able \in BOOLEAN,
         NEW last, Booked(x, {s}), x.order = Nobody
  PROVE  LET y == ExecCast(x, s, t, able, last) IN
         Booked(y, {}) /\ y.order = Nobody /\ y.cooling \subseteq x.cooling \cup {s}
  <1>1. CASE ~able \/ s \in x.cooling
    <2>1. ExecCast(x, s, t, able, last) = OrderDone(x, s) BY <1>1 DEF ExecCast
    <2> QED BY <2>1, Done
  <1>2. CASE ~(~able \/ s \in x.cooling)
    <2> DEFINE y == Committed(x, s, t)
               z == IF s \in Instant THEN RunDuePayloads(y, last) ELSE y
               d == [slot |-> s, target |-> t, due |-> FALSE]
               l == IF s \in Walking THEN Nobody ELSE s
               q == Append(z.actionDones, d)
               w == [z EXCEPT !.actionDones = q]
               v == [w EXCEPT !.castLock = l]
               T == {p \in Impact : p.slot \in Walking => p.due}
    <2>0. x \in Mage BY DEF Booked
    <2>1. ExecCast(x, s, t, able, last) = v BY <1>2 DEF ExecCast
    <2>2. /\ y \in Mage
          /\ y.order = x.order /\ y.actionDones = x.actionDones /\ y.open = x.open
          /\ y.cooling = x.cooling \cup {s} /\ y.channels \subseteq x.channels /\ Aside(x, y)
          /\ y.payloads = Append(x.payloads, Queued(s, t))
          /\ \A r \in kit : y.owed[r] = x.owed[r] + (IF r = s THEN 1 ELSE 0)
      BY <2>0, CommittedOwes
    <2>3. d \in Ending /\ l \in kit \cup {Nobody} /\ d.slot = s BY DEF Ending
    <2>4. Queued(s, t) \in T /\ Queued(s, t) \in Impact /\ Queued(s, t).slot = s
      <3> DEFINE e == Queued(s, t)
      <3>1. e \in Impact /\ e.slot = s BY DEF Queued, Impact
      <3>2. s \in Walking => s \in Instant BY CastAssumption
      <3>3. e.slot \in Walking => e.due
        <4>1. e.due = (s \in Instant) BY DEF Queued
        <4> HIDE DEF e
        <4> QED BY <3>1, <3>2, <4>1
      <3> HIDE DEF e
      <3>4. e \in T BY <3>1, <3>3
      <3> QED BY <3>1, <3>4 DEF e
    <2>5. x.payloads \in Seq(Calm) BY DEF Booked, SpinsAlone
    <2>6. x.payloads \in Seq(T) /\ x.payloads \in Seq(Impact)
      <3>1. Calm \subseteq T /\ Calm \subseteq Impact BY DEF Calm
      <3> HIDE DEF T
      <3> QED BY <2>5, <3>1
    <2> HIDE DEF y
    <2> HIDE DEF d
    <2> HIDE DEF l
    <2> HIDE DEF T
    <2>7. y.payloads \in Seq(T) BY <2>2, <2>4, <2>6
    <2>8. \A r \in kit : y.owed[r] = Count(y.payloads, r)
      <3> TAKE r \in kit
      <3>1. Count(y.payloads, r) = Count(x.payloads, r) + (IF s = r THEN 1 ELSE 0)
        BY <2>2, <2>4, <2>6, CountAppend
      <3>2. x.owed[r] = Count(x.payloads, r) BY DEF Booked, Landed
      <3> QED BY <2>2, <3>1, <3>2
    <2>9. /\ Spared(y, z) /\ z.payloads \in Seq(Calm)
          /\ \A r \in kit : z.owed[r] = Count(z.payloads, r)
      <3>1. CASE s \in Instant
        <4>1. z = RunDuePayloads(y, last) BY <3>1
        <4>2. T \in SUBSET Impact /\ \A p \in T : p.slot \in Walking => p.due BY DEF T
        <4> HIDE DEF z
        <4>3. /\ Spared(y, z) /\ z.payloads \in Seq(Calm)
              /\ \A r \in kit : z.owed[r] - Count(z.payloads, r) = y.owed[r] - Count(y.payloads, r)
          <5> DEFINE u == RunDuePayloads(y, last)
          <5>1. /\ Spared(y, u) /\ u.payloads \in Seq(Calm)
                /\ \A r \in kit : u.owed[r] - Count(u.payloads, r) = y.owed[r] - Count(y.payloads, r)
            BY ONLY <2>2, <2>7, <4>2, RunDue
          <5> HIDE DEF u
          <5>2. z = u BY <4>1 DEF u
          <5> QED BY <5>1, <5>2
        <4>4. ASSUME NEW r \in kit PROVE z.owed[r] = Count(z.payloads, r)
          <5>1. z.owed[r] \in Int /\ y.owed[r] \in Int BY <2>2, <4>3 DEF Spared, Mage
          <5>2. z.payloads \in Seq(Impact) BY <4>3 DEF Spared, Mage
          <5>3. Count(z.payloads, r) \in Nat BY <5>2, CountNat
          <5>4. y.owed[r] = Count(y.payloads, r) BY <2>8
          <5>5. z.owed[r] - Count(z.payloads, r) = y.owed[r] - Count(y.payloads, r) BY <4>3
          <5> QED BY ONLY <5>1, <5>3, <5>4, <5>5
        <4> QED BY <4>3, <4>4
      <3>2. CASE s \notin Instant
        <4>1. z = y BY <3>2
        <4>2. Queued(s, t) \in Calm BY <2>4, <3>2, CastAssumption DEF Calm
        <4>3. y.payloads \in Seq(Calm) BY <2>2, <2>5, <4>2
        <4> HIDE DEF z
        <4>4. Spared(y, y) BY <2>2 DEF Spared
        <4> QED BY <2>8, <4>1, <4>3, <4>4
      <3> QED BY <3>1, <3>2
    <2> HIDE DEF z
    <2>10. z \in Mage /\ z.actionDones \in Seq(Ending) BY <2>9 DEF Spared, Mage
    <2>11. q \in Seq(Ending) BY <2>3, <2>10
    <2>12. \A r : Count(q, r) = Count(z.actionDones, r) + (IF s = r THEN 1 ELSE 0)
      BY <2>3, <2>10, CountAppend
    <2> HIDE DEF q
    <2>13. /\ w \in Mage /\ w.actionDones = q /\ w.payloads = z.payloads /\ w.owed = z.owed
           /\ w.order = z.order /\ w.open = z.open /\ w.cooling = z.cooling /\ Aside(z, w)
      BY <2>10, <2>11 DEF Mage
    <2> HIDE DEF w
    <2>14. /\ v \in Mage /\ v.actionDones = q /\ v.payloads = z.payloads /\ v.owed = z.owed
           /\ v.order = z.order /\ v.open = z.open /\ v.cooling = z.cooling /\ Aside(z, v)
      BY <2>3, <2>13 DEF Mage
    <2> HIDE DEF v
    <2>15. z.order = Nobody /\ v.order = Nobody /\ v.cooling = x.cooling \cup {s}
      BY <2>2, <2>9, <2>14 DEF Spared
    <2>16. Answered(v, {})
      <3>1. Answered(x, {s}) BY DEF Booked
      <3>2. Answered(y, {s}) BY <2>2, <3>1 DEF Answered, Underway
      <3>3. Answered(z, {s}) BY <2>9, <3>2 DEF Spared
      <3> SUFFICES ASSUME NEW r \in kit
                   PROVE  v.open[r] = Count(v.actionDones, r) + Underway(v, r)
                                        + v.dropped[r] + (IF r \in {} THEN 1 ELSE 0)
        BY DEF Answered
      <3>4. z.open[r] = Count(z.actionDones, r) + Underway(z, r)
                          + z.dropped[r] + (IF r \in {s} THEN 1 ELSE 0)
        BY <3>3 DEF Answered
      <3>5. Underway(z, r) = 0 /\ Underway(v, r) = 0 BY <2>15 DEF Underway
      <3>6. Count(z.actionDones, r) \in Nat BY <2>10, CountNat
      <3>7. z.dropped \in [kit -> Nat] BY <2>10 DEF Mage
      <3>8. z.dropped[r] \in Nat BY <3>7
      <3>9. /\ v.open[r] = z.open[r] /\ v.dropped[r] = z.dropped[r]
            /\ Count(v.actionDones, r) = Count(z.actionDones, r) + (IF s = r THEN 1 ELSE 0)
        BY <2>12, <2>14
      <3> QED BY ONLY <3>4, <3>5, <3>6, <3>8, <3>9
    <2>17. Landed(v) BY <2>9, <2>14 DEF Landed
    <2>18. SpinsAlone(v) BY <2>9, <2>14, <2>15 DEF SpinsAlone
    <2>19. DropsNone(v)
      <3>1. DropsNone(y) BY <2>2 DEF Booked, DropsNone
      <3>2. DropsNone(z) BY <2>9, <3>1 DEF Spared
      <3> QED BY <2>14, <3>2 DEF DropsNone
    <2> QED BY <2>1, <2>14, <2>15, <2>16, <2>17, <2>18, <2>19 DEF Booked
  <1> QED BY <1>1, <1>2

\* He sets out: the order that is owed is the one under way.
LEMMA SetsOut ==
  ASSUME NEW x, NEW s \in kit, NEW t \in Victims \cup {Nobody}, Booked(x, {s}),
         kit \in Kits, x.order = Nobody, \A c \in x.channels : c.slot \in Walking => c.due
  PROVE  LET y == Chase([x EXCEPT !.order = [slot |-> s, target |-> t]], TRUE) IN
         Booked(y, {}) /\ y.cooling = x.cooling
  <1> DEFINE o == [slot |-> s, target |-> t]
             z == [x EXCEPT !.order = o]
             y == Chase(z, TRUE)
  <1>1. x \in Mage BY DEF Booked
  <1>2. o \in Order /\ o.slot = s BY DEF Order
  <1>3. o # Nobody
    <2>1. kit \subseteq Skills BY CastAssumption
    <2>2. Order \subseteq [slot : Skills, target : Prey \cup Rivals \cup {Nobody}]
      BY <2>1 DEF Order, Victims
    <2> HIDE DEF o
    <2> QED BY <1>2, <2>2, CastAssumption
  <1> HIDE DEF o
  <1>4. /\ z \in Mage /\ z.order = o /\ z.payloads = x.payloads /\ z.actionDones = x.actionDones
        /\ z.open = x.open /\ z.owed = x.owed /\ z.cooling = x.cooling
        /\ z.channels = x.channels /\ Aside(x, z)
    BY <1>1, <1>2 DEF Mage
  <1> HIDE DEF z
  <1>5. Answered(z, {})
    <2> SUFFICES ASSUME NEW r \in kit
                 PROVE  z.open[r] = Count(z.actionDones, r) + Underway(z, r)
                                      + z.dropped[r] + (IF r \in {} THEN 1 ELSE 0)
      BY DEF Answered
    <2>1. x.open[r] = Count(x.actionDones, r) + Underway(x, r)
                      + x.dropped[r] + (IF r \in {s} THEN 1 ELSE 0)
      BY DEF Booked, Answered
    <2>2. Underway(x, r) = 0 BY DEF Underway
    <2>3. Underway(z, r) = IF r = s THEN 1 ELSE 0 BY <1>2, <1>3, <1>4 DEF Underway
    <2>4. x.actionDones \in Seq(Ending) /\ x.dropped \in [kit -> Nat] BY <1>1 DEF Mage
    <2>5. Count(x.actionDones, r) \in Nat /\ x.dropped[r] \in Nat BY <2>4, CountNat
    <2> QED BY <1>4, <2>1, <2>2, <2>3, <2>5
  <1>6. Landed(z) /\ DropsNone(z) BY <1>4 DEF Booked, Landed, DropsNone
  <1>7. SpinsAlone(z) BY <1>4 DEF Booked, SpinsAlone
  <1>8. Booked(z, {}) BY <1>4, <1>5, <1>6, <1>7 DEF Booked
  <1>9. Alike(z, y) BY <1>4, ChaseAlike
  <1> HIDE DEF y
  <1>10. Booked(y, {}) /\ y.cooling = x.cooling BY <1>4, <1>8, <1>9, AlikeBooked DEF Alike
  <1> QED BY <1>10 DEF y, z, o

-----------------------------------------------------------------------------
(***************************************************************************)
(* The endings that are due.                                               *)
(***************************************************************************)
\* What closing an action leaves alone.
Unclosed(x, y) ==
  /\ y \in Mage
  /\ y.order = x.order /\ y.actionDones = x.actionDones /\ y.payloads = x.payloads
  /\ y.owed = x.owed /\ y.cooling = x.cooling /\ Aside(x, y)
  /\ \A c \in y.channels : c \in x.channels \/ c.due

\* One ending answers one order.
LEMMA CloseOne ==
  ASSUME NEW x \in Mage, NEW d \in Ending, NEW near \in Prey \cup {Nobody}
  PROVE  LET y == CloseAction(x, d, near) IN
         /\ Unclosed(x, y)
         /\ \A s \in kit : y.open[s] = x.open[s] - (IF d.slot = s THEN 1 ELSE 0)
  <1> DEFINE o == [x.open EXCEPT ![d.slot] = @ - 1]
             z == OrderDone(x, d.slot)
             y == CloseAction(x, d, near)
  <1>1. x.open \in [kit -> Int] /\ d.slot \in kit BY DEF Mage, Ending
  <1>2. o \in [kit -> Int] /\ \A s \in kit : o[s] = x.open[s] - (IF d.slot = s THEN 1 ELSE 0)
    BY <1>1
  <1>3. z = [x EXCEPT !.open = o] BY DEF OrderDone
  <1> HIDE DEF o
  <1>4. /\ z \in Mage /\ z.open = o /\ z.order = x.order /\ z.payloads = x.payloads
        /\ z.actionDones = x.actionDones /\ z.owed = x.owed /\ z.cooling = x.cooling
        /\ z.channels = x.channels /\ Aside(x, z)
    BY <1>2, <1>3 DEF Mage
  <1>5. y = IF d.slot \in Channels THEN z ELSE ResumeAutoAttack(z, d.target, near)
    BY DEF CloseAction
  <1> HIDE DEF z
  <1> HIDE DEF y
  <1>6. Alike(z, z) /\ Alike(z, ResumeAutoAttack(z, d.target, near))
    BY <1>4, ResumeAlike DEF Alike
  <1>7. Alike(z, y) BY <1>5, <1>6
  <1> QED BY <1>2, <1>4, <1>7 DEF Alike, Unclosed, y

CloseLoop(x, ripe, near, f) ==
  f = [i \in 0..Len(ripe) |-> IF i = 0 THEN x ELSE CloseAction(f[i-1], ripe[i], near)]

\* After n endings of ripe.
Closed(x, ripe, y, n) ==
  /\ Unclosed(x, y)
  /\ \A s \in kit : y.open[s] = x.open[s] - Cardinality(Among(ripe, s, n))

\* The loop over the endings that are due: each answers its order.
LEMMA CloseAllCloses ==
  ASSUME NEW x \in Mage, NEW near \in Prey \cup {Nobody}, NEW ripe \in Seq(Ending),
         ripe = Due(x.actionDones)
  PROVE  Closed(x, ripe, CloseAll(x, near), Len(ripe))
  <1> DEFINE f == CHOOSE f : CloseLoop(x, ripe, near, f)
             N == Len(ripe)
  <1>0. N \in Nat /\ \A i \in 1..N : ripe[i] \in Ending OBVIOUS
  <1>1. CloseAll(x, near) = f[N] BY DEF CloseAll, CloseLoop
  <1>4. \A y \in Mage : \A d \in Ending : CloseAction(y, d, near) \in Mage
    BY CloseOne DEF Unclosed
  <1>5. \E h : CloseLoop(x, ripe, near, h)
    <2> DEFINE g == [z \in Mage \X (1..N) |-> CloseAction(z[1], ripe[z[2]], near)]
    <2>1. g \in [Mage \X (1..N) -> Mage] BY <1>0, <1>4
    <2>2. \A v \in Mage, i \in 1..N : g[<<v, i>>] = CloseAction(v, ripe[i], near) OBVIOUS
    <2>3. PICK h \in [0..N -> Mage] : h[0] = x /\ \A i \in 1..N : h[i] = g[<<h[i-1], i>>]
      <3>1. N \in Nat BY <1>0
      <3> HIDE DEF g
      <3> HIDE DEF N
      <3>2. \E h \in [0..N -> Mage] : Run(h, x, N, g) BY <2>1, <3>1, Iterates
      <3> QED BY <3>2 DEF Run
    <2> HIDE DEF g
    <2>4. ASSUME NEW i \in 1..N PROVE h[i] = CloseAction(h[i-1], ripe[i], near)
      <3>1. i - 1 \in 0..N BY <1>0
      <3>2. h[i-1] \in Mage BY <2>3, <3>1
      <3> QED BY <2>2, <2>3, <3>2
    <2>5. CloseLoop(x, ripe, near, h)
      <3>1. \A i \in 0..N : h[i] = IF i = 0 THEN x ELSE CloseAction(h[i-1], ripe[i], near)
        <4> TAKE i \in 0..N
        <4>1. i = 0 \/ i \in 1..N BY <1>0
        <4> QED BY <2>3, <2>4, <4>1
      <3>2. h = [i \in 0..N |-> h[i]] OBVIOUS
      <3> QED BY <3>1, <3>2 DEF CloseLoop
    <2> QED BY <2>5
  <1>6. CloseLoop(x, ripe, near, f) BY <1>5
  <1> HIDE DEF f
  <1>7. f[0] = x /\ \A i \in 1..N : f[i] = CloseAction(f[i-1], ripe[i], near)
    <2>1. 0 \in 0..N /\ \A i \in 1..N : i \in 0..N /\ i # 0 BY <1>0
    <2> QED BY <1>6, <2>1 DEF CloseLoop
  <1> DEFINE S == {n \in 0..N : Closed(x, ripe, f[n], n)}
  <1>8. 0 \in S
    <2>1. \A s : Cardinality(Among(ripe, s, 0)) = 0 BY AmongAll
    <2>2. \A s \in kit : x.open[s] \in Int BY DEF Mage
    <2>3. \A s \in kit : x.open[s] = x.open[s] - Cardinality(Among(ripe, s, 0))
      BY <2>1, <2>2
    <2>4. Closed(x, ripe, x, 0) BY <2>3 DEF Closed, Unclosed
    <2> QED BY <1>0, <1>7, <2>4
  <1>9. ASSUME NEW n \in S, n < N PROVE n + 1 \in S
    <2> DEFINE y == f[n]
               z == f[n+1]
               d == ripe[n+1]
    <2>1. n \in 0..N /\ n + 1 \in 1..N /\ n + 1 \in 0..N BY <1>0, <1>9
    <2>2. Closed(x, ripe, y, n) OBVIOUS
    <2>3. z = CloseAction(y, d, near) /\ d \in Ending
      <3>1. (n + 1) - 1 = n BY <2>1
      <3> QED BY <1>0, <1>7, <2>1, <3>1
    <2> HIDE DEF S
    <2> HIDE DEF y
    <2> HIDE DEF z
    <2>4. y \in Mage BY <2>2 DEF Closed, Unclosed
    <2>5. /\ Unclosed(y, z)
          /\ \A s \in kit : z.open[s] = y.open[s] - (IF d.slot = s THEN 1 ELSE 0)
      BY <2>3, <2>4, CloseOne
    <2>6. ASSUME NEW s \in kit
          PROVE  z.open[s] = x.open[s] - Cardinality(Among(ripe, s, n + 1))
      <3>1. /\ Cardinality(Among(ripe, s, n)) \in Nat
            /\ Cardinality(Among(ripe, s, n + 1))
                 = Cardinality(Among(ripe, s, n)) + (IF d.slot = s THEN 1 ELSE 0)
        BY <1>9, <2>1, AmongGrows
      <3>2. y.open[s] = x.open[s] - Cardinality(Among(ripe, s, n)) BY <2>2 DEF Closed
      <3>3. x.open[s] \in Int BY DEF Mage
      <3>4. z.open[s] = y.open[s] - (IF d.slot = s THEN 1 ELSE 0) BY <2>5
      <3> QED BY ONLY <3>1, <3>2, <3>3, <3>4
    <2>8. Unclosed(x, z) BY <2>2, <2>5 DEF Closed, Unclosed
    <2>9. Closed(x, ripe, z, n + 1) BY <2>6, <2>8 DEF Closed
    <2> QED BY <2>1, <2>9 DEF S, z
  <1>10. 0..N \subseteq S
    <2>1. S \in SUBSET Nat OBVIOUS
    <2>2. \A n \in S : n < N => n + 1 \in S BY <1>9
    <2>3. N \in Nat BY <1>0
    <2> HIDE DEF S
    <2> HIDE DEF N
    <2> QED BY <1>8, <2>1, <2>2, <2>3, Induction
  <1>11. N \in S
    <2>1. N \in 0..N BY <1>0
    <2> QED BY <1>10, <2>1
  <1> QED BY <1>1, <1>11

\* So the orders still open are those of the endings still queued.
LEMMA CloseBooked ==
  ASSUME NEW x, NEW near \in Prey \cup {Nobody}, Booked(x, {})
  PROVE  LET y == CloseActions(x, near) IN
         Booked(y, {}) /\ y.order = x.order /\ y.cooling = x.cooling /\ Aside(x, y)
  <1> DEFINE ripe == Due(x.actionDones)
             rest == Undue(x.actionDones)
             z == CloseAll(x, near)
             y == CloseActions(x, near)
             T == {d \in Ending : d.due = TRUE}
             F == {d \in Ending : d.due = FALSE}
  <1>0. x \in Mage /\ x.actionDones \in Seq(Ending) BY DEF Booked, Mage
  <1>1. ripe \in Seq(T) /\ rest \in Seq(F) BY <1>0, MarkedKeeps DEF Due, Undue
  <1>2. ripe \in Seq(Ending) /\ rest \in Seq(Ending)
    <2>1. T \subseteq Ending /\ F \subseteq Ending OBVIOUS
    <2> HIDE DEF T
    <2> HIDE DEF F
    <2> QED BY <1>1, <2>1
  <1>3. \A s : /\ Count(ripe, s) + Count(rest, s) = Count(x.actionDones, s)
               /\ Count(ripe, s) \in Nat /\ Count(rest, s) \in Nat
    <2>1. \A d \in Ending : d.due \in BOOLEAN BY DEF Ending
    <2> QED BY <1>0, <1>2, <2>1, DueAndUndue, CountNat
  <1>4. Closed(x, ripe, z, Len(ripe)) BY <1>0, <1>2, CloseAllCloses
  <1>5. \A s : Cardinality(Among(ripe, s, Len(ripe))) = Count(ripe, s) BY <1>2, AmongAll
  <1>6. y = [z EXCEPT !.actionDones = rest]
    <2>1. z.actionDones = x.actionDones BY <1>4 DEF Closed, Unclosed
    <2> QED BY <2>1 DEF CloseActions
  <1> HIDE DEF z
  <1> HIDE DEF ripe
  <1> HIDE DEF rest
  <1>7. z \in Mage BY <1>4 DEF Closed, Unclosed
  <1>8. /\ y \in Mage /\ y.actionDones = rest /\ y.order = z.order /\ y.payloads = z.payloads
        /\ y.open = z.open /\ y.owed = z.owed /\ y.cooling = z.cooling
        /\ y.channels = z.channels /\ Aside(z, y)
    BY <1>2, <1>6, <1>7 DEF Mage
  <1> HIDE DEF y
  <1>9. /\ y.order = x.order /\ y.payloads = x.payloads /\ y.owed = x.owed
        /\ y.cooling = x.cooling /\ Aside(x, y)
        /\ \A c \in y.channels : c \in x.channels \/ c.due
    BY <1>4, <1>8 DEF Closed, Unclosed
  <1>10. Answered(y, {})
    <2> SUFFICES ASSUME NEW s \in kit
                 PROVE  y.open[s] = Count(y.actionDones, s) + Underway(y, s)
                                      + y.dropped[s] + (IF s \in {} THEN 1 ELSE 0)
      BY DEF Answered
    <2>1. x.open[s] = Count(x.actionDones, s) + Underway(x, s)
                      + x.dropped[s] + (IF s \in {} THEN 1 ELSE 0)
      BY DEF Booked, Answered
    <2>2. Underway(x, s) = Underway(y, s) /\ Underway(x, s) \in Nat BY <1>9 DEF Underway
    <2>3. y.open[s] = x.open[s] - Count(ripe, s) BY <1>4, <1>5, <1>8 DEF Closed
    <2>4. x.dropped \in [kit -> Nat] BY <1>0 DEF Mage
    <2>5. x.dropped[s] \in Nat /\ y.dropped[s] = x.dropped[s] BY <1>9, <2>4
    <2> QED BY <1>3, <1>8, <2>1, <2>2, <2>3, <2>5
  <1>11. Landed(y) /\ DropsNone(y) BY <1>9 DEF Booked, Landed, DropsNone
  <1>12. SpinsAlone(y) BY <1>9 DEF Booked, SpinsAlone
  <1> QED BY <1>8, <1>9, <1>10, <1>11, <1>12 DEF Booked, y

\* In reach he casts the order that was under way.
LEMMA TickOrderBooked ==
  ASSUME NEW x, NEW z \in TickOrder(x), Booked(x, {})
  PROVE  Booked(z, {}) /\ (x.order = Nobody => z = x)
  <1> DEFINE o == x.order
             u == o.slot
             y == [x EXCEPT !.order = Nobody]
  <1>0. x \in Mage BY DEF Booked
  <1>1. CASE o = Nobody
    <2>1. z = x BY <1>1 DEF TickOrder
    <2> QED BY <2>1
  <1>2. CASE o # Nobody
    <2>1. u \in kit /\ o.target \in Victims \cup {Nobody} BY <1>0, <1>2 DEF Mage, Order
    <2>2. /\ y \in Mage /\ y.order = Nobody /\ y.payloads = x.payloads
          /\ y.actionDones = x.actionDones /\ y.owed = x.owed /\ y.open = x.open
          /\ y.cooling = x.cooling /\ y.channels = x.channels /\ Aside(x, y)
      BY <1>0 DEF Mage
    <2>3. \/ z = OrderDone(y, u)
          \/ \E able \in BOOLEAN, last \in Finishers(y) : z = ExecCast(y, u, o.target, able, last)
          \/ \E go \in BOOLEAN : z = Chase(x, go)
      BY <1>2 DEF TickOrder
    <2> HIDE DEF y
    <2>4. Booked(y, {u})
      <3>1. Answered(y, {u})
        <4> SUFFICES ASSUME NEW s \in kit
                     PROVE  y.open[s] = Count(y.actionDones, s) + Underway(y, s)
                                          + y.dropped[s] + (IF s \in {u} THEN 1 ELSE 0)
          BY DEF Answered
        <4>1. x.open[s] = Count(x.actionDones, s) + Underway(x, s)
                          + x.dropped[s] + (IF s \in {} THEN 1 ELSE 0)
          BY DEF Booked, Answered
        <4>2. Underway(y, s) = 0 /\ Underway(x, s) = (IF s = u THEN 1 ELSE 0)
          BY <1>2, <2>2 DEF Underway
        <4>3. x.actionDones \in Seq(Ending) /\ x.dropped \in [kit -> Nat] BY <1>0 DEF Mage
        <4>4. Count(x.actionDones, s) \in Nat /\ x.dropped[s] \in Nat BY <4>3, CountNat
        <4> QED BY <2>2, <4>1, <4>2, <4>4
      <3>2. Landed(y) /\ SpinsAlone(y) /\ DropsNone(y)
        BY <2>2 DEF Booked, Landed, SpinsAlone, DropsNone
      <3> QED BY <2>2, <3>1, <3>2 DEF Booked
    <2>5. CASE z = OrderDone(y, u) BY <1>2, <2>1, <2>4, <2>5, Done
    <2>6. CASE \E able \in BOOLEAN, last \in Finishers(y) : z = ExecCast(y, u, o.target, able, last)
      <3>1. PICK able \in BOOLEAN, last \in Finishers(y) : z = ExecCast(y, u, o.target, able, last)
        BY <2>6
      <3> QED BY <1>2, <2>1, <2>2, <2>4, <3>1, Cast
    <2>7. CASE \E go \in BOOLEAN : z = Chase(x, go) BY <1>0, <1>2, <2>7, ChaseAlike, AlikeBooked
    <2> QED BY <2>3, <2>5, <2>6, <2>7
  <1> QED BY <1>1, <1>2

\* Of the channels' pulses one may end the match; the channels that were kept outlive it,
\* but then no approach is under way.
LEMMA PulsesBooked ==
  ASSUME NEW x, NEW z \in Pulses(x), Booked(x, {})
  PROVE  Booked(z, {}) /\ z.cooling = x.cooling /\ z.on = x.on
  <1> DEFINE y == TickChannels(x)
             w == DotaFreeze(y)
             v == [w EXCEPT !.channels = y.channels]
  <1>1. x \in Mage BY DEF Booked
  <1>2. Alike(x, y) BY <1>1, TickChannelsAlike
  <1>3. z = y \/ z = v BY DEF Pulses
  <1> HIDE DEF y
  <1>4. Booked(y, {}) /\ y.cooling = x.cooling /\ y.on = x.on
    BY <1>2, AlikeBooked DEF Alike
  <1>5. /\ Booked(w, {}) /\ w.cooling = y.cooling /\ w.on = y.on
        /\ w = y \/ w.order = Nobody
    BY <1>4, FreezeBooked
  <1> HIDE DEF w
  <1>6. w \in Mage /\ y.channels \subseteq Ending BY <1>4, <1>5 DEF Booked, Mage
  <1>7. /\ v \in Mage /\ v.order = w.order /\ v.payloads = w.payloads /\ v.open = w.open
        /\ v.actionDones = w.actionDones /\ v.owed = w.owed /\ v.cooling = w.cooling
        /\ v.channels = y.channels /\ Aside(w, v)
    BY <1>6 DEF Mage
  <1> HIDE DEF v
  <1>8. Answered(v, {}) /\ Landed(v) /\ DropsNone(v)
    BY <1>5, <1>7 DEF Booked, Answered, Landed, DropsNone, Underway
  <1>9. SpinsAlone(v)
    <2>1. v.payloads \in Seq(Calm) BY <1>5, <1>7 DEF Booked, SpinsAlone
    <2>2. CASE w = y BY <1>4, <1>7, <2>1, <2>2 DEF Booked, SpinsAlone
    <2>3. CASE w.order = Nobody BY <1>7, <2>1, <2>3 DEF SpinsAlone
    <2> QED BY <1>5, <2>2, <2>3
  <1> QED BY <1>3, <1>4, <1>5, <1>7, <1>8, <1>9 DEF Booked

\* No skill starts to cool but a toggle that goes off, and no toggle goes on.
StartsNone(x, y) == y.cooling \ Toggles \subseteq x.cooling /\ y.on \subseteq x.on

\* Toggles that run out of mana, and the match that the pulse of an aura ends.
LEMMA TogglesBooked ==
  ASSUME NEW x, NEW z \in TickToggles(x), Booked(x, {})
  PROVE  Booked(z, {}) /\ StartsNone(x, z)
  <1>1. PICK spent \in SUBSET x.on :
               z = ToggleOff(x, spent) \/ z = DotaFreeze(ToggleOff(x, spent))
    BY DEF TickToggles
  <1> DEFINE y == ToggleOff(x, spent)
  <1>2. /\ Booked(y, {}) /\ y.cooling = x.cooling \cup spent /\ y.on = x.on \ spent
        /\ spent \subseteq Toggles
    BY ToggleOffBooked
  <1>3. z = y \/ z = DotaFreeze(y) BY <1>1
  <1> HIDE DEF y
  <1>4. Booked(DotaFreeze(y), {}) /\ DotaFreeze(y).cooling = y.cooling /\ DotaFreeze(y).on = y.on
    BY <1>2, FreezeBooked
  <1>5. Booked(z, {}) /\ z.cooling = y.cooling /\ z.on = y.on BY <1>2, <1>3, <1>4
  <1> QED BY <1>2, <1>5 DEF StartsNone

-----------------------------------------------------------------------------
(***************************************************************************)
(* The actions.                                                            *)
(***************************************************************************)
CastInv == kit \in Kits /\ Booked(mage, {})

\* A step keeps the books, and starts nothing beside a spin.
Orderly ==
  /\ kit' = kit /\ Booked(mage', {})
  /\ AbilityBlocked(mage) => StartsNone(mage, mage')

\* The ability bar is blocked by a spin that has begun.
LEMMA BlockedBySpin ==
  ASSUME NEW x, NEW U, Booked(x, U)
  PROVE  AbilityBlocked(x) <=> \E c \in x.channels : c.slot \in Walking /\ ~c.due
  <1>1. \A i \in DOMAIN x.payloads : x.payloads[i].slot \notin Walking
    <2>1. x.payloads \in Seq(Calm) BY DEF Booked, SpinsAlone
    <2>2. \A i \in DOMAIN x.payloads : x.payloads[i] \in Calm BY <2>1
    <2> QED BY <2>2 DEF Calm
  <1> QED BY <1>1 DEF AbilityBlocked

\* A step that the books are not about.
LEMMA AlikeOrderly ==
  ASSUME CastInv, kit' = kit, Alike(mage, mage')
  PROVE  Orderly
  BY AlikeBooked DEF CastInv, Orderly, StartsNone, Alike

\* Such a step, and then the approach under way is cancelled.
LEMMA CancelOrderly ==
  ASSUME CastInv, kit' = kit, NEW y, Alike(mage, y), mage' = CancelOrder(y)
  PROVE  Orderly
  <1>1. Booked(y, {}) /\ y.cooling = mage.cooling /\ y.on = mage.on
    BY AlikeBooked DEF CastInv, Alike
  <1>2. /\ Booked(CancelOrder(y), {}) /\ CancelOrder(y).cooling = y.cooling
        /\ CancelOrder(y).on = y.on
    BY <1>1, Cancel
  <1> QED BY <1>1, <1>2 DEF Orderly, StartsNone

\* A skill order cancels the approach under way; beside a spin it is refused.
LEMMA UseSkillStep ==
  ASSUME CastInv, NEW s \in kit \ Toggles, NEW t \in Aims(s), UseSkill(s, t)
  PROVE  Orderly
  <1> DEFINE a == Asked(mage, s)
             x == CancelOrder(a)
             y == Chase([x EXCEPT !.order = [slot |-> s, target |-> t]], TRUE)
  <1>1. /\ Booked(a, {s}) /\ a.cooling = mage.cooling /\ a.channels = mage.channels
        /\ a.on = mage.on
    BY AskedOwes DEF CastInv
  <1>2. /\ Booked(x, {s}) /\ x.order = Nobody /\ x.cooling = mage.cooling
        /\ x.channels = mage.channels /\ x.on = mage.on
    BY <1>1, Cancel
  <1>3. t \in Victims \cup {Nobody} BY DEF Aims
  <1>4. kit' = kit /\ mage' \in SkillOrders(x, s, t) BY DEF UseSkill
  <1>5. \/ mage' = OrderDone(x, s)
        \/ ~Refused(x, s, t) /\ \E last \in Finishers(x) : mage' = ExecCast(x, s, t, TRUE, last)
        \/ ~Refused(x, s, t) /\ mage' = y
    BY <1>4 DEF SkillOrders
  <1> HIDE DEF a
  <1> HIDE DEF x
  <1>6. (\A c \in x.channels : c.slot \in Walking => c.due) \/ Refused(x, s, t)
    BY <1>2, BlockedBySpin DEF Refused, Barred
  <1>7. AbilityBlocked(mage) => Refused(x, s, t)
    <2>1. AbilityBlocked(mage) => AbilityBlocked(x) BY <1>2, BlockedBySpin DEF CastInv
    <2> QED BY <2>1 DEF Refused, Barred
  <1>8. CASE mage' = OrderDone(x, s)
    <2>1. /\ Booked(OrderDone(x, s), {}) /\ OrderDone(x, s).cooling = x.cooling
          /\ OrderDone(x, s).on = x.on
      BY <1>2, Done
    <2> QED BY <1>2, <1>4, <1>8, <2>1 DEF Orderly, StartsNone
  <1>9. CASE ~Refused(x, s, t) /\ \E last \in Finishers(x) : mage' = ExecCast(x, s, t, TRUE, last)
    <2>1. PICK last \in Finishers(x) : mage' = ExecCast(x, s, t, TRUE, last) BY <1>9
    <2>2. Booked(ExecCast(x, s, t, TRUE, last), {}) BY <1>2, <1>3, Cast
    <2> QED BY <1>4, <1>7, <1>9, <2>1, <2>2 DEF Orderly
  <1>10. CASE ~Refused(x, s, t) /\ mage' = y
    <2>1. kit \in Kits BY DEF CastInv
    <2>2. Booked(y, {}) BY <1>2, <1>3, <1>6, <1>10, <2>1, SetsOut
    <2> HIDE DEF y
    <2> QED BY <1>4, <1>7, <1>10, <2>2 DEF Orderly
  <1> QED BY <1>5, <1>8, <1>9, <1>10

\* So does an order that switches a toggle.
LEMMA UseToggleStep ==
  ASSUME CastInv, NEW s \in kit \cap Toggles, UseToggle(s)
  PROVE  Orderly
  <1> DEFINE x == CancelOrder(mage)
             o == x.on \cup {s}
             z == [x EXCEPT !.on = o]
  <1>1. /\ Booked(x, {}) /\ x.order = Nobody /\ x.cooling = mage.cooling
        /\ x.channels = mage.channels /\ x.on = mage.on
    BY Cancel DEF CastInv
  <1>2. /\ kit' = kit
        /\ \/ mage' = x
           \/ ~Barred(x) /\ s \in x.on /\ mage' = ToggleOff(x, {s})
           \/ ~Barred(x) /\ mage' = z
    BY DEF UseToggle, Switched
  <1> HIDE DEF x
  <1>3. AbilityBlocked(mage) => Barred(x)
    <2>1. AbilityBlocked(mage) => AbilityBlocked(x) BY <1>1, BlockedBySpin DEF CastInv
    <2> QED BY <2>1 DEF Barred
  <1>4. CASE mage' = x BY <1>1, <1>2, <1>4 DEF Orderly, StartsNone
  <1>5. CASE ~Barred(x) /\ s \in x.on /\ mage' = ToggleOff(x, {s})
    <2>1. {s} \in SUBSET x.on BY <1>5
    <2>2. Booked(ToggleOff(x, {s}), {}) BY <1>1, <2>1, ToggleOffBooked
    <2> QED BY <1>2, <1>3, <1>5, <2>2 DEF Orderly
  <1>6. CASE ~Barred(x) /\ mage' = z
    <2>1. x \in Mage BY <1>1 DEF Booked
    <2>2. o \subseteq kit \cap Toggles BY <2>1 DEF Mage
    <2> HIDE DEF o
    <2>3. /\ z \in Mage /\ z.order = x.order /\ z.payloads = x.payloads /\ z.open = x.open
          /\ z.actionDones = x.actionDones /\ z.owed = x.owed /\ z.channels = x.channels
          /\ z.ended = x.ended /\ z.dropped = x.dropped
      BY <2>1, <2>2 DEF Mage
    <2> HIDE DEF z
    <2>4. Booked(z, {})
      BY <1>1, <2>3 DEF Booked, Answered, Landed, SpinsAlone, DropsNone, Underway
    <2> QED BY <1>2, <1>3, <1>6, <2>4 DEF Orderly
  <1> QED BY <1>2, <1>4, <1>5, <1>6

\* A toggle goes off when its shield is spent.
LEMMA ShieldSpentStep ==
  ASSUME CastInv, NEW s \in mage.on, ShieldSpent(s)
  PROVE  Orderly
  <1> DEFINE y == ToggleOff(mage, {s})
  <1>1. kit' = kit /\ mage' = y BY DEF ShieldSpent
  <1>2. {s} \in SUBSET mage.on OBVIOUS
  <1>3. /\ Booked(y, {}) /\ y.cooling = mage.cooling \cup {s} /\ y.on = mage.on \ {s}
        /\ {s} \subseteq Toggles
    BY <1>2, ToggleOffBooked DEF CastInv
  <1> HIDE DEF y
  <1> QED BY <1>1, <1>3 DEF Orderly, StartsNone

\* The end of a match freezes him.
LEMMA MatchEndsStep ==
  ASSUME CastInv, MatchEnds
  PROVE  Orderly
  <1> DEFINE x == DotaFreeze(mage)
  <1>1. Booked(x, {}) /\ x.cooling = mage.cooling /\ x.on = mage.on
    BY FreezeBooked DEF CastInv
  <1>2. PICK spent \in SUBSET mage.on : mage' = ToggleOff(x, spent) BY DEF MatchEnds
  <1>3. kit' = kit BY DEF MatchEnds
  <1> HIDE DEF x
  <1> DEFINE y == ToggleOff(x, spent)
  <1>4. spent \in SUBSET x.on BY <1>1
  <1>5. /\ Booked(y, {}) /\ y.cooling = x.cooling \cup spent /\ y.on = x.on \ spent
        /\ spent \subseteq Toggles
    BY <1>1, <1>4, ToggleOffBooked
  <1> HIDE DEF y
  <1>6. mage' = y BY <1>2 DEF y
  <1> QED BY <1>1, <1>3, <1>5, <1>6 DEF Orderly, StartsNone

LEMMA AttackMobStep ==
  ASSUME CastInv, NEW m \in Prey, AttackMob(m)
  PROVE  Orderly
  <1> DEFINE x == [mage EXCEPT !.autoResumed = FALSE]
  <1>1. mage \in Mage BY DEF CastInv, Booked
  <1>2. Alike(mage, x) BY <1>1 DEF Alike, Mage
  <1>3. mage' = TakeOn(x, m) /\ kit' = kit BY DEF AttackMob
  <1> HIDE DEF x
  <1>4. Booked(x, {}) /\ x.cooling = mage.cooling /\ x.on = mage.on
    BY <1>2, AlikeBooked DEF CastInv, Alike
  <1>5. /\ Booked(TakeOn(x, m), {}) /\ TakeOn(x, m).cooling = x.cooling
        /\ TakeOn(x, m).on = x.on
    BY <1>4, Took
  <1> QED BY <1>3, <1>4, <1>5 DEF Orderly, StartsNone

LEMMA AttackHeroStep ==
  ASSUME CastInv, NEW v \in Rivals, AttackHero(v)
  PROVE  Orderly
  <1> DEFINE x == [mage EXCEPT !.attackTarget = Nobody]
  <1>1. mage \in Mage BY DEF CastInv, Booked
  <1>2. Alike(mage, x) BY <1>1 DEF Alike, Mage
  <1>3. mage' = CancelOrder(x) /\ kit' = kit BY DEF AttackHero
  <1> HIDE DEF x
  <1> QED BY <1>2, <1>3, CancelOrderly

LEMMA WalkStep ==
  ASSUME CastInv, Walk
  PROVE  Orderly
  <1> DEFINE x == [mage EXCEPT !.attackTarget = Nobody]
             y == [x EXCEPT !.hasDest = TRUE]
             z == [mage EXCEPT !.hasDest = FALSE]
  <1>1. mage \in Mage BY DEF CastInv, Booked
  <1>2. kit' = kit /\ (mage' = z \/ mage' = CancelOrder(y)) BY DEF Walk
  <1>3. Alike(mage, x) BY <1>1 DEF Alike, Mage
  <1>4. Alike(mage, z) BY <1>1 DEF Alike, Mage
  <1> HIDE DEF x
  <1>5. Alike(x, y) BY <1>3 DEF Alike, Mage
  <1>6. Alike(mage, y) BY <1>3, <1>5, AlikeAgain
  <1> HIDE DEF y
  <1> HIDE DEF z
  <1> QED BY <1>2, <1>4, <1>6, CancelOrderly, AlikeOrderly

LEMMA SmallSteps ==
  ASSUME CastInv, Halt \/ Pursue \/ GiveUp \/ Recover \/ Revive \/ \E t \in Victims : Appear(t)
  PROVE  Orderly
  <1>1. mage \in Mage BY DEF CastInv, Booked
  <1>2. CASE Halt
    <2>1. Alike(mage, mage') /\ kit' = kit BY <1>1, <1>2 DEF Halt, Alike, Mage
    <2> QED BY <2>1, AlikeOrderly
  <1>3. CASE Pursue
    <2>1. Alike(mage, mage') /\ kit' = kit BY <1>1, <1>3, ChaseAlike DEF Pursue
    <2> QED BY <2>1, AlikeOrderly
  <1>4. CASE GiveUp
    <2>1. Alike(mage, mage') /\ kit' = kit BY <1>1, <1>4 DEF GiveUp, Alike, Mage
    <2> QED BY <2>1, AlikeOrderly
  <1>5. CASE Recover
    <2>1. Alike(mage, mage') /\ kit' = kit BY <1>1, <1>5 DEF Recover, Alike, Mage
    <2> QED BY <2>1, AlikeOrderly
  <1>6. CASE Revive
    <2>1. Alike(mage, mage') /\ kit' = kit BY <1>1, <1>6 DEF Revive, Alike, Mage
    <2> QED BY <2>1, AlikeOrderly
  <1>7. ASSUME NEW t \in Victims, Appear(t) PROVE Orderly
    <2>1. Alike(mage, mage') /\ kit' = kit BY <1>1, <1>7 DEF Appear, Alike, Mage
    <2> QED BY <2>1, AlikeOrderly
  <1> QED BY <1>2, <1>3, <1>4, <1>5, <1>6, <1>7

LEMMA StunnedStep ==
  ASSUME CastInv, Stunned
  PROVE  Orderly
  <1> DEFINE x == [mage EXCEPT !.stunned = TRUE]
             y == [x EXCEPT !.attackTarget = Nobody]
             z == [y EXCEPT !.hasDest = FALSE]
  <1>1. mage \in Mage BY DEF CastInv, Booked
  <1>2. kit' = kit /\ mage' = CancelOrder(z) BY DEF Stunned
  <1>3. Alike(mage, x) BY <1>1 DEF Alike, Mage
  <1> HIDE DEF x
  <1>4. Alike(x, y) BY <1>3 DEF Alike, Mage
  <1> HIDE DEF y
  <1>5. Alike(y, z) BY <1>4 DEF Alike, Mage
  <1> HIDE DEF z
  <1>6. Alike(mage, z) BY <1>3, <1>4, <1>5, AlikeAgain
  <1> QED BY <1>2, <1>6, CancelOrderly

LEMMA PlayerDiesStep ==
  ASSUME CastInv, PlayerDies
  PROVE  Orderly
  <1> DEFINE w == [mage EXCEPT !.dead = TRUE]
             x == [w EXCEPT !.channels = {}]
             y == [x EXCEPT !.attackTarget = Nobody]
             z == [y EXCEPT !.hasDest = FALSE]
             v == ToggleOff(z, z.on)
  <1>1. mage \in Mage BY DEF CastInv, Booked
  <1>2. kit' = kit /\ mage' = CancelOrder(v) BY DEF PlayerDies
  <1>3. Alike(mage, w) BY <1>1 DEF Alike, Mage
  <1> HIDE DEF w
  <1>4. Alike(w, x) BY <1>3 DEF Alike, Mage
  <1> HIDE DEF x
  <1>5. Alike(x, y) BY <1>4 DEF Alike, Mage
  <1> HIDE DEF y
  <1>6. Alike(y, z) BY <1>5 DEF Alike, Mage
  <1> HIDE DEF z
  <1>7. Alike(mage, z) BY <1>3, <1>4, <1>5, <1>6, AlikeAgain
  <1>8. Booked(z, {}) /\ z.cooling = mage.cooling /\ z.on = mage.on
    BY <1>7, AlikeBooked DEF CastInv, Alike
  <1>9. /\ Booked(v, {}) /\ v.cooling = z.cooling \cup z.on /\ v.on = {}
        /\ z.on \subseteq Toggles
    <2>1. z.on \in SUBSET z.on OBVIOUS
    <2> QED BY <1>8, <2>1, ToggleOffBooked
  <1> HIDE DEF v
  <1>10. /\ Booked(CancelOrder(v), {}) /\ CancelOrder(v).cooling = v.cooling
         /\ CancelOrder(v).on = v.on
    BY <1>9, Cancel
  <1> QED BY <1>2, <1>8, <1>9, <1>10 DEF Orderly, StartsNone

LEMMA VanishStep ==
  ASSUME CastInv, NEW t \in Victims, NEW mine \in BOOLEAN, NEW near \in Near \ {t},
         Vanish(t, mine, near)
  PROVE  Orderly
  <1> DEFINE x == [mage EXCEPT !.gone = @ \cup {t}]
             y == [x EXCEPT !.attackTarget = Nobody]
             z == ResumeAutoAttack(y, Nobody, near)
  <1>1. mage \in Mage /\ near \in Prey \cup {Nobody} BY DEF CastInv, Booked, Near
  <1>2. kit' = kit /\ (mage' = x \/ mage' = y \/ mage' = z) BY DEF Vanish
  <1>3. Alike(mage, x) BY <1>1 DEF Alike, Mage
  <1> HIDE DEF x
  <1>4. Alike(x, y) BY <1>3 DEF Alike, Mage
  <1> HIDE DEF y
  <1>5. Alike(y, z) BY <1>1, <1>4, ResumeAlike DEF Alike
  <1> HIDE DEF z
  <1>6. Alike(mage, y) /\ Alike(mage, z) BY <1>3, <1>4, <1>5, AlikeAgain
  <1> QED BY <1>2, <1>3, <1>6, AlikeOrderly

\* Marking an entry of a queue as due changes no number of entries.
LEMMA DueCount ==
  ASSUME NEW q, NEW p, DOMAIN p = DOMAIN q, \A j \in DOMAIN q : p[j].slot = q[j].slot, NEW s
  PROVE  Count(p, s) = Count(q, s)
  <1>1. Are(p, s) = Are(q, s) BY DEF Are
  <1> QED BY <1>1 DEF Count

\* Time passes: an impact, an ending, a channel, a cooldown.
LEMMA ImpactDueStep ==
  ASSUME CastInv, kit' = kit, NEW i \in DOMAIN mage.payloads, ImpactDue(i)
  PROVE  Orderly
  <1> DEFINE q == mage.payloads
             e == [q[i] EXCEPT !.due = TRUE]
             p == [q EXCEPT ![i] = e]
  <1>1. mage \in Mage /\ q \in Seq(Calm) BY DEF CastInv, Booked, SpinsAlone
  <1>2. q[i] \in Calm BY <1>1
  <1>3. e \in Calm /\ e.slot = q[i].slot BY <1>2 DEF Calm, Impact
  <1>4. mage' = [mage EXCEPT !.payloads = p] BY DEF ImpactDue
  <1> HIDE DEF e
  <1>5. p \in Seq(Calm) /\ DOMAIN p = DOMAIN q BY <1>1, <1>3
  <1>6. \A j \in DOMAIN q : p[j].slot = q[j].slot BY <1>3
  <1>7. \A s : Count(p, s) = Count(q, s) BY <1>5, <1>6, DueCount
  <1>8. p \in Seq(Impact)
    <2>1. Calm \subseteq Impact BY DEF Calm
    <2> HIDE DEF p
    <2> QED BY <1>5, <2>1
  <1> HIDE DEF p
  <1> DEFINE y == [mage EXCEPT !.payloads = p]
  <1>9. /\ y \in Mage /\ y.payloads = p /\ y.order = mage.order
        /\ y.actionDones = mage.actionDones /\ y.open = mage.open /\ y.owed = mage.owed
        /\ y.cooling = mage.cooling /\ y.channels = mage.channels /\ Aside(mage, y)
    BY <1>1, <1>8 DEF Mage
  <1> HIDE DEF y
  <1>10. Answered(y, {}) BY <1>9 DEF CastInv, Booked, Answered, Underway
  <1>11. Landed(y) /\ DropsNone(y) BY <1>7, <1>9 DEF CastInv, Booked, Landed, DropsNone
  <1>12. SpinsAlone(y) BY <1>5, <1>9 DEF CastInv, Booked, SpinsAlone
  <1> QED BY <1>4, <1>9, <1>10, <1>11, <1>12 DEF Orderly, Booked, StartsNone, y

LEMMA EndingDueStep ==
  ASSUME CastInv, kit' = kit, NEW i \in DOMAIN mage.actionDones, EndingDue(i)
  PROVE  Orderly
  <1> DEFINE q == mage.actionDones
             e == [q[i] EXCEPT !.due = TRUE]
             p == [q EXCEPT ![i] = e]
             l == IF mage.castLock = q[i].slot THEN Nobody ELSE mage.castLock
             x == [mage EXCEPT !.actionDones = p]
             y == [x EXCEPT !.castLock = l]
  <1>1. mage \in Mage /\ q \in Seq(Ending) BY DEF CastInv, Booked, Mage
  <1>2. q[i] \in Ending BY <1>1
  <1>3. e \in Ending /\ e.slot = q[i].slot BY <1>2 DEF Ending
  <1>4. mage' = y BY DEF EndingDue
  <1>5. l \in kit \cup {Nobody} BY <1>1 DEF Mage
  <1> HIDE DEF l
  <1> HIDE DEF e
  <1>6. p \in Seq(Ending) /\ DOMAIN p = DOMAIN q BY <1>1, <1>3
  <1>7. \A j \in DOMAIN q : p[j].slot = q[j].slot BY <1>3
  <1>8. \A s : Count(p, s) = Count(q, s) BY <1>6, <1>7, DueCount
  <1> HIDE DEF p
  <1>9. /\ x \in Mage /\ x.actionDones = p /\ x.order = mage.order
        /\ x.payloads = mage.payloads /\ x.open = mage.open /\ x.owed = mage.owed
        /\ x.cooling = mage.cooling /\ x.channels = mage.channels /\ Aside(mage, x)
    BY <1>1, <1>6 DEF Mage
  <1> HIDE DEF x
  <1>10. /\ y \in Mage /\ y.actionDones = p /\ y.order = mage.order
         /\ y.payloads = mage.payloads /\ y.open = mage.open /\ y.owed = mage.owed
         /\ y.cooling = mage.cooling /\ y.channels = mage.channels /\ Aside(mage, y)
    BY <1>5, <1>9 DEF Mage
  <1> HIDE DEF y
  <1>11. Answered(y, {}) BY <1>8, <1>10 DEF CastInv, Booked, Answered, Underway
  <1>12. Landed(y) /\ DropsNone(y) BY <1>10 DEF CastInv, Booked, Landed, DropsNone
  <1>13. SpinsAlone(y) BY <1>10 DEF CastInv, Booked, SpinsAlone
  <1> QED BY <1>4, <1>10, <1>11, <1>12, <1>13 DEF Orderly, Booked, StartsNone

LEMMA ElapseStep ==
  ASSUME CastInv, Elapse
  PROVE  Orderly
  <1>0. kit' = kit /\ mage \in Mage BY DEF Elapse, CastInv, Booked
  <1>1. ASSUME NEW c \in mage.channels, ChannelDue(c) PROVE Orderly
    <2> DEFINE e == [c EXCEPT !.due = TRUE]
               h == (mage.channels \ {c}) \cup {e}
    <2>1. c \in Ending /\ mage.channels \subseteq Ending BY <1>0 DEF Mage
    <2>2. e \in Ending /\ e.due BY <2>1 DEF Ending
    <2>3. mage' = [mage EXCEPT !.channels = h] BY <1>1 DEF ChannelDue
    <2> HIDE DEF e
    <2>4. h \subseteq Ending /\ \A k \in h : k \in mage.channels \/ k.due BY <2>1, <2>2
    <2> HIDE DEF h
    <2>5. Alike(mage, mage') BY <1>0, <2>3, <2>4 DEF Alike, Mage
    <2> QED BY <1>0, <2>5, AlikeOrderly
  <1>2. ASSUME NEW s \in mage.cooling, Cooled(s) PROVE Orderly
    <2>1. /\ mage' \in Mage /\ mage'.order = mage.order /\ mage'.payloads = mage.payloads
          /\ mage'.actionDones = mage.actionDones /\ mage'.open = mage.open
          /\ mage'.owed = mage.owed /\ mage'.cooling \subseteq mage.cooling
          /\ mage'.channels = mage.channels /\ mage'.on = mage.on
          /\ mage'.ended = mage.ended /\ mage'.dropped = mage.dropped
      BY <1>0, <1>2 DEF Cooled, Mage
    <2>2. Booked(mage', {})
      BY <2>1 DEF CastInv, Booked, Answered, Landed, SpinsAlone, DropsNone, Underway
    <2> QED BY <1>0, <2>1, <2>2 DEF Orderly, StartsNone
  <1> QED BY <1>0, <1>1, <1>2, ImpactDueStep, EndingDueStep DEF Elapse

\* A tick: impacts, endings, the approach, toggles, channels.  Beside a spin no approach
\* is under way, so that it casts nothing.
LEMMA MemberTickStep ==
  ASSUME CastInv, NEW near \in Near, MemberTick(near)
  PROVE  Orderly
  <1>1. PICK last \in Finishers(mage) :
          \E z \in TickOrder(CloseActions(RunDuePayloads(mage, last), near)) :
            \E v \in TickToggles(z) : mage' \in Pulses(v)
    BY DEF MemberTick
  <1> DEFINE x == RunDuePayloads(mage, last)
             y == CloseActions(x, near)
  <1>2. PICK z \in TickOrder(y) : \E v \in TickToggles(z) : mage' \in Pulses(v) BY <1>1
  <1>3. PICK v \in TickToggles(z) : mage' \in Pulses(v) BY <1>2
  <1>4. kit' = kit /\ near \in Prey \cup {Nobody} BY DEF MemberTick, Near
  <1>5. mage \in Mage /\ mage.payloads \in Seq(Calm) BY DEF CastInv, Booked, SpinsAlone
  <1>6. /\ Spared(mage, x) /\ x.payloads \in Seq(Calm)
        /\ \A s \in kit : x.owed[s] - Count(x.payloads, s) = mage.owed[s] - Count(mage.payloads, s)
        /\ \A c \in x.channels : c \in mage.channels \/ \E p \in Calm : c.slot = p.slot
    <2>1. Calm \in SUBSET Impact /\ \A p \in Calm : p.slot \in Walking => p.due BY DEF Calm
    <2> HIDE DEF x
    <2> QED BY <1>5, <2>1, RunDue DEF x
  <1> HIDE DEF x
  <1>7. /\ Booked(x, {}) /\ x.order \in {mage.order, Nobody}
        /\ x.cooling = mage.cooling /\ x.on = mage.on
    <2>1. /\ x \in Mage /\ x.order \in {mage.order, Nobody}
          /\ x.cooling = mage.cooling /\ x.on = mage.on
      BY <1>6 DEF Spared
    <2>2. Answered(x, {}) /\ DropsNone(x) BY <1>6 DEF CastInv, Booked, Spared
    <2>3. Landed(x) BY <1>5, <1>6, <2>1, BeyondTheQueue DEF CastInv, Booked
    <2>4. SpinsAlone(x) BY <1>6, <2>1 DEF CastInv, Booked, SpinsAlone, Calm
    <2> QED BY <2>1, <2>2, <2>3, <2>4 DEF Booked
  <1>8. /\ Booked(y, {}) /\ y.order \in {mage.order, Nobody}
        /\ y.cooling = mage.cooling /\ y.on = mage.on
    BY <1>4, <1>7, CloseBooked
  <1> HIDE DEF y
  <1>9. Booked(z, {}) /\ (y.order = Nobody => z = y) BY <1>2, <1>8, TickOrderBooked
  <1>10. Booked(v, {}) /\ StartsNone(z, v) BY <1>3, <1>9, TogglesBooked
  <1>11. Booked(mage', {}) /\ mage'.cooling = v.cooling /\ mage'.on = v.on
    BY <1>3, <1>10, PulsesBooked
  <1>12. AbilityBlocked(mage) => mage.order = Nobody
    BY BlockedBySpin DEF CastInv, Booked, SpinsAlone
  <1>13. ASSUME AbilityBlocked(mage) PROVE StartsNone(mage, mage')
    <2>1. z = y BY <1>8, <1>9, <1>12, <1>13
    <2> QED BY <1>8, <1>10, <1>11, <2>1 DEF StartsNone
  <1> QED BY <1>4, <1>11, <1>13 DEF Orderly

\* A new hero owes nothing.
LEMMA StartBooked ==
  ASSUME CastInit
  PROVE  CastInv
  <1> DEFINE none == <<>>
             zero == [s \in kit |-> 0]
  <1>1. none \in Seq(Impact) /\ none \in Seq(Ending) /\ none \in Seq(Calm) OBVIOUS
  <1>2. zero \in [kit -> Int] /\ zero \in [kit -> Nat] /\ \A s \in kit : zero[s] = 0 OBVIOUS
  <1>3. \A s : Count(none, s) = 0 BY CountEmpty
  <1> HIDE DEF none
  <1> HIDE DEF zero
  <1>4. mage = [order |-> Nobody, cooling |-> {}, payloads |-> none, actionDones |-> none,
             channels |-> {}, castLock |-> Nobody, attackTarget |-> Nobody,
             autoResumed |-> FALSE, hasDest |-> FALSE, stunned |-> FALSE, dead |-> FALSE,
             gone |-> {}, on |-> {}, ended |-> FALSE, open |-> zero, dropped |-> zero,
             owed |-> zero]
    BY DEF CastInit, none, zero
  <1>5. mage \in Mage BY <1>1, <1>2, <1>4 DEF Mage
  <1>6. Answered(mage, {}) BY <1>2, <1>3, <1>4 DEF Answered, Underway
  <1>7. Landed(mage) BY <1>2, <1>3, <1>4 DEF Landed
  <1>8. SpinsAlone(mage) /\ DropsNone(mage) BY <1>1, <1>2, <1>4 DEF SpinsAlone, DropsNone
  <1> QED BY <1>5, <1>6, <1>7, <1>8 DEF CastInv, Booked, CastInit

LEMMA CastNextOrderly ==
  ASSUME CastInv, CastNext
  PROVE  Orderly
  <1>1. ASSUME NEW s \in kit \ Toggles, NEW t \in Aims(s), UseSkill(s, t) PROVE Orderly
    BY <1>1, UseSkillStep
  <1>2. ASSUME NEW m \in Prey, AttackMob(m) PROVE Orderly BY <1>2, AttackMobStep
  <1>3. ASSUME NEW v \in Rivals, AttackHero(v) PROVE Orderly BY <1>3, AttackHeroStep
  <1>4. ASSUME NEW t \in Victims, NEW mine \in BOOLEAN, NEW near \in Near \ {t},
               Vanish(t, mine, near)
        PROVE  Orderly
    BY <1>4, VanishStep
  <1>5. ASSUME NEW near \in Near, MemberTick(near) PROVE Orderly BY <1>5, MemberTickStep
  <1>6. ASSUME NEW s \in kit \cap Toggles, UseToggle(s) PROVE Orderly BY <1>6, UseToggleStep
  <1>7. ASSUME NEW s \in mage.on, ShieldSpent(s) PROVE Orderly BY <1>7, ShieldSpentStep
  <1> QED BY <1>1, <1>2, <1>3, <1>4, <1>5, <1>6, <1>7, WalkStep, StunnedStep, PlayerDiesStep,
             SmallSteps, ElapseStep, MatchEndsStep DEF CastNext

\* The books are an inductive invariant.
LEMMA CastInductive ==
  ASSUME CastInv, [CastNext]_castVars
  PROVE  CastInv' /\ (AbilityBlocked(mage) => StartsNone(mage, mage'))
  <1>1. CASE CastNext
    <2>1. Orderly BY <1>1, CastNextOrderly
    <2>2. kit' = kit /\ Booked(mage', {})
          /\ (AbilityBlocked(mage) => StartsNone(mage, mage'))
      BY <2>1 DEF Orderly
    <2>k. kit \in Kits BY DEF CastInv
    <2>3. (mage \in Mage)' BY <2>2 DEF Booked, Mage, Order, Impact, Ending
    <2>4. Answered(mage, {})' BY <2>2 DEF Booked, Answered, Underway
    <2>5. Landed(mage)' BY <2>2 DEF Booked, Landed
    <2>6. SpinsAlone(mage)' BY <2>2 DEF Booked, SpinsAlone, Calm, Impact
    <2>7. DropsNone(mage)' BY <2>2 DEF Booked, DropsNone
    <2> QED BY <2>2, <2>k, <2>3, <2>4, <2>5, <2>6, <2>7 DEF CastInv, Booked
  <1>2. CASE UNCHANGED castVars
    BY <1>2 DEF castVars, CastInv, Booked, Answered, Landed, SpinsAlone, DropsNone, Calm, Mage,
               Order, Impact, Ending, Underway, StartsNone
  <1> QED BY <1>1, <1>2

LEMMA CastKeeps == CastSpec => []CastInv
  <1>1. CastInit => CastInv BY StartBooked
  <1>2. CastInv /\ [CastNext]_castVars => CastInv' BY CastInductive
  <1> QED BY <1>1, <1>2, PTL DEF CastSpec

\* Every order of a skill that is no toggle is answered with ORDER_DONE exactly once
\* (orderDoneLocked, cancelOrderLocked and the endings of memberTickLocked), but for those
\* whose ending dotaFreezeLocked throws away at the end of a match, for any number of
\* skills, avatars and targets.
THEOREM EveryOrderAnswered == CastSpec => []OrdersAnswered
  <1>1. CastInv => OrdersAnswered
    <2> SUFFICES ASSUME CastInv, NEW s \in kit
                 PROVE  /\ mage.open[s] =
                             Cardinality(Are(mage.actionDones, s)) +
                             (IF mage.order # Nobody /\ mage.order.slot = s THEN 1 ELSE 0) +
                             mage.dropped[s]
                        /\ mage.dropped[s] > 0 => mage.ended
      BY DEF OrdersAnswered
    <2>1. mage.open[s] = Count(mage.actionDones, s) + Underway(mage, s)
                           + mage.dropped[s] + (IF s \in {} THEN 1 ELSE 0)
      BY DEF CastInv, Booked, Answered
    <2>2. mage.actionDones \in Seq(Ending) /\ mage.dropped \in [kit -> Nat]
      BY DEF CastInv, Booked, Mage
    <2>3. Count(mage.actionDones, s) \in Nat /\ mage.dropped[s] \in Nat BY <2>2, CountNat
    <2>4. ~mage.ended => mage.dropped[s] = 0 BY DEF CastInv, Booked, DropsNone
    <2> QED BY <2>1, <2>3, <2>4 DEF Count, Underway
  <1> QED BY <1>1, CastKeeps, PTL

\* Every cast that was paid for lands exactly once, unless the end of the match calls it
\* off: runDuePayloadsLocked neither drops nor repeats an impact, though firePayloadLocked
\* queues some again.
THEOREM EveryCastLandsOnce == CastSpec => []LandsOnce
  <1>1. CastInv => LandsOnce BY DEF CastInv, Booked, Landed, LandsOnce, Count
  <1> QED BY <1>1, CastKeeps, PTL

\* While a spin owns the ability bar no skill starts, neither by an order
\* (abilityUseBlockedByChannelLocked) nor by the approach that a tick completes, and no
\* toggle goes on.
THEOREM SpinOwnsTheBar == CastSpec => BarOwned
  <1>1. CastInv /\ [CastNext]_castVars
          => [AbilityBlocked(mage) => /\ mage'.cooling \ Toggles \subseteq mage.cooling
                                      /\ mage'.on \subseteq mage.on]_castVars
    BY CastInductive DEF StartsNone
  <1> QED BY <1>1, CastKeeps, PTL DEF CastSpec, BarOwned

\* The queues, channels, locks and targets of execCastLocked and memberTickLocked have
\* their types, and no order is answered and no impact lands that is not owed.
THEOREM CastTypeCorrect == CastSpec => []CastTypeOK
  <1>1. CastInv => CastTypeOK
    <2> SUFFICES ASSUME CastInv PROVE CastTypeOK OBVIOUS
    <2>1. mage \in Mage BY DEF CastInv, Booked
    <2>2. mage.open \in [kit -> Nat]
      <3>1. \A s \in kit : Count(mage.actionDones, s) \in Nat
        <4>1. mage.actionDones \in Seq(Ending) BY <2>1 DEF Mage
        <4> QED BY <4>1, CountNat
      <3>2. \A s \in kit : mage.open[s] \in Nat
        <4> TAKE s \in kit
        <4>1. mage.open[s] = Count(mage.actionDones, s) + Underway(mage, s)
                               + mage.dropped[s] + (IF s \in {} THEN 1 ELSE 0)
          BY DEF CastInv, Booked, Answered
        <4>2. mage.dropped \in [kit -> Nat] BY <2>1 DEF Mage
        <4>3. mage.dropped[s] \in Nat BY <4>2
        <4> QED BY <3>1, <4>1, <4>3 DEF Underway
      <3>3. mage.open \in [kit -> Int] BY <2>1 DEF Mage
      <3> QED BY <3>2, <3>3
    <2>3. mage.owed \in [kit -> Nat]
      <3>1. \A s \in kit : Count(mage.payloads, s) \in Nat
        <4>1. mage.payloads \in Seq(Impact) BY <2>1 DEF Mage
        <4> QED BY <4>1, CountNat
      <3>2. \A s \in kit : mage.owed[s] \in Nat BY <3>1 DEF CastInv, Booked, Landed
      <3>3. mage.owed \in [kit -> Int] BY <2>1 DEF Mage
      <3> QED BY <3>2, <3>3
    <2> QED BY <2>1, <2>2, <2>3 DEF CastTypeOK, Mage, CastInv
  <1> QED BY <1>1, CastKeeps, PTL
=============================================================================
