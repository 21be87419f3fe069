----------------------------- MODULE HeroQuests -----------------------------
(***************************************************************************)
(* The quests of one hero (session/quests.go): accepted, cancelled and     *)
(* turned in by requests of the Ctrl server, advanced by the kills of the  *)
(* Battle server.  Each operation is one section under Store.mu that saves *)
(* the account before it ends; what matters is any order of them.          *)
(***************************************************************************)
EXTENDS Naturals

CONSTANTS Quests,
          Replay,      \* the quests that may be done again
          Count,       \* kills a quest asks for
          Cooldown,    \* ticks until a replay quest is offered again
          Mobs,
          Credits,     \* the quests a kill of a mob counts for, on its map
          MaxTurnIns   \* bound: rewards paid for a quest

ASSUME QuestAssumption == /\ Replay \subseteq Quests
                          /\ Count \in [Quests -> Nat \ {0}]
                          /\ Cooldown \in [Quests -> Nat]
                          /\ Credits \in [Mobs -> SUBSET Quests]
                          /\ MaxTurnIns \in Nat

VARIABLES
  status,    \* QuestState.Status; "None": the hero has no such state
  progress,  \* QuestState.Progress
  cooling,   \* ticks left until CooldownUntil
  kills,     \* history: kills that count since the quest was accepted
  paid,      \* history: rewards paid for the quest
  rested     \* history: ticks since the last of them

questVars == <<status, progress, cooling, kills, paid, rested>>

Statuses == {"None", "InProgress", "Done", "Closed", "WaitCooldown"}

QuestTypeOK == /\ status \in [Quests -> Statuses]
               /\ progress \in [Quests -> Nat] /\ cooling \in [Quests -> Nat]
               /\ kills \in [Quests -> Nat] /\ paid \in [Quests -> Nat]
               /\ rested \in [Quests -> Nat]

QuestInit == /\ status = [q \in Quests |-> "None"]
             /\ progress = [q \in Quests |-> 0] /\ cooling = [q \in Quests |-> 0]
             /\ kills = [q \in Quests |-> 0] /\ paid = [q \in Quests |-> 0]
             /\ rested = [q \in Quests |-> 0]

CooledDown(q) == status[q] = "WaitCooldown" /\ cooling[q] = 0

AcceptQuest(q) ==
  /\ status[q] = "None" \/ CooledDown(q)
  /\ status' = [status EXCEPT ![q] = "InProgress"]
  /\ progress' = [progress EXCEPT ![q] = 0]
  /\ kills' = [kills EXCEPT ![q] = 0]
  /\ UNCHANGED <<cooling, paid, rested>>

Drop(q) ==
  /\ status[q] # "None"
  /\ status' = [status EXCEPT ![q] = "None"]
  /\ progress' = [progress EXCEPT ![q] = 0]
  /\ cooling' = [cooling EXCEPT ![q] = 0]
  /\ UNCHANGED <<kills, paid, rested>>

\* Variant: whatever the hero has of the quest is removed.
CancelAny(q) == Drop(q)

\* A closed quest and one that cools down keep their record.
CancelQuest(q) == (status[q] \in {"InProgress", "Done"} \/ CooledDown(q)) /\ Drop(q)

\* The reward is credited in the section that closes the quest or parks it.
CompleteQuest(q) ==
  /\ status[q] = "Done"
  /\ paid[q] < MaxTurnIns
  /\ IF q \in Replay
       THEN /\ status' = [status EXCEPT ![q] = "WaitCooldown"]
            /\ progress' = [progress EXCEPT ![q] = 0]
            /\ cooling' = [cooling EXCEPT ![q] = Cooldown[q]]
       ELSE /\ status' = [status EXCEPT ![q] = "Closed"]
            /\ UNCHANGED <<progress, cooling>>
  /\ paid' = [paid EXCEPT ![q] = @ + 1]
  /\ rested' = [rested EXCEPT ![q] = 0]
  /\ UNCHANGED kills

\* One kill counts for every quest under way that asks for such a creature.
Advanced(m) == {q \in Credits[m] : status[q] = "InProgress" /\ progress[q] < Count[q]}

AddQuestKill(m) ==
  /\ Advanced(m) # {}
  /\ progress' = [q \in Quests |-> progress[q] + (IF q \in Advanced(m) THEN 1 ELSE 0)]
  /\ kills' = [q \in Quests |-> kills[q] + (IF q \in Advanced(m) THEN 1 ELSE 0)]
  /\ status' = [q \in Quests |->
                  IF q \in Advanced(m) /\ progress'[q] >= Count[q] THEN "Done" ELSE status[q]]
  /\ UNCHANGED <<cooling, paid, rested>>

\* Time: a second of a cooldown, for all quests.
QuestTick ==
  /\ \E q \in Quests : cooling[q] > 0
  /\ cooling' = [q \in Quests |-> IF cooling[q] > 0 THEN cooling[q] - 1 ELSE 0]
  /\ rested' = [q \in Quests |-> rested[q] + (IF cooling[q] > 0 THEN 1 ELSE 0)]
  /\ UNCHANGED <<status, progress, kills, paid>>

QuestNext ==
  \/ \E q \in Quests : AcceptQuest(q) \/ CancelQuest(q) \/ CompleteQuest(q)
  \/ \E m \in Mobs : AddQuestKill(m)
  \/ QuestTick

QuestSpec == QuestInit /\ [][QuestNext]_questVars

-----------------------------------------------------------------------------
\* A reward is paid for a whole round: all the kills since the quest was last
\* accepted, and after an earlier reward only for a replay quest that has cooled
\* down -- whatever the hero cancels, accepts again and turns in when
\* (quests.go:102-108: no "unlimited gold/exp faucet").
RewardsEarned ==
  [][\A q \in Quests : paid'[q] # paid[q] =>
       /\ kills[q] >= Count[q]
       /\ paid[q] > 0 => q \in Replay /\ rested[q] >= Cooldown[q]]_questVars
=============================================================================
