------------------------------- MODULE MCHero -------------------------------
(***************************************************************************)
(* The three parts of a hero's account, his fights and his skills.  They   *)
(* share nothing their properties relate: a behaviour is about one of them.*)
(*                                                                         *)
(* Of the fights: a callback that finds its order outdated, or its hero    *)
(* gone, does nothing whenever it fires, for attackSeq only grows and      *)
(* nobody comes back.  It fires at once, before anything else happens.     *)
(***************************************************************************)
EXTENDS HeroBag, HeroQuests, HeroGear, HeroFight, HeroCast

CONSTANTS click1, click2, trader1, trader2,  \* requests
          hunt, daily, rat, wolf,            \* quests and mobs
          helm, cap, ring,                   \* wearables
          archer, brute, altar1, altar2,     \* the heroes and altars of a match
          voodoo, cabala,                    \* the skills of Morlokay,
          flesh, devour, ghoul,              \* of Abominator,
          spin, dance,                       \* of Tangren
          creep1, creep2, rival,             \* whom they are used on
          Parts                              \* what the run is about

\* Two runes of one category.
CategoryDef == (2 :> "health") @@ (3 :> "health")

\* A one-time quest for wolves; a replay quest that any creature counts for.
CountDef == (hunt :> 2) @@ (daily :> 1)
CooldownDef == (hunt :> 0) @@ (daily :> 2)
CreditsDef == (rat :> {daily}) @@ (wolf :> {hunt, daily})

\* Two items for the head, one for the hand.
SlotOfDef == (helm :> "head") @@ (cap :> "head") @@ (ring :> "hand")
PriceDef == (helm :> 2) @@ (cap :> 1) @@ (ring :> 2)
SellPriceDef == (helm :> 1) @@ (cap :> 1) @@ (ring :> 1)

SideDef == (archer :> 1) @@ (brute :> 2) @@ (altar1 :> 1) @@ (altar2 :> 2)
MaxSeqDef == (archer :> 3) @@ (brute :> 1)

VARIABLE part

Init == /\ part \in Parts
        /\ BagInit /\ QuestInit /\ GearInit /\ FightInit /\ CastInit
        /\ part # "fight" => mode = "dota"
        /\ part # "skills" => kit = {spin, dance}

Outdated == {t \in timers : \/ hs[t.hero].closed
                            \/ /\ ~t.committed /\ t.seq # hs[t.hero].attackSeq
                               /\ ~(t.kind = "release" /\ t.hero \in Bots)}

FightStep == IF Outdated = {} THEN FightNext ELSE Fire(CHOOSE t \in Outdated : TRUE)

Next ==
  /\ UNCHANGED part
  /\ \/ part = "bag"    /\ BagNext   /\ UNCHANGED <<questVars, gearVars, fightVars, castVars>>
     \/ part = "quests" /\ QuestNext /\ UNCHANGED <<bagVars, gearVars, fightVars, castVars>>
     \/ part = "gear"   /\ GearNext  /\ UNCHANGED <<bagVars, questVars, fightVars, castVars>>
     \/ part = "fight"  /\ FightStep /\ UNCHANGED <<bagVars, questVars, gearVars, castVars>>
     \/ part = "skills" /\ CastNext  /\ UNCHANGED <<bagVars, questVars, gearVars, fightVars>>

Spec == Init /\ [][Next]_<<part, bagVars, questVars, gearVars, fightVars, castVars>>

TypeOK == BagTypeOK /\ QuestTypeOK /\ GearTypeOK /\ FightTypeOK /\ CastTypeOK

Perms == Permutations({click1, click2}) \cup Permutations({trader1, trader2})
=============================================================================
