------------------------------ MODULE MCLaunch ------------------------------
(***************************************************************************)
(* The two ways into a match, with matches of two and two rooms.  In the   *)
(* queue two users wait for one map; beyond that either a third user plays *)
(* ("crowd"), or there is a map of each mode ("modes"), or requests may    *)
(* cross any push and any request ("crossing").  The draft of a siege runs *)
(* with two fighters, two castles and two battle windows, and shares no    *)
(* state with the queue.                                                   *)
(***************************************************************************)
EXTENDS Matchmaking, CastleDraft, TLC

CONSTANTS u1, u2, u3, f1, f2, k1, k2, dota, arena, archer, clan

VARIABLES part, players

MCInit == /\ part \in {"crowd", "modes", "crossing", "draft"}
          /\ players \in {us \in SUBSET Users : Cardinality(us) = IF part = "crowd" THEN 3 ELSE 2}
          /\ Init /\ DraftInit

Bounded == /\ part # "crossing" => crossed' = {}
           /\ part # "modes" => \A m \in ArenaMaps : dotaQueue'[m] = <<>>

MCNext == /\ UNCHANGED <<part, players>>
          /\ \/ part # "draft" /\ (\E u \in players : Acts(u)) /\ Bounded /\ UNCHANGED draftVars
             \/ part = "draft" /\ DraftNext /\ UNCHANGED vars

MCSpec == MCInit /\ [][MCNext]_<<part, players, vars, draftVars>>

LaunchTypeOK == TypeOK /\ DraftTypeOK

Perms == Permutations(Users) \cup Permutations(Fighters) \cup Permutations(Keeps)
=============================================================================
