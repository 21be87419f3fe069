------------------------------ MODULE MCStore -------------------------------
(***************************************************************************)
(* The Store: clans with three users and two clan names, accounts with two *)
(* e-mail addresses, two session keys and two requests at a time, parties  *)
(* and friendships of three people.  A behaviour is about one of these; of *)
(* clans, it has their sieges, or a process that dies between the writes   *)
(* of an operation: the two together are too many for a run that passes.   *)
(***************************************************************************)
EXTENDS ClanStore, Accounts, Social, TLC

CONSTANTS u1, u2, u3, n1, n2, k1, k2, r1, r2, castle, Parts

VARIABLE part

MCInit == part \in Parts /\ Init /\ AccountsInit /\ SocialInit

Clans == /\ part \in {"sieges", "crashes", "both"}
         /\ \/ Operate
            \/ part # "crashes" /\ Settle
            \/ (part = "sieges" => Free) /\ Restart
         /\ UNCHANGED <<accountVars, partyVars, friendVars>>

Account == part = "accounts" /\ AccountsNext /\ UNCHANGED <<vars, partyVars, friendVars>>

Society == /\ \/ part = "parties" /\ \E u \in People : PartyRequest(u) \/ DeletePerson(u)
              \/ part = "friends" /\ \/ \E u \in People : FriendRequest(u) \/ DeletePerson(u)
                                     \/ SaveFriends
              \/ part \in {"parties", "friends"} /\ RestartStore
           /\ UNCHANGED <<vars, accountVars>>

MCNext == (Clans \/ Account \/ Society) /\ UNCHANGED part

MCSpec == MCInit /\ [][MCNext]_<<part, vars, accountVars, partyVars, friendVars>>

StoreTypeOK == TypeOK /\ AccountsTypeOK /\ SocialTypeOK

Perms == Permutations({u1, u2, u3}) \cup Permutations({n1, n2})
=============================================================================
