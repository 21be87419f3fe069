---------------------------- MODULE MCHuntWorlds ----------------------------
(***************************************************************************)
(* Three users, four connections: one user connects twice, so a reconnect  *)
(* meets the disposal of the world it left.  A join creates at most one    *)
(* world, so as many worlds as connections never run out.                  *)
(***************************************************************************)
EXTENDS HuntWorlds, TLC

CONSTANTS c1, c2, c3, c4, u1, u2, u3

MCUserOf == c1 :> u1 @@ c2 :> u1 @@ c3 :> u2 @@ c4 :> u3
=============================================================================
