------------------------------ MODULE MCPlaces ------------------------------
(***************************************************************************)
(* The places a player is sent to.  A behaviour is about the squares or    *)
(* about the match servers, which share nothing.                           *)
(*                                                                         *)
(* Squares: two users and two squares.  One user connects three times and  *)
(* opens two push sockets; the other connects once and has to draw the     *)
(* first right.  Matches: two players, one room, and enough servers for    *)
(* two replacements.                                                       *)
(***************************************************************************)
EXTENDS LobbySquare, MatchRooms, TLC

CONSTANTS c1, c2, c3, c4, s1, s2, u1, u2, Parts

MCUserOf   == c1 :> u1 @@ c2 :> u1 @@ c3 :> u1 @@ c4 :> u2
MCSockUser == s1 :> u1 @@ s2 :> u1

VARIABLE part

placeVars == <<part, vars, roomVars>>

PlacesInit == part \in Parts /\ Init /\ RoomsInit

PlacesNext ==
  /\ UNCHANGED part
  /\ \/ part = "squares" /\ Next /\ UNCHANGED roomVars
     \/ part = "matches" /\ RoomsNext /\ UNCHANGED vars

InMatches(A) == part = "matches" /\ A /\ UNCHANGED <<part, vars>>

\* The fairness of FairRoomsSpec.
PlacesSpec == /\ PlacesInit /\ [][PlacesNext]_placeVars
              /\ WF_placeVars(InMatches(Tick))
              /\ \A s \in Servers : WF_placeVars(InMatches(Reap(s)))
=============================================================================
