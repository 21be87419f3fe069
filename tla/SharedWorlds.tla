---------------------------- MODULE SharedWorlds ----------------------------
(***************************************************************************)
(* What the Battle server promises about combat worlds, with no locks, no  *)
(* registry and no ticker: everybody inside a room is inside one and the   *)
(* same world, and a world that was retired is never entered again.        *)
(***************************************************************************)
CONSTANTS Conns, Worlds, Rooms, NoWorld, NoRoom

VARIABLES where,    \* where[c]: the world connection c plays in, or NoWorld
          room,     \* room[c]: the room c was launched into, or NoRoom
          retired   \* the worlds whose simulation loop has stopped

vars == <<where, room, retired>>

Inside(r) == {c \in Conns : room[c] = r /\ where[c] # NoWorld}

Init == /\ where   = [c \in Conns |-> NoWorld]
        /\ room    = [c \in Conns |-> NoRoom]
        /\ retired = {}

Launch(c, r) == /\ room[c] = NoRoom
                /\ room' = [room EXCEPT ![c] = r]
                /\ UNCHANGED <<where, retired>>

Enter(c, w) == /\ where[c] = NoWorld
               /\ room[c] # NoRoom
               /\ w \notin retired
               /\ \A d \in Inside(room[c]) : where[d] = w
               /\ where' = [where EXCEPT ![c] = w]
               /\ UNCHANGED <<room, retired>>

Leave(c) == /\ where[c] # NoWorld
            /\ where' = [where EXCEPT ![c] = NoWorld]
            /\ UNCHANGED <<room, retired>>

Retire(w) == /\ \A c \in Conns : where[c] # w
             /\ retired' = retired \cup {w}
             /\ UNCHANGED <<where, room>>

Next == \/ \E c \in Conns, r \in Rooms  : Launch(c, r)
        \/ \E c \in Conns, w \in Worlds : Enter(c, w)
        \/ \E c \in Conns  : Leave(c)
        \/ \E w \in Worlds : Retire(w)

Spec == Init /\ [][Next]_vars
=============================================================================
