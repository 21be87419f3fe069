------------------------------- MODULE MPDHub -------------------------------
(***************************************************************************)
(* The push channel (mpd/hub.go, mpd/server.go): which socket is a user's  *)
(* live one, which central square a user is recorded in, and the presence  *)
(* notices that ctrlserver/group.go sends to the party when a socket       *)
(* registers or ends.  Hub.mu is innermost and held for single statements, *)
(* so every action is one section under it or one push outside it.         *)
(***************************************************************************)
CONSTANTS Users, Socks, SockUser, Areas, NoSock, NoArea

ASSUME HubAssumption == /\ SockUser \in [Socks -> Users]
                        /\ NoSock \notin Socks
                        /\ NoArea \notin Areas

VARIABLES
  conns,   \* Hub.conns: the socket pushes to a user are written to
  areas,   \* Hub.areas: the square a user is recorded in, for area chat
  spc,     \* where a socket's handleConn goroutine stands
  dead,    \* sockets whose TCP connection is over (client closed, or evicted)
  old,     \* register's local of that name: the socket to evict
  shown    \* the last presence notice about a user that the party received

hubVars == <<conns, areas, spc, dead, old, shown>>
sockVars == <<conns, spc, dead, old, shown>>

SockPlaces == {"new", "evict", "announce", "open", "offline", "done"}

HubTypeOK == /\ conns \in [Users -> Socks \cup {NoSock}]
             /\ areas \in [Users -> Areas \cup {NoArea}]
             /\ spc   \in [Socks -> SockPlaces]
             /\ dead  \subseteq Socks
             /\ old   \in [Socks -> Socks \cup {NoSock}]
             /\ shown \in [Users -> {"online", "offline"}]

HubInit == /\ conns = [u \in Users |-> NoSock]
           /\ areas = [u \in Users |-> NoArea]
           /\ spc   = [s \in Socks |-> "new"]
           /\ dead  = {}
           /\ old   = [s \in Socks |-> NoSock]
           /\ shown = [u \in Users |-> "offline"]

(***************************************************************************)
(* handleConn after a login frame whose session key is valid: register,    *)
(* which swaps the socket in under the lock and closes the one it replaced *)
(* outside it; then OnConnect -> NotifyOnline.                             *)
(***************************************************************************)
Register(s) ==
  /\ spc[s] = "new"
  /\ old'   = [old EXCEPT ![s] = conns[SockUser[s]]]
  /\ conns' = [conns EXCEPT ![SockUser[s]] = s]
  /\ spc'   = [spc EXCEPT ![s] = "evict"]
  /\ UNCHANGED <<areas, dead, shown>>

Evict(s) ==
  /\ spc[s] = "evict"
  /\ dead' = dead \cup ({old[s]} \ {NoSock})
  /\ spc'  = [spc EXCEPT ![s] = "announce"]
  /\ old'  = [old EXCEPT ![s] = NoSock]
  /\ UNCHANGED <<conns, areas, shown>>

NotifyOnline(s) ==
  /\ spc[s] = "announce"
  /\ shown' = [shown EXCEPT ![SockUser[s]] = "online"]
  /\ spc'   = [spc EXCEPT ![s] = "open"]
  /\ UNCHANGED <<conns, areas, dead, old>>

\* The client goes away.
HangUp(s) ==
  /\ spc[s] # "new" /\ s \notin dead
  /\ dead' = dead \cup {s}
  /\ UNCHANGED <<conns, areas, spc, old, shown>>

(***************************************************************************)
(* The end of the read loop: unregister, then OnDisconnect ->              *)
(* NotifyOffline, whether or not this socket was still the user's own.     *)
(***************************************************************************)
Unregister(s) ==
  /\ spc[s] = "open" /\ s \in dead
  /\ conns' = [conns EXCEPT ![SockUser[s]] = IF @ = s THEN NoSock ELSE @]
  /\ spc'   = [spc EXCEPT ![s] = "offline"]
  /\ UNCHANGED <<areas, dead, old, shown>>

NotifyOffline(s) ==
  /\ spc[s] = "offline"
  /\ shown' = [shown EXCEPT ![SockUser[s]] = "offline"]
  /\ spc'   = [spc EXCEPT ![s] = "done"]
  /\ UNCHANGED <<conns, areas, dead, old>>

SockStep(s) == \/ Register(s)
               \/ Evict(s)
               \/ NotifyOnline(s)
               \/ HangUp(s)
               \/ Unregister(s)
               \/ NotifyOffline(s)

(***************************************************************************)
(* Called by the Battle server on entry to and departure from a square.    *)
(***************************************************************************)
SetArea(u, a) == areas' = [areas EXCEPT ![u] = a]
ClearArea(u)  == areas' = [areas EXCEPT ![u] = NoArea]

AreaMembers(a) == {u \in Users : areas[u] = a}
-----------------------------------------------------------------------------
\* The goroutines of u's sockets have nothing left to do.
Settled(u) == \A s \in Socks : SockUser[s] = u =>
                 \/ spc[s] \in {"new", "done"}
                 \/ spc[s] = "open" /\ s \notin dead

\* A user who holds an open socket is reachable through exactly that one, and
\* a user without one is offline: an evicted socket that ends late does not
\* take its successor's registration along.
RegisteredIsLive ==
  \A u \in Users : Settled(u) =>
    {s \in Socks : SockUser[s] = u /\ spc[s] = "open"} = {conns[u]} \ {NoSock}
=============================================================================
