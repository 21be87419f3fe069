----------------------------- MODULE MatchRooms -----------------------------
(***************************************************************************)
(* MatchHost (battleserver/matchhost.go): one Battle server, listener and  *)
(* reaper goroutine per live room, created by the launch handlers and torn *)
(* down after the room has held nobody for a grace period.                 *)
(*                                                                         *)
(* MatchHost.mu guards rooms only.  The reaper counts the members, looks   *)
(* at the clock, deletes the entry and closes the listener in four         *)
(* separate steps; launches, dials and joins interleave with all of them.  *)
(*                                                                         *)
(* The unit of time is reapPoll: between two ticks of the clock every      *)
(* sleeping reaper wakes once.  Grace is reapGrace / reapPoll.             *)
(*                                                                         *)
(* A launch that cannot open a listener leaves no entry, and launchTarget  *)
(* (ctrlserver) sends its player to the shared Battle server, Main, which  *)
(* listens all the time and is nobody's to reap.                           *)
(***************************************************************************)
EXTENDS Naturals

CONSTANTS Rooms, Servers, Main, Players, Grace, NoServer, NoRoom

ASSUME MatchAssumption == /\ Grace \in Nat \ {0}
                          /\ NoServer \notin Servers
                          /\ Main \notin Servers \cup {NoServer}
                          /\ NoRoom \notin Rooms

VARIABLES
  rooms,      \* MatchHost.rooms: the server a launch into a room is sent to
  listening,  \* servers whose listener is open
  reaper,     \* the reap goroutine of a server
  polled,     \* servers whose reaper has woken since the last tick
  idle,       \* time.Since(idleSince) of a server's reaper, up to Grace
  ppc,        \* where a player stands
  room,       \* the room the player was launched into
  port,       \* the server the launch answered with
  waited,     \* time since the launch, up to Grace
  fresh,      \* the launch created its server
  seen        \* the player was counted by LiveMemberCount

roomVars == <<rooms, listening, reaper, polled, idle, ppc, room, port, waited, fresh, seen>>
playerVars == <<ppc, room, port, waited, fresh, seen>>

\* "unborn": never created; "zero": it has just counted nobody; "delete" and
\* "close": the grace period is over, the steps of the teardown remain.
ReaperStates == {"unborn", "sleep", "zero", "delete", "close", "done"}

RoomsTypeOK == /\ rooms     \in [Rooms -> Servers \cup {NoServer}]
               /\ listening \subseteq Servers
               /\ reaper    \in [Servers -> ReaperStates]
               /\ polled    \subseteq Servers
               /\ idle      \in [Servers -> 0..Grace]
               /\ ppc       \in [Players -> {"lobby", "launched", "accepted", "playing", "refused"}]
               /\ room      \in [Players -> Rooms \cup {NoRoom}]
               /\ port      \in [Players -> Servers \cup {Main, NoServer}]
               /\ waited    \in [Players -> 0..Grace]
               /\ fresh     \in [Players -> BOOLEAN]
               /\ seen      \in [Players -> BOOLEAN]
               /\ \A p \in Players : ppc[p] # "lobby" => port[p] # NoServer

RoomsInit == /\ rooms     = [r \in Rooms |-> NoServer]
             /\ listening = {}
             /\ reaper    = [s \in Servers |-> "unborn"]
             /\ polled    = {}
             /\ idle      = [s \in Servers |-> 0]
             /\ ppc       = [p \in Players |-> "lobby"]
             /\ room      = [p \in Players |-> NoRoom]
             /\ port      = [p \in Players |-> NoServer]
             /\ waited    = [p \in Players |-> 0]
             /\ fresh     = [p \in Players |-> FALSE]
             /\ seen      = [p \in Players |-> FALSE]

\* LiveMemberCount > 0: somebody is in a world of s.
Occupied(s) == \E p \in Players : ppc[p] = "playing" /\ port[p] = s

(***************************************************************************)
(* launchTarget on behalf of player p: Launch is get-or-create under       *)
(* MatchHost.mu, and its error is answered with the shared server.         *)
(***************************************************************************)
Answer(p, r, s, created) ==
  /\ ppc'    = [ppc EXCEPT ![p] = "launched"]
  /\ room'   = [room EXCEPT ![p] = r]
  /\ port'   = [port EXCEPT ![p] = s]
  /\ waited' = [waited EXCEPT ![p] = 0]
  /\ fresh'  = [fresh EXCEPT ![p] = created]
  /\ seen'   = [seen EXCEPT ![p] = FALSE]

LaunchFound(p, r) ==
  /\ ppc[p] \in {"lobby", "refused"}
  /\ rooms[r] # NoServer
  /\ Answer(p, r, rooms[r], FALSE)
  /\ UNCHANGED <<rooms, listening, reaper, polled, idle>>

\* Variant: a room that already has a server gets another one.
LaunchAnother(p, r, s) ==
  /\ ppc[p] \in {"lobby", "refused"}
  /\ reaper[s] = "unborn"
  /\ rooms'     = [rooms EXCEPT ![r] = s]
  /\ listening' = listening \cup {s}
  /\ reaper'    = [reaper EXCEPT ![s] = "sleep"]
  /\ Answer(p, r, s, TRUE)
  /\ UNCHANGED <<polled, idle>>

\* Variant: idleSince starts a grace period in the past.
LaunchStale(p, r, s) ==
  /\ ppc[p] \in {"lobby", "refused"}
  /\ rooms[r] = NoServer
  /\ reaper[s] = "unborn"
  /\ rooms'     = [rooms EXCEPT ![r] = s]
  /\ listening' = listening \cup {s}
  /\ reaper'    = [reaper EXCEPT ![s] = "sleep"]
  /\ idle'      = [idle EXCEPT ![s] = Grace]
  /\ Answer(p, r, s, TRUE)
  /\ UNCHANGED polled

LaunchCreate(p, r, s) ==
  /\ ppc[p] \in {"lobby", "refused"}
  /\ rooms[r] = NoServer
  /\ reaper[s] = "unborn"
  /\ rooms'     = [rooms EXCEPT ![r] = s]
  /\ listening' = listening \cup {s}
  /\ reaper'    = [reaper EXCEPT ![s] = "sleep"]
  /\ Answer(p, r, s, TRUE)
  /\ UNCHANGED <<polled, idle>>

\* net.Listen fails: no entry is made, and the launch falls back.
LaunchFails(p, r) ==
  /\ ppc[p] \in {"lobby", "refused"}
  /\ rooms[r] = NoServer
  /\ Answer(p, r, Main, FALSE)
  /\ UNCHANGED <<rooms, listening, reaper, polled, idle>>

(***************************************************************************)
(* The player's side: dial the port, have the connection's world joined    *)
(* (joinInstance), leave the world (closeHunt).                            *)
(***************************************************************************)
Dial(p) ==
  /\ ppc[p] = "launched"
  /\ ppc' = [ppc EXCEPT ![p] = IF port[p] \in listening \cup {Main} THEN "accepted" ELSE "refused"]
  /\ UNCHANGED <<rooms, listening, reaper, polled, idle, room, port, waited, fresh, seen>>

Enter(p) ==
  /\ ppc[p] = "accepted"
  /\ ppc' = [ppc EXCEPT ![p] = "playing"]
  /\ UNCHANGED <<rooms, listening, reaper, polled, idle, room, port, waited, fresh, seen>>

Leave(p) ==
  /\ ppc[p] \in {"accepted", "playing"}
  /\ ppc' = [ppc EXCEPT ![p] = "lobby"]
  /\ UNCHANGED <<rooms, listening, reaper, polled, idle, room, port, waited, fresh, seen>>

(***************************************************************************)
(* reap(room, ms).                                                         *)
(***************************************************************************)
\* Variant: a live member does not reset idleSince.
CountNoReset(s) ==
  /\ reaper[s] = "sleep" /\ s \notin polled
  /\ polled' = polled \cup {s}
  /\ reaper' = [reaper EXCEPT ![s] = "zero"]
  /\ seen'   = [p \in Players |-> seen[p] \/ (ppc[p] = "playing" /\ port[p] = s)]
  /\ UNCHANGED <<rooms, listening, idle, ppc, room, port, waited, fresh>>

Count(s) ==
  /\ reaper[s] = "sleep" /\ s \notin polled
  /\ polled' = polled \cup {s}
  /\ IF Occupied(s)
     THEN idle' = [idle EXCEPT ![s] = 0] /\ UNCHANGED reaper
     ELSE reaper' = [reaper EXCEPT ![s] = "zero"] /\ UNCHANGED idle
  /\ seen' = [p \in Players |-> seen[p] \/ (ppc[p] = "playing" /\ port[p] = s)]
  /\ UNCHANGED <<rooms, listening, ppc, room, port, waited, fresh>>

Decide(s) ==
  /\ reaper[s] = "zero"
  /\ reaper' = [reaper EXCEPT ![s] = IF idle[s] < Grace THEN "sleep" ELSE "delete"]
  /\ UNCHANGED <<rooms, listening, polled, idle, playerVars>>

\* Variant: the entry of a reaped room is never deleted.
DeleteNothing(s) ==
  /\ reaper[s] = "delete"
  /\ reaper' = [reaper EXCEPT ![s] = "close"]
  /\ UNCHANGED <<rooms, listening, polled, idle, playerVars>>

Delete(s) ==
  /\ reaper[s] = "delete"
  /\ rooms'  = [r \in Rooms |-> IF rooms[r] = s THEN NoServer ELSE rooms[r]]
  /\ reaper' = [reaper EXCEPT ![s] = "close"]
  /\ UNCHANGED <<listening, polled, idle, playerVars>>

Close(s) ==
  /\ reaper[s] = "close"
  /\ listening' = listening \ {s}
  /\ reaper'    = [reaper EXCEPT ![s] = "done"]
  /\ UNCHANGED <<rooms, polled, idle, playerVars>>

Reap(s) == Count(s) \/ Decide(s) \/ Delete(s) \/ Close(s)

Tick ==
  /\ \A s \in Servers : reaper[s] # "zero" /\ (reaper[s] = "sleep" => s \in polled)
  /\ polled' = {}
  /\ idle'   = [s \in Servers |-> IF reaper[s] = "sleep" /\ idle[s] < Grace
                                  THEN idle[s] + 1 ELSE idle[s]]
  /\ waited' = [p \in Players |-> IF ppc[p] = "launched" /\ waited[p] < Grace
                                  THEN waited[p] + 1 ELSE waited[p]]
  /\ UNCHANGED <<rooms, listening, reaper, ppc, room, port, fresh, seen>>

RoomsNext == \/ \E p \in Players, r \in Rooms : LaunchFound(p, r)
             \/ \E p \in Players, r \in Rooms, s \in Servers : LaunchCreate(p, r, s)
             \/ \E p \in Players, r \in Rooms : LaunchFails(p, r)
             \/ \E p \in Players : Dial(p) \/ Enter(p) \/ Leave(p)
             \/ \E s \in Servers : Reap(s)
             \/ Tick

RoomsSpec == RoomsInit /\ [][RoomsNext]_roomVars

\* Time passes and every reaper goroutine keeps running; players do as they like.
FairRoomsSpec == /\ RoomsSpec
                 /\ WF_roomVars(Tick)
                 /\ \A s \in Servers : WF_roomVars(Reap(s))
-----------------------------------------------------------------------------
Reaped(s) == s \in Servers /\ reaper[s] \in {"delete", "close", "done"}

\* "any live member resets it, so a match in progress is never reaped"
\* (matchhost.go:96-97), for the members the reaper has had a chance to count.
NeverReapedInProgress ==
  \A p \in Players : ppc[p] = "playing" /\ seen[p] => ~Reaped(port[p])

\* "every player of one match gets the same server, so they all land in the same
\* world" (matchhost.go:66-68), as far as Launch gives one: the players of a room
\* whose launches the match host answered are on one server, except next to a
\* server that is being torn down.  A launch that fell back to the shared server
\* parts its player from those who come later; a server once there is shared by
\* all who launch while it stands.
OneServerPerMatch ==
  \A p, q \in Players :
    /\ ppc[p] \in {"launched", "accepted", "playing"} /\ port[p] # Main
    /\ ppc[q] \in {"launched", "accepted", "playing"} /\ port[q] # Main
    /\ room[p] = room[q]
    => port[p] = port[q] \/ Reaped(port[p]) \/ Reaped(port[q])

\* The launch that creates a server has the whole grace period to connect.
FirstLaunchHonoured ==
  \A p \in Players : ppc[p] = "refused" /\ fresh[p] => waited[p] = Grace

\* Once nobody plays any more, no listener and no room entry is left behind.
DesertedRoomsReaped ==
  <>[](\A p \in Players : ppc[p] \in {"lobby", "launched", "refused"})
    => []<>(listening = {} /\ \A r \in Rooms : rooms[r] = NoServer)
=============================================================================
