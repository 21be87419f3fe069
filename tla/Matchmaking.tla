---------------------------- MODULE Matchmaking ----------------------------
(***************************************************************************)
(* The fight|* queue of the Ctrl server (ctrlserver/dota.go) and the       *)
(* hand-over of a launch to the Battle server (Store.SetPendingBattle,     *)
(* Store.TakePendingBattle, battleserver handleConnect).                   *)
(*                                                                         *)
(* Every HTTP request runs in a goroutine of its own.  fight|join queues   *)
(* and forms a match in one section under fightMu; the other handlers take *)
(* fightMu (or Store.mu) several times, and everybody else's handlers run  *)
(* in between.  The pushes to the matched users leave after the section,   *)
(* in no order and at no time the code fixes, and some never arrive: until *)
(* then the client is where it was and may ask for anything its screen     *)
(* offers, another fight|join included.  A client has one request under    *)
(* way at a time.                                                          *)
(***************************************************************************)
EXTENDS Lists, SequencesExt, FiniteSets

CONSTANTS Users, DotaMaps, ArenaMaps, Avatars, DotaMatchSize, MaxRooms, Nothing

Maps == DotaMaps \cup ArenaMaps

ASSUME QueueAssumption == /\ DotaMatchSize \in Nat \ {0}
                          /\ MaxRooms \in Nat
                          /\ DotaMaps \cap ArenaMaps = {}
                          /\ IsFiniteSet(Users)

VARIABLES
  dotaQueue,    \* the users waiting for each map, in order of arrival
  nextDotaRoom, \* the counter behind dotaRoomBase
  fightSel,     \* uid -> fightSelection
  pending,      \* Store.pending: uid -> PendingBattle
  hpc,          \* the section a user's handler will run next
  tmp,          \* the fightSelection the handler read
  mail,         \* the MPD pushes to a user that are written or still to be written
  screen,       \* what the client shows: it decides what the client may send
  ticket,       \* the launch the client follows: it stands for the password
  battle,       \* the launch this user's Battle connection claimed (conn.hunt)
  rosters,      \* history, by room: the map of the match formed and its players' sides
  launched,     \* history: the room of the last pending battle recorded for a user
  crossed       \* history: the users who sent a request across a push or a request

vars == <<dotaQueue, nextDotaRoom, fightSel, pending, hpc, tmp, mail, screen, ticket, battle,
          rosters, launched, crossed>>

Teams == 0..2                 \* 0: the Battle server picks («Arena»)
RoomIds == 1..MaxRooms        \* dotaRoomBase + nextDotaRoom
NoAvatar == "none"            \* avatarID -1

\* The zero fightSelection, which getFightSel hands out when the table has none.
Unset == [map |-> Nothing, avatar |-> NoAvatar, room |-> 0, team |-> 0]

Selection == [map : Maps \cup {Nothing}, avatar : Avatars \cup {NoAvatar},
              room : 0..MaxRooms, team : Teams]

ASSUME NothingAssumption == Nothing \notin Maps /\ Nothing \notin Selection

\* PendingBattle without its password and scene.
Launch == [map : Maps, avatar : Avatars, room : RoomIds, team : Teams]

\* A push: fight|start_select_avatar, or fight|launch with the password for a room.
StartSelect == 0
Pushes == {StartSelect} \cup RoomIds

\* The screens on which the player may join a queue, and those a push reaches.
Lobby == {"square", "queue"}
Listening == {"square", "queue", "avatars"}

\* A selection a match was formed with: fightSceneForMap knows its map.
Real(x) == x # Nothing /\ x.map \in Maps

TypeOK ==
  /\ dotaQueue \in [Maps -> Seq(Users)]
  /\ nextDotaRoom \in 0..MaxRooms
  /\ fightSel \in [Users -> Selection \cup {Nothing}]
  /\ pending  \in [Users -> Launch \cup {Nothing}]
  /\ hpc \in [Users -> {"idle", "select", "pend", "clear", "dequeue"}]
  /\ tmp \in [Users -> Selection]
  /\ mail \in [Users -> SUBSET Pushes]
  /\ screen \in [Users -> {"square", "queue", "avatars", "launching", "battle"}]
  /\ ticket \in [Users -> 0..MaxRooms]
  /\ battle \in [Users -> Launch \cup {Nothing}]
  /\ DOMAIN rosters = 1..nextDotaRoom
  /\ launched \in [Users -> 0..MaxRooms]
  /\ crossed \subseteq Users

Init == /\ dotaQueue = [m \in Maps |-> <<>>]
        /\ nextDotaRoom = 0
        /\ fightSel = [u \in Users |-> Nothing]
        /\ pending  = [u \in Users |-> Nothing]
        /\ hpc = [u \in Users |-> "idle"]
        /\ tmp = [u \in Users |-> Unset]
        /\ mail = [u \in Users |-> {}]
        /\ screen = [u \in Users |-> "square"]
        /\ ticket = [u \in Users |-> 0]
        /\ battle = [u \in Users |-> Nothing]
        /\ rosters = <<>>
        /\ launched = [u \in Users |-> 0]
        /\ crossed = {}

Idle(u) == hpc[u] = "idle"

\* The request u sends now crosses a push to him, or his own request.
Crossing(u) == mail[u] # {} \/ ~Idle(u)
Crossed(u) == crossed' = IF Crossing(u) THEN crossed \cup {u} ELSE crossed

\* The handler returns, and its locals are gone.
Done(u) == /\ hpc' = [hpc EXCEPT ![u] = "idle"]
           /\ tmp' = [tmp EXCEPT ![u] = Unset]

\* removeFromDotaQueueLocked: uid leaves every map's list; the others keep their order.
Without(u) == [m \in Maps |-> Kept(dotaQueue[m], u)]

(***************************************************************************)
(* handleFightJoin.  The joiner takes a fresh place, whatever selection he *)
(* already has; a full queue gives up its first DotaMatchSize users to a   *)
(* new room, sides alternating, and they are told after the section.       *)
(***************************************************************************)
Side(m, i) == IF m \in DotaMaps THEN 1 + ((i - 1) % 2) ELSE 0

Waiting(u, m) == Append(Without(u)[m], u)

\* What both ends of a join have in common.
Joins(u) ==
  /\ Idle(u) /\ screen[u] \in Lobby
  /\ screen' = [screen EXCEPT ![u] = "queue"]
  /\ Crossed(u)
  /\ UNCHANGED <<pending, hpc, tmp, ticket, battle, launched>>

JoinWait(u, m) ==
  /\ Joins(u)
  /\ Len(Waiting(u, m)) < DotaMatchSize
  /\ dotaQueue' = [Without(u) EXCEPT ![m] = Waiting(u, m)]
  /\ UNCHANGED <<nextDotaRoom, fightSel, mail, rosters>>

\* Room r is given to the users of match, who are pushed fight|start_select_avatar.
Forms(match, m) ==
  LET r     == nextDotaRoom + 1
      teams == [v \in ToSet(match) |-> Side(m, CHOOSE i \in DOMAIN match : match[i] = v)] IN
  /\ nextDotaRoom < MaxRooms
  /\ nextDotaRoom' = r
  /\ fightSel' = [v \in Users |-> IF v \in ToSet(match)
                    THEN [map |-> m, avatar |-> NoAvatar, room |-> r, team |-> teams[v]]
                    ELSE fightSel[v]]
  /\ rosters' = Append(rosters, [map |-> m, teams |-> teams])
  /\ mail' = [v \in Users |-> IF v \in ToSet(match) THEN mail[v] \cup {StartSelect} ELSE mail[v]]

\* Variant: the matched users stay in the queue.
JoinFormKeep(u, m) ==
  /\ Joins(u)
  /\ Len(Waiting(u, m)) >= DotaMatchSize
  /\ dotaQueue' = [Without(u) EXCEPT ![m] = Waiting(u, m)]
  /\ Forms(SubSeq(Waiting(u, m), 1, DotaMatchSize), m)

JoinForm(u, m) ==
  /\ Joins(u)
  /\ Len(Waiting(u, m)) >= DotaMatchSize
  /\ dotaQueue' = [Without(u) EXCEPT
                     ![m] = SubSeq(Waiting(u, m), DotaMatchSize + 1, Len(Waiting(u, m)))]
  /\ Forms(SubSeq(Waiting(u, m), 1, DotaMatchSize), m)

(***************************************************************************)
(* The pushes arrive.  Neither names what the client was doing meanwhile.  *)
(***************************************************************************)
\* fight|start_select_avatar: the client asks for and opens the choice of an avatar.
Found(u) ==
  /\ StartSelect \in mail[u] /\ screen[u] \in Listening
  /\ screen' = [screen EXCEPT ![u] = "avatars"]
  /\ mail' = [mail EXCEPT ![u] = @ \ {StartSelect}]
  /\ UNCHANGED <<dotaQueue, nextDotaRoom, fightSel, pending, hpc, tmp, ticket, battle,
                 rosters, launched, crossed>>

\* fight|launch: the client sets off to the match's Battle server.
Launches(u, r) ==
  /\ r \in mail[u] /\ screen[u] \in Listening
  /\ screen' = [screen EXCEPT ![u] = "launching"]
  /\ ticket' = [ticket EXCEPT ![u] = r]
  /\ mail' = [mail EXCEPT ![u] = @ \ {r}]
  /\ UNCHANGED <<dotaQueue, nextDotaRoom, fightSel, pending, hpc, tmp, battle,
                 rosters, launched, crossed>>

(***************************************************************************)
(* handleFightSelectAvatar: getFightSel, then setFightSel of the copy; the *)
(* copy of a selection that is not there is the zero one.                  *)
(***************************************************************************)
SelectGet(u) ==
  /\ Idle(u) /\ screen[u] = "avatars"
  /\ tmp' = [tmp EXCEPT ![u] = IF fightSel[u] = Nothing THEN Unset ELSE fightSel[u]]
  /\ hpc' = [hpc EXCEPT ![u] = "select"]
  /\ UNCHANGED <<dotaQueue, nextDotaRoom, fightSel, pending, mail, screen, ticket, battle,
                 rosters, launched, crossed>>

\* Variant: the stored selection is built anew around the avatar.
SelectBlank(u, a) ==
  /\ hpc[u] = "select"
  /\ fightSel' = [fightSel EXCEPT ![u] = [tmp[u] EXCEPT !.avatar = a, !.team = 0]]
  /\ Done(u)
  /\ UNCHANGED <<dotaQueue, nextDotaRoom, pending, mail, screen, ticket, battle,
                 rosters, launched, crossed>>

SelectSet(u, a) ==
  /\ hpc[u] = "select"
  /\ fightSel' = [fightSel EXCEPT ![u] = [tmp[u] EXCEPT !.avatar = a]]
  /\ Done(u)
  /\ UNCHANGED <<dotaQueue, nextDotaRoom, pending, mail, screen, ticket, battle,
                 rosters, launched, crossed>>

(***************************************************************************)
(* handleFightReady: read the selection, record the pending battle, clear  *)
(* the selection, and only then send the client off.                       *)
(***************************************************************************)
ReadyGet(u) ==
  /\ Idle(u) /\ screen[u] = "avatars"
  /\ Real(fightSel[u])
  /\ tmp' = [tmp EXCEPT ![u] = fightSel[u]]
  /\ hpc' = [hpc EXCEPT ![u] = "pend"]
  /\ UNCHANGED <<dotaQueue, nextDotaRoom, fightSel, pending, mail, screen, ticket, battle,
                 rosters, launched, crossed>>

\* An avatar that was never chosen is drawn at random.
ReadyPend(u, a) ==
  /\ hpc[u] = "pend"
  /\ tmp[u].avatar \in {NoAvatar, a}
  /\ pending' = [pending EXCEPT ![u] = [tmp[u] EXCEPT !.avatar = a]]
  /\ launched' = [launched EXCEPT ![u] = tmp[u].room]
  /\ hpc' = [hpc EXCEPT ![u] = "clear"]
  /\ UNCHANGED <<dotaQueue, nextDotaRoom, fightSel, tmp, mail, screen, ticket, battle,
                 rosters, crossed>>

\* Variant: the selection outlives the launch.
ReadyClearKeep(u) ==
  /\ hpc[u] = "clear"
  /\ Done(u)
  /\ mail' = [mail EXCEPT ![u] = @ \cup {tmp[u].room}]
  /\ UNCHANGED <<dotaQueue, nextDotaRoom, fightSel, pending, screen, ticket, battle,
                 rosters, launched, crossed>>

ReadyClear(u) ==
  /\ hpc[u] = "clear"
  /\ fightSel' = [fightSel EXCEPT ![u] = Nothing]
  /\ Done(u)
  /\ mail' = [mail EXCEPT ![u] = @ \cup {tmp[u].room}]
  /\ UNCHANGED <<dotaQueue, nextDotaRoom, pending, screen, ticket, battle,
                 rosters, launched, crossed>>

(***************************************************************************)
(* handleFightDesert: the selection goes in one section, the queue place   *)
(* in a second one.                                                        *)
(***************************************************************************)
DesertClear(u) ==
  /\ Idle(u) /\ screen[u] \in {"queue", "avatars"}
  /\ fightSel' = [fightSel EXCEPT ![u] = Nothing]
  /\ screen' = [screen EXCEPT ![u] = "square"]
  /\ hpc' = [hpc EXCEPT ![u] = "dequeue"]
  /\ Crossed(u)
  /\ UNCHANGED <<dotaQueue, nextDotaRoom, pending, tmp, mail, ticket, battle, rosters, launched>>

DesertDequeue(u) ==
  /\ hpc[u] = "dequeue"
  /\ dotaQueue' = Without(u)
  /\ hpc' = [hpc EXCEPT ![u] = "idle"]
  /\ UNCHANGED <<nextDotaRoom, fightSel, pending, tmp, mail, screen, ticket, battle,
                 rosters, launched, crossed>>

(***************************************************************************)
(* handleConnect -> TakePendingBattle.  The entry is consumed whatever the *)
(* password was; only the right one turns the connection into the battle,  *)
(* any other leads to the square.                                          *)
(***************************************************************************)
Connect(u) ==
  LET right == pending[u] # Nothing /\ pending[u].room = ticket[u] IN
  /\ screen[u] = "launching"
  /\ battle'  = [battle EXCEPT ![u] = IF right THEN pending[u] ELSE Nothing]
  /\ screen'  = [screen EXCEPT ![u] = IF right THEN "battle" ELSE "square"]
  /\ pending' = [pending EXCEPT ![u] = Nothing]
  /\ ticket'  = [ticket EXCEPT ![u] = 0]
  /\ UNCHANGED <<dotaQueue, nextDotaRoom, fightSel, hpc, tmp, mail, rosters, launched, crossed>>

\* A plain reconnect, with no battle password: the client was closed and started again,
\* or comes back from a battle.
Reconnect(u) ==
  /\ battle'  = [battle EXCEPT ![u] = Nothing]
  /\ pending' = [pending EXCEPT ![u] = Nothing]
  /\ screen'  = [screen EXCEPT ![u] = "square"]
  /\ Crossed(u)
  /\ ticket'  = [ticket EXCEPT ![u] = 0]
  /\ UNCHANGED <<dotaQueue, nextDotaRoom, fightSel, hpc, tmp, mail, rosters, launched>>

Handler(u) == \/ \E a \in Avatars : SelectSet(u, a)
              \/ \E a \in Avatars : ReadyPend(u, a)
              \/ ReadyClear(u)
              \/ DesertDequeue(u)

Acts(u) == \/ \E m \in Maps : JoinWait(u, m)
           \/ \E m \in Maps : JoinForm(u, m)
           \/ Found(u)
           \/ \E r \in RoomIds : Launches(u, r)
           \/ SelectGet(u)
           \/ ReadyGet(u)
           \/ DesertClear(u)
           \/ Handler(u)
           \/ Connect(u)
           \/ Reconnect(u)

Next == \E u \in Users : Acts(u)

Spec == Init /\ [][Next]_vars

-----------------------------------------------------------------------------
(***************************************************************************)
(* Properties.                                                             *)
(***************************************************************************)

\* A formed match has DotaMatchSize different players, and a DOTA match seats
\* them on sides that differ by one at most (handleFightJoin, with its removal
\* of an earlier place of the joiner).
MatchesFullAndFair ==
  \A r \in DOMAIN rosters :
    LET teams == rosters[r].teams
        seated(t) == Cardinality({u \in DOMAIN teams : teams[u] = t}) IN
    /\ Cardinality(DOMAIN teams) = DotaMatchSize
    /\ rosters[r].map \in DotaMaps => /\ seated(0) = 0
                                      /\ seated(1) - seated(2) \in {0, 1}

\* A user holds one place over all the queues at most, whatever he sends and when.
\* handleFightJoin asks for no selection, so a matched user may be queued again; but
\* only by a request that crosses the push that told him of his match: whoever sent
\* none is not drawn again while he picks his avatar, sets off or fights.
WaitsOnceOrPlays ==
  \A u \in Users :
    LET places == UNION {{<<m, i>> : i \in {k \in DOMAIN dotaQueue[m] : dotaQueue[m][k] = u}}
                           : m \in Maps} IN
    /\ Cardinality(places) <= 1
    /\ u \notin crossed /\ screen[u] \in {"avatars", "launching", "battle"} => places = {}

\* So a queue seats a user once, and a match counts every player once.
SeatedOnce == MatchesFullAndFair /\ WaitsOnceOrPlays

\* What a user launches into, and the battle his connection claims, is a match
\* that was formed with him: its room, its map and the side it seated him on,
\* through the selection, the pending battle and the connect.
LaunchedAsMatched ==
  \A u \in Users : \A l \in {pending[u], battle[u]} \ {Nothing} :
    /\ l.room \in DOMAIN rosters
    /\ rosters[l.room].map = l.map
    /\ u \in DOMAIN rosters[l.room].teams
    /\ rosters[l.room].teams[u] = l.team

\* A seat is launched once, and the launches of a user go forward.  No selection, nor
\* the copy of one a handler still holds, is of a room he was already sent to, or of an
\* earlier one, however fight|join, select_avatar, ready and desert interleave; and
\* TakePendingBattle leaves no second launch into the battle he plays.
LaunchedOnce ==
  \A u \in Users :
    /\ Real(fightSel[u]) /\ hpc[u] # "clear" => fightSel[u].room > launched[u]
    /\ Real(tmp[u]) /\ hpc[u] \in {"select", "pend"} => tmp[u].room > launched[u]
    /\ pending[u] # Nothing => /\ pending[u].room = launched[u]
                               /\ battle[u] # Nothing => pending[u].room > battle[u].room

\* A launch nobody claimed does not outlive its match.  A user none of whose requests
\* crossed a push has what is pending for him, or claimed by him, from the last match
\* he was drawn into, and waits or stands in the square with none.
LaunchIsOfLastMatch ==
  \A u \in Users \ crossed :
    /\ \A l \in {pending[u], battle[u]} \ {Nothing} :
         \A r \in DOMAIN rosters : u \in DOMAIN rosters[r].teams => r <= l.room
    /\ screen[u] \in Lobby => pending[u] = Nothing

\* Both together: no launch is stale.
NoStaleLaunch == LaunchedOnce /\ LaunchIsOfLastMatch
=============================================================================
