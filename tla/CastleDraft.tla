---------------------------- MODULE CastleDraft ----------------------------
(***************************************************************************)
(* The siege of a castle up to the launch (ctrlserver/castle.go): players  *)
(* enroll, the scheduler opens a battle window, every fighter is seated on *)
(* a side by his clan and drafts an avatar, and a ready one is sent to the *)
(* Battle server.                                                          *)
(*                                                                         *)
(* One goroutine opens the windows; each request runs in one of its own.   *)
(* castleMu guards a section at a time: the scheduler releases it to ask   *)
(* the Store for owner and clans, and a handler releases it                *)
(* between reading a selection and storing or clearing it.  Heroes change  *)
(* clans and sieges change owners all the time: the Store answers anything.*)
(***************************************************************************)
EXTENDS Naturals, Sequences, FiniteSets

CONSTANTS Fighters, Keeps, Banners,     \* users, castles and clans
          Heralds,                      \* avatars to choose from
          NoOne,
          MaxWindows                    \* bound: battle windows opened

ASSUME DraftAssumption == IsFiniteSet(Fighters) /\ MaxWindows \in Nat

VARIABLES
  castleRosters,  \* castle -> the users enrolled
  castleSel,      \* uid -> castleSelection
  castlePending,  \* uid -> PendingBattle, tagged with the castle
  window,         \* the locals of fireCastleBattleWindow
  request,        \* the section a user's handler runs next, and the selection it read
  windows         \* history: castle and sides of each room

draftVars == <<castleRosters, castleSel, castlePending, window, request,
               windows>>

Clan == Banners \cup {NoOne}
Attacker == 1
Defender == 2

CastleSelection == [castle : Keeps, avatar : Heralds \cup {NoOne}, room : 1..MaxWindows,
                    team : {Attacker, Defender}]

Asleep == [pc |-> "idle"]
NoRequest == [pc |-> "idle", sel |-> NoOne]

DraftTypeOK ==
  /\ castleRosters \in [Keeps -> SUBSET Fighters]
  /\ castleSel \in [Fighters -> CastleSelection \cup {NoOne}]
  /\ castlePending \in [Fighters -> CastleSelection \cup {NoOne}]
  /\ window.pc \in {"idle", "draft"}
  /\ request \in [Fighters -> [pc : {"idle", "select", "pend", "clear"},
                               sel : CastleSelection \cup {NoOne}]]
  /\ Len(windows) <= MaxWindows

DraftInit ==
  /\ castleRosters = [c \in Keeps |-> {}]
  /\ castleSel = [u \in Fighters |-> NoOne]
  /\ castlePending = [u \in Fighters |-> NoOne]
  /\ window = Asleep
  /\ request = [u \in Fighters |-> NoRequest]
  /\ windows = <<>>

(***************************************************************************)
(* castle|set_fighters and castle|desert: the roster.                      *)
(***************************************************************************)
SetFighters(u, c) ==
  /\ request[u] = NoRequest
  /\ castleRosters' = [castleRosters EXCEPT ![c] = @ \cup {u}]
  /\ UNCHANGED <<castleSel, castlePending, window, request, windows>>

Desert(u, c) ==
  /\ request[u] = NoRequest
  /\ castleRosters' = [castleRosters EXCEPT ![c] = @ \ {u}]
  /\ UNCHANGED <<castleSel, castlePending, window, request, windows>>

(***************************************************************************)
(* fireCastleBattleWindow: the countdown is over.  The roster is copied    *)
(* (an empty one lets the window pass) and assignCastleTeams seats it: the *)
(* owner defends, else the largest clan.  It asks for every fighter's clan *)
(* once to count it and once more to seat him, and reads no state of this  *)
(* module: only what it was told matters to the steps that follow.         *)
(***************************************************************************)
\* The clans of the most fighters; the map of them is walked in any order.
Largest(clanOf) ==
  LET votes(k) == Cardinality({u \in DOMAIN clanOf : clanOf[u] = k}) IN
  {k \in Banners : votes(k) > 0 /\ \A j \in Banners : votes(j) <= votes(k)}

Defenders(castleOwner, counted) == CASE castleOwner # NoOne -> {castleOwner}
                                     [] castleOwner = NoOne /\ Largest(counted) # {} ->
                                          Largest(counted)
                                     [] OTHER -> {NoOne}

AssignCastleTeams(defender, seated) ==
  [u \in DOMAIN seated |-> IF defender # NoOne /\ seated[u] = defender THEN Defender ELSE Attacker]

Fire(c, castleOwner) ==
  /\ window = Asleep /\ Len(windows) < MaxWindows
  /\ castleRosters[c] # {}
  /\ \E counted, seated \in [castleRosters[c] -> Clan] :
       \E defender \in Defenders(castleOwner, counted) :
         window' = [pc |-> "draft", castle |-> c, teams |-> AssignCastleTeams(defender, seated)]
  /\ UNCHANGED <<castleRosters, castleSel, castlePending, request, windows>>

\* The selections of all the fighters are laid anew, whatever they were.
DraftInto(room) ==
  LET uids == DOMAIN window.teams IN
  /\ window # Asleep
  /\ castleSel' = [u \in Fighters |-> IF u \in uids
       THEN [castle |-> window.castle, avatar |-> NoOne, room |-> room, team |-> window.teams[u]]
       ELSE castleSel[u]]
  /\ windows' = Append(windows, [castle |-> window.castle, teams |-> window.teams])
  /\ window' = Asleep
  /\ UNCHANGED <<castleRosters, castlePending, request>>

DraftFighters == DraftInto(Len(windows) + 1)

(***************************************************************************)
(* castle|select_avatar: getCastleSel, then setCastleSel of the copy.      *)
(***************************************************************************)
ReadSelection(u, next) ==
  /\ request[u] = NoRequest /\ castleSel[u] # NoOne
  /\ request' = [request EXCEPT ![u] = [pc |-> next, sel |-> castleSel[u]]]
  /\ UNCHANGED <<castleRosters, castleSel, castlePending, window, windows>>

StoreSelection(u, sel) ==
  /\ request[u].pc = "select"
  /\ castleSel' = [castleSel EXCEPT ![u] = sel]
  /\ request' = [request EXCEPT ![u] = NoRequest]
  /\ UNCHANGED <<castleRosters, castlePending, window, windows>>

\* Variant: the choice is merged into whatever draft there is by now, side by side.
SelectMerged(u, a) == StoreSelection(u, [request[u].sel EXCEPT
  !.avatar = a, !.room = IF castleSel[u] = NoOne THEN @ ELSE castleSel[u].room])

SelectAvatar(u, a) == StoreSelection(u, [request[u].sel EXCEPT !.avatar = a])

(***************************************************************************)
(* castle|ready: read the selection, record the pending battle, clear the  *)
(* selection of that moment.                                               *)
(***************************************************************************)
PendDraft(u, a) ==
  LET sel == request[u].sel IN
  /\ request[u].pc = "pend"
  /\ sel.avatar \in {NoOne, a}               \* none chosen: drawn at random
  /\ castlePending' = [castlePending EXCEPT ![u] = [sel EXCEPT !.avatar = a]]
  /\ request' = [request EXCEPT ![u].pc = "clear"]
  /\ UNCHANGED <<castleRosters, castleSel, window, windows>>

ClearDraft(u) ==
  /\ request[u].pc = "clear"
  /\ castleSel' = [castleSel EXCEPT ![u] = NoOne]
  /\ request' = [request EXCEPT ![u] = NoRequest]
  /\ UNCHANGED <<castleRosters, castlePending, window, windows>>

\* castle|desert_battle
DesertBattle(u) ==
  /\ request[u] = NoRequest
  /\ castleSel' = [castleSel EXCEPT ![u] = NoOne]
  /\ UNCHANGED <<castleRosters, castlePending, window, request, windows>>

(***************************************************************************)
(* The Battle server claims the launch.                                    *)
(***************************************************************************)
Claim(u) ==
  /\ castlePending[u] # NoOne
  /\ castlePending' = [castlePending EXCEPT ![u] = NoOne]
  /\ UNCHANGED <<castleRosters, castleSel, window, request, windows>>

Scheduler == \/ \E c \in Keeps, castleOwner \in Clan : Fire(c, castleOwner)
             \/ DraftFighters

Request(u) == \/ \E c \in Keeps : SetFighters(u, c) \/ Desert(u, c)
              \/ ReadSelection(u, "select")
              \/ ReadSelection(u, "pend")
              \/ \E a \in Heralds : SelectAvatar(u, a) \/ PendDraft(u, a)
              \/ ClearDraft(u)
              \/ DesertBattle(u)
              \/ Claim(u)

DraftNext == \/ Scheduler
             \/ \E u \in Fighters : Request(u)

DraftSpec == DraftInit /\ [][DraftNext]_draftVars

-----------------------------------------------------------------------------
(***************************************************************************)
(* Properties.                                                             *)
(***************************************************************************)

\* Whatever a fighter drafts for or launches into is the place one battle window
\* gave him: its room, its castle and his side go together, however windows open
\* between two sections of his requests (handleCastleSelectAvatar stores a copy).
LaunchedAsDrafted ==
  \A u \in Fighters : \A l \in {castleSel[u], castlePending[u]} \ {NoOne} :
    /\ l.room \in DOMAIN windows
    /\ windows[l.room].castle = l.castle
    /\ u \in DOMAIN windows[l.room].teams
    /\ windows[l.room].teams[u] = l.team
=============================================================================
