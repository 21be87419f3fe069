# Formal models of the Tanat game server

TLA+ models of the concurrent and persistent core of the server under
`src/server` (a Go reimplementation of the back end of the game *Tanat Online*),
model-checked with TLC on small instances. Every safety property that TLC finds
to hold is also proved with TLAPS, for every instance; the liveness properties
stay with TLC.

Contents: 1 the system, 2 the modules and how they correspond to the code,
3 the runs, 4 the proofs, 5 findings, 6 what is not modelled, 7 plan.

---

## 1. The system

One process, three listeners and one Store:

| Part | State | Operations | Who acts concurrently |
| --- | --- | --- | --- |
| **Ctrl server** (`ctrlserver/`) | fight queue, selections (`fightMu`), castle drafts, party invites | HTTP requests: `fight\|*`, `clan\|*`, `group\|*`, `store\|*`, `quest\|*` ... | a goroutine per request, a castle ticker |
| **MPD hub** (`mpd/`) | `conns`: user -> push socket, `areas`: user -> square | register, unregister, Push, SetArea, ClearArea | a goroutine per socket, every pusher |
| **Battle server** (`battleserver/`) | squares (`lobbyInstance`), worlds (`huntInstance`), bots, drops | CONNECT, READY, moves, skills, disconnect | a goroutine per connection, one per world (ticker) |
| **Match host** (`battleserver/matchhost.go`) | `rooms`: room -> Battle server | Launch, LiveMemberCount | launch handlers, a reaper goroutine per room |
| **Store** (`session/`) | accounts, heroes, clans, castles, parties, quests, pending battles; a database behind it | every operation is one section under `Store.mu` | all of the above |

How they interact:

* `fight|join` forms a match; `fight|ready` records a `PendingBattle` in the
  Store and asks the match host for a server; the client dials that server and
  its CONNECT claims the pending battle (`TakePendingBattle`), which names the
  room of the world it joins. The three steps share no lock.
* A connection that enters a square tells the hub (`SetArea`), which area chat
  reads; a push socket that registers or ends makes `ctrlserver/group.go` push
  presence to the party.
* The castle ticker drafts the fighters of a siege; the world that ends it
  settles through the Store (`SettleCastleBattle`), which also owns the clans
  the siege was fought for.
* In a world, requests of clients, the ticker and timers (`simulationAfter`)
  act on the heroes one after the other, under the world's mutex.

What is hard about it, and where it is treated:

* **Lock sections in sequence.** `Server.mu` then `huntInstance.mu`;
  `lobbyInstance.mu` then `Hub.mu`; `fightMu` several times in one handler;
  `MatchHost.mu` around the map only. What was read under one lock is used under
  the next. Every model has one action per section, so all of it interleaves.
* **Identity reuse.** Members of worlds and squares are keyed by
  `1000 + user id`, the hub by user id: a reconnect shares the key with the
  connection it replaces, whose close comes late.
* **Disposal.** Worlds, per-match servers and listeners are torn down by
  background goroutines racing those who are about to enter.
* **Crash.** Operations of the Store write their rows as separate transactions
  after the memory has changed.
* **Timers nobody stops.** An order in a world arms a chain of timers; a callback
  must find out by itself whether the order it was armed for still stands.

`PROJECT.json` lists 22 components, with the sources and status of each, and the
hazards with the line at which each bites and the properties that cover it.

What makes each component correct, in a line: a *world* never loses a player it
let in and shows exactly its players; a *square* and the hub's record of it
agree with who stands there; the *hub* keeps the newest socket; a *match server*
outlives its match and nothing else; the *queue* seats everyone once, and the
launch reaches the battle it was formed for; a *clan* has one head and its
members, in memory and after a restart; a *castle* changes hands together with
its rewards, and its *draft* sends a fighter to the room and side of one window;
an *account* that is banned or deleted is so everywhere and for good; a *party*
and a *friendship* are seen alike by all who are in it; a *hero's goods* are
conserved: what he uses, wears, sells or is paid was his, and counts once; his
*orders* are carried out as long as they stand, and a *match* has one result.

---

## 2. Modules

```
SharedWorlds          abstract: everybody of a room in one world, none in a retired one
   ^ refined by
HuntWorlds            registry, members, ticker, joinInstance, closeHunt
   ^ EXTENDS          MCHuntWorlds (TLC), HuntWorlds_proofs (TLAPS)

                                                        TLC         TLAPS
MPDHub                push sockets, areas, presence
   ^ EXTENDS
LobbySquare           squares composed with the hub     MCPlaces    Places_proofs
MatchRooms            match host, reapers, time         MCPlaces    Places_proofs

Matchmaking           fight queue to claimed launch     MCLaunch    Launch_proofs
CastleDraft           siege windows to claimed launch   MCLaunch    Launch_proofs

ClanStore             clans, castles, memory and disk   MCStore     ClanStore_proofs
Accounts              accounts, sessions, login, bans   MCStore     People_proofs
Social                parties and friendships           MCStore     People_proofs

HeroBag               consumables, city and battle      MCHero      HeroGoods_proofs
HeroQuests            quests, kills, rewards            MCHero      HeroGoods_proofs
HeroGear              wearables and money               MCHero      HeroGoods_proofs
HeroFight             orders, timers, deaths, match end MCHero      HeroBattle_proofs
HeroCast              skills, approaches, channels      MCHero      HeroBattle_proofs

Lists                 the filter loop of queues and parties
   ^ EXTENDS          Matchmaking, Social; Lists_proofs (least number, induction, Kept)
```

`MCPlaces`, `MCLaunch`, `MCStore` and `MCHero` put several modules behind one variable
`part`, chosen at the start: the modules share no state their properties relate,
a behaviour is about one of them, and a run explores the sum of their spaces
instead of the product.

Operators called *Variant* are plausible wrong versions of the definition after
them. No specification uses them; each exists so that a property can be shown
to fail when the code is broken that way (`mutants` in `PROJECT.json`).

### HuntWorlds (`battleserver/instance.go`, ends of `server.go`, `hunt.go`)

| Variable | Code |
| --- | --- |
| `insts` | `Server.insts`, room -> world |
| `closed`, `members` | the fields of `huntInstance` |
| `ticker` | the goroutine of `runInstanceTicker` |
| `pc`, `inst`, `room` | where a connection's goroutine is, `conn.inst`, the claimed `PendingBattle.Room` |
| `tr` | `huntState.tr`, restricted to avatars of other players |

`joinInstance` is six actions: `LookupFound`/`LookupCreate` under `Server.mu`;
`InsertNew`, `InsertFound`, `InsertRetry` under the world's mutex; `StartTicker`
(the `go` statement after the insertion). `BecomeReady` is the critical section
at the end of `sendHuntWorldState` (introduce, then `worldReady`). `CloseHunt`
is `leaveInstanceLocked`. The ticker is `TickClose`, `TickDispose`: closing and
forgetting a world are two sections under two locks. Worlds are fresh
identities (`Unallocated`), as `new` gives.

Abstracted: all that happens inside a world. A player is drawn for the others as
in hunt and arena worlds, where everybody sees everybody; the fog of DOTA maps,
which redraws and undraws avatars by distance, is not modelled. A connection
lives once (`offline` .. `gone`): a reconnect is another element of `Conns` with
the same `UserOf`. `Overlap` says whether such a successor may arrive before the
server has run the close of the previous connection (a half-open TCP
connection). A disconnect is noticed between two packets, i.e. after the join
handler is through, as `handleConn` runs them in one goroutine.

`SharedWorlds` is what the rest of the server may assume: no locks, no registry,
no tickers. The refinement mapping (`ImplementsSharedWorlds` in `HuntWorlds`)
is `where <- PlaysIn` (the world of those inside), `room <- room`, `retired <-
ClosedWorlds`.

### MPDHub and LobbySquare (`mpd/`, `battleserver/lobby_render.go`)

`MPDHub` has the life of a socket: `Register` (swap under the lock), `Evict`
(close of the old one, outside it), `NotifyOnline`, `HangUp` (client),
`Unregister` (identity test), `NotifyOffline`. The read loop ends some time after
the socket is dead. `SetArea`/`ClearArea` are the hub's operations used by the
squares. What a presence notice tells the party is not recorded.

`LobbySquare` extends it: `Join` (insertion under the square's mutex),
`MirrorArea` (`SetArea`, after the mutex is released), `BecomeReady`
(introduction and `lready` in one section), `CloseSquare`
(`leaveLobbyInstanceLocked`, which calls `ClearArea` under the square's mutex).
`latest` is the connection the user's own client is on. `Travel` says whether a
half-open predecessor may be in another square. Squares are created on demand
and never disposed of, so their registry is left out; `conn.ltr` keeps only the
avatars of other players.

### MatchRooms (`battleserver/matchhost.go`)

`LaunchFound`/`LaunchCreate` are the two answers of `Launch`; a reaper is
`Count` (`LiveMemberCount`), `Decide` (the clock), `Delete` (under the host's
mutex), `Close` (the listener), four steps that interleave with everything.
Players `Dial`, `Enter`, `Leave`. Time: one `Tick` is one `reapPoll`; between
ticks every sleeping reaper wakes exactly once, and it does not dawdle between
counting and looking at the clock (`zero`) for a whole poll interval. `Grace` is
`reapGrace / reapPoll` (code: 120 s / 10 s = 12; checked: 2). `LaunchFails` is a
launch whose `net.Listen` fails: it leaves no entry, and `launchTarget` sends its
player to the shared server, `Main`, which listens all the time. `OneServerPerMatch`
is claimed of the players whose launches the match host answered; a fallback parts
its player from those who come later (section 5).

### Matchmaking (`ctrlserver/dota.go`, `session/session.go`, `handleConnect`)

One action per section: `JoinWait`, `JoinForm` (the whole of
`handleFightJoin`'s section under `fightMu`); `SelectGet`, `SelectSet`;
`ReadyGet`, `ReadyPend` (Store.mu), `ReadyClear`; `DesertClear`,
`DesertDequeue`; `Connect`, `Reconnect` (`TakePendingBattle`, which consumes the
entry whatever the password).

The pushes leave after the section, so they are state of their own: `mail` holds
those that are written or still to be written, `fight|start_select_avatar`
(`StartSelect`) and `fight|launch` for a room. They arrive in any order (`Found`,
`Launches`), late or never. Until then the client is where it was, and may join,
join again or desert: `handleFightJoin` does not ask whether the user has a
selection, and neither does the model. `screen` is what the client shows and so
what it may send, `ticket` the password it follows: `Connect` claims the pending
battle if the two agree, and else leads to the square. A select without a
selection stores the zero one (`Unset`), and `fight|ready` ignores what no map
belongs to (`Real`).

`rosters`, `launched` and `crossed` are history. A request that a client sends
while a push is on its way to him, or another request of his is under way, puts
him into `crossed`. What is claimed of every user, those included:
he holds one place in the queues, launches into matches he was seated in, on
their side, each once, and never back to an earlier one. What such a request
breaks, and is therefore claimed of the others only: a user who drafts, sets off or
plays is in no queue, and what is pending for him or claimed by him is his *last*
match (section 5).

Abstracted: a client has one request under way at a time, also one that was closed
and started again (its `Reconnect` may overtake the last request of its
predecessor); scenes are dropped.
`MaxRooms` bounds the number of matches of a behaviour (in the code a counter
without bound).

### ClanStore (`session/clan.go`, `castle.go`, `admin.go`, `persist.go`)

`mem` and `disk` hold the same tables. An operation commits to memory at once
and leaves batches of rows in `writes`; `WriteRow` writes one of the first
batch (a Go map's order inside a batch, the code's order between batches). The
next operation starts when no writes are left, as the operation holds
`Store.mu` to its end. `Restart` loads the memory from disk (`Load` is
`loadAllLocked`, with its rule for the next clan id) and may come between two
writes; `torn` is the history of that. Operations: `CreateClan`, `RemoveClanMember`,
`DisbandClan`, `ChangeClanRoles` (as `EditRoles` and `TransferHead`),
`RecordClanInvite`, `AnswerClanInvite`, `CooldownEnds`, `SettleCastleBattle`,
`DeleteAccount`.

Abstracted: a clan's name and tag are one `name`; money is counted in clan
prices (`Wallet`); the inviter, the ignore list and the wording of errors are
left out; the winner of a siege and its fighters are inputs (the vote is in the
Battle server); a write that fails (logged and ignored by the code) is not
modelled: the crash before the write stands for it. Bounds: `MaxClans`
foundations, `MaxSieges` sieges per castle and rewards per hero.

### HeroBag, HeroQuests, HeroGear (`session/inventory.go`, `buffs.go`, `quests.go`, their handlers)

The goods of one hero; his account is one row group of the Store and no
operation relates him to another hero.

**HeroBag.** `bag` is `Hero.Bag`, a sequence, because the client addresses its
stacks by index. `screen` is the client's copy: filled by `user|bag`
(`FetchBag`), changed only by the deltas of `pushBagUpdate` (`PushBag`). A
request (`common|action`) goes through `Request`, `Resolve`
(`BagArticleAtIndex`), `Check` (`HeroActiveBuffs`, runes only), `ConsumeOne`,
then `PayCoins` and `PayLoot` for a chest or `StartBuff` for a rune or elixir,
then `PushBag`: each is a section of the Store. Beside it the battle works on
`pack`, its copy of the potions: `EnterBattle`, `PickUp`, `Drink`,
`LeaveBattle`. `AdminGrant` is the admin server. `Restart` is the death of the
process at any point; every section saves in one transaction, so the database
holds the same stacks, and loading sorts them by article. `granted`, `used`,
`lost` and `doubled` are history.

The proofs assume what a catalogue and a client are: finitely many articles and
requests, and a screen with a row for each article (`Cardinality(Articles) <=
Rows`), as a bag never has two stacks of one article.

Abstracted: a chest's coins are counted as its effect, its bonus is at most one
item that is no chest; amounts are one unit; a buff's timer is whether it is
active; the totems and mastery elixirs that have no action are like potions in
the city; cooldowns and effects of potions are left out. One battle at a time.
`FetchBag` comes between two requests. After a restart the client is assumed to
ask for its bag. An account deleted in the middle of a request (the refund
branch of `useBuffItem`) and failing saves are not modelled.

**HeroQuests.** One action per operation; each is one section that saves.
`cooling` stands for `CooldownUntil - now`; `QuestTick` is the clock. `Credits`
joins the map and the creature test of `AddQuestKill`. `kills`, `paid` and
`rested` are history.

**HeroGear.** `owned`, `dressed`, `nextID`, `money` are fields of the hero.
`store|sell` and `user|dress` look items up in `HeroOwned` (`Begin`) and then
enter the Store once per item, in the order of a Go map: `task` is what is left
to do. Money is a signed machine integer with largest value `MaxMoney`
(`Int32`); `AddHeroMoney` floors at 0 after it has wrapped, `SellWearable` does
not. Abstracted: a basket is one or two items of one kind; race, level and
diamonds are left out; wearables minted by the admin server are not modelled.

### CastleDraft (`ctrlserver/castle.go`)

`castleRosters`, `castleSel` and `castlePending` are the tables of that name (the
last is the Store's pending battle). The scheduler is one goroutine with two
sections, `Fire` (copy the roster, seat the sides) and `DraftFighters` (lay a
selection for every fighter): `window` holds what it carries from one to the
other. A handler holds a copy of the selection in `request` while `castleMu` is
free: `ReadSelection`, then `SelectAvatar` or `PendDraft` and `ClearDraft`.
`windows` is history. `assignCastleTeams` asks the Store for every fighter's clan
twice and for the owner once; the Store answers anything each time, which is
more than clans and sieges really do, and so its steps are part of `Fire`.
Abstracted: the clock of the windows, `in_progress`, the wording; `MaxWindows`
bounds the windows of a behaviour.

### Accounts (`session/session.go`, `admin.go`, `persist.go`, login and hero creation)

`object` keeps the `*User` of an id also after its deletion, because a handler
that has one goes on with it; `known` is `usersByID`. `login` is where a request
is between the Store sections of `handleLogin` (`LogIn` or `Register`, `Gate`,
`Revoke`) or `handleHeroCreate` (`HeroCreate`, `CreateHero`). `database` are the
tables, `unwritten` the writes the operation under way has still to do: the next
one starts when there are none (`Unlocked`). A ban drops the keys of the user in the
order of a Go map, any order (`Drops`), and writes his row last. `Reload` is a
restart, at any point.
Abstracted: passwords, expiry of keys, the hero but for whether it has earned
something (`Earn`). `MaxAccounts` bounds the ids handed out and the accounts
inserted; a key is given out once.

### Social (`session/group.go`, `session/friends.go`, their handlers)

A party is the value `[leader, members]` in `groups`: the code's members share a
pointer, so a change replaces it for all who have it (`Becomes`). `invited`,
`asking`, `courting` are dialogs open on clients, which survive restarts and are
answered at any later time; `kick` is a handler between its two sections; `late`
are deleted users with a request under way. `friendRows` and `unsaved` are the
table and the transactions still to come. The ignore list is left out. Bound:
`MaxDialogs` dialogs, and kicks under way.

### HeroFight (`battleserver/hunt.go`, `arena.go`, `dota.go`, `mobai.go`, `rating.go`)

`hs` holds of each `huntState` what the properties tell apart (order, attackSeq,
whether a swing is announced, death, frags), `match` the latch, the frags of the
teams, the scoreboard and the ratings, `slain` the dead mobs. A timer that
`simulationAfter` armed is an element of `timers` until it fires: `swing` arms
itself anew and, in reach, announces a swing and arms its `hit` (or, of a
shooter, `release`, then a committed `hit`) and `done`. A hit runs everything the
code calls from it: the reflected blow, death or revive, kill credit, the end of
the match, the freeze.
Abstracted: places, damage, health (a swing may be out of reach, a hit may be
lethal); casts and channels (`HeroCast`); that the server resumes attacking by itself after a
kill; a revive is ready once; of the spells only the stun, whose hero drops his order
(`Stun`; `StunsMidSwing` says whether it may come in the middle of a swing); two bolts of one hero at one target are one element;
the rest of a tick after a unit has felled an altar; the switch that leaves bot
matches unrated. `MaxSeq` bounds the orders of a hero, `MaxDeaths` his respawns.
In `MCHero` a callback that has become outdated fires at once: it does nothing
whenever it fires, for `attackSeq` only grows and who has left stays away.

### HeroCast (`battleserver/effects.go`, `memberTickLocked`, orders in `hunt.go`, `server.go`)

`mage` is what the skills read and write of one hero's `huntState` and `conn`:
`order` (the approach under way), `payloads` and `actionDones` (queues that the
tick works off), `channels`, `cooling` (`cooldownUntil`), `castLock`,
`attackTarget` with `autoResumed`, `hasDest`, `stunned`, `dead`, the toggles that are
`on`, and whether his match has `ended`. `open`, `dropped` and `owed` are history: the
orders the client waits for, those whose answer the freeze has thrown away, the casts
that must still land. Every
handler is one action, as all run under the world's mutex: `UseSkill`
(`startSkillOrderLocked` with `execCastLocked` and, for an instant skill,
`runDuePayloadsLocked` inside), `AttackMob`, `AttackHero`, `Walk`, `Halt`,
`Stunned`, `PlayerDies`, `UseToggle` (the TOGGLE branch with `toggleSkillLocked`),
`ShieldSpent`, and `MemberTick`, which works off due impacts, due endings, the
approach, the toggles and the channels in the order of `memberTickLocked`. A match
may end at any of these: an impact fells the last altar (`last`), the pulse of an
aura or a channel does, or another's blow (`MatchEnds`); `DotaFreeze` then empties
the queues, in the middle of the loop that works them off. After it no tick comes,
as the ticker skips an ended match, but the player may go on giving orders. In
between `Elapse` lets a moment arrive that was waited for, and a target may
`Vanish` (die, leave, turn invisible) or `Appear`. Skills are members of sets
named after the predicates of the code (`Channels`, `Interruptible`, `Sustained`,
`Walking`, `Flying`, `Instant`, `Aimed`, `SelfCast`); `Kits` are the sets of
skills avatars have. The loops that mark, fire and close what is queued are the
recursive functions `Marked`, `FireAll` and `CloseAll`: an impact may queue an
ending or start a channel while the loop is under way. That the one skill which
walks while it channels (`effects.go:406`) lands at once and flies nowhere is a
fact of the game data (`gamedata/skills_gen.go:2288`) and an assumption of the
module (`Walking \subseteq Instant \ Flying`).

Abstracted: where things are (a target may be in reach or not, a route may be
found or not), mana and silence (an order may be refused, a cast may fizzle at
arrival), what an impact does but for starting a channel; a flight always takes
time, and a respawn comes when all casts are over. Of a toggle only that it is on,
and that it cools once it is off. Left out: the dash
that casts at its end, casts on friends, roots, the leash of a siphon. A channel's victim is released by effects the model
does not have. The creeps that `Near` offers for resumption are all in range.

---

## 3. Runs

All state spaces below are exhausted. Figures are distinct states.

| Run | Shows | Instance | States |
| --- | --- | --- | --- |
| `hunt_worlds` | `NeverStranded`, `RenderedExactly`, `JoinCompletes`, `EmptyRoomsForgotten`, refinement of `SharedWorlds` | 4 connections of 3 users, 1 room, 4 worlds, no overlap | 78,824 |
| `hunt_reconnect` | *violation* of `DisposedOnlyWhenLeft` | the same with overlap | |
| `places` | squares: `NotEvictedByStale`, `RenderedInSquare`, `MirrorsSquare`, `NoGhostInChat`; match rooms: `NeverReapedInProgress`, `OneServerPerMatch`, `FirstLaunchHonoured`, `DesertedRoomsReaped` | 4 connections and 2 sockets of 2 users, 2 squares; 2 players, 1 room, 3 servers beside the shared one, grace 2 | 2,331,630 |
| `square_travel` | *violation* of `MirrorsSquare` when the stale connection is in another square | the squares, with `Travel` | |
| `launch` | queue: `SeatedOnce`, `LaunchedAsMatched`, `NoStaleLaunch`; draft: `LaunchedAsDrafted` | 2 users, matches of 2, 2 rooms, and either a third user, or a map of each mode, or requests across pushes; 2 fighters, 2 castles, 1 clan, 2 windows | 1,767,050 |
| `store` | clans: `OneHead`, `MembersSound`, `ClanIdsFresh`, `NothingUnsaved`; accounts: `BannedLockedOut`, `RestartInvisible`, `IdsNeverReused`, `DeletedForGood`; `PartiesAgree`, `FriendsMutual` | 3 users, 2 clans, cap 2, 1 siege or any crash; 2 e-mails, 2 keys, 2 requests, 2 accounts; 3 people, 1 dialog | 1,103,722 |
| `castle_commit` | *violation* of `SettledTogether` | the clans, with sieges and crashes | |
| `hero_once` | *violation* of `PlayedHeroKept` | the accounts | |
| `hero` | `UnitsConserved`, `PackCovered`, `OneRunePerCategory`; `RewardsEarned`; `EachItemOnce`, `NothingForFree`; `OrderDriven`, `SwingsSeen`, `ArenaDecided`, `ResultStands`; `OrdersAnswered`, `LandsOnce`, `BarOwned` | 2 requests and the battle, 4 articles, 3 units; 2 quests, 2 creatures; 2 traders, 3 kinds, 4 items, money up to 3; 2 heroes, 2 altars, both kinds of match, 2 frags, 2 deaths; 7 skills in 4 kits, 2 creeps, 1 enemy hero | 2,801,834 |
| `bag_rows` | *violation* of `UsesWhatIsShown` | the goods | |
| `frozen_scene` | *violation* of `FrozenAfterEnd` | the fights | |
| `stunned_duel` | *violation* of `OrderDriven` when a stun comes in the middle of a swing | the fights, with `StunsMidSwing` | |

Why the bounds are enough:

* *Worlds.* The races are between a join, a leave that empties the world and
  the ticker; a third connection finds the world while it is being disposed of,
  and the fourth is a reconnect of the first user into the replacement. One room
  suffices: rooms share nothing but the map. A join creates at most one world,
  so as many worlds as connections never run out.
* *Squares.* One user connects three times, so a stale close may hit the
  connection after the next; the other user is the one who must see the right
  avatars. Two squares, because chat is per square.
* *Match rooms.* With three servers a room is reaped and recreated twice; with
  two players one may enter, launch or leave while the other is anywhere. With
  `Grace` = 2 there is a poll that does not reap, one that does, and a reset in
  between. A launch may fail and fall back before, between and after those that
  create a server. When all servers have been used, launches fail; the clock and
  the players go on.
* *Launch.* Two rooms give a second match that a first launch may survive into.
  A behaviour of `MCLaunch` is one of three about the queue: with three users, of
  whom one waits while a match forms, and takes a deserter's seat; with a map of
  each mode, so that a user waits for the one and then joins for the other; or
  with requests that cross pushes and one another, in which a matched user is
  queued and drawn again. In the first two no request crosses a push. When the rooms are used up (`MaxRooms`) a
  queue that is full stays full. Of the draft, two windows suffice for one to
  open between the sections of a request, for the same castle or the other one.
* *Clans.* Three users and a cap of two make the last place contested; two
  clans make a stale invite point to a clan that is not the current one. Edits
  are to Warrior, Deputy and HEAD (the other two differ from these only by their
  number). A behaviour of `store` has a siege and restarts between operations,
  or crashes between any two writes and no siege; `castle_commit` has both.
* *Accounts.* Two requests meet each other, a ban and a deletion between any
  two sections; two ids let one be handed out after the other was deleted.
* *Parties.* With three people one joins, leads or leaves while another's dialog
  is open; a party of three loses its leader, a party of two ends.
* *Fights.* One hero shoots, is played by a client and attacks at most three
  times; the other is a bot, strikes, reflects blows and revives once, so that
  committed and uncommitted hits, both sorts of death and the reflected kill
  occur. Two frags decide an arena: the second blow of one exchange may be the
  frag too many. An altar each makes a dota match end under arrows in flight.
* *Skills.* A kit is what one avatar can use at once; each brings one hazard: two
  ordinary rooted casts of which one is an interruptible channel on a unit, a
  projectile that is queued twice beside a toggle, a channel on a unit alone, and a
  spin that walks and owns the bar beside an aimed skill. The drain and the projectile
  belong to one avatar and are checked one at a time. Two creeps let the server
  resume an attack on another one, the enemy hero may come back into sight.
  Cooldowns bound the casts under way; nothing else needs a bound.
* *Goods.* Two clicks race each other and the battle for the same stack; three
  units make a stack of two next to another, or three stacks, so that a stack
  empties under a later one. One chest, two runes of one category and a potion
  are one article of each way through the handler (an elixir is a rune without
  the check). Of the quests one is for one time and two kills, the other a
  replay with a cooldown of two ticks, and one creature counts for both. Two
  wearables compete for a slot; a balance of at most 3 overflows after two
  credits. `OneRunePerCategory` is claimed as long as requests do not overlap:
  `ctrlserver/actions.go:96` checks in one section and starts the buff in a
  later one, and two clicks on two runes of a category pass the check together.
* Symmetry is used over interchangeable users (and clan names) in the runs that
  check invariants only, and over the requests of `hero`.

Deadlock is checked in the launch and store runs. In the world
and square runs the system may really stop: all connections of the instance have
come and gone, and `Conns` is not replenished. So it may in the hero runs: a hero
who has turned in his last quest, or left his match, has nothing left to do in
that part.

Fairness, where liveness is checked:

* `HuntWorlds`: weak fairness of every connection's join steps and of every
  world's ticker. These are goroutines that take an uncontended `sync.Mutex`
  or wake from a `time.Ticker`: a goroutine that stays runnable is run. Nothing
  is assumed of clients: they need not connect, and need not leave.
  `JoinCompletes` therefore says that the retry loop of `joinInstance` ends
  whatever the others do.
* `MatchRooms`: weak fairness of the clock and of each reaper. Players are
  again free; `DesertedRoomsReaped` assumes that from some time on nobody plays.

The other modules have safety properties only.

---

## 4. Proofs

Every invariant and action property of the passing runs has a theorem, for all
values of the constants that satisfy the assumptions of its module. A module of
proofs covers one or two components:

| Module | Proves about |
| --- | --- |
| `HuntWorlds_proofs` | combat worlds and their refinement of `SharedWorlds` |
| `Places_proofs` | squares with the hub, match host |
| `Launch_proofs` | fight queue, castle draft |
| `ClanStore_proofs` | clans and castles, in memory and on disk |
| `People_proofs` | accounts, parties, friendships |
| `HeroGoods_proofs` | gear and money, quests, bag |
| `HeroBattle_proofs` | fights, skills |
| `Lists_proofs` | the least natural number with a property, induction, `Kept` |

The library's induction theorems take an operator as a parameter, which the
prover cannot instantiate. Where a proof needs induction (a loop over a queue, a
sum over a set), `Lists_proofs` provides it for *sets* of numbers: every nonempty
set of naturals has a least element (`LeastNatural`), so a set that holds 0 and
with each number the next is all of them (`Induction`).

### Combat worlds

`HuntWorlds_proofs` proves, for every set of connections, users, rooms and
worlds, from `HuntAssumption` and from `~Overlap` (the connections of one user
follow each other; `hunt_reconnect` shows that without it the claim is false):

| Theorem | Statement |
| --- | --- |
| `TypeCorrect` | `Spec => []TypeOK` |
| `NobodyStranded` | `Spec => []NeverStranded` |
| `RenderingExact` | `Spec => []RenderedExactly` |
| `Refinement` | `Spec => ImplementsSharedWorlds` |

The argument. `NeverStranded` is not inductive: an entry that was looked up may
be disposed of before the insertion, and a fresh world has no ticker to look at.
`IInv` adds

* `OneConnPerUser`: what `~Overlap` gives, so that nobody else's `CloseHunt`
  removes my entry;
* `ClosedByTicker`: a world is closed exactly from `TickClose` on, and its entry
  is in the registry until `TickDispose`;
* `CreatorHolds`: between its allocation and the start of its ticker a world is
  registered and belongs to one connection, so the ticker cannot close it empty;
* `FoundOrClosed`: a world found is registered or has been closed meanwhile,
  which is what the test in `InsertFound` decides;
* `OfflineRoom`, `TypeOK`.

`RenderedExactly` adds `EntriesFaithful` (the entry under a user's id is a
connection of that user, inside that world) and `Unbuilt` (nothing is drawn
before the scene is built). The refinement needs `NeverStranded` at `InsertNew`
and `InsertFound`: those inside the same room are in the registered world, which
is the one entered; every other step is a stutter, a launch, a leave or a retire.

### Squares and hub

`Places_proofs`, for every set of connections, sockets, users and squares:

| Theorem | Statement |
| --- | --- |
| `SquareTypeCorrect` | `Spec => []TypeOK` |
| `StaleHarmless` | `Spec => []NotEvictedByStale` |
| `ScreensRight` | `Spec => []RenderedInSquare` |
| `NoGhosts` | `Spec => []NoGhostInChat` |
| `ChatReaches` | `~Travel`, `Spec => []MirrorsSquare` (`square_travel` shows it false otherwise) |
| `NewestRegistered` | `Spec => []RegisteredIsLive` |

The invariant of the squares, `SInv`, says that the entry of a user is the
latest connection that has entered (`EnteringIsLatest`, which makes the identity
test of the close sufficient), that entries are faithful, that an area recorded
in the hub has an entry behind it (`AreaHasEntry`) and that screens agree with
the entries (`Unbuilt`, `Drawn`). `MirrorsSquare` needs in addition that two
connections of a user are in the same square (`SameSquare`) and that the entry
was recorded after it was made (`Recorded`). The invariant of the hub, `HInv`,
is that a registered socket is its user's and open (`RegisteredOwn`) and that
every other open socket is already condemned by the step that replaced it
(`OthersDoomed`).

### Match host

`Places_proofs`, for every set of rooms, servers and players and every grace
period:

| Theorem | Statement |
| --- | --- |
| `RoomsTypeCorrect` | `RoomsSpec => []RoomsTypeOK` |
| `InProgressKept` | `RoomsSpec => []NeverReapedInProgress` |
| `OneServer` | `RoomsSpec => []OneServerPerMatch` |
| `CreatorHonoured` | `RoomsSpec => []FirstLaunchHonoured` |

`Routed` says that the answer a player holds is the registered server of his
room, one being torn down, or the shared one; `CountedIsKept`, that a reaper which has counted a
player stays in its sleep while he plays; `Created`, that no server is referred
to before its creation and it listens until its reaper is done; `Patience`, that
a server has been idle no longer than its creator has been waiting, from which
the grace period of the creating launch follows.

### Fight queue

`Launch_proofs`, for any number of users, maps, avatars and rooms and any
size of a match:

| Theorem | Statement |
| --- | --- |
| `QueueTypes` | `Spec => []TypeOK` |
| `OneSeat` | `Spec => []SeatedOnce`, from `FullAndFair` and `OnePlace` |
| `LaunchKeepsSeat` | `Spec => []LaunchedAsMatched` |
| `LaunchIsLast` | `Spec => []NoStaleLaunch` |

`removeFromDotaQueueLocked` filters each queue with a loop, `Kept`. That it
leaves a sublist without the user (`KeptIsSublist`) is an induction over the
length of the queue. So a queue never grows past a match, and the join
that fills it hands over the queue whole (`WaitingFacts`). `QueueIInv` says in
`QueuesInv` that all queues together hold each user once, in
`RoomsInv` that a roster is a full queue in its order (`Lineup`),
from which the counts of the sides follow, and of each user two things.
`UserInv` is about everybody: every copy of a seat (selection, local of a handler,
pending battle, claimed battle) is one that a match gave him (`Seat`), and those a
launch can still come from are of a later room than his launches so far
(`Stored`, `Held`), which is what makes each seat launched once. `CalmInv` is about
those who sent no request across a push: who waits has no push under way, nothing
pending and no handler that holds a copy, so a match drawn for him finds no
older one, and what he has of a match is of his `Newest`. Histories grow: a user
who joins `crossed` keeps `UserInv` and owes no more.

### Castle draft

`Launch_proofs`, for any number of fighters, castles, clans and windows:
`DraftTypes`, and `DraftLaunches`: `DraftSpec => []LaunchedAsDrafted`. A selection
exists in several copies: the table, a handler's local, the pending battle. The
invariant `DraftIInv` says of every copy that one opened window gave it to that
fighter (`GivenTo`); a handler that stores back a copy of an older window is
harmless because it stores all of it.

### Fights

`HeroBattle_proofs`, for any heroes, creatures, sides and kinds of match, from
`~StunsMidSwing` (`stunned_duel` shows it is needed):

| Theorem | Statement |
| --- | --- |
| `FightTypes` | `FightSpec => []FightTypeOK` |
| `OrdersAreDriven` | `FightSpec => []OrderDriven` |
| `TagsDieToo` | `FightSpec => []TagsOfThisLife` |
| `NoSwingLeftOpen` | `FightSpec => []SwingsSeen` |
| `ResultIsFinal` | `FightSpec => ResultStands` |
| `LastFragDecides` | `FightSpec => []ArenaDecided` |

One callback may change many heroes (a reflected kill that ends the match), so
the proof has a preorder in place of a case split: `Onward(w, z)` says that from
world `w` to world `z` each hero either keeps his order with its `attackSeq`, or
has lost it and counted `attackSeq` up, or had none. Every operator the model
composes a callback from moves the world onward, one lemma each; the two actions
that give an order are the only steps that do not. `Driven`, that the live swing
timers of a hero are exactly those of his order, is kept by every onward step,
given `Past`: no timer carries an `attackSeq` the hero has not reached. `Seen` says
of a swing that teammates have been shown and no one has closed that the order
still stands and its `done` timer is still to come; it is what makes the next
announcement find the last one closed. `LastFragDecides` adds `ArenaInv`: an
arena has ended exactly when a team has the limit, which no team is above, and no
timer there is aimed at a mob (`Duels`), whose reflected or direct kill would not
be counted.

### Quests and gear

| Component | Theorem | Statement |
| --- | --- | --- |
| `HeroQuests` | `QuestTypeCorrect` | `QuestSpec => []QuestTypeOK` |
| | `RewardsAreEarned` | `QuestSpec => RewardsEarned` |
| `HeroGear` | `GearTypeCorrect` | `GearSpec => []GearTypeOK` |
| | `NoDuplicates` | `GearSpec => []EachItemOnce` |
| | `MoneyIsEarned` | `GearSpec => []NothingForFree` |

for any catalogue. `RewardsEarned` is an action property: the invariant `QInv`
says that a quest that reads done has its kills (`Earned`), that a parked one
still has to rest for what its timer shows (`Parked`), and that one which can be
reached again after a reward has rested (`Rested`); the last two are what keeps
a cancelled quest from being a way round the cooldown. For the gear the
properties are inductive together with the types: the identity of an item in
both places is what makes a stale look-up harmless. `MoneyIsEarned` is about a sum
over the hero's items. The invariant `Paid` bounds by the credits both what the
items sell for and that plus the balance: the balance may be below zero, or wrap
to there, and the items alone must then still be covered. The sum is a fold
(`MapThenSumSet`); that it does not depend on the order, and that one item more
adds its price, is an induction over the cardinality of the set.

### Bag

`HeroGoods_proofs`, for any articles, categories and number of requests beside a
battle:

| Theorem | Statement |
| --- | --- |
| `BagTypeCorrect` | `BagSpec => []BagTypeOK` |
| `NothingUsedTwice` | `BagSpec => []UnitsConserved` |
| `StacksStaySingle` | `BagSpec => []OneStackPerArticle` |
| `PackStaysCovered` | `BagSpec => []PackCovered` |
| `OneRuneAtATime` | `BagSpec => []OneRunePerCategory` |

`BagInv` joins these to `Resolved`, that what a request has resolved to is in the
catalogue and no potion (so that only the battle drinks those, and its copy stays
covered whatever requests do), and `OneAtATime`, that as long as no two requests
overlapped a rune which has passed the check is still alone in its category. One
stack per article is what makes the look-up by article find the right one: each
operation on the bag is a lemma about how many units of each article it leaves
(`Ledger` is the balance that all of them keep).

### Skills

`HeroBattle_proofs`, for any skills, kits and targets:

| Theorem | Statement |
| --- | --- |
| `CastTypeCorrect` | `CastSpec => []CastTypeOK` |
| `EveryOrderAnswered` | `CastSpec => []OrdersAnswered` |
| `EveryCastLandsOnce` | `CastSpec => []LandsOnce` |
| `SpinOwnsTheBar` | `CastSpec => BarOwned` |

The invariant keeps books. `Answered` says of every skill that the orders the
client waits for are as many as the endings queued for it, the approach under
way, and those this handler still owes; `Landed`, that the casts that must land
are as many as the impacts queued. A handler is a composition of operators, and
each has a lemma that the books which were right before it are right after it
(`Booked(x, U)`, where `U` is what it still owes); most change nothing the books
are about (`Alike`). The loops over the queues are inductions over how far a loop
has come, whose claim counts what is left to do (`Among`) with what is done
(`Fired`, `Closed`). A match that ends in the middle of a loop empties the queue
under it; what the freeze threw away is counted with what is still queued (`dropped`),
and `DropsNone` says that before the end this is nothing. `SpinsAlone` is what `BarOwned` needs: a spin is never
queued, as it lands at once, and while it runs no approach is under way that a
tick could complete into a cast; `StartsNone` is what a step does beside it: no
skill starts to cool but a toggle that goes off, and none goes on.

### Clans and castles

`ClanStore_proofs`, for any users, clans, castles, caps and bounds:

| Theorem | Statement |
| --- | --- |
| `ClanTypeCorrect` | `Spec => []TypeOK` |
| `OneHeadAlways` | `Spec => []OneHead` |
| `MembersStaySound` | `Spec => []MembersSound` |
| `ClanIdsStayFresh` | `Spec => []ClanIdsFresh` |
| `AllIsSaved` | `Spec => []NothingUnsaved` |

A restart may come between any two writes, so `ClanInv` relates memory, disk and
the rows still to write. `Saved`: a row that need not be written is on the disk as
in the memory. `Numbered`: the counter is above every clan, its stored mark lags
by the newest clan at most, and to that clan nobody on the disk belongs, because
its counter is written before its founder (`HeroesLast`); this is why the loader's
rule for the next id (`NextClanID`) restores the counter, and with `Fresh` why no
id comes twice. `Capped` says that the members of a clan on the disk and in
memory include one another, one way or the other, so that a crash in the
middle cannot load a clan above its cap. `Headed` and `Housed` hold as long as no
process died half-way (`torn`).

### Accounts

`People_proofs`, for any keys, e-mails, requests and number of accounts:

| Theorem | Statement |
| --- | --- |
| `AccountsTypeCorrect` | `AccountsSpec => []AccountsTypeOK` |
| `BannedStayOut` | `AccountsSpec => []BannedLockedOut` |
| `RestartKeepsAll` | `AccountsSpec => []RestartInvisible` |
| `IdsStayUnique` | `AccountsSpec => []IdsNeverReused` |
| `DeletedStayGone` | `AccountsSpec => []DeletedForGood` |

`LockedOut` claims it of the keys in memory and of those in the table, as a crash
brings the latter back: it is inductive because a ban drops every key from the
table before it writes the banned row (`InOrder`), and because a key that still
has to be written is one no client was told (`KeysSound`). `UsersSound` and
`Mirrored` tie each table to the memory but for the writes under way, `Counted`
ids to the counter, and `Gone` says that nothing about to be written names a
deleted account. `RestartInvisible` is claimed after crashes too; only an account
that a `hero|create` wrote back after its deletion (`revived`) is excepted.

### Parties and friendships

`People_proofs`, for any number of people:

| Theorem | Statement |
| --- | --- |
| `SocialTypeCorrect` | `SocialSpec => []SocialTypeOK` |
| `PartiesStayWhole` | `SocialSpec => []PartiesAgree` |
| `FriendshipsStayMutual` | `SocialSpec => []FriendsMutual` |

`PartyInv` is about the party as a value: it names nobody twice whose account
exists, is led by a member, and whoever it names has that very party; a member
deleted in between stays in the value and is excepted. `FriendsInv` claims that the
lists are mutual in memory and in the table, between the transactions of one
operation as well: several transactions come only from a deletion, and in those
the rows of people who exist agree but for the deleted.

### Only model-checked

* `JoinCompletes`, `EmptyRoomsForgotten` and `DesertedRoomsReaped`: liveness under
  fairness and `ENABLED` are out of the prover's reach.
* The seven violations of section 5, which are traces and not claims.

## 5. Findings

1. `hunt_reconnect`: `leaveInstanceLocked` (`instance.go:246`) deletes the entry
   under the object id without the identity test that the squares have
   (`lobby_render.go:80-83`). A user whose old connection ends after the new one
   joined is removed from the world, and the ticker disposes of a world with a
   player inside.
2. `square_travel`: `ClearArea` (`lobby_render.go:89`) clears the user's area
   whichever square it is; a stale connection in the previous square erases the
   record of the new one, and area chat misses the player.
3. `bag_rows`: `BagArticleAtIndex` (`inventory.go:37`) uses the row the client
   sent as an index into the bag of the moment. When a stack is used up the
   later stacks move up, and the client is told only that one row is gone: its
   next click on a later row uses the neighbouring article, or nothing.
4. `castle_commit`: `SettleCastleBattle` says rewards and ownership are one
   commit; they are separate transactions (`castle.go:70`, `74`, `95`).

5. `hero_once`: the guard of `hero|create` against a replayed request
   (`ctrlserver/server.go:702-706`) tests for a hero in one section and creates
   it in another: of two requests under way the second resets a hero that has
   earned something by then.
6. `frozen_scene`: the freeze at the end of a dota match promises that no hit can
   mature after the result (`dota.go:898`); an arrow in flight is committed, its
   callback does not ask whether the match is over, and it fells mobs and heroes
   of the frozen scene.
7. `stunned_duel`: `freezeStunnedHeroLocked` (`pvp_hero_targets.go:170`) stops an
   attack on a mob, not a duel. In the middle of a swing it raises `attackSeq`,
   which ends the duel's timer chain, and leaves `pvpTarget`, so that the same
   order is refused as one under way (`arena.go:160`): after the stun the hero
   stands idle until he moves or picks another target. Between two swings the
   duel goes on, as the comment in `armPvpAttackTimer` says it should. The same
   call is silent: a swing that was shown, at a mob too, is never closed on the
   teammates' screens, whose clients then reject the next one (`SwingsSeen`
   fails as well with `StunsMidSwing`).

More limits of the code are stated by the conditions of properties that hold.
Three of them disagree with a comment:

* `matchhost.go:66-68` says that every player of one match gets the same server,
  `ctrlserver/dota.go:288-290` likewise. A launch whose listen fails falls back
  to the shared server (`ctrlserver/server.go:116-120`) and leaves no entry, so
  the next launch of the same room may get a server of its own: two players of a
  match then wait for each other in different worlds (`OneServerPerMatch` is about
  those whose launches got a server).
* A `fight|join` that crosses the push of a match (`ctrlserver/dota.go:139`, `177`)
  queues a matched user again, as nothing looks for his selection; a second match
  then overwrites the selection that `dota.go:31-33` calls the in-flight choice
  held until `fight|ready`, and the first match is a player short. A ready
  under way may launch him into the first, while he is seated in the second
  (`SeatedOnce`, `NoStaleLaunch`: their second parts are about users without such
  a request).
* `effects.go:150-151` calls `ORDER_DONE` mandatory. `toggleSkillLocked`
  (`effects.go:1183-1261`) never sends it, not even when it refuses, and the freeze
  of a match's end throws pending endings away (`battleserver/dota.go:900`); what
  is ordered after it is answered by no tick (`OrdersAnswered` excludes toggles
  and counts what was thrown away).

And two more: a rune's category is exclusive only if requests do not overlap
(`OneRunePerCategory`), and only the launch that creates a match server has the
whole grace period, as a launch into an existing one does not restart it
(`FirstLaunchHonoured`, `matchhost.go:74`).

Seen while modelling, and not claimed by a run:

* an evicted push socket still runs `OnDisconnect` (`mpd/server.go:87`): the party
  sees a connected user go offline;
* a kick checks the leader in one section and removes the target in the next
  (`ctrlserver/group.go:106`, `118`), from whatever party he is in by then;
* a deleted account stays in the `Members`, and as the `Leader`, of its party
  (`session/group.go:7`), and a `hero|create` under way writes it back
  (`revived` in `Accounts`);
* a hero who revives in place is still credited to his killer
  (`mobai.go:3216-3226`);
* `in_progress` of a castle reads false after a second window (`castle.go:109`);
* a channel that holds its victim lets go of it when a step of `tickChannelsLocked`
  breaks it (`mobai.go:911-935`), not when a new order does
  (`breakInterruptibleChannelsLocked`, `effects.go:564`) or the caster dies
  (`mobai.go:3442`): the victim stays held for the rest of the stun;
* an aimed channel whose target is gone at impact has a place and no target, so
  it counts as planted in the ground (`mobai.go:869`) and no longer breaks when
  the caster walks off (`GroundAnchored`);
* `resumeAutoAttackLocked` (`hunt.go:2017`) asks for an attack on a mob, not for a
  duel: a cast finished during a duel turns the hero to a creep; and the end of
  an earlier cast resumes attacking while a later one channels;
* an order to attack a hero (`arena.go:160`) leaves an interruptible channel alone,
  which an order to attack a mob breaks (`hunt.go:1972`);
* `dotaFreezeLocked` may run inside the loops of a tick: `runDuePayloadsLocked`
  then fires the rest of its copy and queues what was not due again
  (`effects.go:866-876`), and `tickChannelsLocked` stores the channels it has kept,
  though `dota.go:898` says that deferred casts cannot mature after the result;
* a silence stops no approach under way, which then casts; one that fizzles on
  arrival leaves `hasDest` set on a standing hero, which breaks his next channel;
* `memberTickLocked` overwrites the ends of visuals that it scheduled itself in
  the same loop (`mobai.go:494-508`), so what follows a lapsed visual never ends.

---

## 6. Not modelled, and why

* The simulation inside a world (movement, damage, effects, mob AI, vision, bot
  decisions): float arithmetic and heuristics under one lock, with no protocol to
  check and no finite abstraction that would say something.
* Wire codecs, static game data, HTML of the admin server: pure functions and
  tables. These, the simulation, the bots and the data pipeline are most of the
  70,000 lines of the repository, which is why the models map a small share of
  them.
* The AI data pipeline (`ai42*`, `server/ai40`): offline tools beside the server.
* Battle tasks, drops, the ignore list, waves and structures of DOTA maps, the
  item tree of a battle; dashes and what an aura does.
* The composition of queue, match host and worlds through one room.
* A database write that fails. (The draft of a siege needs no pushes: a fighter there may
  send any request at any time.)
* `handleUserBag` and other handlers read the hero without `Store.mu`: the data
  race between such a read and a section of the Store is not modelled.

---

## 7. Plan

Done, in this order: `SharedWorlds` and `HuntWorlds`; `MPDHub` and
`LobbySquare`; `MatchRooms`; `Matchmaking`; `ClanStore`; `HeroBag`, `HeroGear`,
`HeroQuests`; `HeroFight`; `CastleDraft`; `Accounts`; `Social`; `HeroCast`; the proofs of
section 4.

Left:

1. Composition `Matchmaking` x `MatchRooms` x `HuntWorlds` through a common
   room: everybody of a formed match meets in one world.
2. Abstract specifications for the Store (one table, atomic operations, a crash
   that loses at most the operation under way) and for the queue (a match is
   formed, and each of its players enters it or deserts), with their refinement.
3. Battle tasks, and the ids of the scoreboard over several match servers.
4. The edits of the admin panel against the owner's own requests.
