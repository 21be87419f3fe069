----------------------------- MODULE ClanStore -----------------------------
(***************************************************************************)
(* Clans and castle ownership in the Store (session/clan.go, castle.go,    *)
(* admin.go DeleteAccount), in memory and in the database behind it.       *)
(*                                                                         *)
(* An operation holds Store.mu from beginning to end: it changes the       *)
(* memory and then writes the rows it touched, one database transaction    *)
(* after the other (persistClanLocked, saveUserLocked, ...).  The process  *)
(* may be killed and started again (Restart), also between two of those    *)
(* writes.                                                                 *)
(***************************************************************************)
EXTENDS Naturals, Sequences, FiniteSets, FiniteSetsExt, SequencesExt

CONSTANTS Users, Names, Castles, None,
          ClanMaxMembers,  \* the cap on a clan's members
          Wallet,          \* the clan prices a hero can pay in all
          Edits,           \* the ranks an edit of roles asks for
          Parties,         \* the winning sides of the sieges
          MaxClans,        \* bound: clans founded in a behaviour
          MaxSieges        \* bound: sieges of a castle settled, and won by a hero

VARIABLES
  mem,     \* the Store in memory: one function per table
  disk,    \* the same tables in the database
  writes,  \* the rows the operation under way has still to write, in batches
  invites, \* clanInvites: invitee -> the inviting clan, or NoClan
  cooling, \* the invitees whose clanInviteCD lies in the future
  founded, \* history: the clan ids inserted into the database, in order
  torn     \* history: the process died between the writes of an operation

vars == <<mem, disk, writes, invites, cooling, founded, torn>>

Warrior == 1
Recruiter == 2
Deputy == 4
ClanHead == 5
Roles == Warrior..ClanHead                   \* 3: Commander
NoClan == 0
ClanIds == 1..(MaxClans + 1)

\* A hero's ClanID and ClanRole, what his money still pays for, and the sieges
\* whose reward he was credited.
Hero == [clan : {NoClan} \cup ClanIds, role : {0} \cup Roles, money : 0..Wallet, won : Nat]
Clan == [name : Names, head : Users]
Siege == [winner : ClanIds, fighters : SUBSET Users]  \* fighters: history only

ASSUME ClanAssumption == /\ {ClanMaxMembers, Wallet, MaxClans, MaxSieges} \subseteq Nat
                         /\ ClanMaxMembers > 0
                         /\ IsFiniteSet(Users) /\ Parties \subseteq SUBSET Users
                         /\ None \notin Hero \cup Clan

Tables == [heroes : [Users -> Hero \cup {None}],      \* None: the account is gone
           clans  : [ClanIds -> Clan \cup {None}],
           meta   : [next_clan_id : Nat],
           owner  : [Castles -> {NoClan} \cup ClanIds],
           log    : [Castles -> Seq(Siege)]]

\* What names a row: its table and its key.
Rows == ({"heroes"} \X Users) \cup ({"clans"} \X ClanIds) \cup ({"meta"} \X {"next_clan_id"})
          \cup ({"owner", "log"} \X Castles)

TypeOK == /\ mem \in Tables /\ disk \in Tables
          /\ writes \in Seq((SUBSET Rows) \ {{}})
          /\ invites \in [Users -> {NoClan} \cup ClanIds]
          /\ cooling \subseteq Users
          /\ founded \in Seq(ClanIds)
          /\ torn \in BOOLEAN

Init == /\ mem = [heroes |-> [u \in Users |->
                                [clan |-> NoClan, role |-> 0, money |-> Wallet, won |-> 0]],
                  clans  |-> [k \in ClanIds |-> None],
                  meta   |-> [next_clan_id |-> 1],
                  owner  |-> [s \in Castles |-> NoClan],
                  log    |-> [s \in Castles |-> <<>>]]
        /\ disk = mem
        /\ writes = <<>>
        /\ invites = [u \in Users |-> NoClan]
        /\ cooling = {}
        /\ founded = <<>>
        /\ torn = FALSE

Free == writes = <<>>                        \* nobody holds Store.mu
Exists(u) == mem.heroes[u] # None
Of(u) == mem.heroes[u]
InClan(u) == Exists(u) /\ Of(u).clan # NoClan
Members(k) == {u \in Users : Exists(u) /\ Of(u).clan = k}

\* An operation leaves the memory m behind and the batches of rows to write.
Commit(m, batches) == /\ Free
                      /\ mem' = m
                      /\ writes' = batches

Enlist(m, u, k, role) == [m EXCEPT !.heroes[u].clan = k, !.heroes[u].role = role]
HeroRows(us) == {<<"heroes", u>> : u \in us}
HeroBatch(us) == IF us = {} THEN <<>> ELSE <<HeroRows(us)>>

(***************************************************************************)
(* CreateClan.                                                             *)
(***************************************************************************)
NameFree(n) == \A k \in ClanIds : mem.clans[k] # None => mem.clans[k].name # n

CreateClan(u, n) ==
  LET k == mem.meta.next_clan_id IN
  /\ Len(founded) < MaxClans /\ k <= MaxClans
  /\ Exists(u) /\ Of(u).money > 0 /\ ~InClan(u)
  /\ NameFree(n)
  /\ Commit([Enlist(mem, u, k, ClanHead) EXCEPT
               !.heroes[u].money = @ - 1,
               !.meta.next_clan_id = k + 1,
               !.clans[k] = [name |-> n, head |-> u]],
            <<{<<"clans", k>>}, {<<"meta", "next_clan_id">>}, HeroRows({u})>>)
  /\ UNCHANGED <<disk, invites, cooling, founded, torn>>

(***************************************************************************)
(* RemoveClanMember: leaving, or a kick.                                   *)
(***************************************************************************)
RemoveClanMember(a, t) ==
  /\ InClan(a) /\ InClan(t) /\ Of(t).clan = Of(a).clan
  /\ IF a = t THEN Of(a).role # ClanHead
              ELSE Of(a).role >= Recruiter /\ Of(a).role > Of(t).role
  /\ Commit(Enlist(mem, t, NoClan, 0), <<HeroRows({t})>>)
  /\ UNCHANGED <<disk, invites, cooling, founded, torn>>

(***************************************************************************)
(* DisbandClan: the header goes first, then each member's row.             *)
(***************************************************************************)
DisbandClan(a) ==
  LET k == Of(a).clan
      members == Members(k) IN
  /\ InClan(a) /\ Of(a).role = ClanHead
  /\ Commit([mem EXCEPT !.clans[k] = None,
                        !.heroes = [u \in Users |->
                           IF u \in members THEN [@[u] EXCEPT !.clan = NoClan, !.role = 0]
                                            ELSE @[u]]],
            <<{<<"clans", k>>}, HeroRows(members)>>)
  /\ UNCHANGED <<disk, invites, cooling, founded, torn>>

(***************************************************************************)
(* ChangeClanRoles: a batch of edits, validated as a whole.                *)
(***************************************************************************)
EditAllowed(a, t, role) ==
  /\ role \in Roles
  /\ Exists(t) /\ Of(t).clan = Of(a).clan
  /\ role # ClanHead => Of(a).role > Of(t).role /\ role < Of(a).role

NewHeads(roles) == {t \in DOMAIN roles : roles[t] = ClanHead}

RolesAllowed(a, roles) ==
  /\ InClan(a) /\ Of(a).role >= Deputy
  /\ \A t \in DOMAIN roles : EditAllowed(a, t, roles[t])
  /\ NewHeads(roles) # {} => /\ Of(a).role = ClanHead
                             /\ Cardinality(NewHeads(roles)) = 1
                             /\ a \notin NewHeads(roles)

Edited(roles) == [mem EXCEPT !.heroes = [u \in Users |->
                    IF u \in DOMAIN roles THEN [@[u] EXCEPT !.role = roles[u]] ELSE @[u]]]

EditRoles(a, roles) ==
  /\ RolesAllowed(a, roles) /\ NewHeads(roles) = {}
  /\ Commit(Edited(roles), <<HeroRows(DOMAIN roles)>>)
  /\ UNCHANGED <<disk, invites, cooling, founded, torn>>

TransferBy(a, roles, demoted, saved) ==
  LET k == Of(a).clan
      m == [Edited(roles) EXCEPT !.heroes[a].role = demoted] IN
  /\ RolesAllowed(a, roles) /\ NewHeads(roles) # {}
  /\ IF mem.clans[k] = None
       THEN Commit(m, <<HeroRows(saved)>>)
       ELSE Commit([m EXCEPT !.clans[k].head = CHOOSE t \in NewHeads(roles) : TRUE],
                   <<{<<"clans", k>>}, HeroRows(saved)>>)
  /\ UNCHANGED <<disk, invites, cooling, founded, torn>>

\* Variant: the old HEAD keeps his rank.
TransferKeep(a, roles) == TransferBy(a, roles, ClanHead, DOMAIN roles \cup {a})

\* Variant: only the edited members are saved.
TransferUnsaved(a, roles) == TransferBy(a, roles, Deputy, DOMAIN roles)

TransferHead(a, roles) == TransferBy(a, roles, Deputy, DOMAIN roles \cup {a})

(***************************************************************************)
(* RecordClanInvite and AnswerClanInvite.                                  *)
(***************************************************************************)
RecordClanInvite(a, t) ==
  /\ Free
  /\ InClan(a) /\ Of(a).role >= Recruiter
  /\ mem.clans[Of(a).clan] # None
  /\ Exists(t) /\ ~InClan(t)
  /\ invites[t] = NoClan
  /\ Cardinality(Members(Of(a).clan)) < ClanMaxMembers
  /\ t \notin cooling
  /\ invites' = [invites EXCEPT ![t] = Of(a).clan]
  /\ cooling' = cooling \cup {t}
  /\ UNCHANGED <<mem, disk, writes, founded, torn>>

\* The invite is used up whatever the answer; joining asks for all of it again.
Answer(t, joins) ==
  /\ Free /\ invites[t] # NoClan
  /\ invites' = [invites EXCEPT ![t] = NoClan]
  /\ IF joins THEN Commit(Enlist(mem, t, invites[t], Warrior), <<HeroRows({t})>>)
              ELSE UNCHANGED <<mem, writes>>
  /\ UNCHANGED <<disk, cooling, founded, torn>>

MayJoin(t) == /\ Exists(t) /\ ~InClan(t)
              /\ mem.clans[invites[t]] # None

\* Variant: the space was checked when the invite was sent.
AnswerUncounted(t, accept) == Answer(t, accept /\ MayJoin(t))

AnswerClanInvite(t, accept) ==
  Answer(t, /\ accept /\ MayJoin(t)
            /\ Cardinality(Members(invites[t])) < ClanMaxMembers)

CooldownEnds(t) ==
  /\ t \in cooling
  /\ cooling' = cooling \ {t}
  /\ UNCHANGED <<mem, disk, writes, invites, founded, torn>>

(***************************************************************************)
(* SettleCastleBattle: the owner, the history and every fighter's reward.  *)
(* The winner was voted from the fighters' clans before: by now the clan   *)
(* may be gone.                                                            *)
(***************************************************************************)
SettleCastleBattle(s, winner, fighters) ==
  LET paid == {u \in fighters : Exists(u)}
      m == [mem EXCEPT !.heroes = [u \in Users |->
                          IF u \in paid THEN [Of(u) EXCEPT !.won = Of(u).won + 1] ELSE Of(u)]] IN
  /\ Len(mem.log[s]) < MaxSieges /\ \A u \in paid : Of(u).won < MaxSieges
  /\ IF winner = NoClan
       THEN Commit(m, HeroBatch(paid))
       ELSE Commit([m EXCEPT !.owner[s] = winner,
                             !.log[s] = Append(@, [winner |-> winner, fighters |-> paid])],
                   <<{<<"owner", s>>}, {<<"log", s>>}>> \o HeroBatch(paid))
  /\ UNCHANGED <<disk, invites, cooling, founded, torn>>

(***************************************************************************)
(* DeleteAccount: the database row first, then the memory.  The clan of a  *)
(* deleted HEAD stays, and so do the invite and the cooldown.              *)
(***************************************************************************)
DeleteAccount(u) ==
  /\ Free /\ Exists(u)
  /\ disk' = [disk EXCEPT !.heroes[u] = None]
  /\ mem'  = [mem  EXCEPT !.heroes[u] = None]
  /\ UNCHANGED <<writes, invites, cooling, founded, torn>>

(***************************************************************************)
(* The database.  A row written is a transaction of its own.               *)
(***************************************************************************)
RowDone(row) == writes' = IF Head(writes) = {row} THEN Tail(writes)
                          ELSE <<Head(writes) \ {row}>> \o Tail(writes)

Insert(row) == row[1] = "clans" /\ mem.clans[row[2]] # None /\ disk.clans[row[2]] = None

WriteRow ==
  /\ ~Free
  /\ \E row \in Head(writes) :
       /\ RowDone(row)
       /\ disk' = [disk EXCEPT ![row[1]][row[2]] = mem[row[1]][row[2]]]
       /\ founded' = IF Insert(row) THEN Append(founded, row[2]) ELSE founded
  /\ UNCHANGED <<mem, invites, cooling, torn>>

(***************************************************************************)
(* loadAllLocked at the next start: the counter is the stored mark, or one *)
(* more than the highest clan left.  Invites and cooldowns were memory.    *)
(***************************************************************************)
NextClanID(d) == Max({d.meta.next_clan_id} \cup {k + 1 : k \in {j \in ClanIds : d.clans[j] # None}})

\* Variant: the stored mark is not read.
LoadHighest(d) == [d EXCEPT !.meta.next_clan_id =
                     Max({1} \cup {k + 1 : k \in {j \in ClanIds : d.clans[j] # None}})]

Load(d) == [d EXCEPT !.meta.next_clan_id = NextClanID(d)]

Restart ==
  /\ mem' = Load(disk)
  /\ writes' = <<>>
  /\ invites' = [u \in Users |-> NoClan]
  /\ cooling' = {}
  /\ torn' = (torn \/ ~Free)
  /\ UNCHANGED <<disk, founded>>

\* The edits a may send that name members of his clan only; others are refused.
Batches(a) == IF InClan(a)
                THEN UNION {[us -> Edits] : us \in (SUBSET Members(Of(a).clan)) \ {{}}}
                ELSE {}

ClanOperation ==
  \/ \E u \in Users, n \in Names : CreateClan(u, n)
  \/ \E a, t \in Users : RemoveClanMember(a, t)
  \/ \E a \in Users : DisbandClan(a)
  \/ \E a \in Users : \E roles \in Batches(a) : EditRoles(a, roles)
  \/ \E a \in Users : \E roles \in Batches(a) : TransferHead(a, roles)
  \/ \E a, t \in Users : RecordClanInvite(a, t)
  \/ \E t \in Users, accept \in BOOLEAN : AnswerClanInvite(t, accept)

Operate ==
  \/ ClanOperation
  \/ \E t \in Users : CooldownEnds(t)
  \/ \E u \in Users : DeleteAccount(u)
  \/ WriteRow

Settle == \E s \in Castles, winner \in {NoClan} \cup ToSet(founded), us \in Parties :
            SettleCastleBattle(s, winner, us)

Next == Operate \/ Settle \/ Restart

Spec == Init /\ [][Next]_vars

-----------------------------------------------------------------------------
(***************************************************************************)
(* Properties.                                                             *)
(***************************************************************************)

\* Every clan has one HEAD, the one its header names, and no clan has another:
\* through foundations, transfers, kicks and restarts.  Only deleting the
\* account of a HEAD leaves a clan without one, and only a process that died
\* between the rows of a transfer can bring up two.
OneHead ==
  ~torn => \A k \in ClanIds : mem.clans[k] # None =>
    {u \in Members(k) : Of(u).role = ClanHead} = {u \in {mem.clans[k].head} : Exists(u)}

\* A hero's clan exists, and he has a rank exactly while he is in one: nobody
\* is left locked out of every clan by a clan that is gone (but one whose clan
\* was being disbanded, or founded, when the process died).
NoOrphans ==
  \A u \in Users : Exists(u) =>
    /\ InClan(u) /\ ~torn => mem.clans[Of(u).clan] # None
    /\ (Of(u).role = 0) <=> (Of(u).clan = NoClan)

\* A clan never outgrows the cap, however many invites were open when its last
\* places were taken.
WithinCap == \A k \in ClanIds : Cardinality(Members(k)) <= ClanMaxMembers

\* Both hold of every clan, whatever answers, kicks, departures and disbandings
\* overtake each other.
MembersSound == NoOrphans /\ WithinCap

\* No clan is founded under the id of an earlier one (clan.go:469: "so a
\* disbanded clan's id is never reused"), which heroes and castles may still name.
ClanIdsFresh == IsInjective(founded)

\* Between two operations the next start of the server would find everything
\* the memory holds: what an operation changed it also wrote.
NothingUnsaved == Free => Load(disk) = mem

\* The owner and the history of a castle and the rewards of the fighters move
\* together (castle.go:51-56: "in the SAME commit ... so a crash can't leave
\* ownership transferred with rewards uncredited").
SettledTogether ==
  Free => \A u \in Users : Exists(u) =>
    Of(u).won >= Cardinality({x \in UNION {{<<s, i>> : i \in DOMAIN mem.log[s]} : s \in Castles} :
                                u \in mem.log[x[1]][x[2]].fighters})
=============================================================================
