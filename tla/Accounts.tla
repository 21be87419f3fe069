------------------------------ MODULE Accounts ------------------------------
(***************************************************************************)
(* Accounts and session keys (session/session.go, admin.go, persist.go),   *)
(* the login and the hero creation of the Ctrl server and the admin        *)
(* panel's ban and delete.                                                 *)
(*                                                                         *)
(* A Store operation holds Store.mu from its first read to its last        *)
(* database write; a handler calls several of them and keeps the *User it  *)
(* got from the first.  The process may die at any moment, also between    *)
(* two writes, and is started again on the database it left.               *)
(***************************************************************************)
EXTENDS Naturals, Sequences, SequencesExt, FiniteSets, FiniteSetsExt

CONSTANTS Emails, Keys, Logins,  \* the session tokens; the requests under way
          Nobody,
          MaxAccounts            \* bound: account ids handed out, and accounts inserted

VARIABLES
  object,      \* id -> the User object of that id, also after its deletion
  known,       \* the ids in usersByID
  nextUserID,
  sessions,    \* key -> id, or Nobody
  database,        \* the tables users, sessions and meta
  unwritten,   \* the writes the operation under way has still to do
  login,       \* request -> what its handler does next, and to whom
  told,        \* history: the keys that clients were given
  registered,  \* history: the ids whose account was inserted, in order
  deleted,     \* history: the ids deleted and not handed out again
  revived,     \* history: the deleted ids that a late hero creation wrote back
  broken       \* history: the process died between the writes of an operation

accountVars == <<object, known, nextUserID, sessions, database, unwritten, login,
                 told, registered, deleted, revived, broken>>

Ids == 1..MaxAccounts
Heroes == {"none", "fresh", "played"}   \* a played one has earned something
User == [email : Emails, banned : BOOLEAN, hero : Heroes]
Finished == [pc |-> "done"]
Request == [pc : {"gate", "revoke", "create"}, id : Ids, key : Keys]
Row == [row : {"account", "user"}, id : Ids] \cup [row : {"session"}, key : Keys, id : Ids]
         \cup [row : {"drop"}, key : Keys] \cup [row : {"next"}]

ASSUME AccountsAssumption == /\ MaxAccounts \in Nat /\ IsFiniteSet(Keys)
                             /\ Nobody \notin Ids \cup User

AccountsTypeOK ==
  /\ object \in [Ids -> User \cup {Nobody}]
  /\ known \subseteq {i \in Ids : object[i] # Nobody}
  /\ nextUserID \in 1..(MaxAccounts + 1)
  /\ sessions \in [Keys -> Ids \cup {Nobody}]
  /\ database \in [users : [Ids -> User \cup {Nobody}], sessions : [Keys -> Ids \cup {Nobody}],
               next : 1..(MaxAccounts + 1)]
  /\ unwritten \in Seq(Row)
  /\ login \in [Logins -> Request \cup {Finished}]
  /\ told \subseteq Keys
  /\ registered \in Seq(Ids)
  /\ deleted \cup revived \subseteq Ids
  /\ broken \in BOOLEAN

AccountsInit ==
  /\ object = [i \in Ids |-> Nobody]
  /\ known = {}
  /\ nextUserID = 1
  /\ sessions = [k \in Keys |-> Nobody]
  /\ database = [users |-> object, sessions |-> sessions, next |-> 1]
  /\ unwritten = <<>>
  /\ login = [r \in Logins |-> Finished]
  /\ told = {} /\ registered = <<>> /\ deleted = {} /\ revived = {}
  /\ broken = FALSE

Unlocked == unwritten = <<>>
NewKeys == {k \in Keys : k \notin told /\ sessions[k] = Nobody /\ database.sessions[k] = Nobody
                         /\ \A r \in Logins : login[r] # Finished => login[r].key # k}

(***************************************************************************)
(* The writes: saveUserLocked, saveSessionLocked, dropSessionLocked,       *)
(* persistNextUserIDLocked.                                                *)
(***************************************************************************)
\* An e-mail address is unique in the table: such a row is not written.
Clashes(i) == \E j \in Ids \ {i} :
  database.users[j] # Nobody /\ database.users[j].email = object[i].email

UserRow(i) == IF Clashes(i) THEN database ELSE [database EXCEPT !.users[i] = object[i]]

\* A session row refers to a user row (foreign key).
SessionRow(k, i) ==
  IF database.users[i] = Nobody THEN database ELSE [database EXCEPT !.sessions[k] = i]

Write ==
  /\ unwritten # <<>>
  /\ unwritten' = Tail(unwritten)
  /\ LET w == Head(unwritten) IN
       /\ database' = CASE w.row = "account" -> UserRow(w.id)
                    [] w.row = "user"    -> UserRow(w.id)
                    [] w.row = "session" -> SessionRow(w.key, w.id)
                    [] w.row = "drop"    -> [database EXCEPT !.sessions[w.key] = Nobody]
                    [] w.row = "next"    -> [database EXCEPT !.next = nextUserID]
       /\ registered' = IF w.row = "account" /\ ~Clashes(w.id) THEN Append(registered, w.id)
                                                               ELSE registered
  /\ UNCHANGED <<object, known, nextUserID, sessions, login, told, deleted, revived, broken>>

(***************************************************************************)
(* handleLogin: LoginOrRegister, then the ban gate, which undoes it.       *)
(***************************************************************************)
Issue(r, i, k, writes) ==
  /\ sessions' = [sessions EXCEPT ![k] = i]
  /\ unwritten' = writes \o <<[row |-> "session", key |-> k, id |-> i]>>
  /\ login' = [login EXCEPT ![r] = [pc |-> "gate", id |-> i, key |-> k]]
  /\ UNCHANGED <<database, told, registered, revived, broken>>

LogIn(r, i, k) ==
  /\ login[r] = Finished /\ Unlocked
  /\ i \in known /\ k \in NewKeys
  /\ Issue(r, i, k, <<>>)
  /\ UNCHANGED <<object, known, nextUserID, deleted>>

RegisterWriting(r, e, k, writes) ==
  LET i == nextUserID IN
  /\ login[r] = Finished /\ Unlocked
  /\ \A j \in known : object[j].email # e
  /\ i <= MaxAccounts /\ Len(registered) < MaxAccounts
  /\ k \in NewKeys
  /\ object' = [object EXCEPT ![i] = [email |-> e, banned |-> FALSE, hero |-> "none"]]
  /\ known' = known \cup {i}
  /\ nextUserID' = i + 1
  /\ deleted' = deleted \ {i}
  /\ Issue(r, i, k, writes)

\* Variant: the counter of ids is recovered from the highest one.
RegisterUncounted(r, e, k) == RegisterWriting(r, e, k, <<[row |-> "account", id |-> nextUserID]>>)

Register(r, e, k) ==
  RegisterWriting(r, e, k, <<[row |-> "account", id |-> nextUserID], [row |-> "next"]>>)

Gate(r) ==
  /\ login[r].pc = "gate" /\ Unlocked
  /\ LET banned == login[r].id \in known /\ object[login[r].id].banned IN
       /\ login' = [login EXCEPT ![r] = IF banned THEN [@ EXCEPT !.pc = "revoke"] ELSE Finished]
       /\ told' = IF banned THEN told ELSE told \cup {login[r].key}
  /\ UNCHANGED <<object, known, nextUserID, sessions, database, unwritten, registered, deleted,
                 revived, broken>>

\* InvalidateSession
Revoke(r) ==
  /\ login[r].pc = "revoke" /\ Unlocked
  /\ sessions' = [sessions EXCEPT ![login[r].key] = Nobody]
  /\ unwritten' = <<[row |-> "drop", key |-> login[r].key]>>
  /\ login' = [login EXCEPT ![r] = Finished]
  /\ UNCHANGED <<object, known, nextUserID, database, told, registered, deleted, revived, broken>>

(***************************************************************************)
(* The admin panel.                                                        *)
(***************************************************************************)
KeysOf(i) == {k \in Keys : sessions[k] = i}
Drops(order) == [n \in DOMAIN order |-> [row |-> "drop", key |-> order[n]]]
Revoked(i) == [k \in Keys |-> IF sessions[k] = i THEN Nobody ELSE sessions[k]]

BanWriting(i, drops) ==
  /\ Unlocked /\ i \in known
  /\ object' = [object EXCEPT ![i].banned = TRUE]
  /\ sessions' = Revoked(i)
  /\ unwritten' = drops \o <<[row |-> "user", id |-> i]>>
  /\ UNCHANGED <<known, nextUserID, database, login, told, registered, deleted, revived, broken>>

\* Variant: the keys are revoked in memory only.
BanInMemory(i) == BanWriting(i, <<>>)

\* The keys are dropped in the order the map gives them, which is any.
Ban(i) == \E order \in {s \in [1..Cardinality(KeysOf(i)) -> KeysOf(i)] : ToSet(s) = KeysOf(i)} :
            BanWriting(i, Drops(order))

Unban(i) ==
  /\ Unlocked /\ i \in known /\ object[i].banned
  /\ object' = [object EXCEPT ![i].banned = FALSE]
  /\ unwritten' = <<[row |-> "user", id |-> i]>>
  /\ UNCHANGED <<known, nextUserID, sessions, database, login, told, registered, deleted, revived,
                 broken>>

DeleteLeaving(i, tables) ==
  /\ Unlocked /\ i \in known
  /\ database' = tables
  /\ known' = known \ {i}
  /\ sessions' = Revoked(i)
  /\ deleted' = deleted \cup {i}
  /\ UNCHANGED <<object, nextUserID, unwritten, login, told, registered, revived, broken>>

\* Variant: the row refuses to go and the memory is cleared all the same.
DeleteAnyway(i) == DeleteLeaving(i, database)

\* One DELETE: the rows of its sessions go with the account.
DeleteUser(i) == DeleteLeaving(i, [database EXCEPT
  !.users[i] = Nobody,
  !.sessions = [k \in Keys |-> IF @[k] = i THEN Nobody ELSE @[k]]])

(***************************************************************************)
(* handleHeroCreate: the account of the session has no hero yet; the       *)
(* object read is given one, whoever has changed or deleted it since.      *)
(***************************************************************************)
HeroCreate(r, k) ==
  LET i == sessions[k] IN
  /\ login[r] = Finished /\ Unlocked
  /\ k \in told /\ i \in known
  /\ object[i].hero = "none"
  /\ login' = [login EXCEPT ![r] = [pc |-> "create", id |-> i, key |-> k]]
  /\ UNCHANGED <<object, known, nextUserID, sessions, database, unwritten, told, registered,
                 deleted, revived, broken>>

CreateHero(r) ==
  LET i == login[r].id IN
  /\ login[r].pc = "create" /\ Unlocked
  /\ object' = [object EXCEPT ![i].hero = "fresh"]
  /\ unwritten' = <<[row |-> "user", id |-> i]>>
  /\ revived' = revived \cup ({i} \ known)
  /\ login' = [login EXCEPT ![r] = Finished]
  /\ UNCHANGED <<known, nextUserID, sessions, database, told, registered, deleted, broken>>

\* AddHeroMoney, AddHeroExp, ...: the Battle server pays the hero of an id.
Earn(i) ==
  /\ Unlocked /\ i \in known
  /\ object[i].hero # "none"
  /\ object' = [object EXCEPT ![i].hero = "played"]
  /\ unwritten' = <<[row |-> "user", id |-> i]>>
  /\ UNCHANGED <<known, nextUserID, sessions, database, login, told, registered, deleted, revived,
                 broken>>

(***************************************************************************)
(* The process dies and is started again: loadAllLocked.                   *)
(***************************************************************************)
Stored == {i \in Ids : database.users[i] # Nobody}

Reload ==
  /\ object' = database.users
  /\ known' = Stored
  /\ nextUserID' = Max({database.next} \cup {i + 1 : i \in Stored})
  /\ sessions' = [k \in Keys |-> IF database.sessions[k] \in Stored THEN database.sessions[k]
                                                                  ELSE Nobody]
  /\ unwritten' = <<>>
  /\ login' = [r \in Logins |-> Finished]
  /\ broken' = (broken \/ unwritten # <<>>)
  /\ UNCHANGED <<database, told, registered, deleted, revived>>

AccountsNext ==
  \/ Write
  \/ Reload
  \/ \E i \in Ids : Ban(i) \/ Unban(i) \/ DeleteUser(i) \/ Earn(i)
  \/ \E r \in Logins :
       \/ \E k \in Keys : \/ \E i \in Ids : LogIn(r, i, k)
                          \/ \E e \in Emails : Register(r, e, k)
                          \/ HeroCreate(r, k)
       \/ Gate(r)
       \/ Revoke(r)
       \/ CreateHero(r)

AccountsSpec == AccountsInit /\ [][AccountsNext]_accountVars

-----------------------------------------------------------------------------
(***************************************************************************)
(* Properties.                                                             *)
(***************************************************************************)

\* A key that a client holds opens no banned account, whichever of the login and
\* the ban comes first, and no restart brings such a key back (handleLogin issues
\* the key before it asks for the ban; SetBanned revokes in both places).
BannedLockedOut ==
  \A k \in told : sessions[k] # Nobody => ~object[sessions[k]].banned

\* Outside an operation the tables hold what the memory holds, also after a crash: a
\* restart that interrupts none is invisible to the clients, whose keys all stay good.
RestartInvisible ==
  Unlocked /\ revived = {} =>
    /\ database.sessions = sessions
    /\ \A i \in Ids : database.users[i] = (IF i \in known THEN object[i] ELSE Nobody)

\* No two accounts ever get one id, though accounts are deleted and the process
\* restarts in between, unless it died while registering (persistNextUserIDLocked).
IdsNeverReused == ~broken => IsInjective(registered)

\* A deleted account is gone from memory and database, with its keys, and comes
\* back with no restart, unless a hero|create that had read it wrote it again.
DeletedForGood ==
  \A i \in deleted \ revived :
    /\ i \notin known /\ database.users[i] = Nobody
    /\ \A k \in Keys : sessions[k] # i /\ database.sessions[k] # i

\* ctrlserver/server.go:702-705: "Guard against a stray/replayed hero|create
\* overwriting an existing hero: CreateHero would reset money/level/gear/quests":
\* no hero that has earned something is ever replaced by a fresh one.
PlayedHeroKept ==
  [][Unlocked => \A i \in known \cap known' :
                   object[i].hero = "played" => object'[i].hero # "fresh"]_accountVars
=============================================================================
