------------------------------ MODULE Social -------------------------------
(***************************************************************************)
(* Parties and friendships (session/group.go, session/friends.go, their    *)
(* handlers in ctrlserver, and what admin.go DeleteAccount does to both).  *)
(*                                                                         *)
(* A Store operation is atomic in memory; friendships are then written to  *)
(* the database, one transaction after the other, and the process may die  *)
(* in between.  Parties live in memory only.  A handler finds its user by  *)
(* the session first: he may be gone when it comes to the operation.       *)
(***************************************************************************)
EXTENDS Lists, SequencesExt, FiniteSets

CONSTANTS People, Alone,
          MaxDialogs             \* bound: requests on a screen, and kicks on their way

Party == [leader : People, members : Seq(People)]

ASSUME SocialAssumption == /\ IsFiniteSet(People) /\ MaxDialogs \in Nat
                           /\ Alone \notin People \cup Party

VARIABLES
  present,    \* usersByID
  late,       \* the deleted users with a request under way
  groups,     \* uid -> his party, or Alone
  invited,    \* <<from, to>>: party invitations on the screen of "to"
  asking,     \* <<from, to>>: requests to join on the screen of a leader "to"
  kick,       \* uid -> the member he is removing, and the next section of that
  friends,    \* uid -> User.Friends
  friendReqs, \* <<from, to>>: the pending requests
  courting,   \* <<from, to>>: the friend requests on the screen of "to"
  friendRows, \* the friends table
  unsaved,    \* the transactions still to come of the operation under way
  scrubTorn        \* history: a deletion was interrupted by the end of the process

partyVars == <<present, late, groups, invited, asking, kick>>
friendVars == <<friends, friendReqs, courting, friendRows, unsaved, scrubTorn>>

NoKick == [pc |-> "idle", target |-> Alone]

SocialTypeOK ==
  /\ present \subseteq People /\ late \subseteq People \ present
  /\ groups \in [People -> Party \cup {Alone}]
  /\ invited \cup asking \cup friendReqs \cup courting \subseteq People \X People
  /\ kick \in [People -> [pc : {"check", "leave"}, target : People] \cup {NoKick}]
  /\ {friends, friendRows} \subseteq [People -> SUBSET People]
  /\ unsaved \in Seq(SUBSET People)
  /\ scrubTorn \in BOOLEAN

SocialInit ==
  /\ present = People /\ late = {}
  /\ groups = [u \in People |-> Alone]
  /\ invited = {} /\ asking = {}
  /\ kick = [u \in People |-> NoKick]
  /\ friends = [u \in People |-> {}] /\ friendRows = friends
  /\ friendReqs = {} /\ courting = {}
  /\ unsaved = <<>> /\ scrubTorn = FALSE

\* Store.mu is free, and the user was there when his request came in.
Acts(u) == unsaved = <<>> /\ u \in present \cup late
Served(u) == late' = late \ {u}

Dialogs == Cardinality(invited) + Cardinality(asking) + Cardinality(courting)
Kicks == Cardinality({u \in People : kick[u] # NoKick})

(***************************************************************************)
(* The Store's operations.  All members index the same Group: a change of  *)
(* it is a change for everyone who does.                                   *)
(***************************************************************************)
Becomes(g, h) == [v \in People |-> IF groups[v] = g THEN h ELSE groups[v]]

Led(u) == IF groups[u] = Alone THEN [leader |-> u, members |-> <<u>>] ELSE groups[u]

Joined(owner, invitee) ==
  LET h == [Led(owner) EXCEPT !.members = Append(@, invitee)] IN
  [Becomes(Led(owner), h) EXCEPT ![owner] = h, ![invitee] = h]

\* Variant: whoever asks gets in, from another party too.
JoinAnyone(owner, invitee) ==
  groups' = IF owner # invitee THEN Joined(owner, invitee) ELSE groups

JoinGroup(owner, invitee) ==
  groups' = IF owner # invitee /\ groups[invitee] = Alone THEN Joined(owner, invitee) ELSE groups

Remaining(u) == Kept(groups[u].members, u)
Heir(u) == IF groups[u].leader = u THEN Remaining(u)[1] ELSE groups[u].leader
Parted(u) ==
  [Becomes(groups[u], [leader |-> Heir(u), members |-> Remaining(u)]) EXCEPT ![u] = Alone]

LeaveGroup(u) ==
  groups' = CASE groups[u] = Alone -> groups
              [] groups[u] # Alone /\ Len(Remaining(u)) > 1 -> Parted(u)
              [] OTHER -> [v \in People |-> IF v \in ToSet(groups[u].members) THEN Alone
                                                                         ELSE groups[v]]

Leads(u) == groups[u] # Alone /\ groups[u].leader = u

(***************************************************************************)
(* The handlers.                                                           *)
(***************************************************************************)
\* The client offers an invitation to a leader, or to one who is alone.
Invite(u, t) ==
  /\ Acts(u) /\ Served(u)
  /\ groups[u] = Alone \/ Leads(u)
  /\ t # u /\ groups[t] = Alone
  /\ Dialogs < MaxDialogs
  /\ invited' = invited \cup {<<u, t>>}
  /\ UNCHANGED <<present, groups, asking, kick, friendVars>>

InviteAnswer(u, t, accepted) ==
  /\ Acts(u) /\ Served(u)
  /\ <<t, u>> \in invited
  /\ invited' = invited \ {<<t, u>>}
  /\ IF accepted THEN JoinGroup(t, u) ELSE UNCHANGED groups
  /\ UNCHANGED <<present, asking, kick, friendVars>>

JoinRequest(u, member) ==
  /\ Acts(u) /\ Served(u)
  /\ u # member /\ groups[member] # Alone
  /\ Dialogs < MaxDialogs
  /\ asking' = asking \cup {<<u, groups[member].leader>>}
  /\ UNCHANGED <<present, groups, invited, kick, friendVars>>

JoinAnswer(u, t, accepted) ==
  /\ Acts(u) /\ Served(u)
  /\ <<t, u>> \in asking
  /\ asking' = asking \ {<<t, u>>}
  /\ IF accepted THEN JoinGroup(u, t) ELSE UNCHANGED groups
  /\ UNCHANGED <<present, invited, kick, friendVars>>

Leave(u) ==
  /\ Acts(u) /\ Served(u)
  /\ groups[u] # Alone
  /\ LeaveGroup(u)
  /\ UNCHANGED <<present, invited, asking, kick, friendVars>>

\* A leader's client sends the removal of a member; the server asks whether he
\* leads a party in one section and removes the target in the next.
KickSent(u, t) ==
  /\ u \in present /\ kick[u] = NoKick /\ unsaved = <<>>
  /\ Kicks < MaxDialogs
  /\ t # u /\ Leads(u) /\ t \in ToSet(groups[u].members)
  /\ kick' = [kick EXCEPT ![u] = [pc |-> "check", target |-> t]]
  /\ UNCHANGED <<present, late, groups, invited, asking, friendVars>>

KickCheck(u) ==
  /\ kick[u].pc = "check" /\ unsaved = <<>>
  /\ kick' = [kick EXCEPT ![u] = IF Leads(u) THEN [@ EXCEPT !.pc = "leave"] ELSE NoKick]
  /\ UNCHANGED <<present, late, groups, invited, asking, friendVars>>

KickLeave(u) ==
  /\ kick[u].pc = "leave" /\ unsaved = <<>>
  /\ LeaveGroup(kick[u].target)
  /\ kick' = [kick EXCEPT ![u] = NoKick]
  /\ UNCHANGED <<present, late, invited, asking, friendVars>>

ChangeLeader(u, t) ==
  /\ Acts(u) /\ Served(u)
  /\ Leads(u) /\ t \in ToSet(groups[u].members)
  /\ groups' = Becomes(groups[u], [groups[u] EXCEPT !.leader = t])
  /\ UNCHANGED <<present, invited, asking, kick, friendVars>>

(***************************************************************************)
(* Friends.  AddFriendRequest completes a request of the other side;       *)
(* AcceptFriendRequest asks for no request: it may have been answered.     *)
(***************************************************************************)
\* persistPairLocked: both accounts in one transaction.
InOneGo(a, b) == <<{a, b}>>

\* Variant: one account after the other.
OneByOne(a, b) == <<{a}, {b}>>

SavedPair(a, b) == InOneGo(a, b)

Befriended(a, b) == [friends EXCEPT ![a] = @ \cup {b}, ![b] = @ \cup {a}]
Unasked(a, b) == friendReqs \ {<<a, b>>, <<b, a>>}

AddFriend(u, t) ==
  /\ Acts(u) /\ Served(u)
  /\ u # t /\ {u, t} \subseteq present /\ t \notin friends[u]
  /\ IF <<t, u>> \in friendReqs
       THEN /\ friends' = Befriended(u, t)
            /\ friendReqs' = Unasked(u, t)
            /\ unsaved' = SavedPair(u, t)
            /\ UNCHANGED courting
       ELSE /\ Dialogs < MaxDialogs
            /\ friendReqs' = friendReqs \cup {<<u, t>>}
            /\ courting' = courting \cup {<<u, t>>}
            /\ UNCHANGED <<friends, unsaved>>
  /\ UNCHANGED <<present, groups, invited, asking, kick, friendRows, scrubTorn>>

FriendAnswer(u, t, accepted) ==
  /\ Acts(u) /\ Served(u)
  /\ <<t, u>> \in courting
  /\ courting' = courting \ {<<t, u>>}
  /\ IF accepted /\ {u, t} \subseteq present
       THEN friends' = Befriended(u, t) /\ unsaved' = SavedPair(u, t)
       ELSE UNCHANGED <<friends, unsaved>>
  /\ friendReqs' = IF accepted /\ ~{u, t} \subseteq present THEN friendReqs ELSE Unasked(u, t)
  /\ UNCHANGED <<present, groups, invited, asking, kick, friendRows, scrubTorn>>

RemoveFriend(u, t) ==
  /\ Acts(u) /\ Served(u)
  /\ t \in friends[u]
  /\ friends' = [friends EXCEPT ![u] = IF u \in present THEN @ \ {t} ELSE @,
                                ![t] = IF t \in present THEN @ \ {u} ELSE @]
  /\ unsaved' = SavedPair(u, t)
  /\ UNCHANGED <<present, groups, invited, asking, kick, friendReqs, courting, friendRows,
                 scrubTorn>>

\* A transaction is committed; accounts that are gone are not in it.
SaveFriends ==
  /\ unsaved # <<>>
  /\ unsaved' = Tail(unsaved)
  /\ friendRows' = [u \in People |-> IF u \in Head(unsaved) \cap present THEN friends[u]
                                                                      ELSE friendRows[u]]
  /\ UNCHANGED <<partyVars, friends, friendReqs, courting, scrubTorn>>

(***************************************************************************)
(* DeleteAccount, and the end and restart of the process.                  *)
(***************************************************************************)
DeletePerson(u) ==
  LET listing == {v \in present \ {u} : u \in friends[v]} IN
  /\ unsaved = <<>> /\ u \in present
  /\ present' = present \ {u}
  /\ late' = late \cup {u}
  /\ groups' = [groups EXCEPT ![u] = Alone]
  /\ friends' = [v \in People |-> IF v = u THEN {} ELSE friends[v] \ {u}]
  /\ friendReqs' = {p \in friendReqs : p[2] # u}
  /\ friendRows' = [friendRows EXCEPT ![u] = {}]
  /\ \E order \in {s \in [1..Cardinality(listing) -> listing] : ToSet(s) = listing} :
       unsaved' = [i \in DOMAIN order |-> {order[i]}]
  /\ UNCHANGED <<invited, asking, kick, courting, scrubTorn>>

\* The screens of the clients stay as they are.
RestartStore ==
  /\ groups' = [u \in People |-> Alone]
  /\ late' = {}
  /\ kick' = [u \in People |-> NoKick]
  /\ friends' = friendRows
  /\ friendReqs' = {}
  /\ scrubTorn' = (scrubTorn \/ unsaved # <<>>)
  /\ unsaved' = <<>>
  /\ UNCHANGED <<present, invited, asking, courting, friendRows>>

PartyRequest(u) ==
  \/ \E t \in People : \/ Invite(u, t) \/ JoinRequest(u, t)
                       \/ KickSent(u, t) \/ ChangeLeader(u, t)
                       \/ \E yes \in BOOLEAN : InviteAnswer(u, t, yes) \/ JoinAnswer(u, t, yes)
  \/ Leave(u)
  \/ KickCheck(u)
  \/ KickLeave(u)

FriendRequest(u) ==
  \E t \in People : \/ AddFriend(u, t) \/ RemoveFriend(u, t)
                    \/ \E yes \in BOOLEAN : FriendAnswer(u, t, yes)

SocialNext == \/ \E u \in People : PartyRequest(u) \/ FriendRequest(u) \/ DeletePerson(u)
               \/ SaveFriends
               \/ RestartStore

SocialSpec == SocialInit /\ [][SocialNext]_<<partyVars, friendVars>>

-----------------------------------------------------------------------------
(***************************************************************************)
(* Properties.                                                             *)
(***************************************************************************)

\* Whoever has a party is a member of it once, is not the only one, has a member
\* for its leader, and shares it with every other member whose account exists
\* (JoinGroup, LeaveGroup with its promotion and disbanding, ChangeLeader).
PartiesAgree ==
  \A u \in present : groups[u] # Alone =>
    LET members == groups[u].members IN
    /\ Cardinality({i \in DOMAIN members : members[i] = u}) = 1
    /\ groups[u].leader \in ToSet(members) /\ ToSet(members) # {u}
    /\ \A v \in ToSet(members) \cap present : groups[v] = groups[u]

\* A friendship is one of both sides, in memory and in the tables, after whichever
\* transaction the process dies (persistPairLocked); and no list names a deleted
\* account, but one of the tables that the deletion is still scrubbing, or any
\* once the process has died while it did.
FriendsMutual ==
  \A lists \in {friends, friendRows} : \A u, v \in People : v \in lists[u] =>
    /\ {u, v} \subseteq present => u \in lists[v]
    /\ ~scrubTorn /\ (unsaved = <<>> \/ lists = friends) => {u, v} \subseteq present
=============================================================================
