\* The Store: clans with a siege or any crash, accounts, parties, friendships.
CONSTANTS
  u1 = u1
  u2 = u2
  u3 = u3
  n1 = n1
  n2 = n2
  k1 = k1
  k2 = k2
  r1 = r1
  r2 = r2
  castle = castle
  None = None
  Nobody = Nobody
  Alone = Alone
  Users = {u1, u2, u3}
  Names = {n1, n2}
  Castles = {castle}
  ClanMaxMembers = 2
  Wallet = 1
  Edits = {1, 4, 5}
  Parties = {{u1, u2, u3}}
  MaxClans = 2
  MaxSieges = 1
  Emails = {n1, n2}
  Keys = {k1, k2}
  Logins = {r1, r2}
  MaxAccounts = 2
  People = {u1, u2, u3}
  MaxDialogs = 1
  Parts = {"sieges", "crashes", "accounts", "parties", "friends"}
SYMMETRY Perms
SPECIFICATION MCSpec
INVARIANTS
  OneHead MembersSound ClanIdsFresh NothingUnsaved
  BannedLockedOut RestartInvisible IdsNeverReused DeletedForGood
  PartiesAgree FriendsMutual
