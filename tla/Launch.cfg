\* The fight queue and the draft of sieges.
CONSTANTS
  u1 = u1
  u2 = u2
  u3 = u3
  f1 = f1
  f2 = f2
  k1 = k1
  k2 = k2
  dota = dota
  arena = arena
  archer = archer
  clan = clan
  Nothing = Nothing
  NoOne = NoOne
  Users = {u1, u2, u3}
  DotaMaps = {dota}
  ArenaMaps = {arena}
  Avatars = {archer}
  DotaMatchSize = 2
  MaxRooms = 2
  Fighters = {f1, f2}
  Keeps = {k1, k2}
  Banners = {clan}
  Heralds = {archer}
  MaxWindows = 2
SYMMETRY Perms
SPECIFICATION MCSpec
INVARIANTS
  SeatedOnce LaunchedAsMatched NoStaleLaunch
  LaunchedAsDrafted
