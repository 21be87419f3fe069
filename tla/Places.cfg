SPECIFICATION PlacesSpec
CONSTANTS
  Parts = {"squares", "matches"}
  c1 = c1
  c2 = c2
  c3 = c3
  c4 = c4
  s1 = s1
  s2 = s2
  u1 = u1
  u2 = u2
  NoConn = NoConn
  NoSock = NoSock
  NoArea = NoArea
  Conns = {c1, c2, c3, c4}
  Users = {u1, u2}
  Socks = {s1, s2}
  Areas = {a1, a2}
  UserOf <- MCUserOf
  SockUser <- MCSockUser
  Travel = FALSE
  Rooms = {r1}
  Servers = {m1, m2, m3}
  Players = {p1, p2}
  Grace = 2
  Main = Main
  NoServer = NoServer
  NoRoom = NoRoom
INVARIANTS
  NotEvictedByStale
  RenderedInSquare
  MirrorsSquare
  NoGhostInChat
  NeverReapedInProgress
  OneServerPerMatch
  FirstLaunchHonoured
PROPERTIES
  DesertedRoomsReaped
CHECK_DEADLOCK FALSE
