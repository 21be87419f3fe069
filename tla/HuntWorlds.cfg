SPECIFICATION FairSpec
CONSTANTS
  c1 = c1
  c2 = c2
  c3 = c3
  c4 = c4
  u1 = u1
  u2 = u2
  u3 = u3
  NoConn = NoConn
  NoWorld = NoWorld
  NoRoom = NoRoom
  Conns = {c1, c2, c3, c4}
  Users = {u1, u2, u3}
  Rooms = {r1}
  Worlds = {w1, w2, w3, w4}
  UserOf <- MCUserOf
  Overlap = FALSE
INVARIANTS
  NeverStranded
  RenderedExactly
PROPERTIES
  JoinCompletes
  EmptyRoomsForgotten
  ImplementsSharedWorlds
CHECK_DEADLOCK FALSE
