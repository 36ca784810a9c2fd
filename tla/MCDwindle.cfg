SPECIFICATION Spec
CONSTANTS
  c1 = c1
  c2 = c2
  c3 = c3
  c4 = c4
  Clients = {c1, c2, c3}
  NoClient = NoClient
INVARIANTS TypeOK TreeWellFormed LeavesMatch
PROPERTIES OnlyTornGoesUndefined TileOrderKept
CHECK_DEADLOCK FALSE
