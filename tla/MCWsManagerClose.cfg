SPECIFICATION Spec
CONSTANTS
  u1 = u1
  c1 = c1
  c2 = c2
  g1 = g1
  g2 = g2
  Users = {u1}
  Conns = {c1, c2}
  Gens = {g1, g2}
  SendCap = 1
  NoConn = NoConn
  NoGen = NoGen
CHECK_DEADLOCK FALSE
INVARIANTS
  CloseIsGraceful
