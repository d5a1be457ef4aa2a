SPECIFICATION Spec
CONSTANTS
  NoToken = NoToken
  NoConn = NoConn
  Machines = {m1, m2}
  Tokens = {k1, k2}
  Conns = {c1, c2}
  MaxStarts = 2
  MaxFaults = 1
  MaxUnsaved = 1
INVARIANTS TypeOK TokenOnce  TablesAreServed
CHECK_DEADLOCK FALSE
