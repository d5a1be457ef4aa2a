SPECIFICATION FairSpec
CONSTANTS
  NoToken = NoToken
  NoConn = NoConn
  Machines = {m1}
  Tokens = {k1}
  Conns = {c1, c2, c3}
  MaxStarts = 2
  MaxFaults = 1
  MaxUnsaved = 1
PROPERTY NodeComesBack
CHECK_DEADLOCK FALSE
