SPECIFICATION Spec
CONSTANTS
  c1 = c1
  w1 = w1
  s1 = s1
  s2 = s2
  t1 = t1
  t2 = t2
  NoKey = NoKey
  NoSid = NoSid
  Chats = {c1}
  Webs = {w1}
  Sids = {s1, s2}
  Tasks = {t1}
  MaxPending = 1
  Capacity = 3
  MaxId = 2
  MaxCrash = 1
SYMMETRY Symmetry
INVARIANTS RowsMatch ClosedStaysClosed
 
