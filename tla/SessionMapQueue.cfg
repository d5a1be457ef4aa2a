SPECIFICATION Spec
CONSTANTS
  c1 = c1
  w1 = w1
  s1 = s1
  s2 = s2
  t1 = t1
  t2 = t2
  NoKey = NoKey
  NoSid = NoSid
  Chats = {c1}
  Webs = {}
  Sids = {s1}
  Tasks = {t1, t2}
  MaxPending = 2
  Capacity = 4
  MaxId = 3
  MaxCrash = 1
SYMMETRY Symmetry
INVARIANTS TypeOK Accounted AnswerIsTrue SpawnHasTask
