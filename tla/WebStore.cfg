CONSTANTS
  Processes = {p1, p2}
  UserIds = {u1}
  Emails = {e1, e2}
  Links = {l1}
  Challenges = {}
  States = {t1}
  Slots = {c1}
  None = None
  MaxLoads = 3
  MaxFaults = 1
  MaxExpired = 1
SPECIFICATION Spec
SYMMETRY Ids
CHECK_DEADLOCK FALSE
INVARIANTS
  EachUseTakesALoad
