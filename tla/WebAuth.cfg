CONSTANTS
  Processes = {p1}
  UserIds = {u1, u2}
  Emails = {e1, e2}
  Links = {l1}
  Challenges = {k1}
  States = {}
  Slots = {c1, c2}
  None = None
  MaxLoads = 2
  MaxFaults = 1
  MaxExpired = 0
SPECIFICATION Spec
SYMMETRY Ids
CHECK_DEADLOCK FALSE
INVARIANTS
  TypeOK
  OneUserPerEmail
  MembersHaveAccounts
  SpentWithItsSession
  ReplayTakesAFault
  SessionsSurvive
  LostLinks
