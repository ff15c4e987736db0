CONSTANTS
  Slots = {c1, c2}
  Emails = {e1, e2}
  Links = {}
  Challenges = {k1, k2}
  Sessions = {s1, s2, s3}
  None = None
  MaxExpired = 0
  MaxFaults = 0
SPECIFICATION Spec
SYMMETRY Ids
CHECK_DEADLOCK FALSE
INVARIANTS
  ChallengeOpensOnce
  PasskeyOfItsChallenge
