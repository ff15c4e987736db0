CONSTANTS
  Slots = {c1, c2}
  Emails = {e1, e2}
  Links = {l1, l2}
  Challenges = {}
  Sessions = {s1, s2}
  None = None
  MaxExpired = 1
  MaxFaults = 1
SPECIFICATION Spec
SYMMETRY Ids
CHECK_DEADLOCK FALSE
INVARIANTS
  TypeOK
  SessionsBelong
  LinkOpensOnce
  LinksLost
PROPERTIES
  OnlyOwnSessionsRevoked
  PasswordsOnlyAtRegistration
