CONSTANTS
  google = google
  facebook = facebook
  microsoft = microsoft
  x = x
  y = y
  e1 = e1
  e2 = e2
  Providers = {google, facebook}
  Facebook = facebook
  Microsoft = microsoft
  Subjects = {x, y}
  EmailOf <- MCEmailOf
  VerifiedOf <- MCVerifiedOf
  Emails = {e1, e2}
  UserIds = {u1, u2}
  Browsers = {b1}
  States = {t1, t2}
  Codes = {k1, k2}
  Slots = {c1, c2}
  None = None
  MaxFaults = 1
SPECIFICATION Spec
SYMMETRY Ids
CHECK_DEADLOCK FALSE
INVARIANTS
  TypeOK
  IdentityOfOneUser
  OneIdentityPerProvider
  OneUserPerEmail
  StateOpensOnce
  SessionOwnsIdentity
