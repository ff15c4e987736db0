CONSTANTS
  a1 = a1
  a2 = a2
  Workers = {w1, w2}
  Accounts = {a1, a2}
  MatrixEvents = {1}
  FlushlineEvents = {4}
  AccountOf <- MCOwners
  BatchLimit = 2
  MaxFaults = 0

SPECIFICATION Spec
INVARIANT QualifiedHasFreeAccount
