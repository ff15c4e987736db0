CONSTANTS
  a1 = a1
  a2 = a2
  Workers = {w1}
  Accounts = {a1, a2}
  MatrixEvents = {1, 2, 3}
  FlushlineEvents = {4, 5, 6}
  AccountOf <- MCOwners
  BatchLimit = 2
  MaxFaults = 2

SPECIFICATION Spec
INVARIANTS TypeOK NoDuplicateSpawn QualifiedHasFreeAccount
PROPERTY ImplementsSaga
