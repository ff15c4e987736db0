CONSTANTS
  a1 = a1
  a2 = a2
  Workers = {w1, w2}
  Accounts = {a1, a2}
  MatrixEvents = {1, 3}
  FlushlineEvents = {4}
  AccountOf <- MCOwners
  BatchLimit = 2
  MaxFaults = 1

SPECIFICATION FairSpec
PROPERTIES EventuallyProcessed ClosedPoolHoldsUpNobodyElse
