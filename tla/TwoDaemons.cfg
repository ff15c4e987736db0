CONSTANTS
  a1 = a1
  a2 = a2
  Workers = {w1, w2}
  Accounts = {a1, a2}
  MatrixEvents = {1, 3}
  FlushlineEvents = {4, 5}
  AccountOf <- MCOwners
  BatchLimit = 2
  MaxFaults = 1

SPECIFICATION Spec
SYMMETRY WorkerSymmetry
INVARIANTS ExactlyOnce ProcessedTookEffect SpawnIsEarned
