CONSTANTS
  d = d
  a1 = a1
  a2 = a2
  a3 = a3
  Accounts <- MCAccounts
  Pool <- MCPool
  MatrixSize = 2
  SponsorCap = 1
  AwardInputs = {6, 30}
  Half = 64
  MaxPoints = 0
  MaxSignUps = 3
  MaxCrashes = 0
SPECIFICATION Spec
SYMMETRY NewIds
CHECK_DEADLOCK FALSE
INVARIANT FreeAccountIsPlaced
