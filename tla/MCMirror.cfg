\* One family of services at a time over two pools, two users, two handlers or
\* endpoints in flight and three events.
SPECIFICATION Spec
CONSTANTS
  PoolCount = 2
  Users = {alice, bob}
  Amounts <- MCAmounts
  Jobs = {j1, j2}
  MaxLog = 3
  Families = {"vault", "registry", "reward", "oracle", "yield"}
  WeightArrays <- MCWeightArrays
  Limits <- MCLimits
  Rates <- MCRates
SYMMETRY MCSymmetry
INVARIANTS SerialMirror RacedMirror
CHECK_DEADLOCK FALSE
