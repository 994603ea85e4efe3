\* Every batch of at most 4 files under every budget up to 7.
CONSTANTS
  MaxBudget = 7
  MaxFiles = 4
SPECIFICATION Spec
INVARIANTS
  PlanIsSound
  RebalanceIsSound
CHECK_DEADLOCK FALSE
