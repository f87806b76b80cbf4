CONSTANTS
  Lens = {8, 9, 16}
  MaxAppends = 4
  MaxTears = 2
SPECIFICATION Spec
INVARIANTS IntactPrefix InOrder
PROPERTY ReplayStable
CHECK_DEADLOCK FALSE
