SPECIFICATION Spec
CONSTANTS
  NBlock = 4
  barrier = barrier
  new = new
  None = None
  Barrier <- Barriers
  New <- News
  Placement <- Placements
INVARIANTS TypeOK WalkStopsInTree Verdict ReplacedOnce
CHECK_DEADLOCK FALSE
