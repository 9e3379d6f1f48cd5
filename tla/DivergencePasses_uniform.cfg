SPECIFICATION Spec
CONSTANTS
  NBlock = 4
  barrier = barrier
  new = new
  None = None
  Barrier <- Barriers
  New <- News
  Placement <- Placements
INVARIANT UniformBarriers
CHECK_DEADLOCK FALSE
