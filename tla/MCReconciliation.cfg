SPECIFICATION Spec
CONSTANTS
  Users = {u1, u2}
  Vehicles = {v1, v2}
  Sources = {0, 1}
  MaxTime = 2
  MaxEvents = 4
SYMMETRY Symmetry
INVARIANTS
  EngineMatchesHistory
  Disjoint
  CheckpointTransparent
CHECK_DEADLOCK FALSE
