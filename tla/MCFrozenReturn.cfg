SPECIFICATION Spec
CONSTANTS
  Users = {u1, u2}
  Vehicles = {v1}
  Sources = {0, 1}
  MaxTime = 2
  MaxEvents = 5
SYMMETRY Symmetry
INVARIANTS
  FrozenReturnIsNoop
CHECK_DEADLOCK FALSE
