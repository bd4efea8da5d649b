SPECIFICATION Spec
CONSTANTS
  u1 = u1
  u2 = u2
  u3 = u3
  v1 = v1
  v2 = v2
  Users = {u1}
  Vehicles = {v1, v2}
  Devices = {1, 2}
  Owner <- TwoDevicesOneUser
  EventIds = {1, 2, 3, 4}
  NativeIds = {1, 2, 3, 4}
  Window = 2
  Skew = 0
  LastInstant = 3
  MaxReplayEvents = 9
  MaxCheckpointRows = 9
  MaxAccepted = 4
  MaxRefused = 0
  Arrivals <- FourArrivals
  Administration = {"retire"}
SYMMETRY VehicleSymmetry
CONSTRAINT FewReceipts
ACTION_CONSTRAINTS Configured Arriving
INVARIANTS
  RetiredNotInUse
  AnchorsResolve
PROPERTIES
  ImplementsHistory
CHECK_DEADLOCK FALSE
