SPECIFICATION Spec
CONSTANTS
  u1 = u1
  u2 = u2
  u3 = u3
  v1 = v1
  v2 = v2
  Users = {u1, u2}
  Vehicles = {v1, v2}
  Devices = {1, 2}
  Owner <- OneDeviceEach
  EventIds = {1, 2, 3}
  NativeIds = {1, 2, 3}
  Window = 2
  Skew = 0
  LastInstant = 4
  MaxReplayEvents = 2
  MaxCheckpointRows = 1
  MaxAccepted = 4
  MaxRefused = 1
  Arrivals <- ThreeArrivals
  Administration = {"erase", "revoke"}
SYMMETRY VehicleSymmetry
CONSTRAINT FewReceipts
ACTION_CONSTRAINTS Configured Arriving
INVARIANTS
  LogComplete
  NeverRaises
  CausallyOrdered
PROPERTIES
  EvidencePermanent
  ImplementsHistory
CHECK_DEADLOCK FALSE
