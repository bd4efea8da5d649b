SPECIFICATION ShortcutSpec
CONSTANTS
  u1 = u1
  u2 = u2
  v1 = v1
  v2 = v2
  a1 = a1
  a2 = a2
  Unbound = Unbound
  Users = {u1, u2}
  Vehicles = {v1, v2}
  Devices = {1}
  Owner <- SecondUserDevice
  Acquisitions = {a1, a2}
  OperationId <- Operation
  EventIds = {1, 2, 3, 4, 5, 6, 8, 9, 10, 11}
  NativeIds = {6}
  Window = 1
  Skew = 0
  LastInstant = 3
  MaxReplayEvents = 9
  MaxCheckpointRows = 9
  MaxAccepted = 3
  MaxRefused = 0
  Administration = {"retire", "revoke", "erase"}
SYMMETRY VehicleSymmetry
CONSTRAINT FewReceipts
ACTION_CONSTRAINT Configured
INVARIANTS
  NeverRaises
PROPERTIES
  OpenAcquisitionSpared
CHECK_DEADLOCK FALSE
