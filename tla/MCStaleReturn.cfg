SPECIFICATION ShortcutSpec
CONSTANTS
  u1 = u1
  u2 = u2
  v1 = v1
  v2 = v2
  a1 = a1
  a2 = a2
  Unbound = Unbound
  Users = {u1, u2}
  Vehicles = {v1}
  Devices = {1}
  Owner <- SecondUserDevice
  Acquisitions = {a1, a2}
  OperationId <- Operation
  EventIds = {1, 2, 3, 4, 5, 6, 8, 9, 10, 11}
  NativeIds = {1}
  Window = 2
  Skew = 1
  LastInstant = 4
  MaxReplayEvents = 9
  MaxCheckpointRows = 9
  MaxAccepted = 4
  MaxRefused = 0
  Administration = {}
CONSTRAINT FewReceipts
ACTION_CONSTRAINTS Configured PhonesUnbound
INVARIANTS
  NewerAcquisitionKept
CHECK_DEADLOCK FALSE
