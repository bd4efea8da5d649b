SPECIFICATION Spec
CONSTANTS
  k1 = k1
  k2 = k2
  v1 = v1
  v2 = v2
  r1 = r1
  r2 = r2
  NoVehicle = NoVehicle
  Nil = Nil
  Clients = {k1, k2}
  Users = {1, 2}
  Family = 2
  MaxId = 2
  Vehicles = {v1, v2}
  Reservations = {r1, r2}
  LastTime = 2
SYMMETRY Alike
INVARIANTS
  TypeOK
  NoDoubleBooking
  NobodyBlocked
PROPERTIES
  RetiredNotNewlyBooked
CHECK_DEADLOCK FALSE
