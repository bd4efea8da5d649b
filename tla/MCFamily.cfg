SPECIFICATION Spec
CONSTANTS
  i1 = i1
  i2 = i2
  f1 = f1
  f2 = f2
  c1 = c1
  c2 = c2
  n1 = n1
  Nil = Nil
  Identities = {i1, i2}
  Families = {f1, f2}
  Names = {n1}
  Codes = {c1, c2}
  Places = {1, 2, 3}
  Near <- Street
  MaxTries = 2
  LockTime = 2
  OfferTime = 1
SYMMETRY Alike
INVARIANTS
  TypeOK
  Governed
  FamiliesApart
  CodesRecorded
  JoinersBound
  GuessesLimited
  ErasedLeavesNothing
PROPERTIES
  StaleCodeAdmitsNobody
CHECK_DEADLOCK FALSE
