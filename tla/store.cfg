\* Two slaves and one script; two names and addresses; one fault of the disk.
SPECIFICATION Spec
CONSTANTS
  i1 = i1
  i2 = i2
  b1 = b1
  b2 = b2
  n1 = n1
  n2 = n2
  h1 = h1
  h2 = h2
  SlaveId = {i1, i2}
  BatId = {b1}
  Name = {n1, n2}
  Host = {h1, h2}
  Registry = {"toggle"}
  OwnScript = {"own"}
  Everyone = Everyone
  Absent = Absent
  Nobody = Nobody
  MaxQueue = 1
  MaxFaults = 1
SYMMETRY Symmetric
INVARIANTS
  RegisteredOnce
  RemovedStaysGone
PROPERTIES
  PromiseSpec
CHECK_DEADLOCK FALSE
