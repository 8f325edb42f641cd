\* The same instance: an illegal record in the log.
SPECIFICATION Spec
CONSTANTS
  Height = 2
  Width = 3
  Capacity = 2
  Threshold = 4
  ThiefStart <- Corner
  PoliceStart <- FarCorner
INVARIANTS IllegalTampered
CHECK_DEADLOCK FALSE
