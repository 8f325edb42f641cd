\* Imprisonment by the Police body first, a barrier on the Thief later.
SPECIFICATION Spec
CONSTANTS
  Height = 3
  Width = 3
  Capacity = 3
  Threshold = 6
  MaxSteps = 6
  ThiefStart <- Corner
  PoliceStart <- FarCorner
INVARIANTS FinalStateShown
CHECK_DEADLOCK FALSE
