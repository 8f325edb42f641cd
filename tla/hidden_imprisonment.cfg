\* The Thief starts in a corner whose neighbour is the Police start cell.
SPECIFICATION Spec
CONSTANTS
  Height = 3
  Width = 3
  Capacity = 3
  Threshold = 4
  MaxSteps = 4
  ThiefStart <- Corner
  PoliceStart <- BesideCorner
INVARIANTS ImprisonmentProven
CHECK_DEADLOCK FALSE
