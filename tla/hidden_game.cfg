\* 3x3 board, three barriers, survival at the sixth step.
SPECIFICATION Spec
CONSTANTS
  Height = 3
  Width = 3
  Capacity = 3
  Threshold = 6
  MaxSteps = 6
  ThiefStart <- Corner
  PoliceStart <- FarCorner
INVARIANTS TypeOK LiveTracksObjective PublicEndProven ImplementationsAgree BeliefCoversUnmasked
CHECK_DEADLOCK FALSE
