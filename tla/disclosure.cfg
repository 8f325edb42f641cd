\* 2x3 board, two barriers, survival at the fourth step: seven records.
SPECIFICATION Spec
CONSTANTS
  Height = 2
  Width = 3
  Capacity = 2
  Threshold = 4
  ThiefStart <- Corner
  PoliceStart <- FarCorner
INVARIANTS HonestAccepted AlteredRefused PathsBound AcceptedVerifies
CHECK_DEADLOCK FALSE
