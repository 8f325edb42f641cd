\* Two subgames, two possible anchors, outcomes and configurations.
SPECIFICATION Spec
CONSTANTS
  None = None
  t1 = t1
  t2 = t2
  Coordinator = "police"
  Games = 2
  Counted = FALSE
  Anchors = {t1, t2}
  Declared <- ThiefDeclares
  Configs = {"c1", "c2"}
  Outcomes = {"capture", "survival"}
INVARIANTS TypeOK OneSeries ResultConfirmed RepeatsAccepted
PROPERTIES SeriesEnds
CHECK_DEADLOCK FALSE
