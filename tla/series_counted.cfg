\* A counted series of six subgames with the declaration both peers agreed on.
SPECIFICATION Spec
CONSTANTS
  None = None
  t1 = t1
  t2 = t2
  Coordinator = "thief"
  Games = 6
  Counted = TRUE
  Anchors = {t1, t2}
  Declared <- BothDeclare
  Configs = {"c1"}
  Outcomes = {"survival"}
PROPERTIES AgreedDeclarationAccepted
CHECK_DEADLOCK FALSE
