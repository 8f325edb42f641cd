\* Two steps, survival at the second, one retry per call.
SPECIFICATION Spec
CONSTANTS
  None = None
  h1 = h1
  h2 = h2
  Subgames = {1}
  Subgame = 1
  MaxStep = 2
  Threshold = 2
  Hashes = {h1, h2}
  Evidence = {"public"}
  SealOf <- OwnSeals
  Retries = 1
INVARIANTS TypeOK OneTokenHolder InFlightAccepted CopiesFaithful FinishedMeansAgreed
PROPERTIES ImplementsAlternatingLog Terminates
CHECK_DEADLOCK FALSE
