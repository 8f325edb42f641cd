\* The shipped limits in units of 2.5 seconds, one failing attempt of each call.
SPECIFICATION Spec
CONSTANTS
  Turns = 2
  Timeout = 12
  RetryDelay = 2
  Retries = 3
  Watchdog = 24
  Think = 1
  Reply = 1
  Failing = 2
  Losses = 1
INVARIANTS TypeOK NobodyGivesUp CheckpointSound SurvivorEnds NoVainWait
PROPERTIES Completes
CHECK_DEADLOCK FALSE
