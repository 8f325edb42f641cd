\* Three invocations, two of the same result, one of them a dry run of another.
SPECIFICATION Spec
CONSTANTS
  p1 = p1
  p2 = p2
  p3 = p3
  Invocations = {p1, p2, p3}
  Digest <- Attachments
  DryRun = {p3}
  Limit = 1
  Retries = 1
  Days = 2
INVARIANTS TypeOK RecordedWasDelivered AdmittedWithinLimit ResentOnlyAfterLoss
CHECK_DEADLOCK FALSE
