\* Two steps and one subgame: turns, claims, results, negotiation and audits of
\* the Police, duplicated, conflicting and out of order.
SPECIFICATION Spec
CONSTANTS
  None = None
  h1 = h1
  h2 = h2
  e1 = e1
  e2 = e2
  m1 = m1
  m2 = m2
  Subgames = {1}
  MaxStep = 2
  Hashes = {h1, h2}
  Evidence = {e1, e2}
  Senders <- PoliceOnly
  Messages = {m1, m2}
  Disclosures <- PoliceDisclosures
  MaxRecords = 2
  Groups = {"police-group"}
SYMMETRY Payloads
CONSTRAINT FewEntries
INVARIANTS TypeOK LedgerSound VerifiedStaysBacked
PROPERTIES AcknowledgedKept NothingHidden
CHECK_DEADLOCK FALSE
