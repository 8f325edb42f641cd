------------------------- MODULE MCProtocolService -------------------------
(* Instances of ProtocolService for TLC.                                    *)
EXTENDS ProtocolService, TLC

CONSTANTS h1, h2, e1, e2, m1, m2

\* What the Police could disclose of its turns to the Thief: a reveal over the
\* commitment h1, correctly sealed, or the first turn with a wrong opening.
PoliceDisclosures ==
  {d \in AuditRecords : /\ d.role = Police
                        /\ d.step > 0
                        /\ d.reveal.turn_token = Thief
                        /\ d.reveal.commitment = h1
                        /\ d.sealed \/ d.step = 1}

PoliceOnly == {Police}

\* Payloads and message contents are only compared for equality.
Payloads == Permutations({e1, e2}) \cup Permutations({m1, m2})

\* Negotiation, claims and results share no state with one another or with the
\* ledger: at most two of their entries are filled at a time.
FewEntries ==
  Cardinality({k \in Keys : capture_claims[k] # None})
  + Cardinality({k \in DOMAIN result_proposals : result_proposals[k] # None})
  + (IF negotiation = None THEN 0 ELSE 1) <= 2
===========================================================================
