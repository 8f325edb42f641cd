----------------------- MODULE ProtocolService_proofs -----------------------
(***************************************************************************)
(* The ledger promises hold of the service in every reachable state,        *)
(* whatever requests it is sent, a verified audit stays backed by the       *)
(* ledger, and a verified disclosure without repetition hides no turn.  The *)
(* inductive invariant is IInv.                                             *)
(***************************************************************************)
EXTENDS ProtocolService, TurnLedger_proofs, FiniteSetTheorems

IInv == /\ ledger \in Ledgers
        /\ LedgerInv(ledger)

LEMMA AuditRequestType ==
  ASSUME NEW q \in AuditRequests
  PROVE  /\ q.subgame \in Subgames
         /\ q.records \in Seq(Disclosures)
BY ServiceAssumption DEF AuditRequests

(* The ledger handlers keep IInv and only let the ledger grow; every other  *)
(* step leaves the ledger alone.                                            *)
LEMMA LedgerStep ==
  ASSUME IInv, [Next]_vars
  PROVE  IInv' /\ Extends(ledger, ledger')
<1> USE DEF IInv
<1>1. ASSUME NEW q \in CommitRequests, CommitTurn(q)
      PROVE  IInv' /\ Extends(ledger, ledger')
  BY <1>1, CommitType, CommitInv DEF CommitTurn
<1>2. ASSUME NEW q \in RevealRequests, RevealTurn(q)
      PROVE  IInv' /\ Extends(ledger, ledger')
  BY <1>2, RevealType, RevealInv DEF RevealTurn
<1>3. ASSUME NEW g \in Subgames, NEW s \in WireSteps, LocalTurn(g, s)
      PROVE  IInv' /\ Extends(ledger, ledger')
  BY <1>3, LocalTurnType, LocalTurnInv DEF LocalTurn
<1>4. ASSUME ledger' = ledger
      PROVE  IInv' /\ Extends(ledger, ledger')
  <2>1. ledger.completed_steps \in [Subgames \X Roles -> Nat]
    BY DEF Ledgers
  <2> QED BY <1>4, <2>1 DEF Extends
<1>5. ASSUME NEW q \in NegotiationRequests, Negotiate(q)
      PROVE  ledger' = ledger
  BY <1>5 DEF Negotiate
<1>6. ASSUME NEW q \in ClaimRequests, CaptureClaim(q)
      PROVE  ledger' = ledger
  BY <1>6 DEF CaptureClaim
<1>7. ASSUME NEW q \in ResultRequests, ProposeResult(q)
      PROVE  ledger' = ledger
  BY <1>7 DEF ProposeResult
<1>8. ASSUME NEW q \in AuditRequests, FinalAudit(q)
      PROVE  ledger' = ledger
  BY <1>8 DEF FinalAudit
<1>9. CASE UNCHANGED vars
  BY <1>9, <1>4 DEF vars
<1> QED BY <1>1, <1>2, <1>3, <1>4, <1>5, <1>6, <1>7, <1>8, <1>9 DEF Next

LEMMA IInvInvariant == Spec => []IInv
<1>1. Init => IInv
  BY EmptyLedgerInv DEF Init, IInv
<1>2. IInv /\ [Next]_vars => IInv'
  BY LedgerStep
<1> QED BY <1>1, <1>2, PTL DEF Spec

(* The ledger of the service keeps all its promises, whatever the requests. *)
THEOREM LedgerSoundHolds == Spec => []LedgerSound
<1>1. IInv => LedgerSound
  BY DEF IInv, LedgerSound
<1> QED BY <1>1, IInvInvariant, PTL

---------------------------------------------------------------------------
(* Type correctness of the whole service state.                             *)
THEOREM TypeCorrect == Spec => []TypeOK
<1>1. Init => TypeOK
  BY EmptyLedgerInv DEF Init, TypeOK
<1>2. ASSUME TypeOK, IInv, [Next]_vars
      PROVE  TypeOK'
  <2> USE <1>2 DEF TypeOK
  <2>1. (ledger \in Ledgers)'
    BY LedgerStep DEF IInv
  <2>2. ASSUME NEW q \in CommitRequests, CommitTurn(q)
        PROVE  TypeOK'
    BY <2>1, <2>2 DEF CommitTurn
  <2>3. ASSUME NEW q \in RevealRequests, RevealTurn(q)
        PROVE  TypeOK'
    BY <2>1, <2>3 DEF RevealTurn
  <2>4. ASSUME NEW g \in Subgames, NEW s \in WireSteps, LocalTurn(g, s)
        PROVE  TypeOK'
    BY <2>1, <2>4 DEF LocalTurn
  <2>5. ASSUME NEW q \in NegotiationRequests, Negotiate(q)
        PROVE  TypeOK'
    BY <2>1, <2>5 DEF Negotiate
  <2>6. ASSUME NEW q \in ClaimRequests, CaptureClaim(q)
        PROVE  TypeOK'
    BY <2>1, <2>6 DEF CaptureClaim
  <2>7. ASSUME NEW q \in ResultRequests, ProposeResult(q)
        PROVE  TypeOK'
    BY <2>1, <2>7 DEF ProposeResult
  <2>8. ASSUME NEW q \in AuditRequests, FinalAudit(q)
        PROVE  TypeOK'
    BY <2>1, <2>8, AuditRequestType DEF FinalAudit, AuditVerdict
  <2>9. CASE UNCHANGED vars
    BY <2>9 DEF vars
  <2> QED BY <2>2, <2>3, <2>4, <2>5, <2>6, <2>7, <2>8, <2>9 DEF Next
<1> QED BY <1>1, <1>2, IInvInvariant, PTL DEF Spec

(* A verdict "Verified OK" stays true of the ledger: what was judged then    *)
(* is still what the ledger holds, however many requests follow.            *)
THEOREM VerifiedStaysBackedHolds == Spec => []VerifiedStaysBacked
<1>1. Init => VerifiedStaysBacked
  BY ServiceAssumption DEF Init, VerifiedStaysBacked
<1>2. ASSUME TypeOK, IInv, VerifiedStaysBacked, [Next]_vars
      PROVE  VerifiedStaysBacked'
  <2> SUFFICES ASSUME NEW g \in Subgames, audit_results'[g] = VerifiedOK,
                      NEW i \in DOMAIN audit_records'[g]
               PROVE  /\ audit_records'[g][i].sealed
                      /\ Backed(ledger', g, audit_records'[g][i])
    BY DEF VerifiedStaysBacked
  <2>1. Extends(ledger, ledger')
    BY <1>2, LedgerStep
  <2>2. CASE /\ audit_records'[g] = audit_records[g]
             /\ audit_results'[g] = audit_results[g]
    <3>1. /\ audit_records[g][i].sealed
          /\ Backed(ledger, g, audit_records[g][i])
      BY <2>2, <1>2 DEF VerifiedStaysBacked
    <3> QED BY <3>1, <2>1, <2>2 DEF Backed, Relevant, Extends
  <2>3. ASSUME NEW q \in AuditRequests, FinalAudit(q)
        PROVE  /\ audit_records'[g][i].sealed
               /\ Backed(ledger', g, audit_records'[g][i])
    <3>1. CASE q.subgame = g
      <4>1. /\ audit_records'[g] = q.records
            /\ AuditVerdict(ledger, q) = VerifiedOK
            /\ ledger' = ledger
        BY <2>3, <3>1, <1>2 DEF FinalAudit, TypeOK
      <4>2. \A d \in {q.records[j] : j \in DOMAIN q.records} :
               d.sealed /\ Backed(ledger, q.subgame, d)
        BY <4>1 DEF AuditVerdict, VerifiedOK, Tampered
      <4> QED BY <4>1, <4>2, <3>1
    <3>2. CASE q.subgame # g
      BY <2>2, <2>3, <3>2, <1>2 DEF FinalAudit, TypeOK
    <3> QED BY <3>1, <3>2
  <2>4. CASE UNCHANGED <<audit_records, audit_results>>
    BY <2>2, <2>4
  <2> QED BY <2>3, <2>4, <1>2
          DEF Next, vars, CommitTurn, RevealTurn, LocalTurn, Negotiate,
              CaptureClaim, ProposeResult
<1> QED BY <1>1, <1>2, IInvInvariant, TypeCorrect, PTL DEF Spec

(* What the ledger holds, the first claim for a turn and the first proposal *)
(* of a group are never replaced.                                           *)
THEOREM AcknowledgedKeptHolds == Spec => AcknowledgedKept
<1> DEFINE ClaimsKept == \A k \in Keys :
             capture_claims[k] # None => capture_claims'[k] = capture_claims[k]
           ResultsKept == \A k \in DOMAIN result_proposals :
             result_proposals[k] # None => result_proposals'[k] = result_proposals[k]
<1>1. ASSUME TypeOK, IInv, [Next]_vars
      PROVE  Extends(ledger, ledger') /\ ClaimsKept /\ ResultsKept
  <2>1. ASSUME NEW q \in ClaimRequests, CaptureClaim(q)
        PROVE  ClaimsKept /\ ResultsKept
    BY <1>1, <2>1 DEF CaptureClaim, TypeOK
  <2>2. ASSUME NEW q \in ResultRequests, ProposeResult(q)
        PROVE  ClaimsKept /\ ResultsKept
    BY <1>1, <2>2 DEF ProposeResult, TypeOK
  <2>3. ASSUME UNCHANGED <<capture_claims, result_proposals>>
        PROVE  ClaimsKept /\ ResultsKept
    BY <2>3
  <2>4. ClaimsKept /\ ResultsKept
    BY <2>1, <2>2, <2>3, <1>1
       DEF Next, vars, CommitTurn, RevealTurn, LocalTurn, Negotiate, FinalAudit
  <2> QED BY <1>1, <2>4, LedgerStep
<1>2. (TypeOK /\ IInv /\ [Next]_vars)
        => [Extends(ledger, ledger') /\ ClaimsKept /\ ResultsKept]_vars
  BY <1>1
<1> QED BY <1>2, IInvInvariant, TypeCorrect, PTL DEF Spec, AcknowledgedKept
---------------------------------------------------------------------------
(* The turns of one subgame that a ledger holds are finitely many.          *)
LEMMA RelevantFinite ==
  ASSUME NEW l, NEW g
  PROVE  IsFiniteSet(Relevant(l, g))
<1> DEFINE Of(r) == {k \in Relevant(l, g) : k[3] = r}
<1>1. IsFiniteSet(WireSteps)
  BY LedgerAssumption, FS_Interval DEF WireSteps
<1>2. ASSUME NEW r \in Roles PROVE IsFiniteSet(Of(r))
  <2> DEFINE step == [k \in Of(r) |-> k[2]]
  <2>1. \A k \in Of(r) : k[2] \in WireSteps /\ k = <<g, k[2], r>>
    BY DEF Relevant, Keys
  <2>2. step \in Injection(Of(r), WireSteps)
    BY <2>1 DEF Injection, IsInjective
  <2> QED BY <1>1, <2>2, FS_Injection
<1>3. Relevant(l, g) = Of(Thief) \cup Of(Police)
  BY DEF Relevant, Keys, Roles
<1> QED BY <1>2, <1>3, FS_Union DEF Roles

(* As many different turns as the ledger holds, all of them held, are all   *)
(* of them.                                                                 *)
LEMMA VerifiedIsComplete ==
  ASSUME NEW l, NEW q \in AuditRequests,
         AuditVerdict(l, q) = VerifiedOK, ~Repeated(q.records)
  PROVE  {Disclosed(q.records[i]) : i \in DOMAIN q.records} = Relevant(l, q.subgame)
<1> DEFINE R == Relevant(l, q.subgame)
           n == Len(q.records)
           f == [i \in 1 .. n |-> Disclosed(q.records[i])]
<1>1. /\ n = Cardinality(R)
      /\ \A d \in {q.records[i] : i \in DOMAIN q.records} : Disclosed(d) \in R
  BY DEF AuditVerdict, Backed, VerifiedOK, Tampered
<1>2. n \in Nat /\ DOMAIN q.records = 1 .. n
  BY AuditRequestType
<1>3. f \in Injection(1 .. n, R)
  <2>1. f \in [1 .. n -> R]
    BY <1>1, <1>2
  <2>2. \A i, j \in 1 .. n : f[i] = f[j] => i = j
    BY <1>2 DEF Repeated
  <2> QED BY <2>1, <2>2 DEF Injection, IsInjective
<1>4. Cardinality(1 .. n) = n
  BY <1>2, FS_Interval
<1>5. f \in Surjection(1 .. n, R)
  BY <1>1, <1>3, <1>4, RelevantFinite, FS_Injection
<1> QED BY <1>1, <1>2, <1>5 DEF Surjection

(* A disclosure that passes the service and the reconstruction names every  *)
(* turn the Thief has on record, each once.                                 *)
THEOREM NothingHiddenHolds == Spec => NothingHidden
<1> DEFINE Complete(g) ==
       LET records == audit_records'[g] IN
       /\ records \notin {None, audit_records[g]}
       /\ audit_results'[g] = VerifiedOK
       /\ ~Repeated(records)
       => {Disclosed(records[i]) : i \in DOMAIN records} = Relevant(ledger, g)
<1>1. ASSUME TypeOK, [Next]_vars, NEW g \in Subgames
      PROVE  Complete(g)
  <2>1. ASSUME NEW q \in AuditRequests, FinalAudit(q), q.subgame = g,
               audit_results'[g] = VerifiedOK, ~Repeated(audit_records'[g])
        PROVE  {Disclosed(audit_records'[g][i]) : i \in DOMAIN audit_records'[g]}
                 = Relevant(ledger, g)
    <3>1. audit_records'[g] = q.records /\ AuditVerdict(ledger, q) = VerifiedOK
      BY <1>1, <2>1 DEF FinalAudit, TypeOK
    <3> QED BY <2>1, <3>1, VerifiedIsComplete
  <2>2. ASSUME NEW q \in AuditRequests, FinalAudit(q), q.subgame # g
        PROVE  audit_records'[g] = audit_records[g]
    BY <1>1, <2>2 DEF FinalAudit, TypeOK
  <2>3. CASE UNCHANGED audit_records
    BY <2>3
  <2> QED BY <2>1, <2>2, <2>3, <1>1
          DEF Next, vars, CommitTurn, RevealTurn, LocalTurn, Negotiate,
              CaptureClaim, ProposeResult
<1>2. TypeOK /\ [Next]_vars => [\A g \in Subgames : Complete(g)]_vars
  BY <1>1
<1> QED BY <1>2, TypeCorrect, PTL DEF Spec, NothingHidden
===========================================================================
