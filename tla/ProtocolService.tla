-------------------------- MODULE ProtocolService --------------------------
(***************************************************************************)
(* protocol/service.py: the Thief's ProtocolService, the state behind the   *)
(* FastMCP tools of network/server.py.  One action per tool that changes    *)
(* state, each run to its end (a handler has no await), and the one direct  *)
(* write to the ledger the game loop makes (runtime/game.py:77).            *)
(*                                                                         *)
(* Requests arrive in any order, any number of times: a retry of the peer's *)
(* gatekeeper sends the same request again, and a request overtaken by its  *)
(* own retry is delivered late.  A request the handler refuses (ValueError) *)
(* changes nothing, so it is the absence of a step.  health reads only.     *)
(***************************************************************************)
EXTENDS TurnLedger, FiniteSets, Sequences

CONSTANTS Senders,      \* roles that envelopes name as their sender
          Messages,     \* whole-request contents (message id, reason, digest...)
          Disclosures,  \* audit records a FinalAuditRequest may carry
          MaxRecords,   \* bound on the number of records in one request
          Groups        \* group ids that occur in result proposals

\* An AuditRecord pairs a disclosure with its reveal.  sealed: the record
\* passes verify_audit (the commitment opens to the disclosure, whose heatmap,
\* hint, token and barrier are the revealed ones).
AuditRecords == [subgame : Subgames, step : WireSteps, role : Roles,
                 reveal : Reveals, sealed : BOOLEAN]

VerifiedOK == "Verified OK"
Tampered   == "TAMPERED"

ASSUME ServiceAssumption == /\ Senders \subseteq Roles
                            /\ Disclosures \subseteq AuditRecords
                            /\ MaxRecords \in Nat
                            /\ None \notin {VerifiedOK, Tampered}

Phases == {"subgame", "series"}
ClaimRequests == [message : Messages, subgame : Subgames, step : WireSteps,
                  sender : Senders]
ResultRequests == [message : Messages, phase : Phases, subgame : Subgames,
                   group : Groups]
\* sound: a counted series has six subgames, which is all negotiate() tests.
NegotiationRequests == [message : Messages, sound : BOOLEAN]
AuditRequests == [subgame : Subgames,
                  records : UNION {[1 .. n -> Disclosures] : n \in 0 .. MaxRecords}]

ClaimKey(q)  == <<q.subgame, q.step, q.sender>>
ResultKey(q) == <<q.phase, q.subgame, q.group>>

VARIABLES ledger,            \* TurnLedger
          negotiation,       \* the last accepted NegotiationRequest
          capture_claims,    \* claim requests by turn and sender
          audit_records,     \* records of the opponent's final disclosure
          audit_results,     \* the verdict on them
          result_proposals   \* result requests by phase, subgame and group

vars == <<ledger, negotiation, capture_claims, audit_records, audit_results,
          result_proposals>>

TypeOK ==
  /\ ledger \in Ledgers
  /\ negotiation \in NegotiationRequests \cup {None}
  /\ capture_claims \in [Keys -> ClaimRequests \cup {None}]
  /\ audit_records \in [Subgames -> Seq(Disclosures) \cup {None}]
  /\ audit_results \in [Subgames -> {VerifiedOK, Tampered, None}]
  /\ result_proposals \in [Phases \X Subgames \X Groups -> ResultRequests \cup {None}]

Init ==
  /\ ledger = EmptyLedger
  /\ negotiation = None
  /\ capture_claims = [k \in Keys |-> None]
  /\ audit_records = [g \in Subgames |-> None]
  /\ audit_results = [g \in Subgames |-> None]
  /\ result_proposals = [k \in Phases \X Subgames \X Groups |-> None]
---------------------------------------------------------------------------
(* The ledger-facing handlers.                                             *)

CommitTurn(q) ==
  /\ RecordCommitOK(ledger, q)
  /\ ledger' = RecordCommit(ledger, q)
  /\ UNCHANGED <<negotiation, capture_claims, audit_records, audit_results,
                 result_proposals>>

RevealTurn(q) ==
  /\ RecordRevealOK(ledger, q)
  /\ ledger' = RecordReveal(ledger, q)
  /\ UNCHANGED <<negotiation, capture_claims, audit_records, audit_results,
                 result_proposals>>

\* The game loop marks its own turn as sent and gives the token away.
LocalTurn(g, s) ==
  /\ CompleteLocalTurnOK(ledger, g, s, Thief, Police)
  /\ ledger' = CompleteLocalTurn(ledger, g, s, Thief, Police)
  /\ UNCHANGED <<negotiation, capture_claims, audit_records, audit_results,
                 result_proposals>>
---------------------------------------------------------------------------
(* The other handlers.                                                     *)

\* The proposal replaces any earlier one when it is accepted.
Negotiate(q) ==
  /\ q.sound
  /\ negotiation' = q
  /\ UNCHANGED <<ledger, capture_claims, audit_records, audit_results,
                 result_proposals>>

\* A later claim for the turn replaces the first.
CaptureClaimFaulty(q) ==
  /\ capture_claims' = [capture_claims EXCEPT ![ClaimKey(q)] = q]
  /\ UNCHANGED <<ledger, negotiation, audit_records, audit_results,
                 result_proposals>>

CaptureClaim(q) ==
  /\ capture_claims[ClaimKey(q)] \in {None, q}
  /\ capture_claims' = [capture_claims EXCEPT ![ClaimKey(q)] = q]
  /\ UNCHANGED <<ledger, negotiation, audit_records, audit_results,
                 result_proposals>>

ProposeResult(q) ==
  /\ result_proposals[ResultKey(q)] \in {None, q}
  /\ result_proposals' = [result_proposals EXCEPT ![ResultKey(q)] = q]
  /\ UNCHANGED <<ledger, negotiation, capture_claims, audit_records, audit_results>>

\* The reveals of one subgame that the ledger holds, whoever sent them.
Relevant(l, g) == {k \in Keys : k[1] = g /\ l.reveals[k] # None}

Disclosed(d) == <<d.subgame, d.step, d.role>>

Backed(l, g, d) == /\ Disclosed(d) \in Relevant(l, g)
                   /\ l.reveals[Disclosed(d)] = d.reveal

\* Only the number of records is compared with the ledger.
AuditVerdictFaulty(l, q) ==
  IF /\ \A i \in DOMAIN q.records : q.records[i].sealed
     /\ Len(q.records) = Cardinality(Relevant(l, q.subgame))
    THEN VerifiedOK
    ELSE Tampered

\* Records may be missing.
AuditVerdictShortFaulty(l, q) ==
  LET records == {q.records[i] : i \in DOMAIN q.records}
  IN  IF \A d \in records : d.sealed /\ Backed(l, q.subgame, d)
        THEN VerifiedOK
        ELSE Tampered

AuditVerdict(l, q) ==
  LET records == {q.records[i] : i \in DOMAIN q.records}
  IN  IF /\ \A d \in records : d.sealed
         /\ Len(q.records) = Cardinality(Relevant(l, q.subgame))
         /\ \A d \in records : Backed(l, q.subgame, d)
        THEN VerifiedOK
        ELSE Tampered

\* A refused audit is stored under a status that is not in the protocol.
FinalAuditFaulty(q) ==
  /\ audit_records' = [audit_records EXCEPT ![q.subgame] = q.records]
  /\ audit_results' = [audit_results EXCEPT ![q.subgame] =
        IF AuditVerdict(ledger, q) = Tampered THEN "REJECTED" ELSE VerifiedOK]
  /\ UNCHANGED <<ledger, negotiation, capture_claims, result_proposals>>

\* Both verdicts are stored, and answered; neither is an error.
FinalAudit(q) ==
  /\ audit_records' = [audit_records EXCEPT ![q.subgame] = q.records]
  /\ audit_results' = [audit_results EXCEPT ![q.subgame] = AuditVerdict(ledger, q)]
  /\ UNCHANGED <<ledger, negotiation, capture_claims, result_proposals>>

Next ==
  \/ \E q \in CommitRequests : q.sender \in Senders /\ CommitTurn(q)
  \/ \E q \in RevealRequests : q.sender \in Senders /\ RevealTurn(q)
  \/ \E g \in Subgames, s \in WireSteps : LocalTurn(g, s)
  \/ \E q \in NegotiationRequests : Negotiate(q)
  \/ \E q \in ClaimRequests : CaptureClaim(q)
  \/ \E q \in ResultRequests : ProposeResult(q)
  \/ \E q \in AuditRequests : FinalAudit(q)

Spec == Init /\ [][Next]_vars
---------------------------------------------------------------------------
(* The ledger stays consistent whatever requests arrive, in whatever order  *)
(* and however often: the token alternates, no commitment waits in it for a *)
(* later step, a reveal opens the commitment of its turn and passes the     *)
(* token, and the record of the Police has no missing step                  *)
(* (ledger.py:29-99, service.py:103).                                       *)
LedgerSound == LedgerInv(ledger)

(* A disclosure that was verified stays verifiable: every record accepted   *)
(* by an audit is one the ledger still holds, however many requests come    *)
(* after the verdict the game loop waits for (service.py:99-110).           *)
VerifiedStaysBacked ==
  \A g \in Subgames : audit_results[g] = VerifiedOK =>
     \A i \in DOMAIN audit_records[g] :
        /\ audit_records[g][i].sealed
        /\ Backed(ledger, g, audit_records[g][i])

Repeated(records) == \E i, j \in DOMAIN records :
                        i # j /\ Disclosed(records[i]) = Disclosed(records[j])

(* No turn is hidden by a disclosure that names another one twice: the      *)
(* service counts the records, the reconstruction refuses a repeated turn   *)
(* (audit_replay.py:53-56), and what passes both discloses exactly the      *)
(* turns the ledger holds (service.py:99-110).                              *)
NothingHidden ==
  [][\A g \in Subgames :
       LET records == audit_records'[g] IN
       /\ records \notin {None, audit_records[g]}
       /\ audit_results'[g] = VerifiedOK
       /\ ~Repeated(records)
       => {Disclosed(records[i]) : i \in DOMAIN records} = Relevant(ledger, g)]_vars

(* Nothing acknowledged is replaced or lost by a duplicate, a conflicting   *)
(* or a late request: what the ledger holds, the first claim for a turn, the*)
(* first result a group proposes (ledger.py:52-99, service.py:87-90,        *)
(* 117-120).                                                                *)
AcknowledgedKept ==
  [][/\ Extends(ledger, ledger')
     /\ \A k \in Keys : capture_claims[k] # None => capture_claims'[k] = capture_claims[k]
     /\ \A k \in DOMAIN result_proposals :
           result_proposals[k] # None => result_proposals'[k] = result_proposals[k]]_vars
===========================================================================
