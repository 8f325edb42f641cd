-------------------------- MODULE PeerGame_proofs --------------------------
(***************************************************************************)
(* What commit, reveal, the two ledgers and the repeated calls guarantee,   *)
(* for any number of steps, retries and hashes, any threshold and any       *)
(* order, loss or repetition of the requests; and that the game implements  *)
(* the alternating log.  The invariant counts turns: each ledger's count of *)
(* its own turns and of the opponent's, and how far the two may be apart;   *)
(* from it follows where the token is, and that every request in flight is  *)
(* still acceptable.                                                        *)
(***************************************************************************)
EXTENDS PeerGame, TurnLedger_proofs, SequenceTheorems, TLAPS

Final    == {"claim", "audit", "await_audit", "result", "await_result", "done"}
Proposed == {"result", "await_result", "done"}
Opening  == CHOOSE e \in Evidence : TRUE

Own(r)   == Done(r, r)
Copy(r)  == Done(r, Other(r))
Token(r) == ledgers[r].token_owners[Subgame]

\* The ledger of r on its opponent's turn s.
CommitAt(r, s) == ledgers[r].commitments[<<Subgame, s, Other(r)>>]
RevealAt(r, s) == ledgers[r].reveals[<<Subgame, s, Other(r)>>]

\* Where the task of r is in its turns.
TaskAt(r) ==
  /\ pc[r] # "aborted" => Len(sealed[r]) = Own(r) + (IF pc[r] = "commit" THEN 1 ELSE 0)
  /\ Own(r) <= Len(sealed[r]) /\ Len(sealed[r]) <= Own(r) + 1
  /\ Len(sealed[r]) <= MaxStep
  /\ Len(sealed[r]) = Own(r) + 1 \/ pc[r] = "compute" => Token(r) = r
  /\ pc[r] \in {"compute", "commit"} => step[r] = Own(r) + 1
  /\ pc[r] = "reveal" => step[r] = Own(r)
  /\ pc[r] \in {"await_commit", "await_reveal"} =>
       step[r] = Own(r) + (IF r = Thief THEN 0 ELSE 1)
  /\ r = Thief \/ pc[r] \in {"compute", "commit", "reveal"} => step[r] <= MaxStep
  /\ pc[r] = "claim" => r = Thief
  /\ pc[r] \in Proposed => audits[r] # None

\* What the opponent of r knows of the turns of r.
HeardAt(r) ==
  /\ pc[r] \notin {"reveal", "aborted"} => Copy(Other(r)) = Own(r)
  /\ pc[r] = "reveal" /\ call[r].answer = "ok" => Copy(Other(r)) = Own(r)
  /\ pc[r] = "commit" /\ call[r].answer = "ok" => CommitAt(Other(r), step[r]) # None

Counted ==
  /\ \A r \in Roles : Copy(r) <= Own(Other(r)) /\ Own(Other(r)) <= Copy(r) + 1
  /\ Own(Thief) = Copy(Thief) + (IF Token(Thief) = Thief THEN 0 ELSE 1)
  /\ Copy(Police) = Own(Police) + (IF Token(Police) = Thief THEN 0 ELSE 1)

CopiesAt(r) ==
  /\ \A s \in WireSteps : CommitAt(r, s) # None =>
       s \in 1 .. Len(sealed[Other(r)]) /\ CommitAt(r, s) = sealed[Other(r)][s]
  /\ \A s \in WireSteps : RevealAt(r, s) # None <=> s \in 1 .. Copy(r)
  /\ \A s \in 1 .. Copy(r) : RevealAt(r, s) =
       [commitment |-> CommitAt(r, s), turn_token |-> r, evidence |-> Opening]
  /\ \A s \in 1 .. Own(Other(r)) : CommitAt(r, s) # None

\* r takes no further turn, and its opponent has them all.
Closed(r) ==
  /\ pc[r] \in Final \cup {"aborted"}
  /\ Len(sealed[r]) = Own(r) /\ Copy(Other(r)) = Own(r)

RequestAt(c) ==
  /\ c.tool = "commit" => c.step \in 1 .. Len(sealed[c.from])
  /\ c.tool = "reveal" => c.step \in 1 .. Own(c.from)
  /\ c.tool = "claim"  => c.step <= MaxStep
  /\ c.tool = "audit"  => Closed(c.from)
  /\ c.tool = "result" => Closed(c.from) /\ audits[c.from] # None

EndAt(r) ==
  /\ audits[r] # None =>
       Closed(Other(r)) /\ audits[r] = [records |-> sealed[Other(r)], ok |-> TRUE]
  /\ results[r] # None =>
       /\ Closed(Other(r)) /\ audits[Other(r)] # None
       /\ results[r] = Digest(Other(r))
  /\ pc[r] = "done" => results[r] # None /\ results[r] = Digest(r)

Tasks   == \A r \in Roles : TaskAt(r)
Heard   == \A r \in Roles : HeardAt(r)
Copies  == \A r \in Roles : CopiesAt(r)
Sent    == \A c \in net : RequestAt(c)
Ended   == \A r \in Roles : EndAt(r)

IInv == TypeOK /\ Tasks /\ Heard /\ Counted /\ Copies /\ Sent /\ Ended
---------------------------------------------------------------------------
(* Counting turns.                                                          *)

LEMMA OtherRole ==
  \A r \in Roles : /\ Other(r) \in Roles /\ Other(r) # r /\ Other(Other(r)) = r
                   /\ Roles = {r, Other(r)}
                   /\ r = Thief => Other(r) = Police
                   /\ r = Police => Other(r) = Thief
                   /\ r = Thief \/ r = Police
BY DEF Other, Roles, Thief, Police

LEMMA Numbers ==
  ASSUME TypeOK, NEW r \in Roles
  PROVE  /\ Own(r) \in Nat /\ Own(r) <= MaxStep
         /\ Copy(r) \in Nat /\ Copy(r) <= MaxStep
         /\ Token(r) \in Roles /\ MaxStep \in Nat
         /\ sealed[r] \in Seq(Hashes) /\ Len(sealed[r]) \in Nat
         /\ step[r] \in Nat /\ ledgers[r] \in Ledgers
<1>1. ledgers[r] \in Ledgers /\ sealed[r] \in Seq(Hashes) /\ step[r] \in 1 .. MaxStep + 1
  BY DEF TypeOK, Disclosed
<1>2. MaxStep \in Nat /\ Subgame \in Subgames /\ Other(r) \in Roles
  BY GameAssumption, LedgerAssumption, OtherRole
<1>3. Own(r) \in 0 .. MaxStep /\ Copy(r) \in 0 .. MaxStep /\ Token(r) \in Roles
  BY <1>1, <1>2 DEF Own, Copy, Done, Token, Ledgers
<1> QED BY <1>1, <1>2, <1>3

LEMMA WireStep ==
  ASSUME NEW n \in Nat, n <= MaxStep, NEW s \in 1 .. n
  PROVE  s \in WireSteps /\ s \in Nat /\ s > 0
BY LedgerAssumption DEF WireSteps

\* A peer that holds its token has heard of every turn, and its opponent too.
LEMMA Owner ==
  ASSUME TypeOK, Counted, NEW r \in Roles, Token(r) = r
  PROVE  Token(Other(r)) = r /\ Copy(Other(r)) = Own(r) /\ Copy(r) = Own(Other(r))
<1>1. /\ Own(Thief) \in Nat /\ Copy(Thief) \in Nat /\ Token(Thief) \in Roles
      /\ Own(Police) \in Nat /\ Copy(Police) \in Nat /\ Token(Police) \in Roles
  BY Numbers DEF Roles
<1>2. /\ Copy(Thief) <= Own(Police) /\ Own(Police) <= Copy(Thief) + 1
      /\ Copy(Police) <= Own(Thief) /\ Own(Thief) <= Copy(Police) + 1
  BY OtherRole DEF Counted, Roles
<1>3. CASE r = Thief
  BY <1>1, <1>2, <1>3, OtherRole DEF Counted, Roles, Thief, Police
<1>4. CASE r = Police
  BY <1>1, <1>2, <1>4, OtherRole DEF Counted, Roles, Thief, Police
<1> QED BY <1>3, <1>4, OtherRole

\* A turn its opponent has not heard of is the one it waits for.
LEMMA Ahead ==
  ASSUME TypeOK, Counted, NEW r \in Roles, Own(r) # Copy(Other(r))
  PROVE  Token(Other(r)) = r /\ Own(r) = Copy(Other(r)) + 1
<1>1. /\ Own(Thief) \in Nat /\ Copy(Thief) \in Nat /\ Token(Thief) \in Roles
      /\ Own(Police) \in Nat /\ Copy(Police) \in Nat /\ Token(Police) \in Roles
  BY Numbers DEF Roles
<1>2. /\ Copy(Thief) <= Own(Police) /\ Own(Police) <= Copy(Thief) + 1
      /\ Copy(Police) <= Own(Thief) /\ Own(Thief) <= Copy(Police) + 1
  BY OtherRole DEF Counted, Roles
<1>3. CASE r = Thief
  BY <1>1, <1>2, <1>3, OtherRole DEF Counted, Roles, Thief, Police
<1>4. CASE r = Police
  BY <1>1, <1>2, <1>4, OtherRole DEF Counted, Roles, Thief, Police
<1> QED BY <1>3, <1>4, OtherRole

LEMMA OneHolder == TypeOK /\ Counted => OneTokenHolder
<1> SUFFICES ASSUME TypeOK, Counted, Holds(Thief), Holds(Police) PROVE FALSE
  BY DEF OneTokenHolder
<1>1. Token(Thief) = Thief /\ Token(Police) = Police
  BY DEF Holds, Token
<1> QED BY <1>1, Owner, OtherRole DEF Roles
---------------------------------------------------------------------------
(* What is in flight is acceptable.                                         *)

LEMMA CommitAccepted ==
  ASSUME IInv, NEW c \in net, c.tool = "commit"
  PROVE  RecordCommitOK(ledgers[Other(c.from)], CommitOf(c))
<1> DEFINE p == c.from
           o == Other(c.from)
<1>1. p \in Roles /\ o \in Roles /\ Other(o) = p
  BY OtherRole DEF IInv, TypeOK, Requests
<1>2. c.step \in 1 .. Len(sealed[p]) /\ Len(sealed[p]) <= MaxStep
  BY <1>1 DEF IInv, Sent, RequestAt, Tasks, TaskAt
<1>3. c.step \in WireSteps /\ c.step \in Nat
  BY <1>1, <1>2, Numbers, WireStep DEF IInv
<1>4. CASE CommitAt(o, c.step) # None
  BY <1>1, <1>3, <1>4 DEF IInv, Copies, CopiesAt, CommitAt, RecordCommitOK, CommitOf, TurnKey
<1>5. CASE CommitAt(o, c.step) = None
  <2>1. Token(o) = p /\ c.step = Copy(o) + 1
    <3>1. c.step > Own(p)
      BY <1>1, <1>2, <1>5, Numbers DEF IInv, Copies, CopiesAt
    <3>2. Len(sealed[p]) = Own(p) + 1 /\ c.step = Own(p) + 1
      <4>1. Own(p) <= Len(sealed[p]) /\ Len(sealed[p]) <= Own(p) + 1
        BY <1>1 DEF IInv, Tasks, TaskAt
      <4>2. Own(p) \in Nat /\ Len(sealed[p]) \in Nat
        BY <1>1, Numbers DEF IInv
      <4> QED BY <1>2, <1>3, <3>1, <4>1, <4>2
    <3>3. Token(p) = p
      BY <1>1, <3>2 DEF IInv, Tasks, TaskAt
    <3> QED BY <1>1, <3>2, <3>3, Owner DEF IInv
  <2> QED BY <1>1, <1>5, <2>1 DEF RecordCommitOK, RequireTurn, CommitOf, TurnKey,
             CommitAt, Token, Copy, Done
<1> QED BY <1>4, <1>5

LEMMA RevealAccepted ==
  ASSUME IInv, NEW c \in net, c.tool = "reveal"
  PROVE  /\ RecordRevealOK(ledgers[Other(c.from)], RevealOf(c))
         /\ RevealAt(Other(c.from), c.step) = None =>
              Token(Other(c.from)) = c.from /\ c.step = Own(c.from)
              /\ c.step = Copy(Other(c.from)) + 1
<1> DEFINE p == c.from
           o == Other(c.from)
<1>1. p \in Roles /\ o \in Roles /\ Other(o) = p
  BY OtherRole DEF IInv, TypeOK, Requests
<1>2. c.step \in 1 .. Own(p)
  BY <1>1 DEF IInv, Sent, RequestAt
<1>3. c.step \in WireSteps /\ c.step \in Nat
  BY <1>1, <1>2, Numbers, WireStep DEF IInv
<1>4. CommitAt(o, c.step) # None
  BY <1>1, <1>2 DEF IInv, Copies, CopiesAt
<1>5. CASE RevealAt(o, c.step) # None
  <2>1. RevealAt(o, c.step) =
          [commitment |-> CommitAt(o, c.step), turn_token |-> o, evidence |-> Opening]
    BY <1>1, <1>3, <1>5 DEF IInv, Copies, CopiesAt
  <2>2. RecordRevealOK(ledgers[o], RevealOf(c))
    BY <1>1, <1>5, <2>1 DEF RecordRevealOK, RevealRecorded, Candidate, RevealOf, TurnKey,
       CommitAt, RevealAt, Opening
  <2> QED BY <1>5, <2>2
<1>6. CASE RevealAt(o, c.step) = None
  <2>1. c.step > Copy(o)
    BY <1>1, <1>2, <1>3, <1>6, Numbers DEF IInv, Copies, CopiesAt
  <2>2. Token(o) = p /\ c.step = Own(p) /\ c.step = Copy(o) + 1
    <3>1. Own(p) \in Nat /\ Copy(o) \in Nat
      BY <1>1, Numbers DEF IInv
    <3>2. Own(p) # Copy(o)
      BY <1>2, <1>3, <2>1, <3>1
    <3>3. Token(o) = p /\ Own(p) = Copy(o) + 1
      BY <1>1, <3>2, Ahead DEF IInv
    <3> QED BY <1>2, <1>3, <2>1, <3>1, <3>3
  <2>3. RecordRevealOK(ledgers[o], RevealOf(c))
    BY <1>1, <1>4, <1>6, <2>2 DEF RecordRevealOK, RevealRecorded, RequireTurn, RevealOf, TurnKey,
       CommitAt, RevealAt, Token, Copy, Done
  <2> QED BY <2>2, <2>3
<1> QED BY <1>5, <1>6

LEMMA AuditAccepted ==
  ASSUME IInv, NEW c \in net, c.tool = "audit"
  PROVE  Verdict(ledgers[Other(c.from)], c.from, sealed[c.from])
<1> DEFINE p == c.from
           o == Other(c.from)
<1>1. p \in Roles /\ o \in Roles /\ Other(o) = p
  BY OtherRole DEF IInv, TypeOK, Requests
<1>2. /\ Len(sealed[p]) = Own(p) /\ Copy(o) = Own(p)
      /\ Copy(o) \in Nat /\ Copy(o) <= MaxStep
  BY <1>1, Numbers DEF IInv, Sent, RequestAt, Closed
<1>3. DOMAIN sealed[p] = 1 .. Copy(o)
  BY <1>1, <1>2, Numbers DEF IInv
<1>4. RevealedSteps(ledgers[o], p) = 1 .. Copy(o)
  <2>1. \A s \in WireSteps : RevealAt(o, s) # None <=> s \in 1 .. Copy(o)
    BY <1>1 DEF IInv, Copies, CopiesAt
  <2>2. \A s \in 1 .. Copy(o) : s \in WireSteps
    BY <1>2, WireStep
  <2> QED BY <1>1, <2>1, <2>2 DEF RevealedSteps, RevealAt
<1>5. ASSUME NEW s \in 1 .. Copy(o)
      PROVE  ledgers[o].reveals[<<Subgame, s, p>>].commitment = sealed[p][s]
  <2>1. s \in WireSteps
    BY <1>2, WireStep
  <2>2. RevealAt(o, s).commitment = CommitAt(o, s) /\ CommitAt(o, s) # None
    BY <1>1, <1>2, <1>5 DEF IInv, Copies, CopiesAt
  <2>3. CommitAt(o, s) = sealed[p][s]
    BY <1>1, <2>1, <2>2 DEF IInv, Copies, CopiesAt
  <2> QED BY <1>1, <2>2, <2>3 DEF RevealAt
<1> QED BY <1>3, <1>4, <1>5 DEF Verdict

LEMMA ResultAccepted ==
  ASSUME IInv, NEW c \in net
  PROVE  results[Other(c.from)] \in {None, Digest(c.from)}
<1>1. c.from \in Roles /\ Other(c.from) \in Roles /\ Other(Other(c.from)) = c.from
  BY OtherRole DEF IInv, TypeOK, Requests
<1> QED BY <1>1 DEF IInv, Ended, EndAt

LEMMA InFlight == IInv => InFlightAccepted
BY CommitAccepted, RevealAccepted, AuditAccepted, ResultAccepted DEF InFlightAccepted

LEMMA Faithful == IInv => CopiesFaithful
<1> SUFFICES ASSUME IInv, NEW r \in Roles
             PROVE  /\ Done(r, Other(r)) <= Done(Other(r), Other(r))
                    /\ Done(Other(r), Other(r)) <= Done(r, Other(r)) + 1
                    /\ \A s \in 1 .. MaxStep :
                         CommitAt(r, s) # None =>
                           s <= Len(sealed[Other(r)]) /\ CommitAt(r, s) = sealed[Other(r)][s]
  BY DEF CopiesFaithful, CommitAt
<1>1. \A s \in 1 .. MaxStep : s \in WireSteps
  BY LedgerAssumption DEF WireSteps
<1>2. Len(sealed[Other(r)]) \in Nat
  BY Numbers, OtherRole DEF IInv
<1> QED BY <1>1, <1>2, OtherRole DEF IInv, Counted, Own, Copy, Copies, CopiesAt

LEMMA Finished == IInv => FinishedMeansAgreed
<1> SUFFICES ASSUME IInv, NEW r \in Roles, pc[r] = "done"
             PROVE  /\ audits[r].ok /\ audits[r].records = sealed[Other(r)]
                    /\ results[r] = Digest(r)
                    /\ audits[Other(r)] # None /\ Digest(Other(r)) = Digest(r)
  BY DEF FinishedMeansAgreed
<1>1. audits[r] # None
  BY DEF IInv, Tasks, TaskAt, Proposed
<1>2. /\ audits[r] = [records |-> sealed[Other(r)], ok |-> TRUE]
      /\ results[r] # None /\ results[r] = Digest(r)
  BY <1>1 DEF IInv, Ended, EndAt
<1>3. audits[Other(r)] # None /\ results[r] = Digest(Other(r))
  BY <1>2 DEF IInv, Ended, EndAt
<1> QED BY <1>2, <1>3
---------------------------------------------------------------------------
(* Steps of a task that seal nothing and leave its ledger alone: where they *)
(* may go.                                                                  *)

\* r may go on to label l in step n.
Legal(r, l, n) ==
  \/ l = "aborted" /\ n = step[r]
  \/ l = pc[r] /\ l \in Calls /\ n = step[r]
  \/ /\ pc[r] = "reveal" /\ Copy(Other(r)) = Own(r) /\ l = "await_commit"
     /\ n = IF r = Thief THEN step[r] ELSE step[r] + 1
  \/ pc[r] = "reveal" /\ Copy(Other(r)) = Own(r) /\ l = "audit" /\ n = step[r]
  \/ pc[r] = "await_commit" /\ l = "await_reveal" /\ n = step[r]
  \/ /\ pc[r] = "await_reveal" /\ l = "compute" /\ Token(r) = r /\ n <= MaxStep
     /\ n = IF r = Thief THEN step[r] + 1 ELSE step[r]
  \/ pc[r] = "await_reveal" /\ r = Thief /\ l = "claim" /\ n = step[r]
  \/ pc[r] \in {"await_reveal", "await_commit", "claim"} /\ l = "audit" /\ n = step[r]
  \/ pc[r] = "audit" /\ l = "await_audit" /\ n = step[r]
  \/ pc[r] = "await_audit" /\ l = "result" /\ audits[r] # None /\ n = step[r]
  \/ pc[r] = "result" /\ l = "await_result" /\ n = step[r]
  \/ /\ pc[r] = "await_result" /\ l = "done" /\ n = step[r]
     /\ results[r] # None /\ results[r] = Digest(r)

Sends(r, l, n) ==
  \/ net' = net
  \/ \E k \in 0 .. Retries : /\ l \in Calls
                             /\ net' = net \cup {[from |-> r, tool |-> l, step |-> n, attempt |-> k]}

Goes(r, l, n) ==
  /\ pc' = [pc EXCEPT ![r] = l]
  /\ step' = [step EXCEPT ![r] = n]
  /\ Sends(r, l, n)
  /\ \/ call' = call /\ l \notin {"commit", "reveal"}
     \/ \E k \in 0 .. Retries : call' = [call EXCEPT ![r] = [attempt |-> k, answer |-> None]]
  /\ UNCHANGED <<sealed, ledgers, claims, audits, results>>

\* What the opponent's turn on the table tells.
LEMMA Revealed ==
  ASSUME IInv, NEW r \in Roles, pc[r] = "await_reveal", HasReveal(r)
  PROVE  Token(r) = r /\ step[r] <= MaxStep
<1>1. step[r] \in WireSteps /\ step[r] <= MaxStep
  BY Numbers, LedgerAssumption DEF HasReveal, IInv, WireSteps
<1>2. step[r] \in 1 .. Copy(r)
  BY <1>1 DEF HasReveal, OpponentKey, IInv, Copies, CopiesAt, RevealAt
<1>3. step[r] = Own(r) + (IF r = Thief THEN 0 ELSE 1)
  BY DEF IInv, Tasks, TaskAt
<1>4. /\ Own(r) \in Nat /\ Copy(r) \in Nat /\ Token(r) \in Roles
  BY Numbers DEF IInv
<1>5. CASE r = Thief
  BY <1>1, <1>2, <1>3, <1>4, <1>5 DEF IInv, Counted
<1>6. CASE r = Police
  <2>1. Copy(r) # Own(r)
    BY <1>2, <1>3, <1>4, <1>6 DEF Thief, Police
  <2>2. Token(r) # Thief
    BY <1>2, <1>3, <1>4, <1>6, <2>1 DEF IInv, Counted, Thief, Police
  <2> QED BY <1>1, <1>4, <1>6, <2>2 DEF Roles
<1> QED BY <1>5, <1>6, OtherRole

Quietly(r) ==
  \/ RevealAnswered(r) \/ SeeCommit(r) \/ ClaimAnswered(r) \/ AuditAnswered(r)
  \/ SeeAudit(r) \/ ResultAnswered(r) \/ SeeResult(r)
  \/ Failure(r)
  \/ r = Thief /\ ThiefSeesReveal
  \/ r = Police /\ (PoliceSeesReveal \/ PoliceSeesEnd)

\* A quiet step, a new call and the end of a task, as moves.
LEMMA QuietMove ==
  ASSUME NEW r \in Roles, NEW l, Quiet(r, l), TypeOK,
         UNCHANGED <<sealed, ledgers, claims, audits, results>>, l \notin {"commit", "reveal"},
         NEW n, step' = [step EXCEPT ![r] = n]
  PROVE  Goes(r, l, n)
BY DEF Quiet, Goto, Goes, Sends

LEMMA CallMove ==
  ASSUME NEW r \in Roles, NEW l \in Calls, StartCall(r, l), TypeOK,
         UNCHANGED <<step, sealed, ledgers, claims, audits, results>>
  PROVE  Goes(r, l, step[r])
<1>1. step' = [step EXCEPT ![r] = step[r]] /\ step'[r] = step[r] /\ 0 \in 0 .. Retries
  BY GameAssumption DEF TypeOK
<1> QED BY <1>1 DEF StartCall, Goto, Goes, Sends, Request, Fresh

LEMMA Moves ==
  ASSUME IInv, NEW r \in Roles, Quietly(r)
  PROVE  \E l \in Labels, n \in 1 .. MaxStep + 1 : Legal(r, l, n) /\ Goes(r, l, n)
<1> USE DEF service
<1>0. /\ TypeOK /\ step[r] \in 1 .. MaxStep + 1 /\ MaxStep \in Nat /\ None \notin {"ok", "refused"}
      /\ step = [step EXCEPT ![r] = step[r]]
      /\ {"commit", "reveal", "claim", "audit", "result"} = Calls /\ Calls \subseteq Labels
      /\ {"aborted", "await_commit", "await_reveal", "await_audit", "await_result",
          "compute", "done"} \subseteq Labels
  BY Numbers, GameAssumption, LedgerAssumption DEF IInv, TypeOK, Calls, Labels, Waits, Ends
<1>a. ASSUME Quiet(r, "aborted"), UNCHANGED <<step, sealed, ledgers, claims, audits, results>>
      PROVE  Legal(r, "aborted", step[r]) /\ Goes(r, "aborted", step[r])
  BY <1>0, <1>a, QuietMove DEF Legal
<1>1. CASE RevealAnswered(r)
  <2>1. pc[r] = "reveal" /\ UNCHANGED <<sealed, ledgers, claims, audits, results>>
    BY <1>1 DEF RevealAnswered, Answered
  <2>2. CASE ~Accepted(r)
    BY <1>0, <1>1, <1>a, <2>2 DEF RevealAnswered
  <2>3. CASE Accepted(r)
    <3>1. Copy(Other(r)) = Own(r)
      BY <2>1, <2>3 DEF Accepted, IInv, Heard, HeardAt
    <3>2. CASE r = Thief /\ step[r] >= Threshold
      <4>1. StartCall(r, "audit") /\ step' = step
        BY <1>1, <2>3, <3>2 DEF RevealAnswered
      <4> QED BY <1>0, <2>1, <3>1, <4>1, CallMove DEF Legal
    <3>3. CASE r = Thief /\ ~(step[r] >= Threshold)
      <4>1. Quiet(r, "await_commit") /\ step' = step
        BY <1>1, <2>3, <3>3 DEF RevealAnswered
      <4> QED BY <1>0, <2>1, <3>1, <3>3, <4>1, QuietMove DEF Legal
    <3>4. CASE r # Thief
      <4>1. Quiet(r, "await_commit") /\ step' = [step EXCEPT ![r] = step[r] + 1]
        BY <1>1, <2>3, <3>4 DEF RevealAnswered
      <4>2. step[r] <= MaxStep
        BY <2>1 DEF IInv, Tasks, TaskAt
      <4>3. step[r] + 1 \in 1 .. MaxStep + 1
        BY <1>0, <4>2
      <4>4. Goes(r, "await_commit", step[r] + 1)
        BY <1>0, <2>1, <4>1, QuietMove
      <4>5. Legal(r, "await_commit", step[r] + 1)
        BY <2>1, <3>1, <3>4 DEF Legal
      <4> QED BY <1>0, <4>3, <4>4, <4>5
    <3> QED BY <3>2, <3>3, <3>4
  <2> QED BY <2>2, <2>3
<1>2. CASE SeeCommit(r)
  BY <1>0, <1>2, QuietMove DEF SeeCommit, Legal
<1>3. CASE ClaimAnswered(r)
  <2>1. CASE Accepted(r)
    BY <1>0, <1>3, <2>1, CallMove DEF ClaimAnswered, Answered, Legal
  <2>2. CASE ~Accepted(r)
    BY <1>0, <1>3, <1>a, <2>2 DEF ClaimAnswered
  <2> QED BY <2>1, <2>2
<1>4. CASE AuditAnswered(r)
  <2>1. CASE Accepted(r)
    BY <1>0, <1>4, <2>1, QuietMove DEF AuditAnswered, Answered, Legal
  <2>2. CASE ~Accepted(r)
    BY <1>0, <1>4, <1>a, <2>2 DEF AuditAnswered
  <2> QED BY <2>1, <2>2
<1>5. CASE SeeAudit(r)
  BY <1>0, <1>5, CallMove DEF SeeAudit, Legal
<1>6. CASE ResultAnswered(r)
  <2>1. CASE Accepted(r)
    BY <1>0, <1>6, <2>1, QuietMove DEF ResultAnswered, Answered, Legal
  <2>2. CASE ~Accepted(r)
    BY <1>0, <1>6, <1>a, <2>2 DEF ResultAnswered
  <2> QED BY <2>1, <2>2
<1>7. CASE SeeResult(r)
  <2>1. CASE results[r] = Digest(r)
    BY <1>0, <1>7, <2>1, QuietMove DEF SeeResult, Legal
  <2>2. CASE results[r] # Digest(r)
    BY <1>0, <1>7, <1>a, <2>2 DEF SeeResult
  <2> QED BY <2>1, <2>2
<1>8. CASE r = Thief /\ ThiefSeesReveal
  <2>1. /\ pc[r] = "await_reveal" /\ Token(r) = r
        /\ UNCHANGED <<sealed, ledgers, claims, audits, results>>
    BY <1>8, Revealed DEF ThiefSeesReveal
  <2>2. CASE UNCHANGED step /\ StartCall(r, "claim")
    BY <1>0, <1>8, <2>1, <2>2, CallMove DEF Legal
  <2>3. CASE UNCHANGED step /\ StartCall(r, "audit")
    BY <1>0, <2>1, <2>3, CallMove DEF Legal
  <2>4. CASE /\ step[r] < MaxStep /\ step' = [step EXCEPT ![r] = step[r] + 1]
             /\ Quiet(r, "compute")
    <3>1. step[r] + 1 \in 1 .. MaxStep + 1 /\ step[r] + 1 <= MaxStep
      BY <1>0, <2>4
    <3>2. Goes(r, "compute", step[r] + 1)
      BY <1>0, <2>1, <2>4, QuietMove
    <3>3. Legal(r, "compute", step[r] + 1)
      BY <1>8, <2>1, <3>1 DEF Legal
    <3> QED BY <1>0, <3>1, <3>2, <3>3
  <2> QED BY <1>8, <2>2, <2>3, <2>4 DEF ThiefSeesReveal
<1>9. CASE r = Police /\ PoliceSeesReveal
  <2>1. /\ pc[r] = "await_reveal" /\ Token(r) = r /\ step[r] <= MaxStep
        /\ UNCHANGED <<step, sealed, ledgers, claims, audits, results>> /\ r # Thief
    BY <1>9, Revealed DEF PoliceSeesReveal, Thief, Police
  <2>2. CASE StartCall(r, "audit")
    BY <1>0, <2>1, <2>2, CallMove DEF Legal
  <2>3. CASE Quiet(r, "compute")
    BY <1>0, <2>1, <2>3, QuietMove DEF Legal
  <2> QED BY <1>9, <2>2, <2>3 DEF PoliceSeesReveal
<1>10. CASE r = Police /\ PoliceSeesEnd
  BY <1>0, <1>10, CallMove DEF PoliceSeesEnd, Legal
<1>11. CASE AttemptFails(r)
  <2>1. pc[r] \in Calls /\ UNCHANGED <<step, sealed, ledgers, claims, audits, results>>
    BY <1>11 DEF AttemptFails
  <2>2. CASE call[r].attempt < Retries
    <3>1. call[r].attempt + 1 \in 0 .. Retries
      BY <1>0, <2>2, GameAssumption DEF TypeOK
    <3>2. /\ call' = [call EXCEPT ![r] = [attempt |-> call[r].attempt + 1, answer |-> None]]
          /\ net' = net \cup {[from |-> r, tool |-> pc[r], step |-> step[r],
                               attempt |-> call[r].attempt + 1]}
          /\ pc' = pc
      BY <1>11, <2>1, <2>2 DEF AttemptFails, Request, TypeOK, IInv
    <3>3. pc' = [pc EXCEPT ![r] = pc[r]]
      BY <1>0, <3>2 DEF TypeOK
    <3>4. Goes(r, pc[r], step[r])
      BY <1>0, <2>1, <3>1, <3>2, <3>3 DEF Goes, Sends
    <3> QED BY <1>0, <2>1, <3>4 DEF Legal
  <2>3. CASE ~(call[r].attempt < Retries)
    BY <1>0, <1>11, <1>a, <2>3 DEF AttemptFails
  <2> QED BY <2>2, <2>3
<1>12. CASE WaitTimeout(r)
  BY <1>0, <1>12, <1>a DEF WaitTimeout
<1>13. CASE AuditRejected(r)
  BY <1>0, <1>13, <1>a DEF AuditRejected
<1> QED
  BY <1>1, <1>2, <1>3, <1>4, <1>5, <1>6, <1>7, <1>8, <1>9, <1>10, <1>11, <1>12, <1>13
  DEF Quietly, Failure

LEMMA MoveTyped ==
  ASSUME IInv, NEW r \in Roles, NEW l \in Labels, NEW n \in 1 .. MaxStep + 1,
         Goes(r, l, n)
  PROVE  TypeOK'
<1>1. pc' \in [Roles -> Labels] /\ step' \in [Roles -> 1 .. MaxStep + 1]
  BY DEF Goes, IInv, TypeOK
<1>2. call' \in [Roles -> [attempt : 0 .. Retries, answer : {"ok", "refused", None}]]
  BY DEF Goes, IInv, TypeOK
<1>3. net' \subseteq Requests
  BY DEF Goes, Sends, IInv, TypeOK, Requests
<1> QED BY <1>1, <1>2, <1>3 DEF Goes, IInv, TypeOK

\* A peer that is in its final calls, or goes there, is closed.
LEMMA FinalClosed ==
  ASSUME IInv, NEW r \in Roles, pc[r] # "aborted", pc[r] # "commit",
         pc[r] = "reveal" => Copy(Other(r)) = Own(r)
  PROVE  Len(sealed[r]) = Own(r) /\ Copy(Other(r)) = Own(r)
<1>1. Own(r) \in Nat
  BY Numbers DEF IInv
<1> QED BY <1>1 DEF IInv, Tasks, TaskAt, Heard, HeardAt

LEMMA MoveTask ==
  ASSUME IInv, NEW r \in Roles, NEW l \in Labels, NEW n \in 1 .. MaxStep + 1,
         Legal(r, l, n), Goes(r, l, n)
  PROVE  TaskAt(r)' /\ HeardAt(r)'
<1>1. /\ pc'[r] = l /\ step'[r] = n /\ Other(r) \in Roles
      /\ UNCHANGED <<sealed, ledgers, audits>>
      /\ Own(r)' = Own(r) /\ Token(r)' = Token(r) /\ Copy(Other(r))' = Copy(Other(r))
  BY OtherRole DEF Goes, IInv, TypeOK, Own, Copy, Token, Done
<1>2. /\ TaskAt(r) /\ HeardAt(r) /\ Own(r) \in Nat /\ Len(sealed[r]) \in Nat /\ step[r] \in Nat
  BY Numbers DEF IInv, Tasks, Heard
<1>3. call'[r].answer = "ok" => call' = call /\ l \notin {"commit", "reveal"}
  BY GameAssumption DEF Goes, IInv, TypeOK
<1>4. TaskAt(r)'
  <2> USE DEF TaskAt, Proposed
  <2>1. CASE l = "aborted" /\ n = step[r]
    BY <1>1, <1>2, <2>1
  <2>2. CASE l = pc[r] /\ n = step[r]
    BY <1>1, <1>2, <2>2
  <2>3. CASE pc[r] = "reveal" /\ l = "await_commit" /\ n = IF r = Thief THEN step[r] ELSE step[r] + 1
    BY <1>1, <1>2, <2>3
  <2>4. CASE pc[r] = "await_commit" /\ l = "await_reveal" /\ n = step[r]
    BY <1>1, <1>2, <2>4
  <2>5. CASE /\ pc[r] = "await_reveal" /\ l = "compute" /\ Token(r) = r /\ n <= MaxStep
             /\ n = IF r = Thief THEN step[r] + 1 ELSE step[r]
    BY <1>1, <1>2, <2>5
  <2>6. CASE pc[r] = "await_reveal" /\ r = Thief /\ l = "claim" /\ n = step[r]
    BY <1>1, <1>2, <2>6
  <2>7. CASE /\ pc[r] \in {"reveal", "await_reveal", "await_commit", "claim"}
             /\ l = "audit" /\ n = step[r]
    BY <1>1, <1>2, <2>7
  <2>8. CASE /\ n = step[r]
             /\ \/ pc[r] = "audit" /\ l = "await_audit"
                \/ pc[r] = "await_audit" /\ l = "result" /\ audits[r] # None
                \/ pc[r] = "result" /\ l = "await_result"
                \/ pc[r] = "await_result" /\ l = "done"
    BY <1>1, <1>2, <2>8
  <2> QED BY <2>1, <2>2, <2>3, <2>4, <2>5, <2>6, <2>7, <2>8 DEF Legal
<1>5. HeardAt(r)'
  <2>1. l \in {"reveal", "aborted"} \/ Copy(Other(r)) = Own(r)
    BY <1>2 DEF Legal, HeardAt
  <2>2. l \in {"commit", "reveal"} => call'[r].answer # "ok"
    BY <1>3
  <2> QED BY <1>1, <2>1, <2>2 DEF HeardAt
<1> QED BY <1>4, <1>5

LEMMA ClosedMoves ==
  ASSUME IInv, NEW r \in Roles, NEW l \in Labels, NEW n \in 1 .. MaxStep + 1,
         Legal(r, l, n), Goes(r, l, n), NEW q \in Roles, Closed(q)
  PROVE  Closed(q)'
<1>1. pc'[q] \in Final \cup {"aborted"}
  <2>1. CASE q = r
    <3>1. pc'[q] = l
      BY <2>1 DEF Goes, IInv, TypeOK
    <3> QED BY <3>1, <2>1 DEF Legal, Closed, Final, Calls
  <2>2. CASE q # r
    BY <2>2 DEF Goes, IInv, TypeOK, Closed
  <2> QED BY <2>1, <2>2
<1>2. UNCHANGED <<sealed, ledgers>>
  BY DEF Goes
<1> QED BY <1>1, <1>2 DEF Closed, Own, Copy, Done

LEMMA MoveSent ==
  ASSUME IInv, NEW r \in Roles, NEW l \in Labels, NEW n \in 1 .. MaxStep + 1,
         Legal(r, l, n), Goes(r, l, n)
  PROVE  Sent'
<1> SUFFICES ASSUME NEW c \in net' PROVE RequestAt(c)'
  BY DEF Sent
<1>1. UNCHANGED <<sealed, ledgers, audits>> /\ pc'[r] = l
  BY DEF Goes, IInv, TypeOK
<1>2. \A q \in Roles : Own(q)' = Own(q)
  BY <1>1 DEF Own, Done
<1>3. CASE c \in net
  <2>1. RequestAt(c) /\ c.from \in Roles
    BY <1>3 DEF IInv, Sent, TypeOK, Requests
  <2> QED BY <2>1, <1>1, <1>2, ClosedMoves DEF RequestAt
<1>4. CASE c \notin net
  <2>1. c.from = r /\ c.tool = l /\ c.step = n /\ l \in Calls
    BY <1>4 DEF Goes, Sends
  <2>2. /\ TaskAt(r) /\ Own(r) \in Nat /\ Len(sealed[r]) \in Nat /\ n \in Nat /\ n >= 1
    BY Numbers DEF IInv, Tasks
  <2>3. CASE l = "commit"
    <3>1. pc[r] = "commit" /\ n = step[r]
      BY <2>3 DEF Legal
    <3>2. n = Len(sealed[r])
      BY <3>1, <2>2 DEF TaskAt
    <3> QED BY <2>1, <2>2, <2>3, <3>2, <1>1 DEF RequestAt
  <2>4. CASE l = "reveal"
    <3>1. pc[r] = "reveal" /\ n = step[r]
      BY <2>4 DEF Legal
    <3>2. n = Own(r)
      BY <3>1, <2>2 DEF TaskAt
    <3> QED BY <2>1, <2>2, <2>4, <3>2, <1>2 DEF RequestAt
  <2>5. CASE l = "claim"
    <3>1. n = step[r] /\ r = Thief
      BY <2>5, <2>2 DEF Legal, TaskAt
    <3> QED BY <2>1, <2>2, <2>5, <3>1 DEF RequestAt, TaskAt
  <2>6. CASE l \in {"audit", "result"}
    <3>1. /\ pc[r] # "aborted" /\ pc[r] # "commit"
          /\ pc[r] = "reveal" => Copy(Other(r)) = Own(r)
      BY <2>6 DEF Legal
    <3>2. Closed(r)'
      <4>1. Len(sealed[r]) = Own(r) /\ Copy(Other(r)) = Own(r)
        BY <3>1, FinalClosed
      <4> QED BY <4>1, <2>6, <1>1 DEF Closed, Own, Copy, Done, Final
    <3>3. l = "result" => audits[r] # None
      BY <2>2 DEF Legal, TaskAt, Proposed
    <3> QED BY <2>1, <2>6, <3>2, <3>3, <1>1 DEF RequestAt
  <2> QED BY <2>1, <2>3, <2>4, <2>5, <2>6 DEF Calls
<1> QED BY <1>3, <1>4

LEMMA MoveInv ==
  ASSUME IInv, NEW r \in Roles, NEW l \in Labels, NEW n \in 1 .. MaxStep + 1,
         Legal(r, l, n), Goes(r, l, n)
  PROVE  IInv'
<1>1. /\ UNCHANGED <<sealed, ledgers, audits, results>> /\ pc'[r] = l
      /\ \A q \in Roles \ {r} : pc'[q] = pc[q] /\ step'[q] = step[q] /\ call'[q] = call[q]
  BY DEF Goes, IInv, TypeOK
<1>2. Tasks' /\ Heard'
  <2>1. ASSUME NEW q \in Roles \ {r} PROVE TaskAt(q)' /\ HeardAt(q)'
    <3>1. TaskAt(q) /\ HeardAt(q)
      BY DEF IInv, Tasks, Heard
    <3>2. pc'[q] = pc[q] /\ step'[q] = step[q] /\ call'[q] = call[q]
      BY <1>1
    <3> QED BY <1>1, <3>1, <3>2 DEF TaskAt, HeardAt, Own, Copy, Token, Done, CommitAt
  <2> QED BY <2>1, MoveTask DEF Tasks, Heard
<1>3. Counted' /\ Copies'
  BY <1>1 DEF IInv, Counted, Copies, CopiesAt, Own, Copy, Token, Done, CommitAt, RevealAt
<1>4. Ended'
  <2> SUFFICES ASSUME NEW q \in Roles PROVE EndAt(q)'
    BY DEF Ended
  <2>1. EndAt(q) /\ Other(q) \in Roles
    BY OtherRole DEF IInv, Ended
  <2>2. Closed(Other(q)) => Closed(Other(q))'
    BY <2>1, ClosedMoves
  <2>3. Digest(q)' = Digest(q) /\ Digest(Other(q))' = Digest(Other(q))
    BY <1>1 DEF Digest
  <2>4. pc'[q] = "done" => results[q] # None /\ results[q] = Digest(q)
    <3>1. CASE q = r
      BY <3>1, <1>1, <2>1 DEF Legal, EndAt, Calls
    <3>2. CASE q # r
      BY <3>2, <1>1, <2>1 DEF EndAt
    <3> QED BY <3>1, <3>2
  <2> QED BY <1>1, <2>1, <2>2, <2>3, <2>4 DEF EndAt
<1> QED BY <1>2, <1>3, <1>4, MoveTyped, MoveSent DEF IInv
---------------------------------------------------------------------------
(* A turn is sealed.                                                        *)

LEMMA ComputeInv ==
  ASSUME IInv, NEW r \in Roles, Compute(r)
  PROVE  IInv'
<1>0. pc[r] = "compute" /\ MaxStep \in Nat /\ TaskAt(r) /\ HeardAt(r)
  BY Numbers DEF Compute, IInv, Tasks, Heard
<1>2. /\ step[r] = Own(r) + 1 /\ Len(sealed[r]) = Own(r) /\ Own(r) \in Nat
      /\ step[r] \in 1 .. MaxStep /\ Token(r) = r
  <2>1. Own(r) \in Nat /\ step[r] \in Nat
    BY Numbers DEF IInv
  <2> QED BY <1>0, <2>1 DEF TaskAt
<1>3. sealed[r] \in Seq(Hashes)
  BY Numbers DEF IInv
<1>h. PICK h \in Hashes : h = SealOf[r, step[r]]
  <2>1. <<r, step[r]>> \in Roles \X (1 .. MaxStep)
    BY <1>2
  <2>2. SealOf[<<r, step[r]>>] \in Hashes
    BY <2>1, GameAssumption
  <2> QED BY <2>2, Zenon
<1>1. /\ pc' = [pc EXCEPT ![r] = "commit"]
      /\ sealed' = [sealed EXCEPT ![r] = Append(sealed[r], h)]
      /\ call' = [call EXCEPT ![r] = Fresh]
      /\ net' = net \cup {[from |-> r, tool |-> "commit", step |-> step[r], attempt |-> 0]}
      /\ UNCHANGED <<step, ledgers, claims, audits, results>>
  BY <1>h DEF Compute, StartCall, Goto, Request, service
<1>4. /\ Append(sealed[r], h) \in Seq(Hashes)
      /\ Len(Append(sealed[r], h)) = Len(sealed[r]) + 1
      /\ \A s \in 1 .. Len(sealed[r]) : Append(sealed[r], h)[s] = sealed[r][s]
  BY <1>3
<1>5. /\ sealed'[r] = Append(sealed[r], h) /\ pc'[r] = "commit" /\ call'[r] = Fresh
      /\ \A q \in Roles \ {r} : pc'[q] = pc[q] /\ sealed'[q] = sealed[q] /\ call'[q] = call[q]
  BY <1>1 DEF IInv, TypeOK
<1>6. \A q \in Roles : Own(q)' = Own(q) /\ Copy(q)' = Copy(q) /\ Token(q)' = Token(q)
  BY <1>1 DEF Own, Copy, Token, Done
<1>7. TypeOK'
  <2>1. sealed' \in [Roles -> Disclosed] /\ pc' \in [Roles -> Labels]
    BY <1>1, <1>4 DEF IInv, TypeOK, Disclosed, Labels, Calls
  <2>2. call' \in [Roles -> [attempt : 0 .. Retries, answer : {"ok", "refused", None}]]
    BY <1>1, GameAssumption DEF IInv, TypeOK, Fresh
  <2>3. net' \subseteq Requests
    BY <1>1, <1>2, GameAssumption DEF IInv, TypeOK, Requests, Calls
  <2> QED BY <1>1, <2>1, <2>2, <2>3 DEF IInv, TypeOK
<1>8. ASSUME NEW q \in Roles PROVE TaskAt(q)' /\ HeardAt(q)'
  <2>1. CASE q = r
    <3>1. TaskAt(r)'
      BY <1>1, <1>2, <1>4, <1>5, <1>6 DEF TaskAt, Proposed
    <3>2. HeardAt(r)'
      <4>1. Copy(Other(r)) = Own(r) /\ call'[r].answer # "ok"
        BY <1>0, <1>5, GameAssumption DEF HeardAt, Fresh
      <4> QED BY <4>1, <1>5, <1>6, OtherRole DEF HeardAt
    <3> QED BY <2>1, <3>1, <3>2
  <2>2. CASE q # r
    <3>1. TaskAt(q) /\ HeardAt(q) /\ pc'[q] = pc[q] /\ sealed'[q] = sealed[q] /\ call'[q] = call[q]
      BY <2>2, <1>5 DEF IInv, Tasks, Heard
    <3> QED BY <3>1, <1>1 DEF TaskAt, HeardAt, Own, Copy, Token, Done, CommitAt
  <2> QED BY <2>1, <2>2
<1>9. Counted'
  BY <1>1 DEF IInv, Counted, Own, Copy, Token, Done
<1>10. ASSUME NEW q \in Roles PROVE CopiesAt(q)'
  <2>1. CopiesAt(q) /\ \A s : CommitAt(q, s)' = CommitAt(q, s) /\ RevealAt(q, s)' = RevealAt(q, s)
    BY <1>1 DEF IInv, Copies, CommitAt, RevealAt
  <2>2. CASE Other(q) = r
    <3>1. ASSUME NEW s \in WireSteps, CommitAt(q, s) # None
          PROVE  s \in 1 .. Len(sealed'[r]) /\ CommitAt(q, s) = sealed'[r][s]
      <4>1. s \in 1 .. Len(sealed[r]) /\ CommitAt(q, s) = sealed[r][s]
        BY <2>1, <2>2, <3>1 DEF CopiesAt
      <4> QED BY <4>1, <1>2, <1>4, <1>5
    <3> QED BY <2>1, <2>2, <3>1, <1>6 DEF CopiesAt
  <2>3. CASE Other(q) # r
    <3>1. sealed'[Other(q)] = sealed[Other(q)]
      BY <2>3, <1>5, OtherRole
    <3> QED BY <2>1, <3>1, <1>6, OtherRole DEF CopiesAt
  <2> QED BY <2>2, <2>3
<1>11. ASSUME NEW q \in Roles, Closed(q) PROVE Closed(q)' /\ q # r
  <2>1. q # r
    BY <1>0, <1>11 DEF Closed, Final
  <2> QED BY <2>1, <1>5, <1>6, <1>11, OtherRole DEF Closed
<1>12. Sent'
  <2> SUFFICES ASSUME NEW c \in net' PROVE RequestAt(c)'
    BY DEF Sent
  <2>1. CASE c \in net
    <3>1. RequestAt(c) /\ c.from \in Roles
      BY <2>1 DEF IInv, Sent, TypeOK, Requests
    <3>2. 1 .. Len(sealed[c.from]) \subseteq 1 .. Len(sealed'[c.from])
      BY <3>1, <1>2, <1>4, <1>5
    <3> QED BY <3>1, <3>2, <1>1, <1>6, <1>11 DEF RequestAt
  <2>2. CASE c \notin net
    <3>1. c = [from |-> r, tool |-> "commit", step |-> step[r], attempt |-> 0]
      BY <2>2, <1>1
    <3>2. step[r] \in 1 .. Len(sealed'[r])
      BY <1>2, <1>4, <1>5
    <3> QED BY <3>1, <3>2 DEF RequestAt
  <2> QED BY <2>1, <2>2
<1>13. Ended'
  <2> SUFFICES ASSUME NEW q \in Roles PROVE EndAt(q)'
    BY DEF Ended
  <2>1. EndAt(q) /\ Other(q) \in Roles
    BY OtherRole DEF IInv, Ended
  <2>2. Closed(Other(q)) => Closed(Other(q))' /\ sealed'[Other(q)] = sealed[Other(q)]
    BY <2>1, <1>5, <1>11
  <2>3. Closed(Other(q)) => Digest(Other(q))' = Digest(Other(q))
    BY <2>1, <2>2, <1>1 DEF Digest
  <2>4. pc'[q] = "done" => pc[q] = "done" /\ Digest(q)' = Digest(q)
    BY <1>1, <1>5 DEF Digest
  <2> QED BY <1>1, <2>1, <2>2, <2>3, <2>4 DEF EndAt
<1> QED BY <1>7, <1>8, <1>9, <1>10, <1>12, <1>13 DEF IInv, Tasks, Heard, Copies
\* A local turn is completed: what the two ledgers count.
LEMMA LocalTurnTaken ==
  ASSUME IInv, NEW r \in Roles, CommitAnswered(r), Accepted(r),
         CompleteLocalTurnOK(ledgers[r], Subgame, step[r], r, Other(r)),
         NEW o \in Roles, o = Other(r)
  PROVE  /\ Own(r) \in Nat /\ Own(o) \in Nat /\ Copy(r) \in Nat /\ Copy(o) \in Nat
         /\ Len(sealed[r]) \in Nat /\ step[r] \in Nat /\ MaxStep \in Nat
         /\ ledgers[r] \in Ledgers /\ ledgers \in [Roles -> Ledgers]
         /\ Len(sealed[r]) = Own(r) + 1 /\ Token(r) = r /\ step[r] = Own(r) + 1
         /\ step[r] \in 1 .. MaxStep
         /\ Token(o) = r /\ Copy(o) = Own(r) /\ Copy(r) = Own(o)
         /\ ledgers' = [ledgers EXCEPT ![r] = CompleteLocalTurn(ledgers[r], Subgame, step[r], r, o)]
         /\ pc' = [pc EXCEPT ![r] = "reveal"] /\ call' = [call EXCEPT ![r] = Fresh]
         /\ net' = net \cup {[from |-> r, tool |-> "reveal", step |-> step[r], attempt |-> 0]}
         /\ pc'[r] = "reveal" /\ call'[r] = Fresh /\ pc'[o] = pc[o] /\ call'[o] = call[o]
         /\ ledgers'[o] = ledgers[o]
         /\ ledgers'[r] = CompleteLocalTurn(ledgers[r], Subgame, step[r], r, o)
         /\ ledgers'[r].commitments = ledgers[r].commitments
         /\ ledgers'[r].reveals = ledgers[r].reveals
         /\ ledgers'[r].completed_steps = [ledgers[r].completed_steps EXCEPT ![<<Subgame, r>>] = step[r]]
         /\ ledgers'[r].token_owners = [ledgers[r].token_owners EXCEPT ![Subgame] = o]
         /\ ledgers'[r] \in Ledgers
         /\ Own(r)' = Own(r) + 1 /\ Token(r)' = o /\ Copy(r)' = Copy(r)
         /\ Own(o)' = Own(o) /\ Token(o)' = r /\ Copy(o)' = Copy(o)
<1>0. /\ pc[r] = "commit" /\ TaskAt(r) /\ HeardAt(r) /\ TypeOK /\ Counted
      /\ step[r] \in 1 .. MaxStep + 1 /\ UNCHANGED <<step, sealed, claims, audits, results>>
  BY DEF CommitAnswered, Answered, IInv, Tasks, Heard, TypeOK
<1>o. o # r /\ Other(o) = r /\ Roles = {r, o}
  BY OtherRole
<1>1. /\ Own(r) \in Nat /\ Own(o) \in Nat /\ Copy(r) \in Nat /\ Copy(o) \in Nat
      /\ Len(sealed[r]) \in Nat /\ step[r] \in Nat /\ MaxStep \in Nat
      /\ ledgers[r] \in Ledgers /\ ledgers \in [Roles -> Ledgers]
  BY <1>0, Numbers DEF TypeOK
<1>2. /\ Len(sealed[r]) = Own(r) + 1 /\ Token(r) = r /\ step[r] = Own(r) + 1
      /\ step[r] \in 1 .. MaxStep
  BY <1>0, <1>1 DEF TaskAt
<1>3. Token(o) = r /\ Copy(o) = Own(r) /\ Copy(r) = Own(o)
  BY <1>0, <1>o, <1>2, Owner
<1>4. CommitAt(o, step[r]) # None
  BY <1>0, <1>o DEF HeardAt, Accepted
<1>5. /\ ledgers' = [ledgers EXCEPT ![r] = CompleteLocalTurn(ledgers[r], Subgame, step[r], r, o)]
      /\ pc' = [pc EXCEPT ![r] = "reveal"] /\ call' = [call EXCEPT ![r] = Fresh]
      /\ net' = net \cup {[from |-> r, tool |-> "reveal", step |-> step[r], attempt |-> 0]}
  BY <1>0, <1>o DEF CommitAnswered, StartCall, Goto, Request
<1>6. /\ pc'[r] = "reveal" /\ call'[r] = Fresh /\ pc'[o] = pc[o] /\ call'[o] = call[o]
      /\ ledgers'[o] = ledgers[o]
      /\ ledgers'[r] = CompleteLocalTurn(ledgers[r], Subgame, step[r], r, o)
  BY <1>0, <1>o, <1>5 DEF TypeOK
<1>7. /\ ledgers'[r].commitments = ledgers[r].commitments
      /\ ledgers'[r].reveals = ledgers[r].reveals
      /\ ledgers'[r].completed_steps = [ledgers[r].completed_steps EXCEPT ![<<Subgame, r>>] = step[r]]
      /\ ledgers'[r].token_owners = [ledgers[r].token_owners EXCEPT ![Subgame] = o]
      /\ ledgers'[r] \in Ledgers
  <2>1. Subgame \in Subgames /\ step[r] \in 0 .. MaxStep
    BY <1>2, GameAssumption
  <2>2. ledgers'[r] \in Ledgers
    <3>1. \A l \in Ledgers, g \in Subgames, n \in 0 .. MaxStep, p \in Roles, t \in Roles :
            CompleteLocalTurn(l, g, n, p, t) \in Ledgers
      BY DEF Ledgers, CompleteLocalTurn
    <3> QED BY <1>o, <1>1, <1>6, <2>1, <3>1
  <2> QED BY <1>1, <1>6, <2>2 DEF CompleteLocalTurn, Ledgers
<1>8. /\ Own(r)' = Own(r) + 1 /\ Token(r)' = o /\ Copy(r)' = Copy(r)
      /\ Own(o)' = Own(o) /\ Token(o)' = r /\ Copy(o)' = Copy(o)
  <2>1. <<Subgame, r>> \in Subgames \X Roles /\ Subgame \in Subgames /\ <<Subgame, o>> # <<Subgame, r>>
    BY <1>o, GameAssumption
  <2>2. /\ ledgers[r].completed_steps \in [Subgames \X Roles -> 0 .. MaxStep]
        /\ ledgers[r].token_owners \in [Subgames -> Roles]
    BY <1>1 DEF Ledgers
  <2>3. /\ ledgers'[r].completed_steps[<<Subgame, r>>] = step[r]
        /\ ledgers'[r].completed_steps[<<Subgame, o>>] = ledgers[r].completed_steps[<<Subgame, o>>]
        /\ ledgers'[r].token_owners[Subgame] = o
    BY <1>o, <1>7, <2>1, <2>2
  <2> QED BY <1>o, <1>2, <1>3, <1>6, <2>3 DEF Own, Copy, Token, Done
<1> QED BY <1>1, <1>2, <1>3, <1>5, <1>6, <1>7, <1>8

LEMMA CommitAnsweredInv ==
  ASSUME IInv, NEW r \in Roles, CommitAnswered(r)
  PROVE  IInv'
<1>0. /\ pc[r] = "commit" /\ TaskAt(r) /\ HeardAt(r) /\ TypeOK /\ Counted
      /\ step[r] \in 1 .. MaxStep + 1 /\ step = [step EXCEPT ![r] = step[r]]
      /\ "aborted" \in Labels /\ "aborted" \notin {"commit", "reveal"}
      /\ UNCHANGED <<step, sealed, claims, audits, results>>
  BY DEF CommitAnswered, Answered, IInv, Tasks, Heard, TypeOK, Labels, Ends
<1>1. CASE ~(Accepted(r) /\ CompleteLocalTurnOK(ledgers[r], Subgame, step[r], r, Other(r)))
  <2>1. Quiet(r, "aborted") /\ ledgers' = ledgers
    BY <1>1 DEF CommitAnswered
  <2>2. Goes(r, "aborted", step[r]) /\ Legal(r, "aborted", step[r])
    BY <1>0, <2>1, QuietMove DEF Legal
  <2> QED BY <1>0, <2>2, MoveInv
<1>2. CASE Accepted(r) /\ CompleteLocalTurnOK(ledgers[r], Subgame, step[r], r, Other(r))
  <2>o. PICK o \in Roles : o = Other(r) /\ o # r /\ Other(o) = r /\ Roles = {r, o}
    BY OtherRole
  <2>1. /\ Own(r) \in Nat /\ Own(o) \in Nat /\ Copy(r) \in Nat /\ Copy(o) \in Nat
        /\ Len(sealed[r]) \in Nat /\ step[r] \in Nat /\ MaxStep \in Nat
        /\ ledgers[r] \in Ledgers /\ ledgers \in [Roles -> Ledgers]
    BY <1>2, <2>o, LocalTurnTaken
  <2>2. /\ Len(sealed[r]) = Own(r) + 1 /\ Token(r) = r /\ step[r] = Own(r) + 1
        /\ step[r] \in 1 .. MaxStep
    BY <1>2, <2>o, LocalTurnTaken
  <2>3. Token(o) = r /\ Copy(o) = Own(r) /\ Copy(r) = Own(o)
    BY <1>2, <2>o, LocalTurnTaken
  <2>4. CommitAt(o, step[r]) # None
    BY <1>0, <1>2, <2>o DEF HeardAt, Accepted
  <2>5. /\ ledgers' = [ledgers EXCEPT ![r] = CompleteLocalTurn(ledgers[r], Subgame, step[r], r, o)]
        /\ pc' = [pc EXCEPT ![r] = "reveal"] /\ call' = [call EXCEPT ![r] = Fresh]
        /\ net' = net \cup {[from |-> r, tool |-> "reveal", step |-> step[r], attempt |-> 0]}
    BY <1>2, <2>o, LocalTurnTaken
  <2>6. /\ pc'[r] = "reveal" /\ call'[r] = Fresh /\ pc'[o] = pc[o] /\ call'[o] = call[o]
        /\ ledgers'[o] = ledgers[o]
        /\ ledgers'[r] = CompleteLocalTurn(ledgers[r], Subgame, step[r], r, o)
    BY <1>2, <2>o, LocalTurnTaken
  <2>7. /\ ledgers'[r].commitments = ledgers[r].commitments
        /\ ledgers'[r].reveals = ledgers[r].reveals
        /\ ledgers'[r].completed_steps = [ledgers[r].completed_steps EXCEPT ![<<Subgame, r>>] = step[r]]
        /\ ledgers'[r].token_owners = [ledgers[r].token_owners EXCEPT ![Subgame] = o]
        /\ ledgers'[r] \in Ledgers
    BY <1>2, <2>o, LocalTurnTaken
  <2>8. /\ Own(r)' = Own(r) + 1 /\ Token(r)' = o /\ Copy(r)' = Copy(r)
        /\ Own(o)' = Own(o) /\ Token(o)' = r /\ Copy(o)' = Copy(o)
    BY <1>2, <2>o, LocalTurnTaken
  <2>9. \A q \in Roles : \A s : CommitAt(q, s)' = CommitAt(q, s) /\ RevealAt(q, s)' = RevealAt(q, s)
    BY <2>o, <2>6, <2>7 DEF CommitAt, RevealAt
  <2>10. TypeOK'
    <3>1. ledgers' \in [Roles -> Ledgers]
      BY <2>1, <2>5, <2>6, <2>7
    <3>2. pc' \in [Roles -> Labels]
      BY <1>0, <2>5 DEF TypeOK, Labels, Calls
    <3>3. call' \in [Roles -> [attempt : 0 .. Retries, answer : {"ok", "refused", None}]]
      BY <1>0, <2>5, GameAssumption DEF TypeOK, Fresh
    <3>4. net' \subseteq Requests
      BY <1>0, <2>5, GameAssumption DEF TypeOK, Requests, Calls
    <3> QED BY <1>0, <3>1, <3>2, <3>3, <3>4 DEF TypeOK
  <2>11. TaskAt(r)' /\ HeardAt(r)'
    <3>1. TaskAt(r)'
      BY <1>0, <2>1, <2>2, <2>6, <2>8 DEF TaskAt, Proposed
    <3>2. call'[r].answer # "ok"
      BY <2>6, GameAssumption DEF Fresh
    <3> QED BY <2>6, <3>1, <3>2 DEF HeardAt
  <2>12. TaskAt(o)' /\ HeardAt(o)'
    <3>1. TaskAt(o) /\ HeardAt(o) /\ Token(o)' = Token(o)
      BY <2>3, <2>8 DEF IInv, Tasks, Heard
    <3> QED BY <1>0, <2>o, <2>6, <2>8, <2>9, <3>1 DEF TaskAt, HeardAt
  <2>13. Counted'
    <3>1. CASE r = Thief
      BY <1>0, <2>o, <2>1, <2>2, <2>3, <2>8, <3>1, OtherRole DEF Counted, Roles, Thief, Police
    <3>2. CASE r = Police
      BY <1>0, <2>o, <2>1, <2>2, <2>3, <2>8, <3>2, OtherRole DEF Counted, Roles, Thief, Police
    <3> QED BY <3>1, <3>2, OtherRole
  <2>14. CopiesAt(r)' /\ CopiesAt(o)'
    <3>1. CopiesAt(r) /\ CopiesAt(o)
      BY DEF IInv, Copies
    <3>2. CopiesAt(r)'
      BY <1>0, <2>o, <2>8, <2>9, <3>1 DEF CopiesAt
    <3>3. \A s \in 1 .. Own(r) + 1 : CommitAt(o, s) # None
      BY <2>o, <2>1, <2>2, <2>4, <3>1 DEF CopiesAt
    <3> QED BY <1>0, <2>o, <2>8, <2>9, <3>1, <3>2, <3>3 DEF CopiesAt
  <2>15. ASSUME NEW q \in Roles, Closed(q) PROVE Closed(q)' /\ q = o
    BY <1>0, <2>o, <2>6, <2>8, <2>15 DEF Closed, Final
  <2>16. Sent'
    <3> SUFFICES ASSUME NEW c \in net' PROVE RequestAt(c)'
      BY DEF Sent
    <3>1. CASE c \in net
      <4>1. RequestAt(c) /\ c.from \in Roles
        BY <3>1 DEF IInv, Sent, TypeOK, Requests
      <4>2. 1 .. Own(c.from) \subseteq 1 .. Own(c.from)'
        BY <2>o, <2>1, <2>8, <4>1
      <4> QED BY <1>0, <2>15, <4>1, <4>2 DEF RequestAt
    <3>2. CASE c \notin net
      <4>1. c = [from |-> r, tool |-> "reveal", step |-> step[r], attempt |-> 0]
        BY <2>5, <3>2
      <4> QED BY <2>1, <2>2, <2>8, <4>1 DEF RequestAt
    <3> QED BY <3>1, <3>2
  <2>17. ASSUME NEW q \in Roles PROVE EndAt(q)'
    <3>1. EndAt(q) /\ Other(q) \in Roles
      BY OtherRole DEF IInv, Ended
    <3>2. Digest(q)' = Digest(q) /\ Digest(Other(q))' = Digest(Other(q))
      BY <1>0 DEF Digest
    <3>3. pc'[q] = "done" => pc[q] = "done"
      BY <2>o, <2>6
    <3> QED BY <1>0, <2>15, <3>1, <3>2, <3>3 DEF EndAt
  <2> QED BY <2>o, <2>10, <2>11, <2>12, <2>13, <2>14, <2>16, <2>17
          DEF IInv, Tasks, Heard, Copies, Ended
<1> QED BY <1>1, <1>2
---------------------------------------------------------------------------
(* A request is handled.                                                    *)

\* What the request leaves of the callers.
LEMMA Answer ==
  ASSUME TypeOK, NEW c \in net, NEW tool, Handle(c, tool, TRUE)
  PROVE  /\ c.tool = tool /\ c.from \in Roles /\ net' = net \ {c} /\ net' \subseteq Requests
         /\ UNCHANGED <<pc, step, sealed>>
         /\ call' \in [Roles -> [attempt : 0 .. Retries, answer : {"ok", "refused", None}]]
         /\ \A q \in Roles : call'[q].answer = "ok" =>
              \/ call[q].answer = "ok"
              \/ q = c.from /\ pc[q] = c.tool /\ step[q] = c.step
<1>1. /\ c.tool = tool /\ net' = net \ {c} /\ UNCHANGED <<pc, step, sealed>>
      /\ call' = IF Current(c) THEN [call EXCEPT ![c.from].answer = "ok"] ELSE call
      /\ c \in Requests /\ net \subseteq Requests
      /\ call \in [Roles -> [attempt : 0 .. Retries, answer : {"ok", "refused", None}]]
  BY DEF Handle, TypeOK
<1>2. c.from \in Roles
  BY <1>1 DEF Requests
<1>3. CASE Current(c)
  <2>1. call' = [call EXCEPT ![c.from].answer = "ok"]
    BY <1>1, <1>3
  <2>2. call' \in [Roles -> [attempt : 0 .. Retries, answer : {"ok", "refused", None}]]
    BY <1>1, <1>2, <2>1
  <2>3. \A q \in Roles : q # c.from => call'[q] = call[q]
    BY <1>1, <1>2, <2>1
  <2> QED BY <1>1, <1>2, <1>3, <2>2, <2>3 DEF Current
<1>4. CASE ~Current(c)
  BY <1>1, <1>2, <1>4
<1> QED BY <1>3, <1>4

\* The peers that are closed stay so, and the parts of the invariant about
\* turns hold, when no ledger changes.
LEMMA LedgersKept ==
  ASSUME IInv, NEW c \in net, NEW tool, Handle(c, tool, TRUE), UNCHANGED ledgers,
         \A q \in Roles : audits[q] # None => audits'[q] # None,
         tool # "commit",
         tool = "reveal" /\ pc[c.from] = "reveal" /\ step[c.from] = c.step
           => Copy(Other(c.from)) = Own(c.from)
  PROVE  /\ Tasks' /\ Heard' /\ Counted' /\ Copies'
         /\ \A q \in Roles : Closed(q) => Closed(q)'
<1>1. /\ UNCHANGED <<pc, step, sealed, ledgers>> /\ c.tool = tool /\ c.from \in Roles
      /\ \A q \in Roles : call'[q].answer = "ok" =>
           \/ call[q].answer = "ok"
           \/ q = c.from /\ pc[q] = c.tool /\ step[q] = c.step
  BY Answer DEF IInv
<1>2. Counted' /\ Copies' /\ \A q \in Roles : Closed(q) => Closed(q)'
  <2>1. Counted' /\ Copies'
    <3>1. UNCHANGED <<sealed, ledgers>>
      BY <1>1
    <3> QED BY <3>1 DEF IInv, Counted, Copies, CopiesAt, Own, Copy, Token, Done, CommitAt, RevealAt
  <2>2. \A q \in Roles : Closed(q) => Closed(q)'
    BY <1>1 DEF Closed, Own, Copy, Done
  <2> QED BY <2>1, <2>2
<1>3. ASSUME NEW q \in Roles PROVE TaskAt(q)'
  <2>1. TaskAt(q)
    BY DEF IInv, Tasks
  <2> QED BY <1>1, <2>1 DEF TaskAt, Own, Token, Done
<1>4. ASSUME NEW q \in Roles PROVE HeardAt(q)'
  <2>1. HeardAt(q)
    BY DEF IInv, Heard
  <2>2. Copy(Other(q))' = Copy(Other(q)) /\ Own(q)' = Own(q)
    BY <1>1 DEF Copy, Own, Done
  <2>3. CommitAt(Other(q), step[q])' = CommitAt(Other(q), step[q])
    BY <1>1 DEF CommitAt
  <2> QED BY <1>1, <2>1, <2>2, <2>3 DEF HeardAt
<1> QED BY <1>2, <1>3, <1>4 DEF Tasks, Heard

LEMMA HandleClaimInv ==
  ASSUME IInv, NEW c \in net, HandleClaim(c)
  PROVE  IInv'
<1>1. /\ Handle(c, "claim", TRUE) /\ UNCHANGED <<ledgers, audits, results>> /\ TypeOK
      /\ claims' = [claims EXCEPT ![Other(c.from)] = claims[Other(c.from)] \cup {c.step}]
  BY DEF HandleClaim, IInv
<1>2. /\ c.tool = "claim" /\ c.from \in Roles /\ net' = net \ {c} /\ net' \subseteq Requests
      /\ UNCHANGED <<pc, step, sealed>>
      /\ call' \in [Roles -> [attempt : 0 .. Retries, answer : {"ok", "refused", None}]]
  BY <1>1, Answer
<1>3. /\ Tasks' /\ Heard' /\ Counted' /\ Copies'
      /\ \A q \in Roles : Closed(q) => Closed(q)'
  BY <1>1, LedgersKept
<1>4. claims' \in [Roles -> SUBSET WireSteps]
  <2>1. c.step \in WireSteps
    BY <1>1, <1>2, LedgerAssumption DEF IInv, Sent, RequestAt, Requests, TypeOK, WireSteps
  <2> QED BY <1>1, <1>2, <2>1, OtherRole DEF TypeOK
<1>5. TypeOK'
  BY <1>1, <1>2, <1>4 DEF TypeOK
<1>6. Sent'
  <2> SUFFICES ASSUME NEW d \in net' PROVE RequestAt(d)'
    BY DEF Sent
  <2>1. RequestAt(d) /\ d.from \in Roles
    BY <1>1, <1>2 DEF IInv, Sent, TypeOK, Requests
  <2> QED BY <1>1, <1>2, <1>3, <2>1 DEF RequestAt, Own, Done
<1>7. ASSUME NEW q \in Roles PROVE EndAt(q)'
  <2>1. EndAt(q) /\ Other(q) \in Roles
    BY OtherRole DEF IInv, Ended
  <2> QED BY <1>1, <1>2, <1>3, <2>1 DEF EndAt, Digest
<1> QED BY <1>3, <1>5, <1>6, <1>7 DEF IInv, Ended

LEMMA HandleAuditInv ==
  ASSUME IInv, NEW c \in net, HandleAudit(c)
  PROVE  IInv'
<1>0. c.tool = "audit" /\ c.from \in Roles /\ TypeOK
  BY DEF HandleAudit, Handle, IInv, TypeOK, Requests
<1>o. PICK o \in Roles : o = Other(c.from) /\ o # c.from /\ Other(o) = c.from
  BY <1>0, OtherRole
<1>p. PICK p \in Roles : p = c.from
  BY <1>0
<1>1. /\ Handle(c, "audit", TRUE) /\ UNCHANGED <<ledgers, claims, results>>
      /\ audits' = [audits EXCEPT ![o] = [records |-> sealed[p], ok |-> TRUE]]
  <2>1. Verdict(ledgers[o], p, sealed[p]) = TRUE
    <3>1. Verdict(ledgers[o], p, sealed[p])
      BY <1>0, <1>o, <1>p, AuditAccepted
    <3>2. Verdict(ledgers[o], p, sealed[p]) \in BOOLEAN
      BY Zenon DEF Verdict
    <3> QED BY <3>1, <3>2
  <2> QED BY <1>o, <1>p, <2>1 DEF HandleAudit
<1>2. /\ net' = net \ {c} /\ net' \subseteq Requests /\ UNCHANGED <<pc, step, sealed>>
      /\ call' \in [Roles -> [attempt : 0 .. Retries, answer : {"ok", "refused", None}]]
  BY <1>0, <1>1, Answer
<1>3. Closed(p) /\ Other(o) = p /\ sealed[p] \in Disclosed
  BY <1>0, <1>o, <1>p DEF IInv, Sent, RequestAt, TypeOK
<1>4. /\ audits'[o] = [records |-> sealed[p], ok |-> TRUE]
      /\ \A q \in Roles : audits[q] # None => audits'[q] = audits[q]
  <2>1. audits'[o] = [records |-> sealed[p], ok |-> TRUE]
    BY <1>0, <1>1, <1>o DEF TypeOK
  <2>2. \A q \in Roles : q # o => audits'[q] = audits[q]
    BY <1>0, <1>1, <1>o DEF TypeOK
  <2>3. audits[o] # None => audits[o] = [records |-> sealed[p], ok |-> TRUE]
    BY <1>3 DEF IInv, Ended, EndAt
  <2> QED BY <2>1, <2>2, <2>3
<1>5. /\ Tasks' /\ Heard' /\ Counted' /\ Copies'
      /\ \A q \in Roles : Closed(q) => Closed(q)'
  BY <1>1, <1>4, LedgersKept
<1>6. TypeOK'
  <2>1. audits' \in [Roles -> [records : Disclosed, ok : BOOLEAN] \cup {None}]
    BY <1>0, <1>1, <1>3 DEF TypeOK
  <2> QED BY <1>0, <1>1, <1>2, <2>1 DEF TypeOK
<1>7. \A q \in Roles : audits[q] # None => Digest(q)' = Digest(q)
  BY <1>2, <1>4 DEF Digest
<1>8. Sent'
  <2> SUFFICES ASSUME NEW d \in net' PROVE RequestAt(d)'
    BY DEF Sent
  <2>1. RequestAt(d) /\ d.from \in Roles
    BY <1>0, <1>2 DEF IInv, Sent, TypeOK, Requests
  <2> QED BY <1>1, <1>2, <1>4, <1>5, <2>1 DEF RequestAt, Own, Done
<1>9. ASSUME NEW q \in Roles PROVE EndAt(q)'
  <2>1. EndAt(q) /\ TaskAt(q) /\ Other(q) \in Roles
    BY OtherRole DEF IInv, Ended, Tasks
  <2>2. /\ pc'[q] = "done" => results'[q] # None /\ results'[q] = Digest(q)'
    BY <1>1, <1>2, <1>7, <2>1 DEF EndAt, TaskAt, Proposed
  <2>3. results'[q] # None =>
          Closed(Other(q))' /\ audits'[Other(q)] # None /\ results'[q] = Digest(Other(q))'
    BY <1>1, <1>4, <1>5, <1>7, <2>1 DEF EndAt
  <2>4. audits'[q] # None =>
          Closed(Other(q))' /\ audits'[q] = [records |-> sealed'[Other(q)], ok |-> TRUE]
    <3>1. CASE q = o
      BY <1>2, <1>3, <1>4, <1>5, <3>1
    <3>2. CASE q # o
      <4>1. audits'[q] = audits[q]
        BY <1>0, <1>1, <3>2 DEF TypeOK
      <4> QED BY <1>2, <1>5, <2>1, <4>1 DEF EndAt
    <3> QED BY <3>1, <3>2
  <2> QED BY <2>2, <2>3, <2>4 DEF EndAt
<1> QED BY <1>5, <1>6, <1>8, <1>9 DEF IInv, Ended

LEMMA HandleResultInv ==
  ASSUME IInv, NEW c \in net, HandleResult(c)
  PROVE  IInv'
<1>0. c.tool = "result" /\ c.from \in Roles /\ TypeOK
  BY DEF HandleResult, Handle, IInv, TypeOK, Requests
<1>o. PICK o \in Roles : o = Other(c.from) /\ o # c.from /\ Other(o) = c.from
  BY <1>0, OtherRole
<1>p. PICK p \in Roles : p = c.from
  BY <1>0
<1>1. /\ Handle(c, "result", TRUE) /\ UNCHANGED <<ledgers, claims, audits>>
      /\ results' = [results EXCEPT ![o] = Digest(p)]
  <2>1. (results[o] \in {None, Digest(p)}) = TRUE
    BY <1>0, <1>o, <1>p, ResultAccepted
  <2> QED BY <1>o, <1>p, <2>1 DEF HandleResult
<1>2. /\ net' = net \ {c} /\ net' \subseteq Requests /\ UNCHANGED <<pc, step, sealed>>
      /\ call' \in [Roles -> [attempt : 0 .. Retries, answer : {"ok", "refused", None}]]
  BY <1>0, <1>1, Answer
<1>3. Closed(p) /\ Other(o) = p /\ audits[p] # None
  BY <1>0, <1>o, <1>p DEF IInv, Sent, RequestAt
<1>4. /\ Tasks' /\ Heard' /\ Counted' /\ Copies'
      /\ \A q \in Roles : Closed(q) => Closed(q)'
  BY <1>1, LedgersKept
<1>5. Digest(p) \in Digests
  <2>1. audits[p].records \in Disclosed /\ sealed[p] \in Disclosed
    BY <1>0, <1>3 DEF TypeOK
  <2> QED BY <2>1 DEF Digest, Digests
<1>6. TypeOK'
  <2>1. results' \in [Roles -> Digests \cup {None}]
    BY <1>0, <1>1, <1>5 DEF TypeOK
  <2> QED BY <1>0, <1>1, <1>2, <2>1 DEF TypeOK
<1>7. \A q \in Roles : Digest(q)' = Digest(q)
  BY <1>1, <1>2 DEF Digest
<1>8. Sent'
  <2> SUFFICES ASSUME NEW d \in net' PROVE RequestAt(d)'
    BY DEF Sent
  <2>1. RequestAt(d) /\ d.from \in Roles
    BY <1>0, <1>2 DEF IInv, Sent, TypeOK, Requests
  <2> QED BY <1>1, <1>2, <1>4, <2>1 DEF RequestAt, Own, Done
<1>9. ASSUME NEW q \in Roles PROVE EndAt(q)'
  <2>1. EndAt(q) /\ Other(q) \in Roles
    BY OtherRole DEF IInv, Ended
  <2>2. CASE q = o
    <3>1. results'[q] = Digest(p) /\ (results[q] # None => results[q] = Digest(p))
      BY <1>0, <1>1, <1>3, <2>1, <2>2 DEF TypeOK, EndAt
    <3>2. /\ audits'[q] # None =>
               Closed(Other(q))' /\ audits'[q] = [records |-> sealed'[Other(q)], ok |-> TRUE]
          /\ Closed(Other(q))' /\ audits'[Other(q)] # None /\ results'[q] = Digest(Other(q))'
      BY <1>1, <1>2, <1>3, <1>4, <1>7, <2>1, <2>2, <3>1 DEF EndAt
    <3>3. pc'[q] = "done" => results'[q] # None /\ results'[q] = Digest(q)'
      BY <1>2, <1>7, <2>1, <3>1 DEF EndAt
    <3> QED BY <3>2, <3>3 DEF EndAt
  <2>3. CASE q # o
    <3>1. results'[q] = results[q]
      BY <1>0, <1>1, <2>3 DEF TypeOK
    <3> QED BY <1>1, <1>2, <1>4, <1>7, <2>1, <3>1 DEF EndAt
  <2> QED BY <2>2, <2>3
<1> QED BY <1>4, <1>6, <1>8, <1>9 DEF IInv, Ended
LEMMA HandleCommitInv ==
  ASSUME IInv, NEW c \in net, HandleCommit(c)
  PROVE  IInv'
<1>0. c.tool = "commit" /\ c.from \in Roles /\ TypeOK /\ Counted
  BY DEF HandleCommit, Handle, IInv, TypeOK, Requests
<1>o. PICK o \in Roles : o = Other(c.from) /\ o # c.from /\ Other(o) = c.from
  BY <1>0, OtherRole
<1>p. PICK p \in Roles : p = c.from /\ Roles = {o, p} /\ Other(p) = o /\ Other(o) = p /\ o # p
  BY <1>0, <1>o, OtherRole
<1>n. c.step \in 1 .. Len(sealed[p]) /\ Len(sealed[p]) <= MaxStep /\ c.step \in WireSteps
  <2>1. c.step \in 1 .. Len(sealed[p]) /\ Len(sealed[p]) <= MaxStep
    BY <1>0, <1>p DEF IInv, Sent, RequestAt, Tasks, TaskAt
  <2>2. MaxStep \in Nat /\ Len(sealed[p]) \in Nat
    BY <1>0, Numbers
  <2> QED BY <2>1, <2>2, WireStep
<1>h. PICK h \in Hashes : h = sealed[p][c.step]
  BY <1>0, <1>n, Numbers
<1>s. PICK n \in WireSteps : n = c.step
  BY <1>n
<1>1. /\ Handle(c, "commit", TRUE) /\ UNCHANGED <<claims, audits, results>>
      /\ ledgers' = [ledgers EXCEPT ![o] = RecordCommit(ledgers[o], CommitOf(c))]
  <2>1. RecordCommitOK(ledgers[o], CommitOf(c)) = TRUE
    <3>1. RecordCommitOK(ledgers[o], CommitOf(c))
      BY <1>0, <1>o, CommitAccepted
    <3>2. RecordCommitOK(ledgers[o], CommitOf(c)) \in BOOLEAN
      BY Zenon DEF RecordCommitOK
    <3> QED BY <3>1, <3>2
  <2> QED BY <1>o, <2>1 DEF HandleCommit
<1>2. /\ net' = net \ {c} /\ net' \subseteq Requests /\ UNCHANGED <<pc, step, sealed>>
      /\ call' \in [Roles -> [attempt : 0 .. Retries, answer : {"ok", "refused", None}]]
      /\ \A q \in Roles : call'[q].answer = "ok" =>
           \/ call[q].answer = "ok"
           \/ q = p /\ pc[q] = "commit" /\ step[q] = n
  BY <1>0, <1>1, <1>p, <1>s, Answer
<1>3. CommitOf(c) \in CommitRequests
  BY <1>0, <1>n, <1>h, <1>p, GameAssumption DEF CommitOf, CommitRequests
<1>4. ledgers' \in [Roles -> Ledgers] /\ ledgers[o] \in Ledgers /\ ledgers[p] \in Ledgers
  BY <1>0, <1>1, <1>3, CommitType DEF TypeOK
<1>5. /\ ledgers'[o].commitments = [ledgers[o].commitments EXCEPT ![<<Subgame, n, p>>] = h]
      /\ ledgers'[o].reveals = ledgers[o].reveals
      /\ ledgers'[o].token_owners = ledgers[o].token_owners
      /\ ledgers'[o].completed_steps = ledgers[o].completed_steps
      /\ ledgers'[p] = ledgers[p]
  <2>1. ledgers'[o] = RecordCommit(ledgers[o], CommitOf(c)) /\ ledgers'[p] = ledgers[p]
    BY <1>0, <1>1, <1>p DEF TypeOK
  <2>2. TurnKey(CommitOf(c)) = <<Subgame, n, p>> /\ CommitOf(c).commitment = h
    BY <1>p, <1>s, <1>h DEF TurnKey, CommitOf
  <2> QED BY <1>4, <2>1, <2>2 DEF RecordCommit, Ledgers
<1>6. \A q \in Roles : Own(q)' = Own(q) /\ Copy(q)' = Copy(q) /\ Token(q)' = Token(q)
  BY <1>5, <1>p DEF Own, Copy, Token, Done
<1>7. /\ \A q \in Roles, s \in WireSteps : RevealAt(q, s)' = RevealAt(q, s)
      /\ \A s : CommitAt(p, s)' = CommitAt(p, s)
      /\ \A s \in WireSteps : CommitAt(o, s)' = IF s = n THEN h ELSE CommitAt(o, s)
  <2>1. \A s \in WireSteps : <<Subgame, s, p>> \in Keys
    BY GameAssumption DEF Keys
  <2>2. ledgers[o].commitments \in [Keys -> Hashes \cup {None}]
    BY <1>4 DEF Ledgers
  <2>3. \A s \in WireSteps : ledgers'[o].commitments[<<Subgame, s, p>>] =
                               IF s = n THEN h ELSE ledgers[o].commitments[<<Subgame, s, p>>]
    BY <1>5, <2>1, <2>2
  <2>4. \A s \in WireSteps : CommitAt(o, s)' = IF s = n THEN h ELSE CommitAt(o, s)
    BY <1>p, <2>3 DEF CommitAt
  <2> QED BY <1>p, <1>5, <2>4 DEF RevealAt, CommitAt
<1>8. h # None /\ \A s \in WireSteps : CommitAt(o, s) # None => CommitAt(o, s)' = CommitAt(o, s)
  <2>1. CommitAt(o, n) # None => CommitAt(o, n) = h
    BY <1>p, <1>s, <1>h DEF IInv, Copies, CopiesAt
  <2> QED BY <1>7, <2>1, LedgerAssumption
<1>9. CopiesAt(p)' /\ CopiesAt(o)'
  <2>1. CopiesAt(p) /\ CopiesAt(o)
    BY DEF IInv, Copies
  <2>2. CopiesAt(p)'
    BY <1>2, <1>p, <1>5, <1>6, <1>7, <2>1 DEF CopiesAt, RevealAt
  <2>3. CopiesAt(o)'
    <3>1. /\ \A s \in 1 .. Own(p) : s \in WireSteps
          /\ \A s \in 1 .. Copy(o) : s \in WireSteps /\ s \in 1 .. Own(p)
      <4>1. Own(p) \in Nat /\ Copy(o) \in Nat /\ Own(p) <= MaxStep
        BY <1>0, Numbers
      <4>2. Copy(o) <= Own(p)
        BY <1>0, <1>p DEF Counted
      <4> QED BY <4>1, <4>2, WireStep
    <3>2. \A s \in 1 .. Own(p) : CommitAt(o, s)' = CommitAt(o, s) /\ CommitAt(o, s) # None
      BY <1>p, <1>8, <2>1, <3>1 DEF CopiesAt
    <3>3. \A s \in WireSteps : CommitAt(o, s)' # None =>
            s \in 1 .. Len(sealed[p]) /\ CommitAt(o, s)' = sealed[p][s]
      BY <1>p, <1>7, <1>n, <1>h, <1>s, <2>1 DEF CopiesAt
    <3> QED BY <1>2, <1>p, <1>6, <1>7, <2>1, <3>1, <3>2, <3>3 DEF CopiesAt
  <2> QED BY <2>2, <2>3
<1>10. ASSUME NEW q \in Roles PROVE TaskAt(q)'
  <2>1. TaskAt(q)
    BY DEF IInv, Tasks
  <2> QED BY <1>1, <1>2, <1>6, <2>1 DEF TaskAt
<1>11. HeardAt(p)'
  <2>1. HeardAt(p)
    BY DEF IInv, Heard
  <2>2. pc[p] = "commit" => step[p] \in WireSteps
    <3>1. pc[p] = "commit" => step[p] \in 1 .. MaxStep
      BY <1>0 DEF IInv, Tasks, TaskAt, TypeOK
    <3> QED BY <3>1, LedgerAssumption, WireStep
  <2>3. pc[p] = "commit" /\ call'[p].answer = "ok" => CommitAt(o, step[p])' # None
    BY <1>2, <1>p, <1>7, <1>8, <2>1, <2>2 DEF HeardAt
  <2>4. pc[p] = "reveal" /\ call'[p].answer = "ok" => Copy(o) = Own(p)
    BY <1>2, <1>p, <2>1 DEF HeardAt
  <2> QED BY <1>2, <1>p, <1>6, <2>1, <2>3, <2>4 DEF HeardAt
<1>12. HeardAt(o)'
  <2>1. HeardAt(o)
    BY DEF IInv, Heard
  <2> QED BY <1>2, <1>p, <1>6, <1>7, <2>1 DEF HeardAt
<1>13. Counted'
  BY <1>0, <1>6, OtherRole DEF Counted, Roles
<1>14. \A q \in Roles : Closed(q) => Closed(q)'
  BY <1>2, <1>6, OtherRole DEF Closed
<1>15. TypeOK'
  BY <1>0, <1>1, <1>2, <1>4 DEF TypeOK
<1>16. Sent'
  <2> SUFFICES ASSUME NEW d \in net' PROVE RequestAt(d)'
    BY DEF Sent
  <2>1. RequestAt(d) /\ d.from \in Roles
    BY <1>0, <1>2 DEF IInv, Sent, TypeOK, Requests
  <2> QED BY <1>1, <1>2, <1>6, <1>14, <2>1 DEF RequestAt
<1>17. ASSUME NEW q \in Roles PROVE EndAt(q)'
  <2>1. EndAt(q) /\ Other(q) \in Roles
    BY OtherRole DEF IInv, Ended
  <2> QED BY <1>1, <1>2, <1>14, <2>1 DEF EndAt, Digest
<1> QED BY <1>p, <1>9, <1>10, <1>11, <1>12, <1>13, <1>15, <1>16, <1>17
        DEF IInv, Tasks, Heard, Copies, Ended
LEMMA HandleRevealInv ==
  ASSUME IInv, NEW c \in net, HandleReveal(c)
  PROVE  IInv'
<1>0. c.tool = "reveal" /\ c.from \in Roles /\ TypeOK /\ Counted
  BY DEF HandleReveal, Handle, IInv, TypeOK, Requests
<1>o. PICK o \in Roles : o = Other(c.from) /\ o # c.from /\ Other(o) = c.from
  BY <1>0, OtherRole
<1>p. PICK p \in Roles : p = c.from /\ Roles = {o, p} /\ Other(p) = o /\ Other(o) = p /\ o # p
  BY <1>0, <1>o, OtherRole
<1>a. /\ Own(p) \in Nat /\ Own(o) \in Nat /\ Copy(p) \in Nat /\ Copy(o) \in Nat
      /\ Own(p) <= MaxStep /\ MaxStep \in Nat /\ Copy(o) <= Own(p)
  BY <1>0, <1>p, Numbers DEF Counted
<1>n. c.step \in 1 .. Own(p) /\ c.step \in WireSteps
  <2>1. c.step \in 1 .. Own(p)
    BY <1>0, <1>p DEF IInv, Sent, RequestAt
  <2> QED BY <1>a, <2>1, WireStep
<1>s. PICK n \in WireSteps : n = c.step /\ n \in 1 .. Own(p)
  BY <1>n
<1>1. /\ Handle(c, "reveal", TRUE) /\ UNCHANGED <<claims, audits, results>>
      /\ ledgers' = [ledgers EXCEPT ![o] = RecordReveal(ledgers[o], RevealOf(c))]
      /\ RecordRevealOK(ledgers[o], RevealOf(c))
  <2>1. RecordRevealOK(ledgers[o], RevealOf(c))
    BY <1>0, <1>o, RevealAccepted
  <2>2. RecordRevealOK(ledgers[o], RevealOf(c)) = TRUE
    <3>1. RecordRevealOK(ledgers[o], RevealOf(c)) \in BOOLEAN
      BY Zenon DEF RecordRevealOK
    <3> QED BY <2>1, <3>1
  <2> QED BY <1>o, <2>1, <2>2 DEF HandleReveal
<1>2. /\ net' = net \ {c} /\ net' \subseteq Requests /\ UNCHANGED <<pc, step, sealed>>
      /\ call' \in [Roles -> [attempt : 0 .. Retries, answer : {"ok", "refused", None}]]
      /\ \A q \in Roles : call'[q].answer = "ok" =>
           \/ call[q].answer = "ok"
           \/ q = p /\ pc[q] = "reveal" /\ step[q] = n
  BY <1>0, <1>1, <1>p, <1>s, Answer
<1>3. RevealOf(c) \in RevealRequests /\ TurnKey(RevealOf(c)) = <<Subgame, n, p>>
  <2>1. Opening \in Evidence
    BY GameAssumption DEF Opening
  <2> QED BY <1>0, <1>n, <1>s, <1>p, <2>1, GameAssumption
          DEF RevealOf, RevealRequests, Opening, TurnKey
<1>4. ledgers' \in [Roles -> Ledgers] /\ ledgers[o] \in Ledgers /\ ledgers[p] \in Ledgers
  <2>1. ledgers[o] \in Ledgers /\ ledgers[p] \in Ledgers
    BY <1>0 DEF TypeOK
  <2>2. RecordReveal(ledgers[o], RevealOf(c)) \in Ledgers
    BY <1>1, <1>3, <2>1, RevealType
  <2> QED BY <1>0, <1>1, <2>1, <2>2 DEF TypeOK
<1>k. ledgers'[o] = RecordReveal(ledgers[o], RevealOf(c)) /\ ledgers'[p] = ledgers[p]
  BY <1>0, <1>1, <1>p DEF TypeOK
<1>t. TypeOK'
  BY <1>0, <1>1, <1>2, <1>4 DEF TypeOK
<1>5. CASE RevealAt(o, n) # None
  <2>1. RevealRecorded(ledgers[o], RevealOf(c))
    BY <1>3, <1>5, <1>p DEF RevealRecorded, RevealAt
  <2>2. ledgers' = ledgers
    BY <1>0, <1>1, <2>1 DEF RecordReveal, TypeOK
  <2>3. pc[p] = "reveal" /\ step[p] = n => Copy(o) = Own(p)
    <3>1. n \in 1 .. Copy(o)
      BY <1>5 DEF IInv, Copies, CopiesAt
    <3>2. pc[p] = "reveal" => step[p] = Own(p)
      BY DEF IInv, Tasks, TaskAt
    <3> QED BY <1>a, <3>1, <3>2
  <2>4. /\ Tasks' /\ Heard' /\ Counted' /\ Copies'
        /\ \A q \in Roles : Closed(q) => Closed(q)'
    BY <1>1, <1>p, <1>s, <2>2, <2>3, LedgersKept
  <2>5. Sent'
    <3> SUFFICES ASSUME NEW d \in net' PROVE RequestAt(d)'
      BY DEF Sent
    <3>1. RequestAt(d) /\ d.from \in Roles
      BY <1>0, <1>2 DEF IInv, Sent, TypeOK, Requests
    <3> QED BY <1>1, <1>2, <2>2, <2>4, <3>1 DEF RequestAt, Own, Done
  <2>6. ASSUME NEW q \in Roles PROVE EndAt(q)'
    <3>1. EndAt(q) /\ Other(q) \in Roles
      BY OtherRole DEF IInv, Ended
    <3> QED BY <1>1, <1>2, <2>4, <3>1 DEF EndAt, Digest
  <2> QED BY <1>t, <2>4, <2>5, <2>6 DEF IInv, Ended
<1>6. CASE RevealAt(o, n) = None
  <2>1. Token(o) = p /\ n = Own(p) /\ n = Copy(o) + 1
    BY <1>0, <1>6, <1>p, <1>s, RevealAccepted
  <2>2. ~RevealRecorded(ledgers[o], RevealOf(c))
    BY <1>3, <1>6, <1>p DEF RevealRecorded, RevealAt
  <2>v. PICK v : v = [commitment |-> CommitAt(o, n), turn_token |-> o, evidence |-> Opening]
    OBVIOUS
  <2>3. /\ ledgers'[o].reveals = [ledgers[o].reveals EXCEPT ![<<Subgame, n, p>>] = v]
        /\ ledgers'[o].commitments = ledgers[o].commitments
        /\ ledgers'[o].token_owners = [ledgers[o].token_owners EXCEPT ![Subgame] = o]
        /\ ledgers'[o].completed_steps =
             [ledgers[o].completed_steps EXCEPT ![<<Subgame, p>>] = n]
    <3>1. Candidate(ledgers[o], RevealOf(c)) = v
      BY <1>3, <1>p, <2>v DEF Candidate, RevealOf, CommitAt, Opening
    <3>2. RevealOf(c).subgame = Subgame /\ RevealOf(c).sender = p /\ RevealOf(c).step = n
          /\ RevealOf(c).turn_token = o
      BY <1>p, <1>s DEF RevealOf
    <3> QED BY <1>3, <1>4, <1>k, <2>2, <3>1, <3>2 DEF RecordReveal, Ledgers
  <2>4. /\ Own(p)' = Own(p) /\ Copy(p)' = Copy(p) /\ Token(p)' = Token(p)
        /\ Own(o)' = Own(o) /\ Copy(o)' = Own(p) /\ Token(o)' = o
    <3>1. /\ <<Subgame, p>> \in Subgames \X Roles /\ <<Subgame, o>> \in Subgames \X Roles
          /\ <<Subgame, o>> # <<Subgame, p>> /\ Subgame \in Subgames
      BY <1>p, GameAssumption
    <3>2. /\ ledgers[o].completed_steps \in [Subgames \X Roles -> 0 .. MaxStep]
          /\ ledgers[o].token_owners \in [Subgames -> Roles]
      BY <1>4 DEF Ledgers
    <3>3. /\ ledgers'[o].completed_steps[<<Subgame, p>>] = n
          /\ ledgers'[o].completed_steps[<<Subgame, o>>] = ledgers[o].completed_steps[<<Subgame, o>>]
          /\ ledgers'[o].token_owners[Subgame] = o
      BY <2>3, <3>1, <3>2
    <3> QED BY <1>p, <1>k, <2>1, <3>3 DEF Own, Copy, Token, Done
  <2>5. /\ \A q \in Roles : \A s : CommitAt(q, s)' = CommitAt(q, s)
        /\ \A s : RevealAt(p, s)' = RevealAt(p, s)
        /\ \A s \in WireSteps : RevealAt(o, s)' = IF s = n THEN v ELSE RevealAt(o, s)
    <3>1. \A s \in WireSteps : <<Subgame, s, p>> \in Keys
      BY GameAssumption DEF Keys
    <3>2. ledgers[o].reveals \in [Keys -> Reveals \cup {None}]
      BY <1>4 DEF Ledgers
    <3>3. \A s \in WireSteps : ledgers'[o].reveals[<<Subgame, s, p>>] =
                                 IF s = n THEN v ELSE ledgers[o].reveals[<<Subgame, s, p>>]
      BY <2>3, <3>1, <3>2
    <3>4. \A s \in WireSteps : RevealAt(o, s)' = IF s = n THEN v ELSE RevealAt(o, s)
      BY <1>p, <3>3 DEF RevealAt
    <3> QED BY <1>p, <1>k, <2>3, <3>4 DEF RevealAt, CommitAt
  <2>6. v # None /\ v.commitment = CommitAt(o, n)
    <3>1. CommitAt(o, n) # None
      BY <1>p, <1>s DEF IInv, Copies, CopiesAt
    <3>2. CommitAt(o, n) \in Hashes
      <4>1. <<Subgame, n, p>> \in Keys
        BY GameAssumption DEF Keys
      <4> QED BY <1>4, <1>p, <3>1, <4>1 DEF Ledgers, CommitAt
    <3>3. Opening \in Evidence
      BY GameAssumption DEF Opening
    <3>4. v \in Reveals
      BY <2>v, <3>2, <3>3 DEF Reveals
    <3> QED BY <2>v, <3>4, NoneIsNoReveal
  <2>7. CopiesAt(p)' /\ CopiesAt(o)'
    <3>1. CopiesAt(p) /\ CopiesAt(o)
      BY DEF IInv, Copies
    <3>2. CopiesAt(p)'
      BY <1>2, <1>p, <2>4, <2>5, <3>1 DEF CopiesAt
    <3>3. \A s \in WireSteps : RevealAt(o, s)' # None <=> s \in 1 .. Own(p)
      <4>1. \A s \in WireSteps : s \in 1 .. Own(p) <=> s = n \/ s \in 1 .. Copy(o)
        BY <1>a, <2>1, LedgerAssumption DEF WireSteps
      <4> QED BY <2>5, <2>6, <3>1, <4>1 DEF CopiesAt
    <3>4. \A s \in 1 .. Own(p) : RevealAt(o, s)' =
            [commitment |-> CommitAt(o, s), turn_token |-> o, evidence |-> Opening]
      <4>1. \A s \in 1 .. Own(p) : s \in WireSteps /\ (s = n \/ s \in 1 .. Copy(o))
        BY <1>a, <2>1, WireStep
      <4> QED BY <2>5, <2>v, <3>1, <4>1 DEF CopiesAt
    <3> QED BY <1>2, <1>p, <2>4, <2>5, <3>1, <3>2, <3>3, <3>4 DEF CopiesAt
  <2>8. TaskAt(p)' /\ TaskAt(o)'
    <3>1. TaskAt(p) /\ TaskAt(o)
      BY DEF IInv, Tasks
    <3> QED BY <1>1, <1>2, <2>4, <3>1 DEF TaskAt
  <2>9. HeardAt(p)' /\ HeardAt(o)'
    <3>1. HeardAt(p) /\ HeardAt(o)
      BY DEF IInv, Heard
    <3>2. HeardAt(p)'
      BY <1>2, <1>p, <2>4, <2>5, <3>1 DEF HeardAt
    <3> QED BY <1>2, <1>p, <2>4, <2>5, <3>1, <3>2 DEF HeardAt
  <2>10. Counted'
    <3>0. /\ Copy(o)' <= Own(p)' /\ Own(p)' <= Copy(o)' + 1
          /\ Copy(p)' <= Own(o)' /\ Own(o)' <= Copy(p)' + 1
      BY <1>0, <1>a, <1>p, <2>4 DEF Counted
    <3>1. CASE o = Thief
      <4>1. p = Police /\ Own(o) = Copy(o) + 1
        BY <1>0, <1>p, <2>1, <3>1, OtherRole DEF Counted
      <4>2. Own(Thief)' = Copy(Thief)' + (IF Token(Thief)' = Thief THEN 0 ELSE 1)
        BY <1>a, <2>1, <2>4, <3>1, <4>1
      <4>3. Copy(Police)' = Own(Police)' + (IF Token(Police)' = Thief THEN 0 ELSE 1)
        BY <1>0, <2>4, <4>1 DEF Counted
      <4> QED BY <1>p, <3>0, <4>2, <4>3 DEF Counted
    <3>2. CASE o = Police
      <4>1. p = Thief /\ Copy(o) = Own(o)
        BY <1>0, <1>a, <1>p, <2>1, <3>2, OtherRole DEF Counted
      <4>2. Copy(Police)' = Own(Police)' + (IF Token(Police)' = Thief THEN 0 ELSE 1)
        BY <1>a, <1>p, <2>1, <2>4, <3>2, <4>1
      <4>3. Own(Thief)' = Copy(Thief)' + (IF Token(Thief)' = Thief THEN 0 ELSE 1)
        BY <1>0, <2>4, <4>1 DEF Counted
      <4> QED BY <1>p, <3>0, <4>2, <4>3 DEF Counted
    <3> QED BY <3>1, <3>2, OtherRole
  <2>11. ASSUME NEW q \in Roles, Closed(q) PROVE Closed(q)'
    BY <1>2, <1>p, <2>4, <2>11 DEF Closed
  <2>12. Sent'
    <3> SUFFICES ASSUME NEW d \in net' PROVE RequestAt(d)'
      BY DEF Sent
    <3>1. RequestAt(d) /\ d.from \in Roles /\ Own(d.from)' = Own(d.from)
      BY <1>0, <1>2, <1>p, <2>4 DEF IInv, Sent, TypeOK, Requests
    <3> QED BY <1>1, <1>2, <2>11, <3>1 DEF RequestAt
  <2>13. ASSUME NEW q \in Roles PROVE EndAt(q)'
    <3>1. EndAt(q) /\ Other(q) \in Roles
      BY OtherRole DEF IInv, Ended
    <3> QED BY <1>1, <1>2, <2>11, <3>1 DEF EndAt, Digest
  <2> QED BY <1>p, <1>t, <2>7, <2>8, <2>9, <2>10, <2>12, <2>13
          DEF IInv, Tasks, Heard, Copies, Ended
<1> QED BY <1>5, <1>6
---------------------------------------------------------------------------
(* The invariant.                                                           *)

LEMMA Initial == Init => IInv
<1> SUFFICES ASSUME Init PROVE IInv
  OBVIOUS
<1>1. /\ Subgame \in Subgames /\ MaxStep \in Nat \ {0} /\ 0 \in 0 .. Retries /\ Thief \in Roles
      /\ \A q \in Roles : q # Thief <=> q = Police
  BY GameAssumption, LedgerAssumption, OtherRole DEF Roles, Thief, Police
<1>2. /\ pc = [q \in Roles |-> IF q = Thief THEN "compute" ELSE "await_commit"]
      /\ net = {} /\ \A q \in Roles : /\ step[q] = 1 /\ sealed[q] = <<>> /\ call[q] = Fresh
                                      /\ ledgers[q] = EmptyLedger /\ claims[q] = {}
                                      /\ audits[q] = None /\ results[q] = None
  BY DEF Init
<1>3. TypeOK
  <2>1. <<>> \in Disclosed /\ 1 \in 1 .. MaxStep + 1 /\ EmptyLedger \in Ledgers
    BY <1>1, EmptyLedgerInv DEF Disclosed
  <2>2. Fresh \in [attempt : 0 .. Retries, answer : {"ok", "refused", None}]
    BY <1>1 DEF Fresh
  <2>3. pc \in [Roles -> Labels] /\ net \subseteq Requests
    BY <1>2 DEF Labels, Waits
  <2> QED BY <2>1, <2>2, <2>3 DEF Init, TypeOK
<1>4. \A q \in Roles : Own(q) = 0 /\ Copy(q) = 0 /\ Token(q) = Thief
  BY <1>1, <1>2, OtherRole DEF Own, Copy, Done, Token, EmptyLedger
<1>5. \A q \in Roles, s \in WireSteps : CommitAt(q, s) = None /\ RevealAt(q, s) = None
  <2>1. \A q \in Roles, s \in WireSteps : <<Subgame, s, Other(q)>> \in Keys
    BY <1>1, OtherRole DEF Keys
  <2> QED BY <1>2, <2>1 DEF CommitAt, RevealAt, EmptyLedger
<1>6. ASSUME NEW q \in Roles PROVE TaskAt(q) /\ HeardAt(q)
  <2>1. Len(sealed[q]) = 0
    BY <1>2
  <2>2. CASE q = Thief
    <3>1. pc[q] = "compute"
      BY <1>2, <2>2
    <3> QED BY <1>1, <1>2, <1>4, <2>1, <2>2, <3>1, OtherRole DEF TaskAt, HeardAt, Proposed
  <2>3. CASE q # Thief
    <3>1. pc[q] = "await_commit"
      BY <1>2, <2>3
    <3> QED BY <1>1, <1>2, <1>4, <2>1, <2>3, <3>1, OtherRole DEF TaskAt, HeardAt, Proposed
  <2> QED BY <2>2, <2>3
<1>7. Counted
  BY <1>1, <1>4, OtherRole DEF Counted, Roles
<1>8. ASSUME NEW q \in Roles PROVE CopiesAt(q)
  BY <1>4, <1>5, OtherRole DEF CopiesAt
<1>9. ASSUME NEW q \in Roles PROVE EndAt(q)
  <2>1. pc[q] # "done"
    BY <1>2
  <2> QED BY <1>2, <2>1 DEF EndAt
<1> QED BY <1>2, <1>3, <1>6, <1>7, <1>8, <1>9 DEF IInv, Tasks, Heard, Copies, Sent, Ended

LEMMA Inductive == IInv /\ [Next]_vars => IInv'
<1> SUFFICES ASSUME IInv, [Next]_vars PROVE IInv'
  OBVIOUS
<1>1. ASSUME NEW r \in Roles, Quietly(r) PROVE IInv'
  BY <1>1, Moves, MoveInv
<1>2. ASSUME NEW r \in Roles, Progress(r) \/ Failure(r) PROVE IInv'
  <2>1. CASE Compute(r)
    BY <2>1, ComputeInv
  <2>2. CASE CommitAnswered(r)
    BY <2>2, CommitAnsweredInv
  <2>3. CASE Quietly(r)
    BY <2>3, <1>1
  <2>4. Compute(r) \/ CommitAnswered(r) \/ Quietly(r)
    BY <1>2, Zenon DEF Progress, Turn, Quietly
  <2> QED BY <2>1, <2>2, <2>3, <2>4
<1>3. CASE Deliver
  BY <1>3, HandleCommitInv, HandleRevealInv, HandleClaimInv, HandleAuditInv, HandleResultInv
  DEF Deliver
<1>4. CASE UNCHANGED vars
  <2>1. TypeOK' /\ Sent'
    BY <1>4 DEF vars, IInv, TypeOK, Sent, RequestAt, Closed, Own, Copy, Done
  <2>2. Tasks' /\ Heard' /\ Counted'
    BY <1>4 DEF vars, IInv, Tasks, Heard, Counted, TaskAt, HeardAt, Own, Copy, Token, Done, CommitAt
  <2>3. Copies' /\ Ended'
    <3>1. /\ UNCHANGED <<pc, sealed, ledgers, audits, results>>
          /\ \A q \in Roles : (Digest(q))' = Digest(q)
      BY <1>4 DEF vars, Digest
    <3>2. Copies'
      BY <3>1 DEF IInv, Copies, CopiesAt, Own, Copy, Done, CommitAt, RevealAt
    <3>3. Ended'
      BY <3>1, OtherRole DEF IInv, Ended, EndAt, Closed, Own, Copy, Done
    <3> QED BY <3>2, <3>3
  <2> QED BY <2>1, <2>2, <2>3 DEF IInv
<1> QED BY <1>2, <1>3, <1>4 DEF Next

LEMMA Invariant == Spec => []IInv
BY Initial, Inductive, PTL DEF Spec
---------------------------------------------------------------------------
(* Every reachable state is a state of the two peers (game.py, ledger.py).  *)
THEOREM TypeCorrect == Spec => []TypeOK
<1>1. IInv => TypeOK
  BY DEF IInv
<1> QED BY <1>1, Invariant, PTL

(* The two services never both take their own peer for the owner of the     *)
(* turn token (game.py:77-78, ledger.py:96-98).                             *)
THEOREM OneTokenHolderHolds == Spec => []OneTokenHolder
<1>1. IInv => OneTokenHolder
  BY OneHolder DEF IInv
<1> QED BY <1>1, Invariant, PTL

(* No request in flight is ever refused, whenever and however often it is   *)
(* handled (ledger.py:52-98, service.py:65-124).                            *)
THEOREM InFlightAcceptedHolds == Spec => []InFlightAccepted
BY InFlight, Invariant, PTL

(* A peer's copy of the opponent's turns is what the opponent sealed, at    *)
(* most one turn behind (ledger.py:52-98).                                  *)
THEOREM CopiesFaithfulHolds == Spec => []CopiesFaithful
BY Faithful, Invariant, PTL

(* A peer that finishes has audited every turn of its opponent and agrees   *)
(* with it on the result (finalize.py:39-51, exchange.py:136-149).          *)
THEOREM FinishedMeansAgreedHolds == Spec => []FinishedMeansAgreed
BY Finished, Invariant, PTL
---------------------------------------------------------------------------
(* The subgame implements the alternating log.                              *)

\* A reveal changes at most how many turns its addressee knows, by one.
LEMMA Learnt ==
  ASSUME IInv, NEW c \in net, HandleReveal(c), NEW p \in Roles, p = c.from,
         NEW o \in Roles, o = Other(p)
  PROVE  /\ UNCHANGED sealed /\ Own(p)' = Own(p) /\ Own(o)' = Own(o) /\ Copy(p)' = Copy(p)
         /\ \/ Copy(o)' = Copy(o)
            \/ Copy(o)' = Copy(o) + 1 /\ Own(p) = Copy(o) + 1
<1>1. /\ o # p /\ Other(o) = p /\ c.tool = "reveal" /\ UNCHANGED sealed
      /\ ledgers \in [Roles -> Ledgers]
  BY OtherRole DEF HandleReveal, Handle, IInv, TypeOK
<1>2. PICK l \in Ledgers : l = ledgers[o]
  BY <1>1
<1>3. /\ ledgers' = ledgers \/ ledgers' = [ledgers EXCEPT ![o] = RecordReveal(l, RevealOf(c))]
  BY <1>2 DEF HandleReveal
<1>4. ledgers'[p] = ledgers[p]
  BY <1>1, <1>3
<1>5. CASE ledgers'[o] = l
  BY <1>1, <1>2, <1>4, <1>5 DEF Own, Copy, Done
<1>6. CASE ledgers'[o] # l
  <2>1. /\ ~RevealRecorded(l, RevealOf(c)) /\ ledgers'[o] = RecordReveal(l, RevealOf(c))
    BY <1>1, <1>2, <1>3, <1>6 DEF RecordReveal
  <2>2. RevealAt(o, c.step) = None
    BY <1>1, <1>2, <2>1 DEF RevealRecorded, RevealOf, TurnKey, RevealAt
  <2>3. c.step = Own(p) /\ c.step = Copy(o) + 1
    BY <1>1, <2>2, RevealAccepted
  <2>4. ledgers'[o].completed_steps = [l.completed_steps EXCEPT ![<<Subgame, p>>] = c.step]
    BY <2>1 DEF RecordReveal, RevealOf, Ledgers
  <2>5. /\ ledgers'[o].completed_steps[<<Subgame, p>>] = c.step
        /\ ledgers'[o].completed_steps[<<Subgame, o>>] = l.completed_steps[<<Subgame, o>>]
    BY <1>1, <2>4, GameAssumption DEF Ledgers
  <2> QED BY <1>1, <1>2, <1>4, <2>3, <2>5 DEF Own, Copy, Done
<1> QED BY <1>5, <1>6

\* Every other step leaves the counts and the sealed turns that are counted.
Logged(r) == /\ Own(r)' = Own(r) /\ Copy(r)' = Copy(r)
             /\ \A s \in 1 .. Own(r) : sealed'[r][s] = sealed[r][s]

LEMMA ComputeLogged ==
  ASSUME IInv, NEW r \in Roles, Compute(r), NEW q \in Roles
  PROVE  Logged(q)
<1>1. /\ UNCHANGED ledgers /\ sealed \in [Roles -> Seq(Hashes)]
      /\ sealed' = [sealed EXCEPT ![r] = Append(sealed[r], SealOf[r, step[r]])]
  BY DEF Compute, service, IInv, TypeOK, Disclosed
<1>2. Own(q)' = Own(q) /\ Copy(q)' = Copy(q)
  BY <1>1 DEF Own, Copy, Done
<1>3. Own(q) \in Nat /\ sealed[q] \in Seq(Hashes) /\ Own(q) <= Len(sealed[q]) /\ Len(sealed[q]) \in Nat
  BY Numbers DEF IInv, Tasks, TaskAt
<1>4. CASE q # r
  BY <1>1, <1>2, <1>4 DEF Logged
<1>5. CASE q = r
  <2>1. sealed'[q] = Append(sealed[q], SealOf[r, step[r]])
    BY <1>1, <1>5
  <2>2. \A s \in 1 .. Own(q) : s \in 1 .. Len(sealed[q])
    BY <1>3
  <2>3. \A x : \A s \in 1 .. Len(sealed[q]) : Append(sealed[q], x)[s] = sealed[q][s]
    BY <1>3
  <2> QED BY <1>2, <2>1, <2>2, <2>3 DEF Logged
<1> QED BY <1>4, <1>5

\* The Thief has taken as many turns as the Police, or one more.
LEMMA Lead ==
  ASSUME IInv
  PROVE  /\ Own(Thief) \in Nat /\ Own(Police) \in Nat
         /\ Own(Police) <= Own(Thief) /\ Own(Thief) <= Own(Police) + 1
         /\ LogLength = Own(Thief) + Own(Police) /\ LogLength \in Nat
<1>1. /\ Own(Thief) \in Nat /\ Copy(Thief) \in Nat /\ Own(Police) \in Nat /\ Copy(Police) \in Nat
      /\ Token(Thief) \in Roles
  BY Numbers DEF IInv, Roles
<1>2. /\ Copy(Thief) <= Own(Police) /\ Own(Police) <= Copy(Thief) + 1
      /\ Own(Thief) = Copy(Thief) + (IF Token(Thief) = Thief THEN 0 ELSE 1)
  BY OtherRole DEF IInv, Counted, Roles
<1>3. Token(Thief) = Thief => Copy(Thief) = Own(Police)
  BY Owner, OtherRole DEF IInv, Roles
<1> QED BY <1>1, <1>2, <1>3 DEF LogLength, Own

\* Where the turn at i of the log is, among those of the Thief or the Police.
LEMMA Halves ==
  ASSUME NEW a \in Nat, NEW b \in Nat, b <= a, a <= b + 1, NEW i \in 1 .. a + b
  PROVE  /\ i % 2 \in {0, 1}
         /\ i % 2 = 1 => (i + 1) \div 2 \in 1 .. a
         /\ i % 2 # 1 => i \div 2 \in 1 .. b
<1>1. i \in Nat /\ i >= 1 /\ i <= a + b
  OBVIOUS
<1>2. PICK k \in Nat : i = 2 * k \/ i = 2 * k + 1
  <2>1. i \div 2 \in Nat /\ (i = 2 * (i \div 2) \/ i = 2 * (i \div 2) + 1)
    BY <1>1
  <2> QED BY <2>1
<1>3. CASE i = 2 * k
  <2>1. i % 2 = 0 /\ i \div 2 = k
    BY <1>3
  <2> QED BY <1>1, <1>3, <2>1
<1>4. CASE i = 2 * k + 1
  <2>1. i % 2 = 1 /\ (i + 1) \div 2 = k + 1
    BY <1>4
  <2> QED BY <1>1, <1>4, <2>1
<1> QED BY <1>2, <1>3, <1>4

LEMMA LogTyped ==
  ASSUME IInv
  PROVE  /\ Log \in Seq(Hashes) /\ Len(Log) = LogLength /\ DOMAIN Log = 1 .. LogLength
         /\ \A i \in 1 .. LogLength :
              /\ i % 2 = 1 => (i + 1) \div 2 \in 1 .. Own(Thief)
              /\ i % 2 # 1 => i \div 2 \in 1 .. Own(Police)
<1>1. \A i \in 1 .. LogLength :
        /\ i % 2 = 1 => (i + 1) \div 2 \in 1 .. Own(Thief)
        /\ i % 2 # 1 => i \div 2 \in 1 .. Own(Police)
  BY Lead, Halves
<1>2. \A r \in Roles : \A s \in 1 .. Own(r) : sealed[r][s] \in Hashes
  <2> SUFFICES ASSUME NEW r \in Roles, NEW s \in 1 .. Own(r) PROVE sealed[r][s] \in Hashes
    OBVIOUS
  <2>1. sealed[r] \in Seq(Hashes) /\ Own(r) <= Len(sealed[r]) /\ Own(r) \in Nat /\ Len(sealed[r]) \in Nat
    BY Numbers DEF IInv, Tasks, TaskAt
  <2> QED BY <2>1
<1>3. Log \in [1 .. LogLength -> Hashes]
  <2>1. ASSUME NEW i \in 1 .. LogLength
        PROVE  (IF i % 2 = 1 THEN sealed[Thief][(i + 1) \div 2] ELSE sealed[Police][i \div 2]) \in Hashes
    BY <1>1, <1>2 DEF Roles
  <2> QED BY <2>1 DEF Log
<1>4. LogLength \in Nat
  BY Lead
<1> QED BY <1>1, <1>3, <1>4
LEMMA LogKept ==
  ASSUME IInv, \A q \in Roles : Logged(q)
  PROVE  UNCHANGED <<Log, Known>>
<1>1. /\ Own(Thief)' = Own(Thief) /\ Own(Police)' = Own(Police)
      /\ \A s \in 1 .. Own(Thief) : sealed'[Thief][s] = sealed[Thief][s]
      /\ \A s \in 1 .. Own(Police) : sealed'[Police][s] = sealed[Police][s]
      /\ \A q \in Roles : Own(q)' = Own(q) /\ Copy(q)' = Copy(q)
  BY DEF Logged, Roles
<1>2. LogLength' = LogLength
  BY <1>1 DEF LogLength, Own
<1>3. \A i \in 1 .. LogLength :
         (IF i % 2 = 1 THEN sealed'[Thief][(i + 1) \div 2] ELSE sealed'[Police][i \div 2])
         = (IF i % 2 = 1 THEN sealed[Thief][(i + 1) \div 2] ELSE sealed[Police][i \div 2])
  BY <1>1, LogTyped
<1>4. Log' = Log
  BY <1>2, <1>3 DEF Log
<1>5. Known' = Known
  <2>1. \A q \in Roles : Done(q, Thief)' + Done(q, Police)' = Done(q, Thief) + Done(q, Police)
    <3> SUFFICES ASSUME NEW q \in Roles
                 PROVE  Done(q, Thief)' = Done(q, Thief) /\ Done(q, Police)' = Done(q, Police)
      OBVIOUS
    <3>1. Done(q, q)' = Done(q, q) /\ Done(q, Other(q))' = Done(q, Other(q))
      BY <1>1 DEF Own, Copy
    <3>2. (q = Thief /\ Other(q) = Police) \/ (q = Police /\ Other(q) = Thief)
      BY OtherRole
    <3> QED BY <3>1, <3>2
  <2> QED BY <2>1 DEF Known
<1> QED BY <1>4, <1>5

\* What each peer knows, in the terms of the counts.
LEMMA Knows == IInv => Known = [q \in Roles |-> Own(q) + Copy(q)]
<1> SUFFICES ASSUME IInv, NEW q \in Roles
             PROVE  Done(q, Thief) + Done(q, Police) = Own(q) + Copy(q)
  BY DEF Known
<1>1. Own(q) \in Nat /\ Copy(q) \in Nat
  BY Numbers DEF IInv
<1>2. CASE q = Thief
  BY <1>2, OtherRole DEF Own, Copy
<1>3. CASE q = Police
  <2>1. Done(q, Thief) = Copy(q) /\ Done(q, Police) = Own(q)
    BY <1>3, OtherRole DEF Own, Copy
  <2> QED BY <1>1, <2>1
<1> QED BY <1>2, <1>3, OtherRole

LEMMA KnowsNext == (IInv => Known = [q \in Roles |-> Own(q) + Copy(q)])'
BY Knows, PTL

\* The completion of a local turn appends it to the log.
LEMMA Taken ==
  ASSUME IInv, IInv', NEW r \in Roles, NEW o \in Roles, o = Other(r), Token(r) = r,
         UNCHANGED sealed, Own(r)' = Own(r) + 1, Own(o)' = Own(o),
         Copy(r)' = Copy(r), Copy(o)' = Copy(o), Len(sealed[r]) = Own(r) + 1
  PROVE  Alternating!Next
<1>1. /\ o # r /\ Roles = {r, o} /\ Copy(r) = Own(o)
      /\ (r = Thief /\ o = Police) \/ (r = Police /\ o = Thief)
  BY OtherRole, Owner DEF IInv
<1>2. /\ Own(r) \in Nat /\ Own(o) \in Nat /\ LogLength = Own(r) + Own(o)
      /\ sealed[r] \in Seq(Hashes) /\ LogLength' = LogLength + 1
  <2>1. LogLength = Own(Thief) + Own(Police) /\ Own(Thief) \in Nat /\ Own(Police) \in Nat
    BY Lead
  <2>2. LogLength' = Own(Thief)' + Own(Police)'
    BY DEF LogLength, Own
  <2> QED BY <1>1, <2>1, <2>2, Numbers DEF IInv
<1>3. PICK t \in Hashes : t = sealed[r][Own(r) + 1]
  BY <1>2
<1>4. IF r = Thief THEN Own(r) = Own(o) ELSE Own(o) = Own(r) + 1
  BY <1>1, <1>2, OtherRole DEF IInv, Counted
<1>5. /\ r = Thief => LogLength % 2 = 0 /\ (LogLength + 1) % 2 = 1
                      /\ (LogLength + 1 + 1) \div 2 = Own(r) + 1
      /\ r # Thief => LogLength % 2 = 1 /\ (LogLength + 1) % 2 = 0
                      /\ (LogLength + 1) \div 2 = Own(r) + 1
  <2>1. CASE r = Thief
    <3>1. LogLength = 2 * Own(r)
      BY <1>2, <1>4, <2>1
    <3> QED BY <1>2, <2>1, <3>1
  <2>2. CASE r # Thief
    <3>1. LogLength = 2 * Own(r) + 1 /\ LogLength + 1 = 2 * (Own(r) + 1) /\ Own(r) + 1 \in Nat
      BY <1>2, <1>4, <2>2
    <3>2. \A k \in Nat : (2 * k + 1) % 2 = 1 /\ (2 * k) % 2 = 0 /\ (2 * k) \div 2 = k
      OBVIOUS
    <3>3. LogLength % 2 = 1
      BY <1>2, <3>1, <3>2
    <3>4. (LogLength + 1) % 2 = 0 /\ (LogLength + 1) \div 2 = Own(r) + 1
      BY <3>1, <3>2
    <3> QED BY <2>2, <3>3, <3>4
  <2> QED BY <2>1, <2>2
<1>6. /\ Log \in Seq(Hashes) /\ Len(Log) = LogLength /\ LogLength \in Nat
  BY LogTyped, Lead
<1>7. Log' = Append(Log, t)
  <2>1. Log' = [i \in 1 .. LogLength + 1 |->
                  IF i % 2 = 1 THEN sealed[Thief][(i + 1) \div 2] ELSE sealed[Police][i \div 2]]
    BY <1>2 DEF Log
  <2>2. \A i \in 1 .. LogLength : Log'[i] = Log[i]
    <3>1. Log = [i \in 1 .. LogLength |->
                   IF i % 2 = 1 THEN sealed[Thief][(i + 1) \div 2] ELSE sealed[Police][i \div 2]]
      BY DEF Log
    <3>2. 1 .. LogLength \subseteq 1 .. LogLength + 1
      BY <1>6
    <3> QED BY <2>1, <3>1, <3>2
  <2>3. Log'[LogLength + 1] = t
    <3>1. LogLength + 1 \in 1 .. LogLength + 1
      BY <1>6
    <3>2. Log'[LogLength + 1] = IF (LogLength + 1) % 2 = 1
                                  THEN sealed[Thief][(LogLength + 1 + 1) \div 2]
                                  ELSE sealed[Police][(LogLength + 1) \div 2]
      BY <2>1, <3>1
    <3> QED BY <1>1, <1>3, <1>5, <3>2
  <2>4. /\ Append(Log, t) \in Seq(Hashes) /\ DOMAIN Append(Log, t) = 1 .. LogLength + 1
        /\ \A i \in 1 .. LogLength : Append(Log, t)[i] = Log[i]
        /\ Append(Log, t)[LogLength + 1] = t
    BY <1>6
  <2>5. Append(Log, t) = [i \in 1 .. LogLength + 1 |-> Append(Log, t)[i]]
    <3>1. Len(Append(Log, t)) = LogLength + 1
      BY <1>6
    <3>2. Append(Log, t) \in [1 .. LogLength + 1 -> Hashes]
      BY <2>4, <3>1, LenProperties
    <3> QED BY <3>2
  <2>6. \A i \in 1 .. LogLength + 1 : Log'[i] = Append(Log, t)[i]
    BY <1>6, <2>2, <2>3, <2>4
  <2> QED BY <2>1, <2>5, <2>6
<1>8. Known[r] = LogLength /\ Known' = [Known EXCEPT ![r] = Known[r] + 1]
  <2>1. Known = [q \in Roles |-> Own(q) + Copy(q)]
    BY Knows
  <2>2. Known' = [q \in Roles |-> Own(q)' + Copy(q)']
    BY KnowsNext
  <2>3. Copy(r) \in Nat /\ Copy(o) \in Nat
    BY Numbers DEF IInv
  <2>4. Own(r)' + Copy(r)' = (Own(r) + Copy(r)) + 1 /\ Own(r) + Copy(r) = LogLength
    BY <1>1, <1>2, <2>3
  <2>5. \A q \in Roles : q # r => Own(q)' + Copy(q)' = Own(q) + Copy(q)
    BY <1>1
  <2> QED BY <2>1, <2>2, <2>4, <2>5
<1>9. Alternating!Due = r
  BY <1>1, <1>5, <1>6, OtherRole DEF Alternating!Due
<1>10. Alternating!Take(r, t)
  BY <1>6, <1>7, <1>8, <1>9 DEF Alternating!Take
<1> QED BY <1>10 DEF Alternating!Next, Alternating!Roles, Roles

\* The first copy of a reveal tells its addressee of one turn.
LEMMA Heeded ==
  ASSUME IInv, IInv', NEW p \in Roles, NEW o \in Roles, o = Other(p),
         UNCHANGED sealed, Own(p)' = Own(p), Own(o)' = Own(o), Copy(p)' = Copy(p),
         Copy(o)' = Copy(o) + 1, Own(p) = Copy(o) + 1
  PROVE  Alternating!Next
<1>1. /\ o # p /\ Roles = {p, o}
      /\ (p = Thief /\ o = Police) \/ (p = Police /\ o = Thief)
  BY OtherRole
<1>2. /\ Own(p) \in Nat /\ Own(o) \in Nat /\ Copy(o) \in Nat /\ Copy(p) \in Nat
      /\ LogLength = Own(p) + Own(o)
  BY <1>1, Lead, Numbers DEF IInv
<1>3. UNCHANGED LogLength /\ UNCHANGED Log
  BY <1>1 DEF LogLength, Log, Own
<1>4. Known = [q \in Roles |-> Own(q) + Copy(q)] /\ Known' = [q \in Roles |-> Own(q)' + Copy(q)']
  BY Knows, KnowsNext
<1>5. Known[o] < Len(Log)
  BY <1>2, <1>4, LogTyped
<1>6. Known' = [Known EXCEPT ![o] = Known[o] + 1]
  <2>1. Own(o)' + Copy(o)' = (Own(o) + Copy(o)) + 1
    BY <1>2
  <2>2. \A q \in Roles : q # o => Own(q)' + Copy(q)' = Own(q) + Copy(q)
    BY <1>1
  <2> QED BY <1>4, <2>1, <2>2
<1>7. Alternating!Learn(o)
  BY <1>3, <1>5, <1>6 DEF Alternating!Learn
<1> QED BY <1>7 DEF Alternating!Next, Alternating!Roles, Roles
LEMMA Implements == IInv /\ IInv' /\ [Next]_vars => [Alternating!Next]_<<Log, Known>>
<1> SUFFICES ASSUME IInv, IInv', [Next]_vars PROVE Alternating!Next \/ UNCHANGED <<Log, Known>>
  OBVIOUS
<1>1. ASSUME UNCHANGED <<sealed, ledgers>> PROVE UNCHANGED <<Log, Known>>
  BY <1>1 DEF Log, Known, LogLength, Done
<1>2. ASSUME NEW r \in Roles, Compute(r) PROVE UNCHANGED <<Log, Known>>
  BY <1>2, ComputeLogged, LogKept
<1>3. ASSUME NEW r \in Roles, CommitAnswered(r)
      PROVE  Alternating!Next \/ UNCHANGED <<Log, Known>>
  <2>1. CASE Accepted(r) /\ CompleteLocalTurnOK(ledgers[r], Subgame, step[r], r, Other(r))
    <3>1. PICK o \in Roles : o = Other(r)
      BY OtherRole
    <3>2. /\ Token(r) = r /\ Len(sealed[r]) = Own(r) + 1
          /\ Own(r)' = Own(r) + 1 /\ Copy(r)' = Copy(r) /\ Own(o)' = Own(o) /\ Copy(o)' = Copy(o)
      BY <1>3, <2>1, <3>1, LocalTurnTaken
    <3> QED BY <1>3, <3>1, <3>2, Taken DEF CommitAnswered
  <2>2. CASE ~(Accepted(r) /\ CompleteLocalTurnOK(ledgers[r], Subgame, step[r], r, Other(r)))
    BY <1>1, <1>3, <2>2 DEF CommitAnswered
  <2> QED BY <2>1, <2>2
<1>4. ASSUME NEW r \in Roles, Quietly(r) PROVE UNCHANGED <<Log, Known>>
  <2>1. PICK l \in Labels, n \in 1 .. MaxStep + 1 : Goes(r, l, n)
    BY <1>4, Moves
  <2> QED BY <1>1, <2>1 DEF Goes
<1>5. ASSUME NEW r \in Roles, Progress(r) \/ Failure(r)
      PROVE  Alternating!Next \/ UNCHANGED <<Log, Known>>
  <2>1. Compute(r) \/ CommitAnswered(r) \/ Quietly(r)
    BY <1>5, Zenon DEF Progress, Turn, Quietly
  <2> QED BY <1>2, <1>3, <1>4, <2>1
<1>6. ASSUME NEW c \in net, HandleCommit(c) PROVE UNCHANGED <<Log, Known>>
  <2>1. PICK o \in Roles : o = Other(c.from)
    BY OtherRole DEF IInv, TypeOK, Requests
  <2>2. /\ UNCHANGED sealed /\ ledgers \in [Roles -> Ledgers]
        /\ ledgers' = ledgers \/ ledgers' = [ledgers EXCEPT ![o] = RecordCommit(ledgers[o], CommitOf(c))]
    BY <1>6, <2>1 DEF HandleCommit, Handle, IInv, TypeOK
  <2>3. \A l \in Ledgers : RecordCommit(l, CommitOf(c)).completed_steps = l.completed_steps
    BY DEF RecordCommit, Ledgers
  <2>4. \A q \in Roles : ledgers'[q].completed_steps = ledgers[q].completed_steps
    BY <2>2, <2>3
  <2>5. \A q \in Roles : Logged(q)
    BY <2>2, <2>4 DEF Logged, Own, Copy, Done
  <2> QED BY <2>5, LogKept
<1>7. ASSUME NEW c \in net, HandleReveal(c)
      PROVE  Alternating!Next \/ UNCHANGED <<Log, Known>>
  <2>1. PICK p \in Roles : p = c.from
    BY DEF IInv, TypeOK, Requests
  <2>2. PICK o \in Roles : o = Other(p) /\ Roles = {p, o}
    BY OtherRole
  <2>3. /\ UNCHANGED sealed /\ Own(p)' = Own(p) /\ Own(o)' = Own(o) /\ Copy(p)' = Copy(p)
        /\ \/ Copy(o)' = Copy(o)
           \/ Copy(o)' = Copy(o) + 1 /\ Own(p) = Copy(o) + 1
    BY <1>7, <2>1, <2>2, Learnt
  <2>4. CASE Copy(o)' = Copy(o)
    <3>1. \A q \in Roles : Logged(q)
      BY <2>2, <2>3, <2>4 DEF Logged
    <3> QED BY <3>1, LogKept
  <2>5. CASE Copy(o)' = Copy(o) + 1 /\ Own(p) = Copy(o) + 1
    BY <2>2, <2>3, <2>5, Heeded
  <2> QED BY <2>3, <2>4, <2>5
<1>8. ASSUME NEW c \in net, HandleClaim(c) \/ HandleAudit(c) \/ HandleResult(c)
      PROVE  UNCHANGED <<Log, Known>>
  <2>1. UNCHANGED <<sealed, ledgers>>
    BY <1>8 DEF HandleClaim, HandleAudit, HandleResult, Handle
  <2> QED BY <1>1, <2>1
<1>9. CASE UNCHANGED vars
  BY <1>1, <1>9 DEF vars
<1> QED BY <1>5, <1>6, <1>7, <1>8, <1>9 DEF Next, Deliver

LEMMA InitialLog == Init => Alternating!Init
<1> SUFFICES ASSUME Init PROVE Alternating!Init
  OBVIOUS
<1>1. \A q \in Roles : Own(q) = 0 /\ Copy(q) = 0
  BY GameAssumption, OtherRole DEF Init, Own, Copy, Done, EmptyLedger
<1>2. LogLength = 0 /\ Known = [q \in Roles |-> 0]
  <2>1. IInv
    BY Initial
  <2>2. Known = [q \in Roles |-> Own(q) + Copy(q)]
    BY <2>1, Knows
  <2>3. LogLength = Own(Thief) + Own(Police)
    BY <2>1, Lead
  <2> QED BY <1>1, <2>2, <2>3 DEF Roles
<1>3. Log = <<>>
  <2>1. Log \in Seq(Hashes) /\ Len(Log) = 0
    BY <1>2, Initial, LogTyped
  <2> QED BY <2>1
<1> QED BY <1>2, <1>3 DEF Alternating!Init, Alternating!Roles, Roles

(* Commit, reveal, two ledgers, repeated calls and timeouts implement the    *)
(* log in which turns alternate and nobody plays before it knows every      *)
(* earlier turn (docs/architecture.md, ledger.py:52-98, game.py:60-96).     *)
THEOREM ImplementsAlternatingLogHolds == Spec => ImplementsAlternatingLog
<1>1. Spec => Init /\ [][Next]_vars
  BY PTL DEF Spec
<1>2. IInv /\ IInv' /\ [Next]_vars => [Alternating!Next]_(Alternating!vars)
  BY Implements DEF Alternating!vars
<1> QED BY <1>1, <1>2, InitialLog, Invariant, PTL DEF ImplementsAlternatingLog, Alternating!Spec
=============================================================================
