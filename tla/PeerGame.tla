----------------------------- MODULE PeerGame -----------------------------
(***************************************************************************)
(* One subgame between two processes: the Thief's game loop                 *)
(* (runtime/game.py, exchange.py, finalize.py, wait.py) with its gatekeeper *)
(* and its protocol service, and the Police peer the contract describes.    *)
(*                                                                         *)
(* Each peer is an asyncio task that alternates between outbound calls and  *)
(* waits for what its own server is sent.  A call is attempted up to        *)
(* Retries + 1 times with the same request; an attempt ends with an answer  *)
(* or, at any moment, with a timeout or a connection error, and its request *)
(* may still be handled later, after the retry, or never.  A wait ends with *)
(* the value or, while the value is absent, with TimeoutError.              *)
(*                                                                         *)
(* The moves themselves are whatever SealOf stands for, and whether a       *)
(* capture is claimed is a free choice (HiddenGame decides both).  The      *)
(* Police loop is external: it mirrors the Thief's calls and waits, as the  *)
(* contract asks.                                                           *)
(***************************************************************************)
EXTENDS TurnLedger, Sequences

CONSTANTS Subgame,      \* the subgame being played
          Threshold,    \* config.turns.survival_threshold
          Retries,      \* ExternalGatekeeper.max_retries
          SealOf        \* commitment of each turn, by role and step
\* MaxStep of TurnLedger is config.turns.max_steps.

ASSUME GameAssumption == /\ Subgames = {Subgame}
                         /\ Threshold \in Nat \ {0}
                         /\ MaxStep > 0
                         /\ Retries \in Nat
                         /\ Evidence # {}
                         /\ SealOf \in [Roles \X (1 .. MaxStep) -> Hashes]
                         /\ None \notin {"ok", "refused"}

Calls  == {"commit", "reveal", "claim", "audit", "result"}
Waits  == {"await_commit", "await_reveal", "await_audit", "await_result"}
Ends   == {"done", "aborted"}
Labels == Calls \cup Waits \cup Ends \cup {"compute"}

VARIABLES pc,        \* where each peer's task is
          step,      \* the loop variable of its turn loop
          sealed,    \* commitments of the turns it has sealed, in order
          call,      \* the gatekeeper's current attempt and its answer
          net,       \* requests sent and not yet handled
          ledgers,   \* the TurnLedger of each peer's service
          claims,    \* steps for which a service logged a capture claim
          audits,    \* opponent's disclosure and verdict, by service
          results    \* opponent's result proposal, by service

vars == <<pc, step, sealed, call, net, ledgers, claims, audits, results>>
service == <<ledgers, claims, audits, results>>

\* The Police may end the game one step beyond the last.
Requests == [from : Roles, tool : Calls, step : 1 .. MaxStep + 1, attempt : 0 .. Retries]
Fresh    == [attempt |-> 0, answer |-> None]

\* A disclosure is the list of sealed turns; a digest, both lists.
Disclosed == Seq(Hashes)
Digests   == [Roles -> Disclosed]

TypeOK ==
  /\ pc \in [Roles -> Labels]
  /\ step \in [Roles -> 1 .. MaxStep + 1]
  /\ sealed \in [Roles -> Disclosed]
  /\ call \in [Roles -> [attempt : 0 .. Retries, answer : {"ok", "refused", None}]]
  /\ net \subseteq Requests
  /\ ledgers \in [Roles -> Ledgers]
  /\ claims \in [Roles -> SUBSET WireSteps]
  /\ audits \in [Roles -> [records : Disclosed, ok : BOOLEAN] \cup {None}]
  /\ results \in [Roles -> Digests \cup {None}]

Init ==
  /\ pc = [r \in Roles |-> IF r = Thief THEN "compute" ELSE "await_commit"]
  /\ step = [r \in Roles |-> 1]
  /\ sealed = [r \in Roles |-> <<>>]
  /\ call = [r \in Roles |-> Fresh]
  /\ net = {}
  /\ ledgers = [r \in Roles |-> EmptyLedger]
  /\ claims = [r \in Roles |-> {}]
  /\ audits = [r \in Roles |-> None]
  /\ results = [r \in Roles |-> None]
---------------------------------------------------------------------------
(* Outbound calls: ExternalGatekeeper.call around one PeerClient method.    *)

Goto(r, label) == pc' = [pc EXCEPT ![r] = label]

Request(r, tool, n) ==
  [from |-> r, tool |-> tool, step |-> step'[r], attempt |-> n]

StartCall(r, tool) ==
  /\ Goto(r, tool)
  /\ call' = [call EXCEPT ![r] = Fresh]
  /\ net' = net \cup {Request(r, tool, 0)}

Quiet(r, label) ==              \* go on without calling
  /\ Goto(r, label)
  /\ UNCHANGED <<call, net>>

\* The attempt is answered: the task goes on, or the error propagates
\* (ToolError and a rejected Ack are not retried).
Answered(r, tool) == pc[r] = tool /\ call[r].answer # None
Accepted(r) == call[r].answer = "ok"

\* One attempt too many.
AttemptFailsFaulty(r) ==
  /\ pc[r] \in Calls
  /\ UNCHANGED <<step, sealed>> /\ UNCHANGED service
  /\ IF call[r].attempt <= Retries
       THEN /\ call' = [call EXCEPT ![r] = [attempt |-> @.attempt + 1, answer |-> None]]
            /\ net' = net \cup {Request(r, pc[r], call[r].attempt + 1)}
            /\ UNCHANGED pc
       ELSE Quiet(r, "aborted")

\* Attempts are not counted.
AttemptFailsEndlessFaulty(r) ==
  /\ pc[r] \in Calls
  /\ UNCHANGED <<pc, step, sealed>> /\ UNCHANGED service
  /\ call' = [call EXCEPT ![r] = Fresh]
  /\ net' = net \cup {Request(r, pc[r], 0)}

\* A retry seals the turn again.
AttemptFailsResealFaulty(r) ==
  /\ pc[r] \in Calls
  /\ UNCHANGED step /\ UNCHANGED service
  /\ IF call[r].attempt < Retries
       THEN /\ call' = [call EXCEPT ![r] = [attempt |-> @.attempt + 1, answer |-> None]]
            /\ net' = net \cup {Request(r, pc[r], call[r].attempt + 1)}
            /\ \E h \in Hashes : sealed' = [sealed EXCEPT ![r][Len(sealed[r])] = h]
            /\ UNCHANGED pc
       ELSE Quiet(r, "aborted") /\ UNCHANGED sealed

\* TimeoutError or OSError: try again, or TechnicalLoss.
AttemptFails(r) ==
  /\ pc[r] \in Calls
  /\ UNCHANGED <<step, sealed>> /\ UNCHANGED service
  /\ IF call[r].attempt < Retries
       THEN /\ call' = [call EXCEPT ![r] = [attempt |-> @.attempt + 1, answer |-> None]]
            /\ net' = net \cup {Request(r, pc[r], call[r].attempt + 1)}
            /\ UNCHANGED pc
       ELSE Quiet(r, "aborted")
---------------------------------------------------------------------------
(* The turn loop.                                                           *)

\* decide_turn: the move is chosen and sealed, then the commitment is sent.
Compute(r) ==
  /\ pc[r] = "compute"
  /\ sealed' = [sealed EXCEPT ![r] = Append(@, SealOf[r, step[r]])]
  /\ UNCHANGED step
  /\ StartCall(r, "commit")
  /\ UNCHANGED service

\* The reveal is sent before the local turn is completed.
CommitAnsweredFaulty(r) ==
  /\ Answered(r, "commit")
  /\ UNCHANGED <<step, sealed>> /\ UNCHANGED service
  /\ IF Accepted(r) THEN StartCall(r, "reveal") ELSE Quiet(r, "aborted")

\* The local turn is complete, and the token given away, before the reveal
\* is sent: the opponent may answer it before its acknowledgment arrives.
CommitAnswered(r) ==
  /\ Answered(r, "commit")
  /\ UNCHANGED <<step, sealed, claims, audits, results>>
  /\ IF Accepted(r) /\ CompleteLocalTurnOK(ledgers[r], Subgame, step[r], r, Other(r))
       THEN /\ ledgers' = [ledgers EXCEPT ![r] =
                             CompleteLocalTurn(@, Subgame, step[r], r, Other(r))]
            /\ StartCall(r, "reveal")
       ELSE Quiet(r, "aborted") /\ UNCHANGED ledgers

\* The Thief stops at the survival threshold, or waits for the Police turn
\* of the same step; the Police waits for the Thief's next step.
RevealAnswered(r) ==
  /\ Answered(r, "reveal")
  /\ UNCHANGED sealed /\ UNCHANGED service
  /\ IF ~Accepted(r)
       THEN Quiet(r, "aborted") /\ UNCHANGED step
     ELSE IF r = Thief
       THEN /\ UNCHANGED step
            /\ IF step[r] >= Threshold THEN StartCall(r, "audit")
                                       ELSE Quiet(r, "await_commit")
       ELSE /\ step' = [step EXCEPT ![r] = @ + 1]
            /\ Quiet(r, "await_commit")

OpponentKey(r) == <<Subgame, step[r], Other(r)>>
HasCommit(r) == step[r] <= MaxStep /\ ledgers[r].commitments[OpponentKey(r)] # None
HasReveal(r) == step[r] <= MaxStep /\ ledgers[r].reveals[OpponentKey(r)] # None

SeeCommit(r) ==
  /\ pc[r] = "await_commit" /\ HasCommit(r)
  /\ Quiet(r, "await_reveal")
  /\ UNCHANGED <<step, sealed>> /\ UNCHANGED service

\* The Police turn is on the table: the Thief claims a public capture, or
\* plays the next step, or has run out of steps.
ThiefSeesReveal ==
  /\ pc[Thief] = "await_reveal" /\ HasReveal(Thief)
  /\ UNCHANGED sealed /\ UNCHANGED service
  /\ \/ UNCHANGED step /\ StartCall(Thief, "claim")
     \/ /\ step[Thief] < MaxStep
        /\ step' = [step EXCEPT ![Thief] = @ + 1]
        /\ Quiet(Thief, "compute")
     \/ /\ step[Thief] = MaxStep
        /\ UNCHANGED step
        /\ StartCall(Thief, "audit")

PoliceSeesReveal ==
  /\ pc[Police] = "await_reveal" /\ HasReveal(Police)
  /\ UNCHANGED <<step, sealed>> /\ UNCHANGED service
  /\ IF step[Police] >= Threshold THEN StartCall(Police, "audit")
                                  ELSE Quiet(Police, "compute")

\* The Police learns that the Thief has ended the game by a claim, or by
\* disclosing its secrets.
GameEndedFor(r) == r = Police /\ (claims[r] # {} \/ audits[r] # None)

PoliceSeesEnd ==
  /\ pc[Police] = "await_commit" /\ GameEndedFor(Police)
  /\ UNCHANGED <<step, sealed>> /\ UNCHANGED service
  /\ StartCall(Police, "audit")
---------------------------------------------------------------------------
(* finalize_game: audits, then results.                                     *)

ClaimAnswered(r) ==
  /\ Answered(r, "claim")
  /\ UNCHANGED <<step, sealed>> /\ UNCHANGED service
  /\ IF Accepted(r) THEN StartCall(r, "audit") ELSE Quiet(r, "aborted")

AuditAnswered(r) ==
  /\ Answered(r, "audit")
  /\ UNCHANGED <<step, sealed>> /\ UNCHANGED service
  /\ Quiet(r, IF Accepted(r) THEN "await_audit" ELSE "aborted")

\* What a peer proposes is computed from its own records and the disclosed ones.
Digest(r) == [p \in Roles |-> IF p = r THEN sealed[r] ELSE audits[r].records]

SeeAudit(r) ==
  /\ pc[r] = "await_audit" /\ audits[r] # None
  /\ audits[r].ok
  /\ UNCHANGED <<step, sealed>> /\ UNCHANGED service
  /\ StartCall(r, "result")

\* The verdict is bad, or reconstruct_audited_subgame finds an illegal action,
\* a false claim or no terminal outcome in the disclosed turns.
AuditRejected(r) ==
  /\ pc[r] = "await_audit" /\ audits[r] # None
  /\ UNCHANGED <<step, sealed>> /\ UNCHANGED service
  /\ Quiet(r, "aborted")

\* The acknowledgment is taken for the agreement.
ResultAnsweredFaulty(r) ==
  /\ Answered(r, "result")
  /\ UNCHANGED <<step, sealed>> /\ UNCHANGED service
  /\ Quiet(r, IF Accepted(r) THEN "done" ELSE "aborted")

ResultAnswered(r) ==
  /\ Answered(r, "result")
  /\ UNCHANGED <<step, sealed>> /\ UNCHANGED service
  /\ Quiet(r, IF Accepted(r) THEN "await_result" ELSE "aborted")

SeeResult(r) ==
  /\ pc[r] = "await_result" /\ results[r] # None
  /\ UNCHANGED <<step, sealed>> /\ UNCHANGED service
  /\ Quiet(r, IF results[r] = Digest(r) THEN "done" ELSE "aborted")

\* wait_for_value: the value is looked up before the deadline is tested.
Awaited(r) == \/ pc[r] = "await_commit" /\ (HasCommit(r) \/ GameEndedFor(r))
              \/ pc[r] = "await_reveal" /\ HasReveal(r)
              \/ pc[r] = "await_audit"  /\ audits[r] # None
              \/ pc[r] = "await_result" /\ results[r] # None

WaitTimeout(r) ==
  /\ pc[r] \in Waits /\ ~Awaited(r)
  /\ UNCHANGED <<step, sealed>> /\ UNCHANGED service
  /\ Quiet(r, "aborted")
---------------------------------------------------------------------------
(* The server side: the service of the addressee handles one request.  A    *)
(* peer whose task failed has exited, and its server with it.               *)

CommitOf(c) == [subgame |-> Subgame, step |-> c.step, sender |-> c.from,
                commitment |-> sealed[c.from][c.step]]
RevealOf(c) == [subgame |-> Subgame, step |-> c.step, sender |-> c.from,
                turn_token |-> Other(c.from), evidence |-> CHOOSE e \in Evidence : TRUE]

Current(c) == /\ pc[c.from] = c.tool
              /\ step[c.from] = c.step
              /\ call[c.from].attempt = c.attempt

\* The request is consumed; its answer reaches the attempt that sent it.
Handle(c, tool, ok) ==
  /\ c \in net /\ c.tool = tool /\ pc[Other(c.from)] # "aborted"
  /\ net' = net \ {c}
  /\ call' = IF Current(c)
               THEN [call EXCEPT ![c.from].answer = IF ok THEN "ok" ELSE "refused"]
               ELSE call
  /\ UNCHANGED <<pc, step, sealed>>

HandleCommit(c) ==
  LET to == Other(c.from)
      ok == RecordCommitOK(ledgers[to], CommitOf(c))
  IN  /\ Handle(c, "commit", ok)
      /\ ledgers' = IF ok THEN [ledgers EXCEPT ![to] = RecordCommit(@, CommitOf(c))]
                          ELSE ledgers
      /\ UNCHANGED <<claims, audits, results>>

HandleReveal(c) ==
  LET to == Other(c.from)
      ok == RecordRevealOK(ledgers[to], RevealOf(c))
  IN  /\ Handle(c, "reveal", ok)
      /\ ledgers' = IF ok THEN [ledgers EXCEPT ![to] = RecordReveal(@, RevealOf(c))]
                          ELSE ledgers
      /\ UNCHANGED <<claims, audits, results>>

\* The claim of a turn is one request: a repetition equals the stored one.
HandleClaim(c) ==
  /\ Handle(c, "claim", TRUE)
  /\ claims' = [claims EXCEPT ![Other(c.from)] = @ \cup {c.step}]
  /\ UNCHANGED <<ledgers, audits, results>>

\* ProtocolService.final_audit: as many records as reveals, each on record.
RevealedSteps(l, r) == {s \in WireSteps : l.reveals[<<Subgame, s, r>>] # None}

Verdict(l, r, records) ==
  /\ RevealedSteps(l, r) = DOMAIN records
  /\ \A s \in DOMAIN records : l.reveals[<<Subgame, s, r>>].commitment = records[s]

HandleAudit(c) ==
  LET to == Other(c.from)
      ok == Verdict(ledgers[to], c.from, sealed[c.from])
  IN  /\ Handle(c, "audit", ok)
      /\ audits' = [audits EXCEPT ![to] = [records |-> sealed[c.from], ok |-> ok]]
      /\ UNCHANGED <<ledgers, claims, results>>

HandleResult(c) ==
  LET to == Other(c.from)
      ok == results[to] \in {None, Digest(c.from)}
  IN  /\ Handle(c, "result", ok)
      /\ results' = IF ok THEN [results EXCEPT ![to] = Digest(c.from)] ELSE results
      /\ UNCHANGED <<ledgers, claims, audits>>
---------------------------------------------------------------------------
Turn(r) == \/ Compute(r) \/ CommitAnswered(r) \/ RevealAnswered(r) \/ SeeCommit(r)
           \/ ClaimAnswered(r) \/ AuditAnswered(r) \/ SeeAudit(r)
           \/ ResultAnswered(r) \/ SeeResult(r)

Progress(r) == \/ Turn(r)
               \/ r = Thief /\ ThiefSeesReveal
               \/ r = Police /\ (PoliceSeesReveal \/ PoliceSeesEnd)

Failure(r) == AttemptFails(r) \/ WaitTimeout(r) \/ AuditRejected(r)

Deliver == \E c \in net : \/ HandleCommit(c) \/ HandleReveal(c) \/ HandleClaim(c)
                          \/ HandleAudit(c) \/ HandleResult(c)

Next == Deliver \/ \E r \in Roles : Progress(r) \/ Failure(r)

\* The event loop runs a task that can go on, and every timer fires; the
\* network owes nothing.
Fairness == \A r \in Roles : WF_vars(Progress(r) \/ Failure(r))

Spec == Init /\ [][Next]_vars /\ Fairness

---------------------------------------------------------------------------
Holds(r) == ledgers[r].token_owners[Subgame] = r
Done(r, p) == ledgers[r].completed_steps[<<Subgame, p>>]

(* The two services never both take their own peer for the owner of the     *)
(* turn token, although the transfer is two updates in two processes with   *)
(* retries and late requests in between (game.py:77-78, ledger.py:96-98).   *)
OneTokenHolder == ~(Holds(Thief) /\ Holds(Police))

(* No request of an honest peer is ever refused: at whatever moment a copy  *)
(* still in flight is handled, first or repeated, late or overtaken, the    *)
(* addressee accepts it; a final disclosure is judged good.                 *)
InFlightAccepted ==
  \A c \in net :
     LET to == Other(c.from)
     IN  /\ c.tool = "commit" => RecordCommitOK(ledgers[to], CommitOf(c))
         /\ c.tool = "reveal" => RecordRevealOK(ledgers[to], RevealOf(c))
         /\ c.tool = "audit"  => Verdict(ledgers[to], c.from, sealed[c.from])
         /\ c.tool = "result" => results[to] \in {None, Digest(c.from)}

(* A peer's copy of its opponent's turns is what the opponent sealed, at    *)
(* most one turn behind it.                                                 *)
CopiesFaithful ==
  \A r \in Roles :
     LET p == Other(r)
     IN  /\ Done(r, p) <= Done(p, p) /\ Done(p, p) <= Done(r, p) + 1
         /\ \A s \in 1 .. MaxStep :
              ledgers[r].commitments[<<Subgame, s, p>>] # None =>
                 /\ s <= Len(sealed[p])
                 /\ ledgers[r].commitments[<<Subgame, s, p>>] = sealed[p][s]

(* A peer that finishes has audited every turn its opponent ever sealed,    *)
(* and holds a proposal of the digest that both peers compute               *)
(* (finalize.py:39-51, exchange.py:136-149).                                *)
FinishedMeansAgreed ==
  \A r \in Roles : pc[r] = "done" =>
     /\ audits[r].ok /\ audits[r].records = sealed[Other(r)]
     /\ results[r] = Digest(r)
     /\ audits[Other(r)] # None /\ Digest(Other(r)) = Digest(r)

(* Nobody waits for ever: every task ends, whatever is lost or delayed      *)
(* (gatekeeper.py:51-57, wait.py:19-20).                                    *)
Terminates == \A r \in Roles : <>(pc[r] \in Ends)

---------------------------------------------------------------------------
(* The subgame implements the alternating log.                              *)

LogLength == Done(Thief, Thief) + Done(Police, Police)

Log == [i \in 1 .. LogLength |->
          IF i % 2 = 1 THEN sealed[Thief][(i + 1) \div 2] ELSE sealed[Police][i \div 2]]

Known == [r \in Roles |-> Done(r, Thief) + Done(r, Police)]

Alternating == INSTANCE AlternatingLog
                 WITH Turns <- Hashes, log <- Log, known <- Known

(* Commit, reveal, ledgers, retries and timeouts together implement the     *)
(* alternating log of turns.                                                *)
ImplementsAlternatingLog == Alternating!Spec
===========================================================================
