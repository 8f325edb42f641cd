-------------------------------- MODULE Gate --------------------------------
(***************************************************************************)
(* reliability/gatekeeper.py inside reporting/gatekeeper.py: one            *)
(* ExternalGatekeeper used by several asyncio tasks, and the circuit        *)
(* breaker around it.  A step runs from one await that suspends to the      *)
(* next.  The bodies of the queue lock do not await, so entering and        *)
(* leaving the queue are parts of the steps around them.                    *)
(*                                                                         *)
(* The semaphore is asyncio's (external): a permit goes to a task directly  *)
(* only when none waits, and a freed permit is granted to the task that has *)
(* waited longest, which resumes in a later step or is cancelled first.     *)
(* A release grants one permit; a task that leaves the queue grants all     *)
(* that are free.                                                           *)
(* The time an attempt or a pause takes is left open; both end.             *)
(***************************************************************************)
EXTENDS Integers, FiniteSets, Sequences

CONSTANTS Callers,           \* tasks, each making one call
          Concurrency, QueueDepth, MaxRetries,
          FailureThreshold

ASSUME GateAssumption == /\ IsFiniteSet(Callers)
                         /\ Concurrency \in Nat \ {0}
                         /\ QueueDepth \in Nat \ {0}
                         /\ MaxRetries \in Nat
                         /\ FailureThreshold \in Nat \ {0}

VARIABLES pc,        \* where each call is
          attempt,   \* the attempt it makes, from 0
          waiting,   \* ExternalGatekeeper._waiting
          permits,   \* free permits of the semaphore
          queue,     \* tasks suspended in the semaphore, in order of arrival
          failures, is_open,  \* CircuitBreaker
          recent     \* history: the calls that failed since one last returned

calls == <<pc, attempt, waiting, permits, queue, failures, is_open>>
gateVars == <<pc, attempt, waiting, permits, queue, failures, is_open, recent>>
circuit == <<failures, is_open>>

\* granted: a permit is assigned, the task has not run yet.
Live == {"waiting", "granted", "running", "sleeping"}
\* failed: QueueFullError, TechnicalLoss or the operation's own error; ended:
\* refused before it was counted, or cancelled.
Ended == {"returned", "failed", "ended"}

GateTypeOK ==
  /\ pc \in [Callers -> Live \cup Ended \cup {"idle"}]
  /\ attempt \in [Callers -> 0 .. MaxRetries]
  /\ waiting \in Nat
  /\ permits \in 0 .. Concurrency
  /\ queue \in Seq(Callers)
  /\ failures \in Nat
  /\ is_open \in BOOLEAN
  /\ recent \in SUBSET Callers

GateInit ==
  /\ pc = [p \in Callers |-> "idle"]
  /\ attempt = [p \in Callers |-> 0]
  /\ waiting = 0
  /\ permits = Concurrency
  /\ queue = <<>>
  /\ failures = 0
  /\ is_open = FALSE
  /\ recent = {}
---------------------------------------------------------------------------
(* The semaphore.                                                           *)

Before(order, p, q) ==
  \E i, j \in DOMAIN order : i < j /\ order[i] = p /\ order[j] = q

\* A call is in the queue once.
Without(order, p) ==
  IF \A i \in DOMAIN order : order[i] # p THEN order
  ELSE LET place == CHOOSE i \in DOMAIN order : order[i] = p
       IN  [i \in 1 .. Len(order) - 1 |-> IF i < place THEN order[i] ELSE order[i + 1]]

\* The calls are at `labels`, and of the `free` permits `most` may go to those
\* waiting longest.
Hand(labels, order, free, most) ==
  LET idlers == {p \in Callers : labels[p] = "waiting"}
  IN  \E granted \in SUBSET idlers :
        /\ Cardinality(granted) = IF most < Cardinality(idlers) THEN most
                                                                ELSE Cardinality(idlers)
        /\ \A p \in granted, q \in idlers \ granted : Before(order, p, q)
        /\ pc' = [p \in Callers |-> IF p \in granted THEN "granted" ELSE labels[p]]
        /\ permits' = free - Cardinality(granted)
        /\ queue' = order
---------------------------------------------------------------------------
(* The circuit.                                                             *)

Failure ==
  /\ failures' = failures + 1
  /\ is_open' = (is_open \/ failures + 1 >= FailureThreshold)

\* The circuit is closed, the count kept.
SuccessFaulty == failures' = failures /\ is_open' = FALSE

Success == failures' = 0 /\ is_open' = FALSE
---------------------------------------------------------------------------
(* A call.                                                                  *)

Queued == {p \in Callers : pc[p] \in {"waiting", "granted"}}

\* The circuit is open, the bucket empty or the quota used up.
Refused(p) ==
  /\ pc[p] = "idle"
  /\ pc' = [pc EXCEPT ![p] = "ended"]
  /\ UNCHANGED <<attempt, waiting, permits, queue>> /\ UNCHANGED circuit

\* The error of the full queue counts as a failure too.
QueueFull(p) ==
  /\ pc[p] = "idle" /\ ~is_open
  /\ waiting >= QueueDepth
  /\ pc' = [pc EXCEPT ![p] = "failed"]
  /\ Failure
  /\ UNCHANGED <<attempt, waiting, permits, queue>>

\* With a free permit and nobody waiting the call enters and leaves the queue
\* at once and makes its first attempt.
EnterQueue(p) ==
  /\ pc[p] = "idle" /\ ~is_open
  /\ waiting < QueueDepth
  /\ IF permits > 0 /\ Queued = {}
       THEN /\ pc' = [pc EXCEPT ![p] = "running"]
            /\ permits' = permits - 1
            /\ UNCHANGED <<waiting, queue>>
       ELSE /\ pc' = [pc EXCEPT ![p] = "waiting"]
            /\ waiting' = waiting + 1
            /\ queue' = Append(queue, p)
            /\ UNCHANGED permits
  /\ UNCHANGED attempt /\ UNCHANGED circuit

\* The call is admitted: it leaves the queue and makes its first attempt.
Admitted(p) ==
  /\ pc[p] = "granted"
  /\ waiting' = waiting - 1
  /\ Hand([pc EXCEPT ![p] = "running"], Without(queue, p), permits, permits)
  /\ UNCHANGED attempt /\ UNCHANGED circuit

\* The permit is released.
Finish(p, end) ==
  /\ Hand([pc EXCEPT ![p] = end], queue, permits + 1, 1)
  /\ attempt' = [attempt EXCEPT ![p] = 0]
  /\ UNCHANGED waiting

Returns(p) == pc[p] = "running" /\ Finish(p, "returned") /\ Success

Raises(p) == pc[p] = "running" /\ Finish(p, "failed") /\ Failure

\* The count of attempts starts over.
TimesOutFaulty(p) ==
  /\ pc[p] = "running"
  /\ pc' = [pc EXCEPT ![p] = "sleeping"]
  /\ attempt' = [attempt EXCEPT ![p] = 0]
  /\ UNCHANGED <<waiting, permits, queue>> /\ UNCHANGED circuit

\* One attempt too many.
TimesOutLateFaulty(p) ==
  /\ pc[p] = "running"
  /\ \/ /\ attempt[p] <= MaxRetries
        /\ pc' = [pc EXCEPT ![p] = "sleeping"]
        /\ UNCHANGED <<attempt, waiting, permits, queue>> /\ UNCHANGED circuit
     \/ attempt[p] > MaxRetries /\ Finish(p, "failed") /\ Failure

\* TimeoutError or OSError: a pause that keeps the permit, or TechnicalLoss.
TimesOut(p) ==
  /\ pc[p] = "running"
  /\ \/ /\ attempt[p] < MaxRetries
        /\ pc' = [pc EXCEPT ![p] = "sleeping"]
        /\ UNCHANGED <<attempt, waiting, permits, queue>> /\ UNCHANGED circuit
     \/ attempt[p] = MaxRetries /\ Finish(p, "failed") /\ Failure

Wakes(p) ==
  /\ pc[p] = "sleeping"
  /\ pc' = [pc EXCEPT ![p] = "running"]
  /\ attempt' = [attempt EXCEPT ![p] = @ + 1]
  /\ UNCHANGED <<waiting, permits, queue>> /\ UNCHANGED circuit

\* Of the permits free after a cancellation, those that are granted at once.
Freed(p)   == IF pc[p] = "waiting" THEN permits ELSE permits + 1
Granted(p) == IF p \in Queued THEN Freed(p) ELSE 1

\* The queue is not left by a call cancelled in it.
CancelFaulty(p) ==
  /\ pc[p] \in Live
  /\ waiting' = waiting
  /\ Hand([pc EXCEPT ![p] = "ended"], Without(queue, p), Freed(p), Granted(p))
  /\ attempt' = [attempt EXCEPT ![p] = 0]
  /\ UNCHANGED circuit

\* CancelledError: the queue is left, a permit held or assigned is released,
\* and the circuit is not told.
Cancel(p) ==
  /\ pc[p] \in Live
  /\ waiting' = IF p \in Queued THEN waiting - 1 ELSE waiting
  /\ Hand([pc EXCEPT ![p] = "ended"], Without(queue, p), Freed(p), Granted(p))
  /\ attempt' = [attempt EXCEPT ![p] = 0]
  /\ UNCHANGED circuit

Attempted(p) == Returns(p) \/ Raises(p) \/ TimesOut(p)

\* What the history makes of the step: it sees how calls end, not the circuit.
Recount ==
  recent' = IF \E p \in Callers : pc[p] # "returned" /\ pc'[p] = "returned" THEN {}
            ELSE recent \cup {p \in Callers : pc[p] # "failed" /\ pc'[p] = "failed"}

GateNext ==
  /\ \E p \in Callers : \/ Refused(p) \/ QueueFull(p) \/ EnterQueue(p) \/ Admitted(p)
                        \/ Attempted(p) \/ Wakes(p) \/ Cancel(p)
  /\ Recount

\* A task that may go on does; an attempt has a deadline, a pause an end.
GateSpec == /\ GateInit /\ [][GateNext]_gateVars
            /\ \A p \in Callers : /\ WF_calls(Admitted(p))
                                  /\ WF_calls(Attempted(p))
                                  /\ WF_calls(Wakes(p))
---------------------------------------------------------------------------
Holding == {p \in Callers : pc[p] \in {"granted", "running", "sleeping"}}

(* No slot of the queue and no permit is lost, whichever way calls end or   *)
(* are cancelled: the counter is the number of calls queued, every permit   *)
(* is free or held, and none is free while a call waits, unless it is about *)
(* to be handed on (gatekeeper.py:44-59).                                   *)
SlotsAccounted ==
  /\ waiting = Cardinality(Queued) /\ waiting <= QueueDepth
  /\ permits + Cardinality(Holding) = Concurrency
  /\ permits > 0 => \/ \A p \in Callers : pc[p] # "waiting"
                    \/ \E p \in Callers : pc[p] = "granted"

(* The breaker counts the calls that have failed since one last returned,   *)
(* each once, however often it was repeated, and neither those refused nor   *)
(* those cancelled; and the circuit is open exactly when they are enough,    *)
(* though calls admitted before it opened end after it, in any order         *)
(* (reporting/gatekeeper.py:30-36, rate_limit.py:82-95).                     *)
CircuitCounts ==
  /\ failures = Cardinality(recent)
  /\ is_open <=> Cardinality(recent) >= FailureThreshold

(* A queued call comes to an end, however many are ahead of it and whatever *)
(* becomes of them (gatekeeper.py:46-59).                                   *)
CallsEnd == \A p \in Callers : pc[p] = "waiting" ~> pc[p] \in Ended
===========================================================================
