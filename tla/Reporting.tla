----------------------------- MODULE Reporting -----------------------------
(***************************************************************************)
(* reporting/gmail.py, duplicates.py, gatekeeper.py and the limits of       *)
(* reliability/rate_limit.py: `thief-agent report` invocations that share   *)
(* one state directory.  Each invocation is a process with its own gate     *)
(* (sdk.deliver_result builds a new one), so only the two files, the        *)
(* registry of delivered digests and the daily quota, are shared; a file is *)
(* read in one step and replaced in a later one.                            *)
(*                                                                         *)
(* The Gmail call runs in a worker thread that a timeout does not stop: the *)
(* gatekeeper tries again while the first call may still succeed.  Gmail is *)
(* external: it takes the message or not, and its response may be lost.     *)
(* A process may also crash; a request it has sent may still be taken.       *)
(***************************************************************************)
EXTENDS Integers, FiniteSets

CONSTANTS Invocations,   \* processes, each run once
          Digest,        \* attachment of each invocation
          DryRun,        \* the invocations in dry-run mode
          Limit,         \* DailyQuota limit
          Retries,       \* ExternalGatekeeper.max_retries
          Days           \* the clock runs from day 1 to this one

ASSUME ReportingAssumption == /\ IsFiniteSet(Invocations)
                              /\ DryRun \subseteq Invocations
                              /\ Limit \in Nat \ {0}
                              /\ Retries \in Nat
                              /\ Days \in Nat \ {0}

Digests == {Digest[p] : p \in Invocations}

VARIABLES pc,         \* where each invocation is
          attempt,    \* the gatekeeper's current attempt, from 0
          threads,    \* Gmail calls in progress, as <<invocation, attempt>>
          mailbox,    \* Gmail calls that were taken, likewise
          registry,   \* delivered.json
          quota,      \* gmail-quota.json: [date, count]
          known,      \* the digests each invocation read before it writes
          counted,    \* the quota each invocation read and advanced
          today,
          overlapping \* whether invocations may overlap in time

vars == <<pc, attempt, threads, mailbox, registry, quota, known, counted, today, overlapping>>

Quotas == [date : 0 .. Days, count : 0 .. Limit]
NoQuota == [date |-> 0, count |-> 0]    \* no file, or nothing read yet
Labels == {"check", "admit", "count", "send", "remember", "record",
           "done", "refused", "lost", "crashed"}
Over   == {"done", "refused", "lost", "crashed"}

TypeOK ==
  /\ pc \in [Invocations -> Labels]
  /\ attempt \in [Invocations -> 0 .. Retries]
  /\ threads \subseteq Invocations \X (0 .. Retries)
  /\ mailbox \subseteq Invocations \X (0 .. Retries)
  /\ registry \subseteq Digests
  /\ quota \in Quotas
  /\ known \in [Invocations -> SUBSET Digests]
  /\ counted \in [Invocations -> Quotas]
  /\ today \in 1 .. Days
  /\ overlapping \in BOOLEAN

Init ==
  /\ pc = [p \in Invocations |-> "check"]
  /\ attempt = [p \in Invocations |-> 0]
  /\ threads = {} /\ mailbox = {}
  /\ registry = {}
  /\ quota = NoQuota
  /\ known = [p \in Invocations |-> {}]
  /\ counted = [p \in Invocations |-> NoQuota]
  /\ today = 1
  /\ overlapping \in BOOLEAN
---------------------------------------------------------------------------
Goto(p, label) == pc' = [pc EXCEPT ![p] = label]

\* Nobody else is in the middle of a delivery.
Alone(p) == \A q \in Invocations \ {p} : pc[q] \in {"check"} \cup Over

\* Faulty: a known digest is delivered again.
EnsureNewFaulty(p) ==
  /\ pc[p] = "check"
  /\ overlapping \/ Alone(p)
  /\ Goto(p, IF p \in DryRun THEN "remember" ELSE "admit")
  /\ UNCHANGED <<attempt, threads, mailbox, registry, quota, known, counted, today, overlapping>>

\* GmailReporter.send up to the delivery; a dry run saves its own file and
\* records the digest without calling Gmail.
EnsureNew(p) ==
  /\ pc[p] = "check"
  /\ overlapping \/ Alone(p)
  /\ Goto(p, IF Digest[p] \in registry THEN "refused"
             ELSE IF p \in DryRun THEN "remember" ELSE "admit")
  /\ UNCHANGED <<attempt, threads, mailbox, registry, quota, known, counted, today, overlapping>>

Current(q) == IF q.date = today THEN q ELSE [date |-> today, count |-> 0]

\* Faulty: the limit is tested after the count.
QuotaReadFaulty(p) ==
  /\ pc[p] = "admit"
  /\ IF Current(quota).count > Limit
       THEN Goto(p, "refused") /\ UNCHANGED counted
       ELSE Goto(p, "count") /\ counted' = [counted EXCEPT ![p] = Current(quota)]
  /\ UNCHANGED <<attempt, threads, mailbox, registry, quota, known, today, overlapping>>

\* The circuit of a new gate is closed and its bucket full; then DailyQuota
\* reads its file, and writes the advanced count.
QuotaRead(p) ==
  /\ pc[p] = "admit"
  /\ IF Current(quota).count >= Limit
       THEN Goto(p, "refused") /\ UNCHANGED counted
       ELSE Goto(p, "count") /\ counted' = [counted EXCEPT ![p] = Current(quota)]
  /\ UNCHANGED <<attempt, threads, mailbox, registry, quota, known, today, overlapping>>

QuotaWrite(p) ==
  /\ pc[p] = "count"
  /\ quota' = [counted[p] EXCEPT !.count = @ + 1]
  /\ threads' = threads \cup {<<p, 0>>}
  /\ Goto(p, "send")
  /\ UNCHANGED <<attempt, mailbox, registry, known, counted, today, overlapping>>
---------------------------------------------------------------------------
(* ExternalGatekeeper.call around _send_live.                               *)

\* Gmail takes the message of a call in progress.
Taken(p, n) ==
  /\ <<p, n>> \in threads \ mailbox
  /\ mailbox' = mailbox \cup {<<p, n>>}
  /\ UNCHANGED <<pc, attempt, threads, registry, quota, known, counted, today, overlapping>>

\* The call returns; only the current attempt is still waited for.
Returns(p, n) ==
  /\ <<p, n>> \in threads \cap mailbox
  /\ threads' = threads \ {<<p, n>>}
  /\ IF pc[p] = "send" /\ n = attempt[p] THEN Goto(p, "remember") ELSE UNCHANGED pc
  /\ UNCHANGED <<attempt, mailbox, registry, quota, known, counted, today, overlapping>>

\* Faulty: the call that failed is taken for a delivery when none is left.
RetryFaulty(p, others) ==
  IF attempt[p] < Retries
    THEN /\ attempt' = [attempt EXCEPT ![p] = @ + 1]
         /\ threads' = others \cup {<<p, attempt[p] + 1>>}
         /\ UNCHANGED pc
    ELSE Goto(p, "remember") /\ threads' = others /\ UNCHANGED attempt

\* Faulty: one attempt more than was asked for.
RetryTypeFaulty(p, others) ==
  IF attempt[p] <= Retries
    THEN /\ attempt' = [attempt EXCEPT ![p] = @ + 1]
         /\ threads' = others \cup {<<p, attempt[p] + 1>>}
         /\ UNCHANGED pc
    ELSE Goto(p, "lost") /\ threads' = others /\ UNCHANGED attempt

\* After a failed attempt: the next one, or TechnicalLoss; `others` are the
\* calls still in progress.
Retry(p, others) ==
  IF attempt[p] < Retries
    THEN /\ attempt' = [attempt EXCEPT ![p] = @ + 1]
         /\ threads' = others \cup {<<p, attempt[p] + 1>>}
         /\ UNCHANGED pc
    ELSE Goto(p, "lost") /\ threads' = others /\ UNCHANGED attempt

\* The deadline passes; the thread goes on.
TimesOut(p) ==
  /\ pc[p] = "send"
  /\ Retry(p, threads)
  /\ UNCHANGED <<mailbox, registry, quota, known, counted, today, overlapping>>

\* The call raises, before or after Gmail took the message: _send_live turns
\* the error of the current attempt into an OSError, which is retried.
Raises(p, n) ==
  /\ <<p, n>> \in threads
  /\ IF pc[p] = "send" /\ n = attempt[p]
       THEN Retry(p, threads \ {<<p, n>>})
       ELSE threads' = threads \ {<<p, n>>} /\ UNCHANGED <<pc, attempt>>
  /\ UNCHANGED <<mailbox, registry, quota, known, counted, today, overlapping>>
---------------------------------------------------------------------------
\* DuplicateRegistry.record: load, add, save.
RecordRead(p) ==
  /\ pc[p] = "remember"
  /\ known' = [known EXCEPT ![p] = registry]
  /\ Goto(p, "record")
  /\ UNCHANGED <<attempt, threads, mailbox, registry, quota, counted, today, overlapping>>

RecordWrite(p) ==
  /\ pc[p] = "record"
  /\ registry' = known[p] \cup {Digest[p]}
  /\ Goto(p, "done")
  /\ UNCHANGED <<attempt, threads, mailbox, quota, known, counted, today, overlapping>>

\* A process ends in the middle of a delivery: between the call and the record,
\* or between the load and the save.  An admission not yet written is forgotten.
Crash(p) ==
  /\ pc[p] \notin {"check"} \cup Over
  /\ Goto(p, "crashed")
  /\ counted' = IF pc[p] = "count" THEN [counted EXCEPT ![p] = NoQuota] ELSE counted
  /\ UNCHANGED <<attempt, threads, mailbox, registry, quota, known, today, overlapping>>

Midnight == /\ today < Days
            /\ today' = today + 1
            /\ UNCHANGED <<pc, attempt, threads, mailbox, registry, quota, known, counted, overlapping>>

Step(p) == \/ EnsureNew(p) \/ QuotaRead(p) \/ QuotaWrite(p) \/ TimesOut(p)
           \/ RecordRead(p) \/ RecordWrite(p) \/ Crash(p)

Next == \/ \E p \in Invocations : Step(p)
        \/ \E p \in Invocations, n \in 0 .. Retries :
             Taken(p, n) \/ Returns(p, n) \/ Raises(p, n)
        \/ Midnight

Spec == Init /\ [][Next]_vars
---------------------------------------------------------------------------
Messages(d) == {m \in mailbox : Digest[m[1]] = d}

(* A digest is recorded, and a delivery reported, only for a message Gmail   *)
(* has taken or for a dry run: no failed delivery keeps a result from being *)
(* sent later (gmail.py:66-68, duplicates.py:16).                           *)
RecordedWasDelivered ==
  /\ \A d \in registry : Messages(d) # {} \/ \E p \in DryRun : Digest[p] = d
  /\ \A p \in Invocations \ DryRun :
       pc[p] \in {"remember", "record", "done"} => \E m \in mailbox : m[1] = p

Admitted(day) == {p \in Invocations \ DryRun : counted[p].date = day}

(* No day admits more deliveries than the limit to the Gmail API while       *)
(* invocations follow one another, though midnight may fall between the     *)
(* quota's read and its write, or before the call (rate_limit.py:62-71).    *)
AdmittedWithinLimit ==
  ~overlapping => \A day \in 1 .. Days : Cardinality(Admitted(day)) <= Limit

(* Invocations that follow one another deliver a result a second time only  *)
(* when an earlier one reported a loss (a message taken after all, whose    *)
(* response was late or missing) or crashed before it recorded the digest:   *)
(* duplicates.py:21-24, gmail.py:66-68.                                      *)
ResentOnlyAfterLoss ==
  ~overlapping =>
    \A m, k \in mailbox : m[1] # k[1] /\ Digest[m[1]] = Digest[k[1]] =>
       {"lost", "crashed"} \cap {pc[m[1]], pc[k[1]]} # {}
===========================================================================
