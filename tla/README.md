# A verification model of thief-agent

thief-agent plays the Thief of a Police-and-Thief series against a Police peer
it does not trust. The two processes talk over MCP: each serves tools to the
other and drives its own game loop. Moves stay secret until a subgame is over;
during play a peer only sees commitments, hints, delayed scent and barriers.
This directory models the parts of that system whose correctness depends on
order, loss, repetition and hidden state, checks them with TLC and proves the
central facts with TLAPS. Paths below are relative to `src/thief_agent/` of the
repository unless they start with `docs/`.

## Inventory

| Component | State | Operations | Talks to | Hard because |
|---|---|---|---|---|
| turn ledger (`protocol/ledger.py`) | commitments, reveals, token owner, completed steps | record_commit, record_reveal, complete_local_turn | service (inbound), game loop (own turn) | duplicates, conflicts, late copies |
| protocol service (`protocol/service.py`, `network/server.py`) | negotiation, claims, audit records and verdicts, result proposals | one handler per MCP tool | ledger; read by the game loop | requests of another process at any moment |
| game loop (`runtime/game.py`, `exchange.py`, `finalize.py`, `wait.py`) | step, sealed turns, live board | turn, audit, result | gatekeeper, service | two loops call and wait on each other |
| gatekeeper (`reliability/gatekeeper.py`) | waiting count, semaphore, attempt | call | wraps each outbound request | a timed-out request may still be handled |
| board and outcome (`domain/`) | positions, barriers, step | moves, barriers, capture, imprisonment | live state, audit replay | earliest terminal event, boundaries |
| live state and audit replay (`runtime/live_state.py`, `terminal.py`, `audit_replay.py`, `presentation.py`) | what the Thief knows; the objective board | public barrier, capture claim, reconstruction, last snapshot | game loop, monitor | decisions on partial knowledge are judged on full knowledge |
| series (`runtime/series.py`, `negotiation.py`, `result_exchange.py`, `entrypoint.py`) | anchor, subgame results, artifacts | negotiate, play, agree, write, exit | gatekeeper, service, store | two peers finish or fail at different moments |
| reporting (`reporting/`, `reliability/rate_limit.py`) | delivered digests, daily count, mailbox | ensure_new, quota, send, record | Gmail | threads that outlive a timeout, shared files |
| reporting gate (`reporting/gatekeeper.py`, `reliability/`) | queue, permits, circuit | call, cancel | wraps Gmail requests | cancellation at any await, calls that end after the circuit opened |
| belief (`belief/model.py`) | probabilities of the Police's cell | update, predict | game loop, strategy | evidence about a hidden position |
| replay verifier (`replay/verifier.py`), qualification run (`qualification/game.py`) | the objective board again | verify, run_game | CLI | second and third copy of the rules |
| watchdog, orchestrator, checkpoint (`reliability/`, `orchestrator.py`) | heartbeat, last sealed turn, a file | decide_turn, save | game loop, strategy, language | limits that must fit one another, a crash between two steps |
| commit-reveal, audit of disclosures (`crypto/`, `runtime/audit_replay.py`) | a verdict and a rebuilt game | seal, disclose, verify, replay | game loop, offline verifier | a disclosure may be anything |
| scent (`domain/scent.py`, `protocol/scent.py`) | a trail per player | emit, decay, deposit | orchestrator, audit, verifier | one turn of delay, rebuilt much later |
| strategy, language | scores, text | evaluate, hint | orchestrator | numeric |
| artifacts, UI, configuration, CLI | files, windows | write, render, parse | user | - |

`PROJECT.json` gives each one's status and lists the hazards of the code line by
line, with the properties that cover them or the reason none does yet.

What makes each component correct: the ledger keeps strict alternation and never
loses or replaces a turn; the service keeps first writes and judges a disclosure
against what it recorded; the two loops end, agreed or aborted, and never refuse
one another's honest requests; what the Thief decides from public facts is what
the audit finds, and the three implementations of the rules agree on every honest
game; what the audit accepts is the game that was played, and the offline verifier
accepts it too; the limits on calls, waits and turns let a healthy game finish and
end a dead one; a belief never excludes a Police off its own barriers; a gate neither
loses a slot nor lets a call starve; a series result on disk is one both peers
computed; a delivery on record has happened.

## Modules

* **TurnLedger** - `protocol/ledger.py` as a value. Each method is a guard
  (`...OK`, the code raises where it is false) and the value it leaves. Dicts are
  total functions with `None` for an absent key. The compared payload of a reveal
  is one member of `Evidence`.
* **ProtocolService** extends it with the rest of `protocol/service.py`: one action
  per tool that changes state and `LocalTurn`, the write of `runtime/game.py:77`.
  A handler has no await, so it is one step; one that raises is no step.
* **AlternatingLog** - what a subgame promises (`docs/architecture.md`, "Turns
  ping-pong"): one log, alternating writers, each writing only when it knows all
  before. Nothing about how.
* **PeerGame** - two peers, each a ledger, a service and a task: `pc` is the await
  the task is at, `call` the gatekeeper's current attempt, `net` the requests
  sent and not handled, which may be handled late, out of order or never.
  `AttemptFails` is a timeout or connection error, `Handle...` the server side.
  The Police loop is external and mirrors the Thief's, as `docs/protocol.md`
  asks. PeerGame implements AlternatingLog under the mapping `Log`, `Known`: a
  turn is taken when its sender completes it locally and learnt when the
  opponent records its reveal.
* **Board** - `domain/board.py`, `state.py`, `outcome.py` as operators.
* **Belief**, **Replay**, **Qualification** - operators for the belief's support, the
  offline verifier and the qualification run, each as a fold over the actions: the
  value after one action is a function of the value before and the action.
* **HiddenGame** - one subgame on three boards: the Thief's `live` one, whose Police
  position is never updated, the Police's own, and the one `audit_replay.py`
  reconstructs, kept as it would stand if the game ended now. Beside it `log` and
  `trial` hold what the offline verifier and a qualification run make of the same
  actions, and `belief` what the Thief holds possible. Both strategies are free
  within the moves the code ranks, so every strategy is covered.
* **Disclosure** - what a disclosure proves. The game is played; the record of each turn
  is sealed from it as `decide_turn` and `audit_record` do and shown to two readers, the
  audit (`reconstruct_audited_subgame`, with `verify_audit` and `validate_claims`) and the
  offline verifier, each a fold over the records with its own board and trails. In each
  game at most one record is not what was sealed: a half of it is changed, it is
  changed and sealed anew, left out, or one is added at the end (`trick`); `liar` is
  the player whose latest record tells another action than it took. A commitment is
  the material it was made of, with its nonce. A trail is exact: after n decays it
  counts hundredths of 10^-n (`unit`), so that a decay multiplies by nine and never
  rounds. The code computes floats; a player and both readers do the same operations
  in the same order, so that equal trails stay equal. What is proved of different
  trails is proved of the exact ones.
* **Deadlines** - one subgame on a clock: the phases of both peers' loops, the attempts and
  pauses of each call, the waits, the Thief's watchdog, and the steps of
  `CheckpointStore.save`; a peer may crash between any two steps and a write may
  fail. Requests and answers are in flight until they are handled and received: an
  attempt that was handled (`answered`) may still fail, and what was sent and not handled
  (`sent`, `handled`) may be handled after its attempt, or its sender, has ended
  (`HandleLate`). It keeps none of the contents (PeerGame's) but the turn of the
  checkpoint.
* **Series** - two runners from start to exit with health, negotiation, step zero,
  subgames, results, artifacts, the shutdown grace, and every failure exit. A
  subgame is the moment a peer has its audited outcome.
* **Reporting** - several `report` processes over one state directory: the registry
  and the quota are read in one step and replaced in another, Gmail calls run in
  threads that a timeout does not stop, and a process may die before it has
  recorded what Gmail took.
* **Gate** - the gatekeeper and the circuit breaker around it with several calls
  at once. A step runs from one await that suspends to the next; cancellation may
  strike at each. The semaphore is asyncio's (external; Python 3.12 or later, as
  `pyproject.toml` requires): a release assigns one permit to the longest waiter, which
  resumes in a later step, and then assigns what else is free, or is cancelled before it
  does. `recent` is a history variable, the calls that failed since one last returned; it
  is written from how calls end (`Recount`) and never read by an action.
* **...\_proofs** - the theorems of the module they are named after;
  **Reliability\_proofs** those of Gate and of Deadlines.
* **MC...** - instances for TLC; they hold constants and state constraints only.

Operators called `...Faulty` are what a definition must not become (a dropped
guard, a missing reset, a swapped order). No specification uses them; each
property of a passing run fails when one of them stands in for the definition it
is a variant of.

## Runs

| Run | Question | Bounds | Result |
|---|---|---|---|
| `service` | can any sequence of requests break a ledger, undo an acknowledgment, or get a false disclosure verified? | one subgame, 2 steps, 2 hashes, 2 payloads, 2 message contents, disclosures of up to 2 records | holds |
| `peer_game` | do two peers with retries keep one turn order, refuse nothing honest, and end? | 2 steps, survival at the 2nd, 1 retry, 2 hashes | holds, and implements AlternatingLog |
| `hidden_game` | are the Thief's knowledge, the audit, the offline verifier and the qualification run consistent? | 3x3, 3 barriers, 6 steps | holds |
| `hidden_imprisonment` | is a claimed imprisonment provable? | Police starts next to the corner | **violated** |
| `hidden_display` | can the agreed end be shown? | 3x3, 3 barriers | **violated** |
| `disclosure` | what do the audit and the offline verifier accept when one record is not what was sealed? | 2x3, 2 barriers, 4 steps (7 turns), one altered record | holds |
| `disclosure_illegal` | is an illegal record refused offline? | as above | **violated** |
| `deadlines` | do the limits fit one another, do the peers ever wait for each other, and what does a crash leave? | 2 turns, units of 2.5 s: the shipped limits, one failing attempt of 5 s per call, answers and thoughts of 2.5 s, one crash | holds |
| `series` | do two peers play one series and never write a one-sided result? | 2 subgames, 2 anchors, 2 outcomes, 2 configurations, Thief brings a declaration | holds |
| `series_counted` | is a declaration agreed beforehand accepted? | 6 subgames, counted | **violated** |
| `reporting` | are deliveries remembered, limited and not repeated? | 3 invocations, two of one result, one dry run, 1 retry, limit 1, 2 days | holds |
| `gate` | do cancellations and failures lose slots, leave the circuit wrong or starve a call? | 5 calls, 2 permits, queue of 2, 1 retry, threshold 2 | holds |

Why the bounds are enough. Ledger entries of different subgames never interact,
so one subgame stands for all; in `service` two steps give a current turn, one
behind and one ahead, and the requests are the Police's, the only peer a Thief's
server has (the proofs are for either sender). Payloads and message contents are
only compared for equality, so permuting them is sound for its safety properties;
the commitment hashes are not permuted, because the disclosures name one of them.
`FewEntries` keeps at most two claims, proposals or negotiations filled at a time:
they share no state with one another or with the ledger, and two of them show a
repetition, a conflict and an independent entry. In `peer_game` one retry gives
two copies of a request in flight, and a copy of an earlier call beside the
current one. A 3x3 board has a corner, an edge and a centre cell, three barriers
close a corner with one to spare, and six steps let the Police cross the board;
the real board is at least 7x7 with 14 barriers and 35 steps, and for the
properties proved below its size does not matter. Two subgames make a peer be
ahead, level and behind. Five calls at a gate are two that run, two that wait and
one that finds the queue full. Seven turns of `disclosure` give each player a
record before, at and after the altered one, and on a 2x3 board a player can take
two ways to one cell, so that a lie can be healed in position and not in trail; two
barriers meet the capacity. Two turns of `deadlines` are a first and a last one, and the
heartbeat is tested between them; a middle turn waits and calls as these do, and the
proofs are for any number. Deadlock is not checked: every system here may stop (a task
ends; the service may receive nothing more).

Envelope expiry is left out: a request lives for the whole retry budget
(`runtime/state.py:85-91`), so that a copy is stale only when its caller has
given up, and a stale copy changes nothing, like a lost one. "Accepted at
whatever moment" means before that.

Fairness. A task that can take its next step does (the event loop runs ready
tasks), and a timer fires (`asyncio.wait_for`, the deadline of `wait_for_value`,
the pause between attempts). Nothing is assumed of the network, of Gmail or of
the opponent; `Terminates`, `SeriesEnds` and `CallsEnd` use only this. `Completes` of
`deadlines` is weaker still: some step is taken as long as one can be
(`WF_vars(Next)`), time among them; how late the network answers is then a bound of
the instance, `Reply` and `Failing`, and not a fairness.

### What the deadlines allow

Let a call that is answered take at most `CallTime`: every attempt that may fail takes
its longest time and is followed by a pause, and the answer comes last. The limits fit
one another (`LimitsFit`) when

    2 * CallTime + Think < response_timeout_seconds
    4 * CallTime + Think <= watchdog_seconds

and then nobody gives a healthy game up. This is proved for all limits
(`NobodyGivesUpHolds`); without `LimitsFit` the property is checked of one instance only.
The shipped limits (30 s per attempt, pauses of 5 s, three retries, 60 s of watchdog) meet
it, 27.5 s and 52.5 s, when at most one attempt of a call fails, it fails within 5 s, and
an answer or a thought takes 2.5 s. They are not met, and TLC shows a game given up, when
the bounds of `deadlines.cfg` are changed as follows:

* A wait of 30 s covers two successive calls of the opponent and its thought. An attempt
  that takes its full timeout of 30 s and is then repeated with success already finds the
  opponent gone, although its caller had 135 s (`Failing = 12`, `Losses = 1`); so do two
  retries of each of two calls, be the failures ever so quick (`Failing = 1`,
  `Losses = 2`), and a thought of 10 s before a call with one failed attempt
  (`Think = 4`); so does a wait a unit shorter (`Timeout = 11`). Only the first failures,
  noticed quickly, are survived: the wait, not the number of retries, is the budget.
* The watchdog is the looser limit: between two heartbeats are the two calls of either
  peer and the thought of the Police. It holds for `Watchdog = 21` and not for 20.

A peer left alone has up to `2 * Timeout + Think + RequestLifetime` (`SurvivorEnds`). The
bound is met: the Police handles the Thief's reveal, sends its own and crashes; the
answer reaches the Thief at the end of its attempt, the Police's reveal at the end of the
Thief's wait; the Thief thinks and makes every attempt of its next call.

No document promises more than the bounded failure that `SurvivorEnds` and
`Terminates` state, so neither is counted as a defect.

## What the violations show

* **Imprisonment** (`runtime/terminal.py:28`). The live board keeps the Police on
  its start cell, and `is_imprisoned` counts that cell as blocked. A Thief next to
  the start cell and walled in elsewhere claims a capture nobody can prove, and the
  audit raises.
* **Last snapshot** (`runtime/presentation.py:72`, `ui/model.py:43`). When the audit's
  earliest outcome is an imprisonment and a later barrier stands on the Thief's
  cell, the snapshot of an agreed result is refused with `ValueError`.
* **Counted series** (`runtime/series.py:81`, `negotiation.py:79`). The series
  identity is the second the coordinator starts, so a declaration signed before the
  start does not match it.
* **Illegal record** (`replay/verifier.py:105`). The offline verifier places a barrier
  for whichever role disclosed it; the audit refuses the Thief's. A log with such a
  record is "Verified OK" for everyone but the peers (`docs/gui-replay.md:24-25`
  promises `TAMPERED` for illegal records). Peers never agree on such a game, so it
  takes a log that did not come from them.

Known and not run: overlapping `report` processes can lose a digest or a count
between the read and the write (the properties of `reporting` about these files
are stated for invocations that follow one another; `overlapping` is chosen at
the start and the others hold in both cases). The Police may wall off the cell it
stands on, and the Thief's belief then gives that cell probability zero
(`belief/model.py:119`): `BeliefCoversUnmasked` is stated for games in which it has not.
A second, different final disclosure replaces the one judged before
(`protocol/service.py:110`), whatever `docs/architecture.md:44-45` says of conflicting
duplicates: `VerifiedStaysBacked` is about each verdict on its own.

## Proofs

All theorems hold for every value of the constants that meets the named
assumptions.

* **TurnLedger_proofs**: each ledger method keeps the ledger well typed, keeps
  `LedgerInv` and grows the ledger. `TokenAlternates` is what makes the other parts
  inductive: a token holder's next step is the only one `RequireTurn` admits, so a
  commitment of a turn not yet due cannot exist; `RevealsSealed` needs
  `CommitsInTurn` because a reveal completes the step it is for.
* **ProtocolService_proofs**: from these lemmas `LedgerSound`, and, with the type
  invariant, `VerifiedStaysBacked` (a verdict is backed when it is given and the
  ledger never forgets a reveal), `AcknowledgedKept` and `NothingHidden`: as many
  different held turns as the ledger holds are all of them, an injection between
  finite sets of one size being onto. Assumptions: `LedgerAssumption`,
  `NoneIsNoReveal`, `ServiceAssumption` - `None` is no hash, reveal or verdict, the
  step bound is a natural number.
* **HiddenGame_proofs**: `TypeOK`, `LiveTracksObjective`, `HonestReplayLegal` on boards
  of any size. None is inductive alone: legality in the audit needs the boards to
  agree, agreement after a barrier needs the barrier to be acceptable to the Thief
  (`NoticeFresh`), and the end of play needs the step bound (`OpenWhilePlaying`).
  `PublicEndProven` needs `EndInv` besides: an objective board with a barrier on
  the Thief, or at the threshold, already has an outcome. `ImplementationsAgree` follows the three accumulators
  step by step: the log's board is the audit's because no honest action is illegal
  and play ends with survival; the trial's is while nothing is decided. For
  `BeliefCoversUnmasked` prediction reaches every cell one action away, and a Police
  that has not walled off its cell does not stand on a barrier. Assumptions: `BoardAssumption`,
  `StepsAssumption`.
* **Disclosure_proofs**: the four invariants of `disclosure` and the type invariant, which
  no run repeats, on any board and for games of any length. `IInv` says where a reader is for each trick (`Following`): with the game,
  a turn behind it, failed, or, after a lie, knowing all but the liar's latest
  position (`KnownPaths`). The step that matters is the next honest record of the liar:
  it is accepted only if its trail is the rebuilt one, `DecayBinds` undoes the decay,
  and `EmissionBinds` finds the position, because the centre of a 5x5 emission is the
  only cell that receives the peak. `AcceptedVerifies` is a simulation (`SameRun`): the
  audit's conditions include the verifier's, and while the audit is open the board is
  below the threshold, so that both close at the same record. Assumption:
  `BoardAssumption`.
* **Reliability_proofs**, of Gate: `GateTypeOK`, `SlotsAccounted` and `CircuitCounts` for any
  finite set of callers and any limits. The counters are cardinalities of sets of
  callers, so each action has a lemma that says how those sets change (`Joins`, `Leaves`,
  `HandStep`). For `CircuitCounts` the history is followed beside the breaker: what an
  action tells the breaker (`StepTold`) is what `recent` makes of the step
  (`HistoryStep`), and a call that fails had not failed before, so that the set grows by
  one (`CircuitStep`). The types need that only a call with an attempt left pauses
  (`AttemptStep`). Assumption: `GateAssumption`.
* **Reliability_proofs**, of Deadlines: all five invariants of `deadlines`, for any limits,
  any number of turns and any loss, delay and repetition by the network. Assumption:
  `DeadlineAssumption`, and for `NobodyGivesUp` alone `LimitsFit`.
  * `Typed` says which stages belong to which turn (`Place`), that no clock runs past its
    limit (`ClockIn`), and what is in flight (`Flying`): an answer only to the attempt
    being made, and of each peer at most one request not handled yet, the one it is
    making or, when it has ended, made last. The others are inductive relative to it.
  * `CheckpointSound` needs `Saved`: while a turn is chosen and saved the path is one turn
    behind, and a commitment of the turn being saved is neither handled nor in flight.
  * `SurvivorEnds` needs `Lonely`, which bounds the time since the crash by what the peer is
    doing (`Survives`). An answer given before the crash is received within the limit of
    its attempt, and a wait ends with what the crashed peer sent last or in vain; a second
    wait is possible, but only one of them for a request still in flight (`Late`,
    `Patience`, `LateStep`). Then no call is answered any more, so that the attempts of two
    calls never add up.
  * `NoVainWait` needs to know what a peer's server has handled: all its opponent was
    answered for and at most the request being made (`Sent`), and all that was seen
    (`Heard`). While both go on a copy can only be of that request (`Carries`). `OverGrows` and `KnownGrows` say that a step of the loop completes one
    call, or takes notice of one, at most. From these, whoever waits in vain waits for a
    peer that is still to send and does not wait in vain (`Pending`).
  * `NobodyGivesUp` needs `Fitting`: what is left of a call with the attempts that may still
    fail (`InCall`, `Left`), that a wait in vain has room for what the opponent still
    does before it sends (`Patient`: the stage's own time, `Left`, and that of the stages
    after it, `Ahead`), and the same of the watchdog between two heartbeats (`Heartbeat`). A
    step that goes on takes no time and moves its stage's budget from `Ahead` to `Left`
    (`AheadFalls`); a unit of time is taken from both the wait and what is left.

* **PeerGame_proofs**: the four invariants of `peer_game`, its type invariant and the
  refinement of AlternatingLog, for any number of steps, retries and hashes and any
  threshold. `IInv` counts turns: how many a peer has completed (`Own`) and how many of
  its opponent's it has on record (`Copy`). `Counted` ties the counts to the token, so
  that a peer that holds it has heard of every turn (`Owner`), and a turn not yet heard of
  is the one its addressee waits for (`Ahead`); `HeardAt` says when a caller may conclude
  from an acknowledgment that it was heard. From these every copy in flight is acceptable
  (`CommitAccepted`, `RevealAccepted`), a peer that discloses has no turn left that the
  other does not hold (`Closed`), and its disclosure and its digest stay what they were
  (`EndAt`). Steps that seal nothing and touch no ledger are one lemma (`MoveInv`) over the
  moves they may make (`Legal`). For the refinement, completing a local turn is `Take`
  (`Taken`), the first copy of a reveal is `Learn` (`Heeded`), all else a stutter.
  Assumptions: `GameAssumption`, `LedgerAssumption`, `NoneIsNoReveal`.
* **Series_proofs**: `TypeOK`, `OneSeries`, `ResultConfirmed` and `RepeatsAccepted` for any
  number of subgames, retries, anchors, outcomes and configurations. What was ever sent
  stays true of its sender (`Truthful`) and what a server holds was sent to it
  (`Received`), so a late copy equals the stored one; `Anchored` says from which moment
  configuration and identity are common, `Filed` what is on disk at each stage.
  `RepeatsAccepted` assumes `Counted => Games = 6` besides `SeriesAssumption`: a counted
  series of another length is refused at the negotiation.
* **Reporting_proofs**: `TypeOK` and the three invariants of `reporting` for any number of
  invocations, days and retries and any limit. `Places` and `Records` hold always. What
  is said of invocations that follow one another needs `Serial` (one delivery in
  progress, whose reading of the registry is still current) and `Ledger` (the quota's
  file counts the admissions of its day that were written). Assumption:
  `ReportingAssumption`.

Model-checked only: liveness under fairness (`Terminates`, `SeriesEnds`, `CallsEnd`,
`Completes`; the prover has no rule for WF used here, nor for ENABLED), and what the
violations show. Every invariant and action property of a passing run, and the
refinement, is a theorem. Nothing is proved by induction over data, and no recursive
operator is used. `NoVainWait` and `NobodyGivesUp` are the safety part of `Completes`: no two
peers that wait for each other, and no limit that ends a healthy game.

## Not modelled

The weights of the belief, the ranking of moves, hints and truth profile (numeric or
textual; HiddenGame lets the Thief do anything it may rank); collisions of hashes,
signatures and schemas; the offline verifier's check of the mutual agreement
(`replay/verifier.py:37-40`, which `runtime/package.py:54-56` always writes as it is
wanted); the order in which an altered record is sorted into the
others by `ordered_audits` (its place is then wrong for both readers, as in the model);
the rounding of floats in trails; the refill of the token bucket (a refusal may come at any
time); threads inside a handler (`protocol/ledger.py:83`: FastMCP may run synchronous
tools in a thread pool, so that one handler is not one step; which steps interleave is
then the library's choice, which is not part of the repository); thresholds above the step
limit (`config/models.py:53` accepts them; such a game has no outcome for the audit);
the qualification series, the user interface (a monitor that polls a file it never writes),
configuration and CLI. The reasons are with the components in `PROJECT.json`.

## Plan

1. Done: every module above, their runs and proofs.
2. Done: Deadlines proved for any limits, `NobodyGivesUp` from inequalities between them.
3. The threads of FastMCP inside `record_reveal`; the monitor's polling of snapshots.
