----------------------------- MODULE Deadlines -----------------------------
(***************************************************************************)
(* The deadlines of one subgame played to the survival threshold.  Each     *)
(* limit of config.network bounds one thing: an attempt of a call           *)
(* (reliability/gatekeeper.py), the pause before the next, the wait for      *)
(* what the opponent sends (runtime/wait.py), the time from one sealed turn  *)
(* to the next (reliability/watchdog.py).  Both peers are modelled with      *)
(* their clocks, to ask whether the limits fit one another, and what is      *)
(* left of a peer on disk and of its opponent when it crashes.              *)
(*                                                                         *)
(* Time is counted in any unit; what runs on the loop takes none.  The       *)
(* network answers an attempt, or lets it fail, in the times below; it may   *)
(* bring a copy of a request when its attempt, or its sender, has ended, and *)
(* an answer when the server that gave it has.  What the requests carry, and *)
(* that they are accepted, is PeerGame's.                                   *)
(***************************************************************************)
EXTENDS Integers

CONSTANTS Turns,         \* config.turns.survival_threshold
          Timeout,       \* config.network.response_timeout_seconds
          RetryDelay,    \* config.network.retry_delay_seconds
          Retries,       \* config.network.retries
          Watchdog,      \* config.network.watchdog_seconds
          Think,         \* longest time to choose a move and a hint
          Reply,         \* longest time of an attempt that succeeds
          Failing,       \* longest time of one that fails, the opponent being up
          Losses         \* most attempts of one call that fail, the opponent being up

ASSUME DeadlineAssumption ==
  /\ Turns \in Nat \ {0} /\ Timeout \in Nat \ {0} /\ Watchdog \in Nat \ {0}
  /\ RetryDelay \in Nat /\ Retries \in Nat
  /\ Think \in Nat /\ Reply \in 0 .. Timeout /\ Failing \in 0 .. Timeout
  /\ Losses \in 0 .. Retries

Thief  == "thief"
Police == "police"
Roles  == {Thief, Police}

Opponent(r) == IF r = Thief THEN Police ELSE Thief

Calls == {"commit", "reveal", "audit", "result"}
Waits == {"see_commit", "see_reveal", "see_audit", "see_result"}
\* decide_turn: choosing, then the three steps of CheckpointStore.save.
Work  == {"think", "dump", "replace"}
\* Play has ended: with a result, with an exception, by a crash.
Ends  == {"done", "lost", "crashed"}

VARIABLES stage,     \* what each peer is doing
          turn,      \* the turn it is in
          timer,     \* time in this attempt, pause, wait or thought
          failed,    \* attempts of this call that have failed
          paused,    \* it sleeps between two attempts
          answered,  \* this attempt was handled, its answer is on the way
          sent,      \* the requests it has sent
          idle,      \* time since the Thief's last heartbeat
          handled,   \* its requests that the opponent's server has handled
          disk,      \* the Thief's checkpoint: the turn at the path, the temporary file
          spoiled,   \* a write of the disk has failed
          alone      \* time since the opponent crashed

vars == <<stage, turn, timer, failed, paused, answered, sent, idle, handled, disk,
          spoiled, alone>>

Messages == Calls \X (1 .. Turns)

\* state.request_lifetime: every attempt, and the pauses between them.
RequestLifetime == Timeout * (Retries + 1) + RetryDelay * Retries

Init ==
  /\ stage = [r \in Roles |-> IF r = Thief THEN "think" ELSE "see_commit"]
  /\ turn = [r \in Roles |-> 1]
  /\ timer = [r \in Roles |-> 0]
  /\ failed = [r \in Roles |-> 0]
  /\ paused = [r \in Roles |-> FALSE]
  /\ answered = [r \in Roles |-> FALSE]
  /\ sent = [r \in Roles |-> {}]
  /\ idle = 0
  /\ handled = [r \in Roles |-> {}]
  /\ disk = [path |-> 0, temp |-> "none"]
  /\ spoiled = FALSE
  /\ alone = 0

Up(r) == stage[r] \notin Ends
\* Its server answers: also after the game, for the next one.
Serving(r) == stage[r] \notin {"lost", "crashed"}

Request(r)  == <<stage[r], turn[r]>>
Answer == [see_commit |-> "commit", see_reveal |-> "reveal",
           see_audit |-> "audit", see_result |-> "result"]
Arrived(r)  == <<Answer[stage[r]], turn[r]>> \in handled[Opponent(r)]
Calling(r)  == stage[r] \in Calls /\ ~paused[r]
---------------------------------------------------------------------------
(* Going on to the next stage.  The first attempt of a call begins at once.  *)

Enter(r, next, t) ==
  /\ stage' = [stage EXCEPT ![r] = next]
  /\ turn' = [turn EXCEPT ![r] = t]
  /\ timer' = [timer EXCEPT ![r] = 0]
  /\ failed' = [failed EXCEPT ![r] = 0]
  /\ paused' = [paused EXCEPT ![r] = FALSE]
  /\ answered' = [answered EXCEPT ![r] = FALSE]
  /\ sent' = IF next \in Calls THEN [sent EXCEPT ![r] = @ \cup {<<next, t>>}] ELSE sent

\* The watchdog is given the limit of one wait.
StartTurnFaulty(r, t) ==
  Enter(r, IF r = Thief /\ idle > Timeout THEN "lost" ELSE "think", t)

\* decide_turn begins with Watchdog.assert_alive; the Police's is its own.
StartTurn(r, t) ==
  Enter(r, IF r = Thief /\ idle > Watchdog THEN "lost" ELSE "think", t)

\* The Thief waits for the disclosure of the Police instead of sending its own.
AfterCallFaulty(r) ==
  \/ stage[r] = "commit" /\ Enter(r, "reveal", turn[r])
  \/ /\ stage[r] = "reveal"
     /\ \/ r = Police /\ Enter(r, "see_commit", turn[r] + 1)
        \/ r = Thief /\ turn[r] < Turns /\ Enter(r, "see_commit", turn[r])
        \/ r = Thief /\ turn[r] = Turns /\ Enter(r, "see_audit", turn[r])
  \/ stage[r] = "audit" /\ Enter(r, "see_audit", turn[r])
  \/ stage[r] = "result" /\ Enter(r, "see_result", turn[r])

\* run_peer_game: what follows a call that was answered.
AfterCall(r) ==
  \/ stage[r] = "commit" /\ Enter(r, "reveal", turn[r])
  \/ /\ stage[r] = "reveal"
     /\ \/ r = Police /\ Enter(r, "see_commit", turn[r] + 1)
        \/ r = Thief /\ turn[r] < Turns /\ Enter(r, "see_commit", turn[r])
        \/ r = Thief /\ turn[r] = Turns /\ Enter(r, "audit", turn[r])
  \/ stage[r] = "audit" /\ Enter(r, "see_audit", turn[r])
  \/ stage[r] = "result" /\ Enter(r, "see_result", turn[r])

\* What follows a wait that ended with what it was for.
AfterWait(r) ==
  \/ stage[r] = "see_commit" /\ Enter(r, "see_reveal", turn[r])
  \/ /\ stage[r] = "see_reveal"
     /\ \/ r = Thief /\ StartTurn(r, turn[r] + 1)
        \/ r = Police /\ turn[r] < Turns /\ StartTurn(r, turn[r])
        \/ r = Police /\ turn[r] = Turns /\ Enter(r, "audit", turn[r])
  \/ stage[r] = "see_audit" /\ Enter(r, "result", turn[r])
  \/ stage[r] = "see_result" /\ Enter(r, "done", turn[r])
---------------------------------------------------------------------------
(* decide_turn: the turn is sealed, saved, and only then published.          *)

\* A named temporary file is written, flushed and synchronised.
Dump ==
  /\ stage[Thief] = "think"
  /\ Enter(Thief, "dump", turn[Thief])
  /\ disk' = [disk EXCEPT !.temp = "part"]
  /\ UNCHANGED <<idle, handled, spoiled, alone>>

Synced ==
  /\ stage[Thief] = "dump"
  /\ Enter(Thief, "replace", turn[Thief])
  /\ disk' = [disk EXCEPT !.temp = "whole"]
  /\ UNCHANGED <<idle, handled, spoiled, alone>>

\* The turn is published with the temporary file still to be renamed.
ReplaceFaulty ==
  /\ stage[Thief] = "replace"
  /\ Enter(Thief, "commit", turn[Thief])
  /\ idle' = 0
  /\ UNCHANGED <<disk, handled, spoiled, alone>>

\* os.replace, and the heartbeat.
Replace ==
  /\ stage[Thief] = "replace"
  /\ Enter(Thief, "commit", turn[Thief])
  /\ disk' = [path |-> turn[Thief], temp |-> "none"]
  /\ idle' = 0
  /\ UNCHANGED <<handled, spoiled, alone>>

\* A step that raises, before there is a temporary file or after: the file is
\* removed, the game is over.
SaveFails ==
  /\ stage[Thief] \in {"think", "dump", "replace"}
  /\ Enter(Thief, "lost", turn[Thief])
  /\ disk' = [disk EXCEPT !.temp = "none"]
  /\ spoiled' = TRUE
  /\ UNCHANGED <<idle, handled, alone>>

PoliceDecides ==
  /\ stage[Police] = "think"
  /\ Enter(Police, "commit", turn[Police])
  /\ UNCHANGED <<idle, handled, disk, spoiled, alone>>
---------------------------------------------------------------------------
(* Calls: ExternalGatekeeper.call.                                          *)

\* The opponent's server handles the request of the attempt that is being made.
Handle(r) ==
  /\ Calling(r) /\ Serving(Opponent(r)) /\ ~answered[r]
  /\ handled' = [handled EXCEPT ![r] = @ \cup {Request(r)}]
  /\ answered' = [answered EXCEPT ![r] = TRUE]
  /\ UNCHANGED <<stage, turn, timer, failed, paused, sent, idle, disk, spoiled, alone>>

\* It handles a copy whose attempt, or whose sender, has ended; a second one
\* changes nothing.
HandleLate(r) ==
  /\ ~Calling(r) \/ failed[r] > 0
  /\ Serving(Opponent(r))
  /\ \E m \in sent[r] \ handled[r] : handled' = [handled EXCEPT ![r] = @ \cup {m}]
  /\ UNCHANGED <<stage, turn, timer, failed, paused, answered, sent, idle, disk, spoiled,
                 alone>>

Answered(r) ==
  /\ Calling(r) /\ answered[r]
  /\ AfterCall(r)
  /\ UNCHANGED <<idle, handled, disk, spoiled, alone>>

MayFail(r) == ~Serving(Opponent(r)) \/ failed[r] < Losses

\* The pause is taken after the last attempt, too.
AttemptFailsFaulty(r) ==
  /\ Calling(r) /\ MayFail(r)
  /\ failed' = [failed EXCEPT ![r] = @ + 1]
  /\ paused' = [paused EXCEPT ![r] = TRUE]
  /\ timer' = [timer EXCEPT ![r] = 0]
  /\ answered' = [answered EXCEPT ![r] = FALSE]
  /\ UNCHANGED <<stage, turn, sent, idle, handled, disk, spoiled, alone>>

\* An attempt that was refused, or took Timeout: whether its request was
\* handled or not.
AttemptFails(r) ==
  /\ Calling(r) /\ MayFail(r)
  /\ IF failed[r] = Retries
       THEN Enter(r, "lost", turn[r])
       ELSE /\ failed' = [failed EXCEPT ![r] = @ + 1]
            /\ paused' = [paused EXCEPT ![r] = TRUE]
            /\ timer' = [timer EXCEPT ![r] = 0]
            /\ answered' = [answered EXCEPT ![r] = FALSE]
            /\ UNCHANGED <<stage, turn, sent>>
  /\ UNCHANGED <<idle, handled, disk, spoiled, alone>>

Resume(r) ==
  /\ stage[r] \in Calls /\ paused[r] /\ timer[r] = RetryDelay
  /\ paused' = [paused EXCEPT ![r] = FALSE]
  /\ timer' = [timer EXCEPT ![r] = 0]
  /\ UNCHANGED <<stage, turn, failed, answered, sent, idle, handled, disk, spoiled, alone>>
---------------------------------------------------------------------------
(* Waits: wait_for_value looks once more when its deadline has come.         *)

See(r) ==
  /\ stage[r] \in Waits /\ Arrived(r)
  /\ AfterWait(r)
  /\ UNCHANGED <<idle, handled, disk, spoiled, alone>>

Expire(r) ==
  /\ stage[r] \in Waits /\ ~Arrived(r) /\ timer[r] = Timeout
  /\ Enter(r, "lost", turn[r])
  /\ UNCHANGED <<idle, handled, disk, spoiled, alone>>
---------------------------------------------------------------------------
\* One peer's process ends between any two steps.
Crash(r) ==
  /\ Up(r) /\ Up(Opponent(r))
  /\ Enter(r, "crashed", turn[r])
  /\ UNCHANGED <<idle, handled, disk, spoiled, alone>>

\* How long an attempt takes at most: longer if it still may fail.
AttemptTime(r) ==
  IF ~Serving(Opponent(r)) THEN Timeout
  ELSE IF failed[r] < Losses /\ Failing > Reply THEN Failing ELSE Reply

\* The stage may last a unit more; saving and what is there to see take no time.
InTime(r) ==
  \/ stage[r] = "think" /\ timer[r] < Think
  \/ Calling(r) /\ timer[r] < AttemptTime(r)
  \/ stage[r] \in Calls /\ paused[r] /\ timer[r] < RetryDelay
  \/ stage[r] \in Waits /\ ~Arrived(r) /\ timer[r] < Timeout

Tick ==
  /\ \E r \in Roles : Up(r)
  /\ \A r \in Roles : Up(r) => InTime(r)
  /\ timer' = [r \in Roles |-> IF Up(r) THEN timer[r] + 1 ELSE 0]
  /\ idle' = IF Up(Thief) THEN idle + 1 ELSE idle
  /\ alone' = IF \E r \in Roles : stage[r] = "crashed" THEN alone + 1 ELSE 0
  /\ UNCHANGED <<stage, turn, failed, paused, answered, sent, handled, disk, spoiled>>

PeerStep(r) ==
  \/ Handle(r) \/ HandleLate(r) \/ Answered(r) \/ AttemptFails(r) \/ Resume(r)
  \/ See(r) \/ Expire(r)

Next ==
  \/ Dump \/ Synced \/ Replace \/ SaveFails \/ PoliceDecides
  \/ \E r \in Roles : PeerStep(r) \/ Crash(r)
  \/ Tick

\* Loops and networks go on, and so does time.
Spec == Init /\ [][Next]_vars /\ WF_vars(Next)
---------------------------------------------------------------------------
(* The state's types; no clock runs past the limits.                        *)
TypeOK ==
  /\ stage \in [Roles -> Calls \cup Waits \cup Work \cup Ends]
  /\ turn \in [Roles -> 1 .. Turns]
  /\ timer \in [Roles -> 0 .. (Timeout + RetryDelay + Think)]
  /\ failed \in [Roles -> 0 .. Retries]
  /\ paused \in [Roles -> BOOLEAN]
  /\ answered \in [Roles -> BOOLEAN]
  /\ sent \in [Roles -> SUBSET Messages]
  /\ idle \in Nat
  /\ handled \in [Roles -> SUBSET Messages]
  /\ disk \in [path : 0 .. Turns, temp : {"none", "part", "whole"}]
  /\ spoiled \in BOOLEAN
  /\ alone \in Nat

\* The longest a call takes that is answered: every attempt that may fail does.
Slow == IF Failing > Reply THEN Failing ELSE Reply
CallTime == Losses * (Slow + RetryDelay) + Reply

\* A wait outlasts two calls of the opponent with a thought between them, and
\* the watchdog two calls of each peer with the thought of the opponent.
LimitsFit == /\ 2 * CallTime + Think < Timeout
             /\ 4 * CallTime + Think <= Watchdog

Undisturbed == ~spoiled /\ \A r \in Roles : stage[r] # "crashed"

(* The limits fit one another: while the network keeps to the times of this  *)
(* instance, no peer exhausts its attempts, waits for what the other is      *)
(* still repeating, or is stopped by a watchdog between two turns            *)
(* (gatekeeper.py:50-56, wait.py:15-22, watchdog.py:30-37).                  *)
NobodyGivesUp == Undisturbed => \A r \in Roles : stage[r] # "lost"

(* A turn whose commitment the opponent may hold is the one at the path of   *)
(* the checkpoint, until the next is sealed, whenever the process ends; and   *)
(* only a crash leaves a temporary file (docs/architecture.md:25).            *)
CheckpointSound ==
  /\ stage[Thief] \in Calls \cup Waits \cup {"done"} => disk.path = turn[Thief]
  /\ \A k \in 1 .. Turns : <<"commit", k>> \in handled[Thief] => disk.path >= k
  /\ disk.temp # "none" => stage[Thief] \in {"dump", "replace", "crashed"}

(* A peer whose opponent has crashed ends by itself: what it left in flight,  *)
(* an answer and a request, may each arrive as late as a limit allows, but    *)
(* then it ends after one thought and the attempts of one call at the latest  *)
(* (docs/architecture.md:41-42).                                            *)
SurvivorEnds ==
  (\E r \in Roles : stage[r] = "crashed") /\ (\E r \in Roles : Up(r))
     => alone <= 2 * Timeout + Think + RequestLifetime

(* While both peers go on, a peer that waits in vain waits for one that is    *)
(* still to send and is not itself waiting in vain: the two never wait for    *)
(* each other, and none has left the game with the other expecting something  *)
(* of it, however long the limits are (finalize.py:39-56, peer_game.py).      *)
NoVainWait ==
  (\A r \in Roles : Serving(r)) =>
    \A w \in Roles : stage[w] \in Waits /\ ~Arrived(w) =>
      /\ stage[Opponent(w)] # "done"
      /\ stage[Opponent(w)] \in Waits => Arrived(Opponent(w))

(* Both peers come to the end of the game, with a result if nothing fails:    *)
(* neither waits for what the other sends only afterwards.                    *)
Completes ==
  <>(\/ stage = [r \in Roles |-> "done"]
     \/ ~Undisturbed /\ \A r \in Roles : ~Up(r))
===========================================================================
