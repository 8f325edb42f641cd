---------------------------- MODULE HiddenGame ----------------------------
(***************************************************************************)
(* One subgame as the players see it, and as the audit sees it afterwards.  *)
(* The Thief plays on `live` (runtime/game.py, live_state.py, terminal.py): *)
(* its own position and the public barriers are true, the Police position   *)
(* is the start cell for ever.  The Police plays on its own board.  After   *)
(* the game both disclose their actions and the Thief replays them          *)
(* (runtime/audit_replay.py) to find the objective outcome.  The replay is  *)
(* a fold over the actions in the order they were played, so it is kept     *)
(* here as it would stand if the game ended now; so are the verdict of the  *)
(* offline verifier (Replay) on the log of the same actions, and the        *)
(* qualification run (Qualification) that they make.                        *)
(*                                                                         *)
(* Commitments are left out, and scent and hints are what Belief makes of   *)
(* them: both peers are honest and every action is legal by the rules its   *)
(* player can check.  The moves are free: any strategy of the Thief, any of *)
(* the Police.                                                              *)
(***************************************************************************)
EXTENDS Belief, Replay, Qualification

VARIABLES live,      \* BoardState of the Thief's game loop
          officer,   \* the Police peer's own board (its thief field is unused)
          replay,    \* accumulator of reconstruct_audited_subgame
          log,       \* accumulator of ReplayVerifier.verify
          trial,     \* the qualification run of the same actions
          belief,    \* the Thief's BeliefMap: cells with a positive probability
          masked,    \* history: a barrier was placed under the Police itself
          notice,    \* the barrier of the last Police reveal, as a set
          claim,     \* reason of the capture claim that ended live play
          phase      \* whose turn it is, or how the subgame ended

vars == <<live, officer, replay, log, trial, belief, masked, notice, claim, phase>>

Reasons == {"capture", "imprisonment", "survival", "none"}
Claims  == {"barrier", "imprisonment", "none"}
Playing == {"thief", "police", "reveal"}
\* agreed: outcome found and shown; refused: the replay raised ValueError;
\* unshown: the final snapshot was rejected.
Over    == {"agreed", "refused", "unshown"}

TypeOK ==
  /\ live \in BoardStates
  /\ officer \in BoardStates
  /\ replay \in [board : BoardStates, terminal : Reasons, closed : BOOLEAN,
                 illegal : BOOLEAN]
  /\ log \in Verdicts
  /\ trial \in Trials
  /\ belief \in SUBSET Cells
  /\ masked \in BOOLEAN
  /\ notice \in {{}} \cup {{t} : t \in Cells}
  /\ claim \in Claims
  /\ phase \in Playing \cup {"audit"} \cup Over

Init ==
  /\ live = InitialState
  /\ officer = InitialState
  /\ replay = [board |-> InitialState, terminal |-> "none", closed |-> FALSE,
               illegal |-> FALSE]
  /\ log = NothingRead
  /\ trial = NothingPlayed
  /\ belief = PointBelief(PoliceStart)
  /\ masked = FALSE
  /\ notice = {}
  /\ claim = "none"
  /\ phase = "thief"
---------------------------------------------------------------------------
(* Replaying one disclosed action.  The first terminal outcome is kept;     *)
(* nothing may follow survival.  The Thief's own turn ends the game only by *)
(* survival, the Police's by any outcome.                                   *)

\* The last outcome is kept instead of the first.
JudgeFaulty(acc, board, legal, outcome) ==
  [board    |-> board,
   terminal |-> outcome,
   closed   |-> outcome = "survival",
   illegal  |-> acc.illegal \/ ~legal \/ acc.closed]

Judge(acc, board, legal, outcome) ==
  [board    |-> board,
   terminal |-> IF acc.terminal = "none" THEN outcome ELSE acc.terminal,
   closed   |-> outcome = "survival",
   illegal  |-> acc.illegal \/ ~legal \/ acc.closed]

ReplayThief(acc, move) ==
  LET board == AfterFullTurn(ApplyMove(acc.board, Thief, move))
  IN  Judge(acc, board, move \in LegalMoves(acc.board, Thief),
            IF board.step >= Threshold THEN "survival" ELSE "none")

ReplayPoliceMove(acc, move) ==
  LET board == ApplyMove(acc.board, Police, move)
  IN  Judge(acc, board, move \in LegalMoves(acc.board, Police), Outcome(board))

ReplayBarrier(acc, target) ==
  LET board == PlaceBarrier(acc.board, target)
  IN  Judge(acc, board, PlaceBarrierOK(acc.board, target), Outcome(board))
---------------------------------------------------------------------------
(* Live play.                                                               *)

\* EvasionStrategy.choose_move ranks these moves; with none to rank it returns
\* STAY, which the board refuses (ThiefReads leaves always one).
Choices(board) == LegalMoves(board, Thief)

\* Play goes on at the threshold.
ThiefTurnFaulty(move) ==
  /\ phase = "thief"
  /\ move \in Choices(live)
  /\ live' = AfterFullTurn(ApplyMove(live, Thief, move))
  /\ replay' = ReplayThief(replay, move)
  /\ log' = VerifyThief(log, move)
  /\ trial' = PlayThief(trial, move)
  /\ phase' = IF live'.step > Threshold THEN "audit" ELSE "police"
  /\ UNCHANGED <<officer, belief, masked, notice, claim>>

ThiefTurn(move) ==
  /\ phase = "thief"
  /\ move \in Choices(live)
  /\ live' = AfterFullTurn(ApplyMove(live, Thief, move))
  /\ replay' = ReplayThief(replay, move)
  /\ log' = VerifyThief(log, move)
  /\ trial' = PlayThief(trial, move)
  /\ phase' = IF live'.step >= Threshold THEN "audit" ELSE "police"
  /\ UNCHANGED <<officer, belief, masked, notice, claim>>

PoliceMoves(move) ==
  /\ phase = "police"
  /\ move \in LegalMoves(officer, Police)
  /\ officer' = ApplyMove(officer, Police, move)
  /\ replay' = ReplayPoliceMove(replay, move)
  /\ log' = VerifyPoliceMove(log, move)
  /\ trial' = PlayPoliceMove(trial, move)
  /\ notice' = {}
  /\ phase' = "reveal"
  /\ UNCHANGED <<live, belief, masked, claim>>

PolicePlaces(target) ==
  /\ phase = "police"
  /\ PlaceBarrierOK(officer, target)
  /\ officer' = PlaceBarrier(officer, target)
  /\ replay' = ReplayBarrier(replay, target)
  /\ log' = VerifyBarrier(log, target)
  /\ trial' = PlayBarrier(trial, target)
  /\ masked' = (masked \/ target = officer.police)
  /\ notice' = {target}
  /\ phase' = "reveal"
  /\ UNCHANGED <<live, belief, claim>>

\* live_state.apply_public_barrier, for the barrier of a reveal, if any.
PublicBarrierOK(board, cells) ==
  cells # {} => /\ cells \subseteq Cells \ board.barriers
                /\ board.barriers_used < Capacity

\* The barrier is not counted against the capacity.
ApplyPublicBarrierFaulty(board, cells) == [board EXCEPT !.barriers = @ \cup cells]

ApplyPublicBarrier(board, cells) ==
  [board EXCEPT !.barriers = @ \cup cells, !.barriers_used = @ + Cardinality(cells)]

\* terminal.claim_public_capture.
PublicCapture(board) == IF board.thief \in board.barriers THEN "barrier"
                        ELSE IF IsImprisoned(board) THEN "imprisonment"
                        ELSE "none"

\* The Thief reads the Police reveal: it applies the barrier, updates its
\* belief (which raises when no cell is free), claims a public capture, and
\* goes on if there is none and a step is left.
ThiefReads ==
  /\ phase = "reveal"
  /\ UNCHANGED <<officer, replay, log, trial, masked>>
  /\ notice' = {}
  /\ live' = IF PublicBarrierOK(live, notice) THEN ApplyPublicBarrier(live, notice)
                                              ELSE live
  /\ IF ~PublicBarrierOK(live, notice) \/ Cells \subseteq live'.barriers
       THEN phase' = "refused" /\ UNCHANGED <<belief, claim>>
       ELSE /\ belief' = AdvanceBelief(belief, live'.barriers)
            /\ claim' = PublicCapture(live')
            /\ phase' = IF claim' = "none" /\ live.step < MaxSteps
                          THEN "thief" ELSE "audit"
---------------------------------------------------------------------------
(* After live play.                                                         *)

\* LiveSnapshot.__post_init__: a Thief standing on a barrier is a legal
\* picture only of a capture.
Showable(board, reason) == board.thief \in board.barriers => reason = "capture"

\* finalize_game and LivePresenter.finished.
Finalize ==
  /\ phase = "audit"
  /\ phase' = IF replay.illegal \/ replay.terminal = "none" THEN "refused"
              ELSE IF Showable(replay.board, replay.terminal) THEN "agreed"
              ELSE "unshown"
  /\ UNCHANGED <<live, officer, replay, log, trial, belief, masked, notice, claim>>

Next == \/ \E m \in Moves : ThiefTurn(m) \/ PoliceMoves(m)
        \/ \E t \in Cells : PolicePlaces(t)
        \/ ThiefReads
        \/ Finalize

Spec == Init /\ [][Next]_vars
---------------------------------------------------------------------------
(* What the Thief can see is the truth: its position and step are those of  *)
(* the objective board, and so are the barriers, except for the one it is   *)
(* being told about; the Police's are the objective ones at all times.      *)
LiveTracksObjective ==
  /\ replay.board.thief = live.thief
  /\ replay.board.step = live.step
  /\ replay.board.barriers = live.barriers \cup notice
  /\ replay.board.barriers_used = live.barriers_used + Cardinality(notice)
  /\ replay.board.police = officer.police
  /\ replay.board.barriers = officer.barriers
  /\ replay.board.barriers_used = officer.barriers_used

(* Every action legal for the player that took it is legal for the audit,   *)
(* and live play stops where the audit allows no further action: no honest  *)
(* game is refused as illegal.                                              *)
HonestReplayLegal == ~replay.illegal

(* A claim of a barrier on the Thief's cell is proved by the audit, and a   *)
(* game that survives to the threshold has an outcome: both ends of live    *)
(* play that the Thief decides by public facts lead to an agreement.        *)
PublicEndProven ==
  phase = "audit" /\ (claim = "barrier" \/ live.step >= Threshold)
     => replay.terminal # "none"

LogAgrees == ~log.tampered /\ log.board = replay.board

TrialAgrees == /\ trial.outcome = replay.terminal
               /\ trial.outcome = "none" => trial.board = replay.board

(* Three implementations agree on every honest game: the audit refuses no   *)
(* action that was legal for its player, nor one after the end of live play; *)
(* the log is "Verified OK" for the offline verifier, with the audit's final *)
(* board; and a qualification run of the actions comes to the same outcome,  *)
(* at the same board until then, where the step limit is not below the       *)
(* threshold (the run counts such a game as survived)                       *)
(* (verifier.py:37-94, audit_replay.py:56-101, qualification/game.py:52-95). *)
ImplementationsAgree ==
  HonestReplayLegal /\ LogAgrees /\ (Threshold <= MaxSteps => TrialAgrees)

(* The cell the Police stands on is never ruled out by the Thief's belief,  *)
(* whatever was walled off and however long the game, as long as the Police *)
(* has not put a barrier on its own cell (belief/model.py:60-126).                 *)
BeliefCoversUnmasked ==
  phase \in {"thief", "police"} /\ ~masked => officer.police \in belief

(* terminal.py:1 "captures the Thief can prove from its own cell and public *)
(* barriers", docs/protocol.md:51-54: a claimed imprisonment is provable.    *)
ImprisonmentProven ==
  phase = "audit" /\ claim = "imprisonment" => replay.terminal # "none"

(* docs/gui-replay.md:10-12: the monitor "can safely show the claim,        *)
(* final-audit transition, verified reason, and score".                     *)
FinalStateShown == phase # "unshown"
===========================================================================
