--------------------------- MODULE Qualification ---------------------------
(***************************************************************************)
(* qualification/game.py: the uncounted run of one subgame on one board     *)
(* that holds the truth, against a scripted Police.  It is a third          *)
(* implementation of the rules of runtime/audit_replay.py, which unlike the *)
(* live game stops at the first terminal event, and is kept here as the     *)
(* state of run_game after each action.                                     *)
(***************************************************************************)
EXTENDS Board

CONSTANT MaxSteps       \* config.turns.max_steps

ASSUME StepsAssumption == MaxSteps \in Nat \ {0}

\* error: an action was refused, and the run raised.
Trials == [board : BoardStates,
           outcome : {"capture", "imprisonment", "survival", "none", "error"}]

NothingPlayed == [board |-> InitialState, outcome |-> "none"]

\* A run that has returned plays no further action.
Advance(acc, legal, board, outcome) ==
  IF acc.outcome # "none" THEN acc
  ELSE IF legal THEN [board |-> board, outcome |-> outcome]
  ELSE [acc EXCEPT !.outcome = "error"]

PlayThief(acc, move) ==
  LET board == AfterFullTurn(ApplyMove(acc.board, Thief, move))
  IN  Advance(acc, move \in LegalMoves(acc.board, Thief), board,
              IF board.step >= Threshold THEN "survival" ELSE "none")

\* The loop ends with nothing decided.
Decided(board) == IF Outcome(board) # "none" THEN Outcome(board)
                  ELSE IF board.step = MaxSteps THEN "survival" ELSE "none"

PlayPoliceMove(acc, move) ==
  LET board == ApplyMove(acc.board, Police, move)
  IN  Advance(acc, move \in LegalMoves(acc.board, Police), board, Decided(board))

\* Only a movement is judged.
PlayBarrierFaulty(acc, target) ==
  LET board == PlaceBarrier(acc.board, target)
  IN  Advance(acc, PlaceBarrierOK(acc.board, target), board, "none")

PlayBarrier(acc, target) ==
  LET board == PlaceBarrier(acc.board, target)
  IN  Advance(acc, PlaceBarrierOK(acc.board, target), board, Decided(board))
===========================================================================
