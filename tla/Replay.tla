------------------------------- MODULE Replay -------------------------------
(***************************************************************************)
(* replay/verifier.py: ReplayVerifier, which judges a saved match log       *)
(* without the peer.  It is a second implementation of the reconstruction   *)
(* of runtime/audit_replay.py: a fold over the records, kept here as the    *)
(* accumulator after each of them.  A record that raises is a failure; the  *)
(* board stays and the next record is examined.                             *)
(***************************************************************************)
EXTENDS Board

\* tampered: some record failed; over: the Thief has reached the threshold.
Verdicts == [board : BoardStates, over : BOOLEAN, tampered : BOOLEAN]

NothingRead == [board |-> InitialState, over |-> FALSE, tampered |-> FALSE]

Read(acc, legal, board, over) ==
  IF acc.over \/ ~legal
    THEN [acc EXCEPT !.tampered = TRUE]
    ELSE [acc EXCEPT !.board = board, !.over = over]

VerifyThief(acc, move) ==
  LET board == AfterFullTurn(ApplyMove(acc.board, Thief, move))
  IN  Read(acc, move \in LegalMoves(acc.board, Thief), board, board.step >= Threshold)

\* A capture ends the log.
VerifyPoliceMoveFaulty(acc, move) ==
  LET board == ApplyMove(acc.board, Police, move)
  IN  Read(acc, move \in LegalMoves(acc.board, Police), board, IsCaptured(board))

\* The log goes on after a capture: the Thief could not see it.
VerifyPoliceMove(acc, move) ==
  LET board == ApplyMove(acc.board, Police, move)
  IN  Read(acc, move \in LegalMoves(acc.board, Police), board, FALSE)

VerifyBarrier(acc, target) ==
  Read(acc, PlaceBarrierOK(acc.board, target), PlaceBarrier(acc.board, target), FALSE)
===========================================================================
