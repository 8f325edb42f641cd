------------------------------- MODULE Board -------------------------------
(***************************************************************************)
(* domain/board.py, domain/state.py and domain/outcome.py: the physical     *)
(* rules, as operators on a BoardState.  A BoardState is used by the live   *)
(* Thief (with a Police position it does not know) and by the audit.        *)
(***************************************************************************)
EXTENDS Integers, FiniteSets

CONSTANTS Height, Width,     \* board dimensions
          Capacity,          \* config.barriers.police_capacity
          Threshold,         \* config.turns.survival_threshold
          ThiefStart, PoliceStart

Cells == (0 .. Height - 1) \X (0 .. Width - 1)

ASSUME BoardAssumption == /\ Height \in Nat \ {0} /\ Width \in Nat \ {0}
                          /\ Capacity \in Nat
                          /\ Threshold \in Nat \ {0}
                          /\ ThiefStart \in Cells /\ PoliceStart \in Cells
                          /\ ThiefStart # PoliceStart

Thief  == "thief"
Police == "police"
Roles  == {Thief, Police}

BoardStates == [thief : Cells, police : Cells, barriers : SUBSET Cells,
                barriers_used : Nat, step : Nat]

InitialState == [thief |-> ThiefStart, police |-> PoliceStart, barriers |-> {},
                 barriers_used |-> 0, step |-> 0]

Steps == {"N", "S", "E", "W"}
Moves == Steps \cup {"STAY"}

Destination(origin, move) ==
  CASE move = "N"    -> <<origin[1] - 1, origin[2]>>
    [] move = "S"    -> <<origin[1] + 1, origin[2]>>
    [] move = "E"    -> <<origin[1], origin[2] + 1>>
    [] move = "W"    -> <<origin[1], origin[2] - 1>>
    [] move = "STAY" -> origin

Adjacent(c) == {Destination(c, m) : m \in Steps} \cap Cells

\* The edges of the board are forgotten.
LegalMovesFaulty(board, role) ==
  {m \in Moves : Destination(board[role], m) \notin board.barriers}

\* board[role] is BoardState.position(role).
LegalMoves(board, role) ==
  {m \in Moves : Destination(board[role], m) \in Cells \ board.barriers}

ApplyMove(board, role, move) ==
  [board EXCEPT ![role] = Destination(board[role], move)]

AfterFullTurn(board) == [board EXCEPT !.step = @ + 1]

PlaceBarrierOK(board, target) ==
  /\ board.barriers_used < Capacity
  /\ target \in {board.police} \cup Adjacent(board.police)
  /\ target \notin board.barriers

PlaceBarrier(board, target) ==
  [board EXCEPT !.barriers = @ \cup {target}, !.barriers_used = @ + 1]

\* A barrier on the Thief is not a capture.
IsCapturedFaulty(board) == board.thief = board.police

IsCaptured(board) == board.thief = board.police \/ board.thief \in board.barriers

IsImprisoned(board) == Adjacent(board.thief) \subseteq board.barriers \cup {board.police}

\* evaluate_outcome: the reason, or "none" while play continues.
Outcome(board) ==
  IF IsCaptured(board) THEN "capture"
  ELSE IF IsImprisoned(board) THEN "imprisonment"
  ELSE IF board.step >= Threshold THEN "survival"
  ELSE "none"
===========================================================================
