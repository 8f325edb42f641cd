------------------------------- MODULE Belief -------------------------------
(***************************************************************************)
(* belief/model.py: where the Thief holds the Police possible, as the set   *)
(* of cells with a positive probability.  Scent and hints only weigh cells: *)
(* every likelihood is positive (0.05 and above, raised to a power), so     *)
(* evidence removes a cell only when a public barrier stands on it.         *)
(***************************************************************************)
EXTENDS Board

\* point_belief: the agreed start.
PointBelief(cell) == {cell}

\* normalize: without a positive weight, uniform over the feasible cells
\* (uniform_belief raises where there is none).
Normalize(support, blocked) == IF support = {} THEN Cells \ blocked ELSE support

\* update_belief: blocked cells are skipped.
UpdateBelief(prior, blocked) == Normalize(prior \ blocked, blocked)

\* The Police always moves.
PredictBeliefFaulty(prior, blocked) ==
  Normalize((UNION {Adjacent(c) : c \in prior}) \ blocked, blocked)

\* predict_belief: one unknown N/S/E/W/STAY action of the Police.
PredictBelief(prior, blocked) ==
  Normalize((UNION {{c} \cup Adjacent(c) : c \in prior}) \ blocked, blocked)

\* advance_delayed_belief: the trail up to the last turn, the hidden action of
\* this one, its hint.
AdvanceBelief(prior, blocked) ==
  UpdateBelief(PredictBelief(UpdateBelief(prior, blocked), blocked), blocked)
===========================================================================
