------------------------- MODULE HiddenGame_proofs -------------------------
(***************************************************************************)
(* For boards of any size, any capacity, threshold and step limit: what the *)
(* Thief sees is the truth, and no honest game is refused as illegal.       *)
(* Neither is inductive alone: that the audit accepts an action needs the   *)
(* boards to agree, that live play stops at survival needs the step bound,  *)
(* and that the boards agree after a barrier needs the public barrier to be *)
(* acceptable to the Thief.  IInv is their conjunction.                     *)
(***************************************************************************)
EXTENDS HiddenGame, FiniteSetTheorems, TLAPS

\* The barrier of the last reveal can still be applied by the Thief.
NoticeFresh == /\ phase # "reveal" => notice = {}
               /\ notice \cap live.barriers = {}
               /\ notice # {} => live.barriers_used < Capacity

\* Survival closes the audit, and live play with it.
OpenWhilePlaying == phase \in Playing => /\ ~replay.closed
                                         /\ live.step < Threshold

IInv == /\ TypeOK
        /\ LiveTracksObjective
        /\ NoticeFresh
        /\ OpenWhilePlaying
        /\ HonestReplayLegal

(* The fields of a board, and a board built from fields.                    *)
LEMMA BoardFields ==
  ASSUME NEW b \in BoardStates
  PROVE  /\ b.thief \in Cells /\ b.police \in Cells /\ b.barriers \in SUBSET Cells
         /\ b.barriers_used \in Nat /\ b.step \in Nat
BY DEF BoardStates

LEMMA ThiefReplaced ==
  ASSUME NEW b \in BoardStates, NEW c \in Cells
  PROVE  [b EXCEPT !.thief = c] \in BoardStates
BY DEF BoardStates

LEMMA StepReplaced ==
  ASSUME NEW b \in BoardStates, NEW n \in Nat
  PROVE  [b EXCEPT !.step = n] \in BoardStates
BY DEF BoardStates

\* A board with its barriers and their count replaced.
WithBarriers(b, S, n) == [b EXCEPT !.barriers = S, !.barriers_used = n]

LEMMA BarriersReplaced ==
  ASSUME NEW b \in BoardStates, NEW S \in SUBSET Cells, NEW n \in Nat
  PROVE  /\ WithBarriers(b, S, n) \in BoardStates
         /\ WithBarriers(b, S, n).thief = b.thief
         /\ WithBarriers(b, S, n).police = b.police
         /\ WithBarriers(b, S, n).step = b.step
         /\ WithBarriers(b, S, n).barriers = S
         /\ WithBarriers(b, S, n).barriers_used = n
BY DEF BoardStates, WithBarriers

(* A legal move leads from a board to a board and moves its role only.      *)
LEMMA MoveThief ==
  ASSUME NEW b \in BoardStates, NEW m \in LegalMoves(b, Thief)
  PROVE  /\ AfterFullTurn(ApplyMove(b, Thief, m)) \in BoardStates
         /\ AfterFullTurn(ApplyMove(b, Thief, m)).thief = Destination(b.thief, m)
         /\ AfterFullTurn(ApplyMove(b, Thief, m)).police = b.police
         /\ AfterFullTurn(ApplyMove(b, Thief, m)).barriers = b.barriers
         /\ AfterFullTurn(ApplyMove(b, Thief, m)).barriers_used = b.barriers_used
         /\ AfterFullTurn(ApplyMove(b, Thief, m)).step = b.step + 1
<1> DEFINE c == [b EXCEPT !.thief = Destination(b.thief, m)]
<1>1. Destination(b.thief, m) \in Cells
  BY DEF LegalMoves, Thief
<1>2. ApplyMove(b, Thief, m) = c
  BY DEF ApplyMove, Thief
<1>3. /\ c \in BoardStates
      /\ c.thief = Destination(b.thief, m) /\ c.police = b.police
      /\ c.barriers = b.barriers /\ c.barriers_used = b.barriers_used
      /\ c.step = b.step
  BY <1>1, ThiefReplaced DEF BoardStates
<1> HIDE DEF c
<1>4. /\ AfterFullTurn(c) \in BoardStates
      /\ AfterFullTurn(c).thief = c.thief /\ AfterFullTurn(c).police = c.police
      /\ AfterFullTurn(c).barriers = c.barriers
      /\ AfterFullTurn(c).barriers_used = c.barriers_used
      /\ AfterFullTurn(c).step = c.step + 1
  BY <1>3, BoardFields, StepReplaced DEF AfterFullTurn, BoardStates
<1> QED BY <1>2, <1>3, <1>4

LEMMA MovePolice ==
  ASSUME NEW b \in BoardStates, NEW m \in LegalMoves(b, Police)
  PROVE  /\ ApplyMove(b, Police, m) \in BoardStates
         /\ ApplyMove(b, Police, m).police = Destination(b.police, m)
         /\ ApplyMove(b, Police, m).thief = b.thief
         /\ ApplyMove(b, Police, m).barriers = b.barriers
         /\ ApplyMove(b, Police, m).barriers_used = b.barriers_used
         /\ ApplyMove(b, Police, m).step = b.step
<1>1. Destination(b.police, m) \in Cells
  BY DEF LegalMoves, Police
<1> QED BY <1>1 DEF ApplyMove, BoardStates, Police

(* A placed barrier is one more cell of the board.                          *)
LEMMA PlaceType ==
  ASSUME NEW b \in BoardStates, NEW t \in Cells
  PROVE  /\ PlaceBarrier(b, t) \in BoardStates
         /\ PlaceBarrier(b, t).thief = b.thief
         /\ PlaceBarrier(b, t).police = b.police
         /\ PlaceBarrier(b, t).step = b.step
         /\ PlaceBarrier(b, t).barriers = b.barriers \cup {t}
         /\ PlaceBarrier(b, t).barriers_used = b.barriers_used + 1
<1>1. b.barriers \cup {t} \in SUBSET Cells /\ b.barriers_used + 1 \in Nat
  BY BoardFields
<1>2. PlaceBarrier(b, t) = WithBarriers(b, b.barriers \cup {t}, b.barriers_used + 1)
  BY DEF PlaceBarrier, WithBarriers, BoardStates
<1> QED BY <1>1, <1>2, BarriersReplaced

LEMMA OutcomeReason ==
  ASSUME NEW b \in BoardStates
  PROVE  /\ Outcome(b) \in Reasons
         /\ Outcome(b) = "survival" => b.step >= Threshold
BY DEF Outcome, Reasons

LEMMA NoticeCount ==
  /\ Cardinality({}) = 0
  /\ \A t : Cardinality({t}) = 1
BY FS_EmptySet, FS_Singleton

(* Both folds over the log, and the belief, keep their types.               *)
LEMMA ReadType ==
  ASSUME NEW acc \in Verdicts, NEW legal \in BOOLEAN, NEW over \in BOOLEAN, NEW board,
         legal => board \in BoardStates
  PROVE  Read(acc, legal, board, over) \in Verdicts
BY DEF Read, Verdicts

LEMMA LogType ==
  ASSUME NEW acc \in Verdicts
  PROVE  /\ \A m \in Moves : VerifyThief(acc, m) \in Verdicts
         /\ \A m \in Moves : VerifyPoliceMove(acc, m) \in Verdicts
         /\ \A t \in Cells : VerifyBarrier(acc, t) \in Verdicts
<1>1. acc.board \in BoardStates
  BY DEF Verdicts
<1>2. ASSUME NEW m \in Moves
      PROVE  VerifyThief(acc, m) \in Verdicts
  <2> DEFINE b == AfterFullTurn(ApplyMove(acc.board, Thief, m))
  <2>1. m \in LegalMoves(acc.board, Thief) => b \in BoardStates
    BY <1>1, MoveThief
  <2> HIDE DEF b
  <2>2. ASSUME NEW legal \in BOOLEAN, legal <=> m \in LegalMoves(acc.board, Thief),
               NEW over \in BOOLEAN
        PROVE  Read(acc, legal, b, over) \in Verdicts
    BY <2>1, <2>2, ReadType
  <2>3. /\ (m \in LegalMoves(acc.board, Thief)) \in BOOLEAN
        /\ (b.step >= Threshold) \in BOOLEAN
    OBVIOUS
  <2>4. Read(acc, m \in LegalMoves(acc.board, Thief), b, b.step >= Threshold) \in Verdicts
    BY <2>2, <2>3
  <2> QED BY <2>4 DEF VerifyThief, b
<1>3. ASSUME NEW m \in Moves
      PROVE  VerifyPoliceMove(acc, m) \in Verdicts
  <2> DEFINE b == ApplyMove(acc.board, Police, m)
  <2>1. m \in LegalMoves(acc.board, Police) => b \in BoardStates
    BY <1>1, MovePolice
  <2> HIDE DEF b
  <2>2. ASSUME NEW legal \in BOOLEAN, legal <=> m \in LegalMoves(acc.board, Police)
        PROVE  Read(acc, legal, b, FALSE) \in Verdicts
    BY <2>1, <2>2, ReadType
  <2>3. (m \in LegalMoves(acc.board, Police)) \in BOOLEAN
    OBVIOUS
  <2>4. Read(acc, m \in LegalMoves(acc.board, Police), b, FALSE) \in Verdicts
    BY <2>2, <2>3
  <2> QED BY <2>4 DEF VerifyPoliceMove, b
<1>4. ASSUME NEW t \in Cells
      PROVE  VerifyBarrier(acc, t) \in Verdicts
  <2>1. PlaceBarrier(acc.board, t) \in BoardStates
    BY <1>1, PlaceType
  <2>2. PlaceBarrierOK(acc.board, t) \in BOOLEAN
    BY DEF PlaceBarrierOK
  <2> QED BY <2>1, <2>2, ReadType DEF VerifyBarrier
<1> QED BY <1>2, <1>3, <1>4

(* So does the qualification run.                                           *)
LEMMA AdvanceType ==
  ASSUME NEW acc \in Trials, NEW legal, NEW board, legal => board \in BoardStates,
         NEW outcome \in Reasons
  PROVE  Advance(acc, legal, board, outcome) \in Trials
BY DEF Advance, Trials, Reasons

LEMMA DecidedReason ==
  ASSUME NEW b \in BoardStates
  PROVE  Decided(b) \in Reasons
BY OutcomeReason DEF Decided, Reasons

LEMMA TrialType ==
  ASSUME NEW acc \in Trials
  PROVE  /\ \A m \in Moves : PlayThief(acc, m) \in Trials
         /\ \A m \in Moves : PlayPoliceMove(acc, m) \in Trials
         /\ \A t \in Cells : PlayBarrier(acc, t) \in Trials
<1>1. acc.board \in BoardStates
  BY DEF Trials
<1>2. ASSUME NEW m \in Moves
      PROVE  PlayThief(acc, m) \in Trials
  <2> DEFINE b == AfterFullTurn(ApplyMove(acc.board, Thief, m))
             o == IF b.step >= Threshold THEN "survival" ELSE "none"
  <2>1. m \in LegalMoves(acc.board, Thief) => b \in BoardStates
    BY <1>1, MoveThief
  <2>2. o \in Reasons
    BY DEF Reasons
  <2>3. PlayThief(acc, m) = Advance(acc, m \in LegalMoves(acc.board, Thief), b, o)
    BY DEF PlayThief
  <2> HIDE DEF b, o
  <2> QED BY <2>1, <2>2, <2>3, AdvanceType
<1>3. ASSUME NEW m \in Moves
      PROVE  PlayPoliceMove(acc, m) \in Trials
  <2> DEFINE b == ApplyMove(acc.board, Police, m)
  <2>1. CASE m \in LegalMoves(acc.board, Police)
    <3>1. b \in BoardStates
      BY <1>1, <2>1, MovePolice
    <3>2. Decided(b) \in Reasons
      BY <3>1, DecidedReason
    <3>3. PlayPoliceMove(acc, m) \in {acc, [board |-> b, outcome |-> Decided(b)]}
      BY <2>1 DEF PlayPoliceMove, Advance
    <3> HIDE DEF b
    <3> QED BY <3>1, <3>2, <3>3 DEF Trials, Reasons
  <2>2. CASE m \notin LegalMoves(acc.board, Police)
    <3>1. PlayPoliceMove(acc, m) \in {acc, [acc EXCEPT !.outcome = "error"]}
      BY <2>2 DEF PlayPoliceMove, Advance
    <3> QED BY <3>1 DEF Trials
  <2> QED BY <2>1, <2>2
<1>4. ASSUME NEW t \in Cells
      PROVE  PlayBarrier(acc, t) \in Trials
  <2> DEFINE b == PlaceBarrier(acc.board, t)
  <2>1. b \in BoardStates
    BY <1>1, PlaceType
  <2>2. Decided(b) \in Reasons
    BY <2>1, DecidedReason
  <2>3. PlayBarrier(acc, t) = Advance(acc, PlaceBarrierOK(acc.board, t), b, Decided(b))
    BY DEF PlayBarrier
  <2> HIDE DEF b
  <2> QED BY <2>1, <2>2, <2>3, AdvanceType
<1> QED BY <1>2, <1>3, <1>4

LEMMA NormalizeType ==
  ASSUME NEW S \in SUBSET Cells, NEW blocked
  PROVE  Normalize(S, blocked) \in SUBSET Cells
BY DEF Normalize

LEMMA AdjacentCells ==
  ASSUME NEW c
  PROVE  Adjacent(c) \in SUBSET Cells
BY DEF Adjacent

LEMMA BeliefType ==
  ASSUME NEW prior \in SUBSET Cells, NEW blocked
  PROVE  /\ UpdateBelief(prior, blocked) \in SUBSET Cells
         /\ PredictBelief(prior, blocked) \in SUBSET Cells
         /\ AdvanceBelief(prior, blocked) \in SUBSET Cells
<1>1. ASSUME NEW p \in SUBSET Cells
      PROVE  UpdateBelief(p, blocked) \in SUBSET Cells
  BY NormalizeType DEF UpdateBelief
<1>2. ASSUME NEW p \in SUBSET Cells
      PROVE  PredictBelief(p, blocked) \in SUBSET Cells
  BY NormalizeType, AdjacentCells DEF PredictBelief
<1> QED BY <1>1, <1>2 DEF AdvanceBelief

LEMMA InitialInv == Init => IInv
<1> SUFFICES ASSUME Init PROVE IInv
  OBVIOUS
<1>1. InitialState \in BoardStates
  BY BoardAssumption DEF InitialState, BoardStates
<1>2. TypeOK
  BY <1>1, NoticeCount, BoardAssumption
     DEF Init, TypeOK, Reasons, Claims, Playing, NothingRead, Verdicts, NothingPlayed,
         Trials, PointBelief
<1>3. LiveTracksObjective
  BY NoticeCount DEF Init, LiveTracksObjective, InitialState
<1>4. NoticeFresh /\ OpenWhilePlaying /\ HonestReplayLegal
  BY BoardAssumption DEF Init, NoticeFresh, OpenWhilePlaying, HonestReplayLegal, InitialState
<1> QED BY <1>2, <1>3, <1>4 DEF IInv

LEMMA ThiefTurnStep ==
  ASSUME IInv, NEW m \in Moves, ThiefTurn(m)
  PROVE  IInv'
<1> DEFINE L == AfterFullTurn(ApplyMove(live, Thief, m))
           A == AfterFullTurn(ApplyMove(replay.board, Thief, m))
           o == IF A.step >= Threshold THEN "survival" ELSE "none"
<1>1. /\ live \in BoardStates /\ replay.board \in BoardStates
      /\ notice = {} /\ replay.board.thief = live.thief
      /\ replay.board.barriers = live.barriers
      /\ replay.board.step = live.step
      /\ m \in LegalMoves(live, Thief)
      /\ phase = "thief" /\ ~replay.closed /\ ~replay.illegal
  BY DEF IInv, TypeOK, LiveTracksObjective, NoticeFresh, OpenWhilePlaying, HonestReplayLegal,
         ThiefTurn, Choices, Playing
<1>2. m \in LegalMoves(replay.board, Thief)
  BY <1>1 DEF LegalMoves, Thief
<1>3. /\ L \in BoardStates
      /\ L.thief = Destination(live.thief, m) /\ L.police = live.police
      /\ L.barriers = live.barriers /\ L.barriers_used = live.barriers_used
      /\ L.step = live.step + 1
  BY <1>1, MoveThief
<1>4. /\ A \in BoardStates
      /\ A.thief = Destination(live.thief, m) /\ A.police = replay.board.police
      /\ A.barriers = replay.board.barriers
      /\ A.barriers_used = replay.board.barriers_used
      /\ A.step = live.step + 1
  BY <1>1, <1>2, MoveThief
<1>5. /\ live' = L /\ replay'.board = A
      /\ replay'.closed = (o = "survival") /\ replay'.illegal = FALSE
      /\ replay'.terminal \in Reasons
      /\ replay' = [board |-> replay'.board, terminal |-> replay'.terminal,
                    closed |-> replay'.closed, illegal |-> replay'.illegal]
      /\ phase' = IF L.step >= Threshold THEN "audit" ELSE "police"
      /\ log' = VerifyThief(log, m)
      /\ trial' = PlayThief(trial, m)
      /\ UNCHANGED <<officer, belief, masked, notice, claim>>
  BY <1>1, <1>2 DEF ThiefTurn, ReplayThief, Judge, IInv, TypeOK, Reasons
<1>6. TypeOK'
  BY <1>3, <1>4, <1>5, LogType, TrialType DEF IInv, TypeOK, Playing
<1>7. LiveTracksObjective'
  BY <1>1, <1>3, <1>4, <1>5, NoticeCount DEF IInv, LiveTracksObjective
<1>8. NoticeFresh' /\ HonestReplayLegal'
  BY <1>1, <1>3, <1>5 DEF NoticeFresh, HonestReplayLegal
<1>9. OpenWhilePlaying'
  <2>1. CASE L.step >= Threshold
    BY <1>5, <2>1 DEF OpenWhilePlaying, Playing
  <2>2. CASE ~(L.step >= Threshold)
    <3>1. L.step \in Nat /\ A.step = L.step
      BY <1>3, <1>4, BoardFields
    <3>2. L.step < Threshold /\ o = "none"
      BY <3>1, <2>2, BoardAssumption
    <3> QED BY <1>5, <3>2 DEF OpenWhilePlaying
  <2> QED BY <2>1, <2>2
<1> QED BY <1>6, <1>7, <1>8, <1>9 DEF IInv

LEMMA PoliceMovesStep ==
  ASSUME IInv, NEW m \in Moves, PoliceMoves(m)
  PROVE  IInv'
<1> DEFINE O == ApplyMove(officer, Police, m)
           A == ApplyMove(replay.board, Police, m)
<1>1. /\ officer \in BoardStates /\ replay.board \in BoardStates
      /\ live \in BoardStates /\ notice = {}
      /\ replay.board.police = officer.police
      /\ replay.board.barriers = officer.barriers
      /\ m \in LegalMoves(officer, Police)
      /\ phase = "police" /\ ~replay.closed /\ ~replay.illegal
      /\ live.step < Threshold /\ replay.board.step = live.step
  BY DEF IInv, TypeOK, LiveTracksObjective, NoticeFresh, OpenWhilePlaying, HonestReplayLegal,
         PoliceMoves, Playing
<1>2. m \in LegalMoves(replay.board, Police)
  BY <1>1 DEF LegalMoves, Police
<1>3. /\ O \in BoardStates
      /\ O.police = Destination(officer.police, m)
      /\ O.barriers = officer.barriers /\ O.barriers_used = officer.barriers_used
  BY <1>1, MovePolice
<1>4. /\ A \in BoardStates
      /\ A.police = Destination(officer.police, m) /\ A.thief = replay.board.thief
      /\ A.barriers = replay.board.barriers
      /\ A.barriers_used = replay.board.barriers_used
      /\ A.step = live.step
  BY <1>1, <1>2, MovePolice
<1>5. Outcome(A) \in Reasons /\ Outcome(A) # "survival"
  BY <1>1, <1>4, OutcomeReason, BoardAssumption DEF BoardStates
<1>6. /\ officer' = O /\ replay'.board = A
      /\ replay'.closed = FALSE /\ replay'.illegal = FALSE
      /\ replay'.terminal \in Reasons
      /\ replay' = [board |-> replay'.board, terminal |-> replay'.terminal,
                    closed |-> replay'.closed, illegal |-> replay'.illegal]
      /\ phase' = "reveal" /\ notice' = {}
      /\ log' = VerifyPoliceMove(log, m)
      /\ trial' = PlayPoliceMove(trial, m)
      /\ UNCHANGED <<live, belief, masked, claim>>
  BY <1>1, <1>2, <1>5 DEF PoliceMoves, ReplayPoliceMove, Judge, IInv, TypeOK
<1>7. TypeOK'
  BY <1>3, <1>4, <1>6, LogType, TrialType DEF IInv, TypeOK, Playing
<1>8. LiveTracksObjective'
  BY <1>1, <1>3, <1>4, <1>6, NoticeCount DEF IInv, LiveTracksObjective
<1>9. NoticeFresh' /\ HonestReplayLegal' /\ OpenWhilePlaying'
  BY <1>1, <1>6 DEF NoticeFresh, HonestReplayLegal, OpenWhilePlaying
<1> QED BY <1>7, <1>8, <1>9 DEF IInv

LEMMA PolicePlacesStep ==
  ASSUME IInv, NEW t \in Cells, PolicePlaces(t)
  PROVE  IInv'
<1> DEFINE O == PlaceBarrier(officer, t)
           A == PlaceBarrier(replay.board, t)
<1>1. /\ officer \in BoardStates /\ replay.board \in BoardStates
      /\ live \in BoardStates /\ notice = {}
      /\ replay.board.police = officer.police
      /\ replay.board.barriers = officer.barriers
      /\ replay.board.barriers_used = officer.barriers_used
      /\ replay.board.barriers = live.barriers
      /\ replay.board.barriers_used = live.barriers_used
      /\ PlaceBarrierOK(officer, t)
      /\ phase = "police" /\ ~replay.closed /\ ~replay.illegal
      /\ live.step < Threshold /\ replay.board.step = live.step
  <2>1. phase = "police" /\ notice = {} /\ Cardinality(notice) = 0
    BY NoticeCount DEF IInv, NoticeFresh, PolicePlaces
  <2>2. live \in BoardStates /\ live.barriers_used \in Nat
    BY BoardFields DEF IInv, TypeOK
  <2> QED
    BY <2>1, <2>2 DEF IInv, TypeOK, LiveTracksObjective, OpenWhilePlaying, HonestReplayLegal,
                      PolicePlaces, Playing
<1>2. PlaceBarrierOK(replay.board, t)
  BY <1>1 DEF PlaceBarrierOK
<1>3. /\ O \in BoardStates /\ O.police = officer.police
      /\ O.barriers = officer.barriers \cup {t}
      /\ O.barriers_used = officer.barriers_used + 1
  BY <1>1, PlaceType
<1>4. /\ A \in BoardStates
      /\ A.police = replay.board.police /\ A.thief = replay.board.thief
      /\ A.barriers = replay.board.barriers \cup {t}
      /\ A.barriers_used = replay.board.barriers_used + 1
      /\ A.step = live.step
  BY <1>1, PlaceType
<1>5. Outcome(A) \in Reasons /\ Outcome(A) # "survival"
  BY <1>1, <1>4, OutcomeReason, BoardAssumption DEF BoardStates
<1>6. /\ officer' = O /\ replay'.board = A
      /\ replay'.closed = FALSE /\ replay'.illegal = FALSE
      /\ replay'.terminal \in Reasons
      /\ replay' = [board |-> replay'.board, terminal |-> replay'.terminal,
                    closed |-> replay'.closed, illegal |-> replay'.illegal]
      /\ phase' = "reveal" /\ notice' = {t}
      /\ log' = VerifyBarrier(log, t)
      /\ trial' = PlayBarrier(trial, t)
      /\ masked' \in BOOLEAN
      /\ UNCHANGED <<live, belief, claim>>
  BY <1>1, <1>2, <1>5 DEF PolicePlaces, ReplayBarrier, Judge, IInv, TypeOK
<1>7. TypeOK'
  BY <1>3, <1>4, <1>6, LogType, TrialType DEF IInv, TypeOK, Playing
<1>8. LiveTracksObjective'
  BY <1>1, <1>3, <1>4, <1>6, NoticeCount DEF IInv, LiveTracksObjective
<1>9. NoticeFresh'
  BY <1>1, <1>6 DEF NoticeFresh, PlaceBarrierOK
<1>10. HonestReplayLegal' /\ OpenWhilePlaying'
  BY <1>1, <1>6 DEF HonestReplayLegal, OpenWhilePlaying
<1> QED BY <1>7, <1>8, <1>9, <1>10 DEF IInv

LEMMA ThiefReadsStep ==
  ASSUME IInv, ThiefReads
  PROVE  IInv'
<1> DEFINE L == ApplyPublicBarrier(live, notice)
<1>1. /\ live \in BoardStates /\ notice \in SUBSET Cells
      /\ notice \cap live.barriers = {}
      /\ notice # {} => live.barriers_used < Capacity
      /\ phase = "reveal" /\ ~replay.closed /\ live.step < Threshold
      /\ Cardinality(notice) \in Nat
  <2>1. notice \in {{}} \cup {{t} : t \in Cells}
    BY DEF IInv, TypeOK
  <2>2. ASSUME NEW t \in Cells, notice = {t}
        PROVE  notice \in SUBSET Cells /\ Cardinality(notice) = 1
    BY <2>2, NoticeCount
  <2>3. notice \in SUBSET Cells /\ Cardinality(notice) \in Nat
    BY <2>1, <2>2, NoticeCount
  <2> QED BY <2>3 DEF IInv, TypeOK, NoticeFresh, OpenWhilePlaying, ThiefReads, Playing
<1>2. PublicBarrierOK(live, notice)
  BY <1>1 DEF PublicBarrierOK, BoardStates
<1>3. /\ L \in BoardStates
      /\ L.thief = live.thief /\ L.police = live.police /\ L.step = live.step
      /\ L.barriers = live.barriers \cup notice
      /\ L.barriers_used = live.barriers_used + Cardinality(notice)
  <2>1. live.barriers \cup notice \in SUBSET Cells
        /\ live.barriers_used + Cardinality(notice) \in Nat
    BY <1>1, BoardFields
  <2>2. L = WithBarriers(live, live.barriers \cup notice,
                         live.barriers_used + Cardinality(notice))
    BY <1>1 DEF ApplyPublicBarrier, WithBarriers, BoardStates
  <2> QED BY <1>1, <2>1, <2>2, BarriersReplaced
<1>4. /\ live' = L /\ notice' = {} /\ UNCHANGED <<officer, replay, log, trial, masked>>
      /\ belief' \in SUBSET Cells
      /\ claim' \in Claims
      /\ phase' \in {"thief", "audit", "refused"}
  <2>1. belief \in SUBSET Cells /\ claim \in Claims
    BY DEF IInv, TypeOK
  <2>2. AdvanceBelief(belief, live'.barriers) \in SUBSET Cells
    BY <2>1, BeliefType
  <2>3. PublicCapture(live') \in Claims
    BY DEF PublicCapture, Claims
  <2> QED BY <1>2, <2>1, <2>2, <2>3 DEF ThiefReads
<1>5. TypeOK'
  BY <1>3, <1>4, NoticeCount DEF IInv, TypeOK, Playing, Over
<1>6. LiveTracksObjective'
  <2>1. L.barriers \cup notice' = L.barriers /\ L.barriers_used + Cardinality(notice') = L.barriers_used
    BY <1>3, <1>4, NoticeCount, BoardFields
  <2> QED BY <1>3, <1>4, <2>1 DEF IInv, LiveTracksObjective
<1>7. NoticeFresh' /\ OpenWhilePlaying' /\ HonestReplayLegal'
  BY <1>1, <1>3, <1>4 DEF IInv, NoticeFresh, OpenWhilePlaying, HonestReplayLegal, Playing
<1> QED BY <1>5, <1>6, <1>7 DEF IInv

LEMMA InvariantStep == IInv /\ [Next]_vars => IInv'
<1> SUFFICES ASSUME IInv, [Next]_vars PROVE IInv'
  OBVIOUS
<1>1. CASE Finalize
  BY <1>1 DEF Finalize, IInv, TypeOK, LiveTracksObjective, NoticeFresh, OpenWhilePlaying,
              HonestReplayLegal, Playing, Over
<1>2. CASE UNCHANGED vars
  BY <1>2 DEF vars, IInv, TypeOK, LiveTracksObjective, NoticeFresh, OpenWhilePlaying,
              HonestReplayLegal
<1> QED BY <1>1, <1>2, ThiefTurnStep, PoliceMovesStep, PolicePlacesStep, ThiefReadsStep
        DEF Next

LEMMA Invariant == Spec => []IInv
BY InitialInv, InvariantStep, PTL DEF Spec

(* The state of the game is always well formed.                             *)
THEOREM TypeCorrect == Spec => []TypeOK
<1>1. IInv => TypeOK
  BY DEF IInv
<1> QED BY <1>1, Invariant, PTL

(* The Thief's own cell, step and barriers are the objective ones.           *)
THEOREM LiveTracks == Spec => []LiveTracksObjective
<1>1. IInv => LiveTracksObjective
  BY DEF IInv
<1> QED BY <1>1, Invariant, PTL

(* The audit never refuses an action of an honest game as illegal.          *)
THEOREM HonestNeverIllegal == Spec => []HonestReplayLegal
<1>1. IInv => HonestReplayLegal
  BY DEF IInv
<1> QED BY <1>1, Invariant, PTL
(***************************************************************************)
(* Once the objective board shows a barrier on the Thief, or the threshold, *)
(* the audit has an outcome; and a claimed barrier is on that board.        *)
(***************************************************************************)
PublicFacts == \/ replay.terminal # "none"
               \/ /\ replay.board.thief \notin replay.board.barriers
                  /\ ~(replay.board.step >= Threshold)

ClaimFacts == /\ phase \in Playing => claim = "none"
              /\ claim = "barrier" => live.thief \in live.barriers

EndInv == PublicFacts /\ ClaimFacts

LEMMA ThiefTurnEnds ==
  ASSUME IInv, EndInv, NEW m \in Moves, ThiefTurn(m)
  PROVE  EndInv'
<1> DEFINE A == AfterFullTurn(ApplyMove(replay.board, Thief, m))
           o == IF A.step >= Threshold THEN "survival" ELSE "none"
<1>1. /\ replay.board \in BoardStates /\ live.thief = replay.board.thief
      /\ live.barriers = replay.board.barriers
      /\ m \in LegalMoves(replay.board, Thief)
      /\ replay'.board = A
      /\ replay'.terminal = IF replay.terminal = "none" THEN o ELSE replay.terminal
  BY DEF IInv, TypeOK, LiveTracksObjective, NoticeFresh, ThiefTurn, Choices, ReplayThief, Judge,
         LegalMoves, Thief
<1>2. A.thief = Destination(replay.board.thief, m) /\ A.barriers = replay.board.barriers
  BY <1>1, MoveThief
<1>3. A.thief \notin A.barriers
  BY <1>1, <1>2 DEF LegalMoves, Thief
<1>4. PublicFacts'
  BY <1>1, <1>3 DEF PublicFacts
<1>5. ClaimFacts'
  BY DEF ThiefTurn, EndInv, ClaimFacts, Playing
<1> QED BY <1>4, <1>5 DEF EndInv

LEMMA PoliceMovesEnds ==
  ASSUME IInv, EndInv, NEW m \in Moves, PoliceMoves(m)
  PROVE  EndInv'
<1> DEFINE A == ApplyMove(replay.board, Police, m)
<1>1. /\ replay.board \in BoardStates
      /\ m \in LegalMoves(replay.board, Police)
      /\ replay'.board = A
      /\ replay'.terminal = IF replay.terminal = "none" THEN Outcome(A) ELSE replay.terminal
  BY DEF IInv, TypeOK, LiveTracksObjective, PoliceMoves, ReplayPoliceMove, Judge,
         LegalMoves, Police, NoticeFresh
<1>2. /\ A.thief = replay.board.thief /\ A.barriers = replay.board.barriers
      /\ A.step = replay.board.step
  BY <1>1, MovePolice
<1>3. PublicFacts'
  BY <1>1, <1>2 DEF EndInv, PublicFacts
<1>4. ClaimFacts'
  BY DEF PoliceMoves, EndInv, ClaimFacts, Playing
<1> QED BY <1>3, <1>4 DEF EndInv

LEMMA PolicePlacesEnds ==
  ASSUME IInv, EndInv, NEW t \in Cells, PolicePlaces(t)
  PROVE  EndInv'
<1> DEFINE A == PlaceBarrier(replay.board, t)
<1>1. /\ replay'.board = A
      /\ replay'.terminal = IF replay.terminal = "none" THEN Outcome(A) ELSE replay.terminal
  BY DEF PolicePlaces, ReplayBarrier, Judge
<1>2. Outcome(A) = "none" => A.thief \notin A.barriers /\ ~(A.step >= Threshold)
  BY DEF Outcome, IsCaptured
<1>3. PublicFacts'
  BY <1>1, <1>2 DEF PublicFacts
<1>4. ClaimFacts'
  BY DEF PolicePlaces, EndInv, ClaimFacts, Playing
<1> QED BY <1>3, <1>4 DEF EndInv

LEMMA ThiefReadsEnds ==
  ASSUME IInv, EndInv, ThiefReads
  PROVE  EndInv'
<1>1. PublicFacts'
  BY DEF ThiefReads, EndInv, PublicFacts
<1>2. ClaimFacts'
  BY DEF ThiefReads, EndInv, ClaimFacts, Playing, PublicCapture
<1> QED BY <1>1, <1>2 DEF EndInv

LEMMA EndInvariant == Spec => []EndInv
<1>1. Init => EndInv
  BY BoardAssumption DEF Init, EndInv, PublicFacts, ClaimFacts, InitialState
<1>2. IInv /\ EndInv /\ [Next]_vars => EndInv'
  <2> SUFFICES ASSUME IInv, EndInv, [Next]_vars PROVE EndInv'
    OBVIOUS
  <2>1. CASE Finalize
    BY <2>1 DEF Finalize, EndInv, PublicFacts, ClaimFacts, Playing
  <2>2. CASE UNCHANGED vars
    BY <2>2 DEF vars, EndInv, PublicFacts, ClaimFacts
  <2> QED BY <2>1, <2>2, ThiefTurnEnds, PoliceMovesEnds, PolicePlacesEnds, ThiefReadsEnds
          DEF Next
<1> QED BY <1>1, <1>2, Invariant, PTL DEF Spec

(* A claimed barrier is proved by the audit, and survival is an outcome.    *)
THEOREM PublicEndHolds == Spec => []PublicEndProven
<1>1. IInv /\ EndInv => PublicEndProven
  BY DEF IInv, EndInv, LiveTracksObjective, PublicFacts, ClaimFacts, PublicEndProven
<1> QED BY <1>1, Invariant, EndInvariant, PTL

(***************************************************************************)
(* The offline verifier follows the audit: as long as no action was illegal *)
(* it has the audit's board, and it takes the log for ended only when       *)
(* survival has closed the audit.                                           *)
(***************************************************************************)
LogInv == ~replay.illegal => /\ ~log.tampered
                             /\ log.board = replay.board
                             /\ log.over => replay.closed

LEMMA LogFollows ==
  ASSUME IInv, LogInv, [Next]_vars
  PROVE  LogInv'
<1>1. /\ log \in Verdicts /\ ~replay.illegal /\ ~replay'.illegal
      /\ log.board = replay.board /\ ~log.tampered
      /\ log.over => replay.closed
  BY InvariantStep DEF IInv, TypeOK, LogInv, HonestReplayLegal
<1>2. ASSUME NEW m \in Moves, ThiefTurn(m)
      PROVE  LogInv'
  <2> DEFINE b == AfterFullTurn(ApplyMove(replay.board, Thief, m))
  <2>1. /\ m \in LegalMoves(replay.board, Thief) /\ ~replay.closed
        /\ replay'.board = b
        /\ replay'.closed = (b.step >= Threshold)
    <3>1. replay' = Judge(replay, b, m \in LegalMoves(replay.board, Thief),
                          IF b.step >= Threshold THEN "survival" ELSE "none")
      BY <1>2 DEF ThiefTurn, ReplayThief
    <3> HIDE DEF b
    <3>2. replay'.illegal = (replay.illegal \/ m \notin LegalMoves(replay.board, Thief)
                                            \/ replay.closed)
      BY <3>1 DEF Judge
    <3>3. replay'.board = b /\ replay'.closed = (b.step >= Threshold)
      BY <3>1 DEF Judge
    <3> QED BY <1>1, <3>2, <3>3
  <2>2. log' = [log EXCEPT !.board = b, !.over = (b.step >= Threshold)]
    BY <1>1, <1>2, <2>1 DEF ThiefTurn, VerifyThief, Read
  <2> HIDE DEF b
  <2> QED BY <1>1, <2>1, <2>2 DEF LogInv, Verdicts
<1>3. ASSUME NEW m \in Moves, PoliceMoves(m)
      PROVE  LogInv'
  <2> DEFINE b == ApplyMove(replay.board, Police, m)
  <2>1. /\ m \in LegalMoves(replay.board, Police) /\ ~replay.closed
        /\ replay'.board = b
    BY <1>1, <1>3 DEF PoliceMoves, ReplayPoliceMove, Judge
  <2>2. log' = [log EXCEPT !.board = b, !.over = FALSE]
    BY <1>1, <1>3, <2>1 DEF PoliceMoves, VerifyPoliceMove, Read
  <2> HIDE DEF b
  <2> QED BY <1>1, <2>1, <2>2 DEF LogInv, Verdicts
<1>4. ASSUME NEW t \in Cells, PolicePlaces(t)
      PROVE  LogInv'
  <2> DEFINE b == PlaceBarrier(replay.board, t)
  <2>1. /\ PlaceBarrierOK(replay.board, t) /\ ~replay.closed
        /\ replay'.board = b
    BY <1>1, <1>4 DEF PolicePlaces, ReplayBarrier, Judge
  <2>2. log' = [log EXCEPT !.board = b, !.over = FALSE]
    BY <1>1, <1>4, <2>1 DEF PolicePlaces, VerifyBarrier, Read
  <2> HIDE DEF b
  <2> QED BY <1>1, <2>1, <2>2 DEF LogInv, Verdicts
<1>5. CASE ThiefReads \/ Finalize \/ UNCHANGED vars
  BY <1>5 DEF ThiefReads, Finalize, vars, LogInv
<1> QED BY <1>2, <1>3, <1>4, <1>5 DEF Next

(***************************************************************************)
(* A qualification run of the same actions follows the audit until the      *)
(* first outcome, and a Police action decides nothing that the audit leaves *)
(* open, because it falls before the threshold.                             *)
(***************************************************************************)
TrialInv == Threshold <= MaxSteps => TrialAgrees

LEMMA NothingDecided ==
  ASSUME NEW b \in BoardStates, b.step < Threshold, Threshold <= MaxSteps
  PROVE  Decided(b) = Outcome(b)
<1>1. b.step # MaxSteps
  BY BoardAssumption, StepsAssumption DEF BoardStates
<1> QED BY <1>1 DEF Decided

\* One action: both folds take the same board and outcome.
LEMMA TrialFollows ==
  ASSUME NEW b, NEW o \in Reasons, replay \in [board : BoardStates, terminal : Reasons,
                                             closed : BOOLEAN, illegal : BOOLEAN],
         NEW legal, TrialAgrees, legal,
         replay' = Judge(replay, b, legal, o),
         trial.outcome = "none" => trial' = Advance(trial, TRUE, b, o),
         trial.outcome # "none" => trial' = trial
  PROVE  TrialAgrees'
<1>1. replay'.board = b /\ replay'.terminal = IF replay.terminal = "none" THEN o
                                                                      ELSE replay.terminal
  BY DEF Judge
<1>2. CASE trial.outcome = "none"
  <2>1. replay.terminal = "none"
    BY <1>2 DEF TrialAgrees
  <2>2. trial' = [board |-> b, outcome |-> o]
    <3>1. Advance(trial, TRUE, b, o) = [board |-> b, outcome |-> o]
      BY <1>2, Zenon DEF Advance
    <3> QED BY <1>2, <3>1
  <2> QED BY <1>1, <2>1, <2>2 DEF TrialAgrees
<1>3. CASE trial.outcome # "none"
  BY <1>1, <1>3 DEF TrialAgrees
<1> QED BY <1>2, <1>3

LEMMA TrialStep ==
  ASSUME IInv, TrialInv, [Next]_vars
  PROVE  TrialInv'
<1> SUFFICES ASSUME Threshold <= MaxSteps PROVE TrialAgrees'
  BY DEF TrialInv
<1>1. /\ TrialAgrees /\ ~replay'.illegal
      /\ replay \in [board : BoardStates, terminal : Reasons, closed : BOOLEAN,
                     illegal : BOOLEAN]
      /\ replay'.board \in BoardStates
      /\ phase = "police" => replay.board.step < Threshold
  BY InvariantStep DEF IInv, TrialInv, TypeOK, HonestReplayLegal, OpenWhilePlaying,
                       LiveTracksObjective, Playing
<1>2. ASSUME NEW m \in Moves, ThiefTurn(m)
      PROVE  TrialAgrees'
  <2> DEFINE b == AfterFullTurn(ApplyMove(replay.board, Thief, m))
             o == IF b.step >= Threshold THEN "survival" ELSE "none"
             legal == m \in LegalMoves(replay.board, Thief)
  <2>1. replay' = Judge(replay, b, legal, o)
    BY <1>2 DEF ThiefTurn, ReplayThief
  <2>2. legal
    BY <1>1, <2>1 DEF Judge
  <2>3. trial.outcome = "none" => trial' = Advance(trial, TRUE, b, o)
    BY <1>1, <1>2, <2>2 DEF ThiefTurn, PlayThief, TrialAgrees, Advance
  <2>4. trial.outcome # "none" => trial' = trial
    BY <1>2 DEF ThiefTurn, PlayThief, Advance
  <2>5. o \in Reasons
    BY DEF Reasons
  <2> HIDE DEF b, o, legal
  <2> QED BY <1>1, <2>1, <2>2, <2>3, <2>4, <2>5, TrialFollows
<1>3. ASSUME NEW m \in Moves, PoliceMoves(m)
      PROVE  TrialAgrees'
  <2> DEFINE b == ApplyMove(replay.board, Police, m)
             legal == m \in LegalMoves(replay.board, Police)
  <2>1. replay' = Judge(replay, b, legal, Outcome(b))
    BY <1>3 DEF PoliceMoves, ReplayPoliceMove
  <2>2. legal
    BY <1>1, <2>1 DEF Judge
  <2>3. b \in BoardStates /\ b.step < Threshold
    BY <1>1, <1>3, <2>2, MovePolice DEF PoliceMoves
  <2>4. Decided(b) = Outcome(b) /\ Outcome(b) \in Reasons
    BY <2>3, NothingDecided, OutcomeReason
  <2>5. trial.outcome = "none" => trial' = Advance(trial, TRUE, b, Outcome(b))
    BY <1>1, <1>3, <2>2, <2>4 DEF PoliceMoves, PlayPoliceMove, TrialAgrees, Advance
  <2>6. trial.outcome # "none" => trial' = trial
    BY <1>3 DEF PoliceMoves, PlayPoliceMove, Advance
  <2> HIDE DEF b, legal
  <2> QED BY <1>1, <2>1, <2>2, <2>4, <2>5, <2>6, TrialFollows
<1>4. ASSUME NEW t \in Cells, PolicePlaces(t)
      PROVE  TrialAgrees'
  <2> DEFINE b == PlaceBarrier(replay.board, t)
             legal == PlaceBarrierOK(replay.board, t)
  <2>1. replay' = Judge(replay, b, legal, Outcome(b))
    BY <1>4 DEF PolicePlaces, ReplayBarrier
  <2>2. legal
    BY <1>1, <2>1 DEF Judge
  <2>3. b \in BoardStates /\ b.step < Threshold
    BY <1>1, <1>4, PlaceType DEF PolicePlaces
  <2>4. Decided(b) = Outcome(b) /\ Outcome(b) \in Reasons
    BY <2>3, NothingDecided, OutcomeReason
  <2>5. trial.outcome = "none" => trial' = Advance(trial, TRUE, b, Outcome(b))
    BY <1>1, <1>4, <2>2, <2>4 DEF PolicePlaces, PlayBarrier, TrialAgrees, Advance
  <2>6. trial.outcome # "none" => trial' = trial
    BY <1>4 DEF PolicePlaces, PlayBarrier, Advance
  <2> HIDE DEF b, legal
  <2> QED BY <1>1, <2>1, <2>2, <2>4, <2>5, <2>6, TrialFollows
<1>5. CASE ThiefReads \/ Finalize \/ UNCHANGED vars
  BY <1>1, <1>5 DEF ThiefReads, Finalize, vars, TrialAgrees
<1> QED BY <1>2, <1>3, <1>4, <1>5 DEF Next

(* Every log of an honest game is "Verified OK" offline, whatever its       *)
(* length and wherever the capture the Thief could not see, and a           *)
(* qualification run comes to the outcome of the audit.                     *)
THEOREM ImplementationsAgreeHolds == Spec => []ImplementationsAgree
<1>1. Init => LogInv /\ TrialInv
  BY DEF Init, LogInv, NothingRead, TrialInv, TrialAgrees, NothingPlayed
<1>2. IInv /\ LogInv /\ TrialInv => ImplementationsAgree
  BY DEF IInv, HonestReplayLegal, LogInv, LogAgrees, TrialInv, ImplementationsAgree
<1> QED BY <1>1, <1>2, LogFollows, TrialStep, Invariant, PTL DEF Spec

(***************************************************************************)
(* The belief never excludes the Police that stays off its own barriers:    *)
(* until the reveal is read, the Police is at most one cell away from a cell*)
(* the belief holds possible, and no barrier stands on that cell.           *)
(***************************************************************************)
Reach(c) == {c} \cup Adjacent(c)

BeliefInv == ~masked =>
  /\ officer.police \notin officer.barriers
  /\ phase \in {"thief", "police"} => officer.police \in belief
  /\ phase = "reveal" =>
       \E c \in belief : c \notin officer.barriers /\ officer.police \in Reach(c)

LEMMA MoveReaches ==
  ASSUME NEW b \in BoardStates, NEW m \in LegalMoves(b, Police)
  PROVE  Destination(b.police, m) \in Reach(b.police) \ b.barriers
BY DEF LegalMoves, Moves, Steps, Reach, Adjacent, Destination, Police

LEMMA AdvanceCovers ==
  ASSUME NEW prior \in SUBSET Cells, NEW blocked, NEW c \in prior \ blocked,
         NEW d \in Reach(c) \ blocked
  PROVE  d \in AdvanceBelief(prior, blocked)
<1>1. UpdateBelief(prior, blocked) = prior \ blocked
  BY DEF UpdateBelief, Normalize
<1>2. d \in PredictBelief(prior \ blocked, blocked)
  <2>1. d \in (UNION {{e} \cup Adjacent(e) : e \in prior \ blocked}) \ blocked
    BY DEF Reach
  <2> QED BY <2>1 DEF PredictBelief, Normalize
<1>3. d \in UpdateBelief(PredictBelief(prior \ blocked, blocked), blocked)
  BY <1>2 DEF UpdateBelief, Normalize
<1> QED BY <1>1, <1>3 DEF AdvanceBelief

LEMMA BeliefFollows ==
  ASSUME IInv, BeliefInv, [Next]_vars
  PROVE  BeliefInv'
<1>1. /\ officer \in BoardStates /\ belief \in SUBSET Cells /\ masked \in BOOLEAN
  BY DEF IInv, TypeOK
<1>2. ASSUME NEW m \in Moves, ThiefTurn(m)
      PROVE  BeliefInv'
  BY <1>2 DEF ThiefTurn, BeliefInv
<1>3. ASSUME NEW m \in Moves, PoliceMoves(m)
      PROVE  BeliefInv'
  <2>1. /\ m \in LegalMoves(officer, Police) /\ phase = "police"
        /\ officer' = ApplyMove(officer, Police, m)
        /\ phase' = "reveal" /\ UNCHANGED <<belief, masked>>
    BY <1>3 DEF PoliceMoves
  <2>2. /\ officer'.police \in Reach(officer.police) \ officer.barriers
        /\ officer'.barriers = officer.barriers
    BY <1>1, <2>1, MovePolice, MoveReaches
  <2> QED BY <2>1, <2>2 DEF BeliefInv
<1>4. ASSUME NEW t \in Cells, PolicePlaces(t)
      PROVE  BeliefInv'
  <2>1. /\ phase = "police" /\ officer' = PlaceBarrier(officer, t)
        /\ masked' = (masked \/ t = officer.police)
        /\ phase' = "reveal" /\ belief' = belief
    BY <1>4 DEF PolicePlaces
  <2>2. /\ officer'.police = officer.police
        /\ officer'.barriers = officer.barriers \cup {t}
    BY <1>1, <2>1, PlaceType
  <2>3. officer.police \in Reach(officer.police)
    BY DEF Reach
  <2> QED BY <2>1, <2>2, <2>3 DEF BeliefInv
<1>5. CASE ThiefReads
  <2>1. /\ phase = "reveal" /\ UNCHANGED <<officer, masked>>
        /\ phase' \in {"thief", "police"} => belief' = AdvanceBelief(belief, live'.barriers)
    BY <1>5 DEF ThiefReads
  <2>2. phase' # "reveal"
    BY <1>5 DEF ThiefReads
  <2>3. live'.barriers = officer.barriers
    <3>1. LiveTracksObjective'
      BY InvariantStep DEF IInv
    <3>2. notice' = {}
      BY <1>5 DEF ThiefReads
    <3> QED BY <2>1, <3>1, <3>2 DEF LiveTracksObjective
  <2>4. ASSUME ~masked, phase' \in {"thief", "police"}
        PROVE  officer.police \in belief'
    <3>1. PICK c \in belief : c \notin officer.barriers /\ officer.police \in Reach(c)
      BY <2>1, <2>4 DEF BeliefInv
    <3>2. officer.police \notin officer.barriers
      BY <2>4 DEF BeliefInv
    <3>3. officer.police \in AdvanceBelief(belief, officer.barriers)
      BY <1>1, <3>1, <3>2, AdvanceCovers
    <3> QED BY <2>1, <2>3, <2>4, <3>3
  <2> QED BY <2>1, <2>2, <2>4 DEF BeliefInv
<1>6. CASE Finalize \/ UNCHANGED vars
  BY <1>6 DEF Finalize, vars, BeliefInv, Over
<1> QED BY <1>2, <1>3, <1>4, <1>5, <1>6 DEF Next

(* On any board the Thief's belief covers the Police, as long as the Police *)
(* puts no barrier under itself.                                            *)
THEOREM BeliefCovers == Spec => []BeliefCoversUnmasked
<1>1. Init => BeliefInv
  BY DEF Init, BeliefInv, PointBelief, InitialState
<1>2. BeliefInv => BeliefCoversUnmasked
  BY DEF BeliefInv, BeliefCoversUnmasked
<1> QED BY <1>1, <1>2, BeliefFollows, Invariant, PTL DEF Spec
===========================================================================
