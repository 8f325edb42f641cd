----------------------------- MODULE Disclosure -----------------------------
(***************************************************************************)
(* What the final disclosure of a game proves.  The players' records are     *)
(* disclosed in the order of play, and two readers judge them: the audit     *)
(* of runtime/audit_replay.py, which is given both halves of a record (what  *)
(* was revealed at once, what was sealed), and the offline verifier of       *)
(* replay/verifier.py, which is given the sealed half that runtime/state.py  *)
(* puts into the match log.  Each is a fold over the records, kept here as   *)
(* its accumulator after the records so far.                                 *)
(*                                                                         *)
(* In each game at most one record is not what its player sealed: a half of  *)
(* it is changed, it is changed and sealed again, it is left out, or one is  *)
(* added after the end.  A hash is the value it was made of (no collisions). *)
(* The scent trails are exact: a trail of n turns counts 1/100 of 10^-n.     *)
(***************************************************************************)
EXTENDS Board

VARIABLES game,    \* the game as it was played
          audit,   \* accumulator of reconstruct_audited_subgame
          log,     \* accumulator of ReplayVerifier.verify
          trick,   \* what was done to the records, if anything
          liar     \* whose latest record tells another action than was played

vars == <<game, audit, log, trick, liar>>

Opponent(role) == IF role = Thief THEN Police ELSE Thief

Trails == [unit : Nat \ {0}, heat : [Cells -> Nat]]

\* A game, as played or as reconstructed: whose turn comes next, in which step.
Runs == [board : BoardStates, trails : [Roles -> Trails], role : Roles, step : Nat]

Readers == [run : Runs, closed : BOOLEAN, failed : BOOLEAN]

Claims == {"overlap", "barrier", "imprisonment"}

\* gap: the latest record was left out.  reveal: only the public half of a
\* record was changed.  record: its sealed half was.  illegal: the sealed action
\* is none its player may take.  action: it is another legal one.
Tricks == {"none", "gap", "reveal", "record", "illegal", "action"}
---------------------------------------------------------------------------
(* Scent: domain/scent.py.                                                  *)

Kernel == << << 4, 14, 20, 14,  4>>,
             <<14, 42, 62, 42, 14>>,
             <<20, 62, 90, 62, 20>>,
             <<14, 42, 62, 42, 14>>,
             << 4, 14, 20, 14,  4>> >>

NoTrail == [unit |-> 1, heat |-> [c \in Cells |-> 0]]

Emission(center, c) ==
  IF c[1] - center[1] \in -2 .. 2 /\ c[2] - center[2] \in -2 .. 2
    THEN Kernel[c[1] - center[1] + 3][c[2] - center[2] + 3]
    ELSE 0

\* decay_scent: nine tenths are left.
Decay(trail) == [unit |-> 10 * trail.unit, heat |-> [c \in Cells |-> 9 * trail.heat[c]]]

\* deposit_scent.
Deposit(trail, center) ==
  [trail EXCEPT !.heat = [c \in Cells |-> @[c] + trail.unit * Emission(center, c)]]
---------------------------------------------------------------------------
(* Records.                                                                 *)

Movement(m) == [kind |-> "move", move |-> m]
Barrier(t)  == [kind |-> "barrier", target |-> t]
Actions     == {Movement(m) : m \in Moves} \cup {Barrier(t) : t \in Cells}

PublicBarrier(action) == IF action.kind = "barrier" THEN {action.target} ELSE {}

\* decide_turn: the trail that is sealed ends one turn ago.
MaterialFaulty(run, action) ==
  [role |-> run.role, step |-> run.step, action |-> action,
   heat |-> Deposit(Decay(run.trails[run.role]), run.board[run.role]), hint |-> "said"]

Material(run, action) ==
  [role |-> run.role, step |-> run.step, action |-> action,
   heat |-> Decay(run.trails[run.role]), hint |-> "said"]

\* seal_turn and audit_record.  The token of the sealed half is always the
\* opponent's: TurnMaterial refuses another when it is made or parsed.
AuditRecord(material, claim) ==
  [disclosure |-> material,
   reveal     |-> [commitment |-> material, token |-> Opponent(material.role),
                   heat |-> material.heat, hint |-> material.hint,
                   barrier |-> PublicBarrier(material.action), claim |-> claim]]
---------------------------------------------------------------------------
(* One turn, for the players and for both readers.                          *)

Acted(board, role, action) ==
  LET next == IF action.kind = "move" THEN ApplyMove(board, role, action.move)
                                      ELSE PlaceBarrier(board, action.target)
  IN  IF role = Thief THEN AfterFullTurn(next) ELSE next

Follow(run, role, action) ==
  LET next == Acted(run.board, role, action)
  IN  [run EXCEPT !.board = next,
                  !.trails[role] = Deposit(Decay(@), next[role]),
                  !.role = Opponent(role),
                  !.step = IF role = Police THEN @ + 1 ELSE @]

\* board.apply_move and board.place_barrier: what they do not raise on.
RulesAllow(board, role, action) ==
  IF action.kind = "move" THEN action.move \in LegalMoves(board, role)
                          ELSE PlaceBarrierOK(board, action.target)

\* apply_action: only the Police builds.
MayAct(board, role, action) ==
  RulesAllow(board, role, action) /\ (action.kind = "barrier" => role = Police)
---------------------------------------------------------------------------
(* The audit.                                                               *)

\* The revealed hint is not compared.
VerifiedFaulty(r) ==
  /\ r.reveal.commitment = r.disclosure
  /\ r.reveal.heat = r.disclosure.heat
  /\ r.reveal.token = Opponent(r.disclosure.role)
  /\ r.reveal.barrier = PublicBarrier(r.disclosure.action)

\* verify_audit, for one record.
Verified(r) ==
  /\ r.reveal.commitment = r.disclosure
  /\ r.reveal.heat = r.disclosure.heat
  /\ r.reveal.hint = r.disclosure.hint
  /\ r.reveal.token = Opponent(r.disclosure.role)
  /\ r.reveal.barrier = PublicBarrier(r.disclosure.action)

\* The outcome the audit sees after a turn.
TurnOutcome(board, role) ==
  IF role = Police THEN Outcome(board)
  ELSE IF board.step >= Threshold THEN "survival"
  ELSE "none"

\* validate_claims.
ClaimProven(claim, board, outcome) ==
  CASE claim = "none"         -> TRUE
    [] claim = "imprisonment" -> outcome = "imprisonment"
    [] claim = "overlap"      -> outcome = "capture" /\ board.thief = board.police
    [] claim = "barrier"      -> outcome = "capture" /\ board.thief \in board.barriers

InOrder(run, d) == d.role = run.role /\ d.step = run.step

\* The trail is not recomputed.
OneTurnDelayedFaulty(run, d) == d.heat.unit = Decay(run.trails[d.role]).unit

OneTurnDelayed(run, d) == d.heat = Decay(run.trails[d.role])

\* reconstruct_audited_subgame, for one record.
AuditTurn(acc, r) ==
  LET d       == r.disclosure
      next    == Follow(acc.run, d.role, d.action)
      outcome == TurnOutcome(next.board, d.role)
  IN  IF /\ ~acc.failed /\ ~acc.closed
         /\ Verified(r)
         /\ InOrder(acc.run, d)
         /\ OneTurnDelayed(acc.run, d)
         /\ MayAct(acc.run.board, d.role, d.action)
         /\ ClaimProven(r.reveal.claim, next.board, outcome)
        THEN [acc EXCEPT !.run = next, !.closed = (outcome = "survival")]
        ELSE [acc EXCEPT !.failed = TRUE]
---------------------------------------------------------------------------
(* The offline verifier: the claim, and all else that was revealed, is not   *)
(* in the log; a record that fails is left behind and the next one read.     *)

\* A capture, too, ends the log.
VerifyTurnFaulty(acc, r) ==
  LET d    == r.disclosure
      next == Follow(acc.run, d.role, d.action)
  IN  IF /\ ~acc.closed
         /\ r.reveal.commitment = d
         /\ InOrder(acc.run, d)
         /\ OneTurnDelayed(acc.run, d)
         /\ RulesAllow(acc.run.board, d.role, d.action)
        THEN [acc EXCEPT !.run = next, !.closed = (Outcome(next.board) # "none")]
        ELSE [acc EXCEPT !.failed = TRUE]

VerifyTurn(acc, r) ==
  LET d    == r.disclosure
      next == Follow(acc.run, d.role, d.action)
  IN  IF /\ ~acc.closed
         /\ r.reveal.commitment = d
         /\ InOrder(acc.run, d)
         /\ OneTurnDelayed(acc.run, d)
         /\ RulesAllow(acc.run.board, d.role, d.action)
        THEN [acc EXCEPT !.run = next, !.closed = (d.role = Thief /\ next.board.step >= Threshold)]
        ELSE [acc EXCEPT !.failed = TRUE]
---------------------------------------------------------------------------
Opening == [board |-> InitialState, trails |-> [r \in Roles |-> NoTrail],
            role |-> Thief, step |-> 1]

\* The readers follow the game, and remember that the Thief has survived, and a
\* failure.
NothingJudged == [run |-> Opening, closed |-> FALSE, failed |-> FALSE]

Init ==
  /\ game = Opening
  /\ audit = NothingJudged
  /\ log = NothingJudged
  /\ trick = "none"
  /\ liar = "none"

Survived == game.board.step >= Threshold

Played(action) ==
  /\ ~Survived
  /\ MayAct(game.board, game.role, action)
  /\ game' = Follow(game, game.role, action)

Disclose(r) ==
  /\ audit' = AuditTurn(audit, r)
  /\ log' = VerifyTurn(log, r)

\* What a claim in the record of this turn may say.
Facts(board, role) ==
  {c \in Claims : /\ role = Police
                  /\ c = "overlap" => board.thief = board.police
                  /\ c = "barrier" => board.thief \in board.barriers
                  /\ c = "imprisonment" => IsImprisoned(board) /\ ~IsCaptured(board)}

\* A turn is played and disclosed as it was sealed, with a claim or without.
Honest(action) ==
  /\ Played(action)
  /\ \E claim \in {"none"} \cup Facts(game'.board, game.role) :
       Disclose(AuditRecord(Material(game, action), claim))
  /\ trick' = IF trick = "gap" THEN "record" ELSE trick
  /\ liar' = IF liar = game.role THEN "none" ELSE liar

\* Its record is left out.
Omit(action) ==
  /\ trick = "none"
  /\ Played(action)
  /\ trick' = "gap"
  /\ UNCHANGED <<audit, log, liar>>

\* The public half is changed alone, or it carries a claim that is not true.
Revealed(r, board) ==
  {[r EXCEPT !.reveal.hint = "altered"],
   [r EXCEPT !.reveal.token = r.disclosure.role],
   [r EXCEPT !.reveal.heat = Deposit(r.disclosure.heat, board[r.disclosure.role])],
   [r EXCEPT !.reveal.barrier = IF @ = {} THEN {board.thief} ELSE {}]}
  \cup {[r EXCEPT !.reveal.claim = c] : c \in Claims \ Facts(board, r.disclosure.role)}

ChangeReveal(action) ==
  /\ trick = "none"
  /\ Played(action)
  /\ \E r \in Revealed(AuditRecord(Material(game, action), "none"), game'.board) : Disclose(r)
  /\ trick' = "reveal"
  /\ UNCHANGED liar

\* The sealed half is changed, and the commitment is kept; or the turn is sealed
\* anew for another place in the order or with a trail that is not delayed.
Sealed(r, board) ==
  {[r EXCEPT !.disclosure.hint = "altered", !.reveal.hint = "altered"],
   AuditRecord([r.disclosure EXCEPT !.step = @ + 1], "none"),
   AuditRecord([r.disclosure EXCEPT !.role = Opponent(@)], "none"),
   AuditRecord([r.disclosure EXCEPT !.heat = Deposit(@, board[r.disclosure.role])], "none")}

ChangeRecord(action) ==
  /\ trick = "none"
  /\ Played(action)
  /\ \E r \in Sealed(AuditRecord(Material(game, action), "none"), game'.board) : Disclose(r)
  /\ trick' = "record"
  /\ UNCHANGED liar

\* Another action is sealed in place of the one that was played.
ChangeAction(action, told) ==
  /\ trick = "none"
  /\ told # action
  /\ Played(action)
  /\ Disclose(AuditRecord(Material(game, told), "none"))
  /\ trick' = IF MayAct(game.board, game.role, told) THEN "action" ELSE "illegal"
  /\ liar' = game.role

\* One more turn is disclosed after the last.
Append(action) ==
  /\ trick = "none"
  /\ Survived
  /\ MayAct(game.board, game.role, action)
  /\ Disclose(AuditRecord(Material(game, action), "none"))
  /\ trick' = "record"
  /\ UNCHANGED <<game, liar>>

Next ==
  \E a \in Actions :
     \/ Honest(a) \/ Omit(a) \/ ChangeReveal(a) \/ ChangeRecord(a) \/ Append(a)
     \/ \E told \in Actions : ChangeAction(a, told)

Spec == Init /\ [][Next]_vars
---------------------------------------------------------------------------
(* The state's types.                                                       *)
TypeOK ==
  /\ game \in Runs
  /\ audit \in Readers
  /\ log \in Readers
  /\ trick \in Tricks
  /\ liar \in Roles \cup {"none"}

(* Records as they were sealed pass both readers, with any true claim, and   *)
(* both end at the board of the game: what decide_turn seals before a move   *)
(* is what the audit expects of the trail it rebuilds, turn by turn          *)
(* (orchestrator.py:64-79, audit_replay.py:58-69, verifier.py:64-73).         *)
HonestAccepted ==
  trick = "none" => \A acc \in {audit, log} : ~acc.failed /\ acc.run = game

(* A record changed in either half, out of its place, missing, added after   *)
(* the end, with an untrue claim or with an action its player may not take   *)
(* fails the audit; and it fails the offline verifier where the log has the   *)
(* part that was changed (audit.py:52-64, audit_replay.py:50-90).            *)
AlteredRefused ==
  /\ trick \in {"reveal", "record", "illegal"} => audit.failed
  /\ trick = "record" => log.failed

(* The published trails bind the players to their paths: a move that was     *)
(* not played, sealed anew and legal, is exposed by the next record of the   *)
(* same player; a reader that has found nothing has every player where it    *)
(* was, but for one whose latest record is the lie.                          *)
PathsBound ==
  trick \in {"action", "illegal"} =>
    \A acc \in {audit, log} : ~acc.failed =>
      \A r \in Roles \ {liar} : acc.run.board[r] = game.board[r]

(* Whatever was disclosed, a game the peers accept in the audit has a log     *)
(* that is "Verified OK" for anyone, with the same final board.               *)
AcceptedVerifies ==
  ~audit.failed => ~log.failed /\ log.run.board = audit.run.board

(* docs/gui-replay.md:24-25 "Altered, deleted, reordered, or illegal records  *)
(* produce exact TAMPERED status": also a record of an action its player may  *)
(* not take.                                                                *)
IllegalTampered == trick = "illegal" => log.failed
===========================================================================
