------------------------- MODULE Disclosure_proofs -------------------------
(***************************************************************************)
(* For boards of any size and games of any length: what the audit and the   *)
(* offline verifier accept.  A reader is compared with the game by what     *)
(* became of the one record that may be wrong (Following, for each trick);  *)
(* the offline verifier is compared with the audit by simulation: a record  *)
(* the audit accepts leaves both with the same game (SameRun).               *)
(***************************************************************************)
EXTENDS Disclosure, TLAPS

---------------------------------------------------------------------------
(* Boards.                                                                  *)

LEMMA BoardFields ==
  ASSUME NEW b \in BoardStates
  PROVE  /\ b.thief \in Cells /\ b.police \in Cells /\ b.barriers \in SUBSET Cells
         /\ b.barriers_used \in Nat /\ b.step \in Nat
BY DEF BoardStates

(* An action the rules allow moves its player, or adds a barrier, and the    *)
(* Thief's counts a step.                                                    *)
LEMMA ActedBoard ==
  ASSUME NEW b \in BoardStates, NEW role \in Roles, NEW action \in Actions,
         RulesAllow(b, role, action)
  PROVE  /\ Acted(b, role, action) \in BoardStates
         /\ Acted(b, role, action).step = IF role = Thief THEN b.step + 1 ELSE b.step
         /\ Acted(b, role, action)[Opponent(role)] = b[Opponent(role)]
         /\ Acted(b, role, action)[role] =
              IF action.kind = "move" THEN Destination(b[role], action.move) ELSE b[role]
<1>1. CASE action.kind = "move"
  <2>1. Destination(b[role], action.move) \in Cells
    BY <1>1 DEF RulesAllow, LegalMoves
  <2> DEFINE c == ApplyMove(b, role, action.move)
  <2>2. /\ c \in BoardStates /\ c.step = b.step
        /\ c[Opponent(role)] = b[Opponent(role)]
        /\ c[role] = Destination(b[role], action.move)
    BY <2>1 DEF ApplyMove, BoardStates, Roles, Thief, Police, Opponent
  <2> HIDE DEF c
  <2>3. /\ AfterFullTurn(c) \in BoardStates /\ AfterFullTurn(c).step = b.step + 1
        /\ AfterFullTurn(c)[Opponent(role)] = c[Opponent(role)]
        /\ AfterFullTurn(c)[role] = c[role]
    BY <2>2 DEF AfterFullTurn, BoardStates, Roles, Thief, Police, Opponent
  <2>4. Acted(b, role, action) = IF role = Thief THEN AfterFullTurn(c) ELSE c
    BY <1>1 DEF Acted, c
  <2> QED BY <1>1, <2>2, <2>3, <2>4
<1>2. CASE action.kind # "move"
  <2>1. action.target \in Cells
    BY <1>2 DEF Actions, Movement, Barrier
  <2> DEFINE c == PlaceBarrier(b, action.target)
  <2>2. b.barriers \cup {action.target} \in SUBSET Cells /\ b.barriers_used + 1 \in Nat
    BY <2>1, BoardFields
  <2>3. /\ c \in BoardStates /\ c.step = b.step
        /\ c[Opponent(role)] = b[Opponent(role)] /\ c[role] = b[role]
    BY <2>2 DEF PlaceBarrier, BoardStates, Roles, Thief, Police, Opponent
  <2> HIDE DEF c
  <2>4. /\ AfterFullTurn(c) \in BoardStates /\ AfterFullTurn(c).step = b.step + 1
        /\ AfterFullTurn(c)[Opponent(role)] = c[Opponent(role)]
        /\ AfterFullTurn(c)[role] = c[role]
    BY <2>3 DEF AfterFullTurn, BoardStates, Roles, Thief, Police, Opponent
  <2>5. Acted(b, role, action) = IF role = Thief THEN AfterFullTurn(c) ELSE c
    BY <1>2 DEF Acted, c
  <2> QED BY <1>2, <2>3, <2>4, <2>5
<1> QED BY <1>1, <1>2

LEMMA SurvivalMeansThreshold ==
  ASSUME NEW b, Outcome(b) = "survival"
  PROVE  b.step >= Threshold
BY DEF Outcome
---------------------------------------------------------------------------
(* Scent.                                                                   *)

LEMMA EmissionBounds ==
  ASSUME NEW center \in Cells, NEW c \in Cells
  PROVE  /\ Emission(center, c) \in 0 .. 90
         /\ center = c => Emission(center, c) = 90
         /\ center # c => Emission(center, c) < 90
<1> DEFINE i == c[1] - center[1]
           j == c[2] - center[2]
<1>1. i \in Int /\ j \in Int
  BY BoardAssumption DEF Cells
<1>2. center = c <=> i = 0 /\ j = 0
  BY BoardAssumption DEF Cells
<1>3. ASSUME NEW p \in 1 .. 5, NEW q \in 1 .. 5
      PROVE  /\ Kernel[p][q] \in 0 .. 90
             /\ p = 3 /\ q = 3 => Kernel[p][q] = 90
             /\ ~(p = 3 /\ q = 3) => Kernel[p][q] < 90
  <2>1. p = 1 \/ p = 2 \/ p = 3 \/ p = 4 \/ p = 5
    OBVIOUS
  <2>2. q = 1 \/ q = 2 \/ q = 3 \/ q = 4 \/ q = 5
    OBVIOUS
  <2> QED BY <2>1, <2>2 DEF Kernel
<1>4. CASE i \in -2 .. 2 /\ j \in -2 .. 2
  <2>1. Emission(center, c) = Kernel[i + 3][j + 3]
    BY <1>4 DEF Emission
  <2>2. i + 3 \in 1 .. 5 /\ j + 3 \in 1 .. 5
    BY <1>4
  <2> HIDE DEF i, j
  <2> QED BY <1>1, <1>2, <1>3, <2>1, <2>2
<1>5. CASE ~(i \in -2 .. 2 /\ j \in -2 .. 2)
  <2>1. Emission(center, c) = 0
    BY <1>5 DEF Emission
  <2>2. ~(i = 0 /\ j = 0)
    BY <1>5
  <2> HIDE DEF i, j
  <2> QED BY <1>2, <2>1, <2>2
<1> QED BY <1>4, <1>5

LEMMA TrailFields ==
  ASSUME NEW t \in Trails
  PROVE  /\ t.unit \in Nat /\ t.unit > 0 /\ t.heat \in [Cells -> Nat]
BY DEF Trails

LEMMA DecayType ==
  ASSUME NEW t \in Trails
  PROVE  Decay(t) \in Trails
<1>1. 10 * t.unit \in Nat \ {0}
  BY TrailFields
<1>2. [c \in Cells |-> 9 * t.heat[c]] \in [Cells -> Nat]
  BY TrailFields
<1> QED BY <1>1, <1>2 DEF Decay, Trails

LEMMA ProductType == \A m, n \in Nat : m * n \in Nat
OBVIOUS

LEMMA DepositFields ==
  ASSUME NEW t \in Trails, NEW center \in Cells
  PROVE  /\ Deposit(t, center) \in Trails
         /\ Deposit(t, center).unit = t.unit
         /\ \A c \in Cells : Deposit(t, center).heat[c] = t.heat[c] + t.unit * Emission(center, c)
<1> DEFINE h == [c \in Cells |-> t.heat[c] + t.unit * Emission(center, c)]
<1>1. ASSUME NEW c \in Cells
      PROVE  t.heat[c] + t.unit * Emission(center, c) \in Nat
  <2>1. Emission(center, c) \in Nat
    BY EmissionBounds
  <2>2. t.unit * Emission(center, c) \in Nat
    BY <2>1, TrailFields, ProductType
  <2> QED BY <2>2, TrailFields
<1>2. h \in [Cells -> Nat]
  BY <1>1
<1>3. Deposit(t, center) = [t EXCEPT !.heat = h]
  BY DEF Deposit, Trails
<1>4. \A c \in Cells : h[c] = t.heat[c] + t.unit * Emission(center, c)
  OBVIOUS
<1> HIDE DEF h
<1> QED BY <1>2, <1>3, <1>4 DEF Trails

(* A trail tells where its latest emission was: the centre is the only cell  *)
(* that receives the peak.                                                   *)
LEMMA EmissionBinds ==
  ASSUME NEW t \in Trails, NEW a \in Cells, NEW b \in Cells,
         Deposit(t, a) = Deposit(t, b)
  PROVE  a = b
<1> SUFFICES ASSUME a # b PROVE FALSE
  OBVIOUS
<1>1. t.heat[a] + t.unit * Emission(a, a) = t.heat[a] + t.unit * Emission(b, a)
  BY DepositFields
<1> DEFINE e == Emission(b, a)
<1>2. Emission(a, a) = 90 /\ e \in 0 .. 90 /\ e < 90
  BY EmissionBounds
<1>3. t.heat[a] \in Nat /\ t.unit \in Nat /\ t.unit > 0
  BY TrailFields
<1> HIDE DEF e
<1>4. t.unit * 90 = t.unit * e
  <2>1. t.unit * e \in Nat
    BY <1>2, <1>3, ProductType
  <2> QED BY <1>1, <1>2, <1>3, <2>1 DEF e
<1>5. \A u, x \in Nat : u > 0 /\ x < 90 => u * 90 # u * x
  OBVIOUS
<1> QED BY <1>2, <1>3, <1>4, <1>5

(* The peak also shows: a trail with a new emission is another trail.        *)
LEMMA EmissionShows ==
  ASSUME NEW t \in Trails, NEW a \in Cells
  PROVE  Deposit(t, a) # t
<1>1. Deposit(t, a).heat[a] = t.heat[a] + t.unit * 90
  BY DepositFields, EmissionBounds
<1>2. t.heat[a] \in Nat /\ t.unit \in Nat /\ t.unit > 0
  BY TrailFields
<1> QED BY <1>1, <1>2

(* Decay loses nothing.                                                      *)
LEMMA DecayBinds ==
  ASSUME NEW t \in Trails, NEW u \in Trails, Decay(t) = Decay(u)
  PROVE  t = u
<1>1. 10 * t.unit = 10 * u.unit
  BY DEF Decay
<1>2. t.unit = u.unit
  BY <1>1, TrailFields
<1>3. \A c \in Cells : 9 * t.heat[c] = 9 * u.heat[c]
  <2>1. [c \in Cells |-> 9 * t.heat[c]] = [c \in Cells |-> 9 * u.heat[c]]
    BY DEF Decay
  <2> QED BY <2>1
<1>4. \A c \in Cells : t.heat[c] = u.heat[c]
  BY <1>3, TrailFields
<1> QED BY <1>2, <1>4 DEF Trails
---------------------------------------------------------------------------
(* One turn of a game.                                                      *)

LEMMA FollowFields ==
  ASSUME NEW run \in Runs, NEW role \in Roles, NEW action \in Actions,
         RulesAllow(run.board, role, action)
  PROVE  /\ Follow(run, role, action) \in Runs
         /\ Follow(run, role, action).board = Acted(run.board, role, action)
         /\ Follow(run, role, action).role = Opponent(role)
         /\ Follow(run, role, action).trails[role] =
              Deposit(Decay(run.trails[role]), Acted(run.board, role, action)[role])
         /\ Follow(run, role, action).trails[Opponent(role)] = run.trails[Opponent(role)]
<1> DEFINE next  == Acted(run.board, role, action)
           trail == Deposit(Decay(run.trails[role]), next[role])
           step  == IF role = Police THEN run.step + 1 ELSE run.step
<1>1. run.board \in BoardStates /\ run.trails \in [Roles -> Trails] /\ run.step \in Nat
  BY DEF Runs
<1>2. next \in BoardStates
  BY <1>1, ActedBoard
<1>3. next[role] \in Cells
  BY <1>2, BoardFields DEF Roles, Thief, Police
<1>4. trail \in Trails
  BY <1>1, <1>3, DecayType, DepositFields
<1>5. Opponent(role) \in Roles /\ Opponent(role) # role
  BY DEF Opponent, Roles, Thief, Police
<1>6. step \in Nat
  BY <1>1
<1>7. Follow(run, role, action) =
        [run EXCEPT !.board = next, !.trails = [run.trails EXCEPT ![role] = trail],
                    !.role = Opponent(role), !.step = step]
  <2>1. Follow(run, role, action) =
          [run EXCEPT !.board = next,
                      !.trails[role] = Deposit(Decay(@), next[role]),
                      !.role = Opponent(role),
                      !.step = IF role = Police THEN @ + 1 ELSE @]
    BY DEF Follow
  <2> HIDE DEF next
  <2> QED BY <1>1, <2>1 DEF Runs
<1> DEFINE trails == [run.trails EXCEPT ![role] = trail]
<1>9. trails \in [Roles -> Trails]
  BY <1>1, <1>4
<1> HIDE DEF next, trail, step, trails
<1>8. /\ Follow(run, role, action) \in Runs
      /\ Follow(run, role, action).board = next
      /\ Follow(run, role, action).role = Opponent(role)
      /\ Follow(run, role, action).trails = trails
  <2>1. Follow(run, role, action) =
          [run EXCEPT !.board = next, !.trails = trails, !.role = Opponent(role), !.step = step]
    BY <1>7 DEF trails
  <2> QED BY <1>1, <1>2, <1>9, <1>5, <1>6, <2>1 DEF Runs
<1> QED BY <1>1, <1>5, <1>8 DEF next, trail, trails

Legible(r) == /\ r.disclosure.role \in Roles
              /\ r.disclosure.action \in Actions

AuditAccepts(acc, r) ==
  LET d    == r.disclosure
      next == Follow(acc.run, d.role, d.action)
  IN  /\ ~acc.failed /\ ~acc.closed
      /\ Verified(r)
      /\ InOrder(acc.run, d)
      /\ OneTurnDelayed(acc.run, d)
      /\ MayAct(acc.run.board, d.role, d.action)
      /\ ClaimProven(r.reveal.claim, next.board, TurnOutcome(next.board, d.role))

VerifierAccepts(acc, r) ==
  LET d == r.disclosure
  IN  /\ ~acc.closed
      /\ r.reveal.commitment = d
      /\ InOrder(acc.run, d)
      /\ OneTurnDelayed(acc.run, d)
      /\ RulesAllow(acc.run.board, d.role, d.action)

NextRun(acc, r) == Follow(acc.run, r.disclosure.role, r.disclosure.action)

(* A reader either follows the game for one turn or has failed.              *)
LEMMA AuditJudges ==
  ASSUME NEW acc \in Readers, NEW r, Legible(r)
  PROVE  /\ AuditTurn(acc, r) \in Readers
         /\ ~AuditAccepts(acc, r) => AuditTurn(acc, r).failed
         /\ AuditAccepts(acc, r) =>
              /\ NextRun(acc, r) \in Runs
              /\ AuditTurn(acc, r).run = NextRun(acc, r)
              /\ ~AuditTurn(acc, r).failed
              /\ AuditTurn(acc, r).closed
                   = (TurnOutcome(NextRun(acc, r).board, r.disclosure.role) = "survival")
<1> DEFINE d    == r.disclosure
           next == NextRun(acc, r)
           shut == (TurnOutcome(next.board, d.role) = "survival")
<1>1. acc.run \in Runs /\ acc.closed \in BOOLEAN /\ acc.failed \in BOOLEAN
  BY DEF Readers
<1>2. CASE ~AuditAccepts(acc, r)
  <2>1. AuditTurn(acc, r) = [acc EXCEPT !.failed = TRUE]
    BY <1>2 DEF AuditTurn, AuditAccepts
  <2> QED BY <1>2, <2>1 DEF Readers
<1>3. CASE AuditAccepts(acc, r)
  <2>1. AuditTurn(acc, r) = [acc EXCEPT !.run = next, !.closed = shut]
    BY <1>3 DEF AuditTurn, AuditAccepts, NextRun
  <2>2. next \in Runs
    BY <1>1, <1>3, FollowFields DEF AuditAccepts, MayAct, Legible, NextRun
  <2>3. shut \in BOOLEAN /\ ~acc.failed
    BY <1>3 DEF AuditAccepts
  <2> HIDE DEF shut, next
  <2>4. /\ AuditTurn(acc, r) \in Readers /\ AuditTurn(acc, r).run = next
        /\ AuditTurn(acc, r).closed = shut /\ AuditTurn(acc, r).failed = acc.failed
    BY <1>1, <2>1, <2>2, <2>3 DEF Readers
  <2> QED BY <1>3, <2>2, <2>3, <2>4 DEF shut, next
<1> QED BY <1>2, <1>3

LEMMA VerifierJudges ==
  ASSUME NEW acc \in Readers, NEW r, Legible(r)
  PROVE  /\ VerifyTurn(acc, r) \in Readers
         /\ ~VerifierAccepts(acc, r) => VerifyTurn(acc, r).failed
         /\ VerifierAccepts(acc, r) =>
              /\ NextRun(acc, r) \in Runs
              /\ VerifyTurn(acc, r).run = NextRun(acc, r)
              /\ VerifyTurn(acc, r).failed = acc.failed
              /\ VerifyTurn(acc, r).closed
                   = (r.disclosure.role = Thief /\ NextRun(acc, r).board.step >= Threshold)
         /\ acc.failed => VerifyTurn(acc, r).failed
<1> DEFINE d    == r.disclosure
           next == NextRun(acc, r)
           shut == (d.role = Thief /\ next.board.step >= Threshold)
<1>1. acc.run \in Runs /\ acc.closed \in BOOLEAN /\ acc.failed \in BOOLEAN
  BY DEF Readers
<1>2. CASE ~VerifierAccepts(acc, r)
  <2>1. VerifyTurn(acc, r) = [acc EXCEPT !.failed = TRUE]
    BY <1>2 DEF VerifyTurn, VerifierAccepts
  <2> QED BY <1>2, <2>1 DEF Readers
<1>3. CASE VerifierAccepts(acc, r)
  <2>1. VerifyTurn(acc, r) = [acc EXCEPT !.run = next, !.closed = shut]
    BY <1>3 DEF VerifyTurn, VerifierAccepts, NextRun
  <2>2. next \in Runs
    BY <1>1, <1>3, FollowFields DEF VerifierAccepts, Legible, NextRun
  <2>3. shut \in BOOLEAN
    OBVIOUS
  <2> HIDE DEF shut, next
  <2>4. /\ VerifyTurn(acc, r) \in Readers /\ VerifyTurn(acc, r).run = next
        /\ VerifyTurn(acc, r).closed = shut /\ VerifyTurn(acc, r).failed = acc.failed
    BY <1>1, <2>1, <2>2, <2>3 DEF Readers
  <2> QED BY <1>3, <2>2, <2>4 DEF shut, next
<1> QED BY <1>2, <1>3
---------------------------------------------------------------------------
(* The invariant.                                                           *)

\* The audit is open until the threshold; what it accepts, the verifier does.
SameRun ==
  ~audit.failed => /\ ~log.failed
                   /\ log.run = audit.run
                   /\ log.closed <=> audit.closed
                   /\ ~audit.closed => audit.run.board.step < Threshold

\* A reconstruction knows all of the players but of one whose latest record is a
\* lie: of that one, the trail before it.
KnownPaths(run, played, who) ==
  /\ \A r \in Roles : r # who => /\ run.board[r] = played.board[r]
                                 /\ run.trails[r] = played.trails[r]
  /\ \A r \in Roles : r = who =>
       \E t \in Trails : /\ run.trails[r] = Deposit(t, run.board[r])
                         /\ played.trails[r] = Deposit(t, played.board[r])

Following(acc) ==
  /\ trick = "none" => /\ ~acc.failed /\ acc.run = game
                       /\ acc.closed <=> Survived
  /\ trick = "gap" => acc.run.role # game.role
  /\ trick = "record" => acc.failed
  /\ trick \in {"action", "illegal"} /\ ~acc.failed => KnownPaths(acc.run, game, liar)

IInv == /\ TypeOK
        /\ SameRun
        /\ Following(audit)
        /\ Following(log)
        /\ trick \in {"reveal", "illegal"} => audit.failed

LEMMA InitialRun == Opening \in Runs /\ Opening.board.step = 0
<1>1. InitialState \in BoardStates /\ InitialState.step = 0
  BY BoardAssumption DEF InitialState, BoardStates
<1>2. NoTrail \in Trails
  BY DEF NoTrail, Trails
<1> QED BY <1>1, <1>2 DEF Opening, Runs, Roles

LEMMA InitialInv == Init => IInv
<1> SUFFICES ASSUME Init PROVE IInv
  OBVIOUS
<1>1. NothingJudged \in Readers /\ NothingJudged.run = Opening
      /\ ~NothingJudged.closed /\ ~NothingJudged.failed
  BY InitialRun DEF NothingJudged, Readers
<1>2. ~(Opening.board.step >= Threshold)
  BY InitialRun, BoardAssumption
<1>3. TypeOK
  BY <1>1, InitialRun DEF Init, TypeOK, Tricks
<1>4. SameRun
  BY <1>1, <1>2, InitialRun, BoardAssumption DEF Init, SameRun
<1>5. Following(audit) /\ Following(log)
  BY <1>1, <1>2 DEF Init, Following, Survived
<1> QED BY <1>3, <1>4, <1>5 DEF IInv, Init
---------------------------------------------------------------------------
(* One record for both readers.                                             *)

(* While nobody has survived, a turn ends in survival for the audit, and for *)
(* the verifier, just when it brings the board to the threshold.              *)
LEMMA SurvivalSeen ==
  ASSUME NEW run \in Runs, NEW role \in Roles, NEW action \in Actions,
         RulesAllow(run.board, role, action), run.board.step < Threshold,
         NEW b, b = Follow(run, role, action).board
  PROVE  /\ (TurnOutcome(b, role) = "survival") <=> b.step >= Threshold
         /\ (role = Thief /\ b.step >= Threshold) <=> b.step >= Threshold
<1>1. run.board \in BoardStates /\ run.board.step \in Nat
  BY DEF Runs, BoardStates
<1>2. b = Acted(run.board, role, action)
  BY FollowFields
<1>3. b.step = IF role = Thief THEN run.board.step + 1 ELSE run.board.step
  BY <1>1, <1>2, ActedBoard
<1>4. CASE role = Thief
  BY <1>4 DEF TurnOutcome, Thief, Police
<1>5. CASE role = Police
  <2>1. ~(b.step >= Threshold) /\ role # Thief
    BY <1>1, <1>3, <1>5, BoardAssumption DEF Thief, Police
  <2>2. TurnOutcome(b, role) = Outcome(b)
    BY <1>5 DEF TurnOutcome
  <2> QED BY <2>1, <2>2, SurvivalMeansThreshold
<1> QED BY <1>4, <1>5 DEF Roles

(* What the audit accepts the verifier accepts, and both go on alike.         *)
LEMMA BothJudge ==
  ASSUME audit \in Readers, log \in Readers, SameRun, NEW r, Legible(r), Disclose(r)
  PROVE  /\ audit' \in Readers /\ log' \in Readers
         /\ SameRun'
         /\ audit.failed => audit'.failed
         /\ log.failed => log'.failed
<1>1. audit' = AuditTurn(audit, r) /\ log' = VerifyTurn(log, r)
  BY DEF Disclose
<1>2. audit' \in Readers /\ log' \in Readers /\ (log.failed => log'.failed)
  BY <1>1, AuditJudges, VerifierJudges
<1>3. audit.failed => audit'.failed
  BY <1>1, AuditJudges DEF AuditAccepts
<1>4. SUFFICES ASSUME ~audit'.failed PROVE SameRun'
  BY <1>2, <1>3 DEF SameRun
<1>5. AuditAccepts(audit, r)
  BY <1>1, <1>4, AuditJudges
<1>6. ~audit.failed /\ ~audit.closed /\ ~log.failed /\ log.run = audit.run /\ ~log.closed
      /\ audit.run.board.step < Threshold
  BY <1>5 DEF AuditAccepts, SameRun
<1>7. VerifierAccepts(log, r)
  BY <1>5, <1>6 DEF AuditAccepts, VerifierAccepts, Verified, MayAct
<1>8. NextRun(log, r) = NextRun(audit, r)
  BY <1>6 DEF NextRun
<1> DEFINE b == NextRun(audit, r).board
<1>9. /\ log'.run = audit'.run /\ ~log'.failed
      /\ audit'.run.board = b
      /\ audit'.closed <=> TurnOutcome(b, r.disclosure.role) = "survival"
      /\ log'.closed <=> r.disclosure.role = Thief /\ b.step >= Threshold
  BY <1>1, <1>5, <1>6, <1>7, <1>8, AuditJudges, VerifierJudges
<1>10. /\ (TurnOutcome(b, r.disclosure.role) = "survival") <=> b.step >= Threshold
       /\ (r.disclosure.role = Thief /\ b.step >= Threshold) <=> b.step >= Threshold
  <2>1. audit.run \in Runs
    BY DEF Readers
  <2> QED BY <1>5, <1>6, <2>1, SurvivalSeen DEF AuditAccepts, MayAct, Legible, NextRun
<1>11. b.step \in Nat
  BY <1>5, AuditJudges DEF Runs, BoardStates
<1> QED BY <1>9, <1>10, <1>11, BoardAssumption DEF SameRun
---------------------------------------------------------------------------
(* A turn and its record.                                                   *)

LEMMA RecordFields ==
  ASSUME NEW m, NEW claim
  PROVE  LET r == AuditRecord(m, claim)
         IN  /\ r.disclosure = m
             /\ r.reveal.commitment = m
             /\ r.reveal.token = Opponent(m.role)
             /\ r.reveal.heat = m.heat
             /\ r.reveal.hint = m.hint
             /\ r.reveal.barrier = PublicBarrier(m.action)
             /\ r.reveal.claim = claim
BY DEF AuditRecord

LEMMA MaterialFields ==
  ASSUME NEW run, NEW action
  PROVE  LET m == Material(run, action)
         IN  /\ m.role = run.role
             /\ m.step = run.step
             /\ m.action = action
             /\ m.heat = Decay(run.trails[run.role])
             /\ m.hint = "said"
BY DEF Material

LEMMA RecordVerified == ASSUME NEW m, NEW claim PROVE Verified(AuditRecord(m, claim))
BY RecordFields DEF Verified

LEMMA RecordLegible ==
  ASSUME NEW run \in Runs, NEW action \in Actions, NEW claim
  PROVE  Legible(AuditRecord(Material(run, action), claim))
BY RecordFields, MaterialFields DEF Legible, Runs

LEMMA FactsProven ==
  ASSUME NEW board, NEW role, NEW claim \in {"none"} \cup Facts(board, role)
  PROVE  ClaimProven(claim, board, TurnOutcome(board, role))
<1>1. CASE claim = "none"
  BY <1>1 DEF ClaimProven
<1>2. CASE claim \in Facts(board, role)
  <2>1. claim \in Claims /\ TurnOutcome(board, role) = Outcome(board)
    BY <1>2 DEF Facts, TurnOutcome
  <2>2. CASE claim = "overlap"
    BY <1>2, <2>1, <2>2 DEF Facts, ClaimProven, Outcome, IsCaptured
  <2>3. CASE claim = "barrier"
    BY <1>2, <2>1, <2>3 DEF Facts, ClaimProven, Outcome, IsCaptured
  <2>4. CASE claim = "imprisonment"
    BY <1>2, <2>1, <2>4 DEF Facts, ClaimProven, Outcome
  <2> QED BY <2>1, <2>2, <2>3, <2>4 DEF Claims
<1> QED BY <1>1, <1>2

(* The claim that is not a fact is not proven.                               *)
LEMMA FictionRefused ==
  ASSUME NEW board, NEW role \in Roles, NEW claim \in Claims \ Facts(board, role)
  PROVE  ~ClaimProven(claim, board, TurnOutcome(board, role))
<1>1. CASE role = Thief
  <2>1. TurnOutcome(board, role) \in {"survival", "none"}
    BY <1>1 DEF TurnOutcome, Thief, Police
  <2> QED BY <2>1 DEF ClaimProven, Claims
<1>2. CASE role = Police
  <2>1. TurnOutcome(board, role) = Outcome(board)
    BY <1>2 DEF TurnOutcome
  <2>2. CASE claim = "overlap"
    BY <1>2, <2>1, <2>2 DEF Facts, ClaimProven, Claims
  <2>3. CASE claim = "barrier"
    BY <1>2, <2>1, <2>3 DEF Facts, ClaimProven, Claims
  <2>4. CASE claim = "imprisonment"
    BY <1>2, <2>1, <2>4 DEF Facts, ClaimProven, Claims, Outcome
  <2> QED BY <2>2, <2>3, <2>4 DEF Claims
<1> QED BY <1>1, <1>2 DEF Roles

LEMMA PlayedGame ==
  ASSUME game \in Runs, NEW action \in Actions, Played(action)
  PROVE  /\ game.role \in Roles
         /\ game.board \in BoardStates
         /\ game.trails \in [Roles -> Trails]
         /\ game.board.step < Threshold
         /\ RulesAllow(game.board, game.role, action)
         /\ game' \in Runs
         /\ game' = Follow(game, game.role, action)
         /\ game'.board = Acted(game.board, game.role, action)
         /\ game'.role = Opponent(game.role)
<1>1. game.role \in Roles /\ game.board \in BoardStates /\ game.trails \in [Roles -> Trails]
      /\ game.board.step \in Nat
  BY DEF Runs, BoardStates
<1>2. /\ game.board.step < Threshold
      /\ RulesAllow(game.board, game.role, action)
      /\ game' = Follow(game, game.role, action)
  BY <1>1, BoardAssumption DEF Played, Survived, MayAct
<1> QED BY <1>1, <1>2, FollowFields

\* What a record has to be for either reader.
Fits(run, d) == /\ InOrder(run, d)
                /\ OneTurnDelayed(run, d)
                /\ RulesAllow(run.board, d.role, d.action)

LEMMA Unfailed ==
  ASSUME audit \in Readers, log \in Readers, NEW r, Legible(r), Disclose(r)
  PROVE  /\ ~audit'.failed => /\ ~audit.failed /\ AuditAccepts(audit, r)
                              /\ Fits(audit.run, r.disclosure)
                              /\ audit'.run = NextRun(audit, r)
         /\ ~log'.failed => /\ ~log.failed /\ VerifierAccepts(log, r)
                            /\ Fits(log.run, r.disclosure)
                            /\ log'.run = NextRun(log, r)
<1>1. audit' = AuditTurn(audit, r) /\ log' = VerifyTurn(log, r)
  BY DEF Disclose
<1>2. ~audit'.failed => AuditAccepts(audit, r) /\ audit'.run = NextRun(audit, r)
  BY <1>1, AuditJudges
<1>3. ~log'.failed => /\ ~log.failed /\ VerifierAccepts(log, r) /\ log'.run = NextRun(log, r)
  BY <1>1, VerifierJudges
<1>4. AuditAccepts(audit, r) => ~audit.failed /\ Fits(audit.run, r.disclosure)
  BY DEF AuditAccepts, MayAct, Fits
<1>5. VerifierAccepts(log, r) => Fits(log.run, r.disclosure)
  BY DEF VerifierAccepts, Fits
<1> QED BY <1>2, <1>3, <1>4, <1>5

(* An honest record is accepted only by a reader that knows its player's     *)
(* path, which is then known again.                                          *)
LEMMA PathsKept ==
  ASSUME NEW run \in Runs, NEW played \in Runs, NEW who, NEW action \in Actions,
         KnownPaths(run, played, who),
         RulesAllow(played.board, played.role, action),
         RulesAllow(run.board, played.role, action),
         Decay(run.trails[played.role]) = Decay(played.trails[played.role])
  PROVE  KnownPaths(Follow(run, played.role, action), Follow(played, played.role, action),
                    IF who = played.role THEN "none" ELSE who)
<1> DEFINE role == played.role
           next == Follow(run, role, action)
           then == Follow(played, role, action)
<1>1. /\ role \in Roles /\ Opponent(role) \in Roles /\ Opponent(role) # role
      /\ \A r \in Roles : r = role \/ r = Opponent(role)
  BY DEF Runs, Opponent, Roles, Thief, Police
<1>2. /\ run.board \in BoardStates /\ played.board \in BoardStates
      /\ run.trails \in [Roles -> Trails] /\ played.trails \in [Roles -> Trails]
  BY DEF Runs
<1>3. run.trails[role] = played.trails[role]
  BY <1>1, <1>2, DecayBinds
<1>4. run.board[role] = played.board[role]
  <2>1. CASE role # who
    BY <1>1, <2>1 DEF KnownPaths
  <2>2. CASE role = who
    <3>1. PICK t \in Trails : /\ run.trails[role] = Deposit(t, run.board[role])
                              /\ played.trails[role] = Deposit(t, played.board[role])
      BY <1>1, <2>2 DEF KnownPaths
    <3>2. run.board[role] \in Cells /\ played.board[role] \in Cells
      BY <1>1, <1>2, BoardFields DEF Roles, Thief, Police
    <3> QED BY <1>3, <3>1, <3>2, EmissionBinds
  <2> QED BY <2>1, <2>2
<1>5. /\ next.board[role] = then.board[role]
      /\ next.board[Opponent(role)] = run.board[Opponent(role)]
      /\ then.board[Opponent(role)] = played.board[Opponent(role)]
  <2>1. next.board = Acted(run.board, role, action)
        /\ then.board = Acted(played.board, role, action)
    BY <1>1, FollowFields
  <2> HIDE DEF next, then
  <2> QED BY <1>1, <1>2, <1>4, <2>1, ActedBoard
<1>6. /\ next.trails[role] = then.trails[role]
      /\ next.trails[Opponent(role)] = run.trails[Opponent(role)]
      /\ then.trails[Opponent(role)] = played.trails[Opponent(role)]
  <2>1. /\ next.trails[role] = Deposit(Decay(run.trails[role]), next.board[role])
        /\ then.trails[role] = Deposit(Decay(played.trails[role]), then.board[role])
        /\ next.trails[Opponent(role)] = run.trails[Opponent(role)]
        /\ then.trails[Opponent(role)] = played.trails[Opponent(role)]
    BY <1>1, FollowFields
  <2> HIDE DEF next, then
  <2> QED BY <1>3, <1>5, <2>1
<1>7. "none" \notin Roles
  BY DEF Roles, Thief, Police
<1> HIDE DEF next, then
<1>8. KnownPaths(next, then, IF who = role THEN "none" ELSE who)
  <2>1. CASE who = role
    <3>1. \A r \in Roles : run.board[r] = played.board[r] /\ run.trails[r] = played.trails[r]
      BY <1>1, <1>3, <1>4, <2>1 DEF KnownPaths
    <3>2. \A r \in Roles : next.board[r] = then.board[r] /\ next.trails[r] = then.trails[r]
      BY <1>1, <1>5, <1>6, <3>1
    <3>3. KnownPaths(next, then, "none")
      BY <1>7, <3>2 DEF KnownPaths
    <3> QED BY <2>1, <3>3
  <2>2. CASE who # role
    <3>1. ASSUME NEW r \in Roles, r # who
          PROVE  next.board[r] = then.board[r] /\ next.trails[r] = then.trails[r]
      BY <1>1, <1>5, <1>6, <3>1 DEF KnownPaths
    <3>2. ASSUME NEW r \in Roles, r = who
          PROVE  \E t \in Trails : /\ next.trails[r] = Deposit(t, next.board[r])
                                   /\ then.trails[r] = Deposit(t, then.board[r])
      <4>1. r = Opponent(role)
        BY <1>1, <2>2, <3>2
      <4>2. \E t \in Trails : /\ run.trails[r] = Deposit(t, run.board[r])
                              /\ played.trails[r] = Deposit(t, played.board[r])
        BY <3>2 DEF KnownPaths
      <4> QED BY <1>5, <1>6, <4>1, <4>2
    <3>3. KnownPaths(next, then, who)
      BY <3>1, <3>2 DEF KnownPaths
    <3> QED BY <2>2, <3>3
  <2> QED BY <2>1, <2>2
<1> QED BY <1>8 DEF next, then

(* A record of another action leaves the trail before it known.              *)
LEMMA PathsLied ==
  ASSUME NEW played \in Runs, NEW action \in Actions, NEW told \in Actions,
         RulesAllow(played.board, played.role, action),
         RulesAllow(played.board, played.role, told)
  PROVE  KnownPaths(Follow(played, played.role, told), Follow(played, played.role, action),
                    played.role)
<1> DEFINE role == played.role
           next == Follow(played, role, told)
           then == Follow(played, role, action)
           t    == Decay(played.trails[role])
<1>1. /\ role \in Roles /\ \A r \in Roles : r = role \/ r = Opponent(role)
  BY DEF Runs, Opponent, Roles, Thief, Police
<1>2. played.board \in BoardStates /\ t \in Trails
  BY <1>1, DecayType DEF Runs
<1>3. /\ next.board = Acted(played.board, role, told)
      /\ then.board = Acted(played.board, role, action)
      /\ next.trails[role] = Deposit(t, next.board[role])
      /\ then.trails[role] = Deposit(t, then.board[role])
      /\ next.trails[Opponent(role)] = then.trails[Opponent(role)]
  BY <1>1, FollowFields
<1> HIDE DEF next, then, t
<1>4. next.board[Opponent(role)] = then.board[Opponent(role)]
  BY <1>1, <1>2, <1>3, ActedBoard
<1>5. KnownPaths(next, then, role)
  BY <1>1, <1>2, <1>3, <1>4 DEF KnownPaths
<1> QED BY <1>5 DEF next, then
---------------------------------------------------------------------------
(* The actions.                                                             *)

LEMMA HonestStep ==
  ASSUME IInv, NEW action \in Actions, Honest(action)
  PROVE  IInv'
<1> DEFINE d == Material(game, action)
<1>1. PICK claim \in {"none"} \cup Facts(game'.board, game.role) :
        Disclose(AuditRecord(d, claim))
  BY DEF Honest
<1> DEFINE r == AuditRecord(d, claim)
<1>2. /\ audit \in Readers /\ log \in Readers /\ SameRun /\ game \in Runs /\ Disclose(r)
      /\ trick \in Tricks /\ liar \in Roles \cup {"none"}
      /\ trick' = (IF trick = "gap" THEN "record" ELSE trick)
      /\ liar' = (IF liar = game.role THEN "none" ELSE liar)
      /\ Following(audit) /\ Following(log)
      /\ trick \in {"reveal", "illegal"} => audit.failed
  BY <1>1 DEF IInv, TypeOK, Honest
<1>3. /\ game.role \in Roles /\ game.board.step < Threshold /\ game' \in Runs
      /\ RulesAllow(game.board, game.role, action)
      /\ MayAct(game.board, game.role, action)
      /\ game' = Follow(game, game.role, action)
      /\ ~Survived
  BY <1>2, PlayedGame DEF Honest, Played
<1>4. /\ r.disclosure = d /\ d.role = game.role /\ d.step = game.step /\ d.action = action
      /\ d.heat = Decay(game.trails[game.role]) /\ r.reveal.claim = claim
      /\ Verified(r) /\ Legible(r)
  BY <1>2, RecordFields, MaterialFields, RecordVerified, RecordLegible
<1> HIDE DEF d, r
<1>5. /\ audit' \in Readers /\ log' \in Readers /\ SameRun'
      /\ audit.failed => audit'.failed
      /\ log.failed => log'.failed
  BY <1>2, <1>4, BothJudge
<1>6. TypeOK'
  BY <1>2, <1>3, <1>5 DEF TypeOK, Tricks
<1>7. ASSUME trick = "none"
      PROVE  /\ ~audit'.failed /\ audit'.run = game' /\ (audit'.closed <=> Survived')
             /\ ~log'.failed /\ log'.run = game' /\ (log'.closed <=> Survived')
  <2>1. ~audit.failed /\ audit.run = game /\ ~audit.closed
    BY <1>2, <1>3, <1>7 DEF Following
  <2>2. NextRun(audit, r) = game'
    BY <1>3, <1>4, <2>1 DEF NextRun
  <2>3. ClaimProven(claim, game'.board, TurnOutcome(game'.board, game.role))
    BY <1>1, FactsProven
  <2>4. AuditAccepts(audit, r)
    BY <1>3, <1>4, <2>1, <2>2, <2>3 DEF AuditAccepts, InOrder, OneTurnDelayed, NextRun
  <2>5. /\ ~audit'.failed /\ audit'.run = game'
        /\ audit'.closed <=> TurnOutcome(game'.board, game.role) = "survival"
    BY <1>2, <1>4, <2>2, <2>4, AuditJudges DEF Disclose
  <2>6. Survived' <=> TurnOutcome(game'.board, game.role) = "survival"
    BY <1>2, <1>3, SurvivalSeen DEF Survived
  <2> QED BY <1>5, <2>5, <2>6 DEF SameRun
<1>8. ASSUME trick = "gap" PROVE audit'.failed /\ log'.failed
  <2>1. audit.run.role # game.role /\ log.run.role # game.role
    BY <1>2, <1>8 DEF Following
  <2> QED BY <1>2, <1>4, <2>1, Unfailed DEF Fits, InOrder
<1>9. ASSUME trick \in {"action", "illegal"}
      PROVE  /\ ~audit'.failed => KnownPaths(audit'.run, game', liar')
             /\ ~log'.failed => KnownPaths(log'.run, game', liar')
  <2>1. ASSUME NEW run \in Runs, KnownPaths(run, game, liar), Fits(run, d)
        PROVE  KnownPaths(Follow(run, game.role, action), game', liar')
    BY <1>2, <1>3, <1>4, <2>1, PathsKept DEF Fits, OneTurnDelayed
  <2>2. audit.run \in Runs /\ log.run \in Runs
    BY <1>2 DEF Readers
  <2>3. ASSUME ~audit'.failed PROVE KnownPaths(audit'.run, game', liar')
    <3>1. ~audit.failed /\ Fits(audit.run, d) /\ audit'.run = Follow(audit.run, game.role, action)
      BY <1>2, <1>4, <2>3, Unfailed DEF NextRun
    <3>2. KnownPaths(audit.run, game, liar)
      BY <1>2, <1>9, <3>1 DEF Following
    <3> QED BY <2>1, <2>2, <3>1, <3>2
  <2>4. ASSUME ~log'.failed PROVE KnownPaths(log'.run, game', liar')
    <3>1. ~log.failed /\ Fits(log.run, d) /\ log'.run = Follow(log.run, game.role, action)
      BY <1>2, <1>4, <2>4, Unfailed DEF NextRun
    <3>2. KnownPaths(log.run, game, liar)
      BY <1>2, <1>9, <3>1 DEF Following
    <3> QED BY <2>1, <2>2, <3>1, <3>2
  <2> QED BY <2>3, <2>4
<1>10. trick = "record" => audit'.failed /\ log'.failed
  BY <1>2, <1>5 DEF Following
<1>11. Following(audit)' /\ Following(log)'
  BY <1>2, <1>7, <1>8, <1>9, <1>10 DEF Following
<1>12. (trick \in {"reveal", "illegal"} => audit.failed)'
  BY <1>2, <1>5
<1> QED BY <1>5, <1>6, <1>11, <1>12 DEF IInv

LEMMA OmitStep ==
  ASSUME IInv, NEW action \in Actions, Omit(action)
  PROVE  IInv'
<1>1. /\ game \in Runs /\ trick = "none" /\ trick' = "gap" /\ UNCHANGED <<audit, log, liar>>
      /\ Played(action) /\ TypeOK /\ SameRun /\ Following(audit) /\ Following(log)
  BY DEF IInv, TypeOK, Omit
<1>2. /\ game' \in Runs /\ game.role \in Roles /\ game'.role = Opponent(game.role)
  BY <1>1, PlayedGame
<1>3. audit'.run.role # game'.role /\ log'.run.role # game'.role
  BY <1>1, <1>2 DEF Following, Opponent, Roles, Thief, Police
<1>4. TypeOK'
  BY <1>1, <1>2 DEF TypeOK, Tricks
<1>5. Following(audit)' /\ Following(log)'
  BY <1>1, <1>3 DEF Following
<1>6. SameRun'
  BY <1>1 DEF SameRun
<1> QED BY <1>1, <1>4, <1>5, <1>6 DEF IInv

(* What the four kinds of alterations have in common: the reader knew the    *)
(* game, and reads one record r.                                             *)
LEMMA AlteredStep ==
  ASSUME IInv, trick = "none", game' \in Runs,
         NEW r, Legible(r), Disclose(r), trick' \in Tricks, liar' \in Roles \cup {"none"}
  PROVE  /\ TypeOK' /\ SameRun'
         /\ audit.run = game /\ log.run = game
         /\ ~audit'.failed => /\ Fits(game, r.disclosure) /\ AuditAccepts(audit, r)
                              /\ audit'.run = NextRun(audit, r)
         /\ ~log'.failed => /\ Fits(game, r.disclosure) /\ VerifierAccepts(log, r)
                            /\ log'.run = NextRun(log, r)
<1>1. /\ audit \in Readers /\ log \in Readers /\ SameRun
      /\ audit.run = game /\ log.run = game
  BY DEF IInv, TypeOK, Following
<1>2. audit' \in Readers /\ log' \in Readers /\ SameRun'
  BY <1>1, BothJudge
<1>3. TypeOK'
  BY <1>2 DEF TypeOK
<1> QED BY <1>1, <1>2, <1>3, Unfailed

LEMMA ChangeActionStep ==
  ASSUME IInv, NEW action \in Actions, NEW told \in Actions, ChangeAction(action, told)
  PROVE  IInv'
<1> DEFINE d == Material(game, told)
           r == AuditRecord(d, "none")
<1>1. /\ trick = "none" /\ Played(action) /\ Disclose(r) /\ liar' = game.role /\ game \in Runs
      /\ trick' = IF MayAct(game.board, game.role, told) THEN "action" ELSE "illegal"
  BY DEF ChangeAction, IInv, TypeOK
<1>2. /\ game.role \in Roles /\ game' \in Runs /\ ~Survived
      /\ RulesAllow(game.board, game.role, action)
      /\ game' = Follow(game, game.role, action)
  BY <1>1, PlayedGame DEF Played
<1>3. r.disclosure = d /\ d.role = game.role /\ d.action = told /\ Legible(r)
  BY <1>1, RecordFields, MaterialFields, RecordLegible
<1> HIDE DEF r, d
<1>4. /\ TypeOK' /\ SameRun' /\ audit.run = game /\ log.run = game
      /\ ~audit'.failed => /\ Fits(game, d) /\ AuditAccepts(audit, r)
                           /\ audit'.run = NextRun(audit, r)
      /\ ~log'.failed => Fits(game, d) /\ log'.run = NextRun(log, r)
  <2>1. trick' \in Tricks /\ liar' \in Roles \cup {"none"}
    BY <1>1, <1>2 DEF Tricks
  <2> QED BY <1>1, <1>2, <1>3, <2>1, AlteredStep
<1>5. Fits(game, d) => KnownPaths(Follow(game, game.role, told), game', game.role)
  BY <1>1, <1>2, <1>3, PathsLied DEF Fits
<1>6. NextRun(audit, r) = Follow(game, game.role, told)
      /\ NextRun(log, r) = Follow(game, game.role, told)
  BY <1>3, <1>4 DEF NextRun
<1>7. trick' = "illegal" => audit'.failed
  <2>1. AuditAccepts(audit, r) => MayAct(game.board, game.role, told)
    BY <1>3, <1>4 DEF AuditAccepts
  <2> QED BY <1>1, <1>4, <2>1
<1>8. Following(audit)' /\ Following(log)'
  BY <1>1, <1>4, <1>5, <1>6 DEF Following
<1> QED BY <1>1, <1>4, <1>7, <1>8 DEF IInv

LEMMA AppendStep ==
  ASSUME IInv, NEW action \in Actions, Append(action)
  PROVE  IInv'
<1> DEFINE r == AuditRecord(Material(game, action), "none")
<1>1. /\ trick = "none" /\ Survived /\ Disclose(r) /\ trick' = "record"
      /\ UNCHANGED <<game, liar>> /\ game \in Runs /\ liar \in Roles \cup {"none"}
  BY DEF Append, IInv, TypeOK
<1>2. Legible(r)
  BY <1>1, RecordLegible
<1> HIDE DEF r
<1>3. /\ TypeOK' /\ SameRun'
      /\ ~audit'.failed => AuditAccepts(audit, r)
      /\ ~log'.failed => VerifierAccepts(log, r)
  <2>1. trick' \in Tricks /\ liar' \in Roles \cup {"none"} /\ game' \in Runs
    BY <1>1 DEF Tricks
  <2> QED BY <1>1, <1>2, <2>1, AlteredStep
<1>4. audit.closed /\ log.closed
  BY <1>1 DEF IInv, Following
<1>5. audit'.failed /\ log'.failed
  BY <1>3, <1>4 DEF AuditAccepts, VerifierAccepts
<1> QED BY <1>1, <1>3, <1>5 DEF IInv, Following

LEMMA ChangeRecordStep ==
  ASSUME IInv, NEW action \in Actions, ChangeRecord(action)
  PROVE  IInv'
<1> DEFINE d == Material(game, action)
           s == AuditRecord(d, "none")
<1>1. PICK r \in Sealed(s, game'.board) : Disclose(r)
  BY DEF ChangeRecord
<1>2. /\ trick = "none" /\ Played(action) /\ trick' = "record" /\ liar' = liar
      /\ game \in Runs /\ liar \in Roles \cup {"none"}
  BY DEF ChangeRecord, IInv, TypeOK
<1>3. /\ game.role \in Roles /\ game.trails \in [Roles -> Trails] /\ game' \in Runs
      /\ game'.board \in BoardStates /\ game.step \in Nat
      /\ RulesAllow(game.board, game.role, action)
      /\ game' = Follow(game, game.role, action)
  BY <1>2, PlayedGame DEF Runs
<1>4. /\ s.disclosure = d /\ s.reveal.commitment = d
      /\ d.role = game.role /\ d.step = game.step /\ d.action = action
      /\ d.heat = Decay(game.trails[game.role]) /\ d.hint = "said"
  BY RecordFields, MaterialFields
<1> DEFINE hot == Deposit(d.heat, game'.board[d.role])
<1>5. hot # Decay(game.trails[game.role])
  <2>1. game'.board[game.role] \in Cells
    BY <1>3, BoardFields DEF Roles, Thief, Police
  <2>2. d.heat \in Trails
    BY <1>3, <1>4, DecayType
  <2> QED BY <1>4, <2>1, <2>2, EmissionShows
<1>6. \/ r = [s EXCEPT !.disclosure.hint = "altered", !.reveal.hint = "altered"]
      \/ r = AuditRecord([d EXCEPT !.step = game.step + 1], "none")
      \/ r = AuditRecord([d EXCEPT !.role = Opponent(game.role)], "none")
      \/ r = AuditRecord([d EXCEPT !.heat = hot], "none")
  BY <1>1, <1>4 DEF Sealed
<1> HIDE DEF hot
<1>7. /\ Legible(r)
      /\ \/ r.reveal.commitment # r.disclosure
         \/ ~Fits(game, r.disclosure)
  <2>1. CASE r = [s EXCEPT !.disclosure.hint = "altered", !.reveal.hint = "altered"]
    <3>1. /\ r.disclosure = [d EXCEPT !.hint = "altered"]
          /\ r.reveal.commitment = d
      BY <2>1 DEF AuditRecord
    <3>2. r.disclosure.hint = "altered" /\ r.disclosure.role = d.role
          /\ r.disclosure.action = d.action
      BY <3>1 DEF Material
    <3> QED BY <1>3, <1>4, <3>1, <3>2 DEF Legible
  <2>2. CASE r = AuditRecord([d EXCEPT !.step = game.step + 1], "none")
    <3>1. r.disclosure = [d EXCEPT !.step = game.step + 1]
      BY <2>2, RecordFields
    <3>2. /\ r.disclosure.step = game.step + 1 /\ r.disclosure.role = d.role
          /\ r.disclosure.action = d.action
      BY <3>1 DEF Material
    <3> QED BY <1>3, <1>4, <3>2 DEF Legible, Fits, InOrder
  <2>3. CASE r = AuditRecord([d EXCEPT !.role = Opponent(game.role)], "none")
    <3>1. r.disclosure = [d EXCEPT !.role = Opponent(game.role)]
      BY <2>3, RecordFields
    <3>2. r.disclosure.role = Opponent(game.role) /\ r.disclosure.action = d.action
      BY <3>1 DEF Material
    <3>3. Opponent(game.role) # game.role /\ Opponent(game.role) \in Roles
      BY <1>3 DEF Opponent, Roles, Thief, Police
    <3> QED BY <1>4, <3>2, <3>3 DEF Legible, Fits, InOrder
  <2>4. CASE r = AuditRecord([d EXCEPT !.heat = hot], "none")
    <3>1. r.disclosure = [d EXCEPT !.heat = hot]
      BY <2>4, RecordFields
    <3>2. /\ r.disclosure.heat = hot /\ r.disclosure.role = d.role
          /\ r.disclosure.action = d.action
      BY <3>1 DEF Material
    <3> QED BY <1>3, <1>4, <1>5, <3>2 DEF Legible, Fits, OneTurnDelayed
  <2> QED BY <1>6, <2>1, <2>2, <2>3, <2>4
<1> HIDE DEF d, s
<1>8. /\ TypeOK' /\ SameRun'
      /\ ~audit'.failed => Fits(game, r.disclosure) /\ AuditAccepts(audit, r)
      /\ ~log'.failed => Fits(game, r.disclosure) /\ VerifierAccepts(log, r)
  <2>1. trick' \in Tricks /\ liar' \in Roles \cup {"none"}
    BY <1>2 DEF Tricks
  <2> QED BY <1>1, <1>2, <1>3, <1>7, <2>1, AlteredStep
<1>9. audit'.failed /\ log'.failed
  BY <1>7, <1>8 DEF AuditAccepts, VerifierAccepts, Verified
<1> QED BY <1>2, <1>8, <1>9 DEF IInv, Following

LEMMA ChangeRevealStep ==
  ASSUME IInv, NEW action \in Actions, ChangeReveal(action)
  PROVE  IInv'
<1> DEFINE d == Material(game, action)
           s == AuditRecord(d, "none")
<1>1. PICK r \in Revealed(s, game'.board) : Disclose(r)
  BY DEF ChangeReveal
<1>2. /\ trick = "none" /\ Played(action) /\ trick' = "reveal" /\ liar' = liar
      /\ game \in Runs /\ liar \in Roles \cup {"none"}
  BY DEF ChangeReveal, IInv, TypeOK
<1>3. /\ game.role \in Roles /\ game.trails \in [Roles -> Trails] /\ game' \in Runs
      /\ game'.board \in BoardStates
      /\ game' = Follow(game, game.role, action)
  BY <1>2, PlayedGame DEF Runs
<1>4. /\ s.disclosure = d /\ s.reveal.barrier = PublicBarrier(action)
      /\ d.role = game.role /\ d.action = action
      /\ d.heat = Decay(game.trails[game.role]) /\ d.hint = "said"
  BY RecordFields, MaterialFields
<1> DEFINE hot == Deposit(d.heat, game'.board[d.role])
           spot == IF PublicBarrier(action) = {} THEN {game'.board.thief} ELSE {}
<1>5. hot # d.heat
  <2>1. game'.board[game.role] \in Cells
    BY <1>3, BoardFields DEF Roles, Thief, Police
  <2>2. d.heat \in Trails
    BY <1>3, <1>4, DecayType
  <2> QED BY <1>4, <2>1, <2>2, EmissionShows
<1>6. spot # PublicBarrier(action)
  OBVIOUS
<1>7. \/ r = [s EXCEPT !.reveal.hint = "altered"]
      \/ r = [s EXCEPT !.reveal.token = d.role]
      \/ r = [s EXCEPT !.reveal.heat = hot]
      \/ r = [s EXCEPT !.reveal.barrier = IF @ = {} THEN {game'.board.thief} ELSE {}]
      \/ \E c \in Claims \ Facts(game'.board, game.role) : r = [s EXCEPT !.reveal.claim = c]
  BY <1>1, <1>4 DEF Revealed
<1> HIDE DEF hot
<1>8. /\ r.disclosure = d
      /\ ~Verified(r) \/ r.reveal.claim \in Claims \ Facts(game'.board, game.role)
  <2>1. CASE r = [s EXCEPT !.reveal.hint = "altered"]
    <3>1. r.disclosure = d /\ r.reveal.hint = "altered"
      BY <2>1 DEF AuditRecord
    <3> QED BY <1>4, <3>1 DEF Verified
  <2>2. CASE r = [s EXCEPT !.reveal.token = d.role]
    <3>1. r.disclosure = d /\ r.reveal.token = d.role
      BY <2>2 DEF AuditRecord
    <3> QED BY <1>3, <1>4, <3>1 DEF Verified, Opponent, Roles, Thief, Police
  <2>3. CASE r = [s EXCEPT !.reveal.heat = hot]
    <3>1. r.disclosure = d /\ r.reveal.heat = hot
      BY <2>3 DEF AuditRecord
    <3> QED BY <1>4, <1>5, <3>1 DEF Verified
  <2>4. CASE r = [s EXCEPT !.reveal.barrier = IF @ = {} THEN {game'.board.thief} ELSE {}]
    <3>1. r.disclosure = d /\ r.reveal.barrier = spot
      BY <1>4, <2>4 DEF AuditRecord
    <3> QED BY <1>4, <1>6, <3>1 DEF Verified
  <2>5. ASSUME NEW c \in Claims \ Facts(game'.board, game.role), r = [s EXCEPT !.reveal.claim = c]
        PROVE  r.disclosure = d /\ r.reveal.claim = c
    BY <2>5 DEF AuditRecord
  <2> QED BY <1>7, <2>1, <2>2, <2>3, <2>4, <2>5
<1>9. Legible(r)
  BY <1>3, <1>4, <1>8 DEF Legible
<1> HIDE DEF d, s
<1>10. /\ TypeOK' /\ SameRun' /\ audit.run = game
       /\ ~audit'.failed => AuditAccepts(audit, r)
  <2>1. trick' \in Tricks /\ liar' \in Roles \cup {"none"}
    BY <1>2 DEF Tricks
  <2> QED BY <1>1, <1>2, <1>3, <1>9, <2>1, AlteredStep
<1>11. ~AuditAccepts(audit, r)
  <2>1. AuditAccepts(audit, r) =>
          /\ Verified(r)
          /\ ClaimProven(r.reveal.claim, game'.board, TurnOutcome(game'.board, game.role))
    BY <1>3, <1>4, <1>8, <1>10 DEF AuditAccepts
  <2> QED BY <1>3, <1>8, <2>1, FictionRefused
<1> QED BY <1>2, <1>10, <1>11 DEF IInv, Following
---------------------------------------------------------------------------
LEMMA InvariantHolds == Spec => []IInv
<1>1. IInv /\ [Next]_vars => IInv'
  <2> SUFFICES ASSUME IInv, [Next]_vars PROVE IInv'
    OBVIOUS
  <2>1. CASE UNCHANGED vars
    BY <2>1 DEF vars, IInv, TypeOK, SameRun, Following, Survived
  <2>2. ASSUME NEW action \in Actions,
               \/ Honest(action) \/ Omit(action) \/ ChangeReveal(action)
               \/ ChangeRecord(action) \/ Append(action)
        PROVE  IInv'
    BY <2>2, HonestStep, OmitStep, ChangeRevealStep, ChangeRecordStep, AppendStep
  <2>3. ASSUME NEW action \in Actions, NEW told \in Actions, ChangeAction(action, told)
        PROVE  IInv'
    BY <2>3, ChangeActionStep
  <2> QED BY <2>1, <2>2, <2>3 DEF Next
<1> QED BY <1>1, InitialInv, PTL DEF Spec

(* The state has its types.                                                 *)
THEOREM TypeCorrect == Spec => []TypeOK
<1>1. IInv => TypeOK
  BY DEF IInv
<1> QED BY <1>1, InvariantHolds, PTL

(* What a player seals before its turn is what both readers expect of it:    *)
(* an honest game passes, with any true claims, on any board.                *)
THEOREM HonestAcceptedHolds == Spec => []HonestAccepted
<1>1. IInv => HonestAccepted
  BY DEF IInv, Following, HonestAccepted
<1> QED BY <1>1, InvariantHolds, PTL

(* One record changed, moved, missing or too many is refused.                *)
THEOREM AlteredRefusedHolds == Spec => []AlteredRefused
<1>1. IInv => AlteredRefused
  BY DEF IInv, Following, AlteredRefused
<1> QED BY <1>1, InvariantHolds, PTL

(* A false path, sealed anew, does not outlive its player's next record.     *)
THEOREM PathsBoundHold == Spec => []PathsBound
<1>1. IInv => PathsBound
  BY DEF IInv, Following, KnownPaths, PathsBound
<1> QED BY <1>1, InvariantHolds, PTL

(* A game the audit accepts has a log the offline verifier accepts.          *)
THEOREM AcceptedVerifiesHolds == Spec => []AcceptedVerifies
<1>1. IInv => AcceptedVerifies
  BY DEF IInv, SameRun, AcceptedVerifies
<1> QED BY <1>1, InvariantHolds, PTL
===========================================================================
