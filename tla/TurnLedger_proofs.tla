------------------------- MODULE TurnLedger_proofs -------------------------
(***************************************************************************)
(* What each method of the ledger preserves, for any number of subgames,    *)
(* steps, hashes and payloads.  One lemma per method and promise; the       *)
(* modules that hold a ledger cite them.                                    *)
(***************************************************************************)
EXTENDS TurnLedger, TLAPS

(* The empty ledger is a ledger, and keeps every promise.                   *)
LEMMA EmptyLedgerInv ==
  EmptyLedger \in Ledgers /\ LedgerInv(EmptyLedger)
<1>1. EmptyLedger \in Ledgers
  BY LedgerAssumption DEF EmptyLedger, Ledgers, Roles
<1>2. TokenAlternates(EmptyLedger)
  BY DEF EmptyLedger, TokenAlternates, Roles
<1>3. CommitsInTurn(EmptyLedger) /\ RevealsSealed(EmptyLedger)
  BY DEF EmptyLedger, CommitsInTurn, RevealsSealed, Keys
<1>4. PoliceRevealsContiguous(EmptyLedger)
  BY DEF EmptyLedger, PoliceRevealsContiguous, Roles
<1> QED BY <1>1, <1>2, <1>3, <1>4 DEF LedgerInv

(* complete_local_turn, as the game loop calls it (Thief to Police).         *)
LEMMA LocalTurnType ==
  ASSUME NEW l \in Ledgers, NEW g \in Subgames, NEW s \in WireSteps
  PROVE  CompleteLocalTurn(l, g, s, Thief, Police) \in Ledgers
BY DEF Ledgers, CompleteLocalTurn, WireSteps, Roles, Keys

LEMMA LocalTurnInv ==
  ASSUME NEW l \in Ledgers, NEW g \in Subgames, NEW s \in WireSteps,
         LedgerInv(l), CompleteLocalTurnOK(l, g, s, Thief, Police)
  PROVE  /\ LedgerInv(CompleteLocalTurn(l, g, s, Thief, Police))
         /\ Extends(l, CompleteLocalTurn(l, g, s, Thief, Police))
<1> DEFINE m == CompleteLocalTurn(l, g, s, Thief, Police)
<1>1. /\ m.commitments = l.commitments
      /\ m.reveals = l.reveals
      /\ m.token_owners = [l.token_owners EXCEPT ![g] = Police]
      /\ m.completed_steps = [l.completed_steps EXCEPT ![<<g, Thief>>] = s]
  BY DEF CompleteLocalTurn, Ledgers
<1>2. l.token_owners[g] = Thief /\ s = l.completed_steps[<<g, Thief>>] + 1
  BY DEF CompleteLocalTurnOK, RequireTurn
<1>3. l.completed_steps \in [Subgames \X Roles -> Nat]
  BY DEF Ledgers
<1>4. TokenAlternates(m)
  <2> SUFFICES ASSUME NEW h \in Subgames
               PROVE  m.completed_steps[<<h, Thief>>] =
                        m.completed_steps[<<h, Police>>]
                          + (IF m.token_owners[h] = Thief THEN 0 ELSE 1)
    BY DEF TokenAlternates
  <2>1. l.completed_steps[<<h, Thief>>] =
          l.completed_steps[<<h, Police>>]
            + (IF l.token_owners[h] = Thief THEN 0 ELSE 1)
    BY DEF LedgerInv, TokenAlternates
  <2>2. /\ l.completed_steps[<<h, Thief>>] \in Nat
        /\ l.completed_steps[<<h, Police>>] \in Nat
    BY <1>3 DEF Roles
  <2>3. m.completed_steps[<<h, Police>>] = l.completed_steps[<<h, Police>>]
    BY <1>1, <1>3 DEF Roles, Thief, Police
  <2>4. CASE h = g
    <3>1. m.completed_steps[<<h, Thief>>] = s /\ m.token_owners[h] = Police
      BY <2>4, <1>1, <1>3 DEF Roles, Ledgers
    <3> QED BY <3>1, <2>1, <2>2, <2>3, <2>4, <1>2 DEF Thief, Police
  <2>5. CASE h # g
    BY <2>5, <2>1, <2>3, <1>1, <1>3 DEF Roles, Ledgers
  <2> QED BY <2>4, <2>5
<1>5. CommitsInTurn(m)
  <2> SUFFICES ASSUME NEW h \in Subgames, NEW t \in WireSteps, NEW r \in Roles,
                      l.commitments[<<h, t, r>>] # None
               PROVE  /\ t > 0
                      /\ \/ t <= m.completed_steps[<<h, r>>]
                         \/ /\ t = m.completed_steps[<<h, r>>] + 1
                            /\ m.token_owners[h] = r
    BY <1>1 DEF CommitsInTurn
  <2>1. /\ t > 0
        /\ \/ t <= l.completed_steps[<<h, r>>]
           \/ t = l.completed_steps[<<h, r>>] + 1 /\ l.token_owners[h] = r
    BY DEF LedgerInv, CommitsInTurn
  <2>2. l.completed_steps[<<h, r>>] \in Nat /\ t \in Nat
    BY <1>3 DEF WireSteps
  <2>3. CASE h = g /\ r = Thief
    BY <2>1, <2>2, <2>3, <1>1, <1>2, <1>3
  <2>4. CASE h = g /\ r # Thief
    BY <2>1, <2>2, <2>4, <1>1, <1>2, <1>3
  <2>5. CASE h # g
    BY <2>1, <2>5, <1>1, <1>3 DEF Ledgers
  <2> QED BY <2>3, <2>4, <2>5
<1>6. RevealsSealed(m)
  <2> SUFFICES ASSUME NEW h \in Subgames, NEW t \in WireSteps, NEW r \in Roles,
                      l.reveals[<<h, t, r>>] # None
               PROVE  t \in 1 .. m.completed_steps[<<h, r>>]
    BY <1>1 DEF LedgerInv, RevealsSealed
  <2>1. t \in 1 .. l.completed_steps[<<h, r>>]
    BY DEF LedgerInv, RevealsSealed
  <2>2. l.completed_steps[<<h, r>>] <= m.completed_steps[<<h, r>>]
    BY <1>1, <1>2, <1>3 DEF WireSteps
  <2>3. m.completed_steps[<<h, r>>] \in Nat
    BY <1>1, <1>3 DEF WireSteps
  <2> QED BY <2>1, <2>2, <2>3, <1>3
<1>7. PoliceRevealsContiguous(m)
  BY <1>1, <1>2, <1>3 DEF LedgerInv, PoliceRevealsContiguous, Ledgers, Roles, Thief, Police, WireSteps
<1>8. Extends(l, m)
  BY <1>1, <1>2, <1>3 DEF Extends, Ledgers, Roles, Thief, Police
<1> QED BY <1>4, <1>5, <1>6, <1>7, <1>8 DEF LedgerInv

(* record_commit.                                                           *)
LEMMA CommitType ==
  ASSUME NEW l \in Ledgers, NEW q \in CommitRequests
  PROVE  RecordCommit(l, q) \in Ledgers
BY DEF Ledgers, RecordCommit, CommitRequests, TurnKey, Keys

LEMMA CommitInv ==
  ASSUME NEW l \in Ledgers, NEW q \in CommitRequests,
         LedgerInv(l), RecordCommitOK(l, q)
  PROVE  LedgerInv(RecordCommit(l, q)) /\ Extends(l, RecordCommit(l, q))
<1> DEFINE m == RecordCommit(l, q)
           k == TurnKey(q)
<1>1. /\ m.commitments = [l.commitments EXCEPT ![k] = q.commitment]
      /\ m.reveals = l.reveals
      /\ m.token_owners = l.token_owners
      /\ m.completed_steps = l.completed_steps
  BY DEF RecordCommit, Ledgers
<1>2. /\ k \in Keys /\ k = <<q.subgame, q.step, q.sender>>
      /\ q.subgame \in Subgames /\ q.step \in WireSteps /\ q.sender \in Roles
      /\ q.commitment # None
  BY LedgerAssumption DEF CommitRequests, TurnKey, Keys
<1>3. l.completed_steps \in [Subgames \X Roles -> Nat]
  BY DEF Ledgers
<1>4. TokenAlternates(m) /\ PoliceRevealsContiguous(m)
  BY <1>1 DEF LedgerInv, TokenAlternates, PoliceRevealsContiguous
<1>5. CASE l.commitments[k] = q.commitment
  <2>1. m.commitments = l.commitments
    BY <1>1, <1>2, <1>5 DEF Ledgers
  <2> QED BY <2>1, <1>1, <1>3, <1>4
          DEF LedgerInv, CommitsInTurn, RevealsSealed, Extends
<1>6. CASE l.commitments[k] = None /\ RequireTurn(l, q.subgame, q.step, q.sender)
  <2>1. q.step = l.completed_steps[<<q.subgame, q.sender>>] + 1
        /\ l.token_owners[q.subgame] = q.sender
    BY <1>6 DEF RequireTurn
  <2>2. CommitsInTurn(m)
    <3> SUFFICES ASSUME NEW g \in Subgames, NEW s \in WireSteps, NEW r \in Roles,
                        m.commitments[<<g, s, r>>] # None
                 PROVE  /\ s > 0
                        /\ \/ s <= l.completed_steps[<<g, r>>]
                           \/ /\ s = l.completed_steps[<<g, r>>] + 1
                              /\ l.token_owners[g] = r
      BY <1>1 DEF CommitsInTurn
    <3>1. CASE <<g, s, r>> = k
      BY <3>1, <1>2, <1>3, <2>1 DEF WireSteps
    <3>2. CASE <<g, s, r>> # k
      <4>1. m.commitments[<<g, s, r>>] = l.commitments[<<g, s, r>>]
        BY <3>2, <1>1 DEF Ledgers, Keys
      <4> QED BY <4>1 DEF LedgerInv, CommitsInTurn
    <3> QED BY <3>1, <3>2
  <2>3. RevealsSealed(m)
    <3> SUFFICES ASSUME NEW g \in Subgames, NEW s \in WireSteps, NEW r \in Roles,
                        l.reveals[<<g, s, r>>] # None
                 PROVE  m.commitments[<<g, s, r>>] = l.commitments[<<g, s, r>>]
      BY <1>1 DEF LedgerInv, RevealsSealed
    <3>1. /\ l.commitments[<<g, s, r>>] = l.reveals[<<g, s, r>>].commitment
          /\ l.reveals[<<g, s, r>>] \in Reveals
      BY DEF LedgerInv, RevealsSealed, Ledgers, Keys
    <3>2. <<g, s, r>> # k
      BY <3>1, <1>6, LedgerAssumption DEF Reveals
    <3> QED BY <3>2, <1>1 DEF Ledgers, Keys
  <2>4. Extends(l, m)
    BY <1>1, <1>2, <1>3, <1>6 DEF Extends, Ledgers
  <2> QED BY <1>4, <2>2, <2>3, <2>4 DEF LedgerInv
<1> QED BY <1>5, <1>6 DEF RecordCommitOK

(* record_reveal.                                                           *)
LEMMA RevealType ==
  ASSUME NEW l \in Ledgers, NEW q \in RevealRequests, RecordRevealOK(l, q)
  PROVE  RecordReveal(l, q) \in Ledgers
<1>1. CASE RevealRecorded(l, q)
  BY <1>1 DEF RecordReveal
<1>2. CASE ~RevealRecorded(l, q)
  <2>1. /\ TurnKey(q) \in Keys /\ q.subgame \in Subgames /\ q.step \in WireSteps
        /\ q.sender \in Roles /\ q.turn_token \in Roles /\ q.evidence \in Evidence
    BY DEF RevealRequests, TurnKey, Keys
  <2>2. Candidate(l, q) \in Reveals
    BY <1>2, <2>1 DEF RecordRevealOK, Candidate, Reveals, Ledgers
  <2> QED BY <1>2, <2>1, <2>2 DEF RecordReveal, Ledgers, WireSteps
<1> QED BY <1>1, <1>2

LEMMA RevealInv ==
  ASSUME NEW l \in Ledgers, NEW q \in RevealRequests,
         LedgerInv(l), RecordRevealOK(l, q)
  PROVE  LedgerInv(RecordReveal(l, q)) /\ Extends(l, RecordReveal(l, q))
<1> DEFINE m == RecordReveal(l, q)
           k == TurnKey(q)
<1>0. l.completed_steps \in [Subgames \X Roles -> Nat]
  BY DEF Ledgers
<1>1. CASE RevealRecorded(l, q)
  BY <1>1, <1>0 DEF RecordReveal, Extends
<1>2. CASE ~RevealRecorded(l, q)
  <2>1. /\ m.commitments = l.commitments
        /\ m.reveals = [l.reveals EXCEPT ![k] = Candidate(l, q)]
        /\ m.token_owners = [l.token_owners EXCEPT ![q.subgame] = q.turn_token]
        /\ m.completed_steps = [l.completed_steps EXCEPT ![<<q.subgame, q.sender>>] = q.step]
    BY <1>2 DEF RecordReveal, Ledgers
  <2>2. /\ k \in Keys /\ k = <<q.subgame, q.step, q.sender>>
        /\ q.subgame \in Subgames /\ q.step \in WireSteps /\ q.sender \in Roles
        /\ q.turn_token = Other(q.sender)
    BY DEF RevealRequests, TurnKey, Keys, Other, Roles
  <2>3. /\ l.commitments[k] # None
        /\ q.step = l.completed_steps[<<q.subgame, q.sender>>] + 1
        /\ l.token_owners[q.subgame] = q.sender
        /\ l.reveals[k] = None
    BY <1>2 DEF RecordRevealOK, RequireTurn, RevealRecorded
  <2>4. TokenAlternates(m)
    <3> SUFFICES ASSUME NEW g \in Subgames
                 PROVE  m.completed_steps[<<g, Thief>>] =
                          m.completed_steps[<<g, Police>>]
                            + (IF m.token_owners[g] = Thief THEN 0 ELSE 1)
      BY DEF TokenAlternates
    <3>1. l.completed_steps[<<g, Thief>>] =
            l.completed_steps[<<g, Police>>]
              + (IF l.token_owners[g] = Thief THEN 0 ELSE 1)
      BY DEF LedgerInv, TokenAlternates
    <3>2. /\ l.completed_steps[<<g, Thief>>] \in Nat
          /\ l.completed_steps[<<g, Police>>] \in Nat
      BY <1>0 DEF Roles
    <3>3. CASE g = q.subgame
      <4>1. m.token_owners[g] = Other(q.sender)
        BY <3>3, <2>1, <2>2 DEF Ledgers
      <4>2. CASE q.sender = Thief
        <5>1. /\ m.completed_steps[<<g, Thief>>] = q.step
              /\ m.completed_steps[<<g, Police>>] = l.completed_steps[<<g, Police>>]
          BY <3>3, <4>2, <2>1, <2>2, <1>0 DEF Roles, Thief, Police
        <5> QED BY <5>1, <4>1, <4>2, <3>1, <3>2, <3>3, <2>3 DEF Other, Thief, Police
      <4>3. CASE q.sender = Police
        <5>1. /\ m.completed_steps[<<g, Police>>] = q.step
              /\ m.completed_steps[<<g, Thief>>] = l.completed_steps[<<g, Thief>>]
          BY <3>3, <4>3, <2>1, <2>2, <1>0 DEF Roles, Thief, Police
        <5> QED BY <5>1, <4>1, <4>3, <3>1, <3>2, <3>3, <2>3 DEF Other, Thief, Police
      <4> QED BY <4>2, <4>3, <2>2 DEF Roles
    <3>4. CASE g # q.subgame
      BY <3>4, <3>1, <2>1, <1>0 DEF Roles, Ledgers
    <3> QED BY <3>3, <3>4
  <2>5. CommitsInTurn(m)
    <3> SUFFICES ASSUME NEW g \in Subgames, NEW s \in WireSteps, NEW r \in Roles,
                        l.commitments[<<g, s, r>>] # None
                 PROVE  /\ s > 0
                        /\ \/ s <= m.completed_steps[<<g, r>>]
                           \/ /\ s = m.completed_steps[<<g, r>>] + 1
                              /\ m.token_owners[g] = r
      BY <2>1 DEF CommitsInTurn
    <3>1. /\ s > 0
          /\ \/ s <= l.completed_steps[<<g, r>>]
             \/ s = l.completed_steps[<<g, r>>] + 1 /\ l.token_owners[g] = r
      BY DEF LedgerInv, CommitsInTurn
    <3>2. l.completed_steps[<<g, r>>] \in Nat /\ s \in Nat
      BY <1>0 DEF WireSteps
    <3>3. CASE g = q.subgame /\ r = q.sender
      BY <3>1, <3>2, <3>3, <2>1, <2>2, <2>3, <1>0
    <3>4. CASE g = q.subgame /\ r # q.sender
      BY <3>1, <3>2, <3>4, <2>1, <2>2, <2>3, <1>0
    <3>5. CASE g # q.subgame
      BY <3>1, <3>5, <2>1, <1>0 DEF Ledgers
    <3> QED BY <3>3, <3>4, <3>5
  <2>6. RevealsSealed(m)
    <3> SUFFICES ASSUME NEW g \in Subgames, NEW s \in WireSteps, NEW r \in Roles,
                        m.reveals[<<g, s, r>>] # None
                 PROVE  /\ m.commitments[<<g, s, r>>] = m.reveals[<<g, s, r>>].commitment
                        /\ m.reveals[<<g, s, r>>].turn_token = Other(r)
                        /\ s \in 1 .. m.completed_steps[<<g, r>>]
      BY DEF RevealsSealed
    <3>1. CASE <<g, s, r>> = k
      BY <3>1, <2>1, <2>2, <2>3, <1>0 DEF Candidate, Ledgers, WireSteps
    <3>2. CASE <<g, s, r>> # k
      <4>1. m.reveals[<<g, s, r>>] = l.reveals[<<g, s, r>>]
        BY <3>2, <2>1 DEF Ledgers, Keys
      <4>2. l.completed_steps[<<g, r>>] <= m.completed_steps[<<g, r>>]
        BY <2>1, <2>3, <1>0
      <4> QED BY <4>1, <4>2, <2>1, <2>2, <1>0 DEF LedgerInv, RevealsSealed, WireSteps, Ledgers
    <3> QED BY <3>1, <3>2
  <2>7. PoliceRevealsContiguous(m)
    <3> SUFFICES ASSUME NEW g \in Subgames, NEW s \in WireSteps,
                        s \in 1 .. m.completed_steps[<<g, Police>>]
                 PROVE  m.reveals[<<g, s, Police>>] # None
      BY DEF PoliceRevealsContiguous
    <3>1. CASE <<g, s, Police>> = k
      <4>1. Candidate(l, q) # None
        BY <2>2, <2>3, NoneIsNoReveal, LedgerAssumption
        DEF Candidate, Reveals, Ledgers, RevealRequests, Keys
      <4> QED BY <3>1, <4>1, <2>1, <2>2 DEF Ledgers
    <3>2. CASE <<g, s, Police>> # k
      <4>1. m.reveals[<<g, s, Police>>] = l.reveals[<<g, s, Police>>]
        BY <3>2, <2>1 DEF Ledgers, Keys, Roles
      <4>2. s \in 1 .. l.completed_steps[<<g, Police>>]
        <5>1. CASE g = q.subgame /\ q.sender = Police
          <6>1. m.completed_steps[<<g, Police>>] = q.step /\ s # q.step
            BY <5>1, <3>2, <2>1, <2>2, <1>0
          <6> QED BY <6>1, <5>1, <2>2, <2>3, <1>0 DEF WireSteps, Roles
        <5>2. CASE ~(g = q.subgame /\ q.sender = Police)
          BY <5>2, <2>1, <1>0 DEF Roles
        <5> QED BY <5>1, <5>2
      <4> QED BY <4>1, <4>2 DEF LedgerInv, PoliceRevealsContiguous
    <3> QED BY <3>1, <3>2
  <2>8. Extends(l, m)
    BY <2>1, <2>2, <2>3, <1>0 DEF Extends, Ledgers
  <2> QED BY <2>4, <2>5, <2>6, <2>7, <2>8 DEF LedgerInv
<1> QED BY <1>1, <1>2
===========================================================================
