------------------------- MODULE Reliability_proofs -------------------------
(***************************************************************************)
(* What is proved of the package reliability/, for any limits: first of the *)
(* gate, then of the deadlines of one subgame.                              *)
(*                                                                         *)
(* The gate: its accounts balance for any number of callers, permits, queue *)
(* slots and retries, and the circuit counts what failed.  Both are         *)
(* inductive together with the types; the arithmetic is that of the three   *)
(* sets of calls At counts.                                                 *)
(*                                                                         *)
(* The deadlines: Typed says which stages belong to which turn, bounds the   *)
(* clocks and says what is in flight (Flying); Saved, Lonely and Fitting are *)
(* inductive relative to it.                                                *)
(* Fitting is the long one.  Every wait is bounded by what the opponent      *)
(* still has to do before it sends (Left, Ahead), which is known from what   *)
(* the two servers have handled (Sent, Heard).                              *)
(***************************************************************************)
EXTENDS Gate, Deadlines, FiniteSetTheorems, TLAPS

Labels == Live \cup Ended \cup {"idle"}
InQueue  == {"waiting", "granted"}
InFlight == {"granted", "running", "sleeping"}

\* The calls that `labels` puts at one of the places S.
At(labels, S) == {p \in Callers : labels[p] \in S}

IInv == /\ pc \in [Callers -> Labels] /\ attempt \in [Callers -> 0 .. MaxRetries]
        /\ \A p \in Callers : pc[p] = "sleeping" => attempt[p] < MaxRetries
        /\ queue \in Seq(Callers)
        /\ waiting \in Nat /\ permits \in Nat
        /\ failures \in Nat /\ is_open \in BOOLEAN
        /\ SlotsAccounted
        /\ recent \in SUBSET {p \in Callers : pc[p] = "failed"}
        /\ CircuitCounts

LEMMA AtFinite ==
  ASSUME NEW labels, NEW S
  PROVE  IsFiniteSet(At(labels, S)) /\ Cardinality(At(labels, S)) \in Nat
BY GateAssumption, FS_Subset, FS_CardinalityType DEF At

LEMMA Names ==
  /\ Queued = At(pc, InQueue)
  /\ Holding = At(pc, InFlight)
BY DEF Queued, Holding, At, InQueue, InFlight

\* One call changes its place: it joins the calls at S, leaves them, or neither.
Moves(from, to, p, l) == /\ from \in [Callers -> Labels] /\ to \in [Callers -> Labels]
                         /\ to[p] = l
                         /\ \A q \in Callers \ {p} : to[q] = from[q]

LEMMA Joins ==
  ASSUME NEW from, NEW to, NEW p \in Callers, NEW l, Moves(from, to, p, l),
         NEW S, l \in S, from[p] \notin S
  PROVE  Cardinality(At(to, S)) = Cardinality(At(from, S)) + 1
<1>1. At(to, S) = At(from, S) \cup {p} /\ p \notin At(from, S)
  BY DEF At, Moves
<1> QED BY <1>1, AtFinite, FS_AddElement

LEMMA Leaves ==
  ASSUME NEW from, NEW to, NEW p \in Callers, NEW l, Moves(from, to, p, l),
         NEW S, l \notin S, from[p] \in S
  PROVE  Cardinality(At(to, S)) = Cardinality(At(from, S)) - 1
<1>1. At(to, S) = At(from, S) \ {p} /\ p \in At(from, S)
  BY DEF At, Moves
<1> QED BY <1>1, AtFinite, FS_RemoveElement

LEMMA Stays ==
  ASSUME NEW from, NEW to, NEW p \in Callers, NEW l, Moves(from, to, p, l),
         NEW S, l \in S <=> from[p] \in S
  PROVE  Cardinality(At(to, S)) = Cardinality(At(from, S))
<1>1. At(to, S) = At(from, S)
  BY DEF At, Moves
<1> QED BY <1>1

(* Handing permits over moves nobody in or out of the queue, turns each     *)
(* permit into one held, and leaves a permit free only if nobody waits or   *)
(* somebody is on its way to hand it on.                                    *)
LEMMA HandStep ==
  ASSUME NEW labels \in [Callers -> Labels], NEW order, NEW free \in Nat,
         NEW most \in 0 .. free, most = free \/ most = 1,
         Hand(labels, order, free, most)
  PROVE  /\ pc' \in [Callers -> Labels]
         /\ permits' \in Nat
         /\ At(pc', InQueue) = At(labels, InQueue)
         /\ \A p \in Callers : pc'[p] = labels[p] \/ (pc'[p] = "granted" /\ labels[p] = "waiting")
         /\ permits' + Cardinality(At(pc', InFlight))
              = free + Cardinality(At(labels, InFlight))
         /\ permits' > 0 => \/ \A p \in Callers : pc'[p] # "waiting"
                            \/ \E p \in Callers : pc'[p] = "granted"
<1> DEFINE idlers == {p \in Callers : labels[p] = "waiting"}
           A == At(labels, InFlight)
<1>1. PICK granted \in SUBSET idlers :
        /\ Cardinality(granted) = IF most < Cardinality(idlers) THEN most
                                                                ELSE Cardinality(idlers)
        /\ pc' = [p \in Callers |-> IF p \in granted THEN "granted" ELSE labels[p]]
        /\ permits' = free - Cardinality(granted)
  BY DEF Hand
<1>2. IsFiniteSet(idlers) /\ Cardinality(idlers) \in Nat
  BY GateAssumption, FS_Subset, FS_CardinalityType
<1>3. IsFiniteSet(granted) /\ Cardinality(granted) \in Nat
  BY <1>2, FS_Subset, FS_CardinalityType
<1>4. pc' \in [Callers -> Labels]
  BY <1>1 DEF Labels, Live
<1>5. /\ At(pc', InQueue) = At(labels, InQueue)
      /\ \A p \in Callers : pc'[p] = labels[p] \/ (pc'[p] = "granted" /\ labels[p] = "waiting")
  BY <1>1 DEF At, InQueue
<1>6. At(pc', InFlight) = A \cup granted /\ A \cap granted = {}
  BY <1>1 DEF At, InFlight
<1>7. Cardinality(A \cup granted) = Cardinality(A) + Cardinality(granted)
  <2>1. IsFiniteSet(A) /\ Cardinality(A) \in Nat
    BY AtFinite
  <2>2. Cardinality(A \cap granted) = 0
    BY <1>6, FS_EmptySet
  <2> HIDE DEF A, idlers
  <2>3. Cardinality(A \cup granted) = Cardinality(A) + Cardinality(granted) - Cardinality(A \cap granted)
    BY <1>3, <2>1, FS_Union
  <2> QED BY <1>3, <2>1, <2>2, <2>3
<1>8. Cardinality(A) \in Nat
  BY AtFinite
<1>9. permits' \in Nat
  <2> HIDE DEF idlers
  <2> QED BY <1>1, <1>2
<1>10. ASSUME permits' > 0
       PROVE  \/ \A p \in Callers : pc'[p] # "waiting"
              \/ \E p \in Callers : pc'[p] = "granted"
  <2>1. Cardinality(granted) = Cardinality(idlers) \/ Cardinality(granted) > 0
    <3> HIDE DEF idlers
    <3> QED BY <1>1, <1>2, <1>3, <1>10
  <2>2. CASE Cardinality(granted) = Cardinality(idlers)
    <3>1. granted = idlers
      BY <1>2, <2>2, FS_Subset
    <3> QED BY <1>1, <3>1
  <2>3. CASE Cardinality(granted) > 0
    <3>1. granted # {}
      BY <2>3, FS_EmptySet
    <3> QED BY <1>1, <3>1
  <2> QED BY <2>1, <2>2, <2>3
<1>11. permits' + Cardinality(At(pc', InFlight)) = free + Cardinality(A)
  <2>1. permits' = free - Cardinality(granted)
    BY <1>1
  <2>2. Cardinality(At(pc', InFlight)) = Cardinality(A) + Cardinality(granted)
    BY <1>6, <1>7
  <2> HIDE DEF A
  <2> QED BY <1>3, <1>8, <2>1, <2>2
<1> QED BY <1>4, <1>5, <1>9, <1>10, <1>11
---------------------------------------------------------------------------
\* What a step must establish, in terms of the sets.
LEMMA Balanced ==
  ASSUME pc' \in [Callers -> Labels], waiting' \in Nat, permits' \in Nat,
         waiting' = Cardinality(At(pc', InQueue)), waiting' <= QueueDepth,
         permits' + Cardinality(At(pc', InFlight)) = Concurrency,
         permits' > 0 => \/ \A p \in Callers : pc'[p] # "waiting"
                         \/ \E p \in Callers : pc'[p] = "granted"
  PROVE  SlotsAccounted'
BY DEF SlotsAccounted, Queued, Holding, At, InQueue, InFlight

LEMMA Balance ==
  ASSUME IInv, [GateNext]_gateVars
  PROVE  /\ pc' \in [Callers -> Labels] /\ waiting' \in Nat /\ permits' \in Nat
         /\ SlotsAccounted'
<1>1. /\ pc \in [Callers -> Labels] /\ waiting \in Nat /\ permits \in Nat
      /\ waiting = Cardinality(At(pc, InQueue)) /\ waiting <= QueueDepth
      /\ permits + Cardinality(At(pc, InFlight)) = Concurrency
      /\ permits > 0 => \/ \A p \in Callers : pc[p] # "waiting"
                        \/ \E p \in Callers : pc[p] = "granted"
  BY Names DEF IInv, SlotsAccounted
<1>2. /\ Cardinality(At(pc, InQueue)) \in Nat /\ Cardinality(At(pc, InFlight)) \in Nat
      /\ Concurrency \in Nat /\ QueueDepth \in Nat
  BY AtFinite, GateAssumption
<1>3. ASSUME NEW p \in Callers, Refused(p) \/ QueueFull(p)
      PROVE  /\ pc' \in [Callers -> Labels] /\ waiting' \in Nat /\ permits' \in Nat
             /\ SlotsAccounted'
  <2>1. PICK l \in Ended : pc' = [pc EXCEPT ![p] = l]
    BY <1>3 DEF Refused, QueueFull, Ended
  <2>2. pc[p] = "idle" /\ UNCHANGED <<waiting, permits>>
    BY <1>3 DEF Refused, QueueFull
  <2>3. /\ pc' \in [Callers -> Labels]
        /\ Cardinality(At(pc', InQueue)) = Cardinality(At(pc, InQueue))
        /\ Cardinality(At(pc', InFlight)) = Cardinality(At(pc, InFlight))
    <3>1. l \in Labels
      BY DEF Labels
    <3>2. {l, pc[p]} \cap (InQueue \cup InFlight) = {}
      BY <2>2 DEF Ended, InQueue, InFlight
    <3>3. Moves(pc, pc', p, l)
      BY <1>1, <2>1, <3>1 DEF Moves
    <3> QED BY <3>2, <3>3, Stays DEF Moves
  <2>4. permits' > 0 => \/ \A q \in Callers : pc'[q] # "waiting"
                        \/ \E q \in Callers : pc'[q] = "granted"
    BY <1>1, <2>1, <2>2 DEF Ended
  <2> QED BY <1>1, <2>2, <2>3, <2>4, Balanced
<1>4. ASSUME NEW p \in Callers, EnterQueue(p)
      PROVE  /\ pc' \in [Callers -> Labels] /\ waiting' \in Nat /\ permits' \in Nat
             /\ SlotsAccounted'
  <2>1. pc[p] = "idle" /\ waiting < QueueDepth
    BY <1>4 DEF EnterQueue
  <2>2. CASE permits > 0 /\ Queued = {}
    <3>1. pc' = [pc EXCEPT ![p] = "running"] /\ permits' = permits - 1 /\ waiting' = waiting
      BY <1>4, <2>2 DEF EnterQueue
    <3>2. /\ pc' \in [Callers -> Labels]
          /\ Cardinality(At(pc', InQueue)) = Cardinality(At(pc, InQueue))
          /\ Cardinality(At(pc', InFlight)) = Cardinality(At(pc, InFlight)) + 1
      <4>1. /\ "running" \in Labels /\ "running" \in InFlight \ InQueue
            /\ pc[p] \notin InQueue \cup InFlight
        BY <2>1 DEF Labels, Live, InQueue, InFlight
      <4>2. Moves(pc, pc', p, "running")
        BY <1>1, <3>1, <4>1 DEF Moves
      <4>3. pc' \in [Callers -> Labels]
        BY <4>2 DEF Moves
      <4>4. "running" \notin InQueue /\ pc[p] \notin InQueue
        BY <4>1
      <4>5. "running" \in InFlight /\ pc[p] \notin InFlight
        BY <4>1
      <4>6. Cardinality(At(pc', InQueue)) = Cardinality(At(pc, InQueue))
        BY <4>2, <4>4, Stays
      <4>7. Cardinality(At(pc', InFlight)) = Cardinality(At(pc, InFlight)) + 1
        BY <4>2, <4>5, Joins
      <4> QED BY <4>3, <4>6, <4>7
    <3>3. \A q \in Callers : pc'[q] # "waiting"
      BY <1>1, <2>2, <3>1 DEF Queued
    <3> QED BY <1>1, <1>2, <2>2, <3>1, <3>2, <3>3, Balanced
  <2>3. CASE ~(permits > 0 /\ Queued = {})
    <3>1. pc' = [pc EXCEPT ![p] = "waiting"] /\ permits' = permits /\ waiting' = waiting + 1
      BY <1>4, <2>3 DEF EnterQueue
    <3>2. /\ pc' \in [Callers -> Labels]
          /\ Cardinality(At(pc', InQueue)) = Cardinality(At(pc, InQueue)) + 1
          /\ Cardinality(At(pc', InFlight)) = Cardinality(At(pc, InFlight))
      <4>1. /\ "waiting" \in Labels /\ "waiting" \in InQueue \ InFlight
            /\ pc[p] \notin InQueue \cup InFlight
        BY <2>1 DEF Labels, Live, InQueue, InFlight
      <4>2. Moves(pc, pc', p, "waiting")
        BY <1>1, <3>1, <4>1 DEF Moves
      <4>3. pc' \in [Callers -> Labels]
        BY <4>2 DEF Moves
      <4>4. "waiting" \in InQueue /\ pc[p] \notin InQueue
        BY <4>1
      <4>5. "waiting" \notin InFlight /\ pc[p] \notin InFlight
        BY <4>1
      <4> QED BY <4>2, <4>3, <4>4, <4>5, Stays, Joins
    <3>3. permits > 0 => \E q \in Callers : pc[q] = "granted"
      BY <1>1, <2>3 DEF Queued
    <3>4. permits' > 0 => \E q \in Callers : pc'[q] = "granted"
      BY <1>1, <2>1, <3>1, <3>3
    <3> QED BY <1>1, <1>2, <2>1, <3>1, <3>2, <3>4, Balanced
  <2> QED BY <2>2, <2>3
<1>5. ASSUME NEW p \in Callers, NEW l \in Labels, NEW order, NEW free \in Nat,
             NEW most \in 0 .. free, most = free \/ most = 1,
             Hand([pc EXCEPT ![p] = l], order, free, most),
             l \in Ended \cup {"running"},
             waiting' = IF pc[p] \in InQueue THEN waiting - 1 ELSE waiting,
             free = permits + (IF pc[p] \in InFlight /\ l \in Ended THEN 1 ELSE 0),
             l = "running" => pc[p] = "granted"
      PROVE  /\ pc' \in [Callers -> Labels] /\ waiting' \in Nat /\ permits' \in Nat
             /\ SlotsAccounted'
  <2> DEFINE labels == [pc EXCEPT ![p] = l]
  <2>1. /\ l \notin InQueue
        /\ l \in Ended => l \notin InFlight
        /\ l \notin Ended => l \in InFlight /\ pc[p] \in InFlight
    BY <1>5 DEF Ended, InQueue, InFlight
  <2>2. /\ labels \in [Callers -> Labels]
        /\ Cardinality(At(labels, InQueue)) = Cardinality(At(pc, InQueue))
                                              - (IF pc[p] \in InQueue THEN 1 ELSE 0)
        /\ Cardinality(At(labels, InFlight)) =
             Cardinality(At(pc, InFlight)) - (IF pc[p] \in InFlight /\ l \in Ended THEN 1 ELSE 0)
    <3>5. Moves(pc, labels, p, l)
      BY <1>1 DEF Moves
    <3>6. labels \in [Callers -> Labels]
      BY <3>5 DEF Moves
    <3> HIDE DEF labels
    <3>1. pc[p] \in InQueue => Cardinality(At(labels, InQueue)) = Cardinality(At(pc, InQueue)) - 1
      BY <2>1, <3>5, Leaves
    <3>2. pc[p] \notin InQueue => Cardinality(At(labels, InQueue)) = Cardinality(At(pc, InQueue))
      BY <2>1, <3>5, Stays
    <3>3. pc[p] \in InFlight /\ l \in Ended
            => Cardinality(At(labels, InFlight)) = Cardinality(At(pc, InFlight)) - 1
      BY <2>1, <3>5, Leaves
    <3>4. ~(pc[p] \in InFlight /\ l \in Ended)
            => Cardinality(At(labels, InFlight)) = Cardinality(At(pc, InFlight))
      <4>1. ~(pc[p] \in InFlight /\ l \in Ended) => (l \in InFlight <=> pc[p] \in InFlight)
        BY <2>1
      <4> QED BY <3>5, <4>1, Stays
    <3> QED BY <1>2, <3>1, <3>2, <3>3, <3>4, <3>6
  <2> HIDE DEF labels
  <2>3. /\ pc' \in [Callers -> Labels] /\ permits' \in Nat
        /\ At(pc', InQueue) = At(labels, InQueue)
        /\ permits' + Cardinality(At(pc', InFlight)) = free + Cardinality(At(labels, InFlight))
        /\ permits' > 0 => \/ \A q \in Callers : pc'[q] # "waiting"
                           \/ \E q \in Callers : pc'[q] = "granted"
    BY <1>5, <2>2, HandStep DEF labels
  <2>4. /\ Cardinality(At(labels, InQueue)) \in Nat
        /\ Cardinality(At(labels, InFlight)) \in Nat
        /\ Cardinality(At(pc', InFlight)) \in Nat
    BY AtFinite
  <2>5. waiting' = Cardinality(At(pc', InQueue)) /\ waiting' <= QueueDepth /\ waiting' \in Nat
    BY <1>1, <1>2, <1>5, <2>2, <2>3, <2>4
  <2>6. permits' + Cardinality(At(pc', InFlight)) = Concurrency
    BY <1>1, <1>2, <1>5, <2>2, <2>3, <2>4
  <2> QED BY <2>3, <2>5, <2>6, Balanced
<1>6. ASSUME NEW p \in Callers, Admitted(p)
      PROVE  /\ pc' \in [Callers -> Labels] /\ waiting' \in Nat /\ permits' \in Nat
             /\ SlotsAccounted'
  <2>1. /\ Hand([pc EXCEPT ![p] = "running"], Without(queue, p), permits, permits)
        /\ waiting' = waiting - 1 /\ pc[p] = "granted"
    BY <1>6 DEF Admitted
  <2>2. /\ "running" \in Labels /\ "running" \in Ended \cup {"running"}
        /\ "running" \notin Ended /\ pc[p] \in InQueue
    BY <2>1 DEF Labels, Live, Ended, InQueue
  <2>3. waiting' = IF pc[p] \in InQueue THEN waiting - 1 ELSE waiting
    BY <2>1, <2>2
  <2>4. permits = permits + (IF pc[p] \in InFlight /\ "running" \in Ended THEN 1 ELSE 0)
    BY <1>1, <2>2
  <2>5. permits \in Nat /\ permits \in 0 .. permits
    BY <1>1
  <2> QED BY <1>5, <2>1, <2>2, <2>3, <2>4, <2>5, Zenon
<1>7. ASSUME NEW p \in Callers, NEW l \in Ended, pc[p] = "running", Finish(p, l)
      PROVE  /\ pc' \in [Callers -> Labels] /\ waiting' \in Nat /\ permits' \in Nat
             /\ SlotsAccounted'
  <2>1. /\ Hand([pc EXCEPT ![p] = l], queue, permits + 1, 1)
        /\ waiting' = waiting
    BY <1>7 DEF Finish
  <2>2. /\ l \in Labels /\ l \in Ended \cup {"running"} /\ l # "running"
        /\ pc[p] \in InFlight /\ pc[p] \notin InQueue
    BY <1>7 DEF Labels, Ended, InQueue, InFlight
  <2>3. waiting' = IF pc[p] \in InQueue THEN waiting - 1 ELSE waiting
    BY <2>1, <2>2
  <2>4. permits + 1 = permits + (IF pc[p] \in InFlight /\ l \in Ended THEN 1 ELSE 0)
    BY <1>1, <1>7, <2>2
  <2>5. permits + 1 \in Nat /\ 1 \in 0 .. permits + 1
    BY <1>1
  <2> QED BY <1>5, <2>1, <2>2, <2>3, <2>4, <2>5, Zenon
<1>8. ASSUME NEW p \in Callers, Cancel(p)
      PROVE  /\ pc' \in [Callers -> Labels] /\ waiting' \in Nat /\ permits' \in Nat
             /\ SlotsAccounted'
  <2>1. p \in Queued <=> pc[p] \in InQueue
    BY DEF Queued, InQueue
  <2>2. "ended" \in Labels /\ "ended" \in Ended /\ "ended" # "running"
    BY DEF Labels, Ended
  <2> DEFINE free == Freed(p)
  <2>3. free = permits + (IF pc[p] \in InFlight /\ "ended" \in Ended THEN 1 ELSE 0)
    BY <1>1, <1>8, <2>2 DEF Cancel, Live, InFlight, Freed
  <2>4. /\ free \in Nat /\ Granted(p) \in 0 .. free
        /\ Granted(p) = free \/ Granted(p) = 1
    BY <1>1 DEF Freed, Granted, Queued
  <2>5. /\ Hand([pc EXCEPT ![p] = "ended"], Without(queue, p), free, Granted(p))
        /\ waiting' = IF pc[p] \in InQueue THEN waiting - 1 ELSE waiting
    BY <1>8, <2>1 DEF Cancel
  <2> HIDE DEF free
  <2> QED BY <1>5, <2>2, <2>3, <2>4, <2>5
<1>9. ASSUME NEW p \in Callers, NEW l \in {"running", "sleeping"}, pc[p] \in {"running", "sleeping"},
             pc' = [pc EXCEPT ![p] = l], UNCHANGED <<waiting, permits>>
      PROVE  /\ pc' \in [Callers -> Labels] /\ waiting' \in Nat /\ permits' \in Nat
             /\ SlotsAccounted'
  <2>1. /\ pc' \in [Callers -> Labels]
        /\ Cardinality(At(pc', InQueue)) = Cardinality(At(pc, InQueue))
        /\ Cardinality(At(pc', InFlight)) = Cardinality(At(pc, InFlight))
    <3>1. l \in Labels /\ {l, pc[p]} \subseteq InFlight \ InQueue
      BY <1>9 DEF Labels, Live, InQueue, InFlight
    <3>2. Moves(pc, pc', p, l)
      BY <1>1, <1>9, <3>1 DEF Moves
    <3> QED BY <3>1, <3>2, Stays DEF Moves
  <2>2. permits' > 0 => \/ \A q \in Callers : pc'[q] # "waiting"
                        \/ \E q \in Callers : pc'[q] = "granted"
    BY <1>1, <1>9
  <2> QED BY <1>1, <1>9, <2>1, <2>2, Balanced
<1>10. ASSUME NEW p \in Callers, Attempted(p) \/ Wakes(p)
       PROVE  /\ pc' \in [Callers -> Labels] /\ waiting' \in Nat /\ permits' \in Nat
              /\ SlotsAccounted'
  BY <1>7, <1>9, <1>10 DEF Attempted, Returns, Raises, TimesOut, Wakes, Ended
<1>11. CASE UNCHANGED gateVars
  BY <1>11, <1>1 DEF gateVars, IInv, SlotsAccounted, Queued, Holding
<1> QED BY <1>3, <1>4, <1>6, <1>8, <1>10, <1>11 DEF GateNext
---------------------------------------------------------------------------
\* The step takes the call p to l, and of the others only grants some a permit.
Takes(p, l) ==
  \A q \in Callers : \/ pc'[q] = (IF q = p THEN l ELSE pc[q])
                     \/ q # p /\ pc[q] = "waiting" /\ pc'[q] = "granted"

\* The circuit is told of a call that fails or returns, and of nothing else.
Told(l) == \/ l = "failed" /\ Failure
           \/ l = "returned" /\ Success
           \/ l \notin {"failed", "returned"} /\ UNCHANGED circuit

LEMMA StepTold ==
  ASSUME IInv, GateNext
  PROVE  \E p \in Callers, l \in Labels :
           Takes(p, l) /\ Told(l) /\ pc[p] \notin Ended
<1>1. pc \in [Callers -> Labels] /\ permits \in Nat
  BY DEF IInv
<1>2. ASSUME NEW p \in Callers, NEW l \in Labels, pc' = [pc EXCEPT ![p] = l]
      PROVE  Takes(p, l)
  BY <1>1, <1>2 DEF Takes
<1>3. ASSUME NEW p \in Callers, NEW l \in Labels, l # "waiting", NEW order, NEW free \in Nat,
             NEW most, Hand([pc EXCEPT ![p] = l], order, free, most)
      PROVE  Takes(p, l)
  BY <1>1, <1>3 DEF Hand, Takes
<1>4. Ended \cup {"running", "waiting", "sleeping"} \subseteq Labels
  BY DEF Labels, Live
<1>5. permits + 1 \in Nat
  BY <1>1
<1>6. ASSUME NEW p \in Callers, NEW l \in Ended, Finish(p, l) PROVE Takes(p, l)
  BY <1>3, <1>4, <1>5, <1>6 DEF Finish, Ended
<1>7. ASSUME NEW p \in Callers, Refused(p) \/ QueueFull(p) \/ EnterQueue(p) \/ Wakes(p)
      PROVE  \E l \in Labels : Takes(p, l) /\ Told(l) /\ pc[p] \notin Ended
  <2>1. CASE QueueFull(p)
    BY <1>2, <1>4, <2>1 DEF QueueFull, Told, Ended
  <2>2. CASE Refused(p) \/ EnterQueue(p) \/ Wakes(p)
    <3>1. PICK l \in {"ended", "running", "waiting"} : pc' = [pc EXCEPT ![p] = l]
      BY <2>2 DEF Refused, EnterQueue, Wakes
    <3>2. UNCHANGED circuit /\ pc[p] \notin Ended
      BY <2>2 DEF Refused, EnterQueue, Wakes, Ended
    <3> QED BY <1>2, <1>4, <3>1, <3>2 DEF Told, Ended
  <2> QED BY <1>7, <2>1, <2>2
<1>8. ASSUME NEW p \in Callers, Admitted(p) \/ Cancel(p)
      PROVE  \E l \in Labels : Takes(p, l) /\ Told(l) /\ pc[p] \notin Ended
  <2>1. UNCHANGED circuit /\ pc[p] \notin Ended
    BY <1>8 DEF Admitted, Cancel, Live, Ended
  <2>2. CASE Admitted(p)
    BY <1>1, <1>3, <1>4, <2>1, <2>2 DEF Admitted, Told
  <2>3. CASE Cancel(p)
    <3>1. Freed(p) \in Nat
      BY <1>1, <1>5 DEF Freed
    <3> QED BY <1>3, <1>4, <2>1, <2>3, <3>1 DEF Cancel, Told, Ended
  <2> QED BY <1>8, <2>2, <2>3
<1>9. ASSUME NEW p \in Callers, Attempted(p)
      PROVE  \E l \in Labels : Takes(p, l) /\ Told(l) /\ pc[p] \notin Ended
  <2>1. pc[p] \notin Ended
    BY <1>9 DEF Attempted, Returns, Raises, TimesOut, Ended
  <2>2. CASE Finish(p, "returned") /\ Success
    BY <1>4, <1>6, <2>1, <2>2 DEF Told, Ended
  <2>3. CASE Finish(p, "failed") /\ Failure
    BY <1>4, <1>6, <2>1, <2>3 DEF Told, Ended
  <2>4. CASE pc' = [pc EXCEPT ![p] = "sleeping"] /\ UNCHANGED circuit
    BY <1>2, <1>4, <2>1, <2>4 DEF Told
  <2> QED BY <1>9, <2>2, <2>3, <2>4 DEF Attempted, Returns, Raises, TimesOut
<1> QED BY <1>7, <1>8, <1>9 DEF GateNext

\* The history gains the call that fails, which was not in it, or is emptied.
LEMMA HistoryStep ==
  ASSUME IInv, GateNext, NEW p \in Callers, NEW l \in Labels, Takes(p, l), pc[p] \notin Ended
  PROVE  /\ recent' \in SUBSET {q \in Callers : pc'[q] = "failed"}
         /\ l = "failed" => recent' = recent \cup {p} /\ p \notin recent
         /\ l = "returned" => recent' = {}
         /\ l \notin {"failed", "returned"} => recent' = recent
<1>1. /\ recent \subseteq Callers /\ \A q \in recent : pc[q] = "failed"
      /\ pc[p] \notin {"returned", "failed"}
  BY DEF IInv, Ended
<1>2. \A q \in Callers : /\ pc[q] # "failed" /\ pc'[q] = "failed" <=> q = p /\ l = "failed"
                         /\ pc[q] # "returned" /\ pc'[q] = "returned" <=> q = p /\ l = "returned"
                         /\ pc[q] = "failed" => pc'[q] = "failed"
  BY <1>1 DEF Takes
<1>3. CASE l = "returned"
  BY <1>2, <1>3 DEF GateNext, Recount
<1>4. CASE l # "returned"
  <2>1. recent' = recent \cup {q \in Callers : q = p /\ l = "failed"}
    BY <1>2, <1>4 DEF GateNext, Recount
  <2> QED BY <1>1, <1>2, <1>4, <2>1
<1> QED BY <1>3, <1>4

LEMMA CircuitStep ==
  ASSUME IInv, [GateNext]_gateVars
  PROVE  /\ failures' \in Nat /\ is_open' \in BOOLEAN
         /\ recent' \in SUBSET {p \in Callers : pc'[p] = "failed"}
         /\ CircuitCounts'
<1>1. /\ failures \in Nat /\ is_open \in BOOLEAN /\ failures = Cardinality(recent)
      /\ is_open <=> failures >= FailureThreshold
      /\ FailureThreshold \in Nat \ {0}
  BY GateAssumption DEF IInv, CircuitCounts
<1>2. IsFiniteSet(recent)
  BY GateAssumption, FS_Subset DEF IInv
<1>3. CASE UNCHANGED gateVars
  BY <1>3 DEF gateVars, IInv, CircuitCounts
<1>4. CASE GateNext
  <2>1. PICK p \in Callers, l \in Labels : Takes(p, l) /\ Told(l) /\ pc[p] \notin Ended
    BY <1>4, StepTold
  <2>2. /\ recent' \in SUBSET {q \in Callers : pc'[q] = "failed"}
        /\ l = "failed" => recent' = recent \cup {p} /\ p \notin recent
        /\ l = "returned" => recent' = {}
        /\ l \notin {"failed", "returned"} => recent' = recent
    BY <1>4, <2>1, HistoryStep
  <2>3. CASE l = "failed" /\ Failure
    <3>1. Cardinality(recent') = failures + 1
      BY <1>1, <1>2, <2>2, <2>3, FS_AddElement
    <3>2. failures' = failures + 1 /\ is_open' = (is_open \/ failures + 1 >= FailureThreshold)
      BY <2>3 DEF Failure
    <3>3. failures >= FailureThreshold => failures + 1 >= FailureThreshold
      BY <1>1
    <3>4. is_open' <=> failures + 1 >= FailureThreshold
      BY <1>1, <3>2, <3>3, Zenon
    <3>5. failures' \in Nat
      BY <1>1, <3>2
    <3>6. is_open' \in BOOLEAN
      BY <3>2, Zenon
    <3> QED BY <2>2, <3>1, <3>2, <3>4, <3>5, <3>6 DEF CircuitCounts
  <2>4. CASE l = "returned" /\ Success
    <3>1. failures' = 0 /\ is_open' = FALSE /\ Cardinality(recent') = 0
      BY <2>2, <2>4, FS_EmptySet DEF Success
    <3>2. ~(0 >= FailureThreshold)
      BY <1>1
    <3>3. is_open' <=> Cardinality(recent') >= FailureThreshold
      BY <3>1, <3>2, Zenon
    <3> QED BY <2>2, <3>1, <3>3 DEF CircuitCounts
  <2>5. CASE l \notin {"failed", "returned"} /\ UNCHANGED circuit
    BY <1>1, <2>2, <2>5 DEF circuit, CircuitCounts
  <2> QED BY <2>1, <2>3, <2>4, <2>5 DEF Told
<1> QED BY <1>3, <1>4

\* Leaving the queue shortens it by one place.
LEMMA WithoutSeq ==
  ASSUME NEW order \in Seq(Callers), NEW p
  PROVE  Without(order, p) \in Seq(Callers)
<1>1. CASE \A i \in DOMAIN order : order[i] # p
  BY <1>1 DEF Without
<1>2. CASE \E i \in DOMAIN order : order[i] = p
  <2> DEFINE place == CHOOSE i \in DOMAIN order : order[i] = p
             rest == [i \in 1 .. Len(order) - 1 |-> IF i < place THEN order[i] ELSE order[i + 1]]
  <2>1. Len(order) \in Nat /\ DOMAIN order = 1 .. Len(order) /\ Len(order) > 0
    BY <1>2
  <2>2. \A i \in DOMAIN order : order[i] \in Callers
    OBVIOUS
  <2>3. rest \in [1 .. Len(order) - 1 -> Callers]
    <3> HIDE DEF place
    <3> QED BY <2>1, <2>2
  <2>4. Len(order) - 1 \in Nat
    BY <2>1
  <2>5. rest \in Seq(Callers)
    <3> HIDE DEF rest
    <3> QED BY <2>3, <2>4
  <2> QED BY <1>2, <2>5 DEF Without
<1> QED BY <1>1, <1>2

\* Only a pause that another attempt follows is taken.
LEMMA AttemptStep ==
  ASSUME IInv, [GateNext]_gateVars
  PROVE  /\ attempt' \in [Callers -> 0 .. MaxRetries]
         /\ \A p \in Callers : pc'[p] = "sleeping" => attempt'[p] < MaxRetries
         /\ queue' \in Seq(Callers)
<1> DEFINE Good == /\ attempt' \in [Callers -> 0 .. MaxRetries]
                   /\ \A p \in Callers : pc'[p] = "sleeping" => attempt'[p] < MaxRetries
                   /\ queue' \in Seq(Callers)
<1>1. /\ pc \in [Callers -> Labels] /\ attempt \in [Callers -> 0 .. MaxRetries] /\ MaxRetries \in Nat
      /\ queue \in Seq(Callers) /\ \A p \in Callers : pc[p] = "sleeping" => attempt[p] < MaxRetries
  BY GateAssumption DEF IInv
<1>2. ASSUME NEW p \in Callers, NEW l, l # "sleeping", pc' = [pc EXCEPT ![p] = l],
             attempt' = attempt, queue' \in {queue, Append(queue, p)}
      PROVE  Good
  <2>1. Append(queue, p) \in Seq(Callers)
    BY <1>1
  <2> QED BY <1>1, <1>2, <2>1
<1>3. ASSUME NEW p \in Callers, NEW l, l # "sleeping", NEW order \in Seq(Callers), NEW free,
             NEW most, Hand([pc EXCEPT ![p] = l], order, free, most),
             attempt' \in {attempt, [attempt EXCEPT ![p] = 0]}
      PROVE  Good
  <2>1. PICK granted \in SUBSET Callers :
          /\ pc' = [q \in Callers |-> IF q \in granted THEN "granted" ELSE [pc EXCEPT ![p] = l][q]]
          /\ queue' = order
    BY <1>3 DEF Hand
  <2>2. \A q \in Callers : pc'[q] = "sleeping" => q # p /\ pc[q] = "sleeping"
    BY <1>1, <1>3, <2>1
  <2> QED BY <1>1, <1>3, <2>1, <2>2
<1>5. ASSUME NEW p \in Callers, Refused(p) \/ QueueFull(p) \/ EnterQueue(p) PROVE Good
  <2>1. PICK l \in {"ended", "failed", "running", "waiting"} : pc' = [pc EXCEPT ![p] = l]
    BY <1>5 DEF Refused, QueueFull, EnterQueue
  <2>2. attempt' = attempt /\ queue' \in {queue, Append(queue, p)}
    BY <1>5 DEF Refused, QueueFull, EnterQueue
  <2> QED BY <1>2, <2>1, <2>2
<1>6. ASSUME NEW p \in Callers, Admitted(p) \/ Cancel(p) PROVE Good
  <2>1. Without(queue, p) \in Seq(Callers)
    BY <1>1, WithoutSeq
  <2>2. CASE Admitted(p)
    BY <1>3, <2>1, <2>2 DEF Admitted
  <2>3. CASE Cancel(p)
    BY <1>3, <2>1, <2>3 DEF Cancel
  <2> QED BY <1>6, <2>2, <2>3
<1>7. ASSUME NEW p \in Callers, NEW l \in Ended, Finish(p, l) PROVE Good
  <2>1. l # "sleeping"
    BY DEF Ended
  <2> QED BY <1>1, <1>3, <1>7, <2>1 DEF Finish
<1>8. ASSUME NEW p \in Callers, Attempted(p) PROVE Good
  <2>1. CASE Returns(p) \/ Raises(p)
    BY <1>7, <2>1 DEF Returns, Raises, Ended
  <2>2. CASE TimesOut(p)
    <3>1. CASE Finish(p, "failed")
      BY <1>7, <3>1 DEF Ended
    <3>2. CASE attempt[p] < MaxRetries /\ pc' = [pc EXCEPT ![p] = "sleeping"] /\ UNCHANGED <<attempt, queue>>
      BY <1>1, <3>2
    <3> QED BY <2>2, <3>1, <3>2 DEF TimesOut
  <2> QED BY <1>8, <2>1, <2>2 DEF Attempted
<1>9. ASSUME NEW p \in Callers, Wakes(p) PROVE Good
  <2>1. /\ pc[p] = "sleeping" /\ pc' = [pc EXCEPT ![p] = "running"]
        /\ attempt' = [attempt EXCEPT ![p] = @ + 1] /\ queue' = queue
    BY <1>9 DEF Wakes
  <2>2. attempt[p] + 1 \in 0 .. MaxRetries
    BY <1>1, <2>1
  <2> QED BY <1>1, <2>1, <2>2
<1>10. CASE UNCHANGED gateVars
  BY <1>1, <1>10 DEF gateVars
<1> QED BY <1>5, <1>6, <1>8, <1>9, <1>10 DEF GateNext

LEMMA IInvInvariant == GateSpec => []IInv
<1>1. GateInit => IInv
  <2> SUFFICES ASSUME GateInit PROVE IInv
    OBVIOUS
  <2>1. \A S : "idle" \notin S => At(pc, S) = {}
    BY DEF GateInit, At
  <2>2. At(pc, InQueue) = {} /\ At(pc, InFlight) = {}
    BY <2>1 DEF InQueue, InFlight
  <2>3. SlotsAccounted
    BY <2>2, Names, FS_EmptySet, GateAssumption DEF GateInit, SlotsAccounted
  <2>4. CircuitCounts
    <3>1. failures = 0 /\ is_open = FALSE /\ recent = {} /\ ~(0 >= FailureThreshold)
      BY GateAssumption DEF GateInit
    <3>2. Cardinality(recent) = 0
      BY <3>1, FS_EmptySet
    <3>3. is_open <=> Cardinality(recent) >= FailureThreshold
      BY <3>1, <3>2, Zenon
    <3> QED BY <3>1, <3>2, <3>3 DEF CircuitCounts
  <2>5. queue \in Seq(Callers) /\ attempt \in [Callers -> 0 .. MaxRetries]
    BY GateAssumption DEF GateInit
  <2> QED BY <2>3, <2>4, <2>5, GateAssumption DEF GateInit, IInv, Labels
<1>2. IInv /\ [GateNext]_gateVars => IInv'
  BY Balance, CircuitStep, AttemptStep DEF IInv
<1> QED BY <1>1, <1>2, PTL DEF GateSpec

(* The state's types: no call makes more attempts than it may, and no more  *)
(* permits are free than there are (gatekeeper.py:44-59).                   *)
THEOREM GateTypeCorrect == GateSpec => []GateTypeOK
<1>1. IInv => GateTypeOK
  <2> SUFFICES ASSUME IInv PROVE GateTypeOK
    OBVIOUS
  <2>1. Cardinality(Holding) \in Nat
    BY AtFinite, Names
  <2>2. permits \in 0 .. Concurrency
    BY <2>1, GateAssumption DEF IInv, SlotsAccounted
  <2> QED BY <2>2 DEF IInv, GateTypeOK, Labels
<1> QED BY <1>1, IInvInvariant, PTL

(* Whatever calls do, the queue counter is exact, permits are conserved and *)
(* none lies idle while a call waits, for any limits and number of callers. *)
THEOREM SlotsAccountedHolds == GateSpec => []SlotsAccounted
<1>1. IInv => SlotsAccounted
  BY DEF IInv
<1> QED BY <1>1, IInvInvariant, PTL

(* The breaker's count is that of the calls which have failed since one last *)
(* returned, and the circuit is open exactly when they reach the threshold.  *)
THEOREM CircuitCountsHolds == GateSpec => []CircuitCounts
<1>1. IInv => CircuitCounts
  BY DEF IInv
<1> QED BY <1>1, IInvInvariant, PTL
---------------------------------------------------------------------------
(* The deadlines of one subgame.                                            *)

Stages == Calls \cup Waits \cup Work \cup Ends
Final  == {"audit", "see_audit", "result", "see_result", "done"}

\* The stages a peer passes in a turn; the Thief's last turn ends with its reveal.
Place(r, s, t) ==
  /\ r = Thief /\ s \in {"see_commit", "see_reveal"} => t < Turns
  /\ r = Police => s \notin {"dump", "replace"}
  /\ r = Police /\ s \in {"think", "commit", "reveal"} => t < Turns
  /\ s \in Final => t = Turns

\* A clock is stopped when its stage has taken the longest time it may.
ClockIn(r) ==
  /\ stage[r] = "think" => timer[r] <= Think
  /\ stage[r] \in Calls => timer[r] <= IF paused[r] THEN RetryDelay ELSE Timeout
  /\ stage[r] \in Waits => timer[r] <= Timeout
  /\ stage[r] \in {"dump", "replace"} \cup Ends => timer[r] = 0
  /\ paused[r] => stage[r] \in Calls /\ failed[r] > 0

Peers == /\ stage \in [Roles -> Stages] /\ turn \in [Roles -> 1 .. Turns]
         /\ timer \in [Roles -> Nat] /\ failed \in [Roles -> 0 .. Retries]
         /\ paused \in [Roles -> BOOLEAN] /\ answered \in [Roles -> BOOLEAN]
         /\ sent \in [Roles -> SUBSET Messages]
         /\ \A r \in Roles : Place(r, stage[r], turn[r]) /\ ClockIn(r)

\* What a step of the other peer leaves alone.
Kept(q) == /\ stage'[q] = stage[q] /\ turn'[q] = turn[q] /\ timer'[q] = timer[q]
           /\ failed'[q] = failed[q] /\ paused'[q] = paused[q]
           /\ answered'[q] = answered[q] /\ sent'[q] = sent[q]

LEMMA TwoPeers ==
  ASSUME NEW r \in Roles
  PROVE  /\ Opponent(r) \in Roles /\ Opponent(r) # r /\ Opponent(Opponent(r)) = r
         /\ \A q \in Roles : q = r \/ q = Opponent(r)
BY DEF Roles, Opponent, Thief, Police

LEMMA TheRoles ==
  /\ Thief \in Roles /\ Police \in Roles /\ Thief # Police
  /\ Opponent(Thief) = Police /\ Opponent(Police) = Thief
BY DEF Roles, Opponent, Thief, Police

LEMMA Entered ==
  ASSUME Peers, NEW r \in Roles, NEW s, NEW t, Enter(r, s, t)
  PROVE  /\ stage'[r] = s /\ turn'[r] = t /\ timer'[r] = 0
         /\ failed'[r] = 0 /\ paused'[r] = FALSE /\ answered'[r] = FALSE
         /\ sent'[r] = IF s \in Calls THEN sent[r] \cup {<<s, t>>} ELSE sent[r]
         /\ Kept(Opponent(r))
         /\ s \in Stages /\ t \in 1 .. Turns /\ Place(r, s, t) => Peers'
<1>1. /\ stage'[r] = s /\ turn'[r] = t /\ timer'[r] = 0
      /\ failed'[r] = 0 /\ paused'[r] = FALSE /\ answered'[r] = FALSE
      /\ sent'[r] = IF s \in Calls THEN sent[r] \cup {<<s, t>>} ELSE sent[r]
      /\ Kept(Opponent(r))
  BY TwoPeers DEF Peers, Enter, Kept
<1>2. ASSUME s \in Stages, t \in 1 .. Turns, Place(r, s, t)
      PROVE  Peers'
  <2>1. /\ stage' \in [Roles -> Stages] /\ turn' \in [Roles -> 1 .. Turns]
        /\ timer' \in [Roles -> Nat] /\ failed' \in [Roles -> 0 .. Retries]
        /\ paused' \in [Roles -> BOOLEAN] /\ answered' \in [Roles -> BOOLEAN]
    BY <1>2, DeadlineAssumption DEF Peers, Enter
  <2>4. sent' \in [Roles -> SUBSET Messages]
    <3>1. s \in Calls => <<s, t>> \in Messages
      BY <1>2 DEF Messages
    <3> QED BY <3>1 DEF Peers, Enter
  <2>2. Place(r, stage'[r], turn'[r]) /\ ClockIn(r)'
    BY <1>1, <1>2, DeadlineAssumption DEF ClockIn
  <2>3. Place(Opponent(r), stage'[Opponent(r)], turn'[Opponent(r)]) /\ ClockIn(Opponent(r))'
    BY <1>1, TwoPeers DEF Peers, Kept, ClockIn
  <2> QED BY <2>1, <2>2, <2>3, <2>4, TwoPeers DEF Peers
<1> QED BY <1>1, <1>2

LEMMA ThiefEntered ==
  ASSUME Peers, NEW s, NEW t, Enter(Thief, s, t)
  PROVE  /\ stage'[Thief] = s /\ turn'[Thief] = t /\ timer'[Thief] = 0
         /\ failed'[Thief] = 0 /\ paused'[Thief] = FALSE /\ answered'[Thief] = FALSE
         /\ sent'[Thief] = IF s \in Calls THEN sent[Thief] \cup {<<s, t>>} ELSE sent[Thief]
         /\ Kept(Police)
BY Entered, TheRoles

LEMMA PoliceEntered ==
  ASSUME Peers, NEW s, NEW t, Enter(Police, s, t)
  PROVE  /\ stage'[Police] = s /\ turn'[Police] = t /\ timer'[Police] = 0
         /\ failed'[Police] = 0 /\ paused'[Police] = FALSE /\ answered'[Police] = FALSE
         /\ sent'[Police] = IF s \in Calls THEN sent[Police] \cup {<<s, t>>} ELSE sent[Police]
         /\ Kept(Thief)
BY Entered, TheRoles

\* What follows a call or a wait has its place.
LEMMA CallPlace ==
  ASSUME Peers, NEW r \in Roles, stage[r] \in Calls, AfterCall(r)
  PROVE  Peers'
<1>1. PICK s, t : Enter(r, s, t) /\ s \in Stages /\ t \in 1 .. Turns /\ Place(r, s, t)
  <2>1. Place(r, stage[r], turn[r]) /\ turn[r] \in 1 .. Turns /\ r \in {Thief, Police}
    BY DEF Peers, Roles
  <2>2. CASE stage[r] = "commit"
    BY <2>1, <2>2 DEF AfterCall, Place, Stages, Calls, Final
  <2>3. CASE stage[r] = "reveal"
    BY <2>1, <2>3, TheRoles, DeadlineAssumption DEF AfterCall, Place, Stages, Calls, Waits, Final
  <2>4. CASE stage[r] = "audit"
    BY <2>1, <2>4 DEF AfterCall, Place, Stages, Waits, Final
  <2>5. CASE stage[r] = "result"
    BY <2>1, <2>5 DEF AfterCall, Place, Stages, Waits, Final
  <2> QED BY <2>2, <2>3, <2>4, <2>5 DEF Calls
<1> QED BY <1>1, Entered

LEMMA WaitPlace ==
  ASSUME Peers, NEW r \in Roles, stage[r] \in Waits, AfterWait(r)
  PROVE  Peers'
<1>1. PICK s, t : Enter(r, s, t) /\ s \in Stages /\ t \in 1 .. Turns /\ Place(r, s, t)
  <2>1. Place(r, stage[r], turn[r]) /\ turn[r] \in 1 .. Turns /\ r \in {Thief, Police}
    BY DEF Peers, Roles
  <2>2. CASE stage[r] = "see_commit"
    BY <2>1, <2>2 DEF AfterWait, Place, Stages, Waits, Final
  <2>3. CASE stage[r] = "see_reveal"
    BY <2>1, <2>3, TheRoles, DeadlineAssumption
       DEF AfterWait, StartTurn, Place, Stages, Calls, Work, Ends, Final
  <2>4. CASE stage[r] = "see_audit"
    BY <2>1, <2>4 DEF AfterWait, Place, Stages, Calls, Final
  <2>5. CASE stage[r] = "see_result"
    BY <2>1, <2>5 DEF AfterWait, Place, Stages, Ends, Final
  <2> QED BY <2>2, <2>3, <2>4, <2>5 DEF Waits
<1> QED BY <1>1, Entered
---------------------------------------------------------------------------
Rest == /\ idle \in Nat /\ alone \in Nat /\ spoiled \in BOOLEAN
        /\ handled \in [Roles -> SUBSET Messages]
        /\ disk \in [path : 0 .. Turns, temp : {"none", "part", "whole"}]

\* What is on its way of a peer's calls: one answer, to the attempt it makes, and
\* one request, which was the last that it sent.
Flying(r) ==
  /\ answered[r] => Calling(r) /\ Request(r) \in handled[r]
  /\ stage[r] \notin {"lost", "crashed"} => sent[r] \ handled[r] \subseteq {Request(r)}
  /\ \E m : sent[r] \ handled[r] \subseteq {m}

Network == \A r \in Roles : Flying(r)

Typed == Peers /\ Rest /\ Network

LEMMA TypedTypeOK == Typed => TypeOK
<1> SUFFICES ASSUME Typed PROVE TypeOK
  OBVIOUS
<1>1. ASSUME NEW r \in Roles PROVE timer[r] \in 0 .. (Timeout + RetryDelay + Think)
  <2>1. timer[r] \in Nat /\ stage[r] \in Stages /\ ClockIn(r)
    BY DEF Typed, Peers
  <2>2. timer[r] <= Think \/ timer[r] <= RetryDelay \/ timer[r] <= Timeout \/ timer[r] = 0
    BY <2>1 DEF ClockIn, Stages, Work
  <2> QED BY <2>1, <2>2, DeadlineAssumption
<1> QED BY <1>1 DEF Typed, Peers, Rest, TypeOK, Stages

LEMMA InitTyped == Init => Typed
<1> SUFFICES ASSUME Init PROVE Typed
  OBVIOUS
<1>1. /\ stage \in [Roles -> Stages] /\ turn \in [Roles -> 1 .. Turns]
      /\ timer \in [Roles -> Nat] /\ failed \in [Roles -> 0 .. Retries]
      /\ paused \in [Roles -> BOOLEAN] /\ answered \in [Roles -> BOOLEAN]
      /\ sent \in [Roles -> SUBSET Messages]
  <2>1. {"think", "see_commit"} \subseteq Stages /\ 1 \in 1 .. Turns /\ 0 \in 0 .. Retries
    BY DeadlineAssumption DEF Stages, Waits, Work
  <2>2. stage \in [Roles -> Stages] /\ turn \in [Roles -> 1 .. Turns]
    BY <2>1 DEF Init
  <2>3. timer \in [Roles -> Nat] /\ failed \in [Roles -> 0 .. Retries]
    BY <2>1 DEF Init
  <2>4. /\ paused \in [Roles -> BOOLEAN] /\ answered \in [Roles -> BOOLEAN]
        /\ sent \in [Roles -> SUBSET Messages]
    BY DEF Init
  <2> QED BY <2>2, <2>3, <2>4
<1>2. ASSUME NEW r \in Roles PROVE Place(r, stage[r], turn[r]) /\ ClockIn(r)
  BY <1>2, DeadlineAssumption, TheRoles DEF Init, Place, ClockIn, Calls, Waits, Ends, Final
<1>3. Rest
  <2>1. disk \in [path : 0 .. Turns, temp : {"none", "part", "whole"}]
    BY DeadlineAssumption DEF Init
  <2>2. handled \in [Roles -> SUBSET Messages]
    BY DEF Init
  <2>3. spoiled \in BOOLEAN
    BY DEF Init
  <2> QED BY <2>1, <2>2, <2>3 DEF Init, Rest
<1>4. Network
  BY DEF Init, Network, Flying
<1> QED BY <1>1, <1>2, <1>3, <1>4 DEF Typed, Peers

\* What a peer's own step may do to the two peers.
LEMMA PeersStep == ASSUME Peers, [Next]_vars PROVE Peers'
<1>1. CASE UNCHANGED vars
  BY <1>1 DEF vars, Peers, ClockIn
<1>2. ASSUME NEW r \in Roles, NEW s \in Stages, Enter(r, s, turn[r]), Place(r, s, turn[r])
      PROVE  Peers'
  BY <1>2, Entered DEF Peers
<1>3. CASE Dump \/ Synced \/ Replace \/ SaveFails
  <2>1. PICK s \in {"dump", "replace", "commit", "lost"} : Enter(Thief, s, turn[Thief])
    BY <1>3 DEF Dump, Synced, Replace, SaveFails
  <2>2. s \in Stages /\ Place(Thief, s, turn[Thief])
    BY <2>1, TheRoles DEF Place, Stages, Calls, Work, Ends, Final
  <2> QED BY <1>2, <2>1, <2>2, TheRoles
<1>4. CASE PoliceDecides
  <2>1. Enter(Police, "commit", turn[Police]) /\ turn[Police] < Turns
    BY <1>4, TheRoles DEF PoliceDecides, Peers, Place
  <2>2. "commit" \in Stages /\ Place(Police, "commit", turn[Police])
    BY <2>1, TheRoles DEF Place, Stages, Calls, Final
  <2> QED BY <1>2, <2>1, <2>2, TheRoles
<1>5. ASSUME NEW r \in Roles, Handle(r) \/ HandleLate(r) PROVE Peers'
  <2>1. UNCHANGED <<stage, turn, timer, failed, paused, sent>>
    BY <1>5 DEF Handle, HandleLate
  <2>2. answered' \in [Roles -> BOOLEAN]
    BY <1>5 DEF Handle, HandleLate, Peers
  <2> QED BY <2>1, <2>2 DEF Peers, ClockIn
<1>6. ASSUME NEW r \in Roles, Answered(r) PROVE Peers'
  BY <1>6, CallPlace DEF Answered, Calling
<1>7. ASSUME NEW r \in Roles, AttemptFails(r) PROVE Peers'
  <2>1. CASE failed[r] = Retries
    <3>1. "lost" \in Stages /\ Place(r, "lost", turn[r])
      BY DEF Stages, Ends, Place, Final
    <3> QED BY <1>2, <1>7, <2>1, <3>1 DEF AttemptFails
  <2>2. CASE failed[r] # Retries
    <3>1. /\ failed' = [failed EXCEPT ![r] = @ + 1] /\ paused' = [paused EXCEPT ![r] = TRUE]
          /\ timer' = [timer EXCEPT ![r] = 0] /\ answered' = [answered EXCEPT ![r] = FALSE]
          /\ stage[r] \in Calls /\ UNCHANGED <<stage, turn, sent>>
      BY <1>7, <2>2 DEF AttemptFails, Calling
    <3>2. /\ failed' \in [Roles -> 0 .. Retries] /\ timer' \in [Roles -> Nat]
          /\ paused' \in [Roles -> BOOLEAN] /\ answered' \in [Roles -> BOOLEAN]
      BY <2>2, <3>1, DeadlineAssumption DEF Peers
    <3>3. ClockIn(r)'
      BY <3>1, DeadlineAssumption DEF Peers, ClockIn, Calls, Waits, Ends
    <3>4. ClockIn(Opponent(r))'
      BY <3>1, TwoPeers DEF Peers, ClockIn
    <3> QED BY <3>1, <3>2, <3>3, <3>4, TwoPeers DEF Peers
  <2> QED BY <2>1, <2>2
<1>8. ASSUME NEW r \in Roles, Resume(r) PROVE Peers'
  <2>1. /\ paused' = [paused EXCEPT ![r] = FALSE] /\ timer' = [timer EXCEPT ![r] = 0]
        /\ stage[r] \in Calls /\ UNCHANGED <<stage, turn, failed, answered, sent>>
    BY <1>8 DEF Resume
  <2>2. timer' \in [Roles -> Nat] /\ paused' \in [Roles -> BOOLEAN]
    BY <2>1 DEF Peers
  <2>3. ClockIn(r)'
    BY <2>1, DeadlineAssumption DEF Peers, ClockIn, Calls, Waits, Ends
  <2>4. ClockIn(Opponent(r))'
    BY <2>1, TwoPeers DEF Peers, ClockIn
  <2> QED BY <2>1, <2>2, <2>3, <2>4, TwoPeers DEF Peers
<1>9. ASSUME NEW r \in Roles, See(r) PROVE Peers'
  BY <1>9, WaitPlace DEF See
<1>10. ASSUME NEW r \in Roles, Expire(r) \/ Crash(r) PROVE Peers'
  <2>1. PICK s \in {"lost", "crashed"} : Enter(r, s, turn[r])
    BY <1>10 DEF Expire, Crash
  <2>2. s \in Stages /\ Place(r, s, turn[r])
    BY <2>1 DEF Stages, Ends, Place, Final
  <2> QED BY <1>2, <2>1, <2>2
<1>11. CASE Tick
  <2>1. /\ timer' \in [Roles -> Nat] /\ UNCHANGED <<stage, turn, failed, paused, answered, sent>>
    BY <1>11 DEF Tick, Peers
  <2>2. ASSUME NEW r \in Roles PROVE ClockIn(r)'
    <3>1. CASE Up(r)
      <4>1. InTime(r) /\ timer'[r] = timer[r] + 1 /\ timer[r] \in Nat
        BY <1>11, <2>2, <3>1 DEF Tick, Peers
      <4>2. AttemptTime(r) <= Timeout
        BY DeadlineAssumption DEF AttemptTime
      <4>3. /\ stage[r] = "think" => timer[r] < Think
            /\ stage[r] \in Calls => timer[r] < IF paused[r] THEN RetryDelay ELSE Timeout
            /\ stage[r] \in Waits => timer[r] < Timeout
            /\ stage[r] \notin {"dump", "replace"} \cup Ends
        BY <4>1, <4>2, DeadlineAssumption DEF InTime, AttemptTime, Calling, Calls, Waits, Ends
      <4> QED BY <2>1, <4>1, <4>3, DeadlineAssumption, <2>2 DEF ClockIn, Peers
    <3>2. CASE ~Up(r)
      <4>1. timer'[r] = 0 /\ stage[r] \in Ends
        BY <1>11, <2>2, <3>2 DEF Tick, Up
      <4> QED BY <2>1, <2>2, <4>1 DEF ClockIn, Peers, Ends, Calls, Waits
    <3> QED BY <3>1, <3>2
  <2> QED BY <2>1, <2>2 DEF Peers
<1> QED BY <1>1, <1>3, <1>4, <1>5, <1>6, <1>7, <1>8, <1>9, <1>10, <1>11 DEF Next, PeerStep

LEMMA RestStep == ASSUME Peers, Rest, [Next]_vars PROVE Rest'
<1>1. CASE UNCHANGED vars
  BY <1>1 DEF vars, Rest
<1>2. CASE Dump \/ Synced \/ Replace \/ SaveFails \/ PoliceDecides
  <2>1. turn[Thief] \in 0 .. Turns
    BY TheRoles DEF Peers
  <2>2. disk' \in [path : 0 .. Turns, temp : {"none", "part", "whole"}]
    BY <1>2, <2>1 DEF Dump, Synced, Replace, SaveFails, PoliceDecides, Rest
  <2>3. spoiled' \in BOOLEAN
    BY <1>2 DEF Dump, Synced, Replace, SaveFails, PoliceDecides, Rest
  <2>4. handled' = handled /\ alone' = alone /\ idle' \in Nat
    BY <1>2 DEF Dump, Synced, Replace, SaveFails, PoliceDecides, Rest
  <2> QED BY <2>2, <2>3, <2>4 DEF Rest
<1>3. ASSUME NEW r \in Roles, Handle(r) \/ HandleLate(r) PROVE Rest'
  <2>1. PICK m \in Messages : handled' = [handled EXCEPT ![r] = @ \cup {m}]
    <3>1. CASE Handle(r)
      <4>1. Request(r) \in Messages
        BY <3>1 DEF Handle, Calling, Request, Messages, Peers
      <4> QED BY <3>1, <4>1 DEF Handle
    <3>2. CASE HandleLate(r)
      BY <3>2 DEF HandleLate, Peers
    <3> QED BY <1>3, <3>1, <3>2
  <2>2. handled' \in [Roles -> SUBSET Messages]
    BY <2>1 DEF Rest
  <2> QED BY <1>3, <2>2 DEF Handle, HandleLate, Rest
<1>4. ASSUME NEW r \in Roles, Answered(r) \/ AttemptFails(r) \/ Resume(r) \/ See(r) \/ Expire(r) \/ Crash(r)
      PROVE  Rest'
  BY <1>4 DEF Answered, AttemptFails, Resume, See, Expire, Crash, Rest
<1>5. CASE Tick
  BY <1>5 DEF Tick, Rest
<1> QED BY <1>1, <1>2, <1>3, <1>4, <1>5 DEF Next, PeerStep

\* A peer that goes on has had the answer to its call; one that gives up has not.
LEMMA FlyingEntered ==
  ASSUME Peers, Rest, NEW r \in Roles, Network, handled' = handled,
         NEW s, NEW t, Enter(r, s, t), stage[r] \notin {"lost", "crashed"},
         \/ s \in {"lost", "crashed"}
         \/ stage[r] \in Calls => Request(r) \in handled[r]
  PROVE  Network'
<1>1. /\ stage'[r] = s /\ turn'[r] = t /\ answered'[r] = FALSE
      /\ sent'[r] = IF s \in Calls THEN sent[r] \cup {<<s, t>>} ELSE sent[r]
      /\ Kept(Opponent(r))
  BY Entered
<1>2. Opponent(r) \in Roles /\ \A q \in Roles : q = r \/ q = Opponent(r)
  BY TwoPeers
<1>3. Flying(Opponent(r))'
  BY <1>1, <1>2 DEF Network, Flying, Kept, Calling, Request
<1>4. sent[r] \subseteq Messages /\ sent[r] \ handled[r] \subseteq {Request(r)}
  BY DEF Peers, Network, Flying
<1>5. CASE s \in {"lost", "crashed"}
  <2>1. sent'[r] = sent[r]
    BY <1>1, <1>5 DEF Calls
  <2> QED BY <1>1, <1>2, <1>3, <1>4, <1>5, <2>1 DEF Network, Flying
<1>6. CASE stage[r] \in Calls => Request(r) \in handled[r]
  <2>1. sent[r] \subseteq handled[r]
    BY <1>4, <1>6 DEF Request, Messages
  <2>2. sent'[r] \ handled'[r] \subseteq {<<s, t>>}
    BY <1>1, <2>1
  <2>3. Request(r)' = <<s, t>>
    BY <1>1 DEF Request
  <2>4. Flying(r)'
    BY <1>1, <2>2, <2>3 DEF Flying
  <2> QED BY <1>2, <1>3, <2>4 DEF Network
<1> QED BY <1>5, <1>6

LEMMA NetworkStep == ASSUME Peers, Rest, Network, [Next]_vars PROVE Network'
<1>1. CASE UNCHANGED vars \/ Tick
  BY <1>1 DEF vars, Tick, Network, Flying, Calling, Request
<1>2. CASE Dump \/ Synced \/ Replace \/ SaveFails
  <2>1. PICK s : Enter(Thief, s, turn[Thief])
    BY <1>2 DEF Dump, Synced, Replace, SaveFails
  <2>2. stage[Thief] \notin Calls \cup {"lost", "crashed"} /\ handled' = handled
    BY <1>2 DEF Dump, Synced, Replace, SaveFails, Calls
  <2> QED BY <2>1, <2>2, FlyingEntered, TheRoles
<1>3. CASE PoliceDecides
  <2>1. stage[Police] \notin Calls \cup {"lost", "crashed"} /\ handled' = handled
    BY <1>3 DEF PoliceDecides, Calls
  <2> QED BY <1>3, <2>1, FlyingEntered, TheRoles DEF PoliceDecides
<1>4. ASSUME NEW r \in Roles, Handle(r) \/ HandleLate(r) PROVE Network'
  <2>1. PICK m : /\ handled' = [handled EXCEPT ![r] = @ \cup {m}]
                 /\ Handle(r) => m = Request(r)
    BY <1>4 DEF Handle, HandleLate
  <2>2. /\ UNCHANGED <<stage, turn, paused, sent>>
        /\ answered' = answered \/ (Handle(r) /\ answered' = [answered EXCEPT ![r] = TRUE])
    BY <1>4 DEF Handle, HandleLate
  <2>3. handled'[r] = handled[r] \cup {m} /\ Opponent(r) \in Roles /\ Opponent(r) # r
    BY <2>1, TwoPeers DEF Rest
  <2>4. Flying(Opponent(r))'
    BY <2>1, <2>2, <2>3 DEF Network, Flying, Calling, Request, Peers, Rest
  <2>5. answered'[r] => Calling(r)' /\ Request(r)' \in handled'[r]
    BY <2>1, <2>2, <2>3 DEF Network, Flying, Handle, Calling, Request
  <2>6. Flying(r)'
    BY <2>2, <2>3, <2>5 DEF Network, Flying, Request
  <2> QED BY <2>4, <2>6, TwoPeers DEF Network
<1>5. ASSUME NEW r \in Roles, Answered(r) \/ See(r) PROVE Network'
  <2>1. /\ handled' = handled /\ stage[r] \notin {"lost", "crashed"}
        /\ stage[r] \in Calls => Request(r) \in handled[r]
    BY <1>5 DEF Answered, See, Calling, Calls, Waits, Network, Flying
  <2>2. PICK s, t : Enter(r, s, t)
    BY <1>5 DEF Answered, See, AfterCall, AfterWait, StartTurn
  <2> QED BY <2>1, <2>2, FlyingEntered
<1>6. ASSUME NEW r \in Roles, Expire(r) \/ Crash(r) \/ (AttemptFails(r) /\ failed[r] = Retries)
      PROVE  Network'
  <2>1. handled' = handled /\ stage[r] \notin {"lost", "crashed"}
    BY <1>6 DEF Expire, Crash, AttemptFails, Calling, Calls, Waits, Up, Ends
  <2>2. PICK s \in {"lost", "crashed"} : Enter(r, s, turn[r])
    BY <1>6 DEF Expire, Crash, AttemptFails
  <2> QED BY <2>1, <2>2, FlyingEntered
<1>7. ASSUME NEW r \in Roles, Resume(r) \/ (AttemptFails(r) /\ failed[r] # Retries)
      PROVE  Network'
  <2>1. UNCHANGED <<stage, turn, sent, handled>> /\ ~answered'[r]
    BY <1>7 DEF Resume, AttemptFails, Peers, Network, Flying, Calling
  <2>2. /\ answered'[Opponent(r)] = answered[Opponent(r)]
        /\ paused'[Opponent(r)] = paused[Opponent(r)]
    BY <1>7, TwoPeers DEF Resume, AttemptFails, Peers
  <2>3. Flying(r)'
    BY <2>1 DEF Network, Flying, Request
  <2>4. Flying(Opponent(r))'
    BY <2>1, <2>2, TwoPeers DEF Network, Flying, Calling, Request
  <2> QED BY <2>3, <2>4, TwoPeers DEF Network
<1> QED BY <1>1, <1>2, <1>3, <1>4, <1>5, <1>6, <1>7 DEF Next, PeerStep

LEMMA TypedStep == ASSUME Typed, [Next]_vars PROVE Typed'
BY PeersStep, RestStep, NetworkStep DEF Typed

LEMMA TypedHolds == Spec => []Typed
BY InitTyped, TypedStep, PTL DEF Spec

(* The state's types, and that no clock runs past the limits: every stage    *)
(* ends, or time stops for it, before its limit is exceeded.                 *)
THEOREM DeadlinesTypeCorrect == Spec => []TypeOK
BY TypedHolds, TypedTypeOK, PTL
---------------------------------------------------------------------------
\* While the turn is chosen and saved the checkpoint is a turn behind.
Saved ==
  /\ stage[Thief] \in Work => disk.path = turn[Thief] - 1
  /\ stage[Thief] \in Calls \cup Waits \cup {"done"} => disk.path = turn[Thief]
  /\ \A k \in 1 .. Turns :
       <<"commit", k>> \in handled[Thief] \cup sent[Thief] => disk.path >= k
  /\ disk.temp # "none" => stage[Thief] \in {"dump", "replace", "crashed"}

\* A peer that goes on after a call or a wait stays in its turn, or starts the next.
Onward(r, s, t) ==
  /\ stage[r] \in Calls \cup Waits
  /\ \/ s \in Calls \cup Waits \cup {"done"} /\ (r = Thief => t = turn[r])
     \/ s \in {"think", "lost"} /\ stage[r] = "see_reveal" /\ (r = Thief => t = turn[r] + 1)

LEMMA GoesOn ==
  ASSUME Peers, NEW r \in Roles, Answered(r) \/ See(r)
  PROVE  /\ Onward(r, stage'[r], turn'[r])
         /\ sent'[r] \subseteq sent[r] \cup {<<stage'[r], turn'[r]>>}
         /\ stage'[r] \notin Calls => sent'[r] = sent[r]
         /\ Kept(Opponent(r))
         /\ UNCHANGED <<idle, handled, disk, spoiled, alone>>
<1>1. /\ UNCHANGED <<idle, handled, disk, spoiled, alone>>
      /\ \/ stage[r] \in Calls /\ AfterCall(r)
         \/ stage[r] \in Waits /\ AfterWait(r)
  BY DEF Answered, See, Calling
<1>2. ASSUME stage[r] \in Calls, AfterCall(r)
      PROVE  \E s, t : Enter(r, s, t) /\ Onward(r, s, t)
  BY <1>2, TheRoles DEF AfterCall, Onward, Calls, Waits
<1>3. ASSUME stage[r] \in Waits, AfterWait(r)
      PROVE  \E s, t : Enter(r, s, t) /\ Onward(r, s, t)
  BY <1>3, TheRoles DEF AfterWait, StartTurn, Onward, Calls, Waits
<1>4. PICK s, t : Enter(r, s, t) /\ Onward(r, s, t)
  BY <1>1, <1>2, <1>3
<1>5. /\ stage'[r] = s /\ turn'[r] = t /\ Kept(Opponent(r))
      /\ sent'[r] = IF s \in Calls THEN sent[r] \cup {<<s, t>>} ELSE sent[r]
  BY <1>4, Entered
<1> QED BY <1>1, <1>4, <1>5

LEMMA SavedStep == ASSUME Typed, Saved, [Next]_vars PROVE Saved'
<1>1. /\ Peers /\ turn[Thief] \in 1 .. Turns /\ stage[Thief] \in Stages
      /\ disk \in [path : 0 .. Turns, temp : {"none", "part", "whole"}]
      /\ handled[Thief] \subseteq Messages /\ sent[Thief] \subseteq Messages
  BY TheRoles DEF Typed, Peers, Rest
<1>2. /\ Work \cap (Calls \cup Waits \cup Ends) = {}
      /\ {"dump", "replace", "crashed"} \cap (Calls \cup Waits \cup {"think", "lost", "done"}) = {}
      /\ {"lost", "crashed"} \cap (Calls \cup Waits \cup {"done"}) = {}
  BY DEF Work, Calls, Waits, Ends
<1>3. ASSUME UNCHANGED disk, UNCHANGED handled[Thief],
             UNCHANGED stage[Thief], UNCHANGED turn[Thief], UNCHANGED sent[Thief]
      PROVE  Saved'
  BY <1>3 DEF Saved
<1>4. CASE UNCHANGED vars \/ Tick \/ PoliceDecides
  <2>1. UNCHANGED stage[Thief] /\ UNCHANGED turn[Thief] /\ UNCHANGED sent[Thief]
    BY <1>1, <1>4, PoliceEntered DEF vars, Tick, PoliceDecides, Kept
  <2> QED BY <1>3, <1>4, <2>1 DEF vars, Tick, PoliceDecides
<1>5. CASE Dump \/ Synced
  <2>1. /\ stage'[Thief] \in {"dump", "replace"} /\ turn'[Thief] = turn[Thief]
        /\ stage[Thief] \in Work /\ handled' = handled /\ sent'[Thief] = sent[Thief]
    <3>1. PICK s \in {"dump", "replace"} : Enter(Thief, s, turn[Thief]) /\ s \notin Calls
      BY <1>5 DEF Dump, Synced, Calls
    <3>2. stage[Thief] \in Work /\ handled' = handled
      BY <1>5 DEF Dump, Synced, Work
    <3> QED BY <1>1, <3>1, <3>2, ThiefEntered
  <2>2. disk'.path = disk.path
    BY <1>1, <1>5 DEF Dump, Synced
  <2> QED BY <1>2, <2>1, <2>2 DEF Saved, Work
<1>6. CASE Replace
  <2>1. /\ stage'[Thief] = "commit" /\ turn'[Thief] = turn[Thief]
        /\ stage[Thief] \in Work /\ handled' = handled
        /\ sent'[Thief] = sent[Thief] \cup {<<"commit", turn[Thief]>>}
        /\ disk' = [path |-> turn[Thief], temp |-> "none"]
    BY <1>1, <1>6, ThiefEntered DEF Replace, Work, Calls
  <2>2. disk'.path = turn[Thief] /\ disk'.temp = "none" /\ disk.path <= turn[Thief]
    BY <1>1, <2>1 DEF Saved
  <2> QED BY <1>1, <1>2, <2>1, <2>2 DEF Saved, Calls
<1>7. CASE SaveFails
  <2>1. stage'[Thief] = "lost" /\ handled' = handled /\ sent'[Thief] = sent[Thief]
    <3>1. Enter(Thief, "lost", turn[Thief]) /\ "lost" \notin Calls /\ handled' = handled
      BY <1>7 DEF SaveFails, Calls
    <3> QED BY <1>1, <3>1, ThiefEntered
  <2>2. disk'.path = disk.path /\ disk'.temp = "none"
    BY <1>1, <1>7 DEF SaveFails
  <2> QED BY <1>2, <2>1, <2>2 DEF Saved, Work
<1>8. ASSUME NEW r \in Roles, Handle(r) \/ HandleLate(r) PROVE Saved'
  <2>1. UNCHANGED <<stage, turn, disk, sent>>
    BY <1>8 DEF Handle, HandleLate
  <2>2. PICK m : /\ handled' = [handled EXCEPT ![r] = @ \cup {m}]
                 /\ m \in sent[r] \/ (m = Request(r) /\ stage[r] \in Calls)
    BY <1>8 DEF Handle, HandleLate, Calling
  <2>3. CASE r = Thief
    <3>1. handled'[Thief] = handled[Thief] \cup {m}
      BY <2>2, <2>3, TheRoles DEF Typed, Rest
    <3>2. ASSUME NEW k \in 1 .. Turns, m = <<"commit", k>> PROVE disk.path >= k
      BY <1>1, <2>2, <2>3, <3>2 DEF Saved, Request
    <3> QED BY <2>1, <3>1, <3>2 DEF Saved
  <2>4. CASE r # Thief
    BY <1>3, <2>1, <2>2, <2>4, TheRoles DEF Typed, Rest
  <2> QED BY <2>3, <2>4
<1>9. ASSUME NEW r \in Roles, Answered(r) \/ See(r) PROVE Saved'
  <2>1. CASE r = Thief
    <3>1. /\ Onward(Thief, stage'[Thief], turn'[Thief]) /\ UNCHANGED <<disk, handled>>
          /\ sent'[Thief] \subseteq sent[Thief] \cup {<<stage'[Thief], turn'[Thief]>>}
          /\ stage'[Thief] \notin Calls => sent'[Thief] = sent[Thief]
      BY <1>1, <1>9, <2>1, GoesOn
    <3>2. disk.path = turn[Thief] /\ disk.temp = "none"
      BY <1>2, <3>1 DEF Saved, Onward
    <3>3. CASE stage'[Thief] \in {"think", "lost"}
      <4>1. turn'[Thief] = turn[Thief] + 1 /\ stage'[Thief] \notin Calls \cup Waits \cup {"done"}
        BY <3>1, <3>3 DEF Onward, Calls, Waits
      <4> QED BY <1>1, <3>1, <3>2, <4>1 DEF Saved
    <3>4. CASE stage'[Thief] \notin {"think", "lost"}
      <4>1. turn'[Thief] = turn[Thief] /\ stage'[Thief] \notin Work
        BY <1>2, <3>1, <3>4 DEF Onward, Work, Calls, Waits
      <4> QED BY <1>1, <3>1, <3>2, <4>1 DEF Saved
    <3> QED BY <3>3, <3>4
  <2>2. CASE r # Thief
    <3>1. r = Police
      BY <2>2, TwoPeers, TheRoles DEF Roles
    <3> QED BY <1>1, <1>3, <1>9, <3>1, GoesOn, TheRoles DEF Kept
  <2> QED BY <2>1, <2>2
<1>10. ASSUME NEW r \in Roles, AttemptFails(r) \/ Resume(r) \/ Expire(r) \/ Crash(r)
       PROVE  Saved'
  <2>1. UNCHANGED <<disk, handled>>
    BY <1>10 DEF AttemptFails, Resume, Expire, Crash
  <2>2. ASSUME NEW s \in {"lost", "crashed"}, Enter(r, s, turn[r]),
               s = "lost" => stage[r] \in Calls \cup Waits
        PROVE  Saved'
    <3>1. CASE r = Thief
      <4>1. /\ stage'[Thief] = s /\ stage'[Thief] \notin Work \cup Calls \cup Waits \cup {"done"}
            /\ sent'[Thief] = sent[Thief]
        BY <1>1, <1>2, <2>2, <3>1, ThiefEntered DEF Work
      <4>2. s = "lost" => disk.temp = "none"
        BY <1>2, <2>2, <3>1 DEF Saved
      <4> QED BY <2>1, <2>2, <4>1, <4>2 DEF Saved
    <3>2. CASE r = Police
      BY <1>1, <1>3, <2>1, <2>2, <3>2, PoliceEntered DEF Kept
    <3> QED BY <3>1, <3>2, TwoPeers, TheRoles DEF Roles
  <2>3. CASE UNCHANGED <<stage, turn, sent>>
    BY <1>3, <2>1, <2>3
  <2> QED BY <1>10, <2>2, <2>3 DEF AttemptFails, Resume, Expire, Crash, Calling
<1> QED BY <1>4, <1>5, <1>6, <1>7, <1>8, <1>9, <1>10 DEF Next, PeerStep

(* Whenever the Thief's process ends, the checkpoint is the turn it last    *)
(* published or a later one, for limits of any length.                      *)
THEOREM CheckpointSoundHolds == Spec => []CheckpointSound
<1>1. Init => Saved
  BY TheRoles, DeadlineAssumption DEF Init, Saved, Work, Calls, Waits
<1>2. Saved => CheckpointSound
  BY DEF Saved, CheckpointSound
<1> QED BY <1>1, <1>2, SavedStep, TypedHolds, PTL DEF Spec
---------------------------------------------------------------------------
\* A step is time, or one peer's.
Own(r) == \/ PeerStep(r) \/ Crash(r)
          \/ r = Thief /\ (Dump \/ Synced \/ Replace \/ SaveFails)
          \/ r = Police /\ PoliceDecides

LEMMA NextIsOwn == Next => Tick \/ \E r \in Roles : Own(r)
BY TheRoles DEF Next, Own

LEMMA OwnKeeps ==
  ASSUME Typed, NEW r \in Roles, Own(r)
  PROVE  /\ Kept(Opponent(r)) /\ alone' = alone
         /\ handled'[Opponent(r)] = handled[Opponent(r)]
         /\ \/ HandleLate(r)
            \/ stage[r] \notin Ends /\ (stage'[r] = "crashed" => Crash(r))
<1>1. Peers /\ Opponent(r) \in Roles /\ handled \in [Roles -> SUBSET Messages]
  BY TwoPeers DEF Typed, Rest
<1>2. ASSUME NEW s, NEW t, Enter(r, s, t) PROVE Kept(Opponent(r)) /\ stage'[r] = s
  BY <1>1, <1>2, Entered
<1>3. CASE r = Thief /\ (Dump \/ Synced \/ Replace \/ SaveFails)
  BY <1>1, <1>2, <1>3 DEF Dump, Synced, Replace, SaveFails, Ends
<1>4. CASE r = Police /\ PoliceDecides
  BY <1>1, <1>2, <1>4 DEF PoliceDecides, Ends
<1>5. CASE Handle(r)
  BY <1>1, <1>5, TwoPeers DEF Handle, Kept, Calling, Calls, Ends, Peers
<1>11. CASE HandleLate(r)
  BY <1>1, <1>11, TwoPeers DEF HandleLate, Kept
<1>6. CASE Answered(r) \/ See(r)
  BY <1>1, <1>6, GoesOn DEF Onward, Calls, Waits, Ends
<1>7. CASE AttemptFails(r)
  <2>1. stage[r] \in Calls /\ UNCHANGED <<handled, alone>>
    BY <1>7 DEF AttemptFails, Calling
  <2>2. CASE failed[r] = Retries
    BY <1>2, <1>7, <2>1, <2>2 DEF AttemptFails, Calls, Ends
  <2>3. CASE failed[r] # Retries
    BY <1>1, <1>7, <2>1, <2>3, TwoPeers DEF AttemptFails, Kept, Calls, Ends, Peers
  <2> QED BY <2>2, <2>3
<1>8. CASE Resume(r)
  BY <1>1, <1>8, TwoPeers DEF Resume, Kept, Calls, Ends, Peers
<1>9. CASE Expire(r)
  BY <1>1, <1>2, <1>9 DEF Expire, Waits, Ends
<1>10. CASE Crash(r)
  BY <1>1, <1>2, <1>10 DEF Crash, Up
<1> QED BY <1>3, <1>4, <1>5, <1>6, <1>7, <1>8, <1>9, <1>10, <1>11 DEF Own, PeerStep

LEMMA TickKeeps ==
  ASSUME Typed, Tick
  PROVE  /\ UNCHANGED <<stage, turn, failed, paused, answered, sent, handled, disk, spoiled>>
         /\ \A r \in Roles : Up(r) => InTime(r) /\ timer'[r] = timer[r] + 1
BY DEF Tick
---------------------------------------------------------------------------
\* The time of n attempts that took their time, each with its pause.
Spent(n) == n * (Timeout + RetryDelay)

LEMMA SpentGrows ==
  ASSUME NEW n \in 0 .. Retries
  PROVE  /\ Spent(n) \in Nat /\ Spent(0) = 0
         /\ Spent(n + 1) = Spent(n) + Timeout + RetryDelay
         /\ Spent(n) + Timeout <= RequestLifetime
         /\ n > 0 => RetryDelay <= Spent(n)
<1>1. Timeout \in Nat /\ RetryDelay \in Nat /\ Retries \in Nat
  BY DeadlineAssumption
<1>2. PICK m \in Nat : Retries = n + m
  <2>1. Retries - n \in Nat /\ Retries = n + (Retries - n)
    BY <1>1
  <2> QED BY <2>1
<1>3. /\ m * Timeout \in Nat /\ m * RetryDelay \in Nat
      /\ n * Timeout \in Nat /\ n * RetryDelay \in Nat
  BY <1>1
<1>4. RequestLifetime = Spent(n) + Timeout + m * Timeout + m * RetryDelay
  BY <1>1, <1>2 DEF Spent, RequestLifetime
<1>5. ASSUME n > 0 PROVE RetryDelay <= Spent(n)
  <2>1. Spent(n) = n * Timeout + (n - 1) * RetryDelay + RetryDelay
    BY <1>1 DEF Spent
  <2>2. (n - 1) * RetryDelay \in Nat
    BY <1>1, <1>5
  <2> QED BY <1>1, <1>3, <2>1, <2>2
<1> QED BY <1>1, <1>3, <1>4, <1>5 DEF Spent

\* What its opponent sent last has not arrived, and still may; then it has not
\* been waited for since.
Late(o) == sent[o] \ handled[o] # {}
Patience(o) == IF Late(o) THEN Timeout ELSE 2 * Timeout

\* How long a peer has been alone, by what it is doing: an answer given before
\* may end one call, what is late one wait.
Survives(r) ==
  /\ stage[r] # "crashed"
  /\ stage[r] = "think" => alone <= 2 * Timeout + timer[r]
  /\ stage[r] \in {"dump", "replace"} => alone <= 2 * Timeout + Think
  /\ stage[r] \in Waits =>
       alone <= Patience(Opponent(r)) + (IF Arrived(r) THEN 0 ELSE timer[r])
  /\ stage[r] \in Calls =>
       /\ answered[r] => alone <= timer[r]
       /\ alone + (IF paused[r] THEN RetryDelay ELSE 0)
            <= 2 * Timeout + Think + Spent(failed[r]) + timer[r]

Lonely ==
  /\ (\A r \in Roles : stage[r] # "crashed") => alone = 0
  /\ \A r \in Roles : stage[Opponent(r)] = "crashed" => Survives(r)

LEMMA PatienceIn ==
  ASSUME NEW o
  PROVE  /\ Patience(o) \in Nat /\ Timeout <= Patience(o) /\ Patience(o) <= 2 * Timeout
         /\ Late(o) => Patience(o) = Timeout
         /\ ~Late(o) => Patience(o) = 2 * Timeout
BY DeadlineAssumption DEF Patience

\* A step of the survivor.
LEMMA SurvivorStep ==
  ASSUME Typed, NEW r \in Roles, Own(r), Survives(r),
         stage[Opponent(r)] = "crashed"
  PROVE  Survives(r)'
<1> DEFINE q == Opponent(r)
<1>1. /\ Peers /\ alone \in Nat /\ alone' = alone /\ timer[r] \in Nat
      /\ failed[r] \in 0 .. Retries /\ ClockIn(r)
      /\ Kept(q) /\ handled'[q] = handled[q]
      /\ Think \in Nat /\ Timeout \in Nat /\ RetryDelay \in Nat /\ Retries \in Nat
  BY OwnKeeps, DeadlineAssumption DEF Typed, Rest, Peers
<1>2. ~Serving(q) /\ ~Up(q)
  BY DEF Serving, Up, Ends
<1>3. Spent(0) = 0
  BY <1>1, SpentGrows
<1>12. Patience(q)' = Patience(q)
  BY <1>1 DEF Patience, Late, Kept
<1>13. Patience(q) \in Nat /\ Timeout <= Patience(q) /\ Patience(q) <= 2 * Timeout
  BY PatienceIn
<1>4. ASSUME NEW s, NEW t, Enter(r, s, t), s # "crashed",
             \/ s \in Calls \cup {"dump", "replace"} /\ alone <= 2 * Timeout + Think
             \/ s = "think" /\ alone <= 2 * Timeout
             \/ s \in Waits /\ alone <= Patience(q)
             \/ s \in {"lost", "done"}
      PROVE  Survives(r)'
  <2>1. /\ stage'[r] = s /\ timer'[r] = 0 /\ failed'[r] = 0 /\ paused'[r] = FALSE
        /\ answered'[r] = FALSE
    BY <1>1, <1>4, Entered
  <2>2. Spent(failed'[r]) = 0
    BY <1>3, <2>1
  <2> HIDE DEF q
  <2>3. Opponent(r) = q
    BY DEF q
  <2> QED BY <1>1, <1>4, <1>12, <1>13, <2>1, <2>2, <2>3 DEF Survives, Waits, Calls
<1>5. CASE r = Thief /\ (Dump \/ Synced \/ Replace \/ SaveFails)
  <2>1. alone <= 2 * Timeout + Think
    BY <1>1, <1>5 DEF Dump, Synced, Replace, SaveFails, Survives, ClockIn
  <2>2. PICK s \in {"dump", "replace", "commit", "lost"} : Enter(r, s, turn[r])
    BY <1>5 DEF Dump, Synced, Replace, SaveFails
  <2> QED BY <1>4, <2>1, <2>2 DEF Calls
<1>6. CASE r = Police /\ PoliceDecides
  <2>1. alone <= 2 * Timeout + Think
    BY <1>1, <1>6 DEF PoliceDecides, Survives, ClockIn
  <2> QED BY <1>4, <1>6, <2>1 DEF PoliceDecides, Calls
<1>7. CASE Handle(r) \/ HandleLate(r) \/ Crash(r)
  BY <1>2, <1>7 DEF Handle, HandleLate, Crash
<1>14. CASE Answered(r)
  <2>1. stage[r] \in Calls /\ answered[r] /\ ~paused[r] /\ AfterCall(r)
    BY <1>14 DEF Answered, Calling
  <2>2. alone <= Timeout
    BY <1>1, <2>1 DEF Survives, ClockIn
  <2>3. PICK s, t : Enter(r, s, t) /\ s \in Calls \cup Waits
    BY <2>1 DEF AfterCall, Calls, Waits
  <2>4. s # "crashed"
    BY <2>3 DEF Calls, Waits
  <2> QED BY <1>1, <1>4, <1>13, <2>2, <2>3, <2>4
<1>8. CASE AttemptFails(r)
  <2>1. stage[r] \in Calls /\ paused[r] = FALSE
    BY <1>1, <1>8 DEF AttemptFails, Calling, Peers
  <2>2. CASE failed[r] = Retries
    BY <1>4, <1>8, <2>2 DEF AttemptFails
  <2>3. CASE failed[r] # Retries
    <3>1. /\ failed'[r] = failed[r] + 1 /\ paused'[r] = TRUE /\ timer'[r] = 0
          /\ answered'[r] = FALSE /\ stage'[r] = stage[r]
      BY <1>1, <1>8, <2>3 DEF AttemptFails, Peers
    <3>2. Spent(failed'[r]) = Spent(failed[r]) + Timeout + RetryDelay /\ Spent(failed[r]) \in Nat
      BY <1>1, <3>1, SpentGrows
    <3>3. alone <= 2 * Timeout + Think + Spent(failed[r]) + timer[r] /\ timer[r] <= Timeout
      BY <2>1, <1>1, <3>2 DEF Survives, ClockIn
    <3>4. alone + RetryDelay <= 2 * Timeout + Think + Spent(failed'[r]) + timer'[r]
      BY <1>1, <3>1, <3>2, <3>3
    <3> QED BY <1>1, <2>1, <3>1, <3>4 DEF Survives, Calls, Waits
  <2> QED BY <2>2, <2>3
<1>9. CASE Resume(r)
  <2>1. /\ stage[r] \in Calls /\ paused[r] /\ timer[r] = RetryDelay
        /\ paused'[r] = FALSE /\ timer'[r] = 0 /\ stage'[r] = stage[r] /\ failed'[r] = failed[r]
        /\ ~answered'[r]
    BY <1>1, <1>9 DEF Resume, Typed, Peers, Network, Flying, Calling
  <2>2. Spent(failed[r]) \in Nat /\ Spent(failed'[r]) = Spent(failed[r])
    BY <1>1, <2>1, SpentGrows
  <2>3. alone <= 2 * Timeout + Think + Spent(failed'[r]) + timer'[r]
    BY <1>1, <2>1, <2>2 DEF Survives
  <2> QED BY <1>1, <2>1, <2>3 DEF Survives, Calls, Waits
<1>10. CASE See(r)
  <2>1. /\ stage[r] \in Waits /\ Arrived(r) /\ AfterWait(r)
        /\ stage[r] \notin Calls \cup {"think", "dump", "replace"}
    BY <1>10 DEF See, Waits, Calls
  <2>2. alone <= 2 * Timeout
    BY <1>1, <1>13, <2>1 DEF Survives
  <2>4. alone <= Patience(q)
    BY <1>1, <1>13, <2>1 DEF Survives
  <2>3. PICK s, t : Enter(r, s, t) /\ s \in Calls \cup {"think", "see_reveal", "lost", "done"}
    BY <2>1 DEF AfterWait, StartTurn, Calls
  <2>5. CASE s \in Calls
    BY <1>1, <1>4, <2>2, <2>3, <2>5 DEF Calls
  <2>6. CASE s \in {"think", "see_reveal", "lost", "done"}
    BY <1>4, <2>2, <2>3, <2>4, <2>6 DEF Waits
  <2> QED BY <2>3, <2>5, <2>6
<1>11. CASE Expire(r)
  BY <1>4, <1>11 DEF Expire
<1> QED BY <1>5, <1>6, <1>7, <1>8, <1>9, <1>10, <1>11, <1>14 DEF Own, PeerStep

\* What was late arrives: the survivor has waited for it no longer than it may.
LEMMA LateStep ==
  ASSUME Typed, NEW r \in Roles, HandleLate(r), stage[r] = "crashed", Survives(Opponent(r))
  PROVE  Survives(Opponent(r))'
<1> DEFINE q == Opponent(r)
<1>1. /\ q \in Roles /\ Opponent(q) = r /\ alone \in Nat /\ timer[q] \in Nat /\ ClockIn(q)
      /\ Timeout \in Nat
  BY TwoPeers, DeadlineAssumption DEF Typed, Rest, Peers
<1>2. UNCHANGED <<stage, turn, timer, failed, paused, answered, sent, alone>>
  BY DEF HandleLate
<1>3. Late(r) /\ ~Late(r)' /\ handled[r] \subseteq handled'[r]
  <2>1. PICK m \in sent[r] \ handled[r] : handled' = [handled EXCEPT ![r] = @ \cup {m}]
    BY DEF HandleLate
  <2>2. handled'[r] = handled[r] \cup {m}
    BY <2>1 DEF Typed, Rest
  <2>3. sent[r] \ handled[r] = {m}
    BY <2>1 DEF Typed, Network, Flying
  <2> QED BY <1>2, <2>2, <2>3 DEF Late
<1>4. Patience(r) = Timeout /\ Patience(r)' = 2 * Timeout
  BY <1>3 DEF Patience
<1>5. ASSUME stage[q] \in Waits
      PROVE  alone <= 2 * Timeout + (IF Arrived(q)' THEN 0 ELSE timer[q])
  <2>1. timer[q] <= Timeout
    BY <1>1, <1>5 DEF ClockIn
  <2>2. alone <= Timeout + timer[q]
    BY <1>1, <1>4, <1>5 DEF Survives
  <2>3. Arrived(q) => Arrived(q)' /\ alone <= Timeout
    BY <1>1, <1>2, <1>3, <1>4, <1>5 DEF Survives, Arrived
  <2> HIDE DEF q
  <2> QED BY <1>1, <2>1, <2>2, <2>3
<1> HIDE DEF q
<1>6. Survives(q)
  BY DEF q
<1>7. Survives(q)'
  BY <1>1, <1>2, <1>4, <1>5, <1>6 DEF Survives
<1> QED BY <1>7 DEF q

LEMMA LonelyStep == ASSUME Typed, Lonely, [Next]_vars PROVE Lonely'
<1>1. CASE UNCHANGED vars
  BY <1>1 DEF vars, Lonely, Survives, Arrived, Patience, Late
<1>2. CASE Tick
  <2>1. \A r \in Roles : stage'[r] = stage[r]
    BY <1>2 DEF Tick
  <2>2. (\A r \in Roles : stage'[r] # "crashed") => alone' = 0
    BY <1>2, <2>1 DEF Tick
  <2>3. ASSUME NEW r \in Roles, stage'[Opponent(r)] = "crashed"
        PROVE  Survives(r)'
    <3>1. /\ Survives(r) /\ alone' = alone + 1
          /\ UNCHANGED <<stage, turn, failed, paused, answered, sent, handled>>
      BY <1>2, <2>3, <2>1, TwoPeers DEF Tick, Lonely
    <3>2. /\ alone \in Nat /\ timer[r] \in Nat /\ failed[r] \in 0 .. Retries /\ Spent(failed[r]) \in Nat
          /\ Think \in Nat /\ RetryDelay \in Nat /\ Timeout \in Nat
      BY DeadlineAssumption, SpentGrows DEF Typed, Peers, Rest
    <3>5. Patience(Opponent(r)) \in Nat /\ Patience(Opponent(r))' = Patience(Opponent(r))
      BY <3>1, PatienceIn DEF Patience, Late
    <3>3. CASE Up(r)
      <4>1. InTime(r) /\ timer'[r] = timer[r] + 1
        BY <1>2, <3>3, TickKeeps
      <4>2. stage[r] \notin {"dump", "replace"} /\ (stage[r] \in Waits => ~Arrived(r))
        BY <4>1 DEF InTime, Calling, Calls, Waits
      <4>3. stage[r] \in Waits => ~Arrived(r)'
        BY <3>1, <4>2 DEF Arrived
      <4> QED BY <3>1, <3>2, <3>5, <4>1, <4>2, <4>3 DEF Survives
    <3>4. CASE ~Up(r)
      BY <3>1, <3>4 DEF Survives, Up, Ends, Waits, Calls
    <3> QED BY <3>3, <3>4
  <2> QED BY <2>2, <2>3 DEF Lonely
<1>3. ASSUME NEW r \in Roles, Own(r) PROVE Lonely'
  <2> DEFINE q == Opponent(r)
  <2>1. /\ q \in Roles /\ q # r /\ Opponent(q) = r /\ Opponent(r) = q
        /\ \A x \in Roles : x = r \/ x = q
    BY TwoPeers
  <2>2. /\ Kept(q) /\ alone' = alone /\ handled'[q] = handled[q]
        /\ \/ HandleLate(r)
           \/ stage[r] \notin Ends /\ (stage'[r] = "crashed" => Crash(r))
    BY <1>3, OwnKeeps
  <2>6. HandleLate(r) => stage' = stage
    BY DEF HandleLate
  <2> HIDE DEF q
  <2>7. stage[r] = "crashed" => stage'[r] = "crashed"
    BY <2>2, <2>6 DEF Ends
  <2>3. (\A x \in Roles : stage'[x] # "crashed") => alone' = 0
    BY <2>1, <2>2, <2>7 DEF Lonely, Kept
  <2>4. ASSUME stage'[q] = "crashed" PROVE Survives(r)'
    BY <1>3, <2>1, <2>2, <2>4, SurvivorStep DEF Kept, Lonely, q
  <2>5. ASSUME stage'[r] = "crashed" PROVE Survives(q)'
    <3>7. CASE stage[r] = "crashed"
      <4>1. HandleLate(r)
        BY <2>2, <3>7 DEF Ends
      <4>2. Survives(q)
        BY <2>1, <3>7 DEF Lonely
      <4> QED BY <2>1, <3>7, <4>1, <4>2, LateStep
    <3>8. CASE stage[r] # "crashed"
      <4>1. Crash(r)
        BY <2>2, <2>5, <2>6, <3>8
      <4>2. stage'[q] = stage[q] /\ stage[q] # "crashed"
        BY <2>1, <2>2, <4>1 DEF Crash, Up, Kept, Ends
      <4>3. alone' = 0
        BY <2>1, <2>2, <3>8, <4>2 DEF Lonely
      <4>4. /\ Think \in Nat /\ RetryDelay \in Nat /\ Timeout \in Nat
            /\ timer'[q] \in Nat /\ failed'[q] \in 0 .. Retries /\ ClockIn(q)'
        <5>1. Typed'
          BY TypedStep
        <5>2. ClockIn(q)'
          BY <2>1, <5>1 DEF Typed, Peers
        <5>3. timer'[q] \in Nat /\ failed'[q] \in 0 .. Retries
          BY <2>1, <5>1 DEF Typed, Peers
        <5> QED BY <5>2, <5>3, DeadlineAssumption
      <4>5. Spent(failed'[q]) \in Nat /\ (paused'[q] => RetryDelay <= Spent(failed'[q]))
        BY <4>4, SpentGrows DEF ClockIn
      <4>6. Patience(r)' \in Nat
        BY <4>4 DEF Patience
      <4> QED BY <2>1, <4>2, <4>3, <4>4, <4>5, <4>6 DEF Survives
    <3> QED BY <3>7, <3>8
  <2> QED BY <2>1, <2>3, <2>4, <2>5 DEF Lonely
<1> QED BY <1>1, <1>2, <1>3, NextIsOwn

(* A peer whose opponent's process ends has ended itself once what was on its *)
(* way has arrived, one thought and the attempts of one call later at the     *)
(* latest, however long the limits are.                                      *)
THEOREM SurvivorEndsHolds == Spec => []SurvivorEnds
<1>1. Init => Lonely
  BY TwoPeers, TheRoles DEF Init, Lonely
<1>2. ASSUME Typed, Lonely PROVE SurvivorEnds
  <2> SUFFICES ASSUME NEW p \in Roles, stage[p] = "crashed", NEW u \in Roles, Up(u)
               PROVE  alone <= 2 * Timeout + Think + RequestLifetime
    BY DEF SurvivorEnds
  <2>1. Survives(u) /\ u = Opponent(p)
    BY <1>2, TwoPeers DEF Lonely, Up, Ends
  <2>2. /\ alone \in Nat /\ timer[u] \in Nat /\ failed[u] \in 0 .. Retries
        /\ stage[u] \in Stages /\ ClockIn(u) /\ paused[u] \in BOOLEAN
        /\ Think \in Nat /\ Timeout \in Nat /\ RetryDelay \in Nat
    BY <1>2, DeadlineAssumption DEF Typed, Peers, Rest
  <2>3. Spent(failed[u]) \in Nat /\ Spent(failed[u]) + Timeout <= RequestLifetime
    BY <2>2, SpentGrows
  <2>4. RequestLifetime \in Int
    BY DeadlineAssumption DEF RequestLifetime
  <2>5. Patience(Opponent(u)) \in Nat /\ Patience(Opponent(u)) <= 2 * Timeout
    BY PatienceIn
  <2>6. stage[u] \in Calls \cup Waits \cup {"think", "dump", "replace"}
    BY <2>2 DEF Up, Stages, Work
  <2>7. CASE stage[u] \in Calls
    BY <2>1, <2>2, <2>3, <2>4, <2>7 DEF Survives, ClockIn
  <2>8. CASE stage[u] \in Waits
    <3>1. timer[u] <= Timeout
      BY <2>2, <2>8 DEF ClockIn
    <3>2. alone <= Patience(Opponent(u)) + (IF Arrived(u) THEN 0 ELSE timer[u])
      BY <2>1, <2>8 DEF Survives
    <3> QED BY <2>2, <2>3, <2>4, <2>5, <3>1, <3>2
  <2>9. CASE stage[u] \in {"think", "dump", "replace"}
    BY <2>1, <2>2, <2>3, <2>4, <2>9 DEF Survives, ClockIn
  <2> QED BY <2>6, <2>7, <2>8, <2>9
<1> QED BY <1>1, <1>2, LonelyStep, TypedHolds, PTL DEF Spec
---------------------------------------------------------------------------
\* From (s, t) a peer that is well goes on to (s2, t2).
Passes(r, s, t, s2, t2) ==
  \/ t2 = t /\ \/ s = "commit" /\ s2 = "reveal"
               \/ s = "see_commit" /\ s2 = "see_reveal"
               \/ s = "audit" /\ s2 = "see_audit"
               \/ s = "see_audit" /\ s2 = "result"
               \/ s = "result" /\ s2 = "see_result"
               \/ s = "see_result" /\ s2 = "done"
  \/ r = Thief /\ t2 = t /\ \/ s = "think" /\ s2 = "dump"
                            \/ s = "dump" /\ s2 = "replace"
                            \/ s = "replace" /\ s2 = "commit"
                            \/ s = "reveal" /\ s2 = "see_commit" /\ t < Turns
                            \/ s = "reveal" /\ s2 = "audit" /\ t = Turns
  \/ r = Thief /\ t2 = t + 1 /\ s = "see_reveal" /\ s2 = "think"
  \/ r = Police /\ t2 = t /\ \/ s = "see_reveal" /\ s2 = "think" /\ t < Turns
                             \/ s = "see_reveal" /\ s2 = "audit" /\ t = Turns
                             \/ s = "think" /\ s2 = "commit"
  \/ r = Police /\ t2 = t + 1 /\ s = "reveal" /\ s2 = "see_commit"

\* A peer goes on, with what its call or its wait was for.
Advances(r) ==
  /\ Passes(r, stage[r], turn[r], stage'[r], turn'[r])
  /\ timer'[r] = 0 /\ failed'[r] = 0 /\ paused'[r] = FALSE
  /\ stage[r] \in Calls => Request(r) \in handled[r]
  /\ stage[r] \in Waits => Arrived(r)
  /\ handled' = handled
  /\ idle' = (IF stage[r] = "replace" THEN 0 ELSE idle)

\* It goes on with its call.
Repeats(r) == /\ stage[r] \in Calls /\ stage'[r] = stage[r] /\ turn'[r] = turn[r]
              /\ idle' = idle /\ handled' = handled
              /\ \/ /\ ~paused[r] /\ MayFail(r) /\ failed[r] # Retries
                    /\ failed'[r] = failed[r] + 1 /\ paused'[r] = TRUE /\ timer'[r] = 0
                 \/ /\ paused[r] /\ timer[r] = RetryDelay
                    /\ failed'[r] = failed[r] /\ paused'[r] = FALSE /\ timer'[r] = 0

\* Its request is handled, or a copy of it.
Carries(r) == /\ stage[r] \in Calls
              /\ handled' = [handled EXCEPT ![r] = @ \cup {Request(r)}]
              /\ UNCHANGED <<stage, turn, timer, failed, paused, idle>>

LEMMA OwnAdvances ==
  ASSUME Typed, NEW r \in Roles, Own(r), stage'[r] \notin {"lost", "crashed"}
  PROVE  Advances(r) \/ Repeats(r) \/ Carries(r)
<1>1. Peers /\ r \in {Thief, Police} /\ turn[r] \in 1 .. Turns /\ Thief # Police
      /\ Place(r, stage[r], turn[r])
  BY TheRoles DEF Typed, Peers, Roles
<1>2. ASSUME NEW s, NEW t, Enter(r, s, t)
      PROVE  stage'[r] = s /\ turn'[r] = t /\ timer'[r] = 0 /\ failed'[r] = 0 /\ paused'[r] = FALSE
  BY <1>1, <1>2, Entered
<1>3. ASSUME NEW u \in Work, NEW s \in Stages, stage[r] = u, Enter(r, s, turn[r]),
             Passes(r, u, turn[r], s, turn[r]), handled' = handled,
             idle' = (IF u = "replace" THEN 0 ELSE idle)
      PROVE  Advances(r)
  BY <1>2, <1>3 DEF Advances, Work, Calls, Waits
<1>31. {"dump", "replace", "commit"} \subseteq Stages /\ {"think", "dump", "replace"} \subseteq Work
  BY DEF Stages, Work, Calls
<1>32. CASE r = Thief /\ Dump
  <2>1. stage[r] = "think" /\ Enter(r, "dump", turn[r]) /\ handled' = handled /\ idle' = idle
    BY <1>32 DEF Dump
  <2> QED BY <1>3, <1>31, <1>32, <2>1 DEF Passes
<1>33. CASE r = Thief /\ Synced
  <2>1. stage[r] = "dump" /\ Enter(r, "replace", turn[r]) /\ handled' = handled /\ idle' = idle
    BY <1>33 DEF Synced
  <2> QED BY <1>3, <1>31, <1>33, <2>1 DEF Passes
<1>34. CASE r = Thief /\ Replace
  <2>1. stage[r] = "replace" /\ Enter(r, "commit", turn[r]) /\ handled' = handled /\ idle' = 0
    BY <1>34 DEF Replace
  <2> QED BY <1>3, <1>31, <1>34, <2>1 DEF Passes
<1>35. CASE r = Thief /\ SaveFails
  <2>1. Enter(r, "lost", turn[r])
    BY <1>35 DEF SaveFails
  <2> QED BY <1>2, <2>1
<1>4. CASE r = Police /\ PoliceDecides
  <2>1. stage[r] = "think" /\ Enter(r, "commit", turn[r]) /\ handled' = handled /\ idle' = idle
    BY <1>4 DEF PoliceDecides
  <2> QED BY <1>3, <1>31, <1>4, <2>1 DEF Passes
<1>5. CASE Answered(r)
  <2>1. /\ stage[r] \in Calls /\ Request(r) \in handled[r] /\ AfterCall(r)
        /\ UNCHANGED <<idle, handled>> /\ stage[r] \notin Waits /\ stage[r] # "replace"
    BY <1>5 DEF Answered, Calling, Calls, Waits, Typed, Network, Flying
  <2>2. /\ Passes(r, stage[r], turn[r], stage'[r], turn'[r])
        /\ timer'[r] = 0 /\ failed'[r] = 0 /\ paused'[r] = FALSE
    BY <1>1, <1>2, <2>1 DEF AfterCall, Passes
  <2> QED BY <2>1, <2>2 DEF Advances
<1>6. CASE See(r)
  <2>1. /\ stage[r] \in Waits /\ Arrived(r) /\ AfterWait(r)
        /\ UNCHANGED <<idle, handled>> /\ stage[r] \notin Calls /\ stage[r] # "replace"
    BY <1>6 DEF See, Calls, Waits
  <2>2. /\ Passes(r, stage[r], turn[r], stage'[r], turn'[r])
        /\ timer'[r] = 0 /\ failed'[r] = 0 /\ paused'[r] = FALSE
    BY <1>1, <1>2, <2>1 DEF AfterWait, StartTurn, Passes
  <2> QED BY <2>1, <2>2 DEF Advances
<1>7. CASE AttemptFails(r)
  <2>1. failed[r] # Retries
    BY <1>2, <1>7 DEF AttemptFails
  <2> QED BY <1>1, <1>7, <2>1 DEF AttemptFails, Calling, Repeats, Peers
<1>8. CASE Resume(r)
  BY <1>1, <1>8 DEF Resume, Repeats, Peers
<1>9. CASE Expire(r) \/ Crash(r)
  BY <1>2, <1>9 DEF Expire, Crash
<1>10. CASE Handle(r)
  BY <1>10 DEF Handle, Calling, Carries
<1>11. CASE HandleLate(r)
  <2>1. /\ UNCHANGED <<stage, turn, timer, failed, paused, idle>>
        /\ sent[r] \ handled[r] \subseteq {Request(r)} /\ sent[r] \subseteq Messages
    BY <1>1, <1>11 DEF HandleLate, Typed, Peers, Network, Flying
  <2>2. handled' = [handled EXCEPT ![r] = @ \cup {Request(r)}] /\ Request(r) \in Messages
    BY <1>11, <2>1 DEF HandleLate
  <2> QED BY <2>1, <2>2 DEF Carries, Request, Messages
<1> QED BY <1>32, <1>33, <1>34, <1>35, <1>4, <1>5, <1>6, <1>7, <1>8, <1>9, <1>10, <1>11
        DEF Own, PeerStep
---------------------------------------------------------------------------
\* In this place the peer's call c of turn k has been answered.
Over(r, s, t, c, k) ==
  \/ k < t /\ c \in {"commit", "reveal"}
  \/ k = t /\ c = "commit" /\ s = "reveal"
  \/ k = t /\ c \in {"commit", "reveal"} /\ r = Thief
           /\ s \in {"see_commit", "see_reveal"} \cup Final
  \/ k = t /\ c = "audit" /\ s \in {"see_audit", "result", "see_result", "done"}
  \/ k = t /\ c = "result" /\ s \in {"see_result", "done"}

\* In this place it has seen what the opponent's call c of turn k brought.
Known(r, s, t, c, k) ==
  \/ k < t /\ c \in {"commit", "reveal"}
  \/ k = t /\ c = "commit" /\ s = "see_reveal"
  \/ k = t /\ c \in {"commit", "reveal"} /\ r = Police
           /\ s \notin {"see_commit", "see_reveal"}
  \/ k = t /\ c = "audit" /\ s \in {"result", "see_result", "done"}
  \/ k = t /\ c = "result" /\ s = "done"

\* The opponent's server has handled what was answered, and of the rest at most
\* the request that is being made.
Sent(r) == \A c \in Calls, k \in 1 .. Turns :
  /\ Over(r, stage[r], turn[r], c, k) => <<c, k>> \in handled[r]
  /\ <<c, k>> \in handled[r] =>
       Over(r, stage[r], turn[r], c, k) \/ (stage[r] = c /\ turn[r] = k)

Heard(r) == \A c \in Calls, k \in 1 .. Turns :
  Known(r, stage[r], turn[r], c, k) => <<c, k>> \in handled[Opponent(r)]

\* Going on completes one call, or none.
LEMMA OverGrows ==
  ASSUME NEW r \in Roles, NEW s, NEW t \in 1 .. Turns, NEW s2, NEW t2,
         Place(r, s, t), Passes(r, s, t, s2, t2), NEW c \in Calls, NEW k \in 1 .. Turns
  PROVE  Over(r, s2, t2, c, k) <=> Over(r, s, t, c, k) \/ (s = c /\ t = k)
<1>1. t \in Int /\ k \in Int /\ r \in {"thief", "police"} /\ c \in {"commit", "reveal", "audit", "result"}
  BY DEF Roles, Thief, Police, Calls
<1>2. CASE t2 = t /\ s \in {"commit", "see_commit", "audit", "see_audit", "result", "see_result"}
  BY <1>1, <1>2 DEF Passes, Over, Place, Final, Thief, Police
<1>3. CASE r = Thief /\ t2 = t /\ s \in Work \cup {"reveal"}
  BY <1>1, <1>3 DEF Passes, Over, Place, Final, Thief, Police, Work
<1>4. CASE r = Thief /\ t2 = t + 1 /\ s = "see_reveal" /\ s2 = "think"
  BY <1>1, <1>4 DEF Over, Final, Thief, Police
<1>5. CASE r = Police /\ t2 = t /\ s \in {"think", "see_reveal"}
  BY <1>1, <1>5 DEF Passes, Over, Place, Final, Thief, Police
<1>6. CASE r = Police /\ t2 = t + 1 /\ s = "reveal" /\ s2 = "see_commit"
  BY <1>1, <1>6 DEF Over, Final, Thief, Police
<1> QED BY <1>2, <1>3, <1>4, <1>5, <1>6 DEF Passes, Work

\* Going on takes notice of one call of the opponent, or none.
LEMMA KnownGrows ==
  ASSUME NEW r \in Roles, NEW s, NEW t \in 1 .. Turns, NEW s2, NEW t2,
         Place(r, s, t), Passes(r, s, t, s2, t2), NEW c \in Calls, NEW k \in 1 .. Turns,
         Known(r, s2, t2, c, k)
  PROVE  Known(r, s, t, c, k) \/ (s \in Waits /\ Answer[s] = c /\ t = k)
<1>1. t \in Int /\ k \in Int /\ r \in {"thief", "police"} /\ c \in {"commit", "reveal", "audit", "result"}
  BY DEF Roles, Thief, Police, Calls
<1>2. /\ Answer["see_commit"] = "commit" /\ Answer["see_reveal"] = "reveal"
      /\ Answer["see_audit"] = "audit" /\ Answer["see_result"] = "result"
      /\ Waits = {"see_commit", "see_reveal", "see_audit", "see_result"}
  BY DEF Answer, Waits
<1>3. CASE t2 = t /\ s \in {"commit", "see_commit", "audit", "see_audit", "result", "see_result"}
  BY <1>1, <1>2, <1>3 DEF Passes, Known, Place, Final, Thief, Police
<1>4. CASE r = Thief /\ t2 = t /\ s \in Work \cup {"reveal"}
  BY <1>1, <1>4 DEF Passes, Known, Place, Final, Thief, Police, Work
<1>5. CASE r = Thief /\ t2 = t + 1 /\ s = "see_reveal" /\ s2 = "think"
  BY <1>1, <1>2, <1>5 DEF Known, Thief, Police
<1>6. CASE r = Police /\ t2 = t /\ s \in {"think", "see_reveal"}
  BY <1>1, <1>2, <1>6 DEF Passes, Known, Place, Final, Thief, Police
<1>7. CASE r = Police /\ t2 = t + 1 /\ s = "reveal" /\ s2 = "see_commit"
  BY <1>1, <1>7 DEF Known, Thief, Police
<1> QED BY <1>3, <1>4, <1>5, <1>6, <1>7 DEF Passes, Work

LEMMA SentStep ==
  ASSUME Typed, NEW r \in Roles, Sent(r), Advances(r) \/ Repeats(r) \/ Carries(r)
  PROVE  Sent(r)'
<1>1. turn[r] \in 1 .. Turns /\ handled \in [Roles -> SUBSET Messages] /\ Place(r, stage[r], turn[r])
  BY DEF Typed, Peers, Rest
<1>2. CASE Carries(r)
  <2>1. handled'[r] = handled[r] \cup {<<stage[r], turn[r]>>} /\ UNCHANGED <<stage, turn>>
    BY <1>1, <1>2 DEF Carries, Request
  <2> QED BY <2>1 DEF Sent
<1>3. CASE Repeats(r)
  BY <1>3 DEF Repeats, Sent
<1>4. CASE Advances(r)
  <2>1. /\ handled' = handled /\ Passes(r, stage[r], turn[r], stage'[r], turn'[r])
        /\ stage[r] \in Calls => <<stage[r], turn[r]>> \in handled[r]
    BY <1>4 DEF Advances, Request
  <2>2. ASSUME NEW c \in Calls, NEW k \in 1 .. Turns
        PROVE  /\ Over(r, stage'[r], turn'[r], c, k) => <<c, k>> \in handled'[r]
               /\ <<c, k>> \in handled'[r] =>
                    Over(r, stage'[r], turn'[r], c, k) \/ (stage'[r] = c /\ turn'[r] = k)
    <3>1. /\ Over(r, stage[r], turn[r], c, k) => <<c, k>> \in handled[r]
          /\ <<c, k>> \in handled[r] =>
               Over(r, stage[r], turn[r], c, k) \/ (stage[r] = c /\ turn[r] = k)
      BY DEF Sent
    <3>2. Over(r, stage'[r], turn'[r], c, k)
            <=> Over(r, stage[r], turn[r], c, k) \/ (stage[r] = c /\ turn[r] = k)
      BY <1>1, <2>1, OverGrows
    <3> QED BY <2>1, <3>1, <3>2
  <2> QED BY <2>2 DEF Sent
<1> QED BY <1>2, <1>3, <1>4

LEMMA HeardStep ==
  ASSUME Typed, NEW r \in Roles, Heard(r), Advances(r) \/ Repeats(r) \/ Carries(r)
  PROVE  Heard(r)'
<1>1. /\ turn[r] \in 1 .. Turns /\ Place(r, stage[r], turn[r]) /\ Opponent(r) \in Roles
      /\ handled \in [Roles -> SUBSET Messages]
  BY TwoPeers DEF Typed, Peers, Rest
<1>2. CASE Carries(r)
  <2>1. handled[Opponent(r)] \subseteq handled'[Opponent(r)] /\ UNCHANGED <<stage, turn>>
    BY <1>1, <1>2 DEF Carries
  <2> QED BY <2>1 DEF Heard
<1>3. CASE Repeats(r)
  BY <1>3 DEF Repeats, Heard
<1>4. CASE Advances(r)
  <2>1. /\ handled' = handled /\ Passes(r, stage[r], turn[r], stage'[r], turn'[r])
        /\ stage[r] \in Waits => <<Answer[stage[r]], turn[r]>> \in handled[Opponent(r)]
    BY <1>4 DEF Advances, Arrived
  <2>2. ASSUME NEW c \in Calls, NEW k \in 1 .. Turns, Known(r, stage'[r], turn'[r], c, k)
        PROVE  <<c, k>> \in handled[Opponent(r)]
    <3>1. Known(r, stage[r], turn[r], c, k) \/ (stage[r] \in Waits /\ Answer[stage[r]] = c /\ turn[r] = k)
      BY <1>1, <2>1, <2>2, KnownGrows
    <3> QED BY <2>1, <3>1 DEF Heard
  <2> QED BY <2>1, <2>2 DEF Heard
<1> QED BY <1>2, <1>3, <1>4

\* What the other peer's step leaves of both.
LEMMA HeldStep ==
  ASSUME Typed, NEW r \in Roles, Own(r), NEW q, q = Opponent(r), Sent(q), Heard(q)
  PROVE  Sent(q)' /\ Heard(q)'
<1>1. Kept(q) /\ handled'[q] = handled[q] /\ Opponent(q) = r
  BY OwnKeeps, TwoPeers
<1>2. handled[r] \subseteq handled'[r]
  BY DEF Own, PeerStep, Dump, Synced, Replace, SaveFails, PoliceDecides, Crash,
         Handle, HandleLate, Answered, AttemptFails, Resume, See, Expire, Typed, Rest
<1> QED BY <1>1, <1>2 DEF Sent, Heard, Kept
---------------------------------------------------------------------------
\* The stages from which the opponent's call c is still to come.
Until(c) ==
  IF c = "commit"
    THEN {"reveal", "see_commit", "see_reveal", "think", "dump", "replace", "commit"}
  ELSE IF c = "reveal" THEN {"commit", "reveal"}
  ELSE IF c = "audit" THEN {"reveal", "see_commit", "see_reveal", "audit"}
  ELSE {"audit", "see_audit", "result"}

Ordered == \A r \in Roles : Sent(r) /\ Heard(r)

\* w waits for what o will send, and o does not wait for w.
Pending(w, o) ==
  /\ stage[o] \in Until(Answer[stage[w]])
  /\ stage[o] = Answer[stage[w]] => turn[o] = turn[w]
  /\ stage[o] \in Waits => Arrived(o)
  /\ stage[o] # "see_result"
  /\ w = Thief /\ stage[w] \in {"see_commit", "see_reveal"} =>
       \/ stage[o] = "reveal" /\ turn[o] = turn[w] - 1
       \/ turn[o] = turn[w]
  /\ w = Police /\ stage[w] \in {"see_commit", "see_reveal"} /\ turn[o] = turn[w] =>
       stage[o] \notin {"see_commit", "see_reveal"} /\ (stage[w] = "see_commit" => stage[o] # "reveal")

LEMMA AwaitsTurn ==
  ASSUME Typed, Ordered, NEW w \in Roles, NEW o, o = Opponent(w), stage[w] \in {"see_commit", "see_reveal"},
         ~Arrived(w), stage[o] \notin {"lost", "crashed"}
  PROVE  Pending(w, o)
<1>1. /\ o \in Roles /\ Opponent(o) = w /\ w \in {"thief", "police"} /\ o = (IF w = "thief" THEN "police" ELSE "thief")
      /\ Thief = "thief" /\ Police = "police"
  BY TwoPeers DEF Roles, Thief, Police, Opponent
<1>2. /\ turn[w] \in 1 .. Turns /\ turn[o] \in 1 .. Turns /\ stage[o] \in Stages
      /\ Place(w, stage[w], turn[w]) /\ Place(o, stage[o], turn[o]) /\ Turns \in Nat
  BY <1>1, DeadlineAssumption DEF Typed, Peers
<1>3. /\ Answer["see_commit"] = "commit" /\ Answer["see_reveal"] = "reveal"
      /\ {"commit", "reveal"} \subseteq Calls
  BY DEF Answer, Calls
<1>4. \A c \in {"commit", "reveal"}, k \in 1 .. Turns :
        /\ Over(o, stage[o], turn[o], c, k) => <<c, k>> \in handled[o]
        /\ <<c, k>> \in handled[o] =>
             Over(o, stage[o], turn[o], c, k) \/ (stage[o] = c /\ turn[o] = k)
        /\ Over(w, stage[w], turn[w], c, k) => <<c, k>> \in handled[w]
        /\ Known(w, stage[w], turn[w], c, k) => <<c, k>> \in handled[o]
  BY <1>1, <1>3 DEF Ordered, Sent, Heard
<1>5. CASE w = "thief" /\ stage[w] = "see_commit"
  <2>1. ~Over(o, stage[o], turn[o], "commit", turn[w])
    BY <1>1, <1>2, <1>3, <1>4, <1>5 DEF Arrived
  <2>2. turn[w] = 1 \/ (turn[w] - 1 \in 1 .. Turns /\ Known(w, stage[w], turn[w], "reveal", turn[w] - 1))
    BY <1>2 DEF Known
  <2>3. turn[w] = 1 \/ Over(o, stage[o], turn[o], "reveal", turn[w] - 1)
         \/ (stage[o] = "reveal" /\ turn[o] = turn[w] - 1)
    BY <2>2, <1>4
  <2>4. \/ turn[o] = turn[w] /\ stage[o] # "reveal"
        \/ turn[o] = turn[w] - 1 /\ stage[o] = "reveal"
    BY <1>1, <1>2, <1>5, <2>1, <2>3 DEF Over, Final
  <2>5. stage[o] \in {"reveal", "see_commit", "see_reveal", "think", "commit"}
    BY <1>1, <1>2, <1>5, <2>4 DEF Place, Final, Stages, Calls, Waits, Work, Ends
  <2>6. Over(w, stage[w], turn[w], "commit", turn[w]) /\ Over(w, stage[w], turn[w], "reveal", turn[w])
    BY <1>1, <1>5 DEF Over
  <2>7. <<"commit", turn[w]>> \in handled[w] /\ <<"reveal", turn[w]>> \in handled[w]
    BY <1>2, <1>4, <2>6
  <2>8. stage[o] \in {"see_commit", "see_reveal"} => Arrived(o)
    BY <1>1, <1>3, <2>4, <2>7 DEF Arrived
  <2> QED BY <1>1, <1>3, <1>5, <2>4, <2>5, <2>8 DEF Pending, Until, Waits
<1>6. CASE w = "thief" /\ stage[w] = "see_reveal"
  <2>1. ~Over(o, stage[o], turn[o], "reveal", turn[w])
    BY <1>1, <1>2, <1>3, <1>4, <1>6 DEF Arrived
  <2>2. Known(w, stage[w], turn[w], "commit", turn[w])
    BY <1>6 DEF Known
  <2>3. Over(o, stage[o], turn[o], "commit", turn[w]) \/ (stage[o] = "commit" /\ turn[o] = turn[w])
    BY <1>2, <1>4, <2>2
  <2>4. turn[o] = turn[w] /\ stage[o] \in {"commit", "reveal"}
    BY <1>1, <1>2, <2>1, <2>3 DEF Over, Final
  <2> QED BY <1>1, <1>3, <1>6, <2>4 DEF Pending, Until, Waits
<1>7. CASE w = "police" /\ stage[w] = "see_commit"
  <2>1. ~Over(o, stage[o], turn[o], "commit", turn[w])
    BY <1>1, <1>2, <1>3, <1>4, <1>7 DEF Arrived
  <2>2. turn[w] = 1 \/ (turn[w] - 1 \in 1 .. Turns /\ Known(w, stage[w], turn[w], "reveal", turn[w] - 1))
    BY <1>2 DEF Known
  <2>3. turn[w] = 1 \/ Over(o, stage[o], turn[o], "reveal", turn[w] - 1)
         \/ (stage[o] = "reveal" /\ turn[o] = turn[w] - 1)
    BY <2>2, <1>4
  <2>4. \/ turn[o] = turn[w] /\ stage[o] \in {"think", "dump", "replace", "commit"}
        \/ turn[o] = turn[w] - 1 /\ stage[o] \in {"reveal", "see_commit", "see_reveal"}
    BY <1>1, <1>2, <1>7, <2>1, <2>3 DEF Over, Place, Final, Stages, Calls, Waits, Work, Ends
  <2>5. \/ turn[o] = turn[w]
        \/ <<"commit", turn[o]>> \in handled[w] /\ <<"reveal", turn[o]>> \in handled[w]
    <3>1. ASSUME turn[o] = turn[w] - 1
          PROVE  Over(w, stage[w], turn[w], "commit", turn[o]) /\ Over(w, stage[w], turn[w], "reveal", turn[o])
      BY <1>2, <3>1 DEF Over
    <3>2. CASE turn[o] = turn[w] - 1
      <4>1. /\ Over(w, stage[w], turn[w], "commit", turn[o]) => <<"commit", turn[o]>> \in handled[w]
            /\ Over(w, stage[w], turn[w], "reveal", turn[o]) => <<"reveal", turn[o]>> \in handled[w]
        BY <1>2, <1>4
      <4> QED BY <3>1, <3>2, <4>1
    <3> QED BY <2>4, <3>2
  <2>6. stage[o] \in {"see_commit", "see_reveal"} => Arrived(o)
    BY <1>1, <1>2, <1>3, <2>4, <2>5 DEF Arrived
  <2> QED BY <1>1, <1>2, <1>3, <1>7, <2>4, <2>6 DEF Pending, Until, Waits
<1>8. CASE w = "police" /\ stage[w] = "see_reveal"
  <2>1. ~Over(o, stage[o], turn[o], "reveal", turn[w])
    BY <1>1, <1>2, <1>3, <1>4, <1>8 DEF Arrived
  <2>2. Known(w, stage[w], turn[w], "commit", turn[w])
    BY <1>8 DEF Known
  <2>3. Over(o, stage[o], turn[o], "commit", turn[w]) \/ (stage[o] = "commit" /\ turn[o] = turn[w])
    BY <1>2, <1>4, <2>2
  <2>4. turn[o] = turn[w] /\ stage[o] \in {"commit", "reveal"}
    BY <1>1, <1>2, <2>1, <2>3 DEF Over, Final
  <2> QED BY <1>1, <1>3, <1>8, <2>4 DEF Pending, Until, Waits
<1> QED BY <1>1, <1>5, <1>6, <1>7, <1>8

LEMMA AwaitsResult ==
  ASSUME Typed, Ordered, NEW w \in Roles, NEW o, o = Opponent(w), stage[w] \in {"see_audit", "see_result"},
         ~Arrived(w), stage[o] \notin {"lost", "crashed"}
  PROVE  Pending(w, o)
<1>1. /\ o \in Roles /\ Opponent(o) = w /\ w \in {"thief", "police"} /\ o = (IF w = "thief" THEN "police" ELSE "thief")
      /\ Thief = "thief" /\ Police = "police"
  BY TwoPeers DEF Roles, Thief, Police, Opponent
<1>2. /\ turn[w] = Turns /\ Turns \in 1 .. Turns /\ turn[o] \in 1 .. Turns /\ stage[o] \in Stages
      /\ Place(w, stage[w], turn[w]) /\ Place(o, stage[o], turn[o]) /\ Turns \in Nat
  BY <1>1, DeadlineAssumption DEF Typed, Peers, Place, Final
<1>3. /\ Answer["see_commit"] = "commit" /\ Answer["see_reveal"] = "reveal"
      /\ Answer["see_audit"] = "audit" /\ Answer["see_result"] = "result"
      /\ Calls = {"commit", "reveal", "audit", "result"}
  BY DEF Answer, Calls
<1>4. \A c \in Calls, k \in 1 .. Turns :
        /\ Over(o, stage[o], turn[o], c, k) => <<c, k>> \in handled[o]
        /\ <<c, k>> \in handled[o] =>
             Over(o, stage[o], turn[o], c, k) \/ (stage[o] = c /\ turn[o] = k)
        /\ Over(w, stage[w], turn[w], c, k) => <<c, k>> \in handled[w]
        /\ Known(w, stage[w], turn[w], c, k) => <<c, k>> \in handled[o]
  BY <1>1 DEF Ordered, Sent, Heard
<1>5. CASE w = "thief" /\ stage[w] = "see_audit"
  <2>1. ~Over(o, stage[o], turn[o], "audit", Turns)
    BY <1>1, <1>2, <1>3, <1>4, <1>5 DEF Arrived
  <2>2. Turns = 1 \/ (Turns - 1 \in 1 .. Turns /\ Known(w, stage[w], turn[w], "reveal", Turns - 1))
    BY <1>2 DEF Known
  <2>3. Turns = 1 \/ Over(o, stage[o], turn[o], "reveal", Turns - 1)
         \/ (stage[o] = "reveal" /\ turn[o] = Turns - 1)
    BY <1>3, <2>2, <1>4
  <2>4. \/ turn[o] = Turns /\ stage[o] \in {"see_commit", "see_reveal", "audit"}
        \/ turn[o] = Turns - 1 /\ stage[o] = "reveal"
    BY <1>1, <1>2, <1>5, <2>1, <2>3 DEF Over, Place, Final, Stages, Calls, Waits, Work, Ends
  <2>5. Over(w, stage[w], turn[w], "commit", Turns) /\ Over(w, stage[w], turn[w], "reveal", Turns)
    BY <1>1, <1>2, <1>5 DEF Over, Final
  <2>6. <<"commit", Turns>> \in handled[w] /\ <<"reveal", Turns>> \in handled[w]
    BY <1>2, <1>3, <1>4, <2>5
  <2>7. stage[o] \in {"see_commit", "see_reveal"} => Arrived(o)
    BY <1>1, <1>3, <2>4, <2>6 DEF Arrived
  <2> QED BY <1>1, <1>2, <1>3, <1>5, <2>4, <2>7 DEF Pending, Until, Waits
<1>6. CASE w = "police" /\ stage[w] = "see_audit"
  <2>1. ~Over(o, stage[o], turn[o], "audit", Turns)
    BY <1>1, <1>2, <1>3, <1>4, <1>6 DEF Arrived
  <2>2. Known(w, stage[w], turn[w], "reveal", Turns)
    BY <1>1, <1>2, <1>6 DEF Known
  <2>3. Over(o, stage[o], turn[o], "reveal", Turns) \/ (stage[o] = "reveal" /\ turn[o] = Turns)
    BY <1>2, <1>3, <1>4, <2>2
  <2>4. turn[o] = Turns /\ stage[o] \in {"reveal", "audit"}
    BY <1>1, <1>2, <2>1, <2>3 DEF Over, Place, Final
  <2> QED BY <1>1, <1>2, <1>3, <1>6, <2>4 DEF Pending, Until, Waits
<1>7. CASE stage[w] = "see_result"
  <2>1. ~Over(o, stage[o], turn[o], "result", Turns)
    BY <1>1, <1>2, <1>3, <1>4, <1>7 DEF Arrived
  <2>2. Known(w, stage[w], turn[w], "audit", Turns) /\ Over(w, stage[w], turn[w], "audit", Turns)
    BY <1>2, <1>7 DEF Known, Over
  <2>3. Over(o, stage[o], turn[o], "audit", Turns) \/ (stage[o] = "audit" /\ turn[o] = Turns)
    BY <1>2, <1>3, <1>4, <2>2
  <2>4. turn[o] = Turns /\ stage[o] \in {"audit", "see_audit", "result"}
    BY <1>1, <1>2, <2>1, <2>3 DEF Over, Place, Final
  <2>5. stage[o] = "see_audit" => Arrived(o)
    BY <1>1, <1>2, <1>3, <1>4, <2>2, <2>4 DEF Arrived
  <2> QED BY <1>1, <1>2, <1>3, <1>7, <2>4, <2>5 DEF Pending, Until, Waits
<1> QED BY <1>1, <1>5, <1>6, <1>7

LEMMA Awaits ==
  ASSUME Typed, Ordered, NEW w \in Roles, stage[w] \in Waits, ~Arrived(w),
         stage[Opponent(w)] \notin {"lost", "crashed"}
  PROVE  Pending(w, Opponent(w))
BY AwaitsTurn, AwaitsResult DEF Waits
---------------------------------------------------------------------------
\* The time of n attempts that fail, each with its pause.
Again(n) == n * (Slow + RetryDelay)

LEMMA Times ==
  /\ Think \in Nat /\ Reply \in Nat /\ RetryDelay \in Nat /\ Losses \in Nat /\ Losses <= Retries
  /\ Slow \in Nat /\ Reply <= Slow /\ Failing <= Slow /\ Failing \in Nat
  /\ CallTime \in Nat /\ Reply <= CallTime /\ CallTime = Again(Losses) + Reply /\ Again(0) = 0
  /\ \A n \in 0 .. Losses : /\ Again(n) \in Nat /\ Again(n) <= Again(Losses)
                            /\ n > 0 => Again(n) = Again(n - 1) + Slow + RetryDelay
                            /\ n < Losses => Again(n) + Slow + RetryDelay <= Again(Losses)
<1>1. /\ Think \in Nat /\ Reply \in Nat /\ RetryDelay \in Nat /\ Losses \in Nat /\ Losses <= Retries
      /\ Slow \in Nat /\ Reply <= Slow /\ Failing <= Slow /\ Failing \in Nat
  BY DeadlineAssumption DEF Slow
<1> DEFINE D == Slow + RetryDelay
<1>2. D \in Nat /\ Again(0) = 0 /\ CallTime = Again(Losses) + Reply /\ \A n \in Nat : Again(n) = n * D
  BY <1>1 DEF Again, CallTime
<1>3. ASSUME NEW n \in 0 .. Losses
      PROVE  /\ Again(n) \in Nat /\ Again(n) <= Again(Losses)
             /\ n > 0 => Again(n) = Again(n - 1) + D
             /\ n < Losses => Again(n) + D <= Again(Losses)
  <2> HIDE DEF D
  <2>1. n * D \in Nat /\ (Losses - n) * D \in Nat /\ Losses * D = n * D + (Losses - n) * D
    BY <1>1, <1>2
  <2>2. ASSUME n > 0 PROVE Again(n) = Again(n - 1) + D
    <3>1. n - 1 \in Nat /\ n * D = (n - 1) * D + D
      BY <1>1, <1>2, <2>2
    <3> QED BY <1>1, <1>2, <3>1
  <2>3. ASSUME n < Losses PROVE Again(n) + D <= Again(Losses)
    <3>1. /\ Losses - n - 1 \in Nat /\ (Losses - n - 1) * D \in Nat
          /\ (Losses - n) * D = (Losses - n - 1) * D + D
      BY <1>1, <1>2, <2>3
    <3> QED BY <1>1, <1>2, <2>1, <3>1
  <2>4. Again(n) \in Nat /\ Again(n) <= Again(Losses)
    <3>1. Again(n) = n * D /\ Again(Losses) = Losses * D
      BY <1>1, <1>2
    <3> QED BY <2>1, <3>1
  <2> QED BY <2>2, <2>3, <2>4
<1>4. CallTime \in Nat /\ Reply <= CallTime
  BY <1>1, <1>2, <1>3
<1> QED BY <1>1, <1>2, <1>3, <1>4

\* The opponent being up, an attempt takes its time, and at most Losses fail.
InCall(r) == stage[r] \in Calls =>
  /\ failed[r] <= Losses
  /\ timer[r] <= IF paused[r] THEN RetryDelay ELSE IF failed[r] < Losses THEN Slow ELSE Reply

\* How long the thought or the call may still take.
Left(r) ==
  IF stage[r] = "think" THEN Think - timer[r]
  ELSE IF stage[r] \in Calls
    THEN Again(Losses - failed[r]) + Reply + (IF paused[r] THEN RetryDelay ELSE 0) - timer[r]
  ELSE 0

Budget(s) == IF s = "think" THEN Think ELSE IF s \in Calls THEN CallTime ELSE 0

LEMMA LeftIn ==
  ASSUME Typed, NEW r \in Roles, InCall(r)
  PROVE  Left(r) \in Nat /\ Left(r) <= Budget(stage[r])
<1>1. timer[r] \in Nat /\ failed[r] \in 0 .. Retries /\ paused[r] \in BOOLEAN /\ ClockIn(r)
  BY DEF Typed, Peers
<1>2. CASE stage[r] = "think"
  BY <1>1, <1>2, Times DEF Left, Budget, ClockIn
<1>3. CASE stage[r] \in Calls
  <2> DEFINE n == Losses - failed[r]
  <2>1. n \in 0 .. Losses /\ stage[r] # "think" /\ failed[r] \in Nat
    BY <1>1, <1>3, Times DEF InCall, Calls
  <2>2. Left(r) = Again(n) + Reply + (IF paused[r] THEN RetryDelay ELSE 0) - timer[r]
    BY <1>3, <2>1 DEF Left
  <2> HIDE DEF n
  <2>3. /\ Again(n) \in Nat /\ Again(n) <= Again(Losses)
        /\ n > 0 => Slow + RetryDelay <= Again(n)
        /\ n < Losses => Again(n) + Slow + RetryDelay <= Again(Losses)
    <3>1. n > 0 => n - 1 \in 0 .. Losses
      BY <2>1, Times
    <3> QED BY <2>1, <3>1, Times
  <2>4. CASE paused[r]
    <3>1. timer[r] <= RetryDelay /\ n < Losses
      BY <1>1, <1>3, <2>1, <2>4, Times DEF InCall, ClockIn, n
    <3> QED BY <1>1, <1>3, <2>1, <2>2, <2>3, <2>4, <3>1, Times DEF Budget
  <2>5. CASE ~paused[r]
    <3>1. timer[r] <= Slow /\ (n = 0 => timer[r] <= Reply)
      BY <1>1, <1>3, <2>1, <2>5, Times DEF InCall, n
    <3> QED BY <1>1, <1>3, <2>1, <2>2, <2>3, <2>5, <3>1, Times DEF Budget
  <2> QED BY <2>4, <2>5
<1>4. CASE stage[r] # "think" /\ stage[r] \notin Calls
  BY <1>4 DEF Left, Budget
<1> QED BY <1>2, <1>3, <1>4

LEMMA LeftAdvances ==
  ASSUME Typed, NEW r \in Roles, Advances(r)
  PROVE  Left(r)' = Budget(stage'[r]) /\ InCall(r)'
<1>1. timer'[r] = 0 /\ failed'[r] = 0 /\ paused'[r] = FALSE
  BY DEF Advances
<1>2. Losses - 0 = Losses
  BY Times
<1> QED BY <1>1, <1>2, Times DEF Left, Budget, InCall

LEMMA LeftRepeats ==
  ASSUME Typed, NEW r \in Roles, InCall(r), Repeats(r), Serving(Opponent(r))
  PROVE  Left(r)' <= Left(r) /\ InCall(r)'
<1>1. /\ timer[r] \in Nat /\ failed[r] \in 0 .. Retries /\ stage[r] \in Calls /\ stage'[r] = stage[r]
      /\ stage[r] # "think"
  BY DEF Typed, Peers, Repeats, Calls
<1>2. CASE ~paused[r]
  <2>1. /\ failed[r] < Losses /\ failed'[r] = failed[r] + 1 /\ paused'[r] = TRUE /\ timer'[r] = 0
        /\ timer[r] <= Slow
    BY <1>1, <1>2 DEF Repeats, MayFail, InCall
  <2>2. Again(Losses - failed[r]) = Again(Losses - failed'[r]) + Slow + RetryDelay
        /\ Again(Losses - failed'[r]) \in Nat
    <3>1. /\ Losses - failed[r] \in 0 .. Losses /\ Losses - failed[r] > 0
          /\ Losses - failed[r] - 1 = Losses - failed'[r] /\ Losses - failed'[r] \in 0 .. Losses
      BY <1>1, <2>1, Times
    <3> QED BY <3>1, Times
  <2> QED BY <1>1, <1>2, <2>1, <2>2, Times DEF Left, InCall
<1>3. CASE paused[r]
  <2>1. failed'[r] = failed[r] /\ paused'[r] = FALSE /\ timer'[r] = 0 /\ timer[r] = RetryDelay
    BY <1>3 DEF Repeats
  <2>2. Again(Losses - failed[r]) \in Nat /\ failed[r] <= Losses
    <3>1. Losses - failed[r] \in 0 .. Losses
      BY <1>1, Times DEF InCall
    <3> QED BY <1>1, <3>1, Times DEF InCall
  <2> QED BY <1>1, <1>3, <2>1, <2>2, Times DEF Left, InCall
<1> QED BY <1>2, <1>3

LEMMA LeftTick ==
  ASSUME Typed, NEW r \in Roles, InCall(r), Tick, Up(r), Serving(Opponent(r))
  PROVE  /\ stage[r] \in Calls \cup {"think"} => Left(r)' = Left(r) - 1 /\ Left(r) > 0
         /\ InCall(r)'
<1>1. /\ timer[r] \in Nat /\ failed[r] \in 0 .. Retries /\ InTime(r) /\ timer'[r] = timer[r] + 1
      /\ UNCHANGED <<stage, failed, paused>>
  BY TickKeeps DEF Typed, Peers
<1>2. CASE stage[r] \in Calls
  <2>1. stage[r] # "think" /\ stage[r] \notin Waits
    BY <1>2 DEF Calls, Waits
  <2>2. /\ Again(Losses - failed[r]) \in Nat /\ failed[r] <= Losses
        /\ failed[r] < Losses => Slow + RetryDelay <= Again(Losses - failed[r])
    <3>1. Losses - failed[r] \in 0 .. Losses /\ failed[r] <= Losses
      BY <1>1, <1>2, Times DEF InCall
    <3>2. failed[r] < Losses => Losses - failed[r] > 0 /\ Losses - failed[r] - 1 \in 0 .. Losses
      BY <1>1, <3>1, Times
    <3> QED BY <3>1, <3>2, Times
  <2>3. timer[r] < IF paused[r] THEN RetryDelay ELSE IF failed[r] < Losses THEN Slow ELSE Reply
    BY <1>1, <1>2, <2>1, Times DEF InTime, Calling, AttemptTime, Slow
  <2> QED BY <1>1, <1>2, <2>1, <2>2, <2>3, Times DEF Left, InCall
<1>3. CASE stage[r] = "think"
  <2>1. timer[r] < Think /\ stage[r] \notin Calls
    BY <1>1, <1>3 DEF InTime, Calling, Calls, Waits
  <2> QED BY <1>1, <1>3, <2>1, Times DEF Left, InCall
<1>4. CASE stage[r] \notin Calls \cup {"think"}
  BY <1>1, <1>4 DEF InCall
<1> QED BY <1>2, <1>3, <1>4
---------------------------------------------------------------------------
\* What is to come before the call c begins, and the call.
Ahead(s, c) ==
  IF s = c THEN 0
  ELSE IF c = "commit" /\ s \in {"reveal", "see_commit", "see_reveal"} THEN Think + CallTime
  ELSE CallTime

Patient(w) == stage[w] \in Waits /\ ~Arrived(w) =>
  timer[w] + Left(Opponent(w)) + Ahead(stage[Opponent(w)], Answer[stage[w]]) <= 2 * CallTime + Think

LEMMA AheadIn ==
  ASSUME NEW c \in Calls, NEW s \in Until(c), NEW l \in Nat, l <= Budget(s)
  PROVE  Ahead(s, c) \in Nat /\ l + Ahead(s, c) <= 2 * CallTime + Think
<1>1. Think \in Nat /\ CallTime \in Nat /\ c \in {"commit", "reveal", "audit", "result"}
  BY Times DEF Calls
<1>2. CASE c = "commit"
  BY <1>1, <1>2 DEF Until, Ahead, Budget, Calls
<1>3. CASE c # "commit"
  BY <1>1, <1>3 DEF Until, Ahead, Budget, Calls
<1> QED BY <1>2, <1>3

LEMMA AheadFalls ==
  ASSUME NEW r \in Roles, NEW s, NEW t \in Nat, NEW s2, NEW t2, Passes(r, s, t, s2, t2),
         NEW c \in Calls, s \in Until(c), s2 \in Until(c), s # c, NEW l \in Nat
  PROVE  Budget(s2) + Ahead(s2, c) <= l + Ahead(s, c)
<1>1. Think \in Nat /\ CallTime \in Nat /\ c \in {"commit", "reveal", "audit", "result"}
  BY Times DEF Calls
<1>2. CASE c = "commit"
  BY <1>1, <1>2 DEF Until, Ahead, Budget, Calls, Passes
<1>3. CASE c = "reveal"
  BY <1>1, <1>3 DEF Until, Ahead, Budget, Calls, Passes
<1>4. CASE c = "audit"
  BY <1>1, <1>4 DEF Until, Ahead, Budget, Calls, Passes
<1>5. CASE c = "result"
  BY <1>1, <1>5 DEF Until, Ahead, Budget, Calls, Passes
<1> QED BY <1>1, <1>2, <1>3, <1>4, <1>5

Settled == Typed /\ Ordered /\ \A r \in Roles : stage[r] \notin {"lost", "crashed"}
AllPending == \A w \in Roles : stage[w] \in Waits /\ ~Arrived(w) => Pending(w, Opponent(w))

LEMMA PendingNow == Settled => AllPending
BY Awaits, TwoPeers DEF Settled, AllPending

LEMMA PendingNext == Settled' => AllPending'
BY PendingNow, PTL

\* A peer that is lost or has crashed takes no further step.
InOrder == (\A r \in Roles : stage[r] \notin {"lost", "crashed"}) => Ordered

LEMMA InOrderStep == ASSUME Typed, InOrder, [Next]_vars PROVE InOrder'
<1>1. CASE UNCHANGED <<stage, turn, handled>>
  BY <1>1 DEF InOrder, Ordered, Sent, Heard
<1>2. ASSUME NEW r \in Roles, Own(r) PROVE InOrder'
  <2> SUFFICES ASSUME \A x \in Roles : stage'[x] \notin {"lost", "crashed"} PROVE Ordered'
    BY DEF InOrder
  <2>1. Advances(r) \/ Repeats(r) \/ Carries(r)
    BY <1>2, OwnAdvances
  <2>2. PICK q \in Roles : q = Opponent(r) /\ \A x \in Roles : x = r \/ x = q
    BY TwoPeers
  <2>3. \A x \in Roles : stage[x] \notin {"lost", "crashed"}
    BY <1>2, <2>2, OwnKeeps DEF Kept, Ends, HandleLate
  <2> QED BY <1>2, <2>1, <2>2, <2>3, SentStep, HeardStep, HeldStep DEF InOrder, Ordered
<1>3. CASE Tick
  BY <1>1, <1>3, TickKeeps
<1> QED BY <1>1, <1>2, <1>3, NextIsOwn DEF vars

LEMMA LeftKept ==
  ASSUME NEW q, Kept(q)
  PROVE  Left(q)' = Left(q) /\ (InCall(q) => InCall(q)')
BY DEF Kept, Left, InCall

LEMMA PatientOwn ==
  ASSUME Settled, AllPending', NEW r \in Roles, NEW q, q = Opponent(r), Own(r),
         Advances(r) \/ Repeats(r) \/ Carries(r), InCall(r), InCall(q), Patient(r), Patient(q)
  PROVE  InCall(r)' /\ InCall(q)' /\ Patient(r)' /\ Patient(q)'
<1>1. /\ q \in Roles /\ Opponent(q) = r /\ Kept(q) /\ AllPending /\ Typed
      /\ stage[r] \in Stages /\ turn[r] \in 1 .. Turns /\ timer[q] \in Nat
      /\ handled[r] \subseteq handled'[r] /\ handled'[q] = handled[q]
  <2>1. handled[r] \subseteq handled'[r]
    BY DEF Advances, Repeats, Carries, Settled, Typed, Rest
  <2> QED BY <2>1, OwnKeeps, TwoPeers, PendingNow DEF Settled, Typed, Peers
<1>2. Left(q)' = Left(q) /\ InCall(q)' /\ Left(q) \in Nat /\ Left(q) <= Budget(stage[q])
  BY <1>1, LeftKept, LeftIn
<1>3. Serving(q) /\ Left(r) \in Nat
  BY <1>1, LeftIn DEF Settled, Serving
<1>4. InCall(r)'
  <2>1. CASE Carries(r)
    BY <2>1 DEF Carries, InCall
  <2> QED BY <1>1, <1>3, <2>1, LeftAdvances, LeftRepeats
<1>5. ASSUME stage'[r] \in Waits, ~Arrived(r)'
      PROVE  timer'[r] + Left(q)' + Ahead(stage'[q], Answer[stage'[r]]) <= 2 * CallTime + Think
  <2>1. Advances(r)
    BY <1>5 DEF Repeats, Carries, Calling, Calls, Waits
  <2>2. timer'[r] = 0 /\ stage'[q] = stage[q]
    BY <1>1, <2>1 DEF Advances, Kept
  <2>3. Answer[stage'[r]] \in Calls /\ stage[q] \in Until(Answer[stage'[r]])
    BY <1>1, <1>5, <2>2 DEF AllPending, Pending, Answer, Waits, Calls
  <2> QED BY <1>2, <2>2, <2>3, AheadIn
<1>6. ASSUME stage'[q] \in Waits, ~Arrived(q)'
      PROVE  timer'[q] + Left(r)' + Ahead(stage'[r], Answer[stage'[q]]) <= 2 * CallTime + Think
  <2> DEFINE c == Answer[stage[q]]
  <2>1. /\ stage[q] \in Waits /\ stage'[q] = stage[q] /\ timer'[q] = timer[q] /\ turn'[q] = turn[q]
        /\ ~Arrived(q) /\ c \in Calls
    BY <1>1, <1>6 DEF Kept, Arrived, Answer, Waits, Calls
  <2>2. timer[q] + Left(r) + Ahead(stage[r], c) <= 2 * CallTime + Think
    BY <1>1, <2>1 DEF Patient
  <2>3. Pending(q, r) /\ Pending(q, r)'
    BY <1>1, <1>6, <2>1 DEF AllPending
  <2>4. stage[r] \in Until(c) /\ (stage[r] = c => turn[r] = turn[q]) /\ stage'[r] \in Until(c)
    BY <2>1, <2>3 DEF Pending
  <2> HIDE DEF c
  <2>5. Ahead(stage[r], c) \in Nat /\ Ahead(stage'[r], c) \in Nat
    BY <2>1, <2>4, Times DEF Ahead
  <2>6. CASE Carries(r)
    <3>1. Left(r)' = Left(r) /\ stage'[r] = stage[r]
      BY <2>6 DEF Carries, Left
    <3> QED BY <2>1, <2>2, <3>1 DEF c
  <2>7. CASE Repeats(r)
    <3>1. Left(r)' <= Left(r) /\ stage'[r] = stage[r]
      BY <1>1, <1>3, <2>7, LeftRepeats DEF Repeats
    <3>2. Left(r)' \in Int
      <4>1. /\ Losses - failed'[r] \in 0 .. Losses /\ timer'[r] = 0
            /\ stage'[r] \in Calls /\ stage'[r] # "think"
        <5>1. failed'[r] \in Nat /\ failed'[r] <= Losses
          BY <1>1, <1>4, <2>7 DEF Repeats, InCall, Typed, Peers
        <5> QED BY <2>7, <5>1, Times DEF Repeats, Calls
      <4> QED BY <4>1, Times DEF Left
    <3> QED BY <1>1, <1>3, <2>1, <2>2, <2>5, <3>1, <3>2, Times DEF c
  <2>8. CASE Advances(r)
    <3>1. /\ Passes(r, stage[r], turn[r], stage'[r], turn'[r]) /\ handled' = handled
          /\ stage[r] \in Calls => <<stage[r], turn[r]>> \in handled[r]
      BY <2>8 DEF Advances, Request
    <3>2. stage[r] # c
      BY <1>1, <2>1, <2>4, <3>1 DEF Arrived, c
    <3>3. Left(r)' = Budget(stage'[r])
      BY <1>1, <2>8, LeftAdvances
    <3>4. Budget(stage'[r]) + Ahead(stage'[r], c) <= Left(r) + Ahead(stage[r], c)
      BY <1>1, <1>3, <2>1, <2>4, <3>1, <3>2, AheadFalls
    <3>5. Budget(stage'[r]) \in Nat
      BY Times DEF Budget
    <3> QED BY <1>1, <1>3, <2>1, <2>2, <2>5, <3>3, <3>4, <3>5, Times DEF c
  <2> QED BY <2>6, <2>7, <2>8
<1>7. Patient(r)' /\ Patient(q)'
  BY <1>1, <1>5, <1>6 DEF Patient
<1> QED BY <1>2, <1>4, <1>7

LEMMA PatientTick ==
  ASSUME Settled, Tick, NEW r \in Roles, NEW q, q = Opponent(r), InCall(r), InCall(q), Patient(r)
  PROVE  InCall(r)' /\ Patient(r)'
<1>1. /\ q \in Roles /\ Opponent(q) = r /\ Typed /\ AllPending /\ Serving(q) /\ Serving(r)
      /\ UNCHANGED <<stage, turn, failed, paused, handled>> /\ timer[r] \in Nat
  BY TwoPeers, TickKeeps, PendingNow DEF Settled, Serving, Typed, Peers
<1>2. InCall(r)'
  <2>1. CASE Up(r)
    BY <1>1, <2>1, LeftTick
  <2>2. CASE ~Up(r)
    BY <1>1, <2>2 DEF InCall, Up, Ends, Calls
  <2> QED BY <2>1, <2>2
<1>3. ASSUME stage[r] \in Waits, ~Arrived(r)
      PROVE  timer'[r] + Left(q)' + Ahead(stage[q], Answer[stage[r]]) <= 2 * CallTime + Think
  <2>1. Up(r) /\ timer'[r] = timer[r] + 1
    BY <1>1, <1>3, TickKeeps DEF Up, Waits, Ends
  <2>2. /\ timer[r] + Left(q) + Ahead(stage[q], Answer[stage[r]]) <= 2 * CallTime + Think
        /\ stage[q] \in Until(Answer[stage[r]]) /\ Answer[stage[r]] \in Calls
        /\ stage[q] \in Waits => Arrived(q)
    BY <1>1, <1>3 DEF Patient, AllPending, Pending, Answer, Waits, Calls
  <2>3. stage[q] \in Calls \cup Waits \cup Work /\ Up(q)
    BY <2>2 DEF Until, Calls, Waits, Work, Up, Ends
  <2>4. InTime(q)
    BY <1>1, <2>3, TickKeeps
  <2>5. stage[q] \in Calls \cup {"think"}
    BY <2>2, <2>3, <2>4 DEF InTime, Calling, Calls, Waits, Work
  <2>6. Left(q)' = Left(q) - 1 /\ Left(q) \in Nat
    BY <1>1, <2>3, <2>5, LeftTick, LeftIn
  <2>7. Ahead(stage[q], Answer[stage[r]]) \in Nat
    BY Times DEF Ahead
  <2> QED BY <1>1, <2>1, <2>2, <2>6, <2>7, Times
<1>4. Patient(r)'
  BY <1>1, <1>3 DEF Patient, Arrived
<1> QED BY <1>2, <1>4
---------------------------------------------------------------------------
\* How old the Thief's heartbeat may be when a peer ends this stage.
ByThief(s) == IF s = "commit" THEN CallTime
              ELSE IF s = "reveal" THEN 2 * CallTime
              ELSE 4 * CallTime + Think

ByPolice(s) == IF s \in {"see_commit", "see_reveal"} THEN 2 * CallTime
               ELSE IF s = "think" THEN 2 * CallTime + Think
               ELSE IF s = "commit" THEN 3 * CallTime + Think
               ELSE 4 * CallTime + Think

Playing == stage[Thief] \in {"commit", "reveal", "see_commit", "see_reveal"}

Heartbeat == Playing =>
  /\ idle + Left(Thief) <= ByThief(stage[Thief])
  /\ turn[Police] = turn[Thief] - 1 /\ stage[Police] = "reveal" => idle + Left(Police) <= CallTime
  /\ turn[Police] = turn[Thief] /\ stage[Police] \in {"see_commit", "see_reveal", "think", "commit", "reveal"}
       => idle + Left(Police) <= ByPolice(stage[Police])

LEMMA HeartThief ==
  ASSUME Settled, Heartbeat, Own(Thief), Advances(Thief) \/ Repeats(Thief) \/ Carries(Thief),
         \A r \in Roles : InCall(r)
  PROVE  Heartbeat'
<1>1. /\ Thief \in Roles /\ Police \in Roles /\ Thief # Police /\ Kept(Police) /\ idle \in Nat
      /\ turn[Thief] \in 1 .. Turns /\ Typed /\ Serving(Police)
  BY OwnKeeps, TheRoles DEF Settled, Typed, Peers, Rest, Serving
<1>2. /\ Left(Thief) \in Nat /\ Left(Police) \in Nat /\ Left(Police) <= Budget(stage[Police])
      /\ Left(Police)' = Left(Police)
  BY <1>1, LeftIn, LeftKept
<1>3. CASE Carries(Thief)
  BY <1>1, <1>3 DEF Carries, Heartbeat, Playing, Left
<1>4. CASE Repeats(Thief)
  <2>1. idle' = idle /\ stage'[Thief] = stage[Thief] /\ turn'[Thief] = turn[Thief]
    BY <1>4 DEF Repeats
  <2>2. Left(Thief)' <= Left(Thief) /\ InCall(Thief)'
    BY <1>1, <1>4, TheRoles, LeftRepeats
  <2>3. Left(Thief)' \in Int
    <3>1. /\ Losses - failed'[Thief] \in 0 .. Losses /\ timer'[Thief] = 0
          /\ stage'[Thief] \in Calls /\ stage'[Thief] # "think"
      <4>1. failed'[Thief] \in Nat /\ failed'[Thief] <= Losses
        BY <1>1, <1>4, <2>2 DEF Repeats, InCall, Typed, Peers
      <4> QED BY <1>4, <4>1, Times DEF Repeats, Calls
    <3> QED BY <3>1, Times DEF Left
  <2>4. ByThief(stage[Thief]) \in Nat
    BY Times DEF ByThief
  <2> QED BY <1>1, <1>2, <2>1, <2>2, <2>3, <2>4 DEF Heartbeat, Playing, Kept
<1>5. CASE Advances(Thief)
  <2>1. /\ Passes(Thief, stage[Thief], turn[Thief], stage'[Thief], turn'[Thief])
        /\ idle' = (IF stage[Thief] = "replace" THEN 0 ELSE idle)
        /\ Left(Thief)' = Budget(stage'[Thief])
    BY <1>1, <1>5, LeftAdvances DEF Advances
  <2>2. CASE stage[Thief] = "replace"
    <3>1. idle' = 0 /\ stage'[Thief] = "commit"
      BY <2>1, <2>2 DEF Passes
    <3>2. Left(Thief)' = CallTime
      BY <2>1, <3>1 DEF Budget, Calls
    <3>3. /\ stage'[Police] = stage[Police]
          /\ stage[Police] \in {"see_commit", "see_reveal", "think", "commit", "reveal"} =>
               Left(Police) <= ByPolice(stage[Police])
          /\ stage[Police] = "reveal" => Left(Police) <= CallTime
      BY <1>1, <1>2, Times DEF Budget, ByPolice, Calls, Kept
    <3> QED BY <1>2, <3>1, <3>2, <3>3, Times DEF Heartbeat, Playing, ByThief
  <2>3. CASE stage[Thief] # "replace" /\ Playing'
    <3>1. /\ idle' = idle /\ turn'[Thief] = turn[Thief] /\ Playing
          /\ \/ stage[Thief] = "commit" /\ stage'[Thief] = "reveal"
             \/ stage[Thief] = "reveal" /\ stage'[Thief] = "see_commit"
             \/ stage[Thief] = "see_commit" /\ stage'[Thief] = "see_reveal"
      BY <1>1, <2>1, <2>3, TheRoles DEF Passes, Playing
    <3>2. idle + Left(Thief)' <= ByThief(stage'[Thief])
      BY <1>1, <1>2, <2>1, <3>1, Times DEF Heartbeat, ByThief, Budget, Calls
    <3> QED BY <1>1, <1>2, <3>1, <3>2 DEF Heartbeat, Kept
  <2>4. CASE ~Playing'
    BY <2>4 DEF Heartbeat
  <2> QED BY <2>2, <2>3, <2>4
<1> QED BY <1>3, <1>4, <1>5

LEMMA HeartPolice ==
  ASSUME Settled, Heartbeat, Own(Police), Advances(Police) \/ Repeats(Police) \/ Carries(Police),
         \A r \in Roles : InCall(r)
  PROVE  Heartbeat'
<1>1. /\ Thief \in Roles /\ Police \in Roles /\ Thief # Police /\ Kept(Thief) /\ idle \in Nat
      /\ turn[Thief] \in 1 .. Turns /\ turn[Police] \in 1 .. Turns /\ Typed /\ Serving(Thief)
      /\ Place(Police, stage[Police], turn[Police]) /\ Opponent(Thief) = Police
      /\ Thief = "thief" /\ Police = "police"
  BY OwnKeeps, TheRoles DEF Settled, Typed, Peers, Rest, Serving, Thief, Police
<1>2. Left(Thief)' = Left(Thief) /\ Left(Police) \in Nat
  BY <1>1, LeftIn, LeftKept
<1>3. CASE Carries(Police)
  BY <1>1, <1>3 DEF Carries, Heartbeat, Playing, Left
<1>4. CASE Repeats(Police)
  <2>1. idle' = idle /\ stage'[Police] = stage[Police] /\ turn'[Police] = turn[Police]
    BY <1>4 DEF Repeats
  <2>2. Left(Police)' <= Left(Police) /\ InCall(Police)'
    BY <1>1, <1>4, TheRoles, LeftRepeats
  <2>3. Left(Police)' \in Int
    <3>1. /\ Losses - failed'[Police] \in 0 .. Losses /\ timer'[Police] = 0
          /\ stage'[Police] \in Calls /\ stage'[Police] # "think"
      <4>1. failed'[Police] \in Nat /\ failed'[Police] <= Losses
        BY <1>1, <1>4, <2>2 DEF Repeats, InCall, Typed, Peers
      <4> QED BY <1>4, <4>1, Times DEF Repeats, Calls
    <3> QED BY <3>1, Times DEF Left
  <2>4. ByPolice(stage[Police]) \in Nat /\ CallTime \in Nat
    BY Times DEF ByPolice
  <2> QED BY <1>1, <1>2, <2>1, <2>2, <2>3, <2>4 DEF Heartbeat, Playing, Kept
<1>5. CASE Advances(Police)
  <2>1. /\ Passes(Police, stage[Police], turn[Police], stage'[Police], turn'[Police])
        /\ idle' = idle /\ Left(Police)' = Budget(stage'[Police])
    BY <1>1, <1>5, LeftAdvances DEF Advances, Place
  <2> SUFFICES ASSUME Playing' PROVE Heartbeat'
    BY DEF Heartbeat
  <2>2. Playing /\ stage'[Thief] = stage[Thief] /\ turn'[Thief] = turn[Thief]
    BY <1>1 DEF Playing, Kept
  <2>3. ~(turn[Police] = turn[Thief] - 1 /\ stage[Police] = "commit")
    <3> SUFFICES ASSUME turn[Police] = turn[Thief] - 1, stage[Police] = "commit" PROVE FALSE
      OBVIOUS
    <3>1. Known(Thief, stage[Thief], turn[Thief], "reveal", turn[Police]) /\ "reveal" \in Calls
      BY <1>1 DEF Known, Calls
    <3>2. <<"reveal", turn[Police]>> \in handled[Police]
      BY <1>1, <3>1 DEF Settled, Ordered, Heard
    <3>3. Sent(Police) /\ stage[Police] # "reveal"
      BY <1>1 DEF Settled, Ordered
    <3>4. Over(Police, stage[Police], turn[Police], "reveal", turn[Police])
      BY <1>1, <3>1, <3>2, <3>3 DEF Sent
    <3> QED BY <1>1, <3>4 DEF Over
  <2>4. ~(turn'[Police] = turn'[Thief] - 1 /\ stage'[Police] = "reveal")
    BY <1>1, <2>1, <2>2, <2>3 DEF Passes
  <2>5. ASSUME turn'[Police] = turn'[Thief],
               stage'[Police] \in {"see_commit", "see_reveal", "think", "commit", "reveal"}
        PROVE  idle + Left(Police)' <= ByPolice(stage'[Police])
    <3>1. \/ /\ turn[Police] = turn[Thief]
             /\ \/ stage[Police] = "see_commit" /\ stage'[Police] = "see_reveal"
                \/ stage[Police] = "see_reveal" /\ stage'[Police] = "think"
                \/ stage[Police] = "think" /\ stage'[Police] = "commit"
                \/ stage[Police] = "commit" /\ stage'[Police] = "reveal"
          \/ /\ turn[Police] = turn[Thief] - 1
             /\ stage[Police] = "reveal" /\ stage'[Police] = "see_commit"
      BY <1>1, <2>1, <2>2, <2>5 DEF Passes
    <3> QED BY <1>1, <1>2, <2>1, <2>2, <3>1, Times DEF Heartbeat, ByPolice, Budget, Calls
  <2> QED BY <1>1, <1>2, <2>1, <2>2, <2>4, <2>5 DEF Heartbeat
<1> QED BY <1>3, <1>4, <1>5

LEMMA HeartTick ==
  ASSUME Settled, Heartbeat, Tick, \A r \in Roles : InCall(r)
  PROVE  Heartbeat'
<1>1. /\ Thief \in Roles /\ Police \in Roles /\ Typed /\ AllPending
      /\ Opponent(Thief) = Police /\ Opponent(Police) = Thief
      /\ Serving(Thief) /\ Serving(Police) /\ idle \in Nat
      /\ turn[Thief] \in 1 .. Turns /\ turn[Police] \in 1 .. Turns
  BY TheRoles, PendingNow DEF Settled, Typed, Peers, Rest, Serving
<1> SUFFICES ASSUME Playing PROVE Heartbeat'
  <2>1. Playing' <=> Playing
    BY TickKeeps, <1>1 DEF Playing
  <2> QED BY <2>1 DEF Heartbeat
<1>2. /\ UNCHANGED <<stage, turn, failed, paused, handled>> /\ Up(Thief) /\ idle' = idle + 1 /\ InTime(Thief)
  BY <1>1, TickKeeps DEF Playing, Up, Ends, Tick
<1>3. Left(Thief) \in Nat /\ Left(Police) \in Nat
  BY <1>1, LeftIn
<1>4. ASSUME NEW r \in Roles, stage[r] \in Calls \cup {"think"}
      PROVE  Left(r)' = Left(r) - 1 /\ Left(r) > 0
  BY <1>1, <1>4, LeftTick, TwoPeers DEF Up, Ends, Calls, Settled, Serving
<1>5. ASSUME NEW r \in Roles, stage[r] \in Waits PROVE Left(r) = 0 /\ Left(r)' = 0 /\ ~Arrived(r)
  <2>1. Up(r) /\ stage[r] # "think" /\ stage[r] \notin Calls
    BY <1>5 DEF Up, Ends, Waits, Calls
  <2>2. InTime(r)
    BY <1>1, <2>1, TickKeeps
  <2> QED BY <1>2, <1>5, <2>1, <2>2 DEF Left, InTime, Calling
<1>6. idle' + Left(Thief)' <= ByThief(stage[Thief])
  <2>1. CASE stage[Thief] \in {"commit", "reveal"}
    <3>1. Left(Thief)' = Left(Thief) - 1
      BY <1>1, <1>4, <2>1 DEF Calls
    <3> QED BY <1>1, <1>2, <1>3, <3>1, Times DEF Heartbeat, ByThief
  <2>2. CASE stage[Thief] \in {"see_commit", "see_reveal"}
    <3>1. ~Arrived(Thief) /\ Left(Thief)' = 0 /\ Pending(Thief, Police)
      BY <1>1, <1>5, <2>2 DEF AllPending, Waits
    <3>2. stage[Police] \in Calls \cup {"think"}
      <4>1. stage[Police] \in Until(Answer[stage[Thief]]) /\ (stage[Police] \in Waits => Arrived(Police))
        BY <3>1 DEF Pending
      <4>2. stage[Police] \notin Waits
        BY <1>1, <1>5, <4>1
      <4>3. stage[Police] \notin {"dump", "replace"}
        BY <1>1, TheRoles DEF Typed, Peers, Place
      <4> QED BY <2>2, <4>1, <4>2, <4>3 DEF Until, Answer, Calls, Waits
    <3>3. stage[Police] \in {"think", "commit", "reveal"}
      BY <2>2, <3>1, <3>2 DEF Pending, Until, Answer, Calls, Waits
    <3>4. \/ turn[Police] = turn[Thief]
          \/ turn[Police] = turn[Thief] - 1 /\ stage[Police] = "reveal"
      BY <2>2, <3>1 DEF Pending
    <3>5. Left(Police) > 0
      BY <1>1, <1>4, <3>2
    <3>6. idle + Left(Police) <= 4 * CallTime + Think
      BY <1>1, <1>3, <3>3, <3>4, Times DEF Heartbeat, ByPolice
    <3> QED BY <1>1, <1>2, <1>3, <2>2, <3>1, <3>5, <3>6, Times DEF ByThief
  <2> QED BY <2>1, <2>2 DEF Playing
<1>7. ASSUME turn[Police] = turn[Thief] - 1, stage[Police] = "reveal"
      PROVE  idle' + Left(Police)' <= CallTime
  <2>1. Left(Police)' = Left(Police) - 1
    BY <1>1, <1>4, <1>7 DEF Calls
  <2> QED BY <1>1, <1>2, <1>3, <1>7, <2>1, Times DEF Heartbeat
<1>8. ASSUME turn[Police] = turn[Thief],
             stage[Police] \in {"see_commit", "see_reveal", "think", "commit", "reveal"}
      PROVE  idle' + Left(Police)' <= ByPolice(stage[Police])
  <2>1. CASE stage[Police] \in {"think", "commit", "reveal"}
    <3>1. Left(Police)' = Left(Police) - 1
      BY <1>1, <1>4, <2>1 DEF Calls
    <3>2. ByPolice(stage[Police]) \in Nat
      BY Times DEF ByPolice
    <3> QED BY <1>1, <1>2, <1>3, <1>8, <3>1, <3>2 DEF Heartbeat
  <2>2. CASE stage[Police] \in {"see_commit", "see_reveal"}
    <3>1. Left(Police)' = 0 /\ Pending(Police, Thief)
      BY <1>1, <1>5, <2>2 DEF AllPending, Waits
    <3>2. stage[Thief] \in {"commit", "reveal"}
      BY <1>8, <2>2, <3>1, TheRoles DEF Pending, Playing
    <3>3. Left(Thief) > 0
      BY <1>1, <1>4, <3>2 DEF Calls
    <3>4. idle + Left(Thief) <= 2 * CallTime
      BY <1>1, <1>3, <3>2, Times DEF Heartbeat, ByThief
    <3> QED BY <1>1, <1>2, <1>3, <2>2, <3>1, <3>3, <3>4, Times DEF ByPolice
  <2> QED BY <1>8, <2>1, <2>2
<1>9. stage' = stage /\ turn' = turn
  BY <1>2
<1> QED BY <1>6, <1>7, <1>8, <1>9 DEF Heartbeat
---------------------------------------------------------------------------
\* Nothing has failed that the limits are not made for.
Fitting == /\ \A r \in Roles : stage[r] # "lost" /\ InCall(r) /\ Patient(r)
           /\ Ordered /\ Heartbeat

FitInv == Undisturbed => Fitting

\* A disturbance is never forgotten.
LEMMA StaysDisturbed ==
  ASSUME Typed, NEW r \in Roles, Own(r), Undisturbed'
  PROVE  Undisturbed
<1>1. /\ stage[r] \notin Ends \/ stage'[r] = stage[r]
      /\ Kept(Opponent(r)) /\ \A q \in Roles : q = r \/ q = Opponent(r)
  BY OwnKeeps, TwoPeers DEF HandleLate
<1>2. \A q \in Roles : stage[q] # "crashed"
  BY <1>1 DEF Undisturbed, Kept, Ends
<1>3. ~spoiled
  BY DEF Undisturbed, Own, PeerStep, Dump, Synced, Replace, SaveFails, PoliceDecides, Crash,
         Handle, HandleLate, Answered, AttemptFails, Resume, See, Expire
<1> QED BY <1>2, <1>3 DEF Undisturbed

LEMMA NotLost ==
  ASSUME LimitsFit, Settled, Fitting, NEW r \in Roles, Own(r), Undisturbed'
  PROVE  stage'[r] \notin {"lost", "crashed"}
<1>1. /\ Typed /\ Peers /\ AllPending /\ Opponent(r) \in Roles /\ Serving(Opponent(r))
      /\ timer[r] \in Nat /\ failed[r] \in 0 .. Retries /\ r \in {Thief, Police} /\ Thief # Police
  BY PendingNow, TwoPeers, TheRoles DEF Settled, Typed, Peers, Serving, Roles
<1>2. stage'[r] # "crashed"
  BY DEF Undisturbed
<1>3. ASSUME NEW s, NEW t, Enter(r, s, t) PROVE stage'[r] = s
  BY <1>1, <1>3, Entered
<1>4. CASE r = Thief /\ (Dump \/ Synced \/ Replace)
  <2>1. Enter(r, "dump", turn[r]) \/ Enter(r, "replace", turn[r]) \/ Enter(r, "commit", turn[r])
    BY <1>4 DEF Dump, Synced, Replace
  <2> QED BY <1>3, <2>1
<1>5. CASE r = Thief /\ SaveFails
  BY <1>5 DEF SaveFails, Undisturbed
<1>6. CASE r = Police /\ PoliceDecides
  BY <1>3, <1>6 DEF PoliceDecides
<1>7. CASE Handle(r) \/ HandleLate(r)
  BY <1>7 DEF Handle, HandleLate, Settled
<1>8. CASE Answered(r)
  BY <1>3, <1>8 DEF Answered, AfterCall
<1>9. CASE AttemptFails(r)
  <2>1. stage[r] \in Calls /\ failed[r] < Losses /\ Losses <= Retries
    BY <1>1, <1>9, Times DEF AttemptFails, Calling, MayFail
  <2>2. stage' = stage
    BY <1>1, <1>9, <2>1, Times DEF AttemptFails
  <2> QED BY <2>2 DEF Settled
<1>10. CASE Resume(r)
  BY <1>10 DEF Resume, Settled
<1>11. CASE See(r)
  <2>1. r = Thief /\ stage[r] = "see_reveal" => idle <= Watchdog
    <3>1. ASSUME r = Thief, stage[r] = "see_reveal" PROVE idle <= 4 * CallTime + Think
      <4>1. Left(r) = 0
        BY <3>1 DEF Left, Calls
      <4> QED BY <1>1, <3>1, <4>1 DEF Fitting, Heartbeat, Playing, ByThief, Typed, Rest
    <3> QED BY <1>1, <3>1, Times, DeadlineAssumption DEF LimitsFit, Typed, Rest
  <2>2. PICK s, t : Enter(r, s, t) /\ s # "lost"
    BY <1>1, <1>11, <2>1, DeadlineAssumption DEF See, AfterWait, StartTurn, Typed, Rest
  <2> QED BY <1>2, <1>3, <2>2
<1>12. CASE Expire(r)
  <2>1. stage[r] \in Waits /\ ~Arrived(r) /\ timer[r] = Timeout
    BY <1>12 DEF Expire
  <2>2. /\ timer[r] + Left(Opponent(r)) + Ahead(stage[Opponent(r)], Answer[stage[r]]) <= 2 * CallTime + Think
        /\ Left(Opponent(r)) \in Nat /\ Ahead(stage[Opponent(r)], Answer[stage[r]]) \in Nat
    BY <1>1, <2>1, LeftIn, Times DEF Fitting, Patient, Ahead
  <2> QED BY <1>1, <2>1, <2>2, Times DEF LimitsFit
<1>13. CASE Crash(r)
  BY <1>2, <1>3, <1>13 DEF Crash
<1> QED BY <1>4, <1>5, <1>6, <1>7, <1>8, <1>9, <1>10, <1>11, <1>12, <1>13 DEF Own, PeerStep

LEMMA FitInit == Init => FitInv
<1> SUFFICES ASSUME Init PROVE Fitting
  BY DEF FitInv
<1>1. /\ stage[Thief] = "think" /\ stage[Police] = "see_commit" /\ Thief = "thief" /\ Police = "police"
      /\ \A r \in Roles : /\ r \in {Thief, Police} /\ turn[r] = 1 /\ handled[r] = {} /\ timer[r] = 0
  BY DEF Init, Roles, Thief, Police
<1>2. \A r \in Roles : stage[r] # "lost" /\ InCall(r)
  BY <1>1 DEF InCall, Calls
<1>3. ASSUME NEW r \in Roles PROVE Sent(r) /\ Heard(r)
  <2>1. ASSUME NEW c \in Calls, NEW k \in 1 .. Turns
        PROVE  ~Over(r, stage[r], turn[r], c, k) /\ ~Known(r, stage[r], turn[r], c, k)
    BY <1>1 DEF Over, Known, Final
  <2> QED BY <1>1, <2>1 DEF Sent, Heard
<1>4. ASSUME NEW r \in Roles PROVE Patient(r)
  <2>1. CASE r = Thief
    BY <1>1, <2>1 DEF Patient, Waits
  <2>2. CASE r = Police
    <3>1. Left(Opponent(r)) = Think /\ Ahead("think", "commit") = CallTime
      BY <1>1, <2>2, TheRoles, Times DEF Left, Ahead
    <3>2. Answer["see_commit"] = "commit"
      BY DEF Answer
    <3> QED BY <1>1, <2>2, <3>1, <3>2, TheRoles, Times DEF Patient
  <2> QED BY <1>1, <2>1, <2>2
<1>5. Heartbeat
  BY <1>1 DEF Heartbeat, Playing
<1> QED BY <1>2, <1>3, <1>4, <1>5 DEF Fitting, Ordered

LEMMA FitStep == ASSUME LimitsFit, Typed, Typed', FitInv, [Next]_vars PROVE FitInv'
<1>1. CASE UNCHANGED vars
  BY <1>1 DEF vars, FitInv, Undisturbed, Fitting, Ordered, Sent, Heard, InCall, Patient, Left,
              Arrived, Heartbeat, Playing
<1>2. CASE Tick
  <2> SUFFICES ASSUME Undisturbed' PROVE Fitting'
    BY DEF FitInv
  <2>1. UNCHANGED <<stage, turn, failed, paused, handled, disk, spoiled>>
    BY <1>2, TickKeeps
  <2>2. Fitting /\ Settled
    BY <2>1 DEF Undisturbed, FitInv, Fitting, Settled
  <2>3. Ordered'
    BY <2>1, <2>2 DEF Fitting, Ordered, Sent, Heard
  <2>4. \A r \in Roles : InCall(r)' /\ Patient(r)'
    BY <1>2, <2>2, TwoPeers, PatientTick DEF Fitting
  <2>5. Heartbeat'
    BY <1>2, <2>2, HeartTick DEF Fitting
  <2> QED BY <2>1, <2>2, <2>3, <2>4, <2>5 DEF Fitting
<1>3. ASSUME NEW r \in Roles, Own(r) PROVE FitInv'
  <2> SUFFICES ASSUME Undisturbed' PROVE Fitting'
    BY DEF FitInv
  <2>1. Undisturbed /\ Fitting /\ Settled
    BY <1>3, StaysDisturbed DEF Undisturbed, FitInv, Fitting, Settled
  <2>2. stage'[r] \notin {"lost", "crashed"}
    BY <1>3, <2>1, NotLost
  <2>3. Advances(r) \/ Repeats(r) \/ Carries(r)
    BY <1>3, <2>2, OwnAdvances
  <2>4. PICK q \in Roles : q = Opponent(r) /\ \A x \in Roles : x = r \/ x = q
    BY TwoPeers
  <2>5. Ordered'
    BY <1>3, <2>1, <2>3, <2>4, SentStep, HeardStep, HeldStep DEF Fitting, Ordered
  <2>6. \A x \in Roles : stage'[x] \notin {"lost", "crashed"}
    BY <1>3, <2>1, <2>2, <2>4, OwnKeeps DEF Kept, Settled
  <2>7. AllPending'
    BY <2>5, <2>6, PendingNext DEF Settled
  <2>8. \A x \in Roles : InCall(x)' /\ Patient(x)'
    BY <1>3, <2>1, <2>3, <2>4, <2>7, PatientOwn DEF Fitting
  <2>9. Heartbeat'
    BY <1>3, <2>1, <2>3, HeartThief, HeartPolice DEF Fitting, Roles
  <2> QED BY <2>5, <2>6, <2>8, <2>9 DEF Fitting
<1> QED BY <1>1, <1>2, <1>3, NextIsOwn

(* The peers never wait for each other, whatever the limits, the losses and  *)
(* the order of the steps: what a peer waits for, the other still sends.     *)
THEOREM NoVainWaitHolds == Spec => []NoVainWait
<1>1. Init => InOrder
  BY FitInit, DeadlineAssumption DEF FitInv, Fitting, Undisturbed, InOrder, Init
<1>2. Typed /\ InOrder => NoVainWait
  <2> SUFFICES ASSUME Typed, InOrder, \A r \in Roles : Serving(r),
                      NEW w \in Roles, stage[w] \in Waits, ~Arrived(w)
               PROVE  /\ stage[Opponent(w)] # "done"
                      /\ stage[Opponent(w)] \in Waits => Arrived(Opponent(w))
    BY DEF NoVainWait
  <2>1. Pending(w, Opponent(w))
    BY PendingNow DEF Settled, AllPending, InOrder, Serving
  <2> QED BY <2>1 DEF Pending, Until
<1> QED BY <1>1, <1>2, InOrderStep, TypedHolds, PTL DEF Spec

(* While the network keeps to its times and nothing crashes or spoils the    *)
(* disk, limits that fit let neither peer exhaust its attempts, wait in vain *)
(* or be stopped by its watchdog, whatever the order of the steps.           *)
THEOREM NobodyGivesUpHolds == ASSUME LimitsFit PROVE Spec => []NobodyGivesUp
<1>1. Init => FitInv
  BY FitInit
<1>2. Typed /\ Typed' /\ FitInv /\ [Next]_vars => FitInv'
  BY FitStep
<1>3. FitInv => NobodyGivesUp
  BY DEF FitInv, Fitting, NobodyGivesUp
<1> QED BY <1>1, <1>2, <1>3, TypedHolds, PTL DEF Spec
===========================================================================
