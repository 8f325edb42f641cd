-------------------------- MODULE Reporting_proofs --------------------------
(***************************************************************************)
(* The guarantees of the delivery for any number of invocations, days and   *)
(* retries and any daily limit.  Those about invocations that follow one    *)
(* another rest on three facts of such a run: only one delivery is ever in  *)
(* progress, the quota's file counts the admissions written on its day, and *)
(* the registry holds the digest of every delivery that was recorded.       *)
(***************************************************************************)
EXTENDS Reporting, FiniteSetTheorems, TLAPS

Active  == {"admit", "count", "send", "remember", "record"}
\* Where a process may be that has called Gmail.
Called  == {"send", "remember", "record", "done", "lost", "crashed"}
\* Where a dry run may be.
Dry     == {"check", "remember", "record", "done", "refused", "crashed"}

Delivered(d) == Messages(d) # {} \/ \E p \in DryRun : Digest[p] = d

\* The admissions of a day that are in the quota's file.
Written(day) == {p \in Admitted(day) : pc[p] # "count"}

Places ==
  /\ \A p \in DryRun : pc[p] \in Dry
  /\ \A m \in threads \cup mailbox : pc[m[1]] \in Called
  /\ \A p \in Invocations : pc[p] \in {"check", "admit"} => counted[p] = NoQuota
  /\ \A p \in Invocations : pc[p] = "count" => counted[p].count < Limit

Records ==
  /\ \A d \in registry : Delivered(d)
  /\ \A p \in Invocations : pc[p] = "record" => \A d \in known[p] : Delivered(d)
  /\ \A p \in Invocations \ DryRun :
       pc[p] \in {"remember", "record", "done"} => \E m \in mailbox : m[1] = p

\* Invocations that follow one another.
Serial ==
  /\ \A p, q \in Invocations : p # q => ~(pc[p] \in Active /\ pc[q] \in Active)
  /\ \A p \in Invocations : pc[p] = "record" => known[p] = registry
  /\ \A p \in Invocations : pc[p] = "done" => Digest[p] \in registry
  /\ \A p, q \in Invocations : p # q /\ Digest[p] = Digest[q] =>
       ~(pc[p] \in Active \cup {"done"} /\ pc[q] \in Active \cup {"done"})

Ledger ==
  /\ quota.date <= today
  /\ \A day \in 1 .. Days :
       /\ day > quota.date => Written(day) = {}
       /\ day = quota.date => Cardinality(Written(day)) = quota.count
       /\ Cardinality(Written(day)) <= Limit
       /\ \A p \in Invocations : pc[p] = "count" /\ counted[p].date = day =>
            Cardinality(Written(day)) = counted[p].count
  /\ \A p \in Invocations : pc[p] = "count" =>
       counted[p].date \in 1 .. today /\ counted[p].date >= quota.date

IInv == /\ TypeOK /\ Places /\ Records
        /\ ~overlapping => Serial /\ Ledger
---------------------------------------------------------------------------
(* The types, and where a process may be.                                   *)

LEMMA InitTyped == Init => TypeOK /\ Places
<1> SUFFICES ASSUME Init PROVE TypeOK /\ Places
  OBVIOUS
<1>1. TypeOK
  BY ReportingAssumption DEF Init, TypeOK, Labels, Quotas, NoQuota
<1>2. Places
  BY ReportingAssumption DEF Init, Places, Dry
<1> QED BY <1>1, <1>2

LEMMA StepTyped == TypeOK /\ Places /\ [Next]_vars => TypeOK'
<1> SUFFICES ASSUME TypeOK, Places, [Next]_vars PROVE TypeOK'
  OBVIOUS
<1> USE ReportingAssumption
<1>1. ASSUME NEW p \in Invocations, EnsureNew(p) PROVE TypeOK'
  BY <1>1 DEF TypeOK, EnsureNew, Goto, Labels
<1>2. ASSUME NEW p \in Invocations, QuotaRead(p) PROVE TypeOK'
  <2>1. Current(quota) \in Quotas
    BY DEF TypeOK, Current, Quotas
  <2> QED BY <1>2, <2>1 DEF TypeOK, QuotaRead, Goto, Labels
<1>3. ASSUME NEW p \in Invocations, QuotaWrite(p) PROVE TypeOK'
  <2>1. quota' \in Quotas
    BY <1>3 DEF TypeOK, Places, QuotaWrite, Quotas
  <2> QED BY <1>3, <2>1 DEF TypeOK, QuotaWrite, Goto, Labels
<1>4. ASSUME NEW p \in Invocations, TimesOut(p) PROVE TypeOK'
  BY <1>4 DEF TypeOK, TimesOut, Retry, Goto, Labels
<1>5. ASSUME NEW p \in Invocations, RecordRead(p) PROVE TypeOK'
  BY <1>5 DEF TypeOK, RecordRead, Goto, Labels
<1>6. ASSUME NEW p \in Invocations, RecordWrite(p) PROVE TypeOK'
  BY <1>6 DEF TypeOK, RecordWrite, Goto, Labels, Digests
<1>7. ASSUME NEW p \in Invocations, Crash(p) PROVE TypeOK'
  BY <1>7 DEF TypeOK, Crash, Goto, Labels, Quotas, NoQuota
<1>8. ASSUME NEW p \in Invocations, NEW n \in 0 .. Retries, Taken(p, n) PROVE TypeOK'
  BY <1>8 DEF TypeOK, Taken
<1>9. ASSUME NEW p \in Invocations, NEW n \in 0 .. Retries, Returns(p, n) PROVE TypeOK'
  BY <1>9 DEF TypeOK, Returns, Goto, Labels
<1>10. ASSUME NEW p \in Invocations, NEW n \in 0 .. Retries, Raises(p, n) PROVE TypeOK'
  BY <1>10 DEF TypeOK, Raises, Retry, Goto, Labels
<1>11. CASE Midnight
  BY <1>11 DEF TypeOK, Midnight
<1>12. CASE UNCHANGED vars
  BY <1>12 DEF TypeOK, vars
<1> QED
  BY <1>1, <1>2, <1>3, <1>4, <1>5, <1>6, <1>7, <1>8, <1>9, <1>10, <1>11, <1>12 DEF Next, Step

LEMMA StepPlaced == TypeOK /\ Places /\ [Next]_vars => Places'
<1> SUFFICES ASSUME TypeOK, Places, [Next]_vars PROVE Places'
  OBVIOUS
<1> USE ReportingAssumption DEF Dry, Called
<1>1. ASSUME NEW p \in Invocations, EnsureNew(p) PROVE Places'
  BY <1>1 DEF TypeOK, Places, EnsureNew, Goto
<1>2. ASSUME NEW p \in Invocations, QuotaRead(p) PROVE Places'
  <2>1. Current(quota).count < Limit \/ pc'[p] = "refused"
    BY <1>2 DEF TypeOK, Current, Quotas, QuotaRead, Goto
  <2> QED BY <1>2, <2>1 DEF TypeOK, Places, QuotaRead, Goto
<1>3. ASSUME NEW p \in Invocations, QuotaWrite(p) PROVE Places'
  BY <1>3 DEF TypeOK, Places, QuotaWrite, Goto
<1>4. ASSUME NEW p \in Invocations, TimesOut(p) PROVE Places'
  BY <1>4 DEF TypeOK, Places, TimesOut, Retry, Goto
<1>5. ASSUME NEW p \in Invocations, RecordRead(p) PROVE Places'
  BY <1>5 DEF TypeOK, Places, RecordRead, Goto
<1>6. ASSUME NEW p \in Invocations, RecordWrite(p) PROVE Places'
  BY <1>6 DEF TypeOK, Places, RecordWrite, Goto
<1>7. ASSUME NEW p \in Invocations, Crash(p) PROVE Places'
  BY <1>7 DEF TypeOK, Places, Crash, Goto, Over
<1>8. ASSUME NEW p \in Invocations, NEW n \in 0 .. Retries, Taken(p, n) PROVE Places'
  BY <1>8 DEF TypeOK, Places, Taken
<1>9. ASSUME NEW p \in Invocations, NEW n \in 0 .. Retries, Returns(p, n) PROVE Places'
  BY <1>9 DEF TypeOK, Places, Returns, Goto
<1>10. ASSUME NEW p \in Invocations, NEW n \in 0 .. Retries, Raises(p, n) PROVE Places'
  BY <1>10 DEF TypeOK, Places, Raises, Retry, Goto
<1>11. CASE Midnight
  BY <1>11 DEF TypeOK, Places, Midnight
<1>12. CASE UNCHANGED vars
  BY <1>12 DEF TypeOK, Places, vars
<1> QED
  BY <1>1, <1>2, <1>3, <1>4, <1>5, <1>6, <1>7, <1>8, <1>9, <1>10, <1>11, <1>12 DEF Next, Step
---------------------------------------------------------------------------
(* What is recorded has been delivered.                                     *)

LEMMA DeliveredStays ==
  ASSUME mailbox \subseteq mailbox', NEW d, Delivered(d)
  PROVE  Delivered(d)'
BY DEF Delivered, Messages

LEMMA StepRecorded == TypeOK /\ Places /\ Records /\ [Next]_vars => Records'
<1> SUFFICES ASSUME TypeOK, Places, Records, [Next]_vars PROVE Records'
  OBVIOUS
<1> USE ReportingAssumption
<1>0. ASSUME mailbox' = mailbox PROVE \A d : Delivered(d) => Delivered(d)'
  BY <1>0, DeliveredStays
<1>1. ASSUME NEW p \in Invocations, EnsureNew(p) PROVE Records'
  BY <1>1, <1>0 DEF TypeOK, Records, EnsureNew, Goto
<1>2. ASSUME NEW p \in Invocations, QuotaRead(p) PROVE Records'
  BY <1>2, <1>0 DEF TypeOK, Records, QuotaRead, Goto
<1>3. ASSUME NEW p \in Invocations, QuotaWrite(p) PROVE Records'
  BY <1>3, <1>0 DEF TypeOK, Records, QuotaWrite, Goto
<1>4. ASSUME NEW p \in Invocations, TimesOut(p) PROVE Records'
  BY <1>4, <1>0 DEF TypeOK, Records, TimesOut, Retry, Goto
<1>5. ASSUME NEW p \in Invocations, RecordRead(p) PROVE Records'
  BY <1>5, <1>0 DEF TypeOK, Records, RecordRead, Goto
<1>6. ASSUME NEW p \in Invocations, RecordWrite(p) PROVE Records'
  <2>1. Delivered(Digest[p])
    <3>1. CASE p \in DryRun
      BY <3>1 DEF Delivered
    <3>2. CASE p \notin DryRun
      BY <3>2, <1>6 DEF Records, RecordWrite, Delivered, Messages
    <3> QED BY <3>1, <3>2
  <2> QED BY <1>6, <2>1, <1>0 DEF TypeOK, Records, RecordWrite, Goto
<1>7. ASSUME NEW p \in Invocations, Crash(p) PROVE Records'
  BY <1>7, <1>0 DEF TypeOK, Records, Crash, Goto
<1>8. ASSUME NEW p \in Invocations, NEW n \in 0 .. Retries, Taken(p, n) PROVE Records'
  <2>1. mailbox \subseteq mailbox'
    BY <1>8 DEF Taken
  <2> QED BY <1>8, <2>1, DeliveredStays DEF TypeOK, Records, Taken
<1>9. ASSUME NEW p \in Invocations, NEW n \in 0 .. Retries, Returns(p, n) PROVE Records'
  <2>1. <<p, n>> \in mailbox /\ <<p, n>>[1] = p
    BY <1>9 DEF Returns
  <2> QED BY <1>9, <2>1, <1>0 DEF TypeOK, Records, Returns, Goto
<1>10. ASSUME NEW p \in Invocations, NEW n \in 0 .. Retries, Raises(p, n) PROVE Records'
  BY <1>10, <1>0 DEF TypeOK, Records, Raises, Retry, Goto
<1>11. CASE Midnight
  BY <1>11, <1>0 DEF TypeOK, Records, Midnight
<1>12. CASE UNCHANGED vars
  BY <1>12, <1>0 DEF TypeOK, Records, vars
<1> QED
  BY <1>1, <1>2, <1>3, <1>4, <1>5, <1>6, <1>7, <1>8, <1>9, <1>10, <1>11, <1>12 DEF Next, Step
---------------------------------------------------------------------------
(* One after the other.                                                     *)

LEMMA StepSerial ==
  TypeOK /\ Places /\ ~overlapping /\ Serial /\ [Next]_vars => Serial'
<1> SUFFICES ASSUME TypeOK, Places, ~overlapping, Serial, [Next]_vars PROVE Serial'
  OBVIOUS
<1> USE ReportingAssumption DEF Active
<1>1. ASSUME NEW p \in Invocations, EnsureNew(p) PROVE Serial'
  <2>1. \A q \in Invocations \ {p} : pc[q] \notin Active
    BY <1>1 DEF EnsureNew, Alone, Over
  <2>2. pc' = [pc EXCEPT ![p] = pc'[p]] /\ pc'[p] \in {"refused", "remember", "admit"}
    BY <1>1 DEF TypeOK, EnsureNew, Goto
  <2>3. pc'[p] # "refused" => \A q \in Invocations \ {p} : Digest[p] = Digest[q] => pc[q] # "done"
    BY <1>1 DEF TypeOK, EnsureNew, Goto, Serial
  <2>4. UNCHANGED <<registry, known>>
    BY <1>1 DEF EnsureNew
  <2> QED BY <2>1, <2>2, <2>3, <2>4 DEF TypeOK, Serial
<1>2. ASSUME NEW p \in Invocations, QuotaRead(p) PROVE Serial'
  BY <1>2 DEF TypeOK, Serial, QuotaRead, Goto
<1>3. ASSUME NEW p \in Invocations, QuotaWrite(p) PROVE Serial'
  BY <1>3 DEF TypeOK, Serial, QuotaWrite, Goto
<1>4. ASSUME NEW p \in Invocations, TimesOut(p) PROVE Serial'
  BY <1>4 DEF TypeOK, Serial, TimesOut, Retry, Goto
<1>5. ASSUME NEW p \in Invocations, RecordRead(p) PROVE Serial'
  BY <1>5 DEF TypeOK, Serial, RecordRead, Goto
<1>6. ASSUME NEW p \in Invocations, RecordWrite(p) PROVE Serial'
  <2>1. registry' = registry \cup {Digest[p]}
    BY <1>6 DEF Serial, RecordWrite
  <2> QED BY <1>6, <2>1 DEF TypeOK, Serial, RecordWrite, Goto
<1>7. ASSUME NEW p \in Invocations, Crash(p) PROVE Serial'
  BY <1>7 DEF TypeOK, Serial, Crash, Goto
<1>8. ASSUME NEW p \in Invocations, NEW n \in 0 .. Retries, Taken(p, n) PROVE Serial'
  BY <1>8 DEF TypeOK, Serial, Taken
<1>9. ASSUME NEW p \in Invocations, NEW n \in 0 .. Retries, Returns(p, n) PROVE Serial'
  BY <1>9 DEF TypeOK, Serial, Returns, Goto
<1>10. ASSUME NEW p \in Invocations, NEW n \in 0 .. Retries, Raises(p, n) PROVE Serial'
  BY <1>10 DEF TypeOK, Serial, Raises, Retry, Goto
<1>11. CASE Midnight
  BY <1>11 DEF TypeOK, Serial, Midnight
<1>12. CASE UNCHANGED vars
  BY <1>12 DEF TypeOK, Serial, vars
<1> QED
  BY <1>1, <1>2, <1>3, <1>4, <1>5, <1>6, <1>7, <1>8, <1>9, <1>10, <1>11, <1>12 DEF Next, Step
---------------------------------------------------------------------------
(* The quota's file and the admissions it stands for.                       *)

LEMMA WrittenFinite ==
  ASSUME NEW day
  PROVE  /\ IsFiniteSet(Written(day)) /\ Cardinality(Written(day)) \in Nat
         /\ IsFiniteSet(Admitted(day)) /\ Cardinality(Admitted(day)) \in Nat
BY ReportingAssumption, FS_Subset, FS_CardinalityType DEF Written, Admitted

\* A step that leaves the file alone, and the written admissions.
LEMMA LedgerKept ==
  ASSUME TypeOK, Ledger, quota' = quota, today' = today,
         \A day \in 1 .. Days : Written(day)' = Written(day),
         \A p \in Invocations : pc'[p] = "count" => pc[p] = "count" /\ counted'[p] = counted[p]
  PROVE  Ledger'
BY DEF Ledger

\* Only places other than "count" change.
LEMMA LedgerElsewhere ==
  ASSUME TypeOK, Ledger, quota' = quota, today' = today, counted' = counted,
         \A p \in Invocations : pc'[p] = "count" <=> pc[p] = "count"
  PROVE  Ledger'
<1>1. \A day \in 1 .. Days : Written(day)' = Written(day)
  BY DEF Written, Admitted
<1> QED BY <1>1, LedgerKept

LEMMA StepLedger ==
  TypeOK /\ Places /\ ~overlapping /\ Serial /\ Ledger /\ [Next]_vars => Ledger'
<1> SUFFICES ASSUME TypeOK, Places, ~overlapping, Serial, Ledger, [Next]_vars PROVE Ledger'
  OBVIOUS
<1> USE ReportingAssumption
<1>1. ASSUME NEW p \in Invocations, EnsureNew(p) PROVE Ledger'
  BY <1>1, LedgerElsewhere DEF TypeOK, EnsureNew, Goto
<1>2. ASSUME NEW p \in Invocations, QuotaRead(p) PROVE Ledger'
  <2>1. CASE Current(quota).count >= Limit
    BY <1>2, <2>1, LedgerElsewhere DEF TypeOK, QuotaRead, Goto
  <2>2. CASE ~(Current(quota).count >= Limit)
    <3>1. /\ pc' = [pc EXCEPT ![p] = "count"]
          /\ counted' = [counted EXCEPT ![p] = Current(quota)]
          /\ quota' = quota /\ today' = today
      BY <1>2, <2>2 DEF QuotaRead, Goto
    <3>2. pc[p] = "admit" /\ counted[p].date = 0
      BY <1>2 DEF QuotaRead, Places, NoQuota
    <3>3. \A day \in 1 .. Days : Written(day)' = Written(day)
      BY <3>1, <3>2 DEF TypeOK, Written, Admitted
    <3> PICK now \in 1 .. Days : now = today
      BY DEF TypeOK
    <3>4. Current(quota).date = now /\ Cardinality(Written(now)) = Current(quota).count
      <4>1. CASE quota.date = now
        BY <4>1 DEF Ledger, TypeOK, Current
      <4>2. CASE quota.date # now
        <5>1. now > quota.date
          BY <4>2 DEF Ledger, TypeOK, Quotas
        <5>2. Written(now) = {}
          BY <5>1 DEF Ledger
        <5> QED BY <4>2, <5>2, FS_EmptySet DEF Current
      <4> QED BY <4>1, <4>2
    <3>5. \A q \in Invocations \ {p} : pc[q] # "count"
      BY <3>2 DEF Serial, Active
    <3>6. counted'[p] = Current(quota) /\ \A q \in Invocations \ {p} : pc'[q] # "count"
      BY <3>1, <3>5 DEF TypeOK
    <3>7. Cardinality(Written(now)') = Current(quota).count
      BY <3>3, <3>4
    <3>8. ASSUME NEW day \in 1 .. Days, NEW q \in Invocations,
                 pc'[q] = "count", counted'[q].date = day
          PROVE  Cardinality(Written(day)') = counted'[q].count
      <4>1. q = p /\ day = now
        BY <3>4, <3>6, <3>8
      <4> QED BY <4>1, <3>6, <3>7
    <3>9. today \in 1 .. today /\ today >= quota.date
      BY DEF TypeOK, Ledger
    <3> QED BY <3>1, <3>3, <3>4, <3>6, <3>8, <3>9 DEF Ledger
  <2> QED BY <2>1, <2>2
<1>3. ASSUME NEW p \in Invocations, QuotaWrite(p) PROVE Ledger'
  <2>1. /\ pc[p] = "count" /\ p \notin DryRun
        /\ pc' = [pc EXCEPT ![p] = "send"]
        /\ quota' = [counted[p] EXCEPT !.count = @ + 1]
        /\ counted' = counted /\ today' = today
    BY <1>3 DEF QuotaWrite, Goto, Places, Dry
  <2> PICK D \in 1 .. Days : D = counted[p].date
    BY <2>1 DEF Ledger, TypeOK
  <2>2. /\ D \in 1 .. today /\ D >= quota.date
        /\ Cardinality(Written(D)) = counted[p].count
        /\ counted[p].count < Limit
        /\ counted[p] \in Quotas
    BY <2>1 DEF Ledger, Places, TypeOK, Quotas
  <2>3. quota'.date = D /\ quota'.count = counted[p].count + 1
    BY <2>1, <2>2 DEF Quotas
  <2>4. Written(D)' = Written(D) \cup {p} /\ p \notin Written(D)
    BY <2>1 DEF Written, Admitted, TypeOK
  <2>5. Cardinality(Written(D)') = counted[p].count + 1
    <3>1. IsFiniteSet(Written(D))
      BY WrittenFinite
    <3>2. Cardinality(Written(D) \cup {p}) = Cardinality(Written(D)) + 1
      BY <2>4, <3>1, FS_AddElement
    <3> QED BY <2>2, <2>4, <3>2
  <2>6. \A day \in 1 .. Days : day # D => Written(day)' = Written(day)
    BY <2>1 DEF Written, Admitted, TypeOK
  <2>7. \A q \in Invocations : pc'[q] # "count"
    BY <2>1 DEF Serial, Active, TypeOK
  <2>8. quota'.date <= today'
    BY <2>1, <2>2, <2>3
  <2>9. ASSUME NEW day \in 1 .. Days
        PROVE  /\ day > quota'.date => Written(day)' = {}
               /\ day = quota'.date => Cardinality(Written(day)') = quota'.count
               /\ Cardinality(Written(day)') <= Limit
    <3>1. CASE day = D
      BY <3>1, <2>2, <2>3, <2>5 DEF Quotas
    <3>2. CASE day # D
      BY <3>2, <2>2, <2>3, <2>6 DEF Ledger, TypeOK, Quotas
    <3> QED BY <3>1, <3>2
  <2> QED BY <2>7, <2>8, <2>9 DEF Ledger
<1>4. ASSUME NEW p \in Invocations, TimesOut(p) PROVE Ledger'
  BY <1>4, LedgerElsewhere DEF TypeOK, TimesOut, Retry, Goto
<1>5. ASSUME NEW p \in Invocations, RecordRead(p) PROVE Ledger'
  BY <1>5, LedgerElsewhere DEF TypeOK, RecordRead, Goto
<1>6. ASSUME NEW p \in Invocations, RecordWrite(p) PROVE Ledger'
  BY <1>6, LedgerElsewhere DEF TypeOK, RecordWrite, Goto
<1>7. ASSUME NEW p \in Invocations, Crash(p) PROVE Ledger'
  <2>1. CASE pc[p] = "count"
    <3>1. \A day \in 1 .. Days : Written(day)' = Written(day)
      BY <1>7, <2>1 DEF Crash, Goto, Written, Admitted, TypeOK, NoQuota
    <3> QED BY <1>7, <2>1, <3>1, LedgerKept DEF Crash, Goto, TypeOK
  <2>2. CASE pc[p] # "count"
    BY <1>7, <2>2, LedgerElsewhere DEF Crash, Goto, TypeOK
  <2> QED BY <2>1, <2>2
<1>8. ASSUME NEW p \in Invocations, NEW n \in 0 .. Retries, Taken(p, n) PROVE Ledger'
  BY <1>8, LedgerElsewhere DEF Taken
<1>9. ASSUME NEW p \in Invocations, NEW n \in 0 .. Retries, Returns(p, n) PROVE Ledger'
  BY <1>9, LedgerElsewhere DEF TypeOK, Returns, Goto
<1>10. ASSUME NEW p \in Invocations, NEW n \in 0 .. Retries, Raises(p, n) PROVE Ledger'
  BY <1>10, LedgerElsewhere DEF TypeOK, Raises, Retry, Goto
<1>11. CASE Midnight
  <2>1. \A day : Written(day)' = Written(day)
    BY <1>11 DEF Midnight, Written, Admitted
  <2> QED BY <1>11, <2>1 DEF Midnight, Ledger, TypeOK, Quotas
<1>12. CASE UNCHANGED vars
  BY <1>12, LedgerElsewhere DEF vars
<1> QED
  BY <1>1, <1>2, <1>3, <1>4, <1>5, <1>6, <1>7, <1>8, <1>9, <1>10, <1>11, <1>12 DEF Next, Step
---------------------------------------------------------------------------
(* The invariant and what it implies.                                       *)

LEMMA Inductive == IInv /\ [Next]_vars => IInv'
<1>1. [Next]_vars => overlapping' = overlapping
  BY DEF Next, Step, vars, EnsureNew, QuotaRead, QuotaWrite, TimesOut, RecordRead,
         RecordWrite, Crash, Taken, Returns, Raises, Midnight
<1> QED
  BY <1>1, StepTyped, StepPlaced, StepRecorded, StepSerial, StepLedger DEF IInv

LEMMA Initial == Init => IInv
<1> SUFFICES ASSUME Init PROVE IInv
  OBVIOUS
<1>1. Records
  BY ReportingAssumption DEF Init, Records
<1>2. Serial
  BY ReportingAssumption DEF Init, Serial, Active
<1>3. Ledger
  <2>1. \A day \in 1 .. Days : Written(day) = {}
    BY ReportingAssumption DEF Init, Written, Admitted, NoQuota
  <2> QED BY <2>1, FS_EmptySet, ReportingAssumption DEF Init, Ledger, NoQuota
<1> QED BY <1>1, <1>2, <1>3, InitTyped DEF IInv

LEMMA WithinLimit == IInv => AdmittedWithinLimit
<1> SUFFICES ASSUME IInv, ~overlapping, NEW day \in 1 .. Days
             PROVE  Cardinality(Admitted(day)) <= Limit
  BY DEF AdmittedWithinLimit
<1>1. CASE \E p \in Invocations \ DryRun : pc[p] = "count" /\ counted[p].date = day
  <2>1. PICK p \in Invocations \ DryRun : pc[p] = "count" /\ counted[p].date = day
    BY <1>1
  <2>2. Admitted(day) = Written(day) \cup {p} /\ p \notin Written(day)
    BY <2>1 DEF Admitted, Written, IInv, Serial, Active
  <2>3. Cardinality(Admitted(day)) = Cardinality(Written(day)) + 1
    BY <2>2, WrittenFinite, FS_AddElement
  <2>4. Cardinality(Written(day)) = counted[p].count /\ counted[p].count < Limit
    BY <2>1 DEF IInv, Ledger, Places
  <2> QED BY <2>1, <2>3, <2>4, ReportingAssumption DEF IInv, TypeOK, Quotas
<1>2. CASE ~\E p \in Invocations \ DryRun : pc[p] = "count" /\ counted[p].date = day
  <2>1. Admitted(day) = Written(day)
    BY <1>2 DEF Admitted, Written
  <2> QED BY <2>1 DEF IInv, Ledger
<1> QED BY <1>1, <1>2

LEMMA LossBeforeResending == IInv => ResentOnlyAfterLoss
<1> SUFFICES ASSUME IInv, ~overlapping, NEW m \in mailbox, NEW k \in mailbox,
                    m[1] # k[1], Digest[m[1]] = Digest[k[1]]
             PROVE  {"lost", "crashed"} \cap {pc[m[1]], pc[k[1]]} # {}
  BY DEF ResentOnlyAfterLoss
<1>1. m[1] \in Invocations /\ k[1] \in Invocations
  BY DEF IInv, TypeOK
<1>2. pc[m[1]] \in Called /\ pc[k[1]] \in Called
  BY DEF IInv, Places
<1>3. ~(pc[m[1]] \in Active \cup {"done"} /\ pc[k[1]] \in Active \cup {"done"})
  BY <1>1 DEF IInv, Serial
<1> QED BY <1>2, <1>3 DEF Called, Active

(* The state keeps its types: no attempt beyond the retries, no count beyond *)
(* the daily limit is ever saved, in any overlap (gatekeeper.py:41-56,       *)
(* rate_limit.py:62-71).                                                     *)
THEOREM TypeCorrect == Spec => []TypeOK
<1>1. IInv => TypeOK
  BY DEF IInv
<1> QED BY <1>1, Initial, Inductive, PTL DEF Spec

(* A digest in the registry, and a delivery that was reported, is a message  *)
(* Gmail has taken or a dry run, whatever overlaps, crashes or is repeated   *)
(* (gmail.py:66-68, duplicates.py:16).                                       *)
THEOREM RecordsAreDeliveries == Spec => []RecordedWasDelivered
<1>1. IInv => RecordedWasDelivered
  BY DEF IInv, Records, RecordedWasDelivered, Delivered
<1> QED BY <1>1, Initial, Inductive, PTL DEF Spec

(* Invocations that follow one another never admit more than the limit on a *)
(* day, across midnights and crashes (rate_limit.py:62-71).                  *)
THEOREM LimitHolds == Spec => []AdmittedWithinLimit
BY WithinLimit, Initial, Inductive, PTL DEF Spec

(* Invocations that follow one another send a result twice only when one of  *)
(* the two was lost or crashed (duplicates.py:21-24, gmail.py:66-68).        *)
THEOREM ResendingExplained == Spec => []ResentOnlyAfterLoss
BY LossBeforeResending, Initial, Inductive, PTL DEF Spec
=============================================================================
