----------------------------- MODULE MCSeries -----------------------------
(* Instances of Series for TLC.                                             *)
EXTENDS Series

CONSTANTS t1, t2

\* The Thief alone brings a declaration; both bring the agreed one.
ThiefDeclares == [r \in Roles |-> IF r = Thief THEN t1 ELSE None]
BothDeclare   == [r \in Roles |-> t1]
===========================================================================
