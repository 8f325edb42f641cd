---------------------------- MODULE MCReporting ----------------------------
(* Instances of Reporting for TLC.                                          *)
EXTENDS Reporting

CONSTANTS p1, p2, p3

\* The first two invocations report the same result.
Attachments == [p \in Invocations |-> IF p = p3 THEN "other" ELSE "result"]
===========================================================================
