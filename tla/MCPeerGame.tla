---------------------------- MODULE MCPeerGame ----------------------------
(* Instances of PeerGame for TLC.                                           *)
EXTENDS PeerGame, TLC

CONSTANTS h1, h2

\* A hash of its own for each turn of two; a nonce makes all of them differ.
OwnSeals == [k \in Roles \X (1 .. MaxStep) |-> IF k[2] % 2 = 1 THEN h1 ELSE h2]
===========================================================================
