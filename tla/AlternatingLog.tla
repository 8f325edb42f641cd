-------------------------- MODULE AlternatingLog --------------------------
(***************************************************************************)
(* What one subgame promises (docs/architecture.md: "Turns ping-pong as     *)
(* T1 -> P1 -> T2 -> P2; only the token owner may commit, reveal, and       *)
(* transfer ownership"): the two peers write one log of turns.  Turns       *)
(* alternate, beginning with the Thief; a peer adds a turn only when it     *)
(* knows every turn before it; it learns its opponent's turn afterwards.    *)
(* Nothing here says how: no commitments, retries, timeouts or tokens.      *)
(***************************************************************************)
EXTENDS Naturals, Sequences

CONSTANTS Thief, Police, Turns     \* Turns: what a turn may be

VARIABLES log,     \* the turns taken, in order
          known    \* for each peer, how many of them it knows

Roles == {Thief, Police}
vars  == <<log, known>>

Due == IF Len(log) % 2 = 0 THEN Thief ELSE Police

Init == /\ log = <<>>
        /\ known = [r \in Roles |-> 0]

Take(r, t) == /\ r = Due
              /\ known[r] = Len(log)
              /\ log' = Append(log, t)
              /\ known' = [known EXCEPT ![r] = @ + 1]

Learn(r) == /\ known[r] < Len(log)
            /\ known' = [known EXCEPT ![r] = @ + 1]
            /\ UNCHANGED log

Next == \E r \in Roles : Learn(r) \/ \E t \in Turns : Take(r, t)

Spec == Init /\ [][Next]_vars
===========================================================================
