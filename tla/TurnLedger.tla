---------------------------- MODULE TurnLedger ----------------------------
(***************************************************************************)
(* protocol/ledger.py: the per-turn commitment and reveal ledger kept by    *)
(* one peer.  The ledger is a value, so that several modules can hold one   *)
(* (the service, each peer of a game); the operators below are its methods, *)
(* each split into its guard (the code raises ValueError where the guard is *)
(* false, and has changed nothing) and the value it leaves.                 *)
(*                                                                         *)
(* A dict is a total function with None for an absent key; the default that *)
(* `get`/`setdefault` supplies is the initial value.  The payload of a      *)
(* reveal that is compared as a whole and never looked into here (heatmap,  *)
(* hint, barrier, claim) is one value of Evidence.                          *)
(***************************************************************************)
EXTENDS Naturals

CONSTANTS Subgames,   \* subgame numbers that occur in envelopes
          MaxStep,    \* bound on the step numbers that occur in envelopes
          Hashes,     \* commitment hashes
          Evidence,   \* public payloads of a reveal
          None        \* an absent dict entry

ASSUME LedgerAssumption == MaxStep \in Nat /\ None \notin Hashes

Thief  == "thief"
Police == "police"
Roles  == {Thief, Police}
Other(r) == IF r = Thief THEN Police ELSE Thief

WireSteps == 0 .. MaxStep            \* WireEnvelope.step is only >= 0
Keys == Subgames \X WireSteps \X Roles

\* RevealedTurn, and the two requests with the envelope reduced to its key.
Reveals == [commitment : Hashes, turn_token : Roles, evidence : Evidence]
CommitRequests == [subgame : Subgames, step : WireSteps, sender : Roles,
                   commitment : Hashes]
\* RevealTurnRequest.require_opponent_token
RevealRequests ==
  {q \in [subgame : Subgames, step : WireSteps, sender : Roles,
          turn_token : Roles, evidence : Evidence] : q.turn_token # q.sender}

ASSUME NoneIsNoReveal == None \notin Reveals

TurnKey(q) == <<q.subgame, q.step, q.sender>>

Ledgers == [commitments     : [Keys -> Hashes \cup {None}],
            reveals         : [Keys -> Reveals \cup {None}],
            token_owners    : [Subgames -> Roles],
            completed_steps : [Subgames \X Roles -> 0 .. MaxStep]]

EmptyLedger == [commitments     |-> [k \in Keys |-> None],
                reveals         |-> [k \in Keys |-> None],
                token_owners    |-> [g \in Subgames |-> Thief],
                completed_steps |-> [p \in Subgames \X Roles |-> 0]]
---------------------------------------------------------------------------
\* Variants named ...Faulty, here and below, are what a definition must not
\* become: the properties tell them apart.  This one lets a step be skipped.
RequireTurnFaulty(l, subgame, step, sender) ==
  /\ l.token_owners[subgame] = sender
  /\ step > l.completed_steps[<<subgame, sender>>]

RequireTurn(l, subgame, step, sender) ==
  /\ l.token_owners[subgame] = sender
  /\ step = l.completed_steps[<<subgame, sender>>] + 1

CompleteLocalTurnOK(l, subgame, step, sender, recipient) ==
  /\ RequireTurn(l, subgame, step, sender)
  /\ recipient # sender

CompleteLocalTurn(l, subgame, step, sender, recipient) ==
  [l EXCEPT !.completed_steps[<<subgame, sender>>] = step,
            !.token_owners[subgame] = recipient]

\* The turn is required of a repeated commitment too.
RecordCommitOKStrictFaulty(l, q) ==
  /\ l.commitments[TurnKey(q)] \in {None, q.commitment}
  /\ RequireTurn(l, q.subgame, q.step, q.sender)

\* A commitment already stored is accepted again when it is the same one,
\* whoever holds the token by then; a new one needs the turn.
RecordCommitOK(l, q) ==
  LET existing == l.commitments[TurnKey(q)]
  IN  \/ existing = q.commitment
      \/ existing = None /\ RequireTurn(l, q.subgame, q.step, q.sender)

RecordCommit(l, q) == [l EXCEPT !.commitments[TurnKey(q)] = q.commitment]

Candidate(l, q) == [commitment |-> l.commitments[TurnKey(q)],
                    turn_token |-> q.turn_token,
                    evidence   |-> q.evidence]

RevealRecorded(l, q) == l.reveals[TurnKey(q)] # None

RecordRevealOK(l, q) ==
  \/ /\ RevealRecorded(l, q)
     /\ l.reveals[TurnKey(q)] = Candidate(l, q)
  \/ /\ ~RevealRecorded(l, q)
     /\ l.commitments[TurnKey(q)] # None
     /\ RequireTurn(l, q.subgame, q.step, q.sender)

\* The reveal is kept and its step is not counted.
RecordRevealUncountedFaulty(l, q) ==
  [l EXCEPT !.reveals[TurnKey(q)] = Candidate(l, q),
            !.token_owners[q.subgame] = q.turn_token]

RecordReveal(l, q) ==
  IF RevealRecorded(l, q)
    THEN l
    ELSE [l EXCEPT !.reveals[TurnKey(q)] = Candidate(l, q),
                   !.completed_steps[<<q.subgame, q.sender>>] = q.step,
                   !.token_owners[q.subgame] = q.turn_token]
---------------------------------------------------------------------------
(* What a ledger promises, whatever requests reach it.                     *)

(* The token alternates: the Thief has completed as many steps as the       *)
(* Police while it holds the token, and one more while it does not.         *)
TokenAlternates(l) ==
  \A g \in Subgames :
     l.completed_steps[<<g, Thief>>] =
       l.completed_steps[<<g, Police>>] + (IF l.token_owners[g] = Thief THEN 0 ELSE 1)

(* A commitment belongs to a completed turn or to the one turn its sender   *)
(* is entitled to take now: nobody is committed to a turn out of order.     *)
CommitsInTurn(l) ==
  \A g \in Subgames, s \in WireSteps, r \in Roles :
     l.commitments[<<g, s, r>>] # None =>
        /\ s > 0
        /\ \/ s <= l.completed_steps[<<g, r>>]
           \/ s = l.completed_steps[<<g, r>>] + 1 /\ l.token_owners[g] = r

(* A reveal is stored only over the commitment it opens, for a turn that is *)
(* completed, and it grants the token to the opponent.                      *)
RevealsSealed(l) ==
  \A g \in Subgames, s \in WireSteps, r \in Roles :
     l.reveals[<<g, s, r>>] # None =>
        /\ l.commitments[<<g, s, r>>] = l.reveals[<<g, s, r>>].commitment
        /\ l.reveals[<<g, s, r>>].turn_token = Other(r)
        /\ s \in 1 .. l.completed_steps[<<g, r>>]

(* A completed Police step has its reveal on record: the Thief's copy of    *)
(* the opponent's turns has no hole.  (The Thief's own turns are completed  *)
(* without one.)                                                            *)
PoliceRevealsContiguous(l) ==
  \A g \in Subgames, s \in WireSteps :
     s \in 1 .. l.completed_steps[<<g, Police>>] => l.reveals[<<g, s, Police>>] # None

LedgerInv(l) == /\ TokenAlternates(l)
                /\ CommitsInTurn(l)
                /\ RevealsSealed(l)
                /\ PoliceRevealsContiguous(l)

(* m is a ledger that l can have grown into: what was stored is untouched.  *)
Extends(l, m) ==
  /\ \A k \in Keys : l.commitments[k] # None => m.commitments[k] = l.commitments[k]
  /\ \A k \in Keys : l.reveals[k] # None => m.reveals[k] = l.reveals[k]
  /\ \A p \in Subgames \X Roles : l.completed_steps[p] <= m.completed_steps[p]
===========================================================================
