------------------------------ MODULE Series ------------------------------
(***************************************************************************)
(* A whole series between two processes: runtime/entrypoint.py (server and  *)
(* outbound loop in one process), negotiation.py, series.py and             *)
(* result_exchange.py.  Each peer proves the configuration by health,       *)
(* agrees on the anchor the coordinator chooses, plays the subgames one     *)
(* after the other, agrees on every subgame result and then on the series   *)
(* result, writes the artifacts, and keeps its server up for a short grace. *)
(*                                                                         *)
(* A subgame's turns are PeerGame's; here a subgame is the moment a peer    *)
(* has the audited outcome, which takes the opponent's disclosure.          *)
(* A request, once sent, may be handled any number of times (retries) at    *)
(* any later moment while the addressee's server is up, and any answer may  *)
(* be lost; a call that is not answered may be given up at any moment.      *)
(* The Police is external: the contract asks the same of it.                *)
(***************************************************************************)
EXTENDS Naturals, Sequences

CONSTANTS Coordinator,  \* the peer with the smaller group id
          Games,        \* config.series.subgames
          Counted,      \* config.counted
          Anchors,      \* seconds at which the series may start (game_uid)
          Declared,     \* game_uid in each peer's declaration file, or None
          Configs,      \* values of config_sha256
          Outcomes,     \* what an audited subgame may come to
          None

Thief  == "thief"
Police == "police"
Roles  == {Thief, Police}
Other(r) == IF r = Thief THEN Police ELSE Thief

ASSUME SeriesAssumption == /\ Coordinator \in Roles
                           /\ Games \in Nat \ {0}
                           /\ Counted \in BOOLEAN
                           /\ None \notin Anchors \cup {"ok", "refused"}
                           /\ Declared \in [Roles -> Anchors \cup {None}]

VARIABLES config,        \* the configuration hash of each peer
          pc,            \* where each peer's runner is
          uid,           \* the series identity a peer has proposed or taken
          outcomes,      \* its audited outcomes, in order
          answer,        \* answer to its current call
          sent,          \* requests sent so far
          negotiation,   \* service.negotiation of each peer
          proposals,     \* service.result_proposals of the opponent; 0 is the series
          files          \* artifacts written: of each subgame; 0 is the result

vars == <<config, pc, uid, outcomes, answer, sent, negotiation, proposals, files>>
service == <<negotiation, proposals>>

Calls == {"health", "negotiate", "subgame_result", "series_result"}
Waits == {"await_proposal", "await_subgame", "await_series"}
Ends  == {"exited", "failed"}
Rest  == {"off", "game", "grace"}

\* What a request says: the anchor, where it names one, and the outcomes it
\* commits to (of one subgame, or of the whole series).
Claims == (Anchors \cup {None}) \X Seq(Outcomes)

Requests == [from : Roles, tool : Calls, game : 0 .. Games, value : Claims]

TypeOK ==
  /\ config \in [Roles -> Configs]
  /\ pc \in [Roles -> Calls \cup Waits \cup Ends \cup Rest]
  /\ uid \in [Roles -> Anchors \cup {None}]
  /\ outcomes \in [Roles -> Seq(Outcomes)]
  /\ \A r \in Roles : Len(outcomes[r]) <= Games
  /\ answer \in [Roles -> {"ok", "refused", None}]
  /\ sent \subseteq Requests
  /\ negotiation \in [Roles -> Anchors \cup {None}]
  /\ proposals \in [Roles -> [0 .. Games -> Claims \cup {None}]]
  /\ files \in [Roles -> SUBSET (0 .. Games)]

Init ==
  /\ config \in [Roles -> Configs]
  /\ pc = [r \in Roles |-> "off"]
  /\ uid = [r \in Roles |-> None]
  /\ outcomes = [r \in Roles |-> <<>>]
  /\ answer = [r \in Roles |-> None]
  /\ sent = {}
  /\ negotiation = [r \in Roles |-> None]
  /\ proposals = [r \in Roles |-> [g \in 0 .. Games |-> None]]
  /\ files = [r \in Roles |-> {}]
---------------------------------------------------------------------------
(* Moves of a runner.                                                       *)

Goto(r, label) == /\ pc' = [pc EXCEPT ![r] = label]
                  /\ UNCHANGED <<answer, sent>>

Call(r, tool, game, value) ==
  /\ pc' = [pc EXCEPT ![r] = tool]
  /\ answer' = [answer EXCEPT ![r] = None]
  /\ sent' = sent \cup {[from |-> r, tool |-> tool, game |-> game, value |-> value]}

Idle == UNCHANGED <<config, uid, outcomes, files>> /\ UNCHANGED service

\* The server task runs; after the start-up pause the runner asks for health.
\* A counted series is refused before that without a declaration.
Start(r) ==
  /\ pc[r] = "off"
  /\ Idle
  /\ IF Counted /\ Declared[r] = None THEN Goto(r, "failed")
                                      ELSE Call(r, "health", 0, <<None, <<>>>>)

\* The coordinator reads the clock; the other peer waits for the anchor.
HealthAnswered(r) ==
  /\ pc[r] = "health" /\ answer[r] # None
  /\ UNCHANGED <<config, outcomes, files>> /\ UNCHANGED service
  /\ \/ answer[r] = "refused" /\ Goto(r, "failed") /\ UNCHANGED uid
     \/ /\ answer[r] = "ok" /\ r = Coordinator
        /\ \E a \in Anchors : /\ uid' = [uid EXCEPT ![r] = a]
                              /\ Call(r, "negotiate", 0, <<a, <<>>>>)
     \/ /\ answer[r] = "ok" /\ r # Coordinator
        /\ Goto(r, "await_proposal") /\ UNCHANGED uid

\* Step zero: a declaration, when there is one, must name this series.
StepZeroOK(r) == Declared[r] \in {None, uid[r]}

StepZero(r) == Goto(r, IF StepZeroOK(r) THEN "game" ELSE "failed")

NegotiateAnswered(r) ==
  /\ pc[r] = "negotiate" /\ answer[r] # None
  /\ Idle
  /\ \/ answer[r] = "refused" /\ Goto(r, "failed")
     \/ answer[r] = "ok" /\ r = Coordinator /\ Goto(r, "await_proposal")
     \/ answer[r] = "ok" /\ r # Coordinator /\ StepZero(r)

\* Faulty: the mirroring peer stamps the series with its own clock.
SeeProposalFaulty(r) ==
  /\ pc[r] = "await_proposal" /\ negotiation[r] # None
  /\ UNCHANGED <<config, outcomes, files>> /\ UNCHANGED service
  /\ IF r = Coordinator
       THEN StepZero(r) /\ UNCHANGED uid
       ELSE \E a \in Anchors : /\ uid' = [uid EXCEPT ![r] = a]
                               /\ Call(r, "negotiate", 0, <<a, <<>>>>)

\* The coordinator compares the mirrored proposal with its own; the other
\* peer mirrors the one it received.
SeeProposal(r) ==
  /\ pc[r] = "await_proposal" /\ negotiation[r] # None
  /\ UNCHANGED <<config, outcomes, files>> /\ UNCHANGED service
  /\ \/ r = Coordinator /\ negotiation[r] = uid[r] /\ StepZero(r) /\ UNCHANGED uid
     \/ r = Coordinator /\ negotiation[r] # uid[r] /\ Goto(r, "failed") /\ UNCHANGED uid
     \/ /\ r # Coordinator
        /\ uid' = [uid EXCEPT ![r] = negotiation[r]]
        /\ Call(r, "negotiate", 0, <<negotiation[r], <<>>>>)
---------------------------------------------------------------------------
(* Subgames and the series result.                                          *)

Game(r) == Len(outcomes[r]) + 1        \* the subgame r is playing
Last(r) == Len(outcomes[r])            \* the one it has just audited

\* An audited outcome takes the opponent's disclosure of the same subgame.
PlayGame(r) ==
  /\ pc[r] = "game"
  /\ \/ Len(outcomes[Other(r)]) >= Game(r)
     \/ pc[Other(r)] = "game" /\ Game(Other(r)) = Game(r)
  /\ UNCHANGED <<config, uid, files>> /\ UNCHANGED service
  /\ \E o \in Outcomes : /\ outcomes' = [outcomes EXCEPT ![r] = Append(@, o)]
                         /\ Call(r, "subgame_result", Game(r), <<None, <<o>>>>)

SubgameAnswered(r) ==
  /\ pc[r] = "subgame_result" /\ answer[r] # None
  /\ Idle
  /\ Goto(r, IF answer[r] = "ok" THEN "await_subgame" ELSE "failed")

SeriesDigest(r) == <<uid[r], outcomes[r]>>

\* Faulty: one subgame too many.
SeeSubgameFaulty(r) ==
  /\ pc[r] = "await_subgame" /\ proposals[r][Last(r)] # None
  /\ UNCHANGED <<config, uid, outcomes, files>> /\ UNCHANGED service
  /\ Goto(r, IF Last(r) <= Games THEN "game" ELSE "failed")

\* The opponent's result of the subgame: its config and log are written, and
\* the next subgame begins or the series result is proposed.
SeeSubgame(r) ==
  /\ pc[r] = "await_subgame" /\ proposals[r][Last(r)] # None
  /\ UNCHANGED <<config, uid, outcomes>> /\ UNCHANGED service
  /\ IF proposals[r][Last(r)][2] # <<outcomes[r][Last(r)]>>
       THEN Goto(r, "failed") /\ UNCHANGED files
       ELSE /\ files' = [files EXCEPT ![r] = @ \cup {Last(r)}]
            /\ IF Last(r) < Games
                 THEN Goto(r, "game")
                 ELSE Call(r, "series_result", 0, SeriesDigest(r))

\* Faulty: the acknowledgment is taken for the opponent's confirmation.
SeriesAnsweredFaulty(r) ==
  /\ pc[r] = "series_result" /\ answer[r] # None
  /\ UNCHANGED <<config, uid, outcomes>> /\ UNCHANGED service
  /\ files' = [files EXCEPT ![r] = @ \cup {0}]
  /\ Goto(r, IF answer[r] = "ok" THEN "grace" ELSE "failed")

SeriesAnswered(r) ==
  /\ pc[r] = "series_result" /\ answer[r] # None
  /\ Idle
  /\ Goto(r, IF answer[r] = "ok" THEN "await_series" ELSE "failed")

\* confirm_result: only an identical digest writes the result artifact.
SeeSeries(r) ==
  /\ pc[r] = "await_series" /\ proposals[r][0] # None
  /\ UNCHANGED <<config, uid, outcomes>> /\ UNCHANGED service
  /\ IF proposals[r][0] = SeriesDigest(r)
       THEN files' = [files EXCEPT ![r] = @ \cup {0}] /\ Goto(r, "grace")
       ELSE Goto(r, "failed") /\ UNCHANGED files

\* The grace is over and the server task is cancelled.
Exit(r) == pc[r] = "grace" /\ Idle /\ Goto(r, "exited")
---------------------------------------------------------------------------
(* Failure: retries are exhausted, or a wait expires.  Either way the       *)
(* exception leaves run_peer_runtime, and the server goes down with it.     *)

CallExhausted(r) == pc[r] \in Calls /\ Idle /\ Goto(r, "failed")

Awaited(r) == \/ pc[r] = "await_proposal" /\ negotiation[r] # None
              \/ pc[r] = "await_subgame" /\ proposals[r][Last(r)] # None
              \/ pc[r] = "await_series" /\ proposals[r][0] # None

\* Faulty: the wait for the final result has no deadline.
WaitTimeoutFaulty(r) == /\ pc[r] \in Waits \ {"await_series"} /\ ~Awaited(r)
                        /\ Idle /\ Goto(r, "failed")

WaitTimeout(r) == pc[r] \in Waits /\ ~Awaited(r) /\ Idle /\ Goto(r, "failed")

\* The subgame ends in a technical loss, a bad audit or an illegal replay.
GameFails(r) == pc[r] = "game" /\ Idle /\ Goto(r, "failed")
---------------------------------------------------------------------------
(* The server side.                                                         *)

Up(r) == pc[r] \notin {"off"} \cup Ends

\* _validate, and what the handler itself asks.
Validate(c) == config[c.from] = config[Other(c.from)]

\* Faulty: a repetition is taken for a conflict.
AcceptsFaulty(c) ==
  /\ Validate(c)
  /\ CASE c.tool = "health"    -> TRUE
       [] c.tool = "negotiate" -> negotiation[Other(c.from)] = None
       [] OTHER -> proposals[Other(c.from)][c.game] = None

Accepts(c) ==
  /\ Validate(c)
  /\ CASE c.tool = "health"    -> TRUE
       [] c.tool = "negotiate" -> ~Counted \/ Games = 6
       [] OTHER -> proposals[Other(c.from)][c.game] \in {None, c.value}

Handle(c) ==
  LET to == Other(c.from)
  IN  /\ Up(to)
      /\ negotiation' = IF c.tool = "negotiate" /\ Accepts(c)
                          THEN [negotiation EXCEPT ![to] = c.value[1]] ELSE negotiation
      /\ proposals' = IF c.tool \in {"subgame_result", "series_result"} /\ Accepts(c)
                        THEN [proposals EXCEPT ![to][c.game] = c.value] ELSE proposals
      /\ \/ UNCHANGED answer                     \* lost, or to an earlier attempt
         \/ /\ pc[c.from] = c.tool /\ c.game \in {0, Last(c.from)}
            /\ answer' = [answer EXCEPT ![c.from] = IF Accepts(c) THEN "ok" ELSE "refused"]
      /\ UNCHANGED <<config, pc, uid, outcomes, sent, files>>
---------------------------------------------------------------------------
Progress(r) == \/ Start(r) \/ HealthAnswered(r) \/ NegotiateAnswered(r) \/ SeeProposal(r)
               \/ PlayGame(r) \/ SubgameAnswered(r) \/ SeeSubgame(r)
               \/ SeriesAnswered(r) \/ SeeSeries(r) \/ Exit(r)

Failure(r) == CallExhausted(r) \/ WaitTimeout(r) \/ GameFails(r)

Next == \/ \E c \in sent : Handle(c)
        \/ \E r \in Roles : Progress(r) \/ Failure(r)

\* Every task that can go on does, and every deadline passes; the network owes
\* nothing.
Spec == Init /\ [][Next]_vars /\ \A r \in Roles : WF_vars(Progress(r) \/ Failure(r))
---------------------------------------------------------------------------
Playing(r) == pc[r] \in {"game", "subgame_result", "await_subgame", "series_result",
                         "await_series", "grace", "exited"}

(* Peers that play, play the same series under the same configuration, the  *)
(* one the coordinator anchored (negotiation.py:34-63, service.py:42-49).   *)
OneSeries ==
  /\ \A r \in Roles : Playing(r) =>
       config[r] = config[Other(r)] /\ uid[r] # None /\ uid[r] = uid[Coordinator]
  /\ Playing(Thief) /\ Playing(Police) => uid[Thief] = uid[Police]

(* A result artifact is never one-sided: when a peer writes it, the         *)
(* opponent has audited and filed every subgame and computed the same       *)
(* series result, even if it goes on to fail (result_exchange.py:50-60).    *)
ResultConfirmed ==
  \A r \in Roles : 0 \in files[r] =>
     /\ 1 .. Games \subseteq files[r]
     /\ 1 .. Games \subseteq files[Other(r)]
     /\ SeriesDigest(r) = SeriesDigest(Other(r))

(* No copy of a request sent by an honest peer is refused when it arrives,  *)
(* late or repeated: the series goes on or fails for another reason.        *)
RepeatsAccepted == config[Thief] = config[Police] => \A c \in sent : Accepts(c)

(* Every peer that starts comes to an end (wait.py:19-20, gatekeeper.py:54).*)
SeriesEnds == \A r \in Roles : <>(pc[r] \in Ends)

(* README.md:106 and docs/public-network-runbook.md:19-20: a counted series *)
(* is started with the declaration the peers agreed on beforehand.  When    *)
(* both bring the same one and negotiate, step zero does not refuse it.     *)
AgreedDeclarationAccepted ==
  [][\A r \in Roles :
       /\ Counted /\ Declared[Thief] = Declared[Police]
       /\ uid[r] # None /\ uid[r] = uid[Other(r)]
       /\ NegotiateAnswered(r) \/ SeeProposal(r)
       /\ answer[r] # "refused"
       => pc'[r] # "failed"]_vars
===========================================================================
