--------------------------- MODULE Series_proofs ---------------------------
(***************************************************************************)
(* What two peers agree on, for any number of subgames and any anchors,     *)
(* outcomes and configurations.  The invariant follows the requests: what   *)
(* was ever sent stays true of its sender, so what a server holds, however  *)
(* late it came or often, is what the sender still says.                    *)
(***************************************************************************)
EXTENDS Series, TLAPS

Before  == {"off", "health", "negotiate", "await_proposal"}
Subgame == {"subgame_result", "await_subgame"}
Closing == {"series_result", "await_series", "grace", "exited"}

\* The configuration is common, and the anchor the coordinator's.
Anchored ==
  \A r \in Roles :
    /\ answer[r] = "ok" \/ pc[r] \notin {"off", "health", "failed"} =>
         config[r] = config[Other(r)]
    /\ pc[r] \in {"off", "health"} => uid[r] = None
    /\ r # Coordinator /\ pc[r] = "await_proposal" => uid[r] = None
    /\ r = Coordinator /\ pc[r] = "await_proposal" => uid[r] # None
    /\ pc[r] \notin {"off", "health", "await_proposal", "failed"} => uid[r] # None
    /\ uid[r] # None => uid[r] = uid[Coordinator]
    /\ negotiation[r] # None => negotiation[r] = uid[Other(r)]

\* Where a peer is in its subgames, and what it has filed.
FiledAt(r) ==
  /\ pc[r] \in Before => outcomes[r] = <<>>
  /\ pc[r] = "game" =>
       Len(outcomes[r]) < Games /\ 1 .. Len(outcomes[r]) \subseteq files[r]
  /\ pc[r] \in Subgame =>
       Len(outcomes[r]) > 0 /\ 1 .. (Len(outcomes[r]) - 1) \subseteq files[r]
  /\ pc[r] \in Closing =>
       Len(outcomes[r]) = Games /\ 1 .. Games \subseteq files[r]
  /\ 0 \in files[r] =>
       /\ pc[r] \in {"grace", "exited"}
       /\ proposals[r][0] # None /\ proposals[r][0] = SeriesDigest(r)

Filed == \A r \in Roles : FiledAt(r)

\* What a request says is still what its sender holds.
StillTrue(c) ==
  /\ c.tool = "negotiate" => uid[c.from] # None /\ c.value[1] = uid[c.from]
  /\ c.tool = "subgame_result" =>
       /\ c.game \in 1 .. Len(outcomes[c.from])
       /\ c.value = <<None, <<outcomes[c.from][c.game]>>>>
  /\ c.tool = "series_result" =>
       /\ c.game = 0 /\ c.value = SeriesDigest(c.from)
       /\ pc[c.from] \in Closing \cup {"failed"}
       /\ 1 .. Games \subseteq files[c.from]

Truthful == \A c \in sent : StillTrue(c)

\* What a server holds was sent to it.
Received ==
  \A r \in Roles : \A g \in 0 .. Games : proposals[r][g] # None =>
    \E c \in sent : /\ c.from = Other(r) /\ c.game = g /\ c.value = proposals[r][g]
                    /\ c.tool \in {"subgame_result", "series_result"}

IInv == TypeOK /\ Anchored /\ Filed /\ Truthful /\ Received

LEMMA OtherRole ==
  \A r \in Roles : /\ Other(r) \in Roles /\ Other(r) # r /\ Other(Other(r)) = r
                   /\ Roles = {r, Other(r)}
                   /\ r # Coordinator => Other(r) = Coordinator
BY SeriesAssumption DEF Other, Roles, Thief, Police

LEMMA Digests ==
  /\ <<None, <<>>>> \in Claims
  /\ \A a \in Anchors \cup {None} : <<a, <<>>>> \in Claims
  /\ \A o \in Outcomes : <<None, <<o>>>> \in Claims
  /\ TypeOK => \A r \in Roles : SeriesDigest(r) \in Claims
<1>1. <<>> \in Seq(Outcomes) /\ \A o \in Outcomes : <<o>> \in Seq(Outcomes)
  OBVIOUS
<1> QED BY <1>1 DEF Claims, TypeOK, SeriesDigest

LEMMA CallTyped ==
  ASSUME TypeOK, NEW r \in Roles, NEW tool \in Calls, NEW game \in 0 .. Games,
         NEW value \in Claims, Call(r, tool, game, value)
  PROVE  /\ pc' \in [Roles -> Calls \cup Waits \cup Ends \cup Rest]
         /\ answer' \in [Roles -> {"ok", "refused", None}]
         /\ sent' \subseteq Requests
<1>1. [from |-> r, tool |-> tool, game |-> game, value |-> value] \in Requests
  BY DEF Requests
<1> QED BY <1>1 DEF Call, TypeOK

LEMMA GotoTyped ==
  ASSUME TypeOK, NEW r \in Roles, Goto(r, "failed") \/ Goto(r, "game") \/ Goto(r, "grace")
           \/ Goto(r, "await_proposal") \/ Goto(r, "await_subgame") \/ Goto(r, "await_series")
  PROVE  /\ pc' \in [Roles -> Calls \cup Waits \cup Ends \cup Rest]
         /\ answer' \in [Roles -> {"ok", "refused", None}]
         /\ sent' \subseteq Requests
BY DEF Goto, TypeOK, Calls, Waits, Ends, Rest

\* A peer goes on without learning an anchor.
LEMMA AnchoredKept ==
  ASSUME TypeOK, Anchored, NEW r \in Roles, NEW l, UNCHANGED <<config, uid, negotiation>>,
         pc' = [pc EXCEPT ![r] = l],
         \A q \in Roles : answer'[q] = "ok" => answer[q] = "ok",
         \/ l = "failed"
         \/ pc[r] = "off" /\ l = "health"
         \/ /\ pc[r] \notin {"off", "health", "await_proposal", "failed"}
            /\ l \notin {"off", "health", "await_proposal"}
  PROVE  Anchored'
<1> SUFFICES ASSUME NEW q \in Roles
             PROVE  /\ answer'[q] = "ok" \/ pc'[q] \notin {"off", "health", "failed"} =>
                         config[q] = config[Other(q)]
                    /\ pc'[q] \in {"off", "health"} => uid[q] = None
                    /\ q # Coordinator /\ pc'[q] = "await_proposal" => uid[q] = None
                    /\ q = Coordinator /\ pc'[q] = "await_proposal" => uid[q] # None
                    /\ pc'[q] \notin {"off", "health", "await_proposal", "failed"} => uid[q] # None
                    /\ uid[q] # None => uid[q] = uid[Coordinator]
                    /\ negotiation[q] # None => negotiation[q] = uid[Other(q)]
  BY DEF Anchored
<1>1. CASE q = r
  <2>1. pc'[r] = l
    BY DEF TypeOK
  <2> QED BY <1>1, <2>1 DEF Anchored
<1>2. CASE q # r
  <2>1. pc'[q] = pc[q]
    BY <1>2 DEF TypeOK
  <2> QED BY <2>1 DEF Anchored
<1> QED BY <1>1, <1>2

LEMMA FileAdded ==
  ASSUME TypeOK, NEW r \in Roles, NEW g \in 0 .. Games,
         files' = [files EXCEPT ![r] = @ \cup {g}]
  PROVE  files' \in [Roles -> SUBSET (0 .. Games)]
<1>1. files[r] \cup {g} \in SUBSET (0 .. Games)
  BY DEF TypeOK
<1> QED BY <1>1 DEF TypeOK
---------------------------------------------------------------------------
(* The types.                                                               *)

LEMMA StepTyped == TypeOK /\ Filed /\ [Next]_vars => TypeOK'
<1> SUFFICES ASSUME TypeOK, Filed, [Next]_vars PROVE TypeOK'
  OBVIOUS
<1> USE SeriesAssumption, OtherRole
<1>1. ASSUME NEW r \in Roles, Start(r) PROVE TypeOK'
  <2>1. "health" \in Calls /\ 0 \in 0 .. Games
    BY SeriesAssumption DEF Calls
  <2>2. UNCHANGED <<config, uid, outcomes, files, negotiation, proposals>>
    BY <1>1 DEF Start, Idle, service
  <2>3. Goto(r, "failed") \/ Call(r, "health", 0, <<None, <<>>>>)
    BY <1>1 DEF Start
  <2>4. /\ pc' \in [Roles -> Calls \cup Waits \cup Ends \cup Rest]
        /\ answer' \in [Roles -> {"ok", "refused", None}]
        /\ sent' \subseteq Requests
    BY <2>1, <2>3, CallTyped, GotoTyped, Digests
  <2> QED BY <2>2, <2>4 DEF TypeOK
<1>2. ASSUME NEW r \in Roles, HealthAnswered(r) PROVE TypeOK'
  <2>1. "negotiate" \in Calls /\ 0 \in 0 .. Games
    BY SeriesAssumption DEF Calls
  <2>2. UNCHANGED <<config, outcomes, files, negotiation, proposals>>
    BY <1>2 DEF HealthAnswered, service
  <2>3. CASE (Goto(r, "failed") \/ Goto(r, "await_proposal")) /\ UNCHANGED uid
    BY <2>2, <2>3, GotoTyped DEF TypeOK
  <2>4. ASSUME NEW a \in Anchors, uid' = [uid EXCEPT ![r] = a],
               Call(r, "negotiate", 0, <<a, <<>>>>)
        PROVE  TypeOK'
    BY <2>1, <2>2, <2>4, CallTyped, Digests DEF TypeOK
  <2> QED BY <1>2, <2>3, <2>4 DEF HealthAnswered
<1>3. ASSUME NEW r \in Roles, NegotiateAnswered(r) PROVE TypeOK'
  BY <1>3 DEF TypeOK, Calls, Waits, Ends, Rest, NegotiateAnswered, Idle, StepZero, Goto, service
<1>4. ASSUME NEW r \in Roles, SeeProposal(r) PROVE TypeOK'
  <2>1. "negotiate" \in Calls /\ 0 \in 0 .. Games
    BY SeriesAssumption DEF Calls
  <2>2. UNCHANGED <<config, outcomes, files, negotiation, proposals>>
    BY <1>4 DEF SeeProposal, service
  <2>3. CASE (Goto(r, "failed") \/ Goto(r, "game")) /\ UNCHANGED uid
    BY <2>2, <2>3, GotoTyped DEF TypeOK
  <2>4. CASE /\ uid' = [uid EXCEPT ![r] = negotiation[r]]
             /\ Call(r, "negotiate", 0, <<negotiation[r], <<>>>>)
    <3>1. negotiation[r] \in Anchors \cup {None}
      BY DEF TypeOK
    <3> QED BY <2>1, <2>2, <2>4, <3>1, CallTyped, Digests DEF TypeOK
  <2>5. StepZero(r) => Goto(r, "failed") \/ Goto(r, "game")
    BY DEF StepZero
  <2> QED BY <1>4, <2>3, <2>4, <2>5 DEF SeeProposal
<1>5. ASSUME NEW r \in Roles, PlayGame(r) PROVE TypeOK'
  <2>1. PICK o \in Outcomes : /\ outcomes' = [outcomes EXCEPT ![r] = Append(@, o)]
                              /\ Call(r, "subgame_result", Game(r), <<None, <<o>>>>)
    BY <1>5 DEF PlayGame
  <2>2. UNCHANGED <<config, uid, files, negotiation, proposals>> /\ pc[r] = "game"
    BY <1>5 DEF PlayGame, service
  <2>3. outcomes[r] \in Seq(Outcomes) /\ Len(outcomes[r]) < Games /\ Len(outcomes[r]) \in Nat
    BY <2>2 DEF TypeOK, Filed, FiledAt
  <2>4. /\ Append(outcomes[r], o) \in Seq(Outcomes)
        /\ Len(Append(outcomes[r], o)) <= Games
    BY <2>3, SeriesAssumption
  <2>5. /\ outcomes' \in [Roles -> Seq(Outcomes)]
        /\ \A q \in Roles : Len(outcomes'[q]) <= Games
    BY <2>1, <2>4 DEF TypeOK
  <2>6. "subgame_result" \in Calls /\ Game(r) \in 0 .. Games
    BY <2>3, SeriesAssumption DEF Calls, Game
  <2>7. /\ pc' \in [Roles -> Calls \cup Waits \cup Ends \cup Rest]
        /\ answer' \in [Roles -> {"ok", "refused", None}]
        /\ sent' \subseteq Requests
    BY <2>1, <2>6, CallTyped, Digests
  <2> QED BY <2>2, <2>5, <2>7 DEF TypeOK
<1>6. ASSUME NEW r \in Roles, SubgameAnswered(r) PROVE TypeOK'
  BY <1>6 DEF TypeOK, Calls, Waits, Ends, Rest, SubgameAnswered, Idle, Goto, service
<1>7. ASSUME NEW r \in Roles, SeeSubgame(r) PROVE TypeOK'
  <2>1. "series_result" \in Calls /\ 0 \in 0 .. Games /\ SeriesDigest(r) \in Claims
    BY SeriesAssumption, Digests DEF Calls
  <2>2. UNCHANGED <<config, uid, outcomes, negotiation, proposals>>
    BY <1>7 DEF SeeSubgame, service
  <2>3. files' \in [Roles -> SUBSET (0 .. Games)]
    <3>1. pc[r] \in Subgame /\ Len(outcomes[r]) \in Nat
      BY <1>7 DEF SeeSubgame, Subgame, TypeOK
    <3>2. Last(r) \in 0 .. Games
      BY <3>1, SeriesAssumption DEF TypeOK, Last
    <3>3. files' = files \/ files' = [files EXCEPT ![r] = @ \cup {Last(r)}]
      BY <1>7 DEF SeeSubgame
    <3> QED BY <3>2, <3>3, FileAdded DEF TypeOK
  <2>4. Goto(r, "failed") \/ Goto(r, "game") \/ Call(r, "series_result", 0, SeriesDigest(r))
    BY <1>7 DEF SeeSubgame
  <2>5. /\ pc' \in [Roles -> Calls \cup Waits \cup Ends \cup Rest]
        /\ answer' \in [Roles -> {"ok", "refused", None}]
        /\ sent' \subseteq Requests
    BY <2>1, <2>4, CallTyped, GotoTyped
  <2> QED BY <2>2, <2>3, <2>5 DEF TypeOK
<1>8. ASSUME NEW r \in Roles, SeriesAnswered(r) PROVE TypeOK'
  BY <1>8 DEF TypeOK, Calls, Waits, Ends, Rest, SeriesAnswered, Idle, Goto, service
<1>9. ASSUME NEW r \in Roles, SeeSeries(r) PROVE TypeOK'
  <2>1. UNCHANGED <<config, uid, outcomes, negotiation, proposals>>
    BY <1>9 DEF SeeSeries, service
  <2>2. Goto(r, "failed") \/ Goto(r, "grace")
    BY <1>9 DEF SeeSeries
  <2>3. files' \in [Roles -> SUBSET (0 .. Games)]
    <3>1. files' = files \/ files' = [files EXCEPT ![r] = @ \cup {0}]
      BY <1>9 DEF SeeSeries
    <3>2. 0 \in 0 .. Games
      BY SeriesAssumption
    <3> QED BY <3>1, <3>2, FileAdded DEF TypeOK
  <2> QED BY <2>1, <2>2, <2>3, GotoTyped DEF TypeOK
<1>10. ASSUME NEW r \in Roles, Exit(r) PROVE TypeOK'
  BY <1>10 DEF TypeOK, Calls, Waits, Ends, Rest, Exit, Idle, Goto, service
<1>11. ASSUME NEW r \in Roles, CallExhausted(r) PROVE TypeOK'
  BY <1>11 DEF TypeOK, Calls, Waits, Ends, Rest, CallExhausted, Idle, Goto, service
<1>12. ASSUME NEW r \in Roles, WaitTimeout(r) PROVE TypeOK'
  BY <1>12 DEF TypeOK, Calls, Waits, Ends, Rest, WaitTimeout, Idle, Goto, service
<1>13. ASSUME NEW r \in Roles, GameFails(r) PROVE TypeOK'
  BY <1>13 DEF TypeOK, Calls, Waits, Ends, Rest, GameFails, Idle, Goto, service
<1>14. ASSUME NEW c \in sent, Handle(c) PROVE TypeOK'
  <2>1. c.from \in Roles /\ c.game \in 0 .. Games /\ c.value \in Claims
    BY DEF TypeOK, Requests
  <2>2. Other(c.from) \in Roles /\ c.value[1] \in Anchors \cup {None}
    BY <2>1 DEF Claims
  <2>3. UNCHANGED <<config, pc, uid, outcomes, sent, files>>
    BY <1>14 DEF Handle
  <2>4. negotiation' \in [Roles -> Anchors \cup {None}]
    BY <1>14, <2>2 DEF Handle, TypeOK
  <2>5. proposals' \in [Roles -> [0 .. Games -> Claims \cup {None}]]
    <3>1. [proposals[Other(c.from)] EXCEPT ![c.game] = c.value]
            \in [0 .. Games -> Claims \cup {None}]
      BY <2>1, <2>2 DEF TypeOK
    <3>2. \/ proposals' = proposals
          \/ proposals' = [proposals EXCEPT ![Other(c.from)] =
                             [proposals[Other(c.from)] EXCEPT ![c.game] = c.value]]
      BY <1>14 DEF Handle
    <3> QED BY <3>1, <3>2, <2>2 DEF TypeOK
  <2>6. answer' \in [Roles -> {"ok", "refused", None}]
    <3>1. answer' = answer \/ answer' = [answer EXCEPT ![c.from] = "ok"]
            \/ answer' = [answer EXCEPT ![c.from] = "refused"]
      BY <1>14 DEF Handle
    <3> QED BY <3>1, <2>1 DEF TypeOK
  <2> QED BY <2>3, <2>4, <2>5, <2>6 DEF TypeOK
<1>15. CASE UNCHANGED vars
  BY <1>15 DEF TypeOK, Calls, Waits, Ends, Rest, vars
<1> QED
  BY <1>1, <1>2, <1>3, <1>4, <1>5, <1>6, <1>7, <1>8,
     <1>9, <1>10, <1>11, <1>12, <1>13, <1>14, <1>15 DEF Next, Progress, Failure

(* The series.                                                              *)

LEMMA StepAnchored == TypeOK /\ Anchored /\ Truthful /\ [Next]_vars => Anchored'
<1> SUFFICES ASSUME TypeOK, Anchored, Truthful, [Next]_vars PROVE Anchored'
  OBVIOUS
<1> USE SeriesAssumption, OtherRole
<1>1. ASSUME NEW r \in Roles, Start(r) PROVE Anchored'
  <2>1. UNCHANGED <<config, uid, negotiation>> /\ pc[r] = "off"
    BY <1>1 DEF Start, Idle, service
  <2>2. \/ pc' = [pc EXCEPT ![r] = "failed"] /\ UNCHANGED answer
        \/ pc' = [pc EXCEPT ![r] = "health"] /\ answer' = [answer EXCEPT ![r] = None]
    BY <1>1 DEF Start, Goto, Call
  <2>3. \A q \in Roles : answer'[q] = "ok" => answer[q] = "ok"
    BY <2>1, <2>2, SeriesAssumption DEF TypeOK
  <2> QED BY <2>1, <2>2, <2>3, AnchoredKept
<1>2. ASSUME NEW r \in Roles, HealthAnswered(r) PROVE Anchored'
  BY <1>2 DEF TypeOK, Anchored, HealthAnswered, Call, Goto, service
<1>3. ASSUME NEW r \in Roles, NegotiateAnswered(r) PROVE Anchored'
  BY <1>3 DEF TypeOK, Anchored, NegotiateAnswered, Idle, StepZero, Goto, service
<1>4. ASSUME NEW r \in Roles, SeeProposal(r) PROVE Anchored'
  BY <1>4 DEF TypeOK, Anchored, SeeProposal, StepZero, Call, Goto, service
<1>5. ASSUME NEW r \in Roles, PlayGame(r) PROVE Anchored'
  BY <1>5 DEF TypeOK, Anchored, PlayGame, Call, Game, service
<1>6. ASSUME NEW r \in Roles, SubgameAnswered(r) PROVE Anchored'
  BY <1>6 DEF TypeOK, Anchored, SubgameAnswered, Idle, Goto, service
<1>7. ASSUME NEW r \in Roles, SeeSubgame(r) PROVE Anchored'
  <2>1. UNCHANGED <<config, uid, negotiation>> /\ pc[r] = "await_subgame"
    BY <1>7 DEF SeeSubgame, service
  <2>2. \/ pc' = [pc EXCEPT ![r] = "failed"] /\ UNCHANGED answer
        \/ pc' = [pc EXCEPT ![r] = "game"] /\ UNCHANGED answer
        \/ pc' = [pc EXCEPT ![r] = "series_result"] /\ answer' = [answer EXCEPT ![r] = None]
    BY <1>7 DEF SeeSubgame, Goto, Call
  <2>3. \A q \in Roles : answer'[q] = "ok" => answer[q] = "ok"
    BY <2>1, <2>2, SeriesAssumption DEF TypeOK
  <2> QED BY <2>1, <2>2, <2>3, AnchoredKept
<1>8. ASSUME NEW r \in Roles, SeriesAnswered(r) PROVE Anchored'
  BY <1>8 DEF TypeOK, Anchored, SeriesAnswered, Idle, Goto, service
<1>9. ASSUME NEW r \in Roles, SeeSeries(r) PROVE Anchored'
  <2>1. UNCHANGED <<config, uid, negotiation, answer>> /\ pc[r] = "await_series"
    BY <1>9 DEF SeeSeries, service, Goto
  <2>2. pc' = [pc EXCEPT ![r] = "failed"] \/ pc' = [pc EXCEPT ![r] = "grace"]
    BY <1>9 DEF SeeSeries, Goto
  <2>3. \A q \in Roles : answer'[q] = "ok" => answer[q] = "ok"
    BY <2>1, <2>2, SeriesAssumption DEF TypeOK
  <2> QED BY <2>1, <2>2, <2>3, AnchoredKept
<1>10. ASSUME NEW r \in Roles, Exit(r) PROVE Anchored'
  BY <1>10 DEF TypeOK, Anchored, Exit, Idle, Goto, service
<1>11. ASSUME NEW r \in Roles, CallExhausted(r) PROVE Anchored'
  BY <1>11 DEF TypeOK, Anchored, CallExhausted, Idle, Goto, service
<1>12. ASSUME NEW r \in Roles, WaitTimeout(r) PROVE Anchored'
  BY <1>12 DEF TypeOK, Anchored, WaitTimeout, Idle, Goto, service
<1>13. ASSUME NEW r \in Roles, GameFails(r) PROVE Anchored'
  BY <1>13 DEF TypeOK, Anchored, GameFails, Idle, Goto, service
<1>14. ASSUME NEW c \in sent, Handle(c) PROVE Anchored'
  <2>1. c \in Requests /\ StillTrue(c)
    BY DEF TypeOK, Truthful
  <2>2. c.from \in Roles /\ Other(c.from) \in Roles /\ Other(Other(c.from)) = c.from
    BY <2>1 DEF Requests
  <2>3. UNCHANGED <<config, pc, uid>>
    BY <1>14 DEF Handle
  <2>4. Accepts(c) => config[c.from] = config[Other(c.from)]
    BY DEF Accepts, Validate
  <2>5. ASSUME NEW q \in Roles, answer'[q] = "ok"
        PROVE  answer[q] = "ok" \/ config[q] = config[Other(q)]
    <3>1. \/ answer' = answer
          \/ /\ answer' = [answer EXCEPT ![c.from] = "ok"]
             /\ config[c.from] = config[Other(c.from)]
          \/ answer' = [answer EXCEPT ![c.from] = "refused"]
      BY <1>14, <2>4 DEF Handle
    <3>2. CASE q = c.from
      BY <2>5, <3>1, <3>2 DEF TypeOK
    <3>3. CASE q # c.from
      BY <2>5, <3>1, <3>3 DEF TypeOK
    <3> QED BY <3>2, <3>3
  <2>6. \A q \in Roles : negotiation'[q] = negotiation[q] \/ negotiation'[q] = uid[Other(q)]
    BY <1>14, <2>1, <2>2 DEF Handle, TypeOK, StillTrue
  <2> QED BY <2>3, <2>4, <2>5, <2>6, <2>2 DEF Anchored
<1>15. CASE UNCHANGED vars
  BY <1>15 DEF TypeOK, Anchored, vars
<1> QED
  BY <1>1, <1>2, <1>3, <1>4, <1>5, <1>6, <1>7, <1>8,
     <1>9, <1>10, <1>11, <1>12, <1>13, <1>14, <1>15 DEF Next, Progress, Failure
---------------------------------------------------------------------------
(* A step of one peer leaves the other's state alone.                       *)

Others(r) == \A q \in Roles \ {r} :
  /\ pc'[q] = pc[q] /\ uid'[q] = uid[q] /\ outcomes'[q] = outcomes[q]
  /\ files'[q] = files[q] /\ answer'[q] = answer[q]

LEMMA OneAtATime ==
  ASSUME TypeOK, NEW r \in Roles, Progress(r) \/ Failure(r)
  PROVE  Others(r) /\ UNCHANGED <<config, negotiation, proposals>> /\ sent \subseteq sent'
<1> USE DEF TypeOK, Others, service
<1>1. CASE Start(r)
  BY <1>1 DEF Start, Idle, Call, Goto
<1>2. CASE HealthAnswered(r)
  BY <1>2 DEF HealthAnswered, Call, Goto
<1>3. CASE NegotiateAnswered(r)
  BY <1>3 DEF NegotiateAnswered, Idle, StepZero, Goto
<1>4. CASE SeeProposal(r)
  BY <1>4 DEF SeeProposal, StepZero, Call, Goto
<1>5. CASE PlayGame(r)
  BY <1>5 DEF PlayGame, Call, Game
<1>6. CASE SubgameAnswered(r)
  BY <1>6 DEF SubgameAnswered, Idle, Goto
<1>7. CASE SeeSubgame(r)
  BY <1>7 DEF SeeSubgame, Last, Call, Goto
<1>8. CASE SeriesAnswered(r)
  BY <1>8 DEF SeriesAnswered, Idle, Goto
<1>9. CASE SeeSeries(r)
  BY <1>9 DEF SeeSeries, Goto
<1>10. CASE Exit(r)
  BY <1>10 DEF Exit, Idle, Goto
<1>11. CASE CallExhausted(r)
  BY <1>11 DEF CallExhausted, Idle, Goto
<1>12. CASE WaitTimeout(r)
  BY <1>12 DEF WaitTimeout, Idle, Goto
<1>13. CASE GameFails(r)
  BY <1>13 DEF GameFails, Idle, Goto
<1> QED
  BY <1>1, <1>2, <1>3, <1>4, <1>5, <1>6, <1>7,
     <1>8, <1>9, <1>10, <1>11, <1>12, <1>13 DEF Progress, Failure

(* What a peer has said it goes on to hold.                                 *)

Holds(q) ==
  /\ uid[q] # None => uid'[q] = uid[q]
  /\ \/ outcomes'[q] = outcomes[q]
     \/ pc[q] = "game" /\ \E o \in Outcomes : outcomes'[q] = Append(outcomes[q], o)
  /\ pc[q] \in Closing \cup {"failed"} =>
       pc'[q] \in Closing \cup {"failed"} /\ uid'[q] = uid[q]
  /\ files[q] \subseteq files'[q]

LEMMA StepHolds ==
  ASSUME TypeOK, Anchored, NEW r \in Roles, Progress(r) \/ Failure(r)
  PROVE  Holds(r)
<1> USE DEF TypeOK, Holds, Closing
<1>1. CASE Start(r)
  BY <1>1 DEF Start, Idle, Call, Goto
<1>2. CASE HealthAnswered(r)
  BY <1>2 DEF HealthAnswered, Call, Goto, Anchored
<1>3. CASE NegotiateAnswered(r)
  BY <1>3 DEF NegotiateAnswered, Idle, StepZero, Goto
<1>4. CASE SeeProposal(r)
  BY <1>4 DEF SeeProposal, StepZero, Call, Goto, Anchored
<1>5. CASE PlayGame(r)
  BY <1>5 DEF PlayGame, Call, Game
<1>6. CASE SubgameAnswered(r)
  BY <1>6 DEF SubgameAnswered, Idle, Goto
<1>7. CASE SeeSubgame(r)
  BY <1>7 DEF SeeSubgame, Last, Call, Goto
<1>8. CASE SeriesAnswered(r)
  BY <1>8 DEF SeriesAnswered, Idle, Goto
<1>9. CASE SeeSeries(r)
  BY <1>9 DEF SeeSeries, Goto
<1>10. CASE Exit(r)
  BY <1>10 DEF Exit, Idle, Goto
<1>11. CASE CallExhausted(r)
  BY <1>11 DEF CallExhausted, Idle, Goto, Calls
<1>12. CASE WaitTimeout(r)
  BY <1>12 DEF WaitTimeout, Idle, Goto, Waits
<1>13. CASE GameFails(r)
  BY <1>13 DEF GameFails, Idle, Goto
<1> QED
  BY <1>1, <1>2, <1>3, <1>4, <1>5, <1>6, <1>7,
     <1>8, <1>9, <1>10, <1>11, <1>12, <1>13 DEF Progress, Failure

LEMMA TruthKept ==
  ASSUME TypeOK, NEW c \in sent, StillTrue(c), Holds(c.from)
  PROVE  StillTrue(c)'
<1> DEFINE q == c.from
<1>1. c \in Requests /\ q \in Roles /\ outcomes[q] \in Seq(Outcomes)
  BY DEF TypeOK, Requests
<1>2. c.tool = "negotiate" => uid'[q] # None /\ c.value[1] = uid'[q]
  BY DEF StillTrue, Holds
<1>3. ASSUME c.tool = "subgame_result"
      PROVE  c.game \in 1 .. Len(outcomes'[q]) /\ c.value = <<None, <<outcomes'[q][c.game]>>>>
  BY <1>1, <1>3 DEF StillTrue, Holds
<1>4. ASSUME c.tool = "series_result"
      PROVE  /\ c.game = 0 /\ c.value = <<uid'[q], outcomes'[q]>>
             /\ pc'[q] \in Closing \cup {"failed"}
             /\ 1 .. Games \subseteq files'[q]
  BY <1>4 DEF StillTrue, Holds, SeriesDigest, Closing
<1> QED BY <1>2, <1>3, <1>4 DEF StillTrue, SeriesDigest

\* Each new request is true when it is made.
LEMMA StepTruthful ==
  TypeOK /\ Anchored /\ Filed /\ Truthful /\ [Next]_vars => Truthful'
<1> SUFFICES ASSUME TypeOK, Anchored, Filed, Truthful, [Next]_vars, NEW c \in sent'
             PROVE  StillTrue(c)'
  BY DEF Truthful
<1> USE SeriesAssumption
<1>1. ASSUME c \in sent, \A q \in Roles : Holds(q) PROVE StillTrue(c)'
  BY <1>1, TruthKept DEF TypeOK, Requests, Truthful
<1>2. ASSUME NEW r \in Roles, Progress(r) \/ Failure(r) PROVE StillTrue(c)'
  <2>1. CASE c \in sent
    <3>1. Others(r) /\ Holds(r)
      BY <1>2, OneAtATime, StepHolds
    <3>2. \A q \in Roles \ {r} : Holds(q)
      BY <3>1 DEF Others, Holds
    <3> QED BY <1>1, <2>1, <3>1, <3>2
  <2>2. CASE c \notin sent
    <3>1. CASE Start(r)
      BY <2>2, <3>1 DEF Start, Call, Goto, StillTrue
    <3>2. CASE HealthAnswered(r)
      <4>1. PICK a \in Anchors : /\ uid' = [uid EXCEPT ![r] = a]
                                 /\ Call(r, "negotiate", 0, <<a, <<>>>>)
        BY <2>2, <3>2 DEF HealthAnswered, Goto
      <4>2. a # None /\ uid'[r] = a /\ c.from = r /\ c.tool = "negotiate" /\ c.value[1] = a
        BY <2>2, <4>1 DEF Call, TypeOK
      <4> QED BY <4>2 DEF StillTrue
    <3>3. CASE NegotiateAnswered(r)
      BY <2>2, <3>3 DEF NegotiateAnswered, StepZero, Goto
    <3>4. CASE SeeProposal(r)
      <4>1. /\ uid' = [uid EXCEPT ![r] = negotiation[r]] /\ negotiation[r] # None
            /\ Call(r, "negotiate", 0, <<negotiation[r], <<>>>>)
        BY <2>2, <3>4 DEF SeeProposal, StepZero, Goto
      <4>2. /\ uid'[r] = negotiation[r] /\ c.from = r
            /\ c.tool = "negotiate" /\ c.value[1] = negotiation[r]
        BY <2>2, <4>1 DEF Call, TypeOK
      <4> QED BY <4>1, <4>2 DEF StillTrue
    <3>5. CASE PlayGame(r)
      <4>1. PICK o \in Outcomes : /\ outcomes' = [outcomes EXCEPT ![r] = Append(@, o)]
                                  /\ Call(r, "subgame_result", Game(r), <<None, <<o>>>>)
        BY <3>5 DEF PlayGame
      <4>2. /\ outcomes[r] \in Seq(Outcomes) /\ outcomes'[r] = Append(outcomes[r], o)
            /\ c.from = r /\ c.tool = "subgame_result"
            /\ c.game = Len(outcomes[r]) + 1 /\ c.value = <<None, <<o>>>>
        BY <2>2, <4>1 DEF Call, TypeOK, Game
      <4>3. c.game \in 1 .. Len(outcomes'[r]) /\ outcomes'[r][c.game] = o
        BY <4>2
      <4> QED BY <4>2, <4>3 DEF StillTrue
    <3>6. CASE SubgameAnswered(r)
      BY <2>2, <3>6 DEF SubgameAnswered, Goto
    <3>7. CASE SeeSubgame(r)
      <4>1. /\ Last(r) >= Games /\ pc[r] = "await_subgame"
            /\ files' = [files EXCEPT ![r] = @ \cup {Last(r)}]
            /\ uid' = uid /\ outcomes' = outcomes
            /\ Call(r, "series_result", 0, SeriesDigest(r))
        BY <2>2, <3>7 DEF SeeSubgame, Goto, TypeOK, Last
      <4>2. /\ c.from = r /\ c.tool = "series_result" /\ c.game = 0
            /\ c.value = <<uid'[r], outcomes'[r]>> /\ pc'[r] = "series_result"
        BY <2>2, <4>1 DEF Call, TypeOK, SeriesDigest
      <4>3. 1 .. Games \subseteq files'[r]
        <5>1. Len(outcomes[r]) = Games /\ 1 .. (Games - 1) \subseteq files[r]
          <6>1. outcomes[r] \in Seq(Outcomes) /\ Len(outcomes[r]) <= Games
            BY DEF TypeOK
          <6>2. Len(outcomes[r]) = Games
            BY <4>1, <6>1 DEF Last
          <6> QED BY <4>1, <6>2 DEF Filed, FiledAt, Subgame
        <5> QED BY <4>1, <5>1 DEF TypeOK, Last
      <4> QED BY <4>2, <4>3 DEF StillTrue, SeriesDigest, Closing
    <3>8. CASE SeriesAnswered(r)
      BY <2>2, <3>8 DEF SeriesAnswered, Goto
    <3>9. CASE SeeSeries(r)
      BY <2>2, <3>9 DEF SeeSeries, Goto
    <3>10. CASE Exit(r) \/ Failure(r)
      BY <2>2, <3>10 DEF Exit, Failure, CallExhausted, WaitTimeout, GameFails, Goto
    <3> QED BY <1>2, <3>1, <3>2, <3>3, <3>4, <3>5, <3>6, <3>7, <3>8, <3>9, <3>10 DEF Progress
  <2> QED BY <2>1, <2>2
<1>3. ASSUME NEW d \in sent, Handle(d) PROVE StillTrue(c)'
  BY <1>3, <1>1 DEF Handle, Holds
<1>4. CASE UNCHANGED vars
  BY <1>4, <1>1 DEF vars, Holds
<1> QED BY <1>2, <1>3, <1>4 DEF Next

LEMMA StepReceived == TypeOK /\ Received /\ [Next]_vars => Received'
<1> SUFFICES ASSUME TypeOK, Received, [Next]_vars PROVE Received'
  OBVIOUS
<1>1. ASSUME proposals' = proposals, sent \subseteq sent' PROVE Received'
  BY <1>1 DEF Received
<1>2. ASSUME NEW r \in Roles, Progress(r) \/ Failure(r) PROVE Received'
  BY <1>1, <1>2, OneAtATime
<1>3. ASSUME NEW c \in sent, Handle(c) PROVE Received'
  <2>1. /\ c.from \in Roles /\ c.game \in 0 .. Games /\ sent' = sent
        /\ Other(c.from) \in Roles /\ Other(Other(c.from)) = c.from
    BY <1>3, OtherRole DEF TypeOK, Requests, Handle
  <2>2. CASE proposals' = proposals
    BY <1>1, <2>1, <2>2
  <2>3. CASE /\ proposals' = [proposals EXCEPT ![Other(c.from)][c.game] = c.value]
             /\ c.tool \in {"subgame_result", "series_result"}
    <3> SUFFICES ASSUME NEW r \in Roles, NEW g \in 0 .. Games, proposals'[r][g] # None
                 PROVE  \E d \in sent : /\ d.from = Other(r) /\ d.game = g
                                        /\ d.value = proposals'[r][g]
                                        /\ d.tool \in {"subgame_result", "series_result"}
      BY <2>1 DEF Received
    <3>1. CASE r = Other(c.from) /\ g = c.game
      <4>1. proposals'[r][g] = c.value
        BY <2>1, <2>3, <3>1 DEF TypeOK
      <4> QED BY <2>1, <2>3, <3>1, <4>1
    <3>2. CASE ~(r = Other(c.from) /\ g = c.game)
      <4>1. proposals'[r][g] = proposals[r][g]
        BY <2>1, <2>3, <3>2 DEF TypeOK
      <4> QED BY <4>1 DEF Received
    <3> QED BY <3>1, <3>2
  <2> QED BY <1>3, <2>2, <2>3 DEF Handle
<1>4. CASE UNCHANGED vars
  BY <1>1, <1>4 DEF vars
<1> QED BY <1>2, <1>3, <1>4 DEF Next

(* What is filed.                                                           *)

LEMMA FiledKept ==
  ASSUME NEW q \in Roles, FiledAt(q), pc'[q] = pc[q], uid'[q] = uid[q],
         outcomes'[q] = outcomes[q], files'[q] = files[q],
         0 \in files[q] => proposals'[q][0] = proposals[q][0]
  PROVE  FiledAt(q)'
BY DEF FiledAt, SeriesDigest

\* A peer with nothing final goes on, and files nothing.
LEMMA FiledMoves ==
  ASSUME TypeOK, NEW r \in Roles, FiledAt(r), NEW l, pc' = [pc EXCEPT ![r] = l],
         outcomes' = outcomes, files' = files, pc[r] \notin {"grace", "exited"},
         \/ l = "failed"
         \/ l = "game" /\ pc[r] \in Before
         \/ l \in Before /\ pc[r] \in Before
         \/ l \in Subgame /\ pc[r] \in Subgame
         \/ l \in {"series_result", "await_series"} /\ pc[r] \in Closing
  PROVE  FiledAt(r)'
<1>1. pc'[r] = l
  BY DEF TypeOK
<1>2. 0 \notin files[r]
  BY DEF FiledAt
<1>3. CASE l = "failed"
  BY <1>1, <1>2, <1>3 DEF FiledAt, Before, Subgame, Closing
<1>4. CASE l = "game" /\ pc[r] \in Before
  <2>1. Len(outcomes[r]) = 0 /\ Games > 0
    BY <1>4, SeriesAssumption DEF FiledAt
  <2> QED BY <1>1, <1>2, <1>4, <2>1 DEF FiledAt, Before, Subgame, Closing
<1>5. CASE l \in Before /\ pc[r] \in Before
  BY <1>1, <1>2, <1>5 DEF FiledAt, Before, Subgame, Closing
<1>6. CASE l \in Subgame /\ pc[r] \in Subgame
  BY <1>1, <1>2, <1>6 DEF FiledAt, Before, Subgame, Closing
<1>7. CASE l \in {"series_result", "await_series"} /\ pc[r] \in Closing
  BY <1>1, <1>2, <1>7 DEF FiledAt, Before, Subgame, Closing
<1> QED BY <1>3, <1>4, <1>5, <1>6, <1>7

LEMMA StepFiled == TypeOK /\ Filed /\ [Next]_vars => Filed'
<1> SUFFICES ASSUME TypeOK, Filed, [Next]_vars PROVE Filed'
  OBVIOUS
<1> USE SeriesAssumption
<1>1. ASSUME NEW r \in Roles, Progress(r) \/ Failure(r) PROVE Filed'
  <2>1. \A q \in Roles \ {r} : FiledAt(q)'
    BY <1>1, OneAtATime, FiledKept DEF Others, Filed
  <2>2. FiledAt(r)
    BY DEF Filed
  <2>3. FiledAt(r)'
    <3>1. CASE Start(r)
      <4>1. /\ outcomes' = outcomes /\ files' = files /\ pc[r] = "off"
            /\ \E l \in {"failed", "health"} : pc' = [pc EXCEPT ![r] = l]
        BY <3>1 DEF Start, Idle, Goto, Call
      <4> QED BY <4>1, <2>2, FiledMoves DEF Before
    <3>2. CASE HealthAnswered(r)
      <4>1. /\ outcomes' = outcomes /\ files' = files /\ pc[r] = "health"
            /\ \E l \in {"failed", "negotiate", "await_proposal"} : pc' = [pc EXCEPT ![r] = l]
        BY <3>2 DEF HealthAnswered, Goto, Call
      <4> QED BY <4>1, <2>2, FiledMoves DEF Before
    <3>3. CASE NegotiateAnswered(r)
      <4>1. /\ outcomes' = outcomes /\ files' = files /\ pc[r] = "negotiate"
            /\ \E l \in {"failed", "game", "await_proposal"} : pc' = [pc EXCEPT ![r] = l]
        BY <3>3 DEF NegotiateAnswered, Idle, StepZero, Goto
      <4> QED BY <4>1, <2>2, FiledMoves DEF Before
    <3>4. CASE SeeProposal(r)
      <4>1. /\ outcomes' = outcomes /\ files' = files /\ pc[r] = "await_proposal"
            /\ \E l \in {"failed", "game", "negotiate"} : pc' = [pc EXCEPT ![r] = l]
        BY <3>4 DEF SeeProposal, StepZero, Goto, Call
      <4> QED BY <4>1, <2>2, FiledMoves DEF Before
    <3>5. CASE PlayGame(r)
      <4>1. PICK o \in Outcomes : outcomes' = [outcomes EXCEPT ![r] = Append(@, o)]
        BY <3>5 DEF PlayGame
      <4>2. pc[r] = "game" /\ pc' = [pc EXCEPT ![r] = "subgame_result"] /\ files' = files
        BY <3>5 DEF PlayGame, Call
      <4>3. /\ Len(outcomes'[r]) = Len(outcomes[r]) + 1 /\ Len(outcomes[r]) \in Nat
            /\ pc'[r] = "subgame_result" /\ 0 \notin files[r]
        BY <4>1, <4>2, <2>2 DEF TypeOK, FiledAt
      <4>4. Len(outcomes'[r]) - 1 = Len(outcomes[r])
        BY <4>3
      <4>5. 1 .. (Len(outcomes'[r]) - 1) \subseteq files'[r]
        BY <4>2, <4>4, <2>2 DEF FiledAt
      <4> QED BY <4>2, <4>3, <4>5 DEF FiledAt, Before, Subgame, Closing
    <3>6. CASE SubgameAnswered(r)
      <4>1. /\ outcomes' = outcomes /\ files' = files /\ pc[r] = "subgame_result"
            /\ \E l \in {"failed", "await_subgame"} : pc' = [pc EXCEPT ![r] = l]
        BY <3>6 DEF SubgameAnswered, Idle, Goto
      <4> QED BY <4>1, <2>2, FiledMoves DEF Subgame
    <3>7. CASE SeeSubgame(r)
      <4>1. pc[r] = "await_subgame" /\ outcomes' = outcomes
        BY <3>7 DEF SeeSubgame
      <4>2. CASE Goto(r, "failed") /\ files' = files
        BY <4>1, <4>2, <2>2, FiledMoves DEF Goto
      <4>3. CASE files' = [files EXCEPT ![r] = @ \cup {Last(r)}]
        <5>1. /\ Len(outcomes[r]) > 0 /\ Len(outcomes[r]) <= Games /\ Len(outcomes[r]) \in Nat
              /\ 1 .. (Len(outcomes[r]) - 1) \subseteq files[r] /\ 0 \notin files[r]
          BY <4>1, <2>2 DEF FiledAt, Subgame, TypeOK
        <5>2. files'[r] = files[r] \cup {Len(outcomes[r])}
          BY <4>3 DEF TypeOK, Last
        <5>3. 1 .. Len(outcomes[r]) \subseteq files'[r] /\ 0 \notin files'[r]
          BY <5>1, <5>2
        <5>4. \/ Len(outcomes[r]) < Games /\ pc'[r] \in {"game", "failed"}
              \/ Len(outcomes[r]) = Games /\ pc'[r] \in {"series_result", "failed"}
          BY <3>7, <5>1 DEF SeeSubgame, Goto, Call, TypeOK, Last
        <5> QED BY <4>1, <5>3, <5>4 DEF FiledAt, Before, Subgame, Closing
      <4> QED BY <3>7, <4>2, <4>3 DEF SeeSubgame
    <3>8. CASE SeriesAnswered(r)
      <4>1. /\ outcomes' = outcomes /\ files' = files /\ pc[r] = "series_result"
            /\ \E l \in {"failed", "await_series"} : pc' = [pc EXCEPT ![r] = l]
        BY <3>8 DEF SeriesAnswered, Idle, Goto
      <4> QED BY <4>1, <2>2, FiledMoves DEF Closing
    <3>9. CASE SeeSeries(r)
      <4>1. /\ pc[r] = "await_series" /\ uid' = uid /\ outcomes' = outcomes
            /\ proposals' = proposals /\ proposals[r][0] # None
        BY <3>9 DEF SeeSeries, service
      <4>2. CASE Goto(r, "failed") /\ files' = files
        BY <4>1, <4>2, <2>2, FiledMoves DEF Goto
      <4>3. CASE /\ proposals[r][0] = SeriesDigest(r) /\ Goto(r, "grace")
                 /\ files' = [files EXCEPT ![r] = @ \cup {0}]
        <5>1. pc'[r] = "grace" /\ files[r] \subseteq files'[r]
          BY <4>3 DEF Goto, TypeOK
        <5>2. SeriesDigest(r)' = SeriesDigest(r)
          BY <4>1 DEF SeriesDigest
        <5> QED BY <4>1, <4>3, <5>1, <5>2, <2>2 DEF FiledAt, Before, Subgame, Closing
      <4> QED BY <3>9, <4>2, <4>3 DEF SeeSeries
    <3>10. CASE Exit(r)
      BY <3>10, <2>2 DEF Exit, Idle, Goto, service, TypeOK, FiledAt, Before, Subgame, Closing, SeriesDigest
    <3>11. CASE Failure(r)
      <4>1. /\ outcomes' = outcomes /\ files' = files /\ pc[r] \notin {"grace", "exited"}
            /\ pc' = [pc EXCEPT ![r] = "failed"]
        BY <3>11 DEF Failure, CallExhausted, WaitTimeout, GameFails, Idle, Goto, Calls, Waits
      <4> QED BY <4>1, <2>2, FiledMoves
    <3> QED
      BY <1>1, <3>1, <3>2, <3>3, <3>4, <3>5, <3>6, <3>7, <3>8, <3>9, <3>10, <3>11 DEF Progress
  <2> QED BY <2>1, <2>3 DEF Filed
<1>2. ASSUME NEW c \in sent, Handle(c) PROVE Filed'
  <2> SUFFICES ASSUME NEW q \in Roles PROVE FiledAt(q)'
    BY DEF Filed
  <2>1. FiledAt(q) /\ c.from \in Roles /\ c.game \in 0 .. Games /\ Other(c.from) \in Roles
    BY OtherRole DEF Filed, TypeOK, Requests
  <2>2. 0 \in files[q] => proposals[q][0] # None
    BY <2>1 DEF FiledAt
  <2>3. proposals'[q][0] = proposals[q][0] \/ 0 \notin files[q]
    <3>1. CASE proposals' = proposals
      BY <3>1
    <3>2. CASE /\ proposals' = [proposals EXCEPT ![Other(c.from)][c.game] = c.value]
               /\ proposals[Other(c.from)][c.game] \in {None, c.value}
      BY <3>2, <2>1, <2>2 DEF TypeOK
    <3>3. c.tool \in {"subgame_result", "series_result"} /\ Accepts(c) =>
            proposals[Other(c.from)][c.game] \in {None, c.value}
      BY DEF Accepts
    <3> QED BY <1>2, <3>1, <3>2, <3>3 DEF Handle
  <2> QED BY <1>2, <2>1, <2>3, FiledKept DEF Handle
<1>3. CASE UNCHANGED vars
  BY <1>3, FiledKept DEF vars, Filed
<1> QED BY <1>1, <1>2, <1>3 DEF Next
---------------------------------------------------------------------------
(* The invariant and what it implies.                                       *)

LEMMA Initial == Init => IInv
<1> SUFFICES ASSUME Init PROVE IInv
  OBVIOUS
<1> USE SeriesAssumption DEF Init
<1>1. TypeOK
  <2>1. <<>> \in Seq(Outcomes) /\ Len(<<>>) = 0
    OBVIOUS
  <2> QED BY <2>1 DEF TypeOK, Calls, Waits, Ends, Rest
<1>2. Anchored
  BY OtherRole DEF Anchored
<1>3. Filed
  BY DEF Filed, FiledAt, Before, Subgame, Closing
<1>4. Truthful /\ Received
  BY DEF Truthful, Received
<1> QED BY <1>1, <1>2, <1>3, <1>4 DEF IInv

LEMMA Inductive == IInv /\ [Next]_vars => IInv'
BY StepTyped, StepAnchored, StepFiled, StepTruthful, StepReceived DEF IInv

\* The opponent's series result, as a server holds it, is the opponent's.
LEMMA SeriesReceived ==
  ASSUME IInv, NEW r \in Roles, proposals[r][0] # None
  PROVE  /\ proposals[r][0] = SeriesDigest(Other(r))
         /\ 1 .. Games \subseteq files[Other(r)]
<1>1. 0 \in 0 .. Games
  BY SeriesAssumption
<1>2. PICK c \in sent : /\ c.from = Other(r) /\ c.game = 0 /\ c.value = proposals[r][0]
                        /\ c.tool \in {"subgame_result", "series_result"}
  BY <1>1 DEF IInv, Received
<1>3. StillTrue(c)
  BY DEF IInv, Truthful
<1>4. c.tool = "series_result"
  BY <1>2, <1>3 DEF StillTrue
<1> QED BY <1>2, <1>3, <1>4 DEF StillTrue

LEMMA Confirmed == IInv => ResultConfirmed
<1> SUFFICES ASSUME IInv, NEW r \in Roles, 0 \in files[r]
             PROVE  /\ 1 .. Games \subseteq files[r]
                    /\ 1 .. Games \subseteq files[Other(r)]
                    /\ SeriesDigest(r) = SeriesDigest(Other(r))
  BY DEF ResultConfirmed
<1>1. FiledAt(r)
  BY DEF IInv, Filed
<1>2. /\ 1 .. Games \subseteq files[r] /\ proposals[r][0] # None
      /\ proposals[r][0] = SeriesDigest(r)
  BY <1>1 DEF FiledAt, Closing
<1> QED BY <1>2, SeriesReceived

LEMMA Repeats ==
  (Counted => Games = 6) /\ IInv => RepeatsAccepted
<1> SUFFICES ASSUME Counted => Games = 6, IInv, config[Thief] = config[Police],
                    NEW c \in sent
             PROVE  Accepts(c)
  BY DEF RepeatsAccepted
<1>1. c \in Requests /\ StillTrue(c) /\ c.from \in Roles /\ c.game \in 0 .. Games
  BY DEF IInv, TypeOK, Requests, Truthful
<1>2. Validate(c)
  BY <1>1 DEF Validate, Roles, Other, Thief, Police
<1>3. ASSUME c.tool \in {"subgame_result", "series_result"},
             proposals[Other(c.from)][c.game] # None
      PROVE  proposals[Other(c.from)][c.game] = c.value
  <2>1. PICK d \in sent : /\ d.from = c.from /\ d.game = c.game
                          /\ d.value = proposals[Other(c.from)][c.game]
                          /\ d.tool \in {"subgame_result", "series_result"}
    BY <1>1, <1>3, OtherRole DEF IInv, Received
  <2>2. StillTrue(d)
    BY DEF IInv, Truthful
  <2>3. c.tool = d.tool
    BY <1>1, <1>3, <2>1, <2>2 DEF StillTrue
  <2>4. c.value = d.value
    BY <1>1, <1>3, <2>1, <2>2, <2>3 DEF StillTrue
  <2> QED BY <2>1, <2>4
<1>4. c.tool \in {"health", "negotiate", "subgame_result", "series_result"}
  BY <1>1 DEF Requests, Calls
<1> QED BY <1>2, <1>3, <1>4, SeriesAssumption DEF Accepts

LEMMA Common == IInv => OneSeries
BY OtherRole, SeriesAssumption DEF IInv, Anchored, OneSeries, Playing, Roles

(* The state keeps its types: what a peer audits, sends and files stays       *)
(* within the subgames of the series (series.py:23-64).                      *)
THEOREM TypeCorrect == Spec => []TypeOK
<1>1. IInv => TypeOK
  BY DEF IInv
<1> QED BY <1>1, Initial, Inductive, PTL DEF Spec

(* Two peers that play, play one series under one configuration, whatever    *)
(* the network repeats, delays or loses (negotiation.py:34-63).              *)
THEOREM OneSeriesHolds == Spec => []OneSeries
BY Common, Initial, Inductive, PTL DEF Spec

(* A written result stands on both sides: every subgame is filed by both and *)
(* both computed the same result (result_exchange.py:50-60).                 *)
THEOREM ResultConfirmedHolds == Spec => []ResultConfirmed
BY Confirmed, Initial, Inductive, PTL DEF Spec

(* No late or repeated copy of an honest request is refused, in a series of  *)
(* the length a counted one must have (service.py:56-63, 113-124).            *)
THEOREM RepeatsAcceptedHolds ==
  ASSUME Counted => Games = 6
  PROVE  Spec => []RepeatsAccepted
<1>1. IInv => RepeatsAccepted
  BY Repeats
<1> QED BY <1>1, Initial, Inductive, PTL DEF Spec
===========================================================================
