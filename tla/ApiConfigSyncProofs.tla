------------------------- MODULE ApiConfigSyncProofs -------------------------
(***************************************************************************)
(* Theorems about the two halves of examples/apiconfigsync, which its main *)
(* joins: the operator (ApiSyncOperator) and the admission webhook server  *)
(* (AdmissionServer), for every set of bodies the endpoint may serve, of   *)
(* connections and of uids, and every number of edits and requests.        *)
(***************************************************************************)
EXTENDS ApiSyncOperator, AdmissionServer, TLAPS

-----------------------------------------------------------------------------
(***************************************************************************)
(* The webhook server.                                                     *)
(***************************************************************************)
\* A request has been received and not been answered.
InHand(c) == conn[c] \in {"asked", "validating"}

\* The inductive invariant: only a body that parses is with the validator, which
\* has not spoken before the answer; no connection is open before the port is
\* bound, and without TLS none after `run` has returned.
ServerInv ==
  /\ ServerTypeOK
  /\ DecidesAsAsked
  /\ \A c \in Connection :
       /\ conn[c] = "validating" => asked[c] # NotJson /\ Parses(asked[c])
       /\ InHand(c) => verdict[c] = "none"
       /\ main \in {"starting", "binding", "failed"} => conn[c] \notin Open
       /\ ~tls /\ main = "returned" => conn[c] \notin Open

\* Before the first step nobody is connected.
LEMMA ServerInitInv == ServerInit => ServerInv
  <1> SUFFICES ASSUME ServerInit PROVE ServerInv
    OBVIOUS
  <1> USE DEF ServerInit
  <1>1. ServerTypeOK
    BY ServerAssumption DEF ServerTypeOK, Open, Verdicts
  <1>2. DecidesAsAsked
    BY DEF DecidesAsAsked
  <1>3. \A c \in Connection : conn[c] \notin Open /\ conn[c] # "validating" /\ ~InHand(c)
    BY DEF Open, InHand
  <1> QED
    BY <1>1, <1>2, <1>3 DEF ServerInv

\* The answers of the webhook are answers.
LEMMA AnswerTypes ==
  /\ \A http \in {400, 500} : NoDecision(http) \in Answer
  /\ \A uid \in Uid \cup {NoUid} : BuildDenyResponse(uid) \in Answer
  /\ \A uid \in Uid \cup {NoUid}, v \in Verdicts : BuildResponse(uid, v) \in Answer
  BY DEF NoDecision, BuildDenyResponse, BuildResponse, Answer

\* A review has a uid, be it the empty one.
LEMMA ReviewUid == ASSUME NEW r \in Review PROVE r.uid \in Uid \cup {NoUid}
  BY DEF Review

\* Start-up, the signal and the end leave every exchange as it is, and only close
\* connections.
LEMMA ServerStepInv ==
  ASSUME ServerInv,
         \/ Launch \/ BindFails \/ Bind \/ InstallHandler \/ Signal \/ HandleSignal
         \/ AcceptFails \/ StopServing \/ Drained \/ Exit
  PROVE  ServerInv'
  <1> USE DEF ServerInv, ServerTypeOK, DecidesAsAsked, InHand, exchange, Alive
  <1>1. CASE Launch
    <2>1. handler' \in {"none", "spawned"}
      BY <1>1 DEF Launch
    <2> QED
      BY <1>1, <2>1 DEF Launch
  <1>2. CASE BindFails
    BY <1>2 DEF BindFails
  <1>3. CASE Bind
    BY <1>3 DEF Bind
  <1>4. CASE InstallHandler \/ HandleSignal
    BY <1>4 DEF InstallHandler, HandleSignal
  <1>5. CASE Signal
    <2>1. CASE handler = "installed"
      BY <1>5, <2>1 DEF Signal
    <2>2. CASE handler # "installed"
      BY <1>5, <2>2 DEF Signal, CloseAll, Open
    <2> QED
      BY <2>1, <2>2
  <1>6. CASE AcceptFails
    BY <1>6 DEF AcceptFails, CloseAll, Open
  <1>7. CASE StopServing
    BY <1>7 DEF StopServing, CloseAll, Open
  <1>8. CASE Drained
    BY <1>8 DEF Drained
  <1>9. CASE Exit
    BY <1>9 DEF Exit, CloseAll, Open
  <1> QED
    BY <1>1, <1>2, <1>3, <1>4, <1>5, <1>6, <1>7, <1>8, <1>9

\* So does what a connection goes through outside of an exchange.
LEMMA ConnectionInv ==
  ASSUME ServerInv, NEW c \in Connection,
         Accept(c) \/ Handshake(c) \/ CloseIdle(c) \/ Connect(c) \/ Leave(c) \/ Parse(c)
  PROVE  ServerInv'
  <1> USE DEF ServerInv, ServerTypeOK, DecidesAsAsked, InHand, Open, exchange, Alive
  <1>1. CASE Accept(c)
    BY <1>1 DEF Accept
  <1>2. CASE Handshake(c)
    BY <1>2 DEF Handshake
  <1>3. CASE CloseIdle(c)
    BY <1>3 DEF CloseIdle
  <1>4. CASE Connect(c)
    BY <1>4 DEF Connect
  <1>5. CASE Leave(c)
    BY <1>5 DEF Leave
  <1>6. CASE Parse(c)
    BY <1>6 DEF Parse
  <1> QED
    BY <1>1, <1>2, <1>3, <1>4, <1>5, <1>6

\* An answer that fits its request, and is given while the request is in hand,
\* keeps the invariant.
LEMMA RespondInv ==
  ASSUME ServerInv, NEW c \in Connection, NEW a \in Answer, NEW v \in Verdicts \cup {"none"},
         Respond(c, a), verdict' = [verdict EXCEPT ![c] = v], InHand(c),
         IF asked[c] = NotJson \/ v = "error"
         THEN a.http # 200
         ELSE /\ a.http = 200
              /\ a.uid = asked[c].uid
              /\ a.allowed <=> Parses(asked[c]) /\ v \in {"allow", "warn"}
  PROVE  ServerInv'
  <1> USE DEF ServerInv, ServerTypeOK, InHand, Open, Respond
  <1>1. ServerTypeOK'
    OBVIOUS
  <1>2. DecidesAsAsked'
    BY DEF DecidesAsAsked
  <1>3. \A d \in Connection :
          /\ conn'[d] = "validating" => asked'[d] # NotJson /\ Parses(asked'[d])
          /\ conn'[d] \in {"asked", "validating"} => verdict'[d] = "none"
          /\ main' \in {"starting", "binding", "failed"} => conn'[d] \notin Open
          /\ ~tls' /\ main' = "returned" => conn'[d] \notin Open
    OBVIOUS
  <1> QED
    BY <1>1, <1>2, <1>3

\* Every exchange keeps the invariant: a request replaces the one before it with
\* its verdict and its answer, and each answer fits.
LEMMA ExchangeInv ==
  ASSUME ServerInv, NEW c \in Connection,
         \/ \E body \in Review \cup {NotJson} : Request(c, body)
         \/ Refuse(c) \/ DenyUnparsed(c)
         \/ \E v \in Verdicts : Validate(c, v)
  PROVE  ServerInv'
  <1>1. ASSUME NEW body \in Review \cup {NotJson}, Request(c, body) PROVE ServerInv'
    BY <1>1, NothingAssumption
    DEF Request, ServerInv, ServerTypeOK, DecidesAsAsked, InHand, Open, Alive
  <1>2. CASE Refuse(c)
    <2>1. /\ Respond(c, NoDecision(400)) /\ InHand(c) /\ asked[c] = NotJson
          /\ verdict' = [verdict EXCEPT ![c] = "none"]
      BY <1>2 DEF Refuse, ServerInv, ServerTypeOK, InHand
    <2>2. NoDecision(400) \in Answer /\ NoDecision(400).http # 200
      BY AnswerTypes DEF NoDecision
    <2> QED
      BY <2>1, <2>2, RespondInv
  <1>3. CASE DenyUnparsed(c)
    <2>1. /\ Respond(c, BuildDenyResponse(asked[c].uid)) /\ InHand(c)
          /\ asked[c] # NotJson /\ ~Parses(asked[c])
          /\ verdict' = [verdict EXCEPT ![c] = "none"]
      BY <1>3 DEF DenyUnparsed, ServerInv, ServerTypeOK, InHand
    <2>2. asked[c] \in Review
      BY <1>3 DEF DenyUnparsed, ServerInv, ServerTypeOK
    <2>3. BuildDenyResponse(asked[c].uid) \in Answer
      BY <2>2, ReviewUid, AnswerTypes
    <2>4. /\ BuildDenyResponse(asked[c].uid).http = 200
          /\ BuildDenyResponse(asked[c].uid).uid = asked[c].uid
          /\ BuildDenyResponse(asked[c].uid).allowed = FALSE
      BY DEF BuildDenyResponse
    <2> QED
      BY <2>1, <2>3, <2>4, RespondInv
  <1>4. ASSUME NEW v \in Verdicts, Validate(c, v) PROVE ServerInv'
    <2>1. InHand(c) /\ asked[c] # NotJson /\ Parses(asked[c]) /\ asked[c] \in Review
      BY <1>4 DEF Validate, ServerInv, ServerTypeOK, InHand
    <2>2. verdict' = [verdict EXCEPT ![c] = v]
      BY <1>4 DEF Validate
    <2>3. CASE v = "error"
      <3>1. Respond(c, NoDecision(500))
        BY <1>4, <2>3 DEF Validate
      <3>2. NoDecision(500) \in Answer /\ NoDecision(500).http # 200
        BY AnswerTypes DEF NoDecision
      <3> QED
        BY <2>1, <2>2, <2>3, <3>1, <3>2, RespondInv
    <2>4. CASE v # "error"
      <3> DEFINE a == BuildResponse(asked[c].uid, v)
      <3>1. Respond(c, a)
        BY <1>4, <2>4 DEF Validate
      <3>2. a \in Answer
        BY <2>1, ReviewUid, AnswerTypes
      <3>3. a.http = 200 /\ a.uid = asked[c].uid /\ a.allowed = (v # "deny")
        BY DEF BuildResponse
      <3>4. (v # "deny") <=> v \in {"allow", "warn"}
        BY <2>4 DEF Verdicts
      <3> HIDE DEF a
      <3> QED
        BY <2>1, <2>2, <2>4, <3>1, <3>2, <3>3, <3>4, RespondInv
    <2> QED
      BY <2>3, <2>4
  <1> QED
    BY <1>1, <1>2, <1>3, <1>4

\* Every step keeps it.
LEMMA ServerInvStep == ServerInv /\ [ServerNext]_serverVars => ServerInv'
  <1> SUFFICES ASSUME ServerInv, [ServerNext]_serverVars PROVE ServerInv'
    OBVIOUS
  <1>1. CASE UNCHANGED serverVars
    BY <1>1 DEF serverVars, exchange, ServerInv, ServerTypeOK, DecidesAsAsked, InHand
  <1>2. ASSUME NEW c \in Connection, Serve(c) \/ CloseIdle(c) \/ Client(c) PROVE ServerInv'
    BY <1>2, ConnectionInv, ExchangeInv DEF Serve, Client
  <1> QED
    BY <1>1, <1>2, ServerStepInv DEF ServerNext

\* The server's invariant holds in every behaviour.
LEMMA ServerInvHolds == ServerSpec => []ServerInv
  BY ServerInitInv, ServerInvStep, PTL DEF ServerSpec

\* For any connections and uids the variables keep their types; a request in hand
\* has no answer yet.
THEOREM ServerTyped == ServerSpec => []ServerTypeOK
  BY ServerInvHolds, PTL DEF ServerInv

\* On any number of connections, each with any sequence of requests, well-formed or
\* not, every answer is about the last request of its connection and allows nothing
\* the validator has not allowed.
THEOREM DecisionsFit == ServerSpec => []DecidesAsAsked
  BY ServerInvHolds, PTL DEF ServerInv

\* Without TLS no end of the server drops a request in hand: axum has drained before
\* `run` returns, and a signal without a handler kills the process.
THEOREM RequestsAreCompleted == ServerSpec => RequestsComplete
  <1> DEFINE Completed == \A c \in Connection :
               (~tls /\ conn[c] \in {"asked", "validating"} /\ conn'[c] = "closed")
                 => (Leave(c) \/ main' = "killed")
  <1>1. ServerInv /\ [ServerNext]_serverVars => [Completed]_serverVars
    <2> SUFFICES ASSUME ServerInv, ServerNext, NEW c \in Connection,
                        ~tls, conn[c] \in {"asked", "validating"}, conn'[c] = "closed"
                 PROVE  Leave(c) \/ main' = "killed"
      OBVIOUS
    <2> USE DEF ServerInv, ServerTypeOK, exchange
    <2>1. CASE \/ Launch \/ BindFails \/ Bind \/ InstallHandler \/ HandleSignal \/ Drained
               \/ AcceptFails
      BY <2>1 DEF Launch, BindFails, Bind, InstallHandler, HandleSignal, Drained, AcceptFails
    <2>2. CASE Signal
      BY <2>2 DEF Signal
    <2>3. CASE StopServing
      BY <2>3 DEF StopServing, CloseAll
    <2>4. CASE Exit
      BY <2>4 DEF Exit, Open
    <2>5. ASSUME NEW d \in Connection, Serve(d) \/ CloseIdle(d) \/ Connect(d)
                   \/ \E body \in Review \cup {NotJson} : Request(d, body)
          PROVE  FALSE
      BY <2>5 DEF Serve, Accept, Handshake, Refuse, DenyUnparsed, Parse, Validate, Respond,
                  CloseIdle, Connect, Request
    <2>6. ASSUME NEW d \in Connection, Leave(d) PROVE Leave(c)
      <3>1. d = c
        BY <2>6 DEF Leave
      <3> QED
        BY <2>6, <3>1
    <2> QED
      BY <2>1, <2>2, <2>3, <2>4, <2>5, <2>6 DEF ServerNext, Client
  <1> QED
    BY <1>1, ServerInvHolds, PTL DEF ServerSpec, RequestsComplete
-----------------------------------------------------------------------------
(***************************************************************************)
(* The operator.                                                           *)
(***************************************************************************)
Edited == {Drifted, Absent}
Settling == {"label", "status"}     \* the ConfigMap of this pass is written
Cleaning == {"cleanup", "unfinalize"}

\* The inductive invariant of StatusTruthful.  Until a successor comes too early,
\* generations grow from the status by the CR the pass was given and the one in
\* the store to the one in the server; so no pass writes a ConfigMap of an older
\* generation than the status speaks of, nor a status ahead of the ConfigMap.
StatusInv ==
  /\ ~replaced =>
       /\ cr.alive => cr.observed <= cr.generation
       /\ cr.alive /\ cache.alive =>
            cr.observed <= cache.generation /\ cache.generation <= cr.generation
       /\ cr.alive /\ pc # "idle" =>
            cr.observed <= given.generation /\ given.generation <= cr.generation
       /\ cache.alive /\ pc # "idle" => given.generation <= cache.generation
       /\ cr.alive /\ configmap.body \notin Edited => configmap.from >= cr.observed
  /\ pc \in Settling /\ configmap.body \notin Edited => configmap.from >= given.generation

\* That of DriftIsNoticed: what happens to the ConfigMap after this pass has
\* written it is on its way or has made the CR due again, and a pass that cleans
\* up ends for good only when no live CR has been seen since.
DriftInv ==
  /\ DriftIsNoticed
  /\ home /\ pc \in Settling /\ configmap.body \in Edited => told \/ due = "now"
  /\ pc \in Cleaning => ~cache.alive \/ cache.terminating \/ due = "now"

OperatorInv == TypeOK /\ StatusInv /\ DriftInv

\* The values that stand for nothing are of their types, and Absent is not served.
LEMMA Values ==
  /\ NoCr \in CrRecord /\ NewCr \in CrRecord /\ ~NoCr.alive /\ NewCr.alive
  /\ NoCr.observed = 0 /\ NoCr.generation = 0
  /\ NewCr.observed = 0 /\ NewCr.generation = 1 /\ ~NewCr.terminating
  /\ NoConfigMap \in ConfigMapRecord /\ NoConfigMap.body \in Edited
  /\ Served \cap Edited = {}
  BY ApiSyncAssumption
  DEF NoCr, NewCr, CrRecord, NoConfigMap, ConfigMapRecord, Served, Edited

\* A new process, beside a CR that is new or in sync, starts with it.
LEMMA OperatorInit == Init => OperatorInv
  <1> SUFFICES ASSUME Init PROVE OperatorInv
    OBVIOUS
  <1>1. TypeOK
    <2>1. cr \in CrRecord /\ configmap \in ConfigMapRecord
      <3>1. CASE cr \in {NoCr, NewCr} /\ configmap = NoConfigMap
        BY <3>1, Values
      <3>2. CASE /\ cr = [NewCr EXCEPT !.own = TRUE, !.observed = 1]
                 /\ configmap = [from |-> 1, body |-> endpoint]
        BY <3>2 DEF Init, NewCr, NoCr, CrRecord, ConfigMapRecord
      <3> QED
        BY <3>1, <3>2 DEF Init
    <2>2. told \in BOOLEAN
      BY DEF Init
    <2>3. MaxEdits \in Nat
      BY ApiSyncAssumption
    <2>4. endpoint \in Served /\ cache \in CrRecord /\ given \in CrRecord /\ ~given.alive
      BY Values DEF Init
    <2>5. edits \in 0 .. MaxEdits
      BY <2>3 DEF Init
    <2> QED
      BY <2>1, <2>2, <2>4, <2>5 DEF Init, TypeOK, Delayed
  <1>2. StatusInv
    <2>1. cr.observed <= cr.generation
      <3>1. CASE cr \in {NoCr, NewCr}
        BY <3>1, Values
      <3>2. CASE cr = [NewCr EXCEPT !.own = TRUE, !.observed = 1]
        BY <3>2 DEF NewCr, NoCr
      <3> QED
        BY <3>1, <3>2 DEF Init
    <2>2. configmap.body \notin Edited => configmap.from >= cr.observed
      <3>1. CASE configmap = NoConfigMap
        BY <3>1, Values
      <3>2. CASE /\ cr = [NewCr EXCEPT !.own = TRUE, !.observed = 1]
                 /\ configmap = [from |-> 1, body |-> endpoint]
        BY <3>2 DEF NewCr, NoCr
      <3> QED
        BY <3>1, <3>2 DEF Init
    <2> QED
      BY <2>1, <2>2, Values DEF Init, StatusInv, Settling
  <1>3. DriftInv
    BY Values DEF Init, DriftInv, DriftIsNoticed, Settling, Cleaning
  <1> QED
    BY <1>1, <1>2, <1>3 DEF OperatorInv
-----------------------------------------------------------------------------
\* How a call of a pass comes back.
Ends == {"on", "retry", "late"}

\* A pass that ends forgets the CR and keeps a trigger that came meanwhile.
LEMMA PassEnded ==
  ASSUME NEW when, EndPass(when)
  PROVE  /\ pc' = "idle" /\ given' = NoCr
         /\ due = "now" => due' = "now"
         /\ due # "now" => due' = when
  BY DEF EndPass

\* After a call the pass goes on as it was, or has ended.
LEMMA PassContinued ==
  ASSUME NEW end \in Ends \cup Delayed, NEW next, Continue(end, next)
  PROVE  \/ pc' = next /\ given' = given /\ due' = due
         \/ EndPass(end) /\ end \in Delayed
  BY DEF Continue

\* What the pass does, in good order or with an answer that is lost.
LEMMA PassCalls ==
  ASSUME Step \/ LoseAnswer
  PROVE  \/ Poll \/ Label
         \/ \E end \in Ends : \/ AddFinalizer(end) \/ Ensure(end) \/ PatchStatus(end)
                              \/ DeleteConfigMap(end) \/ RemoveFinalizers(end)
  BY DEF Step, LoseAnswer, Ends

\* The calls of a pass keep the types.
LEMMA PassTypes ==
  ASSUME TypeOK, Step \/ LoseAnswer
  PROVE  TypeOK'
  <1> USE Values DEF TypeOK, others, client, pass, apiserver
  <1>0. Delayed = {"retry", "recheck", "late"} /\ "on" \notin Delayed
    BY DEF Delayed
  <1>1. ASSUME NEW end \in Ends, AddFinalizer(end) PROVE TypeOK'
    <2>1. pc = "finalizer" /\ fetched = Absent /\ fetched' = Absent /\ given.alive
      BY <1>1 DEF AddFinalizer
    <2>2. cr' \in CrRecord
      BY <1>1 DEF AddFinalizer, CrRecord
    <2>3. \/ pc' = "poll" /\ given' = given /\ due' = due
          \/ pc' = "idle" /\ given' = NoCr /\ due' \in {"now"} \cup Delayed
      BY <1>0, <1>1, PassContinued, PassEnded DEF AddFinalizer, Ends
    <2>4. UNCHANGED <<configmap, cache, told, client, others>>
      BY <1>1 DEF AddFinalizer
    <2> QED
      BY <2>1, <2>2, <2>3, <2>4
  <1>2. CASE Poll
    <2>1. pc' = "ensure" /\ given' = given /\ due' = due /\ pc # "idle"
      BY <1>0, <1>2 DEF Poll, Continue
    <2>2. fetched' \in Served /\ fetched' # Absent
      BY <1>2, ApiSyncAssumption DEF Poll, Served
    <2>3. UNCHANGED <<apiserver, cache, told, client, others>>
      BY <1>2 DEF Poll
    <2> QED
      BY <2>1, <2>2, <2>3
  <1>3. ASSUME NEW end \in Ends, Ensure(end) PROVE TypeOK'
    <2>1. pc = "ensure" /\ fetched \in Served /\ fetched' = Absent
      BY <1>3 DEF Ensure
    <2>2. configmap' \in ConfigMapRecord /\ told' \in BOOLEAN
      BY <1>3, <2>1 DEF Ensure, PutConfigMap, ConfigMapRecord, CrRecord
    <2>3. \/ pc' = "label" /\ given' = given /\ due' = due
          \/ pc' = "idle" /\ given' = NoCr /\ due' \in {"now"} \cup Delayed
      BY <1>3, PassContinued, PassEnded DEF Ensure
    <2>4. UNCHANGED <<cr, cache, client, others>>
      BY <1>3 DEF Ensure
    <2> QED
      BY <2>1, <2>2, <2>3, <2>4
  <1>4. CASE Label
    <2>1. \/ pc' = "status" /\ given' = given /\ due' = due
          \/ pc' = "idle" /\ given' = NoCr /\ due' \in {"now"} \cup Delayed
      BY <1>0, <1>4, PassEnded DEF Label, Continue
    <2> QED
      BY <1>4, <2>1 DEF Label
  <1>5. ASSUME NEW end \in Ends, PatchStatus(end) PROVE TypeOK'
    <2>1. cr' \in CrRecord
      BY <1>5 DEF PatchStatus, CrRecord
    <2>2. pc' = "idle" /\ given' = NoCr /\ due' \in {"now"} \cup Delayed
      BY <1>0, <1>5, PassEnded DEF PatchStatus
    <2>3. pc = "status" /\ UNCHANGED <<configmap, cache, told, fetched, client, others>>
      BY <1>5 DEF PatchStatus
    <2> QED
      BY <2>1, <2>2, <2>3
  <1>6. ASSUME NEW end \in Ends, DeleteConfigMap(end) PROVE TypeOK'
    <2>1. configmap' \in ConfigMapRecord /\ told' \in BOOLEAN
      BY <1>6 DEF DeleteConfigMap, PutConfigMap
    <2>2. \/ pc' = "unfinalize" /\ given' = given /\ due' = due
          \/ pc' = "idle" /\ given' = NoCr /\ due' \in {"now"} \cup Delayed
      BY <1>6, PassContinued, PassEnded DEF DeleteConfigMap
    <2>3. pc = "cleanup" /\ UNCHANGED <<cr, cache, fetched, client, others>>
      BY <1>6 DEF DeleteConfigMap
    <2> QED
      BY <2>1, <2>2, <2>3
  <1>7. ASSUME NEW end \in Ends, RemoveFinalizers(end) PROVE TypeOK'
    <2>1. cr' \in CrRecord
      BY <1>7 DEF RemoveFinalizers, CrRecord
    <2>2. pc' = "idle" /\ given' = NoCr /\ due' \in {"no", "now"} \cup Delayed
      BY <1>0, <1>7, PassEnded DEF RemoveFinalizers
    <2>3. pc = "unfinalize" /\ UNCHANGED <<configmap, cache, told, fetched, client, others>>
      BY <1>7 DEF RemoveFinalizers
    <2> QED
      BY <2>1, <2>2, <2>3
  <1> QED
    BY <1>1, <1>2, <1>3, <1>4, <1>5, <1>6, <1>7, PassCalls

\* So do the steps of the queue, of the watches and of the waiting client, and the
\* ends of a pass.
LEMMA OwnTypes ==
  ASSUME TypeOK,
         \/ Begin \/ Skip \/ TimerFires \/ Observe \/ MapToOwner \/ GiveUp \/ Restart
         \/ Ask \/ AskFails \/ Wake \/ UNCHANGED vars
  PROVE  TypeOK'
  <1> USE Values DEF TypeOK, others, client, pass, apiserver, Delayed
  <1>1. CASE Begin
    BY <1>1 DEF Begin
  <1>2. CASE Skip
    BY <1>2 DEF Skip
  <1>3. CASE TimerFires
    BY <1>3 DEF TimerFires
  <1>4. CASE Observe
    BY <1>4 DEF Observe
  <1>5. CASE MapToOwner
    BY <1>5 DEF MapToOwner
  <1>6. CASE GiveUp
    <2>1. PICK when \in {"retry", "late"} : EndPass(when)
      BY <1>6 DEF GiveUp
    <2>2. pc' = "idle" /\ given' = NoCr /\ due' \in {"now", "retry", "late"}
      BY <2>1, PassEnded
    <2> QED
      BY <1>6, <2>2 DEF GiveUp
  <1>7. CASE Restart
    <2>1. told' \in BOOLEAN
      BY <1>7 DEF Restart
    <2> QED
      BY <1>7, <2>1 DEF Restart
  <1>8. CASE Ask
    BY <1>8 DEF Ask
  <1>9. CASE AskFails
    BY <1>9 DEF AskFails
  <1>10. CASE Wake
    BY <1>10 DEF Wake
  <1>11. CASE UNCHANGED vars
    BY <1>11 DEF vars
  <1> QED
    BY <1>1, <1>2, <1>3, <1>4, <1>5, <1>6, <1>7, <1>8, <1>9, <1>10, <1>11

\* A CR that is marked is a CR.
LEMMA Marked ==
  ASSUME NEW c \in CrRecord
  PROVE  [c EXCEPT !.terminating = TRUE, !.generation = c.generation + 1] \in CrRecord
  <1> DEFINE n == c.generation + 1
  <1>1. n \in Nat
    BY DEF CrRecord
  <1> HIDE DEF n
  <1>2. [c EXCEPT !.terminating = TRUE, !.generation = n] \in CrRecord
    BY <1>1 DEF CrRecord
  <1> QED
    BY <1>2 DEF n

\* What users and other clients do keeps the types too.
LEMMA EditTypes ==
  ASSUME TypeOK, Create \/ ChangeSpec \/ Delete \/ Drift \/ Publish
  PROVE  TypeOK'
  <1> USE Values DEF TypeOK, client, pass, apiserver
  <1>1. Edit
    BY DEF Create, ChangeSpec, Delete, Drift, Publish
  <1>2. edits' \in 0 .. MaxEdits
    BY <1>1, ApiSyncAssumption DEF Edit
  <1>3. UNCHANGED <<home, cache, due, pass, client>>
    BY <1>1 DEF Edit
  <1>4. CASE Create
    BY <1>2, <1>3, <1>4 DEF Create
  <1>5. CASE ChangeSpec
    BY <1>2, <1>3, <1>5 DEF ChangeSpec, CrRecord
  <1>6. CASE Delete
    <2>1. cr' \in CrRecord
      <3>1. [cr EXCEPT !.terminating = TRUE, !.generation = cr.generation + 1] \in CrRecord
        BY Marked
      <3> QED
        BY <1>6, <3>1 DEF Delete
    <2> QED
      BY <1>2, <1>3, <1>6, <2>1 DEF Delete
  <1>7. CASE Drift
    <2>1. configmap' \in ConfigMapRecord
      BY <1>7 DEF Drift, PutConfigMap, ConfigMapRecord
    <2>2. told' \in BOOLEAN
      BY <1>7 DEF Drift, PutConfigMap
    <2> QED
      BY <1>2, <1>3, <1>7, <2>1, <2>2 DEF Drift
  <1>8. CASE Publish
    BY <1>2, <1>3, <1>8 DEF Publish
  <1> QED
    BY <1>4, <1>5, <1>6, <1>7, <1>8

\* Every step keeps the types.
LEMMA TypeStep == TypeOK /\ [Next]_vars => TypeOK'
  BY PassTypes, OwnTypes, EditTypes DEF Next

-----------------------------------------------------------------------------
\* The calls of a pass leave the store of the operator and the history alone and
\* keep what the pass was given, or end it.
LEMMA PassKeeps ==
  ASSUME Step \/ LoseAnswer \/ GiveUp
  PROVE  /\ pc # "idle" /\ UNCHANGED <<cache, others>>
         /\ pc' # "idle" => given' = given
  <1>1. ASSUME NEW end \in Ends, \/ AddFinalizer(end) \/ Ensure(end) \/ PatchStatus(end)
                                 \/ DeleteConfigMap(end) \/ RemoveFinalizers(end)
        PROVE  /\ pc # "idle" /\ UNCHANGED <<cache, others>>
               /\ pc' # "idle" => given' = given
    BY <1>1
    DEF AddFinalizer, Ensure, PatchStatus, DeleteConfigMap, RemoveFinalizers, Continue, EndPass
  <1>2. CASE Poll \/ Label \/ GiveUp
    BY <1>2 DEF Poll, Label, GiveUp, Continue, EndPass
  <1> QED
    BY <1>1, <1>2, PassCalls

\* Every step of the operator keeps the invariant of its status: the status and the
\* ConfigMap it writes are of the CR it was given, which is no older than the status
\* and no newer than the CR in the store.
LEMMA StatusOfPass ==
  ASSUME TypeOK, StatusInv, Step \/ LoseAnswer \/ GiveUp
  PROVE  StatusInv'
  <1>1. /\ pc # "idle" /\ UNCHANGED <<cache, others>>
        /\ pc' # "idle" => given' = given
    BY PassKeeps
  <1>2. replaced' = replaced
    BY <1>1 DEF others
  <1>3. cr \in CrRecord /\ given \in CrRecord /\ configmap \in ConfigMapRecord
        /\ cache \in CrRecord
    BY DEF TypeOK
  <1> USE <1>1, <1>2, <1>3 DEF StatusInv
  <1>4. ASSUME NEW end \in Ends, AddFinalizer(end) PROVE StatusInv'
    <2>1. cr'.observed = cr.observed /\ cr'.generation = cr.generation /\ cr'.alive = cr.alive
      BY <1>4 DEF AddFinalizer, CrRecord
    <2>2. configmap' = configmap /\ pc' \notin Settling
      BY <1>4 DEF AddFinalizer, Continue, EndPass, Settling
    <2> QED
      BY <2>1, <2>2
  <1>5. CASE Poll
    <2>1. cr' = cr /\ configmap' = configmap /\ pc' \notin Settling
      BY <1>5 DEF Poll, Continue, EndPass, apiserver, Settling
    <2> QED
      BY <2>1
  <1>6. ASSUME NEW end \in Ends, Ensure(end) PROVE StatusInv'
    <2>1. cr' = cr /\ configmap' = [from |-> given.generation, body |-> fetched]
      BY <1>6 DEF Ensure, PutConfigMap
    <2>2. configmap'.from = given.generation
      BY <2>1
    <2> QED
      BY <2>1, <2>2 DEF CrRecord, Settling
  <1>7. CASE Label
    <2>1. cr' = cr /\ configmap' = configmap /\ pc \in Settling
      BY <1>7 DEF Label, apiserver, Settling
    <2> QED
      BY <2>1 DEF Settling
  <1>8. ASSUME NEW end \in Ends, PatchStatus(end) PROVE StatusInv'
    <2>1. configmap' = configmap /\ pc \in Settling /\ pc' = "idle"
      BY <1>8 DEF PatchStatus, EndPass, Settling
    <2>2. cr'.generation = cr.generation /\ cr'.alive = cr.alive
      BY <1>8 DEF PatchStatus, CrRecord
    <2>3. cr.alive => cr'.observed = given.generation
      BY <1>8 DEF PatchStatus, CrRecord
    <2> QED
      BY <2>1, <2>2, <2>3 DEF CrRecord, Settling
  <1>9. ASSUME NEW end \in Ends, DeleteConfigMap(end) PROVE StatusInv'
    <2>1. cr' = cr /\ configmap'.body \in Edited
      BY <1>9, Values DEF DeleteConfigMap, PutConfigMap
    <2> QED
      BY <2>1
  <1>10. ASSUME NEW end \in Ends, RemoveFinalizers(end) PROVE StatusInv'
    <2>1. configmap' = configmap /\ pc' = "idle"
      BY <1>10 DEF RemoveFinalizers, EndPass
    <2>2. cr'.alive => /\ cr'.observed = cr.observed /\ cr'.generation = cr.generation
                       /\ cr.alive
      BY <1>10, Values DEF RemoveFinalizers, CrRecord
    <2> QED
      BY <2>1, <2>2 DEF Settling
  <1>11. CASE GiveUp
    <2>1. cr' = cr /\ configmap' = configmap /\ pc' = "idle"
      BY <1>11 DEF GiveUp, EndPass, apiserver
    <2> QED
      BY <2>1 DEF Settling
  <1> QED
    BY <1>4, <1>5, <1>6, <1>7, <1>8, <1>9, <1>10, <1>11, PassCalls

\* What users and other clients do keeps it: generations only grow, and a successor
\* that comes too early is on record.
LEMMA StatusOfEdit ==
  ASSUME TypeOK, StatusInv, Create \/ ChangeSpec \/ Delete \/ Drift \/ Publish
  PROVE  StatusInv'
  <1>1. UNCHANGED <<home, cache, due, pass, client>>
    BY DEF Edit, Create, ChangeSpec, Delete, Drift, Publish
  <1>2. cache' = cache /\ pc' = pc /\ given' = given
    BY <1>1 DEF pass
  <1>3. cr \in CrRecord /\ given \in CrRecord /\ configmap \in ConfigMapRecord
        /\ cache \in CrRecord
    BY DEF TypeOK
  <1> USE <1>2, <1>3 DEF StatusInv
  <1>4. CASE Create
    <2>1. cr' = NewCr /\ configmap' = configmap
      BY <1>4 DEF Create
    <2>2. ~replaced' => ~cache.alive /\ pc = "idle"
      BY <1>4 DEF Create, TypeOK
    <2> QED
      BY <2>1, <2>2, Values DEF Settling, ConfigMapRecord
  <1>5. CASE ChangeSpec
    <2>1. /\ cr.alive /\ cr'.observed = cr.observed /\ cr'.generation = cr.generation + 1
          /\ UNCHANGED <<configmap, replaced>>
      BY <1>5 DEF ChangeSpec, CrRecord
    <2> QED
      BY <2>1 DEF CrRecord
  <1>6. CASE Delete
    <2>1. UNCHANGED <<configmap, replaced>> /\ cr.alive
      BY <1>6 DEF Delete
    <2>2. CASE cr.own
      <3>1. cr'.observed = cr.observed /\ cr'.generation = cr.generation + 1
        BY <1>6, <2>2 DEF Delete, CrRecord
      <3> QED
        BY <2>1, <3>1 DEF CrRecord
    <2>3. CASE ~cr.own
      <3>1. ~cr'.alive
        BY <1>6, <2>3, Values DEF Delete
      <3> QED
        BY <2>1, <3>1
    <2> QED
      BY <2>2, <2>3
  <1>7. CASE Drift
    <2>1. configmap'.body \in Edited /\ UNCHANGED <<cr, replaced>>
      BY <1>7, Values DEF Drift, PutConfigMap, ConfigMapRecord, Edited
    <2> QED
      BY <2>1
  <1>8. CASE Publish
    <2>1. UNCHANGED <<cr, configmap, replaced>>
      BY <1>8 DEF Publish, apiserver
    <2> QED
      BY <2>1
  <1> QED
    BY <1>4, <1>5, <1>6, <1>7, <1>8

\* Every step keeps it; a pass begins with the CR of the store, which only moves
\* forward.
LEMMA StatusStep == TypeOK /\ StatusInv /\ [Next]_vars => StatusInv'
  <1> SUFFICES ASSUME TypeOK, StatusInv, [Next]_vars PROVE StatusInv'
    OBVIOUS
  <1> USE DEF others, apiserver, pass
  <1>1. CASE Begin
    BY <1>1 DEF Begin, StatusInv, Settling, TypeOK, CrRecord
  <1>2. CASE Observe
    BY <1>2 DEF Observe, StatusInv, TypeOK, CrRecord
  <1>3. CASE Restart
    BY <1>3, Values DEF Restart, StatusInv, Settling
  <1>4. CASE UNCHANGED <<cr, configmap, cache, pc, given, replaced>>
    BY <1>4 DEF StatusInv
  <1>5. CASE \/ Skip \/ TimerFires \/ MapToOwner \/ Ask \/ AskFails \/ Wake
             \/ UNCHANGED vars
    BY <1>4, <1>5 DEF Skip, TimerFires, MapToOwner, Ask, AskFails, Wake, vars
  <1> QED
    BY <1>1, <1>2, <1>3, <1>5, StatusOfPass, StatusOfEdit DEF Next

-----------------------------------------------------------------------------
\* Every call of a pass keeps the invariant of the drift: a pass writes what was
\* served; one that cleans up ends with a retry, or for good when the CR was
\* terminating, unless a change has made it due.
LEMMA DriftOfPass ==
  ASSUME TypeOK, DriftInv, Step \/ LoseAnswer \/ GiveUp
  PROVE  DriftInv'
  <1>1. pc # "idle" /\ cache' = cache /\ home' = home
    BY PassKeeps DEF others
  <1>0. Delayed = {"retry", "recheck", "late"} /\ "on" \notin Delayed
    BY DEF Delayed
  <1> USE <1>1 DEF DriftInv, DriftIsNoticed, Settling, Cleaning, Edited
  <1>2. ASSUME NEW end \in Ends, AddFinalizer(end) PROVE DriftInv'
    <2>1. configmap' = configmap /\ told' = told /\ pc = "finalizer"
      BY <1>2 DEF AddFinalizer
    <2>2. \/ pc' = "poll"
          \/ pc' = "idle" /\ due' \in {"now", "retry", "late"}
      BY <1>0, <1>2, PassContinued, PassEnded DEF AddFinalizer, Ends
    <2> QED
      BY <2>1, <2>2
  <1>3. CASE Poll
    <2>1. pc' = "ensure"
      BY <1>0, <1>3 DEF Poll, Continue
    <2> QED
      BY <2>1
  <1>4. ASSUME NEW end \in Ends, Ensure(end) PROVE DriftInv'
    <2>1. fetched \in Served
      BY <1>4 DEF Ensure, TypeOK
    <2>2. configmap'.body \notin Edited
      BY <1>4, <2>1, Values DEF Ensure, PutConfigMap
    <2>3. pc' \notin Cleaning
      BY <1>4 DEF Ensure, Continue, EndPass
    <2> QED
      BY <2>2, <2>3
  <1>5. CASE Label
    <2>1. configmap' = configmap /\ told' = told /\ pc = "label"
      BY <1>5 DEF Label, apiserver
    <2>2. \/ pc' = "status" /\ due' = due
          \/ pc' = "idle" /\ due' \in {"now", "retry"}
      BY <1>0, <1>5, PassEnded DEF Label, Continue
    <2> QED
      BY <2>1, <2>2
  <1>6. ASSUME NEW end \in Ends, PatchStatus(end) PROVE DriftInv'
    <2>1. configmap' = configmap /\ told' = told /\ pc = "status" /\ pc' = "idle"
      BY <1>6 DEF PatchStatus, EndPass
    <2>2. due = "now" => due' = "now"
      BY <1>6 DEF PatchStatus, EndPass
    <2> QED
      BY <2>1, <2>2
  <1>7. ASSUME NEW end \in Ends, DeleteConfigMap(end) PROVE DriftInv'
    <2>1. pc = "cleanup"
      BY <1>7 DEF DeleteConfigMap
    <2>2. \/ pc' = "unfinalize" /\ due' = due
          \/ pc' = "idle" /\ due' \in {"now", "retry", "late"}
      BY <1>0, <1>7, PassContinued, PassEnded DEF DeleteConfigMap, Ends
    <2> QED
      BY <2>1, <2>2
  <1>8. ASSUME NEW end \in Ends, RemoveFinalizers(end) PROVE DriftInv'
    <2>1. pc = "unfinalize" /\ pc' = "idle"
      BY <1>8 DEF RemoveFinalizers, EndPass
    <2>2. due = "now" => due' = "now"
      BY <1>8 DEF RemoveFinalizers, EndPass
    <2> QED
      BY <2>1, <2>2
  <1>9. CASE GiveUp
    <2>1. pc' = "idle" /\ due' \in {"now", "retry", "late"}
      BY <1>9, PassEnded DEF GiveUp
    <2> QED
      BY <2>1
  <1> QED
    BY <1>2, <1>3, <1>4, <1>5, <1>6, <1>7, <1>8, <1>9, PassCalls

\* Every step keeps it: what edits the ConfigMap has the watch tell of it, and a CR
\* that comes into the store is due.
LEMMA DriftStep == TypeOK /\ DriftInv /\ [Next]_vars => DriftInv'
  <1> SUFFICES ASSUME TypeOK, DriftInv, [Next]_vars PROVE DriftInv'
    OBVIOUS
  <1> USE DEF others, apiserver, pass, DriftInv, DriftIsNoticed, Settling, Cleaning
  <1>1. CASE Begin
    BY <1>1 DEF Begin
  <1>2. CASE Skip
    BY <1>2 DEF Skip
  <1>3. CASE TimerFires
    BY <1>3 DEF TimerFires
  <1>4. CASE Observe
    BY <1>4 DEF Observe
  <1>5. CASE MapToOwner
    BY <1>5 DEF MapToOwner
  <1>6. CASE Restart
    BY <1>6, Values DEF Restart
  <1>7. CASE Drift
    <2>1. UNCHANGED <<home, cache, due, pass>>
      BY <1>7 DEF Drift, Edit
    <2>2. configmap' = configmap \/ told'
      BY <1>7 DEF Drift, PutConfigMap
    <2>3. told => told'
      BY <1>7 DEF Drift, PutConfigMap
    <2> QED
      BY <2>1, <2>2, <2>3
  <1>8. CASE UNCHANGED <<home, configmap, cache, told, due, pc>>
    BY <1>8
  <1>9. CASE Create \/ ChangeSpec \/ Delete \/ Publish
    BY <1>8, <1>9 DEF Edit, Create, ChangeSpec, Delete, Publish
  <1>10. CASE Ask \/ AskFails \/ Wake \/ UNCHANGED vars
    BY <1>8, <1>10 DEF Ask, AskFails, Wake, vars
  <1> QED
    BY <1>1, <1>2, <1>3, <1>4, <1>5, <1>6, <1>7, <1>9, <1>10, DriftOfPass DEF Next

-----------------------------------------------------------------------------
\* The operator's invariant holds in every behaviour.
LEMMA OperatorInvHolds == Spec => []OperatorInv
  <1>1. OperatorInv /\ [Next]_vars => OperatorInv'
    BY TypeStep, StatusStep, DriftStep DEF OperatorInv
  <1> QED
    BY <1>1, OperatorInit, PTL DEF Spec

\* For any bodies and any number of edits the variables keep their types; a pass
\* has a CR in hand and a fetched body only while it needs them.
THEOREM OperatorTyped == Spec => []TypeOK
  BY OperatorInvHolds, PTL DEF OperatorInv

\* However the store lags, passes break off and processes die, a Ready condition
\* never speaks of a generation the CR does not have yet, or of one newer than its
\* ConfigMap's.
THEOREM StatusesAreTrue == Spec => []StatusTruthful
  <1>1. OperatorInv => StatusTruthful
    BY DEF OperatorInv, StatusInv, StatusTruthful, Edited
  <1> QED
    BY <1>1, OperatorInvHolds, PTL

\* An edited or deleted ConfigMap is never forgotten: its event is under way, the CR
\* is due, or a pass goes on.
THEOREM DriftIsSeen == Spec => []DriftIsNoticed
  BY OperatorInvHolds, PTL DEF OperatorInv, DriftInv
=============================================================================
