--------------------------- MODULE AdmissionServer ---------------------------
(***************************************************************************)
(* One process in `WebhookBuilder::run`, koprs-admission/src/webhook.rs:   *)
(* start-up, the shutdown task, the accept loops with and without TLS, and *)
(* `admit` with the parsing and the responses of review.rs on each         *)
(* connection.  The drain of axum::serve and the connections of hyper are  *)
(* external: they are what the code relies on without TLS.  With TLS the   *)
(* accept loop and the tasks it detaches are the code's own.               *)
(***************************************************************************)
EXTENDS Naturals

CONSTANTS
  Connection,        \* the connections clients open, each once
  Uid,               \* of admission requests
  NoUid,             \* the empty string that stands for a missing one
  NotJson,           \* a request body that is no JSON
  Nothing,           \* no request, no answer
  TlsModes,          \* the servers considered: subset of BOOLEAN
  GracefulShutdown,  \* .graceful_shutdown() was called
  MaxRequests        \* bound of the model: requests on one connection

ASSUME ServerAssumption ==
  /\ NoUid \notin Uid
  /\ TlsModes \subseteq BOOLEAN
  /\ GracefulShutdown \in BOOLEAN
  /\ MaxRequests \in Nat

VARIABLES
  tls,      \* a TLS config was given
  main,     \* where `run` is
  handler,  \* the task that waits for the shutdown signal
  signal,   \* SIGTERM or Ctrl+C has been sent to the process
  ready,    \* the flag behind GET /readyz
  conn,     \* [Connection -> its state]
  asked,    \* [Connection -> the body of its last request]
  verdict,  \* [Connection -> what the validator has said about it]
  answer,   \* [Connection -> the answer to it]
  count     \* [Connection -> requests so far]

exchange == <<asked, verdict, answer, count>>
serverVars == <<tls, main, handler, signal, ready, conn, exchange>>

\* An AdmissionReview: `wrapped` when it has a "request" member, which alone can
\* hold a uid; the object and the old one may be absent or null.
Payload == {"absent", "typed", "malformed"}

Review ==
  [wrapped : {TRUE}, uid : Uid \cup {NoUid}, object : Payload, oldObject : Payload]
  \cup [wrapped : {FALSE}, uid : {NoUid}, object : {"absent"}, oldObject : {"absent"}]

\* The value that stands for no request is not one of them.
ASSUME NothingAssumption == Nothing \notin Review \cup {NotJson}

\* An answer: its HTTP status, and the decision in a body with status 200.
Answer ==
  [http : {200, 400, 500}, uid : Uid \cup {NoUid}, allowed : BOOLEAN, code : {0, 400, 403},
   warned : BOOLEAN]

Verdicts == {"allow", "warn", "deny", "error"}

Alive == main \notin {"killed", "exited"}

ServerInit ==
  /\ tls \in TlsModes
  /\ main = "starting"
  /\ handler = "none"
  /\ signal = FALSE
  /\ ready = FALSE
  /\ conn = [c \in Connection |-> "none"]
  /\ asked = [c \in Connection |-> Nothing]
  /\ verdict = [c \in Connection |-> "none"]
  /\ answer = [c \in Connection |-> Nothing]
  /\ count = [c \in Connection |-> 0]

-----------------------------------------------------------------------------
(***************************************************************************)
(* The server.                                                             *)
(***************************************************************************)
\* The health port is bound and the shutdown task spawned.
Launch ==
  /\ main = "starting"
  /\ main' = "binding"
  /\ handler' = IF GracefulShutdown THEN "spawned" ELSE "none"
  /\ UNCHANGED <<tls, signal, ready, conn, exchange>>

\* A port is in use: `run` returns the error.
BindFails ==
  /\ main \in {"starting", "binding"}
  /\ main' = "failed"
  /\ UNCHANGED <<tls, handler, signal, ready, conn, exchange>>

Bind ==
  /\ main = "binding"
  /\ main' = "serving"
  /\ ready' = TRUE
  /\ UNCHANGED <<tls, handler, signal, conn, exchange>>

\* shutdown_signal installs its handlers when its task is first polled.
InstallHandler ==
  /\ Alive
  /\ handler = "spawned"
  /\ handler' = "installed"
  /\ UNCHANGED <<tls, main, signal, ready, conn, exchange>>

\* The listener and the connections in the given states are closed.
CloseAll(states) ==
  conn' = [c \in Connection |-> IF conn[c] \in states THEN "closed" ELSE conn[c]]

Open == {"queued", "handshake", "open", "asked", "validating"}

\* The signal is delivered; without a handler it ends the process.
Signal ==
  /\ Alive /\ ~signal
  /\ signal' = TRUE
  /\ IF handler = "installed"
     THEN UNCHANGED <<main, conn>>
     ELSE main' = "killed" /\ CloseAll(Open)
  /\ UNCHANGED <<tls, handler, ready, exchange>>

\* The shutdown task sees the signal: the value of its channel changes.
HandleSignal ==
  /\ Alive
  /\ handler = "installed" /\ signal
  /\ handler' = "fired"
  /\ UNCHANGED <<tls, main, signal, ready, conn, exchange>>

\* axum hands the connection on; with TLS its task begins with the handshake.
Accept(c) ==
  /\ main = "serving"
  /\ conn[c] = "queued"
  /\ conn' = [conn EXCEPT ![c] = IF tls THEN "handshake" ELSE "open"]
  /\ UNCHANGED <<tls, main, handler, signal, ready, exchange>>

\* The TLS accept loop ends with the first error of accept, and `run` with Ok;
\* axum goes on accepting.
AcceptFails ==
  /\ main = "serving"
  /\ tls
  /\ main' = "returned"
  /\ CloseAll({"queued"})
  /\ UNCHANGED <<tls, handler, signal, ready, exchange>>

\* Mutant of StopServing: both servers return at once.
StopServingAtOnce ==
  /\ main = "serving"
  /\ handler = "fired"
  /\ main' = "returned"
  /\ CloseAll({"queued"})
  /\ UNCHANGED <<tls, handler, signal, ready, exchange>>

\* Mutant of StopServing: with_graceful_shutdown is forgotten.
StopServingTls ==
  /\ main = "serving"
  /\ handler = "fired"
  /\ tls
  /\ main' = "returned"
  /\ CloseAll({"queued"})
  /\ UNCHANGED <<tls, handler, signal, ready, exchange>>

\* rx.changed() returns: the select! ends `run` with TLS, axum drains without.
StopServing ==
  /\ main = "serving"
  /\ handler = "fired"
  /\ main' = IF tls THEN "returned" ELSE "draining"
  /\ CloseAll({"queued"})
  /\ UNCHANGED <<tls, handler, signal, ready, exchange>>

\* axum closes a connection that has no request in hand ...
CloseIdle(c) ==
  /\ main = "draining"
  /\ conn[c] = "open"
  /\ conn' = [conn EXCEPT ![c] = "closed"]
  /\ UNCHANGED <<tls, main, handler, signal, ready, exchange>>

\* ... and returns when none is left.
Drained ==
  /\ main = "draining"
  /\ \A c \in Connection : conn[c] \notin Open
  /\ main' = "returned"
  /\ UNCHANGED <<tls, handler, signal, ready, conn, exchange>>

\* The caller of `run` ends the process, and the detached tasks with it.
Exit ==
  /\ main \in {"returned", "failed"}
  /\ main' = "exited"
  /\ CloseAll(Open)
  /\ UNCHANGED <<tls, handler, signal, ready, exchange>>

-----------------------------------------------------------------------------
(***************************************************************************)
(* A connection.                                                           *)
(***************************************************************************)
Handshake(c) ==
  /\ Alive
  /\ conn[c] = "handshake"
  /\ \E next \in {"open", "closed"} : conn' = [conn EXCEPT ![c] = next]
  /\ UNCHANGED <<tls, main, handler, signal, ready, exchange>>

\* Mutant of Respond: the request stays in hand.
RespondWithoutEnd(c, a) ==
  /\ answer' = [answer EXCEPT ![c] = a]
  /\ UNCHANGED <<tls, main, handler, signal, ready, conn, asked, count>>

Respond(c, a) ==
  /\ conn' = [conn EXCEPT ![c] = "open"]
  /\ answer' = [answer EXCEPT ![c] = a]
  /\ UNCHANGED <<tls, main, handler, signal, ready, asked, count>>

NoDecision(http) ==
  [http |-> http, uid |-> NoUid, allowed |-> FALSE, code |-> 0, warned |-> FALSE]

\* parse_request: the objects there are have the type of the validator.
Parses(r) == r.wrapped /\ "malformed" \notin {r.object, r.oldObject}

\* Mutant of BuildDenyResponse: the uid of a request that was not parsed is unknown.
BuildDenyResponseBlind(uid) ==
  [http |-> 200, uid |-> NoUid, allowed |-> FALSE, code |-> 400, warned |-> FALSE]

BuildDenyResponse(uid) ==
  [http |-> 200, uid |-> uid, allowed |-> FALSE, code |-> 400, warned |-> FALSE]

BuildResponse(uid, v) ==
  [http |-> 200, uid |-> uid, allowed |-> v # "deny",
   code |-> IF v = "deny" THEN 403 ELSE 0, warned |-> v = "warn"]

\* The router's Json extractor refuses the body.
Refuse(c) ==
  /\ Alive
  /\ conn[c] = "asked"
  /\ asked[c] = NotJson
  /\ Respond(c, NoDecision(400))
  /\ UNCHANGED verdict

\* admit: a review that does not parse is denied ...
DenyUnparsed(c) ==
  /\ Alive
  /\ conn[c] = "asked"
  /\ asked[c] # NotJson /\ ~Parses(asked[c])
  /\ Respond(c, BuildDenyResponse(asked[c].uid))
  /\ UNCHANGED verdict

\* ... any other one goes to the validator.
Parse(c) ==
  /\ Alive
  /\ conn[c] = "asked"
  /\ asked[c] # NotJson /\ Parses(asked[c])
  /\ conn' = [conn EXCEPT ![c] = "validating"]
  /\ UNCHANGED <<tls, main, handler, signal, ready, exchange>>

Validate(c, v) ==
  /\ Alive
  /\ conn[c] = "validating"
  /\ verdict' = [verdict EXCEPT ![c] = v]
  /\ Respond(c, IF v = "error" THEN NoDecision(500) ELSE BuildResponse(asked[c].uid, v))

-----------------------------------------------------------------------------
(***************************************************************************)
(* The clients.                                                            *)
(***************************************************************************)
\* The kernel accepts connections from bind on.
Connect(c) ==
  /\ main = "serving"
  /\ conn[c] = "none"
  /\ conn' = [conn EXCEPT ![c] = "queued"]
  /\ UNCHANGED <<tls, main, handler, signal, ready, exchange>>

Request(c, body) ==
  /\ Alive
  /\ conn[c] = "open"
  /\ count[c] < MaxRequests
  /\ conn' = [conn EXCEPT ![c] = "asked"]
  /\ asked' = [asked EXCEPT ![c] = body]
  /\ verdict' = [verdict EXCEPT ![c] = "none"]
  /\ answer' = [answer EXCEPT ![c] = Nothing]
  /\ count' = [count EXCEPT ![c] = @ + 1]
  /\ UNCHANGED <<tls, main, handler, signal, ready>>

\* The client, or the network, ends the connection: its task is dropped.
Leave(c) ==
  /\ conn[c] \in Open
  /\ conn' = [conn EXCEPT ![c] = "closed"]
  /\ UNCHANGED <<tls, main, handler, signal, ready, exchange>>

-----------------------------------------------------------------------------
\* What the server does of its own accord with a connection.
Serve(c) ==
  \/ Accept(c) \/ Handshake(c) \/ Refuse(c) \/ DenyUnparsed(c) \/ Parse(c)
  \/ \E v \in Verdicts : Validate(c, v)

Client(c) ==
  \/ Connect(c) \/ Leave(c)
  \/ \E body \in Review \cup {NotJson} : Request(c, body)

ServerNext ==
  \/ Launch \/ BindFails \/ Bind
  \/ InstallHandler \/ Signal \/ HandleSignal
  \/ AcceptFails \/ StopServing \/ Drained \/ Exit
  \/ \E c \in Connection : Serve(c) \/ CloseIdle(c) \/ Client(c)

\* The tasks are polled and validators return; nothing makes a client act, a
\* signal come or the process exit.
ServerFairness ==
  /\ WF_serverVars(Launch \/ BindFails) /\ WF_serverVars(Bind \/ BindFails)
  /\ WF_serverVars(HandleSignal) /\ WF_serverVars(StopServing) /\ WF_serverVars(Drained)
  /\ \A c \in Connection : WF_serverVars(Serve(c)) /\ WF_serverVars(CloseIdle(c))

ServerSpec == ServerInit /\ [][ServerNext]_serverVars /\ ServerFairness

-----------------------------------------------------------------------------
(***************************************************************************)
(* Properties.                                                             *)
(***************************************************************************)
\* The variables keep their types; a request in hand has no answer yet, and only
\* one that was read can be in hand.
ServerTypeOK ==
  /\ tls \in BOOLEAN
  /\ main \in {"starting", "binding", "serving", "draining", "returned", "failed", "killed",
               "exited"}
  /\ handler \in {"none", "spawned", "installed", "fired"}
  /\ signal \in BOOLEAN /\ ready \in BOOLEAN
  /\ conn \in [Connection -> Open \cup {"none", "closed"}]
  /\ asked \in [Connection -> Review \cup {NotJson, Nothing}]
  /\ verdict \in [Connection -> Verdicts \cup {"none"}]
  /\ answer \in [Connection -> Answer \cup {Nothing}]
  /\ count \in [Connection -> Nat]
  /\ \A c \in Connection :
       conn[c] \in {"asked", "validating"} => answer[c] = Nothing /\ asked[c] # Nothing

\* Every decision answers the request that was asked on its connection, by the uid
\* "echoed back in the response" (review.rs:72-73), even when it did not parse; it
\* allows nothing the validator has not seen and allowed, and a validator that
\* fails decides nothing (webhook.rs:94-97, "HTTP 500 so Kubernetes can apply the
\* failurePolicy").
DecidesAsAsked ==
  \A c \in Connection : answer[c] # Nothing =>
    IF asked[c] = NotJson \/ verdict[c] = "error"
    THEN answer[c].http # 200
    ELSE /\ answer[c].http = 200
         /\ answer[c].uid = asked[c].uid
         /\ answer[c].allowed <=> Parses(asked[c]) /\ verdict[c] \in {"allow", "warn"}

\* Without TLS a request in hand is never dropped by the server (webhook.rs:474-477,
\* "In-flight requests are allowed to complete"): its connection is closed by its
\* own client only, or by a signal that came before the handler was installed.
RequestsComplete ==
  [][\A c \in Connection :
       (~tls /\ conn[c] \in {"asked", "validating"} /\ conn'[c] = "closed")
         => (Leave(c) \/ main' = "killed")]_serverVars

\* Once the handler has seen the signal, at whatever stage of the start-up, `run`
\* returns.
StopsOnSignal ==
  handler = "fired" ~> main \in {"returned", "failed", "killed", "exited"}
=============================================================================
