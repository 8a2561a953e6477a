----------------------------- MODULE ProxyRequest -----------------------------
(***************************************************************************)
(* The forwarding half of the gateway for one route: proxyHandler and      *)
(* proxyRequest from the look at the route to the answer, for requests     *)
(* that overlap, with the load balancer's targets, the retry loop, the     *)
(* relay of a streamed response and the request log.                       *)
(*                                                                         *)
(* What is awaited is a step of its own.  What is not awaited (the log     *)
(* rows, the marks on the target, the captured body) is a pending task     *)
(* that runs later, in any order, fails without notice, or is lost when    *)
(* the process dies.  The calls of the circuit breaker are modelled in     *)
(* CircuitBreaker, the check of API keys in ApiKeyCache.                   *)
(*                                                                         *)
(* Data: of a response only whether it came matters, of a stream how it    *)
(* ended; of a log row whether it is there and what its body says about    *)
(* the end of the stream.  Which of the healthy targets selectTarget picks *)
(* is left open: the rows come in no order, and weighted draws at random.  *)
(***************************************************************************)
EXTENDS Integers

CONSTANTS
    Requests,    \* request slots: how many requests may overlap
    Targets,     \* ids of route_targets rows
    MaxRetries,  \* the largest retryCount considered
    Settings,    \* the settings the route may have
    Crashes,     \* whether a process may die
    Null

ASSUME RetryAssumption   == MaxRetries \in Nat
ASSUME SettingAssumption ==
    Settings \subseteq [streamResponse : BOOLEAN, retryCount : 0 .. MaxRetries]
ASSUME CrashAssumption   == Crashes \in BOOLEAN
ASSUME NullAssumption    ==
    Null \notin Targets \cup {"healthy", "unhealthy", "deleted",
                              "open", "complete", "aborted"}

VARIABLES
    route,   \* the settings of the route: how it answers and retries
    target,  \* the route_targets rows
    req,     \* the requests
    marks,   \* per request, its pending markTargetHealthy and -Unhealthy
    flush,   \* per request, its captured bodies that are still to be stored
    log      \* per request, its request_logs rows

vars == <<route, target, req, marks, flush, log>>

EndState == {"open", "complete", "aborted"}
Health   == {"healthy", "unhealthy"}

PC == {"idle", "admitting", "calling", "fallback", "streaming", "closing"}

Outcome == {"none", "refused", "answered", "failed", "broken", "crashed"}

Snapshot == [Targets -> Health \cup {Null}]

Attempt == 0 .. MaxRetries

Request ==
    [pc       : PC,
     streamed : BOOLEAN,               \* its body is piped, not buffered
     snapshot : Snapshot,              \* the targets that were read
     target   : Targets \cup {Null},   \* the one selected, Null: route.targetUrl
     healthy  : BOOLEAN,               \* history: it was healthy when read
     https    : BOOLEAN,               \* the scheme of the URL that is called
     attempt  : Attempt,
     calls    : Nat,                   \* history: calls of axios
     end      : EndState \cup {Null},  \* captureFlushed, and with which state
     ended    : BOOLEAN,               \* resp.data.readableEnded
     outcome  : Outcome]

RowState == {"none", "creating", "stored", "failed"}

Log == [response : RowState, error : RowState,
        body : EndState \cup {"none", "placeholder", "failed"}]

TypeOK ==
    /\ route \in Settings
    /\ target \in [Targets -> Health \cup {Null, "deleted"}]
    /\ req \in [Requests -> Request]
    /\ marks \in [Requests -> SUBSET {"healthy", "unhealthy"}]
    /\ flush \in [Requests -> SUBSET EndState]
    /\ log \in [Requests -> Log]

------------------------------------------------------------------------------
Nothing == [t \in Targets |-> Null]

Idle == [pc |-> "idle", streamed |-> FALSE, snapshot |-> Nothing, target |-> Null,
         healthy |-> FALSE, https |-> FALSE, attempt |-> 0, calls |-> 0,
         end |-> Null, ended |-> FALSE, outcome |-> "none"]

NoLog == [response |-> "none", error |-> "none", body |-> "none"]

Init ==
    /\ route \in Settings
    /\ target \in [Targets -> {Null, "healthy"}]
    /\ req = [r \in Requests |-> Idle]
    /\ marks = [r \in Requests |-> {}]
    /\ flush = [r \in Requests |-> {}]
    /\ log = [r \in Requests |-> NoLog]

Pending(r) ==
    \/ marks[r] # {} \/ flush[r] # {}
    \/ "creating" \in {log[r].response, log[r].error}

(* A slot takes its next request when the tasks of its last one are done.  *)
Free(r) == req[r].pc = "idle" /\ ~Pending(r)

(* The locals that admission and the calls need are gone after them. *)
Past(q, pc, outcome) ==
    [q EXCEPT !.pc = pc, !.outcome = outcome, !.streamed = FALSE,
              !.snapshot = Nothing, !.https = FALSE, !.attempt = 0, !.calls = 0]

------------------------------------------------------------------------------
(* Admission *)

(* The rows that findMany returns. *)
Rows == [t \in Targets |-> IF target[t] = "deleted" THEN Null ELSE target[t]]

(* proxyHandler's look-up; https: whether the target's URL says so. *)
Arrive(r, streamed, https) ==
    /\ Free(r)
    /\ req' = [req EXCEPT ![r] =
            [Idle EXCEPT !.pc = "admitting", !.streamed = streamed,
                         !.snapshot = Rows, !.https = https]]
    /\ log' = [log EXCEPT ![r] = NoLog]
    /\ UNCHANGED <<route, target, marks, flush>>

(* An answer of the gateway itself: no route, method, preflight, open      *)
(* breaker, address, path, rate limit, credentials, signature.  Of these   *)
(* only maintenance mode leaves a row.                                     *)
Refuse(r) ==
    /\ req[r].pc = "admitting"
    /\ req' = [req EXCEPT ![r] = Past(@, "idle", "refused")]
    /\ UNCHANGED <<route, target, marks, flush, log>>

Maintenance(r) ==
    /\ req[r].pc = "admitting"
    /\ req' = [req EXCEPT ![r] = Past(@, "idle", "refused")]
    /\ log' = [log EXCEPT ![r].error = "creating"]
    /\ UNCHANGED <<route, target, marks, flush>>

AnyTarget(s) == {t \in Targets : s[t] # Null}

IgnoresHealth(s) == AnyTarget(s)

(* The targets that selectTarget chooses from. *)
Healthy(s) == {t \in Targets : s[t] = "healthy"}

Call(q) == [q EXCEPT !.pc = "calling", !.calls = @ + 1]

(* A route without targets has its targetUrl. *)
UseTargetUrl(r) ==
    /\ req[r].pc = "admitting"
    /\ AnyTarget(req[r].snapshot) = {}
    /\ req' = [req EXCEPT ![r] = Call(@)]
    /\ UNCHANGED <<route, target, marks, flush, log>>

SelectTarget(r) ==
    /\ req[r].pc = "admitting"
    /\ \E t \in Healthy(req[r].snapshot) :
          req' = [req EXCEPT ![r] = [Call(@) EXCEPT !.target = t,
                                        !.healthy = req[r].snapshot[t] = "healthy"]]
    /\ UNCHANGED <<route, target, marks, flush, log>>

(* 503: none of the route's targets is healthy. *)
NoHealthyTarget(r) ==
    /\ req[r].pc = "admitting"
    /\ AnyTarget(req[r].snapshot) # {}
    /\ Healthy(req[r].snapshot) = {}
    /\ req' = [req EXCEPT ![r] = Past(@, "idle", "refused")]
    /\ UNCHANGED <<route, target, marks, flush, log>>

------------------------------------------------------------------------------
(* The call *)

Mark(r, ms) ==
    marks' = [marks EXCEPT ![r] = IF req[r].target = Null THEN @ ELSE @ \cup ms]

(* An answer of any status, buffered: it is logged and sent. *)
Answer(r) ==
    /\ req[r].pc \in {"calling", "fallback"}
    /\ ~route.streamResponse
    /\ req' = [req EXCEPT ![r] = Past(@, "idle", "answered")]
    /\ Mark(r, {"healthy"})
    /\ log' = [log EXCEPT ![r].response = "creating"]
    /\ UNCHANGED <<route, target, flush>>

(* The answer is logged as one, and then send throws (a transform made an  *)
(* invalid status of it): the catch block runs as well.                    *)
SendFails(r) ==
    /\ req[r].pc \in {"calling", "fallback"}
    /\ ~route.streamResponse
    /\ req' = [req EXCEPT ![r] = Past(@, "idle", "broken")]
    /\ Mark(r, {"healthy", "unhealthy"})
    /\ log' = [log EXCEPT ![r].response = "creating", ![r].error = "creating"]
    /\ UNCHANGED <<route, target, flush>>

(* An answer that is relayed: the headers go out, success is recorded and  *)
(* the row is created, with a placeholder for the body.                    *)
StartStream(r) ==
    /\ req[r].pc \in {"calling", "fallback"}
    /\ route.streamResponse
    /\ req' = [req EXCEPT ![r] = Past(@, "streaming", "answered")]
    /\ Mark(r, {"healthy"})
    /\ log' = [log EXCEPT ![r].response = "creating", ![r].body = "placeholder"]
    /\ UNCHANGED <<route, target, flush>>

FailsUnlogged(r) == Mark(r, {"unhealthy"}) /\ UNCHANGED log

(* The catch block. *)
Failed(r) ==
    /\ Mark(r, {"unhealthy"})
    /\ log' = [log EXCEPT ![r].error = "creating"]

ReplayStreamed(q) == 1 + route.retryCount
OneTooMany(q) == IF q.streamed \/ route.streamResponse THEN 1 ELSE 2 + route.retryCount

(* A consumed request body cannot be sent again, and a relayed response is *)
(* asked for once.                                                         *)
MaxAttempts(q) ==
    IF q.streamed \/ route.streamResponse THEN 1 ELSE 1 + route.retryCount

(* A network error or the timeout, and an attempt is left: after the pause *)
(* of retryDelay the same URL is called again.                             *)
Retry(r) ==
    /\ req[r].pc \in {"calling", "fallback"}
    /\ req[r].attempt + 1 < MaxAttempts(req[r])
    /\ req' = [req EXCEPT ![r] = [Call(@) EXCEPT !.attempt = req[r].attempt + 1]]
    /\ UNCHANGED <<route, target, marks, flush, log>>

(* 503: the last attempt failed, or an answer came that cannot be passed   *)
(* on (a transform or a header that throws).                               *)
GiveUp(r) ==
    /\ req[r].pc \in {"calling", "fallback"}
    /\ req' = [req EXCEPT ![r] = Past(@, "idle", "failed")]
    /\ Failed(r)
    /\ UNCHANGED <<route, target, flush>>

(* The target speaks plain HTTP: the URL is rewritten and called at once.  *)
OverHttp(q) == [Call(q) EXCEPT !.pc = "fallback", !.https = FALSE]

TlsMismatch(r) ==
    /\ req[r].pc = "calling"
    /\ req[r].https
    /\ req' = [req EXCEPT ![r] = OverHttp(@)]
    /\ UNCHANGED <<route, target, marks, flush, log>>

------------------------------------------------------------------------------
(* The relayed response *)

AlwaysFlushes(r) == TRUE

(* flushCapture does something for its first caller only. *)
Flushes(r) == req[r].end = Null

FlushCapture(r, state) ==
    flush' = [flush EXCEPT ![r] = IF Flushes(r) THEN @ \cup {state} ELSE @]

End(r, state) == IF Flushes(r) THEN state ELSE req[r].end

(* on data: the capture is full, and is stored while the stream goes on. *)
BudgetSpent(r) ==
    /\ req[r].pc = "streaming"
    /\ Flushes(r)
    /\ FlushCapture(r, "open")
    /\ req' = [req EXCEPT ![r].end = End(r, "open")]
    /\ UNCHANGED <<route, target, marks, log>>

UpstreamEnds(r) ==
    /\ req[r].pc = "streaming"
    /\ FlushCapture(r, "complete")
    /\ req' = [req EXCEPT ![r].pc = "closing", ![r].ended = TRUE,
                          ![r].end = End(r, "complete")]
    /\ UNCHANGED <<route, target, marks, log>>

(* The promise is rejected: the catch block runs although the headers went *)
(* out as a success; answering 503 then throws and the connection is cut.  *)
UpstreamBreaks(r) ==
    /\ req[r].pc = "streaming"
    /\ FlushCapture(r, "aborted")
    /\ req' = [req EXCEPT ![r].pc = "closing", ![r].outcome = "broken",
                          ![r].end = End(r, "aborted")]
    /\ Failed(r)
    /\ UNCHANGED <<route, target>>

(* on close of the client's side: it left, or everything was sent. *)
ClientCloses(r) ==
    LET state == IF req[r].ended THEN "complete" ELSE "aborted" IN
    /\ req[r].pc \in {"streaming", "closing"}
    /\ FlushCapture(r, state)
    /\ req' = [req EXCEPT ![r].pc = "idle", ![r].end = End(r, state)]
    /\ UNCHANGED <<route, target, marks, log>>

------------------------------------------------------------------------------
(* Pending tasks *)

(* logRequest resolves to the id of its row, or to null. *)
CreateResponseRow(r) ==
    /\ log[r].response = "creating"
    /\ \E s \in {"stored", "failed"} : log' = [log EXCEPT ![r].response = s]
    /\ UNCHANGED <<route, target, req, marks, flush>>

CreateErrorRow(r) ==
    /\ log[r].error = "creating"
    /\ \E s \in {"stored", "failed"} : log' = [log EXCEPT ![r].error = s]
    /\ UNCHANGED <<route, target, req, marks, flush>>

(* await logIdPromise *)
RowKnown(r) == log[r].response \in {"stored", "failed"}

(* updateLoggedResponseBody, if there is a row to update. *)
StoreBody(r, state) ==
    /\ state \in flush[r]
    /\ RowKnown(r)
    /\ flush' = [flush EXCEPT ![r] = @ \ {state}]
    /\ \E body \in {state, "failed"} :
          log' = [log EXCEPT ![r].body = IF log[r].response = "stored" THEN body ELSE @]
    /\ UNCHANGED <<route, target, req, marks>>

(* An update of a row that is gone throws, which only a warning reports. *)
MarkTarget(r, m) ==
    /\ m \in marks[r]
    /\ marks' = [marks EXCEPT ![r] = @ \ {m}]
    /\ target' = IF target[req[r].target] = "deleted" THEN target
                 ELSE [target EXCEPT ![req[r].target] = m]
    /\ UNCHANGED <<route, req, flush, log>>

MarkFails(r, m) ==
    /\ m \in marks[r]
    /\ marks' = [marks EXCEPT ![r] = @ \ {m}]
    /\ UNCHANGED <<route, target, req, flush, log>>

------------------------------------------------------------------------------
(* Around the requests *)

AddTarget(t) ==
    /\ target[t] = Null
    /\ target' = [target EXCEPT ![t] = "healthy"]
    /\ UNCHANGED <<route, req, marks, flush, log>>

DeleteTarget(t) ==
    /\ target[t] \in Health
    /\ target' = [target EXCEPT ![t] = "deleted"]
    /\ UNCHANGED <<route, req, marks, flush, log>>

LostRow(s) == IF s = "creating" THEN "failed" ELSE s

Lost(l) == [l EXCEPT !.response = LostRow(l.response), !.error = LostRow(l.error)]

(* The process that serves the request dies, with all its tasks. *)
Crash(r) ==
    /\ Crashes
    /\ ~Free(r)
    /\ req' = [req EXCEPT ![r] = Past(@, "idle", "crashed")]
    /\ marks' = [marks EXCEPT ![r] = {}]
    /\ flush' = [flush EXCEPT ![r] = {}]
    /\ log' = [log EXCEPT ![r] = Lost(@)]
    /\ UNCHANGED <<route, target>>

Admission(r) ==
    \/ \E streamed, https \in BOOLEAN : Arrive(r, streamed, https)
    \/ Refuse(r) \/ Maintenance(r) \/ NoHealthyTarget(r)
    \/ UseTargetUrl(r) \/ SelectTarget(r)

Forwarding(r) ==
    \/ Answer(r) \/ SendFails(r) \/ StartStream(r) \/ Retry(r) \/ GiveUp(r) \/ TlsMismatch(r)
    \/ BudgetSpent(r) \/ UpstreamEnds(r) \/ UpstreamBreaks(r) \/ ClientCloses(r)

Tasks(r) ==
    \/ CreateResponseRow(r) \/ CreateErrorRow(r)
    \/ \E state \in EndState : StoreBody(r, state)
    \/ \E m \in {"healthy", "unhealthy"} : MarkTarget(r, m) \/ MarkFails(r, m)
    \/ Crash(r)

Next ==
    \/ \E r \in Requests : Admission(r) \/ Forwarding(r) \/ Tasks(r)
    \/ \E t \in Targets : AddTarget(t) \/ DeleteTarget(t)

Spec == Init /\ [][Next]_vars

------------------------------------------------------------------------------
(* However the errors fall, a request is sent at most retryCount + 2 times *)
(* (the fallback to http happens once, because the rewritten URL is kept), *)
(* and a body that is piped is never sent again over the same scheme.      *)
CallsBounded ==
    \A r \in Requests :
        LET q == req[r] IN
        /\ q.calls <= route.retryCount + 2
        /\ q.streamed \/ route.streamResponse
             => q.calls <= (IF q.https THEN 1 ELSE 2)

(* When everything a request started has run, its rows tell what happened  *)
(* to it, unless the database lost them: none for a refusal, one for an    *)
(* answer or a failure, both for an answer that broke off or was not sent. *)
RowsTellOutcome ==
    \A r \in Requests : Free(r) =>
        LET o == req[r].outcome IN
        /\ o \in {"answered", "broken"} => log[r].response # "none"
        /\ o \in {"none", "refused", "failed"} => log[r].response = "none"
        /\ o \in {"failed", "broken"} => log[r].error # "none"
        /\ o \in {"none", "answered"} => log[r].error = "none"

(* The row of a relayed response does not keep its placeholder, and its    *)
(* body says how the stream really ended: of the events that end a stream, *)
(* in whatever order they and the creation of the row come, the first one  *)
(* decides and the others change nothing.                                  *)
BodyTellsEnd ==
    \A r \in Requests :
        LET body == log[r].body IN
        /\ body \in EndState => body = req[r].end
        /\ body = "complete" => req[r].ended
        /\ body = "aborted" => ~req[r].ended
        /\ Free(r) /\ req[r].outcome # "crashed" /\ log[r].response = "stored"
             => body # "placeholder"

(* Only a request that had read the target as healthy, before it failed,   *)
(* can bring it back: selectTarget hands out no other, so once those       *)
(* requests are through, an unhealthy target stays out of service until    *)
(* it is replaced.                                                         *)
NoWayBack ==
    [][\A t \in Targets : target[t] = "unhealthy" /\ target'[t] = "healthy"
          => \E r \in Requests :
                ~Free(r) /\ req[r].target = t /\ req[r].healthy]_vars

==============================================================================
