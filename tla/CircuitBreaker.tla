---------------------------- MODULE CircuitBreaker ----------------------------
(***************************************************************************)
(* The circuit breaker of one route: checkCircuitBreaker, recordSuccess    *)
(* and recordFailure, as proxyHandler and proxyRequest call them for       *)
(* requests that run concurrently, in one process or in several replicas.  *)
(*                                                                         *)
(* Every awaited database call is one step.  proxyHandler reads the route  *)
(* row once and passes that snapshot on; recordSuccess and recordFailure   *)
(* run after the answer, unawaited, and each reads the row and later       *)
(* writes it.  Nothing but the single statements is atomic.                *)
(*                                                                         *)
(* Data: cbOpenedAt is kept as the time elapsed since then, up to          *)
(* RecoveryTimeout, and cbFailureCount up to Threshold; the code only      *)
(* compares them with those limits.  cbLastFailureAt is never read by the  *)
(* breaker and is left out.                                                *)
(***************************************************************************)
EXTENDS Integers

CONSTANTS
    Requests,         \* request slots: how many requests may overlap
    Threshold,        \* route.cbFailureThreshold
    RecoveryTimeout,  \* route.cbRecoveryTimeout, in clock ticks
    Streaming,        \* route.streamResponse
    Restores,         \* whether an administrator restores route versions
    Null              \* the SQL null of cbOpenedAt

ASSUME ThresholdAssumption == Threshold \in Nat \ {0}
ASSUME RecoveryAssumption  == RecoveryTimeout \in Nat \ {0}
ASSUME FlagAssumption      == Streaming \in BOOLEAN /\ Restores \in BOOLEAN
ASSUME NullAssumption      == Null \notin Nat

VARIABLES
    route,     \* the breaker's columns of the route row
    version,   \* those columns in the last saved RouteVersion snapshot
    request,   \* the requests: where they are and what they remember
    success,   \* per request, its pending recordSuccess
    failure,   \* per request, its pending recordFailure
    upstream   \* whether the target answers (external)

vars == <<route, version, request, success, failure, upstream>>

CBState == {"CLOSED", "OPEN", "HALF_OPEN"}
Elapsed == (0 .. RecoveryTimeout) \cup {Null}
Count   == 0 .. Threshold

Row == [circuitBreakerEnabled : BOOLEAN, cbState : CBState,
        cbFailureCount : Count, cbOpenedAt : Elapsed]

Request == [pc : {"idle", "checking", "forwarding", "streaming"},
            circuitBreakerEnabled : BOOLEAN, cbState : CBState,
            cbOpenedAt : Elapsed]

Task == [pc : {"none", "read", "write"}, cbState : CBState, count : Count]

TypeOK ==
    /\ route \in Row
    /\ version \in Row
    /\ request \in [Requests -> Request]
    /\ success \in [Requests -> Task]
    /\ failure \in [Requests -> Task]
    /\ upstream \in {"up", "down"}

------------------------------------------------------------------------------
Idle == [pc |-> "idle", circuitBreakerEnabled |-> FALSE,
         cbState |-> "CLOSED", cbOpenedAt |-> Null]

NoTask  == [pc |-> "none", cbState |-> "CLOSED", count |-> 0]
NewTask == [NoTask EXCEPT !.pc = "read"]

NewRoute == [circuitBreakerEnabled |-> TRUE, cbState |-> "CLOSED",
             cbFailureCount |-> 0, cbOpenedAt |-> Null]

Init ==
    /\ route = NewRoute
    /\ version = NewRoute
    /\ request = [r \in Requests |-> Idle]
    /\ success = [r \in Requests |-> NoTask]
    /\ failure = [r \in Requests |-> NoTask]
    /\ upstream = "up"

ResetKeepsCount(row) ==
    [row EXCEPT !.cbState = "CLOSED", !.cbOpenedAt = Null]

(* resetCircuitBreaker: one update of the four runtime columns. *)
ResetCircuitBreaker(row) ==
    [row EXCEPT !.cbState = "CLOSED", !.cbFailureCount = 0, !.cbOpenedAt = Null]

OpenWithoutDate(row) == [row EXCEPT !.cbState = "OPEN"]

(* The update of recordFailure that opens the breaker now. *)
OpenNow(row) == [row EXCEPT !.cbState = "OPEN", !.cbOpenedAt = 0]

------------------------------------------------------------------------------
(* The request *)

(* proxyHandler's findMany: the row as the rest of the request sees it. *)
Arrive(r) ==
    /\ request[r].pc = "idle"
    /\ success[r].pc = "none"
    /\ failure[r].pc = "none"
    /\ request' = [request EXCEPT ![r] =
            [pc |-> "checking",
             circuitBreakerEnabled |-> route.circuitBreakerEnabled,
             cbState |-> route.cbState, cbOpenedAt |-> route.cbOpenedAt]]
    /\ UNCHANGED <<route, version, success, failure, upstream>>

ProbeAtOnce(snap) == snap.circuitBreakerEnabled /\ snap.cbState = "OPEN"

(* The three verdicts of checkCircuitBreaker on the snapshot. *)
MayProbe(snap) ==
    /\ snap.circuitBreakerEnabled
    /\ snap.cbState = "OPEN"
    /\ snap.cbOpenedAt = Null \/ snap.cbOpenedAt >= RecoveryTimeout

Blocked(snap) ==
    /\ snap.circuitBreakerEnabled
    /\ snap.cbState = "OPEN"
    /\ snap.cbOpenedAt # Null
    /\ snap.cbOpenedAt < RecoveryTimeout

(* The state the caller is told in X-CircuitBreaker-State. *)
Verdict(snap) ==
    IF ~snap.circuitBreakerEnabled THEN "CLOSED"
    ELSE IF snap.cbState = "OPEN"
           THEN IF snap.cbOpenedAt = Null THEN "CLOSED" ELSE "HALF_OPEN"
           ELSE snap.cbState

Forwarded(snap) ==
    [Idle EXCEPT !.pc = "forwarding", !.cbState = Verdict(snap),
                 !.circuitBreakerEnabled = snap.circuitBreakerEnabled]

(* Disabled, CLOSED or HALF_OPEN in the snapshot: let through, no write. *)
Admit(r) ==
    /\ request[r].pc = "checking"
    /\ ~MayProbe(request[r])
    /\ ~Blocked(request[r])
    /\ request' = [request EXCEPT ![r] = Forwarded(request[r])]
    /\ UNCHANGED <<route, version, success, failure, upstream>>

HalfOpenForgotten(row, snap) == row

(* OPEN in the snapshot and the timeout has passed: write HALF_OPEN over   *)
(* whatever the row holds by now.  An OPEN row without cbOpenedAt is reset *)
(* instead ("Shouldn't happen, but recover gracefully").                   *)
HalfOpenWrite(row, snap) ==
    IF snap.cbOpenedAt = Null THEN ResetCircuitBreaker(row)
                              ELSE [row EXCEPT !.cbState = "HALF_OPEN"]

Probe(r) ==
    /\ request[r].pc = "checking"
    /\ MayProbe(request[r])
    /\ route' = HalfOpenWrite(route, request[r])
    /\ request' = [request EXCEPT ![r] = Forwarded(request[r])]
    /\ UNCHANGED <<version, success, failure, upstream>>

(* 503: the breaker is open. *)
Reject(r) ==
    /\ request[r].pc = "checking"
    /\ Blocked(request[r])
    /\ request' = [request EXCEPT ![r] = Idle]
    /\ UNCHANGED <<route, version, success, failure, upstream>>

(* The request ends with nothing recorded: a database error in the check,  *)
(* one of the later refusals of proxyRequest (address or path allowlist,   *)
(* rate limit, authentication, signature, no healthy target), or the       *)
(* replica stops.                                                          *)
Abandon(r) ==
    /\ request[r].pc \in {"checking", "forwarding"}
    /\ request' = [request EXCEPT ![r] = Idle]
    /\ UNCHANGED <<route, version, success, failure, upstream>>

(* An HTTP answer of any status.  The decision to record is the snapshot's.*)
Respond(r) ==
    /\ request[r].pc = "forwarding"
    /\ upstream = "up"
    /\ request' = [request EXCEPT ![r] =
            IF Streaming THEN [request[r] EXCEPT !.pc = "streaming"] ELSE Idle]
    /\ success' = [success EXCEPT ![r] =
            IF request[r].circuitBreakerEnabled THEN NewTask ELSE NoTask]
    /\ UNCHANGED <<route, version, failure, upstream>>

(* The catch block: every attempt failed without an answer, or the body    *)
(* broke off after the headers had already been recorded as a success.     *)
Fail(r) ==
    /\ request[r].pc \in {"forwarding", "streaming"}
    /\ upstream = "down"
    /\ request' = [request EXCEPT ![r] = Idle]
    /\ failure' = [failure EXCEPT ![r] =
            IF request[r].circuitBreakerEnabled THEN NewTask ELSE NoTask]
    /\ UNCHANGED <<route, version, success, upstream>>

(* The stream ends, or the client closes it. *)
StreamEnds(r) ==
    /\ request[r].pc = "streaming"
    /\ request' = [request EXCEPT ![r] = Idle]
    /\ UNCHANGED <<route, version, success, failure, upstream>>

------------------------------------------------------------------------------
(* recordSuccess *)

RecordSuccessRead(r) ==
    /\ success[r].pc = "read"
    /\ success' = [success EXCEPT ![r] =
            IF route.circuitBreakerEnabled /\ route.cbState # "OPEN"
              THEN [NoTask EXCEPT !.pc = "write", !.cbState = route.cbState]
              ELSE NoTask]
    /\ UNCHANGED <<route, version, request, failure, upstream>>

SuccessOnlyCounts(row, task) == [row EXCEPT !.cbFailureCount = 0]

SuccessWrite(row, task) ==
    IF task.cbState = "HALF_OPEN" THEN ResetCircuitBreaker(row)
                                  ELSE [row EXCEPT !.cbFailureCount = 0]

RecordSuccessWrite(r) ==
    /\ success[r].pc = "write"
    /\ route' = SuccessWrite(route, success[r])
    /\ success' = [success EXCEPT ![r] = NoTask]
    /\ UNCHANGED <<version, request, failure, upstream>>

(* recordFailure *)

RecordFailureRead(r) ==
    /\ failure[r].pc = "read"
    /\ failure' = [failure EXCEPT ![r] =
            IF route.circuitBreakerEnabled
              THEN [pc |-> "write", cbState |-> route.cbState,
                    count |-> route.cbFailureCount]
              ELSE NoTask]
    /\ UNCHANGED <<route, version, request, success, upstream>>

FailureIncrements(row, task) ==
    IF task.cbState = "HALF_OPEN" THEN OpenNow(row)
    ELSE IF task.count + 1 >= Threshold
           THEN [OpenNow(row) EXCEPT !.cbFailureCount = Threshold]
           ELSE [row EXCEPT !.cbFailureCount = @ + 1]

(* A failure seen in HALF_OPEN reopens.  Any other one counts, on the      *)
(* count that was read, and opens at the threshold: also when the breaker  *)
(* is OPEN already, which restarts its recovery timeout.                   *)
FailureWrite(row, task) ==
    IF task.cbState = "HALF_OPEN" THEN OpenNow(row)
    ELSE IF task.count + 1 >= Threshold
           THEN [OpenNow(row) EXCEPT !.cbFailureCount = Threshold]
           ELSE [row EXCEPT !.cbFailureCount = task.count + 1]

RecordFailureWrite(r) ==
    /\ failure[r].pc = "write"
    /\ route' = FailureWrite(route, failure[r])
    /\ failure' = [failure EXCEPT ![r] = NoTask]
    /\ UNCHANGED <<version, request, success, upstream>>

(* Both are called with .catch(() => {}): a database error at either       *)
(* statement, or the end of the process, loses the rest of the task.       *)
LoseTask(r) ==
    /\ \/ /\ success[r].pc # "none"
          /\ success' = [success EXCEPT ![r] = NoTask]
          /\ UNCHANGED failure
       \/ /\ failure[r].pc # "none"
          /\ failure' = [failure EXCEPT ![r] = NoTask]
          /\ UNCHANGED success
    /\ UNCHANGED <<route, version, request, upstream>>

------------------------------------------------------------------------------
(* The environment *)

(* updateRoute: a configuration change, of circuitBreakerEnabled or of     *)
(* another field; the whole row, runtime columns included, is saved as the *)
(* new version's snapshot (tracked where versions are restored at all).    *)
UpdateRoute ==
    /\ \E e \in BOOLEAN : route' = [route EXCEPT !.circuitBreakerEnabled = e]
    /\ version' = IF Restores THEN route' ELSE version
    /\ UNCHANGED <<request, success, failure, upstream>>

(* restoreRouteVersion hands the snapshot to updateRoute, which writes all *)
(* its columns back, the breaker's runtime columns too.                    *)
RestoreRouteVersion ==
    /\ Restores
    /\ route' = version
    /\ UNCHANGED <<version, request, success, failure, upstream>>

Older(e) == IF e = Null THEN Null
            ELSE IF e < RecoveryTimeout THEN e + 1 ELSE e

(* One unit of time passes, for every recorded cbOpenedAt. *)
Tick ==
    /\ route' = [route EXCEPT !.cbOpenedAt = Older(route.cbOpenedAt)]
    /\ version' = [version EXCEPT !.cbOpenedAt = Older(version.cbOpenedAt)]
    /\ request' = [r \in Requests |->
            [request[r] EXCEPT !.cbOpenedAt = Older(request[r].cbOpenedAt)]]
    /\ UNCHANGED <<success, failure, upstream>>

(* The target goes down or comes back (external). *)
UpstreamChanges ==
    /\ upstream' \in {"up", "down"} \ {upstream}
    /\ UNCHANGED <<route, version, request, success, failure>>

Next ==
    \/ \E r \in Requests :
          \/ Arrive(r) \/ Admit(r) \/ Probe(r) \/ Reject(r) \/ Abandon(r)
          \/ Respond(r) \/ Fail(r) \/ StreamEnds(r)
          \/ RecordSuccessRead(r) \/ RecordSuccessWrite(r)
          \/ RecordFailureRead(r) \/ RecordFailureWrite(r)
          \/ LoseTask(r)
    \/ UpdateRoute \/ RestoreRouteVersion
    \/ Tick \/ UpstreamChanges

Spec == Init /\ [][Next]_vars

(* Traffic keeps arriving, requests and tasks that run make progress, and  *)
(* neither database errors nor refusals hit every single attempt.          *)
Fairness ==
    /\ WF_vars(Tick)
    /\ \A r \in Requests :
          /\ WF_vars(\/ Arrive(r) \/ Reject(r) \/ Fail(r) \/ StreamEnds(r)
                     \/ RecordFailureRead(r) \/ RecordFailureWrite(r))
          /\ SF_vars(Admit(r) \/ Probe(r))
          /\ SF_vars(Respond(r))
          /\ SF_vars(RecordSuccessRead(r))
          /\ SF_vars(RecordSuccessWrite(r))

FairSpec == Spec /\ Fairness

------------------------------------------------------------------------------
(* Properties *)

(* An OPEN row always says since when, so that the branch of               *)
(* checkCircuitBreaker marked "Shouldn't happen" never runs, and a CLOSED  *)
(* row carries no stale date: whatever half-finished writes of overlapping *)
(* requests leave behind, and whatever version is restored.                *)
OpenedAtMatchesState ==
    /\ route.cbState = "OPEN" => route.cbOpenedAt # Null
    /\ route.cbState = "CLOSED" => route.cbOpenedAt = Null

(* A CLOSED breaker is below its threshold: no order of lost updates of    *)
(* recordFailure and recordSuccess leaves a breaker that reached the       *)
(* threshold without opening it.                                           *)
ClosedBelowThreshold ==
    route.cbState = "CLOSED" => route.cbFailureCount < Threshold

(* The breaker does not lock traffic out for good: while requests keep     *)
(* arriving, an OPEN breaker is half-opened (or switched off), although    *)
(* late failures may restart its timeout.                                  *)
OpenIsProbed ==
    (route.cbState = "OPEN" /\ route.circuitBreakerEnabled)
        ~> (route.cbState # "OPEN" \/ ~route.circuitBreakerEnabled)

(* Once the target answers again for good, the breaker closes and stays    *)
(* closed: failures recorded late, lost tasks and stale HALF_OPEN writes   *)
(* reopen it at most finitely often.  (Version restores can.)              *)
Recovers ==
    <>[](upstream = "up" /\ route.circuitBreakerEnabled)
        => <>[](route.cbState = "CLOSED")

(* "HALF_OPEN: Allow one request through." *)
HalfOpenAdmitsOne ==
    \A r, s \in Requests :
        (/\ request[r].pc = "forwarding" /\ request[r].cbState = "HALF_OPEN"
         /\ request[s].pc = "forwarding" /\ request[s].cbState = "HALF_OPEN")
        => r = s

(* The breaker follows the state machine of its header comment.            *)
Documented == INSTANCE BreakerContract WITH
    cbState <- route.cbState,
    cbFailureCount <- route.cbFailureCount,
    cbOpenedAt <- route.cbOpenedAt

FollowsContract == Documented!Contract

==============================================================================
