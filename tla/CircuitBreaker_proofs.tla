------------------------ MODULE CircuitBreaker_proofs ------------------------
(***************************************************************************)
(* What CircuitBreaker keeps for every number of overlapping requests,     *)
(* every threshold and every recovery timeout.                             *)
(***************************************************************************)
EXTENDS CircuitBreaker, TLAPS

(* What the proofs say of a row.  The live row is only as good as the      *)
(* version a restore may write over it, so the invariant covers both.      *)
RowOK(row) ==
    /\ row.cbState = "OPEN" => row.cbOpenedAt # Null
    /\ row.cbState = "CLOSED" => row.cbOpenedAt = Null
    /\ row.cbState = "CLOSED" => row.cbFailureCount < Threshold

IInv == TypeOK /\ RowOK(route) /\ RowOK(version)

USE ThresholdAssumption, RecoveryAssumption, NullAssumption

------------------------------------------------------------------------------
(* The values the updates write are of the columns' types. *)
LEMMA ColumnValues ==
    /\ \A x \in {"CLOSED", "OPEN", "HALF_OPEN"} : x \in CBState
    /\ 0 \in Count /\ Threshold \in Count
    /\ 0 \in Elapsed /\ Null \in Elapsed /\ 0 # Null
  BY DEF CBState, Count, Elapsed

(* resetCircuitBreaker makes any row a good one. *)
LEMMA ResetOK ==
    ASSUME NEW row \in Row
    PROVE  ResetCircuitBreaker(row) \in Row /\ RowOK(ResetCircuitBreaker(row))
  <1>1. ResetCircuitBreaker(row) \in Row
    BY ColumnValues DEF ResetCircuitBreaker, Row
  <1>2. RowOK(ResetCircuitBreaker(row))
    BY DEF ResetCircuitBreaker, RowOK, Row
  <1> QED BY <1>1, <1>2

(* The update that opens the breaker makes any row a good one. *)
LEMMA OpenOK ==
    ASSUME NEW row \in Row
    PROVE  OpenNow(row) \in Row /\ RowOK(OpenNow(row))
  <1>1. OpenNow(row) \in Row
    BY ColumnValues DEF OpenNow, Row
  <1>2. RowOK(OpenNow(row))
    BY ColumnValues DEF OpenNow, RowOK, Row
  <1> QED BY <1>1, <1>2

(* A HALF_OPEN write, however stale its snapshot, keeps a row good. *)
LEMMA HalfOpenOK ==
    ASSUME NEW row \in Row, NEW snap \in Request, RowOK(row)
    PROVE  /\ HalfOpenWrite(row, snap) \in Row
           /\ RowOK(HalfOpenWrite(row, snap))
  <1>1. CASE snap.cbOpenedAt = Null
    BY <1>1, ResetOK DEF HalfOpenWrite
  <1>2. CASE snap.cbOpenedAt # Null
    BY <1>2 DEF HalfOpenWrite, RowOK, Row, CBState, Elapsed, Count
  <1> QED BY <1>1, <1>2

(* recordSuccess keeps a row good, whatever it read before. *)
LEMMA SuccessOK ==
    ASSUME NEW row \in Row, NEW task \in Task, RowOK(row)
    PROVE  SuccessWrite(row, task) \in Row /\ RowOK(SuccessWrite(row, task))
  <1>1. CASE task.cbState = "HALF_OPEN"
    BY <1>1, ResetOK DEF SuccessWrite
  <1>2. CASE task.cbState # "HALF_OPEN"
    BY <1>2 DEF SuccessWrite, RowOK, Row, CBState, Elapsed, Count
  <1> QED BY <1>1, <1>2

(* recordFailure keeps a row good, whatever it read before: a count that   *)
(* reaches the threshold is only ever written together with OPEN.          *)
LEMMA FailureOK ==
    ASSUME NEW row \in Row, NEW task \in Task, RowOK(row)
    PROVE  FailureWrite(row, task) \in Row /\ RowOK(FailureWrite(row, task))
  <1>1. CASE task.cbState = "HALF_OPEN"
    BY <1>1, OpenOK DEF FailureWrite
  <1>2. CASE task.cbState # "HALF_OPEN" /\ task.count + 1 >= Threshold
    <2>1. FailureWrite(row, task) = [OpenNow(row) EXCEPT !.cbFailureCount = Threshold]
      BY <1>2 DEF FailureWrite
    <2>2. FailureWrite(row, task) \in Row
      BY <2>1, OpenOK, ColumnValues DEF Row
    <2>3. OpenNow(row).cbState = "OPEN" /\ OpenNow(row).cbOpenedAt = 0
      BY DEF OpenNow, Row
    <2>4. /\ FailureWrite(row, task).cbState = "OPEN"
          /\ FailureWrite(row, task).cbOpenedAt = 0
      BY <2>1, <2>3, OpenOK DEF Row
    <2> QED BY <2>2, <2>4, ColumnValues DEF RowOK
  <1>3. CASE task.cbState # "HALF_OPEN" /\ ~(task.count + 1 >= Threshold)
    <2>1. task.count + 1 \in Count /\ task.count + 1 < Threshold
      BY <1>3 DEF Task, Count
    <2> QED BY <1>3, <2>1 DEF FailureWrite, RowOK, Row
  <1> QED BY <1>1, <1>2, <1>3

(* The passing of time keeps a row good. *)
LEMMA OlderOK ==
    ASSUME NEW e \in Elapsed
    PROVE  Older(e) \in Elapsed /\ (Older(e) = Null <=> e = Null)
  BY DEF Older, Elapsed

------------------------------------------------------------------------------
(* The values the actions put into requests and tasks have their types. *)
LEMMA RecordTypes ==
    /\ Idle \in Request
    /\ NoTask \in Task
    /\ NewTask \in Task
    /\ NewRoute \in Row
    /\ \A s \in Request : Forwarded(s) \in Request
  <1>1. Idle \in Request /\ NoTask \in Task /\ NewTask \in Task /\ NewRoute \in Row
    BY DEF Idle, NoTask, NewTask, NewRoute, Request, Task, Row, CBState, Elapsed, Count
  <1>2. ASSUME NEW s \in Request PROVE Forwarded(s) \in Request
    <2>1. Verdict(s) \in CBState /\ s.circuitBreakerEnabled \in BOOLEAN
      BY DEF Verdict, Request, CBState
    <2> QED BY <2>1 DEF Forwarded, Idle, Request, Elapsed
  <1> QED BY <1>1, <1>2

LEMMA InitInv == Init => IInv
  BY RecordTypes DEF Init, IInv, TypeOK, RowOK, NewRoute

(* No step of a request, a task or the environment breaks the invariant. *)
LEMMA NextInv == IInv /\ [Next]_vars => IInv'
  <1> SUFFICES ASSUME IInv, [Next]_vars PROVE IInv'
    OBVIOUS
  <1> USE DEF IInv
  <1>1. ASSUME NEW r \in Requests, Arrive(r) PROVE IInv'
    <2>1. [pc |-> "checking", circuitBreakerEnabled |-> route.circuitBreakerEnabled,
           cbState |-> route.cbState, cbOpenedAt |-> route.cbOpenedAt] \in Request
      BY DEF TypeOK, Row, Request
    <2> QED BY <1>1, <2>1 DEF Arrive, TypeOK
  <1>2. ASSUME NEW r \in Requests, Admit(r) PROVE IInv'
    BY <1>2, RecordTypes DEF Admit, TypeOK
  <1>3. ASSUME NEW r \in Requests, Probe(r) PROVE IInv'
    <2>1. route' \in Row /\ RowOK(route')
      BY <1>3, HalfOpenOK DEF Probe, TypeOK
    <2> QED BY <1>3, <2>1, RecordTypes DEF Probe, TypeOK
  <1>4. ASSUME NEW r \in Requests, Reject(r) PROVE IInv'
    BY <1>4, RecordTypes DEF Reject, TypeOK
  <1>5. ASSUME NEW r \in Requests, Abandon(r) PROVE IInv'
    BY <1>5, RecordTypes DEF Abandon, TypeOK
  <1>6. ASSUME NEW r \in Requests, Respond(r) PROVE IInv'
    <2>1. [request[r] EXCEPT !.pc = "streaming"] \in Request
      BY DEF TypeOK, Request
    <2> QED BY <1>6, <2>1, RecordTypes DEF Respond, TypeOK
  <1>7. ASSUME NEW r \in Requests, Fail(r) PROVE IInv'
    BY <1>7, RecordTypes DEF Fail, TypeOK
  <1>8. ASSUME NEW r \in Requests, StreamEnds(r) PROVE IInv'
    BY <1>8, RecordTypes DEF StreamEnds, TypeOK
  <1>9. ASSUME NEW r \in Requests, RecordSuccessRead(r) PROVE IInv'
    <2>1. [NoTask EXCEPT !.pc = "write", !.cbState = route.cbState] \in Task
      BY RecordTypes DEF TypeOK, Row, Task
    <2> QED BY <1>9, <2>1, RecordTypes DEF RecordSuccessRead, TypeOK
  <1>10. ASSUME NEW r \in Requests, RecordSuccessWrite(r) PROVE IInv'
    <2>1. route' \in Row /\ RowOK(route')
      BY <1>10, SuccessOK DEF RecordSuccessWrite, TypeOK
    <2> QED BY <1>10, <2>1, RecordTypes DEF RecordSuccessWrite, TypeOK
  <1>11. ASSUME NEW r \in Requests, RecordFailureRead(r) PROVE IInv'
    <2>1. [pc |-> "write", cbState |-> route.cbState,
           count |-> route.cbFailureCount] \in Task
      BY DEF TypeOK, Row, Task
    <2> QED BY <1>11, <2>1, RecordTypes DEF RecordFailureRead, TypeOK
  <1>12. ASSUME NEW r \in Requests, RecordFailureWrite(r) PROVE IInv'
    <2>1. route' \in Row /\ RowOK(route')
      BY <1>12, FailureOK DEF RecordFailureWrite, TypeOK
    <2> QED BY <1>12, <2>1, RecordTypes DEF RecordFailureWrite, TypeOK
  <1>13. ASSUME NEW r \in Requests, LoseTask(r) PROVE IInv'
    BY <1>13, RecordTypes DEF LoseTask, TypeOK
  <1>14. CASE UpdateRoute
    <2>1. PICK e \in BOOLEAN : route' = [route EXCEPT !.circuitBreakerEnabled = e]
      BY <1>14 DEF UpdateRoute
    <2>2. route' \in Row /\ RowOK(route')
      BY <2>1 DEF TypeOK, RowOK, Row
    <2> QED BY <1>14, <2>2 DEF UpdateRoute, TypeOK
  <1>15. CASE RestoreRouteVersion
    BY <1>15 DEF RestoreRouteVersion, TypeOK
  <1>16. CASE Tick
    <2>1. ASSUME NEW row \in Row, RowOK(row)
          PROVE  /\ [row EXCEPT !.cbOpenedAt = Older(row.cbOpenedAt)] \in Row
                 /\ RowOK([row EXCEPT !.cbOpenedAt = Older(row.cbOpenedAt)])
      <3>1. row.cbOpenedAt \in Elapsed
        BY DEF Row
      <3> QED BY <2>1, <3>1, OlderOK DEF Row, RowOK
    <2>2. ASSUME NEW r \in Requests
          PROVE  [request[r] EXCEPT !.cbOpenedAt = Older(request[r].cbOpenedAt)]
                    \in Request
      <3>1. request[r] \in Request /\ request[r].cbOpenedAt \in Elapsed
        BY DEF TypeOK, Request
      <3> QED BY <3>1, OlderOK DEF Request
    <2>3. route' \in Row /\ RowOK(route') /\ version' \in Row /\ RowOK(version')
      BY <1>16, <2>1 DEF Tick, TypeOK
    <2>4. request' \in [Requests -> Request]
      BY <1>16, <2>2 DEF Tick
    <2> QED BY <1>16, <2>3, <2>4 DEF Tick, TypeOK
  <1>17. CASE UpstreamChanges
    BY <1>17 DEF UpstreamChanges, TypeOK
  <1>18. CASE UNCHANGED vars
    BY <1>18 DEF vars, TypeOK
  <1> QED
    BY <1>1, <1>2, <1>3, <1>4, <1>5, <1>6, <1>7, <1>8, <1>9, <1>10, <1>11,
       <1>12, <1>13, <1>14, <1>15, <1>16, <1>17, <1>18 DEF Next

(* Every reachable state satisfies the inductive invariant. *)
THEOREM InvariantHolds == Spec => []IInv
  BY InitInv, NextInv, PTL DEF Spec

(* The columns, the requests' snapshots and the tasks keep their types. *)
THEOREM TypeCorrect == Spec => []TypeOK
  BY InvariantHolds, PTL DEF IInv

(* checkCircuitBreaker never meets an OPEN row without cbOpenedAt, and no  *)
(* CLOSED row keeps a date, with any number of overlapping requests.       *)
THEOREM OpenedAtIsRight == Spec => []OpenedAtMatchesState
  <1>1. IInv => OpenedAtMatchesState
    BY DEF IInv, RowOK, OpenedAtMatchesState
  <1> QED BY <1>1, InvariantHolds, PTL

(* No interleaving of recordSuccess and recordFailure leaves a breaker     *)
(* CLOSED at or above its threshold.                                       *)
THEOREM ThresholdIsRespected == Spec => []ClosedBelowThreshold
  <1>1. IInv => ClosedBelowThreshold
    BY DEF IInv, RowOK, ClosedBelowThreshold
  <1> QED BY <1>1, InvariantHolds, PTL

------------------------------------------------------------------------------
(***************************************************************************)
(* One request at a time.  When requests do not overlap, answers are not   *)
(* streamed and no version is restored, the breaker is the one its header  *)
(* comment describes.  The invariant says why: what the slot q read last   *)
(* is still what the row holds when it writes.                             *)
(***************************************************************************)
SerialInv(q) ==
    /\ IInv
    /\ request[q].pc # "streaming"
    /\ request[q].pc # "idle" => success[q].pc = "none" /\ failure[q].pc = "none"
    /\ success[q].pc = "none" \/ failure[q].pc = "none"
    /\ request[q].pc = "checking" =>
          /\ request[q].cbState = route.cbState
          /\ request[q].cbOpenedAt = route.cbOpenedAt
    /\ (request[q].pc = "forwarding" /\ request[q].circuitBreakerEnabled)
          => route.cbState # "OPEN"
    /\ (success[q].pc # "none" \/ failure[q].pc # "none") => route.cbState # "OPEN"
    /\ success[q].pc = "write" => success[q].cbState = route.cbState
    /\ failure[q].pc = "write" =>
          /\ failure[q].cbState = route.cbState
          /\ failure[q].count = route.cbFailureCount

(* The columns BreakerContract talks about. *)
SameColumns ==
    /\ route'.cbState = route.cbState
    /\ route'.cbFailureCount = route.cbFailureCount
    /\ route'.cbOpenedAt = route.cbOpenedAt

LEMMA SerialInit == ASSUME NEW q \in Requests PROVE Init => SerialInv(q)
  BY InitInv DEF Init, SerialInv, Idle, NoTask

(* One step of the only slot, or of the environment, is a step of the      *)
(* contract or leaves the breaker's columns alone, and keeps SerialInv.    *)
LEMMA SerialStep ==
    ASSUME NEW q, Requests = {q}, ~Streaming, ~Restores,
           SerialInv(q), [Next]_vars
    PROVE  SerialInv(q)' /\ (Documented!CNext \/ SameColumns)
  <1>inv. IInv'
    BY NextInv DEF SerialInv
  <1>typ. /\ q \in Requests
          /\ route \in Row /\ route' \in Row
          /\ request[q] \in Request /\ success[q] \in Task /\ failure[q] \in Task
          /\ request \in [Requests -> Request]
          /\ success \in [Requests -> Task] /\ failure \in [Requests -> Task]
          /\ RowOK(route)
    BY <1>inv DEF SerialInv, IInv, TypeOK
  <1>1. CASE Arrive(q)
    <2>1. /\ request'[q].pc = "checking"
          /\ request'[q].cbState = route.cbState
          /\ request'[q].cbOpenedAt = route.cbOpenedAt
      BY <1>1, <1>typ DEF Arrive
    <2> QED BY <1>1, <1>inv, <2>1 DEF Arrive, SerialInv, SameColumns
  <1>2. CASE Admit(q)
    <2>1. /\ request'[q].pc = "forwarding"
          /\ request'[q].circuitBreakerEnabled = request[q].circuitBreakerEnabled
      BY <1>2, <1>typ DEF Admit, Forwarded, Idle
    <2>2. request[q].circuitBreakerEnabled => route.cbState # "OPEN"
      <3>1. request[q].circuitBreakerEnabled => request[q].cbState # "OPEN"
        <4>1. request[q].cbOpenedAt = Null \/ request[q].cbOpenedAt \in Nat
          BY <1>typ DEF Request, Elapsed
        <4> QED BY <1>2, <4>1 DEF Admit, MayProbe, Blocked
      <3> QED BY <1>2, <3>1 DEF Admit, SerialInv
    <2> QED BY <1>2, <1>inv, <2>1, <2>2 DEF Admit, SerialInv, SameColumns
  <1>3. CASE Probe(q)
    <2>1. /\ route.cbState = "OPEN"
          /\ route.cbOpenedAt # Null
          /\ route.cbOpenedAt >= RecoveryTimeout
          /\ request[q].cbOpenedAt # Null
      BY <1>3, <1>typ DEF Probe, MayProbe, SerialInv, RowOK
    <2>2. route' = [route EXCEPT !.cbState = "HALF_OPEN"]
      BY <1>3, <2>1 DEF Probe, HalfOpenWrite
    <2>3. /\ route'.cbState = "HALF_OPEN"
          /\ route'.cbFailureCount = route.cbFailureCount
          /\ route'.cbOpenedAt = route.cbOpenedAt
      BY <2>2, <1>typ DEF Row
    <2>4. Documented!CNext
      BY <2>1, <2>3 DEF Documented!CNext, Documented!HalfOpen
    <2>5. request'[q].pc = "forwarding"
      BY <1>3, <1>typ DEF Probe, Forwarded, Idle
    <2> QED BY <1>3, <1>inv, <2>3, <2>4, <2>5 DEF Probe, SerialInv
  <1>4. CASE Reject(q) \/ Abandon(q)
    <2>1. request'[q].pc = "idle"
      BY <1>4, <1>typ DEF Reject, Abandon, Idle
    <2> QED BY <1>4, <1>inv, <2>1 DEF Reject, Abandon, SerialInv, SameColumns
  <1>5. CASE Respond(q)
    <2>1. request'[q].pc = "idle"
      BY <1>5, <1>typ DEF Respond, Idle
    <2>2. IF request[q].circuitBreakerEnabled THEN success'[q].pc = "read"
                                              ELSE success'[q].pc = "none"
      BY <1>5, <1>typ DEF Respond, NewTask, NoTask
    <2> QED BY <1>5, <1>inv, <2>1, <2>2 DEF Respond, SerialInv, SameColumns
  <1>6. CASE Fail(q)
    <2>1. request'[q].pc = "idle"
      BY <1>6, <1>typ DEF Fail, Idle
    <2>2. IF request[q].circuitBreakerEnabled THEN failure'[q].pc = "read"
                                              ELSE failure'[q].pc = "none"
      BY <1>6, <1>typ DEF Fail, NewTask, NoTask
    <2> QED BY <1>6, <1>inv, <2>1, <2>2 DEF Fail, SerialInv, SameColumns
  <1>7. CASE StreamEnds(q)
    BY <1>7 DEF StreamEnds, SerialInv
  <1>8. CASE RecordSuccessRead(q)
    <2>1. \/ success'[q].pc = "none"
          \/ success'[q].pc = "write" /\ success'[q].cbState = route.cbState
      BY <1>8, <1>typ DEF RecordSuccessRead, NoTask
    <2> QED BY <1>8, <1>inv, <2>1 DEF RecordSuccessRead, SerialInv, SameColumns
  <1>9. CASE RecordSuccessWrite(q)
    <2>1. success'[q].pc = "none" /\ failure'[q].pc = "none" /\ request'[q].pc = "idle"
      BY <1>9, <1>typ DEF RecordSuccessWrite, NoTask, SerialInv, Request
    <2>2. CASE success[q].cbState = "HALF_OPEN"
      <3>1. route' = ResetCircuitBreaker(route) /\ route.cbState = "HALF_OPEN"
        BY <1>9, <2>2 DEF RecordSuccessWrite, SuccessWrite, SerialInv
      <3>2. /\ route'.cbState = "CLOSED" /\ route'.cbFailureCount = 0
            /\ route'.cbOpenedAt = Null
        BY <3>1, <1>typ DEF ResetCircuitBreaker, Row
      <3>3. Documented!CNext
        BY <3>1, <3>2 DEF Documented!CNext, Documented!Close
      <3> QED BY <1>inv, <2>1, <3>3 DEF SerialInv
    <2>3. CASE success[q].cbState # "HALF_OPEN"
      <3>1. route' = [route EXCEPT !.cbFailureCount = 0] /\ route.cbState = "CLOSED"
        BY <1>9, <1>typ, <2>3
        DEF RecordSuccessWrite, SuccessWrite, SerialInv, Row, CBState
      <3>2. /\ route'.cbState = "CLOSED" /\ route'.cbFailureCount = 0
            /\ route'.cbOpenedAt = route.cbOpenedAt
        BY <3>1, <1>typ DEF Row
      <3>3. Documented!CNext
        BY <3>1, <3>2 DEF Documented!CNext, Documented!CountSuccess
      <3> QED BY <1>inv, <2>1, <3>3 DEF SerialInv
    <2> QED BY <2>2, <2>3
  <1>10. CASE RecordFailureRead(q)
    <2>1. \/ failure'[q].pc = "none"
          \/ /\ failure'[q].pc = "write"
             /\ failure'[q].cbState = route.cbState
             /\ failure'[q].count = route.cbFailureCount
      BY <1>10, <1>typ DEF RecordFailureRead, NoTask
    <2> QED BY <1>10, <1>inv, <2>1 DEF RecordFailureRead, SerialInv, SameColumns
  <1>11. CASE RecordFailureWrite(q)
    <2>1. failure'[q].pc = "none" /\ success'[q].pc = "none" /\ request'[q].pc = "idle"
      BY <1>11, <1>typ DEF RecordFailureWrite, NoTask, SerialInv, Request
    <2>2. CASE route.cbState = "HALF_OPEN"
      <3>1. route' = OpenNow(route)
        BY <1>11, <2>2 DEF RecordFailureWrite, FailureWrite, SerialInv
      <3>2. /\ route'.cbState = "OPEN" /\ route'.cbOpenedAt = 0
            /\ route'.cbFailureCount = route.cbFailureCount
        BY <3>1, <1>typ DEF OpenNow, Row
      <3>3. Documented!CNext
        BY <2>2, <3>2 DEF Documented!CNext, Documented!Reopen
      <3> QED BY <1>inv, <2>1, <3>3 DEF SerialInv
    <2>3. CASE route.cbState # "HALF_OPEN" /\ route.cbFailureCount + 1 >= Threshold
      <3>1. /\ route' = [OpenNow(route) EXCEPT !.cbFailureCount = Threshold]
            /\ route.cbState = "CLOSED"
        BY <1>11, <1>typ, <2>3
        DEF RecordFailureWrite, FailureWrite, SerialInv, Row, CBState
      <3>2. /\ route'.cbState = OpenNow(route).cbState
            /\ route'.cbOpenedAt = OpenNow(route).cbOpenedAt
            /\ route'.cbFailureCount = Threshold
        BY <3>1, <1>typ, OpenOK DEF Row
      <3>3. OpenNow(route).cbState = "OPEN" /\ OpenNow(route).cbOpenedAt = 0
        BY <1>typ DEF OpenNow, Row
      <3>4. Documented!CNext
        BY <2>3, <3>1, <3>2, <3>3 DEF Documented!CNext, Documented!Trip
      <3> QED BY <1>inv, <2>1, <3>4 DEF SerialInv
    <2>4. CASE route.cbState # "HALF_OPEN" /\ ~(route.cbFailureCount + 1 >= Threshold)
      <3>1. /\ route' = [route EXCEPT !.cbFailureCount = route.cbFailureCount + 1]
            /\ route.cbState = "CLOSED"
        BY <1>11, <1>typ, <2>4
        DEF RecordFailureWrite, FailureWrite, SerialInv, Row, CBState
      <3>2. /\ route'.cbState = route.cbState
            /\ route'.cbOpenedAt = route.cbOpenedAt
            /\ route'.cbFailureCount = route.cbFailureCount + 1
        BY <3>1, <1>typ DEF Row
      <3>3. route.cbFailureCount + 1 < Threshold
        BY <2>4, <1>typ DEF Row, Count
      <3>4. Documented!CNext
        BY <3>1, <3>2, <3>3 DEF Documented!CNext, Documented!CountFailure
      <3> QED BY <1>inv, <2>1, <3>4 DEF SerialInv
    <2> QED BY <2>2, <2>3, <2>4
  <1>12. CASE LoseTask(q)
    <2>1. success'[q].pc \in {"none", success[q].pc} /\ success'[q] \in {NoTask, success[q]}
      BY <1>12, <1>typ DEF LoseTask, NoTask
    <2>2. failure'[q].pc \in {"none", failure[q].pc} /\ failure'[q] \in {NoTask, failure[q]}
      BY <1>12, <1>typ DEF LoseTask, NoTask
    <2>3. NoTask.pc = "none"
      BY DEF NoTask
    <2> QED BY <1>12, <1>inv, <2>1, <2>2, <2>3 DEF LoseTask, SerialInv, SameColumns
  <1>13. CASE UpdateRoute
    <2>1. SameColumns
      BY <1>13, <1>typ DEF UpdateRoute, SameColumns, Row
    <2> QED BY <1>13, <1>inv, <2>1 DEF UpdateRoute, SameColumns, SerialInv
  <1>14. CASE Tick
    <2>1. /\ route'.cbState = route.cbState
          /\ route'.cbFailureCount = route.cbFailureCount
          /\ route'.cbOpenedAt = Older(route.cbOpenedAt)
      BY <1>14, <1>typ DEF Tick, Row
    <2>2. /\ request'[q].pc = request[q].pc
          /\ request'[q].circuitBreakerEnabled = request[q].circuitBreakerEnabled
          /\ request'[q].cbState = request[q].cbState
          /\ request'[q].cbOpenedAt = Older(request[q].cbOpenedAt)
      BY <1>14, <1>typ DEF Tick, Request
    <2>3. Documented!Wait \/ SameColumns
      <3>1. route.cbOpenedAt \in Elapsed
        BY <1>typ DEF Row
      <3> QED BY <2>1, <3>1 DEF Documented!Wait, SameColumns, Older, Elapsed
    <2>4. Documented!CNext \/ SameColumns
      BY <2>3 DEF Documented!CNext
    <2>5. SerialInv(q)'
      BY <1>14, <1>inv, <2>1, <2>2 DEF Tick, SerialInv
    <2> QED BY <2>4, <2>5
  <1>15. CASE UpstreamChanges \/ UNCHANGED vars
    BY <1>15, <1>inv DEF UpstreamChanges, vars, SerialInv, SameColumns
  <1> QED
    BY <1>1, <1>2, <1>3, <1>4, <1>5, <1>6, <1>7, <1>8, <1>9, <1>10, <1>11,
       <1>12, <1>13, <1>14, <1>15 DEF Next, RestoreRouteVersion

(* Requests that do not overlap see exactly the breaker of the header      *)
(* comment of circuitBreakerService.ts, for every threshold and timeout.   *)
THEOREM SerialFollowsContract ==
    ASSUME NEW q, Requests = {q}, ~Streaming, ~Restores
    PROVE  Spec => FollowsContract
  <1>1. Init => Documented!CInit
    BY DEF Init, NewRoute, Documented!CInit
  <1>2. Init => SerialInv(q)
    BY SerialInit
  <1>3. SerialInv(q) /\ [Next]_vars
          => SerialInv(q)' /\ [Documented!CNext]_(Documented!contractVars)
    BY SerialStep DEF SameColumns, Documented!contractVars
  <1> QED
    BY <1>1, <1>2, <1>3, PTL DEF Spec, FollowsContract, Documented!Contract

------------------------------------------------------------------------------
(***************************************************************************)
(* Requests that overlap.  The contract's steps are then no longer the     *)
(* code's: a stale snapshot half-opens a closed row, a late failure        *)
(* restarts the timeout of an open one.  What remains of the contract is   *)
(* that nothing opens the breaker but failures, and that the repair of an  *)
(* undated OPEN row is never called for.                                   *)
(***************************************************************************)

(* A snapshot that says OPEN says since when. *)
SnapshotsDated ==
    \A r \in Requests : request[r].cbState = "OPEN" => request[r].cbOpenedAt # Null

DatedInv == IInv /\ SnapshotsDated

LEMMA ForwardedState ==
    ASSUME NEW snap \in Request
    PROVE  /\ Forwarded(snap).cbState # "OPEN"
           /\ Forwarded(snap).cbState # "CLOSED" => snap.cbState # "CLOSED"
  <1>1. Forwarded(snap).cbState = Verdict(snap)
    BY DEF Forwarded, Idle
  <1> QED BY <1>1 DEF Verdict

(* What a step does to the request in one slot. *)
LEMMA RequestSteps ==
    ASSUME TypeOK, Next, NEW r \in Requests
    PROVE  \/ request'[r].cbState = "CLOSED"
           \/ /\ request'[r].cbState = route.cbState
              /\ request'[r].cbOpenedAt = route.cbOpenedAt
           \/ /\ request'[r].cbState # "OPEN"
              /\ request[r].cbState # "CLOSED"
           \/ /\ request'[r].cbState = request[r].cbState
              /\ request'[r].cbOpenedAt \in {request[r].cbOpenedAt, Older(request[r].cbOpenedAt)}
  <1>typ. request \in [Requests -> Request] /\ request[r] \in Request
    BY DEF TypeOK
  <1>1. ASSUME NEW q \in Requests, Arrive(q)
        PROVE  \/ request'[r] = request[r]
               \/ /\ request'[r].cbState = route.cbState
                  /\ request'[r].cbOpenedAt = route.cbOpenedAt
    BY <1>1, <1>typ DEF Arrive
  <1>2. ASSUME NEW q \in Requests, Admit(q) \/ Probe(q)
        PROVE  request'[r] = request[r] \/ request'[r] = Forwarded(request[r])
    BY <1>2, <1>typ DEF Admit, Probe
  <1>3. ASSUME NEW q \in Requests, Reject(q) \/ Abandon(q) \/ Fail(q) \/ StreamEnds(q)
        PROVE  request'[r] = request[r] \/ request'[r].cbState = "CLOSED"
    BY <1>3, <1>typ DEF Reject, Abandon, Fail, StreamEnds, Idle
  <1>4. ASSUME NEW q \in Requests, Respond(q)
        PROVE  \/ request'[r].cbState = "CLOSED"
               \/ /\ request'[r].cbState = request[r].cbState
                  /\ request'[r].cbOpenedAt = request[r].cbOpenedAt
    <2>1. CASE Streaming
      BY <1>4, <1>typ, <2>1 DEF Respond, Request
    <2>2. CASE ~Streaming
      BY <1>4, <1>typ, <2>2 DEF Respond, Idle
    <2> QED BY <2>1, <2>2
  <1>5. ASSUME NEW q \in Requests,
               \/ RecordSuccessRead(q) \/ RecordSuccessWrite(q)
               \/ RecordFailureRead(q) \/ RecordFailureWrite(q) \/ LoseTask(q)
        PROVE  request' = request
    BY <1>5 DEF RecordSuccessRead, RecordSuccessWrite, RecordFailureRead,
                RecordFailureWrite, LoseTask
  <1>6. UpdateRoute \/ RestoreRouteVersion \/ UpstreamChanges => request' = request
    BY DEF UpdateRoute, RestoreRouteVersion, UpstreamChanges
  <1>7. Tick => /\ request'[r].cbState = request[r].cbState
                /\ request'[r].cbOpenedAt = Older(request[r].cbOpenedAt)
    BY <1>typ DEF Tick, Request
  <1>8. CASE Tick
    BY <1>7, <1>8
  <1>9. CASE UpdateRoute \/ RestoreRouteVersion \/ UpstreamChanges
    BY <1>6, <1>9
  <1>10. CASE \E q \in Requests : Admit(q) \/ Probe(q)
    <2>1. CASE request'[r] = Forwarded(request[r])
      BY <1>typ, <2>1, ForwardedState
    <2> QED BY <1>2, <1>10, <2>1
  <1> QED BY <1>1, <1>3, <1>4, <1>5, <1>8, <1>9, <1>10 DEF Next

LEMMA DatedSteps == DatedInv /\ [Next]_vars => DatedInv'
  <1> SUFFICES ASSUME DatedInv, [Next]_vars PROVE DatedInv'
    OBVIOUS
  <1>1. IInv'
    BY NextInv DEF DatedInv
  <1>2. CASE UNCHANGED vars
    BY <1>1, <1>2 DEF vars, DatedInv, SnapshotsDated
  <1>3. CASE Next
    <2>1. ASSUME NEW r \in Requests, request'[r].cbState = "OPEN"
          PROVE  request'[r].cbOpenedAt # Null
      <3>1. request[r] \in Request
        BY DEF DatedInv, IInv, TypeOK
      <3>2. request[r].cbOpenedAt \in Elapsed
        BY <3>1 DEF Request
      <3>3. request[r].cbOpenedAt # Null => Older(request[r].cbOpenedAt) # Null
        BY <3>2 DEF Older, Elapsed
      <3>4. route.cbState = "OPEN" => route.cbOpenedAt # Null
        BY DEF DatedInv, IInv, RowOK
      <3>5. request[r].cbState = "OPEN" => request[r].cbOpenedAt # Null
        BY DEF DatedInv, SnapshotsDated
      <3> QED BY <1>3, <2>1, <3>3, <3>4, <3>5, RequestSteps DEF DatedInv, IInv
    <2> QED BY <1>1, <2>1 DEF DatedInv, SnapshotsDated
  <1> QED BY <1>2, <1>3

(* checkCircuitBreaker decides on a snapshot, not on the row: no snapshot, *)
(* however old, is OPEN without a date, so the branch that resets such a   *)
(* row ("Shouldn't happen, but recover gracefully") never runs.            *)
THEOREM RepairNeverRuns == Spec => []SnapshotsDated
  <1>1. Init => DatedInv
    BY InitInv DEF Init, Idle, DatedInv, SnapshotsDated
  <1>2. DatedInv => SnapshotsDated
    BY DEF DatedInv
  <1> QED BY <1>1, <1>2, DatedSteps, PTL DEF Spec

(* The failures whose recordFailure has written, counted from the start.   *)
VARIABLE recorded

countedVars == <<vars, recorded>>

CountsFailures ==
    recorded' = recorded + (IF \E r \in Requests : RecordFailureWrite(r) THEN 1 ELSE 0)

(* The breaker beside that count, which nothing in it depends on. *)
CountedSpec == Init /\ recorded = 0 /\ [][Next /\ CountsFailures]_countedVars

(* The breaker does not open before as many failures as its threshold were *)
(* written.                                                                *)
OpensOnFailuresOnly == route.cbState # "CLOSED" => recorded >= Threshold

(* A row, and what a task or a request carries, owe their state and their  *)
(* count to failures that were written.                                    *)
RowEarned(row) ==
    /\ row.cbFailureCount <= recorded
    /\ row.cbState # "CLOSED" => Threshold <= recorded

TasksEarned ==
    \A r \in Requests :
        /\ request[r].cbState # "CLOSED" => Threshold <= recorded
        /\ success[r].cbState # "CLOSED" => Threshold <= recorded
        /\ failure[r].cbState # "CLOSED" => Threshold <= recorded
        /\ failure[r].count <= recorded

EarnedInv ==
    IInv /\ recorded \in Nat /\ RowEarned(route) /\ RowEarned(version) /\ TasksEarned

(* What a step does to the tasks of one slot: they carry what the row said *)
(* or what they carried before.                                            *)
LEMMA TaskSteps ==
    ASSUME TypeOK, Next, NEW r \in Requests
    PROVE  /\ \/ success'[r].cbState = "CLOSED"
              \/ success'[r].cbState = route.cbState
              \/ success'[r] = success[r]
           /\ \/ failure'[r].cbState = "CLOSED" /\ failure'[r].count = 0
              \/ /\ failure'[r].cbState = route.cbState
                 /\ failure'[r].count = route.cbFailureCount
              \/ failure'[r] = failure[r]
  <1>typ. success \in [Requests -> Task] /\ failure \in [Requests -> Task]
    BY DEF TypeOK
  <1>new. /\ NoTask.cbState = "CLOSED" /\ NoTask.count = 0
          /\ NewTask.cbState = "CLOSED" /\ NewTask.count = 0
    BY DEF NoTask, NewTask
  <1>1. ASSUME NEW q \in Requests,
               \/ Arrive(q) \/ Admit(q) \/ Probe(q) \/ Reject(q) \/ Abandon(q) \/ StreamEnds(q)
        PROVE  success' = success /\ failure' = failure
    BY <1>1 DEF Arrive, Admit, Probe, Reject, Abandon, StreamEnds
  <1>2. UpdateRoute \/ RestoreRouteVersion \/ Tick \/ UpstreamChanges
          => success' = success /\ failure' = failure
    BY DEF UpdateRoute, RestoreRouteVersion, Tick, UpstreamChanges
  <1>3. ASSUME NEW q \in Requests, Respond(q) \/ Fail(q) \/ RecordSuccessWrite(q)
                                   \/ RecordFailureWrite(q) \/ LoseTask(q)
        PROVE  /\ success'[r] \in {success[r], NoTask, NewTask}
               /\ failure'[r] \in {failure[r], NoTask, NewTask}
    BY <1>3, <1>typ DEF Respond, Fail, RecordSuccessWrite, RecordFailureWrite, LoseTask
  <1>4. ASSUME NEW q \in Requests, RecordSuccessRead(q)
        PROVE  /\ \/ success'[r].cbState = "CLOSED"
                  \/ success'[r].cbState = route.cbState
                  \/ success'[r] = success[r]
               /\ failure' = failure
    BY <1>4, <1>typ DEF RecordSuccessRead, NoTask
  <1>5. ASSUME NEW q \in Requests, RecordFailureRead(q)
        PROVE  /\ success' = success
               /\ \/ failure'[r].cbState = "CLOSED" /\ failure'[r].count = 0
                  \/ /\ failure'[r].cbState = route.cbState
                     /\ failure'[r].count = route.cbFailureCount
                  \/ failure'[r] = failure[r]
    BY <1>5, <1>typ DEF RecordFailureRead, NoTask
  <1>6. CASE \E q \in Requests : Respond(q) \/ Fail(q) \/ RecordSuccessWrite(q)
                                   \/ RecordFailureWrite(q) \/ LoseTask(q)
    BY <1>3, <1>6, <1>new
  <1>7. CASE UpdateRoute \/ RestoreRouteVersion \/ Tick \/ UpstreamChanges
    BY <1>2, <1>7
  <1> QED BY <1>1, <1>4, <1>5, <1>6, <1>7 DEF Next

(* A row that recordFailure writes owes its count to one failure more.     *)
LEMMA FailureEarned ==
    ASSUME NEW row \in Row, NEW task \in Task, NEW n \in Nat,
           row.cbFailureCount <= n, row.cbState # "CLOSED" => Threshold <= n,
           task.count <= n, task.cbState # "CLOSED" => Threshold <= n
    PROVE  /\ FailureWrite(row, task).cbFailureCount <= n + 1
           /\ FailureWrite(row, task).cbState # "CLOSED" => Threshold <= n + 1
  <1>1. /\ row.cbFailureCount \in Nat /\ task.count \in Nat
    BY DEF Row, Task, Count
  <1>2. CASE task.cbState = "HALF_OPEN"
    <2>1. FailureWrite(row, task).cbFailureCount = row.cbFailureCount
      BY <1>2 DEF FailureWrite, OpenNow, Row
    <2> QED BY <1>1, <1>2, <2>1
  <1>3. CASE task.cbState # "HALF_OPEN" /\ task.count + 1 >= Threshold
    <2>1. FailureWrite(row, task).cbFailureCount = Threshold
      BY <1>3 DEF FailureWrite, OpenNow, Row
    <2> QED BY <1>1, <1>3, <2>1
  <1>4. CASE task.cbState # "HALF_OPEN" /\ ~(task.count + 1 >= Threshold)
    <2>1. /\ FailureWrite(row, task).cbFailureCount = task.count + 1
          /\ FailureWrite(row, task).cbState = row.cbState
      BY <1>4 DEF FailureWrite, Row
    <2> QED BY <1>1, <1>4, <2>1
  <1> QED BY <1>2, <1>3, <1>4

(* What a step does to the rows, but for the write of recordFailure. *)
LEMMA RowSteps ==
    ASSUME TypeOK, Next, ~ \E r \in Requests : RecordFailureWrite(r)
    PROVE  /\ \/ route'.cbFailureCount = 0
              \/ route'.cbFailureCount = route.cbFailureCount
              \/ route' = version
           /\ \/ route'.cbState = "CLOSED"
              \/ route'.cbState = route.cbState
              \/ route' = version
              \/ \E r \in Requests : request[r].cbState # "CLOSED"
           /\ \/ version' = route'
              \/ /\ version'.cbState = version.cbState
                 /\ version'.cbFailureCount = version.cbFailureCount
  <1>typ. route \in Row /\ version \in Row
    BY DEF TypeOK
  <1>1. ASSUME NEW r \in Requests, Probe(r)
        PROVE  /\ route'.cbFailureCount \in {0, route.cbFailureCount}
               /\ request[r].cbState # "CLOSED"
               /\ version' = version
    <2>1. request[r].cbState = "OPEN" /\ version' = version
      BY <1>1 DEF Probe, MayProbe
    <2>2. route' = ResetCircuitBreaker(route) \/ route' = [route EXCEPT !.cbState = "HALF_OPEN"]
      BY <1>1 DEF Probe, HalfOpenWrite
    <2>3. route'.cbFailureCount \in {0, route.cbFailureCount}
      BY <1>typ, <2>2 DEF ResetCircuitBreaker, Row
    <2> QED BY <2>1, <2>3
  <1>2. ASSUME NEW r \in Requests, RecordSuccessWrite(r)
        PROVE  /\ route'.cbFailureCount = 0
               /\ route'.cbState \in {"CLOSED", route.cbState}
               /\ version' = version
    <2>1. \/ route' = ResetCircuitBreaker(route)
          \/ route' = [route EXCEPT !.cbFailureCount = 0]
      BY <1>2 DEF RecordSuccessWrite, SuccessWrite
    <2>2. version' = version
      BY <1>2 DEF RecordSuccessWrite
    <2> QED BY <1>typ, <2>1, <2>2 DEF ResetCircuitBreaker, Row
  <1>3. ASSUME NEW r \in Requests,
               \/ Arrive(r) \/ Admit(r) \/ Reject(r) \/ Abandon(r) \/ Respond(r) \/ Fail(r)
               \/ StreamEnds(r) \/ RecordSuccessRead(r) \/ RecordFailureRead(r) \/ LoseTask(r)
        PROVE  route' = route /\ version' = version
    BY <1>3 DEF Arrive, Admit, Reject, Abandon, Respond, Fail, StreamEnds,
                RecordSuccessRead, RecordFailureRead, LoseTask
  <1>4. UpdateRoute => /\ route'.cbState = route.cbState
                       /\ route'.cbFailureCount = route.cbFailureCount
                       /\ version' = route' \/ version' = version
    BY <1>typ DEF UpdateRoute, Row
  <1>5. RestoreRouteVersion => route' = version /\ version' = version
    BY DEF RestoreRouteVersion
  <1>6. Tick => /\ route'.cbState = route.cbState
                /\ route'.cbFailureCount = route.cbFailureCount
                /\ version'.cbState = version.cbState
                /\ version'.cbFailureCount = version.cbFailureCount
    BY <1>typ DEF Tick, Row
  <1>7. UpstreamChanges => route' = route /\ version' = version
    BY DEF UpstreamChanges
  <1> QED BY <1>1, <1>2, <1>3, <1>4, <1>5, <1>6, <1>7 DEF Next

LEMMA EarnedSteps == EarnedInv /\ [Next /\ CountsFailures]_countedVars => EarnedInv'
  <1> SUFFICES ASSUME EarnedInv, [Next /\ CountsFailures]_countedVars PROVE EarnedInv'
    OBVIOUS
  <1>1. CASE UNCHANGED countedVars
    BY <1>1, NextInv DEF countedVars, vars, EarnedInv, RowEarned, TasksEarned
  <1>2. CASE Next /\ CountsFailures
    <2>inv. IInv' /\ IInv /\ TypeOK
      BY <1>2, NextInv DEF EarnedInv, IInv
    <2>num. recorded \in Nat /\ recorded' \in Nat /\ recorded' >= recorded
      BY <1>2 DEF CountsFailures, EarnedInv
    <2>typ. /\ route \in Row /\ version \in Row /\ route' \in Row /\ version' \in Row
            /\ \A row \in Row : row.cbFailureCount \in Nat
            /\ \A task \in Task : task.count \in Nat
      BY <2>inv DEF IInv, TypeOK, Row, Task, Count
    <2>row. RowEarned(route) /\ RowEarned(version)
      BY DEF EarnedInv
    <2>1. ASSUME NEW r \in Requests
          PROVE  /\ request'[r].cbState # "CLOSED" => Threshold <= recorded'
                 /\ success'[r].cbState # "CLOSED" => Threshold <= recorded'
                 /\ failure'[r].cbState # "CLOSED" => Threshold <= recorded'
                 /\ failure'[r].count <= recorded'
      <3>1. failure[r] \in Task
        BY <2>inv DEF TypeOK
      <3>2. /\ request[r].cbState # "CLOSED" => Threshold <= recorded'
            /\ success[r].cbState # "CLOSED" => Threshold <= recorded'
            /\ failure[r].cbState # "CLOSED" => Threshold <= recorded'
            /\ failure[r].count <= recorded'
        BY <2>num, <2>typ, <3>1 DEF EarnedInv, TasksEarned
      <3>3. /\ route.cbState # "CLOSED" => Threshold <= recorded'
            /\ route.cbFailureCount <= recorded'
        BY <2>num, <2>typ, <2>row DEF RowEarned
      <3>4. request'[r].cbState # "CLOSED" => Threshold <= recorded'
        BY <1>2, <2>inv, <3>2, <3>3, RequestSteps
      <3>5. 0 <= recorded'
        BY <2>num
      <3> QED BY <1>2, <2>inv, <3>2, <3>3, <3>4, <3>5, TaskSteps
    <2>2. CASE \E r \in Requests : RecordFailureWrite(r)
      <3>1. PICK r \in Requests : RecordFailureWrite(r)
        BY <2>2
      <3>2. route' = FailureWrite(route, failure[r]) /\ version' = version
        BY <3>1 DEF RecordFailureWrite
      <3>3. recorded' = recorded + 1
        BY <1>2, <2>2 DEF CountsFailures
      <3>4. failure[r] \in Task
        BY <2>inv DEF TypeOK
      <3>5. /\ failure[r].count <= recorded
            /\ failure[r].cbState # "CLOSED" => Threshold <= recorded
        BY DEF EarnedInv, TasksEarned
      <3>6. RowEarned(route)'
        BY <2>num, <2>typ, <2>row, <3>2, <3>3, <3>4, <3>5, FailureEarned DEF RowEarned
      <3>7. RowEarned(version)'
        BY <2>num, <2>typ, <2>row, <3>2 DEF RowEarned
      <3> QED BY <2>inv, <2>num, <2>1, <3>6, <3>7 DEF EarnedInv, TasksEarned
    <2>3. CASE ~ \E r \in Requests : RecordFailureWrite(r)
      <3>1. recorded' = recorded
        BY <1>2, <2>3, <2>num DEF CountsFailures
      <3>2. (\E r \in Requests : request[r].cbState # "CLOSED") => Threshold <= recorded
        BY DEF EarnedInv, TasksEarned
      <3>3. RowEarned(route)'
        BY <1>2, <2>inv, <2>num, <2>row, <2>3, <3>1, <3>2, RowSteps DEF RowEarned
      <3>4. RowEarned(version)'
        BY <1>2, <2>inv, <2>row, <2>3, <3>1, <3>3, RowSteps DEF RowEarned
      <3> QED BY <2>inv, <2>num, <2>1, <3>3, <3>4 DEF EarnedInv, TasksEarned
    <2> QED BY <2>2, <2>3
  <1> QED BY <1>1, <1>2

(* Whatever overlaps, is lost, comes late or is restored, the breaker is   *)
(* closed until recordFailure has written Threshold times: no stale count, *)
(* snapshot or version opens it on fewer failures.                         *)
THEOREM NeverOpensEarly == CountedSpec => []OpensOnFailuresOnly
  <1>1. Init /\ recorded = 0 => EarnedInv
    <2> SUFFICES ASSUME Init, recorded = 0 PROVE EarnedInv
      OBVIOUS
    <2>1. RowEarned(route) /\ RowEarned(version)
      BY DEF Init, NewRoute, RowEarned
    <2>2. ASSUME NEW r \in Requests
          PROVE  /\ request[r].cbState = "CLOSED"
                 /\ success[r].cbState = "CLOSED"
                 /\ failure[r].cbState = "CLOSED" /\ failure[r].count = 0
      BY DEF Init, Idle, NoTask
    <2>3. ASSUME NEW r \in Requests
          PROVE  failure[r].count <= recorded
      BY <2>2
    <2>4. TasksEarned
      BY <2>2, <2>3 DEF TasksEarned
    <2> QED BY <2>1, <2>4, InitInv DEF EarnedInv
  <1>2. EarnedInv => OpensOnFailuresOnly
    BY DEF EarnedInv, RowEarned, OpensOnFailuresOnly
  <1> QED BY <1>1, <1>2, EarnedSteps, PTL DEF CountedSpec

(* Counting the failures does not change what the breaker does. *)
THEOREM CountingIsHarmless == CountedSpec => Spec
  <1>1. [Next /\ CountsFailures]_countedVars => [Next]_vars
    BY DEF countedVars
  <1> QED BY <1>1, PTL DEF CountedSpec, Spec

==============================================================================
