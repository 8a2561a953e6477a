------------------------- MODULE ProxyRequest_proofs -------------------------
(***************************************************************************)
(* Proofs about ProxyRequest, for any number of requests, targets and      *)
(* retries.                                                                *)
(*                                                                         *)
(* Requests share only the rows of the targets; everything else belongs to *)
(* the slot of one request.  The inductive invariant is therefore one      *)
(* predicate on a slot, Slot, and the proof shows of each action that it   *)
(* leaves its own slot in order; Frame covers the others.                  *)
(***************************************************************************)
EXTENDS ProxyRequest, TLAPS

(* The state of one request, of its pending tasks and of its rows. *)
Slot(q, m, f, l) ==
    /\ q.target # Null => q.healthy
    /\ m # {} => q.target # Null
    /\ q.pc \notin {"calling", "fallback"} => q.calls = 0 /\ q.attempt = 0
    /\ q.pc \in {"calling", "fallback"} =>
          /\ q.attempt < MaxAttempts(q)
          /\ q.calls <= q.attempt + (IF q.https THEN 1 ELSE 2)
    /\ q.pc \in {"admitting", "calling", "fallback"} =>
          /\ f = {} /\ q.end = Null /\ ~q.ended /\ q.outcome = "none"
          /\ l.body = "none"
    /\ q.end = Null => f = {}
    /\ \A s \in f : s = q.end
    /\ l.body \in EndState => l.body = q.end
    /\ q.end = "complete" => q.ended
    /\ q.end = "aborted" => ~q.ended /\ q.pc # "streaming"
    /\ q.pc = "streaming" => ~q.ended
    /\ q.pc = "closing" => q.end # Null
    /\ l.body = "placeholder" =>
          \/ q.pc = "streaming" /\ q.end = Null
          \/ f # {}
          \/ q.outcome = "crashed"
          \/ l.response = "failed"
    /\ q.pc \in {"streaming", "closing"} => q.outcome \in {"answered", "broken"}
    /\ q.outcome \in {"answered", "broken"} => l.response # "none"
    /\ q.outcome \in {"none", "refused", "failed"} => l.response = "none"
    /\ q.outcome \in {"failed", "broken"} => l.error # "none"
    /\ q.outcome \in {"none", "answered"} => l.error = "none"

Slots == \A r \in Requests : Slot(req[r], marks[r], flush[r], log[r])

IInv == TypeOK /\ Slots

Marks == SUBSET {"healthy", "unhealthy"}

(* What every action of one request amounts to: new, well-formed contents  *)
(* for its own slot.                                                       *)
Step(r) ==
    \E q \in Request, m \in Marks, f \in SUBSET EndState, l \in Log :
        /\ req' = [req EXCEPT ![r] = q]
        /\ marks' = [marks EXCEPT ![r] = m]
        /\ flush' = [flush EXCEPT ![r] = f]
        /\ log' = [log EXCEPT ![r] = l]
        /\ Slot(q, m, f, l)

(* The other slots are left alone. *)
LEMMA Frame ==
    ASSUME IInv, NEW r \in Requests, Step(r), UNCHANGED route,
           target' \in [Targets -> Health \cup {Null, "deleted"}]
    PROVE  IInv'
<1>1. PICK q \in Request, m \in Marks, f \in SUBSET EndState, l \in Log :
        /\ req' = [req EXCEPT ![r] = q]
        /\ marks' = [marks EXCEPT ![r] = m]
        /\ flush' = [flush EXCEPT ![r] = f]
        /\ log' = [log EXCEPT ![r] = l]
        /\ Slot(q, m, f, l)
  BY DEF Step
<1>2. TypeOK'
  <2>1. req' \in [Requests -> Request]
    BY <1>1 DEF IInv, TypeOK
  <2>2. marks' \in [Requests -> SUBSET {"healthy", "unhealthy"}]
    BY <1>1 DEF IInv, TypeOK, Marks
  <2>3. flush' \in [Requests -> SUBSET EndState]
    BY <1>1 DEF IInv, TypeOK
  <2>4. log' \in [Requests -> Log]
    BY <1>1 DEF IInv, TypeOK
  <2> QED
    BY <2>1, <2>2, <2>3, <2>4 DEF IInv, TypeOK
<1>3. ASSUME NEW s \in Requests
      PROVE  Slot(req[s], marks[s], flush[s], log[s])'
  <2>1. CASE s = r
    <3>1. req'[s] = q /\ marks'[s] = m /\ flush'[s] = f /\ log'[s] = l
      BY <1>1, <2>1 DEF IInv, TypeOK
    <3> QED
      BY <3>1, <1>1 DEF Slot, MaxAttempts
  <2>2. CASE s # r
    <3>1. /\ req'[s] = req[s] /\ marks'[s] = marks[s]
          /\ flush'[s] = flush[s] /\ log'[s] = log[s]
      BY <1>1, <2>2 DEF IInv, TypeOK
    <3>2. Slot(req[s], marks[s], flush[s], log[s])
      BY DEF IInv, Slots
    <3> QED
      BY <3>1, <3>2 DEF Slot, MaxAttempts
  <2> QED BY <2>1, <2>2
<1> QED BY <1>2, <1>3 DEF IInv, Slots

(* What the invariant says of one slot. *)
LEMMA Here ==
    ASSUME IInv, NEW r \in Requests
    PROVE  /\ req[r] \in Request /\ req = [req EXCEPT ![r] = req[r]]
           /\ marks[r] \in Marks /\ marks = [marks EXCEPT ![r] = marks[r]]
           /\ flush[r] \in SUBSET EndState /\ flush = [flush EXCEPT ![r] = flush[r]]
           /\ log[r] \in Log /\ log = [log EXCEPT ![r] = log[r]]
           /\ Slot(req[r], marks[r], flush[r], log[r])
<1>1. req[r] \in Request /\ req = [req EXCEPT ![r] = req[r]]
  BY DEF IInv, TypeOK
<1>2. marks[r] \in Marks /\ marks = [marks EXCEPT ![r] = marks[r]]
  BY DEF IInv, TypeOK, Marks
<1>3. flush[r] \in SUBSET EndState /\ flush = [flush EXCEPT ![r] = flush[r]]
  BY DEF IInv, TypeOK
<1>4. log[r] \in Log /\ log = [log EXCEPT ![r] = log[r]]
  BY DEF IInv, TypeOK
<1> QED BY <1>1, <1>2, <1>3, <1>4 DEF IInv, Slots

(* The settings of the route allow one attempt at least. *)
LEMMA Setting ==
    ASSUME IInv
    PROVE  route.streamResponse \in BOOLEAN /\ route.retryCount \in 0 .. MaxRetries
BY SettingAssumption DEF IInv, TypeOK

(* What the helpers make of a request is a request. *)
LEMMA PastTyped ==
    ASSUME NEW q \in Request, NEW pc \in PC, NEW o \in Outcome
    PROVE  Past(q, pc, o) \in Request
<1>1. Nothing \in Snapshot /\ 0 \in Attempt /\ 0 \in Nat /\ FALSE \in BOOLEAN
  BY RetryAssumption DEF Nothing, Snapshot, Attempt
<1> QED BY <1>1 DEF Past, Request

LEMMA CallTyped ==
    ASSUME NEW q \in Request
    PROVE  Call(q) \in Request
<1>1. q.calls + 1 \in Nat
  BY DEF Request
<1>2. "calling" \in PC
  BY DEF PC
<1> QED BY <1>1, <1>2 DEF Call, Request

LEMMA OverHttpTyped ==
    ASSUME NEW q \in Request
    PROVE  OverHttp(q) \in Request
<1>1. Call(q) \in Request
  BY CallTyped
<1>2. "fallback" \in PC /\ FALSE \in BOOLEAN
  BY DEF PC
<1> QED BY <1>1, <1>2 DEF OverHttp, Request

LEMMA EndTyped ==
    ASSUME NEW q \in Request, NEW pc \in PC, NEW o \in Outcome, NEW e \in EndState,
           NEW b \in BOOLEAN
    PROVE  [q EXCEPT !.pc = pc, !.outcome = o, !.ended = b, !.end = e] \in Request
BY DEF Request

(* Taking a request into a free slot leaves the slot in order. *)
LEMMA ArriveStep ==
    ASSUME IInv, NEW r \in Requests, NEW b \in BOOLEAN, NEW h \in BOOLEAN, Arrive(r, b, h)
    PROVE  Step(r)
<1> DEFINE q == [Idle EXCEPT !.pc = "admitting", !.streamed = b, !.snapshot = Rows, !.https = h]
           m == marks[r]
           f == flush[r]
           l == NoLog
<1>1. q \in Request
  <2>1. Nothing \in Snapshot /\ Rows \in Snapshot
    BY DEF Nothing, Rows, Snapshot, IInv, TypeOK, Health
  <2>2. 0 \in Attempt /\ 0 \in Nat /\ "admitting" \in PC /\ "idle" \in PC /\ "none" \in Outcome
    BY RetryAssumption DEF Attempt, PC, Outcome
  <2> QED BY <2>1, <2>2 DEF Idle, Request
<1>2. m \in Marks /\ f \in SUBSET EndState /\ l \in Log
  BY Here DEF Marks, EndState, Log, RowState, Arrive, NoLog
<1>3. Slot(q, m, f, l)
  BY Here, Setting, RetryAssumption, NullAssumption
  DEF Slot, MaxAttempts, EndState, Request, Attempt, Log, Marks, Arrive, Idle,
      NoLog, Free, Pending
<1>4. /\ req' = [req EXCEPT ![r] = q] /\ marks' = [marks EXCEPT ![r] = m]
      /\ flush' = [flush EXCEPT ![r] = f] /\ log' = [log EXCEPT ![r] = l]
  BY Here DEF Arrive
<1> HIDE DEF q, m, f, l
<1> QED BY <1>1, <1>2, <1>3, <1>4 DEF Step

(* A refusal of the gateway leaves the slot in order, without a row. *)
LEMMA RefuseStep ==
    ASSUME IInv, NEW r \in Requests, Refuse(r)
    PROVE  Step(r)
<1> DEFINE q == Past(req[r], "idle", "refused")
           m == marks[r]
           f == flush[r]
           l == log[r]
<1>1. q \in Request
  BY Here, PastTyped DEF PC, Outcome
<1>2. m \in Marks /\ f \in SUBSET EndState /\ l \in Log
  BY Here DEF Marks, EndState, Log, RowState, Refuse
<1>3. Slot(q, m, f, l)
  BY Here, Setting, RetryAssumption, NullAssumption
  DEF Slot, MaxAttempts, EndState, Request, Attempt, Log, Marks, Refuse, Past,
      Nothing
<1>4. /\ req' = [req EXCEPT ![r] = q] /\ marks' = [marks EXCEPT ![r] = m]
      /\ flush' = [flush EXCEPT ![r] = f] /\ log' = [log EXCEPT ![r] = l]
  BY Here DEF Refuse
<1> HIDE DEF q, m, f, l
<1> QED BY <1>1, <1>2, <1>3, <1>4 DEF Step

(* So does the refusal of maintenance mode, with its row. *)
LEMMA MaintenanceStep ==
    ASSUME IInv, NEW r \in Requests, Maintenance(r)
    PROVE  Step(r)
<1> DEFINE q == Past(req[r], "idle", "refused")
           m == marks[r]
           f == flush[r]
           l == [log[r] EXCEPT !.error = "creating"]
<1>1. q \in Request
  BY Here, PastTyped DEF PC, Outcome
<1>2. m \in Marks /\ f \in SUBSET EndState /\ l \in Log
  BY Here DEF Marks, EndState, Log, RowState, Maintenance
<1>3. Slot(q, m, f, l)
  BY Here, Setting, RetryAssumption, NullAssumption
  DEF Slot, MaxAttempts, EndState, Request, Attempt, Log, Marks, Maintenance,
      Past, Nothing
<1>4. /\ req' = [req EXCEPT ![r] = q] /\ marks' = [marks EXCEPT ![r] = m]
      /\ flush' = [flush EXCEPT ![r] = f] /\ log' = [log EXCEPT ![r] = l]
  BY Here DEF Maintenance
<1> HIDE DEF q, m, f, l
<1> QED BY <1>1, <1>2, <1>3, <1>4 DEF Step

(* So does the refusal for want of a healthy target. *)
LEMMA NoHealthyTargetStep ==
    ASSUME IInv, NEW r \in Requests, NoHealthyTarget(r)
    PROVE  Step(r)
<1> DEFINE q == Past(req[r], "idle", "refused")
           m == marks[r]
           f == flush[r]
           l == log[r]
<1>1. q \in Request
  BY Here, PastTyped DEF PC, Outcome
<1>2. m \in Marks /\ f \in SUBSET EndState /\ l \in Log
  BY Here DEF Marks, EndState, Log, RowState, NoHealthyTarget
<1>3. Slot(q, m, f, l)
  BY Here, Setting, RetryAssumption, NullAssumption
  DEF Slot, MaxAttempts, EndState, Request, Attempt, Log, Marks,
      NoHealthyTarget, Past, Nothing
<1>4. /\ req' = [req EXCEPT ![r] = q] /\ marks' = [marks EXCEPT ![r] = m]
      /\ flush' = [flush EXCEPT ![r] = f] /\ log' = [log EXCEPT ![r] = l]
  BY Here DEF NoHealthyTarget
<1> HIDE DEF q, m, f, l
<1> QED BY <1>1, <1>2, <1>3, <1>4 DEF Step

(* The first call, to the route's own target. *)
LEMMA UseTargetUrlStep ==
    ASSUME IInv, NEW r \in Requests, UseTargetUrl(r)
    PROVE  Step(r)
<1> DEFINE q == Call(req[r])
           m == marks[r]
           f == flush[r]
           l == log[r]
<1>1. q \in Request
  BY Here, CallTyped
<1>2. m \in Marks /\ f \in SUBSET EndState /\ l \in Log
  BY Here DEF Marks, EndState, Log, RowState, UseTargetUrl
<1>3. Slot(q, m, f, l)
  BY Here, Setting, RetryAssumption, NullAssumption
  DEF Slot, MaxAttempts, EndState, Request, Attempt, Log, Marks, UseTargetUrl, Call
<1>4. /\ req' = [req EXCEPT ![r] = q] /\ marks' = [marks EXCEPT ![r] = m]
      /\ flush' = [flush EXCEPT ![r] = f] /\ log' = [log EXCEPT ![r] = l]
  BY Here DEF UseTargetUrl
<1> HIDE DEF q, m, f, l
<1> QED BY <1>1, <1>2, <1>3, <1>4 DEF Step

(* The first call, to a target that was read as healthy. *)
LEMMA SelectTargetStep ==
    ASSUME IInv, NEW r \in Requests, SelectTarget(r)
    PROVE  Step(r)
<1>0. PICK t \in Healthy(req[r].snapshot) :
        req' = [req EXCEPT ![r] = [Call(@) EXCEPT !.target = t,
                                        !.healthy = req[r].snapshot[t] = "healthy"]]
  BY DEF SelectTarget
<1> DEFINE q == [Call(req[r]) EXCEPT !.target = t, !.healthy = (req[r].snapshot[t] = "healthy")]
           m == marks[r]
           f == flush[r]
           l == log[r]
<1>1. q \in Request
  <2>1. Call(req[r]) \in Request
    BY Here, CallTyped
  <2>2. t \in Targets /\ (req[r].snapshot[t] = "healthy") \in BOOLEAN
    BY <1>0 DEF Healthy
  <2> QED BY <2>1, <2>2 DEF Request
<1>2. m \in Marks /\ f \in SUBSET EndState /\ l \in Log
  BY <1>0, Here DEF Marks, EndState, Log, RowState, SelectTarget
<1>3. Slot(q, m, f, l)
  <2>1. req[r].snapshot[t] = "healthy" /\ t \in Targets
    BY <1>0 DEF Healthy
  <2>2. q = [Call(req[r]) EXCEPT !.target = t, !.healthy = TRUE]
    BY <2>1
  <2>3. /\ q.pc = "calling" /\ q.target = t /\ q.healthy = TRUE
        /\ q.calls = req[r].calls + 1 /\ q.attempt = req[r].attempt
        /\ q.end = req[r].end /\ q.ended = req[r].ended
        /\ q.outcome = req[r].outcome /\ q.https = req[r].https
        /\ q.streamed = req[r].streamed
    BY <2>2, Here, ZenonT(60) DEF Call, Request
  <2>4. req[r].pc = "admitting"
    BY DEF SelectTarget
  <2> HIDE DEF q
  <2> QED
    BY <2>1, <2>3, <2>4, Here, Setting, RetryAssumption, NullAssumption
    DEF Slot, MaxAttempts, EndState, Request, Attempt
<1>4. /\ req' = [req EXCEPT ![r] = q] /\ marks' = [marks EXCEPT ![r] = m]
      /\ flush' = [flush EXCEPT ![r] = f] /\ log' = [log EXCEPT ![r] = l]
  BY <1>0, Here DEF SelectTarget
<1> HIDE DEF q, m, f, l
<1> QED BY <1>1, <1>2, <1>3, <1>4 DEF Step

(* A buffered answer: its row is on the way. *)
LEMMA AnswerStep ==
    ASSUME IInv, NEW r \in Requests, Answer(r)
    PROVE  Step(r)
<1> DEFINE q == Past(req[r], "idle", "answered")
           m == IF req[r].target = Null THEN marks[r] ELSE marks[r] \cup {"healthy"}
           f == flush[r]
           l == [log[r] EXCEPT !.response = "creating"]
<1>1. q \in Request
  BY Here, PastTyped DEF PC, Outcome
<1>2. m \in Marks /\ f \in SUBSET EndState /\ l \in Log
  BY Here DEF Marks, EndState, Log, RowState, Answer
<1>3. Slot(q, m, f, l)
  BY Here, Setting, RetryAssumption, NullAssumption
  DEF Slot, MaxAttempts, EndState, Request, Attempt, Log, Marks, Answer, Past,
      Nothing, Mark
<1>4. /\ req' = [req EXCEPT ![r] = q] /\ marks' = [marks EXCEPT ![r] = m]
      /\ flush' = [flush EXCEPT ![r] = f] /\ log' = [log EXCEPT ![r] = l]
  BY Here DEF Answer, Mark
<1> HIDE DEF q, m, f, l
<1> QED BY <1>1, <1>2, <1>3, <1>4 DEF Step

(* An answer that could not be sent: both rows are on the way. *)
LEMMA SendFailsStep ==
    ASSUME IInv, NEW r \in Requests, SendFails(r)
    PROVE  Step(r)
<1> DEFINE q == Past(req[r], "idle", "broken")
           m == IF req[r].target = Null THEN marks[r] ELSE marks[r] \cup {"healthy", "unhealthy"}
           f == flush[r]
           l == [log[r] EXCEPT !.response = "creating", !.error = "creating"]
<1>1. q \in Request
  BY Here, PastTyped DEF PC, Outcome
<1>2. m \in Marks /\ f \in SUBSET EndState /\ l \in Log
  BY Here DEF Marks, EndState, Log, RowState, SendFails
<1>3. Slot(q, m, f, l)
  BY Here, Setting, RetryAssumption, NullAssumption
  DEF Slot, MaxAttempts, EndState, Request, Attempt, Log, Marks, SendFails, Past,
      Nothing, Mark
<1>4. /\ req' = [req EXCEPT ![r] = q] /\ marks' = [marks EXCEPT ![r] = m]
      /\ flush' = [flush EXCEPT ![r] = f] /\ log' = [log EXCEPT ![r] = l]
  BY Here DEF SendFails, Mark
<1> HIDE DEF q, m, f, l
<1> QED BY <1>1, <1>2, <1>3, <1>4 DEF Step

(* A relayed answer: its row is on the way, with the placeholder. *)
LEMMA StartStreamStep ==
    ASSUME IInv, NEW r \in Requests, StartStream(r)
    PROVE  Step(r)
<1> DEFINE q == Past(req[r], "streaming", "answered")
           m == IF req[r].target = Null THEN marks[r] ELSE marks[r] \cup {"healthy"}
           f == flush[r]
           l == [log[r] EXCEPT !.response = "creating", !.body = "placeholder"]
<1>1. q \in Request
  BY Here, PastTyped DEF PC, Outcome
<1>2. m \in Marks /\ f \in SUBSET EndState /\ l \in Log
  BY Here DEF Marks, EndState, Log, RowState, StartStream
<1>3. Slot(q, m, f, l)
  BY Here, Setting, RetryAssumption, NullAssumption
  DEF Slot, MaxAttempts, EndState, Request, Attempt, Log, Marks, StartStream,
      Past, Nothing, Mark
<1>4. /\ req' = [req EXCEPT ![r] = q] /\ marks' = [marks EXCEPT ![r] = m]
      /\ flush' = [flush EXCEPT ![r] = f] /\ log' = [log EXCEPT ![r] = l]
  BY Here DEF StartStream, Mark
<1> HIDE DEF q, m, f, l
<1> QED BY <1>1, <1>2, <1>3, <1>4 DEF Step

(* The next attempt is one of those the loop has. *)
LEMMA RetryStep ==
    ASSUME IInv, NEW r \in Requests, Retry(r)
    PROVE  Step(r)
<1> DEFINE q == [Call(req[r]) EXCEPT !.attempt = req[r].attempt + 1]
           m == marks[r]
           f == flush[r]
           l == log[r]
<1>1. q \in Request
  <2>1. Call(req[r]) \in Request
    BY Here, CallTyped
  <2>2. Call(req[r]).attempt = req[r].attempt
    BY Here DEF Call, Request
  <2>3. req[r].attempt + 1 \in Attempt
    BY Here, Setting, RetryAssumption DEF Request, Attempt, Retry, MaxAttempts
  <2> QED BY <2>1, <2>2, <2>3 DEF Request
<1>2. m \in Marks /\ f \in SUBSET EndState /\ l \in Log
  BY Here DEF Marks, EndState, Log, RowState, Retry
<1>3. Slot(q, m, f, l)
  BY Here, Setting, RetryAssumption, NullAssumption
  DEF Slot, MaxAttempts, EndState, Request, Attempt, Log, Marks, Retry, Call,
      MaxAttempts
<1>4. /\ req' = [req EXCEPT ![r] = q] /\ marks' = [marks EXCEPT ![r] = m]
      /\ flush' = [flush EXCEPT ![r] = f] /\ log' = [log EXCEPT ![r] = l]
  BY Here DEF Retry
<1> HIDE DEF q, m, f, l
<1> QED BY <1>1, <1>2, <1>3, <1>4 DEF Step

(* The catch block: the error row is on the way. *)
LEMMA GiveUpStep ==
    ASSUME IInv, NEW r \in Requests, GiveUp(r)
    PROVE  Step(r)
<1> DEFINE q == Past(req[r], "idle", "failed")
           m == IF req[r].target = Null THEN marks[r] ELSE marks[r] \cup {"unhealthy"}
           f == flush[r]
           l == [log[r] EXCEPT !.error = "creating"]
<1>1. q \in Request
  BY Here, PastTyped DEF PC, Outcome
<1>2. m \in Marks /\ f \in SUBSET EndState /\ l \in Log
  BY Here DEF Marks, EndState, Log, RowState, GiveUp
<1>3. Slot(q, m, f, l)
  BY Here, Setting, RetryAssumption, NullAssumption
  DEF Slot, MaxAttempts, EndState, Request, Attempt, Log, Marks, GiveUp, Past,
      Nothing, Mark, Failed
<1>4. /\ req' = [req EXCEPT ![r] = q] /\ marks' = [marks EXCEPT ![r] = m]
      /\ flush' = [flush EXCEPT ![r] = f] /\ log' = [log EXCEPT ![r] = l]
  BY Here DEF GiveUp, Mark, Failed
<1> HIDE DEF q, m, f, l
<1> QED BY <1>1, <1>2, <1>3, <1>4 DEF Step

(* The fallback call gives up https for it. *)
LEMMA TlsMismatchStep ==
    ASSUME IInv, NEW r \in Requests, TlsMismatch(r)
    PROVE  Step(r)
<1> DEFINE q == OverHttp(req[r])
           m == marks[r]
           f == flush[r]
           l == log[r]
<1>1. q \in Request
  BY Here, OverHttpTyped
<1>2. m \in Marks /\ f \in SUBSET EndState /\ l \in Log
  BY Here DEF Marks, EndState, Log, RowState, TlsMismatch
<1>3. Slot(q, m, f, l)
  BY Here, Setting, RetryAssumption, NullAssumption
  DEF Slot, MaxAttempts, EndState, Request, Attempt, Log, Marks, TlsMismatch,
      OverHttp, Call
<1>4. /\ req' = [req EXCEPT ![r] = q] /\ marks' = [marks EXCEPT ![r] = m]
      /\ flush' = [flush EXCEPT ![r] = f] /\ log' = [log EXCEPT ![r] = l]
  BY Here DEF TlsMismatch
<1> HIDE DEF q, m, f, l
<1> QED BY <1>1, <1>2, <1>3, <1>4 DEF Step

(* The full capture is flushed if nothing was before. *)
LEMMA BudgetSpentStep ==
    ASSUME IInv, NEW r \in Requests, BudgetSpent(r)
    PROVE  Step(r)
<1> DEFINE q == [req[r] EXCEPT !.end = IF req[r].end = Null THEN "open" ELSE req[r].end]
           m == marks[r]
           f == IF req[r].end = Null THEN flush[r] \cup {"open"} ELSE flush[r]
           l == log[r]
<1>1. q \in Request
  <2>1. "idle" \in PC /\ "closing" \in PC /\ "broken" \in Outcome
    BY DEF PC, Outcome
  <2>2. {"open", "complete", "aborted"} \subseteq EndState
    BY DEF EndState
  <2> QED BY Here, <2>1, <2>2 DEF Request
<1>2. m \in Marks /\ f \in SUBSET EndState /\ l \in Log
  BY Here DEF Marks, EndState, Log, RowState, BudgetSpent
<1>3. Slot(q, m, f, l)
  BY Here, Setting, RetryAssumption, NullAssumption
  DEF Slot, MaxAttempts, EndState, Request, Attempt, Log, Marks, BudgetSpent,
      FlushCapture, Flushes, End
<1>4. /\ req' = [req EXCEPT ![r] = q] /\ marks' = [marks EXCEPT ![r] = m]
      /\ flush' = [flush EXCEPT ![r] = f] /\ log' = [log EXCEPT ![r] = l]
  BY Here DEF BudgetSpent, FlushCapture, Flushes, End
<1> HIDE DEF q, m, f, l
<1> QED BY <1>1, <1>2, <1>3, <1>4 DEF Step

(* The end of the stream decides unless the full capture did. *)
LEMMA UpstreamEndsStep ==
    ASSUME IInv, NEW r \in Requests, UpstreamEnds(r)
    PROVE  Step(r)
<1> DEFINE q == [req[r] EXCEPT !.pc = "closing", !.ended = TRUE,
                           !.end = IF req[r].end = Null THEN "complete" ELSE req[r].end]
           m == marks[r]
           f == IF req[r].end = Null THEN flush[r] \cup {"complete"} ELSE flush[r]
           l == log[r]
<1>1. q \in Request
  <2>1. "idle" \in PC /\ "closing" \in PC /\ "broken" \in Outcome
    BY DEF PC, Outcome
  <2>2. {"open", "complete", "aborted"} \subseteq EndState
    BY DEF EndState
  <2> QED BY Here, <2>1, <2>2, ZenonT(60) DEF Request
<1>2. m \in Marks /\ f \in SUBSET EndState /\ l \in Log
  BY Here DEF Marks, EndState, Log, RowState, UpstreamEnds
<1>3. Slot(q, m, f, l)
  <2>1. /\ q.pc = "closing" /\ q.ended = TRUE /\ q.outcome = req[r].outcome
        /\ q.end = IF req[r].end = Null THEN "complete" ELSE req[r].end
        /\ q.target = req[r].target /\ q.healthy = req[r].healthy
        /\ q.calls = req[r].calls /\ q.attempt = req[r].attempt
    BY Here DEF Request
  <2>2. req[r].pc \in {"streaming", "closing"}
    BY DEF UpstreamEnds
  <2>3. Slot(req[r], marks[r], flush[r], log[r]) /\ log[r] \in Log
    BY Here
  <2> HIDE DEF q
  <2>4. CASE req[r].end = Null
    BY <2>1, <2>2, <2>3, <2>4, NullAssumption
    DEF Slot, EndState, Log, RowState, UpstreamEnds, FlushCapture, Flushes, End
  <2>5. CASE req[r].end # Null
    BY <2>1, <2>2, <2>3, <2>5, NullAssumption
    DEF Slot, EndState, Log, RowState, UpstreamEnds, FlushCapture, Flushes, End
  <2> QED BY <2>4, <2>5
<1>4. /\ req' = [req EXCEPT ![r] = q] /\ marks' = [marks EXCEPT ![r] = m]
      /\ flush' = [flush EXCEPT ![r] = f] /\ log' = [log EXCEPT ![r] = l]
  BY Here DEF UpstreamEnds, FlushCapture, Flushes, End
<1> HIDE DEF q, m, f, l
<1> QED BY <1>1, <1>2, <1>3, <1>4 DEF Step

(* So does its breaking off, with the error row on the way. *)
LEMMA UpstreamBreaksStep ==
    ASSUME IInv, NEW r \in Requests, UpstreamBreaks(r)
    PROVE  Step(r)
<1> DEFINE q == [req[r] EXCEPT !.pc = "closing", !.outcome = "broken",
                           !.end = IF req[r].end = Null THEN "aborted" ELSE req[r].end]
           m == IF req[r].target = Null THEN marks[r] ELSE marks[r] \cup {"unhealthy"}
           f == IF req[r].end = Null THEN flush[r] \cup {"aborted"} ELSE flush[r]
           l == [log[r] EXCEPT !.error = "creating"]
<1>1. q \in Request
  <2>1. "idle" \in PC /\ "closing" \in PC /\ "broken" \in Outcome
    BY DEF PC, Outcome
  <2>2. {"open", "complete", "aborted"} \subseteq EndState
    BY DEF EndState
  <2> QED BY Here, <2>1, <2>2, ZenonT(60) DEF Request
<1>2. m \in Marks /\ f \in SUBSET EndState /\ l \in Log
  BY Here DEF Marks, EndState, Log, RowState, UpstreamBreaks
<1>3. Slot(q, m, f, l)
  <2>1. /\ q.pc = "closing" /\ q.ended = req[r].ended /\ q.outcome = "broken"
        /\ q.end = IF req[r].end = Null THEN "aborted" ELSE req[r].end
        /\ q.target = req[r].target /\ q.healthy = req[r].healthy
        /\ q.calls = req[r].calls /\ q.attempt = req[r].attempt
    BY Here DEF Request
  <2>2. req[r].pc \in {"streaming", "closing"}
    BY DEF UpstreamBreaks
  <2>3. Slot(req[r], marks[r], flush[r], log[r]) /\ log[r] \in Log
    BY Here
  <2> HIDE DEF q
  <2>4. CASE req[r].end = Null
    BY <2>1, <2>2, <2>3, <2>4, NullAssumption
    DEF Slot, EndState, Log, RowState, UpstreamBreaks, FlushCapture, Flushes,
        End, Failed, Mark
  <2>5. CASE req[r].end # Null
    BY <2>1, <2>2, <2>3, <2>5, NullAssumption
    DEF Slot, EndState, Log, RowState, UpstreamBreaks, FlushCapture, Flushes,
        End, Failed, Mark
  <2> QED BY <2>4, <2>5
<1>4. /\ req' = [req EXCEPT ![r] = q] /\ marks' = [marks EXCEPT ![r] = m]
      /\ flush' = [flush EXCEPT ![r] = f] /\ log' = [log EXCEPT ![r] = l]
  BY Here DEF UpstreamBreaks, FlushCapture, Flushes, End, Failed, Mark
<1> HIDE DEF q, m, f, l
<1> QED BY <1>1, <1>2, <1>3, <1>4 DEF Step

(* The close finds the capture flushed, or flushes what there is. *)
LEMMA ClientClosesStep ==
    ASSUME IInv, NEW r \in Requests, ClientCloses(r)
    PROVE  Step(r)
<1> DEFINE q == [req[r] EXCEPT !.pc = "idle",
                           !.end = IF req[r].end = Null THEN (IF req[r].ended THEN "complete" ELSE "aborted") ELSE req[r].end]
           m == marks[r]
           f == IF req[r].end = Null THEN flush[r] \cup {(IF req[r].ended THEN "complete" ELSE "aborted")} ELSE flush[r]
           l == log[r]
<1>1. q \in Request
  <2>1. "idle" \in PC /\ "closing" \in PC /\ "broken" \in Outcome
    BY DEF PC, Outcome
  <2>2. {"open", "complete", "aborted"} \subseteq EndState
    BY DEF EndState
  <2> QED BY Here, <2>1, <2>2, ZenonT(60) DEF Request
<1>2. m \in Marks /\ f \in SUBSET EndState /\ l \in Log
  BY Here DEF Marks, EndState, Log, RowState, ClientCloses
<1>3. Slot(q, m, f, l)
  <2>1. /\ q.pc = "idle" /\ q.ended = req[r].ended /\ q.outcome = req[r].outcome
        /\ q.end = IF req[r].end = Null THEN (IF req[r].ended THEN "complete" ELSE "aborted") ELSE req[r].end
        /\ q.target = req[r].target /\ q.healthy = req[r].healthy
        /\ q.calls = req[r].calls /\ q.attempt = req[r].attempt
    BY Here DEF Request
  <2>2. req[r].pc \in {"streaming", "closing"}
    BY DEF ClientCloses
  <2>3. Slot(req[r], marks[r], flush[r], log[r]) /\ log[r] \in Log
    BY Here
  <2> HIDE DEF q
  <2>4. CASE req[r].end = Null
    BY <2>1, <2>2, <2>3, <2>4, NullAssumption
    DEF Slot, EndState, Log, RowState, ClientCloses, FlushCapture, Flushes, End
  <2>5. CASE req[r].end # Null
    BY <2>1, <2>2, <2>3, <2>5, NullAssumption
    DEF Slot, EndState, Log, RowState, ClientCloses, FlushCapture, Flushes, End
  <2> QED BY <2>4, <2>5
<1>4. /\ req' = [req EXCEPT ![r] = q] /\ marks' = [marks EXCEPT ![r] = m]
      /\ flush' = [flush EXCEPT ![r] = f] /\ log' = [log EXCEPT ![r] = l]
  BY Here DEF ClientCloses, FlushCapture, Flushes, End
<1> HIDE DEF q, m, f, l
<1> QED BY <1>1, <1>2, <1>3, <1>4 DEF Step

(* A mark that fails is gone. *)
LEMMA MarkFailsStep ==
    ASSUME IInv, NEW r \in Requests, NEW x, MarkFails(r, x)
    PROVE  Step(r)
<1> DEFINE q == req[r]
           m == marks[r] \ {x}
           f == flush[r]
           l == log[r]
<1>1. q \in Request
  BY Here
<1>2. m \in Marks /\ f \in SUBSET EndState /\ l \in Log
  BY Here DEF Marks, EndState, Log, RowState, MarkFails
<1>3. Slot(q, m, f, l)
  BY Here, Setting, RetryAssumption, NullAssumption
  DEF Slot, MaxAttempts, EndState, Request, Attempt, Log, Marks, MarkFails
<1>4. /\ req' = [req EXCEPT ![r] = q] /\ marks' = [marks EXCEPT ![r] = m]
      /\ flush' = [flush EXCEPT ![r] = f] /\ log' = [log EXCEPT ![r] = l]
  BY Here DEF MarkFails
<1> HIDE DEF q, m, f, l
<1> QED BY <1>1, <1>2, <1>3, <1>4 DEF Step

(* A mark that is written is done. *)
LEMMA MarkTargetStep ==
    ASSUME IInv, NEW r \in Requests, NEW x, MarkTarget(r, x)
    PROVE  Step(r)
<1> DEFINE q == req[r]
           m == marks[r] \ {x}
           f == flush[r]
           l == log[r]
<1>1. q \in Request
  BY Here
<1>2. m \in Marks /\ f \in SUBSET EndState /\ l \in Log
  BY Here DEF Marks, EndState, Log, RowState, MarkTarget
<1>3. Slot(q, m, f, l)
  BY Here, Setting, RetryAssumption, NullAssumption
  DEF Slot, MaxAttempts, EndState, Request, Attempt, Log, Marks, MarkTarget
<1>4. /\ req' = [req EXCEPT ![r] = q] /\ marks' = [marks EXCEPT ![r] = m]
      /\ flush' = [flush EXCEPT ![r] = f] /\ log' = [log EXCEPT ![r] = l]
  BY Here DEF MarkTarget
<1> HIDE DEF q, m, f, l
<1> QED BY <1>1, <1>2, <1>3, <1>4 DEF Step

(* logRequest has created its row, or failed. *)
LEMMA CreateResponseRowStep ==
    ASSUME IInv, NEW r \in Requests, CreateResponseRow(r)
    PROVE  Step(r)
<1>0. PICK s \in {"stored", "failed"} : log' = [log EXCEPT ![r].response = s]
  BY DEF CreateResponseRow
<1> DEFINE q == req[r]
           m == marks[r]
           f == flush[r]
           l == [log[r] EXCEPT !.response = s]
<1>1. q \in Request
  BY Here
<1>2. m \in Marks /\ f \in SUBSET EndState /\ l \in Log
  BY <1>0, Here DEF Marks, EndState, Log, RowState, CreateResponseRow
<1>3. Slot(q, m, f, l)
  BY <1>0, Here, Setting, RetryAssumption, NullAssumption
  DEF Slot, MaxAttempts, EndState, Request, Attempt, Log, Marks, CreateResponseRow
<1>4. /\ req' = [req EXCEPT ![r] = q] /\ marks' = [marks EXCEPT ![r] = m]
      /\ flush' = [flush EXCEPT ![r] = f] /\ log' = [log EXCEPT ![r] = l]
  BY <1>0, Here DEF CreateResponseRow
<1> HIDE DEF q, m, f, l
<1> QED BY <1>1, <1>2, <1>3, <1>4 DEF Step

(* The same for the error row. *)
LEMMA CreateErrorRowStep ==
    ASSUME IInv, NEW r \in Requests, CreateErrorRow(r)
    PROVE  Step(r)
<1>0. PICK s \in {"stored", "failed"} : log' = [log EXCEPT ![r].error = s]
  BY DEF CreateErrorRow
<1> DEFINE q == req[r]
           m == marks[r]
           f == flush[r]
           l == [log[r] EXCEPT !.error = s]
<1>1. q \in Request
  BY Here
<1>2. m \in Marks /\ f \in SUBSET EndState /\ l \in Log
  BY <1>0, Here DEF Marks, EndState, Log, RowState, CreateErrorRow
<1>3. Slot(q, m, f, l)
  BY <1>0, Here, Setting, RetryAssumption, NullAssumption
  DEF Slot, MaxAttempts, EndState, Request, Attempt, Log, Marks, CreateErrorRow
<1>4. /\ req' = [req EXCEPT ![r] = q] /\ marks' = [marks EXCEPT ![r] = m]
      /\ flush' = [flush EXCEPT ![r] = f] /\ log' = [log EXCEPT ![r] = l]
  BY <1>0, Here DEF CreateErrorRow
<1> HIDE DEF q, m, f, l
<1> QED BY <1>1, <1>2, <1>3, <1>4 DEF Step

(* The captured body replaces the placeholder if there is a row. *)
LEMMA StoreBodyStep ==
    ASSUME IInv, NEW r \in Requests, NEW s \in EndState, StoreBody(r, s)
    PROVE  Step(r)
<1>0. PICK b \in {s, "failed"} :
        log' = [log EXCEPT ![r].body = IF log[r].response = "stored" THEN b ELSE @]
  BY DEF StoreBody
<1> DEFINE q == req[r]
           m == marks[r]
           f == flush[r] \ {s}
           l == [log[r] EXCEPT !.body = IF log[r].response = "stored" THEN b ELSE log[r].body]
<1>1. q \in Request
  BY Here
<1>2. m \in Marks /\ f \in SUBSET EndState /\ l \in Log
  BY <1>0, Here DEF Marks, EndState, Log, RowState, StoreBody
<1>3. Slot(q, m, f, l)
  BY <1>0, Here, Setting, RetryAssumption, NullAssumption
  DEF Slot, MaxAttempts, EndState, Request, Attempt, Log, Marks, StoreBody, RowKnown
<1>4. /\ req' = [req EXCEPT ![r] = q] /\ marks' = [marks EXCEPT ![r] = m]
      /\ flush' = [flush EXCEPT ![r] = f] /\ log' = [log EXCEPT ![r] = l]
  BY <1>0, Here DEF StoreBody
<1> HIDE DEF q, m, f, l
<1> QED BY <1>1, <1>2, <1>3, <1>4 DEF Step

(* What dies with the process. *)
LEMMA CrashStep ==
    ASSUME IInv, NEW r \in Requests, Crash(r)
    PROVE  Step(r)
<1> DEFINE q == Past(req[r], "idle", "crashed")
           m == {}
           f == {}
           l == Lost(log[r])
<1>1. q \in Request
  BY Here, PastTyped DEF PC, Outcome
<1>2. m \in Marks /\ f \in SUBSET EndState /\ l \in Log
  BY Here, ZenonT(60) DEF Marks, EndState, Log, RowState, Crash, Lost, LostRow
<1>3. Slot(q, m, f, l)
  BY Here, Setting, RetryAssumption, NullAssumption
  DEF Slot, MaxAttempts, EndState, Request, Attempt, Log, Marks, Crash, Past,
      Nothing, Lost, LostRow
<1>4. /\ req' = [req EXCEPT ![r] = q] /\ marks' = [marks EXCEPT ![r] = m]
      /\ flush' = [flush EXCEPT ![r] = f] /\ log' = [log EXCEPT ![r] = l]
  BY Here DEF Crash
<1> HIDE DEF q, m, f, l
<1> QED BY <1>1, <1>2, <1>3, <1>4 DEF Step

(* Every step of the specification preserves the invariant. *)
LEMMA Inductive ==
    ASSUME IInv, [Next]_vars
    PROVE  IInv'
<1> DEFINE Kept == /\ UNCHANGED route
                   /\ target' \in [Targets -> Health \cup {Null, "deleted"}]
<1>0. target \in [Targets -> Health \cup {Null, "deleted"}]
  BY DEF IInv, TypeOK
<1>1. ASSUME NEW r \in Requests, Admission(r)
      PROVE  IInv'
  <2>1. Step(r)
    BY <1>1, ArriveStep, RefuseStep, MaintenanceStep, NoHealthyTargetStep,
       UseTargetUrlStep, SelectTargetStep DEF Admission
  <2>2. Kept
    BY <1>0, <1>1 DEF Admission, Arrive, Refuse, Maintenance, NoHealthyTarget,
       UseTargetUrl, SelectTarget
  <2> QED BY <2>1, <2>2, Frame
<1>2. ASSUME NEW r \in Requests, Forwarding(r)
      PROVE  IInv'
  <2>1. Step(r)
    BY <1>2, AnswerStep, SendFailsStep, StartStreamStep, RetryStep, GiveUpStep, TlsMismatchStep,
       BudgetSpentStep, UpstreamEndsStep, UpstreamBreaksStep, ClientClosesStep
    DEF Forwarding
  <2>2. Kept
    BY <1>0, <1>2 DEF Forwarding, Answer, SendFails, StartStream, Retry, GiveUp, TlsMismatch,
       BudgetSpent, UpstreamEnds, UpstreamBreaks, ClientCloses
  <2> QED BY <2>1, <2>2, Frame
<1>3. ASSUME NEW r \in Requests, Tasks(r)
      PROVE  IInv'
  <2>1. Step(r)
    BY <1>3, CreateResponseRowStep, CreateErrorRowStep, StoreBodyStep,
       MarkTargetStep, MarkFailsStep, CrashStep DEF Tasks
  <2>2. CASE \E m \in {"healthy", "unhealthy"} : MarkTarget(r, m)
    <3>1. PICK m \in {"healthy", "unhealthy"} : MarkTarget(r, m)
      BY <2>2
    <3>2. Kept
      BY <1>0, <3>1 DEF MarkTarget, Health
    <3> QED BY <2>1, <3>2, Frame
  <2>3. CASE ~ \E m \in {"healthy", "unhealthy"} : MarkTarget(r, m)
    <3>1. Kept
      BY <1>0, <1>3, <2>3 DEF Tasks, CreateResponseRow, CreateErrorRow, StoreBody,
         MarkFails, Crash
    <3> QED BY <2>1, <3>1, Frame
  <2> QED BY <2>2, <2>3
<1>4. ASSUME NEW t \in Targets, AddTarget(t) \/ DeleteTarget(t)
      PROVE  IInv'
  BY <1>0, <1>4
  DEF AddTarget, DeleteTarget, IInv, TypeOK, Slots, Slot, MaxAttempts, Health
<1>5. CASE UNCHANGED vars
  BY <1>5 DEF vars, IInv, TypeOK, Slots, Slot, MaxAttempts
<1> QED BY <1>1, <1>2, <1>3, <1>4, <1>5 DEF Next

(* The initial states satisfy the invariant. *)
LEMMA Initial == Init => IInv
<1> SUFFICES ASSUME Init PROVE IInv
  OBVIOUS
<1>1. Idle \in Request
  <2>1. Nothing \in Snapshot
    BY DEF Nothing, Snapshot
  <2>2. 0 \in Attempt /\ "idle" \in PC /\ "none" \in Outcome
    BY RetryAssumption DEF Attempt, PC, Outcome
  <2> QED BY <2>1, <2>2 DEF Idle, Request
<1>2. NoLog \in Log
  BY DEF NoLog, Log, RowState
<1>3. TypeOK
  BY <1>1, <1>2 DEF Init, TypeOK, Health
<1>4. Slots
  BY NullAssumption DEF Init, Slots, Slot, Idle, NoLog, EndState
<1> QED BY <1>3, <1>4 DEF IInv

(* So it holds throughout. *)
LEMMA Invariant == Spec => []IInv
<1>1. IInv /\ [Next]_vars => IInv'
  BY Inductive
<1> QED BY <1>1, Initial, PTL DEF Spec

(* The rows, requests and pending tasks keep their types for any number of *)
(* requests, targets and retries.                                          *)
THEOREM TypeCorrect == Spec => []TypeOK
<1>1. IInv => TypeOK
  BY DEF IInv
<1> QED BY <1>1, Invariant, PTL

(* The retry loop and the fallback of proxyRequest together send a request *)
(* at most retryCount + 2 times, and a piped body once per scheme.         *)
THEOREM ResendsAreBounded == Spec => []CallsBounded
<1>1. IInv => CallsBounded
  <2> SUFFICES ASSUME IInv, NEW r \in Requests
               PROVE  LET q == req[r] IN
                      /\ q.calls <= route.retryCount + 2
                      /\ q.streamed \/ route.streamResponse
                           => q.calls <= (IF q.https THEN 1 ELSE 2)
    BY DEF CallsBounded
  <2> QED
    BY Here, Setting, RetryAssumption DEF Slot, MaxAttempts, Request, Attempt, PC
<1> QED BY <1>1, Invariant, PTL

(* However requests, their unawaited log writes and failures interleave,   *)
(* the rows of a finished request tell its outcome.                        *)
THEOREM RowsAreRight == Spec => []RowsTellOutcome
<1>1. IInv => RowsTellOutcome
  BY Here DEF RowsTellOutcome, Slot
<1> QED BY <1>1, Invariant, PTL

(* flushCapture stores one body, the one of the first event that ended the *)
(* capture, whatever comes after it and however late the row is created.   *)
THEOREM BodiesAreRight == Spec => []BodyTellsEnd
<1>1. IInv => BodyTellsEnd
  <2> SUFFICES ASSUME IInv, NEW r \in Requests
               PROVE  LET body == log[r].body IN
                      /\ body \in EndState => body = req[r].end
                      /\ body = "complete" => req[r].ended
                      /\ body = "aborted" => ~req[r].ended
                      /\ Free(r) /\ req[r].outcome # "crashed"
                            /\ log[r].response = "stored"
                           => body # "placeholder"
    BY DEF BodyTellsEnd
  <2> QED BY Here DEF Slot, Free, Pending, EndState
<1> QED BY <1>1, Invariant, PTL

(* No request that selectTarget served from a later look at the targets    *)
(* brings an unhealthy target back.                                        *)
THEOREM UnhealthyStaysOut == Spec => NoWayBack
<1> DEFINE A == \A t \in Targets : target[t] = "unhealthy" /\ target'[t] = "healthy"
                  => \E r \in Requests :
                        ~Free(r) /\ req[r].target = t /\ req[r].healthy
<1>1. IInv /\ [Next]_vars => A
  <2> SUFFICES ASSUME IInv, [Next]_vars, NEW t \in Targets,
                      target[t] = "unhealthy", target'[t] = "healthy"
               PROVE  \E r \in Requests :
                        ~Free(r) /\ req[r].target = t /\ req[r].healthy
    OBVIOUS
  <2>0. target \in [Targets -> Health \cup {Null, "deleted"}]
    BY DEF IInv, TypeOK
  <2>1. \E r \in Requests, m \in {"healthy", "unhealthy"} : MarkTarget(r, m)
    BY <2>0, NullAssumption
    DEF Next, vars, Admission, Forwarding, Tasks, Arrive, Refuse,
       Maintenance, NoHealthyTarget, UseTargetUrl, SelectTarget, Answer, SendFails, StartStream,
       Retry, GiveUp, TlsMismatch, BudgetSpent, UpstreamEnds, UpstreamBreaks,
       ClientCloses, CreateResponseRow, CreateErrorRow, StoreBody, MarkFails, Crash,
       AddTarget, DeleteTarget
  <2>2. PICK r \in Requests, m \in {"healthy", "unhealthy"} : MarkTarget(r, m)
    BY <2>1
  <2>3. marks[r] # {} /\ req[r].target # Null /\ req[r].target \in Targets
    BY <2>2, Here DEF MarkTarget, Slot, Request
  <2>4. req[r].target = t
    BY <2>0, <2>2, <2>3 DEF MarkTarget
  <2> QED BY <2>3, <2>4, Here DEF Slot, Free, Pending
<1> QED BY <1>1, Invariant, PTL DEF Spec, NoWayBack

==============================================================================
