-------------------------- MODULE Incidents_proofs --------------------------
(***************************************************************************)
(* What operators and tasks leave of the incidents of a route, for any     *)
(* number of incidents, of tasks under way and of tasks started.           *)
(***************************************************************************)
EXTENDS Incidents, TLAPS

\* The types, without the bound on the tasks started, which no property depends on.
Typed ==
  /\ incident \in [Incident -> IncidentRow]
  /\ watch \in [WatchTask -> Task]
  /\ excused \subseteq Incident /\ settled \subseteq Incident
  /\ \A t \in WatchTask : watch[t].step \in {"update", "erase"} => watch[t].on \in Incident

\* A settled incident is on no list, so that no sweep will resolve it.
SettledOffList ==
  \A i \in settled : incident[i].status = "DISMISSED" /\ \A t \in WatchTask : i \notin watch[t].list

\* One incident at most is open, or about to be, through look-ups that did not overlap.
OneOpening ==
  /\ \A i, j \in OpenIncident \ excused : i = j
  /\ \A t, u \in Creating : watch[t].late \/ watch[u].late \/ t = u
  /\ \A t \in Creating : watch[t].late \/ OpenIncident \subseteq excused

-----------------------------------------------------------------------------
LEMMA IdleTyped == Idle \in Task
BY DEF Idle, Task, Step, Status

LEMMA StepTyped ==
  ASSUME NEW w \in Task, NEW s \in Step
  PROVE  [w EXCEPT !.step = s] \in Task
BY DEF Task

LEMMA OnTyped ==
  ASSUME NEW w \in Task, NEW s \in Step, NEW i \in Incident, NEW x \in Status
  PROVE  /\ [w EXCEPT !.step = s, !.on = i] \in Task
         /\ [w EXCEPT !.step = s, !.on = i, !.status = x] \in Task
         /\ \A ii \in SUBSET Incident : [w EXCEPT !.step = s, !.on = i, !.status = x, !.list = ii] \in Task
BY DEF Task

LEMMA ListTyped ==
  ASSUME NEW w \in Task, NEW s \in Step, NEW ii \in SUBSET Incident, NEW b \in BOOLEAN
  PROVE  /\ [w EXCEPT !.step = s, !.list = ii] \in Task
         /\ [w EXCEPT !.step = s, !.late = b] \in Task
         /\ [w EXCEPT !.step = s, !.sweep = b] \in Task
BY DEF Task

LEMMA LookUpTyped ==
  ASSUME NEW w \in Task, NEW n \in LookUp(w)
  PROVE  n \in Task
<1>1. FoundOpen \subseteq Incident /\ (Creating # {}) \in BOOLEAN
    BY DEF FoundOpen, OpenIncident
<1>2. "create" \in Step /\ "event" \in Step
    BY DEF Step
<1>3. CASE FoundOpen = {}
    <2>1. n = [w EXCEPT !.step = "create", !.late = (Creating # {})]
        BY <1>3 DEF LookUp
    <2>2. \A s \in Step, b \in BOOLEAN : [w EXCEPT !.step = s, !.late = b] \in Task
        BY ListTyped
    <2> QED
        BY <1>1, <1>2, <2>1, <2>2
<1>4. CASE FoundOpen # {}
    <2>1. "ACTIVE" \in Status
        BY DEF Status
    <2>2. PICK i \in FoundOpen : n = [w EXCEPT !.step = "event", !.on = i]
        BY <1>4 DEF LookUp
    <2> QED
        BY <1>1, <1>2, <2>1, <2>2, OnTyped
<1> QED
    BY <1>3, <1>4

LEMMA RowTyped ==
  ASSUME NEW i \in Incident, Typed
  PROVE  /\ \A s \in Status : [incident EXCEPT ![i].status = s] \in [Incident -> IncidentRow]
         /\ \A s \in Status \cup {"nothing"} : [incident EXCEPT ![i].told = s] \in [Incident -> IncidentRow]
         /\ [incident EXCEPT ![i] = [status |-> "deleted", told |-> "nothing"]] \in [Incident -> IncidentRow]
BY DEF Typed, IncidentRow

LEMMA WatchTyped ==
  ASSUME NEW t \in WatchTask, NEW w \in Task, Typed
  PROVE  /\ [watch EXCEPT ![t] = w] \in [WatchTask -> Task]
         /\ [watch EXCEPT ![t] = w][t] = w
         /\ \A u \in WatchTask \ {t} : [watch EXCEPT ![t] = w][u] = watch[u]
BY DEF Typed

LEMMA Kept ==
  ASSUME NEW t \in WatchTask, NEW w, w \in Task, Typed, Starts(t, w) \/ Continues(t, w)
  PROVE  watch' \in [WatchTask -> Task] /\ watch'[t] = w /\ \A u \in WatchTask \ {t} : watch'[u] = watch[u]
BY WatchTyped DEF Starts, Continues

LEMMA Ended ==
  ASSUME NEW t \in WatchTask, Typed, Ends(t)
  PROVE  watch' \in [WatchTask -> Task] /\ watch'[t] = Idle /\ \A u \in WatchTask \ {t} : watch'[u] = watch[u]
BY WatchTyped, IdleTyped DEF Ends

-----------------------------------------------------------------------------
(* The steps that change the status of no incident *)

\* The task t goes on, begins or ends; what it may gain is a list of open incidents, or the
\* intention to create one after it found none open.
QuietTask(t) ==
  /\ incident' \in [Incident -> IncidentRow]
  /\ \A i \in Incident : incident'[i].status = incident[i].status
  /\ excused' = excused /\ settled' = settled
  /\ watch' \in [WatchTask -> Task]
  /\ \A u \in WatchTask \ {t} : watch'[u] = watch[u]
  /\ watch'[t].list \subseteq watch[t].list \cup OpenIncident
  /\ watch'[t].step = "create" => FoundOpen = {} /\ (watch'[t].late <=> Creating # {})
  /\ watch'[t].step \in {"update", "erase"} => watch'[t].on \in Incident

LEMMA StartsQuiet ==
  ASSUME NEW t \in WatchTask, Typed,
         \/ runAllHealthChecks(t) \/ ProbeRoute(t) \/ checkAndCreateFromCBOpen(t)
         \/ \E i \in Incident, s \in Status : UpdateStatus(t, i, s)
  PROVE  QuietTask(t)
<1>1. /\ Idle \in Task /\ Idle.list = {} /\ Idle.step = "idle"
      /\ \A s \in {"probing", "update"} : s \in Step
    BY IdleTyped DEF Idle, Step
<1>2. CASE runAllHealthChecks(t)
    <2>1. [Idle EXCEPT !.step = "probing", !.sweep = TRUE] \in Task
        BY <1>1, ListTyped
    <2>2. [Idle EXCEPT !.step = "probing", !.sweep = TRUE].list = {}
          /\ [Idle EXCEPT !.step = "probing", !.sweep = TRUE].step = "probing"
        BY DEF Idle
    <2> QED
        BY <1>2, <2>1, <2>2, Kept DEF runAllHealthChecks, QuietTask, Typed
<1>3. CASE ProbeRoute(t)
    <2>1. [Idle EXCEPT !.step = "probing"] \in Task
        BY <1>1, StepTyped
    <2>2. [Idle EXCEPT !.step = "probing"].list = {} /\ [Idle EXCEPT !.step = "probing"].step = "probing"
        BY DEF Idle
    <2> QED
        BY <1>3, <2>1, <2>2, Kept DEF ProbeRoute, QuietTask, Typed
<1>4. CASE checkAndCreateFromCBOpen(t)
    <2>1. PICK n \in LookUp(Idle) : Starts(t, n)
        BY <1>4 DEF checkAndCreateFromCBOpen
    <2>2. n \in Task
        BY <1>1, <2>1, LookUpTyped
    <2>3. n.list = {} /\ (n.step = "create" => FoundOpen = {} /\ (n.late <=> Creating # {}))
          /\ n.step \in {"create", "event"}
        BY <2>1 DEF LookUp, Idle
    <2> QED
        BY <1>4, <2>1, <2>2, <2>3, Kept DEF checkAndCreateFromCBOpen, QuietTask, Typed
<1>5. CASE \E i \in Incident, s \in Status : UpdateStatus(t, i, s)
    <2>1. PICK i \in Incident, s \in Status : UpdateStatus(t, i, s)
        BY <1>5
    <2>2. [Idle EXCEPT !.step = "update", !.on = i, !.status = s] \in Task
        BY <1>1, OnTyped
    <2>3. [Idle EXCEPT !.step = "update", !.on = i, !.status = s].list = {}
          /\ [Idle EXCEPT !.step = "update", !.on = i, !.status = s].step = "update"
          /\ [Idle EXCEPT !.step = "update", !.on = i, !.status = s].on = i
        BY DEF Idle
    <2> QED
        BY <2>1, <2>2, <2>3, Kept DEF UpdateStatus, QuietTask, Typed
<1> QED
    BY <1>2, <1>3, <1>4, <1>5

LEMMA GoesQuiet ==
  ASSUME NEW t \in WatchTask, Typed,
         \/ ProbeHealthy(t) \/ ProbeUnhealthy(t) \/ ProbeThrows(t)
         \/ checkAndCreateFromHealthFailure(t) \/ addEvent(t) \/ ListActive(t) \/ Abandon(t)
  PROVE  QuietTask(t)
<1>1. /\ watch[t] \in Task /\ Idle.list = {} /\ Idle.step = "idle"
      /\ \A s \in {"probed", "failed", "listed"} : s \in Step
    BY DEF Idle, Step, Typed
<1>2. CASE ProbeHealthy(t)
    <2>1. [watch[t] EXCEPT !.step = "probed"] \in Task
        BY <1>1, StepTyped
    <2>2. [watch[t] EXCEPT !.step = "probed"].list = watch[t].list /\ [watch[t] EXCEPT !.step = "probed"].step = "probed"
        BY <1>1 DEF Task
    <2> QED
        BY <1>1, <1>2, <2>1, <2>2, Kept, Ended DEF ProbeHealthy, QuietTask, Typed
<1>3. CASE ProbeUnhealthy(t)
    BY <1>1, <1>3, Ended DEF ProbeUnhealthy, QuietTask, Typed
<1>4. CASE ProbeThrows(t)
    <2>1. [watch[t] EXCEPT !.step = "failed"] \in Task
        BY <1>1, StepTyped
    <2>2. [watch[t] EXCEPT !.step = "failed"].list = watch[t].list /\ [watch[t] EXCEPT !.step = "failed"].step = "failed"
        BY <1>1 DEF Task
    <2> QED
        BY <1>4, <2>1, <2>2, Kept DEF ProbeThrows, QuietTask, Typed
<1>5. CASE checkAndCreateFromHealthFailure(t)
    <2>1. PICK n \in LookUp(watch[t]) : Continues(t, n)
        BY <1>5 DEF checkAndCreateFromHealthFailure
    <2>2. n \in Task
        BY <1>1, <2>1, LookUpTyped
    <2>3. n.list = watch[t].list /\ (n.step = "create" => FoundOpen = {} /\ (n.late <=> Creating # {}))
          /\ n.step \in {"create", "event"}
        BY <1>1, <2>1, ZenonT(60) DEF LookUp, Task
    <2> QED
        BY <1>5, <2>1, <2>2, <2>3, Kept DEF checkAndCreateFromHealthFailure, QuietTask, Typed
<1>6. CASE addEvent(t)
    BY <1>1, <1>6, Ended DEF addEvent, QuietTask, Typed
<1>7. CASE ListActive(t)
    <2>1. ActiveList = OpenIncident /\ OpenIncident \in SUBSET Incident
        BY DEF ActiveList, OpenIncident
    <2>2. [watch[t] EXCEPT !.step = "listed", !.list = ActiveList] \in Task
        BY <1>1, <2>1, ListTyped
    <2>3. [watch[t] EXCEPT !.step = "listed", !.list = ActiveList].list = OpenIncident
          /\ [watch[t] EXCEPT !.step = "listed", !.list = ActiveList].step = "listed"
        BY <1>1, <2>1 DEF Task
    <2> QED
        BY <1>7, <2>2, <2>3, Kept DEF ListActive, QuietTask, Typed
<1>8. CASE Abandon(t)
    BY <1>1, <1>8, Ended DEF Abandon, QuietTask, Typed
<1> QED
    BY <1>2, <1>3, <1>4, <1>5, <1>6, <1>7, <1>8

\* Events and their deletion touch the timeline, not the status.
LEMMA TimelineQuiet ==
  ASSUME NEW t \in WatchTask, Typed,
         TellStatus(t) \/ AutoEvent(t) \/ \E i \in Incident : DeleteEvents(t, i)
  PROVE  QuietTask(t)
<1>1. /\ watch[t] \in Task /\ watch[t].status \in Status /\ watch[t].on \in Incident \cup {"none"}
      /\ Idle \in Task /\ Idle.list = {} /\ Idle.step = "idle"
      /\ \A s \in {"auto", "listed", "erase"} : s \in Step
    BY IdleTyped DEF Idle, Step, Typed, Task
<1>2. \A i \in Incident, s \in Status \cup {"nothing"} :
          /\ [incident EXCEPT ![i].told = s] \in [Incident -> IncidentRow]
          /\ \A j \in Incident : [incident EXCEPT ![i].told = s][j].status = incident[j].status
    BY RowTyped DEF Typed, IncidentRow
<1>3. \A s \in {"auto", "listed"} : /\ [watch[t] EXCEPT !.step = s] \in Task
                                    /\ [watch[t] EXCEPT !.step = s].list = watch[t].list
                                    /\ [watch[t] EXCEPT !.step = s].step = s
    <2> SUFFICES ASSUME NEW s \in {"auto", "listed"}
                 PROVE  /\ [watch[t] EXCEPT !.step = s] \in Task
                        /\ [watch[t] EXCEPT !.step = s].list = watch[t].list
                        /\ [watch[t] EXCEPT !.step = s].step = s
        OBVIOUS
    <2>1. [watch[t] EXCEPT !.step = s] \in Task
        BY <1>1, StepTyped
    <2> QED
        BY <1>1, <2>1 DEF Task
<1>4. ASSUME TellStatus(t) \/ AutoEvent(t)
      PROVE  /\ incident' \in [Incident -> IncidentRow]
             /\ \A i \in Incident : incident'[i].status = incident[i].status
    <2>1. CASE incident' = incident
        BY <2>1 DEF Typed
    <2>2. CASE incident' # incident
        <3>1. /\ Exists(watch[t].on)
              /\ \E s \in Status : incident' = [incident EXCEPT ![watch[t].on].told = s]
            BY <1>1, <1>4, <2>2 DEF TellStatus, AutoEvent, Status
        <3>2. CASE watch[t].on \in Incident
            BY <1>2, <3>1, <3>2
        <3>3. CASE watch[t].on \notin Incident
            BY <3>1, <3>3, <2>2 DEF Typed
        <3> QED
            BY <3>2, <3>3
    <2> QED
        BY <2>1, <2>2
<1>5. CASE TellStatus(t)
    <2>1. Continues(t, [watch[t] EXCEPT !.step = "auto"]) \/ Ends(t)
        BY <1>5 DEF TellStatus
    <2>2. /\ watch' \in [WatchTask -> Task]
          /\ \A u \in WatchTask \ {t} : watch'[u] = watch[u]
          /\ watch'[t].list \subseteq watch[t].list
          /\ watch'[t].step \notin {"create", "update", "erase"}
        <3>1. CASE Continues(t, [watch[t] EXCEPT !.step = "auto"])
            BY <1>3, <3>1, Kept
        <3>2. CASE Ends(t)
            BY <1>1, <3>2, Ended
        <3> QED
            BY <2>1, <3>1, <3>2
    <2>3. excused' = excused /\ settled' = settled
        BY <1>5 DEF TellStatus
    <2> QED
        BY <1>4, <1>5, <2>2, <2>3 DEF QuietTask
<1>6. CASE AutoEvent(t)
    <2>1. Continues(t, [watch[t] EXCEPT !.step = "listed"]) \/ Ends(t)
        BY <1>6 DEF AutoEvent
    <2>2. /\ watch' \in [WatchTask -> Task]
          /\ \A u \in WatchTask \ {t} : watch'[u] = watch[u]
          /\ watch'[t].list \subseteq watch[t].list
          /\ watch'[t].step \notin {"create", "update", "erase"}
        <3>1. CASE Continues(t, [watch[t] EXCEPT !.step = "listed"])
            BY <1>3, <3>1, Kept
        <3>2. CASE Ends(t)
            BY <1>1, <3>2, Ended
        <3> QED
            BY <2>1, <3>1, <3>2
    <2>3. excused' = excused /\ settled' = settled
        BY <1>6 DEF AutoEvent
    <2> QED
        BY <1>4, <1>6, <2>2, <2>3 DEF QuietTask
<1>7. CASE \E i \in Incident : DeleteEvents(t, i)
    <2>1. PICK i \in Incident : DeleteEvents(t, i)
        BY <1>7
    <2>2. "ACTIVE" \in Status
        BY DEF Status
    <2>3. [Idle EXCEPT !.step = "erase", !.on = i] \in Task
        BY <1>1, <2>2, OnTyped
    <2>4. [Idle EXCEPT !.step = "erase", !.on = i].list = {} /\ [Idle EXCEPT !.step = "erase", !.on = i].step = "erase"
          /\ [Idle EXCEPT !.step = "erase", !.on = i].on = i
        BY DEF Idle
    <2>5. /\ Starts(t, [Idle EXCEPT !.step = "erase", !.on = i])
          /\ incident' = [incident EXCEPT ![i].told = "nothing"]
          /\ excused' = excused /\ settled' = settled
        BY <2>1 DEF DeleteEvents
    <2>6. /\ incident' \in [Incident -> IncidentRow]
          /\ \A j \in Incident : incident'[j].status = incident[j].status
        BY <1>2, <2>5
    <2>7. /\ watch' \in [WatchTask -> Task]
          /\ \A u \in WatchTask \ {t} : watch'[u] = watch[u]
          /\ watch'[t].list = {} /\ watch'[t].step = "erase" /\ watch'[t].on \in Incident
        BY <2>3, <2>4, <2>5, Kept
    <2> QED
        BY <2>5, <2>6, <2>7 DEF QuietTask
<1> QED
    BY <1>5, <1>6, <1>7

\* A quiet step keeps all of the invariant.
LEMMA QuietGood ==
  ASSUME NEW t \in WatchTask, Typed, SettledOffList, OneOpening, QuietTask(t)
  PROVE  Typed' /\ SettledOffList' /\ OneOpening'
<1>1. Typed'
    BY DEF Typed, QuietTask
<1>2. OpenIncident' = OpenIncident
    BY DEF OpenIncident, QuietTask
<1>3. SettledOffList'
    <2> SUFFICES ASSUME NEW i \in settled, NEW u \in WatchTask
                 PROVE  incident'[i].status = "DISMISSED" /\ i \notin watch'[u].list
        BY DEF SettledOffList, QuietTask
    <2>1. i \in Incident /\ incident[i].status = "DISMISSED" /\ i \notin watch[u].list /\ i \notin watch[t].list
        BY DEF SettledOffList, Typed
    <2>2. i \notin OpenIncident
        BY <2>1 DEF OpenIncident, OpenStatus
    <2> QED
        BY <2>1, <2>2 DEF QuietTask
<1>4. OneOpening'
    <2>1. \A i, j \in OpenIncident' \ excused' : i = j
        BY <1>2 DEF OneOpening, QuietTask
    <2>2. \A u \in WatchTask \ {t} : watch'[u] = watch[u]
        BY DEF QuietTask
    <2>3. \A u \in Creating' : u # t => u \in Creating
        BY <2>2 DEF Creating
    <2>4. t \in Creating' => FoundOpen = {} /\ (watch'[t].late <=> Creating # {})
        BY DEF QuietTask, Creating
    <2>5. \A u, v \in Creating' : watch'[u].late \/ watch'[v].late \/ u = v
        <3> SUFFICES ASSUME NEW u \in Creating', NEW v \in Creating', u # v
                     PROVE  watch'[u].late \/ watch'[v].late
            OBVIOUS
        <3>1. u \in WatchTask /\ v \in WatchTask
            BY DEF Creating
        <3>2. CASE u # t /\ v # t
            BY <2>2, <2>3, <3>1, <3>2 DEF OneOpening
        <3>3. CASE u = t
            BY <2>3, <2>4, <3>3
        <3>4. CASE v = t
            BY <2>3, <2>4, <3>4
        <3> QED
            BY <3>2, <3>3, <3>4
    <2>6. \A u \in Creating' : watch'[u].late \/ OpenIncident' \subseteq excused'
        <3> SUFFICES ASSUME NEW u \in Creating' PROVE watch'[u].late \/ OpenIncident \subseteq excused
            BY <1>2 DEF QuietTask
        <3>1. CASE u = t
            BY <2>4, <3>1 DEF FoundOpen
        <3>2. CASE u # t
            <4>1. u \in WatchTask
                BY DEF Creating
            <4> QED
                BY <2>2, <2>3, <3>2, <4>1 DEF OneOpening
        <3> QED
            BY <3>1, <3>2
    <2> QED
        BY <2>1, <2>5, <2>6 DEF OneOpening
<1> QED
    BY <1>1, <1>3, <1>4

-----------------------------------------------------------------------------
(* The steps that write a status *)

\* The status of i becomes s, and the task t keeps no incident on its list that it did not have.
Writes(t, i, s) ==
  /\ incident' \in [Incident -> IncidentRow]
  /\ incident'[i].status = s /\ \A j \in Incident \ {i} : incident'[j].status = incident[j].status
  /\ watch' \in [WatchTask -> Task]
  /\ \A u \in WatchTask \ {t} : watch'[u] = watch[u]
  /\ watch'[t].list \subseteq watch[t].list
  /\ watch'[t].step \notin {"create", "update", "erase"}

\* What every writing step has to show, apart from the types.
LEMMA WritesGood ==
  ASSUME NEW t \in WatchTask, NEW i \in Incident, NEW s, Writes(t, i, s),
         Typed, SettledOffList, OneOpening, Typed',
         \A j \in settled' : (j = i => s = "DISMISSED" /\ \A u \in WatchTask : i \notin watch[u].list)
                             /\ (j # i => j \in settled),
         excused \subseteq excused',
         s \in OpenStatus => i \in excused' \/ i \in OpenIncident \/ (t \in Creating /\ ~watch[t].late)
  PROVE  SettledOffList' /\ OneOpening'
<1>1. SettledOffList'
    <2> SUFFICES ASSUME NEW j \in settled', NEW u \in WatchTask
                 PROVE  incident'[j].status = "DISMISSED" /\ j \notin watch'[u].list
        BY DEF SettledOffList
    <2>1. watch'[u].list \subseteq watch[u].list /\ j \in Incident
        BY DEF Writes, Typed
    <2>2. CASE j = i
        BY <2>1, <2>2 DEF Writes
    <2>3. CASE j # i
        BY <2>1, <2>3 DEF Writes, SettledOffList
    <2> QED
        BY <2>2, <2>3
<1>2. \A j \in OpenIncident' : j # i => j \in OpenIncident
    BY DEF OpenIncident, Writes
<1>3. i \in OpenIncident' => s \in OpenStatus
    BY DEF OpenIncident, Writes
<1>4. Creating' \subseteq Creating \ {t} /\ \A u \in Creating' : watch'[u] = watch[u]
    BY DEF Creating, Writes
<1>5. \A j \in OpenIncident' \ excused' :
          \/ j \in OpenIncident \ excused
          \/ j = i /\ t \in Creating /\ ~watch[t].late
    BY <1>2, <1>3
<1>6. \A j, k \in OpenIncident' \ excused' : j = k
    BY <1>5 DEF OneOpening
<1>7. \A u, v \in Creating' : watch'[u].late \/ watch'[v].late \/ u = v
    BY <1>4 DEF OneOpening
<1>8. \A u \in Creating' : watch'[u].late \/ OpenIncident' \subseteq excused'
    <2> SUFFICES ASSUME NEW u \in Creating', ~watch'[u].late, NEW j \in OpenIncident', j \notin excused'
                 PROVE  FALSE
        OBVIOUS
    <2>1. u \in Creating /\ u # t /\ ~watch[u].late
        BY <1>4
    <2>2. OpenIncident \subseteq excused
        BY <2>1 DEF OneOpening
    <2>3. t \in Creating /\ ~watch[t].late
        BY <1>5, <2>2
    <2> QED
        BY <2>1, <2>3 DEF OneOpening
<1> QED
    BY <1>1, <1>6, <1>7, <1>8 DEF OneOpening

LEMMA WritesTyped ==
  ASSUME NEW t \in WatchTask, NEW i \in Incident, NEW s, Writes(t, i, s), Typed,
         excused' \subseteq Incident, settled' \subseteq Incident
  PROVE  Typed'
BY DEF Writes, Typed

LEMMA StatusWritten ==
  ASSUME NEW i \in Incident, NEW s \in Status, Typed
  PROVE  /\ [incident EXCEPT ![i].status = s] \in [Incident -> IncidentRow]
         /\ [incident EXCEPT ![i].status = s][i].status = s
         /\ \A j \in Incident \ {i} : [incident EXCEPT ![i].status = s][j].status = incident[j].status
BY RowTyped DEF Typed, IncidentRow

LEMMA CreateIncidentGood ==
  ASSUME NEW t \in WatchTask, NEW i \in Incident, Typed, SettledOffList, OneOpening,
         create(t, i) \/ CreateByHand(t, i)
  PROVE  Typed' /\ SettledOffList' /\ OneOpening'
<1>1. /\ watch[t] \in Task /\ Idle \in Task /\ "announce" \in Step /\ "ACTIVE" \in Status
      /\ Idle.list = {}
    BY IdleTyped DEF Typed, Step, Status, Idle
<1>2. /\ incident' = [incident EXCEPT ![i].status = "ACTIVE"] /\ incident[i].status = "unused"
      /\ settled' = settled
    BY DEF create, CreateByHand
<1>3. /\ watch' \in [WatchTask -> Task]
      /\ \A u \in WatchTask \ {t} : watch'[u] = watch[u]
      /\ watch'[t].list \subseteq watch[t].list
      /\ watch'[t].step = "announce"
    <2>1. CASE create(t, i)
        <3>1. [watch[t] EXCEPT !.step = "announce", !.on = i, !.status = "ACTIVE"] \in Task
            BY <1>1, OnTyped
        <3>2. /\ [watch[t] EXCEPT !.step = "announce", !.on = i, !.status = "ACTIVE"].list = watch[t].list
              /\ [watch[t] EXCEPT !.step = "announce", !.on = i, !.status = "ACTIVE"].step = "announce"
            BY <1>1 DEF Task
        <3>3. Continues(t, [watch[t] EXCEPT !.step = "announce", !.on = i, !.status = "ACTIVE"])
            BY <2>1 DEF create
        <3> QED
            BY <3>1, <3>2, <3>3, Kept
    <2>2. CASE CreateByHand(t, i)
        <3>1. [Idle EXCEPT !.step = "announce", !.on = i] \in Task
            BY <1>1, OnTyped
        <3>2. /\ [Idle EXCEPT !.step = "announce", !.on = i].list = {}
              /\ [Idle EXCEPT !.step = "announce", !.on = i].step = "announce"
            BY DEF Idle
        <3>3. Starts(t, [Idle EXCEPT !.step = "announce", !.on = i])
            BY <2>2 DEF CreateByHand
        <3> QED
            BY <3>1, <3>2, <3>3, Kept
    <2> QED
        BY <2>1, <2>2
<1>4. Writes(t, i, "ACTIVE")
    BY <1>1, <1>2, <1>3, StatusWritten DEF Writes
<1>5. /\ excused \subseteq excused' /\ excused' \subseteq Incident
      /\ i \in excused' \/ (t \in Creating /\ ~watch[t].late)
    BY DEF create, CreateByHand, Creating, Typed
<1>6. Typed'
    BY <1>2, <1>4, <1>5, WritesTyped DEF Typed
<1>7. \A j \in settled' : j # i /\ j \in settled
    BY <1>2 DEF SettledOffList
<1> QED
    BY <1>4, <1>5, <1>6, <1>7, WritesGood

LEMMA UpdateStatusGood ==
  ASSUME NEW t \in WatchTask, Typed, SettledOffList, OneOpening, updateStatus(t)
  PROVE  Typed' /\ SettledOffList' /\ OneOpening'
<1> DEFINE i == watch[t].on
           s == watch[t].status
<1>1. /\ watch[t] \in Task /\ i \in Incident /\ s \in Status /\ "tell" \in Step
      /\ Idle.list = {} /\ Idle.step = "idle"
    BY DEF Typed, Task, updateStatus, Step, Idle
<1>2. CASE Exists(i)
    <2>1. /\ incident' = [incident EXCEPT ![i].status = s]
          /\ Continues(t, [watch[t] EXCEPT !.step = "tell"])
          /\ excused' = IF s \in OpenStatus /\ i \notin OpenIncident THEN excused \cup {i} ELSE excused
          /\ settled' = IF s = "DISMISSED" /\ \A u \in WatchTask : i \notin watch[u].list
                        THEN settled \cup {i} ELSE settled \ {i}
        BY <1>2 DEF updateStatus
    <2>2. [watch[t] EXCEPT !.step = "tell"] \in Task
        BY <1>1, StepTyped
    <2>3. [watch[t] EXCEPT !.step = "tell"].list = watch[t].list /\ [watch[t] EXCEPT !.step = "tell"].step = "tell"
        BY <1>1 DEF Task
    <2>4. Writes(t, i, s)
        <3>1. /\ watch' \in [WatchTask -> Task]
              /\ \A u \in WatchTask \ {t} : watch'[u] = watch[u]
              /\ watch'[t].list \subseteq watch[t].list
              /\ watch'[t].step = "tell"
            BY <2>1, <2>2, <2>3, Kept
        <3> QED
            BY <1>1, <2>1, <3>1, StatusWritten DEF Writes
    <2>5. Typed'
        BY <1>1, <2>1, <2>4, WritesTyped DEF Typed
    <2>6. \A j \in settled' : (j = i => s = "DISMISSED" /\ \A u \in WatchTask : i \notin watch[u].list)
                              /\ (j # i => j \in settled)
        BY <2>1
    <2>7. excused \subseteq excused' /\ (s \in OpenStatus => i \in excused' \/ i \in OpenIncident)
        BY <2>1
    <2> HIDE DEF i, s
    <2> QED
        BY <1>1, <2>4, <2>5, <2>6, <2>7, WritesGood
<1>3. CASE ~Exists(i)
    <2>1. Ends(t) /\ UNCHANGED <<incident, excused, settled>>
        BY <1>3 DEF updateStatus
    <2>2. QuietTask(t)
        BY <1>1, <2>1, Ended DEF QuietTask, Typed
    <2> QED
        BY <2>2, QuietGood
<1> QED
    BY <1>2, <1>3

LEMMA ResolveGood ==
  ASSUME NEW t \in WatchTask, Typed, SettledOffList, OneOpening, autoResolveIfHealthy(t)
  PROVE  Typed' /\ SettledOffList' /\ OneOpening'
<1>1. /\ watch[t] \in Task /\ watch[t].list \subseteq Incident /\ "tell" \in Step /\ "RESOLVED" \in Status
      /\ Idle.list = {} /\ Idle.step = "idle"
    BY DEF Typed, Task, Step, Status, Idle
<1>2. excused' = excused /\ settled' = settled
    BY DEF autoResolveIfHealthy
<1>3. CASE Ends(t) /\ incident' = incident
    <2>1. QuietTask(t)
        BY <1>1, <1>2, <1>3, Ended DEF QuietTask, Typed
    <2> QED
        BY <2>1, QuietGood
<1>4. CASE ~(Ends(t) /\ incident' = incident)
    <2>1. PICK i \in watch[t].list :
              /\ incident' = [incident EXCEPT ![i].status = "RESOLVED"]
              /\ Continues(t, [watch[t] EXCEPT !.step = "tell", !.on = i, !.status = "RESOLVED",
                                              !.list = watch[t].list \ {i}])
        BY <1>1, <1>4 DEF autoResolveIfHealthy, Task
    <2>2. i \in Incident /\ watch[t].list \ {i} \in SUBSET Incident
        BY <1>1
    <2>3. [watch[t] EXCEPT !.step = "tell", !.on = i, !.status = "RESOLVED", !.list = watch[t].list \ {i}] \in Task
        BY <1>1, <2>2, OnTyped
    <2>4. /\ [watch[t] EXCEPT !.step = "tell", !.on = i, !.status = "RESOLVED", !.list = watch[t].list \ {i}].list
               = watch[t].list \ {i}
          /\ [watch[t] EXCEPT !.step = "tell", !.on = i, !.status = "RESOLVED", !.list = watch[t].list \ {i}].step
               = "tell"
        BY <1>1 DEF Task
    <2>5. Writes(t, i, "RESOLVED")
        <3>1. /\ watch' \in [WatchTask -> Task]
              /\ \A u \in WatchTask \ {t} : watch'[u] = watch[u]
              /\ watch'[t].list \subseteq watch[t].list
              /\ watch'[t].step = "tell"
            BY <2>1, <2>3, <2>4, Kept
        <3> QED
            BY <1>1, <2>1, <2>2, <3>1, StatusWritten DEF Writes
    <2>6. Typed'
        BY <1>2, <2>2, <2>5, WritesTyped DEF Typed
    <2>7. i \notin settled
        BY DEF SettledOffList
    <2>8. "RESOLVED" \notin OpenStatus
        BY DEF OpenStatus
    <2> QED
        BY <1>2, <2>2, <2>5, <2>6, <2>7, <2>8, WritesGood
<1> QED
    BY <1>3, <1>4

LEMMA DeleteGood ==
  ASSUME NEW t \in WatchTask, Typed, SettledOffList, OneOpening, deleteIncident(t)
  PROVE  Typed' /\ SettledOffList' /\ OneOpening'
<1> DEFINE i == watch[t].on
<1>1. /\ i \in Incident /\ Idle.list = {} /\ Idle.step = "idle"
      /\ Ends(t) /\ excused' = excused /\ settled' = settled \ {i}
    BY DEF Typed, deleteIncident, Idle
<1>2. /\ watch' \in [WatchTask -> Task]
      /\ \A u \in WatchTask \ {t} : watch'[u] = watch[u]
      /\ watch'[t].list = {} /\ watch'[t].step = "idle"
    BY <1>1, Ended
<1>3. \E s \in {"deleted", "unused"} : Writes(t, i, s)
    <2>1. CASE Exists(i)
        <3>1. incident' = [incident EXCEPT ![i] = [status |-> "deleted", told |-> "nothing"]]
            BY <2>1 DEF deleteIncident
        <3>2. /\ incident' \in [Incident -> IncidentRow]
              /\ incident'[i].status = "deleted"
              /\ \A j \in Incident \ {i} : incident'[j].status = incident[j].status
            BY <1>1, <3>1, RowTyped DEF Typed, IncidentRow
        <3> QED
            BY <1>2, <3>2 DEF Writes
    <2>2. CASE ~Exists(i)
        <3>1. incident' = incident
            BY <2>2 DEF deleteIncident
        <3>2. incident[i].status \in {"deleted", "unused"}
            BY <2>2 DEF Exists
        <3> QED
            BY <1>1, <1>2, <3>1, <3>2 DEF Writes, Typed
    <2> QED
        BY <2>1, <2>2
<1>4. PICK s \in {"deleted", "unused"} : Writes(t, i, s)
    BY <1>3
<1>5. Typed'
    BY <1>1, <1>4, WritesTyped DEF Typed
<1>6. s \notin OpenStatus
    BY DEF OpenStatus
<1>7. \A j \in settled' : j # i /\ j \in settled
    BY <1>1
<1>8. excused \subseteq excused'
    BY <1>1
<1> HIDE DEF i
<1> QED
    BY <1>1, <1>4, <1>5, <1>6, <1>7, <1>8, WritesGood

-----------------------------------------------------------------------------
IncidentsInv == Typed /\ SettledOffList /\ OneOpening

LEMMA IncidentsInitGood == IncidentsInit => IncidentsInv
<1> SUFFICES ASSUME IncidentsInit PROVE IncidentsInv
    OBVIOUS
<1>1. Typed
    <2>1. incident \in [Incident -> IncidentRow]
        BY DEF IncidentsInit, IncidentRow
    <2>2. watch \in [WatchTask -> Task] /\ \A t \in WatchTask : watch[t].step = "idle"
        BY IdleTyped DEF IncidentsInit, Idle
    <2> QED
        BY <2>1, <2>2 DEF IncidentsInit, Typed
<1>2. OpenIncident = {} /\ Creating = {}
    BY DEF IncidentsInit, OpenIncident, OpenStatus, Creating, Idle
<1> QED
    BY <1>1, <1>2 DEF IncidentsInv, SettledOffList, OneOpening, IncidentsInit

LEMMA IncidentsStepGood == IncidentsInv /\ [IncidentsNext]_incidentVars => IncidentsInv'
<1> SUFFICES ASSUME IncidentsInv, [IncidentsNext]_incidentVars PROVE IncidentsInv'
    OBVIOUS
<1> USE DEF IncidentsInv
<1>1. CASE UNCHANGED incidentVars
    BY <1>1 DEF incidentVars, Typed, SettledOffList, OneOpening, OpenIncident, Creating
<1>2. CASE IncidentsNext
    <2>1. PICK t \in WatchTask : WatchStep(t)
        BY <1>2 DEF IncidentsNext
    <2>2. CASE \/ runAllHealthChecks(t) \/ ProbeRoute(t) \/ checkAndCreateFromCBOpen(t)
               \/ \E i \in Incident, s \in Status : UpdateStatus(t, i, s)
        BY <2>2, StartsQuiet, QuietGood
    <2>3. CASE \/ ProbeHealthy(t) \/ ProbeUnhealthy(t) \/ ProbeThrows(t)
               \/ checkAndCreateFromHealthFailure(t) \/ addEvent(t) \/ ListActive(t) \/ Abandon(t)
        BY <2>3, GoesQuiet, QuietGood
    <2>4. CASE TellStatus(t) \/ AutoEvent(t) \/ \E i \in Incident : DeleteEvents(t, i)
        BY <2>4, TimelineQuiet, QuietGood
    <2>5. CASE \E i \in Incident : create(t, i) \/ CreateByHand(t, i)
        BY <2>5, CreateIncidentGood
    <2>6. CASE updateStatus(t)
        BY <2>6, UpdateStatusGood
    <2>7. CASE autoResolveIfHealthy(t)
        BY <2>7, ResolveGood
    <2>8. CASE deleteIncident(t)
        BY <2>8, DeleteGood
    <2> QED
        BY <2>1, <2>2, <2>3, <2>4, <2>5, <2>6, <2>7, <2>8 DEF WatchStep
<1> QED
    BY <1>1, <1>2

-----------------------------------------------------------------------------
\* checkAndCreateFromHealthFailure and checkAndCreateFromCBOpen open one incident at a time
\* as long as their look-ups do not overlap.
THEOREM OpensOnce == IncidentsSpec => []OneOpenIncident
<1>1. IncidentsInv => OneOpenIncident
    BY DEF IncidentsInv, OneOpening, OneOpenIncident
<1> QED
    BY <1>1, IncidentsInitGood, IncidentsStepGood, PTL DEF IncidentsSpec

\* autoResolveIfHealthy leaves an incident alone that updateStatus dismissed before the
\* sweep read its list.
THEOREM DismissalKept == IncidentsSpec => []DismissedStays
<1>1. IncidentsInv => DismissedStays
    BY DEF IncidentsInv, SettledOffList, DismissedStays
<1> QED
    BY <1>1, IncidentsInitGood, IncidentsStepGood, PTL DEF IncidentsSpec

-----------------------------------------------------------------------------
(* The timeline *)

TellSteps == {"announce", "tell", "auto"}

\* What the event of a task will say: a sweep tells RESOLVED only, and the incident was created.
Tellers ==
  \A t \in WatchTask :
    /\ watch[t].step \in TellSteps => watch[t].on \in Incident /\ incident[watch[t].on].status # "unused"
    /\ watch[t].step = "tell" /\ watch[t].sweep => watch[t].status = "RESOLVED"
    /\ watch[t].step = "auto" => watch[t].status = "RESOLVED"
    /\ watch[t].step = "update" => ~watch[t].sweep

\* The event to come, or the last one there is, names the status of the row.
ToldOrTelling ==
  \A i \in Incident \ muddled : Exists(i) =>
    /\ \A t \in Telling(i) : /\ watch[t].status = incident[i].status
                             /\ watch[t].step = "auto" => incident[i].told = incident[i].status
    /\ Telling(i) = {} => incident[i].told = incident[i].status

\* A step of a task that neither tells nor is about to, and writes no row.
LEMMA SilentStep ==
  ASSUME NEW t \in WatchTask, Typed, Tellers, ToldOrTelling,
         watch[t].step \notin TellSteps, watch'[t].step \notin TellSteps,
         watch'[t].step = "update" => ~watch'[t].sweep,
         \A u \in WatchTask \ {t} : watch'[u] = watch[u],
         incident' = incident, muddled' = muddled
  PROVE  Tellers' /\ ToldOrTelling'
<1>1. Tellers'
    <2> SUFFICES ASSUME NEW u \in WatchTask
                 PROVE  /\ watch'[u].step \in TellSteps => watch'[u].on \in Incident /\ incident[watch'[u].on].status # "unused"
                        /\ watch'[u].step = "tell" /\ watch'[u].sweep => watch'[u].status = "RESOLVED"
                        /\ watch'[u].step = "auto" => watch'[u].status = "RESOLVED"
                        /\ watch'[u].step = "update" => ~watch'[u].sweep
        BY DEF Tellers
    <2>1. CASE u = t
        BY <2>1 DEF TellSteps
    <2>2. CASE u # t
        BY <2>2 DEF Tellers
    <2> QED
        BY <2>1, <2>2
<1>2. \A i \in Incident : Telling(i)' = Telling(i) /\ t \notin Telling(i)
    BY DEF Telling, TellSteps
<1>3. \A i \in Incident : Exists(i)' = Exists(i)
    BY DEF Exists
<1>4. \A i \in Incident : \A u \in Telling(i) : watch'[u] = watch[u]
    BY <1>2 DEF Telling
<1>5. ToldOrTelling'
    BY <1>2, <1>3, <1>4 DEF ToldOrTelling
<1> QED
    BY <1>1, <1>5

\* A task that was not telling writes the status of i and will tell it.
LEMMA WriteTold ==
  ASSUME NEW t \in WatchTask, NEW i \in Incident, Typed, Tellers, ToldOrTelling,
         watch[t].step \notin TellSteps,
         \A u \in WatchTask \ {t} : watch'[u] = watch[u],
         watch'[t].step \in {"announce", "tell"}, watch'[t].on = i,
         watch'[t].status = incident'[i].status, incident'[i].status # "unused",
         watch'[t].step = "tell" /\ watch'[t].sweep => watch'[t].status = "RESOLVED",
         \A j \in Incident \ {i} : incident'[j] = incident[j],
         muddled \ {i} \subseteq muddled',
         i \in muddled' \/ Telling(i) \ {t} = {}
  PROVE  Tellers' /\ ToldOrTelling'
<1>1. Tellers'
    <2> SUFFICES ASSUME NEW u \in WatchTask
                 PROVE  /\ watch'[u].step \in TellSteps => watch'[u].on \in Incident /\ incident'[watch'[u].on].status # "unused"
                        /\ watch'[u].step = "tell" /\ watch'[u].sweep => watch'[u].status = "RESOLVED"
                        /\ watch'[u].step = "auto" => watch'[u].status = "RESOLVED"
                        /\ watch'[u].step = "update" => ~watch'[u].sweep
        BY DEF Tellers
    <2>1. CASE u = t
        BY <2>1
    <2>2. CASE u # t
        BY <2>2 DEF Tellers
    <2> QED
        BY <2>1, <2>2
<1>2. /\ \A j \in Incident \ {i} : Telling(j)' = Telling(j) /\ t \notin Telling(j)
      /\ Telling(i)' = Telling(i) \cup {t}
    BY DEF Telling, TellSteps
<1>3. \A j \in Incident : \A u \in Telling(j) \ {t} : watch'[u] = watch[u]
    BY DEF Telling
<1>4. \A j \in Incident \ {i} : Exists(j)' = Exists(j)
    BY DEF Exists
<1>5. ToldOrTelling'
    <2> SUFFICES ASSUME NEW j \in Incident, j \notin muddled', Exists(j)'
                 PROVE  /\ \A u \in Telling(j)' : /\ watch'[u].status = incident'[j].status
                                                  /\ watch'[u].step = "auto" => incident'[j].told = incident'[j].status
                        /\ Telling(j)' = {} => incident'[j].told = incident'[j].status
        BY DEF ToldOrTelling
    <2>1. CASE j = i
        <3>1. Telling(i)' = {t}
            BY <1>2, <2>1
        <3> QED
            BY <2>1, <3>1
    <2>2. CASE j # i
        BY <1>2, <1>3, <1>4, <2>2 DEF ToldOrTelling
    <2> QED
        BY <2>1, <2>2
<1> QED
    BY <1>1, <1>5

\* The event of t is written, or t is abandoned with its incident among the exceptions.
LEMMA EventTold ==
  ASSUME NEW t \in WatchTask, NEW i \in Incident, Tellers, ToldOrTelling,
         \A u \in WatchTask \ {t} : watch'[u] = watch[u],
         watch[t].step \in TellSteps, watch[t].on = i,
         \/ watch'[t].step \notin TellSteps \cup {"update"}
         \/ /\ watch'[t].step = "auto" /\ watch'[t].on = i
            /\ watch'[t].status = watch[t].status /\ watch[t].status = "RESOLVED",
         \A j \in Incident : incident'[j].status = incident[j].status,
         \A j \in Incident \ {i} : incident'[j].told = incident[j].told,
         \/ incident'[i].told = watch[t].status
         \/ incident'[i].told = incident[i].told /\ (watch[t].step = "auto" \/ i \in muddled')
         \/ ~Exists(i),
         muddled \subseteq muddled'
  PROVE  Tellers' /\ ToldOrTelling'
<1>0. incident[i].status # "unused"
    BY DEF Tellers
<1>1. Tellers'
    <2> SUFFICES ASSUME NEW u \in WatchTask
                 PROVE  /\ watch'[u].step \in TellSteps => watch'[u].on \in Incident /\ incident'[watch'[u].on].status # "unused"
                        /\ watch'[u].step = "tell" /\ watch'[u].sweep => watch'[u].status = "RESOLVED"
                        /\ watch'[u].step = "auto" => watch'[u].status = "RESOLVED"
                        /\ watch'[u].step = "update" => ~watch'[u].sweep
        BY DEF Tellers
    <2>1. CASE u = t
        BY <1>0, <2>1 DEF TellSteps
    <2>2. CASE u # t
        BY <2>2 DEF Tellers
    <2> QED
        BY <2>1, <2>2
<1>2. /\ \A j \in Incident \ {i} : Telling(j)' = Telling(j) /\ t \notin Telling(j)
      /\ Telling(i)' \subseteq Telling(i) /\ Telling(i) \subseteq Telling(i)' \cup {t}
      /\ t \in Telling(i)
    BY DEF Telling, TellSteps
<1>3. \A j \in Incident : \A u \in Telling(j) \ {t} : watch'[u] = watch[u]
    BY DEF Telling
<1>4. \A j \in Incident : Exists(j)' = Exists(j)
    BY DEF Exists
<1>5. ToldOrTelling'
    <2> SUFFICES ASSUME NEW j \in Incident, j \notin muddled', Exists(j)'
                 PROVE  /\ \A u \in Telling(j)' : /\ watch'[u].status = incident'[j].status
                                                  /\ watch'[u].step = "auto" => incident'[j].told = incident'[j].status
                        /\ Telling(j)' = {} => incident'[j].told = incident'[j].status
        BY DEF ToldOrTelling
    <2>0. j \notin muddled /\ Exists(j) /\ incident'[j].status = incident[j].status
        BY <1>4
    <2>1. CASE j = i
        <3>1. /\ watch[t].status = incident[i].status
              /\ watch[t].step = "auto" => incident[i].told = incident[i].status
            BY <1>2, <2>0, <2>1 DEF ToldOrTelling
        <3>2. incident'[i].told = incident[i].status
            BY <2>0, <2>1, <3>1
        <3>3. \A u \in Telling(i)' : watch'[u].status = incident[i].status
            <4> SUFFICES ASSUME NEW u \in Telling(i)' PROVE watch'[u].status = incident[i].status
                OBVIOUS
            <4>1. CASE u = t
                <5>1. watch'[t].step \in TellSteps
                    BY <4>1 DEF Telling, TellSteps
                <5> QED
                    BY <3>1, <4>1, <5>1
            <4>2. CASE u # t
                BY <1>2, <1>3, <2>0, <2>1, <4>2 DEF ToldOrTelling
            <4> QED
                BY <4>1, <4>2
        <3> QED
            BY <2>0, <2>1, <3>2, <3>3
    <2>2. CASE j # i
        <3>1. incident'[j].told = incident[j].told
            BY <2>2
        <3> QED
            BY <1>2, <1>3, <2>0, <2>2, <3>1 DEF ToldOrTelling
    <2> QED
        BY <2>1, <2>2
<1> QED
    BY <1>1, <1>5

-----------------------------------------------------------------------------
(* Where each step takes its task *)

LEMMA StepMoves ==
  ASSUME NEW t \in WatchTask, NEW s \in Step, Typed, Continues(t, [watch[t] EXCEPT !.step = s])
  PROVE  /\ \A u \in WatchTask \ {t} : watch'[u] = watch[u]
         /\ watch'[t].step = s /\ watch'[t].on = watch[t].on
         /\ watch'[t].status = watch[t].status /\ watch'[t].sweep = watch[t].sweep
<1>1. watch[t] \in Task
    BY DEF Typed
<1>2. [watch[t] EXCEPT !.step = s] \in Task
    BY <1>1, StepTyped
<1>3. /\ [watch[t] EXCEPT !.step = s].step = s /\ [watch[t] EXCEPT !.step = s].on = watch[t].on
      /\ [watch[t] EXCEPT !.step = s].status = watch[t].status
      /\ [watch[t] EXCEPT !.step = s].sweep = watch[t].sweep
    BY <1>1 DEF Task
<1> QED
    BY <1>2, <1>3, Kept

\* What a look-up leads to.
LEMMA LookUpMoves ==
  ASSUME NEW w \in Task, NEW n \in LookUp(w)
  PROVE  n.step = "create" \/ (n.step = "event" /\ OpenIncident # {})
<1>1. n.step \in {"create", "event"}
    BY DEF LookUp, Task
<1>2. n.step = "event" => FoundOpen # {}
    BY DEF LookUp, Task
<1> QED
    BY <1>1, <1>2 DEF FoundOpen

LEMMA StartMoves ==
  ASSUME NEW t \in WatchTask, Typed,
         \/ runAllHealthChecks(t) \/ ProbeRoute(t) \/ checkAndCreateFromCBOpen(t)
         \/ \E i \in Incident, s \in Status : UpdateStatus(t, i, s)
  PROVE  /\ watch[t].step = "idle" /\ \A u \in WatchTask \ {t} : watch'[u] = watch[u]
         /\ \/ watch'[t].step = "probing" /\ crossed' = (Checking # {})
            \/ /\ watch'[t].step \in {"create", "event"} \/ (watch'[t].step = "update" /\ ~watch'[t].sweep)
               /\ crossed' = crossed
         /\ incident' = incident /\ muddled' = muddled /\ health' = health /\ handled' = handled
<1>1. Idle \in Task /\ Idle.step = "idle" /\ Idle.sweep = FALSE /\ "probing" \in Step /\ "update" \in Step
    BY IdleTyped DEF Idle, Step
<1>2. /\ watch[t].step = "idle" /\ \A u \in WatchTask \ {t} : watch'[u] = watch[u]
      /\ incident' = incident /\ muddled' = muddled /\ health' = health /\ handled' = handled
    <2>1. QuietTask(t)
        BY StartsQuiet
    <2>2. watch[t] = Idle
        BY DEF runAllHealthChecks, ProbeRoute, checkAndCreateFromCBOpen, UpdateStatus, Starts
    <2> QED
        BY <1>1, <2>1, <2>2 DEF QuietTask, runAllHealthChecks, ProbeRoute, checkAndCreateFromCBOpen, UpdateStatus
<1>3. runAllHealthChecks(t) => watch'[t].step = "probing"
    <2>1. [Idle EXCEPT !.step = "probing", !.sweep = TRUE] \in Task
        BY <1>1, ListTyped
    <2>2. [Idle EXCEPT !.step = "probing", !.sweep = TRUE].step = "probing"
        BY DEF Idle
    <2> QED
        BY <2>1, <2>2, Kept DEF runAllHealthChecks
<1>4. ProbeRoute(t) => watch'[t].step = "probing"
    <2>1. [Idle EXCEPT !.step = "probing"] \in Task
        BY <1>1, StepTyped
    <2>2. [Idle EXCEPT !.step = "probing"].step = "probing"
        BY DEF Idle
    <2> QED
        BY <2>1, <2>2, Kept DEF ProbeRoute
<1>5. checkAndCreateFromCBOpen(t) => watch'[t].step \in {"create", "event"}
    <2> SUFFICES ASSUME checkAndCreateFromCBOpen(t) PROVE watch'[t].step \in {"create", "event"}
        OBVIOUS
    <2>1. PICK n \in LookUp(Idle) : Starts(t, n)
        BY DEF checkAndCreateFromCBOpen
    <2> QED
        BY <1>1, <2>1, LookUpTyped, LookUpMoves, Kept
<1>6. ASSUME NEW i \in Incident, NEW s \in Status, UpdateStatus(t, i, s)
      PROVE  watch'[t].step = "update" /\ ~watch'[t].sweep
    <2>1. [Idle EXCEPT !.step = "update", !.on = i, !.status = s] \in Task
        BY <1>1, OnTyped
    <2>2. /\ [Idle EXCEPT !.step = "update", !.on = i, !.status = s].step = "update"
          /\ ~[Idle EXCEPT !.step = "update", !.on = i, !.status = s].sweep
        BY DEF Idle
    <2> QED
        BY <1>6, <2>1, <2>2, Kept DEF UpdateStatus
<1>7. CASE runAllHealthChecks(t) \/ ProbeRoute(t)
    BY <1>2, <1>3, <1>4, <1>7 DEF runAllHealthChecks, ProbeRoute
<1>8. CASE ~(runAllHealthChecks(t) \/ ProbeRoute(t))
    <2>1. crossed' = crossed
        BY <1>8 DEF checkAndCreateFromCBOpen, UpdateStatus
    <2> QED
        BY <1>2, <1>5, <1>6, <1>8, <2>1
<1> QED
    BY <1>7, <1>8

LEMMA ProbeMoves ==
  ASSUME NEW t \in WatchTask, Typed,
         \/ ProbeHealthy(t) \/ ProbeUnhealthy(t) \/ ProbeThrows(t)
         \/ checkAndCreateFromHealthFailure(t) \/ addEvent(t) \/ ListActive(t)
  PROVE  /\ \A u \in WatchTask \ {t} : watch'[u] = watch[u]
         /\ incident' = incident /\ muddled' = muddled /\ crossed' = crossed
         /\ \/ watch[t].step = "probing" /\ watch'[t].step \in {"probed", "idle"}
                /\ health' \in {"HEALTHY", "UNHEALTHY"} /\ handled' = handled
            \/ watch[t].step = "probing" /\ watch'[t].step = "failed"
            \/ watch[t].step = "failed" /\ (watch'[t].step = "create" \/ (watch'[t].step = "event" /\ OpenIncident # {}))
                /\ health' = health /\ handled' = handled
            \/ watch[t].step = "event" /\ watch'[t].step = "idle" /\ health' = health /\ handled' = handled
            \/ watch[t].step = "probed" /\ watch'[t].step = "listed" /\ health' = health /\ handled' = handled
<1>1. /\ watch[t] \in Task /\ Idle.step = "idle"
      /\ \A s \in {"probed", "failed", "listed"} : s \in Step
    BY DEF Idle, Step, Typed
<1>2. /\ \A u \in WatchTask \ {t} : watch'[u] = watch[u]
      /\ incident' = incident /\ muddled' = muddled /\ crossed' = crossed
    <2>1. QuietTask(t)
        BY GoesQuiet
    <2> QED
        BY <2>1 DEF QuietTask, ProbeHealthy, ProbeUnhealthy, ProbeThrows, checkAndCreateFromHealthFailure, addEvent,
                    ListActive
<1>3. CASE ProbeHealthy(t) \/ ProbeUnhealthy(t)
    <2>1. watch'[t].step \in {"probed", "idle"}
        <3>1. CASE Ends(t)
            BY <1>1, <3>1, Ended
        <3>2. CASE Continues(t, [watch[t] EXCEPT !.step = "probed"])
            BY <1>1, <3>2, StepMoves
        <3> QED
            BY <1>3, <3>1, <3>2 DEF ProbeHealthy, ProbeUnhealthy
    <2> QED
        BY <1>2, <1>3, <2>1 DEF ProbeHealthy, ProbeUnhealthy
<1>4. CASE ProbeThrows(t)
    <2>1. watch'[t].step = "failed"
        BY <1>1, <1>4, StepMoves DEF ProbeThrows
    <2> QED
        BY <1>2, <1>4, <2>1 DEF ProbeThrows
<1>5. CASE checkAndCreateFromHealthFailure(t)
    <2>1. PICK n \in LookUp(watch[t]) : Continues(t, n)
        BY <1>5 DEF checkAndCreateFromHealthFailure
    <2>2. watch'[t].step = "create" \/ (watch'[t].step = "event" /\ OpenIncident # {})
        BY <1>1, <2>1, LookUpTyped, LookUpMoves, Kept
    <2> QED
        BY <1>2, <1>5, <2>2 DEF checkAndCreateFromHealthFailure
<1>6. CASE addEvent(t)
    BY <1>1, <1>2, <1>6, Ended DEF addEvent
<1>7. CASE ListActive(t)
    <2>1. ActiveList = OpenIncident /\ OpenIncident \in SUBSET Incident
        BY DEF ActiveList, OpenIncident
    <2>2. [watch[t] EXCEPT !.step = "listed", !.list = ActiveList] \in Task
        BY <1>1, <2>1, ListTyped
    <2>3. [watch[t] EXCEPT !.step = "listed", !.list = ActiveList].step = "listed"
        BY <1>1 DEF Task
    <2> QED
        BY <1>2, <1>7, <2>2, <2>3, Kept DEF ListActive
<1> QED
    BY <1>3, <1>4, <1>5, <1>6, <1>7

LEMMA CreateMoves ==
  ASSUME NEW t \in WatchTask, NEW i \in Incident, Typed, create(t, i) \/ CreateByHand(t, i)
  PROVE  /\ \A u \in WatchTask \ {t} : watch'[u] = watch[u]
         /\ watch[t].step \in {"idle", "create"} /\ watch'[t].step = "announce"
         /\ watch'[t].on = i /\ watch'[t].status = "ACTIVE"
         /\ incident'[i].status = "ACTIVE" /\ incident[i].status = "unused"
         /\ \A j \in Incident \ {i} : incident'[j] = incident[j]
         /\ muddled' = muddled /\ health' = health /\ handled' = handled /\ crossed' = crossed
<1>1. /\ watch[t] \in Task /\ Idle \in Task /\ "announce" \in Step /\ "ACTIVE" \in Status
      /\ Idle.step = "idle" /\ Idle.status = "ACTIVE"
    BY IdleTyped DEF Typed, Step, Status, Idle
<1>2. /\ watch[t].step \in {"idle", "create"}
      /\ incident[i].status = "unused" /\ incident'[i].status = "ACTIVE"
      /\ \A j \in Incident \ {i} : incident'[j] = incident[j]
      /\ muddled' = muddled /\ health' = health /\ handled' = handled /\ crossed' = crossed
    BY <1>1 DEF create, CreateByHand, Starts, Typed, IncidentRow
<1>3. CASE create(t, i)
    <2>1. [watch[t] EXCEPT !.step = "announce", !.on = i, !.status = "ACTIVE"] \in Task
        BY <1>1, OnTyped
    <2>2. /\ [watch[t] EXCEPT !.step = "announce", !.on = i, !.status = "ACTIVE"].on = i
          /\ [watch[t] EXCEPT !.step = "announce", !.on = i, !.status = "ACTIVE"].step = "announce"
          /\ [watch[t] EXCEPT !.step = "announce", !.on = i, !.status = "ACTIVE"].status = "ACTIVE"
        BY <1>1 DEF Task
    <2>3. Continues(t, [watch[t] EXCEPT !.step = "announce", !.on = i, !.status = "ACTIVE"])
        BY <1>3 DEF create
    <2> QED
        BY <1>2, <2>1, <2>2, <2>3, Kept
<1>4. CASE CreateByHand(t, i)
    <2>1. [Idle EXCEPT !.step = "announce", !.on = i] \in Task
        BY <1>1, OnTyped
    <2>2. /\ [Idle EXCEPT !.step = "announce", !.on = i].on = i
          /\ [Idle EXCEPT !.step = "announce", !.on = i].step = "announce"
          /\ [Idle EXCEPT !.step = "announce", !.on = i].status = "ACTIVE"
        BY DEF Idle
    <2>3. Starts(t, [Idle EXCEPT !.step = "announce", !.on = i])
        BY <1>4 DEF CreateByHand
    <2> QED
        BY <1>2, <2>1, <2>2, <2>3, Kept
<1> QED
    BY <1>3, <1>4

\* updateStatus and autoResolveIfHealthy, where they write a status.
LEMMA WriteMoves ==
  ASSUME NEW t \in WatchTask, NEW i \in Incident, Typed,
         \/ updateStatus(t) /\ i = watch[t].on /\ Exists(i)
         \/ autoResolveIfHealthy(t) /\ incident' = [incident EXCEPT ![i].status = "RESOLVED"] /\ i \in watch[t].list
            /\ Continues(t, [watch[t] EXCEPT !.step = "tell", !.on = i, !.status = "RESOLVED", !.list = @ \ {i}])
  PROVE  /\ \A u \in WatchTask \ {t} : watch'[u] = watch[u]
         /\ watch'[t].step = "tell" /\ watch'[t].on = i /\ watch'[t].sweep = watch[t].sweep
         /\ watch'[t].status = incident'[i].status
         /\ incident'[i].status = IF watch[t].step = "update" THEN watch[t].status ELSE "RESOLVED"
         /\ \A j \in Incident \ {i} : incident'[j] = incident[j]
<1>1. /\ watch[t] \in Task /\ "tell" \in Step /\ "RESOLVED" \in Status /\ watch[t].status \in Status
      /\ incident[i] \in IncidentRow
    BY DEF Typed, Task, Step, Status
<1>2. CASE updateStatus(t) /\ i = watch[t].on /\ Exists(i)
    <2>1. /\ incident' = [incident EXCEPT ![i].status = watch[t].status]
          /\ Continues(t, [watch[t] EXCEPT !.step = "tell"]) /\ watch[t].step = "update"
        BY <1>2 DEF updateStatus
    <2>2. /\ \A u \in WatchTask \ {t} : watch'[u] = watch[u]
          /\ watch'[t].step = "tell" /\ watch'[t].on = i /\ watch'[t].sweep = watch[t].sweep
          /\ watch'[t].status = watch[t].status
        BY <1>1, <1>2, <2>1, StepMoves
    <2>3. incident'[i].status = watch[t].status /\ \A j \in Incident \ {i} : incident'[j] = incident[j]
        BY <1>1, <2>1 DEF Typed, IncidentRow
    <2> QED
        BY <2>1, <2>2, <2>3
<1>3. CASE /\ autoResolveIfHealthy(t) /\ incident' = [incident EXCEPT ![i].status = "RESOLVED"] /\ i \in watch[t].list
           /\ Continues(t, [watch[t] EXCEPT !.step = "tell", !.on = i, !.status = "RESOLVED", !.list = @ \ {i}])
    <2>1. PICK l \in SUBSET Incident :
             Continues(t, [watch[t] EXCEPT !.step = "tell", !.on = i, !.status = "RESOLVED", !.list = l])
        BY <1>1, <1>3 DEF Task
    <2>2. [watch[t] EXCEPT !.step = "tell", !.on = i, !.status = "RESOLVED", !.list = l] \in Task
        BY <1>1, OnTyped
    <2>3. /\ [watch[t] EXCEPT !.step = "tell", !.on = i, !.status = "RESOLVED", !.list = l].step = "tell"
          /\ [watch[t] EXCEPT !.step = "tell", !.on = i, !.status = "RESOLVED", !.list = l].on = i
          /\ [watch[t] EXCEPT !.step = "tell", !.on = i, !.status = "RESOLVED", !.list = l].status = "RESOLVED"
          /\ [watch[t] EXCEPT !.step = "tell", !.on = i, !.status = "RESOLVED", !.list = l].sweep = watch[t].sweep
        BY <1>1 DEF Task
    <2>4. /\ \A u \in WatchTask \ {t} : watch'[u] = watch[u]
          /\ watch'[t].step = "tell" /\ watch'[t].on = i /\ watch'[t].sweep = watch[t].sweep
          /\ watch'[t].status = "RESOLVED"
        BY <2>1, <2>2, <2>3, Kept
    <2>5. incident'[i].status = "RESOLVED" /\ \A j \in Incident \ {i} : incident'[j] = incident[j]
        BY <1>1, <1>3 DEF Typed, IncidentRow
    <2>6. watch[t].step = "listed"
        BY <1>3 DEF autoResolveIfHealthy
    <2> QED
        BY <2>4, <2>5, <2>6
<1> QED
    BY <1>2, <1>3

\* A task ends.
LEMMA EndMoves ==
  ASSUME NEW t \in WatchTask, Typed, Ends(t)
  PROVE  watch'[t].step = "idle" /\ \A u \in WatchTask \ {t} : watch'[u] = watch[u]
BY Ended DEF Idle

\* The events of a task.
LEMMA EventMoves ==
  ASSUME NEW t \in WatchTask, Typed, watch[t].on \in Incident, TellStatus(t) \/ AutoEvent(t)
  PROVE  /\ \A u \in WatchTask \ {t} : watch'[u] = watch[u]
         /\ watch[t].step \in TellSteps
         /\ \/ watch'[t].step = "idle"
            \/ watch[t].step = "auto" /\ watch'[t].step = "listed"
            \/ /\ watch[t].step = "tell" /\ watch[t].sweep /\ watch'[t].step = "auto"
               /\ watch'[t].on = watch[t].on /\ watch'[t].status = watch[t].status
         /\ \A j \in Incident : incident'[j].status = incident[j].status
         /\ \A j \in Incident \ {watch[t].on} : incident'[j].told = incident[j].told
         /\ \/ incident'[watch[t].on].told = watch[t].status
            \/ watch[t].step = "auto" /\ incident'[watch[t].on].told = "RESOLVED"
            \/ ~Exists(watch[t].on)
         /\ muddled' = muddled /\ health' = health /\ handled' = handled /\ crossed' = crossed
<1> DEFINE i == watch[t].on
<1>1. /\ watch[t] \in Task /\ incident[i] \in IncidentRow /\ "auto" \in Step /\ "listed" \in Step
      /\ watch[t].step \in TellSteps
    BY DEF Typed, Step, TellStatus, AutoEvent, TellSteps
<1>2. /\ \A u \in WatchTask \ {t} : watch'[u] = watch[u]
      /\ \/ watch'[t].step = "idle"
         \/ watch[t].step = "auto" /\ watch'[t].step = "listed"
         \/ /\ watch[t].step = "tell" /\ watch[t].sweep /\ watch'[t].step = "auto"
            /\ watch'[t].on = watch[t].on /\ watch'[t].status = watch[t].status
    <2>1. CASE Ends(t)
        BY <2>1, EndMoves
    <2>2. CASE ~Ends(t)
        <3>1. CASE TellStatus(t)
            <4>1. /\ Continues(t, [watch[t] EXCEPT !.step = "auto"])
                  /\ watch[t].step = "tell" /\ watch[t].sweep
                BY <2>2, <3>1 DEF TellStatus
            <4> QED
                BY <1>1, <4>1, StepMoves
        <3>2. CASE AutoEvent(t)
            <4>1. Continues(t, [watch[t] EXCEPT !.step = "listed"]) /\ watch[t].step = "auto"
                BY <2>2, <3>2 DEF AutoEvent
            <4> QED
                BY <1>1, <4>1, StepMoves
        <3> QED
            BY <3>1, <3>2
    <2> QED
        BY <2>1, <2>2
<1>3. /\ \A j \in Incident : incident'[j].status = incident[j].status
      /\ \A j \in Incident \ {i} : incident'[j].told = incident[j].told
      /\ \/ incident'[i].told = watch[t].status
         \/ watch[t].step = "auto" /\ incident'[i].told = "RESOLVED"
         \/ ~Exists(i)
    <2>1. CASE ~Exists(i)
        <3>1. incident' = incident
            BY <2>1 DEF TellStatus, AutoEvent
        <3> QED
            BY <2>1, <3>1
    <2>2. CASE Exists(i)
        <3>1. PICK s : /\ incident' = [incident EXCEPT ![i].told = s]
                       /\ s = watch[t].status \/ (watch[t].step = "auto" /\ s = "RESOLVED")
            BY <2>2 DEF TellStatus, AutoEvent
        <3>2. /\ incident'[i].status = incident[i].status /\ incident'[i].told = s
              /\ \A j \in Incident \ {i} : incident'[j] = incident[j]
            BY <1>1, <3>1 DEF Typed, IncidentRow
        <3> QED
            BY <3>1, <3>2
    <2> QED
        BY <2>1, <2>2
<1>4. muddled' = muddled /\ health' = health /\ handled' = handled /\ crossed' = crossed
    BY DEF TellStatus, AutoEvent
<1> QED
    BY <1>1, <1>2, <1>3, <1>4

LEMMA EraseMoves ==
  ASSUME NEW t \in WatchTask, NEW i \in Incident, Typed, DeleteEvents(t, i)
  PROVE  /\ \A u \in WatchTask \ {t} : watch'[u] = watch[u]
         /\ watch[t].step = "idle" /\ watch'[t].step = "erase"
         /\ \A j \in Incident : incident'[j].status = incident[j].status
         /\ \A j \in Incident \ {i} : incident'[j] = incident[j]
         /\ muddled' = muddled \cup {i} /\ health' = health /\ handled' = handled /\ crossed' = crossed
<1>1. Idle \in Task /\ Idle.step = "idle" /\ "erase" \in Step /\ incident[i] \in IncidentRow /\ "ACTIVE" \in Status
    BY IdleTyped DEF Idle, Step, Typed, Status
<1>2. [Idle EXCEPT !.step = "erase", !.on = i] \in Task
    BY <1>1, OnTyped
<1>3. [Idle EXCEPT !.step = "erase", !.on = i].step = "erase"
    BY DEF Idle
<1>4. /\ \A u \in WatchTask \ {t} : watch'[u] = watch[u]
      /\ watch[t].step = "idle" /\ watch'[t].step = "erase"
    BY <1>1, <1>2, <1>3, Kept DEF DeleteEvents, Starts
<1>5. incident'[i].status = incident[i].status /\ \A j \in Incident \ {i} : incident'[j] = incident[j]
    BY <1>1 DEF DeleteEvents, Typed, IncidentRow
<1> QED
    BY <1>4, <1>5 DEF DeleteEvents

\* The steps that write a status across nobody leave it told or about to be.
LEMMA StatusTold ==
  ASSUME NEW t \in WatchTask, Typed, Tellers, ToldOrTelling, updateStatus(t) \/ autoResolveIfHealthy(t)
  PROVE  Tellers' /\ ToldOrTelling'
<1>1. /\ watch[t].step \in {"update", "listed"}
      /\ watch[t].step = "update" => watch[t].on \in Incident /\ ~watch[t].sweep
      /\ watch[t].list \subseteq Incident /\ watch[t].status \in Status
    BY DEF updateStatus, autoResolveIfHealthy, Typed, Tellers, Task
<1>2. CASE Ends(t) /\ UNCHANGED <<incident, muddled>>
    <2>1. watch'[t].step = "idle" /\ \A u \in WatchTask \ {t} : watch'[u] = watch[u]
        BY <1>2, EndMoves
    <2> QED
        BY <1>1, <1>2, <2>1, SilentStep DEF TellSteps
<1>3. CASE ~(Ends(t) /\ UNCHANGED <<incident, muddled>>)
    <2>1. PICK i \in Incident :
            /\ Exists(i) /\ Recorded(t, i)
            /\ \/ updateStatus(t) /\ i = watch[t].on /\ Exists(i)
               \/ autoResolveIfHealthy(t) /\ incident' = [incident EXCEPT ![i].status = "RESOLVED"] /\ i \in watch[t].list
                  /\ Continues(t, [watch[t] EXCEPT !.step = "tell", !.on = i, !.status = "RESOLVED", !.list = @ \ {i}])
        <3>1. CASE updateStatus(t)
            BY <1>1, <1>3, <3>1 DEF updateStatus
        <3>2. CASE autoResolveIfHealthy(t)
            BY <1>1, <1>3, <3>2 DEF autoResolveIfHealthy
        <3> QED
            BY <3>1, <3>2
    <2>2. /\ \A u \in WatchTask \ {t} : watch'[u] = watch[u]
          /\ watch'[t].step = "tell" /\ watch'[t].on = i /\ watch'[t].sweep = watch[t].sweep
          /\ watch'[t].status = incident'[i].status
          /\ incident'[i].status = IF watch[t].step = "update" THEN watch[t].status ELSE "RESOLVED"
          /\ \A j \in Incident \ {i} : incident'[j] = incident[j]
        BY <2>1, WriteMoves
    <2>3. incident'[i].status # "unused"
        BY <1>1, <2>2 DEF Status
    <2>4. watch'[t].sweep => watch'[t].status = "RESOLVED"
        BY <1>1, <2>2
    <2>5. muddled \ {i} \subseteq muddled' /\ (i \in muddled' \/ Telling(i) \ {t} = {})
        BY <2>1 DEF Recorded
    <2>6. watch[t].step \notin TellSteps
        BY <1>1 DEF TellSteps
    <2> QED
        BY <2>2, <2>3, <2>4, <2>5, <2>6, WriteTold
<1> QED
    BY <1>2, <1>3

LEMMA DeleteTold ==
  ASSUME NEW t \in WatchTask, Typed, Tellers, ToldOrTelling, deleteIncident(t)
  PROVE  Tellers' /\ ToldOrTelling'
<1>1. PICK i \in Incident : i = watch[t].on
    BY DEF deleteIncident, Typed
<1>2. /\ \A u \in WatchTask \ {t} : watch'[u] = watch[u]
      /\ watch[t].step = "erase" /\ watch'[t].step = "idle" /\ muddled' = muddled
    BY EndMoves DEF deleteIncident
<1>3. /\ \A j \in Incident \ {i} : incident'[j] = incident[j]
      /\ incident'[i].status = incident[i].status \/ incident'[i].status = "deleted"
      /\ ~Exists(i)'
    BY <1>1 DEF deleteIncident, Typed, IncidentRow, Exists
<1>4. Tellers'
    <2> SUFFICES ASSUME NEW u \in WatchTask
                 PROVE  /\ watch'[u].step \in TellSteps => watch'[u].on \in Incident /\ incident'[watch'[u].on].status # "unused"
                        /\ watch'[u].step = "tell" /\ watch'[u].sweep => watch'[u].status = "RESOLVED"
                        /\ watch'[u].step = "auto" => watch'[u].status = "RESOLVED"
                        /\ watch'[u].step = "update" => ~watch'[u].sweep
        BY DEF Tellers
    <2>1. CASE u = t
        BY <1>2, <2>1 DEF TellSteps
    <2>2. CASE u # t
        BY <1>2, <1>3, <2>2 DEF Tellers
    <2> QED
        BY <2>1, <2>2
<1>5. \A j \in Incident : Telling(j)' = Telling(j) /\ t \notin Telling(j)
    BY <1>2 DEF Telling
<1>6. \A j \in Incident : \A u \in Telling(j) : watch'[u] = watch[u]
    BY <1>2, <1>5 DEF Telling
<1>7. \A j \in Incident \ {i} : Exists(j)' = Exists(j)
    BY <1>3 DEF Exists
<1>8. ToldOrTelling'
    BY <1>2, <1>3, <1>5, <1>6, <1>7 DEF ToldOrTelling
<1> QED
    BY <1>4, <1>8

LEMMA EraseTold ==
  ASSUME NEW t \in WatchTask, NEW i \in Incident, Typed, Tellers, ToldOrTelling, DeleteEvents(t, i)
  PROVE  Tellers' /\ ToldOrTelling'
<1>1. /\ \A u \in WatchTask \ {t} : watch'[u] = watch[u]
      /\ watch[t].step = "idle" /\ watch'[t].step = "erase"
      /\ \A j \in Incident : incident'[j].status = incident[j].status
      /\ \A j \in Incident \ {i} : incident'[j] = incident[j]
      /\ muddled' = muddled \cup {i}
    BY EraseMoves
<1>2. Tellers'
    <2> SUFFICES ASSUME NEW u \in WatchTask
                 PROVE  /\ watch'[u].step \in TellSteps => watch'[u].on \in Incident /\ incident'[watch'[u].on].status # "unused"
                        /\ watch'[u].step = "tell" /\ watch'[u].sweep => watch'[u].status = "RESOLVED"
                        /\ watch'[u].step = "auto" => watch'[u].status = "RESOLVED"
                        /\ watch'[u].step = "update" => ~watch'[u].sweep
        BY DEF Tellers
    <2>1. CASE u = t
        BY <1>1, <2>1 DEF TellSteps
    <2>2. CASE u # t
        BY <1>1, <2>2 DEF Tellers
    <2> QED
        BY <2>1, <2>2
<1>3. \A j \in Incident : Telling(j)' = Telling(j) /\ t \notin Telling(j)
    BY <1>1 DEF Telling
<1>4. \A j \in Incident : \A u \in Telling(j) : watch'[u] = watch[u]
    BY <1>1, <1>3 DEF Telling
<1>5. \A j \in Incident : Exists(j)' = Exists(j)
    BY <1>1 DEF Exists
<1>6. ToldOrTelling'
    BY <1>1, <1>3, <1>4, <1>5 DEF ToldOrTelling
<1> QED
    BY <1>2, <1>6

LEMMA TimelineStep ==
  ASSUME NEW t \in WatchTask, Typed, Tellers, ToldOrTelling, WatchStep(t)
  PROVE  Tellers' /\ ToldOrTelling'
<1>1. CASE \/ runAllHealthChecks(t) \/ ProbeRoute(t) \/ checkAndCreateFromCBOpen(t)
           \/ \E i \in Incident, s \in Status : UpdateStatus(t, i, s)
    <2>1. /\ watch[t].step = "idle" /\ \A u \in WatchTask \ {t} : watch'[u] = watch[u]
          /\ \/ watch'[t].step \in {"probing", "create", "event"}
             \/ watch'[t].step = "update" /\ ~watch'[t].sweep
          /\ incident' = incident /\ muddled' = muddled
        BY <1>1, StartMoves
    <2> QED
        BY <2>1, SilentStep DEF TellSteps
<1>2. CASE \/ ProbeHealthy(t) \/ ProbeUnhealthy(t) \/ ProbeThrows(t)
           \/ checkAndCreateFromHealthFailure(t) \/ addEvent(t) \/ ListActive(t)
    <2>1. /\ \A u \in WatchTask \ {t} : watch'[u] = watch[u]
          /\ incident' = incident /\ muddled' = muddled
          /\ watch[t].step \in {"probing", "failed", "event", "probed"}
          /\ watch'[t].step \in {"probed", "idle", "failed", "create", "event", "listed"}
        BY <1>2, ProbeMoves
    <2> QED
        BY <2>1, SilentStep DEF TellSteps
<1>3. CASE \E i \in Incident : create(t, i) \/ CreateByHand(t, i)
    <2>1. PICK i \in Incident : create(t, i) \/ CreateByHand(t, i)
        BY <1>3
    <2>2. /\ \A u \in WatchTask \ {t} : watch'[u] = watch[u]
          /\ watch[t].step \in {"idle", "create"} /\ watch'[t].step = "announce"
          /\ watch'[t].on = i /\ watch'[t].status = "ACTIVE"
          /\ incident'[i].status = "ACTIVE" /\ incident[i].status = "unused"
          /\ \A j \in Incident \ {i} : incident'[j] = incident[j]
          /\ muddled' = muddled
        BY <2>1, CreateMoves
    <2>3. Telling(i) = {}
        BY <2>2 DEF Telling, Tellers, TellSteps
    <2>4. watch[t].step \notin TellSteps
        BY <2>2 DEF TellSteps
    <2> QED
        BY <2>2, <2>3, <2>4, WriteTold
<1>4. CASE updateStatus(t) \/ autoResolveIfHealthy(t)
    BY <1>4, StatusTold
<1>5. CASE TellStatus(t) \/ AutoEvent(t)
    <2>1. watch[t].step \in TellSteps
        BY <1>5 DEF TellStatus, AutoEvent, TellSteps
    <2>2. PICK i \in Incident : watch[t].on = i
        BY <2>1 DEF Tellers
    <2>3. /\ \A u \in WatchTask \ {t} : watch'[u] = watch[u]
          /\ \/ watch'[t].step = "idle"
             \/ watch[t].step = "auto" /\ watch'[t].step = "listed"
             \/ /\ watch[t].step = "tell" /\ watch[t].sweep /\ watch'[t].step = "auto"
                /\ watch'[t].on = i /\ watch'[t].status = watch[t].status
          /\ \A j \in Incident : incident'[j].status = incident[j].status
          /\ \A j \in Incident \ {i} : incident'[j].told = incident[j].told
          /\ \/ incident'[i].told = watch[t].status
             \/ watch[t].step = "auto" /\ incident'[i].told = "RESOLVED"
             \/ ~Exists(i)
          /\ muddled' = muddled
        BY <1>5, <2>2, EventMoves
    <2>4. /\ watch[t].step = "tell" /\ watch[t].sweep => watch[t].status = "RESOLVED"
          /\ watch[t].step = "auto" => watch[t].status = "RESOLVED"
        BY DEF Tellers
    <2>5. \/ watch'[t].step \notin TellSteps \cup {"update"}
          \/ /\ watch'[t].step = "auto" /\ watch'[t].on = i
             /\ watch'[t].status = watch[t].status /\ watch[t].status = "RESOLVED"
        BY <2>3, <2>4 DEF TellSteps
    <2>6. incident'[i].told = watch[t].status \/ ~Exists(i)
        BY <2>3, <2>4
    <2> QED
        BY <2>1, <2>2, <2>3, <2>5, <2>6, EventTold
<1>6. CASE \E i \in Incident : DeleteEvents(t, i)
    BY <1>6, EraseTold
<1>7. CASE deleteIncident(t)
    BY <1>7, DeleteTold
<1>8. CASE Abandon(t)
    <2>1. /\ watch'[t].step = "idle" /\ \A u \in WatchTask \ {t} : watch'[u] = watch[u]
          /\ incident' = incident
        BY <1>8, EndMoves DEF Abandon
    <2>2. CASE watch[t].step \notin TellSteps
        <3>1. muddled' = muddled
            BY <1>8, <2>2 DEF Abandon, TellSteps
        <3> QED
            BY <2>1, <2>2, <3>1, SilentStep DEF TellSteps
    <2>3. CASE watch[t].step \in TellSteps
        <3>1. PICK i \in Incident : watch[t].on = i
            BY <2>3 DEF Tellers
        <3>2. muddled \subseteq muddled' /\ (watch[t].step = "auto" \/ i \in muddled')
            BY <1>8, <2>3, <3>1 DEF Abandon, TellSteps
        <3>3. watch'[t].step \notin TellSteps \cup {"update"}
            BY <2>1 DEF TellSteps
        <3> QED
            BY <2>1, <2>3, <3>1, <3>2, <3>3, EventTold
    <2> QED
        BY <2>2, <2>3
<1> QED
    BY <1>1, <1>2, <1>3, <1>4, <1>5, <1>6, <1>7, <1>8 DEF WatchStep

TimelineInv == IncidentsInv /\ Tellers /\ ToldOrTelling

LEMMA TimelineInitGood == IncidentsInit => TimelineInv
<1> SUFFICES ASSUME IncidentsInit PROVE Tellers /\ ToldOrTelling
    BY IncidentsInitGood DEF TimelineInv
<1>1. /\ \A t \in WatchTask : watch[t].step = "idle"
      /\ \A i \in Incident : ~Exists(i)
    BY DEF IncidentsInit, Idle, Exists
<1> QED
    BY <1>1 DEF Tellers, ToldOrTelling, TellSteps

LEMMA TimelineStepGood == TimelineInv /\ [IncidentsNext]_incidentVars => TimelineInv'
<1> SUFFICES ASSUME TimelineInv, [IncidentsNext]_incidentVars PROVE Tellers' /\ ToldOrTelling'
    BY IncidentsStepGood DEF TimelineInv
<1>1. CASE UNCHANGED incidentVars
    BY <1>1 DEF TimelineInv, incidentVars, Tellers, ToldOrTelling, Telling, Exists
<1>2. CASE IncidentsNext
    BY <1>2, TimelineStep DEF IncidentsNext, TimelineInv, IncidentsInv
<1> QED
    BY <1>1, <1>2

\* updateStatus, create and the sweep leave a timeline that ends with the status of the row,
\* as long as tasks do not write the incident across each other and none is cut off.
THEOREM TimelineIsTrue == IncidentsSpec => []TimelineTellsStatus
<1>1. TimelineInv => TimelineTellsStatus
    BY DEF TimelineInv, ToldOrTelling, TimelineTellsStatus
<1> QED
    BY <1>1, TimelineInitGood, TimelineStepGood, PTL DEF IncidentsSpec

-----------------------------------------------------------------------------
(* Outages *)

\* The steps a healthy probe leads a sweep to.
Sweeping(w) == w.step \in {"probed", "listed", "auto"} \/ (w.step = "tell" /\ w.sweep)

\* The steps of a task from which an incident still comes, if none is open.
Expecting(w) == w.step \in {"probing", "failed", "create"}

\* Runs of the health check that did not cross were alone, so that the last result is the
\* one acted on: after a failed probe no sweep resolves, and the incident is open or to come.
OutageCovered ==
  /\ handled \in BOOLEAN /\ crossed \in BOOLEAN
  /\ ~crossed => \A t, u \in Checking : t = u
  /\ health = "DOWN" /\ ~crossed => \A t \in WatchTask : ~Sweeping(watch[t])
  /\ health = "DOWN" /\ ~crossed /\ ~handled => OpenIncident # {} \/ \E t \in WatchTask : Expecting(watch[t])

LEMMA CheckingIs == Checking = {t \in WatchTask : watch[t].step \in {"probing", "failed"} \/ Sweeping(watch[t])}
BY DEF Checking, Sweeping

\* A step that brings no task into the health check and takes no incident away.
LEMMA OutageKept ==
  ASSUME NEW t \in WatchTask, OutageCovered,
         \A u \in WatchTask \ {t} : watch'[u] = watch[u],
         crossed' = crossed, handled' \in BOOLEAN, handled => handled',
         health' = health \/ health' # "DOWN",
         t \in Checking' => t \in Checking,
         Sweeping(watch'[t]) => Sweeping(watch[t]) \/ health' # "DOWN",
         \/ health' # "DOWN" \/ handled' \/ crossed
         \/ OpenIncident' # {}
         \/ OpenIncident' = OpenIncident /\ (Expecting(watch[t]) => Expecting(watch'[t]))
  PROVE  OutageCovered'
<1>1. ~crossed' => \A u, v \in Checking' : u = v
    BY CheckingIs DEF OutageCovered, Checking
<1>2. health' = "DOWN" /\ ~crossed' => \A u \in WatchTask : ~Sweeping(watch'[u])
    BY DEF OutageCovered
<1>3. health' = "DOWN" /\ ~crossed' /\ ~handled' => OpenIncident' # {} \/ \E u \in WatchTask : Expecting(watch'[u])
    BY DEF OutageCovered
<1>4. handled' \in BOOLEAN /\ crossed' \in BOOLEAN
    BY DEF OutageCovered
<1> QED
    BY <1>1, <1>2, <1>3, <1>4 DEF OutageCovered, Sweeping, Expecting

LEMMA OpenKept ==
  ASSUME \A j \in Incident : incident'[j].status = incident[j].status
  PROVE  OpenIncident' = OpenIncident
BY DEF OpenIncident

LEMMA OutageStep ==
  ASSUME NEW t \in WatchTask, Typed, Tellers, OutageCovered, WatchStep(t)
  PROVE  OutageCovered'
<1>0. handled \in BOOLEAN /\ crossed \in BOOLEAN
    BY DEF OutageCovered
<1>1. CASE \/ runAllHealthChecks(t) \/ ProbeRoute(t) \/ checkAndCreateFromCBOpen(t)
           \/ \E i \in Incident, s \in Status : UpdateStatus(t, i, s)
    <2>1. /\ watch[t].step = "idle" /\ \A u \in WatchTask \ {t} : watch'[u] = watch[u]
          /\ \/ watch'[t].step = "probing" /\ crossed' = (Checking # {})
             \/ /\ watch'[t].step \in {"create", "event"} \/ (watch'[t].step = "update" /\ ~watch'[t].sweep)
                /\ crossed' = crossed
          /\ incident' = incident /\ health' = health /\ handled' = handled
        BY <1>1, StartMoves
    <2>2. CASE watch'[t].step = "probing" /\ crossed' = (Checking # {})
        <3>1. crossed' \in BOOLEAN /\ (~crossed' => Checking = {})
            BY <2>2
        <3>2. Checking = {} => Checking' = {t} /\ \A u \in WatchTask : ~Sweeping(watch'[u])
            BY <2>1, <2>2 DEF Checking, Sweeping
        <3>3. Expecting(watch'[t])
            BY <2>2 DEF Expecting
        <3> QED
            BY <1>0, <2>1, <3>1, <3>2, <3>3 DEF OutageCovered, Sweeping, Expecting
    <2>3. CASE /\ watch'[t].step \in {"create", "event"} \/ (watch'[t].step = "update" /\ ~watch'[t].sweep)
               /\ crossed' = crossed
        <3>1. /\ t \notin Checking' /\ ~Sweeping(watch'[t]) /\ ~Expecting(watch[t])
            BY <2>1, <2>3 DEF Checking, Sweeping, Expecting
        <3>2. OpenIncident' = OpenIncident
            BY <2>1, OpenKept
        <3> QED
            BY <1>0, <2>1, <2>3, <3>1, <3>2, OutageKept
    <2> QED
        BY <2>1, <2>2, <2>3
<1>2. CASE \/ ProbeHealthy(t) \/ ProbeUnhealthy(t) \/ ProbeThrows(t)
           \/ checkAndCreateFromHealthFailure(t) \/ addEvent(t) \/ ListActive(t)
    <2>1. /\ \A u \in WatchTask \ {t} : watch'[u] = watch[u]
          /\ incident' = incident /\ crossed' = crossed
          /\ \/ watch[t].step = "probing" /\ watch'[t].step \in {"probed", "idle"}
                 /\ health' \in {"HEALTHY", "UNHEALTHY"} /\ handled' = handled
             \/ watch[t].step = "probing" /\ watch'[t].step = "failed"
             \/ watch[t].step = "failed" /\ (watch'[t].step = "create" \/ (watch'[t].step = "event" /\ OpenIncident # {}))
                 /\ health' = health /\ handled' = handled
             \/ watch[t].step = "event" /\ watch'[t].step = "idle" /\ health' = health /\ handled' = handled
             \/ watch[t].step = "probed" /\ watch'[t].step = "listed" /\ health' = health /\ handled' = handled
        BY <1>2, ProbeMoves
    <2>2. OpenIncident' = OpenIncident
        BY <2>1, OpenKept
    <2>3. CASE watch[t].step = "probing" /\ watch'[t].step = "failed"
        <3>1. handled' \in BOOLEAN
            BY <1>0, <1>2 DEF ProbeHealthy, ProbeUnhealthy, ProbeThrows, checkAndCreateFromHealthFailure, addEvent,
                              ListActive
        <3>2. t \in Checking
            BY <2>3 DEF Checking
        <3>3. ~crossed' => \A u, v \in Checking' : u = v
            BY <2>1, <2>3 DEF Checking, OutageCovered
        <3>4. ~crossed => \A u \in WatchTask \ {t} : ~Sweeping(watch[u])
            BY <3>2, CheckingIs DEF OutageCovered
        <3>5. ~Sweeping(watch'[t]) /\ Expecting(watch'[t])
            BY <2>3 DEF Sweeping, Expecting
        <3>6. ~crossed' => \A u \in WatchTask : ~Sweeping(watch'[u])
            BY <2>1, <3>4, <3>5
        <3> QED
            BY <1>0, <2>1, <3>1, <3>3, <3>5, <3>6 DEF OutageCovered, Sweeping, Expecting
    <2>4. CASE ~(watch[t].step = "probing" /\ watch'[t].step = "failed")
        <3>1. handled' = handled /\ (health' = health \/ health' # "DOWN")
            BY <2>1, <2>4
        <3>2. t \in Checking' => t \in Checking
            BY <2>1 DEF Checking
        <3>3. Sweeping(watch'[t]) => Sweeping(watch[t]) \/ health' # "DOWN"
            BY <2>1 DEF Sweeping
        <3>4. health' # "DOWN" \/ OpenIncident # {} \/ (Expecting(watch[t]) => Expecting(watch'[t]))
            BY <2>1, <2>4 DEF Expecting
        <3> QED
            BY <1>0, <2>1, <2>2, <3>1, <3>2, <3>3, <3>4, OutageKept
    <2> QED
        BY <2>3, <2>4
<1>3. CASE \E i \in Incident : create(t, i) \/ CreateByHand(t, i)
    <2>1. PICK i \in Incident : create(t, i) \/ CreateByHand(t, i)
        BY <1>3
    <2>2. /\ \A u \in WatchTask \ {t} : watch'[u] = watch[u]
          /\ watch'[t].step = "announce" /\ incident'[i].status = "ACTIVE"
          /\ health' = health /\ handled' = handled /\ crossed' = crossed
        BY <2>1, CreateMoves
    <2>3. i \in OpenIncident'
        BY <2>2 DEF OpenIncident, OpenStatus
    <2>4. t \notin Checking' /\ ~Sweeping(watch'[t])
        BY <2>2 DEF Checking, Sweeping
    <2> QED
        BY <1>0, <2>2, <2>3, <2>4, OutageKept
<1>4. CASE updateStatus(t)
    <2>1. /\ watch[t].step = "update" /\ watch[t].on \in Incident /\ ~watch[t].sweep
          /\ health' = health /\ crossed' = crossed /\ watch[t].status \in Status
        BY <1>4 DEF updateStatus, Typed, Tellers, Task
    <2>2. CASE Exists(watch[t].on)
        <3>1. /\ \A u \in WatchTask \ {t} : watch'[u] = watch[u]
              /\ watch'[t].step = "tell" /\ watch'[t].sweep = watch[t].sweep
              /\ incident'[watch[t].on].status = watch[t].status
            BY <1>4, <2>1, <2>2, WriteMoves, ZenonT(60)
        <3>2. t \notin Checking' /\ ~Sweeping(watch'[t])
            BY <2>1, <3>1 DEF Checking, Sweeping
        <3>3. handled' = (handled \/ watch[t].status \notin OpenStatus)
            BY <1>4, <2>2 DEF updateStatus
        <3>4. handled' \in BOOLEAN /\ (handled => handled') /\ (watch[t].status \notin OpenStatus => handled')
            BY <1>0, <3>3
        <3>5. watch[t].status \in OpenStatus => OpenIncident' # {}
            BY <2>1, <3>1 DEF OpenIncident
        <3> QED
            BY <2>1, <3>1, <3>2, <3>4, <3>5, OutageKept
    <2>3. CASE ~Exists(watch[t].on)
        <3>1. Ends(t) /\ incident' = incident /\ handled' = handled
            BY <1>4, <2>3 DEF updateStatus
        <3>2. watch'[t].step = "idle" /\ \A u \in WatchTask \ {t} : watch'[u] = watch[u]
            BY <3>1, EndMoves
        <3>3. t \notin Checking' /\ ~Sweeping(watch'[t]) /\ ~Expecting(watch[t])
            BY <2>1, <3>2 DEF Checking, Sweeping, Expecting
        <3>4. OpenIncident' = OpenIncident
            BY <3>1, OpenKept
        <3> QED
            BY <1>0, <2>1, <3>1, <3>2, <3>3, <3>4, OutageKept
    <2> QED
        BY <2>2, <2>3
<1>5. CASE autoResolveIfHealthy(t)
    <2>1. /\ watch[t].step = "listed" /\ watch[t].list \subseteq Incident
          /\ health' = health /\ handled' = handled /\ crossed' = crossed
        BY <1>5 DEF autoResolveIfHealthy, Typed, Task
    <2>2. t \in Checking /\ Sweeping(watch[t])
        BY <2>1 DEF Checking, Sweeping
    <2>3. health' # "DOWN" \/ crossed
        BY <2>1, <2>2 DEF OutageCovered
    <2>4. \A u \in WatchTask \ {t} : watch'[u] = watch[u]
        <3>1. CASE Ends(t)
            BY <3>1, EndMoves
        <3>2. CASE ~Ends(t)
            <4>1. PICK i \in watch[t].list :
                    /\ incident' = [incident EXCEPT ![i].status = "RESOLVED"]
                    /\ Continues(t, [watch[t] EXCEPT !.step = "tell", !.on = i, !.status = "RESOLVED", !.list = @ \ {i}])
                BY <1>5, <3>2 DEF autoResolveIfHealthy
            <4>2. i \in Incident
                BY <2>1, <4>1
            <4> QED
                BY <1>5, <4>1, <4>2, WriteMoves
        <3> QED
            BY <3>1, <3>2
    <2> QED
        BY <1>0, <2>1, <2>2, <2>3, <2>4, OutageKept
<1>6. CASE TellStatus(t) \/ AutoEvent(t)
    <2>1. watch[t].step \in TellSteps /\ watch[t].on \in Incident
        BY <1>6 DEF TellStatus, AutoEvent, TellSteps, Tellers
    <2>2. /\ \A u \in WatchTask \ {t} : watch'[u] = watch[u]
          /\ \/ watch'[t].step = "idle"
             \/ watch[t].step = "auto" /\ watch'[t].step = "listed"
             \/ watch[t].step = "tell" /\ watch[t].sweep /\ watch'[t].step = "auto"
          /\ \A j \in Incident : incident'[j].status = incident[j].status
          /\ health' = health /\ handled' = handled /\ crossed' = crossed
        BY <1>6, <2>1, EventMoves
    <2>3. t \in Checking' => t \in Checking
        BY <2>2 DEF Checking
    <2>4. (Sweeping(watch'[t]) => Sweeping(watch[t])) /\ ~Expecting(watch[t])
        BY <2>1, <2>2 DEF Sweeping, Expecting, TellSteps
    <2>5. OpenIncident' = OpenIncident
        BY <2>2, OpenKept
    <2> QED
        BY <1>0, <2>2, <2>3, <2>4, <2>5, OutageKept
<1>7. CASE \E i \in Incident : DeleteEvents(t, i)
    <2>1. /\ \A u \in WatchTask \ {t} : watch'[u] = watch[u]
          /\ watch[t].step = "idle" /\ watch'[t].step = "erase"
          /\ \A j \in Incident : incident'[j].status = incident[j].status
          /\ health' = health /\ handled' = handled /\ crossed' = crossed
        BY <1>7, EraseMoves
    <2>2. t \notin Checking' /\ ~Sweeping(watch'[t]) /\ ~Expecting(watch[t])
        BY <2>1 DEF Checking, Sweeping, Expecting
    <2>3. OpenIncident' = OpenIncident
        BY <2>1, OpenKept
    <2> QED
        BY <1>0, <2>1, <2>2, <2>3, OutageKept
<1>8. CASE deleteIncident(t)
    <2>1. /\ handled' = TRUE /\ health' = health /\ crossed' = crossed
          /\ watch'[t].step = "idle" /\ \A u \in WatchTask \ {t} : watch'[u] = watch[u]
        BY <1>8, EndMoves DEF deleteIncident
    <2>2. t \notin Checking' /\ ~Sweeping(watch'[t])
        BY <2>1 DEF Checking, Sweeping
    <2> QED
        BY <2>1, <2>2, OutageKept
<1>9. CASE Abandon(t)
    <2>1. /\ watch'[t].step = "idle" /\ \A u \in WatchTask \ {t} : watch'[u] = watch[u]
          /\ incident' = incident /\ health' = health /\ handled' = handled
          /\ crossed' = (crossed \/ t \in Checking \/ t \in Creating)
        BY <1>9, EndMoves DEF Abandon
    <2>2. crossed' \in BOOLEAN /\ (t \in Checking \/ t \in Creating => crossed')
        BY <2>1
    <2>3. CASE t \in Checking \/ t \in Creating
        BY <1>0, <2>1, <2>2, <2>3 DEF OutageCovered
    <2>4. CASE ~(t \in Checking \/ t \in Creating)
        <3>1. crossed' = crossed
            BY <1>0, <2>1, <2>4
        <3>2. t \notin Checking' /\ ~Sweeping(watch'[t]) /\ ~Expecting(watch[t])
            BY <2>1, <2>4 DEF Checking, Creating, Sweeping, Expecting
        <3>3. OpenIncident' = OpenIncident
            BY <2>1, OpenKept
        <3> QED
            BY <1>0, <2>1, <3>1, <3>2, <3>3, OutageKept
    <2> QED
        BY <2>3, <2>4
<1> QED
    BY <1>1, <1>2, <1>3, <1>4, <1>5, <1>6, <1>7, <1>8, <1>9 DEF WatchStep

\* A probe that throws ends with an open incident for the route, when no other run of the
\* health check crossed it, nothing was cut off and no operator closed what it opened.
THEOREM OutageIsCovered == IncidentsSpec => []OutageHasIncident
<1>1. IncidentsInit => OutageCovered
    <2> SUFFICES ASSUME IncidentsInit PROVE OutageCovered
        OBVIOUS
    <2>1. \A t \in WatchTask : watch[t].step = "idle"
        BY DEF IncidentsInit, Idle
    <2> QED
        BY <2>1 DEF OutageCovered, IncidentsInit, Checking
<1>2. TimelineInv /\ OutageCovered /\ [IncidentsNext]_incidentVars => OutageCovered'
    <2> SUFFICES ASSUME TimelineInv, OutageCovered, [IncidentsNext]_incidentVars PROVE OutageCovered'
        OBVIOUS
    <2>1. CASE UNCHANGED incidentVars
        BY <2>1 DEF incidentVars, OutageCovered, Checking, Sweeping, Expecting, OpenIncident
    <2>2. CASE IncidentsNext
        BY <2>2, OutageStep DEF IncidentsNext, TimelineInv, IncidentsInv
    <2> QED
        BY <2>1, <2>2
<1>3. OutageCovered => OutageHasIncident
    BY DEF OutageCovered, OutageHasIncident, Expecting, Checking, Creating
<1> QED
    BY <1>1, <1>2, <1>3, TimelineInitGood, TimelineStepGood, PTL DEF IncidentsSpec

-----------------------------------------------------------------------------
(* The types of the rest *)

HistoryTyped ==
  /\ health \in HealthRow
  /\ started \in 0..MaxStarted
  /\ muddled \subseteq Incident
  /\ handled \in BOOLEAN /\ crossed \in BOOLEAN

LEMMA HistoryStep ==
  ASSUME TimelineInv, HistoryTyped, NEW t \in WatchTask, WatchStep(t)
  PROVE  HistoryTyped'
<1>1. started' \in 0..MaxStarted
    <2>1. started' = started \/ (started < MaxStarted /\ started' = started + 1)
        BY DEF WatchStep, Starts, Continues, Ends, runAllHealthChecks, ProbeRoute, ProbeHealthy, ProbeUnhealthy,
               ProbeThrows, checkAndCreateFromHealthFailure, checkAndCreateFromCBOpen, addEvent, updateStatus,
               TellStatus, ListActive, autoResolveIfHealthy, AutoEvent, deleteIncident, Abandon, create,
               CreateByHand, DeleteEvents, UpdateStatus
    <2> QED
        BY <2>1, StartedAssumption DEF HistoryTyped
<1>2. health' \in HealthRow
    <2>1. health' \in {health, "HEALTHY", "UNHEALTHY", "DOWN"}
        BY DEF WatchStep, runAllHealthChecks, ProbeRoute, ProbeHealthy, ProbeUnhealthy,
               ProbeThrows, checkAndCreateFromHealthFailure, checkAndCreateFromCBOpen, addEvent, updateStatus,
               TellStatus, ListActive, autoResolveIfHealthy, AutoEvent, deleteIncident, Abandon, create,
               CreateByHand, DeleteEvents, UpdateStatus
    <2> QED
        BY <2>1 DEF HistoryTyped, HealthRow
<1>3. handled' \in BOOLEAN /\ crossed' \in BOOLEAN
    <2>1. /\ handled' = handled \/ handled' \in BOOLEAN
          /\ crossed' = crossed \/ crossed' \in BOOLEAN
        BY DEF WatchStep, runAllHealthChecks, ProbeRoute, ProbeHealthy, ProbeUnhealthy,
               ProbeThrows, checkAndCreateFromHealthFailure, checkAndCreateFromCBOpen, addEvent, updateStatus,
               TellStatus, ListActive, autoResolveIfHealthy, AutoEvent, deleteIncident, Abandon, create,
               CreateByHand, DeleteEvents, UpdateStatus
    <2> QED
        BY <2>1 DEF HistoryTyped
<1>4. muddled' \subseteq Incident
    <2>1. \/ muddled' = muddled
          \/ \E i \in Incident : muddled' \in {muddled \cup {i}, muddled \ {i}}
        <3>1. CASE updateStatus(t)
            <4>1. watch[t].on \in Incident
                BY <3>1 DEF updateStatus, TimelineInv, IncidentsInv, Typed
            <4> QED
                BY <3>1, <4>1 DEF updateStatus, Recorded
        <3>2. CASE autoResolveIfHealthy(t)
            <4>1. watch[t].list \subseteq Incident
                BY DEF TimelineInv, IncidentsInv, Typed, Task
            <4> QED
                BY <3>2, <4>1 DEF autoResolveIfHealthy, Recorded
        <3>3. CASE Abandon(t)
            <4>1. watch[t].step \in {"announce", "tell"} => watch[t].on \in Incident
                BY DEF TimelineInv, Tellers, TellSteps
            <4> QED
                BY <3>3, <4>1 DEF Abandon
        <3>4. CASE ~(updateStatus(t) \/ autoResolveIfHealthy(t) \/ Abandon(t))
            BY <3>4 DEF WatchStep, runAllHealthChecks, ProbeRoute, ProbeHealthy, ProbeUnhealthy,
                   ProbeThrows, checkAndCreateFromHealthFailure, checkAndCreateFromCBOpen, addEvent,
                   TellStatus, ListActive, AutoEvent, deleteIncident, create,
                   CreateByHand, DeleteEvents, UpdateStatus
        <3> QED
            BY <3>1, <3>2, <3>3, <3>4
    <2> QED
        BY <2>1 DEF HistoryTyped
<1> QED
    BY <1>1, <1>2, <1>3, <1>4 DEF HistoryTyped

\* Rows, tasks and lists keep their types whatever operators, probes and sweeps do.
THEOREM IncidentsTypes == IncidentsSpec => []IncidentsTypeOK
<1>1. IncidentsInit => HistoryTyped
    <2> SUFFICES ASSUME IncidentsInit PROVE HistoryTyped
        OBVIOUS
    <2>1. 0 \in 0..MaxStarted
        BY StartedAssumption
    <2>2. started = 0 /\ health = "UNKNOWN" /\ muddled = {}
        BY DEF IncidentsInit
    <2>3. handled = FALSE /\ crossed = FALSE
        BY DEF IncidentsInit
    <2>4. started \in 0..MaxStarted /\ muddled \subseteq Incident
        BY <2>1, <2>2
    <2>5. health \in HealthRow
        BY <2>2 DEF HealthRow
    <2> QED
        BY <2>3, <2>4, <2>5, Zenon DEF HistoryTyped
<1>2. TimelineInv /\ HistoryTyped /\ [IncidentsNext]_incidentVars => HistoryTyped'
    <2> SUFFICES ASSUME TimelineInv, HistoryTyped, [IncidentsNext]_incidentVars PROVE HistoryTyped'
        OBVIOUS
    <2>1. CASE UNCHANGED incidentVars
        BY <2>1 DEF incidentVars, HistoryTyped
    <2>2. CASE IncidentsNext
        BY <2>2, HistoryStep DEF IncidentsNext
    <2> QED
        BY <2>1, <2>2
<1>3. TimelineInv /\ HistoryTyped => IncidentsTypeOK
    BY DEF TimelineInv, IncidentsInv, Typed, HistoryTyped, IncidentsTypeOK
<1> QED
    BY <1>1, <1>2, <1>3, TimelineInitGood, TimelineStepGood, PTL DEF IncidentsSpec
=============================================================================
