------------------------------ MODULE Incidents ------------------------------
(***************************************************************************)
(* The incidents of one route and the health checks that open and resolve  *)
(* them (services/incidentService.ts, services/healthService.ts,           *)
(* routes/incidents.router.ts).                                            *)
(*                                                                         *)
(* A task is a request of an operator, a run of the health checks, or the  *)
(* promise a breaker started when it opened.  Every statement on the       *)
(* database is a step of its own; the tasks of all replicas interleave, and *)
(* a task may be abandoned before any of its statements, because the       *)
(* statement fails or because its replica stops.                           *)
(***************************************************************************)
EXTENDS Naturals, FiniteSets

CONSTANTS
  Incident,     \* the ids of the incidents a behaviour may create: a bound
  WatchTask,    \* the tasks that may be under way at the same time: a bound
  MaxStarted    \* the tasks a behaviour may start: a bound

ASSUME StartedAssumption == MaxStarted \in Nat

Status == {"ACTIVE", "INVESTIGATING", "RESOLVED", "DISMISSED"}

OpenStatus == {"ACTIVE", "INVESTIGATING"}

VARIABLES
  incident,     \* the rows: status, and the status the timeline names last
  health,       \* the newest row of HealthCheck; "DOWN" is the UNHEALTHY row of a probe that threw
  watch,        \* the tasks
  started,      \* how many tasks have been started
  \* History, read by the properties only
  excused,      \* incidents opened by hand, or by a task whose look-up overlapped another's
  settled,      \* incidents dismissed while no list of a sweep held them
  muddled,      \* incidents whose last status was written across another task's
  handled,      \* an operator closed or deleted an incident since the last failed probe
  crossed       \* the last run of the health check overlapped another, or was abandoned

incidentVars == <<incident, health, watch, started, excused, settled, muddled, handled, crossed>>

IncidentRow == [status: Status \cup {"unused", "deleted"}, told: Status \cup {"nothing"}]

HealthRow == {"UNKNOWN", "HEALTHY", "UNHEALTHY", "DOWN"}

Step == {"idle", "probing", "failed", "probed", "listed", "auto", "event", "create",
         "announce", "update", "tell", "erase"}

\* A task: its next step, the incident it works on, the status it writes, the
\* incidents of its list, whether a sweep started it, and whether its look-up overlapped another.
Task == [step: Step, on: Incident \cup {"none"}, status: Status, list: SUBSET Incident, sweep: BOOLEAN, late: BOOLEAN]

Idle == [step |-> "idle", on |-> "none", status |-> "ACTIVE", list |-> {},
         sweep |-> FALSE, late |-> FALSE]

IncidentsInit ==
  /\ incident = [i \in Incident |-> [status |-> "unused", told |-> "nothing"]]
  /\ health = "UNKNOWN"
  /\ watch = [t \in WatchTask |-> Idle]
  /\ started = 0
  /\ excused = {} /\ settled = {} /\ muddled = {}
  /\ handled = FALSE /\ crossed = FALSE

-----------------------------------------------------------------------------
(* Helpers *)

Exists(i) == incident[i].status \notin {"unused", "deleted"}

OpenIncident == {i \in Incident : incident[i].status \in OpenStatus}

\* The incidents a look-up for an open one may return.
FindsActiveOnly == {i \in Incident : incident[i].status = "ACTIVE"}
FindsAny == {i \in Incident : Exists(i)}
FoundOpen == OpenIncident

\* The incidents a sweep resolves.
ListsUnresolved == {i \in Incident : Exists(i) /\ incident[i].status # "RESOLVED"}
ActiveList == OpenIncident

\* The tasks whose event about the status of i is still to come.
Telling(i) == {t \in WatchTask : watch[t].step \in {"announce", "tell", "auto"} /\ watch[t].on = i}

\* The tasks that looked for an open incident, found none and are about to create one.
Creating == {t \in WatchTask : watch[t].step = "create"}

\* The tasks that probe the route, or act on the result of a probe.
Checking == {t \in WatchTask : \/ watch[t].step \in {"probing", "failed", "probed", "listed", "auto"}
                               \/ watch[t].step = "tell" /\ watch[t].sweep}

Starts(t, task) ==
  /\ watch[t] = Idle
  /\ started < MaxStarted
  /\ watch' = [watch EXCEPT ![t] = task]
  /\ started' = started + 1

Continues(t, task) == watch' = [watch EXCEPT ![t] = task] /\ UNCHANGED started

Ends(t) == watch' = [watch EXCEPT ![t] = Idle] /\ UNCHANGED started

-----------------------------------------------------------------------------
(* Health checks *)

\* runAllHealthChecks reads the routes whose interval has passed and probes them (cron on
\* every replica, and POST /system/health-check); how much time has passed is left open.
runAllHealthChecks(t) ==
  /\ Starts(t, [Idle EXCEPT !.step = "probing", !.sweep = TRUE])
  /\ crossed' = (Checking # {})
  /\ UNCHANGED <<incident, health, excused, settled, muddled, handled>>

\* GET /routes/:id/health probes the route at once, and resolves nothing.
ProbeRoute(t) ==
  /\ Starts(t, [Idle EXCEPT !.step = "probing"])
  /\ crossed' = (Checking # {})
  /\ UNCHANGED <<incident, health, excused, settled, muddled, handled>>

\* checkRouteHealth, when the target answered below 500: the row, and for a sweep
\* the incidents are resolved once all its probes have ended.
ProbeHealthy(t) ==
  /\ watch[t].step = "probing"
  /\ health' = "HEALTHY"
  /\ IF watch[t].sweep THEN Continues(t, [watch[t] EXCEPT !.step = "probed"]) ELSE Ends(t)
  /\ UNCHANGED <<incident, excused, settled, muddled, handled, crossed>>

\* checkRouteHealth, when the target answered 5xx or its address is refused: only the row.
ProbeUnhealthy(t) ==
  /\ watch[t].step = "probing"
  /\ health' = "UNHEALTHY"
  /\ Ends(t)
  /\ UNCHANGED <<incident, excused, settled, muddled, handled, crossed>>

\* checkRouteHealth, when the probe threw: the row, then a notification (module
\* Notices) and the look for an incident, which nobody waits for.
ProbeThrows(t) ==
  /\ watch[t].step = "probing"
  /\ health' = "DOWN"
  /\ Continues(t, [watch[t] EXCEPT !.step = "failed"])
  /\ handled' = FALSE
  /\ UNCHANGED <<incident, excused, settled, muddled, crossed>>

-----------------------------------------------------------------------------
(* Opening an incident *)

\* The look-up that checkAndCreateFromHealthFailure and checkAndCreateFromCBOpen begin with.
LookUp(task) ==
  IF FoundOpen = {}
  THEN {[task EXCEPT !.step = "create", !.late = (Creating # {})]}
  ELSE {[task EXCEPT !.step = "event", !.on = i] : i \in FoundOpen}

\* After a failed health check.
checkAndCreateFromHealthFailure(t) ==
  /\ watch[t].step = "failed"
  /\ \E next \in LookUp(watch[t]) : Continues(t, next)
  /\ UNCHANGED <<incident, health, excused, settled, muddled, handled, crossed>>

\* After a breaker opened (circuitBreakerService starts it and does not wait).
checkAndCreateFromCBOpen(t) ==
  /\ \E next \in LookUp(Idle) : Starts(t, next)
  /\ UNCHANGED <<incident, health, excused, settled, muddled, handled, crossed>>

\* addEvent: a row of the timeline that names no status; it fails when the incident is gone.
addEvent(t) ==
  /\ watch[t].step = "event"
  /\ Ends(t)
  /\ UNCHANGED <<incident, health, excused, settled, muddled, handled, crossed>>

\* create: the row is ACTIVE; its first event follows.
create(t, i) ==
  /\ watch[t].step = "create"
  /\ incident[i].status = "unused"
  /\ incident' = [incident EXCEPT ![i].status = "ACTIVE"]
  /\ Continues(t, [watch[t] EXCEPT !.step = "announce", !.on = i, !.status = "ACTIVE"])
  /\ excused' = IF watch[t].late THEN excused \cup {i} ELSE excused
  /\ UNCHANGED <<health, settled, muddled, handled, crossed>>

\* POST /incidents: an operator's incident, without a look-up.
CreateByHand(t, i) ==
  /\ incident[i].status = "unused"
  /\ incident' = [incident EXCEPT ![i].status = "ACTIVE"]
  /\ Starts(t, [Idle EXCEPT !.step = "announce", !.on = i])
  /\ excused' = excused \cup {i}
  /\ UNCHANGED <<health, settled, muddled, handled, crossed>>

-----------------------------------------------------------------------------
(* Changing the status *)

\* PATCH /incidents/:id/status and /dismiss: assertIncidentManage found the incident.
UpdateStatus(t, i, s) ==
  /\ Exists(i)
  /\ Starts(t, [Idle EXCEPT !.step = "update", !.on = i, !.status = s])
  /\ UNCHANGED <<incident, health, excused, settled, muddled, handled, crossed>>

\* What the history says of a status written to i by t.
Recorded(t, i) == muddled' = IF Telling(i) \ {t} # {} THEN muddled \cup {i} ELSE muddled \ {i}

\* updateStatus: the row; the update throws when the incident is gone.
updateStatus(t) ==
  LET i == watch[t].on
      s == watch[t].status IN
  /\ watch[t].step = "update"
  /\ IF Exists(i)
     THEN /\ incident' = [incident EXCEPT ![i].status = s]
          /\ Continues(t, [watch[t] EXCEPT !.step = "tell"])
          /\ excused' = IF s \in OpenStatus /\ i \notin OpenIncident THEN excused \cup {i} ELSE excused
          /\ settled' = IF s = "DISMISSED" /\ \A u \in WatchTask : i \notin watch[u].list
                        THEN settled \cup {i} ELSE settled \ {i}
          /\ handled' = (handled \/ s \notin OpenStatus)
          /\ Recorded(t, i)
     ELSE /\ Ends(t)
          /\ UNCHANGED <<incident, excused, settled, muddled, handled>>
  /\ UNCHANGED <<health, crossed>>

\* The event of updateStatus or create, which names the status; a sweep goes on
\* with its second event and the rest of its list.
TellsCreation(t) ==
  LET i == watch[t].on IN
  /\ watch[t].step \in {"tell", "announce"}
  /\ incident' = IF Exists(i) /\ watch[t].step = "announce" THEN [incident EXCEPT ![i].told = "ACTIVE"] ELSE incident
  /\ Ends(t)
  /\ UNCHANGED <<health, excused, settled, muddled, handled, crossed>>

TellStatus(t) ==
  LET i == watch[t].on IN
  /\ watch[t].step \in {"tell", "announce"}
  /\ incident' = IF Exists(i) THEN [incident EXCEPT ![i].told = watch[t].status] ELSE incident
  /\ IF watch[t].sweep /\ watch[t].step = "tell" /\ Exists(i)
     THEN Continues(t, [watch[t] EXCEPT !.step = "auto"])
     ELSE Ends(t)
  /\ UNCHANGED <<health, excused, settled, muddled, handled, crossed>>

\* autoResolveIfHealthy reads the open incidents once its sweep has ended.
ListActive(t) ==
  /\ watch[t].step = "probed"
  /\ Continues(t, [watch[t] EXCEPT !.step = "listed", !.list = ActiveList])
  /\ UNCHANGED <<incident, health, excused, settled, muddled, handled, crossed>>

\* autoResolveIfHealthy: the next incident of the list; a failing update ends the loop.
autoResolveIfHealthy(t) ==
  /\ watch[t].step = "listed"
  /\ \/ \E i \in watch[t].list :
          IF Exists(i)
          THEN /\ incident' = [incident EXCEPT ![i].status = "RESOLVED"]
               /\ Continues(t, [watch[t] EXCEPT !.step = "tell", !.on = i, !.status = "RESOLVED",
                                               !.list = @ \ {i}])
               /\ Recorded(t, i)
          ELSE Ends(t) /\ UNCHANGED <<incident, muddled>>
     \/ watch[t].list = {} /\ Ends(t) /\ UNCHANGED <<incident, muddled>>
  /\ UNCHANGED <<health, excused, settled, handled, crossed>>

\* The event "Auto-resolved", which is of the type of a status change as well.
AutoEvent(t) ==
  LET i == watch[t].on IN
  /\ watch[t].step = "auto"
  /\ incident' = IF Exists(i) THEN [incident EXCEPT ![i].told = "RESOLVED"] ELSE incident
  /\ IF Exists(i) THEN Continues(t, [watch[t] EXCEPT !.step = "listed"]) ELSE Ends(t)
  /\ UNCHANGED <<health, excused, settled, muddled, handled, crossed>>

\* deleteIncident: the events first, then the row, whose events of that moment go with it.
DeleteEvents(t, i) ==
  /\ Exists(i)
  /\ Starts(t, [Idle EXCEPT !.step = "erase", !.on = i])
  /\ incident' = [incident EXCEPT ![i].told = "nothing"]
  /\ muddled' = muddled \cup {i}
  /\ UNCHANGED <<health, excused, settled, handled, crossed>>

deleteIncident(t) ==
  LET i == watch[t].on IN
  /\ watch[t].step = "erase"
  /\ incident' = IF Exists(i) THEN [incident EXCEPT ![i] = [status |-> "deleted", told |-> "nothing"]] ELSE incident
  /\ Ends(t)
  /\ handled' = TRUE
  /\ settled' = settled \ {i}
  /\ UNCHANGED <<health, excused, muddled, crossed>>

\* A statement fails or the replica stops: the rest of the task does not happen.
Abandon(t) ==
  /\ watch[t] # Idle
  /\ Ends(t)
  /\ muddled' = IF watch[t].step \in {"announce", "tell"} THEN muddled \cup {watch[t].on} ELSE muddled
  /\ crossed' = (crossed \/ t \in Checking \/ t \in Creating)
  /\ UNCHANGED <<incident, health, excused, settled, handled>>

WatchStep(t) ==
  \/ runAllHealthChecks(t) \/ ProbeRoute(t)
  \/ ProbeHealthy(t) \/ ProbeUnhealthy(t) \/ ProbeThrows(t)
  \/ checkAndCreateFromHealthFailure(t) \/ checkAndCreateFromCBOpen(t) \/ addEvent(t)
  \/ updateStatus(t) \/ TellStatus(t) \/ ListActive(t) \/ autoResolveIfHealthy(t) \/ AutoEvent(t)
  \/ deleteIncident(t) \/ Abandon(t)
  \/ \E i \in Incident : \/ create(t, i) \/ CreateByHand(t, i) \/ DeleteEvents(t, i)
                         \/ \E s \in Status : UpdateStatus(t, i, s)

IncidentsNext == \E t \in WatchTask : WatchStep(t)

IncidentsSpec == IncidentsInit /\ [][IncidentsNext]_incidentVars
-----------------------------------------------------------------------------
(* Properties *)

IncidentsTypeOK ==
  /\ incident \in [Incident -> IncidentRow]
  /\ health \in HealthRow
  /\ watch \in [WatchTask -> Task]
  /\ started \in 0..MaxStarted
  /\ excused \subseteq Incident /\ settled \subseteq Incident /\ muddled \subseteq Incident
  /\ handled \in BOOLEAN /\ crossed \in BOOLEAN

\* The comment in checkAndCreateFromHealthFailure, "Check if there's already an active incident
\* for this route": the breaker and the health checks never have two incidents of a route open,
\* unless a look-up came between another task's look-up and its create, or an operator
\* opened or reopened one by hand.
OneOpenIncident ==
  \A i, j \in OpenIncident \ excused : i = j

\* An incident that an operator dismissed stays dismissed until an operator changes it again,
\* whatever probes, sweeps and breakers do, unless a sweep had it on its list already.
DismissedStays ==
  \A i \in settled : incident[i].status = "DISMISSED"

\* The newest status event of the timeline names the status of the row, once the task that
\* wrote the row has told so; tasks that write the same incident across each other, a task
\* abandoned between row and event and a deletion under way are the exceptions.
TimelineTellsStatus ==
  \A i \in Incident \ muddled :
    Exists(i) /\ Telling(i) = {} => incident[i].told = incident[i].status

\* When the last probe could not reach the target and all tasks of the health check have
\* ended, an incident is open, unless an operator closed one since, or the last probe
\* overlapped another or was abandoned.
OutageHasIncident ==
  health = "DOWN" /\ Checking \cup Creating = {} /\ ~handled /\ ~crossed => OpenIncident # {}
=============================================================================
