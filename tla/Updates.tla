------------------------------- MODULE Updates -------------------------------
(***************************************************************************)
(* Update checks and the rolling update of both deployments                *)
(* (services/updateService.ts, POST /system/update).  Every replica of the *)
(* backend keeps the result of its last check in memory; the last result   *)
(* of all of them is a row of the settings, which a replica loads when it  *)
(* has none.  A replica that is replaced by one of another version finds   *)
(* the row that the old ones wrote.                                        *)
(***************************************************************************)
EXTENDS Naturals

CONSTANTS
  UpReplica,    \* replicas of the backend
  MaxVersion,   \* the last version that is published: a bound
  MaxChecks     \* the checks that a behaviour may have: a bound

ASSUME UpdatesAssumption == MaxVersion \in Nat \ {0} /\ MaxChecks \in Nat

Version == 1..MaxVersion

Image == {"backend", "frontend"}

NoResult == [current |-> 0, backend |-> 0, frontend |-> 0, available |-> FALSE]

\* What a check found: the version that ran it, and the latest tags (0: not found).
Result == [current: 0..MaxVersion, backend: 0..MaxVersion, frontend: 0..MaxVersion, available: BOOLEAN]

NoRollout == [step |-> "none", backend |-> 0, frontend |-> 0]

VARIABLES
  registry,     \* the latest published tag of each image
  deployed,     \* the tag that each deployment names
  running,      \* the version each replica runs
  cached,       \* cachedUpdateResult of each replica
  unsaved,      \* a result that a replica is about to persist
  row,          \* the setting updateStatus
  rollout,      \* the update a replica carries out
  checks        \* how many checks there were

updateVars == <<registry, deployed, running, cached, unsaved, row, rollout, checks>>

UpdatesInit ==
  /\ registry = [m \in Image |-> 1] /\ deployed = [m \in Image |-> 1]
  /\ running = [r \in UpReplica |-> 1]
  /\ cached = [r \in UpReplica |-> NoResult] /\ unsaved = [r \in UpReplica |-> NoResult]
  /\ row = NoResult
  /\ rollout = [r \in UpReplica |-> NoRollout]
  /\ checks = 0

\* A new version of an image is published.
Publish(m) ==
  /\ registry[m] < MaxVersion
  /\ registry' = [registry EXCEPT ![m] = @ + 1]
  /\ UNCHANGED <<deployed, running, cached, unsaved, row, rollout, checks>>

\* checkForUpdates: what it finds when it gets a token for the images of `got`.
Found(r, got) ==
  [current   |-> running[r],
   backend   |-> IF "backend" \in got THEN registry["backend"] ELSE 0,
   frontend  |-> IF "frontend" \in got THEN registry["frontend"] ELSE 0,
   available |-> \E m \in got : registry[m] > running[r]]

\* runScheduledUpdateCheck (the daily job, POST /system/update-check and the refresh of a
\* stale status): the result is cached, and persisted if there was any token at all.
runScheduledUpdateCheck(r, got) ==
  /\ unsaved[r] = NoResult /\ checks < MaxChecks
  /\ checks' = checks + 1
  /\ cached' = [cached EXCEPT ![r] = Found(r, got)]
  /\ unsaved' = [unsaved EXCEPT ![r] = IF got = {} THEN NoResult ELSE Found(r, got)]
  /\ UNCHANGED <<registry, deployed, running, row, rollout>>

persistUpdateResult(r) ==
  /\ unsaved[r] # NoResult
  /\ row' \in {row, unsaved[r]}                     \* a failure is only logged
  /\ unsaved' = [unsaved EXCEPT ![r] = NoResult]
  /\ UNCHANGED <<registry, deployed, running, cached, rollout, checks>>

\* fresh: a result of another version is not reported.
AnyIsFresh(r, result) == TRUE
Fresh(r, result) == result.current = running[r]

\* What getCachedUpdateStatus answers: the cached result, or else the row, if it is of this
\* version; otherwise nothing.
ReportedStatus(r) ==
  LET known == IF cached[r] # NoResult THEN cached[r] ELSE row IN
  IF Fresh(r, known) THEN known ELSE NoResult

\* getCachedUpdateStatus keeps what it answers; a check starts in the background when it has nothing.
getCachedUpdateStatus(r) ==
  /\ cached' = [cached EXCEPT ![r] = ReportedStatus(r)]
  /\ UNCHANGED <<registry, deployed, running, unsaved, row, rollout, checks>>

-----------------------------------------------------------------------------
(* pullAndRestart on Kubernetes *)

\* The tag to deploy; the running version when the check found none.
TagAsFound(r, tag) == tag
Tag(r, tag) == IF tag = 0 THEN running[r] ELSE tag

\* Step 1: the cached result, or a new check; nothing to do when no update is available.
pullAndRestart(r, got) ==
  LET info == IF cached[r] # NoResult THEN cached[r] ELSE Found(r, got) IN
  /\ rollout[r].step = "none"
  /\ unsaved[r] = NoResult
  /\ IF cached[r] # NoResult THEN got = {} /\ UNCHANGED checks
     ELSE checks < MaxChecks /\ checks' = checks + 1
  /\ IF cached[r] = NoResult /\ got # {}
     THEN cached' = [cached EXCEPT ![r] = info] /\ unsaved' = [unsaved EXCEPT ![r] = info]
     ELSE UNCHANGED <<cached, unsaved>>
  /\ rollout' = IF info.available
                THEN [rollout EXCEPT ![r] = [step |-> "frontend", backend |-> Tag(r, info.backend),
                                             frontend |-> Tag(r, info.frontend)]]
                ELSE rollout
  /\ UNCHANGED <<registry, deployed, running, row>>

\* Steps 2 and 3: the deployment of the frontend is patched and its rollout awaited; steps 4
\* and 5: the same for the backend.  A frontend that does not become ready ends the update
\* before the backend is touched.
updateK8sDeployment(r) ==
  \E m \in Image :
    /\ rollout[r].step = m
    /\ deployed' = [deployed EXCEPT ![m] = rollout[r][m]]
    /\ rollout' = [rollout EXCEPT ![r] = IF m = "frontend" THEN [@ EXCEPT !.step = "waiting"] ELSE NoRollout]
    /\ UNCHANGED <<registry, running, cached, unsaved, row, checks>>

waitForRollout(r) ==
  /\ rollout[r].step = "waiting"
  /\ rollout' \in {[rollout EXCEPT ![r].step = "backend"], [rollout EXCEPT ![r] = NoRollout]}
  /\ UNCHANGED <<registry, deployed, running, cached, unsaved, row, checks>>

\* A call to the cluster fails, and the update ends with an error.
UpdateFails(r) ==
  /\ rollout[r].step # "none"
  /\ rollout' = [rollout EXCEPT ![r] = NoRollout]
  /\ UNCHANGED <<registry, deployed, running, cached, unsaved, row, checks>>

\* The cluster replaces a replica: by the version that the deployment names.
Replaced(r) ==
  /\ running' = [running EXCEPT ![r] = deployed["backend"]]
  /\ cached' = [cached EXCEPT ![r] = NoResult]
  /\ unsaved' = [unsaved EXCEPT ![r] = NoResult]
  /\ rollout' = [rollout EXCEPT ![r] = NoRollout]
  /\ UNCHANGED <<registry, deployed, row, checks>>

UpdatesNext ==
  \/ \E m \in Image : Publish(m)
  \/ \E r \in UpReplica :
       \/ persistUpdateResult(r) \/ getCachedUpdateStatus(r)
       \/ updateK8sDeployment(r) \/ waitForRollout(r) \/ UpdateFails(r) \/ Replaced(r)
       \/ \E got \in SUBSET Image : runScheduledUpdateCheck(r, got) \/ pullAndRestart(r, got)

UpdatesSpec == UpdatesInit /\ [][UpdatesNext]_updateVars

-----------------------------------------------------------------------------
(* Properties *)

UpdatesTypeOK ==
  /\ registry \in [Image -> Version] /\ deployed \in [Image -> Version]
  /\ running \in [UpReplica -> Version]
  /\ cached \in [UpReplica -> Result] /\ unsaved \in [UpReplica -> Result]
  /\ row \in Result /\ checks \in 0..MaxChecks
  /\ rollout \in [UpReplica -> [step: Image \cup {"none", "waiting"}, backend: 0..MaxVersion, frontend: 0..MaxVersion]]

\* The comment in getCachedUpdateStatus, "don't report a phantom "update available"": what a
\* replica reports is a version newer than its own, whatever the replicas of older and newer
\* versions have left in the settings during a rolling update.
NoPhantomUpdate ==
  \A r \in UpReplica :
    ReportedStatus(r).available => \E m \in Image : ReportedStatus(r)[m] > running[r]
=============================================================================
