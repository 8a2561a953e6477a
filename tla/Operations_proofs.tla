------------------------- MODULE Operations_proofs --------------------------
(***************************************************************************)
(* The operations beside the traffic, for any number of routes, requests,  *)
(* replicas, administrators, backups and writes: the throttle of           *)
(* notifications, the restore of backups, the status of updates, the       *)
(* versions and paths of routes, and the cache of the console. Each part   *)
(* has an inductive invariant of its own; the parts share no state.        *)
(***************************************************************************)
EXTENDS MCOperations, Incidents_proofs, FiniteSetTheorems, TLAPS

(***************************************************************************)
(* Notices. The invariant says who may still create a batch that the       *)
(* throttle answers for: a report whose look-up found no other report      *)
(* under way. There is at most one of these, and as long as there is one,  *)
(* no batch that the throttle answers for has rows that count.             *)
(***************************************************************************)

OneFirst == \A r, o \in Reporter : report[r] = "first" /\ report[o] = "first" => r = o

FirstFoundNone ==
  \A r \in Reporter : report[r] = "first" => \A b \in Batch \ doubled : Counted(batch[b]) = {}

OneCounts ==
  \A b, c \in Batch \ doubled : b # c => Counted(batch[b]) = {} \/ Counted(batch[c]) = {}

NoticesInv == NoticesTypeOK /\ OneFirst /\ FirstFoundNone /\ OneCounts

-----------------------------------------------------------------------------
\* Reading and deleting rows leaves the same administrators counted, or fewer.
Thinned == \A b \in Batch : Counted(batch[b])' \subseteq Counted(batch[b])

LEMMA ThinnedKeeps ==
  ASSUME NoticesInv, NoticesTypeOK', Thinned, UNCHANGED <<report, doubled>>
  PROVE  NoticesInv'
<1>1. OneFirst'
  BY DEF NoticesInv, OneFirst
<1>2. FirstFoundNone'
  BY DEF NoticesInv, FirstFoundNone, Thinned
<1>3. OneCounts'
  BY DEF NoticesInv, OneCounts, Thinned
<1> QED
  BY <1>1, <1>2, <1>3 DEF NoticesInv

LEMMA InitGood == NoticesInit => NoticesInv
<1> SUFFICES ASSUME NoticesInit PROVE NoticesInv
  OBVIOUS
<1>1. NoRows \in Rows /\ NoRows.unread \cap NoRows.read = {}
  BY DEF NoRows, Rows
<1>2. NoticesTypeOK
  BY <1>1 DEF NoticesInit, NoticesTypeOK
<1>3. \A b \in Batch : Counted(batch[b]) = {}
  BY DEF NoticesInit, Counted, NoRows
<1> QED
  BY <1>2, <1>3 DEF NoticesInit, NoticesInv, OneFirst, FirstFoundNone, OneCounts

-----------------------------------------------------------------------------
\* A report looks for recent rows: it is the first if no other is under way.
LEMMA LookGood ==
  ASSUME NEW r \in Reporter, NoticesInv, LookForRecent(r)
  PROVE  NoticesInv'
<1> USE DEF LookForRecent, NoticesInv
<1>1. NoticesTypeOK'
  BY DEF NoticesTypeOK
<1>2. \A b \in Batch : Counted(batch[b])' = Counted(batch[b]) /\ Counted(batch[b]) = {}
  BY DEF Counted, HoldsBack
<1>3. OneFirst'
  BY DEF NoticesTypeOK, OneFirst
<1>4. FirstFoundNone' /\ OneCounts'
  BY <1>2 DEF FirstFoundNone, OneCounts
<1> QED
  BY <1>1, <1>3, <1>4

\* A report that could not look, and one that ends, create nothing the throttle answers for.
LEMMA NotFirstGood ==
  ASSUME NEW r \in Reporter, NoticesInv, LookFails(r) \/ CreateFails(r)
  PROVE  NoticesInv'
<1> USE DEF LookFails, CreateFails, NoticesInv
<1>1. NoticesTypeOK'
  BY DEF NoticesTypeOK
<1>2. \A b \in Batch : Counted(batch[b])' = Counted(batch[b])
  BY DEF Counted
<1>3. \A o \in Reporter : report'[o] = "first" => report[o] = "first"
  BY DEF NoticesTypeOK
<1>4. OneFirst' /\ FirstFoundNone'
  BY <1>2, <1>3 DEF OneFirst, FirstFoundNone
<1>5. OneCounts'
  BY <1>2 DEF OneCounts
<1> QED
  BY <1>1, <1>4, <1>5

LEMMA CreateGood ==
  ASSUME NEW r \in Reporter, NEW b \in Batch, NoticesInv, createNotification(r, b)
  PROVE  NoticesInv'
<1> USE DEF createNotification, NoticesInv
<1>1. /\ batch' \in [Batch -> Rows]
      /\ batch'[b].unread = Admin /\ batch'[b].read = {}
      /\ \A c \in Batch \ {b} : batch'[c] = batch[c]
  BY DEF NoticesTypeOK, NoRows, Rows
<1>2. NoticesTypeOK'
  BY <1>1 DEF NoticesTypeOK
<1>3. \A c \in Batch \ {b} : Counted(batch[c])' = Counted(batch[c])
  BY <1>1 DEF Counted
<1>4. \A o \in Reporter : report'[o] = "first" => o # r /\ report[o] = "first"
  BY DEF NoticesTypeOK
<1>5. OneFirst'
  BY <1>4 DEF OneFirst
<1>6. CASE report[r] = "late"
  <2>1. b \in doubled' /\ \A c \in Batch \ doubled' : c # b /\ c \notin doubled
    BY <1>6
  <2> QED
    BY <1>2, <1>3, <1>4, <1>5, <2>1 DEF FirstFoundNone, OneCounts
<1>7. CASE report[r] = "first"
  <2>1. doubled' = doubled \ {b}
    BY <1>7
  <2>2. \A o \in Reporter : report'[o] # "first"
    BY <1>4, <1>7 DEF OneFirst
  <2>3. \A c \in Batch \ doubled' : c # b => Counted(batch[c])' = {}
    BY <1>3, <1>7, <2>1 DEF FirstFoundNone
  <2> QED
    BY <1>2, <1>5, <2>2, <2>3 DEF FirstFoundNone, OneCounts
<1> QED
  BY <1>6, <1>7 DEF NoticesTypeOK

LEMMA ReadGood ==
  ASSUME NEW a \in Admin, NoticesInv,
         \/ markAllAsRead(a) \/ deleteAllRead(a)
         \/ \E b \in Batch : markAsRead(a, b) \/ deleteNotification(a, b)
  PROVE  NoticesInv'
<1>1. UNCHANGED <<kind, report, doubled>>
  BY DEF markAllAsRead, deleteAllRead, markAsRead, deleteNotification
<1>2. \A b \in Batch : /\ batch[b] \in Rows
                       /\ batch[b] = [unread |-> batch[b].unread, read |-> batch[b].read]
                       /\ batch[b].unread \cap batch[b].read = {}
  BY DEF NoticesInv, NoticesTypeOK, Rows
<1>3. /\ batch' \in [Batch -> Rows]
      /\ \A b \in Batch : /\ batch'[b].unread \subseteq batch[b].unread
                          /\ batch'[b].unread \cup batch'[b].read \subseteq batch[b].unread \cup batch[b].read
                          /\ batch'[b].unread \cap batch'[b].read = {}
  <2>1. CASE markAllAsRead(a)
    BY <1>2, <2>1 DEF markAllAsRead, Rows
  <2>2. CASE deleteAllRead(a)
    BY <1>2, <2>2 DEF deleteAllRead, Rows
  <2>3. ASSUME NEW b \in Batch, markAsRead(a, b)
        PROVE  <1>3!1 /\ <1>3!2
    BY <1>2, <2>3 DEF markAsRead, Rows, NoticesInv, NoticesTypeOK
  <2>4. ASSUME NEW b \in Batch, deleteNotification(a, b)
        PROVE  <1>3!1 /\ <1>3!2
    BY <1>2, <2>4 DEF deleteNotification, Rows, NoticesInv, NoticesTypeOK
  <2> QED
    BY <2>1, <2>2, <2>3, <2>4
<1>4. NoticesTypeOK'
  BY <1>1, <1>3 DEF NoticesInv, NoticesTypeOK
<1>5. Thinned
  BY <1>1, <1>3 DEF Thinned, Counted
<1> QED
  BY <1>1, <1>4, <1>5, ThinnedKeeps

LEMMA AgesGood ==
  ASSUME NEW b \in Batch, NoticesInv, Ages(b)
  PROVE  NoticesInv'
<1>1. NoRows \in Rows /\ NoRows.unread \cap NoRows.read = {}
  BY DEF NoRows, Rows
<1>2. NoticesTypeOK'
  BY <1>1 DEF Ages, NoticesInv, NoticesTypeOK
<1>3. Thinned
  BY DEF Thinned, Counted, Ages, NoRows, NoticesInv, NoticesTypeOK
<1> QED
  BY <1>2, <1>3, ThinnedKeeps DEF Ages

LEMMA StepGood == NoticesInv /\ [NoticesNext]_noticeVars => NoticesInv'
<1> SUFFICES ASSUME NoticesInv, [NoticesNext]_noticeVars PROVE NoticesInv'
  OBVIOUS
<1>1. CASE UNCHANGED noticeVars
  BY <1>1 DEF noticeVars, NoticesInv, NoticesTypeOK, OneFirst, FirstFoundNone, OneCounts, Counted
<1>2. CASE NoticesNext
  BY <1>2, LookGood, NotFirstGood, CreateGood, ReadGood, AgesGood DEF NoticesNext
<1> QED
  BY <1>1, <1>2

-----------------------------------------------------------------------------
\* Rows and reports of notificationService keep their types: no administrator has a row
\* that is read and unread.
THEOREM NoticesTypeCorrect == NoticesSpec => []NoticesTypeOK
<1>1. NoticesInv => NoticesTypeOK
  BY DEF NoticesInv
<1> QED
  BY <1>1, InitGood, StepGood, PTL DEF NoticesSpec

\* The throttle in front of createNotification works as its comment says, unless reports
\* overlap or the look-up fails.
THEOREM ThrottleWorks == NoticesSpec => []NoticeThrottled
<1>1. NoticesInv => NoticeThrottled
  BY DEF NoticesInv, OneCounts, NoticeThrottled
<1> QED
  BY <1>1, InitGood, StepGood, PTL DEF NoticesSpec

-----------------------------------------------------------------------------
(***************************************************************************)
(* Updates. A result is truthful about the version that looked, not about  *)
(* the one that reads it; only the comparison in getCachedUpdateStatus     *)
(* ties the two.                                                           *)
(***************************************************************************)

\* A result that announces an update names a version newer than the one that looked.
Truthful(result) == result.available => \E m \in Image : result[m] > result.current

\* An update that is carried out names a version for both deployments.
Named(o) == o.step # "none" => o.backend \in Version /\ o.frontend \in Version

UpdatesInv ==
  /\ UpdatesTypeOK
  /\ \A r \in UpReplica : Truthful(cached[r]) /\ Truthful(unsaved[r]) /\ Named(rollout[r])
  /\ Truthful(row)

Rollout == [step: Image \cup {"none", "waiting"}, backend: 0..MaxVersion, frontend: 0..MaxVersion]

LEMMA NoneGood ==
  /\ NoResult \in Result /\ Truthful(NoResult) /\ ~NoResult.available
  /\ NoRollout \in Rollout /\ Named(NoRollout)
  BY UpdatesAssumption DEF NoResult, NoRollout, Result, Rollout, Truthful, Named

LEMMA FoundGood ==
  ASSUME UpdatesTypeOK, NEW r \in UpReplica, NEW got \in SUBSET Image
  PROVE  Found(r, got) \in Result /\ Truthful(Found(r, got))
<1> DEFINE f == Found(r, got)
<1>1. /\ running[r] \in Version /\ registry["backend"] \in Version /\ registry["frontend"] \in Version
      /\ "backend" \in Image /\ "frontend" \in Image
  BY DEF UpdatesTypeOK, Image
<1>2. /\ f.current = running[r]
      /\ f["backend"] = (IF "backend" \in got THEN registry["backend"] ELSE 0)
      /\ f["frontend"] = (IF "frontend" \in got THEN registry["frontend"] ELSE 0)
      /\ f.available = (\E m \in got : registry[m] > running[r])
  BY DEF Found
<1>3. f \in Result
  BY <1>1, UpdatesAssumption DEF Found, Result, Version
<1>4. ASSUME NEW m \in got, registry[m] > running[r]
      PROVE  f[m] > f.current
  BY <1>2, <1>4 DEF Image
<1> QED
  BY <1>2, <1>3, <1>4 DEF Truthful

LEMMA ReportGood ==
  ASSUME UpdatesInv, NEW r \in UpReplica
  PROVE  /\ ReportedStatus(r) \in Result /\ Truthful(ReportedStatus(r))
         /\ ReportedStatus(r).available => ReportedStatus(r).current = running[r]
<1>1. cached[r] \in Result /\ row \in Result /\ Truthful(cached[r]) /\ Truthful(row)
  BY DEF UpdatesInv, UpdatesTypeOK
<1> QED
  BY <1>1, NoneGood DEF ReportedStatus, Fresh

LEMMA UpdatesInitGood == UpdatesInit => UpdatesInv
<1> SUFFICES ASSUME UpdatesInit PROVE UpdatesInv
  OBVIOUS
<1>1. 1 \in Version /\ 0 \in 0..MaxChecks
  BY UpdatesAssumption DEF Version
<1> QED
  BY <1>1, NoneGood DEF UpdatesInit, UpdatesInv, UpdatesTypeOK, Rollout

LEMMA UpdatesStepGood == UpdatesInv /\ [UpdatesNext]_updateVars => UpdatesInv'
<1> SUFFICES ASSUME UpdatesInv, [UpdatesNext]_updateVars PROVE UpdatesInv'
  OBVIOUS
<1> USE DEF UpdatesInv
<1>t. UpdatesTypeOK /\ rollout \in [UpReplica -> Rollout]
  BY DEF UpdatesTypeOK, Rollout
<1>1. CASE UNCHANGED updateVars
  BY <1>1 DEF updateVars, UpdatesTypeOK
<1>2. ASSUME NEW m \in Image, Publish(m)
      PROVE  UpdatesInv'
  BY <1>2, UpdatesAssumption DEF Publish, UpdatesTypeOK, Version
<1>3. ASSUME NEW r \in UpReplica, NEW got \in SUBSET Image, runScheduledUpdateCheck(r, got)
      PROVE  UpdatesInv'
  <2>1. PICK f \in Result : f = Found(r, got) /\ Truthful(f)
    BY <1>t, FoundGood
  <2>2. PICK g \in Result : /\ Truthful(g) /\ unsaved' = [unsaved EXCEPT ![r] = g]
    BY <1>3, <2>1, NoneGood DEF runScheduledUpdateCheck
  <2>3. cached' = [cached EXCEPT ![r] = f] /\ checks' \in 0..MaxChecks
    BY <1>3, <2>1, UpdatesAssumption DEF runScheduledUpdateCheck, UpdatesTypeOK
  <2> QED
    BY <1>3, <2>1, <2>2, <2>3 DEF runScheduledUpdateCheck, UpdatesTypeOK
<1>4. ASSUME NEW r \in UpReplica, persistUpdateResult(r)
      PROVE  UpdatesInv'
  BY <1>4, NoneGood DEF persistUpdateResult, UpdatesTypeOK
<1>5. ASSUME NEW r \in UpReplica, getCachedUpdateStatus(r)
      PROVE  UpdatesInv'
  <2>1. PICK f \in Result : f = ReportedStatus(r) /\ Truthful(f)
    BY ReportGood
  <2> QED
    BY <1>5, <2>1 DEF getCachedUpdateStatus, UpdatesTypeOK
<1>6. ASSUME NEW r \in UpReplica, NEW got \in SUBSET Image, pullAndRestart(r, got)
      PROVE  UpdatesInv'
  <2>1. PICK info \in Result : /\ Truthful(info)
                               /\ info = IF cached[r] # NoResult THEN cached[r] ELSE Found(r, got)
    BY <1>t, FoundGood DEF UpdatesTypeOK
  <2>2. PICK o \in Rollout : Named(o) /\ rollout' = [rollout EXCEPT ![r] = o]
    <3>1. CASE info.available
      <4> DEFINE o == [step |-> "frontend", backend |-> Tag(r, info.backend), frontend |-> Tag(r, info.frontend)]
      <4>1. Tag(r, info.backend) \in Version /\ Tag(r, info.frontend) \in Version
        BY <2>1, UpdatesAssumption DEF Tag, Result, Version, UpdatesTypeOK
      <4>2. o \in Rollout /\ Named(o)
        BY <4>1, UpdatesAssumption DEF Rollout, Named, Image, Version
      <4> QED
        BY <1>6, <2>1, <3>1, <4>2 DEF pullAndRestart
    <3>2. CASE ~info.available
      BY <1>6, <1>t, <2>1, <3>2 DEF pullAndRestart
    <3> QED
      BY <3>1, <3>2
  <2>3. /\ cached' \in [UpReplica -> Result] /\ unsaved' \in [UpReplica -> Result]
        /\ \A p \in UpReplica : Truthful(cached'[p]) /\ Truthful(unsaved'[p])
    BY <1>6, <2>1 DEF pullAndRestart, UpdatesTypeOK
  <2>4. checks' \in 0..MaxChecks /\ UNCHANGED <<registry, deployed, running, row>>
    BY <1>6, UpdatesAssumption DEF pullAndRestart, UpdatesTypeOK
  <2>5. rollout' \in [UpReplica -> Rollout] /\ \A p \in UpReplica : Named(rollout'[p])
    BY <1>t, <2>2
  <2> QED
    BY <2>3, <2>4, <2>5 DEF UpdatesTypeOK, Rollout
<1>7. ASSUME NEW r \in UpReplica, NEW o \in Rollout, Named(o), rollout' = [rollout EXCEPT ![r] = o],
             UNCHANGED <<registry, running, cached, unsaved, row, checks>>, deployed' \in [Image -> Version]
      PROVE  UpdatesInv'
  <2>1. rollout' \in [UpReplica -> Rollout] /\ \A p \in UpReplica : Named(rollout'[p])
    BY <1>t, <1>7
  <2> QED
    BY <1>7, <2>1 DEF UpdatesTypeOK, Rollout
<1>8. ASSUME NEW r \in UpReplica, updateK8sDeployment(r)
      PROVE  UpdatesInv'
  <2>1. PICK m \in Image :
          /\ rollout[r].step = m
          /\ deployed' = [deployed EXCEPT ![m] = rollout[r][m]]
          /\ rollout' = [rollout EXCEPT ![r] = IF m = "frontend" THEN [rollout[r] EXCEPT !.step = "waiting"] ELSE NoRollout]
          /\ UNCHANGED <<registry, running, cached, unsaved, row, checks>>
    BY <1>8 DEF updateK8sDeployment
  <2>2. rollout[r] \in Rollout /\ Named(rollout[r]) /\ m # "none"
    BY <1>t DEF Image
  <2>3. rollout[r][m] \in Version
    BY <2>1, <2>2 DEF Named, Image
  <2>4. deployed' \in [Image -> Version]
    BY <2>1, <2>3 DEF UpdatesTypeOK
  <2>5. [rollout[r] EXCEPT !.step = "waiting"] \in Rollout /\ Named([rollout[r] EXCEPT !.step = "waiting"])
    BY <2>1, <2>2 DEF Rollout, Named
  <2>6. PICK o \in Rollout : Named(o) /\ rollout' = [rollout EXCEPT ![r] = o]
    BY <2>1, <2>5, NoneGood
  <2> QED
    BY <1>7, <2>1, <2>4, <2>6
<1>9. ASSUME NEW r \in UpReplica, waitForRollout(r) \/ UpdateFails(r)
      PROVE  UpdatesInv'
  <2>1. rollout[r] \in Rollout /\ Named(rollout[r])
    BY <1>t
  <2>2. CASE waitForRollout(r)
    <3>1. [rollout[r] EXCEPT !.step = "backend"] \in Rollout /\ Named([rollout[r] EXCEPT !.step = "backend"])
      BY <2>1, <2>2 DEF Rollout, Named, Image, waitForRollout
    <3>2. PICK o \in Rollout : Named(o) /\ rollout' = [rollout EXCEPT ![r] = o]
      BY <2>2, <3>1, NoneGood DEF waitForRollout
    <3> QED
      BY <1>7, <1>t, <2>2, <3>2 DEF waitForRollout, UpdatesTypeOK
  <2>3. CASE UpdateFails(r)
    BY <1>7, <1>t, <2>3, NoneGood DEF UpdateFails, UpdatesTypeOK
  <2> QED
    BY <1>9, <2>2, <2>3
<1>10. ASSUME NEW r \in UpReplica, Replaced(r)
       PROVE  UpdatesInv'
  <2>1. running' \in [UpReplica -> Version]
    BY <1>10 DEF Replaced, UpdatesTypeOK, Image
  <2>2. rollout' \in [UpReplica -> Rollout] /\ \A p \in UpReplica : Named(rollout'[p])
    BY <1>t, <1>10, NoneGood DEF Replaced
  <2>3. /\ cached' \in [UpReplica -> Result] /\ unsaved' \in [UpReplica -> Result]
        /\ \A p \in UpReplica : Truthful(cached'[p]) /\ Truthful(unsaved'[p])
    BY <1>10, NoneGood DEF Replaced, UpdatesTypeOK
  <2> QED
    BY <1>10, <2>1, <2>2, <2>3 DEF Replaced, UpdatesTypeOK, Rollout
<1> QED
  BY <1>1, <1>2, <1>3, <1>4, <1>5, <1>6, <1>8, <1>9, <1>10 DEF UpdatesNext

\* Results, replicas and deployments keep their types; above all, pullAndRestart never names a
\* tag in a deployment that is not a version.
THEOREM UpdatesTypes == UpdatesSpec => []UpdatesTypeOK
<1>1. UpdatesInv => UpdatesTypeOK
  BY DEF UpdatesInv
<1> QED
  BY <1>1, UpdatesInitGood, UpdatesStepGood, PTL DEF UpdatesSpec

\* getCachedUpdateStatus reports no update that is not one, for any number of replicas, versions
\* and checks, and however the replicas of different versions overlap.
THEOREM NoUpdateIsPhantom == UpdatesSpec => []NoPhantomUpdate
<1>1. UpdatesInv => NoPhantomUpdate
  <2> SUFFICES ASSUME UpdatesInv, NEW r \in UpReplica, ReportedStatus(r).available
               PROVE  \E m \in Image : ReportedStatus(r)[m] > running[r]
    BY DEF NoPhantomUpdate
  <2> QED
    BY ReportGood DEF Truthful
<1> QED
  BY <1>1, UpdatesInitGood, UpdatesStepGood, PTL DEF UpdatesSpec

-----------------------------------------------------------------------------
(***************************************************************************)
(* Backups. In the database every key has its route. Once the routes are   *)
(* read, a key that is read later has a route among them, unless a route   *)
(* was created meanwhile: deletions take the keys along, and what removes  *)
(* or brings back rows as a whole marks the export.                        *)
(***************************************************************************)

\* Every key belongs to a route that is there.
Referring(data) == \A k \in BkKey : data.apiKey[k] # None => data.route[data.apiKey[k]] # "absent"

BackupsTyped ==
  /\ routes \in [BkRoute -> Place] /\ keys \in [BkKey -> BkRoute \cup {None}]
  /\ backups \in [BkBackup -> Backup \cup {None}]
  /\ export \in [left: {<<>>, BACKUP_MODELS, Tail(BACKUP_MODELS)}, data: Data, torn: BOOLEAN]

\* When the routes have been read and none was created since, they include those there are now.
RoutesRead ==
  export.left = Tail(BACKUP_MODELS) /\ ~export.torn =>
    \A r \in BkRoute : routes[r] # "absent" => export.data.route[r] # "absent"

BackupsInv ==
  /\ BackupsTyped
  /\ Referring(Tables)
  /\ RoutesRead
  /\ \A b \in BkBackup : backups[b] # None /\ ~backups[b].torn => Referring(backups[b].data)

LEMMA Models ==
  /\ BACKUP_MODELS # <<>> /\ Tail(BACKUP_MODELS) # <<>> /\ Tail(BACKUP_MODELS) # BACKUP_MODELS
  /\ Len(BACKUP_MODELS) = 2 /\ Len(Tail(BACKUP_MODELS)) = 1 /\ Len(<<>>) = 0
  /\ Head(BACKUP_MODELS) = "route" /\ Head(Tail(BACKUP_MODELS)) = "apiKey"
  /\ BACKUP_MODELS[1] = "route" /\ BACKUP_MODELS[2] = "apiKey"
  BY DEF BACKUP_MODELS

LEMMA RestorableRefers ==
  ASSUME NEW data, Restorable(data)
  PROVE  Referring(data)
  BY Models DEF Restorable, Inserts, Referring

LEMMA RefersRestorable ==
  ASSUME NEW data, Referring(data), \A r \in BkRoute : data.route[r] \in {"absent", "loose"}
  PROVE  Restorable(data)
<1>1. Inserts(BACKUP_MODELS[1], data, {BACKUP_MODELS[j] : j \in 1..(1 - 1)})
  BY Models DEF Inserts
<1>2. "route" \in {BACKUP_MODELS[j] : j \in 1..(2 - 1)}
  BY Models
<1>3. Inserts(BACKUP_MODELS[2], data, {BACKUP_MODELS[j] : j \in 1..(2 - 1)})
  BY <1>2, Models DEF Inserts, Referring
<1>4. \A n \in 1..Len(BACKUP_MODELS) : n = 1 \/ n = 2
  BY Models
<1> QED
  BY <1>1, <1>3, <1>4 DEF Restorable

LEMMA NoExportGood == NoExport \in [left: {<<>>, BACKUP_MODELS, Tail(BACKUP_MODELS)}, data: Data, torn: BOOLEAN]
  BY DEF NoExport, Data, Empty, Place

LEMMA BackupsInitGood == BackupsInit => BackupsInv
<1> SUFFICES ASSUME BackupsInit PROVE BackupsInv
  OBVIOUS
<1>1. BackupsTyped
  BY NoExportGood DEF BackupsInit, BackupsTyped, Place
<1>2. Referring(Tables) /\ RoutesRead
  BY Models DEF BackupsInit, Referring, Tables, RoutesRead, NoExport
<1> QED
  BY <1>1, <1>2 DEF BackupsInit, BackupsInv

\* A step that stores no backup, and reads none of the routes anew.
LEMMA TablesStep ==
  ASSUME BackupsInv, BackupsTyped', UNCHANGED backups \/ \E b \in BkBackup : backups' = [backups EXCEPT ![b] = None],
         \A k \in BkKey : keys'[k] # None => routes'[keys'[k]] # "absent",
         RoutesRead'
  PROVE  BackupsInv'
<1>1. Referring(Tables)'
  BY DEF Referring, Tables
<1>2. \A b \in BkBackup : backups'[b] = backups[b] \/ backups'[b] = None
  BY DEF BackupsInv, BackupsTyped
<1> QED
  BY <1>1, <1>2 DEF BackupsInv, Referring

LEMMA RequestsGood ==
  ASSUME BackupsInv,
         \/ \E r \in BkRoute : DropRoute(r) \/ \E p \in Place : PutRoute(r, p)
         \/ \E k \in BkKey : \E r \in BkRoute : PutKey(k, r)
         \/ \E f \in {"team", "global"} : DropFolder(f)
  PROVE  BackupsInv'
<1> USE DEF BackupsInv
<1>t. BackupsTyped /\ UNCHANGED backups /\ \A k \in BkKey : keys[k] # None => keys[k] \in BkRoute /\ routes[keys[k]] # "absent"
  BY DEF BackupsTyped, Referring, Tables, DropRoute, PutRoute, PutKey, DropFolder
<1>1. ASSUME NEW r \in BkRoute, DropRoute(r)
      PROVE  BackupsInv'
  <2>1. BackupsTyped'
    BY <1>t, <1>1 DEF DropRoute, BackupsTyped, Place
  <2>2. \A k \in BkKey : keys'[k] # None => routes'[keys'[k]] # "absent"
    BY <1>t, <1>1 DEF DropRoute, BackupsTyped
  <2>3. RoutesRead'
    BY <1>t, <1>1 DEF DropRoute, BackupsTyped, RoutesRead
  <2> QED
    BY <1>t, <2>1, <2>2, <2>3, TablesStep
<1>2. ASSUME NEW r \in BkRoute, NEW p \in Place, PutRoute(r, p)
      PROVE  BackupsInv'
  <2>1. /\ export' \in [left: {<<>>, BACKUP_MODELS, Tail(BACKUP_MODELS)}, data: Data, torn: BOOLEAN]
        /\ export'.left = export.left /\ export'.data = export.data
        /\ ~export'.torn => ~export.torn /\ (Reading => routes[r] # "absent")
    BY <1>t, <1>2 DEF PutRoute, BackupsTyped
  <2>2. BackupsTyped'
    BY <1>t, <1>2, <2>1 DEF PutRoute, BackupsTyped
  <2>3. \A k \in BkKey : keys'[k] # None => routes'[keys'[k]] # "absent"
    BY <1>t, <1>2 DEF PutRoute, BackupsTyped
  <2>4. RoutesRead'
    BY <1>t, <1>2, <2>1, Models DEF PutRoute, BackupsTyped, RoutesRead, Reading
  <2> QED
    BY <1>t, <2>2, <2>3, <2>4, TablesStep
<1>3. ASSUME NEW k \in BkKey, NEW r \in BkRoute, PutKey(k, r)
      PROVE  BackupsInv'
  <2>1. BackupsTyped'
    BY <1>t, <1>3 DEF PutKey, BackupsTyped
  <2>2. \A o \in BkKey : keys'[o] # None => routes'[keys'[o]] # "absent"
    BY <1>t, <1>3 DEF PutKey, BackupsTyped
  <2>3. RoutesRead'
    BY <1>3 DEF PutKey, RoutesRead
  <2> QED
    BY <1>t, <2>1, <2>2, <2>3, TablesStep
<1>4. ASSUME NEW f \in {"team", "global"}, DropFolder(f)
      PROVE  BackupsInv'
  <2>1. BackupsTyped'
    BY <1>t, <1>4 DEF DropFolder, BackupsTyped, Place
  <2>2. \A k \in BkKey : keys'[k] # None => routes'[keys'[k]] # "absent"
    BY <1>t, <1>4 DEF DropFolder, BackupsTyped
  <2>3. RoutesRead'
    BY <1>t, <1>4 DEF DropFolder, BackupsTyped, RoutesRead
  <2> QED
    BY <1>t, <2>1, <2>2, <2>3, TablesStep
<1> QED
  BY <1>1, <1>2, <1>3, <1>4

LEMMA ExportGood ==
  ASSUME BackupsInv, createBackup \/ ReadTable \/ ExportFails
  PROVE  BackupsInv'
<1> USE DEF BackupsInv
<1>t. /\ BackupsTyped /\ UNCHANGED <<routes, keys, backups>>
      /\ \A k \in BkKey : keys[k] # None => routes[keys[k]] # "absent"
  BY DEF BackupsTyped, Referring, Tables, createBackup, ReadTable, ExportFails
<1>1. CASE createBackup
  <2>1. /\ export' \in [left: {<<>>, BACKUP_MODELS, Tail(BACKUP_MODELS)}, data: Data, torn: BOOLEAN]
        /\ export'.left = BACKUP_MODELS
    BY <1>1, NoExportGood DEF createBackup
  <2> QED
    BY <1>t, <2>1, Models, TablesStep DEF BackupsTyped, RoutesRead
<1>2. CASE ReadTable
  <2>0. Len(export.left) > 1 /\ export.left \in {<<>>, BACKUP_MODELS, Tail(BACKUP_MODELS)}
    BY <1>t, <1>2 DEF ReadTable, BackupsTyped
  <2>a. export.left # <<>> /\ export.left # Tail(BACKUP_MODELS)
    <3>1. ~(Len(<<>>) > 1) /\ ~(Len(Tail(BACKUP_MODELS)) > 1)
      BY DEF BACKUP_MODELS
    <3> QED
      BY <2>0, <3>1, Zenon
  <2>1. export.left = BACKUP_MODELS /\ Head(export.left) = "route"
    BY <2>0, <2>a, Models, Zenon
  <2>2. export' = [export EXCEPT !.left = Tail(@), !.data["route"] = Tables["route"]]
    BY <1>2, <2>1 DEF ReadTable
  <2>3. Tables["route"] = routes /\ routes \in [BkRoute -> Place]
    BY <1>t DEF Tables, BackupsTyped
  <2>4. export \in [left: {<<>>, BACKUP_MODELS, Tail(BACKUP_MODELS)}, data: Data, torn: BOOLEAN]
    BY <1>t DEF BackupsTyped
  <2>5. /\ export'.left = Tail(BACKUP_MODELS) /\ export'.torn = export.torn
        /\ export'.data = [export.data EXCEPT !["route"] = routes]
        /\ export' = [left |-> export'.left, data |-> export'.data, torn |-> export'.torn]
    BY <2>1, <2>2, <2>3, <2>4
  <2>6. export'.data \in Data /\ export'.data.route = routes
    BY <2>3, <2>4, <2>5 DEF Data
  <2>7. export' \in [left: {<<>>, BACKUP_MODELS, Tail(BACKUP_MODELS)}, data: Data, torn: BOOLEAN]
    BY <2>4, <2>5, <2>6
  <2> QED
    BY <1>t, <2>6, <2>7, TablesStep DEF BackupsTyped, RoutesRead
<1>3. CASE ExportFails
  <2>1. export' = NoExport /\ export'.left = <<>>
    BY <1>3 DEF ExportFails, NoExport
  <2> QED
    BY <1>t, <2>1, NoExportGood, Models, TablesStep DEF BackupsTyped, RoutesRead
<1> QED
  BY <1>1, <1>2, <1>3

LEMMA StoreGood ==
  ASSUME BackupsInv, NEW b \in BkBackup, StoreBackup(b)
  PROVE  BackupsInv'
<1> USE DEF BackupsInv
<1>1. export.left = Tail(BACKUP_MODELS) /\ Head(export.left) = "apiKey"
  BY Models DEF StoreBackup, BackupsTyped
<1>2. PICK stored : stored = [data |-> [export.data EXCEPT !["apiKey"] = keys], torn |-> export.torn]
  OBVIOUS
<1>3. backups' = [backups EXCEPT ![b] = stored] /\ UNCHANGED <<routes, keys>> /\ export' = NoExport
  <2>1. Tables["apiKey"] = keys
    BY DEF Tables
  <2>2. backups' = [backups EXCEPT ![b] = [data |-> [export.data EXCEPT ![Head(export.left)] = Tables[Head(export.left)]],
                                           torn |-> export.torn]]
    BY DEF StoreBackup
  <2> QED
    BY <1>1, <1>2, <2>1, <2>2 DEF StoreBackup
<1>4. /\ stored \in Backup /\ stored.torn = export.torn
      /\ stored.data.route = export.data.route /\ stored.data.apiKey = keys
  BY <1>2 DEF BackupsTyped, Backup, Data
<1>5. ~stored.torn => Referring(stored.data)
  BY <1>1, <1>4 DEF Referring, Tables, RoutesRead, BackupsTyped
<1>6. BackupsTyped'
  BY <1>3, <1>4, NoExportGood DEF BackupsTyped
<1>7. Referring(Tables)' /\ RoutesRead'
  BY <1>3, Models DEF Referring, Tables, RoutesRead, NoExport
<1>8. \A c \in BkBackup : backups'[c] = IF c = b THEN stored ELSE backups[c]
  BY <1>3 DEF BackupsTyped
<1> QED
  BY <1>5, <1>6, <1>7, <1>8 DEF Referring

LEMMA RestoreGood ==
  ASSUME BackupsInv, NEW b \in BkBackup, restoreBackup(b)
  PROVE  BackupsInv'
<1> USE DEF BackupsInv
<1>1. backups[b] \in Backup
  BY DEF restoreBackup, BackupsTyped
<1>2. /\ export' \in [left: {<<>>, BACKUP_MODELS, Tail(BACKUP_MODELS)}, data: Data, torn: BOOLEAN]
      /\ export'.left = Tail(BACKUP_MODELS) => export'.torn
  BY Models DEF restoreBackup, BackupsTyped, Reading
<1>3. RoutesRead'
  BY <1>2 DEF RoutesRead
<1>4. /\ routes' \in [BkRoute -> Place] /\ keys' \in [BkKey -> BkRoute \cup {None}]
      /\ \A k \in BkKey : keys'[k] # None => routes'[keys'[k]] # "absent"
  <2>1. CASE Restorable(backups[b].data)
    <3>1. Referring(backups[b].data)
      BY <2>1, RestorableRefers
    <3> QED
      BY <1>1, <2>1, <3>1 DEF restoreBackup, Backup, Data, Referring
  <2>2. CASE ~Restorable(backups[b].data)
    BY <2>2 DEF restoreBackup, BackupsTyped, Referring, Tables
  <2> QED
    BY <2>1, <2>2
<1>5. BackupsTyped' /\ UNCHANGED backups
  BY <1>2, <1>4 DEF restoreBackup, BackupsTyped
<1> QED
  BY <1>3, <1>4, <1>5, TablesStep

LEMMA BackupsStepGood == BackupsInv /\ [BackupsNext]_backupVars => BackupsInv'
<1> SUFFICES ASSUME BackupsInv, [BackupsNext]_backupVars PROVE BackupsInv'
  OBVIOUS
<1>0. ASSUME UNCHANGED <<routes, keys, export>>,
             UNCHANGED backups \/ \E b \in BkBackup : backups' = [backups EXCEPT ![b] = None]
      PROVE  BackupsInv'
  <2>1. BackupsTyped' /\ RoutesRead' /\ \A k \in BkKey : keys'[k] # None => routes'[keys'[k]] # "absent"
    BY <1>0 DEF BackupsInv, BackupsTyped, RoutesRead, Referring, Tables
  <2> QED
    BY <1>0, <2>1, TablesStep
<1>1. CASE UNCHANGED backupVars
  BY <1>0, <1>1 DEF backupVars
<1>2. CASE enforceRetentionPolicy
  BY <1>0, <1>2 DEF enforceRetentionPolicy
<1>3. ASSUME NEW b \in BkBackup, deleteBackup(b)
      PROVE  BackupsInv'
  BY <1>0, <1>3 DEF deleteBackup
<1> QED
  BY <1>1, <1>2, <1>3, RequestsGood, ExportGood, StoreGood, RestoreGood DEF BackupsNext

LEMMA BackupsInvariance == BackupsSpec => []BackupsInv
  BY BackupsInitGood, BackupsStepGood, PTL DEF BackupsSpec

\* The folders, the order of creation and what a retention run is about to delete.
BackupsKept == folders \subseteq {"team", "global"} /\ newest \in Seq(BkBackup) /\ stale \subseteq BkBackup

LEMMA BackupsStepKept ==
  ASSUME BackupsKept, [BackupsNext]_backupVars
  PROVE  BackupsKept'
<1> USE DEF BackupsKept
<1>1. ASSUME NEW b \in BkBackup, StoreBackup(b)
      PROVE  BackupsKept'
  BY <1>1 DEF StoreBackup
<1>2. CASE enforceRetentionPolicy
  BY <1>2 DEF enforceRetentionPolicy
<1>3. ASSUME NEW b \in BkBackup, restoreBackup(b)
      PROVE  BackupsKept'
  BY <1>3 DEF restoreBackup, FoldersAfterDelete
<1>4. ASSUME NEW b \in BkBackup, deleteBackup(b)
      PROVE  BackupsKept'
  BY <1>4 DEF deleteBackup
<1>5. ASSUME \/ UNCHANGED backupVars
             \/ \E r \in BkRoute : DropRoute(r) \/ \E p \in Place : PutRoute(r, p)
             \/ \E k \in BkKey : \E r \in BkRoute : PutKey(k, r)
             \/ \E f \in {"team", "global"} : DropFolder(f)
             \/ createBackup \/ ReadTable \/ ExportFails
      PROVE  BackupsKept'
  BY <1>5 DEF backupVars, DropRoute, PutRoute, PutKey, DropFolder, createBackup, ReadTable, ExportFails
<1> QED
  BY <1>1, <1>2, <1>3, <1>4, <1>5 DEF BackupsNext

\* The tables, the stored backups, the export under way and what retention deletes keep
\* their types for any number of routes, keys and backups.
THEOREM BackupsTypes == BackupsSpec => []BackupsTypeOK
<1>1. BackupsInit => BackupsKept
  BY DEF BackupsInit, BackupsKept
<1>2. BackupsInv /\ BackupsKept => BackupsTypeOK
  BY DEF BackupsInv, BackupsTyped, BackupsKept, BackupsTypeOK, Tables, Data
<1> QED
  BY <1>1, <1>2, BackupsInvariance, BackupsStepKept, PTL DEF BackupsSpec

\* restoreBackup succeeds with every backup that no row was created under and whose routes are
\* in no folder, for any number of routes, keys and backups and whatever was deleted meanwhile.
THEOREM BackupsAreRestorable == BackupsSpec => []RestoreGivesBack
<1>1. BackupsInv => RestoreGivesBack
  BY RefersRestorable DEF BackupsInv, RestoreGivesBack
<1> QED
  BY <1>1, BackupsInvariance, PTL

-----------------------------------------------------------------------------
(***************************************************************************)
(* Catalog. As long as nothing raced, the tag of the archive is only where *)
(* the next write archives the row: on archived rows, in versions of       *)
(* archived rows and in the requests that restore such a version. A        *)
(* version that a row has reached is either kept or in the hands of the    *)
(* one request whose statement reached it.                                 *)
(***************************************************************************)

\* The routes that the steps of a request name exist.
Aimed(q) ==
  /\ q.step \in {"update", "save", "archive", "bulk", "restore", "unarchive", "remove", "switch"} => q.id \in CatRoute
  /\ q.step = "tag" => q.stale \in CatRoute

CatalogTyped == CatalogTypeOK /\ \A t \in CatTask : Aimed(request[t])

\* A live route, and a version of one, has an untagged path.
RowPlain(w) ==
  /\ w.state = "live" => ~w.path.tagged
  /\ \A s \in w.versions : s.state = "live" => ~s.path.tagged

\* So has what a request will make live; what it writes with the tag, it archives.
TaskPlain(q) ==
  /\ q.step \in {"create", "copy", "restore", "unarchive"} => ~q.path.tagged
  /\ q.step \in {"free", "tag", "update"} /\ q.path.tagged =>
       q.id # NoRoute /\ q.writes = "all" /\ q.snapshot.state = "archived"
  /\ q.step = "save" /\ q.snapshot.state = "live" => ~q.snapshot.path.tagged

\* The row that a request is about to tag is not in use.
StaleStays(t) == request[t].step = "tag" => catalog[request[t].stale].state \in {"archived", "gone"}

PlainInv ==
  ~raced =>
    /\ \A r \in CatRoute : RowPlain(catalog[r])
    /\ \A t \in CatTask : TaskPlain(request[t]) /\ StaleStays(t)

\* The version that request t is about to save of route r.
Saves(t, r) == request[t].step = "save" /\ request[t].id = r
Saved(t) == request[t].snapshot.version

\* Every version up to the current one is kept or about to be saved, and only once.
Complete(r) ==
  /\ \A s \in catalog[r].versions : s.version <= catalog[r].version
  /\ \A t \in CatTask : Saves(t, r) => Saved(t) <= catalog[r].version
  /\ \A s, o \in catalog[r].versions : s.version = o.version => s = o
  /\ \A t, u \in CatTask : Saves(t, r) /\ Saves(u, r) /\ Saved(t) = Saved(u) => t = u
  /\ \A s \in catalog[r].versions : \A t \in CatTask : Saves(t, r) => s.version # Saved(t)
  /\ \A v \in 1..catalog[r].version :
       \/ \E s \in catalog[r].versions : s.version = v
       \/ \E t \in CatTask : Saves(t, r) /\ Saved(t) = v

Blank(r) == catalog[r].versions = {} /\ catalog[r].version = 1 /\ \A t \in CatTask : ~Saves(t, r)

VersionsInv ==
  \A r \in CatRoute :
    /\ Row(r) /\ r \notin unrecorded => Complete(r)
    /\ catalog[r].state = "unused" => Blank(r)

CatalogInv == CatalogTyped /\ PlainInv /\ VersionsInv

-----------------------------------------------------------------------------
LEMMA NothingTyped ==
  /\ Unused \in CatalogRow /\ Unused.state = "unused" /\ Unused.versions = {} /\ Unused.version = 1
  /\ NoRequest \in CatRequest /\ NoRequest.step = "idle" /\ ~NoRequest.path.tagged
  /\ NoRequest.id = NoRoute /\ NoRequest.snapshot.state = "live"
<1>1. (CHOOSE p \in Path : TRUE) \in Path
  BY CatalogAssumption
<1>2. Plain(CHOOSE p \in Path : TRUE) \in PublicPath /\ ~Plain(CHOOSE p \in Path : TRUE).tagged
  BY <1>1 DEF Plain, PublicPath
<1>3. 1 \in 1..LastVersion
  BY CatalogAssumption
<1>4. /\ Unused \in CatalogRow /\ Unused.state = "unused" /\ Unused.versions = {} /\ Unused.version = 1
      /\ Unused.path \in PublicPath /\ ~Unused.path.tagged
  BY <1>2, <1>3 DEF Unused, CatalogRow, RouteState
<1>5. FirstVersion(Unused.path) \in Snapshot /\ FirstVersion(Unused.path).state = "live"
  BY <1>3, <1>4 DEF FirstVersion, Snapshot
<1> QED
  BY <1>4, <1>5 DEF NoRequest, CatRequest, CatStep

LEMMA TypedStep ==
  ASSUME CatalogTyped, NEW t \in CatTask, NEW q \in CatRequest, Aimed(q), request' = [request EXCEPT ![t] = q],
         catalog' \in [CatRoute -> CatalogRow], requests' \in 0..MaxRequests, raced' \in BOOLEAN, unrecorded' \subseteq CatRoute
  PROVE  CatalogTyped' /\ request'[t] = q /\ \A u \in CatTask \ {t} : request'[u] = request[u]
<1>1. request' \in [CatTask -> CatRequest] /\ request'[t] = q /\ \A u \in CatTask \ {t} : request'[u] = request[u]
  BY DEF CatalogTyped, CatalogTypeOK
<1> QED
  BY <1>1 DEF CatalogTyped, CatalogTypeOK, Aimed

\* A step of request t that leaves the versions of the routes alone.
Quiet(t) ==
  /\ request[t].step # "save" /\ request'[t].step # "save" /\ \A u \in CatTask \ {t} : request'[u] = request[u]
  /\ UNCHANGED unrecorded
  /\ \A r \in CatRoute :
       /\ Row(r)' => Row(r) /\ catalog'[r].version = catalog[r].version /\ catalog'[r].versions = catalog[r].versions
       /\ catalog'[r].state = "unused" => catalog'[r] = catalog[r]

LEMMA QuietStep ==
  ASSUME VersionsInv, NEW t \in CatTask, Quiet(t)
  PROVE  VersionsInv'
<1>1. \A u \in CatTask : \A r : (Saves(u, r)' <=> Saves(u, r)) /\ (Saves(u, r) => Saved(u)' = Saved(u))
  BY DEF Quiet, Saves, Saved
<1>2. ASSUME NEW r \in CatRoute, Row(r)', r \notin unrecorded'
      PROVE  Complete(r)'
  <2>1. Complete(r) /\ catalog'[r].version = catalog[r].version /\ catalog'[r].versions = catalog[r].versions
    BY <1>2 DEF Quiet, VersionsInv
  <2> QED
    BY <1>1, <2>1 DEF Complete
<1>3. ASSUME NEW r \in CatRoute, catalog'[r].state = "unused"
      PROVE  Blank(r)'
  BY <1>1, <1>3 DEF Quiet, VersionsInv, Blank
<1> QED
  BY <1>2, <1>3 DEF VersionsInv

LEMMA PlainStep ==
  ASSUME PlainInv, NEW t \in CatTask, \A u \in CatTask \ {t} : request'[u] = request[u], raced => raced',
         ~raced' => TaskPlain(request'[t]),
         ~raced' => \A r \in CatRoute : RowPlain(catalog'[r]),
         ~raced' => \A u \in CatTask : StaleStays(u)'
  PROVE  PlainInv'
  BY DEF PlainInv, StaleStays

-----------------------------------------------------------------------------
(* Steps that only read *)

LEMMA ReadsStep ==
  ASSUME CatalogInv, NEW t \in CatTask, NEW q \in CatRequest, Aimed(q), request' = [request EXCEPT ![t] = q],
         OnlyReads, requests' \in 0..MaxRequests, request[t].step # "save", q.step # "save",
         ~raced => TaskPlain(q), q.step = "tag" => catalog[q.stale].state = "archived"
  PROVE  CatalogInv'
<1> USE DEF CatalogInv
<1>1. CatalogTyped' /\ request'[t] = q /\ \A u \in CatTask \ {t} : request'[u] = request[u]
  BY TypedStep DEF CatalogTyped, CatalogTypeOK, OnlyReads
<1>2. UNCHANGED <<catalog, raced, unrecorded>>
  BY DEF OnlyReads
<1>3. Quiet(t)
  BY <1>1, <1>2 DEF Quiet, Row, Live, Archived
<1>4. ~raced => \A u \in CatTask : StaleStays(u)'
  BY <1>1, <1>2 DEF PlainInv, StaleStays
<1>5. ~raced => \A r \in CatRoute : RowPlain(catalog[r])
  BY DEF PlainInv
<1>6. PlainInv'
  BY <1>1, <1>2, <1>4, <1>5, PlainStep
<1> QED
  BY <1>1, <1>3, <1>6, QuietStep

LEMMA BeginsStep ==
  ASSUME CatalogInv, NEW t \in CatTask, NEW q \in CatRequest, Aimed(q), Begins(t, q), OnlyReads,
         q.step \notin {"save", "tag"}, ~raced => TaskPlain(q)
  PROVE  CatalogInv'
<1>1. requests' \in 0..MaxRequests /\ request' = [request EXCEPT ![t] = q]
  BY CatalogAssumption DEF Begins, CatalogInv, CatalogTyped, CatalogTypeOK
<1>2. request[t].step # "save"
  BY NothingTyped DEF Begins
<1> QED
  BY <1>1, <1>2, ReadsStep

LEMMA GoesStep ==
  ASSUME CatalogInv, NEW t \in CatTask, NEW q \in CatRequest, Aimed(q), Goes(t, q), OnlyReads,
         request[t].step # "save", q.step # "save",
         ~raced => TaskPlain(q), q.step = "tag" => catalog[q.stale].state = "archived"
  PROVE  CatalogInv'
  BY ReadsStep DEF Goes, CatalogInv, CatalogTyped, CatalogTypeOK

\* What the requests read of a live route.
LEMMA LiveRow ==
  ASSUME CatalogInv, NEW r \in CatRoute
  PROVE  /\ catalog[r] \in CatalogRow /\ catalog[r].path \in PublicPath /\ catalog[r].version \in 1..LastVersion
         /\ catalog[r].versions \subseteq Snapshot /\ r # NoRoute
         /\ Live(r) /\ ~raced => ~catalog[r].path.tagged
         /\ Live(r) <=> catalog[r].state = "live"
         /\ Archived(r) <=> catalog[r].state = "archived"
<1>1. catalog[r] \in CatalogRow
  BY DEF CatalogInv, CatalogTyped, CatalogTypeOK
<1> QED
  BY <1>1, CatalogAssumption DEF CatalogRow, Live, Archived, CatalogInv, PlainInv, RowPlain

LEMMA IdleGood == Aimed(NoRequest) /\ TaskPlain(NoRequest)
  BY NothingTyped DEF Aimed, TaskPlain

LEMMA Tags ==
  ASSUME NEW path \in PublicPath
  PROVE  /\ mangleForArchive(path) \in PublicPath /\ mangleForArchive(path).tagged
         /\ unmangleArchive(path) \in PublicPath /\ ~unmangleArchive(path).tagged
  BY DEF mangleForArchive, unmangleArchive, PublicPath

LEMMA createRouteGood ==
  ASSUME CatalogInv, NEW t \in CatTask, NEW p \in Path, createRoute(t, p)
  PROVE  CatalogInv'
<1> DEFINE q == [NoRequest EXCEPT !.step = "free", !.path = Plain(p), !.changes = TRUE]
<1>1. Plain(p) \in PublicPath /\ ~Plain(p).tagged
  BY DEF Plain, PublicPath
<1>2. q \in CatRequest /\ q.step = "free" /\ q.path = Plain(p)
  BY <1>1, NothingTyped DEF CatRequest, CatStep
<1>3. Begins(t, q) /\ OnlyReads
  BY DEF createRoute
<1> HIDE DEF q
<1>4. Aimed(q) /\ TaskPlain(q)
  BY <1>1, <1>2 DEF Aimed, TaskPlain
<1> QED
  BY <1>2, <1>3, <1>4, BeginsStep

LEMMA ReadsTyped ==
  ASSUME CatalogInv, NEW r \in CatRoute
  PROVE  /\ Reads(r) \in CatRequest /\ Reads(r).id = r /\ Reads(r).path = catalog[r].path
         /\ Reads(r).snapshot.state = "live"
<1> DEFINE s == [NoRequest.snapshot EXCEPT !.version = catalog[r].version]
<1>1. NoRequest.snapshot \in Snapshot
  BY NothingTyped DEF CatRequest
<1>2. s \in Snapshot /\ s.state = "live"
  BY <1>1, NothingTyped, LiveRow DEF Snapshot
<1>3. Reads(r) = [NoRequest EXCEPT !.id = r, !.path = catalog[r].path, !.snapshot = s]
  BY NothingTyped DEF Reads, CatRequest
<1> HIDE DEF s
<1> QED
  BY <1>2, <1>3, NothingTyped, LiveRow DEF CatRequest

LEMMA updateRouteGood ==
  ASSUME CatalogInv, NEW t \in CatTask, NEW r \in CatRoute, updateRoute(t, r)
  PROVE  CatalogInv'
<1>1. /\ Reads(r) \in CatRequest /\ Reads(r).id = r /\ Reads(r).path = catalog[r].path
      /\ Live(r) /\ OnlyReads /\ r # NoRoute /\ (~raced => ~catalog[r].path.tagged)
  BY ReadsTyped, LiveRow DEF updateRoute
<1>2. ASSUME NEW p \in Path, Begins(t, [Reads(r) EXCEPT !.step = "free", !.path = Plain(p), !.changes = TRUE])
      PROVE  CatalogInv'
  <2> DEFINE q == [Reads(r) EXCEPT !.step = "free", !.path = Plain(p), !.changes = TRUE]
  <2>1. Plain(p) \in PublicPath /\ ~Plain(p).tagged
    BY DEF Plain, PublicPath
  <2>2. q \in CatRequest /\ q.step = "free" /\ q.path = Plain(p)
    BY <1>1, <2>1 DEF CatRequest, CatStep
  <2>3. Begins(t, q)
    BY <1>2
  <2> HIDE DEF q
  <2>4. Aimed(q) /\ TaskPlain(q)
    BY <2>1, <2>2 DEF Aimed, TaskPlain
  <2> QED
    BY <1>1, <2>2, <2>3, <2>4, BeginsStep
<1>3. ASSUME NEW changes \in BOOLEAN, NEW columns \in {"fields", "path"},
             Begins(t, [Reads(r) EXCEPT !.step = "update", !.changes = changes, !.writes = columns])
      PROVE  CatalogInv'
  <2> DEFINE q == [Reads(r) EXCEPT !.step = "update", !.changes = changes, !.writes = columns]
  <2>2. q \in CatRequest /\ q.step = "update" /\ q.path = catalog[r].path /\ q.id = r
    BY <1>1 DEF CatRequest, CatStep
  <2>3. Begins(t, q)
    BY <1>3
  <2> HIDE DEF q
  <2>4. Aimed(q) /\ (~raced => TaskPlain(q))
    BY <1>1, <2>2 DEF Aimed, TaskPlain
  <2> QED
    BY <1>1, <2>2, <2>3, <2>4, BeginsStep
<1> QED
  BY <1>2, <1>3 DEF updateRoute

LEMMA restoreRouteVersionGood ==
  ASSUME CatalogInv, NEW t \in CatTask, NEW r \in CatRoute, NEW s \in catalog[r].versions, restoreRouteVersion(t, r, s)
  PROVE  CatalogInv'
<1>1. /\ Reads(r) \in CatRequest /\ Reads(r).id = r /\ Reads(r).snapshot \in Snapshot
      /\ OnlyReads /\ r # NoRoute /\ s \in Snapshot
      /\ ~raced /\ s.path.tagged => s.state = "archived"
  BY ReadsTyped, LiveRow DEF restoreRouteVersion, CatRequest, CatalogInv, PlainInv, RowPlain, Snapshot
<1>2. PICK differs \in BOOLEAN, step \in {"update", "free"} :
        Begins(t, [Reads(r) EXCEPT !.step = step, !.path = s.path, !.active = s.active, !.snapshot.state = s.state,
                                   !.writes = "all", !.changes = differs])
  BY DEF restoreRouteVersion
<1> DEFINE n == [Reads(r).snapshot EXCEPT !.state = s.state]
           q == [Reads(r) EXCEPT !.step = step, !.path = s.path, !.active = s.active, !.snapshot = n,
                                 !.writes = "all", !.changes = differs]
<1>3. n \in Snapshot /\ n.state = s.state
  BY <1>1 DEF Snapshot
<1>4. Begins(t, q)
  BY <1>1, <1>2 DEF CatRequest
<1> HIDE DEF n
<1>5. /\ q \in CatRequest /\ q.step = step /\ q.path = s.path /\ q.id = r /\ q.snapshot = n /\ q.writes = "all"
  BY <1>1, <1>3 DEF CatRequest, CatStep, Snapshot
<1> HIDE DEF q
<1>6. Aimed(q) /\ (~raced => TaskPlain(q))
  BY <1>1, <1>3, <1>5 DEF Aimed, TaskPlain
<1> QED
  BY <1>1, <1>4, <1>5, <1>6, BeginsStep

LEMMA TaskTyped ==
  ASSUME CatalogInv, NEW t \in CatTask
  PROVE  /\ request[t] \in CatRequest /\ Aimed(request[t]) /\ request[t].path \in PublicPath
         /\ request[t].snapshot \in Snapshot
         /\ ~raced => TaskPlain(request[t]) /\ StaleStays(t)
<1>1. request[t] \in CatRequest
  BY DEF CatalogInv, CatalogTyped, CatalogTypeOK
<1> QED
  BY <1>1 DEF CatRequest, CatalogInv, CatalogTyped, PlainInv

LEMMA LookForStaleGood ==
  ASSUME CatalogInv, NEW t \in CatTask, LookForStale(t)
  PROVE  CatalogInv'
<1>1. /\ request[t] \in CatRequest /\ (~raced => TaskPlain(request[t])) /\ request[t].step = "free" /\ OnlyReads
  BY TaskTyped DEF LookForStale
<1>2. ASSUME NEW r \in CatRoute, Archived(r), Goes(t, [request[t] EXCEPT !.step = "tag", !.stale = r])
      PROVE  CatalogInv'
  <2> DEFINE q == [request[t] EXCEPT !.step = "tag", !.stale = r]
  <2>1. /\ q \in CatRequest /\ q.step = "tag" /\ q.stale = r /\ q.path = request[t].path /\ q.id = request[t].id
        /\ q.writes = request[t].writes /\ q.snapshot = request[t].snapshot
    BY <1>1 DEF CatRequest, CatStep
  <2>2. Goes(t, q)
    BY <1>2
  <2> HIDE DEF q
  <2>3. Aimed(q) /\ (~raced => TaskPlain(q))
    BY <1>1, <2>1 DEF Aimed, TaskPlain
  <2> QED
    BY <1>1, <1>2, <2>1, <2>2, <2>3, GoesStep DEF Archived
<1>3. ASSUME Goes(t, [request[t] EXCEPT !.step = Write(request[t])])
      PROVE  CatalogInv'
  <2> DEFINE q == [request[t] EXCEPT !.step = Write(request[t])]
  <2>0. Write(request[t]) \in CatStep
    BY DEF Write, CatStep
  <2>1. /\ q \in CatRequest /\ q.step = Write(request[t]) /\ q.path = request[t].path /\ q.id = request[t].id
        /\ q.writes = request[t].writes /\ q.snapshot = request[t].snapshot
    BY <1>1, <2>0 DEF CatRequest
  <2>2. Goes(t, q)
    BY <1>3
  <2> HIDE DEF q
  <2>3. q.id \in CatRoute \cup {NoRoute}
    BY <2>1 DEF CatRequest
  <2>4. Aimed(q) /\ (~raced => TaskPlain(q)) /\ q.step \in {"create", "update"}
    BY <1>1, <2>1, <2>3 DEF Aimed, TaskPlain, Write
  <2> QED
    BY <1>1, <2>1, <2>2, <2>4, GoesStep
<1> QED
  BY <1>2, <1>3 DEF LookForStale

\* A request that begins with an untagged path, or one that no step makes live.
LEMMA BeginGood ==
  ASSUME CatalogInv, NEW t \in CatTask, NEW step \in {"copy", "switch", "archive", "bulk", "restore", "remove"},
         NEW id \in CatRoute \cup {NoRoute}, NEW path \in PublicPath, NEW active \in BOOLEAN,
         step # "copy" => id \in CatRoute, step \in {"copy", "restore"} /\ ~raced => ~path.tagged,
         Begins(t, [NoRequest EXCEPT !.step = step, !.id = id, !.path = path, !.active = active]), OnlyReads
  PROVE  CatalogInv'
<1> DEFINE q == [NoRequest EXCEPT !.step = step, !.id = id, !.path = path, !.active = active]
<1>1. q \in CatRequest /\ q.step = step /\ q.id = id /\ q.path = path
  BY NothingTyped DEF CatRequest, CatStep
<1>2. Begins(t, q)
  OBVIOUS
<1> HIDE DEF q
<1>3. Aimed(q) /\ (~raced => TaskPlain(q))
  BY <1>1 DEF Aimed, TaskPlain
<1> QED
  BY <1>1, <1>2, <1>3, BeginsStep

LEMMA BeginsGood ==
  ASSUME CatalogInv, NEW t \in CatTask, NEW r \in CatRoute,
         \/ \E hasSlug \in BOOLEAN : duplicateRoute(t, r, hasSlug)
         \/ publishRoute(t, r) \/ deleteRoute(t, r) \/ BulkDelete(t, r) \/ restoreRoute(t, r)
         \/ permanentlyDeleteRoute(t, r)
  PROVE  CatalogInv'
<1>t. /\ NoRequest \in CatRequest /\ NoRequest.path \in PublicPath /\ NoRequest.active \in BOOLEAN /\ NoRequest.id = NoRoute
      /\ catalog[r].path \in PublicPath
  BY NothingTyped, LiveRow DEF CatRequest
<1>1. ASSUME NEW hasSlug \in BOOLEAN, duplicateRoute(t, r, hasSlug)
      PROVE  CatalogInv'
  <2>1. CASE hasSlug
    <3>1. Begins(t, NoRequest) /\ OnlyReads
      BY <1>1, <2>1 DEF duplicateRoute
    <3> QED
      BY <3>1, NothingTyped, IdleGood, BeginsStep
  <2>2. CASE ~hasSlug
    <3> DEFINE path == [catalog[r].path EXCEPT !.suffix = "-copy"]
    <3>1. path \in PublicPath /\ path.tagged = catalog[r].path.tagged
      BY <1>t DEF PublicPath
    <3>2. ~raced => ~catalog[r].path.tagged
      BY <1>1, LiveRow DEF duplicateRoute
    <3>3. Begins(t, [NoRequest EXCEPT !.step = "copy", !.path = path]) /\ OnlyReads
      BY <1>1, <2>2 DEF duplicateRoute
    <3> HIDE DEF path
    <3>4. [NoRequest EXCEPT !.step = "copy", !.path = path]
            = [NoRequest EXCEPT !.step = "copy", !.id = NoRoute, !.path = path, !.active = NoRequest.active]
      BY <1>t DEF CatRequest
    <3>5. Begins(t, [NoRequest EXCEPT !.step = "copy", !.id = NoRoute, !.path = path, !.active = NoRequest.active])
      BY <3>3, <3>4, Zenon
    <3> QED
      BY <1>t, <3>1, <3>2, <3>3, <3>5, BeginGood
  <2> QED
    BY <2>1, <2>2
<1>2. CASE publishRoute(t, r)
  <2>1. PICK active \in BOOLEAN : Begins(t, [NoRequest EXCEPT !.step = "switch", !.id = r, !.active = active])
    BY <1>2 DEF publishRoute
  <2>2. [NoRequest EXCEPT !.step = "switch", !.id = r, !.active = active]
          = [NoRequest EXCEPT !.step = "switch", !.id = r, !.path = NoRequest.path, !.active = active]
    BY <1>t DEF CatRequest
  <2>3. OnlyReads
    BY <1>2 DEF publishRoute
  <2>4. Begins(t, [NoRequest EXCEPT !.step = "switch", !.id = r, !.path = NoRequest.path, !.active = active])
    BY <2>1, <2>2, Zenon
  <2> QED
    BY <1>t, <2>3, <2>4, BeginGood
<1>3. CASE deleteRoute(t, r)
  <2>1. PICK path \in PublicPath : path = mangleForArchive(catalog[r].path)
    BY <1>t, Tags
  <2>2. [NoRequest EXCEPT !.step = "archive", !.id = r, !.path = path]
          = [NoRequest EXCEPT !.step = "archive", !.id = r, !.path = path, !.active = NoRequest.active]
    BY <1>t DEF CatRequest
  <2>3. Begins(t, [NoRequest EXCEPT !.step = "archive", !.id = r, !.path = path]) /\ OnlyReads
    BY <1>3, <2>1 DEF deleteRoute
  <2> QED
    BY <1>t, <2>2, <2>3, BeginGood
<1>4. ASSUME NEW step \in {"bulk", "remove"}, Begins(t, [NoRequest EXCEPT !.step = step, !.id = r]), OnlyReads
      PROVE  CatalogInv'
  <2>1. [NoRequest EXCEPT !.step = step, !.id = r]
          = [NoRequest EXCEPT !.step = step, !.id = r, !.path = NoRequest.path, !.active = NoRequest.active]
    BY <1>t DEF CatRequest
  <2>2. Begins(t, [NoRequest EXCEPT !.step = step, !.id = r, !.path = NoRequest.path, !.active = NoRequest.active])
    BY <1>4, <2>1, Zenon
  <2>3. CASE step = "bulk"
    BY <1>4, <1>t, <2>2, <2>3, BeginGood
  <2>4. CASE step = "remove"
    BY <1>4, <1>t, <2>2, <2>4, BeginGood
  <2> QED
    BY <1>4, <2>3, <2>4
<1>5. CASE BulkDelete(t, r) \/ permanentlyDeleteRoute(t, r)
  BY <1>4, <1>5 DEF BulkDelete, permanentlyDeleteRoute
<1>6. CASE restoreRoute(t, r)
  <2>1. PICK path \in PublicPath : path = unmangleArchive(catalog[r].path) /\ ~path.tagged
    BY <1>t, Tags
  <2>2. [NoRequest EXCEPT !.step = "restore", !.id = r, !.path = path]
          = [NoRequest EXCEPT !.step = "restore", !.id = r, !.path = path, !.active = NoRequest.active]
    BY <1>t DEF CatRequest
  <2>3. Begins(t, [NoRequest EXCEPT !.step = "restore", !.id = r, !.path = path]) /\ OnlyReads
    BY <1>6, <2>1 DEF restoreRoute
  <2> QED
    BY <1>t, <2>1, <2>2, <2>3, BeginGood
<1> QED
  BY <1>1, <1>2, <1>3, <1>5, <1>6

LEMMA bulkDeleteGood ==
  ASSUME CatalogInv, NEW t \in CatTask, bulkDelete(t)
  PROVE  CatalogInv'
<1>1. /\ request[t] \in CatRequest /\ request[t].step = "bulk" /\ request[t].id \in CatRoute /\ OnlyReads
  BY TaskTyped DEF bulkDelete, Aimed
<1>2. CASE Live(request[t].id)
  <2>1. PICK path \in PublicPath : path = mangleForArchive(catalog[request[t].id].path)
    BY <1>1, LiveRow, Tags
  <2> DEFINE q == [request[t] EXCEPT !.step = "archive", !.path = path]
  <2>2. q \in CatRequest /\ q.step = "archive" /\ q.id = request[t].id
    BY <1>1 DEF CatRequest, CatStep
  <2>3. Goes(t, q)
    BY <1>2, <2>1 DEF bulkDelete
  <2> HIDE DEF q
  <2>4. Aimed(q) /\ TaskPlain(q)
    BY <1>1, <2>2 DEF Aimed, TaskPlain
  <2> QED
    BY <1>1, <2>2, <2>3, <2>4, GoesStep
<1>3. CASE ~Live(request[t].id)
  <2>1. Goes(t, NoRequest)
    BY <1>3 DEF bulkDelete, Answers
  <2> QED
    BY <1>1, <2>1, NothingTyped, IdleGood, GoesStep
<1> QED
  BY <1>2, <1>3

LEMMA LookForClashGood ==
  ASSUME CatalogInv, NEW t \in CatTask, LookForClash(t)
  PROVE  CatalogInv'
<1>1. /\ request[t] \in CatRequest /\ request[t].step = "restore" /\ request[t].id \in CatRoute /\ OnlyReads
      /\ request[t].path \in PublicPath /\ (~raced => ~request[t].path.tagged)
  BY TaskTyped DEF LookForClash, Aimed, TaskPlain
<1>2. PICK suffix \in {"", "-copy", "-restored"} : Goes(t, [request[t] EXCEPT !.step = "unarchive", !.path.suffix = suffix])
  BY <1>1 DEF LookForClash, PublicPath
<1> DEFINE path == [request[t].path EXCEPT !.suffix = suffix]
           q == [request[t] EXCEPT !.step = "unarchive", !.path = path]
<1>3. path \in PublicPath /\ path.tagged = request[t].path.tagged
  BY <1>1 DEF PublicPath
<1>4. Goes(t, q)
  BY <1>1, <1>2 DEF CatRequest
<1> HIDE DEF path
<1>5. q \in CatRequest /\ q.step = "unarchive" /\ q.id = request[t].id /\ q.path = path
  BY <1>1, <1>3 DEF CatRequest, CatStep
<1> HIDE DEF q
<1>6. Aimed(q) /\ (~raced => TaskPlain(q))
  BY <1>1, <1>3, <1>5 DEF Aimed, TaskPlain
<1> QED
  BY <1>1, <1>4, <1>5, <1>6, GoesStep

-----------------------------------------------------------------------------
(* Steps that write a row *)

\* Request t writes row w of route r and goes on as q.
WritesRow(t, q, r, w) ==
  /\ q \in CatRequest /\ Aimed(q) /\ request' = [request EXCEPT ![t] = q] /\ UNCHANGED requests
  /\ r \in CatRoute /\ w \in CatalogRow /\ catalog' = [catalog EXCEPT ![r] = w]
  /\ raced' \in BOOLEAN /\ unrecorded' \subseteq CatRoute /\ (raced => raced')
  /\ q.step # "tag" /\ (~raced' => TaskPlain(q) /\ RowPlain(w))
  /\ w.state \notin {"archived", "gone"} /\ ~raced' =>
       \A u \in CatTask \ {t} : request[u].step = "tag" => request[u].stale # r

LEMMA WritesRowStep ==
  ASSUME CatalogInv, NEW t \in CatTask, NEW q, NEW r, NEW w, WritesRow(t, q, r, w)
  PROVE  /\ CatalogTyped' /\ PlainInv'
         /\ request'[t] = q /\ \A u \in CatTask \ {t} : request'[u] = request[u]
         /\ catalog'[r] = w /\ \A o \in CatRoute \ {r} : catalog'[o] = catalog[o]
<1> USE DEF CatalogInv
<1>1. /\ catalog' \in [CatRoute -> CatalogRow] /\ catalog'[r] = w
      /\ \A o \in CatRoute \ {r} : catalog'[o] = catalog[o] /\ r \in CatRoute
  BY DEF WritesRow, CatalogTyped, CatalogTypeOK
<1>2. CatalogTyped' /\ request'[t] = q /\ \A u \in CatTask \ {t} : request'[u] = request[u]
  BY <1>1, TypedStep DEF WritesRow, CatalogTyped, CatalogTypeOK
<1>3. ASSUME ~raced', NEW u \in CatTask
      PROVE  StaleStays(u)'
  <2>1. CASE u = t
    BY <1>2, <2>1 DEF StaleStays, WritesRow
  <2>2. CASE u # t
    <3>1. request'[u] = request[u] /\ StaleStays(u) /\ Aimed(request[u])
      BY <1>2, <1>3, <2>2 DEF PlainInv, WritesRow, CatalogTyped
    <3>2. ASSUME request[u].step = "tag"
          PROVE  catalog'[request[u].stale].state \in {"archived", "gone"}
      BY <1>1, <1>3, <2>2, <3>1, <3>2 DEF StaleStays, Aimed, WritesRow
    <3> QED
      BY <3>1, <3>2 DEF StaleStays
  <2> QED
    BY <2>1, <2>2
<1>4. ~raced' => \A o \in CatRoute : RowPlain(catalog'[o])
  BY <1>1 DEF PlainInv, WritesRow
<1>5. PlainInv'
  BY <1>2, <1>3, <1>4, PlainStep DEF WritesRow
<1> QED
  BY <1>1, <1>2, <1>5

\* A row that is written without touching its versions.
LEMMA WriteGood ==
  ASSUME CatalogInv, NEW t \in CatTask, NEW q, NEW r, NEW w, WritesRow(t, q, r, w), UNCHANGED unrecorded,
         request[t].step # "save", q.step # "save", w.state # "unused",
         w.state \in {"live", "archived"} =>
           Row(r) /\ w.version = catalog[r].version /\ w.versions = catalog[r].versions
  PROVE  CatalogInv'
<1>1. /\ CatalogTyped' /\ PlainInv'
      /\ request'[t] = q /\ \A u \in CatTask \ {t} : request'[u] = request[u]
      /\ catalog'[r] = w /\ \A o \in CatRoute \ {r} : catalog'[o] = catalog[o]
  BY WritesRowStep
<1>2. ASSUME NEW o \in CatRoute
      PROVE  /\ Row(o)' => Row(o) /\ catalog'[o].version = catalog[o].version /\ catalog'[o].versions = catalog[o].versions
             /\ catalog'[o].state = "unused" => catalog'[o] = catalog[o]
  BY <1>1 DEF Row, Live, Archived
<1>3. Quiet(t)
  BY <1>1, <1>2 DEF Quiet
<1> QED
  BY <1>1, <1>3, QuietStep DEF CatalogInv

\* A request that ends without having written anything.
LEMMA AnswersGood ==
  ASSUME CatalogInv, NEW t \in CatTask, request[t].step # "save", Answers(t), OnlyReads
  PROVE  CatalogInv'
  BY NothingTyped, IdleGood, GoesStep DEF Answers

LEMMA freeGood ==
  ASSUME CatalogInv, NEW t \in CatTask, freeSoftDeletedPublicPath(t)
  PROVE  CatalogInv'
<1>1. /\ request[t] \in CatRequest /\ request[t].step = "tag" /\ request[t].stale \in CatRoute
      /\ request[t].path \in PublicPath /\ UNCHANGED <<raced, unrecorded>>
      /\ ~raced => TaskPlain(request[t]) /\ StaleStays(t)
  BY TaskTyped DEF freeSoftDeletedPublicPath, Aimed
<1>2. CASE ~Row(request[t].stale)
  BY <1>1, <1>2, AnswersGood DEF freeSoftDeletedPublicPath, OnlyReads
<1>3. CASE Row(request[t].stale)
  <2> DEFINE r == request[t].stale
             w == [catalog[r] EXCEPT !.path = mangleForArchive(request[t].path)]
             q == [request[t] EXCEPT !.step = Write(request[t]), !.stale = NoRoute]
  <2>1. /\ catalog' = [catalog EXCEPT ![r] = w] /\ Goes(t, q)
    BY <1>1, <1>3 DEF freeSoftDeletedPublicPath
  <2>2. /\ w \in CatalogRow /\ w.state = catalog[r].state /\ w.version = catalog[r].version /\ w.versions = catalog[r].versions
    BY <1>1, LiveRow, Tags DEF CatalogRow
  <2>3. Write(request[t]) \in CatStep
    BY DEF Write, CatStep
  <2>4. /\ q \in CatRequest /\ q.step = Write(request[t]) /\ q.path = request[t].path /\ q.id = request[t].id
        /\ q.writes = request[t].writes /\ q.snapshot = request[t].snapshot
    BY <1>1, <2>3 DEF CatRequest
  <2>5. q.id \in CatRoute \cup {NoRoute}
    BY <2>4 DEF CatRequest
  <2> HIDE DEF w, q
  <2>6. Aimed(q) /\ (~raced => TaskPlain(q)) /\ q.step \in {"create", "update"}
    BY <1>1, <2>4, <2>5 DEF Aimed, TaskPlain, Write
  <2>7. ~raced => RowPlain(w) /\ w.state = "archived"
    BY <1>1, <1>3, <2>2 DEF RowPlain, StaleStays, Row, Live, Archived, CatalogInv, PlainInv
  <2>8. WritesRow(t, q, r, w)
    BY <1>1, <2>1, <2>2, <2>4, <2>6, <2>7 DEF WritesRow, Goes, CatalogInv, CatalogTyped, CatalogTypeOK
  <2>9. w.state \in {"live", "archived"}
    BY <1>3, <2>2 DEF Row, Live, Archived
  <2> QED
    BY <1>1, <1>3, <2>2, <2>6, <2>8, <2>9, WriteGood
<1> QED
  BY <1>2, <1>3

\* The writes of requests that end with them.
LEMMA LastWriteGood ==
  ASSUME CatalogInv, NEW t \in CatTask, NEW r \in CatRoute, NEW w \in CatalogRow, request[t].step # "save",
         catalog' = [catalog EXCEPT ![r] = w], Answers(t), raced' \in BOOLEAN, raced => raced', UNCHANGED unrecorded,
         ~raced' => RowPlain(w),
         w.state \notin {"archived", "gone"} /\ ~raced' =>
           \A u \in CatTask \ {t} : request[u].step = "tag" => request[u].stale # r,
         w.state # "unused",
         w.state \in {"live", "archived"} =>
           Row(r) /\ w.version = catalog[r].version /\ w.versions = catalog[r].versions
  PROVE  CatalogInv'
<1>1. NoRequest \in CatRequest /\ Aimed(NoRequest) /\ TaskPlain(NoRequest) /\ NoRequest.step \notin {"tag", "save"}
  BY NothingTyped, IdleGood
<1>2. WritesRow(t, NoRequest, r, w)
  BY <1>1 DEF WritesRow, Answers, Goes, CatalogInv, CatalogTyped, CatalogTypeOK
<1> QED
  BY <1>1, <1>2, WriteGood

\* While nothing has raced, a row that is live is not about to be tagged.
LEMMA LiveNotStale ==
  ASSUME CatalogInv, ~raced, NEW r \in CatRoute, catalog[r].state \notin {"archived", "gone"}, NEW u \in CatTask,
         request[u].step = "tag"
  PROVE  request[u].stale # r
  BY TaskTyped DEF StaleStays

LEMMA SwitchGood ==
  ASSUME CatalogInv, NEW t \in CatTask, SwitchRow(t)
  PROVE  CatalogInv'
<1>1. /\ request[t] \in CatRequest /\ request[t].step = "switch" /\ request[t].id \in CatRoute /\ request[t].active \in BOOLEAN
      /\ UNCHANGED <<raced, unrecorded>> /\ Answers(t) /\ raced \in BOOLEAN
  BY TaskTyped DEF SwitchRow, Aimed, CatRequest, CatalogInv, CatalogTyped, CatalogTypeOK
<1>2. CASE ~Row(request[t].id)
  BY <1>1, <1>2, AnswersGood DEF SwitchRow, OnlyReads
<1>3. CASE Row(request[t].id)
  <2> DEFINE r == request[t].id
             w == [catalog[r] EXCEPT !.active = request[t].active]
  <2>1. catalog' = [catalog EXCEPT ![r] = w]
    BY <1>1, <1>3 DEF SwitchRow
  <2>2. /\ w \in CatalogRow /\ w.state = catalog[r].state /\ w.version = catalog[r].version /\ w.versions = catalog[r].versions
        /\ w.path = catalog[r].path
    BY <1>1, LiveRow DEF CatalogRow
  <2> HIDE DEF w
  <2>3. ~raced => RowPlain(w)
    BY <1>1, <2>2 DEF RowPlain, CatalogInv, PlainInv
  <2>4. w.state \in {"live", "archived"}
    BY <1>3, <2>2 DEF Row, Live, Archived
  <2> QED
    BY <1>1, <1>3, <2>1, <2>2, <2>3, <2>4, LiveNotStale, LastWriteGood
<1> QED
  BY <1>2, <1>3

LEMMA ArchiveGood ==
  ASSUME CatalogInv, NEW t \in CatTask, ArchiveRow(t)
  PROVE  CatalogInv'
<1>1. /\ request[t] \in CatRequest /\ request[t].step = "archive" /\ request[t].id \in CatRoute
      /\ request[t].path \in PublicPath
      /\ UNCHANGED <<raced, unrecorded>> /\ Answers(t) /\ raced \in BOOLEAN
  BY TaskTyped DEF ArchiveRow, Aimed, CatalogInv, CatalogTyped, CatalogTypeOK
<1>2. CASE ~Row(request[t].id)
  BY <1>1, <1>2, AnswersGood DEF ArchiveRow, OnlyReads
<1>3. CASE Row(request[t].id)
  <2> DEFINE r == request[t].id
             w == [catalog[r] EXCEPT !.state = "archived", !.active = FALSE, !.path = request[t].path]
  <2>1. catalog' = [catalog EXCEPT ![r] = w]
    BY <1>1, <1>3 DEF ArchiveRow, CatalogInv, CatalogTyped, CatalogTypeOK
  <2>2. /\ w \in CatalogRow /\ w.state = "archived" /\ w.version = catalog[r].version /\ w.versions = catalog[r].versions
    BY <1>1, LiveRow, ZenonT(60) DEF CatalogRow, RouteState
  <2> HIDE DEF w
  <2>3. ~raced => RowPlain(w)
    BY <1>1, <2>2 DEF RowPlain, CatalogInv, PlainInv
  <2> QED
    BY <1>1, <1>3, <2>1, <2>2, <2>3, LastWriteGood
<1> QED
  BY <1>2, <1>3

LEMMA RestoreRowGood ==
  ASSUME CatalogInv, NEW t \in CatTask, RestoreRow(t)
  PROVE  CatalogInv'
<1>1. /\ request[t] \in CatRequest /\ request[t].step = "unarchive" /\ request[t].id \in CatRoute
      /\ request[t].path \in PublicPath /\ (~raced => ~request[t].path.tagged)
      /\ UNCHANGED unrecorded /\ Answers(t) /\ raced \in BOOLEAN
  BY TaskTyped DEF RestoreRow, Aimed, TaskPlain, CatalogInv, CatalogTyped, CatalogTypeOK
<1>2. CASE ~(Row(request[t].id) /\ ~Taken(request[t].path, request[t].id))
  BY <1>1, <1>2, AnswersGood DEF RestoreRow, OnlyReads
<1>3. CASE Row(request[t].id) /\ ~Taken(request[t].path, request[t].id)
  <2> DEFINE r == request[t].id
             w == [catalog[r] EXCEPT !.state = "live", !.active = FALSE, !.path = request[t].path]
  <2>1. catalog' = [catalog EXCEPT ![r] = w]
    BY <1>1, <1>3 DEF RestoreRow, CatalogInv, CatalogTyped, CatalogTypeOK
  <2>2. /\ w \in CatalogRow /\ w.state = "live" /\ w.version = catalog[r].version /\ w.versions = catalog[r].versions
        /\ w.path = request[t].path
    BY <1>1, LiveRow, ZenonT(60) DEF CatalogRow, RouteState
  <2> HIDE DEF w
  <2>3. /\ raced' \in BOOLEAN /\ (raced => raced')
        /\ ~raced' => ~raced /\ \A u \in CatTask \ {t} : request[u].step = "tag" => request[u].stale # r
    BY <1>1, <1>3 DEF RestoreRow, ComesBack
  <2>4. ~raced' => RowPlain(w)
    BY <1>1, <2>2, <2>3 DEF RowPlain, CatalogInv, PlainInv
  <2> QED
    BY <1>1, <1>3, <2>1, <2>2, <2>3, <2>4, LastWriteGood
<1> QED
  BY <1>2, <1>3

LEMMA RemoveGood ==
  ASSUME CatalogInv, NEW t \in CatTask, RemoveRow(t)
  PROVE  CatalogInv'
<1>1. /\ request[t].step = "remove" /\ request[t].id \in CatRoute
      /\ UNCHANGED <<raced, unrecorded>> /\ Answers(t) /\ raced \in BOOLEAN
  BY TaskTyped DEF RemoveRow, Aimed, CatalogInv, CatalogTyped, CatalogTypeOK
<1> DEFINE w == [Unused EXCEPT !.state = "gone"]
<1>2. w \in CatalogRow /\ w.state = "gone" /\ w.versions = {}
  BY NothingTyped DEF CatalogRow, RouteState
<1>3. catalog' = [catalog EXCEPT ![request[t].id] = w]
  BY DEF RemoveRow
<1> HIDE DEF w
<1>4. RowPlain(w)
  BY <1>2 DEF RowPlain
<1> QED
  BY <1>1, <1>2, <1>3, <1>4, LastWriteGood

LEMMA bulkPublishGood ==
  ASSUME CatalogInv, NEW t \in CatTask, NEW rs \in SUBSET CatRoute, NEW active \in BOOLEAN, bulkPublish(t, rs, active)
  PROVE  CatalogInv'
<1> USE DEF CatalogInv
<1>1. ASSUME NEW r \in CatRoute
      PROVE  /\ catalog'[r] \in CatalogRow /\ catalog'[r].state = catalog[r].state /\ catalog'[r].path = catalog[r].path
             /\ catalog'[r].version = catalog[r].version /\ catalog'[r].versions = catalog[r].versions
             /\ catalog'[r].state = "unused" => catalog'[r] = catalog[r]
  <2>1. catalog'[r] = IF r \in rs /\ Live(r) THEN [catalog[r] EXCEPT !.active = active] ELSE catalog[r]
    BY DEF bulkPublish
  <2> QED
    BY <2>1, LiveRow DEF CatalogRow
<1>2. /\ catalog' \in [CatRoute -> CatalogRow] /\ UNCHANGED <<raced, unrecorded>> /\ request[t].step = "idle"
      /\ request' = [request EXCEPT ![t] = NoRequest] /\ requests' \in 0..MaxRequests
  BY <1>1, NothingTyped, CatalogAssumption DEF bulkPublish, Begins, CatalogTyped, CatalogTypeOK
<1>3. CatalogTyped' /\ request'[t] = NoRequest /\ \A u \in CatTask \ {t} : request'[u] = request[u]
  BY <1>2, NothingTyped, IdleGood, TypedStep DEF CatalogTyped, CatalogTypeOK
<1>4. Quiet(t)
  BY <1>1, <1>2, <1>3, NothingTyped DEF Quiet, Row, Live, Archived
<1>5. ~raced => \A r \in CatRoute : RowPlain(catalog'[r])
  BY <1>1 DEF PlainInv, RowPlain
<1>6. ~raced => \A u \in CatTask : StaleStays(u)'
  BY <1>1, <1>3, NothingTyped DEF PlainInv, StaleStays, CatalogTyped, Aimed
<1>7. PlainInv'
  BY <1>2, <1>3, <1>5, <1>6, IdleGood, PlainStep
<1> QED
  BY <1>3, <1>4, <1>7, QuietStep

-----------------------------------------------------------------------------
(* Steps that make versions *)

\* Of the versions, only those of route r change.
LEMMA OneRouteStep ==
  ASSUME VersionsInv, NEW t \in CatTask, NEW r \in CatRoute,
         \A u \in CatTask \ {t} : request'[u] = request[u],
         \A o \in CatRoute \ {r} : /\ catalog'[o] = catalog[o] /\ ~Saves(t, o) /\ ~Saves(t, o)'
                                   /\ o \in unrecorded <=> o \in unrecorded',
         Row(r)' /\ r \notin unrecorded' => Complete(r)',
         catalog'[r].state = "unused" => Blank(r)'
  PROVE  VersionsInv'
<1>1. ASSUME NEW o \in CatRoute \ {r}
      PROVE  /\ Row(o)' /\ o \notin unrecorded' => Complete(o)'
             /\ catalog'[o].state = "unused" => Blank(o)'
  <2>1. \A u \in CatTask : (Saves(u, o)' <=> Saves(u, o)) /\ (Saves(u, o) => Saved(u)' = Saved(u))
    BY <1>1 DEF Saves, Saved
  <2>2. catalog'[o] = catalog[o] /\ (Row(o)' <=> Row(o)) /\ (o \in unrecorded <=> o \in unrecorded')
    BY <1>1 DEF Row, Live, Archived
  <2>3. Complete(o) => Complete(o)'
    BY <2>1, <2>2 DEF Complete
  <2> QED
    BY <2>1, <2>2, <2>3 DEF VersionsInv, Blank
<1> QED
  BY <1>1 DEF VersionsInv

LEMMA UpdateGood ==
  ASSUME CatalogInv, NEW t \in CatTask, UpdateRow(t)
  PROVE  CatalogInv'
<1>1. /\ request[t] \in CatRequest /\ request[t].step = "update" /\ request[t].id \in CatRoute
      /\ request[t].path \in PublicPath /\ request[t].active \in BOOLEAN /\ request[t].changes \in BOOLEAN
      /\ request[t].snapshot.state \in {"live", "archived"} /\ request[t].writes \in {"fields", "path", "all"}
      /\ ~raced => TaskPlain(request[t])
      /\ UNCHANGED unrecorded /\ raced \in BOOLEAN /\ unrecorded \subseteq CatRoute
  BY TaskTyped DEF UpdateRow, Aimed, CatRequest, Snapshot, CatalogInv, CatalogTyped, CatalogTypeOK
<1>2. PICK r \in CatRoute : r = request[t].id
  BY <1>1
<1>3. PICK w : w = [catalog[r] EXCEPT !.path = IF request[t].writes = "fields" THEN @ ELSE request[t].path,
                                      !.active = IF request[t].writes = "all" THEN request[t].active ELSE @,
                                      !.state = IF request[t].writes = "all" THEN request[t].snapshot.state ELSE @,
                                      !.version = VersionWritten(t, catalog[r])]
  OBVIOUS
<1>4. CASE ~(Row(r) /\ ~Taken(w.path, r))
  <2>1. Answers(t) /\ UNCHANGED <<catalog, raced>>
    BY <1>2, <1>3, <1>4 DEF UpdateRow
  <2> QED
    BY <1>1, <2>1, AnswersGood DEF OnlyReads
<1>5. CASE Row(r) /\ ~Taken(w.path, r)
  <2>1. /\ w.version <= LastVersion /\ catalog' = [catalog EXCEPT ![r] = w] /\ ComesBack(t, r)
        /\ IF request[t].changes
           THEN Goes(t, [request[t] EXCEPT !.step = "save",
                           !.snapshot = [version |-> w.version, path |-> w.path, active |-> w.active, state |-> w.state]])
           ELSE Answers(t)
    BY <1>2, <1>3, <1>5 DEF UpdateRow
  <2>2. /\ w.path = (IF request[t].writes = "fields" THEN catalog[r].path ELSE request[t].path)
        /\ w.active = (IF request[t].writes = "all" THEN request[t].active ELSE catalog[r].active)
        /\ w.state = (IF request[t].writes = "all" THEN request[t].snapshot.state ELSE catalog[r].state)
        /\ w.version = VersionWritten(t, catalog[r]) /\ w.versions = catalog[r].versions
        /\ w = [state |-> w.state, path |-> w.path, active |-> w.active, version |-> w.version, versions |-> w.versions]
    BY <1>3, LiveRow DEF CatalogRow
  <2>3. /\ catalog[r] \in CatalogRow /\ catalog[r].state \in {"live", "archived"} /\ catalog[r].active \in BOOLEAN
        /\ catalog[r].path \in PublicPath /\ catalog[r].version \in 1..LastVersion /\ catalog[r].versions \in SUBSET Snapshot
    BY <1>5, LiveRow DEF CatalogRow, Row, Live, Archived
  <2>4. w.version = IF request[t].changes THEN catalog[r].version + 1 ELSE catalog[r].version
    BY <2>2 DEF VersionWritten
  <2>5. w.version \in 1..LastVersion
    BY <2>1, <2>3, <2>4, CatalogAssumption
  <2>6. w.state \in {"live", "archived"} /\ w.active \in BOOLEAN /\ w.path \in PublicPath
    BY <1>1, <2>2, <2>3
  <2>7. w \in CatalogRow
    BY <2>2, <2>3, <2>5, <2>6 DEF CatalogRow, RouteState
  <2>8. /\ raced' \in BOOLEAN /\ (raced => raced')
        /\ ~raced' => ~raced /\ \A u \in CatTask \ {t} : request[u].step = "tag" => request[u].stale # r
    BY <1>1, <2>1 DEF ComesBack
  <2>9. ASSUME ~raced'
        PROVE  RowPlain(w)
    <3>1. RowPlain(catalog[r]) /\ TaskPlain(request[t])
      BY <1>1, <2>8, <2>9 DEF CatalogInv, PlainInv
    <3>2. w.state = "live" => ~w.path.tagged
      BY <1>1, <2>2, <2>3, <3>1 DEF RowPlain, TaskPlain
    <3> QED
      BY <2>2, <3>1, <3>2 DEF RowPlain
  <2>10. CASE ~request[t].changes
    <3>1. Answers(t) /\ w.version = catalog[r].version /\ w.versions = catalog[r].versions
      BY <2>1, <2>2, <2>4, <2>10
    <3> QED
      BY <1>1, <1>5, <2>1, <2>6, <2>7, <2>8, <2>9, <3>1, LastWriteGood
  <2>11. CASE request[t].changes
    <3> DEFINE s == [version |-> w.version, path |-> w.path, active |-> w.active, state |-> w.state]
               q == [request[t] EXCEPT !.step = "save", !.snapshot = s]
    <3>1. s \in Snapshot /\ s.version = w.version /\ s.path = w.path /\ s.state = w.state
      BY <2>5, <2>6 DEF Snapshot
    <3>2. Goes(t, q)
      BY <2>1, <2>11
    <3> HIDE DEF s
    <3>3. q \in CatRequest /\ q.step = "save" /\ q.id = r /\ q.snapshot = s
      BY <1>1, <1>2, <3>1 DEF CatRequest, CatStep
    <3> HIDE DEF q
    <3>4. Aimed(q) /\ (~raced' => TaskPlain(q))
      BY <2>9, <3>1, <3>3 DEF Aimed, TaskPlain, RowPlain
    <3>5. WritesRow(t, q, r, w)
      BY <1>1, <2>1, <2>7, <2>8, <2>9, <3>2, <3>3, <3>4 DEF WritesRow, Goes
    <3>6. /\ CatalogTyped' /\ PlainInv'
          /\ request'[t] = q /\ \A u \in CatTask \ {t} : request'[u] = request[u]
          /\ catalog'[r] = w /\ \A o \in CatRoute \ {r} : catalog'[o] = catalog[o]
      BY <3>5, WritesRowStep
    <3>7. /\ Saves(t, r)' /\ Saved(t)' = catalog[r].version + 1 /\ ~Saves(t, r)
          /\ \A u \in CatTask \ {t} : (Saves(u, r)' <=> Saves(u, r)) /\ Saved(u)' = Saved(u)
          /\ catalog'[r].version = catalog[r].version + 1 /\ catalog'[r].versions = catalog[r].versions
      BY <1>1, <2>2, <2>4, <2>11, <3>1, <3>3, <3>6 DEF Saves, Saved
    <3>8. ASSUME r \notin unrecorded
          PROVE  Complete(r)'
      <4>1. Complete(r) /\ catalog[r].version \in Nat
        BY <1>5, <2>3, <3>8 DEF CatalogInv, VersionsInv
      <4>2. \A v \in catalog[r].versions : v.version \in Nat
        BY <2>3 DEF Snapshot
      <4>3. \A u \in CatTask : Saved(u) \in Nat
        BY TaskTyped DEF Saved, Snapshot
      <4>4. \A v \in 1..(catalog[r].version + 1) : v \in 1..catalog[r].version \/ v = catalog[r].version + 1
        BY <4>1
      <4> QED
        BY <3>7, <4>1, <4>2, <4>3, <4>4 DEF Complete
    <3>9. \A o \in CatRoute \ {r} : ~Saves(t, o) /\ ~Saves(t, o)'
      BY <1>1, <3>3, <3>6 DEF Saves
    <3>10. VersionsInv'
      BY <1>1, <2>6, <3>6, <3>8, <3>9, OneRouteStep DEF CatalogInv
    <3> QED
      BY <3>6, <3>10 DEF CatalogInv
  <2> QED
    BY <2>10, <2>11
<1> QED
  BY <1>4, <1>5

LEMMA CreateRowGood ==
  ASSUME CatalogInv, NEW t \in CatTask, NEW r \in CatRoute, CreateRow(t, r)
  PROVE  CatalogInv'
<1>1. /\ request[t] \in CatRequest /\ request[t].step \in {"create", "copy"} /\ request[t].path \in PublicPath
      /\ ~raced => ~request[t].path.tagged
      /\ UNCHANGED raced /\ raced \in BOOLEAN /\ unrecorded \subseteq CatRoute
      /\ catalog[r] \in CatalogRow /\ catalog[r].state = "unused" /\ Blank(r)
  BY TaskTyped, LiveRow DEF CreateRow, TaskPlain, CatalogInv, CatalogTyped, CatalogTypeOK, VersionsInv
<1>2. CASE Taken(request[t].path, r)
  <2>1. Answers(t) /\ OnlyReads
    BY <1>2 DEF CreateRow, OnlyReads
  <2> QED
    BY <1>1, <2>1, AnswersGood
<1>3. CASE ~Taken(request[t].path, r)
  <2> DEFINE w == [catalog[r] EXCEPT !.state = "live", !.path = request[t].path]
             f == FirstVersion(request[t].path)
             q == [request[t] EXCEPT !.step = "save", !.id = r, !.snapshot = f]
  <2>1. /\ catalog' = [catalog EXCEPT ![r] = w]
        /\ request[t].step = "create" => Goes(t, q) /\ UNCHANGED unrecorded
        /\ request[t].step # "create" => Answers(t) /\ unrecorded' = unrecorded \cup {r}
    BY <1>3 DEF CreateRow
  <2>2. /\ w \in CatalogRow /\ w.state = "live" /\ w.path = request[t].path /\ w.version = 1 /\ w.versions = {}
    BY <1>1 DEF CatalogRow, RouteState, Blank
  <2>3. f \in Snapshot /\ f.version = 1 /\ f.path = request[t].path
    BY <1>1, CatalogAssumption DEF FirstVersion, Snapshot
  <2> HIDE DEF w, f
  <2>4. q \in CatRequest /\ q.step = "save" /\ q.id = r /\ q.snapshot = f
    BY <1>1, <2>3 DEF CatRequest, CatStep
  <2> HIDE DEF q
  <2>5. Aimed(q) /\ (~raced => TaskPlain(q)) /\ (~raced => RowPlain(w))
    BY <1>1, <2>2, <2>3, <2>4 DEF Aimed, TaskPlain, RowPlain
  <2>6. ~raced => \A u \in CatTask \ {t} : request[u].step = "tag" => request[u].stale # r
    BY <1>1, LiveNotStale
  <2>7. CASE request[t].step = "create"
    <3>1. WritesRow(t, q, r, w)
      BY <1>1, <2>1, <2>2, <2>4, <2>5, <2>6, <2>7 DEF WritesRow, Goes
    <3>2. /\ CatalogTyped' /\ PlainInv'
          /\ request'[t] = q /\ \A u \in CatTask \ {t} : request'[u] = request[u]
          /\ catalog'[r] = w /\ \A o \in CatRoute \ {r} : catalog'[o] = catalog[o]
      BY <3>1, WritesRowStep
    <3>3. /\ Saves(t, r)' /\ Saved(t)' = 1 /\ \A u \in CatTask \ {t} : ~Saves(u, r)'
          /\ catalog'[r].version = 1 /\ catalog'[r].versions = {}
      BY <1>1, <2>2, <2>3, <2>4, <3>2 DEF Saves, Saved, Blank
    <3>4. Complete(r)'
      BY <3>3 DEF Complete
    <3>5. \A o \in CatRoute \ {r} : ~Saves(t, o) /\ ~Saves(t, o)'
      BY <2>4, <2>7, <3>2 DEF Saves
    <3>6. VersionsInv'
      BY <2>1, <2>2, <2>7, <3>2, <3>4, <3>5, OneRouteStep DEF CatalogInv
    <3> QED
      BY <3>2, <3>6 DEF CatalogInv
  <2>8. CASE request[t].step = "copy"
    <3>1. WritesRow(t, NoRequest, r, w)
      BY <1>1, <2>1, <2>2, <2>5, <2>6, <2>8, NothingTyped, IdleGood DEF WritesRow, Goes, Answers
    <3>2. /\ CatalogTyped' /\ PlainInv'
          /\ request'[t] = NoRequest /\ \A u \in CatTask \ {t} : request'[u] = request[u]
          /\ catalog'[r] = w /\ \A o \in CatRoute \ {r} : catalog'[o] = catalog[o]
      BY <3>1, WritesRowStep
    <3>3. r \in unrecorded' /\ \A o \in CatRoute \ {r} : o \in unrecorded <=> o \in unrecorded'
      BY <2>1, <2>8
    <3>4. \A o \in CatRoute \ {r} : ~Saves(t, o) /\ ~Saves(t, o)'
      BY <2>8, <3>2, NothingTyped DEF Saves
    <3>5. VersionsInv'
      BY <2>2, <3>2, <3>3, <3>4, OneRouteStep DEF CatalogInv
    <3> QED
      BY <3>2, <3>5 DEF CatalogInv
  <2> QED
    BY <1>1, <2>7, <2>8
<1> QED
  BY <1>2, <1>3

LEMMA SaveGood ==
  ASSUME CatalogInv, NEW t \in CatTask, SaveVersion(t)
  PROVE  CatalogInv'
<1>1. /\ request[t] \in CatRequest /\ request[t].step = "save" /\ request[t].id \in CatRoute
      /\ request[t].snapshot \in Snapshot /\ (~raced => TaskPlain(request[t]))
      /\ UNCHANGED <<raced, unrecorded>> /\ Answers(t) /\ raced \in BOOLEAN /\ unrecorded \subseteq CatRoute
  BY TaskTyped DEF SaveVersion, Aimed, CatalogInv, CatalogTyped, CatalogTypeOK
<1>2. PICK r \in CatRoute : r = request[t].id
  BY <1>1
<1>3. PICK w : w = IF Row(r) THEN [catalog[r] EXCEPT !.versions = @ \cup {request[t].snapshot}] ELSE catalog[r]
  OBVIOUS
<1>4. catalog[r] \in CatalogRow /\ catalog \in [CatRoute -> CatalogRow]
  BY LiveRow DEF CatalogInv, CatalogTyped, CatalogTypeOK
<1>5. catalog' = [catalog EXCEPT ![r] = w]
  BY <1>1, <1>2, <1>3, <1>4 DEF SaveVersion
<1>6. /\ w \in CatalogRow /\ w.state = catalog[r].state /\ w.path = catalog[r].path /\ w.version = catalog[r].version
      /\ w.versions = IF Row(r) THEN catalog[r].versions \cup {request[t].snapshot} ELSE catalog[r].versions
  BY <1>1, <1>3, <1>4 DEF CatalogRow
<1>7. ~raced => RowPlain(w)
  BY <1>1, <1>6 DEF RowPlain, TaskPlain, CatalogInv, PlainInv
<1>8. w.state \notin {"archived", "gone"} /\ ~raced =>
        \A u \in CatTask \ {t} : request[u].step = "tag" => request[u].stale # r
  BY <1>6, LiveNotStale
<1>9. WritesRow(t, NoRequest, r, w)
  BY <1>1, <1>5, <1>6, <1>7, <1>8, NothingTyped, IdleGood DEF WritesRow, Goes, Answers
<1>10. /\ CatalogTyped' /\ PlainInv'
       /\ request'[t] = NoRequest /\ \A u \in CatTask \ {t} : request'[u] = request[u]
       /\ catalog'[r] = w /\ \A o \in CatRoute \ {r} : catalog'[o] = catalog[o]
  BY <1>9, WritesRowStep
<1>11. /\ Saves(t, r) /\ ~Saves(t, r)' /\ Saved(t) = request[t].snapshot.version
       /\ \A u \in CatTask \ {t} : (Saves(u, r)' <=> Saves(u, r)) /\ Saved(u)' = Saved(u)
       /\ catalog'[r].version = catalog[r].version /\ (Row(r)' <=> Row(r))
  BY <1>1, <1>2, <1>6, <1>10, NothingTyped DEF Saves, Saved, Row, Live, Archived
<1>12. ASSUME Row(r)', r \notin unrecorded'
       PROVE  Complete(r)'
  <2>1. Complete(r) /\ catalog'[r].versions = catalog[r].versions \cup {request[t].snapshot}
    BY <1>1, <1>6, <1>10, <1>11, <1>12 DEF CatalogInv, VersionsInv
  <2>2. PICK s : s = request[t].snapshot /\ s.version = Saved(t)
    BY <1>11
  <2>3. \A o \in catalog'[r].versions : o \in catalog[r].versions \/ o = s
    BY <2>1, <2>2
  <2>4. \A o \in catalog[r].versions : o.version # s.version /\ o \in catalog'[r].versions
    BY <1>11, <2>1, <2>2 DEF Complete
  <2>5. s.version <= catalog[r].version /\ s \in catalog'[r].versions
    BY <1>11, <2>1, <2>2 DEF Complete
  <2>6. \A o \in catalog'[r].versions : o.version <= catalog'[r].version
    BY <1>11, <2>1, <2>3, <2>5 DEF Complete
  <2>7. \A o, p \in catalog'[r].versions : o.version = p.version => o = p
    BY <2>1, <2>3, <2>4 DEF Complete
  <2>8. \A u \in CatTask : Saves(u, r)' => Saved(u)' <= catalog'[r].version
    BY <1>11, <2>1 DEF Complete
  <2>9. \A u, v \in CatTask : Saves(u, r)' /\ Saves(v, r)' /\ Saved(u)' = Saved(v)' => u = v
    BY <1>11, <2>1 DEF Complete
  <2>10. \A o \in catalog'[r].versions : \A u \in CatTask : Saves(u, r)' => o.version # Saved(u)'
    BY <1>11, <2>1, <2>2, <2>3 DEF Complete
  <2>11. ASSUME NEW v \in 1..catalog'[r].version
         PROVE  \/ \E o \in catalog'[r].versions : o.version = v
                \/ \E u \in CatTask : Saves(u, r)' /\ Saved(u)' = v
    <3>1. v \in 1..catalog[r].version
      BY <1>11, <2>11
    <3>2. CASE \E o \in catalog[r].versions : o.version = v
      BY <2>4, <3>2
    <3>3. CASE \E u \in CatTask : Saves(u, r) /\ Saved(u) = v
      BY <1>11, <2>2, <2>5, <3>3
    <3> QED
      BY <2>1, <3>1, <3>2, <3>3 DEF Complete
  <2> QED
    BY <2>6, <2>7, <2>8, <2>9, <2>10, <2>11 DEF Complete
<1>13. catalog'[r].state # "unused"
  BY <1>6, <1>10, <1>11 DEF CatalogInv, VersionsInv, Blank
<1>14. \A o \in CatRoute \ {r} : ~Saves(t, o) /\ ~Saves(t, o)'
  BY <1>2, <1>10, NothingTyped DEF Saves
<1>15. VersionsInv'
  BY <1>1, <1>10, <1>12, <1>13, <1>14, OneRouteStep DEF CatalogInv
<1> QED
  BY <1>10, <1>15 DEF CatalogInv

LEMMA FailsGood ==
  ASSUME CatalogInv, NEW t \in CatTask, RequestFails(t)
  PROVE  CatalogInv'
<1>1. CASE request[t].step # "save"
  BY <1>1, AnswersGood DEF RequestFails, OnlyReads
<1>2. CASE request[t].step = "save"
  <2>1. PICK r \in CatRoute : r = request[t].id
    BY <1>2, TaskTyped DEF Aimed
  <2>2. UNCHANGED <<catalog, raced, requests>> /\ unrecorded' = unrecorded \cup {r} /\ request' = [request EXCEPT ![t] = NoRequest]
    BY <1>2, <2>1 DEF RequestFails, Answers, Goes
  <2>3. CatalogTyped' /\ request'[t] = NoRequest /\ \A u \in CatTask \ {t} : request'[u] = request[u]
    BY <2>2, NothingTyped, IdleGood, TypedStep DEF CatalogInv, CatalogTyped, CatalogTypeOK
  <2>4. PlainInv'
    <3>1. ~raced => \A u \in CatTask : StaleStays(u)'
      BY <2>2, <2>3, NothingTyped DEF CatalogInv, PlainInv, StaleStays
    <3>2. ~raced => \A o \in CatRoute : RowPlain(catalog[o])
      BY DEF CatalogInv, PlainInv
    <3> QED
      BY <2>2, <2>3, <3>1, <3>2, IdleGood, PlainStep DEF CatalogInv
  <2>5. \A o \in CatRoute \ {r} : ~Saves(t, o) /\ ~Saves(t, o)' /\ (o \in unrecorded <=> o \in unrecorded')
    BY <2>1, <2>2, <2>3, NothingTyped DEF Saves
  <2>6. catalog[r].state # "unused" /\ r \in unrecorded'
    BY <1>2, <2>1, <2>2 DEF CatalogInv, VersionsInv, Blank, Saves
  <2>7. VersionsInv'
    BY <2>2, <2>3, <2>5, <2>6, OneRouteStep DEF CatalogInv
  <2> QED
    BY <2>3, <2>4, <2>7 DEF CatalogInv
<1> QED
  BY <1>1, <1>2

-----------------------------------------------------------------------------
LEMMA CatalogInitGood == CatalogInit => CatalogInv
<1> SUFFICES ASSUME CatalogInit PROVE CatalogInv
  OBVIOUS
<1>1. \A r \in CatRoute : catalog[r] = Unused
  BY DEF CatalogInit
<1>2. \A t \in CatTask : request[t] = NoRequest
  BY DEF CatalogInit
<1>3. CatalogTyped
  <2>1. 0 \in 0..MaxRequests
    BY CatalogAssumption
  <2>2. catalog \in [CatRoute -> CatalogRow] /\ request \in [CatTask -> CatRequest]
    BY NothingTyped DEF CatalogInit
  <2>3. \A t \in CatTask : Aimed(request[t])
    BY <1>2, IdleGood
  <2> QED
    BY <2>1, <2>2, <2>3 DEF CatalogInit, CatalogTyped, CatalogTypeOK
<1>4. RowPlain(Unused)
  BY NothingTyped DEF RowPlain
<1>5. PlainInv
  BY <1>1, <1>2, <1>4, NothingTyped, IdleGood DEF PlainInv, StaleStays
<1>6. VersionsInv
  BY <1>1, <1>2, NothingTyped DEF VersionsInv, Row, Live, Archived, Blank, Saves
<1> QED
  BY <1>3, <1>5, <1>6 DEF CatalogInv

LEMMA CatalogStepGood == CatalogInv /\ [CatalogNext]_catalogVars => CatalogInv'
<1> SUFFICES ASSUME CatalogInv, [CatalogNext]_catalogVars PROVE CatalogInv'
  OBVIOUS
<1>1. CASE UNCHANGED catalogVars
  <2>1. CatalogTyped' /\ PlainInv'
    BY <1>1 DEF catalogVars, CatalogInv, CatalogTyped, CatalogTypeOK, PlainInv, StaleStays
  <2>2. VersionsInv'
    BY <1>1 DEF catalogVars, CatalogInv, VersionsInv, Row, Live, Archived, Complete, Blank, Saves, Saved
  <2> QED
    BY <2>1, <2>2 DEF CatalogInv
<1>2. ASSUME NEW t \in CatTask,
             \/ LookForStale(t) \/ freeSoftDeletedPublicPath(t) \/ UpdateRow(t) \/ SaveVersion(t)
             \/ SwitchRow(t) \/ bulkDelete(t) \/ ArchiveRow(t) \/ LookForClash(t) \/ RestoreRow(t)
             \/ RemoveRow(t) \/ RequestFails(t)
      PROVE  CatalogInv'
  <2>1. CASE LookForStale(t) \/ freeSoftDeletedPublicPath(t) \/ UpdateRow(t) \/ SaveVersion(t)
    BY <2>1, LookForStaleGood, freeGood, UpdateGood, SaveGood
  <2>2. CASE SwitchRow(t) \/ bulkDelete(t) \/ ArchiveRow(t) \/ LookForClash(t)
    BY <2>2, SwitchGood, bulkDeleteGood, ArchiveGood, LookForClashGood
  <2>3. CASE RestoreRow(t) \/ RemoveRow(t) \/ RequestFails(t)
    BY <2>3, RestoreRowGood, RemoveGood, FailsGood
  <2> QED
    BY <1>2, <2>1, <2>2, <2>3
<1>3. ASSUME NEW t \in CatTask, NEW r \in CatRoute,
             \/ updateRoute(t, r) \/ CreateRow(t, r) \/ publishRoute(t, r) \/ deleteRoute(t, r) \/ BulkDelete(t, r)
             \/ restoreRoute(t, r) \/ permanentlyDeleteRoute(t, r)
             \/ \E s \in catalog[r].versions : restoreRouteVersion(t, r, s)
             \/ \E hasSlug \in BOOLEAN : duplicateRoute(t, r, hasSlug)
      PROVE  CatalogInv'
  <2>1. CASE \E s \in catalog[r].versions : restoreRouteVersion(t, r, s)
    BY <2>1, restoreRouteVersionGood
  <2>2. CASE updateRoute(t, r) \/ CreateRow(t, r)
    BY <2>2, updateRouteGood, CreateRowGood
  <2> QED
    BY <1>3, <2>1, <2>2, BeginsGood
<1> QED
  BY <1>1, <1>2, <1>3, createRouteGood, bulkPublishGood DEF CatalogNext

\* Rows, versions and requests of routeService keep their types: no step names a route that is
\* not there, and no statement gives a row a version beyond the bound.
THEOREM CatalogTypes == CatalogSpec => []CatalogTypeOK
<1>1. CatalogInv => CatalogTypeOK
  BY DEF CatalogInv, CatalogTyped
<1> QED
  BY <1>1, CatalogInitGood, CatalogStepGood, PTL DEF CatalogSpec

\* A live route never has the tag that mangleForArchive puts on its path, for any number of
\* routes, paths and overlapping requests, until a route comes back while another request is
\* about to free its path.
THEOREM LivePathsAreUntagged == CatalogSpec => []LiveUnmangled
<1>1. CatalogInv => LiveUnmangled
  BY DEF CatalogInv, PlainInv, RowPlain, LiveUnmangled, Live
<1> QED
  BY <1>1, CatalogInitGood, CatalogStepGood, PTL DEF CatalogSpec

\* updateRoute keeps every version of a route exactly once, for any number of overlapping
\* updates, restores and archivings: the version that a request saves is the one its own
\* statement gave the row.
THEOREM EveryVersionIsKept == CatalogSpec => []VersionsComplete
<1>1. CatalogInv => VersionsComplete
  <2> SUFFICES ASSUME CatalogInv, NEW r \in CatRoute \ unrecorded, Row(r), NEW v \in 1..catalog[r].version
               PROVE  Cardinality({s \in catalog[r].versions : s.version = v})
                        + Cardinality({t \in CatTask : request[t].step = "save" /\ request[t].id = r
                                                         /\ request[t].snapshot.version = v}) = 1
    BY DEF VersionsComplete
  <2> DEFINE K == {s \in catalog[r].versions : s.version = v}
             S == {t \in CatTask : request[t].step = "save" /\ request[t].id = r /\ request[t].snapshot.version = v}
  <2>1. Complete(r)
    BY DEF CatalogInv, VersionsInv
  <2>2. CASE \E s \in catalog[r].versions : s.version = v
    <3>1. PICK s \in catalog[r].versions : s.version = v
      BY <2>2
    <3>2. K = {s} /\ S = {}
      BY <2>1, <3>1 DEF Complete, Saves, Saved
    <3>3. Cardinality(K) = 1 /\ Cardinality(S) = 0
      BY <3>2, FS_Singleton, FS_EmptySet
    <3> QED
      BY <3>3
  <2>3. CASE \E t \in CatTask : Saves(t, r) /\ Saved(t) = v
    <3>1. PICK t \in CatTask : Saves(t, r) /\ Saved(t) = v
      BY <2>3
    <3>2. K = {} /\ S = {t}
      BY <2>1, <3>1 DEF Complete, Saves, Saved
    <3>3. Cardinality(K) = 0 /\ Cardinality(S) = 1
      BY <3>2, FS_Singleton, FS_EmptySet
    <3> QED
      BY <3>3
  <2> QED
    BY <2>1, <2>2, <2>3 DEF Complete
<1> QED
  BY <1>1, CatalogInitGood, CatalogStepGood, PTL DEF CatalogSpec

-----------------------------------------------------------------------------
(***************************************************************************)
(* Console. The property speaks of an entry at rest; the invariant speaks  *)
(* of its data and of the answer that is under way, since a fetch that     *)
(* fails leaves the data and one that succeeds puts the answer there.      *)
(***************************************************************************)

Effects == [invalidates : BOOLEAN, puts : BOOLEAN, clears : BOOLEAN, expected : BOOLEAN]

\* Every mutation whose change the query is expected to show invalidates the query, puts its
\* answer there or clears the cache.
Refreshing(f) == f.expected => f.invalidates \/ f.puts \/ f.clears

\* The query that a behaviour follows is one whose mutations refresh it.
Refreshed == \A v \in subject.views : \A f \in v.effects : Refreshing(f)

\* Data without a mark is as new as the own writes, also while a fetch runs that may fail, and
\* so is the answer of a fetch.
NewEnough(e) ==
    /\ e.data # 0 /\ ~e.marked => e.data >= known
    /\ e.fetch = "answered" => e.got >= known

ConsoleInv ==
    /\ Refreshed /\ view \in subject.views \union {SignedOut}
    /\ entry \in Entry /\ writes \in 1..MaxWrites /\ known \in 0..MaxWrites
    /\ sent = Nothing \/ (sent.stage \in {"sent", "done"} /\ Refreshing(sent.effect))
    /\ sent.stage = "done" => sent.at \in 1..MaxWrites /\ sent.at <= writes /\ sent.at >= known
    /\ known <= writes
    /\ NewEnough(entry)

LEMMA WritesInRange == 0 \in 0..MaxWrites /\ \A n \in 1..MaxWrites : n \in 0..MaxWrites
  BY MaxWritesAssumption

LEMMA AskedGood ==
    ASSUME NEW e \in Entry, NewEnough(e)
    PROVE  Asked(e) \in Entry /\ NewEnough(Asked(e)) /\ Asked(e).fetch = "asked"
                /\ Asked(e).data = e.data /\ Asked(e).marked = e.marked
<1>1. /\ Asked(e) \in Entry /\ Asked(e).fetch = "asked"
      /\ Asked(e).data = e.data /\ Asked(e).marked = e.marked
  BY WritesInRange DEF Asked, Entry
<1> QED
  BY <1>1 DEF NewEnough

LEMMA EmptyGood == EmptyEntry \in Entry /\ NewEnough(EmptyEntry) /\ EmptyEntry.data = 0 /\ EmptyEntry.fetch = "idle"
  BY MaxWritesAssumption DEF EmptyEntry, Entry, NewEnough

LEMMA NothingFields == Nothing.stage = "none" /\ Nothing.at = 0
  BY DEF Nothing

\* A step that leaves the own writes as they were and the entry as good as it was.
LEMMA EntryStep ==
    ASSUME ConsoleInv, UNCHANGED <<subject, writes, known>>, UNCHANGED sent \/ sent' = Nothing,
           view' \in subject.views \union {SignedOut}, NEW e \in Entry, NewEnough(e), entry' = e
    PROVE  ConsoleInv'
  BY NothingFields DEF ConsoleInv, Refreshed, Refreshing, NewEnough

LEMMA ConsoleInitGood == ConsoleInit /\ Refreshed => ConsoleInv
  BY MaxWritesAssumption, EmptyGood, NothingFields DEF ConsoleInit, ConsoleInv, Nothing

\* What onSuccess leaves of the entry once the answer of mutation f, made by write n, arrived.
LEMMA SuccessGood ==
    ASSUME ConsoleInv, NEW f, NEW n \in 1..MaxWrites, n >= known
    PROVE  /\ onSuccess(f, n) \in Entry /\ NewEnough(onSuccess(f, n))
           /\ Refreshing(f) /\ f.expected /\ ~LeftRunning(f) =>
                /\ onSuccess(f, n).data # 0 /\ ~onSuccess(f, n).marked => onSuccess(f, n).data >= n
                /\ onSuccess(f, n).fetch # "answered"
<1> USE DEF ConsoleInv
<1> DEFINE m == [entry EXCEPT !.marked = TRUE]
<1>1. entry \in Entry /\ NewEnough(entry) /\ known \in 0..MaxWrites
  OBVIOUS
<1>2. m \in Entry /\ m.marked /\ m.data = entry.data /\ m.fetch = entry.fetch /\ m.got = entry.got
  BY <1>1 DEF Entry
<1>3. NewEnough(m)
  BY <1>1, <1>2 DEF NewEnough
<1> HIDE DEF m
<1>4. PICK old \in Entry :
        /\ old = IF f.invalidates THEN invalidateQueries(entry) ELSE entry
        /\ NewEnough(old)
        /\ f.invalidates /\ old.data # 0 => old.marked
        /\ f.invalidates /\ Restarts(entry) => old.fetch = "asked"
        /\ old.fetch = "answered" => entry.fetch = "answered"
  <2>1. /\ Asked(m) \in Entry /\ NewEnough(Asked(m)) /\ Asked(m).fetch = "asked"
        /\ Asked(m).marked
    BY <1>2, <1>3, AskedGood
  <2>2. CASE ~f.invalidates
    BY <1>1, <2>2
  <2>3. CASE f.invalidates /\ entry.data = 0 /\ entry.fetch = "idle" /\ ~view.shown
    BY <1>1, <2>3 DEF invalidateQueries, Restarts
  <2>4. CASE f.invalidates /\ ~(entry.data = 0 /\ entry.fetch = "idle" /\ ~view.shown) /\ Restarts(entry)
    <3>1. invalidateQueries(entry) = Asked(m)
      BY <2>4 DEF invalidateQueries, m
    <3> QED
      BY <2>1, <2>4, <3>1
  <2>5. CASE f.invalidates /\ ~(entry.data = 0 /\ entry.fetch = "idle" /\ ~view.shown) /\ ~Restarts(entry)
    <3>1. invalidateQueries(entry) = m
      BY <2>5 DEF invalidateQueries, m
    <3> QED
      BY <1>2, <1>3, <2>5, <3>1
  <2> QED
    BY <2>2, <2>3, <2>4, <2>5
<1>5. CASE f.clears
  BY <1>5, EmptyGood DEF onSuccess
<1>6. CASE ~f.clears /\ f.puts
  <2> DEFINE e == [old EXCEPT !.data = n, !.marked = FALSE]
  <2>1. onSuccess(f, n) = e
    BY <1>4, <1>6 DEF onSuccess, setQueryData
  <2>2. e \in Entry /\ e.data = n /\ e.fetch = old.fetch /\ e.got = old.got
    BY <1>4, WritesInRange DEF Entry
  <2> HIDE DEF e
  <2>3. NewEnough(e)
    BY <1>4, <2>2 DEF NewEnough
  <2>4. ~LeftRunning(f) => e.fetch # "answered"
    BY <1>4, <1>6, <2>2 DEF LeftRunning
  <2> QED
    BY <2>1, <2>2, <2>3, <2>4
<1>7. CASE ~f.clears /\ ~f.puts
  <2>1. onSuccess(f, n) = old
    BY <1>4, <1>7 DEF onSuccess
  <2>2. ~LeftRunning(f) => old.fetch # "answered"
    BY <1>4, <1>7 DEF LeftRunning
  <2> QED
    BY <1>4, <1>7, <2>1, <2>2 DEF Refreshing
<1> QED
  BY <1>5, <1>6, <1>7

LEMMA SucceedsGood ==
    ASSUME ConsoleInv, MutationSucceeds
    PROVE  ConsoleInv'
<1> USE DEF ConsoleInv
<1>1. sent.stage = "done" /\ Refreshing(sent.effect)
  BY NothingFields DEF MutationSucceeds
<1>2. /\ sent.at \in 1..MaxWrites /\ sent.at >= known /\ sent.at <= writes
      /\ known \in 0..MaxWrites /\ known <= writes /\ writes \in 1..MaxWrites
  BY <1>1
<1>3. PICK e \in Entry :
        /\ e = onSuccess(sent.effect, sent.at) /\ NewEnough(e)
        /\ Refreshing(sent.effect) /\ sent.effect.expected /\ ~LeftRunning(sent.effect) =>
             /\ e.data # 0 /\ ~e.marked => e.data >= sent.at
             /\ e.fetch # "answered"
  BY <1>2, SuccessGood
<1>4. /\ entry' = e /\ sent' = Nothing /\ UNCHANGED <<subject, writes>>
      /\ view' \in subject.views \union {SignedOut}
      /\ known' = known \/ (sent.effect.expected /\ ~LeftRunning(sent.effect) /\ known' = sent.at)
  BY <1>3 DEF MutationSucceeds
<1>5. CASE known' = known
  BY <1>3, <1>4, <1>5, EntryStep
<1>6. CASE sent.effect.expected /\ ~LeftRunning(sent.effect) /\ known' = sent.at
  <2>1. NewEnough(entry)'
    BY <1>1, <1>3, <1>4, <1>6 DEF NewEnough
  <2>2. known' \in 0..MaxWrites /\ known' <= writes'
    BY <1>2, <1>4, <1>6, MaxWritesAssumption
  <2> QED
    BY <1>3, <1>4, <2>1, <2>2, NothingFields DEF Refreshed
<1> QED
  BY <1>4, <1>5, <1>6

LEMMA ConsoleStepGood == ConsoleInv /\ [ConsoleNext]_consoleVars => ConsoleInv'
<1> SUFFICES ASSUME ConsoleInv, [ConsoleNext]_consoleVars PROVE ConsoleInv'
  OBVIOUS
<1>t. /\ view \in subject.views \union {SignedOut} /\ entry \in Entry /\ NewEnough(entry)
      /\ writes \in 1..MaxWrites /\ known \in 0..MaxWrites /\ known <= writes
  BY DEF ConsoleInv
<1>a. Asked(entry) \in Entry /\ NewEnough(Asked(entry))
  BY <1>t, AskedGood
<1>1. CASE UNCHANGED consoleVars
  BY <1>t, <1>1, EntryStep DEF consoleVars
<1>2. CASE Navigate
  <2>1. entry' \in {entry, Asked(entry)}
    BY <1>2 DEF Navigate, Mounted
  <2> QED
    BY <1>2, <1>a, <1>t, <2>1, EntryStep DEF Navigate
<1>3. CASE Serve
  <2> DEFINE e == [entry EXCEPT !.fetch = "answered", !.got = writes]
  <2>1. e \in Entry /\ e.data = entry.data /\ e.marked = entry.marked /\ e.got = writes
    BY <1>t, WritesInRange DEF Entry
  <2>2. entry' = e /\ UNCHANGED <<subject, view, writes, sent, known>>
    BY <1>3 DEF Serve
  <2> HIDE DEF e
  <2>3. NewEnough(e)
    BY <1>t, <2>1 DEF NewEnough
  <2> QED
    BY <1>t, <2>1, <2>2, <2>3, EntryStep
<1>4. CASE Receive
  <2> DEFINE e == [EmptyEntry EXCEPT !.data = entry.got]
  <2>1. e \in Entry /\ e.data = entry.got /\ e.fetch = "idle"
    BY <1>t, WritesInRange DEF Entry, EmptyEntry
  <2>2. entry' = e /\ UNCHANGED <<subject, view, writes, sent, known>> /\ entry.fetch = "answered"
    BY <1>4 DEF Receive
  <2> HIDE DEF e
  <2>3. NewEnough(e)
    BY <1>t, <2>1, <2>2 DEF NewEnough
  <2> QED
    BY <1>t, <2>1, <2>2, <2>3, EntryStep
<1>5. CASE FetchFails
  <2> DEFINE e == [entry EXCEPT !.fetch = "idle", !.got = 0]
  <2>1. e \in Entry /\ e.data = entry.data /\ e.marked = entry.marked /\ e.fetch = "idle"
    BY <1>t, WritesInRange DEF Entry
  <2>2. entry' = e /\ UNCHANGED <<subject, view, writes, sent, known>>
    BY <1>5 DEF FetchFails
  <2> HIDE DEF e
  <2>3. NewEnough(e)
    BY <1>t, <2>1 DEF NewEnough
  <2> QED
    BY <1>t, <2>1, <2>2, <2>3, EntryStep
<1>6. CASE Refetch
  BY <1>6, <1>a, <1>t, EntryStep DEF Refetch
<1>7. CASE Collect
  BY <1>7, <1>t, EmptyGood, EntryStep DEF Collect
<1>8. CASE Submit
  <2>1. PICK f \in view.effects : sent' = [Nothing EXCEPT !.stage = "sent", !.effect = f]
    BY <1>8 DEF Submit
  <2>2. sent'.stage = "sent" /\ sent'.effect = f
    BY <2>1 DEF Nothing
  <2>3. Refreshing(f)
    BY <1>t, <2>1 DEF ConsoleInv, Refreshed, SignedOut
  <2> QED
    BY <1>8, <1>t, <2>2, <2>3 DEF Submit, ConsoleInv, Refreshed, NewEnough
<1>9. CASE Commit
  <2>1. Refreshing(sent.effect)
    BY <1>9, NothingFields DEF ConsoleInv, Commit
  <2>2. /\ writes' = writes + 1 /\ writes' \in 1..MaxWrites /\ UNCHANGED <<subject, view, entry, known>>
        /\ sent' = [sent EXCEPT !.stage = "done", !.at = writes + 1]
    BY <1>9, <1>t, MaxWritesAssumption DEF Commit
  <2>3. sent'.stage = "done" /\ sent'.at = writes + 1 /\ sent'.effect = sent.effect
    BY <2>2
  <2> QED
    BY <1>t, <2>1, <2>2, <2>3, MaxWritesAssumption DEF ConsoleInv, Refreshed, NewEnough
<1>10. CASE MutationFails
  BY <1>10, <1>t, EntryStep DEF MutationFails
<1>11. CASE OtherWrite
  <2>1. writes' = writes + 1 /\ writes' \in 1..MaxWrites
    BY <1>11, <1>t, MaxWritesAssumption DEF OtherWrite
  <2> QED
    BY <1>11, <1>t, <2>1, MaxWritesAssumption DEF OtherWrite, ConsoleInv, Refreshed, NewEnough
<1>12. CASE ReloadTab
  <2>1. Asked(EmptyEntry) \in Entry /\ NewEnough(Asked(EmptyEntry))
    BY EmptyGood, AskedGood
  <2>2. entry' \in {EmptyEntry, Asked(EmptyEntry)}
    BY <1>12 DEF ReloadTab
  <2> QED
    BY <1>12, <1>t, <2>1, <2>2, EmptyGood, EntryStep DEF ReloadTab
<1> QED
  BY <1>1, <1>2, <1>3, <1>4, <1>5, <1>6, <1>7, <1>8, <1>9, <1>10, <1>11, <1>12, SucceedsGood DEF ConsoleNext

-----------------------------------------------------------------------------
(***************************************************************************)
(* The tables of Hooks and Screens.  On every page, a mutation that changes *)
(* what a query of the page reads does something about its entry, or the    *)
(* page overlooks it (Refreshes): the followed query is Refreshed,          *)
(* whichever it is.                                                         *)
(***************************************************************************)

LEMMA PrefixOfKey ==
    ASSUME NEW a, NEW b, NEW c
    PROVE  /\ IsPrefix(<<a>>, <<a>>) /\ IsPrefix(<<a>>, <<a, b>>) /\ IsPrefix(<<a>>, <<a, b, c>>)
           /\ IsPrefix(<<a, b>>, <<a, b>>) /\ IsPrefix(<<a, b>>, <<a, b, c>>)
  BY DEF IsPrefix

Touches(m, q) ==
    m.clears \/ q.key \in m.puts \/ \E k \in m.invalidates : IsPrefix(k, q.key)

Refreshes(m, q) ==
    /\ m.clears \in BOOLEAN
    /\ m.writes \intersect q.reads = {} \/ Overlooked(m, q) \/ Touches(m, q)

\* What the queries of the pages read.
LEMMA QueryReads ==
    /\ useAuth.reads = {"Self"} /\ useProxyOrigin.reads = {"BaseUrl"}
    /\ useRoutes.reads = {"Route", "Health"} /\ useRoute.reads = {"Route", "Health", "ApiKey"}
    /\ useRouteBySlug.reads = {"Route", "Health", "ApiKey"}
    /\ useRouteVersions.reads = {"Version"} /\ useRouteUptime.reads = {"Health"}
    /\ useRouteStats.reads = {"Log"} /\ archivedQuery.reads = {"Route"}
    /\ allRoutesQuery.reads = {"Route", "Health"} /\ pinnedQuery.reads = {"Route", "Health"}
    /\ useApiKeys.reads = {"ApiKey"} /\ useFolders.reads = {"Folder"}
    /\ usePathTemplates.reads = {"Template"} /\ useNotifications.reads = {"Notice"}
    /\ useUnreadCount.reads = {"Notice"} /\ useBackups.reads = {"Backup"}
    /\ useLogs.reads = {"Log"} /\ targetsQuery.reads = {"Target"}
    /\ transformsQuery.reads = {"Transform"} /\ groupsQuery.reads = {"Groups", "Group"}
    /\ groupChoicesQuery.reads = {"Groups", "Group"} /\ groupQuery.reads = {"Group", "Route"}
    /\ organizationsQuery.reads = {"Orgs", "Org"}
    /\ organizationQuery.reads = {"Org", "Member", "Team"} /\ teamsQuery.reads = {"Team"}
    /\ memberChoicesQuery.reads = {"User"} /\ usersQuery.reads = {"User"}
    /\ invitesQuery.reads = {"Invite"} /\ incidentsQuery.reads = {"Incidents", "Incident"}
    /\ incidentQuery.reads = {"Incident"} /\ changesQuery.reads = {"Changes", "Change"}
    /\ changeQuery.reads = {"Change"} /\ policyQuery.reads = {"Org", "Group"}
    /\ sessionsQuery.reads = {"Session"} /\ achievementsQuery.reads = {"Achievement"}
    /\ sanitizerQuery.reads = {"Sanitizer"} /\ breadcrumbQuery.reads = {"Route"}
    /\ pageTitleQuery.reads = {"Route"}
<1>1. useAuth.reads = {"Self"}
  BY DEF useAuth, Query, authApi, getCurrentUser
<1>2. useProxyOrigin.reads = {"BaseUrl"}
  BY DEF useProxyOrigin, Query, routesApi, getPublicBaseUrl
<1>3. useRoutes.reads = {"Route", "Health"}
  BY DEF useRoutes, Query, routesApi, getRoutes
<1>4. useRoute.reads = {"Route", "Health", "ApiKey"}
  BY DEF useRoute, Query, routesApi, getRouteById
<1>5. useRouteBySlug.reads = {"Route", "Health", "ApiKey"}
  BY DEF useRouteBySlug, Query, routesApi, getRouteById
<1>6. useRouteVersions.reads = {"Version"}
  BY DEF useRouteVersions, Query, routesApi, getRouteVersions
<1>7. useRouteUptime.reads = {"Health"}
  BY DEF useRouteUptime, Query, routesApi, getRouteUptime
<1>8. useRouteStats.reads = {"Log"}
  BY DEF useRouteStats, Query, routesApi, getRouteStats
<1>9. archivedQuery.reads = {"Route"}
  BY DEF archivedQuery, Query, routesApi, getArchivedRoutes
<1>10. allRoutesQuery.reads = {"Route", "Health"}
  BY DEF allRoutesQuery, Query, routesApi, getRoutes
<1>11. pinnedQuery.reads = {"Route", "Health"}
  BY DEF pinnedQuery, Query, routesApi, getRoutes
<1>12. useApiKeys.reads = {"ApiKey"}
  BY DEF useApiKeys, Query, apiKeysApi, listApiKeys
<1>13. useFolders.reads = {"Folder"}
  BY DEF useFolders, Query, foldersApi, listFolders
<1>14. usePathTemplates.reads = {"Template"}
  BY DEF usePathTemplates, Query, pathTemplatesApi, listPathTemplates
<1>15. useNotifications.reads = {"Notice"}
  BY DEF useNotifications, Query, notificationsApi, getNotifications
<1>16. useUnreadCount.reads = {"Notice"}
  BY DEF useUnreadCount, Query, notificationsApi, getUnreadCount
<1>17. useBackups.reads = {"Backup"}
  BY DEF useBackups, Query, backupsApi, listStoredBackups
<1>18. useLogs.reads = {"Log"}
  BY DEF useLogs, Query, logsApi, getRouteLogs
<1>19. targetsQuery.reads = {"Target"}
  BY DEF targetsQuery, Query, targetsApi, listTargets
<1>20. transformsQuery.reads = {"Transform"}
  BY DEF transformsQuery, Query, transformsApi, listTransforms
<1>21. groupsQuery.reads = {"Groups", "Group"}
  BY DEF groupsQuery, Query, routeGroupsApi, getRouteGroups
<1>22. groupChoicesQuery.reads = {"Groups", "Group"}
  BY DEF groupChoicesQuery, Query, routeGroupsApi, getRouteGroups
<1>23. groupQuery.reads = {"Group", "Route"}
  BY DEF groupQuery, Query, routeGroupsApi, getRouteGroupById
<1>24. organizationsQuery.reads = {"Orgs", "Org"}
  BY DEF organizationsQuery, Query, organizationsApi, getOrganizations
<1>25. organizationQuery.reads = {"Org", "Member", "Team"}
  BY DEF organizationQuery, Query, organizationsApi, getOrganizationById
<1>26. teamsQuery.reads = {"Team"}
  BY DEF teamsQuery, Query, organizationsApi, getTeams
<1>27. memberChoicesQuery.reads = {"User"}
  BY DEF memberChoicesQuery, Query, usersApi, getUsers
<1>28. usersQuery.reads = {"User"}
  BY DEF usersQuery, Query, usersApi, getUsers
<1>29. invitesQuery.reads = {"Invite"}
  BY DEF invitesQuery, Query, usersApi, listInvites
<1>30. incidentsQuery.reads = {"Incidents", "Incident"}
  BY DEF incidentsQuery, Query, incidentsApi, listIncidents
<1>31. incidentQuery.reads = {"Incident"}
  BY DEF incidentQuery, Query, incidentsApi, getIncident
<1>32. changesQuery.reads = {"Changes", "Change"}
  BY DEF changesQuery, Query, changeRequestsApi, listChanges
<1>33. changeQuery.reads = {"Change"}
  BY DEF changeQuery, Query, changeRequestsApi, getChange
<1>34. policyQuery.reads = {"Org", "Group"}
  BY DEF policyQuery, Query, changeRequestsApi, getPolicy
<1>35. sessionsQuery.reads = {"Session"}
  BY DEF sessionsQuery, Query, authApi, listSessions
<1>36. achievementsQuery.reads = {"Achievement"}
  BY DEF achievementsQuery, Query, achievementsApi, getUserAchievements
<1>37. sanitizerQuery.reads = {"Sanitizer"}
  BY DEF sanitizerQuery, Query, sanitizerApi, getSanitizerConfig
<1>38. breadcrumbQuery.reads = {"Route"}
  BY DEF breadcrumbQuery, Query
<1>39. pageTitleQuery.reads = {"Route"}
  BY DEF pageTitleQuery, Query
<1> QED
  BY <1>1, <1>2, <1>3, <1>4, <1>5, <1>6, <1>7, <1>8, <1>9, <1>10, <1>11, <1>12, <1>13,
     <1>14, <1>15, <1>16, <1>17, <1>18, <1>19, <1>20, <1>21, <1>22, <1>23, <1>24, <1>25,
     <1>26, <1>27, <1>28, <1>29, <1>30, <1>31, <1>32, <1>33, <1>34, <1>35, <1>36, <1>37,
     <1>38, <1>39

\* The keys that mutations invalidate are above those of the queries.
LEMMA KeysAbove ==
    /\ IsPrefix(<<"apiKeys", "id">>, useApiKeys.key) /\ IsPrefix(<<"backups">>, useBackups.key)
    /\ IsPrefix(<<"change-request">>, changeQuery.key)
    /\ IsPrefix(<<"change-requests">>, changesQuery.key)
    /\ IsPrefix(<<"folders">>, useFolders.key) /\ IsPrefix(<<"incident">>, incidentQuery.key)
    /\ IsPrefix(<<"incidents">>, incidentsQuery.key)
    /\ IsPrefix(<<"invites">>, invitesQuery.key)
    /\ IsPrefix(<<"notifications">>, useNotifications.key)
    /\ IsPrefix(<<"notifications">>, useUnreadCount.key)
    /\ IsPrefix(<<"organization", "id">>, organizationQuery.key)
    /\ IsPrefix(<<"organization-teams", "id">>, teamsQuery.key)
    /\ IsPrefix(<<"organizations">>, organizationsQuery.key)
    /\ IsPrefix(<<"pathTemplates">>, usePathTemplates.key)
    /\ IsPrefix(<<"route-group", "id">>, groupQuery.key)
    /\ IsPrefix(<<"route-groups">>, groupsQuery.key)
    /\ IsPrefix(<<"routes">>, archivedQuery.key) /\ IsPrefix(<<"routes">>, useRoute.key)
    /\ IsPrefix(<<"routes">>, useRouteBySlug.key)
    /\ IsPrefix(<<"routes">>, useRouteVersions.key) /\ IsPrefix(<<"routes">>, useRoutes.key)
    /\ IsPrefix(<<"routes", "id">>, useRoute.key)
    /\ IsPrefix(<<"routes", "id">>, useRouteUptime.key)
    /\ IsPrefix(<<"routes", "id">>, useRouteVersions.key)
    /\ IsPrefix(<<"sessions">>, sessionsQuery.key)
    /\ IsPrefix(<<"targets", "id">>, targetsQuery.key)
    /\ IsPrefix(<<"transforms", "id">>, transformsQuery.key)
    /\ IsPrefix(<<"users">>, usersQuery.key)
<1>1. IsPrefix(<<"apiKeys", "id">>, useApiKeys.key)
  BY PrefixOfKey DEF useApiKeys, Query
<1>2. IsPrefix(<<"backups">>, useBackups.key)
  BY PrefixOfKey DEF useBackups, Query
<1>3. IsPrefix(<<"change-request">>, changeQuery.key)
  BY PrefixOfKey DEF changeQuery, Query
<1>4. IsPrefix(<<"change-requests">>, changesQuery.key)
  BY PrefixOfKey DEF changesQuery, Query
<1>5. IsPrefix(<<"folders">>, useFolders.key)
  BY PrefixOfKey DEF useFolders, Query
<1>6. IsPrefix(<<"incident">>, incidentQuery.key)
  BY PrefixOfKey DEF incidentQuery, Query
<1>7. IsPrefix(<<"incidents">>, incidentsQuery.key)
  BY PrefixOfKey DEF incidentsQuery, Query
<1>8. IsPrefix(<<"invites">>, invitesQuery.key)
  BY PrefixOfKey DEF invitesQuery, Query
<1>9. IsPrefix(<<"notifications">>, useNotifications.key)
  BY PrefixOfKey DEF useNotifications, Query
<1>10. IsPrefix(<<"notifications">>, useUnreadCount.key)
  BY PrefixOfKey DEF useUnreadCount, Query
<1>11. IsPrefix(<<"organization", "id">>, organizationQuery.key)
  BY PrefixOfKey DEF organizationQuery, Query
<1>12. IsPrefix(<<"organization-teams", "id">>, teamsQuery.key)
  BY PrefixOfKey DEF teamsQuery, Query
<1>13. IsPrefix(<<"organizations">>, organizationsQuery.key)
  BY PrefixOfKey DEF organizationsQuery, Query
<1>14. IsPrefix(<<"pathTemplates">>, usePathTemplates.key)
  BY PrefixOfKey DEF usePathTemplates, Query
<1>15. IsPrefix(<<"route-group", "id">>, groupQuery.key)
  BY PrefixOfKey DEF groupQuery, Query
<1>16. IsPrefix(<<"route-groups">>, groupsQuery.key)
  BY PrefixOfKey DEF groupsQuery, Query
<1>17. IsPrefix(<<"routes">>, archivedQuery.key)
  BY PrefixOfKey DEF archivedQuery, Query
<1>18. IsPrefix(<<"routes">>, useRoute.key)
  BY PrefixOfKey DEF useRoute, Query
<1>19. IsPrefix(<<"routes">>, useRouteBySlug.key)
  BY PrefixOfKey DEF useRouteBySlug, Query
<1>20. IsPrefix(<<"routes">>, useRouteVersions.key)
  BY PrefixOfKey DEF useRouteVersions, Query
<1>21. IsPrefix(<<"routes">>, useRoutes.key)
  BY PrefixOfKey DEF useRoutes, Query
<1>22. IsPrefix(<<"routes", "id">>, useRoute.key)
  BY PrefixOfKey DEF useRoute, Query
<1>23. IsPrefix(<<"routes", "id">>, useRouteUptime.key)
  BY PrefixOfKey DEF useRouteUptime, Query
<1>24. IsPrefix(<<"routes", "id">>, useRouteVersions.key)
  BY PrefixOfKey DEF useRouteVersions, Query
<1>25. IsPrefix(<<"sessions">>, sessionsQuery.key)
  BY PrefixOfKey DEF sessionsQuery, Query
<1>26. IsPrefix(<<"targets", "id">>, targetsQuery.key)
  BY PrefixOfKey DEF targetsQuery, Query
<1>27. IsPrefix(<<"transforms", "id">>, transformsQuery.key)
  BY PrefixOfKey DEF transformsQuery, Query
<1>28. IsPrefix(<<"users">>, usersQuery.key)
  BY PrefixOfKey DEF usersQuery, Query
<1> QED
  BY <1>1, <1>2, <1>3, <1>4, <1>5, <1>6, <1>7, <1>8, <1>9, <1>10, <1>11, <1>12, <1>13,
     <1>14, <1>15, <1>16, <1>17, <1>18, <1>19, <1>20, <1>21, <1>22, <1>23, <1>24, <1>25,
     <1>26, <1>27, <1>28

-----------------------------------------------------------------------------
(* Page by page: every mutation of the page with every query of the page. *)

LEMMA HeaderRefresh ==
    ASSUME NEW q \in {useRoute, useRouteBySlug, useRouteStats, useRouteUptime, useLogs,
                       useRouteVersions, useProxyOrigin, useApiKeys, useRoutes, useFolders,
                       targetsQuery, transformsQuery}
    PROVE  /\ Refreshes(useDeleteRoute, q) /\ Refreshes(useRouteHealth, q) /\ Refreshes(usePublishRoute, q)
           /\ Refreshes(useDeactivateRoute, q) /\ Refreshes(useDuplicateRoute, q)
<1>1. /\ "Health" \in q.reads => q \in {useRouteBySlug, useRoutes} \/ IsPrefix(<<"routes",
            "id">>, q.key)
      /\ "Route" \in q.reads => IsPrefix(<<"routes">>, q.key)
  BY QueryReads, KeysAbove
<1>2. Refreshes(useDeleteRoute, q)
  BY <1>1 DEF Refreshes, Touches, useDeleteRoute, Mutation, RouteKeys, routesApi
<1>3. Refreshes(useRouteHealth, q)
  BY <1>1 DEF Refreshes, Touches, useRouteHealth, Mutation, routesApi, Overlooked
<1>4. Refreshes(usePublishRoute, q)
  BY <1>1 DEF Refreshes, Touches, usePublishRoute, Mutation, RouteKeys, routesApi
<1>5. Refreshes(useDeactivateRoute, q)
  BY <1>1 DEF Refreshes, Touches, useDeactivateRoute, Mutation, RouteKeys, routesApi
<1>6. Refreshes(useDuplicateRoute, q)
  BY <1>1 DEF Refreshes, Touches, useDuplicateRoute, Mutation, RouteKeys, routesApi
<1> QED
  BY <1>1, <1>2, <1>3, <1>4, <1>5, <1>6

LEMMA RouteTestRefresh ==
    ASSUME NEW q \in {useRoute, useRouteBySlug, useRouteStats, useRouteUptime, useLogs,
                       useRouteVersions, useProxyOrigin}
    PROVE  /\ Refreshes(useTestRoute, q) /\ Refreshes(handleGenerateTestKey, q)
<1>1. /\ "ApiKey" \in q.reads => q \in {useRoute, useRouteBySlug}
      /\ "Log" \in q.reads => q \in {useRouteStats, useLogs}
  BY QueryReads, KeysAbove
<1>2. Refreshes(useTestRoute, q)
  BY <1>1 DEF Refreshes, Touches, useTestRoute, Mutation, routesApi, Overlooked, Careless
<1>3. Refreshes(handleGenerateTestKey, q)
  BY <1>1 DEF Refreshes, Touches, handleGenerateTestKey, Mutation, apiKeysApi, Overlooked,
         Careless
<1> QED
  BY <1>1, <1>2, <1>3

LEMMA RouteKeysRefresh ==
    ASSUME NEW q \in {useRoute, useRouteBySlug, useRouteStats, useRouteUptime, useLogs,
                       useRouteVersions, useProxyOrigin, useApiKeys, useRoutes, useFolders}
    PROVE  /\ Refreshes(useCreateApiKey, q) /\ Refreshes(useRevokeApiKey, q) /\ Refreshes(useDetachApiKey, q)
           /\ Refreshes(useDeleteApiKey, q) /\ Refreshes(useSetApiKeyRoutes, q)
<1>1. "ApiKey" \in q.reads => q \in {useRoute, useRouteBySlug} \/ IsPrefix(<<"apiKeys",
            "id">>, q.key)
  BY QueryReads, KeysAbove
<1>2. Refreshes(useCreateApiKey, q)
  BY <1>1 DEF Refreshes, Touches, useCreateApiKey, Mutation, apiKeysApi, Overlooked, KeyMutations
<1>3. Refreshes(useRevokeApiKey, q)
  BY <1>1 DEF Refreshes, Touches, useRevokeApiKey, Mutation, apiKeysApi, Overlooked, KeyMutations
<1>4. Refreshes(useDetachApiKey, q)
  BY <1>1 DEF Refreshes, Touches, useDetachApiKey, Mutation, apiKeysApi, Overlooked, KeyMutations
<1>5. Refreshes(useDeleteApiKey, q)
  BY <1>1 DEF Refreshes, Touches, useDeleteApiKey, Mutation, apiKeysApi, Overlooked, KeyMutations
<1>6. Refreshes(useSetApiKeyRoutes, q)
  BY <1>1 DEF Refreshes, Touches, useSetApiKeyRoutes, Mutation, apiKeysApi, Overlooked,
         KeyMutations
<1> QED
  BY <1>1, <1>2, <1>3, <1>4, <1>5, <1>6

LEMMA RouteTargetsRefresh ==
    ASSUME NEW q \in {useRoute, useRouteBySlug, useRouteStats, useRouteUptime, useLogs,
                       useRouteVersions, useProxyOrigin, targetsQuery}
    PROVE  /\ Refreshes(createTarget, q) /\ Refreshes(deleteTarget, q) /\ Refreshes(toggleHealth, q)
<1>1. "Target" \in q.reads => IsPrefix(<<"targets", "id">>, q.key)
  BY QueryReads, KeysAbove
<1>2. Refreshes(createTarget, q)
  BY <1>1 DEF Refreshes, Touches, createTarget, Mutation, targetsApi
<1>3. Refreshes(deleteTarget, q)
  BY <1>1 DEF Refreshes, Touches, deleteTarget, Mutation, targetsApi
<1>4. Refreshes(toggleHealth, q)
  BY <1>1 DEF Refreshes, Touches, toggleHealth, Mutation, targetsApi
<1> QED
  BY <1>1, <1>2, <1>3, <1>4

LEMMA RouteTransformsRefresh ==
    ASSUME NEW q \in {useRoute, useRouteBySlug, useRouteStats, useRouteUptime, useLogs,
                       useRouteVersions, useProxyOrigin, transformsQuery}
    PROVE  /\ Refreshes(createTransform, q) /\ Refreshes(deleteTransform, q) /\ Refreshes(toggleActive, q)
<1>1. "Transform" \in q.reads => IsPrefix(<<"transforms", "id">>, q.key)
  BY QueryReads, KeysAbove
<1>2. Refreshes(createTransform, q)
  BY <1>1 DEF Refreshes, Touches, createTransform, Mutation, transformsApi
<1>3. Refreshes(deleteTransform, q)
  BY <1>1 DEF Refreshes, Touches, deleteTransform, Mutation, transformsApi
<1>4. Refreshes(toggleActive, q)
  BY <1>1 DEF Refreshes, Touches, toggleActive, Mutation, transformsApi
<1> QED
  BY <1>1, <1>2, <1>3, <1>4

LEMMA RouteHistoryRefresh ==
    ASSUME NEW q \in {useRoute, useRouteBySlug, useRouteStats, useRouteUptime, useLogs,
                       useRouteVersions, useProxyOrigin}
    PROVE  Refreshes(useRestoreRouteVersion, q)
<1>1. /\ "Route" \in q.reads => q = useRouteBySlug \/ IsPrefix(<<"routes", "id">>, q.key)
      /\ "Version" \in q.reads => IsPrefix(<<"routes", "id">>, q.key)
  BY QueryReads, KeysAbove
<1>2. Refreshes(useRestoreRouteVersion, q)
  BY <1>1 DEF Refreshes, Touches, useRestoreRouteVersion, Mutation, routesApi, Overlooked
<1> QED
  BY <1>1, <1>2

LEMMA RoutesRefresh ==
    ASSUME NEW q \in {organizationsQuery, groupChoicesQuery, useFolders, useRoutes,
                       useProxyOrigin}
    PROVE  /\ Refreshes(pasteConfigs, q) /\ Refreshes(useBulkDelete, q)
           /\ Refreshes(useAssignRoutesToFolder, q) /\ Refreshes(useRemoveRouteFromFolder, q)
           /\ Refreshes(handleImportFile, q) /\ Refreshes(useBulkPublish, q)
           /\ Refreshes(useBulkDeactivate, q) /\ Refreshes(useBulkUpdate, q) /\ Refreshes(generateGroupKey, q)
           /\ Refreshes(useCreateFolder, q) /\ Refreshes(useUpdateFolder, q) /\ Refreshes(useDeleteFolder, q)
           /\ Refreshes(usePublishRoute, q) /\ Refreshes(useDeactivateRoute, q)
           /\ Refreshes(useDuplicateRoute, q) /\ Refreshes(useDeleteRoute, q)
<1>1. /\ "Folder" \in q.reads => IsPrefix(<<"folders">>, q.key)
      /\ "Route" \in q.reads => IsPrefix(<<"routes">>, q.key)
      /\ q.reads \intersect {"ApiKey", "Version"} = {}
  BY QueryReads, KeysAbove
<1>2. Refreshes(pasteConfigs, q)
  BY <1>1 DEF Refreshes, Touches, pasteConfigs, Mutation, RouteKeys, routesApi
<1>3. Refreshes(useBulkDelete, q)
  BY <1>1 DEF Refreshes, Touches, useBulkDelete, Mutation, RouteKeys, routesApi
<1>4. Refreshes(useAssignRoutesToFolder, q)
  BY <1>1 DEF Refreshes, Touches, useAssignRoutesToFolder, useFolderMutation, Mutation,
         foldersApi
<1>5. Refreshes(useRemoveRouteFromFolder, q)
  BY <1>1 DEF Refreshes, Touches, useRemoveRouteFromFolder, useFolderMutation, Mutation,
         foldersApi
<1>6. Refreshes(handleImportFile, q)
  BY <1>1 DEF Refreshes, Touches, handleImportFile, Mutation, RouteKeys, routesApi
<1>7. Refreshes(useBulkPublish, q)
  BY <1>1 DEF Refreshes, Touches, useBulkPublish, Mutation, RouteKeys, routesApi
<1>8. Refreshes(useBulkDeactivate, q)
  BY <1>1 DEF Refreshes, Touches, useBulkDeactivate, Mutation, RouteKeys, routesApi
<1>9. Refreshes(useBulkUpdate, q)
  BY <1>1 DEF Refreshes, Touches, useBulkUpdate, Mutation, RouteKeys, routesApi
<1>10. Refreshes(generateGroupKey, q)
  BY <1>1 DEF Refreshes, Touches, generateGroupKey, Mutation, apiKeysApi
<1>11. Refreshes(useCreateFolder, q)
  BY <1>1 DEF Refreshes, Touches, useCreateFolder, useFolderMutation, Mutation, foldersApi
<1>12. Refreshes(useUpdateFolder, q)
  BY <1>1 DEF Refreshes, Touches, useUpdateFolder, useFolderMutation, Mutation, foldersApi
<1>13. Refreshes(useDeleteFolder, q)
  BY <1>1 DEF Refreshes, Touches, useDeleteFolder, useFolderMutation, Mutation, foldersApi
<1>14. Refreshes(usePublishRoute, q)
  BY <1>1 DEF Refreshes, Touches, usePublishRoute, Mutation, RouteKeys, routesApi
<1>15. Refreshes(useDeactivateRoute, q)
  BY <1>1 DEF Refreshes, Touches, useDeactivateRoute, Mutation, RouteKeys, routesApi
<1>16. Refreshes(useDuplicateRoute, q)
  BY <1>1 DEF Refreshes, Touches, useDuplicateRoute, Mutation, RouteKeys, routesApi
<1>17. Refreshes(useDeleteRoute, q)
  BY <1>1 DEF Refreshes, Touches, useDeleteRoute, Mutation, RouteKeys, routesApi
<1> QED
  BY <1>1, <1>2, <1>3, <1>4, <1>5, <1>6, <1>7, <1>8, <1>9, <1>10, <1>11, <1>12, <1>13,
     <1>14, <1>15, <1>16, <1>17

LEMMA ArchivedRefresh ==
    ASSUME NEW q \in {archivedQuery}
    PROVE  /\ Refreshes(restoreArchived, q) /\ Refreshes(purgeArchived, q)
<1>1. "Route" \in q.reads => IsPrefix(<<"routes">>, q.key)
  BY QueryReads, KeysAbove
<1>2. Refreshes(restoreArchived, q)
  BY <1>1 DEF Refreshes, Touches, restoreArchived, Mutation, RouteKeys, routesApi
<1>3. Refreshes(purgeArchived, q)
  BY <1>1 DEF Refreshes, Touches, purgeArchived, Mutation, RouteKeys, routesApi
<1> QED
  BY <1>1, <1>2, <1>3

LEMMA NewRouteRefresh ==
    ASSUME NEW q \in {usePathTemplates}
    PROVE  /\ Refreshes(useCreateRoute, q) /\ Refreshes(useCreatePathTemplate, q)
           /\ Refreshes(useDeletePathTemplate, q)
<1>1. /\ "Template" \in q.reads => IsPrefix(<<"pathTemplates">>, q.key)
      /\ q.reads \intersect {"Route", "Version"} = {}
  BY QueryReads, KeysAbove
<1>2. Refreshes(useCreateRoute, q)
  BY <1>1 DEF Refreshes, Touches, useCreateRoute, Mutation, RouteKeys, routesApi
<1>3. Refreshes(useCreatePathTemplate, q)
  BY <1>1 DEF Refreshes, Touches, useCreatePathTemplate, Mutation, pathTemplatesApi
<1>4. Refreshes(useDeletePathTemplate, q)
  BY <1>1 DEF Refreshes, Touches, useDeletePathTemplate, Mutation, pathTemplatesApi
<1> QED
  BY <1>1, <1>2, <1>3, <1>4

LEMMA EditRouteRefresh ==
    ASSUME NEW q \in {useRoute, useRouteBySlug, usePathTemplates}
    PROVE  /\ Refreshes(useUpdateRoute, q) /\ Refreshes(useRequestUpdate, q)
           /\ Refreshes(useCreatePathTemplate, q) /\ Refreshes(useDeletePathTemplate, q)
<1>1. /\ "Route" \in q.reads => IsPrefix(<<"routes">>, q.key)
      /\ "Template" \in q.reads => IsPrefix(<<"pathTemplates">>, q.key)
      /\ q.reads \intersect {"Changes", "Version"} = {}
  BY QueryReads, KeysAbove
<1>2. Refreshes(useUpdateRoute, q)
  BY <1>1 DEF Refreshes, Touches, useUpdateRoute, Putting, Mutation, RouteKeys, routesApi
<1>3. Refreshes(useRequestUpdate, q)
  BY <1>1 DEF Refreshes, Touches, useRequestUpdate, Mutation, routesApi
<1>4. Refreshes(useCreatePathTemplate, q)
  BY <1>1 DEF Refreshes, Touches, useCreatePathTemplate, Mutation, pathTemplatesApi
<1>5. Refreshes(useDeletePathTemplate, q)
  BY <1>1 DEF Refreshes, Touches, useDeletePathTemplate, Mutation, pathTemplatesApi
<1> QED
  BY <1>1, <1>2, <1>3, <1>4, <1>5

LEMMA GroupsRefresh ==
    ASSUME NEW q \in {groupsQuery}
    PROVE  /\ Refreshes(createGroup, q) /\ Refreshes(updateGroup, q) /\ Refreshes(deleteGroup, q)
<1>1. /\ "Group" \in q.reads => IsPrefix(<<"route-groups">>, q.key)
      /\ "Groups" \in q.reads => IsPrefix(<<"route-groups">>, q.key)
      /\ "Route" \notin q.reads
  BY QueryReads, KeysAbove
<1>2. Refreshes(createGroup, q)
  BY <1>1 DEF Refreshes, Touches, createGroup, Mutation, routeGroupsApi
<1>3. Refreshes(updateGroup, q)
  BY <1>1 DEF Refreshes, Touches, updateGroup, Mutation, routeGroupsApi
<1>4. Refreshes(deleteGroup, q)
  BY <1>1 DEF Refreshes, Touches, deleteGroup, Mutation, routeGroupsApi
<1> QED
  BY <1>1, <1>2, <1>3, <1>4

LEMMA GroupRefresh ==
    ASSUME NEW q \in {groupQuery, allRoutesQuery}
    PROVE  /\ Refreshes(updateGroupDetail, q) /\ Refreshes(assignToGroup, q) /\ Refreshes(removeFromGroup, q)
<1>1. /\ "Group" \in q.reads => IsPrefix(<<"route-group", "id">>, q.key)
      /\ "Route" \in q.reads => q = allRoutesQuery \/ IsPrefix(<<"route-group", "id">>, q.key)
  BY QueryReads, KeysAbove
<1>2. Refreshes(updateGroupDetail, q)
  BY <1>1 DEF Refreshes, Touches, updateGroupDetail, Mutation, routeGroupsApi
<1>3. Refreshes(assignToGroup, q)
  BY <1>1 DEF Refreshes, Touches, assignToGroup, Mutation, routeGroupsApi, Overlooked
<1>4. Refreshes(removeFromGroup, q)
  BY <1>1 DEF Refreshes, Touches, removeFromGroup, Mutation, routeGroupsApi, Overlooked
<1> QED
  BY <1>1, <1>2, <1>3, <1>4

LEMMA OrganizationsRefresh ==
    ASSUME NEW q \in {organizationsQuery}
    PROVE  /\ Refreshes(createOrg, q) /\ Refreshes(updateOrg, q) /\ Refreshes(deleteOrg, q)
<1>1. /\ "Org" \in q.reads => IsPrefix(<<"organizations">>, q.key)
      /\ "Orgs" \in q.reads => IsPrefix(<<"organizations">>, q.key)
  BY QueryReads, KeysAbove
<1>2. Refreshes(createOrg, q)
  BY <1>1 DEF Refreshes, Touches, createOrg, Mutation, organizationsApi
<1>3. Refreshes(updateOrg, q)
  BY <1>1 DEF Refreshes, Touches, updateOrg, Mutation, organizationsApi
<1>4. Refreshes(deleteOrg, q)
  BY <1>1 DEF Refreshes, Touches, deleteOrg, Mutation, organizationsApi
<1> QED
  BY <1>1, <1>2, <1>3, <1>4

LEMMA OrgMembersRefresh ==
    ASSUME NEW q \in {organizationQuery, teamsQuery, memberChoicesQuery}
    PROVE  /\ Refreshes(updateOrgDetail, q) /\ Refreshes(addMember, q) /\ Refreshes(updateRole, q)
           /\ Refreshes(removeMember, q)
<1>1. /\ "Member" \in q.reads => IsPrefix(<<"organization", "id">>, q.key)
      /\ "Org" \in q.reads => IsPrefix(<<"organization", "id">>, q.key)
  BY QueryReads, KeysAbove
<1>2. Refreshes(updateOrgDetail, q)
  BY <1>1 DEF Refreshes, Touches, updateOrgDetail, Mutation, organizationsApi
<1>3. Refreshes(addMember, q)
  BY <1>1 DEF Refreshes, Touches, addMember, Mutation, organizationsApi
<1>4. Refreshes(updateRole, q)
  BY <1>1 DEF Refreshes, Touches, updateRole, Mutation, organizationsApi
<1>5. Refreshes(removeMember, q)
  BY <1>1 DEF Refreshes, Touches, removeMember, Mutation, organizationsApi
<1> QED
  BY <1>1, <1>2, <1>3, <1>4, <1>5

LEMMA OrgTeamsRefresh ==
    ASSUME NEW q \in {organizationQuery, teamsQuery, memberChoicesQuery}
    PROVE  /\ Refreshes(updateOrgDetail, q) /\ Refreshes(createTeam, q) /\ Refreshes(updateTeam, q)
           /\ Refreshes(deleteTeam, q) /\ Refreshes(addTeamMember, q) /\ Refreshes(removeTeamMember, q)
<1>1. /\ "Org" \in q.reads => IsPrefix(<<"organization", "id">>, q.key)
      /\ "Team" \in q.reads => q = organizationQuery \/ IsPrefix(<<"organization-teams",
            "id">>, q.key)
  BY QueryReads, KeysAbove
<1>2. Refreshes(updateOrgDetail, q)
  BY <1>1 DEF Refreshes, Touches, updateOrgDetail, Mutation, organizationsApi
<1>3. Refreshes(createTeam, q)
  BY <1>1 DEF Refreshes, Touches, createTeam, Mutation, organizationsApi, Overlooked,
         TeamMutations
<1>4. Refreshes(updateTeam, q)
  BY <1>1 DEF Refreshes, Touches, updateTeam, Mutation, organizationsApi, Overlooked,
         TeamMutations
<1>5. Refreshes(deleteTeam, q)
  BY <1>1 DEF Refreshes, Touches, deleteTeam, Mutation, organizationsApi, Overlooked,
         TeamMutations
<1>6. Refreshes(addTeamMember, q)
  BY <1>1 DEF Refreshes, Touches, addTeamMember, Mutation, organizationsApi, Overlooked,
         TeamMutations
<1>7. Refreshes(removeTeamMember, q)
  BY <1>1 DEF Refreshes, Touches, removeTeamMember, Mutation, organizationsApi, Overlooked,
         TeamMutations
<1> QED
  BY <1>1, <1>2, <1>3, <1>4, <1>5, <1>6, <1>7

LEMMA UsersRefresh ==
    ASSUME NEW q \in {usersQuery, invitesQuery}
    PROVE  /\ Refreshes(revokeUserInvite, q) /\ Refreshes(removeUser, q) /\ Refreshes(bringBackUser, q)
           /\ Refreshes(clearTwoFactor, q) /\ Refreshes(inviteUser, q) /\ Refreshes(editUser, q)
<1>1. /\ "Invite" \in q.reads => IsPrefix(<<"invites">>, q.key)
      /\ "User" \in q.reads => IsPrefix(<<"users">>, q.key)
      /\ "Self" \notin q.reads
  BY QueryReads, KeysAbove
<1>2. Refreshes(revokeUserInvite, q)
  BY <1>1 DEF Refreshes, Touches, revokeUserInvite, Mutation, usersApi
<1>3. Refreshes(removeUser, q)
  BY <1>1 DEF Refreshes, Touches, removeUser, Mutation, usersApi
<1>4. Refreshes(bringBackUser, q)
  BY <1>1 DEF Refreshes, Touches, bringBackUser, Mutation, usersApi
<1>5. Refreshes(clearTwoFactor, q)
  BY <1>1 DEF Refreshes, Touches, clearTwoFactor, Mutation, usersApi
<1>6. Refreshes(inviteUser, q)
  BY <1>1 DEF Refreshes, Touches, inviteUser, Mutation, usersApi
<1>7. Refreshes(editUser, q)
  BY <1>1 DEF Refreshes, Touches, editUser, Mutation, usersApi
<1> QED
  BY <1>1, <1>2, <1>3, <1>4, <1>5, <1>6, <1>7

LEMMA AccountRefresh ==
    ASSUME NEW q \in {useAuth, sessionsQuery, achievementsQuery}
    PROVE  /\ Refreshes(useChangePassword, q) /\ Refreshes(enable2FA, q) /\ Refreshes(disable2FA, q)
           /\ Refreshes(revokeOwnSession, q) /\ Refreshes(revokeOthers, q)
<1>1. /\ "Self" \in q.reads => q = useAuth
      /\ "Session" \in q.reads => IsPrefix(<<"sessions">>, q.key)
  BY QueryReads, KeysAbove
<1>2. Refreshes(useChangePassword, q)
  BY <1>1 DEF Refreshes, Touches, useChangePassword, Clearing, Mutation, authApi
<1>3. Refreshes(enable2FA, q)
  BY <1>1 DEF Refreshes, Touches, enable2FA, Mutation, authApi, Overlooked, Careless
<1>4. Refreshes(disable2FA, q)
  BY <1>1 DEF Refreshes, Touches, disable2FA, Clearing, Mutation, authApi
<1>5. Refreshes(revokeOwnSession, q)
  BY <1>1 DEF Refreshes, Touches, revokeOwnSession, Mutation, authApi
<1>6. Refreshes(revokeOthers, q)
  BY <1>1 DEF Refreshes, Touches, revokeOthers, Mutation, authApi
<1> QED
  BY <1>1, <1>2, <1>3, <1>4, <1>5, <1>6

LEMMA IncidentsRefresh ==
    ASSUME NEW q \in {incidentsQuery}
    PROVE  Refreshes(createIncident, q)
<1>1. "Incidents" \in q.reads => IsPrefix(<<"incidents">>, q.key)
  BY QueryReads, KeysAbove
<1>2. Refreshes(createIncident, q)
  BY <1>1 DEF Refreshes, Touches, createIncident, Mutation, incidentsApi
<1> QED
  BY <1>1, <1>2

LEMMA IncidentRefresh ==
    ASSUME NEW q \in {incidentsQuery, incidentQuery}
    PROVE  /\ Refreshes(updateIncidentStatus, q) /\ Refreshes(addIncidentEvent, q)
           /\ Refreshes(dismissIncident, q) /\ Refreshes(removeIncident, q)
<1>1. /\ "Incident" \in q.reads => IsPrefix(<<"incidents">>, q.key) \/
            IsPrefix(<<"incident">>, q.key)
      /\ "Incident" \in q.reads => q = incidentsQuery \/ IsPrefix(<<"incident">>, q.key)
      /\ "Incidents" \in q.reads => IsPrefix(<<"incidents">>, q.key)
  BY QueryReads, KeysAbove
<1>2. Refreshes(updateIncidentStatus, q)
  BY <1>1 DEF Refreshes, Touches, updateIncidentStatus, Mutation, incidentsApi
<1>3. Refreshes(addIncidentEvent, q)
  BY <1>1 DEF Refreshes, Touches, addIncidentEvent, Mutation, incidentsApi, Overlooked
<1>4. Refreshes(dismissIncident, q)
  BY <1>1 DEF Refreshes, Touches, dismissIncident, Mutation, incidentsApi
<1>5. Refreshes(removeIncident, q)
  BY <1>1 DEF Refreshes, Touches, removeIncident, Mutation, incidentsApi
<1> QED
  BY <1>1, <1>2, <1>3, <1>4, <1>5

LEMMA ChangeRefresh ==
    ASSUME NEW q \in {changesQuery, changeQuery, policyQuery}
    PROVE  /\ Refreshes(approveChange, q) /\ Refreshes(rejectChange, q) /\ Refreshes(deleteChange, q)
<1>1. /\ "Change" \in q.reads => IsPrefix(<<"change-requests">>, q.key) \/
            IsPrefix(<<"change-request">>, q.key)
      /\ "Changes" \in q.reads => IsPrefix(<<"change-requests">>, q.key)
      /\ "Route" \notin q.reads
  BY QueryReads, KeysAbove
<1>2. Refreshes(approveChange, q)
  BY <1>1 DEF Refreshes, Touches, approveChange, Mutation, changeRequestsApi
<1>3. Refreshes(rejectChange, q)
  BY <1>1 DEF Refreshes, Touches, rejectChange, Mutation, changeRequestsApi
<1>4. Refreshes(deleteChange, q)
  BY <1>1 DEF Refreshes, Touches, deleteChange, Mutation, changeRequestsApi
<1> QED
  BY <1>1, <1>2, <1>3, <1>4

LEMMA BackupsRefresh ==
    ASSUME NEW q \in {useBackups}
    PROVE  /\ Refreshes(useDeleteBackup, q) /\ Refreshes(useCreateBackup, q) /\ Refreshes(updateBackup, q)
           /\ Refreshes(useRestoreBackup, q)
<1>1. /\ "Backup" \in q.reads => IsPrefix(<<"backups">>, q.key)
      /\ q.reads \intersect {"Achievement", "ApiKey", "Audit", "BaseUrl", "Change", "Changes",
            "Folder", "Group", "Groups", "Health", "Incident", "Incidents", "Invite", "Log",
            "Member", "Notice", "Org", "Orgs", "Route", "Sanitizer", "Self", "Session",
            "Target", "Team", "Template", "Transform", "User", "Version"} = {}
  BY QueryReads, KeysAbove
<1>2. Refreshes(useDeleteBackup, q)
  BY <1>1 DEF Refreshes, Touches, useDeleteBackup, Mutation, backupsApi
<1>3. Refreshes(useCreateBackup, q)
  BY <1>1 DEF Refreshes, Touches, useCreateBackup, Mutation, backupsApi
<1>4. Refreshes(updateBackup, q)
  BY <1>1 DEF Refreshes, Touches, updateBackup, Mutation, backupsApi
<1>5. Refreshes(useRestoreBackup, q)
  BY <1>1 DEF Refreshes, Touches, useRestoreBackup, Mutation, backupsApi, RestoredKinds
<1> QED
  BY <1>1, <1>2, <1>3, <1>4, <1>5

LEMMA SanitizerRefresh ==
    ASSUME NEW q \in {sanitizerQuery}
    PROVE  Refreshes(updateSanitizer, q)
<1>1. "Sanitizer" \in q.reads => q = sanitizerQuery
  BY QueryReads, KeysAbove
<1>2. Refreshes(updateSanitizer, q)
  BY <1>1 DEF Refreshes, Touches, updateSanitizer, Putting, Mutation, sanitizerApi,
         sanitizerQuery, Query
<1> QED
  BY <1>1, <1>2

LEMMA SettingsRefresh ==
    ASSUME NEW q \in {useRoutes}
    PROVE  /\ Refreshes(savePublicBaseUrl, q) /\ Refreshes(runHealthChecks, q) /\ Refreshes(cleanupLogs, q)
           /\ Refreshes(cleanupHealthChecks, q) /\ Refreshes(cleanupAuditLogs, q)
           /\ Refreshes(importSettings, q)
<1>1. /\ "Health" \in q.reads => q = useRoutes
      /\ "Route" \in q.reads => q = useRoutes
      /\ q.reads \intersect {"Audit", "BaseUrl", "Log", "Version"} = {}
  BY QueryReads, KeysAbove
<1>2. Refreshes(savePublicBaseUrl, q)
  BY <1>1 DEF Refreshes, Touches, savePublicBaseUrl, Mutation, routesApi
<1>3. Refreshes(runHealthChecks, q)
  BY <1>1 DEF Refreshes, Touches, runHealthChecks, Mutation, systemApi, Overlooked, Careless
<1>4. Refreshes(cleanupLogs, q)
  BY <1>1 DEF Refreshes, Touches, cleanupLogs, Mutation, systemApi
<1>5. Refreshes(cleanupHealthChecks, q)
  BY <1>1 DEF Refreshes, Touches, cleanupHealthChecks, Mutation, systemApi, Overlooked, Careless,
         runHealthChecks
<1>6. Refreshes(cleanupAuditLogs, q)
  BY <1>1 DEF Refreshes, Touches, cleanupAuditLogs, Mutation, systemApi
<1>7. Refreshes(importSettings, q)
  BY <1>1 DEF Refreshes, Touches, importSettings, Mutation, routesApi, Overlooked, Careless
<1> QED
  BY <1>1, <1>2, <1>3, <1>4, <1>5, <1>6, <1>7

LEMMA FrameRefresh ==
    ASSUME NEW q \in {useAuth, pinnedQuery, useUnreadCount, useNotifications, breadcrumbQuery,
                       pageTitleQuery}
    PROVE  /\ Refreshes(useLogout, q) /\ Refreshes(useMarkAsRead, q) /\ Refreshes(useMarkAllAsRead, q)
           /\ Refreshes(useDeleteNotification, q)
<1>1. /\ "Notice" \in q.reads => IsPrefix(<<"notifications">>, q.key)
      /\ "Session" \notin q.reads
  BY QueryReads, KeysAbove
<1>2. Refreshes(useLogout, q)
  BY <1>1 DEF Refreshes, Touches, useLogout, Clearing, Mutation, authApi
<1>3. Refreshes(useMarkAsRead, q)
  BY <1>1 DEF Refreshes, Touches, useMarkAsRead, Mutation, notificationsApi
<1>4. Refreshes(useMarkAllAsRead, q)
  BY <1>1 DEF Refreshes, Touches, useMarkAllAsRead, Mutation, notificationsApi
<1>5. Refreshes(useDeleteNotification, q)
  BY <1>1 DEF Refreshes, Touches, useDeleteNotification, Mutation, notificationsApi
<1> QED
  BY <1>1, <1>2, <1>3, <1>4, <1>5

LEMMA DeletedRefresh ==
    ASSUME NEW q \in {organizationsQuery, groupChoicesQuery, useFolders, useRoutes,
                       useProxyOrigin}
    PROVE  Refreshes(useDeleteRoute, q)
<1>1. "Route" \in q.reads => IsPrefix(<<"routes">>, q.key)
  BY QueryReads, KeysAbove
<1>2. Refreshes(useDeleteRoute, q)
  BY <1>1 DEF Refreshes, Touches, useDeleteRoute, Mutation, RouteKeys, routesApi
<1> QED
  BY <1>1, <1>2

LEMMA UpdatedRefresh ==
    ASSUME NEW q \in {useRoute, useRouteBySlug, useRouteStats, useRouteUptime, useLogs,
                       useRouteVersions, useProxyOrigin}
    PROVE  Refreshes(useUpdateRoute, q)
<1>1. /\ "Route" \in q.reads => IsPrefix(<<"routes">>, q.key)
      /\ "Version" \in q.reads => IsPrefix(<<"routes">>, q.key)
  BY QueryReads, KeysAbove
<1>2. Refreshes(useUpdateRoute, q)
  BY <1>1 DEF Refreshes, Touches, useUpdateRoute, Putting, Mutation, RouteKeys, routesApi
<1> QED
  BY <1>1, <1>2

LEMMA RequestedRefresh ==
    ASSUME NEW q \in {changesQuery}
    PROVE  Refreshes(useRequestUpdate, q)
<1>1. "Changes" \in q.reads => IsPrefix(<<"change-requests">>, q.key)
  BY QueryReads, KeysAbove
<1>2. Refreshes(useRequestUpdate, q)
  BY <1>1 DEF Refreshes, Touches, useRequestUpdate, Mutation, routesApi
<1> QED
  BY <1>1, <1>2

-----------------------------------------------------------------------------
(* Screen by screen. *)

\* What holds of the parts of a screen, or of the frame.
Fit(parts) ==
    /\ \A m \in OffersIn(parts) : m.clears \in BOOLEAN
    /\ \A m \in OffersIn(parts), q \in ShowsIn(parts) : Refreshes(m, q)

LEMMA FitWithin ==
    ASSUME NEW parts, NEW Q, NEW M, NEW shown \in Q,
           \A p \in parts : p.shows \subseteq Q /\ p.offers \subseteq M,
           \A m \in M, q \in Q : Refreshes(m, q)
    PROVE  Fit(parts)
<1>1. OffersIn(parts) \subseteq M /\ ShowsIn(parts) \subseteq Q
  BY DEF OffersIn, ShowsIn
<1>2. \A m \in M : m.clears \in BOOLEAN
  BY DEF Refreshes
<1> QED
  BY <1>1, <1>2 DEF Fit

LEMMA FitQuiet ==
    ASSUME NEW parts, \A p \in parts : p.offers = {}
    PROVE  Fit(parts)
  BY DEF Fit, OffersIn

LEMMA ScreensFit == Fit(Frame) /\ \A s \in DOMAIN Screen : Fit(Screen[s])
<1>1. Fit(Frame)
  <2> DEFINE Q == {useAuth, pinnedQuery, useUnreadCount, useNotifications, breadcrumbQuery,
           pageTitleQuery}
  <2> DEFINE M == {useLogout, useMarkAsRead, useMarkAllAsRead, useDeleteNotification}
  <2>1. \A p \in Frame : p.shows \subseteq Q /\ p.offers \subseteq M
    BY DEF Frame, Part, Sidebar, PinnedSection, Header, NotificationBell, Breadcrumbs,
           PageTitle
  <2>2. \A m \in M, q \in Q : Refreshes(m, q)
    BY FrameRefresh
  <2>3. useAuth \in Q
    OBVIOUS
  <2> HIDE DEF Q, M
  <2> QED
    BY <2>1, <2>2, <2>3, FitWithin
<1>2. Fit(Screen.routes)
  <2> DEFINE Q == {organizationsQuery, groupChoicesQuery, useFolders, useRoutes,
           useProxyOrigin}
  <2> DEFINE M == {pasteConfigs, useBulkDelete, useAssignRoutesToFolder,
           useRemoveRouteFromFolder, handleImportFile, useBulkPublish, useBulkDeactivate,
           useBulkUpdate, generateGroupKey, useCreateFolder, useUpdateFolder,
           useDeleteFolder, usePublishRoute, useDeactivateRoute, useDuplicateRoute,
           useDeleteRoute}
  <2>1. \A p \in Screen.routes : p.shows \subseteq Q /\ p.offers \subseteq M
    BY DEF Screen, Part, RoutesPage, RouteShortcuts, FolderMoves, RoutesHeader, BulkToolbar,
           GroupKeyDialog, FolderDialog, RouteTable, RouteRow
  <2>2. \A m \in M, q \in Q : Refreshes(m, q)
    BY RoutesRefresh
  <2>3. organizationsQuery \in Q
    OBVIOUS
  <2> HIDE DEF Q, M
  <2> QED
    BY <2>1, <2>2, <2>3, FitWithin
<1>3. Fit(Screen.archived)
  <2> DEFINE Q == {archivedQuery}
  <2> DEFINE M == {restoreArchived, purgeArchived}
  <2>1. \A p \in Screen.archived : p.shows \subseteq Q /\ p.offers \subseteq M
    BY DEF Screen, Part, ArchivedRoutesPage
  <2>2. \A m \in M, q \in Q : Refreshes(m, q)
    BY ArchivedRefresh
  <2>3. archivedQuery \in Q
    OBVIOUS
  <2> HIDE DEF Q, M
  <2> QED
    BY <2>1, <2>2, <2>3, FitWithin
<1>4. Fit(Screen.newRoute)
  <2> DEFINE Q == {usePathTemplates}
  <2> DEFINE M == {useCreateRoute, useCreatePathTemplate, useDeletePathTemplate}
  <2>1. \A p \in Screen.newRoute : p.shows \subseteq Q /\ p.offers \subseteq M
    BY DEF Screen, Part, NewRoutePage, PathTemplatePicker
  <2>2. \A m \in M, q \in Q : Refreshes(m, q)
    BY NewRouteRefresh
  <2>3. usePathTemplates \in Q
    OBVIOUS
  <2> HIDE DEF Q, M
  <2> QED
    BY <2>1, <2>2, <2>3, FitWithin
<1>5. Fit(Screen.editRoute)
  <2> DEFINE Q == {useRoute, useRouteBySlug, usePathTemplates}
  <2> DEFINE M == {useUpdateRoute, useRequestUpdate, useCreatePathTemplate,
           useDeletePathTemplate}
  <2>1. \A p \in Screen.editRoute : p.shows \subseteq Q /\ p.offers \subseteq M
    BY DEF Screen, Part, EditRoutePage, PathTemplatePicker
  <2>2. \A m \in M, q \in Q : Refreshes(m, q)
    BY EditRouteRefresh
  <2>3. useRoute \in Q
    OBVIOUS
  <2> HIDE DEF Q, M
  <2> QED
    BY <2>1, <2>2, <2>3, FitWithin
<1>6. Fit(Screen.routeOverview)
  <2> DEFINE Q == {useRoute, useRouteBySlug, useRouteStats, useRouteUptime, useLogs,
           useRouteVersions, useProxyOrigin}
  <2> DEFINE M == {useDeleteRoute, useRouteHealth, usePublishRoute, useDeactivateRoute,
           useDuplicateRoute}
  <2>1. \A p \in Screen.routeOverview : p.shows \subseteq Q /\ p.offers \subseteq M
    BY DEF Screen, Part, RouteDetailPage, RouteHeader, OverviewTab
  <2>2. \A m \in M, q \in Q : Refreshes(m, q)
    BY HeaderRefresh
  <2>3. useRoute \in Q
    OBVIOUS
  <2> HIDE DEF Q, M
  <2> QED
    BY <2>1, <2>2, <2>3, FitWithin
<1>7. Fit(Screen.routeTest)
  <2> DEFINE Q == {useRoute, useRouteBySlug, useRouteStats, useRouteUptime, useLogs,
           useRouteVersions, useProxyOrigin}
  <2> DEFINE M == {useDeleteRoute, useRouteHealth, usePublishRoute, useDeactivateRoute,
           useDuplicateRoute, useTestRoute, handleGenerateTestKey}
  <2>1. \A p \in Screen.routeTest : p.shows \subseteq Q /\ p.offers \subseteq M
    BY DEF Screen, Part, RouteDetailPage, RouteHeader, RouteTestPanel
  <2>2. \A m \in M, q \in Q : Refreshes(m, q)
    BY HeaderRefresh, RouteTestRefresh
  <2>3. useRoute \in Q
    OBVIOUS
  <2> HIDE DEF Q, M
  <2> QED
    BY <2>1, <2>2, <2>3, FitWithin
<1>8. Fit(Screen.routeLogs)
  <2> DEFINE Q == {useRoute, useRouteBySlug, useRouteStats, useRouteUptime, useLogs,
           useRouteVersions, useProxyOrigin}
  <2> DEFINE M == {useDeleteRoute, useRouteHealth, usePublishRoute, useDeactivateRoute,
           useDuplicateRoute}
  <2>1. \A p \in Screen.routeLogs : p.shows \subseteq Q /\ p.offers \subseteq M
    BY DEF Screen, Part, RouteDetailPage, RouteHeader, LogsTab
  <2>2. \A m \in M, q \in Q : Refreshes(m, q)
    BY HeaderRefresh
  <2>3. useRoute \in Q
    OBVIOUS
  <2> HIDE DEF Q, M
  <2> QED
    BY <2>1, <2>2, <2>3, FitWithin
<1>9. Fit(Screen.routeKeys)
  <2> DEFINE Q == {useRoute, useRouteBySlug, useRouteStats, useRouteUptime, useLogs,
           useRouteVersions, useProxyOrigin, useApiKeys, useRoutes, useFolders}
  <2> DEFINE M == {useDeleteRoute, useRouteHealth, usePublishRoute, useDeactivateRoute,
           useDuplicateRoute, useCreateApiKey, useRevokeApiKey, useDetachApiKey,
           useDeleteApiKey, useSetApiKeyRoutes}
  <2>1. \A p \in Screen.routeKeys : p.shows \subseteq Q /\ p.offers \subseteq M
    BY DEF Screen, Part, RouteDetailPage, RouteHeader, ApiKeysPanel, ApiKeysList, KeyRoutes,
           CreateKeyDialog, RoutePicker
  <2>2. \A m \in M, q \in Q : Refreshes(m, q)
    BY HeaderRefresh, RouteKeysRefresh
  <2>3. useRoute \in Q
    OBVIOUS
  <2> HIDE DEF Q, M
  <2> QED
    BY <2>1, <2>2, <2>3, FitWithin
<1>10. Fit(Screen.otherRouteKeys)
  BY FitQuiet DEF Screen, Part, OtherRouteKeys
<1>11. Fit(Screen.routeTargets)
  <2> DEFINE Q == {useRoute, useRouteBySlug, useRouteStats, useRouteUptime, useLogs,
           useRouteVersions, useProxyOrigin, targetsQuery}
  <2> DEFINE M == {useDeleteRoute, useRouteHealth, usePublishRoute, useDeactivateRoute,
           useDuplicateRoute, createTarget, deleteTarget, toggleHealth}
  <2>1. \A p \in Screen.routeTargets : p.shows \subseteq Q /\ p.offers \subseteq M
    BY DEF Screen, Part, RouteDetailPage, RouteHeader, TargetsPanel
  <2>2. \A m \in M, q \in Q : Refreshes(m, q)
    BY HeaderRefresh, RouteTargetsRefresh
  <2>3. useRoute \in Q
    OBVIOUS
  <2> HIDE DEF Q, M
  <2> QED
    BY <2>1, <2>2, <2>3, FitWithin
<1>12. Fit(Screen.routeTransforms)
  <2> DEFINE Q == {useRoute, useRouteBySlug, useRouteStats, useRouteUptime, useLogs,
           useRouteVersions, useProxyOrigin, transformsQuery}
  <2> DEFINE M == {useDeleteRoute, useRouteHealth, usePublishRoute, useDeactivateRoute,
           useDuplicateRoute, createTransform, deleteTransform, toggleActive}
  <2>1. \A p \in Screen.routeTransforms : p.shows \subseteq Q /\ p.offers \subseteq M
    BY DEF Screen, Part, RouteDetailPage, RouteHeader, TransformsPanel
  <2>2. \A m \in M, q \in Q : Refreshes(m, q)
    BY HeaderRefresh, RouteTransformsRefresh
  <2>3. useRoute \in Q
    OBVIOUS
  <2> HIDE DEF Q, M
  <2> QED
    BY <2>1, <2>2, <2>3, FitWithin
<1>13. Fit(Screen.routeHistory)
  <2> DEFINE Q == {useRoute, useRouteBySlug, useRouteStats, useRouteUptime, useLogs,
           useRouteVersions, useProxyOrigin}
  <2> DEFINE M == {useDeleteRoute, useRouteHealth, usePublishRoute, useDeactivateRoute,
           useDuplicateRoute, useRestoreRouteVersion}
  <2>1. \A p \in Screen.routeHistory : p.shows \subseteq Q /\ p.offers \subseteq M
    BY DEF Screen, Part, RouteDetailPage, RouteHeader, HistoryTab
  <2>2. \A m \in M, q \in Q : Refreshes(m, q)
    BY HeaderRefresh, RouteHistoryRefresh
  <2>3. useRoute \in Q
    OBVIOUS
  <2> HIDE DEF Q, M
  <2> QED
    BY <2>1, <2>2, <2>3, FitWithin
<1>14. Fit(Screen.groups)
  <2> DEFINE Q == {groupsQuery}
  <2> DEFINE M == {createGroup, updateGroup, deleteGroup}
  <2>1. \A p \in Screen.groups : p.shows \subseteq Q /\ p.offers \subseteq M
    BY DEF Screen, Part, RouteGroupsPage, GroupForm, GroupsTable
  <2>2. \A m \in M, q \in Q : Refreshes(m, q)
    BY GroupsRefresh
  <2>3. groupsQuery \in Q
    OBVIOUS
  <2> HIDE DEF Q, M
  <2> QED
    BY <2>1, <2>2, <2>3, FitWithin
<1>15. Fit(Screen.group)
  <2> DEFINE Q == {groupQuery, allRoutesQuery}
  <2> DEFINE M == {updateGroupDetail, assignToGroup, removeFromGroup}
  <2>1. \A p \in Screen.group : p.shows \subseteq Q /\ p.offers \subseteq M
    BY DEF Screen, Part, RouteGroupDetailPage, GroupDefaults, GroupPolicy, GroupRoutes
  <2>2. \A m \in M, q \in Q : Refreshes(m, q)
    BY GroupRefresh
  <2>3. groupQuery \in Q
    OBVIOUS
  <2> HIDE DEF Q, M
  <2> QED
    BY <2>1, <2>2, <2>3, FitWithin
<1>16. Fit(Screen.otherGroup)
  BY FitQuiet DEF Screen, Part, OtherGroupPage
<1>17. Fit(Screen.organizations)
  <2> DEFINE Q == {organizationsQuery}
  <2> DEFINE M == {createOrg, updateOrg, deleteOrg}
  <2>1. \A p \in Screen.organizations : p.shows \subseteq Q /\ p.offers \subseteq M
    BY DEF Screen, Part, OrganizationsPage, OrganizationForm, OrganizationsGrid
  <2>2. \A m \in M, q \in Q : Refreshes(m, q)
    BY OrganizationsRefresh
  <2>3. organizationsQuery \in Q
    OBVIOUS
  <2> HIDE DEF Q, M
  <2> QED
    BY <2>1, <2>2, <2>3, FitWithin
<1>18. Fit(Screen.orgMembers)
  <2> DEFINE Q == {organizationQuery, teamsQuery, memberChoicesQuery}
  <2> DEFINE M == {updateOrgDetail, addMember, updateRole, removeMember}
  <2>1. \A p \in Screen.orgMembers : p.shows \subseteq Q /\ p.offers \subseteq M
    BY DEF Screen, Part, OrganizationDetailPage, OrganizationPolicy, TargetAllowlistCard,
           MembersTab
  <2>2. \A m \in M, q \in Q : Refreshes(m, q)
    BY OrgMembersRefresh
  <2>3. organizationQuery \in Q
    OBVIOUS
  <2> HIDE DEF Q, M
  <2> QED
    BY <2>1, <2>2, <2>3, FitWithin
<1>19. Fit(Screen.orgTeams)
  <2> DEFINE Q == {organizationQuery, teamsQuery, memberChoicesQuery}
  <2> DEFINE M == {updateOrgDetail, createTeam, updateTeam, deleteTeam, addTeamMember,
           removeTeamMember}
  <2>1. \A p \in Screen.orgTeams : p.shows \subseteq Q /\ p.offers \subseteq M
    BY DEF Screen, Part, OrganizationDetailPage, OrganizationPolicy, TargetAllowlistCard,
           TeamsTab
  <2>2. \A m \in M, q \in Q : Refreshes(m, q)
    BY OrgTeamsRefresh
  <2>3. organizationQuery \in Q
    OBVIOUS
  <2> HIDE DEF Q, M
  <2> QED
    BY <2>1, <2>2, <2>3, FitWithin
<1>20. Fit(Screen.users)
  <2> DEFINE Q == {usersQuery, invitesQuery}
  <2> DEFINE M == {revokeUserInvite, removeUser, bringBackUser, clearTwoFactor, inviteUser,
           editUser}
  <2>1. \A p \in Screen.users : p.shows \subseteq Q /\ p.offers \subseteq M
    BY DEF Screen, Part, UsersPage, PendingInvites, UsersTable, InviteDialog, EditUserDialog
  <2>2. \A m \in M, q \in Q : Refreshes(m, q)
    BY UsersRefresh
  <2>3. usersQuery \in Q
    OBVIOUS
  <2> HIDE DEF Q, M
  <2> QED
    BY <2>1, <2>2, <2>3, FitWithin
<1>21. Fit(Screen.account)
  <2> DEFINE Q == {useAuth, sessionsQuery, achievementsQuery}
  <2> DEFINE M == {useChangePassword, enable2FA, disable2FA, revokeOwnSession, revokeOthers}
  <2>1. \A p \in Screen.account : p.shows \subseteq Q /\ p.offers \subseteq M
    BY DEF Screen, Part, AccountPage, PasswordCard, TwoFactorCard, SessionsCard,
           AchievementsCard
  <2>2. \A m \in M, q \in Q : Refreshes(m, q)
    BY AccountRefresh
  <2>3. useAuth \in Q
    OBVIOUS
  <2> HIDE DEF Q, M
  <2> QED
    BY <2>1, <2>2, <2>3, FitWithin
<1>22. Fit(Screen.incidents)
  <2> DEFINE Q == {incidentsQuery}
  <2> DEFINE M == {createIncident}
  <2>1. \A p \in Screen.incidents : p.shows \subseteq Q /\ p.offers \subseteq M
    BY DEF Screen, Part, IncidentsPage, CreateIncidentDialog
  <2>2. \A m \in M, q \in Q : Refreshes(m, q)
    BY IncidentsRefresh
  <2>3. incidentsQuery \in Q
    OBVIOUS
  <2> HIDE DEF Q, M
  <2> QED
    BY <2>1, <2>2, <2>3, FitWithin
<1>23. Fit(Screen.incident)
  <2> DEFINE Q == {incidentsQuery, incidentQuery}
  <2> DEFINE M == {updateIncidentStatus, addIncidentEvent, dismissIncident, removeIncident}
  <2>1. \A p \in Screen.incident : p.shows \subseteq Q /\ p.offers \subseteq M
    BY DEF Screen, Part, IncidentsPage, IncidentDetailDialog
  <2>2. \A m \in M, q \in Q : Refreshes(m, q)
    BY IncidentRefresh
  <2>3. incidentsQuery \in Q
    OBVIOUS
  <2> HIDE DEF Q, M
  <2> QED
    BY <2>1, <2>2, <2>3, FitWithin
<1>24. Fit(Screen.changes)
  BY FitQuiet DEF Screen, Part, ChangeRequestsPage
<1>25. Fit(Screen.change)
  <2> DEFINE Q == {changesQuery, changeQuery, policyQuery}
  <2> DEFINE M == {approveChange, rejectChange, deleteChange}
  <2>1. \A p \in Screen.change : p.shows \subseteq Q /\ p.offers \subseteq M
    BY DEF Screen, Part, ChangeRequestsPage, ChangeRequestDialog
  <2>2. \A m \in M, q \in Q : Refreshes(m, q)
    BY ChangeRefresh
  <2>3. changesQuery \in Q
    OBVIOUS
  <2> HIDE DEF Q, M
  <2> QED
    BY <2>1, <2>2, <2>3, FitWithin
<1>26. Fit(Screen.backups)
  <2> DEFINE Q == {useBackups}
  <2> DEFINE M == {useDeleteBackup, useCreateBackup, updateBackup, useRestoreBackup}
  <2>1. \A p \in Screen.backups : p.shows \subseteq Q /\ p.offers \subseteq M
    BY DEF Screen, Part, BackupsPage, CreateBackupDialog, EditBackupDialog,
           RestoreBackupDialog
  <2>2. \A m \in M, q \in Q : Refreshes(m, q)
    BY BackupsRefresh
  <2>3. useBackups \in Q
    OBVIOUS
  <2> HIDE DEF Q, M
  <2> QED
    BY <2>1, <2>2, <2>3, FitWithin
<1>27. Fit(Screen.sanitizer)
  <2> DEFINE Q == {sanitizerQuery}
  <2> DEFINE M == {updateSanitizer}
  <2>1. \A p \in Screen.sanitizer : p.shows \subseteq Q /\ p.offers \subseteq M
    BY DEF Screen, Part, SanitizerPage, BuiltInPatterns, CustomPatterns
  <2>2. \A m \in M, q \in Q : Refreshes(m, q)
    BY SanitizerRefresh
  <2>3. sanitizerQuery \in Q
    OBVIOUS
  <2> HIDE DEF Q, M
  <2> QED
    BY <2>1, <2>2, <2>3, FitWithin
<1>28. Fit(Screen.settings)
  <2> DEFINE Q == {useRoutes}
  <2> DEFINE M == {savePublicBaseUrl, runHealthChecks, cleanupLogs, cleanupHealthChecks,
           cleanupAuditLogs, importSettings}
  <2>1. \A p \in Screen.settings : p.shows \subseteq Q /\ p.offers \subseteq M
    BY DEF Screen, Part, SettingsPage, MaintenanceActions, DataManagement
  <2>2. \A m \in M, q \in Q : Refreshes(m, q)
    BY SettingsRefresh
  <2>3. useRoutes \in Q
    OBVIOUS
  <2> HIDE DEF Q, M
  <2> QED
    BY <2>1, <2>2, <2>3, FitWithin
<1>29. Fit(Screen.dashboard)
  BY FitQuiet DEF Screen, Part, DashboardPage, RequestsChart, RecentErrors
<1>30. Fit(Screen.analytics)
  BY FitQuiet DEF Screen, Part, AnalyticsPage, LatencyChart, ErrorRateChart, HeatmapChart,
         SlowestTable, StatusChart
<1>31. Fit(Screen.activity)
  BY FitQuiet DEF Screen, Part, LogsPage
<1>32. Fit(Screen.audit)
  BY FitQuiet DEF Screen, Part, AuditPage
<1>33. Fit(Screen.trafficMap)
  BY FitQuiet DEF Screen, Part, TrafficMapPage
<1>34. DOMAIN Screen = {"routes", "archived", "newRoute", "editRoute", "routeOverview",
                         "routeTest", "routeLogs", "routeKeys", "otherRouteKeys",
                         "routeTargets", "routeTransforms", "routeHistory", "groups", "group",
                         "otherGroup", "organizations", "orgMembers", "orgTeams", "users",
                         "account", "incidents", "incident", "changes", "change", "backups",
                         "sanitizer", "settings", "dashboard", "analytics", "activity",
                         "audit", "trafficMap"}
  BY DEF Screen
<1> QED
  BY <1>1, <1>2, <1>3, <1>4, <1>5, <1>6, <1>7, <1>8, <1>9, <1>10, <1>11, <1>12, <1>13,
     <1>14, <1>15, <1>16, <1>17, <1>18, <1>19, <1>20, <1>21, <1>22, <1>23, <1>24, <1>25,
     <1>26, <1>27, <1>28, <1>29, <1>30, <1>31, <1>32, <1>33, <1>34

\* The page a mutation is sent from, the frame, and the page it leads to.
LEMMA BesideRefresh ==
    ASSUME NEW s \in DOMAIN Screen, NEW m \in Offers(s), NEW q \in Beside(m, s)
    PROVE  Refreshes(m, q)
<1>1. CASE \E parts \in {Screen[s], Frame} : m \in OffersIn(parts) /\ q \in ShowsIn(parts)
  BY <1>1, ScreensFit DEF Fit
<1>2. CASE \E t \in DOMAIN Screen : <<s, m, t>> \in Moves /\ q \in ShowsIn(Screen[t])
  <2>1. PICK t \in DOMAIN Screen : <<s, m, t>> \in Moves /\ q \in ShowsIn(Screen[t])
    BY <1>2
  <2>2. PICK p \in Screen[t] : q \in p.shows
    BY <2>1 DEF ShowsIn
  <2>3. \/ m = useUpdateRoute /\ t = "routeOverview"
        \/ m = useRequestUpdate /\ t = "changes"
        \/ m = useDeleteRoute /\ t = "routes"
    BY <2>1 DEF Moves
  <2>4. CASE m = useUpdateRoute /\ t = "routeOverview"
    <3>1. q \in {useRoute, useRouteBySlug, useRouteStats, useRouteUptime, useLogs,
            useRouteVersions, useProxyOrigin}
      BY <2>2, <2>4 DEF Screen, Part, RouteDetailPage, RouteHeader, OverviewTab
    <3> QED
      BY <2>4, <3>1, UpdatedRefresh
  <2>5. CASE m = useRequestUpdate /\ t = "changes"
    <3>1. q \in {changesQuery}
      BY <2>2, <2>5 DEF Screen, Part, ChangeRequestsPage
    <3> QED
      BY <2>5, <3>1, RequestedRefresh
  <2>6. CASE m = useDeleteRoute /\ t = "routes"
    <3>1. q \in {organizationsQuery, groupChoicesQuery, useFolders, useRoutes, useProxyOrigin}
      BY <2>2, <2>6 DEF Screen, Part, RoutesPage, RouteShortcuts, FolderMoves, RoutesHeader, BulkToolbar,
             GroupKeyDialog, FolderDialog, RouteTable, RouteRow
    <3> QED
      BY <2>6, <3>1, DeletedRefresh
  <2> QED
    BY <2>3, <2>4, <2>5, <2>6
<1>3. CASE q \in AroundControl(m, s)
  <2>1. PICK parts \in {p \in {Screen[s], Frame} : m \in OffersIn(p)} : q \in ShowsIn(parts)
    BY <1>3 DEF AroundControl
  <2> QED
    BY <1>1, <2>1
<1>4. CASE q \in OnNextPage(m, s)
  <2>1. PICK t \in {u \in DOMAIN Screen : <<s, m, u>> \in Moves} : q \in ShowsIn(Screen[t])
    BY <1>4 DEF OnNextPage
  <2> QED
    BY <1>2, <2>1
<1>5. q \in AroundControl(m, s) \/ q \in OnNextPage(m, s)
  BY DEF Beside
<1> QED
  BY <1>3, <1>4, <1>5

\* Whatever query a behaviour follows, its views are made of mutations that refresh it where
\* the user expects it.
LEMMA SubjectsRefreshed ==
    ASSUME NEW x \in Subjects, NEW v \in x.views, NEW f \in v.effects
    PROVE  Refreshing(f) /\ f \in Effects
<1>1. PICK q \in Queries : x = [key |-> q.key, views |-> {View(q, s) : s \in DOMAIN Screen}]
  BY DEF Subjects
<1>2. PICK s \in DOMAIN Screen : v = View(q, s)
  BY <1>1
<1>3. PICK m \in Offers(s) : m.writes \intersect q.reads # {} /\ f = Effect(m, q, s)
  BY <1>2 DEF View
<1>4. m.clears \in BOOLEAN
  BY ScreensFit DEF Offers, OffersIn, Fit
<1>5. q \in Beside(m, s) => Refreshes(m, q)
  BY BesideRefresh
<1>6. f.expected => Touches(m, q)
  BY <1>3, <1>5 DEF Refreshes, Effect
<1> QED
  BY <1>3, <1>4, <1>6 DEF Touches, Refreshing, Effect, Effects

-----------------------------------------------------------------------------
(* Types of what the tab keeps *)

Sending == [stage : {"none", "sent", "done"}, effect : Effects, at : 0..MaxWrites]

ConsoleTyped == sent \in Sending /\ \A v \in subject.views : v.effects \subseteq Effects

LEMMA NoMutationTyped == Nothing \in Sending
  BY WritesInRange DEF Nothing, NoEffect, Sending, Effects

LEMMA ConsoleInitTyped == ConsoleInit => Refreshed /\ ConsoleTyped
  BY SubjectsRefreshed, NoMutationTyped DEF ConsoleInit, Refreshed, ConsoleTyped

LEMMA ConsoleStepTyped ==
    ASSUME ConsoleInv, ConsoleTyped, [ConsoleNext]_consoleVars
    PROVE  ConsoleTyped'
<1>0. subject' = subject
  BY DEF consoleVars, ConsoleNext, Navigate, Serve, Receive, FetchFails, Refetch, Collect, Submit,
     Commit, MutationFails, MutationSucceeds, OtherWrite, ReloadTab
<1>1. CASE UNCHANGED sent \/ sent' = Nothing
  BY <1>0, <1>1, NoMutationTyped DEF ConsoleTyped
<1>2. CASE Submit
  <2>1. PICK f \in view.effects : sent' = [Nothing EXCEPT !.stage = "sent", !.effect = f]
    BY <1>2 DEF Submit
  <2>2. f \in Effects
    BY <2>1 DEF ConsoleInv, ConsoleTyped, SignedOut
  <2>3. sent' \in Sending
    BY <2>1, <2>2, NoMutationTyped DEF Sending
  <2> QED
    BY <1>0, <2>3 DEF ConsoleTyped
<1>3. CASE Commit
  <2>1. sent' = [sent EXCEPT !.stage = "done", !.at = writes + 1] /\ writes + 1 \in 0..MaxWrites
    BY <1>3, MaxWritesAssumption DEF Commit, ConsoleInv
  <2>2. sent' \in Sending
    BY <2>1 DEF ConsoleTyped, Sending
  <2> QED
    BY <1>0, <2>2 DEF ConsoleTyped
<1> QED
  BY <1>1, <1>2, <1>3 DEF consoleVars, ConsoleNext, Navigate, Serve, Receive, FetchFails, Refetch, Collect,
     MutationFails, MutationSucceeds, OtherWrite, ReloadTab

LEMMA ConsoleInvariance == ConsoleSpec => [](ConsoleInv /\ ConsoleTyped)
<1>1. ConsoleInit => ConsoleInv /\ ConsoleTyped
  BY ConsoleInitGood, ConsoleInitTyped
<1>2. ConsoleInv /\ ConsoleTyped /\ [ConsoleNext]_consoleVars => ConsoleInv' /\ ConsoleTyped'
  BY ConsoleStepGood, ConsoleStepTyped
<1> QED
  BY <1>1, <1>2, PTL DEF ConsoleSpec

\* The screen that is shown, the entry, its fetch and the mutation under way keep their types,
\* whatever query the tab follows.
THEOREM ConsoleTypes == ConsoleSpec => []ConsoleTypeOK
<1>1. ConsoleInv /\ ConsoleTyped => ConsoleTypeOK
  BY DEF ConsoleInv, ConsoleTyped, ConsoleTypeOK, Sending, Effects
<1> QED
  BY <1>1, ConsoleInvariance, PTL

\* Where the user sees what a page shows, and the page he is taken to, he never takes data from
\* before his own change for current, whatever query he looks at, for any number of writes,
\* mutations and fetches: a late answer, a fetch that fails or one that starts again does not
\* undo what onSuccess did to the entry. The exceptions are those of the property: what the
\* pages overlook, and a first load or a fetch that onSuccess leaves running.
THEOREM OwnWritesAreRead == ConsoleSpec => []ReadYourWrites
<1>1. ConsoleInv => ReadYourWrites
  BY DEF ConsoleInv, ReadYourWrites, NewEnough
<1> QED
  BY <1>1, ConsoleInvariance, PTL

-----------------------------------------------------------------------------
(***************************************************************************)
(* The parts side by side. What TLC explores is a behaviour of every part  *)
(* (at most one of them moves), so that each theorem about a part is one   *)
(* about the composition too.                                              *)
(***************************************************************************)

LEMMA PartSteps ==
  ASSUME [MCNext]_mcVars
  PROVE  /\ [IncidentsNext]_incidentVars /\ [NoticesNext]_noticeVars /\ [BackupsNext]_backupVars
         /\ [UpdatesNext]_updateVars /\ [CatalogNext]_catalogVars /\ [ConsoleNext]_consoleVars
  BY DEF MCNext, mcVars

\* Every behaviour that a run of MCOperations explores is a behaviour of incidents,
\* notifications, backups, updates, the catalog and the console.
THEOREM PartsAreRespected ==
  MCSpec => IncidentsSpec /\ NoticesSpec /\ BackupsSpec /\ UpdatesSpec /\ CatalogSpec /\ ConsoleSpec
<1>1. MCInit => IncidentsInit /\ NoticesInit /\ BackupsInit /\ UpdatesInit /\ CatalogInit /\ ConsoleInit
  BY DEF MCInit
<1> QED
  BY <1>1, PartSteps, PTL
  DEF MCSpec, IncidentsSpec, NoticesSpec, BackupsSpec, UpdatesSpec, CatalogSpec, ConsoleSpec

\* Rows, tasks, reports, replicas, requests and the cache keep their types side by side; above
\* all, pullAndRestart never names a tag in a deployment that its check did not find.
THEOREM OperationsTypes == MCSpec => []OperationsTypesOK
  BY PartsAreRespected, IncidentsTypes, NoticesTypeCorrect, BackupsTypes, UpdatesTypes,
     CatalogTypes, ConsoleTypes, PTL DEF OperationsTypesOK
=============================================================================
