------------------------------- MODULE Backups -------------------------------
(***************************************************************************)
(* Backups of the database inside the database (services/backupService.ts, *)
(* routes/backup.router.ts, the backup job of cron/jobs.ts).               *)
(*                                                                         *)
(* The export reads table after table while requests change them.  A       *)
(* restore is one transaction that empties the tables of the list and      *)
(* inserts what the backup has, so that a row whose parent is missing      *)
(* undoes all of it.  Of the tables the model has the routes of an         *)
(* organization and their keys, which are on the list, and the folders,    *)
(* which are not.                                                          *)
(***************************************************************************)
EXTENDS Naturals, FiniteSets, SequencesExt

CONSTANTS
  BkRoute,      \* routes
  BkKey,        \* API keys
  BkBackup,     \* the backups a behaviour may create: a bound
  MaxBackups,   \* BACKUP_RETENTION_COUNT
  None

\* Where a route is: no row, no folder, a folder of the organization, a global folder.
Place == {"absent", "loose", "team", "global"}

VARIABLES
  routes,       \* the rows of Route
  keys,         \* the rows of ApiKey: the owning route
  folders,      \* the folders that exist: the organization's and the global one
  backups,      \* the rows of Backup
  newest,       \* their order of creation, oldest first
  export,       \* an export under way: the tables still to read, and what was read
  stale         \* a retention run under way: the backups it is going to delete

backupVars == <<routes, keys, folders, backups, newest, export, stale>>

\* The models that are exported, parents before children.
ChildrenFirst == <<"apiKey", "route">>
BACKUP_MODELS == <<"route", "apiKey">>

Data == [route: [BkRoute -> Place], apiKey: [BkKey -> BkRoute \cup {None}]]

\* A backup: its data, and whether rows were created while it was exported.
Backup == [data: Data, torn: BOOLEAN]

Tables == [route |-> routes, apiKey |-> keys]

Empty == [route |-> [r \in BkRoute |-> "absent"], apiKey |-> [k \in BkKey |-> None]]

NoExport == [left |-> <<>>, data |-> Empty, torn |-> FALSE]

BackupsInit ==
  /\ routes = [r \in BkRoute |-> "absent"]
  /\ keys = [k \in BkKey |-> None]
  /\ folders = {"team", "global"}
  /\ backups = [b \in BkBackup |-> None]
  /\ newest = <<>>
  /\ export = NoExport /\ stale = {}

Reading == export.left # <<>>

-----------------------------------------------------------------------------
(* Requests that change the tables *)

\* Routes are created, moved into folders and deleted (with their keys).
PutRoute(r, p) ==
  /\ p \in {"team", "global"} => p \in folders
  /\ p # "absent"
  /\ routes' = [routes EXCEPT ![r] = p]
  /\ export' = IF Reading /\ routes[r] = "absent" THEN [export EXCEPT !.torn = TRUE] ELSE export
  /\ UNCHANGED <<keys, folders, backups, newest, stale>>

DropRoute(r) ==
  /\ routes' = [routes EXCEPT ![r] = "absent"]
  /\ keys' = [k \in BkKey |-> IF keys[k] = r THEN None ELSE keys[k]]
  /\ UNCHANGED <<folders, backups, newest, export, stale>>

\* A key of a route is created.
PutKey(k, r) ==
  /\ routes[r] # "absent" /\ keys[k] = None
  /\ keys' = [keys EXCEPT ![k] = r]
  /\ UNCHANGED <<routes, folders, backups, newest, export, stale>>

\* A folder is deleted: its routes stay, outside of it.
DropFolder(f) ==
  /\ folders' = folders \ {f}
  /\ routes' = [r \in BkRoute |-> IF routes[r] = f THEN "loose" ELSE routes[r]]
  /\ UNCHANGED <<keys, backups, newest, export, stale>>

-----------------------------------------------------------------------------
(* Backups *)

\* createBackup begins: POST /backups, or the job of a replica.
createBackup ==
  /\ ~Reading
  /\ export' = [NoExport EXCEPT !.left = BACKUP_MODELS]
  /\ UNCHANGED <<routes, keys, folders, backups, newest, stale>>

\* The next table is read.
ReadTable ==
  /\ Len(export.left) > 1
  /\ export' = [export EXCEPT !.left = Tail(@), !.data[Head(export.left)] = Tables[Head(export.left)]]
  /\ UNCHANGED <<routes, keys, folders, backups, newest, stale>>

\* The last table is read, and the backup is stored.
StoreBackup(b) ==
  /\ Len(export.left) = 1
  /\ backups[b] = None /\ ~Contains(newest, b)
  /\ backups' = [backups EXCEPT ![b] =
       [data |-> [export.data EXCEPT ![Head(export.left)] = Tables[Head(export.left)]], torn |-> export.torn]]
  /\ newest' = Append(newest, b)
  /\ export' = NoExport
  /\ UNCHANGED <<routes, keys, folders, stale>>

\* A read fails, or another replica has stored a backup under the name of this second.
ExportFails ==
  /\ Reading
  /\ export' = NoExport
  /\ UNCHANGED <<routes, keys, folders, backups, newest, stale>>

\* listBackups sorts by the time of creation, the newest first: those there are before b.
Newer(b) ==
  {c \in BkBackup : backups[c] # None /\
     \E i, j \in DOMAIN newest : i < j /\ newest[i] = b /\ newest[j] = c}

\* enforceRetentionPolicy lists the backups and keeps the first of them.
enforceRetentionPolicy ==
  /\ stale = {}
  /\ stale' = {b \in BkBackup : backups[b] # None /\ Cardinality(Newer(b)) >= MaxBackups}
  /\ UNCHANGED <<routes, keys, folders, backups, newest, export>>

\* deleteBackup, of the retention run or of DELETE /backups/:filename.
deleteBackup(b) ==
  /\ backups[b] # None \/ b \in stale
  /\ backups' = [backups EXCEPT ![b] = None]
  /\ stale' = stale \ {b}
  /\ UNCHANGED <<routes, keys, folders, newest, export>>

\* The folders that are left when restoreBackup has emptied the tables of the list: the
\* organization, deleted as well, took its folder along.
FoldersAfterDelete == folders \ {"team"}

\* Whether the rows of table m can be inserted when the tables of `done` are in.
Inserts(m, data, done) ==
  IF m = "route"
  THEN \A r \in BkRoute : data.route[r] \in {"absent", "loose"} \cup FoldersAfterDelete
  ELSE \A k \in BkKey : data.apiKey[k] # None =>
         "route" \in done /\ data.route[data.apiKey[k]] # "absent"

\* createMany table after table; the first that fails undoes the transaction.
Restorable(data) ==
  \A n \in 1..Len(BACKUP_MODELS) :
    Inserts(BACKUP_MODELS[n], data, {BACKUP_MODELS[j] : j \in 1..(n - 1)})

\* restoreBackup: one transaction.
restoreBackup(b) ==
  /\ backups[b] # None
  /\ IF Restorable(backups[b].data)
     THEN /\ routes' = backups[b].data.route
          /\ keys' = backups[b].data.apiKey
          /\ folders' = FoldersAfterDelete
     ELSE UNCHANGED <<routes, keys, folders>>
  /\ export' = IF Reading THEN [export EXCEPT !.torn = TRUE] ELSE export
  /\ UNCHANGED <<backups, newest, stale>>

BackupsNext ==
  \/ \E r \in BkRoute : DropRoute(r) \/ \E p \in Place : PutRoute(r, p)
  \/ \E k \in BkKey : \E r \in BkRoute : PutKey(k, r)
  \/ \E f \in {"team", "global"} : DropFolder(f)
  \/ createBackup \/ ReadTable \/ ExportFails \/ enforceRetentionPolicy
  \/ \E b \in BkBackup : StoreBackup(b) \/ deleteBackup(b) \/ restoreBackup(b)

BackupsSpec == BackupsInit /\ [][BackupsNext]_backupVars

-----------------------------------------------------------------------------
(* Properties *)

BackupsTypeOK ==
  /\ Tables \in Data
  /\ folders \subseteq {"team", "global"}
  /\ backups \in [BkBackup -> Backup \cup {None}]
  /\ newest \in Seq(BkBackup)
  /\ export.data \in Data /\ export.torn \in BOOLEAN
  /\ stale \subseteq BkBackup

\* "Clears all tables and re-inserts data in dependency order": a backup can be restored
\* whenever no row was created while it was exported and none of its routes was in a folder.
\* The list of models has no folders: a route that was in a folder of its organization
\* refers to a row that the restore itself has removed, and the restore fails.
RestoreGivesBack ==
  \A b \in BkBackup :
    backups[b] # None /\ ~backups[b].torn /\ (\A r \in BkRoute : backups[b].data.route[r] \in {"absent", "loose"})
      => Restorable(backups[b].data)
=============================================================================
