---------------------------- MODULE MCOperations ----------------------------
(***************************************************************************)
(* Operations for TLC: the modules Incidents, Notices, Backups, Updates,   *)
(* Catalog and Console side by side.  They share no state, so a behaviour  *)
(* is that of one of them, which `part' names.                             *)
(***************************************************************************)
EXTENDS Incidents, Notices, Backups, Updates, Catalog, Console, TLC

VARIABLE part

Parts == {"incidents", "notices", "backups", "updates", "catalog", "console"}

mcVars == <<part, incidentVars, noticeVars, backupVars, updateVars, catalogVars, consoleVars>>

\* The parts that do not move start in one state.
MCInit ==
    /\ part \in Parts
    /\ IncidentsInit /\ NoticesInit /\ BackupsInit /\ UpdatesInit /\ CatalogInit /\ ConsoleInit
    /\ part # "notices" => kind = "route.error"
    /\ part # "console" => subject.key = useAuth.key

MCNext ==
    /\ UNCHANGED part
    /\ \/ part = "incidents" /\ IncidentsNext
              /\ UNCHANGED <<noticeVars, backupVars, updateVars, catalogVars, consoleVars>>
       \/ part = "notices" /\ NoticesNext
              /\ UNCHANGED <<incidentVars, backupVars, updateVars, catalogVars, consoleVars>>
       \/ part = "backups" /\ BackupsNext
              /\ UNCHANGED <<incidentVars, noticeVars, updateVars, catalogVars, consoleVars>>
       \/ part = "updates" /\ UpdatesNext
              /\ UNCHANGED <<incidentVars, noticeVars, backupVars, catalogVars, consoleVars>>
       \/ part = "catalog" /\ CatalogNext
              /\ UNCHANGED <<incidentVars, noticeVars, backupVars, updateVars, consoleVars>>
       \/ part = "console" /\ ConsoleNext
              /\ UNCHANGED <<incidentVars, noticeVars, backupVars, updateVars, catalogVars>>

MCSpec == MCInit /\ [][MCNext]_mcVars

\* Tasks, requests, reports and replicas are alike, and so are the rows.
MCSymmetry == Permutations(WatchTask) \cup Permutations(Incident)

\* The rows, tasks and caches keep their types; above all, pullAndRestart never names a tag in
\* a deployment that its check did not find.
OperationsTypesOK ==
    /\ IncidentsTypeOK /\ NoticesTypeOK /\ BackupsTypeOK
    /\ UpdatesTypeOK /\ CatalogTypeOK /\ ConsoleTypeOK

=============================================================================
