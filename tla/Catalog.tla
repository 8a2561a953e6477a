------------------------------- MODULE Catalog -------------------------------
(***************************************************************************)
(* The life of routes (services/routeService.ts, routes/routes.router.ts): *)
(* creating, updating, publishing, archiving, restoring and duplicating    *)
(* them, one by one and in bulk, with the versions that are kept of them.  *)
(*                                                                         *)
(* A route that is archived keeps its row; a tag on its public path frees  *)
(* the path for other routes.  A request reads the row in one statement    *)
(* and writes it in another, and requests interleave.  Of the columns the  *)
(* model has the public path, isActive and the version; a slug is treated  *)
(* like the path, except that only pickRouteSlug and not the request's     *)
(* sender chooses it, and is left to the choice whether a request fails.   *)
(***************************************************************************)
EXTENDS Naturals, FiniteSets

CONSTANTS
  CatRoute,     \* the ids of the routes a behaviour may create: a bound
  Path,         \* public paths that clients ask for
  CatTask,      \* the requests that may be under way at the same time: a bound
  LastVersion,  \* the last version a route may reach: a bound
  MaxRequests,  \* the requests a behaviour may have: a bound
  NoRoute

ASSUME CatalogAssumption ==
  LastVersion \in Nat \ {0} /\ MaxRequests \in Nat /\ Path # {} /\ NoRoute \notin CatRoute

\* A public path: what was asked for, the suffix the server added, and the tag of the archive.
PublicPath == [base: Path, suffix: {"", "-copy", "-restored"}, tagged: BOOLEAN]

Plain(p) == [base |-> p, suffix |-> "", tagged |-> FALSE]

RouteState == {"unused", "live", "archived", "gone"}

\* A row of RouteVersion: its number, and the columns of its snapshot.
Snapshot == [version: 1..LastVersion, path: PublicPath, active: BOOLEAN, state: {"live", "archived"}]

CatalogRow == [state: RouteState, path: PublicPath, active: BOOLEAN, version: 1..LastVersion,
             versions: SUBSET Snapshot]

Unused == [state |-> "unused", path |-> Plain(CHOOSE p \in Path : TRUE), active |-> FALSE, version |-> 1,
           versions |-> {}]

\* The steps of a request, after its first read.
CatStep == {"idle", "free", "tag", "create", "update", "save", "archive", "bulk", "restore", "unarchive",
            "remove", "switch", "copy"}

\* A request: its next step, its route, the path and isActive it writes, whether it changes
\* anything, the row it is about to tag, the version it read or saves, and which columns it writes.
CatRequest == [step: CatStep, id: CatRoute \cup {NoRoute}, path: PublicPath, active: BOOLEAN,
               changes: BOOLEAN, stale: CatRoute \cup {NoRoute}, snapshot: Snapshot, writes: {"fields", "path", "all"}]

FirstVersion(path) == [version |-> 1, path |-> path, active |-> FALSE, state |-> "live"]

NoRequest == [step |-> "idle", id |-> NoRoute, path |-> Unused.path, active |-> FALSE, changes |-> FALSE,
              stale |-> NoRoute, snapshot |-> FirstVersion(Unused.path),
              writes |-> "path"]

VARIABLES
  catalog,      \* the rows of Route, with their versions
  request,      \* the requests
  requests,     \* how many requests there were
  \* History, read by the properties only
  raced,        \* a route came back while a request was about to tag its archived path
  unrecorded    \* routes without a first version, or with a version that was not saved

catalogVars == <<catalog, request, requests, raced, unrecorded>>

CatalogInit ==
  /\ catalog = [r \in CatRoute |-> Unused]
  /\ request = [t \in CatTask |-> NoRequest]
  /\ requests = 0
  /\ raced = FALSE /\ unrecorded = {}

-----------------------------------------------------------------------------
(* Helpers *)

Live(r) == catalog[r].state = "live"

Archived(r) == catalog[r].state = "archived"

Row(r) == Live(r) \/ Archived(r)

\* The unique index on publicPath, archived rows included (a tag holds the id of its route).
Claims(r, path) == Row(r) /\ catalog[r].path = path /\ ~path.tagged

Taken(path, r) == \E o \in CatRoute \ {r} : Claims(o, path)

\* mangleForArchive and unmangleArchive.
KeepsTag(path) == path
mangleForArchive(path) == [path EXCEPT !.tagged = TRUE]

unmangleArchive(path) == [path EXCEPT !.tagged = FALSE]

Begins(t, task) ==
  /\ request[t] = NoRequest
  /\ requests < MaxRequests
  /\ request' = [request EXCEPT ![t] = task]
  /\ requests' = requests + 1

Goes(t, task) == request' = [request EXCEPT ![t] = task] /\ UNCHANGED requests

Answers(t) == Goes(t, NoRequest)

OnlyReads == UNCHANGED <<catalog, raced, unrecorded>>

\* A route comes back while another request is about to tag its archived path.
ComesBack(t, r) ==
  raced' = (raced \/ \E u \in CatTask \ {t} : request[u].step = "tag" /\ request[u].stale = r)

-----------------------------------------------------------------------------
(* Creating and updating *)

\* createRoute: the target is checked, and the path is looked for in the archive.
createRoute(t, p) ==
  /\ Begins(t, [NoRequest EXCEPT !.step = "free", !.path = Plain(p), !.changes = TRUE])
  /\ OnlyReads

\* What updateRoute keeps of the row it read.
Reads(r) == [NoRequest EXCEPT !.id = r, !.path = catalog[r].path, !.snapshot.version = catalog[r].version]

\* updateRoute reads the live row; the body may change the path, something else, or nothing.
updateRoute(t, r) ==
  /\ Live(r)
  /\ \/ \E p \in Path :
          /\ Plain(p) # catalog[r].path
          /\ Begins(t, [Reads(r) EXCEPT !.step = "free", !.path = Plain(p), !.changes = TRUE])
     \/ \E changes \in BOOLEAN, columns \in {"fields", "path"} :
          Begins(t, [Reads(r) EXCEPT !.step = "update", !.changes = changes, !.writes = columns])
  /\ OnlyReads

\* restoreRouteVersion: updateRoute with all columns of a snapshot, deletedAt and isActive too
\* (the snapshot of an update that overlapped the archiving of its route is archived).
restoreRouteVersion(t, r, s) ==
  /\ Live(r) /\ s \in catalog[r].versions
  /\ \E differs \in {d \in BOOLEAN : <<s.path, s.active>> # <<catalog[r].path, catalog[r].active>> => d} :
       Begins(t, [Reads(r) EXCEPT !.step = IF s.path = catalog[r].path THEN "update" ELSE "free",
                                  !.path = s.path, !.active = s.active, !.snapshot.state = s.state,
                                  !.writes = "all", !.changes = differs])
  /\ OnlyReads

Write(task) == IF task.id = NoRoute THEN "create" ELSE "update"

\* freeSoftDeletedPublicPath looks for an archived row that has the path without a tag.
LookForStale(t) ==
  LET task == request[t]
      holders == {r \in CatRoute : Archived(r) /\ catalog[r].path = task.path} IN
  /\ task.step = "free"
  /\ \/ \E r \in holders : Goes(t, [task EXCEPT !.step = "tag", !.stale = r])
     \/ holders = {} /\ Goes(t, [task EXCEPT !.step = Write(task)])
  /\ OnlyReads

\* It tags the path of the row it found, whatever has become of the row.
freeSoftDeletedPublicPath(t) ==
  LET task == request[t] IN
  /\ task.step = "tag"
  /\ IF Row(task.stale)
     THEN /\ catalog' = [catalog EXCEPT ![task.stale].path = mangleForArchive(task.path)]
          /\ Goes(t, [task EXCEPT !.step = Write(task), !.stale = NoRoute])
     ELSE Answers(t) /\ UNCHANGED catalog
  /\ UNCHANGED <<raced, unrecorded>>

\* The insert of createRoute and of duplicateRoute; the index refuses a path that is taken.
CreateRow(t, r) ==
  LET task == request[t] IN
  /\ task.step \in {"create", "copy"}
  /\ catalog[r].state = "unused"
  /\ IF Taken(task.path, r)
     THEN Answers(t) /\ UNCHANGED <<catalog, unrecorded>>
     ELSE /\ catalog' = [catalog EXCEPT ![r] = [@ EXCEPT !.state = "live", !.path = task.path]]
          /\ IF task.step = "create"
             THEN /\ Goes(t, [task EXCEPT !.step = "save", !.id = r,
                                          !.snapshot = FirstVersion(task.path)])
                  /\ UNCHANGED unrecorded
             ELSE Answers(t) /\ unrecorded' = unrecorded \cup {r}
  /\ UNCHANGED raced

\* The version that the update of a row gives it: the column is incremented by the statement.
VersionRead(t, row) == IF request[t].changes THEN request[t].snapshot.version + 1 ELSE row.version
VersionWritten(t, row) == IF request[t].changes THEN row.version + 1 ELSE row.version

\* The update of updateRoute, by the id alone: it also reaches a row that was archived meanwhile.
UpdateRow(t) ==
  LET task == request[t]
      r    == task.id
      row  == [catalog[r] EXCEPT !.path = IF task.writes = "fields" THEN @ ELSE task.path,
                                 !.active = IF task.writes = "all" THEN task.active ELSE @,
                                 !.state = IF task.writes = "all" THEN task.snapshot.state ELSE @,
                                 !.version = VersionWritten(t, catalog[r])] IN
  /\ task.step = "update"
  /\ IF Row(r) /\ ~Taken(row.path, r)
     THEN /\ row.version <= LastVersion
          /\ catalog' = [catalog EXCEPT ![r] = row]
          /\ IF task.changes
             THEN Goes(t, [task EXCEPT !.step = "save",
                             !.snapshot = [version |-> row.version, path |-> row.path, active |-> row.active,
                                           state |-> row.state]])
             ELSE Answers(t)
          /\ ComesBack(t, r)
     ELSE Answers(t) /\ UNCHANGED <<catalog, raced>>
  /\ UNCHANGED unrecorded

\* The row of RouteVersion, with the row that the statement before returned.
SaveVersion(t) ==
  LET task == request[t] IN
  /\ task.step = "save"
  /\ catalog' = IF Row(task.id) THEN [catalog EXCEPT ![task.id].versions = @ \cup {task.snapshot}] ELSE catalog
  /\ Answers(t)
  /\ UNCHANGED <<raced, unrecorded>>

\* duplicateRoute reads the row and looks for a free "-copy" (the numbers it tries next, and
\* copies of copies, are left out); of a route that has a slug the copy carries the same slug,
\* which the index refuses.
duplicateRoute(t, r, hasSlug) ==
  /\ Live(r) /\ catalog[r].path.suffix = ""
  /\ IF hasSlug
     THEN Begins(t, NoRequest)
     ELSE Begins(t, [NoRequest EXCEPT !.step = "copy", !.path = [catalog[r].path EXCEPT !.suffix = "-copy"]])
  /\ OnlyReads

-----------------------------------------------------------------------------
(* Publishing and deactivating *)

\* publishRoute and deactivateRoute read the live row, then set isActive by the id alone.
publishRoute(t, r) ==
  /\ Live(r)
  /\ \E active \in BOOLEAN : Begins(t, [NoRequest EXCEPT !.step = "switch", !.id = r, !.active = active])
  /\ OnlyReads

SwitchRow(t) ==
  LET task == request[t] IN
  /\ task.step = "switch"
  /\ catalog' = IF Row(task.id) THEN [catalog EXCEPT ![task.id].active = task.active] ELSE catalog
  /\ Answers(t)
  /\ UNCHANGED <<raced, unrecorded>>

\* bulkPublish and bulkDeactivate: one statement over the live rows of the list.
bulkPublish(t, rs, active) ==
  /\ Begins(t, NoRequest)
  /\ catalog' = [r \in CatRoute |-> IF r \in rs /\ Live(r) THEN [catalog[r] EXCEPT !.active = active] ELSE catalog[r]]
  /\ UNCHANGED <<raced, unrecorded>>

-----------------------------------------------------------------------------
(* Archiving, restoring, deleting *)

\* deleteRoute reads the live row, which must be inactive (and its name confirmed if it is protected).
deleteRoute(t, r) ==
  /\ Live(r) /\ ~catalog[r].active
  /\ Begins(t, [NoRequest EXCEPT !.step = "archive", !.id = r, !.path = mangleForArchive(catalog[r].path)])
  /\ OnlyReads

\* POST /routes/bulk/delete reads which routes are inactive and not protected; bulkDelete
\* then reads their paths, and leaves out a route that is archived by now.
BulkDelete(t, r) ==
  /\ Live(r) /\ ~catalog[r].active
  /\ Begins(t, [NoRequest EXCEPT !.step = "bulk", !.id = r])
  /\ OnlyReads

bulkDelete(t) ==
  LET task == request[t] IN
  /\ task.step = "bulk"
  /\ IF Live(task.id)
     THEN Goes(t, [task EXCEPT !.step = "archive", !.path = mangleForArchive(catalog[task.id].path)])
     ELSE Answers(t)
  /\ OnlyReads

ArchiveRow(t) ==
  LET task == request[t] IN
  /\ task.step = "archive"
  /\ catalog' = IF Row(task.id)
                THEN [catalog EXCEPT ![task.id].state = "archived", ![task.id].active = FALSE, ![task.id].path = task.path]
                ELSE catalog
  /\ Answers(t)
  /\ UNCHANGED <<raced, unrecorded>>

\* restoreRoute reads the archived row and takes the tag off its path.
restoreRoute(t, r) ==
  /\ Archived(r)
  /\ Begins(t, [NoRequest EXCEPT !.step = "restore", !.id = r, !.path = unmangleArchive(catalog[r].path)])
  /\ OnlyReads

\* A live route that has the path by now makes it restore under "-restored" (once: a bound).
LookForClash(t) ==
  LET task  == request[t]
      clash == \E o \in CatRoute \ {task.id} : Live(o) /\ catalog[o].path = task.path IN
  /\ task.step = "restore"
  /\ clash => task.path.suffix = ""
  /\ Goes(t, [task EXCEPT !.step = "unarchive", !.path.suffix = IF clash THEN "-restored" ELSE @])
  /\ OnlyReads

\* The route comes back as an inactive draft, unless another row took the path since.
RestoreRow(t) ==
  LET task == request[t] IN
  /\ task.step = "unarchive"
  /\ IF Row(task.id) /\ ~Taken(task.path, task.id)
     THEN /\ catalog' = [catalog EXCEPT ![task.id].state = "live", ![task.id].active = FALSE, ![task.id].path = task.path]
          /\ ComesBack(t, task.id)
     ELSE UNCHANGED <<catalog, raced>>
  /\ Answers(t)
  /\ UNCHANGED unrecorded

\* permanentlyDeleteRoute: the archived row is looked for, then deleted by its id, versions included.
permanentlyDeleteRoute(t, r) ==
  /\ Archived(r)
  /\ Begins(t, [NoRequest EXCEPT !.step = "remove", !.id = r])
  /\ OnlyReads

RemoveRow(t) ==
  LET r == request[t].id IN
  /\ request[t].step = "remove"
  /\ catalog' = [catalog EXCEPT ![r] = [Unused EXCEPT !.state = "gone"]]
  /\ Answers(t)
  /\ UNCHANGED <<raced, unrecorded>>

\* A statement fails or the replica stops.
RequestFails(t) ==
  /\ request[t] # NoRequest
  /\ unrecorded' = IF request[t].step = "save" THEN unrecorded \cup {request[t].id} ELSE unrecorded
  /\ Answers(t)
  /\ UNCHANGED <<catalog, raced>>

CatalogNext ==
  \E t \in CatTask :
    \/ LookForStale(t) \/ freeSoftDeletedPublicPath(t) \/ UpdateRow(t) \/ SaveVersion(t)
    \/ SwitchRow(t) \/ bulkDelete(t) \/ ArchiveRow(t) \/ LookForClash(t) \/ RestoreRow(t)
    \/ RemoveRow(t) \/ RequestFails(t)
    \/ \E p \in Path : createRoute(t, p)
    \/ \E rs \in SUBSET CatRoute, active \in BOOLEAN : bulkPublish(t, rs, active)
    \/ \E r \in CatRoute :
         \/ updateRoute(t, r) \/ CreateRow(t, r) \/ publishRoute(t, r) \/ deleteRoute(t, r) \/ BulkDelete(t, r)
         \/ restoreRoute(t, r) \/ permanentlyDeleteRoute(t, r)
         \/ \E s \in catalog[r].versions : restoreRouteVersion(t, r, s)
         \/ \E hasSlug \in BOOLEAN : duplicateRoute(t, r, hasSlug)

CatalogSpec == CatalogInit /\ [][CatalogNext]_catalogVars

-----------------------------------------------------------------------------
(* Properties *)

CatalogTypeOK ==
  /\ catalog \in [CatRoute -> CatalogRow]
  /\ request \in [CatTask -> CatRequest]
  /\ requests \in 0..MaxRequests
  /\ raced \in BOOLEAN /\ unrecorded \subseteq CatRoute

\* A live route has the path it was asked for and not the tag of the archive, on which no
\* request would ever find it: the tag goes on with archiving and comes off with restoring,
\* through versions, renames and bulk operations that overlap.  This holds until a route comes
\* back while another request has found its row in the archive and is about to free its path.
LiveUnmangled ==
  ~raced => \A r \in CatRoute : Live(r) => ~catalog[r].path.tagged

\* Every version of a route, from the first to the current one, is kept exactly once, also
\* when updates overlap; a version that is about to be saved counts.  Copies, which start
\* without a version, and requests that ended between the row and its version are left out.
VersionsComplete ==
  \A r \in CatRoute \ unrecorded : Row(r) =>
    \A v \in 1..catalog[r].version :
      Cardinality({s \in catalog[r].versions : s.version = v})
        + Cardinality({t \in CatTask : request[t].step = "save" /\ request[t].id = r /\ request[t].snapshot.version = v}) = 1
=============================================================================
