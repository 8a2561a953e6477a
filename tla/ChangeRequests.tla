---------------------------- MODULE ChangeRequests ----------------------------
(***************************************************************************)
(* The approval workflow of one route: who may edit it directly, who has   *)
(* to file a change request, and how approve, reject and delete move a     *)
(* request while other reviewers, direct edits, the writers that ask for   *)
(* no approval and changes of settings, roles and the organization's       *)
(* target list run beside them.                                            *)
(*                                                                         *)
(* approve is five database calls that nothing holds together: it checks   *)
(* the target, marks the request, checks the target again, writes the      *)
(* route and marks the request again.  None of them looks at the status.   *)
(*                                                                         *)
(* Data: of a payload only its targetUrl matters, Null if it has none; of  *)
(* the organization's target policy the set of targets it accepts.  The    *)
(* route stays in its organization; another one would bring other roles,   *)
(* settings and targets, and all of these may change here at any time.     *)
(***************************************************************************)
EXTENDS Integers

CONSTANTS
    Users,          \* the signed-in users with system role ADMIN or OPERATOR
    SystemAdmins,   \* those with system role ADMIN
    Requests,       \* the change requests that may be filed
    Targets,        \* target URLs
    OrgPolicies,    \* the settings the organization may have
    GroupPolicies,  \* those the route's group may have, Null without a group
    Crashes,        \* whether the process may die in the middle of a handler
    Null

Roles == {"OWNER", "ADMIN", "MEMBER"}

ASSUME UserAssumption == SystemAdmins \subseteq Users
ASSUME NullAssumption == Null \notin Requests \cup Users \cup Targets \cup BOOLEAN /\ Null \notin Roles
ASSUME PolicyAssumption ==
    /\ OrgPolicies \subseteq [changeRequestsEnabled : BOOLEAN,
                              crBypassRoles : SUBSET Roles,
                              crApproverRoles : SUBSET Roles]
    /\ GroupPolicies \subseteq [changeRequestsEnabled : BOOLEAN \cup {Null},
                                crBypassRoles : SUBSET Roles,
                                crApproverRoles : SUBSET Roles] \cup {Null}
ASSUME CrashAssumption == Crashes \in BOOLEAN

VARIABLES
    org, group,  \* the settings that getPolicy combines
    role,        \* the users' roles in the organization, Null for outsiders
    allowed,     \* the targets the organization accepts
    route,       \* the routes row
    cr,          \* the change_requests rows
    task,        \* per user, the handler that runs for that user
    okSince,     \* history: accepted at some time since its first approval
    written      \* history: the requests whose change was written to the route

vars == <<org, group, role, allowed, route, cr, task, okSince, written>>

Status == {"none", "PENDING", "APPROVED", "REJECTED", "APPLIED", "deleted"}

Request == [status : Status, type : {"create", "update", "delete"},
            onRoute : BOOLEAN, target : Targets \cup {Null}]

Task == [pc : {"idle", "editing", "approving", "checked", "marked", "rechecked",
               "written", "rejecting", "deleting"},
         cr : Requests \cup {Null}, onRoute : BOOLEAN,
         target : Targets \cup {Null}]

Route == [state : {"live", "archived", "gone"}, isActive : BOOLEAN, target : Targets]

TypeOK ==
    /\ org \in OrgPolicies
    /\ group \in GroupPolicies
    /\ role \in [Users -> Roles \cup {Null}]
    /\ allowed \in SUBSET Targets
    /\ route \in Route
    /\ cr \in [Requests -> Request]
    /\ task \in [Users -> Task]
    /\ okSince \in [Requests -> BOOLEAN]
    /\ written \in SUBSET Requests

Idle == [pc |-> "idle", cr |-> Null, onRoute |-> FALSE, target |-> Null]

Started(pc, i) == [pc |-> pc, cr |-> i, onRoute |-> FALSE, target |-> Null]

Init ==
    /\ org \in OrgPolicies
    /\ group \in GroupPolicies
    /\ role \in [Users -> Roles \cup {Null}]
    /\ allowed \in SUBSET Targets
    /\ route \in [state : {"live"}, isActive : BOOLEAN, target : Targets]
    /\ cr = [i \in Requests |-> [status |-> "none", type |-> "update",
                                 onRoute |-> FALSE, target |-> Null]]
    /\ task = [u \in Users |-> Idle]
    /\ okSince = [i \in Requests |-> FALSE]
    /\ written = {}

------------------------------------------------------------------------------
(* The policy *)

(* A group with a setting of its own overrides the organization. *)
GroupDecides == group # Null /\ group.changeRequestsEnabled # Null

(* getPolicy; a group's empty role list falls back to the organization's. *)
GetPolicy ==
    IF ~GroupDecides THEN org
    ELSE [changeRequestsEnabled |-> group.changeRequestsEnabled,
          crBypassRoles   |-> IF group.crBypassRoles # {} THEN group.crBypassRoles
                              ELSE org.crBypassRoles,
          crApproverRoles |-> IF group.crApproverRoles # {} THEN group.crApproverRoles
                              ELSE org.crApproverRoles]

Exists == route.state # "gone"   \* an archived route is still a row
Live == route.state = "live"

CanManageRoute(u) ==
    \/ u \in SystemAdmins
    \/ Live /\ role[u] \in {"OWNER", "ADMIN"}

CanDeleteOrgRoutes(u) == u \in SystemAdmins \/ role[u] = "OWNER"

CanBypass(u) ==
    \/ u \in SystemAdmins
    \/ ~Exists
    \/ ~GetPolicy.changeRequestsEnabled
    \/ role[u] = Null
    \/ role[u] \in GetPolicy.crBypassRoles

CanApprove(i, u) ==
    \/ u \in SystemAdmins
    \/ cr[i].onRoute /\ Exists /\ role[u] \in GetPolicy.crApproverRoles

TargetAllowed(t) == t = Null \/ t \in allowed

------------------------------------------------------------------------------
(* Editing and filing *)

Create(i, type, onRoute, t) ==
    /\ cr[i].status = "none"
    /\ cr' = [cr EXCEPT ![i] = [status |-> "PENDING", type |-> type,
                                onRoute |-> onRoute, target |-> t]]

(* PUT /routes/:id of a user who may not bypass the workflow. *)
RequestUpdate(u, i, t) ==
    /\ task[u].pc = "idle"
    /\ Live
    /\ CanManageRoute(u)
    /\ ~CanBypass(u)
    /\ TargetAllowed(t)
    /\ Create(i, "update", TRUE, t)
    /\ UNCHANGED <<org, group, role, allowed, route, task, okSince, written>>

(* POST /change-requests, on the route or for a new one. *)
PostChangeRequest(u, i, type, onRoute, t) ==
    /\ task[u].pc = "idle"
    /\ u \in SystemAdmins \/ role[u] # Null
    /\ onRoute => IF u \in SystemAdmins THEN Exists ELSE Live
    /\ Create(i, type, onRoute, t)
    /\ UNCHANGED <<org, group, role, allowed, route, task, okSince, written>>

(* PUT /routes/:id of a user who may, or the restore of a version: what    *)
(* updateRoute checks, and then what it writes.                            *)
EditRoute(u, t) ==
    /\ task[u].pc = "idle"
    /\ Live
    /\ CanManageRoute(u)
    /\ CanBypass(u)
    /\ TargetAllowed(t)
    /\ task' = [task EXCEPT ![u].pc = "editing", ![u].target = t]
    /\ UNCHANGED <<org, group, role, allowed, route, cr, okSince, written>>

Given(t) == IF t = Null THEN route.target ELSE t

EditWrite(u) ==
    /\ task[u].pc = "editing"
    /\ task' = [task EXCEPT ![u] = Idle]
    /\ route' = IF Exists THEN [route EXCEPT !.target = Given(task[u].target)] ELSE route
    /\ UNCHANGED <<org, group, role, allowed, cr, okSince, written>>

------------------------------------------------------------------------------
(* The writers of the row that ask for no approval *)

(* Each is one step here: a request relies on nothing but the row, and the *)
(* module Catalog interleaves their looks and writes.                      *)

(* Publish and deactivate: the single forms ask canManageRoute, the bulk   *)
(* forms no more of an ADMIN or OPERATOR than the role.                    *)
SetActive(on) ==
    /\ Live
    /\ route' = [route EXCEPT !.isActive = on]
    /\ UNCHANGED <<org, group, role, allowed, cr, task, okSince, written>>

(* Bulk update may move the route to another group, and so under other     *)
(* settings; an edit of the group's settings comes to the same.            *)
BulkUpdate(g) ==
    /\ g # group
    /\ group' = g
    /\ UNCHANGED <<org, role, allowed, route, cr, task, okSince, written>>

(* deleteRoute, restoreRoute and permanentlyDeleteRoute; with the row goes *)
(* the routeId of its requests.                                            *)
ArchiveRoute(u) ==
    /\ Live
    /\ ~route.isActive
    /\ CanDeleteOrgRoutes(u)
    /\ route' = [route EXCEPT !.state = "archived"]
    /\ UNCHANGED <<org, group, role, allowed, cr, task, okSince, written>>

RestoreRoute(u) ==
    /\ route.state = "archived"
    /\ CanDeleteOrgRoutes(u)
    /\ route' = [route EXCEPT !.state = "live", !.isActive = FALSE]
    /\ UNCHANGED <<org, group, role, allowed, cr, task, okSince, written>>

PermanentlyDeleteRoute(u) ==
    /\ route.state = "archived"
    /\ CanDeleteOrgRoutes(u)
    /\ route' = [route EXCEPT !.state = "gone"]
    /\ cr' = [i \in Requests |-> [cr[i] EXCEPT !.onRoute = FALSE]]
    /\ UNCHANGED <<org, group, role, allowed, task, okSince, written>>

------------------------------------------------------------------------------
(* Reviewing *)

Stored(i) == cr[i].status \notin {"none", "deleted"}

Approve(u, i) ==
    /\ task[u].pc = "idle"
    /\ Stored(i)
    /\ CanApprove(i, u)
    /\ task' = [task EXCEPT ![u] = Started("approving", i)]
    /\ UNCHANGED <<org, group, role, allowed, route, cr, okSince, written>>

(* assertTargetAllowed concerns requests on a route that set a target. *)
Passes(i) == ~cr[i].onRoute \/ TargetAllowed(cr[i].target)

Refuse(u) ==
    /\ task' = [task EXCEPT ![u] = Idle]
    /\ UNCHANGED <<org, group, role, allowed, route, cr, okSince, written>>

CheckTarget(u) ==
    /\ task[u].pc = "approving"
    /\ IF Passes(task[u].cr)
       THEN /\ task' = [task EXCEPT ![u].pc = "checked"]
            /\ UNCHANGED <<org, group, role, allowed, route, cr, okSince, written>>
       ELSE Refuse(u)

MarkApproved(u) ==
    LET i == task[u].cr IN
    /\ task[u].pc = "checked"
    /\ IF Stored(i)
       THEN /\ cr' = [cr EXCEPT ![i].status = "APPROVED"]
            /\ okSince' = [okSince EXCEPT ![i] = @ \/ TargetAllowed(cr[i].target)]
            /\ task' = [task EXCEPT ![u].pc = "marked", ![u].onRoute = cr[i].onRoute]
            /\ UNCHANGED <<org, group, role, allowed, route, written>>
       ELSE Refuse(u)

(* applyChange does something for updates of a route only; it works on the *)
(* row as it was when it was marked.                                       *)
Applies(u) == cr[task[u].cr].type = "update" /\ task[u].onRoute

Recheck(u) ==
    /\ task' = [task EXCEPT ![u].pc = IF Applies(u) THEN "rechecked" ELSE "written"]
    /\ UNCHANGED <<org, group, role, allowed, route, cr, okSince, written>>

(* The second assertTargetAllowed; a missing route has no organization. *)
RefusedNow(u) == Applies(u) /\ Exists /\ ~TargetAllowed(cr[task[u].cr].target)

NoSecondCheck(u) == task[u].pc = "marked" /\ Recheck(u)

RefusalSwallowed(u) ==
    /\ task[u].pc = "marked"
    /\ IF RefusedNow(u)
       THEN /\ task' = [task EXCEPT ![u].pc = "written"]
            /\ UNCHANGED <<org, group, role, allowed, route, cr, okSince, written>>
       ELSE Recheck(u)

CheckTargetAgain(u) ==
    /\ task[u].pc = "marked"
    /\ IF RefusedNow(u) THEN Refuse(u) ELSE Recheck(u)

WriteApplied(u, t) ==
    /\ task[u].pc = "rechecked"
    /\ IF Exists
       THEN /\ route' = [route EXCEPT !.target = t]
            /\ written' = written \cup {task[u].cr}
            /\ task' = [task EXCEPT ![u].pc = "written"]
            /\ UNCHANGED <<org, group, role, allowed, cr, okSince>>
       ELSE Refuse(u)

MissingWritten(u) == WriteApplied(u, cr[task[u].cr].target)

ApplyChange(u) == WriteApplied(u, Given(cr[task[u].cr].target))

SetStatus(u, status) ==
    LET i == task[u].cr IN
    /\ cr' = IF Stored(i) THEN [cr EXCEPT ![i].status = status] ELSE cr
    /\ task' = [task EXCEPT ![u] = Idle]
    /\ UNCHANGED <<org, group, role, allowed, route, okSince, written>>

MarkApplied(u) == task[u].pc = "written" /\ SetStatus(u, "APPLIED")

StartReject(u, i) ==
    /\ task[u].pc = "idle"
    /\ Stored(i)
    /\ CanApprove(i, u)
    /\ task' = [task EXCEPT ![u] = Started("rejecting", i)]
    /\ UNCHANGED <<org, group, role, allowed, route, cr, okSince, written>>

Reject(u) == task[u].pc = "rejecting" /\ SetStatus(u, "REJECTED")

DeleteAnyRequest(u, i) ==
    /\ task[u].pc = "idle"
    /\ u \in SystemAdmins
    /\ Stored(i)
    /\ task' = [task EXCEPT ![u] = Started("deleting", i)]
    /\ UNCHANGED <<org, group, role, allowed, route, cr, okSince, written>>

(* delete reads the request and refuses a pending one, then deletes it. *)
StartDelete(u, i) ==
    /\ task[u].pc = "idle"
    /\ u \in SystemAdmins
    /\ Stored(i)
    /\ cr[i].status # "PENDING"
    /\ task' = [task EXCEPT ![u] = Started("deleting", i)]
    /\ UNCHANGED <<org, group, role, allowed, route, cr, okSince, written>>

Delete(u) == task[u].pc = "deleting" /\ SetStatus(u, "deleted")

------------------------------------------------------------------------------
(* Around the workflow *)

(* An update of the organization: its settings, or its list of targets. *)
ChangePolicy(o) ==
    /\ o # org
    /\ org' = o
    /\ UNCHANGED <<group, role, allowed, route, cr, task, okSince, written>>

ChangeAllowlist(A) ==
    /\ A # allowed
    /\ allowed' = A
    /\ okSince' = [i \in Requests |->
                     \/ okSince[i]
                     \/ cr[i].status \notin {"none", "PENDING"} /\ cr[i].target \in A]
    /\ UNCHANGED <<org, group, role, route, cr, task, written>>

(* A member is added, promoted, demoted or removed. *)
ChangeRole(u, r) ==
    /\ r # role[u]
    /\ role' = [role EXCEPT ![u] = r]
    /\ UNCHANGED <<org, group, allowed, route, cr, task, okSince, written>>

Crash(u) ==
    /\ Crashes
    /\ task[u].pc # "idle"
    /\ Refuse(u)

Handle(u) ==
    \/ EditWrite(u) \/ CheckTarget(u) \/ MarkApproved(u) \/ CheckTargetAgain(u)
    \/ ApplyChange(u) \/ MarkApplied(u) \/ Reject(u) \/ Delete(u) \/ Crash(u)

Ask(u) ==
    \/ \E t \in Targets \cup {Null} : EditRoute(u, t)
    \/ \E i \in Requests, t \in Targets \cup {Null} :
          \/ RequestUpdate(u, i, t)
          \/ \E type \in {"create", "update", "delete"}, onRoute \in BOOLEAN :
                PostChangeRequest(u, i, type, onRoute, t)
    \/ \E i \in Requests : Approve(u, i) \/ StartReject(u, i) \/ StartDelete(u, i)

Unapproved ==
    \/ \E on \in BOOLEAN : SetActive(on)
    \/ \E g \in GroupPolicies : BulkUpdate(g)
    \/ \E u \in Users : ArchiveRoute(u) \/ RestoreRoute(u) \/ PermanentlyDeleteRoute(u)

Settings ==
    \/ \E o \in OrgPolicies : ChangePolicy(o)
    \/ \E A \in SUBSET Targets : ChangeAllowlist(A)
    \/ \E u \in Users, r \in Roles \cup {Null} : ChangeRole(u, r)

Next ==
    \/ \E u \in Users : Ask(u) \/ Handle(u)
    \/ Unapproved
    \/ Settings

Spec == Init /\ [][Next]_vars

------------------------------------------------------------------------------
(* A change that reaches the route sets a target the organization accepted *)
(* at some time after the approval was recorded: applyChange checks again, *)
(* because the list may have changed since the request was filed.          *)
AppliedWasAllowed == \A i \in written : okSince[i]

(* An update that approve reports as APPLIED has reached its route: when   *)
(* the second check or the write of applyChange fails, after the request   *)
(* was marked and whatever others do to it meanwhile, the request does not *)
(* become APPLIED without effect.                                          *)
AppliedWasWritten ==
    \A i \in Requests :
        cr[i].status = "APPLIED" /\ cr[i].type = "update" /\ cr[i].onRoute => i \in written

(* delete never drops a request that nobody has decided, whatever happens  *)
(* between its look at the status and its delete.                          *)
PendingNotDropped ==
    [][\A i \in Requests : cr[i].status = "PENDING" => cr'[i].status # "deleted"]_vars

(* The documented workflow: PENDING to APPROVED to APPLIED, or to REJECTED. *)
FollowsWorkflow ==
    [][\A i \in Requests : cr'[i].status # cr[i].status =>
          <<cr[i].status, cr'[i].status>> \in
              {<<"none", "PENDING">>, <<"PENDING", "APPROVED">>,
               <<"PENDING", "REJECTED">>, <<"APPROVED", "APPLIED">>,
               <<"REJECTED", "deleted">>, <<"APPLIED", "deleted">>}]_vars

==============================================================================
