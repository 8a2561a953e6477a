------------------------- MODULE ChangeRequests_proofs -------------------------
(***************************************************************************)
(* What the approval workflow keeps for any number of users and requests   *)
(* and any sequence of changes to settings, roles and target list.         *)
(***************************************************************************)
EXTENDS ChangeRequests, TLAPS

(* A handler at work on a request names one. *)
Named ==
    \A u \in Users : task[u].pc \notin {"idle", "editing"} => task[u].cr \in Requests

(* Nothing returns a request to PENDING, so a handler that saw it decided  *)
(* or decided it still finds it so.                                        *)
Decided ==
    \A u \in Users : task[u].pc \in {"deleting", "marked", "rechecked", "written"} =>
        cr[task[u].cr].status \notin {"none", "PENDING"}

(* Since the mark, the history has followed every change of the list; once *)
(* the second check has passed it knows of a moment of acceptance.         *)
Vetted ==
    \A u \in Users :
        /\ task[u].pc = "marked" /\ TargetAllowed(cr[task[u].cr].target)
              => okSince[task[u].cr]
        /\ task[u].pc = "rechecked" /\ Exists => okSince[task[u].cr]

(* A request that is on the route now was on it when a handler marked it.  *)
Marked ==
    \A u \in Users : task[u].pc \in {"marked", "rechecked", "written"} =>
        (cr[task[u].cr].onRoute => task[u].onRoute)

(* The only way past the write of an update is the write. *)
Carried ==
    \A u \in Users : task[u].pc = "written" /\ Applies(u) => task[u].cr \in written

IInv ==
    /\ TypeOK /\ Named /\ Decided /\ Vetted /\ Marked /\ Carried
    /\ AppliedWasAllowed /\ AppliedWasWritten

USE NullAssumption

------------------------------------------------------------------------------
LEMMA IdleOK == Idle \in Task /\ Idle.pc = "idle"
  BY DEF Idle, Task

LEMMA StartedOK ==
    ASSUME NEW i \in Requests, NEW pc \in {"approving", "rejecting", "deleting"}
    PROVE  Started(pc, i) \in Task /\ Started(pc, i).pc = pc /\ Started(pc, i).cr = i
  BY DEF Started, Task

(* A handler moves without touching a row. *)
LEMMA TaskStep ==
    ASSUME IInv, NEW u \in Users, NEW t \in Task, task' = [task EXCEPT ![u] = t],
           t.pc \notin {"idle", "editing"} => t.cr \in Requests,
           t.pc \in {"deleting", "rechecked", "written"}
              => cr[t.cr].status \notin {"none", "PENDING"},
           t.pc # "marked",
           t.pc = "rechecked" /\ Exists => okSince[t.cr],
           t.pc \in {"rechecked", "written"} /\ cr[t.cr].onRoute => t.onRoute,
           t.pc = "written" /\ cr[t.cr].type = "update" => ~t.onRoute,
           UNCHANGED <<org, group, role, allowed, route, cr, okSince, written>>
    PROVE  IInv'
  <1>1. /\ task' \in [Users -> Task]
        /\ \A v \in Users : task'[v] = IF v = u THEN t ELSE task[v]
    BY DEF IInv, TypeOK
  <1>2. TypeOK'
    BY <1>1 DEF IInv, TypeOK
  <1>3. Named'
    BY <1>1 DEF IInv, Named
  <1>4. Decided'
    BY <1>1 DEF IInv, Decided
  <1>5. Vetted'
    BY <1>1 DEF IInv, Vetted, TargetAllowed, Exists
  <1>6. Marked'
    BY <1>1 DEF IInv, Marked
  <1>7. Carried'
    BY <1>1 DEF IInv, Carried, Applies
  <1>8. AppliedWasAllowed' /\ AppliedWasWritten'
    BY DEF IInv, AppliedWasAllowed, AppliedWasWritten
  <1> QED BY <1>2, <1>3, <1>4, <1>5, <1>6, <1>7, <1>8 DEF IInv

LEMMA RefuseOK ==
    ASSUME IInv, NEW u \in Users, Refuse(u)
    PROVE  IInv'
  BY IdleOK, TaskStep DEF Refuse

(* Roles, settings and the route change without the workflow; a route that *)
(* is gone stays so.                                                       *)
LEMMA OutsideOK ==
    ASSUME IInv, org' \in OrgPolicies, group' \in GroupPolicies,
           role' \in [Users -> Roles \cup {Null}], route' \in Route, Exists' => Exists,
           UNCHANGED <<allowed, cr, task, okSince, written>>
    PROVE  IInv'
  <1>1. TypeOK'
    BY DEF IInv, TypeOK
  <1>2. Named' /\ Decided' /\ Marked'
    BY DEF IInv, Named, Decided, Marked
  <1>3. Vetted' /\ Carried'
    BY DEF IInv, Vetted, Carried, TargetAllowed, Applies
  <1>4. AppliedWasAllowed' /\ AppliedWasWritten'
    BY DEF IInv, AppliedWasAllowed, AppliedWasWritten
  <1> QED BY <1>1, <1>2, <1>3, <1>4 DEF IInv

(* A handler ends and sets its request's status to a decided one. *)
LEMMA SetStatusOK ==
    ASSUME IInv, NEW u \in Users, task[u].cr \in Requests,
           NEW st \in {"APPLIED", "REJECTED", "deleted"}, SetStatus(u, st),
           st = "APPLIED" => task[u].pc = "written"
    PROVE  IInv'
  <1> DEFINE i == task[u].cr
  <1>1. /\ task' \in [Users -> Task]
        /\ \A v \in Users : task'[v] = IF v = u THEN Idle ELSE task[v]
    BY IdleOK DEF SetStatus, IInv, TypeOK
  <1>2. /\ cr' \in [Requests -> Request]
        /\ \A j \in Requests :
              /\ cr'[j].status = cr[j].status \/ (j = i /\ cr'[j].status = st)
              /\ cr'[j].target = cr[j].target
              /\ cr'[j].type = cr[j].type
              /\ cr'[j].onRoute = cr[j].onRoute
    <2>1. cr[i] \in Request /\ st \in Status
      BY DEF IInv, TypeOK, Status
    <2>2. CASE cr' = cr
      BY <2>2 DEF IInv, TypeOK
    <2>3. CASE cr' = [cr EXCEPT ![i].status = st]
      <3> DEFINE row == [cr[i] EXCEPT !.status = st]
      <3>1. row \in Request
        BY <2>1 DEF Request
      <3>2. cr' = [cr EXCEPT ![i] = row]
        BY <2>3
      <3>3. /\ row.status = st /\ row.target = cr[i].target
            /\ row.type = cr[i].type /\ row.onRoute = cr[i].onRoute
        BY <2>1 DEF Request
      <3> HIDE DEF row
      <3> QED BY <3>1, <3>2, <3>3 DEF IInv, TypeOK
    <2> QED BY <2>2, <2>3 DEF SetStatus
  <1>3. UNCHANGED <<org, group, role, allowed, route, okSince, written>>
    BY DEF SetStatus
  <1>4. TypeOK'
    BY <1>1, <1>2, <1>3 DEF IInv, TypeOK
  <1>5. Named'
    BY <1>1, IdleOK DEF IInv, Named
  <1>6. Decided'
    BY <1>1, <1>2, IdleOK DEF IInv, Decided, Named
  <1>7. Vetted'
    BY <1>1, <1>2, <1>3, IdleOK DEF IInv, Vetted, Named, TargetAllowed, Exists
  <1>8. Marked' /\ Carried'
    BY <1>1, <1>2, <1>3, IdleOK DEF IInv, Marked, Carried, Named, Applies
  <1>9. AppliedWasAllowed'
    BY <1>3 DEF IInv, AppliedWasAllowed
  <1>10. AppliedWasWritten'
    <2> SUFFICES ASSUME NEW j \in Requests, cr'[j].status = "APPLIED",
                        cr'[j].type = "update", cr'[j].onRoute
                 PROVE  j \in written
      BY <1>3 DEF AppliedWasWritten
    <2>1. CASE cr[j].status = "APPLIED"
      BY <1>2, <2>1 DEF IInv, AppliedWasWritten
    <2>2. CASE j = i /\ st = "APPLIED"
      BY <1>2, <2>2 DEF IInv, Marked, Carried, Applies
    <2> QED BY <1>2, <2>1, <2>2
  <1> QED BY <1>4, <1>5, <1>6, <1>7, <1>8, <1>9, <1>10 DEF IInv

(* A new request is one that no handler knows. *)
LEMMA CreateOK ==
    ASSUME IInv, NEW i \in Requests, NEW type \in {"create", "update", "delete"},
           NEW onRoute \in BOOLEAN, NEW t \in Targets \cup {Null},
           Create(i, type, onRoute, t),
           UNCHANGED <<org, group, role, allowed, route, task, okSince, written>>
    PROVE  IInv'
  <1>1. /\ cr' \in [Requests -> Request]
        /\ \A j \in Requests : j # i => cr'[j] = cr[j]
        /\ cr'[i].status = "PENDING"
    BY DEF Create, IInv, TypeOK, Request, Status
  <1>2. cr[i].status = "none"
    BY DEF Create
  <1>3. TypeOK'
    BY <1>1 DEF IInv, TypeOK
  <1>4. Named' /\ AppliedWasAllowed' /\ AppliedWasWritten'
    BY <1>1 DEF IInv, Named, AppliedWasAllowed, AppliedWasWritten
  <1>5. \A u \in Users : task[u].pc \in {"deleting", "marked", "rechecked", "written"} =>
            task[u].cr \in Requests /\ task[u].cr # i
    BY <1>2 DEF IInv, Named, Decided
  <1>6. Decided'
    BY <1>1, <1>5 DEF IInv, Decided
  <1>7. Vetted'
    BY <1>1, <1>5 DEF IInv, Vetted, TargetAllowed, Exists
  <1>8. Marked' /\ Carried'
    BY <1>1, <1>5 DEF IInv, Marked, Carried, Applies
  <1> QED BY <1>3, <1>4, <1>6, <1>7, <1>8 DEF IInv

------------------------------------------------------------------------------
LEMMA InitOK == Init => IInv
  <1> SUFFICES ASSUME Init PROVE IInv
    OBVIOUS
  <1>1. TypeOK
    <2>1. cr \in [Requests -> Request]
      BY DEF Init, Request, Status
    <2>2. task \in [Users -> Task]
      BY IdleOK DEF Init
    <2> QED BY <2>1, <2>2 DEF Init, TypeOK, Route
  <1>2. Named /\ Decided /\ Vetted /\ Marked /\ Carried
    BY IdleOK DEF Init, Named, Decided, Vetted, Marked, Carried
  <1>3. AppliedWasAllowed /\ AppliedWasWritten
    BY DEF Init, AppliedWasAllowed, AppliedWasWritten
  <1> QED BY <1>1, <1>2, <1>3 DEF IInv

(* What a user starts. *)
LEMMA AskOK ==
    ASSUME IInv, NEW u \in Users, Ask(u)
    PROVE  IInv'
  <1>1. ASSUME NEW t \in Targets \cup {Null}, EditRoute(u, t)
        PROVE  IInv'
    <2> DEFINE new == [task[u] EXCEPT !.pc = "editing", !.target = t]
    <2>1. task[u] \in Task
      BY DEF IInv, TypeOK
    <2>2. new \in Task /\ new.pc = "editing"
      BY <2>1 DEF Task
    <2>3. task' = [task EXCEPT ![u] = new]
      BY <1>1 DEF EditRoute
    <2>4. UNCHANGED <<org, group, role, allowed, route, cr, okSince, written>>
      BY <1>1 DEF EditRoute
    <2> HIDE DEF new
    <2> QED BY <2>2, <2>3, <2>4, TaskStep
  <1>2. ASSUME NEW i \in Requests, NEW t \in Targets \cup {Null}, RequestUpdate(u, i, t)
        PROVE  IInv'
    BY <1>2, CreateOK DEF RequestUpdate
  <1>3. ASSUME NEW i \in Requests, NEW t \in Targets \cup {Null},
               NEW type \in {"create", "update", "delete"}, NEW onRoute \in BOOLEAN,
               PostChangeRequest(u, i, type, onRoute, t)
        PROVE  IInv'
    BY <1>3, CreateOK DEF PostChangeRequest
  <1>4. ASSUME NEW i \in Requests, Approve(u, i) \/ StartReject(u, i)
        PROVE  IInv'
    <2>1. PICK pc \in {"approving", "rejecting"} :
             task' = [task EXCEPT ![u] = Started(pc, i)]
      BY <1>4 DEF Approve, StartReject
    <2>2. UNCHANGED <<org, group, role, allowed, route, cr, okSince, written>>
      BY <1>4 DEF Approve, StartReject
    <2>3. Started(pc, i) \in Task /\ Started(pc, i).pc = pc /\ Started(pc, i).cr = i
      BY StartedOK
    <2> QED BY <2>1, <2>2, <2>3, TaskStep
  <1>5. ASSUME NEW i \in Requests, StartDelete(u, i)
        PROVE  IInv'
    <2>1. cr[i].status \notin {"none", "PENDING"}
      BY <1>5 DEF StartDelete, Stored
    <2>2. /\ Started("deleting", i) \in Task /\ Started("deleting", i).pc = "deleting"
          /\ Started("deleting", i).cr = i
      BY StartedOK
    <2> QED BY <1>5, <2>1, <2>2, TaskStep DEF StartDelete
  <1> QED BY <1>1, <1>2, <1>3, <1>4, <1>5 DEF Ask

(* The mark puts the request among the decided ones and starts its history. *)
LEMMA MarkOK ==
    ASSUME IInv, NEW u \in Users, MarkApproved(u)
    PROVE  IInv'
  <1> DEFINE i == task[u].cr
             new == [task[u] EXCEPT !.pc = "marked", !.onRoute = cr[i].onRoute]
             row == [cr[i] EXCEPT !.status = "APPROVED"]
  <1>0. i \in Requests /\ task[u] \in Task /\ cr[i] \in Request
    BY DEF MarkApproved, IInv, Named, TypeOK
  <1>1. CASE ~Stored(i)
    BY <1>1, RefuseOK DEF MarkApproved
  <1>2. CASE Stored(i)
    <2>1. /\ new \in Task /\ new.pc = "marked" /\ new.cr = i
          /\ row \in Request /\ row.status = "APPROVED" /\ row.target = cr[i].target
          /\ row.type = cr[i].type /\ row.onRoute = cr[i].onRoute
          /\ new.onRoute = cr[i].onRoute
      BY <1>0 DEF Task, Request, Status
    <2>2. /\ task' = [task EXCEPT ![u] = new]
          /\ cr' = [cr EXCEPT ![i] = row]
          /\ okSince' = [okSince EXCEPT ![i] = @ \/ TargetAllowed(cr[i].target)]
          /\ UNCHANGED <<org, group, role, allowed, route, written>>
      BY <1>0, <1>2 DEF MarkApproved, IInv, TypeOK
    <2> HIDE DEF new, row, i
    <2>3. /\ task' \in [Users -> Task]
          /\ \A v \in Users : task'[v] = IF v = u THEN new ELSE task[v]
      BY <2>1, <2>2 DEF IInv, TypeOK
    <2>4. /\ cr' \in [Requests -> Request]
          /\ \A j \in Requests :
                /\ cr'[j].target = cr[j].target
                /\ cr'[j].type = cr[j].type
                /\ cr'[j].onRoute = cr[j].onRoute
                /\ cr'[j].status = cr[j].status \/ cr'[j].status = "APPROVED"
          /\ cr'[i].status = "APPROVED"
      BY <1>0, <2>1, <2>2 DEF IInv, TypeOK
    <2>5. /\ okSince' \in [Requests -> BOOLEAN]
          /\ \A j \in Requests : okSince[j] => okSince'[j]
          /\ TargetAllowed(cr[i].target) => okSince'[i]
      <3>1. TargetAllowed(cr[i].target) \in BOOLEAN
        BY DEF TargetAllowed
      <3> QED BY <1>0, <2>2, <3>1, Zenon DEF IInv, TypeOK
    <2>6. TypeOK'
      BY <2>2, <2>3, <2>4, <2>5 DEF IInv, TypeOK
    <2>7. Named'
      BY <1>0, <2>1, <2>3 DEF IInv, Named
    <2>8. Decided'
      BY <1>0, <2>1, <2>3, <2>4 DEF IInv, Named, Decided
    <2>9. Vetted'
      <3> SUFFICES ASSUME NEW v \in Users
                   PROVE  /\ task'[v].pc = "marked" /\ TargetAllowed(cr[task[v].cr].target)'
                                => okSince'[task'[v].cr]
                          /\ task'[v].pc = "rechecked" /\ Exists'
                                => okSince'[task'[v].cr]
        BY DEF Vetted
      <3>1. CASE v = u
        BY <1>0, <2>1, <2>2, <2>3, <2>4, <2>5, <3>1 DEF TargetAllowed
      <3>2. CASE v # u
        BY <2>2, <2>3, <2>4, <2>5, <3>2 DEF IInv, Named, Vetted, TargetAllowed, Exists
      <3> QED BY <3>1, <3>2
    <2>10. Marked' /\ Carried'
      <3>1. Marked'
        BY <1>0, <2>1, <2>3, <2>4 DEF IInv, Named, Marked
      <3>2. Carried'
        BY <2>1, <2>2, <2>3, <2>4 DEF IInv, Named, Carried, Applies
      <3> QED BY <3>1, <3>2
    <2>11. AppliedWasAllowed' /\ AppliedWasWritten'
      <3>1. AppliedWasAllowed'
        BY <2>2, <2>5 DEF IInv, TypeOK, AppliedWasAllowed
      <3>2. AppliedWasWritten'
        BY <2>2, <2>4 DEF IInv, AppliedWasWritten
      <3> QED BY <3>1, <3>2
    <2> QED BY <2>6, <2>7, <2>8, <2>9, <2>10, <2>11 DEF IInv
  <1> QED BY <1>1, <1>2

(* What an update leaves out keeps its value. *)
LEMMA GivenOK ==
    ASSUME route \in Route, NEW t \in Targets \cup {Null}
    PROVE  Given(t) \in Targets
  BY DEF Given, Route

(* The steps of the handlers. *)
LEMMA HandleOK ==
    ASSUME IInv, NEW u \in Users, Handle(u)
    PROVE  IInv'
  <1>0. task[u] \in Task /\ route \in Route
    BY DEF IInv, TypeOK
  <1>1. CASE EditWrite(u)
    <2>1. /\ task' \in [Users -> Task]
          /\ \A v \in Users : task'[v] = IF v = u THEN Idle ELSE task[v]
      BY <1>1, IdleOK DEF EditWrite, IInv, TypeOK
    <2>2. route' \in Route /\ (Exists' => Exists)
      BY <1>0, <1>1, GivenOK DEF EditWrite, Route, Exists, Task
    <2>3. UNCHANGED <<org, group, role, allowed, cr, okSince, written>>
      BY <1>1 DEF EditWrite
    <2>4. TypeOK'
      BY <2>1, <2>2, <2>3 DEF IInv, TypeOK
    <2>5. Named' /\ Decided' /\ Marked'
      BY <2>1, <2>3, IdleOK DEF IInv, Named, Decided, Marked
    <2>6. Vetted'
      BY <2>1, <2>2, <2>3, IdleOK DEF IInv, Vetted, TargetAllowed
    <2>7. Carried'
      BY <2>1, <2>3, IdleOK DEF IInv, Carried, Applies
    <2>8. AppliedWasAllowed' /\ AppliedWasWritten'
      BY <2>3 DEF IInv, AppliedWasAllowed, AppliedWasWritten
    <2> QED BY <2>4, <2>5, <2>6, <2>7, <2>8 DEF IInv
  <1>2. CASE CheckTarget(u)
    <2> DEFINE new == [task[u] EXCEPT !.pc = "checked"]
    <2>1. new \in Task /\ new.pc = "checked" /\ new.cr = task[u].cr
      BY <1>0 DEF Task
    <2>2. task[u].cr \in Requests
      BY <1>2 DEF CheckTarget, IInv, Named
    <2>3. CASE Passes(task[u].cr)
      <3>1. /\ task' = [task EXCEPT ![u] = new]
            /\ UNCHANGED <<org, group, role, allowed, route, cr, okSince, written>>
        BY <1>2, <2>3 DEF CheckTarget
      <3> HIDE DEF new
      <3> QED BY <2>1, <2>2, <3>1, TaskStep
    <2>4. CASE ~Passes(task[u].cr)
      BY <1>2, <2>4, RefuseOK DEF CheckTarget
    <2> QED BY <2>3, <2>4
  <1>3. CASE MarkApproved(u)
    BY <1>3, MarkOK
  <1>4. CASE CheckTargetAgain(u)
    <2> DEFINE i == task[u].cr
    <2>1. /\ i \in Requests /\ cr[i].status \notin {"none", "PENDING"}
          /\ TargetAllowed(cr[i].target) => okSince[i]
          /\ cr[i].onRoute => task[u].onRoute
      BY <1>4 DEF CheckTargetAgain, IInv, Named, Decided, Vetted, Marked
    <2>2. CASE RefusedNow(u)
      BY <1>4, <2>2, RefuseOK DEF CheckTargetAgain
    <2>3. CASE ~RefusedNow(u) /\ ~Applies(u)
      <3> DEFINE new == [task[u] EXCEPT !.pc = "written"]
      <3>1. /\ new \in Task /\ new.pc = "written" /\ new.cr = i
            /\ new.onRoute = task[u].onRoute
        BY <1>0 DEF Task
      <3>2. /\ task' = [task EXCEPT ![u] = new]
            /\ UNCHANGED <<org, group, role, allowed, route, cr, okSince, written>>
        BY <1>4, <2>3 DEF CheckTargetAgain, Recheck
      <3>3. cr[i].type = "update" => ~task[u].onRoute
        BY <2>3 DEF Applies
      <3> HIDE DEF new
      <3> QED BY <2>1, <3>1, <3>2, <3>3, TaskStep
    <2>4. CASE ~RefusedNow(u) /\ Applies(u)
      <3> DEFINE new == [task[u] EXCEPT !.pc = "rechecked"]
      <3>1. /\ new \in Task /\ new.pc = "rechecked" /\ new.cr = i
            /\ new.onRoute = task[u].onRoute
        BY <1>0 DEF Task
      <3>2. /\ task' = [task EXCEPT ![u] = new]
            /\ UNCHANGED <<org, group, role, allowed, route, cr, okSince, written>>
        BY <1>4, <2>4 DEF CheckTargetAgain, Recheck
      <3>3. Exists => okSince[i]
        BY <2>1, <2>4 DEF RefusedNow
      <3> HIDE DEF new
      <3> QED BY <2>1, <3>1, <3>2, <3>3, TaskStep
    <2> QED BY <2>2, <2>3, <2>4
  <1>5. CASE ApplyChange(u)
    <2> DEFINE i == task[u].cr
               new == [task[u] EXCEPT !.pc = "written"]
    <2>1. /\ i \in Requests /\ (Exists => okSince[i])
          /\ cr[i].status \notin {"none", "PENDING"}
          /\ cr[i].onRoute => task[u].onRoute
      BY <1>5 DEF ApplyChange, WriteApplied, IInv, Named, Decided, Vetted, Marked
    <2>2. CASE ~Exists
      BY <1>5, <2>2, RefuseOK DEF ApplyChange, WriteApplied
    <2>3. CASE Exists
      <3>1. /\ new \in Task /\ new.pc = "written" /\ new.cr = i
            /\ new.onRoute = task[u].onRoute
        BY <1>0 DEF Task
      <3>2. /\ task' = [task EXCEPT ![u] = new]
            /\ written' = written \cup {i}
            /\ UNCHANGED <<org, group, role, allowed, cr, okSince>>
        BY <1>5, <2>3 DEF ApplyChange, WriteApplied
      <3>3. route' \in Route /\ (Exists' => Exists)
        <4>1. cr[i].target \in Targets \cup {Null}
          BY <2>1 DEF IInv, TypeOK, Request
        <4> QED BY <1>0, <1>5, <2>3, <4>1, GivenOK
                DEF ApplyChange, WriteApplied, Route, Exists
      <3> HIDE DEF new
      <3>4. /\ task' \in [Users -> Task]
            /\ \A v \in Users : task'[v] = IF v = u THEN new ELSE task[v]
        BY <3>1, <3>2 DEF IInv, TypeOK
      <3>5. TypeOK'
        BY <2>1, <3>2, <3>3, <3>4 DEF IInv, TypeOK
      <3>6. Named' /\ Decided' /\ Marked'
        BY <2>1, <3>1, <3>2, <3>4 DEF IInv, Named, Decided, Marked
      <3>7. Vetted'
        BY <3>1, <3>2, <3>3, <3>4 DEF IInv, Vetted, TargetAllowed
      <3>8. Carried'
        BY <3>1, <3>2, <3>4 DEF IInv, Carried, Applies
      <3>9. AppliedWasAllowed' /\ AppliedWasWritten'
        BY <2>1, <2>3, <3>2 DEF IInv, AppliedWasAllowed, AppliedWasWritten
      <3> QED BY <3>5, <3>6, <3>7, <3>8, <3>9 DEF IInv
    <2> QED BY <2>2, <2>3
  <1>6. CASE MarkApplied(u) \/ Reject(u) \/ Delete(u)
    <2>1. task[u].cr \in Requests
      BY <1>6 DEF MarkApplied, Reject, Delete, IInv, Named
    <2> QED BY <1>6, <2>1, SetStatusOK DEF MarkApplied, Reject, Delete
  <1>7. CASE Crash(u)
    BY <1>7, RefuseOK DEF Crash
  <1> QED BY <1>1, <1>2, <1>3, <1>4, <1>5, <1>6, <1>7 DEF Handle

(* A change of the list is noted for every request that is decided. *)
LEMMA AllowlistOK ==
    ASSUME IInv, NEW A \in SUBSET Targets, ChangeAllowlist(A)
    PROVE  IInv'
  <1>1. /\ okSince' \in [Requests -> BOOLEAN]
        /\ \A i \in Requests :
              /\ okSince[i] => okSince'[i]
              /\ cr[i].status \notin {"none", "PENDING"} /\ cr[i].target \in A => okSince'[i]
    BY Zenon DEF ChangeAllowlist
  <1>2. allowed' = A /\ UNCHANGED <<org, group, role, route, cr, task, written>>
    BY DEF ChangeAllowlist
  <1>3. TypeOK'
    BY <1>1, <1>2 DEF IInv, TypeOK
  <1>4. Named' /\ Decided' /\ Marked' /\ Carried'
    BY <1>2 DEF IInv, Named, Decided, Marked, Carried, Applies
  <1>5. Vetted'
    BY <1>1, <1>2 DEF IInv, Named, Decided, Vetted, TargetAllowed, Exists
  <1>6. AppliedWasAllowed' /\ AppliedWasWritten'
    BY <1>1, <1>2 DEF IInv, TypeOK, AppliedWasAllowed, AppliedWasWritten
  <1> QED BY <1>3, <1>4, <1>5, <1>6 DEF IInv

(* Without its route a request keeps its status, type and target. *)
LEMMA RouteDeletionOK ==
    ASSUME IInv, NEW u \in Users, PermanentlyDeleteRoute(u)
    PROVE  IInv'
  <1>1. /\ cr' \in [Requests -> Request]
        /\ \A i \in Requests : /\ cr'[i].status = cr[i].status
                               /\ cr'[i].target = cr[i].target
                               /\ cr'[i].type = cr[i].type
                               /\ ~cr'[i].onRoute
    <2>1. \A i \in Requests : cr[i] \in Request /\ cr'[i] = [cr[i] EXCEPT !.onRoute = FALSE]
      BY DEF PermanentlyDeleteRoute, IInv, TypeOK
    <2>2. \A i \in Requests : cr'[i] \in Request
      BY <2>1 DEF Request
    <2>3. \A i \in Requests : /\ cr'[i].status = cr[i].status
                              /\ cr'[i].target = cr[i].target
                              /\ cr'[i].type = cr[i].type
                              /\ ~cr'[i].onRoute
      BY <2>1 DEF Request
    <2> QED BY <2>2, <2>3 DEF PermanentlyDeleteRoute
  <1>2. route' \in Route /\ ~Exists'
    BY DEF PermanentlyDeleteRoute, IInv, TypeOK, Route, Exists
  <1>3. UNCHANGED <<org, group, role, allowed, task, okSince, written>>
    BY DEF PermanentlyDeleteRoute
  <1>4. TypeOK'
    BY <1>1, <1>2, <1>3 DEF IInv, TypeOK
  <1>5. Named' /\ Decided'
    BY <1>1, <1>3 DEF IInv, Named, Decided
  <1>6. Vetted' /\ AppliedWasAllowed'
    BY <1>1, <1>2, <1>3 DEF IInv, Named, Vetted, AppliedWasAllowed, TargetAllowed
  <1>7. Marked' /\ Carried' /\ AppliedWasWritten'
    BY <1>1, <1>3 DEF IInv, Named, Marked, Carried, AppliedWasWritten, Applies
  <1> QED BY <1>4, <1>5, <1>6, <1>7 DEF IInv

(* The writers that ask for no approval. *)
LEMMA UnapprovedOK ==
    ASSUME IInv, Unapproved
    PROVE  IInv'
  <1>0. /\ route \in Route /\ org \in OrgPolicies /\ group \in GroupPolicies
        /\ role \in [Users -> Roles \cup {Null}]
    BY DEF IInv, TypeOK
  <1>1. ASSUME NEW on \in BOOLEAN, SetActive(on)
        PROVE  IInv'
    <2>1. route' \in Route /\ (Exists' => Exists)
      BY <1>0, <1>1 DEF SetActive, Route, Exists
    <2> QED BY <1>0, <1>1, <2>1, OutsideOK DEF SetActive
  <1>2. ASSUME NEW g \in GroupPolicies, BulkUpdate(g)
        PROVE  IInv'
    BY <1>0, <1>2, OutsideOK DEF BulkUpdate, Exists
  <1>3. ASSUME NEW u \in Users, ArchiveRoute(u) \/ RestoreRoute(u)
        PROVE  IInv'
    <2>1. route' \in Route /\ (Exists' => Exists)
      BY <1>0, <1>3 DEF ArchiveRoute, RestoreRoute, Route, Exists, Live
    <2> QED BY <1>0, <1>3, <2>1, OutsideOK DEF ArchiveRoute, RestoreRoute
  <1> QED BY <1>1, <1>2, <1>3, RouteDeletionOK DEF Unapproved

(* Settings and roles matter to nothing that the invariant says. *)
LEMMA SettingsOK ==
    ASSUME IInv, Settings
    PROVE  IInv'
  <1>0. /\ route \in Route /\ org \in OrgPolicies /\ group \in GroupPolicies
        /\ role \in [Users -> Roles \cup {Null}]
    BY DEF IInv, TypeOK
  <1>1. ASSUME NEW o \in OrgPolicies, ChangePolicy(o)
        PROVE  IInv'
    BY <1>0, <1>1, OutsideOK DEF ChangePolicy, Exists
  <1>2. ASSUME NEW u \in Users, NEW r \in Roles \cup {Null}, ChangeRole(u, r)
        PROVE  IInv'
    <2>1. role' \in [Users -> Roles \cup {Null}]
      BY <1>0, <1>2 DEF ChangeRole
    <2> QED BY <1>0, <1>2, <2>1, OutsideOK DEF ChangeRole, Exists
  <1> QED BY <1>1, <1>2, AllowlistOK DEF Settings

------------------------------------------------------------------------------
(* The invariant that carries the results below. *)
THEOREM Inductive == Spec => []IInv
  <1>1. Init => IInv
    BY InitOK
  <1>2. IInv /\ [Next]_vars => IInv'
    <2> SUFFICES ASSUME IInv, [Next]_vars PROVE IInv'
      OBVIOUS
    <2>1. CASE \E u \in Users : Ask(u) \/ Handle(u)
      BY <2>1, AskOK, HandleOK
    <2>2. CASE Unapproved \/ Settings
      BY <2>2, UnapprovedOK, SettingsOK
    <2>3. CASE UNCHANGED vars
      <3>1. /\ route \in Route /\ org \in OrgPolicies /\ group \in GroupPolicies
            /\ role \in [Users -> Roles \cup {Null}]
        BY DEF IInv, TypeOK
      <3> QED BY <2>3, <3>1, OutsideOK DEF vars, Exists
    <2> QED BY <2>1, <2>2, <2>3 DEF Next
  <1> QED BY <1>1, <1>2, PTL DEF Spec

(* The rows, handlers and histories of the workflow keep their types. *)
THEOREM TypeCorrect == Spec => []TypeOK
  <1>1. IInv => TypeOK
    BY DEF IInv
  <1> QED BY <1>1, Inductive, PTL

(* The second check of applyChange is enough: whatever reviewers, edits    *)
(* and list changes overlap, what is applied was accepted after approval.  *)
THEOREM ApplicationIsVetted == Spec => []AppliedWasAllowed
  <1>1. IInv => AppliedWasAllowed
    BY DEF IInv
  <1> QED BY <1>1, Inductive, PTL

(* approve never reports an update as APPLIED that did not reach the       *)
(* route, though its five calls overlap with reviews, edits and deletions: *)
(* a refusal or a failed write ends it before the last mark.               *)
THEOREM ApplicationHasEffect == Spec => []AppliedWasWritten
  <1>1. IInv => AppliedWasWritten
    BY DEF IInv
  <1> QED BY <1>1, Inductive, PTL

(* delete's look at the status is enough, though the status may change     *)
(* before it deletes: it never changes back to PENDING.                    *)
THEOREM DecidedBeforeDeleted == Spec => PendingNotDropped
  <1>1. IInv /\ [Next]_vars =>
          [\A i \in Requests : cr[i].status = "PENDING" => cr'[i].status # "deleted"]_vars
    <2> SUFFICES ASSUME IInv, Next, NEW i \in Requests, cr[i].status = "PENDING"
                 PROVE  cr'[i].status # "deleted"
      BY DEF vars
    <2>1. CASE cr' = cr
      BY <2>1
    <2>2. ASSUME NEW u \in Users, Delete(u)
          PROVE  cr'[i].status # "deleted"
      <3>1. task[u].cr # i
        BY <2>2 DEF Delete, IInv, Decided
      <3> QED BY <2>2, <3>1 DEF Delete, SetStatus, IInv, TypeOK
    <2>3. ASSUME NEW u \in Users, MarkApplied(u) \/ Reject(u)
          PROVE  cr'[i].status # "deleted"
      BY <2>3 DEF MarkApplied, Reject, SetStatus, IInv, TypeOK, Request
    <2>4. ASSUME NEW u \in Users, MarkApproved(u)
          PROVE  cr'[i].status # "deleted"
      BY <2>4 DEF MarkApproved, Refuse, IInv, TypeOK, Request
    <2>5. ASSUME NEW j \in Requests, NEW type, NEW onRoute, NEW t,
                 Create(j, type, onRoute, t)
          PROVE  cr'[i].status # "deleted"
      BY <2>5 DEF Create, IInv, TypeOK
    <2>6. CASE Unapproved
      BY <2>1, <2>6 DEF Unapproved, SetActive, BulkUpdate, ArchiveRoute, RestoreRoute,
                       PermanentlyDeleteRoute, IInv, TypeOK, Request
    <2>7. ASSUME NEW u \in Users, Ask(u)
          PROVE  cr'[i].status # "deleted"
      BY <2>1, <2>5, <2>7 DEF Ask, EditRoute, RequestUpdate, PostChangeRequest,
                             Approve, StartReject, StartDelete
    <2>8. ASSUME NEW u \in Users, Handle(u)
          PROVE  cr'[i].status # "deleted"
      BY <2>1, <2>2, <2>3, <2>4, <2>8 DEF Handle, EditWrite, CheckTarget, Refuse,
                                         CheckTargetAgain, Recheck, ApplyChange, WriteApplied, Crash
    <2>9. CASE Settings
      BY <2>1, <2>9 DEF Settings, ChangePolicy, ChangeAllowlist, ChangeRole
    <2> QED BY <2>6, <2>7, <2>8, <2>9 DEF Next
  <1> QED BY <1>1, Inductive, PTL DEF Spec, PendingNotDropped

==============================================================================
