------------------------------- MODULE Notices -------------------------------
(***************************************************************************)
(* The notifications about one route (services/notificationService.ts,     *)
(* routes/notifications.router.ts).  Callers report a failed request, an   *)
(* unreachable target or an expiring key; each report first looks for a    *)
(* recent notification of its kind and then creates one row for every      *)
(* active administrator, in statements of their own.  The administrators   *)
(* read and delete their rows meanwhile.  The rows of one report are a     *)
(* batch: they are of the same moment and stop being recent together.      *)
(***************************************************************************)
EXTENDS FiniteSets

CONSTANTS
  Admin,        \* the active administrators
  Reporter,     \* the reports that may be under way at the same time: a bound
  Batch         \* the recent batches there may be: a bound

\* notifyRouteError, notifyHealthDown and notifyKeyExpiring, by the type they write.
Kind == {"route.error", "health.down", "apikey.expiring"}

VARIABLES
  kind,         \* the type of notification that a behaviour is about
  batch,        \* the recent rows: by whom they are unread and by whom read
  report,       \* the reports under way
  doubled       \* history: batches whose report overlapped another or could not look

noticeVars == <<kind, batch, report, doubled>>

Rows == [unread: SUBSET Admin, read: SUBSET Admin]

NoRows == [unread |-> {}, read |-> {}]

NoticesInit ==
  /\ kind \in Kind
  /\ batch = [b \in Batch |-> NoRows]
  /\ report = [r \in Reporter |-> "none"]
  /\ doubled = {}

\* The rows that count for the throttle: the unread ones; for expiring keys also the read ones.
Counted(rows) == IF kind = "apikey.expiring" THEN rows.unread \cup rows.read ELSE rows.unread

\* Whether the look-up finds recent rows that count, of whichever administrator.
HoldsBackAll(rows) == Counted(rows) = Admin
HoldsBack(rows) == Counted(rows) # {}

\* The look-up of notifyRouteError, notifyKeyExpiring and notifyHealthDown.
LookForRecent(r) ==
  /\ report[r] = "none"
  /\ \A b \in Batch : ~HoldsBack(batch[b])
  /\ report' = [report EXCEPT ![r] = IF \E o \in Reporter : report[o] # "none" THEN "late" ELSE "first"]
  /\ UNCHANGED <<kind, batch, doubled>>

\* A look-up that fails is ignored, and the notification is created.
LookFails(r) ==
  /\ report[r] = "none"
  /\ report' = [report EXCEPT ![r] = "late"]
  /\ UNCHANGED <<kind, batch, doubled>>

\* createNotification without a user: the administrators, then their rows in one statement.
createNotification(r, b) ==
  /\ report[r] # "none"
  /\ batch[b] = NoRows
  /\ batch' = [batch EXCEPT ![b].unread = Admin]
  /\ doubled' = IF report[r] = "late" THEN doubled \cup {b} ELSE doubled \ {b}
  /\ report' = [report EXCEPT ![r] = "none"]
  /\ UNCHANGED kind

\* createNotification logs a failure and goes on; a replica that stops has the same effect.
CreateFails(r) ==
  /\ report[r] # "none"
  /\ report' = [report EXCEPT ![r] = "none"]
  /\ UNCHANGED <<kind, batch, doubled>>

\* markAsRead, PATCH /notifications/:id/read.
markAsRead(a, b) ==
  /\ a \in batch[b].unread
  /\ batch' = [batch EXCEPT ![b] = [unread |-> @.unread \ {a}, read |-> @.read \cup {a}]]
  /\ UNCHANGED <<kind, report, doubled>>

\* markAllAsRead, PATCH /notifications/read-all.
markAllAsRead(a) ==
  /\ batch' = [b \in Batch |-> IF a \in batch[b].unread
                               THEN [unread |-> batch[b].unread \ {a}, read |-> batch[b].read \cup {a}]
                               ELSE batch[b]]
  /\ UNCHANGED <<kind, report, doubled>>

\* deleteNotification, DELETE /notifications/:id.
deleteNotification(a, b) ==
  /\ batch' = [batch EXCEPT ![b] = [unread |-> @.unread \ {a}, read |-> @.read \ {a}]]
  /\ UNCHANGED <<kind, report, doubled>>

\* deleteAllRead, DELETE /notifications/read.
deleteAllRead(a) ==
  /\ batch' = [b \in Batch |-> [batch[b] EXCEPT !.read = @ \ {a}]]
  /\ UNCHANGED <<kind, report, doubled>>

\* The rows of a batch are older than the throttle looks back.
Ages(b) ==
  /\ batch' = [batch EXCEPT ![b] = NoRows]
  /\ UNCHANGED <<kind, report, doubled>>

NoticesNext ==
  \/ \E r \in Reporter : \/ LookForRecent(r) \/ LookFails(r) \/ CreateFails(r)
                         \/ \E b \in Batch : createNotification(r, b)
  \/ \E a \in Admin : \/ markAllAsRead(a) \/ deleteAllRead(a)
                      \/ \E b \in Batch : markAsRead(a, b) \/ deleteNotification(a, b)
  \/ \E b \in Batch : Ages(b)

NoticesSpec == NoticesInit /\ [][NoticesNext]_noticeVars

-----------------------------------------------------------------------------
(* Properties *)

NoticesTypeOK ==
  /\ kind \in Kind
  /\ batch \in [Batch -> Rows]
  /\ report \in [Reporter -> {"none", "first", "late"}]
  /\ doubled \subseteq Batch
  /\ \A b \in Batch : batch[b].unread \cap batch[b].read = {}

\* "Throttle: only create if no recent unread error notification for this route" (and the
\* same for the other two): no administrator has two recent unread notifications of a kind
\* about a route, and about an expiring key not even two recent ones, unless the reports
\* overlapped or the look-up failed.
NoticeThrottled ==
  \A b, c \in Batch \ doubled : b # c => Counted(batch[b]) \cap Counted(batch[c]) = {}
=============================================================================
