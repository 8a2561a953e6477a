# ClusterGate: TLA+ specifications

ClusterGate is an API gateway with an administration backend. Requests to
`/r/...` are matched to a *route*, admitted (circuit breaker, addresses, paths,
rate limit, credentials, signature) and forwarded to the route's target or to
one of several load-balanced targets. Administrators manage routes, API keys,
organizations and approvals through a REST API. All shared state is in
PostgreSQL (through Prisma); several replicas of the backend may run, and each
keeps small caches in memory.

What makes the code hard to get right is the same everywhere in it: every
`await prisma...` is an atomic step of its own, so other requests and other
replicas run between a handler's look at a row and its write; many writes are
promises that nobody waits for, whose errors are swallowed; and what a replica,
a tab or a cache holds in memory is out of date until something tells it so. The
modules here model the components with such state, one module per component,
check them with TLC on small instances and prove properties of all of them with
TLAPS for instances of any size.

Paths below are relative to `src/backend/src/`, those that begin with
`frontend/` to `src/`.

## Inventory

| component | state | operations | what is hard | what makes it correct |
|---|---|---|---|---|
| Circuit breaker (`services/circuitBreakerService.ts`) | four columns of the route | check, recordSuccess, recordFailure, reset | decisions on a snapshot of the route, read-modify-write by overlapping unawaited tasks, restored versions | the columns agree with each other, the threshold is respected, an open breaker is probed, a recovered target is served again |
| API keys (`services/apiKeyService.ts`) | key rows, per-replica positive cache, revocation epoch, usage counters | create, verify, share, detach, revoke, delete, poll, flush | invalidation against verifications under way, several replicas, lost epoch bumps, restarts | a withdrawn or expired key is refused in bounded time, usage is not counted twice |
| Change requests (`services/changeRequestService.ts`) | request rows, route, approval settings, target allowlist | file, approve and apply, reject, delete, direct edit, and the writers that ask for no approval | reviewers that overlap, an approval of several statements, settings that change meanwhile | nothing is applied that the allowlist refused, what is reported applied was written, nothing undecided is dropped |
| Request forwarding (`proxy/proxyHandler.ts`, `services/proxyService.ts`, `lib/streamCapture.ts`) | the request, its pending log writes and marks | match, admit, select, call, retry, relay, log | events of a stream in any order, unawaited writes, retries and the https-to-http fallback | bounded resends, a log that tells what happened |
| Load balancer (`services/loadBalancerService.ts`) | target rows with `isHealthy`, a persisted round-robin index | select, mark, add, update, delete | marks from requests that overlap | only healthy targets are used; what a mark may undo |
| Rate limiting (`lib/rateLimitStore.ts`, `middleware/rateLimiter.ts`) | a counter per replica in memory, one counter row per scope and client | count, let pass, refuse, clean up | the window is computed before the statement runs | no window admits more than its maximum |
| Route lifecycle (`services/routeService.ts`, `routes/routes.router.ts`) | routes, versions, slugs and paths | create, update, publish, deactivate, duplicate, archive, restore, purge, versions, bulk operations | unique paths that archiving frees, version numbers, requests that write by id what they read before | a live route is found under the path it was asked for, every version is kept once |
| Route matching (`proxy/proxyHandler.ts`) | none | find the route of a path | order of candidates | the most specific route wins |
| Incidents and health checks (`services/incidentService.ts`, `services/healthService.ts`) | incident rows, their timeline, the newest health row | probe, open, resolve, dismiss, reopen, delete | look-up then create, resolution from a list read before, tasks nobody waits for | one open incident per route, an outage has one, an operator's decision is kept, the timeline tells the status |
| Notifications (`services/notificationService.ts`) | one row per administrator and report | report, read, delete | look-up then create | one recent unread notification of a kind |
| Sessions and authentication (`services/sessionService.ts`, `authService.ts`, `middleware/authenticate.ts`, `routes/auth.router.ts`) | users row, sessions, token version, temporary tokens | sign in, self service, revoke, reset | a sign-in under way while the password changes or sessions are revoked | a withdrawn token stays withdrawn, a token is of the present password |
| Two-factor authentication (`services/twoFactorService.ts`) | secret, attempt counter, lock-out, recovery codes, challenge | set up, activate, verify, disable | read-modify-write of the counter and of the codes | every wrong code counts, a code and a challenge work once |
| Users, invites, organizations (`services/userService.ts`, `inviteService.ts`, `organizationService.ts`) | users, memberships, invites | create, change roles, remove, accept, purge | count, then update | an admin and an owner always remain, one pending invitation per address |
| Signing in from the browser (`frontend/src/lib/api.ts`, `middleware.ts`, `app/login`) | the cookie all tabs share, a client token per tab, the guard of the resume | load, call, resume, sign in and out | answers that are lost, fail or arrive after another tab signed in | what takes a good cookie away; a dead one leads to the login page; a tab comes to rest |
| Backups (`services/backupService.ts`) | backup rows, all tables | export, restore, retention | export while tables change, tables that are not on the list | what was exported can be restored |
| Updates (`services/updateService.ts`) | a cached result per replica, a persisted one, two deployments | check, report, update, roll out | replicas of two versions share one row | no update is reported that is none |
| Console (`frontend/src/app`, `components`, `hooks`, `lib/api.ts`) | the query cache of a tab | show, fetch, mutate, invalidate | an old answer that arrives after an invalidation, keys that a mutation forgets | the user sees his own change |
| Target policy, transforms, sanitizing, paths | none | pure functions on strings | | covered by unit tests |
| Logs, audit, analytics, achievements | append-only rows | write, query | | |
| Scheduled jobs (`cron/jobs.ts`) | none of their own | timers on every replica | the same job on several replicas | those of the services they call |
| WebSocket proxy, deployment | | | | |

How they interact: `proxyHandler` reads the route with its targets once per
request and hands this snapshot to `proxyRequest`, which asks the breaker, the
rate limiter and the key check, and afterwards starts the tasks that record
success or failure, mark the target, write the log and notify. A breaker that
opens reports an incident. Routes are edited directly or through a change
request; both check the target policy of the organization. Restoring a version
of a route writes the breaker's columns as well. A failed health check and a
breaker that opens both look for an open incident and both notify. The console
talks to the backend through one client (`frontend/src/lib/api.ts`), with the
session cookie and the client token, and keeps what it was told in react-query.

`PROJECT.json` lists every component with its status, and under `hazards` the
places in the code where an interleaving, a late write or a lost one can go
wrong, with the properties aimed at each.

## Modules

| module | models |
|---|---|
| `CircuitBreaker` | the breaker of one route under overlapping requests |
| `BreakerContract` | the state machine that the breaker's header comment promises (abstract specification) |
| `CircuitBreaker_proofs` | its theorems, refinement included |
| `ApiKeyCache`, `ApiKeyCache_proofs` | one API key, the replicas that validate it, and the theorems |
| `ChangeRequests`, `ChangeRequests_proofs` | the approval workflow of one route, and the theorems |
| `ProxyRequest`, `ProxyRequest_proofs` | forwarding, logging and target health of one route, and the theorems |
| `Account`, `Account_proofs` | one account: sign-in, second factor, sessions, self service and what administrators do to it, and the theorems |
| `Members` | users and system roles, invitations, one organization and its members |
| `Browser` | cookie, client tokens and page loads of one browser |
| `RateLimit` | both stages of the limiter for one scope and client |
| `Access_proofs` | the theorems of `Members`, `Browser` and `RateLimit`, and of `MCAccounts` |
| `Incidents`, `Incidents_proofs` | health checks and incidents of one route, and the theorems |
| `Notices` | the throttled notifications about one route |
| `Backups` | export, retention and restore against requests that change the tables |
| `Updates` | update checks on several replicas and the rolling update |
| `Catalog` | the routes themselves: paths, states, versions |
| `ApiClient`, `Hooks`, `Screens`, `Console` | what the console's requests read and change; its queries and mutations; its screens; the query cache over them |
| `Operations_proofs` | the theorems of `Notices`, `Updates`, `Backups`, `Catalog` and `Console`, and of `MCOperations` |
| `MCCircuitBreaker`, `MCApiKeyCache`, `MCChangeRequests`, `MCProxyRequest`, `MCBrowser` | symmetry sets and sets of settings for TLC |
| `MCAccounts` | `Account`, `Members`, `Browser` and `RateLimit` side by side |
| `MCOperations` | `Incidents`, `Notices`, `Backups`, `Updates`, `Catalog` and `Console` side by side |

The modules that `MCAccounts` and `MCOperations` put together share no state in
the code's own terms (each is about rows and memory that the others do not
touch), so a behaviour of the composition is one of a single part, which the
variable `part` names and `MCInit` chooses.

Some definitions stand next to a variant that no specification uses
(`ProbeAtOnce` beside `MayProbe`, `NoSecondCheck` beside `CheckTargetAgain`, and
so on). They are the plausible bugs that the properties were tried against;
`PROJECT.json` pairs them under `mutants`.

### CircuitBreaker

`route` holds the columns `circuitBreakerEnabled`, `cbState`, `cbOpenedAt`,
`cbFailureCount`; `version` a saved version of the route; `request[r]` what an
overlapping request has read; `success[r]` and `failure[r]` the tasks it
started; `upstream` whether the target answers. Time is relative: `cbOpenedAt`
is the time since the breaker opened, capped at the recovery timeout.
`Arrive` is `proxyHandler`'s read, `Admit`, `Probe` and `Reject` are the three
outcomes of `checkCircuitBreaker` on that snapshot, and the two statements of
`recordSuccess` and `recordFailure` are an action each. `LoseTask` is the
swallowed error of an unawaited promise. The threshold and the timeout do not
change while a behaviour runs.

### ApiKeyCache

`key`, `expires` and `covers` are the rows of one key, `epoch` the settings row
of the revocation epoch, `proc[p]` the memory of a replica (cache, pending
usage, poll, operation under way), `check[c]` a verification that waits for the
database. A tick is one poll interval. `CreateApiKey`, `RevokeApiKey`,
`DeleteApiKey`, `SetApiKeyRoutes`, `DetachApiKeyFromRoute` and `MoveRoutes`
(the folder handlers) change what the key covers, in the order of the code:
revoking and deleting drop the cache and bump the epoch *before* they write the
row, the others after. `BumpRevokeEpoch` and `FlushWrite` may fail, `Restart`
loses all memory of a replica. The two `setInterval`s fire whether or not the
last call has returned, so a replica has any number of polls (`Polls`) and flushes
(`Flushes`) under way; the runs give it one poll and two flushes that overlap,
overlapping polls are covered by the theorems. With `Calm` nothing fails, restarts or takes
longer than a tick. `UsageNotOvercounted` is stated without a sum: there is an
assignment of the accepted requests to places (counted by the row, pending or on
its way on a replica, lost) that explains every counter. For finitely many
replicas that is the same as a bound on the sum of the counters, and it can be
proved.

### ChangeRequests

`org`, `group` and `role` are the approval settings and memberships, `allowed`
the targets the organization accepts, `route` the row (live, archived or gone),
`cr[i]` the requests, `task[u]` the handler a user has under way. Two history
variables: `okSince`, whether a request's target has been acceptable at some
time since its approval was marked, and `written`, the requests whose change
reached the row. Approving is six steps (`Approve`, `CheckTarget`,
`MarkApproved`, `CheckTargetAgain`, `ApplyChange`, `MarkApplied`), with `Crash`
between any two. `Unapproved` are the writers of the row that never consult the
workflow: publish and deactivate (single and bulk) ask `canManageRoute` at most,
bulk update may even move the route to a group with other settings, and an owner
archives, restores and deletes. So "every write was approved" is not a promise
of this code, and no property says so. `Settings` are the changes of roles,
approval settings and target list while handlers run.

### ProxyRequest

`route` is the route's settings (relay or buffer, retries), `target` the rows
of `route_targets`, `req[r]` a request from its look-up to its end, `marks[r]`,
`flush[r]` and the `"creating"` rows of `log[r]` the promises it left behind.
The checks that refuse a request are one action, `Refuse`: none of them changes
state of this module. The choice among healthy targets is left open. A crash
loses the pending work of a request.

### Account and Members

`acct` is the users row, `sessions[s]` a row with the token minted for it,
`temps` the temporary tokens between the two factors, `req[r]` a request with
what it has read. Passwords, secrets, challenges and sets of codes are numbers
from one counter. `Login`, `Issue` and the steps of the two-factor service are
statements of their own, because hashing and comparing are awaited between them.
A token is accepted when its row is live and carries the account's
`tokenVersion`; `Dead` is the negation. `Members` has the look, the count and the
write of every handler of `users.router.ts`, `organizations.router.ts` and the
invitations; setup and accepting an invitation are serializable transactions and
one step. The history variables (`overlap`, `shared`, `userOverlap`, ...) record
that two requests overlapped in the one way in which the code does not hold, so
that a property can say "unless" precisely.

### Browser

`cookie` is the browser's, `tab[t]` a tab: where it is (a document on its way,
the console, a screen of the login page, the invitation page), its client token,
the call it waits for and the cookie that was sent with it. The backend's answer
and its arrival are two steps, for the navigation to `/api/auth/resume` as well.
`ServeFails` is an answer after a failed query: an ordinary call leaves the
cookie then, `resumeHandler` clears it, whether the session is good or not
(`auth.router.ts:792`). `resumeSession` is guarded by `RESUME_GUARD_MS` in
session storage.

### RateLimit

`memory[p]` is express-rate-limit's counter of a replica, `row` the shared row,
`attempt[a]` the window a request computed before its statement runs. `starts`,
`admitted` and `late` are history.

### Incidents and Notices

A task (`watch[t]`) is an operator's request, a run of the health checks or the
promise a breaker left; `Abandon` ends it before any statement. `told` is the
status the newest status event of the timeline names. `batch[b]` are the rows of
one report, which stop being recent together.

### Backups, Updates, Catalog

`export` holds the tables still to be read and what was read; `Restore` is one
transaction, which either gives back the contents or changes nothing.
`Updates` has the cached result of each replica, the settings row and the two
deployments, whose rollout replaces replicas one by one.
`Catalog` has the rows with path, tag of the archive, `isActive`, version and
saved versions, and `request[t]`, the requests between their read and their
write by id. The unique index refuses a path that another row has.

### Console

The 53 queries and the mutations of the hooks and pages, with the key each
answer is cached under and the keys each success invalidates, are tables
(`Hooks`) over what the client's calls read and change (`ApiClient`); `Screens`
says which screen has which in use. `Console` follows the entry of one query,
any of them, through mounting, fetching, invalidation, `setQueryData`, answers
and refetches; `writes` counts the changes of its data on the server. React-query
is external and modelled from how the hooks use it. A query of a route's keys or
of a group exists twice, for the one before the user and for another (`otherApiKeys`,
`otherGroupQuery`), since a mutation invalidates the key of one id.

What the user may expect is stated apart from what the mutations invalidate:
`Beside` is what the page that offers the control shows, and the page he is taken
to. `ReadYourWrites` promises that, except for `Overlooked`, the places where such a
page does keep showing old data. Each entry of that list is needed: without it TLC
finds the property violated. Pages further away may stay as they were and nothing
is promised of them; above all, a change of a key that routes share invalidates
the list of one route (`useApiKeys.ts:35`, `51`, `82`), and those of the others stay.

## Runs

| run | instance | shows |
|---|---|---|
| `breaker_races` | 2 streamed requests, threshold 2, lost tasks, configuration changes, restored versions | the columns always agree (`OpenedAtMatchesState`), no interleaving leaves a closed breaker at its threshold (`ClosedBelowThreshold`) |
| `breaker_recovery` | 2 requests, fairness | an open breaker is probed (`OpenIsProbed`); a target that answers for good is served for good (`Recovers`) |
| `breaker_sequential` | 1 request at a time, threshold and timeout 3 | `FollowsContract`: without overlap the code implements `BreakerContract` |
| `breaker_probes` | 2 requests | violation of `HalfOpenAdmitsOne`: HALF_OPEN lets every request through, where the header comment says "Allow one request through" |
| `apikeys_withdrawal` | 1 replica, 2 routes, TTL of 2 ticks, key with or without expiry, 1 operation, 2 uses, 2 overlapping flushes | `WithdrawnWithinTTL`, `NeverCachedPastExpiry`, `UsageNotOvercounted` with failures, restarts and slow queries |
| `apikeys_poll` | 2 replicas, nothing fails or is late | violation of `WithdrawnWithinPoll`: a revoked key can outlive the poll, against the comment at `apiKeyService.ts:55`, because the caches are dropped before the row is written. The first poll of a replica is a further cause: it only initialises `lastSeenEpoch` (line 71), so a bump before it clears nothing |
| `changes_races` | a system admin and a user in any role, one request, roles, route, target list and the settings in `MCChangeRequests` changing at any time | `AppliedWasAllowed`, `AppliedWasWritten`, `PendingNotDropped` |
| `changes_workflow` | one reviewer | violation of `FollowsWorkflow`: a rejected request can be approved and applied, an applied one rejected |
| `proxy_requests` | 2 requests, 1 target, 1 retry, relayed and buffered, with crashes | `CallsBounded`, `RowsTellOutcome`, `BodyTellsEnd`, `NoWayBack` |
| `accounts` | 2 requests, tabs, replicas, sessions and users, 2 invitations, limit 2 in windows of 2 ticks, 1 late statement | `WithdrawnStaysWithdrawn`, `PasswordBound`, `ChallengeOnce`, `TwoFactorExact`, `AdminRemains`, `OwnerRemains`, `OneInvite`, `RateHolds`, `DeadCookieNearsLogin` |
| `browser_fallback` | 1 tab, fairness | violation of `FallbackReachesLogin`: a tab that falls back to the login page with a valid cookie is sent to the console again, and round and round |
| `operations` | 2 tasks, reporters, replicas, requests, incidents, routes and backups; 4 tasks and 5 requests in a behaviour, 3 versions, 3 writes | `OneOpenIncident`, `DismissedStays`, `TimelineTellsStatus`, `OutageHasIncident`, `NoticeThrottled`, `RestoreGivesBack`, `NoPhantomUpdate`, `LiveUnmangled`, `VersionsComplete`, `ReadYourWrites` |

Each passing run except the two about liveness and refinement checks the type
invariants of its modules as well.

Why the bounds are enough. The races of the breaker, of approvals, of
forwarding and of the handlers around accounts, incidents and routes need two parties, one of which acts on what the other has changed; in
most modules a slot is reused, so that behaviours are not bounded in length. A threshold of 2
tells the first failure from the one that opens. Times are relative and capped
where the code stops telling them apart. The TTL of 2 ticks distinguishes an
entry that is too old from one about to be. One operation on a key suffices for
a withdrawal, because the properties are about the time since the last one;
where the bounds (replicas, operations, requests) might hide something, the
theorems below do without them. In `accounts` numbers are drawn from a counter
(`MaxFresh`) and in `operations` tasks, requests, checks and writes are counted;
these bounds are large enough for one request to act on the leftovers of two
others that overlapped, which is the longest chain any of the properties depends
on. `MaxTime` covers three windows and the cleanup of the first. The `-copy` and
`-restored` suffixes of a path are not nested, and the console has one mutation
in flight.

Deadlock is checked in all runs but `apikeys_poll`, `accounts`, `operations` and
`browser_fallback`: in the first three the bounds on uses, requests, tasks and
tokens make behaviours end; in the last a browser may come to rest.

Fairness. In `breaker_recovery`, weak fairness of `Tick` is the clock.
Weak fairness of arriving, failing, rejecting and of the failure tasks says that
traffic keeps coming and that Node runs what is ready. Strong fairness of
`Admit` or `Probe`, of `Respond` and of the success task says that neither the
other refusals (address, rate limit) nor lost tasks hit *every* attempt: the
code retries nothing here, it relies on the next request. Nothing is assumed
about the target; `Recovers` is about behaviours in which it stays up. In
`browser_fallback`, weak fairness of `Progress` of each tab: the browser loads
documents and delivers answers, the backend serves, and a page of the console
that is shown calls the backend (`useAuth`, polling). The user is not assumed to
do anything, and failures (`ServeFails`) are not assumed to happen.

## What the models show beyond the runs

These were met while modelling and follow from the models' states without a run
of their own.

- A `HALF_OPEN` written from a stale snapshot (`circuitBreakerService.ts:47`)
  can end an OPEN that another request has just renewed.
- `approve` marks a request before it checks the target for the second time
  (`changeRequestService.ts:96` and `155`), so "approved but not applied", which
  the comment at line 91 means to exclude, remains possible when the allowlist
  changes in between.
- `applyChange` does nothing for requests of type `create` and `delete`
  (line 145), which become APPLIED all the same.
- The fallback from https to http sends a piped request body a second time
  (`proxyService.ts:523`), although line 492 says that it cannot be replayed.
  `CallsBounded` is stated with this second call.
- Once a target is unhealthy only a request that had selected it before can
  bring it back (`NoWayBack`): no health check or timer marks targets, and the
  update of a target does not accept `isHealthy`.
- `pipe()` leaves the upstream connection open when the client of a relayed
  response leaves (`proxyService.ts:483`).
- Accounts. `updateOrgMemberRole` can demote the last OWNER, and the purge of
  inactive accounts can remove it; `OwnerRemains` excepts both. One account with
  change requests makes the whole purge fail. A 401 that arrives late clears the
  cookie of a newer sign-in, and so does a resume whose check fails with a good
  session (`CookieKept`). The requests that pass while the
  limiter's table cannot be reached are not counted.
- Incidents. An answer of 5xx or a refused address makes a route unhealthy but
  opens no incident (`OutageHasIncident` is about probes that threw). Reopening a
  resolved incident leaves `resolvedAt`.
- Routes. An update that overlaps the archiving of its route writes the archived
  row and saves an archived snapshot, and restoring that version archives the
  route. Duplicating a route that has a slug always fails, since the copy carries
  the same slug; a copy has no version 1. Changing a route's organization leaves
  its folder, although `routes/folders.router.ts:170` says "a folder must never
  span tenants".
- Backups. Folders are not on the list of exported models, and deleting the
  organizations cascades to theirs: a backup with a route in an organization's
  folder can never be restored. A successful restore loses, by cascade, the
  routes and folders shared with keys, and sessions. A key created for a route
  that was created during the export makes the restore fail.
- Updates. Two updates with different cached results, or one that stops halfway,
  can leave an older tag; a check without a token overwrites a good result with
  "no update".
- Console. Importing settings, restoring a backup, testing keys and the cleanups
  refresh nothing. A route's page opened under its slug is not refreshed by
  restoring a version or by a health check; approvals and group assignments leave
  the route lists, key changes the route's row, notes the list of incidents;
  lists and details of organizations and groups miss each other's changes, and
  the breadcrumb and the page title are never refreshed; a change of a key that
  routes share refreshes the list of one of them. `PageTitle.tsx` returns
  before its hooks on `/.../new`.

## Theorems

All hold for any number of requests, replicas, users, routes and targets, and
for every value of the constants that the named assumptions of the module admit.

- `CircuitBreaker_proofs`. `TypeCorrect`, `OpenedAtIsRight`,
  `ThresholdIsRespected`. The invariant is the conjunction of the type invariant
  and `RowOK` of the live row *and of the saved version*: restoring a version
  writes its columns back, so the first is only inductive with the second. Each
  update is shown to keep a row good whatever its task or snapshot had read; that
  is why staleness cannot break the columns. `SerialFollowsContract`: with one
  request at a time every step is a step of `BreakerContract` or a stutter; the
  invariant there says that the snapshot and the pending task agree with the row.
  When requests overlap the code no longer takes the contract's steps (a stale
  snapshot half-opens a closed row, a late failure restarts the timeout). Two of
  its promises remain. `NeverOpensEarly`: beside a count of the `recordFailure`
  statements that wrote (`CountedSpec`, which changes nothing of the breaker), it
  stays CLOSED until they are as many as the threshold; the invariant says that
  rows, versions, snapshots and tasks all owe their state and their count to
  failures that were written (`EarnedInv`). `RepairNeverRuns`: `OpenedAtIsRight` is
  about the row, but `checkCircuitBreaker` decides on a snapshot; no snapshot is
  OPEN without a date either, so its recovery branch is dead code.
- `ApiKeyCache_proofs`. `WithdrawalIsBounded`, `ExpiryIsRespected`. The
  strengthening is `AskedBeforeLoss`: an answer that is no longer true was asked
  for before the key lost the route, because `verifyApiKey` reads the clock
  before the database. The bounds on counters play no role, so `Typed` drops them.
  `UsageIsAccounted`, `TypeCorrect`. Every step either puts one more request in a
  place or moves all requests of one place to another (`OneMore`, `Moved`, with
  the cardinalities in `OneMoreAt` and `MovedAt`), which keeps the explanation
  (`Backed`). `Bounded` adds the ranges; the number of bumps under way is only
  bounded together with "fewer than the calls begun while one has still to
  announce itself" (`Ranged`).
- `ChangeRequests_proofs`. `TypeCorrect`, `ApplicationIsVetted`,
  `DecidedBeforeDeleted`, `ApplicationHasEffect`. `Decided` says that a handler
  which saw or made a decision still finds the request decided, since nothing
  returns it to PENDING; `Vetted` carries acceptance from the second check to the
  write; `Marked` says that a request on the route was on it when a handler marked
  it (deletion of the route takes requests off, nothing puts them back), so that
  `Carried`, a handler past the write of an update has written, is enough for the
  last mark.
- `ProxyRequest_proofs`. `TypeCorrect`, `ResendsAreBounded`, `RowsAreRight`,
  `BodiesAreRight`, `UnhealthyStaysOut`. Requests share only the target rows, so
  the invariant is one predicate on a slot (`Slot`): it bounds the calls by the
  attempt, ties the pending body to the first end of the stream and the rows to
  the outcome. One lemma per action shows that its slot stays in order, `Frame`
  that the others do.
- `Account_proofs`. `AccountTypes` and the invariants `PasswordInv`,
  `ChallengeInv` and `FactorInv`. `PasswordIsBound` and `WithdrawnTokensStayDead`
  (an action property) rest on `VersionsGrow`, no session and no request holds a
  token version newer than the row's, and `PasswordKnown`, whoever holds the
  present version proved the present password: every change of the password
  moves the version. `ChallengeSignsInOnce` needs that a challenge was drawn
  before it is used (`Drawn`), that one which signed in is no longer stored
  (`Cleared`), and that requests which hold the same one are on record
  (`SingleUse`). `TwoFactorIsExact` needs that a request between its read and its
  write, if alone, knows the columns it is going to change (`FactorKept`).
- `Access_proofs`. `MembersTypes`, `AnAdminRemains`, `AnOwnerRemains`,
  `OneInvitePerAddress`, `CookieIsKept`, `LoginIsNearer`, `BrowserTypes`, `RateTypes`, `AccountsTypes`. Administrator, owner and
  invitation each need what a request that has
  passed its count is about to write: as long as nothing overlapped, the count
  still holds, so an administrator survives the write (`Survivor`), and likewise
  an owner; a request that is about to create an invitation has retired the
  pending ones of its address. `CookieIsKept` names every way to lose the
  cookie of a live session: a refusal is about a session that is over, and no later
  sign-in brings a token back (`TabGood`). `LoginIsNearer` is termination without
  fairness: with a dead cookie a tab has at most seven steps of its own to go
  (`StepsLeft`), and only a user or a failed check adds to them, so no tab goes round
  between login page and console; it needs that calls are under way only in the app
  or as the navigation to resume (`CallsInside`). `LimitHolds`: the
  invariant counts how often a window was counted from 1, once, and once more for
  each late statement (`Starts`), and bounds what it admitted by that and by the
  row's count (`Admissions`). The cleanup is harmless because `Hour >= Window`.
- `Incidents_proofs`. `OpensOnce`, `DismissalKept`. The first needs the tasks that
  found nothing and are about to create (`OneOpening`), the second that a settled
  incident is on no list (`SettledOffList`). Most actions change no status; they
  are shown to be `Quiet`, the others to be `Writes`, and the invariant is shown
  once for each of the two. `TimelineIsTrue`: the event to come, or the last one
  there is, names the status (`Tellers`, `ToldOrTelling`). `OutageIsCovered`: runs
  of the health check that did not cross were alone, so that after a failed probe
  no sweep resolves anything and the incident is open or still to come
  (`OutageCovered`). `IncidentsTypes` joins the types of rows and tasks with those of
  the history; an incident is only added to `muddled` by a task that names one.
- `Operations_proofs`. `ThrottleWorks`, `NoticesTypeCorrect`: at most one report
  that did not overlap is between its look-up and its rows, and it found none.
  `UpdatesTypes`, `NoUpdateIsPhantom`: a result compares with the version that
  looked (`Truthful`), wherever it is kept, and the rollout under way names
  versions (`Named`). `BackupsAreRestorable`: keys refer to routes that are there,
  and once the routes are read and none was created they include all there are
  (`RoutesRead`). `CatalogTypes`, `LivePathsAreUntagged`: rows, versions and
  requests are plain (`RowPlain`, `TaskPlain`), and a row about to be tagged is in
  the archive (`StaleStays`). `EveryVersionIsKept`: every version up to the
  current one is saved or in the hands of one request, and no two of these
  coincide (`Complete`), which the cardinalities of the property follow from.
  `OwnWritesAreRead`: data without a mark, and an answer under way, are as new as
  the user's last write (`NewEnough`), provided that the mutations which should
  refresh the followed query do. That they do is `SubjectsRefreshed`, proved over
  the tables of `Hooks` and `Screens` page by page: which rows a query reads
  (`QueryReads`), under which keys a key lies (`KeysAbove`), and that a mutation
  reaches each query of its page that reads what it writes, or is `Overlooked`
  (`Refreshes`, `ScreensFit`, `BesideRefresh`). `BackupsTypes` and `ConsoleTypes` complete the types; retention is
  `Newer`, the backups there are before one, which needs no induction over the list.
- `OperationsTypes` and `AccountsTypes` join the types of the parts of
  `MCOperations` and `MCAccounts`. These modules run independent parts side by
  side, one per behaviour; `PartsAreRespected` shows that each part then follows
  its own specification, so that its theorems hold there.

The assumptions are those the modules name: bounds are natural numbers, not zero
where the first version, attempt or tick has to exist (`BoundAssumption`,
`UpdatesAssumption`, `CatalogAssumption`, `StartedAssumption`), the users are
finitely many (their administrators and owners are counted), a value that stands for "none" is none
of the values it is told apart from (`NullAssumption`, and in
`CatalogAssumption`), times and windows are positive. TLC evaluates them in every
run. Where a bound caps a counter (operations, uses, numbers drawn), the theorem
holds for each value of it.

Only model-checked: the liveness properties `OpenIsProbed` and `Recovers` of the
breaker, because fairness is outside the prover's reach. Every other property of a
passing run, the refinement included, is a theorem; that the four properties of
the remaining runs are violated is shown by TLC alone.

## Not modelled

The components marked `not_modelled` in `PROJECT.json`, each with its reason:
route matching, the WebSocket proxy, transforms and sanitizing, logs and
analytics, startup, deployment. Inside the modelled ones:

- changes of thresholds and timeouts while requests run, several keys or routes
  at once, permission checks of the routers, read and write scopes of keys,
  headers, captured text, the strategies of the load balancer. A target
  misconfigured so that its answers can never be sent (an invalid status from a
  transform) is in `ProxyRequest` but not in `CircuitBreaker`, where answering
  and failing depend on the target alone;
- what a target pattern or an address range matches;
- tokens of old releases without a session id, `lastSeenAt`, the CSRF pair.
  `POST /auth/2fa/verify` reads the token version again, so `PasswordBound` is
  about sign-ins by password alone;
- teams, whose rows no rule looks at;
- slugs of routes, import and export, the merging of group defaults;
- the Docker variant of the update; the cleanup of old logs and health rows;
- rendering, forms, drafts, filters and local settings of the console.

## Plan

1. A contract for overlapping requests as an abstract specification of its own;
   so far what remains of `FollowsContract` there is stated by two theorems.
2. Route matching as a pure operator, checked against "the longest prefix wins";
   the load balancer's strategies.
3. Slugs beside paths in `Catalog`, and import.
