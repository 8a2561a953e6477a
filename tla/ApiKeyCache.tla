------------------------------ MODULE ApiKeyCache ------------------------------
(***************************************************************************)
(* One API key and the replicas that validate it: the positive cache of    *)
(* verifyApiKey, the revocation epoch that the replicas poll, the          *)
(* operations that withdraw the key from routes, and the batched usage     *)
(* counter.                                                                *)
(*                                                                         *)
(* The database row is shared; validCache, pendingUsage and lastSeenEpoch  *)
(* belong to a process and are lost when it restarts.  Every awaited query *)
(* is a step, so what a replica learnt from one may be out of date when it *)
(* acts on it.                                                             *)
(*                                                                         *)
(* Data: a clock tick is one poll interval (10 s).  A cache entry is the   *)
(* time it still lives, a key's expiry the time it still has.  An epoch is *)
(* a number, 0 for the missing settings row; the code only compares epochs *)
(* for equality.  Names, hints, scope and IPs decide nothing here.         *)
(***************************************************************************)
EXTENDS Integers, FiniteSets

CONSTANTS
    Replicas,   \* the gateway's processes
    Checks,     \* slots: how many verifications may wait for the database
    Polls,      \* slots: how many polls a replica may have under way
    Flushes,    \* slots: how many flushes a replica may have under way
    Routes,     \* the routes the key may cover
    Owner,      \* the route that owns the key
    TTL,        \* POSITIVE_TTL_MS, in ticks
    Lifetime,   \* the time to expiry of a key created with expiresAt
    MaxOps,     \* bound on administrative operations
    MaxUses,    \* bound on accepted requests
    Calm,       \* TRUE: nothing restarts, fails or outlasts a tick
    Null

ASSUME OwnerAssumption == Owner \in Routes
ASSUME TimeAssumption  == TTL \in Nat \ {0} /\ Lifetime \in Nat \ {0}
ASSUME BoundAssumption == MaxOps \in Nat /\ MaxUses \in Nat
ASSUME NullAssumption  == Null \notin Int \cup Routes \cup Replicas
ASSUME CalmAssumption  == Calm \in BOOLEAN

VARIABLES
    key,        \* the api_keys row
    expires,    \* time until its expiresAt, Null if it has none
    covers,     \* api_key_routes rows, and the routes in its bound folders
    epoch,      \* the system_settings row apiKeyRevokeEpoch
    proc,       \* per replica, its in-memory state
    check,      \* the verifications that wait for the database
    ops, used,  \* history: operations started, requests accepted
    lost        \* history: per route, time since the key stopped being valid

vars == <<key, expires, covers, epoch, proc, check, ops, used, lost>>

Key == [status : {"none", "stored", "deleted"}, isActive : BOOLEAN,
        usageCount : 0 .. MaxUses]

Covers == [sharedRoutes : SUBSET Routes, folderRoutes : SUBSET Routes]

Epoch == 0 .. MaxOps + 1

Process ==
    [validCache    : [Routes -> 0 .. TTL],
     pendingUsage  : 0 .. MaxUses,
     flushing      : [Flushes -> 0 .. MaxUses],  \* the increments flushes have sent
     lastSeenEpoch : Epoch,
     polled        : [Polls -> Epoch \cup {Null}],  \* what polls have read
     due           : BOOLEAN,              \* the poll timer has fired
     op            : {"idle", "revoking", "deleting", "announcing"},
     bumps         : 0 .. MaxOps]          \* bumpRevokeEpoch calls under way

Check == [pc : {"idle", "asking", "answered"}, on : Replicas \cup {Null},
          route : Routes \cup {Null}, age : 0 .. TTL, unexpired : BOOLEAN]

TypeOK ==
    /\ key \in Key
    /\ expires \in (0 .. Lifetime) \cup {Null}
    /\ covers \in Covers
    /\ epoch \in Epoch
    /\ proc \in [Replicas -> Process]
    /\ check \in [Checks -> Check]
    /\ ops \in 0 .. MaxOps
    /\ used \in 0 .. MaxUses
    /\ lost \in [Routes -> 0 .. TTL]

------------------------------------------------------------------------------
Empty == [rt \in Routes |-> 0]
NoFlush == [k \in Flushes |-> 0]
NoPoll == [k \in Polls |-> Null]

Started ==
    [validCache |-> Empty, pendingUsage |-> 0, flushing |-> NoFlush,
     lastSeenEpoch |-> 0, polled |-> NoPoll, due |-> FALSE, op |-> "idle",
     bumps |-> 0]

Idle == [pc |-> "idle", on |-> Null, route |-> Null, age |-> 0,
         unexpired |-> FALSE]

Init ==
    /\ key = [status |-> "none", isActive |-> TRUE, usageCount |-> 0]
    /\ expires = Null
    /\ covers = [sharedRoutes |-> {}, folderRoutes |-> {}]
    /\ epoch \in {0, 1}   \* perhaps an earlier revocation left the row
    /\ proc = [p \in Replicas |-> Started]
    /\ check = [c \in Checks |-> Idle]
    /\ ops = 0
    /\ used = 0
    /\ lost = Empty

(* keyCoversRoute: owned, shared, or in a folder the key is bound to. *)
KeyCoversRoute(rt) ==
    \/ rt = Owner
    \/ rt \in covers.sharedRoutes
    \/ rt \in covers.folderRoutes

(* The conditions of verifyApiKey's query that are the database's to see. *)
Usable(rt) ==
    /\ key.status = "stored"
    /\ key.isActive
    /\ KeyCoversRoute(rt)

Unexpired == expires = Null \/ expires > 0

(* The key is good for rt at this moment. *)
Valid(rt) == Usable(rt) /\ Unexpired

(* The history of a route starts over with a step from a valid key. *)
KeepHistory == lost' = [rt \in Routes |-> IF Valid(rt) THEN 0 ELSE lost[rt]]

------------------------------------------------------------------------------
(* The administrator's operations, on replica p *)

(* createApiKey; a key has its hash for life, so one key is created once. *)
CreateApiKey(S, B, e) ==
    /\ key.status = "none"
    /\ key' = [key EXCEPT !.status = "stored"]
    /\ expires' = e
    /\ covers' = [sharedRoutes |-> S \ {Owner}, folderRoutes |-> B]
    /\ KeepHistory
    /\ UNCHANGED <<epoch, proc, check, ops, used>>

(* What invalidateCache does, with the epoch bump that always follows it. *)
Invalidated(s, op) ==
    [s EXCEPT !.validCache = Empty, !.bumps = @ + 1, !.op = op]

Begin(p) ==
    /\ key.status = "stored"
    /\ proc[p].op = "idle"
    /\ ops < MaxOps
    /\ ops' = ops + 1

(* revokeApiKey and deleteApiKey find the key, drop the local cache, start *)
(* the bump, and only then write the row.                                  *)
RevokeApiKey(p) ==
    /\ Begin(p)
    /\ proc' = [proc EXCEPT ![p] = Invalidated(@, "revoking")]
    /\ UNCHANGED <<key, expires, covers, epoch, check, used, lost>>

RevokeWrite(p) ==
    /\ proc[p].op = "revoking"
    /\ proc' = [proc EXCEPT ![p].op = "idle"]
    /\ key' = [key EXCEPT !.isActive = @ /\ key.status = "deleted"]
    /\ KeepHistory
    /\ UNCHANGED <<expires, covers, epoch, check, ops, used>>

DeleteApiKey(p) ==
    /\ Begin(p)
    /\ proc' = [proc EXCEPT ![p] = Invalidated(@, "deleting")]
    /\ UNCHANGED <<key, expires, covers, epoch, check, used, lost>>

DeleteWrite(p) ==
    /\ proc[p].op = "deleting"
    /\ proc' = [proc EXCEPT ![p].op = "idle"]
    /\ key' = [key EXCEPT !.status = "deleted"]
    /\ covers' = [covers EXCEPT !.sharedRoutes = {}, !.folderRoutes = {}]
    /\ KeepHistory
    /\ UNCHANGED <<expires, epoch, check, ops, used>>

(* setApiKeyRoutes, detachApiKeyFromRoute and the folder handlers write    *)
(* first and invalidate when the write has returned.                       *)
SetApiKeyRoutes(p, S, B) ==
    /\ Begin(p)
    /\ covers' = [sharedRoutes |-> S \ {Owner}, folderRoutes |-> B]
    /\ proc' = [proc EXCEPT ![p].op = "announcing"]
    /\ KeepHistory
    /\ UNCHANGED <<key, expires, epoch, check, used>>

DetachApiKeyFromRoute(p, rt) ==
    /\ Begin(p)
    /\ rt \in covers.sharedRoutes
    /\ covers' = [covers EXCEPT !.sharedRoutes = @ \ {rt}]
    /\ proc' = [proc EXCEPT ![p].op = "announcing"]
    /\ KeepHistory
    /\ UNCHANGED <<key, expires, epoch, check, used>>

(* A bound folder is deleted, or routes move into it or out of it. *)
MoveRoutes(p, B) ==
    /\ Begin(p)
    /\ B # covers.folderRoutes
    /\ covers' = [covers EXCEPT !.folderRoutes = B]
    /\ proc' = [proc EXCEPT ![p].op = "announcing"]
    /\ KeepHistory
    /\ UNCHANGED <<key, expires, epoch, check, used>>

Announce(p) ==
    /\ proc[p].op = "announcing"
    /\ proc' = [proc EXCEPT ![p] = Invalidated(@, "idle")]
    /\ UNCHANGED <<key, expires, covers, epoch, check, ops, used, lost>>

------------------------------------------------------------------------------
(* The revocation epoch *)

(* bumpRevokeEpoch writes Date.now(), which two bumps may share; its       *)
(* errors are swallowed.                                                   *)
BumpRevokeEpoch(p) ==
    /\ proc[p].bumps > 0
    /\ proc' = [proc EXCEPT ![p].bumps = @ - 1]
    /\ epoch' \in (IF Calm THEN {epoch + 1} ELSE {epoch, epoch + 1}) \cap Epoch
    /\ UNCHANGED <<key, expires, covers, check, ops, used, lost>>

(* pollRevokeEpoch: the timer's query, and what its answer causes.  The    *)
(* timer does not wait for the last poll, so answers may come out of order. *)
PollRead(p, k) ==
    /\ proc[p].due
    /\ proc[p].polled[k] = Null
    /\ proc' = [proc EXCEPT ![p].polled[k] = epoch, ![p].due = FALSE]
    /\ UNCHANGED <<key, expires, covers, epoch, check, ops, used, lost>>

AfterPoll(s, k) ==
    [s EXCEPT !.validCache = IF s.lastSeenEpoch # 0 /\ s.polled[k] # s.lastSeenEpoch
                             THEN Empty ELSE @,
              !.lastSeenEpoch = s.polled[k], !.polled[k] = Null]

PollApply(p, k) ==
    /\ proc[p].polled[k] # Null
    /\ proc' = [proc EXCEPT ![p] = AfterPoll(@, k)]
    /\ UNCHANGED <<key, expires, covers, epoch, check, ops, used, lost>>

------------------------------------------------------------------------------
(* verifyApiKey on replica p for route rt *)

(* recordUsage, which both ways of accepting a request end with. *)
RecordUsage(s) == [s EXCEPT !.pendingUsage = @ + 1]

Accepted == used < MaxUses /\ used' = used + 1

VerifyCached(p, rt) ==
    /\ proc[p].validCache[rt] > 0
    /\ Accepted
    /\ proc' = [proc EXCEPT ![p] = RecordUsage(@)]
    /\ UNCHANGED <<key, expires, covers, epoch, check, ops, lost>>

(* A miss: now and the query's new Date() are taken here. *)
VerifyAsk(c, p, rt) ==
    /\ check[c].pc = "idle"
    /\ key.status # "none"
    /\ proc[p].validCache[rt] = 0
    /\ check' = [check EXCEPT ![c] =
            [pc |-> "asking", on |-> p, route |-> rt, age |-> 0,
             unexpired |-> Unexpired]]
    /\ UNCHANGED <<key, expires, covers, epoch, proc, ops, used, lost>>

(* The database evaluates the query. *)
Found(c) == check[c].unexpired /\ Usable(check[c].route)

VerifyFound(c) ==
    /\ check[c].pc = "asking"
    /\ Found(c)
    /\ check' = [check EXCEPT ![c].pc = "answered"]
    /\ UNCHANGED <<key, expires, covers, epoch, proc, ops, used, lost>>

VerifyRefused(c) ==
    /\ check[c].pc = "asking"
    /\ ~Found(c)
    /\ check' = [check EXCEPT ![c] = Idle]
    /\ UNCHANGED <<key, expires, covers, epoch, proc, ops, used, lost>>

Least(a, b) == IF a <= b THEN a ELSE b

ClockReadAfterQuery(c) == IF expires = Null THEN TTL ELSE Least(TTL, expires)
ExpiryIgnored(c) == TTL - check[c].age
AgeAdded(c) ==
    IF expires = Null THEN TTL + check[c].age
                      ELSE Least(TTL + check[c].age, expires)

(* cacheUntil minus the present: now + min(POSITIVE_TTL_MS, expiresAt - now). *)
EntryLife(c) ==
    IF expires = Null THEN TTL - check[c].age
                      ELSE Least(TTL - check[c].age, expires)

(* The answer is cached, whatever was invalidated while it was under way.  *)
VerifyFill(c) ==
    LET p == check[c].on  rt == check[c].route IN
    /\ check[c].pc = "answered"
    /\ Accepted
    /\ proc' = [proc EXCEPT ![p] =
                    [RecordUsage(@) EXCEPT !.validCache[rt] = EntryLife(c)]]
    /\ check' = [check EXCEPT ![c] = Idle]
    /\ UNCHANGED <<key, expires, covers, epoch, ops, lost>>

------------------------------------------------------------------------------
(* flushUsage: the counts are taken out of the map before they are sent,   *)
(* so that a flush may begin while others have still to be answered.       *)

FlushKeepsPending(s, k) == [s EXCEPT !.flushing[k] = s.pendingUsage]

Flushed(s, k) == [s EXCEPT !.flushing[k] = s.pendingUsage, !.pendingUsage = 0]

FlushUsage(p, k) ==
    /\ proc[p].pendingUsage > 0
    /\ proc[p].flushing[k] = 0
    /\ proc' = [proc EXCEPT ![p] = Flushed(@, k)]
    /\ UNCHANGED <<key, expires, covers, epoch, check, ops, used, lost>>

FlushWrite(p, k) ==
    /\ proc[p].flushing[k] > 0
    /\ key.status = "stored"
    /\ key' = [key EXCEPT !.usageCount = @ + proc[p].flushing[k]]
    /\ proc' = [proc EXCEPT ![p].flushing[k] = 0]
    /\ UNCHANGED <<expires, covers, epoch, check, ops, used, lost>>

(* .catch(() => {}): the counts are gone. *)
FlushFails(p, k) ==
    /\ proc[p].flushing[k] > 0
    /\ proc' = [proc EXCEPT ![p].flushing[k] = 0]
    /\ UNCHANGED <<key, expires, covers, epoch, check, ops, used, lost>>

------------------------------------------------------------------------------
(* The environment *)

Restart(p) ==
    /\ ~Calm
    /\ proc' = [proc EXCEPT ![p] = Started]
    /\ check' = [c \in Checks |-> IF check[c].on = p THEN Idle ELSE check[c]]
    /\ UNCHANGED <<key, expires, covers, epoch, ops, used, lost>>

Less(n) == IF n > 0 THEN n - 1 ELSE 0
More(n) == IF n < TTL THEN n + 1 ELSE TTL

Settled(s) == ~s.due /\ s.polled = NoPoll /\ s.op = "idle" /\ s.bumps = 0

Tick ==
    /\ Calm => /\ \A p \in Replicas : Settled(proc[p])
               /\ \A c \in Checks : check[c].pc = "idle"
    /\ expires' = IF expires = Null THEN Null ELSE Less(expires)
    /\ proc' = [p \in Replicas |->
                  [proc[p] EXCEPT !.due = TRUE,
                     !.validCache = [rt \in Routes |-> Less(proc[p].validCache[rt])]]]
    /\ check' = [c \in Checks |-> IF check[c].pc = "idle" THEN check[c]
                                  ELSE [check[c] EXCEPT !.age = More(@)]]
    /\ lost' = [rt \in Routes |-> IF Valid(rt) THEN 0 ELSE More(lost[rt])]
    /\ UNCHANGED <<key, covers, epoch, ops, used>>

Administer(p) ==
    \/ RevokeApiKey(p) \/ RevokeWrite(p) \/ DeleteApiKey(p) \/ DeleteWrite(p)
    \/ \E S, B \in SUBSET Routes : SetApiKeyRoutes(p, S, B)
    \/ \E rt \in Routes : DetachApiKeyFromRoute(p, rt)
    \/ \E B \in SUBSET Routes : MoveRoutes(p, B)
    \/ Announce(p)

Serve(p) ==
    \/ BumpRevokeEpoch(p)
    \/ \E k \in Polls : PollRead(p, k) \/ PollApply(p, k)
    \/ \E rt \in Routes : VerifyCached(p, rt)
    \/ \E c \in Checks, rt \in Routes : VerifyAsk(c, p, rt)
    \/ \E k \in Flushes : FlushUsage(p, k) \/ FlushWrite(p, k) \/ FlushFails(p, k)
    \/ Restart(p)

Answer(c) == VerifyFound(c) \/ VerifyRefused(c) \/ VerifyFill(c)

Next ==
    \/ \E S, B \in SUBSET Routes, e \in {Lifetime, Null} : CreateApiKey(S, B, e)
    \/ \E p \in Replicas : Administer(p) \/ Serve(p)
    \/ \E c \in Checks : Answer(c)
    \/ Tick

Spec == Init /\ [][Next]_vars

------------------------------------------------------------------------------
(* A replica accepts a key for a route it is no longer valid for at most   *)
(* until POSITIVE_TTL_MS after it lost the route, however late the answer  *)
(* that verifyApiKey caches came, and whatever became of the epoch.        *)
WithdrawnWithinTTL ==
    \A p \in Replicas, rt \in Routes :
        proc[p].validCache[rt] > 0 /\ ~Valid(rt)
            => proc[p].validCache[rt] + lost[rt] <= TTL

(* The cache never accepts a key past its expiresAt: verifyApiKey shortens *)
(* the entry's life to the key's.                                          *)
NeverCachedPastExpiry ==
    \A p \in Replicas, rt \in Routes :
        proc[p].validCache[rt] > 0 => expires = Null \/ proc[p].validCache[rt] <= expires

(* Where an accepted request may be: counted by the row, pending or in one *)
(* of the flushes of a replica, or lost with a failed flush or a restart.  *)
Counted == <<"counted", Null, Null>>
Lost == <<"lost", Null, Null>>
PendingOn(p) == <<"pending", p, Null>>
FlushingOn(p, k) == <<"flushing", p, k>>

Places == {Counted, Lost} \cup {PendingOn(p) : p \in Replicas}
                          \cup {FlushingOn(p, k) : p \in Replicas, k \in Flushes}

(* The requests among the first n that are in place x. *)
At(place, n, x) == {i \in 1 .. n : place[i] = x}

Explains(place) ==
    /\ Cardinality(At(place, used, Counted)) = key.usageCount
    /\ \A p \in Replicas :
          /\ Cardinality(At(place, used, PendingOn(p))) = proc[p].pendingUsage
          /\ \A k \in Flushes :
                Cardinality(At(place, used, FlushingOn(p, k))) = proc[p].flushing[k]

(* Each accepted request is in one place, and that explains every counter: *)
(* usageCount, with what the replicas have still to write, never exceeds   *)
(* the requests that were accepted.  recordUsage counts each once and      *)
(* flushUsage sends each count once, even while others are under way.      *)
UsageNotOvercounted == \E place \in [1 .. used -> Places] : Explains(place)

(* What the comment above lastSeenEpoch promises: once every replica has   *)
(* polled after the key was withdrawn from a route, none accepts it there. *)
WithdrawnWithinPoll ==
    \A p \in Replicas, rt \in Routes :
        ~Valid(rt) /\ lost[rt] >= 2 => proc[p].validCache[rt] = 0

==============================================================================
