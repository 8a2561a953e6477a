------------------------------ MODULE RateLimit ------------------------------
(***************************************************************************)
(* The two-stage limiter in front of the API: a counter in the memory of   *)
(* each replica, then the row of this client in rate_limit_counters, which *)
(* all replicas share.  A request computes its window before the statement *)
(* that counts it runs, and the statement may run when that window is      *)
(* over.  The scheduled cleanup deletes rows whose window began more than  *)
(* an hour ago.                                                            *)
(*                                                                         *)
(* Data: one limiter scope and one client, hence one row.  Time is counted *)
(* in ticks, `Window' of them to a window.                                 *)
(***************************************************************************)
EXTENDS Integers

CONSTANTS
    Replicas,    \* backend replicas
    Attempts,    \* request slots
    Limit,       \* max: requests allowed in a window
    Window,      \* windowMs, in ticks
    Hour,        \* the age at which rows are purged, in ticks
    MaxTime,     \* bound on the clock
    MaxLate      \* bound on statements that run after their window

ASSUME RateAssumption ==
    /\ Limit \in Nat \ {0} /\ Window \in Nat \ {0} /\ Hour \in Nat /\ Hour >= Window
    /\ MaxTime \in Nat /\ MaxLate \in Nat

VARIABLES
    clock,      \* Date.now()
    memory,     \* per replica: express-rate-limit's counter and when it resets
    row,        \* the row of rate_limit_counters; its window is -1 without one
    attempt,    \* the requests between the two stages
    starts,     \* history: how often each window was counted from 1
    admitted,   \* history: requests that the shared stage allowed, by window
    late        \* history: statements that ran when their window was over

rateVars == <<clock, memory, row, attempt, starts, admitted, late>>

Windows == 0 .. MaxTime \div Window

\* windowStart: Math.floor(now / windowMs), as the number of the window
WindowOf(time) == time \div Window

RateTypeOK ==
    /\ clock \in 0 .. MaxTime
    /\ memory \in [Replicas -> [count : Nat, reset : Nat]]
    /\ row \in [window : Windows \cup {-1}, count : Nat]
    /\ attempt \in [Attempts -> Windows \cup {-1}]
    /\ starts \in [Windows -> Nat]
    /\ admitted \in [Windows -> Nat]
    /\ late \in Nat

RateInit ==
    /\ clock = 0
    /\ memory = [p \in Replicas |-> [count |-> 0, reset |-> 0]]
    /\ row = [window |-> -1, count |-> 0]
    /\ attempt = [a \in Attempts |-> -1]
    /\ starts = [w \in Windows |-> 0]
    /\ admitted = [w \in Windows |-> 0]
    /\ late = 0

Tick ==
    /\ clock < MaxTime
    /\ clock' = clock + 1
    /\ UNCHANGED <<memory, row, attempt, starts, admitted, late>>

\* The counter of a replica after one more request: a window of its own, which
\* begins with the first request it counts
Hit(m) == IF m.reset <= clock
          THEN [count |-> 1, reset |-> clock + Window]
          ELSE [m EXCEPT !.count = @ + 1]

\* First stage: globalMemoryLimiter or authMemoryLimiter; then the window
MemoryAllows(a, p) ==
    /\ attempt[a] = -1
    /\ Hit(memory[p]).count <= Limit
    /\ memory' = [memory EXCEPT ![p] = Hit(@)]
    /\ attempt' = [attempt EXCEPT ![a] = WindowOf(clock)]
    /\ UNCHANGED <<clock, row, starts, admitted, late>>

MemoryRefuses(a, p) ==
    /\ attempt[a] = -1
    /\ Hit(memory[p]).count > Limit
    /\ memory' = [memory EXCEPT ![p] = [Hit(@) EXCEPT !.count = Limit]]
    /\ UNCHANGED <<clock, row, attempt, starts, admitted, late>>

\* The upsert: counts on in the row's window, or starts from 1
Upsert(w) == [window |-> w, count |-> IF row.window = w THEN row.count + 1 ELSE 1]

\* Mutant of Allowed: one too many.
AllowedOneMore(count) == count - 1 <= Limit

Allowed(count) == count <= Limit

\* Second stage: sharedRateLimiter and checkRateLimit
checkRateLimit(a) ==
    LET w == attempt[a]
    IN  /\ w # -1
        /\ w # WindowOf(clock) => late < MaxLate
        /\ row' = Upsert(w)
        /\ starts' = [starts EXCEPT ![w] = IF row.window = w THEN @ ELSE @ + 1]
        /\ admitted' = [admitted EXCEPT ![w] = IF Allowed(row'.count) THEN @ + 1 ELSE @]
        /\ late' = IF w # WindowOf(clock) THEN late + 1 ELSE late
        /\ attempt' = [attempt EXCEPT ![a] = -1]
        /\ UNCHANGED <<clock, memory>>

\* The table cannot be reached: the request is refused with failClosed and
\* passes without it, and is not counted either way
StoreFails(a) ==
    /\ attempt[a] # -1
    /\ attempt' = [attempt EXCEPT ![a] = -1]
    /\ UNCHANGED <<clock, memory, row, starts, admitted, late>>

\* The row's window began before the cutoff
Stale == row.window # -1 /\ row.window * Window < clock - Hour

cleanupRateLimitCounters ==
    /\ Stale
    /\ row' = [window |-> -1, count |-> 0]
    /\ UNCHANGED <<clock, memory, attempt, starts, admitted, late>>

RateNext ==
    \/ Tick
    \/ \E a \in Attempts :
          \/ \E p \in Replicas : MemoryAllows(a, p) \/ MemoryRefuses(a, p)
          \/ checkRateLimit(a)
          \/ StoreFails(a)
    \/ cleanupRateLimitCounters

RateSpec == RateInit /\ [][RateNext]_rateVars

-----------------------------------------------------------------------------

\* The shared stage allows at most Limit requests in a window, however many
\* replicas count and whatever the cleanup deletes; each statement that runs
\* after its window can make one window count from the start again.
RateHolds == \A w \in Windows : admitted[w] <= Limit * (1 + late)

=============================================================================
