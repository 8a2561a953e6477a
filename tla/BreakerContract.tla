--------------------------- MODULE BreakerContract ---------------------------
(***************************************************************************)
(* The circuit breaker as the header comment of circuitBreakerService.ts   *)
(* promises it: CLOSED -> OPEN -> HALF_OPEN -> CLOSED, with the failure    *)
(* counter of CLOSED, the recovery timeout of OPEN and the verdict of the  *)
(* probe in HALF_OPEN.  There are no requests here, only what a caller may *)
(* observe of the breaker's columns.  CircuitBreaker is compared with it.  *)
(***************************************************************************)
EXTENDS Integers

CONSTANTS
    Threshold,        \* route.cbFailureThreshold
    RecoveryTimeout,  \* route.cbRecoveryTimeout, in clock ticks
    Null              \* the SQL null of cbOpenedAt

VARIABLES
    cbState,
    cbFailureCount,
    cbOpenedAt        \* ticks since the breaker opened, or Null

contractVars == <<cbState, cbFailureCount, cbOpenedAt>>

CInit ==
    /\ cbState = "CLOSED"
    /\ cbFailureCount = 0
    /\ cbOpenedAt = Null

(* "CLOSED: Requests flow normally. Failures increment counter." *)
CountFailure ==
    /\ cbState = "CLOSED"
    /\ cbFailureCount + 1 < Threshold
    /\ cbFailureCount' = cbFailureCount + 1
    /\ UNCHANGED <<cbState, cbOpenedAt>>

CountSuccess ==
    /\ cbState = "CLOSED"
    /\ cbFailureCount' = 0
    /\ UNCHANGED <<cbState, cbOpenedAt>>

Trip ==
    /\ cbState = "CLOSED"
    /\ cbFailureCount + 1 >= Threshold
    /\ cbState' = "OPEN"
    /\ cbFailureCount' = Threshold
    /\ cbOpenedAt' = 0

(* "After recovery timeout, move to HALF_OPEN." *)
HalfOpen ==
    /\ cbState = "OPEN"
    /\ cbOpenedAt >= RecoveryTimeout
    /\ cbState' = "HALF_OPEN"
    /\ UNCHANGED <<cbFailureCount, cbOpenedAt>>

(* "On success -> CLOSED, on failure -> OPEN." *)
Close ==
    /\ cbState = "HALF_OPEN"
    /\ cbState' = "CLOSED"
    /\ cbFailureCount' = 0
    /\ cbOpenedAt' = Null

Reopen ==
    /\ cbState = "HALF_OPEN"
    /\ cbState' = "OPEN"
    /\ cbOpenedAt' = 0
    /\ UNCHANGED cbFailureCount

Wait ==
    /\ cbOpenedAt # Null
    /\ cbOpenedAt < RecoveryTimeout
    /\ cbOpenedAt' = cbOpenedAt + 1
    /\ UNCHANGED <<cbState, cbFailureCount>>

CNext ==
    \/ CountFailure \/ CountSuccess \/ Trip
    \/ HalfOpen \/ Close \/ Reopen
    \/ Wait

Contract == CInit /\ [][CNext]_contractVars

==============================================================================
