----------------------- MODULE CircuitBreakerHistory -----------------------
(***************************************************************************)
(* CircuitBreaker with history variables that remember what the breaker    *)
(* itself forgets when it changes state.                                   *)
(***************************************************************************)
EXTENDS CircuitBreaker

VARIABLES
  streak,    \* failures reported since a success was last reported
  sinceOpen  \* time since the breaker last went to OPEN, up to RecoveryTime
             \* (where it starts)

hvars == <<breaker, call, streak, sinceOpen>>

MaxStreak == FailureThreshold + Cardinality(Callers)

Capped(n, max) == IF n > max THEN max ELSE n

HInit == /\ Init
         /\ streak = 0
         /\ sinceOpen = RecoveryTime

HObserve == Observe /\ UNCHANGED <<streak, sinceOpen>>

HRequest(c) == Request(c) /\ UNCHANGED <<streak, sinceOpen>>

HRecordSuccess(c) ==
  /\ RecordSuccess(c)
  /\ streak' = 0
  /\ UNCHANGED sinceOpen

HRecordFailure(c) ==
  /\ RecordFailure(c)
  /\ streak' = Capped(streak + 1, MaxStreak)
  /\ sinceOpen' = IF breaker.state # "OPEN" /\ breaker'.state = "OPEN"
                    THEN 0 ELSE sinceOpen

(* The clock also runs while the breaker does not look at it. *)
HTick ==
  /\ \/ Tick
     \/ sinceOpen < RecoveryTime /\ breaker' = Aged(breaker) /\ UNCHANGED call
  /\ sinceOpen' = Capped(sinceOpen + 1, RecoveryTime)
  /\ UNCHANGED streak

HNext == \/ HObserve
         \/ HTick
         \/ \E c \in Callers : \/ HRequest(c)
                               \/ HRecordSuccess(c)
                               \/ HRecordFailure(c)

HSpec == HInit /\ [][HNext]_hvars

(* The fairness of FairSpec, with the histories. *)
HFairSpec == HSpec /\ WF_hvars(HTick) /\ WF_hvars(HObserve)
-----------------------------------------------------------------------------
(* While the breaker is CLOSED the count is exactly the number of failures  *)
(* reported since the last success, whichever callers reported them, and    *)
(* is under the threshold: failures separated by a success never add up.    *)
CountsConsecutiveFailures ==
  breaker.state = "CLOSED" => /\ breaker.failureCount = streak
                              /\ breaker.failureCount < FailureThreshold

(* A breaker opens only for cause, a failure reported while HALF_OPEN or    *)
(* FailureThreshold failures in a row while CLOSED, and is half-open only   *)
(* after the recovery time has passed since it went to OPEN.                *)
OpensForCause ==
  [][/\ breaker.state = "CLOSED" /\ breaker'.state # "CLOSED" =>
          breaker'.state = "OPEN" /\ streak' = FailureThreshold
     /\ breaker.state # "HALF_OPEN" /\ breaker'.state = "HALF_OPEN" =>
          breaker.state = "OPEN" /\ sinceOpen = RecoveryTime]_hvars
=============================================================================
