------------------------- MODULE CircuitBreakerOps -------------------------
(***************************************************************************)
(* The circuit breaker of one provider (src/delivery/CircuitBreaker.ts) as *)
(* a record and its methods as operators on it, so that a specification    *)
(* may hold one breaker or one per provider.                               *)
(*                                                                         *)
(* openedAt is represented by age, the time elapsed since the breaker      *)
(* opened.  The code only ever compares that time with recoveryTimeMs, so  *)
(* age stops growing at RecoveryTime; it is 0 whenever the breaker is not  *)
(* OPEN, where the code does not read openedAt.  The clock never runs      *)
(* backwards.                                                              *)
(***************************************************************************)
EXTENDS Integers

CONSTANTS FailureThreshold,   \* config.failureThreshold
          RecoveryTime        \* config.recoveryTimeMs, in clock ticks

(* A threshold of 0 would behave as a threshold of 1: it is only compared  *)
(* with the count that recordFailure has just increased.                   *)
ASSUME BreakerAssumption == /\ FailureThreshold \in Nat \ {0}
                            /\ RecoveryTime \in Nat

CircuitState == {"CLOSED", "OPEN", "HALF_OPEN"}

Breakers == [state : CircuitState, failureCount : Nat,
             age : 0..RecoveryTime, probe : BOOLEAN]

NewBreaker == [state |-> "CLOSED", failureCount |-> 0, age |-> 0, probe |-> FALSE]

(* Mutant: open() forgets to release the probe slot. *)
OpenedKeepsProbe(b) ==
  [state |-> "OPEN", failureCount |-> b.failureCount, age |-> 0, probe |-> b.probe]

(* open() *)
Opened(b) ==
  [state |-> "OPEN", failureCount |-> b.failureCount, age |-> 0, probe |-> FALSE]

(* Mutants: the recovery time is not compared, or compared with > on a       *)
(* clock that never exceeds it.                                             *)
RecoveredAtOnce(b) == b.state = "OPEN"
RecoveredTooLate(b) == b.state = "OPEN" /\ b.age > RecoveryTime

(* syncState(), which every read of the state runs first *)
Recovered(b) == b.state = "OPEN" /\ b.age >= RecoveryTime

Synced(b) ==
  IF Recovered(b)
    THEN [state |-> "HALF_OPEN", failureCount |-> 0, age |-> 0, probe |-> FALSE]
    ELSE b

IsOpen(b) == Synced(b).state = "OPEN"

(* Mutant: canRequest() forgets the OPEN case. *)
MayRequestWhenOpen(b) == Synced(b).state = "HALF_OPEN" => ~Synced(b).probe

(* canRequest(): the answer, and the breaker it leaves *)
MayRequest(b) == \/ Synced(b).state = "CLOSED"
                 \/ Synced(b).state = "HALF_OPEN" /\ ~Synced(b).probe

AfterRequest(b) ==
  [Synced(b) EXCEPT !.probe = @ \/ Synced(b).state = "HALF_OPEN"]

(* recordSuccess(), which does not look at the state it finds *)
AfterSuccess(b) == NewBreaker

(* Mutant: > for >= in the comparison with the threshold. *)
AfterFailureOffByOne(b) ==
  LET counted == [b EXCEPT !.failureCount = @ + 1]
  IN  IF b.state = "HALF_OPEN" THEN Opened(b)
      ELSE IF counted.failureCount > FailureThreshold THEN Opened(counted)
      ELSE counted

(* recordFailure() *)
AfterFailure(b) ==
  LET counted == [b EXCEPT !.failureCount = @ + 1]
  IN  IF b.state = "HALF_OPEN" THEN Opened(b)
      ELSE IF counted.failureCount >= FailureThreshold THEN Opened(counted)
      ELSE counted

(* One tick of the clock, as an OPEN breaker sees it. *)
Aged(b) ==
  IF b.state = "OPEN" /\ b.age < RecoveryTime THEN [b EXCEPT !.age = @ + 1] ELSE b
=============================================================================
