------------------------ MODULE CircuitBreakerProofs ------------------------
(***************************************************************************)
(* Proofs about CircuitBreaker and CircuitBreakerHistory, for any number   *)
(* of callers, any threshold and any recovery time.                        *)
(***************************************************************************)
EXTENDS CircuitBreakerHistory, FiniteSetTheorems, TLAPS

USE BreakerAssumption, CallersAssumption DEF BreakerAssumption, CallersAssumption

(* A CLOSED breaker is short of the threshold, a HALF_OPEN one counts from 0. *)
CountInv ==
  /\ breaker.state = "CLOSED" => breaker.failureCount < FailureThreshold
  /\ breaker.state = "HALF_OPEN" => breaker.failureCount = 0

(* The inductive invariant: the slot and the bound need to know what the    *)
(* count is when the breaker opens.                                         *)
IInv == TypeOK /\ CountInv /\ ProbeSlotHeld /\ LateFailuresBounded

(* The calls in flight are a finite number, at most one per caller. *)
LEMMA InFlightFinite ==
  /\ IsFiniteSet(InFlight)
  /\ Cardinality(InFlight) \in Nat
  /\ Cardinality(Callers) \in Nat
  /\ Cardinality(InFlight) <= Cardinality(Callers)
<1>1. InFlight \subseteq Callers
  BY DEF InFlight
<1> QED
  BY <1>1, FS_Subset, FS_CardinalityType

(* A call that reports leaves one call fewer in flight. *)
LEMMA ReportLeavesFewer ==
  ASSUME TypeOK, NEW c \in Callers, call[c] # "idle",
         call' = [call EXCEPT ![c] = "idle"]
  PROVE  Cardinality(InFlight') = Cardinality(InFlight) - 1
<1>1. c \in InFlight
  BY DEF InFlight
<1>2. InFlight' = InFlight \ {c}
  BY DEF InFlight, TypeOK
<1> QED
  BY <1>1, <1>2, InFlightFinite, FS_RemoveElement

(* What the methods of the breaker return is again a breaker. *)
LEMMA OpsType ==
  ASSUME NEW b \in Breakers
  PROVE  /\ NewBreaker \in Breakers
         /\ Synced(b) \in Breakers
         /\ AfterRequest(b) \in Breakers
         /\ AfterSuccess(b) \in Breakers
         /\ AfterFailure(b) \in Breakers
         /\ Aged(b) \in Breakers
<1>1. NewBreaker \in Breakers
  BY DEF NewBreaker, Breakers, CircuitState
<1>2. Synced(b) \in Breakers
  BY DEF Synced, Recovered, Breakers, CircuitState
<1>3. AfterRequest(b) \in Breakers
  BY <1>2 DEF AfterRequest, Breakers, CircuitState
<1>4. AfterFailure(b) \in Breakers
  <2>1. ASSUME NEW x \in Breakers PROVE Opened(x) \in Breakers
    BY <2>1 DEF Opened, Breakers, CircuitState
  <2>2. [b EXCEPT !.failureCount = @ + 1] \in Breakers
    BY DEF Breakers
  <2> QED
    BY <2>1, <2>2 DEF AfterFailure
<1>5. Aged(b) \in Breakers
  BY DEF Aged, Breakers, CircuitState
<1> QED
  BY <1>1, <1>2, <1>3, <1>4, <1>5 DEF AfterSuccess

(* Each action preserves the inductive invariant. *)
LEMMA ObserveInv == IInv /\ Observe => IInv'
<1> SUFFICES ASSUME IInv, Observe PROVE IInv'
  OBVIOUS
<1>1. TypeOK'
  BY OpsType DEF IInv, TypeOK, Observe
<1>2. breaker'.state = "HALF_OPEN" /\ ~breaker'.probe /\ breaker'.failureCount = 0
  BY DEF Observe, Synced
<1> QED
  BY <1>1, <1>2 DEF IInv, CountInv, ProbeSlotHeld, LateFailuresBounded

LEMMA RequestInv == ASSUME NEW c \in Callers PROVE IInv /\ Request(c) => IInv'
<1> SUFFICES ASSUME IInv, Request(c) PROVE IInv'
  OBVIOUS
<1>1. TypeOK'
  BY OpsType DEF IInv, TypeOK, Request
<1>2. breaker'.state # "OPEN"
  BY DEF Request, MayRequest, AfterRequest, Synced, IInv, TypeOK, Breakers
<1>3. CountInv'
  BY <1>2 DEF Request, MayRequest, AfterRequest, Synced, IInv, TypeOK, Breakers, CountInv
<1>4. ProbeSlotHeld'
  <2>1. breaker'.probe => breaker'.state = "HALF_OPEN"
    BY DEF Request, MayRequest, AfterRequest, Synced, IInv, TypeOK, Breakers, ProbeSlotHeld
  <2>2. breaker'.state = "HALF_OPEN" => c \in Probing'
    BY DEF Request, Probing, IInv, TypeOK
  <2> QED
    BY <2>1, <2>2 DEF ProbeSlotHeld
<1> QED
  BY <1>1, <1>2, <1>3, <1>4 DEF IInv, LateFailuresBounded

LEMMA RecordSuccessInv ==
  ASSUME NEW c \in Callers PROVE IInv /\ RecordSuccess(c) => IInv'
<1> SUFFICES ASSUME IInv, RecordSuccess(c) PROVE IInv'
  OBVIOUS
<1>1. TypeOK'
  BY OpsType DEF IInv, TypeOK, RecordSuccess
<1>2. breaker' = NewBreaker
  BY DEF RecordSuccess, AfterSuccess
<1> QED
  BY <1>1, <1>2 DEF IInv, NewBreaker, CountInv, ProbeSlotHeld, LateFailuresBounded

LEMMA RecordFailureInv ==
  ASSUME NEW c \in Callers PROVE IInv /\ RecordFailure(c) => IInv'
<1> SUFFICES ASSUME IInv, RecordFailure(c) PROVE IInv'
  OBVIOUS
<1>1. TypeOK'
  BY OpsType DEF IInv, TypeOK, RecordFailure
<1>2. /\ Cardinality(InFlight') = Cardinality(InFlight) - 1
      /\ Cardinality(InFlight) <= Cardinality(Callers)
      /\ Cardinality(InFlight) \in Nat
      /\ Cardinality(Callers) \in Nat
  BY ReportLeavesFewer, InFlightFinite DEF IInv, RecordFailure
<1>3. /\ ~breaker'.probe
      /\ breaker'.state # "HALF_OPEN"
      /\ breaker'.state = "CLOSED" => breaker'.failureCount < FailureThreshold
      /\ breaker'.failureCount \in Nat
      /\ breaker'.state = "OPEN" /\ breaker.state # "OPEN" =>
           breaker'.failureCount <= FailureThreshold
      /\ breaker'.state = "OPEN" /\ breaker.state = "OPEN" =>
           breaker'.failureCount = breaker.failureCount + 1
  BY DEF IInv, TypeOK, Breakers, CircuitState, CountInv, ProbeSlotHeld,
         RecordFailure, AfterFailure, Opened
<1>4. LateFailuresBounded'
  BY <1>2, <1>3 DEF IInv, TypeOK, Breakers, LateFailuresBounded
<1> QED
  BY <1>1, <1>3, <1>4 DEF IInv, CountInv, ProbeSlotHeld

LEMMA TickInv == IInv /\ Tick => IInv'
<1> SUFFICES ASSUME IInv, Tick PROVE IInv'
  OBVIOUS
<1>1. TypeOK'
  BY OpsType DEF IInv, TypeOK, Tick
<1>2. /\ breaker'.state = breaker.state
      /\ breaker'.failureCount = breaker.failureCount
      /\ breaker'.probe = breaker.probe
  BY DEF Tick, Aged, IInv, TypeOK, Breakers
<1>3. InFlight' = InFlight /\ Probing' = Probing
  BY DEF Tick, InFlight, Probing
<1> QED
  BY <1>1, <1>2, <1>3 DEF IInv, CountInv, ProbeSlotHeld, LateFailuresBounded

LEMMA InitInv == Init => IInv
  BY DEF Init, IInv, TypeOK, CountInv, ProbeSlotHeld, LateFailuresBounded,
         NewBreaker, Breakers, CircuitState

LEMMA NextInv == IInv /\ [Next]_vars => IInv'
<1> SUFFICES ASSUME IInv, [Next]_vars PROVE IInv'
  OBVIOUS
<1>1. CASE Observe
  BY <1>1, ObserveInv
<1>2. CASE Tick
  BY <1>2, TickInv
<1>3. ASSUME NEW c \in Callers, Request(c) PROVE IInv'
  BY <1>3, RequestInv
<1>4. ASSUME NEW c \in Callers, RecordSuccess(c) PROVE IInv'
  BY <1>4, RecordSuccessInv
<1>5. ASSUME NEW c \in Callers, RecordFailure(c) PROVE IInv'
  BY <1>5, RecordFailureInv
<1>6. CASE UNCHANGED vars
  BY <1>6 DEF vars, IInv, TypeOK, CountInv, ProbeSlotHeld, LateFailuresBounded,
              InFlight, Probing
<1> QED
  BY <1>1, <1>2, <1>3, <1>4, <1>5, <1>6 DEF Next

(* The invariant holds of every behaviour of the breaker. *)
THEOREM Invariant == Spec => []IInv
  BY InitInv, NextInv, PTL DEF Spec

(* The breaker, its counters and its callers are always well-formed. *)
THEOREM TypeCorrect == Spec => []TypeOK
<1>1. IInv => TypeOK
  BY DEF IInv
<1> QED
  BY <1>1, Invariant, PTL

(* Whatever callers report and in whatever order, a taken probe slot always *)
(* has a probe in flight that will free it: canRequest() cannot go on       *)
(* refusing a half-open provider with nobody trying it.                     *)
THEOREM ProbeSlotIsHeld == Spec => []ProbeSlotHeld
<1>1. IInv => ProbeSlotHeld
  BY DEF IInv
<1> QED
  BY <1>1, Invariant, PTL

(* Only calls granted before it opened can add failures to an OPEN breaker, *)
(* and so postpone its recovery: fewer of them than there are callers.      *)
THEOREM LateFailuresAreBounded == Spec => []LateFailuresBounded
<1>1. IInv => LateFailuresBounded
  BY DEF IInv
<1> QED
  BY <1>1, Invariant, PTL
-----------------------------------------------------------------------------
(* The history variables only watch: what is proved of Spec holds of HSpec. *)
LEMMA HStep == [HNext]_hvars => [Next]_vars
<1> SUFFICES ASSUME [HNext]_hvars PROVE [Next]_vars
  OBVIOUS
<1>1. CASE HTick
  <2>1. CASE Tick
    BY <2>1 DEF Next
  <2>2. CASE breaker' = Aged(breaker) /\ UNCHANGED call
    BY <2>2 DEF Aged, Tick, Next, vars
  <2> QED
    BY <1>1, <2>1, <2>2 DEF HTick
<1>2. CASE HObserve
  BY <1>2 DEF HObserve, Next
<1>3. CASE \E c \in Callers : HRequest(c) \/ HRecordSuccess(c) \/ HRecordFailure(c)
  BY <1>3 DEF HRequest, HRecordSuccess, HRecordFailure, Next
<1>4. CASE UNCHANGED hvars
  BY <1>4 DEF hvars, vars
<1> QED
  BY <1>1, <1>2, <1>3, <1>4 DEF HNext

(* A breaker has not been OPEN for longer than since it went to OPEN: late  *)
(* failures only set its clock back.                                        *)
HInv == /\ IInv
        /\ streak \in Nat
        /\ sinceOpen \in 0..RecoveryTime
        /\ CountsConsecutiveFailures
        /\ breaker.state = "OPEN" => breaker.age <= sinceOpen

LEMMA HInitInv == HInit => HInv
  BY InitInv, InFlightFinite
  DEF HInit, HInv, Init, NewBreaker, CountsConsecutiveFailures

LEMMA MaxStreakType == MaxStreak \in Nat /\ FailureThreshold <= MaxStreak
  BY InFlightFinite DEF MaxStreak

LEMMA HRecordFailureInv ==
  ASSUME NEW c \in Callers, HInv, HRecordFailure(c), IInv'
  PROVE  HInv'
<1>1. streak' \in Nat
  BY MaxStreakType DEF HInv, HRecordFailure, Capped
<1>2. sinceOpen' \in 0..RecoveryTime
  BY DEF HInv, HRecordFailure
<1>3. CountsConsecutiveFailures'
  <2>1. SUFFICES ASSUME breaker'.state = "CLOSED"
                 PROVE  /\ breaker'.failureCount = streak'
                        /\ breaker'.failureCount < FailureThreshold
    BY DEF CountsConsecutiveFailures
  <2>2. /\ breaker.state = "CLOSED"
        /\ breaker'.failureCount = breaker.failureCount + 1
        /\ breaker'.failureCount < FailureThreshold
    BY <2>1 DEF HRecordFailure, RecordFailure, AfterFailure, Opened, HInv, IInv, TypeOK,
                CountInv, Breakers, CircuitState
  <2> QED
    BY <2>2, MaxStreakType
    DEF HInv, HRecordFailure, Capped, CountsConsecutiveFailures
<1>4. breaker'.state = "OPEN" => breaker'.age <= sinceOpen'
  <2>1. CASE breaker'.age = 0
    BY <1>2, <2>1
  <2>2. CASE breaker'.age # 0 /\ breaker'.state = "OPEN"
    <3>1. breaker.state = "OPEN" /\ breaker'.age = breaker.age
      BY <2>2 DEF HRecordFailure, RecordFailure, AfterFailure, Opened, HInv, IInv,
                  TypeOK, CountInv, Breakers, CircuitState
    <3>2. sinceOpen' = sinceOpen
      BY <3>1 DEF HRecordFailure
    <3> QED
      BY <3>1, <3>2 DEF HInv
  <2> QED
    BY <2>1, <2>2
<1> QED
  BY <1>1, <1>2, <1>3, <1>4 DEF HInv

LEMMA HTickInv == ASSUME HInv, HTick, IInv' PROVE HInv'
<1>1. /\ breaker'.state = breaker.state
      /\ breaker'.failureCount = breaker.failureCount
      /\ breaker.state = "OPEN" => breaker'.age <= breaker.age + 1
  BY DEF HTick, Tick, Aged, HInv, IInv, TypeOK, Breakers
<1>2. breaker'.state = "OPEN" => breaker'.age \in 0..RecoveryTime
  BY DEF IInv, TypeOK, Breakers
<1>3. sinceOpen' \in 0..RecoveryTime
  BY DEF HInv, HTick, Capped
<1>4. breaker'.state = "OPEN" => breaker'.age <= sinceOpen'
  BY <1>1, <1>2, <1>3 DEF HInv, IInv, TypeOK, Breakers, HTick, Capped
<1> QED
  BY <1>1, <1>3, <1>4 DEF HInv, HTick, CountsConsecutiveFailures

LEMMA HNextInv == HInv /\ [HNext]_hvars => HInv'
<1> SUFFICES ASSUME HInv, [HNext]_hvars PROVE HInv'
  OBVIOUS
<1>1. IInv'
  BY HStep, NextInv DEF HInv
<1>2. CASE HObserve
  BY <1>1, <1>2 DEF HInv, HObserve, Observe, Synced, CountsConsecutiveFailures
<1>3. CASE HTick
  BY <1>1, <1>3, HTickInv
<1>4. ASSUME NEW c \in Callers, HRequest(c) PROVE HInv'
  <2>1. breaker'.state # "OPEN"
    BY <1>4 DEF HInv, IInv, TypeOK, Breakers, HRequest, Request, MayRequest,
                AfterRequest, Synced
  <2>2. breaker'.state = "CLOSED" =>
          breaker.state = "CLOSED" /\ breaker'.failureCount = breaker.failureCount
    BY <1>4 DEF HInv, IInv, TypeOK, Breakers, HRequest, Request, MayRequest,
                AfterRequest, Synced
  <2> QED
    BY <1>1, <1>4, <2>1, <2>2 DEF HInv, HRequest, CountsConsecutiveFailures
<1>5. ASSUME NEW c \in Callers, HRecordSuccess(c) PROVE HInv'
  BY <1>1, <1>5 DEF HInv, HRecordSuccess, RecordSuccess, AfterSuccess, NewBreaker,
                    CountsConsecutiveFailures
<1>6. ASSUME NEW c \in Callers, HRecordFailure(c) PROVE HInv'
  BY <1>1, <1>6, HRecordFailureInv
<1>7. CASE UNCHANGED hvars
  BY <1>1, <1>7 DEF hvars, HInv, CountsConsecutiveFailures
<1> QED
  BY <1>2, <1>3, <1>4, <1>5, <1>6, <1>7 DEF HNext

(* The invariant holds of every behaviour of the breaker with histories. *)
THEOREM HInvariant == HSpec => []HInv
  BY HInitInv, HNextInv, PTL DEF HSpec

(* A CLOSED breaker has counted exactly the failures since the last success,*)
(* fewer than the threshold: one success anywhere starts the count again.   *)
THEOREM FailuresAreConsecutive == HSpec => []CountsConsecutiveFailures
<1>1. HInv => CountsConsecutiveFailures
  BY DEF HInv
<1> QED
  BY <1>1, HInvariant, PTL

(* The circuit opens after FailureThreshold failures in a row and not       *)
(* before, and turns half-open only when the recovery time has passed.      *)
THEOREM OpensOnlyForCause == HSpec => OpensForCause
<1> DEFINE Cause ==
      /\ breaker.state = "CLOSED" /\ breaker'.state # "CLOSED" =>
           breaker'.state = "OPEN" /\ streak' = FailureThreshold
      /\ breaker.state # "HALF_OPEN" /\ breaker'.state = "HALF_OPEN" =>
           breaker.state = "OPEN" /\ sinceOpen = RecoveryTime
<1>1. HInv /\ [HNext]_hvars => [Cause]_hvars
  <2> SUFFICES ASSUME HInv, HNext PROVE Cause
    OBVIOUS
  <2>1. CASE HObserve
    <3>1. breaker.state = "OPEN" /\ breaker.age >= RecoveryTime
      BY <2>1 DEF HObserve, Observe, Recovered
    <3> QED
      BY <3>1 DEF HInv, IInv, TypeOK, Breakers
  <2>2. CASE HTick
    BY <2>2 DEF HTick, Tick, Aged, HInv, IInv, TypeOK, Breakers
  <2>3. ASSUME NEW c \in Callers, HRequest(c) PROVE Cause
    <3>1. /\ breaker.state = "CLOSED" => breaker'.state = "CLOSED"
          /\ breaker.state # "HALF_OPEN" /\ breaker'.state = "HALF_OPEN" =>
               breaker.state = "OPEN" /\ breaker.age >= RecoveryTime
      BY <2>3 DEF HRequest, Request, MayRequest, AfterRequest, Synced, Recovered,
                  HInv, IInv, TypeOK, Breakers
    <3> QED
      BY <3>1 DEF HInv, IInv, TypeOK, Breakers
  <2>4. ASSUME NEW c \in Callers, HRecordSuccess(c) PROVE Cause
    BY <2>4 DEF HRecordSuccess, RecordSuccess, AfterSuccess, NewBreaker
  <2>5. ASSUME NEW c \in Callers, HRecordFailure(c) PROVE Cause
    <3>1. breaker'.state # "HALF_OPEN" \/ breaker.state = "HALF_OPEN"
      BY <2>5 DEF HRecordFailure, RecordFailure, AfterFailure, Opened, HInv, IInv,
                  TypeOK, Breakers
    <3>2. ASSUME breaker.state = "CLOSED", breaker'.state # "CLOSED"
          PROVE  breaker'.state = "OPEN" /\ streak' = FailureThreshold
      <4>1. breaker'.state = "OPEN" /\ breaker.failureCount + 1 >= FailureThreshold
        BY <2>5, <3>2 DEF HRecordFailure, RecordFailure, AfterFailure, Opened,
                          HInv, IInv, TypeOK, Breakers
      <4>2. streak + 1 = FailureThreshold
        BY <3>2, <4>1 DEF HInv, CountsConsecutiveFailures
      <4> QED
        BY <2>5, <4>1, <4>2, MaxStreakType DEF HRecordFailure, Capped, HInv
    <3> QED
      BY <3>1, <3>2
  <2> QED
    BY <2>1, <2>2, <2>3, <2>4, <2>5 DEF HNext
<1> QED
  BY <1>1, HInvariant, PTL DEF HSpec, OpensForCause
=============================================================================
