--------------------------- MODULE CircuitBreaker ---------------------------
(***************************************************************************)
(* One circuit breaker shared by concurrent deliveries.  A caller asks     *)
(* canRequest(), waits for its rate limiter and its provider, and much     *)
(* later reports the outcome with recordSuccess() or recordFailure(); any  *)
(* number of other callers come and go in between, so an outcome may reach *)
(* a breaker that has changed state since the request was granted.         *)
(***************************************************************************)
EXTENDS CircuitBreakerOps, FiniteSets

CONSTANT Callers   \* the deliveries that may use the breaker at one time

ASSUME CallersAssumption == IsFiniteSet(Callers)

VARIABLES
  breaker,   \* the breaker
  call       \* what each caller is doing: nothing, or a call granted as a
             \* plain request (CLOSED) or as a probe (HALF_OPEN)

vars == <<breaker, call>>

InFlight == {c \in Callers : call[c] # "idle"}
Probing == {c \in Callers : call[c] = "probe"}

Init == /\ breaker = NewBreaker
        /\ call = [c \in Callers |-> "idle"]

(* A read of the state outside a request: orderedAvailable() of the         *)
(* fallback chain.                                                          *)
Observe ==
  /\ Recovered(breaker)
  /\ breaker' = Synced(breaker)
  /\ UNCHANGED call

(* A caller that canRequest() refuses moves on to the next provider and     *)
(* leaves the breaker as it found it.                                       *)
Request(c) ==
  /\ call[c] = "idle"
  /\ MayRequest(breaker)
  /\ breaker' = AfterRequest(breaker)
  /\ call' = [call EXCEPT ![c] =
                IF breaker'.state = "HALF_OPEN" THEN "probe" ELSE "plain"]

RecordSuccess(c) ==
  /\ call[c] # "idle"
  /\ breaker' = AfterSuccess(breaker)
  /\ call' = [call EXCEPT ![c] = "idle"]

RecordFailure(c) ==
  /\ call[c] # "idle"
  /\ breaker' = AfterFailure(breaker)
  /\ call' = [call EXCEPT ![c] = "idle"]

Tick ==
  /\ breaker.state = "OPEN"
  /\ breaker.age < RecoveryTime
  /\ breaker' = Aged(breaker)
  /\ UNCHANGED call

Next == \/ Observe
        \/ Tick
        \/ \E c \in Callers : \/ Request(c)
                              \/ RecordSuccess(c)
                              \/ RecordFailure(c)

Spec == Init /\ [][Next]_vars

(* The clock runs, and new deliveries keep asking whether the provider is   *)
(* open.  Nothing obliges a provider to answer.                            *)
FairSpec == Spec /\ WF_vars(Tick) /\ WF_vars(Observe)
-----------------------------------------------------------------------------
(* The breaker and the callers stay in their domains. *)
TypeOK == /\ breaker \in Breakers
          /\ call \in [Callers -> {"idle", "plain", "probe"}]

(* A taken probe slot always has a call behind it that is still in flight   *)
(* and will report: halfOpenProbeInFlight is never left set with nobody to  *)
(* clear it, which would refuse the provider for good.                      *)
ProbeSlotHeld ==
  breaker.probe => breaker.state = "HALF_OPEN" /\ Probing # {}

(* Failures reported late, after the breaker opened, still count and start  *)
(* the recovery time again (recordFailure has no case for OPEN); they are   *)
(* bounded by the calls that were in flight when it opened, none of which   *)
(* is replaced while it is OPEN.                                            *)
LateFailuresBounded ==
  breaker.state = "OPEN" =>
    breaker.failureCount + Cardinality(InFlight)
      <= FailureThreshold + Cardinality(Callers) - 1

(* An OPEN breaker does not stay OPEN: even if calls granted before keep    *)
(* failing late, the recovery time runs out and the provider gets a probe,  *)
(* as long as somebody asks.                                                *)
EventuallyRecovers == breaker.state = "OPEN" ~> breaker.state # "OPEN"

(* "HALF_OPEN must allow only a single probe request."  (CircuitBreaker.ts) *)
(* Whenever the breaker is half-open, at most one probe is in flight.       *)
SingleProbe == breaker.state = "HALF_OPEN" => Cardinality(Probing) <= 1
=============================================================================
