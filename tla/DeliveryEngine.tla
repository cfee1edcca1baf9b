--------------------------- MODULE DeliveryEngine ---------------------------
(***************************************************************************)
(* deliver(job) of src/delivery/DeliveryEngine.ts, run concurrently by the *)
(* worker loops: it takes the providers of the fallback chain whose        *)
(* circuit is not OPEN, and tries them in order until one accepts the      *)
(* email.  Between canRequest() and recordSuccess() or recordFailure() a   *)
(* delivery waits for its rate limiter and for the provider, and the other *)
(* deliveries use the same breakers.                                       *)
(*                                                                         *)
(* External: the rate limiter may grant its token or refuse it             *)
(* (RateLimitError); a provider may be unavailable, may accept, or may     *)
(* fail with any status, normalised or not.                                *)
(***************************************************************************)
EXTENDS CircuitBreakerOps, RetryPolicy, FiniteSets, SequencesExt

CONSTANTS Deliveries,   \* the deliver() calls that may run at one time
          Chain,        \* the providers of the fallback chain, in order
          Statuses      \* the HTTP statuses in the errors of the providers

Providers == ToSet(Chain)

(* Names are the keys of the breaker map, so each provider has its own.  A  *)
(* failure with a status is a client or a server error.                     *)
ASSUME EngineAssumption == /\ IsFiniteSet(Deliveries)
                           /\ Chain \in Seq(Providers)
                           /\ IsInjective(Chain)
                           /\ MaxAttempts \in Nat \ {0}
                           /\ Statuses \subseteq {NoStatus} \cup 400..599

VARIABLES
  breaker,    \* the breaker of each provider
  pc,         \* where each deliver() is
  todo,       \* the places in the chain of the providers it has left, of
              \* which the first is the current one's
  attempts,   \* job.attempts of its job
  saw,        \* sawRetryableFailure
  decision,   \* the kind of its last DeliveryDecision
  grant,      \* history: how canRequest() granted the current provider
  failures,   \* history: the providers that failed it, and how
  steady      \* history: the providers available when it started whose
              \* breaker has been CLOSED ever since

vars == <<breaker, pc, todo, attempts, saw, decision, grant, failures, steady>>

Current(d) == Chain[Min(todo[d])]

Init == /\ breaker = [p \in Providers |-> NewBreaker]
        /\ pc = [d \in Deliveries |-> "idle"]
        /\ todo = [d \in Deliveries |-> {}]
        /\ attempts = [d \in Deliveries |-> 0]
        /\ saw = [d \in Deliveries |-> FALSE]
        /\ decision = [d \in Deliveries |-> "none"]
        /\ grant = [d \in Deliveries |-> "idle"]
        /\ failures = [d \in Deliveries |-> {}]
        /\ steady = [d \in Deliveries |-> {}]

(* The decision that ends a deliver() no provider accepted. *)
Decide(d, br, retry) ==
  /\ breaker' = br
  /\ pc' = [pc EXCEPT ![d] = "idle"]
  /\ todo' = [todo EXCEPT ![d] = {}]
  /\ grant' = [grant EXCEPT ![d] = "idle"]
  /\ decision' = [decision EXCEPT ![d] = IF retry THEN "retry" ELSE "failed"]

(* The first of rest grants a request. *)
Try(d, br, rest) ==
  LET p == Chain[Min(rest)]
      granted == AfterRequest(br[p])
  IN  /\ breaker' = [br EXCEPT ![p] = granted]
      /\ todo' = [todo EXCEPT ![d] = rest]
      /\ pc' = [pc EXCEPT ![d] = "acquiring"]
      /\ grant' = [grant EXCEPT ![d] =
                     IF granted.state = "HALF_OPEN" THEN "probe" ELSE "plain"]
      /\ decision' = [decision EXCEPT ![d] = "none"]

(* Those of the places whose providers grant a request *)
Granting(br, places) == {i \in places : MayRequest(br[Chain[i]])}

(* Mutant: a provider that refuses the request ends the search. *)
ProceedFirstOnly(d, br, rest, retry) ==
  IF rest = {} \/ Min(rest) \notin Granting(br, rest)
    THEN Decide(d, br, retry)
    ELSE Try(d, br, rest)

(* Mutant: the chain is tried over again while some provider grants.        *)
ProceedForever(d, br, rest, retry) ==
  LET left == Granting(br, rest)
      again == Granting(br, DOMAIN Chain)
  IN  IF left # {} THEN Try(d, br, left)
      ELSE IF again # {} THEN Try(d, br, again)
      ELSE Decide(d, br, retry)

(* The loop from its head: on to the first of the providers in rest that    *)
(* grants a request; those that refuse are passed over in the same turn.    *)
(* br are the breakers as the caller left them, retry what is decided when  *)
(* no provider is left.                                                     *)
Proceed(d, br, rest, retry) ==
  LET granting == Granting(br, rest)
  IN  IF granting = {}
        THEN Decide(d, br, retry)
        ELSE Try(d, br, {i \in rest : i >= Min(granting)})

(* The history steady, from the set each delivery had or starts with. *)
Watch(candidates) ==
  steady' = [d \in Deliveries |->
               {p \in candidates[d] : breaker'[p].state = "CLOSED"}]

(* deliver() up to its first await: orderedAvailable() reads the state of   *)
(* every breaker.  With no provider at all, the failure is retryable.       *)
Start(d, n, available) ==
  LET br == [p \in Providers |-> Synced(breaker[p])]
      providers == {i \in DOMAIN Chain : ~IsOpen(br[Chain[i]]) /\ Chain[i] \in available}
  IN  /\ pc[d] = "idle"
      /\ attempts' = [attempts EXCEPT ![d] = n]
      /\ saw' = [saw EXCEPT ![d] = FALSE]
      /\ failures' = [failures EXCEPT ![d] = {}]
      /\ Proceed(d, br, providers, providers = {} /\ ShouldRetry(NoProvider, n + 1))
      /\ Watch([steady EXCEPT ![d] = available])

(* RateLimiter.acquire() returns *)
Acquired(d) ==
  /\ pc[d] = "acquiring"
  /\ pc' = [pc EXCEPT ![d] = "sending"]
  /\ UNCHANGED <<breaker, todo, attempts, saw, decision, grant, failures, steady>>

(* Mutant: only the last failure decides. *)
FailLastDecides(d, error, kind) ==
  LET p == Current(d)
      again == ShouldRetry(error, attempts[d] + 1)
  IN  /\ saw' = [saw EXCEPT ![d] = again]
      /\ failures' = [failures EXCEPT ![d] = @ \cup {<<p, kind>>}]
      /\ Proceed(d, [breaker EXCEPT ![p] = AfterFailure(@)], todo[d] \ {Min(todo[d])}, again)
      /\ Watch(steady)
      /\ UNCHANGED attempts

(* The catch block, and on to the next provider; kind is what the failure   *)
(* was, for the history.                                                    *)
Fail(d, error, kind) ==
  LET p == Current(d)
      again == saw[d] \/ ShouldRetry(error, attempts[d] + 1)
  IN  /\ saw' = [saw EXCEPT ![d] = again]
      /\ failures' = [failures EXCEPT ![d] = @ \cup {<<p, kind>>}]
      /\ Proceed(d, [breaker EXCEPT ![p] = AfterFailure(@)], todo[d] \ {Min(todo[d])}, again)
      /\ Watch(steady)
      /\ UNCHANGED attempts

(* Mutant: the breaker is not told, as the limiter's is no failure of the   *)
(* provider.                                                                *)
RateLimitedUnblamed(d) ==
  LET again == saw[d] \/ ShouldRetry(RateLimitError, attempts[d] + 1)
  IN  /\ pc[d] = "acquiring"
      /\ saw' = [saw EXCEPT ![d] = again]
      /\ failures' = [failures EXCEPT ![d] = @ \cup {<<Current(d), "transient">>}]
      /\ Proceed(d, breaker, todo[d] \ {Min(todo[d])}, again)
      /\ Watch(steady)
      /\ UNCHANGED attempts

(* acquire() throws RateLimitError *)
RateLimited(d) == pc[d] = "acquiring" /\ Fail(d, RateLimitError, "transient")

(* What a status says of a failure: 4xx except 429 is permanent; none, 429  *)
(* and 5xx may pass.                                                        *)
Kind(status) == IF status \in 400..499 \ {429} THEN "permanent" ELSE "transient"

(* provider.send() rejects, with an error of the SDK's own providers or of  *)
(* another implementation of IEmailProvider                                 *)
SendFails(d, status) ==
  /\ pc[d] = "sending"
  /\ \/ Fail(d, Normalized(status), Kind(status))
     \/ Fail(d, Unnormalized(status), Kind(status))

(* Mutant: the success is not reported to the breaker. *)
SendSucceedsUnreported(d) ==
  /\ pc[d] = "sending"
  /\ pc' = [pc EXCEPT ![d] = "idle"]
  /\ todo' = [todo EXCEPT ![d] = {}]
  /\ grant' = [grant EXCEPT ![d] = "idle"]
  /\ decision' = [decision EXCEPT ![d] = "sent"]
  /\ UNCHANGED <<breaker, attempts, saw, failures, steady>>

(* provider.send() resolves *)
SendSucceeds(d) ==
  /\ pc[d] = "sending"
  /\ breaker' = [breaker EXCEPT ![Current(d)] = AfterSuccess(@)]
  /\ pc' = [pc EXCEPT ![d] = "idle"]
  /\ todo' = [todo EXCEPT ![d] = {}]
  /\ grant' = [grant EXCEPT ![d] = "idle"]
  /\ decision' = [decision EXCEPT ![d] = "sent"]
  /\ Watch(steady)
  /\ UNCHANGED <<attempts, saw, failures>>

(* The clock, for every breaker that is waiting to recover *)
Tick ==
  /\ \E p \in Providers : breaker[p].state = "OPEN" /\ breaker[p].age < RecoveryTime
  /\ breaker' = [p \in Providers |-> Aged(breaker[p])]
  /\ UNCHANGED <<pc, todo, attempts, saw, decision, grant, failures, steady>>

Acquire(d) == Acquired(d) \/ RateLimited(d)
Answer(d) == SendSucceeds(d) \/ \E status \in Statuses : SendFails(d, status)

Next == \/ Tick
        \/ \E d \in Deliveries :
             \/ \E n \in 0..(MaxAttempts - 1), available \in SUBSET Providers :
                  Start(d, n, available)
             \/ Acquire(d)
             \/ Answer(d)

Spec == Init /\ [][Next]_vars

(* acquire() is bounded by its timeout; that providers answer is assumed.   *)
FairSpec == Spec /\ \A d \in Deliveries : WF_vars(Acquire(d)) /\ WF_vars(Answer(d))
-----------------------------------------------------------------------------
(* The deliveries, their providers and the breakers stay in their domains.  *)
TypeOK ==
  /\ breaker \in [Providers -> Breakers]
  /\ pc \in [Deliveries -> {"idle", "acquiring", "sending"}]
  /\ todo \in [Deliveries -> SUBSET DOMAIN Chain]
  /\ attempts \in [Deliveries -> 0..(MaxAttempts - 1)]
  /\ saw \in [Deliveries -> BOOLEAN]
  /\ decision \in [Deliveries -> {"none", "sent", "retry", "failed"}]
  /\ grant \in [Deliveries -> {"idle", "plain", "probe"}]
  /\ failures \in [Deliveries -> SUBSET (Providers \X {"transient", "permanent"})]
  /\ steady \in [Deliveries -> SUBSET Providers]
  /\ \A d \in Deliveries : (pc[d] = "idle") <=> (todo[d] = {})
  /\ \A d \in Deliveries : (pc[d] = "idle") <=> (grant[d] = "idle")

Before(p, q) == \E m, n \in DOMAIN Chain : m < n /\ Chain[m] = p /\ Chain[n] = q

FailedBy(d) == {f[1] : f \in failures[d]}

(* A provider that was available and CLOSED all through a delivery is never *)
(* skipped, whatever the other deliveries do to the breakers: it has been   *)
(* tried and has failed before a later provider is tried, and before the    *)
(* delivery gives up.                                                       *)
HealthyProvidersTried ==
  \A d \in Deliveries :
    /\ decision[d] \in {"retry", "failed"} => steady[d] \subseteq FailedBy(d)
    /\ pc[d] # "idle" =>
         {p \in steady[d] : Before(p, Current(d))} \subseteq FailedBy(d)

FailedAs(d) == {f[2] : f \in failures[d]}

(* A delivery is put back only with attempts left, so no email is attempted *)
(* more than maxAttempts times, and never when all the providers have       *)
(* failed it for good; and with attempts left one failure that may pass is  *)
(* enough, whatever the providers tried after it answered.  The two ways in *)
(* which errors are classified agree with the statuses.                     *)
RetryDecisionRight ==
  \A d \in Deliveries :
    /\ decision[d] = "retry" =>
         attempts[d] + 1 < MaxAttempts /\ FailedAs(d) # {"permanent"}
    /\ decision[d] = "failed" /\ attempts[d] + 1 < MaxAttempts =>
         "transient" \notin FailedAs(d)

(* The calls that the deliveries have in flight at provider p *)
CallsTo(p) ==
  [d \in Deliveries |-> IF pc[d] # "idle" /\ Current(d) = p THEN grant[d] ELSE "idle"]

BreakerOf(p) == INSTANCE CircuitBreaker
                  WITH breaker <- breaker[p], call <- CallsTo(p), Callers <- Deliveries

(* The engine uses each breaker as CircuitBreaker assumes: a delivery asks  *)
(* before it calls, has one call at a time, and reports the outcome of each *)
(* call it was granted once, on every path out of the loop.                 *)
UsesBreakersCorrectly ==
  /\ \A p \in Providers : BreakerOf(p)!Init
  /\ [][\A p \in Providers : [BreakerOf(p)!Next]_(BreakerOf(p)!vars)]_vars

(* No path out of deliver() leaves a provider refused for good: a probe     *)
(* slot that is taken has a delivery behind it, and only those that were    *)
(* calling a provider when its breaker opened can postpone its recovery.    *)
BreakersStaySound ==
  \A p \in Providers : BreakerOf(p)!ProbeSlotHeld /\ BreakerOf(p)!LateFailuresBounded

(* Every delivery ends with a decision, if the providers answer: an email   *)
(* is not held forever by the chain, however the breakers change.           *)
DeliveryEnds == \A d \in Deliveries : pc[d] # "idle" ~> pc[d] = "idle"

=============================================================================
