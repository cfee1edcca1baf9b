------------------------ MODULE DeliveryEngineProofs ------------------------
(***************************************************************************)
(* Proofs about DeliveryEngine, for any number of deliveries, any chain of *)
(* providers, any threshold, recovery time and number of attempts.         *)
(***************************************************************************)
EXTENDS DeliveryEngine, FiniteSetTheorems, WellFoundedInduction, TLAPS

(* normalizeError() says that an error is retryable without a status, and   *)
(* with 429 or one of 5xx.                                                  *)
LEMMA NormalizedRetryable ==
  ASSUME NEW status
  PROVE  Normalized(status).retryable <=>
           status = NoStatus \/ status = 429 \/ status \in 500..599
BY ZenonT(40) DEF Normalized

USE EngineAssumption, BreakerAssumption DEF EngineAssumption, BreakerAssumption

(* A set of places of the chain has a first one, which Min is. *)
LEMMA Places ==
  /\ DOMAIN Chain \subseteq Nat
  /\ \A i \in DOMAIN Chain : Chain[i] \in Providers
  /\ \A p \in Providers : \E i \in DOMAIN Chain : Chain[i] = p
  /\ \A i, j \in DOMAIN Chain : Chain[i] = Chain[j] => i = j
BY DEF Providers, ToSet, IsInjective

LEMMA FirstPlace ==
  ASSUME NEW S \in SUBSET DOMAIN Chain, S # {}
  PROVE  Min(S) \in S /\ \A i \in S : Min(S) <= i
<1> DEFINE R == {ss \in Nat \X Nat : ss[1] < ss[2]}
<1>0. S \subseteq Nat
  BY Places
<1>1. IsWellFoundedOn(R, Nat)
  BY NatLessThanWellFounded DEF OpToRel
<1>2. PICK x \in S : \A y \in S : ~(<<y, x>> \in R)
  <2> HIDE DEF R
  <2> QED
    BY <1>0, <1>1, WFMin
<1>3. ASSUME NEW y \in S, ~(x <= y) PROVE FALSE
  <2>1. y < x /\ <<y, x>> \in Nat \X Nat
    BY <1>0, <1>3
  <2>2. <<y, x>> \in R
    BY <2>1
  <2> QED
    BY <2>2, <1>2
<1>4. \E z \in S : \A y \in S : z <= y
  BY <1>3
<1> QED
  BY <1>4 DEF Min

(* What the methods of a breaker return is again a breaker. *)
LEMMA OpsType ==
  ASSUME NEW b \in Breakers
  PROVE  /\ NewBreaker \in Breakers
         /\ Synced(b) \in Breakers
         /\ AfterRequest(b) \in Breakers
         /\ AfterSuccess(b) \in Breakers
         /\ AfterFailure(b) \in Breakers
         /\ Aged(b) \in Breakers
<1>1. NewBreaker \in Breakers
  BY DEF NewBreaker, Breakers, CircuitState
<1>2. Synced(b) \in Breakers
  BY DEF Synced, Recovered, Breakers, CircuitState
<1>3. AfterRequest(b) \in Breakers
  <2> DEFINE x == Synced(b)
             probe == x.probe \/ x.state = "HALF_OPEN"
  <2>1. AfterRequest(b) = [x EXCEPT !.probe = probe]
    BY DEF AfterRequest
  <2>2. x \in Breakers /\ probe \in BOOLEAN
    BY <1>2
  <2> HIDE DEF x, probe
  <2> QED
    BY <2>1, <2>2 DEF Breakers
<1>4. AfterFailure(b) \in Breakers
  <2>1. ASSUME NEW x \in Breakers PROVE Opened(x) \in Breakers
    BY <2>1 DEF Opened, Breakers, CircuitState
  <2>2. [b EXCEPT !.failureCount = @ + 1] \in Breakers
    BY DEF Breakers, CircuitState
  <2> QED
    BY <2>1, <2>2 DEF AfterFailure
<1>5. Aged(b) \in Breakers
  BY DEF Aged, Breakers, CircuitState
<1> QED
  BY <1>1, <1>2, <1>3, <1>4, <1>5 DEF AfterSuccess

(* Synchronising a breaker is idempotent, and changes nothing of what a     *)
(* request finds.                                                           *)
LEMMA SyncedTwice ==
  ASSUME NEW b \in Breakers
  PROVE  /\ Synced(Synced(b)) = Synced(b)
         /\ MayRequest(Synced(b)) <=> MayRequest(b)
         /\ AfterRequest(Synced(b)) = AfterRequest(b)
         /\ b.state = "CLOSED" => MayRequest(b) /\ ~IsOpen(b)
<1>1. Synced(Synced(b)) = Synced(b)
  BY DEF Synced, Recovered, Breakers
<1>2. b.state = "CLOSED" => Synced(b) = b
  BY DEF Synced, Recovered
<1> QED
  BY <1>1, <1>2 DEF MayRequest, AfterRequest, IsOpen
-----------------------------------------------------------------------------
(* The loop grants the request of the provider at place k, having passed    *)
(* over those before.                                                       *)
TriesAt(d, br, rest, k) ==
  /\ MayRequest(br[Chain[k]])
  /\ \A i \in rest : i < k => ~MayRequest(br[Chain[i]])
  /\ breaker' = [br EXCEPT ![Chain[k]] = AfterRequest(br[Chain[k]])]
  /\ todo' = [todo EXCEPT ![d] = {i \in rest : i >= k}]
  /\ Min({i \in rest : i >= k}) = k
  /\ pc' = [pc EXCEPT ![d] = "acquiring"]
  /\ grant' = [grant EXCEPT ![d] =
                 IF AfterRequest(br[Chain[k]]).state = "HALF_OPEN" THEN "probe" ELSE "plain"]
  /\ decision' = [decision EXCEPT ![d] = "none"]

(* It ends: nobody grants a request. *)
Exhausts(d, br, rest, retry) ==
  /\ \A i \in rest : ~MayRequest(br[Chain[i]])
  /\ Decide(d, br, retry)

LEMMA ProceedOutcome ==
  ASSUME NEW d \in Deliveries, NEW br, NEW rest \in SUBSET DOMAIN Chain, NEW retry,
         Proceed(d, br, rest, retry)
  PROVE  Exhausts(d, br, rest, retry) \/ \E k \in rest : TriesAt(d, br, rest, k)
<1> DEFINE granting == Granting(br, rest)
           k == Min(granting)
           left == {i \in rest : i >= k}
<1>1. CASE granting = {}
  BY <1>1 DEF Proceed, Exhausts, Granting
<1>2. CASE granting # {}
  <2>0. granting \subseteq rest
    BY DEF Granting
  <2>1. k \in granting /\ \A i \in granting : k <= i
    BY <2>0, <1>2, FirstPlace
  <2>2. k \in rest /\ MayRequest(br[Chain[k]])
    BY <2>1 DEF Granting
  <2>3. \A i \in rest : i < k => ~MayRequest(br[Chain[i]])
    <3>1. SUFFICES ASSUME NEW i \in rest, i < k, MayRequest(br[Chain[i]]) PROVE FALSE
      OBVIOUS
    <3>2. i \in granting
      BY <3>1 DEF Granting
    <3>3. i \in Nat /\ k \in Nat
      BY <2>2, Places
    <3> HIDE DEF k, granting
    <3> QED
      BY <2>1, <3>1, <3>2, <3>3
  <2>4. k \in left
    <3>1. k \in Nat
      BY <2>2, Places
    <3> QED
      BY <2>2, <3>1
  <2>5. Min(left) = k
    <3>1. Min(left) \in left /\ \A i \in left : Min(left) <= i
      <4>1. left \in SUBSET DOMAIN Chain /\ left # {}
        BY <2>4
      <4> HIDE DEF left, k
      <4> QED
        BY <4>1, FirstPlace
    <3>2. Min(left) <= k /\ Min(left) >= k
      BY <2>4, <3>1
    <3>3. Min(left) \in Nat /\ k \in Nat
      BY <3>1, <2>2, Places
    <3>4. \A i, j \in Nat : i <= j /\ i >= j => i = j
      OBVIOUS
    <3> HIDE DEF left, k
    <3> QED
      BY <3>2, <3>3, <3>4, ZenonT(40)
  <2>6. Try(d, br, left)
    BY <1>2 DEF Proceed
  <2> HIDE DEF k, granting
  <2>7. TriesAt(d, br, rest, k)
    <3> HIDE DEF left
    <3>1. /\ breaker' = [br EXCEPT ![Chain[k]] = AfterRequest(br[Chain[k]])]
          /\ todo' = [todo EXCEPT ![d] = left]
          /\ pc' = [pc EXCEPT ![d] = "acquiring"]
          /\ grant' = [grant EXCEPT ![d] = IF AfterRequest(br[Chain[k]]).state = "HALF_OPEN"
                                          THEN "probe" ELSE "plain"]
          /\ decision' = [decision EXCEPT ![d] = "none"]
      BY <2>5, <2>6, ZenonT(40) DEF Try
    <3> QED
      BY <2>2, <2>3, <2>5, <3>1 DEF TriesAt, left
  <2> QED
    BY <2>2, <2>7
<1> QED
  BY <1>1, <1>2
-----------------------------------------------------------------------------
(* What the loop changes stays in its domain. *)
LoopTypeOK ==
  /\ breaker \in [Providers -> Breakers]
  /\ pc \in [Deliveries -> {"idle", "acquiring", "sending"}]
  /\ todo \in [Deliveries -> SUBSET DOMAIN Chain]
  /\ decision \in [Deliveries -> {"none", "sent", "retry", "failed"}]
  /\ grant \in [Deliveries -> {"idle", "plain", "probe"}]
  /\ \A d \in Deliveries : (pc[d] = "idle") <=> (todo[d] = {})
  /\ \A d \in Deliveries : (pc[d] = "idle") <=> (grant[d] = "idle")

LEMMA ProceedType ==
  ASSUME TypeOK, NEW d \in Deliveries, NEW br \in [Providers -> Breakers],
         NEW rest \in SUBSET DOMAIN Chain, NEW retry \in BOOLEAN,
         Proceed(d, br, rest, retry)
  PROVE  LoopTypeOK'
<1>1. CASE Exhausts(d, br, rest, retry)
  BY <1>1 DEF Exhausts, Decide, TypeOK, LoopTypeOK
<1>2. ASSUME NEW k \in rest, TriesAt(d, br, rest, k) PROVE LoopTypeOK'
  <2> DEFINE left == {i \in rest : i >= k}
  <2>1. AfterRequest(br[Chain[k]]) \in Breakers /\ Chain[k] \in Providers
    BY Places, OpsType
  <2>2. breaker' \in [Providers -> Breakers]
    BY <1>2, <2>1 DEF TriesAt
  <2>3. k \in left /\ left \in SUBSET DOMAIN Chain
    BY Places
  <2>4. todo' = [todo EXCEPT ![d] = left] /\ left # {}
    BY <1>2, <2>3 DEF TriesAt
  <2>5. todo' \in [Deliveries -> SUBSET DOMAIN Chain]
    BY <2>3, <2>4 DEF TypeOK
  <2>6. \A e \in Deliveries : (pc'[e] = "idle") <=> (todo'[e] = {})
    BY <1>2, <2>4 DEF TriesAt, TypeOK
  <2>8. \A e \in Deliveries : (pc'[e] = "idle") <=> (grant'[e] = "idle")
    BY <1>2 DEF TriesAt, TypeOK
  <2>7. /\ pc' \in [Deliveries -> {"idle", "acquiring", "sending"}]
        /\ decision' \in [Deliveries -> {"none", "sent", "retry", "failed"}]
        /\ grant' \in [Deliveries -> {"idle", "plain", "probe"}]
    BY <1>2 DEF TriesAt, TypeOK
  <2> QED
    BY <2>2, <2>5, <2>6, <2>7, <2>8 DEF LoopTypeOK
<1> QED
  BY <1>1, <1>2, ProceedOutcome

(* A delivery that is waiting has a current provider. *)
LEMMA CurrentPlace ==
  ASSUME TypeOK, NEW d \in Deliveries, pc[d] # "idle"
  PROVE  /\ Min(todo[d]) \in todo[d]
         /\ Min(todo[d]) \in DOMAIN Chain
         /\ \A i \in todo[d] : Min(todo[d]) <= i
         /\ Current(d) \in Providers
<1>1. todo[d] \in SUBSET DOMAIN Chain /\ todo[d] # {}
  BY DEF TypeOK
<1> QED
  BY <1>1, FirstPlace, Places DEF Current

(* The breakers as deliver() finds them at its start, and the providers it  *)
(* then has.                                                                *)
Seen == [p \in Providers |-> Synced(breaker[p])]
Usable(available) ==
  {i \in DOMAIN Chain : ~IsOpen(Seen[Chain[i]]) /\ Chain[i] \in available}

LEMMA StartFacts ==
  ASSUME TypeOK, NEW d \in Deliveries, NEW n \in 0..(MaxAttempts - 1),
         NEW available \in SUBSET Providers, Start(d, n, available)
  PROVE  /\ Seen \in [Providers -> Breakers]
         /\ Usable(available) \in SUBSET DOMAIN Chain
         /\ Proceed(d, Seen, Usable(available),
                    Usable(available) = {} /\ ShouldRetry(NoProvider, n + 1))
<1>1. Seen \in [Providers -> Breakers]
  BY OpsType DEF Seen, TypeOK
<1> QED
  BY <1>1 DEF Start, Seen, Usable

LEMMA FailFacts ==
  ASSUME TypeOK, NEW d \in Deliveries, pc[d] # "idle", NEW error, NEW kind,
         Fail(d, error, kind)
  PROVE  LET br == [breaker EXCEPT ![Current(d)] = AfterFailure(@)]
             rest == todo[d] \ {Min(todo[d])}
             again == saw[d] \/ ShouldRetry(error, attempts[d] + 1)
         IN  /\ br \in [Providers -> Breakers]
             /\ rest \in SUBSET DOMAIN Chain
             /\ again \in BOOLEAN
             /\ Proceed(d, br, rest, again)
<1>1. Current(d) \in Providers
  BY CurrentPlace
<1>2. AfterFailure(breaker[Current(d)]) \in Breakers
  BY <1>1, OpsType DEF TypeOK
<1>3. saw[d] \in BOOLEAN
  BY DEF TypeOK
<1> QED
  BY <1>1, <1>2, <1>3 DEF Fail, TypeOK

(* The waits of a delivery may end in a failure of the current provider, by *)
(* an error that is retried, while attempts are left, just when it is of    *)
(* the kind that may pass.                                                  *)
FailsBy(d, error, kind) ==
  /\ pc[d] # "idle"
  /\ kind \in {"transient", "permanent"}
  /\ \A attempt : ShouldRetry(error, attempt) <=> attempt < MaxAttempts /\ kind = "transient"
  /\ Fail(d, error, kind)

Failing(d) == \E error, kind : FailsBy(d, error, kind)

(* The two ways in which the errors of providers are classified agree with  *)
(* what their statuses mean.                                                *)
LEMMA Classified ==
  ASSUME NEW status \in Statuses, NEW attempt
  PROVE  /\ ShouldRetry(Normalized(status), attempt) <=>
              attempt < MaxAttempts /\ Kind(status) = "transient"
         /\ ShouldRetry(Unnormalized(status), attempt) <=>
              attempt < MaxAttempts /\ Kind(status) = "transient"
<1>1. status = 0 \/ status \in 400..599
  BY DEF NoStatus
<1>2. RetryableStatus(status) <=> Kind(status) = "transient"
  BY <1>1 DEF RetryableStatus, Kind, NoStatus
<1>3. Normalized(status).retryable <=> Kind(status) = "transient"
  <2>1. (status = NoStatus \/ status = 429 \/ status \in 500..599) <=> Kind(status) = "transient"
    <3>1. CASE status = 0
      BY <3>1 DEF Kind, NoStatus
    <3>2. CASE status \in 400..599
      BY <3>2 DEF Kind, NoStatus
    <3> QED
      BY <1>1, <3>1, <3>2
  <2> QED
    BY <2>1, NormalizedRetryable
<1>4. Normalized(status).class = "ProviderError"
  BY DEF Normalized
<1>5. Unnormalized(status).class = "Error" /\ Unnormalized(status).status = status
  BY DEF Unnormalized
<1> QED
  BY <1>2, <1>3, <1>4, <1>5 DEF ShouldRetry

LEMMA FailingSteps ==
  ASSUME NEW d \in Deliveries, RateLimited(d) \/ \E status \in Statuses : SendFails(d, status)
  PROVE  Failing(d)
<1>1. CASE RateLimited(d)
  <2>1. FailsBy(d, RateLimitError, "transient")
    BY <1>1 DEF RateLimited, FailsBy, ShouldRetry, RateLimitError
  <2> QED
    BY <2>1 DEF Failing
<1>2. ASSUME NEW status \in Statuses, SendFails(d, status) PROVE Failing(d)
  <2>1. Kind(status) \in {"transient", "permanent"}
    BY DEF Kind
  <2>2. \/ FailsBy(d, Normalized(status), Kind(status))
        \/ FailsBy(d, Unnormalized(status), Kind(status))
    BY <1>2, <2>1, Classified DEF SendFails, FailsBy
  <2> QED
    BY <2>2 DEF Failing
<1> QED
  BY <1>1, <1>2

LEMMA WatchType ==
  ASSUME NEW candidates \in [Deliveries -> SUBSET Providers], Watch(candidates)
  PROVE  steady' \in [Deliveries -> SUBSET Providers]
BY DEF Watch

(* The deliveries, their providers and the breakers stay in their domains.  *)
LEMMA TypeStep == TypeOK /\ [Next]_vars => TypeOK'
<1> SUFFICES ASSUME TypeOK, [Next]_vars PROVE TypeOK'
  OBVIOUS
<1>1. ASSUME NEW d \in Deliveries, NEW n \in 0..(MaxAttempts - 1),
             NEW available \in SUBSET Providers, Start(d, n, available)
      PROVE  TypeOK'
  <2>1. LoopTypeOK'
    <3> DEFINE retry == Usable(available) = {} /\ ShouldRetry(NoProvider, n + 1)
    <3>1. /\ Seen \in [Providers -> Breakers]
          /\ Usable(available) \in SUBSET DOMAIN Chain
          /\ Proceed(d, Seen, Usable(available), retry)
          /\ retry \in BOOLEAN
      BY <1>1, StartFacts
    <3> HIDE DEF retry
    <3> QED
      BY <3>1, ProceedType
  <2>2. steady' \in [Deliveries -> SUBSET Providers]
    <3>1. [steady EXCEPT ![d] = available] \in [Deliveries -> SUBSET Providers]
      BY DEF TypeOK
    <3>2. Watch([steady EXCEPT ![d] = available])
      BY <1>1 DEF Start
    <3> QED
      BY <3>1, <3>2, WatchType, ZenonT(40)
  <2>3. /\ attempts' \in [Deliveries -> 0..(MaxAttempts - 1)]
        /\ saw' \in [Deliveries -> BOOLEAN]
        /\ failures' \in [Deliveries -> SUBSET (Providers \X {"transient", "permanent"})]
    BY <1>1 DEF Start, TypeOK
  <2> QED
    BY <2>1, <2>2, <2>3 DEF LoopTypeOK, TypeOK
<1>2. ASSUME NEW d \in Deliveries, Failing(d) PROVE TypeOK'
  <2>0. PICK error, kind : FailsBy(d, error, kind)
    BY <1>2 DEF Failing
  <2>1. pc[d] # "idle" /\ kind \in {"transient", "permanent"} /\ Fail(d, error, kind)
    BY <2>0 DEF FailsBy
  <2>2. LoopTypeOK'
    <3> DEFINE br == [breaker EXCEPT ![Current(d)] = AfterFailure(@)]
               rest == todo[d] \ {Min(todo[d])}
               again == saw[d] \/ ShouldRetry(error, attempts[d] + 1)
    <3>1. /\ br \in [Providers -> Breakers]
          /\ rest \in SUBSET DOMAIN Chain
          /\ again \in BOOLEAN
          /\ Proceed(d, br, rest, again)
      BY <2>1, FailFacts, ZenonT(40)
    <3> HIDE DEF br, rest, again
    <3> QED
      BY <3>1, ProceedType
  <2>3. steady' \in [Deliveries -> SUBSET Providers]
    <3>1. steady \in [Deliveries -> SUBSET Providers] /\ Watch(steady)
      BY <2>1 DEF Fail, TypeOK
    <3> QED
      BY <3>1, WatchType
  <2>4. Current(d) \in Providers
    BY <2>1, CurrentPlace
  <2>5. /\ failures' = [failures EXCEPT ![d] = @ \cup {<<Current(d), kind>>}]
        /\ saw' = [saw EXCEPT ![d] = saw[d] \/ ShouldRetry(error, attempts[d] + 1)]
        /\ attempts' = attempts
    BY <2>1 DEF Fail
  <2>6. failures' \in [Deliveries -> SUBSET (Providers \X {"transient", "permanent"})]
    BY <2>1, <2>4, <2>5 DEF TypeOK
  <2>7. saw' \in [Deliveries -> BOOLEAN]
    BY <2>5 DEF TypeOK
  <2> QED
    BY <2>2, <2>3, <2>5, <2>6, <2>7 DEF LoopTypeOK, TypeOK
<1>3. ASSUME NEW d \in Deliveries, SendSucceeds(d) PROVE TypeOK'
  <2>1. breaker' \in [Providers -> Breakers]
    BY <1>3, OpsType, CurrentPlace DEF SendSucceeds, AfterSuccess, TypeOK, NewBreaker, Breakers, CircuitState
  <2>2. steady' \in [Deliveries -> SUBSET Providers]
    BY <1>3 DEF SendSucceeds, Watch, TypeOK
  <2>3. /\ pc' \in [Deliveries -> {"idle", "acquiring", "sending"}]
        /\ todo' \in [Deliveries -> SUBSET DOMAIN Chain]
        /\ \A e \in Deliveries : (pc'[e] = "idle") <=> (todo'[e] = {})
    BY <1>3 DEF SendSucceeds, TypeOK
  <2>4. /\ decision' \in [Deliveries -> {"none", "sent", "retry", "failed"}]
        /\ grant' \in [Deliveries -> {"idle", "plain", "probe"}]
        /\ \A e \in Deliveries : (pc'[e] = "idle") <=> (grant'[e] = "idle")
    BY <1>3 DEF SendSucceeds, TypeOK
  <2>5. UNCHANGED <<attempts, saw, failures>>
    BY <1>3 DEF SendSucceeds
  <2> QED
    BY <2>1, <2>2, <2>3, <2>4, <2>5 DEF TypeOK
<1>4. ASSUME NEW d \in Deliveries, Acquired(d) PROVE TypeOK'
  BY <1>4 DEF Acquired, TypeOK
<1>5. CASE Tick
  <2>1. breaker' \in [Providers -> Breakers]
    BY <1>5, OpsType DEF Tick, TypeOK
  <2> QED
    BY <1>5, <2>1 DEF Tick, TypeOK
<1>6. CASE UNCHANGED vars
  BY <1>6 DEF vars, TypeOK
<1> QED
  BY <1>1, <1>2, <1>3, <1>4, <1>5, <1>6, FailingSteps DEF Next, Acquire, Answer

(* The deliveries and the breakers stay in their domains, whatever the      *)
(* deliveries do to the breakers they share.                                *)
THEOREM TypeCorrect == Spec => []TypeOK
<1>1. Init => TypeOK
  BY OpsType DEF Init, TypeOK, NewBreaker, Breakers, CircuitState
<1> QED
  BY <1>1, TypeStep, PTL DEF Spec
-----------------------------------------------------------------------------
(* The inductive invariant.  A steady provider is still to be tried or has  *)
(* failed the delivery; and sawRetryableFailure says that a failure may     *)
(* pass and that there are attempts left.                                   *)
SteadyInv ==
  \A d \in Deliveries :
    /\ pc[d] # "idle" =>
         \A i \in DOMAIN Chain : Chain[i] \in steady[d] => i \in todo[d] \/ Chain[i] \in FailedBy(d)
    /\ decision[d] \in {"retry", "failed"} => steady[d] \subseteq FailedBy(d)

SawInv ==
  \A d \in Deliveries :
    saw[d] <=> attempts[d] + 1 < MaxAttempts /\ "transient" \in FailedAs(d)

IInv == TypeOK /\ SteadyInv /\ SawInv /\ RetryDecisionRight

(* Of the providers of rest, one that is CLOSED when the loop has been      *)
(* through them has not been passed over.                                   *)
LEMMA NoneSkipped ==
  ASSUME TypeOK, NEW d \in Deliveries, NEW br \in [Providers -> Breakers],
         NEW rest \in SUBSET DOMAIN Chain, NEW retry \in BOOLEAN,
         Proceed(d, br, rest, retry),
         NEW i \in rest, breaker'[Chain[i]].state = "CLOSED"
  PROVE  i \in todo'[d] /\ pc'[d] # "idle"
<1>0. Chain[i] \in Providers /\ i \in Nat
  BY Places
<1>1. CASE Exhausts(d, br, rest, retry)
  <2>1. breaker' = br /\ ~MayRequest(br[Chain[i]])
    BY <1>1 DEF Exhausts, Decide
  <2> QED
    BY <1>0, <2>1, SyncedTwice
<1>2. ASSUME NEW k \in rest, TriesAt(d, br, rest, k) PROVE i \in todo'[d] /\ pc'[d] # "idle"
  <2>1. CASE i >= k
    BY <1>2, <2>1 DEF TriesAt, TypeOK
  <2>2. CASE i < k
    <3>1. ~MayRequest(br[Chain[i]])
      BY <1>2, <2>2 DEF TriesAt
    <3>2. Chain[i] # Chain[k]
      BY <2>2, Places
    <3>3. breaker'[Chain[i]] = br[Chain[i]]
      BY <1>0, <1>2, <3>2 DEF TriesAt
    <3> QED
      BY <1>0, <3>1, <3>3, SyncedTwice
  <2>3. k \in Nat
    BY Places
  <2> QED
    BY <1>0, <2>1, <2>2, <2>3
<1> QED
  BY <1>1, <1>2, ProceedOutcome

(* The loop leaves the other deliveries alone, and decides on the failures. *)
LEMMA ProceedOthers ==
  ASSUME TypeOK, NEW d \in Deliveries, NEW br \in [Providers -> Breakers],
         NEW rest \in SUBSET DOMAIN Chain, NEW retry \in BOOLEAN,
         Proceed(d, br, rest, retry)
  PROVE  /\ \A e \in Deliveries \ {d} :
              /\ pc'[e] = pc[e] /\ todo'[e] = todo[e]
              /\ decision'[e] = decision[e] /\ grant'[e] = grant[e]
         /\ pc'[d] # "idle" => decision'[d] = "none"
         /\ pc'[d] = "idle" => decision'[d] = IF retry THEN "retry" ELSE "failed"
<1>1. CASE Exhausts(d, br, rest, retry)
  BY <1>1 DEF Exhausts, Decide, TypeOK
<1>2. ASSUME NEW k \in rest, TriesAt(d, br, rest, k)
      PROVE  /\ \A e \in Deliveries \ {d} :
                  /\ pc'[e] = pc[e] /\ todo'[e] = todo[e]
                  /\ decision'[e] = decision[e] /\ grant'[e] = grant[e]
             /\ pc'[d] = "acquiring" /\ decision'[d] = "none"
  BY <1>2 DEF TriesAt, TypeOK
<1> QED
  BY <1>1, <1>2, ProceedOutcome

(* It leaves alone the breakers of the providers that are not in rest.      *)
LEMMA ProceedElsewhere ==
  ASSUME NEW d \in Deliveries, NEW br \in [Providers -> Breakers],
         NEW rest \in SUBSET DOMAIN Chain, NEW retry \in BOOLEAN,
         Proceed(d, br, rest, retry),
         NEW i \in DOMAIN Chain, i \notin rest
  PROVE  breaker'[Chain[i]] = br[Chain[i]]
<1>1. CASE Exhausts(d, br, rest, retry)
  BY <1>1 DEF Exhausts, Decide
<1>2. ASSUME NEW k \in rest, TriesAt(d, br, rest, k) PROVE breaker'[Chain[i]] = br[Chain[i]]
  <2>1. Chain[i] # Chain[k] /\ Chain[i] \in Providers
    BY Places
  <2> QED
    BY <1>2, <2>1 DEF TriesAt
<1> QED
  BY <1>1, <1>2, ProceedOutcome

LEMMA StartStep ==
  ASSUME IInv, NEW d \in Deliveries, NEW n \in 0..(MaxAttempts - 1),
         NEW available \in SUBSET Providers, Start(d, n, available)
  PROVE  (SteadyInv /\ SawInv /\ RetryDecisionRight)'
<1> DEFINE retry == Usable(available) = {} /\ ShouldRetry(NoProvider, n + 1)
<1>0. TypeOK /\ SteadyInv /\ SawInv /\ RetryDecisionRight
  BY DEF IInv
<1>1. /\ Seen \in [Providers -> Breakers]
      /\ Usable(available) \in SUBSET DOMAIN Chain
      /\ Proceed(d, Seen, Usable(available), retry)
  BY <1>0, StartFacts
<1>2. retry \in BOOLEAN
  OBVIOUS
<1>3. /\ attempts' = [attempts EXCEPT ![d] = n]
      /\ saw' = [saw EXCEPT ![d] = FALSE]
      /\ failures' = [failures EXCEPT ![d] = {}]
      /\ steady' = [e \in Deliveries |->
                      {p \in [steady EXCEPT ![d] = available][e] : breaker'[p].state = "CLOSED"}]
  BY DEF Start, Watch
<1>4. /\ attempts'[d] = n /\ saw'[d] = FALSE /\ failures'[d] = {}
      /\ steady'[d] = {p \in available : breaker'[p].state = "CLOSED"}
  BY <1>0, <1>3 DEF TypeOK
<1>5. \A e \in Deliveries \ {d} :
        /\ attempts'[e] = attempts[e] /\ saw'[e] = saw[e] /\ failures'[e] = failures[e]
        /\ steady'[e] \subseteq steady[e]
  BY <1>0, <1>3 DEF TypeOK
<1>6. FailedBy(d)' = {} /\ FailedAs(d)' = {}
  BY <1>4 DEF FailedBy, FailedAs
<1>7. \A e \in Deliveries \ {d} : FailedBy(e)' = FailedBy(e) /\ FailedAs(e)' = FailedAs(e)
  BY <1>5 DEF FailedBy, FailedAs
<1>8. /\ \A e \in Deliveries \ {d} :
           pc'[e] = pc[e] /\ todo'[e] = todo[e] /\ decision'[e] = decision[e]
      /\ pc'[d] # "idle" => decision'[d] = "none"
      /\ pc'[d] = "idle" => decision'[d] = IF retry THEN "retry" ELSE "failed"
  <2> HIDE DEF retry
  <2> QED
    BY <1>0, <1>1, <1>2, ProceedOthers
<1>9. ASSUME NEW i \in DOMAIN Chain, Chain[i] \in steady'[d]
      PROVE  i \in todo'[d] /\ pc'[d] # "idle"
  <2>1. Chain[i] \in available /\ breaker'[Chain[i]].state = "CLOSED"
    BY <1>4, <1>9
  <2>2. i \in Usable(available)
    <3>1. SUFFICES ASSUME i \notin Usable(available) PROVE FALSE
      OBVIOUS
    <3>2. breaker'[Chain[i]] = Seen[Chain[i]]
      <4> HIDE DEF retry
      <4> QED
        BY <1>1, <1>2, <3>1, ProceedElsewhere
    <3>3. ~IsOpen(Seen[Chain[i]])
      BY <1>1, <2>1, <3>2, SyncedTwice
    <3> QED
      BY <2>1, <3>1, <3>3 DEF Usable
  <2> HIDE DEF retry
  <2> QED
    BY <1>0, <1>1, <1>2, <2>1, <2>2, NoneSkipped
<1>10. SteadyInv'
  <2>1. ASSUME NEW e \in Deliveries, e # d
        PROVE  /\ pc'[e] # "idle" =>
                    \A i \in DOMAIN Chain : Chain[i] \in steady'[e] =>
                      i \in todo'[e] \/ Chain[i] \in FailedBy(e)'
               /\ decision'[e] \in {"retry", "failed"} => steady'[e] \subseteq FailedBy(e)'
    <3>1. /\ pc[e] # "idle" =>
               \A i \in DOMAIN Chain : Chain[i] \in steady[e] =>
                 i \in todo[e] \/ Chain[i] \in FailedBy(e)
          /\ decision[e] \in {"retry", "failed"} => steady[e] \subseteq FailedBy(e)
      BY <1>0 DEF SteadyInv
    <3>2. /\ pc'[e] = pc[e] /\ todo'[e] = todo[e] /\ decision'[e] = decision[e]
          /\ FailedBy(e)' = FailedBy(e) /\ steady'[e] \subseteq steady[e]
      BY <1>5, <1>7, <1>8, <2>1
    <3> QED
      BY <3>1, <3>2
  <2>2. decision'[d] \in {"retry", "failed"} => steady'[d] = {}
    BY <1>4, <1>8, <1>9, Places
  <2> QED
    BY <1>9, <2>1, <2>2 DEF SteadyInv
<1>11. SawInv'
  BY <1>0, <1>4, <1>5, <1>6, <1>7 DEF SawInv
<1>12. RetryDecisionRight'
  <2>1. ASSUME NEW e \in Deliveries, e # d
        PROVE  /\ decision'[e] = "retry" =>
                    attempts'[e] + 1 < MaxAttempts /\ FailedAs(e)' # {"permanent"}
               /\ decision'[e] = "failed" /\ attempts'[e] + 1 < MaxAttempts =>
                    "transient" \notin FailedAs(e)'
    BY <1>0, <1>5, <1>7, <1>8, <2>1 DEF RetryDecisionRight
  <2>2. decision'[d] = "retry" => n + 1 < MaxAttempts
    BY <1>8 DEF ShouldRetry
  <2> HIDE DEF retry
  <2> QED
    BY <1>4, <1>6, <2>1, <2>2 DEF RetryDecisionRight
<1> QED
  BY <1>10, <1>11, <1>12

LEMMA Images ==
  \A S, x : /\ {f[1] : f \in S \cup {x}} = {f[1] : f \in S} \cup {x[1]}
            /\ {f[2] : f \in S \cup {x}} = {f[2] : f \in S} \cup {x[2]}
<1>1. ASSUME NEW S, NEW x, NEW y
      PROVE  y \in {f[1] : f \in S \cup {x}} <=> y \in {f[1] : f \in S} \cup {x[1]}
  OBVIOUS
<1>2. ASSUME NEW S, NEW x, NEW y
      PROVE  y \in {f[2] : f \in S \cup {x}} <=> y \in {f[2] : f \in S} \cup {x[2]}
  OBVIOUS
<1> QED
  BY <1>1, <1>2

LEMMA FailStep ==
  ASSUME IInv, NEW d \in Deliveries, NEW error, NEW kind, FailsBy(d, error, kind)
  PROVE  (SteadyInv /\ SawInv /\ RetryDecisionRight)'
<1> DEFINE br == [breaker EXCEPT ![Current(d)] = AfterFailure(@)]
           rest == todo[d] \ {Min(todo[d])}
           again == saw[d] \/ ShouldRetry(error, attempts[d] + 1)
<1>0. /\ TypeOK /\ SteadyInv /\ SawInv /\ RetryDecisionRight
      /\ pc[d] # "idle" /\ Fail(d, error, kind)
  BY DEF IInv, FailsBy
<1>1. /\ br \in [Providers -> Breakers]
      /\ rest \in SUBSET DOMAIN Chain
      /\ again \in BOOLEAN
      /\ Proceed(d, br, rest, again)
  BY <1>0, FailFacts, ZenonT(40)
<1>3. /\ saw' = [saw EXCEPT ![d] = again]
      /\ failures' = [failures EXCEPT ![d] = @ \cup {<<Current(d), kind>>}]
      /\ attempts' = attempts
      /\ steady' = [e \in Deliveries |-> {p \in steady[e] : breaker'[p].state = "CLOSED"}]
  BY <1>0 DEF Fail, Watch
<1>4. saw'[d] = again /\ failures'[d] = failures[d] \cup {<<Current(d), kind>>}
  BY <1>0, <1>3 DEF TypeOK
<1>5. \A e \in Deliveries :
        /\ e # d => saw'[e] = saw[e] /\ failures'[e] = failures[e]
        /\ steady'[e] \subseteq steady[e]
  BY <1>0, <1>3 DEF TypeOK
<1>6. /\ FailedBy(d)' = FailedBy(d) \cup {Current(d)}
      /\ FailedAs(d)' = FailedAs(d) \cup {kind}
  <2> DEFINE last == <<Current(d), kind>>
  <2>1. last[1] = Current(d) /\ last[2] = kind
    OBVIOUS
  <2>2. failures'[d] = failures[d] \cup {last}
    BY <1>4
  <2> HIDE DEF last
  <2>3. /\ FailedBy(d)' = {f[1] : f \in failures[d] \cup {last}}
        /\ FailedAs(d)' = {f[2] : f \in failures[d] \cup {last}}
    BY <2>2 DEF FailedBy, FailedAs
  <2>4. /\ {f[1] : f \in failures[d] \cup {last}} = {f[1] : f \in failures[d]} \cup {last[1]}
        /\ {f[2] : f \in failures[d] \cup {last}} = {f[2] : f \in failures[d]} \cup {last[2]}
    BY Images
  <2>5. /\ FailedBy(d) = {f[1] : f \in failures[d]}
        /\ FailedAs(d) = {f[2] : f \in failures[d]}
    BY DEF FailedBy, FailedAs
  <2> QED
    BY <2>1, <2>3, <2>4, <2>5
<1>7. \A e \in Deliveries \ {d} : FailedBy(e)' = FailedBy(e) /\ FailedAs(e)' = FailedAs(e)
  BY <1>5 DEF FailedBy, FailedAs
<1>8. /\ \A e \in Deliveries \ {d} :
           pc'[e] = pc[e] /\ todo'[e] = todo[e] /\ decision'[e] = decision[e]
      /\ pc'[d] # "idle" => decision'[d] = "none"
      /\ pc'[d] = "idle" => decision'[d] = IF again THEN "retry" ELSE "failed"
  <2> HIDE DEF br, rest, again
  <2> QED
    BY <1>0, <1>1, ProceedOthers
<1>9. ASSUME NEW i \in DOMAIN Chain, Chain[i] \in steady'[d]
      PROVE  (i \in todo'[d] /\ pc'[d] # "idle") \/ Chain[i] \in FailedBy(d)'
  <2>1. Chain[i] \in steady[d] /\ breaker'[Chain[i]].state = "CLOSED"
    BY <1>3, <1>9
  <2>2. i \in todo[d] \/ Chain[i] \in FailedBy(d)
    BY <1>0, <2>1 DEF SteadyInv
  <2>3. CASE i = Min(todo[d])
    BY <1>6, <2>3 DEF Current
  <2>4. CASE i \in rest
    <3> HIDE DEF br, rest, again
    <3> QED
      BY <1>0, <1>1, <2>1, <2>4, NoneSkipped
  <2> QED
    BY <1>6, <2>2, <2>3, <2>4
<1>10. SteadyInv'
  <2>1. ASSUME NEW e \in Deliveries, e # d
        PROVE  /\ pc'[e] # "idle" =>
                    \A i \in DOMAIN Chain : Chain[i] \in steady'[e] =>
                      i \in todo'[e] \/ Chain[i] \in FailedBy(e)'
               /\ decision'[e] \in {"retry", "failed"} => steady'[e] \subseteq FailedBy(e)'
    <3>1. /\ pc[e] # "idle" =>
               \A i \in DOMAIN Chain : Chain[i] \in steady[e] =>
                 i \in todo[e] \/ Chain[i] \in FailedBy(e)
          /\ decision[e] \in {"retry", "failed"} => steady[e] \subseteq FailedBy(e)
      BY <1>0 DEF SteadyInv
    <3>2. /\ pc'[e] = pc[e] /\ todo'[e] = todo[e] /\ decision'[e] = decision[e]
          /\ FailedBy(e)' = FailedBy(e) /\ steady'[e] \subseteq steady[e]
      BY <1>5, <1>7, <1>8, <2>1
    <3> QED
      BY <3>1, <3>2
  <2>2. decision'[d] \in {"retry", "failed"} => steady'[d] \subseteq FailedBy(d)'
    <3>1. SUFFICES ASSUME decision'[d] \in {"retry", "failed"}, NEW p \in steady'[d]
                   PROVE  p \in FailedBy(d)'
      OBVIOUS
    <3>2. PICK i \in DOMAIN Chain : Chain[i] = p
      BY <1>0, <1>5, Places DEF TypeOK
    <3> QED
      BY <1>8, <1>9, <3>1, <3>2
  <2> QED
    BY <1>9, <2>1, <2>2 DEF SteadyInv
<1>11. again <=> attempts[d] + 1 < MaxAttempts /\ "transient" \in FailedAs(d)'
  <2>1. saw[d] <=> attempts[d] + 1 < MaxAttempts /\ "transient" \in FailedAs(d)
    BY <1>0 DEF SawInv
  <2>2. ShouldRetry(error, attempts[d] + 1) <=>
          attempts[d] + 1 < MaxAttempts /\ kind = "transient"
    BY DEF FailsBy
  <2> QED
    BY <1>6, <2>1, <2>2
<1>12. SawInv'
  <2> HIDE DEF again
  <2> QED
    BY <1>0, <1>3, <1>4, <1>5, <1>7, <1>11 DEF SawInv
<1>13. RetryDecisionRight'
  <2>1. ASSUME NEW e \in Deliveries, e # d
        PROVE  /\ decision'[e] = "retry" =>
                    attempts'[e] + 1 < MaxAttempts /\ FailedAs(e)' # {"permanent"}
               /\ decision'[e] = "failed" /\ attempts'[e] + 1 < MaxAttempts =>
                    "transient" \notin FailedAs(e)'
    BY <1>0, <1>3, <1>7, <1>8, <2>1 DEF RetryDecisionRight
  <2> HIDE DEF again
  <2>2. /\ decision'[d] = "retry" =>
             attempts'[d] + 1 < MaxAttempts /\ FailedAs(d)' # {"permanent"}
        /\ decision'[d] = "failed" /\ attempts'[d] + 1 < MaxAttempts =>
             "transient" \notin FailedAs(d)'
    BY <1>3, <1>8, <1>11
  <2> QED
    BY <2>1, <2>2 DEF RetryDecisionRight
<1> QED
  BY <1>10, <1>12, <1>13

LEMMA InvStep == IInv /\ [Next]_vars => IInv'
<1> SUFFICES ASSUME IInv, [Next]_vars PROVE (SteadyInv /\ SawInv /\ RetryDecisionRight)'
  BY TypeStep DEF IInv
<1>0. TypeOK /\ SteadyInv /\ SawInv /\ RetryDecisionRight
  BY DEF IInv
<1>1. ASSUME NEW d \in Deliveries, Failing(d)
      PROVE  (SteadyInv /\ SawInv /\ RetryDecisionRight)'
  BY <1>1, FailStep DEF Failing
<1>2. ASSUME NEW d \in Deliveries, SendSucceeds(d)
      PROVE  (SteadyInv /\ SawInv /\ RetryDecisionRight)'
  <2>1. /\ \A e \in Deliveries \ {d} :
             pc'[e] = pc[e] /\ todo'[e] = todo[e] /\ decision'[e] = decision[e]
        /\ pc'[d] = "idle" /\ decision'[d] = "sent"
        /\ \A e \in Deliveries : steady'[e] \subseteq steady[e]
        /\ UNCHANGED <<attempts, saw, failures>>
    BY <1>0, <1>2 DEF SendSucceeds, Watch, TypeOK
  <2>2. \A e \in Deliveries : FailedBy(e)' = FailedBy(e) /\ FailedAs(e)' = FailedAs(e)
    BY <2>1 DEF FailedBy, FailedAs
  <2>3. SteadyInv'
    BY <1>0, <2>1, <2>2 DEF SteadyInv
  <2>4. SawInv'
    BY <1>0, <2>1, <2>2 DEF SawInv
  <2>5. RetryDecisionRight'
    BY <1>0, <2>1, <2>2 DEF RetryDecisionRight
  <2> QED
    BY <2>3, <2>4, <2>5
<1>3. ASSUME NEW d \in Deliveries, Acquired(d)
      PROVE  (SteadyInv /\ SawInv /\ RetryDecisionRight)'
  <2>1. /\ \A e \in Deliveries : (pc'[e] = "idle") <=> (pc[e] = "idle")
        /\ UNCHANGED <<todo, attempts, saw, decision, failures, steady>>
    BY <1>0, <1>3 DEF Acquired, TypeOK
  <2>2. \A e \in Deliveries : FailedBy(e)' = FailedBy(e) /\ FailedAs(e)' = FailedAs(e)
    BY <2>1 DEF FailedBy, FailedAs
  <2>3. SteadyInv'
    BY <1>0, <2>1, <2>2 DEF SteadyInv
  <2>4. SawInv'
    BY <1>0, <2>1, <2>2 DEF SawInv
  <2>5. RetryDecisionRight'
    BY <1>0, <2>1, <2>2 DEF RetryDecisionRight
  <2> QED
    BY <2>3, <2>4, <2>5
<1>4. CASE Tick \/ UNCHANGED vars
  <2>1. UNCHANGED <<pc, todo, attempts, saw, decision, failures, steady>>
    BY <1>4 DEF Tick, vars
  <2>2. \A e \in Deliveries : FailedBy(e)' = FailedBy(e) /\ FailedAs(e)' = FailedAs(e)
    BY <2>1 DEF FailedBy, FailedAs
  <2>3. SteadyInv'
    BY <1>0, <2>1, <2>2 DEF SteadyInv
  <2>4. SawInv'
    BY <1>0, <2>1, <2>2 DEF SawInv
  <2>5. RetryDecisionRight'
    BY <1>0, <2>1, <2>2 DEF RetryDecisionRight
  <2> QED
    BY <2>3, <2>4, <2>5
<1> QED
  BY <1>1, <1>2, <1>3, <1>4, StartStep, FailingSteps DEF Next, Acquire, Answer

LEMMA Invariant == Spec => []IInv
<1>1. Init => TypeOK
  BY OpsType DEF Init, TypeOK, NewBreaker, Breakers, CircuitState
<1>2. Init => SteadyInv /\ SawInv /\ RetryDecisionRight
  BY DEF Init, SteadyInv, SawInv, RetryDecisionRight, FailedBy, FailedAs
<1>3. Init => IInv
  BY <1>1, <1>2 DEF IInv
<1> QED
  BY <1>3, InvStep, PTL DEF Spec

(* Whatever the other deliveries do to the breakers, a provider that is     *)
(* available and CLOSED all through a delivery has been tried before a      *)
(* later one is and before the delivery gives up.                           *)
THEOREM HealthyProvidersAreTried == Spec => []HealthyProvidersTried
<1>1. ASSUME IInv, NEW d \in Deliveries, pc[d] # "idle",
             NEW p \in steady[d], Before(p, Current(d))
      PROVE  p \in FailedBy(d)
  <2>0. TypeOK /\ SteadyInv
    BY <1>1 DEF IInv
  <2>1. PICK m, n \in DOMAIN Chain : m < n /\ Chain[m] = p /\ Chain[n] = Current(d)
    BY <1>1 DEF Before
  <2>2. n = Min(todo[d])
    BY <1>1, <2>0, <2>1, CurrentPlace, Places DEF Current
  <2>3. m \notin todo[d]
    <3>1. m \in Nat /\ n \in Nat
      BY Places
    <3> QED
      BY <1>1, <2>0, <2>1, <2>2, <3>1, CurrentPlace
  <2> QED
    BY <1>1, <2>0, <2>1, <2>3 DEF SteadyInv
<1>2. IInv => HealthyProvidersTried
  BY <1>1 DEF IInv, SteadyInv, HealthyProvidersTried
<1> QED
  BY <1>2, Invariant, PTL

(* For every chain and every outcome of its providers, an email is put back *)
(* just when attempts are left and a failure may pass.                      *)
THEOREM RetryDecisionIsRight == Spec => []RetryDecisionRight
<1>1. IInv => RetryDecisionRight
  BY DEF IInv
<1> QED
  BY <1>1, Invariant, PTL
-----------------------------------------------------------------------------
(* The methods that the engine calls are those of CircuitBreaker. *)
LEMMA SameOps ==
  ASSUME NEW p, NEW b
  PROVE  /\ BreakerOf(p)!NewBreaker = NewBreaker
         /\ BreakerOf(p)!Recovered(b) <=> Recovered(b)
         /\ BreakerOf(p)!Synced(b) = Synced(b)
         /\ BreakerOf(p)!MayRequest(b) <=> MayRequest(b)
         /\ BreakerOf(p)!AfterRequest(b) = AfterRequest(b)
         /\ BreakerOf(p)!AfterSuccess(b) = AfterSuccess(b)
         /\ BreakerOf(p)!AfterFailure(b) = AfterFailure(b)
         /\ BreakerOf(p)!Aged(b) = Aged(b)
<1>1. BreakerOf(p)!NewBreaker = NewBreaker
  BY DEF BreakerOf!NewBreaker, NewBreaker
<1>2. BreakerOf(p)!Recovered(b) <=> Recovered(b)
  BY DEF BreakerOf!Recovered, Recovered
<1>3. BreakerOf(p)!Synced(b) = Synced(b)
  BY <1>2 DEF BreakerOf!Synced, Synced
<1>4. BreakerOf(p)!AfterFailure(b) = AfterFailure(b)
  BY DEF BreakerOf!AfterFailure, AfterFailure, BreakerOf!Opened, Opened
<1>5. BreakerOf(p)!Aged(b) = Aged(b)
  BY DEF BreakerOf!Aged, Aged
<1> QED
  BY <1>1, <1>2, <1>3, <1>4, <1>5
     DEF BreakerOf!MayRequest, MayRequest, BreakerOf!AfterRequest, AfterRequest,
         BreakerOf!AfterSuccess, AfterSuccess

(* What a step makes of the calls to p: d ends its call, if it has one, or  *)
(* is granted one.                                                          *)
EndsCall(d, p) == CallsTo(p)' = [CallsTo(p) EXCEPT ![d] = "idle"]
MakesCall(d, p) ==
  CallsTo(p)' = [CallsTo(p) EXCEPT ![d] =
                   IF breaker'[p].state = "HALF_OPEN" THEN "probe" ELSE "plain"]

LEMMA ExhaustsCalls ==
  ASSUME TypeOK, NEW d \in Deliveries, NEW br, NEW rest, NEW retry,
         Exhausts(d, br, rest, retry), NEW p \in Providers
  PROVE  breaker' = br /\ EndsCall(d, p)
<1>1. /\ breaker' = br
      /\ pc' = [pc EXCEPT ![d] = "idle"]
      /\ todo' = [todo EXCEPT ![d] = {}]
      /\ grant' = [grant EXCEPT ![d] = "idle"]
  BY DEF Exhausts, Decide
<1> QED
  BY <1>1, ZenonT(40) DEF EndsCall, CallsTo, Current, TypeOK

LEMMA TriesCalls ==
  ASSUME TypeOK, NEW d \in Deliveries, NEW br \in [Providers -> Breakers],
         NEW rest \in SUBSET DOMAIN Chain, NEW k \in rest, TriesAt(d, br, rest, k),
         NEW p \in Providers
  PROVE  /\ Chain[k] = p => /\ MayRequest(br[p])
                            /\ breaker'[p] = AfterRequest(br[p])
                            /\ MakesCall(d, p)
         /\ Chain[k] # p => breaker'[p] = br[p] /\ EndsCall(d, p)
<1>1. Chain[k] \in Providers
  BY Places
<1>2. /\ MayRequest(br[Chain[k]])
      /\ breaker'[Chain[k]] = AfterRequest(br[Chain[k]])
      /\ Chain[k] # p => breaker'[p] = br[p]
  BY <1>1 DEF TriesAt
<1>3. Min(todo'[d]) = k /\ pc'[d] = "acquiring"
  BY DEF TriesAt, TypeOK
<1>4. grant'[d] = IF breaker'[Chain[k]].state = "HALF_OPEN" THEN "probe" ELSE "plain"
  BY <1>2 DEF TriesAt, TypeOK
<1>5. \A e \in Deliveries \ {d} : pc'[e] = pc[e] /\ todo'[e] = todo[e] /\ grant'[e] = grant[e]
  BY DEF TriesAt, TypeOK
<1> DEFINE now == [e \in Deliveries |->
                     IF pc[e] # "idle" /\ Chain[Min(todo[e])] = p THEN grant[e] ELSE "idle"]
           next == [e \in Deliveries |->
                     IF pc'[e] # "idle" /\ Chain[Min(todo'[e])] = p THEN grant'[e] ELSE "idle"]
<1>6. next[d] = IF Chain[k] = p THEN grant'[d] ELSE "idle"
  BY <1>3
<1>7. \A e \in Deliveries \ {d} : next[e] = now[e]
  BY <1>5
<1>8. CallsTo(p) = now /\ CallsTo(p)' = next
  BY DEF CallsTo, Current
<1>9. CallsTo(p)' = [CallsTo(p) EXCEPT ![d] = next[d]]
  <2>1. next = [e \in Deliveries |-> next[e]] /\ now = [e \in Deliveries |-> now[e]]
    OBVIOUS
  <2> HIDE DEF now, next
  <2> QED
    BY <1>7, <1>8, <2>1
<1> HIDE DEF next
<1>10. CASE Chain[k] = p
  <2>1. next[d] = IF breaker'[p].state = "HALF_OPEN" THEN "probe" ELSE "plain"
    BY <1>4, <1>6, <1>10
  <2> QED
    BY <1>2, <1>9, <1>10, <2>1 DEF MakesCall
<1>11. CASE Chain[k] # p
  BY <1>2, <1>6, <1>9, <1>11 DEF EndsCall
<1> QED
  BY <1>10, <1>11

LEMMA StartMaps ==
  ASSUME TypeOK, NEW d \in Deliveries, NEW n \in 0..(MaxAttempts - 1),
         NEW available \in SUBSET Providers, Start(d, n, available), NEW p \in Providers
  PROVE  [BreakerOf(p)!Next]_(BreakerOf(p)!vars)
<1> DEFINE retry == Usable(available) = {} /\ ShouldRetry(NoProvider, n + 1)
<1>1. /\ Seen \in [Providers -> Breakers]
      /\ Usable(available) \in SUBSET DOMAIN Chain
      /\ Proceed(d, Seen, Usable(available), retry)
  BY StartFacts
<1>2. retry \in BOOLEAN
  OBVIOUS
<1> HIDE DEF retry
<1>3. Seen[p] = Synced(breaker[p]) /\ breaker[p] \in Breakers
  BY DEF Seen, TypeOK
<1>4. CallsTo(p)[d] = "idle" /\ [CallsTo(p) EXCEPT ![d] = "idle"] = CallsTo(p)
  BY DEF Start, CallsTo
<1>5. CASE breaker'[p] = Seen[p] /\ EndsCall(d, p)
  <2>1. CASE Recovered(breaker[p])
    <3>1. BreakerOf(p)!Observe
      BY <1>3, <1>4, <1>5, <2>1, SameOps DEF BreakerOf!Observe, EndsCall
    <3> QED
      BY <3>1 DEF BreakerOf!Next
  <2>2. CASE ~Recovered(breaker[p])
    BY <1>3, <1>4, <1>5, <2>2 DEF Synced, BreakerOf!vars, EndsCall
  <2> QED
    BY <2>1, <2>2
<1>6. CASE /\ MayRequest(Seen[p])
           /\ breaker'[p] = AfterRequest(Seen[p])
           /\ MakesCall(d, p)
  <2>1. MayRequest(breaker[p]) /\ breaker'[p] = AfterRequest(breaker[p])
    BY <1>3, <1>6, SyncedTwice
  <2>2. BreakerOf(p)!Request(d)
    BY <1>4, <1>6, <2>1, SameOps DEF BreakerOf!Request, MakesCall
  <2> QED
    BY <2>2 DEF BreakerOf!Next
<1>7. CASE Exhausts(d, Seen, Usable(available), retry)
  BY <1>1, <1>2, <1>5, <1>7, ExhaustsCalls
<1>8. ASSUME NEW k \in Usable(available), TriesAt(d, Seen, Usable(available), k)
      PROVE  [BreakerOf(p)!Next]_(BreakerOf(p)!vars)
  <2>1. CASE Chain[k] = p
    BY <1>1, <1>2, <1>6, <1>8, <2>1, TriesCalls
  <2>2. CASE Chain[k] # p
    BY <1>1, <1>2, <1>5, <1>8, <2>2, TriesCalls
  <2> QED
    BY <2>1, <2>2
<1> QED
  BY <1>1, <1>2, <1>7, <1>8, ProceedOutcome

LEMMA FailMaps ==
  ASSUME TypeOK, NEW d \in Deliveries, pc[d] # "idle", NEW error, NEW kind,
         Fail(d, error, kind), NEW p \in Providers
  PROVE  [BreakerOf(p)!Next]_(BreakerOf(p)!vars)
<1> DEFINE br == [breaker EXCEPT ![Current(d)] = AfterFailure(@)]
           rest == todo[d] \ {Min(todo[d])}
           again == saw[d] \/ ShouldRetry(error, attempts[d] + 1)
<1>1. /\ br \in [Providers -> Breakers]
      /\ rest \in SUBSET DOMAIN Chain
      /\ again \in BOOLEAN
      /\ Proceed(d, br, rest, again)
  BY FailFacts, ZenonT(40)
<1>2. Current(d) \in Providers /\ grant[d] # "idle"
  BY CurrentPlace DEF TypeOK
<1>3. \A k \in rest : Chain[k] # Current(d)
  BY <1>1, CurrentPlace, Places DEF Current
<1>4. br[Current(d)] = AfterFailure(breaker[Current(d)])
      /\ (p # Current(d) => br[p] = breaker[p])
  BY <1>2 DEF TypeOK
<1>5. /\ p = Current(d) => CallsTo(p)[d] # "idle"
      /\ p # Current(d) =>
           CallsTo(p)[d] = "idle" /\ [CallsTo(p) EXCEPT ![d] = "idle"] = CallsTo(p)
  BY <1>2 DEF CallsTo
<1> HIDE DEF br, rest, again
<1>6. CASE breaker'[p] = br[p] /\ EndsCall(d, p)
  <2>1. CASE p = Current(d)
    <3>1. BreakerOf(p)!RecordFailure(d)
      BY <1>4, <1>5, <1>6, <2>1, SameOps DEF BreakerOf!RecordFailure, EndsCall
    <3> QED
      BY <3>1 DEF BreakerOf!Next
  <2>2. CASE p # Current(d)
    BY <1>4, <1>5, <1>6, <2>2 DEF BreakerOf!vars, EndsCall
  <2> QED
    BY <2>1, <2>2
<1>7. ASSUME NEW k \in rest, TriesAt(d, br, rest, k), Chain[k] = p
      PROVE  [BreakerOf(p)!Next]_(BreakerOf(p)!vars)
  <2>1. p # Current(d)
    BY <1>3, <1>7
  <2>2. /\ MayRequest(br[p])
        /\ breaker'[p] = AfterRequest(br[p])
        /\ MakesCall(d, p)
    BY <1>1, <1>7, TriesCalls
  <2>3. BreakerOf(p)!Request(d)
    BY <1>4, <1>5, <2>1, <2>2, SameOps DEF BreakerOf!Request, MakesCall
  <2> QED
    BY <2>3 DEF BreakerOf!Next
<1>8. CASE Exhausts(d, br, rest, again)
  BY <1>1, <1>6, <1>8, ExhaustsCalls
<1>9. ASSUME NEW k \in rest, TriesAt(d, br, rest, k)
      PROVE  [BreakerOf(p)!Next]_(BreakerOf(p)!vars)
  <2>1. CASE Chain[k] # p
    BY <1>1, <1>6, <1>9, <2>1, TriesCalls
  <2> QED
    BY <1>7, <1>9, <2>1
<1> QED
  BY <1>1, <1>8, <1>9, ProceedOutcome

LEMMA StepMaps ==
  ASSUME TypeOK, [Next]_vars, NEW p \in Providers
  PROVE  [BreakerOf(p)!Next]_(BreakerOf(p)!vars)
<1>1. ASSUME NEW d \in Deliveries, Failing(d)
      PROVE  [BreakerOf(p)!Next]_(BreakerOf(p)!vars)
  BY <1>1, FailMaps DEF Failing, FailsBy
<1>2. ASSUME NEW d \in Deliveries, SendSucceeds(d)
      PROVE  [BreakerOf(p)!Next]_(BreakerOf(p)!vars)
  <2>1. Current(d) \in Providers /\ grant[d] # "idle" /\ pc[d] # "idle"
    BY <1>2, CurrentPlace DEF SendSucceeds, TypeOK
  <2>2. CallsTo(p)' = [CallsTo(p) EXCEPT ![d] = "idle"]
    BY <1>2, ZenonT(40) DEF SendSucceeds, CallsTo, Current, TypeOK
  <2>3. CASE p = Current(d)
    <3>1. CallsTo(p)[d] # "idle"
      BY <2>1, <2>3 DEF CallsTo
    <3>2. breaker'[p] = AfterSuccess(breaker[p])
      BY <1>2, <2>1, <2>3 DEF SendSucceeds, TypeOK
    <3>3. BreakerOf(p)!RecordSuccess(d)
      BY <2>2, <3>1, <3>2, SameOps DEF BreakerOf!RecordSuccess
    <3> QED
      BY <3>3 DEF BreakerOf!Next
  <2>4. CASE p # Current(d)
    <3>1. breaker'[p] = breaker[p]
      BY <1>2, <2>1, <2>4 DEF SendSucceeds, TypeOK
    <3>2. [CallsTo(p) EXCEPT ![d] = "idle"] = CallsTo(p)
      BY <2>4 DEF CallsTo
    <3> QED
      BY <2>2, <3>1, <3>2 DEF BreakerOf!vars
  <2> QED
    BY <2>3, <2>4
<1>3. ASSUME NEW d \in Deliveries, Acquired(d)
      PROVE  [BreakerOf(p)!Next]_(BreakerOf(p)!vars)
  <2>1. CallsTo(p)' = CallsTo(p) /\ breaker' = breaker
    BY <1>3 DEF Acquired, CallsTo, Current, TypeOK
  <2> QED
    BY <2>1 DEF BreakerOf!vars
<1>4. CASE Tick
  <2>1. CallsTo(p)' = CallsTo(p)
    BY <1>4 DEF Tick, CallsTo, Current
  <2>2. breaker'[p] = Aged(breaker[p])
    BY <1>4 DEF Tick
  <2>3. CASE breaker[p].state = "OPEN" /\ breaker[p].age < RecoveryTime
    <3>1. BreakerOf(p)!Tick
      BY <2>1, <2>2, <2>3, SameOps DEF BreakerOf!Tick
    <3> QED
      BY <3>1 DEF BreakerOf!Next
  <2>4. CASE ~(breaker[p].state = "OPEN" /\ breaker[p].age < RecoveryTime)
    BY <2>1, <2>2, <2>4 DEF BreakerOf!vars, Aged
  <2> QED
    BY <2>3, <2>4
<1>5. CASE UNCHANGED vars
  <2>1. CallsTo(p)' = CallsTo(p) /\ breaker' = breaker
    BY <1>5 DEF vars, CallsTo, Current
  <2> QED
    BY <2>1 DEF BreakerOf!vars
<1> QED
  BY <1>1, <1>2, <1>3, <1>4, <1>5, StartMaps, FailingSteps DEF Next, Acquire, Answer

(* At each provider, the calls of any number of deliveries are a behaviour  *)
(* of CircuitBreaker: what is proved of a breaker holds of those in the     *)
(* engine.                                                                  *)
THEOREM UsesBreakers == Spec => UsesBreakersCorrectly
<1> DEFINE Started == \A p \in Providers : BreakerOf(p)!Init
           Step == \A p \in Providers : [BreakerOf(p)!Next]_(BreakerOf(p)!vars)
<1>1. Init => Started
  <2> SUFFICES ASSUME Init, NEW p \in Providers PROVE BreakerOf(p)!Init
    OBVIOUS
  <2>1. breaker[p] = NewBreaker /\ CallsTo(p) = [c \in Deliveries |-> "idle"]
    BY DEF Init, CallsTo
  <2> QED
    BY <2>1, SameOps DEF BreakerOf!Init
<1>2. TypeOK /\ [Next]_vars => [Step]_vars
  BY StepMaps
<1>3. UsesBreakersCorrectly <=> Started /\ [][Step]_vars
  BY DEF UsesBreakersCorrectly
<1> HIDE DEF Started, Step
<1> QED
  BY <1>1, <1>2, <1>3, TypeCorrect, PTL DEF Spec
-----------------------------------------------------------------------------
(* What holds of a breaker b when c says who is calling its provider. *)
InFlightIn(c) == {d \in Deliveries : c[d] # "idle"}
ProbingIn(c) == {d \in Deliveries : c[d] = "probe"}

Sound(b, c) ==
  /\ b \in Breakers
  /\ c \in [Deliveries -> {"idle", "plain", "probe"}]
  /\ b.state = "CLOSED" => b.failureCount < FailureThreshold
  /\ b.state = "HALF_OPEN" => b.failureCount = 0
  /\ b.probe => b.state = "HALF_OPEN" /\ ProbingIn(c) # {}
  /\ b.state = "OPEN" =>
       b.failureCount + Cardinality(InFlightIn(c))
         <= FailureThreshold + Cardinality(Deliveries) - 1

LEMMA OneFewer ==
  ASSUME NEW S, IsFiniteSet(S), NEW x \in S
  PROVE  Cardinality(S \ {x}) = Cardinality(S) - 1
<1>1. \A T, y : IsFiniteSet(T) =>
        Cardinality(T \ {y}) = IF y \in T THEN Cardinality(T) - 1 ELSE Cardinality(T)
  BY FS_RemoveElement, ZenonT(40)
<1> QED
  BY <1>1, SMT

(* At most all the deliveries call, and one that reports is one fewer. *)
LEMMA CallsCounted ==
  ASSUME NEW c \in [Deliveries -> {"idle", "plain", "probe"}]
  PROVE  /\ Cardinality(InFlightIn(c)) \in Nat
         /\ Cardinality(Deliveries) \in Nat
         /\ Cardinality(InFlightIn(c)) <= Cardinality(Deliveries)
         /\ \A d \in InFlightIn(c) :
              Cardinality(InFlightIn([c EXCEPT ![d] = "idle"])) = Cardinality(InFlightIn(c)) - 1
<1>1. IsFiniteSet(Deliveries) /\ InFlightIn(c) \subseteq Deliveries
  BY DEF InFlightIn
<1>2. /\ IsFiniteSet(InFlightIn(c))
      /\ Cardinality(InFlightIn(c)) \in Nat
      /\ Cardinality(Deliveries) \in Nat
      /\ Cardinality(InFlightIn(c)) <= Cardinality(Deliveries)
  BY <1>1, FS_Subset, FS_CardinalityType
<1>3. ASSUME NEW d \in InFlightIn(c)
      PROVE  Cardinality(InFlightIn([c EXCEPT ![d] = "idle"])) = Cardinality(InFlightIn(c)) - 1
  <2> DEFINE e == [c EXCEPT ![d] = "idle"]
  <2>1. InFlightIn(e) = InFlightIn(c) \ {d}
    BY DEF InFlightIn
  <2>2. Cardinality(InFlightIn(c) \ {d}) = Cardinality(InFlightIn(c)) - 1
    BY <1>2, OneFewer, ZenonT(40)
  <2> HIDE DEF e
  <2>3. Cardinality(InFlightIn(e)) = Cardinality(InFlightIn(c)) - 1
    BY <2>1, <2>2, ZenonT(40)
  <2> QED
    BY <2>3 DEF e
<1> QED
  BY <1>2, <1>3

(* A request that is granted *)
LEMMA RequestSound ==
  ASSUME NEW b, NEW c, Sound(b, c), NEW d \in Deliveries, MayRequest(b)
  PROVE  Sound(AfterRequest(b),
               [c EXCEPT ![d] = IF AfterRequest(b).state = "HALF_OPEN" THEN "probe" ELSE "plain"])
<1> DEFINE a == AfterRequest(b)
           e == [c EXCEPT ![d] = IF a.state = "HALF_OPEN" THEN "probe" ELSE "plain"]
<1>1. b \in Breakers /\ c \in [Deliveries -> {"idle", "plain", "probe"}]
  BY DEF Sound
<1>2. a \in Breakers
  BY <1>1, OpsType
<1>3. a.state # "OPEN"
  BY <1>1 DEF MayRequest, AfterRequest, Synced, Breakers
<1>4. /\ a.state = "CLOSED" => a.failureCount < FailureThreshold
      /\ a.state = "HALF_OPEN" => a.failureCount = 0
      /\ a.probe => a.state = "HALF_OPEN"
  BY <1>1 DEF MayRequest, AfterRequest, Synced, Breakers, Sound
<1> HIDE DEF a
<1>5. e \in [Deliveries -> {"idle", "plain", "probe"}]
  BY <1>1
<1>6. a.state = "HALF_OPEN" => d \in ProbingIn(e)
  BY <1>1 DEF ProbingIn
<1>7. Sound(a, e)
  BY <1>2, <1>3, <1>4, <1>5, <1>6 DEF Sound
<1> QED
  BY <1>7 DEF a

(* A report of either outcome *)
LEMMA ReportSound ==
  ASSUME NEW b, NEW c, Sound(b, c), NEW d \in Deliveries, c[d] # "idle"
  PROVE  /\ Sound(AfterSuccess(b), [c EXCEPT ![d] = "idle"])
         /\ Sound(AfterFailure(b), [c EXCEPT ![d] = "idle"])
<1> DEFINE e == [c EXCEPT ![d] = "idle"]
           a == AfterFailure(b)
<1>1. b \in Breakers /\ c \in [Deliveries -> {"idle", "plain", "probe"}]
  BY DEF Sound
<1>2. e \in [Deliveries -> {"idle", "plain", "probe"}]
  BY <1>1
<1>3. /\ Cardinality(InFlightIn(e)) = Cardinality(InFlightIn(c)) - 1
      /\ Cardinality(InFlightIn(c)) <= Cardinality(Deliveries)
      /\ Cardinality(InFlightIn(c)) \in Nat
      /\ Cardinality(Deliveries) \in Nat
  <2>1. d \in InFlightIn(c)
    BY DEF InFlightIn
  <2>2. /\ Cardinality(InFlightIn(c)) \in Nat
        /\ Cardinality(Deliveries) \in Nat
        /\ Cardinality(InFlightIn(c)) <= Cardinality(Deliveries)
        /\ \A x \in InFlightIn(c) :
             Cardinality(InFlightIn([c EXCEPT ![x] = "idle"])) = Cardinality(InFlightIn(c)) - 1
    BY <1>1, CallsCounted, ZenonT(40)
  <2> QED
    BY <2>1, <2>2, ZenonT(40)
<1> HIDE DEF e
<1>4. Sound(AfterSuccess(b), e)
  <2>1. AfterSuccess(b) = NewBreaker /\ NewBreaker \in Breakers
    BY <1>1, OpsType DEF AfterSuccess
  <2> QED
    BY <1>2, <2>1 DEF Sound, NewBreaker
<1>5. a \in Breakers
  BY <1>1, OpsType
<1>6. /\ ~a.probe
      /\ a.state # "HALF_OPEN"
      /\ a.state = "CLOSED" => a.failureCount < FailureThreshold
      /\ a.failureCount \in Nat
      /\ a.state = "OPEN" /\ b.state # "OPEN" => a.failureCount <= FailureThreshold
      /\ a.state = "OPEN" /\ b.state = "OPEN" => a.failureCount = b.failureCount + 1
  BY <1>1 DEF Sound, Breakers, CircuitState, AfterFailure, Opened
<1> HIDE DEF a
<1>7. a.state = "OPEN" =>
        a.failureCount + Cardinality(InFlightIn(e))
          <= FailureThreshold + Cardinality(Deliveries) - 1
  <2>1. CASE b.state = "OPEN"
    <3>1. /\ b.failureCount \in Nat
          /\ b.failureCount + Cardinality(InFlightIn(c))
               <= FailureThreshold + Cardinality(Deliveries) - 1
      BY <1>1, <2>1 DEF Sound, Breakers
    <3> QED
      BY <1>3, <1>6, <2>1, <3>1
  <2>2. CASE b.state # "OPEN"
    BY <1>3, <1>6, <2>2
  <2> QED
    BY <2>1, <2>2
<1>8. Sound(a, e)
  BY <1>2, <1>5, <1>6, <1>7 DEF Sound
<1> QED
  BY <1>4, <1>8 DEF a, e

(* A look at the state, and the clock *)
LEMMA TimeSound ==
  ASSUME NEW b, NEW c, Sound(b, c)
  PROVE  Sound(Synced(b), c) /\ Sound(Aged(b), c)
<1>1. b \in Breakers
  BY DEF Sound
<1>2. Synced(b) \in Breakers /\ Aged(b) \in Breakers
  BY <1>1, OpsType
<1>3. Sound(Synced(b), c)
  <2>1. CASE Recovered(b)
    <3>1. LET s == Synced(b)
          IN  s.state = "HALF_OPEN" /\ s.failureCount = 0 /\ ~s.probe
      BY <2>1 DEF Synced
    <3> QED
      BY <1>2, <3>1 DEF Sound
  <2>2. CASE ~Recovered(b)
    BY <2>2 DEF Synced
  <2> QED
    BY <2>1, <2>2
<1>4. Sound(Aged(b), c)
  <2>1. LET s == Aged(b)
        IN  s.state = b.state /\ s.failureCount = b.failureCount /\ s.probe = b.probe
    BY <1>1 DEF Aged, Breakers
  <2> QED
    BY <1>2, <2>1 DEF Sound
<1> QED
  BY <1>3, <1>4

(* What the engine does is what CircuitBreaker does, and keeps it sound.    *)
LEMMA StepSound ==
  ASSUME NEW p \in Providers, Sound(breaker[p], CallsTo(p)),
         [BreakerOf(p)!Next]_(BreakerOf(p)!vars)
  PROVE  Sound(breaker'[p], CallsTo(p)')
<1>1. CASE BreakerOf(p)!Observe
  BY <1>1, TimeSound, SameOps DEF BreakerOf!Observe
<1>2. CASE BreakerOf(p)!Tick
  BY <1>2, TimeSound, SameOps DEF BreakerOf!Tick
<1>3. ASSUME NEW d \in Deliveries, BreakerOf(p)!Request(d)
      PROVE  Sound(breaker'[p], CallsTo(p)')
  <2>1. /\ MayRequest(breaker[p])
        /\ breaker'[p] = AfterRequest(breaker[p])
        /\ CallsTo(p)' = [CallsTo(p) EXCEPT ![d] =
                            IF AfterRequest(breaker[p]).state = "HALF_OPEN" THEN "probe" ELSE "plain"]
    <3>1. /\ BreakerOf(p)!MayRequest(breaker[p]) <=> MayRequest(breaker[p])
          /\ BreakerOf(p)!AfterRequest(breaker[p]) = AfterRequest(breaker[p])
      BY SameOps
    <3> QED
      BY <1>3, <3>1 DEF BreakerOf!Request
  <2>2. Sound(AfterRequest(breaker[p]),
              [CallsTo(p) EXCEPT ![d] =
                 IF AfterRequest(breaker[p]).state = "HALF_OPEN" THEN "probe" ELSE "plain"])
    BY <2>1, RequestSound, ZenonT(40)
  <2> QED
    BY <2>1, <2>2
<1>4. ASSUME NEW d \in Deliveries, BreakerOf(p)!RecordSuccess(d)
      PROVE  Sound(breaker'[p], CallsTo(p)')
  <2>1. /\ CallsTo(p)[d] # "idle"
        /\ breaker'[p] = AfterSuccess(breaker[p])
        /\ CallsTo(p)' = [CallsTo(p) EXCEPT ![d] = "idle"]
    <3>1. BreakerOf(p)!AfterSuccess(breaker[p]) = AfterSuccess(breaker[p])
      BY SameOps
    <3> QED
      BY <1>4, <3>1 DEF BreakerOf!RecordSuccess
  <2>2. Sound(AfterSuccess(breaker[p]), [CallsTo(p) EXCEPT ![d] = "idle"])
    BY <2>1, ReportSound, ZenonT(40)
  <2> QED
    BY <2>1, <2>2
<1>5. ASSUME NEW d \in Deliveries, BreakerOf(p)!RecordFailure(d)
      PROVE  Sound(breaker'[p], CallsTo(p)')
  <2>1. /\ CallsTo(p)[d] # "idle"
        /\ breaker'[p] = AfterFailure(breaker[p])
        /\ CallsTo(p)' = [CallsTo(p) EXCEPT ![d] = "idle"]
    BY <1>5, SameOps DEF BreakerOf!RecordFailure
  <2>2. Sound(AfterFailure(breaker[p]), [CallsTo(p) EXCEPT ![d] = "idle"])
    BY <2>1, ReportSound, ZenonT(40)
  <2> QED
    BY <2>1, <2>2
<1>6. CASE UNCHANGED BreakerOf(p)!vars
  BY <1>6 DEF BreakerOf!vars
<1> QED
  BY <1>1, <1>2, <1>3, <1>4, <1>5, <1>6 DEF BreakerOf!Next

(* Sound says of a breaker what CircuitBreaker says. *)
LEMMA SoundBreaker ==
  ASSUME NEW p \in Providers, Sound(breaker[p], CallsTo(p))
  PROVE  BreakerOf(p)!ProbeSlotHeld /\ BreakerOf(p)!LateFailuresBounded
<1>1. \A S : BreakerOf(p)!Cardinality(S) = Cardinality(S)
  BY DEF BreakerOf!Cardinality, Cardinality
<1>2. BreakerOf(p)!InFlight = InFlightIn(CallsTo(p)) /\ BreakerOf(p)!Probing = ProbingIn(CallsTo(p))
  BY DEF BreakerOf!InFlight, BreakerOf!Probing, InFlightIn, ProbingIn
<1> QED
  BY <1>1, <1>2 DEF Sound, BreakerOf!ProbeSlotHeld, BreakerOf!LateFailuresBounded

(* However many deliveries use the breakers at once and however they end, a *)
(* probe slot is given back, and an open breaker recovers.                  *)
THEOREM BreakersAreSound == Spec => []BreakersStaySound
<1> DEFINE AllSound == \A p \in Providers : Sound(breaker[p], CallsTo(p))
<1>1. Init => AllSound
  <2> SUFFICES ASSUME Init, NEW p \in Providers PROVE Sound(breaker[p], CallsTo(p))
    OBVIOUS
  <2>1. breaker[p] = NewBreaker /\ CallsTo(p) = [d \in Deliveries |-> "idle"]
    BY DEF Init, CallsTo
  <2>2. NewBreaker \in Breakers
    BY DEF NewBreaker, Breakers, CircuitState
  <2> QED
    BY <2>1, <2>2 DEF Sound, NewBreaker
<1>2. TypeOK /\ AllSound /\ [Next]_vars => AllSound'
  <2> SUFFICES ASSUME TypeOK, AllSound, [Next]_vars, NEW p \in Providers
               PROVE  Sound(breaker[p], CallsTo(p))'
    OBVIOUS
  <2>1. [BreakerOf(p)!Next]_(BreakerOf(p)!vars)
    BY StepMaps
  <2>2. Sound(breaker'[p], CallsTo(p)')
    BY <2>1, StepSound
  <2> QED
    BY <2>2
<1>3. AllSound => BreakersStaySound
  BY SoundBreaker DEF BreakersStaySound
<1> HIDE DEF AllSound
<1> QED
  BY <1>1, <1>2, <1>3, TypeCorrect, PTL DEF Spec
=============================================================================
