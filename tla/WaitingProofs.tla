---------------------------- MODULE WaitingProofs ----------------------------
(***************************************************************************)
(* Proofs about the two places where callers wait for their turn, for any  *)
(* number of them.                                                         *)
(*                                                                         *)
(* AsyncMutex: the lock is handed from one holder to the next and          *)
(* implements FifoLock.                                                    *)
(*                                                                         *)
(* RateLimiter, for any rate and capacity: the rate is bounded in every    *)
(* stretch of time, and the lazily filled bucket implements TokenBucket.   *)
(***************************************************************************)
EXTENDS AsyncMutex, RateLimiter, TLAPS

MInv == MutexTypeOK /\ OneHolder

LEMMA MutexInitInv == MutexInit => MInv
<1> SUFFICES ASSUME MutexInit PROVE MInv
  OBVIOUS
<1>1. waiters \in Seq(Callers) /\ DOMAIN waiters = {}
  BY DEF MutexInit
<1>2. MutexTypeOK
  BY <1>1 DEF MutexInit, MutexTypeOK, IsInjective
<1>3. OneHolder
  BY DEF MutexInit, OneHolder, Holding
<1> QED
  BY <1>2, <1>3 DEF MInv

(* A caller finds the lock free, or lines up. *)
LEMMA MutexCallInv ==
  ASSUME MInv, NEW c \in Callers, Call(c)
  PROVE  MInv'
<1> USE DEF MInv, MutexTypeOK, OneHolder, Holding, Call
<1>1. CASE locked
  <2>1. waiters' = Append(waiters, c) /\ pc' = [pc EXCEPT ![c] = "waiting"] /\ locked' = locked
    BY <1>1
  <2>2. /\ waiters' \in Seq(Callers) /\ Len(waiters') = Len(waiters) + 1
        /\ waiters'[Len(waiters) + 1] = c
        /\ \A i \in 1..Len(waiters) : waiters'[i] = waiters[i]
    BY <2>1
  <2>3. \A i \in 1..Len(waiters) : waiters[i] # c
    BY DEF IsInjective
  <2>4. IsInjective(waiters')
    BY <2>2, <2>3 DEF IsInjective
  <2>5. \A d \in Callers : pc'[d] = "waiting" <=> \E i \in DOMAIN waiters' : waiters'[i] = d
    BY <2>1, <2>2
  <2>6. MutexTypeOK'
    BY <2>1, <2>2, <2>4, <2>5
  <2>7. OneHolder'
    BY <2>1, <1>1
  <2> QED
    BY <2>6, <2>7
<1>2. CASE ~locked
  <2>1. waiters' = waiters /\ waiters = <<>> /\ locked' /\ pc' = [pc EXCEPT ![c] = "entering"]
    BY <1>2
  <2>2. \A d \in Callers : pc[d] # "waiting"
    BY <2>1
  <2>3. MutexTypeOK'
    BY <2>1, <2>2
  <2>4. OneHolder'
    BY <1>2, <2>1
  <2> QED
    BY <2>3, <2>4
<1> QED
  BY <1>1, <1>2

(* The first waiter, if any, takes the place of the holder that releases. *)
LEMMA MutexReleaseInv ==
  ASSUME MInv, NEW c \in Callers, pc[c] \in {"entering", "inside"}, Release(c)
  PROVE  MInv'
<1> USE DEF MInv, MutexTypeOK, OneHolder, Holding, Release
<1>1. CASE waiters = <<>>
  <2>1. waiters' = waiters /\ locked' = FALSE /\ pc' = [pc EXCEPT ![c] = "idle"]
    BY <1>1
  <2>2. \A d \in Callers : pc[d] # "waiting"
    BY <1>1
  <2>3. MutexTypeOK'
    BY <2>1, <2>2
  <2>4. \A d \in Callers : pc'[d] \notin {"woken", "entering", "inside"}
    BY <2>1
  <2>5. OneHolder'
    BY <1>1, <2>1, <2>4
  <2> QED
    BY <2>3, <2>5
<1>2. CASE waiters # <<>>
  <2> DEFINE h == Head(waiters)
  <2>1. /\ h \in Callers /\ h = waiters[1] /\ pc[h] = "waiting"
        /\ waiters' = Tail(waiters)
        /\ pc' = [pc EXCEPT ![c] = "idle", ![h] = "woken"]
        /\ locked' = locked
    BY <1>2
  <2>2. /\ waiters' \in Seq(Callers) /\ Len(waiters') = Len(waiters) - 1
        /\ \A i \in 1..(Len(waiters) - 1) : waiters'[i] = waiters[i + 1]
    BY <1>2, <2>1
  <2> HIDE DEF h
  <2>3. IsInjective(waiters')
    <3>1. DOMAIN waiters' = 1..(Len(waiters) - 1)
      BY <2>2
    <3>2. ASSUME NEW i \in DOMAIN waiters', NEW j \in DOMAIN waiters', waiters'[i] = waiters'[j]
          PROVE  i = j
      <4>1. i + 1 \in DOMAIN waiters /\ j + 1 \in DOMAIN waiters /\ i \in Int /\ j \in Int
        BY <3>1
      <4>2. waiters[i + 1] = waiters[j + 1]
        BY <2>2, <3>1, <3>2
      <4>3. i + 1 = j + 1
        BY <4>1, <4>2 DEF IsInjective
      <4> QED
        BY <4>1, <4>3
    <3> QED
      BY <3>2 DEF IsInjective
  <2>4. /\ h # c /\ pc'[h] = "woken" /\ pc'[c] = "idle"
        /\ \A d \in Callers \ {c, h} : pc'[d] = pc[d]
        /\ pc' \in [Callers -> {"idle", "waiting", "woken", "entering", "inside"}]
    BY <2>1
  <2>5. ASSUME NEW d \in Callers
        PROVE  pc'[d] = "waiting" <=> \E i \in DOMAIN waiters' : waiters'[i] = d
    <3>1. \A i \in 1..(Len(waiters) - 1) : waiters'[i] # h
      BY <2>1, <2>2 DEF IsInjective
    <3>2. ~ \E i \in 1..Len(waiters) : waiters[i] = c
      OBVIOUS
    <3>3. ASSUME d # c, d # h, NEW i \in DOMAIN waiters, waiters[i] = d
          PROVE  i - 1 \in DOMAIN waiters' /\ waiters'[i - 1] = d
      BY <2>1, <2>2, <3>3
    <3>4. CASE d = c
      <4>1. \A i \in DOMAIN waiters' : i + 1 \in 1..Len(waiters) /\ waiters'[i] = waiters[i + 1]
        BY <2>2
      <4> QED
        BY <2>4, <3>2, <3>4, <4>1
    <3>5. CASE d = h
      BY <2>2, <2>4, <3>1, <3>5
    <3>6. CASE d # c /\ d # h
      <4>1. pc'[d] = pc[d]
        BY <2>4, <3>6
      <4>2. \A i \in DOMAIN waiters' : i + 1 \in DOMAIN waiters /\ waiters'[i] = waiters[i + 1]
        BY <2>2
      <4>3. (\E i \in DOMAIN waiters' : waiters'[i] = d) <=> \E i \in DOMAIN waiters : waiters[i] = d
        BY <3>3, <3>6, <4>2
      <4> QED
        BY <4>1, <4>3
    <3> QED
      BY <3>4, <3>5, <3>6
  <2>6. MutexTypeOK'
    BY <2>1, <2>2, <2>3, <2>4, <2>5
  <2>7. OneHolder'
    BY <1>2, <2>1, <2>4
  <2> QED
    BY <2>6, <2>7
<1> QED
  BY <1>1, <1>2

LEMMA MutexStepInv ==
  ASSUME MInv, NEW c \in Callers, Resume(c) \/ Enter(c) \/ Leave(c)
  PROVE  MInv'
<1>1. CASE Resume(c)
  BY <1>1 DEF MInv, MutexTypeOK, OneHolder, Holding, Resume
<1>2. CASE Enter(c) /\ ~Release(c)
  BY <1>2 DEF MInv, MutexTypeOK, OneHolder, Holding, Enter
<1>3. CASE Enter(c) /\ Release(c)
  BY <1>3, MutexReleaseInv DEF Enter
<1>4. CASE Leave(c)
  BY <1>4, MutexReleaseInv DEF Leave
<1> QED
  BY <1>1, <1>2, <1>3, <1>4

LEMMA MutexNextInv == MInv /\ [MutexNext]_mutexVars => MInv'
<1>1. MInv /\ UNCHANGED mutexVars => MInv'
  BY DEF MInv, MutexTypeOK, OneHolder, Holding, mutexVars
<1> QED
  BY <1>1, MutexCallInv, MutexStepInv DEF MutexNext

THEOREM MutexInvariant == MutexSpec => []MInv
BY MutexInitInv, MutexNextInv, PTL DEF MutexSpec

(* The callers stay in their domains, and exactly those waiting are queued. *)
THEOREM MutexTypeCorrect == MutexSpec => []MutexTypeOK
BY MutexInvariant, PTL DEF MInv

(* The lock is taken exactly as long as one caller has it or takes it over. *)
THEOREM OneHolds == MutexSpec => []OneHolder
BY MutexInvariant, PTL DEF MInv

(* A release hands the lock to the first waiter, in the abstract one step. *)
LEMMA ReleaseRefines ==
  ASSUME MInv, NEW c \in Callers, pc[c] \in {"entering", "inside"}, Release(c)
  PROVE  Lock!Leave(c)
<1> USE DEF MInv, MutexTypeOK, OneHolder, Release
<1>1. Holding = {c}
  BY DEF Holding
<1>2. CASE waiters = <<>>
  BY <1>1, <1>2 DEF Lock!Leave, Holding
<1>3. CASE waiters # <<>>
  <2>1. Head(waiters) \in Callers /\ pc[Head(waiters)] = "waiting"
    BY <1>3
  <2>2. Holding' = {Head(waiters)}
    BY <1>1, <1>3, <2>1 DEF Holding
  <2> QED
    BY <1>1, <1>3, <2>2 DEF Lock!Leave
<1> QED
  BY <1>2, <1>3

LEMMA MutexNextRefines == MInv /\ [MutexNext]_mutexVars => [Lock!Next]_Lock!vars
<1> SUFFICES ASSUME MInv, [MutexNext]_mutexVars
             PROVE  Lock!Next \/ UNCHANGED Lock!vars
  OBVIOUS
<1> USE DEF MInv, MutexTypeOK, OneHolder
<1>1. CASE UNCHANGED mutexVars
  BY <1>1 DEF mutexVars, Lock!vars, Holding
<1>2. ASSUME NEW c \in Callers, Call(c)
      PROVE  Lock!Ask(c)
  <2>1. CASE locked
    <3>1. Holding' = Holding /\ Holding # {} /\ c \notin Holding
      BY <1>2, <2>1 DEF Call, Holding
    <3> QED
      BY <1>2, <2>1, <3>1 DEF Call, Lock!Ask
  <2>2. CASE ~locked
    <3>1. Holding' = {c} /\ Holding = {}
      BY <1>2, <2>2 DEF Call, Holding
    <3> QED
      BY <1>2, <2>2, <3>1 DEF Call, Lock!Ask
  <2> QED
    BY <2>1, <2>2
<1>3. ASSUME NEW c \in Callers, Resume(c) \/ (Enter(c) /\ ~Release(c))
      PROVE  UNCHANGED Lock!vars
  BY <1>3 DEF Resume, Enter, Lock!vars, Holding
<1>4. ASSUME NEW c \in Callers, (Enter(c) /\ Release(c)) \/ Leave(c)
      PROVE  Lock!Leave(c)
  BY <1>4, ReleaseRefines DEF Enter, Leave
<1> QED
  BY <1>1, <1>2, <1>3, <1>4 DEF MutexNext, Lock!Next

(* AsyncMutex implements FifoLock: one holder at a time, in the order in    *)
(* which the callers asked.                                                 *)
THEOREM RefinesFifoLock == MutexSpec => ImplementsFifoLock
<1>1. MutexInit => Lock!Init
  BY DEF MutexInit, Lock!Init, Holding
<1> QED
  BY <1>1, MutexInvariant, MutexNextRefines, PTL DEF MutexSpec, Lock!Spec, ImplementsFifoLock
-----------------------------------------------------------------------------
(* What was granted beyond the flow is missing from the bucket: a stretch   *)
(* of time can only use up what the bucket held.                            *)
LInv == TypeOK /\ burst + Refilled <= Capacity

LEMMA RefilledBounds ==
  ASSUME TypeOK
  PROVE  Refilled \in 0..Capacity /\ Rate * age \in Nat
<1>1. Rate * age \in Nat
  BY LimiterAssumption DEF TypeOK
<1> QED
  BY <1>1, LimiterAssumption DEF TypeOK, Refilled, AtMost

(* A look leaves the level as it was; only a grant takes from it. *)
LEMMA EmptyKeepsLevel ==
  ASSUME TypeOK, Empty
  PROVE  Refilled' = Refilled /\ tokens' \in 0..Capacity /\ age' = 0
<1>1. Rate * age' = 0 /\ tokens' = Refilled /\ age' = 0
  BY LimiterAssumption DEF Empty
<1> QED
  BY <1>1, RefilledBounds, LimiterAssumption DEF Refilled, AtMost

LEMMA GrantTakesToken ==
  ASSUME TypeOK, NEW c \in Deliveries, Grant(c)
  PROVE  /\ Refilled >= TokenUnits
         /\ Refilled' = Refilled - TokenUnits /\ tokens' \in 0..Capacity /\ age' = 0
<1>1. Rate * age' = 0 /\ tokens' = Refilled - TokenUnits /\ age' = 0 /\ Refilled >= TokenUnits
  BY LimiterAssumption DEF Grant
<1>2. tokens' \in 0..Capacity
  BY <1>1, RefilledBounds, LimiterAssumption
<1> QED
  BY <1>1, <1>2, LimiterAssumption DEF Refilled, AtMost

(* A tick raises the level by Rate, up to the capacity. *)
LEMMA TickFills ==
  ASSUME TypeOK, Tick
  PROVE  Refilled' = AtMost(Capacity, Refilled + Rate) /\ age' \in 0..MaxAge
<1>1. age' \in 0..MaxAge /\ tokens' = tokens
  BY LimiterAssumption DEF TypeOK, Tick, AtMost
<1>2. CASE age < MaxAge
  <2>1. age' = age + 1
    BY <1>2, LimiterAssumption DEF TypeOK, Tick, AtMost
  <2>2. Rate * (age + 1) = Rate * age + Rate
    BY LimiterAssumption DEF TypeOK
  <2>3. Rate * age' = Rate * age + Rate /\ Rate * age \in Nat
    BY <2>1, <2>2, RefilledBounds
  <2>4. PICK x \in Nat : x = Rate * age
    BY <2>3
  <2>5. Refilled = AtMost(Capacity, tokens + x)
    BY <2>4 DEF Refilled
  <2>6. Refilled' = AtMost(Capacity, tokens + (x + Rate))
    BY <1>1, <2>3, <2>4 DEF Refilled
  <2> QED
    BY <1>1, <2>5, <2>6, LimiterAssumption DEF TypeOK, AtMost
<1>3. CASE age = MaxAge
  <2>1. age' = age
    BY <1>3, LimiterAssumption DEF TypeOK, Tick, AtMost
  <2>2. Rate * age \in Nat /\ Rate * age >= Capacity
    BY <1>3, RefilledBounds, LimiterAssumption
  <2> QED
    BY <1>1, <2>1, <2>2, LimiterAssumption DEF TypeOK, Refilled, AtMost
<1> QED
  BY <1>1, <1>2, <1>3, LimiterAssumption DEF TypeOK

LEMMA LimiterInitInv == Init => LInv
<1> SUFFICES ASSUME Init PROVE LInv
  OBVIOUS
<1>1. Rate * age = 0
  BY LimiterAssumption DEF Init
<1>2. TypeOK
  BY LimiterAssumption DEF Init, TypeOK
<1>3. burst + Refilled <= Capacity
  BY <1>1, LimiterAssumption DEF Init, Refilled, AtMost
<1> QED
  BY <1>2, <1>3 DEF LInv

LEMMA LimiterCallInv ==
  ASSUME LInv, NEW c \in Deliveries, Acquire(c) \/ Look(c)
  PROVE  LInv'
<1> USE DEF LInv
<1>1. /\ mode' = mode
      /\ waited' \in [Deliveries -> 0..(Timeout + 1)]
      /\ sleep' \in [Deliveries -> 0..PollTime]
      /\ state' \in [Deliveries -> {"idle", "waiting", "granted", "refused"}]
  BY LimiterAssumption DEF TypeOK, Acquire, Look, Grant, Refuse, Sleep
<1>2. CASE Grant(c)
  <2>1. burst' = burst + TokenUnits
    BY <1>2 DEF Grant
  <2> QED
    BY <1>1, <1>2, <2>1, GrantTakesToken, RefilledBounds, LimiterAssumption DEF TypeOK
<1>3. CASE Empty
  <2>1. burst' = burst
    BY <1>3 DEF Empty
  <2> QED
    BY <1>1, <1>3, <2>1, EmptyKeepsLevel, RefilledBounds, LimiterAssumption DEF TypeOK
<1> QED
  BY <1>2, <1>3 DEF Acquire, Look, Refuse, Sleep

LEMMA LimiterTickInv ==
  ASSUME LInv, Tick
  PROVE  LInv'
<1> USE DEF LInv
<1>1. TypeOK'
  BY TickFills, LimiterAssumption DEF TypeOK, Tick, AtMost
<1>2. burst' = (IF burst > Rate THEN burst - Rate ELSE 0) /\ burst \in Nat
  BY DEF Tick, TypeOK
<1>3. (burst + Refilled)' <= Capacity
  BY <1>2, TickFills, RefilledBounds, LimiterAssumption DEF AtMost
<1> QED
  BY <1>1, <1>3

LEMMA LimiterNextInv == LInv /\ [Next]_vars => LInv'
<1>1. LInv /\ UNCHANGED vars => LInv'
  BY DEF LInv, TypeOK, Refilled, vars
<1> QED
  BY <1>1, LimiterCallInv, LimiterTickInv DEF Next

THEOREM LimiterInvariant == Spec => []LInv
BY LimiterInitInv, LimiterNextInv, PTL DEF Spec

(* The bucket, the clocks and the callers stay in their domains. *)
THEOREM LimiterTypeCorrect == Spec => []TypeOK
BY LimiterInvariant, PTL DEF LInv

(* In any stretch of time at most the burst capacity and what flows in is   *)
(* granted.                                                                 *)
THEOREM RateIsBounded == Spec => []RateBounded
<1>1. LInv => RateBounded
  BY RefilledBounds, LimiterAssumption DEF LInv, TypeOK, RateBounded
<1> QED
  BY <1>1, LimiterInvariant, PTL

(* Every call of acquire() is a step of the bucket, or none. *)
LEMMA LimiterCallRefines ==
  ASSUME LInv, NEW c \in Deliveries, Acquire(c) \/ Look(c)
  PROVE  [Bucket!Next]_(Bucket!vars)
<1> USE DEF LInv
<1>1. CASE Grant(c)
  <2>1. Bucket!Grant(c)
    BY <1>1, GrantTakesToken DEF Grant, Bucket!Grant
  <2> QED
    BY <2>1 DEF Bucket!Next
<1>2. CASE Refuse(c)
  <2>1. Bucket!Refuse(c)
    BY <1>2, EmptyKeepsLevel DEF Refuse, Empty, Bucket!Refuse
  <2> QED
    BY <2>1 DEF Bucket!Next
<1>3. CASE Sleep(c)
  <2>1. Bucket!Ask(c)
    BY <1>3, EmptyKeepsLevel DEF Sleep, Bucket!Ask
  <2> QED
    BY <2>1 DEF Bucket!Next
<1> QED
  BY <1>1, <1>2, <1>3 DEF Acquire, Look

LEMMA LimiterNextRefines == LInv /\ [Next]_vars => [Bucket!Next]_(Bucket!vars)
<1> SUFFICES ASSUME LInv, [Next]_vars
             PROVE  [Bucket!Next]_(Bucket!vars)
  OBVIOUS
<1>1. CASE UNCHANGED vars
  BY <1>1 DEF vars, Bucket!vars, Refilled
<1>2. CASE Tick
  <2>1. Bucket!Flow
    BY <1>2, TickFills, RefilledBounds, LimiterAssumption DEF LInv, Tick, AtMost, Bucket!Flow
  <2> QED
    BY <2>1 DEF Bucket!Next
<1> QED
  BY <1>1, <1>2, LimiterCallRefines DEF Next

(* The limiter implements the continuously filling bucket. *)
THEOREM RefinesTokenBucket == Spec => ImplementsTokenBucket
<1>1. Init => Bucket!Init
  <2> SUFFICES ASSUME Init PROVE Bucket!Init
    OBVIOUS
  <2>1. Rate * age = 0
    BY LimiterAssumption DEF Init
  <2> QED
    BY <2>1, LimiterAssumption DEF Init, Refilled, AtMost, Bucket!Init
<1> QED
  BY <1>1, LimiterInvariant, LimiterNextRefines, PTL DEF Spec, Bucket!Spec, ImplementsTokenBucket
=============================================================================
