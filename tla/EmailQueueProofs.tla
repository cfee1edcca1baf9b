-------------------------- MODULE EmailQueueProofs --------------------------
(***************************************************************************)
(* Proofs about EmailQueue, for any number of emails, any sizes and delays.*)
(***************************************************************************)
EXTENDS EmailQueue, SequenceTheorems, TLAPS

USE QueueAssumption DEF QueueAssumption

JobFields == [priority : Priorities, readyAt : Nat, enqueuedAt : Nat]

(* The queue is in the order of its last sort, which was not in the future. *)
Ordered(q, fields, time) ==
  \A i, k \in DOMAIN q : i < k => ~Before(fields[q[k]], fields[q[i]], time)

SortedInv == /\ Ordered(jobs, job, lastSort)
             /\ lastSort <= now

(* The inductive invariant: the fields of a job may change only while it is *)
(* not queued, which is why the queue must hold exactly the queued jobs.    *)
QInv == TypeOK /\ QueueHoldsTheWaiting /\ SortedInv

(* The comparator is asymmetric, so the order of the sort is an order. *)
LEMMA BeforeAsymmetric ==
  ASSUME NEW a \in JobFields, NEW b \in JobFields, NEW t \in Nat, Before(a, b, t)
  PROVE  ~Before(b, a, t)
  BY DEF JobFields, Priorities, Before, IsReady

(* What sorting keeps of a queue without duplicates, and what it achieves.  *)
LEMMA StableSortsProperties ==
  ASSUME NEW S, NEW q \in Seq(S), IsInjective(q),
         NEW fields, \A x \in S : fields[x] \in JobFields,
         NEW t \in Nat, NEW s \in StableSorts(q, fields, t)
  PROVE  /\ s \in Seq(S)
         /\ Len(s) = Len(q)
         /\ ToSet(s) = ToSet(q)
         /\ IsInjective(s)
         /\ Ordered(s, fields, t)
<1>1. PICK p \in Bijection(DOMAIN q, DOMAIN q) :
        /\ s = [i \in DOMAIN q |-> q[p[i]]]
        /\ \A i, k \in DOMAIN q :
             i < k => \/ Before(fields[q[p[i]]], fields[q[p[k]]], t)
                      \/ ~Before(fields[q[p[k]]], fields[q[p[i]]], t)
  BY DEF StableSorts
<1>2. /\ p \in [DOMAIN q -> DOMAIN q]
      /\ \A a, b \in DOMAIN q : p[a] = p[b] => a = b
      /\ \A b \in DOMAIN q : \E a \in DOMAIN q : p[a] = b
  BY DEF Bijection, Injection, Surjection, IsInjective
<1>3. DOMAIN q = 1..Len(q) /\ Len(q) \in Nat /\ \A i \in DOMAIN q : q[i] \in S
  BY LenProperties, ElementOfSeq
<1>4. s \in Seq(S) /\ Len(s) = Len(q) /\ DOMAIN s = DOMAIN q
  <2>1. s \in [1..Len(q) -> S]
    BY <1>1, <1>2, <1>3
  <2> QED
    BY <1>3, <2>1, SeqDef, LenProperties
<1>5. ToSet(s) = ToSet(q)
  BY <1>1, <1>2, <1>4 DEF ToSet
<1>6. IsInjective(s)
  BY <1>1, <1>2, <1>4 DEF IsInjective
<1>7. Ordered(s, fields, t)
  <2> SUFFICES ASSUME NEW i \in DOMAIN q, NEW k \in DOMAIN q, i < k
               PROVE  ~Before(fields[s[k]], fields[s[i]], t)
    BY <1>4 DEF Ordered
  <2>1. fields[q[p[i]]] \in JobFields /\ fields[q[p[k]]] \in JobFields
    BY <1>2, <1>3
  <2> QED
    BY <1>1, <2>1, BeforeAsymmetric
<1> QED
  BY <1>4, <1>5, <1>6, <1>7
(* Adding a job to the queue, after its fields and its fields only have been*)
(* set, keeps the queue whole and leaves it sorted.                         *)
LEMMA PushKeepsQueue ==
  ASSUME QInv, NEW j \in Jobs, status[j] # "queued", Push(j), now' = now,
         job' \in [Jobs -> JobFields],
         \A i \in Jobs \ {j} : job'[i] = job[i]
  PROVE  /\ jobs' \in Seq(Jobs)
         /\ status' \in [Jobs -> Statuses]
         /\ lastSort' \in 0..MaxNow
         /\ QueueHoldsTheWaiting'
         /\ SortedInv'
<1>1. /\ jobs \in Seq(Jobs) /\ status \in [Jobs -> Statuses] /\ now \in 0..MaxNow
      /\ lastSort \in 0..MaxNow /\ lastSort <= now /\ Len(jobs) \in Nat
  BY LenProperties DEF QInv, TypeOK, SortedInv
<1>2. j \notin ToSet(jobs) /\ IsInjective(jobs)
  BY DEF QInv, QueueHoldsTheWaiting
<1>3. CASE HasRoom
  <2> DEFINE q == Append(jobs, j)
  <2>1. /\ q \in Seq(Jobs)
        /\ Len(q) = Len(jobs) + 1
        /\ DOMAIN q = 1..(Len(jobs) + 1)
        /\ DOMAIN jobs = 1..Len(jobs)
        /\ \A i \in 1..Len(jobs) : q[i] = jobs[i]
        /\ q[Len(jobs) + 1] = j
    BY <1>1, AppendProperties, LenProperties
  <2> HIDE DEF q
  <2>2. ToSet(q) = ToSet(jobs) \cup {j}
    BY <1>1, <2>1 DEF ToSet
  <2>3. IsInjective(q)
    BY <1>1, <1>2, <2>1 DEF IsInjective, ToSet
  <2>4. jobs' \in StableSorts(q, job', now) /\ lastSort' = now
    BY <1>3 DEF Push, q
  <2>5. \A x \in Jobs : job'[x] \in JobFields
    OBVIOUS
  <2>6. /\ jobs' \in Seq(Jobs)
        /\ Len(jobs') = Len(q)
        /\ ToSet(jobs') = ToSet(q)
        /\ IsInjective(jobs')
        /\ Ordered(jobs', job', now)
    BY <1>1, <2>1, <2>3, <2>4, <2>5, StableSortsProperties
  <2>7. status' = [status EXCEPT ![j] = "queued"]
    BY <1>3 DEF Push
  <2>8. {i \in Jobs : status'[i] = "queued"} = {i \in Jobs : status[i] = "queued"} \cup {j}
    BY <1>1, <2>7
  <2>9. QueueHoldsTheWaiting'
    BY <1>1, <1>3, <2>1, <2>2, <2>6, <2>8 DEF QInv, QueueHoldsTheWaiting, HasRoom
  <2> QED
    BY <1>1, <2>4, <2>6, <2>7, <2>9 DEF SortedInv, Statuses
<1>4. CASE ~HasRoom
  <2>1. /\ jobs' = jobs /\ lastSort' = lastSort
        /\ status' = [status EXCEPT ![j] = "gone"]
    BY <1>4 DEF Push
  <2>2. {i \in Jobs : status'[i] = "queued"} = {i \in Jobs : status[i] = "queued"}
    BY <1>1, <2>1
  <2>3. \A i \in DOMAIN jobs : jobs[i] \in Jobs /\ jobs[i] # j
    BY <1>1, <1>2, ElementOfSeq, LenProperties DEF ToSet
  <2>4. Ordered(jobs, job', lastSort)
    BY <2>3 DEF QInv, SortedInv, Ordered
  <2> QED
    BY <1>1, <2>1, <2>2, <2>4 DEF QInv, QueueHoldsTheWaiting, SortedInv, Statuses
<1> QED
  BY <1>3, <1>4

(* Each action preserves the inductive invariant. *)
LEMMA SubmitInv ==
  ASSUME QInv, NEW j \in Jobs, NEW priority \in UsedPriorities, Submit(j, priority)
  PROVE  QInv'
<1>1. status[j] # "queued" /\ Push(j) /\ now' = now /\ retries' = retries
  BY DEF Submit
<1>2. now \in Nat /\ job \in [Jobs -> JobFields] /\ priority \in Priorities
  BY DEF QInv, TypeOK, JobFields
<1>3. job' = [job EXCEPT ![j] = [priority |-> priority, readyAt |-> now, enqueuedAt |-> now]]
  BY DEF Submit
<1>4. job' \in [Jobs -> JobFields] /\ \A i \in Jobs \ {j} : job'[i] = job[i]
  <2>1. [priority |-> priority, readyAt |-> now, enqueuedAt |-> now] \in JobFields
    BY <1>2 DEF JobFields
  <2> QED
    BY <1>2, <1>3, <2>1
<1> QED
  BY <1>1, <1>4, PushKeepsQueue DEF QInv, TypeOK, JobFields

LEMMA RetryInv ==
  ASSUME QInv, NEW j \in Jobs, NEW delay \in RetryDelays, Retry(j, delay)
  PROVE  QInv'
<1>1. status[j] # "queued" /\ Push(j) /\ now' = now
  BY DEF Retry
<1>2. now \in Nat /\ job \in [Jobs -> JobFields] /\ delay \in Nat
  BY DEF QInv, TypeOK, JobFields
<1>3. job' = [job EXCEPT ![j].readyAt = now + delay]
  BY DEF Retry
<1>4. job' \in [Jobs -> JobFields] /\ \A i \in Jobs \ {j} : job'[i] = job[i]
  <2>1. [job[j] EXCEPT !.readyAt = now + delay] \in JobFields
    BY <1>2 DEF JobFields
  <2> QED
    BY <1>2, <1>3, <2>1
<1>5. retries' \in [Jobs -> 0..MaxRetries]
  BY DEF Retry, QInv, TypeOK
<1> QED
  BY <1>1, <1>4, <1>5, PushKeepsQueue DEF QInv, TypeOK, JobFields

LEMMA DequeueInv == ASSUME QInv, Dequeue PROVE QInv'
<1> DEFINE h == Head(jobs)
<1>1. /\ jobs \in Seq(Jobs) /\ jobs # <<>> /\ jobs' = Tail(jobs)
      /\ status' = [status EXCEPT ![h] = "held"]
  BY DEF QInv, TypeOK, Dequeue
<1>2. /\ h \in Jobs /\ h = jobs[1]
      /\ jobs' \in Seq(Jobs) /\ Len(jobs) \in Nat \ {0} /\ Len(jobs') = Len(jobs) - 1
      /\ DOMAIN jobs = 1..Len(jobs) /\ DOMAIN jobs' = 1..(Len(jobs) - 1)
      /\ \A i \in DOMAIN jobs' : i + 1 \in DOMAIN jobs /\ jobs'[i] = jobs[i + 1]
  BY <1>1, HeadTailProperties, EmptySeq, LenProperties
<1> HIDE DEF h
<1>3. IsInjective(jobs')
  BY <1>2 DEF QInv, QueueHoldsTheWaiting, IsInjective
<1>4. ToSet(jobs') = ToSet(jobs) \ {h}
  <2>1. h \notin ToSet(jobs')
    BY <1>2 DEF QInv, QueueHoldsTheWaiting, IsInjective, ToSet
  <2>2. ToSet(jobs') \subseteq ToSet(jobs)
    BY <1>2 DEF ToSet
  <2>3. ASSUME NEW i \in DOMAIN jobs, i # 1 PROVE jobs[i] \in ToSet(jobs')
    <3>1. i - 1 \in DOMAIN jobs' /\ jobs'[i - 1] = jobs[i]
      BY <1>2, <2>3
    <3> QED
      BY <3>1 DEF ToSet
  <2>4. ASSUME NEW x \in ToSet(jobs), x # h PROVE x \in ToSet(jobs')
    <3>1. PICK i \in DOMAIN jobs : jobs[i] = x
      BY DEF ToSet
    <3> QED
      BY <1>2, <2>3, <2>4, <3>1
  <2> QED
    BY <2>1, <2>2, <2>4
<1>5. {i \in Jobs : status'[i] = "queued"} = {i \in Jobs : status[i] = "queued"} \ {h}
  BY <1>1, <1>2 DEF QInv, TypeOK
<1>6. QueueHoldsTheWaiting'
  BY <1>2, <1>3, <1>4, <1>5 DEF QInv, QueueHoldsTheWaiting
<1>7. Ordered(jobs', job, lastSort)
  BY <1>2 DEF QInv, SortedInv, Ordered
<1> QED
  BY <1>1, <1>2, <1>6, <1>7 DEF QInv, TypeOK, Dequeue, SortedInv, Statuses
LEMMA InitInv == Init => QInv
<1> SUFFICES ASSUME Init PROVE QInv
  OBVIOUS
<1>1. jobs = <<>> /\ jobs \in Seq(Jobs) /\ Len(jobs) = 0 /\ DOMAIN jobs = {}
  BY EmptySeq DEF Init
<1>2. TypeOK
  BY <1>1 DEF Init, TypeOK, Priorities, Statuses
<1>3. QueueHoldsTheWaiting
  BY <1>1 DEF Init, QueueHoldsTheWaiting, ToSet, IsInjective
<1> QED
  BY <1>1, <1>2, <1>3 DEF Init, QInv, SortedInv, Ordered

LEMMA NextInv == QInv /\ [Next]_vars => QInv'
<1> SUFFICES ASSUME QInv, [Next]_vars PROVE QInv'
  OBVIOUS
<1>1. CASE Dequeue
  BY <1>1, DequeueInv
<1>2. CASE Tick
  BY <1>2 DEF Tick, QInv, TypeOK, QueueHoldsTheWaiting, SortedInv, Ordered
<1>3. ASSUME NEW j \in Jobs, NEW p \in UsedPriorities, Submit(j, p) PROVE QInv'
  BY <1>3, SubmitInv
<1>4. ASSUME NEW j \in Jobs, NEW d \in RetryDelays, Retry(j, d) PROVE QInv'
  BY <1>4, RetryInv
<1>5. ASSUME NEW j \in Jobs, Finish(j) PROVE QInv'
  <2>1. status' \in [Jobs -> Statuses]
    BY <1>5 DEF Finish, QInv, TypeOK, Statuses
  <2>2. {i \in Jobs : status'[i] = "queued"} = {i \in Jobs : status[i] = "queued"}
    BY <1>5 DEF Finish, QInv, TypeOK
  <2> QED
    BY <1>5, <2>1, <2>2 DEF Finish, QInv, TypeOK, QueueHoldsTheWaiting, SortedInv, Ordered
<1>6. CASE UNCHANGED vars
  BY <1>6 DEF vars, QInv, TypeOK, QueueHoldsTheWaiting, SortedInv, Ordered
<1> QED
  BY <1>1, <1>2, <1>3, <1>4, <1>5, <1>6 DEF Next

(* The invariant holds of every behaviour of the queue. *)
THEOREM Invariant == Spec => []QInv
  BY InitInv, NextInv, PTL DEF Spec

(* The queue, the jobs and the clock are always well-formed. *)
THEOREM TypeCorrect == Spec => []TypeOK
<1>1. QInv => TypeOK
  BY DEF QInv
<1> QED
  BY <1>1, Invariant, PTL

(* The queue holds each waiting job once, none that is elsewhere, and at    *)
(* most maxSize of them.                                                    *)
THEOREM QueueIsWhole == Spec => []QueueHoldsTheWaiting
<1>1. QInv => QueueHoldsTheWaiting
  BY DEF QInv
<1> QED
  BY <1>1, Invariant, PTL

(* A queue sorted in the past hides no ready job behind its head: a job     *)
(* that was ready at the sort stands before those that were not, and those  *)
(* that were not stand in the order in which they become ready.             *)
LEMMA SortedHidesNoReadyJob == QInv => ReadyNeverBlocked
<1> SUFFICES ASSUME QInv, NEW j \in ToSet(jobs), IsReady(job[j], now),
                    ~IsReady(job[Head(jobs)], now)
             PROVE  FALSE
  BY DEF ReadyNeverBlocked
<1>1. PICK k \in DOMAIN jobs : jobs[k] = j
  BY DEF ToSet
<1>2. jobs \in Seq(Jobs) /\ DOMAIN jobs = 1..Len(jobs) /\ Len(jobs) \in Nat
  BY LenProperties DEF QInv, TypeOK
<1>3. 1 \in DOMAIN jobs /\ Head(jobs) = jobs[1] /\ 1 < k
  BY <1>1, <1>2
<1>4. ~Before(job[j], job[jobs[1]], lastSort)
  BY <1>1, <1>3 DEF QInv, SortedInv, Ordered
<1>5. /\ job[j] \in JobFields /\ job[jobs[1]] \in JobFields
      /\ now \in Nat /\ lastSort \in Nat /\ lastSort <= now
  BY <1>1, <1>2, <1>3, ElementOfSeq DEF QInv, TypeOK, SortedInv, JobFields
<1> QED
  BY <1>3, <1>4, <1>5 DEF JobFields, Before, IsReady

(* "Never let a not-ready job block ready jobs" holds at every moment, not  *)
(* only when the queue has just been sorted: dequeue() answers null only    *)
(* when no job is ready.                                                    *)
THEOREM ReadyIsNeverBlocked == Spec => []ReadyNeverBlocked
  BY SortedHidesNoReadyJob, Invariant, PTL
-----------------------------------------------------------------------------
(* What the order of first attempts rests on: emails get their numbers and  *)
(* their times in the order they are submitted, and one that has not been   *)
(* retried was ready at every sort it has been through.                     *)
SubmissionInv ==
  /\ \A j \in Jobs : status[j] = "new" => retries[j] = 0
  /\ \A j \in Jobs : status[j] # "new" => job[j].enqueuedAt <= now
  /\ \A i, j \in Jobs : i < j /\ status[j] # "new" =>
       status[i] # "new" /\ job[i].enqueuedAt <= job[j].enqueuedAt
  /\ \A j \in Jobs : status[j] = "queued" /\ retries[j] = 0 => job[j].readyAt <= lastSort

(* Of two first attempts, a is to leave the queue before b. *)
InTurn(a, b, fields) ==
  \/ fields[a].priority < fields[b].priority
  \/ fields[a].priority = fields[b].priority /\ a < b

FirstInOrder(q, fields, tries) ==
  \A m, n \in DOMAIN q :
    m < n /\ tries[q[m]] = 0 /\ tries[q[n]] = 0 => InTurn(q[m], q[n], fields)

(* The sort keeps first attempts in order: the comparator orders those of   *)
(* different priorities or times, and for the others the sort is stable.    *)
LEMMA SortKeepsOrder ==
  ASSUME NEW q \in Seq(Jobs), NEW fields \in [Jobs -> JobFields], NEW tries, NEW t \in Nat,
         \A a \in ToSet(q) : tries[a] = 0 => fields[a].readyAt <= t,
         \A a, b \in ToSet(q) : a < b => fields[a].enqueuedAt <= fields[b].enqueuedAt,
         \A m, n \in DOMAIN q :
           m < n /\ tries[q[m]] = 0 /\ tries[q[n]] = 0
             /\ fields[q[m]].priority = fields[q[n]].priority => q[m] < q[n],
         NEW s \in StableSorts(q, fields, t)
  PROVE  FirstInOrder(s, fields, tries)
<1>1. PICK p \in Bijection(DOMAIN q, DOMAIN q) :
        /\ s = [i \in DOMAIN q |-> q[p[i]]]
        /\ \A i, k \in DOMAIN q :
             i < k => \/ Before(fields[q[p[i]]], fields[q[p[k]]], t)
                      \/ /\ ~Before(fields[q[p[k]]], fields[q[p[i]]], t)
                         /\ p[i] < p[k]
  BY DEF StableSorts
<1>2. p \in [DOMAIN q -> DOMAIN q] /\ DOMAIN s = DOMAIN q
  BY <1>1 DEF Bijection, Injection
<1> SUFFICES ASSUME NEW m \in DOMAIN q, NEW n \in DOMAIN q, m < n,
                    tries[s[m]] = 0, tries[s[n]] = 0
             PROVE  InTurn(s[m], s[n], fields)
  BY <1>2 DEF FirstInOrder
<1>3. /\ s[m] = q[p[m]] /\ s[n] = q[p[n]] /\ p[m] \in DOMAIN q /\ p[n] \in DOMAIN q
  BY <1>1, <1>2
<1>4. s[m] \in ToSet(q) /\ s[n] \in ToSet(q) /\ s[m] \in Jobs /\ s[n] \in Jobs
  BY <1>3, ElementOfSeq, LenProperties DEF ToSet
<1>5. /\ fields[s[m]] \in JobFields /\ fields[s[n]] \in JobFields
      /\ fields[s[m]].readyAt <= t /\ fields[s[n]].readyAt <= t
  BY <1>4
<1>6. CASE Before(fields[s[m]], fields[s[n]], t)
  <2>1. \/ fields[s[m]].priority < fields[s[n]].priority
        \/ /\ fields[s[m]].priority = fields[s[n]].priority
           /\ fields[s[m]].enqueuedAt < fields[s[n]].enqueuedAt
    BY <1>5, <1>6 DEF Before, IsReady
  <2>2. fields[s[m]].enqueuedAt \in Nat /\ fields[s[n]].enqueuedAt \in Nat
    BY <1>5 DEF JobFields
  <2>3. s[n] < s[m] => fields[s[n]].enqueuedAt <= fields[s[m]].enqueuedAt
    BY <1>4
  <2>4. fields[s[m]].enqueuedAt < fields[s[n]].enqueuedAt => s[m] < s[n]
    <3>1. s[m] \in Nat /\ s[n] \in Nat
      BY <1>4 DEF Jobs
    <3>2. fields[s[m]].enqueuedAt < fields[s[n]].enqueuedAt => s[m] # s[n]
      BY <2>2
    <3> QED
      BY <2>2, <2>3, <3>1, <3>2
  <2> QED
    BY <2>1, <2>4 DEF InTurn
<1>7. CASE ~Before(fields[s[n]], fields[s[m]], t) /\ p[m] < p[n]
  <2>1. fields[s[m]].priority \in Int /\ fields[s[n]].priority \in Int
    <3>1. fields[s[m]].priority \in Priorities /\ fields[s[n]].priority \in Priorities
      BY <1>5 DEF JobFields
    <3> QED
      BY <3>1 DEF Priorities
  <2>2. ~(fields[s[n]].priority < fields[s[m]].priority)
    BY <1>5, <1>7 DEF Before, IsReady
  <2>3. fields[s[m]].priority = fields[s[n]].priority => s[m] < s[n]
    BY <1>3, <1>7
  <2> QED
    BY <2>1, <2>2, <2>3 DEF InTurn
<1> QED
  BY <1>1, <1>3, <1>6, <1>7

LEMMA QueuedJobs == ASSUME QInv PROVE \A n \in DOMAIN jobs : jobs[n] \in Jobs /\ status[jobs[n]] = "queued"
<1>1. \A n \in DOMAIN jobs : jobs[n] \in ToSet(jobs)
  BY DEF ToSet
<1> QED
  BY <1>1 DEF QInv, QueueHoldsTheWaiting

OrderInv == SubmissionInv /\ FirstInOrder(jobs, job, retries)

(* A job that comes in is the last one submitted, or is not a first attempt.*)
LEMMA PushKeepsOrder ==
  ASSUME QInv, OrderInv, NEW j \in Jobs, status[j] # "queued", Push(j), now' = now,
         job' \in [Jobs -> JobFields],
         \A i \in Jobs \ {j} : job'[i] = job[i] /\ retries'[i] = retries[i],
         retries'[j] = 0 => job'[j].readyAt <= now,
         \A a, b \in ToSet(jobs) \cup {j} : a < b => job'[a].enqueuedAt <= job'[b].enqueuedAt,
         retries'[j] = 0 => \A i \in ToSet(jobs) : i < j
  PROVE  /\ FirstInOrder(jobs', job', retries')
         /\ \A i \in Jobs : status'[i] = "queued" /\ retries'[i] = 0 => job'[i].readyAt <= lastSort'
<1>1. /\ jobs \in Seq(Jobs) /\ status \in [Jobs -> Statuses] /\ now \in Nat
      /\ lastSort \in Nat /\ lastSort <= now /\ Len(jobs) \in Nat /\ DOMAIN jobs = 1..Len(jobs)
  BY LenProperties DEF QInv, TypeOK, SortedInv
<1>2. \A n \in DOMAIN jobs : jobs[n] \in Jobs \ {j} /\ status[jobs[n]] = "queued" /\ jobs[n] \in ToSet(jobs)
  BY QueuedJobs DEF ToSet
<1>3. \A m, n \in DOMAIN jobs :
        m < n /\ retries'[jobs[m]] = 0 /\ retries'[jobs[n]] = 0 => InTurn(jobs[m], jobs[n], job')
  BY <1>2 DEF OrderInv, FirstInOrder, InTurn
<1>4. \A i \in Jobs \ {j} : status[i] = "queued" /\ retries'[i] = 0 => job'[i].readyAt <= lastSort
  BY DEF OrderInv, SubmissionInv
<1>5. CASE HasRoom
  <2> DEFINE q == Append(jobs, j)
  <2>1. /\ q \in Seq(Jobs)
        /\ DOMAIN q = 1..(Len(jobs) + 1)
        /\ \A i \in 1..Len(jobs) : q[i] = jobs[i]
        /\ q[Len(jobs) + 1] = j
    BY <1>1, AppendProperties, LenProperties
  <2>2. jobs' \in StableSorts(q, job', now) /\ lastSort' = now
        /\ status' = [status EXCEPT ![j] = "queued"]
    BY <1>5 DEF Push
  <2> HIDE DEF q
  <2>3. ToSet(q) = ToSet(jobs) \cup {j}
    BY <1>1, <2>1 DEF ToSet
  <2>4. \A i \in Jobs : status'[i] = "queued" /\ retries'[i] = 0 => job'[i].readyAt <= now
    <3>1. \A i \in Jobs : job'[i].readyAt \in Nat
      BY DEF JobFields
    <3> QED
      BY <1>1, <1>4, <2>2, <3>1
  <2>5. \A a \in ToSet(q) : retries'[a] = 0 => job'[a].readyAt <= now
    <3>1. \A a \in ToSet(jobs) : a \in Jobs /\ status'[a] = "queued"
      BY <1>1, <1>2, <2>2 DEF ToSet
    <3> QED
      BY <2>3, <2>4, <3>1
  <2>6. ASSUME NEW m \in DOMAIN q, NEW n \in DOMAIN q, m < n,
               retries'[q[m]] = 0, retries'[q[n]] = 0,
               job'[q[m]].priority = job'[q[n]].priority
        PROVE  q[m] < q[n]
    <3>1. CASE n \in 1..Len(jobs)
      <4>1. m \in DOMAIN jobs /\ n \in DOMAIN jobs /\ q[m] = jobs[m] /\ q[n] = jobs[n]
        BY <1>1, <2>1, <2>6, <3>1
      <4>2. jobs[m] \in Jobs /\ job'[jobs[m]].priority \in 0..2
        BY <1>2, <4>1 DEF JobFields, Priorities
      <4> QED
        BY <1>3, <2>6, <4>1, <4>2 DEF InTurn
    <3>2. CASE n = Len(jobs) + 1
      <4>1. q[n] = j /\ q[m] = jobs[m] /\ m \in DOMAIN jobs
        BY <1>1, <2>1, <2>6, <3>2
      <4> QED
        BY <1>2, <2>6, <4>1
    <3> QED
      BY <1>1, <2>1, <3>1, <3>2
  <2>7. FirstInOrder(jobs', job', retries')
    BY <1>1, <2>1, <2>2, <2>3, <2>5, <2>6, SortKeepsOrder
  <2> QED
    BY <2>2, <2>4, <2>7
<1>6. CASE ~HasRoom
  <2>1. jobs' = jobs /\ lastSort' = lastSort /\ status' = [status EXCEPT ![j] = "gone"]
    BY <1>6 DEF Push
  <2> QED
    BY <1>1, <1>3, <1>4, <2>1 DEF FirstInOrder
<1> QED
  BY <1>5, <1>6

(* The job that is submitted next, or put back, is no exception. *)
LEMMA NextOrder == QInv /\ OrderInv /\ [Next]_vars => OrderInv'
<1> SUFFICES ASSUME QInv, OrderInv, [Next]_vars PROVE OrderInv'
  OBVIOUS
<1> USE DEF OrderInv
<1>1. /\ now \in Nat /\ lastSort \in Nat /\ lastSort <= now
      /\ job \in [Jobs -> JobFields] /\ status \in [Jobs -> Statuses]
      /\ retries \in [Jobs -> 0..MaxRetries] /\ jobs \in Seq(Jobs)
  BY DEF QInv, TypeOK, SortedInv, JobFields
<1>2. ToSet(jobs) = {j \in Jobs : status[j] = "queued"}
  BY DEF QInv, QueueHoldsTheWaiting
<1>3. ASSUME NEW j \in Jobs, NEW priority \in UsedPriorities, Submit(j, priority)
      PROVE  OrderInv'
  <2> DEFINE new == [priority |-> priority, readyAt |-> now, enqueuedAt |-> now]
  <2>1. /\ status[j] = "new" /\ \A i \in 1..(j - 1) : status[i] # "new"
        /\ job' = [job EXCEPT ![j] = new] /\ Push(j) /\ now' = now /\ retries' = retries
    BY <1>3 DEF Submit
  <2>2. new \in JobFields
    BY <1>1 DEF JobFields
  <2>3. /\ job' \in [Jobs -> JobFields] /\ job'[j] = new
        /\ \A i \in Jobs \ {j} : job'[i] = job[i]
        /\ job'[j].readyAt = now /\ job'[j].enqueuedAt = now
    <3>1. job' \in [Jobs -> JobFields] /\ job'[j] = new
          /\ \A i \in Jobs \ {j} : job'[i] = job[i]
      BY <1>1, <2>1, <2>2
    <3> QED
      BY <3>1
  <2>4. \A i \in Jobs : i # j /\ status[i] # "new" => i < j
    <3>1. \A i \in Jobs : j < i => status[i] = "new"
      BY <2>1 DEF SubmissionInv
    <3> QED
      BY <3>1 DEF Jobs
  <2>5. \A i \in Jobs : i < j => status[i] # "new" /\ job[i].enqueuedAt <= now
    BY <2>1 DEF SubmissionInv, Jobs
  <2>6. status' \in [Jobs -> Statuses] /\ status'[j] # "new"
        /\ \A i \in Jobs \ {j} : status'[i] = status[i]
    BY <1>1, <2>1 DEF Push, Statuses
  <2>7. \A a, b \in Jobs : a < b /\ status'[b] # "new" =>
          status'[a] # "new" /\ job'[a].enqueuedAt <= job'[b].enqueuedAt
    <3> SUFFICES ASSUME NEW a \in Jobs, NEW b \in Jobs, a < b, status'[b] # "new"
                 PROVE  status'[a] # "new" /\ job'[a].enqueuedAt <= job'[b].enqueuedAt
      OBVIOUS
    <3>0. a # b
      BY DEF Jobs
    <3>1. CASE b = j
      BY <2>3, <2>5, <2>6, <3>0, <3>1
    <3>2. CASE b # j
      <4>1. b < j
        BY <2>4, <2>6, <3>2
      <4>2. a # j
        BY <4>1 DEF Jobs
      <4> QED
        BY <2>3, <2>6, <3>2, <4>2 DEF SubmissionInv
    <3> QED
      BY <3>1, <3>2
  <2>8. \A a, b \in ToSet(jobs) \cup {j} : a < b => job'[a].enqueuedAt <= job'[b].enqueuedAt
    BY <1>2, <2>6, <2>7
  <2>9. /\ FirstInOrder(jobs', job', retries')
        /\ \A i \in Jobs : status'[i] = "queued" /\ retries'[i] = 0 => job'[i].readyAt <= lastSort'
    <3> HIDE DEF OrderInv
    <3>1. job'[j].readyAt <= now
      BY <1>1, <2>3
    <3>2. \A i \in ToSet(jobs) : i < j
      BY <1>2, <2>1, <2>4
    <3> QED
      BY <2>1, <2>3, <2>8, <3>1, <3>2, PushKeepsOrder
  <2>10. \A i \in Jobs : status'[i] # "new" => job'[i].enqueuedAt <= now
    <3>1. now <= now
      BY <1>1
    <3> HIDE DEF new
    <3> QED
      BY <2>3, <2>6, <3>1 DEF SubmissionInv
  <2>11. \A i \in Jobs : status'[i] = "new" => retries'[i] = 0
    BY <2>1, <2>6 DEF SubmissionInv
  <2> QED
    BY <2>1, <2>7, <2>9, <2>10, <2>11 DEF SubmissionInv
<1>4. ASSUME NEW j \in Jobs, NEW delay \in RetryDelays, Retry(j, delay) PROVE OrderInv'
  <2>1. /\ status[j] = "held" /\ Push(j) /\ now' = now
        /\ job' = [job EXCEPT ![j].readyAt = now + delay]
        /\ retries' = [retries EXCEPT ![j] = @ + 1]
    BY <1>4 DEF Retry
  <2>2. [job[j] EXCEPT !.readyAt = now + delay] \in JobFields
    <3>1. now + delay \in Nat /\ job[j] \in JobFields
      BY <1>1
    <3> QED
      BY <3>1 DEF JobFields
  <2>3. /\ job' \in [Jobs -> JobFields]
        /\ \A i \in Jobs \ {j} : job'[i] = job[i] /\ retries'[i] = retries[i]
        /\ \A i \in Jobs : job'[i].enqueuedAt = job[i].enqueuedAt
    BY <1>1, <2>1, <2>2 DEF JobFields
  <2>4. retries'[j] # 0
    BY <1>1, <2>1
  <2>5. status' \in [Jobs -> Statuses] /\ status'[j] # "new"
        /\ \A i \in Jobs \ {j} : status'[i] = status[i]
    BY <1>1, <2>1 DEF Push, Statuses
  <2>6. \A a, b \in ToSet(jobs) \cup {j} : a < b => job'[a].enqueuedAt <= job'[b].enqueuedAt
    BY <1>2, <2>1, <2>3 DEF SubmissionInv
  <2>7. /\ FirstInOrder(jobs', job', retries')
        /\ \A i \in Jobs : status'[i] = "queued" /\ retries'[i] = 0 => job'[i].readyAt <= lastSort'
    <3> HIDE DEF OrderInv
    <3> QED
      BY <2>1, <2>3, <2>4, <2>6, PushKeepsOrder
  <2> QED
    BY <2>1, <2>3, <2>5, <2>7 DEF SubmissionInv
<1>5. CASE Dequeue
  <2>1. /\ jobs # <<>> /\ jobs' = Tail(jobs)
        /\ status' = [status EXCEPT ![Head(jobs)] = "held"]
        /\ UNCHANGED <<now, job, retries, lastSort>>
    BY <1>5 DEF Dequeue
  <2>2. \A i \in DOMAIN jobs' : i + 1 \in DOMAIN jobs /\ jobs'[i] = jobs[i + 1] /\ i \in Nat
    BY <1>1, <2>1, HeadTailProperties, EmptySeq, LenProperties
  <2>3. FirstInOrder(jobs', job', retries')
    BY <2>1, <2>2 DEF FirstInOrder
  <2>4. Head(jobs) \in Jobs /\ status[Head(jobs)] = "queued"
    <3>1. 1 \in DOMAIN jobs /\ Head(jobs) = jobs[1]
      BY <1>1, <2>1, HeadTailProperties, EmptySeq, LenProperties
    <3> QED
      BY <3>1, QueuedJobs
  <2>5. \A i \in Jobs : status'[i] = status[i] \/ (status'[i] = "held" /\ status[i] = "queued")
    BY <1>1, <2>1, <2>4
  <2> QED
    BY <2>1, <2>3, <2>5 DEF SubmissionInv
<1>6. CASE Tick
  BY <1>1, <1>6 DEF Tick, SubmissionInv, FirstInOrder, InTurn, JobFields
<1>7. ASSUME NEW j \in Jobs, Finish(j) PROVE OrderInv'
  <2>1. /\ status[j] = "held" /\ status' = [status EXCEPT ![j] = "gone"]
        /\ UNCHANGED <<now, jobs, job, retries, lastSort>>
    BY <1>7 DEF Finish
  <2>2. \A i \in Jobs : status'[i] = status[i] \/ (status'[i] = "gone" /\ status[i] = "held")
    BY <1>1, <2>1
  <2> QED
    BY <2>1, <2>2 DEF SubmissionInv, FirstInOrder, InTurn
<1>8. CASE UNCHANGED vars
  BY <1>8 DEF vars, SubmissionInv, FirstInOrder, InTurn
<1> QED
  BY <1>3, <1>4, <1>5, <1>6, <1>7, <1>8 DEF Next

(* Jobs that have not been retried leave the queue by priority and in the   *)
(* order they were submitted: the times decide where they differ, and the   *)
(* stability of each sort since keeps the order where they do not.          *)
THEOREM FirstAttemptsAreInOrder == Spec => []FirstAttemptsInOrder
<1>1. Init => OrderInv
  BY EmptySeq DEF Init, OrderInv, SubmissionInv, FirstInOrder
<1>2. OrderInv => FirstAttemptsInOrder
  BY DEF OrderInv, FirstInOrder, InTurn, FirstAttemptsInOrder
<1> QED
  BY <1>1, <1>2, NextOrder, Invariant, PTL DEF Spec
=============================================================================
