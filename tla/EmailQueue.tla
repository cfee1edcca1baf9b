----------------------------- MODULE EmailQueue -----------------------------
(***************************************************************************)
(* The in-memory priority queue between EmailSDK.send and the worker loops *)
(* (src/queue/EmailQueue.ts).  enqueue and dequeue run inside an           *)
(* AsyncMutex and their bodies never await, so each is one step.           *)
(*                                                                         *)
(* The queue is only sorted when a job is added.  The clock runs on        *)
(* between sorts, so the order dequeue relies on is the order of the past. *)
(***************************************************************************)
EXTENDS EmailQueueOps, FiniteSets, SequencesExt

CONSTANTS NumJobs,     \* bound: how many emails are submitted
          UsedPriorities, \* the priorities the emails have
          MaxSize,     \* maxSize
          MaxRetries,  \* bound: how often a job is put back
          RetryDelays, \* the delays a retry may be given
          MaxNow       \* bound on the clock

ASSUME QueueAssumption == /\ NumJobs \in Nat
                          /\ UsedPriorities \subseteq Priorities
                          /\ MaxSize \in Nat
                          /\ MaxRetries \in Nat
                          /\ RetryDelays \subseteq Nat
                          /\ MaxNow \in Nat

Jobs == 1..NumJobs   \* numbered in the order in which they are submitted

VARIABLES
  now,       \* Date.now()
  jobs,      \* the jobs array
  job,       \* the fields of each job that the comparator reads
  retries,   \* how often each job has been put back (job.attempts)
  status,    \* where each job is
  lastSort   \* history: the time of the last sort

vars == <<now, jobs, job, retries, status, lastSort>>

Statuses == {"new", "queued", "held", "gone"}

HasRoom == Len(jobs) < MaxSize

Init == /\ now = 0
        /\ jobs = <<>>
        /\ job = [j \in Jobs |-> [priority |-> 1, readyAt |-> 0, enqueuedAt |-> 0]]
        /\ retries = [j \in Jobs |-> 0]
        /\ status = [j \in Jobs |-> "new"]
        /\ lastSort = 0

(* Mutant: <= for < in the comparison with maxSize. *)
PushOffByOne(j) ==
  IF Len(jobs) <= MaxSize
    THEN /\ jobs' \in StableSorts(Append(jobs, j), job', now)
         /\ status' = [status EXCEPT ![j] = "queued"]
         /\ lastSort' = now
    ELSE /\ status' = [status EXCEPT ![j] = "gone"]
         /\ UNCHANGED <<jobs, lastSort>>

(* enqueue(j), once the fields of j have been set; QueueFullError otherwise *)
Push(j) ==
  IF HasRoom
    THEN /\ jobs' \in StableSorts(Append(jobs, j), job', now)
         /\ status' = [status EXCEPT ![j] = "queued"]
         /\ lastSort' = now
    ELSE /\ status' = [status EXCEPT ![j] = "gone"]
         /\ UNCHANGED <<jobs, lastSort>>

(* EmailSDK.send: the next email, ready at once.  A refused job is rejected  *)
(* to the caller.                                                           *)
Submit(j, priority) ==
  /\ status[j] = "new"
  /\ \A i \in 1..(j - 1) : status[i] # "new"
  /\ job' = [job EXCEPT ![j] = [priority |-> priority, readyAt |-> now, enqueuedAt |-> now]]
  /\ Push(j)
  /\ UNCHANGED <<now, retries>>

(* QueueWorker: a failed delivery is put back with a delay.  A refused job  *)
(* goes to the dead letter queue.                                           *)
Retry(j, delay) ==
  /\ status[j] = "held"
  /\ retries[j] < MaxRetries
  /\ job' = [job EXCEPT ![j].readyAt = now + delay]
  /\ retries' = [retries EXCEPT ![j] = @ + 1]
  /\ Push(j)
  /\ UNCHANGED now

(* dequeue(); when it returns null nothing changes *)
Dequeue ==
  /\ jobs # <<>>
  /\ IsReady(job[Head(jobs)], now)
  /\ jobs' = Tail(jobs)
  /\ status' = [status EXCEPT ![Head(jobs)] = "held"]
  /\ UNCHANGED <<now, job, retries, lastSort>>

(* The worker is done with the job: sent, or in the dead letter queue *)
Finish(j) ==
  /\ status[j] = "held"
  /\ status' = [status EXCEPT ![j] = "gone"]
  /\ UNCHANGED <<now, jobs, job, retries, lastSort>>

Tick ==
  /\ now < MaxNow
  /\ now' = now + 1
  /\ UNCHANGED <<jobs, job, retries, status, lastSort>>

Next == \/ Dequeue
        \/ Tick
        \/ \E j \in Jobs : \/ \E p \in UsedPriorities : Submit(j, p)
                           \/ Finish(j)
                           \/ \E d \in RetryDelays : Retry(j, d)

Spec == Init /\ [][Next]_vars
-----------------------------------------------------------------------------
(* The clock, the jobs and the queue stay in their domains. *)
TypeOK ==
  /\ now \in 0..MaxNow
  /\ jobs \in Seq(Jobs)
  /\ job \in [Jobs -> [priority : Priorities, readyAt : Nat, enqueuedAt : Nat]]
  /\ retries \in [Jobs -> 0..MaxRetries]
  /\ status \in [Jobs -> Statuses]
  /\ lastSort \in 0..MaxNow

(* The queue holds every job that was accepted and not yet taken, once, and *)
(* never more than maxSize of them, although new jobs and retries compete   *)
(* for the same places.                                                     *)
QueueHoldsTheWaiting ==
  /\ ToSet(jobs) = {j \in Jobs : status[j] = "queued"}
  /\ IsInjective(jobs)
  /\ Len(jobs) <= MaxSize

(* "Never let a not-ready job block ready jobs."  (EmailQueue.ts)           *)
(* Whenever some job is ready the head is ready, although the queue was     *)
(* last sorted in the past and jobs have become ready since: dequeue, which *)
(* looks at the head alone, never answers null with a ready job waiting.    *)
ReadyNeverBlocked ==
  (\E j \in ToSet(jobs) : IsReady(job[j], now)) => IsReady(job[Head(jobs)], now)

(* Jobs that have not been retried leave the queue by priority and, within  *)
(* a priority, in the order they were submitted, whatever retries were       *)
(* inserted between them and however many share a millisecond.              *)
FirstAttemptsInOrder ==
  \A m, n \in DOMAIN jobs :
    m < n /\ retries[jobs[m]] = 0 /\ retries[jobs[n]] = 0 =>
      \/ job[jobs[m]].priority < job[jobs[n]].priority
      \/ job[jobs[m]].priority = job[jobs[n]].priority /\ jobs[m] < jobs[n]
=============================================================================
