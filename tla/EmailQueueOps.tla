--------------------------- MODULE EmailQueueOps ---------------------------
(***************************************************************************)
(* The order in which EmailQueue (src/queue/EmailQueue.ts) keeps its jobs. *)
(*                                                                         *)
(* A queue is a sequence of job names; what the comparator reads of a job  *)
(* is in a function from job names to records with the fields              *)
(*    priority    0 high, 1 normal, 2 low (PRIORITY_SCORE)                 *)
(*    readyAt     nextRetryAt, the time from which it may be dequeued      *)
(*    enqueuedAt  the time send() created it                               *)
(***************************************************************************)
EXTENDS Integers, Sequences, Functions

Priorities == 0..2

IsReady(j, now) == j.readyAt <= now

(* Mutant: the two not-ready jobs are not ordered by retry time. *)
BeforeIgnoringRetryTime(a, b, now) ==
  IF IsReady(a, now) # IsReady(b, now) THEN IsReady(a, now)
  ELSE \/ a.priority < b.priority
       \/ a.priority = b.priority /\ a.enqueuedAt < b.enqueuedAt

(* Mutant: the submission time is compared the wrong way round. *)
BeforeNewestFirst(a, b, now) ==
  IF IsReady(a, now) # IsReady(b, now) THEN IsReady(a, now)
  ELSE IF ~IsReady(a, now) /\ a.readyAt # b.readyAt THEN a.readyAt < b.readyAt
  ELSE \/ a.priority < b.priority
       \/ a.priority = b.priority /\ a.enqueuedAt > b.enqueuedAt

(* The comparator of sortUnsafe(a, b) is negative: a goes before b. *)
Before(a, b, now) ==
  IF IsReady(a, now) # IsReady(b, now) THEN IsReady(a, now)
  ELSE IF ~IsReady(a, now) /\ a.readyAt # b.readyAt THEN a.readyAt < b.readyAt
  ELSE \/ a.priority < b.priority
       \/ a.priority = b.priority /\ a.enqueuedAt < b.enqueuedAt

(* Array.prototype.sort: q rearranged so that nothing goes before what it   *)
(* follows, equal jobs keeping their places (the sort is stable).  The set  *)
(* has exactly one member.                                                  *)
StableSorts(q, job, now) ==
  {[i \in DOMAIN q |-> q[p[i]]] :
     p \in {r \in Bijection(DOMAIN q, DOMAIN q) :
              \A i, k \in DOMAIN q :
                i < k => \/ Before(job[q[r[i]]], job[q[r[k]]], now)
                         \/ /\ ~Before(job[q[r[k]]], job[q[r[i]]], now)
                            /\ r[i] < r[k]}}
=============================================================================
