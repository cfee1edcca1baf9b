----------------------------- MODULE AsyncMutex -----------------------------
(***************************************************************************)
(* The mutex around the bodies of enqueue and dequeue (class AsyncMutex in *)
(* src/queue/EmailQueue.ts).  Nothing is preempted, but every await lets   *)
(* other callers run: one that was just given the lock goes on some turns  *)
(* later, and others may call runExclusive() in between.                   *)
(***************************************************************************)
EXTENDS SequencesExt, FiniteSets

CONSTANT Callers   \* the calls of runExclusive() that may overlap

ASSUME MutexAssumption == IsFiniteSet(Callers)

VARIABLES
  locked,    \* locked
  waiters,   \* waiters
  pc         \* where each caller is

mutexVars == <<locked, waiters, pc>>

MutexInit ==
  /\ locked = FALSE
  /\ waiters = <<>>
  /\ pc = [c \in Callers |-> "idle"]

(* The callers that have the lock, or have been called to take it over *)
Holding == {c \in Callers : pc[c] \in {"woken", "entering", "inside"}}

(* runExclusive(), up to its first await *)
Call(c) ==
  /\ pc[c] = "idle"
  /\ IF locked
       THEN /\ waiters' = Append(waiters, c)
            /\ pc' = [pc EXCEPT ![c] = "waiting"]
            /\ UNCHANGED locked
       ELSE /\ locked' = TRUE
            /\ pc' = [pc EXCEPT ![c] = "entering"]
            /\ UNCHANGED waiters

(* acquire() goes on after the promise it waited for *)
Resume(c) ==
  /\ pc[c] = "woken"
  /\ locked' = TRUE
  /\ pc' = [pc EXCEPT ![c] = "entering"]
  /\ UNCHANGED waiters

(* Mutants: the lock is released although a waiter takes it over; the       *)
(* newest waiter is called; a waiter is removed and never called.           *)
ReleaseUnlocks(c) ==
  /\ locked' = FALSE
  /\ IF waiters = <<>>
       THEN pc' = [pc EXCEPT ![c] = "idle"] /\ UNCHANGED waiters
       ELSE /\ waiters' = Tail(waiters)
            /\ pc' = [pc EXCEPT ![c] = "idle", ![Head(waiters)] = "woken"]

ReleaseNewestFirst(c) ==
  IF waiters = <<>>
    THEN locked' = FALSE /\ pc' = [pc EXCEPT ![c] = "idle"] /\ UNCHANGED waiters
    ELSE /\ waiters' = Front(waiters)
         /\ pc' = [pc EXCEPT ![c] = "idle", ![Last(waiters)] = "woken"]
         /\ UNCHANGED locked

ReleaseLosesWaiter(c) ==
  IF waiters = <<>>
    THEN locked' = FALSE /\ pc' = [pc EXCEPT ![c] = "idle"] /\ UNCHANGED waiters
    ELSE /\ waiters' = Tail(waiters)
         /\ pc' = [pc EXCEPT ![c] = "idle"]
         /\ UNCHANGED locked

(* release() by c, which is then done *)
Release(c) ==
  IF waiters = <<>>
    THEN locked' = FALSE /\ pc' = [pc EXCEPT ![c] = "idle"] /\ UNCHANGED waiters
    ELSE /\ waiters' = Tail(waiters)
         /\ pc' = [pc EXCEPT ![c] = "idle", ![Head(waiters)] = "woken"]
         /\ UNCHANGED locked

(* The body runs, in one turn.  If it throws, finally releases at once.     *)
Enter(c) ==
  /\ pc[c] = "entering"
  /\ \/ pc' = [pc EXCEPT ![c] = "inside"] /\ UNCHANGED <<locked, waiters>>
     \/ Release(c)

(* await fn() goes on, and finally releases *)
Leave(c) == pc[c] = "inside" /\ Release(c)

MutexNext == \E c \in Callers : Call(c) \/ Resume(c) \/ Enter(c) \/ Leave(c)

MutexSpec == MutexInit /\ [][MutexNext]_mutexVars

(* Promise reactions are run in turn, all of them. *)
FairMutexSpec == MutexSpec /\ \A c \in Callers : WF_mutexVars(Resume(c) \/ Enter(c) \/ Leave(c))
-----------------------------------------------------------------------------
(* The callers stay in their domains, and exactly those waiting are queued. *)
MutexTypeOK ==
  /\ locked \in BOOLEAN
  /\ waiters \in Seq(Callers)
  /\ IsInjective(waiters)
  /\ pc \in [Callers -> {"idle", "waiting", "woken", "entering", "inside"}]
  /\ \A c \in Callers : pc[c] = "waiting" <=> \E i \in DOMAIN waiters : waiters[i] = c

(* The lock is taken exactly as long as one caller has it or has been       *)
(* called to take it over, although release() hands it over without         *)
(* unlocking and the new holder sets it again turns later; and nobody waits *)
(* for a lock that no one holds.                                            *)
OneHolder ==
  /\ locked <=> Holding # {}
  /\ \A c, d \in Holding : c = d
  /\ waiters # <<>> => locked

Lock == INSTANCE FifoLock WITH holder <- Holding, line <- waiters

(* Callers get the lock one at a time in the order they asked; none that    *)
(* comes between a release and the waiter's resumption gets in before it.   *)
(* EmailQueue relies on it when it takes enqueue and dequeue to be atomic.  *)
ImplementsFifoLock == Lock!Spec

(* Every caller gets through, also after a body has thrown. *)
EveryCallerServed == \A c \in Callers : pc[c] # "idle" ~> pc[c] = "idle"
=============================================================================
