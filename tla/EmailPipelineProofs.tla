------------------------ MODULE EmailPipelineProofs ------------------------
(***************************************************************************)
(* Proofs about EmailPipeline, for any number of emails and of worker      *)
(* loops, any queue size and any number of attempts, whichever the emails  *)
(* are whose events make listeners throw.                                  *)
(***************************************************************************)
EXTENDS EmailPipeline, FiniteSetTheorems, TLAPS

USE PipelineAssumption DEF PipelineAssumption

(* A loop past dequeue() has a job in its hands. *)
BusyHolds ==
  \A w \in Loops : loop[w] \in {"delivering", "requeuing"} => holds[w] # NoMsg

(* A job that no loop has worked on has been attempted by none. *)
FreshUntried ==
  \A m \in Msgs : place[m] \in {"new", "calling"} => attempts[m] = 0 /\ verdict[m] = "none"

(* The inductive invariant.  That an email is never lost or sent twice      *)
(* rests on its being in one place, which rests on one loop holding it.     *)
PInv == TypeOK /\ HeldByOneLoop /\ BusyHolds /\ NothingLost /\ AttemptsLeft /\ FreshUntried

(* send() moves a new email only. *)
LEMMA SendInv ==
  ASSUME PInv, NEW m \in Msgs, NEW t \in Throwing(m), Send(m, t)
  PROVE  PInv'
<1> USE DEF PInv
<1>1. TypeOK'
  BY DEF TypeOK, Places, Send, history
<1>2. HeldByOneLoop'
  BY DEF TypeOK, HeldByOneLoop, Send, history
<1>3. BusyHolds'
  BY DEF TypeOK, BusyHolds, Send, history
<1>4. NothingLost'
  BY DEF TypeOK, NothingLost, Send, history
<1>5. AttemptsLeft'
  BY DEF TypeOK, AttemptsLeft, Send, history
<1>6. FreshUntried'
  BY DEF TypeOK, FreshUntried, Send, history
<1> QED
  BY <1>1, <1>2, <1>3, <1>4, <1>5, <1>6

(* A job enters the queue with no attempt made. *)
LEMMA EnqueueInv ==
  ASSUME PInv, NEW m \in Msgs, NEW t \in Throwing(m), Enqueue(m, t)
  PROVE  PInv'
<1> USE DEF PInv
<1>1. TypeOK'
  BY DEF TypeOK, Places, Enqueue, history
<1>2. HeldByOneLoop'
  BY DEF TypeOK, HeldByOneLoop, Enqueue, history
<1>3. BusyHolds'
  BY DEF TypeOK, BusyHolds, Enqueue, history
<1>4. NothingLost'
  BY DEF TypeOK, NothingLost, Enqueue, history
<1>5. AttemptsLeft'
  BY DEF TypeOK, AttemptsLeft, FreshUntried, Enqueue, history
<1>6. FreshUntried'
  BY DEF TypeOK, FreshUntried, Enqueue, history
<1> QED
  BY <1>1, <1>2, <1>3, <1>4, <1>5, <1>6

(* A refused job goes nowhere. *)
LEMMA EnqueueFullInv ==
  ASSUME PInv, NEW m \in Msgs, EnqueueFull(m)
  PROVE  PInv'
<1> USE DEF PInv
<1>1. TypeOK'
  BY DEF TypeOK, Places, EnqueueFull, history
<1>2. HeldByOneLoop'
  BY DEF TypeOK, HeldByOneLoop, EnqueueFull, history
<1>3. BusyHolds'
  BY DEF TypeOK, BusyHolds, EnqueueFull, history
<1>4. NothingLost'
  BY DEF TypeOK, NothingLost, EnqueueFull, history
<1>5. AttemptsLeft'
  BY DEF TypeOK, AttemptsLeft, EnqueueFull, history
<1>6. FreshUntried'
  BY DEF TypeOK, FreshUntried, EnqueueFull, history
<1> QED
  BY <1>1, <1>2, <1>3, <1>4, <1>5, <1>6

(* Ripening changes the place of a queued job only. *)
LEMMA RipenInv ==
  ASSUME PInv, NEW m \in Msgs, Ripen(m)
  PROVE  PInv'
<1> USE DEF PInv
<1>1. TypeOK'
  BY DEF TypeOK, Places, Ripen, history
<1>2. HeldByOneLoop'
  BY DEF TypeOK, HeldByOneLoop, Ripen, history
<1>3. BusyHolds'
  BY DEF TypeOK, BusyHolds, Ripen, history
<1>4. NothingLost'
  BY DEF TypeOK, NothingLost, Ripen, history
<1>5. AttemptsLeft'
  BY DEF TypeOK, AttemptsLeft, Ripen, history
<1>6. FreshUntried'
  BY DEF TypeOK, FreshUntried, Ripen, history
<1> QED
  BY <1>1, <1>2, <1>3, <1>4, <1>5, <1>6

(* A loop takes a job that nobody holds, or sleeps. *)
LEMMA DequeueInv ==
  ASSUME PInv, NEW w \in Loops, Dequeue(w)
  PROVE  PInv'
<1> USE DEF PInv
<1>1. TypeOK'
  BY DEF TypeOK, Places, HeldByOneLoop, BusyHolds, Dequeue, history
<1>2. HeldByOneLoop'
  BY DEF TypeOK, HeldByOneLoop, BusyHolds, Dequeue, history
<1>3. BusyHolds'
  BY DEF TypeOK, BusyHolds, HeldByOneLoop, Dequeue, history
<1>4. NothingLost'
  BY DEF TypeOK, NothingLost, HeldByOneLoop, BusyHolds, Dequeue, history
<1>5. AttemptsLeft'
  BY DEF TypeOK, AttemptsLeft, HeldByOneLoop, BusyHolds, Dequeue, history
<1>6. FreshUntried'
  BY DEF TypeOK, FreshUntried, Dequeue, history
<1> QED
  BY <1>1, <1>2, <1>3, <1>4, <1>5, <1>6

(* A woken loop holds nothing. *)
LEMMA WakeInv ==
  ASSUME PInv, NEW w \in Loops, Wake(w)
  PROVE  PInv'
<1> USE DEF PInv
<1>1. TypeOK'
  BY DEF TypeOK, Places, HeldByOneLoop, BusyHolds, Wake, LoopHead, history
<1>2. HeldByOneLoop'
  BY DEF TypeOK, HeldByOneLoop, BusyHolds, Wake, LoopHead, history
<1>3. BusyHolds'
  BY DEF TypeOK, BusyHolds, HeldByOneLoop, Wake, LoopHead, history
<1>4. NothingLost'
  BY DEF TypeOK, NothingLost, HeldByOneLoop, BusyHolds, Wake, LoopHead, history
<1>5. AttemptsLeft'
  BY DEF TypeOK, AttemptsLeft, HeldByOneLoop, BusyHolds, Wake, LoopHead, history
<1>6. FreshUntried'
  BY DEF TypeOK, FreshUntried, Wake, LoopHead, history
<1> QED
  BY <1>1, <1>2, <1>3, <1>4, <1>5, <1>6

(* A sent job ends, once, in the hands of the one loop that held it. *)
LEMMA DeliverSentInv ==
  ASSUME PInv, NEW w \in Loops, NEW t \in Throwing(holds[w]), NEW u \in Throwing(holds[w]), DeliverSent(w, t, u)
  PROVE  PInv'
<1> USE DEF PInv
<1> DEFINE m == holds[w]
<1>h. m \in Msgs /\ place[m] = "held"
  BY DEF TypeOK, BusyHolds, HeldByOneLoop, DeliverSent
<1>z. /\ sent[m] = 0 /\ dlq[m] = 0 /\ sentEvents[m] = 0 /\ failedEvents[m] = 0
      /\ attempts[m] \in 0..(MaxAttempts - 1)
  BY <1>h DEF TypeOK, NothingLost, AttemptsLeft
<1>1. TypeOK'
  BY <1>h, <1>z DEF TypeOK, Places, DeliverSent, Catch, Throwing, Settled, LoopHead, EndIteration
<1>2. HeldByOneLoop'
  BY <1>h, <1>z DEF TypeOK, HeldByOneLoop, DeliverSent, Catch, Throwing, Settled, LoopHead, EndIteration
<1>3. BusyHolds'
  BY <1>h, <1>z DEF TypeOK, BusyHolds, DeliverSent, Catch, Throwing, Settled, LoopHead, EndIteration
<1>4. NothingLost'
  <2>1. place'[m] = "done"
    BY <1>h DEF TypeOK, DeliverSent, Catch, EndIteration
  <2>2. sent'[m] = 1 /\ sentEvents'[m] = 1
    BY <1>h, <1>z DEF TypeOK, DeliverSent, Catch, EndIteration
  <2>4. dlq'[m] = failedEvents'[m] /\ dlq'[m] \in {0, 1} /\ (m \notin Cursed => dlq'[m] = 0)
    <3>1. CASE t
      <4>1. dlq' = [dlq EXCEPT ![m] = 0 + 1] /\ failedEvents' = [failedEvents EXCEPT ![m] = 0 + 1]
        BY <3>1 DEF DeliverSent, Catch
      <4>2. m \in Cursed
        BY <3>1, Zenon DEF Throwing
      <4> QED
        BY <1>h, <4>1, <4>2 DEF TypeOK
    <3>2. CASE ~t
      <4>1. dlq' = dlq /\ failedEvents' = failedEvents
        BY <3>2 DEF DeliverSent, Catch
      <4> QED
        BY <1>h, <1>z, <3>2, <4>1 DEF TypeOK
    <3> QED
      BY <3>1, <3>2
  <2>3. ASSUME NEW n \in Msgs, n # m
        PROVE  /\ place'[n] = place[n] /\ sent'[n] = sent[n] /\ dlq'[n] = dlq[n]
               /\ sentEvents'[n] = sentEvents[n] /\ failedEvents'[n] = failedEvents[n]
    <3>1. place'[n] = place[n]
      BY <1>h, <2>3 DEF TypeOK, DeliverSent, Catch, EndIteration
    <3>2. sent'[n] = sent[n] /\ sentEvents'[n] = sentEvents[n]
      BY <1>h, <2>3 DEF TypeOK, DeliverSent, Catch, EndIteration
    <3>3. dlq'[n] = dlq[n]
      BY <1>h, <2>3 DEF TypeOK, DeliverSent, Catch, EndIteration
    <3>4. failedEvents'[n] = failedEvents[n]
      BY <1>h, <2>3 DEF TypeOK, DeliverSent, Catch, EndIteration
    <3> QED
      BY <3>1, <3>2, <3>3, <3>4
  <2> HIDE DEF m
  <2> QED
    BY <1>h, <2>1, <2>2, <2>3, <2>4 DEF NothingLost
<1>5. AttemptsLeft'
  BY <1>h, <1>z DEF TypeOK, AttemptsLeft, DeliverSent, Catch, Throwing, Settled, LoopHead, EndIteration
<1>6. FreshUntried'
  BY <1>h, <1>z DEF TypeOK, FreshUntried, DeliverSent, Catch, Throwing, Settled, LoopHead, EndIteration
<1> QED
  BY <1>1, <1>2, <1>3, <1>4, <1>5, <1>6

(* So does a failed one. *)
LEMMA DeliverFailedInv ==
  ASSUME PInv, NEW w \in Loops, NEW t \in Throwing(holds[w]), NEW u \in Throwing(holds[w]), DeliverFailed(w, t, u)
  PROVE  PInv'
<1> USE DEF PInv
<1> DEFINE m == holds[w]
<1>h. m \in Msgs /\ place[m] = "held"
  BY DEF TypeOK, BusyHolds, HeldByOneLoop, DeliverFailed
<1>z. /\ sent[m] = 0 /\ dlq[m] = 0 /\ sentEvents[m] = 0 /\ failedEvents[m] = 0
      /\ attempts[m] \in 0..(MaxAttempts - 1)
  BY <1>h DEF TypeOK, NothingLost, AttemptsLeft
<1>1. TypeOK'
  BY <1>h, <1>z DEF TypeOK, Places, DeliverFailed, Catch, Throwing, Settled, LoopHead, EndIteration
<1>2. HeldByOneLoop'
  BY <1>h, <1>z DEF TypeOK, HeldByOneLoop, DeliverFailed, Catch, Throwing, Settled, LoopHead, EndIteration
<1>3. BusyHolds'
  BY <1>h, <1>z DEF TypeOK, BusyHolds, DeliverFailed, Catch, Throwing, Settled, LoopHead, EndIteration
<1>4. NothingLost'
  <2>1. place'[m] = "done"
    BY <1>h DEF TypeOK, DeliverFailed, Catch, EndIteration
  <2>2. sent'[m] = 0 /\ sentEvents'[m] = 0
    BY <1>h, <1>z DEF TypeOK, DeliverFailed, Catch, EndIteration
  <2>4. dlq'[m] = failedEvents'[m] /\ dlq'[m] \in {1, 2} /\ (m \notin Cursed => dlq'[m] = 1)
    <3>1. CASE t
      <4>1. dlq' = [dlq EXCEPT ![m] = 1 + 1] /\ failedEvents' = [failedEvents EXCEPT ![m] = 1 + 1]
        BY <3>1 DEF DeliverFailed, Catch
      <4>2. m \in Cursed
        BY <3>1, Zenon DEF Throwing
      <4> QED
        BY <1>h, <4>1, <4>2 DEF TypeOK
    <3>2. CASE ~t
      <4>1. dlq' = [dlq EXCEPT ![m] = 0 + 1] /\ failedEvents' = [failedEvents EXCEPT ![m] = 0 + 1]
        BY <3>2 DEF DeliverFailed, Catch
      <4> QED
        BY <1>h, <1>z, <3>2, <4>1 DEF TypeOK
    <3> QED
      BY <3>1, <3>2
  <2>3. ASSUME NEW n \in Msgs, n # m
        PROVE  /\ place'[n] = place[n] /\ sent'[n] = sent[n] /\ dlq'[n] = dlq[n]
               /\ sentEvents'[n] = sentEvents[n] /\ failedEvents'[n] = failedEvents[n]
    <3>1. place'[n] = place[n]
      BY <1>h, <2>3 DEF TypeOK, DeliverFailed, Catch, EndIteration
    <3>2. sent'[n] = sent[n] /\ sentEvents'[n] = sentEvents[n]
      BY <1>h, <2>3 DEF TypeOK, DeliverFailed, Catch, EndIteration
    <3>3. dlq'[n] = dlq[n]
      BY <1>h, <2>3 DEF TypeOK, DeliverFailed, Catch, EndIteration
    <3>4. failedEvents'[n] = failedEvents[n]
      BY <1>h, <2>3 DEF TypeOK, DeliverFailed, Catch, EndIteration
    <3> QED
      BY <3>1, <3>2, <3>3, <3>4
  <2> HIDE DEF m
  <2> QED
    BY <1>h, <2>1, <2>2, <2>3, <2>4 DEF NothingLost
<1>5. AttemptsLeft'
  BY <1>h, <1>z DEF TypeOK, AttemptsLeft, DeliverFailed, Catch, Throwing, Settled, LoopHead, EndIteration
<1>6. FreshUntried'
  BY <1>h, <1>z DEF TypeOK, FreshUntried, DeliverFailed, Catch, Throwing, Settled, LoopHead, EndIteration
<1> QED
  BY <1>1, <1>2, <1>3, <1>4, <1>5, <1>6

(* A retried job stays in the same hands. *)
LEMMA DeliverRetryInv ==
  ASSUME PInv, NEW w \in Loops, DeliverRetry(w)
  PROVE  PInv'
<1> USE DEF PInv
<1> DEFINE m == holds[w]
<1>h. m \in Msgs /\ place[m] = "held"
  BY DEF TypeOK, BusyHolds, HeldByOneLoop, DeliverRetry
<1>z. /\ sent[m] = 0 /\ dlq[m] = 0 /\ sentEvents[m] = 0 /\ failedEvents[m] = 0
      /\ attempts[m] \in 0..(MaxAttempts - 1)
  BY <1>h DEF TypeOK, NothingLost, AttemptsLeft
<1>1. TypeOK'
  BY <1>h, <1>z DEF TypeOK, Places, DeliverRetry
<1>2. HeldByOneLoop'
  BY <1>h, <1>z DEF TypeOK, HeldByOneLoop, DeliverRetry
<1>3. BusyHolds'
  BY <1>h, <1>z DEF TypeOK, BusyHolds, DeliverRetry
<1>4. NothingLost'
  BY <1>h, <1>z DEF TypeOK, NothingLost, DeliverRetry
<1>5. AttemptsLeft'
  BY <1>h, <1>z DEF TypeOK, AttemptsLeft, DeliverRetry
<1>6. FreshUntried'
  BY <1>h, <1>z DEF TypeOK, FreshUntried, DeliverRetry
<1> QED
  BY <1>1, <1>2, <1>3, <1>4, <1>5, <1>6

(* A throwing listener ends the job. *)
LEMMA DeliverThrowsInv ==
  ASSUME PInv, NEW w \in Loops, NEW u \in Throwing(holds[w]), DeliverThrows(w, u)
  PROVE  PInv'
<1> USE DEF PInv
<1> DEFINE m == holds[w]
<1>h. m \in Msgs /\ place[m] = "held"
  BY DEF TypeOK, BusyHolds, HeldByOneLoop, DeliverThrows
<1>z. /\ sent[m] = 0 /\ dlq[m] = 0 /\ sentEvents[m] = 0 /\ failedEvents[m] = 0
      /\ attempts[m] \in 0..(MaxAttempts - 1)
  BY <1>h DEF TypeOK, NothingLost, AttemptsLeft
<1>1. TypeOK'
  BY <1>h, <1>z DEF TypeOK, Places, DeliverThrows, Catch, Throwing, Settled, LoopHead, EndIteration
<1>2. HeldByOneLoop'
  BY <1>h, <1>z DEF TypeOK, HeldByOneLoop, DeliverThrows, Catch, Throwing, Settled, LoopHead, EndIteration
<1>3. BusyHolds'
  BY <1>h, <1>z DEF TypeOK, BusyHolds, DeliverThrows, Catch, Throwing, Settled, LoopHead, EndIteration
<1>4. NothingLost'
  BY <1>h, <1>z DEF TypeOK, NothingLost, DeliverThrows, Catch, Throwing, Settled, LoopHead, EndIteration
<1>5. AttemptsLeft'
  BY <1>h, <1>z DEF TypeOK, AttemptsLeft, DeliverThrows, Catch, Throwing, Settled, LoopHead, EndIteration
<1>6. FreshUntried'
  BY <1>h, <1>z DEF TypeOK, FreshUntried, DeliverThrows, Catch, Throwing, Settled, LoopHead, EndIteration
<1> QED
  BY <1>1, <1>2, <1>3, <1>4, <1>5, <1>6

(* Requeuing puts the job in the queue or ends it. *)
LEMMA RequeueInv ==
  ASSUME PInv, NEW w \in Loops, NEW t \in Throwing(holds[w]), Requeue(w, t)
  PROVE  PInv'
<1> USE DEF PInv
<1> DEFINE m == holds[w]
<1>h. m \in Msgs /\ place[m] = "held"
  BY DEF TypeOK, BusyHolds, HeldByOneLoop, Requeue
<1>z. /\ sent[m] = 0 /\ dlq[m] = 0 /\ sentEvents[m] = 0 /\ failedEvents[m] = 0
      /\ attempts[m] \in 0..(MaxAttempts - 1)
  BY <1>h DEF TypeOK, NothingLost, AttemptsLeft
<1>1. TypeOK'
  BY <1>h, <1>z DEF TypeOK, Places, Requeue, Catch, Throwing, Settled, LoopHead, EndIteration
<1>2. HeldByOneLoop'
  BY <1>h, <1>z DEF TypeOK, HeldByOneLoop, Requeue, Catch, Throwing, Settled, LoopHead, EndIteration
<1>3. BusyHolds'
  BY <1>h, <1>z DEF TypeOK, BusyHolds, Requeue, Catch, Throwing, Settled, LoopHead, EndIteration
<1>4. NothingLost'
  BY <1>h, <1>z DEF TypeOK, NothingLost, Requeue, Catch, Throwing, Settled, LoopHead, EndIteration
<1>5. AttemptsLeft'
  BY <1>h, <1>z DEF TypeOK, AttemptsLeft, Requeue, Catch, Throwing, Settled, LoopHead, EndIteration
<1>6. FreshUntried'
  BY <1>h, <1>z DEF TypeOK, FreshUntried, Requeue, Catch, Throwing, Settled, LoopHead, EndIteration
<1> QED
  BY <1>1, <1>2, <1>3, <1>4, <1>5, <1>6

(* Shutting down moves no job. *)
LEMMA ShutdownInv ==
  ASSUME PInv, Stop \/ StopReturns \/ StopThrows
  PROVE  PInv'
<1>1. UNCHANGED <<place, attempts, answer, loop, holds, dlq, history>>
      /\ running' \in BOOLEAN /\ shutdown' \in {"no", "stopping", "done", "failed"}
  BY DEF PInv, TypeOK, Stop, StopReturns, StopThrows, history
<1> QED
  BY <1>1 DEF PInv, TypeOK, HeldByOneLoop, BusyHolds, NothingLost, AttemptsLeft,
              FreshUntried, history

LEMMA InitInv == Init => PInv
BY DEF Init, PInv, TypeOK, Places, HeldByOneLoop, BusyHolds, NothingLost, AttemptsLeft,
       FreshUntried

LEMMA StutterInv == PInv /\ UNCHANGED vars => PInv'
BY DEF vars, PInv, TypeOK, HeldByOneLoop, BusyHolds, NothingLost, AttemptsLeft, FreshUntried

LEMMA NextInv == PInv /\ [Next]_vars => PInv'
<1> SUFFICES ASSUME PInv, [Next]_vars
             PROVE  PInv'
  OBVIOUS
<1>1. CASE UNCHANGED vars
  BY <1>1, StutterInv
<1>2. CASE \E m \in Msgs : (\E t \in Throwing(m) : Send(m, t)) \/ Enter(m) \/ Ripen(m)
  BY <1>2, SendInv, EnqueueInv, EnqueueFullInv, RipenInv DEF Enter
<1>3. ASSUME NEW w \in Loops, Deliver(w)
      PROVE  PInv'
  BY <1>3, DeliverRetryInv, DeliverThrowsInv, DeliverSentInv, DeliverFailedInv DEF Deliver
<1>4. CASE \E w \in Loops : Dequeue(w) \/ Wake(w) \/ Deliver(w) \/ Put(w)
  BY <1>3, <1>4, DequeueInv, WakeInv, RequeueInv DEF Put
<1>5. CASE Stop \/ StopReturns \/ StopThrows
  BY <1>5, ShutdownInv
<1> QED
  BY <1>1, <1>2, <1>4, <1>5 DEF Next

THEOREM Invariant == Spec => []PInv
BY InitInv, NextInv, PTL DEF Spec

(* The jobs, the loops and the promises stay in their domains. *)
THEOREM TypeCorrect == Spec => []TypeOK
BY Invariant, PTL DEF PInv

(* Two loops never have the same email, and none is left with a loop that   *)
(* stopped or died.                                                         *)
THEOREM EveryJobHasOneLoop == Spec => []HeldByOneLoop
BY Invariant, PTL DEF PInv

(* No email is lost, and none is accepted twice: what leaves the pipeline   *)
(* was sent once or is in the dead letter queue, with the events to match.  *)
THEOREM NoEmailIsLost == Spec => []NothingLost
BY Invariant, PTL DEF PInv

(* A retried job has attempts left; maxAttempts bounds them. *)
THEOREM AttemptsAreBounded == Spec => []AttemptsLeft
BY Invariant, PTL DEF PInv

(* shutdown() resolves after the last loop has stopped, and a stopped loop   *)
(* never runs again.                                                        *)
DoneInv == /\ shutdown # "no" => ~running
           /\ shutdown = "done" => \A w \in Loops : loop[w] = "stopped"

LEMMA DoneStep == PInv /\ DoneInv /\ [Next]_vars => DoneInv'
<1> SUFFICES ASSUME PInv, DoneInv, [Next]_vars
             PROVE  DoneInv'
  OBVIOUS
<1> USE DEF DoneInv
<1>1. CASE UNCHANGED vars
  BY <1>1 DEF vars
<1>2. CASE \E m \in Msgs : (\E t \in Throwing(m) : Send(m, t)) \/ Enter(m) \/ Ripen(m)
  BY <1>2 DEF Send, Enter, Enqueue, EnqueueFull, Ripen
<1>3. ASSUME NEW w \in Loops, Dequeue(w) \/ Wake(w) \/ Deliver(w) \/ Put(w)
      PROVE  DoneInv'
  <2>1. loop[w] # "stopped" /\ running' = running /\ shutdown' = shutdown
    BY <1>3 DEF Dequeue, Wake, Deliver, Put, DeliverRetry, DeliverThrows, DeliverSent,
                DeliverFailed, Requeue, Catch, EndIteration
  <2> QED
    BY <2>1
<1>4. CASE Stop
  BY <1>4 DEF Stop
<1>5. CASE StopReturns \/ StopThrows
  BY <1>5 DEF StopReturns, StopThrows
<1> QED
  BY <1>1, <1>2, <1>3, <1>4, <1>5 DEF Next

(* When shutdown() has resolved every loop has stopped, and no email is     *)
(* left half delivered: no loop has one in its hands.                       *)
THEOREM ShutdownIsClean == Spec => []ShutdownClean
<1>1. Init => DoneInv
  BY DEF Init, DoneInv
<1>2. PInv /\ DoneInv => ShutdownClean
  <2> SUFFICES ASSUME PInv, DoneInv, shutdown = "done"
               PROVE  /\ \A w \in Loops : loop[w] = "stopped"
                      /\ \A m \in Msgs : place[m] # "held"
    BY DEF ShutdownClean
  <2>1. \A w \in Loops : loop[w] = "stopped"
    BY DEF DoneInv
  <2>2. \A w \in Loops : holds[w] = NoMsg
    BY <2>1 DEF PInv, HeldByOneLoop
  <2>3. ASSUME NEW m \in Msgs, place[m] = "held"
        PROVE  FALSE
    BY <2>2, <2>3 DEF PInv, HeldByOneLoop
  <2> QED
    BY <2>1, <2>3
<1> QED
  BY <1>1, <1>2, Invariant, DoneStep, PTL DEF Spec

(* A step puts at most one job in the queue, and only when it has room. *)
LEMMA QueueGrowth ==
  ASSUME PInv, [Next]_vars
  PROVE  \/ Queue' \subseteq Queue
         \/ HasRoom /\ \E m \in Msgs : Queue' \subseteq Queue \cup {m}
<1> USE DEF PInv, TypeOK, Queue
<1>1. CASE UNCHANGED vars
  BY <1>1 DEF vars
<1>2. ASSUME NEW m \in Msgs, (\E t \in Throwing(m) : Send(m, t)) \/ Enter(m) \/ Ripen(m)
      PROVE  \/ Queue' \subseteq Queue
             \/ HasRoom /\ Queue' \subseteq Queue \cup {m}
  BY <1>2 DEF Send, Enter, Enqueue, EnqueueFull, Ripen
<1>3. ASSUME NEW w \in Loops, Dequeue(w) \/ Wake(w) \/ Deliver(w)
      PROVE  Queue' \subseteq Queue
  <2>1. \A m \in Msgs : place'[m] \in {"waiting", "ready"} => place'[m] = place[m]
    BY <1>3 DEF Dequeue, Wake, Deliver, DeliverRetry, DeliverThrows, DeliverSent,
                DeliverFailed, Catch
  <2> QED
    BY <2>1
<1>4. ASSUME NEW w \in Loops, NEW t \in Throwing(holds[w]), Requeue(w, t)
      PROVE  \/ Queue' \subseteq Queue
             \/ HasRoom /\ \E m \in Msgs : Queue' \subseteq Queue \cup {m}
  <2>1. holds[w] \in Msgs
    BY <1>4 DEF BusyHolds, Requeue
  <2>2. \A n \in Msgs \ {holds[w]} : place'[n] = place[n]
    BY <1>4 DEF Requeue, Catch
  <2>3. HasRoom \/ place'[holds[w]] = "done"
    BY <1>4, <2>1 DEF Requeue, Catch
  <2> QED
    BY <2>1, <2>2, <2>3
<1>5. CASE Stop \/ StopReturns \/ StopThrows
  BY <1>5 DEF Stop, StopReturns, StopThrows
<1> QED
  BY <1>1, <1>2, <1>3, <1>4, <1>5 DEF Next, Put

(* The queue never holds more than maxSize jobs, although new jobs and      *)
(* retries go in by different ways.                                         *)
THEOREM QueueIsBounded == Spec => []QueueBounded
<1>1. IsFiniteSet(Queue)
  BY FS_Subset DEF Queue
<1>2. Init => QueueBounded
  <2>1. Init => Queue = {}
    BY DEF Init, Queue
  <2> QED
    BY <2>1, FS_EmptySet DEF QueueBounded
<1>3. PInv /\ QueueBounded /\ [Next]_vars => QueueBounded'
  <2> SUFFICES ASSUME PInv, QueueBounded, [Next]_vars
               PROVE  Cardinality(Queue') <= MaxSize
    BY DEF QueueBounded
  <2>1. CASE Queue' \subseteq Queue
    BY <1>1, <2>1, FS_Subset, FS_CardinalityType DEF QueueBounded
  <2>2. ASSUME HasRoom, NEW m \in Msgs, Queue' \subseteq Queue \cup {m}
        PROVE  Cardinality(Queue') <= MaxSize
    <3>1. /\ IsFiniteSet(Queue \cup {m})
          /\ Cardinality(Queue \cup {m}) <= Cardinality(Queue) + 1
      <4>1. /\ IsFiniteSet(Queue \cup {m})
            /\ \/ Cardinality(Queue \cup {m}) = Cardinality(Queue)
               \/ Cardinality(Queue \cup {m}) = Cardinality(Queue) + 1
        BY <1>1, FS_AddElement
      <4>2. Cardinality(Queue) \in Nat
        BY <1>1, FS_CardinalityType
      <4> HIDE DEF Queue
      <4> QED
        BY <4>1, <4>2
    <3>2. Cardinality(Queue') <= Cardinality(Queue \cup {m})
      BY <2>2, <3>1, FS_Subset
    <3>3. IsFiniteSet(Queue')
      BY <2>2, <3>1, FS_Subset
    <3> QED
      BY <1>1, <2>2, <3>1, <3>2, <3>3, FS_CardinalityType DEF HasRoom
  <2> QED
    BY <2>1, <2>2, QueueGrowth
<1> QED
  BY <1>2, <1>3, Invariant, PTL DEF Spec
-----------------------------------------------------------------------------
(* What a step does for one email of those that no listener makes trouble   *)
(* with, as EmailDelivery sees it.                                          *)
InFlight == {"waiting", "ready", "held"}

Asked(m) ==
  /\ place[m] = "new" /\ place'[m] = "calling"
  /\ answer'[m] = "waiting" /\ sent'[m] = sent[m]
Accepted(m) ==
  /\ place[m] = "calling" /\ place'[m] = "ready" /\ sent'[m] = sent[m]
  /\ answer'[m] = IF m \in Awaiting THEN answer[m] ELSE "queued"
Refused(m) ==
  /\ place[m] = "calling" /\ place'[m] = "dropped" /\ sent'[m] = sent[m]
  /\ answer'[m] = IF m \in Awaiting THEN answer[m] ELSE "rejected"
Kept(m) ==
  /\ place[m] \in InFlight /\ place'[m] \in InFlight
  /\ answer'[m] = answer[m] /\ sent'[m] = sent[m]
Ended(m, n, told) ==
  /\ place[m] \in InFlight /\ place'[m] = "done" /\ sent'[m] = n
  /\ answer'[m] = IF m \in Awaiting /\ answer[m] = "waiting" THEN told ELSE answer[m]

Only(m) ==
  \A k \in Msgs \ {m} : place'[k] = place[k] /\ answer'[k] = answer[k] /\ sent'[k] = sent[k]

Effect(m) ==
  /\ Only(m)
  /\ m \in Spared => \/ Asked(m) \/ Accepted(m) \/ Refused(m) \/ Kept(m)
                     \/ Ended(m, 1, "resolved") \/ Ended(m, 0, "rejected")

LEMMA SparedThrowNot == ASSUME NEW m \in Spared, NEW t \in Throwing(m) PROVE t = FALSE
BY Zenon DEF Spared, Throwing

LEMMA EntryEffects ==
  ASSUME PInv, NEW m \in Msgs,
         (\E t \in Throwing(m) : Send(m, t)) \/ Enter(m) \/ Ripen(m)
  PROVE  Effect(m)
<1>1. ASSUME NEW t \in Throwing(m), Send(m, t) PROVE Effect(m)
  <2>1. m \in Spared => answer' = [answer EXCEPT ![m] = "waiting"]
    BY <1>1, SparedThrowNot DEF Send
  <2> QED
    BY <1>1, <2>1 DEF PInv, TypeOK, Send, history, Effect, Only, Asked
<1>2. ASSUME NEW t \in Throwing(m), Enqueue(m, t) PROVE Effect(m)
  <2>1. m \in Spared => answer' = IF m \in Awaiting THEN answer ELSE [answer EXCEPT ![m] = "queued"]
    BY <1>2, SparedThrowNot DEF Enqueue
  <2> QED
    BY <1>2, <2>1 DEF PInv, TypeOK, Enqueue, history, Effect, Only, Accepted
<1>3. CASE EnqueueFull(m)
  BY <1>3 DEF PInv, TypeOK, EnqueueFull, history, Effect, Only, Refused
<1>4. CASE Ripen(m)
  BY <1>4 DEF PInv, TypeOK, Ripen, history, Effect, Only, Kept, InFlight
<1> QED
  BY <1>1, <1>2, <1>3, <1>4 DEF Enter

(* The catch block ends the email of the loop. *)
LEMMA CatchEffect ==
  ASSUME PInv, NEW w \in Loops, holds[w] \in Msgs, place[holds[w]] = "held",
         NEW n, NEW t \in Throwing(holds[w]), Catch(w, n, t), sent' = sent
  PROVE  Effect(holds[w])
<1> DEFINE m == holds[w]
<1>1. m \in Msgs /\ place[m] = "held" /\ sent[m] = 0
  BY DEF PInv, TypeOK, NothingLost
<1>2. place' = [place EXCEPT ![m] = "done"]
  BY DEF Catch
<1>3. answer' = IF t THEN answer ELSE Settled(m, "rejected")
  BY DEF Catch
<1>4. m \in Spared => Ended(m, 0, "rejected")
  <2>1. m \in Spared => answer' = Settled(m, "rejected")
    BY <1>3, SparedThrowNot
  <2> HIDE DEF m
  <2> QED
    BY <1>1, <1>2, <2>1 DEF PInv, TypeOK, Settled, Ended, InFlight
<1>5. Only(m)
  BY <1>2, <1>3 DEF PInv, TypeOK, Settled, Only
<1> QED
  BY <1>4, <1>5 DEF Effect

LEMMA LoopEffects ==
  ASSUME PInv, NEW w \in Loops, Dequeue(w) \/ Wake(w) \/ Deliver(w) \/ Put(w)
  PROVE  UNCHANGED <<place, answer, sent>> \/ \E m \in Msgs : Effect(m)
<1> DEFINE m == holds[w]
<1>1. CASE Dequeue(w)
  <2>1. ASSUME NEW k \in Msgs, place[k] = "ready", place' = [place EXCEPT ![k] = "held"]
        PROVE  Effect(k)
    BY <1>1, <2>1 DEF PInv, TypeOK, Dequeue, history, Effect, Only, Kept, InFlight
  <2> QED
    BY <1>1, <2>1 DEF Dequeue, history
<1>2. CASE Wake(w)
  BY <1>2 DEF Wake, history
<1>3. loop[w] \in {"delivering", "requeuing"} => m \in Msgs /\ place[m] = "held"
  BY DEF PInv, TypeOK, BusyHolds, HeldByOneLoop
<1>4. CASE DeliverRetry(w)
  BY <1>4 DEF DeliverRetry
<1>5. ASSUME NEW t \in Throwing(m), NEW u \in Throwing(m), DeliverSent(w, t, u)
      PROVE  Effect(m)
  <2>1. m \in Msgs /\ place[m] = "held"
    BY <1>3, <1>5 DEF DeliverSent
  <2>2. sent' = [sent EXCEPT ![m] = sent[m] + 1] /\ sent[m] = 0
    BY <1>5, <2>1 DEF DeliverSent, PInv, TypeOK, NothingLost
  <2>3. place' = [place EXCEPT ![m] = "done"]
    BY <1>5 DEF DeliverSent, Catch
  <2>4. answer' \in {answer, Settled(m, "rejected"), Settled(m, "resolved")}
    BY <1>5 DEF DeliverSent, Catch
  <2>5. m \in Spared => answer' = Settled(m, "resolved")
    BY <1>5, SparedThrowNot DEF DeliverSent
  <2> HIDE DEF m
  <2>6. Only(m)
    BY <2>1, <2>2, <2>3, <2>4 DEF PInv, TypeOK, Settled, Only
  <2>7. m \in Spared => Ended(m, 1, "resolved")
    BY <2>1, <2>2, <2>3, <2>5 DEF PInv, TypeOK, Settled, Ended, InFlight
  <2> QED
    BY <2>6, <2>7 DEF Effect
<1>6. ASSUME NEW t \in Throwing(m), NEW u \in Throwing(m), DeliverFailed(w, t, u)
      PROVE  Effect(m)
  <2>1. m \in Msgs /\ place[m] = "held"
    BY <1>3, <1>6 DEF DeliverFailed
  <2>2. FALSE \in Throwing(m)
    BY Zenon DEF Throwing
  <2>3. sent' = sent /\ (Catch(w, 1, u) \/ Catch(w, 0, FALSE))
    BY <1>6 DEF DeliverFailed
  <2> QED
    BY <2>1, <2>2, <2>3, CatchEffect
<1>7. ASSUME NEW t \in Throwing(m), DeliverThrows(w, t) PROVE Effect(m)
  BY <1>3, <1>7, CatchEffect DEF DeliverThrows
<1>8. ASSUME NEW t \in Throwing(m), Requeue(w, t) PROVE Effect(m)
  <2>1. m \in Msgs /\ place[m] = "held" /\ sent' = sent
    BY <1>3, <1>8 DEF Requeue
  <2>2. CASE HasRoom
    <3>1. place' = [place EXCEPT ![m] = "waiting"] /\ answer' = answer
      BY <1>8, <2>2 DEF Requeue
    <3> HIDE DEF m
    <3> QED
      BY <2>1, <3>1 DEF PInv, TypeOK, Effect, Only, Kept, InFlight
  <2>3. CASE ~HasRoom
    <3>1. Catch(w, 0, t)
      BY <1>8, <2>3 DEF Requeue
    <3> QED
      BY <2>1, <3>1, CatchEffect
  <2> QED
    BY <2>2, <2>3
<1>9. CASE Deliver(w)
  <2>1. loop[w] = "delivering"
    BY <1>9 DEF Deliver, DeliverRetry, DeliverThrows, DeliverSent, DeliverFailed
  <2>2. m \in Msgs
    BY <1>3, <2>1
  <2>3. Effect(m) \/ DeliverRetry(w)
    BY <1>5, <1>6, <1>7, <1>9, Zenon DEF Deliver
  <2> QED
    BY <1>4, <2>2, <2>3
<1>10. CASE Put(w)
  <2>1. m \in Msgs
    BY <1>3, <1>10 DEF Put, Requeue
  <2>2. Effect(m)
    BY <1>8, <1>10, Zenon DEF Put
  <2> QED
    BY <2>1, <2>2
<1> QED
  BY <1>1, <1>2, <1>9, <1>10

LEMMA StepEffects ==
  PInv /\ [Next]_vars => UNCHANGED <<place, answer, sent>> \/ \E m \in Msgs : Effect(m)
<1>1. CASE Stop \/ StopReturns \/ StopThrows \/ UNCHANGED vars
  BY <1>1 DEF Stop, StopReturns, StopThrows, history, vars
<1> QED
  BY <1>1, EntryEffects, LoopEffects DEF Next

(* What callers have been told so far: nobody before the call, and nobody   *)
(* who awaits the result before the email's end.                            *)
AnswersDue ==
  \A m \in Spared :
    /\ place[m] = "new" => answer[m] = "none"
    /\ place[m] = "calling" => answer[m] = "waiting"
    /\ (m \in Awaiting /\ place[m] \in InFlight) => answer[m] = "waiting"

LEMMA AnswersStayDue == PInv /\ AnswersDue /\ [Next]_vars => AnswersDue'
<1> SUFFICES ASSUME PInv, AnswersDue, [Next]_vars PROVE AnswersDue'
  OBVIOUS
<1>1. CASE UNCHANGED <<place, answer, sent>>
  BY <1>1 DEF AnswersDue
<1>2. ASSUME NEW m \in Msgs, Effect(m) PROVE AnswersDue'
  <2> SUFFICES ASSUME NEW k \in Spared
               PROVE  /\ place'[k] = "new" => answer'[k] = "none"
                      /\ place'[k] = "calling" => answer'[k] = "waiting"
                      /\ (k \in Awaiting /\ place'[k] \in InFlight) => answer'[k] = "waiting"
    BY DEF AnswersDue, Spared
  <2>1. CASE k # m
    BY <1>2, <2>1 DEF AnswersDue, Effect, Only, Spared
  <2>2. CASE k = m
    BY <1>2, <2>2 DEF AnswersDue, Effect, Asked, Accepted, Refused, Kept, Ended, InFlight
  <2> QED
    BY <2>1, <2>2
<1> QED
  BY <1>1, <1>2, StepEffects

FateOf(m) == IF place[m] \in {"new", "calling"} THEN "new"
             ELSE IF place[m] = "dropped" THEN "refused"
             ELSE IF place[m] # "done" THEN "pending"
             ELSE IF sent[m] = 1 THEN "sent" ELSE "dead"

LEMMA FateValues ==
  /\ Fate = [m \in Spared |-> FateOf(m)]
  /\ Fate' = [m \in Spared |-> FateOf(m)']
BY DEF Fate, FateOf

(* One step of the promise, in terms of the pipeline. *)
LEMMA PromisedStep ==
  ASSUME PInv, AnswersDue, NEW m \in Msgs, Effect(m)
  PROVE  [Promised!Next]_(Promised!vars)
<1> DEFINE told == [k \in Spared |-> answer[k]]
<1> DEFINE told1 == [k \in Spared |-> answer'[k]]
<1>1. \A k \in Spared \ {m} : FateOf(k)' = FateOf(k) /\ answer'[k] = answer[k]
  BY DEF Effect, Only, Spared, FateOf
<1>2. CASE m \notin Spared
  <2>1. Fate' = Fate /\ told1 = told
    BY <1>1, <1>2, FateValues
  <2> QED
    BY <2>1 DEF Promised!vars
<1>3. CASE m \in Spared
  <2>1. ASSUME FateOf(m)' = FateOf(m), answer'[m] = answer[m]
        PROVE  [Promised!Next]_(Promised!vars)
    <3>1. Fate' = Fate /\ told1 = told
      BY <1>1, <2>1, FateValues
    <3> QED
      BY <3>1 DEF Promised!vars
  <2>2. CASE Asked(m)
    <3>1. Fate' = Fate
      BY <1>1, <1>3, <2>2, FateValues DEF Asked, FateOf
    <3>2. told1 = [told EXCEPT ![m] = "waiting"] /\ told[m] = "none"
      BY <1>1, <1>3, <2>2 DEF Asked, AnswersDue
    <3>3. Promised!Ask(m)
      BY <3>1, <3>2 DEF Promised!Ask
    <3> QED
      BY <1>3, <3>3 DEF Promised!Next
  <2>3. CASE Accepted(m)
    <3>1. Fate' = [Fate EXCEPT ![m] = "pending"] /\ Fate[m] = "new"
      BY <1>1, <1>3, <2>3, FateValues DEF Accepted, FateOf
    <3>2. /\ told1 = IF m \in Awaiting \ Cursed THEN told ELSE [told EXCEPT ![m] = "queued"]
          /\ told[m] = "waiting"
      BY <1>1, <1>3, <2>3 DEF Accepted, AnswersDue, Spared
    <3>3. Promised!Accept(m)
      BY <3>1, <3>2 DEF Promised!Accept
    <3> QED
      BY <1>3, <3>3 DEF Promised!Next
  <2>4. CASE Refused(m)
    <3>1. Fate' = [Fate EXCEPT ![m] = "refused"] /\ Fate[m] = "new"
      BY <1>1, <1>3, <2>4, FateValues DEF Refused, FateOf
    <3>2. /\ told1 = IF m \in Awaiting \ Cursed THEN told ELSE [told EXCEPT ![m] = "rejected"]
          /\ told[m] = "waiting"
      BY <1>1, <1>3, <2>4 DEF Refused, AnswersDue, Spared
    <3>3. Promised!Refuse(m)
      BY <3>1, <3>2 DEF Promised!Refuse
    <3> QED
      BY <1>3, <3>3 DEF Promised!Next
  <2>5. CASE Kept(m)
    BY <2>1, <2>5 DEF Kept, FateOf, InFlight
  <2>6. ASSUME NEW n, NEW outcome, NEW value, Ended(m, n, value),
               outcome = IF n = 1 THEN "sent" ELSE "dead"
        PROVE  Promised!Settle(m, outcome, value)
    <3>1. Fate' = [Fate EXCEPT ![m] = outcome] /\ Fate[m] = "pending"
      BY <1>1, <1>3, <2>6, FateValues DEF Ended, FateOf, InFlight
    <3>2. told1 = IF m \in Awaiting \ Cursed THEN [told EXCEPT ![m] = value] ELSE told
      BY <1>1, <1>3, <2>6 DEF Ended, AnswersDue, Spared
    <3> QED
      BY <3>1, <3>2 DEF Promised!Settle
  <2>7. CASE Ended(m, 1, "resolved")
    <3>1. Promised!Settle(m, "sent", "resolved")
      BY <2>6, <2>7
    <3> QED
      BY <1>3, <3>1 DEF Promised!Next, Promised!Send
  <2>8. CASE Ended(m, 0, "rejected")
    <3>1. Promised!Settle(m, "dead", "rejected")
      BY <2>6, <2>8
    <3> QED
      BY <1>3, <3>1 DEF Promised!Next, Promised!Bury
  <2> QED
    BY <1>3, <2>2, <2>3, <2>4, <2>5, <2>7, <2>8 DEF Effect
<1> QED
  BY <1>2, <1>3

(* The pipeline keeps the promise of EmailDelivery for every email whose    *)
(* events make no listener throw: it ends at most once, and a caller that   *)
(* awaits the result is told the outcome in the very step that decides it.  *)
THEOREM KeepsItsPromise == Spec => KeepsPromise
<1>1. Init => Promised!Init /\ AnswersDue
  BY DEF Init, Promised!Init, Fate, Spared, AnswersDue, InFlight
<1>2. PInv /\ AnswersDue /\ [Next]_vars => [Promised!Next]_(Promised!vars)
  <2>1. UNCHANGED <<place, answer, sent>> => UNCHANGED Promised!vars
    BY DEF Promised!vars, Fate
  <2> QED
    BY <2>1, StepEffects, PromisedStep
<1> QED
  BY <1>1, <1>2, AnswersStayDue, Invariant, PTL DEF Spec, KeepsPromise, Promised!Spec
=============================================================================
