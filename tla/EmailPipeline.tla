--------------------------- MODULE EmailPipeline ---------------------------
(***************************************************************************)
(* From send() to the end of an email: EmailSDK.send (src/core/EmailSDK.ts)*)
(* puts a job in the queue, the worker loops (src/queue/QueueWorker.ts)    *)
(* take it out, deliver it, and either answer the caller, put the job back *)
(* for a retry, or move it to the dead letter queue; shutdown() stops the  *)
(* loops.                                                                  *)
(*                                                                         *)
(* Code between two awaits is one step.  A call of queue.enqueue() or      *)
(* queue.dequeue() and its effect are two, because the effect waits for    *)
(* the queue's mutex.  Time is abstracted: a retried job is "waiting"      *)
(* until some later step makes it "ready".  The order of the queue is too: *)
(* dequeue() returns some ready job, and null only when none is ready,     *)
(* which is ReadyNeverBlocked of EmailQueue.  deliver() is what            *)
(* DeliveryEngine shows it to be: it sends, fails for good, or asks for a  *)
(* retry with attempts left.                                               *)
(*                                                                         *)
(* Event listeners run inside emit(), so an exception of theirs reaches    *)
(* the code that emitted the event.  A promise rejected with nobody        *)
(* watching (a dead loop, a refused awaitResult job) is taken to leave the *)
(* process running.                                                        *)
(***************************************************************************)
EXTENDS Integers, FiniteSets

CONSTANTS Msgs,           \* the emails
          Awaiting,       \* those sent with { awaitResult: true }
          Loops,          \* the worker loops (concurrency)
          MaxSize,        \* queue.maxSize
          MaxAttempts,    \* retry.maxAttempts
          Cursed,         \* those whose events may make a listener throw
          NoMsg           \* not an email

ASSUME PipelineAssumption == /\ IsFiniteSet(Msgs)
                             /\ Awaiting \subseteq Msgs
                             /\ MaxSize \in Nat
                             /\ MaxAttempts \in Nat \ {0}
                             /\ Cursed \subseteq Msgs
                             /\ NoMsg \notin Msgs

VARIABLES
  place,     \* where the job of each email is
  attempts,  \* job.attempts
  answer,    \* the promise that send() returned
  loop,      \* where each worker loop is
  holds,     \* the job each worker loop is working on
  dlq,       \* how many entries each email has in the dead letter queue
  running,   \* QueueWorker.running
  shutdown,  \* where shutdown() is
  sent,      \* history: how often a provider accepted each email
  verdict,   \* history: the last decision of deliver() for each email
  sentEvents, failedEvents   \* history: the terminal events emitted for it

vars == <<place, attempts, answer, loop, holds, dlq, running, shutdown,
          sent, verdict, sentEvents, failedEvents>>
history == <<sent, verdict, sentEvents, failedEvents>>

Places == {"new", "calling", "waiting", "ready", "held", "done", "dropped"}

Queue == {m \in Msgs : place[m] \in {"waiting", "ready"}}
HasRoom == Cardinality(Queue) < MaxSize

(* Does a listener throw at an event of the email m?                        *)
Throwing(m) == IF m \in Cursed THEN BOOLEAN ELSE {FALSE}

Init == /\ place = [m \in Msgs |-> "new"]
        /\ attempts = [m \in Msgs |-> 0]
        /\ answer = [m \in Msgs |-> "none"]
        /\ loop = [w \in Loops |-> "dequeuing"]
        /\ holds = [w \in Loops |-> NoMsg]
        /\ dlq = [m \in Msgs |-> 0]
        /\ running = TRUE
        /\ shutdown = "no"
        /\ sent = [m \in Msgs |-> 0]
        /\ verdict = [m \in Msgs |-> "none"]
        /\ sentEvents = [m \in Msgs |-> 0]
        /\ failedEvents = [m \in Msgs |-> 0]
-----------------------------------------------------------------------------
(* send(), up to the effect of enqueue.  With awaitResult the queued event  *)
(* is emitted before that, inside the promise's executor, so that a throwing*)
(* listener rejects the promise; the job goes on to the queue all the same. *)
Send(m, throws) ==
  /\ place[m] = "new"
  /\ throws => m \in Awaiting
  /\ place' = [place EXCEPT ![m] = "calling"]
  /\ answer' = [answer EXCEPT ![m] = IF throws THEN "rejected" ELSE "waiting"]
  /\ UNCHANGED <<attempts, loop, holds, dlq, running, shutdown, history>>

(* Mutant: with awaitResult the promise is resolved as soon as the job is   *)
(* queued.                                                                  *)
EnqueueAnswersAll(m, throws) ==
  /\ place[m] = "calling"
  /\ HasRoom
  /\ place' = [place EXCEPT ![m] = "ready"]
  /\ answer' = [answer EXCEPT ![m] = IF throws THEN "rejected" ELSE "queued"]
  /\ UNCHANGED <<attempts, loop, holds, dlq, running, shutdown, history>>

(* enqueue() of a new job finds room.  Without awaitResult the queued event *)
(* is emitted and send() resolves before any loop can have sent the job, or *)
(* rejects if a listener throws.                                            *)
Enqueue(m, throws) ==
  /\ place[m] = "calling"
  /\ HasRoom
  /\ throws => m \notin Awaiting
  /\ place' = [place EXCEPT ![m] = "ready"]
  /\ answer' = IF m \in Awaiting THEN answer
               ELSE [answer EXCEPT ![m] = IF throws THEN "rejected" ELSE "queued"]
  /\ UNCHANGED <<attempts, loop, holds, dlq, running, shutdown, history>>

(* enqueue() throws QueueFullError.  With awaitResult nobody handles it:    *)
(* the job is gone and its promise stays as it is.                          *)
EnqueueFull(m) ==
  /\ place[m] = "calling"
  /\ ~HasRoom
  /\ place' = [place EXCEPT ![m] = "dropped"]
  /\ answer' = IF m \in Awaiting THEN answer ELSE [answer EXCEPT ![m] = "rejected"]
  /\ UNCHANGED <<attempts, loop, holds, dlq, running, shutdown, history>>

(* nextRetryAt of a queued job passes *)
Ripen(m) ==
  /\ place[m] = "waiting"
  /\ place' = [place EXCEPT ![m] = "ready"]
  /\ UNCHANGED <<attempts, answer, loop, holds, dlq, running, shutdown, history>>
-----------------------------------------------------------------------------
(* Mutant: the loop does not look at running. *)
LoopHeadAlways == "dequeuing"

(* while (this.running), evaluated in the turn that ends an iteration *)
LoopHead == IF running THEN "dequeuing" ELSE "stopped"

(* The loop w is done with its job. *)
EndIteration(w, pc) ==
  /\ loop' = [loop EXCEPT ![w] = pc]
  /\ holds' = [holds EXCEPT ![w] = NoMsg]
  /\ UNCHANGED <<running, shutdown>>

(* The first settlement of a promise counts; without awaitResult a job      *)
(* carries no resolve and reject.                                           *)
Settled(m, value) ==
  IF m \in Awaiting /\ answer[m] = "waiting"
    THEN [answer EXCEPT ![m] = value] ELSE answer

(* Mutant: dequeue() returns the job and leaves it in the queue. *)
DequeuePeeks(w) ==
  /\ loop[w] = "dequeuing"
  /\ \/ \E m \in Msgs :
          /\ place[m] = "ready"
          /\ loop' = [loop EXCEPT ![w] = "delivering"]
          /\ holds' = [holds EXCEPT ![w] = m]
     \/ /\ \A m \in Msgs : place[m] # "ready"
        /\ loop' = [loop EXCEPT ![w] = "sleeping"]
        /\ UNCHANGED holds
  /\ UNCHANGED <<place, attempts, answer, dlq, running, shutdown, history>>

(* dequeue() by loop w: a ready job, or null and a sleep *)
Dequeue(w) ==
  /\ loop[w] = "dequeuing"
  /\ \/ \E m \in Msgs :
          /\ place[m] = "ready"
          /\ place' = [place EXCEPT ![m] = "held"]
          /\ loop' = [loop EXCEPT ![w] = "delivering"]
          /\ holds' = [holds EXCEPT ![w] = m]
     \/ /\ \A m \in Msgs : place[m] # "ready"
        /\ loop' = [loop EXCEPT ![w] = "sleeping"]
        /\ UNCHANGED <<place, holds>>
  /\ UNCHANGED <<attempts, answer, dlq, running, shutdown, history>>

Wake(w) ==
  /\ loop[w] = "sleeping"
  /\ loop' = [loop EXCEPT ![w] = LoopHead]
  /\ UNCHANGED <<place, attempts, answer, holds, dlq, running, shutdown, history>>

(* The catch block, for a job that already has the given number of entries  *)
(* in the dead letter queue (and as many failed events).  If emitFailed     *)
(* throws here the loop itself ends, with a rejected promise.               *)
Catch(w, entries, throws) ==
  LET m == holds[w]
  IN  /\ place' = [place EXCEPT ![m] = "done"]
      /\ dlq' = [dlq EXCEPT ![m] = entries + 1]
      /\ failedEvents' = [failedEvents EXCEPT ![m] = entries + 1]
      /\ answer' = IF throws THEN answer ELSE Settled(m, "rejected")
      /\ EndIteration(w, IF throws THEN "dead" ELSE LoopHead)

(* deliver() decides "sent": emitSent, onProcessed (which does nothing),    *)
(* resolve.  If a listener throws the job takes the way of a failed one.    *)
DeliverSent(w, throws, throwsAgain) ==
  LET m == holds[w]
  IN  /\ loop[w] = "delivering"
      /\ throwsAgain => throws
      /\ sent' = [sent EXCEPT ![m] = @ + 1]
      /\ verdict' = [verdict EXCEPT ![m] = "sent"]
      /\ sentEvents' = [sentEvents EXCEPT ![m] = @ + 1]
      /\ IF throws
           THEN Catch(w, 0, throwsAgain)
           ELSE /\ place' = [place EXCEPT ![m] = "done"]
                /\ answer' = Settled(m, "resolved")
                /\ EndIteration(w, LoopHead)
                /\ UNCHANGED <<dlq, failedEvents>>
      /\ UNCHANGED attempts

(* deliver() decides "failed": the dead letter queue, emitFailed, reject.   *)
(* If a listener throws, the catch block does all of it once more.          *)
DeliverFailed(w, throws, throwsAgain) ==
  LET m == holds[w]
  IN  /\ loop[w] = "delivering"
      /\ throwsAgain => throws
      /\ attempts' = [attempts EXCEPT ![m] = @ + 1]
      /\ verdict' = [verdict EXCEPT ![m] = "failed"]
      /\ IF throws
           THEN Catch(w, 1, throwsAgain)
           ELSE Catch(w, 0, FALSE)
      /\ UNCHANGED <<sent, sentEvents>>

(* Mutant: the loop forgets to count the attempt. *)
DeliverRetryUncounted(w) ==
  LET m == holds[w]
  IN  /\ loop[w] = "delivering"
      /\ attempts[m] + 1 < MaxAttempts
      /\ verdict' = [verdict EXCEPT ![m] = "retry"]
      /\ loop' = [loop EXCEPT ![w] = "requeuing"]
      /\ UNCHANGED <<attempts, place, answer, holds, dlq, running, shutdown, sent,
                     sentEvents, failedEvents>>

(* Mutant: a retry with no attempt left. *)
DeliverRetryOffByOne(w) ==
  LET m == holds[w]
  IN  /\ loop[w] = "delivering"
      /\ attempts[m] + 1 <= MaxAttempts
      /\ attempts' = [attempts EXCEPT ![m] = @ + 1]
      /\ verdict' = [verdict EXCEPT ![m] = "retry"]
      /\ loop' = [loop EXCEPT ![w] = "requeuing"]
      /\ UNCHANGED <<place, answer, holds, dlq, running, shutdown, sent,
                     sentEvents, failedEvents>>

(* deliver() decides "retry", which it does only with attempts left: the    *)
(* loop counts the attempt and calls enqueue.                               *)
DeliverRetry(w) ==
  LET m == holds[w]
  IN  /\ loop[w] = "delivering"
      /\ attempts[m] + 1 < MaxAttempts
      /\ attempts' = [attempts EXCEPT ![m] = @ + 1]
      /\ verdict' = [verdict EXCEPT ![m] = "retry"]
      /\ loop' = [loop EXCEPT ![w] = "requeuing"]
      /\ UNCHANGED <<place, answer, holds, dlq, running, shutdown, sent,
                     sentEvents, failedEvents>>

(* deliver() would decide "retry" but a listener of emitRetrying throws. *)
DeliverThrows(w, throwsAgain) ==
  /\ loop[w] = "delivering"
  /\ holds[w] \in Cursed
  /\ attempts[holds[w]] + 1 < MaxAttempts
  /\ Catch(w, 0, throwsAgain)
  /\ UNCHANGED <<attempts, sent, verdict, sentEvents>>

(* Mutant: a retry that finds the queue full is forgotten. *)
RequeueForgets(w, throws) ==
  LET m == holds[w]
  IN  /\ loop[w] = "requeuing"
      /\ ~throws
      /\ place' = [place EXCEPT ![m] = IF HasRoom THEN "waiting" ELSE "done"]
      /\ EndIteration(w, LoopHead)
      /\ UNCHANGED <<answer, dlq, failedEvents>>
      /\ UNCHANGED <<attempts, sent, verdict, sentEvents>>

(* enqueue() of a retried job; QueueFullError goes to the catch block. *)
Requeue(w, throws) ==
  LET m == holds[w]
  IN  /\ loop[w] = "requeuing"
      /\ IF HasRoom
           THEN /\ ~throws
                /\ place' = [place EXCEPT ![m] = "waiting"]
                /\ EndIteration(w, LoopHead)
                /\ UNCHANGED <<answer, dlq, failedEvents>>
           ELSE Catch(w, 0, throws)
      /\ UNCHANGED <<attempts, sent, verdict, sentEvents>>
-----------------------------------------------------------------------------
(* shutdown(), up to its first await *)
Stop ==
  /\ shutdown = "no"
  /\ running' = FALSE
  /\ shutdown' = "stopping"
  /\ UNCHANGED <<place, attempts, answer, loop, holds, dlq, history>>

(* Mutant: stop() does not wait for the loops. *)
StopReturnsEarly ==
  /\ shutdown = "stopping"
  /\ shutdown' = "done"
  /\ UNCHANGED <<place, attempts, answer, loop, holds, dlq, running, history>>

(* Promise.all(loops) and Promise.allSettled(inFlight) resolve *)
StopReturns ==
  /\ shutdown = "stopping"
  /\ \A w \in Loops : loop[w] = "stopped"
  /\ shutdown' = "done"
  /\ UNCHANGED <<place, attempts, answer, loop, holds, dlq, running, history>>

(* Promise.all(loops) rejects as soon as one loop has died *)
StopThrows ==
  /\ shutdown = "stopping"
  /\ \E w \in Loops : loop[w] = "dead"
  /\ shutdown' = "failed"
  /\ UNCHANGED <<place, attempts, answer, loop, holds, dlq, running, history>>
-----------------------------------------------------------------------------
Enter(m) == EnqueueFull(m) \/ \E t \in Throwing(m) : Enqueue(m, t)

Deliver(w) ==
  \/ DeliverRetry(w)
  \/ \E t \in Throwing(holds[w]) :
       \/ DeliverThrows(w, t)
       \/ \E u \in Throwing(holds[w]) : DeliverSent(w, t, u) \/ DeliverFailed(w, t, u)

Put(w) == \E t \in Throwing(holds[w]) : Requeue(w, t)

Next == \/ \E m \in Msgs : \/ \E t \in Throwing(m) : Send(m, t)
                           \/ Enter(m)
                           \/ Ripen(m)
        \/ \E w \in Loops : Dequeue(w) \/ Wake(w) \/ Deliver(w) \/ Put(w)
        \/ Stop \/ StopReturns \/ StopThrows

Spec == Init /\ [][Next]_vars

(* The event loop runs every continuation that is due, timers fire, the     *)
(* mutex is handed on in turn, and deliver() settles (DeliveryEnds).        *)
(* Nothing obliges anybody to call send() or shutdown().                    *)
Fairness == /\ \A m \in Msgs : WF_vars(Enter(m)) /\ WF_vars(Ripen(m))
            /\ \A w \in Loops : /\ WF_vars(Dequeue(w)) /\ WF_vars(Wake(w))
                                /\ WF_vars(Deliver(w)) /\ WF_vars(Put(w))
            /\ WF_vars(StopReturns) /\ WF_vars(StopThrows)

FairSpec == Spec /\ Fairness
-----------------------------------------------------------------------------
(* The jobs, the loops and the promises stay in their domains. *)
TypeOK ==
  /\ place \in [Msgs -> Places]
  /\ attempts \in [Msgs -> 0..MaxAttempts]
  /\ answer \in [Msgs -> {"none", "waiting", "queued", "resolved", "rejected"}]
  /\ loop \in [Loops -> {"dequeuing", "sleeping", "delivering", "requeuing",
                         "stopped", "dead"}]
  /\ holds \in [Loops -> Msgs \cup {NoMsg}]
  /\ dlq \in [Msgs -> 0..2]
  /\ running \in BOOLEAN
  /\ shutdown \in {"no", "stopping", "done", "failed"}
  /\ sent \in [Msgs -> 0..1]
  /\ verdict \in [Msgs -> {"none", "sent", "retry", "failed"}]
  /\ sentEvents \in [Msgs -> 0..1]
  /\ failedEvents \in [Msgs -> 0..2]

(* Every job taken from the queue is in the hands of exactly one loop, a    *)
(* loop that is still alive, and no loop works on a job that is elsewhere:  *)
(* two loops never deliver the same email, and stopping or dying loops      *)
(* leave none behind.                                                       *)
HeldByOneLoop ==
  /\ \A m \in Msgs : place[m] = "held" => \E w \in Loops : holds[w] = m
  /\ \A w \in Loops : holds[w] # NoMsg =>
       /\ place[holds[w]] = "held"
       /\ loop[w] \in {"delivering", "requeuing"}
       /\ \A v \in Loops \ {w} : holds[v] # holds[w]

(* A job that left the pipeline was accepted by a provider, once, or is in  *)
(* the dead letter queue; one that is still in it, or never got into it, is     *)
(* neither.  Where no listener throws it is exactly one of them.  The events *)
(* and the entries agree in any case.                                       *)
NothingLost ==
  \A m \in Msgs :
    IF place[m] = "done"
      THEN /\ sent[m] + dlq[m] >= 1 /\ sent[m] <= 1
           /\ m \notin Cursed => sent[m] + dlq[m] = 1
           /\ sentEvents[m] = sent[m] /\ failedEvents[m] = dlq[m]
      ELSE sent[m] + dlq[m] + sentEvents[m] + failedEvents[m] = 0

(* The queue never holds more than maxSize jobs, although new jobs and      *)
(* retries decide at different moments to go in.                            *)
QueueBounded == Cardinality(Queue) <= MaxSize

(* A retried job has attempts left for the delivery it waits for, and an    *)
(* email is attempted at most maxAttempts times.                            *)
AttemptsLeft ==
  \A m \in Msgs :
    place[m] \in {"waiting", "ready", "held"} =>
      /\ attempts[m] < MaxAttempts
      /\ (verdict[m] = "retry") <=> (attempts[m] > 0)

(* shutdown() waits for the loops: when it has resolved no loop runs any    *)
(* more and no email is left half delivered.                                *)
ShutdownClean ==
  shutdown = "done" => /\ \A w \in Loops : loop[w] = "stopped"
                       /\ \A m \in Msgs : place[m] # "held"

(* The pipeline as the callers of the other emails see it. *)
Spared == Msgs \ Cursed

Fate ==
  [m \in Spared |-> IF place[m] \in {"new", "calling"} THEN "new"
                    ELSE IF place[m] = "dropped" THEN "refused"
                    ELSE IF place[m] # "done" THEN "pending"
                    ELSE IF sent[m] = 1 THEN "sent" ELSE "dead"]

Promised == INSTANCE EmailDelivery WITH
              Msgs <- Spared, Awaiting <- Awaiting \ Cursed, fate <- Fate,
              answer <- [m \in Spared |-> answer[m]]

(* The pipeline keeps the promise of EmailDelivery for every email whose    *)
(* events make no listener throw, whatever the listeners do at the events   *)
(* of others, and the loops that die of it: accepted emails end once, and   *)
(* awaiting callers are told the outcome in the step that decides it.       *)
KeepsPromise == Promised!Spec

(* Every email in the queue ends, unless the SDK is shut down or listeners  *)
(* have killed every loop: it is not passed over, held or retried forever.  *)
EveryEmailEnds ==
  \A m \in Msgs : place[m] \in {"waiting", "ready", "held"} ~>
                    \/ place[m] = "done" \/ shutdown # "no"
                    \/ \A w \in Loops : loop[w] = "dead"

(* shutdown() always returns, whatever the loops are doing. *)
ShutdownReturns == shutdown = "stopping" ~> shutdown \in {"done", "failed"}

(* "Throw QueueFullError (Back-pressure)"  (docs/uml_diagrams.md, A5)  A    *)
(* caller whose email the full queue refused is told so.                    *)
RefusedCallersTold == \A m \in Msgs : place[m] = "dropped" => answer[m] = "rejected"
=============================================================================
