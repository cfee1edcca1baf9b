------------------------------ MODULE EmailSDK ------------------------------
(***************************************************************************)
(* sendBulk() and getStats() of src/core/EmailSDK.ts, above a pipeline     *)
(* that does what EmailDelivery says, which is what EmailPipeline shows of *)
(* the queue and its worker loops.                                         *)
(*                                                                         *)
(* sendBulk() runs min(bulkConcurrency, n) senders that share the index of *)
(* the next payload; each awaits send(payload, { awaitResult: true }) and  *)
(* takes the next.  Promise.all() settles with the first sender that       *)
(* rejects, and the others go on.  Other callers send emails meanwhile,    *)
(* and MetricsCollector listens to the events of all of them.              *)
(*                                                                         *)
(* A step is the code between two awaits, so sendBulk() starts all of its  *)
(* senders in one.  send() throws a TemplateError when the template of its *)
(* payload cannot be rendered with its data.  Listeners do not throw.      *)
(* Once shutdown() has been called, nothing need become of an email the    *)
(* queue holds or still accepts.                                           *)
(***************************************************************************)
EXTENDS MetricsCollector

CONSTANTS N,                \* the payloads of the call of sendBulk() are 1..N
          BulkConcurrency,  \* EmailSDK.bulkConcurrency
          Others,           \* the emails other callers send, awaiting no result
          Providers,        \* provider names in events, "unknown" included
          MaxClock          \* bound: the clock stops here

ASSUME SDKAssumption == /\ N \in Nat
                        /\ BulkConcurrency \in Nat \ {0}
                        /\ Others \cap (1..N) = {} /\ IsFiniteSet(Others)
                        /\ MaxClock \in Nat

VARIABLES
  bulk,         \* where the call of sendBulk() is
  idx,          \* how many payloads the senders have taken
  at,           \* the payload each sender awaits, 0 when it awaits none
  died,         \* the senders that ended with a rejection
  results,      \* which email's result is at each place of the array, or 0
  fate, answer, \* the emails and the promises of send(), as in EmailDelivery
  returning,    \* the emails of Others whose send() has yet to resume from enqueue()
  stopped,      \* shutdown() has been called
  now,          \* the clock
  totalQueued, points,   \* MetricsCollector
  handed,       \* history: how often each payload was handed to send()
  log           \* history: every point ever recorded

calls == <<bulk, idx, at, died, results, handed>>
metrics == <<totalQueued, points, log>>
emails == <<fate, answer, returning, stopped>>
vars == <<calls, emails, now, metrics>>

Payloads == 1..N
Msgs == Payloads \cup Others
Awaiting == Payloads

Pipeline == INSTANCE EmailDelivery

Senders == 1..(IF BulkConcurrency < N THEN BulkConcurrency ELSE N)

Init == /\ bulk = "no" /\ idx = 0
        /\ at = [s \in Senders |-> 0] /\ died = {}
        /\ results = [i \in Payloads |-> 0]
        /\ handed = [i \in Payloads |-> 0]
        /\ Pipeline!Init
        /\ returning = {} /\ stopped = FALSE
        /\ now = 0
        /\ totalQueued = 0 /\ points = <<>> /\ log = <<>>
-----------------------------------------------------------------------------
(* send() of the payloads taken, of which the bad cannot be rendered.  The  *)
(* queued event is emitted before enqueue() has had its effect.             *)
HandOver(taken, bad) ==
  /\ answer' = [m \in Msgs |-> IF m \in bad THEN "rejected"
                               ELSE IF m \in taken THEN "waiting" ELSE answer[m]]
  /\ handed' = [i \in Payloads |-> IF i \in taken THEN handed[i] + 1 ELSE handed[i]]
  /\ totalQueued' = totalQueued + Cardinality(taken \ bad)
  /\ UNCHANGED <<fate, returning, points, log>>

(* sendBulk(): every sender takes its first payload. *)
SendBulk ==
  /\ bulk = "no"
  /\ bulk' = "running"
  /\ idx' = Cardinality(Senders)
  /\ at' = [s \in Senders |-> s]
  /\ \E bad \in SUBSET Senders : HandOver(Senders, bad)
  /\ UNCHANGED <<died, results, stopped, now>>

(* Mutant: results are put in the array in the order they arrive. *)
StoreInTurn(i) ==
  LET free == {k \in Payloads : results[k] = 0}
  IN  results' = [results EXCEPT ![CHOOSE k \in free : \A j \in free : k <= j] = i]

(* results[current] = res *)
Store(i) == results' = [results EXCEPT ![i] = i]

(* while (more), for the sender s: one more payload, or the end of it. *)
TakeWhile(more, s) ==
  IF more
    THEN /\ idx' = idx + 1
         /\ at' = [at EXCEPT ![s] = idx + 1]
         /\ \E bad \in SUBSET {idx + 1} : HandOver({idx + 1}, bad)
    ELSE /\ at' = [at EXCEPT ![s] = 0]
         /\ UNCHANGED <<idx, handed, fate, answer, returning, metrics>>

(* Mutant: the senders finish when the call has been rejected, but take no *)
(* further payload.                                                        *)
TakeUnlessRejected(s) == TakeWhile(idx < N /\ bulk = "running", s)

Take(s) == TakeWhile(idx < N, s)

(* The send() that the sender s awaits has resolved. *)
Resume(s) ==
  /\ at[s] # 0 /\ answer[at[s]] = "resolved"
  /\ Store(at[s])
  /\ Take(s)
  /\ UNCHANGED <<bulk, died, stopped, now>>

(* Mutant: the rejection stays with the sender. *)
FailUnheard(s) ==
  /\ at[s] # 0 /\ answer[at[s]] = "rejected"
  /\ at' = [at EXCEPT ![s] = 0]
  /\ died' = died \cup {s}
  /\ UNCHANGED <<bulk, idx, results, handed, emails, now, metrics>>

(* It has rejected: the sender ends, and with the first that does so the    *)
(* promise of sendBulk().                                                   *)
Fail(s) ==
  /\ at[s] # 0 /\ answer[at[s]] = "rejected"
  /\ at' = [at EXCEPT ![s] = 0]
  /\ died' = died \cup {s}
  /\ bulk' = "rejected"
  /\ UNCHANGED <<idx, results, handed, emails, now, metrics>>

(* Promise.all() resolves. *)
Return ==
  /\ bulk = "running"
  /\ died = {}
  /\ \A s \in Senders : at[s] = 0
  /\ bulk' = "resolved"
  /\ UNCHANGED <<idx, at, died, results, handed, emails, now, metrics>>
-----------------------------------------------------------------------------
(* send() by another caller. *)
SendOther(m) == Pipeline!Ask(m) /\ UNCHANGED <<calls, returning, stopped, now, metrics>>

(* The queue takes the email in, or does not. *)
Accept(m) ==
  /\ Pipeline!Accept(m)
  /\ returning' = IF m \in Awaiting THEN returning ELSE returning \cup {m}
  /\ UNCHANGED <<calls, stopped, now, metrics>>

Refuse(m) ==
  /\ Pipeline!Refuse(m)
  /\ UNCHANGED <<calls, returning, stopped, now, metrics>>

(* A send() that awaits no result resumes from enqueue(), some turns after  *)
(* its email is in the queue, and emits email.queued.  How many turns, and  *)
(* what comes in between, is left open.                                     *)
Queued(m) ==
  /\ m \in returning
  /\ returning' = returning \ {m}
  /\ totalQueued' = totalQueued + 1
  /\ UNCHANGED <<calls, fate, answer, stopped, now, points, log>>

(* shutdown(): the worker loops take no further email.  The deliveries in   *)
(* flight end, and enqueue() goes on accepting.                             *)
Shutdown ==
  /\ stopped' = TRUE
  /\ UNCHANGED <<calls, fate, answer, returning, now, metrics>>

(* email.sent or email.failed, and the answer to the caller, in one turn;   *)
(* the failed event of a worker's catch block names no provider.            *)
Record(provider, success) ==
  /\ points' = Recorded(points, now, provider, success)
  /\ log' = Append(log, Point(now, provider, success))
  /\ UNCHANGED <<calls, returning, stopped, now, totalQueued>>

Sent(m) == Pipeline!Send(m) /\ \E p \in Providers \ {"unknown"} : Record(p, TRUE)

Failed(m) == Pipeline!Bury(m) /\ \E p \in Providers : Record(p, FALSE)

End(m) == Sent(m) \/ Failed(m)

(* getStats() leaves the points compacted. *)
GetStats ==
  /\ points' = Compacted(points, now)
  /\ UNCHANGED <<calls, emails, now, totalQueued, log>>

Tick ==
  /\ now < MaxClock
  /\ now' = now + 1
  /\ UNCHANGED <<calls, emails, metrics>>

Next == \/ SendBulk \/ Return
        \/ \E s \in Senders : Resume(s) \/ Fail(s)
        \/ \E m \in Others : SendOther(m) \/ Queued(m)
        \/ \E m \in Msgs : Accept(m) \/ Refuse(m) \/ End(m)
        \/ Shutdown \/ GetStats \/ Tick

Spec == Init /\ [][Next]_vars

(* Continuations run when their promise has settled, and until it is shut   *)
(* down the pipeline gets every accepted email to its end (EveryEmailEnds   *)
(* of EmailPipeline, where the worker loops may all die as well: this       *)
(* module has no listeners that throw, and so no loop that dies).  After    *)
(* that nothing is assumed, not even of the deliveries then in flight.      *)
Fairness == /\ \A m \in Msgs : /\ WF_vars(Accept(m) \/ Refuse(m))
                               /\ WF_vars(~stopped /\ End(m))
                               /\ WF_vars(Queued(m))
            /\ \A s \in Senders : WF_vars(Resume(s) \/ Fail(s))
            /\ WF_vars(Return)

FairSpec == Spec /\ Fairness
-----------------------------------------------------------------------------
(* "returns results in input order" (USER.md, "Bulk send"): a call that     *)
(* resolves has handed each payload to send() once, although its senders    *)
(* share one index; every one of them was sent, and its result is in its    *)
(* place, in whatever order they ended.                                     *)
BulkResultsTrue ==
  /\ \A i \in Payloads : handed[i] = IF i <= idx THEN 1 ELSE 0
  /\ bulk = "resolved" => \A i \in Payloads : fate[i] = "sent" /\ results[i] = i

(* The promise of an awaited email never settles when the queue refused it, *)
(* nor when shutdown() left it in the queue.                                *)
Unanswered(i) == fate[i] = "refused" \/ (stopped /\ fate[i] = "pending")

(* sendBulk() answers, unless in the end each of its senders has finished   *)
(* or waits for an email whose promise never settles, and one does wait:    *)
(* back-pressure and shutdown() are the only ways for it to hang.           *)
BulkAnswers ==
  <>[](bulk = "running") =>
    <>[]( /\ \E s \in Senders : at[s] # 0
          /\ \A s \in Senders : at[s] # 0 => Unanswered(at[s]))

(* A rejected call goes on sending behind the back of its caller: a failure *)
(* costs the senders one of their number, and a payload stays behind only   *)
(* when each of them has died of a failure of its own or waits for an email *)
(* whose promise never settles.                                             *)
PayloadsTaken ==
  <>(bulk # "no") =>
    <>[](\/ idx = N
         \/ \A s \in Senders : s \in died \/ (at[s] # 0 /\ Unanswered(at[s])))

(* The emails whose email.queued has been emitted: when somebody awaits the *)
(* result, as they are handed to enqueue(), whether or not the queue takes  *)
(* them in later; otherwise when send() has resumed after it has.           *)
Announced ==
  {m \in Msgs \ returning : \/ fate[m] \in {"pending", "sent", "dead"}
                           \/ (m \in Awaiting /\ answer[m] = "waiting")}

(* What getStats() would return now: for each provider it counts exactly    *)
(* the events not older than the retention time, although points are        *)
(* dropped at other times, by other calls; and totalQueued lags behind the  *)
(* emails accepted by those whose send() has not resumed, and runs ahead of *)
(* them by the awaited ones that were refused or are still to be taken in:  *)
(* it is not the "Total emails queued" of SDKStats.ts.                      *)
StatsCountEvents ==
  /\ \A p \in Providers, s \in BOOLEAN :
       Count(Compacted(points, now), p, s) =
         Cardinality({i \in DOMAIN log : /\ log[i].ts >= now - Retention
                                         /\ log[i].provider = p /\ log[i].success = s})
  /\ totalQueued = Cardinality(Announced)
=============================================================================
