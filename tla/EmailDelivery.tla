--------------------------- MODULE EmailDelivery ---------------------------
(***************************************************************************)
(* What the SDK promises about an email, without queue, workers, retries   *)
(* or shutdown: an email that send() accepts ends either sent or dead (in  *)
(* the dead letter queue), once and for good, and a caller that waits for  *)
(* the result is told that very outcome at that moment.                    *)
(***************************************************************************)
CONSTANTS Msgs,      \* the emails
          Awaiting   \* those sent with { awaitResult: true }

VARIABLES
  fate,     \* what became of each email
  answer    \* what the promise of send() says for each

vars == <<fate, answer>>

Init == /\ fate = [m \in Msgs |-> "new"]
        /\ answer = [m \in Msgs |-> "none"]

(* send() is called and has not answered yet. *)
Ask(m) ==
  /\ answer[m] = "none"
  /\ answer' = [answer EXCEPT ![m] = "waiting"]
  /\ UNCHANGED fate

Accept(m) ==
  /\ fate[m] = "new" /\ answer[m] = "waiting"
  /\ fate' = [fate EXCEPT ![m] = "pending"]
  /\ answer' = IF m \in Awaiting THEN answer ELSE [answer EXCEPT ![m] = "queued"]

(* Back-pressure.  Nothing is promised to a caller that awaits the result. *)
Refuse(m) ==
  /\ fate[m] = "new" /\ answer[m] = "waiting"
  /\ fate' = [fate EXCEPT ![m] = "refused"]
  /\ answer' = IF m \in Awaiting THEN answer ELSE [answer EXCEPT ![m] = "rejected"]

Settle(m, outcome, told) ==
  /\ fate[m] = "pending"
  /\ fate' = [fate EXCEPT ![m] = outcome]
  /\ answer' = IF m \in Awaiting THEN [answer EXCEPT ![m] = told] ELSE answer

Send(m) == Settle(m, "sent", "resolved")
Bury(m) == Settle(m, "dead", "rejected")

Next == \E m \in Msgs : Ask(m) \/ Accept(m) \/ Refuse(m) \/ Send(m) \/ Bury(m)

Spec == Init /\ [][Next]_vars
=============================================================================
