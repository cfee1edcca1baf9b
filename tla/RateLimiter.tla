---------------------------- MODULE RateLimiter ----------------------------
(***************************************************************************)
(* The rate limiter of a provider (src/delivery/RateLimiter.ts), called by *)
(* the deliveries of several worker loops.  Tokens are reckoned only when  *)
(* a caller looks; callers for which there is none look again after        *)
(* PollTime, each on its own, and give up after Timeout.                   *)
(*                                                                         *)
(* Tokens are fractions in the code: here they are counted in units,       *)
(* TokenUnits to the token, so that any rational rate can be given.        *)
(* Rounding is left out, and the clock does not go backwards.              *)
(***************************************************************************)
EXTENDS Integers, FiniteSets

CONSTANTS Deliveries,     \* the deliveries that may wait at one time
          Rate,        \* tokensPerSecond, in units per tick
          TokenUnits,  \* the units of one token
          Capacity,    \* burstCapacity, in units
          PollTime,    \* the 20 ms between two looks, in ticks
          Timeout,     \* timeoutMs, in ticks
          Modes,       \* config.mode: "wait", "throw" or both to choose from
          MaxAge       \* bound on the recorded age of the last refill

ASSUME LimiterAssumption ==
  /\ Rate \in Nat \ {0} /\ TokenUnits \in Nat \ {0} /\ Capacity \in Nat
  /\ PollTime \in Nat \ {0} /\ Timeout \in Nat
  /\ Modes \subseteq {"wait", "throw"}
  /\ MaxAge \in Nat /\ Rate * MaxAge >= Capacity

VARIABLES
  mode,     \* config.mode
  tokens,   \* tokens
  age,      \* Date.now() - lastRefillTs
  state,    \* where each caller is, or how its last acquire() ended
  waited,   \* Date.now() - started, for a caller that waits
  sleep,    \* what is left of its setTimeout
  burst     \* history: the most units granted in any stretch of time up to
            \* now, less what flows in during that stretch

vars == <<mode, tokens, age, state, waited, sleep, burst>>

AtMost(a, b) == IF a < b THEN a ELSE b

Init == /\ mode \in Modes
        /\ tokens = Capacity
        /\ age = 0
        /\ state = [c \in Deliveries |-> "idle"]
        /\ waited = [c \in Deliveries |-> 0]
        /\ sleep = [c \in Deliveries |-> 0]
        /\ burst = 0

(* Mutant: the capacity does not bound what accrued. *)
RefilledUncapped == tokens + Rate * age

(* refill(): what tokens is after it *)
Refilled == AtMost(Capacity, tokens + Rate * age)

Grant(c) ==
  /\ Refilled >= TokenUnits
  /\ tokens' = Refilled - TokenUnits
  /\ age' = 0
  /\ state' = [state EXCEPT ![c] = "granted"]
  /\ burst' = burst + TokenUnits

(* Mutant: the time is noted, what accrued is not. *)
EmptyLosesTime ==
  /\ Refilled < TokenUnits
  /\ age' = 0
  /\ UNCHANGED <<tokens, burst>>

(* No token: refill() has noted the time all the same. *)
Empty ==
  /\ Refilled < TokenUnits
  /\ tokens' = Refilled
  /\ age' = 0
  /\ UNCHANGED burst

Refuse(c) ==
  /\ Empty
  /\ state' = [state EXCEPT ![c] = "refused"]

Sleep(c) ==
  /\ Empty
  /\ state' = [state EXCEPT ![c] = "waiting"]
  /\ sleep' = [sleep EXCEPT ![c] = PollTime]

(* acquire(), up to its first await *)
Acquire(c) ==
  /\ state[c] # "waiting"
  /\ waited' = [waited EXCEPT ![c] = 0]
  /\ \/ Grant(c) /\ UNCHANGED sleep
     \/ mode = "throw" /\ Refuse(c) /\ UNCHANGED sleep
     \/ mode = "wait" /\ Sleep(c)
  /\ UNCHANGED mode

(* Mutant: each look starts the wait anew. *)
LookRestarts(c) ==
  /\ state[c] = "waiting" /\ sleep[c] = 0
  /\ \/ Grant(c) /\ UNCHANGED sleep
     \/ Sleep(c)
  /\ waited' = [waited EXCEPT ![c] = 0]
  /\ UNCHANGED mode

(* The loop, when the timer has fired: the timeout counts only when there   *)
(* is no token.                                                             *)
Look(c) ==
  /\ state[c] = "waiting" /\ sleep[c] = 0
  /\ \/ Grant(c) /\ UNCHANGED sleep
     \/ waited[c] > Timeout /\ Refuse(c) /\ UNCHANGED sleep
     \/ waited[c] <= Timeout /\ Sleep(c)
  /\ UNCHANGED <<mode, waited>>

(* One tick of the clock.  Timers may fire late. *)
Tick ==
  /\ age' = AtMost(MaxAge, age + 1)
  /\ waited' = [c \in Deliveries |-> IF state[c] = "waiting"
                                    THEN AtMost(Timeout + 1, waited[c] + 1) ELSE 0]
  /\ sleep' = [c \in Deliveries |-> IF sleep[c] > 0 THEN sleep[c] - 1 ELSE 0]
  /\ burst' = IF burst > Rate THEN burst - Rate ELSE 0
  /\ UNCHANGED <<mode, tokens, state>>

Next == Tick \/ \E c \in Deliveries : Acquire(c) \/ Look(c)

Spec == Init /\ [][Next]_vars

(* Time passes, and the event loop runs every timer that is due. *)
FairSpec == Spec /\ WF_vars(Tick) /\ \A c \in Deliveries : WF_vars(Look(c))
-----------------------------------------------------------------------------
(* The bucket, the clocks and the callers stay in their domains; tokens do  *)
(* not go below zero.                                                       *)
TypeOK ==
  /\ mode \in Modes
  /\ tokens \in 0..Capacity
  /\ age \in 0..MaxAge
  /\ state \in [Deliveries -> {"idle", "waiting", "granted", "refused"}]
  /\ waited \in [Deliveries -> 0..(Timeout + 1)]
  /\ sleep \in [Deliveries -> 0..PollTime]
  /\ burst \in Nat

(* In any stretch of time, wherever it begins, the callers together are     *)
(* granted at most the burst capacity and what flows in meanwhile, however  *)
(* their polls fall and however long the limiter lay idle before.           *)
RateBounded == burst <= Capacity

Bucket == INSTANCE TokenBucket WITH level <- Refilled, Callers <- Deliveries

(* Reckoning tokens only when somebody looks, with each look resetting the  *)
(* time it reckons from, comes to the same as a bucket that fills           *)
(* continuously; and who is refused is refused while the bucket is empty.   *)
ImplementsTokenBucket == Bucket!Spec

(* A waiter is granted its token or refused, however many callers overtake  *)
(* it at each of its polls.                                                 *)
EveryWaiterEnds == \A c \in Deliveries : state[c] = "waiting" ~> state[c] # "waiting"
=============================================================================
