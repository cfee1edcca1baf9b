--------------------------- MODULE EmailSDKProofs ---------------------------
(***************************************************************************)
(* Proofs about sendBulk() and getStats() in EmailSDK, for any number of   *)
(* payloads and of senders, with any other callers.                        *)
(***************************************************************************)
EXTENDS EmailSDK, FiniteSetTheorems, TLAPS

USE SDKAssumption DEF SDKAssumption

CallTypeOK ==
  /\ bulk \in {"no", "running", "resolved", "rejected"}
  /\ idx \in 0..N
  /\ at \in [Senders -> 0..N]
  /\ died \subseteq Senders
  /\ results \in [Payloads -> 0..N]
  /\ handed \in [Payloads -> Nat]
  /\ DOMAIN fate = Msgs /\ DOMAIN answer = Msgs

(* Payload i is done: sent, and its result in its place. *)
Done(i) == results[i] = i /\ fate[i] = "sent"

(* Payloads are taken in order, once each. *)
TakenInTurn == \A i \in Payloads : handed[i] = IF i <= idx THEN 1 ELSE 0

(* Before the call there is nothing, and after it nobody waits. *)
Bounds ==
  /\ bulk = "no" => idx = 0 /\ died = {}
  /\ bulk \in {"no", "resolved"} => \A s \in Senders : at[s] = 0
  /\ bulk = "resolved" => died = {}

(* As long as no sender has died, what has been taken is done or awaited. *)
NoneDropped ==
  died = {} => \A i \in Payloads : i <= idx => Done(i) \/ \E s \in Senders : at[s] = i

(* A sender that has come to its end has found the payloads all taken. *)
AllTakenAtEnd ==
  bulk # "no" => \A s \in Senders : at[s] = 0 => s \in died \/ idx = N

(* A promise of send() resolves for an email that was sent. *)
ResolvedIsSent == \A i \in Payloads : answer[i] = "resolved" => fate[i] = "sent"

(* Promise.all() resolves when everything is done. *)
ResolvedIsDone == bulk = "resolved" => \A i \in Payloads : Done(i)

IInv == /\ CallTypeOK /\ TakenInTurn /\ Bounds /\ NoneDropped
        /\ AllTakenAtEnd /\ ResolvedIsSent /\ ResolvedIsDone

LEMMA SendersFacts ==
  /\ Senders \subseteq Payloads
  /\ Cardinality(Senders) \in 0..N
  /\ \A i \in Payloads : i \in Senders <=> i <= Cardinality(Senders)
  /\ N # 0 => Senders # {}
<1> DEFINE n == IF BulkConcurrency < N THEN BulkConcurrency ELSE N
<1>1. n \in 0..N /\ (N # 0 => n >= 1)
  OBVIOUS
<1>2. Cardinality(1..n) = n
  BY <1>1, FS_Interval
<1>3. Senders = 1..n
  BY DEF Senders
<1> HIDE DEF n
<1> QED
  BY <1>1, <1>2, <1>3 DEF Payloads

LEMMA InitInv == Init => IInv
BY DEF Init, IInv, CallTypeOK, TakenInTurn, Bounds, NoneDropped, AllTakenAtEnd,
       ResolvedIsSent, ResolvedIsDone, Done, Pipeline!Init, Msgs, Payloads
-----------------------------------------------------------------------------
(* What the pipeline does leaves what was sent as it is. *)
LEMMA PipelineSteps ==
  ASSUME CallTypeOK, ResolvedIsSent, NEW m \in Msgs,
         \/ Pipeline!Ask(m) \/ Pipeline!Accept(m) \/ Pipeline!Refuse(m)
         \/ Pipeline!Send(m) \/ Pipeline!Bury(m)
  PROVE  /\ \A i \in Payloads : fate[i] = "sent" => fate'[i] = "sent"
         /\ ResolvedIsSent'
         /\ DOMAIN fate' = Msgs /\ DOMAIN answer' = Msgs
<1> USE DEF CallTypeOK, ResolvedIsSent, Msgs
<1>1. CASE Pipeline!Ask(m)
  BY <1>1 DEF Pipeline!Ask
<1>2. CASE Pipeline!Accept(m)
  BY <1>2 DEF Pipeline!Accept
<1>3. CASE Pipeline!Refuse(m)
  BY <1>3 DEF Pipeline!Refuse
<1>4. CASE Pipeline!Send(m)
  BY <1>4 DEF Pipeline!Send, Pipeline!Settle
<1>5. CASE Pipeline!Bury(m)
  BY <1>5 DEF Pipeline!Bury, Pipeline!Settle
<1> QED
  BY <1>1, <1>2, <1>3, <1>4, <1>5

(* Nothing else of the invariant is about the emails. *)
LEMMA OutsideTheCall ==
  ASSUME IInv, UNCHANGED calls,
         \A i \in Payloads : fate[i] = "sent" => fate'[i] = "sent",
         ResolvedIsSent', DOMAIN fate' = Msgs, DOMAIN answer' = Msgs
  PROVE  IInv'
BY DEF IInv, calls, CallTypeOK, TakenInTurn, Bounds, NoneDropped, AllTakenAtEnd,
       ResolvedIsDone, Done

(* send() of the payloads taken settles none of them as resolved. *)
LEMMA HandOverFacts ==
  ASSUME CallTypeOK, ResolvedIsSent, NEW taken \in SUBSET Payloads, NEW bad, HandOver(taken, bad)
  PROVE  /\ fate' = fate
         /\ ResolvedIsSent'
         /\ DOMAIN answer' = Msgs
         /\ handed' = [i \in Payloads |-> IF i \in taken THEN handed[i] + 1 ELSE handed[i]]
BY DEF HandOver, CallTypeOK, ResolvedIsSent, Msgs, Payloads

LEMMA SendBulkStep == IInv /\ SendBulk => IInv'
<1> SUFFICES ASSUME IInv, SendBulk PROVE IInv'
  OBVIOUS
<1>0. CallTypeOK /\ TakenInTurn /\ Bounds /\ ResolvedIsSent
  BY DEF IInv
<1>1. PICK bad : HandOver(Senders, bad)
  BY DEF SendBulk
<1>2. /\ fate' = fate
      /\ ResolvedIsSent'
      /\ DOMAIN answer' = Msgs
      /\ handed' = [i \in Payloads |-> IF i \in Senders THEN handed[i] + 1 ELSE handed[i]]
  BY <1>0, <1>1, HandOverFacts, SendersFacts
<1>3. /\ bulk = "no" /\ bulk' = "running" /\ idx' = Cardinality(Senders)
      /\ at' = [s \in Senders |-> s] /\ died' = died /\ results' = results
  BY DEF SendBulk
<1>4. idx = 0 /\ died = {}
  BY <1>0, <1>3 DEF Bounds
<1>5. CallTypeOK'
  <2>1. at' \in [Senders -> 0..N]
    BY <1>3, SendersFacts DEF Payloads
  <2>2. handed' \in [Payloads -> Nat]
    BY <1>0, <1>2 DEF CallTypeOK
  <2> QED
    BY <1>0, <1>2, <1>3, <2>1, <2>2, SendersFacts DEF CallTypeOK
<1>6. TakenInTurn'
  <2>1. \A i \in Payloads : handed[i] = 0
    BY <1>0, <1>4 DEF TakenInTurn, Payloads
  <2> QED
    BY <1>2, <1>3, <2>1, SendersFacts DEF TakenInTurn
<1>7. NoneDropped'
  BY <1>3, SendersFacts DEF NoneDropped
<1>8. AllTakenAtEnd'
  BY <1>3, SendersFacts DEF AllTakenAtEnd, Payloads
<1> QED
  BY <1>2, <1>3, <1>5, <1>6, <1>7, <1>8 DEF IInv, Bounds, ResolvedIsDone

LEMMA ResumeStep ==
  ASSUME IInv, NEW s \in Senders, Resume(s)
  PROVE  IInv'
<1>0. /\ CallTypeOK /\ TakenInTurn /\ Bounds /\ NoneDropped
      /\ AllTakenAtEnd /\ ResolvedIsSent /\ ResolvedIsDone
  BY DEF IInv
<1> DEFINE j == at[s]
<1>1. /\ j # 0 /\ answer[j] = "resolved"
      /\ results' = [results EXCEPT ![j] = j]
      /\ bulk' = bulk /\ died' = died
  BY DEF Resume, Store
<1>2. j \in Payloads /\ fate[j] = "sent"
  BY <1>0, <1>1 DEF CallTypeOK, Payloads, ResolvedIsSent
<1>3. bulk \in {"running", "rejected"}
  BY <1>0, <1>1 DEF Bounds, CallTypeOK
<1>4. /\ results' \in [Payloads -> 0..N]
      /\ results'[j] = j
      /\ \A i \in Payloads : results[i] = i => results'[i] = i
  BY <1>0, <1>1, <1>2 DEF CallTypeOK, Payloads
<1>5. CASE idx < N
  <2>1. /\ idx' = idx + 1
        /\ at' = [at EXCEPT ![s] = idx + 1]
        /\ \E bad : HandOver({idx + 1}, bad)
    BY <1>5 DEF Resume, Take, TakeWhile
  <2>2. idx \in Nat /\ idx + 1 \in Payloads
    BY <1>0, <1>5 DEF CallTypeOK, Payloads
  <2>3. /\ fate' = fate
        /\ ResolvedIsSent'
        /\ DOMAIN answer' = Msgs
        /\ handed' = [i \in Payloads |-> IF i \in {idx + 1} THEN handed[i] + 1 ELSE handed[i]]
    <3>1. {idx + 1} \in SUBSET Payloads
      BY <2>2
    <3>2. PICK bad : HandOver({idx + 1}, bad)
      BY <2>1
    <3> QED
      BY <1>0, <3>1, <3>2, HandOverFacts
  <2>4. CallTypeOK'
    <3>1. at' \in [Senders -> 0..N] /\ idx' \in 0..N
      BY <1>0, <2>1, <2>2 DEF CallTypeOK, Payloads
    <3>2. handed' \in [Payloads -> Nat]
      BY <1>0, <2>3 DEF CallTypeOK
    <3> QED
      BY <1>0, <1>1, <1>4, <2>3, <3>1, <3>2 DEF CallTypeOK
  <2>5. TakenInTurn'
    BY <1>0, <2>1, <2>2, <2>3 DEF TakenInTurn, Payloads
  <2>6. /\ at'[s] = idx + 1
        /\ \A t \in Senders : t # s => at'[t] = at[t]
    BY <1>0, <2>1 DEF CallTypeOK
  <2>7. NoneDropped'
    <3>1. SUFFICES ASSUME died = {}, NEW i \in Payloads, i <= idx + 1
                   PROVE  Done(i)' \/ \E t \in Senders : at'[t] = i
      BY <1>1, <2>1 DEF NoneDropped
    <3>2. CASE i = idx + 1
      BY <2>6, <3>2
    <3>3. CASE i # idx + 1
      <4>1. i <= idx
        BY <2>2, <3>1, <3>3 DEF Payloads
      <4>2. Done(i) \/ \E t \in Senders : at[t] = i
        BY <1>0, <3>1, <4>1 DEF NoneDropped
      <4>3. CASE Done(i) \/ i = j
        BY <1>2, <1>4, <2>3, <4>3 DEF Done
      <4> QED
        BY <2>6, <4>2, <4>3
    <3> QED
      BY <3>2, <3>3
  <2>8. AllTakenAtEnd'
    <3>1. SUFFICES ASSUME NEW t \in Senders, at'[t] = 0 PROVE t \in died' \/ idx' = N
      BY DEF AllTakenAtEnd
    <3>2. t # s /\ at[t] = 0
      BY <2>2, <2>6, <3>1
    <3>3. t \in died
      BY <1>0, <1>3, <1>5, <3>2 DEF AllTakenAtEnd, CallTypeOK
    <3> QED
      BY <1>1, <3>3
  <2> QED
    BY <1>1, <1>3, <2>3, <2>4, <2>5, <2>7, <2>8 DEF IInv, Bounds, ResolvedIsDone
<1>6. CASE ~(idx < N)
  <2>1. /\ at' = [at EXCEPT ![s] = 0]
        /\ UNCHANGED <<idx, handed, fate, answer>>
    BY <1>6 DEF Resume, Take, TakeWhile
  <2>2. idx = N
    BY <1>0, <1>6 DEF CallTypeOK
  <2>3. CallTypeOK'
    BY <1>0, <1>1, <1>4, <2>1 DEF CallTypeOK
  <2>4. \A t \in Senders : t # s => at'[t] = at[t]
    BY <1>0, <2>1 DEF CallTypeOK
  <2>5. NoneDropped'
    <3>1. SUFFICES ASSUME died = {}, NEW i \in Payloads, i <= idx
                   PROVE  Done(i)' \/ \E t \in Senders : at'[t] = i
      BY <1>1, <2>1 DEF NoneDropped
    <3>2. Done(i) \/ \E t \in Senders : at[t] = i
      BY <1>0, <3>1 DEF NoneDropped
    <3>3. CASE Done(i) \/ i = j
      BY <1>2, <1>4, <2>1, <3>3 DEF Done
    <3> QED
      BY <2>4, <3>2, <3>3
  <2>6. TakenInTurn' /\ ResolvedIsSent' /\ AllTakenAtEnd'
    BY <1>0, <2>1, <2>2 DEF TakenInTurn, ResolvedIsSent, AllTakenAtEnd
  <2> QED
    BY <1>1, <1>3, <2>3, <2>5, <2>6 DEF IInv, Bounds, ResolvedIsDone
<1> QED
  BY <1>5, <1>6

LEMMA FailStep ==
  ASSUME IInv, NEW s \in Senders, Fail(s)
  PROVE  IInv'
<1>0. /\ CallTypeOK /\ TakenInTurn /\ Bounds /\ ResolvedIsSent /\ AllTakenAtEnd
  BY DEF IInv
<1>1. /\ at[s] # 0 /\ bulk' = "rejected"
      /\ at' = [at EXCEPT ![s] = 0] /\ died' = died \cup {s}
      /\ UNCHANGED <<idx, results, handed, fate, answer>>
  BY DEF Fail, emails
<1>2. CallTypeOK'
  BY <1>0, <1>1 DEF CallTypeOK
<1>3. bulk # "no"
  BY <1>0, <1>1 DEF Bounds
<1>4. AllTakenAtEnd'
  BY <1>0, <1>1, <1>3 DEF AllTakenAtEnd, CallTypeOK
<1>5. TakenInTurn' /\ ResolvedIsSent'
  BY <1>0, <1>1 DEF TakenInTurn, ResolvedIsSent
<1> QED
  BY <1>1, <1>2, <1>4, <1>5 DEF IInv, Bounds, NoneDropped, ResolvedIsDone

LEMMA ReturnStep == IInv /\ Return => IInv'
<1> SUFFICES ASSUME IInv, Return PROVE IInv'
  OBVIOUS
<1>0. /\ CallTypeOK /\ TakenInTurn /\ NoneDropped /\ AllTakenAtEnd /\ ResolvedIsSent
  BY DEF IInv
<1>1. /\ bulk = "running" /\ died = {} /\ \A s \in Senders : at[s] = 0
      /\ bulk' = "resolved"
      /\ UNCHANGED <<idx, at, died, results, handed, fate, answer>>
  BY DEF Return, emails
<1>2. idx = N
  BY <1>0, <1>1, SendersFacts DEF AllTakenAtEnd, CallTypeOK
<1>3. \A i \in Payloads : Done(i)
  BY <1>0, <1>1, <1>2, SendersFacts DEF NoneDropped, Payloads
<1>4. ResolvedIsDone' /\ NoneDropped'
  BY <1>1, <1>3 DEF ResolvedIsDone, NoneDropped, Done
<1>5. CallTypeOK' /\ TakenInTurn' /\ ResolvedIsSent' /\ AllTakenAtEnd'
  BY <1>0, <1>1, <1>2 DEF CallTypeOK, TakenInTurn, ResolvedIsSent, AllTakenAtEnd
<1> QED
  BY <1>1, <1>4, <1>5 DEF IInv, Bounds

LEMMA NextInv == IInv /\ [Next]_vars => IInv'
<1> SUFFICES ASSUME IInv, [Next]_vars PROVE IInv'
  OBVIOUS
<1>0. CallTypeOK /\ ResolvedIsSent
  BY DEF IInv
<1>1. ASSUME NEW m \in Msgs,
             (m \in Others /\ SendOther(m)) \/ Accept(m) \/ Refuse(m) \/ End(m)
      PROVE  IInv'
  <2>1. UNCHANGED calls
    BY <1>1 DEF SendOther, Accept, Refuse, End, Sent, Failed, Record
  <2>2. \/ Pipeline!Ask(m) \/ Pipeline!Accept(m) \/ Pipeline!Refuse(m)
        \/ Pipeline!Send(m) \/ Pipeline!Bury(m)
    BY <1>1 DEF SendOther, Accept, Refuse, End, Sent, Failed
  <2> QED
    BY <1>0, <2>1, <2>2, PipelineSteps, OutsideTheCall
<1>2. CASE \/ \E m \in Others : Queued(m)
           \/ Shutdown \/ GetStats \/ Tick \/ UNCHANGED vars
  <2>1. UNCHANGED <<calls, fate, answer>>
    BY <1>2 DEF Queued, Shutdown, GetStats, Tick, vars, emails
  <2>2. ResolvedIsSent' /\ DOMAIN fate' = Msgs /\ DOMAIN answer' = Msgs
    BY <1>0, <2>1 DEF ResolvedIsSent, CallTypeOK
  <2> QED
    BY <2>1, <2>2, OutsideTheCall
<1>3. Others \subseteq Msgs
  BY DEF Msgs
<1> QED
  BY <1>1, <1>2, <1>3, SendBulkStep, ReturnStep, ResumeStep, FailStep DEF Next

(* Any number of senders shares one index and takes each payload once; and  *)
(* when sendBulk() resolves, every payload was sent and every result is in  *)
(* its place.                                                               *)
THEOREM BulkResultsAreTrue == Spec => []BulkResultsTrue
<1>1. IInv => BulkResultsTrue
  BY DEF IInv, TakenInTurn, ResolvedIsDone, Done, BulkResultsTrue
<1> QED
  BY <1>1, InitInv, NextInv, PTL DEF Spec
-----------------------------------------------------------------------------
(* The window of the metrics: the points held are the log from some place   *)
(* on, and everything before that place is too old.                         *)
Points == [ts : Nat, provider : Providers, success : BOOLEAN]

Expired(l, time, i) == l[i].ts < time - Retention

WindowFrom(q, l, time, d) ==
  /\ d \in 0..Len(l)
  /\ Len(q) = Len(l) - d
  /\ \A i \in 1..Len(q) : q[i] = l[i + d]
  /\ \A i \in 1..d : Expired(l, time, i)

InOrder(l, time) ==
  /\ \A i \in DOMAIN l : l[i].ts <= time
  /\ \A i, j \in DOMAIN l : i < j => l[i].ts <= l[j].ts

WindowInv ==
  /\ now \in Nat /\ points \in Seq(Points) /\ log \in Seq(Points)
  /\ InOrder(log, now)
  /\ \E d \in Nat : WindowFrom(points, log, now, d)

LEMMA FirstValidIsFirst ==
  ASSUME NEW q \in Seq(Points), NEW time \in Nat
  PROVE  /\ FirstValid(q, time) \in 1..Len(q) + 1
         /\ \A i \in 1..FirstValid(q, time) - 1 : Stale(q, time, i)
         /\ FirstValid(q, time) <= Len(q) => ~Stale(q, time, FirstValid(q, time))
<1> DEFINE R == {ss \in Nat \X Nat : ss[1] < ss[2]}
           S == {k \in 1..Len(q) + 1 : k <= Len(q) => ~Stale(q, time, k)}
<1>1. IsWellFoundedOn(R, Nat)
  BY NatLessThanWellFounded DEF OpToRel
<1>2. S \subseteq Nat /\ Len(q) + 1 \in S
  OBVIOUS
<1>3. PICK k \in S : \A y \in S : ~(<<y, k>> \in R)
  <2> HIDE DEF R, S
  <2> QED
    BY <1>1, <1>2, WFMin
<1>4. ASSUME NEW i \in 1..k - 1 PROVE Stale(q, time, i)
  <2>1. i \in 1..Len(q) /\ i < k /\ k \in Nat /\ i \in Nat
    BY <1>2
  <2>2. <<i, k>> \in R
    BY <2>1
  <2>3. i \notin S
    BY <1>3, <2>2
  <2> QED
    BY <2>1, <2>3
<1>5. \E x \in 1..Len(q) + 1 : /\ \A i \in 1..x - 1 : Stale(q, time, i)
                               /\ x <= Len(q) => ~Stale(q, time, x)
  BY <1>4
<1> QED
  BY <1>5, Zenon DEF FirstValid

(* compact() keeps a window a window, which then begins with a point that   *)
(* is not too old.                                                          *)
LEMMA CompactedWindow ==
  ASSUME NEW q \in Seq(Points), NEW l \in Seq(Points), NEW time \in Nat, NEW d \in Nat,
         WindowFrom(q, l, time, d)
  PROVE  /\ Compacted(q, time) \in Seq(Points)
         /\ \E e \in Nat : /\ WindowFrom(Compacted(q, time), l, time, e)
                           /\ e < Len(l) => ~Expired(l, time, e + 1)
<1> DEFINE k == FirstValid(q, time)
           c == Compacted(q, time)
           e == d + (k - 1)
<1>1. /\ k \in 1..Len(q) + 1
      /\ \A i \in 1..k - 1 : Stale(q, time, i)
      /\ k <= Len(q) => ~Stale(q, time, k)
  BY FirstValidIsFirst
<1>2. /\ Len(q) \in Nat /\ Len(l) \in Nat /\ d \in 0..Len(l) /\ Len(q) = Len(l) - d
      /\ \A i \in 1..Len(q) : q[i] = l[i + d]
      /\ \A i \in 1..d : Expired(l, time, i)
  BY DEF WindowFrom
<1>3. c = SubSeq(q, k, Len(q))
  BY DEF Compacted
<1> HIDE DEF k, c
<1>4. /\ c \in Seq(Points) /\ Len(c) = Len(q) - k + 1
      /\ \A i \in 1..Len(q) - k + 1 : c[i] = q[i + (k - 1)]
  BY <1>1, <1>2, <1>3
<1>5. e \in 0..Len(l) /\ e \in Nat /\ Len(c) = Len(l) - e
  BY <1>1, <1>2, <1>4
<1>6. ASSUME NEW i \in 1..Len(c) PROVE c[i] = l[i + e]
  <2>1. i + (k - 1) \in 1..Len(q) /\ i + (k - 1) + d = i + e
    BY <1>1, <1>2, <1>4
  <2> QED
    BY <1>2, <1>4, <2>1
<1>7. \A i \in 1..Len(q) : Stale(q, time, i) <=> Expired(l, time, i + d)
  BY <1>2 DEF Stale, Expired
<1>8. ASSUME NEW i \in 1..e PROVE Expired(l, time, i)
  <2>1. CASE i <= d
    BY <1>2, <2>1
  <2>2. CASE ~(i <= d)
    <3>1. i - d \in 1..k - 1 /\ i - d \in 1..Len(q) /\ (i - d) + d = i
      BY <1>1, <1>2, <2>2
    <3>2. Stale(q, time, i - d)
      BY <1>1, <3>1
    <3> QED
      BY <1>7, <3>1, <3>2
  <2> QED
    BY <2>1, <2>2
<1>9. ASSUME e < Len(l) PROVE ~Expired(l, time, e + 1)
  <2>1. k \in 1..Len(q) /\ k + d = e + 1
    BY <1>1, <1>2, <1>9
  <2> QED
    BY <1>1, <1>7, <2>1
<1> QED
  BY <1>4, <1>5, <1>6, <1>8, <1>9 DEF WindowFrom, c

LEMMA AppendedWindow ==
  ASSUME NEW q \in Seq(Points), NEW l \in Seq(Points), NEW time \in Nat, NEW d \in Nat,
         WindowFrom(q, l, time, d), NEW pt \in Points
  PROVE  WindowFrom(Append(q, pt), Append(l, pt), time, d)
<1> DEFINE q1 == Append(q, pt)
           l1 == Append(l, pt)
<1>1. /\ Len(q) \in Nat /\ Len(q1) = Len(q) + 1
      /\ \A i \in 1..Len(q) : q1[i] = q[i]
      /\ q1[Len(q) + 1] = pt
  OBVIOUS
<1>2. /\ Len(l) \in Nat /\ Len(l1) = Len(l) + 1
      /\ \A i \in 1..Len(l) : l1[i] = l[i]
      /\ l1[Len(l) + 1] = pt
  OBVIOUS
<1> HIDE DEF q1, l1
<1>3. /\ d \in 0..Len(l) /\ Len(q) = Len(l) - d
      /\ \A i \in 1..Len(q) : q[i] = l[i + d]
      /\ \A i \in 1..d : Expired(l, time, i)
  BY DEF WindowFrom
<1>4. ASSUME NEW i \in 1..Len(q1) PROVE q1[i] = l1[i + d]
  <2>1. CASE i \in 1..Len(q)
    <3>1. i + d \in 1..Len(l)
      BY <1>1, <1>2, <1>3, <2>1
    <3> QED
      BY <1>1, <1>2, <1>3, <2>1, <3>1
  <2>2. CASE i = Len(q) + 1
    <3>1. i + d = Len(l) + 1
      BY <1>1, <1>2, <1>3, <2>2
    <3> QED
      BY <1>1, <1>2, <2>2, <3>1
  <2> QED
    BY <1>1, <2>1, <2>2
<1>5. \A i \in 1..d : Expired(l1, time, i)
  <2>1. \A i \in 1..d : i \in 1..Len(l)
    BY <1>2, <1>3
  <2> QED
    BY <1>2, <1>3, <2>1 DEF Expired
<1>6. d \in 0..Len(l1) /\ Len(q1) = Len(l1) - d
  BY <1>1, <1>2, <1>3
<1> QED
  BY <1>4, <1>5, <1>6 DEF WindowFrom, q1, l1

LEMMA TimesAreNumbers ==
  ASSUME NEW l \in Seq(Points)
  PROVE  \A i \in DOMAIN l : l[i].ts \in Nat
<1>1. \A i \in DOMAIN l : l[i] \in Points
  OBVIOUS
<1> QED
  BY <1>1 DEF Points

LEMMA InitWindow == Init => WindowInv
<1> SUFFICES ASSUME Init PROVE WindowInv
  OBVIOUS
<1>1. points = <<>> /\ log = <<>> /\ now = 0
  BY DEF Init
<1>2. WindowFrom(<<>>, <<>>, 0, 0)
  BY DEF WindowFrom
<1> QED
  BY <1>1, <1>2 DEF WindowInv, InOrder

LEMMA NextWindow == WindowInv /\ [Next]_vars => WindowInv'
<1> SUFFICES ASSUME WindowInv, [Next]_vars PROVE WindowInv'
  OBVIOUS
<1>1. PICK d \in Nat : WindowFrom(points, log, now, d)
  BY DEF WindowInv
<1>2. now \in Nat /\ points \in Seq(Points) /\ log \in Seq(Points) /\ InOrder(log, now)
  BY DEF WindowInv
<1>3. CASE UNCHANGED <<now, points, log>>
  BY <1>3 DEF WindowInv, WindowFrom, InOrder, Expired
<1>4. ASSUME NEW p \in Providers, NEW s \in BOOLEAN, Record(p, s)
      PROVE  WindowInv'
  <2> DEFINE pt == Point(now, p, s)
             q == Append(points, pt)
             l == Append(log, pt)
  <2>1. pt \in Points /\ pt.ts = now
    BY <1>2 DEF Point, Points
  <2>2. points' = Compacted(q, now) /\ log' = l /\ now' = now
    BY <1>4 DEF Record, Recorded
  <2> HIDE DEF pt
  <2>3. q \in Seq(Points) /\ l \in Seq(Points) /\ WindowFrom(q, l, now, d)
    BY <1>1, <1>2, <2>1, AppendedWindow
  <2>4. InOrder(l, now)
    <3>1. /\ Len(log) \in Nat /\ DOMAIN l = 1..Len(log) + 1 /\ DOMAIN log = 1..Len(log)
          /\ \A i \in 1..Len(log) : l[i] = log[i]
          /\ l[Len(log) + 1] = pt
      BY <1>2
    <3> HIDE DEF l
    <3>2. \A i \in DOMAIN l : l[i].ts <= now
      BY <1>2, <2>1, <3>1 DEF InOrder
    <3>3. ASSUME NEW i \in DOMAIN l, NEW j \in DOMAIN l, i < j PROVE l[i].ts <= l[j].ts
      <4>1. i \in 1..Len(log)
        BY <3>1, <3>3
      <4>2. CASE j \in 1..Len(log)
        BY <1>2, <3>1, <3>3, <4>1, <4>2 DEF InOrder
      <4>3. CASE j = Len(log) + 1
        BY <2>1, <3>1, <3>2, <4>3
      <4> QED
        BY <3>1, <4>2, <4>3
    <3> QED
      BY <3>2, <3>3 DEF InOrder
  <2> HIDE DEF q, l
  <2>5. /\ Compacted(q, now) \in Seq(Points)
        /\ \E e \in Nat : WindowFrom(Compacted(q, now), l, now, e)
    BY <1>2, <2>3, CompactedWindow
  <2> QED
    BY <1>2, <2>2, <2>3, <2>4, <2>5 DEF WindowInv
<1>5. CASE GetStats
  <2>1. points' = Compacted(points, now) /\ log' = log /\ now' = now
    BY <1>5 DEF GetStats
  <2>2. /\ Compacted(points, now) \in Seq(Points)
        /\ \E e \in Nat : WindowFrom(Compacted(points, now), log, now, e)
    BY <1>1, <1>2, CompactedWindow
  <2> QED
    BY <1>2, <2>1, <2>2 DEF WindowInv
<1>6. CASE Tick
  <2>1. points' = points /\ log' = log /\ now' = now + 1
    BY <1>6 DEF Tick, metrics
  <2>2. \A i \in DOMAIN log : log[i].ts \in Nat
    BY <1>2, TimesAreNumbers
  <2>3. Len(log) \in Nat /\ DOMAIN log = 1..Len(log)
    BY <1>2
  <2>4. \A i \in DOMAIN log : Expired(log, now, i) => Expired(log, now + 1, i)
    BY <1>2, <2>2, RetentionAssumption DEF Expired, RetentionAssumption
  <2>5. \A i \in 1..d : i \in DOMAIN log
    BY <1>1, <2>3 DEF WindowFrom
  <2>6. WindowFrom(points, log, now + 1, d)
    BY <1>1, <2>4, <2>5 DEF WindowFrom
  <2>7. InOrder(log, now + 1)
    BY <1>2, <2>2 DEF InOrder
  <2> QED
    BY <1>2, <2>1, <2>6, <2>7 DEF WindowInv
<1>7. ASSUME NEW m \in Msgs, End(m) PROVE WindowInv'
  BY <1>4, <1>7 DEF End, Sent, Failed
<1>8. ASSUME NEW taken, NEW bad, HandOver(taken, bad), now' = now PROVE WindowInv'
  BY <1>3, <1>8 DEF HandOver
<1>9. CASE SendBulk
  BY <1>8, <1>9 DEF SendBulk
<1>10. ASSUME NEW s \in Senders, Resume(s) PROVE WindowInv'
  BY <1>3, <1>8, <1>10 DEF Resume, Take, TakeWhile, metrics
<1>11. ASSUME NEW s \in Senders, Fail(s) PROVE WindowInv'
  BY <1>3, <1>11 DEF Fail, metrics
<1>12. CASE Return
  BY <1>3, <1>12 DEF Return, metrics
<1>13. ASSUME NEW m, SendOther(m) \/ Accept(m) \/ Refuse(m) \/ Queued(m) PROVE WindowInv'
  BY <1>3, <1>13 DEF SendOther, Accept, Refuse, Queued, metrics
<1>14. CASE Shutdown \/ UNCHANGED vars
  BY <1>3, <1>14 DEF Shutdown, vars, metrics
<1> QED
  BY <1>5, <1>6, <1>7, <1>9, <1>10, <1>11, <1>12, <1>13, <1>14 DEF Next

(* After compact() the points of a provider are as many as its events that  *)
(* are not too old.                                                         *)
LEMMA WindowCounts ==
  ASSUME WindowInv, NEW p, NEW s
  PROVE  Count(Compacted(points, now), p, s) =
           Cardinality({i \in DOMAIN log : /\ log[i].ts >= now - Retention
                                           /\ log[i].provider = p /\ log[i].success = s})
<1> DEFINE c == Compacted(points, now)
           A == {i \in DOMAIN c : c[i].provider = p /\ c[i].success = s}
           B == {i \in DOMAIN log : /\ log[i].ts >= now - Retention
                                    /\ log[i].provider = p /\ log[i].success = s}
<1>1. PICK e \in Nat : WindowFrom(c, log, now, e) /\ (e < Len(log) => ~Expired(log, now, e + 1))
  BY CompactedWindow DEF WindowInv
<1>2. c \in Seq(Points)
  BY CompactedWindow DEF WindowInv
<1>3. /\ now \in Nat /\ log \in Seq(Points) /\ InOrder(log, now)
  BY DEF WindowInv
<1> DEFINE f == [i \in A |-> i + e]
<1> HIDE DEF c
<1>4. /\ Len(c) \in Nat /\ DOMAIN c = 1..Len(c) /\ Len(log) \in Nat /\ DOMAIN log = 1..Len(log)
      /\ e <= Len(log) /\ Len(c) = Len(log) - e
      /\ \A i \in 1..Len(c) : c[i] = log[i + e]
      /\ \A i \in 1..e : Expired(log, now, i)
  BY <1>1, <1>2, <1>3 DEF WindowFrom
<1>5. \A i \in DOMAIN log : log[i].ts \in Nat
  BY <1>3, TimesAreNumbers
<1>6. ASSUME NEW i \in DOMAIN log PROVE log[i].ts >= now - Retention <=> i > e
  <2>1. CASE i <= e
    BY <1>3, <1>4, <1>5, <2>1, RetentionAssumption DEF Expired, RetentionAssumption
  <2>2. CASE i > e
    <3>1. e + 1 \in DOMAIN log /\ e < Len(log) /\ (e + 1 = i \/ e + 1 < i)
      BY <1>4, <2>2
    <3>2. log[e + 1].ts <= log[i].ts
      BY <1>3, <1>5, <3>1 DEF InOrder
    <3>3. log[e + 1].ts >= now - Retention
      BY <1>1, <1>3, <1>5, <3>1, RetentionAssumption DEF Expired, RetentionAssumption
    <3> QED
      BY <1>3, <1>5, <2>2, <3>1, <3>2, <3>3, RetentionAssumption DEF RetentionAssumption
  <2> QED
    BY <1>4, <2>1, <2>2
<1>7. \A i \in A : i \in Nat /\ i + e \in B
  <2> SUFFICES ASSUME NEW i \in A PROVE i \in Nat /\ i + e \in B
    OBVIOUS
  <2>1. i \in 1..Len(c) /\ i + e \in DOMAIN log /\ i + e > e
    BY <1>4
  <2> QED
    BY <1>4, <1>6, <2>1
<1>8. \A j \in B : j - e \in A /\ (j - e) + e = j
  <2> SUFFICES ASSUME NEW j \in B PROVE j - e \in A /\ (j - e) + e = j
    OBVIOUS
  <2>1. j - e \in 1..Len(c) /\ (j - e) + e = j
    BY <1>4, <1>6
  <2>2. c[j - e] = log[j]
    BY <1>4, <2>1
  <2> QED
    BY <1>4, <2>1, <2>2
<1>9. ExistsBijection(A, B)
  <2> HIDE DEF A, B
  <2>1. f \in [A -> B]
    BY <1>7
  <2>2. \A i, j \in A : f[i] = f[j] => i = j
    BY <1>7
  <2>3. \A j \in B : \E i \in A : f[i] = j
    BY <1>8
  <2>4. f \in Bijection(A, B)
    BY <2>1, <2>2, <2>3 DEF Bijection, Injection, Surjection, IsInjective
  <2> QED
    BY <2>4 DEF ExistsBijection
<1>10. IsFiniteSet(A)
  <2>1. A \subseteq 1..Len(c) /\ IsFiniteSet(1..Len(c))
    BY <1>4, FS_Interval
  <2> QED
    BY <2>1, FS_Subset
<1>11. Cardinality(A) = Cardinality(B)
  <2> HIDE DEF A, B
  <2> QED
    BY <1>9, <1>10, FS_Bijection
<1> QED
  BY <1>11 DEF Count, c
-----------------------------------------------------------------------------
(* Nothing has happened to a payload that no sender has taken. *)
Untaken(i) == answer[i] = "none" /\ fate[i] = "new"

Entered(m) == fate[m] \in {"pending", "sent", "dead"}

(* A send() that is still to resume is another caller's, and its email is   *)
(* in.                                                                      *)
QueuedInv ==
  /\ returning \subseteq Others /\ \A m \in returning : Entered(m)
  /\ \A i \in Payloads : i > idx => Untaken(i)
  /\ totalQueued = Cardinality(Announced)

LEMMA AnnouncedIsFinite == IsFiniteSet(Announced) /\ IsFiniteSet(Msgs)
<1>1. IsFiniteSet(Payloads)
  BY FS_Interval DEF Payloads
<1>2. IsFiniteSet(Msgs)
  BY <1>1, FS_Union DEF Msgs
<1> QED
  BY <1>2, FS_Subset DEF Announced

(* What the pipeline does announces nothing, and touches no payload that    *)
(* has not been taken.                                                      *)
LEMMA PipelineCounts ==
  ASSUME IInv, QueuedInv, NEW m \in Msgs, UNCHANGED <<idx, totalQueued>>,
         \/ Pipeline!Ask(m) /\ m \in Others /\ UNCHANGED returning
         \/ Pipeline!Refuse(m) /\ UNCHANGED returning
         \/ (Pipeline!Send(m) \/ Pipeline!Bury(m)) /\ UNCHANGED returning
         \/ /\ Pipeline!Accept(m)
            /\ returning' = IF m \in Awaiting THEN returning ELSE returning \cup {m}
  PROVE  QueuedInv'
<1>0. /\ DOMAIN fate = Msgs /\ DOMAIN answer = Msgs
      /\ returning \subseteq Others /\ \A k \in returning : Entered(k)
      /\ Msgs = Awaiting \cup Others /\ Awaiting \cap Others = {} /\ Awaiting = Payloads
  BY DEF IInv, CallTypeOK, QueuedInv, Msgs, Awaiting, Payloads
<1> SUFFICES /\ Announced' = Announced
             /\ \A i \in Payloads : i # m /\ Untaken(i) => Untaken(i)'
             /\ m \in Payloads => ~Untaken(m)
             /\ returning' \subseteq Others /\ \A k \in returning' : Entered(k)'
  BY DEF QueuedInv
<1>1. CASE Pipeline!Ask(m) /\ m \in Others /\ UNCHANGED returning
  <2>1. fate' = fate /\ \A k \in Msgs \ {m} : answer'[k] = answer[k]
    BY <1>0, <1>1 DEF Pipeline!Ask
  <2> QED
    BY <1>0, <1>1, <2>1 DEF Announced, Untaken, Entered
<1>2. CASE Pipeline!Refuse(m) /\ UNCHANGED returning
  <2>1. /\ fate[m] = "new" /\ fate'[m] = "refused" /\ answer[m] = "waiting"
        /\ m \in Awaiting => answer'[m] = "waiting"
        /\ \A k \in Msgs \ {m} : answer'[k] = answer[k] /\ fate'[k] = fate[k]
    BY <1>0, <1>2 DEF Pipeline!Refuse
  <2> QED
    BY <1>0, <1>2, <2>1 DEF Announced, Untaken, Entered
<1>3. CASE (Pipeline!Send(m) \/ Pipeline!Bury(m)) /\ UNCHANGED returning
  <2>1. /\ fate[m] = "pending" /\ fate'[m] \in {"sent", "dead"}
        /\ \A k \in Msgs \ {m} : answer'[k] = answer[k] /\ fate'[k] = fate[k]
    BY <1>0, <1>3 DEF Pipeline!Send, Pipeline!Bury, Pipeline!Settle
  <2> QED
    BY <1>0, <1>3, <2>1 DEF Announced, Untaken, Entered
<1>4. CASE /\ Pipeline!Accept(m)
           /\ returning' = IF m \in Awaiting THEN returning ELSE returning \cup {m}
  <2>1. /\ fate[m] = "new" /\ fate'[m] = "pending" /\ answer[m] = "waiting"
        /\ \A k \in Msgs \ {m} : answer'[k] = answer[k] /\ fate'[k] = fate[k]
    BY <1>0, <1>4 DEF Pipeline!Accept
  <2>2. Announced' = Announced
    <3>1. ASSUME NEW k \in Msgs, k # m PROVE k \in Announced' <=> k \in Announced
      BY <1>4, <2>1, <3>1 DEF Announced
    <3>2. m \in Announced' <=> m \in Announced
      BY <1>0, <1>4, <2>1 DEF Announced
    <3>3. Announced \subseteq Msgs /\ Announced' \subseteq Msgs
      BY DEF Announced, Msgs
    <3> QED
      BY <3>1, <3>2, <3>3
  <2> QED
    BY <1>0, <1>4, <2>1, <2>2 DEF Untaken, Entered
<1> QED
  BY <1>1, <1>2, <1>3, <1>4

(* A payload that is taken is counted, unless it cannot be rendered. *)
LEMMA HandOverCounts ==
  ASSUME QueuedInv, NEW taken \in SUBSET Payloads, NEW bad \in SUBSET taken,
         HandOver(taken, bad), \A i \in taken : Untaken(i),
         idx' \in Nat, \A i \in Payloads : i > idx' => i > idx /\ i \notin taken
  PROVE  QueuedInv'
<1> DEFINE new == taken \ bad
<1>0. /\ taken \subseteq Msgs /\ taken \subseteq Awaiting
      /\ taken \cap returning = {} /\ returning' = returning
  BY DEF Msgs, Awaiting, Payloads, QueuedInv, HandOver
<1>1. /\ fate' = fate /\ totalQueued' = totalQueued + Cardinality(new)
      /\ \A m \in Msgs : answer'[m] = IF m \in bad THEN "rejected"
                                      ELSE IF m \in taken THEN "waiting" ELSE answer[m]
  BY DEF HandOver
<1>2. Announced' = Announced \cup new
  <2>1. ASSUME NEW m \in Msgs
        PROVE  m \in Announced' <=> m \in Announced \cup new
    <3>1. CASE m \in taken
      BY <1>0, <1>1, <3>1 DEF Announced, Untaken
    <3>2. CASE m \notin taken
      BY <1>0, <1>1, <3>2 DEF Announced
    <3> QED
      BY <3>1, <3>2
  <2>2. Announced' \subseteq Msgs /\ Announced \subseteq Msgs /\ new \subseteq Msgs
    BY <1>0 DEF Announced, Msgs
  <2> QED
    BY <2>1, <2>2
<1>3. Announced \cap new = {}
  BY <1>0 DEF Announced, Untaken
<1>4. IsFiniteSet(new) /\ IsFiniteSet(Announced)
  <2>1. new \in SUBSET Msgs
    BY <1>0
  <2> HIDE DEF new
  <2> QED
    BY <2>1, AnnouncedIsFinite, FS_Subset
<1>5. Cardinality(Announced \cup new) = Cardinality(Announced) + Cardinality(new)
  <2> HIDE DEF new
  <2>1. Cardinality(Announced \cup new) =
          Cardinality(Announced) + Cardinality(new) - Cardinality(Announced \cap new)
    BY <1>4, FS_Union
  <2>2. Cardinality(Announced) \in Nat /\ Cardinality(new) \in Nat
    BY <1>4, FS_CardinalityType
  <2>3. Cardinality(Announced \cap new) = 0
    BY <1>3, FS_EmptySet
  <2> HIDE DEF Announced
  <2> QED
    BY <2>1, <2>2, <2>3
<1>6. \A i \in Payloads : i > idx' => Untaken(i)'
  BY <1>0, <1>1 DEF QueuedInv, Untaken, Msgs, Payloads
<1>7. totalQueued' = Cardinality(Announced')
  <2> HIDE DEF new
  <2> QED
    BY <1>1, <1>2, <1>5 DEF QueuedInv
<1> QED
  BY <1>0, <1>1, <1>6, <1>7 DEF QueuedInv, Entered

LEMMA InitQueued == Init => QueuedInv
<1> SUFFICES ASSUME Init PROVE QueuedInv
  OBVIOUS
<1>1. \A m \in Msgs : fate[m] = "new" /\ answer[m] = "none"
  BY DEF Init, Pipeline!Init
<1>2. Announced = {}
  BY <1>1 DEF Announced
<1> QED
  BY <1>1, <1>2, FS_EmptySet DEF Init, QueuedInv, Untaken, Msgs

LEMMA NextQueued == IInv /\ QueuedInv /\ [Next]_vars => QueuedInv'
<1> SUFFICES ASSUME IInv, QueuedInv, [Next]_vars PROVE QueuedInv'
  OBVIOUS
<1>0. CallTypeOK /\ Bounds /\ idx \in Nat
  BY DEF IInv, CallTypeOK
<1>1. ASSUME UNCHANGED <<idx, fate, answer, returning, totalQueued>> PROVE QueuedInv'
  BY <1>1 DEF QueuedInv, Announced, Untaken, Entered
<1>2. ASSUME NEW m \in Others, SendOther(m) PROVE QueuedInv'
  <2>1. /\ Pipeline!Ask(m) /\ UNCHANGED <<idx, returning, totalQueued>> /\ m \in Msgs
    BY <1>2 DEF SendOther, calls, metrics, Msgs
  <2> QED
    BY <2>1, PipelineCounts
<1>3. ASSUME NEW m \in Msgs, Accept(m) \/ Refuse(m) \/ End(m) PROVE QueuedInv'
  <2>1. UNCHANGED <<idx, totalQueued>>
    BY <1>3 DEF Accept, Refuse, End, Sent, Failed, Record, calls, metrics
  <2>2. \/ (Pipeline!Refuse(m) \/ Pipeline!Send(m) \/ Pipeline!Bury(m)) /\ UNCHANGED returning
        \/ /\ Pipeline!Accept(m)
           /\ returning' = IF m \in Awaiting THEN returning ELSE returning \cup {m}
    BY <1>3 DEF Accept, Refuse, End, Sent, Failed, Record
  <2> QED
    BY <2>1, <2>2, PipelineCounts
<1>4. ASSUME NEW m, Queued(m) PROVE QueuedInv'
  <2>1. /\ m \in returning /\ returning' = returning \ {m} /\ totalQueued' = totalQueued + 1
        /\ UNCHANGED <<idx, fate, answer>>
    BY <1>4 DEF Queued, calls
  <2>2. m \in Msgs /\ Entered(m)
    BY <2>1 DEF QueuedInv, Msgs
  <2>3. m \notin Announced /\ Announced' = Announced \cup {m}
    BY <2>1, <2>2 DEF Announced, Entered, Msgs
  <2>4. Cardinality(Announced') = Cardinality(Announced) + 1
    BY <2>3, AnnouncedIsFinite, FS_AddElement
  <2> QED
    BY <2>1, <2>4 DEF QueuedInv, Untaken, Entered
<1>5. CASE SendBulk
  <2>1. PICK bad \in SUBSET Senders : HandOver(Senders, bad)
    BY <1>5 DEF SendBulk
  <2>2. idx' = Cardinality(Senders) /\ idx = 0
    BY <1>0, <1>5 DEF SendBulk, Bounds
  <2>3. Senders \subseteq Payloads /\ Cardinality(Senders) \in Nat
    BY SendersFacts
  <2>4. \A i \in Payloads : i > idx' => i > idx /\ i \notin Senders
    BY <2>2, SendersFacts DEF Payloads
  <2>5. \A i \in Senders : Untaken(i)
    BY <2>2, <2>3 DEF QueuedInv, Payloads
  <2> QED
    BY <2>1, <2>2, <2>3, <2>4, <2>5, HandOverCounts
<1>6. ASSUME NEW s \in Senders, Resume(s) PROVE QueuedInv'
  <2>1. CASE ~(idx < N)
    BY <1>1, <1>6, <2>1 DEF Resume, Take, TakeWhile, metrics
  <2>2. CASE idx < N
    <3>1. idx' = idx + 1 /\ \E bad \in SUBSET {idx + 1} : HandOver({idx + 1}, bad)
      BY <1>6, <2>2 DEF Resume, Take, TakeWhile
    <3>2. idx + 1 \in Payloads /\ idx + 1 > idx
      BY <1>0, <2>2 DEF Payloads
    <3>3. {idx + 1} \in SUBSET Payloads /\ \A i \in {idx + 1} : Untaken(i)
      BY <3>2 DEF QueuedInv
    <3>4. idx' \in Nat /\ \A i \in Payloads : i > idx' => i > idx /\ i \notin {idx + 1}
      BY <1>0, <3>1 DEF Payloads
    <3> QED
      BY <3>1, <3>3, <3>4, HandOverCounts
  <2> QED
    BY <2>1, <2>2
<1>7. ASSUME NEW s \in Senders, Fail(s) PROVE QueuedInv'
  BY <1>1, <1>7 DEF Fail, emails, metrics
<1>8. CASE Return \/ Shutdown \/ GetStats \/ Tick \/ UNCHANGED vars
  BY <1>1, <1>8 DEF Return, Shutdown, GetStats, Tick, vars, calls, emails, metrics
<1> QED
  BY <1>2, <1>3, <1>4, <1>5, <1>6, <1>7, <1>8 DEF Next

(* getStats() counts for each provider exactly the events that are not too  *)
(* old, and totalQueued the emails whose email.queued has been emitted:     *)
(* those accepted, but for the ones whose send() has not resumed, and the   *)
(* awaited ones that were refused or wait to be taken in.                   *)
THEOREM StatsCountTheEvents == Spec => []StatsCountEvents
<1>1. WindowInv /\ QueuedInv => StatsCountEvents
  BY WindowCounts DEF QueuedInv, StatsCountEvents
<1> QED
  BY <1>1, InitInv, NextInv, InitWindow, NextWindow, InitQueued, NextQueued, PTL DEF Spec
=============================================================================
