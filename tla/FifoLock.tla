------------------------------ MODULE FifoLock ------------------------------
(***************************************************************************)
(* A lock as its users see it: one holder at a time, and it goes straight  *)
(* from the holder to the caller that has waited longest.                  *)
(***************************************************************************)
EXTENDS Sequences

CONSTANT Callers

VARIABLES
  holder,   \* the set of callers that hold the lock: one, or none
  line      \* the callers that wait for it, in the order they came

vars == <<holder, line>>

Init == holder = {} /\ line = <<>>

Ask(c) ==
  /\ c \notin holder
  /\ IF holder = {} THEN holder' = {c} /\ UNCHANGED line
                    ELSE line' = Append(line, c) /\ UNCHANGED holder

Leave(c) ==
  /\ holder = {c}
  /\ IF line = <<>> THEN holder' = {} /\ UNCHANGED line
                    ELSE holder' = {Head(line)} /\ line' = Tail(line)

Next == \E c \in Callers : Ask(c) \/ Leave(c)

Spec == Init /\ [][Next]_vars
=============================================================================
