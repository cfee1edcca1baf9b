---------------------------- MODULE TokenBucket ----------------------------
(***************************************************************************)
(* The token bucket as its users see it: it fills at a steady rate up to   *)
(* its capacity, a caller is granted a whole token, and only a caller for  *)
(* which there is none is refused.                                         *)
(***************************************************************************)
EXTENDS Naturals

CONSTANTS Callers,
          Rate,       \* units that flow in per tick
          TokenUnits, \* units of a token
          Capacity    \* units the bucket holds

VARIABLES
  level,    \* units in the bucket
  state     \* per caller

vars == <<level, state>>

Init == level = Capacity /\ state = [c \in Callers |-> "idle"]

Flow ==
  /\ level' = IF level + Rate > Capacity THEN Capacity ELSE level + Rate
  /\ UNCHANGED state

Ask(c) == state' = [state EXCEPT ![c] = "waiting"] /\ UNCHANGED level

Grant(c) ==
  /\ level >= TokenUnits
  /\ level' = level - TokenUnits
  /\ state' = [state EXCEPT ![c] = "granted"]

Refuse(c) ==
  /\ level < TokenUnits
  /\ state' = [state EXCEPT ![c] = "refused"]
  /\ UNCHANGED level

Next == Flow \/ \E c \in Callers : Ask(c) \/ Grant(c) \/ Refuse(c)

Spec == Init /\ [][Next]_vars
=============================================================================
