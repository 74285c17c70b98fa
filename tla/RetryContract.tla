--------------------------- MODULE RetryContract ---------------------------
(***************************************************************************)
(* What a caller may rely on when an API call is retried: at most          *)
(* MaxAttempts requests, another one only after a transient outcome, and   *)
(* the last outcome is delivered only when it is final or no attempt is    *)
(* left.  A call may be broken off when the client itself cannot go on.    *)
(***************************************************************************)
EXTENDS Integers

CONSTANT MaxAttempts  \* a positive number

VARIABLES
  made,     \* outcomes of requests seen
  last,     \* class of the last outcome
  ended     \* how the call ended

vars == <<made, last, ended>>

Init == made = 0 /\ last = "none" /\ ended = "no"

Attempt ==
  /\ ended = "no"
  /\ made < MaxAttempts
  /\ last # "final"
  /\ made' = made + 1
  /\ last' \in {"transient", "final"}
  /\ UNCHANGED ended

Deliver ==
  /\ ended = "no"
  /\ last = "final" \/ (last = "transient" /\ made = MaxAttempts)
  /\ ended' = "delivered"
  /\ UNCHANGED <<made, last>>

BreakOff ==
  /\ ended = "no"
  /\ ended' = "broken off"
  /\ UNCHANGED <<made, last>>

Next == Attempt \/ Deliver \/ BreakOff

Spec == Init /\ [][Next]_vars
FairSpec == Spec /\ WF_vars(Next)
=============================================================================
