------------------------------- MODULE Statistic -------------------------------
(***************************************************************************)
(* What a statistic of a note or of a user promises: a number that is      *)
(* raised by one and lowered, whatever redis, the database and the daily   *)
(* synchronisation do with it.  Once it is blurred, the number may be lost *)
(* in part, but it never says more than the number of times that it was    *)
(* raised.  StatCache implements this, and says when it is blurred.        *)
(***************************************************************************)
EXTENDS Integers

VARIABLES
  value,    \* the number that a request is shown
  raised,   \* how many times it was raised, and
  lowered,  \* how much it was lowered in all
  blurred

statVars == <<value, raised, lowered, blurred>>

Init == value = 0 /\ raised = 0 /\ lowered = 0 /\ blurred \in BOOLEAN

(* The value becomes v, or anything that was counted if it is blurred. *)
Becomes(v) == IF blurred' THEN value' <= raised' ELSE value' = v

Raise == raised' = raised + 1 /\ lowered' = lowered /\ Becomes(value + 1)
Lower == /\ lowered' \in Nat /\ lowered' > lowered
         /\ raised' = raised /\ Becomes(value - (lowered' - lowered))
Keep  == UNCHANGED <<raised, lowered>> /\ Becomes(value)

Next == (blurred => blurred') /\ (Raise \/ Lower \/ Keep)

Spec == Init /\ [][Next]_statVars
================================================================================
