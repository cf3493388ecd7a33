------------------------------- MODULE MCFinalQC -------------------------------
(* What the documentation says of a full workflow's review: two issues,    *)
(* four completion calls and a limit of two show that it is otherwise.     *)
EXTENDS FinalQC
================================================================================
