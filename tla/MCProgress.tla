------------------------------- MODULE MCProgress -------------------------------
(* One static block and a dynamic one with two tasks, three pending records. *)
EXTENDS Progress

CONSTANTS b, d, t1, t2, c1
================================================================================
