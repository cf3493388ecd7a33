------------------------------ MODULE UnitContract ------------------------------
(***************************************************************************)
(* What a recovery unit promises across any number of processes: it is     *)
(* absent, started or completed, never anything in between; completing it  *)
(* fixes its outcome for good; and others read that outcome only, each     *)
(* process as often as it likes.                                           *)
(***************************************************************************)
CONSTANT None

VARIABLES status, outcome, read

vars == <<status, outcome, read>>

Init == status = "absent" /\ outcome = None /\ read = None

Begin ==
  /\ status = "absent"
  /\ status' = "started"
  /\ UNCHANGED <<outcome, read>>

Complete ==
  /\ status = "started"
  /\ status' = "completed"
  /\ outcome' # None
  /\ UNCHANGED read

Read ==
  /\ status = "completed"
  /\ read' = outcome
  /\ UNCHANGED <<status, outcome>>

Forget == read' = None /\ UNCHANGED <<status, outcome>>

Next == Begin \/ Complete \/ Read \/ Forget

Spec == Init /\ [][Next]_vars
================================================================================
