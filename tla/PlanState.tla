------------------------------- MODULE PlanState -------------------------------
(* What the Collection rounds of a block leave to its later phases: the    *)
(* plan, what became of it, and the evidence (internal/collection Context).*)

VARIABLES
  needs,                 (* the frozen plan; empty until it is set         *)
  ledger,                (* per need: what the QC verdicts left of it      *)
  evidence,              (* registered evidence artifacts                  *)
  reviewed               (* evidence some applied verdict covered          *)

Open == "open"

Active == {n \in needs : ledger[n].outcome = Open}
================================================================================
