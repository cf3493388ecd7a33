------------------------------- MODULE BlockState -------------------------------
(* What ResearchBlock adds to the components it composes, and what a block *)
(* promises those that depend on it.                                       *)
EXTENDS PlanState

VARIABLES
  rResult, rOutcome,  (* closed Research: its candidate, and how it ended  *)
  qOutcome,           (* Final QC: how it ended                            *)
  mode,               (* phase_mode: "full", "collection_only", "research_only" *)
  qcEnabled,          (* the block declares a qc block                     *)
  committed,          (* the unit's checkpoint is complete                 *)
  published           (* the block's result, once dependents may read it:  *)
                      (* a sequence of at most one                         *)

Full == mode = "full"

(* A block's result is read by others only when the whole workflow has run:*)
(* in full mode every need was decided and its evidence reviewed; the run  *)
(* completed with that very result, Final QC passed if there is one, and   *)
(* the unit's checkpoint is complete.                                      *)
PublishedIsConfirmed ==
  published # <<>> =>
    /\ Full => needs # {} /\ Active = {} /\ reviewed = evidence
    /\ rOutcome = "complete" /\ published = <<rResult>>
    /\ qcEnabled => qOutcome = "pass"
    /\ committed
================================================================================
