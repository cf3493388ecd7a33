----------------------------- MODULE FinalQCState ------------------------------
(* The parameters and the state of FinalQC, and what a verdict means.       *)
EXTENDS ProtocolAttempts

CONSTANTS
  MaxQCRounds,          (* the block's max_qc_rounds                       *)
  ResearchOnly,         (* a research_only block, else a full workflow     *)
  MaxIssues,            (* bound: issues the session opens                 *)
  MaxCompletionCalls    (* bound: calls of r42_qc_complete                 *)

ASSUME FinalQCAssumption ==
  /\ MaxQCRounds \in Nat \ {0}
  /\ ResearchOnly \in BOOLEAN
  /\ MaxProtocolAttempts \in Nat \ {0}
  /\ MaxIssues \in Nat /\ MaxCompletionCalls \in Nat

VARIABLES
  finalIssues,        (* IDs of the active issues                          *)
  nextFinalIssueID,   (* the last ID the host has given out                *)
  completionPending,  (* a completion was accepted in this turn            *)
  completionAttempts, (* calls of r42_qc_complete                          *)
  clearedID,          (* history: last ID given out when it was accepted   *)
  confirmed,          (* history: some completion has been accepted        *)
  reviewAttempts,     (* turns that ended without an accepted completion   *)
  reviewOutcome       (* how the review ended, or "reviewing"              *)

recorderVars == <<finalIssues, nextFinalIssueID, completionPending, completionAttempts>>
historyVars == <<clearedID, confirmed>>
reviewVars == <<recorderVars, historyVars, reviewAttempts, reviewOutcome>>

--------------------------------------------------------------------------------
(* A pass can leave no issue behind that was open when the completion was  *)
(* accepted: what is active then was opened later in the same turn.        *)
PassLeavesOnlyLateIssues ==
  (completionPending \/ reviewOutcome = "pass") => \A id \in finalIssues : id > clearedID

(* A limit never discards a completion: the review that has accepted one,  *)
(* with the last call the limit allows, after refused ones, or before an   *)
(* issue opened late, does not end exhausted; and it never passes a        *)
(* candidate that no call has completed.                                   *)
VerdictFollowsCompletions ==
  /\ reviewOutcome = "pass" => confirmed
  /\ reviewOutcome \in {"rounds_exhausted", "protocol_exhausted"} => ~confirmed

(* README.md: "max_qc_rounds limits those confirmation attempts": no       *)
(* further turn is granted once they have used up the limit.               *)
TurnWithinLimit ==
  reviewAttempts' # reviewAttempts =>
    (completionAttempts < MaxQCRounds \/ reviewOutcome' # "reviewing")

LimitEndsTheReview == [][TurnWithinLimit]_reviewVars
================================================================================
