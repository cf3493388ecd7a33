-------------------------------- MODULE FinalQC --------------------------------
(***************************************************************************)
(* Final QC in completion mode, the only mode the CLI wires: the host-owned*)
(* issue ledger of qc.VerdictRecorder, the three tools that change it, and *)
(* the turns qc.Runner.reviewCompletion waits for.                         *)
(*                                                                         *)
(* Each tool call is one step under the recorder's lock; the calls of a    *)
(* turn come in any order, and the runner looks at the recorder only when  *)
(* the turn is over.                                                       *)
(***************************************************************************)
EXTENDS FinalQCState, Integers, FiniteSets

(* qc.Config.MaxRounds as each kind of block wires it; 0 means no limit.   *)
MaxRounds == IF ResearchOnly THEN MaxQCRounds ELSE 0

vars == reviewVars

Reviewing == reviewOutcome = "reviewing"

(* Mutants: the counter is not advanced, or follows the active issues.     *)
OpenWithoutCounting(count) ==
  /\ nextFinalIssueID + count <= MaxIssues
  /\ finalIssues' = finalIssues \cup (nextFinalIssueID + 1 .. nextFinalIssueID + count)
  /\ UNCHANGED <<nextFinalIssueID, completionPending, completionAttempts, historyVars>>

OpenNumberedByActive(count) ==
  LET last == Cardinality(finalIssues)
  IN  /\ last + count <= MaxIssues
      /\ finalIssues' = finalIssues \cup (last + 1 .. last + count)
      /\ nextFinalIssueID' = last + count
      /\ UNCHANGED <<completionPending, completionAttempts, historyVars>>

(* r42_qc_update_issues, action open: the host numbers the issues.         *)
OpenFinalIssues(count) ==
  /\ nextFinalIssueID + count <= MaxIssues
  /\ finalIssues' = finalIssues \cup (nextFinalIssueID + 1 .. nextFinalIssueID + count)
  /\ nextFinalIssueID' = nextFinalIssueID + count
  /\ UNCHANGED <<completionPending, completionAttempts, historyVars>>

(* Action resolve: all of the IDs named are active, or none is resolved.   *)
ResolveFinalIssues(ids) ==
  /\ ids \subseteq finalIssues
  /\ finalIssues' = finalIssues \ ids
  /\ UNCHANGED <<nextFinalIssueID, completionPending, completionAttempts, historyVars>>

(* Mutant: a completion is accepted with issues open.                      *)
ResolvedOrNot == TRUE

Resolved == finalIssues = {}

(* r42_qc_complete: every call counts, and only an empty ledger completes. *)
RecordFinalCompletion ==
  /\ completionAttempts < MaxCompletionCalls
  /\ completionAttempts' = completionAttempts + 1
  /\ completionPending' = (completionPending \/ Resolved)
  /\ clearedID' = IF Resolved THEN nextFinalIssueID ELSE clearedID
  /\ confirmed' = (confirmed \/ Resolved)
  /\ UNCHANGED <<finalIssues, nextFinalIssueID>>

ToolCall ==
  \/ \E count \in 1..2 : OpenFinalIssues(count)
  \/ \E ids \in SUBSET finalIssues \ {{}} : ResolveFinalIssues(ids)
  \/ RecordFinalCompletion

RoundsExhausted == MaxRounds > 0 /\ completionAttempts >= MaxRounds

(* Mutant: turns cost no attempt.                                          *)
SpendNoAttempt == reviewAttempts' = reviewAttempts

SpendAttempt == reviewAttempts' = reviewAttempts + 1

(* Mutant: the limit is looked at before the completion.                   *)
CompletedWithinLimit == completionPending /\ ~RoundsExhausted

(* drainCompletion: a call of this turn has completed the review.          *)
Completed == completionPending

(* The turn is over: reviewCompletion drains the completion and decides.   *)
EndTurn ==
  /\ completionPending' = FALSE
  /\ UNCHANGED <<finalIssues, nextFinalIssueID, completionAttempts, historyVars>>
  /\ IF Completed
     THEN reviewOutcome' = "pass" /\ UNCHANGED reviewAttempts
     ELSE IF RoundsExhausted
     THEN reviewOutcome' = "rounds_exhausted" /\ UNCHANGED reviewAttempts
     ELSE /\ SpendAttempt
          /\ reviewOutcome' = IF reviewAttempts' >= MaxProtocolAttempts
                        THEN "protocol_exhausted" ELSE "reviewing"

SessionFails == reviewOutcome' = "session" /\ UNCHANGED <<recorderVars, historyVars, reviewAttempts>>

Init ==
  /\ finalIssues = {} /\ nextFinalIssueID = 0
  /\ completionPending = FALSE /\ completionAttempts = 0
  /\ clearedID = 0 /\ confirmed = FALSE /\ reviewAttempts = 0
  /\ reviewOutcome = "reviewing"

Next ==
  \/ Reviewing /\ ToolCall /\ UNCHANGED <<reviewAttempts, reviewOutcome>>
  \/ Reviewing /\ EndTurn
  \/ Reviewing /\ SessionFails
  \/ ~Reviewing /\ UNCHANGED vars

Spec == Init /\ [][Next]_vars

(* A turn ends, whatever the model did in it.                              *)
FairSpec == Spec /\ WF_vars(Reviewing /\ EndTurn)

--------------------------------------------------------------------------------
(* The values the recorder and the review range over.                      *)
TypeOK ==
  /\ finalIssues \subseteq 1..nextFinalIssueID
  /\ nextFinalIssueID \in Nat
  /\ completionPending \in BOOLEAN
  /\ completionAttempts \in Nat
  /\ clearedID \in 0..nextFinalIssueID /\ confirmed \in BOOLEAN
  /\ reviewAttempts \in 0..MaxProtocolAttempts
  /\ reviewOutcome \in {"reviewing", "pass", "rounds_exhausted", "protocol_exhausted", "session"}

(* An issue ID stands for one issue for good: once resolved it is never    *)
(* active again, and new issues get IDs never seen before.                 *)
IssueIDsAreStable ==
  [][\A id \in finalIssues' \ finalIssues : id > nextFinalIssueID]_vars

(* The review reaches a verdict or an error.                               *)
Termination == <>~Reviewing

(* README.md, r42_qc_complete: "Complete QC only when every host-tracked   *)
(* issue has been resolved".                                               *)
PassMeansResolved == reviewOutcome = "pass" => finalIssues = {}
================================================================================
