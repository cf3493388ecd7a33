----------------------------- MODULE ResearchBlock -----------------------------
(***************************************************************************)
(* One research block in each of its phase modes. In full mode             *)
(* coordinator.Runner drives the Collection rounds, closed Research and    *)
(* Final QC through the workflow's phases; a collection_only block is one  *)
(* session's run alone, and a research_only block that run and a Final QC  *)
(* of its own. researchApplyBlock.Apply commits the unit and publishes its *)
(* result to the blocks that depend on it.                                 *)
(*                                                                         *)
(* The three components share the phase; each is live in its own phases    *)
(* and frozen in the others, since the coordinator calls one runner at a   *)
(* time and each waits for its session's turn.                             *)
(***************************************************************************)
EXTENDS CollectionRounds, BlockState

CONSTANTS Value, QuotaLimit, MaxRecorded,
          MaxQCRounds, MaxIssues, MaxCompletionCalls

VARIABLES
  rTerminal, rUsed, rKept, rCall, rCalls, rFailed, rFresh, rAttempts,
  rMissing,                                         (* closed Research     *)
  qIssues, qNextID, qPending, qAttempts, qCleared,
  qConfirmed, qTurns                                (* Final QC            *)

researchVars == <<rTerminal, rUsed, rKept, rCall, rCalls, rFailed, rFresh, rAttempts,
                  rMissing, rResult, rOutcome>>
finalVars    == <<qIssues, qNextID, qPending, qAttempts, qCleared, qConfirmed,
                  qTurns, qOutcome>>
blockVars    == <<mode, qcEnabled, committed, published>>
allVars      == <<vars, researchVars, finalVars, blockVars>>

Research == INSTANCE ResearchTurns WITH
  hasTerminal <- rTerminal, used <- rUsed, kept <- rKept, call <- rCall,
  calls <- rCalls, failed <- rFailed, fresh <- rFresh, attempts <- rAttempts,
  missing <- rMissing, result <- rResult, outcome <- rOutcome

Final == INSTANCE FinalQC WITH
  ResearchOnly <- FALSE, finalIssues <- qIssues, nextFinalIssueID <- qNextID,
  completionPending <- qPending, completionAttempts <- qAttempts,
  clearedID <- qCleared, confirmed <- qConfirmed,
  reviewAttempts <- qTurns, reviewOutcome <- qOutcome

(* The review of a research_only block, where max_qc_rounds counts.        *)
OwnFinal == INSTANCE FinalQC WITH
  ResearchOnly <- TRUE, finalIssues <- qIssues, nextFinalIssueID <- qNextID,
  completionPending <- qPending, completionAttempts <- qAttempts,
  clearedID <- qCleared, confirmed <- qConfirmed,
  reviewAttempts <- qTurns, reviewOutcome <- qOutcome

--------------------------------------------------------------------------------
(* Who is at work: in full mode the phase says it, in the others the run   *)
(* begins with the block and the review when the run is complete.          *)
Collecting  == Full /\ phase \in {NotBegun, "collection", "collection_qc"}
Researching == (Full => phase = "research")
Reviewing   == IF Full THEN phase = "final_qc"
                       ELSE qcEnabled /\ rOutcome = "complete"

CollectionStep ==
  /\ Collecting
  /\ Next
  /\ UNCHANGED <<researchVars, finalVars, blockVars>>

ResearchStep ==
  /\ Researching /\ rOutcome = "running"
  /\ Research!Next
  /\ UNCHANGED <<vars, finalVars, blockVars>>

(* The coordinator takes the candidate and moves on, to Final QC if the    *)
(* block has one; any other end of the run fails the block.                *)
ResearchDone ==
  /\ Researching /\ rOutcome # "running"
  /\ \/ /\ Full /\ rOutcome = "complete"
        /\ Advance(IF qcEnabled THEN "research_complete"
                                ELSE "research_complete_without_qc")
        /\ UNCHANGED failure
     \/ rOutcome # "complete" /\ failure' = rOutcome /\ UNCHANGED stateVars
  /\ UNCHANGED <<toolVars, handoff, outcomes, attempt, researchVars, finalVars, blockVars>>

FinalStep ==
  /\ Reviewing /\ qOutcome = "reviewing"
  /\ IF Full THEN Final!Next ELSE OwnFinal!Next
  /\ UNCHANGED <<vars, researchVars, blockVars>>

(* Mutant: a review that did not pass is not an error.                     *)
FinalDoneOnPass ==
  /\ Reviewing /\ Full /\ qOutcome = "pass"
  /\ Advance("pass")
  /\ UNCHANGED <<failure, toolVars, handoff, outcomes, attempt, researchVars,
                 finalVars, blockVars>>

FinalDone ==
  /\ Reviewing /\ qOutcome # "reviewing"
  /\ \/ Full /\ qOutcome = "pass" /\ Advance("pass") /\ UNCHANGED failure
     \/ qOutcome # "pass" /\ failure' = qOutcome /\ UNCHANGED stateVars
  /\ UNCHANGED <<toolVars, handoff, outcomes, attempt, researchVars, finalVars, blockVars>>

(* What Apply waited for has returned without an error.                    *)
WorkflowRun ==
  IF Full THEN phase = "complete"
          ELSE rOutcome = "complete" /\ (qcEnabled => qOutcome = "pass")

(* Apply, once the workflow has run: the unit is committed first, and only *)
(* then is its result there for others to read.                            *)
CompleteUnit ==
  /\ WorkflowRun /\ ~committed
  /\ \/ committed' = TRUE /\ UNCHANGED failure
     \/ failure' = "commit" /\ UNCHANGED committed
  /\ UNCHANGED <<stateVars, toolVars, handoff, outcomes, attempt,
                 researchVars, finalVars, mode, qcEnabled, published>>

(* Mutant: the result is there before the unit is committed.               *)
PublishUncommitted ==
  /\ WorkflowRun /\ published = <<>>
  /\ published' = <<rResult>>
  /\ UNCHANGED <<vars, researchVars, finalVars, mode, qcEnabled, committed>>

Publish ==
  /\ committed /\ published = <<>>
  /\ published' = <<rResult>>
  /\ UNCHANGED <<vars, researchVars, finalVars, mode, qcEnabled, committed>>

BlockOver == published # <<>> \/ failure # "none"

(* A collection_only block has a terminal tool and no qc (research/spec's   *)
(* validateCollectionOnly).                                                *)
BlockInit ==
  /\ Init
  /\ Research!Init /\ Final!Init
  /\ mode \in {"full", "collection_only", "research_only"}
  /\ qcEnabled \in BOOLEAN /\ committed = FALSE /\ published = <<>>
  /\ mode = "collection_only" => rTerminal /\ ~qcEnabled

BlockNext ==
  \/ /\ Running
     /\ \/ CollectionStep \/ ResearchStep \/ ResearchDone
        \/ FinalStep \/ FinalDone \/ CompleteUnit \/ Publish
  \/ BlockOver /\ UNCHANGED allVars

BlockSpec == BlockInit /\ [][BlockNext]_allVars

(* The fairness of the components' runners, and the coordinator's own      *)
(* progress: it is one goroutine that always goes on.                      *)
InCollection(A) == A /\ UNCHANGED <<researchVars, finalVars, blockVars>>

InResearch(A) ==
  /\ Running /\ Researching /\ rOutcome = "running"
  /\ A
  /\ UNCHANGED <<rTerminal, vars, finalVars, blockVars>>

InFinalQC(A) ==
  /\ Running /\ Reviewing /\ qOutcome = "reviewing"
  /\ A
  /\ UNCHANGED <<vars, researchVars, blockVars>>

BlockFairness ==
  /\ WF_allVars(InCollection(Running /\ Collecting /\ Start))
  /\ \A c \in Call : WF_allVars(InCollection(Collecting /\ CallReturns(c)))
  /\ SF_allVars(InCollection(Running /\ Collecting /\ EndCollectionTurn))
  /\ WF_allVars(InCollection(Running /\ Collecting /\ EndQCTurn))
  /\ \A c \in Call : WF_allVars(InResearch(Research!CallReturns(c)))
  /\ SF_allVars(InResearch(Research!AllReturned /\ Research!EndTurn))
  /\ WF_allVars(InFinalQC(IF Full THEN Final!EndTurn ELSE OwnFinal!EndTurn))
  /\ WF_allVars(Running /\ (ResearchDone \/ FinalDone \/ CompleteUnit \/ Publish))
  /\ []<>(BlockOver \/ (AllReturned /\ Research!AllReturned))

BlockFairSpec == BlockSpec /\ BlockFairness

--------------------------------------------------------------------------------
(* Whatever the models do, the block ends: published, or failed.           *)
BlockTerminates == <>BlockOver
================================================================================
