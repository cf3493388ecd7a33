-------------------------------- MODULE MCPhases --------------------------------
(***************************************************************************)
(* The phases of a research block, in one run of four parts that are       *)
(* checked side by side: the phase machine under any driver, closed        *)
(* Research and Final QC each by itself at its largest bounds, and the     *)
(* block that composes them with one of each thing (one need and           *)
(* condition, two artifacts, one call at a time, two rounds, one value,    *)
(* two issues).  Only the variables of the part at work ever change.       *)
(***************************************************************************)
EXTENDS WorkflowMachine, FinalQCState, ResearchTurnsState, BlockState

CONSTANTS a1, a2, c1, c2, n1, s1, v1, v2

VARIABLES
  part,
  checkpointed, checkpointAccepted, lastRoundHadArtifacts, activeToolCalls, lost, material,
  toolCall, submitted, handoff, verdict, outcomes, attempt, failure,
  rTerminal, rUsed, rKept, rCall, rCalls, rFailed, rFresh, rAttempts, rMissing,
  qIssues, qNextID, qPending, qAttempts, qCleared, qConfirmed, qTurns

Turns == INSTANCE ResearchTurns

Review == INSTANCE FinalQC

Block == INSTANCE ResearchBlock WITH
  MaxCollectionRounds <- 2, BatchSize <- 1, MaxProtocolAttempts <- 2, MaxLostHooks <- 0,
  Need <- {n1}, Condition <- {s1}, Artifact <- {a1, a2}, Call <- {c1}, Value <- {v1},
  QuotaLimit <- 1, MaxRecorded <- 1, MaxQCRounds <- 1, MaxIssues <- 2,
  MaxCompletionCalls <- 2, call <- toolCall

blockVars ==
  <<needs, ledger, evidence, checkpointed, reviewed, checkpointAccepted,
    lastRoundHadArtifacts, activeToolCalls, lost, material, toolCall, submitted,
    handoff, verdict, outcomes, attempt, failure,
    rTerminal, rUsed, rKept, rCall, rCalls, rFailed, rFresh, rAttempts, rMissing, rResult, rOutcome,
    qIssues, qNextID, qPending, qAttempts, qCleared, qConfirmed, qTurns, qOutcome,
    mode, qcEnabled, committed, published>>

(* Where the block is not the part at work, it is over.                    *)
PartsInit ==
  /\ part \in {"machine", "turns", "review", "block"}
  /\ saved = NoSnapshot /\ informationNeedOutcomes = FALSE /\ Turns!Init /\ Review!Init
  /\ part # "turns" => hasTerminal
  /\ Block!Research!Init /\ Block!Final!Init
  /\ IF part = "block" THEN Block!BlockInit
     ELSE /\ Block!NothingCollected /\ failure = "session"
          /\ mode = "full" /\ qcEnabled = TRUE /\ committed = FALSE /\ published = <<>>
          /\ rTerminal

PartsNext ==
  /\ UNCHANGED part
  /\ \/ /\ part = "machine" /\ Next
        /\ UNCHANGED <<blockVars, turnVars, reviewVars>>
     \/ /\ part = "turns" /\ Turns!Next
        /\ UNCHANGED <<vars, blockVars, reviewVars>>
     \/ /\ part = "review" /\ Review!Next
        /\ UNCHANGED <<vars, blockVars, turnVars>>
     \/ /\ part = "block" /\ Block!BlockNext
        /\ UNCHANGED <<saved, informationNeedOutcomes, turnVars, reviewVars>>

PartsSpec ==
  /\ PartsInit
  /\ [][PartsNext]_<<part, vars, blockVars, turnVars, reviewVars>>
  /\ Block!BlockFairness
--------------------------------------------------------------------------------
(* The block publishes or fails.                                           *)
BlockTerminates == Block!BlockTerminates
================================================================================
