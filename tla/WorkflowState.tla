----------------------------- MODULE WorkflowState -----------------------------
(***************************************************************************)
(* The phase machine every research block owns (internal/workflow/state.go)*)
(* : the phase, the collection-round budget, the verdict cursor and the    *)
(* unreviewed-evidence counter that raises the checkpoint gate.            *)
(*                                                                         *)
(* The module defines the state and one action per operation.  Each action *)
(* is enabled exactly when the operation returns nil; an operation that    *)
(* returns an error leaves the state alone and is not a step.  The mutex   *)
(* makes each operation atomic.  WorkflowMachine drives the operations in  *)
(* any order; CollectionRounds and ResearchBlock drive them the way the    *)
(* runners do.                                                             *)
(***************************************************************************)
EXTENDS Integers

CONSTANTS
  MaxCollectionRounds,  (* hard cap on entries into Collection             *)
  BatchSize             (* unreviewed artifacts that raise the gate        *)

(* Begin refuses any other configuration.                                  *)
ASSUME BudgetAssumption ==
  /\ MaxCollectionRounds \in Nat \ {0}
  /\ BatchSize \in Nat \ {0}

VARIABLES
  phase,                (* the current phase; NotBegun until Begin         *)
  collectionRoundsUsed, (* acquisition rounds entered                      *)
  cursor,               (* valid Collection-QC verdicts applied            *)
  unreviewedCount,      (* artifacts registered since the last checkpoint  *)
  checkpointPending     (* the acquisition gate is closed                  *)

stateVars ==
  <<phase, collectionRoundsUsed, cursor, unreviewedCount, checkpointPending>>

NotBegun == "not_begun"
Phases == {"collection", "collection_qc", "research", "final_qc", "complete"}
ClosedPhases == {"research", "final_qc", "complete"}

Begun == phase # NotBegun

StateInit ==
  /\ phase = NotBegun
  /\ collectionRoundsUsed = 0
  /\ cursor = 0
  /\ unreviewedCount = 0
  /\ checkpointPending = FALSE

Begin ==
  /\ ~Begun
  /\ phase' = "collection"
  /\ collectionRoundsUsed' = 1
  /\ UNCHANGED <<cursor, unreviewedCount, checkpointPending>>

(* Mutant: Final QC's revision reopens Collection.                         *)
EdgesReopening ==
  { <<"collection",    "checkpoint",                   "collection_qc">>,
    <<"collection_qc", "sufficient",                   "research">>,
    <<"collection_qc", "needs_more",                   "collection">>,
    <<"research",      "research_complete",            "final_qc">>,
    <<"final_qc",      "pass",                         "complete">>,
    <<"final_qc",      "revise_research",              "collection">> }

(* The legal transitions: from a phase, on an event, to a phase.           *)
Edges ==
  { <<"collection",    "checkpoint",                   "collection_qc">>,
    <<"collection_qc", "sufficient",                   "research">>,
    <<"collection_qc", "needs_more",                   "collection">>,
    <<"research",      "research_complete",            "final_qc">>,
    <<"research",      "research_complete_without_qc", "complete">>,
    <<"final_qc",      "pass",                         "complete">>,
    <<"final_qc",      "final_qc_retry",               "final_qc">>,
    <<"final_qc",      "revise_research",              "research">> }

Events == {edge[2] : edge \in Edges}

(* Mutants: the limit comes a round late, or a round early.                *)
LimitExhaustedLate == collectionRoundsUsed > MaxCollectionRounds
LimitExhaustedEarly == collectionRoundsUsed + 1 >= MaxCollectionRounds

CollectionLimitExhausted == collectionRoundsUsed >= MaxCollectionRounds

(* Mutant: the budget vetoes nothing.                                      *)
AcceptsUnbudgeted(event) == \E edge \in Edges : edge[1] = phase /\ edge[2] = event

(* Advance(event) returns nil: the edge exists and the round budget does   *)
(* not veto it.                                                            *)
Accepts(event) ==
  /\ \E edge \in Edges : edge[1] = phase /\ edge[2] = event
  /\ event = "needs_more" => ~CollectionLimitExhausted

(* Mutant: submitting a checkpoint spends a round too.                     *)
SpendsOnCheckpoint(event) == event \in {"needs_more", "checkpoint"}

(* Only entering Collection again costs a round.                           *)
Spends(event) == event = "needs_more"

(* Both verdict events move the cursor; only needs_more spends a round.    *)
Advance(event) ==
  /\ Accepts(event)
  /\ \E edge \in Edges :
       edge[1] = phase /\ edge[2] = event /\ phase' = edge[3]
  /\ cursor' = IF phase = "collection_qc" THEN cursor + 1 ELSE cursor
  /\ collectionRoundsUsed' =
       IF Spends(event) THEN collectionRoundsUsed + 1
                       ELSE collectionRoundsUsed
  /\ UNCHANGED <<unreviewedCount, checkpointPending>>

(* Mutant: one artifact more than a batch before the gate closes.          *)
BatchExceeded(count) == count > BatchSize

BatchReached(count) == count >= BatchSize

RegisterEvidenceArtifact ==
  /\ Begun
  /\ unreviewedCount' = unreviewedCount + 1
  /\ checkpointPending' =
       (checkpointPending \/ BatchReached(unreviewedCount + 1))
  /\ UNCHANGED <<phase, collectionRoundsUsed, cursor>>

(* Mutant: a checkpoint takes one batch off the count.                     *)
CheckpointSubtractsBatch ==
  /\ Begun
  /\ unreviewedCount # 0
  /\ unreviewedCount' = unreviewedCount - BatchSize
  /\ checkpointPending' = FALSE
  /\ UNCHANGED <<phase, collectionRoundsUsed, cursor>>

Checkpoint ==
  /\ Begun
  /\ unreviewedCount # 0
  /\ unreviewedCount' = 0
  /\ checkpointPending' = FALSE
  /\ UNCHANGED <<phase, collectionRoundsUsed, cursor>>

(* AcquireGate returns nil.                                                *)
AcquireGate == Begun /\ ~checkpointPending

--------------------------------------------------------------------------------
StateTypeOK ==
  /\ phase \in Phases \cup {NotBegun}
  /\ collectionRoundsUsed \in Nat
  /\ cursor \in Nat
  /\ unreviewedCount \in Nat
  /\ checkpointPending \in BOOLEAN

================================================================================
