------------------------- MODULE WorkflowMachineProofs -------------------------
(***************************************************************************)
(* The safety invariants of WorkflowMachine, for every round budget, every *)
(* batch size and any number of unreviewed artifacts.                      *)
(*                                                                         *)
(* None of them is inductive alone: Restore makes the state whatever the   *)
(* saved snapshot says, so a snapshot has to be known consistent since the *)
(* moment Save took it.  Consistent says it of a snapshot; IInv says it of *)
(* the state's own snapshot and of the saved one.                          *)
(***************************************************************************)
EXTENDS WorkflowMachine, TLAPS

Consistent(s) ==
  /\ s \in SnapshotType
  /\ s.phase = NotBegun => s.rounds = 0 /\ s.cursor = 0 /\ s.unreviewed = 0
  /\ s.phase \in ClosedPhases => s.cursor = s.rounds /\ s.rounds > 0
  /\ s.phase \in {"collection", "collection_qc"} => s.cursor + 1 = s.rounds
  /\ s.rounds <= MaxCollectionRounds
  /\ s.pending <=> s.unreviewed >= BatchSize

(* What a run of TLC checks and the theorems rest on: the state, and       *)
(* whatever a checkpoint holds, are consistent.                            *)
IInv ==
  /\ Consistent(Snapshot)
  /\ saved # NoSnapshot => Consistent(saved)

(* The state before Begin is consistent.                                   *)
LEMMA InitConsistent == Init => IInv
<1> SUFFICES ASSUME Init PROVE Consistent(Snapshot)
  BY DEF Init, IInv
<1> USE DEF Init, StateInit, Snapshot, NotBegun
<1>1. Snapshot \in SnapshotType
  BY DEF SnapshotType
<1>2. ~(Snapshot.unreviewed >= BatchSize) /\ ~Snapshot.pending
  BY BudgetAssumption
<1>3. QED
  BY <1>1, <1>2, BudgetAssumption DEF Consistent, Phases, ClosedPhases

(* Every operation of workflow.State keeps it consistent: the counters of  *)
(* Begin and Advance stay in step and the gate follows the batch.          *)
LEMMA OperateConsistent ==
  ASSUME Consistent(Snapshot), Operate PROVE Consistent(Snapshot')
<1> USE BudgetAssumption DEF Consistent, Snapshot, SnapshotType, Phases,
                             ClosedPhases, NotBegun
<1>1. CASE Begin /\ UNCHANGED informationNeedOutcomes
  BY <1>1 DEF Begin, Begun
<1>2. CASE RegisterEvidenceArtifact /\ UNCHANGED informationNeedOutcomes
  <2>1. Snapshot' \in SnapshotType
    BY <1>2 DEF RegisterEvidenceArtifact, BatchReached
  <2>2. Snapshot'.pending <=> Snapshot'.unreviewed >= BatchSize
    <3>1. checkpointPending => unreviewedCount >= BatchSize
      OBVIOUS
    <3>2. CASE unreviewedCount + 1 >= BatchSize
      BY <1>2, <3>2 DEF RegisterEvidenceArtifact, BatchReached
    <3>3. CASE ~(unreviewedCount + 1 >= BatchSize)
      <4>1. ~checkpointPending
        BY <3>1, <3>3
      <4>2. QED
        BY <1>2, <3>3, <4>1 DEF RegisterEvidenceArtifact, BatchReached
    <3>4. QED
      BY <3>2, <3>3
  <2>3. QED
    BY <1>2, <2>1, <2>2 DEF RegisterEvidenceArtifact, Begun
<1>3. CASE Checkpoint /\ UNCHANGED informationNeedOutcomes
  <2>1. Snapshot' \in SnapshotType
    BY <1>3 DEF Checkpoint
  <2>2. ~(Snapshot'.unreviewed >= BatchSize) /\ ~Snapshot'.pending
    BY <1>3 DEF Checkpoint
  <2>3. QED
    BY <1>3, <2>1, <2>2 DEF Checkpoint, Begun
<1>4. CASE (\E event \in Events : Advance(event)) /\ UNCHANGED informationNeedOutcomes
  <2>1. PICK event \in Events : Advance(event)
    BY <1>4
  <2>2. PICK edge \in Edges :
          edge[1] = phase /\ edge[2] = event /\ phase' = edge[3]
    BY <2>1 DEF Advance, Spends
  <2>3. /\ edge[1] \in Phases /\ edge[3] \in Phases
        /\ edge[2] = "needs_more" =>
             edge[1] = "collection_qc" /\ edge[3] = "collection"
        /\ edge[1] \in ClosedPhases => edge[3] \in ClosedPhases
        /\ edge[1] = "collection" => edge[3] = "collection_qc"
        /\ edge[1] = "collection_qc" /\ edge[2] # "needs_more"
             => edge[3] = "research"
    BY <2>2 DEF Edges
  <2>4. CASE event = "needs_more"
    BY <1>4, <2>1, <2>2, <2>3, <2>4
       DEF Advance, Accepts, Spends, CollectionLimitExhausted
  <2>5. CASE event # "needs_more"
    BY <1>4, <2>1, <2>2, <2>3, <2>5 DEF Advance, Spends
  <2>6. QED
    BY <1>4, <2>4, <2>5
<1>5. CASE \E stored \in BOOLEAN : SetInformationNeedOutcomes(stored)
  BY <1>5 DEF SetInformationNeedOutcomes, stateVars
<1>6. QED
  BY <1>1, <1>2, <1>3, <1>4, <1>5 DEF Operate

(* Restore brings back exactly what Save took.                             *)
LEMMA RestoreConsistent ==
  ASSUME IInv, Restore PROVE Consistent(Snapshot')
BY DEF IInv, Restore, Consistent, Snapshot, SnapshotType, Phases,
       ClosedPhases, NotBegun

(* Consistency survives every step.                                        *)
LEMMA NextConsistent == IInv /\ [Next]_vars => IInv'
<1> SUFFICES ASSUME IInv, [Next]_vars PROVE IInv'
  OBVIOUS
<1>1. CASE Operate /\ UNCHANGED saved
  BY <1>1, OperateConsistent DEF IInv, Consistent
<1>2. CASE Save
  <2>1. Snapshot' = Snapshot /\ saved' = Snapshot
    BY <1>2 DEF Save, Snapshot, stateVars
  <2>2. QED
    BY <2>1 DEF IInv, Consistent
<1>3. CASE Restore
  BY <1>3, RestoreConsistent DEF IInv, Restore, Consistent
<1>4. CASE UNCHANGED vars
  BY <1>4 DEF vars, stateVars, IInv, Snapshot, Consistent
<1>5. QED
  BY <1>1, <1>2, <1>3, <1>4 DEF Next

(* The state and every checkpoint of it are consistent in every behaviour. *)
THEOREM AlwaysConsistent == Spec => []IInv
BY InitConsistent, NextConsistent, PTL DEF Spec

--------------------------------------------------------------------------------
(* The State fields and the saved snapshot keep their types.               *)
THEOREM TypeCorrect == Spec => []TypeOK
<1>1. IInv => TypeOK
  BY DEF IInv, TypeOK, StateTypeOK, Consistent, Snapshot, SnapshotType
<1>2. QED
  BY <1>1, AlwaysConsistent, PTL

(* One round, one verdict: the counters Begin and Advance keep never drift *)
(* apart, for any budget and any number of returns to Collection.          *)
THEOREM CursorAlwaysTracksRounds == Spec => []CursorTracksRounds
<1>1. IInv => CursorTracksRounds
  BY DEF IInv, CursorTracksRounds, Consistent, Snapshot, SnapshotType, Phases,
         ClosedPhases, NotBegun
<1>2. QED
  BY <1>1, AlwaysConsistent, PTL

(* The acquisition gate is closed exactly while a full batch waits.        *)
THEOREM GateFollowsBatch == Spec => []PendingIffBatchReached
<1>1. IInv => PendingIffBatchReached
  BY DEF IInv, PendingIffBatchReached, Consistent, Snapshot, SnapshotType
<1>2. QED
  BY <1>1, AlwaysConsistent, PTL

(* The round budget is a hard cap, across checkpoints and restores.        *)
THEOREM BudgetIsHard == Spec => []RoundsWithinBudget
<1>1. IInv => RoundsWithinBudget
  BY DEF IInv, RoundsWithinBudget, Consistent, Snapshot
<1>2. QED
  BY <1>1, AlwaysConsistent, PTL

(* Once it has begun, whatever Snapshot hands out the Restore of an         *)
(* identically configured State accepts; before, all but outcomes stored   *)
(* too early.                                                              *)
THEOREM BegunSnapshotsRestorable == Spec => []RestorableOnceBegun
<1>1. IInv => RestorableOnceBegun
  <2> SUFFICES ASSUME IInv PROVE RestorableOnceBegun
    OBVIOUS
  <2> USE BudgetAssumption
      DEF IInv, Restorable, Consistent, Snapshot, SnapshotType, Phases, ClosedPhases,
          NotBegun, Begun
  <2>1. CASE Begun
    <3>1. phase \in Phases /\ collectionRoundsUsed > 0 /\ cursor <= collectionRoundsUsed
      BY <2>1
    <3>2. QED
      BY <2>1, <3>1 DEF RestorableOnceBegun
  <2>2. CASE ~Begun
    <3>1. /\ phase = NotBegun /\ collectionRoundsUsed = 0 /\ cursor = 0
          /\ unreviewedCount = 0 /\ ~checkpointPending
      BY <2>2
    <3>2. Restorable(Snapshot) <=> ~informationNeedOutcomes
      BY <3>1
    <3>3. QED
      BY <2>2, <3>2 DEF RestorableOnceBegun
  <2>3. QED
    BY <2>1, <2>2
<1>2. QED
  BY <1>1, AlwaysConsistent, PTL

(* No operation reopens Collection once Research has begun.                *)
THEOREM CollectionStaysClosed == Spec => NeverReopensCollection
<1>1. ASSUME [Next]_vars
      PROVE  [(phase \in ClosedPhases /\ phase' \notin ClosedPhases)
              => (saved # NoSnapshot /\ saved.phase = phase')]_vars
  <2>1. CASE Begin
    BY <2>1 DEF Begin, Begun, ClosedPhases, NotBegun
  <2>2. CASE \/ RegisterEvidenceArtifact \/ Checkpoint \/ Save \/ UNCHANGED vars
             \/ \E stored \in BOOLEAN : SetInformationNeedOutcomes(stored)
    BY <2>2 DEF RegisterEvidenceArtifact, Checkpoint, Save, SetInformationNeedOutcomes,
                stateVars, vars
  <2>3. ASSUME NEW event \in Events, Advance(event)
        PROVE  phase \in ClosedPhases => phase' \in ClosedPhases
    BY <2>3 DEF Advance, Edges, ClosedPhases
  <2>4. CASE Restore
    BY <2>4 DEF Restore
  <2>5. QED
    BY <1>1, <2>1, <2>2, <2>3, <2>4 DEF Next, Operate
<1>2. QED
  BY <1>1, PTL DEF Spec, NeverReopensCollection
================================================================================
