---------------------------- MODULE WorkflowMachine ----------------------------
(***************************************************************************)
(* The phase machine under any driver: every operation of workflow.State   *)
(* in any order, Snapshot at any moment, and Restore of a snapshot into a  *)
(* State a restarted process has created.  internal/workflow promises that *)
(* the machine is right by itself, whatever the runners do with it.  Of    *)
(* the stored outcomes the machine only ever asks whether there are any.   *)
(***************************************************************************)
EXTENDS WorkflowState

CONSTANTS
  NoSnapshot,     (* nothing saved yet                                     *)
  MaxUnreviewed   (* bound: artifacts registered between checkpoints       *)

SnapshotType ==
  [phase : Phases \cup {NotBegun}, rounds : Nat, cursor : Nat,
   unreviewed : Nat, pending : BOOLEAN, outcomes : BOOLEAN]

ASSUME MachineAssumption == MaxUnreviewed \in Nat /\ NoSnapshot \notin SnapshotType

VARIABLES
  informationNeedOutcomes, (* the encoded outcomes: stored or not            *)
  saved                    (* the last snapshot, as the checkpoint keeps it  *)

vars == <<stateVars, informationNeedOutcomes, saved>>

Snapshot ==
  [phase |-> phase, rounds |-> collectionRoundsUsed, cursor |-> cursor,
   unreviewed |-> unreviewedCount, pending |-> checkpointPending,
   outcomes |-> informationNeedOutcomes]

(* Restore's validation: a snapshot that has not begun must be blank, and  *)
(* any other must fit the configured budget.                               *)
Restorable(s) ==
  \/ /\ s.phase = NotBegun
     /\ s.rounds = 0 /\ s.cursor = 0 /\ s.unreviewed = 0 /\ ~s.pending
     /\ ~s.outcomes
  \/ /\ s.phase \in Phases
     /\ s.rounds > 0 /\ s.rounds <= MaxCollectionRounds
     /\ s.cursor >= 0 /\ s.cursor <= s.rounds
     /\ s.unreviewed >= 0

Save == saved' = Snapshot /\ UNCHANGED <<stateVars, informationNeedOutcomes>>

Restore ==
  /\ saved # NoSnapshot
  /\ Restorable(saved)
  /\ phase' = saved.phase
  /\ collectionRoundsUsed' = saved.rounds
  /\ cursor' = saved.cursor
  /\ unreviewedCount' = saved.unreviewed
  /\ checkpointPending' = saved.pending
  /\ informationNeedOutcomes' = saved.outcomes
  /\ UNCHANGED saved

Init == StateInit /\ informationNeedOutcomes = FALSE /\ saved = NoSnapshot

(* At any moment, before Begin too; an empty payload stores nothing.       *)
SetInformationNeedOutcomes(stored) ==
  /\ informationNeedOutcomes' = stored
  /\ UNCHANGED stateVars

Operate ==
  \/ /\ \/ Begin
        \/ RegisterEvidenceArtifact /\ unreviewedCount < MaxUnreviewed
        \/ Checkpoint
        \/ \E event \in Events : Advance(event)
     /\ UNCHANGED informationNeedOutcomes
  \/ \E stored \in BOOLEAN : SetInformationNeedOutcomes(stored)

Next == (Operate /\ UNCHANGED saved) \/ Save \/ Restore

Spec == Init /\ [][Next]_vars

--------------------------------------------------------------------------------
(* The values the State fields and a saved snapshot range over.            *)
TypeOK ==
  /\ StateTypeOK
  /\ informationNeedOutcomes \in BOOLEAN
  /\ saved \in SnapshotType \cup {NoSnapshot}

(* Each round buys exactly one verdict: while a round is open the cursor   *)
(* is one behind the rounds used, and once Collection is over it has       *)
(* caught up (the two counters of Advance and of Begin, across every       *)
(* return to Collection).                                                  *)
CursorTracksRounds ==
  CASE phase = NotBegun     -> cursor = 0 /\ collectionRoundsUsed = 0
    [] phase \in ClosedPhases -> cursor = collectionRoundsUsed
    [] OTHER                -> cursor + 1 = collectionRoundsUsed

(* The gate is closed exactly while a full batch awaits a checkpoint, in   *)
(* whatever phase registrations and checkpoints arrive.                    *)
PendingIffBatchReached == checkpointPending <=> unreviewedCount >= BatchSize

(* Restore of an identically configured State accepts the snapshot of a    *)
(* machine that has begun, whatever the operations and restores before it. *)
(* Of one that has not it refuses exactly the snapshot that holds outcomes *)
(* stored too early: Snapshot hands that out without a word.               *)
RestorableOnceBegun == Restorable(Snapshot) <=> (Begun \/ ~informationNeedOutcomes)

(* The budget is a hard cap, also across restores.                         *)
RoundsWithinBudget == collectionRoundsUsed <= MaxCollectionRounds

(* No operation of the machine leads from closed research back to an open  *)
(* collection phase; only restoring an older snapshot does.                *)
NeverReopensCollection ==
  [][(phase \in ClosedPhases /\ phase' \notin ClosedPhases)
       => (saved # NoSnapshot /\ saved.phase = phase')]_vars

================================================================================
