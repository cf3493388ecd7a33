-------------------------- MODULE UnitCheckpointState --------------------------
(* The parameters and the state of UnitCheckpoint, and what a unit's       *)
(* checkpoints promise.                                                    *)
EXTENDS Integers, FiniteSets, Sequences

CONSTANTS
  File,          (* files of the block's workspace                         *)
  Value,         (* results a workflow can return                          *)
  MaxCommits,    (* bound: checkpoints published                           *)
  MaxLostFiles,  (* bound: archived files that disappear from the disk     *)
  NoResult

ASSUME UnitAssumption ==
  /\ NoResult \notin Value
  /\ \A v \in Value \cup {NoResult} : \A a, b \in SUBSET File : NoResult # <<v, a, b>>
  /\ MaxCommits \in Nat /\ MaxLostFiles \in Nat

VARIABLES
  (* on disk *)
  workspace,     (* the files there are                                    *)
  checkpoints,   (* published checkpoint directories, in order of their    *)
                 (* publication; IDs are random in the code                *)
  latest,        (* the checkpoint the pointer file names; 0: no file      *)
  staging,       (* a staging directory is left over                       *)
  lostFiles,     (* archived files lost so far                             *)
  (* of the process *)
  registry,      (* artifacts registered for the workspace                 *)
  commit,        (* the commit in progress, or NoResult                    *)
  result,        (* the workflow's result, or NoResult                     *)
  published,     (* what dependents have been given, or NoResult           *)
  pc,            (* where the process is; "down" when there is none        *)
  (* history *)
  preUnit        (* the workspace before the unit first ran                *)

disk     == <<workspace, checkpoints, latest, staging, lostFiles>>
process  == <<registry, commit, result, published, pc>>
unitVars == <<disk, process, preUnit>>

Saved == checkpoints[latest]

--------------------------------------------------------------------------------
(* docs/design.md: a unit that is not completed is rolled back to its      *)
(* pre-unit snapshot.  However often it was interrupted, also while it was *)
(* being rolled back or was beginning again, the snapshot a started unit   *)
(* would be rolled back to is the workspace and registry it first had.     *)
StartedHoldsPreUnit ==
  (latest # 0 /\ Saved.status = "started") =>
    Saved.entries = preUnit /\ Saved.registry = {}

(* Dependents are given a result only once a completed checkpoint holds    *)
(* it, and the artifacts they can read are those of that checkpoint.       *)
PublishedIsDurable ==
  published # NoResult =>
    /\ latest # 0 /\ Saved.status = "completed"
    /\ published = Saved.result
    /\ workspace = Saved.entries /\ registry = Saved.registry

(* The unit implements UnitContract.                                       *)
UnitStatus == IF latest = 0 THEN "absent" ELSE Saved.status

UnitOutcome ==
  IF UnitStatus = "completed" THEN <<Saved.result, Saved.entries, Saved.registry>> ELSE NoResult

UnitRead == IF published = NoResult THEN NoResult ELSE <<published, workspace, registry>>

Promise == INSTANCE UnitContract
  WITH None <- NoResult, status <- UnitStatus, outcome <- UnitOutcome, read <- UnitRead

UnitKeepsContract == Promise!Spec
================================================================================
