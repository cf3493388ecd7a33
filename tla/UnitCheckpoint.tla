----------------------------- MODULE UnitCheckpoint -----------------------------
(***************************************************************************)
(* The recovery unit of one research block (internal/checkpoint, driven by *)
(* newResearchBlock and researchApplyBlock.Apply): before it runs, the     *)
(* host commits a snapshot of the workspace and of the artifact registry;  *)
(* when its workflow has succeeded it commits the result; a restarted      *)
(* process skips a completed unit and rolls an interrupted one back.       *)
(*                                                                         *)
(* Every file operation that survives a crash is a step of its own, and    *)
(* the process can stop between any two of them.                           *)
(***************************************************************************)
EXTENDS UnitCheckpointState

vars == unitVars

(* Load verifies every archived file the manifest lists.                   *)
Intact(checkpoint) == checkpoint.files = checkpoint.entries

--------------------------------------------------------------------------------
(* Starting the block.                                                     *)

Launch ==
  /\ pc = "down"
  /\ pc' = "loading"
  /\ UNCHANGED <<disk, registry, commit, result, published, preUnit>>

(* Mutant: a started unit is begun again without being rolled back.        *)
LoadUnitWithoutRollback ==
  /\ pc = "loading"
  /\ staging' = FALSE
  /\ pc' = IF latest = 0 \/ ~Intact(Saved) \/ Saved.status = "started"
           THEN "beginning" ELSE "clearing"
  /\ UNCHANGED <<workspace, checkpoints, latest, lostFiles, registry, commit,
                 result, published, preUnit>>

(* Mutant: a completed unit is skipped without restoring its artifacts.    *)
LoadUnitWithoutRestore ==
  /\ pc = "loading"
  /\ staging' = FALSE
  /\ IF latest = 0 \/ ~Intact(Saved)
     THEN pc' = "beginning" /\ UNCHANGED result
     ELSE IF Saved.status = "started" THEN pc' = "clearing" /\ UNCHANGED result
     ELSE pc' = "done" /\ result' = Saved.result
  /\ UNCHANGED <<workspace, checkpoints, latest, lostFiles, registry, commit,
                 published, preUnit>>

(* Unit.Load removes interrupted staging directories and reads the latest  *)
(* checkpoint.  A missing file, be it the pointer or one an archive should *)
(* have, is taken for a unit that has not started.                         *)
LoadUnit ==
  /\ pc = "loading"
  /\ staging' = FALSE
  /\ pc' = IF latest = 0 \/ ~Intact(Saved) THEN "beginning" ELSE "clearing"
  /\ UNCHANGED <<workspace, checkpoints, latest, lostFiles, registry, commit,
                 result, published, preUnit>>

(* restoreWorkspace empties the workspace, entry by entry, ...             *)
ClearWorkspace ==
  /\ pc = "clearing"
  /\ \/ \E f \in workspace : workspace' = workspace \ {f} /\ UNCHANGED pc
     \/ workspace = {} /\ pc' = "copying" /\ UNCHANGED workspace
  /\ UNCHANGED <<checkpoints, latest, staging, lostFiles, registry, commit,
                 result, published, preUnit>>

(* ... copies the archive back, file by file, ...                          *)
CopyBack ==
  /\ pc = "copying"
  /\ \E f \in Saved.entries \ workspace : workspace' = workspace \cup {f}
  /\ UNCHANGED <<checkpoints, latest, staging, lostFiles, process, preUnit>>

(* Mutant: a completed unit runs again.                                    *)
FinishRestoreRerun ==
  /\ pc = "copying"
  /\ Saved.entries \subseteq workspace
  /\ registry' = Saved.registry
  /\ result' = Saved.result
  /\ pc' = "beginning"
  /\ UNCHANGED <<disk, commit, published, preUnit>>

(* Mutant: the rolled back unit resumes before the copy is complete.       *)
FinishRestorePartial ==
  /\ pc = "copying"
  /\ registry' = Saved.registry
  /\ result' = Saved.result
  /\ pc' = IF Saved.status = "completed" THEN "done" ELSE "running"
  /\ UNCHANGED <<disk, commit, published, preUnit>>

(* ... and the registry takes over the saved entries.  A completed unit is *)
(* done; one that was interrupted begins again.                            *)
FinishRestore ==
  /\ pc = "copying"
  /\ Saved.entries \subseteq workspace
  /\ registry' = Saved.registry
  /\ result' = Saved.result
  /\ pc' = IF Saved.status = "completed" THEN "done" ELSE "beginning"
  /\ UNCHANGED <<disk, commit, published, preUnit>>

--------------------------------------------------------------------------------
(* Store.Commit.                                                           *)

StartCommit(status, value) ==
  /\ Len(checkpoints) < MaxCommits
  /\ staging' = TRUE
  /\ commit' = [status |-> status, result |-> value, registry |-> registry,
                copied |-> {}, renamed |-> FALSE]
  /\ pc' = "committing"

BeginUnit ==
  /\ pc = "beginning"
  /\ StartCommit("started", NoResult)
  /\ UNCHANGED <<workspace, checkpoints, latest, lostFiles, registry, result,
                 published, preUnit>>

(* Mutant: the result is available before the commit.                      *)
CompleteUnitUncommitted ==
  /\ pc = "running"
  /\ \E value \in Value : result' = value
  /\ pc' = "done"
  /\ UNCHANGED <<disk, registry, commit, published, preUnit>>

(* The workflow succeeded, and Apply completes the unit.                   *)
CompleteUnit ==
  /\ pc = "running"
  /\ \E value \in Value : result' = value /\ StartCommit("completed", value)
  /\ UNCHANGED <<workspace, checkpoints, latest, lostFiles, registry,
                 published, preUnit>>

StageFile ==
  /\ pc = "committing" /\ ~commit.renamed
  /\ \E f \in workspace \ commit.copied : commit' = [commit EXCEPT !.copied = @ \cup {f}]
  /\ UNCHANGED <<disk, registry, result, published, pc, preUnit>>

(* With every file and the manifest staged, the directory is renamed.      *)
RenameStage ==
  /\ pc = "committing" /\ ~commit.renamed
  /\ commit.copied = workspace
  /\ checkpoints' = Append(checkpoints,
       [status |-> commit.status, result |-> commit.result,
        registry |-> commit.registry, entries |-> commit.copied, files |-> commit.copied])
  /\ staging' = FALSE
  /\ commit' = [commit EXCEPT !.renamed = TRUE]
  /\ UNCHANGED <<workspace, latest, lostFiles, registry, result, published, pc, preUnit>>

(* Mutant: the pointer is published before the directory is renamed.       *)
PublishLatestFirst ==
  /\ pc = "committing"
  /\ latest' = IF commit.renamed THEN Len(checkpoints) ELSE Len(checkpoints) + 1
  /\ commit' = NoResult
  /\ pc' \in {IF commit.status = "started" THEN "running" ELSE "done", "failed"}
  /\ UNCHANGED <<workspace, checkpoints, staging, lostFiles, registry, result,
                 published, preUnit>>

(* publishLatest renames the pointer; syncing it may still fail.           *)
PublishLatest ==
  /\ pc = "committing" /\ commit.renamed
  /\ latest' = Len(checkpoints)
  /\ commit' = NoResult
  /\ pc' \in {IF commit.status = "started" THEN "running" ELSE "done", "failed"}
  /\ UNCHANGED <<workspace, checkpoints, staging, lostFiles, registry, result,
                 published, preUnit>>

(* Any earlier error removes the staging directory and fails the block.    *)
CommitFails ==
  /\ pc = "committing"
  /\ staging' = FALSE
  /\ commit' = NoResult
  /\ pc' = "failed"
  /\ UNCHANGED <<workspace, checkpoints, latest, lostFiles, registry, result,
                 published, preUnit>>

--------------------------------------------------------------------------------
(* The block runs: sessions write, delete and register files.              *)
Work ==
  /\ pc = "running"
  /\ \/ \E f \in File \ workspace : workspace' = workspace \cup {f} /\ UNCHANGED registry
     \/ \E f \in workspace : workspace' = workspace \ {f} /\ UNCHANGED registry
     \/ \E f \in workspace \ registry : registry' = registry \cup {f} /\ UNCHANGED workspace
  /\ UNCHANGED <<checkpoints, latest, staging, lostFiles, commit, result,
                 published, pc, preUnit>>

(* A workflow error, a failed load or restore, or a cancelled run.         *)
BlockFails ==
  /\ pc \in {"loading", "clearing", "copying", "beginning", "running"}
  /\ pc' = "failed"
  /\ UNCHANGED <<disk, registry, commit, result, published, preUnit>>

(* The result is given to the blocks that depend on this one.              *)
Publish ==
  /\ pc = "done" /\ published = NoResult
  /\ published' = result
  /\ UNCHANGED <<disk, registry, commit, result, pc, preUnit>>

(* The process ends or is killed, at any moment; what it held is gone.     *)
Stop ==
  /\ pc # "down"
  /\ pc' = "down"
  /\ registry' = {} /\ commit' = NoResult /\ result' = NoResult /\ published' = NoResult
  /\ UNCHANGED <<disk, preUnit>>

(* An archived file disappears from the disk while no process runs.        *)
LoseFile ==
  /\ pc = "down" /\ lostFiles < MaxLostFiles
  /\ \E i \in 1..Len(checkpoints) : \E f \in checkpoints[i].files :
       checkpoints' = [checkpoints EXCEPT ![i].files = @ \ {f}]
  /\ lostFiles' = lostFiles + 1
  /\ UNCHANGED <<workspace, latest, staging, process, preUnit>>

Init ==
  /\ preUnit \in SUBSET File /\ workspace = preUnit
  /\ checkpoints = <<>> /\ latest = 0 /\ staging = FALSE /\ lostFiles = 0
  /\ registry = {} /\ commit = NoResult /\ result = NoResult /\ published = NoResult
  /\ pc = "down"

Next ==
  \/ Launch \/ LoadUnit \/ ClearWorkspace \/ CopyBack \/ FinishRestore
  \/ BeginUnit \/ CompleteUnit \/ StageFile \/ RenameStage \/ PublishLatest
  \/ CommitFails \/ Work \/ BlockFails \/ Publish \/ Stop \/ LoseFile

Spec == Init /\ [][Next]_vars

--------------------------------------------------------------------------------
Checkpoint ==
  [status : {"started", "completed"}, result : Value \cup {NoResult},
   registry : SUBSET File, entries : SUBSET File, files : SUBSET File]

(* The values the disk and the process range over.                         *)
TypeOK ==
  /\ workspace \in SUBSET File /\ preUnit \in SUBSET File
  /\ checkpoints \in Seq(Checkpoint)
  /\ latest \in 0..Len(checkpoints)
  /\ staging \in BOOLEAN /\ lostFiles \in 0..MaxLostFiles
  /\ registry \in SUBSET File
  /\ result \in Value \cup {NoResult} /\ published \in Value \cup {NoResult}
  /\ pc \in {"down", "loading", "clearing", "copying", "beginning", "running",
             "committing", "done", "failed"}
  /\ IF pc = "committing"
     THEN commit \in [status : {"started", "completed"}, result : Value \cup {NoResult},
                      registry : SUBSET File, copied : SUBSET File, renamed : BOOLEAN]
     ELSE commit = NoResult

(* The block's sessions start only on the restored workspace.              *)
RunsFromPreUnit ==
  [][(pc # "running" /\ pc' = "running") => (workspace' = preUnit /\ registry' = {})]_vars

================================================================================
