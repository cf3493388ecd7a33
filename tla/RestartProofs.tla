----------------------------- MODULE RestartProofs -----------------------------
(***************************************************************************)
(* What a restart finds: the checkpoints of a research block's unit, the   *)
(* registry of its artifacts, and the citations that name them.            *)
(*                                                                         *)
(* Crash recovery of a unit, for any workspace, any set of results, any    *)
(* number of commits and of crashes: what dependents read is durable       *)
(* whatever archived files are lost, and as long as none is lost a started *)
(* unit can always be taken back to where it first began.                  *)
(*                                                                         *)
(* Artifact ids and citations, for any files, ids, quotes and crashes: a   *)
(* file has one id in the registry (a listed link apart), an id denotes    *)
(* the same file in every checkpoint, and every knowledge.json that was or *)
(* will be written is genuine.                                             *)
(***************************************************************************)
EXTENDS UnitCheckpoint, EvidenceState, TLAPS

Last == checkpoints[Len(checkpoints)]

(* The commit in progress describes the process that makes it, and once    *)
(* its directory is renamed it is the last checkpoint.                     *)
CommitInv ==
  pc = "committing" =>
    /\ commit.registry = registry
    /\ commit.status = "completed" => commit.result = result
    /\ commit.copied \subseteq workspace
    /\ commit.renamed =>
         /\ Len(checkpoints) # 0
         /\ Last.status = commit.status /\ Last.result = commit.result
         /\ Last.registry = registry /\ Last.entries = workspace

(* A restore follows a checkpoint, and only brings back what it lists.     *)
RestoreInv ==
  /\ pc = "clearing" => latest # 0
  /\ pc = "copying" => latest # 0 /\ workspace \subseteq Saved.entries

(* A block is done with exactly what its checkpoint says.                  *)
DoneInv ==
  pc = "done" =>
    /\ latest # 0 /\ Saved.status = "completed" /\ Saved.result = result
    /\ Saved.entries = workspace /\ Saved.registry = registry

PublishInv == published # NoResult => pc = "done" /\ published = result

DurInv == TypeOK /\ CommitInv /\ RestoreInv /\ DoneInv /\ PublishInv

--------------------------------------------------------------------------------
(* The types of a checkpoint list that grows, or loses one of its files.   *)
LEMMA AppendedType ==
  ASSUME NEW s \in Seq(Checkpoint), NEW c \in Checkpoint
  PROVE  /\ Append(s, c) \in Seq(Checkpoint)
         /\ Len(Append(s, c)) = Len(s) + 1
         /\ Append(s, c)[Len(s) + 1] = c
         /\ \A i \in 1..Len(s) : Append(s, c)[i] = s[i]
BY DEF Checkpoint

LEMMA LosingType ==
  ASSUME NEW s \in Seq(Checkpoint), NEW i \in 1..Len(s), NEW f
  PROVE  LET t == [s EXCEPT ![i].files = @ \ {f}]
         IN  t \in Seq(Checkpoint) /\ Len(t) = Len(s)
<1>1. s[i] \in Checkpoint
  OBVIOUS
<1>2. [s[i] EXCEPT !.files = @ \ {f}] \in Checkpoint
  BY <1>1 DEF Checkpoint
<1> DEFINE t == [s EXCEPT ![i] = [s[i] EXCEPT !.files = @ \ {f}]]
<1>3. t \in Seq(Checkpoint) /\ Len(t) = Len(s)
  BY <1>2
<1> QED
  BY <1>3

LEMMA SavedType ==
  ASSUME TypeOK, latest # 0
  PROVE  Saved \in Checkpoint
<1>1. latest \in 1..Len(checkpoints) /\ checkpoints \in Seq(Checkpoint)
  BY DEF TypeOK
<1> QED
  BY <1>1 DEF Saved

(* Every step keeps the types.                                             *)
LEMMA TypePreserved ==
  ASSUME TypeOK, CommitInv, RestoreInv, [Next]_vars
  PROVE  TypeOK'
<1> USE UnitAssumption
<1>1. CASE Launch
  BY <1>1 DEF TypeOK, Launch, disk
<1>2. CASE LoadUnit
  BY <1>2 DEF TypeOK, LoadUnit
<1>3. CASE ClearWorkspace
  BY <1>3 DEF TypeOK, ClearWorkspace
<1>4. CASE CopyBack
  BY <1>4, SavedType DEF TypeOK, CopyBack, process, RestoreInv, Checkpoint
<1>5. CASE FinishRestore
  BY <1>5, SavedType DEF TypeOK, FinishRestore, disk, RestoreInv, Checkpoint
<1>6. CASE BeginUnit
  BY <1>6 DEF TypeOK, BeginUnit, StartCommit
<1>7. CASE CompleteUnit
  BY <1>7 DEF TypeOK, CompleteUnit, StartCommit
<1>8. CASE StageFile
  BY <1>8 DEF TypeOK, StageFile, disk
<1>9. CASE RenameStage
  <2> DEFINE c == [status |-> commit.status, result |-> commit.result,
                   registry |-> commit.registry, entries |-> commit.copied,
                   files |-> commit.copied]
  <2>1. c \in Checkpoint
    BY <1>9 DEF TypeOK, RenameStage, Checkpoint
  <2>2. checkpoints' = Append(checkpoints, c)
    BY <1>9 DEF RenameStage
  <2> QED
    <3>1. checkpoints \in Seq(Checkpoint)
      BY DEF TypeOK
    <3>2. checkpoints' \in Seq(Checkpoint) /\ Len(checkpoints') = Len(checkpoints) + 1
      BY <2>1, <2>2, <3>1, AppendedType
    <3>3. latest' \in 0..Len(checkpoints')
      BY <1>9, <3>1, <3>2 DEF TypeOK, RenameStage
    <3> QED
      BY <1>9, <3>2, <3>3 DEF TypeOK, RenameStage
<1>10. CASE PublishLatest
  BY <1>10 DEF TypeOK, PublishLatest
<1>11. CASE CommitFails
  BY <1>11 DEF TypeOK, CommitFails
<1>12. CASE Work
  BY <1>12 DEF TypeOK, Work
<1>13. CASE BlockFails
  BY <1>13 DEF TypeOK, BlockFails, disk
<1>14. CASE Publish
  BY <1>14 DEF TypeOK, Publish, disk
<1>15. CASE Stop
  BY <1>15 DEF TypeOK, Stop, disk
<1>16. CASE LoseFile
  <2>1. PICK i \in 1..Len(checkpoints) : \E f \in checkpoints[i].files :
          checkpoints' = [checkpoints EXCEPT ![i].files = @ \ {f}]
    BY <1>16 DEF LoseFile
  <2>2. PICK f : checkpoints' = [checkpoints EXCEPT ![i].files = @ \ {f}]
    BY <2>1
  <2>3. checkpoints \in Seq(Checkpoint)
    BY DEF TypeOK
  <2>4. checkpoints' \in Seq(Checkpoint) /\ Len(checkpoints') = Len(checkpoints)
    BY <2>2, <2>3, LosingType
  <2> QED
    BY <1>16, <2>4 DEF TypeOK, LoseFile, process
<1>17. CASE UNCHANGED vars
  BY <1>17 DEF TypeOK, vars, unitVars, disk, process
<1> QED
  BY <1>1, <1>2, <1>3, <1>4, <1>5, <1>6, <1>7, <1>8, <1>9, <1>10, <1>11,
     <1>12, <1>13, <1>14, <1>15, <1>16, <1>17 DEF Next

--------------------------------------------------------------------------------
(* Every step keeps what the unit's durability rests on.                   *)
LEMMA DurPreserved ==
  ASSUME DurInv, [Next]_vars
  PROVE  DurInv'
<1> USE UnitAssumption DEF DurInv
<1>0. TypeOK'
  BY TypePreserved
<1>1. CASE Launch
  BY <1>0, <1>1 DEF Launch, disk, CommitInv, RestoreInv, DoneInv, PublishInv
<1>2. CASE LoadUnit
  BY <1>0, <1>2 DEF LoadUnit, CommitInv, RestoreInv, DoneInv, PublishInv
<1>3. CASE ClearWorkspace
  BY <1>0, <1>3 DEF ClearWorkspace, CommitInv, RestoreInv, DoneInv, PublishInv
<1>4. CASE CopyBack
  BY <1>0, <1>4 DEF CopyBack, process, CommitInv, RestoreInv, DoneInv, PublishInv, Saved
<1>5. CASE FinishRestore
  BY <1>0, <1>5 DEF FinishRestore, disk, CommitInv, RestoreInv, DoneInv, PublishInv, Saved
<1>6. CASE BeginUnit
  BY <1>0, <1>6 DEF BeginUnit, StartCommit, CommitInv, RestoreInv, DoneInv, PublishInv
<1>7. CASE CompleteUnit
  BY <1>0, <1>7 DEF CompleteUnit, StartCommit, CommitInv, RestoreInv, DoneInv, PublishInv
<1>8. CASE StageFile
  BY <1>0, <1>8 DEF TypeOK, StageFile, disk, CommitInv, RestoreInv, DoneInv, PublishInv
<1>9. CASE RenameStage
  <2> DEFINE c == [status |-> commit.status, result |-> commit.result,
                   registry |-> commit.registry, entries |-> commit.copied,
                   files |-> commit.copied]
  <2>1. checkpoints \in Seq(Checkpoint) /\ c \in Checkpoint
    BY <1>9 DEF TypeOK, RenameStage, Checkpoint
  <2>2. checkpoints' = Append(checkpoints, c)
    BY <1>9 DEF RenameStage
  <2>3. Len(checkpoints') # 0 /\ Last' = c
    BY <2>1, <2>2, AppendedType DEF Last
  <2>4. CommitInv'
    BY <1>9, <2>3 DEF TypeOK, RenameStage, CommitInv
  <2> QED
    BY <1>0, <1>9, <2>4 DEF RenameStage, RestoreInv, DoneInv, PublishInv
<1>10. CASE PublishLatest
  <2>1. CommitInv' /\ RestoreInv' /\ PublishInv'
    BY <1>10 DEF PublishLatest, CommitInv, RestoreInv, PublishInv
  <2>2. DoneInv'
    BY <1>10 DEF TypeOK, PublishLatest, CommitInv, DoneInv, Last, Saved
  <2> QED
    BY <1>0, <2>1, <2>2
<1>11. CASE CommitFails
  BY <1>0, <1>11 DEF CommitFails, CommitInv, RestoreInv, DoneInv, PublishInv
<1>12. CASE Work
  BY <1>0, <1>12 DEF Work, CommitInv, RestoreInv, DoneInv, PublishInv
<1>13. CASE BlockFails
  BY <1>0, <1>13 DEF BlockFails, disk, CommitInv, RestoreInv, DoneInv, PublishInv
<1>14. CASE Publish
  BY <1>0, <1>14 DEF Publish, disk, CommitInv, RestoreInv, DoneInv, PublishInv, Saved
<1>15. CASE Stop
  BY <1>0, <1>15 DEF Stop, disk, CommitInv, RestoreInv, DoneInv, PublishInv
<1>16. CASE LoseFile
  BY <1>0, <1>16 DEF LoseFile, process, CommitInv, RestoreInv, DoneInv, PublishInv
<1>17. CASE UNCHANGED vars
  BY <1>0, <1>17 DEF vars, unitVars, disk, process, CommitInv, RestoreInv, DoneInv, PublishInv, Saved, Last
<1> QED
  BY <1>1, <1>2, <1>3, <1>4, <1>5, <1>6, <1>7, <1>8, <1>9, <1>10, <1>11,
     <1>12, <1>13, <1>14, <1>15, <1>16, <1>17 DEF Next

LEMMA DurInitially == Init => DurInv
<1> SUFFICES ASSUME Init PROVE DurInv
  OBVIOUS
<1>1. <<>> \in Seq(Checkpoint) /\ Len(<<>>) = 0
  OBVIOUS
<1>2. TypeOK
  <2>1. checkpoints \in Seq(Checkpoint) /\ latest \in 0..Len(checkpoints)
    BY <1>1 DEF Init
  <2>2. workspace \in SUBSET File /\ preUnit \in SUBSET File /\ registry \in SUBSET File
    BY DEF Init
  <2>3. lostFiles \in 0..MaxLostFiles
    BY UnitAssumption DEF Init
  <2>4. staging = FALSE /\ pc = "down" /\ commit = NoResult /\ result = NoResult /\ published = NoResult
    BY DEF Init
  <2> QED
    BY <2>1, <2>2, <2>3, <2>4 DEF TypeOK
<1> QED
  BY <1>2 DEF Init, DurInv, CommitInv, RestoreInv, DoneInv, PublishInv

LEMMA DurAlways == Spec => []DurInv
  BY DurInitially, DurPreserved, PTL DEF Spec

(* The disk and the process keep their types, whatever crashes or losses.  *)
THEOREM UnitTypeCorrect == Spec => []TypeOK
  BY DurAlways, PTL DEF DurInv

(* Dependents are given a result, and can read the artifacts of its block, *)
(* only as the completed checkpoint on disk records them: no crash, failed *)
(* commit or lost archive can leave them with an outcome that is undone by *)
(* a later resume.                                                         *)
THEOREM PublishedStaysDurable == Spec => []PublishedIsDurable
<1>1. DurInv => PublishedIsDurable
  BY DEF DurInv, PublishInv, DoneInv, PublishedIsDurable
<1> QED
  BY <1>1, DurAlways, PTL

--------------------------------------------------------------------------------
(* While no archived file is lost, every checkpoint is complete; and until *)
(* the unit has completed, its latest checkpoint is the pre-unit snapshot, *)
(* from which it is resumed and begins again.                              *)
NothingLost == \A i \in 1..Len(checkpoints) : Intact(checkpoints[i])

Pristine == workspace = preUnit /\ registry = {}

PreInv ==
  /\ NothingLost
  /\ StartedHoldsPreUnit
  /\ latest = 0 => Pristine /\ pc \in {"down", "loading", "beginning", "committing", "failed"}
  /\ pc \in {"down", "loading", "clearing", "copying"} => registry = {}
  /\ pc = "beginning" => Pristine /\ (latest # 0 => Saved.status = "started")
  /\ pc = "running" => latest # 0 /\ Saved.status = "started"
  /\ pc = "committing" =>
       /\ latest # 0 => Saved.status = "started"
       /\ commit.status = "started" => Pristine
       /\ commit.status = "completed" => latest # 0

LEMMA PrePreserved ==
  ASSUME MaxLostFiles = 0, DurInv, PreInv, [Next]_vars
  PROVE  PreInv'
<1> USE UnitAssumption
<1>0. TypeOK /\ CommitInv /\ RestoreInv /\ checkpoints \in Seq(Checkpoint)
  BY DEF DurInv, TypeOK
<1>k. ASSUME UNCHANGED <<checkpoints, latest, preUnit>>
      PROVE  NothingLost' /\ StartedHoldsPreUnit' /\ UNCHANGED Saved
  BY <1>k DEF PreInv, NothingLost, StartedHoldsPreUnit, Saved
<1>1. CASE Launch
  BY <1>1, <1>k DEF Launch, disk, PreInv, Pristine
<1>2. CASE LoadUnit
  <2>1. latest # 0 => Intact(Saved)
    BY <1>0 DEF PreInv, NothingLost, Saved, TypeOK
  <2> QED
    BY <1>2, <1>k, <2>1 DEF LoadUnit, PreInv, Pristine
<1>3. CASE ClearWorkspace
  BY <1>0, <1>3, <1>k DEF ClearWorkspace, PreInv, Pristine, RestoreInv
<1>4. CASE CopyBack
  BY <1>0, <1>4, <1>k DEF CopyBack, process, PreInv, Pristine, RestoreInv
<1>5. CASE FinishRestore
  <2>1. latest # 0 /\ workspace = Saved.entries /\ Saved.status \in {"started", "completed"}
    BY <1>0, <1>5, SavedType DEF FinishRestore, RestoreInv, Checkpoint
  <2> QED
    BY <1>5, <1>k, <2>1 DEF FinishRestore, disk, PreInv, Pristine, StartedHoldsPreUnit
<1>6. CASE BeginUnit
  BY <1>6, <1>k DEF BeginUnit, StartCommit, PreInv, Pristine
<1>7. CASE CompleteUnit
  BY <1>7, <1>k DEF CompleteUnit, StartCommit, PreInv, Pristine
<1>8. CASE StageFile
  <2>1. commit'.status = commit.status
    BY <1>0, <1>8 DEF TypeOK, StageFile
  <2> QED
    BY <1>8, <1>k, <2>1 DEF StageFile, disk, PreInv, Pristine
<1>9. CASE RenameStage
  <2> DEFINE c == [status |-> commit.status, result |-> commit.result,
                   registry |-> commit.registry, entries |-> commit.copied,
                   files |-> commit.copied]
  <2>1. checkpoints' = Append(checkpoints, c) /\ c \in Checkpoint
    BY <1>0, <1>9 DEF RenameStage, TypeOK, Checkpoint
  <2>2. /\ checkpoints' \in Seq(Checkpoint) /\ Len(checkpoints') = Len(checkpoints) + 1
        /\ checkpoints'[Len(checkpoints) + 1] = c
        /\ \A i \in 1..Len(checkpoints) : checkpoints'[i] = checkpoints[i]
    BY <1>0, <2>1, AppendedType
  <2>3. NothingLost'
    BY <1>0, <2>2 DEF PreInv, NothingLost, Intact
  <2>4. latest' = latest /\ (latest # 0 => Saved' = Saved)
    BY <1>0, <1>9, <2>2 DEF RenameStage, TypeOK, Saved
  <2>5. commit'.status = commit.status
    BY <1>0, <1>9 DEF RenameStage, TypeOK
  <2> QED
    BY <1>9, <2>3, <2>4, <2>5 DEF RenameStage, PreInv, Pristine, StartedHoldsPreUnit
<1>10. CASE PublishLatest
  <2>1. NothingLost' /\ latest' # 0 /\ Saved' = Last
    BY <1>0, <1>10 DEF PublishLatest, PreInv, NothingLost, CommitInv, Saved, Last
  <2>2. Last.status = commit.status /\ Last.registry = registry /\ Last.entries = workspace
    BY <1>0, <1>10 DEF PublishLatest, CommitInv
  <2> QED
    BY <1>10, <2>1, <2>2 DEF PublishLatest, PreInv, Pristine, StartedHoldsPreUnit
<1>11. CASE CommitFails
  BY <1>11, <1>k DEF CommitFails, PreInv, Pristine
<1>12. CASE Work
  BY <1>12, <1>k DEF Work, PreInv, Pristine
<1>13. CASE BlockFails
  BY <1>13, <1>k DEF BlockFails, disk, PreInv, Pristine
<1>14. CASE Publish
  BY <1>14, <1>k DEF Publish, disk, PreInv, Pristine
<1>15. CASE Stop
  BY <1>15, <1>k DEF Stop, disk, PreInv, Pristine
<1>16. CASE LoseFile
  BY <1>0, <1>16 DEF LoseFile, TypeOK
<1>17. CASE UNCHANGED vars
  BY <1>17, <1>k DEF vars, unitVars, disk, process, PreInv, Pristine
<1> QED
  BY <1>1, <1>2, <1>3, <1>4, <1>5, <1>6, <1>7, <1>8, <1>9, <1>10, <1>11,
     <1>12, <1>13, <1>14, <1>15, <1>16, <1>17 DEF Next

LEMMA PreInitially == Init => PreInv
  BY DEF Init, PreInv, Pristine, NothingLost, StartedHoldsPreUnit

LEMMA PreAlways ==
  ASSUME MaxLostFiles = 0
  PROVE  Spec => [](DurInv /\ PreInv)
<1>1. Init => DurInv /\ PreInv
  BY DurInitially, PreInitially
<1>2. DurInv /\ PreInv /\ [Next]_vars => (DurInv /\ PreInv)'
  BY DurPreserved, PrePreserved
<1> QED
  BY <1>1, <1>2, PTL DEF Spec

(* As long as the disk keeps what was archived, however often the unit is  *)
(* interrupted, also while it is rolled back or begins again, the snapshot *)
(* it would be rolled back to is the workspace and registry it first had.  *)
THEOREM StartedAlwaysHoldsPreUnit ==
  ASSUME MaxLostFiles = 0
  PROVE  Spec => []StartedHoldsPreUnit
<1>1. PreInv => StartedHoldsPreUnit
  BY DEF PreInv
<1> QED
  BY <1>1, PreAlways, PTL

(* ... and the block's sessions start on that workspace, every time.       *)
THEOREM AlwaysRunsFromPreUnit ==
  ASSUME MaxLostFiles = 0
  PROVE  Spec => RunsFromPreUnit
<1>1. ASSUME DurInv, PreInv, [Next]_vars
      PROVE  [(pc # "running" /\ pc' = "running") => (workspace' = preUnit /\ registry' = {})]_vars
  <2>1. SUFFICES ASSUME Next, pc # "running", pc' = "running"
                 PROVE  workspace' = preUnit /\ registry' = {}
    BY <1>1
  <2>2. TypeOK
    BY <1>1 DEF DurInv
  <2>3. PublishLatest
    BY <2>1, <2>2 DEF Next, Launch, LoadUnit, ClearWorkspace, CopyBack, FinishRestore,
       BeginUnit, CompleteUnit, StartCommit, StageFile, RenameStage, CommitFails, Work,
       BlockFails, Publish, Stop, LoseFile, disk, process
  <2> QED
    BY <1>1, <2>1, <2>3 DEF PublishLatest, PreInv, Pristine
<1> QED
  BY <1>1, PreAlways, PTL DEF Spec, RunsFromPreUnit

--------------------------------------------------------------------------------
(* The unit implements its contract.                                       *)

LEMMA ContractInitially == Init => Promise!Init
  BY DEF Init, Promise!Init, UnitStatus, UnitOutcome, UnitRead

(* What the contract sees is unchanged by a step that leaves these alone.  *)
LEMMA ContractStutters ==
  ASSUME UNCHANGED <<latest, UnitRead>>, latest # 0 => UNCHANGED Saved
  PROVE  UNCHANGED Promise!vars
BY DEF Promise!vars, UnitStatus, UnitOutcome

LEMMA ContractStep ==
  ASSUME MaxLostFiles = 0, DurInv, PreInv, [Next]_vars
  PROVE  [Promise!Next]_(Promise!vars)
<1> USE UnitAssumption
<1>0. TypeOK /\ CommitInv /\ RestoreInv /\ DoneInv /\ PublishInv
  BY DEF DurInv
<1>1. ASSUME pc # "done", UNCHANGED <<latest, checkpoints, published>>
      PROVE  UNCHANGED Promise!vars
  <2>1. published = NoResult
    BY <1>0, <1>1 DEF PublishInv
  <2> QED
    BY <1>1, <2>1, ContractStutters DEF UnitRead, Saved
<1>2. CASE Launch
  BY <1>1, <1>2 DEF Launch, disk
<1>3. CASE LoadUnit
  BY <1>1, <1>3 DEF LoadUnit
<1>4. CASE ClearWorkspace
  BY <1>1, <1>4 DEF ClearWorkspace
<1>5. CASE CopyBack
  BY <1>1, <1>5 DEF CopyBack, process
<1>6. CASE FinishRestore
  BY <1>1, <1>6 DEF FinishRestore, disk
<1>7. CASE BeginUnit
  BY <1>1, <1>7 DEF BeginUnit, StartCommit
<1>8. CASE CompleteUnit
  BY <1>1, <1>8 DEF CompleteUnit, StartCommit
<1>9. CASE StageFile
  BY <1>1, <1>9 DEF StageFile, disk
<1>10. CASE RenameStage
  <2>1. checkpoints \in Seq(Checkpoint) /\ published = NoResult /\ published' = NoResult
    BY <1>0, <1>10 DEF TypeOK, PublishInv, RenameStage
  <2>2. latest' = latest /\ (latest # 0 => Saved' = Saved)
    BY <1>0, <1>10, <2>1 DEF RenameStage, TypeOK, Saved
  <2> QED
    BY <2>1, <2>2, ContractStutters DEF UnitRead
<1>11. CASE PublishLatest
  <2>1. published = NoResult /\ published' = NoResult
    BY <1>0, <1>11 DEF PublishInv, PublishLatest
  <2>2. latest' # 0 /\ Saved' = Last /\ Last.status = commit.status
    BY <1>0, <1>11 DEF PublishLatest, CommitInv, Saved, Last
  <2>3. Last \in Checkpoint
    BY <1>0, <1>11 DEF TypeOK, PublishLatest, CommitInv, Last
  <2>4. CASE commit.status = "started"
    <3>1. UnitStatus \in {"absent", "started"} /\ UnitStatus' = "started"
      BY <1>11, <2>2, <2>4 DEF UnitStatus, PreInv, PublishLatest
    <3> QED
      BY <2>1, <3>1 DEF Promise!Next, Promise!Begin, Promise!vars, UnitOutcome, UnitRead
  <2>5. CASE commit.status = "completed"
    <3>1. UnitStatus = "started" /\ UnitStatus' = "completed"
      BY <1>11, <2>2, <2>5 DEF UnitStatus, PreInv, PublishLatest
    <3>2. UnitOutcome' = <<Last.result, Last.entries, Last.registry>>
      BY <2>2, <3>1 DEF UnitOutcome
    <3>3. UnitOutcome' # NoResult
      BY <2>3, <3>2 DEF Checkpoint
    <3>4. UnitRead' = UnitRead
      BY <2>1 DEF UnitRead
    <3> QED
      BY <3>1, <3>3, <3>4 DEF Promise!Next, Promise!Complete
  <2> QED
    BY <1>0, <1>11, <2>4, <2>5 DEF TypeOK, PublishLatest
<1>12. CASE CommitFails
  BY <1>1, <1>12 DEF CommitFails
<1>13. CASE Work
  BY <1>1, <1>13 DEF Work
<1>14. CASE BlockFails
  BY <1>1, <1>14 DEF BlockFails, disk
<1>15. CASE Publish
  <2>1. /\ UnitStatus = "completed" /\ UnitRead = NoResult
        /\ UnitRead' \in {NoResult, UnitOutcome}
    BY <1>0, <1>15 DEF Publish, disk, DoneInv, UnitStatus, UnitOutcome, UnitRead
  <2>2. UNCHANGED <<UnitStatus, UnitOutcome>>
    BY <1>15 DEF Publish, disk, UnitStatus, UnitOutcome, Saved
  <2> QED
    BY <2>1, <2>2 DEF Promise!Next, Promise!Read, Promise!vars
<1>16. CASE Stop
  <2>1. UnitRead' = NoResult
    BY <1>16 DEF Stop, UnitRead
  <2>2. UNCHANGED <<UnitStatus, UnitOutcome>>
    BY <1>16 DEF Stop, disk, UnitStatus, UnitOutcome, Saved
  <2> QED
    BY <2>1, <2>2 DEF Promise!Next, Promise!Forget
<1>17. CASE LoseFile
  BY <1>0, <1>17 DEF LoseFile, TypeOK
<1>18. CASE UNCHANGED vars
  BY <1>18, ContractStutters DEF vars, unitVars, disk, process, UnitRead, Saved
<1> QED
  BY <1>2, <1>3, <1>4, <1>5, <1>6, <1>7, <1>8, <1>9, <1>10, <1>11,
     <1>12, <1>13, <1>14, <1>15, <1>16, <1>17, <1>18 DEF Next

(* As long as no archived file is lost, whatever the process does and      *)
(* wherever it crashes, the unit starts once, completes once with an       *)
(* outcome that never changes, and is read as that outcome only.           *)
THEOREM UnitImplementsContract ==
  ASSUME MaxLostFiles = 0
  PROVE  Spec => UnitKeepsContract
<1>1. DurInv /\ PreInv /\ [Next]_vars => [Promise!Next]_(Promise!vars)
  BY ContractStep
<1> QED
  BY <1>1, ContractInitially, PreAlways, PTL DEF Spec, UnitKeepsContract, Promise!Spec

--------------------------------------------------------------------------------
(* The artifact registry and the citations (Evidence).                     *)
Artifacts == INSTANCE Evidence

Entry == [path : Artifacts!Path, purposes : SUBSET {"output", "evidence"}, listed : BOOLEAN]
Text == [body : Nat, header : BOOLEAN]
Owner(e, i) == Artifacts!Owner(e[i].path)
Real(q) == Artifacts!Real(q)
Spelled(q) == Artifacts!Spelled(q)

(* The entries that their resolved path denotes: all but those of a file   *)
(* declared through a link, and its evidence too.                          *)
Certain(x) == "evidence" \in x.purposes \/ x.path # report \/ spelling = "real"

(* The id that a path has.                                                 *)
Known(p, q) == Real(q) \in DOMAIN p \/ Spelled(q) \in DOMAIN p
IdOf(p, q) == IF Real(q) \in DOMAIN p THEN p[Real(q)] ELSE p[Spelled(q)]

(* A path has one entry that no listing found.                             *)
OneUnlisted(e) ==
  \A i, j \in DOMAIN e : e[i].path = e[j].path /\ ~e[i].listed /\ ~e[j].listed => i = j

(* Entries e and paths p belong together, with ids below n: a path denotes *)
(* the last of its entries, and the certain one.                           *)
Indexes(e, p, n) ==
  /\ n \in Nat /\ OneUnlisted(e)
  /\ \A i \in DOMAIN e : i \in Nat /\ i < n /\ e[i] \in Entry
  /\ \A i \in DOMAIN e : Known(p, e[i].path) /\ i <= IdOf(p, e[i].path)
  /\ \A i \in DOMAIN e : Certain(e[i]) => Real(e[i].path) \in DOMAIN p /\ p[Real(e[i].path)] = i
  /\ \A q \in Artifacts!Path : Real(q) \in DOMAIN p => p[Real(q)] \in DOMAIN e /\ e[p[Real(q)]].path = q
  /\ \A q \in Artifacts!Path : Spelled(q) \in DOMAIN p => p[Spelled(q)] \in DOMAIN e /\ e[p[Spelled(q)]].path = q

Agree(e, f) == \A i \in DOMAIN e \cap DOMAIN f : e[i].path = f[i].path
Keeps(e, f) == \A i \in DOMAIN e : i \in DOMAIN f /\ f[i].path = e[i].path
Adds(e, f, Q) == \A i \in DOMAIN f : f[i].path \in Q \/ (i \in DOMAIN e /\ f[i].path = e[i].path)

(* Only a file declared through a link can be missing.                     *)
Filed(e, files) ==
  \A i \in DOMAIN e :
    e[i].path \in Artifacts!AnyFile /\ Certain(e[i]) /\ spelling # "real" => files[e[i].path] # Artifacts!Absent

(* What unit u has in a snapshot: of each path a last entry, the certain   *)
(* one if there is one.                                                    *)
LastOf(e, i, j) == e[i].path = e[j].path /\ \A k \in DOMAIN e : e[k].path = e[j].path => k <= i
Snapshot(e, u, n) ==
  /\ \A i \in DOMAIN e : i \in Nat /\ i < n /\ e[i] \in Entry /\ Owner(e, i) = u
  /\ OneUnlisted(e)
  /\ \A j \in DOMAIN e : \E i \in DOMAIN e : LastOf(e, i, j)
  /\ \A i \in DOMAIN e : Certain(e[i]) => LastOf(e, i, i)

(* An id denotes one file, in the registry and in every checkpoint.        *)
Recorded(sv, e, n) ==
  /\ DOMAIN sv = Unit
  /\ \A u \in Unit : Snapshot(sv[u].entries, u, n) /\ Filed(sv[u].entries, sv[u].files) /\ Agree(sv[u].entries, e)
  /\ \A u, v \in Unit : Agree(sv[u].entries, sv[v].entries)

Named == report \in Listed \cup {Dir} /\ spelling \in {"real", "linked"}

(* The files, and the calls that have read one.                            *)
FilesInv ==
  /\ Filed(entries, content) /\ content \in [Artifacts!AnyFile -> Text]
  /\ saved[Collector].status # "none" => saved[Collector].files \in [Artifacts!AnyFile -> Text]
  /\ \A x \in registering : x.file \in Listed /\ content[x.file] # Artifacts!Absent /\ x.read \in Text

(* Who has begun, and has entries.                                         *)
StageInv ==
  /\ DOMAIN stage = Unit
  /\ \A u \in Unit : stage[u] = "idle" => \A i \in DOMAIN entries : Owner(entries, i) # u
  /\ stage[Reader] # "idle" => stage[Collector] # "idle"
  /\ registering # {} => stage[Collector] # "idle"

RegistryInv ==
  /\ Indexes(entries, paths, nextId) /\ Recorded(saved, entries, nextId)
  /\ FilesInv /\ StageInv /\ Named
  /\ \A u \in Unit : stage[u] = "done" => Keeps(saved[u].entries, entries)

(* The indexes s follow r: ids are only added, are fresh, and are of paths *)
(* in Q.                                                                   *)
Grows(r, s, files, Q) ==
  /\ Indexes(s.entries, s.paths, s.nextId)
  /\ Keeps(r.entries, s.entries) /\ Adds(r.entries, s.entries, Q)
  /\ DOMAIN r.paths \subseteq DOMAIN s.paths /\ r.nextId <= s.nextId
  /\ \A i \in DOMAIN s.entries \ DOMAIN r.entries : i >= r.nextId
  /\ Filed(r.entries, files) => Filed(s.entries, files)

Indices(e, p, c, n) == [entries |-> e, paths |-> p, children |-> c, nextId |-> n]
--------------------------------------------------------------------------------
LEMMA Keys ==
  \A q, t :
    /\ Real(q)[2] = q /\ Spelled(q)[2] = q
    /\ Real(q) = Real(t) => q = t
    /\ Spelled(q) = Spelled(t) => q = t
    /\ Real(q) = Spelled(t) => q = t /\ spelling = "real"
    /\ spelling = "real" => Real(q) = Spelled(q)
BY DEF Real, Spelled, Artifacts!Real, Artifacts!Spelled

LEMMA KeyOfFiles ==
  ASSUME NEW files, NEW q
  PROVE  /\ Artifacts!KeyIn(files, q) = Real(q) \/ Artifacts!KeyIn(files, q) = Spelled(q)
         /\ q \notin Artifacts!AnyFile => Artifacts!KeyIn(files, q) = Real(q)
         /\ files[q] # Artifacts!Absent => Artifacts!KeyIn(files, q) = Real(q)
BY DEF Real, Spelled, Artifacts!KeyIn

LEMMA GrowsTwice ==
  ASSUME NEW r, NEW s, NEW t, NEW files, NEW Q, NEW R, Grows(r, s, files, Q), Grows(s, t, files, R),
         r.nextId \in Nat
  PROVE  Grows(r, t, files, Q \cup R)
<1>1. Keeps(r.entries, t.entries) /\ Adds(r.entries, t.entries, Q \cup R)
  BY DEF Grows, Keeps, Adds
<1>2. s.nextId \in Nat /\ t.nextId \in Nat /\ \A i \in DOMAIN t.entries : i \in Nat
  BY DEF Grows, Indexes
<1>3. \A i \in DOMAIN t.entries \ DOMAIN r.entries : i >= r.nextId
  BY <1>2 DEF Grows
<1>4. QED
  BY <1>1, <1>2, <1>3 DEF Grows

(* A path without an entry gets one.                                       *)
LEMMA Minted ==
  ASSUME NEW e, NEW p, NEW c, NEW n, Indexes(e, p, n), NEW files, NEW q \in Artifacts!Path,
         NEW key, key = Real(q) \/ key = Spelled(q), NEW x \in {"output", "evidence"},
         \A i \in DOMAIN e : e[i].path # q,
         key = Real(q) \/ (x = "output" /\ q = report),
         (x = "output" /\ q = report) \/ (q \in Artifacts!AnyFile => files[q] # Artifacts!Absent),
         NEW s, s = Artifacts!Mint(Indices(e, p, c, n), key, q, x)
  PROVE  Grows(Indices(e, p, c, n), s, files, {q}) /\ key \in DOMAIN s.paths
<1> DEFINE r == Indices(e, p, c, n)
           one == [path |-> q, purposes |-> {x}, listed |-> FALSE]
           new == [i \in {n} |-> one]
           e2 == Artifacts!Over(new, e)
           p2 == Artifacts!Over([k \in {key} |-> n], p)
<1>0. r.entries = e /\ r.paths = p /\ r.nextId = n /\ r.children = c
  BY DEF Indices
<1>1. s = [r EXCEPT !.entries = e2, !.paths = p2, !.nextId = n + 1]
  BY <1>0 DEF Artifacts!Mint
<1>2. s.entries = e2 /\ s.paths = p2 /\ s.nextId = n + 1
  BY <1>1 DEF Indices
<1>3. new[n] \in Entry /\ new[n].path = q /\ new[n].listed = FALSE /\ (Certain(new[n]) => key = Real(q))
  BY Keys DEF Entry, Certain
<1>4. n \notin DOMAIN e /\ n \in Nat
  BY DEF Indexes
<1>5. DOMAIN e2 = DOMAIN e \cup {n} /\ e2[n] = new[n] /\ \A j \in DOMAIN e : e2[j] = e[j]
  BY <1>4 DEF Artifacts!Over
<1>6. Real(q) \notin DOMAIN p /\ Spelled(q) \notin DOMAIN p
  BY DEF Indexes
<1>7. DOMAIN p2 = DOMAIN p \cup {key} /\ p2[key] = n /\ \A t \in DOMAIN p : p2[t] = p[t]
  BY <1>6 DEF Artifacts!Over
<1>8. spelling # "real" /\ new[n].path \in Artifacts!AnyFile /\ Certain(new[n]) => files[q] # Artifacts!Absent
  BY DEF Certain
<1> HIDE DEF e2, p2, new
<1>9. Indexes(e2, p2, n + 1)
  <2>1. \A i \in DOMAIN e2 : i \in Nat /\ i < n + 1 /\ e2[i] \in Entry
    BY <1>3, <1>4, <1>5 DEF Indexes
  <2>2. OneUnlisted(e2)
    BY <1>3, <1>5 DEF Indexes, OneUnlisted
  <2>3. ASSUME NEW t \in Artifacts!Path, t # q
        PROVE  /\ Real(t) \in DOMAIN p2 <=> Real(t) \in DOMAIN p
               /\ Spelled(t) \in DOMAIN p2 <=> Spelled(t) \in DOMAIN p
               /\ Real(t) \in DOMAIN p => p2[Real(t)] = p[Real(t)]
               /\ Spelled(t) \in DOMAIN p => p2[Spelled(t)] = p[Spelled(t)]
    BY <1>7, <2>3, Keys
  <2>4. ASSUME NEW i \in DOMAIN e
        PROVE  /\ Known(p2, e2[i].path) /\ i <= IdOf(p2, e2[i].path)
               /\ Certain(e2[i]) => Real(e2[i].path) \in DOMAIN p2 /\ p2[Real(e2[i].path)] = i
    <3>1. e[i].path \in Artifacts!Path /\ e[i].path # q /\ e2[i] = e[i]
      BY <1>5 DEF Indexes, Entry
    <3>2. QED
      BY <2>3, <3>1 DEF Indexes, Known, IdOf
  <2>5. /\ Known(p2, e2[n].path) /\ n <= IdOf(p2, e2[n].path)
        /\ Certain(e2[n]) => Real(e2[n].path) \in DOMAIN p2 /\ p2[Real(e2[n].path)] = n
    <3>1. key = Spelled(q) /\ key # Real(q) => Real(q) \notin DOMAIN p2
      BY <1>6, <1>7
    <3>2. IdOf(p2, q) = n /\ Known(p2, q)
      BY <1>7, <3>1 DEF IdOf, Known
    <3>3. QED
      BY <1>3, <1>4, <1>5, <1>7, <3>2
  <2>6. ASSUME NEW t \in Artifacts!Path
        PROVE  /\ Real(t) \in DOMAIN p2 => p2[Real(t)] \in DOMAIN e2 /\ e2[p2[Real(t)]].path = t
               /\ Spelled(t) \in DOMAIN p2 => p2[Spelled(t)] \in DOMAIN e2 /\ e2[p2[Spelled(t)]].path = t
    <3>1. CASE t # q
      BY <1>5, <2>3, <3>1 DEF Indexes
    <3>2. CASE t = q
      BY <1>3, <1>5, <1>6, <1>7, <3>2
    <3>3. QED
      BY <3>1, <3>2
  <2>7. QED
    BY <1>4, <1>5, <2>1, <2>2, <2>4, <2>5, <2>6 DEF Indexes
<1>10. Keeps(e, e2) /\ Adds(e, e2, {q})
  BY <1>3, <1>5 DEF Keeps, Adds
<1>11. Filed(e, files) => Filed(e2, files)
  BY <1>3, <1>5, <1>8 DEF Filed
<1>12. QED
  BY <1>0, <1>2, <1>4, <1>5, <1>7, <1>9, <1>10, <1>11 DEF Grows

(* A path with an id gains a purpose; an evidence file is there.           *)
LEMMA Gained ==
  ASSUME NEW e, NEW p, NEW c, NEW n, Indexes(e, p, n), NEW files, NEW q \in Artifacts!Path,
         NEW key, key = Real(q) \/ key = Spelled(q), key \in DOMAIN p, NEW x \in {"output", "evidence"},
         x = "output" \/ (key = Real(q) /\ (q \in Artifacts!AnyFile => files[q] # Artifacts!Absent)),
         NEW s, s = Artifacts!Indexed(Indices(e, p, c, n), key, q, x)
  PROVE  Grows(Indices(e, p, c, n), s, files, {})
<1> DEFINE r == Indices(e, p, c, n)
           i == p[key]
           e2 == [e EXCEPT ![i] = [e[i] EXCEPT !.purposes = @ \cup {x}]]
<1>0. r.entries = e /\ r.paths = p /\ r.nextId = n /\ r.children = c
  BY DEF Indices
<1>1. s = Indices(e2, p, c, n)
  BY <1>0 DEF Artifacts!Indexed, Indices
<1> HIDE DEF e2
<1>2. s.entries = e2 /\ s.paths = p /\ s.nextId = n /\ s = Indices(e2, p, c, n)
  BY <1>1 DEF Indices
<1>3. i \in DOMAIN e /\ e[i] \in Entry /\ e[i].path = q
  BY DEF Indexes
<1>4. /\ DOMAIN e2 = DOMAIN e
      /\ \A j \in DOMAIN e : e2[j] \in Entry /\ e2[j].path = e[j].path /\ e2[j].listed = e[j].listed
      /\ \A j \in DOMAIN e : j # i => e2[j] = e[j]
      /\ e2[i].purposes = e[i].purposes \cup {x}
  BY <1>3 DEF Indexes, Entry, e2
<1>5. \A j \in DOMAIN e : Certain(e2[j]) => Certain(e[j]) \/ (j = i /\ x = "evidence")
  BY <1>3, <1>4 DEF Certain
<1>6. ASSUME NEW j \in DOMAIN e, Certain(e2[j])
      PROVE  Real(e[j].path) \in DOMAIN p /\ p[Real(e[j].path)] = j
  <2>1. CASE Certain(e[j])
    BY <2>1 DEF Indexes
  <2>2. CASE j = i /\ x = "evidence"
    BY <1>3, <2>2
  <2>3. QED
    BY <1>5, <1>6, <2>1, <2>2
<1> HIDE DEF i
<1>7. Indexes(e2, p, n)
  <2>1. OneUnlisted(e2)
    BY <1>4 DEF Indexes, OneUnlisted
  <2>2. \A j \in DOMAIN e2 : Known(p, e2[j].path) /\ j <= IdOf(p, e2[j].path)
    BY <1>4 DEF Indexes
  <2>3. QED
    BY <1>4, <1>6, <2>1, <2>2 DEF Indexes
<1>8. Keeps(e, e2) /\ Adds(e, e2, {})
  BY <1>4 DEF Keeps, Adds
<1>9. Filed(e, files) => Filed(e2, files)
  BY <1>3, <1>4, <1>5 DEF Filed
<1>10. n \in Nat
  BY DEF Indexes
<1>11. n <= n
  BY <1>10
<1>12. QED
  BY <1>0, <1>2, <1>4, <1>7, <1>8, <1>9, <1>11 DEF Grows

(* A declaration finds what the path has, or there is nothing.             *)
Declarable(r, files, q) == \A i \in DOMAIN r.entries : r.entries[i].path = q => Artifacts!KeyIn(files, q) \in DOMAIN r.paths

LEMMA DeclaredGrows ==
  ASSUME NEW e, NEW p, NEW c, NEW n, Indexes(e, p, n), NEW files, NEW q \in Artifacts!Path,
         q \in Artifacts!AnyFile => q = report, Declarable(Indices(e, p, c, n), files, q),
         NEW s, s = Artifacts!Declare(Indices(e, p, c, n), files, q)
  PROVE  /\ Grows(Indices(e, p, c, n), s, files, {q}) /\ Artifacts!KeyIn(files, q) \in DOMAIN s.paths
         /\ s = Indices(s.entries, s.paths, s.children, s.nextId)
<1> DEFINE r == Indices(e, p, c, n)
<1>0. r.entries = e /\ r.paths = p /\ r.nextId = n /\ r.children = c
  BY DEF Indices
<1>9. PICK key : key = Artifacts!KeyIn(files, q)
  OBVIOUS
<1>1. (key = Real(q) \/ key = Spelled(q)) /\ (key = Real(q) \/ q = report)
  BY <1>9, KeyOfFiles
<1>2. s = Artifacts!Indexed(r, key, q, "output")
  BY <1>9 DEF Artifacts!Declare
<1>3. CASE key \in DOMAIN p
  <2>1. Grows(r, s, files, {})
    BY <1>1, <1>2, <1>3, Gained
  <2>2. s = Indices(s.entries, p, c, n) /\ s.paths = p /\ s.children = c /\ s.nextId = n
    BY <1>0, <1>2, <1>3 DEF Artifacts!Indexed, Indices
  <2>3. Grows(r, s, files, {q})
    BY <2>1 DEF Grows, Adds
  <2>4. QED
    BY <1>3, <1>9, <2>1, <2>2, <2>3
<1>4. CASE key \notin DOMAIN p
  <2>1. \A i \in DOMAIN e : e[i].path # q
    BY <1>0, <1>4, <1>9 DEF Declarable
  <2>2. s = Artifacts!Mint(r, key, q, "output")
    BY <1>0, <1>2, <1>4 DEF Artifacts!Indexed
  <2>3. Grows(r, s, files, {q}) /\ key \in DOMAIN s.paths
    BY <1>1, <2>1, <2>2, Minted
  <2>4. s = Indices(s.entries, s.paths, s.children, s.nextId)
    BY <2>2 DEF Artifacts!Mint, Indices
  <2>5. QED
    BY <1>9, <2>3, <2>4
<1>5. QED
  BY <1>3, <1>4

(* Registering a file that is there.                                       *)
LEMMA EvidenceGrows ==
  ASSUME NEW e, NEW p, NEW c, NEW n, Indexes(e, p, n), NEW files, NEW q \in Artifacts!AnyFile,
         files[q] # Artifacts!Absent, NEW s, s = Artifacts!IndexEvidence(Indices(e, p, c, n), q)
  PROVE  Grows(Indices(e, p, c, n), s, files, {q})
<1> DEFINE r == Indices(e, p, c, n)
           known == Real(q) \notin DOMAIN p /\ Spelled(q) \in DOMAIN p
           p2 == IF known THEN Artifacts!Over([k \in {Real(q)} |-> p[Spelled(q)]], p) ELSE p
           r2 == Indices(e, p2, c, n)
<1>0. /\ r.entries = e /\ r.paths = p /\ r.nextId = n /\ r.children = c
      /\ r2.entries = e /\ r2.paths = p2 /\ r2.nextId = n /\ r2.children = c
  BY DEF Indices
<1>1. s = Artifacts!Indexed(r2, Real(q), q, "evidence")
  <2>1. s = Artifacts!Indexed(IF known THEN [r EXCEPT !.paths = p2] ELSE r, Real(q), q, "evidence")
    BY <1>0 DEF Artifacts!IndexEvidence, Real, Spelled
  <2>2. (IF known THEN [r EXCEPT !.paths = p2] ELSE r) = r2
    BY DEF Indices
  <2>3. QED
    BY <2>1, <2>2
<1>2. q \in Artifacts!Path
  BY DEF Artifacts!Path
<1>3. /\ DOMAIN p2 = DOMAIN p \cup (IF known THEN {Real(q)} ELSE {})
      /\ \A k \in DOMAIN p : p2[k] = p[k]
      /\ known => p2[Real(q)] = p[Spelled(q)]
  BY DEF Artifacts!Over
<1> HIDE DEF p2
<1>4. Grows(r, r2, files, {})
  <2>1. CASE ~known
    <3>1. p2 = p
      BY <2>1 DEF p2
    <3>2. Keeps(e, e) /\ Adds(e, e, {}) /\ n <= n
      BY DEF Keeps, Adds, Indexes
    <3>3. QED
      BY <1>0, <3>1, <3>2 DEF Grows
  <2>2. CASE known
    <3>0. spelling # "real"
      BY <2>2, Keys
    <3>1. p[Spelled(q)] \in DOMAIN e /\ e[p[Spelled(q)]].path = q
      BY <1>2, <2>2 DEF Indexes
    <3>2. ASSUME NEW t \in Artifacts!Path, t # q
          PROVE  /\ Real(t) \in DOMAIN p2 <=> Real(t) \in DOMAIN p
                 /\ Real(t) \in DOMAIN p => p2[Real(t)] = p[Real(t)]
      BY <1>3, <3>2, Keys
    <3>3. ASSUME NEW t \in Artifacts!Path
          PROVE  /\ Spelled(t) \in DOMAIN p2 <=> Spelled(t) \in DOMAIN p
                 /\ Spelled(t) \in DOMAIN p => p2[Spelled(t)] = p[Spelled(t)]
      BY <1>3, <3>0, Keys
    <3>4. ASSUME NEW i \in DOMAIN e
          PROVE  /\ Known(p2, e[i].path) /\ i <= IdOf(p2, e[i].path)
                 /\ Certain(e[i]) => Real(e[i].path) \in DOMAIN p2 /\ p2[Real(e[i].path)] = i
      <4>1. e[i].path \in Artifacts!Path
        BY DEF Indexes, Entry
      <4>2. Known(p, e[i].path) /\ i <= IdOf(p, e[i].path)
            /\ (Certain(e[i]) => Real(e[i].path) \in DOMAIN p /\ p[Real(e[i].path)] = i)
        BY DEF Indexes
      <4>3. CASE e[i].path # q
        BY <3>2, <3>3, <4>1, <4>2, <4>3 DEF Known, IdOf
      <4>4. CASE e[i].path = q
        BY <1>3, <2>2, <4>2, <4>4 DEF Known, IdOf
      <4>5. QED
        BY <4>3, <4>4
    <3>5. ASSUME NEW t \in Artifacts!Path
          PROVE  /\ Real(t) \in DOMAIN p2 => p2[Real(t)] \in DOMAIN e /\ e[p2[Real(t)]].path = t
                 /\ Spelled(t) \in DOMAIN p2 => p2[Spelled(t)] \in DOMAIN e /\ e[p2[Spelled(t)]].path = t
      <4>1. CASE t # q
        BY <3>2, <3>3, <4>1 DEF Indexes
      <4>2. CASE t = q
        BY <1>3, <2>2, <3>1, <3>3, <4>2
      <4>3. QED
        BY <4>1, <4>2
    <3>6. Indexes(e, p2, n)
      BY <3>4, <3>5 DEF Indexes
    <3>7. Keeps(e, e) /\ Adds(e, e, {}) /\ n <= n
      BY DEF Keeps, Adds, Indexes
    <3>8. QED
      BY <1>0, <1>3, <3>6, <3>7 DEF Grows
  <2>3. QED
    BY <2>1, <2>2
<1>5. Indexes(e, p2, n) /\ n \in Nat
  BY <1>0, <1>4 DEF Grows, Indexes
<1>6. Grows(r2, s, files, {q})
  <2>1. CASE Real(q) \in DOMAIN p2
    <3>1. Grows(r2, s, files, {})
      BY <1>1, <1>2, <1>5, <2>1, Gained
    <3>2. QED
      BY <3>1 DEF Grows, Adds
  <2>2. CASE Real(q) \notin DOMAIN p2
    <3>1. s = Artifacts!Mint(r2, Real(q), q, "evidence")
      BY <1>0, <1>1, <2>2 DEF Artifacts!Indexed
    <3>2. Spelled(q) \notin DOMAIN p2
      BY <1>3, <2>2
    <3>3. \A i \in DOMAIN e : e[i].path # q
      BY <1>5, <2>2, <3>2 DEF Indexes, Known
    <3>4. QED
      BY <1>2, <1>5, <3>1, <3>3, Minted
  <2>3. QED
    BY <2>1, <2>2
<1>7. Grows(r, s, files, {} \cup {q})
  BY <1>0, <1>4, <1>5, <1>6, GrowsTwice
<1>8. QED
  BY <1>7

(* Listing a directory gives each file that no index knows an id of its    *)
(* own.                                                                    *)
LEMMA ListingGrows ==
  ASSUME NEW e, NEW p, NEW c, NEW n, Indexes(e, p, n), NEW next \in Nat, n <= next,
         NEW fresh \in Artifacts!FreshIds(Indices(e, p, c, n), next),
         NEW s, s = Artifacts!ListDirectory(Indices(e, p, c, n), fresh, next)
  PROVE  Grows(Indices(e, p, c, n), s, content, Listed)
<1> DEFINE r == Indices(e, p, c, n)
           U == Artifacts!Unknown(r)
           known == {p[Real(f)] : f \in Artifacts!Unlisted(r) \ DOMAIN fresh}
           file == Artifacts!AntiFunction(fresh)
           new == [i \in Artifacts!Range(fresh) |-> [path |-> file[i], purposes |-> {"output"}, listed |-> TRUE]]
           old == [i \in DOMAIN e |->
                    IF i \in known THEN [e[i] EXCEPT !.purposes = @ \cup {"output"}, !.listed = TRUE] ELSE e[i]]
           e2 == Artifacts!Over(new, old)
           ids == [k \in {Real(f) : f \in DOMAIN fresh} |-> fresh[k[2]]]
           p2 == Artifacts!Over(ids, p)
           keys == {<<p[Real(Dir)], f>> : f \in Artifacts!Unlisted(r)}
           c2 == Artifacts!Over([k \in keys |-> p2[Real(k[2])]], c)
<1>0. r.entries = e /\ r.paths = p /\ r.nextId = n /\ r.children = c
  BY DEF Indices
<1>1. U \subseteq Listed /\ \A f \in U : Real(f) \notin DOMAIN p /\ content[f] # Artifacts!Absent
  BY <1>0 DEF Artifacts!Unknown, Artifacts!Unlisted, Artifacts!Present, Real
<1>2. fresh \in [U -> n .. (next - 1)] /\ \A f, g \in U : fresh[f] = fresh[g] => f = g
  <2>1. fresh \in Artifacts!Bijection(U, n .. (next - 1))
    BY <1>0 DEF Artifacts!FreshIds
  <2> HIDE DEF U
  <2>2. QED
    BY <2>1 DEF Artifacts!Bijection, Artifacts!Injection, Artifacts!IsInjective
<1>3. \A i \in Artifacts!Range(fresh) : file[i] \in U /\ fresh[file[i]] = i
  BY <1>2 DEF Artifacts!AntiFunction, Artifacts!Inverse, Artifacts!Range
<1>4. s.entries = e2 /\ s.paths = p2 /\ s.nextId = next
  <2>1. s = [r EXCEPT !.entries = e2, !.paths = p2, !.children = c2, !.nextId = next]
    BY <1>0 DEF Artifacts!ListDirectory, Real, Dir, Artifacts!Dir
  <2> HIDE DEF e2, p2, c2
  <2>2. QED
    BY <2>1 DEF Indices
<1>5. DOMAIN new = Artifacts!Range(fresh)
      /\ \A i \in DOMAIN new : /\ i \in n .. (next - 1) /\ new[i] \in Entry
                               /\ new[i].path \in U /\ fresh[new[i].path] = i /\ new[i].listed = TRUE
  BY <1>1, <1>2, <1>3 DEF Artifacts!Range, Entry, Artifacts!Path, Artifacts!AnyFile
<1>6. DOMAIN old = DOMAIN e
      /\ \A i \in DOMAIN e : /\ old[i] \in Entry /\ old[i].path = e[i].path
                             /\ Certain(old[i]) <=> Certain(e[i])
                             /\ ~old[i].listed => ~e[i].listed
  <2>1. DOMAIN old = DOMAIN e
    OBVIOUS
  <2>2. ASSUME NEW i \in DOMAIN e
        PROVE  /\ old[i] \in Entry /\ old[i].path = e[i].path
               /\ old[i].purposes = e[i].purposes \/ old[i].purposes = e[i].purposes \cup {"output"}
               /\ old[i].listed = TRUE \/ old[i].listed = e[i].listed
    <3>1. e[i] \in Entry
      BY DEF Indexes
    <3>2. old[i] = IF i \in known THEN [e[i] EXCEPT !.purposes = @ \cup {"output"}, !.listed = TRUE] ELSE e[i]
      OBVIOUS
    <3> HIDE DEF old, known
    <3>3. QED
      BY <3>1, <3>2 DEF Entry
  <2> HIDE DEF old
  <2>3. ASSUME NEW i \in DOMAIN e
        PROVE  (Certain(old[i]) <=> Certain(e[i])) /\ (~old[i].listed => ~e[i].listed)
    <3>0. old[i].purposes = e[i].purposes \/ old[i].purposes = e[i].purposes \cup {"output"}
      BY <2>2
    <3>1. "evidence" \in old[i].purposes <=> "evidence" \in e[i].purposes
      BY <3>0
    <3>2. Certain(old[i]) <=> Certain(e[i])
      BY <2>2, <3>1 DEF Certain
    <3>3. ~old[i].listed => ~e[i].listed
      BY <2>2
    <3>4. QED
      BY <3>2, <3>3
  <2>4. QED
    BY <2>1, <2>2, <2>3
<1> HIDE DEF new, old, file, known, U
<1>7. \A f \in U : fresh[f] \in DOMAIN new /\ new[fresh[f]].path = f
  BY <1>2, <1>5 DEF Artifacts!Range
<1>8. DOMAIN new \cap DOMAIN e = {} /\ n \in Nat
  BY <1>1, <1>5 DEF Indexes
<1>9. /\ DOMAIN e2 = DOMAIN new \cup DOMAIN e
      /\ \A i \in DOMAIN new : e2[i] = new[i]
      /\ \A i \in DOMAIN e : e2[i] = old[i]
  BY <1>6, <1>8 DEF Artifacts!Over
<1>10. DOMAIN ids = {Real(f) : f \in U} /\ \A f \in U : ids[Real(f)] = fresh[f]
  BY <1>2, Keys
<1> HIDE DEF ids
<1>11. /\ DOMAIN p2 = {Real(f) : f \in U} \cup DOMAIN p
       /\ \A f \in U : Real(f) \in DOMAIN p2 /\ p2[Real(f)] = fresh[f]
       /\ \A k \in DOMAIN p : p2[k] = p[k]
  BY <1>1, <1>10 DEF Artifacts!Over
<1> HIDE DEF e2, p2
<1>12. \A q : (Real(q) \in DOMAIN p2 => q \in U \/ Real(q) \in DOMAIN p)
  BY <1>11, Keys
<1>13. \A q : (Spelled(q) \in DOMAIN p2 => Spelled(q) \in DOMAIN p \/ (q \in U /\ Real(q) = Spelled(q)))
  BY <1>11, Keys
<1>14. Indexes(e2, p2, next)
  <2>1. \A i \in DOMAIN e2 : i \in Nat /\ i < next /\ e2[i] \in Entry
    BY <1>5, <1>6, <1>8, <1>9 DEF Indexes
  <2>2. OneUnlisted(e2)
    BY <1>5, <1>6, <1>8, <1>9 DEF Indexes, OneUnlisted
  <2>3. ASSUME NEW i \in DOMAIN new
        PROVE  /\ Known(p2, e2[i].path) /\ i <= IdOf(p2, e2[i].path)
               /\ Real(e2[i].path) \in DOMAIN p2 /\ p2[Real(e2[i].path)] = i
    <3>1. e2[i].path \in U /\ fresh[e2[i].path] = i /\ i \in Nat
      BY <1>5, <1>8, <1>9
    <3>2. QED
      BY <1>11, <3>1 DEF Known, IdOf
  <2>4. ASSUME NEW i \in DOMAIN e
        PROVE  /\ Known(p2, e2[i].path) /\ i <= IdOf(p2, e2[i].path)
               /\ Certain(e2[i]) => Real(e2[i].path) \in DOMAIN p2 /\ p2[Real(e2[i].path)] = i
    <3>1. e2[i].path = e[i].path /\ (Certain(e2[i]) <=> Certain(e[i])) /\ i \in Nat /\ i < n
      BY <1>6, <1>9 DEF Indexes
    <3>2. /\ Known(p, e[i].path) /\ i <= IdOf(p, e[i].path)
          /\ Certain(e[i]) => Real(e[i].path) \in DOMAIN p /\ p[Real(e[i].path)] = i
      BY DEF Indexes
    <3>3. CASE Real(e[i].path) \in DOMAIN p
      BY <1>11, <3>1, <3>2, <3>3 DEF Known, IdOf
    <3>4. CASE Real(e[i].path) \notin DOMAIN p /\ e[i].path \in U
      <4>1. p2[Real(e[i].path)] >= n /\ p2[Real(e[i].path)] \in Nat /\ Real(e[i].path) \in DOMAIN p2
        BY <1>2, <1>8, <1>11, <3>4
      <4>2. QED
        BY <1>8, <3>1, <3>2, <3>4, <4>1 DEF Known, IdOf
    <3>5. CASE Real(e[i].path) \notin DOMAIN p /\ e[i].path \notin U
      <4>1. Real(e[i].path) \notin DOMAIN p2
        BY <1>12, <3>5
      <4>2. QED
        BY <1>11, <3>1, <3>2, <3>5, <4>1 DEF Known, IdOf
    <3>6. QED
      BY <3>3, <3>4, <3>5
  <2>5. ASSUME NEW q \in U PROVE fresh[q] \in DOMAIN e2 /\ e2[fresh[q]].path = q
    BY <1>7, <1>9
  <2>6. ASSUME NEW k \in DOMAIN p, NEW q \in Artifacts!Path, k = Real(q) \/ k = Spelled(q)
        PROVE  p2[k] \in DOMAIN e2 /\ e2[p2[k]].path = q
    <3>1. p[k] \in DOMAIN e /\ e[p[k]].path = q
      BY <2>6 DEF Indexes
    <3>2. QED
      BY <1>6, <1>9, <1>11, <3>1
  <2>7. ASSUME NEW q \in Artifacts!Path
        PROVE  /\ Real(q) \in DOMAIN p2 => p2[Real(q)] \in DOMAIN e2 /\ e2[p2[Real(q)]].path = q
               /\ Spelled(q) \in DOMAIN p2 => p2[Spelled(q)] \in DOMAIN e2 /\ e2[p2[Spelled(q)]].path = q
    BY <1>11, <1>12, <1>13, <2>5, <2>6
  <2>8. QED
    BY <1>9, <2>1, <2>2, <2>3, <2>4, <2>7 DEF Indexes
<1>15. Keeps(e, e2)
  BY <1>6, <1>9 DEF Keeps
<1>16. \A i \in DOMAIN e2 \ DOMAIN e : i >= n
  BY <1>5, <1>8, <1>9
<1>17. Adds(e, e2, Listed)
  BY <1>1, <1>5, <1>6, <1>9 DEF Adds
<1>18. Filed(e, content) => Filed(e2, content)
  BY <1>1, <1>5, <1>6, <1>9 DEF Filed
<1>19. QED
  BY <1>0, <1>4, <1>11, <1>14, <1>15, <1>16, <1>17, <1>18 DEF Grows

(* What the checkpoints record is about ids minted before.                 *)
LEMMA GrowsRecorded ==
  ASSUME NEW r, NEW s, NEW files, NEW Q, Grows(r, s, files, Q), NEW sv, Recorded(sv, r.entries, r.nextId),
         r.nextId \in Nat
  PROVE  Recorded(sv, s.entries, s.nextId)
<1>1. s.nextId \in Nat
  BY DEF Grows, Indexes
<1>2. ASSUME NEW u \in Unit
      PROVE  Snapshot(sv[u].entries, u, s.nextId) /\ Agree(sv[u].entries, s.entries)
  <2>1. Snapshot(sv[u].entries, u, r.nextId) /\ Agree(sv[u].entries, r.entries)
    BY DEF Recorded
  <2>2. Snapshot(sv[u].entries, u, s.nextId)
    BY <1>1, <2>1 DEF Snapshot, Grows
  <2>3. Agree(sv[u].entries, s.entries)
    BY <2>1 DEF Snapshot, Grows, Agree, Keeps
  <2>4. QED
    BY <2>2, <2>3
<1>3. QED
  BY <1>2 DEF Recorded

LEMMA KeepsTwice ==
  ASSUME NEW e, NEW f, NEW g, Keeps(e, f), Keeps(f, g)
  PROVE  Keeps(e, g)
BY DEF Keeps

(* Knowledge.json is the Reader's, everything else the Collector's.        *)
LEMMA Owners ==
  /\ Artifacts!Unit = Unit /\ Artifacts!Collector = Collector /\ Artifacts!Reader = Reader
  /\ Collector \in Unit /\ Reader \in Unit /\ Collector # Reader /\ \A u \in Unit : u = Collector \/ u = Reader
  /\ Artifacts!Dir = Dir /\ Artifacts!Knowledge = Knowledge
  /\ \A q \in Artifacts!AnyFile : q \in Artifacts!Path /\ Artifacts!Owner(q) = Collector
  /\ \A q : Artifacts!Owner(q) = Reader => q = Knowledge /\ q \notin Artifacts!AnyFile
  /\ Artifacts!Owner(Dir) = Collector /\ Artifacts!Owner(Knowledge) = Reader
  /\ Dir \in Artifacts!Path /\ Knowledge \in Artifacts!Path
  /\ Dir \notin Artifacts!AnyFile /\ Knowledge \notin Artifacts!AnyFile
BY EvidenceAssumption
   DEF Unit, Collector, Reader, Dir, Knowledge, Artifacts!Unit, Artifacts!Collector, Artifacts!Reader,
       Artifacts!Dir, Artifacts!Knowledge, Artifacts!AnyFile, Artifacts!Path, Artifacts!Owner

LEMMA LiveIndices ==
  /\ Artifacts!Live = Indices(entries, paths, children, nextId)
  /\ Artifacts!Live.entries = entries /\ Artifacts!Live.paths = paths /\ Artifacts!Live.nextId = nextId
BY DEF Artifacts!Live, Indices

(* A restore gives a unit without entries those of its snapshot, and finds *)
(* every path of them again by the key it has with the restored files.     *)
LEMMA Restored ==
  ASSUME NEW e, NEW p, NEW c, NEW n, Indexes(e, p, n), NEW sv, Recorded(sv, e, n), NEW u \in Unit,
         \A i \in DOMAIN e : Owner(e, i) # u, NEW files, Filed(sv[u].entries, files),
         NEW s, s = Artifacts!RestoreWorkspace(Indices(e, p, c, n), u, sv[u].entries, files)
  PROVE  /\ s = Indices(s.entries, s.paths, s.children, s.nextId)
         /\ Indexes(s.entries, s.paths, s.nextId) /\ Recorded(sv, s.entries, s.nextId)
         /\ Keeps(e, s.entries) /\ Keeps(sv[u].entries, s.entries)
         /\ \A i \in DOMAIN s.entries : \/ i \in DOMAIN e /\ s.entries[i] = e[i]
                                        \/ i \in DOMAIN sv[u].entries /\ s.entries[i] = sv[u].entries[i]
         /\ \A q \in Artifacts!Path : Artifacts!Owner(q) = u => Declarable(s, files, q)
<1> DEFINE r == Indices(e, p, c, n)
           z == sv[u].entries
           others == Artifacts!Kept(r, u)
           own == DOMAIN e \ others
           back == {z[i].path : i \in DOMAIN z}
           Of(q) == {i \in DOMAIN z : z[i].path = q}
           Id(q) == CHOOSE i \in Of(q) : \A j \in Of(q) : j <= i
           e2 == Artifacts!Over(z, Artifacts!Restrict(e, others))
           ids == [k \in {Artifacts!KeyIn(files, q) : q \in back} |-> Id(k[2])]
           gone == {Artifacts!KeyIn(files, e[i].path) : i \in own}
           p2 == Artifacts!Over(ids, Artifacts!Restrict(p, DOMAIN p \ gone))
<1>0. r.entries = e /\ r.paths = p /\ r.nextId = n /\ r.children = c
  BY DEF Indices
<1>1. PICK c2 : s = Indices(e2, p2, c2, n)
  BY <1>0 DEF Artifacts!RestoreWorkspace, Indices
<1>2. s.entries = e2 /\ s.paths = p2 /\ s.nextId = n /\ s.children = c2
  BY <1>1 DEF Indices
<1>3. others = DOMAIN e /\ own = {} /\ gone = {}
  BY <1>0 DEF Artifacts!Kept, Owner
<1>4. Snapshot(z, u, n) /\ Agree(z, e)
  BY DEF Recorded
<1>5. ASSUME NEW i \in DOMAIN z
      PROVE  LET b == Id(z[i].path) IN
             b \in DOMAIN z /\ z[b].path = z[i].path /\ \A j \in DOMAIN z : z[j].path = z[i].path => j <= b
  <2>1. PICK b \in DOMAIN z : LastOf(z, b, i)
    BY <1>4 DEF Snapshot
  <2>2. b \in Of(z[i].path) /\ \A j \in Of(z[i].path) : j <= b
    BY <2>1 DEF LastOf
  <2>3. Id(z[i].path) \in Of(z[i].path) /\ \A j \in Of(z[i].path) : j <= Id(z[i].path)
    BY <2>2
  <2>4. QED
    BY <2>3
<1>6. \A q \in back : /\ Id(q) \in DOMAIN z /\ z[Id(q)].path = q
                      /\ \A j \in DOMAIN z : z[j].path = q => j <= Id(q)
  <2>1. ASSUME NEW q \in back
        PROVE  /\ Id(q) \in DOMAIN z /\ z[Id(q)].path = q
               /\ \A j \in DOMAIN z : z[j].path = q => j <= Id(q)
    <3>1. PICK i \in DOMAIN z : q = z[i].path
      OBVIOUS
    <3> HIDE DEF Id
    <3>2. QED
      BY <1>5, <3>1
  <2>2. QED
    BY <2>1
<1>7. \A i \in DOMAIN z : z[i].path \in back
  OBVIOUS
<1>8. /\ DOMAIN ids = {Artifacts!KeyIn(files, q) : q \in back}
      /\ \A q \in back : ids[Artifacts!KeyIn(files, q)] = Id(q)
  <2>1. \A q : Artifacts!KeyIn(files, q)[2] = q
    BY Keys, KeyOfFiles
  <2> HIDE DEF Id, back
  <2>2. QED
    BY <2>1
<1>9. DOMAIN Artifacts!Restrict(e, others) = DOMAIN e /\ \A i \in DOMAIN e : Artifacts!Restrict(e, others)[i] = e[i]
  BY <1>3 DEF Artifacts!Restrict
<1>10. /\ DOMAIN Artifacts!Restrict(p, DOMAIN p \ gone) = DOMAIN p
       /\ \A k \in DOMAIN p : Artifacts!Restrict(p, DOMAIN p \ gone)[k] = p[k]
  BY <1>3 DEF Artifacts!Restrict
<1>11. \A q \in back : q \in Artifacts!Path /\ Artifacts!Owner(q) = u
  BY <1>4 DEF Snapshot, Owner, Entry
<1> HIDE DEF ids, Id, back, others, own, gone, z
<1>12. DOMAIN z \cap DOMAIN e = {}
  <2>1. ASSUME NEW i \in DOMAIN z, i \in DOMAIN e PROVE FALSE
    <3>1. Artifacts!Owner(e[i].path) # u /\ Artifacts!Owner(z[i].path) = u
      BY <1>4, <2>1 DEF Snapshot, Owner
    <3>2. z[i].path = e[i].path
      BY <1>4, <2>1 DEF Agree
    <3>3. QED
      BY <3>1, <3>2
  <2>2. QED
    BY <2>1
<1>13. /\ DOMAIN e2 = DOMAIN z \cup DOMAIN e
       /\ \A i \in DOMAIN z : e2[i] = z[i]
       /\ \A i \in DOMAIN e : e2[i] = e[i]
  BY <1>9, <1>12 DEF Artifacts!Over
<1>14. \A q \in Artifacts!Path : Artifacts!Owner(q) = u => Real(q) \notin DOMAIN p /\ Spelled(q) \notin DOMAIN p
  BY DEF Indexes, Owner
<1>15. \A q \in back : Artifacts!KeyIn(files, q) \notin DOMAIN p
  BY <1>11, <1>14, KeyOfFiles
<1>16. /\ DOMAIN p2 = DOMAIN ids \cup DOMAIN p
       /\ \A k \in DOMAIN ids : p2[k] = ids[k]
       /\ \A k \in DOMAIN p : p2[k] = p[k]
  <2>1. DOMAIN ids \cap DOMAIN p = {}
    BY <1>8, <1>15
  <2>2. QED
    BY <1>10, <2>1 DEF Artifacts!Over
<1> HIDE DEF e2, p2
<1>17. ASSUME NEW q \in Artifacts!Path, Artifacts!Owner(q) # u
       PROVE  /\ Real(q) \in DOMAIN p2 <=> Real(q) \in DOMAIN p
              /\ Spelled(q) \in DOMAIN p2 <=> Spelled(q) \in DOMAIN p
              /\ Real(q) \in DOMAIN p => p2[Real(q)] = p[Real(q)]
              /\ Spelled(q) \in DOMAIN p => p2[Spelled(q)] = p[Spelled(q)]
  <2>1. ASSUME NEW t \in back PROVE Artifacts!KeyIn(files, t) # Real(q) /\ Artifacts!KeyIn(files, t) # Spelled(q)
    <3>1. t # q
      BY <1>11, <1>17
    <3>2. QED
      BY <3>1, Keys, KeyOfFiles
  <2>2. Real(q) \notin DOMAIN ids /\ Spelled(q) \notin DOMAIN ids
    BY <1>8, <2>1
  <2>3. QED
    BY <1>16, <2>2
<1>18. ASSUME NEW q \in Artifacts!Path, Artifacts!Owner(q) = u, NEW k, k = Real(q) \/ k = Spelled(q), k \in DOMAIN p2
       PROVE  q \in back /\ k = Artifacts!KeyIn(files, q) /\ p2[k] = Id(q)
  <2>1. k \in DOMAIN ids
    BY <1>14, <1>16, <1>18
  <2>2. PICK t \in back : k = Artifacts!KeyIn(files, t)
    BY <1>8, <2>1
  <2>3. t = q
    BY <1>18, <2>2, Keys, KeyOfFiles
  <2>4. QED
    BY <1>8, <1>16, <2>1, <2>2, <2>3
<1>19. \A q \in back : Artifacts!KeyIn(files, q) \in DOMAIN p2 /\ p2[Artifacts!KeyIn(files, q)] = Id(q)
  BY <1>8, <1>16
<1>20. Indexes(e2, p2, n)
  <2>1. n \in Nat /\ \A i \in DOMAIN e2 : i \in Nat /\ i < n /\ e2[i] \in Entry
    BY <1>4, <1>13 DEF Indexes, Snapshot
  <2>2. OneUnlisted(e2)
    <3>1. ASSUME NEW i \in DOMAIN z, NEW j \in DOMAIN e PROVE z[i].path # e[j].path
      BY <1>4, <3>1 DEF Snapshot, Owner
    <3>2. QED
      BY <1>4, <1>13, <3>1 DEF Indexes, Snapshot, OneUnlisted
  <2>3. ASSUME NEW i \in DOMAIN e
        PROVE  /\ Known(p2, e2[i].path) /\ i <= IdOf(p2, e2[i].path)
               /\ Certain(e2[i]) => Real(e2[i].path) \in DOMAIN p2 /\ p2[Real(e2[i].path)] = i
    <3>1. e[i].path \in Artifacts!Path /\ Artifacts!Owner(e[i].path) # u /\ e2[i] = e[i]
      BY <1>13 DEF Indexes, Entry, Owner
    <3>2. QED
      BY <1>17, <3>1 DEF Indexes, Known, IdOf
  <2>4. ASSUME NEW i \in DOMAIN z
        PROVE  /\ Known(p2, e2[i].path) /\ i <= IdOf(p2, e2[i].path)
               /\ Certain(e2[i]) => Real(e2[i].path) \in DOMAIN p2 /\ p2[Real(e2[i].path)] = i
    <3> DEFINE q == z[i].path
               k == Artifacts!KeyIn(files, q)
    <3>1. q \in back /\ q \in Artifacts!Path /\ Artifacts!Owner(q) = u /\ e2[i] = z[i] /\ i \in Nat
      BY <1>4, <1>7, <1>11, <1>13 DEF Snapshot
    <3>2. k \in DOMAIN p2 /\ p2[k] = Id(q) /\ (k = Real(q) \/ k = Spelled(q))
      BY <1>19, <3>1, KeyOfFiles
    <3>3. i <= Id(q) /\ Id(q) \in Nat
      BY <1>4, <1>6, <3>1 DEF Snapshot
    <3>4. Real(q) \in DOMAIN p2 => p2[Real(q)] = Id(q)
      BY <1>18, <3>1
    <3> HIDE DEF k
    <3>5. Known(p2, q) /\ IdOf(p2, q) = Id(q)
      BY <3>2, <3>4 DEF Known, IdOf
    <3>6. ASSUME Certain(z[i]) PROVE k = Real(q) /\ Id(q) = i
      <4>1. spelling = "real" \/ q \notin Artifacts!AnyFile \/ files[q] # Artifacts!Absent
        BY <3>6 DEF Filed, z
      <4>2. k = Real(q)
        BY <4>1, Keys, KeyOfFiles DEF k
      <4>3. Id(q) <= i
        BY <1>4, <1>6, <3>1, <3>6 DEF Snapshot, LastOf
      <4>4. QED
        BY <3>1, <3>3, <4>2, <4>3
    <3>7. QED
      BY <3>1, <3>2, <3>3, <3>5, <3>6
  <2>5. ASSUME NEW q \in Artifacts!Path, NEW k, k = Real(q) \/ k = Spelled(q), k \in DOMAIN p2
        PROVE  p2[k] \in DOMAIN e2 /\ e2[p2[k]].path = q
    <3>1. CASE Artifacts!Owner(q) = u
      BY <1>6, <1>13, <1>18, <2>5, <3>1
    <3>2. CASE Artifacts!Owner(q) # u
      <4>1. k \in DOMAIN p /\ p2[k] = p[k]
        BY <1>17, <2>5, <3>2
      <4>2. p[k] \in DOMAIN e /\ e[p[k]].path = q
        BY <2>5, <4>1 DEF Indexes
      <4>3. QED
        BY <1>13, <4>1, <4>2
    <3>3. QED
      BY <3>1, <3>2
  <2>6. QED
    BY <1>13, <2>1, <2>2, <2>3, <2>4, <2>5 DEF Indexes
<1>21. Keeps(z, e2) /\ Keeps(e, e2)
  BY <1>13 DEF Keeps
<1>22. ASSUME NEW v \in Unit PROVE Agree(sv[v].entries, e2)
  <2>1. Agree(sv[v].entries, z) /\ Agree(sv[v].entries, e)
    BY DEF Recorded, z
  <2>2. QED
    BY <1>13, <2>1 DEF Agree
<1>23. Recorded(sv, e2, n)
  BY <1>22 DEF Recorded
<1>24. ASSUME NEW q \in Artifacts!Path, Artifacts!Owner(q) = u PROVE Declarable(s, files, q)
  <2>1. ASSUME NEW i \in DOMAIN e2, e2[i].path = q PROVE q \in back
    BY <1>7, <1>13, <1>24, <2>1 DEF Owner
  <2>2. QED
    BY <1>2, <1>19, <2>1 DEF Declarable
<1>25. QED
  BY <1>1, <1>2, <1>13, <1>20, <1>21, <1>23, <1>24 DEF z

(* A unit declares its artifacts.                                          *)
LEMMA AllDeclared ==
  ASSUME NEW e, NEW p, NEW c, NEW n, Indexes(e, p, n), NEW files, NEW u \in Unit,
         report \in Listed \cup {Dir},
         \A q \in Artifacts!Path : Artifacts!Owner(q) = u => Declarable(Indices(e, p, c, n), files, q),
         NEW s, s = Artifacts!DeclareAll(Indices(e, p, c, n), files, u)
  PROVE  Grows(Indices(e, p, c, n), s, files, {q \in Artifacts!Path : Artifacts!Owner(q) = u})
<1> DEFINE r == Indices(e, p, c, n)
           Q == {q \in Artifacts!Path : Artifacts!Owner(q) = u}
<1>0. r.entries = e /\ r.paths = p /\ r.nextId = n /\ n \in Nat
  BY DEF Indices, Indexes
<1>1. CASE u = Collector
  <2> DEFINE t == Artifacts!Declare(r, files, Dir)
  <2>1. s = Artifacts!Declare(t, files, report)
    BY <1>1, Owners DEF Artifacts!DeclareAll
  <2>2. report \in Artifacts!Path /\ Artifacts!Owner(report) = u
    BY <1>1, Owners DEF Artifacts!AnyFile
  <2>3. Declarable(r, files, Dir) /\ Declarable(r, files, report)
    BY <1>1, <2>2, Owners
  <2>4. /\ Grows(r, t, files, {Dir}) /\ Artifacts!KeyIn(files, Dir) \in DOMAIN t.paths
        /\ t = Indices(t.entries, t.paths, t.children, t.nextId)
    BY <2>3, Owners, DeclaredGrows
  <2> HIDE DEF t
  <2>5. Indexes(t.entries, t.paths, t.nextId) /\ DOMAIN p \subseteq DOMAIN t.paths /\ Adds(e, t.entries, {Dir})
    BY <1>0, <2>4 DEF Grows
  <2>6. Declarable(t, files, report)
    BY <1>0, <2>3, <2>4, <2>5 DEF Declarable, Adds
  <2>7. Grows(t, s, files, {report})
    BY <2>1, <2>2, <2>4, <2>5, <2>6, DeclaredGrows
  <2>8. Grows(r, s, files, {Dir} \cup {report})
    BY <1>0, <2>4, <2>7, GrowsTwice
  <2>9. {Dir} \cup {report} \subseteq Q
    BY <1>1, <2>2, Owners
  <2>10. QED
    BY <2>8, <2>9 DEF Grows, Adds
<1>2. CASE u = Reader
  <2>1. s = Artifacts!Declare(r, files, Knowledge)
    BY <1>2, Owners DEF Artifacts!DeclareAll
  <2>2. Declarable(r, files, Knowledge)
    BY <1>2, Owners
  <2>3. Grows(r, s, files, {Knowledge})
    BY <2>1, <2>2, Owners, DeclaredGrows
  <2>4. {Knowledge} \subseteq Q
    BY <1>2, Owners
  <2>5. QED
    BY <2>3, <2>4 DEF Grows, Adds
<1>3. QED
  BY <1>1, <1>2, Owners

(* The names of things do not change.                                      *)
LEMMA NamesKept ==
  ASSUME UNCHANGED Artifacts!naming
  PROVE  /\ Indexes(entries', paths', nextId') => Indexes(entries, paths, nextId)'
         /\ Recorded(saved', entries', nextId') => Recorded(saved, entries, nextId)'
         /\ Filed(entries', content') => Filed(entries, content)'
<1> USE DEF Artifacts!naming
<1>1. report' = report /\ spelling' = spelling
  OBVIOUS
<1>2. Indexes(entries', paths', nextId') => Indexes(entries, paths, nextId)'
  BY <1>1 DEF Indexes, OneUnlisted, Known, IdOf, Certain, Real, Spelled, Artifacts!Real, Artifacts!Spelled
<1>3. Recorded(saved', entries', nextId') => Recorded(saved, entries, nextId)'
  BY <1>1 DEF Recorded, Snapshot, Filed, Agree, Owner, OneUnlisted, LastOf, Certain
<1>4. Filed(entries', content') => Filed(entries, content)'
  BY <1>1 DEF Filed, Certain
<1>5. QED
  BY <1>2, <1>3, <1>4

(* No file goes away.                                                      *)
FilesStay ==
  /\ content' \in [Artifacts!AnyFile -> Text]
  /\ \A f \in Artifacts!AnyFile : content[f] # Artifacts!Absent => content'[f] # Artifacts!Absent

LEMMA FiledStays ==
  ASSUME FilesInv, FilesStay, registering' \subseteq registering, UNCHANGED saved
  PROVE  /\ Filed(entries, content')
         /\ content' \in [Artifacts!AnyFile -> Text]
         /\ saved'[Collector].status # "none" => saved'[Collector].files \in [Artifacts!AnyFile -> Text]
         /\ \A x \in registering' : x.file \in Listed /\ content'[x.file] # Artifacts!Absent /\ x.read \in Text
<1>1. \A x \in registering : x.file \in Artifacts!AnyFile
  BY DEF FilesInv, Artifacts!AnyFile
<1>2. Filed(entries, content')
  BY DEF FilesInv, Filed, FilesStay
<1>3. QED
  BY <1>1, <1>2 DEF FilesInv, FilesStay

(* The registry only grew, of files of the Collector.                      *)
LEMMA RegistryGrew ==
  ASSUME RegistryInv, NEW r, NEW Q, Q \subseteq Artifacts!AnyFile, Grows(Artifacts!Live, r, content', Q),
         Artifacts!Install(r), UNCHANGED <<saved, stage>>, UNCHANGED Artifacts!naming, FilesStay,
         registering' \subseteq registering, stage[Collector] # "idle"
  PROVE  RegistryInv'
<1>1. Artifacts!Live.entries = entries /\ Artifacts!Live.nextId = nextId /\ nextId \in Nat
  BY LiveIndices DEF RegistryInv, Indexes
<1>2. entries' = r.entries /\ paths' = r.paths /\ nextId' = r.nextId /\ saved' = saved /\ stage' = stage
  BY DEF Artifacts!Install
<1>3. Recorded(saved', entries', nextId')
  BY <1>1, <1>2, GrowsRecorded DEF RegistryInv
<1>4. Indexes(entries', paths', nextId') /\ Keeps(entries, entries') /\ Adds(entries, entries', Q)
  BY <1>1, <1>2 DEF Grows
<1>5. \A u \in Unit : stage'[u] = "done" => Keeps(saved'[u].entries, entries')
  BY <1>2, <1>4, KeepsTwice DEF RegistryInv
<1>6. FilesInv'
  <2>1. Filed(entries, content')
    BY <1>2, FiledStays DEF RegistryInv
  <2>2. Filed(entries', content')
    BY <1>1, <1>2, <2>1 DEF Grows
  <2>3. QED
    BY <1>2, <2>2, NamesKept, FiledStays DEF RegistryInv, FilesInv
<1>7. StageInv'
  <2>1. ASSUME NEW u \in Unit, stage'[u] = "idle", NEW i \in DOMAIN entries' PROVE Owner(entries', i) # u
    <3>1. u # Collector /\ stage[u] = "idle"
      BY <1>2, <2>1
    <3>2. CASE entries'[i].path \in Q
      BY <3>1, <3>2, Owners DEF Owner
    <3>3. CASE i \in DOMAIN entries /\ entries'[i].path = entries[i].path
      BY <3>1, <3>3 DEF RegistryInv, StageInv, Owner
    <3>4. QED
      BY <1>4, <3>2, <3>3 DEF Adds
  <2>2. QED
    BY <1>2, <2>1 DEF RegistryInv, StageInv, Owner
<1>8. Named'
  BY DEF RegistryInv, Named, Artifacts!naming
<1>9. QED
  BY <1>3, <1>4, <1>5, <1>6, <1>7, <1>8, NamesKept DEF RegistryInv

(* Only files or calls changed.                                            *)
LEMMA RegistryStays ==
  ASSUME RegistryInv, UNCHANGED <<entries, paths, nextId, saved, stage>>, UNCHANGED Artifacts!naming, FilesStay,
         \A x \in registering' : x \in registering
           \/ (stage[Collector] # "idle" /\ x.file \in Listed /\ content'[x.file] # Artifacts!Absent /\ x.read \in Text)
  PROVE  RegistryInv'
<1>1. entries' = entries /\ paths' = paths /\ nextId' = nextId /\ saved' = saved /\ stage' = stage
  OBVIOUS
<1>2. Filed(entries', content')
  BY <1>1 DEF RegistryInv, FilesInv, FilesStay, Filed
<1>3. \A x \in registering' : x.file \in Listed /\ content'[x.file] # Artifacts!Absent /\ x.read \in Text
  BY DEF RegistryInv, FilesInv, FilesStay, Artifacts!AnyFile
<1>4. FilesInv'
  BY <1>1, <1>2, <1>3, NamesKept DEF RegistryInv, FilesInv, FilesStay
<1>5. StageInv'
  BY <1>1 DEF RegistryInv, StageInv, Owner
<1>6. Indexes(entries', paths', nextId') /\ Recorded(saved', entries', nextId')
  BY <1>1 DEF RegistryInv
<1>7. Named'
  BY DEF RegistryInv, Named, Artifacts!naming
<1>8. QED
  BY <1>1, <1>4, <1>5, <1>6, <1>7, NamesKept DEF RegistryInv

(* A unit's checkpoint is written.                                         *)
LEMMA SnapshotTaken ==
  ASSUME RegistryInv, NEW u \in Unit, NEW status, Artifacts!SaveUnit(u, status, Artifacts!Live)
  PROVE  /\ Recorded(saved', entries, nextId) /\ Keeps(saved'[u].entries, entries)
         /\ \A v \in Unit \ {u} : saved'[v] = saved[v]
         /\ saved'[Collector].status # "none" => saved'[Collector].files \in [Artifacts!AnyFile -> Text]
<1> DEFINE z == saved'[u].entries
<1>1. DOMAIN saved = Unit /\ Indexes(entries, paths, nextId) /\ Recorded(saved, entries, nextId)
  BY DEF RegistryInv, Recorded
<1>2. /\ DOMAIN saved' = Unit /\ z = Artifacts!SnapshotWorkspace(Artifacts!Live, u)
      /\ saved'[u].files = Artifacts!Files(u)
      /\ \A v \in Unit \ {u} : saved'[v] = saved[v]
  BY <1>1 DEF Artifacts!SaveUnit
<1>3. DOMAIN z = {i \in DOMAIN entries : Owner(entries, i) = u} /\ \A i \in DOMAIN z : z[i] = entries[i]
  BY <1>2 DEF Artifacts!SnapshotWorkspace, Artifacts!Restrict, Artifacts!Live, Owner
<1> HIDE DEF z
<1>4. Snapshot(z, u, nextId)
  <2>1. \A i \in DOMAIN z : i \in Nat /\ i < nextId /\ z[i] \in Entry /\ Owner(z, i) = u
    BY <1>1, <1>3 DEF Indexes, Owner
  <2>2. OneUnlisted(z)
    BY <1>1, <1>3 DEF Indexes, OneUnlisted
  <2>3. ASSUME NEW j \in DOMAIN z PROVE LastOf(z, IdOf(paths, z[j].path), j) /\ IdOf(paths, z[j].path) \in DOMAIN z
    <3> DEFINE q == z[j].path
               b == IdOf(paths, q)
    <3>1. j \in DOMAIN entries /\ entries[j].path = q /\ q \in Artifacts!Path /\ Artifacts!Owner(q) = u
      BY <1>3, <2>1 DEF Entry, Owner
    <3>2. Known(paths, q)
      BY <1>1, <3>1 DEF Indexes
    <3>3. b \in DOMAIN entries /\ entries[b].path = q
      BY <1>1, <3>1, <3>2 DEF Indexes, Known, IdOf
    <3>4. \A k \in DOMAIN entries : entries[k].path = q => k <= b
      BY <1>1 DEF Indexes
    <3> HIDE DEF b
    <3>5. b \in DOMAIN z /\ z[b].path = q
      BY <1>3, <3>1, <3>3 DEF Owner
    <3>6. QED
      BY <1>3, <3>4, <3>5 DEF LastOf, b
  <2>4. ASSUME NEW i \in DOMAIN z, Certain(z[i]) PROVE LastOf(z, i, i)
    <3>1. IdOf(paths, z[i].path) = i
      BY <1>1, <1>3, <2>4 DEF Indexes, IdOf
    <3>2. QED
      BY <2>3, <3>1
  <2>5. QED
    BY <2>1, <2>2, <2>3, <2>4 DEF Snapshot
<1>5. Agree(z, entries) /\ Keeps(z, entries)
  BY <1>3 DEF Agree, Keeps
<1>6. ASSUME NEW v \in Unit PROVE Agree(z, saved[v].entries) /\ Agree(saved[v].entries, z)
  BY <1>1, <1>3 DEF Recorded, Agree
<1>7. Filed(z, saved'[u].files)
  <2>1. CASE u = Collector
    <3>1. saved'[u].files = content
      BY <1>2, <2>1, Owners DEF Artifacts!Files
    <3>2. QED
      BY <1>3, <3>1 DEF RegistryInv, FilesInv, Filed
  <2>2. CASE u = Reader
    BY <1>4, <2>2, Owners DEF Snapshot, Owner, Filed
  <2>3. QED
    BY <2>1, <2>2, Owners
<1>8. \A v \in Unit : saved'[v].entries = IF v = u THEN z ELSE saved[v].entries
  BY <1>2 DEF z
<1>9. Agree(z, z)
  BY DEF Agree
<1>10. Recorded(saved', entries, nextId)
  <2>1. ASSUME NEW v \in Unit
        PROVE  Snapshot(saved'[v].entries, v, nextId) /\ Agree(saved'[v].entries, entries)
               /\ Filed(saved'[v].entries, saved'[v].files)
    BY <1>1, <1>2, <1>4, <1>5, <1>7, <1>8 DEF Recorded
  <2>2. ASSUME NEW v \in Unit, NEW w \in Unit PROVE Agree(saved'[v].entries, saved'[w].entries)
    BY <1>1, <1>6, <1>8, <1>9 DEF Recorded
  <2>3. QED
    BY <1>2, <2>1, <2>2 DEF Recorded
<1>11. saved'[Collector].status # "none" => saved'[Collector].files \in [Artifacts!AnyFile -> Text]
  <2>1. CASE u = Collector
    BY <1>2, <2>1, Owners DEF Artifacts!Files, RegistryInv, FilesInv
  <2>2. CASE u # Collector
    BY <1>2, <2>2, Owners DEF RegistryInv, FilesInv
  <2>3. QED
    BY <2>1, <2>2
<1>12. QED
  BY <1>2, <1>5, <1>10, <1>11 DEF z

(* What a unit owns when it has declared its artifacts over the registry r *)
(* that it begins with.                                                    *)
LEMMA Begins ==
  ASSUME RegistryInv, NEW u \in Unit, stage[u] = "idle", u = Reader => stage[Collector] = "done",
         UNCHANGED Artifacts!naming, UNCHANGED registering,
         stage' = [stage EXCEPT ![u] = "running"] \/ stage' = [stage EXCEPT ![u] = "done"],
         NEW r, r = Indices(r.entries, r.paths, r.children, r.nextId),
         Indexes(r.entries, r.paths, r.nextId), Recorded(saved', r.entries, r.nextId),
         \A q \in Artifacts!Path : Artifacts!Owner(q) = u => Declarable(r, content', q),
         \A i \in DOMAIN r.entries :
           Owner(r.entries, i) = u \/ (i \in DOMAIN entries /\ r.entries[i].path = entries[i].path),
         Keeps(entries, r.entries), Filed(r.entries, content'),
         Artifacts!Install(Artifacts!DeclareAll(r, content', u)),
         stage'[u] = "done" => Keeps(saved'[u].entries, r.entries),
         \A v \in Unit \ {u} : saved'[v] = saved[v],
         content' \in [Artifacts!AnyFile -> Text], u = Reader => content' = content,
         saved'[Collector].status # "none" => saved'[Collector].files \in [Artifacts!AnyFile -> Text]
  PROVE  RegistryInv'
<1> DEFINE s == Artifacts!DeclareAll(r, content', u)
           Q == {q \in Artifacts!Path : Artifacts!Owner(q) = u}
<1>1. Named /\ DOMAIN stage = Unit
  BY DEF RegistryInv, StageInv
<1>2. Grows(r, s, content', Q)
  BY <1>1, AllDeclared DEF Named
<1>3. entries' = s.entries /\ paths' = s.paths /\ nextId' = s.nextId
  BY DEF Artifacts!Install
<1> HIDE DEF s
<1>4. Indexes(entries', paths', nextId') /\ Keeps(r.entries, entries') /\ Adds(r.entries, entries', Q)
      /\ Filed(entries', content')
  BY <1>2, <1>3 DEF Grows
<1>5. Recorded(saved', entries', nextId')
  BY <1>2, <1>3, GrowsRecorded DEF Indexes
<1>6. DOMAIN stage' = Unit /\ stage'[u] # "idle" /\ \A v \in Unit \ {u} : stage'[v] = stage[v]
  BY <1>1
<1>7. ASSUME NEW v \in Unit, stage'[v] = "done" PROVE Keeps(saved'[v].entries, entries')
  <2>1. CASE v = u
    BY <1>4, <1>7, <2>1, KeepsTwice
  <2>2. CASE v # u
    <3>1. Keeps(saved'[v].entries, entries)
      BY <1>6, <1>7, <2>2 DEF RegistryInv
    <3>2. Keeps(saved'[v].entries, r.entries)
      BY <3>1, KeepsTwice
    <3>3. QED
      BY <1>4, <3>2, KeepsTwice
  <2>3. QED
    BY <2>1, <2>2
<1>8. FilesInv'
  <2>1. \A x \in registering' : x.file \in Listed /\ content'[x.file] # Artifacts!Absent /\ x.read \in Text
    <3>1. CASE u = Collector
      BY <3>1 DEF RegistryInv, StageInv
    <3>2. CASE u = Reader
      BY <3>2 DEF RegistryInv, FilesInv
    <3>3. QED
      BY <3>1, <3>2, Owners
  <2>2. Filed(entries, content)'
    BY <1>4, NamesKept
  <2>3. QED
    BY <2>1, <2>2 DEF FilesInv
<1>9. StageInv'
  <2>1. ASSUME NEW v \in Unit, stage'[v] = "idle", NEW i \in DOMAIN entries' PROVE Owner(entries', i) # v
    <3>1. v # u /\ stage[v] = "idle"
      BY <1>6, <2>1
    <3>2. Owner(entries', i) = u \/ (i \in DOMAIN entries /\ entries'[i].path = entries[i].path)
      BY <1>4 DEF Adds, Owner
    <3>3. QED
      BY <3>1, <3>2 DEF RegistryInv, StageInv, Owner
  <2>2. stage'[Reader] # "idle" => stage'[Collector] # "idle"
    BY <1>6, Owners DEF RegistryInv, StageInv
  <2>3. registering' # {} => stage'[Collector] # "idle"
    BY <1>6, Owners DEF RegistryInv, StageInv
  <2>4. QED
    BY <1>6, <2>1, <2>2, <2>3 DEF StageInv, Owner
<1>10. Named'
  BY <1>1 DEF Named, Artifacts!naming
<1>11. QED
  BY <1>4, <1>5, <1>7, <1>8, <1>9, <1>10, NamesKept DEF RegistryInv

LEMMA BeginsFresh ==
  ASSUME RegistryInv, NEW u \in Unit, stage[u] = "idle", u = Reader => stage[Collector] = "done",
         UNCHANGED Artifacts!naming, UNCHANGED registering, Artifacts!BeginFresh(u)
  PROVE  RegistryInv'
<1> DEFINE r == Artifacts!Live
<1>1. /\ r = Indices(entries, paths, children, nextId) /\ r = Indices(r.entries, r.paths, r.children, r.nextId)
      /\ r.entries = entries /\ r.paths = paths /\ r.nextId = nextId
  BY DEF Artifacts!Live, Indices
<1>2. /\ Recorded(saved', entries, nextId) /\ \A v \in Unit \ {u} : saved'[v] = saved[v]
      /\ saved'[Collector].status # "none" => saved'[Collector].files \in [Artifacts!AnyFile -> Text]
  BY SnapshotTaken DEF Artifacts!BeginFresh
<1>3. \A i \in DOMAIN entries : Owner(entries, i) # u
  BY DEF RegistryInv, StageInv
<1> HIDE DEF r
<1>4. \A q \in Artifacts!Path : Artifacts!Owner(q) = u => Declarable(r, content', q)
  BY <1>1, <1>3 DEF Declarable, Owner
<1>5. content' = content /\ Artifacts!Install(Artifacts!DeclareAll(r, content', u))
      /\ stage' = [stage EXCEPT ![u] = "running"]
  BY DEF Artifacts!BeginFresh, r
<1>6. Keeps(entries, r.entries) /\ Filed(r.entries, content') /\ content' \in [Artifacts!AnyFile -> Text]
  BY <1>1, <1>5 DEF RegistryInv, FilesInv, Keeps
<1>7. stage'[u] # "done"
  BY <1>5 DEF RegistryInv, StageInv
<1>8. Indexes(r.entries, r.paths, r.nextId) /\ Recorded(saved', r.entries, r.nextId)
  BY <1>1, <1>2 DEF RegistryInv
<1>9. QED
  BY <1>1, <1>2, <1>4, <1>5, <1>6, <1>7, <1>8, Begins

(* A unit comes back as its checkpoint has it, and nobody else changes.    *)
LEMMA BeginsFromCheckpoint ==
  ASSUME RegistryInv, NEW u \in Unit, stage[u] = "idle", u = Reader => stage[Collector] = "done",
         UNCHANGED Artifacts!naming, UNCHANGED registering, Artifacts!BeginAgain(u) \/ Artifacts!BeginCompleted(u)
  PROVE  RegistryInv'
<1> DEFINE files == IF u = Collector THEN saved[u].files ELSE content
           z == saved[u].entries
           r == Artifacts!RestoreWorkspace(Artifacts!Live, u, z, files)
<1>1. Indexes(entries, paths, nextId) /\ Recorded(saved, entries, nextId)
      /\ \A i \in DOMAIN entries : Owner(entries, i) # u
  BY DEF RegistryInv, StageInv
<1>2. /\ content' = files /\ Artifacts!Install(Artifacts!DeclareAll(r, files, u)) /\ saved' = saved
      /\ saved[u].status # "none"
      /\ stage' = [stage EXCEPT ![u] = "running"] \/ stage' = [stage EXCEPT ![u] = "done"]
  BY Owners DEF Artifacts!BeginAgain, Artifacts!BeginCompleted, Artifacts!RestoreUnit
<1>3. Snapshot(z, u, nextId)
  BY <1>1 DEF Recorded
<1>4. Filed(z, files)
  <2>1. CASE u = Collector
    BY <1>1, <2>1 DEF Recorded
  <2>2. CASE u = Reader
    BY <1>3, <2>2, Owners DEF Snapshot, Owner, Filed
  <2>3. QED
    BY <2>1, <2>2, Owners
<1>5. files \in [Artifacts!AnyFile -> Text] /\ (u = Reader => files = content)
  BY <1>2, Owners DEF RegistryInv, FilesInv
<1> HIDE DEF files, z
<1>6. /\ r = Indices(r.entries, r.paths, r.children, r.nextId)
      /\ Indexes(r.entries, r.paths, r.nextId) /\ Recorded(saved, r.entries, r.nextId)
      /\ Keeps(entries, r.entries) /\ Keeps(z, r.entries)
      /\ \A i \in DOMAIN r.entries : \/ i \in DOMAIN entries /\ r.entries[i] = entries[i]
                                     \/ i \in DOMAIN z /\ r.entries[i] = z[i]
      /\ \A q \in Artifacts!Path : Artifacts!Owner(q) = u => Declarable(r, files, q)
  BY <1>1, <1>4, LiveIndices, Restored DEF z
<1> HIDE DEF r
<1>7. Filed(r.entries, content')
  <2>1. Filed(entries, files)
    <3>1. CASE u = Collector
      <4>1. \A i \in DOMAIN entries : entries[i] \in Entry /\ Artifacts!Owner(entries[i].path) # Collector
        BY <1>1, <3>1 DEF Indexes, Owner
      <4>2. QED
        BY <4>1, Owners DEF Filed
    <3>2. CASE u = Reader
      BY <1>5, <3>2 DEF RegistryInv, FilesInv
    <3>3. QED
      BY <3>1, <3>2, Owners
  <2>2. QED
    BY <1>2, <1>4, <1>6, <2>1 DEF Filed
<1>8. \A i \in DOMAIN r.entries :
        Owner(r.entries, i) = u \/ (i \in DOMAIN entries /\ r.entries[i].path = entries[i].path)
  BY <1>3, <1>6 DEF Snapshot, Owner
<1>9. saved'[Collector].status # "none" => saved'[Collector].files \in [Artifacts!AnyFile -> Text]
  BY <1>2 DEF RegistryInv, FilesInv
<1>10. /\ Recorded(saved', r.entries, r.nextId) /\ Artifacts!Install(Artifacts!DeclareAll(r, content', u))
       /\ \A q \in Artifacts!Path : Artifacts!Owner(q) = u => Declarable(r, content', q)
       /\ stage'[u] = "done" => Keeps(saved'[u].entries, r.entries)
       /\ \A v \in Unit \ {u} : saved'[v] = saved[v]
       /\ content' \in [Artifacts!AnyFile -> Text] /\ (u = Reader => content' = content)
  BY <1>2, <1>5, <1>6 DEF z
<1>11. QED
  BY <1>2, <1>6, <1>7, <1>8, <1>9, <1>10, Begins

LEMMA RegistryInitially == Artifacts!Init => RegistryInv
<1> SUFFICES ASSUME Artifacts!Init PROVE RegistryInv
  OBVIOUS
<1>1. DOMAIN entries = {} /\ DOMAIN paths = {} /\ nextId = 1 /\ registering = {} /\ Named
  BY Owners DEF Artifacts!Init, Artifacts!Empty, Named
<1>2. DOMAIN saved = Unit /\ DOMAIN stage = Unit
      /\ \A u \in Unit : DOMAIN saved[u].entries = {} /\ stage[u] = "idle" /\ saved[u].status = "none"
  BY Owners DEF Artifacts!Init, Artifacts!Empty
<1>3. content \in [Artifacts!AnyFile -> Text]
  BY DEF Artifacts!Init, Artifacts!Absent, Text
<1>4. FilesInv /\ StageInv
  BY <1>1, <1>2, <1>3, Owners DEF FilesInv, Filed, StageInv
<1>5. Indexes(entries, paths, nextId)
  BY <1>1 DEF Indexes, OneUnlisted
<1>6. Recorded(saved, entries, nextId)
  BY <1>2 DEF Recorded, Snapshot, OneUnlisted, Filed, Agree
<1>7. QED
  BY <1>1, <1>2, <1>4, <1>5, <1>6 DEF RegistryInv

LEMMA RegistryStep == ASSUME RegistryInv, [Artifacts!Next]_Artifacts!vars PROVE RegistryInv'
<1> USE DEF Artifacts!registry, Artifacts!calls, Artifacts!unitState, Artifacts!collectorFiles
<1>0. Artifacts!Unit = Unit /\ UNCHANGED Artifacts!naming
  BY Owners DEF Artifacts!Next, Artifacts!vars
<1>1. ASSUME NEW u \in Unit, Artifacts!Begin(u) PROVE RegistryInv'
  <2>1. stage[u] = "idle" /\ (u = Reader => stage[Collector] = "done") /\ UNCHANGED registering
        /\ (Artifacts!BeginFresh(u) \/ Artifacts!BeginAgain(u) \/ Artifacts!BeginCompleted(u))
    BY <1>1, Owners DEF Artifacts!Begin
  <2>2. QED
    BY <1>0, <2>1, BeginsFresh, BeginsFromCheckpoint
<1>2. ASSUME NEW u \in Unit, Artifacts!Complete(u) PROVE RegistryInv'
  <2>1. /\ Recorded(saved', entries, nextId) /\ Keeps(saved'[u].entries, entries)
        /\ \A v \in Unit \ {u} : saved'[v] = saved[v]
        /\ saved'[Collector].status # "none" => saved'[Collector].files \in [Artifacts!AnyFile -> Text]
    BY <1>2, SnapshotTaken DEF Artifacts!Complete
  <2>2. /\ entries' = entries /\ paths' = paths /\ nextId' = nextId /\ registering' = registering
        /\ content' = content
        /\ DOMAIN stage' = Unit /\ stage[u] # "idle" /\ stage'[u] # "idle"
        /\ \A v \in Unit \ {u} : stage'[v] = stage[v]
    BY <1>2 DEF Artifacts!Complete, Artifacts!Running, RegistryInv, StageInv
  <2>3. Filed(entries', content') /\ Recorded(saved', entries', nextId') /\ Indexes(entries', paths', nextId')
    BY <2>1, <2>2 DEF RegistryInv, FilesInv
  <2>4. FilesInv'
    BY <1>0, <2>1, <2>2, <2>3, NamesKept DEF RegistryInv, FilesInv
  <2>5. StageInv'
    BY <2>2, Owners DEF RegistryInv, StageInv, Owner
  <2>6. \A v \in Unit : stage'[v] = "done" => Keeps(saved'[v].entries, entries')
    BY <2>1, <2>2 DEF RegistryInv
  <2>7. Named'
    BY <1>0 DEF RegistryInv, Named, Artifacts!naming
  <2>8. QED
    BY <1>0, <2>3, <2>4, <2>5, <2>6, <2>7, NamesKept DEF RegistryInv
<1>3. content' = content => FilesStay
  BY DEF RegistryInv, FilesInv, FilesStay
<1>4. ASSUME NEW u \in Unit, Artifacts!Discover(u) PROVE RegistryInv'
  <2>1. PICK next \in nextId .. (MaxIds + 1) : \E fresh \in Artifacts!FreshIds(Artifacts!Live, next) :
          Artifacts!Install(Artifacts!ListDirectory(Artifacts!Live, fresh, next))
    BY <1>4 DEF Artifacts!Discover
  <2>2. PICK fresh \in Artifacts!FreshIds(Artifacts!Live, next) :
          Artifacts!Install(Artifacts!ListDirectory(Artifacts!Live, fresh, next))
    BY <2>1
  <2> DEFINE s == Artifacts!ListDirectory(Artifacts!Live, fresh, next)
  <2>3. next \in Nat /\ nextId <= next
    BY DEF RegistryInv, Indexes
  <2>4. Grows(Artifacts!Live, s, content, Listed)
    BY <2>3, LiveIndices, ListingGrows DEF RegistryInv
  <2> HIDE DEF s
  <2>5. stage[Collector] # "idle"
    BY <1>4, Owners DEF Artifacts!Discover, Artifacts!Running, RegistryInv, StageInv
  <2>6. content' = content /\ saved' = saved /\ stage' = stage /\ registering' = registering
    BY <1>4 DEF Artifacts!Discover
  <2>7. Listed \subseteq Artifacts!AnyFile /\ Artifacts!Install(s)
    BY <2>2 DEF Artifacts!AnyFile, s
  <2>8. QED
    BY <1>0, <1>3, <2>4, <2>5, <2>6, <2>7, RegistryGrew
<1>5. ASSUME NEW x \in registering, Artifacts!RegisterEnd(x) PROVE RegistryInv'
  <2> DEFINE s == Artifacts!IndexEvidence(Artifacts!Live, x.file)
  <2>1. x.file \in Artifacts!AnyFile /\ content[x.file] # Artifacts!Absent /\ x.read \in Text
        /\ content \in [Artifacts!AnyFile -> Text]
    BY DEF RegistryInv, FilesInv, Artifacts!AnyFile
  <2>2. content' = content \/ content' = [content EXCEPT ![x.file] = [x.read EXCEPT !.header = TRUE]]
    BY <1>5 DEF Artifacts!RegisterEnd
  <2>3. [x.read EXCEPT !.header = TRUE] \in Text /\ [x.read EXCEPT !.header = TRUE] # Artifacts!Absent
    BY <2>1 DEF Text, Artifacts!Absent
  <2>4. FilesStay /\ content'[x.file] # Artifacts!Absent
    BY <1>3, <2>1, <2>2, <2>3 DEF FilesStay
  <2>5. Grows(Artifacts!Live, s, content', {x.file})
    BY <2>1, <2>4, LiveIndices, EvidenceGrows DEF RegistryInv
  <2> HIDE DEF s
  <2>6. stage[Collector] # "idle" /\ saved' = saved /\ stage' = stage /\ registering' \subseteq registering
        /\ Artifacts!Install(s)
    BY <1>5, Owners DEF Artifacts!RegisterEnd, Artifacts!Running, s
  <2>7. {x.file} \subseteq Artifacts!AnyFile
    BY <2>1
  <2>8. QED
    BY <1>0, <2>4, <2>5, <2>6, <2>7, RegistryGrew
<1>6. ASSUME NEW t \in Retained, Artifacts!RegisterRetained(t) PROVE RegistryInv'
  <2> DEFINE s == Artifacts!IndexEvidence(Artifacts!Live, t)
             one == [body |-> 1, header |-> TRUE]
  <2>1. t \in Artifacts!AnyFile /\ content \in [Artifacts!AnyFile -> Text]
    BY DEF RegistryInv, FilesInv, Artifacts!AnyFile
  <2>2. content' = [content EXCEPT ![t] = one]
    BY <1>6 DEF Artifacts!RegisterRetained
  <2>3. one \in Text /\ one # Artifacts!Absent
    BY DEF Text, Artifacts!Absent
  <2> HIDE DEF one
  <2>4. FilesStay /\ content'[t] # Artifacts!Absent
    BY <2>1, <2>2, <2>3 DEF FilesStay
  <2>5. Grows(Artifacts!Live, s, content', {t})
    BY <2>1, <2>4, LiveIndices, EvidenceGrows DEF RegistryInv
  <2> HIDE DEF s
  <2>6. stage[Collector] # "idle" /\ saved' = saved /\ stage' = stage /\ registering' = registering
        /\ Artifacts!Install(s)
    BY <1>6, Owners DEF Artifacts!RegisterRetained, Artifacts!Running, s
  <2>7. {t} \subseteq Artifacts!AnyFile
    BY <2>1
  <2>8. QED
    BY <1>0, <2>4, <2>5, <2>6, <2>7, RegistryGrew
<1>7. ASSUME Artifacts!Crash PROVE RegistryInv'
  <2>1. DOMAIN entries' = {} /\ DOMAIN paths' = {} /\ registering' = {} /\ nextId' = nextId /\ saved' = saved
        /\ content' = content
    BY <1>7 DEF Artifacts!Crash, Artifacts!Empty
  <2>2. DOMAIN stage' = Unit /\ \A u \in Unit : stage'[u] = "idle"
    BY <1>0, <1>7 DEF Artifacts!Crash
  <2>3. Indexes(entries', paths', nextId') /\ Filed(entries', content')
    BY <2>1 DEF RegistryInv, Indexes, OneUnlisted, Filed
  <2>4. Recorded(saved', entries', nextId')
    BY <2>1 DEF RegistryInv, Recorded, Agree
  <2>5. FilesInv'
    BY <1>0, <2>1, <2>3, NamesKept DEF RegistryInv, FilesInv
  <2>6. StageInv'
    BY <2>1, <2>2, Owners DEF StageInv
  <2>7. Named'
    BY <1>0 DEF RegistryInv, Named, Artifacts!naming
  <2>8. QED
    BY <1>0, <2>2, <2>3, <2>4, <2>5, <2>6, <2>7, NamesKept DEF RegistryInv
<1>8. ASSUME UNCHANGED <<entries, paths, nextId, saved, stage, content>>, registering' = registering
      PROVE  RegistryInv'
  BY <1>0, <1>3, <1>8, RegistryStays
<1>9. ASSUME NEW f \in Artifacts!AnyFile, Artifacts!CreateFile(f) \/ Artifacts!WriteMarkdown(f)
      PROVE  RegistryInv'
  <2>1. content \in [Artifacts!AnyFile -> Text]
    BY DEF RegistryInv, FilesInv
  <2>2. \E new \in Text : new # Artifacts!Absent /\ content' = [content EXCEPT ![f] = new]
    <3>1. CASE Artifacts!CreateFile(f)
      <4>1. PICK header \in BOOLEAN : content' = [content EXCEPT ![f] = [body |-> 1, header |-> header]]
        BY <3>1 DEF Artifacts!CreateFile
      <4>2. [body |-> 1, header |-> header] \in Text /\ [body |-> 1, header |-> header] # Artifacts!Absent
        BY DEF Text, Artifacts!Absent
      <4>3. QED
        BY <4>1, <4>2
    <3>2. CASE Artifacts!WriteMarkdown(f)
      <4> DEFINE new == [body |-> content[f].body + 1, header |-> FALSE]
      <4>1. content' = [content EXCEPT ![f] = new]
        BY <3>2 DEF Artifacts!WriteMarkdown
      <4>2. content[f].body \in Nat
        BY <2>1 DEF Text
      <4>3. new \in Text /\ new # Artifacts!Absent
        BY <4>2 DEF Text, Artifacts!Absent
      <4>4. QED
        BY <4>1, <4>3
    <3>3. QED
      BY <1>9, <3>1, <3>2
  <2>3. FilesStay
    BY <2>1, <2>2 DEF FilesStay
  <2>4. UNCHANGED <<entries, paths, nextId, saved, stage>> /\ registering' = registering
    BY <1>9 DEF Artifacts!CreateFile, Artifacts!WriteMarkdown
  <2>5. QED
    BY <1>0, <2>3, <2>4, RegistryStays
<1>10. ASSUME NEW f \in Artifacts!AnyFile, Artifacts!RegisterRead(f) PROVE RegistryInv'
  <2>1. /\ UNCHANGED <<entries, paths, nextId, saved, stage, content>>
        /\ registering' = registering \cup {[file |-> f, read |-> content[f]]}
        /\ stage[Collector] # "idle" /\ f \in Listed /\ content[f] # Artifacts!Absent
    BY <1>10, Owners DEF Artifacts!RegisterRead, Artifacts!Running, Artifacts!Present
  <2>2. content[f] \in Text
    BY DEF RegistryInv, FilesInv
  <2>3. QED
    BY <1>0, <1>3, <2>1, <2>2, RegistryStays
<1>11. ASSUME NEW t \in Retained, Artifacts!RetainToolResult(t) PROVE RegistryInv'
  BY <1>8, <1>11 DEF Artifacts!RetainToolResult
<1>12. ASSUME NEW u \in Unit, NEW i \in DOMAIN entries, Artifacts!SearchRead(u, i) PROVE RegistryInv'
  BY <1>8, <1>12 DEF Artifacts!SearchRead
<1>13. ASSUME NEW u \in Unit, NEW x \in searching[u], Artifacts!Capture(u, x) PROVE RegistryInv'
  BY <1>8, <1>13 DEF Artifacts!Capture
<1>14. ASSUME NEW u \in Unit, NEW q \in quotes, Artifacts!CaptureQuote(u, q) PROVE RegistryInv'
  BY <1>8, <1>14 DEF Artifacts!CaptureQuote
<1>15. ASSUME Artifacts!ReaderStep PROVE RegistryInv'
  BY <1>8, <1>15 DEF Artifacts!ReaderStep, Artifacts!SubmitKnowledge, Artifacts!PatchRead, Artifacts!PatchEnd
<1>16. CASE UNCHANGED Artifacts!vars
  BY <1>8, <1>16 DEF Artifacts!vars
<1>17. QED
  BY <1>0, <1>1, <1>2, <1>4, <1>5, <1>6, <1>7, <1>9, <1>10, <1>11, <1>12, <1>13, <1>14, <1>15, <1>16
     DEF Artifacts!Next, Artifacts!CollectorStep

LEMMA RegistryAlways == Artifacts!Spec => []RegistryInv
BY RegistryInitially, RegistryStep, PTL DEF Artifacts!Spec

(* A file has one id, however it is declared, registered, listed and       *)
(* restored, for any files and any number of ids and crashes; but one that *)
(* was declared through a link before it was written gets another one from *)
(* a listing that comes before its registration, and then only one of the  *)
(* two is evidence (internal/artifact/registry.go).                        *)
THEOREM FilesHaveOneId == Artifacts!Spec => []OneIdPerFile
<1>1. ASSUME RegistryInv PROVE OneIdPerFile
  <2>1. ASSUME NEW i \in DOMAIN entries, NEW j \in DOMAIN entries, entries[i].path = entries[j].path, i # j
        PROVE  /\ spelling = "linked" /\ entries[i].path = report
               /\ entries[i].listed \/ entries[j].listed
               /\ "evidence" \notin entries[i].purposes \cap entries[j].purposes
    <3>1. ~(Certain(entries[i]) /\ Certain(entries[j]))
      BY <1>1, <2>1 DEF RegistryInv, Indexes
    <3>2. entries[i].listed \/ entries[j].listed
      BY <1>1, <2>1 DEF RegistryInv, Indexes, OneUnlisted
    <3>3. spelling \in {"real", "linked"}
      BY <1>1 DEF RegistryInv, Named
    <3>4. QED
      BY <2>1, <3>1, <3>2, <3>3 DEF Certain
  <2>2. QED
    BY <2>1 DEF OneIdPerFile
<1>2. QED
  BY <1>1, RegistryAlways, PTL

(* The ids in a completed unit's checkpoint denote their files as long as  *)
(* the unit is done, across crashes and whatever the other unit does.      *)
THEOREM CompletedIdsSurvive == Artifacts!Spec => []CompletedIdsKeep
<1>1. RegistryInv => CompletedIdsKeep
  BY DEF RegistryInv, Keeps, CompletedIdsKeep
<1>2. QED
  BY <1>1, RegistryAlways, PTL
--------------------------------------------------------------------------------
(* Whatever knowledge.json can become is genuine: the file, the texts that *)
(* patches have read, and the file in the Reader's checkpoint.             *)
Quote(q) == {"digest", "context", "text"} \subseteq DOMAIN q /\ q.text = q.digest

Genuine(k) == Sound(k) /\ \A q \in k.quotes : Quote(q)

CitationInv ==
  /\ Genuine(knowledge) /\ \A q \in quotes : Quote(q)
  /\ \A x \in patching : Genuine(x.read)
  /\ DOMAIN saved = Unit /\ (saved[Reader].status # "none" => Genuine(saved[Reader].files))

LEMMA SoundIsSound == \A k : Artifacts!Sound(k) <=> Sound(k)
BY DEF Artifacts!Sound, Sound, Artifacts!KeyOf, KeyOf

LEMMA StoreGenuine ==
  ASSUME NEW known, \A k \in known : Quote(k), NEW q, Quote(q)
  PROVE  \A k \in Artifacts!Store(known, q) : Quote(k)
BY DEF Artifacts!Store

LEMMA ExpandGenuine ==
  ASSUME NEW known, \A k \in known : Quote(k), NEW q, Quote(q)
  PROVE  \A k \in Artifacts!Expand(known, q) : Quote(k)
<1> DEFINE now == content[entries[q.artifact].path]
           wide == [q EXCEPT !.context = TRUE, !.text = now]
<1>1. CASE now = q.digest
  <2>1. DOMAIN wide = DOMAIN q /\ wide.text = now /\ wide.digest = q.digest
    BY DEF Quote
  <2>2. Quote(wide)
    BY <1>1, <2>1 DEF Quote
  <2>3. Artifacts!Expand(known, q) = Artifacts!Store(known, wide)
    BY <1>1 DEF Artifacts!Expand
  <2> HIDE DEF wide
  <2>4. QED
    BY <2>2, <2>3, StoreGenuine
<1>2. CASE now # q.digest
  BY <1>2 DEF Artifacts!Expand
<1>3. QED
  BY <1>1, <1>2

LEMMA PatchGenuine ==
  ASSUME NEW items, NEW stored, \A q \in stored : Quote(q), Artifacts!Sound(Artifacts!Patched(items, stored))
  PROVE  Genuine(Artifacts!Patched(items, stored))
<1>1. \A q \in Artifacts!Patched(items, stored).quotes : Quote(q)
  BY DEF Artifacts!Patched, Artifacts!KeptQuotes
<1>2. QED
  BY <1>1, SoundIsSound DEF Genuine

LEMMA CitationInitially == Artifacts!Init => CitationInv
<1> SUFFICES ASSUME Artifacts!Init PROVE CitationInv
  OBVIOUS
<1>1. knowledge.items = <<>> /\ knowledge.quotes = {} /\ quotes = {} /\ patching = {}
  BY DEF Artifacts!Init, Artifacts!NoKnowledge
<1>2. DOMAIN saved = Unit /\ saved[Reader].status = "none"
  BY DEF Artifacts!Init, Unit, Artifacts!Unit, Collector, Reader, Artifacts!Collector, Artifacts!Reader
<1>3. QED
  BY <1>1, <1>2 DEF CitationInv, Genuine, Sound

LEMMA CitationStep == ASSUME CitationInv, [Artifacts!Next]_Artifacts!vars PROVE CitationInv'
<1> USE DEF Artifacts!registry, Artifacts!calls, Artifacts!unitState, Artifacts!collectorFiles
<1>0. Artifacts!Unit = Unit /\ Artifacts!Reader = Reader /\ Artifacts!Collector = Collector
      /\ Unit = {Collector, Reader} /\ Collector # Reader
  BY DEF Unit, Artifacts!Unit, Collector, Reader, Artifacts!Collector, Artifacts!Reader
<1>1. ASSUME UNCHANGED <<knowledge, saved>>, \A q \in quotes' : Quote(q), \A x \in patching' : Genuine(x.read)
      PROVE  CitationInv'
  BY <1>1 DEF CitationInv
<1>2. (\A q \in quotes : Quote(q)) /\ \A x \in patching : Genuine(x.read)
  BY DEF CitationInv
<1>3. ASSUME NEW u \in Unit, NEW status, Artifacts!SaveUnit(u, status, Artifacts!Live), UNCHANGED <<knowledge, quotes, patching>>
      PROVE  CitationInv'
  <2>1. DOMAIN saved' = Unit /\ IF u = Reader THEN saved'[Reader].files = knowledge ELSE saved'[Reader] = saved[Reader]
    BY <1>0, <1>3 DEF Artifacts!SaveUnit, Artifacts!Files, CitationInv
  <2>2. QED
    BY <1>3, <2>1 DEF CitationInv
<1>4. ASSUME NEW u \in Unit, Artifacts!Begin(u) PROVE CitationInv'
  <2>1. UNCHANGED <<quotes, patching>>
    BY <1>4 DEF Artifacts!Begin
  <2>2. CASE Artifacts!BeginFresh(u)
    BY <1>3, <2>1, <2>2 DEF Artifacts!BeginFresh
  <2>3. CASE Artifacts!BeginAgain(u) \/ Artifacts!BeginCompleted(u)
    <3>1. /\ saved' = saved /\ saved[u].status # "none"
          /\ IF u = Collector THEN knowledge' = knowledge ELSE knowledge' = saved[u].files
      BY <1>0, <2>3 DEF Artifacts!BeginAgain, Artifacts!BeginCompleted, Artifacts!RestoreUnit
    <3>2. Genuine(knowledge')
      BY <1>0, <3>1 DEF CitationInv
    <3>3. QED
      BY <2>1, <3>1, <3>2 DEF CitationInv
  <2>4. QED
    BY <1>4, <2>2, <2>3 DEF Artifacts!Begin
<1>5. ASSUME NEW u \in Unit, Artifacts!Complete(u) PROVE CitationInv'
  BY <1>3, <1>5 DEF Artifacts!Complete
<1>6. ASSUME NEW u \in Unit, Artifacts!Discover(u) PROVE CitationInv'
  BY <1>1, <1>2, <1>6 DEF Artifacts!Discover
<1>7. ASSUME NEW u \in Unit, NEW i \in DOMAIN entries, Artifacts!SearchRead(u, i) PROVE CitationInv'
  BY <1>1, <1>2, <1>7 DEF Artifacts!SearchRead
<1>8. ASSUME NEW u \in Unit, NEW x \in searching[u], Artifacts!Capture(u, x) PROVE CitationInv'
  <2> DEFINE base == [artifact |-> x.artifact, digest |-> x.read, context |-> FALSE, text |-> x.read]
  <2>0. base.artifact = x.artifact /\ base.digest = x.read /\ base.context = FALSE /\ base.text = x.read
    OBVIOUS
  <2>1. Quote(base)
    BY <2>0 DEF Quote
  <2>2. quotes' = Artifacts!Expand(Artifacts!Store(quotes, base), base)
    BY <1>8 DEF Artifacts!Capture
  <2> HIDE DEF base
  <2>3. \A q \in quotes' : Quote(q)
    BY <1>2, <2>1, <2>2, StoreGenuine, ExpandGenuine
  <2>4. QED
    BY <1>1, <1>2, <1>8, <2>3 DEF Artifacts!Capture
<1>9. ASSUME NEW u \in Unit, NEW q \in quotes, Artifacts!CaptureQuote(u, q) PROVE CitationInv'
  <2>1. \A k \in quotes' : Quote(k)
    BY <1>2, <1>9, ExpandGenuine DEF Artifacts!CaptureQuote
  <2>2. QED
    BY <1>1, <1>2, <1>9, <2>1 DEF Artifacts!CaptureQuote
<1>10. ASSUME Artifacts!SubmitKnowledge PROVE CitationInv'
  <2>1. PICK cite \in [Item -> {q \in quotes : Artifacts!Citable(q)}] : knowledge' = Artifacts!Materialized(cite)
    BY <1>10 DEF Artifacts!SubmitKnowledge
  <2>2. /\ knowledge'.items = [i \in Item |-> {KeyOf(cite[i])}]
        /\ knowledge'.quotes = {cite[i] : i \in Item}
    BY <2>1 DEF Artifacts!Materialized, Artifacts!Range, Artifacts!KeyOf, KeyOf
  <2>3. Sound(knowledge') /\ \A q \in knowledge'.quotes : Quote(q)
    BY <1>2, <2>1, <2>2 DEF Sound
  <2>4. QED
    BY <1>10, <2>3 DEF CitationInv, Genuine, Artifacts!SubmitKnowledge
<1>11. ASSUME NEW i \in Item, Artifacts!PatchRead(i) PROVE CitationInv'
  <2>1. patching' = patching \cup {[item |-> i, read |-> knowledge]} /\ UNCHANGED <<knowledge, quotes, saved>>
    BY <1>11 DEF Artifacts!PatchRead
  <2>2. Genuine([item |-> i, read |-> knowledge].read)
    BY DEF CitationInv
  <2>3. QED
    BY <1>1, <1>2, <2>1, <2>2
<1>12. ASSUME NEW x \in patching, Artifacts!PatchEnd(x) PROVE CitationInv'
  <2>1. patching' \subseteq patching /\ UNCHANGED <<quotes, saved>>
    BY <1>12 DEF Artifacts!PatchEnd
  <2>2. \A q \in x.read.quotes : Quote(q)
    BY <1>2 DEF Genuine
  <2>3. ASSUME Artifacts!Sound(Artifacts!Remove(x.read, x.item)) PROVE Genuine(Artifacts!Remove(x.read, x.item))
    BY <2>2, <2>3, PatchGenuine DEF Artifacts!Remove
  <2>4. ASSUME NEW q \in quotes, Artifacts!Sound(Artifacts!Cite(x.read, x.item, q))
        PROVE  Genuine(Artifacts!Cite(x.read, x.item, q))
    <3>1. \A k \in Artifacts!Store(x.read.quotes, q) : Quote(k)
      BY <1>2, <2>2, StoreGenuine
    <3>2. QED
      BY <2>4, <3>1, PatchGenuine DEF Artifacts!Cite
  <2>5. Genuine(knowledge')
    <3>1. PICK k \in {Artifacts!Remove(x.read, x.item)}
                      \cup {Artifacts!Cite(x.read, x.item, q) : q \in {y \in quotes : y.artifact \in authorized[Artifacts!Reader]}} :
            IF Artifacts!Sound(k) THEN knowledge' = k ELSE UNCHANGED knowledge
      BY <1>12 DEF Artifacts!PatchEnd
    <3>2. CASE Artifacts!Sound(k)
      BY <2>3, <2>4, <3>1, <3>2
    <3>3. CASE ~Artifacts!Sound(k)
      BY <3>1, <3>3 DEF CitationInv
    <3>4. QED
      BY <3>2, <3>3
  <2>6. QED
    BY <1>2, <2>1, <2>5 DEF CitationInv
<1>13. ASSUME Artifacts!Crash PROVE CitationInv'
  BY <1>1, <1>13 DEF Artifacts!Crash
<1>14. ASSUME Artifacts!CollectorStep PROVE CitationInv'
  <2>1. UNCHANGED <<knowledge, saved, quotes, patching>>
    BY <1>14 DEF Artifacts!CollectorStep, Artifacts!CreateFile, Artifacts!WriteMarkdown, Artifacts!RegisterRead,
                 Artifacts!RegisterEnd, Artifacts!RetainToolResult, Artifacts!RegisterRetained
  <2>2. QED
    BY <1>1, <1>2, <2>1
<1>15. CASE UNCHANGED Artifacts!vars
  BY <1>1, <1>2, <1>15 DEF Artifacts!vars
<1>16. QED
  BY <1>0, <1>4, <1>5, <1>6, <1>7, <1>8, <1>9, <1>10, <1>11, <1>12, <1>13, <1>14, <1>15
     DEF Artifacts!Next, Artifacts!ReaderStep

(* Every item of knowledge.json cites quotes that the file holds, each with *)
(* the text of the version its digest names, however searches, writes,     *)
(* captures, patches and crashes interleave (internal/evidence/quote.go,   *)
(* internal/cli/runtime_workflow_tools.go).                                *)
THEOREM CitationsStayGenuine == Artifacts!Spec => []CitationsAreGenuine
<1>1. CitationInv => CitationsAreGenuine
  BY DEF CitationInv, Genuine, Quote, CitationsAreGenuine
<1>2. QED
  BY <1>1, CitationInitially, CitationStep, PTL DEF Artifacts!Spec
================================================================================
