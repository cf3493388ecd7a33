------------------------------- MODULE MCApply ---------------------------------
(***************************************************************************)
(* The apply command, in one run of two parts that are checked side by     *)
(* side: the apply of a plan, and the upload of one s3_folder with its     *)
(* rollback.                                                               *)
(*                                                                         *)
(* The plan: an upload, and then a dynamic block beside a module of        *)
(* parallelism 1 that runs a research block and then a serial dynamic      *)
(* block, all under a parallelism of two. The folder has a small file, a   *)
(* large one over an older object, and a small one.                        *)
(***************************************************************************)
EXTENDS ApplyPlan, S3FolderState

CONSTANTS r, dyn, m, up, ser, t1, t2, k1, k2, k3

MCNode == {r, dyn, m, up, ser}
MCHome == [n \in MCNode |-> IF n \in {r, ser} THEN m ELSE Root]
MCKind == [n \in MCNode |-> CASE n \in {dyn, ser} -> "dynamic" [] n = m -> "module"
                              [] n = up -> "s3_folder" [] OTHER -> "research"]
MCDependencies == [n \in MCNode |-> CASE n \in {dyn, m} -> {up} [] n = ser -> {r} [] OTHER -> {}]
MCBase == [n \in MCNode |-> n]
MCWidth == [x \in {Root, m} |-> IF x = Root THEN 2 ELSE 1]
MCTaskLists == [n \in {dyn, ser} |-> IF n = dyn THEN {<<t1, t2>>, <<t2>>} ELSE {<<t1>>}]

MCFiles == <<k1, k2, k3>>

VARIABLE checked      (* which of the two parts is at work *)

folderVars == <<versioning, namesIds, bucket, uploads, nextId, at, file, attempt, upload,
                part, uploaded, errors, canceled, unanswered, faults>>

Folder == INSTANCE S3Folder

PartsInit ==
  /\ checked \in {"plan", "folder"}
  /\ Init /\ Folder!Init
  /\ checked # "folder" => versioning = "Enabled" /\ namesIds

PartsNext ==
  /\ UNCHANGED checked
  /\ \/ checked = "plan" /\ Next /\ UNCHANGED folderVars
     \/ checked = "folder" /\ Folder!Next /\ UNCHANGED vars

(* Only the first part has liveness; Progress is enabled for ever in the   *)
(* other, so fairness leaves no behaviour of that one to ApplyEnds.         *)
PartsSpec ==
  /\ PartsInit /\ [][PartsNext]_<<checked, vars, folderVars>>
  /\ WF_vars(Progress)
================================================================================
