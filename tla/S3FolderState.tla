----------------------------- MODULE S3FolderState -----------------------------
(***************************************************************************)
(* The parameters and the state of S3Folder, and what an upload promises   *)
(* about the bucket.                                                       *)
(***************************************************************************)
EXTENDS Naturals, Sequences, Functions

CONSTANTS
  Files,        (* the object keys of the folder, in the order of the walk   *)
  Large,        (* keys whose file is uploaded in parts                      *)
  Parts,        (* parts of a large file                                     *)
  Prior,        (* keys that hold an object before the upload                *)
  MaxRetries,   (* RetryPolicy.MaxRetries                                    *)
  MaxFailures   (* bound: calls that fail or whose answer is lost            *)

ASSUME S3Assumption ==
  /\ Parts \in Nat \ {0} /\ MaxRetries \in Nat /\ MaxFailures \in Nat
  /\ Files \in Seq(Range(Files)) /\ Prior \subseteq Range(Files)
  /\ \A i, j \in DOMAIN Files : Files[i] = Files[j] => i = j

VARIABLES
  versioning,   \* the bucket's status
  namesIds,     \* the service returns version ids
  bucket,       \* key -> its versions
  uploads,      \* multipart uploads in progress at the service
  nextId,       \* the next version or upload id
  at,           \* the call to make next, or "uploaded", "failed"
  file,         \* index of the file being uploaded
  attempt,      \* attempts of the current call so far
  upload,       \* UploadId of the current multipart upload
  part,         \* parts uploaded
  uploaded,     \* recorded objects
  errors,       \* cleanup errors joined to the returned error
  canceled,     \* the Apply context ended
  unanswered,   \* ids of what a call created without an answer
  faults        \* failed calls so far (model bound)

Key == Range(Files)
Old == [id |-> 1, mine |-> FALSE]

(* A key that held an object still holds one, its old version too when the *)
(* bucket keeps versions; and a failed block whose error reports no        *)
(* cleanup failure has left nothing of its own but what a call created     *)
(* without an answer (rollback.go RollbackUploaded, upload.go              *)
(* abortMultipart).                                                        *)
EarlierObjectsSurvive ==
  \A k \in Prior :
    IF versioning = "Enabled" THEN Old \in bucket[k] ELSE bucket[k] # {}

CleanRollbackIsComplete ==
  at = "failed" /\ ~errors =>
    /\ uploads \subseteq unanswered
    /\ \A k \in Key : \A v \in bucket[k] : v.mine => v.id \in unanswered

RollbackIsExact == EarlierObjectsSurvive /\ CleanRollbackIsComplete
================================================================================
