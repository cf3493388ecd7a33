------------------------------- MODULE S3Folder -------------------------------
(***************************************************************************)
(* The upload of one s3_folder block and its rollback (internal/s3 and     *)
(* internal/cli/runtime_s3.go).                                            *)
(*                                                                         *)
(* Every call goes through Retry: it may be executed and answered,         *)
(* executed with its answer lost, refused with a transient error, or       *)
(* rejected.  The bucket is the external service as the calls see it:      *)
(* an enabled bucket adds a version per object put, any other replaces the *)
(* unversioned one.                                                        *)
(***************************************************************************)
EXTENDS S3FolderState, SequencesExt

service == <<versioning, namesIds, bucket, uploads, nextId>>
vars == <<versioning, namesIds, bucket, uploads, nextId, at, file, attempt, upload, part, uploaded,
          errors, canceled, unanswered, faults>>

NoId == 0
Statuses == {"Enabled", "Disabled", "Suspended"}
Cleanup == {"abort", "delete"}

Init ==
  /\ versioning \in Statuses /\ namesIds \in BOOLEAN
  /\ bucket = [k \in Key |-> IF k \in Prior THEN {Old} ELSE {}]
  /\ uploads = {} /\ nextId = 2
  /\ at = "versioning" /\ file = 1 /\ attempt = 0 /\ upload = NoId /\ part = 0
  /\ uploaded = <<>> /\ errors = FALSE /\ canceled = FALSE /\ unanswered = {} /\ faults = 0

Current == Files[file]

----------------------------------------------------------------------------
(* The service.                                                            *)

\* The bucket after an object is put under key k.
WithObject(k) ==
  LET version == [id |-> nextId, mine |-> TRUE]
  IN  [bucket EXCEPT ![k] = IF versioning = "Enabled" THEN @ \cup {version} ELSE {version}]

\* The calls and what executing each does.
Executable(call) == call \in {"complete", "abort"} => upload \in uploads

Execute(call) ==
  CASE call = "put" ->
         bucket' = WithObject(Current) /\ nextId' = nextId + 1 /\ UNCHANGED uploads
    [] call = "create" ->
         uploads' = uploads \cup {nextId} /\ nextId' = nextId + 1 /\ UNCHANGED bucket
    [] call = "complete" ->
         /\ bucket' = WithObject(Current) /\ uploads' = uploads \ {upload} /\ nextId' = nextId + 1
    [] call = "abort" ->
         uploads' = uploads \ {upload} /\ UNCHANGED <<bucket, nextId>>
    [] call = "delete" ->
         LET object == Last(uploaded)
         IN  /\ bucket' = [bucket EXCEPT ![object.key] = {v \in @ : v.id # object.version}]
             /\ UNCHANGED <<uploads, nextId>>
    [] OTHER -> UNCHANGED <<bucket, uploads, nextId>>

----------------------------------------------------------------------------
(* The block.                                                              *)

\* uploadFile: one PUT, or a multipart upload; nothing left to upload.
NextUpload(done) ==
  /\ file' = done + 1 /\ part' = 0 /\ upload' = NoId
  /\ at' = IF done = Len(Files) THEN "uploaded"
           ELSE IF Files[done + 1] \in Large THEN "create" ELSE "put"

\* RollbackUploaded: without versioning nothing may be deleted; else what
\* was recorded is deleted, the last object first.
RollBack(failed) ==
  LET available == versioning = "Enabled"
  IN  /\ uploaded' = IF available THEN uploaded ELSE <<>>
      /\ errors' = (failed \/ ~available)
      /\ at' = IF available /\ uploaded # <<>> THEN "delete" ELSE "failed"

\* The next object of that loop.
NextObject ==
  /\ uploaded' = Front(uploaded)
  /\ at' = IF Len(uploaded) = 1 THEN "failed" ELSE "delete"

Answered(call) ==
  CASE call = "versioning" -> NextUpload(0) /\ UNCHANGED <<uploaded, errors>>
    [] call \in {"put", "complete"} ->
         LET version == IF versioning = "Enabled" /\ namesIds THEN nextId ELSE NoId
         IN  /\ uploaded' = Append(uploaded, [key |-> Current, version |-> version])
             /\ NextUpload(file) /\ UNCHANGED errors
    [] call = "create" ->
         /\ upload' = nextId /\ at' = "part" /\ part' = 0 /\ UNCHANGED <<file, uploaded, errors>>
    [] call = "part" ->
         /\ part' = part + 1 /\ at' = IF part + 1 = Parts THEN "complete" ELSE "part"
         /\ UNCHANGED <<file, upload, uploaded, errors>>
    [] call = "abort" -> RollBack(errors) /\ UNCHANGED <<file, upload, part>>
    [] call = "delete" -> NextObject /\ UNCHANGED <<file, upload, part, errors>>

\* A call failed for good: a multipart upload is aborted first, then what was
\* recorded is deleted; a failed deletion does not stop the others.
\* Mutant: a failed completion is not aborted.
FailedUnaborted(call) ==
  /\ UNCHANGED <<file, upload, part>>
  /\ CASE call = "versioning" -> at' = "failed" /\ UNCHANGED <<uploaded, errors>>
       [] call = "part" -> at' = "abort" /\ UNCHANGED <<uploaded, errors>>
       [] call \in {"put", "create", "complete"} -> RollBack(errors)
       [] call = "abort" -> RollBack(TRUE)
       [] call = "delete" -> NextObject /\ errors' = TRUE
Failed(call) ==
  /\ UNCHANGED <<file, upload, part>>
  /\ CASE call = "versioning" -> at' = "failed" /\ UNCHANGED <<uploaded, errors>>
       [] call \in {"part", "complete"} -> at' = "abort" /\ UNCHANGED <<uploaded, errors>>
       [] call \in {"put", "create"} -> RollBack(errors)
       [] call = "abort" -> RollBack(TRUE)
       [] call = "delete" -> NextObject /\ errors' = TRUE

----------------------------------------------------------------------------
(* Retry.                                                                  *)

Finished == at \in {"uploaded", "failed"}
\* An object without a version id cannot be deleted.
Unnamed == at = "delete" /\ Last(uploaded).version = NoId
\* Cleanup runs without the context's cancellation.
MayCall == ~Finished /\ ~Unnamed /\ (canceled => at \in Cleanup)
Fault == faults < MaxFailures /\ faults' = faults + 1
Stay == UNCHANGED <<at, file, upload, part, uploaded, errors>>

CallAnswered ==
  /\ MayCall /\ Executable(at)
  /\ Execute(at) /\ Answered(at) /\ attempt' = 0
  /\ UNCHANGED <<versioning, namesIds, canceled, unanswered, faults>>

\* A transient error: tried again after the backoff unless the retries are spent.
TryAgain ==
  IF attempt < MaxRetries THEN attempt' = attempt + 1 /\ Stay
  ELSE attempt' = 0 /\ Failed(at)

CallUnanswered ==
  /\ MayCall /\ Executable(at) /\ Fault
  /\ Execute(at) /\ TryAgain
  /\ unanswered' = unanswered \cup (IF at \in {"put", "create", "complete"} THEN {nextId} ELSE {})
  /\ UNCHANGED <<versioning, namesIds, canceled>>

CallRefused ==
  /\ MayCall /\ Fault /\ TryAgain
  /\ UNCHANGED service /\ UNCHANGED <<canceled, unanswered>>

\* A permanent error; completing or aborting an upload that is gone is one.
CallRejected ==
  /\ MayCall
  /\ IF Executable(at) THEN Fault ELSE UNCHANGED faults
  /\ Failed(at) /\ attempt' = 0
  /\ UNCHANGED service /\ UNCHANGED <<canceled, unanswered>>

\* The context ends: a call before the next attempt, or in the backoff, fails.
Cancel ==
  /\ ~canceled /\ ~Finished /\ canceled' = TRUE
  /\ UNCHANGED service
  /\ UNCHANGED <<at, file, attempt, upload, part, uploaded, errors, unanswered, faults>>

CanceledCall ==
  /\ canceled /\ ~Finished /\ at \notin Cleanup
  /\ Failed(at) /\ attempt' = 0
  /\ UNCHANGED service /\ UNCHANGED <<canceled, unanswered, faults>>

\* An object without a version id is reported and skipped.
Skip ==
  /\ Unnamed
  /\ NextObject /\ errors' = TRUE
  /\ UNCHANGED service /\ UNCHANGED <<file, attempt, upload, part, canceled, unanswered, faults>>

Next == CallAnswered \/ CallUnanswered \/ CallRefused \/ CallRejected \/ Cancel \/ CanceledCall \/ Skip

Spec == Init /\ [][Next]_vars
================================================================================
