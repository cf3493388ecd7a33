----------------------------- MODULE OutputsProofs -----------------------------
(***************************************************************************)
(* What a run hands to the outside: the objects of an S3 folder and the    *)
(* records of the event stream.                                            *)
(*                                                                         *)
(* An upload that fails leaves exactly what it should: proved for every    *)
(* folder, every number of parts, retries and faults, and every kind of    *)
(* bucket.  The invariant follows what the block made from the call that   *)
(* makes it to the one that takes it away: an object of the block is       *)
(* recorded for the rollback, or was made without an answer, or an error   *)
(* tells of it; a multipart upload is the current one, or was begun        *)
(* without an answer, or an error tells of it.                             *)
(*                                                                         *)
(* The consumer of the stream is current once it was sent all there is:    *)
(* proved for every plan, capacity and number of events.  The invariant    *)
(* follows the newest record of each block through the queue.              *)
(***************************************************************************)
EXTENDS S3Folder, ProgressState, SequenceTheorems, TLAPS

Uploading == {"put", "create", "part", "complete"}
Calls == {"versioning"} \cup Uploading \cup Cleanup
Object == [key : Key, version : Nat \ {Old.id}]
Versions == [id : Nat, mine : BOOLEAN]

ServiceType ==
  /\ bucket \in [Key -> SUBSET Versions] /\ uploads \subseteq Nat
  /\ nextId \in Nat /\ nextId > Old.id

BlockType ==
  /\ at \in Calls \cup {"uploaded", "failed"} /\ file \in Nat \ {0} /\ part \in Nat /\ upload \in Nat
  /\ uploaded \in Seq(Object) /\ errors \in BOOLEAN
  /\ at \in Uploading => file \in DOMAIN Files

(* What the block has recorded when it makes a call.                       *)
PhaseInv ==
  /\ at \in {"versioning", "failed"} => uploaded = <<>>
  /\ at = "delete" => versioning = "Enabled" /\ uploaded # <<>>

Recorded(k, v) ==
  \E i \in DOMAIN uploaded : uploaded[i].key = k /\ uploaded[i].version \in {v.id, NoId}

ObjectsInv ==
  \A k \in Key : \A v \in bucket[k] :
    v.mine => v.id \in unanswered \/ errors \/ Recorded(k, v)

UploadsInv ==
  \A u \in uploads :
    u \in unanswered \/ errors \/ (u = upload /\ at \in {"part", "complete", "abort"})

FolderInv ==
  /\ versioning \in Statuses /\ ServiceType /\ BlockType /\ PhaseInv
  /\ ObjectsInv /\ UploadsInv /\ EarlierObjectsSurvive
--------------------------------------------------------------------------------
(* Lemmas about the list of recorded objects.                              *)

LEMMA FrontOfObjects ==
  ASSUME NEW S, NEW s \in Seq(S), s # <<>>
  PROVE  /\ Front(s) \in Seq(S) /\ Last(s) \in S /\ Len(s) \in DOMAIN s
         /\ Len(s) = 1 <=> Front(s) = <<>>
         /\ \A i \in DOMAIN s : i = Len(s) \/ (i \in DOMAIN Front(s) /\ Front(s)[i] = s[i])
<1>1. Len(s) \in Nat \ {0} /\ DOMAIN s = 1..Len(s)
  BY EmptySeq, LenProperties
<1>2. Front(s) \in Seq(S) /\ Len(Front(s)) = Len(s) - 1
      /\ \A i \in 1..(Len(s) - 1) : Front(s)[i] = s[i]
  BY <1>1, SubSeqProperties, SMTT(30) DEF Front
<1>3. Last(s) \in S
  BY <1>1, ElementOfSeq DEF Last
<1>4. DOMAIN Front(s) = 1..(Len(s) - 1)
  BY <1>2, LenProperties
<1>5. Len(s) = 1 <=> Front(s) = <<>>
  BY <1>1, <1>2, EmptySeq
<1> QED
  BY <1>1, <1>2, <1>3, <1>4, <1>5

LEMMA AppendedObject ==
  ASSUME NEW S, NEW s \in Seq(S), NEW e \in S
  PROVE  /\ Append(s, e) \in Seq(S) /\ Append(s, e) # <<>>
         /\ \A i \in DOMAIN s : i \in DOMAIN Append(s, e) /\ Append(s, e)[i] = s[i]
         /\ \E i \in DOMAIN Append(s, e) : Append(s, e)[i] = e
<1>1. Append(s, e) \in Seq(S) /\ Append(s, e) # <<>> /\ Len(Append(s, e)) = Len(s) + 1
      /\ (\A i \in 1..Len(s) : Append(s, e)[i] = s[i]) /\ Append(s, e)[Len(s) + 1] = e
  BY AppendProperties
<1>2. Len(s) \in Nat /\ DOMAIN s = 1..Len(s) /\ DOMAIN Append(s, e) = 1..(Len(s) + 1)
  BY <1>1, LenProperties
<1> QED
  BY <1>1, <1>2

LEMMA CurrentFile ==
  ASSUME FolderInv, at \in Uploading
  PROVE  Current \in Key /\ file \in 1..Len(Files) /\ Len(Files) \in Nat
<1>1. Files \in Seq(Key) /\ file \in DOMAIN Files
  BY S3Assumption DEF Key, FolderInv, BlockType
<1> QED
  BY <1>1, ElementOfSeq, LenProperties DEF Current
--------------------------------------------------------------------------------
(* What executing a call does to the service, whether or not it is         *)
(* answered.                                                               *)

LEMMA Executed ==
  ASSUME FolderInv, at \in Calls, ~Unnamed, Executable(at), Execute(at), versioning' = versioning
  PROVE  /\ ServiceType' /\ EarlierObjectsSurvive'
         /\ \A k \in Key : \A v \in bucket'[k] :
              v \in bucket[k] \/ (at \in {"put", "complete"} /\ k = Current /\ v.id = nextId)
         /\ at = "delete" => \A v \in bucket'[Last(uploaded).key] : v.id # Last(uploaded).version
         /\ uploads' \subseteq uploads \cup (IF at = "create" THEN {nextId} ELSE {})
         /\ at \in {"complete", "abort"} => upload \notin uploads'
<1> DEFINE version == [id |-> nextId, mine |-> TRUE]
           object == Last(uploaded)
<1> USE S3Assumption DEF FolderInv, ServiceType
<1>1. Prior \subseteq Key
  BY DEF Key
<1>2. CASE at \in {"put", "complete"}
  <2>1. Current \in Key
    BY <1>2, CurrentFile DEF Uploading
  <2>2. bucket' = WithObject(Current) /\ nextId' = nextId + 1 /\ uploads' \subseteq uploads
        /\ (at = "complete" => upload \notin uploads')
    BY <1>2 DEF Execute
  <2>3. version \in Versions /\ version.id = nextId
    BY DEF Versions
  <2>4. bucket' \in [Key -> SUBSET Versions]
    BY <2>1, <2>2, <2>3 DEF WithObject
  <2>5. \A k \in Key : bucket'[k] = IF k # Current THEN bucket[k]
                                    ELSE IF versioning = "Enabled" THEN bucket[k] \cup {version}
                                    ELSE {version}
    BY <2>1, <2>2 DEF WithObject
  <2>6. nextId' \in Nat /\ nextId' > Old.id
    BY <2>2 DEF Old
  <2>7. EarlierObjectsSurvive'
    BY <1>1, <2>5 DEF EarlierObjectsSurvive
  <2> QED
    BY <1>2, <2>2, <2>3, <2>4, <2>5, <2>6, <2>7
<1>3. CASE at = "create"
  <2>1. bucket' = bucket /\ nextId' = nextId + 1 /\ uploads' = uploads \cup {nextId}
    BY <1>3 DEF Execute
  <2>2. nextId' \in Nat /\ nextId' > Old.id
    BY <2>1 DEF Old
  <2> QED
    BY <1>3, <2>1, <2>2 DEF EarlierObjectsSurvive
<1>4. CASE at = "delete"
  <2>1. uploaded \in Seq(Object) /\ uploaded # <<>> /\ versioning = "Enabled"
    BY <1>4 DEF BlockType, PhaseInv
  <2>2. object \in Object
    BY <2>1, FrontOfObjects
  <2>3. bucket' = [bucket EXCEPT ![object.key] = {v \in @ : v.id # object.version}]
        /\ nextId' = nextId /\ uploads' = uploads
    BY <1>4 DEF Execute
  <2>4. \A k \in Key : bucket'[k] = IF k = object.key THEN {v \in bucket[k] : v.id # object.version}
                                    ELSE bucket[k]
    BY <2>2, <2>3 DEF Object
  <2>5. object.version # Old.id /\ object.key \in Key
    BY <2>2 DEF Object
  <2>6. bucket' \in [Key -> SUBSET Versions]
    BY <2>2, <2>3 DEF Object
  <2>7. EarlierObjectsSurvive'
    BY <1>1, <2>1, <2>4, <2>5 DEF EarlierObjectsSurvive
  <2> QED
    BY <1>4, <2>3, <2>4, <2>5, <2>6, <2>7
<1>5. CASE at \in {"versioning", "part", "abort"}
  BY <1>5 DEF Execute, EarlierObjectsSurvive
<1> QED
  BY <1>2, <1>3, <1>4, <1>5 DEF Calls, Uploading, Cleanup
--------------------------------------------------------------------------------
(* The service may gain only what was made without an answer.              *)
Unclaimed ==
  /\ versioning' = versioning /\ ServiceType' /\ EarlierObjectsSurvive'
  /\ unanswered \subseteq unanswered'
  /\ \A k \in Key : \A v \in bucket'[k] : v \in bucket[k] \/ v.id \in unanswered'
  /\ uploads' \subseteq uploads \cup unanswered'

LEMMA RollBackBegins ==
  ASSUME FolderInv, at \in {"put", "create", "complete", "abort"}, Unclaimed,
         NEW failed \in BOOLEAN, errors => failed, RollBack(failed),
         UNCHANGED <<file, upload, part>>,
         failed \/ upload \notin uploads' \/ at \notin {"complete", "abort"}
  PROVE  FolderInv'
<1> USE DEF FolderInv, Unclaimed
<1>1. versioning = "Enabled" =>
        uploaded' = uploaded /\ errors' = failed /\ at' = IF uploaded # <<>> THEN "delete" ELSE "failed"
  BY DEF RollBack
<1>2. versioning # "Enabled" => uploaded' = <<>> /\ errors' = TRUE /\ at' = "failed"
  BY DEF RollBack
<1>3. BlockType'
  BY <1>1, <1>2, EmptySeq DEF BlockType, Calls, Cleanup, Uploading
<1>4. PhaseInv'
  BY <1>1, <1>2 DEF PhaseInv
<1>5. ObjectsInv'
  BY <1>1, <1>2 DEF ObjectsInv, Recorded
<1>6. UploadsInv'
  BY <1>1, <1>2 DEF UploadsInv
<1> QED
  BY <1>3, <1>4, <1>5, <1>6

LEMMA CallFails ==
  ASSUME FolderInv, at \in Calls, Failed(at), Unclaimed
  PROVE  FolderInv'
<1> USE DEF FolderInv, Unclaimed
<1>1. CASE at = "versioning"
  <2>1. at' = "failed" /\ UNCHANGED <<file, upload, part, uploaded, errors>>
    BY <1>1 DEF Failed
  <2> QED
    BY <1>1, <2>1 DEF BlockType, PhaseInv, ObjectsInv, UploadsInv, Recorded, Uploading
<1>2. CASE at \in {"part", "complete"}
  <2>1. at' = "abort" /\ UNCHANGED <<file, upload, part, uploaded, errors>>
    BY <1>2 DEF Failed
  <2> QED
    BY <1>2, <2>1 DEF BlockType, PhaseInv, ObjectsInv, UploadsInv, Recorded, Uploading, Calls, Cleanup
<1>3. CASE at \in {"put", "create"}
  <2>1. RollBack(errors) /\ UNCHANGED <<file, upload, part>> /\ errors \in BOOLEAN
    BY <1>3 DEF Failed, BlockType
  <2> QED
    BY <1>3, <2>1, RollBackBegins
<1>4. CASE at = "abort"
  <2>1. RollBack(TRUE) /\ UNCHANGED <<file, upload, part>>
    BY <1>4 DEF Failed
  <2> QED
    BY <1>4, <2>1, RollBackBegins
<1>5. CASE at = "delete"
  <2>1. NextObject /\ errors' = TRUE /\ UNCHANGED <<file, upload, part>>
    BY <1>5 DEF Failed
  <2>2. uploaded \in Seq(Object) /\ uploaded # <<>>
    BY <1>5 DEF BlockType, PhaseInv
  <2>3. uploaded' \in Seq(Object) /\ at' \in {"failed", "delete"}
        /\ (at' = "failed" <=> uploaded' = <<>>)
    BY <2>1, <2>2, FrontOfObjects DEF NextObject
  <2> QED
    BY <1>5, <2>1, <2>3 DEF BlockType, PhaseInv, ObjectsInv, UploadsInv, Uploading, Calls, Cleanup
<1> QED
  BY <1>1, <1>2, <1>3, <1>4, <1>5 DEF Calls, Uploading, Cleanup
--------------------------------------------------------------------------------
LEMMA NothingExecuted ==
  ASSUME FolderInv, UNCHANGED service, unanswered' = unanswered
  PROVE  Unclaimed
BY DEF FolderInv, ServiceType, EarlierObjectsSurvive, Unclaimed, service

LEMMA Retried ==
  ASSUME FolderInv, at \in Calls, TryAgain, Unclaimed
  PROVE  FolderInv'
<1>1. CASE attempt < MaxRetries
  <2>1. UNCHANGED <<at, file, upload, part, uploaded, errors>>
    BY <1>1 DEF TryAgain, Stay
  <2> QED
    BY <2>1 DEF FolderInv, Unclaimed, BlockType, PhaseInv, ObjectsInv, UploadsInv, Recorded
<1>2. CASE ~(attempt < MaxRetries)
  BY <1>2, CallFails DEF TryAgain
<1> QED
  BY <1>1, <1>2

LEMMA NextFile ==
  ASSUME FolderInv, NEW done \in Nat, done <= Len(Files), NextUpload(done)
  PROVE  /\ at' \in {"uploaded", "create", "put"} /\ file' \in Nat \ {0}
         /\ at' \in Uploading => file' \in DOMAIN Files
         /\ upload' = NoId /\ part' = 0
<1>1. Len(Files) \in Nat /\ DOMAIN Files = 1..Len(Files)
  BY S3Assumption, LenProperties
<1>2. file' = done + 1 /\ (at' = "uploaded" <=> done = Len(Files)) /\ upload' = NoId /\ part' = 0
      /\ at' \in {"uploaded", "create", "put"}
  BY DEF NextUpload
<1>3. ASSUME NEW n \in Nat, done <= n, done # n
      PROVE  done + 1 \in 1..n
  BY <1>3
<1>4. done + 1 \in Nat \ {0}
  OBVIOUS
<1> QED
  BY <1>1, <1>2, <1>3, <1>4 DEF Uploading

LEMMA CallIsAnswered ==
  ASSUME FolderInv, at \in Calls, CallAnswered
  PROVE  FolderInv'
<1> DEFINE object == Last(uploaded)
<1>1. ~Unnamed /\ Executable(at) /\ Execute(at) /\ Answered(at)
      /\ UNCHANGED <<versioning, unanswered>>
  BY DEF CallAnswered, MayCall
<1>2. /\ ServiceType' /\ EarlierObjectsSurvive' /\ versioning' \in Statuses
      /\ \A k \in Key : \A v \in bucket'[k] :
           v \in bucket[k] \/ (at \in {"put", "complete"} /\ k = Current /\ v.id = nextId)
      /\ at = "delete" => \A v \in bucket'[Last(uploaded).key] : v.id # Last(uploaded).version
      /\ uploads' \subseteq uploads \cup (IF at = "create" THEN {nextId} ELSE {})
      /\ at \in {"complete", "abort"} => upload \notin uploads'
  BY <1>1, Executed DEF FolderInv
<1> USE DEF FolderInv
<1>3. CASE at = "versioning"
  <2>1. NextUpload(0) /\ UNCHANGED <<uploaded, errors>> /\ Len(Files) \in Nat
    BY <1>1, <1>3, S3Assumption, LenProperties DEF Answered
  <2>2. /\ at' \in {"uploaded", "create", "put"} /\ file' \in Nat \ {0}
        /\ at' \in Uploading => file' \in DOMAIN Files
        /\ upload' = NoId /\ part' = 0
    BY <2>1, NextFile
  <2>3. BlockType'
    BY <1>3, <2>1, <2>2 DEF BlockType, Calls, Uploading, NoId
  <2>4. PhaseInv' /\ ObjectsInv' /\ UploadsInv'
    BY <1>1, <1>2, <1>3, <2>1, <2>2 DEF PhaseInv, ObjectsInv, UploadsInv, Recorded
  <2> QED
    BY <1>2, <2>3, <2>4
<1>4. CASE at \in {"put", "complete"}
  <2> DEFINE version == IF versioning = "Enabled" /\ namesIds THEN nextId ELSE NoId
             new == [key |-> Current, version |-> version]
  <2>1. uploaded' = Append(uploaded, new) /\ NextUpload(file) /\ errors' = errors
    BY <1>1, <1>4 DEF Answered
  <2>2. Current \in Key /\ file \in 1..Len(Files) /\ Len(Files) \in Nat
    BY <1>4, CurrentFile DEF Uploading
  <2>3. file \in Nat /\ file <= Len(Files)
    BY <2>2
  <2>4. /\ at' \in {"uploaded", "create", "put"} /\ file' \in Nat \ {0}
        /\ at' \in Uploading => file' \in DOMAIN Files
        /\ upload' = NoId /\ part' = 0
    BY <2>1, <2>3, NextFile
  <2>5. nextId \in Nat \ {Old.id} /\ NoId \in Nat \ {Old.id}
    BY DEF ServiceType, Old, NoId
  <2>6. new \in Object /\ new.key = Current /\ new.version \in {nextId, NoId}
    BY <2>2, <2>5 DEF Object
  <2>7. uploaded \in Seq(Object)
    BY DEF BlockType
  <2> HIDE DEF new
  <2>8. /\ uploaded' \in Seq(Object) /\ uploaded' # <<>>
        /\ \A i \in DOMAIN uploaded : i \in DOMAIN uploaded' /\ uploaded'[i] = uploaded[i]
        /\ \E i \in DOMAIN uploaded' : uploaded'[i] = new
    BY <2>1, <2>6, <2>7, AppendedObject
  <2>9. BlockType' /\ PhaseInv'
    BY <2>1, <2>4, <2>8 DEF BlockType, PhaseInv, Calls, Uploading, NoId
  <2>10. ObjectsInv'
    <3> SUFFICES ASSUME NEW k \in Key, NEW v \in bucket'[k], v.mine
                 PROVE  v.id \in unanswered \/ errors \/ Recorded(k, v)'
      BY <1>1, <2>1 DEF ObjectsInv
    <3>1. CASE v \in bucket[k]
      BY <2>8, <3>1 DEF ObjectsInv, Recorded
    <3>2. CASE k = Current /\ v.id = nextId
      BY <2>6, <2>8, <3>2 DEF Recorded
    <3> QED
      BY <1>2, <3>1, <3>2
  <2>11. UploadsInv'
    BY <1>1, <1>2, <1>4, <2>1 DEF UploadsInv
  <2> QED
    BY <1>2, <2>9, <2>10, <2>11
<1>5. CASE at \in {"create", "part"}
  <2>1. UNCHANGED <<file, uploaded, errors>> /\ part' \in Nat /\ at' \in {"part", "complete"}
        /\ upload' = IF at = "create" THEN nextId ELSE upload
    <3>1. part + 1 \in Nat
      BY DEF BlockType
    <3>2. CASE at = "create"
      BY <1>1, <3>2 DEF Answered
    <3>3. CASE at = "part"
      BY <1>1, <3>1, <3>3 DEF Answered
    <3> QED
      BY <1>5, <3>2, <3>3
  <2>2. BlockType'
    BY <1>5, <2>1 DEF ServiceType, BlockType, Calls, Uploading
  <2>3. PhaseInv' /\ ObjectsInv'
    BY <1>1, <1>2, <1>5, <2>1 DEF PhaseInv, ObjectsInv, Recorded
  <2>4. UploadsInv'
    BY <1>1, <1>2, <1>5, <2>1 DEF UploadsInv
  <2> QED
    BY <1>2, <2>2, <2>3, <2>4
<1>6. CASE at = "abort"
  <2>1. RollBack(errors) /\ UNCHANGED <<file, upload, part>> /\ errors \in BOOLEAN
    BY <1>1, <1>6 DEF Answered, BlockType
  <2>2. Unclaimed
    BY <1>1, <1>2, <1>6 DEF Unclaimed
  <2> QED
    BY <1>2, <1>6, <2>1, <2>2, RollBackBegins
<1>7. CASE at = "delete"
  <2>1. NextObject /\ UNCHANGED <<file, upload, part, errors>>
    BY <1>1, <1>7 DEF Answered
  <2>2. uploaded \in Seq(Object) /\ uploaded # <<>> /\ versioning = "Enabled"
    BY <1>7 DEF BlockType, PhaseInv
  <2>3. uploaded' \in Seq(Object) /\ at' \in {"failed", "delete"}
        /\ (at' = "failed" <=> uploaded' = <<>>)
    BY <2>1, <2>2, FrontOfObjects DEF NextObject
  <2>4. \A i \in DOMAIN uploaded :
          uploaded[i] = object \/ (i \in DOMAIN uploaded' /\ uploaded'[i] = uploaded[i])
    BY <2>1, <2>2, FrontOfObjects DEF NextObject, Last
  <2>5. object.version # NoId
    BY <1>1, <1>7 DEF Unnamed
  <2>6. BlockType' /\ PhaseInv'
    BY <1>1, <2>1, <2>2, <2>3 DEF BlockType, PhaseInv, Calls, Cleanup, Uploading
  <2>7. ObjectsInv'
    <3> SUFFICES ASSUME NEW k \in Key, NEW v \in bucket'[k], v.mine, v.id \notin unanswered, ~errors
                 PROVE  Recorded(k, v)'
      BY <1>1, <2>1 DEF ObjectsInv
    <3>1. v \in bucket[k]
      BY <1>2, <1>7, Zenon
    <3>2. PICK i \in DOMAIN uploaded : uploaded[i].key = k /\ uploaded[i].version \in {v.id, NoId}
      BY <3>1 DEF ObjectsInv, Recorded
    <3>3. uploaded[i] # object
      <4>1. uploaded[i] = object => k = object.key /\ v.id = object.version
        BY <2>5, <3>2
      <4> QED
        BY <1>2, <1>7, <4>1
    <3> QED
      BY <2>4, <3>2, <3>3 DEF Recorded
  <2>8. UploadsInv'
    BY <1>1, <1>2, <1>7, <2>1 DEF UploadsInv
  <2> QED
    BY <1>2, <2>6, <2>7, <2>8
<1> QED
  BY <1>3, <1>4, <1>5, <1>6, <1>7 DEF Calls, Uploading, Cleanup
--------------------------------------------------------------------------------
LEMMA FolderInvInitially == Init => FolderInv
<1> SUFFICES ASSUME Init PROVE FolderInv
  OBVIOUS
<1>1. ServiceType
  BY DEF Init, ServiceType, Versions, Old
<1>2. BlockType
  <2>1. <<>> \in Seq(Object)
    BY EmptySeq
  <2>2. at \in Calls /\ at \notin Uploading /\ errors \in BOOLEAN
    BY DEF Init, Calls, Uploading
  <2>3. file \in Nat \ {0} /\ part \in Nat /\ upload \in Nat
    BY DEF Init, NoId
  <2> QED
    BY <2>1, <2>2, <2>3 DEF Init, BlockType
<1>3. PhaseInv /\ ObjectsInv /\ UploadsInv
  BY DEF Init, PhaseInv, ObjectsInv, UploadsInv, Old
<1>4. EarlierObjectsSurvive
  BY S3Assumption DEF Init, EarlierObjectsSurvive, Key
<1> QED
  BY <1>1, <1>2, <1>3, <1>4 DEF FolderInv, Init

(* Every call is answered, or its answer is lost after it was executed, or *)
(* it fails; none of these loses sight of what the block made.             *)
THEOREM FolderInvariant == Spec => []FolderInv
<1>1. FolderInv /\ [Next]_vars => FolderInv'
  <2> SUFFICES ASSUME FolderInv, [Next]_vars PROVE FolderInv'
    OBVIOUS
  <2>1. ~Finished => at \in Calls
    BY DEF FolderInv, BlockType, Finished
  <2>2. CASE CallAnswered
    BY <2>1, <2>2, CallIsAnswered DEF CallAnswered, MayCall
  <2>3. CASE CallUnanswered
    <3>1. at \in Calls /\ ~Unnamed /\ Executable(at) /\ Execute(at) /\ TryAgain /\ versioning' = versioning
          /\ unanswered' = unanswered \cup (IF at \in {"put", "create", "complete"} THEN {nextId} ELSE {})
      BY <2>1, <2>3 DEF CallUnanswered, MayCall
    <3>2. Unclaimed
      BY <3>1, Executed DEF Unclaimed
    <3> QED
      BY <3>1, <3>2, Retried
  <2>4. CASE CallRefused
    BY <2>1, <2>4, NothingExecuted, Retried DEF CallRefused, MayCall
  <2>5. CASE CallRejected
    BY <2>1, <2>5, NothingExecuted, CallFails DEF CallRejected, MayCall
  <2>6. CASE Cancel \/ UNCHANGED vars
    <3>1. UNCHANGED <<service, at, file, upload, part, uploaded, errors, unanswered>>
      BY <2>6 DEF Cancel, service, vars
    <3>2. Unclaimed
      BY <3>1, NothingExecuted
    <3>3. BlockType' /\ PhaseInv'
      BY <3>1 DEF FolderInv, BlockType, PhaseInv, service
    <3>4. ObjectsInv' /\ UploadsInv'
      BY <3>1 DEF FolderInv, ObjectsInv, UploadsInv, Recorded, service
    <3> QED
      BY <3>2, <3>3, <3>4 DEF FolderInv, Unclaimed
  <2>7. CASE CanceledCall
    BY <2>1, <2>7, NothingExecuted, CallFails DEF CanceledCall
  <2>8. CASE Skip
    <3>1. NextObject /\ errors' = TRUE /\ UNCHANGED <<file, upload, part>> /\ at = "delete"
          /\ Unclaimed
      BY <2>8, NothingExecuted DEF Skip, Unnamed
    <3> QED
      BY <3>1, CallFails DEF Failed, Calls, Cleanup
  <2> QED
    BY <2>2, <2>3, <2>4, <2>5, <2>6, <2>7, <2>8 DEF Next
<1> QED
  BY <1>1, FolderInvInitially, PTL DEF Spec

(* A failed upload leaves nothing of its own that was not reported but     *)
(* what a call made without an answer, and an earlier object is never      *)
(* lost, whatever the service does with the calls (rollback.go             *)
(* RollbackUploaded, upload.go abortMultipart).                            *)
THEOREM FailedUploadsAreUndone == Spec => []RollbackIsExact
<1>1. FolderInv => RollbackIsExact
  BY EmptySeq, LenProperties
     DEF FolderInv, BlockType, PhaseInv, ObjectsInv, UploadsInv, Recorded, RollbackIsExact,
         CleanRollbackIsComplete
<1> QED
  BY <1>1, FolderInvariant, PTL

--------------------------------------------------------------------------------
(* The stream (Progress).  For each block, the newest record on its way to *)
(* the consumer, or else the consumer, has the projection.                 *)
Stream == INSTANCE Progress

Projections == UNION {[S -> Stream!Node] : S \in SUBSET Stream!Address}
StateRecord(a, v) == [type |-> "node", address |-> a, node |-> v]
NodeRecord(a) == StateRecord(a, nodes[a])
TasksRecord == [type |-> "tasks", nodes |-> [t \in Task |-> nodes[t]]]
Timelines == {Stream!Timeline(a) : a \in Stream!Address}
Structural == {Stream!Terminal} \cup [type : {"snapshot", "tasks"}, nodes : Projections]

Silent(r, a) == a \notin Stream!Addresses(r)
Value(r, a) == IF r.type = "node" THEN r.node ELSE r.nodes[a]
Carries(r, a) == a \in Stream!Addresses(r) /\ Value(r, a) = nodes[a]

(* The records are written in this order: the one at hand, those with      *)
(* priority, the states.                                                   *)
LastQueued(a) ==
  \E i \in DOMAIN priority :
    Carries(priority[i], a) /\ \A j \in DOMAIN priority : j > i => Silent(priority[j], a)
InHand(a) == Carries(writing, a) \/ (Silent(writing, a) /\ a \in DOMAIN view /\ view[a] = nodes[a])

Reaches(a) ==
  IF a \in DOMAIN upserts THEN upserts[a] = nodes[a]
  ELSE \/ LastQueued(a)
       \/ (\A j \in DOMAIN priority : Silent(priority[j], a)) /\ InHand(a)

QueueInv ==
  /\ priority \in Seq(Structural) /\ timelines \in Seq(Timelines)
  /\ nodes \in Projections /\ DOMAIN upserts \subseteq Projected
  /\ announced => Task \subseteq Projected
  /\ ~started => /\ priority = <<>> /\ upserts = Empty /\ writing = NoRecord /\ derived = <<>>
                 /\ ~subscribed /\ ~closed

(* The records of the event being dispatched say what is projected.        *)
StateDerived(a) == derived \in {<<NodeRecord(a)>>, <<NodeRecord(a), Stream!Timeline(a)>>}
TasksDerived == derived = <<TasksRecord>> /\ Task \subseteq Projected
DerivedInv ==
  derived = <<>> \/ TasksDerived \/ \E a \in Projected : StateDerived(a)

MentionedIn(s) == UNION {Stream!Addresses(s[i]) : i \in DOMAIN s}
Mentioned == MentionedIn(derived)

(* A pending state is the projected one, but for the state being derived.  *)
PendingInv ==
  ~closed => \A a \in DOMAIN upserts : upserts[a] = nodes[a] \/ StateDerived(a)

ReachInv ==
  started /\ ~stopped => \A a \in Projected \ (dropped \cup Mentioned) : Reaches(a)

StreamInv == QueueInv /\ DerivedInv /\ PendingInv /\ ReachInv
--------------------------------------------------------------------------------
LEMMA AddressesOf ==
  /\ \A a, v : Stream!Addresses(StateRecord(a, v)) = {a}
  /\ \A a : Stream!Addresses(Stream!Timeline(a)) = {}
  /\ \A ns : /\ Stream!Addresses([type |-> "tasks", nodes |-> ns]) = DOMAIN ns
              /\ Stream!Addresses([type |-> "snapshot", nodes |-> ns]) = DOMAIN ns
  /\ Stream!Addresses(Stream!Terminal) = {} /\ Stream!Addresses(NoRecord) = {}
BY DEF Stream!Addresses, StateRecord, Stream!Timeline, Stream!Terminal, NoRecord

LEMMA MentionedBy ==
  /\ MentionedIn(<<>>) = {}
  /\ \A ns : MentionedIn(<<[type |-> "tasks", nodes |-> ns]>>) = DOMAIN ns
  /\ \A a, v : /\ MentionedIn(<<StateRecord(a, v)>>) = {a}
               /\ MentionedIn(<<StateRecord(a, v), Stream!Timeline(a)>>) = {a}
<1>1. \A r : MentionedIn(<<r>>) = Stream!Addresses(r)
  BY DEF MentionedIn
<1>2. ASSUME NEW a, NEW v PROVE MentionedIn(<<StateRecord(a, v), Stream!Timeline(a)>>) = {a}
  <2> DEFINE s == <<StateRecord(a, v), Stream!Timeline(a)>>
  <2>1. DOMAIN s = {1, 2} /\ s[1] = StateRecord(a, v) /\ s[2] = Stream!Timeline(a)
    OBVIOUS
  <2>2. QED
    BY <2>1, AddressesOf DEF MentionedIn
<1>3. MentionedIn(<<>>) = {}
  BY DEF MentionedIn
<1> QED
  BY <1>1, <1>2, <1>3, AddressesOf, Zenon

(* What queueing a record r does, with p and u the queue's records and     *)
(* states, and d what was dropped before.                                  *)
QueuedAs(queued, p, u, d, r) ==
  \E t2 \in Seq(Timelines), d2 \in {d, d \cup {r}} :
    \/ /\ r.type = "node" /\ d2 = d
       /\ queued = [priority |-> p, upserts |-> Stream!Over([b \in {r.address} |-> r.node], u),
                    timelines |-> t2, dropped |-> d2]
    \/ /\ r.type \notin {"node", "timeline"} /\ d2 = d
       /\ queued = [priority |-> Append(p, r), upserts |-> u, timelines |-> t2, dropped |-> d2]
    \/ /\ r.type = "timeline" /\ d2 = d
       /\ queued = [priority |-> p, upserts |-> u, timelines |-> t2, dropped |-> d2]
    \/ /\ r.type = "node" => r.address \notin DOMAIN u
       /\ d2 = d \cup {r}
       /\ queued = [priority |-> p, upserts |-> u, timelines |-> t2, dropped |-> d2]

LEMMA Enqueued ==
  ASSUME NEW p, NEW u, NEW t \in Seq(Timelines), NEW d, NEW r, r.type = "timeline" => r \in Timelines
  PROVE  QueuedAs(Stream!Enqueue([priority |-> p, upserts |-> u, timelines |-> t, dropped |-> d], r), p, u, d, r)
<1> DEFINE q == [priority |-> p, upserts |-> u, timelines |-> t, dropped |-> d]
           e == Stream!Enqueue(q, r)
           full == Stream!Full(q)
<1>0. ASSUME NEW x
      PROVE  /\ [q EXCEPT !.timelines = x] = [priority |-> p, upserts |-> u, timelines |-> x, dropped |-> d]
             /\ [q EXCEPT !.dropped = x] = [priority |-> p, upserts |-> u, timelines |-> t, dropped |-> x]
  OBVIOUS
<1>1. /\ Stream!Evicted(q) = [priority |-> p, upserts |-> u, timelines |-> Tail(t), dropped |-> d]
      /\ Stream!Dropped(q, r) = [priority |-> p, upserts |-> u, timelines |-> t, dropped |-> d \cup {r}]
  BY <1>0 DEF Stream!Evicted, Stream!Dropped
<1>2. PICK t1 :
        /\ (IF full THEN Stream!Evicted(q) ELSE q)
             = [priority |-> p, upserts |-> u, timelines |-> t1, dropped |-> d]
        /\ (full /\ t = <<>>) \/ t1 \in Seq(Timelines)
  <2>1. t = <<>> \/ Tail(t) \in Seq(Timelines)
    BY HeadTailProperties
  <2>2. QED
    BY <1>1, <2>1
<1> DEFINE space == [priority |-> p, upserts |-> u, timelines |-> t1, dropped |-> d]
<1>3. e = IF r.type = "node" /\ r.address \in DOMAIN u THEN Stream!WithUpsert(q, r)
          ELSE IF full /\ t = <<>> THEN Stream!Dropped(q, r)
          ELSE CASE r.type = "node" -> Stream!WithUpsert(space, r)
                 [] r.type = "timeline" -> [space EXCEPT !.timelines = Append(@, r)]
                 [] OTHER -> [space EXCEPT !.priority = Append(@, r)]
  <2>1. q.upserts = u /\ q.timelines = t
    OBVIOUS
  <2> DEFINE sp == IF full THEN Stream!Evicted(q) ELSE q
  <2>2. e = IF r.type = "node" /\ r.address \in DOMAIN q.upserts THEN Stream!WithUpsert(q, r)
            ELSE IF full /\ q.timelines = <<>> THEN Stream!Dropped(q, r)
            ELSE CASE r.type = "node" -> Stream!WithUpsert(sp, r)
                   [] r.type = "timeline" -> [sp EXCEPT !.timelines = Append(@, r)]
                   [] OTHER -> [sp EXCEPT !.priority = Append(@, r)]
    BY Zenon DEF Stream!Enqueue
  <2>3. sp = space
    BY <1>2
  <2> HIDE DEF sp, space, q, full, e
  <2>4. QED
    BY <2>1, <2>2, <2>3, Zenon
<1> SUFFICES QueuedAs(e, p, u, d, r)
  OBVIOUS
<1> USE DEF QueuedAs
<1>4. CASE r.type = "node" /\ r.address \in DOMAIN u
  BY <1>3, <1>4 DEF Stream!WithUpsert
<1>5. CASE ~(r.type = "node" /\ r.address \in DOMAIN u) /\ full /\ t = <<>>
  BY <1>1, <1>3, <1>5
<1>6. CASE ~(r.type = "node" /\ r.address \in DOMAIN u) /\ ~(full /\ t = <<>>)
  <2>1. CASE r.type = "node"
    BY <1>2, <1>3, <1>6, <2>1 DEF Stream!WithUpsert
  <2>2. CASE r.type = "timeline"
    BY <1>2, <1>3, <1>6, <2>2, AppendProperties
  <2>3. CASE r.type \notin {"node", "timeline"}
    BY <1>2, <1>3, <1>6, <2>3
  <2>4. QED
    BY <2>1, <2>2, <2>3
<1>7. QED
  BY <1>4, <1>5, <1>6
--------------------------------------------------------------------------------
LEMMA StreamInit == Stream!Init => StreamInv
<1> SUFFICES ASSUME Stream!Init PROVE StreamInv
  OBVIOUS
<1>1. nodes \in Projections
  <2>1. nodes \in [Block -> Stream!Node] /\ Block \in SUBSET Stream!Address
    BY DEF Stream!Init, Stream!Waiting, Stream!Node, Stream!Status, Stream!Address
  <2>2. QED
    BY <2>1 DEF Projections
<1>2. priority \in Seq(Structural) /\ upserts = <<>> /\ DOMAIN upserts = {}
  BY DEF Stream!Init, Stream!Empty
<1> QED
  BY <1>1, <1>2 DEF Stream!Init, Stream!Empty, Stream!NoRecord, StreamInv, QueueInv, DerivedInv, PendingInv,
                    ReachInv, Empty, NoRecord

(* What reaches the consumer is a matter of the queue and the consumer.    *)
LEMMA SameReach ==
  ASSUME NEW b, Reaches(b), nodes'[b] = nodes[b], UNCHANGED <<priority, upserts, writing, view>>
  PROVE  Reaches(b)'
BY DEF Reaches, LastQueued, InHand, Carries, Silent, Value, Stream!Addresses

(* An event changes the projection of what it mentions only.               *)
EventFrame ==
  /\ derived = <<>> /\ UNCHANGED <<priority, upserts, timelines, writing, started, closed, subscribed, stopped, view, dropped>>
  /\ nodes' \in Projections /\ (announced' => Task \subseteq DOMAIN nodes')

LEMMA Unobserved ==
  ASSUME StreamInv, EventFrame, nodes' = nodes, derived' = <<>>
  PROVE  StreamInv'
<1> USE DEF StreamInv, EventFrame
<1>1. derived' = derived /\ Projected' = Projected /\ Mentioned' = Mentioned
  BY DEF Projected, Mentioned
<1>2. QueueInv' /\ DerivedInv'
  BY <1>1 DEF QueueInv, DerivedInv, Projected
<1>3. PendingInv'
  BY DEF PendingInv, StateDerived, NodeRecord
<1>4. ReachInv'
  BY <1>1, SameReach DEF ReachInv
<1> QED
  BY <1>2, <1>3, <1>4

LEMMA ObservedState ==
  ASSUME StreamInv, EventFrame, subscribed, NEW a \in Projected, DOMAIN nodes' = Projected, StateDerived(a)',
         \A b \in Projected \ {a} : nodes'[b] = nodes[b]
  PROVE  StreamInv'
<1> USE DEF StreamInv, EventFrame
<1>0. Mentioned = {} /\ Mentioned' = {a} /\ Projected' = Projected
  BY MentionedBy DEF Projected, Mentioned, StateDerived, NodeRecord
<1>1. QueueInv' /\ DerivedInv'
  BY <1>0 DEF QueueInv, DerivedInv, Projected
<1>2. PendingInv'
  <2>1. ASSUME NEW b \in DOMAIN upserts, ~closed, b # a PROVE upserts[b] = nodes'[b]
    BY <2>1 DEF PendingInv, StateDerived, QueueInv
  <2>2. QED
    BY <2>1 DEF PendingInv
<1>3. ReachInv'
  <2>1. ASSUME NEW b \in Projected \ {a}, b \notin dropped, started, ~stopped PROVE Reaches(b)'
    BY <1>0, <2>1, SameReach DEF ReachInv
  <2>2. QED
    BY <1>0, <2>1 DEF ReachInv
<1> QED
  BY <1>1, <1>2, <1>3

LEMMA ObservedTasks ==
  ASSUME StreamInv, EventFrame, subscribed, TasksDerived', DOMAIN nodes' = Projected \cup Task,
         \A b \in Projected : nodes'[b] = nodes[b]
  PROVE  StreamInv'
<1> USE DEF StreamInv, EventFrame
<1>0. Mentioned = {} /\ Mentioned' = Task /\ Projected' = Projected \cup Task
  BY MentionedBy DEF Projected, Mentioned, TasksDerived, TasksRecord
<1>1. QueueInv' /\ DerivedInv'
  BY <1>0 DEF QueueInv, DerivedInv, Projected
<1>2. PendingInv'
  <2>1. ASSUME NEW b \in DOMAIN upserts, ~closed PROVE upserts[b] = nodes'[b]
    BY <2>1 DEF PendingInv, StateDerived, QueueInv
  <2>2. QED
    BY <2>1 DEF PendingInv
<1>3. ReachInv'
  <2>1. ASSUME NEW b \in Projected, b \notin dropped, started, ~stopped PROVE Reaches(b)'
    BY <1>0, <2>1, SameReach DEF ReachInv
  <2>2. QED
    BY <1>0, <2>1 DEF ReachInv
<1> QED
  BY <1>1, <1>2, <1>3

Event ==
  \/ \E a \in Stream!Address :
       \/ \E s \in Stream!Status : Stream!BlockEvent(a, s)
       \/ \E c \in ModelCall : Stream!UsageEvent(a, c)
       \/ \E x \in {"thinking", "tool"} : Stream!ActivityEvent(a, x)
  \/ Stream!TasksEvent

LEMMA EventSteps == ASSUME StreamInv, Event PROVE StreamInv'
<1> USE DEF Stream!busUnchanged
<1>0. PICK S \in SUBSET Stream!Address : nodes \in [S -> Stream!Node] /\ Projected = S
  BY DEF StreamInv, QueueInv, Projections, Projected
<1>1. ASSUME NEW a \in Projected, derived = <<>>, Stream!busUnchanged,
             NEW node \in Stream!Node,
             nodes' = IF subscribed THEN [nodes EXCEPT ![a] = node] ELSE nodes,
             \/ derived' = IF subscribed THEN <<NodeRecord(a)'>> ELSE <<>>
             \/ derived' = IF subscribed THEN <<NodeRecord(a)', Stream!Timeline(a)>> ELSE <<>>,
             announced' = announced
      PROVE  StreamInv'
  <2>1. nodes' \in [S -> Stream!Node]
    BY <1>0, <1>1
  <2>2. nodes' \in Projections
    BY <2>1 DEF Projections
  <2>3. CASE subscribed
    <3>1. DOMAIN nodes' = Projected /\ \A b \in Projected \ {a} : nodes'[b] = nodes[b]
      BY <1>0, <1>1, <2>3
    <3>2. StateDerived(a)'
      BY <1>1, <2>3 DEF StateDerived, Stream!Timeline
    <3>3. QED
      BY <1>1, <2>2, <3>1, <3>2, <2>3, ObservedState DEF EventFrame, StreamInv, QueueInv, Projected
  <2>4. CASE ~subscribed
    <3>1. nodes' = nodes /\ derived' = <<>>
      BY <1>1, <2>4
    <3>2. QED
      BY <1>1, <2>2, <3>1, Unobserved DEF EventFrame, StreamInv, QueueInv, Projected
  <2>5. QED
    BY <2>3, <2>4
<1>2. ASSUME NEW a \in Stream!Address, NEW s \in Stream!Status, Stream!BlockEvent(a, s) PROVE StreamInv'
  <2> DEFINE node == [nodes[a] EXCEPT !.status = s, !.activity = IF s = "running" THEN @ ELSE "idle"]
  <2>1. a \in Projected /\ derived = <<>> /\ node \in Stream!Node /\ Stream!busUnchanged
        /\ announced' = announced
    BY <1>0, <1>2 DEF Stream!BlockEvent, Stream!Publish, Stream!Node, Stream!Status, Stream!Projected, Projected
  <2>2. nodes' = IF subscribed THEN [nodes EXCEPT ![a] = node] ELSE nodes
    BY <1>0, <1>2, <2>1 DEF Stream!BlockEvent, Stream!Observed
  <2>3. derived' = IF subscribed THEN <<NodeRecord(a)'>> ELSE <<>>
    BY <1>2 DEF Stream!BlockEvent, Stream!Derive, Stream!Upsert, NodeRecord, StateRecord
  <2>4. QED
    BY <1>1, <2>1, <2>2, <2>3
<1>3. ASSUME NEW a \in Stream!Address, NEW c \in ModelCall, Stream!UsageEvent(a, c) PROVE StreamInv'
  <2> DEFINE node == IF nodes[a].call = c THEN nodes[a] ELSE [nodes[a] EXCEPT !.usage = @ + 1, !.call = c]
  <2>1. a \in Projected /\ derived = <<>> /\ node \in Stream!Node /\ Stream!busUnchanged
        /\ announced' = announced
    BY <1>0, <1>3 DEF Stream!UsageEvent, Stream!Publish, Stream!Node, Stream!Status, Stream!Projected, Projected
  <2>2. nodes' = IF subscribed THEN [nodes EXCEPT ![a] = node] ELSE nodes
    BY <1>0, <1>3, <2>1 DEF Stream!UsageEvent, Stream!Observed
  <2>3. derived' = IF subscribed THEN <<NodeRecord(a)'>> ELSE <<>>
    BY <1>3 DEF Stream!UsageEvent, Stream!Derive, Stream!Upsert, NodeRecord, StateRecord
  <2>4. QED
    BY <1>1, <2>1, <2>2, <2>3
<1>4. ASSUME NEW a \in Stream!Address, NEW x \in {"thinking", "tool"}, Stream!ActivityEvent(a, x) PROVE StreamInv'
  <2> DEFINE node == [nodes[a] EXCEPT !.activity = x]
  <2>1. a \in Projected /\ derived = <<>> /\ node \in Stream!Node /\ Stream!busUnchanged
        /\ announced' = announced
    BY <1>0, <1>4 DEF Stream!ActivityEvent, Stream!Publish, Stream!Node, Stream!Status, Stream!Projected, Projected
  <2>2. nodes' = IF subscribed THEN [nodes EXCEPT ![a] = node] ELSE nodes
    BY <1>0, <1>4, <2>1 DEF Stream!ActivityEvent, Stream!Observed
  <2>3. derived' = IF subscribed THEN <<NodeRecord(a)', Stream!Timeline(a)>> ELSE <<>>
    BY <1>4 DEF Stream!ActivityEvent, Stream!Derive, Stream!Upsert, NodeRecord, StateRecord
  <2>4. QED
    BY <1>1, <2>1, <2>2, <2>3
<1>5. CASE Stream!TasksEvent
  <2> DEFINE more == Stream!Over(nodes, [t \in Task |-> Stream!Waiting])
  <2>1. more \in [S \cup Task -> Stream!Node] /\ S \cup Task \in SUBSET Stream!Address
    BY <1>0 DEF Stream!Over, Stream!Waiting, Stream!Node, Stream!Status, Stream!Address
  <2>2. \A b \in S : more[b] = nodes[b]
    BY <1>0 DEF Stream!Over
  <2> HIDE DEF more
  <2>3. /\ derived = <<>> /\ Stream!busUnchanged
        /\ nodes' = IF subscribed /\ ~announced THEN more ELSE nodes
        /\ derived' = IF subscribed THEN <<TasksRecord'>> ELSE <<>>
        /\ announced' = (announced \/ subscribed)
    BY <1>5 DEF Stream!TasksEvent, Stream!Publish, Stream!Observed, Stream!Materialized, TasksRecord, more
  <2>4. nodes' \in Projections
    BY <2>1, <2>3 DEF Projections, StreamInv, QueueInv
  <2>5. CASE subscribed
    <3>1. DOMAIN nodes' = Projected \cup Task /\ \A b \in Projected : nodes'[b] = nodes[b]
      BY <1>0, <2>1, <2>2, <2>3, <2>5 DEF StreamInv, QueueInv
    <3>2. TasksDerived'
      BY <2>3, <2>5, <3>1 DEF TasksDerived, Projected
    <3>3. QED
      BY <2>3, <2>4, <2>5, <3>1, <3>2, ObservedTasks DEF EventFrame
  <2>6. CASE ~subscribed
    <3>1. nodes' = nodes /\ derived' = <<>>
      BY <2>3, <2>6
    <3>2. QED
      BY <2>3, <2>4, <2>6, <3>1, Unobserved DEF EventFrame, StreamInv, QueueInv, Projected
  <2>7. QED
    BY <2>5, <2>6
<1> QED
  BY <1>2, <1>3, <1>4, <1>5 DEF Event
--------------------------------------------------------------------------------
LEMMA LostInBy ==
  /\ Stream!LostIn({}) = {}
  /\ \A S, r : Stream!LostIn(S \cup {r}) = Stream!LostIn(S) \cup Stream!Addresses(r)
BY DEF Stream!LostIn

LEMMA LostInDerived == Stream!LostIn(Stream!Range(derived)) = Mentioned
BY DEF Stream!LostIn, Stream!Range, Mentioned, MentionedIn

(* A state is pending afterwards, or there was no room for it.             *)
LEMMA QueueState ==
  ASSUME NEW a \in Stream!Address, StateDerived(a), ~closed, timelines \in Seq(Timelines), Stream!EnqueueDerived
  PROVE  /\ priority' = priority /\ timelines' \in Seq(Timelines)
         /\ \/ /\ upserts' = Stream!Over([b \in {a} |-> nodes[a]], upserts)
               /\ dropped' = dropped \ {a}
            \/ a \notin DOMAIN upserts /\ upserts' = upserts /\ dropped' = dropped \cup {a}
<1> DEFINE r == NodeRecord(a)
           l == Stream!Timeline(a)
           first == Stream!Enqueue(Stream!Queue, derived[1])
           all == Stream!EnqueueAll(derived)
<1>1. r.type = "node" /\ r.address = a /\ r.node = nodes[a] /\ Stream!Addresses(r) = {a} /\ Mentioned = {a}
  BY AddressesOf, MentionedBy DEF NodeRecord, StateRecord, StateDerived, Mentioned
<1>2. l.type = "timeline" /\ Stream!Addresses(l) = {} /\ l \in Timelines
  BY AddressesOf DEF Stream!Timeline, Timelines
<1>3. derived[1] = r
  BY DEF StateDerived
<1>4. PICK t2 \in Seq(Timelines), d2 \in {{}, {r}} :
        \/ /\ d2 = {}
           /\ first = [priority |-> priority, upserts |-> Stream!Over([b \in {a} |-> nodes[a]], upserts),
                       timelines |-> t2, dropped |-> d2]
        \/ /\ a \notin DOMAIN upserts /\ d2 = {r}
           /\ first = [priority |-> priority, upserts |-> upserts, timelines |-> t2, dropped |-> d2]
  <2> HIDE DEF r
  <2>1. Stream!Queue = [priority |-> priority, upserts |-> upserts, timelines |-> timelines, dropped |-> {}]
    BY DEF Stream!Queue
  <2>2. first = Stream!Enqueue([priority |-> priority, upserts |-> upserts, timelines |-> timelines, dropped |-> {}], r)
    BY <1>3, <2>1
  <2> HIDE DEF first
  <2>3. r.type # "timeline" /\ {r} = {} \cup {r}
    BY <1>1
  <2>4. QueuedAs(first, priority, upserts, {}, r)
    BY <2>2, <2>3, Enqueued
  <2>5. QED
    BY <1>1, <2>3, <2>4 DEF QueuedAs
<1>5. PICK u2 : /\ first = [priority |-> priority, upserts |-> u2, timelines |-> t2, dropped |-> d2]
                /\ \/ u2 = Stream!Over([b \in {a} |-> nodes[a]], upserts) /\ d2 = {}
                   \/ a \notin DOMAIN upserts /\ u2 = upserts /\ d2 = {r}
  BY <1>4
<1>6. PICK t3 \in Seq(Timelines), d3 \in {d2, d2 \cup {l}} :
        all = [priority |-> priority, upserts |-> u2, timelines |-> t3, dropped |-> d3]
  <2> HIDE DEF r
  <2>1. CASE derived = <<r>>
    <3>1. Len(derived) = 1
      BY <2>1
    <3>2. QED
      BY <1>5, <3>1 DEF Stream!EnqueueAll
  <2>2. CASE derived = <<r, l>>
    <3>1. Len(derived) = 2 /\ derived[2] = l
      BY <2>2
    <3>2. all = Stream!Enqueue([priority |-> priority, upserts |-> u2, timelines |-> t2, dropped |-> d2], l)
      BY <1>5, <3>1 DEF Stream!EnqueueAll
    <3>3. l.type \notin {"node"}
      BY <1>2
    <3> HIDE DEF l, all, first
    <3>4. QueuedAs(all, priority, u2, d2, l)
      BY <1>2, <3>2, Enqueued
    <3>5. QED
      BY <1>2, <3>3, <3>4 DEF QueuedAs
  <2>3. QED
    BY <2>1, <2>2 DEF StateDerived, r
<1> HIDE DEF r, l, all, first
<1>7. Stream!LostIn(d3) = Stream!LostIn(d2) /\ Stream!LostIn(d2) = IF d2 = {} THEN {} ELSE {a}
  <2>1. {r} = {} \cup {r} /\ {r} # {}
    OBVIOUS
  <2>2. Stream!LostIn({r}) = {a}
    BY <1>1, <2>1, LostInBy
  <2>3. Stream!LostIn(d2 \cup {l}) = Stream!LostIn(d2)
    <3>1. Stream!LostIn(d2 \cup {l}) = Stream!LostIn(d2) \cup Stream!Addresses(l)
      BY LostInBy
    <3>2. QED
      BY <1>2, <3>1
  <2>4. QED
    BY <1>5, <1>6, <2>1, <2>2, <2>3, LostInBy
<1>8. priority' = priority /\ upserts' = u2 /\ timelines' = t3 /\ dropped' = (dropped \ {a}) \cup Stream!LostIn(d3)
  <2>1. all.priority = priority /\ all.upserts = u2 /\ all.timelines = t3 /\ all.dropped = d3
    BY <1>6
  <2>2. QED
    BY <1>1, <2>1, LostInDerived DEF Stream!EnqueueDerived, Stream!Queued, all
<1>9. dropped' = IF d2 = {} THEN dropped \ {a} ELSE dropped \cup {a}
  BY <1>7, <1>8
<1> QED
  BY <1>5, <1>8, <1>9

(* A structural record is the last of its kind, or there was no room.      *)
LEMMA QueueStructural ==
  ASSUME NEW r, r.type \notin {"node", "timeline"}, timelines \in Seq(Timelines),
         NEW e, e = Stream!Enqueue(Stream!Queue, r)
  PROVE  /\ e.upserts = upserts /\ e.timelines \in Seq(Timelines)
         /\ \/ e.priority = Append(priority, r) /\ Stream!LostIn(e.dropped) = {}
            \/ e.priority = priority /\ Stream!LostIn(e.dropped) = Stream!Addresses(r)
<1>1. Stream!Queue = [priority |-> priority, upserts |-> upserts, timelines |-> timelines, dropped |-> {}]
  BY DEF Stream!Queue
<1>2. PICK t2 \in Seq(Timelines), d2 \in {{}, {} \cup {r}} :
        \/ d2 = {} /\ e = [priority |-> Append(priority, r), upserts |-> upserts, timelines |-> t2, dropped |-> d2]
        \/ d2 = {} \cup {r} /\ e = [priority |-> priority, upserts |-> upserts, timelines |-> t2, dropped |-> d2]
  <2>1. e = Stream!Enqueue([priority |-> priority, upserts |-> upserts, timelines |-> timelines, dropped |-> {}], r)
    BY <1>1
  <2>2. QueuedAs(e, priority, upserts, {}, r)
    BY <2>1, Enqueued
  <2>3. QED
    BY <2>2 DEF QueuedAs
<1>3. /\ e.upserts = upserts /\ e.timelines \in Seq(Timelines)
      /\ \/ e.priority = Append(priority, r) /\ e.dropped = {}
         \/ e.priority = priority /\ e.dropped = {} \cup {r}
  BY <1>2
<1>4. Stream!LostIn({}) = {} /\ Stream!LostIn({} \cup {r}) = Stream!Addresses(r)
  <2>1. Stream!LostIn({}) = {} /\ Stream!LostIn({} \cup {r}) = Stream!LostIn({}) \cup Stream!Addresses(r)
    BY LostInBy, Zenon
  <2>2. QED
    BY <2>1
<1>5. QED
  BY <1>3, <1>4

(* A record is appended that is silent about a block, or carries its state.*)
LEMMA AppendReach ==
  ASSUME NEW r \in Structural, priority \in Seq(Structural), priority' = Append(priority, r),
         UNCHANGED <<nodes, upserts, writing, view>>, NEW a,
         (Carries(r, a) /\ (a \in DOMAIN upserts => upserts[a] = nodes[a])) \/ (Silent(r, a) /\ Reaches(a))
  PROVE  Reaches(a)'
<1>1. /\ Len(priority) \in Nat /\ DOMAIN priority = 1..Len(priority)
      /\ DOMAIN priority' = 1..(Len(priority) + 1) /\ priority'[Len(priority) + 1] = r
      /\ \A i \in DOMAIN priority : priority'[i] = priority[i]
  BY AppendProperties, LenProperties
<1>2. CASE a \in DOMAIN upserts
  BY <1>2 DEF Reaches, Carries, Silent
<1>3. CASE a \notin DOMAIN upserts /\ Carries(r, a)
  <2>1. LastQueued(a)'
    <3>1. PICK n \in DOMAIN priority' : n = Len(priority) + 1 /\ priority'[n] = r
      BY <1>1
    <3>2. Carries(priority[n], a)'
      BY <1>3, <3>1 DEF Carries, Value, Stream!Addresses
    <3>3. \A j \in DOMAIN priority' : ~(j > n)
      BY <1>1, <3>1
    <3>4. QED
      BY <3>2, <3>3 DEF LastQueued
  <2>2. QED
    BY <1>3, <2>1 DEF Reaches
<1>4. CASE a \notin DOMAIN upserts /\ Silent(r, a) /\ Reaches(a) /\ ~Carries(r, a)
  <2>1. ASSUME LastQueued(a) PROVE LastQueued(a)'
    <3>1. PICK i \in DOMAIN priority : Carries(priority[i], a)
                 /\ \A j \in DOMAIN priority : j > i => Silent(priority[j], a)
      BY <2>1 DEF LastQueued
    <3>2. i \in DOMAIN priority' /\ Carries(priority[i], a)'
      BY <1>1, <3>1 DEF Carries, Value, Stream!Addresses
    <3>3. \A j \in DOMAIN priority' : j > i => Silent(priority[j], a)'
      BY <1>1, <1>4, <3>1 DEF Silent, Stream!Addresses
    <3>4. QED
      BY <3>2, <3>3 DEF LastQueued
  <2>2. ASSUME \A j \in DOMAIN priority : Silent(priority[j], a), InHand(a)
        PROVE  (\A j \in DOMAIN priority : Silent(priority[j], a))' /\ InHand(a)'
    BY <1>1, <1>4, <2>2 DEF Silent, InHand, Carries, Value, Stream!Addresses
  <2>3. QED
    BY <1>4, <2>1, <2>2 DEF Reaches
<1> QED
  BY <1>2, <1>3, <1>4 DEF Carries, Silent

LEMMA EnqueueStep == ASSUME StreamInv, Stream!EnqueueDerived PROVE StreamInv'
<1> USE DEF StreamInv
<1>0. /\ derived # <<>> /\ derived' = <<>> /\ started /\ Mentioned' = {}
      /\ UNCHANGED <<nodes, announced, writing, view, started, closed, stopped, subscribed>>
  BY MentionedBy DEF Stream!EnqueueDerived, Stream!flags, QueueInv, Mentioned
<1>1. DerivedInv' /\ Projected' = Projected
  BY <1>0 DEF DerivedInv, Projected
<1>2. CASE closed
  <2>1. UNCHANGED <<priority, upserts, timelines>> /\ dropped' = (dropped \ Mentioned) \cup Mentioned
    BY <1>2, LostInDerived DEF Stream!EnqueueDerived, Stream!Queued, Stream!Queue
  <2>2. QueueInv'
    BY <1>0, <1>1, <2>1 DEF QueueInv
  <2>3. PendingInv'
    BY <1>0, <1>2 DEF PendingInv
  <2>4. ReachInv'
    BY <1>0, <1>1, <2>1, SameReach DEF ReachInv
  <2>5. QED
    BY <1>1, <2>2, <2>3, <2>4
<1>3. ASSUME ~closed, NEW a \in Projected, StateDerived(a) PROVE StreamInv'
  <2>1. Mentioned = {a}
    BY <1>3, MentionedBy DEF StateDerived, Mentioned, NodeRecord
  <2>0. a \in Stream!Address
    BY DEF QueueInv, Projections, Projected
  <2>2. priority' = priority /\ timelines' \in Seq(Timelines)
    BY <1>3, <2>0, QueueState DEF QueueInv
  <2>3. ASSUME NEW b \in DOMAIN upserts, b # a PROVE upserts[b] = nodes[b]
    BY <1>3, <2>1, <2>3, MentionedBy DEF PendingInv, StateDerived, Mentioned, NodeRecord
  <2>4. CASE upserts' = Stream!Over([b \in {a} |-> nodes[a]], upserts) /\ dropped' = dropped \ {a}
    <3>1. /\ DOMAIN upserts' = DOMAIN upserts \cup {a} /\ upserts'[a] = nodes[a]
          /\ \A b \in DOMAIN upserts \ {a} : upserts'[b] = upserts[b]
      BY <2>4 DEF Stream!Over
    <3>2. QueueInv'
      BY <1>0, <1>1, <1>3, <2>2, <3>1 DEF QueueInv
    <3>3. PendingInv'
      BY <1>0, <2>3, <3>1 DEF PendingInv
    <3>4. Reaches(a)'
      BY <1>0, <3>1 DEF Reaches
    <3>5. ASSUME NEW b \in Projected, b # a, Reaches(b) PROVE Reaches(b)'
      BY <1>0, <2>2, <3>1, <3>5 DEF Reaches, LastQueued, InHand, Carries, Silent, Value, Stream!Addresses
    <3>6. ReachInv'
      BY <1>0, <1>1, <2>1, <2>4, <3>4, <3>5 DEF ReachInv
    <3>7. QED
      BY <1>1, <3>2, <3>3, <3>6
  <2>5. CASE a \notin DOMAIN upserts /\ upserts' = upserts /\ dropped' = dropped \cup {a}
    <3>1. QueueInv'
      BY <1>0, <1>1, <2>2, <2>5 DEF QueueInv
    <3>2. PendingInv'
      BY <1>0, <2>3, <2>5 DEF PendingInv
    <3>3. ReachInv'
      BY <1>0, <1>1, <2>1, <2>2, <2>5, SameReach DEF ReachInv
    <3>4. QED
      BY <1>1, <3>1, <3>2, <3>3
  <2>6. QED
    BY <1>3, <2>0, <2>4, <2>5, QueueState DEF QueueInv
<1>4. CASE ~closed /\ TasksDerived
  <2> DEFINE r == TasksRecord
  <2>1. /\ Mentioned = Task /\ Stream!Addresses(r) = Task /\ r.type = "tasks"
        /\ Len(derived) = 1 /\ derived[1] = r
    BY <1>4, MentionedBy, AddressesOf DEF TasksDerived, TasksRecord, Mentioned
  <2>2. r \in Structural
    <3>1. PICK S \in SUBSET Stream!Address : nodes \in [S -> Stream!Node]
      BY DEF QueueInv, Projections
    <3>2. [t \in Task |-> nodes[t]] \in [Task -> Stream!Node] /\ Task \in SUBSET Stream!Address
      BY <1>4, <3>1 DEF TasksDerived, Projected, Stream!Address
    <3>3. QED
      BY <3>2 DEF Structural, Projections, TasksRecord
  <2>3. ASSUME NEW b \in DOMAIN upserts PROVE upserts[b] = nodes[b]
    <3>1. ~StateDerived(b)
      BY <2>1 DEF StateDerived, NodeRecord, StateRecord
    <3>2. QED
      BY <1>4, <2>3, <3>1 DEF PendingInv
  <2>4. \A b \in Task : Carries(r, b)
    BY <2>1 DEF Carries, Value, TasksRecord
  <2>5. /\ upserts' = upserts /\ timelines' \in Seq(Timelines)
        /\ \/ priority' = Append(priority, r) /\ dropped' = dropped \ Task
           \/ priority' = priority /\ dropped' = dropped \cup Task
    <3> HIDE DEF r
    <3> DEFINE e == Stream!Enqueue(Stream!Queue, r)
    <3>1. /\ priority' = e.priority /\ upserts' = e.upserts /\ timelines' = e.timelines
          /\ dropped' = (dropped \ Task) \cup Stream!LostIn(e.dropped)
      BY <1>4, <2>1, LostInDerived DEF Stream!EnqueueDerived, Stream!EnqueueAll, Stream!Queued
    <3>2. r.type \notin {"node", "timeline"}
      BY <2>1
    <3>3. timelines \in Seq(Timelines)
      BY DEF QueueInv
    <3>4. /\ e.upserts = upserts /\ e.timelines \in Seq(Timelines)
          /\ \/ e.priority = Append(priority, r) /\ Stream!LostIn(e.dropped) = {}
             \/ e.priority = priority /\ Stream!LostIn(e.dropped) = Stream!Addresses(r)
      BY <3>2, <3>3, QueueStructural
    <3> HIDE DEF e
    <3>5. QED
      BY <2>1, <3>1, <3>4
  <2> HIDE DEF r
  <2>6. QueueInv'
    BY <1>0, <1>1, <2>2, <2>5, AppendProperties DEF QueueInv
  <2>7. PendingInv'
    BY <1>0, <2>3, <2>5 DEF PendingInv
  <2>8. CASE priority' = Append(priority, r) /\ dropped' = dropped \ Task
    <3>1. ASSUME NEW b \in Projected, b \notin dropped', started, ~stopped PROVE Reaches(b)'
      <4>1. CASE b \in Task
        BY <1>0, <2>2, <2>3, <2>4, <2>5, <2>8, <4>1, AppendReach DEF QueueInv
      <4>2. CASE b \notin Task
        <5>1. Silent(r, b) /\ Reaches(b)
          BY <2>1, <2>8, <3>1, <4>2 DEF Silent, ReachInv
        <5>2. QED
          BY <1>0, <2>2, <2>5, <2>8, <5>1, AppendReach DEF QueueInv
      <4>3. QED
        BY <4>1, <4>2
    <3>2. QED
      BY <1>0, <1>1, <2>6, <2>7, <3>1 DEF ReachInv
  <2>9. CASE priority' = priority /\ dropped' = dropped \cup Task
    <3>1. ReachInv'
      BY <1>0, <1>1, <2>1, <2>5, <2>9, SameReach DEF ReachInv
    <3>2. QED
      BY <1>1, <2>6, <2>7, <3>1
  <2>10. QED
    BY <2>5, <2>8, <2>9
<1> QED
  BY <1>0, <1>2, <1>3, <1>4 DEF DerivedInv
--------------------------------------------------------------------------------
(* The worker passes a record on without losing what it says.              *)
LEMMA TakeStep == ASSUME StreamInv, Stream!Take PROVE StreamInv'
<1> USE DEF StreamInv
<1>0. /\ UNCHANGED <<nodes, announced, derived, view, dropped, started, closed, stopped, subscribed>>
      /\ writing = NoRecord /\ started
  BY DEF Stream!Take, Stream!flags, Stream!NoRecord, NoRecord
<1>1. DerivedInv' /\ Projected' = Projected /\ Mentioned' = Mentioned
  BY <1>0 DEF DerivedInv, TasksDerived, StateDerived, TasksRecord, NodeRecord, Projected, Mentioned
<1>2. \A a : Silent(writing, a)
  BY <1>0, AddressesOf DEF Silent
<1>3. ASSUME NEW a, nodes[a] = nodes'[a] PROVE StateDerived(a)' <=> StateDerived(a)
  BY <1>0 DEF StateDerived, NodeRecord, Stream!Timeline
<1>4. CASE priority # <<>> /\ writing' = Head(priority) /\ priority' = Tail(priority)
           /\ UNCHANGED <<upserts, timelines>>
  <2>1. /\ Len(priority) \in Nat \ {0} /\ DOMAIN priority = 1..Len(priority)
        /\ priority' \in Seq(Structural) /\ DOMAIN priority' = 1..(Len(priority) - 1)
        /\ writing' = priority[1] /\ \A i \in DOMAIN priority' : priority'[i] = priority[i + 1]
    <3>1. priority \in Seq(Structural) /\ Len(priority) \in Nat \ {0}
      BY <1>4, EmptySeq, LenProperties DEF QueueInv
    <3>2. QED
      BY <1>4, <3>1, HeadTailProperties, LenProperties
  <2>2. QueueInv' /\ PendingInv'
    BY <1>0, <1>1, <1>3, <1>4, <2>1 DEF QueueInv, PendingInv
  <2>3. ASSUME NEW a, Reaches(a) PROVE Reaches(a)'
    <3>1. CASE a \in DOMAIN upserts
      BY <1>0, <1>4, <2>3, <3>1 DEF Reaches
    <3>2. CASE LastQueued(a) /\ a \notin DOMAIN upserts
      <4>1. PICK i \in DOMAIN priority : Carries(priority[i], a)
                   /\ \A j \in DOMAIN priority : j > i => Silent(priority[j], a)
        BY <3>2 DEF LastQueued
      <4>2. CASE i = 1
        <5>1. InHand(a)' /\ \A j \in DOMAIN priority' : Silent(priority'[j], a)
          BY <1>0, <2>1, <4>1, <4>2 DEF InHand, Carries, Silent, Value, Stream!Addresses
        <5>2. QED
          BY <1>4, <3>2, <5>1 DEF Reaches
      <4>3. CASE i > 1
        <5>1. PICK k \in DOMAIN priority' : k = i - 1 /\ priority'[k] = priority[i]
          BY <2>1, <4>3
        <5>2. \A j \in DOMAIN priority' : j > k => Silent(priority'[j], a)
          BY <2>1, <4>1, <5>1
        <5>3. LastQueued(a)'
          BY <1>0, <4>1, <5>1, <5>2 DEF LastQueued, Carries, Value, Stream!Addresses
        <5>4. QED
          BY <1>4, <3>2, <5>3 DEF Reaches
      <4>4. QED
        BY <2>1, <4>2, <4>3
    <3>3. CASE (\A j \in DOMAIN priority : Silent(priority[j], a)) /\ InHand(a) /\ a \notin DOMAIN upserts
      <4>1. \A j \in DOMAIN priority' : Silent(priority'[j], a)
        BY <2>1, <3>3
      <4>2. Silent(writing', a) /\ a \in DOMAIN view /\ view[a] = nodes[a]
        BY <1>2, <2>1, <3>3 DEF InHand, Carries, Silent
      <4>3. QED
        BY <1>0, <1>4, <3>3, <4>1, <4>2 DEF Reaches, InHand, Silent, Stream!Addresses
    <3>4. QED
      BY <2>3, <3>1, <3>2, <3>3 DEF Reaches
  <2>4. ReachInv'
    BY <1>0, <1>1, <2>3 DEF ReachInv
  <2>5. QED
    BY <1>1, <2>2, <2>4
<1>5. ASSUME priority = <<>>, UNCHANGED <<priority, timelines>>, NEW a \in DOMAIN upserts,
             writing' = [type |-> "node", address |-> a, node |-> upserts[a]],
             upserts' = [b \in DOMAIN upserts \ {a} |-> upserts[b]]
      PROVE  StreamInv'
  <2>1. writing' = StateRecord(a, upserts[a]) /\ Stream!Addresses(writing') = {a} /\ Value(writing', a) = upserts[a]
    BY <1>5, AddressesOf DEF StateRecord, Value
  <2>2. QueueInv' /\ PendingInv'
    BY <1>0, <1>1, <1>3, <1>5 DEF QueueInv, PendingInv
  <2>3. ASSUME NEW b, Reaches(b) PROVE Reaches(b)'
    <3>1. CASE b \in DOMAIN upserts'
      BY <1>0, <1>5, <2>3, <3>1 DEF Reaches
    <3>2. CASE b = a
      <4>1. Carries(writing', b)
        BY <1>5, <2>1, <2>3, <3>2 DEF Carries, Reaches
      <4>2. Carries(writing, b)'
        BY <1>0, <4>1 DEF Carries, Value, Stream!Addresses
      <4>3. QED
        BY <1>5, <3>2, <4>2 DEF Reaches, InHand
    <3>3. CASE b \notin DOMAIN upserts
      <4>1. b # a
        BY <1>5, <3>3
      <4>2. ~LastQueued(b)
        BY <1>5 DEF LastQueued
      <4>3. b \in DOMAIN view /\ view[b] = nodes[b]
        BY <1>2, <2>3, <3>3, <4>2 DEF Reaches, InHand, Carries, Silent
      <4>4. Silent(writing', b)
        BY <2>1, <4>1 DEF Silent
      <4>5. QED
        BY <1>0, <1>5, <3>3, <4>3, <4>4 DEF Reaches, InHand, Silent, Stream!Addresses
    <3>4. QED
      BY <1>5, <3>1, <3>2, <3>3
  <2>4. ReachInv'
    BY <1>0, <1>1, <2>3 DEF ReachInv
  <2>5. QED
    BY <1>1, <2>2, <2>4
<1>6. CASE priority = <<>> /\ upserts = Empty /\ timelines # <<>> /\ writing' = Head(timelines)
           /\ timelines' = Tail(timelines) /\ UNCHANGED <<priority, upserts>>
  <2>1. writing' \in Timelines /\ timelines' \in Seq(Timelines)
    BY <1>6, HeadTailProperties DEF QueueInv
  <2>2. QueueInv' /\ PendingInv'
    BY <1>0, <1>1, <1>3, <1>6, <2>1 DEF QueueInv, PendingInv
  <2>3. \A a : Silent(writing', a)
    BY <2>1, AddressesOf DEF Timelines, Silent
  <2>4. ASSUME NEW a, Reaches(a) PROVE Reaches(a)'
    <3>1. a \notin DOMAIN upserts /\ DOMAIN priority = {}
      BY <1>6 DEF Empty
    <3>2. a \in DOMAIN view /\ view[a] = nodes[a]
      BY <1>2, <2>4, <3>1 DEF Reaches, LastQueued, InHand, Carries, Silent
    <3>3. QED
      BY <1>0, <1>6, <2>3, <3>1, <3>2 DEF Reaches, InHand, Silent
  <2>5. ReachInv'
    BY <1>0, <1>1, <2>4 DEF ReachInv
  <2>6. QED
    BY <1>1, <2>2, <2>5
<1> QED
  BY <1>4, <1>5, <1>6 DEF Stream!Take, Stream!Empty, Empty

LEMMA EmitStep == ASSUME StreamInv, Stream!Emit PROVE StreamInv'
<1> USE DEF StreamInv
<1>0. /\ UNCHANGED <<nodes, announced, derived, dropped, started, closed, subscribed, priority, upserts,
                   timelines>>
      /\ writing' = NoRecord /\ writing # NoRecord
  BY DEF Stream!Emit, Stream!queue, Stream!NoRecord, NoRecord
<1>1. DerivedInv' /\ Projected' = Projected /\ Mentioned' = Mentioned
  BY <1>0 DEF DerivedInv, TasksDerived, StateDerived, TasksRecord, NodeRecord, Projected, Mentioned
<1>2. QueueInv' /\ PendingInv'
  BY <1>0, <1>1 DEF QueueInv, PendingInv, StateDerived, NodeRecord
<1>3. CASE ~stopped' /\ ~stopped /\ view' = Stream!Seen(writing)
  <2>1. \A a : /\ a \in Stream!Addresses(writing) => a \in DOMAIN view' /\ view'[a] = Value(writing, a)
               /\ a \in DOMAIN view \ Stream!Addresses(writing) => a \in DOMAIN view' /\ view'[a] = view[a]
    BY <1>3 DEF Stream!Seen, Stream!Over, Stream!Addresses, Value
  <2>2. ASSUME NEW a, InHand(a) PROVE InHand(a)'
    <3>1. a \in DOMAIN view' /\ view'[a] = nodes'[a]
      BY <1>0, <2>1, <2>2 DEF InHand, Carries, Silent
    <3>2. a \notin Stream!Addresses(NoRecord)
      BY AddressesOf
    <3>3. QED
      BY <1>0, <3>1, <3>2 DEF InHand, Silent, Stream!Addresses, NoRecord
  <2>3. ASSUME NEW a, Reaches(a) PROVE Reaches(a)'
    BY <1>0, <2>2, <2>3 DEF Reaches, LastQueued, Carries, Silent, Value, Stream!Addresses
  <2>4. ReachInv'
    BY <1>0, <1>1, <1>3, <2>3 DEF ReachInv
  <2>5. QED
    BY <1>1, <1>2, <2>4
<1>4. CASE stopped'
  BY <1>1, <1>2, <1>4 DEF ReachInv
<1> QED
  BY <1>3, <1>4 DEF Stream!Emit

(* The snapshot that opens the stream, and the record that ends it.        *)
LEMMA StartStep == ASSUME StreamInv, Stream!Start PROVE StreamInv'
<1> USE DEF StreamInv
<1> DEFINE r == Stream!Snapshot(nodes)
           e == Stream!Enqueue(Stream!Queue, r)
<1>0. /\ UNCHANGED <<nodes, announced, derived, writing, view, closed, stopped, subscribed>>
      /\ ~started /\ started' /\ priority = <<>> /\ upserts = Empty /\ derived = <<>> /\ ~closed
      /\ priority' = e.priority /\ upserts' = e.upserts /\ timelines' = e.timelines
      /\ dropped' = Stream!LostIn(e.dropped)
  BY DEF Stream!Start, Stream!Queued, QueueInv
<1>1. DerivedInv' /\ Projected' = Projected /\ Mentioned' = {}
  BY <1>0, MentionedBy DEF DerivedInv, Projected, Mentioned
<1>2. r \in Structural /\ r.type = "snapshot" /\ Stream!Addresses(r) = Projected
      /\ \A a \in Projected : Value(r, a) = nodes[a]
  BY AddressesOf DEF QueueInv, Structural, Stream!Snapshot, Projected, Value
<1> HIDE DEF r
<1>3. /\ upserts' = upserts /\ DOMAIN upserts = {} /\ timelines' \in Seq(Timelines)
      /\ \/ priority' = Append(priority, r)
         \/ priority' = priority /\ dropped' = Projected
  <2>1. r.type \notin {"node", "timeline"}
    BY <1>2
  <2>2. QED
    BY <1>0, <1>2, <2>1, QueueStructural DEF Empty, QueueInv
<1> HIDE DEF e
<1>4. QueueInv' /\ PendingInv'
  <2>1. priority' \in Seq(Structural)
    BY <1>2, <1>3, AppendProperties DEF QueueInv
  <2>2. QED
    BY <1>0, <1>1, <1>3, <2>1 DEF QueueInv, PendingInv
<1>5. CASE priority' = Append(priority, r)
  <2>1. ASSUME NEW a \in Projected PROVE Reaches(a)'
    BY <1>0, <1>2, <1>3, <1>5, AppendReach DEF Carries, QueueInv
  <2>2. QED
    BY <1>1, <1>4, <2>1 DEF ReachInv
<1>6. CASE priority' = priority /\ dropped' = Projected
  BY <1>1, <1>4, <1>6 DEF ReachInv
<1> QED
  BY <1>3, <1>5, <1>6

LEMMA FinishStep == ASSUME StreamInv, Stream!Finish, started PROVE StreamInv'
<1> USE DEF StreamInv
<1> DEFINE r == Stream!Terminal
           e == Stream!Enqueue(Stream!Queue, r)
<1>0. /\ UNCHANGED <<nodes, announced, derived, writing, view, started, closed, stopped, subscribed, dropped>>
      /\ priority' = e.priority /\ upserts' = e.upserts /\ timelines' = e.timelines
  BY DEF Stream!Finish, Stream!Queued
<1>1. DerivedInv' /\ Projected' = Projected /\ Mentioned' = Mentioned
  BY <1>0 DEF DerivedInv, TasksDerived, StateDerived, TasksRecord, NodeRecord, Projected, Mentioned
<1>2. r \in Structural /\ r.type \notin {"node", "timeline"} /\ \A a : Silent(r, a)
  BY AddressesOf DEF Structural, Stream!Terminal, Silent
<1>3. /\ upserts' = upserts /\ timelines' \in Seq(Timelines)
      /\ priority' = Append(priority, r) \/ priority' = priority
  BY <1>0, <1>2, QueueStructural DEF QueueInv
<1> HIDE DEF r, e
<1>4. QueueInv' /\ PendingInv'
  <2>1. priority' \in Seq(Structural)
    BY <1>2, <1>3, AppendProperties DEF QueueInv
  <2>2. QED
    BY <1>0, <1>1, <1>3, <2>1 DEF QueueInv, PendingInv, StateDerived, NodeRecord
<1>5. ASSUME NEW a, Reaches(a) PROVE Reaches(a)'
  BY <1>0, <1>2, <1>3, <1>5, AppendReach, SameReach DEF QueueInv
<1>6. ReachInv'
  BY <1>0, <1>1, <1>5 DEF ReachInv
<1> QED
  BY <1>1, <1>4, <1>6
--------------------------------------------------------------------------------
(* The command goes on from "begin" only once the stream has started.      *)
Ordered == command = "begin" \/ started

LEMMA StreamNext ==
  ASSUME StreamInv, Ordered, [Stream!Next]_Stream!vars
  PROVE  StreamInv'
<1> USE DEF StreamInv
<1>1. ASSUME UNCHANGED <<nodes, announced, derived, writing, view, started, stopped, dropped,
                         priority, upserts, timelines>>,
             (subscribed' \/ closed') => started, closed => closed'
      PROVE StreamInv'
  <2>1. DerivedInv' /\ Projected' = Projected /\ Mentioned' = Mentioned
    BY <1>1 DEF DerivedInv, TasksDerived, StateDerived, TasksRecord, NodeRecord, Projected, Mentioned
  <2>2. QueueInv' /\ PendingInv'
    BY <1>1, <2>1 DEF QueueInv, PendingInv, StateDerived, NodeRecord
  <2>3. ReachInv'
    BY <1>1, <2>1, SameReach DEF ReachInv
  <2>4. QED
    BY <2>1, <2>2, <2>3
<1>2. CASE UNCHANGED Stream!vars
  BY <1>1, <1>2 DEF Stream!vars, QueueInv
<1>3. CASE Event
  BY <1>3, EventSteps
<1>4. CASE Stream!Subscribe \/ Stream!Unsubscribe \/ Stream!Close \/ Stream!Leave
  BY <1>1, <1>4 DEF Stream!Subscribe, Stream!Unsubscribe, Stream!Close, Stream!Leave, Stream!queue, Stream!flags,
                    QueueInv, Ordered
<1>5. CASE Stream!Finish
  BY <1>5, FinishStep DEF Ordered, Stream!Finish
<1>6. CASE Stream!EnqueueDerived \/ Stream!Take \/ Stream!Emit \/ Stream!Start
  BY <1>6, EnqueueStep, TakeStep, EmitStep, StartStep
<1> QED
  BY <1>2, <1>3, <1>4, <1>5, <1>6 DEF Stream!Next, Event

(* When nothing is left to write, the consumer shows what is projected, for *)
(* every plan, capacity and number of events: a state is overtaken only by *)
(* a newer one of its block, whatever the queue coalesces and evicts       *)
(* (publisher.go enqueue, nextPending, emit).                              *)
THEOREM ConsumersAreCurrent == Stream!Spec => []ConsumerIsCurrent
<1>1. Stream!Init => StreamInv /\ Ordered
  BY StreamInit DEF Stream!Init, Ordered
<1>2. StreamInv /\ Ordered /\ [Stream!Next]_Stream!vars => StreamInv' /\ Ordered'
  <2>1. Ordered /\ [Stream!Next]_Stream!vars => Ordered'
    BY DEF Ordered, Stream!vars, Stream!Next, Stream!BlockEvent, Stream!UsageEvent, Stream!ActivityEvent,
           Stream!TasksEvent, Stream!busUnchanged, Stream!EnqueueDerived, Stream!Take, Stream!Emit, Stream!Start,
           Stream!Subscribe, Stream!Unsubscribe, Stream!Finish, Stream!Close, Stream!Leave, Stream!flags
  <2>2. QED
    BY <2>1, StreamNext
<1>3. StreamInv => ConsumerIsCurrent
  <2> SUFFICES ASSUME StreamInv, started, ~stopped, derived = <<>>, writing = NoRecord, priority = <<>>,
                      upserts = Empty, NEW a \in Projected \ dropped
               PROVE  a \in DOMAIN view /\ view[a] = nodes[a]
    BY DEF ConsumerIsCurrent
  <2>1. Mentioned = {} /\ a \notin DOMAIN upserts /\ DOMAIN priority = {} /\ Silent(writing, a)
    BY MentionedBy, AddressesOf DEF Mentioned, Empty, Silent
  <2>2. Reaches(a)
    BY <2>1 DEF StreamInv, ReachInv
  <2>3. QED
    BY <2>1, <2>2 DEF Reaches, LastQueued, InHand, Carries, Silent
<1>4. QED
  BY <1>1, <1>2, <1>3, PTL DEF Stream!Spec
================================================================================
