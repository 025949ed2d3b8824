----------------------- MODULE ArtifactIngestion_proofs -----------------------
(***************************************************************************)
(* Proofs about ArtifactIngestion, for any bounds and any finite sets of   *)
(* files, requests and workers: type correctness, the inductive invariant, *)
(* and the safety properties that follow from it.                          *)
(***************************************************************************)
EXTENDS ArtifactIngestion, FiniteSetTheorems, WellFoundedInduction, TLAPS

-----------------------------------------------------------------------------
(* Jobs *)

\* A set of jobs has a first one, unless it is empty.
LEMMA FirstJob ==
  ASSUME NEW J \in SUBSET Jobs, J # {}
  PROVE  \E j \in J : \A k \in J : j <= k
<1>1. J \subseteq Nat
  BY CountsAssumption DEF Jobs
<1>2. PICK j \in J : \A k \in J : ~(<<k, j>> \in OpToRel(<, Nat))
  BY <1>1, NatLessThanWellFounded, WFMin
<1>3. \A k \in J : ~(k < j)
  BY <1>1, <1>2 DEF OpToRel
<1> QED
  BY <1>1, <1>3

\* And a last one.
LEMMA LastJob ==
  ASSUME NEW J \in SUBSET Jobs, J # {}
  PROVE  \E j \in J : \A k \in J : k <= j
<1> DEFINE Mirror == {n \in Jobs : MaxJobs + 1 - n \in J}
<1>1. Mirror # {}
  <2>1. PICK j \in J : TRUE
    OBVIOUS
  <2>2. j \in 1..MaxJobs /\ MaxJobs \in Nat
    BY CountsAssumption DEF Jobs
  <2>3. MaxJobs + 1 - j \in Jobs /\ MaxJobs + 1 - (MaxJobs + 1 - j) = j
    BY <2>2 DEF Jobs
  <2> QED
    BY <2>1, <2>3
<1>2. PICK m \in Mirror : \A n \in Mirror : m <= n
  BY <1>1, FirstJob
<1>3. ASSUME NEW k \in J PROVE k <= MaxJobs + 1 - m
  <2>1. k \in 1..MaxJobs /\ m \in 1..MaxJobs /\ MaxJobs \in Nat
    BY CountsAssumption DEF Jobs
  <2>2. MaxJobs + 1 - k \in Jobs /\ MaxJobs + 1 - (MaxJobs + 1 - k) = k
    BY <2>1 DEF Jobs
  <2>3. m <= MaxJobs + 1 - k
    BY <1>2, <2>2
  <2> QED
    BY <2>1, <2>3
<1> QED
  BY <1>2, <1>3

\* Sets of requests and of jobs are finite.
LEMMA FiniteSets ==
  /\ \A S : S \subseteq Requests => IsFiniteSet(S) /\ Cardinality(S) \in Nat
  /\ \A S : S \subseteq Jobs => IsFiniteSet(S) /\ Cardinality(S) \in Nat
<1>1. IsFiniteSet(Jobs)
  BY CountsAssumption, FS_Interval DEF Jobs
<1> QED
  BY <1>1, ProcessesAssumption, FS_Subset, FS_CardinalityType

\* A request that may still insert a job finds a row for it.
LEMMA NextJobIsFresh ==
  ASSUME RoomInv, NEW r \in NeedJob
  PROVE  NextJob \in FreshJobs
<1>1. NeedJob \subseteq Requests /\ FreshJobs \subseteq Jobs
  BY DEF NeedJob, FreshJobs
<1>2. Cardinality(NeedJob) # 0
  BY <1>1, FiniteSets, FS_EmptySet
<1>3. FreshJobs # {}
  BY <1>1, <1>2, FiniteSets, FS_EmptySet DEF RoomInv
<1>4. \E j \in FreshJobs : \A k \in FreshJobs : j <= k
  BY <1>1, <1>3, FirstJob
<1> QED
  BY <1>4 DEF NextJob

\* The two requests that insert a job are among them.
LEMMA InsertsJob ==
  ASSUME TypeOK, RequestInv, RoomInv, NEW r \in Requests,
         \/ At(r, "write", "complete") /\ upload[target[r]] = "pending"
         \/ At(r, "write", "retry")
  PROVE  NextJob \in FreshJobs /\ NextJob \in Jobs /\ NextJob # NoJob
<1>1. ticket[r] = NoJob
  BY DEF RequestInv, At
<1>2. r \in NeedJob
  BY <1>1 DEF NeedJob, At
<1>3. NextJob \in FreshJobs
  BY <1>2, NextJobIsFresh
<1> QED
  BY <1>3, CountsAssumption DEF FreshJobs, Jobs, NoJob

-----------------------------------------------------------------------------
(* Steps *)

\* Steps of a request that change no row.
RequestOnly(r) ==
  \/ BeginCreate(r) \/ Begin(r)
  \/ CountFiles(r) \/ LoadForComplete(r) \/ FindJob(r) \/ Head(r) \/ MarkStale(r)
  \/ LoadForRetry(r) \/ LoadForDelete(r) \/ LockForDelete(r)
  \/ DeleteObject(r) \/ StorageFails(r) \/ FailDelete(r)
  \/ Dispatch(r) \/ DispatchFails(r) \/ RequestDies(r)

\* Commits of a request.
RequestCommits(r) == InsertFile(r) \/ CommitComplete(r) \/ CommitRetry(r) \/ DeleteRow(r)

\* Steps of a worker that change no row.
WorkerOnly(w) ==
  \/ Deliver(w)
  \/ LockJob(w) \/ LockArtifact(w) \/ FailTransiently(w) \/ FailJob(w)
  \/ Reraise(w) \/ Ack(w) \/ FailWorker(w) \/ Abort(w) \/ WorkerDies(w)

\* Commits of a worker.
WorkerCommits(w) == Succeed(w) \/ RejectDocument(w) \/ FailArtifact(w)

LEMMA StepCases ==
  ASSUME [Next]_vars
  PROVE  \/ \E r \in Requests : RequestOnly(r) \/ RequestCommits(r)
         \/ \E w \in Workers : WorkerOnly(w) \/ WorkerCommits(w)
         \/ \E a \in Artifacts : ClientPut(a)
         \/ ApproveBlueprint
         \/ UNCHANGED vars
<1>1. ASSUME NEW r \in Requests, Arrive(r) \/ Serve(r) \/ RequestDies(r)
      PROVE  RequestOnly(r) \/ RequestCommits(r)
  BY <1>1
  DEF Arrive, Serve, CreateSteps, CompleteSteps, RetrySteps, DeleteSteps,
      RequestOnly, RequestCommits
<1>2. ASSUME NEW w \in Workers, Work(w) \/ Abort(w) \/ WorkerDies(w)
      PROVE  WorkerOnly(w) \/ WorkerCommits(w)
  BY <1>2 DEF Work, WorkerOnly, WorkerCommits
<1> QED
  BY <1>1, <1>2 DEF Next

-----------------------------------------------------------------------------
(* Types *)

LEMMA TypeInit == Init => TypeOK
BY CountsAssumption
DEF Init, TypeOK, Upload, Processing, JobStatus, Object, RPC, WPC, NoBasis, Message

\* The tables of the database, of the requests and of the workers separately.
RowTypes ==
  /\ upload \in [Artifacts -> Upload]
  /\ processing \in [Artifacts -> Processing]
  /\ content \in [Artifacts -> BOOLEAN]
  /\ jobArtifact \in [Jobs -> Artifacts \cup {NoJob}]
  /\ jobStatus \in [Jobs -> JobStatus]
  /\ blueprint \in {"none", "approved", "stale"}
  /\ basis \in [files : SUBSET Artifacts, raced : BOOLEAN]

RequestTypes ==
  /\ rpc \in [Requests -> RPC]
  /\ op \in [Requests -> {"none", "create", "complete", "retry", "delete"}]
  /\ target \in [Requests -> Artifacts \cup {NoJob}]
  /\ seen \in [Requests -> Processing]
  /\ marked \in [Requests -> BOOLEAN]
  /\ ticket \in [Requests -> Jobs \cup {NoJob}]

WorkerTypes ==
  /\ wpc \in [Workers -> WPC]
  /\ msg \in [Workers -> Message \cup {NoMessage}]
  /\ crashes \in 0..MaxCrashes

MessageTypes ==
  /\ object \in [Artifacts -> Object]
  /\ queue \subseteq Message
  /\ lost \subseteq Jobs

LEMMA TypeParts ==
  /\ TypeOK => RowTypes /\ RequestTypes /\ WorkerTypes /\ MessageTypes
  /\ RowTypes' /\ RequestTypes' /\ WorkerTypes' /\ MessageTypes' => TypeOK'
BY DEF TypeOK, RowTypes, RequestTypes, WorkerTypes, MessageTypes

LEMMA RowsKept ==
  /\ RowTypes /\ UNCHANGED dbVars => RowTypes'
  /\ RequestTypes /\ UNCHANGED reqVars => RequestTypes'
  /\ WorkerTypes /\ UNCHANGED workerVars => WorkerTypes'
BY DEF RowTypes, RequestTypes, WorkerTypes, dbVars, reqVars, workerVars

\* Where a request goes, its variables have their types.
LEMMA FinishTypes ==
  ASSUME RequestTypes, NEW r \in Requests, Finish(r)
  PROVE  RequestTypes'
BY DEF Finish, RequestTypes, RPC, Processing

LEMMA GotoTypes ==
  ASSUME RequestTypes, NEW r \in Requests, NEW l \in RPC, Goto(r, l)
  PROVE  RequestTypes'
BY DEF Goto, RequestTypes

LEMMA RequestOnlyType ==
  ASSUME TypeOK, RequestInv, NEW r \in Requests, RequestOnly(r)
  PROVE  TypeOK'
<1> USE DEF RPC
<1>1. RowTypes /\ RequestTypes /\ WorkerTypes /\ MessageTypes
  BY TypeParts
<1>2. RowTypes' /\ WorkerTypes'
  <2>1. UNCHANGED dbVars /\ UNCHANGED workerVars
    BY DEF RequestOnly, BeginCreate, Begin, CountFiles, LoadForComplete, FindJob, Head,
           MarkStale, LoadForRetry, LoadForDelete, LockForDelete, DeleteObject,
           StorageFails, FailDelete, Dispatch, DispatchFails, RequestDies
  <2> QED
    BY <1>1, <2>1, RowsKept
<1>3. RequestTypes'
  <2>1. CASE BeginCreate(r) \/ Begin(r)
    BY <1>1, <2>1 DEF BeginCreate, Begin, RequestTypes, Files
  <2>2. CASE CountFiles(r) \/ LoadForComplete(r) \/ Head(r) \/ LoadForDelete(r) \/ LockForDelete(r)
    BY <1>1, <2>2, FinishTypes, GotoTypes
    DEF CountFiles, LoadForComplete, Head, LoadForDelete, LockForDelete
  <2>3. CASE StorageFails(r) \/ FailDelete(r) \/ DispatchFails(r) \/ RequestDies(r)
    BY <1>1, <2>3, FinishTypes DEF StorageFails, FailDelete, DispatchFails, RequestDies
  <2>4. CASE Dispatch(r) \/ DeleteObject(r)
    BY <1>1, <2>4, FinishTypes, GotoTypes DEF Dispatch, DeleteObject
  <2>5. CASE FindJob(r)
    <3> DEFINE jobs == JobsOf(target[r])
               last == CHOOSE j \in jobs : \A k \in jobs : k <= j
    <3>1. jobs # {} => last \in Jobs
      <4>1. jobs \in SUBSET Jobs
        BY DEF JobsOf
      <4> HIDE DEF jobs
      <4>2. jobs # {} => \E j \in jobs : \A k \in jobs : k <= j
        BY <4>1, LastJob
      <4> QED
        BY <4>1, <4>2
    <3>2. \/ Finish(r)
          \/ /\ jobs # {} /\ ticket' = [ticket EXCEPT ![r] = last]
             /\ rpc' = [rpc EXCEPT ![r] = "dispatch"] /\ UNCHANGED <<op, target, seen, marked>>
      BY <2>5 DEF FindJob
    <3> HIDE DEF last, jobs
    <3> QED
      BY <1>1, <3>1, <3>2, FinishTypes DEF RequestTypes
  <2>6. CASE MarkStale(r)
    BY <1>1, <2>6 DEF MarkStale, RequestTypes
  <2>7. CASE LoadForRetry(r)
    <3>1. CASE Finish(r)
      BY <1>1, <3>1, FinishTypes
    <3>2. CASE ~Finish(r)
      <4>1. At(r, "load", "retry") /\ upload[target[r]] = "uploaded"
            /\ seen' = [seen EXCEPT ![r] = processing[target[r]]]
            /\ rpc' = [rpc EXCEPT ![r] = "write"] /\ UNCHANGED <<op, target, marked, ticket>>
        BY <2>7, <3>2 DEF LoadForRetry
      <4>2. target[r] \in Artifacts
        BY <4>1 DEF RequestInv, At
      <4> QED
        BY <1>1, <4>1, <4>2 DEF RequestTypes, RowTypes
    <3> QED
      BY <3>1, <3>2
  <2> QED
    BY <2>1, <2>2, <2>3, <2>4, <2>5, <2>6, <2>7 DEF RequestOnly
<1>4. MessageTypes'
  <2>1. CASE Dispatch(r)
    <3>1. ticket[r] \in Jobs
      BY <1>1, <2>1 DEF Dispatch, RequestInv, RequestTypes
    <3> QED
      BY <1>1, <2>1, <3>1, CountsAssumption DEF Dispatch, MessageTypes, Message
  <2>2. CASE DispatchFails(r) \/ RequestDies(r)
    <3>1. rpc[r] = "dispatch" => ticket[r] \in Jobs
      BY <1>1 DEF RequestInv, RequestTypes
    <3> QED
      BY <1>1, <2>2, <3>1 DEF DispatchFails, RequestDies, MessageTypes
  <2>3. CASE DeleteObject(r)
    BY <1>1, <2>3 DEF DeleteObject, MessageTypes, Object
  <2>4. CASE UNCHANGED <<object, queue, lost>>
    BY <1>1, <2>4 DEF MessageTypes
  <2> QED
    BY <2>1, <2>2, <2>3, <2>4
    DEF RequestOnly, BeginCreate, Begin, CountFiles, LoadForComplete, FindJob, Head,
        MarkStale, LoadForRetry, LoadForDelete, LockForDelete, StorageFails, FailDelete
<1> QED
  BY <1>2, <1>3, <1>4, TypeParts

LEMMA RequestCommitsType ==
  ASSUME TypeOK, RequestInv, RoomInv, NEW r \in Requests, RequestCommits(r)
  PROVE  TypeOK'
<1>1. RowTypes /\ RequestTypes /\ WorkerTypes /\ MessageTypes
  BY TypeParts
<1>2. CASE InsertFile(r)
  <2>1. RowTypes'
    BY <1>1, <1>2 DEF InsertFile, RowTypes, Upload
  <2>2. RequestTypes' /\ WorkerTypes' /\ MessageTypes'
    BY <1>1, <1>2, FinishTypes, RowsKept DEF InsertFile, MessageTypes
  <2> QED
    BY <2>1, <2>2, TypeParts
<1>3. ASSUME NEW a \in Artifacts, AddJob(r, a), NextJob \in Jobs
      PROVE  /\ jobArtifact' \in [Jobs -> Artifacts \cup {NoJob}]
             /\ jobStatus' \in [Jobs -> JobStatus]
             /\ RequestTypes'
  BY <1>1, <1>3 DEF AddJob, RowTypes, RequestTypes, JobStatus, RPC
<1>4. BlueprintAfter(r) =>
        /\ blueprint' \in {"none", "approved", "stale"}
        /\ basis' \in [files : SUBSET Artifacts, raced : BOOLEAN]
  BY <1>1 DEF BlueprintAfter, RowTypes, NoBasis
<1>5. CASE CommitComplete(r)
  <2> DEFINE a == target[r]
  <2>1. a \in Artifacts
    BY <1>5 DEF CommitComplete, At, RequestInv
  <2>2. RowTypes' /\ RequestTypes'
    <3>1. CASE upload[a] = "pending"
      <4>1. NextJob \in Jobs /\ AddJob(r, a)
        BY <1>5, <3>1, InsertsJob DEF CommitComplete
      <4>2. upload' \in [Artifacts -> Upload] /\ processing' \in [Artifacts -> Processing]
            /\ content' = content /\ BlueprintAfter(r)
        BY <1>1, <1>5, <2>1, <3>1 DEF CommitComplete, RowTypes, Upload, Processing
      <4> QED
        BY <1>1, <1>3, <1>4, <2>1, <4>1, <4>2 DEF RowTypes
    <3>2. CASE upload[a] # "pending"
      BY <1>1, <1>5, <3>2, FinishTypes DEF CommitComplete, RowTypes
    <3> QED
      BY <3>1, <3>2
  <2>3. WorkerTypes' /\ MessageTypes'
    BY <1>1, <1>5, RowsKept DEF CommitComplete, MessageTypes
  <2> QED
    BY <2>2, <2>3, TypeParts
<1>6. CASE CommitRetry(r)
  <2> DEFINE a == target[r]
  <2>1. a \in Artifacts /\ NextJob \in Jobs
    BY <1>6, InsertsJob DEF CommitRetry, At, RequestInv
  <2>2. RowTypes' /\ RequestTypes'
    <3>1. CASE upload[a] = "uploaded"
      <4>1. AddJob(r, a)
        BY <1>6, <3>1 DEF CommitRetry
      <4>2. processing' \in [Artifacts -> Processing]
            /\ UNCHANGED <<upload, content, blueprint, basis>>
        BY <1>1, <1>6, <2>1, <3>1 DEF CommitRetry, RowTypes, Processing
      <4> QED
        BY <1>1, <1>3, <2>1, <4>1, <4>2 DEF RowTypes
    <3>2. CASE upload[a] # "uploaded"
      BY <1>1, <1>6, <3>2, FinishTypes DEF CommitRetry, RowTypes
    <3> QED
      BY <3>1, <3>2
  <2>3. WorkerTypes' /\ MessageTypes'
    BY <1>1, <1>6, RowsKept DEF CommitRetry, MessageTypes
  <2> QED
    BY <2>2, <2>3, TypeParts
<1>7. CASE DeleteRow(r)
  <2>1. RowTypes'
    <3>1. upload' \in [Artifacts -> Upload] /\ processing' \in [Artifacts -> Processing]
          /\ content' \in [Artifacts -> BOOLEAN] /\ jobArtifact' = jobArtifact
      BY <1>1, <1>7 DEF DeleteRow, RowTypes, Upload, Processing
    <3>2. jobStatus' \in [Jobs -> JobStatus]
      BY <1>1, <1>7 DEF DeleteRow, RowTypes, JobStatus
    <3> QED
      BY <1>1, <1>4, <1>7, <3>1, <3>2 DEF DeleteRow, RowTypes
  <2>2. RequestTypes' /\ WorkerTypes' /\ MessageTypes'
    BY <1>1, <1>7, FinishTypes, RowsKept DEF DeleteRow, MessageTypes
  <2> QED
    BY <2>1, <2>2, TypeParts
<1> QED
  BY <1>2, <1>5, <1>6, <1>7 DEF RequestCommits

\* What a worker does with its message.
LEMMA MoveTypes ==
  ASSUME WorkerTypes, NEW w \in Workers, NEW l \in WPC, Move(w, l)
  PROVE  WorkerTypes'
BY DEF Move, WorkerTypes

LEMMA ReleaseTypes ==
  ASSUME WorkerTypes, NEW w \in Workers, Release(w), crashes' \in 0..MaxCrashes
  PROVE  WorkerTypes'
BY DEF Release, WorkerTypes, WPC

LEMMA WorkerType ==
  ASSUME TypeOK, JobInv, WorkerInv, NEW w \in Workers, WorkerOnly(w) \/ WorkerCommits(w)
  PROVE  TypeOK'
<1> USE DEF WPC
<1>1. RowTypes /\ RequestTypes /\ WorkerTypes /\ MessageTypes
  BY TypeParts
<1>2. wpc[w] # "idle" => msg[w] \in Message /\ msg[w].job \in Jobs
                         /\ msg[w].retries \in 0..MaxRetries
  BY DEF WorkerInv, Message
<1>3. RequestTypes'
  <2>1. UNCHANGED reqVars
    BY DEF WorkerOnly, WorkerCommits, Deliver, Take, LockJob, LockArtifact, FailTransiently,
           FailJob, Reraise, Ack, FailWorker, Abort, WorkerDies, Succeed, RejectDocument,
           FailArtifact
  <2> QED
    BY <1>1, <2>1, RowsKept
<1>4. WorkerTypes'
  <2>1. CASE Deliver(w)
    BY <1>1, <2>1 DEF Deliver, Take, WorkerTypes, MessageTypes
  <2>2. CASE LockJob(w) \/ LockArtifact(w) \/ FailTransiently(w) \/ FailJob(w)
    BY <1>1, <2>2, MoveTypes DEF LockJob, LockArtifact, FailTransiently, FailJob
  <2>3. CASE Succeed(w) \/ RejectDocument(w) \/ FailArtifact(w)
    BY <1>1, <2>3, MoveTypes DEF Succeed, RejectDocument, FailArtifact
  <2>4. CASE Reraise(w) \/ Ack(w) \/ FailWorker(w) \/ Abort(w)
    <3>1. Release(w) /\ crashes' = crashes
      BY <2>4 DEF Reraise, Ack, FailWorker, Abort
    <3> QED
      BY <1>1, <3>1, ReleaseTypes DEF WorkerTypes
  <2>5. CASE WorkerDies(w)
    <3>1. Release(w) /\ crashes' = crashes + 1 /\ crashes < MaxCrashes
      BY <2>5 DEF WorkerDies
    <3>2. crashes' \in 0..MaxCrashes
      BY <1>1, <3>1, CountsAssumption DEF WorkerTypes
    <3> QED
      BY <1>1, <3>1, <3>2, ReleaseTypes
  <2> QED
    BY <2>1, <2>2, <2>3, <2>4, <2>5 DEF WorkerOnly, WorkerCommits
<1>5. RowTypes' /\ MessageTypes'
  <2>1. CASE Deliver(w) \/ LockJob(w) \/ LockArtifact(w) \/ FailTransiently(w) \/ FailJob(w) \/ Ack(w)
    BY <1>1, <2>1, RowsKept
    DEF Deliver, Take, LockJob, LockArtifact, FailTransiently, FailJob, Ack, MessageTypes
  <2>2. CASE Reraise(w)
    <3>1. wpc[w] # "idle" /\ UNCHANGED dbVars /\ UNCHANGED <<object, lost>>
      BY <2>2 DEF Reraise
    <3>2. msg[w].retries < MaxRetries =>
            [msg[w] EXCEPT !.retries = @ + 1] \in Message
      BY <1>2, <3>1, CountsAssumption DEF Message
    <3>3. queue' \subseteq Message
      BY <1>1, <2>2, <3>2 DEF Reraise, MessageTypes
    <3> QED
      BY <1>1, <3>1, <3>3, RowsKept DEF MessageTypes
  <2>3. CASE FailWorker(w) \/ Abort(w)
    <3>1. wpc[w] # "idle"
      BY <2>3 DEF FailWorker, Deadlocked, Abort
    <3> QED
      BY <1>1, <1>2, <2>3, <3>1, RowsKept DEF FailWorker, Abort, MessageTypes
  <2>4. CASE WorkerDies(w)
    BY <1>1, <1>2, <2>4, RowsKept DEF WorkerDies, MessageTypes
  <2>5. CASE Succeed(w) \/ RejectDocument(w) \/ FailArtifact(w)
    <3>1. wpc[w] \in {"process", "fail_artifact"}
      BY <2>5 DEF Succeed, RejectDocument, FailArtifact
    <3>2. msg[w].job \in Jobs /\ jobArtifact[msg[w].job] \in Artifacts
      BY <1>2, <3>1 DEF WorkerInv, JobInv, FreshJobs
    <3>3. MessageTypes' /\ UNCHANGED <<upload, jobArtifact, blueprint, basis>>
      BY <1>1, <2>5 DEF Succeed, RejectDocument, FailArtifact, MessageTypes
    <3>4. /\ processing' \in [Artifacts -> Processing]
          /\ content' \in [Artifacts -> BOOLEAN]
          /\ jobStatus' \in [Jobs -> JobStatus]
      BY <1>1, <2>5, <3>2
      DEF Succeed, RejectDocument, FailArtifact, RowTypes, Processing, JobStatus
    <3> QED
      BY <1>1, <3>3, <3>4 DEF RowTypes
  <2> QED
    BY <2>1, <2>2, <2>3, <2>4, <2>5 DEF WorkerOnly, WorkerCommits
<1> QED
  BY <1>3, <1>4, <1>5, TypeParts

LEMMA TypeNext == TypeOK /\ IngestionInv /\ [Next]_vars => TypeOK'
<1> SUFFICES ASSUME TypeOK, RequestInv, RoomInv, JobInv, WorkerInv, [Next]_vars
             PROVE  TypeOK'
  BY DEF IngestionInv
<1>1. ASSUME NEW r \in Requests, RequestOnly(r) \/ RequestCommits(r) PROVE TypeOK'
  BY <1>1, RequestOnlyType, RequestCommitsType
<1>2. ASSUME NEW w \in Workers, WorkerOnly(w) \/ WorkerCommits(w) PROVE TypeOK'
  BY <1>2, WorkerType
<1>3. ASSUME NEW a \in Artifacts, ClientPut(a) PROVE TypeOK'
  BY <1>3 DEF ClientPut, TypeOK, dbVars, reqVars, workerVars
<1>4. CASE ApproveBlueprint
  BY <1>4 DEF ApproveBlueprint, TypeOK, Complete, reqVars, workerVars
<1>5. CASE UNCHANGED vars
  BY <1>5 DEF vars, TypeOK, dbVars, reqVars, workerVars
<1> QED
  BY <1>1, <1>2, <1>3, <1>4, <1>5, StepCases

-----------------------------------------------------------------------------
(* What a step leaves alone *)

LEMMA RequestFrame ==
  ASSUME TypeOK, NEW r \in Requests, RequestOnly(r) \/ RequestCommits(r)
  PROVE  /\ \A s \in Requests \ {r} :
              /\ rpc'[s] = rpc[s] /\ op'[s] = op[s] /\ target'[s] = target[s]
              /\ marked'[s] = marked[s] /\ ticket'[s] = ticket[s]
         /\ UNCHANGED workerVars
<1> USE DEF Finish, Goto, AddJob, TypeOK
<1>1. CASE BeginCreate(r) \/ Begin(r) \/ CountFiles(r) \/ LoadForComplete(r) \/ FindJob(r)
  BY <1>1 DEF BeginCreate, Begin, CountFiles, LoadForComplete, FindJob
<1>2. CASE Head(r) \/ MarkStale(r) \/ LoadForRetry(r) \/ LoadForDelete(r) \/ LockForDelete(r)
  BY <1>2 DEF Head, MarkStale, LoadForRetry, LoadForDelete, LockForDelete
<1>3. CASE \/ DeleteObject(r) \/ StorageFails(r) \/ FailDelete(r)
           \/ Dispatch(r) \/ DispatchFails(r) \/ RequestDies(r)
  BY <1>3 DEF DeleteObject, StorageFails, FailDelete, Dispatch, DispatchFails, RequestDies
<1>4. CASE InsertFile(r) \/ DeleteRow(r)
  BY <1>4 DEF InsertFile, DeleteRow
<1>5. CASE CommitComplete(r) \/ CommitRetry(r)
  BY <1>5 DEF CommitComplete, CommitRetry
<1> QED
  BY <1>1, <1>2, <1>3, <1>4, <1>5 DEF RequestOnly, RequestCommits

LEMMA RequestOnlyFrame ==
  ASSUME NEW r \in Requests, RequestOnly(r)
  PROVE  UNCHANGED dbVars
BY DEF RequestOnly, BeginCreate, Begin, CountFiles, LoadForComplete, FindJob, Head,
       MarkStale, LoadForRetry, LoadForDelete, LockForDelete, DeleteObject,
       StorageFails, FailDelete, Dispatch, DispatchFails, RequestDies

LEMMA WorkerFrame ==
  ASSUME TypeOK, NEW w \in Workers, WorkerOnly(w) \/ WorkerCommits(w)
  PROVE  /\ \A v \in Workers \ {w} : wpc'[v] = wpc[v] /\ msg'[v] = msg[v]
         /\ UNCHANGED reqVars
<1> USE DEF Move, Release, TypeOK
<1>1. CASE WorkerOnly(w)
  BY <1>1 DEF WorkerOnly, Deliver, Take, LockJob, LockArtifact, FailTransiently,
              FailJob, Reraise, Ack, FailWorker, Abort, WorkerDies
<1>2. CASE WorkerCommits(w)
  BY <1>2 DEF WorkerCommits, Succeed, RejectDocument, FailArtifact
<1> QED
  BY <1>1, <1>2

LEMMA WorkerOnlyFrame ==
  ASSUME NEW w \in Workers, WorkerOnly(w)
  PROVE  UNCHANGED dbVars
BY DEF WorkerOnly, Deliver, Take, LockJob, LockArtifact, FailTransiently,
       FailJob, Reraise, Ack, FailWorker, Abort, WorkerDies

\* A request that has ended.
Ended(r) ==
  /\ rpc'[r] = "idle" /\ op'[r] = "none" /\ target'[r] = NoJob
  /\ marked'[r] = FALSE /\ ticket'[r] = NoJob

LEMMA FinishEnds ==
  ASSUME TypeOK, NEW r \in Requests, Finish(r)
  PROVE  Ended(r)
BY DEF Finish, Ended, TypeOK

\* Inserting a job: the row was free, and the request goes on to send it.
Inserted(r, a) ==
  /\ NextJob \in FreshJobs
  /\ jobArtifact' = [jobArtifact EXCEPT ![NextJob] = a]
  /\ jobStatus' = [jobStatus EXCEPT ![NextJob] = "queued"]
  /\ rpc'[r] = "dispatch" /\ ticket'[r] = NextJob
  /\ op'[r] = op[r] /\ target'[r] = target[r] /\ marked'[r] = marked[r]

\* The commits of requests and workers, as the tables see them.
LEMMA CompleteStep ==
  ASSUME TypeOK, RequestInv, RoomInv, NEW r \in Requests, CommitComplete(r)
  PROVE  /\ At(r, "write", "complete") /\ target[r] \in Artifacts /\ ArtifactFree(target[r])
         /\ \/ /\ upload[target[r]] = "pending"
               /\ upload' = [upload EXCEPT ![target[r]] = "uploaded"]
               /\ processing' = [processing EXCEPT ![target[r]] = "queued"]
               /\ content' = content /\ queue' = queue /\ lost' = lost
               /\ BlueprintAfter(r) /\ Inserted(r, target[r])
            \/ UNCHANGED dbVars /\ UNCHANGED <<queue, lost>> /\ Ended(r)
<1>1. At(r, "write", "complete") /\ target[r] \in Artifacts /\ ArtifactFree(target[r])
  BY DEF CommitComplete, At, RequestInv
<1>2. CASE upload[target[r]] = "pending"
  <2>1. NextJob \in FreshJobs
    BY <1>1, <1>2, InsertsJob
  <2>2. AddJob(r, target[r])
    BY <1>2 DEF CommitComplete
  <2>3. Inserted(r, target[r])
    BY <2>1, <2>2 DEF AddJob, Inserted, TypeOK
  <2> QED
    BY <1>1, <1>2, <2>3 DEF CommitComplete
<1>3. CASE upload[target[r]] # "pending"
  BY <1>1, <1>3, FinishEnds DEF CommitComplete, dbVars
<1> QED
  BY <1>2, <1>3

LEMMA RetryStep ==
  ASSUME TypeOK, RequestInv, RoomInv, NEW r \in Requests, CommitRetry(r)
  PROVE  /\ At(r, "write", "retry") /\ target[r] \in Artifacts /\ ArtifactFree(target[r])
         /\ UNCHANGED <<upload, content, blueprint, basis, queue, lost>>
         /\ \/ /\ upload[target[r]] = "uploaded"
               /\ \/ processing' = processing
                  \/ processing' = [processing EXCEPT ![target[r]] = "queued"]
               /\ Inserted(r, target[r])
            \/ UNCHANGED dbVars /\ Ended(r)
<1>1. At(r, "write", "retry") /\ target[r] \in Artifacts /\ ArtifactFree(target[r])
      /\ UNCHANGED <<upload, content, blueprint, basis, queue, lost>>
  BY DEF CommitRetry, At, RequestInv
<1>2. CASE upload[target[r]] = "uploaded"
  <2>1. NextJob \in FreshJobs
    BY <1>1, InsertsJob
  <2>2. AddJob(r, target[r])
    BY <1>2 DEF CommitRetry
  <2>3. Inserted(r, target[r])
    BY <2>1, <2>2 DEF AddJob, Inserted, TypeOK
  <2> QED
    BY <1>1, <1>2, <2>3 DEF CommitRetry
<1>3. CASE upload[target[r]] # "uploaded"
  BY <1>1, <1>3, FinishEnds DEF CommitRetry, dbVars
<1> QED
  BY <1>2, <1>3

LEMMA DeleteStep ==
  ASSUME TypeOK, RequestInv, NEW r \in Requests, DeleteRow(r)
  PROVE  /\ At(r, "delete_row", "delete") /\ target[r] \in Artifacts
         /\ \A j \in JobsOf(target[r]) : JobFree(j)
         /\ upload' = [upload EXCEPT ![target[r]] = "deleted"]
         /\ processing' = [processing EXCEPT ![target[r]] = "not_queued"]
         /\ content' = [content EXCEPT ![target[r]] = FALSE]
         /\ jobStatus' = [j \in Jobs |-> IF j \in JobsOf(target[r]) THEN "deleted"
                                         ELSE jobStatus[j]]
         /\ lost' = lost \ JobsOf(target[r])
         /\ BlueprintAfter(r) /\ Ended(r) /\ UNCHANGED <<jobArtifact, queue>>
BY FinishEnds DEF DeleteRow, At, RequestInv

LEMMA WorkerStep ==
  ASSUME TypeOK, JobInv, WorkerInv, NEW w \in Workers, WorkerCommits(w)
  PROVE  LET j == msg[w].job
             a == jobArtifact[j]
         IN /\ wpc[w] \in {"process", "fail_artifact"} /\ wpc'[w] \in {"ack", "raise"}
            /\ j \in Jobs /\ jobStatus[j] \notin {"fresh", "deleted"} /\ a \in Artifacts
            /\ \/ processing' = [processing EXCEPT ![a] = "failed"] /\ content' = content
                  /\ jobStatus' = [jobStatus EXCEPT ![j] = "failed"]
               \/ /\ processing' = [processing EXCEPT ![a] = "ready"]
                  /\ content' = [content EXCEPT ![a] = TRUE]
                  /\ jobStatus' = [jobStatus EXCEPT ![j] = "succeeded"]
            /\ msg' = msg
            /\ UNCHANGED <<upload, jobArtifact, blueprint, basis, queue, lost>>
<1>1. wpc[w] \in {"process", "fail_artifact"} /\ wpc'[w] \in {"ack", "raise"}
  BY DEF WorkerCommits, Succeed, RejectDocument, FailArtifact, Move, TypeOK
<1>2. msg[w] \in Message /\ jobStatus[msg[w].job] \notin {"fresh", "deleted"}
  BY <1>1 DEF WorkerInv
<1>3. msg[w].job \in Jobs
  BY <1>2 DEF Message
<1>4. jobArtifact[msg[w].job] \in Artifacts
  BY <1>2, <1>3 DEF JobInv, FreshJobs
<1> QED
  BY <1>1, <1>2, <1>3, <1>4 DEF WorkerCommits, Succeed, RejectDocument, FailArtifact, Move

\* A job that is there stays with its file, and no row is undone.
RowsStayed ==
  /\ \A j \in Jobs \ FreshJobs :
       jobStatus'[j] # "fresh" /\ jobArtifact'[j] = jobArtifact[j]
  /\ \A a \in Artifacts :
       /\ upload[a] # "fresh" => upload'[a] # "fresh"
       /\ upload'[a] = "pending" => upload[a] \in {"fresh", "pending"}

LEMMA RowsStay ==
  ASSUME TypeOK, RequestInv, RoomInv, JobInv, WorkerInv, [Next]_vars
  PROVE  RowsStayed
<1> USE DEF RowsStayed, FreshJobs, TypeOK
<1>1. CASE UNCHANGED dbVars
  BY <1>1 DEF dbVars
<1>2. ASSUME NEW r \in Requests, RequestCommits(r) PROVE RowsStayed
  <2>1. CASE InsertFile(r)
    BY <2>1 DEF InsertFile, FreshFiles
  <2>2. CASE CommitComplete(r)
    BY <1>1, <2>2, CompleteStep DEF Inserted
  <2>3. CASE CommitRetry(r)
    BY <1>1, <2>3, RetryStep DEF Inserted
  <2>4. CASE DeleteRow(r)
    BY <2>4, DeleteStep
  <2> QED
    BY <1>2, <2>1, <2>2, <2>3, <2>4 DEF RequestCommits
<1>3. ASSUME NEW w \in Workers, WorkerCommits(w) PROVE RowsStayed
  BY <1>3, WorkerStep
<1>4. CASE ApproveBlueprint
  BY <1>4 DEF ApproveBlueprint
<1>5. ASSUME NEW a \in Artifacts, ClientPut(a) PROVE RowsStayed
  BY <1>1, <1>5 DEF ClientPut
<1>6. CASE UNCHANGED vars
  BY <1>1, <1>6 DEF vars
<1> QED
  BY <1>1, <1>2, <1>3, <1>4, <1>5, <1>6, StepCases, RequestOnlyFrame, WorkerOnlyFrame

-----------------------------------------------------------------------------
(* Requests *)

\* What RequestInv says of one request.
Coherent(r) ==
  /\ rpc[r] = "idle" => op[r] = "none"
  /\ rpc[r] = "mark" => op[r] \in {"complete", "delete"}
  /\ op[r] \in {"complete", "retry", "delete"} =>
       target[r] \in Artifacts /\ upload[target[r]] # "fresh"
  /\ rpc[r] = "dispatch" <=> ticket[r] # NoJob
  /\ ticket[r] # NoJob => jobStatus[ticket[r]] # "fresh"

LEMMA CoherentParts == RequestInv <=> \A r \in Requests : Coherent(r)
BY DEF RequestInv, Coherent

LEMMA OwnCoherence ==
  ASSUME TypeOK, RequestInv, RoomInv, NEW r \in Requests,
         RequestOnly(r) \/ RequestCommits(r), RowsStayed
  PROVE  Coherent(r)'
<1>1. Ended(r) => Coherent(r)'
  BY DEF Ended, Coherent, NoJob
<1>2. Finish(r) => Coherent(r)'
  BY <1>1, FinishEnds
<1>3. ASSUME NEW l \in RPC \ {"idle", "mark", "dispatch"}, Goto(r, l), rpc[r] # "idle", rpc[r] # "dispatch"
      PROVE  Coherent(r)'
  BY <1>3 DEF Goto, Coherent, RequestInv, RowsStayed, TypeOK
<1> USE DEF RPC
<1>4. CASE BeginCreate(r)
  BY <1>4 DEF BeginCreate, Coherent, RequestInv, TypeOK
<1>5. CASE Begin(r)
  <2>1. PICK a \in Files, operation \in {"complete", "retry", "delete"} :
          op' = [op EXCEPT ![r] = operation] /\ target' = [target EXCEPT ![r] = a]
    BY <1>5 DEF Begin
  <2>2. rpc' = [rpc EXCEPT ![r] = "load"] /\ UNCHANGED dbVars /\ ticket' = ticket
        /\ rpc[r] = "idle"
    BY <1>5 DEF Begin
  <2>3. target'[r] = a /\ a \in Artifacts /\ upload'[a] # "fresh" /\ rpc'[r] = "load"
        /\ op'[r] = operation /\ ticket'[r] = NoJob
    BY <2>1, <2>2 DEF Files, TypeOK, dbVars, RequestInv
  <2> QED
    BY <2>3 DEF Coherent
<1>6. CASE CountFiles(r) \/ LoadForComplete(r) \/ LockForDelete(r) \/ DeleteObject(r)
  BY <1>2, <1>3, <1>6 DEF CountFiles, LoadForComplete, LockForDelete, DeleteObject, At
<1>7. CASE Head(r) \/ LoadForDelete(r)
  <2>1. \/ Finish(r)
        \/ Goto(r, "mark") /\ op[r] \in {"complete", "delete"} /\ rpc[r] \in {"head", "load"}
    BY <1>7 DEF Head, LoadForDelete, At
  <2>2. CASE Goto(r, "mark") /\ op[r] \in {"complete", "delete"} /\ rpc[r] \in {"head", "load"}
    BY <2>2 DEF Goto, Coherent, RequestInv, RowsStayed, TypeOK
  <2> QED
    BY <1>2, <2>1, <2>2
<1>8. CASE \/ StorageFails(r) \/ FailDelete(r) \/ Dispatch(r) \/ DispatchFails(r)
           \/ RequestDies(r) \/ InsertFile(r)
  BY <1>2, <1>8 DEF StorageFails, FailDelete, Dispatch, DispatchFails, RequestDies, InsertFile
<1>9. CASE FindJob(r)
  <2> DEFINE jobs == JobsOf(target[r])
             last == CHOOSE j \in jobs : \A k \in jobs : k <= j
  <2>1. jobs # {} => last \in jobs
    <3>1. jobs \in SUBSET Jobs
      BY DEF JobsOf
    <3> HIDE DEF jobs
    <3>2. jobs # {} => \E j \in jobs : \A k \in jobs : k <= j
      BY <3>1, LastJob
    <3> QED
      BY <3>1, <3>2
  <2>2. \A j \in jobs : j \in Jobs /\ j # NoJob /\ jobStatus[j] # "fresh"
    BY CountsAssumption DEF JobsOf, Jobs, NoJob
  <2>3. \/ Finish(r)
        \/ /\ jobs # {} /\ ticket' = [ticket EXCEPT ![r] = last]
           /\ rpc' = [rpc EXCEPT ![r] = "dispatch"] /\ UNCHANGED <<op, target>>
           /\ UNCHANGED dbVars /\ op[r] = "complete"
    BY <1>9 DEF FindJob, At
  <2> HIDE DEF last, jobs
  <2> QED
    BY <1>2, <2>1, <2>2, <2>3 DEF Coherent, RequestInv, TypeOK, dbVars
<1>10. CASE MarkStale(r)
  BY <1>10 DEF MarkStale, Coherent, RequestInv, RowsStayed, TypeOK
<1>11. CASE LoadForRetry(r)
  <2>1. \/ Finish(r)
        \/ /\ rpc' = [rpc EXCEPT ![r] = "write"] /\ UNCHANGED <<op, target, ticket>>
           /\ rpc[r] = "load"
    BY <1>11 DEF LoadForRetry, At
  <2> QED
    BY <1>2, <2>1 DEF Coherent, RequestInv, RowsStayed, TypeOK
<1>12. ASSUME Inserted(r, target[r]), op[r] \in {"complete", "retry"} PROVE Coherent(r)'
  <2>1. NextJob \in Jobs /\ NextJob # NoJob /\ jobStatus'[NextJob] = "queued"
    BY <1>12, CountsAssumption DEF Inserted, FreshJobs, Jobs, NoJob, TypeOK
  <2> QED
    BY <1>12, <2>1 DEF Inserted, Coherent, RequestInv, RowsStayed
<1>13. CASE CommitComplete(r)
  BY <1>1, <1>12, <1>13, CompleteStep DEF At
<1>14. CASE CommitRetry(r)
  BY <1>1, <1>12, <1>14, RetryStep DEF At
<1>15. CASE DeleteRow(r)
  BY <1>1, <1>15, DeleteStep
<1> QED
  BY <1>4, <1>5, <1>6, <1>7, <1>8, <1>9, <1>10, <1>11, <1>13, <1>14, <1>15
  DEF RequestOnly, RequestCommits

LEMMA OtherCoherence ==
  ASSUME TypeOK, RequestInv, RowsStayed, NEW s \in Requests,
         rpc'[s] = rpc[s], op'[s] = op[s], target'[s] = target[s], ticket'[s] = ticket[s]
  PROVE  Coherent(s)'
<1>1. ticket[s] # NoJob => ticket[s] \in Jobs \ FreshJobs
  BY DEF TypeOK, RequestInv, FreshJobs
<1> QED
  BY <1>1 DEF Coherent, RequestInv, RowsStayed

LEMMA RequestNext == TypeOK /\ IngestionInv /\ [Next]_vars => RequestInv'
<1> SUFFICES ASSUME TypeOK, RequestInv, RoomInv, JobInv, WorkerInv, [Next]_vars,
                    NEW s \in Requests
             PROVE  Coherent(s)'
  BY DEF IngestionInv, RequestInv, Coherent
<1>1. RowsStayed
  BY RowsStay
<1>2. ASSUME NEW r \in Requests, RequestOnly(r) \/ RequestCommits(r) PROVE Coherent(s)'
  BY <1>1, <1>2, OwnCoherence, OtherCoherence, RequestFrame
<1>3. CASE UNCHANGED reqVars
  BY <1>1, <1>3, OtherCoherence DEF reqVars
<1> QED
  BY <1>2, <1>3, StepCases, WorkerFrame DEF ClientPut, ApproveBlueprint, vars

-----------------------------------------------------------------------------
(* Rows for the jobs that requests may still insert *)

\* What a request that has begun works on stays the same until it ends.
LEMMA OwnRequest ==
  ASSUME TypeOK, RequestInv, NEW r \in Requests, RequestOnly(r) \/ InsertFile(r), ~Begin(r)
  PROVE  \/ Ended(r)
         \/ rpc[r] = "idle" /\ op'[r] = "create"
         \/ /\ rpc[r] # "idle" /\ op'[r] = op[r] /\ target'[r] = target[r]
            /\ ticket'[r] = ticket[r] \/ rpc'[r] = "dispatch"
<1>1. Finish(r) => Ended(r)
  BY FinishEnds
<1> USE DEF At, Goto, TypeOK
<1>2. CASE BeginCreate(r)
  BY <1>2 DEF BeginCreate
<1>3. CASE CountFiles(r) \/ LoadForComplete(r) \/ FindJob(r) \/ Head(r) \/ MarkStale(r)
  BY <1>1, <1>3 DEF CountFiles, LoadForComplete, FindJob, Head, MarkStale
<1>4. CASE LoadForRetry(r) \/ LoadForDelete(r) \/ LockForDelete(r) \/ DeleteObject(r)
  BY <1>1, <1>4 DEF LoadForRetry, LoadForDelete, LockForDelete, DeleteObject
<1>5. CASE \/ StorageFails(r) \/ FailDelete(r) \/ Dispatch(r) \/ DispatchFails(r)
           \/ RequestDies(r) \/ InsertFile(r)
  BY <1>1, <1>5 DEF StorageFails, FailDelete, Dispatch, DispatchFails, RequestDies, InsertFile
<1> QED
  BY <1>2, <1>3, <1>4, <1>5 DEF RequestOnly

\* No request but one that arrives comes to need a job.
LEMMA NeedShrinks ==
  ASSUME TypeOK, RequestInv, RowsStayed, NEW s \in NeedJob',
         op'[s] = op[s], target'[s] = target[s], ticket[s] = NoJob
  PROVE  s \in NeedJob
BY DEF NeedJob, RequestInv, RowsStayed

LEMMA RoomShrinks ==
  ASSUME RoomInv, NeedJob' \subseteq NeedJob, FreshJobs' = FreshJobs
  PROVE  RoomInv'
<1>1. NeedJob \subseteq Requests /\ FreshJobs \subseteq Jobs
  BY DEF NeedJob, FreshJobs
<1>2. Cardinality(NeedJob') <= Cardinality(NeedJob)
  BY <1>1, FiniteSets, FS_Subset
<1>3. Cardinality(NeedJob') \in Nat /\ Cardinality(NeedJob) \in Nat /\ Cardinality(FreshJobs) \in Nat
  BY <1>1, FiniteSets
<1>4. Cardinality(NeedJob') <= Cardinality(FreshJobs')
  BY <1>2, <1>3 DEF RoomInv
<1> QED
  BY <1>4 DEF RoomInv

LEMMA RoomTaken ==
  ASSUME RoomInv, NEW r \in NeedJob, NEW j \in FreshJobs,
         NeedJob' \subseteq NeedJob \ {r}, FreshJobs' = FreshJobs \ {j}
  PROVE  RoomInv'
<1>1. NeedJob \subseteq Requests /\ FreshJobs \subseteq Jobs
  BY DEF NeedJob, FreshJobs
<1>2. IsFiniteSet(NeedJob) /\ IsFiniteSet(FreshJobs)
      /\ Cardinality(NeedJob) \in Nat /\ Cardinality(FreshJobs) \in Nat
  BY <1>1, FiniteSets
<1>3. /\ Cardinality(FreshJobs \ {j}) = Cardinality(FreshJobs) - 1
      /\ Cardinality(NeedJob \ {r}) = Cardinality(NeedJob) - 1
      /\ IsFiniteSet(NeedJob \ {r})
  BY <1>2, FS_RemoveElement
<1>4. Cardinality(NeedJob') <= Cardinality(NeedJob \ {r})
  BY <1>3, FS_Subset
<1>5. Cardinality(NeedJob') \in Nat
  BY <1>1, FiniteSets
<1>6. Cardinality(NeedJob') <= Cardinality(FreshJobs')
  BY <1>2, <1>3, <1>4, <1>5 DEF RoomInv
<1> QED
  BY <1>6 DEF RoomInv

\* A request that inserts its job no longer needs one.
LEMMA RoomInserted ==
  ASSUME TypeOK, RequestInv, RoomInv, RowsStayed, NEW r \in Requests, Inserted(r, target[r]),
         \/ CommitComplete(r) /\ upload[target[r]] = "pending"
         \/ CommitRetry(r)
  PROVE  RoomInv'
<1>1. r \in NeedJob
  BY DEF CommitComplete, CommitRetry, At, NeedJob, RequestInv
<1>2. FreshJobs' = FreshJobs \ {NextJob}
  BY DEF Inserted, FreshJobs, TypeOK
<1>3. ASSUME NEW s \in NeedJob' PROVE s \in NeedJob \ {r}
  <2>1. s # r
    BY CountsAssumption DEF Inserted, NeedJob, FreshJobs, Jobs, NoJob
  <2>2. op'[s] = op[s] /\ target'[s] = target[s] /\ ticket'[s] = ticket[s]
    BY <2>1, RequestFrame DEF NeedJob, RequestCommits
  <2> QED
    BY <2>1, <2>2, NeedShrinks DEF NeedJob
<1> QED
  BY <1>1, <1>2, <1>3, RoomTaken DEF Inserted

LEMMA RoomBegin ==
  ASSUME TypeOK, RequestInv, RoomInv, RowsStayed, NEW r \in Requests, Begin(r)
  PROVE  RoomInv'
<1>1. PICK a \in Files, operation \in {"complete", "retry", "delete"} :
        /\ \/ operation = "delete"
           \/ operation = "complete" /\ upload[a] = "uploaded"
           \/ JobsLeft
        /\ op' = [op EXCEPT ![r] = operation] /\ target' = [target EXCEPT ![r] = a]
  BY DEF Begin
<1>2. UNCHANGED <<upload, jobStatus, ticket>> /\ rpc[r] = "idle"
  BY DEF Begin, dbVars
<1>3. FreshJobs' = FreshJobs
  BY <1>2 DEF FreshJobs
<1>4. \A s \in NeedJob' : s # r => s \in NeedJob
  BY <1>1, <1>2, NeedShrinks DEF TypeOK, NeedJob
<1>5. CASE JobsLeft
  <2> DEFINE Waiting == {s \in Requests : op[s] \in {"complete", "retry"} /\ ticket[s] = NoJob}
  <2>1. NeedJob' \subseteq Waiting \cup {r} /\ Waiting \subseteq Requests /\ NeedJob' \subseteq Requests
    BY <1>4 DEF NeedJob
  <2>2. Cardinality(Waiting) < Cardinality(FreshJobs)
    BY <1>5 DEF JobsLeft
  <2>3. IsFiniteSet(Waiting) /\ Cardinality(Waiting) \in Nat
        /\ Cardinality(FreshJobs) \in Nat /\ Cardinality(NeedJob') \in Nat
    BY <2>1, FiniteSets DEF FreshJobs
  <2> HIDE DEF Waiting
  <2>4. IsFiniteSet(Waiting \cup {r}) /\ Cardinality(Waiting \cup {r}) <= Cardinality(Waiting) + 1
    <3>1. /\ IsFiniteSet(Waiting \cup {r})
          /\ Cardinality(Waiting \cup {r}) =
               IF r \in Waiting THEN Cardinality(Waiting) ELSE Cardinality(Waiting) + 1
      BY <2>3, FS_AddElement, Zenon
    <3> QED
      BY <2>3, <3>1
  <2>5. Cardinality(NeedJob') <= Cardinality(Waiting \cup {r})
    BY <2>1, <2>4, FS_Subset
  <2>6. Cardinality(Waiting \cup {r}) \in Nat
    BY <2>4, FS_CardinalityType
  <2>7. Cardinality(NeedJob') <= Cardinality(FreshJobs')
    BY <1>3, <2>2, <2>3, <2>4, <2>5, <2>6
  <2> QED
    BY <2>7 DEF RoomInv
<1>6. CASE ~JobsLeft
  <2>1. r \notin NeedJob'
    BY <1>1, <1>2, <1>6 DEF NeedJob, TypeOK
  <2> QED
    BY <1>3, <1>4, <2>1, RoomShrinks
<1> QED
  BY <1>5, <1>6

LEMMA RoomNext == TypeOK /\ IngestionInv /\ [Next]_vars => RoomInv'
<1> SUFFICES ASSUME TypeOK, RequestInv, RoomInv, JobInv, WorkerInv, [Next]_vars
             PROVE  RoomInv'
  BY DEF IngestionInv
<1>1. RowsStayed
  BY RowsStay
<1>2. ASSUME UNCHANGED reqVars, FreshJobs' = FreshJobs PROVE RoomInv'
  <2>1. NeedJob' \subseteq NeedJob
    BY <1>1, <1>2, NeedShrinks DEF reqVars, NeedJob
  <2> QED
    BY <1>2, <2>1, RoomShrinks
<1>3. ASSUME NEW r \in Requests, RequestOnly(r) \/ InsertFile(r), ~Begin(r) PROVE RoomInv'
  <2>1. FreshJobs' = FreshJobs
    BY <1>3, RequestOnlyFrame DEF InsertFile, FreshJobs, dbVars
  <2>2. ASSUME NEW s \in NeedJob' PROVE s \in NeedJob
    <3>1. s # r => op'[s] = op[s] /\ target'[s] = target[s] /\ ticket'[s] = ticket[s]
      BY <1>3, RequestFrame DEF NeedJob, RequestCommits
    <3>2. s = r => op'[s] = op[s] /\ target'[s] = target[s] /\ ticket'[s] = ticket[s]
      <4>1. Coherent(r)'
        BY <1>1, <1>3, OwnCoherence DEF RequestCommits
      <4> QED
        BY <1>3, <4>1, OwnRequest DEF Ended, NeedJob, Coherent
    <3> QED
      BY <1>1, <3>1, <3>2, NeedShrinks DEF NeedJob
  <2> QED
    BY <2>1, <2>2, RoomShrinks
<1>4. ASSUME NEW r \in Requests, Ended(r), RequestCommits(r), FreshJobs' = FreshJobs
      PROVE  RoomInv'
  <2>1. ASSUME NEW s \in NeedJob' PROVE s \in NeedJob
    <3>1. s # r
      BY <1>4 DEF Ended, NeedJob
    <3>2. op'[s] = op[s] /\ target'[s] = target[s] /\ ticket'[s] = ticket[s]
      BY <1>4, <3>1, RequestFrame DEF NeedJob
    <3> QED
      BY <1>1, <3>2, NeedShrinks DEF NeedJob
  <2> QED
    BY <1>4, <2>1, RoomShrinks
<1>5. ASSUME NEW r \in Requests, RequestCommits(r) PROVE RoomInv'
  <2>1. UNCHANGED dbVars => FreshJobs' = FreshJobs
    BY DEF FreshJobs, dbVars
  <2>2. CASE CommitComplete(r)
    BY <1>1, <1>4, <1>5, <2>1, <2>2, CompleteStep, RoomInserted
  <2>3. CASE CommitRetry(r)
    BY <1>1, <1>4, <1>5, <2>1, <2>3, RetryStep, RoomInserted
  <2>4. CASE DeleteRow(r)
    <3>1. FreshJobs' = FreshJobs
      BY <2>4, DeleteStep DEF FreshJobs, JobsOf, TypeOK
    <3> QED
      BY <1>4, <1>5, <2>4, <3>1, DeleteStep
  <2> QED
    BY <1>3, <1>5, <2>2, <2>3, <2>4, RoomBegin, <1>1 DEF RequestCommits, InsertFile, Begin, At
<1>6. ASSUME NEW w \in Workers, WorkerOnly(w) \/ WorkerCommits(w) PROVE RoomInv'
  <2>1. FreshJobs' = FreshJobs
    BY <1>6, WorkerOnlyFrame, WorkerStep DEF FreshJobs, TypeOK, dbVars
  <2> QED
    BY <1>2, <1>6, <2>1, WorkerFrame
<1>7. CASE (\E a \in Artifacts : ClientPut(a)) \/ ApproveBlueprint \/ UNCHANGED vars
  <2>1. UNCHANGED reqVars /\ jobStatus' = jobStatus
    BY <1>7 DEF ClientPut, ApproveBlueprint, vars, dbVars
  <2> QED
    BY <1>2, <2>1 DEF FreshJobs
<1> QED
  BY <1>1, <1>3, <1>5, <1>6, <1>7, RoomBegin, StepCases

-----------------------------------------------------------------------------
(* Jobs and messages *)

\* Every job that is there or was there is about a file.
JobRows ==
  \A j \in Jobs \ FreshJobs :
    /\ jobArtifact[j] \in Artifacts
    /\ jobStatus[j] # "deleted" => upload[jobArtifact[j]] = "uploaded"

LEMMA JobRowsNext ==
  ASSUME TypeOK, RequestInv, RoomInv, JobInv, WorkerInv, [Next]_vars
  PROVE  JobRows'
<1> USE DEF FreshJobs, TypeOK
<1>1. JobRows
  BY DEF JobRows, JobInv
<1>2. ASSUME UNCHANGED <<upload, jobArtifact, jobStatus>> PROVE JobRows'
  BY <1>1, <1>2 DEF JobRows
<1>3. ASSUME NEW a \in Artifacts, upload'[a] = "uploaded", NEW r \in Requests, Inserted(r, a),
             \A b \in Artifacts : upload[b] = "uploaded" => upload'[b] = "uploaded"
      PROVE  JobRows'
  BY <1>1, <1>3 DEF JobRows, Inserted
<1>4. ASSUME NEW r \in Requests, RequestCommits(r) PROVE JobRows'
  <2>1. CASE InsertFile(r)
    BY <1>1, <2>1 DEF InsertFile, FreshFiles, JobRows
  <2>2. CASE CommitComplete(r)
    <3>1. CASE UNCHANGED dbVars
      BY <1>2, <3>1 DEF dbVars
    <3>2. CASE ~UNCHANGED dbVars
      <4>1. target[r] \in Artifacts /\ upload' = [upload EXCEPT ![target[r]] = "uploaded"]
            /\ Inserted(r, target[r])
        BY <2>2, <3>2, CompleteStep
      <4> QED
        BY <1>3, <4>1
    <3> QED
      BY <3>1, <3>2
  <2>3. CASE CommitRetry(r)
    <3>1. CASE UNCHANGED dbVars
      BY <1>2, <3>1 DEF dbVars
    <3>2. CASE ~UNCHANGED dbVars
      <4>1. target[r] \in Artifacts /\ upload' = upload /\ upload[target[r]] = "uploaded"
            /\ Inserted(r, target[r])
        BY <2>3, <3>2, RetryStep
      <4> QED
        BY <1>3, <4>1
    <3> QED
      BY <3>1, <3>2
  <2>4. CASE DeleteRow(r)
    <3>1. /\ target[r] \in Artifacts /\ jobArtifact' = jobArtifact
          /\ upload' = [upload EXCEPT ![target[r]] = "deleted"]
          /\ jobStatus' = [j \in Jobs |-> IF j \in JobsOf(target[r]) THEN "deleted"
                                          ELSE jobStatus[j]]
      BY <2>4, DeleteStep
    <3> QED
      BY <1>1, <3>1 DEF JobRows, JobsOf
  <2> QED
    BY <1>4, <2>1, <2>2, <2>3, <2>4 DEF RequestCommits
<1>5. ASSUME NEW w \in Workers, WorkerCommits(w) PROVE JobRows'
  <2> DEFINE j == msg[w].job
  <2>1. j \in Jobs /\ jobStatus[j] \notin {"fresh", "deleted"}
        /\ UNCHANGED <<upload, jobArtifact>>
        /\ \/ jobStatus' = [jobStatus EXCEPT ![j] = "failed"]
           \/ jobStatus' = [jobStatus EXCEPT ![j] = "succeeded"]
    BY <1>5, WorkerStep
  <2> HIDE DEF j
  <2> QED
    BY <1>1, <2>1 DEF JobRows
<1>6. CASE UNCHANGED dbVars
  BY <1>2, <1>6 DEF dbVars
<1>7. CASE (\E a \in Artifacts : ClientPut(a)) \/ ApproveBlueprint \/ UNCHANGED vars
  <2>1. UNCHANGED <<upload, jobArtifact, jobStatus>>
    BY <1>7 DEF ClientPut, ApproveBlueprint, vars, dbVars
  <2> QED
    BY <1>2, <2>1
<1> QED
  BY <1>4, <1>5, <1>6, <1>7, StepCases, RequestOnlyFrame, WorkerOnlyFrame

\* A message that is sent is about a job that is there or was there.
LEMMA QueueStep ==
  ASSUME TypeOK, RequestInv, RoomInv, JobInv, WorkerInv, [Next]_vars, NEW m \in queue'
  PROVE  m.job \in Jobs \ FreshJobs
<1>1. m \in queue => m.job \in Jobs \ FreshJobs
  BY DEF JobInv, TypeOK, Message, FreshJobs
<1>2. CASE UNCHANGED queue
  BY <1>1, <1>2
<1>3. ASSUME NEW r \in Requests, RequestOnly(r) \/ RequestCommits(r)
      PROVE  m.job \in Jobs \ FreshJobs
  <2>1. CASE Dispatch(r)
    <3>1. ticket[r] \in Jobs \ FreshJobs
      BY <2>1 DEF Dispatch, RequestInv, TypeOK, FreshJobs
    <3>2. m \in queue \/ m.job = ticket[r]
      BY <2>1 DEF Dispatch
    <3> QED
      BY <1>1, <3>1, <3>2
  <2>2. CASE RequestCommits(r)
    BY <1>2, <2>2 DEF RequestCommits, InsertFile, CommitComplete, CommitRetry, DeleteRow
  <2>3. CASE RequestOnly(r) /\ ~Dispatch(r)
    BY <1>2, <2>3
    DEF RequestOnly, BeginCreate, Begin, CountFiles, LoadForComplete, FindJob, Head,
        MarkStale, LoadForRetry, LoadForDelete, LockForDelete, DeleteObject,
        StorageFails, FailDelete, DispatchFails, RequestDies
  <2> QED
    BY <1>3, <2>1, <2>2, <2>3
<1>4. ASSUME NEW w \in Workers, WorkerOnly(w) \/ WorkerCommits(w)
      PROVE  m.job \in Jobs \ FreshJobs
  <2>1. wpc[w] # "idle" => msg[w].job \in Jobs \ FreshJobs /\ msg[w] \in Message
    BY DEF WorkerInv, Message, FreshJobs
  <2>2. CASE Reraise(w)
    <3>1. m \in queue \/ m = [msg[w] EXCEPT !.retries = @ + 1]
      BY <2>2 DEF Reraise
    <3>2. wpc[w] # "idle"
      BY <2>2 DEF Reraise
    <3>3. [msg[w] EXCEPT !.retries = @ + 1].job = msg[w].job
      BY <2>1, <3>2 DEF Message
    <3> QED
      BY <1>1, <2>1, <3>1, <3>2, <3>3
  <2>3. CASE WorkerDies(w)
    BY <1>1, <2>1, <2>3 DEF WorkerDies
  <2>4. CASE Deliver(w)
    BY <1>1, <2>4 DEF Deliver, Take
  <2>5. CASE WorkerCommits(w)
    BY <1>2, <2>5, WorkerStep
  <2>6. CASE WorkerOnly(w) /\ ~Reraise(w) /\ ~WorkerDies(w) /\ ~Deliver(w)
    BY <1>2, <2>6
    DEF WorkerOnly, LockJob, LockArtifact, FailTransiently, FailJob, Ack, FailWorker, Abort
  <2> QED
    BY <1>4, <2>2, <2>3, <2>4, <2>5, <2>6
<1> QED
  BY <1>2, <1>3, <1>4, StepCases DEF ClientPut, ApproveBlueprint, vars

LEMMA JobNext == TypeOK /\ IngestionInv /\ [Next]_vars => JobInv'
<1> SUFFICES ASSUME TypeOK, RequestInv, RoomInv, JobInv, WorkerInv, [Next]_vars
             PROVE  JobInv'
  BY DEF IngestionInv
<1>1. JobRows'
  BY JobRowsNext
<1>2. \A m \in queue' : jobStatus'[m.job] # "fresh"
  BY QueueStep, RowsStay DEF RowsStayed
<1> QED
  BY <1>1, <1>2 DEF JobInv, JobRows

-----------------------------------------------------------------------------
(* Workers *)

\* What WorkerInv says of one worker.
Consistent(w) ==
  /\ wpc[w] # "idle" => msg[w] \in Message /\ jobStatus[msg[w].job] # "fresh"
  /\ wpc[w] \in {"lock_artifact", "process", "fail_artifact"} =>
       jobStatus[msg[w].job] # "deleted"
  /\ wpc[w] \in {"raise", "ack"} => jobStatus[msg[w].job] # "queued"

\* The commit of a worker or of a request, seen by a worker that stays put.
LEMMA StaysConsistent ==
  ASSUME TypeOK, RequestInv, RoomInv, JobInv, WorkerInv, [Next]_vars, NEW v \in Workers,
         wpc'[v] = wpc[v], msg'[v] = msg[v]
  PROVE  Consistent(v)'
<1> DEFINE j == msg[v].job
<1>1. wpc[v] # "idle" => msg[v] \in Message /\ j \in Jobs \ FreshJobs
  BY DEF WorkerInv, Message, FreshJobs
<1>2. wpc[v] # "idle" => jobStatus'[j] # "fresh"
  BY <1>1, RowsStay DEF RowsStayed
<1>3. ASSUME wpc[v] # "idle", jobStatus'[j] = "queued" PROVE jobStatus[j] = "queued"
  <2>1. j \in Jobs /\ jobStatus[j] # "fresh"
    BY <1>1, <1>3 DEF FreshJobs
  <2>2. ASSUME NEW r \in Requests, RequestCommits(r) PROVE jobStatus[j] = "queued"
    <3>1. CASE InsertFile(r)
      BY <1>3, <3>1 DEF InsertFile
    <3>2. CASE CommitComplete(r)
      BY <1>3, <2>1, <3>2, CompleteStep DEF Inserted, FreshJobs, TypeOK, dbVars
    <3>3. CASE CommitRetry(r)
      BY <1>3, <2>1, <3>3, RetryStep DEF Inserted, FreshJobs, TypeOK, dbVars
    <3>4. CASE DeleteRow(r)
      BY <1>3, <2>1, <3>4, DeleteStep DEF TypeOK
    <3> QED
      BY <2>2, <3>1, <3>2, <3>3, <3>4 DEF RequestCommits
  <2>3. ASSUME NEW w \in Workers, WorkerCommits(w) PROVE jobStatus[j] = "queued"
    BY <1>3, <2>1, <2>3, WorkerStep DEF TypeOK
  <2> QED
    BY <1>3, <2>2, <2>3, StepCases, RequestOnlyFrame, WorkerOnlyFrame
    DEF ClientPut, ApproveBlueprint, vars, dbVars
<1>4. ASSUME wpc[v] \in {"lock_artifact", "process", "fail_artifact"}, jobStatus'[j] = "deleted"
      PROVE  FALSE
  <2>1. j \in Jobs /\ jobStatus[j] \notin {"fresh", "deleted"} /\ ~JobFree(j)
    BY <1>1, <1>4 DEF FreshJobs, WorkerInv, JobFree, WorkerHoldsJob
  <2>2. ASSUME NEW r \in Requests, RequestCommits(r) PROVE FALSE
    <3>1. CASE InsertFile(r)
      BY <1>4, <2>1, <3>1 DEF InsertFile
    <3>2. CASE CommitComplete(r)
      BY <1>4, <2>1, <3>2, CompleteStep DEF Inserted, TypeOK, dbVars
    <3>3. CASE CommitRetry(r)
      BY <1>4, <2>1, <3>3, RetryStep DEF Inserted, TypeOK, dbVars
    <3>4. CASE DeleteRow(r)
      BY <1>4, <2>1, <3>4, DeleteStep DEF TypeOK
    <3> QED
      BY <2>2, <3>1, <3>2, <3>3, <3>4 DEF RequestCommits
  <2>3. ASSUME NEW w \in Workers, WorkerCommits(w) PROVE FALSE
    BY <1>4, <2>1, <2>3, WorkerStep DEF TypeOK
  <2> QED
    BY <1>4, <2>1, <2>2, <2>3, StepCases, RequestOnlyFrame, WorkerOnlyFrame
    DEF ClientPut, ApproveBlueprint, vars, dbVars
<1> QED
  BY <1>1, <1>2, <1>3, <1>4 DEF Consistent, WorkerInv

LEMMA OwnConsistency ==
  ASSUME TypeOK, RequestInv, JobInv, WorkerInv, NEW w \in Workers,
         WorkerOnly(w) \/ WorkerCommits(w)
  PROVE  Consistent(w)'
<1>1. Release(w) => Consistent(w)'
  BY DEF Release, Consistent, TypeOK
<1>2. wpc[w] # "idle" => msg[w] \in Message /\ msg[w].job \in Jobs
  BY DEF WorkerInv, Message
<1>3. CASE Deliver(w)
  <2>1. PICK m \in queue : Take(w, m)
    BY <1>3 DEF Deliver
  <2>2. m \in Message /\ jobStatus[m.job] # "fresh" /\ jobStatus' = jobStatus
        /\ wpc'[w] = "lock_job" /\ msg'[w] = m
    BY <2>1 DEF Take, TypeOK, JobInv, dbVars
  <2> QED
    BY <2>2 DEF Consistent
<1>4. CASE LockJob(w) \/ LockArtifact(w) \/ FailTransiently(w) \/ FailJob(w)
  BY <1>2, <1>4
  DEF LockJob, LockArtifact, FailTransiently, FailJob, Move, Consistent, WorkerInv, TypeOK, dbVars
<1>5. CASE WorkerCommits(w)
  <2> DEFINE j == msg[w].job
  <2>1. /\ wpc[w] # "idle" /\ wpc'[w] \in {"ack", "raise"} /\ msg' = msg
        /\ \/ jobStatus' = [jobStatus EXCEPT ![j] = "failed"]
           \/ jobStatus' = [jobStatus EXCEPT ![j] = "succeeded"]
    BY <1>5, WorkerStep
  <2>2. jobStatus'[j] \in {"failed", "succeeded"}
    BY <1>2, <2>1 DEF TypeOK
  <2> QED
    BY <1>2, <2>1, <2>2 DEF Consistent
<1>6. CASE Reraise(w) \/ Ack(w) \/ FailWorker(w) \/ Abort(w) \/ WorkerDies(w)
  BY <1>1, <1>6 DEF Reraise, Ack, FailWorker, Abort, WorkerDies
<1> QED
  BY <1>3, <1>4, <1>5, <1>6 DEF WorkerOnly

LEMMA WorkerNext == TypeOK /\ IngestionInv /\ [Next]_vars => WorkerInv'
<1> SUFFICES ASSUME TypeOK, RequestInv, RoomInv, JobInv, WorkerInv, [Next]_vars,
                    NEW v \in Workers
             PROVE  Consistent(v)'
  BY DEF IngestionInv, WorkerInv, Consistent
<1>1. CASE wpc'[v] = wpc[v] /\ msg'[v] = msg[v]
  BY <1>1, StaysConsistent
<1>2. ASSUME NEW w \in Workers, WorkerOnly(w) \/ WorkerCommits(w) PROVE Consistent(v)'
  BY <1>1, <1>2, OwnConsistency, WorkerFrame
<1> QED
  BY <1>1, <1>2, StepCases, RequestFrame
  DEF workerVars, ClientPut, ApproveBlueprint, vars

-----------------------------------------------------------------------------
(* Files and their approval *)

\* Where a request of a completion or a deletion comes from when it is changing
\* the files: it has just marked the blueprint, or it was changing them before.
LEMMA ChangingStep ==
  ASSUME TypeOK, RequestInv, RoomInv, NEW r \in Requests, RequestOnly(r) \/ RequestCommits(r),
         op'[r] \in {"complete", "delete"}, rpc'[r] \in Changing
  PROVE  \/ UNCHANGED <<blueprint, basis>> /\ (marked'[r] <=> blueprint = "approved")
         \/ /\ UNCHANGED <<blueprint, basis>> /\ marked'[r] = marked[r]
            /\ op[r] \in {"complete", "delete"} /\ rpc[r] \in Changing
<1> USE DEF Changing, At
<1>1. ~Ended(r) /\ ~Finish(r)
  BY FinishEnds DEF Ended
<1>2. CASE BeginCreate(r) \/ Begin(r)
  BY <1>2 DEF BeginCreate, Begin, TypeOK
<1>3. CASE CountFiles(r) \/ LoadForComplete(r) \/ FindJob(r) \/ Head(r) \/ LoadForDelete(r)
  BY <1>1, <1>3 DEF CountFiles, LoadForComplete, FindJob, Head, LoadForDelete, Goto, TypeOK
<1>4. CASE LockForDelete(r) \/ DeleteObject(r)
  BY <1>1, <1>4 DEF LockForDelete, DeleteObject, Goto, TypeOK, dbVars
<1>5. CASE MarkStale(r)
  BY <1>5 DEF MarkStale, TypeOK, dbVars
<1>6. CASE LoadForRetry(r)
  BY <1>1, <1>6 DEF LoadForRetry, TypeOK
<1>7. CASE \/ StorageFails(r) \/ FailDelete(r) \/ Dispatch(r) \/ DispatchFails(r)
           \/ RequestDies(r) \/ InsertFile(r) \/ DeleteRow(r)
  BY <1>1, <1>7
  DEF StorageFails, FailDelete, Dispatch, DispatchFails, RequestDies, InsertFile, DeleteRow
<1>8. CASE CommitComplete(r) \/ CommitRetry(r)
  BY <1>1, <1>8, CompleteStep, RetryStep DEF Inserted
<1> QED
  BY <1>2, <1>3, <1>4, <1>5, <1>6, <1>7, <1>8 DEF RequestOnly, RequestCommits

\* Only an approval makes an approved blueprint.
LEMMA BlueprintStep ==
  ASSUME [Next]_vars, blueprint' = "approved", ~ApproveBlueprint
  PROVE  UNCHANGED <<blueprint, basis>>
<1>1. ASSUME NEW r \in Requests, RequestCommits(r) PROVE UNCHANGED <<blueprint, basis>>
  BY <1>1
  DEF RequestCommits, InsertFile, CommitComplete, CommitRetry, DeleteRow, BlueprintAfter
<1>2. ASSUME NEW w \in Workers, WorkerCommits(w) PROVE UNCHANGED <<blueprint, basis>>
  BY <1>2 DEF WorkerCommits, Succeed, RejectDocument, FailArtifact
<1> QED
  BY <1>1, <1>2, StepCases, RequestOnlyFrame, WorkerOnlyFrame DEF ClientPut, vars, dbVars

LEMMA MarkNext == TypeOK /\ IngestionInv /\ [Next]_vars => MarkInv'
<1> SUFFICES ASSUME TypeOK, RequestInv, RoomInv, MarkInv, [Next]_vars,
                    blueprint' = "approved", ~basis'.raced, NEW s \in Requests,
                    op'[s] \in {"complete", "delete"}, rpc'[s] \in Changing
             PROVE  marked'[s]
  BY DEF IngestionInv, MarkInv, Changing
<1>1. CASE ApproveBlueprint
  <2>1. rpc[s] \in Changing
    BY <1>1 DEF ApproveBlueprint, reqVars
  <2> QED
    BY <1>1, <2>1 DEF ApproveBlueprint
<1>2. CASE ~ApproveBlueprint
  <2>1. UNCHANGED <<blueprint, basis>>
    BY <1>2, BlueprintStep
  <2>2. CASE rpc'[s] = rpc[s] /\ op'[s] = op[s] /\ marked'[s] = marked[s]
    BY <2>1, <2>2 DEF MarkInv
  <2>3. ASSUME NEW r \in Requests, RequestOnly(r) \/ RequestCommits(r) PROVE marked'[s]
    <3>1. CASE r = s
      BY <2>1, <2>3, <3>1, ChangingStep DEF MarkInv
    <3>2. CASE r # s
      BY <2>2, <2>3, <3>2, RequestFrame
    <3> QED
      BY <3>1, <3>2
  <2> QED
    BY <1>2, <2>2, <2>3, StepCases, WorkerFrame DEF ClientPut, reqVars, vars
<1> QED
  BY <1>1, <1>2

LEMMA ApprovalNext == TypeOK /\ IngestionInv /\ [Next]_vars => ApprovalCoversFiles'
<1> SUFFICES ASSUME TypeOK, RequestInv, RoomInv, JobInv, WorkerInv, MarkInv,
                    ApprovalCoversFiles, [Next]_vars,
                    blueprint' = "approved", ~basis'.raced
             PROVE  Complete' = basis'.files
  BY DEF IngestionInv, ApprovalCoversFiles
<1>1. CASE ApproveBlueprint
  BY <1>1 DEF ApproveBlueprint, Complete
<1>2. CASE ~ApproveBlueprint
  <2>1. UNCHANGED <<blueprint, basis>>
    BY <1>2, BlueprintStep
  <2>2. Complete' = Complete => Complete' = basis'.files
    BY <2>1 DEF ApprovalCoversFiles
  <2>3. ASSUME NEW r \in Requests, BlueprintAfter(r), op[r] \in {"complete", "delete"},
               rpc[r] \in Changing
        PROVE  FALSE
    BY <2>1, <2>3 DEF MarkInv, BlueprintAfter
  <2>4. ASSUME NEW r \in Requests, RequestCommits(r) PROVE Complete' = Complete
    <3>1. CASE InsertFile(r)
      BY <3>1 DEF InsertFile, FreshFiles, Complete, TypeOK
    <3>2. CASE CommitComplete(r)
      BY <2>3, <3>2, CompleteStep DEF Complete, dbVars, At, Changing
    <3>3. CASE CommitRetry(r)
      BY <3>3 DEF CommitRetry, Complete
    <3>4. CASE DeleteRow(r)
      BY <2>3, <3>4, DeleteStep DEF At, Changing
    <3> QED
      BY <2>4, <3>1, <3>2, <3>3, <3>4 DEF RequestCommits
  <2>5. ASSUME NEW w \in Workers, WorkerCommits(w) PROVE Complete' = Complete
    BY <2>5, WorkerStep DEF Complete
  <2>6. UNCHANGED upload => Complete' = Complete
    BY DEF Complete
  <2> QED
    BY <1>2, <2>2, <2>4, <2>5, <2>6, StepCases, RequestOnlyFrame, WorkerOnlyFrame
    DEF ClientPut, vars, dbVars
<1> QED
  BY <1>1, <1>2

LEMMA UploadedNext == TypeOK /\ IngestionInv /\ [Next]_vars => UploadedHasJob'
<1> SUFFICES ASSUME TypeOK, RequestInv, RoomInv, JobInv, WorkerInv, UploadedHasJob,
                    [Next]_vars, NEW a \in Artifacts, upload'[a] = "uploaded"
             PROVE  JobsOf(a)' # {}
  BY DEF IngestionInv, UploadedHasJob, Complete
<1> USE DEF FreshJobs, TypeOK
<1>1. ASSUME NEW j \in JobsOf(a), jobStatus'[j] # "deleted" PROVE JobsOf(a)' # {}
  <2>1. j \in Jobs \ FreshJobs /\ jobArtifact[j] = a
    BY DEF JobsOf
  <2>2. j \in JobsOf(a)'
    BY <1>1, <2>1, RowsStay DEF JobsOf, RowsStayed
  <2> QED
    BY <2>2
<1>2. upload[a] = "uploaded" => \E j \in JobsOf(a) : jobStatus[j] # "deleted"
  BY DEF UploadedHasJob, Complete, JobsOf
<1>3. ASSUME upload[a] = "uploaded", \A j \in JobsOf(a) : jobStatus'[j] # "deleted"
      PROVE  JobsOf(a)' # {}
  BY <1>1, <1>2, <1>3
<1>4. \A j \in JobsOf(a) : j \in Jobs /\ jobStatus[j] \notin {"fresh", "deleted"}
  BY DEF JobsOf
<1>5. ASSUME NEW r \in Requests, RequestCommits(r) PROVE JobsOf(a)' # {}
  <2>1. CASE InsertFile(r)
    BY <1>3, <1>4, <2>1 DEF InsertFile
  <2>2. ASSUME Inserted(r, a) PROVE JobsOf(a)' # {}
    <3>1. NextJob \in JobsOf(a)'
      BY <2>2 DEF Inserted, JobsOf
    <3> QED
      BY <3>1
  <2>3. CASE CommitComplete(r)
    <3>1. CASE target[r] = a
      BY <1>3, <1>4, <2>2, <2>3, <3>1, CompleteStep DEF dbVars
    <3>2. CASE target[r] # a
      <4>1. upload[a] = "uploaded" /\ \A j \in JobsOf(a) : jobStatus'[j] # "deleted"
        BY <1>4, <2>3, <3>2, CompleteStep DEF Inserted, dbVars
      <4> QED
        BY <1>3, <4>1
    <3> QED
      BY <3>1, <3>2
  <2>4. CASE CommitRetry(r)
    <3>1. upload[a] = "uploaded" /\ \A j \in JobsOf(a) : jobStatus'[j] # "deleted"
      BY <1>4, <2>4, RetryStep DEF Inserted, dbVars
    <3> QED
      BY <1>3, <3>1
  <2>5. CASE DeleteRow(r)
    <3>1. target[r] # a /\ upload[a] = "uploaded"
      BY <2>5, DeleteStep
    <3>2. \A j \in JobsOf(a) : jobStatus'[j] # "deleted"
      BY <1>4, <2>5, <3>1, DeleteStep DEF JobsOf
    <3> QED
      BY <1>3, <3>1, <3>2
  <2> QED
    BY <1>5, <2>1, <2>3, <2>4, <2>5 DEF RequestCommits
<1>6. ASSUME NEW w \in Workers, WorkerCommits(w) PROVE JobsOf(a)' # {}
  BY <1>3, <1>4, <1>6, WorkerStep
<1>7. UNCHANGED <<upload, jobStatus>> => JobsOf(a)' # {}
  BY <1>3, <1>4
<1> QED
  BY <1>5, <1>6, <1>7, StepCases, RequestOnlyFrame, WorkerOnlyFrame
  DEF ClientPut, ApproveBlueprint, vars, dbVars

-----------------------------------------------------------------------------
(* What files and jobs show *)

\* StatusIsTrue in parts.
QueuedIsTrue ==
  \A a \in Artifacts :
    processing[a] = "queued" => \E j \in JobsOf(a) : jobStatus[j] = "queued"
ReadyIsTrue == \A a \in Artifacts : processing[a] = "ready" => content[a]
SuccessIsTrue == \A j \in Jobs : jobStatus[j] = "succeeded" => content[jobArtifact[j]]

LEMMA QueuedNext ==
  ASSUME TypeOK, RequestInv, RoomInv, JobInv, WorkerInv, QueuedIsTrue, [Next]_vars
  PROVE  QueuedIsTrue'
<1> SUFFICES ASSUME NEW a \in Artifacts, processing'[a] = "queued"
             PROVE  \E j \in JobsOf(a)' : jobStatus'[j] = "queued"
  BY DEF QueuedIsTrue
<1> USE DEF FreshJobs, TypeOK
<1>1. ASSUME NEW k \in Jobs, jobArtifact'[k] = a, jobStatus'[k] = "queued"
      PROVE  \E j \in JobsOf(a)' : jobStatus'[j] = "queued"
  BY <1>1 DEF JobsOf
<1>2. ASSUME processing[a] = "queued",
             \A j \in JobsOf(a) : jobStatus[j] = "queued" => jobStatus'[j] = "queued"
      PROVE  \E j \in JobsOf(a)' : jobStatus'[j] = "queued"
  <2>1. PICK k \in JobsOf(a) : jobStatus[k] = "queued"
    BY <1>2 DEF QueuedIsTrue
  <2>2. k \in Jobs /\ jobArtifact'[k] = a /\ jobStatus'[k] = "queued"
    BY <1>2, <2>1, RowsStay DEF JobsOf, RowsStayed
  <2> QED
    BY <1>1, <2>2
<1>3. \A j \in JobsOf(a) : j \in Jobs /\ jobArtifact[j] = a /\ jobStatus[j] # "fresh"
  BY DEF JobsOf
<1>4. ASSUME NEW r \in Requests, Inserted(r, target[r]),
             \/ processing' = processing
             \/ processing' = [processing EXCEPT ![target[r]] = "queued"]
      PROVE  \E j \in JobsOf(a)' : jobStatus'[j] = "queued"
  <2>1. CASE target[r] = a
    BY <1>1, <1>4, <2>1 DEF Inserted
  <2>2. CASE target[r] # a
    BY <1>2, <1>3, <1>4, <2>2 DEF Inserted
  <2> QED
    BY <2>1, <2>2
<1>5. ASSUME UNCHANGED <<processing, jobStatus>>
      PROVE  \E j \in JobsOf(a)' : jobStatus'[j] = "queued"
  BY <1>2, <1>5
<1>6. ASSUME NEW r \in Requests, RequestCommits(r)
      PROVE  \E j \in JobsOf(a)' : jobStatus'[j] = "queued"
  <2>1. CASE InsertFile(r)
    BY <1>5, <2>1 DEF InsertFile
  <2>2. CASE CommitComplete(r)
    BY <1>4, <1>5, <2>2, CompleteStep DEF dbVars
  <2>3. CASE CommitRetry(r)
    BY <1>4, <1>5, <2>3, RetryStep DEF dbVars
  <2>4. CASE DeleteRow(r)
    <3>1. target[r] # a /\ processing[a] = "queued"
      BY <2>4, DeleteStep
    <3>2. \A j \in JobsOf(a) : jobStatus'[j] = jobStatus[j]
      BY <1>3, <2>4, <3>1, DeleteStep DEF JobsOf
    <3> QED
      BY <1>2, <3>1, <3>2
  <2> QED
    BY <1>6, <2>1, <2>2, <2>3, <2>4 DEF RequestCommits
<1>7. ASSUME NEW w \in Workers, WorkerCommits(w)
      PROVE  \E j \in JobsOf(a)' : jobStatus'[j] = "queued"
  <2> DEFINE b == jobArtifact[msg[w].job]
  <2>1. a # b /\ processing[a] = "queued"
    BY <1>7, WorkerStep
  <2>2. \A j \in JobsOf(a) : jobStatus'[j] = jobStatus[j]
    BY <1>3, <1>7, <2>1, WorkerStep
  <2> QED
    BY <1>2, <2>1, <2>2
<1> QED
  BY <1>5, <1>6, <1>7, StepCases, RequestOnlyFrame, WorkerOnlyFrame
  DEF ClientPut, ApproveBlueprint, vars, dbVars

LEMMA ReadyNext ==
  ASSUME TypeOK, RequestInv, RoomInv, JobInv, WorkerInv, ReadyIsTrue, [Next]_vars
  PROVE  ReadyIsTrue'
<1> USE DEF TypeOK, ReadyIsTrue
<1>1. CASE UNCHANGED <<processing, content>>
  BY <1>1
<1>2. ASSUME NEW r \in Requests, RequestCommits(r) PROVE ReadyIsTrue'
  <2>1. CASE InsertFile(r)
    BY <1>1, <2>1 DEF InsertFile
  <2>2. CASE CommitComplete(r)
    BY <2>2, CompleteStep DEF dbVars
  <2>3. CASE CommitRetry(r)
    BY <2>3, RetryStep DEF dbVars
  <2>4. CASE DeleteRow(r)
    BY <2>4, DeleteStep
  <2> QED
    BY <1>2, <2>1, <2>2, <2>3, <2>4 DEF RequestCommits
<1>3. ASSUME NEW w \in Workers, WorkerCommits(w) PROVE ReadyIsTrue'
  BY <1>3, WorkerStep
<1> QED
  BY <1>1, <1>2, <1>3, StepCases, RequestOnlyFrame, WorkerOnlyFrame
  DEF ClientPut, ApproveBlueprint, vars, dbVars

LEMMA SuccessNext ==
  ASSUME TypeOK, RequestInv, RoomInv, JobInv, WorkerInv, SuccessIsTrue, [Next]_vars
  PROVE  SuccessIsTrue'
<1> SUFFICES ASSUME NEW j \in Jobs, jobStatus'[j] = "succeeded"
             PROVE  content'[jobArtifact'[j]]
  BY DEF SuccessIsTrue
<1> USE DEF TypeOK, FreshJobs
<1>1. CASE UNCHANGED <<jobStatus, jobArtifact, content>>
  BY <1>1 DEF SuccessIsTrue
<1>2. ASSUME NEW r \in Requests, Inserted(r, target[r]), content' = content
      PROVE  content'[jobArtifact'[j]]
  BY <1>2 DEF Inserted, SuccessIsTrue
<1>3. ASSUME NEW r \in Requests, RequestCommits(r) PROVE content'[jobArtifact'[j]]
  <2>1. CASE InsertFile(r)
    BY <1>1, <2>1 DEF InsertFile
  <2>2. CASE CommitComplete(r)
    BY <1>1, <1>2, <2>2, CompleteStep DEF dbVars
  <2>3. CASE CommitRetry(r)
    BY <1>1, <1>2, <2>3, RetryStep DEF dbVars
  <2>4. CASE DeleteRow(r)
    <3>1. j \notin JobsOf(target[r]) /\ jobStatus[j] = "succeeded"
      BY <2>4, DeleteStep
    <3>2. jobArtifact[j] \in Artifacts /\ jobArtifact[j] # target[r] /\ content[jobArtifact[j]]
      BY <3>1 DEF JobsOf, JobInv, SuccessIsTrue
    <3> QED
      BY <2>4, <3>2, DeleteStep
  <2> QED
    BY <1>3, <2>1, <2>2, <2>3, <2>4 DEF RequestCommits
<1>4. ASSUME NEW w \in Workers, WorkerCommits(w) PROVE content'[jobArtifact'[j]]
  <2> DEFINE k == msg[w].job
             b == jobArtifact[k]
  <2>1. /\ k \in Jobs /\ b \in Artifacts /\ jobArtifact' = jobArtifact
        /\ \/ content' = content /\ jobStatus' = [jobStatus EXCEPT ![k] = "failed"]
           \/ /\ content' = [content EXCEPT ![b] = TRUE]
              /\ jobStatus' = [jobStatus EXCEPT ![k] = "succeeded"]
    BY <1>4, WorkerStep
  <2> HIDE DEF k
  <2>2. CASE j = k
    BY <2>1, <2>2
  <2>3. CASE j # k
    <3>1. jobStatus[j] = "succeeded" /\ jobArtifact[j] \in Artifacts /\ content[jobArtifact[j]]
      BY <2>1, <2>3 DEF JobInv, SuccessIsTrue
    <3> QED
      BY <2>1, <3>1
  <2> QED
    BY <2>2, <2>3
<1> QED
  BY <1>1, <1>3, <1>4, StepCases, RequestOnlyFrame, WorkerOnlyFrame
  DEF ClientPut, ApproveBlueprint, vars, dbVars

LEMMA StatusNext == TypeOK /\ IngestionInv /\ [Next]_vars => StatusIsTrue'
<1> SUFFICES ASSUME TypeOK, IngestionInv, [Next]_vars PROVE StatusIsTrue'
  OBVIOUS
<1>1. QueuedIsTrue /\ ReadyIsTrue /\ SuccessIsTrue
  BY DEF IngestionInv, StatusIsTrue, QueuedIsTrue, ReadyIsTrue, SuccessIsTrue
<1>2. QueuedIsTrue' /\ ReadyIsTrue' /\ SuccessIsTrue'
  BY <1>1, QueuedNext, ReadyNext, SuccessNext DEF IngestionInv
<1> QED
  BY <1>2 DEF StatusIsTrue, QueuedIsTrue, ReadyIsTrue, SuccessIsTrue

-----------------------------------------------------------------------------
(* Delivery *)

\* A message that was on its way still is, unless it is no longer needed.
LEMMA TrackedByRequest ==
  ASSUME TypeOK, RequestInv, RoomInv, NEW j \in Jobs, NEW r \in Requests,
         RequestOnly(r) \/ RequestCommits(r), jobStatus'[j] = "queued", Tracked(j)
  PROVE  Tracked(j)'
<1>1. workerVars' = workerVars
  BY RequestFrame DEF workerVars
<1>2. CASE \E w \in Workers : wpc[w] # "idle" /\ msg[w].job = j
  BY <1>1, <1>2 DEF Tracked, workerVars
<1>3. queue \subseteq queue'
  BY DEF RequestOnly, BeginCreate, Begin, CountFiles, LoadForComplete, FindJob, Head,
         MarkStale, LoadForRetry, LoadForDelete, LockForDelete, DeleteObject, StorageFails,
         FailDelete, Dispatch, DispatchFails, RequestDies,
         RequestCommits, InsertFile, CommitComplete, CommitRetry, DeleteRow
<1>4. CASE \E m \in queue : m.job = j
  BY <1>3, <1>4 DEF Tracked
<1>5. CASE \E s \in Requests \ {r} : rpc[s] = "dispatch" /\ ticket[s] = j
  BY <1>5, RequestFrame DEF Tracked
<1>6. CASE rpc[r] = "dispatch" /\ ticket[r] = j
  <2>1. Dispatch(r) \/ DispatchFails(r) \/ RequestDies(r)
    BY <1>6
    DEF RequestOnly, BeginCreate, Begin, CountFiles, LoadForComplete, FindJob, Head,
        MarkStale, LoadForRetry, LoadForDelete, LockForDelete, DeleteObject, StorageFails,
        FailDelete, Deadlocked, At, RequestCommits, InsertFile, CommitComplete,
        CommitRetry, DeleteRow
  <2>2. CASE Dispatch(r)
    <3>1. [job |-> j, retries |-> 0] \in queue'
      BY <1>6, <2>2 DEF Dispatch
    <3> QED
      BY <3>1 DEF Tracked
  <2>3. CASE DispatchFails(r) \/ RequestDies(r)
    BY <1>6, <2>3 DEF DispatchFails, RequestDies, Tracked
  <2> QED
    BY <2>1, <2>2, <2>3
<1>7. CASE j \in lost
  <2>1. CASE Dispatch(r)
    <3>1. CASE ticket[r] = j
      BY <1>6, <2>1, <3>1 DEF Dispatch
    <3>2. CASE ticket[r] # j
      BY <1>7, <2>1, <3>2 DEF Dispatch, Tracked
    <3> QED
      BY <3>1, <3>2
  <2>2. CASE DeleteRow(r)
    <3>1. j \notin JobsOf(target[r])
      BY <2>2, DeleteStep
    <3> QED
      BY <1>7, <2>2, <3>1 DEF DeleteRow, Tracked
  <2>3. CASE ~Dispatch(r) /\ ~DeleteRow(r)
    <3>1. lost \subseteq lost'
      BY <2>3
      DEF RequestOnly, BeginCreate, Begin, CountFiles, LoadForComplete, FindJob, Head,
          MarkStale, LoadForRetry, LoadForDelete, LockForDelete, DeleteObject, StorageFails,
          FailDelete, DispatchFails, RequestDies,
          RequestCommits, InsertFile, CommitComplete, CommitRetry
    <3> QED
      BY <1>7, <3>1 DEF Tracked
  <2> QED
    BY <2>1, <2>2, <2>3
<1> QED
  BY <1>2, <1>4, <1>5, <1>6, <1>7 DEF Tracked

LEMMA TrackedByWorker ==
  ASSUME TypeOK, JobInv, WorkerInv, NEW j \in Jobs, NEW w \in Workers,
         WorkerOnly(w) \/ WorkerCommits(w), jobStatus[j] = "queued", Tracked(j)
  PROVE  Tracked(j)'
<1>1. UNCHANGED <<rpc, ticket>>
  BY WorkerFrame DEF reqVars
<1>2. CASE \E r \in Requests : rpc[r] = "dispatch" /\ ticket[r] = j
  BY <1>1, <1>2 DEF Tracked
<1>3. lost \subseteq lost'
  BY DEF WorkerOnly, WorkerCommits, Deliver, Take, LockJob, LockArtifact, FailTransiently,
         FailJob, Reraise, Ack, FailWorker, Abort, WorkerDies, Succeed, RejectDocument,
         FailArtifact
<1>4. CASE j \in lost
  BY <1>3, <1>4 DEF Tracked
<1>5. CASE \E v \in Workers \ {w} : wpc[v] # "idle" /\ msg[v].job = j
  BY <1>5, WorkerFrame DEF Tracked
<1>6. CASE wpc[w] # "idle" /\ msg[w].job = j
  <2>1. wpc[w] \notin {"raise", "ack"}
    BY <1>6 DEF WorkerInv
  <2>2. CASE LockJob(w) \/ LockArtifact(w) \/ FailTransiently(w) \/ FailJob(w)
    BY <1>6, <2>2
    DEF LockJob, LockArtifact, FailTransiently, FailJob, Move, Tracked, TypeOK
  <2>3. CASE WorkerCommits(w)
    BY <1>6, <2>3, WorkerStep DEF Tracked
  <2>4. CASE FailWorker(w) \/ Abort(w) \/ WorkerDies(w)
    BY <1>6, <2>4 DEF FailWorker, Abort, WorkerDies, Tracked
  <2>5. CASE Deliver(w) \/ Reraise(w) \/ Ack(w)
    BY <1>6, <2>1, <2>5 DEF Deliver, Take, Reraise, Ack
  <2> QED
    BY <2>2, <2>3, <2>4, <2>5 DEF WorkerOnly
<1>7. ASSUME NEW m \in queue, m.job = j PROVE Tracked(j)'
  <2>1. CASE Deliver(w)
    <3>1. PICK n \in queue : Take(w, n)
      BY <2>1 DEF Deliver
    <3>2. CASE n = m
      BY <1>7, <3>1, <3>2 DEF Take, Tracked, TypeOK
    <3>3. CASE n # m
      BY <1>7, <3>1, <3>3 DEF Take, Tracked
    <3> QED
      BY <3>2, <3>3
  <2>2. CASE ~Deliver(w)
    <3>1. m \in queue'
      BY <2>2
      DEF WorkerOnly, WorkerCommits, LockJob, LockArtifact, FailTransiently,
          FailJob, Reraise, Ack, FailWorker, Abort, WorkerDies, Succeed, RejectDocument,
          FailArtifact
    <3> QED
      BY <1>7, <3>1 DEF Tracked
  <2> QED
    BY <2>1, <2>2
<1> QED
  BY <1>2, <1>4, <1>5, <1>6, <1>7 DEF Tracked

\* A job that becomes queued has just been inserted.
LEMMA NewlyQueued ==
  ASSUME TypeOK, RequestInv, RoomInv, JobInv, WorkerInv, [Next]_vars,
         NEW j \in Jobs, jobStatus'[j] = "queued", jobStatus[j] # "queued"
  PROVE  \E r \in Requests : rpc'[r] = "dispatch" /\ ticket'[r] = j
<1> USE DEF TypeOK
<1>1. ASSUME NEW r \in Requests, RequestCommits(r)
      PROVE  \E s \in Requests : rpc'[s] = "dispatch" /\ ticket'[s] = j
  <2>1. CASE InsertFile(r)
    BY <2>1 DEF InsertFile
  <2>2. Inserted(r, target[r]) => rpc'[r] = "dispatch" /\ ticket'[r] = j
    BY DEF Inserted
  <2>3. CASE CommitComplete(r)
    BY <2>2, <2>3, CompleteStep DEF dbVars
  <2>4. CASE CommitRetry(r)
    BY <2>2, <2>4, RetryStep DEF dbVars
  <2>5. CASE DeleteRow(r)
    BY <2>5, DeleteStep
  <2> QED
    BY <1>1, <2>1, <2>3, <2>4, <2>5 DEF RequestCommits
<1>2. ASSUME NEW w \in Workers, WorkerCommits(w) PROVE FALSE
  BY <1>2, WorkerStep
<1> QED
  BY <1>1, <1>2, StepCases, RequestOnlyFrame, WorkerOnlyFrame
  DEF ClientPut, ApproveBlueprint, vars, dbVars

LEMMA TrackedNext == TypeOK /\ IngestionInv /\ [Next]_vars => JobsTracked'
<1> SUFFICES ASSUME TypeOK, RequestInv, RoomInv, JobInv, WorkerInv, JobsTracked,
                    [Next]_vars, NEW j \in Jobs, jobStatus'[j] = "queued"
             PROVE  Tracked(j)'
  BY DEF IngestionInv, JobsTracked
<1>1. CASE jobStatus[j] # "queued"
  BY <1>1, NewlyQueued DEF Tracked
<1>2. CASE jobStatus[j] = "queued"
  <2>1. Tracked(j)
    BY <1>2 DEF JobsTracked
  <2>2. CASE UNCHANGED <<lost, queue, wpc, msg, rpc, ticket>>
    BY <2>1, <2>2 DEF Tracked
  <2> QED
    BY <1>2, <2>1, <2>2, TrackedByRequest, TrackedByWorker, StepCases
    DEF ClientPut, ApproveBlueprint, vars, dbVars, reqVars, workerVars
<1> QED
  BY <1>1, <1>2

-----------------------------------------------------------------------------
(* Row locks of a file *)

\* A worker that holds a file after a step held it before, or has just taken
\* the lock; likewise a deletion.
LEMMA WorkerTakes ==
  ASSUME TypeOK, RequestInv, RoomInv, JobInv, WorkerInv, [Next]_vars,
         NEW v \in Workers, NEW a \in Artifacts, WorkerHoldsArtifact(v, a)'
  PROVE  \/ WorkerHoldsArtifact(v, a)
         \/ LockArtifact(v) /\ ArtifactFree(a)
<1>1. wpc'[v] = "process" /\ jobArtifact'[msg'[v].job] = a
  BY DEF WorkerHoldsArtifact
<1>2. wpc[v] # "idle" => msg[v].job \in Jobs \ FreshJobs
                         /\ jobArtifact'[msg[v].job] = jobArtifact[msg[v].job]
  BY RowsStay DEF WorkerInv, Message, FreshJobs, RowsStayed
<1>3. CASE wpc'[v] = wpc[v] /\ msg'[v] = msg[v]
  BY <1>1, <1>2, <1>3 DEF WorkerHoldsArtifact
<1>4. CASE WorkerOnly(v)
  <2>1. wpc[v] = "lock_artifact" /\ msg'[v] = msg[v] /\ LockArtifact(v)
    BY <1>1, <1>4
    DEF WorkerOnly, Deliver, Take, LockJob, LockArtifact, FailTransiently, FailJob,
        Reraise, Ack, FailWorker, Abort, WorkerDies, Move, Release, TypeOK
  <2> QED
    BY <1>1, <1>2, <2>1 DEF LockArtifact
<1>5. CASE WorkerCommits(v)
  BY <1>1, <1>5, WorkerStep
<1> QED
  BY <1>3, <1>4, <1>5, StepCases, RequestFrame, WorkerFrame
  DEF ClientPut, ApproveBlueprint, vars, workerVars

LEMMA RequestTakes ==
  ASSUME TypeOK, RequestInv, RoomInv, [Next]_vars,
         NEW s \in Requests, NEW a \in Artifacts, RequestHoldsArtifact(s, a)'
  PROVE  \/ RequestHoldsArtifact(s, a)
         \/ LockForDelete(s) /\ ArtifactFree(a)
<1>1. rpc'[s] \in {"delete_object", "delete_row"} /\ target'[s] = a
  BY DEF RequestHoldsArtifact
<1>2. CASE rpc'[s] = rpc[s] /\ target'[s] = target[s]
  BY <1>1, <1>2 DEF RequestHoldsArtifact
<1>3. ~Ended(s) /\ ~Finish(s)
  BY <1>1, FinishEnds DEF Ended
<1>4. ASSUME RequestOnly(s) \/ RequestCommits(s)
      PROVE  \/ RequestHoldsArtifact(s, a)
             \/ LockForDelete(s) /\ ArtifactFree(a)
  <2>1. LockForDelete(s) \/ DeleteObject(s)
    <3>1. ~BeginCreate(s) /\ ~Begin(s)
      BY <1>1 DEF BeginCreate, Begin, TypeOK
    <3>2. ~CountFiles(s) /\ ~LoadForComplete(s) /\ ~FindJob(s) /\ ~Head(s) /\ ~MarkStale(s)
      BY <1>1, <1>3
      DEF CountFiles, LoadForComplete, FindJob, Head, MarkStale, Goto, TypeOK
    <3>3. ~LoadForRetry(s) /\ ~LoadForDelete(s) /\ ~StorageFails(s) /\ ~FailDelete(s)
          /\ ~Dispatch(s) /\ ~DispatchFails(s) /\ ~RequestDies(s)
      BY <1>1, <1>3
      DEF LoadForRetry, LoadForDelete, StorageFails, FailDelete, Dispatch, DispatchFails,
          RequestDies, Goto, TypeOK
    <3>4. ~InsertFile(s) /\ ~DeleteRow(s)
      BY <1>3 DEF InsertFile, DeleteRow
    <3>5. ~CommitComplete(s) /\ ~CommitRetry(s)
      BY <1>1, <1>3, CompleteStep, RetryStep DEF Inserted
    <3> QED
      BY <1>4, <3>1, <3>2, <3>3, <3>4, <3>5 DEF RequestOnly, RequestCommits
  <2> QED
    BY <1>1, <1>3, <2>1
    DEF LockForDelete, DeleteObject, Goto, At, RequestHoldsArtifact, TypeOK
<1> QED
  BY <1>2, <1>4, StepCases, RequestFrame, WorkerFrame
  DEF ClientPut, ApproveBlueprint, vars, reqVars

LEMMA ProcessorNext == TypeOK /\ IngestionInv /\ [Next]_vars => OneProcessor'
<1> SUFFICES ASSUME TypeOK, RequestInv, RoomInv, JobInv, WorkerInv, OneProcessor, [Next]_vars,
                    JobInv', WorkerInv',
                    NEW w \in Workers, NEW a, a = jobArtifact'[msg'[w].job],
                    wpc'[w] = "process"
             PROVE  /\ upload'[a] = "uploaded"
                    /\ \A v \in Workers \ {w} : ~WorkerHoldsArtifact(v, a)'
                    /\ \A r \in Requests : ~RequestHoldsArtifact(r, a)'
  BY JobNext, WorkerNext DEF IngestionInv, OneProcessor, WorkerHoldsArtifact, RequestHoldsArtifact
<1>1. a \in Artifacts /\ upload'[a] = "uploaded"
  BY DEF JobInv, WorkerInv, Message, FreshJobs
<1>2. WorkerHoldsArtifact(w, a)'
  BY DEF WorkerHoldsArtifact
<1>3. WorkerHoldsArtifact(w, a) \/ (LockArtifact(w) /\ ArtifactFree(a))
  BY <1>1, <1>2, WorkerTakes
<1>4. \A v \in Workers \ {w} : ~(WorkerHoldsArtifact(w, a) /\ WorkerHoldsArtifact(v, a))
  BY DEF OneProcessor, WorkerHoldsArtifact
<1>5. \A r \in Requests : ~(WorkerHoldsArtifact(w, a) /\ RequestHoldsArtifact(r, a))
  BY DEF OneProcessor, WorkerHoldsArtifact
<1>6. ASSUME NEW v \in Workers \ {w}, WorkerHoldsArtifact(v, a)' PROVE FALSE
  <2>1. WorkerHoldsArtifact(v, a) \/ (LockArtifact(v) /\ ArtifactFree(a))
    BY <1>1, <1>6, WorkerTakes
  <2>2. ~(LockArtifact(v) /\ LockArtifact(w))
    BY DEF LockArtifact, Move, TypeOK
  <2> QED
    BY <1>3, <1>4, <2>1, <2>2 DEF ArtifactFree
<1>7. ASSUME NEW r \in Requests, RequestHoldsArtifact(r, a)' PROVE FALSE
  <2>1. RequestHoldsArtifact(r, a) \/ (LockForDelete(r) /\ ArtifactFree(a))
    BY <1>1, <1>7, RequestTakes
  <2>2. ~(LockForDelete(r) /\ LockArtifact(w))
    BY DEF LockForDelete, LockArtifact, Move, workerVars, TypeOK
  <2> QED
    BY <1>3, <1>5, <2>1, <2>2 DEF ArtifactFree
<1> QED
  BY <1>1, <1>6, <1>7

-----------------------------------------------------------------------------
(* The theorems *)

LEMMA IngestionInit == Init => IngestionInv
<1> SUFFICES ASSUME Init PROVE IngestionInv
  OBVIOUS
<1>1. RequestInv
  BY CountsAssumption DEF Init, RequestInv
<1>2. RoomInv
  <2>1. NeedJob = {} /\ FreshJobs \subseteq Jobs
    BY DEF Init, NeedJob, FreshJobs
  <2>2. Cardinality(NeedJob) = 0 /\ Cardinality(FreshJobs) \in Nat
    BY <2>1, FS_EmptySet, FiniteSets
  <2> QED
    BY <2>2 DEF RoomInv
<1>3. JobInv /\ WorkerInv /\ MarkInv
  BY DEF Init, JobInv, WorkerInv, MarkInv, FreshJobs
<1>4. UploadedHasJob /\ StatusIsTrue /\ JobsTracked
  BY DEF Init, UploadedHasJob, Complete, StatusIsTrue, JobsTracked
<1>5. OneProcessor /\ ApprovalCoversFiles
  BY DEF Init, OneProcessor, ApprovalCoversFiles
<1> QED
  BY <1>1, <1>2, <1>3, <1>4, <1>5 DEF IngestionInv

LEMMA IngestionNext == TypeOK /\ IngestionInv /\ [Next]_vars => IngestionInv'
BY RequestNext, RoomNext, JobNext, WorkerNext, MarkNext, UploadedNext, StatusNext,
   TrackedNext, ProcessorNext, ApprovalNext
DEF IngestionInv

LEMMA TypesAndInvariant == Spec => [](TypeOK /\ IngestionInv)
<1>1. Init => TypeOK /\ IngestionInv
  BY TypeInit, IngestionInit
<1>2. TypeOK /\ IngestionInv /\ [Next]_vars => TypeOK' /\ IngestionInv'
  BY TypeNext, IngestionNext
<1> QED
  BY <1>1, <1>2, PTL DEF Spec

\* Rows, requests, messages and workers keep their types: no message is sent
\* again beyond its retries, and no request that needs a job row is without.
THEOREM TypeCorrect == Spec => []TypeOK
BY TypesAndInvariant, PTL

\* The invariant that ties program counters to rows and locks.
THEOREM Invariance == Spec => []IngestionInv
BY TypesAndInvariant, PTL

\* A file whose upload is complete has a job, whatever completions, retries,
\* deletions and workers overlap (complete_upload, delete_artifact).
THEOREM UploadedFilesHaveJobs == Spec => []UploadedHasJob
<1>1. IngestionInv => UploadedHasJob
  BY DEF IngestionInv
<1> QED
  BY <1>1, Invariance, PTL

\* What files and jobs show is true of the stored chunks and of the queue
\* (process_job, record_transient_failure, retry_artifact).
THEOREM StatusStaysTrue == Spec => []StatusIsTrue
<1>1. IngestionInv => StatusIsTrue
  BY DEF IngestionInv
<1> QED
  BY <1>1, Invariance, PTL

\* Both of the above: the states of files and jobs agree in every reachable state.
THEOREM FileStatesStayTrue == Spec => []FileStatesTrue
<1>1. IngestionInv => FileStatesTrue
  BY DEF IngestionInv, FileStatesTrue
<1> QED
  BY <1>1, Invariance, PTL

\* A queued job has a message, at the broker, at a worker or about to be sent,
\* unless it is known to be lost (best_effort_dispatch, ingest_artifact).
THEOREM QueuedJobsAreTracked == Spec => []JobsTracked
<1>1. IngestionInv => JobsTracked
  BY DEF IngestionInv
<1> QED
  BY <1>1, Invariance, PTL

\* The two row locks are enough: one worker processes a file at a time, and
\* none while it is deleted (process_job, delete_artifact).
THEOREM OneWorkerPerFile == Spec => []OneProcessor
<1>1. IngestionInv => OneProcessor
  BY DEF IngestionInv
<1> QED
  BY <1>1, Invariance, PTL

\* An approval that nothing overlapped covers the complete files for as long as
\* it holds (mark_exam_blueprints_stale in complete_upload, delete_artifact).
THEOREM ApprovalsCoverFiles == Spec => []ApprovalCoversFiles
<1>1. IngestionInv => ApprovalCoversFiles
  BY DEF IngestionInv
<1> QED
  BY <1>1, Invariance, PTL
=============================================================================
