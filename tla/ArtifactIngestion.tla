-------------------------- MODULE ArtifactIngestion --------------------------
(***************************************************************************)
(* The files of one exam: upload to object storage, ingestion by background*)
(* workers, retry and deletion (app/modules/artifacts behind               *)
(* app/api/routes/artifacts.py).                                           *)
(*                                                                         *)
(* HTTP requests write rows of PostgreSQL and then, after the commit, send *)
(* a job to the Redis broker.  The broker delivers at least once.  A worker*)
(* runs a job in one transaction that locks the job and then the artifact; *)
(* what it only flushes (RUNNING, PROCESSING) nobody else can read, and so *)
(* does not appear here.  A deletion locks the artifact and then its jobs: *)
(* PostgreSQL breaks the deadlocks this makes by failing one of the two.   *)
(***************************************************************************)
EXTENDS Naturals, FiniteSets

CONSTANTS
  Artifacts,    \* identities of files (bounds the rows)
  MaxJobs,      \* identities of processing jobs (bounds the rows)
  Requests,     \* HTTP requests that can be in flight together
  Workers,      \* threads of the Dramatiq workers
  MaxFiles,     \* settings.artifact_max_files_per_exam
  MaxRetries,   \* retries of the Dramatiq actor: 3 in tasks.py
  MaxCrashes    \* worker crashes (TLC bound)

ASSUME CountsAssumption ==
  MaxJobs \in Nat /\ MaxFiles \in Nat \ {0} /\ MaxRetries \in Nat /\ MaxCrashes \in Nat
ASSUME ProcessesAssumption ==
  IsFiniteSet(Artifacts) /\ IsFiniteSet(Requests) /\ IsFiniteSet(Workers)

Jobs == 1..MaxJobs

VARIABLES
  (* PostgreSQL *)
  upload,      \* artifacts.upload_status, "fresh" before the row, "deleted" after
  processing,  \* artifacts.processing_status
  content,     \* whether the pages and chunks of the artifact are there
  jobArtifact, \* the artifact of a job
  jobStatus,   \* artifact_processing_jobs.status, likewise
  blueprint,   \* the exam's reviewed blueprint: "none", "approved", "stale"
  (* Object storage and the broker *)
  object,      \* what is stored under the artifact's key
  queue,       \* messages of the broker, with the retries so far
  (* HTTP requests *)
  rpc, op, target,
  seen,        \* the artifact's processing_status when the request loaded it
  marked,      \* the request has marked the approved blueprint stale
  ticket,      \* the job to send to the broker
  (* Workers *)
  wpc, msg, crashes,
  (* History *)
  lost,        \* jobs whose message was not sent or was dropped, until it is sent
  basis        \* of the approved blueprint: the complete files at the approval,
               \* and whether a request was changing them

dbVars == <<upload, processing, content, jobArtifact, jobStatus, blueprint, basis>>
reqVars == <<rpc, op, target, seen, marked, ticket>>
workerVars == <<wpc, msg, crashes>>
vars == <<dbVars, object, queue, reqVars, workerVars, lost>>

-----------------------------------------------------------------------------
(* Types *)

Upload == {"fresh", "pending", "uploaded", "deleted"}
Processing == {"not_queued", "queued", "ready", "failed"}
JobStatus == {"fresh", "queued", "succeeded", "failed", "deleted"}
Object == {"none", "announced", "mismatched"}
Message == [job : Jobs, retries : 0..MaxRetries]
NoJob == 0
NoBasis == [files |-> {}, raced |-> FALSE]
NoMessage == [job |-> NoJob, retries |-> 0]
RPC == {"idle", "count", "insert", "load", "find_job", "head", "mark", "write",
        "lock_row", "delete_object", "delete_row", "dispatch"}
WPC == {"idle", "lock_job", "lock_artifact", "process", "fail_job",
        "fail_artifact", "raise", "ack"}

TypeOK ==
  /\ upload \in [Artifacts -> Upload]
  /\ processing \in [Artifacts -> Processing]
  /\ content \in [Artifacts -> BOOLEAN]
  /\ jobArtifact \in [Jobs -> Artifacts \cup {NoJob}]
  /\ jobStatus \in [Jobs -> JobStatus]
  /\ blueprint \in {"none", "approved", "stale"}
  /\ object \in [Artifacts -> Object]
  /\ queue \subseteq Message
  /\ rpc \in [Requests -> RPC]
  /\ op \in [Requests -> {"none", "create", "complete", "retry", "delete"}]
  /\ target \in [Requests -> Artifacts \cup {NoJob}]
  /\ seen \in [Requests -> Processing]
  /\ marked \in [Requests -> BOOLEAN]
  /\ ticket \in [Requests -> Jobs \cup {NoJob}]
  /\ wpc \in [Workers -> WPC]
  /\ msg \in [Workers -> Message \cup {NoMessage}]
  /\ crashes \in 0..MaxCrashes
  /\ lost \subseteq Jobs
  /\ basis \in [files : SUBSET Artifacts, raced : BOOLEAN]

Init ==
  /\ upload = [a \in Artifacts |-> "fresh"]
  /\ processing = [a \in Artifacts |-> "not_queued"]
  /\ content = [a \in Artifacts |-> FALSE]
  /\ jobArtifact = [j \in Jobs |-> NoJob]
  /\ jobStatus = [j \in Jobs |-> "fresh"]
  /\ blueprint = "none"
  /\ object = [a \in Artifacts |-> "none"]
  /\ queue = {}
  /\ rpc = [r \in Requests |-> "idle"]
  /\ op = [r \in Requests |-> "none"]
  /\ target = [r \in Requests |-> NoJob]
  /\ seen = [r \in Requests |-> "not_queued"]
  /\ marked = [r \in Requests |-> FALSE]
  /\ ticket = [r \in Requests |-> NoJob]
  /\ wpc = [w \in Workers |-> "idle"]
  /\ msg = [w \in Workers |-> NoMessage]
  /\ crashes = 0
  /\ lost = {}
  /\ basis = NoBasis

-----------------------------------------------------------------------------
(* Rows and row locks *)

Files == {a \in Artifacts : upload[a] \in {"pending", "uploaded"}}
Complete == {a \in Artifacts : upload[a] = "uploaded"}
FreshFiles == {a \in Artifacts : upload[a] = "fresh"}
FreshJobs == {j \in Jobs : jobStatus[j] = "fresh"}
NextJob == CHOOSE j \in FreshJobs : \A k \in FreshJobs : j <= k
JobsOf(a) == {j \in Jobs : jobArtifact[j] = a /\ jobStatus[j] \notin {"fresh", "deleted"}}

WorkerHoldsJob(w, j) ==
  wpc[w] \in {"lock_artifact", "process", "fail_artifact"} /\ msg[w].job = j
WorkerHoldsArtifact(w, a) == wpc[w] = "process" /\ jobArtifact[msg[w].job] = a
RequestHoldsArtifact(r, a) == rpc[r] \in {"delete_object", "delete_row"} /\ target[r] = a

JobFree(j) == \A w \in Workers : ~WorkerHoldsJob(w, j)
BlueprintFree == \A r \in Requests : ~marked[r]
ArtifactFree(a) == /\ \A w \in Workers : ~WorkerHoldsArtifact(w, a)
                   /\ \A r \in Requests : ~RequestHoldsArtifact(r, a)

\* INSERT of a queued job, whose message is sent after the commit.
AddJob(r, a) ==
  /\ jobArtifact' = [jobArtifact EXCEPT ![NextJob] = a]
  /\ jobStatus' = [jobStatus EXCEPT ![NextJob] = "queued"]
  /\ ticket' = [ticket EXCEPT ![r] = NextJob]
  /\ rpc' = [rpc EXCEPT ![r] = "dispatch"]
  /\ UNCHANGED <<op, target, seen, marked>>

\* The handler returns or raises; what it has not committed is rolled back.
Finish(r) ==
  /\ rpc' = [rpc EXCEPT ![r] = "idle"]
  /\ op' = [op EXCEPT ![r] = "none"]
  /\ target' = [target EXCEPT ![r] = NoJob]
  /\ seen' = [seen EXCEPT ![r] = "not_queued"]
  /\ marked' = [marked EXCEPT ![r] = FALSE]
  /\ ticket' = [ticket EXCEPT ![r] = NoJob]

Goto(r, location) ==
  /\ rpc' = [rpc EXCEPT ![r] = location]
  /\ UNCHANGED <<op, target, seen, marked, ticket>>

At(r, location, operation) == rpc[r] = location /\ op[r] = operation

-----------------------------------------------------------------------------
(* POST /exams/{id}/artifacts/uploads: create_upload *)

\* Bounded so that every upload in flight finds an identity.
BeginCreate(r) ==
  /\ rpc[r] = "idle"
  /\ Cardinality({s \in Requests : op[s] = "create"}) < Cardinality(FreshFiles)
  /\ rpc' = [rpc EXCEPT ![r] = "count"]
  /\ op' = [op EXCEPT ![r] = "create"]
  /\ UNCHANGED <<dbVars, object, queue, target, seen, marked, ticket, workerVars, lost>>

CountFiles(r) ==
  /\ At(r, "count", "create")
  /\ IF Cardinality(Files) >= MaxFiles THEN Finish(r) ELSE Goto(r, "insert")
  /\ UNCHANGED <<dbVars, object, queue, workerVars, lost>>

InsertFile(r) ==
  /\ At(r, "insert", "create")
  /\ \E a \in FreshFiles : upload' = [upload EXCEPT ![a] = "pending"]
  /\ Finish(r)
  /\ UNCHANGED <<processing, content, jobArtifact, jobStatus, blueprint, basis,
                 object, queue, workerVars, lost>>

\* The client puts a file to the presigned URL, the announced one or another.
\* The URL outlives the completion, so it may do so again.
ClientPut(a) ==
  /\ upload[a] \in {"pending", "uploaded"}
  /\ \E o \in Object \ {"none"} : object' = [object EXCEPT ![a] = o]
  /\ UNCHANGED <<dbVars, queue, reqVars, workerVars, lost>>

-----------------------------------------------------------------------------
(* POST /artifacts/{id}/complete, .../retry, DELETE /artifacts/{id} *)

\* Bounded so that every request in flight that needs a job finds an identity.
JobsLeft == Cardinality({r \in Requests : op[r] \in {"complete", "retry"}
                                           /\ ticket[r] = NoJob})
              < Cardinality(FreshJobs)

Begin(r) ==
  /\ rpc[r] = "idle"
  /\ \E a \in Files, operation \in {"complete", "retry", "delete"} :
       /\ \/ operation = "delete"
          \/ operation = "complete" /\ upload[a] = "uploaded"
          \/ JobsLeft
       /\ op' = [op EXCEPT ![r] = operation]
       /\ target' = [target EXCEPT ![r] = a]
  /\ rpc' = [rpc EXCEPT ![r] = "load"]
  /\ UNCHANGED <<dbVars, object, queue, seen, marked, ticket, workerVars, lost>>

\* complete_upload: an upload that is complete already has its latest job
\* looked up and sent again.
LoadForComplete(r) ==
  /\ At(r, "load", "complete")
  /\ CASE upload[target[r]] = "uploaded" -> Goto(r, "find_job")
       [] upload[target[r]] = "pending"  -> Goto(r, "head")
       [] OTHER                          -> Finish(r)
  /\ UNCHANGED <<dbVars, object, queue, workerVars, lost>>

FindJob(r) ==
  /\ At(r, "find_job", "complete")
  /\ LET jobs == JobsOf(target[r]) IN
       IF jobs = {}
         THEN Finish(r)
         ELSE /\ ticket' = [ticket EXCEPT ![r] = CHOOSE j \in jobs : \A k \in jobs : k <= j]
              /\ rpc' = [rpc EXCEPT ![r] = "dispatch"]
              /\ UNCHANGED <<op, target, seen, marked>>
  /\ UNCHANGED <<dbVars, object, queue, workerVars, lost>>

\* The object must be there, with the announced size and type.
Head(r) ==
  /\ At(r, "head", "complete")
  /\ IF object[target[r]] \in {"none", "mismatched"} THEN Finish(r) ELSE Goto(r, "mark")
  /\ UNCHANGED <<dbVars, object, queue, workerVars, lost>>

\* Mutant: only new files end an approval.
MarkStaleOnUpload(r) ==
  /\ rpc[r] = "mark"
  /\ BlueprintFree
  /\ marked' = [marked EXCEPT ![r] = op[r] = "complete" /\ blueprint = "approved"]
  /\ rpc' = [rpc EXCEPT ![r] = IF op[r] = "delete" THEN "lock_row" ELSE "write"]
  /\ UNCHANGED <<dbVars, object, queue, op, target, seen, ticket, workerVars, lost>>

\* mark_exam_blueprints_stale, in the transaction of a completion or deletion.
\* The UPDATE is executed before the artifact is flushed, and waits for whoever
\* has updated the approved blueprint and not committed.
MarkStale(r) ==
  /\ rpc[r] = "mark"
  /\ BlueprintFree
  /\ marked' = [marked EXCEPT ![r] = blueprint = "approved"]
  /\ rpc' = [rpc EXCEPT ![r] = IF op[r] = "delete" THEN "lock_row" ELSE "write"]
  /\ UNCHANGED <<dbVars, object, queue, op, target, seen, ticket, workerVars, lost>>

\* Where a request has marked the blueprints and not yet committed.
Changing == {"write", "lock_row", "delete_object", "delete_row"}

BlueprintAfter(r) ==
  /\ blueprint' = IF marked[r] THEN "stale" ELSE blueprint
  /\ basis' = IF marked[r] THEN NoBasis ELSE basis

\* UPDATE of the artifact and INSERT of its job, then the commit.  The second
\* of two completions fails on the job's idempotency key; an artifact that has
\* been deleted fails the UPDATE.
CommitComplete(r) ==
  /\ At(r, "write", "complete")
  /\ LET a == target[r] IN
       /\ ArtifactFree(a)
       /\ IF upload[a] = "pending"
            THEN /\ upload' = [upload EXCEPT ![a] = "uploaded"]
                 /\ processing' = [processing EXCEPT ![a] = "queued"]
                 /\ BlueprintAfter(r)
                 /\ AddJob(r, a)
            ELSE /\ Finish(r)
                 /\ UNCHANGED <<upload, processing, jobArtifact, jobStatus, blueprint, basis>>
  /\ UNCHANGED <<content, object, queue, workerVars, lost>>

\* retry_artifact accepts every status that a committed artifact can have.
LoadForRetry(r) ==
  /\ At(r, "load", "retry")
  /\ IF upload[target[r]] = "uploaded"
       THEN /\ seen' = [seen EXCEPT ![r] = processing[target[r]]]
            /\ rpc' = [rpc EXCEPT ![r] = "write"]
            /\ UNCHANGED <<op, target, marked, ticket>>
       ELSE Finish(r)
  /\ UNCHANGED <<dbVars, object, queue, workerVars, lost>>

\* The flush writes the status only where it differs from the loaded one.  The
\* UPDATE, or the foreign key of the INSERT, waits for the artifact's lock.
CommitRetry(r) ==
  /\ At(r, "write", "retry")
  /\ LET a == target[r] IN
       /\ ArtifactFree(a)
       /\ IF upload[a] = "uploaded"
            THEN /\ processing' = IF seen[r] = "queued" THEN processing
                                  ELSE [processing EXCEPT ![a] = "queued"]
                 /\ AddJob(r, a)
            ELSE /\ Finish(r)
                 /\ UNCHANGED <<processing, jobArtifact, jobStatus>>
  /\ UNCHANGED <<upload, content, blueprint, basis, object, queue, workerVars, lost>>

LoadForDelete(r) ==
  /\ At(r, "load", "delete")
  /\ IF target[r] \in Files THEN Goto(r, "mark") ELSE Finish(r)
  /\ UNCHANGED <<dbVars, object, queue, workerVars, lost>>

\* UPDATE artifacts SET processing_status = 'deleting' takes the row lock.
LockForDelete(r) ==
  /\ At(r, "lock_row", "delete")
  /\ ArtifactFree(target[r])
  /\ IF target[r] \in Files THEN Goto(r, "delete_object") ELSE Finish(r)
  /\ UNCHANGED <<dbVars, object, queue, workerVars, lost>>

\* Mutant: the jobs are deleted in a transaction of their own.
DeleteJobsFirst(r) ==
  /\ At(r, "delete_object", "delete")
  /\ object' = [object EXCEPT ![target[r]] = "none"]
  /\ jobStatus' = [j \in Jobs |-> IF j \in JobsOf(target[r]) THEN "deleted" ELSE jobStatus[j]]
  /\ Goto(r, "delete_row")
  /\ UNCHANGED <<upload, processing, content, jobArtifact, blueprint, basis,
                 queue, workerVars, lost>>

\* The object goes before the row; the storage may fail instead.
DeleteObject(r) ==
  /\ At(r, "delete_object", "delete")
  /\ object' = [object EXCEPT ![target[r]] = "none"]
  /\ Goto(r, "delete_row")
  /\ UNCHANGED <<dbVars, queue, workerVars, lost>>

StorageFails(r) ==
  /\ At(r, "delete_object", "delete")
  /\ Finish(r)
  /\ UNCHANGED <<dbVars, object, queue, workerVars, lost>>

\* DELETE cascades to pages, chunks and jobs, and waits for the jobs' locks.
DeleteRow(r) ==
  /\ At(r, "delete_row", "delete")
  /\ LET a == target[r] IN
       /\ \A j \in JobsOf(a) : JobFree(j)
       /\ upload' = [upload EXCEPT ![a] = "deleted"]
       /\ processing' = [processing EXCEPT ![a] = "not_queued"]
       /\ content' = [content EXCEPT ![a] = FALSE]
       /\ jobStatus' = [j \in Jobs |-> IF j \in JobsOf(a) THEN "deleted" ELSE jobStatus[j]]
       /\ lost' = lost \ JobsOf(a)
  /\ BlueprintAfter(r)
  /\ Finish(r)
  /\ UNCHANGED <<jobArtifact, object, queue, workerVars>>

\* best_effort_dispatch, after the commit: a failure to send is swallowed.
Dispatch(r) ==
  /\ rpc[r] = "dispatch"
  /\ queue' = queue \cup {[job |-> ticket[r], retries |-> 0]}
  /\ lost' = lost \ {ticket[r]}
  /\ Finish(r)
  /\ UNCHANGED <<dbVars, object, workerVars>>

DispatchFails(r) ==
  /\ rpc[r] = "dispatch"
  /\ lost' = lost \cup {ticket[r]}
  /\ Finish(r)
  /\ UNCHANGED <<dbVars, object, queue, workerVars>>

\* The API process or the connection dies: nothing uncommitted remains, and
\* what was to be sent after the commit is not sent.
RequestDies(r) ==
  /\ rpc[r] # "idle"
  /\ lost' = IF rpc[r] = "dispatch" THEN lost \cup {ticket[r]} ELSE lost
  /\ Finish(r)
  /\ UNCHANGED <<dbVars, object, queue, workerVars>>

-----------------------------------------------------------------------------
(* The worker: ingest_artifact, run_job, process_job *)

Move(w, location) ==
  /\ wpc' = [wpc EXCEPT ![w] = location]
  /\ UNCHANGED <<msg, crashes>>

Take(w, m) ==
  /\ wpc[w] = "idle" /\ m \in queue
  /\ msg' = [msg EXCEPT ![w] = m]
  /\ queue' = queue \ {m}
  /\ wpc' = [wpc EXCEPT ![w] = "lock_job"]
  /\ UNCHANGED <<dbVars, object, reqVars, crashes, lost>>

Deliver(w) == \E m \in queue : Take(w, m)

\* SELECT ... FOR UPDATE of the job: one that is gone or done is left alone.
LockJob(w) ==
  /\ wpc[w] = "lock_job"
  /\ JobFree(msg[w].job)
  /\ IF jobStatus[msg[w].job] \in {"deleted", "succeeded"}
       THEN Move(w, "ack") ELSE Move(w, "lock_artifact")
  /\ UNCHANGED <<dbVars, object, queue, reqVars, lost>>

\* Mutant: the artifact is read without FOR UPDATE.
ReadArtifact(w) ==
  /\ wpc[w] = "lock_artifact"
  /\ Move(w, "process")
  /\ UNCHANGED <<dbVars, object, queue, reqVars, lost>>

\* SELECT ... FOR UPDATE of the artifact, which the locked job keeps alive.
LockArtifact(w) ==
  /\ wpc[w] = "lock_artifact"
  /\ ArtifactFree(jobArtifact[msg[w].job])
  /\ Move(w, "process")
  /\ UNCHANGED <<dbVars, object, queue, reqVars, lost>>

\* The pages and chunks are replaced, and artifact and job are done.
Succeed(w) ==
  /\ wpc[w] = "process"
  /\ LET a == jobArtifact[msg[w].job] IN
       /\ object[a] # "none"
       /\ processing' = [processing EXCEPT ![a] = "ready"]
       /\ content' = [content EXCEPT ![a] = TRUE]
       /\ jobStatus' = [jobStatus EXCEPT ![msg[w].job] = "succeeded"]
  /\ Move(w, "ack")
  /\ UNCHANGED <<upload, jobArtifact, blueprint, basis, object, queue, reqVars, lost>>

\* DocumentValidationError is a result, not a failure to be retried.  What can
\* be parsed is left open: the object may have been replaced since.
RejectDocument(w) ==
  /\ wpc[w] = "process"
  /\ LET a == jobArtifact[msg[w].job] IN
       /\ object[a] # "none"
       /\ processing' = [processing EXCEPT ![a] = "failed"]
       /\ jobStatus' = [jobStatus EXCEPT ![msg[w].job] = "failed"]
  /\ Move(w, "ack")
  /\ UNCHANGED <<upload, content, jobArtifact, blueprint, basis, object, queue,
                 reqVars, lost>>

\* Storage, embeddings or the database fail: TransientProcessingError, and the
\* transaction is rolled back.
FailTransiently(w) ==
  /\ wpc[w] = "process"
  /\ Move(w, "fail_job")
  /\ UNCHANGED <<dbVars, object, queue, reqVars, lost>>

\* record_transient_failure, in a transaction of its own: it tests nothing.
FailJob(w) ==
  /\ wpc[w] = "fail_job"
  /\ JobFree(msg[w].job)
  /\ IF jobStatus[msg[w].job] = "deleted"
       THEN Move(w, "raise") ELSE Move(w, "fail_artifact")
  /\ UNCHANGED <<dbVars, object, queue, reqVars, lost>>

FailArtifact(w) ==
  /\ wpc[w] = "fail_artifact"
  /\ LET a == jobArtifact[msg[w].job] IN
       /\ ArtifactFree(a)
       /\ jobStatus' = [jobStatus EXCEPT ![msg[w].job] = "failed"]
       /\ processing' = [processing EXCEPT ![a] = "failed"]
  /\ Move(w, "raise")
  /\ UNCHANGED <<upload, content, jobArtifact, blueprint, basis, object, queue,
                 reqVars, lost>>

\* should_retry: the message is sent again until its retries are used up.
Release(w) ==
  /\ wpc' = [wpc EXCEPT ![w] = "idle"]
  /\ msg' = [msg EXCEPT ![w] = NoMessage]

\* Mutant: one retry too many.
ReraiseOnceMore(w) ==
  /\ wpc[w] = "raise"
  /\ queue' = IF msg[w].retries <= MaxRetries
                THEN queue \cup {[msg[w] EXCEPT !.retries = @ + 1]} ELSE queue
  /\ Release(w)
  /\ UNCHANGED <<dbVars, object, reqVars, crashes, lost>>

Reraise(w) ==
  /\ wpc[w] = "raise"
  /\ queue' = IF msg[w].retries < MaxRetries
                THEN queue \cup {[msg[w] EXCEPT !.retries = @ + 1]} ELSE queue
  /\ Release(w)
  /\ UNCHANGED <<dbVars, object, reqVars, crashes, lost>>

Ack(w) ==
  /\ wpc[w] = "ack"
  /\ Release(w)
  /\ UNCHANGED <<dbVars, object, queue, reqVars, crashes, lost>>

\* The actor overruns its time limit, or the database fails outside the try
\* block: that is no TransientProcessingError, and the message is dropped.
Abort(w) ==
  /\ wpc[w] \in {"lock_job", "lock_artifact", "process", "fail_job", "fail_artifact"}
  /\ lost' = lost \cup {msg[w].job}
  /\ Release(w)
  /\ UNCHANGED <<dbVars, object, queue, reqVars, crashes>>

\* Mutant: messages are acknowledged when they are received.
WorkerDiesSilently(w) ==
  /\ wpc[w] # "idle" /\ crashes < MaxCrashes
  /\ Release(w)
  /\ crashes' = crashes + 1
  /\ UNCHANGED <<dbVars, object, queue, reqVars, lost>>

\* The worker dies: its transaction is rolled back and the broker delivers the
\* unacknowledged message again.
WorkerDies(w) ==
  /\ wpc[w] # "idle" /\ crashes < MaxCrashes
  /\ queue' = queue \cup {msg[w]}
  /\ Release(w)
  /\ crashes' = crashes + 1
  /\ UNCHANGED <<dbVars, object, reqVars, lost>>

-----------------------------------------------------------------------------
(* PostgreSQL breaks the deadlock of a worker and a deletion *)

\* Mutant: nobody breaks it.
NeverDeadlocked(w, r) == FALSE

Deadlocked(w, r) ==
  /\ wpc[w] \in {"lock_artifact", "fail_artifact"}
  /\ At(r, "delete_row", "delete")
  /\ jobArtifact[msg[w].job] = target[r]

\* The error is not a TransientProcessingError: the message is dropped.
FailWorker(w) ==
  /\ \E r \in Requests : Deadlocked(w, r)
  /\ lost' = lost \cup {msg[w].job}
  /\ Release(w)
  /\ UNCHANGED <<dbVars, object, queue, reqVars, crashes>>

\* The row stays, and the object is gone.
FailDelete(r) ==
  /\ \E w \in Workers : Deadlocked(w, r)
  /\ Finish(r)
  /\ UNCHANGED <<dbVars, object, queue, workerVars, lost>>

-----------------------------------------------------------------------------
(* The specification *)

\* The owner approves a blueprint extracted from files that are ready, for the
\* first time or again (app/modules/blueprints), in one step.
ApproveBlueprint ==
  /\ \E a \in Files : processing[a] = "ready"
  /\ BlueprintFree
  /\ blueprint' = "approved"
  /\ basis' = [files |-> Complete,
               raced |-> \E r \in Requests : rpc[r] \in Changing]
  /\ UNCHANGED <<upload, processing, content, jobArtifact, jobStatus, object,
                 queue, reqVars, workerVars, lost>>

CreateSteps(r) == CountFiles(r) \/ InsertFile(r)
CompleteSteps(r) == LoadForComplete(r) \/ FindJob(r) \/ Head(r) \/ CommitComplete(r)
RetrySteps(r) == LoadForRetry(r) \/ CommitRetry(r)
DeleteSteps(r) ==
  \/ LoadForDelete(r)
  \/ LockForDelete(r)
  \/ DeleteObject(r)
  \/ StorageFails(r)
  \/ DeleteRow(r)
  \/ FailDelete(r)

Serve(r) ==
  \/ CreateSteps(r)
  \/ CompleteSteps(r)
  \/ RetrySteps(r)
  \/ DeleteSteps(r)
  \/ MarkStale(r)
  \/ Dispatch(r)
  \/ DispatchFails(r)

Work(w) ==
  \/ Deliver(w)
  \/ LockJob(w)
  \/ LockArtifact(w)
  \/ Succeed(w)
  \/ RejectDocument(w)
  \/ FailTransiently(w)
  \/ FailJob(w)
  \/ FailArtifact(w)
  \/ Reraise(w)
  \/ Ack(w)
  \/ FailWorker(w)

Arrive(r) == BeginCreate(r) \/ Begin(r)

Next ==
  \/ \E r \in Requests : Arrive(r) \/ Serve(r) \/ RequestDies(r)
  \/ \E w \in Workers : Work(w) \/ Abort(w) \/ WorkerDies(w)
  \/ \E a \in Artifacts : ClientPut(a)
  \/ ApproveBlueprint

Spec == Init /\ [][Next]_vars

\* The event loop and the worker threads go on, PostgreSQL grants locks in the
\* order they were asked for, and Redis keeps its messages in order, so that
\* none is passed over for ever.  Nothing obliges a client to call.
FairSpec ==
  /\ Spec
  /\ \A r \in Requests : SF_vars(Serve(r))
  /\ \A w \in Workers : SF_vars(Work(w))
  /\ \A m \in Message : SF_vars(\E w \in Workers : Take(w, m))

-----------------------------------------------------------------------------
(* Properties *)

\* An upload that is complete has a processing job: "Uploaded artifact has no
\* processing job" is never raised for a file that is still there.
UploadedHasJob == \A a \in Complete : JobsOf(a) # {}

\* A file shown as queued has a job in the queue; one shown as ready has its
\* pages and chunks; so has one that any job has processed with success.
StatusIsTrue ==
  /\ \A a \in Artifacts :
       /\ processing[a] = "queued" => \E j \in JobsOf(a) : jobStatus[j] = "queued"
       /\ processing[a] = "ready" => content[a]
  /\ \A j \in Jobs : jobStatus[j] = "succeeded" => content[jobArtifact[j]]

\* The states of files and jobs agree, whatever overlaps or dies.
FileStatesTrue == UploadedHasJob /\ StatusIsTrue

\* The at-least-once delivery reaches every job: one that waits has a message
\* at the broker, at a worker or about to be sent, unless sending it failed or
\* the broker dropped it.
Tracked(j) ==
  \/ j \in lost
  \/ \E m \in queue : m.job = j
  \/ \E w \in Workers : wpc[w] # "idle" /\ msg[w].job = j
  \/ \E r \in Requests : rpc[r] = "dispatch" /\ ticket[r] = j

JobsTracked == \A j \in Jobs : jobStatus[j] = "queued" => Tracked(j)

\* However often a job is delivered, one worker at a time replaces the pages
\* and chunks of a file, and none while the file is being deleted.
OneProcessor ==
  \A w \in Workers : wpc[w] = "process" =>
    LET a == jobArtifact[msg[w].job] IN
      /\ upload[a] = "uploaded"
      /\ \A v \in Workers \ {w} : ~WorkerHoldsArtifact(v, a)
      /\ \A r \in Requests : ~RequestHoldsArtifact(r, a)

\* An approval that no completion or deletion overlapped holds only for the
\* files it was given: the next one completed or deleted ends it.
ApprovalCoversFiles ==
  blueprint = "approved" /\ ~basis.raced => Complete = basis.files

-----------------------------------------------------------------------------
(* The inductive invariant behind these properties *)

\* What a request works on is there or was, and a job it will send is a row.
RequestInv ==
  \A r \in Requests :
    /\ rpc[r] = "idle" => op[r] = "none"
    /\ rpc[r] = "mark" => op[r] \in {"complete", "delete"}
    /\ op[r] \in {"complete", "retry", "delete"} =>
         target[r] \in Artifacts /\ upload[target[r]] # "fresh"
    /\ rpc[r] = "dispatch" <=> ticket[r] # NoJob
    /\ ticket[r] # NoJob => jobStatus[ticket[r]] # "fresh"

\* The jobs that requests in flight may still insert find a row each.
NeedJob ==
  {r \in Requests : /\ ticket[r] = NoJob
                    /\ \/ op[r] = "retry"
                       \/ op[r] = "complete" /\ upload[target[r]] = "pending"}
RoomInv == Cardinality(NeedJob) <= Cardinality(FreshJobs)

\* A job that is there belongs to a file whose upload is complete; messages are
\* about jobs that are or were there.
JobInv ==
  /\ \A j \in Jobs \ FreshJobs :
       /\ jobArtifact[j] \in Artifacts
       /\ jobStatus[j] # "deleted" => upload[jobArtifact[j]] = "uploaded"
  /\ \A m \in queue : jobStatus[m.job] # "fresh"

\* A worker that has locked its job keeps it from being deleted; one that is
\* about to let go of its message leaves no queued job behind.
WorkerInv ==
  \A w \in Workers :
    /\ wpc[w] # "idle" => msg[w] \in Message /\ jobStatus[msg[w].job] # "fresh"
    /\ wpc[w] \in {"lock_artifact", "process", "fail_artifact"} =>
         jobStatus[msg[w].job] # "deleted"
    /\ wpc[w] \in {"raise", "ack"} => jobStatus[msg[w].job] # "queued"

\* While an approval holds that nothing overlapped, whoever is about to change
\* the files has marked it.
MarkInv ==
  blueprint = "approved" /\ ~basis.raced =>
    \A r \in Requests :
      op[r] \in {"complete", "delete"} /\ rpc[r] \in Changing => marked[r]

IngestionInv ==
  /\ RequestInv
  /\ RoomInv
  /\ JobInv
  /\ WorkerInv
  /\ MarkInv
  /\ UploadedHasJob
  /\ StatusIsTrue
  /\ JobsTracked
  /\ OneProcessor
  /\ ApprovalCoversFiles

-----------------------------------------------------------------------------
(* Progress *)

\* A queued job is processed, with whatever outcome, unless its message is
\* lost: retries end, and deadlocks with deletions are broken.
JobsSettle ==
  \A j \in Jobs : jobStatus[j] = "queued" ~> jobStatus[j] # "queued" \/ j \in lost

\* Every request ends, whatever locks the workers hold.
RequestsEnd == \A r \in Requests : rpc[r] # "idle" ~> rpc[r] = "idle"
=============================================================================
