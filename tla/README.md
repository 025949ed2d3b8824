# ExamTwin in TLA+

This directory is a verification project for ExamTwin, the exam-preparation
application under `src/`: a FastAPI backend (`src/backend/api/app`) over
PostgreSQL, an object storage and a Redis/Dramatiq worker, and a Next.js
frontend (`src/frontend`) that reaches it through a proxy. The modules model
how its requests, transactions and workers interleave and fail; TLC checks them
on small instances, and TLAPS proves what matters most for every instance.

Paths below are relative to `src/backend/api/app` unless they start with `src/`.

## 1. Inventory

How the parts interact: the browser calls the proxy
(`src/frontend/src/app/api/backend`), which adds the access token and calls the
backend. Every request opens one SQLAlchemy session (one transaction at a time,
READ COMMITTED, `expire_on_commit=False`). Services call each other in-process
inside that transaction: a submitted attempt rebuilds analytics, a completed or
deleted file marks blueprints stale, an approved blueprint rewrites the exam.
After its commit an artifact request sends a message to Redis; the worker
process takes it, reads the object storage and writes the same tables. The AI
provider (Vertex) is called between transactions.

| Component | State | Operations | What is hard, and what must hold |
|---|---|---|---|
| Attempts (`modules/exams/attempt_service.py`) | attempts, attempt_responses, question_evaluations | start or resume, autosave a response, submit and evaluate | Saves and submits overlap; the provider is called outside a transaction and may fail or answer invalidly. An attempt is evaluated once, completely, within its points, and no two clients see different results. |
| Artifact ingestion (`modules/artifacts`) | artifacts, jobs, pages, chunks; stored objects; broker queue | create upload, complete, retry, delete; process, fail, retry a job | At-least-once delivery, crashes, rows locked in opposite orders, a commit followed by a send. One worker at a time on a file, no job forgotten, statuses that are true. |
| Blueprints and configuration (`modules/blueprints`, `modules/exams/service.py`) | exam_blueprints, `exams.blueprint/rules/blueprint_version` | extract (with an idempotency key), edit, approve, mark stale, update the exam | No row is locked before it is tested. One approved version, valid and frozen; one answer per key; no lost configuration. |
| Authentication (`modules/auth`, proxy route) | users, refresh_tokens (linked by `replaced_by_id`), two cookies | register, log in, rotate, revoke; refresh by the proxy | Concurrent refreshes of one browser, lost answers, a second attempt by the proxy. A login has one live token; a logout ends it; no handler runs twice. |
| Classes, workspaces, access (`modules/classes`, `modules/workspaces`) | classes, memberships, selected exams | create, update, add and remove members, list, dashboards | Three access predicates and the scoping of dashboards must agree; `update_class` replaces rows without a lock; a dashboard is read in many statements, and must not fail, nor count other learners than it profiles, because they come and go. |
| Library (`modules/library`) | publications, clones | publish, unpublish, clone | One clone per user and publication; an unlocked clone counter; a publication written column by column. |
| Analytics store (`modules/analytics/service.py`) | observations, skills, snapshots | materialise, rebuild, read | Rebuilt inside a submit and on demand; unique keys shared by all learners of an exam; a profile must not lose an attempt. |
| Analytics model (`modules/analytics/model.py`) | none (pure) | estimate mastery, readiness, confidence | Floating-point statistics; gates and thresholds. |
| Mock generation and grading (`attempt_service.py`, `ai/validators.py`) | mock_exams, questions | generate a mock, distribute points, score, validate | Points must add up, percentages stay in range, the blueprint may change during generation. |
| Exam run screen (`src/frontend/src/features/exams`) | answers, versions, debounce timers | type, autosave, submit | A pending autosave and a submit. |
| Subjects, users | single rows | create, read, update, delete | No interaction. |
| AI provider, embeddings, parsing, retrieval | none kept | calls that return or raise | External; modelled by their outcomes where a modelled component calls them. |
| Core, migrations, other screens | settings, schema | plumbing | No state the models need beyond constraints of the ORM classes. |

`PROJECT.json` lists the same components with their status, and under "hazards"
each place where the code is hard to test, with the properties that watch it.

## 2. Plan

In this order; what is done is marked.

1. **AttemptSession** (done, proved): the core promise of the product. Abstract
   specification: **AttemptContract**. Proofs: **AttemptSession_proofs**.
2. **ArtifactIngestion** (done, proved). Proofs: **ArtifactIngestion_proofs**.
3. **BlueprintLifecycle** (done, proved). Proofs: **BlueprintLifecycle_proofs**.
4. **AuthSession** (done, proved): accounts, refresh tokens and the proxy with
   its cookies. Abstract specification: **SessionContract**. Proofs:
   **AuthSession_proofs**.
5. **ClassAccess** (done, proved): subjects, classes, members and exams, the
   access predicates, and the readers that go through them. Proofs:
   **ClassAccess_proofs**.
6. **ExamCopies** (done, proved): what is made from an exam
   while it is reviewed: publications, clones, mocks. Proofs: **ExamCopies_proofs**.
7. **ExamAnalytics** (done, proved): observations, taxonomy and snapshots, inside
   a submit and by themselves. Proofs: **ExamAnalytics_proofs**.
8. **AnalyticsModel** (done, proved): the statistics of a profile. Proofs:
   **AnalyticsModel_proofs**.
9. Left: **ExamRun**, the autosave client of the exam screen, composed with
   AttemptSession; the graders in place of the parameter `LocalScore`.

Each has an MC module with two actors and the smallest data that reaches the
hazard; two actors, because every hazard listed is between a pair.

## 3. Conventions of the models

- **Sessions.** A SELECT (or a locking SELECT, or a provider call) is one action
  that sees what is committed at that moment. Code between two awaits belongs to
  the action before. What a session has loaded is kept in variables of the
  request (`loaded`, `rows`, `found`, `exam`, `seen`) and is *not* refreshed by
  a later SELECT, as `expire_on_commit=False` without `populate_existing` implies.
- **Flush.** SQLAlchemy writes a column only when its value differs from the
  loaded one; where that matters it is modelled (`Changed`, `Written`,
  `CommitRetry`). A flush directly followed by the commit is one action; where
  something can happen in between (analytics after the evaluations, the storage
  call inside a deletion), they are two.
- **Locks** are derived from program counters (`HoldsAttempt`, `HoldsResponse`,
  `WorkerHoldsJob`, `Holds`...): a lock is held from the statement that takes it
  to the commit or rollback, and a statement that needs it is disabled meanwhile.
- **Failures.** `Abandon` / `RequestDies` roll an unfinished request back at any
  await; `WorkerDies`, `Abort`, `DispatchFails`, `StorageFails`, `FailAnalytics`,
  `ProviderError` are the failures the code handles.
- **Identities** are drawn from finite sets: a row once deleted is not reused,
  and beginning actions are bounded so that a request in flight always finds one.
- Definitions under a comment `Mutant:` are never used by the specification.
  They are plausible bugs; substituting one for its definition must make the
  property named with it in `PROJECT.json` fail.

## 4. The modules

### AttemptSession, AttemptContract

The attempts of one learner on one mock exam, under concurrent requests
(`Requests`), for `routes/attempts.py` and `attempt_service.py`:

| Code | Actions |
|---|---|
| `start_attempt` | `BeginStart`, `FindActive`, `InsertAttempt` |
| `get_attempt` | `LoadAttempt` and the first half of `LoadForSave` / `LoadForSubmit` |
| `save_response` | `LoadForSave`, `LockResponse`, `RejectVersion`, `UpdateResponse`, `InsertResponse` |
| `submit_attempt` | `LoadForSubmit`, `ProviderGrades`, `ProviderInvalid`, `ProviderError`, `Recheck`, `Flush`, `FailAnalytics`, `CommitSubmit`, `Refresh` |

`Recheck` deserves a note: `session.rollback()` expires loaded objects only if a
transaction is open. After a provider call none is, so the second status test
looks at the status read before the call; the unique key on evaluations, not
the test, keeps the evaluation single. `LocalScore` stands for the
deterministic graders, of which only what the assumption says is used (a blank
answer scores 0, no answer more than the question's points).

AttemptContract is what the API promises about an attempt: it is opened, it is
evaluated once with a verdict, and clients are told that verdict and no other.
`ImplementsContract` says AttemptSession implements it under
`phase <- status, verdict <- score`.

### ArtifactIngestion

The files of one exam: requests, two worker threads, storage and broker.

| Code | Actions |
|---|---|
| `create_upload` | `BeginCreate`, `CountFiles`, `InsertFile`, and `ClientPut` for the presigned PUT |
| `complete_upload` | `LoadForComplete`, `FindJob`, `Head`, `MarkStale`, `CommitComplete` |
| `retry_artifact` | `LoadForRetry`, `CommitRetry` |
| `delete_artifact` | `LoadForDelete`, `MarkStale`, `LockForDelete`, `DeleteObject`, `StorageFails`, `DeleteRow`, `FailDelete` |
| the dispatch after a commit (`routes/artifacts.py`) | `Dispatch`, `DispatchFails` |
| `process_artifact_job` (`tasks.py`), `process_job` (`processor.py`) | `Deliver`, `LockJob`, `LockArtifact`, `Succeed`, `RejectDocument`, `FailTransiently`, `Ack` |
| `record_transient_failure` | `FailJob`, `FailArtifact`, `Reraise` |

`lost` and `basis` are history variables: jobs whose message is gone until the
owner sends it again, and what an approval was based on. RUNNING and PROCESSING
are flushed and never committed before the outcome, so no other session can
read them, and they are not states of the model. Broker and database are
external; a crash before the acknowledgement delivers a message again, and a
deadlock fails one of its two transactions.

### BlueprintLifecycle

The versions of one exam's blueprint and the exam's configuration.

| Code | Actions |
|---|---|
| `create_extraction`, `retry_blueprint` | `BeginExtract`, `FindKey`, `NoSources`, `ReadMaxVersion`, `InsertRecord`, `StoreExtraction` |
| `update_blueprint_draft` | `BeginEdit`, `LoadForEdit`, `CommitEdit` |
| `approve_blueprint` | `BeginApprove`, `LoadForApprove`, `LoadExam`, `ChooseRows`, `UpdateRows`, `CommitApproval` |
| `update_exam` | `BeginConfigure`, `LoadForConfigure`, `CommitConfiguration` |
| `mark_exam_blueprints_stale` in a file's transaction | `BeginFiles`, `ChooseRows`, `UpdateRows`, `CommitFiles` |

Nothing here is selected FOR UPDATE, so its promises hold only for requests that
do not overlap; `met` and `contended` record overlaps so that the properties say
exactly that. They are not vacuous: two actors still interleave extractions and
file changes with reviews, and any number of reviews follow each other.

### AuthSession, SessionContract

Any accounts, one browser with several requests in flight
(`modules/auth/service.py`, `api/routes/auth.py`, and the proxy
`src/frontend/src/app/api/backend/[...path]/route.ts` with its login, register
and logout routes).

| Code | Actions |
|---|---|
| the proxy: a call, the refresh, the second attempt, the answer | `BeginCall`, `LoadToken`, `CommitRotation`, `RefreshFails`, `CallUpstream`, `Respond`, `Clear` |
| `register_user` | `BeginRegister`, `FindEmail`, `InsertUser`, `IssueTokens` |
| `authenticate_user` | `BeginLogin`, `Authenticate`, `IssueTokens` |
| `revoke_refresh_token` and the logout route | `BeginLogout`, `RevokeToken`, `LogoutFails`, `Wipe` |
| time, an answer that never arrives, an account switched off | `AccessExpires`, `RefreshExpires`, `LoseAnswer`, `Deactivate` |

A member of `Tokens` is a pair issued together: the row of the refresh token and
the access token, a JWT that stays valid until it expires. The browser's cookies
are one variable (`jar`) that an answer overwrites when it arrives; what a
request carried (`sent`) is what the browser had when it began. `origin` is a
history variable, the login a token goes back to. `refreshSession` takes every
answer that is not OK for "no session", a 500 or a 503 as much as a refusal:
`RefreshFails` is such an answer (or none), before the rotation is committed or
after it, and the proxy goes on to clear the cookies. The logout route ignores
whether its call succeeded (`LogoutFails`). `failed` records the requests that
this happened to. `disturbed` records something else: that the session changed
under a request in flight, or that an answer which had rotated tokens in it, or
that of a logout, was lost. A failure of the backend at a refresh that was not
committed, or at a logout, does not set it, so it excuses no other request.
SessionContract is what a login is to its user: opened once, then closed
for good. `Session` maps tokens to it: a login is open while one of its tokens
is live.

### ClassAccess

Subjects, exams, classes, members and selections of any users
(`modules/workspaces/service.py`, `modules/classes/service.py`), with the two
readers that visit many profiles.

| Code | Actions |
|---|---|
| creating and deleting subjects, exams, classes; members | `CreateSubject`, `DeleteSubject`, `CreateExam`, `DeleteExam`, `CreateClass`, `DeleteClass`, `AddMember`, `RemoveMember` |
| an attempt evaluated | `Learn` |
| `update_class` | `LoadClass`, `LoadPicked`, `Validate`, `StartDelete`, `ClearRows`, `CommitUpdate`, `FailUpdate` |
| `class_dashboard` | `LoadDashboard`, `LoadScope`, `LoadCohort`, `LoadActive`, `Visit`, `Answer`, `Done` |
| `analytics_overview` | `LoadOverview`, `Visit`, `Answer`, `Done` |

`CanOpen`, `CanTake` and `CanReadClass` are the three predicates of the code.
Requests of one SELECT and one write whose constraints decide again are one
action; `update_class` is not, because it deletes and inserts rows under a class
it has not locked. `loose` is a history variable: classes whose rows are not the
work of one update on what it had read. A DELETE of `update_class` takes the rows
that are committed when it starts and waits for those that another one deletes; a
row that was deleted and inserted again meanwhile it does not see (`doomed`).

A dashboard keeps the scope of its class as it was loaded (`view`), the evidence
its learners had when `active_learners` and `total_attempts` were counted
(`counted`), and the evidence behind each profile when that was computed
(`profiles`). Its `lost` is a history variable of narrow meaning: the class
stopped granting the exam (`Grants`), or a learner still to be visited could no
longer take it through any class. Nothing else that changes meanwhile excuses it.
Ids are not given twice (`Unused`), as with random UUIDs.

### ExamCopies

What is made from one exam, whose owner goes on reviewing it
(`modules/library/service.py`, `generate_mock` of `attempt_service.py`,
`ai/validators.py`).

| Code | Actions |
|---|---|
| reviews (BlueprintLifecycle has them in detail) | `Configure`, `Approve`, `Draft`, `MarkStale`, `DeleteExam` |
| `publish_exam`, `unpublish_exam` | `LoadExam`, `ReadApproved`, `LoadPublication`, `InsertPublication`, `UpdatePublication`; `BeginUnpublish`, `Unpublish` |
| `clone_publication` | `BeginClone`, `AlreadyCloned`, `FindNoClone`, `CommitClone`; `DeleteCopy` |
| `generate_mock` | `LoadExam`, `ReadApproved`, `ReadLatest`, `GenerateLocally`, `CallProvider`, `StoreAnswer` |

A review is one commit. `Approve` may approve any version that is not approved:
a stale or a failed one can be edited and approved again under its number with
another content, so that `approvals` keeps for each version the *set* of contents
it was approved with, and `commits` for each configuration its one content.
`torn` and `raced` are history variables, set by two publishes, or two clones, of
which one was committed after the other had loaded the publication; an
overlap with an unpublish or with the other kind does not set them. `moved` says
that the exam or its blueprints changed during this publish or mock.

A question is its points; `DistributePoints` and `ValidMock` are
`distribute_points` and `validate_mock` on those. A mock shares no row with the
library, so it is generated while no library request is in flight (`Apart`): an
interleaving of the two adds no behaviour of either.

### ExamAnalytics

The stored analytics of one exam and its learners
(`modules/analytics/service.py`), SELECT by SELECT.

| Code | Actions |
|---|---|
| the end of `submit_attempt`, graded locally, or by the provider | `BeginSubmit`; `CallProvider`, `SubmitGraded`, `AlreadySubmitted` |
| the rebuild and read routes | `BeginRebuild`, `BeginRead` |
| `materialize_exam_observations` | `ListAttempts`, `FindMissing`, `WriteObservations` |
| `_ensure_taxonomy`, `_revision_hash` | `LoadTaxonomy`, `HashObservations` |
| `rebuild_exam_analytics` | `LoadLatest`, `FindSnapshot`, `Commit`, `FailCommit` |
| `exam_analytics` | `LoadAttempts`, `LoadObservations`, `Answer` |
| failures; a review of the exam meanwhile | `Die`, `Conflict`; `Review` |

The submit is the one of AttemptSession, from its flush to its commit:
AttemptSession says what the evaluations are, this module what is derived from
them before the same commit. Observations stand for the attempt they were
derived from. `Old` are attempts evaluated before observations were stored. `asked`
is the configuration version of the exam's row as the session has loaded it. A
submit graded locally loads it with its rebuild. One graded by the provider has
loaded it before the call; the commit before the call expires nothing, the
rollback after it finds no transaction, so the rebuild's `get_exam` gives back
the same row with the version it had (`SubmitGraded` keeps `asked`). `met` is a
history variable: another submit, rebuild or review was there while this request
was writing; what happened during the provider call does not set it.

### AnalyticsModel

`modules/analytics/model.py` as operators on integers, over the histories of
attempts and of time passing (`Evaluate`, `Wait`); `profile` is what
`calculate_analytics` returns for them. A mastery is in
ten-thousandths, the age of evidence in half-lives. Numbers are rounded down
where the code has a float and then rounds for display; properties are stated so
that a step of a ten-thousandth decides nothing. A mock gives each skill a
sequence of answers, as the code stores an observation for every question and
skill: several of one attempt and skill are the usual case, and `Recent` and
`AttemptValue` group them by attempt as `_trend` does. The evaluator's confidence
comes in twentieths (0.35 among them), of which the code makes 0.25 if it is
less. `Remaining` is the exponential function by repeated multiplication in
integers: close for half-lives up to a dozen (the run has two), ever coarser for
more.

The lists are lists, because their order decides: `Sorted` is the stable sort of
`metrics.sort` and `ranked.sort` (`Before` is their key), `Keep` a list
comprehension with a condition, `Distinct` and `First` the loop that fills the
targets. What the code does in a loop is a recursive function (`Sum`, `Keep`,
`Sorted`), so that it can be proved about.

## 5. The runs

| Run | Instance | What it shows |
|---|---|---|
| `attempt_vertex` | 1 attempt, an objective and an open question, blank or right answers, 2 requests, provider on, 1 retry, versions up to 2 | Complete, sound and single evaluation, agreeing results, late writes only by overlapping saves, the refinement of AttemptContract |
| `attempt_live` | 1 open question, 2 requests, provider on | `RequestsEnd`: no lock cycle, bounded provider retries |
| `artifact_requests` | 1 file, 1 job, 2 requests, 2 workers, 1 retry, 1 crash | A completed upload has a job, a queued job has a message unless it is lost, a file has one processor, an approval covers its files |
| `artifact_live` | 1 file, 2 jobs (the upload and a manual retry), 1 worker, 1 request, 1 crash | Jobs settle across deadlocks and crashes |
| `blueprint_review` | 2 versions, a valid and an invalid content, 1 key, configuration versions up to 3, 2 requests | One approved version, valid and frozen; one version per key; configurations numbered |
| `auth_session` | 1 account, 3 token pairs, 2 requests | Nobody is signed out without a cause, a logout that the backend answered leaves no live token, no handler runs twice, the refinement of SessionContract |
| `access_scope` | 2 subjects with an exam each, 1 class of the first, 2 overlapping updates | A class and its selection agree; what can be opened is listed |
| `access_readers` | a teacher and 2 others who join and leave, attempts of one of them, 1 class, 2 exams, 1 update, 1 dashboard | A dashboard profiles whom it has counted, with no less evidence; it fails only if the exam was lost to the class or to a learner |
| `exam_copies` | 1 section, 2 configurations (one worth less than its questions), configuration versions up to 3, 2 blueprint versions that may be approved again, 1 user, 2 clones, 2 requests | Publications and mocks are whole and current, points add up, clones are counted |
| `analytics_store` | 2 users with 2 and 1 attempts (1 of them old), 2 skills, 2 configurations, 2 requests, with and without the provider | Profiles miss no evidence; only overlaps fail; a rebuild covers everything |
| `analytics_model` | 4 skills, 3 kinds of mock with several answers on one skill, 6 attempts, 2 half-lives | Trends look at five attempts, targets are balanced, waiting adds nothing |
| `access_overview` | a learner, a class for selected exams, 2 exams | A violation, see section 8 |

Fourteen more configurations are kept and can be run by hand with the same command;
they ask the same questions on other instances, or check the invariants that the
proofs use:

- `auth_invariant` (661 thousand states), `access_invariant` (5.4 million),
  `analytics_invariant` (1.9 million), `copies_invariant` (4.3 million),
  `analytics_history` (35 thousand): the invariants of section 6, as invariants of
  their modules;
- `artifact_jobs`: two jobs of one file at two workers; `artifact_files`: an
  approval with two files; `blueprint_keys`: three versions for one key;
  `blueprint_contents` (5.2 million): blueprint_review with a third content,
  valid but unresolved; `access_exams` (1.6 million): access_scope with a second
  exam in the subject of the class;
- `attempt_immutable`, `attempt_versions`, `blueprint_immutable`,
  `exam_versions`: four violations, see section 8.

*Why the bounds are enough.* Two requests and two workers give every pair of
steps every order; the hazards listed are all between two actors, and the locks
are per row. One attempt suffices since no action of an attempt reads another
(starting aside); the proofs cover any number of all of these. A
valid and an invalid content reach the drafts that fail; the configuration that
the exam form sends is the invalid one, since `update_exam` validates nothing; a
draft that is valid but unresolved is refused alike (`blueprint_contents`). Three token pairs are a login, its rotation, and the
rotation or login of the other request. A dashboard with two others in the class
can lose the one it has counted, or the other; a second exam lets the class
select what the dashboard is not about. One class cannot show that a learner
whom another class lets in may be removed from it: that case is left to
`DashboardsSurvive`, which is proved for any classes.
Two subjects are needed for an exam that a class may not select. One user who
clones twice at once meets the unique key, and with a deletion between the two
the lost update of the counter; `copies_invariant` has two users. Three attempts of two users
are one old attempt without observations, one submitted beside it, and one of
somebody else with the same skills. Six attempts are one more than a trend looks
at. The runs that say `CHECK_DEADLOCK FALSE` have identities that are used up:
tokens, versions, files, attempts; that real requests and jobs do not get stuck
is what `attempt_live` (requests) and `artifact_live` (jobs) check.

*Symmetry* is used for requests, workers, files, tokens, updates and pupils, and
in no liveness run.

*Fairness.* `FairSpec` gives strong fairness to what a server does for a request
it has (`Serve`), and to a worker's steps (`Work`) and to the delivery of each
message: event loop and threads keep running, PostgreSQL queues waiters for a
row lock in order, and a Redis list is taken from its head. It is strong
because a lock may be taken and released again and again while one waits.
Clients are under no obligation, and neither failures nor crashes are fair.

## 6. What is proved

Eight modules with proofs, each for any sets of actors and data and any bounds,
from the assumptions the component's module states and TLC evaluates.

`AttemptSession_proofs` proves, for any sets of attempts, questions, answers
and requests, and all points, graders and bounds:

- `TypeCorrect` (`Spec => []TypeOK`);
- `Invariance` (`Spec => []SafetyInv`), and from it `EvaluationIsComplete`,
  `GradesAreSound` and `ResultsAgreeAlways`;
- `EvaluatedAtMostOnce` and `OnlyOverlappingSavesAreLate`, action properties;
- `ContractImplemented` (`Spec => Contract!Spec`), the refinement.

The argument. The properties are not inductive by themselves: a commit stores
whatever a session graded before, from rows it loaded before. `SessionInv` says
what a session may rely on (a response row it holds exists; an attempt it read
as evaluated still has that score; nothing else), `GradingInv` that its grades
are sound grades of the answers it loaded and complete once it has passed the
provider, `CommitInv` that between flush and commit it is alone on an attempt
with no evaluations. Together with the three safety properties this is
`SafetyInv`, which the proof shows inductive, one step per action. The assumptions are those of AttemptSession (points, graders,
a NULL that is no value), which TLC evaluates on its instances.

`ArtifactIngestion_proofs` proves, for any bounds and any finite sets of files,
requests and workers, `TypeCorrect`, `Invariance` (`Spec => []IngestionInv`) and
from it `FileStatesStayTrue`, `QueuedJobsAreTracked`,
`OneWorkerPerFile` and `ApprovalsCoverFiles`: every invariant its runs check.

The argument. `JobInv` and `WorkerInv` tie program counters to rows: a job that
is not deleted belongs to a complete upload, and a worker that has locked its
job keeps it from being deleted, because `DeleteRow` waits for the locks of all
jobs of its file. So the file of a worker at `process` is still there, and the
lock it took keeps other workers and deletions out (`OneProcessor`). A message
is let go of (`raise`, `ack`) only when its job is no longer queued, which makes
`JobsTracked` inductive. `MarkInv` says that while an approval holds which
nothing overlapped, whoever is about to change the files has marked the
blueprint, so its commit ends the approval. `RequestInv` gives a request the
rows it loaded; `RoomInv` is about the bound alone: a row is left for every job
that a request in flight may still insert. It counts, hence
`ProcessesAssumption`, that files, requests and workers are finitely many.

`BlueprintLifecycle_proofs` proves, for any contents, keys and bounds and any
finite set of requests:

- `TypeCorrect` and `Invariance` (`Spec => []LifecycleInv`), and from it
  `OnlyOneApproved`, `ApprovedAreValid` and `OneVersionPerKey`;
- `ApprovalStaysFrozen` and `ConfigurationsAreNumbered`, action properties.

The argument. That one version is approved depends on what a request still
knows when it writes, so `ReviewInv` says it: while a review has met no other
(`met`), its version is still the draft it loaded, its content still the one it
validated, the configuration still the one it read, and once it has chosen its
rows they are all the approved ones; a review that has met another is owed
nothing, and what it approves is `contended`. `MeetingInv` says two reviews in
flight have met, so the write of one disturbs only guarantees that the other no
longer has. `LockInv` keeps the rows of a bulk UPDATE: updated, they stay approved and
no other UPDATE holds them until the commit. `KeyInv` with `ExtractionInv` gives each
key one version, from the unique key (`InsertRecord` finds it taken) and from
the single request that owns an extraction. `BoundInv` is about the bound alone:
the versions there are and the extractions still to insert never exceed
`MaxVersion`, so the type of a new version holds; it needs cardinalities, hence
`RequestsAssumption`, that requests are finitely many.

`AuthSession_proofs` proves `TypeCorrect`, `LoginHasOneToken`, `CallsRunOnce`,
`SignOutHasCause`, `LogoutIsComplete` and `Implements`
(`Spec => ImplementsContract`), for any addresses, tokens and requests.

The argument. `TokenInv` keeps the rows: a token goes back to a login, and of
the tokens of one login one is live. A rotation preserves it because nobody else
can revoke or replace the token it holds (`LockInv`), and the new pair is not in
the browser, nor carried by anybody else, until its answer arrives (`FreshInv`).
`RequestInv` says what a request has at each step, so that a second attempt
follows a refusal, and that whoever is about to clear the cookies has been
refused, has a spent token, or is in `failed`. Whether a logout ends everything
depends on what the browser carries: `CalmInv` says that while nothing has
disturbed the session, all requests in flight carry the token of the jar, every
live token of that login is either it or about to arrive, it is revoked only by
one that is on its way to replace or drop it, and a logout that was answered has
left no live token. The refinement maps an `Issue` of a login to
`SignIn`, a revocation of the last live token to `SignOut`, a rotation to a
stutter.

`ClassAccess_proofs` proves `TypeCorrect`, `ScopesAreConsistent`,
`ReachableAreListed`, `DashboardsAgree` and `DashboardsSurvive`, for any
subjects, exams, classes, users and requests.

The argument. `RowsInv` is what the cascades keep. `EditInv` says that an update
which no other has met knows the scope of its class and deletes all of its rows,
so its commit leaves exactly its selection; one that has met another makes the
class `loose`. `ReadInv` is about readers. `Reads` says that while nothing a
dashboard needs is lost its class grants the exam, and whom it has still to visit
may take it: those it finds in the class are let in by the class, and to lose
one of them is what `lost` records. `Counts` says that whoever was counted is
still to be visited, with at least that evidence unless the exam is gone, in which
case the visit fails and nothing is shown; or has been visited, with that much.

`ExamAnalytics_proofs` proves `TypeCorrect`, `EvidenceIsComplete`,
`ProfilesAreBacked`, `OnlyOverlapsConflict` and `RebuildsCover`, for any users,
attempts, skills, versions and requests.

The argument. `EvidenceComplete` must survive the commit of a submit that was
computed while others committed. `Derives` says that what a writing request sees
has observations in the table, or in its own flush, or still to be written; what
is committed meanwhile has brought its own observations with it, so nothing that
it sees is left without. `Shows` carries this to the profile that is stored,
`SnapshotsInv` keeps it once it is. `Alone` says that while a request meets
nothing, what it has read is still what there is: hash, profile and entries
agree, no key is taken, and a rebuild on demand knows the current version. It
does not say so of a submit, whose version may be from before a provider call. `WritersInv` keeps the attempts of concurrent submits
apart, which AttemptSession shows, and `OrderInv` gives every set of attempts a
last one.

`ExamCopies_proofs` proves `TypeCorrect`, `PublicationsAreWhole`,
`ClonesAreCounted`, `CopiesAreCurrent` and `MocksFit`, for any sections,
configurations, users, requests and bounds.

The argument. A configuration version stands for one content, and a blueprint
version for those it was approved with, which may become more but never fewer:
`Loaded` says that what a publish has loaded of the exam was committed with its
version, and that the blueprint it has found was approved under its number. `Aware` says that
a request which no commit to the publication has met holds the row as it is, so
that writing only the columns that differ writes the whole of it, and that the
counter a clone has loaded is never ahead of the clones made. `Current` says that
until the exam changes a request has what is current.

`MocksFit` rests on what `distribute_points` computes: that base and remainder
add up to the points of the section is shown by induction over the questions
(`PointsAreAll`). A mock of the provider has passed `validate_mock`, which counts.

`AnalyticsModel_proofs` proves `TrendsAreRecent`, `TargetsAreBalanced` and
`TimeAddsNothing`, for any skills and blueprint, any number of answers on a skill
in an attempt, and any bounds.

The argument. The invariant `ModelInv` is small: the profile is calculated from the
history (`profile`), and a history has observations of past attempts, not of the
future, the oldest first and those of one attempt together (`HistoryInv`). Without
the order the last five attempts of the code would not be the five latest. The rest
is about what the operators compute for any input:

- *Induction.* The library's induction theorems take an operator, which the
  provers cannot instantiate, but they also say that `<` on numbers is
  well-founded, as a fact about sets of pairs. `LeastNat` and `SetInduction`
  follow from it, and with them that recursive functions exist (`Recursion`,
  `GivenUpto`) and what each value is. So a sum, a sorted list or a list
  comprehension is known by its values: `SumIs`, `KeepIs`, `InsertIs`,
  `SortedIs`, `DistinctIs`, `PowerOf2Is`, `RemainingIs`.
- *Trends.* `Recent` names at most five attempts in order, and at most four are
  later than any of them (`RecentIs`, `FewLater`); a sum of two cannot be higher
  than another sum of two unless one of them is (`TrendOfIs`).
- *Targets.* Sorting and filtering lose and add no skill (`RankedIs`,
  `KeepWhere`). The pools begin with at most two confirmed gaps, so an unknown
  skill is among their first three entries (`PoolsAre`), and the first three
  entries are always among the first three different ones (`FirstThree`).
- *Time.* A half-life halves every weight, so averages, and with them mastery and
  consistency, stay exactly what they are, rounding included (`AverageHalved`,
  `QuotientHalved`, `ConsistencyIs`). Evidence is halved, so coverage does not
  rise (`RemainingFalls`), nor the confidence (`ConfidenceFalls`), and every
  quotient, sum and clamp on the way to the readiness is monotone
  (`OverallFalls`, `IndexFalls`). `SquareRootIs` shows that the `CHOOSE` of the
  square root has something to choose.

Liveness under fairness is out of the prover's reach, so `RequestsEnd` and
`JobsSettle` stay with TLC; every other property of a passing run is a theorem.
`OverviewAnswers` and the properties of the four
configurations named in section 8 fail, so there is nothing to prove of them.

## 7. What is not modelled

- **ExamRun**, the autosave screen: React effects and debounce timers. The
  requests it sends are AttemptSession's, which takes them in any order, so what
  the screen may lose is not shown, but what the server makes of it is.
- The graders themselves (`LocalScore` is a parameter with an assumption), and
  inside AnalyticsModel the urgency of the target date, the timing signal and
  the wording of explanations.
- Floats: AnalyticsModel rounds integers down, and halving all weights cancels in
  it exactly. What the rounding of floats, or weights that underflow to a sum of
  zero, would do to a profile is not covered by `WaitingAddsNothing`.
- What a dashboard does with what it has read: the privacy threshold of three
  learners, the support threshold of a skill, median and percentages are
  expressions over the profiles at the end of one function, and unit tests reach
  them. ClassAccess has what they are computed from.
- Two loops of the analytics store are one step each: the check for existing
  observations of each attempt with the flush after it (`FindMissing`,
  `WriteObservations`), and the SELECT of the blueprint with one for each skill
  (`LoadTaxonomy`). The skills of an exam depend on its version alone in the model;
  in the code `_blueprint_skills` falls back to the configuration when files
  have marked the blueprint stale.
- Shadow results, cohort events, and the reports on data quality and operations:
  written or counted, and read by nothing that is modelled.
- Descriptive fields: titles, dates and status of an exam, `update_workspace`,
  names of classes and subjects, the user's own profile, the list of publications.
- Parsing and chunking of documents, retrieval, embeddings and the AI provider:
  outcomes of a step in the modules that call them.
- Authentication inside the other modules: their requests come from whoever may
  send them. ClassAccess has the predicates.
- `cancel_pending_upload`, which no route calls; the result a concurrent reader
  sees between two SELECTs of a GET (dashboards and profiles aside).
- Migrations, deployment, logging, middleware and the other screens.

## 8. Where the documentation and the code part

`access_overview` is a run that TLC is expected to find violated. README.md:97
says classes can be scoped to selected exams, and a test asserts that the
overview of a class member answers. `analytics_overview` collects the exams of
every subject that `accessible_workspace_filter` opens, and computes the profile
of each through `get_exam`, which applies `accessible_exam_filter`: with one exam
in the subject that the class has not selected, the whole overview fails.

Four more have a configuration with the counterexample:

- `attempt_immutable`: the README's "immutable submit". A save that tested the
  status before a submit committed changes a response after the evaluation.
  `LateWritesOverlap`, which is proved, says that nothing worse happens.
- `attempt_versions`: "Response changed. Reload before saving again." The
  version is compared with attributes loaded before the lock, so two saves with
  the same version may both succeed.
- `blueprint_immutable`: "Immutable-by-version" of ExamBlueprint. An edit that
  loaded a draft rewrites it after its approval.
- `exam_versions`: the configuration version is compared with an unlocked row,
  so an outdated editor can overwrite a newer configuration.

These were met by reading and have no configuration of their own; the first four
are behaviours of the models, which the properties name as exceptions:

- `src/frontend/src/app/api/backend/[...path]/route.ts:17`: a refresh that the API
  answers with 500 or 503 counts as "no session", so a passing failure of the
  backend signs the browser out with a refresh token that is still good
  (`RefreshFails`; `SignedOutForCause` names it as a cause of its own);
- `src/frontend/src/app/api/auth/logout/route.ts:11`: the logout route ignores
  whether the backend answered, and reports success. After a failure the refresh
  token stays usable, although README.md:269 has "End a session"
  (`LogoutFails`; `LogoutEndsSession` is about logouts that were answered);
- `modules/exams/attempt_service.py:630` and `:743`: a submit graded by the
  provider enters new skills of the taxonomy under the configuration version
  from before the call, if the exam was reviewed during it, because the rollback
  expires nothing when no transaction is open (`SubmitGraded`; `RebuildCovers`);
- `modules/blueprints/service.py:279` and `:298`: a stale version can be edited and
  approved again under its number, so that a publication that names the version
  has a content which the version no longer has (`Approve`; `PublicationWhole`
  therefore asks for a content it was once approved with);
- two concurrent starts create two active attempts (`start_attempt` locks
  nothing);
- a submit that loses a race is answered with an integrity error although
  submitting is documented as idempotent;
- `modules/exams/attempt_service.py:247` and `:323` take the maximum of a mock
  from the configuration's total points, not from its questions; ExamCopies
  checks that sections add up (`MockFits`), which makes them equal exactly if
  the sections add up to the total;
- `modules/analytics/model.py:263`: "ready" needs ten points above the
  threshold and is unreachable for a pass threshold above 90;
- `modules/analytics/model.py:211`: a confidence just below 0.35 is rounded to it, so
  that a skill shown with low evidence may be listed among the established gaps.
