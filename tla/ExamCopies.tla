----------------------------- MODULE ExamCopies -----------------------------
(***************************************************************************)
(* What is made from one exam while its owner goes on reviewing it: its    *)
(* publication in the library, the private clones that others make of that *)
(* (modules/library/service.py), and its mocks (generate_mock of modules/  *)
(* exams/attempt_service.py, with the validation of ai/validators.py).     *)
(*                                                                         *)
(* Every SELECT is an action of its own under READ COMMITTED and no row is *)
(* locked by one; a flush is one action with the commit after it, writes   *)
(* the columns that differ from the loaded ones, and fails on a unique key *)
(* or a foreign key.  How the exam and its blueprint come to be what they  *)
(* are is BlueprintLifecycle's; here they change in whole commits.         *)
(***************************************************************************)
EXTENDS Naturals, Sequences, FiniteSets

CONSTANTS
  Sections,      \* ids of blueprint sections
  Configs,       \* exam.blueprint and exam.rules: [Sections -> [count, points]]
  Forms,         \* those that the exam form may send
  Answers,       \* mocks that the provider may return
  Users,         \* who clones
  Requests,      \* HTTP requests that can be in flight together
  MaxConfig,     \* configuration versions (TLC bound)
  MaxBlueprint,  \* blueprint versions (TLC bound)
  MaxClones,     \* clones made (TLC bound)
  None

ASSUME ConfigsAssumption ==
  /\ Configs \subseteq [Sections -> [count : Nat \ {0}, points : Nat \ {0}]]
  /\ Forms \subseteq Configs
ASSUME AnswersAssumption ==
  Answers \subseteq [questions : [Sections -> Seq(Nat)], sound : BOOLEAN]
ASSUME BoundsAssumption ==
  MaxConfig \in Nat \ {0} /\ MaxBlueprint \in Nat /\ MaxClones \in Nat

VARIABLES
  exam,        \* the exam's row: [config, version], None once it is deleted
  approved,    \* the approved blueprint's row: [version, content], None for none
  latest,      \* the latest version, of any status; 0 for none
  publication, \* its row: [published, config, version, content, blueprint, count]
  cloneOf,     \* users with a row in library_clones
  copies,      \* cloned exams a user has
  mock,        \* the mock that was made last, until another request begins:
               \* [questions, sound, config, blueprint]
  pc, req,
  seenExam, seenBlueprint, seenPublication,    \* as the session loaded them
  (* History *)
  commits,     \* the configuration that each version number stood for
  approvals,   \* the contents that each blueprint version was approved with
  made,        \* clones made of the publication
  moved,       \* the exam or its blueprints changed during this request
  met,         \* another publish, or another clone, changed the publication since
               \* this publish, or this clone, loaded it
  torn,        \* the publication is the work of two publishes that met
  raced        \* two clones met

contract == <<exam, approved, latest, commits, approvals>>
library == <<publication, cloneOf, copies, made, torn, raced>>
session == <<pc, req, seenExam, seenBlueprint, seenPublication, moved, met>>
vars == <<contract, library, mock, session>>

Idle == [op |-> "none"]
Request == [op : {"publish", "unpublish", "mock"}] \cup [op : {"clone"}, user : Users]
Blueprints == 1..MaxBlueprint
BlueprintRow == [version : Blueprints, content : Configs]
ExamRow == [config : Configs \cup {None}, version : 1..MaxConfig]
PublicationRow ==
  [published : BOOLEAN, config : Configs \cup {None}, version : 1..MaxConfig,
   content : Configs, blueprint : Blueprints, count : 0..MaxClones]
Mock == [questions : [Sections -> Seq(Nat)], sound : BOOLEAN,
         config : Configs, blueprint : BlueprintRow \cup {None}]

ASSUME NoneAssumption ==
  None \notin Configs \cup BlueprintRow \cup ExamRow \cup PublicationRow

VersionOf(row) == IF row = None THEN 0 ELSE row.version

TypeOK ==
  /\ exam \in ExamRow \cup {None}
  /\ approved \in BlueprintRow \cup {None}
  /\ latest \in VersionOf(approved)..MaxBlueprint
  /\ commits \in [1..MaxConfig -> Configs \cup {None}]
  /\ approvals \in [Blueprints -> SUBSET Configs]
  /\ publication \in PublicationRow \cup {None}
  /\ cloneOf \subseteq Users /\ copies \in [Users -> 0..MaxClones]
  /\ mock \in Mock \cup {None}
  /\ pc \in [Requests -> {"idle", "approved", "latest", "generate", "provider",
                          "publication", "existing", "write"}]
  /\ req \in [Requests -> {Idle} \cup Request]
  /\ seenExam \in [Requests -> ExamRow \cup {None}]
  /\ seenBlueprint \in [Requests -> BlueprintRow \cup {None}]
  /\ seenPublication \in [Requests -> PublicationRow \cup {None}]
  /\ made \in 0..MaxClones /\ torn \in BOOLEAN /\ raced \in BOOLEAN
  /\ moved \in [Requests -> BOOLEAN] /\ met \in [Requests -> BOOLEAN]

Init ==
  /\ exam = [config |-> None, version |-> 1]
  /\ approved = None /\ latest = 0
  /\ publication = None /\ cloneOf = {} /\ copies = [u \in Users |-> 0]
  /\ mock = None
  /\ pc = [r \in Requests |-> "idle"] /\ req = [r \in Requests |-> Idle]
  /\ seenExam = [r \in Requests |-> None]
  /\ seenBlueprint = [r \in Requests |-> None]
  /\ seenPublication = [r \in Requests |-> None]
  /\ commits = [n \in 1..MaxConfig |-> None]
  /\ approvals = [v \in Blueprints |-> {}]
  /\ made = 0 /\ torn = FALSE /\ raced = FALSE
  /\ moved = [r \in Requests |-> FALSE] /\ met = [r \in Requests |-> FALSE]

-----------------------------------------------------------------------------
(* Points and questions.  A section's questions are given by their points.  *)

Total(points) ==
  LET sum[n \in 0..Len(points)] == IF n = 0 THEN 0 ELSE sum[n - 1] + points[n]
  IN sum[Len(points)]

\* Mutant: the remainder of the division is lost.
DistributePoints_NoRemainder(total, count) ==
  [i \in 1..count |-> total \div count]

\* distribute_points: the first questions take one point of the remainder each.
DistributePoints(total, count) ==
  [i \in 1..count |-> (total \div count) + (IF i <= total % count THEN 1 ELSE 0)]

Distributable(config) == \A s \in Sections : config[s].points >= config[s].count

DeterministicMock(config) ==
  [questions |-> [s \in Sections |-> DistributePoints(config[s].points, config[s].count)],
   sound |-> TRUE]

\* validate_mock.  m.sound stands for its tests of a question by itself: type,
\* skills, citations, prompt, rubric, answer key.
ValidMock(m, config) ==
  /\ m.sound
  /\ \A s \in Sections :
       /\ Len(m.questions[s]) = config[s].count
       /\ Total(m.questions[s]) = config[s].points

-----------------------------------------------------------------------------
(* The owner reviews the exam (BlueprintLifecycle): each a commit.           *)

Reviewed == moved' = [r \in Requests |-> req[r].op \in {"publish", "mock"}]

Review(changes) ==
  /\ exam # None
  /\ changes
  /\ Reviewed
  /\ UNCHANGED <<library, mock, pc, req, seenExam, seenBlueprint, seenPublication, met>>

Configured(c) ==
  /\ exam.version < MaxConfig
  /\ exam' = [config |-> c, version |-> exam.version + 1]
  /\ commits' = [commits EXCEPT ![exam.version + 1] = c]

\* update_exam.
Configure(c) == Review(Configured(c) /\ UNCHANGED <<approved, latest, approvals>>)

\* approve_blueprint, of any version that is not approved: a draft, or one that
\* was stale or failed and edited, which may change what its number stands for.
\* (The edit is part of it: no other request reads a version before.)
Approve(v, c) ==
  Review(/\ v \in 1..latest /\ (approved # None => approved.version # v)
         /\ Configured(c)
         /\ approved' = [version |-> v, content |-> c]
         /\ approvals' = [approvals EXCEPT ![v] = @ \cup {c}]
         /\ UNCHANGED latest)

\* extract_blueprint: a version that is not approved yet.
Draft ==
  Review(/\ latest < MaxBlueprint /\ latest' = latest + 1
         /\ UNCHANGED <<exam, approved, commits, approvals>>)

\* Mutant: what is stale is taken away, and still counts as approved.
MarkStale_Deletes ==
  Review(/\ approved # None /\ latest' = approved.version - 1
         /\ UNCHANGED <<exam, approved, commits, approvals>>)

\* mark_blueprints_stale, as files come and go.
MarkStale ==
  Review(/\ approved # None /\ approved' = None
         /\ UNCHANGED <<exam, latest, commits, approvals>>)

\* delete_exam takes blueprints, mocks and the publication with it, and the
\* rows that tell where its clones are from; the cloned exams stay.
DeleteExam ==
  /\ exam # None
  /\ exam' = None /\ approved' = None /\ latest' = 0
  /\ commits' = [n \in 1..MaxConfig |-> None]
  /\ approvals' = [v \in Blueprints |-> {}]
  /\ publication' = None /\ cloneOf' = {} /\ mock' = None
  /\ made' = 0 /\ torn' = FALSE /\ raced' = FALSE
  /\ Reviewed
  /\ UNCHANGED <<copies, pc, req, seenExam, seenBlueprint, seenPublication, met>>

-----------------------------------------------------------------------------
(* Steps of a request.                                                       *)

\* TLC bound: a mock is generated while no other request is in flight.  It
\* writes no row that one of the library reads, and reads none that one writes.
Apart(r, op) ==
  \A q \in Requests \ {r} : IF op = "mock" THEN pc[q] = "idle" ELSE req[q].op # "mock"

Begin(r, request, first) ==
  /\ pc[r] = "idle" /\ Apart(r, request.op)
  /\ pc' = [pc EXCEPT ![r] = first] /\ req' = [req EXCEPT ![r] = request]
  /\ mock' = None
  /\ UNCHANGED <<contract, library, seenBlueprint, moved, met>>

Goes(r, next) ==
  /\ pc' = [pc EXCEPT ![r] = next]
  /\ UNCHANGED <<contract, library, mock, req, moved, met>>

\* The handler returns or raises; what it did not commit is rolled back.
Finish(r) ==
  /\ pc' = [pc EXCEPT ![r] = "idle"] /\ req' = [req EXCEPT ![r] = Idle]
  /\ seenExam' = [seenExam EXCEPT ![r] = None]
  /\ seenBlueprint' = [seenBlueprint EXCEPT ![r] = None]
  /\ seenPublication' = [seenPublication EXCEPT ![r] = None]
  /\ moved' = [moved EXCEPT ![r] = FALSE]

At(r, step, op) == pc[r] = step /\ req[r].op = op

\* 404, 409 and 422 answers, failed constraints, a provider that fails, and the
\* death of the process: at any step.
Fail(r) ==
  /\ pc[r] # "idle"
  /\ Finish(r) /\ met' = [met EXCEPT ![r] = FALSE]
  /\ UNCHANGED <<contract, library, mock>>

\* get_owned_exam; a mock needs a configured exam.
LoadExam(r) ==
  /\ exam # None
  /\ \E op \in {"publish", "mock"} :
       /\ op = "mock" => exam.config # None
       /\ Begin(r, [op |-> op], "approved")
  /\ seenExam' = [seenExam EXCEPT ![r] = exam] /\ UNCHANGED seenPublication

\* _approved_blueprint; a mock does without one.
ReadApproved(r) ==
  /\ pc[r] = "approved"
  /\ req[r].op = "publish" => approved # None
  /\ seenBlueprint' = [seenBlueprint EXCEPT ![r] = approved]
  /\ Goes(r, IF req[r].op = "mock" THEN "latest" ELSE "publication")
  /\ UNCHANGED <<seenExam, seenPublication>>

-----------------------------------------------------------------------------
(* The library.                                                              *)

LoadPublication(r) ==
  /\ pc[r] = "publication"
  /\ seenPublication' = [seenPublication EXCEPT ![r] = publication]
  /\ Goes(r, "write") /\ UNCHANGED <<seenExam, seenBlueprint>>

\* unpublish_exam; a deleted exam has no publication either.
BeginUnpublish(r) ==
  /\ publication # None
  /\ Begin(r, [op |-> "unpublish"], "write")
  /\ seenPublication' = [seenPublication EXCEPT ![r] = publication]
  /\ UNCHANGED seenExam

\* get_publication shows what is published.
BeginClone(r) ==
  /\ publication # None /\ publication.published
  /\ \E u \in Users : Begin(r, [op |-> "clone", user |-> u], "existing")
  /\ seenPublication' = [seenPublication EXCEPT ![r] = publication]
  /\ UNCHANGED seenExam

\* The publication is committed: those that have loaded it have an old one.
HasLoaded(q) == req[q].op \in {"publish", "clone"} /\ pc[q] \in {"existing", "write"}
Stored(r, row) ==
  /\ publication' = row
  /\ met' = [q \in Requests |->
               q # r /\ (met[q] \/ (HasLoaded(q) /\ req[q].op = req[r].op))]

\* publish_exam inserts the first publication of an exam,
InsertPublication(r) ==
  /\ At(r, "write", "publish") /\ seenPublication[r] = None
  /\ publication = None /\ exam # None
  /\ Stored(r, [published |-> TRUE, config |-> seenExam[r].config,
                version |-> seenExam[r].version,
                content |-> seenBlueprint[r].content,
                blueprint |-> seenBlueprint[r].version, count |-> 0])
  /\ torn' = FALSE /\ raced' = FALSE /\ made' = 0
  /\ Finish(r) /\ UNCHANGED <<contract, cloneOf, copies, mock>>

Written(loaded, new, stored) == IF new = loaded THEN stored ELSE new

\* Mutant: a later publish only makes it visible again, with the new versions.
UpdatePublication_KeepsRules(r) ==
  /\ At(r, "write", "publish") /\ seenPublication[r] # None /\ publication # None
  /\ Stored(r, [publication EXCEPT !.published = TRUE,
                                   !.version = seenExam[r].version,
                                   !.blueprint = seenBlueprint[r].version])
  /\ torn' = met[r]
  /\ Finish(r) /\ UNCHANGED <<contract, cloneOf, copies, made, raced, mock>>

\* and writes over it later, column by column.
UpdatePublication(r) ==
  LET old == seenPublication[r]
  IN /\ At(r, "write", "publish") /\ old # None /\ publication # None
     /\ Stored(r, [published |-> Written(old.published, TRUE, publication.published),
                   config |-> Written(old.config, seenExam[r].config, publication.config),
                   version |-> Written(old.version, seenExam[r].version,
                                       publication.version),
                   content |-> Written(old.content, seenBlueprint[r].content,
                                       publication.content),
                   blueprint |-> Written(old.blueprint, seenBlueprint[r].version,
                                         publication.blueprint),
                   count |-> publication.count])
     /\ torn' = met[r]
     /\ Finish(r) /\ UNCHANGED <<contract, cloneOf, copies, made, raced, mock>>

Unpublish(r) ==
  /\ At(r, "write", "unpublish") /\ publication # None
  /\ Stored(r, [publication EXCEPT
                  !.published = Written(seenPublication[r].published, FALSE, @)])
  /\ Finish(r) /\ UNCHANGED <<contract, cloneOf, copies, made, torn, raced, mock>>

\* Somebody who has a clone is told where it is.
AlreadyCloned(r) ==
  /\ At(r, "existing", "clone") /\ req[r].user \in cloneOf
  /\ Finish(r) /\ met' = [met EXCEPT ![r] = FALSE]
  /\ UNCHANGED <<contract, library, mock>>

FindNoClone(r) ==
  /\ At(r, "existing", "clone") /\ req[r].user \notin cloneOf
  /\ Goes(r, "write") /\ UNCHANGED <<seenExam, seenBlueprint, seenPublication>>

\* Mutant: a user and a publication are no unique key of library_clones.
CommitClone_AnyKey(r) ==
  /\ At(r, "write", "clone") /\ publication # None /\ made < MaxClones
  /\ cloneOf' = cloneOf \cup {req[r].user}
  /\ copies' = [copies EXCEPT ![req[r].user] = @ + 1]
  /\ Stored(r, [publication EXCEPT !.count = seenPublication[r].count + 1])
  /\ made' = made + 1 /\ raced' = (raced \/ met[r])
  /\ Finish(r) /\ UNCHANGED <<contract, torn, mock>>

\* The subject, the exam with its approved blueprint, and the row that tells of
\* it.  The counter is written as one more than it was when it was loaded.
CommitClone(r) ==
  /\ At(r, "write", "clone") /\ publication # None /\ made < MaxClones
  /\ req[r].user \notin cloneOf
  /\ cloneOf' = cloneOf \cup {req[r].user}
  /\ copies' = [copies EXCEPT ![req[r].user] = @ + 1]
  /\ Stored(r, [publication EXCEPT !.count = seenPublication[r].count + 1])
  /\ made' = made + 1 /\ raced' = (raced \/ met[r])
  /\ Finish(r) /\ UNCHANGED <<contract, torn, mock>>

\* A user deletes the cloned exam, or its subject: the row goes with it.  (TLC
\* bound: while another clone can be made.)
DeleteCopy(u) ==
  /\ copies[u] > 0 /\ made < MaxClones
  /\ copies' = [copies EXCEPT ![u] = @ - 1] /\ cloneOf' = cloneOf \ {u}
  /\ UNCHANGED <<contract, publication, made, torn, raced, mock, session>>

-----------------------------------------------------------------------------
(* Mocks.                                                                    *)

\* Mutant: an older approved version will do while a new one is reviewed.
ReadLatest_AnyStatus(r) ==
  /\ pc[r] = "latest"
  /\ Goes(r, "generate") /\ UNCHANGED <<seenExam, seenBlueprint, seenPublication>>

\* "Review and approve the latest blueprint before generating a mock".  A row
\* that the session has loaded as approved is given back as it was.
ReadLatest(r) ==
  /\ pc[r] = "latest"
  /\ latest \in {0, VersionOf(seenBlueprint[r]), VersionOf(approved)}
  /\ Goes(r, "generate") /\ UNCHANGED <<seenExam, seenBlueprint, seenPublication>>

StoreMock(r, m) ==
  /\ exam # None
  /\ mock' = [questions |-> m.questions, sound |-> m.sound,
              config |-> seenExam[r].config, blueprint |-> seenBlueprint[r]]
  /\ Finish(r) /\ met' = [met EXCEPT ![r] = FALSE]
  /\ UNCHANGED <<contract, library>>

\* Without a model, or without chunks of its files.
GenerateLocally(r) ==
  /\ pc[r] = "generate" /\ Distributable(seenExam[r].config)
  /\ StoreMock(r, DeterministicMock(seenExam[r].config))

\* The transaction ends before the provider is called.
CallProvider(r) ==
  /\ pc[r] = "generate"
  /\ Goes(r, "provider") /\ UNCHANGED <<seenExam, seenBlueprint, seenPublication>>

\* An answer with errors is asked for again, or the request fails.
StoreAnswer(r) ==
  /\ pc[r] = "provider"
  /\ \E m \in Answers : ValidMock(m, seenExam[r].config) /\ StoreMock(r, m)

Next ==
  \/ \E c \in Forms : Configure(c)
  \/ \E c \in Configs, v \in Blueprints : Approve(v, c)
  \/ Draft \/ MarkStale \/ DeleteExam
  \/ \E u \in Users : DeleteCopy(u)
  \/ \E r \in Requests :
       \/ LoadExam(r) \/ ReadApproved(r) \/ Fail(r)
       \/ BeginUnpublish(r) \/ BeginClone(r) \/ LoadPublication(r)
       \/ InsertPublication(r) \/ UpdatePublication(r) \/ Unpublish(r)
       \/ AlreadyCloned(r) \/ FindNoClone(r) \/ CommitClone(r)
       \/ ReadLatest(r) \/ GenerateLocally(r) \/ CallProvider(r) \/ StoreAnswer(r)

Spec == Init /\ [][Next]_vars

-----------------------------------------------------------------------------
(* What must hold. *)

\* The rules of a publication are those of its configuration version, and its
\* blueprint is one that its blueprint version was approved with, though that may
\* stand for another by now; unless it is the work of two publishes that met:
\* each writes the columns that differ from what it loaded.
PublicationWhole ==
  publication # None /\ ~torn =>
    /\ publication.config = commits[publication.version]
    /\ publication.content \in approvals[publication.blueprint]

\* A user has at most one cloned exam of a publication, and the one the row
\* names; the counter never runs ahead of the clones that were made, and falls
\* behind only if two of them met.
ClonesCounted ==
  publication # None =>
    /\ \A u \in Users : copies[u] <= 1 /\ (copies[u] = 1 <=> u \in cloneOf)
    /\ publication.count <= made
    /\ ~raced => publication.count = made

\* Every mock has, section by section, the questions and the points of the
\* configuration it was made for, whoever wrote it: the provider by its answer,
\* after any number of bad ones, or the deterministic division of the points.
MockFits ==
  mock # None =>
    \A s \in Sections : /\ Len(mock.questions[s]) = mock.config[s].count
                        /\ Total(mock.questions[s]) = mock.config[s].points

\* What is made from an exam that nobody changed meanwhile is made from the
\* exam as it is, and from its approved blueprint, the latest there is.
MadeFromCurrent ==
  [][\A r \in Requests : ~moved[r] /\ pc[r] # "idle" /\ pc'[r] = "idle" =>
       /\ req[r].op = "publish" /\ publication' # publication /\ ~met[r] =>
            /\ publication'.config = exam.config
            /\ publication'.version = exam.version
            /\ approved = [version |-> publication'.blueprint,
                           content |-> publication'.content]
       /\ req[r].op = "mock" /\ mock' # mock =>
            /\ mock'.config = exam.config
            /\ mock'.blueprint = approved /\ latest = VersionOf(approved)]_vars

-----------------------------------------------------------------------------
(* Why it holds: what is true of the rows, and of a request at each step.    *)

RowsInv ==
  /\ exam = None => publication = None
  /\ publication # None => publication.version <= exam.version
  /\ exam # None =>
       /\ exam.config = commits[exam.version]
       /\ approved # None => approved.content \in approvals[approved.version]
       /\ \A u \in Users : copies[u] <= 1 /\ (copies[u] = 1 <=> u \in cloneOf)

Flow(r) ==
  /\ pc[r] = "idle" => req[r] = Idle
  /\ pc[r] # "idle" => req[r] \in Request
  /\ req[r].op = "publish" => pc[r] \in {"approved", "publication", "write"}
  /\ req[r].op = "unpublish" => pc[r] = "write"
  /\ req[r].op = "clone" => pc[r] \in {"existing", "write"}
  /\ req[r].op = "mock" => pc[r] \in {"approved", "latest", "generate", "provider"}

\* What it has loaded of the exam was committed with that version.
Loaded(r) ==
  /\ req[r].op \in {"publish", "mock"} => seenExam[r] # None
  /\ req[r].op = "mock" => seenExam[r].config # None
  /\ exam # None /\ req[r].op = "publish" =>
        /\ seenExam[r].version <= exam.version
        /\ seenExam[r].config = commits[seenExam[r].version]
        /\ pc[r] # "approved" =>
             /\ seenBlueprint[r] # None
             /\ seenBlueprint[r].content \in approvals[seenBlueprint[r].version]

SameEdition(p, q) ==
  /\ p = None <=> q = None
  /\ p # None => /\ p.config = q.config /\ p.version = q.version
                 /\ p.content = q.content /\ p.blueprint = q.blueprint

\* It is told of those that change the publication after it has loaded it.
Aware(r) ==
  /\ met[r] => HasLoaded(r)
  /\ req[r].op = "clone" => seenPublication[r] # None
  /\ exam # None /\ req[r].op = "clone" =>
        publication # None /\ seenPublication[r].count <= made
  /\ exam # None /\ HasLoaded(r) =>
       /\ publication = None => seenPublication[r] = None
       /\ ~met[r] => IF req[r].op = "publish"
                      THEN SameEdition(seenPublication[r], publication)
                      ELSE seenPublication[r].count = publication.count

\* Until the exam changes it has what is current.
Current(r) ==
  ~moved[r] /\ req[r].op \in {"publish", "mock"} =>
    /\ seenExam[r] = exam
    /\ pc[r] # "approved" => seenBlueprint[r] = approved
    /\ pc[r] \in {"generate", "provider"} => latest = VersionOf(approved)

CopiesInv ==
  /\ RowsInv /\ PublicationWhole /\ ClonesCounted
  /\ \A r \in Requests : Flow(r) /\ Loaded(r) /\ Aware(r) /\ Current(r)
==============================================================================
