------------------------- MODULE BlueprintLifecycle -------------------------
(***************************************************************************)
(* The blueprint versions of one exam and the exam's configuration:        *)
(* extraction, editing, approval and staleness of blueprints               *)
(* (app/modules/blueprints/service.py), and the update of an exam with its *)
(* optimistic configuration version (app/modules/exams/service.py), as     *)
(* concurrent HTTP requests of the exam's owner.                           *)
(*                                                                         *)
(* A SELECT is one action and sees what is committed (READ COMMITTED); no  *)
(* row is selected FOR UPDATE.  A bulk UPDATE takes two: it chooses its    *)
(* rows when it starts, and then waits for those that another request has  *)
(* updated and not committed, leaving out the ones that match no longer.   *)
(* The flush of an ORM object writes the columns whose value differs from  *)
(* the loaded one, and is one action with the commit after it.             *)
(***************************************************************************)
EXTENDS Naturals, FiniteSets

CONSTANTS
  Contents,     \* contents of a blueprint, up to what its review tells apart
  Valid,        \* those that validate_blueprint accepts
  Resolved,     \* those without unresolved fields, with all rules given
  Forms,        \* configurations that the exam form may send
  Keys,         \* values of the Idempotency-Key header
  MaxVersion,   \* versions of the blueprint (TLC bound)
  MaxConfig,    \* updates start only below this configuration version (TLC bound)
  Requests,     \* HTTP requests that can be in flight together
  None          \* SQL NULL / Python None

ASSUME ContentsAssumption == Valid \subseteq Contents /\ Resolved \subseteq Contents
ASSUME FormsAssumption == Forms \subseteq Contents
ASSUME BoundsAssumption == MaxVersion \in Nat /\ MaxConfig \in Nat \ {0}
ASSUME NoneAssumption == None \notin Contents /\ None \notin Keys /\ None \notin Nat
ASSUME RequestsAssumption == IsFiniteSet(Requests)

Versions == 1..MaxVersion

VARIABLES
  (* exam_blueprints *)
  status,      \* of each version, "absent" before its row
  content,     \* of each version, None while it is {}
  key,         \* the idempotency key of each version
  (* exams *)
  config,      \* exam.blueprint and exam.rules; None is an empty blueprint
  configVersion,
  (* Requests *)
  pc, req,
  found,       \* the blueprint row as the session loaded it: [status, content]
  exam,        \* the exam row as the session loaded it: [config, version]
  rows,        \* versions its bulk UPDATE has chosen, and then those it has updated
  (* History *)
  met,         \* another review or configuration request was in flight during this one
  contended,   \* versions whose approval met another such request
  answered     \* versions given in answer to extractions with a key

blueprintVars == <<status, content, key>>
examVars == <<config, configVersion>>
sessionVars == <<found, exam, rows>>
historyVars == <<contended, answered>>
vars == <<blueprintVars, examVars, pc, req, sessionVars, met, historyVars>>

-----------------------------------------------------------------------------
(* Types *)

Status == {"absent", "extracting", "draft", "approved", "failed", "stale"}
Idle == [op |-> "none"]
ExtractReq == [op : {"extract"}, key : Keys \cup {None}, version : Versions \cup {None}]
EditReq == [op : {"edit"}, version : Versions, content : Contents]
ApproveReq == [op : {"approve"}, version : Versions]
ConfigureReq == [op : {"configure"}, config : Forms, expected : Nat \cup {None}]
FilesReq == [op : {"files"}]
NotFound == [status |-> "absent", content |-> None]
NoExam == [config |-> None, version |-> 0]
PC == {"idle", "find_key", "max_version", "insert", "provider", "load",
       "load_exam", "choose", "update", "write"}

TypeOK ==
  /\ status \in [Versions -> Status]
  /\ content \in [Versions -> Contents \cup {None}]
  /\ key \in [Versions -> Keys \cup {None}]
  /\ config \in Contents \cup {None}
  /\ configVersion \in Nat
  /\ pc \in [Requests -> PC]
  /\ req \in [Requests -> {Idle} \cup ExtractReq \cup EditReq \cup ApproveReq
                            \cup ConfigureReq \cup FilesReq]
  /\ found \in [Requests -> [status : Status, content : Contents \cup {None}]]
  /\ exam \in [Requests -> [config : Contents \cup {None}, version : Nat]]
  /\ rows \in [Requests -> SUBSET Versions]
  /\ met \in [Requests -> BOOLEAN]
  /\ contended \subseteq Versions
  /\ answered \in [Keys -> SUBSET Versions]

Init ==
  /\ status = [v \in Versions |-> "absent"]
  /\ content = [v \in Versions |-> None]
  /\ key = [v \in Versions |-> None]
  /\ config = None
  /\ configVersion = 1
  /\ pc = [r \in Requests |-> "idle"]
  /\ req = [r \in Requests |-> Idle]
  /\ found = [r \in Requests |-> NotFound]
  /\ exam = [r \in Requests |-> NoExam]
  /\ rows = [r \in Requests |-> {}]
  /\ met = [r \in Requests |-> FALSE]
  /\ contended = {}
  /\ answered = [k \in Keys |-> {}]

-----------------------------------------------------------------------------
(* Requests *)

Reviewing(r) == req[r].op \in {"edit", "approve", "configure"}

\* A request reaches its handler.  One that reviews or configures meets those
\* in flight, and they meet it.
Begin(r, request, first) ==
  /\ pc[r] = "idle"
  /\ pc' = [pc EXCEPT ![r] = first]
  /\ req' = [req EXCEPT ![r] = request]
  /\ LET others == {s \in Requests \ {r} : Reviewing(s)} IN
       met' = IF request.op \in {"edit", "approve", "configure"} /\ others # {}
                THEN [s \in Requests |-> met[s] \/ s \in others \cup {r}]
                ELSE met
  /\ UNCHANGED <<blueprintVars, examVars, sessionVars, historyVars>>

\* The handler returns or raises; what is not committed is rolled back.
Finish(r) ==
  /\ pc' = [pc EXCEPT ![r] = "idle"]
  /\ req' = [req EXCEPT ![r] = Idle]
  /\ found' = [found EXCEPT ![r] = NotFound]
  /\ exam' = [exam EXCEPT ![r] = NoExam]
  /\ rows' = [rows EXCEPT ![r] = {}]
  /\ met' = [met EXCEPT ![r] = FALSE]

\* The process or the connection dies.
RequestDies(r) ==
  /\ pc[r] # "idle"
  /\ Finish(r)
  /\ UNCHANGED <<blueprintVars, examVars, historyVars>>

At(r, location, op) == pc[r] = location /\ req[r].op = op

Existing == {v \in Versions : status[v] # "absent"}
Approved == {v \in Versions : status[v] = "approved"}

\* r has updated the row of version v and not committed.
Holds(r, v) == pc[r] = "write" /\ v \in rows[r]
Free(r, v) == \A s \in Requests \ {r} : ~Holds(s, v)

\* The flush leaves a column alone whose value is the loaded one.
Written(loaded, new, stored) == IF new = loaded THEN stored ELSE new

-----------------------------------------------------------------------------
(* POST /exams/{id}/blueprints/extractions and /blueprints/{id}/retry *)

Inserting == {r \in Requests : pc[r] \in {"find_key", "max_version", "insert"}}

\* Bounded so that every extraction in flight finds a version.
BeginExtract(r) ==
  /\ Cardinality(Inserting) + Cardinality(Existing) < MaxVersion
  /\ \E k \in Keys \cup {None} :
       Begin(r, [op |-> "extract", key |-> k, version |-> None], "find_key")

\* An extraction with the same key is answered with what that one made, in
\* whatever status it is.
FindKey(r) ==
  /\ At(r, "find_key", "extract")
  /\ LET same == {v \in Existing : req[r].key # None /\ key[v] = req[r].key} IN
       IF same = {}
         THEN /\ pc' = [pc EXCEPT ![r] = "max_version"]
              /\ UNCHANGED <<req, sessionVars, met, historyVars>>
         ELSE /\ answered' = [answered EXCEPT ![req[r].key] = @ \cup same]
              /\ Finish(r)
              /\ UNCHANGED contended
  /\ UNCHANGED <<blueprintVars, examVars>>

\* extraction_chunks finds no chunk of a READY file.
NoSources(r) ==
  /\ At(r, "max_version", "extract")
  /\ Finish(r)
  /\ UNCHANGED <<blueprintVars, examVars, historyVars>>

\* Mutant: the next version instead of the last.
NextOf(versions) ==
  IF versions = {} THEN 1 ELSE 1 + CHOOSE v \in versions : \A w \in versions : w <= v

MaxOf(versions) ==
  IF versions = {} THEN 0 ELSE CHOOSE v \in versions : \A w \in versions : w <= v

ReadMaxVersion(r) ==
  /\ At(r, "max_version", "extract")
  /\ req' = [req EXCEPT ![r].version = MaxOf(Existing) + 1]
  /\ pc' = [pc EXCEPT ![r] = "insert"]
  /\ UNCHANGED <<blueprintVars, examVars, sessionVars, met, historyVars>>

\* Mutant: the unique key on (exam_id, idempotency_key) is missing.
InsertAnyKey(r) ==
  /\ At(r, "insert", "extract")
  /\ LET v == req[r].version IN
       IF v \in Existing
         THEN Finish(r) /\ UNCHANGED <<status, key>>
         ELSE /\ status' = [status EXCEPT ![v] = "extracting"]
              /\ key' = [key EXCEPT ![v] = req[r].key]
              /\ pc' = [pc EXCEPT ![r] = "provider"]
              /\ UNCHANGED <<req, sessionVars, met>>
  /\ UNCHANGED <<content, examVars, historyVars>>

\* INSERT and commit.  The unique keys on (exam_id, version) and on
\* (exam_id, idempotency_key) fail an extraction that another has overtaken.
InsertRecord(r) ==
  /\ At(r, "insert", "extract")
  /\ LET v == req[r].version IN
       IF \/ v \in Existing
          \/ req[r].key # None /\ \E w \in Existing : key[w] = req[r].key
         THEN Finish(r) /\ UNCHANGED <<status, key>>
         ELSE /\ status' = [status EXCEPT ![v] = "extracting"]
              /\ key' = [key EXCEPT ![v] = req[r].key]
              /\ pc' = [pc EXCEPT ![r] = "provider"]
              /\ UNCHANGED <<req, sessionVars, met>>
  /\ UNCHANGED <<content, examVars, historyVars>>

\* The provider's last draft (or the deterministic one) is stored, as FAILED
\* when it is not valid; None: the provider has raised.  Both are committed.
StoreExtraction(r) ==
  /\ At(r, "provider", "extract")
  /\ LET v == req[r].version IN
       /\ \E c \in Contents \cup {None} :
            /\ content' = [content EXCEPT ![v] = c]
            /\ status' = [status EXCEPT ![v] = IF c \in Valid THEN "draft" ELSE "failed"]
       /\ answered' = IF req[r].key = None THEN answered
                      ELSE [answered EXCEPT ![req[r].key] = @ \cup {v}]
  /\ Finish(r)
  /\ UNCHANGED <<key, examVars, contended>>

-----------------------------------------------------------------------------
(* PATCH /blueprints/{id}: update_blueprint_draft *)

BeginEdit(r) ==
  \E v \in Existing, c \in Contents :
    Begin(r, [op |-> "edit", version |-> v, content |-> c], "load")

Editable == {"draft", "stale", "failed"}

\* Mutant: an approved version can be edited.
LoadForAnyEdit(r) ==
  /\ At(r, "load", "edit")
  /\ LET v == req[r].version IN
       found' = [found EXCEPT ![r] = [status |-> status[v], content |-> content[v]]]
  /\ pc' = [pc EXCEPT ![r] = "write"]
  /\ UNCHANGED <<blueprintVars, examVars, req, exam, rows, met, historyVars>>

LoadForEdit(r) ==
  /\ At(r, "load", "edit")
  /\ LET v == req[r].version IN
       IF status[v] \in Editable
         THEN /\ found' = [found EXCEPT ![r] = [status |-> status[v], content |-> content[v]]]
              /\ pc' = [pc EXCEPT ![r] = "write"]
              /\ UNCHANGED <<req, exam, rows, met>>
         ELSE Finish(r)
  /\ UNCHANGED <<blueprintVars, examVars, historyVars>>

CommitEdit(r) ==
  /\ At(r, "write", "edit")
  /\ LET v == req[r].version
         new == IF req[r].content \in Valid THEN "draft" ELSE "failed" IN
       /\ Free(r, v)
       /\ content' = [content EXCEPT ![v] = Written(found[r].content, req[r].content, @)]
       /\ status' = [status EXCEPT ![v] = Written(found[r].status, new, @)]
  /\ Finish(r)
  /\ UNCHANGED <<key, examVars, historyVars>>

-----------------------------------------------------------------------------
(* POST /blueprints/{id}/approve: approve_blueprint *)

BeginApprove(r) ==
  /\ configVersion < MaxConfig
  /\ \E v \in Existing : Begin(r, [op |-> "approve", version |-> v], "load")

\* A draft, with every field resolved, that validates again.
LoadForApprove(r) ==
  /\ At(r, "load", "approve")
  /\ LET v == req[r].version IN
       IF status[v] = "draft" /\ content[v] \in Resolved \cap Valid
         THEN /\ found' = [found EXCEPT ![r] = [status |-> status[v], content |-> content[v]]]
              /\ pc' = [pc EXCEPT ![r] = "load_exam"]
              /\ UNCHANGED <<req, exam, rows, met>>
         ELSE Finish(r)
  /\ UNCHANGED <<blueprintVars, examVars, historyVars>>

LoadExam(r) ==
  /\ At(r, "load_exam", "approve")
  /\ exam' = [exam EXCEPT ![r] = [config |-> config, version |-> configVersion]]
  /\ pc' = [pc EXCEPT ![r] = "choose"]
  /\ UNCHANGED <<blueprintVars, examVars, req, found, rows, met, historyVars>>

\* UPDATE ... WHERE status = 'approved', of approve_blueprint (every other
\* version) and of mark_exam_blueprints_stale (every version).
ChooseRows(r) ==
  /\ pc[r] = "choose"
  /\ rows' = [rows EXCEPT ![r] =
       IF req[r].op = "approve" THEN Approved \ {req[r].version} ELSE Approved]
  /\ pc' = [pc EXCEPT ![r] = "update"]
  /\ UNCHANGED <<blueprintVars, examVars, req, found, exam, met, historyVars>>

\* Mutant: the bulk UPDATE is forgotten.
UpdateNoRows(r) ==
  /\ pc[r] = "update"
  /\ rows' = [rows EXCEPT ![r] = {}]
  /\ pc' = [pc EXCEPT ![r] = "write"]
  /\ UNCHANGED <<blueprintVars, examVars, req, found, exam, met, historyVars>>

UpdateRows(r) ==
  /\ pc[r] = "update"
  /\ \A v \in rows[r] : Free(r, v)
  /\ rows' = [rows EXCEPT ![r] = @ \cap Approved]
  /\ pc' = [pc EXCEPT ![r] = "write"]
  /\ UNCHANGED <<blueprintVars, examVars, req, found, exam, met, historyVars>>

\* The flush of the exam and of the approved version, and the commit.
CommitApproval(r) ==
  /\ At(r, "write", "approve")
  /\ LET v == req[r].version IN
       /\ Free(r, v)
       /\ status' = [w \in Versions |-> IF w = v THEN "approved"
                                        ELSE IF w \in rows[r] THEN "stale" ELSE status[w]]
       /\ contended' = IF met[r] THEN contended \cup {v} ELSE contended \ {v}
  /\ config' = Written(exam[r].config, found[r].content, config)
  /\ configVersion' = exam[r].version + 1
  /\ Finish(r)
  /\ UNCHANGED <<content, key, answered>>

-----------------------------------------------------------------------------
(* PATCH /exams/{id}: update_exam, with the blueprint or the rules given *)

\* The version is optional; a client names the one it has read, which another
\* request may overtake before it is compared.
BeginConfigure(r) ==
  /\ configVersion < MaxConfig
  /\ \E c \in Forms, n \in {None, configVersion} :
       Begin(r, [op |-> "configure", config |-> c, expected |-> n], "load_exam")

LoadForConfigure(r) ==
  /\ At(r, "load_exam", "configure")
  /\ IF req[r].expected \in {None, configVersion}
       THEN /\ exam' = [exam EXCEPT ![r] = [config |-> config, version |-> configVersion]]
            /\ pc' = [pc EXCEPT ![r] = "write"]
            /\ UNCHANGED <<req, found, rows, met>>
       ELSE Finish(r)
  /\ UNCHANGED <<blueprintVars, examVars, historyVars>>

\* Mutant: the version is left to the client to count.
CommitSameVersion(r) ==
  /\ At(r, "write", "configure")
  /\ config' = Written(exam[r].config, req[r].config, config)
  /\ Finish(r)
  /\ UNCHANGED <<blueprintVars, configVersion, historyVars>>

CommitConfiguration(r) ==
  /\ At(r, "write", "configure")
  /\ config' = Written(exam[r].config, req[r].config, config)
  /\ configVersion' = exam[r].version + 1
  /\ Finish(r)
  /\ UNCHANGED <<blueprintVars, historyVars>>

-----------------------------------------------------------------------------
(* A file of the exam is completed or deleted (ArtifactIngestion): its      *)
(* transaction marks the approved versions stale.                           *)

BeginFiles(r) == Approved # {} /\ Begin(r, [op |-> "files"], "choose")

CommitFiles(r) ==
  /\ At(r, "write", "files")
  /\ status' = [v \in Versions |-> IF v \in rows[r] THEN "stale" ELSE status[v]]
  /\ Finish(r)
  /\ UNCHANGED <<content, key, examVars, historyVars>>

-----------------------------------------------------------------------------
(* The specification *)

ExtractSteps(r) ==
  \/ FindKey(r)
  \/ NoSources(r)
  \/ ReadMaxVersion(r)
  \/ InsertRecord(r)
  \/ StoreExtraction(r)

ReviewSteps(r) ==
  \/ LoadForEdit(r)
  \/ CommitEdit(r)
  \/ LoadForApprove(r)
  \/ LoadExam(r)
  \/ CommitApproval(r)

ConfigureSteps(r) == LoadForConfigure(r) \/ CommitConfiguration(r)
StaleSteps(r) == ChooseRows(r) \/ UpdateRows(r) \/ CommitFiles(r)

Arrive(r) ==
  \/ BeginExtract(r)
  \/ BeginEdit(r)
  \/ BeginApprove(r)
  \/ BeginConfigure(r)
  \/ BeginFiles(r)

Serve(r) == ExtractSteps(r) \/ ReviewSteps(r) \/ ConfigureSteps(r) \/ StaleSteps(r)

Next == \E r \in Requests : Arrive(r) \/ Serve(r) \/ RequestDies(r)

Spec == Init /\ [][Next]_vars

-----------------------------------------------------------------------------
(* Properties *)

\* Two versions are approved at once only when both approvals met another
\* review of the exam; extractions and file changes may overlap freely.
OneApproved ==
  \A v, w \in Approved : v # w => {v, w} \subseteq contended

\* An approval that met no other review is of a resolved and valid content,
\* and stays so: "Only a valid draft can be approved".
ApprovedIsValid ==
  \A v \in Approved \ contended : content[v] \in Resolved \cap Valid

\* However often and concurrently an extraction is sent with one idempotency
\* key, its successful answers name one version.
KeyAnswersOnce ==
  \A k \in Keys : \A v, w \in answered[k] : v = w

\* A version whose approval met no other review never changes its content
\* again before it is stale, and leaves the approval in no other way.
ApprovalFrozen ==
  [][\A v \in Approved \ contended :
       \/ status'[v] = "approved" /\ content'[v] = content[v]
       \/ status'[v] = "stale" /\ content'[v] = content[v]]_vars

\* A request that met no other review or configuration gives each new
\* configuration the next version number.
ConfigurationsNumbered ==
  [][config' # config =>
       \E r \in Requests :
         /\ pc[r] = "write" /\ pc'[r] = "idle"
         /\ ~met[r] => configVersion' = configVersion + 1]_vars

-----------------------------------------------------------------------------
(* The inductive invariant behind these properties *)

\* Reviews and configurations that are in flight together have met.
MeetingInv ==
  \A r, s \in Requests : r # s /\ Reviewing(r) /\ Reviewing(s) => met[r]

\* The extractions in flight and the versions there are never exceed the bound,
\* and the versions have no gap.
BoundInv ==
  /\ Cardinality(Inserting) + Cardinality(Existing) <= MaxVersion
  /\ \A v \in Existing, w \in Versions : w < v => w \in Existing

\* A version that is being extracted belongs to one request, and has its key.
ExtractionInv ==
  \A r \in Requests :
    /\ pc[r] \in {"find_key", "max_version", "insert", "provider"} => req[r].op = "extract"
    /\ pc[r] = "insert" =>
         /\ req[r].version \in Versions
         /\ \A w \in Versions : w < req[r].version => w \in Existing
    /\ pc[r] = "provider" =>
         /\ req[r].version \in Versions
         /\ status[req[r].version] = "extracting"
         /\ key[req[r].version] = req[r].key
         /\ \A s \in Requests \ {r} : pc[s] = "provider" => req[s].version # req[r].version

\* One version per key; the answers name versions that exist and have the key.
KeyInv ==
  /\ \A v, w \in Existing : key[v] = key[w] /\ key[v] # None => v = w
  /\ \A k \in Keys : \A v \in answered[k] : v \in Existing /\ key[v] = k

\* The rows a bulk UPDATE has updated are approved, and locked by it alone.
LockInv ==
  \A r \in Requests :
    /\ pc[r] \in {"choose", "update"} => req[r].op \in {"approve", "files"}
    /\ pc[r] \notin {"update", "write"} => rows[r] = {}
    /\ pc[r] = "write" => rows[r] \subseteq Approved
    /\ \A s \in Requests \ {r} :
         pc[r] = "write" /\ pc[s] = "write" => rows[r] \cap rows[s] = {}

\* r is past the test of the status of its version.
Loaded(r) ==
  \/ At(r, "write", "edit")
  \/ req[r].op = "approve" /\ pc[r] \in {"load_exam", "choose", "update", "write"}

\* r has loaded the exam.
HasExam(r) ==
  \/ req[r].op = "approve" /\ pc[r] \in {"choose", "update", "write"}
  \/ At(r, "write", "configure")

\* What a review may rely on.  While it has met no other, what it has loaded
\* still holds, and its UPDATE reaches every approved version; otherwise only
\* that an approval it does not know of is a contended one.
ReviewInv ==
  \A r \in Requests :
    /\ req[r].op \in {"edit", "approve"} => req[r].version \in Existing
    /\ Loaded(r) =>
         /\ status[req[r].version] # "extracting"
         /\ req[r].version \in Approved => req[r].version \in contended
    /\ Loaded(r) /\ req[r].op = "approve" /\ ~met[r] =>
         /\ status[req[r].version] = "draft"
         /\ content[req[r].version] \in Resolved \cap Valid
    /\ req[r].op = "approve" /\ pc[r] \in {"update", "write"} =>
         /\ Approved \ (rows[r] \cup {req[r].version}) \subseteq contended
         /\ ~met[r] => Approved \subseteq rows[r]
    /\ HasExam(r) /\ ~met[r] => exam[r] = [config |-> config, version |-> configVersion]

LifecycleInv ==
  /\ MeetingInv
  /\ BoundInv
  /\ ExtractionInv
  /\ KeyInv
  /\ LockInv
  /\ ReviewInv
  /\ OneApproved
  /\ ApprovedIsValid

-----------------------------------------------------------------------------
(* What the documentation says and the code does not do *)

\* "Immutable-by-version extraction result with an explicit review lifecycle"
\* (ExamBlueprint): an approved version is not edited.
ImmutableByVersion ==
  [][\A v \in Approved : content'[v] = content[v]]_vars

\* "Raised when an outdated editor tries to overwrite newer configuration"
\* (ExamConfigurationConflictError): an update that names a version replaces
\* that version.
NoOutdatedOverwrite ==
  [][\A r \in Requests :
       (At(r, "write", "configure") /\ config' # config /\ pc'[r] = "idle"
          /\ req[r].expected # None)
       => configVersion = req[r].expected]_vars
=============================================================================
