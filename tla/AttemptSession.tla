--------------------------- MODULE AttemptSession ---------------------------
(***************************************************************************)
(* The attempts of one learner on one mock exam: starting or resuming an   *)
(* attempt, autosaving a response, and submitting it for evaluation        *)
(* (app/modules/exams/attempt_service.py behind app/api/routes/attempts.py)*)
(* as concurrently running HTTP requests.                                  *)
(*                                                                         *)
(* Every request owns one SQLAlchemy session.  The database runs READ      *)
(* COMMITTED, so each SELECT sees what is committed at that moment; the    *)
(* session's identity map keeps the attributes of a row it has loaded      *)
(* (expire_on_commit=False, no populate_existing), so a later SELECT of    *)
(* the same row, even FOR UPDATE, returns the attributes of the first.     *)
(* A SELECT is one action; what runs between two awaits of the database    *)
(* or of the AI provider belongs to the action before it.                  *)
(***************************************************************************)
EXTENDS Naturals, FiniteSets, Functions

CONSTANTS
  Attempts,      \* identities the attempts table can hold (bounds the rows)
  Questions,     \* questions of the mock exam
  Answers,       \* what a learner may type, up to what grading tells apart
  Blank,         \* the member of Answers that strips to ""
  Flags,         \* values of the "flagged" tick box
  Requests,      \* HTTP requests that can be in flight together
  Points,        \* [Questions -> Nat], the points of each question
  Open,          \* questions whose grading_mode is not "objective"
  LocalScore,    \* [Questions -> [Answers -> Nat]], the deterministic graders
  Vertex,        \* TRUE: Vertex is configured and generated this mock
  MaxRetries,    \* settings.ai_validation_retries
  VersionBound,  \* saves start only below this response version (TLC bound)
  None           \* SQL NULL / Python None

ASSUME PointsAssumption == Points \in [Questions -> Nat]
ASSUME AnswersAssumption == Blank \in Answers /\ None \notin Answers
ASSUME OpenAssumption == Open \subseteq Questions
ASSUME QuestionsAssumption == Questions # {}
ASSUME FlagsAssumption == Flags \subseteq BOOLEAN
ASSUME LocalScoreAssumption ==
  /\ LocalScore \in [Questions -> [Answers -> Nat]]
  /\ \A q \in Questions : /\ LocalScore[q][Blank] = 0
                          /\ \A a \in Answers : LocalScore[q][a] <= Points[q]
ASSUME VertexAssumption == Vertex \in BOOLEAN
ASSUME BoundsAssumption == MaxRetries \in Nat /\ VersionBound \in Nat
ASSUME NoneAssumption ==
  /\ None \notin Nat
  /\ None \notin [answer : Answers, flagged : BOOLEAN, version : Nat]
  /\ None \notin [answer : Answers, points : Nat]

VARIABLES
  (* The tables *)
  status,     \* attempts.status, "absent" while there is no row
  score,      \* attempts.score
  response,   \* attempt_responses: the row of (attempt, question), or None
  facts,      \* question_evaluations: the row of (attempt, question), or None
  (* The sessions of the requests *)
  pc,         \* what the request awaits next
  req,        \* the operation and its payload
  loaded,     \* the Attempt object: [status, score] as this session read it
  rows,       \* the AttemptResponse objects of the session's identity map
  graded,     \* result_by_id: the grades computed by submit_attempt
  retries,    \* validation retries of the provider call
  (* What the clients were told *)
  reply,      \* outcome of the request's last call
  told        \* scores returned to clients as the result of an attempt

dbVars == <<status, score, response, facts>>
sessionVars == <<req, loaded, rows, graded, retries>>
clientVars == <<reply, told>>
vars == <<dbVars, pc, sessionVars, clientVars>>

-----------------------------------------------------------------------------
(* Types *)

Status == {"absent", "in_progress", "evaluated"}
Row == [answer : Answers, flagged : BOOLEAN, version : Nat \ {0}]
RowMap == [Questions -> Row \cup {None}]
Award == UNION {0..Points[q] : q \in Questions}
Fact == [answer : Answers, points : Award]
FactMap == [Questions -> Fact \cup {None}]

\* The sum of the awarded points of a complete set of facts: the score that
\* submit_attempt accumulates over the questions.
TotalScore(f) == SumFunction([q \in Questions |-> f[q].points])
Score == {SumFunction(awards) : awards \in [Questions -> Award]}
ASSUME NoneIsNoScore == None \notin Score

NoRows == [q \in Questions |-> None]
NoFacts == [q \in Questions |-> None]
Unloaded == [status |-> "absent", score |-> None]

StartReq == [op : {"start"}]
SaveReq == [op : {"save"}, attempt : Attempts, question : Questions,
            answer : Answers, flagged : BOOLEAN, version : Nat \cup {None}]
SubmitReq == [op : {"submit"}, attempt : Attempts]
Idle == [op |-> "none"]

Outcome == {"none", "ok", "closed", "version_conflict", "integrity_error",
            "ai_error", "failed", "lost"}
PC == {"idle", "find_active", "insert_attempt", "load_attempt",
       "load_responses", "lock_response", "write_response", "call_provider",
       "recheck", "flush", "commit", "refresh"}

TypeOK ==
  /\ status \in [Attempts -> Status]
  /\ score \in [Attempts -> Score \cup {None}]
  /\ response \in [Attempts -> RowMap]
  /\ facts \in [Attempts -> FactMap]
  /\ pc \in [Requests -> PC]
  /\ req \in [Requests -> {Idle} \cup StartReq \cup SaveReq \cup SubmitReq]
  /\ loaded \in [Requests -> [status : Status, score : Score \cup {None}]]
  /\ rows \in [Requests -> RowMap]
  /\ graded \in [Requests -> FactMap]
  /\ retries \in [Requests -> 0..MaxRetries]
  /\ reply \in [Requests -> Outcome]
  /\ told \in [Attempts -> SUBSET (Score \cup {None})]

Init ==
  /\ status = [a \in Attempts |-> "absent"]
  /\ score = [a \in Attempts |-> None]
  /\ response = [a \in Attempts |-> NoRows]
  /\ facts = [a \in Attempts |-> NoFacts]
  /\ pc = [r \in Requests |-> "idle"]
  /\ req = [r \in Requests |-> Idle]
  /\ loaded = [r \in Requests |-> Unloaded]
  /\ rows = [r \in Requests |-> NoRows]
  /\ graded = [r \in Requests |-> NoFacts]
  /\ retries = [r \in Requests |-> 0]
  /\ reply = [r \in Requests |-> "none"]
  /\ told = [a \in Attempts |-> {}]

-----------------------------------------------------------------------------
(* Requests and their sessions *)

\* A request reaches its handler; its session is new and has loaded nothing.
Begin(r, request, first) ==
  /\ pc[r] = "idle"
  /\ pc' = [pc EXCEPT ![r] = first]
  /\ req' = [req EXCEPT ![r] = request]
  /\ reply' = [reply EXCEPT ![r] = "none"]
  /\ UNCHANGED <<dbVars, loaded, rows, graded, retries, told>>

\* The handler returns or raises: get_session closes the session, which rolls
\* back what is not committed and releases its locks.
Finish(r, outcome) ==
  /\ pc' = [pc EXCEPT ![r] = "idle"]
  /\ req' = [req EXCEPT ![r] = Idle]
  /\ loaded' = [loaded EXCEPT ![r] = Unloaded]
  /\ rows' = [rows EXCEPT ![r] = NoRows]
  /\ graded' = [graded EXCEPT ![r] = NoFacts]
  /\ retries' = [retries EXCEPT ![r] = 0]
  /\ reply' = [reply EXCEPT ![r] = outcome]

\* The request returns the attempt's stored result.
ReturnResult(r, a, result) ==
  /\ Finish(r, "ok")
  /\ told' = [told EXCEPT ![a] = @ \cup {result}]

\* The connection drops, the client aborts or the process dies: whatever the
\* session had not committed is rolled back.
Abandon(r) ==
  /\ pc[r] # "idle"
  /\ Finish(r, "lost")
  /\ UNCHANGED <<dbVars, told>>

At(r, location, op) == pc[r] = location /\ req[r].op = op

\* r has updated the attempts row and inserted the evaluations of attempt a
\* and has not committed: the row and the unique keys are locked.
HoldsAttempt(r, a) == At(r, "commit", "submit") /\ req[r].attempt = a

\* r's SELECT ... FOR UPDATE found the response row and locked it.
HoldsResponse(r, a, q) ==
  /\ At(r, "write_response", "save")
  /\ req[r].attempt = a /\ req[r].question = q
  /\ rows[r][q] # None

AttemptFree(r, a) == \A other \in Requests \ {r} : ~HoldsAttempt(other, a)
ResponseFree(r, a, q) == \A other \in Requests \ {r} : ~HoldsResponse(other, a, q)

-----------------------------------------------------------------------------
(* POST /mocks/{id}/attempts: start_attempt *)

Starting == {r \in Requests : pc[r] \in {"find_active", "insert_attempt"}}
Absent == {a \in Attempts : status[a] = "absent"}

\* Bounded so that every start in flight finds an identity to use.
BeginStart(r) ==
  /\ Cardinality(Starting) < Cardinality(Absent)
  /\ Begin(r, [op |-> "start"], "find_active")

\* The lookup of the learner's attempt in progress: it is resumed when there
\* is one.  Nothing locks the absence of one.
FindActive(r) ==
  /\ At(r, "find_active", "start")
  /\ IF \E a \in Attempts : status[a] = "in_progress"
       THEN Finish(r, "ok")
       ELSE /\ pc' = [pc EXCEPT ![r] = "insert_attempt"]
            /\ UNCHANGED <<sessionVars, reply>>
  /\ UNCHANGED <<dbVars, told>>

InsertAttempt(r) ==
  /\ At(r, "insert_attempt", "start")
  /\ \E a \in Absent : status' = [status EXCEPT ![a] = "in_progress"]
  /\ Finish(r, "ok")
  /\ UNCHANGED <<score, response, facts, told>>

-----------------------------------------------------------------------------
(* get_attempt, the loads that saving and submitting share *)

Loading == {"save", "submit"}

LoadAttempt(r) ==
  /\ pc[r] = "load_attempt" /\ req[r].op \in Loading
  /\ LET a == req[r].attempt IN
       loaded' = [loaded EXCEPT ![r] = [status |-> status[a], score |-> score[a]]]
  /\ pc' = [pc EXCEPT ![r] = "load_responses"]
  /\ UNCHANGED <<dbVars, req, rows, graded, retries, clientVars>>

-----------------------------------------------------------------------------
(* PUT /attempts/{id}/responses/{question}: save_response *)

\* version is optional in ResponseSaveRequest; a client that sends one sends
\* one it has read.  VersionBound keeps the versions finite.
BeginSave(r) ==
  \E a \in Attempts, q \in Questions, answer \in Answers, flagged \in Flags :
    /\ status[a] # "absent"
    /\ response[a][q] # None => response[a][q].version < VersionBound
    /\ \E version \in {None} \cup 1..VersionBound :
         Begin(r, [op |-> "save", attempt |-> a, question |-> q,
                   answer |-> answer, flagged |-> flagged, version |-> version],
               "load_attempt")

\* Mutant: the status of the attempt is not tested.
LoadForSaveUntested(r) ==
  /\ At(r, "load_responses", "save")
  /\ rows' = [rows EXCEPT ![r] = response[req[r].attempt]]
  /\ pc' = [pc EXCEPT ![r] = "lock_response"]
  /\ UNCHANGED <<dbVars, req, loaded, graded, retries, clientVars>>

\* The responses are loaded (and stay in the identity map), then the status
\* read with the attempt is tested.
LoadForSave(r) ==
  /\ At(r, "load_responses", "save")
  /\ IF loaded[r].status # "in_progress"
       THEN Finish(r, "closed")
       ELSE /\ rows' = [rows EXCEPT ![r] = response[req[r].attempt]]
            /\ pc' = [pc EXCEPT ![r] = "lock_response"]
            /\ UNCHANGED <<req, loaded, graded, retries, reply>>
  /\ UNCHANGED <<dbVars, told>>

\* SELECT ... FOR UPDATE waits for the row lock.  A row the session already
\* holds keeps the attributes loaded before the lock; a row it does not hold
\* is read now; no row is no lock.
LockResponse(r) ==
  /\ At(r, "lock_response", "save")
  /\ LET a == req[r].attempt
         q == req[r].question IN
       /\ ResponseFree(r, a, q)
       /\ rows' = [rows EXCEPT ![r][q] = IF @ # None THEN @ ELSE response[a][q]]
  /\ pc' = [pc EXCEPT ![r] = "write_response"]
  /\ UNCHANGED <<dbVars, req, loaded, graded, retries, clientVars>>

VersionMatches(r) ==
  req[r].version \in {None, rows[r][req[r].question].version}

RejectVersion(r) ==
  /\ At(r, "write_response", "save")
  /\ rows[r][req[r].question] # None
  /\ ~VersionMatches(r)
  /\ Finish(r, "version_conflict")
  /\ UNCHANGED <<dbVars, told>>

\* The flush updates only the columns whose value differs from the loaded one:
\* an answer equal to the loaded answer leaves the stored answer alone.
Changed(loadedValue, newValue, stored) ==
  IF newValue = loadedValue THEN stored ELSE newValue

UpdatedRow(request, loadedRow, stored) ==
  [answer  |-> Changed(loadedRow.answer, request.answer, stored.answer),
   flagged |-> Changed(loadedRow.flagged, request.flagged, stored.flagged),
   version |-> loadedRow.version + 1]

\* UPDATE of the response and of attempts.last_saved_at, then the commit.
UpdateResponse(r) ==
  /\ At(r, "write_response", "save")
  /\ rows[r][req[r].question] # None
  /\ VersionMatches(r)
  /\ AttemptFree(r, req[r].attempt)
  /\ LET a == req[r].attempt
         q == req[r].question IN
       response' = [response EXCEPT
                      ![a][q] = UpdatedRow(req[r], rows[r][q], @)]
  /\ Finish(r, "ok")
  /\ UNCHANGED <<status, score, facts, told>>

\* INSERT of the first response to the question; the unique key on
\* (attempt_id, question_id) fails the request when another one came first.
InsertResponse(r) ==
  /\ At(r, "write_response", "save")
  /\ rows[r][req[r].question] = None
  /\ AttemptFree(r, req[r].attempt)
  /\ LET a == req[r].attempt
         q == req[r].question IN
       IF response[a][q] = None
         THEN /\ response' = [response EXCEPT
                   ![a][q] = [answer |-> req[r].answer,
                              flagged |-> req[r].flagged, version |-> 1]]
              /\ Finish(r, "ok")
         ELSE /\ Finish(r, "integrity_error")
              /\ UNCHANGED response
  /\ UNCHANGED <<status, score, facts, told>>

-----------------------------------------------------------------------------
(* POST /attempts/{id}/submit: submit_attempt *)

BeginSubmit(r) ==
  \E a \in Attempts \ Absent :
    Begin(r, [op |-> "submit", attempt |-> a], "load_attempt")

AnswerIn(rowMap, q) == IF rowMap[q] = None THEN Blank ELSE rowMap[q].answer

\* Mutant: blank answers are sent to the provider too.
ForProviderBlank(rowMap) == IF Vertex THEN Open ELSE {}

\* Open questions with an answer are the provider's to grade.
ForProvider(rowMap) ==
  IF Vertex THEN {q \in Open : AnswerIn(rowMap, q) # Blank} ELSE {}

LocalFact(rowMap, q) ==
  [answer |-> AnswerIn(rowMap, q), points |-> LocalScore[q][AnswerIn(rowMap, q)]]

\* The grades the process computes itself: objective questions, blank open
\* ones, and every open one when the provider is not used.
LocalGrades(rowMap) ==
  [q \in Questions |-> IF q \in ForProvider(rowMap) THEN None
                                                    ELSE LocalFact(rowMap, q)]

\* An attempt already evaluated is returned as loaded.  Otherwise the answers
\* are read once, and the transaction ends before the provider is called.
LoadForSubmit(r) ==
  /\ At(r, "load_responses", "submit")
  /\ LET stored == response[req[r].attempt] IN
       IF loaded[r].status = "evaluated"
         THEN ReturnResult(r, req[r].attempt, loaded[r].score)
         ELSE /\ rows' = [rows EXCEPT ![r] = stored]
              /\ graded' = [graded EXCEPT ![r] = LocalGrades(stored)]
              /\ pc' = [pc EXCEPT ![r] = IF ForProvider(stored) = {}
                                           THEN "recheck" ELSE "call_provider"]
              /\ UNCHANGED <<req, loaded, retries, clientVars>>
  /\ UNCHANGED dbVars

\* A batch that validate_evaluation_batch accepts: one grade per question
\* sent, within its points, quoting the answer that was sent.
ProviderGrades(r) ==
  /\ At(r, "call_provider", "submit")
  /\ \E award \in [ForProvider(rows[r]) -> Award] :
       /\ \A q \in ForProvider(rows[r]) : award[q] <= Points[q]
       /\ graded' = [graded EXCEPT ![r] =
            [q \in Questions |->
               IF q \in ForProvider(rows[r])
                 THEN [answer |-> AnswerIn(rows[r], q), points |-> award[q]]
                 ELSE graded[r][q]]]
  /\ pc' = [pc EXCEPT ![r] = "recheck"]
  /\ UNCHANGED <<dbVars, req, loaded, rows, retries, clientVars>>

\* Mutants: one retry too many; a counter that starts again.
RetriedTooOften(r) ==
  /\ At(r, "call_provider", "submit")
  /\ IF retries[r] <= MaxRetries
       THEN /\ retries' = [retries EXCEPT ![r] = @ + 1]
            /\ UNCHANGED <<pc, req, loaded, rows, graded, reply>>
       ELSE Finish(r, "ai_error")
  /\ UNCHANGED <<dbVars, told>>

RetriedForever(r) ==
  /\ At(r, "call_provider", "submit")
  /\ retries' = [retries EXCEPT ![r] = (@ + 1) % (MaxRetries + 1)]
  /\ UNCHANGED <<dbVars, pc, req, loaded, rows, graded, clientVars>>

\* A batch that fails validation is asked for again, MaxRetries times.
ProviderInvalid(r) ==
  /\ At(r, "call_provider", "submit")
  /\ IF retries[r] < MaxRetries
       THEN /\ retries' = [retries EXCEPT ![r] = @ + 1]
            /\ UNCHANGED <<pc, req, loaded, rows, graded, reply>>
       ELSE Finish(r, "ai_error")
  /\ UNCHANGED <<dbVars, told>>

\* The provider raises (timeout, quota, malformed output): AIServiceError.
ProviderError(r) ==
  /\ At(r, "call_provider", "submit")
  /\ Finish(r, "ai_error")
  /\ UNCHANGED <<dbVars, told>>

\* session.rollback() and get_attempt again.  The rollback expires what the
\* session loaded only if a transaction is open: after the provider call none
\* is (the commit before the call ended it), so the Attempt object, and with
\* it the status tested here, is the one loaded before the call.
Reloaded(r) ==
  IF ForProvider(rows[r]) # {}
    THEN loaded[r]
    ELSE [status |-> status[req[r].attempt], score |-> score[req[r].attempt]]

Recheck(r) ==
  /\ At(r, "recheck", "submit")
  /\ IF Reloaded(r).status = "evaluated"
       THEN ReturnResult(r, req[r].attempt, Reloaded(r).score)
       ELSE /\ loaded' = [loaded EXCEPT ![r] = Reloaded(r)]
            /\ pc' = [pc EXCEPT ![r] = "flush"]
            /\ UNCHANGED <<req, rows, graded, retries, clientVars>>
  /\ UNCHANGED dbVars

\* The flush inserts one evaluation per question and updates the attempt.  It
\* waits for a request that holds those keys; the unique key on (attempt_id,
\* question_id) fails the request when evaluations are already there.
Flush(r) ==
  /\ At(r, "flush", "submit")
  /\ AttemptFree(r, req[r].attempt)
  /\ IF \A q \in Questions : facts[req[r].attempt][q] = None
       THEN /\ pc' = [pc EXCEPT ![r] = "commit"]
            /\ UNCHANGED <<sessionVars, reply>>
       ELSE Finish(r, "integrity_error")
  /\ UNCHANGED <<dbVars, told>>

\* Mutants: the status is committed before the evaluations; the result of the
\* transaction that is rolled back is returned.
FailWithStatus(r) ==
  /\ At(r, "commit", "submit")
  /\ status' = [status EXCEPT ![req[r].attempt] = "evaluated"]
  /\ Finish(r, "failed")
  /\ UNCHANGED <<score, response, facts, told>>

FailWithResult(r) ==
  /\ At(r, "commit", "submit")
  /\ ReturnResult(r, req[r].attempt, TotalScore(graded[r]))
  /\ UNCHANGED dbVars

\* rebuild_exam_analytics, in the same transaction, may fail (a unique key of
\* the shared skill taxonomy): everything the flush wrote is rolled back.
FailAnalytics(r) ==
  /\ At(r, "commit", "submit")
  /\ Finish(r, "failed")
  /\ UNCHANGED <<dbVars, told>>

CommitSubmit(r) ==
  /\ At(r, "commit", "submit")
  /\ LET a == req[r].attempt IN
       /\ status' = [status EXCEPT ![a] = "evaluated"]
       /\ score' = [score EXCEPT ![a] = TotalScore(graded[r])]
       /\ facts' = [facts EXCEPT ![a] = graded[r]]
  /\ pc' = [pc EXCEPT ![r] = "refresh"]
  /\ UNCHANGED <<response, sessionVars, clientVars>>

\* session.refresh(attempt) reads the row again, and the result is returned.
Refresh(r) ==
  /\ At(r, "refresh", "submit")
  /\ ReturnResult(r, req[r].attempt, score[req[r].attempt])
  /\ UNCHANGED dbVars

-----------------------------------------------------------------------------
(* The specification *)

StartSteps(r) == FindActive(r) \/ InsertAttempt(r)

SaveSteps(r) ==
  \/ LoadForSave(r)
  \/ LockResponse(r)
  \/ RejectVersion(r)
  \/ UpdateResponse(r)
  \/ InsertResponse(r)

\* Of the provider's answers, the first two are the service's own doing; a
\* submit is only certain to end because the retries are bounded.
SubmitSteps(r) ==
  \/ LoadForSubmit(r)
  \/ ProviderGrades(r)
  \/ ProviderInvalid(r)
  \/ ProviderError(r)
  \/ Recheck(r)
  \/ Flush(r)
  \/ FailAnalytics(r)
  \/ CommitSubmit(r)
  \/ Refresh(r)

\* What the server does for a request once it has it.
Serve(r) == LoadAttempt(r) \/ StartSteps(r) \/ SaveSteps(r) \/ SubmitSteps(r)

Arrive(r) == BeginStart(r) \/ BeginSave(r) \/ BeginSubmit(r)

Next == \E r \in Requests : Arrive(r) \/ Serve(r) \/ Abandon(r)

Spec == Init /\ [][Next]_vars

\* The event loop runs every handler that can run, and PostgreSQL grants locks
\* in the order they were asked for, so a waiter is not passed over for ever.
\* Nothing obliges a client to call.
FairSpec == Spec /\ \A r \in Requests : SF_vars(Serve(r))

-----------------------------------------------------------------------------
(* Properties *)

\* An attempt is evaluated exactly when every one of its questions has an
\* evaluation row, and its score is their sum: the evaluations, the status and
\* the score of submit_attempt reach the database together or not at all,
\* whatever submits run at once and wherever they fail.
EvaluationComplete ==
  \A a \in Attempts :
    IF status[a] = "evaluated"
      THEN /\ \A q \in Questions : facts[a][q] # None
           /\ score[a] = TotalScore(facts[a])
      ELSE facts[a] = NoFacts /\ score[a] = None

\* Every stored grade is a grade of the very answer its evidence quotes: never
\* above the points of the question, the deterministic score where the grader
\* is deterministic, and nothing for a blank answer.
FactSound(q, fact) ==
  /\ fact.points <= Points[q]
  /\ q \notin Open => fact.points = LocalScore[q][fact.answer]
  /\ fact.answer = Blank => fact.points = 0

GradesSound ==
  \A a \in Attempts, q \in Questions :
    facts[a][q] # None => FactSound(q, facts[a][q])

\* Every client that was given a result of an attempt was given the stored
\* score: a retried or concurrent submit never shows a second verdict.
ResultsAgree ==
  \A a \in Attempts : told[a] \subseteq {score[a]} /\ None \notin told[a]

\* Once an attempt is evaluated no step changes its status, its score or its
\* evaluations: submitting evaluates at most once.
EvaluatedOnce ==
  [][\A a \in Attempts : status[a] = "evaluated" =>
       /\ status'[a] = status[a]
       /\ score'[a] = score[a]
       /\ facts'[a] = facts[a]]_vars

\* A response of an evaluated attempt changes only by a save that was already
\* past its status test when the evaluation committed.
LateWritesOverlap ==
  [][\A a \in Attempts : status[a] = "evaluated" /\ response'[a] # response[a] =>
       \E r \in Requests : /\ At(r, "write_response", "save")
                           /\ req[r].attempt = a
                           /\ loaded[r].status = "in_progress"]_vars

\* The inductive invariant behind the properties above.  What a session has
\* loaded it may rely on in part only: a response row it holds still exists,
\* and an attempt it read as evaluated still has the score it read; nothing
\* else that it loaded need hold any more.
SessionInv ==
  \A r \in Requests :
    /\ pc[r] = "idle" => req[r] = Idle
    /\ req[r].op \notin Loading => rows[r] = NoRows /\ loaded[r] = Unloaded
    /\ req[r].op \in Loading => status[req[r].attempt] # "absent"
    /\ \A q \in Questions :
         rows[r][q] # None => response[req[r].attempt][q] # None
    /\ loaded[r].status = "evaluated" =>
         /\ status[req[r].attempt] = "evaluated"
         /\ loaded[r].score = score[req[r].attempt]

\* The grades a session holds are sound, are grades of the answers it loaded,
\* and cover every question once the provider has answered.
GradingInv ==
  \A r \in Requests :
    /\ req[r].op # "submit" => graded[r] = NoFacts
    /\ pc[r] \in {"call_provider", "recheck", "flush", "commit"} =>
         /\ req[r].op = "submit"
         /\ \A q \in Questions : graded[r][q] = None =>
              pc[r] = "call_provider" /\ q \in ForProvider(rows[r])
    /\ \A q \in Questions : graded[r][q] # None =>
         /\ FactSound(q, graded[r][q])
         /\ graded[r][q].answer = AnswerIn(rows[r], q)

\* Between its flush and its commit a submit is alone on its attempt.
CommitInv ==
  \A r \in Requests :
    /\ pc[r] = "commit" =>
         /\ status[req[r].attempt] = "in_progress"
         /\ facts[req[r].attempt] = NoFacts
         /\ AttemptFree(r, req[r].attempt)
    /\ pc[r] = "refresh" =>
         req[r].op = "submit" /\ status[req[r].attempt] = "evaluated"

SafetyInv ==
  /\ SessionInv
  /\ GradingInv
  /\ CommitInv
  /\ EvaluationComplete
  /\ GradesSound
  /\ ResultsAgree

\* Every request ends: no set of saves and submits waits for each other's row
\* locks, and a submit stops asking the provider.
RequestsEnd == \A r \in Requests : pc[r] # "idle" ~> pc[r] = "idle"

\* The requests, with their transactions and failures, keep the promise of the
\* API: an attempt is opened, then evaluated once, and told as evaluated.
Contract == INSTANCE AttemptContract WITH phase <- status, verdict <- score
ImplementsContract == Contract!Spec

-----------------------------------------------------------------------------
(* What the documentation says and the code does not do *)

\* "immutable submit" (README): the responses of an evaluated attempt never
\* change.
ImmutableSubmit ==
  [][\A a \in Attempts : status[a] = "evaluated" => response'[a] = response[a]]_vars

\* "Response changed. Reload before saving again.": a save that carries a
\* version replaces that version of the row and no other.
VersionedSave ==
  [][\A r \in Requests :
       LET a == req[r].attempt
           q == req[r].question IN
       (/\ At(r, "write_response", "save")
        /\ response'[a][q] # response[a][q]
        /\ response[a][q] # None
        /\ req[r].version # None
        /\ reply'[r] = "ok")
       => response[a][q].version = req[r].version]_vars
=============================================================================
