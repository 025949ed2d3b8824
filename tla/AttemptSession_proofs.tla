------------------------ MODULE AttemptSession_proofs ------------------------
(***************************************************************************)
(* Proofs about AttemptSession, for any number of attempts, questions,     *)
(* answers and requests: type correctness, the inductive invariant behind  *)
(* the safety properties, and the refinement of AttemptContract.           *)
(***************************************************************************)
EXTENDS AttemptSession, TLAPS

-----------------------------------------------------------------------------
(* Types *)

LEMMA TypeInit == Init => TypeOK
<1> SUFFICES ASSUME Init PROVE TypeOK
  OBVIOUS
<1> QED
  BY BoundsAssumption
  DEF Init, TypeOK, NoRows, NoFacts, Unloaded, RowMap, FactMap, Status, PC, Outcome

\* The score of a complete set of facts is a score.
LEMMA TotalScoreType ==
  ASSUME NEW f \in [Questions -> Fact]
  PROVE  TotalScore(f) \in Score
<1>1. [q \in Questions |-> f[q].points] \in [Questions -> Award]
  BY DEF Fact
<1> QED
  BY <1>1 DEF TotalScore, Score

\* The attempt a save or a submit is about.
LEMMA RequestType ==
  ASSUME TypeOK, NEW r \in Requests
  PROVE  /\ req[r].op = "save" => req[r] \in SaveReq
         /\ req[r].op = "submit" => req[r] \in SubmitReq
BY DEF TypeOK, Idle, StartReq, SaveReq, SubmitReq

LEMMA FinishType ==
  ASSUME TypeOK, NEW r \in Requests, NEW outcome \in Outcome, Finish(r, outcome)
  PROVE  /\ pc' \in [Requests -> PC]
         /\ req' \in [Requests -> {Idle} \cup StartReq \cup SaveReq \cup SubmitReq]
         /\ loaded' \in [Requests -> [status : Status, score : Score \cup {None}]]
         /\ rows' \in [Requests -> RowMap]
         /\ graded' \in [Requests -> FactMap]
         /\ retries' \in [Requests -> 0..MaxRetries]
         /\ reply' \in [Requests -> Outcome]
<1>1. Unloaded \in [status : Status, score : Score \cup {None}]
  BY DEF Unloaded, Status
<1>2. NoRows \in RowMap /\ NoFacts \in FactMap
  BY DEF NoRows, NoFacts, RowMap, FactMap
<1>3. "idle" \in PC /\ 0 \in 0..MaxRetries
  BY BoundsAssumption DEF PC
<1> QED
  BY <1>1, <1>2, <1>3 DEF TypeOK, Finish

\* The grades a submit computes are facts.
LEMMA LocalFactType ==
  ASSUME NEW m \in RowMap, NEW q \in Questions
  PROVE  /\ AnswerIn(m, q) \in Answers
         /\ LocalFact(m, q) \in Fact
<1>1. AnswerIn(m, q) \in Answers
  BY AnswersAssumption, NoneAssumption DEF AnswerIn, RowMap, Row
<1>2. LocalScore[q][AnswerIn(m, q)] \in 0..Points[q]
  BY <1>1, LocalScoreAssumption, PointsAssumption
<1>3. LocalScore[q][AnswerIn(m, q)] \in Award
  BY <1>2 DEF Award
<1> QED
  BY <1>1, <1>3 DEF LocalFact, Fact

LEMMA LocalGradesType ==
  ASSUME NEW m \in RowMap
  PROVE  LocalGrades(m) \in FactMap
BY LocalFactType DEF LocalGrades, FactMap

\* A row written over a stored one is a row.
LEMMA UpdatedRowType ==
  ASSUME NEW request \in SaveReq, NEW old \in Row, NEW stored \in Row
  PROVE  UpdatedRow(request, old, stored) \in Row
BY DEF UpdatedRow, Changed, Row, SaveReq

LEMMA StoreType ==
  ASSUME NEW table \in [Attempts -> RowMap], NEW a \in Attempts,
         NEW q \in Questions, NEW row \in Row
  PROVE  [table EXCEPT ![a][q] = row] \in [Attempts -> RowMap]
<1>1. [table[a] EXCEPT ![q] = row] \in RowMap
  BY DEF RowMap
<1> QED
  BY <1>1

LEMMA TypeStart ==
  ASSUME TypeOK, NEW r \in Requests, BeginStart(r) \/ StartSteps(r)
  PROVE  TypeOK'
<1>1. CASE BeginStart(r)
  BY <1>1 DEF BeginStart, Begin, TypeOK, dbVars, StartReq, PC, Outcome
<1>2. CASE FindActive(r)
  <2>1. CASE Finish(r, "ok") /\ UNCHANGED <<dbVars, told>>
    <3>1. "ok" \in Outcome
      BY DEF Outcome
    <3> QED
      BY <2>1, <3>1, FinishType DEF TypeOK, dbVars
  <2>2. CASE /\ pc' = [pc EXCEPT ![r] = "insert_attempt"]
             /\ UNCHANGED <<sessionVars, reply>>
             /\ UNCHANGED <<dbVars, told>>
    BY <2>2 DEF TypeOK, dbVars, sessionVars, PC
  <2> QED
    BY <1>2, <2>1, <2>2 DEF FindActive
<1>3. CASE InsertAttempt(r)
  <2>1. "ok" \in Outcome /\ "in_progress" \in Status
    BY DEF Outcome, Status
  <2>2. status' \in [Attempts -> Status]
    BY <1>3, <2>1 DEF InsertAttempt, TypeOK
  <2> QED
    BY <1>3, <2>1, <2>2, FinishType DEF InsertAttempt, TypeOK
<1> QED
  BY <1>1, <1>2, <1>3 DEF StartSteps

LEMMA TypeLoad ==
  ASSUME TypeOK, NEW r \in Requests, BeginSave(r) \/ BeginSubmit(r) \/ LoadAttempt(r)
  PROVE  TypeOK'
<1>1. CASE BeginSave(r)
  <2>1. PICK a \in Attempts, q \in Questions, answer \in Answers, flagged \in Flags,
             version \in {None} \cup 1..VersionBound :
          Begin(r, [op |-> "save", attempt |-> a, question |-> q,
                    answer |-> answer, flagged |-> flagged, version |-> version],
                "load_attempt")
    BY <1>1 DEF BeginSave
  <2>2. [op |-> "save", attempt |-> a, question |-> q, answer |-> answer,
         flagged |-> flagged, version |-> version] \in SaveReq
    BY FlagsAssumption, BoundsAssumption DEF SaveReq
  <2> QED
    BY <2>1, <2>2 DEF Begin, TypeOK, dbVars, PC, Outcome
<1>2. CASE BeginSubmit(r)
  BY <1>2 DEF BeginSubmit, Begin, TypeOK, dbVars, PC, Outcome, SubmitReq
<1>3. CASE LoadAttempt(r)
  <2>1. req[r].attempt \in Attempts
    BY <1>3, RequestType DEF LoadAttempt, Loading, SaveReq, SubmitReq
  <2> QED
    BY <1>3, <2>1 DEF LoadAttempt, TypeOK, dbVars, clientVars, PC
<1> QED
  BY <1>1, <1>2, <1>3

LEMMA TypeSave ==
  ASSUME TypeOK, SessionInv, NEW r \in Requests, SaveSteps(r)
  PROVE  TypeOK'
<1> DEFINE a == req[r].attempt
           q == req[r].question
<1>0. /\ req[r] \in SaveReq
      /\ a \in Attempts /\ q \in Questions
  BY RequestType
  DEF SaveSteps, LoadForSave, LockResponse, RejectVersion, UpdateResponse,
      InsertResponse, At, SaveReq
<1>o. {"ok", "closed", "version_conflict", "integrity_error"} \subseteq Outcome
  BY DEF Outcome
<1>1. CASE LoadForSave(r)
  <2>1. CASE Finish(r, "closed") /\ UNCHANGED <<dbVars, told>>
    BY <2>1, <1>o, FinishType DEF TypeOK, dbVars
  <2>2. CASE /\ rows' = [rows EXCEPT ![r] = response[a]]
             /\ pc' = [pc EXCEPT ![r] = "lock_response"]
             /\ UNCHANGED <<req, loaded, graded, retries, reply>>
             /\ UNCHANGED <<dbVars, told>>
    BY <2>2, <1>0 DEF TypeOK, dbVars, PC
  <2> QED
    BY <1>1, <2>1, <2>2 DEF LoadForSave
<1>2. CASE LockResponse(r)
  <2>1. rows' \in [Requests -> RowMap]
    BY <1>2, <1>0 DEF LockResponse, TypeOK, RowMap
  <2>2. pc' \in [Requests -> PC]
    BY <1>2 DEF LockResponse, TypeOK, PC
  <2> QED
    BY <1>2, <2>1, <2>2 DEF LockResponse, TypeOK, dbVars, clientVars
<1>3. CASE RejectVersion(r)
  BY <1>3, <1>o, FinishType DEF RejectVersion, TypeOK, dbVars
<1>4. CASE UpdateResponse(r)
  <2>1. rows[r][q] \in Row /\ response[a][q] \in Row
    BY <1>4, <1>0 DEF UpdateResponse, TypeOK, RowMap, SessionInv
  <2> DEFINE new == UpdatedRow(req[r], rows[r][q], response[a][q])
  <2>2. new \in Row
    BY <2>1, <1>0, UpdatedRowType
  <2>3. response' = [response EXCEPT ![a][q] = new]
    BY <1>4 DEF UpdateResponse
  <2> HIDE DEF new
  <2>4. response' \in [Attempts -> RowMap]
    BY <2>2, <2>3, <1>0, StoreType DEF TypeOK
  <2> QED
    BY <1>4, <2>4, <1>o, FinishType DEF UpdateResponse, TypeOK
<1>5. CASE InsertResponse(r)
  <2> DEFINE new == [answer |-> req[r].answer, flagged |-> req[r].flagged, version |-> 1]
  <2>1. new \in Row
    BY <1>0 DEF Row, SaveReq
  <2>4. response' = [response EXCEPT ![a][q] = new] \/ response' = response
    BY <1>5 DEF InsertResponse
  <2> HIDE DEF new
  <2>2. response' \in [Attempts -> RowMap]
    BY <2>1, <2>4, <1>0, StoreType DEF TypeOK
  <2>3. Finish(r, "ok") \/ Finish(r, "integrity_error")
    BY <1>5 DEF InsertResponse
  <2> QED
    BY <1>5, <2>2, <2>3, <1>o, FinishType DEF InsertResponse, TypeOK
<1> QED
  BY <1>1, <1>2, <1>3, <1>4, <1>5 DEF SaveSteps

LEMMA TypeSubmit ==
  ASSUME TypeOK, SessionInv, GradingInv, NEW r \in Requests, SubmitSteps(r)
  PROVE  TypeOK'
<1> DEFINE a == req[r].attempt
<1>0. a \in Attempts
  BY RequestType
  DEF SubmitSteps, LoadForSubmit, ProviderGrades, ProviderInvalid, ProviderError,
      Recheck, Flush, FailAnalytics, CommitSubmit, Refresh, At, SubmitReq
<1>o. {"ok", "ai_error", "integrity_error", "failed"} \subseteq Outcome
  BY DEF Outcome
<1>t. ASSUME NEW result \in Score \cup {None}, ReturnResult(r, a, result),
             UNCHANGED dbVars
      PROVE  TypeOK'
  <2>1. told' \in [Attempts -> SUBSET (Score \cup {None})]
    BY <1>t, <1>0 DEF ReturnResult, TypeOK
  <2> QED
    BY <1>t, <2>1, <1>o, FinishType DEF ReturnResult, TypeOK, dbVars
<1>1. CASE LoadForSubmit(r)
  <2>1. CASE ReturnResult(r, a, loaded[r].score) /\ UNCHANGED dbVars
    BY <2>1, <1>t DEF TypeOK
  <2>2. CASE /\ rows' = [rows EXCEPT ![r] = response[a]]
             /\ graded' = [graded EXCEPT ![r] = LocalGrades(response[a])]
             /\ pc' = [pc EXCEPT ![r] = IF ForProvider(response[a]) = {}
                                          THEN "recheck" ELSE "call_provider"]
             /\ UNCHANGED <<req, loaded, retries, clientVars>>
             /\ UNCHANGED dbVars
    <3>1. response[a] \in RowMap
      BY <1>0 DEF TypeOK
    <3>2. graded' \in [Requests -> FactMap]
      BY <2>2, <3>1, LocalGradesType DEF TypeOK
    <3>3. pc' \in [Requests -> PC]
      BY <2>2 DEF TypeOK, PC
    <3> QED
      BY <2>2, <3>1, <3>2, <3>3 DEF TypeOK, dbVars, clientVars
  <2> QED
    BY <1>1, <2>1, <2>2 DEF LoadForSubmit
<1>2. CASE ProviderGrades(r)
  <2> DEFINE sent == ForProvider(rows[r])
  <2>1. PICK award \in [sent -> Award] :
          graded' = [graded EXCEPT ![r] =
            [q \in Questions |->
               IF q \in sent
                 THEN [answer |-> AnswerIn(rows[r], q), points |-> award[q]]
                 ELSE graded[r][q]]]
    BY <1>2 DEF ProviderGrades
  <2>2. \A q \in Questions : AnswerIn(rows[r], q) \in Answers
    BY LocalFactType DEF TypeOK
  <2>3. graded' \in [Requests -> FactMap]
    BY <2>1, <2>2 DEF TypeOK, FactMap, Fact
  <2>4. pc' \in [Requests -> PC]
    BY <1>2 DEF ProviderGrades, TypeOK, PC
  <2> QED
    BY <1>2, <2>3, <2>4 DEF ProviderGrades, TypeOK, dbVars, clientVars
<1>3. CASE ProviderInvalid(r)
  <2>1. CASE retries[r] < MaxRetries
    <3>1. retries[r] + 1 \in 0..MaxRetries
      BY <2>1, BoundsAssumption DEF TypeOK
    <3>2. retries' \in [Requests -> 0..MaxRetries]
      BY <1>3, <2>1, <3>1 DEF ProviderInvalid, TypeOK
    <3> QED
      BY <1>3, <2>1, <3>2 DEF ProviderInvalid, TypeOK, dbVars
  <2>2. CASE ~(retries[r] < MaxRetries)
    BY <1>3, <2>2, <1>o, FinishType DEF ProviderInvalid, TypeOK, dbVars
  <2> QED
    BY <2>1, <2>2
<1>4. CASE ProviderError(r)
  BY <1>4, <1>o, FinishType DEF ProviderError, TypeOK, dbVars
<1>5. CASE Recheck(r)
  <2>1. Reloaded(r) \in [status : Status, score : Score \cup {None}]
    BY <1>0 DEF Reloaded, TypeOK
  <2>2. CASE Reloaded(r).status = "evaluated"
    BY <1>5, <2>1, <2>2, <1>t DEF Recheck
  <2>3. CASE Reloaded(r).status # "evaluated"
    <3> DEFINE fresh == Reloaded(r)
    <3>1. /\ loaded' = [loaded EXCEPT ![r] = fresh]
          /\ pc' = [pc EXCEPT ![r] = "flush"]
          /\ UNCHANGED <<req, rows, graded, retries, clientVars>>
          /\ UNCHANGED dbVars
      BY <1>5, <2>3 DEF Recheck
    <3> HIDE DEF fresh
    <3> QED
      BY <3>1, <2>1 DEF TypeOK, dbVars, clientVars, PC, fresh
  <2> QED
    BY <2>2, <2>3
<1>6. CASE Flush(r)
  <2>1. CASE Finish(r, "integrity_error") /\ UNCHANGED <<dbVars, told>>
    BY <2>1, <1>o, FinishType DEF TypeOK, dbVars
  <2>2. CASE /\ pc' = [pc EXCEPT ![r] = "commit"]
             /\ UNCHANGED <<sessionVars, reply>>
             /\ UNCHANGED <<dbVars, told>>
    BY <2>2 DEF TypeOK, dbVars, sessionVars, PC
  <2> QED
    BY <1>6, <2>1, <2>2 DEF Flush
<1>7. CASE FailAnalytics(r)
  BY <1>7, <1>o, FinishType DEF FailAnalytics, TypeOK, dbVars
<1>8. CASE CommitSubmit(r)
  <2>1. graded[r] \in [Questions -> Fact]
    BY <1>8 DEF CommitSubmit, At, GradingInv, TypeOK, FactMap
  <2>2. TotalScore(graded[r]) \in Score
    BY <2>1, TotalScoreType
  <2>3. /\ score' \in [Attempts -> Score \cup {None}]
        /\ facts' \in [Attempts -> FactMap]
    BY <1>8, <2>2 DEF CommitSubmit, TypeOK
  <2> QED
    BY <1>8, <2>3 DEF CommitSubmit, TypeOK, sessionVars, clientVars, Status, PC
<1>9. CASE Refresh(r)
  BY <1>9, <1>t, <1>0 DEF Refresh, TypeOK
<1> QED
  BY <1>1, <1>2, <1>3, <1>4, <1>5, <1>6, <1>7, <1>8, <1>9 DEF SubmitSteps

LEMMA TypeNext == TypeOK /\ SafetyInv /\ [Next]_vars => TypeOK'
<1> SUFFICES ASSUME TypeOK, SafetyInv, [Next]_vars PROVE TypeOK'
  OBVIOUS
<1>1. ASSUME NEW r \in Requests, Arrive(r) \/ Serve(r) \/ Abandon(r)
      PROVE  TypeOK'
  <2>1. CASE Abandon(r)
    <3>1. "lost" \in Outcome
      BY DEF Outcome
    <3> QED
      BY <2>1, <3>1, FinishType DEF Abandon, TypeOK, dbVars
  <2> QED
    BY <1>1, <2>1, TypeStart, TypeLoad, TypeSave, TypeSubmit
    DEF Arrive, Serve, SafetyInv
<1>2. CASE UNCHANGED vars
  BY <1>2 DEF vars, dbVars, sessionVars, clientVars, TypeOK
<1> QED
  BY <1>1, <1>2 DEF Next

-----------------------------------------------------------------------------
(* Safety *)

LEMMA SafetyInit == Init => SafetyInv
<1> SUFFICES ASSUME Init PROVE SafetyInv
  OBVIOUS
<1>1. SessionInv
  BY DEF Init, SessionInv, Loading, Idle, NoRows, Unloaded
<1>2. GradingInv /\ CommitInv
  BY DEF Init, GradingInv, CommitInv, NoFacts
<1>3. EvaluationComplete /\ GradesSound /\ ResultsAgree
  BY DEF Init, EvaluationComplete, GradesSound, ResultsAgree, NoFacts
<1> QED
  BY <1>1, <1>2, <1>3 DEF SafetyInv

\* Ending a request, with what it committed to the responses, disturbs nothing
\* the invariant says of the other sessions.
LEMMA FinishSafe ==
  ASSUME TypeOK, SafetyInv, NEW r \in Requests, NEW outcome, Finish(r, outcome),
         UNCHANGED <<status, score, facts>>,
         \A a \in Attempts, q \in Questions :
           response[a][q] # None => response'[a][q] # None
  PROVE  SessionInv' /\ GradingInv' /\ CommitInv' /\ EvaluationComplete' /\ GradesSound'
<1>1. \A s \in Requests \ {r} :
        /\ pc'[s] = pc[s] /\ req'[s] = req[s] /\ loaded'[s] = loaded[s]
        /\ rows'[s] = rows[s] /\ graded'[s] = graded[s]
  BY DEF Finish, TypeOK
<1>2. /\ pc'[r] = "idle" /\ req'[r] = Idle /\ loaded'[r] = Unloaded
      /\ rows'[r] = NoRows /\ graded'[r] = NoFacts
  BY DEF Finish, TypeOK
<1>3. \A s \in Requests : req[s].op \in Loading => req[s].attempt \in Attempts
  BY RequestType DEF Loading, SaveReq, SubmitReq
<1>4. SessionInv'
  <2> SUFFICES ASSUME NEW s \in Requests
               PROVE  /\ pc'[s] = "idle" => req'[s] = Idle
                      /\ req'[s].op \notin Loading => rows'[s] = NoRows /\ loaded'[s] = Unloaded
                      /\ req'[s].op \in Loading => status'[req'[s].attempt] # "absent"
                      /\ \A q \in Questions :
                           rows'[s][q] # None => response'[req'[s].attempt][q] # None
                      /\ loaded'[s].status = "evaluated" =>
                           /\ status'[req'[s].attempt] = "evaluated"
                           /\ loaded'[s].score = score'[req'[s].attempt]
    BY DEF SessionInv
  <2>1. CASE s = r
    BY <2>1, <1>2 DEF Idle, Loading, NoRows, Unloaded
  <2>2. CASE s # r
    <3>1. CASE req[s].op \in Loading
      BY <2>2, <3>1, <1>1, <1>3 DEF SafetyInv, SessionInv
    <3>2. CASE req[s].op \notin Loading
      BY <2>2, <3>2, <1>1 DEF SafetyInv, SessionInv, NoRows, Unloaded
    <3> QED
      BY <3>1, <3>2
  <2> QED
    BY <2>1, <2>2
<1>5. GradingInv'
  <2> SUFFICES ASSUME NEW s \in Requests
               PROVE  /\ req'[s].op # "submit" => graded'[s] = NoFacts
                      /\ pc'[s] \in {"call_provider", "recheck", "flush", "commit"} =>
                           /\ req'[s].op = "submit"
                           /\ \A q \in Questions : graded'[s][q] = None =>
                                pc'[s] = "call_provider" /\ q \in ForProvider(rows'[s])
                      /\ \A q \in Questions : graded'[s][q] # None =>
                           /\ FactSound(q, graded'[s][q])
                           /\ graded'[s][q].answer = AnswerIn(rows'[s], q)
    BY DEF GradingInv, FactSound, ForProvider, AnswerIn
  <2>1. CASE s = r
    BY <2>1, <1>2 DEF NoFacts
  <2>2. CASE s # r
    BY <2>2, <1>1 DEF SafetyInv, GradingInv
  <2> QED
    BY <2>1, <2>2
<1>6. CommitInv'
  BY <1>1, <1>2 DEF SafetyInv, CommitInv, AttemptFree, HoldsAttempt, At
<1>7. EvaluationComplete' /\ GradesSound'
  BY DEF SafetyInv, EvaluationComplete, GradesSound, FactSound, TotalScore
<1> QED
  BY <1>4, <1>5, <1>6, <1>7

\* A request that begins has loaded nothing, and names an existing attempt.
LEMMA BeginSafe ==
  ASSUME TypeOK, SafetyInv, NEW r \in Requests, NEW request, NEW first,
         Begin(r, request, first),
         first \in {"find_active", "load_attempt"},
         request.op \in Loading => request.attempt \in Attempts \ Absent
  PROVE  SafetyInv'
<1>1. \A s \in Requests \ {r} : pc'[s] = pc[s] /\ req'[s] = req[s]
  BY DEF Begin, TypeOK
<1>2. pc'[r] = first /\ req'[r] = request
  BY DEF Begin, TypeOK
<1>3. rows[r] = NoRows /\ loaded[r] = Unloaded
  BY DEF Begin, SafetyInv, SessionInv, Idle, Loading
<1>4. UNCHANGED <<status, score, response, facts, loaded, rows, graded, retries, told>>
  BY DEF Begin, dbVars
<1>5. SessionInv'
  <2>1. ASSUME NEW s \in Requests, s # r
        PROVE  /\ pc'[s] = "idle" => req'[s] = Idle
               /\ req'[s].op \notin Loading => rows'[s] = NoRows /\ loaded'[s] = Unloaded
               /\ req'[s].op \in Loading => status'[req'[s].attempt] # "absent"
               /\ \A q \in Questions :
                    rows'[s][q] # None => response'[req'[s].attempt][q] # None
               /\ loaded'[s].status = "evaluated" =>
                    /\ status'[req'[s].attempt] = "evaluated"
                    /\ loaded'[s].score = score'[req'[s].attempt]
    BY <2>1, <1>1, <1>4 DEF SafetyInv, SessionInv
  <2>2. /\ pc'[r] # "idle"
        /\ rows'[r] = NoRows /\ loaded'[r] = Unloaded
        /\ req'[r].op \in Loading => status'[req'[r].attempt] # "absent"
    BY <1>2, <1>3, <1>4 DEF Absent
  <2> QED
    BY <2>1, <2>2 DEF SessionInv, NoRows, Unloaded
<1>6. GradingInv'
  <2>1. graded[r] = NoFacts
    BY DEF Begin, SafetyInv, SessionInv, GradingInv, Idle
  <2> QED
    BY <2>1, <1>1, <1>2, <1>4
    DEF SafetyInv, GradingInv, FactSound, ForProvider, AnswerIn, NoFacts
<1>7. CommitInv'
  BY <1>1, <1>2, <1>4 DEF SafetyInv, CommitInv, AttemptFree, HoldsAttempt, At
<1>8. EvaluationComplete' /\ GradesSound' /\ ResultsAgree'
  BY <1>4 DEF SafetyInv, EvaluationComplete, GradesSound, ResultsAgree, FactSound,
              TotalScore
<1> QED
  BY <1>5, <1>6, <1>7, <1>8 DEF SafetyInv

LEMMA ArriveSafe ==
  ASSUME TypeOK, SafetyInv, NEW r \in Requests, Arrive(r)
  PROVE  SafetyInv'
<1>1. CASE BeginStart(r)
  BY <1>1, BeginSafe DEF BeginStart, Loading
<1>2. CASE BeginSave(r)
  BY <1>2, BeginSafe DEF BeginSave, Loading, Absent
<1>3. CASE BeginSubmit(r)
  BY <1>3, BeginSafe DEF BeginSubmit, Loading
<1> QED
  BY <1>1, <1>2, <1>3 DEF Arrive

\* A step of r that writes no table, keeps its request and only moves r on.
LEMMA StepSafe ==
  ASSUME TypeOK, SafetyInv, NEW r \in Requests,
         UNCHANGED <<dbVars, req, told>>,
         pc'[r] # "idle",
         \A s \in Requests \ {r} : /\ pc'[s] = pc[s]
                                   /\ loaded'[s] = loaded[s]
                                   /\ rows'[s] = rows[s]
                                   /\ graded'[s] = graded[s],
         req[r].op \notin Loading => rows'[r] = NoRows /\ loaded'[r] = Unloaded,
         req[r].op # "submit" => graded'[r] = NoFacts,
         \A q \in Questions :
           rows'[r][q] # None => response[req[r].attempt][q] # None,
         loaded'[r].status = "evaluated" =>
           /\ status[req[r].attempt] = "evaluated"
           /\ loaded'[r].score = score[req[r].attempt],
         pc'[r] \in {"call_provider", "recheck", "flush", "commit"} =>
           /\ req[r].op = "submit"
           /\ \A q \in Questions : graded'[r][q] = None =>
                pc'[r] = "call_provider" /\ q \in ForProvider(rows'[r]),
         \A q \in Questions : graded'[r][q] # None =>
           /\ FactSound(q, graded'[r][q])
           /\ graded'[r][q].answer = AnswerIn(rows'[r], q),
         pc'[r] = "commit" =>
           /\ status[req[r].attempt] = "in_progress"
           /\ facts[req[r].attempt] = NoFacts
           /\ AttemptFree(r, req[r].attempt),
         pc'[r] # "refresh"
  PROVE  SafetyInv'
<1>1. UNCHANGED <<status, score, response, facts>>
  BY DEF dbVars
<1>2. SessionInv'
  BY <1>1 DEF SafetyInv, SessionInv
<1>3. GradingInv'
  BY <1>1 DEF SafetyInv, GradingInv, FactSound, ForProvider, AnswerIn
<1>4. CommitInv'
  <2>1. \A s \in Requests : pc[s] = "commit" => req[s].op = "submit"
    BY DEF SafetyInv, GradingInv
  <2>2. ASSUME NEW s \in Requests \ {r}, pc'[s] = "commit"
        PROVE  AttemptFree(s, req[s].attempt)'
    <3>1. AttemptFree(s, req[s].attempt)
      BY <2>2 DEF SafetyInv, CommitInv
    <3>2. pc'[r] = "commit" => req[r].attempt # req[s].attempt
      BY <2>1, <2>2 DEF AttemptFree, HoldsAttempt, At
    <3> QED
      BY <3>1, <3>2 DEF AttemptFree, HoldsAttempt, At
  <2>3. pc'[r] = "commit" => AttemptFree(r, req[r].attempt)'
    BY DEF AttemptFree, HoldsAttempt, At
  <2> QED
    BY <2>2, <2>3, <1>1 DEF SafetyInv, CommitInv
<1>5. EvaluationComplete' /\ GradesSound' /\ ResultsAgree'
  BY <1>1 DEF SafetyInv, EvaluationComplete, GradesSound, ResultsAgree, FactSound,
              TotalScore
<1> QED
  BY <1>2, <1>3, <1>4, <1>5 DEF SafetyInv

LEMMA StartSafe ==
  ASSUME TypeOK, SafetyInv, NEW r \in Requests, StartSteps(r)
  PROVE  SafetyInv'
<1>0. req[r].op = "start"
  BY DEF StartSteps, FindActive, InsertAttempt, At
<1>1. CASE FindActive(r)
  <2>1. CASE Finish(r, "ok") /\ UNCHANGED <<dbVars, told>>
    BY <2>1, FinishSafe DEF SafetyInv, ResultsAgree, dbVars
  <2>2. CASE /\ pc' = [pc EXCEPT ![r] = "insert_attempt"]
             /\ UNCHANGED <<sessionVars, reply>>
             /\ UNCHANGED <<dbVars, told>>
    <3>1. pc'[r] = "insert_attempt" /\ \A s \in Requests \ {r} : pc'[s] = pc[s]
      BY <2>2 DEF TypeOK
    <3> QED
      BY <2>2, <3>1, <1>0, StepSafe
      DEF sessionVars, Loading, SafetyInv, SessionInv, GradingInv
  <2> QED
    BY <1>1, <2>1, <2>2 DEF FindActive
<1>2. CASE InsertAttempt(r)
  <2>1. PICK b \in Absent : status' = [status EXCEPT ![b] = "in_progress"]
    BY <1>2 DEF InsertAttempt
  <2>2. /\ b \in Attempts /\ status[b] = "absent"
        /\ \A a \in Attempts \ {b} : status'[a] = status[a]
        /\ status'[b] = "in_progress"
    BY <2>1 DEF Absent, TypeOK
  <2>3. UNCHANGED <<score, response, facts, told>> /\ Finish(r, "ok")
    BY <1>2 DEF InsertAttempt
  <2>4. \A s \in Requests \ {r} :
          /\ pc'[s] = pc[s] /\ req'[s] = req[s] /\ loaded'[s] = loaded[s]
          /\ rows'[s] = rows[s] /\ graded'[s] = graded[s]
    BY <2>3 DEF Finish, TypeOK
  <2>5. /\ pc'[r] = "idle" /\ req'[r] = Idle /\ loaded'[r] = Unloaded
        /\ rows'[r] = NoRows /\ graded'[r] = NoFacts
    BY <2>3 DEF Finish, TypeOK
  <2>6. \A s \in Requests : req[s].op \in Loading =>
          req[s].attempt \in Attempts /\ req[s].attempt # b
    BY <2>2, RequestType DEF Loading, SaveReq, SubmitReq, SafetyInv, SessionInv
  <2>7. SessionInv'
    <3>1. ASSUME NEW s \in Requests, s # r
          PROVE  /\ pc'[s] = "idle" => req'[s] = Idle
                 /\ req'[s].op \notin Loading => rows'[s] = NoRows /\ loaded'[s] = Unloaded
                 /\ req'[s].op \in Loading => status'[req'[s].attempt] # "absent"
                 /\ \A q \in Questions :
                      rows'[s][q] # None => response'[req'[s].attempt][q] # None
                 /\ loaded'[s].status = "evaluated" =>
                      /\ status'[req'[s].attempt] = "evaluated"
                      /\ loaded'[s].score = score'[req'[s].attempt]
      <4>1. CASE req[s].op \in Loading
        BY <3>1, <4>1, <2>2, <2>3, <2>4, <2>6 DEF SafetyInv, SessionInv
      <4>2. CASE req[s].op \notin Loading
        BY <3>1, <4>2, <2>3, <2>4 DEF SafetyInv, SessionInv, NoRows, Unloaded
      <4> QED
        BY <4>1, <4>2
    <3> QED
      BY <3>1, <2>5 DEF SessionInv, Idle, Loading, NoRows, Unloaded
  <2>8. GradingInv'
    BY <2>4, <2>5 DEF SafetyInv, GradingInv, FactSound, ForProvider, AnswerIn, NoFacts
  <2>9. CommitInv'
    <3>1. \A s \in Requests : pc[s] \in {"commit", "refresh"} => req[s].op \in Loading
      BY DEF SafetyInv, GradingInv, CommitInv, Loading
    <3> QED
      BY <3>1, <2>2, <2>3, <2>4, <2>5, <2>6
      DEF SafetyInv, CommitInv, AttemptFree, HoldsAttempt, At
  <2>10. EvaluationComplete' /\ GradesSound' /\ ResultsAgree'
    BY <2>2, <2>3 DEF SafetyInv, EvaluationComplete, GradesSound, ResultsAgree,
                      FactSound, TotalScore
  <2> QED
    BY <2>7, <2>8, <2>9, <2>10 DEF SafetyInv
<1> QED
  BY <1>1, <1>2 DEF StartSteps

LEMMA LoadAttemptSafe ==
  ASSUME TypeOK, SafetyInv, NEW r \in Requests, LoadAttempt(r)
  PROVE  SafetyInv'
<1> DEFINE a == req[r].attempt
<1>1. req[r].op \in Loading /\ a \in Attempts
  BY RequestType DEF LoadAttempt, Loading, SaveReq, SubmitReq
<1>2. /\ loaded'[r] = [status |-> status[a], score |-> score[a]]
      /\ pc'[r] = "load_responses"
      /\ \A s \in Requests \ {r} : pc'[s] = pc[s] /\ loaded'[s] = loaded[s]
      /\ UNCHANGED <<dbVars, req, rows, graded, told>>
  BY DEF LoadAttempt, TypeOK, clientVars
<1> QED
  BY <1>1, <1>2, StepSafe DEF SafetyInv, SessionInv, GradingInv

\* A save computes no grades.
LEMMA SaveHasNoGrades ==
  ASSUME SafetyInv, NEW r \in Requests, req[r].op = "save"
  PROVE  graded[r] = NoFacts /\ \A q \in Questions : graded[r][q] = None
BY DEF SafetyInv, GradingInv, NoFacts

LEMMA SaveSafe ==
  ASSUME TypeOK, SafetyInv, NEW r \in Requests, SaveSteps(r)
  PROVE  SafetyInv'
<1> DEFINE a == req[r].attempt
           q == req[r].question
<1>0. /\ req[r] \in SaveReq /\ req[r].op = "save" /\ req[r].op \in Loading
      /\ a \in Attempts /\ q \in Questions
  BY RequestType
  DEF SaveSteps, LoadForSave, LockResponse, RejectVersion, UpdateResponse,
      InsertResponse, At, SaveReq, Loading
<1>g. graded[r] = NoFacts /\ \A p \in Questions : graded[r][p] = None
  BY <1>0, SaveHasNoGrades
<1>1. CASE LoadForSave(r)
  <2>1. CASE Finish(r, "closed") /\ UNCHANGED <<dbVars, told>>
    BY <2>1, FinishSafe DEF SafetyInv, ResultsAgree, dbVars
  <2>2. CASE /\ rows' = [rows EXCEPT ![r] = response[a]]
             /\ pc' = [pc EXCEPT ![r] = "lock_response"]
             /\ UNCHANGED <<req, loaded, graded, retries, reply>>
             /\ UNCHANGED <<dbVars, told>>
    <3>1. /\ rows'[r] = response[a] /\ pc'[r] = "lock_response"
          /\ \A s \in Requests \ {r} : pc'[s] = pc[s] /\ rows'[s] = rows[s]
      BY <2>2 DEF TypeOK
    <3> QED
      BY <2>2, <3>1, <1>0, <1>g, StepSafe DEF SafetyInv, SessionInv
  <2> QED
    BY <1>1, <2>1, <2>2 DEF LoadForSave
<1>2. CASE LockResponse(r)
  <2>1. /\ UNCHANGED <<dbVars, req, loaded, graded, retries, clientVars>>
        /\ pc'[r] = "write_response"
        /\ \A s \in Requests \ {r} : pc'[s] = pc[s] /\ rows'[s] = rows[s]
        /\ \A p \in Questions \ {q} : rows'[r][p] = rows[r][p]
        /\ rows'[r][q] = IF rows[r][q] # None THEN rows[r][q] ELSE response[a][q]
    BY <1>2, <1>0 DEF LockResponse, TypeOK, RowMap
  <2>2. \A p \in Questions : rows'[r][p] # None => response[a][p] # None
    BY <2>1 DEF SafetyInv, SessionInv
  <2> QED
    BY <2>1, <2>2, <1>0, <1>g, StepSafe DEF SafetyInv, SessionInv, clientVars
<1>3. CASE RejectVersion(r)
  BY <1>3, FinishSafe DEF RejectVersion, SafetyInv, ResultsAgree, dbVars
<1>4. ASSUME NEW new, new # None, response' = [response EXCEPT ![a][q] = new],
             UNCHANGED <<status, score, facts, told>>, Finish(r, "ok")
      PROVE  SafetyInv'
  <2>1. \A b \in Attempts, p \in Questions :
          response[b][p] # None => response'[b][p] # None
    BY <1>4, <1>0 DEF TypeOK, RowMap
  <2> QED
    BY <1>4, <2>1, FinishSafe DEF SafetyInv, ResultsAgree
<1>5. CASE UpdateResponse(r)
  <2> DEFINE new == UpdatedRow(req[r], rows[r][q], response[a][q])
  <2>1. rows[r][q] \in Row /\ response[a][q] \in Row
    BY <1>5, <1>0 DEF UpdateResponse, TypeOK, RowMap, SafetyInv, SessionInv
  <2>2. new # None
    BY <2>1, <1>0, UpdatedRowType, NoneAssumption DEF Row
  <2>3. /\ response' = [response EXCEPT ![a][q] = new]
        /\ UNCHANGED <<status, score, facts, told>> /\ Finish(r, "ok")
    BY <1>5 DEF UpdateResponse
  <2> HIDE DEF new
  <2> QED
    BY <2>2, <2>3, <1>4
<1>6. CASE InsertResponse(r)
  <2> DEFINE new == [answer |-> req[r].answer, flagged |-> req[r].flagged, version |-> 1]
  <2>1. new \in [answer : Answers, flagged : BOOLEAN, version : Nat]
    BY <1>0 DEF SaveReq
  <2>2. new # None
    BY <2>1, NoneAssumption
  <2>3. \/ /\ response' = [response EXCEPT ![a][q] = new]
           /\ UNCHANGED <<status, score, facts, told>> /\ Finish(r, "ok")
        \/ UNCHANGED <<status, score, response, facts, told>> /\ Finish(r, "integrity_error")
    BY <1>6 DEF InsertResponse
  <2> HIDE DEF new
  <2>4. CASE UNCHANGED <<status, score, response, facts, told>> /\ Finish(r, "integrity_error")
    BY <2>4, FinishSafe DEF SafetyInv, ResultsAgree
  <2> QED
    BY <2>2, <2>3, <2>4, <1>4
<1> QED
  BY <1>1, <1>2, <1>3, <1>5, <1>6 DEF SaveSteps

\* The deterministic graders are sound on the answers they are given.
LEMMA LocalGradesSound ==
  ASSUME NEW m \in RowMap, NEW q \in Questions
  PROVE  /\ LocalGrades(m)[q] = None => q \in ForProvider(m)
         /\ LocalGrades(m)[q] # None =>
              /\ FactSound(q, LocalGrades(m)[q])
              /\ LocalGrades(m)[q].answer = AnswerIn(m, q)
<1>1. AnswerIn(m, q) \in Answers /\ LocalFact(m, q) \in Fact
  BY LocalFactType
<1>2. Fact \subseteq [answer : Answers, points : Nat]
  BY PointsAssumption DEF Fact, Award
<1>3. LocalFact(m, q) # None
  BY <1>1, <1>2, NoneAssumption
<1>4. FactSound(q, LocalFact(m, q)) /\ LocalFact(m, q).answer = AnswerIn(m, q)
  BY <1>1, LocalScoreAssumption DEF FactSound, LocalFact
<1> QED
  BY <1>3, <1>4 DEF LocalGrades

\* Returning a result: only the stored score of an evaluated attempt.
LEMMA ReturnSafe ==
  ASSUME TypeOK, SafetyInv, NEW r \in Requests, NEW a \in Attempts,
         status[a] = "evaluated", ReturnResult(r, a, score[a]), UNCHANGED dbVars
  PROVE  SafetyInv'
<1>1. score[a] # None
  <2>1. facts[a] \in [Questions -> Fact]
    BY DEF SafetyInv, EvaluationComplete, TypeOK, FactMap
  <2> QED
    BY <2>1, TotalScoreType, NoneIsNoScore DEF SafetyInv, EvaluationComplete
<1>2. ResultsAgree'
  BY <1>1 DEF ReturnResult, SafetyInv, ResultsAgree, TypeOK, dbVars
<1>3. SessionInv' /\ GradingInv' /\ CommitInv' /\ EvaluationComplete' /\ GradesSound'
  BY FinishSafe DEF ReturnResult, dbVars
<1> QED
  BY <1>2, <1>3 DEF SafetyInv

LEMMA SubmitRequest ==
  ASSUME TypeOK, NEW r \in Requests, SubmitSteps(r)
  PROVE  /\ req[r] \in SubmitReq /\ req[r].op = "submit" /\ req[r].op \in Loading
         /\ req[r].attempt \in Attempts
BY RequestType
DEF SubmitSteps, LoadForSubmit, ProviderGrades, ProviderInvalid, ProviderError,
    Recheck, Flush, FailAnalytics, CommitSubmit, Refresh, At, SubmitReq, Loading

LEMMA LoadForSubmitSafe ==
  ASSUME TypeOK, SafetyInv, NEW r \in Requests, LoadForSubmit(r)
  PROVE  SafetyInv'
<1> DEFINE a == req[r].attempt
<1>0. req[r].op = "submit" /\ req[r].op \in Loading /\ a \in Attempts
  BY SubmitRequest DEF SubmitSteps
<1>1. CASE ReturnResult(r, a, loaded[r].score) /\ UNCHANGED dbVars
           /\ loaded[r].status = "evaluated"
  BY <1>0, <1>1, ReturnSafe DEF SafetyInv, SessionInv
<1>2. CASE /\ rows' = [rows EXCEPT ![r] = response[a]]
           /\ graded' = [graded EXCEPT ![r] = LocalGrades(response[a])]
           /\ pc' = [pc EXCEPT ![r] = IF ForProvider(response[a]) = {}
                                        THEN "recheck" ELSE "call_provider"]
           /\ UNCHANGED <<req, loaded, retries, clientVars>>
           /\ UNCHANGED dbVars
  <2>1. /\ rows'[r] = response[a] /\ graded'[r] = LocalGrades(response[a])
        /\ pc'[r] = IF ForProvider(response[a]) = {} THEN "recheck" ELSE "call_provider"
        /\ \A s \in Requests \ {r} :
             pc'[s] = pc[s] /\ rows'[s] = rows[s] /\ graded'[s] = graded[s]
    BY <1>2 DEF TypeOK
  <2>2. response[a] \in RowMap
    BY <1>0 DEF TypeOK
  <2>3. \A q \in Questions :
          /\ graded'[r][q] = None =>
               pc'[r] = "call_provider" /\ q \in ForProvider(rows'[r])
          /\ graded'[r][q] # None =>
               /\ FactSound(q, graded'[r][q])
               /\ graded'[r][q].answer = AnswerIn(rows'[r], q)
    BY <2>1, <2>2, LocalGradesSound
  <2> QED
    BY <1>2, <2>1, <2>3, <1>0, StepSafe DEF SafetyInv, SessionInv, clientVars
<1> QED
  BY <1>1, <1>2 DEF LoadForSubmit

LEMMA ProviderSafe ==
  ASSUME TypeOK, SafetyInv, NEW r \in Requests,
         ProviderGrades(r) \/ ProviderInvalid(r) \/ ProviderError(r)
  PROVE  SafetyInv'
<1> DEFINE a == req[r].attempt
           sent == ForProvider(rows[r])
<1>0. /\ req[r].op = "submit" /\ req[r].op \in Loading /\ a \in Attempts
      /\ pc[r] = "call_provider"
  BY SubmitRequest DEF SubmitSteps, ProviderGrades, ProviderInvalid, ProviderError, At
<1>1. CASE ProviderGrades(r)
  <2>1. PICK award \in [sent -> Award] :
          /\ \A q \in sent : award[q] <= Points[q]
          /\ graded' = [graded EXCEPT ![r] =
               [q \in Questions |->
                  IF q \in sent
                    THEN [answer |-> AnswerIn(rows[r], q), points |-> award[q]]
                    ELSE graded[r][q]]]
    BY <1>1 DEF ProviderGrades
  <2>2. /\ \A q \in Questions :
             graded'[r][q] = IF q \in sent
                               THEN [answer |-> AnswerIn(rows[r], q), points |-> award[q]]
                               ELSE graded[r][q]
        /\ \A s \in Requests \ {r} : graded'[s] = graded[s]
    BY <2>1 DEF TypeOK
  <2>3. /\ pc'[r] = "recheck"
        /\ \A s \in Requests \ {r} : pc'[s] = pc[s]
        /\ UNCHANGED <<dbVars, req, loaded, rows, retries, clientVars>>
    BY <1>1 DEF ProviderGrades, TypeOK
  <2>4. \A q \in sent : q \in Open /\ AnswerIn(rows[r], q) # Blank /\ q \in Questions
    BY OpenAssumption DEF ForProvider
  <2>5. \A q \in Questions : graded'[r][q] # None
    <3> SUFFICES ASSUME NEW q \in Questions PROVE graded'[r][q] # None
      OBVIOUS
    <3>1. CASE q \in sent
      <4>1. AnswerIn(rows[r], q) \in Answers /\ award[q] \in Nat
        BY <3>1, <2>1, LocalFactType, PointsAssumption DEF TypeOK, Award
      <4> DEFINE given == AnswerIn(rows[r], q)
                 points == award[q]
      <4>2. graded'[r][q] = [answer |-> given, points |-> points]
        BY <3>1, <2>2
      <4> HIDE DEF given, points, sent
      <4>3. [answer |-> given, points |-> points] \in [answer : Answers, points : Nat]
        BY <4>1 DEF given, points
      <4> QED
        BY <4>2, <4>3, NoneAssumption
    <3>2. CASE q \notin sent
      BY <3>2, <2>2, <1>0 DEF SafetyInv, GradingInv
    <3> QED
      BY <3>1, <3>2
  <2>6. \A q \in Questions : FactSound(q, graded'[r][q])
                             /\ graded'[r][q].answer = AnswerIn(rows'[r], q)
    BY <2>1, <2>2, <2>3, <2>4, <2>5 DEF FactSound, SafetyInv, GradingInv
  <2> QED
    BY <2>2, <2>3, <2>5, <2>6, <1>0, StepSafe DEF SafetyInv, SessionInv, clientVars
<1>2. CASE ProviderInvalid(r) /\ retries[r] < MaxRetries
  <2>1. UNCHANGED <<dbVars, pc, req, loaded, rows, graded, reply, told>>
    BY <1>2 DEF ProviderInvalid
  <2> QED
    BY <2>1, <1>0, StepSafe DEF SafetyInv, SessionInv, GradingInv
<1>3. CASE (ProviderInvalid(r) /\ ~(retries[r] < MaxRetries)) \/ ProviderError(r)
  BY <1>3, FinishSafe DEF ProviderInvalid, ProviderError, SafetyInv, ResultsAgree, dbVars
<1> QED
  BY <1>1, <1>2, <1>3

LEMMA RecheckSafe ==
  ASSUME TypeOK, SafetyInv, NEW r \in Requests, Recheck(r)
  PROVE  SafetyInv'
<1> DEFINE a == req[r].attempt
           fresh == Reloaded(r)
<1>0. req[r].op = "submit" /\ req[r].op \in Loading /\ a \in Attempts /\ pc[r] = "recheck"
  BY SubmitRequest DEF SubmitSteps, Recheck, At
<1>1. fresh.status = "evaluated" => status[a] = "evaluated" /\ fresh.score = score[a]
  BY DEF Reloaded, SafetyInv, SessionInv
<1>2. CASE fresh.status = "evaluated"
  BY <1>0, <1>1, <1>2, ReturnSafe DEF Recheck
<1>3. CASE fresh.status # "evaluated"
  <2> DEFINE now == Reloaded(r)
  <2>1. /\ loaded' = [loaded EXCEPT ![r] = now]
        /\ pc' = [pc EXCEPT ![r] = "flush"]
        /\ UNCHANGED <<req, rows, graded, retries, clientVars>>
        /\ UNCHANGED dbVars
    BY <1>3 DEF Recheck
  <2>2. /\ loaded'[r].status # "evaluated" /\ pc'[r] = "flush"
        /\ \A s \in Requests \ {r} : pc'[s] = pc[s] /\ loaded'[s] = loaded[s]
    BY <2>1, <1>3 DEF TypeOK
  <2> QED
    BY <2>1, <2>2, <1>0, StepSafe DEF SafetyInv, SessionInv, GradingInv, clientVars
<1> QED
  BY <1>2, <1>3

LEMMA FlushSafe ==
  ASSUME TypeOK, SafetyInv, NEW r \in Requests, Flush(r)
  PROVE  SafetyInv'
<1> DEFINE a == req[r].attempt
<1>0. /\ req[r].op = "submit" /\ req[r].op \in Loading /\ a \in Attempts
      /\ pc[r] = "flush"
  BY SubmitRequest DEF SubmitSteps, Flush, At
<1>1. CASE Finish(r, "integrity_error") /\ UNCHANGED <<dbVars, told>>
  BY <1>1, FinishSafe DEF SafetyInv, ResultsAgree, dbVars
<1>2. CASE /\ \A q \in Questions : facts[a][q] = None
           /\ AttemptFree(r, a)
           /\ pc' = [pc EXCEPT ![r] = "commit"]
           /\ UNCHANGED <<sessionVars, reply>>
           /\ UNCHANGED <<dbVars, told>>
  <2>1. pc'[r] = "commit" /\ \A s \in Requests \ {r} : pc'[s] = pc[s]
    BY <1>2 DEF TypeOK
  <2>2. status[a] = "in_progress" /\ facts[a] = NoFacts
    BY <1>0, <1>2, QuestionsAssumption
    DEF SafetyInv, EvaluationComplete, SessionInv, TypeOK, Status
  <2>3. \A q \in Questions : graded[r][q] # None
    BY <1>0 DEF SafetyInv, GradingInv
  <2> QED
    BY <1>2, <2>1, <2>2, <2>3, <1>0, StepSafe
    DEF sessionVars, SafetyInv, SessionInv, GradingInv
<1> QED
  BY <1>1, <1>2 DEF Flush

LEMMA CommitSafe ==
  ASSUME TypeOK, SafetyInv, NEW r \in Requests, CommitSubmit(r)
  PROVE  SafetyInv'
<1> DEFINE a == req[r].attempt
<1>0. /\ req[r].op = "submit" /\ req[r].op \in Loading /\ a \in Attempts
      /\ pc[r] = "commit"
  BY SubmitRequest DEF SubmitSteps, CommitSubmit, At
<1>1. /\ status[a] = "in_progress" /\ facts[a] = NoFacts
      /\ AttemptFree(r, a)
  BY <1>0 DEF SafetyInv, CommitInv
<1>2. /\ status'[a] = "evaluated" /\ score'[a] = TotalScore(graded[r])
      /\ facts'[a] = graded[r]
      /\ \A b \in Attempts \ {a} :
           status'[b] = status[b] /\ score'[b] = score[b] /\ facts'[b] = facts[b]
      /\ pc'[r] = "refresh" /\ \A s \in Requests \ {r} : pc'[s] = pc[s]
      /\ UNCHANGED <<response, req, loaded, rows, graded, told>>
  BY <1>0 DEF CommitSubmit, TypeOK, sessionVars, clientVars
<1>3. SessionInv'
  <2>1. ASSUME NEW s \in Requests
        PROVE  /\ pc'[s] = "idle" => req'[s] = Idle
               /\ req'[s].op \notin Loading
                    => rows'[s] = NoRows /\ loaded'[s] = Unloaded
               /\ \A q \in Questions :
                    rows'[s][q] # None => response'[req'[s].attempt][q] # None
    BY <1>2 DEF SafetyInv, SessionInv
  <2>2. ASSUME NEW s \in Requests, req[s].op \in Loading
        PROVE  req[s].attempt \in Attempts
    BY <2>2, RequestType DEF Loading, SaveReq, SubmitReq
  <2>3. ASSUME NEW s \in Requests, req'[s].op \in Loading
        PROVE  status'[req'[s].attempt] # "absent"
    <3>1. req[s].op \in Loading /\ req'[s] = req[s]
      BY <2>3, <1>2
    <3>2. req[s].attempt \in Attempts /\ status[req[s].attempt] # "absent"
      BY <3>1, <2>2 DEF SafetyInv, SessionInv
    <3> QED
      BY <3>1, <3>2, <1>2
  <2>4. ASSUME NEW s \in Requests, loaded'[s].status = "evaluated"
        PROVE  /\ status'[req'[s].attempt] = "evaluated"
               /\ loaded'[s].score = score'[req'[s].attempt]
    <3>1. /\ loaded[s].status = "evaluated"
          /\ status[req[s].attempt] = "evaluated"
          /\ loaded[s].score = score[req[s].attempt]
      BY <2>4, <1>2 DEF SafetyInv, SessionInv
    <3>2. req[s].op \in Loading
      BY <3>1 DEF SafetyInv, SessionInv, Unloaded
    <3>3. req[s].attempt \in Attempts \ {a}
      BY <3>1, <3>2, <2>2, <1>1
    <3> QED
      BY <3>1, <3>3, <1>2
  <2> QED
    BY <2>1, <2>3, <2>4 DEF SessionInv
<1>4. GradingInv'
  BY <1>2 DEF SafetyInv, GradingInv, FactSound, ForProvider, AnswerIn
<1>5. CommitInv'
  <2>1. ASSUME NEW s \in Requests \ {r}, pc[s] = "commit"
        PROVE  req[s].attempt # a /\ req[s].attempt \in Attempts
    BY <2>1, <1>1, RequestType
    DEF SafetyInv, GradingInv, AttemptFree, HoldsAttempt, At, SubmitReq
  <2>2. ASSUME NEW s \in Requests, pc[s] = "refresh"
        PROVE  req[s].attempt \in Attempts
    <3>1. req[s].op = "submit"
      BY <2>2 DEF SafetyInv, CommitInv
    <3> QED
      BY <3>1, RequestType DEF SubmitReq
  <2> QED
    BY <2>1, <2>2, <1>0, <1>2
    DEF SafetyInv, CommitInv, AttemptFree, HoldsAttempt, At
<1>6. \A q \in Questions : graded[r][q] # None
  BY <1>0 DEF SafetyInv, GradingInv
<1>7. EvaluationComplete' /\ GradesSound'
  <2>1. EvaluationComplete'
    BY <1>2, <1>6 DEF SafetyInv, EvaluationComplete, TotalScore
  <2>2. GradesSound'
    BY <1>2 DEF SafetyInv, GradesSound, GradingInv, FactSound
  <2> QED
    BY <2>1, <2>2
<1>8. ResultsAgree'
  <2>1. score[a] = None
    BY <1>0, <1>1 DEF SafetyInv, EvaluationComplete
  <2>2. told[a] \subseteq {score[a]} /\ None \notin told[a]
    BY <1>0 DEF SafetyInv, ResultsAgree
  <2>3. told[a] = {}
    BY <2>1, <2>2
  <2> QED
    BY <2>3, <1>2 DEF SafetyInv, ResultsAgree
<1> QED
  BY <1>3, <1>4, <1>5, <1>7, <1>8 DEF SafetyInv

LEMMA SubmitSafe ==
  ASSUME TypeOK, SafetyInv, NEW r \in Requests, SubmitSteps(r)
  PROVE  SafetyInv'
<1>1. CASE FailAnalytics(r)
  BY <1>1, FinishSafe DEF FailAnalytics, SafetyInv, ResultsAgree, dbVars
<1>2. CASE Refresh(r)
  <2>1. status[req[r].attempt] = "evaluated"
    BY <1>2 DEF Refresh, At, SafetyInv, CommitInv
  <2> QED
    BY <1>2, <2>1, SubmitRequest, ReturnSafe DEF Refresh
<1> QED
  BY <1>1, <1>2, LoadForSubmitSafe, ProviderSafe, RecheckSafe, FlushSafe, CommitSafe
  DEF SubmitSteps

LEMMA SafetyNext == TypeOK /\ SafetyInv /\ [Next]_vars => SafetyInv'
<1> SUFFICES ASSUME TypeOK, SafetyInv, [Next]_vars PROVE SafetyInv'
  OBVIOUS
<1>1. ASSUME NEW r \in Requests, Arrive(r) \/ Serve(r) \/ Abandon(r)
      PROVE  SafetyInv'
  <2>1. CASE Abandon(r)
    BY <2>1, FinishSafe DEF Abandon, SafetyInv, ResultsAgree, dbVars
  <2> QED
    BY <1>1, <2>1, ArriveSafe, LoadAttemptSafe, StartSafe, SaveSafe, SubmitSafe
    DEF Serve
<1>2. CASE UNCHANGED vars
  BY <1>2 DEF vars, dbVars, sessionVars, clientVars, SafetyInv, SessionInv,
     GradingInv, CommitInv, EvaluationComplete, GradesSound, ResultsAgree,
     FactSound, ForProvider, AnswerIn, AttemptFree, HoldsAttempt, At, TotalScore
<1> QED
  BY <1>1, <1>2 DEF Next

\* The types and the inductive invariant, for any numbers of attempts,
\* questions, answers and concurrent requests of attempt_service.py.
THEOREM Invariance == Spec => [](TypeOK /\ SafetyInv)
<1>1. Init => TypeOK /\ SafetyInv
  BY TypeInit, SafetyInit
<1>2. TypeOK /\ SafetyInv /\ [Next]_vars => (TypeOK /\ SafetyInv)'
  BY TypeNext, SafetyNext
<1> QED
  BY <1>1, <1>2, PTL DEF Spec

\* Every variable keeps its type.
THEOREM TypeCorrect == Spec => []TypeOK
BY Invariance, PTL

\* The evaluation of an attempt is stored whole or not at all.
THEOREM EvaluationIsComplete == Spec => []EvaluationComplete
<1>1. SafetyInv => EvaluationComplete
  BY DEF SafetyInv
<1> QED
  BY <1>1, Invariance, PTL

\* Stored grades are grades of the answers they quote.
THEOREM GradesAreSound == Spec => []GradesSound
<1>1. SafetyInv => GradesSound
  BY DEF SafetyInv
<1> QED
  BY <1>1, Invariance, PTL

\* No two clients are told different results of one attempt.
THEOREM ResultsAgreeAlways == Spec => []ResultsAgree
<1>1. SafetyInv => ResultsAgree
  BY DEF SafetyInv
<1> QED
  BY <1>1, Invariance, PTL

-----------------------------------------------------------------------------
(* The refinement of AttemptContract, and what a step may never do *)

LEMMA ContractInit == Init => Contract!Init
BY DEF Init, Contract!Init

\* A request that ends without a result, or that only moves on, is invisible.
LEMMA ContractStutter ==
  ASSUME UNCHANGED <<status, score, told>>
  PROVE  UNCHANGED Contract!vars
BY DEF Contract!vars

LEMMA ContractTell ==
  ASSUME TypeOK, NEW r \in Requests, NEW a \in Attempts, NEW result,
         ReturnResult(r, a, result), UNCHANGED dbVars,
         status[a] = "evaluated", result = score[a]
  PROVE  Contract!Next
<1>1. Contract!Tell(a)
  BY DEF ReturnResult, dbVars, Contract!Tell
<1> QED
  BY <1>1 DEF Contract!Next

LEMMA ContractSubmit ==
  ASSUME TypeOK, SafetyInv, NEW r \in Requests, SubmitSteps(r)
  PROVE  Contract!Next \/ UNCHANGED <<status, score, told>>
<1> DEFINE a == req[r].attempt
<1>1. a \in Attempts
  BY SubmitRequest
<1>2. CASE LoadForSubmit(r)
  <2>1. CASE loaded[r].status = "evaluated"
    <3>1. status[a] = "evaluated" /\ loaded[r].score = score[a]
      BY <2>1 DEF SafetyInv, SessionInv
    <3>2. ReturnResult(r, a, loaded[r].score) /\ UNCHANGED dbVars
      BY <1>2, <2>1 DEF LoadForSubmit
    <3> QED
      BY <3>1, <3>2, <1>1, ContractTell
  <2>2. CASE loaded[r].status # "evaluated"
    BY <1>2, <2>2 DEF LoadForSubmit, dbVars, clientVars
  <2> QED
    BY <2>1, <2>2
<1>3. CASE Recheck(r)
  <2>1. CASE Reloaded(r).status = "evaluated"
    <3>1. status[a] = "evaluated" /\ Reloaded(r).score = score[a]
      BY <2>1 DEF SafetyInv, SessionInv, Reloaded
    <3>2. ReturnResult(r, a, Reloaded(r).score) /\ UNCHANGED dbVars
      BY <1>3, <2>1 DEF Recheck
    <3> QED
      BY <3>1, <3>2, <1>1, ContractTell
  <2>2. CASE Reloaded(r).status # "evaluated"
    BY <1>3, <2>2 DEF Recheck, dbVars, clientVars
  <2> QED
    BY <2>1, <2>2
<1>4. CASE CommitSubmit(r)
  <2>1. status[a] = "in_progress" /\ \A q \in Questions : graded[r][q] # None
    BY <1>4 DEF CommitSubmit, At, SafetyInv, CommitInv, GradingInv
  <2>2. TotalScore(graded[r]) \in Score
    <3>1. graded[r] \in [Questions -> Fact]
      BY <2>1 DEF TypeOK, FactMap
    <3> QED
      BY <3>1, TotalScoreType
  <2>3. Contract!Evaluate(a, TotalScore(graded[r]))
    BY <1>4, <2>1 DEF CommitSubmit, clientVars, Contract!Evaluate
  <2> QED
    BY <2>2, <2>3, <1>1 DEF Contract!Next
<1>5. CASE Refresh(r)
  <2>1. status[a] = "evaluated"
    BY <1>5 DEF Refresh, At, SafetyInv, CommitInv
  <2>2. ReturnResult(r, a, score[a]) /\ UNCHANGED dbVars
    BY <1>5 DEF Refresh
  <2> QED
    BY <2>1, <2>2, <1>1, ContractTell
<1>6. CASE \/ ProviderGrades(r) \/ ProviderInvalid(r) \/ ProviderError(r)
           \/ Flush(r) \/ FailAnalytics(r)
  BY <1>6 DEF ProviderGrades, ProviderInvalid, ProviderError, Flush, FailAnalytics,
              dbVars, clientVars
<1> QED
  BY <1>2, <1>3, <1>4, <1>5, <1>6 DEF SubmitSteps

LEMMA ContractNext == TypeOK /\ SafetyInv /\ [Next]_vars => [Contract!Next]_(Contract!vars)
<1> SUFFICES ASSUME TypeOK, SafetyInv, [Next]_vars
             PROVE  Contract!Next \/ UNCHANGED <<status, score, told>>
  BY ContractStutter
<1>1. ASSUME NEW r \in Requests, Arrive(r) \/ Serve(r) \/ Abandon(r)
      PROVE  Contract!Next \/ UNCHANGED <<status, score, told>>
  <2>1. CASE Arrive(r)
    BY <2>1 DEF Arrive, BeginStart, BeginSave, BeginSubmit, Begin, dbVars
  <2>2. CASE LoadAttempt(r) \/ FindActive(r) \/ SaveSteps(r) \/ Abandon(r)
    BY <2>2 DEF LoadAttempt, FindActive, SaveSteps, LoadForSave, LockResponse,
                RejectVersion, UpdateResponse, InsertResponse, Abandon, dbVars, clientVars
  <2>3. CASE InsertAttempt(r)
    <3>1. PICK a \in Absent : status' = [status EXCEPT ![a] = "in_progress"]
      BY <2>3 DEF InsertAttempt
    <3>2. a \in Attempts /\ Contract!Start(a)
      BY <2>3, <3>1 DEF InsertAttempt, Absent, Contract!Start
    <3> QED
      BY <3>2 DEF Contract!Next
  <2>4. CASE SubmitSteps(r)
    BY <2>4, ContractSubmit
  <2> QED
    BY <1>1, <2>1, <2>2, <2>3, <2>4 DEF Serve, StartSteps
<1>2. CASE UNCHANGED vars
  BY <1>2 DEF vars, dbVars, clientVars
<1> QED
  BY <1>1, <1>2 DEF Next

\* The concurrent, failing requests of attempt_service.py keep the promise of
\* the API: an attempt is opened, evaluated at most once, and its one verdict
\* is all that any client is told.
THEOREM ContractImplemented == Spec => ImplementsContract
<1> QED
  BY ContractInit, ContractNext, Invariance, PTL DEF Spec, ImplementsContract, Contract!Spec

LEMMA EvaluatedStep ==
  ASSUME TypeOK, SafetyInv, [Next]_vars, NEW a \in Attempts, status[a] = "evaluated"
  PROVE  status'[a] = status[a] /\ score'[a] = score[a] /\ facts'[a] = facts[a]
<1>1. status'[a] = status[a] /\ score'[a] = score[a]
  <2>1. [Contract!Next]_(Contract!vars)
    BY ContractNext
  <2>2. ASSUME NEW b \in Attempts, Contract!Start(b)
        PROVE  status'[a] = status[a] /\ score'[a] = score[a]
    BY <2>2 DEF Contract!Start, TypeOK
  <2>3. ASSUME NEW b \in Attempts, NEW s, Contract!Evaluate(b, s)
        PROVE  status'[a] = status[a] /\ score'[a] = score[a]
    BY <2>3 DEF Contract!Evaluate, TypeOK
  <2>4. ASSUME NEW b \in Attempts, Contract!Tell(b)
        PROVE  status'[a] = status[a] /\ score'[a] = score[a]
    BY <2>4 DEF Contract!Tell
  <2> QED
    BY <2>1, <2>2, <2>3, <2>4 DEF Contract!Next, Contract!vars
<1>2. facts'[a] = facts[a]
  <2>1. ASSUME NEW r \in Requests, CommitSubmit(r)
        PROVE  facts'[a] = facts[a]
    <3>1. req[r].attempt # a
      BY <2>1 DEF CommitSubmit, At, SafetyInv, CommitInv
    <3> QED
      BY <2>1, <3>1 DEF CommitSubmit, TypeOK
  <2>2. ASSUME NEW r \in Requests, Arrive(r) \/ Serve(r) \/ Abandon(r), ~CommitSubmit(r)
        PROVE  facts' = facts
    BY <2>2 DEF Arrive, BeginStart, BeginSave, BeginSubmit, Begin, Serve, LoadAttempt,
       StartSteps, FindActive, InsertAttempt, SaveSteps, LoadForSave, LockResponse,
       RejectVersion, UpdateResponse, InsertResponse, SubmitSteps, LoadForSubmit,
       ProviderGrades, ProviderInvalid, ProviderError, Recheck, Flush, FailAnalytics,
       Refresh, Abandon, dbVars
  <2>3. CASE UNCHANGED vars
    BY <2>3 DEF vars, dbVars
  <2> QED
    BY <2>1, <2>2, <2>3 DEF Next
<1> QED
  BY <1>1, <1>2

\* No step touches the status, the score or the evaluations of an attempt that
\* is evaluated.
THEOREM EvaluatedAtMostOnce == Spec => EvaluatedOnce
<1>1. TypeOK /\ SafetyInv /\ [Next]_vars =>
        [\A a \in Attempts : status[a] = "evaluated" =>
           /\ status'[a] = status[a]
           /\ score'[a] = score[a]
           /\ facts'[a] = facts[a]]_vars
  BY EvaluatedStep
<1> QED
  BY <1>1, Invariance, PTL DEF Spec, EvaluatedOnce

\* A save goes on to write only when it has read the attempt as in progress.
WritersSawOpen ==
  \A r \in Requests :
    pc[r] \in {"lock_response", "write_response"} => loaded[r].status = "in_progress"

LEMMA WritersNext == TypeOK /\ SafetyInv /\ WritersSawOpen /\ [Next]_vars => WritersSawOpen'
<1> SUFFICES ASSUME TypeOK, SafetyInv, WritersSawOpen, [Next]_vars,
                    NEW s \in Requests, pc'[s] \in {"lock_response", "write_response"}
             PROVE  loaded'[s].status = "in_progress"
  BY DEF WritersSawOpen
<1>1. ASSUME NEW r \in Requests, Arrive(r) \/ Serve(r) \/ Abandon(r)
      PROVE  loaded'[s].status = "in_progress"
  <2>1. CASE Arrive(r)
    BY <2>1 DEF Arrive, BeginStart, BeginSave, BeginSubmit, Begin, TypeOK, WritersSawOpen
  <2>2. CASE LoadAttempt(r)
    BY <2>2 DEF LoadAttempt, TypeOK, WritersSawOpen
  <2>3. CASE StartSteps(r) \/ Abandon(r)
    BY <2>3 DEF StartSteps, FindActive, InsertAttempt, Abandon, Finish, TypeOK,
                WritersSawOpen, sessionVars
  <2>4. CASE LoadForSave(r)
    <3>1. CASE loaded[r].status = "in_progress"
      BY <2>4, <3>1 DEF LoadForSave, TypeOK, WritersSawOpen
    <3>2. CASE loaded[r].status # "in_progress"
      BY <2>4, <3>2 DEF LoadForSave, Finish, TypeOK, WritersSawOpen
    <3> QED
      BY <3>1, <3>2
  <2>5. CASE LockResponse(r)
    BY <2>5 DEF LockResponse, At, TypeOK, WritersSawOpen
  <2>6. CASE RejectVersion(r) \/ UpdateResponse(r) \/ InsertResponse(r)
    BY <2>6 DEF RejectVersion, UpdateResponse, InsertResponse, Finish, TypeOK, WritersSawOpen
  <2>7. CASE SubmitSteps(r)
    <3>1. pc'[r] \notin {"lock_response", "write_response"}
      BY <2>7, SubmitRequest DEF SubmitSteps, LoadForSubmit, ProviderGrades, ProviderInvalid, ProviderError,
         Recheck, Flush, FailAnalytics, CommitSubmit, Refresh, ReturnResult, Finish, At, TypeOK
    <3>2. s # r => pc'[s] = pc[s] /\ loaded'[s] = loaded[s]
      BY <2>7 DEF SubmitSteps, LoadForSubmit, ProviderGrades, ProviderInvalid, ProviderError,
         Recheck, Flush, FailAnalytics, CommitSubmit, Refresh, ReturnResult, Finish,
         TypeOK, sessionVars
    <3> QED
      BY <3>1, <3>2 DEF WritersSawOpen
  <2> QED
    BY <1>1, <2>1, <2>2, <2>3, <2>4, <2>5, <2>6, <2>7 DEF Serve, SaveSteps
<1>2. CASE UNCHANGED vars
  BY <1>2 DEF vars, sessionVars, WritersSawOpen
<1> QED
  BY <1>1, <1>2 DEF Next

LEMMA LateStep ==
  ASSUME TypeOK, SafetyInv, WritersSawOpen, [Next]_vars,
         NEW a \in Attempts, response'[a] # response[a]
  PROVE  \E r \in Requests : /\ At(r, "write_response", "save")
                             /\ req[r].attempt = a
                             /\ loaded[r].status = "in_progress"
<1>1. ASSUME NEW r \in Requests, UpdateResponse(r) \/ InsertResponse(r)
      PROVE  /\ At(r, "write_response", "save") /\ req[r].attempt = a
             /\ loaded[r].status = "in_progress"
  <2>1. At(r, "write_response", "save")
    BY <1>1 DEF UpdateResponse, InsertResponse
  <2>2. req[r].attempt = a
    BY <1>1 DEF UpdateResponse, InsertResponse, TypeOK
  <2> QED
    BY <2>1, <2>2 DEF WritersSawOpen, At
<1>2. ASSUME NEW r \in Requests, Arrive(r) \/ Serve(r) \/ Abandon(r)
      PROVE  UpdateResponse(r) \/ InsertResponse(r)
  BY <1>2 DEF Arrive, BeginStart, BeginSave, BeginSubmit, Begin, Serve, LoadAttempt,
     StartSteps, FindActive, InsertAttempt, SaveSteps, LoadForSave, LockResponse,
     RejectVersion, SubmitSteps, LoadForSubmit, ProviderGrades, ProviderInvalid,
     ProviderError, Recheck, Flush, FailAnalytics, CommitSubmit, Refresh, Abandon, dbVars
<1>3. \E r \in Requests : Arrive(r) \/ Serve(r) \/ Abandon(r)
  BY DEF Next, vars, dbVars
<1> QED
  BY <1>1, <1>2, <1>3

\* After the evaluation of an attempt only a save that had already passed its
\* status test writes a response of it.
THEOREM OnlyOverlappingSavesAreLate == Spec => LateWritesOverlap
<1>1. Init => WritersSawOpen
  BY DEF Init, WritersSawOpen
<1>2. TypeOK /\ SafetyInv /\ WritersSawOpen /\ [Next]_vars =>
        [\A a \in Attempts : status[a] = "evaluated" /\ response'[a] # response[a] =>
           \E r \in Requests : /\ At(r, "write_response", "save")
                               /\ req[r].attempt = a
                               /\ loaded[r].status = "in_progress"]_vars
  BY LateStep
<1> QED
  BY <1>1, <1>2, WritersNext, Invariance, PTL DEF Spec, LateWritesOverlap
=============================================================================
