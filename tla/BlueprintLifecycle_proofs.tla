---------------------- MODULE BlueprintLifecycle_proofs ----------------------
(***************************************************************************)
(* Proofs about BlueprintLifecycle, for any contents, keys, bounds and     *)
(* finite set of requests: type correctness, the inductive invariant, and  *)
(* the safety properties that follow from it.                              *)
(***************************************************************************)
EXTENDS BlueprintLifecycle, FiniteSetTheorems, WellFoundedInduction, TLAPS

-----------------------------------------------------------------------------
(* Versions *)

\* A set of versions has a last one, unless it is empty.
LEMMA LastVersion ==
  ASSUME NEW V \in SUBSET Versions, V # {}
  PROVE  \E v \in V : \A w \in V : w <= v
<1> DEFINE Bounds == {n \in Nat : \A v \in V : v <= n}
<1>1. V \subseteq Nat /\ MaxVersion \in Bounds
  BY BoundsAssumption DEF Versions
<1>2. PICK m \in Bounds : \A n \in Bounds : ~(<<n, m>> \in OpToRel(<, Nat))
  BY <1>1, NatLessThanWellFounded, WFMin
<1>3. \A n \in Bounds : ~(n < m)
  BY <1>2 DEF OpToRel
<1>4. CASE m \in V
  BY <1>4
<1>5. CASE m \notin V
  <2>1. PICK v \in V : TRUE
    OBVIOUS
  <2>2. v \in Nat /\ 1 <= v /\ v <= m /\ v # m
    BY <1>5, <2>1 DEF Versions
  <2>3. \A w \in V : w <= m - 1
    BY <1>1, <1>5
  <2>4. m - 1 \in Bounds
    BY <2>2, <2>3
  <2> QED
    BY <1>3, <2>2, <2>4
<1> QED
  BY <1>4, <1>5

LEMMA MaxOfIsLast ==
  ASSUME NEW V \in SUBSET Versions
  PROVE  /\ MaxOf(V) \in Nat
         /\ \A v \in V : v <= MaxOf(V)
         /\ V # {} => MaxOf(V) \in V
<1>1. CASE V = {}
  BY <1>1 DEF MaxOf
<1>2. CASE V # {}
  <2>1. \E v \in V : \A w \in V : w <= v
    BY <1>2, LastVersion
  <2>2. MaxOf(V) \in V /\ \A w \in V : w <= MaxOf(V)
    BY <1>2, <2>1 DEF MaxOf
  <2>3. Versions \subseteq Nat
    BY BoundsAssumption DEF Versions
  <2> QED
    BY <2>2, <2>3, <1>2
<1> QED
  BY <1>1, <1>2

LEMMA FiniteSets ==
  /\ \A S : S \subseteq Versions => IsFiniteSet(S) /\ Cardinality(S) \in Nat
  /\ \A S : S \subseteq Requests => IsFiniteSet(S) /\ Cardinality(S) \in Nat
<1>1. IsFiniteSet(Versions)
  BY BoundsAssumption, FS_Interval DEF Versions
<1> QED
  BY <1>1, RequestsAssumption, FS_Subset, FS_CardinalityType

\* An extraction that reads the last version finds room for the next one.
LEMMA NextVersionFits ==
  ASSUME TypeOK, BoundInv, NEW r \in Requests, pc[r] = "max_version"
  PROVE  /\ MaxOf(Existing) + 1 \in Versions
         /\ \A w \in Versions : w < MaxOf(Existing) + 1 => w \in Existing
<1> DEFINE last == MaxOf(Existing)
<1>1. Existing \subseteq Versions /\ Inserting \subseteq Requests
  BY DEF Existing, Inserting
<1>2. /\ last \in Nat
      /\ \A v \in Existing : v <= last
      /\ Existing # {} => last \in Existing
  BY <1>1, MaxOfIsLast
<1>3. \A w \in Versions : w < last + 1 => w \in Existing
  <2> SUFFICES ASSUME NEW w \in Versions, w < last + 1
               PROVE  w \in Existing
    OBVIOUS
  <2>1. w \in Nat /\ 1 <= w /\ w <= last
    BY <1>2 DEF Versions
  <2>2. Existing # {}
    BY <2>1, BoundsAssumption DEF MaxOf
  <2> QED
    BY <1>2, <2>1, <2>2 DEF BoundInv
<1>4. Existing = 1..last
  <2>1. Existing \subseteq 1..last
    BY <1>1, <1>2 DEF Versions
  <2>2. ASSUME NEW w \in 1..last PROVE w \in Existing
    <3>1. Existing # {}
      BY <2>2 DEF MaxOf
    <3>2. last \in Versions
      BY <3>1, <1>1, <1>2
    <3>3. w \in Versions /\ w < last + 1
      BY <3>2, <1>2, BoundsAssumption DEF Versions
    <3> QED
      BY <1>3, <3>3
  <2> QED
    BY <2>1, <2>2
<1>5. Cardinality(Existing) = last
  BY <1>2, <1>4, FS_Interval
<1>6. Cardinality(Inserting) >= 1
  <2>1. {r} \subseteq Inserting
    BY DEF Inserting
  <2>2. Cardinality({r}) = 1 /\ Cardinality({r}) <= Cardinality(Inserting)
    BY <2>1, <1>1, FiniteSets, FS_Subset, FS_Singleton
  <2> QED
    BY <2>2, <1>1, FiniteSets
<1>7. last + 1 \in Versions
  BY <1>1, <1>2, <1>5, <1>6, FiniteSets, BoundsAssumption DEF BoundInv, Versions
<1> QED
  BY <1>3, <1>7

-----------------------------------------------------------------------------
(* Types *)

LEMMA TypeInit == Init => TypeOK
BY DEF Init, TypeOK, NotFound, NoExam, PC, Status

LEMMA RequestType ==
  ASSUME TypeOK, NEW r \in Requests
  PROVE  /\ req[r].op = "extract" => req[r] \in ExtractReq
         /\ req[r].op = "edit" => req[r] \in EditReq
         /\ req[r].op = "approve" => req[r] \in ApproveReq
         /\ req[r].op = "configure" => req[r] \in ConfigureReq
BY DEF TypeOK, Idle, ExtractReq, EditReq, ApproveReq, ConfigureReq, FilesReq

LEMMA BeginType ==
  ASSUME TypeOK, NEW r \in Requests, NEW first \in PC,
         NEW request \in ExtractReq \cup EditReq \cup ApproveReq \cup ConfigureReq \cup FilesReq,
         Begin(r, request, first)
  PROVE  TypeOK'
BY DEF Begin, TypeOK, blueprintVars, examVars, sessionVars, historyVars

LEMMA ArriveType ==
  ASSUME TypeOK, NEW r \in Requests, Arrive(r)
  PROVE  TypeOK'
<1>0. {"find_key", "load", "load_exam", "choose"} \subseteq PC
  BY DEF PC
<1>1. CASE BeginExtract(r)
  BY <1>0, <1>1, BeginType DEF BeginExtract, ExtractReq
<1>2. CASE BeginEdit(r)
  BY <1>0, <1>2, BeginType DEF BeginEdit, EditReq, Existing
<1>3. CASE BeginApprove(r)
  BY <1>0, <1>3, BeginType DEF BeginApprove, ApproveReq, Existing
<1>4. CASE BeginConfigure(r)
  <2>1. PICK c \in Forms, n \in {None, configVersion} :
          Begin(r, [op |-> "configure", config |-> c, expected |-> n], "load_exam")
    BY <1>4 DEF BeginConfigure
  <2>2. [op |-> "configure", config |-> c, expected |-> n] \in ConfigureReq
    BY DEF ConfigureReq, TypeOK
  <2> QED
    BY <1>0, <2>1, <2>2, BeginType
<1>5. CASE BeginFiles(r)
  BY <1>0, <1>5, BeginType DEF BeginFiles, FilesReq
<1> QED
  BY <1>1, <1>2, <1>3, <1>4, <1>5 DEF Arrive

\* What a request that ends, or that goes on, leaves of its session.
SessionType ==
  /\ pc \in [Requests -> PC]
  /\ req \in [Requests -> {Idle} \cup ExtractReq \cup EditReq \cup ApproveReq
                            \cup ConfigureReq \cup FilesReq]
  /\ found \in [Requests -> [status : Status, content : Contents \cup {None}]]
  /\ exam \in [Requests -> [config : Contents \cup {None}, version : Nat]]
  /\ rows \in [Requests -> SUBSET Versions]
  /\ met \in [Requests -> BOOLEAN]

LEMMA FinishType ==
  ASSUME TypeOK, NEW r \in Requests, Finish(r)
  PROVE  SessionType'
<1>1. NotFound \in [status : Status, content : Contents \cup {None}]
  BY DEF NotFound, Status
<1>2. NoExam \in [config : Contents \cup {None}, version : Nat] /\ "idle" \in PC
  BY DEF NoExam, PC
<1> QED
  BY <1>1, <1>2 DEF TypeOK, Finish, SessionType

LEMMA ExtractType ==
  ASSUME TypeOK, BoundInv, ExtractionInv, NEW r \in Requests, ExtractSteps(r)
  PROVE  TypeOK'
<1>0. req[r] \in ExtractReq /\ req[r].key \in Keys \cup {None}
  BY RequestType
  DEF ExtractSteps, FindKey, NoSources, ReadMaxVersion, InsertRecord, StoreExtraction, At,
      ExtractReq
<1>1. CASE FindKey(r)
  <2>1. SessionType'
    BY <1>1, FinishType DEF FindKey, TypeOK, sessionVars, PC, SessionType
  <2>2. answered' \in [Keys -> SUBSET Versions]
    BY <1>0, <1>1 DEF FindKey, TypeOK, historyVars, Existing
  <2> QED
    BY <1>1, <2>1, <2>2
    DEF FindKey, TypeOK, SessionType, blueprintVars, examVars, historyVars
<1>2. CASE NoSources(r)
  BY <1>2, FinishType DEF NoSources, TypeOK, SessionType, blueprintVars, examVars, historyVars
<1>3. CASE ReadMaxVersion(r)
  <2>1. MaxOf(Existing) + 1 \in Versions
    BY <1>3, NextVersionFits DEF ReadMaxVersion, At
  <2>2. [req[r] EXCEPT !.version = MaxOf(Existing) + 1] \in ExtractReq
    BY <1>0, <2>1 DEF ExtractReq
  <2>3. req' = [req EXCEPT ![r] = [req[r] EXCEPT !.version = MaxOf(Existing) + 1]]
    BY <1>3 DEF ReadMaxVersion
  <2> QED
    BY <1>3, <2>2, <2>3
    DEF ReadMaxVersion, TypeOK, PC, blueprintVars, examVars, sessionVars, historyVars
<1>4. CASE InsertRecord(r)
  <2>1. SessionType'
    BY <1>4, FinishType DEF InsertRecord, TypeOK, sessionVars, PC, SessionType
  <2>2. status' \in [Versions -> Status] /\ key' \in [Versions -> Keys \cup {None}]
    BY <1>0, <1>4 DEF InsertRecord, TypeOK, Status
  <2> QED
    BY <1>4, <2>1, <2>2 DEF InsertRecord, TypeOK, SessionType, examVars, historyVars
<1>5. CASE StoreExtraction(r)
  <2>1. SessionType'
    BY <1>5, FinishType DEF StoreExtraction
  <2>4. req[r].version \in Versions
    BY <1>5 DEF ExtractionInv, StoreExtraction, At
  <2>5. PICK c \in Contents \cup {None} :
          /\ content' = [content EXCEPT ![req[r].version] = c]
          /\ status' = [status EXCEPT ![req[r].version] = IF c \in Valid THEN "draft" ELSE "failed"]
    BY <1>5 DEF StoreExtraction
  <2>2. content' \in [Versions -> Contents \cup {None}] /\ status' \in [Versions -> Status]
    BY <2>5 DEF TypeOK, Status
  <2>3. answered' \in [Keys -> SUBSET Versions]
    BY <1>0, <1>5, <2>4 DEF StoreExtraction, TypeOK
  <2> QED
    BY <1>5, <2>1, <2>2, <2>3 DEF StoreExtraction, TypeOK, SessionType, examVars
<1> QED
  BY <1>1, <1>2, <1>3, <1>4, <1>5 DEF ExtractSteps

LEMMA LoadType ==
  ASSUME TypeOK, NEW r \in Requests,
         \/ LoadForEdit(r)
         \/ LoadForApprove(r)
         \/ LoadExam(r)
         \/ LoadForConfigure(r)
         \/ ChooseRows(r)
         \/ UpdateRows(r)
         \/ RequestDies(r)
  PROVE  TypeOK'
<1>0. {"write", "load_exam", "choose", "update"} \subseteq PC
  BY DEF PC
<1>1. CASE LoadForEdit(r)
  <2>1. req[r].version \in Versions
    BY <1>1, RequestType DEF LoadForEdit, At, EditReq
  <2>2. SessionType'
    <3>1. CASE Finish(r)
      BY <3>1, FinishType
    <3>2. CASE ~Finish(r)
      <4> DEFINE row == [status |-> status[req[r].version], content |-> content[req[r].version]]
      <4>1. row \in [status : Status, content : Contents \cup {None}]
        BY <2>1 DEF TypeOK
      <4>2. /\ found' = [found EXCEPT ![r] = row] /\ pc' = [pc EXCEPT ![r] = "write"]
            /\ UNCHANGED <<req, exam, rows, met>>
        BY <1>1, <3>2 DEF LoadForEdit
      <4> QED
        BY <1>0, <4>1, <4>2 DEF TypeOK, SessionType
    <3> QED
      BY <3>1, <3>2
  <2> QED
    BY <1>1, <2>2 DEF LoadForEdit, TypeOK, SessionType, blueprintVars, examVars, historyVars
<1>2. CASE LoadForApprove(r)
  <2>1. req[r].version \in Versions
    BY <1>2, RequestType DEF LoadForApprove, At, ApproveReq
  <2>2. SessionType'
    <3>1. CASE Finish(r)
      BY <3>1, FinishType
    <3>2. CASE ~Finish(r)
      <4> DEFINE row == [status |-> status[req[r].version], content |-> content[req[r].version]]
      <4>1. row \in [status : Status, content : Contents \cup {None}]
        BY <2>1 DEF TypeOK
      <4>2. /\ found' = [found EXCEPT ![r] = row] /\ pc' = [pc EXCEPT ![r] = "load_exam"]
            /\ UNCHANGED <<req, exam, rows, met>>
        BY <1>2, <3>2 DEF LoadForApprove
      <4> QED
        BY <1>0, <4>1, <4>2 DEF TypeOK, SessionType
    <3> QED
      BY <3>1, <3>2
  <2> QED
    BY <1>2, <2>2 DEF LoadForApprove, TypeOK, SessionType, blueprintVars, examVars, historyVars
<1>3. CASE LoadExam(r)
  BY <1>0, <1>3 DEF LoadExam, TypeOK, blueprintVars, examVars, historyVars
<1>4. CASE LoadForConfigure(r)
  <2>1. SessionType'
    <3>1. CASE Finish(r)
      BY <3>1, FinishType
    <3>2. CASE ~Finish(r)
      <4>1. /\ exam' = [exam EXCEPT ![r] = [config |-> config, version |-> configVersion]]
            /\ pc' = [pc EXCEPT ![r] = "write"]
            /\ UNCHANGED <<req, found, rows, met>>
        BY <1>4, <3>2 DEF LoadForConfigure
      <4> QED
        BY <1>0, <4>1 DEF TypeOK, SessionType
    <3> QED
      BY <3>1, <3>2
  <2> QED
    BY <1>4, <2>1 DEF LoadForConfigure, TypeOK, SessionType, blueprintVars, examVars, historyVars
<1>5. CASE ChooseRows(r)
  BY <1>0, <1>5 DEF ChooseRows, TypeOK, Approved, blueprintVars, examVars, historyVars
<1>6. CASE UpdateRows(r)
  BY <1>0, <1>6 DEF UpdateRows, TypeOK, Approved, blueprintVars, examVars, historyVars
<1>7. CASE RequestDies(r)
  BY <1>7, FinishType
  DEF RequestDies, TypeOK, SessionType, blueprintVars, examVars, historyVars
<1> QED
  BY <1>1, <1>2, <1>3, <1>4, <1>5, <1>6, <1>7

LEMMA CommitType ==
  ASSUME TypeOK, NEW r \in Requests,
         CommitEdit(r) \/ CommitApproval(r) \/ CommitConfiguration(r) \/ CommitFiles(r)
  PROVE  TypeOK'
<1>1. CASE CommitEdit(r)
  <2>1. req[r] \in EditReq
    BY <1>1, RequestType DEF CommitEdit, At
  <2>2. content' \in [Versions -> Contents \cup {None}] /\ status' \in [Versions -> Status]
    BY <1>1, <2>1 DEF CommitEdit, TypeOK, Written, EditReq, Status
  <2> QED
    BY <1>1, <2>2, FinishType DEF CommitEdit, TypeOK, SessionType, examVars, historyVars
<1>2. CASE CommitApproval(r)
  <2>1. req[r].version \in Versions
    BY <1>2, RequestType DEF CommitApproval, At, ApproveReq
  <2>2. status' \in [Versions -> Status] /\ contended' \subseteq Versions
    BY <1>2, <2>1 DEF CommitApproval, TypeOK, Status
  <2>3. config' \in Contents \cup {None} /\ configVersion' \in Nat
    BY <1>2 DEF CommitApproval, TypeOK, Written
  <2> QED
    BY <1>2, <2>2, <2>3, FinishType DEF CommitApproval, TypeOK, SessionType
<1>3. CASE CommitConfiguration(r)
  <2>1. req[r].config \in Contents
    BY <1>3, RequestType, FormsAssumption DEF CommitConfiguration, At, ConfigureReq
  <2>2. config' \in Contents \cup {None} /\ configVersion' \in Nat
    BY <1>3, <2>1 DEF CommitConfiguration, TypeOK, Written
  <2> QED
    BY <1>3, <2>2, FinishType
    DEF CommitConfiguration, TypeOK, SessionType, blueprintVars, historyVars
<1>4. CASE CommitFiles(r)
  <2>1. status' \in [Versions -> Status]
    BY <1>4 DEF CommitFiles, TypeOK, Status
  <2> QED
    BY <1>4, <2>1, FinishType DEF CommitFiles, TypeOK, SessionType, examVars, historyVars
<1> QED
  BY <1>1, <1>2, <1>3, <1>4

\* Every step of a request is one of the steps of the lemmas below.
LEMMA StepCases ==
  ASSUME NEW r \in Requests, Serve(r) \/ RequestDies(r)
  PROVE  \/ ExtractSteps(r)
         \/ LoadForEdit(r) \/ LoadForApprove(r) \/ LoadExam(r) \/ LoadForConfigure(r)
         \/ ChooseRows(r) \/ UpdateRows(r) \/ RequestDies(r)
         \/ CommitEdit(r) \/ CommitApproval(r) \/ CommitConfiguration(r) \/ CommitFiles(r)
BY DEF Serve, ReviewSteps, ConfigureSteps, StaleSteps

LEMMA TypeNext == TypeOK /\ BoundInv /\ ExtractionInv /\ [Next]_vars => TypeOK'
<1> SUFFICES ASSUME TypeOK, BoundInv, ExtractionInv, [Next]_vars PROVE TypeOK'
  OBVIOUS
<1>1. ASSUME NEW r \in Requests, Arrive(r) PROVE TypeOK'
  BY <1>1, ArriveType
<1>2. ASSUME NEW r \in Requests, Serve(r) \/ RequestDies(r) PROVE TypeOK'
  BY <1>2, StepCases, ExtractType, LoadType, CommitType
<1>3. CASE UNCHANGED vars
  BY <1>3 DEF vars, TypeOK, blueprintVars, examVars, sessionVars, historyVars
<1> QED
  BY <1>1, <1>2, <1>3 DEF Next

-----------------------------------------------------------------------------
(* What a step leaves alone *)

\* A step of one request leaves the sessions of the others alone, except that
\* an arriving review meets them.
LEMMA OtherSessions ==
  ASSUME TypeOK, NEW r \in Requests, Serve(r) \/ RequestDies(r), NEW s \in Requests, s # r
  PROVE  /\ pc'[s] = pc[s] /\ req'[s] = req[s] /\ exam'[s] = exam[s]
         /\ rows'[s] = rows[s] /\ met'[s] = met[s]
<1> USE DEF Finish, TypeOK, sessionVars
<1>1. CASE ExtractSteps(r)
  BY <1>1
  DEF ExtractSteps, FindKey, NoSources, ReadMaxVersion, InsertRecord, StoreExtraction
<1>2. CASE LoadForEdit(r) \/ LoadForApprove(r) \/ LoadExam(r) \/ LoadForConfigure(r)
  BY <1>2 DEF LoadForEdit, LoadForApprove, LoadExam, LoadForConfigure
<1>3. CASE ChooseRows(r) \/ UpdateRows(r) \/ RequestDies(r)
  BY <1>3 DEF ChooseRows, UpdateRows, RequestDies
<1>4. CASE CommitEdit(r) \/ CommitApproval(r) \/ CommitConfiguration(r) \/ CommitFiles(r)
  BY <1>4 DEF CommitEdit, CommitApproval, CommitConfiguration, CommitFiles
<1> QED
  BY <1>1, <1>2, <1>3, <1>4, StepCases

\* A request that has ended.
Ended(r) == pc'[r] = "idle" /\ req'[r] = Idle /\ rows'[r] = {}

LEMMA FinishEnds ==
  ASSUME TypeOK, NEW r \in Requests, Finish(r)
  PROVE  Ended(r)
BY DEF Finish, Ended, TypeOK

\* The step of a request ends it, or goes on with what it was asked for.
LEMMA OwnSession ==
  ASSUME TypeOK, NEW r \in Requests, Serve(r) \/ RequestDies(r)
  PROVE  \/ Ended(r)
         \/ /\ req'[r].op = req[r].op /\ met'[r] = met[r]
            /\ ~ReadMaxVersion(r) => req'[r] = req[r]
<1>0. \/ Finish(r)
      \/ /\ req'[r].op = req[r].op /\ met'[r] = met[r]
         /\ ~ReadMaxVersion(r) => req'[r] = req[r]
  <2>1. CASE ReadMaxVersion(r)
    <3>1. req[r] \in ExtractReq
      BY <2>1, RequestType DEF ReadMaxVersion, At
    <3> DEFINE last == MaxOf(Existing)
               new == [req[r] EXCEPT !.version = last + 1]
    <3>2. req' = [req EXCEPT ![r] = new] /\ met' = met
      BY <2>1 DEF ReadMaxVersion
    <3> HIDE DEF last
    <3>3. new.op = req[r].op
      BY <3>1 DEF ExtractReq
    <3> HIDE DEF new
    <3>4. req'[r] = new
      BY <3>2 DEF TypeOK
    <3> QED
      BY <2>1, <3>2, <3>3, <3>4
  <2>2. CASE FindKey(r) \/ NoSources(r) \/ InsertRecord(r) \/ StoreExtraction(r)
    BY <2>2 DEF FindKey, NoSources, InsertRecord, StoreExtraction
  <2>3. CASE LoadForEdit(r) \/ LoadForApprove(r) \/ LoadExam(r) \/ LoadForConfigure(r)
    BY <2>3 DEF LoadForEdit, LoadForApprove, LoadExam, LoadForConfigure
  <2>4. CASE ChooseRows(r) \/ UpdateRows(r) \/ RequestDies(r)
    BY <2>4 DEF ChooseRows, UpdateRows, RequestDies
  <2>5. CASE CommitEdit(r) \/ CommitApproval(r) \/ CommitConfiguration(r) \/ CommitFiles(r)
    BY <2>5 DEF CommitEdit, CommitApproval, CommitConfiguration, CommitFiles
  <2> QED
    BY <2>1, <2>2, <2>3, <2>4, <2>5, StepCases DEF ExtractSteps
<1> QED
  BY <1>0, FinishEnds

\* The tables as the reviews see them.
Tables == <<status, content, key, config, configVersion, contended>>

\* An arriving request changes no table and no session but its own.
LEMMA ArriveFrame ==
  ASSUME TypeOK, NEW r \in Requests, Arrive(r)
  PROVE  /\ UNCHANGED Tables /\ UNCHANGED <<found, exam, rows, answered>>
         /\ pc[r] = "idle"
         /\ pc'[r] \in {"find_key", "load", "load_exam", "choose"}
         /\ \A s \in Requests \ {r} :
              pc'[s] = pc[s] /\ req'[s] = req[s] /\ (met[s] => met'[s])
<1>1. PICK request, first : /\ first \in {"find_key", "load", "load_exam", "choose"}
                            /\ Begin(r, request, first)
  BY DEF Arrive, BeginExtract, BeginEdit, BeginApprove, BeginConfigure, BeginFiles
<1> QED
  BY <1>1
  DEF Begin, TypeOK, Tables, blueprintVars, examVars, sessionVars, historyVars

\* What an arriving request is.
LEMMA ArriveRequest ==
  ASSUME TypeOK, NEW r \in Requests, Arrive(r)
  PROVE  /\ pc'[r] = "find_key" => BeginExtract(r) /\ req'[r].op = "extract"
         /\ pc'[r] = "choose" => req'[r].op = "files"
         /\ req'[r].op = "approve" => pc'[r] = "load"
         /\ req'[r].op \in {"edit", "approve"} => req'[r].version \in Existing
<1> USE DEF Begin, TypeOK
<1>1. CASE BeginExtract(r)
  <2>1. req'[r].op = "extract" /\ pc'[r] = "find_key"
    BY <1>1 DEF BeginExtract
  <2> QED
    BY <1>1, <2>1
<1>2. CASE BeginEdit(r)
  BY <1>2 DEF BeginEdit
<1>3. CASE BeginApprove(r)
  BY <1>3 DEF BeginApprove
<1>4. CASE BeginConfigure(r)
  BY <1>4 DEF BeginConfigure
<1>5. CASE BeginFiles(r)
  BY <1>5 DEF BeginFiles
<1> QED
  BY <1>1, <1>2, <1>3, <1>4, <1>5 DEF Arrive

LEMMA MeetingNext == TypeOK /\ MeetingInv /\ [Next]_vars => MeetingInv'
<1> SUFFICES ASSUME TypeOK, MeetingInv, [Next]_vars PROVE MeetingInv'
  OBVIOUS
<1>1. ASSUME NEW r \in Requests, Arrive(r) PROVE MeetingInv'
  <2>1. PICK request, first : Begin(r, request, first)
    BY <1>1 DEF Arrive, BeginExtract, BeginEdit, BeginApprove, BeginConfigure, BeginFiles
  <2>2. /\ req'[r] = request
        /\ \A s \in Requests \ {r} : req'[s] = req[s] /\ (met[s] => met'[s])
    BY <1>1, <2>1, ArriveFrame DEF Begin, TypeOK
  <2>3. ASSUME NEW s \in Requests \ {r}, Reviewing(s), request.op \in {"edit", "approve", "configure"}
        PROVE  met'[s] /\ met'[r]
    BY <2>1, <2>3 DEF Begin
  <2> QED
    BY <2>2, <2>3 DEF MeetingInv, Reviewing
<1>2. ASSUME NEW r \in Requests, Serve(r) \/ RequestDies(r) PROVE MeetingInv'
  <2>1. \A s \in Requests \ {r} : req'[s] = req[s] /\ met'[s] = met[s]
    BY <1>2, OtherSessions
  <2>2. \/ req'[r].op = "none"
        \/ req'[r].op = req[r].op /\ met'[r] = met[r]
    BY <1>2, OwnSession DEF Ended, Idle
  <2> QED
    BY <2>1, <2>2 DEF MeetingInv, Reviewing
<1>3. CASE UNCHANGED vars
  BY <1>3 DEF vars, MeetingInv, Reviewing
<1> QED
  BY <1>1, <1>2, <1>3 DEF Next

-----------------------------------------------------------------------------
(* The tables *)

\* The INSERT of an extraction that no other has overtaken.
Recorded(r) == InsertRecord(r) /\ pc'[r] = "provider"

LEMMA StepTables ==
  ASSUME TypeOK, NEW r \in Requests, Serve(r) \/ RequestDies(r)
  PROVE  \/ UNCHANGED Tables
         \/ Recorded(r) \/ StoreExtraction(r) \/ CommitEdit(r) \/ CommitApproval(r)
         \/ CommitConfiguration(r) \/ CommitFiles(r)
<1> USE DEF Tables, blueprintVars, examVars, historyVars
<1>1. CASE FindKey(r) \/ NoSources(r) \/ ReadMaxVersion(r)
  BY <1>1 DEF FindKey, NoSources, ReadMaxVersion
<1>2. CASE InsertRecord(r)
  <2>1. pc'[r] = "provider" \/ UNCHANGED <<status, key>>
    BY <1>2 DEF InsertRecord, TypeOK
  <2> QED
    BY <1>2, <2>1 DEF InsertRecord, Recorded
<1>3. CASE LoadForEdit(r) \/ LoadForApprove(r) \/ LoadExam(r) \/ LoadForConfigure(r)
  BY <1>3 DEF LoadForEdit, LoadForApprove, LoadExam, LoadForConfigure
<1>4. CASE ChooseRows(r) \/ UpdateRows(r) \/ RequestDies(r)
  BY <1>4 DEF ChooseRows, UpdateRows, RequestDies
<1> QED
  BY <1>1, <1>2, <1>3, <1>4, StepCases DEF ExtractSteps

\* What the INSERT of an extraction does.
LEMMA RecordedStep ==
  ASSUME TypeOK, ExtractionInv, NEW r \in Requests, Recorded(r)
  PROVE  LET v == req[r].version IN
         /\ pc[r] = "insert" /\ req[r] \in ExtractReq /\ v \in Versions \ Existing
         /\ req[r].key # None => \A w \in Existing : key[w] # req[r].key
         /\ status' = [status EXCEPT ![v] = "extracting"]
         /\ key' = [key EXCEPT ![v] = req[r].key]
         /\ pc' = [pc EXCEPT ![r] = "provider"]
         /\ UNCHANGED <<content, config, configVersion, contended, answered, req, exam, rows, met>>
<1>1. pc[r] = "insert" /\ req[r] \in ExtractReq /\ req[r].version \in Versions
  BY RequestType DEF Recorded, InsertRecord, At, ExtractionInv
<1>2. ~Finish(r)
  BY DEF Recorded, Finish, TypeOK
<1> QED
  BY <1>1, <1>2 DEF Recorded, InsertRecord, examVars, historyVars, sessionVars

\* What the end of an extraction does to its version.
LEMMA StoredStep ==
  ASSUME TypeOK, ExtractionInv, NEW r \in Requests, StoreExtraction(r)
  PROVE  LET v == req[r].version IN
         /\ pc[r] = "provider" /\ v \in Versions /\ status[v] = "extracting"
         /\ req[r] \in ExtractReq
         /\ status'[v] \in {"draft", "failed"}
         /\ \A w \in Versions \ {v} : status'[w] = status[w] /\ content'[w] = content[w]
         /\ UNCHANGED <<key, config, configVersion, contended>>
<1>1. /\ pc[r] = "provider" /\ req[r].version \in Versions
      /\ status[req[r].version] = "extracting" /\ req[r] \in ExtractReq
  BY RequestType DEF StoreExtraction, At, ExtractionInv
<1>2. PICK c :
        /\ content' = [content EXCEPT ![req[r].version] = c]
        /\ status' = [status EXCEPT ![req[r].version] = IF c \in Valid THEN "draft" ELSE "failed"]
  BY DEF StoreExtraction
<1> QED
  BY <1>1, <1>2 DEF StoreExtraction, TypeOK, examVars

\* What an edit does to its version.
LEMMA EditStep ==
  ASSUME TypeOK, LockInv, ReviewInv, NEW r \in Requests, CommitEdit(r)
  PROVE  LET v == req[r].version IN
         /\ At(r, "write", "edit") /\ v \in Existing /\ status[v] # "extracting"
         /\ status'[v] \in {status[v], "draft", "failed"}
         /\ v \in Approved => v \in contended
         /\ \A s \in Requests \ {r} : ~Holds(s, v)
         /\ \A w \in Versions \ {v} : status'[w] = status[w] /\ content'[w] = content[w]
         /\ UNCHANGED <<key, config, configVersion, contended, answered>>
<1>1. /\ At(r, "write", "edit") /\ req[r].version \in Existing
      /\ status[req[r].version] # "extracting"
      /\ req[r].version \in Approved => req[r].version \in contended
  BY DEF CommitEdit, ReviewInv, Loaded, At
<1> QED
  BY <1>1 DEF CommitEdit, Free, Written, TypeOK, Existing, examVars, historyVars

\* What an approval does to the versions.
LEMMA ApprovalStep ==
  ASSUME TypeOK, LockInv, ReviewInv, NEW r \in Requests, CommitApproval(r)
  PROVE  LET v == req[r].version IN
         /\ At(r, "write", "approve") /\ v \in Existing /\ status[v] # "extracting"
         /\ rows[r] \subseteq Approved
         /\ status'[v] = "approved"
         /\ \A w \in rows[r] \ {v} : status'[w] = "stale"
         /\ \A w \in Versions \ (rows[r] \cup {v}) : status'[w] = status[w]
         /\ \A s \in Requests \ {r} : ~Holds(s, v)
         /\ contended' = IF met[r] THEN contended \cup {v} ELSE contended \ {v}
         /\ UNCHANGED <<content, key, answered>>
<1>1. /\ At(r, "write", "approve") /\ req[r].version \in Existing
      /\ status[req[r].version] # "extracting" /\ rows[r] \subseteq Approved
  BY DEF CommitApproval, ReviewInv, LockInv, Loaded, At
<1> QED
  BY <1>1 DEF CommitApproval, Free, TypeOK, Existing, Approved

LEMMA FilesStep ==
  ASSUME TypeOK, LockInv, NEW r \in Requests, CommitFiles(r)
  PROVE  /\ pc[r] = "write" /\ rows[r] \subseteq Approved
         /\ \A w \in rows[r] : status'[w] = "stale"
         /\ \A w \in Versions \ rows[r] : status'[w] = status[w]
         /\ UNCHANGED <<content, key, config, configVersion, contended, answered>>
<1>1. pc[r] = "write" /\ rows[r] \subseteq Approved
  BY DEF CommitFiles, At, LockInv
<1> QED
  BY <1>1 DEF CommitFiles, TypeOK, Approved, examVars, historyVars

\* Versions come into being by their INSERT, and stay.
LEMMA ExistingStep ==
  ASSUME TypeOK, LifecycleInv, NEW r \in Requests, Serve(r) \/ RequestDies(r)
  PROVE  \/ Existing' = Existing
         \/ Recorded(r) /\ Existing' = Existing \cup {req[r].version}
<1> USE DEF LifecycleInv
<1>1. CASE UNCHANGED Tables \/ CommitConfiguration(r)
  BY <1>1 DEF Tables, CommitConfiguration, blueprintVars, Existing
<1>2. CASE Recorded(r)
  BY <1>2, RecordedStep DEF TypeOK, Existing
<1>3. CASE StoreExtraction(r)
  BY <1>3, StoredStep DEF Existing
<1>4. CASE CommitEdit(r)
  BY <1>4, EditStep DEF Existing
<1>5. CASE CommitApproval(r)
  BY <1>5, ApprovalStep DEF Existing, Approved
<1>6. CASE CommitFiles(r)
  BY <1>6, FilesStep DEF Existing, Approved
<1> QED
  BY <1>1, <1>2, <1>3, <1>4, <1>5, <1>6, StepTables

\* Versions are approved by an approval only.
LEMMA ApprovedStep ==
  ASSUME TypeOK, LifecycleInv, NEW r \in Requests, Serve(r) \/ RequestDies(r)
  PROVE  \/ CommitApproval(r) /\ Approved' = (Approved \ rows[r]) \cup {req[r].version}
         \/ ~CommitApproval(r) /\ Approved' \subseteq Approved /\ contended' = contended
<1> USE DEF LifecycleInv
<1>1. CASE ~CommitApproval(r) /\ (UNCHANGED Tables \/ CommitConfiguration(r))
  BY <1>1 DEF Tables, CommitConfiguration, blueprintVars, historyVars, Approved
<1>2. CASE Recorded(r)
  BY <1>2, RecordedStep DEF TypeOK, Approved, CommitApproval, At
<1>3. CASE StoreExtraction(r)
  BY <1>3, StoredStep DEF Approved, CommitApproval, At
<1>4. CASE CommitEdit(r)
  BY <1>4, EditStep DEF Approved, CommitApproval, At
<1>5. CASE CommitApproval(r)
  BY <1>5, ApprovalStep DEF Approved, Existing
<1>6. CASE CommitFiles(r)
  BY <1>6, FilesStep DEF Approved, CommitApproval, CommitFiles, At
<1> QED
  BY <1>1, <1>2, <1>3, <1>4, <1>5, <1>6, StepTables

-----------------------------------------------------------------------------
(* Versions are numbered without gaps, below the bound *)

\* A request that is extracting was inserting or extracting before.
LEMMA ExtractionOrigin ==
  ASSUME TypeOK, NEW r \in Requests, Serve(r) \/ RequestDies(r)
  PROVE  /\ pc'[r] \in {"find_key", "max_version", "insert", "provider"} =>
              /\ pc[r] \in {"find_key", "max_version", "insert"}
              /\ req'[r].op = "extract"
         /\ pc'[r] = "insert" => ReadMaxVersion(r)
         /\ pc'[r] = "provider" => Recorded(r)
<1> USE DEF TypeOK, Finish
<1>1. CASE FindKey(r) \/ NoSources(r) \/ StoreExtraction(r)
  BY <1>1 DEF FindKey, NoSources, StoreExtraction, At
<1>2. CASE InsertRecord(r)
  BY <1>2 DEF InsertRecord, At, Recorded
<1>3. CASE ReadMaxVersion(r)
  <2>1. ~Ended(r) /\ req[r].op = "extract" /\ pc[r] = "max_version" /\ pc'[r] = "insert"
    BY <1>3 DEF ReadMaxVersion, At, Ended
  <2> QED
    BY <1>3, <2>1, OwnSession
<1>4. CASE LoadForEdit(r) \/ LoadForApprove(r) \/ LoadExam(r) \/ LoadForConfigure(r)
  BY <1>4 DEF LoadForEdit, LoadForApprove, LoadExam, LoadForConfigure
<1>5. CASE ChooseRows(r) \/ UpdateRows(r) \/ RequestDies(r)
  BY <1>5 DEF ChooseRows, UpdateRows, RequestDies
<1>6. CASE CommitEdit(r) \/ CommitApproval(r) \/ CommitConfiguration(r) \/ CommitFiles(r)
  BY <1>6 DEF CommitEdit, CommitApproval, CommitConfiguration, CommitFiles
<1> QED
  BY <1>1, <1>2, <1>3, <1>4, <1>5, <1>6, StepCases DEF ExtractSteps

\* A step that does not begin an extraction begins no insertion.
LEMMA InsertingStep ==
  ASSUME TypeOK, NEW r \in Requests, Serve(r) \/ RequestDies(r)
  PROVE  /\ Inserting' \subseteq Inserting
         /\ Recorded(r) => r \in Inserting /\ Inserting' \subseteq Inserting \ {r}
<1>1. \A s \in Requests \ {r} : pc'[s] = pc[s]
  BY OtherSessions
<1>2. Recorded(r) => pc[r] = "insert" /\ pc'[r] = "provider"
  BY DEF Recorded, InsertRecord, At
<1> QED
  BY <1>1, <1>2, ExtractionOrigin DEF Inserting

LEMMA BoundNext == TypeOK /\ LifecycleInv /\ [Next]_vars => BoundInv'
<1> SUFFICES ASSUME TypeOK, LifecycleInv, [Next]_vars PROVE BoundInv'
  OBVIOUS
<1>0. /\ Inserting \subseteq Requests /\ Inserting' \subseteq Requests
      /\ Existing \subseteq Versions /\ Existing' \subseteq Versions
  BY DEF Inserting, Existing
<1>1. ASSUME NEW r \in Requests, Arrive(r) PROVE BoundInv'
  <2>1. Existing' = Existing
    BY <1>1, ArriveFrame DEF Tables, Existing
  <2>2. CASE pc'[r] = "find_key"
    <3>1. Cardinality(Inserting) + Cardinality(Existing) < MaxVersion
      BY <1>1, <2>2, ArriveRequest DEF BeginExtract
    <3>2. r \notin Inserting /\ Inserting' = Inserting \cup {r}
      BY <1>1, <2>2, ArriveFrame DEF Inserting
    <3>3. Cardinality(Inserting') = Cardinality(Inserting) + 1
      BY <1>0, <3>2, FiniteSets, FS_AddElement
    <3>4. Cardinality(Inserting') + Cardinality(Existing') <= MaxVersion
      BY <1>0, <2>1, <3>1, <3>3, FiniteSets, BoundsAssumption
    <3> QED
      BY <2>1, <3>4 DEF BoundInv, LifecycleInv
  <2>3. CASE pc'[r] # "find_key"
    <3>1. Inserting' = Inserting
      BY <1>1, <2>3, ArriveFrame DEF Inserting
    <3> QED
      BY <2>1, <3>1 DEF BoundInv, LifecycleInv
  <2> QED
    BY <2>2, <2>3
<1>2. ASSUME NEW r \in Requests, Serve(r) \/ RequestDies(r) PROVE BoundInv'
  <2>0. Inserting' \subseteq Inserting
    BY <1>2, InsertingStep
  <2>1. Cardinality(Inserting') <= Cardinality(Inserting)
    BY <1>0, <2>0, FiniteSets, FS_Subset
  <2>2. CASE Existing' = Existing
    <3>1. Cardinality(Inserting') + Cardinality(Existing') <= MaxVersion
      BY <1>0, <2>1, <2>2, FiniteSets, BoundsAssumption DEF BoundInv, LifecycleInv
    <3> QED
      BY <2>2, <3>1 DEF BoundInv, LifecycleInv
  <2>3. CASE Recorded(r) /\ Existing' = Existing \cup {req[r].version}
    <3> DEFINE v == req[r].version
    <3>1. v \in Versions \ Existing /\ pc[r] = "insert"
      BY <2>3, RecordedStep DEF LifecycleInv
    <3>2. Cardinality(Existing') = Cardinality(Existing) + 1
      BY <1>0, <2>3, <3>1, FiniteSets, FS_AddElement
    <3>3. Cardinality(Inserting') <= Cardinality(Inserting) - 1
      <4>1. r \in Inserting /\ Inserting' \subseteq Inserting \ {r}
        BY <1>2, <2>3, InsertingStep
      <4>2. Cardinality(Inserting \ {r}) = Cardinality(Inserting) - 1
        BY <1>0, <4>1, FiniteSets, FS_RemoveElement
      <4>3. Cardinality(Inserting') <= Cardinality(Inserting \ {r})
        BY <1>0, <4>1, FiniteSets, FS_Subset
      <4> QED
        BY <4>2, <4>3
    <3>4. Cardinality(Inserting') + Cardinality(Existing') <= MaxVersion
      BY <1>0, <3>2, <3>3, FiniteSets, BoundsAssumption DEF BoundInv, LifecycleInv
    <3>5. \A w \in Versions : w < v => w \in Existing
      BY <3>1 DEF ExtractionInv, LifecycleInv
    <3>6. \A u \in Existing', w \in Versions : w < u => w \in Existing'
      BY <2>3, <3>5 DEF BoundInv, LifecycleInv
    <3> QED
      BY <3>4, <3>6 DEF BoundInv
  <2> QED
    BY <1>2, <2>2, <2>3, ExistingStep
<1>3. CASE UNCHANGED vars
  BY <1>3 DEF vars, BoundInv, LifecycleInv, Inserting, Existing, blueprintVars
<1> QED
  BY <1>1, <1>2, <1>3 DEF Next

-----------------------------------------------------------------------------
(* Extractions and their keys *)

\* A version keeps its key, and while one request extracts it no other request
\* changes its status.
LEMMA KeysStay ==
  ASSUME TypeOK, LifecycleInv, NEW r \in Requests, Serve(r) \/ RequestDies(r)
  PROVE  /\ \A v \in Existing : key'[v] = key[v]
         /\ \A s \in Requests \ {r} : pc[s] = "provider" =>
              status'[req[s].version] = "extracting"
<1> USE DEF LifecycleInv
<1>0. \A s \in Requests : pc[s] = "provider" =>
        /\ req[s].version \in Versions
        /\ status[req[s].version] = "extracting"
        /\ req[s].version \in Existing
  BY DEF ExtractionInv, Existing
<1>1. CASE UNCHANGED Tables \/ CommitConfiguration(r)
  BY <1>0, <1>1 DEF Tables, CommitConfiguration, blueprintVars
<1>2. CASE Recorded(r)
  BY <1>0, <1>2, RecordedStep DEF TypeOK, Existing
<1>3. CASE StoreExtraction(r)
  <2>1. \A s \in Requests \ {r} : pc[s] = "provider" => req[s].version # req[r].version
    BY <1>3, StoredStep DEF ExtractionInv
  <2> QED
    BY <1>0, <1>3, <2>1, StoredStep
<1>4. CASE CommitEdit(r)
  BY <1>0, <1>4, EditStep
<1>5. CASE CommitApproval(r)
  BY <1>0, <1>5, ApprovalStep DEF Approved
<1>6. CASE CommitFiles(r)
  BY <1>0, <1>6, FilesStep DEF Approved
<1> QED
  BY <1>1, <1>2, <1>3, <1>4, <1>5, <1>6, StepTables

LEMMA ExtractionNext == TypeOK /\ LifecycleInv /\ [Next]_vars => ExtractionInv'
<1> SUFFICES ASSUME TypeOK, LifecycleInv, [Next]_vars PROVE ExtractionInv'
  OBVIOUS
<1> USE DEF LifecycleInv
<1>1. ASSUME NEW r \in Requests, Arrive(r) PROVE ExtractionInv'
  <2>1. Existing' = Existing /\ UNCHANGED <<status, key>>
    BY <1>1, ArriveFrame DEF Tables, Existing
  <2>2. \A s \in Requests \ {r} : pc'[s] = pc[s] /\ req'[s] = req[s]
    BY <1>1, ArriveFrame
  <2>3. /\ pc'[r] \in {"find_key", "load", "load_exam", "choose"}
        /\ pc'[r] = "find_key" => req'[r].op = "extract"
    BY <1>1, ArriveFrame, ArriveRequest
  <2> QED
    BY <2>1, <2>2, <2>3 DEF ExtractionInv
<1>2. ASSUME NEW r \in Requests, Serve(r) \/ RequestDies(r) PROVE ExtractionInv'
  <2>1. \A s \in Requests \ {r} : pc'[s] = pc[s] /\ req'[s] = req[s]
    BY <1>2, OtherSessions
  <2>2. Existing \subseteq Existing'
    BY <1>2, ExistingStep
  <2>3. \A s \in Requests \ {r} : pc[s] = "provider" =>
          /\ status'[req[s].version] = "extracting"
          /\ key'[req[s].version] = key[req[s].version]
          /\ req[s].version \in Existing
    <3>1. \A s \in Requests : pc[s] = "provider" => req[s].version \in Existing
      BY DEF ExtractionInv, Existing
    <3> QED
      BY <1>2, <3>1, KeysStay
  <2>4. pc'[r] \in {"find_key", "max_version", "insert", "provider"} => req'[r].op = "extract"
    BY <1>2, ExtractionOrigin
  <2>5. pc'[r] = "insert" =>
          /\ req'[r].version \in Versions
          /\ \A w \in Versions : w < req'[r].version => w \in Existing
    <3>1. SUFFICES ASSUME ReadMaxVersion(r)
                   PROVE  /\ req'[r].version \in Versions
                          /\ \A w \in Versions : w < req'[r].version => w \in Existing
      BY <1>2, ExtractionOrigin
    <3> DEFINE next == MaxOf(Existing) + 1
    <3>2. next \in Versions /\ \A w \in Versions : w < next => w \in Existing
      BY <3>1, NextVersionFits DEF ReadMaxVersion, At
    <3>3. req' = [req EXCEPT ![r].version = next] /\ req[r] \in ExtractReq
      BY <3>1, RequestType DEF ReadMaxVersion, At
    <3> HIDE DEF next
    <3>4. req'[r].version = next
      BY <3>3 DEF TypeOK, ExtractReq
    <3> QED
      BY <3>2, <3>4
  <2>6. pc'[r] = "provider" =>
          /\ req'[r] = req[r] /\ req[r].version \in Versions \ Existing
          /\ status'[req[r].version] = "extracting"
          /\ key'[req[r].version] = req[r].key
    BY <1>2, ExtractionOrigin, RecordedStep DEF TypeOK
  <2> QED
    BY <2>1, <2>2, <2>3, <2>4, <2>5, <2>6 DEF ExtractionInv
<1>3. CASE UNCHANGED vars
  BY <1>3 DEF vars, ExtractionInv, Existing, blueprintVars
<1> QED
  BY <1>1, <1>2, <1>3 DEF Next

LEMMA KeyNext == TypeOK /\ LifecycleInv /\ [Next]_vars => KeyInv'
<1> SUFFICES ASSUME TypeOK, LifecycleInv, [Next]_vars PROVE KeyInv'
  OBVIOUS
<1> USE DEF LifecycleInv
<1>1. ASSUME NEW r \in Requests, Arrive(r) PROVE KeyInv'
  BY <1>1, ArriveFrame DEF Tables, Existing, KeyInv
<1>2. ASSUME NEW r \in Requests, Serve(r) \/ RequestDies(r) PROVE KeyInv'
  <2>1. \A v \in Existing : v \in Existing' /\ key'[v] = key[v]
    BY <1>2, ExistingStep, KeysStay
  <2>2. \A v, w \in Existing' : key'[v] = key'[w] /\ key'[v] # None => v = w
    <3>1. CASE Existing' = Existing
      BY <2>1, <3>1 DEF KeyInv
    <3>2. CASE Recorded(r) /\ Existing' = Existing \cup {req[r].version}
      <4>1. /\ key'[req[r].version] = req[r].key
            /\ req[r].key # None => \A w \in Existing : key[w] # req[r].key
        BY <3>2, RecordedStep DEF TypeOK
      <4> QED
        BY <2>1, <3>2, <4>1 DEF KeyInv
    <3> QED
      BY <1>2, <3>1, <3>2, ExistingStep
  <2>3. \A k \in Keys : \A v \in answered'[k] : v \in Existing /\ key[v] = k
    <3>1. CASE FindKey(r)
      <4>1. req[r].key \in Keys \cup {None}
        BY <3>1, RequestType DEF FindKey, At, ExtractReq
      <4> QED
        BY <3>1, <4>1 DEF FindKey, KeyInv, TypeOK, historyVars
    <3>2. CASE StoreExtraction(r)
      <4>1. /\ req[r].key \in Keys \cup {None} /\ req[r].version \in Existing
            /\ key[req[r].version] = req[r].key
        BY <3>2, RequestType DEF StoreExtraction, At, ExtractReq, ExtractionInv, Existing
      <4> QED
        BY <3>2, <4>1 DEF StoreExtraction, KeyInv, TypeOK
    <3>3. CASE answered' = answered
      BY <3>3 DEF KeyInv
    <3>4. FindKey(r) \/ StoreExtraction(r) \/ answered' = answered
      <4> USE DEF historyVars
      <4>1. CASE ExtractSteps(r)
        BY <4>1 DEF ExtractSteps, NoSources, ReadMaxVersion, InsertRecord
      <4>2. CASE LoadForEdit(r) \/ LoadForApprove(r) \/ LoadExam(r) \/ LoadForConfigure(r)
        BY <4>2 DEF LoadForEdit, LoadForApprove, LoadExam, LoadForConfigure
      <4>3. CASE ChooseRows(r) \/ UpdateRows(r) \/ RequestDies(r)
        BY <4>3 DEF ChooseRows, UpdateRows, RequestDies
      <4>4. CASE CommitEdit(r) \/ CommitApproval(r) \/ CommitConfiguration(r) \/ CommitFiles(r)
        BY <4>4 DEF CommitEdit, CommitApproval, CommitConfiguration, CommitFiles
      <4> QED
        BY <1>2, <4>1, <4>2, <4>3, <4>4, StepCases
    <3> QED
      BY <3>1, <3>2, <3>3, <3>4
  <2> QED
    BY <2>1, <2>2, <2>3 DEF KeyInv
<1>3. CASE UNCHANGED vars
  BY <1>3 DEF vars, KeyInv, Existing, blueprintVars, historyVars
<1> QED
  BY <1>1, <1>2, <1>3 DEF Next

-----------------------------------------------------------------------------
(* The bulk UPDATEs and their locks *)

\* The rows that one request has updated stay approved while others commit.
LEMMA LockedStayApproved ==
  ASSUME TypeOK, LifecycleInv, NEW r \in Requests, Serve(r) \/ RequestDies(r),
         NEW s \in Requests \ {r}, pc[s] = "write"
  PROVE  rows[s] \subseteq Approved'
<1> USE DEF LifecycleInv
<1>0. rows[s] \subseteq Approved
  BY DEF LockInv
<1>1. CASE UNCHANGED Tables \/ CommitConfiguration(r)
  BY <1>0, <1>1 DEF Tables, CommitConfiguration, blueprintVars, Approved
<1>2. CASE Recorded(r)
  BY <1>0, <1>2, RecordedStep DEF TypeOK, Approved, Existing
<1>3. CASE StoreExtraction(r)
  BY <1>0, <1>3, StoredStep DEF Approved
<1>4. CASE CommitEdit(r)
  <2>1. req[r].version \notin rows[s]
    BY <1>4, EditStep DEF Holds
  <2> QED
    BY <1>0, <1>4, <2>1, EditStep DEF Approved
<1>5. CASE CommitApproval(r)
  <2>1. rows[r] \cap rows[s] = {}
    BY <1>5, ApprovalStep DEF LockInv, At
  <2> QED
    BY <1>0, <1>5, <2>1, ApprovalStep DEF Approved
<1>6. CASE CommitFiles(r)
  <2>1. rows[r] \cap rows[s] = {}
    BY <1>6, FilesStep DEF LockInv
  <2> QED
    BY <1>0, <1>6, <2>1, FilesStep DEF Approved
<1> QED
  BY <1>1, <1>2, <1>3, <1>4, <1>5, <1>6, StepTables

\* What a step does to the rows of its own request.
LEMMA OwnRows ==
  ASSUME TypeOK, LockInv, NEW r \in Requests, Serve(r) \/ RequestDies(r)
  PROVE  /\ pc'[r] = "choose" => LoadExam(r) /\ req'[r].op = "approve"
         /\ pc'[r] = "update" => ChooseRows(r) /\ req'[r].op \in {"approve", "files"}
         /\ UpdateRows(r) \/ pc'[r] = "update" \/ rows'[r] = {}
<1> USE DEF TypeOK, Finish
<1>1. CASE ExtractSteps(r)
  BY <1>1
  DEF ExtractSteps, FindKey, NoSources, ReadMaxVersion, InsertRecord, StoreExtraction, At,
      LockInv, sessionVars
<1>2. CASE LoadForEdit(r) \/ LoadForApprove(r) \/ LoadForConfigure(r)
  BY <1>2 DEF LoadForEdit, LoadForApprove, LoadForConfigure, LockInv, At
<1>3. CASE LoadExam(r)
  BY <1>3 DEF LoadExam, At, LockInv
<1>4. CASE ChooseRows(r)
  BY <1>4 DEF ChooseRows, LockInv
<1>5. CASE UpdateRows(r)
  BY <1>5 DEF UpdateRows
<1>6. CASE CommitEdit(r) \/ CommitApproval(r) \/ CommitConfiguration(r) \/ CommitFiles(r)
           \/ RequestDies(r)
  BY <1>6 DEF CommitEdit, CommitApproval, CommitConfiguration, CommitFiles, RequestDies
<1> QED
  BY <1>1, <1>2, <1>3, <1>4, <1>5, <1>6, StepCases

LEMMA LockNext == TypeOK /\ LifecycleInv /\ [Next]_vars => LockInv'
<1> SUFFICES ASSUME TypeOK, LifecycleInv, [Next]_vars PROVE LockInv'
  OBVIOUS
<1> USE DEF LifecycleInv
<1>1. ASSUME NEW r \in Requests, Arrive(r) PROVE LockInv'
  <2>1. Approved' = Approved /\ rows' = rows
    BY <1>1, ArriveFrame DEF Tables, Approved
  <2>2. /\ \A s \in Requests \ {r} : pc'[s] = pc[s] /\ req'[s] = req[s]
        /\ pc[r] = "idle"
        /\ pc'[r] \in {"find_key", "load", "load_exam", "choose"}
        /\ pc'[r] = "choose" => req'[r].op = "files"
    BY <1>1, ArriveFrame, ArriveRequest
  <2> QED
    BY <2>1, <2>2 DEF LockInv
<1>2. ASSUME NEW r \in Requests, Serve(r) \/ RequestDies(r) PROVE LockInv'
  <2>1. \A s \in Requests \ {r} : pc'[s] = pc[s] /\ req'[s] = req[s] /\ rows'[s] = rows[s]
    BY <1>2, OtherSessions
  <2>2. \A s \in Requests \ {r} : pc[s] = "write" => rows[s] \subseteq Approved'
    BY <1>2, LockedStayApproved
  <2>3. CASE UpdateRows(r)
    <3>1. /\ rows'[r] = rows[r] \cap Approved /\ pc'[r] = "write" /\ Approved' = Approved
          /\ \A v \in rows[r] : Free(r, v)
      BY <2>3 DEF UpdateRows, TypeOK, Approved, blueprintVars
    <3>2. \A s \in Requests \ {r} : pc[s] = "write" => rows'[r] \cap rows[s] = {}
      BY <3>1 DEF Free, Holds
    <3> QED
      BY <2>1, <2>2, <3>1, <3>2 DEF LockInv
  <2>4. CASE ~UpdateRows(r)
    <3>1. /\ pc'[r] \in {"choose", "update"} => req'[r].op \in {"approve", "files"}
          /\ pc'[r] # "update" => rows'[r] = {}
      BY <1>2, <2>4, OwnRows
    <3> QED
      BY <2>1, <2>2, <3>1 DEF LockInv
  <2> QED
    BY <2>3, <2>4
<1>3. CASE UNCHANGED vars
  BY <1>3 DEF vars, LockInv, Approved, blueprintVars, sessionVars
<1> QED
  BY <1>1, <1>2, <1>3 DEF Next

-----------------------------------------------------------------------------
(* Reviews *)

\* While one review is in flight, another's approval is contended.
LEMMA MetApproval ==
  ASSUME TypeOK, LifecycleInv, NEW r \in Requests, CommitApproval(r),
         NEW s \in Requests \ {r}, Reviewing(s)
  PROVE  /\ met[r] /\ met[s]
         /\ contended' = contended \cup {req[r].version}
         /\ Approved' \subseteq Approved \cup contended'
<1>1. met[r] /\ met[s]
  BY DEF LifecycleInv, MeetingInv, Reviewing, CommitApproval, At
<1>2. contended' = contended \cup {req[r].version}
  BY <1>1, ApprovalStep DEF LifecycleInv
<1>3. Approved' \subseteq Approved \cup {req[r].version}
  BY ApprovalStep DEF LifecycleInv, Approved
<1> QED
  BY <1>1, <1>2, <1>3

\* What a version that exists may become without its reviewers.
LEMMA VersionStep ==
  ASSUME TypeOK, LifecycleInv, NEW r \in Requests, Serve(r) \/ RequestDies(r),
         NEW v \in Existing
  PROVE  /\ status'[v] = "extracting" => status[v] = "extracting"
         /\ status[v] = "draft" /\ ~Reviewing(r) =>
              status'[v] = "draft" /\ content'[v] = content[v]
         /\ v \in Approved \ contended => content'[v] = content[v]
<1> USE DEF LifecycleInv
<1>1. CASE UNCHANGED Tables \/ CommitConfiguration(r)
  BY <1>1 DEF Tables, CommitConfiguration, blueprintVars
<1>2. CASE Recorded(r)
  <2>1. v # req[r].version
    BY <1>2, RecordedStep
  <2> QED
    BY <1>2, <2>1, RecordedStep DEF TypeOK, Existing
<1>3. CASE StoreExtraction(r)
  BY <1>3, StoredStep DEF Approved, Existing
<1>4. CASE CommitEdit(r)
  <2>1. Reviewing(r)
    BY <1>4, EditStep DEF At, Reviewing
  <2> QED
    BY <1>4, <2>1, EditStep DEF Approved, Existing
<1>5. CASE CommitApproval(r)
  <2>1. Reviewing(r)
    BY <1>5, ApprovalStep DEF At, Reviewing
  <2> QED
    BY <1>5, <2>1, ApprovalStep DEF Existing
<1>6. CASE CommitFiles(r)
  BY <1>6, FilesStep DEF Approved, Existing
<1> QED
  BY <1>1, <1>2, <1>3, <1>4, <1>5, <1>6, StepTables

\* The exam is written by reviews and configurations only.
LEMMA ExamStep ==
  ASSUME TypeOK, LifecycleInv, NEW r \in Requests, Serve(r) \/ RequestDies(r), ~Reviewing(r)
  PROVE  UNCHANGED <<config, configVersion>>
<1> USE DEF LifecycleInv
<1>1. CASE CommitApproval(r) \/ CommitConfiguration(r)
  BY <1>1 DEF CommitApproval, CommitConfiguration, At, Reviewing
<1> QED
  BY <1>1, StepTables, RecordedStep, StoredStep, EditStep, FilesStep DEF Tables

\* The reviews of the other requests, across a step of r.
LEMMA OtherReviews ==
  ASSUME TypeOK, LifecycleInv, NEW r \in Requests, Serve(r) \/ RequestDies(r),
         NEW s \in Requests \ {r}
  PROVE  /\ req[s].op \in {"edit", "approve"} => req[s].version \in Existing'
         /\ Loaded(s) =>
              /\ status'[req[s].version] # "extracting"
              /\ req[s].version \in Approved' => req[s].version \in contended'
         /\ Loaded(s) /\ req[s].op = "approve" /\ ~met[s] =>
              /\ status'[req[s].version] = "draft"
              /\ content'[req[s].version] \in Resolved \cap Valid
         /\ req[s].op = "approve" /\ pc[s] \in {"update", "write"} =>
              /\ Approved' \ (rows[s] \cup {req[s].version}) \subseteq contended'
              /\ ~met[s] => Approved' \subseteq rows[s]
         /\ HasExam(s) /\ ~met[s] =>
              exam[s] = [config |-> config', version |-> configVersion']
<1> USE DEF LifecycleInv
<1>0. Loaded(s) => req[s].op \in {"edit", "approve"}
  BY DEF Loaded, At
<1>1. req[s].op \in {"edit", "approve"} =>
        req[s].version \in Existing /\ req[s].version \in Existing'
  <2>1. Existing \subseteq Existing'
    BY ExistingStep
  <2> QED
    BY <2>1 DEF ReviewInv
<1>2. Loaded(s) =>
        /\ status'[req[s].version] # "extracting"
        /\ req[s].version \in Approved' => req[s].version \in contended'
  <2> SUFFICES ASSUME Loaded(s)
               PROVE  /\ status'[req[s].version] # "extracting"
                      /\ req[s].version \in Approved' => req[s].version \in contended'
    OBVIOUS
  <2>1. status'[req[s].version] # "extracting"
    BY <1>0, <1>1, VersionStep DEF ReviewInv
  <2>2. req[s].version \in Approved => req[s].version \in contended
    BY DEF ReviewInv
  <2>3. CASE CommitApproval(r)
    BY <1>0, <2>1, <2>2, <2>3, MetApproval DEF Reviewing
  <2>4. CASE ~CommitApproval(r)
    BY <2>1, <2>2, <2>4, ApprovedStep
  <2> QED
    BY <2>3, <2>4
<1>3. Reviewing(s) /\ ~met[s] => ~Reviewing(r)
  BY DEF MeetingInv
<1>4. Loaded(s) /\ req[s].op = "approve" /\ ~met[s] =>
        /\ status'[req[s].version] = "draft"
        /\ content'[req[s].version] \in Resolved \cap Valid
  BY <1>1, <1>3, VersionStep DEF ReviewInv, Reviewing
<1>5. req[s].op = "approve" /\ pc[s] \in {"update", "write"} =>
        /\ Approved' \ (rows[s] \cup {req[s].version}) \subseteq contended'
        /\ ~met[s] => Approved' \subseteq rows[s]
  <2> SUFFICES ASSUME req[s].op = "approve" /\ pc[s] \in {"update", "write"}
               PROVE  /\ Approved' \ (rows[s] \cup {req[s].version}) \subseteq contended'
                      /\ ~met[s] => Approved' \subseteq rows[s]
    OBVIOUS
  <2>1. /\ Approved \ (rows[s] \cup {req[s].version}) \subseteq contended
        /\ ~met[s] => Approved \subseteq rows[s]
    BY DEF ReviewInv
  <2>2. CASE CommitApproval(r)
    BY <2>1, <2>2, MetApproval DEF Reviewing
  <2>3. CASE ~CommitApproval(r)
    BY <2>1, <2>3, ApprovedStep
  <2> QED
    BY <2>2, <2>3
<1>6. HasExam(s) /\ ~met[s] => exam[s] = [config |-> config', version |-> configVersion']
  <2>1. HasExam(s) => Reviewing(s)
    BY DEF HasExam, At, Reviewing
  <2> QED
    BY <1>3, <2>1, ExamStep DEF ReviewInv
<1> QED
  BY <1>1, <1>2, <1>4, <1>5, <1>6

\* The review of the request that takes the step.
LEMMA OwnReview ==
  ASSUME TypeOK, LifecycleInv, NEW r \in Requests, Serve(r) \/ RequestDies(r)
  PROVE  /\ req'[r].op \in {"edit", "approve"} => req'[r].version \in Existing'
         /\ Loaded(r)' =>
              /\ status'[req'[r].version] # "extracting"
              /\ req'[r].version \in Approved' => req'[r].version \in contended'
         /\ Loaded(r)' /\ req'[r].op = "approve" /\ ~met'[r] =>
              /\ status'[req'[r].version] = "draft"
              /\ content'[req'[r].version] \in Resolved \cap Valid
         /\ req'[r].op = "approve" /\ pc'[r] \in {"update", "write"} =>
              /\ Approved' \ (rows'[r] \cup {req'[r].version}) \subseteq contended'
              /\ ~met'[r] => Approved' \subseteq rows'[r]
         /\ HasExam(r)' /\ ~met'[r] =>
              exam'[r] = [config |-> config', version |-> configVersion']
<1> USE DEF LifecycleInv
<1>1. CASE req'[r].op \notin {"edit", "approve", "configure"}
  BY <1>1 DEF Loaded, HasExam, At
<1>2. CASE req'[r].op \in {"edit", "approve", "configure"}
  <2>1. ~Ended(r) /\ ~ReadMaxVersion(r) /\ req'[r] = req[r] /\ met'[r] = met[r]
    <3>1. ~Ended(r)
      BY <1>2 DEF Ended, Idle
    <3>2. ~ReadMaxVersion(r)
      BY <1>2, <3>1, OwnSession DEF ReadMaxVersion, At
    <3> QED
      BY <3>1, <3>2, OwnSession
  <2>2. ~Finish(r)
    BY <2>1, FinishEnds
  <2>3. req[r].op \in {"edit", "approve"} => req[r].version \in Existing
    BY DEF ReviewInv
  <2>4. CASE LoadForEdit(r)
    <3>1. /\ status[req[r].version] \in Editable /\ pc'[r] = "write"
          /\ At(r, "load", "edit") /\ UNCHANGED Tables
      BY <2>2, <2>4
      DEF LoadForEdit, TypeOK, Tables, blueprintVars, examVars, historyVars
    <3> QED
      BY <2>1, <2>3, <3>1
      DEF Editable, Tables, Existing, Approved, Loaded, HasExam, At
  <2>5. CASE LoadForApprove(r)
    <3>1. /\ status[req[r].version] = "draft" /\ content[req[r].version] \in Resolved \cap Valid
          /\ pc'[r] = "load_exam" /\ At(r, "load", "approve") /\ UNCHANGED Tables
      BY <2>2, <2>5
      DEF LoadForApprove, TypeOK, Tables, blueprintVars, examVars, historyVars
    <3> QED
      BY <2>1, <2>3, <3>1
      DEF Tables, Existing, Approved, Loaded, HasExam, At
  <2>6. CASE LoadExam(r)
    <3>1. /\ pc'[r] = "choose" /\ At(r, "load_exam", "approve") /\ UNCHANGED Tables
          /\ exam'[r] = [config |-> config, version |-> configVersion]
      BY <2>6 DEF LoadExam, TypeOK, Tables, blueprintVars, examVars, historyVars
    <3>2. Loaded(r)
      BY <3>1 DEF Loaded, At
    <3> QED
      BY <2>1, <2>3, <3>1, <3>2
      DEF ReviewInv, Tables, Existing, Approved, Loaded, HasExam, At
  <2>7. CASE ChooseRows(r)
    <3>1. /\ pc[r] = "choose" /\ pc'[r] = "update" /\ UNCHANGED Tables /\ exam' = exam
          /\ req[r].op = "approve"
          /\ rows'[r] = Approved \ {req[r].version}
      <4>1. req[r].op = "approve"
        BY <1>2, <2>1, <2>7 DEF ChooseRows, LockInv
      <4> QED
        BY <2>7, <4>1 DEF ChooseRows, TypeOK, Tables, blueprintVars, examVars, historyVars
    <3>2. Loaded(r) /\ HasExam(r)
      BY <3>1 DEF Loaded, HasExam
    <3>3. ~met[r] => req[r].version \notin Approved
      BY <3>1, <3>2 DEF ReviewInv, Approved
    <3> QED
      BY <2>1, <2>3, <3>1, <3>2, <3>3
      DEF ReviewInv, Tables, Existing, Approved, Loaded, HasExam, At
  <2>8. CASE UpdateRows(r)
    <3>1. /\ pc[r] = "update" /\ pc'[r] = "write" /\ UNCHANGED Tables /\ exam' = exam
          /\ req[r].op = "approve"
          /\ rows'[r] = rows[r] \cap Approved
      <4>1. req[r].op = "approve"
        BY <1>2, <2>1, <2>8 DEF UpdateRows, LockInv
      <4> QED
        BY <2>8, <4>1 DEF UpdateRows, TypeOK, Tables, blueprintVars, examVars, historyVars
    <3>2. Loaded(r) /\ HasExam(r)
      BY <3>1 DEF Loaded, HasExam
    <3> QED
      BY <2>1, <2>3, <3>1, <3>2
      DEF ReviewInv, Tables, Existing, Approved, Loaded, HasExam, At
  <2>9. CASE LoadForConfigure(r)
    <3>1. /\ pc'[r] = "write" /\ At(r, "load_exam", "configure") /\ UNCHANGED Tables
          /\ exam'[r] = [config |-> config, version |-> configVersion]
      BY <2>2, <2>9
      DEF LoadForConfigure, TypeOK, Tables, blueprintVars, examVars, historyVars
    <3> QED
      BY <2>1, <3>1 DEF Tables, Loaded, HasExam, At
  <2>10. CASE ExtractSteps(r)
    BY <1>2, <2>1, <2>10
    DEF ExtractSteps, FindKey, NoSources, ReadMaxVersion, InsertRecord, StoreExtraction, At
  <2> QED
    BY <2>2, <2>4, <2>5, <2>6, <2>7, <2>8, <2>9, <2>10, StepCases
    DEF CommitEdit, CommitApproval, CommitConfiguration, CommitFiles, RequestDies
<1> QED
  BY <1>1, <1>2

LEMMA ReviewNext == TypeOK /\ LifecycleInv /\ [Next]_vars => ReviewInv'
<1> SUFFICES ASSUME TypeOK, LifecycleInv, [Next]_vars PROVE ReviewInv'
  OBVIOUS
<1>1. ASSUME NEW r \in Requests, Arrive(r) PROVE ReviewInv'
  <2>1. /\ UNCHANGED Tables /\ UNCHANGED <<exam, rows>>
        /\ pc[r] = "idle" /\ pc'[r] \in {"find_key", "load", "load_exam", "choose"}
        /\ pc'[r] = "choose" => req'[r].op = "files"
        /\ req'[r].op = "approve" => pc'[r] = "load"
        /\ req'[r].op \in {"edit", "approve"} => req'[r].version \in Existing
    BY <1>1, ArriveFrame, ArriveRequest
  <2>2. \A s \in Requests \ {r} : pc'[s] = pc[s] /\ req'[s] = req[s] /\ (met[s] => met'[s])
    BY <1>1, ArriveFrame
  <2>3. Existing' = Existing /\ Approved' = Approved
    BY <2>1 DEF Tables, Existing, Approved
  <2>4. ~Loaded(r)' /\ ~HasExam(r)'
    BY <2>1 DEF Loaded, HasExam, At
  <2>5. \A s \in Requests \ {r} : Loaded(s)' = Loaded(s) /\ HasExam(s)' = HasExam(s)
    BY <2>2 DEF Loaded, HasExam, At
  <2> QED
    BY <2>1, <2>2, <2>3, <2>4, <2>5 DEF ReviewInv, LifecycleInv, Tables
<1>2. ASSUME NEW r \in Requests, Serve(r) \/ RequestDies(r) PROVE ReviewInv'
  <2>1. \A s \in Requests \ {r} :
          /\ pc'[s] = pc[s] /\ req'[s] = req[s] /\ exam'[s] = exam[s]
          /\ rows'[s] = rows[s] /\ met'[s] = met[s]
    BY <1>2, OtherSessions
  <2>2. \A s \in Requests \ {r} : Loaded(s)' = Loaded(s) /\ HasExam(s)' = HasExam(s)
    BY <2>1 DEF Loaded, HasExam, At
  <2> QED
    BY <1>2, <2>1, <2>2, OtherReviews, OwnReview DEF ReviewInv
<1>3. CASE UNCHANGED vars
  BY <1>3
  DEF vars, ReviewInv, LifecycleInv, Loaded, HasExam, At, Existing, Approved,
      blueprintVars, examVars, sessionVars, historyVars
<1> QED
  BY <1>1, <1>2, <1>3 DEF Next

LEMMA OneApprovedNext == TypeOK /\ LifecycleInv /\ [Next]_vars => OneApproved'
<1> SUFFICES ASSUME TypeOK, LifecycleInv, [Next]_vars PROVE OneApproved'
  OBVIOUS
<1> USE DEF LifecycleInv
<1>1. ASSUME NEW r \in Requests, Arrive(r) PROVE OneApproved'
  BY <1>1, ArriveFrame DEF Tables, Approved, OneApproved
<1>2. ASSUME NEW r \in Requests, CommitApproval(r) PROVE OneApproved'
  <2> DEFINE v == req[r].version
  <2>1. /\ Approved' = (Approved \ rows[r]) \cup {v}
        /\ contended' = IF met[r] THEN contended \cup {v} ELSE contended \ {v}
    BY <1>2, ApprovalStep DEF Approved, Existing
  <2>2. /\ Approved \ (rows[r] \cup {v}) \subseteq contended
        /\ ~met[r] => Approved \subseteq rows[r]
    BY <1>2, ApprovalStep DEF ReviewInv, At
  <2>3. CASE met[r]
    BY <2>1, <2>2, <2>3 DEF OneApproved
  <2>4. CASE ~met[r]
    BY <2>1, <2>2, <2>4 DEF OneApproved
  <2> QED
    BY <2>3, <2>4
<1>3. ASSUME NEW r \in Requests, Serve(r) \/ RequestDies(r), ~CommitApproval(r)
      PROVE  OneApproved'
  BY <1>3, ApprovedStep DEF OneApproved
<1>4. CASE UNCHANGED vars
  BY <1>4 DEF vars, OneApproved, Approved, blueprintVars, historyVars
<1> QED
  BY <1>1, <1>2, <1>3, <1>4 DEF Next

LEMMA ApprovedIsValidNext == TypeOK /\ LifecycleInv /\ [Next]_vars => ApprovedIsValid'
<1> SUFFICES ASSUME TypeOK, LifecycleInv, [Next]_vars PROVE ApprovedIsValid'
  OBVIOUS
<1> USE DEF LifecycleInv
<1>1. ASSUME NEW r \in Requests, Arrive(r) PROVE ApprovedIsValid'
  BY <1>1, ArriveFrame DEF Tables, Approved, ApprovedIsValid
<1>2. ASSUME NEW r \in Requests, CommitApproval(r) PROVE ApprovedIsValid'
  <2> DEFINE v == req[r].version
  <2>1. /\ Approved' = (Approved \ rows[r]) \cup {v}
        /\ contended' = IF met[r] THEN contended \cup {v} ELSE contended \ {v}
        /\ content' = content
    BY <1>2, ApprovalStep DEF Approved, Existing
  <2>2. ~met[r] => content[v] \in Resolved \cap Valid
    BY <1>2, ApprovalStep DEF ReviewInv, Loaded, At
  <2> QED
    BY <2>1, <2>2 DEF ApprovedIsValid
<1>3. ASSUME NEW r \in Requests, Serve(r) \/ RequestDies(r), ~CommitApproval(r)
      PROVE  ApprovedIsValid'
  <2>1. Approved' \subseteq Approved /\ contended' = contended
    BY <1>3, ApprovedStep
  <2>2. \A w \in Approved \ contended : content'[w] = content[w]
    BY <1>3, VersionStep DEF Approved, Existing
  <2> QED
    BY <2>1, <2>2 DEF ApprovedIsValid
<1>4. CASE UNCHANGED vars
  BY <1>4 DEF vars, ApprovedIsValid, Approved, blueprintVars, historyVars
<1> QED
  BY <1>1, <1>2, <1>3, <1>4 DEF Next

-----------------------------------------------------------------------------
(* The theorems *)

LEMMA LifecycleInit == Init => LifecycleInv
<1> SUFFICES ASSUME Init PROVE LifecycleInv
  OBVIOUS
<1>1. Existing = {} /\ Approved = {} /\ Inserting = {}
  BY DEF Init, Existing, Approved, Inserting
<1>2. Cardinality(Inserting) + Cardinality(Existing) <= MaxVersion
  BY <1>1, FS_EmptySet, BoundsAssumption
<1>3. MeetingInv /\ BoundInv /\ ExtractionInv /\ KeyInv
  BY <1>1, <1>2
  DEF Init, Idle, MeetingInv, Reviewing, BoundInv, ExtractionInv, KeyInv
<1>4. LockInv /\ ReviewInv
  BY DEF Init, Idle, LockInv, ReviewInv, Loaded, HasExam, At
<1>5. OneApproved /\ ApprovedIsValid
  BY <1>1 DEF OneApproved, ApprovedIsValid
<1> QED
  BY <1>3, <1>4, <1>5 DEF LifecycleInv

LEMMA LifecycleNext == TypeOK /\ LifecycleInv /\ [Next]_vars => LifecycleInv'
BY MeetingNext, BoundNext, ExtractionNext, KeyNext, LockNext, ReviewNext,
   OneApprovedNext, ApprovedIsValidNext DEF LifecycleInv

\* The types and the invariant support each other: a version is in range
\* because the extractions in flight never exceed the versions left.
LEMMA TypesAndInvariant == Spec => [](TypeOK /\ LifecycleInv)
<1>1. Init => TypeOK /\ LifecycleInv
  BY TypeInit, LifecycleInit
<1>2. TypeOK /\ LifecycleInv /\ [Next]_vars => (TypeOK /\ LifecycleInv)'
  BY TypeNext, LifecycleNext DEF LifecycleInv
<1> QED
  BY <1>1, <1>2, PTL DEF Spec

\* Tables and sessions keep their types, and no extraction runs out of versions
\* (create_extraction).
THEOREM TypeCorrect == Spec => []TypeOK
BY TypesAndInvariant, PTL

\* The invariant behind the results below: what a request that locks nothing
\* may still rely on between its SELECT and its commit.
THEOREM Invariance == Spec => []LifecycleInv
BY TypesAndInvariant, PTL

\* approve_blueprint leaves one approved version, unless reviews overlapped.
THEOREM OnlyOneApproved == Spec => []OneApproved
<1>1. LifecycleInv => OneApproved
  BY DEF LifecycleInv
<1> QED
  BY <1>1, Invariance, PTL

\* What is approved is resolved and valid, unless its review met another.
THEOREM ApprovedAreValid == Spec => []ApprovedIsValid
<1>1. LifecycleInv => ApprovedIsValid
  BY DEF LifecycleInv
<1> QED
  BY <1>1, Invariance, PTL

\* create_extraction answers one idempotency key with one version.
THEOREM OneVersionPerKey == Spec => []KeyAnswersOnce
<1>1. TypeOK /\ LifecycleInv => KeyAnswersOnce
  <2>1. \A k \in Keys : k # None
    BY NoneAssumption
  <2> QED
    BY <2>1 DEF LifecycleInv, KeyInv, KeyAnswersOnce
<1> QED
  BY <1>1, TypesAndInvariant, PTL

LEMMA FrozenStep ==
  ASSUME TypeOK, LifecycleInv, [Next]_vars, NEW v \in Approved \ contended
  PROVE  /\ status'[v] \in {"approved", "stale"}
         /\ content'[v] = content[v]
<1> USE DEF LifecycleInv
<1>0. v \in Existing /\ status[v] = "approved"
  BY DEF Approved, Existing
<1>1. ASSUME NEW r \in Requests, Arrive(r) PROVE status' = status /\ content' = content
  BY <1>1, ArriveFrame DEF Tables
<1>2. ASSUME NEW r \in Requests, Serve(r) \/ RequestDies(r)
      PROVE  status'[v] \in {"approved", "stale"} /\ content'[v] = content[v]
  <2>1. content'[v] = content[v]
    BY <1>0, <1>2, VersionStep
  <2>2. CASE UNCHANGED Tables \/ CommitConfiguration(r)
    BY <1>0, <2>2 DEF Tables, CommitConfiguration, blueprintVars
  <2>3. CASE Recorded(r)
    <3>1. v # req[r].version
      BY <1>0, <2>3, RecordedStep
    <3> QED
      BY <1>0, <2>1, <2>3, <3>1, RecordedStep DEF TypeOK, Existing
  <2>4. CASE StoreExtraction(r)
    BY <1>0, <2>1, <2>4, StoredStep DEF Existing
  <2>5. CASE CommitEdit(r)
    BY <1>0, <2>1, <2>5, EditStep DEF Existing
  <2>6. CASE CommitApproval(r)
    BY <1>0, <2>1, <2>6, ApprovalStep DEF Existing
  <2>7. CASE CommitFiles(r)
    BY <1>0, <2>1, <2>7, FilesStep DEF Existing
  <2> QED
    BY <1>2, <2>2, <2>3, <2>4, <2>5, <2>6, <2>7, StepTables
<1>3. CASE UNCHANGED vars
  BY <1>0, <1>3 DEF vars, blueprintVars
<1> QED
  BY <1>0, <1>1, <1>2, <1>3 DEF Next

\* A version whose approval met no other review is never edited, and only goes
\* stale (update_blueprint_draft, approve_blueprint, mark_exam_blueprints_stale).
THEOREM ApprovalStaysFrozen == Spec => ApprovalFrozen
<1>1. TypeOK /\ LifecycleInv /\ [Next]_vars =>
        [\A v \in Approved \ contended :
           \/ status'[v] = "approved" /\ content'[v] = content[v]
           \/ status'[v] = "stale" /\ content'[v] = content[v]]_vars
  BY FrozenStep
<1> QED
  BY <1>1, TypesAndInvariant, PTL DEF Spec, ApprovalFrozen

LEMMA NumberedStep ==
  ASSUME TypeOK, LifecycleInv, [Next]_vars, config' # config
  PROVE  \E r \in Requests :
           /\ pc[r] = "write" /\ pc'[r] = "idle"
           /\ ~met[r] => configVersion' = configVersion + 1
<1> USE DEF LifecycleInv
<1>1. ASSUME NEW r \in Requests, Arrive(r) PROVE FALSE
  BY <1>1, ArriveFrame DEF Tables
<1>2. ASSUME NEW r \in Requests, CommitApproval(r) \/ CommitConfiguration(r)
      PROVE  /\ pc[r] = "write" /\ pc'[r] = "idle"
             /\ ~met[r] => configVersion' = configVersion + 1
  <2>1. /\ pc[r] = "write" /\ pc'[r] = "idle" /\ HasExam(r)
        /\ configVersion' = exam[r].version + 1
    BY <1>2 DEF CommitApproval, CommitConfiguration, At, HasExam, Finish, TypeOK
  <2>2. ~met[r] => exam[r] = [config |-> config, version |-> configVersion]
    BY <2>1 DEF ReviewInv
  <2> QED
    BY <2>1, <2>2
<1>3. ASSUME NEW r \in Requests, Serve(r) \/ RequestDies(r)
      PROVE  CommitApproval(r) \/ CommitConfiguration(r)
  BY <1>3, StepTables, RecordedStep, StoredStep, EditStep, FilesStep DEF Tables
<1>4. CASE UNCHANGED vars
  BY <1>4 DEF vars, examVars
<1> QED
  BY <1>1, <1>2, <1>3, <1>4 DEF Next

\* update_exam and approve_blueprint give each configuration the next version,
\* unless they met another review.
THEOREM ConfigurationsAreNumbered == Spec => ConfigurationsNumbered
<1>1. TypeOK /\ LifecycleInv /\ [Next]_vars =>
        [config' # config =>
           \E r \in Requests :
             /\ pc[r] = "write" /\ pc'[r] = "idle"
             /\ ~met[r] => configVersion' = configVersion + 1]_vars
  BY NumberedStep
<1> QED
  BY <1>1, TypesAndInvariant, PTL DEF Spec, ConfigurationsNumbered

=============================================================================
