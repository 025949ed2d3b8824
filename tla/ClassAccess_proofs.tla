-------------------------- MODULE ClassAccess_proofs --------------------------
(***************************************************************************)
(* Proofs about ClassAccess, for any users, subjects, exams, classes,      *)
(* updates and readers.  AccessInv is inductive with the type invariant:   *)
(* one lemma per request that writes, one for the steps of an update and   *)
(* one for those of a reader.  The properties follow from it.              *)
(***************************************************************************)
EXTENDS ClassAccess, TLAPS

IInv == TypeOK /\ AccessInv

USE IdentityAssumption, NoneAssumption

-----------------------------------------------------------------------------
(* What the requests on the rows have in common. *)

\* A request on the rows leaves updates and readers where they are.
LEMMA StoredKeeps ==
    ASSUME TypeOK, Lost, UNCHANGED <<editing, cohort>>,
           subjects' \in SUBSET Subjects, exams' \in SUBSET Exams,
           classes' \in SUBSET Classes, loose' \in SUBSET Classes,
           scope' \in [Classes -> ClassExamScope],
           picked' \in [Classes -> SUBSET Exams],
           member' \in [Classes -> [Users -> {"none", "owner", "member"}]],
           record' \in [Users -> [Exams -> Evidence]]
    PROVE  TypeOK'
<1>1. lost' \in [Readers -> BOOLEAN]
  BY DEF TypeOK, Lost, Loses
<1> QED
  BY <1>1 DEF TypeOK, editing, cohort

\* What a reader relies on is still so, or lost.
LEMMA LostReads ==
    ASSUME TypeOK, NEW r \in Readers, Reads(r), Lost, UNCHANGED cohort
    PROVE  Reads(r)'
<1>1. CASE view[r] = None
  BY <1>1 DEF Reads, Dashboard, cohort, Lost, Loses
<1>2. CASE ~Dashboard(r)
  BY <1>2 DEF Reads, Dashboard, cohort, Lost, Loses
<1>3. CASE Dashboard(r) /\ lost'[r]
  BY <1>3 DEF Reads, Dashboard, cohort
<1>4. CASE Dashboard(r) /\ ~lost'[r]
  <2> DEFINE c == view[r].class
             e == view[r].exam
  <2>1. c \in Classes /\ e \in Exams
    BY <1>4 DEF TypeOK, View, Dashboard
  <2>2. ~lost[r] /\ ~Loses(r)
    BY <1>4 DEF Lost
  <2>3. /\ rpc[r] \in {"scope", "cohort"} /\ Grants(c, e) => Grants(c, e)'
        /\ rpc[r] \in {"active", "visit"} =>
              \A p \in todo[r] : CanTake(p[1], p[2]) => CanTake(p[1], p[2])'
    <3>1. ASSUME rpc[r] \in {"scope", "cohort"}, NEW d \in Classes, NEW x \in Exams,
                 d = c, x = e, Grants(d, x)
          PROVE  Grants(d, x)'
      BY <1>4, <2>2, <3>1 DEF Loses
    <3>2. UNCHANGED view
      BY DEF cohort
    <3>3. ASSUME rpc[r] \in {"active", "visit"}, NEW p \in todo[r], CanTake(p[1], p[2])
          PROVE  CanTake(p[1], p[2])'
      BY <2>2, <3>3 DEF Loses
    <3> QED
      BY <2>1, <3>1, <3>2, <3>3 DEF Grants
  <2> QED
    BY <1>4, <2>2, <2>3 DEF Reads, Dashboard, cohort
<1> QED
  BY <1>1, <1>2, <1>3, <1>4

\* An exam that a dashboard is made of does not come back, and while it is there
\* evidence on it is only added.
LEMMA EvidenceCounts ==
    ASSUME TypeOK, NEW r \in Readers, Counts(r), UNCHANGED cohort,
           Dashboard(r) /\ view[r].exam \in exams' =>
              /\ view[r].exam \in exams
              /\ \A u \in Users : record[u][view[r].exam] # None =>
                    Covers(record'[u][view[r].exam], record[u][view[r].exam])
    PROVE  Counts(r)'
<1>1. Dashboard(r)' <=> Dashboard(r)
  BY DEF Dashboard, cohort
<1>2. CASE ~Dashboard(r)
  BY <1>1, <1>2 DEF Counts
<1>3. CASE Dashboard(r)
  <2>1. ASSUME NEW u \in Users, view[r].exam \in exams => Covers(record[u][view[r].exam], counted[r][u])
        PROVE  view[r].exam \in exams' => Covers(record'[u][view[r].exam], counted[r][u])
    BY <1>3, <2>1 DEF Covers
  <2> QED
    BY <1>1, <1>3, <2>1 DEF Counts, Covers, cohort
<1> QED
  BY <1>2, <1>3

LEMMA ReadersKeep ==
    ASSUME TypeOK, ReadInv, Lost, UNCHANGED cohort,
           \A r \in Readers : Dashboard(r) /\ view[r].exam \in exams' =>
              /\ view[r].exam \in exams
              /\ \A u \in Users : record[u][view[r].exam] # None =>
                    Covers(record'[u][view[r].exam], record[u][view[r].exam])
    PROVE  ReadInv'
<1> SUFFICES ASSUME NEW r \in Readers PROVE Reads(r)' /\ Counts(r)'
  BY DEF ReadInv
<1> QED
  BY LostReads, EvidenceCounts DEF ReadInv

LEMMA SameEvidenceReads ==
    ASSUME TypeOK, ReadInv, Lost, UNCHANGED <<cohort, exams, record>>
    PROVE  ReadInv'
BY ReadersKeep DEF Covers

\* An update knows the scope of its class and its rows if others only take
\* rows away.
LEMMA FewerRowsEdits ==
    ASSUME TypeOK, EditInv, UNCHANGED editing,
           \A r \in Editors : epc[r] # "idle" =>
               /\ scope'[edit[r].class] = scope[edit[r].class]
               /\ picked'[edit[r].class] \subseteq picked[edit[r].class]
    PROVE  EditInv'
BY DEF EditInv, editing

LEMMA SameRowsEdits ==
    ASSUME TypeOK, EditInv, UNCHANGED <<editing, scope, picked>>
    PROVE  EditInv'
BY FewerRowsEdits DEF TypeOK

-----------------------------------------------------------------------------
(* The requests that write. *)

LEMMA CreateSubjectKeeps ==
    ASSUME IInv, NEW s \in Subjects, CreateSubject(s) PROVE IInv'
<1> USE DEF IInv, AccessInv
<1>1. TypeOK'
  BY StoredKeeps DEF CreateSubject, Stored, TypeOK
<1>2. RowsInv' /\ ScopeConsistent'
  BY DEF CreateSubject, Stored, RowsInv, ScopeConsistent
<1>3. EditInv' /\ ReadInv'
  BY SameRowsEdits, SameEvidenceReads DEF CreateSubject, Stored
<1> QED
  BY <1>1, <1>2, <1>3

LEMMA CreateExamKeeps ==
    ASSUME IInv, NEW e \in Exams, CreateExam(e) PROVE IInv'
<1> USE DEF IInv, AccessInv
<1>1. TypeOK'
  BY StoredKeeps DEF CreateExam, Stored, TypeOK
<1>2. RowsInv' /\ ScopeConsistent'
  BY DEF CreateExam, Stored, RowsInv, ScopeConsistent
<1>3. EditInv'
  BY SameRowsEdits DEF CreateExam, Stored
<1>4. ReadInv'
  <2>1. \A r \in Readers : Dashboard(r) => view[r].exam # e
    BY DEF CreateExam, Unused
  <2> QED
    BY <2>1, ReadersKeep DEF CreateExam, Stored, Covers
<1> QED
  BY <1>1, <1>2, <1>3, <1>4

\* The cascades keep the types, and what is left of a selection.
LEMMA CascadeTypes ==
    ASSUME TypeOK, NEW es \in SUBSET Exams, RemoveExams(es)
    PROVE  /\ exams' \in SUBSET Exams
           /\ picked' \in [Classes -> SUBSET Exams]
           /\ record' \in [Users -> [Exams -> Evidence]]
           /\ \A e \in exams', u \in Users : e \in exams /\ record'[u][e] = record[u][e]
<1>1. None \in Evidence
  BY DEF Evidence
<1> QED
  BY <1>1 DEF TypeOK, RemoveExams

LEMMA DeleteSubjectKeeps ==
    ASSUME IInv, NEW s \in Subjects, DeleteSubject(s) PROVE IInv'
<1> USE DEF IInv, AccessInv
<1> DEFINE es == {e \in Exams : SubjectOf[e] = s}
           cs == {c \in Classes : SubjectOf[c] = s}
<1>1. /\ subjects' = subjects \ {s} /\ exams' = exams \ es /\ classes' = classes \ cs
      /\ picked' = [c \in Classes |-> picked[c] \ es]
      /\ member' = [c \in Classes |-> IF c \in cs THEN NoMembers ELSE member[c]]
      /\ loose' = loose \ cs /\ UNCHANGED scope /\ RemoveExams(es)
      /\ Lost /\ UNCHANGED <<editing, cohort>>
  BY DEF DeleteSubject, Stored, RemoveExams, RemoveClasses
<1>2. TypeOK'
  <2>1. member' \in [Classes -> [Users -> {"none", "owner", "member"}]]
    BY <1>1 DEF TypeOK, NoMembers
  <2> QED
    BY <1>1, <2>1, StoredKeeps, CascadeTypes DEF TypeOK
<1>3. RowsInv'
  <2>1. ASSUME NEW c \in Classes \ classes' PROVE member'[c] = NoMembers /\ picked'[c] = {}
    <3>1. CASE c \notin classes
      BY <1>1, <3>1 DEF RowsInv
    <3>2. CASE c \in classes
      <4>1. c \in cs /\ SubjectOf[c] = s
        BY <1>1, <2>1, <3>2
      <4>2. picked[c] \subseteq es
        BY <3>2, <4>1 DEF ScopeConsistent, TypeOK
      <4> QED
        BY <1>1, <4>1, <4>2
    <3> QED
      BY <3>1, <3>2
  <2>2. \A c \in classes' : SubjectOf[c] \in subjects'
    BY <1>1 DEF TypeOK, RowsInv
  <2>3. \A e \in exams' : SubjectOf[e] \in subjects'
    BY <1>1 DEF TypeOK, RowsInv
  <2> QED
    BY <2>1, <2>2, <2>3 DEF RowsInv
<1>4. ScopeConsistent'
  <2>0. ASSUME NEW c \in classes'
        PROVE  c \in classes /\ c \in Classes /\ SubjectOf[c] # s /\ c \notin cs
    BY <1>1, <2>0 DEF TypeOK
  <2>1. ASSUME NEW c \in classes'
        PROVE  c \in classes /\ member'[c] = member[c] /\ picked'[c] = picked[c]
    <3>1. \A e \in picked[c] : e \notin es
      BY <2>0 DEF ScopeConsistent
    <3>2. picked[c] \ es = picked[c]
      BY <3>1
    <3> QED
      BY <1>1, <2>0, <3>2
  <2>2. ASSUME NEW c \in classes', NEW e \in picked[c] PROVE e \in exams'
    BY <1>1, <2>0, <2>2 DEF TypeOK, ScopeConsistent
  <2> HIDE DEF es, cs
  <2> QED
    <3>1. \A c \in classes' : c \notin loose' => c \notin loose
      BY <1>1, <2>0
    <3>2. \A c \in classes' : \A e \in picked'[c] :
             e \in exams' /\ SubjectOf[e] = SubjectOf[c]
      BY <2>0, <2>1, <2>2 DEF ScopeConsistent
    <3>3. ASSUME NEW c \in classes'
          PROVE  /\ c \notin loose' => (scope'[c] = "subject" <=> picked'[c] = {})
                 /\ \A u \in Users : member'[c][u] = "owner" <=> u = Owner[SubjectOf[c]]
      <4>1. /\ c \in classes /\ scope'[c] = scope[c] /\ picked'[c] = picked[c]
            /\ member'[c] = member[c]
        BY <1>1, <2>1, <3>3
      <4> QED
        BY <3>1, <3>3, <4>1 DEF ScopeConsistent
    <3> QED
      BY <3>2, <3>3 DEF ScopeConsistent
<1>5. EditInv'
  BY <1>1, FewerRowsEdits DEF TypeOK, EditInv, Edit
<1>6. ReadInv'
  <2>1. \A x \in exams', u \in Users : x \in exams /\ record'[u][x] = record[u][x]
    BY <1>1, CascadeTypes
  <2> QED
    BY <1>1, <2>1, ReadersKeep DEF Covers
<1> QED
  BY <1>2, <1>3, <1>4, <1>5, <1>6

LEMMA DeleteExamKeeps ==
    ASSUME IInv, NEW e \in Exams, DeleteExam(e) PROVE IInv'
<1> USE DEF IInv, AccessInv
<1>1. /\ exams' = exams \ {e} /\ picked' = [c \in Classes |-> picked[c] \ {e}]
      /\ loose' = loose \cup {c \in classes : picked[c] = {e}} /\ RemoveExams({e})
      /\ UNCHANGED <<subjects, classes, scope, member>>
      /\ Lost /\ UNCHANGED <<editing, cohort>>
  BY DEF DeleteExam, Stored, RemoveExams
<1>2. TypeOK'
  BY <1>1, StoredKeeps, CascadeTypes DEF TypeOK
<1>3. RowsInv'
  BY <1>1 DEF TypeOK, RowsInv
<1>4. ScopeConsistent'
  <2>1. ASSUME NEW c \in classes, c \notin loose' PROVE picked'[c] = {} <=> picked[c] = {}
    <3>1. picked[c] # {e} /\ picked'[c] = picked[c] \ {e}
      BY <1>1, <2>1 DEF TypeOK
    <3> QED
      BY <3>1
  <2>2. ASSUME NEW c \in classes PROVE picked'[c] = picked[c] \ {e} /\ c \in Classes
    BY <1>1, <2>2 DEF TypeOK
  <2>3. ASSUME NEW c \in classes, NEW x \in picked'[c]
        PROVE  x \in exams' /\ SubjectOf[x] = SubjectOf[c]
    BY <1>1, <2>2, <2>3 DEF ScopeConsistent
  <2>4. ASSUME NEW c \in classes, c \notin loose'
        PROVE  scope'[c] = "subject" <=> picked'[c] = {}
    BY <1>1, <2>1, <2>4 DEF ScopeConsistent
  <2> QED
    BY <1>1, <2>3, <2>4 DEF ScopeConsistent
<1>5. EditInv'
  BY <1>1, FewerRowsEdits DEF TypeOK, EditInv, Edit
<1>6. ReadInv'
  <2>1. \A x \in exams', u \in Users : x \in exams /\ record'[u][x] = record[u][x]
    BY <1>1, CascadeTypes
  <2> QED
    BY <1>1, <2>1, ReadersKeep DEF Covers
<1> QED
  BY <1>2, <1>3, <1>4, <1>5, <1>6

\* A class is made with its selection and its owner's membership.
LEMMA CreateClassKeeps ==
    ASSUME IInv, NEW c \in Classes, CreateClass(c) PROVE IInv'
<1> USE DEF IInv, AccessInv
<1>1. PICK sc \in ClassExamScope, ids \in SUBSET Exams :
        /\ ValidScope(SubjectOf[c], sc, ids)
        /\ Stored(/\ classes' = classes \cup {c}
                  /\ scope' = [scope EXCEPT ![c] = sc]
                  /\ picked' = [picked EXCEPT ![c] = ids]
                  /\ member' = [member EXCEPT ![c][Owner[SubjectOf[c]]] = "owner"]
                  /\ UNCHANGED <<subjects, exams, record, loose>>)
  BY DEF CreateClass
<1>2. /\ classes' = classes \cup {c} /\ scope' = [scope EXCEPT ![c] = sc]
      /\ picked' = [picked EXCEPT ![c] = ids]
      /\ member' = [member EXCEPT ![c][Owner[SubjectOf[c]]] = "owner"]
      /\ UNCHANGED <<subjects, exams, record, loose>>
      /\ Lost /\ UNCHANGED <<editing, cohort>>
  BY <1>1 DEF Stored
<1>3. /\ c \notin classes /\ SubjectOf[c] \in subjects /\ member[c] = NoMembers
      /\ \A r \in Editors : epc[r] # "idle" => edit[r].class # c
  BY DEF CreateClass, RowsInv, Unused
<1>4. TypeOK'
  BY <1>2, StoredKeeps DEF TypeOK
<1>5. RowsInv'
  BY <1>2, <1>3 DEF TypeOK, RowsInv
<1>6. ScopeConsistent'
  <2>1. \A d \in classes : d # c /\ scope'[d] = scope[d] /\ picked'[d] = picked[d]
                                /\ member'[d] = member[d]
    BY <1>2, <1>3 DEF TypeOK
  <2>2. scope'[c] = sc /\ picked'[c] = ids
    BY <1>2 DEF TypeOK
  <2>3. \A u \in Users : member'[c][u] = "owner" <=> u = Owner[SubjectOf[c]]
    BY <1>2, <1>3 DEF TypeOK, NoMembers
  <2>4. /\ sc = "subject" <=> ids = {}
        /\ ids \subseteq {e \in exams : SubjectOf[e] = SubjectOf[c]}
    BY <1>1 DEF ValidScope
  <2> QED
    BY <1>2, <2>1, <2>2, <2>3, <2>4 DEF ScopeConsistent
<1>7. EditInv' /\ ReadInv'
  <2>1. \A r \in Editors : epc[r] # "idle" =>
          /\ scope'[edit[r].class] = scope[edit[r].class]
          /\ picked'[edit[r].class] = picked[edit[r].class]
    BY <1>2, <1>3 DEF TypeOK, EditInv, Edit
  <2> QED
    BY <1>2, <2>1, FewerRowsEdits, SameEvidenceReads
<1> QED
  BY <1>4, <1>5, <1>6, <1>7

LEMMA DeleteClassKeeps ==
    ASSUME IInv, NEW c \in Classes, DeleteClass(c) PROVE IInv'
<1> USE DEF IInv, AccessInv
<1>1. /\ classes' = classes \ {c} /\ loose' = loose \ {c}
      /\ member' = [d \in Classes |-> IF d \in {c} THEN NoMembers ELSE member[d]]
      /\ picked' = [picked EXCEPT ![c] = {}]
      /\ UNCHANGED <<subjects, exams, scope, record>>
      /\ Lost /\ UNCHANGED <<editing, cohort>>
  BY DEF DeleteClass, Stored, RemoveClasses
<1>2. TypeOK'
  <2>1. member' \in [Classes -> [Users -> {"none", "owner", "member"}]]
    BY <1>1 DEF TypeOK, NoMembers
  <2> QED
    BY <1>1, <2>1, StoredKeeps DEF TypeOK
<1>3. RowsInv'
  BY <1>1 DEF TypeOK, RowsInv
<1>4. ScopeConsistent'
  BY <1>1 DEF TypeOK, ScopeConsistent
<1>5. EditInv' /\ ReadInv'
  <2>1. \A d \in Classes : picked'[d] \subseteq picked[d]
    BY <1>1 DEF TypeOK
  <2> QED
    BY <1>1, <2>1, FewerRowsEdits, SameEvidenceReads DEF TypeOK, EditInv, Edit
<1> QED
  BY <1>2, <1>3, <1>4, <1>5

LEMMA AddMemberKeeps ==
    ASSUME IInv, NEW c \in Classes, NEW u \in Users, AddMember(c, u) PROVE IInv'
<1> USE DEF IInv, AccessInv
<1>1. /\ c \in classes /\ member[c][u] = "none"
      /\ member' = [member EXCEPT ![c][u] = "member"]
      /\ UNCHANGED <<subjects, exams, classes, scope, picked, record, loose>>
      /\ Lost /\ UNCHANGED <<editing, cohort>>
  BY DEF AddMember, Stored
<1>2. TypeOK'
  BY <1>1, StoredKeeps DEF TypeOK
<1>3. RowsInv'
  BY <1>1 DEF TypeOK, RowsInv
<1>4. ScopeConsistent'
  <2>1. \A d \in Classes, v \in Users : (member'[d][v] = "owner") <=> (member[d][v] = "owner")
    BY <1>1 DEF TypeOK
  <2> QED
    BY <1>1, <2>1 DEF TypeOK, ScopeConsistent
<1>5. EditInv' /\ ReadInv'
  BY <1>1, SameRowsEdits, SameEvidenceReads
<1> QED
  BY <1>2, <1>3, <1>4, <1>5

LEMMA RemoveMemberKeeps ==
    ASSUME IInv, NEW c \in Classes, NEW u \in Users, RemoveMember(c, u) PROVE IInv'
<1> USE DEF IInv, AccessInv
<1>1. /\ c \in classes /\ member[c][u] = "member"
      /\ member' = [member EXCEPT ![c][u] = "none"]
      /\ UNCHANGED <<subjects, exams, classes, scope, picked, record, loose>>
      /\ Lost /\ UNCHANGED <<editing, cohort>>
  BY DEF RemoveMember, Stored
<1>2. TypeOK'
  BY <1>1, StoredKeeps DEF TypeOK
<1>3. RowsInv'
  BY <1>1 DEF TypeOK, RowsInv
<1>4. ScopeConsistent'
  <2>1. \A d \in Classes, v \in Users : (member'[d][v] = "owner") <=> (member[d][v] = "owner")
    BY <1>1 DEF TypeOK
  <2> QED
    BY <1>1, <2>1 DEF TypeOK, ScopeConsistent
<1>5. EditInv' /\ ReadInv'
  BY <1>1, SameRowsEdits, SameEvidenceReads
<1> QED
  BY <1>2, <1>3, <1>4, <1>5

LEMMA LearnKeeps ==
    ASSUME IInv, NEW u \in Users, NEW e \in Exams, Learn(u, e) PROVE IInv'
<1> USE DEF IInv, AccessInv
<1>1. /\ Lost /\ UNCHANGED <<editing, cohort>>
      /\ UNCHANGED <<subjects, exams, classes, scope, picked, member, loose>>
  BY DEF Learn, Stored
<1>2. PICK new \in SUBSET Skills :
        record' = [record EXCEPT ![u][e] = new \cup (IF @ = None THEN {} ELSE @)]
  BY DEF Learn, Stored
<1>3. new \cup (IF record[u][e] = None THEN {} ELSE record[u][e]) \in Evidence
  BY DEF TypeOK, Evidence
<1>4. record' \in [Users -> [Exams -> Evidence]]
  BY <1>2, <1>3 DEF TypeOK
<1>5. TypeOK'
  BY <1>1, <1>4, StoredKeeps DEF TypeOK
<1>6. RowsInv' /\ ScopeConsistent'
  BY <1>1 DEF RowsInv, ScopeConsistent
<1>7. EditInv'
  BY <1>1, SameRowsEdits
<1>8. ReadInv'
  <2>1. \A v \in Users, x \in Exams : record[v][x] # None =>
           Covers(record'[v][x], record[v][x])
    <3> SUFFICES ASSUME NEW v \in Users, NEW x \in Exams, record[v][x] # None
                 PROVE  Covers(record'[v][x], record[v][x])
      OBVIOUS
    <3>1. CASE v = u /\ x = e
      <4>1. record'[v][x] = new \cup record[v][x] /\ record'[v][x] \in SUBSET Skills
        BY <1>2, <3>1 DEF TypeOK, Evidence
      <4> QED
        BY <4>1 DEF Covers
    <3>2. CASE ~(v = u /\ x = e)
      BY <1>2, <3>2 DEF TypeOK, Covers
    <3> QED
      BY <3>1, <3>2
  <2>2. \A r \in Readers : Dashboard(r) => view[r].exam \in Exams
    BY DEF TypeOK, View, Dashboard
  <2> QED
    BY <1>1, <2>1, <2>2, ReadersKeep
<1> QED
  BY <1>5, <1>6, <1>7, <1>8

-----------------------------------------------------------------------------
(* An update. *)

LEMMA EditedKeeps ==
    ASSUME IInv, NEW r \in Editors, UNCHANGED <<stored, reading>>, TypeOK', EditInv'
    PROVE  IInv'
<1>1. RowsInv' /\ ScopeConsistent'
  BY DEF IInv, AccessInv, stored, RowsInv, ScopeConsistent
<1>2. ReadInv'
  BY DEF IInv, AccessInv, stored, reading, cohort, ReadInv, Reads, Counts,
         Dashboard, CanTake, Grants
<1> QED
  BY <1>1, <1>2 DEF IInv, AccessInv

LEMMA LoadClassKeeps ==
    ASSUME IInv, NEW r \in Editors, LoadClass(r) PROVE IInv'
<1> USE DEF IInv, AccessInv
<1>1. PICK c \in classes, sc \in ClassExamScope, ids \in SUBSET Exams, asks \in BOOLEAN :
        /\ edit' = [edit EXCEPT ![r] = [class |-> c, scope |-> sc, ids |-> ids,
                                        seen |-> scope[c], asks |-> asks]]
        /\ epc' = [epc EXCEPT ![r] = "read"]
        /\ UNCHANGED <<doomed, met, stored, reading>>
  BY DEF LoadClass, Edited, Step
<1>2. edit'[r] \in Edit /\ edit'[r].seen = scope[edit'[r].class]
  BY <1>1 DEF TypeOK, Edit
<1>3. TypeOK'
  BY <1>1, <1>2 DEF TypeOK, stored, reading, cohort
<1>4. EditInv'
  BY <1>1, <1>2 DEF TypeOK, EditInv, stored
<1> QED
  BY <1>1, <1>3, <1>4, EditedKeeps

LEMMA LoadPickedKeeps ==
    ASSUME IInv, NEW r \in Editors, LoadPicked(r) PROVE IInv'
<1> USE DEF IInv, AccessInv
<1> DEFINE ids == IF edit[r].asks THEN edit[r].ids ELSE picked[edit[r].class]
<1>1. /\ edit' = [edit EXCEPT ![r].ids = ids] /\ epc[r] = "read"
      /\ epc' = [epc EXCEPT ![r] = "validate"]
      /\ UNCHANGED <<doomed, met, stored, reading>>
  BY DEF LoadPicked, Edited, Step
<1>2. edit[r] \in Edit /\ ids \in SUBSET Exams
  BY <1>1 DEF TypeOK, EditInv, Edit
<1> HIDE DEF ids
<1>3. /\ edit'[r] \in Edit /\ edit'[r].class = edit[r].class
      /\ edit'[r].seen = edit[r].seen
  BY <1>1, <1>2 DEF TypeOK, Edit
<1>4. \A q \in Editors : q # r => edit'[q] = edit[q]
  BY <1>1 DEF TypeOK
<1>5. TypeOK'
  <2>1. edit' \in [Editors -> Edit \cup {None}]
    BY <1>1, <1>3, <1>4 DEF TypeOK
  <2> QED
    BY <1>1, <2>1 DEF TypeOK, stored, reading, cohort
<1>6. EditInv'
  BY <1>1, <1>3, <1>4 DEF TypeOK, EditInv, stored
<1> QED
  BY <1>1, <1>5, <1>6, EditedKeeps

LEMMA ValidateKeeps ==
    ASSUME IInv, NEW r \in Editors, Validate(r) PROVE IInv'
<1> USE DEF IInv, AccessInv
<1>1. /\ epc[r] = "validate" /\ epc' = [epc EXCEPT ![r] = "write"]
      /\ UNCHANGED <<edit, doomed, met, stored, reading>>
      /\ ValidScope(SubjectOf[edit[r].class], edit[r].scope, edit[r].ids)
  BY DEF Validate, Edited, Step
<1>2. TypeOK'
  BY <1>1 DEF TypeOK, stored, reading, cohort
<1>3. /\ edit[r].scope = "subject" <=> edit[r].ids = {}
      /\ \A e \in edit[r].ids : SubjectOf[e] = SubjectOf[edit[r].class]
  BY <1>1 DEF ValidScope
<1>4. EditInv'
  BY <1>1, <1>3 DEF TypeOK, EditInv, stored
<1> QED
  BY <1>1, <1>2, <1>4, EditedKeeps

LEMMA StartDeleteKeeps ==
    ASSUME IInv, NEW r \in Editors, StartDelete(r) PROVE IInv'
<1> USE DEF IInv, AccessInv
<1>1. /\ epc[r] = "write" /\ epc' = [epc EXCEPT ![r] = "clear"]
      /\ doomed' = [doomed EXCEPT ![r] = picked[edit[r].class]]
      /\ UNCHANGED <<edit, met, stored, reading>>
  BY DEF StartDelete, Edited, Step
<1>2. picked[edit[r].class] \in SUBSET Exams
  BY <1>1 DEF TypeOK, EditInv, Edit
<1>3. TypeOK'
  BY <1>1, <1>2 DEF TypeOK, stored, reading, cohort
<1>4. EditInv'
  BY <1>1 DEF TypeOK, EditInv, stored
<1> QED
  BY <1>1, <1>3, <1>4, EditedKeeps

LEMMA ClearRowsKeeps ==
    ASSUME IInv, NEW r \in Editors, ClearRows(r) PROVE IInv'
<1> USE DEF IInv, AccessInv
<1>1. /\ epc[r] = "clear" /\ epc' = [epc EXCEPT ![r] = "insert"]
      /\ UNCHANGED <<edit, doomed, met, stored, reading>>
  BY DEF ClearRows, Edited, Step
<1>2. TypeOK'
  BY <1>1 DEF TypeOK, stored, reading, cohort
<1>3. EditInv'
  BY <1>1 DEF TypeOK, EditInv, stored
<1> QED
  BY <1>1, <1>2, <1>3, EditedKeeps

LEMMA FailUpdateKeeps ==
    ASSUME IInv, NEW r \in Editors, FailUpdate(r) PROVE IInv'
<1> USE DEF IInv, AccessInv
<1>1. /\ epc' = [epc EXCEPT ![r] = "idle"] /\ edit' = [edit EXCEPT ![r] = None]
      /\ doomed' = [doomed EXCEPT ![r] = {}] /\ met' = [met EXCEPT ![r] = FALSE]
      /\ UNCHANGED <<stored, reading>>
  BY DEF FailUpdate, Edited, Rest, Step
<1>2. TypeOK'
  BY <1>1 DEF TypeOK, stored, reading, cohort
<1>3. EditInv'
  BY <1>1 DEF TypeOK, EditInv, stored
<1> QED
  BY <1>1, <1>2, <1>3, EditedKeeps

\* An update that met no other leaves the scope and the rows it has validated.
LEMMA CommitUpdateKeeps ==
    ASSUME IInv, NEW r \in Editors, CommitUpdate(r) PROVE IInv'
<1> USE DEF IInv, AccessInv
<1> DEFINE c == edit[r].class
           ids == edit[r].ids
<1>1. /\ epc[r] = "insert" /\ edit[r] \in Edit /\ c \in classes /\ c \in Classes
      /\ ids \subseteq exams /\ (edit[r].scope = "subject" <=> ids = {})
      /\ \A e \in ids : SubjectOf[e] = SubjectOf[c]
  BY DEF CommitUpdate, Insertable, EditInv, TypeOK
<1>2. /\ epc' = [epc EXCEPT ![r] = "idle"] /\ edit' = [edit EXCEPT ![r] = None]
      /\ doomed' = [q \in Editors |->
                        IF q = r THEN {}
                        ELSE IF epc[q] = "clear" /\ edit[q].class = c THEN doomed[q] \ doomed[r]
                        ELSE doomed[q]]
      /\ met' = [q \in Editors |->
                    q # r /\ (met[q] \/ (epc[q] # "idle" /\ edit[q].class = c))]
      /\ Lost /\ UNCHANGED cohort
  BY DEF CommitUpdate, Step
<1>3. /\ picked' = [picked EXCEPT ![c] = (@ \ doomed[r]) \cup ids]
      /\ scope' = [scope EXCEPT ![c] = IF edit[r].scope # edit[r].seen
                                       THEN edit[r].scope ELSE @]
      /\ loose' = IF met[r] THEN loose \cup {c} ELSE loose \ {c}
      /\ UNCHANGED <<subjects, exams, classes, member, record>>
  BY DEF CommitUpdate
<1>4. ~met[r] => edit[r].seen = scope[c] /\ picked[c] \ doomed[r] = {}
  BY <1>1 DEF EditInv
<1>5. edit[r].scope \in ClassExamScope /\ ids \in SUBSET Exams
  BY <1>1 DEF Edit
<1> HIDE DEF c, ids
<1>6. /\ picked'[c] = (picked[c] \ doomed[r]) \cup ids
      /\ \A d \in Classes : d # c => picked'[d] = picked[d] /\ scope'[d] = scope[d]
      /\ ~met[r] => scope'[c] = edit[r].scope
  BY <1>1, <1>3, <1>4 DEF TypeOK
<1>7. TypeOK'
  <2>1. /\ epc' \in [Editors -> {"idle", "read", "validate", "write", "clear", "insert"}]
        /\ edit' \in [Editors -> Edit \cup {None}]
        /\ doomed' \in [Editors -> SUBSET Exams]
    BY <1>2 DEF TypeOK
  <2>2. met' \in [Editors -> BOOLEAN] /\ lost' \in [Readers -> BOOLEAN]
    BY <1>2 DEF TypeOK, Lost, Loses
  <2>3. picked' \in [Classes -> SUBSET Exams] /\ scope' \in [Classes -> ClassExamScope]
    BY <1>1, <1>3, <1>5 DEF TypeOK
  <2>4. loose' \in SUBSET Classes
    BY <1>1, <1>3 DEF TypeOK
  <2> QED
    BY <1>2, <1>3, <2>1, <2>2, <2>3, <2>4 DEF TypeOK, cohort
<1>8. RowsInv'
  BY <1>1, <1>3, <1>6 DEF RowsInv, TypeOK
<1>9. ScopeConsistent'
  <2>1. ~met[r] => (scope'[c] = "subject" <=> picked'[c] = {})
    BY <1>1, <1>4, <1>6
  <2>2. picked'[c] \subseteq {e \in exams : SubjectOf[e] = SubjectOf[c]}
    BY <1>1, <1>6 DEF ScopeConsistent
  <2>3. \A d \in classes \ {c} :
          /\ d \notin loose' => (scope'[d] = "subject" <=> picked'[d] = {})
          /\ picked'[d] \subseteq {e \in exams : SubjectOf[e] = SubjectOf[d]}
    BY <1>3, <1>6 DEF TypeOK, ScopeConsistent
  <2>4. c \notin loose' => ~met[r]
    BY <1>3
  <2> QED
    BY <1>3, <2>1, <2>2, <2>3, <2>4 DEF ScopeConsistent
<1>10. EditInv'
  <2> SUFFICES ASSUME NEW q \in Editors, epc'[q] # "idle"
               PROVE  /\ edit'[q] \in Edit
                      /\ epc'[q] \in {"write", "clear", "insert"} =>
                            /\ edit'[q].scope = "subject" <=> edit'[q].ids = {}
                            /\ \A e \in edit'[q].ids :
                                  SubjectOf[e] = SubjectOf[edit'[q].class]
                      /\ ~met'[q] => edit'[q].seen = scope'[edit'[q].class]
                      /\ ~met'[q] /\ epc'[q] \in {"clear", "insert"} =>
                            picked'[edit'[q].class] \subseteq doomed'[q]
    BY DEF EditInv
  <2>1. /\ q # r /\ epc'[q] = epc[q] /\ edit'[q] = edit[q]
        /\ ~met'[q] => ~met[q] /\ edit[q].class # c /\ doomed'[q] = doomed[q]
    BY <1>2 DEF TypeOK
  <2>2. edit[q] \in Edit /\ edit[q].class \in Classes
    BY <2>1 DEF EditInv, Edit
  <2> QED
    BY <1>6, <2>1, <2>2 DEF EditInv
<1>11. ReadInv'
  BY <1>2, <1>3, SameEvidenceReads
<1> QED
  BY <1>7, <1>8, <1>9, <1>10, <1>11

-----------------------------------------------------------------------------
(* A reader. *)

LEMMA ReadKeeps ==
    ASSUME IInv, NEW r \in Readers, UNCHANGED <<stored, editing>>, TypeOK',
           \A q \in Readers : q # r =>
               /\ rpc'[q] = rpc[q] /\ view'[q] = view[q] /\ todo'[q] = todo[q]
               /\ counted'[q] = counted[q] /\ profiles'[q] = profiles[q] /\ lost'[q] = lost[q],
           Reads(r)' /\ Counts(r)'
    PROVE  IInv'
<1>1. RowsInv' /\ ScopeConsistent'
  BY DEF IInv, AccessInv, stored, RowsInv, ScopeConsistent
<1>2. EditInv'
  BY DEF IInv, AccessInv, stored, editing, EditInv
<1>3. /\ \A c, e : Grants(c, e)' <=> Grants(c, e)
      /\ \A u, e : CanTake(u, e)' <=> CanTake(u, e)
      /\ UNCHANGED <<exams, record>>
  BY DEF stored, Grants, CanTake
<1>4. ASSUME NEW q \in Readers, q # r PROVE Reads(q)' /\ Counts(q)'
  <2>1. Reads(q) /\ Counts(q) /\ (Dashboard(q)' <=> Dashboard(q))
    BY <1>4 DEF IInv, AccessInv, ReadInv, Dashboard
  <2>2. Reads(q)'
    BY <1>3, <1>4, <2>1 DEF Reads
  <2>3. Counts(q)'
    BY <1>3, <1>4, <2>1 DEF Counts
  <2> QED
    BY <2>2, <2>3
<1> QED
  BY <1>1, <1>2, <1>4 DEF IInv, AccessInv, ReadInv

LEMMA BeginReadKeeps ==
    ASSUME IInv, NEW r \in Readers, NEW step \in {"scope", "visit"},
           NEW v \in View, NEW visits \in SUBSET (Users \X Exams),
           BeginRead(r, step, v, visits),
           v.kind = "dashboard" => /\ step = "scope" /\ visits = {}
                                   /\ SubjectOf[v.class] = SubjectOf[v.exam]
                                        /\ v.scope = "subject" => Grants(v.class, v.exam),
           v.kind # "dashboard" => step = "visit"
    PROVE  IInv'
<1>1. /\ rpc[r] = "idle" /\ rpc' = [rpc EXCEPT ![r] = step]
      /\ view' = [view EXCEPT ![r] = v] /\ todo' = [todo EXCEPT ![r] = visits]
      /\ UNCHANGED <<stored, editing, counted, profiles, lost>>
  BY DEF BeginRead
<1>2. TypeOK'
  BY <1>1 DEF IInv, TypeOK, stored, editing
<1>3. /\ rpc'[r] = step /\ view'[r] = v /\ todo'[r] = visits
      /\ \A q \in Readers : q # r =>
           rpc'[q] = rpc[q] /\ view'[q] = view[q] /\ todo'[q] = todo[q]
  BY <1>1 DEF IInv, TypeOK
<1>4. /\ ~lost[r] /\ counted[r] = NoProfiles /\ profiles[r] = NoProfiles /\ v # None
  BY <1>1 DEF IInv, AccessInv, ReadInv, Reads
<1>5. Dashboard(r)' <=> v.kind = "dashboard"
  BY <1>3, <1>4 DEF Dashboard
<1>6. \A c, e : Grants(c, e)' <=> Grants(c, e)
  BY <1>1 DEF stored, Grants
<1>7. Reads(r)'
  <2>1. CASE v.kind = "dashboard"
    BY <1>1, <1>3, <1>4, <1>5, <1>6, <2>1 DEF Reads
  <2>2. CASE v.kind # "dashboard"
    BY <1>1, <1>3, <1>4, <1>5, <2>2 DEF Reads
  <2> QED
    BY <2>1, <2>2
<1>8. Counts(r)'
  BY <1>1, <1>3, <1>4, <1>5 DEF Counts
<1> QED
  BY <1>1, <1>2, <1>3, <1>7, <1>8, ReadKeeps

LEMMA LoadDashboardKeeps ==
    ASSUME IInv, NEW r \in Readers, LoadDashboard(r) PROVE IInv'
<1>1. PICK c \in classes, e \in exams :
        BeginRead(r, "scope", [kind |-> "dashboard", class |-> c, exam |-> e,
                               scope |-> scope[c]], {})
  BY DEF LoadDashboard
<1> DEFINE v == [kind |-> "dashboard", class |-> c, exam |-> e, scope |-> scope[c]]
<1>2. v \in View /\ c \in Classes
  BY DEF IInv, TypeOK, View
<1>3. v.kind = "dashboard" /\ v.class = c /\ v.exam = e /\ v.scope = scope[c]
  OBVIOUS
<1>4. SubjectOf[c] = SubjectOf[e] /\ scope[c] = "subject" => Grants(c, e)
  BY DEF Grants
<1> HIDE DEF v
<1>5. BeginRead(r, "scope", v, {})
  BY <1>1 DEF v
<1> QED
  BY <1>2, <1>3, <1>4, <1>5, BeginReadKeeps

LEMMA LoadOverviewKeeps ==
    ASSUME IInv, NEW r \in Readers, LoadOverview(r) PROVE IInv'
<1>1. PICK u \in Users :
        BeginRead(r, "visit", [kind |-> "overview", user |-> u],
                  {u} \X {e \in exams : CanOpen(u, SubjectOf[e])})
  BY DEF LoadOverview
<1> DEFINE v == [kind |-> "overview", user |-> u]
           visits == {u} \X {e \in exams : CanOpen(u, SubjectOf[e])}
<1>2. v \in View /\ v.kind # "dashboard"
  BY DEF View
<1>3. visits \in SUBSET (Users \X Exams)
  BY DEF IInv, TypeOK
<1>4. BeginRead(r, "visit", v, visits)
  BY <1>1
<1> HIDE DEF v, visits
<1> QED
  BY <1>2, <1>3, <1>4, BeginReadKeeps

LEMMA LeaveKeeps ==
    ASSUME IInv, NEW r \in Readers, Leave(r) PROVE IInv'
<1>1. /\ rpc' = [rpc EXCEPT ![r] = "idle"] /\ view' = [view EXCEPT ![r] = None]
      /\ todo' = [todo EXCEPT ![r] = {}] /\ lost' = [lost EXCEPT ![r] = FALSE]
      /\ counted' = [counted EXCEPT ![r] = NoProfiles]
      /\ profiles' = [profiles EXCEPT ![r] = NoProfiles]
      /\ UNCHANGED <<stored, editing>>
  BY DEF Leave
<1>2. NoProfiles \in [Users -> Evidence]
  BY DEF NoProfiles, Evidence
<1>3. TypeOK'
  BY <1>1, <1>2 DEF IInv, TypeOK, stored, editing
<1>4. /\ rpc'[r] = "idle" /\ view'[r] = None /\ ~lost'[r]
      /\ counted'[r] = NoProfiles /\ profiles'[r] = NoProfiles
      /\ \A q \in Readers : q # r =>
           /\ rpc'[q] = rpc[q] /\ view'[q] = view[q] /\ todo'[q] = todo[q]
           /\ counted'[q] = counted[q] /\ profiles'[q] = profiles[q] /\ lost'[q] = lost[q]
  BY <1>1 DEF IInv, TypeOK
<1>5. Reads(r)' /\ Counts(r)'
  BY <1>4 DEF Reads, Counts, Dashboard
<1> QED
  BY <1>1, <1>3, <1>4, <1>5, ReadKeeps

\* A step of a dashboard that only goes on, with the visits that are left.
LEMMA GoesKeeps ==
    ASSUME IInv, NEW r \in Readers, NEW visits \in SUBSET (Users \X Exams),
           NEW step \in {"cohort", "active", "visit", "shown", "failed"},
           Goes(r, step, visits), rpc[r] # "idle",
           counted' \in [Readers -> [Users -> Evidence]],
           profiles' \in [Readers -> [Users -> Evidence]],
           \A q \in Readers : q # r => counted'[q] = counted[q] /\ profiles'[q] = profiles[q],
           step \in {"cohort", "active"} => Dashboard(r),
           Dashboard(r) => \A p \in visits : p[2] = view[r].exam,
           Dashboard(r) /\ ~lost[r] =>
               /\ step = "cohort" => Grants(view[r].class, view[r].exam)
               /\ step \in {"active", "visit"} => \A p \in visits : CanTake(p[1], p[2])
               /\ step # "failed",
           rpc'[r] = step /\ todo'[r] = visits => Counts(r)'
    PROVE  IInv'
<1>1. /\ rpc' = [rpc EXCEPT ![r] = step] /\ todo' = [todo EXCEPT ![r] = visits]
      /\ UNCHANGED <<stored, editing, view, lost>>
  BY DEF Goes
<1>2. TypeOK'
  BY <1>1 DEF IInv, TypeOK, stored, editing
<1>3. /\ rpc'[r] = step /\ todo'[r] = visits
      /\ \A q \in Readers : q # r => rpc'[q] = rpc[q] /\ todo'[q] = todo[q]
  BY <1>1 DEF IInv, TypeOK
<1>4. /\ \A c, e : Grants(c, e)' <=> Grants(c, e)
      /\ \A u, e : CanTake(u, e)' <=> CanTake(u, e)
  BY <1>1 DEF stored, Grants, CanTake
<1>5. Dashboard(r)' <=> Dashboard(r)
  BY <1>1 DEF Dashboard
<1>6. Reads(r)
  BY DEF IInv, AccessInv, ReadInv
<1>7. Reads(r)'
  BY <1>1, <1>3, <1>4, <1>5, <1>6 DEF Reads
<1> QED
  BY <1>1, <1>2, <1>3, <1>7, ReadKeeps

\* Who is in the scope that was loaded is in that of the class by now, or the
\* exam is lost.
LEMMA LoadScopeKeeps ==
    ASSUME IInv, NEW r \in Readers, LoadScope(r) PROVE IInv'
<1> DEFINE c == view[r].class
           e == view[r].exam
<1>1. CASE ~InScope(r)
  BY <1>1, LeaveKeeps DEF LoadScope
<1>2. CASE InScope(r)
  <2>1. /\ rpc[r] = "scope" /\ Goes(r, "cohort", {}) /\ UNCHANGED <<counted, profiles>>
        /\ Dashboard(r) /\ Reads(r) /\ Counts(r)
    BY <1>2 DEF LoadScope, IInv, AccessInv, ReadInv, Reads
  <2>2. view[r] \in View /\ c \in Classes /\ e \in Exams /\ view[r].scope \in ClassExamScope
    BY <2>1 DEF Reads, View, Dashboard
  <2>3. ASSUME ~lost[r] PROVE Grants(c, e)
    <3>1. CASE view[r].scope = "subject"
      BY <1>2, <2>1, <2>3, <3>1 DEF Reads, InScope
    <3>2. CASE view[r].scope = "selected"
      <4>1. e \in picked[c]
        BY <1>2, <3>2 DEF InScope
      <4>2. c \in classes
        BY <2>2, <4>1 DEF IInv, AccessInv, RowsInv
      <4> QED
        BY <4>1, <4>2 DEF IInv, AccessInv, ScopeConsistent, Grants
    <3> QED
      BY <2>2, <3>1, <3>2 DEF ClassExamScope
  <2>4. ASSUME rpc'[r] = "cohort" PROVE Counts(r)'
    BY <2>1, <2>4 DEF Counts, Dashboard, Goes
  <2> QED
    BY <2>1, <2>3, <2>4, GoesKeeps DEF IInv, TypeOK
<1> QED
  BY <1>1, <1>2

LEMMA LoadCohortKeeps ==
    ASSUME IInv, NEW r \in Readers, LoadCohort(r) PROVE IInv'
<1> DEFINE c == view[r].class
           e == view[r].exam
           visits == {u \in Users : member[c][u] = "member"} \X {e}
<1>1. /\ rpc[r] = "cohort" /\ Goes(r, "active", visits) /\ UNCHANGED <<counted, profiles>>
      /\ Dashboard(r) /\ Reads(r) /\ Counts(r)
  BY DEF LoadCohort, IInv, AccessInv, ReadInv, Reads
<1>2. c \in Classes /\ e \in Exams
  BY <1>1 DEF Reads, View, Dashboard
<1>3. visits \in SUBSET (Users \X Exams)
  BY <1>2
<1>4. \A p \in visits : p[1] \in Users /\ member[c][p[1]] = "member" /\ p[2] = e
  OBVIOUS
<1>5. ASSUME ~lost[r] PROVE \A p \in visits : CanTake(p[1], p[2])
  <2>1. Grants(c, e)
    BY <1>1, <1>5 DEF Reads
  <2> QED
    BY <1>2, <1>4, <2>1 DEF CanTake, Grants
<1>6. ASSUME rpc'[r] = "active" PROVE Counts(r)'
  BY <1>1, <1>6 DEF Counts, Dashboard, Goes
<1> HIDE DEF visits
<1> QED
  BY <1>1, <1>3, <1>4, <1>5, <1>6, GoesKeeps DEF IInv, TypeOK

\* Who is counted is to be visited, with the evidence that there is now.
LEMMA LoadActiveKeeps ==
    ASSUME IInv, NEW r \in Readers, LoadActive(r) PROVE IInv'
<1> DEFINE e == view[r].exam
           visits == {p \in todo[r] : record[p[1]][p[2]] # None}
           count == [u \in Users |-> IF u \in {p[1] : p \in visits} THEN record[u][e] ELSE None]
<1>1. /\ rpc[r] = "active" /\ Goes(r, "visit", visits)
      /\ counted' = [counted EXCEPT ![r] = count] /\ UNCHANGED profiles
      /\ Dashboard(r) /\ Reads(r) /\ Counts(r)
  BY DEF LoadActive, IInv, AccessInv, ReadInv, Reads
<1>2. visits \subseteq todo[r] /\ visits \in SUBSET (Users \X Exams) /\ e \in Exams
  BY <1>1 DEF IInv, TypeOK, Reads, View, Dashboard
<1>3. \A p \in visits : p = <<p[1], e>> /\ p[1] \in Users /\ record[p[1]][e] # None
  BY <1>1, <1>2 DEF Reads
<1>4. count \in [Users -> Evidence]
  BY <1>2 DEF IInv, TypeOK, Evidence
<1>5. /\ counted' \in [Readers -> [Users -> Evidence]] /\ counted'[r] = count
      /\ \A q \in Readers : q # r => counted'[q] = counted[q]
  BY <1>1, <1>4 DEF IInv, TypeOK
<1>6. \A u \in Users :
        \/ <<u, e>> \in visits /\ count[u] = record[u][e] /\ record[u][e] # None
        \/ <<u, e>> \notin visits /\ count[u] = None
  <2> SUFFICES ASSUME NEW u \in Users
               PROVE  \/ <<u, e>> \in visits /\ count[u] = record[u][e] /\ record[u][e] # None
                      \/ <<u, e>> \notin visits /\ count[u] = None
    OBVIOUS
  <2>1. u \in {p[1] : p \in visits} <=> <<u, e>> \in visits
    <3>1. ASSUME NEW p \in visits, p[1] = u PROVE <<u, e>> \in visits
      BY <1>3, <3>1
    <3>2. <<u, e>>[1] = u
      OBVIOUS
    <3> HIDE DEF visits
    <3> QED
      BY <3>1, <3>2
  <2>2. <<u, e>> \in visits => record[u][e] # None
    OBVIOUS
  <2> HIDE DEF visits
  <2> QED
    BY <2>1, <2>2
<1>7. \A u \in Users : profiles[r][u] = None
  BY <1>1 DEF Counts, NoProfiles
<1> HIDE DEF visits, count
<1>8. ASSUME rpc'[r] = "visit", todo'[r] = visits PROVE Counts(r)'
  BY <1>1, <1>5, <1>6, <1>7, <1>8 DEF Counts, Dashboard, Goes, Covers, stored
<1> QED
  BY <1>1, <1>2, <1>5, <1>8, GoesKeeps DEF IInv, TypeOK, Reads

\* Whoever may take the exam gets a profile from what there is; somebody who may
\* not has lost it.
LEMMA VisitKeeps ==
    ASSUME IInv, NEW r \in Readers, Visit(r) PROVE IInv'
<1>1. rpc[r] = "visit" /\ UNCHANGED counted /\ Reads(r) /\ Counts(r)
  BY DEF Visit, IInv, AccessInv, ReadInv
<1>2. PICK p \in todo[r] :
        \/ /\ CanTake(p[1], p[2])
           /\ Goes(r, "visit", todo[r] \ {p}) /\ profiles' = Profiles(r, p)
        \/ /\ ~CanTake(p[1], p[2])
           /\ Goes(r, "failed", {}) /\ UNCHANGED profiles
  BY DEF Visit
<1>3. /\ p \in Users \X Exams /\ p[1] \in Users /\ p[2] \in Exams /\ p = <<p[1], p[2]>>
      /\ todo[r] \in SUBSET (Users \X Exams)
  BY DEF IInv, TypeOK
<1>4. CASE ~CanTake(p[1], p[2])
  <2>1. Goes(r, "failed", {}) /\ UNCHANGED profiles
    BY <1>2, <1>4
  <2>2. Dashboard(r) => lost[r]
    BY <1>1, <1>4 DEF Reads, IInv, TypeOK
  <2>3. ASSUME rpc'[r] = "failed" PROVE Counts(r)'
    BY <2>3 DEF Counts
  <2> QED
    BY <1>1, <2>1, <2>2, <2>3, GoesKeeps DEF IInv, TypeOK
<1>5. CASE CanTake(p[1], p[2])
  <2> DEFINE u == p[1]
             e == p[2]
             rest == todo[r] \ {p}
  <2>1. Goes(r, "visit", rest) /\ profiles' = [profiles EXCEPT ![r][u] = record[u][e]]
    BY <1>2, <1>5 DEF Profiles
  <2>2. record[u][e] \in Evidence /\ e \in exams
    BY <1>3, <1>5 DEF IInv, TypeOK, CanTake
  <2>3. /\ profiles' \in [Readers -> [Users -> Evidence]] /\ profiles'[r][u] = record[u][e]
        /\ \A q \in Readers : q # r => profiles'[q] = profiles[q]
        /\ \A v \in Users : v # u => profiles'[r][v] = profiles[r][v]
    BY <1>3, <2>1, <2>2 DEF IInv, TypeOK
  <2>4. Dashboard(r) => e = view[r].exam /\ \A x \in rest : x[2] = view[r].exam
    BY <1>1 DEF Reads
  <2>5. \A x \in rest : x \in todo[r]
    OBVIOUS
  <2>6. \A v \in Users : <<v, e>> \in rest <=> (v # u /\ <<v, e>> \in todo[r])
    BY <1>3
  <2> HIDE DEF rest
  <2>7. ASSUME rpc'[r] = "visit", todo'[r] = rest PROVE Counts(r)'
    <3> SUFFICES ASSUME Dashboard(r) PROVE Counts(r)'
      BY <2>1 DEF Counts, Dashboard, Goes
    <3>1. /\ e = view[r].exam /\ UNCHANGED <<view, exams, record, counted>>
      BY <1>1, <2>1, <2>4 DEF Goes, stored
    <3>2. ASSUME NEW v \in Users
          PROVE  /\ counted[r][v] = None => profiles'[r][v] = None /\ <<v, e>> \notin rest
                 /\ counted[r][v] # None =>
                       IF <<v, e>> \in rest THEN Covers(record[v][e], counted[r][v])
                       ELSE Covers(profiles'[r][v], counted[r][v])
      <4>1. /\ counted[r][v] = None => profiles[r][v] = None /\ <<v, e>> \notin todo[r]
            /\ counted[r][v] # None =>
                  IF <<v, e>> \in todo[r] THEN Covers(record[v][e], counted[r][v])
                  ELSE Covers(profiles[r][v], counted[r][v])
        BY <1>1, <2>2, <3>1 DEF Counts
      <4>2. CASE v # u
        BY <2>3, <2>6, <4>1, <4>2
      <4>3. CASE v = u
        <5>1. <<v, e>> \in todo[r] /\ <<v, e>> \notin rest
          BY <1>3, <2>6, <4>3
        <5> QED
          BY <2>3, <4>1, <4>3, <5>1
      <4> QED
        BY <4>2, <4>3
    <3> HIDE DEF e, u
    <3> QED
      BY <2>7, <3>1, <3>2 DEF Counts
  <2>8. Dashboard(r) /\ ~lost[r] => \A x \in rest : CanTake(x[1], x[2])
    BY <1>1, <2>5 DEF Reads
  <2>9. rest \in SUBSET (Users \X Exams)
    BY <1>3, <2>5
  <2> QED
    BY <1>1, <2>1, <2>3, <2>4, <2>7, <2>8, <2>9, GoesKeeps DEF IInv, TypeOK
<1> QED
  BY <1>2, <1>4, <1>5

LEMMA AnswerKeeps ==
    ASSUME IInv, NEW r \in Readers, Answer(r) \/ Done(r) PROVE IInv'
<1>1. CASE Answer(r)
  <2>1. /\ rpc[r] = "visit" /\ todo[r] = {} /\ Goes(r, "shown", {})
        /\ UNCHANGED <<counted, profiles>> /\ Counts(r)
    BY <1>1 DEF Answer, IInv, AccessInv, ReadInv
  <2>2. ASSUME rpc'[r] = "shown", todo'[r] = {} PROVE Counts(r)'
    BY <2>1, <2>2 DEF Counts, Dashboard, Goes, stored
  <2> QED
    BY <2>1, <2>2, GoesKeeps DEF IInv, TypeOK
<1>2. CASE Done(r)
  BY <1>2, LeaveKeeps DEF Done
<1> QED
  BY <1>1, <1>2

LEMMA StutterKeeps == IInv /\ UNCHANGED vars => IInv'
BY DEF IInv, AccessInv, TypeOK, RowsInv, ScopeConsistent, EditInv, ReadInv, Reads, Counts,
       Dashboard, CanTake, Grants, vars, stored, editing, reading, cohort

-----------------------------------------------------------------------------
(* The invariant.                                                          *)

LEMMA InitInv == Init => IInv
<1> SUFFICES ASSUME Init PROVE IInv
  OBVIOUS
<1>1. TypeOK
  <2>1. None \in Evidence
    BY DEF Evidence
  <2>2. /\ member \in [Classes -> [Users -> {"none", "owner", "member"}]]
        /\ record \in [Users -> [Exams -> Evidence]]
        /\ profiles \in [Readers -> [Users -> Evidence]]
        /\ counted \in [Readers -> [Users -> Evidence]]
    BY <2>1 DEF Init, NoMembers, NoProfiles
  <2>3. /\ epc \in [Editors -> {"idle", "read", "validate", "write", "clear", "insert"}]
        /\ rpc \in [Readers -> {"idle", "scope", "cohort", "active", "visit", "shown",
                                "failed"}]
        /\ scope \in [Classes -> ClassExamScope]
    BY DEF Init, ClassExamScope
  <2> QED
    BY <2>2, <2>3 DEF Init, TypeOK
<1>2. RowsInv /\ ScopeConsistent /\ EditInv
  BY DEF Init, RowsInv, ScopeConsistent, EditInv
<1>3. ReadInv
  BY DEF Init, ReadInv, Reads, Counts, Dashboard
<1> QED
  BY <1>1, <1>2, <1>3 DEF IInv, AccessInv

LEMMA NextKeeps == IInv /\ [Next]_vars => IInv'
BY CreateSubjectKeeps, DeleteSubjectKeeps, CreateExamKeeps, DeleteExamKeeps,
   CreateClassKeeps, DeleteClassKeeps, AddMemberKeeps, RemoveMemberKeeps,
   LearnKeeps, LoadClassKeeps, LoadPickedKeeps, ValidateKeeps, StartDeleteKeeps,
   ClearRowsKeeps, CommitUpdateKeeps, FailUpdateKeeps, LoadDashboardKeeps,
   LoadScopeKeeps, LoadCohortKeeps, LoadActiveKeeps, LoadOverviewKeeps,
   VisitKeeps, AnswerKeeps, StutterKeeps
DEF Next

LEMMA Invariance == Spec => []IInv
BY InitInv, NextKeeps, PTL DEF Spec

\* Rows, updates and readers have their types in every behaviour.
THEOREM TypeCorrect == Spec => []TypeOK
<1>1. IInv => TypeOK
  BY DEF IInv
<1> QED
  BY <1>1, Invariance, PTL

\* update_class, create_class and the cascades: scope and selection of a class
\* agree unless two updates overlapped, and never leave its subject.
THEOREM ScopesAreConsistent == Spec => []ScopeConsistent
<1>1. IInv => ScopeConsistent
  BY DEF IInv, AccessInv
<1> QED
  BY <1>1, Invariance, PTL

\* get_class and accessible_exam_filter grant nothing that list_workspaces,
\* list_classes and list_exams do not lead to.
THEOREM ReachableAreListed == Spec => []ReachableIsListed
<1>1. ASSUME IInv, NEW u \in Users, NEW c \in Classes, CanReadClass(u, c)
      PROVE  SubjectOf[c] \in ListedSubjects(u) /\ c \in ListedClasses(u, SubjectOf[c])
  BY <1>1 DEF IInv, AccessInv, TypeOK, RowsInv, CanReadClass, CanOpen,
              ListedSubjects, ListedClasses
<1>2. ASSUME IInv, NEW u \in Users, NEW e \in Exams, CanTake(u, e)
      PROVE  SubjectOf[e] \in ListedSubjects(u) /\ e \in ListedExams(u, SubjectOf[e])
  <2>1. e \in exams /\ SubjectOf[e] \in subjects /\ SubjectOf[e] \in Subjects
    BY <1>2 DEF IInv, AccessInv, RowsInv, CanTake
  <2>2. CanOpen(u, SubjectOf[e])
    BY <1>2, <2>1 DEF CanTake, CanOpen, Grants, IInv, TypeOK
  <2> QED
    BY <1>2, <2>1, <2>2 DEF ListedSubjects, ListedExams
<1>3. IInv => ReachableIsListed
  BY <1>1, <1>2 DEF ReachableIsListed
<1> QED
  BY <1>3, Invariance, PTL

\* class_dashboard profiles exactly the learners that it has counted as active,
\* and none with less evidence, whatever happens between its statements.
THEOREM DashboardsAgree == Spec => []DashboardAgrees
<1>1. ASSUME IInv, NEW r \in Readers, Dashboard(r), rpc[r] = "shown", NEW u \in Users
      PROVE  /\ profiles[r][u] = None <=> counted[r][u] = None
             /\ counted[r][u] # None => counted[r][u] \subseteq profiles[r][u]
  BY <1>1 DEF IInv, AccessInv, ReadInv, Counts, Covers
<1>2. IInv => DashboardAgrees
  BY <1>1 DEF DashboardAgrees
<1> QED
  BY <1>2, Invariance, PTL

\* class_dashboard fails on a learner only if its class stopped granting the exam
\* or that exam was taken from a learner it had still to visit.
THEOREM DashboardsSurvive == Spec => []DashboardSurvives
<1>1. IInv => DashboardSurvives
  BY DEF IInv, AccessInv, ReadInv, Reads, DashboardSurvives
<1> QED
  BY <1>1, Invariance, PTL

=============================================================================
