----------------------------- MODULE ClassAccess -----------------------------
(***************************************************************************)
(* Subjects (workspaces), exams and classes, who may see what, and what is *)
(* read through it: modules/workspaces/service.py, modules/classes/        *)
(* service.py, the ownership rules of modules/exams/service.py, and the    *)
(* two readers that visit many profiles, class_dashboard and               *)
(* analytics_overview.  Only update_class and the readers take more than   *)
(* one statement to do what they do; every other request is one SELECT and *)
(* one write whose constraints decide again, and one action here.          *)
(***************************************************************************)
CONSTANTS
    Users,       \* active accounts
    Subjects, Exams, Classes,
    Owner,       \* the user who creates a subject, and with it its classes
    SubjectOf,   \* the subject an exam or a class is created in
    Skills,      \* skills of the exams' blueprints
    Learners,    \* whose attempts an instance follows: a bound
    Editors,     \* owner's requests in update_class
    Readers,     \* requests that compute a dashboard or an overview
    None

ASSUME IdentityAssumption ==
    /\ Owner \in [Subjects -> Users]
    /\ SubjectOf \in [Exams \cup Classes -> Subjects]

VARIABLES
    subjects, exams, classes,      \* the rows there are
    scope,                         \* exam_scope of a class
    picked,                        \* class_exams
    member,                        \* class_members: "none", "owner", "member"
    record,                        \* a learner's evidence on an exam
    loose,                         \* history: classes whose rows are not the
                                   \* work of one update on what it had read
    epc, edit, doomed, met,        \* an update: step, what it has read and
                                   \* wants, rows it deletes, overlapped?
    rpc, view, todo,               \* a reader: step, what it reads, visits left,
    counted, profiles,             \* evidence when it was counted, when visited
    lost                           \* history: what it reads was taken from the
                                   \* class, or a visit left from its learner

stored == <<subjects, exams, classes, scope, picked, member, record, loose>>
editing == <<epc, edit, doomed, met>>
cohort == <<rpc, view, todo, counted, profiles>>
reading == <<cohort, lost>>
vars == <<stored, editing, reading>>

ClassExamScope == {"subject", "selected"}

\* Evidence of a learner on an exam: no evaluated attempt, or the blueprint's
\* skills that the evaluated attempts give a mastery for (perhaps none).
Evidence == {None} \cup SUBSET Skills

Edit == [class : Classes, scope : ClassExamScope, ids : SUBSET Exams,
         seen : ClassExamScope, asks : BOOLEAN]

View == [kind : {"dashboard"}, class : Classes, exam : Exams, scope : ClassExamScope]
        \cup [kind : {"overview"}, user : Users]

ASSUME NoneAssumption ==
    None \notin View /\ \A known \in SUBSET Skills : None # known

TypeOK ==
    /\ subjects \in SUBSET Subjects /\ exams \in SUBSET Exams
    /\ classes \in SUBSET Classes /\ loose \in SUBSET Classes
    /\ scope \in [Classes -> ClassExamScope]
    /\ picked \in [Classes -> SUBSET Exams]
    /\ member \in [Classes -> [Users -> {"none", "owner", "member"}]]
    /\ record \in [Users -> [Exams -> Evidence]]
    /\ epc \in [Editors -> {"idle", "read", "validate", "write", "clear", "insert"}]
    /\ edit \in [Editors -> Edit \cup {None}]
    /\ doomed \in [Editors -> SUBSET Exams]
    /\ met \in [Editors -> BOOLEAN]
    /\ rpc \in [Readers -> {"idle", "scope", "cohort", "active", "visit", "shown",
                            "failed"}]
    /\ view \in [Readers -> View \cup {None}]
    /\ todo \in [Readers -> SUBSET (Users \X Exams)]
    /\ counted \in [Readers -> [Users -> Evidence]]
    /\ profiles \in [Readers -> [Users -> Evidence]]
    /\ lost \in [Readers -> BOOLEAN]

NoMembers == [u \in Users |-> "none"]
NoProfiles == [u \in Users |-> None]

Init ==
    /\ subjects = {} /\ exams = {} /\ classes = {} /\ loose = {}
    /\ scope = [c \in Classes |-> "subject"]
    /\ picked = [c \in Classes |-> {}]
    /\ member = [c \in Classes |-> NoMembers]
    /\ record = [u \in Users |-> [e \in Exams |-> None]]
    /\ epc = [r \in Editors |-> "idle"] /\ edit = [r \in Editors |-> None]
    /\ doomed = [r \in Editors |-> {}] /\ met = [r \in Editors |-> FALSE]
    /\ rpc = [r \in Readers |-> "idle"] /\ view = [r \in Readers |-> None]
    /\ todo = [r \in Readers |-> {}] /\ counted = [r \in Readers |-> NoProfiles]
    /\ profiles = [r \in Readers |-> NoProfiles] /\ lost = [r \in Readers |-> FALSE]

-----------------------------------------------------------------------------
(* Who may see what. *)

\* Mutant: memberships of classes do not open the subject.
CanOpen_OwnerOnly(u, s) == s \in subjects /\ u = Owner[s]

\* accessible_workspace_filter: the owner, a workspace member (create_workspace
\* makes its owner one, and there is no other), anybody in one of its classes.
CanOpen(u, s) ==
    /\ s \in subjects
    /\ \/ u = Owner[s]
       \/ \E c \in classes : SubjectOf[c] = s /\ member[c][u] # "none"

\* Mutant: the rows of a selection count for every scope, and nothing else does.
CanTake_RowsOnly(u, e) ==
    /\ e \in exams
    /\ \/ u = Owner[SubjectOf[e]]
       \/ \E c \in classes : member[c][u] # "none" /\ e \in picked[c]

\* The classes through which accessible_exam_filter grants an exam.
Grants(c, e) ==
    /\ c \in classes /\ e \in exams /\ SubjectOf[c] = SubjectOf[e]
    /\ scope[c] = "subject" \/ e \in picked[c]

\* accessible_exam_filter: as it is granted by the rows of this moment.
CanTake(u, e) ==
    /\ e \in exams
    /\ \/ u = Owner[SubjectOf[e]]
       \/ \E c \in Classes : member[c][u] # "none" /\ Grants(c, e)

\* get_class; list_classes has the same test behind get_workspace.
CanReadClass(u, c) ==
    c \in classes /\ (u = Owner[SubjectOf[c]] \/ member[c][u] # "none")

\* list_workspaces, list_classes, list_exams, for one user.
ListedSubjects(u) == {s \in Subjects : CanOpen(u, s)}
ListedClasses(u, s) ==
    {c \in classes : CanOpen(u, s) /\ SubjectOf[c] = s /\ CanReadClass(u, c)}
ListedExams(u, s) ==
    {e \in exams : CanOpen(u, s) /\ SubjectOf[e] = s /\ CanTake(u, e)}

-----------------------------------------------------------------------------
(* One-statement requests, and what they take from the readers. *)

Dashboard(r) == view[r] # None /\ view[r].kind = "dashboard"

\* A class that is read no longer grants the exam, or a learner who is still to
\* be visited may no longer take it through any class.
Loses(r) ==
    /\ rpc[r] \in {"scope", "cohort", "active", "visit"}
    /\ \/ \E p \in todo[r] : CanTake(p[1], p[2]) /\ ~CanTake(p[1], p[2])'
       \/ \E c \in Classes, e \in Exams :
            /\ Dashboard(r) /\ view[r].class = c /\ view[r].exam = e
            /\ Grants(c, e) /\ ~Grants(c, e)'

Lost == lost' = [r \in Readers |-> lost[r] \/ Loses(r)]

Stored(changes) ==
    /\ changes
    /\ Lost
    /\ UNCHANGED <<editing, cohort>>

\* No id is given twice.
Unused(x) ==
    /\ \A r \in Editors : epc[r] # "idle" => x \notin {edit[r].class} \cup edit[r].ids
    /\ \A r \in Readers :
        /\ Dashboard(r) => x \notin {view[r].class, view[r].exam}
        /\ \A p \in todo[r] : p[2] # x

\* The rows that an update's DELETE has taken are locked until its commit.
LocksRow(r, c, e) ==
    epc[r] = "insert" /\ edit[r].class = c /\ e \in doomed[r]

CreateSubject(s) ==
    /\ s \notin subjects
    /\ Stored(/\ subjects' = subjects \cup {s}
              /\ UNCHANGED <<exams, classes, scope, picked, member, record, loose>>)

\* What deleting an exam, a class, a subject takes with it: ON DELETE CASCADE.
RemoveExams(gone) ==
    /\ exams' = exams \ gone
    /\ picked' = [c \in Classes |-> picked[c] \ gone]
    /\ record' = [u \in Users |-> [e \in Exams |-> IF e \in gone THEN None ELSE record[u][e]]]

RemoveClasses(gone) ==
    /\ classes' = classes \ gone
    /\ member' = [c \in Classes |-> IF c \in gone THEN NoMembers ELSE member[c]]
    /\ loose' = loose \ gone

Unlocked(es, cs) ==
    \A r \in Editors, c \in Classes, e \in Exams :
        c \in cs \/ e \in es => ~LocksRow(r, c, e)

DeleteSubject(s) ==
    LET es == {e \in Exams : SubjectOf[e] = s}
        cs == {c \in Classes : SubjectOf[c] = s}
    IN /\ s \in subjects /\ Unlocked(es, cs)
       /\ Stored(/\ subjects' = subjects \ {s}
                 /\ RemoveExams(es) /\ RemoveClasses(cs)
                 /\ UNCHANGED scope)

CreateExam(e) ==
    /\ e \notin exams /\ SubjectOf[e] \in subjects /\ Unused(e)
    /\ Stored(/\ exams' = exams \cup {e}
              /\ UNCHANGED <<subjects, classes, scope, picked, member, record, loose>>)

DeleteExam(e) ==
    /\ e \in exams /\ Unlocked({e}, {})
    /\ Stored(/\ RemoveExams({e})
              /\ loose' = loose \cup {c \in classes : picked[c] = {e}}
              /\ UNCHANGED <<subjects, classes, scope, member>>)

\* _validate_exam_scope.  InvalidClassScopeError is answered with 422.
ValidScope(s, sc, ids) ==
    \/ sc = "subject" /\ ids = {}
    \/ sc = "selected" /\ ids # {} /\ ids \subseteq {e \in exams : SubjectOf[e] = s}

CreateClass(c) ==
    /\ c \notin classes /\ SubjectOf[c] \in subjects /\ Unused(c)
    /\ \E sc \in ClassExamScope, ids \in SUBSET Exams :
        /\ ValidScope(SubjectOf[c], sc, ids)
        /\ Stored(/\ classes' = classes \cup {c}
                  /\ scope' = [scope EXCEPT ![c] = sc]
                  /\ picked' = [picked EXCEPT ![c] = ids]
                  /\ member' = [member EXCEPT ![c][Owner[SubjectOf[c]]] = "owner"]
                  /\ UNCHANGED <<subjects, exams, record, loose>>)

DeleteClass(c) ==
    /\ c \in classes /\ Unlocked({}, {c})
    /\ Stored(/\ RemoveClasses({c})
              /\ picked' = [picked EXCEPT ![c] = {}]
              /\ UNCHANGED <<subjects, exams, scope, record>>)

\* Mutant: the membership is stored without its role.
AddMember_NoRole(c, u) ==
    /\ c \in classes /\ member[c][u] = "none"
    /\ Stored(/\ member' = [member EXCEPT ![c][u] = None]
              /\ UNCHANGED <<subjects, exams, classes, scope, picked, record, loose>>)

AddMember(c, u) ==
    /\ c \in classes /\ member[c][u] = "none"
    /\ Stored(/\ member' = [member EXCEPT ![c][u] = "member"]
              /\ UNCHANGED <<subjects, exams, classes, scope, picked, record, loose>>)

RemoveMember(c, u) ==
    /\ c \in classes /\ member[c][u] = "member"
    /\ Stored(/\ member' = [member EXCEPT ![c][u] = "none"]
              /\ UNCHANGED <<subjects, exams, classes, scope, picked, record, loose>>)

\* A learner's attempt is evaluated; what it shows is skills.
Learn(u, e) ==
    /\ u \in Learners /\ CanTake(u, e)
    /\ \E new \in SUBSET Skills :
        Stored(/\ record' = [record EXCEPT ![u][e] = new \cup (IF @ = None THEN {} ELSE @)]
               /\ record' # record
               /\ UNCHANGED <<subjects, exams, classes, scope, picked, member, loose>>)

-----------------------------------------------------------------------------
(* update_class. *)

Edited(r, changes) == changes /\ UNCHANGED <<stored, reading>>
Step(r, step) == epc' = [epc EXCEPT ![r] = step]

\* The end of an update: nothing of it is left.
Rest(r) ==
    /\ Step(r, "idle")
    /\ edit' = [edit EXCEPT ![r] = None]
    /\ doomed' = [doomed EXCEPT ![r] = {}]

\* The class is read; the payload may name a scope, exams, and other fields.
LoadClass(r) ==
    /\ epc[r] = "idle"
    /\ \E c \in classes, sc \in ClassExamScope, ids \in SUBSET Exams, asks \in BOOLEAN :
        /\ asks \/ ids = {}
        /\ Edited(r, /\ edit' = [edit EXCEPT ![r] =
                            [class |-> c, scope |-> sc, ids |-> ids, seen |-> scope[c],
                             asks |-> asks]]
                     /\ Step(r, "read") /\ UNCHANGED <<doomed, met>>)

\* Without exam_ids in the payload the present ones are asked for again.
LoadPicked(r) ==
    LET ids == IF edit[r].asks THEN edit[r].ids ELSE picked[edit[r].class]
    IN /\ epc[r] = "read"
       /\ Edited(r, /\ edit' = [edit EXCEPT ![r].ids = ids]
                    /\ Step(r, "validate") /\ UNCHANGED <<doomed, met>>)

Validate(r) ==
    /\ epc[r] = "validate"
    /\ ValidScope(SubjectOf[edit[r].class], edit[r].scope, edit[r].ids)
    /\ Edited(r, Step(r, "write") /\ UNCHANGED <<edit, doomed, met>>)

\* autoflush is off: the DELETE comes before any changed field is written, and
\* takes the rows that are committed when it starts.
StartDelete(r) ==
    /\ epc[r] = "write"
    /\ Edited(r, /\ doomed' = [doomed EXCEPT ![r] = picked[edit[r].class]]
                 /\ Step(r, "clear") /\ UNCHANGED <<edit, met>>)

\* It waits for whoever deletes one of them already.
ClearRows(r) ==
    /\ epc[r] = "clear"
    /\ \A q \in Editors \ {r}, e \in doomed[r] : ~LocksRow(q, edit[r].class, e)
    /\ Edited(r, Step(r, "insert") /\ UNCHANGED <<edit, doomed, met>>)

\* Foreign keys and the primary key of the new rows.
Insertable(r) ==
    /\ edit[r].class \in classes /\ edit[r].ids \subseteq exams
    /\ edit[r].ids \cap (picked[edit[r].class] \ doomed[r]) = {}

\* Mutant: the new rows are added to those that are there.
CommitUpdate_KeepsRows(r) ==
    /\ epc[r] = "insert" /\ edit[r].class \in classes
    /\ Rest(r)
    /\ picked' = [picked EXCEPT ![edit[r].class] = @ \cup edit[r].ids]
    /\ scope' = [scope EXCEPT ![edit[r].class] = edit[r].scope]
    /\ UNCHANGED <<subjects, exams, classes, member, record, loose, met, cohort>>
    /\ Lost

\* The flush and the commit: the class, whose exam_scope is written only if it
\* differs from what was read, and the rows.  A DELETE that waited for this one
\* finds its rows gone, also those that are there again.
CommitUpdate(r) ==
    LET c == edit[r].class
    IN /\ epc[r] = "insert" /\ Insertable(r)
       /\ Step(r, "idle") /\ edit' = [edit EXCEPT ![r] = None]
       /\ doomed' = [q \in Editors |->
                        IF q = r THEN {}
                        ELSE IF epc[q] = "clear" /\ edit[q].class = c THEN doomed[q] \ doomed[r]
                        ELSE doomed[q]]
       /\ picked' = [picked EXCEPT ![c] = (@ \ doomed[r]) \cup edit[r].ids]
       /\ scope' = [scope EXCEPT ![c] = IF edit[r].scope # edit[r].seen
                                        THEN edit[r].scope ELSE @]
       /\ met' = [q \in Editors |->
                    q # r /\ (met[q] \/ (epc[q] # "idle" /\ edit[q].class = c))]
       /\ loose' = IF met[r] THEN loose \cup {c} ELSE loose \ {c}
       /\ UNCHANGED <<subjects, exams, classes, member, record, cohort>>
       /\ Lost

\* The scope is invalid, a constraint fails, the class is gone, or the request
\* dies: rolled back.
FailUpdate(r) ==
    /\ epc[r] # "idle"
    /\ Edited(r, Rest(r) /\ met' = [met EXCEPT ![r] = FALSE])

-----------------------------------------------------------------------------
(* The readers: a dashboard of a class for its owner, on one exam (with more *)
(* than one in scope and none asked for it is suppressed at once), and the  *)
(* overview of a user over all exams.  Every visit of a profile begins with *)
(* get_exam, as the learner whose profile it is.                            *)

BeginRead(r, step, v, visits) ==
    /\ rpc[r] = "idle"
    /\ rpc' = [rpc EXCEPT ![r] = step] /\ view' = [view EXCEPT ![r] = v]
    /\ todo' = [todo EXCEPT ![r] = visits]
    /\ UNCHANGED <<stored, editing, counted, profiles, lost>>

Goes(r, step, visits) ==
    /\ rpc' = [rpc EXCEPT ![r] = step] /\ todo' = [todo EXCEPT ![r] = visits]
    /\ UNCHANGED <<stored, editing, view, lost>>

\* The end of a reader: nothing of it is left.
Leave(r) ==
    /\ rpc' = [rpc EXCEPT ![r] = "idle"] /\ view' = [view EXCEPT ![r] = None]
    /\ todo' = [todo EXCEPT ![r] = {}] /\ lost' = [lost EXCEPT ![r] = FALSE]
    /\ counted' = [counted EXCEPT ![r] = NoProfiles]
    /\ profiles' = [profiles EXCEPT ![r] = NoProfiles]
    /\ UNCHANGED <<stored, editing>>

\* get_owned_class.
LoadDashboard(r) ==
    \E c \in classes, e \in exams :
        BeginRead(r, "scope", [kind |-> "dashboard", class |-> c, exam |-> e,
                               scope |-> scope[c]], {})

\* _scoped_exam_ids, by the class as it was loaded: outside it is refused.
InScope(r) ==
    view[r].exam \in IF view[r].scope = "selected" THEN picked[view[r].class]
                     ELSE {e \in exams : SubjectOf[e] = SubjectOf[view[r].class]}

LoadScope(r) ==
    /\ rpc[r] = "scope"
    /\ \/ InScope(r) /\ Goes(r, "cohort", {}) /\ UNCHANGED <<counted, profiles>>
       \/ ~InScope(r) /\ Leave(r)

LoadCohort(r) ==
    /\ rpc[r] = "cohort"
    /\ Goes(r, "active", {u \in Users : member[view[r].class][u] = "member"} \X {view[r].exam})
    /\ UNCHANGED <<counted, profiles>>

\* The evaluated attempts are loaded, and with them active_learners and
\* total_attempts; learners without one are left out.
LoadActive(r) ==
    LET active == {p \in todo[r] : record[p[1]][p[2]] # None}
    IN /\ rpc[r] = "active"
       /\ Goes(r, "visit", active)
       /\ counted' = [counted EXCEPT ![r] =
                        [u \in Users |-> IF u \in {p[1] : p \in active}
                                         THEN record[u][view[r].exam] ELSE None]]
       /\ UNCHANGED profiles

\* analytics_overview: the exams of every subject that the user may open.
LoadOverview(r) ==
    \E u \in Users :
        BeginRead(r, "visit", [kind |-> "overview", user |-> u],
                  {u} \X {e \in exams : CanOpen(u, SubjectOf[e])})

\* The profile of one learner, from the evidence that there is by now.
Profiles(r, p) == [profiles EXCEPT ![r][p[1]] = record[p[1]][p[2]]]

\* Mutant: the exam is not looked up again for the learner.
Visit_Unchecked(r) ==
    /\ rpc[r] = "visit"
    /\ \E p \in todo[r] :
        Goes(r, "visit", todo[r] \ {p}) /\ profiles' = Profiles(r, p) /\ UNCHANGED counted

\* exam_analytics for one learner and exam.  ExamNotFoundError is caught by
\* neither route: the whole answer fails.
Visit(r) ==
    /\ rpc[r] = "visit" /\ UNCHANGED counted
    /\ \E p \in todo[r] :
        \/ /\ CanTake(p[1], p[2])
           /\ Goes(r, "visit", todo[r] \ {p}) /\ profiles' = Profiles(r, p)
        \/ /\ ~CanTake(p[1], p[2])
           /\ Goes(r, "failed", {}) /\ UNCHANGED profiles

Answer(r) ==
    /\ rpc[r] = "visit" /\ todo[r] = {}
    /\ Goes(r, "shown", {}) /\ UNCHANGED <<counted, profiles>>

Done(r) == rpc[r] \in {"shown", "failed"} /\ Leave(r)

Next ==
    \/ \E s \in Subjects : CreateSubject(s) \/ DeleteSubject(s)
    \/ \E e \in Exams : CreateExam(e) \/ DeleteExam(e)
    \/ \E c \in Classes :
        \/ CreateClass(c) \/ DeleteClass(c)
        \/ \E u \in Users : AddMember(c, u) \/ RemoveMember(c, u)
    \/ \E u \in Users, e \in Exams : Learn(u, e)
    \/ \E r \in Editors :
        \/ LoadClass(r) \/ LoadPicked(r) \/ Validate(r) \/ StartDelete(r) \/ ClearRows(r)
        \/ CommitUpdate(r) \/ FailUpdate(r)
    \/ \E r \in Readers :
        \/ LoadDashboard(r) \/ LoadScope(r) \/ LoadCohort(r) \/ LoadActive(r)
        \/ LoadOverview(r) \/ Visit(r) \/ Answer(r) \/ Done(r)

Spec == Init /\ [][Next]_vars

-----------------------------------------------------------------------------
(* What must hold. *)

\* A class for the whole subject has no selection and a class for selected
\* exams has one, except where two updates overlapped or the last selected exam
\* was deleted: update_class replaces rows without a lock on the class, so a
\* rename may wipe a selection committed meanwhile, or two selections merge.
\* Even then a class never selects an exam of another subject, or one that is
\* gone, and its owner is a member of it with that role.
ScopeConsistent ==
    \A c \in classes :
        /\ c \notin loose => (scope[c] = "subject" <=> picked[c] = {})
        /\ picked[c] \subseteq {e \in exams : SubjectOf[e] = SubjectOf[c]}
        /\ \A u \in Users : member[c][u] = "owner" <=> u = Owner[SubjectOf[c]]

\* What can be reached by its id is also listed, on the way from the subjects:
\* the three predicates grant the same rows, and nothing outlives its subject.
ReachableIsListed ==
    \A u \in Users :
        /\ \A c \in Classes : CanReadClass(u, c) =>
               SubjectOf[c] \in ListedSubjects(u) /\ c \in ListedClasses(u, SubjectOf[c])
        /\ \A e \in Exams : CanTake(u, e) =>
               SubjectOf[e] \in ListedSubjects(u) /\ e \in ListedExams(u, SubjectOf[e])

\* active_learners and total_attempts of a dashboard come from an earlier
\* statement than the profiles behind eligible_learners, the median and the
\* skills.  They agree all the same: the profiles are those of the learners
\* counted, none is missing, and each shows at least what was counted, although
\* learners join, leave and go on while it is made and the exam may be deleted.
DashboardAgrees ==
    \A r \in Readers : Dashboard(r) /\ rpc[r] = "shown" =>
        \A u \in Users :
            /\ profiles[r][u] = None <=> counted[r][u] = None
            /\ counted[r][u] # None => counted[r][u] \subseteq profiles[r][u]

\* The scope a dashboard computes is the scope its learners are granted, so a
\* learner who joins, an attempt, a new exam, a wider selection, or the removal
\* of somebody whom another class lets in never fails it: it fails only if the
\* class stopped granting the exam, or a learner still to be visited lost it.
DashboardSurvives ==
    \A r \in Readers : Dashboard(r) /\ rpc[r] = "failed" => lost[r]

\* The overview of a user answers, unless an exam was taken from the user while
\* it was made.
OverviewAnswers ==
    \A r \in Readers : rpc[r] = "failed" => lost[r]

-----------------------------------------------------------------------------
(* Why it holds: what is true of the rows, and what an update and a reader *)
(* may rely on from step to step.                                          *)

RowsInv ==
    /\ \A c \in classes : SubjectOf[c] \in subjects
    /\ \A e \in exams : SubjectOf[e] \in subjects
    /\ \A c \in Classes \ classes : member[c] = NoMembers /\ picked[c] = {}

\* While no other update of the class commits, an update knows its scope and
\* deletes all of its rows.
EditInv ==
    \A r \in Editors : epc[r] # "idle" =>
        /\ edit[r] \in Edit
        /\ epc[r] \in {"write", "clear", "insert"} =>
              /\ edit[r].scope = "subject" <=> edit[r].ids = {}
              /\ \A e \in edit[r].ids : SubjectOf[e] = SubjectOf[edit[r].class]
        /\ ~met[r] => edit[r].seen = scope[edit[r].class]
        /\ ~met[r] /\ epc[r] \in {"clear", "insert"} =>
              picked[edit[r].class] \subseteq doomed[r]

\* A reader at work, and while nothing it needs is lost: its class grants the
\* exam, and those it has to visit may take it.
Reads(r) ==
    /\ rpc[r] = "idle" => view[r] = None /\ ~lost[r] /\ counted[r] = NoProfiles
                          /\ profiles[r] = NoProfiles
    /\ rpc[r] # "idle" => view[r] \in View
    /\ rpc[r] \in {"scope", "cohort", "active"} => Dashboard(r)
    /\ Dashboard(r) => \A p \in todo[r] : p[2] = view[r].exam
    /\ Dashboard(r) /\ ~lost[r] =>
          /\ rpc[r] = "scope" /\ SubjectOf[view[r].class] = SubjectOf[view[r].exam]
                /\ view[r].scope = "subject" => Grants(view[r].class, view[r].exam)
          /\ rpc[r] = "cohort" => Grants(view[r].class, view[r].exam)
          /\ rpc[r] \in {"active", "visit"} => \A p \in todo[r] : CanTake(p[1], p[2])
          /\ rpc[r] # "failed"

\* Evidence that there is, and that is at least what has been counted.
Covers(evidence, count) == evidence # None /\ count \subseteq evidence

\* Whoever is counted is still to be visited, and has that evidence unless the
\* exam is gone, or has been visited.
Counts(r) ==
    Dashboard(r) =>
        /\ rpc[r] \in {"scope", "cohort", "active"} =>
              counted[r] = NoProfiles /\ profiles[r] = NoProfiles
        /\ rpc[r] = "shown" => todo[r] = {}
        /\ rpc[r] \in {"visit", "shown"} => \A u \in Users :
              /\ counted[r][u] = None => profiles[r][u] = None /\ <<u, view[r].exam>> \notin todo[r]
              /\ counted[r][u] # None /\ <<u, view[r].exam>> \in todo[r] /\ view[r].exam \in exams
                    => Covers(record[u][view[r].exam], counted[r][u])
              /\ counted[r][u] # None /\ <<u, view[r].exam>> \notin todo[r]
                    => Covers(profiles[r][u], counted[r][u])

ReadInv == \A r \in Readers : Reads(r) /\ Counts(r)

AccessInv == RowsInv /\ ScopeConsistent /\ EditInv /\ ReadInv

==============================================================================
