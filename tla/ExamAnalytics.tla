---------------------------- MODULE ExamAnalytics ----------------------------
(***************************************************************************)
(* The stored analytics of one exam (modules/analytics/service.py): the    *)
(* observations derived from evaluated attempts, the exam's taxonomy of    *)
(* skills, and the snapshots of a user's profile.  A submit ends by        *)
(* rebuilding them in its own transaction (modules/exams/attempt_service.  *)
(* py:849); a rebuild can also be asked for, and a profile read, at any    *)
(* time.                                                                   *)
(*                                                                         *)
(* Each SELECT is one action and sees what is committed and what its own   *)
(* transaction has written.  autoflush is off: the observations are        *)
(* flushed by materialize_attempt_observations, everything else with the   *)
(* commit.                                                                 *)
(***************************************************************************)
EXTENDS Naturals, FiniteSets

CONSTANTS
  Users, Attempts,
  OwnerOf,        \* the user of an attempt
  Old,            \* attempts evaluated before observations were stored
  Skills,
  Versions,       \* configuration versions, each approved with its blueprint
  SkillsOf,       \* the skills of a version's blueprint
  Requests,       \* HTTP requests that can be in flight together
  None

ASSUME AttemptsAssumption ==
  /\ OwnerOf \in [Attempts -> Users] /\ Old \subseteq Attempts
  /\ None \notin Attempts \cup Users \cup Versions
ASSUME VersionsAssumption == Versions \subseteq Nat
ASSUME SkillsAssumption == SkillsOf \in [Versions -> SUBSET Skills]

VARIABLES
  evaluated,     \* attempts committed as EVALUATED
  after,         \* after[a]: the attempts with an earlier submitted_at
  observed,      \* attempts with their rows in skill_observations
  taxonomy,      \* blueprint_versions of a skill's entry; {} is no entry
  snapshots,     \* rows of analytics_snapshots
  version,       \* the exam's configuration and approved blueprint
  pc, req,       \* a request: step, [op, user, attempt]
  mine,          \* attempts it has listed, and then those without observations
  flushed,       \* attempts whose observations it has flushed
  asked,         \* the exam's version as the session has loaded it
  entries,       \* the entries it found, for the skills of the blueprint it read
  revision,      \* observations it has hashed
  latest,        \* attempts[-1]
  profile,       \* the profile: attempts it lists, and covers by observations
  met            \* another submit or rebuild, or a review, during this one

stored == <<evaluated, after, observed, taxonomy, snapshots, version>>
session == <<pc, req, mine, flushed, asked, entries, revision, latest, profile>>
vars == <<stored, session, met>>

Idle == [op |-> "none"]
Request == [op : {"grade", "submit"}, user : Users, attempt : Attempts]
           \cup [op : {"rebuild", "read"}, user : Users]
NoEntries == [k \in {} |-> {}]
NoProfile == [lists |-> {}, covers |-> {}]
Profile == [lists : SUBSET Attempts, covers : SUBSET Attempts]
Snapshot == [attempt : Attempts, hash : SUBSET Attempts,
             lists : SUBSET Attempts, covers : SUBSET Attempts, met : BOOLEAN]

TypeOK ==
  /\ observed \subseteq evaluated /\ evaluated \subseteq Attempts
  /\ after \in [Attempts -> SUBSET Attempts]
  /\ taxonomy \in [Skills -> SUBSET Versions]
  /\ snapshots \subseteq Snapshot
  /\ version \in Versions
  /\ pc \in [Requests -> {"idle", "list", "find", "observe", "skills", "hash", "key",
                          "existing", "lists", "covers", "store", "return",
                          "answer", "conflict", "provider"}]
  /\ req \in [Requests -> {Idle} \cup Request]
  /\ mine \in [Requests -> SUBSET Attempts] /\ flushed \in [Requests -> SUBSET Attempts]
  /\ asked \in [Requests -> Versions \cup {None}]
  /\ entries \in [Requests -> UNION {[S -> SUBSET Versions] : S \in SUBSET Skills}]
  /\ revision \in [Requests -> SUBSET Attempts]
  /\ latest \in [Requests -> Attempts \cup {None}]
  /\ profile \in [Requests -> Profile]
  /\ met \in [Requests -> BOOLEAN]

Init ==
  /\ evaluated = Old /\ observed = {} /\ snapshots = {}
  /\ after = [a \in Attempts |-> {}] /\ taxonomy = [k \in Skills |-> {}]
  /\ version \in Versions
  /\ pc = [r \in Requests |-> "idle"] /\ req = [r \in Requests |-> Idle]
  /\ mine = [r \in Requests |-> {}] /\ flushed = [r \in Requests |-> {}]
  /\ asked = [r \in Requests |-> None] /\ entries = [r \in Requests |-> NoEntries]
  /\ revision = [r \in Requests |-> {}]
  /\ latest = [r \in Requests |-> None] /\ profile = [r \in Requests |-> NoProfile]
  /\ met = [r \in Requests |-> FALSE]

-----------------------------------------------------------------------------
(* What a request sees. *)

Of(u) == {a \in Attempts : OwnerOf[a] = u}
Own(r) == IF req[r].op = "submit" THEN {req[r].attempt} ELSE {}

\* _attempts: the user's evaluated attempts of the exam.
VisibleAttempts(r) == Of(req[r].user) \cap (evaluated \cup Own(r))

\* _observations: the rows there are,
Rows(r) == Of(req[r].user) \cap (observed \cup flushed[r])

\* Mutant: without the evaluations of a user who has no rows yet.
Observations_RowsOnly(r) == Rows(r)

\* and only if there are none the evaluations.
Observations(r) == IF Rows(r) # {} THEN Rows(r) ELSE VisibleAttempts(r)

\* attempts[-1], by submitted_at.
Last(attempts) ==
  IF attempts = {} THEN None
  ELSE CHOOSE a \in attempts : \A b \in attempts : a \notin after[b]

-----------------------------------------------------------------------------
(* Requests. *)

InFlight == {r \in Requests : pc[r] # "idle"}
Writing == {r \in Requests : req[r].op \in {"submit", "rebuild"}}

Enter(r, request, first) ==
  /\ pc' = [pc EXCEPT ![r] = first] /\ req' = [req EXCEPT ![r] = request]
  /\ met' = IF request.op \in {"grade", "read"} THEN met
            ELSE [q \in Requests |-> IF q = r THEN Writing # {} ELSE q \in Writing]
  /\ UNCHANGED <<evaluated, observed, taxonomy, snapshots, version, mine, flushed,
                 entries, revision, latest, profile>>

\* get_exam.
Begin(r, request, first) ==
  /\ pc[r] = "idle"
  /\ Enter(r, request, first)
  /\ asked' = [asked EXCEPT ![r] = version]

Goes(r, next) == pc' = [pc EXCEPT ![r] = next] /\ UNCHANGED <<stored, req, asked, met>>

Finish(r) ==
  /\ pc' = [pc EXCEPT ![r] = "idle"] /\ req' = [req EXCEPT ![r] = Idle]
  /\ mine' = [mine EXCEPT ![r] = {}] /\ flushed' = [flushed EXCEPT ![r] = {}]
  /\ asked' = [asked EXCEPT ![r] = None] /\ entries' = [entries EXCEPT ![r] = NoEntries]
  /\ revision' = [revision EXCEPT ![r] = {}] /\ latest' = [latest EXCEPT ![r] = None]
  /\ profile' = [profile EXCEPT ![r] = NoProfile]
  /\ met' = [met EXCEPT ![r] = FALSE]

Submission(op, a) == [op |-> op, user |-> OwnerOf[a], attempt |-> a]

\* submit_attempt has evaluated an attempt and flushes it, with the time of the
\* evaluation; AttemptSession shows that it holds the attempt's lock.
Unsubmitted == Attempts \ (evaluated \cup UNION {Own(q) : q \in Requests})
Stamp(a) ==
  after' = [b \in Attempts |->
             IF b = a THEN evaluated \cup UNION {Own(q) : q \in Requests}
             ELSE after[b] \ {a}]

\* Graded without the provider: its rollback has forgotten the exam, which the
\* rebuild loads again.
BeginSubmit(r) ==
  \E a \in Unsubmitted : Begin(r, Submission("submit", a), "list") /\ Stamp(a)

\* Graded by the provider: the exam is loaded before the call, outside of any
\* transaction, and stays in the session as it was,
CallProvider(r) ==
  /\ \E a \in Attempts \ evaluated : Begin(r, Submission("grade", a), "provider")
  /\ UNCHANGED after

\* also for the rebuild.  It ends there, on the unique key of the evaluations, if
\* another submit was faster.
SubmitGraded(r) ==
  /\ pc[r] = "provider" /\ req[r].attempt \in Unsubmitted
  /\ Enter(r, Submission("submit", req[r].attempt), "list") /\ Stamp(req[r].attempt)
  /\ UNCHANGED asked

AlreadySubmitted(r) ==
  /\ pc[r] = "provider" /\ req[r].attempt \in evaluated
  /\ Finish(r) /\ UNCHANGED stored

BeginRebuild(r) ==
  /\ \E u \in Users : Begin(r, [op |-> "rebuild", user |-> u], "list")
  /\ UNCHANGED after

\* read_exam_analytics.
BeginRead(r) ==
  /\ \E u \in Users : Begin(r, [op |-> "read", user |-> u], "lists")
  /\ UNCHANGED after

\* Mutant: observations are committed as they are flushed.
Die_Keeps(r) ==
  /\ pc[r] # "idle"
  /\ observed' = observed \cup flushed[r]
  /\ Finish(r) /\ UNCHANGED <<evaluated, after, taxonomy, snapshots, version>>

\* The process or the connection dies; what is not committed is rolled back.
Die(r) ==
  /\ pc[r] # "idle"
  /\ Finish(r) /\ UNCHANGED stored

\* A constraint fails, and the request with it.
Conflict(r) ==
  /\ Goes(r, "conflict")
  /\ flushed' = [flushed EXCEPT ![r] = {}]
  /\ UNCHANGED <<mine, entries, revision, latest, profile>>

\* update_exam or approve_blueprint: the exam has another configuration.
Review ==
  /\ version' = version + 1 /\ version' \in Versions
  /\ met' = [r \in Requests |-> r \in Writing]
  /\ UNCHANGED <<evaluated, after, observed, taxonomy, snapshots, session>>

-----------------------------------------------------------------------------
(* rebuild_exam_analytics. *)

\* Mutant: a submit derives the observations of its own attempt only.
ListAttempts_Own(r) ==
  /\ pc[r] = "list"
  /\ mine' = [mine EXCEPT ![r] = IF req[r].op = "submit" THEN Own(r)
                                 ELSE VisibleAttempts(r)]
  /\ Goes(r, "find") /\ UNCHANGED <<flushed, entries, revision, latest, profile>>

ListAttempts(r) ==
  /\ pc[r] = "list"
  /\ mine' = [mine EXCEPT ![r] = VisibleAttempts(r)]
  /\ Goes(r, "find") /\ UNCHANGED <<flushed, entries, revision, latest, profile>>

\* Mutant: facts are inserted whether they exist or not.
FindMissing_All(r) ==
  /\ pc[r] = "find"
  /\ Goes(r, "observe") /\ UNCHANGED <<mine, flushed, entries, revision, latest, profile>>

\* materialize_attempt_observations looks for the facts it has already,
FindMissing(r) ==
  /\ pc[r] = "find"
  /\ mine' = [mine EXCEPT ![r] = @ \ observed]
  /\ Goes(r, "observe") /\ UNCHANGED <<flushed, entries, revision, latest, profile>>

\* and inserts the others, waiting for whoever inserts one of them already.
WriteObservations(r) ==
  /\ pc[r] = "observe"
  /\ \A q \in Requests \ {r} : flushed[q] \cap mine[r] = {}
  /\ IF mine[r] \cap observed # {} THEN Conflict(r)
     ELSE /\ flushed' = [flushed EXCEPT ![r] = mine[r]]
          /\ mine' = [mine EXCEPT ![r] = {}]
          /\ Goes(r, "skills") /\ UNCHANGED <<entries, revision, latest, profile>>

\* _blueprint_skills, and the entries of _ensure_taxonomy.
LoadTaxonomy(r) ==
  /\ pc[r] = "skills"
  /\ entries' = [entries EXCEPT ![r] = [k \in SkillsOf[version] |-> taxonomy[k]]]
  /\ Goes(r, "hash") /\ UNCHANGED <<mine, flushed, revision, latest, profile>>

HashObservations(r) ==
  /\ pc[r] = "hash"
  /\ revision' = [revision EXCEPT ![r] = Observations(r)]
  /\ Goes(r, "key") /\ UNCHANGED <<mine, flushed, entries, latest, profile>>

\* Without an attempt there is no snapshot.
LoadLatest(r) ==
  /\ pc[r] = "key"
  /\ latest' = [latest EXCEPT ![r] = Last(VisibleAttempts(r))]
  /\ Goes(r, IF VisibleAttempts(r) = {} THEN "return" ELSE "existing")
  /\ UNCHANGED <<mine, flushed, entries, revision, profile>>

Same(r) == {s \in snapshots : s.attempt = latest[r] /\ s.hash = revision[r]}

\* A snapshot of this attempt and these observations is the answer.
FindSnapshot(r) ==
  /\ pc[r] = "existing"
  /\ Goes(r, IF Same(r) # {} THEN "return" ELSE "lists")
  /\ UNCHANGED <<mine, flushed, entries, revision, latest, profile>>

(* exam_analytics, in a rebuild and by itself. *)

LoadAttempts(r) ==
  /\ pc[r] = "lists"
  /\ profile' = [profile EXCEPT ![r].lists = VisibleAttempts(r)]
  /\ Goes(r, "covers") /\ UNCHANGED <<mine, flushed, entries, revision, latest>>

LoadObservations(r) ==
  /\ pc[r] = "covers"
  /\ profile' = [profile EXCEPT ![r].covers = Observations(r)]
  /\ Goes(r, IF req[r].op = "read" THEN "answer" ELSE "store")
  /\ UNCHANGED <<mine, flushed, entries, revision, latest>>

Answer(r) == pc[r] = "answer" /\ Finish(r) /\ UNCHANGED stored

(* The flush of the taxonomy and of the snapshot, and the commit. *)

\* An entry that was absent is inserted, and must still be; one that has got
\* another version is written over.
Inserted(r) == {k \in DOMAIN entries[r] : entries[r][k] = {}}

\* Mutant: an entry keeps the versions it was made with.
Rewritten_Inserted(r) == Inserted(r)

Rewritten(r) == {k \in DOMAIN entries[r] : asked[r] \notin entries[r][k]}

NewSnapshot(r) ==
  [attempt |-> latest[r], hash |-> revision[r],
   lists |-> profile[r].lists, covers |-> profile[r].covers, met |-> met[r]]

Insertable(r) ==
  /\ \A k \in Inserted(r) : taxonomy[k] = {}
  /\ pc[r] = "store" => Same(r) = {}

Commit(r) ==
  /\ pc[r] \in {"store", "return"}
  /\ Insertable(r)
  /\ evaluated' = evaluated \cup Own(r)
  /\ observed' = observed \cup flushed[r]
  /\ taxonomy' = [k \in Skills |-> IF k \in Rewritten(r)
                                   THEN entries[r][k] \cup {asked[r]} ELSE taxonomy[k]]
  /\ snapshots' = snapshots \cup (IF pc[r] = "store" THEN {NewSnapshot(r)} ELSE {})
  /\ Finish(r) /\ UNCHANGED <<after, version>>

FailCommit(r) ==
  /\ pc[r] \in {"store", "return"} /\ ~Insertable(r)
  /\ Conflict(r)

Next ==
  \/ Review
  \/ \E r \in Requests :
       \/ BeginSubmit(r) \/ CallProvider(r) \/ SubmitGraded(r) \/ AlreadySubmitted(r)
       \/ BeginRebuild(r) \/ BeginRead(r) \/ Die(r)
       \/ ListAttempts(r) \/ FindMissing(r) \/ WriteObservations(r) \/ LoadTaxonomy(r)
       \/ HashObservations(r) \/ LoadLatest(r) \/ FindSnapshot(r)
       \/ LoadAttempts(r) \/ LoadObservations(r) \/ Answer(r)
       \/ Commit(r) \/ FailCommit(r)

Spec == Init /\ [][Next]_vars

-----------------------------------------------------------------------------
(* What must hold. *)

\* Once a user has stored observations they cover all of the user's evaluated
\* attempts: the profile reads the rows alone as soon as there is one, so an
\* attempt without them would vanish from it.
EvidenceComplete ==
  \A u \in Users : Of(u) \cap observed # {} => Of(u) \cap evaluated = Of(u) \cap observed

\* Every attempt that a profile lists has its evidence in it, however much is
\* submitted while it is computed; and a snapshot was computed from the
\* observations whose hash it carries, or from more if its request met another,
\* or a review, after hashing.
Backed(p) == p.lists \subseteq p.covers

ProfileBacked ==
  /\ \A r \in Requests : pc[r] \in {"store", "answer"} => Backed(profile[r])
  /\ \A s \in snapshots : /\ Backed(s) /\ s.attempt \in s.lists
                         /\ s.hash \subseteq s.covers
                         /\ ~s.met => s.hash = s.covers

\* A submit or a rebuild that meets no other request of the exam never fails on
\* a unique key.
ConflictsOverlap == \A r \in Requests : pc[r] = "conflict" => met[r]

\* What a submit or a rebuild leaves, if it meets nothing: the snapshot it
\* answers with covers all that the user has done, and every skill of the exam
\* has an entry that knows the configuration it was given.  That is the exam's,
\* but for a submit graded by the provider: it has the one before the call.
RebuildCovers ==
  [][\A r \in Requests : Commit(r) /\ ~met[r] =>
       LET done == Of(req[r].user) \cap evaluated'
       IN /\ done # {} =>
               \E s \in snapshots' : /\ s.attempt = latest[r] /\ s.hash = revision[r]
                                     /\ s.covers = done
          /\ \A k \in SkillsOf[version] : asked[r] \in taxonomy'[k]
          /\ req[r].op = "rebuild" => asked[r] = version]_vars

-----------------------------------------------------------------------------
(* Why it holds: what is true of the rows, and of a request at each step.  *)

\* Any attempts have a last one.
OrderInv ==
  \A S \in SUBSET Attempts : S # {} => \E a \in S : \A b \in S : a \notin after[b]

SnapshotsInv ==
  \A s \in snapshots :
    /\ Backed(s) /\ s.attempt \in s.lists /\ s.hash \subseteq s.covers
    /\ s.covers \subseteq Of(OwnerOf[s.attempt]) \cap observed
    /\ ~s.met => s.hash = s.covers

\* Requests that write at the same time know it, and submit different attempts.
WritersInv ==
  \A q, r \in Requests : q # r =>
    /\ q \in Writing /\ r \in Writing => met[q]
    /\ Own(q) \cap Own(r) = {}

Flow(r) ==
  /\ pc[r] = "idle" => req[r] = Idle
  /\ pc[r] # "idle" => req[r] \in Request /\ asked[r] \in Versions
  /\ pc[r] = "answer" => req[r].op = "read"
  /\ pc[r] = "provider" <=> req[r].op = "grade"
  /\ pc[r] \notin {"idle", "provider", "lists", "covers", "answer"} => r \in Writing
  /\ req[r].op \in {"grade", "submit"} => req[r].user = OwnerOf[req[r].attempt]
  /\ req[r].op = "submit" => req[r].attempt \notin evaluated

\* Which attempts it finds without observations, and what it does about them.
Derives(r) ==
  /\ pc[r] # "idle" => mine[r] \cup flushed[r] \subseteq VisibleAttempts(r)
  /\ pc[r] \notin {"find", "observe", "conflict"} => mine[r] = {}
  /\ pc[r] \in {"idle", "provider", "list", "find", "observe"} \/ req[r].op = "read" =>
        flushed[r] = {}
  /\ r \in Writing /\ pc[r] \notin {"list", "conflict"} =>
        VisibleAttempts(r) \subseteq observed \cup mine[r] \cup flushed[r]

Shows(r) ==
  /\ pc[r] = "covers" => profile[r].lists \subseteq VisibleAttempts(r)
  /\ pc[r] \in {"store", "answer"} => Backed(profile[r])
  /\ r \in Writing /\ pc[r] \in {"existing", "lists", "covers", "store"} =>
        latest[r] \in VisibleAttempts(r)
  /\ r \in Writing /\ pc[r] \in {"covers", "store"} => latest[r] \in profile[r].lists
  /\ r \in Writing /\ pc[r] \in {"key", "existing", "lists", "covers", "store"} =>
        revision[r] \subseteq Rows(r)
  /\ pc[r] = "store" => revision[r] \subseteq profile[r].covers /\ profile[r].covers \subseteq Rows(r)

\* What it has read is still so while it meets nothing.
Alone(r) ==
  r \in Writing /\ ~met[r] =>
    /\ pc[r] # "conflict" /\ (req[r].op = "rebuild" => asked[r] = version)
    /\ pc[r] = "observe" => mine[r] \cap observed = {}
    /\ pc[r] \in {"hash", "key", "existing", "lists", "covers", "store", "return"} =>
          entries[r] = [k \in SkillsOf[version] |-> taxonomy[k]]
    /\ pc[r] \in {"key", "existing", "lists", "covers", "store", "return"} =>
          revision[r] = Observations(r)
    /\ pc[r] = "store" => profile[r].covers = revision[r]
    /\ pc[r] \in {"lists", "covers", "store"} => Same(r) = {}
    /\ pc[r] = "return" => VisibleAttempts(r) = {} \/
          \E s \in Same(r) : OwnerOf[s.attempt] = req[r].user

AnalyticsInv ==
  /\ EvidenceComplete /\ OrderInv /\ SnapshotsInv /\ WritersInv
  /\ \A r \in Requests : Flow(r) /\ Derives(r) /\ Shows(r) /\ Alone(r)
==============================================================================
