------------------------- MODULE ExamAnalytics_proofs -------------------------
(***************************************************************************)
(* Proofs about ExamAnalytics, for any users, attempts, skills, versions   *)
(* and requests.  AnalyticsInv is inductive with the type invariant.  A    *)
(* step that commits nothing concerns one request only (LocalKeeps); what  *)
(* a commit does to the others is in CommitKeeps.                          *)
(***************************************************************************)
EXTENDS ExamAnalytics, TLAPS

IInv == TypeOK /\ AnalyticsInv

Sound(r) == Flow(r) /\ Derives(r) /\ Shows(r) /\ Alone(r)

USE AttemptsAssumption, SkillsAssumption

-----------------------------------------------------------------------------
(* Types. *)

Steps == {"idle", "list", "find", "observe", "skills", "hash", "key", "existing",
          "lists", "covers", "store", "return", "answer", "conflict", "provider"}

LEMMA EmptyTypes == NoProfile \in Profile /\ NoEntries \in UNION {[S -> SUBSET Versions] : S \in SUBSET Skills}
<1>1. NoProfile \in Profile
  BY DEF NoProfile, Profile
<1>2. {} \in SUBSET Skills /\ NoEntries \in [{} -> SUBSET Versions]
  BY DEF NoEntries
<1> QED
  BY <1>1, <1>2

LEMMA RequestFields ==
    ASSUME NEW x \in Request
    PROVE  /\ x.op \in {"grade", "submit", "rebuild", "read"} /\ x.user \in Users
           /\ x.op \in {"grade", "submit"} => x.attempt \in Attempts
BY DEF Request

LEMMA FinishType ==
    ASSUME TypeOK, NEW r \in Requests, Finish(r)
    PROVE  /\ pc' \in [Requests -> Steps] /\ req' \in [Requests -> {Idle} \cup Request]
           /\ mine' \in [Requests -> SUBSET Attempts]
           /\ flushed' \in [Requests -> SUBSET Attempts]
           /\ asked' \in [Requests -> Versions \cup {None}]
           /\ entries' \in [Requests -> UNION {[S -> SUBSET Versions] : S \in SUBSET Skills}]
           /\ revision' \in [Requests -> SUBSET Attempts]
           /\ latest' \in [Requests -> Attempts \cup {None}]
           /\ profile' \in [Requests -> Profile] /\ met' \in [Requests -> BOOLEAN]
<1>1. /\ pc' \in [Requests -> Steps] /\ req' \in [Requests -> {Idle} \cup Request]
      /\ mine' \in [Requests -> SUBSET Attempts]
      /\ flushed' \in [Requests -> SUBSET Attempts]
      /\ asked' \in [Requests -> Versions \cup {None}]
  BY DEF TypeOK, Finish, Steps
<1>2. /\ revision' \in [Requests -> SUBSET Attempts]
      /\ latest' \in [Requests -> Attempts \cup {None}] /\ met' \in [Requests -> BOOLEAN]
  BY DEF TypeOK, Finish
<1>3. /\ entries' \in [Requests -> UNION {[S -> SUBSET Versions] : S \in SUBSET Skills}]
      /\ profile' \in [Requests -> Profile]
  <2> DEFINE E == UNION {[S -> SUBSET Versions] : S \in SUBSET Skills}
  <2>1. NoEntries \in E /\ NoProfile \in Profile
    BY EmptyTypes
  <2>2. entries \in [Requests -> E] /\ profile \in [Requests -> Profile]
    BY DEF TypeOK
  <2> HIDE DEF E
  <2>3. entries' \in [Requests -> E] /\ profile' \in [Requests -> Profile]
    BY <2>1, <2>2 DEF Finish
  <2> QED
    BY <2>3 DEF E
<1> QED
  BY <1>1, <1>2, <1>3

LEMMA BeginType ==
    ASSUME TypeOK, NEW r \in Requests, NEW request \in Request,
           NEW first \in {"list", "lists", "provider"}, Enter(r, request, first),
           asked' \in [Requests -> Versions \cup {None}],
           after' \in [Attempts -> SUBSET Attempts]
    PROVE  TypeOK'
<1>1. met' \in [Requests -> BOOLEAN]
  <2>1. CASE request.op \in {"grade", "read"}
    BY <2>1 DEF TypeOK, Enter
  <2>2. CASE request.op \notin {"grade", "read"}
    <3>1. \A q \in Requests : (IF q = r THEN Writing # {} ELSE q \in Writing) \in BOOLEAN
      <4> SUFFICES ASSUME NEW q \in Requests
                   PROVE  (IF q = r THEN Writing # {} ELSE q \in Writing) \in BOOLEAN
        OBVIOUS
      <4>1. CASE q = r
        BY <4>1, Zenon
      <4>2. CASE q # r
        <5>1. (q \in Writing) \in BOOLEAN
          OBVIOUS
        <5> QED
          BY <4>2, <5>1, Zenon
      <4> QED
        BY <4>1, <4>2
    <3>2. met' = [q \in Requests |-> IF q = r THEN Writing # {} ELSE q \in Writing]
      BY <2>2 DEF Enter
    <3> QED
      BY <3>1, <3>2
  <2> QED
    BY <2>1, <2>2
<1>2. pc' \in [Requests -> Steps] /\ req' \in [Requests -> {Idle} \cup Request]
  BY DEF TypeOK, Enter, Steps
<1> QED
  BY <1>1, <1>2 DEF TypeOK, Enter, Steps

LEMMA VisibleType ==
    ASSUME TypeOK, NEW r \in Requests
    PROVE  /\ Own(r) \in SUBSET Attempts /\ VisibleAttempts(r) \in SUBSET Attempts
           /\ Rows(r) \in SUBSET Attempts /\ Observations(r) \in SUBSET Attempts
<1>1. req[r] \in {Idle} \cup Request
  BY DEF TypeOK
<1>2. Own(r) \in SUBSET Attempts
  BY <1>1 DEF Own, Request, Idle
<1> QED
  BY <1>2 DEF VisibleAttempts, Rows, Observations, Of

LEMMA VersionSkills ==
    ASSUME TypeOK
    PROVE  [k \in SkillsOf[version] |-> taxonomy[k]]
             \in UNION {[S -> SUBSET Versions] : S \in SUBSET Skills}
<1>1. SkillsOf[version] \in SUBSET Skills
  BY DEF TypeOK
<1>2. [k \in SkillsOf[version] |-> taxonomy[k]] \in [SkillsOf[version] -> SUBSET Versions]
  BY <1>1 DEF TypeOK
<1> QED
  BY <1>1, <1>2

\* The last of some attempts is one of them.
LEMMA LastIsOne ==
    ASSUME OrderInv, NEW S \in SUBSET Attempts, S # {} PROVE Last(S) \in S
<1>1. \E a \in S : \A b \in S : a \notin after[b]
  BY DEF OrderInv
<1> QED
  BY <1>1 DEF Last

LEMMA LocalType ==
    ASSUME IInv, NEW r \in Requests,
           \/ ListAttempts(r) \/ FindMissing(r) \/ WriteObservations(r) \/ LoadTaxonomy(r)
           \/ HashObservations(r) \/ LoadLatest(r) \/ FindSnapshot(r)
           \/ LoadAttempts(r) \/ LoadObservations(r) \/ FailCommit(r)
    PROVE  TypeOK'
<1> USE DEF IInv
<1> DEFINE E == UNION {[S -> SUBSET Versions] : S \in SUBSET Skills}
<1>1. TypeOK /\ [k \in SkillsOf[version] |-> taxonomy[k]] \in E
  BY VersionSkills
<1>2. /\ VisibleAttempts(r) \in SUBSET Attempts /\ Observations(r) \in SUBSET Attempts
      /\ Last(VisibleAttempts(r)) \in Attempts \cup {None}
  <2>1. VisibleAttempts(r) \in SUBSET Attempts /\ Observations(r) \in SUBSET Attempts
    BY VisibleType
  <2>2. CASE VisibleAttempts(r) = {}
    BY <2>1, <2>2 DEF Last
  <2>3. CASE VisibleAttempts(r) # {}
    BY <2>1, <2>3, LastIsOne DEF AnalyticsInv
  <2> QED
    BY <2>1, <2>2, <2>3
<1>3. entries \in [Requests -> E]
  BY DEF TypeOK
<1>4. UNCHANGED <<stored, req, asked, met>> /\ pc' \in [Requests -> Steps]
  BY DEF TypeOK, Steps, ListAttempts, FindMissing, WriteObservations, LoadTaxonomy,
         HashObservations, LoadLatest, FindSnapshot, LoadAttempts, LoadObservations,
         FailCommit, Conflict, Goes
<1> HIDE DEF E
<1>5. entries' \in [Requests -> E]
  BY <1>1, <1>3
  DEF ListAttempts, FindMissing, WriteObservations, LoadTaxonomy,
      HashObservations, LoadLatest, FindSnapshot, LoadAttempts, LoadObservations,
      FailCommit, Conflict, Goes
<1>6. /\ mine' \in [Requests -> SUBSET Attempts]
      /\ flushed' \in [Requests -> SUBSET Attempts]
  <2>1. /\ mine \in [Requests -> SUBSET Attempts]
        /\ flushed \in [Requests -> SUBSET Attempts]
    BY DEF TypeOK
  <2>2. CASE ListAttempts(r)
    BY <1>2, <2>1, <2>2 DEF ListAttempts
  <2>3. CASE FindMissing(r)
    BY <2>1, <2>3 DEF FindMissing
  <2>4. CASE WriteObservations(r)
    BY <2>1, <2>4 DEF WriteObservations, Conflict
  <2>5. CASE FailCommit(r)
    BY <2>1, <2>5 DEF FailCommit, Conflict
  <2>6. CASE UNCHANGED <<mine, flushed>>
    BY <2>1, <2>6
  <2> QED
    BY <2>2, <2>3, <2>4, <2>5, <2>6
    DEF LoadTaxonomy, HashObservations, LoadLatest, FindSnapshot, LoadAttempts, LoadObservations
<1>7. /\ revision' \in [Requests -> SUBSET Attempts]
      /\ latest' \in [Requests -> Attempts \cup {None}]
  <2>1. CASE HashObservations(r)
    BY <1>2, <2>1 DEF TypeOK, HashObservations
  <2>2. CASE LoadLatest(r)
    BY <1>2, <2>2 DEF TypeOK, LoadLatest
  <2>3. CASE UNCHANGED <<revision, latest>>
    BY <2>3 DEF TypeOK
  <2> QED
    BY <2>1, <2>2, <2>3
    DEF ListAttempts, FindMissing, WriteObservations, LoadTaxonomy, FindSnapshot,
        LoadAttempts, LoadObservations, FailCommit, Conflict
<1>8. profile' \in [Requests -> Profile]
  <2>1. profile[r] \in Profile /\ profile \in [Requests -> Profile]
    BY DEF TypeOK
  <2>2. /\ [profile[r] EXCEPT !.lists = VisibleAttempts(r)] \in Profile
        /\ [profile[r] EXCEPT !.covers = Observations(r)] \in Profile
    BY <1>2, <2>1 DEF Profile
  <2>3. CASE LoadAttempts(r)
    BY <2>1, <2>2, <2>3 DEF LoadAttempts
  <2>4. CASE LoadObservations(r)
    BY <2>1, <2>2, <2>4 DEF LoadObservations
  <2>5. CASE UNCHANGED profile
    BY <2>1, <2>5
  <2> QED
    BY <2>3, <2>4, <2>5
    DEF ListAttempts, FindMissing, WriteObservations, LoadTaxonomy,
        HashObservations, LoadLatest, FindSnapshot, FailCommit, Conflict
<1> QED
  BY <1>4, <1>5, <1>6, <1>7, <1>8 DEF TypeOK, Steps, stored, E

-----------------------------------------------------------------------------
(* A step of one request that commits nothing. *)

\* What a request knows depends on the rows and on its own variables.
LEMMA SameSound ==
    ASSUME NEW q \in Requests, Sound(q),
           UNCHANGED <<evaluated, observed, taxonomy, snapshots>>,
           pc'[q] = pc[q], req'[q] = req[q], mine'[q] = mine[q], flushed'[q] = flushed[q],
           asked'[q] = asked[q], entries'[q] = entries[q], revision'[q] = revision[q],
           latest'[q] = latest[q], profile'[q] = profile[q],
           \/ q \notin Writing
           \/ met'[q]
           \/ met'[q] = met[q] /\ version' = version
    PROVE  Sound(q)'
<1>1. /\ VisibleAttempts(q)' = VisibleAttempts(q) /\ Rows(q)' = Rows(q)
      /\ Observations(q)' = Observations(q) /\ Same(q)' = Same(q)
      /\ (q \in Writing)' <=> q \in Writing
  BY DEF VisibleAttempts, Own, Rows, Observations, Same, Writing
<1>2. Flow(q)' /\ Derives(q)' /\ Shows(q)'
  BY <1>1 DEF Sound, Flow, Derives, Shows
<1>3. Alone(q)'
  BY <1>1 DEF Sound, Alone
<1> QED
  BY <1>2, <1>3 DEF Sound

LEMMA LocalKeeps ==
    ASSUME IInv, NEW r \in Requests, UNCHANGED <<stored, req, asked, met>>,
           \A q \in Requests \ {r} :
               /\ pc'[q] = pc[q] /\ mine'[q] = mine[q] /\ flushed'[q] = flushed[q]
               /\ entries'[q] = entries[q] /\ revision'[q] = revision[q]
               /\ latest'[q] = latest[q] /\ profile'[q] = profile[q],
           Sound(r)'
    PROVE  AnalyticsInv'
<1>1. \A q \in Requests : Sound(q)'
  BY SameSound DEF IInv, AnalyticsInv, Sound, stored
<1>2. EvidenceComplete' /\ OrderInv' /\ SnapshotsInv'
  BY DEF IInv, AnalyticsInv, EvidenceComplete, OrderInv, SnapshotsInv, stored
<1>3. WritersInv'
  BY DEF IInv, AnalyticsInv, WritersInv, Writing, Own
<1> QED
  BY <1>1, <1>2, <1>3 DEF AnalyticsInv, Sound

LEMMA ListAttemptsKeeps ==
    ASSUME IInv, NEW r \in Requests, ListAttempts(r) PROVE AnalyticsInv'
<1>1. /\ pc[r] = "list" /\ mine' = [mine EXCEPT ![r] = VisibleAttempts(r)]
      /\ pc' = [pc EXCEPT ![r] = "find"]
      /\ UNCHANGED <<stored, req, asked, met, flushed, entries, revision, latest, profile>>
  BY DEF ListAttempts, Goes
<1>2. /\ pc'[r] = "find" /\ mine'[r] = VisibleAttempts(r)
      /\ \A q \in Requests \ {r} : pc'[q] = pc[q] /\ mine'[q] = mine[q]
  BY <1>1 DEF IInv, TypeOK
<1>3. Sound(r)
  BY DEF IInv, AnalyticsInv, Sound
<1>4. VisibleAttempts(r)' = VisibleAttempts(r) /\ ((r \in Writing)' <=> r \in Writing)
  BY <1>1 DEF VisibleAttempts, Own, Writing, stored
<1>5. Flow(r)' /\ Derives(r)' /\ Shows(r)' /\ Alone(r)'
  BY <1>1, <1>2, <1>3, <1>4 DEF Sound, Flow, Derives, Shows, Alone, stored
<1> QED
  BY <1>1, <1>2, <1>5, LocalKeeps DEF Sound

LEMMA FindMissingKeeps ==
    ASSUME IInv, NEW r \in Requests, FindMissing(r) PROVE AnalyticsInv'
<1>1. /\ pc[r] = "find" /\ mine' = [mine EXCEPT ![r] = @ \ observed]
      /\ pc' = [pc EXCEPT ![r] = "observe"]
      /\ UNCHANGED <<stored, req, asked, met, flushed, entries, revision, latest, profile>>
  BY DEF FindMissing, Goes
<1>2. /\ pc'[r] = "observe" /\ mine'[r] = mine[r] \ observed
      /\ \A q \in Requests \ {r} : pc'[q] = pc[q] /\ mine'[q] = mine[q]
  BY <1>1 DEF IInv, TypeOK
<1>3. Sound(r)
  BY DEF IInv, AnalyticsInv, Sound
<1>4. VisibleAttempts(r)' = VisibleAttempts(r) /\ ((r \in Writing)' <=> r \in Writing)
  BY <1>1 DEF VisibleAttempts, Own, Writing, stored
<1>5. Flow(r)' /\ Derives(r)' /\ Shows(r)' /\ Alone(r)'
  BY <1>1, <1>2, <1>3, <1>4 DEF Sound, Flow, Derives, Shows, Alone, stored
<1> QED
  BY <1>1, <1>2, <1>5, LocalKeeps DEF Sound

\* The unique key fails only those that met somebody.
LEMMA ConflictKeeps ==
    ASSUME IInv, NEW r \in Requests, Conflict(r), r \in Writing, met[r]
    PROVE  AnalyticsInv'
<1>1. /\ pc' = [pc EXCEPT ![r] = "conflict"] /\ flushed' = [flushed EXCEPT ![r] = {}]
      /\ UNCHANGED <<stored, req, asked, met, mine, entries, revision, latest, profile>>
  BY DEF Conflict, Goes
<1>2. /\ pc'[r] = "conflict" /\ flushed'[r] = {}
      /\ \A q \in Requests \ {r} : pc'[q] = pc[q] /\ flushed'[q] = flushed[q]
  BY <1>1 DEF IInv, TypeOK
<1>3. Sound(r)
  BY DEF IInv, AnalyticsInv, Sound
<1>4. VisibleAttempts(r)' = VisibleAttempts(r) /\ ((r \in Writing)' <=> r \in Writing)
  BY <1>1 DEF VisibleAttempts, Own, Writing, stored
<1>5. pc[r] # "idle" /\ req[r].op \notin {"read", "grade"}
  BY <1>3 DEF Sound, Flow, Writing, Idle
<1>6. Flow(r)'
  BY <1>1, <1>2, <1>3, <1>4, <1>5 DEF Sound, Flow, stored
<1>7. Derives(r)'
  BY <1>1, <1>2, <1>3, <1>4, <1>5 DEF Sound, Derives, stored
<1>8. Shows(r)' /\ Alone(r)'
  BY <1>1, <1>2 DEF Shows, Alone
<1> QED
  BY <1>1, <1>2, <1>6, <1>7, <1>8, LocalKeeps DEF Sound

LEMMA WriteObservationsKeeps ==
    ASSUME IInv, NEW r \in Requests, WriteObservations(r) PROVE AnalyticsInv'
<1>1. pc[r] = "observe" /\ Sound(r) /\ r \in Writing
  BY DEF WriteObservations, IInv, AnalyticsInv, Sound, Flow
<1>2. CASE mine[r] \cap observed # {}
  <2>1. met[r]
    BY <1>1, <1>2 DEF Sound, Alone, IInv, TypeOK
  <2> QED
    BY <1>1, <1>2, <2>1, ConflictKeeps DEF WriteObservations
<1>3. CASE mine[r] \cap observed = {}
  <2>1. /\ flushed' = [flushed EXCEPT ![r] = mine[r]] /\ mine' = [mine EXCEPT ![r] = {}]
        /\ pc' = [pc EXCEPT ![r] = "skills"]
        /\ UNCHANGED <<stored, req, asked, met, entries, revision, latest, profile>>
    BY <1>3 DEF WriteObservations, Goes
  <2>2. /\ pc'[r] = "skills" /\ mine'[r] = {} /\ flushed'[r] = mine[r]
        /\ \A q \in Requests \ {r} : /\ pc'[q] = pc[q] /\ mine'[q] = mine[q]
                                    /\ flushed'[q] = flushed[q]
    BY <2>1 DEF IInv, TypeOK
  <2>3. VisibleAttempts(r)' = VisibleAttempts(r) /\ ((r \in Writing)' <=> r \in Writing)
    BY <2>1 DEF VisibleAttempts, Own, Writing, stored
  <2>4. req[r].op # "read"
    BY <1>1 DEF Writing
  <2>5. Flow(r)' /\ Derives(r)' /\ Shows(r)' /\ Alone(r)'
    BY <1>1, <2>1, <2>2, <2>3, <2>4 DEF Sound, Flow, Derives, Shows, Alone, stored
  <2> QED
    BY <2>1, <2>2, <2>5, LocalKeeps DEF Sound
<1> QED
  BY <1>2, <1>3

LEMMA LoadTaxonomyKeeps ==
    ASSUME IInv, NEW r \in Requests, LoadTaxonomy(r) PROVE AnalyticsInv'
<1>1. /\ pc[r] = "skills"
      /\ entries' = [entries EXCEPT ![r] = [k \in SkillsOf[version] |-> taxonomy[k]]]
      /\ pc' = [pc EXCEPT ![r] = "hash"]
      /\ UNCHANGED <<stored, req, asked, met, mine, flushed, revision, latest, profile>>
  BY DEF LoadTaxonomy, Goes
<1>2. /\ pc'[r] = "hash" /\ entries'[r] = [k \in SkillsOf[version] |-> taxonomy[k]]
      /\ \A q \in Requests \ {r} : pc'[q] = pc[q] /\ entries'[q] = entries[q]
  BY <1>1 DEF IInv, TypeOK
<1>3. Sound(r)
  BY DEF IInv, AnalyticsInv, Sound
<1>4. VisibleAttempts(r)' = VisibleAttempts(r) /\ ((r \in Writing)' <=> r \in Writing)
  BY <1>1 DEF VisibleAttempts, Own, Writing, stored
<1>5. Flow(r)' /\ Derives(r)' /\ Shows(r)' /\ Alone(r)'
  BY <1>1, <1>2, <1>3, <1>4 DEF Sound, Flow, Derives, Shows, Alone, stored
<1> QED
  BY <1>1, <1>2, <1>5, LocalKeeps DEF Sound

\* What a request has flushed is all that it sees, and it sees all of it.
LEMMA RowsCover ==
    ASSUME IInv, NEW r \in Requests, r \in Writing,
           pc[r] \notin {"list", "find", "observe", "conflict"}
    PROVE  Rows(r) = VisibleAttempts(r) /\ Observations(r) = Rows(r)
<1>1. Derives(r) /\ Flow(r) /\ pc[r] # "idle"
  BY DEF IInv, AnalyticsInv, Flow, Writing, Idle
<1>2. VisibleAttempts(r) \subseteq Rows(r)
  BY <1>1 DEF Derives, VisibleAttempts, Rows
<1>3. Rows(r) \subseteq VisibleAttempts(r)
  BY <1>1 DEF Derives, VisibleAttempts, Rows, IInv, TypeOK
<1> QED
  BY <1>2, <1>3 DEF Observations

LEMMA HashObservationsKeeps ==
    ASSUME IInv, NEW r \in Requests, HashObservations(r) PROVE AnalyticsInv'
<1>1. /\ pc[r] = "hash" /\ revision' = [revision EXCEPT ![r] = Observations(r)]
      /\ pc' = [pc EXCEPT ![r] = "key"]
      /\ UNCHANGED <<stored, req, asked, met, mine, flushed, entries, latest, profile>>
  BY DEF HashObservations, Goes
<1>2. /\ pc'[r] = "key" /\ revision'[r] = Observations(r)
      /\ \A q \in Requests \ {r} : pc'[q] = pc[q] /\ revision'[q] = revision[q]
  BY <1>1 DEF IInv, TypeOK
<1>3. Sound(r) /\ r \in Writing
  BY <1>1 DEF IInv, AnalyticsInv, Sound, Flow
<1>4. /\ VisibleAttempts(r)' = VisibleAttempts(r) /\ ((r \in Writing)' <=> r \in Writing)
      /\ Rows(r)' = Rows(r) /\ Observations(r)' = Observations(r)
  BY <1>1 DEF VisibleAttempts, Own, Rows, Observations, Writing, stored
<1>5. Observations(r) = Rows(r)
  BY <1>1, <1>3, RowsCover
<1>6. Flow(r)' /\ Derives(r)' /\ Shows(r)' /\ Alone(r)'
  BY <1>1, <1>2, <1>3, <1>4, <1>5 DEF Sound, Flow, Derives, Shows, Alone, stored
<1> QED
  BY <1>1, <1>2, <1>6, LocalKeeps DEF Sound

LEMMA LoadLatestKeeps ==
    ASSUME IInv, NEW r \in Requests, LoadLatest(r) PROVE AnalyticsInv'
<1> DEFINE step == IF VisibleAttempts(r) = {} THEN "return" ELSE "existing"
<1>1. /\ pc[r] = "key" /\ latest' = [latest EXCEPT ![r] = Last(VisibleAttempts(r))]
      /\ pc' = [pc EXCEPT ![r] = step]
      /\ UNCHANGED <<stored, req, asked, met, mine, flushed, entries, revision, profile>>
  BY DEF LoadLatest, Goes
<1>2. \/ step = "return" /\ VisibleAttempts(r) = {}
      \/ step = "existing" /\ VisibleAttempts(r) # {}
  <2>1. CASE VisibleAttempts(r) = {}
    BY <2>1, Zenon
  <2>2. CASE VisibleAttempts(r) # {}
    BY <2>2, Zenon
  <2> QED
    BY <2>1, <2>2
<1> HIDE DEF step
<1>3. /\ pc'[r] = step /\ latest'[r] = Last(VisibleAttempts(r))
      /\ \A q \in Requests \ {r} : pc'[q] = pc[q] /\ latest'[q] = latest[q]
  BY <1>1 DEF IInv, TypeOK
<1>4. Sound(r) /\ r \in Writing
  BY <1>1 DEF IInv, AnalyticsInv, Sound, Flow
<1>5. /\ VisibleAttempts(r)' = VisibleAttempts(r) /\ ((r \in Writing)' <=> r \in Writing)
      /\ Rows(r)' = Rows(r) /\ Observations(r)' = Observations(r)
  BY <1>1 DEF VisibleAttempts, Own, Rows, Observations, Writing, stored
<1>6. step = "existing" => latest'[r] \in VisibleAttempts(r)
  BY <1>2, <1>3, VisibleType, LastIsOne DEF IInv, AnalyticsInv
<1>7. Flow(r)' /\ Derives(r)'
  BY <1>1, <1>2, <1>3, <1>4, <1>5 DEF Sound, Flow, Derives, stored
<1>8. Shows(r)'
  BY <1>1, <1>2, <1>3, <1>4, <1>5, <1>6 DEF Sound, Shows, stored
<1>9. Alone(r)'
  BY <1>1, <1>2, <1>3, <1>4, <1>5 DEF Sound, Alone, stored
<1> QED
  BY <1>1, <1>3, <1>7, <1>8, <1>9, LocalKeeps DEF Sound

LEMMA FindSnapshotKeeps ==
    ASSUME IInv, NEW r \in Requests, FindSnapshot(r) PROVE AnalyticsInv'
<1> DEFINE step == IF Same(r) # {} THEN "return" ELSE "lists"
<1>1. /\ pc[r] = "existing" /\ pc' = [pc EXCEPT ![r] = step]
      /\ UNCHANGED <<stored, req, asked, met, mine, flushed, entries, revision, latest, profile>>
  BY DEF FindSnapshot, Goes
<1>2. \/ step = "return" /\ Same(r) # {}
      \/ step = "lists" /\ Same(r) = {}
  <2>1. CASE Same(r) # {}
    BY <2>1, Zenon
  <2>2. CASE Same(r) = {}
    BY <2>2, Zenon
  <2> QED
    BY <2>1, <2>2
<1> HIDE DEF step
<1>3. pc'[r] = step /\ \A q \in Requests \ {r} : pc'[q] = pc[q]
  BY <1>1 DEF IInv, TypeOK
<1>4. Sound(r) /\ r \in Writing
  BY <1>1 DEF IInv, AnalyticsInv, Sound, Flow
<1>5. /\ VisibleAttempts(r)' = VisibleAttempts(r) /\ ((r \in Writing)' <=> r \in Writing)
      /\ Rows(r)' = Rows(r) /\ Observations(r)' = Observations(r) /\ Same(r)' = Same(r)
  BY <1>1 DEF VisibleAttempts, Own, Rows, Observations, Same, Writing, stored
<1>6. \A s \in Same(r) : OwnerOf[s.attempt] = req[r].user
  BY <1>1, <1>4 DEF Sound, Shows, Same, VisibleAttempts, Of
<1>7. Flow(r)' /\ Derives(r)'
  BY <1>1, <1>2, <1>3, <1>4, <1>5 DEF Sound, Flow, Derives, stored
<1>8. Shows(r)'
  BY <1>1, <1>2, <1>3, <1>4, <1>5 DEF Sound, Shows, stored
<1>9. Alone(r)'
  BY <1>1, <1>2, <1>3, <1>4, <1>5, <1>6 DEF Sound, Alone, stored
<1> QED
  BY <1>1, <1>3, <1>7, <1>8, <1>9, LocalKeeps DEF Sound

LEMMA LoadAttemptsKeeps ==
    ASSUME IInv, NEW r \in Requests, LoadAttempts(r) PROVE AnalyticsInv'
<1>1. /\ pc[r] = "lists" /\ pc' = [pc EXCEPT ![r] = "covers"]
      /\ profile' = [profile EXCEPT ![r].lists = VisibleAttempts(r)]
      /\ UNCHANGED <<stored, req, asked, met, mine, flushed, entries, revision, latest>>
  BY DEF LoadAttempts, Goes
<1>2. profile[r] \in Profile
  BY DEF IInv, TypeOK
<1>3. /\ pc'[r] = "covers" /\ profile'[r].lists = VisibleAttempts(r)
      /\ \A q \in Requests \ {r} : pc'[q] = pc[q] /\ profile'[q] = profile[q]
  BY <1>1, <1>2 DEF IInv, TypeOK, Profile
<1>4. Sound(r)
  BY <1>1 DEF IInv, AnalyticsInv, Sound
<1>5. /\ VisibleAttempts(r)' = VisibleAttempts(r) /\ ((r \in Writing)' <=> r \in Writing)
      /\ Rows(r)' = Rows(r) /\ Observations(r)' = Observations(r) /\ Same(r)' = Same(r)
  BY <1>1 DEF VisibleAttempts, Own, Rows, Observations, Same, Writing, stored
<1>6. Flow(r)' /\ Derives(r)'
  BY <1>1, <1>3, <1>4, <1>5 DEF Sound, Flow, Derives, stored
<1>7. Shows(r)'
  BY <1>1, <1>3, <1>4, <1>5 DEF Sound, Shows, stored
<1>8. Alone(r)'
  BY <1>1, <1>3, <1>4, <1>5 DEF Sound, Alone, stored
<1> QED
  BY <1>1, <1>3, <1>6, <1>7, <1>8, LocalKeeps DEF Sound

\* The profile covers what it lists: a reader by EvidenceComplete, a writer by
\* the observations that it has made itself.
LEMMA LoadObservationsKeeps ==
    ASSUME IInv, NEW r \in Requests, LoadObservations(r) PROVE AnalyticsInv'
<1> DEFINE step == IF req[r].op = "read" THEN "answer" ELSE "store"
<1>1. /\ pc[r] = "covers" /\ pc' = [pc EXCEPT ![r] = step]
      /\ profile' = [profile EXCEPT ![r].covers = Observations(r)]
      /\ UNCHANGED <<stored, req, asked, met, mine, flushed, entries, revision, latest>>
  BY DEF LoadObservations, Goes
<1>2. profile[r] \in Profile
  BY DEF IInv, TypeOK
<1>3. Sound(r) /\ req[r] \in Request
  BY <1>1 DEF IInv, AnalyticsInv, Sound, Flow
<1>4. \/ step = "answer" /\ req[r].op = "read"
      \/ step = "store" /\ r \in Writing /\ req[r].op # "read"
  <2>1. req[r].op # "grade"
    BY <1>1, <1>3 DEF Sound, Flow
  <2> QED
    BY <1>3, <2>1, RequestFields DEF Writing
<1> HIDE DEF step
<1>5. /\ pc'[r] = step /\ profile'[r].lists = profile[r].lists
      /\ profile'[r].covers = Observations(r)
      /\ \A q \in Requests \ {r} : pc'[q] = pc[q] /\ profile'[q] = profile[q]
  BY <1>1, <1>2 DEF IInv, TypeOK, Profile
<1>6. /\ VisibleAttempts(r)' = VisibleAttempts(r) /\ ((r \in Writing)' <=> r \in Writing)
      /\ Rows(r)' = Rows(r) /\ Observations(r)' = Observations(r) /\ Same(r)' = Same(r)
  BY <1>1 DEF VisibleAttempts, Own, Rows, Observations, Same, Writing, stored
<1>7. VisibleAttempts(r) \subseteq Observations(r)
  <2>1. CASE r \in Writing
    BY <1>1, <2>1, RowsCover
  <2>2. CASE req[r].op = "read"
    <3>1. Own(r) = {} /\ flushed[r] = {} /\ req[r].user \in Users
      BY <1>3, <2>2, RequestFields DEF Own, Sound, Derives
    <3>2. VisibleAttempts(r) = Of(req[r].user) \cap evaluated
      BY <3>1 DEF VisibleAttempts
    <3>3. Rows(r) = Of(req[r].user) \cap observed
      BY <3>1 DEF Rows
    <3> QED
      BY <3>1, <3>2, <3>3 DEF Observations, IInv, AnalyticsInv, EvidenceComplete
  <2> QED
    BY <1>4, <2>1, <2>2
<1>8. Flow(r)' /\ Derives(r)'
  BY <1>1, <1>3, <1>4, <1>5, <1>6 DEF Sound, Flow, Derives, stored
<1>9. Shows(r)'
  <2>1. profile[r].lists \subseteq VisibleAttempts(r)
    BY <1>1, <1>3 DEF Sound, Shows
  <2>2. Backed(profile'[r])
    BY <1>5, <1>7, <2>1 DEF Backed
  <2>3. step = "store" => Observations(r) = Rows(r)
    BY <1>1, <1>4, RowsCover
  <2> QED
    BY <1>1, <1>3, <1>4, <1>5, <1>6, <2>2, <2>3 DEF Sound, Shows, stored
<1>10. Alone(r)'
  BY <1>1, <1>3, <1>4, <1>5, <1>6 DEF Sound, Alone, stored
<1> QED
  BY <1>1, <1>5, <1>8, <1>9, <1>10, LocalKeeps DEF Sound

\* Alone, it finds what it inserts still absent.
LEMMA FailCommitKeeps ==
    ASSUME IInv, NEW r \in Requests, FailCommit(r) PROVE AnalyticsInv'
<1>1. pc[r] \in {"store", "return"} /\ ~Insertable(r) /\ Conflict(r)
  BY DEF FailCommit
<1>2. r \in Writing /\ Alone(r)
  BY <1>1 DEF IInv, AnalyticsInv, Flow
<1>3. ASSUME ~met[r] PROVE Insertable(r)
  <2>1. entries[r] = [k \in SkillsOf[version] |-> taxonomy[k]]
    BY <1>1, <1>2, <1>3 DEF Alone
  <2>2. \A k \in Inserted(r) : taxonomy[k] = {}
    BY <2>1 DEF Inserted
  <2>3. pc[r] = "store" => Same(r) = {}
    BY <1>2, <1>3 DEF Alone
  <2> QED
    BY <2>2, <2>3 DEF Insertable
<1> QED
  BY <1>1, <1>2, <1>3, ConflictKeeps

-----------------------------------------------------------------------------
(* Requests begin and end, the exam is reviewed. *)

LEMMA FinishedSound ==
    ASSUME TypeOK, NEW r \in Requests, Finish(r)
    PROVE  /\ Sound(r)' /\ ~(r \in Writing)' /\ Own(r)' = {}
           /\ \A q \in Requests \ {r} :
                /\ pc'[q] = pc[q] /\ req'[q] = req[q] /\ mine'[q] = mine[q]
                /\ flushed'[q] = flushed[q] /\ asked'[q] = asked[q]
                /\ entries'[q] = entries[q] /\ revision'[q] = revision[q]
                /\ latest'[q] = latest[q] /\ profile'[q] = profile[q] /\ met'[q] = met[q]
<1>1. /\ pc'[r] = "idle" /\ req'[r] = Idle /\ mine'[r] = {} /\ flushed'[r] = {}
      /\ \A q \in Requests \ {r} :
           /\ pc'[q] = pc[q] /\ req'[q] = req[q] /\ mine'[q] = mine[q]
           /\ flushed'[q] = flushed[q] /\ asked'[q] = asked[q]
           /\ entries'[q] = entries[q] /\ revision'[q] = revision[q]
           /\ latest'[q] = latest[q] /\ profile'[q] = profile[q] /\ met'[q] = met[q]
  BY DEF TypeOK, Finish
<1>2. Idle.op = "none"
  BY DEF Idle
<1>3. ~(r \in Writing)' /\ Own(r)' = {}
  BY <1>1, <1>2 DEF Writing, Own
<1>4. Flow(r)' /\ Derives(r)' /\ Shows(r)' /\ Alone(r)'
  BY <1>1, <1>2, <1>3 DEF Flow, Derives, Shows, Alone
<1> QED
  BY <1>1, <1>3, <1>4 DEF Sound

LEMMA EndKeeps ==
    ASSUME IInv, NEW r \in Requests, Die(r) \/ Answer(r) \/ AlreadySubmitted(r) PROVE IInv'
<1> USE DEF IInv, AnalyticsInv
<1>1. Finish(r) /\ UNCHANGED stored
  BY DEF Die, Answer, AlreadySubmitted
<1>2. TypeOK'
  BY <1>1, FinishType DEF TypeOK, stored, Steps
<1>3. \A q \in Requests : Sound(q)'
  BY <1>1, FinishedSound, SameSound DEF Sound, stored
<1>4. EvidenceComplete' /\ OrderInv' /\ SnapshotsInv'
  BY <1>1 DEF EvidenceComplete, OrderInv, SnapshotsInv, stored
<1>5. WritersInv'
  BY <1>1, FinishedSound DEF WritersInv, Writing, Own
<1> QED
  BY <1>2, <1>3, <1>4, <1>5 DEF Sound

\* What beginning does to everybody.
LEMMA BeginKeeps ==
    ASSUME IInv, NEW r \in Requests, NEW request \in Request,
           NEW first \in {"list", "lists", "provider"}, Enter(r, request, first),
           first = "list" <=> request.op \in {"submit", "rebuild"},
           first = "provider" <=> request.op = "grade",
           request.op \in {"grade", "submit"} => request.user = OwnerOf[request.attempt],
           request.op = "submit" => request.attempt \in Unsubmitted,
           pc[r] \in {"idle", "provider"},
           asked' \in [Requests -> Versions \cup {None}], asked'[r] \in Versions,
           \A q \in Requests \ {r} : asked'[q] = asked[q],
           request.op = "rebuild" => asked'[r] = version,
           OrderInv', after' \in [Attempts -> SUBSET Attempts]
    PROVE  IInv'
<1> USE DEF IInv, AnalyticsInv
<1>1. TypeOK'
  BY BeginType
<1>2. /\ pc' = [pc EXCEPT ![r] = first] /\ req' = [req EXCEPT ![r] = request]
      /\ UNCHANGED <<evaluated, observed, taxonomy, snapshots, version, mine, flushed,
                     entries, revision, latest, profile>>
  BY DEF Enter
<1>3. /\ pc'[r] = first /\ req'[r] = request
      /\ \A q \in Requests \ {r} : pc'[q] = pc[q] /\ req'[q] = req[q] /\ asked'[q] = asked[q]
  BY <1>2 DEF TypeOK
<1>4. Sound(r) /\ r \notin Writing /\ Own(r) = {} /\ mine[r] = {} /\ flushed[r] = {}
  <2>1. req[r].op \in {"none", "grade"}
    BY DEF Flow, Idle
  <2> QED
    BY <2>1 DEF Sound, Flow, Derives, Writing, Own
<1>5. CASE request.op \in {"grade", "read"}
  <2>1. met' = met /\ first \in {"provider", "lists"}
    BY <1>5 DEF Enter
  <2>2. (r \notin Writing)' /\ Own(r)' = {}
    BY <1>3, <1>5 DEF Writing, Own
  <2>3. Sound(r)'
    <3>1. Flow(r)'
      BY <1>2, <1>3, <1>5, <2>1 DEF Flow
    <3>2. Derives(r)' /\ Shows(r)' /\ Alone(r)'
      BY <1>2, <1>3, <1>4, <2>1, <2>2 DEF Derives, Shows, Alone
    <3> QED
      BY <3>1, <3>2 DEF Sound
  <2>4. \A q \in Requests : Sound(q)'
    BY <1>2, <1>3, <2>1, <2>3, SameSound DEF Sound
  <2>5. WritersInv'
    BY <1>3, <2>1, <2>2 DEF WritersInv, Writing, Own
  <2> QED
    BY <1>1, <1>2, <2>4, <2>5 DEF Sound, EvidenceComplete, SnapshotsInv
<1>6. CASE request.op \notin {"grade", "read"}
  <2>1. first = "list" /\ request.op \in {"submit", "rebuild"}
    BY <1>6, RequestFields
  <2>2. /\ met'[r] <=> Writing # {}
        /\ \A q \in Requests \ {r} : met'[q] <=> q \in Writing
    BY <1>6 DEF Enter
  <2>3. Sound(r)'
    <3>1. Flow(r)'
      BY <1>2, <1>3, <2>1 DEF Flow, Writing, Unsubmitted
    <3>2. Derives(r)' /\ Shows(r)' /\ Alone(r)'
      BY <1>2, <1>3, <1>4, <2>1 DEF Derives, Shows, Alone
    <3> QED
      BY <3>1, <3>2 DEF Sound
  <2>4. \A q \in Requests : Sound(q)'
    BY <1>2, <1>3, <2>2, <2>3, SameSound DEF Sound
  <2>5. WritersInv'
    <3>1. \A q \in Requests \ {r} : ((q \in Writing)' <=> q \in Writing) /\ Own(q)' = Own(q)
      BY <1>3 DEF Writing, Own
    <3>2. \A q \in Requests \ {r} : Own(r)' \cap Own(q) = {}
      <4> SUFFICES ASSUME NEW q \in Requests \ {r}, request.op = "submit"
                   PROVE  request.attempt \notin Own(q)
        BY <1>3 DEF Own
      <4> QED
        BY DEF Unsubmitted
    <3> QED
      BY <2>2, <3>1, <3>2 DEF WritersInv
  <2> QED
    BY <1>1, <1>2, <2>4, <2>5 DEF Sound, EvidenceComplete, SnapshotsInv
<1> QED
  BY <1>5, <1>6

\* An attempt that is submitted now is after all that were evaluated.
LEMMA Stamped ==
    ASSUME IInv, NEW a \in Unsubmitted, Stamp(a)
    PROVE  OrderInv' /\ after' \in [Attempts -> SUBSET Attempts] /\ a \in Attempts \ evaluated
<1>1. UNION {Own(q) : q \in Requests} \in SUBSET Attempts
  BY VisibleType DEF IInv
<1>2. after' = [b \in Attempts |->
                  IF b = a THEN evaluated \cup UNION {Own(q) : q \in Requests}
                  ELSE after[b] \ {a}]
  BY DEF Stamp
<1>3. a \in Attempts \ evaluated /\ a \notin UNION {Own(q) : q \in Requests}
  BY DEF Unsubmitted
<1>4. after' \in [Attempts -> SUBSET Attempts]
  BY <1>1, <1>2 DEF IInv, TypeOK
<1>5. a \notin after'[a] /\ \A b \in Attempts \ {a} : a \notin after'[b] /\ after'[b] \subseteq after[b]
  BY <1>2, <1>3
<1>6. OrderInv'
  <2> SUFFICES ASSUME NEW S \in SUBSET Attempts, S # {}
               PROVE  \E x \in S : \A b \in S : x \notin after'[b]
    BY DEF OrderInv
  <2>1. CASE a \in S
    BY <1>5, <2>1
  <2>2. CASE a \notin S
    <3>1. PICK x \in S : \A b \in S : x \notin after[b]
      BY DEF IInv, AnalyticsInv, OrderInv
    <3> QED
      BY <1>5, <2>2, <3>1
  <2> QED
    BY <2>1, <2>2
<1> QED
  BY <1>3, <1>4, <1>6

LEMMA SubmissionFields ==
    ASSUME NEW op \in {"grade", "submit"}, NEW a \in Attempts
    PROVE  /\ Submission(op, a) \in Request /\ Submission(op, a).op = op
           /\ Submission(op, a).user = OwnerOf[a] /\ Submission(op, a).attempt = a
BY DEF Submission, Request

\* The exam is loaded as it is.
LEMMA BeginAsks ==
    ASSUME TypeOK, NEW r \in Requests, NEW request, NEW first, Begin(r, request, first)
    PROVE  /\ asked' \in [Requests -> Versions \cup {None}] /\ asked'[r] = version
           /\ \A q \in Requests \ {r} : asked'[q] = asked[q]
           /\ version \in Versions /\ pc[r] = "idle" /\ Enter(r, request, first)
BY DEF TypeOK, Begin

LEMMA BeginSubmitKeeps ==
    ASSUME IInv, NEW r \in Requests, BeginSubmit(r) PROVE IInv'
<1>1. PICK a \in Unsubmitted : Begin(r, Submission("submit", a), "list") /\ Stamp(a)
  BY DEF BeginSubmit
<1> DEFINE request == Submission("submit", a)
<1>2. /\ request \in Request /\ request.op = "submit"
      /\ request.user = OwnerOf[a] /\ request.attempt = a
  BY <1>1, Stamped, SubmissionFields
<1> HIDE DEF request
<1>3. Begin(r, request, "list")
  BY <1>1 DEF request
<1> QED
  BY <1>1, <1>2, <1>3, BeginAsks, Stamped, BeginKeeps DEF IInv

LEMMA SubmitGradedKeeps ==
    ASSUME IInv, NEW r \in Requests, SubmitGraded(r) PROVE IInv'
<1> DEFINE a == req[r].attempt
           request == Submission("submit", a)
<1>1. /\ pc[r] = "provider" /\ a \in Unsubmitted /\ Stamp(a)
      /\ Enter(r, request, "list") /\ UNCHANGED asked
  BY DEF SubmitGraded
<1>2. /\ request \in Request /\ request.op = "submit"
      /\ request.user = OwnerOf[a] /\ request.attempt = a
  BY <1>1, Stamped, SubmissionFields
<1>3. asked \in [Requests -> Versions \cup {None}] /\ asked[r] \in Versions
  BY <1>1 DEF IInv, TypeOK, AnalyticsInv, Flow
<1> HIDE DEF request, a
<1> QED
  BY <1>1, <1>2, <1>3, Stamped, BeginKeeps

LEMMA CallProviderKeeps ==
    ASSUME IInv, NEW r \in Requests, CallProvider(r) PROVE IInv'
<1>1. PICK a \in Attempts \ evaluated : Begin(r, Submission("grade", a), "provider")
  BY DEF CallProvider
<1> DEFINE request == Submission("grade", a)
<1>2. /\ request \in Request /\ request.op = "grade"
      /\ request.user = OwnerOf[a] /\ request.attempt = a
  BY <1>1, SubmissionFields
<1> HIDE DEF request
<1>3. Begin(r, request, "provider")
  BY <1>1 DEF request
<1>4. OrderInv' /\ after' \in [Attempts -> SUBSET Attempts]
  BY DEF CallProvider, IInv, AnalyticsInv, OrderInv, TypeOK
<1> QED
  BY <1>2, <1>3, <1>4, BeginAsks, BeginKeeps DEF IInv

LEMMA BeginOthersKeep ==
    ASSUME IInv, NEW r \in Requests, BeginRebuild(r) \/ BeginRead(r) PROVE IInv'
<1>1. OrderInv' /\ after' \in [Attempts -> SUBSET Attempts]
  BY DEF BeginRebuild, BeginRead, IInv, AnalyticsInv, OrderInv, TypeOK
<1>2. CASE BeginRebuild(r)
  <2>1. PICK u \in Users : Begin(r, [op |-> "rebuild", user |-> u], "list")
    BY <1>2 DEF BeginRebuild
  <2> DEFINE request == [op |-> "rebuild", user |-> u]
  <2>2. request \in Request /\ request.op = "rebuild"
    BY DEF Request
  <2> HIDE DEF request
  <2>3. Begin(r, request, "list")
    BY <2>1 DEF request
  <2> QED
    BY <1>1, <2>2, <2>3, BeginAsks, BeginKeeps DEF IInv
<1>3. CASE BeginRead(r)
  <2>1. PICK u \in Users : Begin(r, [op |-> "read", user |-> u], "lists")
    BY <1>3 DEF BeginRead
  <2> DEFINE request == [op |-> "read", user |-> u]
  <2>2. request \in Request /\ request.op = "read"
    BY DEF Request
  <2> HIDE DEF request
  <2>3. Begin(r, request, "lists")
    BY <2>1 DEF request
  <2> QED
    BY <1>1, <2>2, <2>3, BeginAsks, BeginKeeps DEF IInv
<1> QED
  BY <1>2, <1>3

LEMMA ReviewKeeps == ASSUME IInv, Review PROVE IInv'
<1> USE DEF IInv, AnalyticsInv
<1>1. /\ version' \in Versions /\ met' = [r \in Requests |-> r \in Writing]
      /\ UNCHANGED <<evaluated, after, observed, taxonomy, snapshots, session>>
  BY DEF Review
<1>2. TypeOK'
  <2>1. met' \in [Requests -> BOOLEAN]
    BY <1>1
  <2> QED
    BY <1>1, <2>1 DEF TypeOK, session
<1>3. \A r \in Requests : Sound(r)'
  BY <1>1, SameSound DEF Sound, session
<1>4. EvidenceComplete' /\ OrderInv' /\ SnapshotsInv' /\ WritersInv'
  BY <1>1 DEF EvidenceComplete, OrderInv, SnapshotsInv, WritersInv, Own, Writing, session
<1> QED
  BY <1>2, <1>3, <1>4 DEF Sound

-----------------------------------------------------------------------------
(* The commit. *)

\* What a request that can commit has.
LEMMA Committing ==
    ASSUME IInv, NEW r \in Requests, Commit(r)
    PROVE  /\ Sound(r) /\ r \in Writing /\ req[r].user \in Users /\ asked[r] \in Versions
           /\ Own(r) \subseteq VisibleAttempts(r) /\ Own(r) \in SUBSET Attempts
           /\ flushed[r] \subseteq VisibleAttempts(r)
           /\ VisibleAttempts(r) = Rows(r)
           /\ Finish(r) /\ UNCHANGED <<after, version>>
           /\ evaluated' = evaluated \cup Own(r) /\ observed' = observed \cup flushed[r]
           /\ snapshots' = snapshots \cup (IF pc[r] = "store" THEN {NewSnapshot(r)} ELSE {})
<1>1. pc[r] \in {"store", "return"} /\ Sound(r)
  BY DEF Commit, IInv, AnalyticsInv, Sound
<1>2. r \in Writing /\ req[r] \in Request /\ asked[r] \in Versions
  BY <1>1 DEF Sound, Flow
<1>3. Own(r) \in SUBSET Attempts
  BY VisibleType DEF IInv
<1>4. Own(r) \subseteq Of(req[r].user)
  BY <1>1, <1>2, <1>3 DEF Sound, Flow, Own, Of
<1>5. VisibleAttempts(r) = Rows(r)
  BY <1>1, <1>2, RowsCover
<1> QED
  BY <1>1, <1>2, <1>3, <1>4, <1>5, RequestFields
  DEF Commit, VisibleAttempts, Sound, Derives

LEMMA CommitType == ASSUME IInv, NEW r \in Requests, Commit(r) PROVE TypeOK'
<1>1. taxonomy' \in [Skills -> SUBSET Versions]
  <2>1. PICK S \in SUBSET Skills : entries[r] \in [S -> SUBSET Versions]
    BY DEF IInv, TypeOK
  <2>2. \A k \in Rewritten(r) : entries[r][k] \cup {asked[r]} \in SUBSET Versions
    BY <2>1, Committing DEF Rewritten
  <2> QED
    BY <2>2 DEF IInv, TypeOK, Commit
<1>2. pc[r] = "store" => NewSnapshot(r) \in Snapshot
  <2>1. pc[r] = "store" => latest[r] \in VisibleAttempts(r)
    BY Committing DEF Sound, Shows
  <2>2. VisibleAttempts(r) \in SUBSET Attempts
    BY VisibleType DEF IInv
  <2> QED
    BY <2>1, <2>2 DEF NewSnapshot, Snapshot, IInv, TypeOK, Profile
<1>3. snapshots' \subseteq Snapshot
  BY <1>2, Committing DEF IInv, TypeOK
<1>4. observed' \subseteq evaluated' /\ evaluated' \subseteq Attempts
  BY Committing DEF IInv, TypeOK, VisibleAttempts
<1> QED
  BY <1>1, <1>3, <1>4, Committing, FinishType DEF IInv, TypeOK, Steps

\* The observations of what is evaluated come with it, for one user.
LEMMA CommitEvidence == ASSUME IInv, NEW r \in Requests, Commit(r) PROVE EvidenceComplete'
<1> SUFFICES ASSUME NEW u \in Users, Of(u) \cap observed' # {}
             PROVE  Of(u) \cap evaluated' = Of(u) \cap observed'
  BY DEF EvidenceComplete
<1>1. observed \subseteq evaluated
  BY DEF IInv, TypeOK
<1>2. CASE u = req[r].user
  BY <1>1, <1>2, Committing DEF VisibleAttempts, Rows
<1>3. CASE u # req[r].user
  <2>1. Of(u) \cap VisibleAttempts(r) = {}
    BY <1>3 DEF VisibleAttempts, Of
  <2>2. Of(u) \cap evaluated' = Of(u) \cap evaluated /\ Of(u) \cap observed' = Of(u) \cap observed
    BY <2>1, Committing
  <2> QED
    BY <2>2 DEF IInv, AnalyticsInv, EvidenceComplete
<1> QED
  BY <1>2, <1>3

LEMMA CommitSnapshots == ASSUME IInv, NEW r \in Requests, Commit(r) PROVE SnapshotsInv'
<1> DEFINE OK(s) == /\ Backed(s) /\ s.attempt \in s.lists /\ s.hash \subseteq s.covers
                    /\ s.covers \subseteq Of(OwnerOf[s.attempt]) \cap observed'
                    /\ ~s.met => s.hash = s.covers
<1>1. ASSUME NEW s \in snapshots PROVE OK(s)
  BY Committing DEF IInv, AnalyticsInv, SnapshotsInv
<1>2. ASSUME pc[r] = "store" PROVE OK(NewSnapshot(r))
  <2> DEFINE s == NewSnapshot(r)
  <2>1. /\ s.attempt = latest[r] /\ s.hash = revision[r] /\ s.lists = profile[r].lists
        /\ s.covers = profile[r].covers /\ s.met = met[r]
    BY DEF NewSnapshot
  <2> HIDE DEF s
  <2>2. Shows(r) /\ Alone(r)
    BY Committing DEF Sound
  <2>3. Backed(s)
    BY <1>2, <2>1, <2>2 DEF Shows, Backed
  <2>4. s.attempt \in s.lists /\ s.hash \subseteq s.covers
    BY <1>2, <2>1, <2>2, Committing DEF Shows
  <2>5. OwnerOf[s.attempt] = req[r].user
    BY <1>2, <2>1, <2>2, Committing DEF Shows, VisibleAttempts, Of
  <2>6. s.covers \subseteq Of(OwnerOf[s.attempt]) \cap observed'
    BY <1>2, <2>1, <2>2, <2>5, Committing DEF Shows, Rows
  <2>7. ~s.met => s.hash = s.covers
    BY <1>2, <2>1, <2>2, Committing DEF Alone
  <2> QED
    BY <2>3, <2>4, <2>6, <2>7 DEF s
<1>3. \A s \in snapshots' : s \in snapshots \/ (pc[r] = "store" /\ s = NewSnapshot(r))
  BY Committing
<1>4. \A s \in snapshots' : OK(s)
  BY <1>1, <1>2, <1>3
<1> QED
  BY <1>4 DEF SnapshotsInv

\* A request that is in flight meanwhile sees more, with its observations.
LEMMA CommitOthers ==
    ASSUME IInv, NEW r \in Requests, Commit(r), NEW q \in Requests, q # r
    PROVE  Sound(q)'
<1>1. /\ pc'[q] = pc[q] /\ req'[q] = req[q] /\ mine'[q] = mine[q]
      /\ flushed'[q] = flushed[q] /\ asked'[q] = asked[q]
      /\ entries'[q] = entries[q] /\ revision'[q] = revision[q]
      /\ latest'[q] = latest[q] /\ profile'[q] = profile[q] /\ met'[q] = met[q]
  BY Committing, FinishedSound DEF IInv
<1>2. Sound(q) /\ (q \in Writing => met[q]) /\ Own(q) \cap Own(r) = {}
  BY Committing DEF IInv, AnalyticsInv, Sound, WritersInv
<1>3. ((q \in Writing)' <=> q \in Writing) /\ Own(q)' = Own(q)
  BY <1>1 DEF Writing, Own
<1>4. /\ VisibleAttempts(q) \subseteq VisibleAttempts(q)' /\ Rows(q) \subseteq Rows(q)'
      /\ VisibleAttempts(q)' \subseteq VisibleAttempts(q) \cup Own(r)
  BY <1>1, <1>3, Committing DEF VisibleAttempts, Rows
<1>5. Own(r) \subseteq observed' /\ observed \subseteq observed'
  BY Committing DEF Rows
<1>6. Flow(q)'
  <2>1. req[q].op = "submit" => req[q].attempt \notin Own(r)
    BY <1>2 DEF Own
  <2> QED
    BY <1>1, <1>2, <1>3, <2>1, Committing DEF Sound, Flow
<1>7. Derives(q)'
  BY <1>1, <1>2, <1>3, <1>4, <1>5 DEF Sound, Derives
<1>8. Shows(q)'
  BY <1>1, <1>2, <1>3, <1>4 DEF Sound, Shows
<1>9. Alone(q)'
  BY <1>1, <1>2, <1>3 DEF Alone
<1> QED
  BY <1>6, <1>7, <1>8, <1>9 DEF Sound

LEMMA CommitKeeps == ASSUME IInv, NEW r \in Requests, Commit(r) PROVE IInv'
<1>1. \A q \in Requests : Sound(q)'
  BY CommitOthers, Committing, FinishedSound DEF IInv
<1>2. WritersInv'
  BY Committing, FinishedSound DEF IInv, AnalyticsInv, WritersInv, Writing, Own
<1>3. OrderInv'
  BY Committing DEF IInv, AnalyticsInv, OrderInv
<1> QED
  BY <1>1, <1>2, <1>3, CommitType, CommitEvidence, CommitSnapshots
  DEF IInv, AnalyticsInv, Sound

-----------------------------------------------------------------------------
(* The invariant. *)

LEMMA InitInv == Init => IInv
<1> SUFFICES ASSUME Init PROVE IInv
  OBVIOUS
<1>1. TypeOK
  <2> DEFINE E == UNION {[S -> SUBSET Versions] : S \in SUBSET Skills}
  <2>1. NoEntries \in E /\ NoProfile \in Profile
    BY EmptyTypes
  <2> HIDE DEF E
  <2>2. entries \in [Requests -> E] /\ profile \in [Requests -> Profile]
    BY <2>1 DEF Init
  <2>3. /\ after \in [Attempts -> SUBSET Attempts] /\ taxonomy \in [Skills -> SUBSET Versions]
        /\ req \in [Requests -> {Idle} \cup Request]
        /\ pc \in [Requests -> Steps]
    BY DEF Init, Steps
  <2>4. /\ mine \in [Requests -> SUBSET Attempts] /\ flushed \in [Requests -> SUBSET Attempts]
        /\ asked \in [Requests -> Versions \cup {None}]
        /\ revision \in [Requests -> SUBSET Attempts]
        /\ latest \in [Requests -> Attempts \cup {None}]
        /\ met \in [Requests -> BOOLEAN]
    BY DEF Init
  <2> QED
    BY <2>2, <2>3, <2>4 DEF Init, TypeOK, Steps, E
<1>2. EvidenceComplete /\ SnapshotsInv
  BY DEF Init, EvidenceComplete, SnapshotsInv
<1>3. OrderInv
  BY DEF Init, OrderInv
<1>4. \A r \in Requests : req[r].op = "none" /\ r \notin Writing /\ Own(r) = {}
  BY DEF Init, Idle, Writing, Own
<1>5. WritersInv
  BY <1>4 DEF WritersInv
<1>6. \A r \in Requests : Flow(r) /\ Derives(r) /\ Shows(r) /\ Alone(r)
  BY <1>4 DEF Init, Flow, Derives, Shows, Alone
<1> QED
  BY <1>1, <1>2, <1>3, <1>5, <1>6 DEF IInv, AnalyticsInv

LEMMA StutterKeeps == IInv /\ UNCHANGED vars => IInv'
<1> SUFFICES ASSUME IInv, UNCHANGED vars PROVE IInv'
  OBVIOUS
<1>1. TypeOK'
  BY DEF IInv, TypeOK, vars, stored, session
<1>2. \A r \in Requests : Sound(r)'
  BY SameSound DEF IInv, AnalyticsInv, Sound, vars, stored, session
<1>3. EvidenceComplete' /\ OrderInv' /\ SnapshotsInv' /\ WritersInv'
  BY DEF IInv, AnalyticsInv, EvidenceComplete, OrderInv, SnapshotsInv, WritersInv,
         Own, Writing, vars, stored, session
<1> QED
  BY <1>1, <1>2, <1>3 DEF IInv, AnalyticsInv, Sound

LEMMA NextKeeps == IInv /\ [Next]_vars => IInv'
<1>1. ASSUME IInv, NEW r \in Requests,
             \/ ListAttempts(r) \/ FindMissing(r) \/ WriteObservations(r) \/ LoadTaxonomy(r)
             \/ HashObservations(r) \/ LoadLatest(r) \/ FindSnapshot(r)
             \/ LoadAttempts(r) \/ LoadObservations(r) \/ FailCommit(r)
      PROVE  IInv'
  BY <1>1, LocalType, ListAttemptsKeeps, FindMissingKeeps, WriteObservationsKeeps,
     LoadTaxonomyKeeps, HashObservationsKeeps, LoadLatestKeeps, FindSnapshotKeeps,
     LoadAttemptsKeeps, LoadObservationsKeeps, FailCommitKeeps DEF IInv
<1> QED
  BY <1>1, EndKeeps, BeginSubmitKeeps, SubmitGradedKeeps, CallProviderKeeps, BeginOthersKeep, ReviewKeeps, CommitKeeps,
     StutterKeeps DEF Next

LEMMA Invariance == Spec => []IInv
BY InitInv, NextKeeps, PTL DEF Spec

\* The stored analytics and the requests have their types in every behaviour.
THEOREM TypeCorrect == Spec => []TypeOK
<1>1. IInv => TypeOK
  BY DEF IInv
<1> QED
  BY <1>1, Invariance, PTL

\* materialize_attempt_observations: the rows of a user cover all of the user's
\* evaluated attempts as soon as there are any.
THEOREM EvidenceIsComplete == Spec => []EvidenceComplete
<1>1. IInv => EvidenceComplete
  BY DEF IInv, AnalyticsInv
<1> QED
  BY <1>1, Invariance, PTL

\* exam_analytics and rebuild_exam_analytics: a profile has the evidence of what
\* it lists, and a snapshot that of its hash.
THEOREM ProfilesAreBacked == Spec => []ProfileBacked
<1>1. IInv => ProfileBacked
  BY DEF IInv, AnalyticsInv, SnapshotsInv, Shows, ProfileBacked
<1> QED
  BY <1>1, Invariance, PTL

\* The unique keys fail a submit or a rebuild only if it met another request.
THEOREM OnlyOverlapsConflict == Spec => []ConflictsOverlap
<1>1. IInv => ConflictsOverlap
  BY DEF IInv, TypeOK, AnalyticsInv, Flow, Alone, ConflictsOverlap
<1> QED
  BY <1>1, Invariance, PTL

\* rebuild_exam_analytics: alone, it leaves a snapshot of all that the user has
\* done, and entries that know the configuration its exam was loaded with, which
\* is the current one unless a provider has graded the attempt meanwhile.
THEOREM RebuildsCover == Spec => RebuildCovers
<1> DEFINE Covers(r) ==
      LET done == Of(req[r].user) \cap evaluated'
      IN /\ done # {} =>
              \E s \in snapshots' : /\ s.attempt = latest[r] /\ s.hash = revision[r]
                                    /\ s.covers = done
         /\ \A k \in SkillsOf[version] : asked[r] \in taxonomy'[k]
         /\ req[r].op = "rebuild" => asked[r] = version
<1>1. ASSUME IInv, NEW r \in Requests, Commit(r), ~met[r] PROVE Covers(r)
  <2> DEFINE done == Of(req[r].user) \cap evaluated'
  <2>1. done = VisibleAttempts(r) /\ done = Rows(r)
    BY <1>1, Committing DEF VisibleAttempts
  <2>2. /\ pc[r] \in {"store", "return"} /\ revision[r] = Rows(r)
        /\ entries[r] = [k \in SkillsOf[version] |-> taxonomy[k]]
        /\ req[r].op = "rebuild" => asked[r] = version
    BY <1>1, Committing, RowsCover DEF Commit, Sound, Alone
  <2>3. ASSUME done # {}
        PROVE  \E s \in snapshots' : /\ s.attempt = latest[r] /\ s.hash = revision[r]
                                     /\ s.covers = done
    <3>1. CASE pc[r] = "store"
      <4>1. NewSnapshot(r) \in snapshots'
        BY <1>1, <3>1, Committing
      <4>2. /\ NewSnapshot(r).attempt = latest[r] /\ NewSnapshot(r).hash = revision[r]
            /\ NewSnapshot(r).covers = profile[r].covers
        BY DEF NewSnapshot
      <4>3. profile[r].covers = revision[r]
        BY <1>1, <3>1, Committing DEF Sound, Alone
      <4> QED
        BY <2>1, <2>2, <4>1, <4>2, <4>3
    <3>2. CASE pc[r] = "return"
      <4>1. PICK s \in Same(r) : OwnerOf[s.attempt] = req[r].user
        BY <1>1, <2>1, <2>3, <3>2, Committing DEF Sound, Alone
      <4>2. s \in snapshots' /\ s.attempt = latest[r] /\ s.hash = revision[r]
        BY <1>1, <4>1, Committing DEF Same
      <4>3. s.hash \subseteq s.covers /\ s.covers \subseteq Of(req[r].user) \cap observed
        BY <1>1, <4>1 DEF Same, IInv, AnalyticsInv, SnapshotsInv
      <4>4. s.covers \subseteq Rows(r)
        BY <4>3 DEF Rows
      <4> QED
        BY <2>1, <2>2, <4>2, <4>3, <4>4
    <3> QED
      BY <2>2, <3>1, <3>2
  <2>4. ASSUME NEW k \in SkillsOf[version] PROVE asked[r] \in taxonomy'[k]
    <3>1. k \in Skills /\ k \in DOMAIN entries[r] /\ entries[r][k] = taxonomy[k]
      BY <1>1, <2>2 DEF IInv, TypeOK
    <3>2. taxonomy'[k] = IF k \in Rewritten(r) THEN entries[r][k] \cup {asked[r]}
                         ELSE taxonomy[k]
      BY <1>1, <3>1 DEF Commit
    <3> QED
      BY <2>2, <3>1, <3>2 DEF Rewritten
  <2> QED
    BY <2>2, <2>3, <2>4
<1> DEFINE Every == \A r \in Requests : Commit(r) /\ ~met[r] => Covers(r)
<1>2. IInv /\ [Next]_vars => [Every]_vars
  BY <1>1
<1>3. RebuildCovers <=> [][Every]_vars
  BY DEF RebuildCovers
<1> HIDE DEF Every
<1> QED
  BY <1>2, <1>3, Invariance, PTL DEF Spec

==============================================================================
