-------------------------- MODULE ExamCopies_proofs --------------------------
(***************************************************************************)
(* Proofs about ExamCopies, for any sections, configurations, users,       *)
(* requests and bounds.  CopiesInv is inductive with the type invariant;   *)
(* each action's lemma says first what it does to the rows, and then what  *)
(* becomes of the requests.                                                *)
(***************************************************************************)
EXTENDS ExamCopies, WellFoundedInduction, TLAPS

IInv == TypeOK /\ CopiesInv

Sound(r) == Flow(r) /\ Loaded(r) /\ Aware(r) /\ Current(r)

Steps == {"idle", "approved", "latest", "generate", "provider",
          "publication", "existing", "write"}

USE AnswersAssumption, ConfigsAssumption, BoundsAssumption, NoneAssumption

-----------------------------------------------------------------------------
(* Points: distribute_points and the sum of what it returns. *)

\* As a set of pairs, in which the library says that < is well-founded.
LEMMA LessThan == OpToRel(<, Nat) = {p \in Nat \X Nat : p[1] < p[2]}
BY DEF OpToRel

\* Induction, for a set of numbers that has 0 and the successors of its members.
LEMMA SetInduction ==
    ASSUME NEW S, 0 \in S, \A n \in Nat : n \in S => n + 1 \in S
    PROVE  Nat \subseteq S
<1> SUFFICES ASSUME Nat \ S # {} PROVE FALSE
  OBVIOUS
<1>1. PICK m \in Nat \ S : \A n \in Nat \ S : ~(<<n, m>> \in OpToRel(<, Nat))
  BY NatLessThanWellFounded, WFMin
<1>2. ASSUME NEW n \in Nat \ S PROVE ~(n < m)
  BY <1>1, LessThan
<1>3. m - 1 \in Nat /\ m - 1 \in S
  BY <1>2
<1> QED
  BY <1>3

\* What is handed out, question by question, is all there is.
LEMMA PointsAreAll ==
    ASSUME NEW total \in Nat, NEW count \in Nat \ {0}
    PROVE  /\ Len(DistributePoints(total, count)) = count
           /\ Total(DistributePoints(total, count)) = total
<1> DEFINE points == DistributePoints(total, count)
           quotient == total \div count
           rest == total % count
           sum(f) == [n \in 0..Len(points) |-> IF n = 0 THEN 0 ELSE f[n - 1] + points[n]]
           given == [n \in 0..count |-> n * quotient + (IF n <= rest THEN n ELSE rest)]
           f == CHOOSE g : g = sum(g)
<1>1. quotient \in Nat /\ rest \in 0..(count - 1) /\ total = count * quotient + rest
  BY Z3
<1>2. /\ Len(points) = count
      /\ \A i \in 1..count : points[i] = quotient + (IF i <= rest THEN 1 ELSE 0)
  <2>1. points \in [1..count -> Nat]
    BY <1>1 DEF DistributePoints
  <2> QED
    BY <2>1 DEF DistributePoints
<1>3. Total(points) = f[Len(points)]
  BY DEF Total
<1> HIDE DEF points, quotient, rest
<1>4. given[0] = 0
  BY <1>1
<1>5. ASSUME NEW n \in 1..count PROVE given[n] = given[n - 1] + points[n]
  <2>1. n * quotient = (n - 1) * quotient + quotient
    BY <1>1
  <2>2. (n - 1) * quotient \in Nat /\ n * quotient \in Nat
    BY <1>1
  <2>3. /\ given[n] = n * quotient + (IF n <= rest THEN n ELSE rest)
        /\ given[n - 1] = (n - 1) * quotient + (IF n - 1 <= rest THEN n - 1 ELSE rest)
    OBVIOUS
  <2>4. points[n] = quotient + (IF n <= rest THEN 1 ELSE 0)
    BY <1>2
  <2> HIDE DEF given
  <2> QED
    BY <1>1, <2>1, <2>2, <2>3, <2>4
<1> HIDE DEF given
<1>6. given = sum(given)
  <2>1. given = [n \in 0..count |-> given[n]]
    BY DEF given
  <2>2. sum(given) = [n \in 0..count |-> IF n = 0 THEN 0 ELSE given[n - 1] + points[n]]
    BY <1>2
  <2>3. \A n \in 0..count : given[n] = IF n = 0 THEN 0 ELSE given[n - 1] + points[n]
    BY <1>4, <1>5
  <2> HIDE DEF sum
  <2> QED
    BY <2>1, <2>2, <2>3, Zenon
<1>7. f = sum(f)
  <2> HIDE DEF sum
  <2> QED
    BY <1>6
<1> HIDE DEF f
<1>8. f[0] = 0 /\ \A n \in 1..count : f[n] = f[n - 1] + points[n]
  BY <1>2, <1>7
<1> DEFINE S == {n \in Nat : n <= count => f[n] = given[n]}
<1>9. 0 \in S
  BY <1>4, <1>8
<1>10. ASSUME NEW n \in Nat, n \in S PROVE n + 1 \in S
  <2> SUFFICES ASSUME n + 1 <= count PROVE f[n + 1] = given[n + 1]
    OBVIOUS
  <2>1. n + 1 \in 1..count /\ (n + 1) - 1 = n /\ f[n] = given[n]
    BY <1>10
  <2> QED
    BY <1>5, <1>8, <2>1
<1> HIDE DEF S
<1>11. Nat \subseteq S
  BY <1>9, <1>10, SetInduction
<1>12. f[count] = given[count]
  BY <1>11 DEF S
<1>13. given[count] = total
  BY <1>1 DEF given
<1> QED
  BY <1>2, <1>3, <1>12, <1>13 DEF points

-----------------------------------------------------------------------------
(* Types. *)

\* distribute_points returns one number for each question.
LEMMA PointsType ==
    ASSUME NEW total \in Nat, NEW count \in Nat \ {0}
    PROVE  DistributePoints(total, count) \in Seq(Nat)
<1>1. /\ total \div count \in Nat /\ 1 \in Nat /\ 0 \in Nat
  BY Z3
<1>2. \A i \in 1..count :
        (total \div count) + (IF i <= total % count THEN 1 ELSE 0) \in Nat
  BY <1>1
<1>3. DistributePoints(total, count) \in [1..count -> Nat]
  BY <1>2 DEF DistributePoints
<1> QED
  BY <1>3

\* The parts of the type invariant that a request's steps write.
SessionType ==
  /\ pc \in [Requests -> Steps] /\ req \in [Requests -> {Idle} \cup Request]
  /\ seenExam \in [Requests -> ExamRow \cup {None}]
  /\ seenBlueprint \in [Requests -> BlueprintRow \cup {None}]
  /\ seenPublication \in [Requests -> PublicationRow \cup {None}]
  /\ moved \in [Requests -> BOOLEAN] /\ met \in [Requests -> BOOLEAN]

RowType ==
  /\ exam \in ExamRow \cup {None}
  /\ approved \in BlueprintRow \cup {None}
  /\ latest \in VersionOf(approved)..MaxBlueprint
  /\ commits \in [1..MaxConfig -> Configs \cup {None}]
  /\ approvals \in [Blueprints -> SUBSET Configs]
  /\ publication \in PublicationRow \cup {None}
  /\ cloneOf \subseteq Users /\ copies \in [Users -> 0..MaxClones]
  /\ mock \in Mock \cup {None}
  /\ made \in 0..MaxClones /\ torn \in BOOLEAN /\ raced \in BOOLEAN

LEMMA Types == TypeOK <=> RowType /\ SessionType
BY DEF TypeOK, RowType, SessionType, Steps

LEMMA TypesNext == TypeOK' <=> RowType' /\ SessionType'
BY DEF TypeOK, RowType, SessionType, Steps

LEMMA FinishType ==
    ASSUME SessionType, NEW r \in Requests, Finish(r), met' \in [Requests -> BOOLEAN]
    PROVE  SessionType'
<1>1. /\ pc' \in [Requests -> Steps] /\ req' \in [Requests -> {Idle} \cup Request]
      /\ moved' \in [Requests -> BOOLEAN]
  BY DEF SessionType, Finish, Steps
<1>2. seenBlueprint' \in [Requests -> BlueprintRow \cup {None}]
  BY DEF SessionType, Finish
<1>3. /\ seenExam' \in [Requests -> ExamRow \cup {None}]
      /\ seenPublication' \in [Requests -> PublicationRow \cup {None}]
  BY DEF SessionType, Finish
<1> QED
  BY <1>1, <1>2, <1>3 DEF SessionType

LEMMA FinishOthers ==
    ASSUME SessionType, NEW r \in Requests, Finish(r)
    PROVE  /\ pc'[r] = "idle" /\ req'[r] = Idle
           /\ \A q \in Requests \ {r} :
                /\ pc'[q] = pc[q] /\ req'[q] = req[q] /\ seenExam'[q] = seenExam[q]
                /\ seenBlueprint'[q] = seenBlueprint[q]
                /\ seenPublication'[q] = seenPublication[q] /\ moved'[q] = moved[q]
BY DEF SessionType, Finish

\* What a request relies on is still so if nothing of it changes.
LEMMA SameSound ==
    ASSUME NEW q \in Requests, Sound(q),
           UNCHANGED <<contract, publication, made>>,
           pc'[q] = pc[q], req'[q] = req[q], seenExam'[q] = seenExam[q],
           seenBlueprint'[q] = seenBlueprint[q],
           seenPublication'[q] = seenPublication[q],
           moved'[q] = moved[q], met'[q] = met[q]
    PROVE  Sound(q)'
BY DEF Sound, Flow, Loaded, Aware, HasLoaded, Current, contract

LEMMA IdleSound ==
    ASSUME NEW q \in Requests, pc'[q] = "idle", req'[q] = Idle, ~met'[q]
    PROVE  Sound(q)'
BY DEF Sound, Flow, Loaded, Aware, HasLoaded, Current, Idle

\* What concerns the rows alone.
Rows == RowsInv /\ PublicationWhole /\ ClonesCounted

LEMMA SameRows ==
    ASSUME Rows, UNCHANGED <<contract, library>>
    PROVE  Rows'
BY DEF Rows, RowsInv, PublicationWhole, ClonesCounted, contract, library

LEMMA Parts == IInv <=> RowType /\ SessionType /\ Rows /\ \A r \in Requests : Sound(r)
BY Types DEF IInv, CopiesInv, Rows, Sound

LEMMA PartsNext ==
    ASSUME RowType', SessionType', Rows', \A r \in Requests : Sound(r)'
    PROVE  IInv'
BY TypesNext DEF IInv, CopiesInv, Rows, Sound

-----------------------------------------------------------------------------
(* The owner and the users. *)

LEMMA ReviewedType ==
    ASSUME SessionType, Reviewed,
           UNCHANGED <<pc, req, seenExam, seenBlueprint, seenPublication, met>>
    PROVE  SessionType'
<1>1. \A r \in Requests : (req[r].op \in {"publish", "mock"}) \in BOOLEAN
  OBVIOUS
<1>2. moved' \in [Requests -> BOOLEAN]
  BY <1>1 DEF Reviewed
<1> QED
  BY <1>2 DEF SessionType

\* A review that keeps what is approved keeps what is made of it.
LEMMA ReviewKeeps ==
    ASSUME IInv, exam # None, Reviewed, RowType', exam' # None,
           UNCHANGED <<library, mock, pc, req, seenExam, seenBlueprint,
                       seenPublication, met>>,
           exam'.config = commits'[exam'.version],
           exam'.version \in Nat, exam.version \in Nat, exam'.version >= exam.version,
           \A n \in 1..exam.version : commits'[n] = commits[n],
           approved' # None => approved'.content \in approvals'[approved'.version],
           \A v \in Blueprints : approvals[v] \subseteq approvals'[v]
    PROVE  IInv'
<1>1. /\ RowType /\ SessionType /\ Rows /\ \A r \in Requests : Sound(r)
  BY Parts
<1>2. /\ exam # None /\ exam \in ExamRow
      /\ UNCHANGED <<publication, cloneOf, copies, made, torn, raced>>
      /\ UNCHANGED <<pc, req, seenExam, seenBlueprint, seenPublication, met>> /\ Reviewed
  BY <1>1 DEF library, RowType
<1>3. SessionType'
  BY <1>1, <1>2, ReviewedType
<1>4. RowsInv' /\ ClonesCounted'
  <2>1. publication # None => publication.version \in Nat
    BY <1>1 DEF RowType, PublicationRow
  <2>2. ClonesCounted'
    BY <1>1, <1>2 DEF Rows, ClonesCounted
  <2>3. publication' # None => publication'.version <= exam'.version
    BY <1>1, <1>2, <2>1 DEF Rows, RowsInv
  <2> QED
    BY <1>1, <1>2, <2>2, <2>3 DEF Rows, RowsInv
<1>5. PublicationWhole'
  <2> SUFFICES ASSUME publication # None, ~torn PROVE PublicationWhole'
    BY <1>2 DEF PublicationWhole
  <2>1. /\ publication.version \in 1..exam.version /\ publication.blueprint \in Blueprints
        /\ publication.content \in Configs
    BY <1>1 DEF RowType, Rows, RowsInv, PublicationRow
  <2>2. commits'[publication.version] = commits[publication.version]
    BY <2>1
  <2>3. publication.content \in approvals'[publication.blueprint]
    BY <1>1, <2>1 DEF Rows, PublicationWhole
  <2> QED
    BY <1>1, <1>2, <2>2, <2>3 DEF Rows, PublicationWhole
<1>6. ASSUME NEW q \in Requests PROVE Sound(q)'
  <2>1. moved'[q] <=> req[q].op \in {"publish", "mock"}
    BY <1>2 DEF Reviewed
  <2>2. Flow(q)' /\ Aware(q)'
    BY <1>1, <1>2 DEF Sound, Flow, Aware, HasLoaded
  <2>3. Current(q)'
    BY <1>2, <2>1 DEF Current
  <2>4. Loaded(q)'
    <3>1. CASE req[q].op = "publish"
      <4>1. seenExam[q] \in ExamRow /\ seenExam[q].version \in 1..exam.version
        BY <1>1, <1>2, <3>1 DEF Sound, Loaded, SessionType, ExamRow
      <4>2. commits'[seenExam[q].version] = commits[seenExam[q].version]
        BY <4>1
      <4>3. pc[q] # "approved" =>
              /\ seenBlueprint[q] # None
              /\ seenBlueprint[q].content \in approvals'[seenBlueprint[q].version]
        <5> SUFFICES ASSUME pc[q] # "approved"
                     PROVE  /\ seenBlueprint[q] # None
                            /\ seenBlueprint[q].content
                                 \in approvals'[seenBlueprint[q].version]
          OBVIOUS
        <5>1. /\ seenBlueprint[q] # None
              /\ seenBlueprint[q].content \in approvals[seenBlueprint[q].version]
          BY <1>1, <1>2, <3>1 DEF Sound, Loaded
        <5>2. seenBlueprint[q].version \in Blueprints
          BY <1>1, <5>1 DEF SessionType, BlueprintRow
        <5> QED
          BY <5>1, <5>2
      <4> QED
        BY <1>1, <1>2, <3>1, <4>1, <4>2, <4>3 DEF Sound, Loaded
    <3>2. CASE req[q].op # "publish"
      BY <1>1, <1>2, <3>2 DEF Sound, Loaded
    <3> QED
      BY <3>1, <3>2
  <2> QED
    BY <2>2, <2>3, <2>4 DEF Sound
<1> QED
  BY <1>3, <1>4, <1>5, <1>6, PartsNext DEF Rows

LEMMA ConfiguredRow ==
    ASSUME RowType, exam # None, NEW c \in Configs, Configured(c)
    PROVE  /\ exam' \in ExamRow /\ exam' # None
           /\ exam' = [config |-> c, version |-> exam.version + 1]
           /\ exam'.config = c /\ exam'.version = exam.version + 1
           /\ exam.version \in 1..MaxConfig
           /\ commits' \in [1..MaxConfig -> Configs \cup {None}]
           /\ commits'[exam'.version] = c
           /\ \A n \in 1..exam.version : commits'[n] = commits[n]
<1>1. exam \in ExamRow /\ exam.version \in 1..MaxConfig
  BY DEF RowType, ExamRow
<1>2. exam' = [config |-> c, version |-> exam.version + 1] /\ exam.version < MaxConfig
  BY DEF Configured
<1>3. exam' \in ExamRow
  BY <1>1, <1>2 DEF ExamRow
<1>4. /\ commits \in [1..MaxConfig -> Configs \cup {None}]
      /\ commits' = [commits EXCEPT ![exam.version + 1] = c]
      /\ exam.version + 1 \in 1..MaxConfig
  BY <1>1, <1>2 DEF Configured, RowType
<1>5. /\ commits' \in [1..MaxConfig -> Configs \cup {None}]
      /\ commits'[exam.version + 1] = c
      /\ \A n \in 1..exam.version : commits'[n] = commits[n]
  BY <1>1, <1>4
<1> QED
  BY <1>1, <1>2, <1>3, <1>5

LEMMA ConfigureKeeps == ASSUME IInv, NEW c \in Forms, Configure(c) PROVE IInv'
<1>1. RowType /\ exam # None /\ c \in Configs /\ Configured(c)
  BY Parts DEF Configure, Review
<1>2. RowType'
  BY <1>1, ConfiguredRow DEF RowType, Configure, Review, library
<1>3. \A n \in 1..exam.version : commits'[n] = commits[n]
  BY <1>1, ConfiguredRow
<1>4. exam'.config = commits'[exam'.version]
  BY <1>1, ConfiguredRow
<1> QED
  BY <1>1, <1>2, <1>3, <1>4, ConfiguredRow, ReviewKeeps, Parts
  DEF Configure, Review, Rows, RowsInv

LEMMA ApproveKeeps ==
    ASSUME IInv, NEW c \in Configs, NEW v \in Blueprints, Approve(v, c) PROVE IInv'
<1>1. /\ RowType /\ exam # None /\ Configured(c)
      /\ v \in 1..latest /\ latest' = latest
      /\ approved' = [version |-> v, content |-> c]
      /\ approvals' = [approvals EXCEPT ![v] = @ \cup {c}]
  BY Parts DEF Approve, Review
<1>2. RowType'
  <2>1. /\ approved' \in BlueprintRow /\ VersionOf(approved') = v
        /\ approvals' \in [Blueprints -> SUBSET Configs]
    BY <1>1 DEF RowType, BlueprintRow, VersionOf
  <2>2. latest' \in v..MaxBlueprint
    BY <1>1 DEF RowType, VersionOf, BlueprintRow, Blueprints
  <2> QED
    BY <1>1, <2>1, <2>2, ConfiguredRow DEF RowType, Approve, Review, library
<1>3. \A n \in 1..exam.version : commits'[n] = commits[n]
  BY <1>1, ConfiguredRow
<1>4. exam'.config = commits'[exam'.version]
  BY <1>1, ConfiguredRow
<1>5. /\ approved'.content \in approvals'[approved'.version]
      /\ \A w \in Blueprints : approvals[w] \subseteq approvals'[w]
  BY <1>1 DEF RowType
<1> QED
  BY <1>1, <1>2, <1>3, <1>4, <1>5, ConfiguredRow, ReviewKeeps
  DEF Approve, Review

LEMMA DraftKeeps == ASSUME IInv, Draft \/ MarkStale PROVE IInv'
<1>1. /\ RowType /\ exam # None /\ UNCHANGED <<exam, commits, approvals>>
      /\ approved' \in {None, approved}
  BY Parts DEF Draft, MarkStale, Review
<1>2. RowType'
  <2>1. VersionOf(approved') \in {0, VersionOf(approved)} /\ VersionOf(approved) \in Nat
    BY <1>1 DEF RowType, VersionOf, BlueprintRow, Blueprints
  <2>2. latest' \in VersionOf(approved')..MaxBlueprint
    BY <1>1, <2>1 DEF RowType, Draft, MarkStale, Review
  <2> QED
    BY <1>1, <2>2 DEF RowType, Draft, MarkStale, Review, library
<1>3. exam.version \in Nat
  BY <1>1 DEF RowType, ExamRow
<1> QED
  BY <1>1, <1>2, <1>3, ReviewKeeps, Parts DEF Draft, MarkStale, Review, Rows, RowsInv

\* Nothing is made of an exam that is gone.
LEMMA DeleteExamKeeps == ASSUME IInv, DeleteExam PROVE IInv'
<1>1. RowType /\ SessionType /\ Rows /\ \A r \in Requests : Sound(r)
  BY Parts
<1>2. RowType'
  <2>1. /\ approvals' \in [Blueprints -> SUBSET Configs]
        /\ commits' \in [1..MaxConfig -> Configs \cup {None}]
    BY DEF DeleteExam
  <2>2. /\ exam' \in ExamRow \cup {None} /\ publication' \in PublicationRow \cup {None}
        /\ cloneOf' \subseteq Users /\ copies' \in [Users -> 0..MaxClones]
        /\ mock' \in Mock \cup {None}
    BY <1>1 DEF DeleteExam, RowType
  <2>3. /\ approved' \in BlueprintRow \cup {None}
        /\ latest' \in VersionOf(approved')..MaxBlueprint /\ made' \in 0..MaxClones
    BY BoundsAssumption DEF DeleteExam, VersionOf
  <2>4. torn' \in BOOLEAN /\ raced' \in BOOLEAN
    BY Zenon DEF DeleteExam
  <2> QED
    BY <2>1, <2>2, <2>3, <2>4 DEF RowType
<1>3. SessionType'
  BY <1>1, ReviewedType DEF DeleteExam
<1>4. Rows'
  BY DEF DeleteExam, Rows, RowsInv, PublicationWhole, ClonesCounted
<1>5. ASSUME NEW q \in Requests PROVE Sound(q)'
  <2>1. moved'[q] <=> req[q].op \in {"publish", "mock"}
    BY DEF DeleteExam, Reviewed
  <2> QED
    BY <1>1, <2>1 DEF DeleteExam, Sound, Flow, Loaded, Aware, HasLoaded, Current
<1> QED
  BY <1>2, <1>3, <1>4, <1>5, PartsNext

LEMMA DeleteCopyKeeps == ASSUME IInv, NEW u \in Users, DeleteCopy(u) PROVE IInv'
<1>1. RowType /\ SessionType /\ Rows /\ \A r \in Requests : Sound(r)
  BY Parts
<1>2. /\ UNCHANGED <<contract, publication, made, torn, raced, mock, session>>
      /\ copies[u] > 0 /\ copies' = [copies EXCEPT ![u] = @ - 1]
      /\ cloneOf' = cloneOf \ {u}
  BY DEF DeleteCopy
<1>3. RowType'
  BY <1>1, <1>2 DEF RowType, contract
<1>4. SessionType'
  BY <1>1, <1>2 DEF SessionType, session
<1>5. exam # None => \A w \in Users : copies'[w] <= 1 /\ (copies'[w] = 1 <=> w \in cloneOf')
  BY <1>1, <1>2 DEF Rows, RowsInv, RowType
<1>6. RowsInv' /\ PublicationWhole'
  BY <1>1, <1>2, <1>5 DEF Rows, RowsInv, PublicationWhole, contract
<1>7. ClonesCounted'
  BY <1>1, <1>2, <1>5 DEF Rows, RowsInv, ClonesCounted
<1>8. ASSUME NEW q \in Requests PROVE Sound(q)'
  BY <1>1, <1>2, SameSound DEF session
<1> QED
  BY <1>3, <1>4, <1>6, <1>7, <1>8, PartsNext DEF Rows

-----------------------------------------------------------------------------
(* Steps of a request that commit nothing but a mock. *)

LEMMA LocalKeeps ==
    ASSUME IInv, NEW r \in Requests, UNCHANGED <<contract, library>>,
           mock' \in Mock \cup {None}, SessionType', Sound(r)',
           \A q \in Requests \ {r} :
             /\ pc'[q] = pc[q] /\ req'[q] = req[q] /\ seenExam'[q] = seenExam[q]
             /\ seenBlueprint'[q] = seenBlueprint[q]
             /\ seenPublication'[q] = seenPublication[q]
             /\ moved'[q] = moved[q] /\ met'[q] = met[q]
    PROVE  IInv'
<1>1. RowType /\ SessionType /\ Rows /\ \A q \in Requests : Sound(q)
  BY Parts
<1>2. RowType'
  BY <1>1 DEF RowType, contract, library
<1>3. Rows'
  BY <1>1, SameRows
<1>4. UNCHANGED <<publication, made>>
  BY DEF library
<1>5. \A q \in Requests \ {r} : Sound(q)'
  BY <1>1, <1>4, SameSound
<1> QED
  BY <1>2, <1>3, <1>5, PartsNext

LEMMA BeginSession ==
    ASSUME SessionType, NEW r \in Requests, NEW request \in Request,
           NEW first \in Steps \ {"idle"}, Begin(r, request, first)
    PROVE  /\ pc' \in [Requests -> Steps] /\ req' \in [Requests -> {Idle} \cup Request]
           /\ pc'[r] = first /\ req'[r] = request /\ pc[r] = "idle"
           /\ \A q \in Requests \ {r} : pc'[q] = pc[q] /\ req'[q] = req[q]
BY DEF SessionType, Begin

LEMMA GoesSession ==
    ASSUME SessionType, NEW r \in Requests, NEW step \in Steps \ {"idle"}, Goes(r, step)
    PROVE  /\ pc' \in [Requests -> Steps] /\ pc'[r] = step
           /\ \A q \in Requests \ {r} : pc'[q] = pc[q]
BY DEF SessionType, Goes

LEMMA LoadExamKeeps == ASSUME IInv, NEW r \in Requests, LoadExam(r) PROVE IInv'
<1>1. RowType /\ SessionType /\ Rows /\ Sound(r)
  BY Parts
<1>2. PICK op \in {"publish", "mock"} :
        (op = "mock" => exam.config # None) /\ Begin(r, [op |-> op], "approved")
  BY DEF LoadExam
<1> DEFINE request == [op |-> op]
<1>3. request \in Request /\ "approved" \in Steps \ {"idle"} /\ request.op = op
  BY DEF Request, Steps
<1> HIDE DEF request
<1>4. Begin(r, request, "approved")
  BY <1>2 DEF request
<1>5. /\ pc' \in [Requests -> Steps] /\ req' \in [Requests -> {Idle} \cup Request]
      /\ pc'[r] = "approved" /\ req'[r] = request /\ pc[r] = "idle"
      /\ \A q \in Requests \ {r} : pc'[q] = pc[q] /\ req'[q] = req[q]
  BY <1>1, <1>3, <1>4, BeginSession
<1>6. /\ exam # None /\ exam \in ExamRow /\ exam.version \in Nat
      /\ seenExam' = [seenExam EXCEPT ![r] = exam]
      /\ mock' = None /\ UNCHANGED <<contract, library, seenBlueprint, seenPublication,
                                     moved, met>>
  BY <1>1, <1>4 DEF LoadExam, Begin, RowType, ExamRow
<1>7. /\ seenExam' \in [Requests -> ExamRow \cup {None}] /\ seenExam'[r] = exam
      /\ \A q \in Requests \ {r} : seenExam'[q] = seenExam[q]
  BY <1>1, <1>6 DEF SessionType
<1>8. SessionType'
  BY <1>1, <1>5, <1>6, <1>7 DEF SessionType
<1>9. Sound(r)'
  <2>1. Flow(r)' /\ Aware(r)'
    BY <1>1, <1>3, <1>5, <1>6 DEF Sound, Flow, Aware, HasLoaded
  <2>2. Loaded(r)'
    BY <1>1, <1>2, <1>3, <1>5, <1>6, <1>7 DEF Loaded, Rows, RowsInv, contract
  <2>3. Current(r)'
    BY <1>5, <1>6, <1>7 DEF Current, contract
  <2> QED
    BY <2>1, <2>2, <2>3 DEF Sound
<1> QED
  BY <1>5, <1>6, <1>7, <1>8, <1>9, LocalKeeps

LEMMA BeginCloneKeeps ==
    ASSUME IInv, NEW r \in Requests, BeginUnpublish(r) \/ BeginClone(r) PROVE IInv'
<1>1. RowType /\ SessionType /\ Rows /\ Sound(r)
  BY Parts
<1>2. PICK request \in Request, first \in Steps :
        /\ Begin(r, request, first)
        /\ \/ request.op = "unpublish" /\ first = "write"
           \/ request.op = "clone" /\ first = "existing"
  <2>1. CASE BeginUnpublish(r)
    <3>1. [op |-> "unpublish"] \in Request /\ [op |-> "unpublish"].op = "unpublish"
          /\ "write" \in Steps
      BY DEF Request, Steps
    <3>2. Begin(r, [op |-> "unpublish"], "write")
      BY <2>1 DEF BeginUnpublish
    <3> QED
      BY <3>1, <3>2
  <2>2. CASE BeginClone(r)
    <3>1. PICK u \in Users : Begin(r, [op |-> "clone", user |-> u], "existing")
      BY <2>2 DEF BeginClone
    <3>2. /\ [op |-> "clone", user |-> u] \in Request
          /\ [op |-> "clone", user |-> u].op = "clone" /\ "existing" \in Steps
      BY DEF Request, Steps
    <3> QED
      BY <3>1, <3>2
  <2> QED
    BY <2>1, <2>2
<1>3. /\ pc' \in [Requests -> Steps] /\ req' \in [Requests -> {Idle} \cup Request]
      /\ pc'[r] = first /\ req'[r] = request /\ pc[r] = "idle"
      /\ \A q \in Requests \ {r} : pc'[q] = pc[q] /\ req'[q] = req[q]
  BY <1>1, <1>2, BeginSession
<1>4. /\ publication # None /\ publication \in PublicationRow
      /\ seenPublication' = [seenPublication EXCEPT ![r] = publication]
      /\ mock' = None /\ UNCHANGED <<contract, library, seenBlueprint, seenExam,
                                     moved, met>>
  BY <1>1, <1>2 DEF BeginUnpublish, BeginClone, Begin, RowType
<1>5. /\ seenPublication' \in [Requests -> PublicationRow \cup {None}]
      /\ seenPublication'[r] = publication
      /\ \A q \in Requests \ {r} : seenPublication'[q] = seenPublication[q]
  BY <1>1, <1>4 DEF SessionType
<1>6. SessionType'
  BY <1>1, <1>3, <1>4, <1>5 DEF SessionType
<1>7. Sound(r)'
  <2>1. Flow(r)' /\ Loaded(r)' /\ Current(r)'
    BY <1>2, <1>3 DEF Flow, Loaded, Current
  <2>2. publication.count <= made /\ ~met[r]
    BY <1>1, <1>3, <1>4 DEF Rows, ClonesCounted, Sound, Aware, HasLoaded
  <2>3. Aware(r)'
    BY <1>2, <1>3, <1>4, <1>5, <2>2 DEF Aware, HasLoaded, library
  <2> QED
    BY <2>1, <2>3 DEF Sound
<1> QED
  BY <1>3, <1>4, <1>5, <1>6, <1>7, LocalKeeps

LEMMA ReadKeeps ==
    ASSUME IInv, NEW r \in Requests,
           ReadApproved(r) \/ LoadPublication(r) \/ FindNoClone(r)
             \/ ReadLatest(r) \/ CallProvider(r)
    PROVE  IInv'
<1>1. RowType /\ SessionType /\ Rows /\ Sound(r)
  BY Parts
<1>2. PICK step \in Steps \ {"idle"} :
        /\ Goes(r, step)
        /\ ReadApproved(r) => pc[r] = "approved" /\
              step = (IF req[r].op = "mock" THEN "latest" ELSE "publication")
        /\ LoadPublication(r) => pc[r] = "publication" /\ step = "write"
        /\ FindNoClone(r) => At(r, "existing", "clone") /\ step = "write"
        /\ ReadLatest(r) =>
             /\ pc[r] = "latest" /\ step = "generate"
             /\ latest \in {0, VersionOf(seenBlueprint[r]), VersionOf(approved)}
        /\ CallProvider(r) => pc[r] = "generate" /\ step = "provider"
  BY DEF ReadApproved, LoadPublication, FindNoClone, ReadLatest, CallProvider, At, Steps
<1>3. /\ pc' \in [Requests -> Steps] /\ pc'[r] = step
      /\ \A q \in Requests \ {r} : pc'[q] = pc[q]
  BY <1>1, <1>2, GoesSession
<1>4. UNCHANGED <<contract, library, mock, req, moved, met>>
  BY <1>2 DEF Goes
<1>5. /\ seenExam' = seenExam
      /\ seenBlueprint' \in [Requests -> BlueprintRow \cup {None}]
      /\ seenPublication' \in [Requests -> PublicationRow \cup {None}]
      /\ \A q \in Requests \ {r} : /\ seenBlueprint'[q] = seenBlueprint[q]
                                   /\ seenPublication'[q] = seenPublication[q]
  <2>1. /\ seenExam' = seenExam
        /\ \/ seenBlueprint' = seenBlueprint
           \/ seenBlueprint' = [seenBlueprint EXCEPT ![r] = approved]
        /\ \/ seenPublication' = seenPublication
           \/ seenPublication' = [seenPublication EXCEPT ![r] = publication]
    BY DEF ReadApproved, LoadPublication, FindNoClone, ReadLatest, CallProvider
  <2>2. /\ seenBlueprint \in [Requests -> BlueprintRow \cup {None}]
        /\ approved \in BlueprintRow \cup {None}
    BY <1>1 DEF SessionType, RowType
  <2>3. /\ seenPublication \in [Requests -> PublicationRow \cup {None}]
        /\ publication \in PublicationRow \cup {None}
    BY <1>1 DEF SessionType, RowType
  <2>4. /\ seenBlueprint' \in [Requests -> BlueprintRow \cup {None}]
        /\ \A q \in Requests \ {r} : seenBlueprint'[q] = seenBlueprint[q]
    BY <2>1, <2>2
  <2>5. /\ seenPublication' \in [Requests -> PublicationRow \cup {None}]
        /\ \A q \in Requests \ {r} : seenPublication'[q] = seenPublication[q]
    BY <2>1, <2>3
  <2> QED
    BY <2>1, <2>4, <2>5
<1>6. SessionType'
  BY <1>1, <1>3, <1>4, <1>5 DEF SessionType
<1>7. Sound(r)'
  <2>1. CASE ReadApproved(r)
    <3>1. /\ seenBlueprint'[r] = approved /\ seenPublication'[r] = seenPublication[r]
          /\ req[r].op = "publish" => approved # None
      BY <1>1, <2>1 DEF ReadApproved, SessionType
    <3>2. req[r].op \in {"publish", "mock"} /\ pc[r] = "approved"
      BY <1>1, <1>2, <2>1 DEF Sound, Flow, Request, SessionType
    <3> QED
      BY <1>1, <1>2, <1>3, <1>4, <1>5, <2>1, <3>1, <3>2
      DEF Sound, Flow, Loaded, Aware, HasLoaded, Current, Rows, RowsInv, contract, library
  <2>2. CASE LoadPublication(r)
    <3>1. /\ seenBlueprint'[r] = seenBlueprint[r] /\ seenPublication'[r] = publication
      BY <1>1, <2>2 DEF LoadPublication, SessionType
    <3>2. req[r].op = "publish" /\ pc[r] = "publication"
      BY <1>1, <1>2, <2>2 DEF Sound, Flow, Request, SessionType
    <3> QED
      BY <1>1, <1>2, <1>3, <1>4, <1>5, <2>2, <3>1, <3>2
      DEF Sound, Flow, Loaded, SameEdition, Aware, HasLoaded, Current, contract, library
  <2>3. CASE FindNoClone(r) \/ ReadLatest(r) \/ CallProvider(r)
    <3>1. seenBlueprint' = seenBlueprint /\ seenPublication' = seenPublication
      BY <2>3 DEF FindNoClone, ReadLatest, CallProvider
    <3>2. \/ req[r].op = "clone" /\ pc[r] = "existing" /\ step = "write"
          \/ /\ req[r].op = "mock" /\ pc[r] = "latest" /\ step = "generate"
             /\ latest \in {0, VersionOf(seenBlueprint[r]), VersionOf(approved)}
          \/ req[r].op = "mock" /\ pc[r] = "generate" /\ step = "provider"
      BY <1>1, <1>2, <2>3 DEF Sound, Flow, Request, SessionType, At
    <3>3. /\ seenBlueprint[r] = approved
             /\ latest \in {0, VersionOf(seenBlueprint[r]), VersionOf(approved)}
          => latest = VersionOf(approved)
      BY <1>1 DEF RowType, VersionOf, BlueprintRow, Blueprints
    <3>4. Flow(r)' /\ Loaded(r)' /\ Aware(r)'
      BY <1>1, <1>3, <1>4, <1>5, <3>1, <3>2
      DEF Sound, Flow, Loaded, Aware, HasLoaded, contract, library
    <3>5. Current(r)'
      BY <1>1, <1>3, <1>4, <1>5, <3>1, <3>2, <3>3 DEF Sound, Current, contract
    <3> QED
      BY <3>4, <3>5 DEF Sound
  <2> QED
    BY <2>1, <2>2, <2>3
<1> QED
  BY <1>3, <1>4, <1>5, <1>6, <1>7, LocalKeeps, Parts DEF RowType

\* The last step of a request that writes nothing, or a mock.
LEMMA EndKeeps ==
    ASSUME IInv, NEW r \in Requests, Finish(r), met' = [met EXCEPT ![r] = FALSE],
           UNCHANGED <<contract, library>>, mock' \in Mock \cup {None}
    PROVE  IInv'
<1>1. SessionType
  BY Parts
<1>2. /\ met' \in [Requests -> BOOLEAN] /\ ~met'[r]
      /\ \A q \in Requests \ {r} : met'[q] = met[q]
  BY <1>1 DEF SessionType
<1>3. SessionType'
  BY <1>1, <1>2, FinishType
<1>4. Sound(r)'
  BY <1>1, <1>2, FinishOthers, IdleSound
<1> QED
  BY <1>1, <1>2, <1>3, <1>4, FinishOthers, LocalKeeps

LEMMA FailKeeps == ASSUME IInv, NEW r \in Requests, Fail(r) \/ AlreadyCloned(r) PROVE IInv'
<1>1. mock' \in Mock \cup {None}
  BY Parts DEF RowType, Fail, AlreadyCloned
<1> QED
  BY <1>1, EndKeeps DEF Fail, AlreadyCloned

LEMMA MockKeeps ==
    ASSUME IInv, NEW r \in Requests, GenerateLocally(r) \/ StoreAnswer(r) PROVE IInv'
<1>1. RowType /\ SessionType /\ Sound(r)
  BY Parts
<1>2. req[r].op = "mock" /\ seenExam[r].config \in Configs
  <2>1. pc[r] \in {"generate", "provider"}
    BY DEF GenerateLocally, StoreAnswer
  <2>2. req[r].op = "mock"
    BY <1>1, <2>1 DEF Sound, Flow, Request
  <2>3. seenExam[r] \in ExamRow /\ seenExam[r].config # None
    BY <1>1, <2>2 DEF Sound, Loaded, SessionType
  <2> QED
    BY <2>2, <2>3 DEF ExamRow
<1> DEFINE config == seenExam[r].config
<1>3. DeterministicMock(config).questions \in [Sections -> Seq(Nat)]
  <2>1. \A s \in Sections : DistributePoints(config[s].points, config[s].count) \in Seq(Nat)
    <3>1. \A s \in Sections : config[s].points \in Nat /\ config[s].count \in Nat \ {0}
      BY <1>2
    <3> QED
      BY <3>1, PointsType
  <2> QED
    BY <2>1 DEF DeterministicMock
<1>4. PICK m \in [questions : [Sections -> Seq(Nat)], sound : BOOLEAN] : StoreMock(r, m)
  <2>1. CASE GenerateLocally(r)
    <3>1. DeterministicMock(config) \in [questions : [Sections -> Seq(Nat)], sound : BOOLEAN]
      BY <1>3 DEF DeterministicMock
    <3>2. StoreMock(r, DeterministicMock(config))
      BY <2>1 DEF GenerateLocally
    <3> HIDE DEF config
    <3> QED
      BY <3>1, <3>2
  <2>2. CASE StoreAnswer(r)
    BY <2>2 DEF StoreAnswer
  <2> QED
    BY <2>1, <2>2
<1>5. mock' \in Mock
  <2>1. m.questions \in [Sections -> Seq(Nat)] /\ m.sound \in BOOLEAN
    OBVIOUS
  <2>2. seenBlueprint[r] \in BlueprintRow \cup {None}
    BY <1>1 DEF SessionType
  <2> QED
    BY <1>2, <1>4, <2>1, <2>2 DEF StoreMock, Mock
<1> QED
  BY <1>4, <1>5, EndKeeps DEF StoreMock

-----------------------------------------------------------------------------
(* Commits to the library. *)

\* Those that have loaded the publication are told of its change.
LEMMA StoredKeeps ==
    ASSUME IInv, NEW r \in Requests, NEW row \in PublicationRow, Stored(r, row), Finish(r),
           UNCHANGED contract, RowType', Rows', exam # None, made' \in Nat,
           publication # None => made <= made',
           publication = None => \A q \in Requests : req[q].op # "clone",
           req[r].op # "publish" => publication # None /\ SameEdition(publication, row),
           req[r].op # "clone" /\ publication # None => row.count = publication.count
    PROVE  IInv'
<1>1. RowType /\ SessionType /\ Rows /\ \A q \in Requests : Sound(q)
  BY Parts
<1>2. publication' = row /\ row # None
  BY DEF Stored
<1>3. /\ ~met'[r]
      /\ \A q \in Requests \ {r} :
           met'[q] <=> \/ met[q]
                       \/ HasLoaded(q) /\ req[q].op = req[r].op
  BY DEF Stored
<1>4. met' \in [Requests -> BOOLEAN]
  BY DEF Stored
<1>5. SessionType'
  BY <1>1, <1>4, FinishType
<1>6. Sound(r)'
  BY <1>1, <1>3, FinishOthers, IdleSound
<1>7. ASSUME NEW q \in Requests \ {r} PROVE Sound(q)'
  <2>1. /\ pc'[q] = pc[q] /\ req'[q] = req[q] /\ seenExam'[q] = seenExam[q]
        /\ seenBlueprint'[q] = seenBlueprint[q]
        /\ seenPublication'[q] = seenPublication[q] /\ moved'[q] = moved[q]
    BY <1>1, FinishOthers
  <2>2. Flow(q)' /\ Loaded(q)' /\ Current(q)'
    BY <1>1, <2>1 DEF Sound, Flow, Loaded, Current, contract
  <2>3. req[q].op = "clone" => seenPublication[q].count <= made'
    <3> SUFFICES ASSUME req[q].op = "clone" PROVE seenPublication[q].count <= made'
      OBVIOUS
    <3>1. seenPublication[q] \in PublicationRow /\ seenPublication[q].count \in Nat
      BY <1>1 DEF Sound, Aware, SessionType, PublicationRow
    <3>2. seenPublication[q].count <= made /\ made \in Nat /\ made <= made'
      BY <1>1 DEF Sound, Aware, RowType
    <3> QED
      BY <3>1, <3>2
  <2>4. Aware(q)'
    <3>1. HasLoaded(q)' <=> HasLoaded(q)
      BY <2>1 DEF HasLoaded
    <3>2. met'[q] => HasLoaded(q)
      BY <1>1, <1>3 DEF Sound, Aware
    <3>3. req[q].op = "clone" => seenPublication[q] # None /\ publication # None
      BY <1>1 DEF Sound, Aware
    <3>4. ASSUME HasLoaded(q), ~met'[q], req[q].op = "publish"
          PROVE  SameEdition(seenPublication[q], row)
      <4>1. ~met[q] /\ req[r].op # "publish"
        BY <1>3, <3>4
      <4>2. SameEdition(seenPublication[q], publication)
        BY <1>1, <3>4, <4>1 DEF Sound, Aware
      <4> QED
        BY <1>2, <4>1, <4>2 DEF SameEdition
    <3>5. ASSUME HasLoaded(q), ~met'[q], req[q].op # "publish"
          PROVE  seenPublication[q].count = row.count
      <4>1. req[q].op = "clone" /\ ~met[q] /\ req[r].op # "clone"
        BY <1>3, <3>5 DEF HasLoaded
      <4>2. seenPublication[q].count = publication.count
        BY <1>1, <3>5, <4>1 DEF Sound, Aware
      <4> QED
        BY <3>3, <4>1, <4>2
    <3> QED
      BY <1>1, <1>2, <2>1, <2>3, <3>1, <3>2, <3>3, <3>4, <3>5 DEF Aware
  <2> QED
    BY <2>2, <2>4 DEF Sound
<1> QED
  BY <1>5, <1>6, <1>7, PartsNext

\* What a publish is about to write.
LEMMA PublishLoaded ==
    ASSUME IInv, NEW r \in Requests, At(r, "write", "publish"), exam # None
    PROVE  /\ seenExam[r] \in ExamRow /\ seenExam[r].config \in Configs \cup {None}
           /\ seenExam[r].version \in 1..MaxConfig
           /\ seenExam[r].version <= exam.version
           /\ seenExam[r].config = commits[seenExam[r].version]
           /\ seenBlueprint[r].version \in Blueprints
           /\ seenBlueprint[r].content \in Configs
           /\ seenBlueprint[r].content \in approvals[seenBlueprint[r].version]
<1>1. RowType /\ SessionType /\ Sound(r) /\ req[r].op = "publish" /\ pc[r] = "write"
  BY Parts DEF At
<1>2. /\ seenExam[r] \in ExamRow /\ seenExam[r].version <= exam.version
      /\ seenExam[r].config = commits[seenExam[r].version]
      /\ seenBlueprint[r] # None
      /\ seenBlueprint[r].content \in approvals[seenBlueprint[r].version]
  BY <1>1 DEF Sound, Loaded, SessionType
<1>3. seenBlueprint[r].version \in Blueprints /\ seenBlueprint[r].content \in Configs
  BY <1>1, <1>2 DEF SessionType, BlueprintRow
<1> QED
  BY <1>1, <1>2, <1>3 DEF RowType, ExamRow

LEMMA InsertKeeps == ASSUME IInv, NEW r \in Requests, InsertPublication(r) PROVE IInv'
<1>1. RowType /\ SessionType /\ Rows /\ \A q \in Requests : Sound(q)
  BY Parts
<1> DEFINE row == [published |-> TRUE, config |-> seenExam[r].config,
                   version |-> seenExam[r].version,
                   content |-> seenBlueprint[r].content,
                   blueprint |-> seenBlueprint[r].version, count |-> 0]
<1>2. /\ exam # None /\ publication = None /\ At(r, "write", "publish")
      /\ Stored(r, row) /\ torn' = FALSE /\ raced' = FALSE /\ made' = 0
      /\ Finish(r) /\ UNCHANGED <<contract, cloneOf, copies, mock>>
  BY DEF InsertPublication
<1>3. row \in PublicationRow
  BY <1>2, PublishLoaded DEF PublicationRow
<1>4. /\ row.config = commits[row.version] /\ row.content \in approvals[row.blueprint]
      /\ row.version <= exam.version /\ row.count = 0
  BY <1>2, PublishLoaded
<1> HIDE DEF row
<1>5. publication' = row /\ row # None
  BY <1>2, <1>3 DEF Stored
<1>6. RowType'
  <2>1. torn' \in BOOLEAN /\ raced' \in BOOLEAN
    BY <1>2, Zenon
  <2> QED
    BY <1>1, <1>2, <1>3, <1>5, <2>1 DEF RowType, contract
<1>7. Rows'
  BY <1>1, <1>2, <1>4, <1>5 DEF Rows, RowsInv, PublicationWhole, ClonesCounted, contract
<1>8. \A q \in Requests : req[q].op # "clone"
  BY <1>1, <1>2 DEF Sound, Aware, HasLoaded
<1> QED
  BY <1>2, <1>3, <1>6, <1>7, <1>8, StoredKeeps DEF At

LEMMA UpdateKeeps == ASSUME IInv, NEW r \in Requests, UpdatePublication(r) PROVE IInv'
<1>1. RowType /\ SessionType /\ Rows /\ \A q \in Requests : Sound(q)
  BY Parts
<1> DEFINE old == seenPublication[r]
           row == [published |-> Written(old.published, TRUE, publication.published),
                   config |-> Written(old.config, seenExam[r].config, publication.config),
                   version |-> Written(old.version, seenExam[r].version,
                                       publication.version),
                   content |-> Written(old.content, seenBlueprint[r].content,
                                       publication.content),
                   blueprint |-> Written(old.blueprint, seenBlueprint[r].version,
                                         publication.blueprint),
                   count |-> publication.count]
<1>2. /\ publication # None /\ At(r, "write", "publish")
      /\ Stored(r, row) /\ torn' = met[r]
      /\ Finish(r) /\ UNCHANGED <<contract, cloneOf, copies, made, raced, mock>>
  BY DEF UpdatePublication
<1>3. exam # None /\ publication \in PublicationRow
  BY <1>1, <1>2 DEF Rows, RowsInv, RowType
<1>4. /\ publication.published \in BOOLEAN /\ publication.config \in Configs \cup {None}
      /\ publication.version \in 1..MaxConfig /\ publication.content \in Configs
      /\ publication.blueprint \in Blueprints /\ publication.count \in 0..MaxClones
      /\ publication.version <= exam.version
  BY <1>1, <1>2, <1>3 DEF PublicationRow, Rows, RowsInv
<1>5. /\ row.published \in BOOLEAN /\ row.count = publication.count
      /\ row.config \in {seenExam[r].config, publication.config}
      /\ row.version \in {seenExam[r].version, publication.version}
      /\ row.content \in {seenBlueprint[r].content, publication.content}
      /\ row.blueprint \in {seenBlueprint[r].version, publication.blueprint}
  BY <1>4 DEF Written
<1>6. row \in PublicationRow
  <2>1. /\ row.config \in Configs \cup {None} /\ row.version \in 1..MaxConfig
        /\ row.content \in Configs /\ row.blueprint \in Blueprints
        /\ row.count \in 0..MaxClones
    BY <1>2, <1>3, <1>4, <1>5, PublishLoaded
  <2> QED
    BY <1>5, <2>1 DEF PublicationRow
<1>7. ASSUME ~met[r]
      PROVE  /\ row.config = seenExam[r].config /\ row.version = seenExam[r].version
             /\ row.content = seenBlueprint[r].content
             /\ row.blueprint = seenBlueprint[r].version
  <2>1. SameEdition(old, publication) /\ old # None
    BY <1>1, <1>2, <1>3, <1>7 DEF Sound, Aware, HasLoaded, At, SameEdition
  <2> QED
    BY <2>1 DEF Written, SameEdition
<1>8. row.version <= exam.version
  BY <1>2, <1>3, <1>4, <1>5, PublishLoaded
<1> HIDE DEF row
<1>9. publication' = row /\ row # None
  BY <1>2, <1>6 DEF Stored
<1>10. RowType'
  <2>1. torn' \in BOOLEAN
    BY <1>1, <1>2 DEF SessionType
  <2> QED
    BY <1>1, <1>2, <1>6, <1>9, <2>1 DEF RowType, contract
<1>11. PublicationWhole'
  BY <1>2, <1>3, <1>7, <1>9, PublishLoaded DEF PublicationWhole, contract
<1>12. RowsInv' /\ ClonesCounted'
  BY <1>1, <1>2, <1>3, <1>5, <1>8, <1>9 DEF Rows, RowsInv, ClonesCounted, contract
<1>13. made' \in Nat /\ made \in Nat /\ made' = made
  BY <1>1, <1>2 DEF RowType
<1> QED
  BY <1>2, <1>3, <1>5, <1>6, <1>10, <1>11, <1>12, <1>13, StoredKeeps DEF Rows, At

LEMMA UnpublishKeeps == ASSUME IInv, NEW r \in Requests, Unpublish(r) PROVE IInv'
<1>1. RowType /\ SessionType /\ Rows
  BY Parts
<1> DEFINE shown == Written(seenPublication[r].published, FALSE, publication.published)
           row == [publication EXCEPT !.published = shown]
<1>2. /\ publication # None /\ Stored(r, row) /\ req[r].op = "unpublish"
      /\ Finish(r) /\ UNCHANGED <<contract, cloneOf, copies, made, torn, raced, mock>>
  BY DEF Unpublish, At
<1>3. exam # None /\ publication \in PublicationRow
  BY <1>1, <1>2 DEF Rows, RowsInv, RowType
<1>4. shown \in BOOLEAN
  BY <1>3 DEF Written, PublicationRow
<1> HIDE DEF shown
<1>5. /\ row \in PublicationRow /\ row.config = publication.config
      /\ row.version = publication.version /\ row.content = publication.content
      /\ row.blueprint = publication.blueprint /\ row.count = publication.count
  BY <1>3, <1>4 DEF PublicationRow
<1> HIDE DEF row
<1>6. publication' = row /\ row # None
  BY <1>2, <1>5 DEF Stored
<1>7. RowType'
  BY <1>1, <1>2, <1>5, <1>6 DEF RowType, contract
<1>8. Rows'
  BY <1>1, <1>2, <1>3, <1>5, <1>6
  DEF Rows, RowsInv, PublicationWhole, ClonesCounted, contract
<1>9. made' \in Nat /\ made \in Nat /\ made' = made
  BY <1>1, <1>2 DEF RowType
<1>10. SameEdition(publication, row)
  BY <1>2, <1>5, <1>6 DEF SameEdition
<1> QED
  BY <1>2, <1>3, <1>5, <1>7, <1>8, <1>9, <1>10, StoredKeeps

LEMMA CloneKeeps == ASSUME IInv, NEW r \in Requests, CommitClone(r) PROVE IInv'
<1>1. RowType /\ SessionType /\ Rows /\ Sound(r)
  BY Parts
<1> DEFINE count == seenPublication[r].count + 1
           row == [publication EXCEPT !.count = count]
           u == req[r].user
<1>2. /\ publication # None /\ made < MaxClones /\ u \notin cloneOf
      /\ cloneOf' = cloneOf \cup {u} /\ copies' = [copies EXCEPT ![u] = @ + 1]
      /\ Stored(r, row) /\ made' = made + 1 /\ raced' = (raced \/ met[r])
      /\ Finish(r) /\ UNCHANGED <<contract, torn, mock>>
      /\ pc[r] = "write" /\ req[r].op = "clone"
  BY DEF CommitClone, At
<1>3. exam # None /\ publication \in PublicationRow
  BY <1>1, <1>2 DEF Rows, RowsInv, RowType
<1>4. u \in Users
  <2>1. req[r] \in {Idle} \cup Request
    BY <1>1 DEF SessionType
  <2>2. req[r] \in [op : {"clone"}, user : Users]
    BY <1>2, <2>1 DEF Request, Idle
  <2> QED
    BY <2>2
<1>5. /\ made \in Nat /\ seenPublication[r].count \in Nat
      /\ seenPublication[r].count <= made /\ count \in 0..MaxClones /\ count <= made'
  BY <1>1, <1>2, <1>3 DEF RowType, SessionType, PublicationRow, Sound, Aware
<1>6. ~met[r] => count = publication.count + 1
  BY <1>1, <1>2, <1>3 DEF Sound, Aware, HasLoaded
<1> HIDE DEF count
<1>7. /\ row \in PublicationRow /\ row.config = publication.config
      /\ row.version = publication.version /\ row.content = publication.content
      /\ row.blueprint = publication.blueprint /\ row.count = count
  BY <1>3, <1>5 DEF PublicationRow
<1> HIDE DEF row
<1>8. publication' = row /\ row # None
  BY <1>2, <1>7 DEF Stored
<1>9. /\ copies' \in [Users -> 0..MaxClones]
      /\ \A w \in Users : copies'[w] <= 1 /\ (copies'[w] = 1 <=> w \in cloneOf')
  BY <1>1, <1>2, <1>3, <1>4, <1>5 DEF RowType, Rows, RowsInv
<1>10. RowType'
  <2>1. raced' \in BOOLEAN
    BY <1>1, <1>2 DEF RowType, SessionType
  <2>2. made' \in 0..MaxClones
    BY <1>2, <1>5
  <2> QED
    BY <1>1, <1>2, <1>4, <1>7, <1>8, <1>9, <2>1, <2>2 DEF RowType, contract
<1>11. RowsInv' /\ PublicationWhole'
  BY <1>1, <1>2, <1>3, <1>7, <1>8, <1>9 DEF Rows, RowsInv, PublicationWhole, contract
<1>12. ClonesCounted'
  <2>1. ~raced' => row.count = made'
    BY <1>1, <1>2, <1>6, <1>7 DEF Rows, ClonesCounted
  <2> QED
    BY <1>5, <1>7, <1>8, <1>9, <2>1 DEF ClonesCounted
<1>13. made' \in Nat /\ made <= made'
  BY <1>2, <1>5
<1>14. SameEdition(publication, row)
  BY <1>2, <1>7, <1>8 DEF SameEdition
<1> QED
  BY <1>2, <1>3, <1>7, <1>10, <1>11, <1>12, <1>13, <1>14, StoredKeeps DEF Rows

-----------------------------------------------------------------------------
(* The invariant. *)

LEMMA InitInv == Init => IInv
<1> SUFFICES ASSUME Init PROVE IInv
  OBVIOUS
<1>1. RowType
  <2>1. exam \in ExamRow
    BY DEF Init, ExamRow
  <2>2. torn \in BOOLEAN /\ raced \in BOOLEAN
    BY Zenon DEF Init
  <2>3. /\ approvals \in [Blueprints -> SUBSET Configs]
        /\ commits \in [1..MaxConfig -> Configs \cup {None}]
        /\ copies \in [Users -> 0..MaxClones]
    BY DEF Init
  <2>4. /\ approved \in BlueprintRow \cup {None}
        /\ latest \in VersionOf(approved)..MaxBlueprint /\ made \in 0..MaxClones
    BY BoundsAssumption DEF Init, VersionOf
  <2> QED
    BY <2>1, <2>2, <2>3, <2>4 DEF Init, RowType
<1>2. SessionType
  BY DEF Init, SessionType, Steps
<1>3. Rows
  BY DEF Init, Rows, RowsInv, PublicationWhole, ClonesCounted
<1>4. \A r \in Requests : Sound(r)
  BY DEF Init, Sound, Flow, Loaded, Aware, HasLoaded, Current, Idle
<1> QED
  BY <1>1, <1>2, <1>3, <1>4, Parts

LEMMA StutterKeeps == ASSUME IInv, UNCHANGED vars PROVE IInv'
<1>1. RowType /\ SessionType /\ Rows /\ \A r \in Requests : Sound(r)
  BY Parts
<1>2. RowType' /\ SessionType'
  BY <1>1 DEF RowType, SessionType, vars, contract, library, session
<1>3. Rows'
  BY <1>1, SameRows DEF vars
<1>4. \A r \in Requests : Sound(r)'
  BY <1>1, SameSound DEF vars, library, session
<1> QED
  BY <1>2, <1>3, <1>4, PartsNext

LEMMA NextKeeps == IInv /\ [Next]_vars => IInv'
<1>1. ASSUME IInv, NEW r \in Requests,
             \/ LoadExam(r) \/ ReadApproved(r) \/ Fail(r)
             \/ BeginUnpublish(r) \/ BeginClone(r) \/ LoadPublication(r)
             \/ AlreadyCloned(r) \/ FindNoClone(r)
             \/ ReadLatest(r) \/ GenerateLocally(r) \/ CallProvider(r) \/ StoreAnswer(r)
      PROVE  IInv'
  BY <1>1, LoadExamKeeps, BeginCloneKeeps, ReadKeeps, FailKeeps, MockKeeps
<1>2. ASSUME IInv, NEW r \in Requests,
             \/ InsertPublication(r) \/ UpdatePublication(r) \/ Unpublish(r)
             \/ CommitClone(r)
      PROVE  IInv'
  BY <1>2, InsertKeeps, UpdateKeeps, UnpublishKeeps, CloneKeeps
<1>3. ASSUME IInv,
             \/ \E c \in Forms : Configure(c)
             \/ \E c \in Configs, v \in Blueprints : Approve(v, c)
             \/ Draft \/ MarkStale \/ DeleteExam
             \/ \E u \in Users : DeleteCopy(u)
      PROVE  IInv'
  BY <1>3, ConfigureKeeps, ApproveKeeps, DraftKeeps, DeleteExamKeeps, DeleteCopyKeeps
<1> QED
  BY <1>1, <1>2, <1>3, StutterKeeps DEF Next

LEMMA Invariance == Spec => []IInv
BY InitInv, NextKeeps, PTL DEF Spec

\* Exam, publication, clones, mocks and requests have their types in every
\* behaviour.
THEOREM TypeCorrect == Spec => []TypeOK
<1>1. IInv => TypeOK
  BY DEF IInv
<1> QED
  BY <1>1, Invariance, PTL

\* publish_exam: unless two publishes met, a publication shows the rules of its
\* configuration version, and a blueprint that the version it names was approved
\* with, however often that one is edited and approved again.
THEOREM PublicationsAreWhole == Spec => []PublicationWhole
<1>1. IInv => PublicationWhole
  BY DEF IInv, CopiesInv
<1> QED
  BY <1>1, Invariance, PTL

\* clone_publication: one cloned exam for each user and row, and a counter that
\* loses no clone unless two of them met.
THEOREM ClonesAreCounted == Spec => []ClonesCounted
<1>1. IInv => ClonesCounted
  BY DEF IInv, CopiesInv
<1> QED
  BY <1>1, Invariance, PTL

-----------------------------------------------------------------------------
(* What is made from an exam that nobody changed. *)

Ends(q) == ~moved[q] /\ pc[q] # "idle" /\ pc'[q] = "idle"

FromCurrent(q) ==
  /\ req[q].op = "publish" /\ publication' # publication /\ ~met[q] =>
        /\ publication'.config = exam.config
        /\ publication'.version = exam.version
        /\ approved = [version |-> publication'.blueprint,
                             content |-> publication'.content]
  /\ req[q].op = "mock" /\ mock' # mock =>
        /\ mock'.config = exam.config
        /\ mock'.blueprint = approved /\ latest = VersionOf(approved)

\* Only its own last step ends a request.
LEMMA EndsBySelf ==
    ASSUME IInv, NEW q \in Requests, Ends(q), [Next]_vars
    PROVE  \/ Fail(q) \/ AlreadyCloned(q) \/ GenerateLocally(q) \/ StoreAnswer(q)
           \/ InsertPublication(q) \/ UpdatePublication(q) \/ Unpublish(q)
           \/ CommitClone(q)
<1>1. SessionType /\ pc'[q] # pc[q]
  BY Parts DEF Ends
<1>2. PICK r \in Requests :
        \/ LoadExam(r) \/ ReadApproved(r) \/ Fail(r)
        \/ BeginUnpublish(r) \/ BeginClone(r) \/ LoadPublication(r)
        \/ InsertPublication(r) \/ UpdatePublication(r) \/ Unpublish(r)
        \/ AlreadyCloned(r) \/ FindNoClone(r) \/ CommitClone(r)
        \/ ReadLatest(r) \/ GenerateLocally(r) \/ CallProvider(r) \/ StoreAnswer(r)
  <2>1. UNCHANGED vars => pc' = pc
    BY DEF vars, session
  <2>2. ASSUME \/ \E c \in Forms : Configure(c)
               \/ \E c \in Configs, v \in Blueprints : Approve(v, c)
               \/ Draft \/ MarkStale \/ DeleteExam
               \/ \E u \in Users : DeleteCopy(u)
        PROVE  pc' = pc
    BY <2>2 DEF Configure, Approve, Draft, MarkStale, DeleteExam, DeleteCopy, Review, session
  <2> QED
    BY <1>1, <2>1, <2>2 DEF Next
<1>3. \E step \in Steps : pc' = [pc EXCEPT ![r] = step]
  BY <1>2 DEF LoadExam, ReadApproved, Fail, BeginUnpublish, BeginClone, LoadPublication,
     InsertPublication, UpdatePublication, Unpublish, AlreadyCloned, FindNoClone,
     CommitClone, ReadLatest, GenerateLocally, CallProvider, StoreAnswer, StoreMock,
     Begin, Goes, Finish, Steps
<1>4. r = q
  BY <1>1, <1>3 DEF SessionType
<1>5. ASSUME NEW step \in Steps \ {"idle"}, pc' = [pc EXCEPT ![q] = step] PROVE FALSE
  BY <1>1, <1>5 DEF SessionType, Ends
<1>6. ASSUME \/ LoadExam(q) \/ ReadApproved(q) \/ BeginUnpublish(q) \/ BeginClone(q)
             \/ LoadPublication(q) \/ FindNoClone(q) \/ ReadLatest(q) \/ CallProvider(q)
      PROVE  \E step \in Steps \ {"idle"} : pc' = [pc EXCEPT ![q] = step]
  BY <1>6 DEF LoadExam, ReadApproved, BeginUnpublish, BeginClone, LoadPublication,
     FindNoClone, ReadLatest, CallProvider, Begin, Goes, Steps
<1> QED
  BY <1>2, <1>4, <1>5, <1>6

LEMMA CurrentStep ==
    ASSUME IInv, NEW q \in Requests, Ends(q), [Next]_vars
    PROVE  FromCurrent(q)
<1>1. RowType /\ SessionType /\ Rows /\ Sound(q)
  BY Parts
<1>2. CASE Fail(q) \/ AlreadyCloned(q)
  BY <1>2 DEF Fail, AlreadyCloned, library, FromCurrent
<1>3. CASE Unpublish(q) \/ CommitClone(q)
  BY <1>3 DEF Unpublish, CommitClone, At, FromCurrent
<1>4. CASE GenerateLocally(q) \/ StoreAnswer(q)
  <2>1. req[q].op = "mock" /\ pc[q] \in {"generate", "provider"}
    BY <1>1, <1>4 DEF GenerateLocally, StoreAnswer, Sound, Flow, Request
  <2>2. mock'.config = seenExam[q].config /\ mock'.blueprint = seenBlueprint[q]
    BY <1>4 DEF GenerateLocally, StoreAnswer, StoreMock
  <2>3. seenExam[q] = exam /\ seenBlueprint[q] = approved /\ latest = VersionOf(approved)
    BY <1>1, <2>1 DEF Sound, Current, Ends
  <2> QED
    BY <2>1, <2>2, <2>3 DEF FromCurrent
<1>5. CASE InsertPublication(q) \/ UpdatePublication(q)
  <2> SUFFICES ASSUME ~met[q]
               PROVE  /\ publication'.config = seenExam[q].config
                      /\ publication'.version = seenExam[q].version
                      /\ publication'.content = seenBlueprint[q].content
                      /\ publication'.blueprint = seenBlueprint[q].version
                      /\ seenBlueprint[q] \in BlueprintRow
    <3>1. req[q].op = "publish" /\ pc[q] = "write"
      BY <1>5 DEF InsertPublication, UpdatePublication, At
    <3>2. seenExam[q] = exam /\ seenBlueprint[q] = approved
      BY <1>1, <3>1 DEF Sound, Current, Ends
    <3>3. seenBlueprint[q] \in BlueprintRow =>
            seenBlueprint[q] = [version |-> seenBlueprint[q].version,
                                content |-> seenBlueprint[q].content]
      BY DEF BlueprintRow
    <3> QED
      BY <3>1, <3>2, <3>3 DEF FromCurrent
  <2>0. seenBlueprint[q] \in BlueprintRow
    <3>1. pc[q] = "write" /\ req[q].op = "publish" /\ exam # None
      BY <1>1, <1>5 DEF InsertPublication, UpdatePublication, At, Rows, RowsInv
    <3> QED
      BY <1>1, <3>1 DEF Sound, Loaded, SessionType
  <2>1. CASE InsertPublication(q)
    BY <2>0, <2>1 DEF InsertPublication, Stored
  <2>2. CASE UpdatePublication(q)
    <3>1. exam # None /\ At(q, "write", "publish")
      BY <1>1, <2>2 DEF UpdatePublication, Rows, RowsInv
    <3>2. SameEdition(seenPublication[q], publication) /\ seenPublication[q] # None
      BY <1>1, <2>2, <3>1 DEF Sound, Aware, HasLoaded, At, UpdatePublication
    <3> QED
      BY <2>0, <2>2, <3>2 DEF UpdatePublication, Stored, Written, SameEdition
  <2> QED
    BY <1>5, <2>1, <2>2
<1> QED
  BY <1>2, <1>3, <1>4, <1>5, EndsBySelf

\* publish_exam and generate_mock: alone with the exam, they make what they make
\* from the exam as it is and from its approved blueprint.
THEOREM CopiesAreCurrent == Spec => MadeFromCurrent
<1> DEFINE Every ==
      \A r \in Requests : ~moved[r] /\ pc[r] # "idle" /\ pc'[r] = "idle" =>
        /\ req[r].op = "publish" /\ publication' # publication /\ ~met[r] =>
             /\ publication'.config = exam.config
             /\ publication'.version = exam.version
             /\ approved = [version |-> publication'.blueprint,
                             content |-> publication'.content]
        /\ req[r].op = "mock" /\ mock' # mock =>
             /\ mock'.config = exam.config
             /\ mock'.blueprint = approved /\ latest = VersionOf(approved)
<1>1. IInv /\ [Next]_vars => [Every]_vars
  BY CurrentStep DEF Ends, FromCurrent
<1>2. MadeFromCurrent <=> [][Every]_vars
  BY DEF MadeFromCurrent
<1> HIDE DEF Every
<1> QED
  BY <1>1, <1>2, Invariance, PTL DEF Spec

-----------------------------------------------------------------------------
(* What a mock is made of. *)

\* What a request generates a mock for is a configuration.
LEMMA MockConfig ==
    ASSUME IInv, NEW r \in Requests, pc[r] \in {"generate", "provider"}
    PROVE  req[r].op = "mock" /\ seenExam[r].config \in Configs
<1>1. SessionType /\ Sound(r)
  BY Parts
<1>2. req[r].op = "mock"
  BY <1>1 DEF Sound, Flow, Request
<1>3. seenExam[r] \in ExamRow /\ seenExam[r].config # None
  BY <1>1, <1>2 DEF Sound, Loaded, SessionType
<1> QED
  BY <1>2, <1>3 DEF ExamRow

\* No other step than these leaves a mock that was not there.
LEMMA MockFrom ==
    ASSUME [Next]_vars, mock' # mock, mock' # None
    PROVE  \E r \in Requests : GenerateLocally(r) \/ StoreAnswer(r)
<1>1. /\ UNCHANGED vars => mock' = mock
      /\ \A c \in Configs, v \in Blueprints : Approve(v, c) => mock' = mock
      /\ \A c \in Forms : Configure(c) => mock' = mock
      /\ \A u \in Users : DeleteCopy(u) => mock' = mock
      /\ Draft \/ MarkStale => mock' = mock
      /\ DeleteExam => mock' = None
  BY DEF vars, Approve, Configure, DeleteCopy, Draft, MarkStale, Review, DeleteExam
<1>2. ASSUME NEW r \in Requests
      PROVE  /\ LoadExam(r) \/ BeginUnpublish(r) \/ BeginClone(r) => mock' = None
             /\ ReadApproved(r) \/ Fail(r) \/ LoadPublication(r) => mock' = mock
             /\ InsertPublication(r) \/ UpdatePublication(r) \/ Unpublish(r) => mock' = mock
             /\ AlreadyCloned(r) \/ FindNoClone(r) \/ CommitClone(r) => mock' = mock
             /\ ReadLatest(r) \/ CallProvider(r) => mock' = mock
  BY DEF LoadExam, BeginUnpublish, BeginClone, Begin, ReadApproved, Fail, LoadPublication,
     InsertPublication, UpdatePublication, Unpublish, AlreadyCloned, FindNoClone,
     CommitClone, ReadLatest, CallProvider, Goes
<1> QED
  BY <1>1, <1>2 DEF Next

LEMMA MockStep == IInv /\ MockFits /\ [Next]_vars => MockFits'
<1> SUFFICES ASSUME IInv, MockFits, [Next]_vars PROVE MockFits'
  OBVIOUS
<1>1. CASE mock' = mock \/ mock' = None
  BY <1>1 DEF MockFits
<1>2. CASE mock' # mock /\ mock' # None
  <2>1. PICK r \in Requests : GenerateLocally(r) \/ StoreAnswer(r)
    BY <1>2, MockFrom
  <2> DEFINE config == seenExam[r].config
  <2>2. config \in Configs
    BY <2>1, MockConfig DEF GenerateLocally, StoreAnswer
  <2>3. CASE GenerateLocally(r)
    <3>1. /\ mock'.questions = [s \in Sections |->
                                 DistributePoints(config[s].points, config[s].count)]
          /\ mock'.config = config
      BY <2>3 DEF GenerateLocally, StoreMock, DeterministicMock
    <3>2. ASSUME NEW s \in Sections
          PROVE  config[s].points \in Nat /\ config[s].count \in Nat \ {0}
      BY <2>2
    <3> HIDE DEF config
    <3>3. ASSUME NEW s \in Sections
          PROVE  /\ Len(mock'.questions[s]) = mock'.config[s].count
                 /\ Total(mock'.questions[s]) = mock'.config[s].points
      BY <3>1, <3>2, PointsAreAll
    <3> QED
      BY <3>3 DEF MockFits
  <2>4. CASE StoreAnswer(r)
    BY <2>4 DEF StoreAnswer, StoreMock, ValidMock, MockFits
  <2> QED
    BY <2>1, <2>3, <2>4
<1> QED
  BY <1>1, <1>2

\* generate_mock: a mock has, section by section, the questions and the points of
\* its configuration, for any points and any number of questions.
THEOREM MocksFit == Spec => []MockFits
<1>1. Init => MockFits
  BY DEF Init, MockFits
<1> QED
  BY <1>1, MockStep, Invariance, PTL DEF Spec
=============================================================================
