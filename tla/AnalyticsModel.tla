----------------------------- MODULE AnalyticsModel -----------------------------
(***************************************************************************)
(* The pure calculations of a user's profile (modules/analytics/model.py), *)
(* over the histories that attempts and time produce.                      *)
(*                                                                         *)
(* Numbers are integers: scores, shares and weights in hundredths, mastery,*)
(* confidence and readiness in ten-thousandths, rounded down where the code*)
(* has a float.  Time passes in half-lives of thirty days.  The urgency of *)
(* the target date scales all priorities alike and is left out.            *)
(***************************************************************************)
EXTENDS Integers, FiniteSets, Sequences

CONSTANTS
  Skills, Blueprint,       \* the skills, in the order of the blueprint,
  Weight, Label,           \* their weight, and the order of their labels
  Mocks,                   \* an attempt: the answers that observe each skill
  PassThreshold,
  MaxAttempts, MaxAge      \* bounds of the history

\* A small correction for the difficulty of the question.
Correction == [easy |-> -3, matched |-> 0, hard |-> 5]
Answer == [score : Int, difficulty : DOMAIN Correction, share : Int, sure : Int]

ASSUME BoundsAssumption == MaxAttempts \in Nat /\ MaxAge \in Nat
ASSUME BlueprintAssumption ==
  /\ Weight \in [Skills -> 0..100] /\ Label \in [Skills -> Nat]
  /\ Blueprint \in Seq(Skills) /\ Skills = {Blueprint[i] : i \in DOMAIN Blueprint}
ASSUME MocksAssumption ==
  \A mock \in Mocks :
    /\ mock \in [Skills -> Seq(Answer)]
    \* the evaluator's confidence, after clamping, in twentieths
    /\ \A s \in Skills : \A k \in DOMAIN mock[s] :
          mock[s][k].sure < 25 \/ mock[s][k].sure % 5 = 0

VARIABLES
  history,   \* history[s]: the observations of a skill, oldest first
  attempts,  \* number of attempts evaluated
  now,       \* half-lives since the first day
  profile    \* the user's profile, as the next read computes it
vars == <<history, attempts, now, profile>>

-----------------------------------------------------------------------------
(* Numbers and lists. *)

Least(a, b) == IF a < b THEN a ELSE b
Clamp(x, low, high) == IF x < low THEN low ELSE Least(x, high)

PowerOf2[n \in Nat] == IF n = 0 THEN 1 ELSE 2 * PowerOf2[n - 1]

Sum(seq) ==
  LET sum[n \in 0..Len(seq)] == IF n = 0 THEN 0 ELSE sum[n - 1] + seq[n]
  IN sum[Len(seq)]

First(n, seq) == SubSeq(seq, 1, Least(n, Len(seq)))

\* The members of a sequence at some of its places, in order.
Keep(seq, places) ==
  LET kept[n \in 0..Len(seq)] ==
        IF n = 0 THEN <<>>
        ELSE IF n \in places THEN Append(kept[n - 1], seq[n]) ELSE kept[n - 1]
  IN kept[Len(seq)]

\* The members of a sequence, each where it first occurs.
Distinct(seq) == Keep(seq, {i \in DOMAIN seq : \A j \in 1..(i - 1) : seq[j] # seq[i]})

\* By value, the highest first, and then by the label of the skill.
Before(d, e) ==
  \/ d.value > e.value
  \/ d.value = e.value /\ Label[d.skill] < Label[e.skill]

Insert(seq, e) ==
  LET place == Cardinality({i \in DOMAIN seq : ~Before(e, seq[i])})
  IN SubSeq(seq, 1, place) \o <<e>> \o SubSeq(seq, place + 1, Len(seq))

\* The items of a sequence of [value, skill, item], sorted (stably).
Sorted(entries) ==
  LET sorted[n \in 0..Len(entries)] ==
        IF n = 0 THEN <<>> ELSE Insert(sorted[n - 1], entries[n])
  IN [i \in DOMAIN entries |-> sorted[Len(entries)][i].item]

-----------------------------------------------------------------------------
(* One skill. *)

difficulty_adjusted_score(o) ==
  Clamp(o.answer.score + Correction[o.answer.difficulty], 0, 100)

\* Mutant: evidence is never worth less than half of new evidence.
Recency_Floored(at, t) ==
  IF t - at > 1 THEN PowerOf2[MaxAge - 1] ELSE PowerOf2[MaxAge - (t - at)]

\* In units of 2^-MaxAge.
Recency(at, t) == PowerOf2[MaxAge - (t - at)]

Share(o) == IF o.answer.share < 1 THEN 1 ELSE o.answer.share
Evaluator(o) == Clamp(o.answer.sure, 25, 100)

\* In ten-thousandths, of values in hundredths.
WeightedAverage(values, weights) ==
  LET total == Sum(weights)
  IN IF total = 0 THEN 0
     ELSE (Sum([i \in DOMAIN values |-> values[i] * weights[i]]) * 100) \div total

\* Mutant: every answer counts as an attempt of its own.
Recent_Ungrouped(obs) ==
  LET all == [i \in DOMAIN obs |-> obs[i].attempt]
  IN SubSeq(all, Len(all) - Least(5, Len(all)) + 1, Len(all))

\* The last five attempts that observed the skill, in order.
Recent(obs) ==
  LET all == Distinct([i \in DOMAIN obs |-> obs[i].attempt])
  IN SubSeq(all, Len(all) - Least(5, Len(all)) + 1, Len(all))

\* All the answers of one attempt: those of others weigh nothing.
AttemptValue(obs, a) ==
  WeightedAverage([i \in DOMAIN obs |-> Clamp(obs[i].answer.score, 0, 100)],
                  [i \in DOMAIN obs |-> IF obs[i].attempt = a
                                        THEN Share(obs[i]) * Evaluator(obs[i]) ELSE 0])

Direction(delta) ==
  IF delta >= 1600 THEN "improving" ELSE IF delta <= -1600 THEN "declining" ELSE "stable"

\* The last two values against the first two.
TrendOf(values) ==
  LET n == Len(values)
  IN IF n < 3 THEN "insufficient_data"
     ELSE Direction((values[n - 1] + values[n]) - (values[1] + values[2]))

AttemptValues(obs, ordered) == [k \in DOMAIN ordered |-> AttemptValue(obs, ordered[k])]
Trend(obs) == TrendOf(AttemptValues(obs, Recent(obs)))

\* Three new observations nobody doubts, in the unit of Effective.
Much == 12 * PowerOf2[MaxAge]

\* exp(-n / Much), of 200000, as the n-th power of 1 - 1 / Much.
Remaining[n \in Nat] ==
  IF n = 0 THEN 200000 ELSE (Remaining[n - 1] * (Much - 1)) \div Much

\* Effective evidence, in quarters of the unit of Recency.
Effective(obs, t) ==
  Sum([i \in DOMAIN obs |-> (Evaluator(obs[i]) \div 5) * Recency(obs[i].at, t)]) \div 5

SquareRoot(v) == CHOOSE r \in 0..100 : r * r <= v /\ v < (r + 1) * (r + 1)

NoEvidence == -1
LowEvidence == 3500
Established == 7000

Square(x) == x * x

\* 0 if all scores agree, in hundredths.
Deviation(scores, weights, mastery) ==
  SquareRoot(WeightedAverage([i \in DOMAIN scores |-> Square(scores[i] - mastery \div 100)],
                             weights) \div 100)

Consistency(scores, weights, mastery) ==
  IF Len(scores) < 2 THEN 50 ELSE 100 - Least(2 * Deviation(scores, weights, mastery), 100)

Confidence(coverage, consistency, freshness) ==
  (((coverage * (6000 + 40 * consistency)) \div 10000)
    * (70 * PowerOf2[MaxAge] + 30 * freshness)) \div (100 * PowerOf2[MaxAge])

\* A skill at time t; stale is seen last more than a half-life ago.
Metric(s, obs, t, scores, weights, mastery) ==
  [skill |-> s, mastery |-> mastery,
   confidence |-> Confidence(10000 - Remaining[Effective(obs, t)] \div 20,
                             Consistency(scores, weights, mastery),
                             Recency(obs[Len(obs)].at, t)),
   count |-> Len(obs), trend |-> Trend(obs), stale |-> t - obs[Len(obs)].at > 1]

Unobserved(s) ==
  [skill |-> s, mastery |-> NoEvidence, confidence |-> 0, count |-> 0,
   trend |-> "insufficient_data", stale |-> FALSE]

Scores(obs) == [i \in DOMAIN obs |-> difficulty_adjusted_score(obs[i])]
Weights(obs, t) ==
  [i \in DOMAIN obs |-> Share(obs[i]) * (Evaluator(obs[i]) \div 5) * Recency(obs[i].at, t)]

calculate_skill_metric(s, obs, t) ==
  IF obs = <<>> THEN Unobserved(s)
  ELSE Metric(s, obs, t, Scores(obs), Weights(obs, t),
              WeightedAverage(Scores(obs), Weights(obs, t)))

-----------------------------------------------------------------------------
(* The exam. *)

\* metrics.sort: by their weight in the blueprint.
ByWeight ==
  Sorted([i \in DOMAIN Blueprint |->
           [value |-> Weight[Blueprint[i]], skill |-> Blueprint[i], item |-> Blueprint[i]]])

\* (The list is joined with nothing, for TLC to compute it once.)
SkillMetrics(observed, t) ==
  [i \in DOMAIN ByWeight |->
     calculate_skill_metric(ByWeight[i], observed[ByWeight[i]], t)] \o <<>>

Estimate(m) == IF m.mastery = NoEvidence THEN 5000 ELSE m.mastery

Overall(metrics, values) ==
  Sum([i \in DOMAIN metrics |-> values[i] * Weight[metrics[i].skill]]) \div 100

Index(raw, confidence) == Clamp(raw - ((10000 - confidence) * 15) \div 100, 0, 10000)

Status(index, confidence) ==
  IF confidence < LowEvidence THEN "early_signal"
  ELSE IF index < PassThreshold * 100 THEN "at_risk"
  ELSE IF index >= PassThreshold * 100 + 1000 /\ confidence >= Established
  THEN "ready" ELSE "on_track"

Readiness(metrics) ==
  LET confidence == Overall(metrics, [i \in DOMAIN metrics |-> metrics[i].confidence])
      index == Index(Overall(metrics, [i \in DOMAIN metrics |-> Estimate(metrics[i])]),
                     confidence)
  IN IF \A i \in DOMAIN metrics : metrics[i].count = 0
     THEN [index |-> NoEvidence, status |-> "no_data"]
     ELSE [index |-> index, status |-> Status(index, confidence)]

\* What it costs the user to leave the skill as it is.
Priority(m) ==
  LET factor == CASE m.trend = "declining" -> 12 [] m.trend = "improving" -> 9 [] OTHER -> 10
  IN ((Weight[m.skill] * (10000 - Estimate(m))) \div 100)
     * ((10000 + m.confidence) \div 100) * factor

Ranked(metrics) ==
  Sorted([i \in DOMAIN metrics |->
           [value |-> Priority(metrics[i]), skill |-> metrics[i].skill, item |-> metrics[i]]])

Low(m) == m.confidence < LowEvidence
Candidate(m) == m.mastery < 7500 \/ Low(m)
Retention(m) == m.mastery >= 7500 /\ m.stale

Candidates(ranked) == Keep(ranked, {i \in DOMAIN ranked : Candidate(ranked[i])})

\* Mutant: the two worst gaps, and then the rest in order of priority.
Pools_NoExploration(metrics, candidates) ==
  First(2, Keep(candidates, {i \in DOMAIN candidates : ~Low(candidates[i])}))
  \o First(1, Keep(metrics, {i \in DOMAIN metrics : Retention(metrics[i])})) \o candidates

\* Two confirmed gaps, something unknown, something to refresh, and the rest.
Pools(metrics, candidates) ==
  First(2, Keep(candidates, {i \in DOMAIN candidates : ~Low(candidates[i])}))
  \o First(1, Keep(candidates, {i \in DOMAIN candidates : Low(candidates[i])}))
  \o First(1, Keep(metrics, {i \in DOMAIN metrics : Retention(metrics[i])})) \o candidates

\* The first three skills of the pools.
Targets(metrics, ranked) == First(3, Distinct(Pools(metrics, Candidates(ranked))))

TargetReason(m) ==
  IF Low(m) THEN "collect_evidence"
  ELSE IF Retention(m) THEN "retention_refresh" ELSE "confirmed_gap"

Recommended(m) ==
  IF Low(m) THEN "collect_evidence"
  ELSE IF m.trend = "declining" THEN "reverse_decline" ELSE "practice_weak_skill"

Result(metrics, readiness, ranked) ==
  LET known == readiness.status # "no_data"
  IN [metrics |-> metrics, readiness |-> readiness,
      recommendations |->
        IF known THEN [k \in 1..Least(3, Len(ranked)) |-> Recommended(ranked[k])]
        ELSE <<"run_full_mock">>,
      targets |-> IF known THEN Targets(metrics, ranked) ELSE <<>>]

Analytics(metrics) == Result(metrics, Readiness(metrics), Ranked(metrics))

calculate_analytics(observed, t) == Analytics(SkillMetrics(observed, t))

-----------------------------------------------------------------------------
(* Attempts and time. *)

Init ==
  /\ history = [s \in Skills |-> <<>>]
  /\ attempts = 0 /\ now = 0
  /\ profile = calculate_analytics(history, now)

\* An attempt is evaluated: an observation for each answer and the skill it is
\* about, of which a mock asks about some several times.
Evaluate ==
  \E mock \in Mocks :
    /\ attempts < MaxAttempts
    /\ attempts' = attempts + 1
    /\ history' = [s \in Skills |-> history[s] \o
                    [k \in DOMAIN mock[s] |-> [attempt |-> attempts', at |-> now,
                                              answer |-> mock[s][k]]]]
    /\ UNCHANGED now

\* A half-life passes without an attempt.
Wait ==
  /\ now < MaxAge
  /\ now' = now + 1 /\ UNCHANGED <<history, attempts>>

Next == (Evaluate \/ Wait) /\ profile' = calculate_analytics(history', now')

Spec == Init /\ [][Next]_vars

-----------------------------------------------------------------------------
(* What must hold. *)

\* A trend is a direction of the last five attempts and not of older ones nor of
\* single answers: a skill has none before its third attempt, it is not improving
\* if no later one of the five did better than an earlier one, all its answers
\* together, and not declining if none did worse.
TrendIsRecent ==
  \A n \in DOMAIN profile.metrics :
    LET obs == history[profile.metrics[n].skill]
        all == {obs[i].attempt : i \in DOMAIN obs}
        last == {a \in all : Cardinality({b \in all : b > a}) < 5}
        Rises == \E a, b \in last : a < b /\ AttemptValue(obs, a) < AttemptValue(obs, b)
        Falls == \E a, b \in last : a < b /\ AttemptValue(obs, a) > AttemptValue(obs, b)
    IN /\ profile.metrics[n].trend = "insufficient_data" <=> Cardinality(all) < 3
       /\ profile.metrics[n].trend = "improving" => Rises
       /\ profile.metrics[n].trend = "declining" => Falls

\* The targets of an adaptive mock, once anything has been observed, are at most
\* three different skills and as many as there is reason for; one is unknown
\* whenever a skill is, a confirmed gap is a gap, and a skill that is known, good
\* and fresh is never a target.
TargetsBalanced ==
  LET chosen == {profile.targets[i] : i \in DOMAIN profile.targets}
      all == {profile.metrics[i] : i \in DOMAIN profile.metrics}
  IN (\E s \in Skills : history[s] # <<>>) =>
       /\ Cardinality(chosen) = Len(profile.targets) /\ Len(profile.targets) <= 3
       /\ Len(profile.targets) >= Least(3, Cardinality({m \in all : Candidate(m)}))
       /\ (\E m \in all : Low(m)) => \E m \in chosen : TargetReason(m) = "collect_evidence"
       /\ \A m \in chosen : /\ Candidate(m) \/ Retention(m)
                            /\ TargetReason(m) = "confirmed_gap" => m.mastery < 7500

\* Evidence ages but says the same: without an attempt the mastery of a skill
\* stays what it is, and neither the confidence in it nor the readiness rises.
WaitingAddsNothing ==
  [][attempts' = attempts =>
       /\ profile'.readiness.index <= profile.readiness.index
       /\ \A i \in DOMAIN profile.metrics :
            /\ profile'.metrics[i].skill = profile.metrics[i].skill
            /\ profile'.metrics[i].mastery = profile.metrics[i].mastery
            /\ profile'.metrics[i].confidence <= profile.metrics[i].confidence]_vars

-----------------------------------------------------------------------------
(* Why it holds: the order of a history, and that the profile follows from it. *)

Observation == [attempt : Nat, at : Nat, answer : Answer]

\* Observations of the first n attempts until t, those of later attempts later.
Observed(obs, n, t) ==
  /\ obs \in Seq(Observation)
  /\ \A i \in 1..Len(obs) : obs[i].attempt <= n /\ obs[i].at <= t
  /\ \A i, j \in 1..Len(obs) : i < j => obs[i].attempt <= obs[j].attempt

HistoryInv ==
  /\ attempts \in Nat /\ now \in 0..MaxAge
  /\ DOMAIN history = Skills
  /\ \A s \in Skills : Observed(history[s], attempts, now)

ModelInv == HistoryInv /\ profile = calculate_analytics(history, now)
==============================================================================
