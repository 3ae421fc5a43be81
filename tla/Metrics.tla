------------------------------ MODULE Metrics ------------------------------
(***************************************************************************)
(* The numbers the evaluation suites report, as operators. A rate is a pair  *)
(* <<numerator, denominator>>; NoNumber is a rate the code leaves out (None). *)
(*                                                                          *)
(* Source: evaluation/metrics/extraction.py, groundedness.py, performance.py, *)
(* refusal.py, retrieval.py, evaluation/stats.py and run_eval.py.            *)
(***************************************************************************)
EXTENDS Integers, Sequences, SequencesExt, FiniteSetsExt

NoNumber == <<0, 0>>
Zero == <<0, 1>>

\* Where nothing was counted some suites report zero and others nothing.
OrZero(n, d) == IF d = 0 THEN Zero ELSE <<n, d>>
OrNone(n, d) == IF d = 0 THEN NoNumber ELSE <<n, d>>

Count(seq, Holds(_)) == Len(SelectSeq(seq, Holds))
Total(numbers) == FoldLeft(+, 0, numbers)
Ascending(numbers) == SortSeq(numbers, <)

-----------------------------------------------------------------------------
(* Extraction. An actor is a sequence of its parts; "ies" and "s" are plural  *)
(* endings, "the" an article.                                               *)

SpansOverlap(a, b) == a.start < b.end /\ b.start < a.end

NormaliseActor(actor) ==
  LET bare == IF actor # <<>> /\ Head(actor) = "the" THEN Tail(actor) ELSE actor
  IN  IF bare = <<>> THEN <<>>
      ELSE IF Last(bare) = "ies" THEN Front(bare) \o <<"y">>
      ELSE IF Last(bare) = "s" THEN Front(bare) ELSE bare

PartOf(a, b) == \E i \in DOMAIN b : i + Len(a) - 1 <= Len(b) /\ SubSeq(b, i, i + Len(a) - 1) = a

ActorsMatch(predicted, labelled) ==
  LET left == NormaliseActor(predicted)
      right == NormaliseActor(labelled)
  IN  left # <<>> /\ right # <<>> /\ (PartOf(left, right) \/ PartOf(right, left))

Matches(p, l) ==
  p.circular = l.circular /\ SpansOverlap(p, l) /\ ActorsMatch(p.actor, l.actor)

\* Mutant: a label that was claimed may be claimed again.
Claimable_Again(p, labelled, claimed) == {i \in DOMAIN labelled : Matches(p, labelled[i])}

\* The labels a prediction may still claim.
Claimable(p, labelled, claimed) == {i \in DOMAIN labelled \ claimed : Matches(p, labelled[i])}

\* A prediction claims the first such label of its circular.
Claim(m, p, labelled) ==
  LET free == Claimable(p, labelled, m.claimed)
  IN  IF free = {} THEN [m EXCEPT !.falsePositives = @ + 1]
      ELSE [m EXCEPT !.claimed = @ \cup {Min(free)}, !.truePositives = @ + 1]

Unclaimed == [claimed |-> {}, truePositives |-> 0, falsePositives |-> 0]

\* Each prediction in turn.
Extraction(predicted, labelled) ==
  LET matched == FoldLeft(LAMBDA m, p : Claim(m, p, labelled), Unclaimed, predicted)
  IN  [truePositives |-> matched.truePositives, falsePositives |-> matched.falsePositives,
       falseNegatives |-> Len(labelled) - Cardinality(matched.claimed)]

Precision(m) == OrZero(m.truePositives, m.truePositives + m.falsePositives)
Recall(m) == OrZero(m.truePositives, m.truePositives + m.falseNegatives)
F1(m) ==
  LET p == Precision(m)
      r == Recall(m)
  IN  OrZero(2 * p[1] * r[1], p[1] * r[2] + r[1] * p[2])

-----------------------------------------------------------------------------
(* Agreement of the judge with human labels: "yes", "no", human also "none".  *)

Paired(labels) == SelectSeq(labels, LAMBDA l : l.human # "none")

Calibration(labels) ==
  LET pairs == Paired(labels)
      n == Len(pairs)
      agree == Count(pairs, LAMBDA l : l.judge = l.human)
      judge == Count(pairs, LAMBDA l : l.judge = "yes")
      human == Count(pairs, LAMBDA l : l.human = "yes")
      chance == judge * human + (n - judge) * (n - human)
  IN  [compared |-> n, raw |-> OrNone(agree, n),
       kappa |-> IF chance >= n * n THEN NoNumber ELSE <<agree * n - chance, n * n - chance>>]

Interpretation(kappa) ==
  LET below(fifths) == 5 * kappa[1] < fifths * kappa[2]
  IN  CASE kappa = NoNumber -> "undefined"
        [] kappa[1] < 0     -> "worse than chance"
        [] below(1)         -> "slight"
        [] below(2)         -> "fair"
        [] below(3)         -> "moderate"
        [] below(4)         -> "substantial"
        [] OTHER            -> "almost perfect"

-----------------------------------------------------------------------------
(* Performance. Quantiles are asked for in twentieths, and returned in them.  *)

Weighted(ordered, position) ==
  LET lower == position \div 20
      upper == Min({lower + 1, Len(ordered) - 1})
      weight == position % 20
  IN  ordered[lower + 1] * (20 - weight) + ordered[upper + 1] * weight

\* performance.percentile: nothing measured is zero.
Percentile(values, twentieths) ==
  IF values = <<>> THEN 0
  ELSE IF Len(values) = 1 THEN 20 * values[1]
  ELSE Weighted(Ascending(values), twentieths * (Len(values) - 1))

\* stats.percentile, which interpolates only between two neighbours.
Quantile(values, twentieths) ==
  LET ordered == Ascending(values)
      position == twentieths * (Len(values) - 1)
      lower == position \div 20
      upper == (position + 19) \div 20
  IN  IF values = <<>> THEN 0
      ELSE IF lower = upper THEN 20 * ordered[lower + 1]
      ELSE 20 * ordered[lower + 1] + (ordered[upper + 1] - ordered[lower + 1]) * (position - 20 * lower)

\* One row per node, the costliest first.
NodeBreakdown(steps) ==
  LET nodes == SetToSeq({s.node : s \in Range(steps)})
      row(node) ==
        LET mine == SelectSeq(steps, LAMBDA s : s.node = node)
            latencies == [i \in DOMAIN mine |-> mine[i].latency]
        IN  [node |-> node, calls |-> Len(mine), median |-> Percentile(latencies, 10),
             total |-> Total(latencies), tokens |-> Total([i \in DOMAIN mine |-> mine[i].tokens])]
  IN  SortSeq([i \in DOMAIN nodes |-> row(nodes[i])], LAMBDA a, b : a.total > b.total)

\* Runs that have not completed have no latency; the mean is over those that have.
RunStats(runs) ==
  LET done == SelectSeq(runs, LAMBDA r : r.completed)
  IN  [assessments |-> Len(done),
       tokens |-> OrZero(Total([i \in DOMAIN runs |-> runs[i].tokens]), Len(done))]

-----------------------------------------------------------------------------
(* Ranking and refusal. A query knows the circular that cites it.            *)

\* run_query: the distinct circulars of the hits, without the citing one, cut
\* at the cutoff; refused if the best of them is below the threshold.
QueryOutcome(hits, query, threshold, cutoff) ==
  LET fresh == SelectSeq([i \in DOMAIN hits |-> i],
                 LAMBDA i : /\ hits[i].circular # query.citing
                            /\ \A j \in 1 .. i - 1 : hits[j].circular # hits[i].circular)
      kept == [i \in 1 .. Min({cutoff, Len(fresh)}) |-> hits[fresh[i]].circular]
  IN  [retrieved |-> kept, relevant |-> query.relevant,
       refused |-> kept = <<>> \/ hits[fresh[1]].score < threshold]

RankOf(o) ==
  LET at == {i \in DOMAIN o.retrieved : o.retrieved[i] \in o.relevant}
  IN  IF at = {} THEN 0 ELSE Min(at)

Hit(o, k) == RankOf(o) \in 1 .. k
AnsweredHit(o, k) == ~o.refused /\ Hit(o, k)

RecallAt(outcomes, k) == OrNone(Count(outcomes, LAMBDA o : Hit(o, k)), Len(outcomes))
AnsweredRecall(outcomes, k) == OrNone(Count(outcomes, LAMBDA o : AnsweredHit(o, k)), Len(outcomes))

\* The mean of 1/rank, over a denominator every rank up to three divides.
ReciprocalRank(outcomes) ==
  OrNone(Total([i \in DOMAIN outcomes |->
                  IF RankOf(outcomes[i]) = 0 THEN 0 ELSE 6 \div RankOf(outcomes[i])]),
         6 * Len(outcomes))

RefusalRate(outcomes) == OrZero(Count(outcomes, LAMBDA o : o.refused), Len(outcomes))

\* The refusal suite: cases that should be refused and cases that should not.
Refusal(cases) ==
  LET should == SelectSeq(cases, LAMBDA c : c.shouldRefuse)
      shouldNot == SelectSeq(cases, LAMBDA c : ~c.shouldRefuse)
      correct == RefusalRate(should)
      false == RefusalRate(shouldNot)
      right == <<correct[1] * Len(should) * false[2] + (false[2] - false[1]) * Len(shouldNot) * correct[2],
                 correct[2] * false[2] * Len(cases)>>
  IN  [correct |-> correct, false |-> false, accuracy |-> OrZero(right[1], right[2])]

-----------------------------------------------------------------------------
(* Intervals from resampled clusters.                                        *)

Clusters(items) == {i.cluster : i \in Range(items)}

Mean(numbers) == <<Total(numbers), Len(numbers)>>
Less(a, b) == a[1] * b[2] < b[1] * a[2]

\* draws[r] are the clusters resample r takes. The bounds are the values at
\* both ends of the level, level twentieths wide.
ClusterBootstrap(items, draws, level, least) ==
  LET values(cluster) == LET mine == SelectSeq(items, LAMBDA i : i.cluster = cluster)
                         IN  [i \in DOMAIN mine |-> mine[i].value]
      sample(r) == FlattenSeq([i \in DOMAIN draws[r] |-> values(draws[r][i])])
      sorted == SortSeq([r \in DOMAIN draws |-> Mean(sample(r))], Less)
      last == Len(draws) - 1
  IN  IF Cardinality(Clusters(items)) < least THEN <<>>
      ELSE <<sorted[((20 - level) * last) \div 40 + 1],
             sorted[((20 + level) * last + 39) \div 40 + 1]>>

\* The difference of two systems on the same queries.
PairedDifference(pairs, draws, level, least) ==
  LET diffs == [i \in DOMAIN pairs |-> [cluster |-> pairs[i].cluster, value |-> pairs[i].a - pairs[i].b]]
  IN  [estimate |-> OrZero(Total([i \in DOMAIN diffs |-> diffs[i].value]), Len(diffs)),
       interval |-> ClusterBootstrap(diffs, draws, level, least)]
=============================================================================
