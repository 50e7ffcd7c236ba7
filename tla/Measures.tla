------------------------------- MODULE Measures -------------------------------
(***************************************************************************)
(* The numbers the phases are judged by: recall on labeled queries         *)
(* (index/recall.py, over the exact scan of index/store.py), and the       *)
(* router's accuracy on labeled questions (retrieve/evaluate.py).          *)
(*                                                                         *)
(* An index is the titles of its chunks; a query brings its similarity to  *)
(* each.  Numbers stay fractions: a recall is how many of how many.        *)
(***************************************************************************)
EXTENDS Retrieval, Sorting

CONSTANTS
    Casefold,   \* of the titles in the index and in the labels
    Indexes,    \* bound: the titles of the chunks of an index
    Queries,    \* bound: [relevant, score] for an index of each length
    KValues,    \* k_values
    Latencies,  \* bound: sequences of measurements
    Labels,     \* bound: LabeledQuestion, [intent, template]
    SetSize     \* bound: how many queries or questions are labeled

\* Scores and latencies are numbers, of which only the order matters; a label's
\* intent is one of the router's.
ASSUME MeasuresAssumption ==
    /\ KValues \subseteq Nat /\ KValues # {} /\ IsFiniteSet(KValues) /\ SetSize \in Nat
    /\ \A index \in Indexes :
           /\ index \in Seq(ToSet(index)) /\ Len(index) \in DOMAIN Queries
           /\ \A query \in Queries[Len(index)] : query.score \in [1..Len(index) -> Int]
    /\ Latencies \subseteq Seq(Int)

Max2(a, b) == IF a < b THEN b ELSE a
Count(S) == Cardinality(S)

-----------------------------------------------------------------------------
(* Recall.                                                                 *)

\* InMemoryChunkStore.search, unfiltered: the best score first.
Search(index, score, limit) ==
    LET ranked == SortedBy([i \in DOMAIN index |-> -score[i]])
    IN  [r \in 1..(IF limit < Len(index) THEN limit ELSE Len(index)) |-> index[ranked[r]]]

MatchesAsWritten(query, title) == title \in query.relevant          \* mutant

Matches(query, title) == \E relevant \in query.relevant : Casefold[title] = Casefold[relevant]

LabelsIndexed(query, titles) ==
    {Casefold[t] : t \in query.relevant} \cap {Casefold[t] : t \in titles} # {}

\* One query of evaluate: a single search at the largest k.
Outcome(index, titles, query, k_values) ==
    LET retrieved == Search(index, query.score, Max(k_values))
        ranks == {i \in DOMAIN retrieved : Matches(query, retrieved[i])}
    IN  [hit_rank |-> IF ranks = {} THEN 0 ELSE CHOOSE i \in ranks : \A j \in ranks : i <= j,
         labels_in_index |-> LabelsIndexed(query, titles)]

Evaluate(index, titles, queries, k_values) ==
    [q \in DOMAIN queries |-> Outcome(index, titles, queries[q], k_values)]

HitAt(o, k) == o.hit_rank # 0 /\ o.hit_rank <= k
Scored(outcomes) == {q \in DOMAIN outcomes : outcomes[q].labels_in_index}
Recall(outcomes, k) == <<Count({q \in Scored(outcomes) : HitAt(outcomes[q], k)}), Count(Scored(outcomes))>>
Misses(outcomes, k_values) ==
    {q \in Scored(outcomes) : ~HitAt(outcomes[q], Max(k_values))}
Unlabeled(outcomes) == DOMAIN outcomes \ Scored(outcomes)

\* _percentile, nearest rank, 0 of nothing; the fraction is percent/100.
Percentile(values, percent) ==
    IF values = <<>> THEN 0
    ELSE values[SortedBy(values)[Max2(1, (percent * Len(values) + 99) \div 100)]]

-----------------------------------------------------------------------------
(* The router's accuracy.                                                  *)

IntentOk(label, intent) == label.intent = "both" \/ intent \in {label.intent, "both"}

TemplateOk(label, template) == template = label.template

\* One question of evaluate_router: the template is scored only if the label names one.
RouteOutcome(label, r) ==
    [intent_ok |-> IntentOk(label, r.intent),
     scored |-> label.template # NoTemplate, template_ok |-> TemplateOk(label, r.template)]

EvaluateRouter(labels, route_of) == [q \in DOMAIN labels |-> RouteOutcome(labels[q], route_of[q])]

IntentAccuracy(outcomes) ==
    <<Count({q \in DOMAIN outcomes : outcomes[q].intent_ok}), Len(outcomes)>>

TemplateAccuracy(outcomes) ==
    LET scored == {q \in DOMAIN outcomes : outcomes[q].scored}
    IN  <<Count({q \in scored : outcomes[q].template_ok}), Count(scored)>>

Failures(outcomes) ==
    {q \in DOMAIN outcomes :
        ~outcomes[q].intent_ok \/ (outcomes[q].scored /\ ~outcomes[q].template_ok)}

\* 0 of 0 is 0.0.
MeetsTarget(outcomes) ==
    \A rate \in {IntentAccuracy(outcomes), TemplateAccuracy(outcomes)} :
        rate[2] > 0 /\ 10 * rate[1] >= 9 * rate[2]

-----------------------------------------------------------------------------
\* "recall@3 is by definition a prefix of recall@10": the one search at the largest
\* k gives at each k what a search of that size would, where the index is scanned
\* exactly.  Hits and misses are the scored queries, and a search that returns the
\* whole index misses none of them, however a label is spelled: what a query is
\* excluded for is what it could not have found.
RecallIsExact ==
    \A index \in Indexes : \A queries \in UNION {[1..n -> Queries[Len(index)]] : n \in 0..SetSize} :
        LET titles == ToSet(index)
            outcomes == Evaluate(index, titles, queries, KValues)
            largest == Max(KValues)
        IN  /\ \A k \in KValues :
                   Recall(outcomes, k) = Recall(Evaluate(index, titles, queries, {k}), k)
            /\ Recall(outcomes, largest)[1] + Count(Misses(outcomes, KValues))
                   + Count(Unlabeled(outcomes)) = Len(queries)
            /\ \A k \in KValues : k >= Len(index) =>
                   {q \in DOMAIN queries : HitAt(outcomes[q], k)} = Scored(outcomes)

\* The least of the measurements that at least the fraction do not exceed.
PercentileIsExact ==
    \A values \in Latencies : \A percent \in {50, 95} :
        LET within(v) == 100 * Count({i \in DOMAIN values : values[i] <= v}) >= percent * Len(values)
        IN  values # <<>> =>
                /\ Percentile(values, percent) \in ToSet(values) /\ within(Percentile(values, percent))
                /\ \A v \in ToSet(values) : within(v) => Percentile(values, percent) <= v

\* The check of a route never makes an error of a right intent, only of a template
\* that has nothing to run on, so a decision that names no entity cannot score on a
\* labeled template; and the target is met only by a set whose failures, both ways
\* together, are few, and that names a template at all.
RoutingIsExact ==
    \A n \in 0..SetSize : \A labels \in [1..n -> Labels] : \A d \in [1..n -> Decided \cap Decisions] :
        LET decided == EvaluateRouter(labels, d)
            checked == EvaluateRouter(labels, [q \in 1..n |-> Checked(d[q])])
        IN  /\ \A q \in 1..n : decided[q].intent_ok => checked[q].intent_ok
            /\ \A q \in Failures(checked) \ Failures(decided) : d[q].entities = {}
            /\ \A q \in 1..n : checked[q].scored /\ d[q].entities = {} => q \in Failures(checked)
            /\ MeetsTarget(checked) => /\ 5 * Count(Failures(checked)) <= n
                                      /\ \E q \in 1..n : checked[q].scored

\* The measures say what they are said to measure, of whatever is asked next: a
\* recall or a percentile that is off would move the setting chosen by it, with
\* nothing else to notice.
MeasuresAreExact == at = "asked" => RecallIsExact /\ PercentileIsExact /\ RoutingIsExact
=============================================================================
