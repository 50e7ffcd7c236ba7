------------------------------ MODULE Retrieval ------------------------------
(***************************************************************************)
(* What one question retrieves: RetrievalPipeline (retrieve/pipeline.py)   *)
(* with its router, its graph templates, its vector search and its merge,  *)
(* over the chunk table that builds are rewriting (IndexBuild).            *)
(*                                                                         *)
(* The model's decision, the ranking of the index and what a template      *)
(* finds are any.  Facts are what they cost in tokens, none if empty.      *)
(***************************************************************************)
EXTENDS IndexBuild, Integers

CONSTANTS
    Wiki,              \* the wiki that is asked about
    Entities,          \* what the question's mentions may resolve to
    NoTemplate,
    Graph,             \* GRAPH_CITATION
    Decided,           \* bound: what the router's model may decide
    Forced,            \* bound: what force_intent of the caller may be
    Comparable,        \* whether the profile declares comparable_properties
    FactTokens,        \* bound: what a template's lines may cost
    TokenBudget,       \* token_budget of merge
    MinPassageTokens,  \* MIN_PASSAGE_TOKENS
    HeadingChars,      \* of the line over a passage in the prompt
    TopK,              \* top_k of the vector search
    MinFilteredHits    \* MIN_FILTERED_HITS

Intents == {"graph", "vector", "both"}
\* unlock_chain and consumers_of are alike here.
Templates == {"recipe_tree", "tier_compare", "unlock_chain or consumers_of"}

ASSUME RetrievalAssumption ==
    /\ Wiki \in DOMAIN Pages /\ NoTemplate \notin Templates
    /\ Comparable \in BOOLEAN /\ FactTokens \subseteq Nat \ {0}
    /\ {TokenBudget, MinPassageTokens, HeadingChars, TopK, MinFilteredHits} \subseteq Nat

VARIABLES
    at,        \* where the question is
    route,     \* the Route
    facts,     \* GraphResult: 0 if there is none or it is empty
    hits,      \* the rows the searches returned
    narrowed,  \* how many of them are the narrowed search's
    blocks,    \* of the RetrievedContext: [label, of, tokens]
    passages   \* of the RetrievedContext

question == <<at, route, facts, hits, narrowed, blocks, passages>>
all == <<vars, question>>

NoRoute == [intent |-> "both", template |-> NoTemplate, entities |-> {}, forced |-> FALSE]

AskInit ==
    /\ at = "asked"
    /\ route = NoRoute /\ facts = 0
    /\ hits = <<>> /\ narrowed = 0 /\ blocks = <<>> /\ passages = <<>>

UsesGraph == route.intent \in {"graph", "both"}
UsesVector == route.intent \in {"vector", "both"}

-----------------------------------------------------------------------------
(* Routing.                                                                *)

\* RouteDecision: anything the schema allows.  Where a call fails, or returns
\* nonsense, the decision is the one of NoRoute.
Decisions == [intent : Intents, template : Templates \cup {NoTemplate},
              entities : SUBSET Entities, confident : BOOLEAN]

\* AnthropicRouter.route: a graph route that is not to be trusted is widened.
Checked(d) ==
    LET untrusted == \/ ~d.confident
                     \/ d.intent = "graph" /\ (d.template = NoTemplate \/ d.entities = {})
    IN  [intent |-> IF d.intent # "vector" /\ untrusted THEN "both" ELSE d.intent,
         template |-> IF d.entities = {} THEN NoTemplate ELSE d.template,
         entities |-> d.entities, forced |-> FALSE]

\* retrieve: force_intent replaces the intent, and nothing else.
Route ==
    /\ at = "asked"
    /\ \E d \in Decided \cap Decisions :
         \/ route' = Checked(d)
         \/ \E force_intent \in Forced \cap Intents :
                route' = [Checked(d) EXCEPT !.intent = force_intent, !.forced = TRUE]
    /\ at' = "graph"
    /\ UNCHANGED <<vars, facts, hits, narrowed, blocks, passages>>

\* RouterUnavailableError: the one failure that is not a route.
Unavailable ==
    /\ at = "asked" /\ at' = "raised"
    /\ UNCHANGED <<vars, route, facts, hits, narrowed, blocks, passages>>

-----------------------------------------------------------------------------
(* The two halves.                                                         *)

\* GraphRetriever.run.  A recipe tree is at least its root; a comparison needs a
\* property the profile declares.
Found ==
    IF ~UsesGraph \/ route.template = NoTemplate \/ route.entities = {} THEN {0}
    ELSE IF route.template = "recipe_tree" THEN FactTokens
    ELSE IF route.template = "tier_compare" /\ ~Comparable THEN {0}
    ELSE FactTokens \cup {0}

Lookup ==
    /\ at = "graph"
    /\ facts' \in Found
    /\ at' = IF ~UsesVector THEN "merge" ELSE IF route.entities = {} THEN "widen" ELSE "narrow"
    /\ UNCHANGED <<vars, route, hits, narrowed, blocks, passages>>

\* PostgresChunkStore.search, a transaction of its own: at most top_k of the
\* wiki's rows, each once, in any order, and not all of them where the index is
\* approximate.
Results(rows) ==
    LET asked == OfWiki(rows, Wiki)
    IN  {s \in UNION {[1..n -> asked] : n \in 0..TopK} : IsInjective(s)}

Narrowed(rows) == {r \in rows : ToSet(r.passage.mentions) \cap route.entities # {}}

AppendHits(preferred, rest) ==                                      \* mutant: no deduplication
    SubSeq(preferred \o rest, 1, IF Len(preferred \o rest) < TopK THEN Len(preferred \o rest) ELSE TopK)

\* One match of _merge_keeping_order: in, unless its id is among them.
AddHit(merged, r) == IF Id(r) \in Ids(ToSet(merged)) THEN merged ELSE Append(merged, r)

MergeKeepingOrder(preferred, rest) ==
    LET merged == FoldLeft(AddHit, preferred, rest)
    IN  SubSeq(merged, 1, IF Len(merged) < TopK THEN Len(merged) ELSE TopK)

\* VectorRetriever.run: first among the passages that mention the entities...
Narrow ==
    /\ at = "narrow"
    /\ hits' \in Results(Narrowed(chunk))
    /\ narrowed' = Len(hits')
    /\ at' = IF Len(hits') >= MinFilteredHits THEN "merge" ELSE "widen"
    /\ UNCHANGED <<vars, route, facts, blocks, passages>>

\* ... and, if those are few, among all of them.
Widen ==
    /\ at = "widen"
    /\ \E rest \in Results(chunk) : hits' = MergeKeepingOrder(hits, rest)
    /\ at' = "merge"
    /\ UNCHANGED <<vars, route, facts, narrowed, blocks, passages>>

-----------------------------------------------------------------------------
(* merge.py                                                                *)

PassageTokens(r) == Tokens(HeadingChars + TextChars(r.passage.text))
Spent(rows) == Sum([i \in DOMAIN rows |-> PassageTokens(rows[i])])

KeepWhatFits(fitted, r) ==                                          \* mutant: nothing is spent
    IF \/ Id(r) \in Ids(ToSet(fitted.kept))
       \/ fitted.budget <= MinPassageTokens \/ PassageTokens(r) > fitted.budget
    THEN fitted ELSE [kept |-> Append(fitted.kept, r), budget |-> fitted.budget]

\* One passage of _fit.  One that does not fit is passed over.
Keep(fitted, r) ==
    IF \/ Id(r) \in Ids(ToSet(fitted.kept))
       \/ fitted.budget <= MinPassageTokens
       \/ PassageTokens(r) > fitted.budget
    THEN fitted
    ELSE [kept |-> Append(fitted.kept, r), budget |-> fitted.budget - PassageTokens(r)]

Fit(rows, budget) == FoldLeft(Keep, [kept |-> <<>>, budget |-> budget], rows).kept

Block(label, of, tokens) == [label |-> label, of |-> of, tokens |-> tokens]

\* The graph's lines are all in; the passages get what they leave.
Merge ==
    /\ at = "merge"
    /\ passages' = Fit(hits, TokenBudget - facts)
    /\ blocks' = (IF facts = 0 THEN <<>> ELSE <<Block("graph_facts", {Graph}, facts)>>)
                   \o (IF passages' = <<>> THEN <<>>
                       ELSE <<Block("passages", Ids(ToSet(passages')), Spent(passages'))>>)
    /\ at' = "retrieved"
    /\ UNCHANGED <<vars, route, facts, hits, narrowed>>

Ask == Route \/ Unavailable \/ Lookup \/ Narrow \/ Widen \/ Merge

-----------------------------------------------------------------------------
AllInit == Init /\ AskInit

\* Builds go on while the question is retrieved for.
AllNext == Ask \/ (Next /\ UNCHANGED question)

AllSpec == AllInit /\ [][AllNext]_all
                   /\ \A b \in Builds \ Earlier : WF_all(Step(b) /\ UNCHANGED question)

-----------------------------------------------------------------------------
(* What the answering model is told (answer/render.py).                    *)

BlockOf(label) == UNION {blocks[i].of : i \in {i \in DOMAIN blocks : blocks[i].label = label}}

\* render_prompt: the evidence in the message, which says so if there is none.
\* The graph's is rendered from its result, and from its block without one.
Shown == (IF facts # 0 THEN {Graph} ELSE BlockOf("graph_facts")) \cup BlockOf("passages")

\* citation_instruction: what it may cite, and all that validate will accept.
CitableUnmerged == (IF UsesGraph THEN {Graph} ELSE {}) \cup Ids(ToSet(hits))   \* mutant
Citable == (IF facts # 0 THEN {Graph} ELSE {}) \cup Ids(ToSet(passages))

-----------------------------------------------------------------------------
\* "labeled blocks that fit the budget": the passages fit what the graph's facts,
\* which have no limit, leave of it; none is in twice, whatever two searches
\* returned; they keep their rank; and one that is left out did not fit behind
\* those ranked before it.
PassagesFitTheBudget ==
    at = "retrieved" =>
        LET kept == ToSet(passages)
            first(n) == SubSeq(passages, 1, n)
            left(n) == TokenBudget - facts - Spent(first(n))
        IN  /\ passages # <<>> => facts + Spent(passages) <= TokenBudget
            /\ Cardinality(Ids(kept)) = Len(passages) /\ kept \subseteq ToSet(hits)
            /\ \A i \in DOMAIN hits : \E n \in 0..Len(passages) :
                   /\ ToSet(first(n)) = kept \cap {hits[j] : j \in 1..(i - 1)}
                   /\ hits[i] \notin kept => left(n) <= MinPassageTokens \/ PassageTokens(hits[i]) > left(n)

\* A search sees one build of the wiki, however many are under way: the hits of
\* the narrowed search are of one, and so are those of the wide one, and only a
\* rebuild between the two makes them differ.  No id is among them twice.
HitsAreOfOneBuild ==
    LastingArticle =>
        /\ Cardinality(Ids(ToSet(hits))) = Len(hits)
        /\ \A i, j \in DOMAIN hits :
               (i <= narrowed <=> j <= narrowed) => hits[i].by = hits[j].by

\* The model may cite what it is shown and nothing else; and it is told that there
\* is no evidence only if something was looked up, or the caller insisted, and if
\* whatever was found is a sentence longer than the budget.
EvidenceIsHonest ==
    at = "retrieved" =>
        /\ Citable = Shown
        /\ Shown = {} =>
             /\ UsesVector \/ route.forced \/ (route.template # NoTemplate /\ route.entities # {})
             /\ 4 * TokenBudget >= 9 * MaxTokens + HeadingChars + 8 /\ TokenBudget > MinPassageTokens =>
                    \A i \in DOMAIN hits : Len(FlattenSeq(hits[i].passage.text)) = 1
=============================================================================
