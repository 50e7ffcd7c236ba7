------------------------------ MODULE GraphLoad ------------------------------
(***************************************************************************)
(* The graph in Neo4j: `ragtorio extract` and `ragtorio graph load`        *)
(* (cli.py, extract/postgres.py, ontology/load.py), run again as the wiki  *)
(* changes, and killed anywhere.                                           *)
(*                                                                         *)
(* A load resolves the corpus and merges the rows batch by batch, each     *)
(* batch a transaction of its own.  apoc.merge.node merges on ALL the      *)
(* labels of a row: a node of the same id that lacks one of them is not    *)
(* matched, and creating another is refused if they share a label, as an   *)
(* id is unique per label (ontology/schema.cypher).  Nothing is deleted.   *)
(***************************************************************************)
EXTENDS Resolution, FiniteSets

CONSTANTS
    Contents,    \* bound: what the infobox page of each title may hold
    Redirects,   \* bound: what the redirects may be
    BatchSize,   \* DEFAULT_BATCH_SIZE
    MaxChanges,  \* bound: changes of the wiki in a behaviour
    MaxLoads     \* bound: loads in a behaviour

\* What the parsers of a page's parameters return.
Parses(page) ==
    \A f \in DOMAIN page.params :
        LET value == page.params[f]
        IN  value # Broken =>
                /\ f \in DOMAIN ListPredicate => value \subseteq Names
                /\ f = "recipe" => value.inputs \subseteq Names /\ value.outputs \subseteq Names

ASSUME GraphLoadAssumption ==
    /\ \A t \in Titles : \A page \in Contents[t] : page = NoPage \/ Parses(page)
    /\ Redirects \subseteq [Names -> Names \cup {NoTitle}]
    /\ BatchSize \in Nat \ {0}
    /\ MaxChanges \in Nat /\ MaxLoads \in Nat

VARIABLES
    pages,     \* raw_page: the infobox page of each title
    redirect,  \* raw_redirect
    fact,      \* the fact table
    nodes,     \* committed to Neo4j: [id, labels, title]
    edges,     \* committed: [from, type, to, amount] between keys of nodes
    pc,        \* the loader: "idle", or merging "nodes" or "edges"
    graph,     \* what the last load resolved
    todo,      \* its rows that are not merged yet
    view,      \* the nodes as the open transaction sees them
    inBatch,   \* rows merged in it
    outcome,   \* of the last load: "none", "running", "ok", "failed" or "killed"
    mixed,     \* history: loads have resolved different graphs
    changes, loads

corpus == [fact |-> fact, redirect |-> redirect]
wiki == <<pages, redirect, fact, changes>>
vars == <<wiki, nodes, edges, pc, graph, todo, view, inBatch, outcome, mixed, loads>>

Node == [id : Names, labels : SUBSET Labels, title : Names]
EdgeRow == [from : Names, type : Relations \cup {"REQUIRES"}, to : Names, amount : BOOLEAN]
Graph == [nodes : SUBSET Node, edges : SUBSET EdgeRow]

\* Labels of a node never change, so they identify it together with its id.
Key(n) == [id |-> n.id, labels |-> n.labels]
Keys == [id : Names, labels : SUBSET Labels]

TypeOK ==
    /\ pages \in [Titles -> UNION {Contents[t] : t \in Titles}]
    /\ \A t \in Titles : pages[t] \in Contents[t]
    /\ redirect \in Redirects
    /\ fact \in SUBSET Fact
    /\ nodes \in SUBSET Node /\ view \in SUBSET Node
    /\ edges \in SUBSET [from : Keys, type : Relations \cup {"REQUIRES"}, to : Keys, amount : BOOLEAN]
    /\ pc \in {"idle", "nodes", "edges"}
    /\ graph \in Graph /\ todo \in Graph
    /\ inBatch \in 0..BatchSize
    /\ outcome \in {"none", "running", "ok", "failed", "killed"}
    /\ mixed \in BOOLEAN
    /\ changes \in 0..MaxChanges /\ loads \in 0..MaxLoads

NoGraph == [nodes |-> {}, edges |-> {}]

\* A wiki that has been harvested and extracted once, and an empty Neo4j.
Init ==
    /\ pages \in [Titles -> UNION {Contents[t] : t \in Titles}]
    /\ \A t \in Titles : pages[t] \in Contents[t]
    /\ redirect \in Redirects
    /\ fact = ExtractedFacts(pages)
    /\ nodes = {} /\ edges = {}
    /\ pc = "idle" /\ graph = NoGraph /\ todo = NoGraph
    /\ view = {} /\ inBatch = 0
    /\ outcome = "none" /\ mixed = FALSE
    /\ changes = 0 /\ loads = 0

Loader == <<nodes, edges, pc, graph, todo, view, inBatch, outcome, mixed, loads>>

-----------------------------------------------------------------------------
(* The corpus.  The loader reads it when it starts, so changing it only    *)
(* between loads adds nothing.                                             *)

\* A crawl brings another version of a page, or of the redirects.
Harvest ==
    /\ pc = "idle" /\ changes < MaxChanges
    /\ changes' = changes + 1
    /\ \/ /\ \E t \in Titles : \E page \in Contents[t] : pages' = [pages EXCEPT ![t] = page]
          /\ UNCHANGED redirect
       \/ redirect' \in Redirects /\ UNCHANGED pages
    /\ UNCHANGED <<fact, Loader>>

\* replace_all: the old facts go and the new ones come in one transaction.
Extract ==
    /\ pc = "idle"
    /\ fact' = ExtractedFacts(pages)
    /\ UNCHANGED <<pages, redirect, changes, Loader>>

-----------------------------------------------------------------------------
(* A load.                                                                 *)

Start ==
    /\ pc = "idle" /\ loads < MaxLoads
    /\ graph' = Resolve(corpus)
    /\ todo' = graph' /\ view' = nodes /\ inBatch' = 0
    /\ pc' = "nodes" /\ outcome' = "running"
    /\ mixed' = (mixed \/ (loads > 0 /\ graph' # graph))
    /\ loads' = loads + 1
    /\ UNCHANGED <<wiki, nodes, edges>>

End(how) ==
    /\ pc' = "idle" /\ outcome' = how
    /\ todo' = NoGraph /\ view' = nodes /\ inBatch' = 0
    /\ UNCHANGED <<wiki, nodes, edges, graph, mixed, loads>>

\* MERGE on id and labels: the nodes that have them all.
Matches(r) == {n \in view : n.id = r.id /\ r.labels \subseteq n.labels}

\* One of the label constraints of schema.cypher.
Refused(r) == Matches(r) = {} /\ \E n \in view : n.id = r.id /\ n.labels \cap r.labels # {}

\* One row of UNWIND.  Properties are set on whatever was matched, or created.
MergeNode(r) ==
    /\ pc = "nodes" /\ inBatch < BatchSize
    /\ ~Refused(r)
    /\ view' = (view \ Matches(r))
                   \cup (IF Matches(r) = {} THEN {r} ELSE {[n EXCEPT !.title = r.title] : n \in Matches(r)})
    /\ todo' = [todo EXCEPT !.nodes = @ \ {r}]
    /\ inBatch' = inBatch + 1
    /\ UNCHANGED <<wiki, nodes, edges, pc, graph, outcome, mixed, loads>>

\* The statement is refused, its batch with it, and load raises.
NodeRefused(r) == pc = "nodes" /\ inBatch < BatchSize /\ Refused(r) /\ End("failed")

CommitFirstBatch ==                                                 \* mutant
    /\ pc = "nodes" /\ (inBatch = BatchSize \/ todo.nodes = {})
    /\ nodes' = view /\ inBatch' = 0
    /\ pc' = "edges"
    /\ UNCHANGED <<wiki, edges, graph, todo, view, outcome, mixed, loads>>

\* A batch of nodes is full, or was the last.
CommitNodes ==
    /\ pc = "nodes" /\ (inBatch = BatchSize \/ todo.nodes = {})
    /\ nodes' = view /\ inBatch' = 0
    /\ pc' = IF todo.nodes = {} THEN "edges" ELSE "nodes"
    /\ UNCHANGED <<wiki, edges, graph, todo, view, outcome, mixed, loads>>

\* The relationships a row stands for: between every node of the one id and
\* every node of the other.
Ends(r) ==
    {[from |-> Key(a), type |-> r.type, to |-> Key(b)] :
         a \in {n \in nodes : n.id = r.from}, b \in {n \in nodes : n.id = r.to}}

Between(e) == [from |-> e.from, type |-> e.type, to |-> e.to]

\* A row without an amount leaves the amount of a relationship it matches.
LinkWithoutAmounts(rows) ==                                         \* mutant
    LET touched == UNION {Ends(r) : r \in rows}
    IN  {e \in edges : Between(e) \notin touched}
            \cup {[from |-> b.from, type |-> b.type, to |-> b.to, amount |-> FALSE] : b \in touched}

Linked(rows) ==
    LET touched == UNION {Ends(r) : r \in rows}
        stated(b) == \/ \E e \in edges : Between(e) = b /\ e.amount
                     \/ \E r \in rows : b \in Ends(r) /\ r.amount
    IN  {e \in edges : Between(e) \notin touched}
            \cup {[from |-> b.from, type |-> b.type, to |-> b.to, amount |-> stated(b)] : b \in touched}

\* A batch of edges.  No two rows of a graph have the same ends, so their order is nothing.
MergeEdges ==
    /\ pc = "edges"
    /\ \E rows \in SUBSET todo.edges :
         /\ rows # {} /\ (Cardinality(rows) = BatchSize \/ rows = todo.edges)
         /\ Cardinality(rows) <= BatchSize
         /\ edges' = Linked(rows)
         /\ todo' = [todo EXCEPT !.edges = @ \ rows]
    /\ UNCHANGED <<wiki, nodes, pc, graph, view, inBatch, outcome, mixed, loads>>

Finish == pc = "edges" /\ todo.edges = {} /\ End("ok")

Kill == pc # "idle" /\ End("killed")

Next ==
    \/ Harvest
    \/ Extract
    \/ Start
    \/ \E r \in todo.nodes : MergeNode(r) \/ NodeRefused(r)
    \/ CommitNodes
    \/ MergeEdges
    \/ Finish
    \/ Kill

Spec == Init /\ [][Next]_vars

-----------------------------------------------------------------------------
\* No edge of a resolved graph dangles: GraphLoader would drop it in silence,
\* as a row whose MATCH finds no node merges nothing.
EdgesJoinNodes ==
    \A e \in graph.edges : /\ \E n \in graph.nodes : n.id = e.from
                           /\ \E n \in graph.nodes : n.id = e.to

\* The loader is through its nodes before its first edge, so a load that ends
\* well has put in everything it resolved, whatever was there before: a node
\* of each id with at least the labels, and every edge, with its amount.
LoadHoldsTheGraph ==
    outcome = "ok" =>
        /\ \A r \in graph.nodes : \E n \in nodes : n.id = r.id /\ r.labels \subseteq n.labels
        /\ \A r \in graph.edges : \E e \in edges :
               e.from.id = r.from /\ e.type = r.type /\ e.to.id = r.to /\ (r.amount => e.amount)

\* An id names one node of the graph.
Unambiguous == \A m, n \in graph.nodes : m.id = n.id => m = n

\* models.py, ResolvedNode: "id is unique across labels", where no page with
\* facts is redirected, nor a recipe named after one, and none is called what
\* another's recipe is.
Straight(c) ==
    \A t \in Subjects(c) : /\ c.redirect[t] = NoTitle
                           /\ c.redirect[RecipeTitle[t]] = NoTitle
                           /\ RecipeTitle[t] \notin Subjects(c)

StraightIsUnambiguous ==
    Straight(corpus) => \A m, n \in ResolvedNodes(corpus) : m.id = n.id => m = n

\* What a load resolves can be merged: its edges join its nodes, and where the
\* wiki has no redirects of the wrong kind an id is one node's.
GraphIsSound == EdgesJoinNodes /\ StraightIsUnambiguous

\* What a reference is an edge of, and which are written from the other end.
Kind(f) ==
    CASE f.predicate = "CONSUMED_BY" -> "CONSUMES"
      [] f.predicate = "ALLOWS" -> "REQUIRES"
      [] OTHER -> f.predicate
Backwards == {"CONSUMED_BY", "ALLOWS"}

\* The pages a reference may be to: the one of its name or, of a technology
\* that another allows, one of its name with a suffix.
Named(f) ==
    LET name == Target(corpus, f)
        names == {name} \cup {Suffixed[name][i] : i \in DOMAIN Suffixed[name]}
    IN  (IF f.predicate = "ALLOWS" THEN {Canonical(corpus, n) : n \in names} ELSE {name})
            \cap Subjects(corpus)

\* Those of a kind such a reference can be to: a recipe consumes, and the
\* technologies require one another.
Fitting(f) ==
    {t \in Named(f) : /\ f.predicate = "CONSUMED_BY" => HasRecipe(corpus, t)
                      /\ Kind(f) = "REQUIRES" => IsUnlock(corpus, t)}

\* "Dropping those is a deliberate filter" (resolve.py): what a page that is no
\* technology requires or allows.
Filtered(f) == Kind(f) = "REQUIRES" /\ ~IsUnlock(corpus, f.subject)

\* The edge says of the subject and of page t what the reference does.
Joins(e, f, t) ==
    LET ids(u) == {ItemId(corpus, u), RecipeId(corpus, u)}
        from == IF f.predicate \in Backwards THEN t ELSE f.subject
        to == IF f.predicate \in Backwards THEN f.subject ELSE t
    IN  e.type = Kind(f) /\ e.from \in ids(from) /\ e.to \in ids(to)

Links(e, f) == ~Filtered(f) /\ \E t \in Fitting(f) : Joins(e, f, t)

Logged(f) ==
    [subject |-> f.subject, predicate |-> f.predicate, object |-> Target(corpus, f)] \in Unresolved(corpus)

\* README: "A reference that resolves to nothing is logged, never invented."
\* Of the references a load reads, those that can be to a page give an edge of
\* their kind and direction between the two, but for those that are filtered;
\* the others, and only they, are logged, but for a requirement, which is
\* dropped in silence; and every edge is the edge of some reference.
ReferencesAccountedFor ==
    pc = "nodes" /\ todo = graph =>
        /\ \A f \in {f \in fact : f.predicate \in References} :
              /\ Logged(f) <=> Fitting(f) = {} /\ f.predicate # "REQUIRES"
              /\ Fitting(f) # {} /\ ~Filtered(f) => \E e \in graph.edges : Links(e, f)
        /\ \A e \in graph.edges :
              \E f \in {f \in fact : f.predicate \in References} : Links(e, f)

\* The row a relationship was merged from.
RowOf(e) == [from |-> e.from.id, type |-> e.type, to |-> e.to.id, amount |-> e.amount]

\* A load ends with exactly the graph, however many earlier ones of the same
\* graph were killed or run to the end: every batch can be merged again.
SameGraphIsExact ==
    outcome = "ok" /\ ~mixed /\ Unambiguous =>
        /\ nodes = graph.nodes
        /\ {RowOf(e) : e \in edges} = graph.edges

\* Reloading a graph that has not changed is never refused.
SameGraphLoads == ~mixed /\ Unambiguous => outcome # "failed"

\* cli.py, graph load: "running this again after a re-extraction is always safe".
ReloadIsSafe == Unambiguous => outcome # "failed"
=============================================================================
