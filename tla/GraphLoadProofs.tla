--------------------------- MODULE GraphLoadProofs ---------------------------
(***************************************************************************)
(* What holds of the graph, of the loads, and of the trees that are asked  *)
(* of what they leave, for any wiki.                                       *)
(*                                                                         *)
(* Inductive invariants: Inv, that everything has its type and no edge of  *)
(* a graph dangles; OneGraph, that as long as loads have resolved one      *)
(* graph only, Neo4j holds nothing else, so that a row finds nothing but   *)
(* itself; Done, that rows no longer to do are in Neo4j; Current, that     *)
(* a load works on the corpus as it is; and Stored, that a relationship is *)
(* between nodes that are there, a label of an id is one node's, and with  *)
(* one graph loaded nothing else is in Neo4j, from and to all nodes of an  *)
(* id.                                                                     *)
(***************************************************************************)
EXTENDS RecipeTree, SequenceFolds

-----------------------------------------------------------------------------
(* What EntityResolver makes of any corpus: nodes and edges of their type, *)
(* edges that join nodes, and, where titles are not redirected, one node   *)
(* for each id.                                                            *)

IsCorpus(c) ==
    /\ c.fact \subseteq Fact
    /\ c.redirect \in [Names -> Names \cup {NoTitle}]

\* The ids a title can stand for.
EntityIds(c) ==
    {ItemId(c, t) : t \in Subjects(c)}
        \cup {RecipeId(c, t) : t \in {t \in Subjects(c) : HasRecipe(c, t)}}

EdgeTypes == {"CONSUMES", "PRODUCES", "CRAFTED_AT", "UNLOCKS", "COSTS", "REQUIRES"}

LEMMA SubjectType ==
  ASSUME NEW c, IsCorpus(c), NEW t \in Subjects(c)
  PROVE  t \in Titles /\ t \in Names /\ LabelsOf(c, t) \subseteq Labels
<1>1. PICK f \in c.fact : f.subject = t
  BY DEF Subjects
<1>2. LabelsOf(c, t) \subseteq Labels
  BY <1>1 DEF LabelsOf, IsCorpus, Fact
<1> QED
  BY <1>1, <1>2, ExtractionAssumption DEF IsCorpus, Fact

LEMMA FactType ==
  ASSUME NEW c, IsCorpus(c), NEW f \in c.fact
  PROVE  f.subject \in Subjects(c) /\ f.amount \in BOOLEAN
  BY DEF IsCorpus, Fact, Subjects

LEMMA CanonicalType ==
  ASSUME NEW c, IsCorpus(c), NEW name \in Names
  PROVE  Canonical(c, name) \in Names
  BY DEF IsCorpus, Canonical

LEMMA IdType ==
  ASSUME NEW c, IsCorpus(c), NEW t \in Subjects(c)
  PROVE  ItemId(c, t) \in Names /\ RecipeId(c, t) \in Names
<1>1. t \in Titles /\ t \in Names /\ RecipeTitle[t] \in Names
  BY SubjectType, ResolutionAssumption
<1> QED
  BY <1>1, CanonicalType DEF ItemId, RecipeId

\* A title's own node, and its recipe's.
LEMMA IdsOfSubject ==
  ASSUME NEW c, NEW t \in Subjects(c)
  PROVE  /\ ItemId(c, t) \in EntityIds(c)
         /\ HasRecipe(c, t) => RecipeId(c, t) \in EntityIds(c)
  BY DEF EntityIds

LEMMA FollowOnType ==
  ASSUME NEW c, NEW name, NEW u \in FollowOn(c, name)
  PROVE  u \in Subjects(c)
  BY DEF FollowOn, First, IsUnlock

\* Every edge joins ids of titles that are subjects of facts.
LEMMA EdgesOfType ==
  ASSUME NEW c, IsCorpus(c), NEW f \in c.fact, NEW e \in EdgesOf(c, f)
  PROVE  /\ e.from \in EntityIds(c) /\ e.to \in EntityIds(c)
         /\ e = Edge(e.from, e.type, e.to, e.amount)
         /\ e.type \in EdgeTypes /\ e.amount \in BOOLEAN
<1> DEFINE Good(x) == /\ x.from \in EntityIds(c) /\ x.to \in EntityIds(c)
                      /\ x = Edge(x.from, x.type, x.to, x.amount)
                      /\ x.type \in EdgeTypes /\ x.amount \in BOOLEAN
<1>0. f.subject \in Subjects(c) /\ f.amount \in BOOLEAN
  BY FactType
<1>1. ASSUME NEW from \in EntityIds(c), NEW type \in EdgeTypes, NEW to \in EntityIds(c),
             NEW amount \in BOOLEAN
      PROVE  Good(Edge(from, type, to, amount))
  BY DEF Edge
<1> HIDE DEF Good
<1>2. ASSUME e \in AllowsEdges(c, f) PROVE Good(e)
  <2>1. PICK u \in Subjects(c) : e = Edge(ItemId(c, u), "REQUIRES", ItemId(c, f.subject), FALSE)
    BY <1>2, FollowOnType DEF AllowsEdges
  <2> QED
    BY <2>1, <1>0, <1>1, IdsOfSubject DEF EdgeTypes
<1>3. ASSUME e \in ConsumedByEdges(c, f) PROVE Good(e)
  <2>1. /\ Target(c, f) \in Subjects(c) /\ HasRecipe(c, Target(c, f))
        /\ e = Edge(RecipeId(c, Target(c, f)), "CONSUMES", ItemId(c, f.subject), FALSE)
    BY <1>3 DEF ConsumedByEdges, Resolves
  <2> QED
    BY <2>1, <1>0, <1>1, IdsOfSubject DEF EdgeTypes
<1>4. ASSUME e \in RequiresEdges(c, f) PROVE Good(e)
  <2>1. /\ Target(c, f) \in Subjects(c)
        /\ e = Edge(ItemId(c, f.subject), "REQUIRES", ItemId(c, Target(c, f)), FALSE)
    BY <1>4 DEF RequiresEdges, IsUnlock
  <2> QED
    BY <2>1, <1>0, <1>1, IdsOfSubject DEF EdgeTypes
<1>5. ASSUME f.predicate \in Relations, e \in RelationEdges(c, f) PROVE Good(e)
  <2>1. Target(c, f) \in Subjects(c) /\ e = Edge(From(c, f), f.predicate, To(c, f), f.amount)
    BY <1>5 DEF RelationEdges, Resolves
  <2>2. From(c, f) \in EntityIds(c)
    BY <1>0, IdsOfSubject DEF From, HasRecipe
  <2>3. To(c, f) \in EntityIds(c)
    BY <2>1, IdsOfSubject DEF To
  <2>4. f.predicate \in EdgeTypes
    BY <1>5 DEF Relations, EdgeTypes
  <2> QED
    BY <2>1, <2>2, <2>3, <2>4, <1>0, <1>1
<1>6. Good(e)
  BY <1>2, <1>3, <1>4, <1>5 DEF EdgesOf
<1> QED
  BY <1>6 DEF Good

LEMMA ResolvedEdgesType ==
  ASSUME NEW c, IsCorpus(c), NEW e \in ResolvedEdges(c)
  PROVE  /\ e.from \in EntityIds(c) /\ e.to \in EntityIds(c)
         /\ e = Edge(e.from, e.type, e.to, e.amount)
         /\ e.type \in EdgeTypes /\ e.amount \in BOOLEAN
<1>1. PICK f \in c.fact : e \in EdgesOf(c, f)
  BY DEF ResolvedEdges
<1> QED
  BY <1>1, EdgesOfType

LEMMA EntityIdsType ==
  ASSUME NEW c, IsCorpus(c)
  PROVE  EntityIds(c) \subseteq Names
  BY IdType DEF EntityIds

-----------------------------------------------------------------------------
\* The nodes before the stations are known.
PlainNodes(c) == UNION {PageNodes(c, t) : t \in Subjects(c)}

Labelled(c, n) == [n EXCEPT !.labels = IF n.id \in Stations(c) THEN @ \cup {"Station"} ELSE @]

LEMMA NodesAreLabelled ==
  ASSUME NEW c
  PROVE  ResolvedNodes(c) = {Labelled(c, n) : n \in PlainNodes(c)}
  BY DEF ResolvedNodes, Labelled, PlainNodes

LEMMA PlainNodeForm ==
  ASSUME NEW c, NEW n \in PlainNodes(c)
  PROVE  \E t \in Subjects(c) : \/ n = ItemNode(c, t)
                                \/ n = RecipeNode(c, t) /\ HasRecipe(c, t) /\ RecipeId(c, t) # ItemId(c, t)
  BY DEF PlainNodes, PageNodes

LEMMA LabelledFields ==
  ASSUME NEW c, NEW t \in Subjects(c), NEW n, n = ItemNode(c, t) \/ n = RecipeNode(c, t)
  PROVE  /\ Labelled(c, n).id = n.id /\ Labelled(c, n).title = n.title
         /\ Labelled(c, n).labels \in {n.labels, n.labels \cup {"Station"}}
         /\ Labelled(c, n) = [id |-> n.id, labels |-> Labelled(c, n).labels, title |-> n.title]
  BY DEF Labelled, ItemNode, RecipeNode

LEMMA ResolvedNodesType ==
  ASSUME NEW c, IsCorpus(c)
  PROVE  ResolvedNodes(c) \subseteq [id : Names, labels : SUBSET Labels, title : Names]
<1> SUFFICES ASSUME NEW n \in PlainNodes(c)
             PROVE  Labelled(c, n) \in [id : Names, labels : SUBSET Labels, title : Names]
  BY NodesAreLabelled
<1>1. PICK t \in Subjects(c) : n = ItemNode(c, t) \/ n = RecipeNode(c, t)
  BY PlainNodeForm
<1>2. /\ t \in Titles /\ t \in Names /\ LabelsOf(c, t) \subseteq Labels
      /\ RecipeTitle[t] \in Names /\ ItemId(c, t) \in Names /\ RecipeId(c, t) \in Names
  BY SubjectType, IdType, ResolutionAssumption
<1>3. n.id \in Names /\ n.labels \subseteq Labels /\ n.title \in Names
  BY <1>1, <1>2 DEF ItemNode, RecipeNode, Labels
<1>4. Labelled(c, n).labels \subseteq Labels
  BY <1>1, <1>3, LabelledFields DEF Labels
<1> QED
  BY <1>1, <1>3, <1>4, LabelledFields

\* Every id of a title has its node.
LEMMA EntityIdsHaveNodes ==
  ASSUME NEW c, NEW id \in EntityIds(c)
  PROVE  \E n \in ResolvedNodes(c) : n.id = id
<1>1. PICK t \in Subjects(c) : \/ id = ItemId(c, t)
                               \/ id = RecipeId(c, t) /\ HasRecipe(c, t) /\ RecipeId(c, t) # ItemId(c, t)
  BY DEF EntityIds
<1>2. ItemNode(c, t) \in PlainNodes(c) /\ ItemNode(c, t).id = ItemId(c, t)
  BY DEF PlainNodes, PageNodes, ItemNode
<1>3. HasRecipe(c, t) /\ RecipeId(c, t) # ItemId(c, t) =>
          RecipeNode(c, t) \in PlainNodes(c) /\ RecipeNode(c, t).id = RecipeId(c, t)
  BY DEF PlainNodes, PageNodes, RecipeNode
<1>4. ASSUME NEW n \in PlainNodes(c), n = ItemNode(c, t) \/ n = RecipeNode(c, t), n.id = id
      PROVE  \E m \in ResolvedNodes(c) : m.id = id
  <2>1. Labelled(c, n) \in ResolvedNodes(c)
    BY NodesAreLabelled
  <2> QED
    BY <1>4, <2>1, LabelledFields
<1> QED
  BY <1>1, <1>2, <1>3, <1>4

-----------------------------------------------------------------------------
\* Where titles are not redirected, nor recipes, and none is called what the
\* recipe of another is, an id is the title it was made from.
LEMMA StraightIds ==
  ASSUME NEW c, NEW t \in Subjects(c),
         c.redirect[t] = NoTitle, c.redirect[RecipeTitle[t]] = NoTitle
  PROVE  ItemId(c, t) = t /\ (RecipeId(c, t) = t \/ RecipeId(c, t) = RecipeTitle[t])
  BY DEF ItemId, RecipeId, Canonical

LEMMA StraightNodes ==
  ASSUME NEW c, IsCorpus(c),
         \A t \in Subjects(c) : /\ c.redirect[t] = NoTitle
                                /\ c.redirect[RecipeTitle[t]] = NoTitle
                                /\ RecipeTitle[t] \notin Subjects(c),
         NEW m \in PlainNodes(c), NEW n \in PlainNodes(c), m.id = n.id
  PROVE  m = n
<1>1. PICK t \in Subjects(c) : \/ m = ItemNode(c, t)
                               \/ m = RecipeNode(c, t) /\ HasRecipe(c, t) /\ RecipeId(c, t) # ItemId(c, t)
  BY PlainNodeForm
<1>2. PICK u \in Subjects(c) : \/ n = ItemNode(c, u)
                               \/ n = RecipeNode(c, u) /\ HasRecipe(c, u) /\ RecipeId(c, u) # ItemId(c, u)
  BY PlainNodeForm
<1>3. /\ ItemNode(c, t).id = t /\ ItemNode(c, u).id = u
      /\ RecipeId(c, t) # ItemId(c, t) => RecipeNode(c, t).id = RecipeTitle[t]
      /\ RecipeId(c, u) # ItemId(c, u) => RecipeNode(c, u).id = RecipeTitle[u]
  BY StraightIds DEF ItemNode, RecipeNode
<1>4. RecipeTitle[t] # u /\ RecipeTitle[u] # t
  OBVIOUS
<1>5. RecipeTitle[t] = RecipeTitle[u] => t = u
  BY SubjectType, ResolutionAssumption
<1> QED
  BY <1>1, <1>2, <1>3, <1>4, <1>5

LEMMA StraightIsOneToOne ==
  ASSUME NEW c, IsCorpus(c),
         \A t \in Subjects(c) : /\ c.redirect[t] = NoTitle
                                /\ c.redirect[RecipeTitle[t]] = NoTitle
                                /\ RecipeTitle[t] \notin Subjects(c),
         NEW m \in ResolvedNodes(c), NEW n \in ResolvedNodes(c), m.id = n.id
  PROVE  m = n
<1>1. PICK a \in PlainNodes(c) : m = Labelled(c, a)
  BY NodesAreLabelled
<1>2. PICK b \in PlainNodes(c) : n = Labelled(c, b)
  BY NodesAreLabelled
<1>3. a.id = b.id
  BY <1>1, <1>2, PlainNodeForm, LabelledFields
<1> QED
  BY <1>1, <1>2, <1>3, StraightNodes

-----------------------------------------------------------------------------
(* The corpus, the graph and the loads.                                    *)

\* A page's facts are facts.
LEMMA ClassifyType ==
  ASSUME NEW page
  PROVE  Classify(page) \subseteq Labels
<1>1. ASSUME NEW i \in DOMAIN TypeRules PROVE TypeRules[i].emit \subseteq Labels
  <2> DEFINE Rule == [present : SUBSET STRING, emit : SUBSET Labels]
  <2>1. TypeRules \in Seq(Rule)
    BY ExtractionAssumption
  <2>2. \A rule \in Rule : rule.emit \subseteq Labels
    OBVIOUS
  <2> HIDE DEF Rule
  <2> QED
    BY <2>1, <2>2
<1>2. \A i \in First(Matching(page)) : i \in DOMAIN TypeRules
  BY DEF First, Matching
<1> QED
  BY <1>1, <1>2, ExtractionAssumption DEF Classify

LEMMA FactForm ==
  ASSUME NEW t \in Titles, NEW labels \in SUBSET Labels, NEW predicate,
         NEW object, NEW amount \in BOOLEAN,
         \/ predicate \in References /\ object \in Names
         \/ predicate \in Attributes /\ object = NoTitle
  PROVE  [subject |-> t, labels |-> labels, predicate |-> predicate,
          object |-> object, amount |-> amount] \in Fact
  BY DEF Fact

LEMMA FieldFactsType ==
  ASSUME NEW t \in Titles, NEW labels \in SUBSET Labels, NEW page, Parses(page),
         NEW f \in DOMAIN page.params
  PROVE  FieldFacts(t, labels, f, page.params[f]) \subseteq Fact
<1> DEFINE value == page.params[f]
           made(predicate, object, amount) ==
               [subject |-> t, labels |-> labels, predicate |-> predicate,
                object |-> object, amount |-> amount]
<1>1. /\ {"crafting_time", "stack_size"} \subseteq Attributes
      /\ {"CONSUMES", "PRODUCES"} \subseteq References
      /\ f \in DOMAIN ListPredicate => ListPredicate[f] \in References
      /\ t \in Names
  BY ExtractionAssumption DEF References, Attributes
<1>2. value # Broken => /\ f \in DOMAIN ListPredicate => value \subseteq Names
                        /\ f = "recipe" => value.inputs \subseteq Names /\ value.outputs \subseteq Names
  BY DEF Parses
<1> HIDE DEF value
<1>3. CASE value = Broken
  BY <1>3 DEF FieldFacts, value
<1>4. CASE value # Broken /\ f = "recipe"
  <2>1. FieldFacts(t, labels, f, value) =
            {made("crafting_time", NoTitle, FALSE)}
                \cup {made("CONSUMES", o, TRUE) : o \in value.inputs}
                \cup {made("PRODUCES", o, TRUE) : o \in OutputsOf(t, value)}
    BY <1>4 DEF FieldFacts
  <2>2. OutputsOf(t, value) \subseteq Names
    BY <1>1, <1>2, <1>4 DEF OutputsOf
  <2>3. made("crafting_time", NoTitle, FALSE) \in Fact
    BY <1>1, FactForm
  <2>4. ASSUME NEW o \in value.inputs PROVE made("CONSUMES", o, TRUE) \in Fact
    BY <1>1, <1>2, <1>4, FactForm
  <2>5. ASSUME NEW o \in OutputsOf(t, value) PROVE made("PRODUCES", o, TRUE) \in Fact
    BY <2>2, <1>1, FactForm
  <2> HIDE DEF made
  <2> QED
    BY <2>1, <2>3, <2>4, <2>5 DEF value
<1>5. CASE value # Broken /\ f # "recipe" /\ f \in DOMAIN ListPredicate
  <2>1. FieldFacts(t, labels, f, value) = {made(ListPredicate[f], o, f = "cost") : o \in value}
    BY <1>5 DEF FieldFacts
  <2>2. ASSUME NEW o \in value PROVE made(ListPredicate[f], o, f = "cost") \in Fact
    <3>1. o \in Names /\ ListPredicate[f] \in References
      BY <1>1, <1>2, <1>5
    <3>2. (f = "cost") \in BOOLEAN
      OBVIOUS
    <3> QED
      BY <3>1, <3>2, FactForm
  <2> HIDE DEF made
  <2> QED
    BY <2>1, <2>2 DEF value
<1>6. CASE value # Broken /\ f # "recipe" /\ f \notin DOMAIN ListPredicate
  <2>1. FieldFacts(t, labels, f, value) = {made("stack_size", NoTitle, FALSE)}
    BY <1>6 DEF FieldFacts
  <2> QED
    BY <2>1, <1>1, FactForm DEF value
<1> QED
  BY <1>3, <1>4, <1>5, <1>6

PagesAreContents == \A t \in Titles : pages[t] \in Contents[t]

LEMMA ExtractedFactsType ==
  ASSUME PagesAreContents
  PROVE  ExtractedFacts(pages) \subseteq Fact
<1> SUFFICES ASSUME NEW t \in Titles, pages[t] # NoPage
             PROVE  PageFacts(t, pages[t]) \subseteq Fact
  BY DEF ExtractedFacts
<1>1. Parses(pages[t])
  BY GraphLoadAssumption DEF PagesAreContents
<1>2. Classify(pages[t]) \subseteq Labels
  BY ClassifyType
<1>3. ASSUME NEW f \in DOMAIN pages[t].params
      PROVE  FieldFacts(t, Classify(pages[t]), f, pages[t].params[f]) \subseteq Fact
  BY <1>1, <1>2, FieldFactsType
<1> QED
  BY <1>3 DEF PageFacts

LEMMA ResolveType ==
  ASSUME NEW c, IsCorpus(c)
  PROVE  Resolve(c) \in Graph
<1>1. ResolvedNodes(c) \subseteq Node
  BY ResolvedNodesType DEF Node
<1>2. ASSUME NEW e \in ResolvedEdges(c) PROVE e \in EdgeRow
  <2>1. e.from \in Names /\ e.to \in Names
    BY ResolvedEdgesType, EntityIdsType
  <2>2. e.type \in Relations \cup {"REQUIRES"} /\ e.amount \in BOOLEAN
    BY ResolvedEdgesType DEF EdgeTypes, Relations
  <2>3. e = [from |-> e.from, type |-> e.type, to |-> e.to, amount |-> e.amount]
    BY ResolvedEdgesType DEF Edge
  <2> QED
    BY <2>1, <2>2, <2>3 DEF EdgeRow
<1> QED
  BY <1>1, <1>2 DEF Graph, Resolve

LEMMA ResolveJoins ==
  ASSUME NEW c, IsCorpus(c), NEW e \in Resolve(c).edges
  PROVE  /\ \E n \in Resolve(c).nodes : n.id = e.from
         /\ \E n \in Resolve(c).nodes : n.id = e.to
  BY ResolvedEdgesType, EntityIdsHaveNodes DEF Resolve

-----------------------------------------------------------------------------
Relationships == [from : Keys, type : Relations \cup {"REQUIRES"}, to : Keys, amount : BOOLEAN]

LEMMA LinkedType ==
  ASSUME nodes \subseteq Node, edges \subseteq Relationships, NEW rows \in SUBSET EdgeRow
  PROVE  Linked(rows) \subseteq Relationships
<1> DEFINE touched == UNION {Ends(r) : r \in rows}
           stated(b) == \/ \E e \in edges : Between(e) = b /\ e.amount
                        \/ \E r \in rows : b \in Ends(r) /\ r.amount
<1>1. ASSUME NEW n \in nodes PROVE Key(n) \in Keys
  BY DEF Key, Keys, Node
<1>2. ASSUME NEW r \in rows, NEW b \in Ends(r)
      PROVE  b.from \in Keys /\ b.type \in Relations \cup {"REQUIRES"} /\ b.to \in Keys
  <2>1. PICK m \in nodes, n \in nodes : b = [from |-> Key(m), type |-> r.type, to |-> Key(n)]
    BY DEF Ends
  <2>2. r.type \in Relations \cup {"REQUIRES"}
    BY DEF EdgeRow
  <2> QED
    BY <2>1, <2>2, <1>1
<1>3. ASSUME NEW b \in touched
      PROVE  [from |-> b.from, type |-> b.type, to |-> b.to, amount |-> stated(b)] \in Relationships
  <2>1. stated(b) \in BOOLEAN
    OBVIOUS
  <2> HIDE DEF stated
  <2> QED
    BY <2>1, <1>2 DEF Relationships
<1>4. Linked(rows) = {e \in edges : Between(e) \notin touched}
          \cup {[from |-> b.from, type |-> b.type, to |-> b.to, amount |-> stated(b)] : b \in touched}
  BY DEF Linked
<1> HIDE DEF touched, stated
<1> QED
  BY <1>3, <1>4

LEMMA CorpusType ==
  ASSUME TypeOK
  PROVE  IsCorpus(corpus)
  BY GraphLoadAssumption DEF TypeOK, IsCorpus, corpus

LEMMA NoGraphType == NoGraph \in Graph
  BY DEF NoGraph, Graph

\* What the loader's half of TypeOK is about.
LoaderOK ==
    /\ nodes \in SUBSET Node /\ view \in SUBSET Node
    /\ edges \in SUBSET Relationships
    /\ pc \in {"idle", "nodes", "edges"}
    /\ graph \in Graph /\ todo \in Graph
    /\ inBatch \in 0..BatchSize
    /\ outcome \in {"none", "running", "ok", "failed", "killed"}
    /\ mixed \in BOOLEAN
    /\ loads \in 0..MaxLoads

WikiOK ==
    /\ pages \in [Titles -> UNION {Contents[t] : t \in Titles}]
    /\ PagesAreContents
    /\ redirect \in Redirects
    /\ fact \in SUBSET Fact
    /\ changes \in 0..MaxChanges

LEMMA TypeSplit == TypeOK <=> LoaderOK /\ WikiOK
  BY DEF TypeOK, LoaderOK, WikiOK, PagesAreContents, Relationships

Inv == TypeOK /\ EdgesJoinNodes

LEMMA InvInit == Init => Inv
<1> SUFFICES ASSUME Init PROVE Inv
  OBVIOUS
<1>1. PagesAreContents
  BY DEF Init, PagesAreContents
<1>2. fact \in SUBSET Fact
  BY <1>1, ExtractedFactsType DEF Init
<1>3. WikiOK
  BY <1>1, <1>2, GraphLoadAssumption DEF Init, WikiOK
<1>4. LoaderOK
  <2>1. inBatch \in 0..BatchSize /\ loads \in 0..MaxLoads
    BY GraphLoadAssumption DEF Init
  <2>2. graph \in Graph /\ todo \in Graph
    BY NoGraphType DEF Init
  <2> QED
    BY <2>1, <2>2, Zenon DEF Init, LoaderOK
<1>5. EdgesJoinNodes
  BY DEF Init, EdgesJoinNodes, NoGraph
<1> QED
  BY <1>3, <1>4, <1>5, TypeSplit DEF Inv

LEMMA InvStep == Inv /\ [Next]_vars => Inv'
<1> SUFFICES ASSUME Inv, [Next]_vars
             PROVE  WikiOK' /\ LoaderOK' /\ EdgesJoinNodes'
  BY TypeSplit DEF Inv, TypeOK, LoaderOK, WikiOK, PagesAreContents, Relationships
<1>0. WikiOK /\ LoaderOK /\ EdgesJoinNodes
  BY TypeSplit DEF Inv
<1>a. ASSUME UNCHANGED wiki PROVE WikiOK'
  BY <1>0, <1>a DEF WikiOK, wiki, PagesAreContents
<1>b. ASSUME UNCHANGED Loader PROVE LoaderOK' /\ EdgesJoinNodes'
  BY <1>0, <1>b DEF LoaderOK, Loader, EdgesJoinNodes
<1>c. ASSUME UNCHANGED graph PROVE EdgesJoinNodes'
  BY <1>0, <1>c DEF EdgesJoinNodes
<1>1. CASE Harvest
  <2>1. ASSUME NEW t \in Titles, NEW page \in Contents[t],
               pages' = [pages EXCEPT ![t] = page], UNCHANGED redirect
        PROVE  WikiOK' /\ LoaderOK' /\ EdgesJoinNodes'
    BY <1>0, <1>1, <2>1, <1>b, GraphLoadAssumption DEF Harvest, WikiOK, PagesAreContents
  <2>2. CASE redirect' \in Redirects /\ UNCHANGED pages
    BY <1>0, <1>1, <2>2, <1>b, GraphLoadAssumption DEF Harvest, WikiOK, PagesAreContents
  <2> QED
    BY <1>1, <2>1, <2>2 DEF Harvest
<1>2. CASE Extract
  BY <1>0, <1>2, <1>b, ExtractedFactsType DEF Extract, WikiOK, PagesAreContents
<1>3. CASE Start
  <2>1. graph' \in Graph
    BY <1>3, CorpusType, ResolveType DEF Start, Inv
  <2>2. EdgesJoinNodes'
    BY <1>3, CorpusType, ResolveJoins DEF Start, Inv, EdgesJoinNodes
  <2>3. LoaderOK'
    BY <1>0, <1>3, <2>1, GraphLoadAssumption DEF Start, LoaderOK
  <2> QED
    BY <1>3, <1>a, <2>2, <2>3 DEF Start
<1>4. ASSUME NEW how \in {"ok", "failed", "killed"}, End(how)
      PROVE  WikiOK' /\ LoaderOK' /\ EdgesJoinNodes'
  BY <1>0, <1>4, <1>a, <1>c, NoGraphType, GraphLoadAssumption DEF End, LoaderOK
<1>5. ASSUME NEW r \in todo.nodes, MergeNode(r)
      PROVE  WikiOK' /\ LoaderOK' /\ EdgesJoinNodes'
  <2>1. r \in Node /\ view \subseteq Node
    BY <1>0 DEF LoaderOK, Graph
  <2>2. ASSUME NEW n \in Matches(r) PROVE [n EXCEPT !.title = r.title] \in Node
    BY <2>1 DEF Matches, Node
  <2>3. view' \subseteq Node
    BY <1>5, <2>1, <2>2 DEF MergeNode
  <2>4. todo' \in Graph
    BY <1>0, <1>5 DEF MergeNode, LoaderOK, Graph
  <2>5. inBatch' \in 0..BatchSize
    BY <1>0, <1>5, GraphLoadAssumption DEF MergeNode, LoaderOK
  <2>6. LoaderOK'
    BY <1>0, <1>5, <2>3, <2>4, <2>5 DEF MergeNode, LoaderOK
  <2> QED
    BY <1>5, <1>a, <1>c, <2>6 DEF MergeNode
<1>6. CASE CommitNodes
  BY <1>0, <1>6, <1>a, <1>c, GraphLoadAssumption DEF CommitNodes, LoaderOK
<1>7. CASE MergeEdges
  <2>1. PICK rows \in SUBSET todo.edges :
            edges' = Linked(rows) /\ todo' = [todo EXCEPT !.edges = @ \ rows]
    BY <1>7 DEF MergeEdges
  <2>2. edges' \subseteq Relationships
    BY <1>0, <2>1, LinkedType DEF LoaderOK, Graph
  <2>3. todo' \in Graph
    BY <1>0, <2>1 DEF LoaderOK, Graph
  <2>4. LoaderOK'
    BY <1>0, <1>7, <2>2, <2>3 DEF MergeEdges, LoaderOK
  <2> QED
    BY <1>7, <1>a, <1>c, <2>4 DEF MergeEdges
<1>8. CASE UNCHANGED vars
  BY <1>8, <1>a, <1>b DEF vars, wiki, Loader
<1> QED
  BY <1>1, <1>2, <1>3, <1>4, <1>5, <1>6, <1>7, <1>8 DEF Next, NodeRefused, Finish, Kill

LEMMA AlwaysInv == Spec => []Inv
  BY InvInit, InvStep, PTL DEF Spec

\* Every variable of the corpus, the loader and the graph keeps its type,
\* whatever a page or a redirect turns into.
THEOREM TypeCorrect == Spec => []TypeOK
  BY AlwaysInv, PTL DEF Inv

\* No edge of a resolved graph dangles, for any wiki: ends are made of titles
\* that have facts, and each of these has its node, as EntityResolver decides
\* both in one pass.
THEOREM EdgesJoinNodesCorrect == Spec => []EdgesJoinNodes
  BY AlwaysInv, PTL DEF Inv

\* Where titles are not redirected, an id names one node: the item of a title
\* or the recipe of one.
THEOREM StraightCorrect == Spec => []StraightIsUnambiguous
<1>1. TypeOK => StraightIsUnambiguous
  BY CorpusType, StraightIsOneToOne DEF StraightIsUnambiguous, Straight
<1> QED
  BY <1>1, TypeCorrect, PTL

\* So whatever the wiki turns into, what a load resolves of it can be merged.
THEOREM GraphIsSoundCorrect == Spec => []GraphIsSound
<1>1. EdgesJoinNodes /\ StraightIsUnambiguous => GraphIsSound
  BY DEF GraphIsSound
<1> QED
  BY <1>1, EdgesJoinNodesCorrect, StraightCorrect, PTL
-----------------------------------------------------------------------------
(* One graph, loaded again and again.                                      *)

SameEnds(r, s) == r.from = s.from /\ r.type = s.type /\ r.to = s.to

\* What `keep` sees to.
OneRowEach(rows) == \A r, s \in rows : SameEnds(r, s) => r = s

LEMMA ResolvedRowsAreOne ==
  ASSUME NEW c, IsCorpus(c)
  PROVE  OneRowEach(Resolve(c).edges)
<1> SUFFICES ASSUME NEW r \in ResolvedEdges(c), NEW s \in ResolvedEdges(c), SameEnds(r, s)
             PROVE  r = s
  BY DEF OneRowEach, Resolve
<1> DEFINE all == UNION {EdgesOf(c, f) : f \in c.fact}
<1>1. /\ r = Edge(r.from, r.type, r.to, r.amount) /\ r.amount \in BOOLEAN
      /\ s = Edge(s.from, s.type, s.to, s.amount) /\ s.amount \in BOOLEAN
  BY ResolvedEdgesType
<1>2. /\ r \in all /\ (r.amount \/ [r EXCEPT !.amount = TRUE] \notin all)
      /\ s \in all /\ (s.amount \/ [s EXCEPT !.amount = TRUE] \notin all)
  BY DEF ResolvedEdges
<1> HIDE DEF all
<1>3. CASE r.amount = s.amount
  BY <1>1, <1>3 DEF SameEnds
<1>4. CASE r.amount = TRUE /\ s.amount = FALSE
  <2>1. [s EXCEPT !.amount = TRUE] = r
    BY <1>1, <1>4 DEF SameEnds, Edge
  <2> QED
    BY <2>1, <1>2, <1>4
<1>5. CASE r.amount = FALSE /\ s.amount = TRUE
  <2>1. [r EXCEPT !.amount = TRUE] = s
    BY <1>1, <1>5 DEF SameEnds, Edge
  <2> QED
    BY <2>1, <1>2, <1>5
<1> QED
  BY <1>1, <1>3, <1>4, <1>5

\* A batch of edges leaves rows of the graph, ...
LEMMA LinkedAreRows ==
  ASSUME NEW rows \in SUBSET graph.edges, graph.edges \subseteq EdgeRow, OneRowEach(graph.edges),
         \A e \in edges : RowOf(e) \in graph.edges
  PROVE  \A e \in Linked(rows) : RowOf(e) \in graph.edges
<1> DEFINE touched == UNION {Ends(r) : r \in rows}
           stated(b) == \/ \E e \in edges : Between(e) = b /\ e.amount
                        \/ \E r \in rows : b \in Ends(r) /\ r.amount
           made(b) == [from |-> b.from, type |-> b.type, to |-> b.to, amount |-> stated(b)]
<1>1. ASSUME NEW r \in rows, NEW b \in Ends(r)
      PROVE  b.from.id = r.from /\ b.type = r.type /\ b.to.id = r.to
  BY DEF Ends, Key
<1>2. ASSUME NEW r \in rows, NEW b \in Ends(r)
      PROVE  RowOf(made(b)) \in graph.edges
  <2>1. ASSUME NEW e \in edges, Between(e) = b, e.amount
        PROVE  r.amount
    <3>1. SameEnds(RowOf(e), r) /\ RowOf(e).amount
      BY <1>1, <2>1 DEF Between, RowOf, SameEnds
    <3>2. RowOf(e) = r
      BY <3>1 DEF OneRowEach
    <3> QED
      BY <3>1, <3>2
  <2>2. ASSUME NEW s \in rows, b \in Ends(s), s.amount
        PROVE  r.amount
    <3>1. SameEnds(s, r)
      BY <1>1, <2>2 DEF SameEnds
    <3> QED
      BY <3>1, <2>2 DEF OneRowEach
  <2>3. stated(b) <=> r.amount
    BY <2>1, <2>2
  <2>4. r.amount \in BOOLEAN /\ stated(b) \in BOOLEAN
    BY DEF EdgeRow
  <2> HIDE DEF stated
  <2>5. stated(b) = r.amount
    BY <2>3, <2>4
  <2>6. RowOf(made(b)) = [from |-> r.from, type |-> r.type, to |-> r.to, amount |-> r.amount]
    BY <1>1, <2>5 DEF RowOf
  <2>7. RowOf(made(b)) = r
    BY <2>6 DEF EdgeRow
  <2> QED
    BY <2>7
<1>3. Linked(rows) = {e \in edges : Between(e) \notin touched} \cup {made(b) : b \in touched}
  BY DEF Linked
<1> HIDE DEF made
<1> QED
  BY <1>2, <1>3

\* ... keeps every row that was there, and adds its own, if they have ends.
LEMMA LinkedHoldRows ==
  ASSUME NEW rows \in SUBSET graph.edges, graph.edges \subseteq EdgeRow, OneRowEach(graph.edges),
         \A e \in edges : RowOf(e) \in graph.edges,
         NEW r \in graph.edges,
         \/ \E e \in edges : RowOf(e) = r
         \/ /\ r \in rows
            /\ \E n \in nodes : n.id = r.from
            /\ \E n \in nodes : n.id = r.to
  PROVE  \E e \in Linked(rows) : RowOf(e) = r
<1> DEFINE touched == UNION {Ends(s) : s \in rows}
           stated(b) == \/ \E e \in edges : Between(e) = b /\ e.amount
                        \/ \E s \in rows : b \in Ends(s) /\ s.amount
           made(b) == [from |-> b.from, type |-> b.type, to |-> b.to, amount |-> stated(b)]
<1>1. Linked(rows) = {e \in edges : Between(e) \notin touched} \cup {made(b) : b \in touched}
  BY DEF Linked
<1>2. ASSUME NEW b \in touched, b.from.id = r.from, b.type = r.type, b.to.id = r.to
      PROVE  \E e \in Linked(rows) : RowOf(e) = r
  <2>1. made(b) \in Linked(rows)
    BY <1>1
  <2>2. RowOf(made(b)) \in graph.edges
    BY <2>1, LinkedAreRows
  <2>3. SameEnds(RowOf(made(b)), r)
    BY <1>2 DEF SameEnds, RowOf
  <2> HIDE DEF made
  <2>4. RowOf(made(b)) = r
    BY <2>2, <2>3 DEF OneRowEach
  <2> QED
    BY <2>1, <2>4
<1> HIDE DEF made
<1>3. ASSUME NEW e \in edges, RowOf(e) = r
      PROVE  \E x \in Linked(rows) : RowOf(x) = r
  <2>1. Between(e).from.id = r.from /\ Between(e).type = r.type /\ Between(e).to.id = r.to
    BY <1>3 DEF RowOf, Between
  <2>2. CASE Between(e) \in touched
    BY <1>2, <2>1, <2>2
  <2>3. CASE Between(e) \notin touched
    BY <1>1, <1>3, <2>3
  <2> QED
    BY <2>2, <2>3
<1>4. ASSUME r \in rows, NEW m \in nodes, m.id = r.from, NEW n \in nodes, n.id = r.to
      PROVE  \E x \in Linked(rows) : RowOf(x) = r
  <2> DEFINE b == [from |-> Key(m), type |-> r.type, to |-> Key(n)]
  <2>1. b \in Ends(r)
    BY <1>4 DEF Ends
  <2>2. b.from.id = r.from /\ b.type = r.type /\ b.to.id = r.to
    BY <1>4 DEF Key
  <2> HIDE DEF b
  <2> QED
    BY <1>2, <1>4, <2>1, <2>2
<1> QED
  BY <1>3, <1>4
NothingLoaded ==
    loads = 0 => /\ pc = "idle" /\ outcome = "none"
                 /\ nodes = {} /\ view = {} /\ edges = {}

Progress ==
    /\ todo.nodes \subseteq graph.nodes /\ todo.edges \subseteq graph.edges
    /\ pc = "nodes" => todo.edges = graph.edges
    /\ pc # "idle" => outcome = "running"
    /\ OneRowEach(graph.edges)

\* With one graph loaded, Neo4j holds its rows only, and all that are not to do.
Mine ==
    /\ nodes \subseteq graph.nodes /\ view \subseteq graph.nodes
    /\ \A e \in edges : RowOf(e) \in graph.edges
    /\ pc = "nodes" => graph.nodes \subseteq view \cup todo.nodes
    /\ pc = "edges" => graph.nodes \subseteq nodes
    /\ pc = "edges" => \A r \in graph.edges \ todo.edges : \E e \in edges : RowOf(e) = r
    /\ outcome = "ok" => graph.nodes \subseteq nodes
    /\ outcome = "ok" => \A r \in graph.edges : \E e \in edges : RowOf(e) = r
    /\ outcome # "failed"

OneGraph == NothingLoaded /\ Progress /\ (~mixed /\ Unambiguous => Mine)

LEMMA OneGraphInit == Init => OneGraph
<1> SUFFICES ASSUME Init PROVE OneGraph
  OBVIOUS
<1>1. /\ nodes = {} /\ view = {} /\ edges = {} /\ pc = "idle" /\ outcome = "none"
      /\ graph.nodes = {} /\ graph.edges = {} /\ todo.nodes = {} /\ todo.edges = {}
  BY DEF Init, NoGraph
<1> QED
  BY <1>1 DEF OneGraph, NothingLoaded, Progress, Mine, OneRowEach

\* A row of the one graph finds itself, or nothing at all.
LEMMA FindsItself ==
  ASSUME Unambiguous, view \subseteq graph.nodes, NEW r \in graph.nodes
  PROVE  /\ \A n \in view : n.id = r.id => n = r
         /\ Matches(r) \subseteq {r}
         /\ ~Refused(r)
<1>1. \A n \in view : n.id = r.id => n = r
  BY DEF Unambiguous
<1> QED
  BY <1>1 DEF Matches, Refused

LEMMA OneGraphStep == Inv /\ OneGraph /\ [Next]_vars => OneGraph'
<1> SUFFICES ASSUME Inv, OneGraph, [Next]_vars
             PROVE  OneGraph'
  OBVIOUS
<1>0. NothingLoaded /\ Progress /\ (~mixed /\ Unambiguous => Mine) /\ LoaderOK /\ EdgesJoinNodes
  BY TypeSplit DEF OneGraph, Inv
<1>a. ASSUME UNCHANGED Loader PROVE OneGraph'
  BY <1>0, <1>a DEF Loader, OneGraph, NothingLoaded, Progress, Mine, Unambiguous
<1>1. CASE Harvest
  BY <1>1, <1>a DEF Harvest
<1>2. CASE Extract
  BY <1>2, <1>a DEF Extract
<1>3. CASE Start
  <2>1. NothingLoaded'
    BY <1>0, <1>3 DEF Start, NothingLoaded, LoaderOK
  <2>2. Progress'
    BY <1>3, CorpusType, ResolvedRowsAreOne DEF Start, Progress, Inv
  <2>3. ASSUME ~mixed', Unambiguous' PROVE Mine'
    <3>1. CASE loads = 0
      BY <1>0, <1>3, <3>1 DEF Start, NothingLoaded, Mine
    <3>2. CASE loads # 0
      <4>0. loads > 0
        BY <1>0, <3>2, GraphLoadAssumption DEF LoaderOK
      <4>1. graph' = graph /\ ~mixed
        BY <1>3, <2>3, <4>0, Zenon DEF Start
      <4>2. Mine
        BY <1>0, <2>3, <4>1 DEF Unambiguous
      <4> QED
        BY <1>3, <4>1, <4>2 DEF Start, Mine
    <3> QED
      BY <3>1, <3>2
  <2> QED
    BY <2>1, <2>2, <2>3 DEF OneGraph
<1>4. ASSUME NEW how \in {"ok", "failed", "killed"}, pc # "idle", End(how),
             ~mixed /\ Unambiguous => how # "failed",
             how = "ok" => pc = "edges" /\ todo.edges = {}
      PROVE  OneGraph'
  <2>1. NothingLoaded'
    BY <1>0, <1>4 DEF End, NothingLoaded
  <2>2. Progress'
    <3>1. NoGraph.nodes = {} /\ NoGraph.edges = {}
      BY DEF NoGraph
    <3> QED
      BY <1>0, <1>4, <3>1 DEF End, Progress
  <2>3. ASSUME ~mixed, Unambiguous PROVE Mine'
    BY <1>0, <1>4, <2>3 DEF End, Mine
  <2> QED
    BY <1>4, <2>1, <2>2, <2>3 DEF OneGraph, End, Unambiguous
<1>5. ASSUME NEW r \in todo.nodes, NodeRefused(r) PROVE OneGraph'
  <2>1. ~mixed /\ Unambiguous => ~Refused(r)
    BY <1>0, FindsItself DEF Mine, Progress
  <2> QED
    BY <1>4, <1>5, <2>1 DEF NodeRefused
<1>6. ASSUME NEW r \in todo.nodes, MergeNode(r) PROVE OneGraph'
  <2>0. /\ r \in graph.nodes /\ r \in Node
        /\ todo' = [todo EXCEPT !.nodes = @ \ {r}] /\ todo \in Graph
    BY <1>0, <1>6 DEF Progress, LoaderOK, Graph, MergeNode
  <2>1. todo'.nodes = todo.nodes \ {r} /\ todo'.edges = todo.edges
    BY <2>0 DEF Graph
  <2>2. NothingLoaded' /\ Progress'
    BY <1>0, <1>6, <2>1 DEF MergeNode, NothingLoaded, Progress
  <2>3. ASSUME ~mixed, Unambiguous PROVE Mine'
    <3>1. Mine
      BY <1>0, <2>3
    <3>2. Matches(r) \subseteq {r}
      BY <2>0, <2>3, <3>1, FindsItself DEF Mine
    <3>3. [r EXCEPT !.title = r.title] = r
      BY <2>0 DEF Node
    <3>4. view' = view \cup {r}
      BY <1>6, <3>2, <3>3 DEF MergeNode, Matches
    <3> QED
      BY <1>6, <2>0, <2>1, <3>1, <3>4 DEF MergeNode, Mine
  <2> QED
    BY <1>6, <2>2, <2>3 DEF OneGraph, MergeNode, Unambiguous
<1>7. CASE CommitNodes
  <2>1. NothingLoaded' /\ Progress'
    BY <1>0, <1>7 DEF CommitNodes, NothingLoaded, Progress
  <2>2. ASSUME ~mixed, Unambiguous PROVE Mine'
    BY <1>0, <1>7, <2>2 DEF CommitNodes, Mine, Progress
  <2> QED
    BY <1>7, <2>1, <2>2 DEF OneGraph, CommitNodes, Unambiguous
<1>8. CASE MergeEdges
  <2>1. PICK rows \in SUBSET todo.edges :
            edges' = Linked(rows) /\ todo' = [todo EXCEPT !.edges = @ \ rows]
    BY <1>8 DEF MergeEdges
  <2>2. todo'.nodes = todo.nodes /\ todo'.edges = todo.edges \ rows
    BY <1>0, <2>1 DEF LoaderOK, Graph
  <2>3. NothingLoaded' /\ Progress'
    BY <1>0, <1>8, <2>2 DEF MergeEdges, NothingLoaded, Progress
  <2>4. ASSUME ~mixed, Unambiguous PROVE Mine'
    <3>1. Mine /\ pc = "edges" /\ outcome = "running"
      BY <1>0, <1>8, <2>4 DEF MergeEdges, Progress
    <3>2. /\ rows \in SUBSET graph.edges /\ graph.edges \subseteq EdgeRow
          /\ OneRowEach(graph.edges)
          /\ \A e \in edges : RowOf(e) \in graph.edges
      BY <1>0, <3>1 DEF LoaderOK, Graph, Progress, Mine
    <3>3. \A e \in Linked(rows) : RowOf(e) \in graph.edges
      BY <3>2, LinkedAreRows
    <3>4. ASSUME NEW r \in graph.edges \ todo'.edges
          PROVE  \E e \in Linked(rows) : RowOf(e) = r
      <4>1. CASE r \in rows
        <5>1. /\ \E n \in nodes : n.id = r.from
              /\ \E n \in nodes : n.id = r.to
          BY <1>0, <3>1 DEF EdgesJoinNodes, Mine
        <5> QED
          BY <3>2, <4>1, <5>1, LinkedHoldRows
      <4>2. CASE r \notin rows
        <5>1. \E e \in edges : RowOf(e) = r
          BY <2>2, <3>1, <4>2 DEF Mine
        <5> QED
          BY <3>2, <5>1, LinkedHoldRows
      <4> QED
        BY <4>1, <4>2
    <3> QED
      BY <1>8, <2>1, <3>1, <3>3, <3>4 DEF MergeEdges, Mine, RowOf
  <2> QED
    BY <1>8, <2>3, <2>4 DEF OneGraph, MergeEdges, Unambiguous
<1>9. CASE Finish
  BY <1>4, <1>9 DEF Finish
<1>10. CASE Kill
  BY <1>4, <1>10 DEF Kill
<1>11. CASE UNCHANGED vars
  BY <1>11, <1>a DEF vars, Loader
<1> QED
  BY <1>1, <1>2, <1>3, <1>5, <1>6, <1>7, <1>8, <1>9, <1>10, <1>11 DEF Next

LEMMA AlwaysOneGraph == Spec => []OneGraph
  BY AlwaysInv, OneGraphInit, OneGraphStep, PTL DEF Spec

\* Loading a graph that has not changed is never refused, however many loads
\* before it were killed, and after which batch.
THEOREM SameGraphLoadsCorrect == Spec => []SameGraphLoads
<1>1. OneGraph => SameGraphLoads
  BY DEF OneGraph, Mine, SameGraphLoads
<1> QED
  BY <1>1, AlwaysOneGraph, PTL

\* A load that ends leaves exactly the graph: every batch of nodes and edges
\* can be merged again, on top of any part of itself.
THEOREM SameGraphIsExactCorrect == Spec => []SameGraphIsExact
<1>1. OneGraph => SameGraphIsExact
  BY DEF OneGraph, Mine, SameGraphIsExact
<1> QED
  BY <1>1, AlwaysOneGraph, PTL
-----------------------------------------------------------------------------
(* Any graph, loaded over anything.                                        *)

HoldsNode(set, r) == \E n \in set : n.id = r.id /\ r.labels \subseteq n.labels

Holds(e, r) == e.from.id = r.from /\ e.type = r.type /\ e.to.id = r.to /\ (r.amount => e.amount)

HoldsEdge(set, r) == \E e \in set : Holds(e, r)

\* What is no longer to do has been done.
Done ==
    /\ pc = "nodes" => todo.edges = graph.edges
    /\ pc = "nodes" => \A r \in graph.nodes \ todo.nodes : HoldsNode(view, r)
    /\ pc = "edges" => \A r \in graph.nodes : HoldsNode(nodes, r)
    /\ pc = "edges" => \A r \in graph.edges \ todo.edges : HoldsEdge(edges, r)
    /\ pc # "idle" => outcome = "running"
    /\ outcome = "ok" => /\ \A r \in graph.nodes : HoldsNode(nodes, r)
                         /\ \A r \in graph.edges : HoldsEdge(edges, r)

LEMMA DoneInit == Init => Done
  BY DEF Init, Done

\* Merging a node neither moves another one nor takes a label off it.
LEMMA MergeKeepsNodes ==
  ASSUME LoaderOK, NEW r \in todo.nodes, MergeNode(r)
  PROVE  /\ HoldsNode(view', r)
         /\ \A s : HoldsNode(view, s) => HoldsNode(view', s)
<1>1. view \subseteq Node /\ r \in Node
  BY DEF LoaderOK, Graph
<1> DEFINE set(n) == [n EXCEPT !.title = r.title]
<1>2. view' = (view \ Matches(r))
                  \cup (IF Matches(r) = {} THEN {r} ELSE {set(n) : n \in Matches(r)})
  BY DEF MergeNode
<1>3. ASSUME NEW n \in Node PROVE set(n).id = n.id /\ set(n).labels = n.labels
  BY <1>3 DEF Node
<1>4. ASSUME NEW n \in view
      PROVE  \E m \in view' : m.id = n.id /\ m.labels = n.labels
  <2>1. CASE n \in Matches(r)
    <3>1. set(n) \in view'
      BY <1>2, <2>1
    <3> QED
      BY <1>1, <1>3, <3>1
  <2>2. CASE n \notin Matches(r)
    BY <1>2, <2>2
  <2> QED
    BY <2>1, <2>2
<1>5. HoldsNode(view', r)
  <2>1. CASE Matches(r) = {}
    BY <1>2, <2>1 DEF HoldsNode
  <2>2. CASE Matches(r) # {}
    <3>1. PICK n \in view : n.id = r.id /\ r.labels \subseteq n.labels
      BY <2>2 DEF Matches
    <3> QED
      BY <1>4, <3>1 DEF HoldsNode
  <2> QED
    BY <2>1, <2>2
<1>6. ASSUME NEW s, HoldsNode(view, s) PROVE HoldsNode(view', s)
  <2>1. PICK n \in view : n.id = s.id /\ s.labels \subseteq n.labels
    BY <1>6 DEF HoldsNode
  <2>2. PICK m \in view' : m.id = n.id /\ m.labels = n.labels
    BY <1>4
  <2> QED
    BY <2>1, <2>2 DEF HoldsNode
<1> QED
  BY <1>5, <1>6

\* Merging a batch of edges neither removes another one nor takes its amount.
LEMMA LinkedKeeps ==
  ASSUME NEW rows, NEW r,
         \/ HoldsEdge(edges, r)
         \/ /\ r \in rows
            /\ \E n \in nodes : n.id = r.from
            /\ \E n \in nodes : n.id = r.to
  PROVE  HoldsEdge(Linked(rows), r)
<1> DEFINE touched == UNION {Ends(s) : s \in rows}
           stated(b) == \/ \E e \in edges : Between(e) = b /\ e.amount
                        \/ \E s \in rows : b \in Ends(s) /\ s.amount
           made(b) == [from |-> b.from, type |-> b.type, to |-> b.to, amount |-> stated(b)]
<1>1. Linked(rows) = {e \in edges : Between(e) \notin touched} \cup {made(b) : b \in touched}
  BY DEF Linked
<1>2. ASSUME NEW b \in touched, b.from.id = r.from, b.type = r.type, b.to.id = r.to,
             r.amount => stated(b)
      PROVE  HoldsEdge(Linked(rows), r)
  <2>1. made(b) \in Linked(rows)
    BY <1>1
  <2>2. Holds(made(b), r)
    BY <1>2 DEF Holds
  <2> QED
    BY <2>1, <2>2 DEF HoldsEdge
<1>3. ASSUME NEW e \in edges, Holds(e, r)
      PROVE  HoldsEdge(Linked(rows), r)
  <2>1. CASE Between(e) \in touched
    <3>1. r.amount => stated(Between(e))
      BY <1>3 DEF Holds
    <3> HIDE DEF stated
    <3> QED
      BY <1>2, <1>3, <2>1, <3>1 DEF Holds, Between
  <2>2. CASE Between(e) \notin touched
    BY <1>1, <1>3, <2>2 DEF HoldsEdge
  <2> QED
    BY <2>1, <2>2
<1>4. ASSUME r \in rows, NEW m \in nodes, m.id = r.from, NEW n \in nodes, n.id = r.to
      PROVE  HoldsEdge(Linked(rows), r)
  <2> DEFINE b == [from |-> Key(m), type |-> r.type, to |-> Key(n)]
  <2>1. b \in Ends(r)
    BY <1>4 DEF Ends
  <2>2. b.from.id = r.from /\ b.type = r.type /\ b.to.id = r.to
    BY <1>4 DEF Key
  <2> HIDE DEF b
  <2> QED
    BY <1>2, <1>4, <2>1, <2>2
<1> QED
  BY <1>3, <1>4 DEF HoldsEdge

LEMMA DoneStep == Inv /\ Done /\ [Next]_vars => Done'
<1> SUFFICES ASSUME Inv, Done, [Next]_vars
             PROVE  Done'
  OBVIOUS
<1>0. LoaderOK /\ EdgesJoinNodes
  BY TypeSplit DEF Inv
<1>a. ASSUME UNCHANGED Loader PROVE Done'
  BY <1>a DEF Loader, Done
<1>1. CASE Harvest
  BY <1>1, <1>a DEF Harvest
<1>2. CASE Extract
  BY <1>2, <1>a DEF Extract
<1>3. CASE Start
  BY <1>3 DEF Start, Done
<1>4. ASSUME NEW how \in {"ok", "failed", "killed"}, End(how),
             how = "ok" => pc = "edges" /\ todo.edges = {}
      PROVE  Done'
  BY <1>4 DEF End, Done
<1>5. ASSUME NEW r \in todo.nodes, MergeNode(r) PROVE Done'
  <2>1. todo'.nodes = todo.nodes \ {r} /\ todo'.edges = todo.edges
    BY <1>0, <1>5 DEF MergeNode, LoaderOK, Graph
  <2>2. \A s \in graph.nodes \ todo'.nodes : HoldsNode(view', s)
    BY <1>0, <1>5, <2>1, MergeKeepsNodes DEF MergeNode, Done
  <2> QED
    BY <1>5, <2>1, <2>2 DEF MergeNode, Done
<1>6. CASE CommitNodes
  BY <1>6 DEF CommitNodes, Done
<1>7. CASE MergeEdges
  <2>1. PICK rows \in SUBSET todo.edges :
            edges' = Linked(rows) /\ todo' = [todo EXCEPT !.edges = @ \ rows]
    BY <1>7 DEF MergeEdges
  <2>2. todo'.edges = todo.edges \ rows /\ todo.edges \subseteq EdgeRow
    BY <1>0, <2>1 DEF LoaderOK, Graph
  <2>3. ASSUME NEW r \in graph.edges PROVE /\ \E n \in nodes : n.id = r.from
                                           /\ \E n \in nodes : n.id = r.to
    BY <1>0, <1>7, <2>3 DEF MergeEdges, Done, EdgesJoinNodes, HoldsNode
  <2>4. ASSUME NEW r \in graph.edges \ todo'.edges PROVE HoldsEdge(Linked(rows), r)
    <3>1. CASE r \in rows
      BY <2>3, <3>1, LinkedKeeps
    <3>2. CASE r \notin rows
      <4>1. HoldsEdge(edges, r)
        BY <1>7, <2>2, <3>2 DEF MergeEdges, Done
      <4> QED
        BY <4>1, LinkedKeeps
    <3> QED
      BY <3>1, <3>2
  <2> QED
    BY <1>7, <2>1, <2>4 DEF MergeEdges, Done
<1>8. CASE UNCHANGED vars
  BY <1>8, <1>a DEF vars, Loader
<1> QED
  BY <1>1, <1>2, <1>3, <1>4, <1>5, <1>6, <1>7, <1>8 DEF Next, NodeRefused, Finish, Kill

\* Nothing a load resolved is missing when it ends, whatever was in Neo4j
\* before: nodes are all there before the first edge is matched to them.
THEOREM LoadHoldsTheGraphCorrect == Spec => []LoadHoldsTheGraph
<1>1. Done => LoadHoldsTheGraph
  BY DEF Done, LoadHoldsTheGraph, HoldsNode, HoldsEdge, Holds
<1> QED
  BY <1>1, AlwaysInv, DoneInit, DoneStep, PTL DEF Spec
-----------------------------------------------------------------------------
(* The references.                                                         *)

\* Amounts aside, every edge of a fact is among the edges.
LEMMA EdgesAreKept ==
  ASSUME NEW c, IsCorpus(c), NEW f \in c.fact, NEW e \in EdgesOf(c, f)
  PROVE  \E k \in ResolvedEdges(c) : SameEnds(k, e)
<1> DEFINE all == UNION {EdgesOf(c, g) : g \in c.fact}
           stated == [e EXCEPT !.amount = TRUE]
<1>1. e = Edge(e.from, e.type, e.to, e.amount)
  BY EdgesOfType
<1>2. /\ stated.from = e.from /\ stated.type = e.type /\ stated.to = e.to
      /\ stated.amount = TRUE
  BY <1>1 DEF Edge
<1>3. e \in all
  OBVIOUS
<1>4. ResolvedEdges(c) = {x \in all : x.amount \/ [x EXCEPT !.amount = TRUE] \notin all}
  BY DEF ResolvedEdges
<1> HIDE DEF all
<1>5. CASE stated \in all
  <2> HIDE DEF stated
  <2>1. stated \in ResolvedEdges(c)
    BY <1>2, <1>4, <1>5
  <2> QED
    BY <2>1, <1>2 DEF SameEnds
<1>6. CASE stated \notin all
  BY <1>3, <1>4, <1>6 DEF SameEnds
<1> QED
  BY <1>5, <1>6

\* What a reference is resolved to, in the branches of _build_edges.
LEMMA ReferenceKinds ==
  /\ References = Relations \cup {"CONSUMED_BY", "REQUIRES", "ALLOWS"}
  /\ Attributes \cap References = {}
<1>1. DOMAIN ListPredicate = {"producers", "consumers", "effects", "cost", "required", "allows"}
  BY DEF ListPredicate
<1>2. /\ ListPredicate["producers"] = "CRAFTED_AT" /\ ListPredicate["consumers"] = "CONSUMED_BY"
      /\ ListPredicate["effects"] = "UNLOCKS" /\ ListPredicate["cost"] = "COSTS"
      /\ ListPredicate["required"] = "REQUIRES" /\ ListPredicate["allows"] = "ALLOWS"
  BY DEF ListPredicate
<1>3. References = {"CRAFTED_AT", "CONSUMED_BY", "UNLOCKS", "COSTS", "REQUIRES", "ALLOWS"}
                       \cup {"CONSUMES", "PRODUCES"}
  BY <1>1, <1>2 DEF References
<1> QED
  BY <1>3 DEF Relations, Attributes

\* A technology's follow-on is found exactly if some technology is called so.
LEMMA FollowOnFits ==
  ASSUME IsCorpus(corpus), NEW f \in corpus.fact, f.predicate = "ALLOWS"
  PROVE  /\ FollowOn(corpus, Target(corpus, f)) \subseteq Fitting(f)
         /\ Fitting(f) # {} => FollowOn(corpus, Target(corpus, f)) # {}
<1> DEFINE name == Target(corpus, f)
           forms == Suffixed[name]
           candidates == <<name>> \o forms
           hits == {i \in DOMAIN candidates : IsUnlock(corpus, Canonical(corpus, candidates[i]))}
           names == {name} \cup {forms[i] : i \in DOMAIN forms}
<1>1. name \in Names
  <2>1. f.object \in Names
    BY ReferenceKinds DEF IsCorpus, Fact
  <2> QED
    BY <2>1, CanonicalType DEF Target
<1>2. forms \in Seq(Names)
  BY <1>1, ResolutionAssumption
<1> HIDE DEF name, forms
<1>3. /\ Len(forms) \in Nat /\ DOMAIN forms = 1..Len(forms)
      /\ DOMAIN candidates = 1..(Len(forms) + 1)
      /\ candidates[1] = name
      /\ \A i \in 1..Len(forms) : candidates[i + 1] = forms[i]
  BY <1>1, <1>2
<1>4. {candidates[i] : i \in DOMAIN candidates} = names
  <2>1. ASSUME NEW i \in DOMAIN candidates PROVE candidates[i] \in names
    <3>1. CASE i = 1
      BY <1>3, <3>1
    <3>2. CASE i # 1
      <4>1. i - 1 \in 1..Len(forms) /\ (i - 1) + 1 = i
        BY <1>3, <2>1, <3>2
      <4> QED
        BY <1>3, <4>1
    <3> QED
      BY <3>1, <3>2
  <2>2. ASSUME NEW i \in DOMAIN forms PROVE \E j \in DOMAIN candidates : candidates[j] = forms[i]
    <3>1. i + 1 \in DOMAIN candidates
      BY <1>3, <2>2
    <3> QED
      BY <1>3, <2>2, <3>1
  <2>3. \E j \in DOMAIN candidates : candidates[j] = name
    BY <1>3
  <2> QED
    BY <2>1, <2>2, <2>3
<1>5. Fitting(f) = {t \in {Canonical(corpus, n) : n \in names} : IsUnlock(corpus, t)}
  <2>1. Named(f) = {Canonical(corpus, n) : n \in names} \cap Subjects(corpus)
    BY DEF Named, name, forms
  <2>2. Kind(f) = "REQUIRES"
    BY DEF Kind
  <2> QED
    BY <2>1, <2>2 DEF Fitting, IsUnlock
<1>6. FollowOn(corpus, name) = {Canonical(corpus, candidates[i]) : i \in First(hits)}
  BY DEF FollowOn, forms
<1>7. hits \in SUBSET Nat
  BY <1>3
<1> HIDE DEF candidates, names
<1>8. First(hits) \subseteq hits /\ (hits # {} => First(hits) # {})
  <2>1. First(hits) \subseteq hits
    BY DEF First
  <2>2. hits # {} => First(hits) # {}
    BY <1>7, LeastOf DEF First
  <2> QED
    BY <2>1, <2>2
<1>9. FollowOn(corpus, name) \subseteq Fitting(f)
  BY <1>4, <1>5, <1>6, <1>8
<1>10. Fitting(f) # {} => hits # {}
  BY <1>4, <1>5
<1> HIDE DEF hits
<1>11. Fitting(f) # {} => FollowOn(corpus, name) # {}
  BY <1>6, <1>8, <1>10
<1> QED
  BY <1>9, <1>11 DEF name

\* Every reference, resolved as its kind asks for, is an edge to each of the
\* pages it is resolved to, and to no other; the rest, but for requirements,
\* is unresolved.
LEMMA ReferenceResolves ==
  ASSUME IsCorpus(corpus), NEW f \in corpus.fact, f.predicate \in References
  PROVE  /\ IsUnresolved(corpus, f) <=> Fitting(f) = {} /\ f.predicate # "REQUIRES"
         /\ Fitting(f) # {} /\ ~Filtered(f) => EdgesOf(corpus, f) # {}
         /\ \A e \in EdgesOf(corpus, f) : Links(e, f)
<1> DEFINE name == Target(corpus, f)
<1>1. CASE f.predicate = "ALLOWS"
  <2>1. Kind(f) = "REQUIRES" /\ f.predicate \in Backwards /\ f.predicate \notin Relations
    BY <1>1 DEF Kind, Backwards, Relations
  <2>2. IsUnresolved(corpus, f) <=> FollowOn(corpus, name) = {}
    BY <1>1, <2>1 DEF IsUnresolved
  <2>3. EdgesOf(corpus, f) = {Edge(ItemId(corpus, u), "REQUIRES", ItemId(corpus, f.subject), FALSE) :
            u \in IF IsUnlock(corpus, f.subject) THEN FollowOn(corpus, name) ELSE {}}
    BY <1>1 DEF EdgesOf, AllowsEdges
  <2>4. Filtered(f) <=> ~IsUnlock(corpus, f.subject)
    BY <2>1 DEF Filtered
  <2>5. /\ FollowOn(corpus, name) \subseteq Fitting(f)
        /\ Fitting(f) # {} => FollowOn(corpus, name) # {}
    BY <1>1, FollowOnFits
  <2>6. ASSUME NEW e \in EdgesOf(corpus, f) PROVE Links(e, f)
    <3>1. PICK u \in Fitting(f) :
              e = Edge(ItemId(corpus, u), "REQUIRES", ItemId(corpus, f.subject), FALSE)
      BY <2>3, <2>5
    <3>2. e.from = ItemId(corpus, u) /\ e.type = "REQUIRES" /\ e.to = ItemId(corpus, f.subject)
      BY <3>1 DEF Edge
    <3>3. Joins(e, f, u)
      BY <2>1, <3>2 DEF Joins
    <3>4. ~Filtered(f)
      BY <2>3, <2>4
    <3> QED
      BY <3>3, <3>4 DEF Links
  <2>7. Fitting(f) # {} /\ ~Filtered(f) => EdgesOf(corpus, f) # {}
    BY <2>3, <2>4, <2>5
  <2>8. IsUnresolved(corpus, f) <=> Fitting(f) = {} /\ f.predicate # "REQUIRES"
    BY <1>1, <2>2, <2>5
  <2> QED
    BY <2>6, <2>7, <2>8
<1> DEFINE subjects == Subjects(corpus)
<1>2. f.predicate # "ALLOWS" => Named(f) = {name} \cap subjects
  BY DEF Named
<1>3. CASE f.predicate = "CONSUMED_BY"
  <2>1. Kind(f) = "CONSUMES" /\ f.predicate \in Backwards /\ f.predicate \notin Relations
    BY <1>3 DEF Kind, Backwards, Relations
  <2>2. Fitting(f) = {t \in {name} \cap subjects : HasRecipe(corpus, t)} /\ ~Filtered(f)
    BY <1>2, <1>3, <2>1 DEF Fitting, Filtered
  <2>3. IsUnresolved(corpus, f) <=> ~(name \in subjects /\ HasRecipe(corpus, name))
    BY <1>3, <2>1 DEF IsUnresolved, Resolves
  <2> DEFINE made == Edge(RecipeId(corpus, name), "CONSUMES", ItemId(corpus, f.subject), FALSE)
  <2>4. EdgesOf(corpus, f) =
            IF name \in subjects /\ HasRecipe(corpus, name) THEN {made} ELSE {}
    BY <1>3 DEF EdgesOf, ConsumedByEdges, Resolves
  <2>5. Joins(made, f, name)
    BY <2>1 DEF Joins, Edge
  <2> HIDE DEF made
  <2> QED
    BY <1>3, <2>2, <2>3, <2>4, <2>5 DEF Links
<1>4. CASE f.predicate = "REQUIRES"
  <2>1. Kind(f) = "REQUIRES" /\ f.predicate \notin Backwards /\ f.predicate \notin Relations
    BY <1>4 DEF Kind, Backwards, Relations
  <2>2. Fitting(f) = {t \in {name} \cap subjects : IsUnlock(corpus, t)}
    BY <1>2, <1>4, <2>1 DEF Fitting
  <2>3. ~IsUnresolved(corpus, f)
    BY <1>4, <2>1 DEF IsUnresolved
  <2>4. Filtered(f) <=> ~IsUnlock(corpus, f.subject)
    BY <2>1 DEF Filtered
  <2> DEFINE made == Edge(ItemId(corpus, f.subject), "REQUIRES", ItemId(corpus, name), FALSE)
  <2>5. EdgesOf(corpus, f) =
            IF IsUnlock(corpus, f.subject) /\ IsUnlock(corpus, name) THEN {made} ELSE {}
    BY <1>4 DEF EdgesOf, RequiresEdges
  <2>6. IsUnlock(corpus, name) => name \in subjects
    BY DEF IsUnlock
  <2>7. Joins(made, f, name)
    BY <2>1 DEF Joins, Edge
  <2> HIDE DEF made, subjects
  <2> QED
    BY <1>4, <2>2, <2>3, <2>4, <2>5, <2>6, <2>7 DEF Links
<1>5. CASE f.predicate \in Relations
  <2>1. /\ f.predicate \notin {"ALLOWS", "CONSUMED_BY", "REQUIRES"}
        /\ f.predicate \notin Backwards
    BY <1>5 DEF Relations, Backwards
  <2>2. Kind(f) = f.predicate /\ Kind(f) # "REQUIRES"
    BY <2>1 DEF Kind
  <2>3. Fitting(f) = {name} \cap subjects /\ ~Filtered(f)
    BY <1>2, <2>1, <2>2 DEF Fitting, Filtered
  <2>4. IsUnresolved(corpus, f) <=> name \notin subjects
    BY <1>5, <2>1 DEF IsUnresolved, Resolves
  <2> DEFINE made == Edge(From(corpus, f), f.predicate, To(corpus, f), f.amount)
  <2>5. EdgesOf(corpus, f) = IF name \in subjects THEN {made} ELSE {}
    BY <1>5, <2>1 DEF EdgesOf, RelationEdges, Resolves
  <2>6. Joins(made, f, name)
    <3>1. made.type = f.predicate /\ made.from = From(corpus, f) /\ made.to = To(corpus, f)
      BY DEF Edge
    <3>2. /\ From(corpus, f) \in {ItemId(corpus, f.subject), RecipeId(corpus, f.subject)}
          /\ To(corpus, f) \in {ItemId(corpus, name), RecipeId(corpus, name)}
      BY DEF From, To
    <3> HIDE DEF made
    <3> QED
      BY <2>1, <2>2, <3>1, <3>2 DEF Joins
  <2> HIDE DEF made, subjects
  <2> QED
    BY <2>1, <2>3, <2>4, <2>5, <2>6 DEF Links
<1> QED
  BY <1>1, <1>3, <1>4, <1>5, ReferenceKinds

\* The loader works on the corpus as it is.
Current == pc # "idle" => graph = Resolve(corpus)

LEMMA CurrentStep == Current /\ [Next]_vars => Current'
<1> SUFFICES ASSUME Current, [Next]_vars
             PROVE  Current'
  OBVIOUS
<1>1. UNCHANGED <<redirect, fact>> => corpus' = corpus
  BY DEF corpus
<1>2. CASE Harvest \/ Extract
  BY <1>2 DEF Harvest, Extract, Loader, Current
<1>3. CASE Start
  BY <1>1, <1>3 DEF Start, Current, wiki
<1>4. ASSUME NEW how, End(how) PROVE Current'
  BY <1>4 DEF End, Current
<1>5. CASE pc # "idle" /\ UNCHANGED <<wiki, graph>>
  BY <1>1, <1>5 DEF Current, wiki
<1>6. CASE UNCHANGED vars
  BY <1>1, <1>6 DEF vars, Current, wiki
<1> QED
  BY <1>2, <1>3, <1>4, <1>5, <1>6
  DEF Next, MergeNode, NodeRefused, CommitNodes, MergeEdges, Finish, Kill

\* A reference becomes an edge between its two pages, the way it points, or is
\* logged because it can be to no page, but for those that are filtered, for any
\* corpus; none is lost between the branches of _build_edges, and no edge invented.
THEOREM ReferencesCorrect == Spec => []ReferencesAccountedFor
<1>1. Init => Current
  BY DEF Init, Current
<1>2. TypeOK /\ Current => ReferencesAccountedFor
  <2> SUFFICES ASSUME TypeOK, Current, pc = "nodes"
               PROVE  /\ \A f \in fact : f.predicate \in References =>
                             /\ Logged(f) <=> Fitting(f) = {} /\ f.predicate # "REQUIRES"
                             /\ Fitting(f) # {} /\ ~Filtered(f) => \E e \in graph.edges : Links(e, f)
                      /\ \A e \in graph.edges :
                             \E f \in fact : f.predicate \in References /\ Links(e, f)
    BY DEF ReferencesAccountedFor
  <2>1. IsCorpus(corpus) /\ corpus.fact = fact /\ graph.edges = ResolvedEdges(corpus)
    BY CorpusType DEF corpus, Current, Resolve
  <2>2. ASSUME NEW f \in fact, f.predicate \in References
        PROVE  Logged(f) <=> Fitting(f) = {} /\ f.predicate # "REQUIRES"
    <3>1. IsUnresolved(corpus, f) => Logged(f)
      BY <2>1 DEF Logged, Unresolved
    <3>2. ASSUME Logged(f) PROVE IsUnresolved(corpus, f)
      <4>1. PICK g \in fact : /\ IsUnresolved(corpus, g)
                              /\ g.predicate = f.predicate /\ Target(corpus, g) = Target(corpus, f)
        BY <2>1, <3>2 DEF Logged, Unresolved
      <4> QED
        BY <4>1 DEF IsUnresolved, Resolves
    <3>3. IsUnresolved(corpus, f) <=> Fitting(f) = {} /\ f.predicate # "REQUIRES"
      BY <2>1, <2>2, ReferenceResolves
    <3> QED
      BY <3>1, <3>2, <3>3
  <2>3. ASSUME NEW e, NEW k, SameEnds(k, e), NEW f, Links(e, f) PROVE Links(k, f)
    BY <2>3 DEF SameEnds, Links, Joins
  <2>4. ASSUME NEW f \in fact, f.predicate \in References, Fitting(f) # {}, ~Filtered(f)
        PROVE  \E e \in graph.edges : Links(e, f)
    <3>1. PICK e \in EdgesOf(corpus, f) : Links(e, f)
      BY <2>1, <2>4, ReferenceResolves
    <3>2. PICK k \in graph.edges : SameEnds(k, e)
      BY <2>1, EdgesAreKept
    <3> QED
      BY <2>3, <3>1, <3>2
  <2>5. ASSUME NEW e \in graph.edges
        PROVE  \E f \in fact : f.predicate \in References /\ Links(e, f)
    <3>1. PICK f \in fact : e \in EdgesOf(corpus, f)
      BY <2>1 DEF ResolvedEdges
    <3>2. f.predicate \in References
      BY <3>1, ReferenceKinds DEF EdgesOf
    <3> QED
      BY <2>1, <3>1, <3>2, ReferenceResolves
  <2> QED
    BY <2>2, <2>4, <2>5
<1> QED
  BY <1>1, <1>2, CurrentStep, TypeCorrect, PTL DEF Spec

-----------------------------------------------------------------------------
(* What is in Neo4j between the batches of a load.                         *)

\* What is stored, whatever was loaded.
HasKey(set, key) == \E n \in set : Key(n) = key

EndsAreNodes == \A e \in edges : HasKey(nodes, e.from) /\ HasKey(nodes, e.to)

\* schema.cypher: an id is unique per label.
OnePerLabel(set) == \A m, n \in set : m.id = n.id /\ m.labels \cap n.labels # {} => Key(m) = Key(n)

EndsOf(set, f, type, t) ==
    {<<e.from, e.to>> : e \in {e \in set : e.type = type /\ e.from.id = f /\ e.to.id = t}}

\* Of two relationships between the same ids, the one that was merged last is between
\* all that the other is between.
OneCoversOther ==
    \A f, t \in Names : \A y, z \in Relations \cup {"REQUIRES"} :
        \/ EndsOf(edges, f, y, t) \subseteq EndsOf(edges, f, z, t)
        \/ EndsOf(edges, f, z, t) \subseteq EndsOf(edges, f, y, t)

\* With one graph loaded: the keys are its own, the relationships are rows of it, and
\* each is between all the nodes of its ids, as none comes after the first of them.
OnlyGraph ==
    /\ \A n \in nodes \cup view : HasKey(graph.nodes, Key(n))
    /\ \A e \in edges : RowOf(e) \in graph.edges
    /\ edges # {} => /\ \A r \in graph.nodes : HoldsNode(nodes, r)
                     /\ \A n \in view : HasKey(nodes, Key(n))
    /\ \A e \in edges : \A a, b \in nodes :
           a.id = e.from.id /\ b.id = e.to.id => <<Key(a), Key(b)>> \in EndsOf(edges, a.id, e.type, b.id)

Stored ==
    /\ EndsAreNodes /\ OneCoversOther
    /\ OnePerLabel(nodes) /\ OnePerLabel(view)
    /\ \A n \in nodes : HasKey(view, Key(n))
    /\ pc = "edges" => view = nodes
    /\ ~mixed => OnlyGraph

LEMMA StoredInit == Init => Stored
  BY DEF Init, Stored, EndsAreNodes, OneCoversOther, OnePerLabel, OnlyGraph, EndsOf

\* Merging a node makes no key but the row's, if nothing matches it.
LEMMA MergedKeys ==
  ASSUME LoaderOK, NEW r \in todo.nodes, MergeNode(r)
  PROVE  /\ \A n \in view : HasKey(view', Key(n))
         /\ \A m \in view' : \/ HasKey(view, Key(m))
                             \/ m = r /\ Matches(r) = {}
<1>1. view \subseteq Node /\ r \in Node
  BY DEF LoaderOK, Graph
<1> DEFINE set(n) == [n EXCEPT !.title = r.title]
<1>2. view' = (view \ Matches(r))
                  \cup (IF Matches(r) = {} THEN {r} ELSE {set(n) : n \in Matches(r)})
  BY DEF MergeNode
<1>3. ASSUME NEW n \in Node PROVE Key(set(n)) = Key(n)
  BY <1>3 DEF Node, Key
<1>4. Matches(r) \subseteq view
  BY DEF Matches
<1> HIDE DEF set
<1>5. \A n \in view : HasKey(view', Key(n))
  <2> TAKE n \in view
  <2>1. CASE n \in Matches(r)
    <3>1. set(n) \in view'
      BY <1>2, <2>1
    <3> QED
      BY <1>1, <1>3, <3>1 DEF HasKey
  <2>2. CASE n \notin Matches(r)
    BY <1>2, <2>2 DEF HasKey
  <2> QED
    BY <2>1, <2>2
<1>6. ASSUME NEW m \in view' PROVE HasKey(view, Key(m)) \/ (m = r /\ Matches(r) = {})
  <2>1. CASE m \in view
    BY <2>1 DEF HasKey
  <2>2. CASE \E n \in Matches(r) : m = set(n)
    BY <1>1, <1>3, <1>4, <2>2 DEF HasKey
  <2> QED
    BY <1>2, <1>6, <2>1, <2>2
<1> QED
  BY <1>5, <1>6

LEMMA SameKey ==
  ASSUME NEW m, NEW n, Key(m) = Key(n)
  PROVE  m.id = n.id /\ m.labels = n.labels
BY DEF Key

LEMMA MergedOnePerLabel ==
  ASSUME LoaderOK, OnePerLabel(view), NEW r \in todo.nodes, MergeNode(r)
  PROVE  OnePerLabel(view')
<1> SUFFICES ASSUME NEW m \in view', NEW n \in view', m.id = n.id, m.labels \cap n.labels # {}
             PROVE  Key(m) = Key(n)
  BY DEF OnePerLabel
<1>1. /\ HasKey(view, Key(m)) \/ (m = r /\ Matches(r) = {})
      /\ HasKey(view, Key(n)) \/ (n = r /\ Matches(r) = {})
  BY MergedKeys
<1>2. ASSUME Matches(r) = {}, NEW x \in view, x.id = r.id PROVE x.labels \cap r.labels = {}
  BY <1>2 DEF MergeNode, Refused
<1>3. CASE HasKey(view, Key(m)) /\ HasKey(view, Key(n))
  <2>1. PICK x \in view : Key(x) = Key(m)
    BY <1>3 DEF HasKey
  <2>2. PICK y \in view : Key(y) = Key(n)
    BY <1>3 DEF HasKey
  <2>3. x.id = y.id /\ x.labels \cap y.labels # {}
    BY <2>1, <2>2, SameKey
  <2> QED
    BY <2>1, <2>2, <2>3 DEF OnePerLabel
<1>4. ASSUME HasKey(view, Key(m)), n = r, Matches(r) = {} PROVE FALSE
  <2>1. PICK x \in view : Key(x) = Key(m)
    BY <1>4 DEF HasKey
  <2> QED
    BY <1>2, <1>4, <2>1, SameKey
<1>5. ASSUME HasKey(view, Key(n)), m = r, Matches(r) = {} PROVE FALSE
  <2>1. PICK x \in view : Key(x) = Key(n)
    BY <1>5 DEF HasKey
  <2> QED
    BY <1>2, <1>5, <2>1, SameKey
<1> QED
  BY <1>1, <1>3, <1>4, <1>5

\* A batch of relationships: those of its ids are between all the nodes there are.
AllOf(f, t) == {<<Key(a), Key(b)>> : a \in {n \in nodes : n.id = f}, b \in {n \in nodes : n.id = t}}

LEMMA StoredEndsOf ==
  ASSUME EndsAreNodes, NEW f, NEW y, NEW t
  PROVE  EndsOf(edges, f, y, t) \subseteq AllOf(f, t)
<1> SUFFICES ASSUME NEW e \in edges, e.from.id = f, e.to.id = t
             PROVE  <<e.from, e.to>> \in AllOf(f, t)
  BY DEF EndsOf
<1>1. PICK a \in nodes : Key(a) = e.from
  BY DEF EndsAreNodes, HasKey
<1>2. PICK b \in nodes : Key(b) = e.to
  BY DEF EndsAreNodes, HasKey
<1>3. a.id = f /\ b.id = t
  BY <1>1, <1>2 DEF Key
<1> QED
  BY <1>1, <1>2, <1>3 DEF AllOf

LEMMA LinkedEndsOf ==
  ASSUME EndsAreNodes, NEW rows, NEW f, NEW y, NEW t
  PROVE  EndsOf(Linked(rows), f, y, t)
             = IF \E r \in rows : r.from = f /\ r.type = y /\ r.to = t
               THEN AllOf(f, t) ELSE EndsOf(edges, f, y, t)
<1> DEFINE touched == UNION {Ends(s) : s \in rows}
           stated(b) == \/ \E e \in edges : Between(e) = b /\ e.amount
                        \/ \E s \in rows : b \in Ends(s) /\ s.amount
           made(b) == [from |-> b.from, type |-> b.type, to |-> b.to, amount |-> stated(b)]
           mine == \E r \in rows : r.from = f /\ r.type = y /\ r.to = t
<1>1. Linked(rows) = {e \in edges : Between(e) \notin touched} \cup {made(b) : b \in touched}
  BY DEF Linked
<1>2. \A b : made(b).from = b.from /\ made(b).type = b.type /\ made(b).to = b.to
  OBVIOUS
<1> HIDE DEF made
<1>3. ASSUME NEW b \in touched, b.from.id = f, b.type = y, b.to.id = t
      PROVE  mine /\ <<b.from, b.to>> \in AllOf(f, t)
  <2>1. PICK r \in rows : b \in Ends(r)
    OBVIOUS
  <2>2. PICK m \in nodes, n \in nodes :
            m.id = r.from /\ n.id = r.to /\ b = [from |-> Key(m), type |-> r.type, to |-> Key(n)]
    BY <2>1 DEF Ends
  <2>3. b.from = Key(m) /\ b.to = Key(n) /\ b.type = r.type /\ Key(m).id = m.id /\ Key(n).id = n.id
    BY <2>2 DEF Key
  <2>4. m.id = f /\ n.id = t /\ r.type = y
    BY <1>3, <2>3
  <2>5. mine
    BY <2>2, <2>4
  <2>6. <<Key(m), Key(n)>> \in AllOf(f, t)
    BY <2>4 DEF AllOf
  <2> QED
    BY <2>3, <2>5, <2>6
<1>4. ASSUME mine, NEW a \in nodes, NEW b \in nodes, a.id = f, b.id = t
      PROVE  \E x \in touched : x.from = Key(a) /\ x.type = y /\ x.to = Key(b)
  <2>1. PICK r \in rows : r.from = f /\ r.type = y /\ r.to = t
    BY <1>4
  <2>2. [from |-> Key(a), type |-> r.type, to |-> Key(b)] \in Ends(r)
    BY <1>4, <2>1 DEF Ends
  <2> QED
    BY <2>1, <2>2
<1>5. CASE mine
  <2>1. ASSUME NEW x \in Linked(rows), x.type = y, x.from.id = f, x.to.id = t
        PROVE  <<x.from, x.to>> \in AllOf(f, t)
    <3>1. CASE x \in edges
      <4>1. <<x.from, x.to>> \in EndsOf(edges, f, y, t)
        BY <2>1, <3>1 DEF EndsOf
      <4> QED
        BY <4>1, StoredEndsOf
    <3>2. CASE \E b \in touched : x = made(b)
      BY <1>2, <1>3, <2>1, <3>2
    <3> QED
      BY <1>1, <2>1, <3>1, <3>2
  <2>2. ASSUME NEW a \in nodes, NEW b \in nodes, a.id = f, b.id = t
        PROVE  <<Key(a), Key(b)>> \in EndsOf(Linked(rows), f, y, t)
    <3>1. PICK x \in touched : x.from = Key(a) /\ x.type = y /\ x.to = Key(b)
      BY <1>4, <1>5, <2>2
    <3>2. made(x) \in Linked(rows)
      BY <1>1
    <3>3. made(x).from.id = f /\ made(x).to.id = t
      BY <1>2, <2>2, <3>1 DEF Key
    <3> QED
      BY <1>2, <3>1, <3>2, <3>3 DEF EndsOf
  <2>3. EndsOf(Linked(rows), f, y, t) \subseteq AllOf(f, t)
    BY <2>1 DEF EndsOf
  <2>4. AllOf(f, t) \subseteq EndsOf(Linked(rows), f, y, t)
    BY <2>2 DEF AllOf
  <2> QED
    BY <1>5, <2>3, <2>4
<1>6. CASE ~mine
  <2>1. ASSUME NEW x \in Linked(rows), x.type = y, x.from.id = f, x.to.id = t
        PROVE  x \in edges
    BY <1>1, <1>2, <1>3, <1>6, <2>1
  <2>2. ASSUME NEW x \in edges, x.type = y, x.from.id = f, x.to.id = t
        PROVE  x \in Linked(rows)
    <3>1. Between(x) \notin touched
      BY <1>3, <1>6, <2>2 DEF Between
    <3> QED
      BY <1>1, <3>1
  <2> QED
    BY <1>6, <2>1, <2>2 DEF EndsOf
<1> QED
  BY <1>5, <1>6

LEMMA LinkedEndsAreNodes ==
  ASSUME EndsAreNodes, NEW rows
  PROVE  \A e \in Linked(rows) : HasKey(nodes, e.from) /\ HasKey(nodes, e.to)
<1> DEFINE touched == UNION {Ends(s) : s \in rows}
           stated(b) == \/ \E e \in edges : Between(e) = b /\ e.amount
                        \/ \E s \in rows : b \in Ends(s) /\ s.amount
           made(b) == [from |-> b.from, type |-> b.type, to |-> b.to, amount |-> stated(b)]
<1>1. Linked(rows) = {e \in edges : Between(e) \notin touched} \cup {made(b) : b \in touched}
  BY DEF Linked
<1>2. \A b : made(b).from = b.from /\ made(b).to = b.to
  OBVIOUS
<1> HIDE DEF made
<1>3. ASSUME NEW r \in rows, NEW b \in Ends(r) PROVE HasKey(nodes, b.from) /\ HasKey(nodes, b.to)
  BY DEF Ends, HasKey
<1> QED
  BY <1>1, <1>2, <1>3 DEF EndsAreNodes

LEMMA LinkedCovers ==
  ASSUME EndsAreNodes, OneCoversOther, NEW rows, NEW f \in Names, NEW t \in Names,
         NEW y \in Relations \cup {"REQUIRES"}, NEW z \in Relations \cup {"REQUIRES"}
  PROVE  \/ EndsOf(Linked(rows), f, y, t) \subseteq EndsOf(Linked(rows), f, z, t)
         \/ EndsOf(Linked(rows), f, z, t) \subseteq EndsOf(Linked(rows), f, y, t)
<1>1. /\ EndsOf(edges, f, y, t) \subseteq AllOf(f, t)
      /\ EndsOf(edges, f, z, t) \subseteq AllOf(f, t)
  BY StoredEndsOf
<1>2. /\ EndsOf(Linked(rows), f, y, t) \in {AllOf(f, t), EndsOf(edges, f, y, t)}
      /\ EndsOf(Linked(rows), f, z, t) \in {AllOf(f, t), EndsOf(edges, f, z, t)}
  BY LinkedEndsOf
<1>3. \/ EndsOf(edges, f, y, t) \subseteq EndsOf(edges, f, z, t)
      \/ EndsOf(edges, f, z, t) \subseteq EndsOf(edges, f, y, t)
  BY DEF OneCoversOther
<1> QED
  BY <1>1, <1>2, <1>3

LEMMA StoredStep == Inv /\ OneGraph /\ Done /\ Stored /\ [Next]_vars => Stored'
<1> SUFFICES ASSUME Inv, OneGraph, Done, Stored, [Next]_vars
             PROVE  Stored'
  OBVIOUS
<1>0. LoaderOK /\ NothingLoaded /\ Progress
  BY TypeSplit DEF Inv, OneGraph
<1>a. ASSUME UNCHANGED Loader PROVE Stored'
  BY <1>a DEF Loader, Stored, EndsAreNodes, OneCoversOther, OnePerLabel, OnlyGraph
<1>1. CASE Harvest
  BY <1>1, <1>a DEF Harvest
<1>2. CASE Extract
  BY <1>2, <1>a DEF Extract
<1>k. ASSUME NEW n PROVE n \in nodes => HasKey(nodes, Key(n))
  BY DEF HasKey
<1>3. CASE Start
  <2>0. UNCHANGED <<nodes, edges>> /\ view' = nodes
    BY <1>3 DEF Start
  <2>1. EndsAreNodes' /\ OneCoversOther' /\ OnePerLabel(nodes)' /\ OnePerLabel(view)'
        /\ (\A n \in nodes : HasKey(view, Key(n)))' /\ (pc = "edges" => view = nodes)'
    BY <1>3, <1>k, <2>0 DEF Stored, EndsAreNodes, OneCoversOther, OnePerLabel, Start
  <2>2. ASSUME ~mixed' PROVE OnlyGraph'
    <3>1. CASE loads = 0
      BY <1>0, <2>0, <3>1 DEF NothingLoaded, OnlyGraph
    <3>2. CASE loads # 0
      <4>0. loads > 0
        BY <1>0, <3>2, GraphLoadAssumption DEF LoaderOK
      <4>1. graph' = graph /\ ~mixed
        BY <1>3, <2>2, <4>0, Zenon DEF Start
      <4> QED
        BY <1>k, <2>0, <4>1 DEF Stored, OnlyGraph
    <3> QED
      BY <3>1, <3>2
  <2> QED
    BY <2>1, <2>2 DEF Stored
<1>4. ASSUME NEW how, End(how) PROVE Stored'
  <2>0. UNCHANGED <<nodes, edges, graph, mixed>> /\ view' = nodes
    BY <1>4 DEF End
  <2>1. EndsAreNodes' /\ OneCoversOther' /\ OnePerLabel(nodes)' /\ OnePerLabel(view)'
        /\ (\A n \in nodes : HasKey(view, Key(n)))' /\ (pc = "edges" => view = nodes)'
    BY <1>k, <2>0 DEF Stored, EndsAreNodes, OneCoversOther, OnePerLabel
  <2>2. ~mixed' => OnlyGraph'
    BY <1>k, <2>0 DEF Stored, OnlyGraph
  <2> QED
    BY <2>1, <2>2 DEF Stored
<1>5. ASSUME NEW r \in todo.nodes, MergeNode(r) PROVE Stored'
  <2>0. UNCHANGED <<nodes, edges, graph, mixed>> /\ r \in graph.nodes
    BY <1>0, <1>5 DEF MergeNode, Progress
  <2>1. /\ \A n \in view : HasKey(view', Key(n))
        /\ \A m \in view' : HasKey(view, Key(m)) \/ (m = r /\ Matches(r) = {})
    BY <1>0, <1>5, MergedKeys
  <2>2. OnePerLabel(view')
    BY <1>0, <1>5, MergedOnePerLabel DEF Stored
  <2>3. \A n \in nodes : HasKey(view', Key(n))
    BY <2>1 DEF Stored, HasKey
  <2>4. ASSUME ~mixed PROVE OnlyGraph'
    <3>1. OnlyGraph
      BY <2>4 DEF Stored
    <3>2. \A m \in view' : HasKey(graph.nodes, Key(m))
      BY <2>0, <2>1, <3>1 DEF OnlyGraph, HasKey
    <3>3. ASSUME edges # {} PROVE \A m \in view' : HasKey(nodes, Key(m))
      <4>1. HoldsNode(nodes, r)
        BY <2>0, <3>1, <3>3 DEF OnlyGraph
      <4>2. PICK n \in nodes : n.id = r.id /\ r.labels \subseteq n.labels
        BY <4>1 DEF HoldsNode
      <4>3. PICK m \in view : Key(m) = Key(n)
        BY <4>2 DEF Stored, HasKey
      <4>4. m \in Matches(r)
        BY <4>2, <4>3, SameKey DEF Matches
      <4> QED
        BY <2>1, <3>1, <3>3, <4>4 DEF OnlyGraph, HasKey
    <3> QED
      BY <2>0, <3>1, <3>2, <3>3 DEF OnlyGraph
  <2> QED
    BY <1>5, <2>0, <2>2, <2>3, <2>4 DEF Stored, EndsAreNodes, OneCoversOther, OnePerLabel, MergeNode
<1>6. CASE CommitNodes
  <2>0. nodes' = view /\ UNCHANGED <<edges, graph, view, mixed>>
    BY <1>6 DEF CommitNodes
  <2>1. EndsAreNodes'
    BY <2>0 DEF Stored, EndsAreNodes, HasKey
  <2>2. OneCoversOther' /\ OnePerLabel(nodes)' /\ OnePerLabel(view)'
        /\ (\A n \in nodes : HasKey(view, Key(n)))' /\ (pc = "edges" => view = nodes)'
    BY <2>0 DEF Stored, OneCoversOther, OnePerLabel, HasKey
  <2>3. ASSUME ~mixed PROVE OnlyGraph'
    <3>1. OnlyGraph
      BY <2>3 DEF Stored
    <3>2. ASSUME edges # {}, NEW s \in graph.nodes PROVE HoldsNode(view, s)
      <4>1. PICK n \in nodes : n.id = s.id /\ s.labels \subseteq n.labels
        BY <3>1, <3>2 DEF OnlyGraph, HoldsNode
      <4>2. PICK m \in view : Key(m) = Key(n)
        BY DEF Stored, HasKey
      <4> QED
        BY <4>1, <4>2, SameKey DEF HoldsNode
    <3>3. ASSUME NEW e \in edges, NEW a \in view, NEW b \in view, a.id = e.from.id, b.id = e.to.id
          PROVE  <<Key(a), Key(b)>> \in EndsOf(edges, a.id, e.type, b.id)
      <4>1. PICK m \in nodes : Key(m) = Key(a)
        BY <3>1 DEF OnlyGraph, HasKey
      <4>2. PICK n \in nodes : Key(n) = Key(b)
        BY <3>1 DEF OnlyGraph, HasKey
      <4>3. m.id = a.id /\ n.id = b.id
        BY <4>1, <4>2, SameKey
      <4> QED
        BY <3>1, <3>3, <4>1, <4>2, <4>3 DEF OnlyGraph
    <3>4. \A n \in view : HasKey(view, Key(n))
      BY DEF HasKey
    <3> QED
      BY <2>0, <3>1, <3>2, <3>3, <3>4 DEF OnlyGraph
  <2> QED
    BY <2>0, <2>1, <2>2, <2>3 DEF Stored
<1>7. CASE MergeEdges
  <2>1. PICK rows \in SUBSET todo.edges :
            rows # {} /\ edges' = Linked(rows) /\ todo' = [todo EXCEPT !.edges = @ \ rows]
    BY <1>7 DEF MergeEdges
  <2>2. UNCHANGED <<nodes, graph, view, mixed>> /\ pc = "edges"
    BY <1>7 DEF MergeEdges
  <2>3. EndsAreNodes'
    BY <2>1, <2>2, LinkedEndsAreNodes DEF Stored, EndsAreNodes
  <2>4. OneCoversOther'
    BY <2>1, LinkedCovers DEF Stored, OneCoversOther
  <2>5. ASSUME ~mixed PROVE OnlyGraph'
    <3>1. OnlyGraph
      BY <2>5 DEF Stored
    <3>2. rows \in SUBSET graph.edges /\ graph.edges \subseteq EdgeRow /\ OneRowEach(graph.edges)
      BY <1>0 DEF LoaderOK, Graph, Progress
    <3>3. \A e \in edges' : RowOf(e) \in graph.edges
      BY <2>1, <3>1, <3>2, LinkedAreRows DEF OnlyGraph
    <3>4. \A s \in graph.nodes : HoldsNode(nodes, s)
      BY <2>2 DEF Done
    <3>5. \A n \in view : HasKey(nodes, Key(n))
      BY <2>2 DEF Stored, HasKey
    <3>6. ASSUME NEW e \in edges', NEW a \in nodes, NEW b \in nodes, a.id = e.from.id, b.id = e.to.id
          PROVE  <<Key(a), Key(b)>> \in EndsOf(edges', a.id, e.type, b.id)
      <4>1. <<e.from, e.to>> \in EndsOf(edges', a.id, e.type, b.id)
        BY <3>6 DEF EndsOf
      <4>2. <<Key(a), Key(b)>> \in AllOf(a.id, b.id)
        BY DEF AllOf
      <4>3. CASE EndsOf(edges', a.id, e.type, b.id) = AllOf(a.id, b.id)
        BY <4>2, <4>3
      <4>4. CASE EndsOf(edges', a.id, e.type, b.id) = EndsOf(edges, a.id, e.type, b.id)
        <5>1. PICK x \in edges : x.type = e.type /\ x.from.id = a.id /\ x.to.id = b.id
          BY <4>1, <4>4 DEF EndsOf
        <5> QED
          BY <3>1, <4>4, <5>1 DEF OnlyGraph
      <4> QED
        BY <2>1, <4>3, <4>4, LinkedEndsOf DEF Stored
    <3> QED
      BY <2>2, <3>1, <3>3, <3>4, <3>5, <3>6 DEF OnlyGraph
  <2> QED
    BY <2>2, <2>3, <2>4, <2>5 DEF Stored, OnePerLabel
<1>8. CASE UNCHANGED vars
  BY <1>8, <1>a DEF vars, Loader
<1> QED
  BY <1>1, <1>2, <1>3, <1>4, <1>5, <1>6, <1>7, <1>8 DEF Next, NodeRefused, Finish, Kill

-----------------------------------------------------------------------------
(* Trees: a level is made of the one above it, until the depth bound.      *)

LEMMA IngredientsAreEdges ==
  ASSUME NEW how, NEW b \in Seq(edges), NEW c \in Children(how, b)
  PROVE  /\ c \in Seq(edges) /\ ~IsRaw(how, b)
         /\ \E r \in RecipeFor(Title(how, b)) : \E e \in Ingredients(r) : e \in edges /\ c = Append(b, e)
<1>1. ~IsRaw(how, b) /\ c \in {Append(b, e) : e \in UNION {Ingredients(r) : r \in RecipeFor(Title(how, b))}}
  BY DEF Children
<1>2. PICK r \in RecipeFor(Title(how, b)) : \E e \in Ingredients(r) : c = Append(b, e)
  BY <1>1
<1>3. Ingredients(r) \subseteq edges
  BY DEF Ingredients
<1> QED
  BY <1>1, <1>2, <1>3

\* The levels of a tree, down to its depth.
LEMMA TreeLevels ==
  ASSUME NEW how, how.depth \in Nat
  PROVE  \E f : /\ Tree(how) = UNION {f[d] : d \in 0..how.depth}
                /\ f[0] = {<<>>}
                /\ \A d \in 0..how.depth : f[d] \subseteq Seq(edges)
                /\ \A d \in 1..how.depth : f[d] = UNION {Children(how, b) : b \in f[d - 1]}
<1> DEFINE N == how.depth
           Y == SUBSET Seq(edges)
           go(S) == UNION {Children(how, b) : b \in S}
           step == [p \in Y \X {0} |-> go(p[1])]
           list == [i \in 1..N |-> 0]
<1>0. /\ N \in Nat /\ 0 \in 0..N
      /\ \A d \in 1..N : d \in 0..N /\ d # 0
      /\ \A d \in 0..N : d = 0 \/ d \in 1..N
  OBVIOUS
<1>1. ASSUME NEW S \in Y PROVE go(S) \in Y
  BY IngredientsAreEdges
<1>2. {<<>>} \in Y
  OBVIOUS
<1> HIDE DEF go, Y
<1>3. step \in [Y \X {0} -> Y] /\ list \in [1..N -> {0}] /\ \A S \in Y : step[<<S, 0>>] = go(S)
  BY <1>1
<1>4. \A i \in 1..N : list[i] = 0
  OBVIOUS
<1> HIDE DEF step, list
<1>5. PICK iter \in [SUBSET (1..N) -> Y] : Iterates(iter, N, {<<>>}, step, list)
  BY <1>2, <1>3, IterationExists
<1> DEFINE h == [d \in 0..N |-> iter[1..d]]
<1>6. ASSUME NEW d \in 1..N
      PROVE  h[d] = go(h[d - 1])
  <2>1. Max(1..d) = d /\ (1..d) \ {d} = 1..(d - 1) /\ 1..d # {} /\ 1..d \in SUBSET (1..N) /\ 1..(d - 1) \in SUBSET (1..N)
    BY MaxOfPrefix, PrefixIn
  <2>2. iter[1..d] = step[<<iter[1..(d - 1)], list[d]>>] /\ iter[1..(d - 1)] \in Y
    BY <1>5, <2>1 DEF Iterates
  <2>3. iter[1..d] = go(iter[1..(d - 1)])
    BY <1>3, <1>4, <2>2
  <2>4. d \in 0..N /\ d - 1 \in 0..N
    OBVIOUS
  <2> QED
    BY <2>3, <2>4
<1>7. h[0] = {<<>>}
  <2>1. 1..0 = {} /\ {} \in SUBSET (1..N)
    OBVIOUS
  <2>2. iter[{}] = {<<>>}
    BY <1>5, <2>1 DEF Iterates
  <2> QED
    BY <2>1, <2>2
<1>8. h = [d \in 0..N |-> h[d]]
  OBVIOUS
<1> HIDE DEF h
<1> DEFINE f == CHOOSE g : g = [d \in 0..N |-> IF d = 0 THEN {<<>>} ELSE go(g[d - 1])]
<1>9. f = [d \in 0..N |-> IF d = 0 THEN {<<>>} ELSE go(f[d - 1])]
  <2>1. ASSUME NEW d \in 0..N PROVE h[d] = IF d = 0 THEN {<<>>} ELSE go(h[d - 1])
    <3>1. CASE d = 0
      BY <1>7, <3>1
    <3>2. CASE d \in 1..N
      BY <1>0, <1>6, <3>2
    <3> QED
      BY <1>0, <3>1, <3>2
  <2>2. h = [d \in 0..N |-> IF d = 0 THEN {<<>>} ELSE go(h[d - 1])]
    BY <1>8, <2>1
  <2> QED
    BY <2>2
<1>10. Tree(how) = UNION {f[d] : d \in 0..N}
  BY Zenon DEF Tree, go
<1> HIDE DEF f
<1>11. f[0] = {<<>>} /\ \A d \in 1..N : f[d] = go(f[d - 1])
  <2>1. f[0] = {<<>>}
    BY <1>0, <1>9
  <2>2. ASSUME NEW d \in 1..N PROVE f[d] = go(f[d - 1])
    BY <1>0, <1>9
  <2> QED
    BY <2>1, <2>2
<1> DEFINE T == {d \in 0..N : f[d] \in Y}
<1>12. 0 \in T
  BY <1>0, <1>2, <1>11
<1>13. \A d \in 0..(N - 1) : d \in T => d + 1 \in T
  <2> TAKE d \in 0..(N - 1)
  <2> HAVE d \in T
  <2>1. d + 1 \in 1..N /\ d + 1 \in 0..N /\ (d + 1) - 1 = d
    OBVIOUS
  <2>2. f[d + 1] = go(f[d])
    BY <1>11, <2>1
  <2> QED
    BY <1>1, <2>1, <2>2
<1> HIDE DEF T
<1>14. 0..N \subseteq T
  BY <1>12, <1>13, TurnInduction
<1>15. \A d \in 0..N : f[d] \subseteq Seq(edges)
  BY <1>14 DEF T, Y
<1> QED
  BY <1>10, <1>11, <1>15 DEF go

\* A branch of a tree is the root, or one more ingredient of another.
LEMMA TreeBranches ==
  ASSUME NEW how, how.depth \in Nat, NEW b \in Tree(how)
  PROVE  /\ b \in Seq(edges)
         /\ b # <<>> => \E c \in Tree(how) : b \in Children(how, c)
<1>1. PICK f : /\ Tree(how) = UNION {f[d] : d \in 0..how.depth}
               /\ f[0] = {<<>>}
               /\ \A d \in 0..how.depth : f[d] \subseteq Seq(edges)
               /\ \A d \in 1..how.depth : f[d] = UNION {Children(how, c) : c \in f[d - 1]}
  BY TreeLevels
<1>2. PICK d \in 0..how.depth : b \in f[d]
  BY <1>1
<1>3. ASSUME b # <<>> PROVE \E c \in Tree(how) : b \in Children(how, c)
  <2>1. d \in 1..how.depth /\ d - 1 \in 0..how.depth
    BY <1>1, <1>2, <1>3
  <2>2. PICK c \in f[d - 1] : b \in Children(how, c)
    BY <1>1, <1>2, <2>1
  <2> QED
    BY <1>1, <2>1, <2>2
<1> QED
  BY <1>1, <1>2, <1>3

LEMMA AppendedBranch ==
  ASSUME NEW S, NEW c \in Seq(S), NEW e \in S
  PROVE  /\ Append(c, e) # <<>> /\ Last(Append(c, e)) = e /\ Front(Append(c, e)) = c
<1>1. Append(c, e) \in Seq(S) /\ Len(Append(c, e)) = Len(c) + 1 /\ Len(c) \in Nat
      /\ Append(c, e)[Len(c) + 1] = e /\ \A i \in 1..Len(c) : Append(c, e)[i] = c[i]
  OBVIOUS
<1>2. SubSeq(Append(c, e), 1, Len(c)) = c
  BY <1>1
<1> QED
  BY <1>1, <1>2 DEF Last, Front

\* What a branch is made of.
LEMMA BranchOf ==
  ASSUME NEW how, how.depth \in Nat, NEW b \in Tree(how), b # <<>>
  PROVE  /\ Front(b) \in Tree(how) /\ ~IsRaw(how, Front(b))
         /\ Last(b) \in edges /\ Last(b).type = "CONSUMES" /\ Last(b).amount
         /\ Last(b).from.id \in RecipeFor(Title(how, Front(b)))
         /\ Title(how, b) = TitleOf(Last(b).to)
<1>1. PICK c \in Tree(how) : b \in Children(how, c)
  BY TreeBranches
<1>2. c \in Seq(edges)
  BY TreeBranches
<1>3. PICK r \in RecipeFor(Title(how, c)) : \E e \in Ingredients(r) : e \in edges /\ b = Append(c, e)
  BY <1>1, <1>2, IngredientsAreEdges
<1>4. PICK e \in Ingredients(r) : e \in edges /\ b = Append(c, e)
  BY <1>3
<1>5. Last(b) = e /\ Front(b) = c
  BY <1>2, <1>4, AppendedBranch
<1>6. e.type = "CONSUMES" /\ e.from.id = r /\ e.amount
  BY <1>4 DEF Ingredients
<1>7. ~IsRaw(how, c)
  BY <1>1, <1>2, IngredientsAreEdges
<1> QED
  BY <1>1, <1>3, <1>4, <1>5, <1>6, <1>7 DEF Title

\* The titles of a branch's children.
LEMMA ChildTitles ==
  ASSUME NEW how, how.depth \in Nat, NEW b \in Tree(how), ~IsRaw(how, b)
  PROVE  {Title(how, c) : c \in Children(how, b)}
             = {TitleOf(e.to) : e \in UNION {Ingredients(r) : r \in RecipeFor(Title(how, b))}}
<1> DEFINE all == UNION {Ingredients(r) : r \in RecipeFor(Title(how, b))}
<1>1. Children(how, b) = {Append(b, e) : e \in all}
  BY DEF Children
<1>2. b \in Seq(edges) /\ all \subseteq edges
  BY TreeBranches DEF Ingredients
<1>3. ASSUME NEW e \in all PROVE Title(how, Append(b, e)) = TitleOf(e.to)
  BY <1>2, AppendedBranch DEF Title
<1> HIDE DEF all
<1>4. {Title(how, c) : c \in Children(how, b)} = {TitleOf(e.to) : e \in all}
  BY <1>1, <1>3
<1> QED
  BY <1>4 DEF all

LEMMA OneRecipe ==
  ASSUME NEW title
  PROVE  /\ RecipeFor(title) = {} => Producers(title) = {}
         /\ \A r \in RecipeFor(title) : r \in Producers(title) /\ RecipeFor(title) = {r}
<1> DEFINE made == Producers(title)
           own == made \cap OwnRecipe(title)
<1>1. \A r, s \in OwnRecipe(title) : r = s
  BY DEF OwnRecipe
<1>2. RecipeFor(title) = IF own # {} THEN own ELSE IF made = {} THEN {} ELSE {CHOOSE r \in made : TRUE}
  BY DEF RecipeFor
<1> HIDE DEF made
<1>3. made # {} => (CHOOSE r \in made : TRUE) \in made
  OBVIOUS
<1> QED
  BY <1>1, <1>2, <1>3 DEF made

LEMMA KeyTitle ==
  ASSUME IdsAreTitles, NEW key, HasKey(nodes, key)
  PROVE  TitleOf(key) = key.id
<1>1. \E n \in nodes : Key(n) = key
  BY DEF HasKey
<1> DEFINE n == CHOOSE n \in nodes : Key(n) = key
<1>2. n \in nodes /\ Key(n) = key
  BY <1>1
<1> HIDE DEF n
<1>3. n.title = n.id /\ n.id = key.id
  BY <1>2 DEF IdsAreTitles, Key
<1> QED
  BY <1>3 DEF TitleOf, n

-----------------------------------------------------------------------------
(* A tree of a graph that is well loaded, and says what the graph says.    *)

LEMMA AskedDepth ==
  ASSUME NEW how \in Asked
  PROVE  how.depth \in Nat
BY RecipeTreeAssumption DEF Asked

\* With one graph loaded, a relationship is from every node of its id.
LEMMA FromEvery ==
  ASSUME Stored, ~mixed, NEW e \in edges, NEW a \in nodes, a.id = e.from.id, NEW b \in nodes, b.id = e.to.id
  PROVE  \E x \in edges : x.type = e.type /\ x.from = Key(a) /\ x.to = Key(b)
<1>1. <<Key(a), Key(b)>> \in EndsOf(edges, a.id, e.type, b.id)
  BY DEF Stored, OnlyGraph
<1> QED
  BY <1>1 DEF EndsOf

\* The relationship that makes a recipe the one of its product.
LEMMA ProducerOf ==
  ASSUME EndsAreNodes, NEW title, NEW r \in RecipeFor(title)
  PROVE  \E p \in edges : \E m \in nodes :
             /\ p.type = "PRODUCES" /\ p.to.id = title
             /\ p.from = Key(m) /\ m.id = r /\ "Recipe" \in m.labels
<1>1. r \in Producers(title)
  BY OneRecipe
<1>2. PICK p \in edges : p.type = "PRODUCES" /\ "Recipe" \in p.from.labels /\ p.to.id = title /\ p.from.id = r
  BY <1>1 DEF Producers
<1>3. PICK m \in nodes : Key(m) = p.from
  BY DEF EndsAreNodes, HasKey
<1>4. m.id = r /\ "Recipe" \in m.labels
  BY <1>2, <1>3 DEF Key
<1> QED
  BY <1>2, <1>3, <1>4

\* Where a tree stops, and how it goes on.
LEMMA StopsForAReason ==
  ASSUME Inv, Done, Stored, ~mixed, IdsAreTitles, NEW how \in Asked, NEW b \in Tree(how),
         IsRaw(how, b), ~Truncated(how, b), Title(how, b) \notin how.raw
  PROVE  Makers(Title(how, b)) = {}
<1> DEFINE title == Title(how, b)
<1>1. Producers(title) = {}
  BY OneRecipe DEF IsRaw
<1> HIDE DEF title
<1>2. SUFFICES ASSUME NEW g \in graph.edges, g.type = "PRODUCES", g.to = title,
                      NEW k \in graph.nodes, k.id = g.from, "Recipe" \in k.labels
               PROVE  FALSE
  BY DEF Makers, title
<1>3. outcome = "ok"
  BY DEF IdsAreTitles
<1>4. PICK e \in edges : e.from.id = g.from /\ e.type = g.type /\ e.to.id = g.to
  BY <1>3 DEF Done, HoldsEdge, Holds
<1>5. PICK m \in nodes : m.id = k.id /\ k.labels \subseteq m.labels
  BY <1>3 DEF Done, HoldsNode
<1>6. PICK n \in nodes : Key(n) = e.to
  BY DEF Stored, EndsAreNodes, HasKey
<1>7. n.id = e.to.id
  BY <1>6 DEF Key
<1>8. PICK x \in edges : x.type = e.type /\ x.from = Key(m) /\ x.to = Key(n)
  BY <1>2, <1>4, <1>5, <1>7, FromEvery
<1>9. x.from.id = m.id /\ "Recipe" \in x.from.labels /\ x.to.id = title /\ x.type = "PRODUCES"
  BY <1>2, <1>4, <1>5, <1>7, <1>8 DEF Key
<1>10. x.from.id \in Producers(title)
  BY <1>9 DEF Producers
<1> QED
  BY <1>1, <1>10

LEMMA GoesOnToIngredients ==
  ASSUME Inv, Done, Stored, ~mixed, IdsAreTitles, NEW how \in Asked, NEW b \in Tree(how), ~IsRaw(how, b)
  PROVE  \E m \in Makers(Title(how, b)) :
             {Title(how, c) : c \in Children(how, b)}
                 = {e.to : e \in {e \in graph.edges : e.type = "CONSUMES" /\ e.from = m.from /\ e.amount}}
<1> DEFINE title == Title(how, b)
<1>1. PICK r \in RecipeFor(title) : TRUE
  BY DEF IsRaw
<1>2. RecipeFor(title) = {r}
  BY OneRecipe
<1>3. {Title(how, c) : c \in Children(how, b)} = {TitleOf(e.to) : e \in Ingredients(r)}
  <2>1. UNION {Ingredients(s) : s \in RecipeFor(title)} = Ingredients(r)
    BY <1>2
  <2> QED
    BY <2>1, AskedDepth, ChildTitles
<1>4. PICK p \in edges, m \in nodes :
          p.type = "PRODUCES" /\ p.to.id = title /\ p.from = Key(m) /\ m.id = r /\ "Recipe" \in m.labels
  BY ProducerOf DEF Stored
<1>5. OnlyGraph /\ EndsAreNodes /\ outcome = "ok"
  BY DEF Stored, IdsAreTitles
<1> HIDE DEF title
<1>6. RowOf(p) \in Makers(title)
  <2>1. PICK k \in graph.nodes : Key(k) = Key(m)
    BY <1>5 DEF OnlyGraph, HasKey
  <2>2. k.id = p.from.id /\ "Recipe" \in k.labels
    BY <1>4, <2>1 DEF Key
  <2>3. RowOf(p) \in graph.edges
    BY <1>5 DEF OnlyGraph
  <2> QED
    BY <1>4, <2>2, <2>3 DEF Makers, RowOf
<1>7. RowOf(p).from = r
  BY <1>4 DEF RowOf, Key
<1> DEFINE stated == {e.to : e \in {e \in graph.edges : e.type = "CONSUMES" /\ e.from = r /\ e.amount}}
<1>8. ASSUME NEW e \in Ingredients(r) PROVE TitleOf(e.to) \in stated
  <2>1. e \in edges /\ e.type = "CONSUMES" /\ e.from.id = r /\ e.amount
    BY DEF Ingredients
  <2>2. TitleOf(e.to) = e.to.id
    BY <1>5, <2>1, KeyTitle DEF EndsAreNodes
  <2>3. RowOf(e) \in graph.edges /\ RowOf(e).type = "CONSUMES" /\ RowOf(e).from = r /\ RowOf(e).amount /\ RowOf(e).to = e.to.id
    BY <1>5, <2>1 DEF OnlyGraph, RowOf
  <2> QED
    BY <2>2, <2>3
<1>9. ASSUME NEW g \in graph.edges, g.type = "CONSUMES", g.from = r, g.amount
      PROVE  \E e \in Ingredients(r) : TitleOf(e.to) = g.to
  <2>1. PICK e \in edges : e.from.id = r /\ e.type = "CONSUMES" /\ e.to.id = g.to /\ e.amount
    BY <1>5, <1>9 DEF Done, HoldsEdge, Holds
  <2>2. TitleOf(e.to) = g.to
    BY <1>5, <2>1, KeyTitle DEF EndsAreNodes
  <2> QED
    BY <2>1, <2>2 DEF Ingredients
<1>10. {TitleOf(e.to) : e \in Ingredients(r)} = stated
  BY <1>8, <1>9
<1> QED
  BY <1>3, <1>6, <1>7, <1>10 DEF title

\* What the prompt says of a branch that it shows the end of.
LEMMA CyclesAreCycles ==
  ASSUME NEW how \in Asked, how.depth > MaxRenderDepth, NEW line \in ShownLines(how)
  PROVE  line.note = "cycle" <=> \E i \in 0..(Len(line.of) - 1) :
             /\ Title(how, SubSeq(line.of, 1, i)) = Title(how, line.of)
             /\ Title(how, line.of) \notin how.raw
<1>1. PICK b \in Tree(how) :
          line = [of |-> b, note |-> IF Truncated(how, b) THEN "cycle" ELSE IF IsRaw(how, b) THEN "raw" ELSE "none"]
  BY DEF ShownLines, LoggedLines
<1>2. line.of = b /\ (line.note = "cycle" <=> Truncated(how, b)) /\ Len(b) <= MaxRenderDepth
  BY <1>1 DEF ShownLines
<1>3. how.depth \in Nat /\ MaxRenderDepth \in Nat /\ Len(b) \in Nat
  BY AskedDepth, TreeBranches, RecipeTreeAssumption DEF RecipeTreeAssumption
<1>4. ~(Len(b) >= how.depth)
  BY <1>2, <1>3
<1> QED
  BY <1>2, <1>4 DEF Truncated, OnPath

LEMMA LeavesRaw ==
  ASSUME Inv, Done, Stored
  PROVE  LeavesAreRaw
<1> SUFFICES ASSUME IdsAreTitles, ~mixed, NEW how \in Asked
    PROVE  /\ \A b \in Tree(how) :
                /\ IsRaw(how, b) /\ ~Truncated(how, b) => Title(how, b) \in how.raw \/ Makers(Title(how, b)) = {}
                /\ ~IsRaw(how, b) =>
                     \E m \in Makers(Title(how, b)) :
                        {Title(how, c) : c \in Children(how, b)}
                            = {e.to : e \in {e \in graph.edges : e.type = "CONSUMES" /\ e.from = m.from /\ e.amount}}
           /\ how.depth > MaxRenderDepth =>
                \A line \in ShownLines(how) :
                   line.note = "cycle" <=> \E i \in 0..(Len(line.of) - 1) :
                       /\ Title(how, SubSeq(line.of, 1, i)) = Title(how, line.of)
                       /\ Title(how, line.of) \notin how.raw
  BY Zenon DEF LeavesAreRaw
<1>1. \A b \in Tree(how) :
          IsRaw(how, b) /\ ~Truncated(how, b) => Title(how, b) \in how.raw \/ Makers(Title(how, b)) = {}
  BY StopsForAReason
<1>2. \A b \in Tree(how) : ~IsRaw(how, b) =>
          \E m \in Makers(Title(how, b)) :
             {Title(how, c) : c \in Children(how, b)}
                 = {e.to : e \in {e \in graph.edges : e.type = "CONSUMES" /\ e.from = m.from /\ e.amount}}
  BY GoesOnToIngredients
<1> QED
  BY <1>1, <1>2, CyclesAreCycles

-----------------------------------------------------------------------------
(* What `graph check` and consumers_of find of what a tree goes through.   *)

\* A label of an id is one node's.
LEMMA OneRecipeNode ==
  ASSUME Stored, NEW m \in nodes, NEW n \in nodes, m.id = n.id, "Recipe" \in m.labels, "Recipe" \in n.labels
  PROVE  Key(m) = Key(n)
<1>1. m.labels \cap n.labels # {}
  OBVIOUS
<1> QED
  BY <1>1 DEF Stored, OnePerLabel

\* What a branch ends with is a relationship of the recipe's own node.
LEMMA OwnIngredient ==
  ASSUME Inv, OneGraph, Stored, NEW m \in nodes, "Recipe" \in m.labels,
         NEW e \in edges, e.from.id = m.id, e.amount, mixed => "Recipe" \in e.from.labels
  PROVE  \E c \in edges : c.type = e.type /\ c.from = Key(m) /\ c.to = e.to /\ c.amount
<1>1. PICK n \in nodes : Key(n) = e.from
  BY DEF Stored, EndsAreNodes, HasKey
<1>2. n.id = m.id /\ (mixed => "Recipe" \in n.labels)
  BY <1>1 DEF Key
<1>3. CASE mixed
  <2>1. Key(m) = e.from
    BY <1>1, <1>2, <1>3, OneRecipeNode
  <2> QED
    BY <2>1
<1>4. CASE ~mixed
  <2>1. PICK b \in nodes : Key(b) = e.to
    BY DEF Stored, EndsAreNodes, HasKey
  <2>2. b.id = e.to.id
    BY <2>1 DEF Key
  <2>3. PICK x \in edges : x.type = e.type /\ x.from = Key(m) /\ x.to = Key(b)
    BY <1>4, <2>2, FromEvery
  <2>4. RowOf(x) \in graph.edges /\ RowOf(e) \in graph.edges
    BY <1>4 DEF Stored, OnlyGraph
  <2>5. SameEnds(RowOf(x), RowOf(e))
    BY <2>1, <2>3 DEF SameEnds, RowOf, Key
  <2>6. RowOf(x) = RowOf(e)
    BY <2>4, <2>5 DEF OneGraph, Progress, OneRowEach
  <2>7. x.amount
    BY <2>6 DEF RowOf
  <2> QED
    BY <2>1, <2>3, <2>7
<1>5. mixed \in BOOLEAN
  BY DEF Inv, TypeOK
<1> QED
  BY <1>3, <1>4, <1>5

LEMMA AmongConsumers ==
  ASSUME Inv, OneGraph, Stored, IdsAreTitles, NEW how \in Asked, NEW b \in Tree(how), b # <<>>, mixed => OfRecipe(b)
  PROVE  \E row \in ConsumersOf(Last(b).to.id) :
             row.recipe = TitleOf(Last(b).from) /\ row.amount /\ Title(how, Front(b)) \in row.produces
<1> DEFINE e == Last(b)  title == Title(how, Front(b))
<1>1. e \in edges /\ e.type = "CONSUMES" /\ e.amount /\ e.from.id \in RecipeFor(title)
  BY AskedDepth, BranchOf
<1>2. mixed => "Recipe" \in e.from.labels
  BY DEF OfRecipe
<1> HIDE DEF e, title
<1>3. PICK p \in edges, m \in nodes :
          p.type = "PRODUCES" /\ p.to.id = title /\ p.from = Key(m) /\ m.id = e.from.id /\ "Recipe" \in m.labels
  BY <1>1, ProducerOf DEF Stored
<1>4. PICK c \in edges : c.type = e.type /\ c.from = Key(m) /\ c.to = e.to /\ c.amount
  BY <1>1, <1>2, <1>3, OwnIngredient
<1> DEFINE used == {d \in edges : d.type = "CONSUMES" /\ "Recipe" \in d.from.labels /\ d.to.id = e.to.id}
           row(d) == {a.from : a \in {a \in used : a.amount = d.amount /\ TitleOf(a.from) = TitleOf(d.from)}}
           titles(d, type) == {TitleOf(a.to) : a \in {a \in edges : a.type = type /\ a.from \in row(d)}}
           line(d) == [recipe |-> TitleOf(d.from), amount |-> d.amount,
                       produces |-> titles(d, "PRODUCES"), stations |-> titles(d, "CRAFTED_AT")]
<1>5. c \in used
  BY <1>1, <1>3, <1>4 DEF Key
<1>6. c.from \in row(c)
  BY <1>5
<1>7. TitleOf(p.to) \in titles(c, "PRODUCES")
  BY <1>3, <1>4, <1>6
<1>8. ConsumersOf(e.to.id) = {line(d) : d \in used}
  BY Zenon DEF ConsumersOf
<1>9. line(c).recipe = TitleOf(c.from) /\ line(c).amount = c.amount /\ line(c).produces = titles(c, "PRODUCES")
  OBVIOUS
<1> HIDE DEF titles, used, row
<1>10. TitleOf(p.to) = title /\ TitleOf(c.from) = c.from.id /\ TitleOf(e.from) = e.from.id
  BY <1>1, <1>3, <1>4, KeyTitle DEF Stored, EndsAreNodes
<1>11. TitleOf(c.from) = TitleOf(e.from)
  BY <1>3, <1>4, <1>10 DEF Key
<1>12. line(c) \in ConsumersOf(e.to.id)
  BY <1>5, <1>8
<1> HIDE DEF line
<1> QED
  BY <1>4, <1>7, <1>9, <1>10, <1>11, <1>12 DEF e, title

LEMMA NoOrphan ==
  ASSUME Stored, ~mixed, NEW e \in edges
  PROVE  e.to.id \notin Orphans
<1> SUFFICES ASSUME NEW n \in nodes, n.id = e.to.id, \A x \in edges : Key(n) \notin {x.from, x.to}
             PROVE  FALSE
  BY DEF Orphans
<1>1. PICK a \in nodes : Key(a) = e.from
  BY DEF Stored, EndsAreNodes, HasKey
<1>2. a.id = e.from.id
  BY <1>1 DEF Key
<1> QED
  BY <1>2, FromEvery

LEMMA BackIsSelfCycle ==
  ASSUME Inv, OneGraph, Stored, IdsAreTitles, NEW how \in Asked, NEW b \in Tree(how), b # <<>>, mixed => OfRecipe(b),
         Title(how, b) = Title(how, Front(b))
  PROVE  <<Last(b).from.id, Last(b).to.id>> \in SelfCycles
<1> DEFINE e == Last(b)  title == Title(how, Front(b))
<1>1. /\ e \in edges /\ e.type = "CONSUMES" /\ e.amount /\ e.from.id \in RecipeFor(title)
      /\ title = TitleOf(e.to)
  BY AskedDepth, BranchOf
<1>2. mixed => "Recipe" \in e.from.labels
  BY DEF OfRecipe
<1> HIDE DEF e, title
<1>3. PICK p \in edges, m \in nodes :
          p.type = "PRODUCES" /\ p.to.id = title /\ p.from = Key(m) /\ m.id = e.from.id /\ "Recipe" \in m.labels
  BY <1>1, ProducerOf DEF Stored
<1>4. e.to.id = title /\ p.from.id = e.from.id
  BY <1>1, <1>3, KeyTitle DEF Stored, EndsAreNodes, Key
<1>5. PICK c \in edges : c.type = "CONSUMES" /\ c.from = p.from /\ c.to = e.to
  BY <1>1, <1>2, <1>3, OwnIngredient
<1>6. e \in Relationships /\ e.from.id \in Names /\ title \in Names
  BY <1>1, <1>4 DEF Inv, TypeOK, Relationships, Keys
<1>7. \/ EndsOf(edges, e.from.id, "CONSUMES", title) \subseteq EndsOf(edges, e.from.id, "PRODUCES", title)
      \/ EndsOf(edges, e.from.id, "PRODUCES", title) \subseteq EndsOf(edges, e.from.id, "CONSUMES", title)
  BY <1>6 DEF Stored, OneCoversOther, Relations
<1>8. /\ <<c.from, c.to>> \in EndsOf(edges, e.from.id, "CONSUMES", title)
      /\ <<p.from, p.to>> \in EndsOf(edges, e.from.id, "PRODUCES", title)
  BY <1>3, <1>4, <1>5 DEF EndsOf
<1>9. \E x, q \in edges : /\ x.type = "CONSUMES" /\ q.type = "PRODUCES" /\ x.from = q.from /\ x.to = q.to
                          /\ x.from = p.from /\ x.to.id = title
  <2>1. CASE <<c.from, c.to>> \in EndsOf(edges, e.from.id, "PRODUCES", title)
    <3>1. PICK q \in edges : q.type = "PRODUCES" /\ <<q.from, q.to>> = <<c.from, c.to>>
      BY <2>1 DEF EndsOf
    <3> QED
      BY <1>4, <1>5, <3>1
  <2>2. CASE <<p.from, p.to>> \in EndsOf(edges, e.from.id, "CONSUMES", title)
    <3>1. PICK x \in edges : x.type = "CONSUMES" /\ <<x.from, x.to>> = <<p.from, p.to>>
      BY <2>2 DEF EndsOf
    <3> QED
      BY <1>3, <3>1
  <2> QED
    BY <1>7, <1>8, <2>1, <2>2
<1>10. PICK x \in edges, q \in edges :
           /\ x.type = "CONSUMES" /\ q.type = "PRODUCES" /\ q.from = x.from /\ q.to = x.to
           /\ x.from = p.from /\ x.to.id = title
  BY <1>9
<1>11. "Recipe" \in x.from.labels
  BY <1>3, <1>10 DEF Key
<1>12. <<x.from.id, x.to.id>> \in SelfCycles
  BY <1>10, <1>11 DEF SelfCycles
<1> QED
  BY <1>4, <1>10, <1>12 DEF e

LEMMA WalkedHasOutputs ==
  ASSUME Stored, NEW title
  PROVE  RecipeFor(title) \cap MissingOutputs = {}
<1> SUFFICES ASSUME NEW r \in RecipeFor(title), NEW n \in Recipes, n.id = r,
                    \A e \in edges : ~(e.from = Key(n) /\ e.type = "PRODUCES")
             PROVE  FALSE
  BY DEF MissingOutputs
<1>1. PICK p \in edges, m \in nodes :
          p.type = "PRODUCES" /\ p.from = Key(m) /\ m.id = r /\ "Recipe" \in m.labels
  BY ProducerOf DEF Stored
<1>2. Key(n) = Key(m)
  BY <1>1, OneRecipeNode DEF Recipes
<1> QED
  BY <1>1, <1>2

LEMMA NeedsNothing ==
  ASSUME Stored, NEW how \in Asked, NEW b \in Tree(how), ~IsRaw(how, b), Children(how, b) = {}
  PROVE  \/ RecipeFor(Title(how, b)) \subseteq MissingInputs
         \/ \E e \in edges : /\ e.from.id \in RecipeFor(Title(how, b))
                             /\ e.type = "CONSUMES" /\ ~e.amount
<1> DEFINE title == Title(how, b)
<1>1. PICK r \in RecipeFor(title) : TRUE
  BY DEF IsRaw
<1>2. RecipeFor(title) = {r}
  BY OneRecipe
<1>3. Ingredients(r) = {}
  <2>1. {Append(b, e) : e \in UNION {Ingredients(s) : s \in RecipeFor(title)}} = {}
    BY DEF Children
  <2> QED
    BY <1>1, <2>1
<1> HIDE DEF title
<1>4. SUFFICES ASSUME \A e \in edges : ~(e.from.id = r /\ e.type = "CONSUMES" /\ ~e.amount)
               PROVE  r \in MissingInputs
  BY <1>2 DEF title
<1>5. \A e \in edges : ~(e.from.id = r /\ e.type = "CONSUMES")
  BY <1>3, <1>4 DEF Ingredients
<1>6. PICK m \in nodes : m.id = r /\ "Recipe" \in m.labels
  BY <1>1, ProducerOf DEF Stored
<1>7. Key(m).id = r
  BY <1>6 DEF Key
<1> QED
  BY <1>5, <1>6, <1>7 DEF MissingInputs, Recipes

LEMMA QueriesDoAgree ==
  ASSUME Inv, OneGraph, Stored
  PROVE  QueriesAgree
<1> SUFFICES ASSUME IdsAreTitles, NEW how \in Asked, NEW b \in Tree(how)
    PROVE  /\ b # <<>> /\ (mixed => OfRecipe(b)) =>
                 \E row \in ConsumersOf(Last(b).to.id) :
                    row.recipe = TitleOf(Last(b).from) /\ row.amount /\ Title(how, Front(b)) \in row.produces
           /\ b # <<>> /\ ~mixed => Last(b).to.id \notin CheckGraph.orphans
           /\ b # <<>> /\ (mixed => OfRecipe(b)) /\ Title(how, b) = Title(how, Front(b)) =>
                   <<Last(b).from.id, Last(b).to.id>> \in CheckGraph.self_cycles
           /\ ~IsRaw(how, b) => RecipeFor(Title(how, b)) \cap CheckGraph.recipes_missing_outputs = {}
           /\ ~IsRaw(how, b) /\ Children(how, b) = {} =>
                   \/ RecipeFor(Title(how, b)) \subseteq CheckGraph.recipes_missing_inputs
                   \/ \E e \in edges : /\ e.from.id \in RecipeFor(Title(how, b))
                                       /\ e.type = "CONSUMES" /\ ~e.amount
  BY Zenon DEF QueriesAgree
<1>1. /\ CheckGraph.orphans = Orphans /\ CheckGraph.self_cycles = SelfCycles
      /\ CheckGraph.recipes_missing_outputs = MissingOutputs
      /\ CheckGraph.recipes_missing_inputs = MissingInputs
  BY DEF CheckGraph
<1>2. b # <<>> => Last(b) \in edges
  BY AskedDepth, BranchOf
<1> QED
  BY <1>1, <1>2, AmongConsumers, NoOrphan, BackIsSelfCycle, WalkedHasOutputs, NeedsNothing

-----------------------------------------------------------------------------
(* Totals: a tree is finite, and a leaf is counted on its way to the root, *)
(* once.                                                                   *)

LEMMA ImageFinite ==
  ASSUME NEW S, IsFiniteSet(S), NEW f
  PROVE  IsFiniteSet({f[x] : x \in S})
<1> DEFINE F == [x \in S |-> f[x]]  T == {f[x] : x \in S}
<1>1. F \in Surjection(S, T)
  BY DEF Surjection
<1> QED
  BY <1>1, FS_Surjection

LEMMA WordsFinite == IsFiniteSet(Labels) /\ IsFiniteSet(Relations) /\ IsFiniteSet(BOOLEAN)
<1> DEFINE l == <<"Item", "Fluid", "Recipe", "Station", "Unlock">>
           r == <<"CONSUMES", "PRODUCES", "CRAFTED_AT", "UNLOCKS", "COSTS">>
           b == <<TRUE, FALSE>>
<1>1. Labels \subseteq {l[i] : i \in 1..5}
  <2>1. Labels = {l[1], l[2], l[3], l[4], l[5]}
    BY DEF Labels
  <2> HIDE DEF l
  <2> QED
    BY <2>1
<1>2. Relations \subseteq {r[i] : i \in 1..5}
  <2>1. Relations = {r[1], r[2], r[3], r[4], r[5]}
    BY DEF Relations
  <2> HIDE DEF r
  <2> QED
    BY <2>1
<1>3. BOOLEAN \subseteq {b[i] : i \in 1..2}
  <2>1. BOOLEAN = {b[1], b[2]}
    OBVIOUS
  <2> HIDE DEF b
  <2> QED
    BY <2>1
<1> HIDE DEF l, r, b
<1>4. IsFiniteSet(1..5) /\ IsFiniteSet(1..2)
  <2>1. 1 \in Int /\ 5 \in Int /\ 2 \in Int
    OBVIOUS
  <2> QED
    BY <2>1, FS_Interval, Zenon
<1>5. /\ IsFiniteSet({l[i] : i \in 1..5}) /\ IsFiniteSet({r[i] : i \in 1..5})
      /\ IsFiniteSet({b[i] : i \in 1..2})
  BY <1>4, ImageFinite, Zenon
<1> QED
  BY <1>1, <1>2, <1>3, <1>5, FS_Subset, Zenon

LEMMA KeysFinite == IsFiniteSet(Keys)
<1> DEFINE P == Names \X SUBSET Labels
           F == [k \in Keys |-> <<k.id, k.labels>>]
<1>1. IsFiniteSet(Labels) /\ IsFiniteSet(Names)
  BY RecipeTreeAssumption, WordsFinite
<1>2. IsFiniteSet(P)
  BY <1>1, FS_SUBSET, FS_Product
<1>3. F \in Injection(Keys, P)
  <2>1. F \in [Keys -> P]
    BY DEF Keys
  <2>2. \A k, l \in Keys : F[k] = F[l] => k = l
    BY DEF Keys
  <2> HIDE DEF F, P
  <2> QED
    BY <2>1, <2>2 DEF Injection, IsInjective
<1> QED
  BY <1>2, <1>3, FS_Injection

LEMMA EdgesFinite ==
  ASSUME TypeOK
  PROVE  IsFiniteSet(edges)
<1> DEFINE Types == Relations \cup {"REQUIRES"}
           E == [from : Keys, type : Types, to : Keys, amount : BOOLEAN]
           P == (Keys \X Types) \X (Keys \X BOOLEAN)
           F == [e \in E |-> <<<<e.from, e.type>>, <<e.to, e.amount>>>>]
<1>1. IsFiniteSet(Types) /\ IsFiniteSet(BOOLEAN)
  BY WordsFinite, FS_AddElement
<1> HIDE DEF Types
<1>2. IsFiniteSet(P)
  BY <1>1, KeysFinite, FS_Product
<1>3. F \in Injection(E, P)
  <2>1. ASSUME NEW e \in E PROVE <<e.from, e.type>> \in Keys \X Types /\ <<e.to, e.amount>> \in Keys \X BOOLEAN
    OBVIOUS
  <2>2. F \in [E -> P]
    BY <2>1
  <2>3. ASSUME NEW d \in E, NEW e \in E, F[d] = F[e] PROVE d = e
    <3>1. d.from = e.from /\ d.type = e.type /\ d.to = e.to /\ d.amount = e.amount
      BY <2>3
    <3>2. /\ d = [from |-> d.from, type |-> d.type, to |-> d.to, amount |-> d.amount]
          /\ e = [from |-> e.from, type |-> e.type, to |-> e.to, amount |-> e.amount]
      OBVIOUS
    <3> QED
      BY <3>1, <3>2
  <2>4. \A d, e \in E : F[d] = F[e] => d = e
    BY <2>3
  <2> HIDE DEF F, P, E
  <2> QED
    BY <2>2, <2>4 DEF Injection, IsInjective
<1>4. IsFiniteSet(E)
  BY <1>2, <1>3, FS_Injection
<1>5. edges \subseteq E
  BY DEF TypeOK, Types
<1> QED
  BY <1>4, <1>5, FS_Subset

LEMMA ChildrenFinite ==
  ASSUME IsFiniteSet(edges), NEW how, NEW b
  PROVE  IsFiniteSet(Children(how, b))
<1> DEFINE all == UNION {Ingredients(r) : r \in RecipeFor(Title(how, b))}
           f == [e \in all |-> Append(b, e)]
<1>1. IsFiniteSet(all)
  <2>1. all \subseteq edges
    BY DEF Ingredients
  <2> QED
    BY <2>1, FS_Subset
<1>2. Children(how, b) \subseteq {f[e] : e \in all}
  BY DEF Children
<1> HIDE DEF f, all
<1>3. IsFiniteSet({f[e] : e \in all})
  BY <1>1, ImageFinite
<1> QED
  BY <1>2, <1>3, FS_Subset

\* A level holds the branches of its length: so many ingredients are left to walk.
AreLevels(how, f) ==
    /\ f[0] = {<<>>}
    /\ \A d \in 0..how.depth : f[d] \subseteq Seq(edges)
    /\ \A d \in 1..how.depth : f[d] = UNION {Children(how, b) : b \in f[d - 1]}

LEMMA LevelLength ==
  ASSUME NEW how, how.depth \in Nat, NEW f, AreLevels(how, f)
  PROVE  \A d \in 0..how.depth : \A b \in f[d] : Len(b) = d
<1> DEFINE N == how.depth
<1>0. /\ f[0] = {<<>>}
      /\ \A d \in 0..N : f[d] \subseteq Seq(edges)
      /\ \A d \in 1..N : f[d] = UNION {Children(how, b) : b \in f[d - 1]}
  BY DEF AreLevels
<1> DEFINE T == {d \in 0..N : \A b \in f[d] : Len(b) = d}
<1>1. 0 \in T
  BY <1>0
<1>2. \A d \in 0..(N - 1) : d \in T => d + 1 \in T
  <2> TAKE d \in 0..(N - 1)
  <2> HAVE d \in T
  <2>1. d + 1 \in 1..N /\ d \in 0..N /\ (d + 1) - 1 = d /\ d + 1 \in 0..N
    OBVIOUS
  <2>2. ASSUME NEW b \in f[d + 1] PROVE Len(b) = d + 1
    <3>1. PICK c \in f[d] : b \in Children(how, c)
      BY <1>0, <2>1
    <3>2. c \in Seq(edges) /\ Len(c) = d
      BY <1>0, <2>1
    <3>3. \E e \in edges : b = Append(c, e)
      BY <3>1, <3>2, IngredientsAreEdges
    <3> QED
      BY <3>2, <3>3
  <2> QED
    BY <2>1, <2>2
<1> HIDE DEF T
<1>3. 0..N \subseteq T
  BY <1>1, <1>2, TurnInduction
<1> QED
  BY <1>3 DEF T

LEMMA TreeFinite ==
  ASSUME IsFiniteSet(edges), NEW how, how.depth \in Nat
  PROVE  IsFiniteSet(Tree(how))
<1> DEFINE N == how.depth
<1>1. PICK f : /\ Tree(how) = UNION {f[d] : d \in 0..N}
               /\ f[0] = {<<>>}
               /\ \A d \in 0..N : f[d] \subseteq Seq(edges)
               /\ \A d \in 1..N : f[d] = UNION {Children(how, b) : b \in f[d - 1]}
  BY TreeLevels
<1> DEFINE T == {d \in 0..N : IsFiniteSet(f[d])}
<1>2. 0 \in T
  <2>1. IsFiniteSet({<<>>})
    BY FS_Singleton
  <2>2. 0 \in 0..N /\ IsFiniteSet(f[0])
    BY <1>1, <2>1
  <2> QED
    BY <2>2
<1>3. \A d \in 0..(N - 1) : d \in T => d + 1 \in T
  <2> TAKE d \in 0..(N - 1)
  <2> HAVE d \in T
  <2>1. d + 1 \in 1..N /\ d + 1 \in 0..N /\ (d + 1) - 1 = d
    OBVIOUS
  <2> DEFINE g == [b \in f[d] |-> Children(how, b)]
  <2>2. f[d + 1] = UNION {Children(how, b) : b \in f[d]}
    BY <1>1, <2>1
  <2>2a. \A b \in f[d] : g[b] = Children(how, b)
    OBVIOUS
  <2> HIDE DEF g
  <2>3. IsFiniteSet({g[b] : b \in f[d]})
    BY ImageFinite
  <2>4. \A S \in {g[b] : b \in f[d]} : IsFiniteSet(S)
    BY <2>2a, ChildrenFinite
  <2>4a. f[d + 1] = UNION {g[b] : b \in f[d]}
    BY <2>2, <2>2a
  <2>5. IsFiniteSet(f[d + 1])
    BY <2>4a, <2>3, <2>4, FS_UNION
  <2> QED
    BY <2>1, <2>5
<1> HIDE DEF T
<1>4. 0..N \subseteq T
  BY <1>2, <1>3, TurnInduction
<1>5. \A d \in 0..N : IsFiniteSet(f[d])
  BY <1>4 DEF T
<1>6. IsFiniteSet(0..N)
  BY FS_Interval
<1>7. IsFiniteSet({f[d] : d \in 0..N})
  BY <1>6, ImageFinite
<1>8. IsFiniteSet(UNION {f[d] : d \in 0..N})
  BY <1>5, <1>7, FS_UNION
<1> QED
  BY <1>1, <1>8

\* A tree is closed under children: what goes on is above the depth bound.
LEMMA ChildrenInTree ==
  ASSUME NEW how, how.depth \in Nat, NEW b \in Tree(how)
  PROVE  /\ Len(b) \in 0..how.depth
         /\ \A c \in Children(how, b) : c \in Tree(how) /\ \E e \in edges : c = Append(b, e)
<1> DEFINE N == how.depth
<1>1. PICK f : /\ Tree(how) = UNION {f[d] : d \in 0..N}
               /\ f[0] = {<<>>}
               /\ \A d \in 0..N : f[d] \subseteq Seq(edges)
               /\ \A d \in 1..N : f[d] = UNION {Children(how, c) : c \in f[d - 1]}
  BY TreeLevels
<1>2. PICK d \in 0..N : b \in f[d]
  BY <1>1
<1>3. Len(b) = d /\ b \in Seq(edges)
  <2>1. \A e \in 0..N : \A c \in f[e] : Len(c) = e
    <3>1. AreLevels(how, f)
      BY <1>1 DEF AreLevels
    <3> QED
      BY <3>1, LevelLength
  <2> QED
    BY <1>1, <1>2, <2>1
<1>4. ASSUME NEW c \in Children(how, b) PROVE c \in Tree(how) /\ \E e \in edges : c = Append(b, e)
  <2>1. ~IsRaw(how, b) /\ \E e \in edges : c = Append(b, e)
    BY <1>3, <1>4, IngredientsAreEdges
  <2>2. ~(Len(b) >= how.depth)
    BY <2>1 DEF IsRaw, Truncated
  <2>3. d + 1 \in 1..N /\ d + 1 \in 0..N /\ (d + 1) - 1 = d
    BY <1>3, <2>2
  <2>4. c \in f[d + 1]
    BY <1>1, <1>2, <2>3
  <2> QED
    BY <1>1, <2>1, <2>3, <2>4
<1> QED
  BY <1>2, <1>3, <1>4

LEMMA RootInTree ==
  ASSUME NEW how, how.depth \in Nat
  PROVE  <<>> \in Tree(how)
BY TreeLevels

LEMMA PrefixOfAppend ==
  ASSUME NEW S, NEW c \in Seq(S), NEW e \in S
  PROVE  /\ Append(c, e) \in Seq(S) /\ Len(Append(c, e)) = Len(c) + 1
         /\ \A i \in 0..Len(c) : SubSeq(Append(c, e), 1, i) = SubSeq(c, 1, i)
         /\ SubSeq(Append(c, e), 1, Len(c) + 1) = Append(c, e)
         /\ SubSeq(c, 1, Len(c)) = c
<1>1. Append(c, e) \in Seq(S) /\ Len(Append(c, e)) = Len(c) + 1 /\ Len(c) \in Nat
      /\ Append(c, e)[Len(c) + 1] = e /\ \A i \in 1..Len(c) : Append(c, e)[i] = c[i]
  OBVIOUS
<1>2. SubSeq(c, 1, Len(c)) = c
  OBVIOUS
<1> DEFINE a == Append(c, e)
<1>3. \A i \in 0..Len(c) : SubSeq(a, 1, i) = SubSeq(c, 1, i)
  BY <1>1
<1>4. SubSeq(a, 1, Len(a)) = a
  BY <1>1
<1> QED
  BY <1>1, <1>2, <1>3, <1>4

\* What a branch goes through, one ingredient after the other.
LEMMA WayDown ==
  ASSUME NEW how, how.depth \in Nat
  PROVE  \A b \in Tree(how) : \A i \in 0..Len(b) :
             /\ SubSeq(b, 1, i) \in Tree(how)
             /\ i < Len(b) => SubSeq(b, 1, i + 1) \in Children(how, SubSeq(b, 1, i))
<1> DEFINE N == how.depth
           Way(b) == \A i \in 0..Len(b) :
                        /\ SubSeq(b, 1, i) \in Tree(how)
                        /\ i < Len(b) => SubSeq(b, 1, i + 1) \in Children(how, SubSeq(b, 1, i))
           T == {n \in 0..N : \A b \in Tree(how) : Len(b) = n => Way(b)}
<1>1. 0 \in T
  <2> SUFFICES ASSUME NEW b \in Tree(how), Len(b) = 0, NEW i \in 0..Len(b) PROVE SubSeq(b, 1, i) \in Tree(how) /\ ~(i < Len(b))
    OBVIOUS
  <2>1. b \in Seq(edges)
    BY TreeBranches
  <2> DEFINE p == SubSeq(b, 1, i)
  <2>2. p = b /\ i = 0
    BY <2>1
  <2> HIDE DEF p
  <2>3. p \in Tree(how)
    BY <2>2
  <2> QED
    BY <2>2, <2>3 DEF p
<1>2. \A n \in 0..(N - 1) : n \in T => n + 1 \in T
  <2> TAKE n \in 0..(N - 1)
  <2> HAVE n \in T
  <2>0. \A c \in Tree(how) : Len(c) = n => Way(c)
    OBVIOUS
  <2> SUFFICES ASSUME NEW b \in Tree(how), Len(b) = n + 1, NEW i \in 0..Len(b)
               PROVE  /\ SubSeq(b, 1, i) \in Tree(how)
                      /\ i < Len(b) => SubSeq(b, 1, i + 1) \in Children(how, SubSeq(b, 1, i))
    OBVIOUS
  <2>1. PICK c \in Tree(how) : b \in Children(how, c)
    <3>1. b # <<>>
      OBVIOUS
    <3> QED
      BY <3>1, TreeBranches
  <2>2. c \in Seq(edges)
    BY TreeBranches
  <2>3. PICK e \in edges : b = Append(c, e)
    BY <2>1, ChildrenInTree
  <2>4. /\ Len(b) = Len(c) + 1 /\ \A j \in 0..Len(c) : SubSeq(b, 1, j) = SubSeq(c, 1, j)
        /\ SubSeq(b, 1, Len(b)) = b /\ SubSeq(c, 1, Len(c)) = c
    BY <2>2, <2>3, PrefixOfAppend
  <2>5. Len(c) = n /\ Way(c)
    <3> HIDE DEF T
    <3>1. Len(c) \in Nat /\ n \in Nat
      BY <2>2
    <3>2. Len(c) + 1 = n + 1
      BY <2>4
    <3>3. Len(c) = n
      BY <3>1, <3>2
    <3> QED
      BY <2>0, <3>3
  <2> HIDE DEF T
  <2>6. Len(b) = n + 1 /\ n \in Nat
    OBVIOUS
  <2>7. SubSeq(b, 1, n + 1) = b /\ SubSeq(b, 1, n) = c
    BY <2>4, <2>5, <2>6
  <2>8. CASE i = n + 1
    <3> DEFINE p == SubSeq(b, 1, n + 1)
    <3>1. p = b
      BY <2>7
    <3> HIDE DEF p
    <3>2. p \in Tree(how) /\ ~(i < Len(b))
      BY <2>6, <2>8, <3>1
    <3> QED
      BY <2>8, <3>2 DEF p
  <2>9. CASE i = n
    BY <2>1, <2>6, <2>7, <2>9
  <2>10. CASE i < n
    <3>1. i \in 0..Len(c) /\ i + 1 \in 0..Len(c) /\ i < Len(c)
      BY <2>5, <2>6, <2>10
    <3>2. SubSeq(b, 1, i) = SubSeq(c, 1, i) /\ SubSeq(b, 1, i + 1) = SubSeq(c, 1, i + 1)
      BY <2>4, <3>1
    <3>3. SubSeq(c, 1, i) \in Tree(how) /\ SubSeq(c, 1, i + 1) \in Children(how, SubSeq(c, 1, i))
      BY <2>5, <3>1
    <3> QED
      BY <3>2, <3>3
  <2>11. i \in Int /\ i <= n + 1
    BY <2>6
  <2> QED
    BY <2>6, <2>8, <2>9, <2>10, <2>11
<1> HIDE DEF T
<1>3. 0..N \subseteq T
  BY <1>1, <1>2, TurnInduction
<1> QED
  BY <1>3, ChildrenInTree DEF T

\* Branch l goes through branch b.
Through(l, b) == Len(b) <= Len(l) /\ SubSeq(l, 1, Len(b)) = b

LEMMA ThroughItself ==
  ASSUME NEW how, how.depth \in Nat, NEW l \in Tree(how)
  PROVE  Through(l, l) /\ Through(l, <<>>)
<1>1. l \in Seq(edges)
  BY TreeBranches
<1> QED
  BY <1>1 DEF Through

LEMMA GoesThroughAChild ==
  ASSUME NEW how, how.depth \in Nat, NEW l \in Tree(how), NEW b \in Tree(how), Through(l, b), l # b
  PROVE  \E c \in Children(how, b) : Through(l, c)
<1>1. l \in Seq(edges) /\ b \in Seq(edges)
  BY TreeBranches
<1> DEFINE n == Len(b)
           p == SubSeq(l, 1, n)
           c == SubSeq(l, 1, n + 1)
<1>2. n \in Nat /\ Len(l) \in Nat /\ n <= Len(l) /\ p = b
  BY <1>1 DEF Through
<1>3. n # Len(l)
  <2> SUFFICES ASSUME n = Len(l) PROVE FALSE
    OBVIOUS
  <2>1. SubSeq(l, 1, Len(l)) = l
    BY <1>1
  <2> QED
    BY <1>2, <2>1
<1>4. n \in 0..Len(l) /\ n < Len(l)
  BY <1>2, <1>3
<1>5. c \in Children(how, p)
  BY <1>4, WayDown
<1>6. Len(c) = n + 1
  BY <1>1, <1>4
<1> HIDE DEF p, c
<1>7. c \in Children(how, b)
  BY <1>2, <1>5
<1>8. Through(l, c)
  BY <1>4, <1>6 DEF Through, c
<1> QED
  BY <1>7, <1>8

LEMMA ChildrenPart ==
  ASSUME NEW how, how.depth \in Nat, NEW l \in Tree(how), NEW b \in Tree(how),
         NEW c \in Children(how, b), Through(l, c)
  PROVE  /\ Through(l, b) /\ Len(c) = Len(b) + 1
         /\ \A d \in Children(how, b) : Through(l, d) => c = d
<1>1. l \in Seq(edges) /\ b \in Seq(edges)
  BY TreeBranches
<1>2. \A d \in Children(how, b) : Len(d) = Len(b) + 1 /\ d \in Seq(edges)
  <2> TAKE d \in Children(how, b)
  <2>1. PICK e \in edges : d = Append(b, e)
    BY ChildrenInTree
  <2> QED
    BY <1>1, <2>1
<1>3. SubSeq(c, 1, Len(b)) = b
  <2>1. PICK e \in edges : c = Append(b, e)
    BY ChildrenInTree
  <2> DEFINE p == SubSeq(Append(b, e), 1, Len(b))
  <2>2. p = SubSeq(b, 1, Len(b)) /\ SubSeq(b, 1, Len(b)) = b
    BY <1>1, PrefixOfAppend
  <2>3. p = b
    BY <2>2
  <2> QED
    BY <2>1, <2>3
<1>4. Len(c) <= Len(l) /\ SubSeq(l, 1, Len(c)) = c
  BY DEF Through
<1>5. SubSeq(l, 1, Len(b)) = b /\ Len(b) <= Len(l)
  <2>1. Len(b) <= Len(l)
    BY <1>1, <1>2, <1>4
  <2>2. \A i \in 1..Len(b) : l[i] = c[i] /\ c[i] = b[i]
    BY <1>1, <1>2, <1>3, <1>4
  <2> QED
    BY <1>1, <2>1, <2>2
<1>6. ASSUME NEW d \in Children(how, b), Through(l, d) PROVE c = d
  <2>1. Len(d) <= Len(l) /\ SubSeq(l, 1, Len(d)) = d
    BY <1>6 DEF Through
  <2> DEFINE p == SubSeq(l, 1, Len(b) + 1)
  <2>2. Len(c) = Len(b) + 1 /\ Len(d) = Len(b) + 1
    BY <1>2
  <2>3. p = c /\ p = d
    BY <1>4, <2>1, <2>2
  <2> HIDE DEF p
  <2> QED
    BY <2>3
<1> QED
  BY <1>2, <1>5, <1>6 DEF Through

CountsLeaves(g, how, leaves, m) ==
    g = [b \in Tree(how) |-> IF b \in leaves THEN Here(how, b, m) ELSE SumFunctionOnSet(g, Children(how, b))]

\* A total of the leaves of a kind is their number, for each material.
LEMMA LeavesTotal ==
  ASSUME IsFiniteSet(edges), NEW how, how.depth \in Nat, NEW m,
         NEW leaves \in SUBSET Tree(how), \A b \in leaves : Children(how, b) = {}
  PROVE  /\ \E g : CountsLeaves(g, how, leaves, m)
         /\ \A g : CountsLeaves(g, how, leaves, m) => g[<<>>] = Cardinality({l \in leaves : Title(how, l) = m})
<1> DEFINE tree == Tree(how)
           N == how.depth
           R(g) == g = [b \in tree |-> IF b \in leaves THEN Here(how, b, m) ELSE SumFunctionOnSet(g, Children(how, b))]
           mine == {l \in leaves : Title(how, l) = m}
           under == [b \in tree |-> {l \in mine : Through(l, b)}]
           rank == [b \in tree |-> Len(b)]
           kids == [b \in tree |-> Children(how, b)]
           here == [b \in tree |-> Here(how, b, m)]
           Q(g) == CountsDown(g, tree, kids, leaves, here)
<1>1. N \in Nat /\ rank \in [tree -> 0..N] /\ kids \in [tree -> SUBSET tree]
  BY ChildrenInTree
<1>2. ASSUME NEW b \in tree PROVE IsFiniteSet(under[b]) /\ IsFiniteSet(kids[b])
  <2>1. IsFiniteSet(tree) /\ under[b] \subseteq tree
    BY TreeFinite
  <2>2. IsFiniteSet(under[b])
    BY <2>1, FS_Subset
  <2> QED
    BY <2>2, ChildrenFinite
<1>3. ASSUME NEW b \in tree, NEW c \in kids[b] PROVE rank[c] > rank[b]
  <2>1. c \in tree /\ rank[c] = Len(c) /\ rank[b] = Len(b)
    BY <1>1
  <2>2. Len(c) = Len(b) + 1 /\ Len(b) \in Nat
    <3>1. Through(c, c) /\ c \in Children(how, b)
      BY <2>1, ThroughItself
    <3>2. Len(c) = Len(b) + 1
      BY <2>1, <3>1, ChildrenPart
    <3> QED
      BY <3>2, ChildrenInTree
  <2> QED
    BY <2>1, <2>2
<1>4. ASSUME NEW b \in tree, NEW c \in kids[b], NEW d \in kids[b], c # d PROVE under[c] \cap under[d] = {}
  <2>1. c \in tree /\ d \in tree
    BY <1>1
  <2> SUFFICES ASSUME NEW l \in mine, Through(l, c), Through(l, d) PROVE FALSE
    BY <2>1
  <2> QED
    BY <1>4, ChildrenPart
<1>5. ASSUME NEW b \in tree \ leaves PROVE under[b] = UNION {under[c] : c \in kids[b]}
  <2>1. ASSUME NEW l \in under[b] PROVE \E c \in kids[b] : l \in under[c]
    <3>1. l \in mine /\ Through(l, b) /\ l # b /\ l \in tree
      OBVIOUS
    <3>2. PICK c \in Children(how, b) : Through(l, c)
      BY <3>1, GoesThroughAChild
    <3>3. c \in tree
      BY <1>1
    <3> QED
      BY <3>1, <3>2, <3>3
  <2>2. ASSUME NEW c \in kids[b], NEW l \in under[c] PROVE l \in under[b]
    <3>1. c \in tree
      BY <1>1
    <3>2. l \in mine /\ Through(l, c) /\ l \in tree
      BY <3>1
    <3>3. Through(l, b)
      BY <3>2, ChildrenPart
    <3> QED
      BY <3>2, <3>3
  <2> HIDE DEF under, kids
  <2> QED
    BY <2>1, <2>2
<1>6. ASSUME NEW b \in tree \cap leaves PROVE here[b] = Cardinality(under[b])
  <2>1. ASSUME NEW l \in mine, Through(l, b) PROVE l = b
    <3>1. l \in tree /\ Children(how, b) = {}
      OBVIOUS
    <3> QED
      BY <2>1, <3>1, GoesThroughAChild
  <2>2. under[b] = IF Title(how, b) = m THEN {b} ELSE {}
    BY <2>1, ThroughItself
  <2>3. Cardinality({b}) = 1 /\ Cardinality({}) = 0
    BY FS_Singleton, FS_EmptySet
  <2> QED
    BY <2>2, <2>3 DEF Here
<1>7. under[<<>>] = mine /\ <<>> \in tree
  BY RootInTree, ThroughItself
<1>8. ASSUME NEW g PROVE Q(g) <=> R(g)
  <2>1. \A b \in tree : here[b] = Here(how, b, m) /\ kids[b] = Children(how, b)
    OBVIOUS
  <2> HIDE DEF here, kids, tree
  <2> QED
    BY <2>1 DEF CountsDown
<1> HIDE DEF tree, N, under, rank, kids, here
<1>9. (\E g : Q(g)) /\ (\A g : Q(g) => \A b \in tree : g[b] = Cardinality(under[b]))
  <2>1. \A b \in tree : IsFiniteSet(under[b]) /\ IsFiniteSet(kids[b])
    BY <1>2
  <2>2. \A b \in tree : \A c \in kids[b] : rank[c] > rank[b]
    BY <1>3
  <2>3. \A b \in tree : \A c, d \in kids[b] : c # d => under[c] \cap under[d] = {}
    BY <1>4
  <2>4. \A b \in tree \ leaves : under[b] = UNION {under[c] : c \in kids[b]}
    BY <1>5
  <2>5. \A b \in tree \cap leaves : here[b] = Cardinality(under[b])
    BY <1>6
  <2>6. Branches(N, tree, rank, kids, leaves, here, under)
    BY <1>1, <2>1, <2>2, <2>3, <2>4, <2>5 DEF Branches
  <2> QED
    BY <2>6, CountOnTree
<1> HIDE DEF Q, mine
<1>10. (\E g : R(g)) /\ (\A g : R(g) => g[<<>>] = Cardinality(mine))
  <2> HIDE DEF R
  <2> QED
    BY <1>7, <1>8, <1>9
<1> QED
  BY <1>10 DEF mine, tree, CountsLeaves

LEMMA RawIsLeaf ==
  ASSUME NEW how, NEW b, IsRaw(how, b)
  PROVE  Children(how, b) = {}
BY DEF Children

LEMMA RawTotalsCount ==
  ASSUME IsFiniteSet(edges), NEW how, how.depth \in Nat, NEW m
  PROVE  RawTotals(how, Tree(how), m) = Cardinality({l \in Tree(how) : IsRaw(how, l) /\ Title(how, l) = m})
<1> DEFINE tree == Tree(how)
           leaves == {b \in tree : IsRaw(how, b)}
           R(g) == CountsLeaves(g, how, leaves, m)
           T(g) == g = [b \in tree |-> IF IsRaw(how, b) THEN Here(how, b, m) ELSE SumFunctionOnSet(g, Children(how, b))]
<1>1. RawTotals(how, tree, m) = (CHOOSE g : T(g))[<<>>]
  BY Zenon DEF RawTotals
<1>2. ASSUME NEW g PROVE T(g) <=> R(g)
  <2>1. \A b \in tree : b \in leaves <=> IsRaw(how, b)
    OBVIOUS
  <2> HIDE DEF leaves
  <2> QED
    BY <2>1 DEF CountsLeaves
<1>3. leaves \in SUBSET Tree(how) /\ \A b \in leaves : Children(how, b) = {}
  BY RawIsLeaf
<1>4. {l \in Tree(how) : IsRaw(how, l) /\ Title(how, l) = m} = {l \in leaves : Title(how, l) = m}
  OBVIOUS
<1>5. (\E g : R(g)) /\ (\A g : R(g) => g[<<>>] = Cardinality({l \in leaves : Title(how, l) = m}))
  <2> HIDE DEF leaves
  <2> QED
    BY <1>3, LeavesTotal
<1> HIDE DEF R, T, tree, leaves
<1>6. T(CHOOSE g : T(g))
  BY <1>2, <1>5, Zenon
<1> QED
  BY <1>1, <1>2, <1>4, <1>5, <1>6 DEF tree

LEMMA CollectCount ==
  ASSUME IsFiniteSet(edges), NEW how, how.depth \in Nat, NEW m
  PROVE  Collect(how, Tree(how), m) = Cardinality({l \in Tree(how) : Children(how, l) = {} /\ Title(how, l) = m})
<1> DEFINE tree == Tree(how)
           leaves == {b \in tree : Children(how, b) = {}}
           R(g) == CountsLeaves(g, how, leaves, m)
           T(g) == g = [b \in tree |-> IF Children(how, b) = {} THEN Here(how, b, m) ELSE SumFunctionOnSet(g, Children(how, b))]
<1>1. Collect(how, tree, m) = (CHOOSE g : T(g))[<<>>]
  BY Zenon DEF Collect
<1>2. ASSUME NEW g PROVE T(g) <=> R(g)
  <2>1. \A b \in tree : b \in leaves <=> Children(how, b) = {}
    OBVIOUS
  <2> HIDE DEF leaves
  <2> QED
    BY <2>1 DEF CountsLeaves
<1>3. leaves \in SUBSET Tree(how) /\ \A b \in leaves : Children(how, b) = {}
  OBVIOUS
<1>4. {l \in Tree(how) : Children(how, l) = {} /\ Title(how, l) = m} = {l \in leaves : Title(how, l) = m}
  OBVIOUS
<1>5. (\E g : R(g)) /\ (\A g : R(g) => g[<<>>] = Cardinality({l \in leaves : Title(how, l) = m}))
  <2> HIDE DEF leaves
  <2> QED
    BY <1>3, LeavesTotal
<1> HIDE DEF R, T, tree, leaves
<1>6. T(CHOOSE g : T(g))
  BY <1>2, <1>5, Zenon
<1> QED
  BY <1>1, <1>2, <1>4, <1>5, <1>6 DEF tree

LEMMA TotalsCount ==
  ASSUME TypeOK, NEW how \in Asked
  PROVE  LET lines == LoggedLines(how)
             logged == LoggedTotal(how)
             stated == \A line \in lines : line.note # "none" \/ Children(how, line.of) # {}
         IN  /\ \A material \in DOMAIN logged :
                    logged[material]
                        = Cardinality({l \in lines : l.note # "none" /\ Title(how, l.of) = material})
             /\ stated => ShownTotal(how) = logged
<1> DEFINE tree == Tree(how)
           lines == LoggedLines(how)
           logged == LoggedTotal(how)
           note(b) == IF Truncated(how, b) THEN "cycle" ELSE IF IsRaw(how, b) THEN "raw" ELSE "none"
<1>1. IsFiniteSet(edges) /\ how.depth \in Nat /\ IsFiniteSet(tree)
  BY EdgesFinite, AskedDepth, TreeFinite
<1>2. lines = {[of |-> b, note |-> note(b)] : b \in tree}
  BY DEF LoggedLines
<1>3. \A b \in tree : note(b) # "none" <=> IsRaw(how, b)
  BY DEF IsRaw
<1>4. logged = [m \in {n.title : n \in nodes} |-> RawTotals(how, tree, m)]
  BY Zenon DEF LoggedTotal
<1>5. ShownTotal(how) = [m \in {n.title : n \in nodes} |-> Collect(how, tree, m)]
  BY Zenon DEF ShownTotal
<1> HIDE DEF tree, lines, logged, note
<1>6. ASSUME NEW m
      PROVE  Cardinality({b \in tree : IsRaw(how, b) /\ Title(how, b) = m})
                 = Cardinality({l \in lines : l.note # "none" /\ Title(how, l.of) = m})
  <2> DEFINE S == {b \in tree : IsRaw(how, b) /\ Title(how, b) = m}
             L == {l \in lines : l.note # "none" /\ Title(how, l.of) = m}
             F == [b \in S |-> [of |-> b, note |-> note(b)]]
  <2>1. F \in [S -> L]
    BY <1>2, <1>3
  <2>2. ASSUME NEW l \in L PROVE \E b \in S : F[b] = l
    <3>1. PICK b \in tree : l = [of |-> b, note |-> note(b)]
      BY <1>2
    <3>2. b \in S
      BY <1>3, <3>1
    <3> QED
      BY <3>1, <3>2
  <2>3. \A b, c \in S : F[b] = F[c] => b = c
    OBVIOUS
  <2>4. IsFiniteSet(S)
    BY <1>1, FS_Subset
  <2> HIDE DEF S, L, F
  <2>5. F \in Surjection(S, L) /\ F \in Injection(S, L)
    BY <2>1, <2>2, <2>3 DEF Surjection, Injection, IsInjective
  <2>6. Cardinality(L) = Cardinality(S)
    BY <2>4, <2>5, FS_Surjection
  <2> QED
    BY <2>6 DEF S, L
<1>7. ASSUME NEW m \in DOMAIN logged
      PROVE  logged[m] = Cardinality({l \in lines : l.note # "none" /\ Title(how, l.of) = m})
  <2>1. logged[m] = RawTotals(how, tree, m)
    BY <1>4
  <2>2. RawTotals(how, tree, m) = Cardinality({b \in tree : IsRaw(how, b) /\ Title(how, b) = m})
    BY <1>1, RawTotalsCount DEF tree
  <2> QED
    BY <1>6, <2>1, <2>2
<1>8. ASSUME \A line \in lines : line.note # "none" \/ Children(how, line.of) # {}
      PROVE  ShownTotal(how) = logged
  <2>1. ASSUME NEW b \in tree PROVE IsRaw(how, b) <=> Children(how, b) = {}
    <3> DEFINE line == [of |-> b, note |-> note(b)]
    <3>1. line \in lines /\ line.of = b /\ line.note = note(b)
      BY <1>2
    <3>2. line.note # "none" \/ Children(how, line.of) # {}
      BY <1>8, <3>1
    <3> QED
      BY <1>3, <3>1, <3>2, RawIsLeaf
  <2>2. ASSUME NEW m PROVE RawTotals(how, tree, m) = Collect(how, tree, m)
    <3>1. {b \in tree : IsRaw(how, b) /\ Title(how, b) = m} = {b \in tree : Children(how, b) = {} /\ Title(how, b) = m}
      BY <2>1
    <3> QED
      <4>1. RawTotals(how, tree, m) = Cardinality({b \in tree : IsRaw(how, b) /\ Title(how, b) = m})
        BY <1>1, RawTotalsCount DEF tree
      <4>2. Collect(how, tree, m) = Cardinality({b \in tree : Children(how, b) = {} /\ Title(how, b) = m})
        BY <1>1, CollectCount DEF tree
      <4> QED
        BY <3>1, <4>1, <4>2
  <2> QED
    BY <1>4, <1>5, <2>2
<1> QED
  BY <1>7, <1>8 DEF lines, logged

\* raw_totals adds up every leaf marked raw, once for each branch it ends, and the
\* total of render._collect is the same wherever the recipes of the tree state amounts.
THEOREM TotalsCorrect == Spec => []TotalsCountEveryLeaf
<1>1. TypeOK => TotalsCountEveryLeaf
  BY TotalsCount DEF TotalsCountEveryLeaf
<1> QED
  BY <1>1, TypeCorrect, PTL

-----------------------------------------------------------------------------

LEMMA DoneAlways == Spec => []Done
  BY AlwaysInv, DoneInit, DoneStep, PTL DEF Spec

LEMMA AlwaysStored == Spec => []Stored
  BY AlwaysInv, AlwaysOneGraph, DoneAlways, StoredInit, StoredStep, PTL DEF Spec

\* Of a well loaded graph, recipe_tree stops where the profile or the graph says
\* that an item is raw, goes on to all amounted ingredients of one recipe of the
\* graph, and the prompt says "the chain loops here" of a branch if it does.
THEOREM LeavesAreRawCorrect == Spec => []LeavesAreRaw
  BY AlwaysInv, DoneAlways, AlwaysStored, LeavesRaw, PTL

\* What recipe_tree walks, consumers_of finds in the other direction, and what
\* looks wrong in a tree is in the report of `graph check`, for any corpus and
\* after any loads.
THEOREM QueriesAgreeCorrect == Spec => []QueriesAgree
  BY AlwaysInv, AlwaysOneGraph, AlwaysStored, QueriesDoAgree, PTL
=============================================================================
