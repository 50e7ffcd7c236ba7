----------------------------- MODULE Resolution ------------------------------
(***************************************************************************)
(* Facts into a graph: EntityResolver (ontology/resolve.py) with           *)
(* TitleCanonicalizer (ontology/canonical.py).                             *)
(*                                                                         *)
(* A corpus c is what the resolver reads, [fact, redirect]; redirect is    *)
(* the lookup that folds redirects and aliases, one step deep, and titles  *)
(* that differ in case are one.  A node id is a name.  Properties are left *)
(* out, but for the title and whether an edge states an amount.            *)
(***************************************************************************)
EXTENDS Extraction

CONSTANTS
    RecipeTitle,  \* a title with the profile's recipe_suffix
    Suffixed      \* a name with each of its reference_suffixes, a sequence

ASSUME ResolutionAssumption ==
    /\ RecipeTitle \in [Titles -> Names]
    /\ \A t, u \in Titles : RecipeTitle[t] = RecipeTitle[u] => t = u
    /\ Suffixed \in [Names -> Seq(Names)]

RecipeAspect == {"crafting_time", "CONSUMES", "PRODUCES", "CRAFTED_AT"}

\* TitleCanonicalizer.canonical.
Canonical(c, name) == IF c.redirect[name] = NoTitle THEN name ELSE c.redirect[name]

-----------------------------------------------------------------------------
(* Pass 1: what each title is.  Titles are looked up as they are: a page   *)
(* whose own title is redirected is a subject nobody can refer to.         *)

Subjects(c) == {f.subject : f \in c.fact}
LabelsOf(c, t) == (CHOOSE f \in c.fact : f.subject = t).labels
IsUnlock(c, t) == t \in Subjects(c) /\ "Unlock" \in LabelsOf(c, t)
HasRecipe(c, t) == \E f \in c.fact : f.subject = t /\ f.predicate \in RecipeAspect

ItemId(c, t) == Canonical(c, t)
RecipeId(c, t) == IF "Recipe" \in LabelsOf(c, t) THEN ItemId(c, t) ELSE Canonical(c, RecipeTitle[t])

-----------------------------------------------------------------------------
(* Pass 2: nodes.                                                          *)

ItemNode(c, t) == [id |-> ItemId(c, t), labels |-> LabelsOf(c, t), title |-> t]
RecipeNode(c, t) == [id |-> RecipeId(c, t), labels |-> {"Recipe"}, title |-> RecipeTitle[t]]

\* A page that is an item and carries its own recipe becomes two nodes.
PageNodes(c, t) ==
    {ItemNode(c, t)} \cup (IF HasRecipe(c, t) /\ RecipeId(c, t) # ItemId(c, t)
                           THEN {RecipeNode(c, t)} ELSE {})

-----------------------------------------------------------------------------
(* Pass 3: edges, and the references that name nothing.                    *)

Edge(from, type, to, amount) == [from |-> from, type |-> type, to |-> to, amount |-> amount]

Target(c, f) == Canonical(c, f.object)
Resolves(c, f) == Target(c, f) \in Subjects(c)

\* _lookup_unlock: the first of the title and its suffixed forms that is a technology.
FollowOn(c, name) ==
    LET candidates == <<name>> \o Suffixed[name]
        hits == {i \in DOMAIN candidates : IsUnlock(c, Canonical(c, candidates[i]))}
    IN  {Canonical(c, candidates[i]) : i \in First(hits)}

AllowsEdgesForwards(c, f) ==                                        \* mutant
    {Edge(ItemId(c, f.subject), "REQUIRES", ItemId(c, u), FALSE) :
         u \in IF IsUnlock(c, f.subject) THEN FollowOn(c, Target(c, f)) ELSE {}}

\* "A allows B" is "B requires A", between technologies.
AllowsEdges(c, f) ==
    {Edge(ItemId(c, u), "REQUIRES", ItemId(c, f.subject), FALSE) :
         u \in IF IsUnlock(c, f.subject) THEN FollowOn(c, Target(c, f)) ELSE {}}

\* "X is consumed by Y": the recipe of Y consumes X, no amount known.
ConsumedByEdges(c, f) ==
    IF Resolves(c, f) /\ HasRecipe(c, Target(c, f))
    THEN {Edge(RecipeId(c, Target(c, f)), "CONSUMES", ItemId(c, f.subject), FALSE)}
    ELSE {}

\* A requirement is an edge between technologies only; the others are dropped.
RequiresEdges(c, f) ==
    IF IsUnlock(c, f.subject) /\ IsUnlock(c, Target(c, f))
    THEN {Edge(ItemId(c, f.subject), "REQUIRES", ItemId(c, Target(c, f)), FALSE)}
    ELSE {}

From(c, f) ==
    IF f.predicate \in RecipeAspect THEN RecipeId(c, f.subject) ELSE ItemId(c, f.subject)

ToRecipeAlways(c, f) ==                                             \* mutant
    IF f.predicate = "UNLOCKS" THEN RecipeId(c, Target(c, f)) ELSE ItemId(c, Target(c, f))

\* UNLOCKS points at a recipe, where there is one.
To(c, f) ==
    IF f.predicate = "UNLOCKS" /\ HasRecipe(c, Target(c, f))
    THEN RecipeId(c, Target(c, f)) ELSE ItemId(c, Target(c, f))

RelationEdges(c, f) ==
    IF Resolves(c, f) THEN {Edge(From(c, f), f.predicate, To(c, f), f.amount)} ELSE {}

Relations == {"CONSUMES", "PRODUCES", "CRAFTED_AT", "UNLOCKS", "COSTS"}

EdgesOf(c, f) ==
    IF f.predicate = "ALLOWS" THEN AllowsEdges(c, f)
    ELSE IF f.predicate = "CONSUMED_BY" THEN ConsumedByEdges(c, f)
    ELSE IF f.predicate = "REQUIRES" THEN RequiresEdges(c, f)
    ELSE IF f.predicate \in Relations THEN RelationEdges(c, f) ELSE {}

\* What `keep` makes of them: one edge per ends and type, an amount if any fact states it.
ResolvedEdges(c) ==
    LET all == UNION {EdgesOf(c, f) : f \in c.fact}
    IN  {e \in all : e.amount \/ [e EXCEPT !.amount = TRUE] \notin all}

IsUnresolvedSilently(c, f) ==                                       \* mutant
    /\ f.predicate \in Relations /\ ~Resolves(c, f)

IsUnresolved(c, f) ==
    \/ f.predicate = "ALLOWS" /\ FollowOn(c, Target(c, f)) = {}
    \/ f.predicate = "CONSUMED_BY" /\ ~(Resolves(c, f) /\ HasRecipe(c, Target(c, f)))
    \/ f.predicate \in Relations /\ ~Resolves(c, f)

Unresolved(c) ==
    {[subject |-> f.subject, predicate |-> f.predicate, object |-> Target(c, f)] :
         f \in {f \in c.fact : IsUnresolved(c, f)}}

\* _add_station_label.
Stations(c) == {e.to : e \in {e \in ResolvedEdges(c) : e.type = "CRAFTED_AT"}}

ResolvedNodes(c) ==
    LET plain == UNION {PageNodes(c, t) : t \in Subjects(c)}
    IN  {[n EXCEPT !.labels = IF n.id \in Stations(c) THEN @ \cup {"Station"} ELSE @] : n \in plain}

Resolve(c) == [nodes |-> ResolvedNodes(c), edges |-> ResolvedEdges(c)]
=============================================================================
