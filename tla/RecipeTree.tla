----------------------------- MODULE RecipeTree ------------------------------
(***************************************************************************)
(* What is asked of the loaded graph: recipe_tree and raw_totals           *)
(* (ontology/recipe_tree.py), the two renderings of a tree                 *)
(* (retrieve/graph.py, answer/render.py), and `graph check`                *)
(* (ontology/check.py).                                                    *)
(*                                                                         *)
(* A node of a tree is the branch that leads to it: the CONSUMES           *)
(* relationships walked from the root, one per row of _INGREDIENTS.        *)
(* Quantities are left out, so a total counts the leaves it adds up.       *)
(***************************************************************************)
EXTENDS GraphLoad, SequencesExt

CONSTANTS
    MaxDepth,        \* the greatest max_depth a tree is asked with
    MaxRenderDepth,  \* MAX_RENDER_DEPTH
    RawItems         \* what raw_items, of the profile, may be

ASSUME RecipeTreeAssumption ==
    /\ {MaxDepth, MaxRenderDepth} \subseteq Nat /\ RawItems \subseteq SUBSET Names
    /\ IsFiniteSet(Names)

Max2(a, b) == IF a < b THEN b ELSE a

-----------------------------------------------------------------------------
(* The queries.                                                            *)

\* The ids of the recipes that produce a node of this id.
Producers(id) ==
    {e.from.id : e \in {e \in edges : e.type = "PRODUCES" /\ "Recipe" \in e.from.labels /\ e.to.id = id}}

OwnRecipe(title) == {RecipeTitle[t] : t \in Titles \cap {title}}

RecipeForOwnOnly(title) == Producers(title) \cap OwnRecipe(title)   \* mutant

\* _FIND_RECIPE: the recipe named after the item, else one of the others (the
\* lowest id; ids are not ordered here).  At most one.
RecipeFor(title) ==
    LET made == Producers(title)
        own == made \cap OwnRecipe(title)
    IN  IF own # {} THEN own ELSE IF made = {} THEN {} ELSE {CHOOSE r \in made : TRUE}

\* _INGREDIENTS: of whatever has the recipe's id, those that state an amount.
Ingredients(recipe) == {e \in edges : e.type = "CONSUMES" /\ e.from.id = recipe /\ e.amount}

TitleOf(key) == (CHOOSE n \in nodes : Key(n) = key).title

-----------------------------------------------------------------------------
(* The walk.  how is what recipe_tree is called with: [root, raw, depth].  *)

Title(how, branch) == IF branch = <<>> THEN how.root ELSE TitleOf(Last(branch).to)

OnPath(how, branch) == {Title(how, SubSeq(branch, 1, i)) : i \in 0..(Len(branch) - 1)}

\* The branch goes no further: a repeated item, or the depth bound.
Truncated(how, branch) ==
    /\ Title(how, branch) \notin how.raw
    /\ Title(how, branch) \in OnPath(how, branch) \/ Len(branch) >= how.depth

IsRaw(how, branch) ==
    \/ Title(how, branch) \in how.raw
    \/ Truncated(how, branch)
    \/ RecipeFor(Title(how, branch)) = {}

Children(how, branch) ==
    IF IsRaw(how, branch) THEN {}
    ELSE {Append(branch, e) : e \in UNION {Ingredients(r) : r \in RecipeFor(Title(how, branch))}}

\* Every node of the tree.
Tree(how) ==
    LET level[d \in 0..how.depth] ==
            IF d = 0 THEN {<<>>} ELSE UNION {Children(how, b) : b \in level[d - 1]}
    IN  UNION {level[d] : d \in 0..how.depth}

Here(how, branch, material) == IF Title(how, branch) = material THEN 1 ELSE 0

RawTotalsOverwritten(how, tree, material) ==                        \* mutant: = instead of +=
    LET total[b \in tree] ==
            IF IsRaw(how, b) THEN Here(how, b, material)
            ELSE FoldFunctionOnSet(Max2, 0, total, Children(how, b))
    IN  total[<<>>]

\* raw_totals: how much of a material the leaves marked raw add up to.
RawTotals(how, tree, material) ==
    LET total[b \in tree] ==
            IF IsRaw(how, b) THEN Here(how, b, material)
            ELSE SumFunctionOnSet(total, Children(how, b))
    IN  total[<<>>]

\* render._collect: the same of the nodes without children, marked raw or not.
Collect(how, tree, material) ==
    LET total[b \in tree] ==
            IF Children(how, b) = {} THEN Here(how, b, material)
            ELSE SumFunctionOnSet(total, Children(how, b))
    IN  total[<<>>]

-----------------------------------------------------------------------------
(* The two renderings.  A line names its branch and says why it ends there. *)

\* retrieve/graph.py, into the log and the budget.
LoggedLines(how) ==
    {[of |-> b, note |-> IF Truncated(how, b) THEN "cycle"
                         ELSE IF IsRaw(how, b) THEN "raw" ELSE "none"] : b \in Tree(how)}

LoggedTotal(how) == LET tree == Tree(how) IN [material \in {n.title : n \in nodes} |-> RawTotals(how, tree, material)]

\* answer/render.py, into the prompt: _walk returns below MAX_RENDER_DEPTH.
ShownLines(how) == {line \in LoggedLines(how) : Len(line.of) <= MaxRenderDepth}

ShownTotal(how) == LET tree == Tree(how) IN [material \in {n.title : n \in nodes} |-> Collect(how, tree, material)]

-----------------------------------------------------------------------------
(* consumers_of, and check_graph.                                          *)

Recipes == {n \in nodes : "Recipe" \in n.labels}
Orphans == {n.id : n \in {n \in nodes : \A e \in edges : Key(n) \notin {e.from, e.to}}}
MissingInputs == {n.id : n \in {n \in Recipes : \A e \in edges : ~(e.from = Key(n) /\ e.type = "CONSUMES")}}
MissingOutputs == {n.id : n \in {n \in Recipes : \A e \in edges : ~(e.from = Key(n) /\ e.type = "PRODUCES")}}

SelfCyclesBackwards ==                                             \* mutant
    {<<c.from.id, c.to.id>> : c \in
        {c \in edges : /\ c.type = "CONSUMES" /\ "Recipe" \in c.from.labels
                       /\ \E p \in edges : p.type = "PRODUCES" /\ p.to = c.from /\ p.from = c.to}}

\* A recipe that consumes what it produces.
SelfCycles ==
    {<<c.from.id, c.to.id>> : c \in
        {c \in edges : /\ c.type = "CONSUMES" /\ "Recipe" \in c.from.labels
                       /\ \E p \in edges : p.type = "PRODUCES" /\ p.from = c.from /\ p.to = c.to}}

\* consumers_of.cypher: a row per recipe and amount, with all that is made of it; the
\* amount may be unstated.  Never as many rows as LIMIT lets through.
ConsumersOf(id) ==
    LET used == {c \in edges : c.type = "CONSUMES" /\ "Recipe" \in c.from.labels /\ c.to.id = id}
        row(c) == {d.from : d \in {d \in used : d.amount = c.amount /\ TitleOf(d.from) = TitleOf(c.from)}}
        titles(c, type) == {TitleOf(e.to) : e \in {e \in edges : e.type = type /\ e.from \in row(c)}}
    IN  {[recipe |-> TitleOf(c.from), amount |-> c.amount,
          produces |-> titles(c, "PRODUCES"), stations |-> titles(c, "CRAFTED_AT")] : c \in used}

\* `graph check` resolves the corpus again, and asks the graph that was loaded.
CheckGraph ==
    [orphans |-> Orphans, recipes_missing_inputs |-> MissingInputs,
     recipes_missing_outputs |-> MissingOutputs, self_cycles |-> SelfCycles,
     unresolved |-> Unresolved(corpus)]

-----------------------------------------------------------------------------
\* The trees that may be asked of the store: entities are nodes of it.
Asked == [root : {n.title : n \in nodes}, raw : RawItems, depth : 1..MaxDepth]

\* A well loaded graph whose ids are its titles: _tree looks up "wiki:title".
IdsAreTitles == outcome = "ok" /\ \A n \in nodes : n.id = n.title

\* What the graph that was loaded says makes an item: a recipe of it.
Makers(title) ==
    {e \in graph.edges : /\ e.type = "PRODUCES" /\ e.to = title
                         /\ \E n \in graph.nodes : n.id = e.from /\ "Recipe" \in n.labels}

\* The walk stops for a reason, and it is the reason the reader is told: a leaf
\* that is not cut short is a raw item of the profile, or no recipe in the graph
\* that was loaded produces it; where the walk goes on, it goes on to each
\* amounted ingredient of one recipe of the graph; and a line in the prompt that
\* says "the chain loops here" ends a branch that does, although the depth bound
\* leaves the same mark, as long as the prompt is cut before the walk.
LeavesAreRaw ==
    IdsAreTitles /\ ~mixed => \A how \in Asked :
        /\ \A b \in Tree(how) :
             /\ IsRaw(how, b) /\ ~Truncated(how, b) => Title(how, b) \in how.raw \/ Makers(Title(how, b)) = {}
             /\ ~IsRaw(how, b) =>
                  \E m \in Makers(Title(how, b)) :
                     {Title(how, c) : c \in Children(how, b)}
                         = {e.to : e \in {e \in graph.edges : e.type = "CONSUMES" /\ e.from = m.from /\ e.amount}}
        /\ how.depth > MaxRenderDepth =>
             \A line \in ShownLines(how) :
                line.note = "cycle" <=> \E i \in 0..(Len(line.of) - 1) :
                    /\ Title(how, SubSeq(line.of, 1, i)) = Title(how, line.of)
                    /\ Title(how, line.of) \notin how.raw

\* The total counts every leaf, however many branches use its material, and the
\* total that the reader is shown is the one that was logged and budgeted, unless
\* a recipe of the tree states no amount of anything: its product then has no
\* children, and is a raw material to the one rendering and nothing to the other.
TotalsCountEveryLeaf ==
    outcome = "ok" => \A how \in Asked :
        LET lines == LoggedLines(how)
            logged == LoggedTotal(how)
            stated == \A line \in lines : line.note # "none" \/ Children(how, line.of) # {}
        IN  /\ \A material \in DOMAIN logged :
                   logged[material]
                       = Cardinality({l \in lines : l.note # "none" /\ Title(how, l.of) = material})
            /\ stated => ShownTotal(how) = logged

\* The ingredient that the branch ends with is one of a node with the label of
\* recipes: it is not, if the node had others when an earlier load brought it in.
OfRecipe(branch) == "Recipe" \in Last(branch).from.labels

\* The queries agree.  consumers_of is "the inverse of recipe_tree's own direction":
\* a recipe that a tree goes through is among the consumers of each of its ingredients,
\* for the product that the tree needs it for.  What looks wrong in a tree is in the
\* report of `graph check`: a branch that comes back to an item at once, and a recipe
\* that needs nothing, unless it is only known to need something; and the report has
\* nothing that a tree shows to be right.
QueriesAgree ==
    IdsAreTitles => LET report == CheckGraph IN
        \A how \in Asked : \A b \in Tree(how) :
            /\ b # <<>> /\ (mixed => OfRecipe(b)) =>
                 \E row \in ConsumersOf(Last(b).to.id) :
                    row.recipe = TitleOf(Last(b).from) /\ row.amount /\ Title(how, Front(b)) \in row.produces
            /\ b # <<>> /\ ~mixed => Last(b).to.id \notin report.orphans
            /\ b # <<>> /\ (mixed => OfRecipe(b)) /\ Title(how, b) = Title(how, Front(b)) =>
                   <<Last(b).from.id, Last(b).to.id>> \in report.self_cycles
            /\ ~IsRaw(how, b) => RecipeFor(Title(how, b)) \cap report.recipes_missing_outputs = {}
            /\ ~IsRaw(how, b) /\ Children(how, b) = {} =>
                   \/ RecipeFor(Title(how, b)) \subseteq report.recipes_missing_inputs
                   \/ \E e \in edges : /\ e.from.id \in RecipeFor(Title(how, b))
                                       /\ e.type = "CONSUMES" /\ ~e.amount
=============================================================================
