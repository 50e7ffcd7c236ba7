----------------------------- MODULE Extraction ------------------------------
(***************************************************************************)
(* Facts from infobox pages: TemplateExtractor (extract/template.py), with *)
(* the classification rules of the profile (config.py).                    *)
(*                                                                         *)
(* An infobox is a type and the parameters it carries, each with what its  *)
(* parser makes of it: Broken if the parser raises.  Quantities are left   *)
(* out; whether a fact states one is not.                                  *)
(***************************************************************************)
EXTENDS Naturals, Sequences

CONSTANTS
    Titles,     \* titles of infobox pages, without the namespace
    Names,      \* whatever a page may refer to: Titles and more
    TypeMap,    \* the profile's type_map: prototype-type -> labels
    TypeRules,  \* its type_rules: a sequence of [present, emit]
    Broken,     \* a value its parser raises ValueError over
    NoPage,
    NoTitle

Labels == {"Item", "Fluid", "Recipe", "Station", "Unlock"}

ASSUME ExtractionAssumption ==
    /\ Titles \subseteq Names
    /\ \A type \in DOMAIN TypeMap : TypeMap[type] \subseteq Labels
    /\ TypeRules \in Seq([present : SUBSET STRING, emit : SUBSET Labels])
    /\ NoTitle \notin Names

\* The profile's fields that hold a list of names, and what each is mapped to.
ListPredicate ==
    [producers |-> "CRAFTED_AT", consumers |-> "CONSUMED_BY", effects |-> "UNLOCKS",
     cost |-> "COSTS", required |-> "REQUIRES", allows |-> "ALLOWS"]

\* rel.* facts name a page, prop.* facts do not.
References == {ListPredicate[f] : f \in DOMAIN ListPredicate} \cup {"CONSUMES", "PRODUCES"}
Attributes == {"crafting_time", "stack_size"}

Fact ==
    LET Of(predicates, objects) ==
            [subject : Titles, labels : SUBSET Labels, predicate : predicates,
             object : objects, amount : BOOLEAN]
    IN  Of(References, Names) \cup Of(Attributes, {NoTitle})

-----------------------------------------------------------------------------
\* The least of a set of numbers, none of an empty one: what a search finds first.
First(S) == {i \in S : \A j \in S : i <= j}

\* InfoboxConfig.classify: the type map, else the first rule whose parameters
\* are all there, parsed or not.  No labels: not classified, or ignored.
Matching(page) == {i \in DOMAIN TypeRules : TypeRules[i].present \subseteq DOMAIN page.params}

Classify(page) ==
    IF page.type \in DOMAIN TypeMap THEN TypeMap[page.type]
    ELSE UNION {TypeRules[i].emit : i \in First(Matching(page))}

\* _recipe_facts: without an output side, a recipe makes its own page.
OutputsOf(t, recipe) == IF recipe.outputs = {} THEN {t} ELSE recipe.outputs

\* _facts_for_field.  A field that cannot be parsed yields nothing, and takes
\* nothing else of the page with it.
FieldFacts(t, labels, field, value) ==
    LET fact(predicate, object, amount) ==
            [subject |-> t, labels |-> labels, predicate |-> predicate,
             object |-> object, amount |-> amount]
    IN  IF value = Broken THEN {}
        ELSE IF field = "recipe"
        THEN {fact("crafting_time", NoTitle, FALSE)}
                 \cup {fact("CONSUMES", o, TRUE) : o \in value.inputs}
                 \cup {fact("PRODUCES", o, TRUE) : o \in OutputsOf(t, value)}
        ELSE IF field \in DOMAIN ListPredicate
        THEN {fact(ListPredicate[field], o, field = "cost") : o \in value}
        ELSE {fact("stack_size", NoTitle, FALSE)}

\* _extract_page.
PageFacts(t, page) ==
    IF Classify(page) = {} THEN {}
    ELSE UNION {FieldFacts(t, Classify(page), f, page.params[f]) : f \in DOMAIN page.params}

\* extract.
ExtractedFacts(pages) ==
    UNION {PageFacts(t, pages[t]) : t \in {t \in Titles : pages[t] # NoPage}}
=============================================================================
