----------------------------- MODULE EntityNames ------------------------------
(***************************************************************************)
(* The names that the router's model said, as nodes of the loaded graph:   *)
(* GraphEntityResolver (retrieve/entities.py), over Neo4j's two lookups    *)
(* and its full-text index.                                                *)
(*                                                                         *)
(* A node is [id, title, aliases, labels], labels how many it has; ids are *)
(* ordered as numbers.  rank is the score a node gets if a search finds it.*)
(***************************************************************************)
EXTENDS Retrieval

CONSTANTS
    Blank,      \* what a mention of nothing but spaces strips to
    Stripped,   \* str.strip of a mention
    Lower,      \* toLower of a name
    Terms,      \* the terms of a name: what Lucene's syntax leaves of it
    MinScore,   \* MIN_SEARCH_SCORE
    Graphs,     \* bound: the nodes of the graph
    Ranks,      \* bound: the scores
    Asked       \* bound: the mentions of one decision

ASSUME EntityNamesAssumption ==
    /\ \A nodes \in Graphs : IsFiniteSet(nodes) /\ \A n \in nodes : n.id \in Nat /\ n.labels \in Nat
    /\ Asked \subseteq Seq(DOMAIN Stripped)

\* LIMIT 1, of rows that nothing puts in an order.
AnyOne(found) == {n \in found : n = CHOOSE m \in found : TRUE}

\* ORDER BY size(labels(n)) DESC, n.id LIMIT 1: at most one.
Best(found) ==
    AnyOne({n \in found : \A m \in found : m.labels < n.labels \/ (m.labels = n.labels /\ n.id <= m.id)})

ByTitle(nodes, name) == Best({n \in nodes : Lower[n.title] = Lower[name]})

ByAlias(nodes, name) == Best({n \in nodes : \E a \in n.aliases : Lower[a] = Lower[name]})

TermsOf(n) == UNION {Terms[text] : text \in {n.title} \cup n.aliases}

FoundByAnyTerm(nodes, name) == {n \in nodes : Terms[name] \cap TermsOf(n) # {}}  \* mutant: OR

\* The full-text index on title and aliases, asked for every term.
FoundByTerms(nodes, name) == {n \in nodes : Terms[name] \subseteq TermsOf(n)}

\* The one with the best score, if that is not noise.
BySearch(nodes, rank, name) ==
    LET found == IF Terms[name] = {} THEN {} ELSE FoundByTerms(nodes, name)
        top == {n \in found : \A m \in found : rank[m.id] <= rank[n.id]}
    IN  {n \in AnyOne(top) : rank[n.id] >= MinScore}

Entity(mention, n, by) == [mention |-> mention, id |-> n.id, matched_by |-> by]

\* _resolve_one: the most certain pass that finds anything.  At most one.
ResolveOne(nodes, rank, name) ==
    IF ByTitle(nodes, name) # {} THEN {Entity(name, n, "title") : n \in ByTitle(nodes, name)}
    ELSE IF ByAlias(nodes, name) # {} THEN {Entity(name, n, "alias") : n \in ByAlias(nodes, name)}
    ELSE {Entity(name, n, "search") : n \in BySearch(nodes, rank, name)}

\* One mention of resolve_all: its entity, unless that is there; or the mention.
AddMention(nodes, rank, sofar, mention) ==
    LET name == Stripped[mention]
        one == ResolveOne(nodes, rank, name)
    IN  IF name = Blank THEN sofar
        ELSE IF one = {}
        THEN IF name \in ToSet(sofar.unresolved) THEN sofar
             ELSE [sofar EXCEPT !.unresolved = Append(@, name)]
        ELSE [sofar EXCEPT !.resolved = @ \o SetToSeq(
                  {e \in one : \A i \in DOMAIN @ : @[i].id # e.id})]

ResolveAll(nodes, rank, mentions) ==
    LET add(sofar, mention) == AddMention(nodes, rank, sofar, mention)
    IN  FoldLeft(add, [resolved |-> <<>>, unresolved |-> <<>>], mentions)

-----------------------------------------------------------------------------
Reads(n, name) == Lower[name] \in {Lower[text] : text \in {n.title} \cup n.aliases}

IdsIn(r) == {r.resolved[i].id : i \in DOMAIN r.resolved}

\* Every mention is an entity or is reported, neither twice and whatever else is
\* mentioned; and what is the title of one node alone is that node, whoever else
\* goes by it.
MentionsAreAccountedFor ==
    \A nodes \in Graphs : \A rank \in Ranks : \A mentions \in Asked :
        LET result == ResolveAll(nodes, rank, mentions)
            alone == {ResolveAll(nodes, rank, <<m>>) : m \in ToSet(mentions)}
        IN  /\ Cardinality(IdsIn(result)) = Len(result.resolved) /\ IsInjective(result.unresolved)
            /\ IdsIn(result) = UNION {IdsIn(r) : r \in alone}
            /\ ToSet(result.unresolved) = UNION {ToSet(r.unresolved) : r \in alone}
            /\ \A n \in nodes : \A m \in ToSet(mentions) :
                   (\A o \in nodes : Stripped[m] # Blank /\ Lower[o.title] = Lower[Stripped[m]] <=> o = n)
                       => n.id \in IdsIn(result)

\* A guess is made, or a mention reported, only if it is nobody's name, and the
\* guess has every term of it.
GuessesAreSound ==
    \A nodes \in Graphs : \A rank \in Ranks : \A mentions \in Asked :
        LET result == ResolveAll(nodes, rank, mentions)
        IN  /\ \A name \in ToSet(result.unresolved) : \A n \in nodes : ~Reads(n, name)
            /\ \A e \in ToSet(result.resolved) : e.matched_by = "search" =>
                   /\ \A n \in nodes : ~Reads(n, e.mention)
                   /\ \E n \in nodes : n.id = e.id /\ Terms[e.mention] \subseteq TermsOf(n)

\* "an invented entity that resolves anyway is worse than one that does not": what
\* the next question names, whatever it is, resolves to what bears the name, or by a
\* guess that nothing contradicts, or is reported.
NamesAreResolvedHonestly == at = "asked" => MentionsAreAccountedFor /\ GuessesAreSound
=============================================================================
