------------------------------- MODULE MCIndex -------------------------------
(* Retrieval while two builds rewrite a wiki of two pages, Chunking over     *)
(* small articles, Measures over small indexes, and EntityNames over a graph  *)
(* of up to four nodes.                                                      *)
EXTENDS Measures, EntityNames, Embedding

CONSTANTS b1, b2, b3, b4, none

Piece(prose, links) == [prose |-> prose, links |-> links]
Section(level, name, prose) == [level |-> level, name |-> name, prose |-> prose, links |-> <<>>]
Article(lead, sections) == [lead |-> lead, sections |-> sections]
SeqsOf(S, n) == UNION {[1..k -> S] : k \in 1..n}

\* Leads of a paragraph of up to four sentences, or of up to two shorter
\* paragraphs; articles of up to two sections.
MCLeads == {Article(Piece(text, <<>>), <<>>) :
                text \in SeqsOf(SeqsOf({7, 30}, 2), 2) \cup {<<p>> : p \in SeqsOf({3, 11, 30}, 4)}}
MCSections == {Section(level, name, <<<<7>>, <<7>>, <<7>>>>) : level \in 2..4, name \in {"use", "See also"}}
MCSectioned == {Article(Piece(<<>>, <<>>), s) : s \in SeqsOf(MCSections, 2)}

Iron == <<"file", "ore", "iron", "iron">>
Stub == Article(Piece(<<<<3>>>>, Iron), <<>>)
Short == Article(Piece(<<<<9>>>>, Iron), <<>>)
Long == Article(Piece(<<<<9>>, <<20>>>>, <<>>), <<>>)

MCArticles == MCLeads \cup MCSectioned \cup {Stub, Short, Long}
MCCanonical == [file |-> "file", ore |-> "iron", iron |-> "iron"]

\* b1 and b2 rebuild "w", over what b3 left of it, or over what b4 left of "v",
\* whose vectors are wider.
MCWikiOf == [b \in {b1, b2, b3, b4} |-> IF b = b4 THEN "v" ELSE "w"]
MCWidthOf == [b \in {b1, b2, b3, b4} |-> IF b = b4 THEN 2 ELSE 1]
MCPages == [w |-> {1, 2}, v |-> {3}]
MCVersions == <<{Long}, {none, Short}, {Short}>>

\* An API that answers in any order, or leaves an answer out, or makes one too wide.
Item(i, w) == [index |-> i, width |-> w]
MCAnswers == {[n \in 1..2 |-> IF n = 1 THEN <<Item(1, 1)>> ELSE two] :
                  two \in {<<Item(1, 1), Item(2, 1)>>, <<Item(2, 1), Item(1, 1)>>, <<Item(2, 1)>>,
                           <<Item(2, 1), Item(1, 2)>>}}

\* What the model says: a lookup and a search, each trusted or not.
MCDecided == [intent : {"graph", "vector"}, template : {NoTemplate, "recipe_tree", "tier_compare"},
              entities : SUBSET {"iron"}, confident : BOOLEAN]

\* Indexes of up to three chunks of two pages, one of them labeled in two ways.
MCCasefold == [Iron |-> "iron", iron |-> "iron", Ore |-> "ore"]
MCIndexes == {<<>>, <<"Ore">>, <<"Iron", "Ore">>, <<"Ore", "Iron", "Ore">>}
MCQueries == [n \in 0..3 |-> [relevant : {{"iron"}, {"Ore"}, {"Iron", "Ore"}}, score : [1..n -> 0..1]]]
MCLatencies == SeqsOf(1..3, 4)
MCLabels == {[intent |-> "graph", template |-> "recipe_tree"], [intent |-> "both", template |-> NoTemplate],
             [intent |-> "vector", template |-> NoTemplate]}

\* Two nodes share a title but for its case, one has the title of another as an
\* alias; "flurbo engine" is invented, and "?" leaves nothing to search for.
MCNode(id, title, aliases, labels) == [id |-> id, title |-> title, aliases |-> aliases, labels |-> labels]
MCTerms == ("Iron plate" :> {"iron", "plate"}) @@ ("iron plate" :> {"iron", "plate"})
               @@ ("Engine unit" :> {"engine", "unit"}) @@ ("plate" :> {"plate"})
               @@ ("unit" :> {"unit"}) @@ ("flurbo engine" :> {"flurbo", "engine"}) @@ ("?" :> {})
               @@ ("" :> {})
MCNames == DOMAIN MCTerms
MCLower == [name \in MCNames |-> IF name = "Iron plate" THEN "iron plate" ELSE name]
MCStripped == [name \in MCNames |-> name] @@ (" plate" :> "plate") @@ (" " :> "")
MCGraphs == SUBSET {MCNode(1, "Iron plate", {"plate"}, 1), MCNode(2, "iron plate", {"unit"}, 2),
                    MCNode(3, "Engine unit", {}, 1), MCNode(4, "plate", {"iron plate"}, 1)}
MCRanks == {rank \in [1..4 -> 0..1] : rank[1] = rank[3] /\ rank[2] = rank[4]}
MCAsked == SeqsOf({"Iron plate", " plate", "unit", "flurbo engine", "?", " "}, 2)
=============================================================================
