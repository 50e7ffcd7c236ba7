------------------------------ MODULE Chunking -------------------------------
(***************************************************************************)
(* Articles into passages: Chunker (index/chunk.py) with the settings of   *)
(* the profile (config.py, IndexConfig).                                   *)
(*                                                                         *)
(* Cleaned prose is its paragraphs, a paragraph its sentences, a sentence  *)
(* its length in characters: what the splitter tells apart.  An article is *)
(* [lead, sections]; a section has the level and name of its heading, its  *)
(* prose, and the links of its markup (mention templates among them).      *)
(***************************************************************************)
EXTENDS Naturals, Sequences, SequencesExt, FiniteSets

CONSTANTS
    Articles,       \* bound: the articles there may be
    MaxTokens,      \* max_tokens of the profile
    MinChars,       \* min_chars
    DropSections,   \* drop_sections
    NotArticles,    \* link targets _NON_ARTICLE_PREFIX matches
    Canonical,      \* the redirects: a link target to the title it stands for
    Known           \* entity ids of titles with facts; none known: any is kept

CharsPerToken == 4

\* No paragraph is blank, and the splitter leaves no sentence out of one.
Prose == Seq(Seq(Nat) \ {<<>>})

ASSUME ChunkingAssumption ==
    /\ MaxTokens \in Nat \ {0} /\ MinChars \in Nat
    /\ \A a \in Articles :
           /\ a.lead.prose \in Prose /\ a.sections \in Seq(ToSet(a.sections))
           /\ \A i \in DOMAIN a.sections : a.sections[i].level \in 2..6 /\ a.sections[i].prose \in Prose

-----------------------------------------------------------------------------
(* Lengths.                                                                *)

Sum(s) == FoldSeq(+, 0, s)

\* estimate_tokens.
Tokens(chars) == IF chars < 2 * CharsPerToken THEN 1 ELSE chars \div CharsPerToken

\* Sentences are joined by a space, and paragraphs by a blank line.
Chars(paragraph) == Sum(paragraph) + Len(paragraph) - 1
TextChars(text) == Sum([i \in DOMAIN text |-> Chars(text[i])]) + 2 * (Len(text) - 1)

-----------------------------------------------------------------------------
(* Splitting.  A text is a sequence of parts, a part of sentences.         *)

Nothing == [packed |-> <<>>, current |-> <<>>, size |-> 0]

\* One turn of the loop of _pack.
Take(taken, part) ==
    LET cost == Tokens(Chars(part))
        full == taken.current # <<>> /\ taken.size + cost > MaxTokens
    IN  [packed |-> IF full THEN Append(taken.packed, taken.current) ELSE taken.packed,
         current |-> IF full THEN <<part>> ELSE Append(taken.current, part),
         size |-> IF full THEN cost ELSE taken.size + cost]

\* _pack: the groups, each a text.
Pack(parts) ==
    LET end == FoldLeft(Take, Nothing, parts)
    IN  IF end.current = <<>> THEN end.packed ELSE Append(end.packed, end.current)

\* _paragraphs: one over budget is split by sentence.
Parts(paragraph) ==
    IF Tokens(Chars(paragraph)) <= MaxTokens THEN <<paragraph>>
    ELSE LET groups == Pack([i \in DOMAIN paragraph |-> <<paragraph[i]>>])
         IN  [g \in DOMAIN groups |-> FlattenSeq(groups[g])]

\* _split_to_budget.
SplitToBudget(text) ==
    IF text = <<>> THEN <<>>
    ELSE IF Tokens(TextChars(text)) <= MaxTokens THEN <<text>>
    ELSE Pack(FlattenSeq([i \in DOMAIN text |-> Parts(text[i])]))

-----------------------------------------------------------------------------
(* Sections.                                                               *)

PushOnly(path, heading) == Append(path, heading.name)               \* mutant

\* The walk of _sections: `del path[level - 2:]`, which cuts nothing from a path
\* shorter than that, then append.
Push(path, heading) ==
    LET kept == IF heading.level - 2 < Len(path) THEN heading.level - 2 ELSE Len(path)
    IN  Append(SubSeq(path, 1, kept), heading.name)

Path(article, i) == FoldLeft(Push, <<>>, SubSeq(article.sections, 1, i))

Part(path, of) == [path |-> path, prose |-> of.prose, links |-> of.links]

\* _sections: the lead, under no heading, and the sections.
Sections(article) ==
    <<Part(<<>>, article.lead)>>
        \o [i \in DOMAIN article.sections |-> Part(Path(article, i), article.sections[i])]

\* _is_dropped: any heading on the way.
IsDropped(path) == ToSet(path) \cap DropSections # {}

\* One link of _mentions: what it resolves to, if the graph knows it, once.
Mention(named, link) ==
    LET entity == Canonical[link]
    IN  IF \/ link \in NotArticles
           \/ Known # {} /\ entity \notin Known
           \/ entity \in ToSet(named)
        THEN named ELSE Append(named, entity)

\* _mentions, in the order of the links.
Mentions(links) == FoldLeft(Mention, <<>>, links)

\* The passages of a section.  The floor is for the section, not for its pieces.
SectionChunks(section) ==
    IF \/ IsDropped(section.path)
       \/ section.prose = <<>> \/ TextChars(section.prose) < MinChars
    THEN <<>>
    ELSE LET texts == SplitToBudget(section.prose)
         IN  [i \in DOMAIN texts |->
                 [path |-> section.path, text |-> texts[i], mentions |-> Mentions(section.links)]]

\* chunk_page.  The id of a chunk is its page and its place here.
ChunkPage(article) ==
    LET sections == Sections(article)
    IN  FlattenSeq([i \in DOMAIN sections |-> SectionChunks(sections[i])])

-----------------------------------------------------------------------------
(* What a reader of a passage relies on.                                   *)

\* Headings go down a level at a time, from the top.
Regular(article) ==
    \A i \in DOMAIN article.sections :
        article.sections[i].level <= (IF i = 1 THEN 2 ELSE article.sections[i - 1].level + 1)

\* The headings a section stands under: those no later heading is level with or above.
Trail(article, i) ==
    LET level(j) == article.sections[j].level
        above == {j \in 1..i : \A k \in (j + 1)..i : level(k) > level(j)}
        nth(n) == CHOOSE j \in above : Cardinality({k \in above : k <= j}) = n
    IN  [n \in 1..Cardinality(above) |-> article.sections[nth(n)].name]

\* Each sentence of a text, with the headings over it.
Said(path, text) ==
    LET sentences == FlattenSeq(text) IN [i \in DOMAIN sentences |-> <<path, sentences[i]>>]

Author(article) ==
    LET said(path, prose) ==
            IF IsDropped(path) \/ prose = <<>> \/ TextChars(prose) < MinChars THEN <<>> ELSE Said(path, prose)
    IN  said(<<>>, article.lead.prose)
            \o FlattenSeq([i \in DOMAIN article.sections |->
                               said(Trail(article, i), article.sections[i].prose)])

\* Every sentence, but for the sections that are dropped or too short, is in
\* exactly one passage, in the author's order, under the headings it stands under.
KeepsTheProse(article, chunks) ==
    FlattenSeq([n \in DOMAIN chunks |-> Said(chunks[n].path, chunks[n].text)]) = Author(article)

\* "each within the token budget" (_split_to_budget) is not so, as _pack adds up
\* rounded estimates of parts without their separators; but no passage is more
\* than nine quarters of the budget, unless it is one sentence.
IsBounded(text) == 4 * Tokens(TextChars(text)) <= 9 * MaxTokens \/ Len(FlattenSeq(text)) = 1

\* What is retrieved is what was written: the passages are the article, where its
\* headings are regular, in pieces of a bounded size.
HoldTheArticle(article) ==
    \A chunks \in {ChunkPage(article)} :
        /\ Regular(article) => KeepsTheProse(article, chunks)
        /\ \A n \in DOMAIN chunks : IsBounded(chunks[n].text)
=============================================================================
