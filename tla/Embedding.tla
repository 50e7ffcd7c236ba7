------------------------------ MODULE Embedding -------------------------------
(***************************************************************************)
(* Passages into vectors: _embed (index/build.py), and a hosted provider,  *)
(* which takes a batch in several requests and is answered in any order    *)
(* (VoyageEmbedder, index/embed.py).                                       *)
(*                                                                         *)
(* A vector is [of, width]: the text it is the vector of, and its length.  *)
(***************************************************************************)
EXTENDS IndexBuild, Sorting

CONSTANTS
    Batch,        \* _BATCH: texts of a call of embed_documents
    RequestSize,  \* batch_size: texts of a request
    Dimensions,   \* what the provider advertises
    Answers       \* bound: the API, [number of texts -> sequence of [index, width]]

\* The API may leave a text out, and never answers twice for one.
ASSUME EmbeddingAssumption ==
    /\ {Batch, RequestSize, Dimensions} \subseteq Nat \ {0}
    /\ \A answer \in Answers : \A n \in 1..RequestSize :
           /\ n \in DOMAIN answer /\ answer[n] \in Seq(ToSet(answer[n]))
           /\ \A i, j \in DOMAIN answer[n] :
                  /\ answer[n][i].index \in 1..n
                  /\ answer[n][i].index = answer[n][j].index => i = j

\* range(0, len(s), size): the slices, the last one shorter.
Slices(s, size) ==
    [k \in {k \in 1..Len(s) : (k - 1) * size < Len(s)} |->
        SubSeq(s, (k - 1) * size + 1, IF k * size < Len(s) THEN k * size ELSE Len(s))]

\* _post: one request.
Post(texts, answer) ==
    LET items == answer[Len(texts)]
        order == SortedBy([i \in DOMAIN items |-> items[i].index])
        vector(item) == [of |-> texts[item.index], width |-> item.width]
    IN  [i \in DOMAIN items |-> vector(items[order[i]])]

EmbedDocuments(texts, answer) ==
    LET requests == Slices(texts, RequestSize)
    IN  FlattenSeq([k \in DOMAIN requests |-> Post(requests[k], answer)])

Vectors(batch, answer) == EmbedDocuments([i \in DOMAIN batch |-> batch[i].text], answer)

\* A ValueError: zip is strict, and the width is what was promised.
IsRefused(batch, answer) ==
    LET vectors == Vectors(batch, answer)
    IN  Len(vectors) # Len(batch) \/ \E i \in DOMAIN vectors : vectors[i].width # Dimensions

Zipped(batch, answer) ==
    LET vectors == Vectors(batch, answer)
    IN  [i \in DOMAIN batch |-> [chunk |-> batch[i], embedding |-> vectors[i]]]

\* _embed: all of them, or nothing, as the error ends the build.
Embed(chunks, answer) ==
    LET batches == Slices(chunks, Batch)
    IN  IF \E k \in DOMAIN batches : IsRefused(batches[k], answer) THEN {}
        ELSE {FlattenSeq([k \in DOMAIN batches |-> Zipped(batches[k], answer)])}

-----------------------------------------------------------------------------
\* The API answers for every text, with the width it was asked for.
Complete(answer) ==
    \A n \in 1..RequestSize : Len(answer[n]) = n /\ \A i \in 1..n : answer[n][i].width = Dimensions

\* A passage is found by a vector of its own text, of the width of the column,
\* whatever order the answers came in; one that is missing or too wide is noticed.
HaveTheirVectors(chunks, answer) ==
    /\ Complete(answer) => Embed(chunks, answer) # {}
    /\ \A embedded \in Embed(chunks, answer) :
         /\ [n \in DOMAIN embedded |-> embedded[n].chunk] = chunks
         /\ \A n \in DOMAIN chunks :
              embedded[n].embedding = [of |-> chunks[n].text, width |-> Dimensions]

ArticlesAreHeld == \A a \in Articles : HoldTheArticle(a)
PassagesHaveTheirVectors ==
    \A chunks \in {ChunkPage(a) : a \in Articles} : \A answer \in Answers :
        HaveTheirVectors(chunks, answer)

\* What is indexed is what was written: whatever articles a build that starts now
\* will read, their passages are the articles, in pieces of a bounded size, each to
\* be found by what it says.
IndexHoldsTheArticle ==
    (\E b \in Builds : build[b] = "new") => ArticlesAreHeld /\ PassagesHaveTheirVectors
=============================================================================
