----------------------------- MODULE IndexBuild ------------------------------
(***************************************************************************)
(* The chunk table: `ragtorio index build` (cli.py, index/build.py,        *)
(* index/postgres.py), run by several people at once, with providers of    *)
(* several widths, and killed anywhere.                                    *)
(*                                                                         *)
(* Postgres at its default, READ COMMITTED: a statement sees what was      *)
(* committed when it began; who deletes or inserts a row another           *)
(* transaction has touched waits for that one to end, and an id that is    *)
(* then there twice is refused.  ALTER TABLE waits for everybody else.  Of *)
(* two that wait for each other one is thrown out.  A vector of another    *)
(* width than the column's is refused.                                     *)
(***************************************************************************)
EXTENDS Chunking

CONSTANTS
    Builds,      \* the runs of index build
    WikiOf,      \* the wiki a build is for
    WidthOf,     \* the width its provider advertises
    Pages,       \* page ids of each wiki: [wiki -> set]
    Versions,    \* bound: what the article of a page may be when it is read
    Earlier,     \* builds that may have run before, and do not run now
    NoArticle    \* a page that is not there, or that is excluded by its title

ASSUME IndexBuildAssumption ==
    /\ WikiOf \in [Builds -> DOMAIN Pages]
    /\ WidthOf \in [Builds -> Nat \ {0}]
    /\ Earlier \subseteq Builds
    /\ \A b, c \in Earlier : WikiOf[b] = WikiOf[c] => b = c
    /\ \A w \in DOMAIN Pages : \A p \in Pages[w] : Versions[p] \subseteq Articles \cup {NoArticle}

VARIABLES
    chunk,     \* the committed rows: [wiki, page, n, passage, by]
    width,     \* of chunk.embedding
    build,     \* where each build is
    made,      \* the rows it has embedded
    seen,      \* the rows its DELETE is about to remove
    deleted, inserted  \* its transaction

vars == <<chunk, width, build, made, seen, deleted, inserted>>

Row(w, p, n, passage, by) == [wiki |-> w, page |-> p, n |-> n, passage |-> passage, by |-> by]

\* chunk_id, the primary key.
Id(r) == <<r.wiki, r.page, r.n>>
Ids(rows) == {Id(r) : r \in rows}
OfWiki(rows, w) == {r \in rows : r.wiki = w}

\* What build b makes of its wiki, where each page has the given article.
Embedded(b, article) ==
    UNION {LET passages == IF article[p] = NoArticle THEN <<>> ELSE ChunkPage(article[p])
           IN  {Row(WikiOf[b], p, n, passages[n], b) : n \in DOMAIN passages} :
               p \in Pages[WikiOf[b]]}

Places == {"new", "made", "resize", "write", "delete", "insert", "commit", "done", "ended"}

\* The builds that hold a lock on the table, until their transaction ends.
Locking == {b \in Builds : build[b] \in {"resize", "delete", "insert", "commit"}}

\* Until the transaction of c ends: ALTER TABLE wants the table for itself, DELETE
\* a row that c has deleted, INSERT an id that c has inserted or deleted.
WaitsFor(b, c) ==
    /\ c # b
    /\ \/ build[b] = "resize" /\ c \in Locking
       \/ build[b] = "delete" /\ seen[b] \cap deleted[c] # {}
       \/ build[b] = "insert" /\ Ids(made[b]) \cap Ids(inserted[c] \cup deleted[c]) # {}

Waits(b) == \E c \in Builds : WaitsFor(b, c)

\* What the articles of a wiki's pages may be when they are read.
Readings(w) ==
    {a \in [Pages[w] -> UNION {Versions[p] : p \in Pages[w]}] : \A p \in Pages[w] : a[p] \in Versions[p]}

\* A column of some width, and what builds of that width have made before.
Init ==
    /\ width \in {WidthOf[b] : b \in Builds}
    /\ \E ran \in SUBSET {b \in Earlier : WidthOf[b] = width} :
         /\ build = [b \in Builds |-> IF b \in ran THEN "done" ELSE "new"]
         /\ \E read \in [ran -> UNION {Readings(WikiOf[b]) : b \in ran}] :
              /\ \A b \in ran : read[b] \in Readings(WikiOf[b])
              /\ made = [b \in Builds |-> IF b \in ran THEN Embedded(b, read[b]) ELSE {}]
    /\ chunk = UNION {made[b] : b \in Builds}
    /\ seen = [b \in Builds |-> {}]
    /\ deleted = [b \in Builds |-> {}]
    /\ inserted = [b \in Builds |-> {}]

Go(b, place) == build' = [build EXCEPT ![b] = place]

EndInTheTransaction(b) ==                                           \* mutant: not rolled back
    /\ Go(b, "ended")
    /\ made' = [made EXCEPT ![b] = {}]
    /\ seen' = [seen EXCEPT ![b] = {}]
    /\ UNCHANGED <<deleted, inserted>>

\* The process is over, what it held is gone, and its transaction rolled back.
End(b) ==
    /\ Go(b, "ended")
    /\ made' = [made EXCEPT ![b] = {}]
    /\ seen' = [seen EXCEPT ![b] = {}]
    /\ deleted' = [deleted EXCEPT ![b] = {}]
    /\ inserted' = [inserted EXCEPT ![b] = {}]

-----------------------------------------------------------------------------
\* build_index: read the pages as they are, chunk them, embed them.  Nothing is
\* written; with --dry-run, or if a vector is not as wide as the provider says,
\* that is all.
Make(b) ==
    /\ build[b] = "new" /\ b \notin Earlier
    /\ \/ End(b)
       \/ /\ \E a \in Readings(WikiOf[b]) : made' = [made EXCEPT ![b] = Embedded(b, a)]
          /\ Go(b, "made")
          /\ UNCHANGED <<seen, deleted, inserted>>
    /\ UNCHANGED <<chunk, width>>

\* ensure_embedding_dimension, up to its count: over rows of any wiki it raises.
Check(b) ==
    /\ build[b] = "made"
    /\ IF width # WidthOf[b] /\ chunk # {} THEN End(b)
       ELSE /\ Go(b, IF width = WidthOf[b] THEN "write" ELSE "resize")
            /\ UNCHANGED <<made, seen, deleted, inserted>>
    /\ UNCHANGED <<chunk, width>>

\* DROP INDEX, ALTER, CREATE INDEX, COMMIT: once the lock is there, nobody sees
\* what is between.  Rows that were committed since the count are refused.
Resize(b) ==
    /\ build[b] = "resize" /\ ~Waits(b)
    /\ IF chunk = {} \/ width = WidthOf[b]
       THEN width' = WidthOf[b] /\ Go(b, "write") /\ UNCHANGED <<made, seen, deleted, inserted>>
       ELSE UNCHANGED width /\ End(b)
    /\ UNCHANGED chunk

\* Two that wait for each other, as two do that have counted: Postgres picks b.
Deadlock(b) ==
    /\ \E c \in Builds : WaitsFor(b, c) /\ WaitsFor(c, b)
    /\ End(b)
    /\ UNCHANGED <<chunk, width>>

\* replace_all, whose DELETE first finds its rows...
Read(b) ==
    /\ build[b] = "write"
    /\ seen' = [seen EXCEPT ![b] = OfWiki(chunk, WikiOf[b])]
    /\ Go(b, "delete")
    /\ UNCHANGED <<chunk, width, made, deleted, inserted>>

\* ... and then removes those that are still there.
DeleteAndCommit(b) ==                                               \* mutant
    /\ build[b] = "delete" /\ ~Waits(b)
    /\ chunk' = chunk \ seen[b]
    /\ seen' = [seen EXCEPT ![b] = {}]
    /\ Go(b, "insert")
    /\ UNCHANGED <<width, made, deleted, inserted>>

Delete(b) ==
    /\ build[b] = "delete" /\ ~Waits(b)
    /\ deleted' = [deleted EXCEPT ![b] = seen[b] \cap chunk]
    /\ seen' = [seen EXCEPT ![b] = {}]
    /\ Go(b, "insert")
    /\ UNCHANGED <<chunk, width, made, inserted>>

\* The rows that are there, or do not fit the column, are refused.
Refused(b) ==
    \/ Ids(chunk \ deleted[b]) \cap Ids(made[b]) # {}
    \/ made[b] # {} /\ width # WidthOf[b]

\* The rows are inserted, in the order of their ids.
Insert(b) ==
    /\ build[b] = "insert" /\ ~Waits(b)
    /\ IF Refused(b) THEN End(b)
       ELSE /\ Go(b, "commit")
            /\ inserted' = [inserted EXCEPT ![b] = made[b]]
            /\ UNCHANGED <<made, seen, deleted>>
    /\ UNCHANGED <<chunk, width>>

Commit(b) ==
    /\ build[b] = "commit"
    /\ chunk' = (chunk \ deleted[b]) \cup inserted[b]
    /\ deleted' = [deleted EXCEPT ![b] = {}]
    /\ inserted' = [inserted EXCEPT ![b] = {}]
    /\ Go(b, "done")
    /\ UNCHANGED <<width, made, seen>>

\* The process dies, or its connection.
Kill(b) ==
    /\ build[b] \notin {"new", "done", "ended"}
    /\ End(b)
    /\ UNCHANGED <<chunk, width>>

Step(b) ==
    \/ Check(b) \/ Resize(b) \/ Deadlock(b)
    \/ Read(b) \/ Delete(b) \/ Insert(b) \/ Commit(b)

Build(b) == Make(b) \/ Step(b) \/ Kill(b)

Next == \E b \in Builds : Build(b)

Spec == Init /\ [][Next]_vars

FairSpec == Spec /\ \A b \in Builds \ Earlier : WF_vars(Step(b))

-----------------------------------------------------------------------------
\* Each wiki has a page that is an article whenever it is read, so that any two
\* builds of a wiki have a passage of the same id.
LastingArticle ==
    \A w \in DOMAIN Pages :
        \E p \in Pages[w] : \A v \in Versions[p] : v # NoArticle /\ 1 \in DOMAIN ChunkPage(v)

\* cli.py: "replaces every chunk stored for this wiki".  What is stored for a
\* wiki is all that one build made of it, however many ran at once, against each
\* other, or died on the way: never a mixture, a part, or nothing for something.
OneBuild ==
    LastingArticle =>
        \A w \in DOMAIN Pages :
            LET written == {b \in Builds : WikiOf[b] = w /\ build[b] = "done"}
            IN  IF written = {} THEN OfWiki(chunk, w) = {}
                ELSE \E b \in written : OfWiki(chunk, w) = made[b]

\* A build that is not killed ends, though builds wait for each other.
BuildsEnd == \A b \in Builds \ Earlier : build[b] = "made" ~> build[b] \in {"done", "ended"}
=============================================================================
