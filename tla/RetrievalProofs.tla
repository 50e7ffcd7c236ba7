--------------------------- MODULE RetrievalProofs ---------------------------
(***************************************************************************)
(* For any number of builds, wikis, pages and widths: what is stored for a *)
(* wiki is one build's, if the wiki has an article that every build finds; *)
(* an id is never there twice; and what a question finds meanwhile.  For    *)
(* any finite graph and any mentions: what the names of a question become. *)
(* For any budget: how long a passage can be, which passages a question is  *)
(* shown, and when it is told that there is no evidence.  For any article: *)
(* that its passages hold what it says, each under its headings, and each  *)
(* stored with the vector of its own text.  For any labels: what is        *)
(* reported of them.                                                       *)
(***************************************************************************)
EXTENDS EntityNames, Measures, Embedding, SequenceFolds

\* An id that is among the passages of every build of the wiki.
Common(w) ==
    CHOOSE i : \A b \in Builds : \A a \in Readings(w) : WikiOf[b] = w => i \in Ids(Embedded(b, a))

Whole(b) ==
    /\ \A r \in made[b] : r.wiki = WikiOf[b] /\ r.by = b
    /\ Common(WikiOf[b]) \in Ids(made[b])

Functions ==
    /\ DOMAIN build = Builds /\ DOMAIN made = Builds /\ DOMAIN seen = Builds
    /\ DOMAIN deleted = Builds /\ DOMAIN inserted = Builds

\* What a build holds where it is.
Held ==
    \A b \in Builds :
        /\ build[b] \in {"made", "resize", "write", "delete", "insert", "commit", "done"} => Whole(b)
        /\ build[b] \notin {"insert", "commit"} => deleted[b] = {}
        /\ inserted[b] = IF build[b] = "commit" THEN made[b] ELSE {}

\* The rows a DELETE has found are all of one build that was committed.
SeenWhole ==
    \A b \in Builds :
        \/ seen[b] = {}
        \/ \E d \in Builds : build[d] = "done" /\ WikiOf[d] = WikiOf[b] /\ seen[b] = made[d]

Stored ==
    \A w \in DOMAIN Pages :
        \/ /\ OfWiki(chunk, w) = {}
           /\ \A b \in Builds : WikiOf[b] = w => build[b] # "done"
        \/ \E d \in Builds : build[d] = "done" /\ WikiOf[d] = w /\ OfWiki(chunk, w) = made[d]

\* A DELETE removes all that is stored, or nothing, and only one build does;
\* one whose rows are in has removed all.
Deletions ==
    /\ \A b \in Builds : deleted[b] = {} \/ deleted[b] = OfWiki(chunk, WikiOf[b])
    /\ \A b, c \in Builds : b # c => deleted[b] \cap deleted[c] = {}
    /\ \A b \in Builds : build[b] = "commit" => deleted[b] = OfWiki(chunk, WikiOf[b])

OneCommits ==
    \A b, c \in Builds :
        build[b] = "commit" /\ build[c] = "commit" /\ WikiOf[b] = WikiOf[c] => b = c

IInv == Functions /\ Held /\ SeenWhole /\ Stored /\ Deletions /\ OneCommits

-----------------------------------------------------------------------------
LEMMA EmbeddedRows ==
  ASSUME NEW b \in Builds, NEW a
  PROVE  \A r \in Embedded(b, a) : r.wiki = WikiOf[b] /\ r.by = b
BY DEF Embedded, Row

\* Where every build finds an article, they have an id in common.
LEMMA CommonId ==
  ASSUME LastingArticle, NEW b \in Builds, NEW a \in Readings(WikiOf[b])
  PROVE  Common(WikiOf[b]) \in Ids(Embedded(b, a))
<1> DEFINE w == WikiOf[b]
<1>1. w \in DOMAIN Pages
  BY IndexBuildAssumption DEF IndexBuildAssumption
<1>2. PICK p \in Pages[w] : \A v \in Versions[p] : v # NoArticle /\ 1 \in DOMAIN ChunkPage(v)
  BY <1>1 DEF LastingArticle
<1>3. ASSUME NEW c \in Builds, NEW d \in Readings(w), WikiOf[c] = w
      PROVE  <<w, p, 1>> \in Ids(Embedded(c, d))
  <2>1. d[p] # NoArticle /\ 1 \in DOMAIN ChunkPage(d[p])
    BY <1>2 DEF Readings
  <2> DEFINE cut == IF d[p] = NoArticle THEN <<>> ELSE ChunkPage(d[p])
  <2>2. cut = ChunkPage(d[p])
    BY <2>1
  <2>3. Row(w, p, 1, cut[1], c) \in {Row(WikiOf[c], p, n, cut[n], c) : n \in DOMAIN cut}
    BY <2>1, <2>2, <1>3
  <2>4. Row(w, p, 1, cut[1], c) \in Embedded(c, d)
    BY <2>3, <1>3 DEF Embedded
  <2>5. Id(Row(w, p, 1, cut[1], c)) = <<w, p, 1>>
    BY DEF Id, Row
  <2> QED
    BY <2>4, <2>5 DEF Ids
<1>4. \A c \in Builds : \A d \in Readings(w) : WikiOf[c] = w => <<w, p, 1>> \in Ids(Embedded(c, d))
  BY <1>3
<1>5. \A c \in Builds : \A d \in Readings(w) : WikiOf[c] = w => Common(w) \in Ids(Embedded(c, d))
  BY <1>4 DEF Common
<1> QED
  BY <1>5

LEMMA IInvInit ==
  ASSUME LastingArticle, Init
  PROVE  IInv
<1>1. PICK ran \in SUBSET {b \in Earlier : WidthOf[b] = width} :
         /\ build = [b \in Builds |-> IF b \in ran THEN "done" ELSE "new"]
         /\ \E read \in [ran -> UNION {Readings(WikiOf[b]) : b \in ran}] :
              /\ \A b \in ran : read[b] \in Readings(WikiOf[b])
              /\ made = [b \in Builds |-> IF b \in ran THEN Embedded(b, read[b]) ELSE {}]
  BY DEF Init
<1>2. DOMAIN made = Builds
  BY <1>1
<1>3. \A b \in Builds :
          IF b \in ran THEN made[b] \in {Embedded(b, a) : a \in Readings(WikiOf[b])} ELSE made[b] = {}
  BY <1>1
<1>4. \A b \in ran : b \in Builds /\ (\A c \in ran : WikiOf[b] = WikiOf[c] => b = c)
  BY IndexBuildAssumption DEF IndexBuildAssumption
<1>5. \A b \in ran : Whole(b)
  BY <1>4, <1>3, CommonId, EmbeddedRows DEF Whole
<1>6. Functions
  BY <1>1, <1>2 DEF Init, Functions
<1>7. Held /\ SeenWhole /\ OneCommits
  BY <1>1, <1>5, <1>3 DEF Init, Held, SeenWhole, OneCommits
<1>8. \A b \in Builds : \A r \in made[b] : b \in ran /\ r.wiki = WikiOf[b]
  BY <1>5, <1>3 DEF Whole
<1>9. chunk = UNION {made[b] : b \in Builds}
  BY DEF Init
<1>10. Stored
  <2> SUFFICES ASSUME NEW w \in DOMAIN Pages
               PROVE  \/ /\ OfWiki(chunk, w) = {}
                         /\ \A b \in Builds : WikiOf[b] = w => build[b] # "done"
                      \/ \E d \in Builds : build[d] = "done" /\ WikiOf[d] = w /\ OfWiki(chunk, w) = made[d]
    BY DEF Stored
  <2>1. CASE \E d \in ran : WikiOf[d] = w
    <3>1. PICK d \in ran : WikiOf[d] = w
      BY <2>1
    <3>2. d \in Builds /\ build[d] = "done"
      BY <1>1, <1>4, <3>1
    <3>3. \A r : r \in OfWiki(chunk, w) <=> r \in made[d]
      BY <1>4, <1>8, <1>9, <3>1, <3>2 DEF OfWiki
    <3>4. OfWiki(chunk, w) = made[d]
      BY <3>3 DEF OfWiki
    <3> QED
      BY <3>1, <3>2, <3>4
  <2>2. CASE ~\E d \in ran : WikiOf[d] = w
    BY <1>1, <1>8, <1>9, <2>2, <1>3 DEF OfWiki
  <2> QED
    BY <2>1, <2>2
<1>11. Deletions
  BY <1>1 DEF Init, Deletions
<1> QED
  BY <1>6, <1>7, <1>10, <1>11 DEF IInv

\* A step of b that neither commits nor takes anything new.
LEMMA QuietKeeps ==
  ASSUME IInv, NEW b \in Builds, chunk' = chunk, Functions', Held',
         \A c \in Builds : c # b => /\ build'[c] = build[c] /\ made'[c] = made[c]
                                   /\ seen'[c] = seen[c] /\ deleted'[c] = deleted[c],
         build[b] # "done", build'[b] \notin {"done", "commit"},
         seen'[b] \in {{}, seen[b]}, deleted'[b] \in {{}, deleted[b]}
  PROVE  IInv'
<1>1. \A d \in Builds : build[d] = "done" => build'[d] = "done" /\ made'[d] = made[d]
  BY DEF IInv
<1>2. \A d \in Builds : build'[d] = "done" => build[d] = "done"
  BY DEF IInv
<1>3. SeenWhole'
  BY <1>1 DEF IInv, SeenWhole
<1>4. Stored'
  BY <1>1, <1>2 DEF IInv, Stored, OfWiki
<1>5. Deletions'
  BY DEF IInv, Deletions, OfWiki
<1>6. OneCommits'
  BY DEF IInv, OneCommits
<1> QED
  BY <1>3, <1>4, <1>5, <1>6 DEF IInv

LEMMA EndKeeps ==
  ASSUME IInv, NEW b \in Builds, End(b), build[b] # "done", chunk' = chunk
  PROVE  IInv'
<1>1. Functions'
  BY DEF IInv, Functions, End, Go
<1>2. \A c \in Builds : c # b => /\ build'[c] = build[c] /\ made'[c] = made[c]
                                /\ seen'[c] = seen[c] /\ deleted'[c] = deleted[c] /\ inserted'[c] = inserted[c]
  BY DEF IInv, Functions, End, Go
<1>3. build'[b] = "ended" /\ seen'[b] = {} /\ deleted'[b] = {} /\ inserted'[b] = {}
  BY DEF IInv, Functions, End, Go
<1>4. ASSUME NEW c \in Builds
      PROVE  /\ build'[c] \in {"made", "resize", "write", "delete", "insert", "commit", "done"} => Whole(c)'
             /\ build'[c] \notin {"insert", "commit"} => deleted'[c] = {}
             /\ inserted'[c] = IF build'[c] = "commit" THEN made'[c] ELSE {}
  <2>1. CASE c = b
    BY <1>3, <2>1
  <2>2. CASE c # b
    <3>1. Whole(c) => Whole(c)'
      BY <1>2, <2>2 DEF Whole
    <3> QED
      BY <1>2, <2>2, <3>1 DEF IInv, Held
  <2> QED
    BY <2>1, <2>2
<1>5. Held'
  BY <1>4 DEF Held
<1> QED
  BY <1>1, <1>2, <1>3, <1>5, QuietKeeps

\* Nothing but the place changes, and no transaction is left.
LEMMA GoKeeps ==
  ASSUME IInv, NEW b \in Builds, NEW place \in {"made", "resize", "write"}, Go(b, place),
         build[b] \notin {"done", "insert", "commit"}, Whole(b)',
         DOMAIN made' = Builds, \A c \in Builds : c # b => made'[c] = made[c],
         UNCHANGED <<chunk, seen, deleted, inserted>>
  PROVE  IInv'
<1>1. Functions'
  BY DEF IInv, Functions, Go
<1>2. build'[b] = place /\ \A c \in Builds : c # b => build'[c] = build[c]
  BY DEF IInv, Functions, Go
<1>3. deleted[b] = {} /\ inserted[b] = {}
  BY DEF IInv, Held
<1>4. \A c \in Builds : c # b /\ Whole(c) => Whole(c)'
  BY DEF Whole
<1>5. place \notin {"insert", "commit"}
  OBVIOUS
<1>6. ASSUME NEW c \in Builds
      PROVE  /\ build'[c] \in {"made", "resize", "write", "delete", "insert", "commit", "done"} => Whole(c)'
             /\ build'[c] \notin {"insert", "commit"} => deleted'[c] = {}
             /\ inserted'[c] = IF build'[c] = "commit" THEN made'[c] ELSE {}
  <2>1. CASE c = b
    BY <1>2, <1>3, <1>5, <2>1
  <2>2. CASE c # b
    BY <1>2, <1>4, <2>2 DEF IInv, Held
  <2> QED
    BY <2>1, <2>2
<1>7. Held'
  BY <1>6 DEF Held
<1> QED
  BY <1>1, <1>2, <1>5, <1>7, QuietKeeps

LEMMA ReadKeeps ==
  ASSUME IInv, NEW b \in Builds, Read(b)
  PROVE  IInv'
<1>1. Functions'
  BY DEF IInv, Functions, Read, Go
<1>2. /\ build[b] = "write" /\ build'[b] = "delete" /\ seen'[b] = OfWiki(chunk, WikiOf[b])
      /\ \A c \in Builds : c # b => build'[c] = build[c] /\ seen'[c] = seen[c]
      /\ UNCHANGED <<chunk, made, deleted, inserted>>
  BY DEF IInv, Functions, Read, Go
<1>3. Held'
  BY <1>2 DEF IInv, Held, Whole
<1>4. WikiOf[b] \in DOMAIN Pages
  BY IndexBuildAssumption DEF IndexBuildAssumption
<1>5. seen'[b] = {} \/ \E d \in Builds : build[d] = "done" /\ WikiOf[d] = WikiOf[b] /\ seen'[b] = made[d]
  BY <1>2, <1>4 DEF IInv, Stored
<1>6. \A d \in Builds : build[d] = "done" <=> build'[d] = "done"
  BY <1>2
<1>7. SeenWhole'
  BY <1>2, <1>5, <1>6 DEF IInv, SeenWhole
<1>8. Stored'
  BY <1>2, <1>6 DEF IInv, Stored, OfWiki
<1>9. Deletions' /\ OneCommits'
  BY <1>2 DEF IInv, Deletions, OneCommits, OfWiki
<1> QED
  BY <1>1, <1>3, <1>7, <1>8, <1>9 DEF IInv

\* What a DELETE removes is all that is stored, or nothing of it.
LEMMA SeenIsAllOrGone ==
  ASSUME IInv, NEW b \in Builds
  PROVE  seen[b] \cap chunk = {} \/ seen[b] \cap chunk = OfWiki(chunk, WikiOf[b])
<1> SUFFICES ASSUME seen[b] \cap chunk # {}
             PROVE  seen[b] \cap chunk = OfWiki(chunk, WikiOf[b])
  OBVIOUS
<1>1. PICK d \in Builds : build[d] = "done" /\ WikiOf[d] = WikiOf[b] /\ seen[b] = made[d]
  BY DEF IInv, SeenWhole
<1>2. Whole(d)
  BY <1>1 DEF IInv, Held
<1>3. PICK r \in seen[b] : r \in chunk
  OBVIOUS
<1>4. r.wiki = WikiOf[b] /\ r.by = d
  BY <1>1, <1>2, <1>3 DEF Whole
<1>5. r \in OfWiki(chunk, WikiOf[b]) /\ WikiOf[b] \in DOMAIN Pages
  BY <1>3, <1>4, IndexBuildAssumption DEF OfWiki, IndexBuildAssumption
<1>6. PICK e \in Builds : build[e] = "done" /\ OfWiki(chunk, WikiOf[b]) = made[e]
  BY <1>5 DEF IInv, Stored
<1>7. Whole(e)
  BY <1>6 DEF IInv, Held
<1>8. d = e
  BY <1>4, <1>5, <1>6, <1>7 DEF Whole
<1>9. OfWiki(chunk, WikiOf[b]) \subseteq chunk
  BY DEF OfWiki
<1> QED
  BY <1>1, <1>6, <1>8, <1>9

LEMMA DeleteKeeps ==
  ASSUME IInv, NEW b \in Builds, Delete(b)
  PROVE  IInv'
<1>1. Functions'
  BY DEF IInv, Functions, Delete, Go
<1>2. /\ build[b] = "delete" /\ ~Waits(b) /\ build'[b] = "insert"
      /\ seen'[b] = {} /\ deleted'[b] = seen[b] \cap chunk
      /\ \A c \in Builds : c # b => build'[c] = build[c] /\ seen'[c] = seen[c] /\ deleted'[c] = deleted[c]
      /\ UNCHANGED <<chunk, made, inserted>>
  BY DEF IInv, Functions, Delete, Go
<1>3. Held'
  BY <1>2 DEF IInv, Held, Whole
<1>4. \A d \in Builds : build[d] = "done" <=> build'[d] = "done"
  BY <1>2
<1>5. SeenWhole' /\ Stored'
  BY <1>2, <1>4 DEF IInv, SeenWhole, Stored, OfWiki
<1>6. \A c \in Builds : c # b => seen[b] \cap deleted[c] = {}
  BY <1>2 DEF Waits, WaitsFor
<1>7. deleted'[b] = {} \/ deleted'[b] = OfWiki(chunk, WikiOf[b])
  BY <1>2, SeenIsAllOrGone
<1>8. Deletions'
  <2>1. \A c \in Builds : deleted'[c] = {} \/ deleted'[c] = OfWiki(chunk', WikiOf[c])
    BY <1>2, <1>7 DEF IInv, Deletions
  <2>2. \A c, d \in Builds : c # d => deleted'[c] \cap deleted'[d] = {}
    BY <1>2, <1>6 DEF IInv, Deletions
  <2>3. \A c \in Builds : build'[c] = "commit" => deleted'[c] = OfWiki(chunk', WikiOf[c])
    BY <1>2 DEF IInv, Deletions
  <2> QED
    BY <2>1, <2>2, <2>3 DEF Deletions, OfWiki
<1>9. OneCommits'
  BY <1>2 DEF IInv, OneCommits
<1> QED
  BY <1>1, <1>3, <1>5, <1>8, <1>9 DEF IInv

\* Rows are accepted only where all that is stored has been removed: every build
\* has a row of the common id.
LEMMA InsertKeeps ==
  ASSUME IInv, NEW b \in Builds, Insert(b), ~Refused(b)
  PROVE  IInv'
<1> DEFINE w == WikiOf[b]
<1>1. Functions'
  BY DEF IInv, Functions, Insert, Go
<1>2. /\ build[b] = "insert" /\ ~Waits(b) /\ build'[b] = "commit" /\ inserted'[b] = made[b]
      /\ \A c \in Builds : c # b => build'[c] = build[c] /\ inserted'[c] = inserted[c]
      /\ UNCHANGED <<chunk, made, seen, deleted>>
  BY DEF IInv, Functions, Insert, Go
<1>3. Held'
  BY <1>2 DEF IInv, Held, Whole
<1>4. \A d \in Builds : build[d] = "done" <=> build'[d] = "done"
  BY <1>2
<1>5. SeenWhole' /\ Stored'
  BY <1>2, <1>4 DEF IInv, SeenWhole, Stored, OfWiki
<1>6. Common(w) \in Ids(made[b])
  BY <1>2 DEF IInv, Held, Whole
<1>7. w \in DOMAIN Pages
  BY IndexBuildAssumption DEF IndexBuildAssumption
<1>8. deleted[b] = OfWiki(chunk, w)
  <2>1. CASE OfWiki(chunk, w) = {}
    BY <2>1 DEF IInv, Deletions
  <2>2. CASE OfWiki(chunk, w) # {}
    <3>1. PICK d \in Builds : build[d] = "done" /\ WikiOf[d] = w /\ OfWiki(chunk, w) = made[d]
      BY <1>7, <2>2 DEF IInv, Stored
    <3>2. Common(w) \in Ids(made[d])
      BY <3>1 DEF IInv, Held, Whole
    <3>3. PICK r \in made[d] : Id(r) = Common(w)
      BY <3>2 DEF Ids
    <3>4. r \in chunk
      BY <3>1, <3>3 DEF OfWiki
    <3>5. r \in deleted[b]
      BY <1>6, <3>3, <3>4 DEF Refused, Ids
    <3> QED
      BY <3>5 DEF IInv, Deletions
  <2> QED
    BY <2>1, <2>2
<1>9. Deletions'
  BY <1>2, <1>8 DEF IInv, Deletions, OfWiki
<1>10. ASSUME NEW c \in Builds, c # b, build[c] = "commit", WikiOf[c] = w
       PROVE  FALSE
  <2>1. inserted[c] = made[c] /\ Common(w) \in Ids(made[c])
    BY <1>10 DEF IInv, Held, Whole
  <2>2. Common(w) \in Ids(inserted[c] \cup deleted[c])
    BY <2>1 DEF Ids
  <2> QED
    BY <1>2, <1>6, <1>10, <2>2 DEF Waits, WaitsFor
<1>11. OneCommits'
  BY <1>2, <1>10 DEF IInv, OneCommits
<1> QED
  BY <1>1, <1>3, <1>5, <1>9, <1>11 DEF IInv

LEMMA CommitKeeps ==
  ASSUME IInv, NEW b \in Builds, Commit(b)
  PROVE  IInv'
<1> DEFINE w == WikiOf[b]
<1>1. Functions'
  BY DEF IInv, Functions, Commit, Go
<1>2. /\ build[b] = "commit" /\ build'[b] = "done" /\ deleted'[b] = {} /\ inserted'[b] = {}
      /\ \A c \in Builds : c # b => /\ build'[c] = build[c] /\ deleted'[c] = deleted[c]
                                   /\ inserted'[c] = inserted[c]
      /\ chunk' = (chunk \ deleted[b]) \cup inserted[b]
      /\ UNCHANGED <<made, seen>>
  BY DEF IInv, Functions, Commit, Go
<1>3. Held'
  <2>1. \A c \in Builds : Whole(c) => Whole(c)'
    BY <1>2 DEF Whole
  <2>2. Whole(b)
    BY <1>2 DEF IInv, Held
  <2>3. ASSUME NEW c \in Builds
        PROVE  /\ build'[c] \in {"made", "resize", "write", "delete", "insert", "commit", "done"} => Whole(c)'
               /\ build'[c] \notin {"insert", "commit"} => deleted'[c] = {}
               /\ inserted'[c] = IF build'[c] = "commit" THEN made'[c] ELSE {}
    <3>1. CASE c = b
      BY <1>2, <2>1, <2>2, <3>1
    <3>2. CASE c # b
      BY <1>2, <2>1, <3>2 DEF IInv, Held
    <3> QED
      BY <3>1, <3>2
  <2> QED
    BY <2>3 DEF Held
<1>4. inserted[b] = made[b] /\ Whole(b) /\ deleted[b] = OfWiki(chunk, w)
  BY <1>2 DEF IInv, Held, Deletions
<1>5. OfWiki(chunk', w) = made[b]
  BY <1>2, <1>4 DEF Whole, OfWiki
<1>6. \A v : v # w => OfWiki(chunk', v) = OfWiki(chunk, v)
  BY <1>2, <1>4 DEF Whole, OfWiki
<1>7. SeenWhole'
  BY <1>2 DEF IInv, SeenWhole
<1>8. Stored'
  <2> SUFFICES ASSUME NEW v \in DOMAIN Pages
               PROVE  \/ /\ OfWiki(chunk', v) = {}
                         /\ \A c \in Builds : WikiOf[c] = v => build'[c] # "done"
                      \/ \E d \in Builds : build'[d] = "done" /\ WikiOf[d] = v /\ OfWiki(chunk', v) = made'[d]
    BY DEF Stored, OfWiki
  <2>1. CASE v = w
    BY <1>2, <1>5, <2>1
  <2>2. CASE v # w
    <3>1. OfWiki(chunk', v) = OfWiki(chunk, v)
      BY <1>6, <2>2
    <3>2. \A c \in Builds : WikiOf[c] = v => c # b /\ build'[c] = build[c]
      BY <1>2, <2>2
    <3>3. \/ OfWiki(chunk, v) = {} /\ \A c \in Builds : WikiOf[c] = v => build[c] # "done"
          \/ \E d \in Builds : build[d] = "done" /\ WikiOf[d] = v /\ OfWiki(chunk, v) = made[d]
      BY DEF IInv, Stored
    <3> QED
      BY <1>2, <3>1, <3>2, <3>3
  <2> QED
    BY <2>1, <2>2
<1>9. ASSUME NEW c \in Builds, c # b, WikiOf[c] = w
      PROVE  deleted[c] = {}
  BY <1>4, <1>9 DEF IInv, Deletions
<1>10. Deletions'
  <2>1. ASSUME NEW c \in Builds
        PROVE  /\ deleted'[c] = {} \/ deleted'[c] = OfWiki(chunk', WikiOf[c])
               /\ build'[c] = "commit" => deleted'[c] = OfWiki(chunk', WikiOf[c])
    <3>1. CASE c = b
      BY <1>2, <3>1
    <3>2. CASE c # b /\ WikiOf[c] = w
      BY <1>2, <1>9, <3>2 DEF IInv, OneCommits
    <3>3. CASE c # b /\ WikiOf[c] # w
      BY <1>2, <1>6, <3>3 DEF IInv, Deletions
    <3> QED
      BY <3>1, <3>2, <3>3
  <2>2. \A c, d \in Builds : c # d => deleted'[c] \cap deleted'[d] = {}
    BY <1>2 DEF IInv, Deletions
  <2> QED
    BY <2>1, <2>2 DEF Deletions, OfWiki
<1>11. OneCommits'
  BY <1>2 DEF IInv, OneCommits
<1> QED
  BY <1>1, <1>3, <1>7, <1>8, <1>10, <1>11 DEF IInv

LEMMA MakeKeeps ==
  ASSUME LastingArticle, IInv, NEW b \in Builds, Make(b)
  PROVE  IInv'
<1>1. build[b] = "new" /\ UNCHANGED <<chunk, width>>
  BY DEF Make
<1>2. CASE End(b)
  BY <1>1, <1>2, EndKeeps
<1>3. CASE ~End(b)
  <2>1. PICK a \in Readings(WikiOf[b]) : made' = [made EXCEPT ![b] = Embedded(b, a)]
    BY <1>3 DEF Make
  <2>2. Go(b, "made") /\ UNCHANGED <<seen, deleted, inserted>>
    BY <1>3 DEF Make
  <2>3. /\ DOMAIN made' = Builds /\ made'[b] = Embedded(b, a)
        /\ \A c \in Builds : c # b => made'[c] = made[c]
    BY <2>1 DEF IInv, Functions
  <2>4. Whole(b)'
    BY <2>3, CommonId, EmbeddedRows DEF Whole
  <2> QED
    BY <1>1, <2>2, <2>3, <2>4, GoKeeps
<1> QED
  BY <1>2, <1>3

LEMMA StepKeeps ==
  ASSUME IInv, NEW b \in Builds, Step(b)
  PROVE  IInv'
<1>1. CASE Check(b)
  <2>1. build[b] = "made" /\ UNCHANGED <<chunk, width>>
    BY <1>1 DEF Check
  <2>2. CASE End(b)
    BY <2>1, <2>2, EndKeeps
  <2>3. CASE ~End(b)
    <3>1. PICK place \in {"made", "resize", "write"} : Go(b, place)
      BY <1>1, <2>3 DEF Check
    <3>2. UNCHANGED <<made, seen, deleted, inserted>>
      BY <1>1, <2>3 DEF Check
    <3>3. Whole(b) /\ DOMAIN made = Builds
      BY <2>1 DEF IInv, Held, Functions
    <3>4. Whole(b)'
      BY <3>2, <3>3 DEF Whole
    <3> QED
      BY <2>1, <3>1, <3>2, <3>3, <3>4, GoKeeps
  <2> QED
    BY <2>2, <2>3
<1>2. CASE Resize(b)
  <2>1. build[b] = "resize" /\ UNCHANGED chunk
    BY <1>2 DEF Resize
  <2>2. CASE End(b)
    BY <2>1, <2>2, EndKeeps
  <2>3. CASE ~End(b)
    <3>1. Go(b, "write") /\ UNCHANGED <<made, seen, deleted, inserted>>
      BY <1>2, <2>3 DEF Resize
    <3>2. Whole(b) /\ DOMAIN made = Builds
      BY <2>1 DEF IInv, Held, Functions
    <3>3. Whole(b)'
      BY <3>1, <3>2 DEF Whole
    <3> QED
      BY <2>1, <3>1, <3>2, <3>3, GoKeeps
  <2> QED
    BY <2>2, <2>3
<1>3. CASE Deadlock(b)
  <2>1. build[b] # "done" /\ End(b) /\ UNCHANGED <<chunk, width>>
    BY <1>3 DEF Deadlock, WaitsFor
  <2> QED
    BY <2>1, EndKeeps
<1>4. CASE Insert(b)
  <2>1. CASE Refused(b)
    BY <1>4, <2>1, EndKeeps DEF Insert
  <2> QED
    BY <1>4, <2>1, InsertKeeps
<1> QED
  BY <1>1, <1>2, <1>3, <1>4, ReadKeeps, DeleteKeeps, CommitKeeps DEF Step

LEMMA IInvNext ==
  ASSUME LastingArticle, IInv, [Next]_vars
  PROVE  IInv'
<1>1. CASE Next
  <2>1. PICK b \in Builds : Build(b)
    BY <1>1 DEF Next
  <2>2. CASE Kill(b)
    BY <2>2, EndKeeps DEF Kill
  <2> QED
    BY <2>1, <2>2, MakeKeeps, StepKeeps DEF Build
<1>2. CASE UNCHANGED vars
  BY <1>2 DEF vars, IInv, Functions, Held, Whole, SeenWhole, Stored, Deletions, OneCommits, OfWiki
<1> QED
  BY <1>1, <1>2

LEMMA IInvOneBuild == IInv => OneBuild
<1> SUFFICES ASSUME IInv, NEW w \in DOMAIN Pages
             PROVE  LET written == {b \in Builds : WikiOf[b] = w /\ build[b] = "done"}
                    IN  IF written = {} THEN OfWiki(chunk, w) = {}
                        ELSE \E b \in written : OfWiki(chunk, w) = made[b]
  BY DEF OneBuild
<1> QED
  BY DEF IInv, Stored

-----------------------------------------------------------------------------
\* Whatever builds of however many wikis run at once, fail and are killed: the
\* passages stored for a wiki are all of one build, and of one that committed
\* (replace_all, index/postgres.py; build_index).
THEOREM OneBuildCorrect == Spec => []OneBuild
<1>1. CASE LastingArticle
  <2>1. Init => IInv
    BY <1>1, IInvInit
  <2>2. IInv /\ [Next]_vars => IInv'
    BY <1>1, IInvNext
  <2> QED
    BY <2>1, <2>2, IInvOneBuild, PTL DEF Spec
<1>2. CASE ~LastingArticle
  <2>1. OneBuild
    BY <1>2 DEF OneBuild
  <2> QED
    BY <2>1, PTL
<1> QED
  BY <1>1, <1>2

-----------------------------------------------------------------------------
(* An id is never there twice, though nothing is assumed of the articles.  *)

OfOneId(rows) == \A r, s \in rows : Id(r) = Id(s) => r = s

\* What is being committed is of no id that will be there, nor of one that another
\* build commits.
Keyed ==
    /\ OfOneId(chunk)
    /\ DOMAIN build = Builds /\ DOMAIN made = Builds /\ DOMAIN deleted = Builds /\ DOMAIN inserted = Builds
    /\ \A b \in Builds : OfOneId(made[b])
    /\ \A b \in Builds : inserted[b] = IF build[b] = "commit" THEN made[b] ELSE {}
    /\ \A b \in Builds : build[b] = "commit" => Ids(chunk \ deleted[b]) \cap Ids(made[b]) = {}
    /\ \A b, c \in Builds :
           b # c /\ build[b] = "commit" /\ build[c] = "commit" => Ids(made[b]) \cap Ids(made[c]) = {}

LEMMA EmbeddedKeyed ==
  ASSUME NEW b \in Builds, NEW a
  PROVE  OfOneId(Embedded(b, a))
BY DEF Embedded, Row, OfOneId, Id

LEMMA KeyedInit ==
  ASSUME Init
  PROVE  Keyed
<1>1. PICK ran \in SUBSET {b \in Earlier : WidthOf[b] = width} :
         /\ build = [b \in Builds |-> IF b \in ran THEN "done" ELSE "new"]
         /\ \E read \in [ran -> UNION {Readings(WikiOf[b]) : b \in ran}] :
              /\ \A b \in ran : read[b] \in Readings(WikiOf[b])
              /\ made = [b \in Builds |-> IF b \in ran THEN Embedded(b, read[b]) ELSE {}]
  BY DEF Init
<1>2. PICK read : made = [b \in Builds |-> IF b \in ran THEN Embedded(b, read[b]) ELSE {}]
  BY <1>1
<1>3. \A b \in Builds : OfOneId(made[b]) /\ (\A r \in made[b] : b \in ran /\ r.wiki = WikiOf[b])
  BY <1>2, EmbeddedRows, EmbeddedKeyed DEF OfOneId
<1>4. \A b, c \in ran : b \in Earlier /\ (WikiOf[b] = WikiOf[c] => b = c)
  BY IndexBuildAssumption DEF IndexBuildAssumption
<1>5. OfOneId(UNION {made[b] : b \in Builds})
  <2> SUFFICES ASSUME NEW b \in Builds, NEW c \in Builds, NEW r \in made[b], NEW s \in made[c], Id(r) = Id(s)
               PROVE  r = s
    BY DEF OfOneId
  <2>1. r.wiki = s.wiki
    BY DEF Id
  <2>2. b = c
    BY <1>3, <1>4, <2>1
  <2> QED
    BY <1>3, <2>2 DEF OfOneId
<1>6. \A b \in Builds : build[b] # "commit"
  BY <1>1
<1> QED
  BY <1>1, <1>2, <1>3, <1>5, <1>6 DEF Init, Keyed

LEMMA KeyedEnd ==
  ASSUME Keyed, NEW b \in Builds, End(b), chunk' = chunk
  PROVE  Keyed'
<1>1. /\ build'[b] = "ended" /\ made'[b] = {} /\ inserted'[b] = {} /\ deleted'[b] = {}
      /\ \A c \in Builds : c # b => /\ build'[c] = build[c] /\ made'[c] = made[c]
                                    /\ deleted'[c] = deleted[c] /\ inserted'[c] = inserted[c]
      /\ DOMAIN build' = Builds /\ DOMAIN made' = Builds /\ DOMAIN deleted' = Builds /\ DOMAIN inserted' = Builds
  BY DEF Keyed, End, Go
<1>2. \A c \in Builds : OfOneId(made'[c]) /\ (inserted'[c] = IF build'[c] = "commit" THEN made'[c] ELSE {})
  BY <1>1 DEF Keyed, OfOneId
<1>3. \A c \in Builds : build'[c] = "commit" => c # b
  BY <1>1
<1> QED
  BY <1>1, <1>2, <1>3 DEF Keyed, OfOneId, Ids

\* A step that commits nothing and begins no commit.
LEMMA KeyedQuiet ==
  ASSUME Keyed, NEW b \in Builds, chunk' = chunk, inserted' = inserted, NEW place,
         place # "commit", build[b] # "commit", Go(b, place),
         DOMAIN made' = Builds, OfOneId(made'[b]), DOMAIN deleted' = Builds,
         \A c \in Builds : c # b => made'[c] = made[c] /\ deleted'[c] = deleted[c]
  PROVE  Keyed'
<1>1. /\ build'[b] = place /\ inserted[b] = {}
      /\ \A c \in Builds : c # b => build'[c] = build[c]
      /\ DOMAIN build' = Builds
  BY DEF Keyed, Go
<1>2. \A c \in Builds : OfOneId(made'[c]) /\ (inserted'[c] = IF build'[c] = "commit" THEN made'[c] ELSE {})
  BY <1>1 DEF Keyed, OfOneId
<1>3. \A c \in Builds : build'[c] = "commit" => c # b
  BY <1>1
<1> QED
  BY <1>1, <1>2, <1>3 DEF Keyed, OfOneId, Ids

LEMMA KeyedInsert ==
  ASSUME Keyed, NEW b \in Builds, Insert(b), ~Refused(b)
  PROVE  Keyed'
<1>1. /\ build[b] = "insert" /\ ~Waits(b) /\ build'[b] = "commit" /\ inserted'[b] = made[b]
      /\ \A c \in Builds : c # b => build'[c] = build[c] /\ inserted'[c] = inserted[c]
      /\ DOMAIN build' = Builds /\ DOMAIN inserted' = Builds
      /\ UNCHANGED <<chunk, made, deleted>>
  BY DEF Keyed, Insert, Go
<1>2. Ids(chunk \ deleted[b]) \cap Ids(made[b]) = {}
  BY DEF Refused
<1>3. ASSUME NEW c \in Builds, c # b, build[c] = "commit"
      PROVE  Ids(made[b]) \cap Ids(made[c]) = {}
  <2>1. inserted[c] = made[c]
    BY <1>3 DEF Keyed
  <2>2. Ids(made[b]) \cap Ids(inserted[c] \cup deleted[c]) = {}
    BY <1>1, <1>3 DEF Waits, WaitsFor
  <2> QED
    BY <2>1, <2>2 DEF Ids
<1>4. OfOneId(chunk') /\ \A c \in Builds : OfOneId(made'[c])
  BY <1>1 DEF Keyed, OfOneId
<1>5. \A c \in Builds : build'[c] = "commit" => Ids(chunk' \ deleted'[c]) \cap Ids(made'[c]) = {}
  BY <1>1, <1>2 DEF Keyed
<1>6. \A c, d \in Builds :
          c # d /\ build'[c] = "commit" /\ build'[d] = "commit" => Ids(made'[c]) \cap Ids(made'[d]) = {}
  BY <1>1, <1>3 DEF Keyed
<1> QED
  BY <1>1, <1>4, <1>5, <1>6 DEF Keyed, OfOneId, Ids

LEMMA KeyedCommit ==
  ASSUME Keyed, NEW b \in Builds, Commit(b)
  PROVE  Keyed'
<1>1. /\ build[b] = "commit" /\ build'[b] = "done" /\ deleted'[b] = {} /\ inserted'[b] = {}
      /\ \A c \in Builds : c # b => /\ build'[c] = build[c] /\ deleted'[c] = deleted[c]
                                    /\ inserted'[c] = inserted[c]
      /\ DOMAIN build' = Builds /\ DOMAIN deleted' = Builds /\ DOMAIN inserted' = Builds
      /\ UNCHANGED made
  BY DEF Keyed, Commit, Go
<1>2. chunk' = (chunk \ deleted[b]) \cup made[b]
  BY <1>1 DEF Keyed, Commit
<1>3. \A r \in chunk \ deleted[b] : \A s \in made[b] : Id(r) # Id(s)
  BY <1>1 DEF Keyed, Ids
<1>4. OfOneId(chunk')
  BY <1>2, <1>3 DEF Keyed, OfOneId
<1>5. ASSUME NEW c \in Builds, build'[c] = "commit"
      PROVE  Ids(chunk' \ deleted'[c]) \cap Ids(made'[c]) = {}
  <2>1. c # b /\ build[c] = "commit"
    BY <1>1, <1>5
  <2>2. Ids(chunk \ deleted[c]) \cap Ids(made[c]) = {} /\ Ids(made[b]) \cap Ids(made[c]) = {}
    BY <1>1, <2>1 DEF Keyed
  <2> QED
    BY <1>1, <1>2, <2>1, <2>2 DEF Ids
<1>6. \A c \in Builds : OfOneId(made'[c]) /\ (inserted'[c] = IF build'[c] = "commit" THEN made'[c] ELSE {})
  BY <1>1 DEF Keyed, OfOneId
<1>7. \A c, d \in Builds :
          c # d /\ build'[c] = "commit" /\ build'[d] = "commit" => Ids(made'[c]) \cap Ids(made'[d]) = {}
  BY <1>1 DEF Keyed
<1> QED
  BY <1>1, <1>4, <1>5, <1>6, <1>7 DEF Keyed, OfOneId, Ids

LEMMA KeyedNext ==
  ASSUME Keyed, [Next]_vars
  PROVE  Keyed'
<1>1. CASE UNCHANGED vars
  BY <1>1 DEF vars, Keyed, OfOneId, Ids
<1>2. CASE Next
  <2>1. PICK b \in Builds : Build(b)
    BY <1>2 DEF Next
  <2>2. DOMAIN made = Builds /\ DOMAIN deleted = Builds /\ OfOneId(made[b])
    BY DEF Keyed
  <2>3. CASE End(b) /\ UNCHANGED chunk
    BY <2>3, KeyedEnd
  <2>4. CASE Make(b) /\ ~End(b)
    <3>1. PICK a : made' = [made EXCEPT ![b] = Embedded(b, a)]
      BY <2>4 DEF Make
    <3>2. DOMAIN made' = Builds /\ made'[b] = Embedded(b, a) /\ \A c \in Builds : c # b => made'[c] = made[c]
      BY <2>2, <3>1
    <3>3. build[b] # "commit" /\ Go(b, "made") /\ UNCHANGED <<chunk, deleted, inserted>>
      BY <2>4 DEF Make
    <3>4. OfOneId(made'[b])
      BY <3>2, EmbeddedKeyed DEF OfOneId
    <3> QED
      BY <2>2, <3>2, <3>3, <3>4, KeyedQuiet
  <2>5. CASE (Check(b) \/ Resize(b)) /\ ~End(b)
    <3>1. \E place \in {"write", "resize"} : Go(b, place)
      BY <2>5 DEF Check, Resize
    <3>2. build[b] # "commit" /\ UNCHANGED <<chunk, made, deleted, inserted>>
      BY <2>5 DEF Check, Resize
    <3>3. OfOneId(made'[b]) /\ DOMAIN made' = Builds /\ DOMAIN deleted' = Builds
      BY <2>2, <3>2
    <3> QED
      BY <3>1, <3>2, <3>3, KeyedQuiet
  <2>6. CASE Read(b)
    <3>1. build[b] # "commit" /\ Go(b, "delete") /\ UNCHANGED <<chunk, made, deleted, inserted>>
      BY <2>6 DEF Read
    <3>2. OfOneId(made'[b]) /\ DOMAIN made' = Builds /\ DOMAIN deleted' = Builds
      BY <2>2, <3>1
    <3> QED
      BY <3>1, <3>2, KeyedQuiet
  <2>7. CASE Delete(b)
    <3>1. build[b] # "commit" /\ Go(b, "insert") /\ UNCHANGED <<chunk, made, inserted>>
      BY <2>7 DEF Delete
    <3>2. DOMAIN deleted' = Builds /\ \A c \in Builds : c # b => deleted'[c] = deleted[c]
      BY <2>2, <2>7 DEF Delete
    <3>3. OfOneId(made'[b]) /\ DOMAIN made' = Builds
      BY <2>2, <3>1
    <3> QED
      BY <3>1, <3>2, <3>3, KeyedQuiet
  <2>8. CASE Insert(b) /\ ~End(b)
    BY <2>8, KeyedInsert DEF Insert
  <2>9. CASE Commit(b)
    BY <2>9, KeyedCommit
  <2>10. Make(b) \/ Check(b) \/ Resize(b) \/ Deadlock(b) \/ Insert(b) \/ Kill(b) => UNCHANGED chunk \/ ~End(b)
    BY DEF Make, Check, Resize, Deadlock, Insert, Kill
  <2> QED
    BY <2>1, <2>3, <2>4, <2>5, <2>6, <2>7, <2>8, <2>9, <2>10 DEF Build, Step, Deadlock, Kill
<1> QED
  BY <1>1, <1>2

\* chunk_id is unique in the table, though Postgres is asked for that only row by
\* row as builds insert and delete them at once: what an INSERT has been let do stays
\* right until its COMMIT (replace_all, index/postgres.py).
THEOREM PrimaryKeyHolds == Spec => [](\A r, s \in chunk : Id(r) = Id(s) => r = s)
<1>1. Keyed => \A r, s \in chunk : Id(r) = Id(s) => r = s
  BY DEF Keyed, OfOneId
<1> QED
  BY <1>1, KeyedInit, KeyedNext, PTL DEF Spec

-----------------------------------------------------------------------------
(* The loop of _merge_keeping_order.                                       *)

MergedHits(preferred, rest) == FoldLeft(AddHit, preferred, rest)

\* Its turns, from what it starts with to what it ends with.
LEMMA AddHitTurns ==
  ASSUME NEW T, NEW base \in Seq(T), NEW seq \in Seq(T)
  PROVE  \E f : /\ f[0] = base /\ f[Len(seq)] = MergedHits(base, seq)
                /\ \A i \in 1..Len(seq) : f[i] = AddHit(f[i - 1], seq[i])
<1> DEFINE N == Len(seq)
<1>0. N \in Nat /\ DOMAIN seq = 1..N /\ \A i \in 1..N : seq[i] \in T
  OBVIOUS
<1> HIDE DEF N
<1> DEFINE step == [p \in Seq(T) \X T |-> AddHit(p[1], p[2])]
           list == [i \in 1..N |-> seq[i]]
<1>1. step \in [Seq(T) \X T -> Seq(T)] /\ list \in [1..N -> T]
  BY <1>0 DEF AddHit
<1>2. \A m \in Seq(T), r \in T : step[<<m, r>>] = AddHit(m, r)
  OBVIOUS
<1>3. \A i \in 1..N : list[i] = seq[i]
  OBVIOUS
<1> HIDE DEF step, list
<1>4. PICK iter \in [SUBSET (1..N) -> Seq(T)] : Iterates(iter, N, base, step, list)
  BY <1>0, <1>1, IterationExists
<1>5. \A s \in SUBSET (1..N) :
          iter[s] = IF s = {} THEN base ELSE AddHit(iter[s \ {Max(s)}], seq[Max(s)])
  <2> TAKE s \in SUBSET (1..N)
  <2>1. s # {} => Max(s) \in s
    BY <1>0, MaxOf
  <2>2. s # {} => iter[s \ {Max(s)}] \in Seq(T) /\ seq[Max(s)] \in T /\ list[Max(s)] = seq[Max(s)]
    BY <1>0, <1>3, <2>1
  <2> QED
    BY <1>2, <1>4, <2>2 DEF Iterates
<1> DEFINE g == CHOOSE h : h = [s \in SUBSET (1..N) |->
                                  IF s = {} THEN base ELSE AddHit(h[s \ {Max(s)}], seq[Max(s)])]
<1>6. iter = [s \in SUBSET (1..N) |->
                IF s = {} THEN base ELSE AddHit(iter[s \ {Max(s)}], seq[Max(s)])]
  BY <1>5
<1>7. g = [s \in SUBSET (1..N) |-> IF s = {} THEN base ELSE AddHit(g[s \ {Max(s)}], seq[Max(s)])]
  BY <1>6
<1>8. MergedHits(base, seq) = g[1..N]
  BY <1>0, Zenon DEF MergedHits, FoldLeft, MapThenFoldSet
<1> DEFINE f == [i \in 0..N |-> g[1..i]]
<1> HIDE DEF g
<1>9. f[0] = base
  BY <1>0, <1>7
<1>10. ASSUME NEW i \in 1..N
       PROVE  f[i] = AddHit(f[i - 1], seq[i])
  <2>1. Max(1..i) = i /\ (1..i) \ {i} = 1..(i - 1) /\ 1..i # {} /\ 1..i \in SUBSET (1..N)
    BY <1>0, MaxOfPrefix, PrefixIn
  <2>2. g[1..i] = AddHit(g[(1..i) \ {Max(1..i)}], seq[Max(1..i)])
    BY <1>7, <2>1
  <2>3. i \in 0..N /\ i - 1 \in 0..N
    BY <1>0
  <2> QED
    BY <2>1, <2>2, <2>3
<1>11. f[N] = g[1..N]
  BY <1>0
<1> HIDE DEF f
<1> QED
  BY <1>8, <1>9, <1>10, <1>11 DEF N

Distinct(s) == \A i, j \in 1..Len(s) : Id(s[i]) = Id(s[j]) => i = j

\* What is merged starts with the matches that are preferred, goes on with those of
\* the rest, and has no id twice.
Extends(s, preferred, rest) ==
    /\ Len(preferred) <= Len(s)
    /\ \A i \in 1..Len(preferred) : s[i] = preferred[i]
    /\ \A i \in 1..Len(s) : i > Len(preferred) => \E j \in 1..Len(rest) : s[i] = rest[j]
    /\ Distinct(s)

LEMMA MergedExtends ==
  ASSUME NEW T, NEW preferred \in Seq(T), NEW rest \in Seq(T), Distinct(preferred)
  PROVE  /\ MergedHits(preferred, rest) \in Seq(T)
         /\ Extends(MergedHits(preferred, rest), preferred, rest)
<1> DEFINE N == Len(rest)
<1>1. N \in Nat /\ DOMAIN rest = 1..N /\ \A i \in 1..N : rest[i] \in T
  OBVIOUS
<1>2. PICK f : /\ f[0] = preferred /\ f[N] = MergedHits(preferred, rest)
               /\ \A i \in 1..N : f[i] = AddHit(f[i - 1], rest[i])
  BY AddHitTurns
<1> DEFINE S == {n \in 0..N : f[n] \in Seq(T) /\ Extends(f[n], preferred, rest)}
<1>3. 0 \in S
  BY <1>1, <1>2 DEF Extends
<1>4. ASSUME NEW n \in 0..(N - 1), n \in S
      PROVE  n + 1 \in S
  <2>1. f[n] \in Seq(T) /\ Extends(f[n], preferred, rest) /\ n + 1 \in 1..N /\ n + 1 \in 0..N
    BY <1>1, <1>4
  <2> DEFINE m == f[n]  r == rest[n + 1]
  <2>2. f[n + 1] = AddHit(m, r) /\ r \in T
    BY <1>1, <1>2, <2>1
  <2>3. CASE Id(r) \in Ids(ToSet(m))
    BY <2>1, <2>2, <2>3 DEF AddHit
  <2>4. CASE Id(r) \notin Ids(ToSet(m))
    <3>1. f[n + 1] = Append(m, r)
      BY <2>2, <2>4 DEF AddHit
    <3>2. \A i \in 1..Len(m) : Id(m[i]) # Id(r)
      BY <2>1, <2>4 DEF Ids, ToSet
    <3> HIDE DEF m, r
    <3>3. m \in Seq(T) /\ r \in T
      BY <2>1, <2>2 DEF m
    <3>4. /\ Append(m, r) \in Seq(T) /\ Len(Append(m, r)) = Len(m) + 1
          /\ \A i \in 1..Len(m) : Append(m, r)[i] = m[i]
          /\ Append(m, r)[Len(m) + 1] = r
      BY <3>3
    <3>5. Extends(m, preferred, rest)
      BY <2>1 DEF m
    <3>6. Distinct(Append(m, r))
      BY <3>2, <3>3, <3>4, <3>5 DEF Extends, Distinct
    <3>7. \E j \in 1..Len(rest) : r = rest[j]
      BY <2>1 DEF r
    <3>8. Extends(Append(m, r), preferred, rest)
      BY <3>3, <3>4, <3>5, <3>6, <3>7 DEF Extends
    <3> QED
      BY <2>1, <3>1, <3>4, <3>8
  <2> QED
    BY <2>3, <2>4
<1>5. \A n \in 0..(N - 1) : n \in S => n + 1 \in S
  BY <1>4
<1> HIDE DEF S
<1>6. 0..N \subseteq S
  BY <1>1, <1>3, <1>5, TurnInduction
<1>7. N \in S
  BY <1>1, <1>6
<1> QED
  BY <1>2, <1>7 DEF S

-----------------------------------------------------------------------------
(* What a question finds while builds go on.                               *)

OfOneBuild(s) == \A i, j \in 1..Len(s) : s[i].by = s[j].by

\* A search sees the table once, between two commits.
LEMMA ResultsAreOfOneBuild ==
  ASSUME LastingArticle, IInv, Keyed, NEW rows \in SUBSET chunk, NEW s \in Results(rows)
  PROVE  s \in Seq(chunk) /\ Len(s) <= TopK /\ Distinct(s) /\ OfOneBuild(s)
<1>1. PICK n \in 0..TopK : s \in [1..n -> OfWiki(rows, Wiki)]
  BY DEF Results
<1>2. n \in Nat /\ n <= TopK /\ Wiki \in DOMAIN Pages
  BY RetrievalAssumption DEF RetrievalAssumption
<1>3. \A i \in 1..n : s[i] \in OfWiki(chunk, Wiki) /\ s[i] \in chunk
  BY <1>1 DEF OfWiki
<1>4. s \in Seq(chunk) /\ Len(s) = n
  BY <1>1, <1>2, <1>3
<1>5. \A i, j \in 1..n : s[i] = s[j] => i = j
  BY <1>1, Zenon DEF Results, IsInjective
<1>6. Distinct(s)
  BY <1>3, <1>4, <1>5 DEF Keyed, OfOneId, Distinct
<1>7. \A r, q \in OfWiki(chunk, Wiki) : r.by = q.by
  BY <1>2 DEF IInv, Held, Stored, Whole
<1> QED
  BY <1>2, <1>3, <1>4, <1>6, <1>7 DEF OfOneBuild

\* The hits of the narrowed search come first, and are of one build; so are the
\* others.
Searched ==
    /\ hits \in Seq(ToSet(hits)) /\ Distinct(hits)
    /\ narrowed \in Nat
    /\ at \in {"asked", "graph", "narrow"} => hits = <<>> /\ narrowed = 0
    /\ at = "widen" => narrowed = Len(hits) /\ Len(hits) <= TopK
    /\ \A i, j \in 1..Len(hits) : (i <= narrowed <=> j <= narrowed) => hits[i].by = hits[j].by

LEMMA InItsOwnSet ==
  ASSUME NEW T, NEW s \in Seq(T)
  PROVE  s \in Seq(ToSet(s))
<1>1. \A i \in 1..Len(s) : s[i] \in ToSet(s)
  BY DEF ToSet
<1>2. s \in [1..Len(s) -> ToSet(s)] /\ Len(s) \in Nat
  BY <1>1
<1> QED
  BY <1>2

LEMMA NarrowSearched ==
  ASSUME LastingArticle, IInv, Keyed, Searched, Narrow
  PROVE  Searched'
<1>1. Narrowed(chunk) \in SUBSET chunk
  BY DEF Narrowed
<1>2. hits' \in Results(Narrowed(chunk)) /\ narrowed' = Len(hits') /\ at' \in {"merge", "widen"}
  BY DEF Narrow
<1>3. hits' \in Seq(chunk) /\ Len(hits') <= TopK /\ Distinct(hits') /\ OfOneBuild(hits')
  BY <1>1, <1>2, ResultsAreOfOneBuild
<1>4. hits' \in Seq(ToSet(hits'))
  BY <1>3, InItsOwnSet
<1> QED
  BY <1>2, <1>3, <1>4 DEF Searched, OfOneBuild

LEMMA WidenSearched ==
  ASSUME LastingArticle, IInv, Keyed, Searched, Widen
  PROVE  Searched'
<1>1. PICK rest \in Results(chunk) : hits' = MergeKeepingOrder(hits, rest)
  BY DEF Widen
<1>2. rest \in Seq(chunk) /\ OfOneBuild(rest)
  BY ResultsAreOfOneBuild
<1> DEFINE T == ToSet(hits) \cup chunk
           merged == MergedHits(hits, rest)
           most == IF Len(merged) < TopK THEN Len(merged) ELSE TopK
<1>3. hits \in Seq(T) /\ rest \in Seq(T) /\ Distinct(hits)
  BY <1>2 DEF Searched
<1>4. merged \in Seq(T) /\ Extends(merged, hits, rest)
  BY <1>3, MergedExtends
<1>5. hits' = SubSeq(merged, 1, most)
  BY <1>1 DEF MergeKeepingOrder, MergedHits
<1>6. narrowed = Len(hits) /\ Len(hits) <= TopK /\ narrowed' = narrowed /\ at' = "merge" /\ narrowed \in Nat
  BY DEF Widen, Searched
<1>7. TopK \in Nat
  BY RetrievalAssumption DEF RetrievalAssumption
<1> HIDE DEF T, merged
<1>8. /\ most \in Nat /\ most <= Len(merged) /\ Len(hits) <= most
      /\ hits' \in Seq(T) /\ Len(hits') = most
      /\ \A i \in 1..most : hits'[i] = merged[i]
  BY <1>3, <1>4, <1>5, <1>6, <1>7 DEF Extends
<1> HIDE DEF most
<1>9. hits' \in Seq(ToSet(hits'))
  BY <1>8, InItsOwnSet
<1>10. Distinct(hits')
  BY <1>4, <1>8 DEF Extends, Distinct
<1>11. ASSUME NEW i \in 1..Len(hits'), NEW j \in 1..Len(hits'), i <= narrowed' <=> j <= narrowed'
       PROVE  hits'[i].by = hits'[j].by
  <2>1. hits'[i] = merged[i] /\ hits'[j] = merged[j] /\ i \in 1..Len(merged) /\ j \in 1..Len(merged)
    BY <1>4, <1>8
  <2>2. CASE i <= Len(hits) /\ j <= Len(hits)
    <3>1. i \in 1..Len(hits) /\ j \in 1..Len(hits) /\ merged[i] = hits[i] /\ merged[j] = hits[j]
      BY <1>3, <1>4, <2>1, <2>2 DEF Extends
    <3> QED
      BY <1>6, <2>1, <3>1 DEF Searched
  <2>3. CASE i > Len(hits) /\ j > Len(hits)
    <3>1. (\E k \in 1..Len(rest) : merged[i] = rest[k]) /\ (\E k \in 1..Len(rest) : merged[j] = rest[k])
      BY <1>4, <2>1, <2>3 DEF Extends
    <3> QED
      BY <1>2, <2>1, <3>1 DEF OfOneBuild
  <2> QED
    BY <1>3, <1>6, <1>8, <1>11, <2>2, <2>3
<1> QED
  BY <1>6, <1>9, <1>10, <1>11 DEF Searched

LEMMA SearchedNext ==
  ASSUME LastingArticle, IInv, Keyed, Searched, [AllNext]_all
  PROVE  Searched'
<1>1. CASE Narrow
  BY <1>1, NarrowSearched
<1>2. CASE Widen
  BY <1>2, WidenSearched
<1>3. CASE UNCHANGED <<hits, narrowed>> /\ (at' \in {"widen", "narrow", "asked", "graph"} => hits = <<>> /\ narrowed = 0)
  <2>1. TopK \in Nat
    BY RetrievalAssumption DEF RetrievalAssumption
  <2>2. ToSet(hits') = ToSet(hits) /\ (Distinct(hits) => Distinct(hits'))
    BY <1>3 DEF ToSet, Distinct
  <2> QED
    BY <1>3, <2>1, <2>2 DEF Searched
<1>4. CASE UNCHANGED question
  BY <1>4 DEF question, Searched, Distinct, ToSet
<1>5. Route \/ Unavailable \/ Lookup \/ Merge => <1>3!1
  BY DEF Route, Unavailable, Lookup, Merge, Searched
<1> QED
  BY <1>1, <1>2, <1>3, <1>4, <1>5 DEF AllNext, Ask, all

\* As many ids as rows.
LEMMA DistinctCounted ==
  ASSUME NEW T, NEW s \in Seq(T), Distinct(s)
  PROVE  Cardinality(Ids(ToSet(s))) = Len(s)
<1> DEFINE N == Len(s)
<1>1. s \in [1..N -> T] /\ DOMAIN s = 1..N /\ N \in Nat
  OBVIOUS
<1> DEFINE f == [i \in 1..N |-> Id(s[i])]
<1>2. Ids(ToSet(s)) = {f[i] : i \in 1..N}
  BY <1>1 DEF Ids, ToSet
<1>3. f \in Bijection(1..N, Ids(ToSet(s)))
  BY <1>1, <1>2 DEF Bijection, Injection, Surjection, IsInjective, Distinct
<1> HIDE DEF N
<1>4. IsFiniteSet(1..N) /\ Cardinality(1..N) = N
  <2>1. N \in Int /\ 1 \in Int /\ (1 > N \/ N - 1 + 1 = N) /\ (1 > N => N = 0)
    BY <1>1
  <2> QED
    BY <2>1, FS_Interval
<1>5. Cardinality(Ids(ToSet(s))) = N
  BY <1>3, <1>4, FS_Bijection DEF ExistsBijection
<1> QED
  BY <1>5 DEF N

LEMMA SearchedHitsAreOfOneBuild ==
  ASSUME Searched
  PROVE  HitsAreOfOneBuild
<1>1. hits \in Seq(ToSet(hits)) /\ DOMAIN hits = 1..Len(hits) /\ Distinct(hits)
  BY DEF Searched
<1>2. Cardinality(Ids(ToSet(hits))) = Len(hits)
  BY <1>1, DistinctCounted
<1> QED
  BY <1>1, <1>2 DEF Searched, HitsAreOfOneBuild

\* The two searches of a question, with builds starting, committing and dying between
\* them: each sees the passages of one build, what they found is told apart by
\* `narrowed`, and no passage is found twice (VectorRetriever.run,
\* _merge_keeping_order, retrieve/vector.py).
THEOREM HitsAreOfOneBuildCorrect == AllSpec => []HitsAreOfOneBuild
<1>1. CASE LastingArticle
  <2> DEFINE Inv == IInv /\ Keyed /\ Searched
  <2>1. AllInit => Inv
    <3>1. AllInit => Searched
      BY DEF AllInit, AskInit, Searched, ToSet, Distinct
    <3> QED
      BY <1>1, <3>1, IInvInit, KeyedInit DEF AllInit
  <2>2. Inv /\ [AllNext]_all => Inv'
    <3> SUFFICES ASSUME Inv, [AllNext]_all PROVE Inv'
      OBVIOUS
    <3>1. [Next]_vars
      BY DEF AllNext, Ask, all, Route, Unavailable, Lookup, Narrow, Widen, Merge
    <3> QED
      BY <1>1, <3>1, IInvNext, KeyedNext, SearchedNext
  <2>3. Inv => HitsAreOfOneBuild
    BY SearchedHitsAreOfOneBuild
  <2> QED
    BY <2>1, <2>2, <2>3, PTL DEF AllSpec
<1>2. CASE ~LastingArticle
  <2>1. HitsAreOfOneBuild
    BY <1>2 DEF HitsAreOfOneBuild
  <2> QED
    BY <2>1, PTL
<1> QED
  BY <1>1, <1>2

-----------------------------------------------------------------------------
(* Names.  A lookup that matches a node returns one (BestOf), so what is   *)
(* said is one entity at most and no guess pre-empts a name (OneEntity);   *)
(* the loop over the mentions adds what each is, and no id twice.          *)

\* One of a set that is not empty.
LEMMA AnyOneOf ==
  ASSUME NEW S
  PROVE  /\ \A x \in AnyOne(S) : x \in S
         /\ \A x, y \in AnyOne(S) : x = y
         /\ S # {} => AnyOne(S) # {}
<1>1. S # {} => (CHOOSE m \in S : TRUE) \in S
  OBVIOUS
<1> QED
  BY <1>1 DEF AnyOne

GraphOf(nodes) == IsFiniteSet(nodes) /\ \A n \in nodes : n.id \in Nat /\ n.labels \in Nat

\* What a lookup matches, it returns.
LEMMA BestOf ==
  ASSUME NEW nodes, GraphOf(nodes), NEW found \in SUBSET nodes
  PROVE  /\ \A n \in Best(found) : n \in found
         /\ \A n, m \in Best(found) : n = m
         /\ found # {} => Best(found) # {}
<1> DEFINE first == {n \in found : \A m \in found : m.labels < n.labels \/ (m.labels = n.labels /\ n.id <= m.id)}
<1>1. ASSUME found # {} PROVE first # {}
  <2> DEFINE counts == {n.labels : n \in found}
  <2>1. counts \in SUBSET Nat /\ counts # {}
    BY <1>1 DEF GraphOf
  <2>2. IsFiniteSet(counts)
    <3>1. IsFiniteSet(found)
      BY FS_Subset DEF GraphOf
    <3> DEFINE f == [n \in found |-> n.labels]
    <3>2. f \in Surjection(found, counts)
      BY DEF Surjection
    <3> QED
      BY <3>1, <3>2, FS_Surjection
  <2> HIDE DEF counts
  <2>3. PICK most \in counts : \A c \in counts : c <= most
    BY <2>1, <2>2, GreatestOf
  <2> DEFINE ids == {n.id : n \in {n \in found : n.labels = most}}
  <2>4. ids \in SUBSET Nat /\ ids # {}
    BY <2>3 DEF GraphOf, counts
  <2> HIDE DEF ids
  <2>5. PICK least \in ids : \A i \in ids : least <= i
    BY <2>4, LeastOf
  <2>6. PICK n \in found : n.labels = most /\ n.id = least
    BY <2>5 DEF ids
  <2>7. ASSUME NEW m \in found PROVE m.labels < n.labels \/ (m.labels = n.labels /\ n.id <= m.id)
    <3>1. m.labels <= most /\ m.labels \in Nat /\ most \in Nat
      BY <2>1, <2>3 DEF GraphOf, counts
    <3>2. m.labels = most => least <= m.id
      BY <2>5 DEF ids
    <3> QED
      BY <2>6, <3>1, <3>2
  <2> QED
    BY <2>6, <2>7
<1>2. Best(found) = AnyOne(first)
  BY DEF Best
<1> HIDE DEF first
<1>3. \A n \in first : n \in found
  BY DEF first
<1> QED
  BY <1>1, <1>2, <1>3, AnyOneOf

\* A name is one entity at most; it is reported, or guessed at, only if no node of
\* the graph goes by it, and what is guessed has every term.
LEMMA OneEntity ==
  ASSUME NEW nodes, GraphOf(nodes), NEW rank, NEW name
  PROVE  LET one == ResolveOne(nodes, rank, name) IN
         /\ \A e, d \in one : e = d
         /\ \A e \in one : \E n \in nodes : \E by \in {"title", "alias", "search"} : e = Entity(name, n, by)
         /\ one = {} => \A n \in nodes : ~Reads(n, name)
         /\ \A e \in one : e.matched_by = "search" =>
                /\ \A n \in nodes : ~Reads(n, name)
                /\ \E n \in nodes : n.id = e.id /\ Terms[name] \subseteq TermsOf(n)
         /\ \A n \in nodes : (\A o \in nodes : Lower[o.title] = Lower[name] <=> o = n) =>
                \E e \in one : e.id = n.id
<1> DEFINE titled == {n \in nodes : Lower[n.title] = Lower[name]}
           aliased == {n \in nodes : \E a \in n.aliases : Lower[a] = Lower[name]}
           one == ResolveOne(nodes, rank, name)
<1>1. /\ \A n \in ByTitle(nodes, name) : n \in titled
      /\ \A n, m \in ByTitle(nodes, name) : n = m
      /\ titled # {} => ByTitle(nodes, name) # {}
  <2>1. titled \in SUBSET nodes
    OBVIOUS
  <2> HIDE DEF titled
  <2>2. ByTitle(nodes, name) = Best(titled)
    BY DEF ByTitle, titled
  <2> QED
    BY <2>1, <2>2, BestOf
<1>2. /\ \A n \in ByAlias(nodes, name) : n \in aliased
      /\ \A n, m \in ByAlias(nodes, name) : n = m
      /\ aliased # {} => ByAlias(nodes, name) # {}
  <2>1. aliased \in SUBSET nodes
    OBVIOUS
  <2> HIDE DEF aliased
  <2>2. ByAlias(nodes, name) = Best(aliased)
    BY DEF ByAlias, aliased
  <2> QED
    BY <2>1, <2>2, BestOf
<1>3. /\ \A n \in BySearch(nodes, rank, name) : n \in nodes /\ Terms[name] \subseteq TermsOf(n)
      /\ \A n, m \in BySearch(nodes, rank, name) : n = m
  <2> DEFINE found == IF Terms[name] = {} THEN {} ELSE FoundByTerms(nodes, name)
             top == {n \in found : \A m \in found : rank[m.id] <= rank[n.id]}
  <2>1. \A n \in top : n \in nodes /\ Terms[name] \subseteq TermsOf(n)
    BY DEF FoundByTerms
  <2>2. BySearch(nodes, rank, name) = {n \in AnyOne(top) : rank[n.id] >= MinScore}
    BY DEF BySearch
  <2> HIDE DEF top
  <2> QED
    BY <2>1, <2>2, AnyOneOf
<1>4. titled = {} /\ aliased = {} => \A n \in nodes : ~Reads(n, name)
  BY DEF Reads
<1>5. \A n \in nodes : (\A o \in nodes : Lower[o.title] = Lower[name] <=> o = n) => titled = {n}
  OBVIOUS
<1> HIDE DEF titled, aliased
<1>6. CASE ByTitle(nodes, name) # {}
  <2>1. one = {Entity(name, n, "title") : n \in ByTitle(nodes, name)}
    BY <1>6 DEF ResolveOne
  <2>2. \A n \in ByTitle(nodes, name) : n \in nodes
    BY <1>1 DEF titled
  <2>3. \A n \in nodes : titled = {n} => n \in ByTitle(nodes, name)
    BY <1>1, <1>6
  <2>4. \A n : Entity(name, n, "title").matched_by = "title" /\ Entity(name, n, "title").id = n.id
    BY DEF Entity
  <2> HIDE DEF one
  <2> QED
    BY <1>1, <1>5, <1>6, <2>1, <2>2, <2>3, <2>4 DEF one
<1>7. CASE ByTitle(nodes, name) = {} /\ ByAlias(nodes, name) # {}
  <2>1. one = {Entity(name, n, "alias") : n \in ByAlias(nodes, name)}
    BY <1>7 DEF ResolveOne
  <2>2. \A n \in ByAlias(nodes, name) : n \in nodes
    BY <1>2 DEF aliased
  <2>3. titled = {}
    BY <1>1, <1>7
  <2>4. \A n : Entity(name, n, "alias").matched_by = "alias"
    BY DEF Entity
  <2> HIDE DEF one
  <2> QED
    BY <1>2, <1>5, <1>7, <2>1, <2>2, <2>3, <2>4 DEF one
<1>8. CASE ByTitle(nodes, name) = {} /\ ByAlias(nodes, name) = {}
  <2>1. one = {Entity(name, n, "search") : n \in BySearch(nodes, rank, name)}
    BY <1>8 DEF ResolveOne
  <2>2. titled = {} /\ \A n \in nodes : ~Reads(n, name)
    BY <1>1, <1>2, <1>4, <1>8
  <2>3. \A n : Entity(name, n, "search").id = n.id
    BY DEF Entity
  <2> HIDE DEF one
  <2> QED
    BY <1>3, <1>5, <2>1, <2>2, <2>3 DEF one
<1> QED
  BY <1>6, <1>7, <1>8

LEMMA ListOfAtMostOne ==
  ASSUME NEW S, \A x, y \in S : x = y
  PROVE  /\ S = {} => SetToSeq(S) = <<>>
         /\ \A x \in S : SetToSeq(S) = <<x>>
<1>1. CASE S = {}
  <2>1. Cardinality(S) = 0
    BY <1>1, FS_EmptySet
  <2>2. [1..0 -> S] = {<<>>}
    <3>1. 1..0 = {}
      OBVIOUS
    <3>2. \A f \in [1..0 -> S] : f = <<>>
      BY <3>1
    <3>3. <<>> \in [1..0 -> S]
      BY <3>1
    <3> QED
      BY <3>2, <3>3
  <2>3. IsInjective(<<>>)
    BY DEF IsInjective
  <2> QED
    BY <1>1, <2>1, <2>2, <2>3 DEF SetToSeq
<1>2. ASSUME NEW x \in S PROVE SetToSeq(S) = <<x>>
  <2>0. S = {x}
    BY <1>2
  <2>1. S = {x} /\ Cardinality(S) = 1
    BY <2>0, FS_Singleton
  <2>2. 1..1 = {1}
    OBVIOUS
  <2>3. <<x>> \in [1..1 -> S] /\ IsInjective(<<x>>)
    BY <2>1, <2>2 DEF IsInjective
  <2>4. \A f \in [1..1 -> S] : f = <<x>>
    <3> TAKE f \in [1..1 -> S]
    <3>1. f[1] = x
      BY <2>1, <2>2
    <3>2. f = [i \in 1..1 |-> x] /\ <<x>> = [i \in 1..1 |-> x]
      BY <2>2, <3>1
    <3> QED
      BY <3>2
  <2> QED
    BY <2>1, <2>3, <2>4 DEF SetToSeq
<1> QED
  BY <1>1, <1>2

\* What the loop of resolve_all holds: all entities that may be, and all names.
EntitiesOf(nodes) == {Entity(Stripped[m], n, by) : m \in DOMAIN Stripped, n \in nodes, by \in {"title", "alias", "search"}}
NamesSaid == {Stripped[m] : m \in DOMAIN Stripped}
Resolved(nodes) == [resolved : Seq(EntitiesOf(nodes)), unresolved : Seq(NamesSaid)]
NoneYet == [resolved |-> <<>>, unresolved |-> <<>>]

\* One turn: the mention's entity, or its name, is there, and nothing else is new.
LEMMA MentionAdded ==
  ASSUME NEW nodes, GraphOf(nodes), NEW rank, NEW m \in DOMAIN Stripped, NEW s \in Resolved(nodes)
  PROVE  LET name == Stripped[m]
             one == ResolveOne(nodes, rank, name)
             t == AddMention(nodes, rank, s, m)
         IN  /\ t \in Resolved(nodes)
             /\ \/ /\ t = s
                   /\ \/ name = Blank
                      \/ one = {} /\ name \in ToSet(s.unresolved)
                      \/ \E e \in one : \E i \in DOMAIN s.resolved : s.resolved[i].id = e.id
                \/ /\ name # Blank /\ one = {} /\ name \notin ToSet(s.unresolved)
                   /\ t.resolved = s.resolved /\ t.unresolved = Append(s.unresolved, name)
                \/ /\ name # Blank /\ t.unresolved = s.unresolved
                   /\ \E e \in one : /\ t.resolved = Append(s.resolved, e)
                                     /\ \A i \in DOMAIN s.resolved : s.resolved[i].id # e.id
<1> DEFINE name == Stripped[m]
           one == ResolveOne(nodes, rank, name)
           t == AddMention(nodes, rank, s, m)
           new == {e \in one : \A i \in DOMAIN s.resolved : s.resolved[i].id # e.id}
<1>1. /\ \A e, d \in one : e = d
      /\ \A e \in one : e \in EntitiesOf(nodes)
  BY OneEntity DEF EntitiesOf
<1>2. /\ s.resolved \in Seq(EntitiesOf(nodes)) /\ s.unresolved \in Seq(NamesSaid) /\ name \in NamesSaid
      /\ s = [resolved |-> s.resolved, unresolved |-> s.unresolved]
  BY DEF Resolved, NamesSaid
<1>3. t = IF name = Blank THEN s
          ELSE IF one = {}
          THEN IF name \in ToSet(s.unresolved) THEN s
               ELSE [s EXCEPT !.unresolved = Append(s.unresolved, name)]
          ELSE [s EXCEPT !.resolved = s.resolved \o SetToSeq(new)]
  BY DEF AddMention
<1> HIDE DEF t, one, name
<1>4. CASE name = Blank
  BY <1>3, <1>4 DEF t, one, name
<1>5. CASE name # Blank /\ one = {}
  <2>1. Append(s.unresolved, name) \in Seq(NamesSaid)
    BY <1>2
  <2>2. CASE name \in ToSet(s.unresolved)
    BY <1>3, <1>5, <2>2 DEF t, one, name
  <2>3. CASE name \notin ToSet(s.unresolved)
    <3>1. t = [s EXCEPT !.unresolved = Append(s.unresolved, name)]
      BY <1>3, <1>5, <2>3
    <3>2. t \in Resolved(nodes) /\ t.resolved = s.resolved /\ t.unresolved = Append(s.unresolved, name)
      BY <1>2, <2>1, <3>1 DEF Resolved
    <3> QED
      BY <1>5, <2>3, <3>2 DEF t, one, name
  <2> QED
    BY <2>2, <2>3
<1>6. CASE name # Blank /\ one # {}
  <2>1. t = [s EXCEPT !.resolved = s.resolved \o SetToSeq(new)]
    BY <1>3, <1>6
  <2>2. \A x, y \in new : x = y
    BY <1>1
  <2>3. CASE new = {}
    <3>1. SetToSeq(new) = <<>>
      BY <2>2, <2>3, ListOfAtMostOne
    <3>2. s.resolved \o <<>> = s.resolved
      BY <1>2
    <3>3. t = s
      BY <1>2, <2>1, <3>1, <3>2
    <3>4. \E e \in one : \E i \in DOMAIN s.resolved : s.resolved[i].id = e.id
      BY <1>6, <2>3
    <3> QED
      BY <3>3, <3>4 DEF t, one, name
  <2>4. ASSUME NEW e \in new
        PROVE  /\ t \in Resolved(nodes) /\ t.unresolved = s.unresolved
               /\ e \in one /\ t.resolved = Append(s.resolved, e)
               /\ \A i \in DOMAIN s.resolved : s.resolved[i].id # e.id
    <3>1. SetToSeq(new) = <<e>>
      <4> HIDE DEF new
      <4> QED
        BY <2>2, <2>4, ListOfAtMostOne
    <3>2. s.resolved \o <<e>> = Append(s.resolved, e) /\ e \in EntitiesOf(nodes)
      BY <1>1, <1>2
    <3>3. Append(s.resolved, e) \in Seq(EntitiesOf(nodes))
      BY <1>2, <3>2
    <3>4. t = [s EXCEPT !.resolved = Append(s.resolved, e)]
      BY <2>1, <3>1, <3>2
    <3> QED
      BY <1>2, <3>3, <3>4 DEF Resolved
  <2> QED
    BY <1>6, <2>3, <2>4 DEF t, one, name
<1> QED
  BY <1>4, <1>5, <1>6

LEMMA MentionTurns ==
  ASSUME NEW nodes, GraphOf(nodes), NEW rank, NEW seq \in Seq(DOMAIN Stripped)
  PROVE  \E f : /\ f[0] = NoneYet /\ f[Len(seq)] = ResolveAll(nodes, rank, seq)
                /\ \A i \in 0..Len(seq) : f[i] \in Resolved(nodes)
                /\ \A i \in 1..Len(seq) : f[i] = AddMention(nodes, rank, f[i - 1], seq[i])
<1> DEFINE N == Len(seq)
           T == DOMAIN Stripped
           Y == Resolved(nodes)
<1>0. N \in Nat /\ DOMAIN seq = 1..N /\ \A i \in 1..N : seq[i] \in T
  OBVIOUS
<1> HIDE DEF N, T
<1>a. \A s \in Y, m \in T : AddMention(nodes, rank, s, m) \in Y
  BY MentionAdded DEF T
<1>b. NoneYet \in Y
  BY DEF NoneYet, Resolved
<1> HIDE DEF Y
<1> DEFINE step == [p \in Y \X T |-> AddMention(nodes, rank, p[1], p[2])]
           list == [i \in 1..N |-> seq[i]]
<1>1. step \in [Y \X T -> Y] /\ list \in [1..N -> T]
  BY <1>0, <1>a
<1>2. \A s \in Y, m \in T : step[<<s, m>>] = AddMention(nodes, rank, s, m)
  OBVIOUS
<1>3. \A i \in 1..N : list[i] = seq[i]
  OBVIOUS
<1> HIDE DEF step, list
<1>4. PICK iter \in [SUBSET (1..N) -> Y] : Iterates(iter, N, NoneYet, step, list)
  BY <1>0, <1>1, <1>b, IterationExists
<1>5. \A s \in SUBSET (1..N) :
          iter[s] = IF s = {} THEN NoneYet ELSE AddMention(nodes, rank, iter[s \ {Max(s)}], seq[Max(s)])
  <2> TAKE s \in SUBSET (1..N)
  <2>1. s # {} => Max(s) \in s
    BY <1>0, MaxOf
  <2>2. s # {} => iter[s \ {Max(s)}] \in Y /\ seq[Max(s)] \in T /\ list[Max(s)] = seq[Max(s)]
    BY <1>0, <1>3, <2>1
  <2> QED
    BY <1>2, <1>4, <2>2 DEF Iterates
<1> DEFINE g == CHOOSE h : h = [s \in SUBSET (1..N) |->
                 IF s = {} THEN NoneYet ELSE AddMention(nodes, rank, h[s \ {Max(s)}], seq[Max(s)])]
<1>6. iter = [s \in SUBSET (1..N) |->
                IF s = {} THEN NoneYet ELSE AddMention(nodes, rank, iter[s \ {Max(s)}], seq[Max(s)])]
  BY <1>5
<1>7. g = [s \in SUBSET (1..N) |-> IF s = {} THEN NoneYet ELSE AddMention(nodes, rank, g[s \ {Max(s)}], seq[Max(s)])]
  BY <1>6
<1>8. ResolveAll(nodes, rank, seq) = g[1..N]
  BY <1>0, Zenon DEF ResolveAll, FoldLeft, MapThenFoldSet, NoneYet
<1> DEFINE f == [i \in 0..N |-> g[1..i]]
<1> HIDE DEF g
<1>9. f[0] = NoneYet
  BY <1>0, <1>7
<1>10. ASSUME NEW i \in 1..N
       PROVE  f[i] = AddMention(nodes, rank, f[i - 1], seq[i])
  <2>1. Max(1..i) = i /\ (1..i) \ {i} = 1..(i - 1) /\ 1..i # {} /\ 1..i \in SUBSET (1..N)
    BY <1>0, MaxOfPrefix, PrefixIn
  <2>2. g[1..i] = AddMention(nodes, rank, g[(1..i) \ {Max(1..i)}], seq[Max(1..i)])
    BY <1>7, <2>1
  <2>3. i \in 0..N /\ i - 1 \in 0..N
    BY <1>0
  <2> QED
    BY <2>1, <2>2, <2>3
<1>11. f[N] = g[1..N]
  BY <1>0
<1> HIDE DEF f
<1> DEFINE S == {n \in 0..N : f[n] \in Y}
<1>12. 0 \in S
  BY <1>0, <1>9, <1>b
<1>13. \A n \in 0..(N - 1) : n \in S => n + 1 \in S
  <2> SUFFICES ASSUME NEW n \in 0..(N - 1), n \in S PROVE n + 1 \in S
    OBVIOUS
  <2>1. n + 1 \in 1..N /\ n + 1 \in 0..N /\ (n + 1) - 1 = n
    BY <1>0
  <2>2. f[n + 1] = AddMention(nodes, rank, f[n], seq[n + 1]) /\ seq[n + 1] \in T
    BY <1>0, <1>10, <2>1
  <2> QED
    BY <1>a, <2>1, <2>2
<1> HIDE DEF S
<1>14. 0..N \subseteq S
  BY <1>0, <1>12, <1>13, TurnInduction
<1>15. \A i \in 0..N : f[i] \in Y
  BY <1>14 DEF S
<1> QED
  BY <1>8, <1>9, <1>10, <1>11, <1>15 DEF N, Y

EntityOf(nodes, rank, m) == IF Stripped[m] = Blank THEN {} ELSE ResolveOne(nodes, rank, Stripped[m])

\* After some turns: the ids of what has been resolved, and the names that have not.
Accounted(nodes, rank, seq, n, s) ==
    /\ \A i, j \in DOMAIN s.resolved : s.resolved[i].id = s.resolved[j].id => i = j
    /\ IsInjective(s.unresolved)
    /\ \A e \in ToSet(s.resolved) : \E k \in 1..n : e \in EntityOf(nodes, rank, seq[k])
    /\ \A k \in 1..n : \A e \in EntityOf(nodes, rank, seq[k]) : e.id \in IdsIn(s)
    /\ \A name \in ToSet(s.unresolved) :
           \E k \in 1..n : name = Stripped[seq[k]] /\ name # Blank /\ EntityOf(nodes, rank, seq[k]) = {}
    /\ \A k \in 1..n : Stripped[seq[k]] # Blank /\ EntityOf(nodes, rank, seq[k]) = {} =>
           Stripped[seq[k]] \in ToSet(s.unresolved)

LEMMA AppendedSet ==
  ASSUME NEW T, NEW s \in Seq(T), NEW e \in T
  PROVE  /\ DOMAIN s = 1..Len(s) /\ Len(s) \in Nat
         /\ DOMAIN Append(s, e) = 1..(Len(s) + 1)
         /\ \A i \in 1..Len(s) : Append(s, e)[i] = s[i]
         /\ Append(s, e)[Len(s) + 1] = e
         /\ ToSet(Append(s, e)) = ToSet(s) \cup {e}
<1>1. /\ DOMAIN s = 1..Len(s) /\ Len(s) \in Nat
      /\ DOMAIN Append(s, e) = 1..(Len(s) + 1)
      /\ \A i \in 1..Len(s) : Append(s, e)[i] = s[i]
      /\ Append(s, e)[Len(s) + 1] = e
  OBVIOUS
<1> QED
  BY <1>1 DEF ToSet

LEMMA AccountedTurn ==
  ASSUME NEW nodes, GraphOf(nodes), NEW rank, NEW seq \in Seq(DOMAIN Stripped),
         NEW n \in 0..(Len(seq) - 1), NEW s \in Resolved(nodes), Accounted(nodes, rank, seq, n, s)
  PROVE  Accounted(nodes, rank, seq, n + 1, AddMention(nodes, rank, s, seq[n + 1]))
<1> DEFINE m == seq[n + 1]
           name == Stripped[m]
           one == ResolveOne(nodes, rank, name)
           t == AddMention(nodes, rank, s, m)
<1>1. /\ n \in Nat /\ n + 1 \in 1..Len(seq) /\ m \in DOMAIN Stripped
      /\ \A k \in 1..(n + 1) : k \in 1..n \/ k = n + 1
      /\ \A k \in 1..n : k \in 1..(n + 1)
      /\ n + 1 \in 1..(n + 1)
  OBVIOUS
<1>2. /\ s.resolved \in Seq(EntitiesOf(nodes)) /\ s.unresolved \in Seq(NamesSaid) /\ name \in NamesSaid
  BY <1>1 DEF Resolved, NamesSaid
<1>3. /\ \A e, d \in one : e = d
      /\ \A e \in one : e \in EntitiesOf(nodes)
  BY <1>1, OneEntity DEF EntitiesOf
<1>m. m = seq[n + 1]
  OBVIOUS
<1> HIDE DEF m
<1>4. \/ /\ t = s
         /\ \/ name = Blank
            \/ one = {} /\ name \in ToSet(s.unresolved)
            \/ \E e \in one : \E i \in DOMAIN s.resolved : s.resolved[i].id = e.id
      \/ /\ name # Blank /\ one = {} /\ name \notin ToSet(s.unresolved)
         /\ t.resolved = s.resolved /\ t.unresolved = Append(s.unresolved, name)
      \/ /\ name # Blank /\ t.unresolved = s.unresolved
         /\ \E e \in one : /\ t.resolved = Append(s.resolved, e)
                           /\ \A i \in DOMAIN s.resolved : s.resolved[i].id # e.id
  BY <1>1, MentionAdded
<1>5. EntityOf(nodes, rank, m) = IF name = Blank THEN {} ELSE one
  BY DEF EntityOf
<1>6. IdsIn(s) = {e.id : e \in ToSet(s.resolved)} /\ IdsIn(t) = {e.id : e \in ToSet(t.resolved)}
  BY DEF IdsIn, ToSet
<1> HIDE DEF one, t, name
<1>7. CASE t = s /\ name = Blank
  BY <1>1, <1>m, <1>5, <1>7 DEF Accounted, t, name
<1>8. CASE t = s /\ name # Blank /\ one = {} /\ name \in ToSet(s.unresolved)
  BY <1>1, <1>m, <1>5, <1>8 DEF Accounted, t, name
<1>9. CASE t = s /\ name # Blank /\ \E e \in one : \E i \in DOMAIN s.resolved : s.resolved[i].id = e.id
  <2>1. \A e \in one : e.id \in IdsIn(s)
    BY <1>3, <1>9 DEF IdsIn
  <2> QED
    <3>1. Accounted(nodes, rank, seq, n, s) /\ name = Stripped[seq[n + 1]] /\ EntityOf(nodes, rank, seq[n + 1]) = one
      BY <1>m, <1>5, <1>9 DEF name
    <3>2. one # {}
      BY <1>9
    <3>3. /\ \A e \in ToSet(s.resolved) : \E k \in 1..(n + 1) : e \in EntityOf(nodes, rank, seq[k])
          /\ \A k \in 1..(n + 1) : \A e \in EntityOf(nodes, rank, seq[k]) : e.id \in IdsIn(s)
      BY <1>1, <2>1, <3>1 DEF Accounted
    <3>4. /\ \A x \in ToSet(s.unresolved) :
                \E k \in 1..(n + 1) : x = Stripped[seq[k]] /\ x # Blank /\ EntityOf(nodes, rank, seq[k]) = {}
          /\ \A k \in 1..(n + 1) : Stripped[seq[k]] # Blank /\ EntityOf(nodes, rank, seq[k]) = {} =>
                Stripped[seq[k]] \in ToSet(s.unresolved)
      BY <1>1, <3>1, <3>2 DEF Accounted
    <3> QED
      BY <1>9, <1>m, <3>1, <3>3, <3>4 DEF Accounted, t
<1>10. CASE /\ name # Blank /\ one = {} /\ name \notin ToSet(s.unresolved)
            /\ t.resolved = s.resolved /\ t.unresolved = Append(s.unresolved, name)
  <2>1. /\ ToSet(t.unresolved) = ToSet(s.unresolved) \cup {name}
        /\ DOMAIN s.unresolved = 1..Len(s.unresolved)
        /\ DOMAIN t.unresolved = 1..(Len(s.unresolved) + 1)
        /\ \A i \in 1..Len(s.unresolved) : t.unresolved[i] = s.unresolved[i]
        /\ t.unresolved[Len(s.unresolved) + 1] = name /\ Len(s.unresolved) \in Nat
    BY <1>2, <1>10, AppendedSet
  <2>2. IsInjective(s.unresolved) /\ \A i \in 1..Len(s.unresolved) : s.unresolved[i] # name
    BY <1>10, <2>1 DEF Accounted, ToSet
  <2>3. ASSUME NEW i \in DOMAIN t.unresolved, NEW j \in DOMAIN t.unresolved, t.unresolved[i] = t.unresolved[j]
        PROVE  i = j
    <3>1. \A k \in 1..(Len(s.unresolved) + 1) : k \in 1..Len(s.unresolved) \/ k = Len(s.unresolved) + 1
      BY <2>1
    <3> QED
      BY <2>1, <2>2, <2>3, <3>1 DEF IsInjective
  <2>4. IdsIn(t) = IdsIn(s)
    BY <1>6, <1>10
  <2>5. IsInjective(t.unresolved)
    BY <2>3 DEF IsInjective
  <2>6. Accounted(nodes, rank, seq, n, s) /\ EntityOf(nodes, rank, seq[n + 1]) = {} /\ name = Stripped[seq[n + 1]]
    BY <1>5, <1>10, <1>m DEF name
  <2>7. Accounted(nodes, rank, seq, n + 1, t)
    <3>3. /\ \A d \in ToSet(t.resolved) : \E k \in 1..(n + 1) : d \in EntityOf(nodes, rank, seq[k])
          /\ \A k \in 1..(n + 1) : \A d \in EntityOf(nodes, rank, seq[k]) : d.id \in IdsIn(t)
      BY <1>1, <1>10, <2>4, <2>6 DEF Accounted
    <3>4. /\ \A x \in ToSet(t.unresolved) :
                \E k \in 1..(n + 1) : x = Stripped[seq[k]] /\ x # Blank /\ EntityOf(nodes, rank, seq[k]) = {}
          /\ \A k \in 1..(n + 1) : Stripped[seq[k]] # Blank /\ EntityOf(nodes, rank, seq[k]) = {} =>
                Stripped[seq[k]] \in ToSet(t.unresolved)
      BY <1>1, <1>10, <2>1, <2>6 DEF Accounted
    <3> QED
      BY <1>10, <2>5, <2>6, <3>3, <3>4 DEF Accounted
  <2> QED
    BY <1>m, <2>7 DEF t
<1>11. ASSUME name # Blank, t.unresolved = s.unresolved, NEW e \in one, t.resolved = Append(s.resolved, e),
              \A i \in DOMAIN s.resolved : s.resolved[i].id # e.id
       PROVE  Accounted(nodes, rank, seq, n + 1, AddMention(nodes, rank, s, seq[n + 1]))
  <2>1. /\ ToSet(t.resolved) = ToSet(s.resolved) \cup {e}
        /\ DOMAIN s.resolved = 1..Len(s.resolved)
        /\ DOMAIN t.resolved = 1..(Len(s.resolved) + 1)
        /\ \A i \in 1..Len(s.resolved) : t.resolved[i] = s.resolved[i]
        /\ t.resolved[Len(s.resolved) + 1] = e /\ Len(s.resolved) \in Nat
    BY <1>2, <1>3, <1>11, AppendedSet
  <2>2. \A i, j \in DOMAIN t.resolved : t.resolved[i].id = t.resolved[j].id => i = j
    BY <1>11, <2>1 DEF Accounted
  <2>3. IdsIn(t) = IdsIn(s) \cup {e.id}
    BY <1>6, <2>1
  <2>4. EntityOf(nodes, rank, m) = {e}
    BY <1>3, <1>5, <1>11
  <2>5. Accounted(nodes, rank, seq, n, s) /\ EntityOf(nodes, rank, seq[n + 1]) = {e}
    BY <1>m, <2>4
  <2>6. Accounted(nodes, rank, seq, n + 1, t)
    <3>3. /\ \A d \in ToSet(t.resolved) : \E k \in 1..(n + 1) : d \in EntityOf(nodes, rank, seq[k])
          /\ \A k \in 1..(n + 1) : \A d \in EntityOf(nodes, rank, seq[k]) : d.id \in IdsIn(t)
      BY <1>1, <2>1, <2>3, <2>5 DEF Accounted
    <3>4. /\ \A x \in ToSet(t.unresolved) :
                \E k \in 1..(n + 1) : x = Stripped[seq[k]] /\ x # Blank /\ EntityOf(nodes, rank, seq[k]) = {}
          /\ \A k \in 1..(n + 1) : Stripped[seq[k]] # Blank /\ EntityOf(nodes, rank, seq[k]) = {} =>
                Stripped[seq[k]] \in ToSet(t.unresolved)
      BY <1>1, <1>11, <2>5 DEF Accounted
    <3> QED
      BY <1>11, <2>2, <2>5, <3>3, <3>4 DEF Accounted
  <2> QED
    BY <1>m, <2>6 DEF t
<1> QED
  BY <1>4, <1>7, <1>8, <1>9, <1>10, <1>11, <1>m DEF t

LEMMA AllAccounted ==
  ASSUME NEW nodes, GraphOf(nodes), NEW rank, NEW seq \in Seq(DOMAIN Stripped)
  PROVE  /\ ResolveAll(nodes, rank, seq) \in Resolved(nodes)
         /\ Accounted(nodes, rank, seq, Len(seq), ResolveAll(nodes, rank, seq))
<1> DEFINE N == Len(seq)
<1>1. N \in Nat
  OBVIOUS
<1>2. PICK f : /\ f[0] = NoneYet /\ f[N] = ResolveAll(nodes, rank, seq)
               /\ \A i \in 0..N : f[i] \in Resolved(nodes)
               /\ \A i \in 1..N : f[i] = AddMention(nodes, rank, f[i - 1], seq[i])
  BY MentionTurns
<1> DEFINE S == {n \in 0..N : Accounted(nodes, rank, seq, n, f[n])}
<1>3. 0 \in S
  <2>1. NoneYet.resolved = <<>> /\ NoneYet.unresolved = <<>> /\ ToSet(<<>>) = {} /\ DOMAIN <<>> = {} /\ 1..0 = {}
    BY DEF NoneYet, ToSet
  <2>2. Accounted(nodes, rank, seq, 0, NoneYet)
    BY <2>1 DEF Accounted, IsInjective
  <2> QED
    BY <1>1, <1>2, <2>2
<1>4. ASSUME NEW n \in 0..(N - 1), n \in S PROVE n + 1 \in S
  <2>1. n + 1 \in 1..N /\ n + 1 \in 0..N /\ n \in 0..N /\ (n + 1) - 1 = n
    BY <1>1
  <2>2. f[n + 1] = AddMention(nodes, rank, f[n], seq[n + 1]) /\ f[n] \in Resolved(nodes)
    BY <1>2, <2>1
  <2>3. Accounted(nodes, rank, seq, n + 1, AddMention(nodes, rank, f[n], seq[n + 1]))
    BY <1>4, <2>2, AccountedTurn
  <2> QED
    BY <2>1, <2>2, <2>3
<1>5. \A n \in 0..(N - 1) : n \in S => n + 1 \in S
  BY <1>4
<1> HIDE DEF S
<1>6. 0..N \subseteq S
  BY <1>1, <1>3, <1>5, TurnInduction
<1>7. N \in S /\ N \in 0..N
  BY <1>1, <1>6
<1> QED
  BY <1>2, <1>7 DEF S

\* The result, as sets: of the mentions it is of, in any order.
LEMMA ResolvedAsSets ==
  ASSUME NEW nodes, GraphOf(nodes), NEW rank, NEW seq \in Seq(DOMAIN Stripped)
  PROVE  LET r == ResolveAll(nodes, rank, seq) IN
         /\ IdsIn(r) = UNION {{e.id : e \in EntityOf(nodes, rank, m)} : m \in ToSet(seq)}
         /\ ToSet(r.unresolved) = {Stripped[m] : m \in {m \in ToSet(seq) : Stripped[m] # Blank /\ EntityOf(nodes, rank, m) = {}}}
<1> DEFINE r == ResolveAll(nodes, rank, seq)
<1>1. Accounted(nodes, rank, seq, Len(seq), r)
  BY AllAccounted
<1>2. ToSet(seq) = {seq[k] : k \in 1..Len(seq)}
  BY DEF ToSet
<1>3. IdsIn(r) = {e.id : e \in ToSet(r.resolved)}
  BY DEF IdsIn, ToSet
<1> HIDE DEF r
<1>4. IdsIn(r) \subseteq UNION {{e.id : e \in EntityOf(nodes, rank, m)} : m \in ToSet(seq)}
  BY <1>1, <1>2, <1>3 DEF Accounted
<1>5. \A m \in ToSet(seq) : \A e \in EntityOf(nodes, rank, m) : e.id \in IdsIn(r)
  BY <1>1, <1>2 DEF Accounted
<1>6. \A name \in ToSet(r.unresolved) : \E m \in ToSet(seq) :
          name = Stripped[m] /\ Stripped[m] # Blank /\ EntityOf(nodes, rank, m) = {}
  BY <1>1, <1>2 DEF Accounted
<1>7. \A m \in ToSet(seq) : Stripped[m] # Blank /\ EntityOf(nodes, rank, m) = {} => Stripped[m] \in ToSet(r.unresolved)
  BY <1>1, <1>2 DEF Accounted
<1>8. IdsIn(r) = UNION {{e.id : e \in EntityOf(nodes, rank, m)} : m \in ToSet(seq)}
  BY <1>4, <1>5
<1>9. ToSet(r.unresolved) = {Stripped[m] : m \in {m \in ToSet(seq) : Stripped[m] # Blank /\ EntityOf(nodes, rank, m) = {}}}
  <2>1. ToSet(r.unresolved) \subseteq {Stripped[m] : m \in {m \in ToSet(seq) : Stripped[m] # Blank /\ EntityOf(nodes, rank, m) = {}}}
    BY <1>6
  <2> QED
    BY <1>7, <2>1
<1> QED
  BY <1>8, <1>9 DEF r

LEMMA AllAreGraphs ==
  ASSUME NEW nodes \in Graphs, NEW mentions \in Asked
  PROVE  GraphOf(nodes) /\ mentions \in Seq(DOMAIN Stripped)
BY EntityNamesAssumption DEF EntityNamesAssumption, GraphOf

\* Of any question, what became of its mentions.
LEMMA MentionsAccountedFor == MentionsAreAccountedFor
<1> SUFFICES ASSUME NEW nodes \in Graphs, NEW rank \in Ranks, NEW mentions \in Asked
    PROVE LET result == ResolveAll(nodes, rank, mentions)
              alone == {ResolveAll(nodes, rank, <<m>>) : m \in ToSet(mentions)}
          IN  /\ Cardinality(IdsIn(result)) = Len(result.resolved) /\ IsInjective(result.unresolved)
              /\ IdsIn(result) = UNION {IdsIn(r) : r \in alone}
              /\ ToSet(result.unresolved) = UNION {ToSet(r.unresolved) : r \in alone}
              /\ \A n \in nodes : \A m \in ToSet(mentions) :
                     (\A o \in nodes : Stripped[m] # Blank /\ Lower[o.title] = Lower[Stripped[m]] <=> o = n)
                         => n.id \in IdsIn(result)
  BY DEF MentionsAreAccountedFor
<1> DEFINE result == ResolveAll(nodes, rank, mentions)
           alone == {ResolveAll(nodes, rank, <<m>>) : m \in ToSet(mentions)}
<1>1. GraphOf(nodes) /\ mentions \in Seq(DOMAIN Stripped) /\ \A m \in ToSet(mentions) : m \in DOMAIN Stripped
  BY AllAreGraphs DEF ToSet
<1>2. result \in Resolved(nodes) /\ Accounted(nodes, rank, mentions, Len(mentions), result)
  BY <1>1, AllAccounted
<1>3. Cardinality(IdsIn(result)) = Len(result.resolved)
  <2> DEFINE N == Len(result.resolved)
             f == [i \in 1..N |-> result.resolved[i].id]
  <2>1. DOMAIN result.resolved = 1..N /\ N \in Nat
    <3>1. result.resolved \in Seq(EntitiesOf(nodes))
      BY <1>2 DEF Resolved
    <3> HIDE DEF result
    <3> QED
      BY <3>1
  <2>2. f \in Bijection(1..N, IdsIn(result))
    <3> HIDE DEF result
    <3> QED
      BY <1>2, <2>1 DEF IdsIn, Bijection, Injection, Surjection, IsInjective, Accounted
  <2>3. IsFiniteSet(1..N) /\ Cardinality(1..N) = N
    <3>1. N \in Nat
      BY <2>1
    <3> HIDE DEF N
    <3> QED
      BY <3>1, FS_Interval
  <2> QED
    BY <2>2, <2>3, FS_Bijection DEF ExistsBijection
<1>4. \A m \in ToSet(mentions) : <<m>> \in Seq(DOMAIN Stripped) /\ ToSet(<<m>>) = {m}
  <2> TAKE m \in ToSet(mentions)
  <2>1. <<m>> \in Seq(DOMAIN Stripped) /\ DOMAIN <<m>> = {1} /\ <<m>>[1] = m
    BY <1>1
  <2> QED
    BY <2>1 DEF ToSet
<1>5. \A m \in ToSet(mentions) :
        /\ IdsIn(ResolveAll(nodes, rank, <<m>>)) = {e.id : e \in EntityOf(nodes, rank, m)}
        /\ ToSet(ResolveAll(nodes, rank, <<m>>).unresolved)
              = IF Stripped[m] # Blank /\ EntityOf(nodes, rank, m) = {} THEN {Stripped[m]} ELSE {}
  <2> TAKE x \in ToSet(mentions)
  <2> DEFINE single == <<x>>
             r == ResolveAll(nodes, rank, single)
  <2>0. ToSet(single) = {x}
    BY <1>4
  <2>4. single \in Seq(DOMAIN Stripped) /\ GraphOf(nodes)
    BY <1>1, <1>4
  <2> HIDE DEF single
  <2>1. /\ IdsIn(r) = UNION {{e.id : e \in EntityOf(nodes, rank, m)} : m \in ToSet(single)}
        /\ ToSet(r.unresolved) = {Stripped[m] : m \in {m \in ToSet(single) : Stripped[m] # Blank /\ EntityOf(nodes, rank, m) = {}}}
    BY <2>4, ResolvedAsSets
  <2> HIDE DEF r
  <2>2. IdsIn(r) = {e.id : e \in EntityOf(nodes, rank, x)}
    BY <2>0, <2>1
  <2>3. ToSet(r.unresolved) = IF Stripped[x] # Blank /\ EntityOf(nodes, rank, x) = {} THEN {Stripped[x]} ELSE {}
    BY <2>0, <2>1
  <2> QED
    BY <2>2, <2>3 DEF r, single
<1>6. /\ IdsIn(result) = UNION {{e.id : e \in EntityOf(nodes, rank, m)} : m \in ToSet(mentions)}
      /\ ToSet(result.unresolved) = {Stripped[m] : m \in {m \in ToSet(mentions) : Stripped[m] # Blank /\ EntityOf(nodes, rank, m) = {}}}
  BY <1>1, ResolvedAsSets
<1>7. IdsIn(result) = UNION {IdsIn(r) : r \in alone}
  <2>1. UNION {IdsIn(r) : r \in alone} = UNION {IdsIn(ResolveAll(nodes, rank, <<m>>)) : m \in ToSet(mentions)}
    OBVIOUS
  <2>2. \A m \in ToSet(mentions) :
          IdsIn(ResolveAll(nodes, rank, <<m>>)) = {e.id : e \in EntityOf(nodes, rank, m)}
    BY <1>5
  <2> HIDE DEF result
  <2> QED
    BY <1>6, <2>1, <2>2
<1>8. ToSet(result.unresolved) = UNION {ToSet(r.unresolved) : r \in alone}
  <2>1. UNION {ToSet(r.unresolved) : r \in alone}
           = UNION {ToSet(ResolveAll(nodes, rank, <<m>>).unresolved) : m \in ToSet(mentions)}
    OBVIOUS
  <2>2. \A m \in ToSet(mentions) :
          ToSet(ResolveAll(nodes, rank, <<m>>).unresolved)
              = IF Stripped[m] # Blank /\ EntityOf(nodes, rank, m) = {} THEN {Stripped[m]} ELSE {}
    BY <1>5
  <2> HIDE DEF result
  <2> QED
    <3>1. \A x : x \in ToSet(result.unresolved) <=>
                \E m \in ToSet(mentions) : x = Stripped[m] /\ Stripped[m] # Blank /\ EntityOf(nodes, rank, m) = {}
      BY <1>6
    <3>2. \A x : x \in UNION {ToSet(ResolveAll(nodes, rank, <<m>>).unresolved) : m \in ToSet(mentions)} <=>
                \E m \in ToSet(mentions) : x = Stripped[m] /\ Stripped[m] # Blank /\ EntityOf(nodes, rank, m) = {}
      BY <2>2
    <3> QED
      BY <2>1, <3>1, <3>2
<1>9. ASSUME NEW n \in nodes, NEW m \in ToSet(mentions),
             \A o \in nodes : Stripped[m] # Blank /\ Lower[o.title] = Lower[Stripped[m]] <=> o = n
      PROVE  n.id \in IdsIn(result)
  <2>1. Stripped[m] # Blank /\ \A o \in nodes : Lower[o.title] = Lower[Stripped[m]] <=> o = n
    BY <1>9
  <2>2. \E e \in ResolveOne(nodes, rank, Stripped[m]) : e.id = n.id
    BY <1>1, <2>1, OneEntity
  <2>3. \E e \in EntityOf(nodes, rank, m) : e.id = n.id
    BY <2>1, <2>2 DEF EntityOf
  <2> HIDE DEF result
  <2> QED
    BY <1>6, <2>3
<1>10. IsInjective(result.unresolved)
  BY <1>2 DEF Accounted
<1> QED
  BY <1>3, <1>7, <1>8, <1>9, <1>10

\* Of any name, what stands for it.
LEMMA GuessesSound == GuessesAreSound
<1> SUFFICES ASSUME NEW nodes \in Graphs, NEW rank \in Ranks, NEW mentions \in Asked
    PROVE LET result == ResolveAll(nodes, rank, mentions)
          IN  /\ \A name \in ToSet(result.unresolved) : \A n \in nodes : ~Reads(n, name)
              /\ \A e \in ToSet(result.resolved) : e.matched_by = "search" =>
                   /\ \A n \in nodes : ~Reads(n, e.mention)
                   /\ \E n \in nodes : n.id = e.id /\ Terms[e.mention] \subseteq TermsOf(n)
  BY DEF GuessesAreSound
<1> DEFINE result == ResolveAll(nodes, rank, mentions)
<1>1. GraphOf(nodes) /\ mentions \in Seq(DOMAIN Stripped)
  BY AllAreGraphs
<1>2. Accounted(nodes, rank, mentions, Len(mentions), result)
  BY <1>1, AllAccounted
<1> HIDE DEF result
<1>3. ASSUME NEW name \in ToSet(result.unresolved), NEW n \in nodes PROVE ~Reads(n, name)
  <2>1. ResolveOne(nodes, rank, name) = {}
    BY <1>2, <1>3 DEF Accounted, EntityOf
  <2> QED
    BY <1>1, <2>1, OneEntity
<1>4. ASSUME NEW e \in ToSet(result.resolved), e.matched_by = "search"
      PROVE  /\ \A n \in nodes : ~Reads(n, e.mention)
             /\ \E n \in nodes : n.id = e.id /\ Terms[e.mention] \subseteq TermsOf(n)
  <2>1. PICK m : e \in ResolveOne(nodes, rank, Stripped[m])
    BY <1>2, <1>4 DEF Accounted, EntityOf
  <2>2. e.mention = Stripped[m]
    <3>1. \E n \in nodes : \E by \in {"title", "alias", "search"} : e = Entity(Stripped[m], n, by)
      BY <1>1, <2>1, OneEntity
    <3> QED
      BY <3>1 DEF Entity
  <2> QED
    BY <1>1, <1>4, <2>1, <2>2, OneEntity
<1> QED
  BY <1>3, <1>4 DEF result

\* Of any graph, any scores and any mentions: each mention is an entity or is
\* reported, no guess pre-empts a name, and none lacks a term of what was said.
THEOREM NamesAreResolvedHonestlyCorrect == AllSpec => []NamesAreResolvedHonestly
<1>1. NamesAreResolvedHonestly
  BY MentionsAccountedFor, GuessesSound DEF NamesAreResolvedHonestly
<1> QED
  BY <1>1, PTL

-----------------------------------------------------------------------------
(* How long a text is.                                                     *)

Paragraphs == Seq(Nat) \ {<<>>}

LEMMA TokensBound ==
  ASSUME NEW n \in Nat
  PROVE  /\ Tokens(n) \in Nat \ {0} /\ n <= 4 * Tokens(n) + 3
         /\ 4 * Tokens(n) <= n \/ Tokens(n) = 1
<1>1. n \div 4 \in Nat /\ n = 4 * (n \div 4) + (n % 4) /\ n % 4 \in 0..3
  OBVIOUS
<1>2. n >= 8 => n \div 4 # 0
  BY <1>1
<1> QED
  BY <1>1, <1>2 DEF Tokens, CharsPerToken

LEMMA SumIsSum ==
  ASSUME NEW s
  PROVE  Sum(s) = SumFunction(s)
  BY Zenon DEF Sum, FoldSeq, FoldFunction, SumFunction, SumFunctionOnSet

LEMMA SumOfNaturals ==
  ASSUME NEW s \in Seq(Nat)
  PROVE  Sum(s) \in Nat
  BY SumIsSum, SumOfAppend

LEMMA CharsOf ==
  ASSUME NEW p \in Paragraphs
  PROVE  Chars(p) \in Nat
<1>1. p \in Seq(Nat) /\ Len(p) \in Nat /\ Len(p) # 0
  BY DEF Paragraphs
<1>2. Sum(p) \in Nat
  BY <1>1, SumOfNaturals
<1> DEFINE n == Len(p)
<1> HIDE DEF n
<1>3. n \in Nat \ {0} /\ Chars(p) = Sum(p) + n - 1
  BY <1>1 DEF Chars, n
<1> QED
  BY <1>2, <1>3

LEMMA TextCharsOfAppend ==
  ASSUME NEW t \in Seq(Paragraphs), NEW p \in Paragraphs
  PROVE  TextChars(Append(t, p)) = TextChars(t) + Chars(p) + 2 /\ TextChars(t) \in Int /\ TextChars(t) >= 0 - 2
<1> DEFINE s == [i \in DOMAIN t |-> Chars(t[i])]  u == Append(t, p)
           v == [i \in DOMAIN u |-> Chars(u[i])]  n == Len(t)
<1>1. s \in Seq(Nat) /\ Chars(p) \in Nat /\ n \in Nat
  BY CharsOf
<1>2. /\ DOMAIN t = 1..n /\ DOMAIN u = 1..(n + 1) /\ Len(u) = n + 1
      /\ \A i \in 1..n : u[i] = t[i]
      /\ u[n + 1] = p
  OBVIOUS
<1>3. v = Append(s, Chars(p))
  BY <1>2
<1> HIDE DEF s, u, v, n
<1>4. Sum(v) = Sum(s) + Chars(p) /\ Sum(s) \in Nat
  BY <1>1, <1>3, SumIsSum, SumOfAppend
<1>5. TextChars(u) = Sum(v) + 2 * (n + 1 - 1) /\ TextChars(t) = Sum(s) + 2 * (n - 1)
  BY <1>2 DEF TextChars, s, v, n
<1> DEFINE a == Sum(s)  c == Chars(p)  x == TextChars(t)  y == TextChars(u)
<1>6. a \in Nat /\ c \in Nat /\ n \in Nat /\ y = a + c + 2 * (n + 1 - 1) /\ x = a + 2 * (n - 1)
  BY <1>1, <1>4, <1>5
<1> HIDE DEF a, c, x, y
<1>7. y = x + c + 2 /\ x \in Int /\ x >= 0 - 2
  BY <1>6
<1> QED
  BY <1>7 DEF x, y, c, u

LEMMA TextCharsOfOne ==
  ASSUME NEW p \in Paragraphs
  PROVE  TextChars(<<p>>) = Chars(p)
<1>1. <<>> \in Seq(Paragraphs) /\ Append(<<>>, p) = <<p>> /\ Len(<<>>) = 0
  OBVIOUS
<1>2. [i \in DOMAIN <<>> |-> Chars(<<>>[i])] = <<>>
  OBVIOUS
<1>3. TextChars(<<>>) = 0 - 2
  BY <1>1, <1>2, SumIsSum, SumOfNone DEF TextChars
<1> DEFINE c == Chars(p)  x == TextChars(<<>>)  y == TextChars(<<p>>)
<1>4. y = x + c + 2 /\ x = 0 - 2 /\ c \in Nat
  BY <1>1, <1>3, TextCharsOfAppend, CharsOf
<1> HIDE DEF c, x, y
<1>5. y = c
  BY <1>4
<1> QED
  BY <1>5 DEF c, y

LEMMA TextCharsOf ==
  ASSUME NEW t \in Seq(Paragraphs), t # <<>>
  PROVE  TextChars(t) \in Nat
<1> DEFINE n == Len(t)  u == SubSeq(t, 1, n - 1)  p == t[n]
<1>1. n \in Nat /\ n # 0 /\ u \in Seq(Paragraphs) /\ p \in Paragraphs /\ t = Append(u, p)
  OBVIOUS
<1> HIDE DEF u, p
<1> DEFINE c == Chars(p)  x == TextChars(u)  y == TextChars(t)
<1>2. y = x + c + 2 /\ x \in Int /\ x >= 0 - 2 /\ c \in Nat
  BY <1>1, TextCharsOfAppend, CharsOf
<1> HIDE DEF c, x, y
<1>3. y \in Nat
  BY <1>2
<1> QED
  BY <1>3 DEF y

-----------------------------------------------------------------------------
(* The loop of _pack.                                                      *)

Taking(T) == [packed : Seq(Seq(T)), current : Seq(T), size : Nat]
Taken(parts) == FoldLeft(Take, Nothing, parts)

LEMMA TakeIsOf ==
  ASSUME NEW T \in SUBSET Paragraphs, NEW y \in Taking(T), NEW part \in T
  PROVE  Take(y, part) \in Taking(T)
<1>1. Tokens(Chars(part)) \in Nat
  BY CharsOf, TokensBound
<1>2. /\ y.packed \in Seq(Seq(T)) /\ y.current \in Seq(T) /\ y.size \in Nat
      /\ Append(y.packed, y.current) \in Seq(Seq(T)) /\ Append(y.current, part) \in Seq(T) /\ <<part>> \in Seq(T)
  BY DEF Taking
<1> QED
  BY <1>1, <1>2 DEF Take, Taking

LEMMA TakeTurns ==
  ASSUME NEW T \in SUBSET Paragraphs, NEW parts \in Seq(T)
  PROVE  \E f : /\ f[0] = Nothing /\ f[Len(parts)] = Taken(parts)
                /\ \A i \in 1..Len(parts) : f[i] = Take(f[i - 1], parts[i])
<1> DEFINE N == Len(parts)  Y == Taking(T)
<1>0. N \in Nat /\ DOMAIN parts = 1..N /\ \A i \in 1..N : parts[i] \in T
  OBVIOUS
<1> HIDE DEF N
<1> DEFINE step == [p \in Y \X T |-> Take(p[1], p[2])]
           list == [i \in 1..N |-> parts[i]]
<1> HIDE DEF Y
<1>1. step \in [Y \X T -> Y] /\ list \in [1..N -> T]
  BY <1>0, TakeIsOf DEF Y
<1>2. \A m \in Y, r \in T : step[<<m, r>>] = Take(m, r)
  OBVIOUS
<1>3. \A i \in 1..N : list[i] = parts[i]
  OBVIOUS
<1>3a. Nothing \in Y
  BY DEF Nothing, Y, Taking
<1> HIDE DEF step, list
<1>4. PICK iter \in [SUBSET (1..N) -> Y] : Iterates(iter, N, Nothing, step, list)
  BY <1>0, <1>1, <1>3a, IterationExists
<1>5. \A s \in SUBSET (1..N) :
          iter[s] = IF s = {} THEN Nothing ELSE Take(iter[s \ {Max(s)}], parts[Max(s)])
  <2> TAKE s \in SUBSET (1..N)
  <2>1. s # {} => Max(s) \in s
    BY <1>0, MaxOf
  <2>2. s # {} => iter[s \ {Max(s)}] \in Y /\ parts[Max(s)] \in T /\ list[Max(s)] = parts[Max(s)]
    BY <1>0, <1>3, <2>1
  <2> QED
    BY <1>2, <1>4, <2>2 DEF Iterates
<1> DEFINE g == CHOOSE h : h = [s \in SUBSET (1..N) |->
                                  IF s = {} THEN Nothing ELSE Take(h[s \ {Max(s)}], parts[Max(s)])]
<1>6. iter = [s \in SUBSET (1..N) |->
                IF s = {} THEN Nothing ELSE Take(iter[s \ {Max(s)}], parts[Max(s)])]
  BY <1>5
<1>7. g = [s \in SUBSET (1..N) |-> IF s = {} THEN Nothing ELSE Take(g[s \ {Max(s)}], parts[Max(s)])]
  BY <1>6
<1>8. Taken(parts) = g[1..N]
  BY <1>0, Zenon DEF Taken, FoldLeft, MapThenFoldSet
<1> DEFINE f == [i \in 0..N |-> g[1..i]]
<1> HIDE DEF g
<1>9. f[0] = Nothing
  BY <1>0, <1>7
<1>10. ASSUME NEW i \in 1..N
       PROVE  f[i] = Take(f[i - 1], parts[i])
  <2>1. Max(1..i) = i /\ (1..i) \ {i} = 1..(i - 1) /\ 1..i # {} /\ 1..i \in SUBSET (1..N)
    BY <1>0, MaxOfPrefix, PrefixIn
  <2>2. g[1..i] = Take(g[(1..i) \ {Max(1..i)}], parts[Max(1..i)])
    BY <1>7, <2>1
  <2>3. i \in 0..N /\ i - 1 \in 0..N
    BY <1>0
  <2> QED
    BY <2>1, <2>2, <2>3
<1>11. f[N] = g[1..N]
  BY <1>0
<1> HIDE DEF f
<1> QED
  BY <1>8, <1>9, <1>10, <1>11 DEF N

\* A group that is one part, or not much longer than its budget.
Fits(t) == Len(t) = 1 \/ TextChars(t) <= 9 * MaxTokens - 2
Groups(T) == {t \in Seq(T) : t # <<>> /\ Fits(t)}

\* What the estimates that a group was filled up by say of its length.
Filled(t, size) ==
    /\ Len(t) <= size /\ TextChars(t) <= 4 * size + 5 * Len(t) - 2
    /\ Len(t) > 1 => size <= MaxTokens

LEMMA FilledOne ==
  ASSUME NEW p \in Paragraphs
  PROVE  Filled(<<p>>, Tokens(Chars(p)))
<1> DEFINE c == Chars(p)  k == Tokens(c)  x == TextChars(<<p>>)
<1>1. c \in Nat /\ x = c
  BY CharsOf, TextCharsOfOne
<1> HIDE DEF c
<1>2. k \in Nat \ {0} /\ c <= 4 * k + 3
  BY <1>1, TokensBound
<1>3. Len(<<p>>) = 1
  OBVIOUS
<1> HIDE DEF k, x
<1>4. 1 <= k /\ x <= 4 * k + 5 * 1 - 2
  BY <1>1, <1>2
<1> QED
  BY <1>3, <1>4 DEF Filled, x, k, c

LEMMA FilledMore ==
  ASSUME NEW t \in Seq(Paragraphs), t # <<>>, NEW size \in Nat, Filled(t, size),
         NEW p \in Paragraphs, size + Tokens(Chars(p)) <= MaxTokens
  PROVE  Filled(Append(t, p), size + Tokens(Chars(p)))
<1> DEFINE c == Chars(p)  k == Tokens(c)  n == Len(t)  x == TextChars(t)  y == TextChars(Append(t, p))
<1>1. c \in Nat /\ y = x + c + 2 /\ x \in Nat /\ n \in Nat /\ Len(Append(t, p)) = n + 1
  BY CharsOf, TextCharsOfAppend, TextCharsOf
<1>2. n <= size /\ x <= 4 * size + 5 * n - 2
  BY DEF Filled
<1> HIDE DEF c, n, x, y
<1>3. k \in Nat \ {0} /\ c <= 4 * k + 3
  BY <1>1, TokensBound
<1> HIDE DEF k
<1>4. n + 1 <= size + k /\ y <= 4 * (size + k) + 5 * (n + 1) - 2
  BY <1>1, <1>2, <1>3
<1>5. size + k <= MaxTokens
  BY DEF k, c
<1> QED
  BY <1>1, <1>4, <1>5 DEF Filled, y, k, c

LEMMA FilledFits ==
  ASSUME NEW t \in Seq(Paragraphs), t # <<>>, NEW size \in Nat, Filled(t, size)
  PROVE  Fits(t)
<1> DEFINE n == Len(t)  x == TextChars(t)
<1>1. n \in Nat /\ n # 0 /\ x \in Nat /\ MaxTokens \in Nat
  BY TextCharsOf, ChunkingAssumption DEF ChunkingAssumption
<1>2. n <= size /\ x <= 4 * size + 5 * n - 2 /\ (n > 1 => size <= MaxTokens)
  BY DEF Filled
<1> HIDE DEF n, x
<1>3. n = 1 \/ x <= 9 * MaxTokens - 2
  BY <1>1, <1>2
<1> QED
  BY <1>3 DEF Fits, n, x

\* The groups of _pack are of its parts, and each is one of them or fits.
LEMMA PackedGroups ==
  ASSUME NEW T \in SUBSET Paragraphs, NEW parts \in Seq(T)
  PROVE  Pack(parts) \in Seq(Groups(T))
<1> DEFINE N == Len(parts)
           Good(y) == /\ y \in Taking(T) /\ y.packed \in Seq(Groups(T))
                      /\ IF y.current = <<>> THEN y.size = 0 ELSE Filled(y.current, y.size)
<1>1. N \in Nat /\ \A i \in 1..N : parts[i] \in T
  OBVIOUS
<1>2. PICK f : /\ f[0] = Nothing /\ f[N] = Taken(parts)
               /\ \A i \in 1..N : f[i] = Take(f[i - 1], parts[i])
  BY TakeTurns
<1>3. ASSUME NEW y, Good(y), y.current # <<>>
      PROVE  y.current \in Groups(T)
  <2>1. y.current \in Seq(T) /\ y.current \in Seq(Paragraphs) /\ y.size \in Nat /\ Filled(y.current, y.size)
    BY <1>3 DEF Taking
  <2> QED
    BY <1>3, <2>1, FilledFits DEF Groups
<1>4. ASSUME NEW y, Good(y), NEW p \in T
      PROVE  Good(Take(y, p))
  <2> DEFINE c == Tokens(Chars(p))  z == Take(y, p)
  <2>1. /\ y.packed \in Seq(Groups(T)) /\ y.current \in Seq(T) /\ y.current \in Seq(Paragraphs)
        /\ y.size \in Nat /\ y \in Taking(T)
    BY <1>4 DEF Taking
  <2>2. z \in Taking(T)
    BY <2>1, TakeIsOf
  <2>3. CASE y.current # <<>> /\ y.size + c > MaxTokens
    <3>1. z.packed = Append(y.packed, y.current) /\ z.current = <<p>> /\ z.size = c
      BY <2>3 DEF Take
    <3>2. y.current \in Groups(T)
      BY <1>3, <1>4, <2>3
    <3>3. z.packed \in Seq(Groups(T))
      BY <2>1, <3>1, <3>2
    <3> QED
      BY <2>2, <3>1, <3>3, FilledOne
  <2>4. CASE y.current = <<>>
    <3>1. z.packed = y.packed /\ z.current = <<p>> /\ z.size = 0 + c
      BY <1>4, <2>4 DEF Take
    <3>2. c \in Nat
      BY CharsOf, TokensBound
    <3>3. z.size = c
      BY <3>1, <3>2
    <3> QED
      BY <2>1, <2>2, <3>1, <3>3, FilledOne
  <2>5. CASE y.current # <<>> /\ ~(y.size + c > MaxTokens)
    <3>1. z.packed = y.packed /\ z.current = Append(y.current, p) /\ z.size = y.size + c
      BY <2>5 DEF Take
    <3>2. c \in Nat /\ MaxTokens \in Nat
      BY CharsOf, TokensBound, ChunkingAssumption DEF ChunkingAssumption
    <3>3. y.size + c <= MaxTokens
      BY <2>1, <2>5, <3>2
    <3>4. Filled(Append(y.current, p), y.size + c)
      BY <1>4, <2>1, <2>5, <3>3, FilledMore
    <3>5. Append(y.current, p) # <<>>
      BY <2>1
    <3> QED
      BY <2>1, <2>2, <3>1, <3>4, <3>5
  <2> QED
    BY <2>3, <2>4, <2>5
<1> DEFINE S == {n \in 0..N : Good(f[n])}
<1>5. Good(Nothing)
  BY DEF Nothing, Taking
<1> HIDE DEF Good
<1>6. 0 \in S
  BY <1>1, <1>2, <1>5
<1>7. ASSUME NEW n \in 0..(N - 1), n \in S PROVE n + 1 \in S
  <2>1. n + 1 \in 1..N /\ n + 1 \in 0..N /\ (n + 1) - 1 = n /\ Good(f[n])
    BY <1>1, <1>7
  <2>2. f[n + 1] = Take(f[n], parts[n + 1]) /\ parts[n + 1] \in T
    BY <1>1, <1>2, <2>1
  <2> QED
    BY <1>4, <2>1, <2>2
<1>8. \A n \in 0..(N - 1) : n \in S => n + 1 \in S
  BY <1>7
<1> HIDE DEF S
<1>9. N \in S
  BY <1>1, <1>6, <1>8, LastTurn
<1> DEFINE end == Taken(parts)
<1>10. Good(end)
  BY <1>2, <1>9 DEF S
<1>11. Pack(parts) = IF end.current = <<>> THEN end.packed ELSE Append(end.packed, end.current)
  BY DEF Pack, Taken
<1> HIDE DEF end
<1>12. end.packed \in Seq(Groups(T)) /\ (end.current # <<>> => end.current \in Groups(T))
  BY <1>3, <1>10 DEF Good
<1> QED
  BY <1>11, <1>12

-----------------------------------------------------------------------------
(* Passages.                                                               *)

\* Parts that fit, or are one sentence.
Pieces == {p \in Paragraphs : Tokens(Chars(p)) <= MaxTokens \/ Chars(p) <= 9 * MaxTokens - 2 \/ Len(p) = 1}

\* What is not much longer than the budget is bounded.
LEMMA ShortIsBounded ==
  ASSUME NEW n \in Nat, n <= 9 * MaxTokens - 2 \/ Tokens(n) <= MaxTokens
  PROVE  4 * Tokens(n) <= 9 * MaxTokens
<1> DEFINE k == Tokens(n)
<1>1. k \in Nat /\ (4 * k <= n \/ k = 1) /\ MaxTokens \in Nat \ {0}
  BY TokensBound, ChunkingAssumption DEF ChunkingAssumption
<1>2. n <= 9 * MaxTokens - 2 \/ k <= MaxTokens
  OBVIOUS
<1> HIDE DEF k
<1>3. 4 * k <= 9 * MaxTokens
  BY <1>1, <1>2
<1> QED
  BY <1>3 DEF k

\* The sentences of a text, joined, are no longer than its paragraphs.
LEMMA JoinedChars ==
  ASSUME NEW t \in Seq(Paragraphs), t # <<>>
  PROVE  FlattenSeq(t) \in Paragraphs /\ Chars(FlattenSeq(t)) <= TextChars(t)
<1> DEFINE N == Len(t)
           S == {n \in 0..N : n = 0 \/ (/\ FlattenSeq(SubSeq(t, 1, n)) \in Paragraphs
                                         /\ Chars(FlattenSeq(SubSeq(t, 1, n))) <= TextChars(SubSeq(t, 1, n)))}
<1>1. N \in Nat /\ N # 0 /\ 0 \in S /\ SubSeq(t, 1, N) = t
  OBVIOUS
<1>2. ASSUME NEW n \in 0..(N - 1), n \in S PROVE n + 1 \in S
  <2> DEFINE u == SubSeq(t, 1, n)  p == t[n + 1]  v == SubSeq(t, 1, n + 1)
  <2>1. u \in Seq(Paragraphs) /\ p \in Paragraphs /\ v = Append(u, p) /\ n + 1 \in 0..N /\ n \in Nat
    OBVIOUS
  <2>2. n = 0 => v = <<p>>
    <3>1. n = 0 => u = <<>>
      OBVIOUS
    <3> HIDE DEF u, v, p
    <3>2. Append(<<>>, p) = <<p>>
      OBVIOUS
    <3> QED
      BY <2>1, <3>1, <3>2
  <2>3. n # 0 => u # <<>>
    OBVIOUS
  <2>4. n # 0 => FlattenSeq(u) \in Paragraphs /\ Chars(FlattenSeq(u)) <= TextChars(u)
    BY <1>2
  <2>5. FlattenSeq(v) \in Paragraphs /\ Chars(FlattenSeq(v)) <= TextChars(v) => n + 1 \in S
    BY <2>1
  <2>6. p \in Seq(Nat) /\ p # <<>>
    BY <2>1 DEF Paragraphs
  <2> HIDE DEF u, p, v, S
  <2>7. CASE n = 0
    <3>1. FlattenSeq(v) = p /\ TextChars(v) = Chars(p) /\ Chars(p) \in Nat
      BY <2>1, <2>2, <2>6, <2>7, FlattenOfOne, TextCharsOfOne, CharsOf
    <3>2. Chars(p) <= Chars(p)
      BY <3>1
    <3> QED
      BY <2>1, <2>5, <3>1, <3>2
  <2>8. CASE n # 0
    <3> DEFINE a == FlattenSeq(u)
    <3>1. u \in Seq(Seq(Nat))
      BY <2>1 DEF Paragraphs
    <3>2. FlattenSeq(v) = a \o p /\ a \in Seq(Nat)
      BY <2>1, <2>6, <3>1, FlattenOfAppend
    <3>3. a \in Paragraphs /\ Chars(a) <= TextChars(u)
      BY <2>4, <2>8
    <3> HIDE DEF a
    <3>4. a \o p \in Seq(Nat) /\ Len(a \o p) = Len(a) + Len(p) /\ a \o p # <<>> /\ Len(a) \in Nat /\ Len(p) \in Nat
      BY <2>6, <3>2, <3>3
    <3>5. a \o p \in Paragraphs
      BY <3>4 DEF Paragraphs
    <3>6. Sum(a \o p) = Sum(a) + Sum(p) /\ Sum(a) \in Nat /\ Sum(p) \in Nat
      BY <2>6, <3>2, SumIsSum, SumOfConcat, SumOfAppend
    <3> DEFINE sa == Sum(a)  sp == Sum(p)  sv == Sum(a \o p)  la == Len(a)  lp == Len(p)  lv == Len(a \o p)
               xu == TextChars(u)  xv == TextChars(v)
    <3>7. xv = xu + (sp + lp - 1) + 2 /\ xu \in Int
      BY <2>1, TextCharsOfAppend DEF Chars
    <3>8. sa + la - 1 <= xu
      BY <3>3 DEF Chars
    <3>9. sv = sa + sp /\ sa \in Nat /\ sp \in Nat /\ lv = la + lp /\ la \in Nat /\ lp \in Nat
      BY <3>4, <3>6
    <3> HIDE DEF sa, sp, sv, la, lp, lv, xu, xv
    <3>10. sv + lv - 1 <= xv
      BY <3>7, <3>8, <3>9
    <3>11. Chars(a \o p) <= TextChars(v)
      BY <3>10 DEF Chars, sv, lv, xv
    <3> QED
      BY <2>5, <3>2, <3>5, <3>11 DEF a
  <2> QED
    BY <2>7, <2>8
<1>3. \A n \in 0..(N - 1) : n \in S => n + 1 \in S
  BY <1>2
<1> HIDE DEF S
<1>4. N \in S
  BY <1>1, <1>3, LastTurn
<1> QED
  BY <1>1, <1>4 DEF S

\* _paragraphs leaves nothing longer, but a sentence.
LEMMA PartsArePieces ==
  ASSUME NEW p \in Paragraphs
  PROVE  Parts(p) \in Seq(Pieces)
<1>1. CASE Tokens(Chars(p)) <= MaxTokens
  BY <1>1 DEF Parts, Pieces
<1>2. CASE ~(Tokens(Chars(p)) <= MaxTokens)
  <2> DEFINE T == {q \in Paragraphs : Len(q) = 1}
             alone == [i \in DOMAIN p |-> <<p[i]>>]
             groups == Pack(alone)
  <2>1. alone \in Seq(T)
    <3>1. p \in Seq(Nat)
      BY DEF Paragraphs
    <3>2. \A i \in DOMAIN p : <<p[i]>> \in T
      BY <3>1 DEF Paragraphs
    <3> HIDE DEF T
    <3> QED
      BY <3>1, <3>2
  <2>2. groups \in Seq(Groups(T))
    <3>1. T \in SUBSET Paragraphs
      OBVIOUS
    <3> HIDE DEF T, alone
    <3> QED
      BY <2>1, <3>1, PackedGroups
  <2> HIDE DEF groups
  <2>3. ASSUME NEW g \in Groups(T)
        PROVE  FlattenSeq(g) \in Pieces
    <3>1. g \in Seq(T) /\ g \in Seq(Paragraphs) /\ g # <<>> /\ Fits(g)
      BY DEF Groups
    <3>2. FlattenSeq(g) \in Paragraphs /\ Chars(FlattenSeq(g)) <= TextChars(g)
      BY <3>1, JoinedChars
    <3>3. CASE Len(g) = 1
      <4>1. g = <<g[1]>> /\ g[1] \in T
        BY <3>1, <3>3
      <4>2. g[1] \in Seq(Nat) /\ Len(g[1]) = 1
        BY <4>1 DEF Paragraphs
      <4> DEFINE q == g[1]
      <4> HIDE DEF q
      <4>3. FlattenSeq(<<q>>) = q
        BY <4>2, FlattenOfOne DEF q
      <4> QED
        BY <3>2, <4>1, <4>2, <4>3 DEF Pieces, q
    <3>4. CASE TextChars(g) <= 9 * MaxTokens - 2
      <4> DEFINE c == Chars(FlattenSeq(g))  x == TextChars(g)
      <4>1. c \in Nat /\ x \in Nat /\ MaxTokens \in Nat /\ c <= x /\ x <= 9 * MaxTokens - 2
        BY <3>1, <3>2, <3>4, CharsOf, TextCharsOf, ChunkingAssumption DEF ChunkingAssumption
      <4> HIDE DEF c, x
      <4>2. c <= 9 * MaxTokens - 2
        BY <4>1
      <4> QED
        BY <3>2, <4>2 DEF Pieces, c
    <3> QED
      BY <3>1, <3>3, <3>4 DEF Fits
  <2> DEFINE joined == [g \in DOMAIN groups |-> FlattenSeq(groups[g])]
  <2>4. joined \in Seq(Pieces)
    <3>1. \A g \in DOMAIN groups : FlattenSeq(groups[g]) \in Pieces
      BY <2>2, <2>3
    <3>2. DOMAIN groups = 1..Len(groups) /\ Len(groups) \in Nat
      BY <2>2
    <3> QED
      BY <3>1, <3>2
  <2>5. Parts(p) = joined
    BY <1>2 DEF Parts, groups
  <2> QED
    BY <2>4, <2>5
<1> QED
  BY <1>1, <1>2

\* The passages of a text: not blank, and bounded.
Bounded == {t \in Seq(Paragraphs) : t # <<>> /\ IsBounded(t)}

LEMMA OfPiecesIsBounded ==
  ASSUME NEW t \in Seq(Pieces), t # <<>>, Fits(t)
  PROVE  t \in Bounded
<1>1. t \in Seq(Paragraphs)
  BY DEF Pieces
<1> DEFINE x == TextChars(t)
<1>2. x \in Nat
  BY <1>1, TextCharsOf
<1>3. CASE Len(t) = 1
  <2> DEFINE p == t[1]
  <2>1. t = <<p>> /\ p \in Pieces /\ p \in Paragraphs
    BY <1>1, <1>3
  <2> HIDE DEF p
  <2>2. x = Chars(p) /\ p \in Seq(Nat)
    BY <2>1, TextCharsOfOne DEF Paragraphs
  <2>3. FlattenSeq(t) = p
    BY <2>1, <2>2, FlattenOfOne
  <2>4. CASE Len(p) = 1
    BY <1>1, <2>3, <2>4 DEF Bounded, IsBounded
  <2>5. CASE Tokens(Chars(p)) <= MaxTokens \/ Chars(p) <= 9 * MaxTokens - 2
    <3>1. 4 * Tokens(x) <= 9 * MaxTokens
      BY <1>2, <2>2, <2>5, ShortIsBounded
    <3> QED
      BY <1>1, <3>1 DEF Bounded, IsBounded
  <2> QED
    BY <2>1, <2>4, <2>5 DEF Pieces
<1>4. CASE x <= 9 * MaxTokens - 2
  <2>1. 4 * Tokens(x) <= 9 * MaxTokens
    BY <1>2, <1>4, ShortIsBounded
  <2> QED
    BY <1>1, <2>1 DEF Bounded, IsBounded
<1> QED
  BY <1>3, <1>4 DEF Fits

LEMMA SplitIsBounded ==
  ASSUME NEW text \in Prose
  PROVE  SplitToBudget(text) \in Seq(Bounded)
<1>0. text \in Seq(Paragraphs)
  BY DEF Prose, Paragraphs
<1>1. CASE text = <<>>
  BY <1>1 DEF SplitToBudget
<1>2. CASE text # <<>> /\ Tokens(TextChars(text)) <= MaxTokens
  <2>1. 4 * Tokens(TextChars(text)) <= 9 * MaxTokens
    BY <1>0, <1>2, TextCharsOf, ShortIsBounded
  <2>2. text \in Bounded
    BY <1>0, <1>2, <2>1 DEF Bounded, IsBounded
  <2>3. SplitToBudget(text) = <<text>>
    BY <1>2 DEF SplitToBudget
  <2> QED
    BY <2>2, <2>3
<1>3. CASE text # <<>> /\ ~(Tokens(TextChars(text)) <= MaxTokens)
  <2> DEFINE split == [i \in DOMAIN text |-> Parts(text[i])]  parts == FlattenSeq(split)
  <2>1. split \in Seq(Seq(Pieces))
    <3>1. \A i \in DOMAIN text : Parts(text[i]) \in Seq(Pieces)
      BY <1>0, PartsArePieces
    <3>2. DOMAIN text = 1..Len(text) /\ Len(text) \in Nat
      BY <1>0
    <3> QED
      BY <3>1, <3>2
  <2> HIDE DEF split
  <2>2. parts \in Seq(Pieces)
    BY <2>1, FlattenIsOf
  <2> HIDE DEF parts
  <2>3. Pieces \in SUBSET Paragraphs
    BY DEF Pieces
  <2>4. Pack(parts) \in Seq(Groups(Pieces))
    BY <2>2, <2>3, PackedGroups
  <2>5. Groups(Pieces) \subseteq Bounded
    BY OfPiecesIsBounded DEF Groups
  <2>6. SplitToBudget(text) = Pack(parts)
    BY <1>3 DEF SplitToBudget, parts, split
  <2> QED
    BY <2>4, <2>5, <2>6
<1> QED
  BY <1>1, <1>2, <1>3

\* What each passage of an article is.
LEMMA ChunksAreBounded ==
  ASSUME NEW article \in Articles
  PROVE  /\ ChunkPage(article) \in Seq(ToSet(ChunkPage(article)))
         /\ \A n \in DOMAIN ChunkPage(article) : ChunkPage(article)[n].text \in Bounded
<1> DEFINE sections == Sections(article)
           Passages == {[path |-> sections[i].path, text |-> t, mentions |-> Mentions(sections[i].links)] :
                           i \in DOMAIN sections, t \in Bounded}
           chunks == [i \in DOMAIN sections |-> SectionChunks(sections[i])]
<1>1. /\ article.lead.prose \in Prose /\ article.sections \in Seq(ToSet(article.sections))
      /\ \A i \in DOMAIN article.sections : article.sections[i].prose \in Prose
  BY ChunkingAssumption DEF ChunkingAssumption
<1> DEFINE M == Len(article.sections)
           rest == [i \in DOMAIN article.sections |-> Part(Path(article, i), article.sections[i])]
<1>2. M \in Nat /\ DOMAIN article.sections = 1..M
  BY <1>1
<1>3. \A i \in 1..M : rest[i].prose \in Prose
  BY <1>1, <1>2 DEF Part
<1>4. /\ sections = <<Part(<<>>, article.lead)>> \o rest
      /\ Part(<<>>, article.lead).prose \in Prose
  BY <1>1 DEF Sections, Part
<1>5. rest \in Seq(ToSet(rest)) /\ Len(rest) = M
  BY <1>2 DEF ToSet
<1> HIDE DEF M, rest, sections
<1>6. /\ DOMAIN sections = 1..(M + 1)
      /\ sections[1] = Part(<<>>, article.lead)
      /\ \A i \in 2..(M + 1) : sections[i] = rest[i - 1] /\ i - 1 \in 1..M
  BY <1>2, <1>4, <1>5
<1>7. \A i \in DOMAIN sections : sections[i].prose \in Prose
  BY <1>2, <1>3, <1>4, <1>6
<1>8. ASSUME NEW i \in DOMAIN sections
      PROVE  SectionChunks(sections[i]) \in Seq(Passages)
  <2> DEFINE s == sections[i]  texts == SplitToBudget(s.prose)
             cut == [n \in DOMAIN texts |-> [path |-> s.path, text |-> texts[n], mentions |-> Mentions(s.links)]]
  <2>1. texts \in Seq(Bounded)
    BY <1>7, SplitIsBounded
  <2>2. SectionChunks(s) = <<>> \/ SectionChunks(s) = cut
    BY DEF SectionChunks
  <2> HIDE DEF texts
  <2>3. cut \in Seq(Passages)
    <3>1. DOMAIN texts = 1..Len(texts) /\ Len(texts) \in Nat /\ \A n \in DOMAIN texts : texts[n] \in Bounded
      BY <2>1
    <3>2. \A n \in DOMAIN texts : cut[n] \in Passages
      BY <3>1
    <3> HIDE DEF Passages
    <3> QED
      BY <3>1, <3>2
  <2> HIDE DEF cut, Passages
  <2>4. <<>> \in Seq(Passages)
    OBVIOUS
  <2>5. SectionChunks(s) \in Seq(Passages)
    <3> HIDE DEF s
    <3> QED
      BY <2>2, <2>3, <2>4
  <2> QED
    BY <2>5
<1> HIDE DEF Passages
<1>9. chunks \in Seq(Seq(Passages))
  BY <1>2, <1>6, <1>8
<1> HIDE DEF chunks
<1>10. FlattenSeq(chunks) \in Seq(Passages)
  BY <1>9, FlattenIsOf
<1>11. ChunkPage(article) = FlattenSeq(chunks)
  BY DEF ChunkPage, chunks, sections
<1>12. \A c \in Passages : c.text \in Bounded
  BY DEF Passages
<1> DEFINE page == ChunkPage(article)
<1> HIDE DEF page
<1>13. page \in Seq(Passages)
  BY <1>10, <1>11 DEF page
<1>14. \A n \in 1..Len(page) : page[n] \in ToSet(page)
  BY <1>13 DEF ToSet
<1>15. page \in Seq(ToSet(page)) /\ \A n \in DOMAIN page : page[n].text \in Bounded
  BY <1>12, <1>13, <1>14
<1> QED
  BY <1>15 DEF page

-----------------------------------------------------------------------------
(* The loop of _fit.                                                       *)

IsBoundedRow(r) == r.passage.text \in Bounded

LEMMA RowTokens ==
  ASSUME NEW r, IsBoundedRow(r)
  PROVE  PassageTokens(r) \in Nat
<1> DEFINE x == TextChars(r.passage.text)
<1>1. x \in Nat /\ HeadingChars \in Nat
  BY TextCharsOf, RetrievalAssumption DEF IsBoundedRow, Bounded, RetrievalAssumption
<1> HIDE DEF x
<1>2. HeadingChars + x \in Nat
  BY <1>1
<1> QED
  BY <1>2, TokensBound DEF PassageTokens, x

LEMMA SpentOfAppend ==
  ASSUME NEW T, \A r \in T : IsBoundedRow(r), NEW s \in Seq(T), NEW r \in T
  PROVE  Spent(s) \in Nat /\ Spent(Append(s, r)) = Spent(s) + PassageTokens(r)
<1> DEFINE n == Len(s)  u == Append(s, r)
           costs == [i \in DOMAIN s |-> PassageTokens(s[i])]
           more == [i \in DOMAIN u |-> PassageTokens(u[i])]
<1>1. costs \in Seq(Nat) /\ PassageTokens(r) \in Nat
  BY RowTokens
<1>2. /\ n \in Nat /\ DOMAIN s = 1..n /\ DOMAIN u = 1..(n + 1) /\ Len(u) = n + 1
      /\ \A i \in 1..n : u[i] = s[i]
      /\ u[n + 1] = r
  OBVIOUS
<1>3. more = Append(costs, PassageTokens(r))
  BY <1>2
<1> HIDE DEF costs, more
<1>4. Sum(more) = Sum(costs) + PassageTokens(r) /\ Sum(costs) \in Nat
  BY <1>1, <1>3, SumIsSum, SumOfAppend
<1> QED
  BY <1>4 DEF Spent, costs, more

LEMMA SpentOfNone == Spent(<<>>) = 0
<1>1. [i \in DOMAIN <<>> |-> PassageTokens(<<>>[i])] = <<>>
  OBVIOUS
<1> QED
  BY <1>1, SumIsSum, SumOfNone DEF Spent

Fitting(T) == [kept : Seq(T), budget : Int]
Fitted(rows, budget) == FoldLeft(Keep, [kept |-> <<>>, budget |-> budget], rows)

LEMMA KeepIsOf ==
  ASSUME NEW T, \A r \in T : IsBoundedRow(r), NEW y \in Fitting(T), NEW r \in T
  PROVE  Keep(y, r) \in Fitting(T)
<1>1. PassageTokens(r) \in Nat
  BY RowTokens
<1>2. y.kept \in Seq(T) /\ y.budget \in Int /\ Append(y.kept, r) \in Seq(T)
  BY DEF Fitting
<1> QED
  BY <1>1, <1>2 DEF Keep, Fitting

LEMMA KeepTurns ==
  ASSUME NEW T, \A r \in T : IsBoundedRow(r), NEW rows \in Seq(T), NEW budget \in Int
  PROVE  \E f : /\ f[0] = [kept |-> <<>>, budget |-> budget] /\ f[Len(rows)] = Fitted(rows, budget)
                /\ \A i \in 1..Len(rows) : f[i] = Keep(f[i - 1], rows[i])
<1> DEFINE N == Len(rows)  Y == Fitting(T)  base == [kept |-> <<>>, budget |-> budget]
<1>0. N \in Nat /\ DOMAIN rows = 1..N /\ \A i \in 1..N : rows[i] \in T
  OBVIOUS
<1> HIDE DEF N
<1> DEFINE step == [p \in Y \X T |-> Keep(p[1], p[2])]
           list == [i \in 1..N |-> rows[i]]
<1> HIDE DEF Y
<1>1. step \in [Y \X T -> Y] /\ list \in [1..N -> T]
  BY <1>0, KeepIsOf DEF Y
<1>2. \A m \in Y, r \in T : step[<<m, r>>] = Keep(m, r)
  OBVIOUS
<1>3. \A i \in 1..N : list[i] = rows[i]
  OBVIOUS
<1>3a. base \in Y
  BY DEF Y, Fitting
<1> HIDE DEF step, list, base
<1>4. PICK iter \in [SUBSET (1..N) -> Y] : Iterates(iter, N, base, step, list)
  BY <1>0, <1>1, <1>3a, IterationExists
<1>5. \A s \in SUBSET (1..N) :
          iter[s] = IF s = {} THEN base ELSE Keep(iter[s \ {Max(s)}], rows[Max(s)])
  <2> TAKE s \in SUBSET (1..N)
  <2>1. s # {} => Max(s) \in s
    BY <1>0, MaxOf
  <2>2. s # {} => iter[s \ {Max(s)}] \in Y /\ rows[Max(s)] \in T /\ list[Max(s)] = rows[Max(s)]
    BY <1>0, <1>3, <2>1
  <2> QED
    BY <1>2, <1>4, <2>2 DEF Iterates
<1> DEFINE g == CHOOSE h : h = [s \in SUBSET (1..N) |->
                                  IF s = {} THEN base ELSE Keep(h[s \ {Max(s)}], rows[Max(s)])]
<1>6. iter = [s \in SUBSET (1..N) |->
                IF s = {} THEN base ELSE Keep(iter[s \ {Max(s)}], rows[Max(s)])]
  BY <1>5
<1>7. g = [s \in SUBSET (1..N) |-> IF s = {} THEN base ELSE Keep(g[s \ {Max(s)}], rows[Max(s)])]
  BY <1>6
<1>8. Fitted(rows, budget) = g[1..N]
  BY <1>0, Zenon DEF Fitted, FoldLeft, MapThenFoldSet, base
<1> DEFINE f == [i \in 0..N |-> g[1..i]]
<1> HIDE DEF g
<1>9. f[0] = base
  BY <1>0, <1>7
<1>10. ASSUME NEW i \in 1..N
       PROVE  f[i] = Keep(f[i - 1], rows[i])
  <2>1. Max(1..i) = i /\ (1..i) \ {i} = 1..(i - 1) /\ 1..i # {} /\ 1..i \in SUBSET (1..N)
    BY <1>0, MaxOfPrefix, PrefixIn
  <2>2. g[1..i] = Keep(g[(1..i) \ {Max(1..i)}], rows[Max(1..i)])
    BY <1>7, <2>1
  <2>3. i \in 0..N /\ i - 1 \in 0..N
    BY <1>0
  <2> QED
    BY <2>1, <2>2, <2>3
<1>11. f[N] = g[1..N]
  BY <1>0
<1> HIDE DEF f
<1> QED
  BY <1>8, <1>9, <1>10, <1>11 DEF N, base

\* Of what is kept, the first n are those before the i-th row, and that one is kept
\* or did not fit behind them.
Behind(kept, rows, budget, i, n) ==
    /\ ToSet(SubSeq(kept, 1, n)) = ToSet(kept) \cap {rows[j] : j \in 1..(i - 1)}
    /\ rows[i] \notin ToSet(kept) =>
           \/ budget - Spent(SubSeq(kept, 1, n)) <= MinPassageTokens
           \/ PassageTokens(rows[i]) > budget - Spent(SubSeq(kept, 1, n))

\* What the first turns have kept.
Kept(y, T, rows, budget, turns) ==
    /\ y \in Fitting(T) /\ y.budget = budget - Spent(y.kept) /\ Spent(y.kept) \in Nat
    /\ y.kept # <<>> => y.budget >= 0
    /\ Distinct(y.kept)
    /\ \A k \in 1..Len(y.kept) : \E j \in 1..turns : y.kept[k] = rows[j]
    /\ \A i \in 1..turns : \E n \in 0..Len(y.kept) : Behind(y.kept, rows, budget, i, n)

LEMMA WholeList ==
  ASSUME NEW T, NEW s \in Seq(T)
  PROVE  Len(s) \in 0..Len(s) /\ SubSeq(s, 1, Len(s)) = s
  OBVIOUS

\* One turn of the loop.
LEMMA KeepTurn ==
  ASSUME NEW T, \A r \in T : IsBoundedRow(r), NEW rows \in Seq(T), Distinct(rows), NEW budget \in Int,
         NEW t \in 0..(Len(rows) - 1), NEW y, Kept(y, T, rows, budget, t)
  PROVE  Kept(Keep(y, rows[t + 1]), T, rows, budget, t + 1)
<1> DEFINE r == rows[t + 1]  kept == y.kept  cost == PassageTokens(r)
           rest == y.budget  z == Keep(y, r)  len == Len(y.kept)
           ahead(i) == {rows[j] : j \in 1..(i - 1)}
<1>1. /\ kept \in Seq(T) /\ rest \in Int /\ r \in T /\ t \in Nat /\ Len(rows) \in Nat /\ len \in Nat
      /\ t + 1 \in 1..Len(rows) /\ len = Len(kept)
      /\ \A k \in 1..len : \E j \in 1..t : kept[k] = rows[j]
      /\ rest = budget - Spent(kept) /\ Spent(kept) \in Nat /\ Distinct(kept)
      /\ \A i \in 1..t : \E n \in 0..len : Behind(kept, rows, budget, i, n)
  BY DEF Kept, Fitting
<1>2. cost \in Nat /\ MinPassageTokens \in Nat
  BY <1>1, RowTokens, RetrievalAssumption DEF RetrievalAssumption
<1>3. z = IF Id(r) \in Ids(ToSet(kept)) \/ rest <= MinPassageTokens \/ cost > rest
          THEN y ELSE [kept |-> Append(kept, r), budget |-> rest - cost]
  BY DEF Keep
<1>4. ASSUME NEW i \in 1..(t + 1), NEW j \in 1..(i - 1) PROVE Id(rows[j]) # Id(r)
  <2>1. j \in 1..Len(rows) /\ t + 1 \in 1..Len(rows) /\ j # t + 1
    BY <1>1
  <2> QED
    BY <2>1 DEF Distinct
<1> DEFINE new == Append(kept, r)
<1> HIDE DEF kept, r, len, rest, cost, z
<1>5. ASSUME NEW k \in 1..len PROVE Id(kept[k]) # Id(r)
  <2>1. PICK j \in 1..t : kept[k] = rows[j]
    BY <1>1
  <2>2. t + 1 \in 1..(t + 1) /\ j \in 1..((t + 1) - 1)
    BY <1>1
  <2> QED
    BY <1>4, <2>1, <2>2
<1>6. ToSet(kept) = {kept[k] : k \in 1..len} /\ ToSet(new) = ToSet(kept) \cup {r}
  <2>1. ToSet(new) = ToSet(kept) \cup {r} /\ DOMAIN kept = 1..len
    BY <1>1, AppendedSet
  <2> HIDE DEF new
  <2> QED
    BY <2>1 DEF ToSet
<1>7. Id(r) \notin Ids(ToSet(kept)) /\ r \notin ToSet(kept)
  BY <1>5, <1>6 DEF Ids
<1>8. ToSet(kept) \subseteq ahead(t + 1)
  <2>1. (t + 1) - 1 = t
    BY <1>1
  <2>2. ASSUME NEW k \in 1..len PROVE kept[k] \in {rows[j] : j \in 1..t}
    BY <1>1
  <2>3. ahead(t + 1) = {rows[j] : j \in 1..t}
    BY <2>1
  <2> HIDE DEF ahead
  <2> QED
    BY <1>6, <2>2, <2>3
<1>9. \A i \in 1..(t + 1) : i \in 1..t \/ i = t + 1
  BY <1>1
<1>10. len \in 0..len /\ SubSeq(kept, 1, len) = kept
  BY <1>1, WholeList
<1>11. \A i \in 1..(t + 1) : r \notin ahead(i)
  BY <1>4
<1> HIDE DEF ahead
<1>12. CASE rest <= MinPassageTokens \/ cost > rest
  <2>1. z = y /\ kept = y.kept
    BY <1>3, <1>12 DEF kept
  <2>2. Behind(kept, rows, budget, t + 1, len)
    <3>1. ToSet(kept) = ToSet(kept) \cap ahead(t + 1)
      BY <1>8
    <3>2. budget - Spent(kept) <= MinPassageTokens \/ PassageTokens(rows[t + 1]) > budget - Spent(kept)
      BY <1>1, <1>12 DEF cost, r
    <3> QED
      BY <1>10, <3>1, <3>2 DEF Behind, ahead
  <2>3. \A i \in 1..(t + 1) : \E n \in 0..len : Behind(kept, rows, budget, i, n)
    BY <1>1, <1>9, <1>10, <2>2
  <2>4. \A k \in 1..len : \E j \in 1..(t + 1) : kept[k] = rows[j]
    BY <1>1
  <2> QED
    BY <1>1, <2>1, <2>3, <2>4 DEF Kept, z, r
<1>13. CASE ~(rest <= MinPassageTokens \/ cost > rest)
  <2>1. z = [kept |-> new, budget |-> rest - cost]
    BY <1>3, <1>7, <1>13
  <2>2. /\ new \in Seq(T) /\ Len(new) = len + 1
        /\ new[len + 1] = r
    BY <1>1
  <2>2a. \A k \in 1..len : new[k] = kept[k]
    BY <1>1
  <2>3. \A n \in 0..len : SubSeq(new, 1, n) = SubSeq(kept, 1, n)
    BY <1>1, <2>2, <2>2a
  <2>5. Spent(new) = Spent(kept) + cost
    BY <1>1, SpentOfAppend DEF cost
  <2> HIDE DEF new
  <2>6. Spent(new) \in Nat /\ rest - cost = budget - Spent(new) /\ rest - cost >= 0 /\ rest - cost \in Int
    <3> DEFINE sn == Spent(new)  sk == Spent(kept)
    <3>1. sn = sk + cost /\ sk \in Nat /\ rest = budget - sk
      BY <1>1, <2>5
    <3> HIDE DEF sn, sk
    <3>2. sn \in Nat
      BY <1>2, <3>1
    <3>3. rest - cost = budget - sn
      <4>1. rest \in Int /\ cost \in Nat /\ budget \in Int
        BY <1>1, <1>2
      <4> QED
        BY <3>1, <4>1
    <3>4. rest - cost >= 0 /\ rest - cost \in Int
      BY <1>1, <1>2, <1>13
    <3> QED
      BY <3>2, <3>3, <3>4 DEF sn
  <2>7. Distinct(new)
    <3> SUFFICES ASSUME NEW i \in 1..Len(new), NEW j \in 1..Len(new), Id(new[i]) = Id(new[j]) PROVE i = j
      BY DEF Distinct
    <3>1. \A k \in 1..Len(new) : k \in 1..len \/ k = len + 1
      BY <1>1, <2>2
    <3>2. CASE i \in 1..len /\ j \in 1..len
      BY <1>1, <2>2a, <3>2 DEF Distinct
    <3>3. CASE i = len + 1 /\ j \in 1..len
      BY <1>5, <2>2, <2>2a, <3>3
    <3>4. CASE i \in 1..len /\ j = len + 1
      BY <1>5, <2>2, <2>2a, <3>4
    <3> QED
      BY <3>1, <3>2, <3>3, <3>4
  <2>8. \A k \in 1..Len(new) : \E j \in 1..(t + 1) : new[k] = rows[j]
    <3> TAKE k \in 1..Len(new)
    <3>0. k \in 1..len \/ k = len + 1
      BY <1>1, <2>2
    <3>1. CASE k \in 1..len
      <4>1. PICK j \in 1..t : kept[k] = rows[j]
        BY <1>1, <3>1
      <4>2. j \in 1..(t + 1)
        BY <1>1
      <4> QED
        BY <2>2a, <3>1, <4>1, <4>2
    <3>2. CASE k = len + 1
      <4>1. t + 1 \in 1..(t + 1)
        BY <1>1
      <4> QED
        BY <2>2, <3>2, <4>1 DEF r
    <3> QED
      BY <3>0, <3>1, <3>2
  <2>9. ASSUME NEW i \in 1..t
        PROVE  \E n \in 0..Len(new) : Behind(new, rows, budget, i, n)
    <3>1. PICK n \in 0..len : Behind(kept, rows, budget, i, n)
      BY <1>1
    <3>2. SubSeq(new, 1, n) = SubSeq(kept, 1, n) /\ n \in 0..Len(new) /\ i \in 1..(t + 1)
      BY <1>1, <2>2, <2>3
    <3>3. ToSet(new) \cap ahead(i) = ToSet(kept) \cap ahead(i)
      BY <1>6, <1>11, <3>2
    <3>4. rows[i] \notin ToSet(new) => rows[i] \notin ToSet(kept)
      BY <1>6
    <3>5. Behind(new, rows, budget, i, n)
      BY <3>1, <3>2, <3>3, <3>4 DEF Behind, ahead
    <3> QED
      BY <3>2, <3>5
  <2>10. Behind(new, rows, budget, t + 1, len) /\ len \in 0..Len(new)
    <3>1. SubSeq(new, 1, len) = kept
      BY <1>1, <1>10, <2>3
    <3>2. ToSet(kept) = ToSet(new) \cap ahead(t + 1)
      <4>1. r \notin ahead(t + 1)
        BY <1>1, <1>11
      <4> QED
        BY <1>6, <1>8, <4>1
    <3>3. rows[t + 1] \in ToSet(new)
      BY <1>6 DEF r
    <3>4. Behind(new, rows, budget, t + 1, len)
      BY <3>1, <3>2, <3>3 DEF Behind, ahead
    <3> QED
      BY <1>1, <2>2, <3>4
  <2>11. \A i \in 1..(t + 1) : \E n \in 0..Len(new) : Behind(new, rows, budget, i, n)
    BY <1>9, <2>9, <2>10
  <2>12. Kept(z, T, rows, budget, t + 1)
    BY <2>1, <2>2, <2>6, <2>7, <2>8, <2>11 DEF Kept, Fitting
  <2> QED
    BY <2>12 DEF z, r
<1> QED
  BY <1>12, <1>13

LEMMA AllKept ==
  ASSUME NEW T, \A r \in T : IsBoundedRow(r), NEW rows \in Seq(T), Distinct(rows), NEW budget \in Int
  PROVE  Kept(Fitted(rows, budget), T, rows, budget, Len(rows))
<1> DEFINE N == Len(rows)  base == [kept |-> <<>>, budget |-> budget]
<1>1. N \in Nat
  OBVIOUS
<1>2. PICK f : /\ f[0] = base /\ f[N] = Fitted(rows, budget)
               /\ \A i \in 1..N : f[i] = Keep(f[i - 1], rows[i])
  BY KeepTurns
<1> DEFINE S == {n \in 0..N : Kept(f[n], T, rows, budget, n)}
<1>3. Kept(base, T, rows, budget, 0)
  BY SpentOfNone DEF Kept, Fitting, Distinct
<1>4. 0 \in S
  BY <1>1, <1>2, <1>3
<1>5. ASSUME NEW n \in 0..(N - 1), n \in S PROVE n + 1 \in S
  <2>1. n + 1 \in 1..N /\ n + 1 \in 0..N /\ (n + 1) - 1 = n /\ Kept(f[n], T, rows, budget, n)
    BY <1>1, <1>5
  <2>2. f[n + 1] = Keep(f[n], rows[n + 1])
    BY <1>2, <2>1
  <2>3. Kept(Keep(f[n], rows[n + 1]), T, rows, budget, n + 1)
    BY <2>1, KeepTurn
  <2> QED
    BY <2>1, <2>2, <2>3
<1>6. \A n \in 0..(N - 1) : n \in S => n + 1 \in S
  BY <1>5
<1> HIDE DEF S
<1>7. N \in S
  BY <1>1, <1>4, <1>6, LastTurn
<1> QED
  BY <1>2, <1>7 DEF S

-----------------------------------------------------------------------------
(* What a question is told.                                                *)

\* Every passage that is stored, or may come to be, is bounded.
RowsAreBounded ==
    /\ \A r \in chunk : IsBoundedRow(r)
    /\ DOMAIN made = Builds /\ DOMAIN inserted = Builds
    /\ \A b \in Builds : /\ \A r \in made[b] : IsBoundedRow(r)
                         /\ \A r \in inserted[b] : IsBoundedRow(r)

\* The hits are such rows, none twice.
HitsHeld ==
    /\ hits \in Seq(ToSet(hits)) /\ Distinct(hits)
    /\ \A r \in ToSet(hits) : IsBoundedRow(r)
    /\ at \in {"asked", "graph", "narrow"} => hits = <<>>

\* A route that the checks of the router, or the caller, stand behind.
RouteHeld ==
    /\ facts \in Nat /\ route.intent \in Intents
    /\ ~UsesVector => route.forced \/ (route.template # NoTemplate /\ route.entities # {})

\* What merge makes of the two halves.
MergeHeld ==
    at = "retrieved" =>
        /\ passages = Fit(hits, TokenBudget - facts)
        /\ blocks = (IF facts = 0 THEN <<>> ELSE <<Block("graph_facts", {Graph}, facts)>>)
                       \o (IF passages = <<>> THEN <<>>
                           ELSE <<Block("passages", Ids(ToSet(passages)), Spent(passages))>>)

LEMMA EmbeddedIsBounded ==
  ASSUME NEW b \in Builds, NEW a \in Readings(WikiOf[b]), NEW r \in Embedded(b, a)
  PROVE  IsBoundedRow(r)
<1> DEFINE w == WikiOf[b]
<1>1. w \in DOMAIN Pages /\ \A p \in Pages[w] : Versions[p] \subseteq Articles \cup {NoArticle}
  BY IndexBuildAssumption DEF IndexBuildAssumption
<1>2. PICK p \in Pages[w] : \E n \in DOMAIN (IF a[p] = NoArticle THEN <<>> ELSE ChunkPage(a[p])) :
          r = Row(w, p, n, (IF a[p] = NoArticle THEN <<>> ELSE ChunkPage(a[p]))[n], b)
  BY DEF Embedded
<1>3. a[p] # NoArticle
  BY <1>2
<1>4. a[p] \in Articles
  BY <1>1, <1>2, <1>3 DEF Readings
<1>5. PICK n \in DOMAIN ChunkPage(a[p]) : r = Row(w, p, n, ChunkPage(a[p])[n], b)
  BY <1>2, <1>3
<1>6. r.passage = ChunkPage(a[p])[n]
  BY <1>5 DEF Row
<1> QED
  BY <1>4, <1>5, <1>6, ChunksAreBounded DEF IsBoundedRow

LEMMA RowsBoundedInit ==
  ASSUME Init
  PROVE  RowsAreBounded
<1>1. PICK ran \in SUBSET {b \in Earlier : WidthOf[b] = width} :
         \E read \in [ran -> UNION {Readings(WikiOf[b]) : b \in ran}] :
              /\ \A b \in ran : read[b] \in Readings(WikiOf[b])
              /\ made = [b \in Builds |-> IF b \in ran THEN Embedded(b, read[b]) ELSE {}]
  BY DEF Init
<1>2. PICK read : /\ \A b \in ran : read[b] \in Readings(WikiOf[b])
                  /\ made = [b \in Builds |-> IF b \in ran THEN Embedded(b, read[b]) ELSE {}]
  BY <1>1
<1>3. ASSUME NEW b \in Builds, NEW r \in made[b] PROVE IsBoundedRow(r)
  BY <1>2, <1>3, EmbeddedIsBounded
<1>4. chunk = UNION {made[b] : b \in Builds} /\ inserted = [b \in Builds |-> {}]
  BY DEF Init
<1> QED
  BY <1>2, <1>3, <1>4 DEF RowsAreBounded

LEMMA RowsBoundedNext ==
  ASSUME RowsAreBounded, [Next]_vars
  PROVE  RowsAreBounded'
<1>1. CASE UNCHANGED vars
  BY <1>1 DEF vars, RowsAreBounded
<1>2. CASE Next
  <2>1. PICK b \in Builds : Build(b)
    BY <1>2 DEF Next
  <2>2. CASE End(b) /\ UNCHANGED chunk
    BY <2>2 DEF End, RowsAreBounded
  <2>3. CASE Make(b) /\ ~End(b)
    <3>1. PICK a \in Readings(WikiOf[b]) : made' = [made EXCEPT ![b] = Embedded(b, a)]
      BY <2>3 DEF Make
    <3>2. UNCHANGED <<chunk, inserted>>
      BY <2>3 DEF Make
    <3>3. \A r \in Embedded(b, a) : IsBoundedRow(r)
      BY EmbeddedIsBounded
    <3> QED
      BY <3>1, <3>2, <3>3 DEF RowsAreBounded
  <2>4. CASE UNCHANGED <<chunk, made, inserted>>
    BY <2>4 DEF RowsAreBounded
  <2>5. CASE Insert(b) /\ ~End(b)
    <3>1. inserted' = [inserted EXCEPT ![b] = made[b]] /\ UNCHANGED <<chunk, made>>
      BY <2>5 DEF Insert
    <3> QED
      BY <3>1 DEF RowsAreBounded
  <2>6. CASE Commit(b)
    <3>1. /\ chunk' = (chunk \ deleted[b]) \cup inserted[b]
          /\ inserted' = [inserted EXCEPT ![b] = {}] /\ UNCHANGED made
      BY <2>6 DEF Commit
    <3> QED
      BY <3>1 DEF RowsAreBounded
  <2>7. Make(b) \/ Check(b) \/ Resize(b) \/ Deadlock(b) \/ Insert(b) \/ Kill(b) => UNCHANGED chunk \/ ~End(b)
    BY DEF Make, Check, Resize, Deadlock, Insert, Kill
  <2>8. Check(b) \/ Resize(b) \/ Read(b) \/ Delete(b) => (End(b) /\ UNCHANGED chunk) \/ UNCHANGED <<chunk, made, inserted>>
    BY DEF Check, Resize, Read, Delete
  <2> QED
    BY <2>1, <2>2, <2>3, <2>4, <2>5, <2>6, <2>7, <2>8 DEF Build, Step, Deadlock, Kill
<1> QED
  BY <1>1, <1>2

\* A search returns rows of the table, each once.
LEMMA ResultsHeld ==
  ASSUME Keyed, RowsAreBounded, NEW rows \in SUBSET chunk, NEW s \in Results(rows)
  PROVE  s \in Seq(chunk) /\ Distinct(s) /\ s \in Seq(ToSet(s)) /\ \A r \in ToSet(s) : IsBoundedRow(r)
<1>1. PICK n \in 0..TopK : s \in [1..n -> OfWiki(rows, Wiki)]
  BY DEF Results
<1>2. n \in Nat
  BY RetrievalAssumption DEF RetrievalAssumption
<1>3. \A i \in 1..n : s[i] \in chunk
  BY <1>1 DEF OfWiki
<1>4. s \in Seq(chunk) /\ Len(s) = n /\ DOMAIN s = 1..n
  BY <1>1, <1>2, <1>3
<1>5. \A i, j \in 1..n : s[i] = s[j] => i = j
  BY <1>1, Zenon DEF Results, IsInjective
<1>6. Distinct(s)
  BY <1>3, <1>4, <1>5 DEF Keyed, OfOneId, Distinct
<1>7. \A r \in ToSet(s) : r \in chunk
  BY <1>3, <1>4 DEF ToSet
<1> QED
  BY <1>4, <1>6, <1>7, InItsOwnSet DEF RowsAreBounded

LEMMA HitsHeldNext ==
  ASSUME Keyed, RowsAreBounded, HitsHeld, [AllNext]_all
  PROVE  HitsHeld'
<1>1. CASE Narrow
  <2>1. Narrowed(chunk) \in SUBSET chunk
    BY DEF Narrowed
  <2>2. hits' \in Results(Narrowed(chunk)) /\ at' \in {"merge", "widen"}
    BY <1>1 DEF Narrow
  <2>3. hits' \in Seq(ToSet(hits')) /\ Distinct(hits') /\ \A r \in ToSet(hits') : IsBoundedRow(r)
    BY <2>1, <2>2, ResultsHeld
  <2> QED
    BY <2>2, <2>3 DEF HitsHeld
<1>2. CASE Widen
  <2>1. PICK rest \in Results(chunk) : hits' = MergeKeepingOrder(hits, rest)
    BY <1>2 DEF Widen
  <2>2. rest \in Seq(chunk)
    BY ResultsHeld
  <2> DEFINE T == ToSet(hits) \cup chunk
             merged == MergedHits(hits, rest)
             most == IF Len(merged) < TopK THEN Len(merged) ELSE TopK
  <2>3. hits \in Seq(T) /\ rest \in Seq(T) /\ Distinct(hits)
    BY <2>2 DEF HitsHeld
  <2>4. merged \in Seq(T) /\ Distinct(merged)
    BY <2>3, MergedExtends DEF Extends
  <2>5. hits' = SubSeq(merged, 1, most) /\ at' = "merge" /\ TopK \in Nat
    BY <1>2, <2>1, RetrievalAssumption DEF MergeKeepingOrder, MergedHits, Widen, RetrievalAssumption
  <2>6. \A r \in T : IsBoundedRow(r)
    BY DEF HitsHeld, RowsAreBounded
  <2> HIDE DEF T, merged
  <2>7. /\ most \in Nat /\ most <= Len(merged) /\ hits' \in Seq(T) /\ Len(hits') = most
        /\ \A i \in 1..most : hits'[i] = merged[i]
    BY <2>4, <2>5
  <2> HIDE DEF most
  <2>8. hits' \in Seq(ToSet(hits'))
    BY <2>7, InItsOwnSet
  <2>9. Distinct(hits')
    BY <2>4, <2>7 DEF Distinct
  <2>10. \A r \in ToSet(hits') : r \in T
    BY <2>7 DEF ToSet
  <2> QED
    BY <2>5, <2>6, <2>8, <2>9, <2>10 DEF HitsHeld
<1>3. CASE UNCHANGED hits /\ (at' \in {"narrow", "asked", "graph"} => hits = <<>>)
  <2>1. ToSet(hits') = ToSet(hits) /\ (Distinct(hits) => Distinct(hits'))
    BY <1>3 DEF ToSet, Distinct
  <2> QED
    BY <1>3, <2>1 DEF HitsHeld
<1>4. CASE UNCHANGED question
  BY <1>4 DEF question, HitsHeld, Distinct, ToSet
<1>5. Route \/ Unavailable \/ Lookup \/ Merge => <1>3!1
  BY DEF Route, Unavailable, Lookup, Merge, HitsHeld
<1> QED
  BY <1>1, <1>2, <1>3, <1>4, <1>5 DEF AllNext, Ask, all

LEMMA CheckedIsHeld ==
  ASSUME NEW d \in Decisions
  PROVE  /\ Checked(d).intent \in Intents
         /\ Checked(d).intent = "graph" => Checked(d).template # NoTemplate /\ Checked(d).entities # {}
  BY DEF Decisions, Checked, Intents

LEMMA RouteHeldNext ==
  ASSUME RouteHeld, [AllNext]_all
  PROVE  RouteHeld'
<1>1. CASE Route
  <2>1. PICK d \in Decided \cap Decisions :
          \/ route' = Checked(d)
          \/ \E force_intent \in Forced \cap Intents :
                route' = [Checked(d) EXCEPT !.intent = force_intent, !.forced = TRUE]
    BY <1>1 DEF Route
  <2>2. facts' = facts
    BY <1>1 DEF Route
  <2>3. CASE route' = Checked(d)
    BY <2>2, <2>3, CheckedIsHeld DEF RouteHeld, UsesVector, Intents
  <2>4. CASE route' # Checked(d)
    <3>1. PICK force_intent \in Intents : route' = [Checked(d) EXCEPT !.intent = force_intent, !.forced = TRUE]
      BY <2>1, <2>4
    <3>2. route'.intent = force_intent /\ route'.forced
      BY <3>1 DEF Checked
    <3> QED
      BY <2>2, <3>2 DEF RouteHeld
  <2> QED
    BY <2>3, <2>4
<1>2. CASE Lookup
  <2>1. facts' \in Nat /\ route' = route
    BY <1>2, RetrievalAssumption DEF Lookup, Found, RetrievalAssumption
  <2> QED
    BY <2>1 DEF RouteHeld, UsesVector
<1>3. CASE UNCHANGED <<route, facts>>
  BY <1>3 DEF RouteHeld, UsesVector
<1>4. Unavailable \/ Narrow \/ Widen \/ Merge \/ UNCHANGED question => UNCHANGED <<route, facts>>
  BY DEF Unavailable, Narrow, Widen, Merge, question
<1> QED
  BY <1>1, <1>2, <1>3, <1>4 DEF AllNext, Ask, all

LEMMA MergeHeldNext ==
  ASSUME MergeHeld, [AllNext]_all
  PROVE  MergeHeld'
<1>1. CASE Merge
  BY <1>1 DEF Merge, MergeHeld
<1>2. CASE UNCHANGED question
  BY <1>2 DEF question, MergeHeld
<1>3. CASE Route \/ Unavailable \/ Lookup \/ Narrow \/ Widen
  <2>1. at' # "retrieved"
    BY <1>3 DEF Route, Unavailable, Lookup, Narrow, Widen
  <2> QED
    BY <2>1 DEF MergeHeld
<1> QED
  BY <1>1, <1>2, <1>3 DEF AllNext, Ask, all

AskHeld == Keyed /\ RowsAreBounded /\ HitsHeld /\ RouteHeld /\ MergeHeld

LEMMA AskHeldAlways == AllSpec => []AskHeld
<1>1. AllInit => AskHeld
  <2> SUFFICES ASSUME AllInit PROVE AskHeld
    OBVIOUS
  <2>1. Keyed /\ RowsAreBounded
    BY KeyedInit, RowsBoundedInit DEF AllInit
  <2>2. HitsHeld
    BY DEF AllInit, AskInit, HitsHeld, Distinct, ToSet
  <2>3. RouteHeld /\ MergeHeld
    BY DEF AllInit, AskInit, RouteHeld, MergeHeld, NoRoute, UsesVector, Intents
  <2> QED
    BY <2>1, <2>2, <2>3 DEF AskHeld
<1>2. AskHeld /\ [AllNext]_all => AskHeld'
  <2> SUFFICES ASSUME AskHeld, [AllNext]_all PROVE AskHeld'
    OBVIOUS
  <2>1. [Next]_vars
    BY DEF AllNext, Ask, all, vars, Route, Unavailable, Lookup, Narrow, Widen, Merge
  <2> QED
    BY <2>1, KeyedNext, RowsBoundedNext, HitsHeldNext, RouteHeldNext, MergeHeldNext DEF AskHeld
<1> QED
  BY <1>1, <1>2, PTL DEF AllSpec

\* What is kept of the hits.
LEMMA PassagesKept ==
  ASSUME AskHeld, at = "retrieved"
  PROVE  \E y : y.kept = passages /\ Kept(y, ToSet(hits), hits, TokenBudget - facts, Len(hits))
<1>1. /\ hits \in Seq(ToSet(hits)) /\ Distinct(hits) /\ \A r \in ToSet(hits) : IsBoundedRow(r)
      /\ TokenBudget - facts \in Int
  BY RetrievalAssumption DEF AskHeld, HitsHeld, RouteHeld, RetrievalAssumption
<1>2. Kept(Fitted(hits, TokenBudget - facts), ToSet(hits), hits, TokenBudget - facts, Len(hits))
  BY <1>1, AllKept
<1>3. passages = Fitted(hits, TokenBudget - facts).kept
  BY DEF AskHeld, MergeHeld, Fit, Fitted
<1> QED
  BY <1>2, <1>3

\* What the passages of a prompt cost, with the graph's facts, fits its budget; none
\* is in twice; they keep the rank of the searches, and one that is left out does
\* not fit behind those before it: whatever was found, and however long the facts
\* are (merge, _fit, retrieve/merge.py).
THEOREM PassagesFitTheBudgetCorrect == AllSpec => []PassagesFitTheBudget
<1>1. AskHeld => PassagesFitTheBudget
  <2> SUFFICES ASSUME AskHeld, at = "retrieved" PROVE PassagesFitTheBudget
    BY DEF PassagesFitTheBudget
  <2> DEFINE T == ToSet(hits)  budget == TokenBudget - facts  N == Len(hits)
  <2>1. PICK y : y.kept = passages /\ Kept(y, T, hits, budget, N)
    BY PassagesKept
  <2>2. /\ passages \in Seq(T) /\ Distinct(passages) /\ Spent(passages) \in Nat
        /\ passages # <<>> => budget - Spent(passages) >= 0
        /\ \A k \in 1..Len(passages) : \E j \in 1..N : passages[k] = hits[j]
        /\ \A i \in 1..N : \E n \in 0..Len(passages) : Behind(passages, hits, budget, i, n)
    BY <2>1 DEF Kept, Fitting
  <2>3. TokenBudget \in Nat /\ facts \in Nat /\ hits \in Seq(T) /\ DOMAIN hits = 1..N
    BY RetrievalAssumption DEF AskHeld, RouteHeld, HitsHeld, RetrievalAssumption
  <2>4. passages # <<>> => facts + Spent(passages) <= TokenBudget
    <3> DEFINE k == Spent(passages)
    <3>1. k \in Nat /\ (passages # <<>> => TokenBudget - facts - k >= 0)
      BY <2>2
    <3> HIDE DEF k
    <3>2. passages # <<>> => facts + k <= TokenBudget
      BY <2>3, <3>1
    <3> QED
      BY <3>2 DEF k
  <2>5. Cardinality(Ids(ToSet(passages))) = Len(passages)
    BY <2>2, DistinctCounted
  <2>6. ToSet(passages) \subseteq ToSet(hits)
    BY <2>2 DEF ToSet
  <2> HIDE DEF T
  <2>7. ASSUME NEW i \in DOMAIN hits
        PROVE  \E n \in 0..Len(passages) :
                   /\ ToSet(SubSeq(passages, 1, n)) = ToSet(passages) \cap {hits[j] : j \in 1..(i - 1)}
                   /\ hits[i] \notin ToSet(passages) =>
                          \/ TokenBudget - facts - Spent(SubSeq(passages, 1, n)) <= MinPassageTokens
                          \/ PassageTokens(hits[i]) > TokenBudget - facts - Spent(SubSeq(passages, 1, n))
    <3>1. PICK n \in 0..Len(passages) : Behind(passages, hits, budget, i, n)
      BY <2>2, <2>3
    <3> QED
      BY <3>1 DEF Behind
  <2> QED
    BY <2>4, <2>5, <2>6, <2>7 DEF PassagesFitTheBudget
<1> QED
  BY <1>1, AskHeldAlways, PTL

\* A row that does not fit the whole budget is one sentence.
LEMMA LongRow ==
  ASSUME NEW r, IsBoundedRow(r), 4 * TokenBudget >= 9 * MaxTokens + HeadingChars + 8,
         PassageTokens(r) > TokenBudget
  PROVE  Len(FlattenSeq(r.passage.text)) = 1
<1> SUFFICES ASSUME 4 * Tokens(TextChars(r.passage.text)) <= 9 * MaxTokens PROVE FALSE
  BY DEF IsBoundedRow, Bounded, IsBounded
<1> DEFINE x == TextChars(r.passage.text)  k == Tokens(x)  c == HeadingChars + x  m == Tokens(c)
<1>1. x \in Nat /\ HeadingChars \in Nat /\ TokenBudget \in Nat /\ MaxTokens \in Nat
  BY TextCharsOf, RetrievalAssumption, ChunkingAssumption
  DEF IsBoundedRow, Bounded, RetrievalAssumption, ChunkingAssumption
<1>2. m > TokenBudget
  BY DEF PassageTokens
<1> HIDE DEF x
<1>3. k \in Nat /\ x <= 4 * k + 3 /\ c \in Nat
  BY <1>1, TokensBound
<1>4. c = HeadingChars + x
  OBVIOUS
<1>5. 4 * k <= 9 * MaxTokens
  BY DEF x
<1> HIDE DEF c, k
<1>6. m \in Nat /\ (4 * m <= c \/ m = 1)
  BY <1>3, TokensBound
<1> HIDE DEF m
<1> QED
  BY <1>1, <1>2, <1>3, <1>4, <1>5, <1>6

\* What the model may cite is what it is shown, and it is told that there is nothing
\* only where something was looked up, or the caller would have it so, and whatever
\* was found is one sentence too long for the whole budget (render_prompt and
\* citation_instruction, answer/render.py, over what route and merge leave).
THEOREM EvidenceIsHonestCorrect == AllSpec => []EvidenceIsHonest
<1>1. AskHeld /\ PassagesFitTheBudget => EvidenceIsHonest
  <2> SUFFICES ASSUME AskHeld, PassagesFitTheBudget, at = "retrieved" PROVE EvidenceIsHonest
    BY DEF EvidenceIsHonest
  <2> DEFINE graphs == IF facts = 0 THEN <<>> ELSE <<Block("graph_facts", {Graph}, facts)>>
             texts == IF passages = <<>> THEN <<>>
                      ELSE <<Block("passages", Ids(ToSet(passages)), Spent(passages))>>
  <2>1. blocks = graphs \o texts
    BY DEF AskHeld, MergeHeld
  <2>2. Ids(ToSet(<<>>)) = {}
    BY DEF Ids, ToSet
  <2>3. BlockOf("passages") = Ids(ToSet(passages)) /\ (facts = 0 => BlockOf("graph_facts") = {})
    <3>1. CASE facts = 0 /\ passages = <<>>
      BY <2>1, <2>2, <3>1 DEF BlockOf
    <3>2. CASE facts = 0 /\ passages # <<>>
      <4>1. blocks = <<Block("passages", Ids(ToSet(passages)), Spent(passages))>>
        BY <2>1, <3>2
      <4> QED
        BY <4>1 DEF BlockOf, Block
    <3>3. CASE facts # 0 /\ passages = <<>>
      <4>1. blocks = <<Block("graph_facts", {Graph}, facts)>>
        BY <2>1, <3>3
      <4> QED
        BY <2>2, <3>3, <4>1 DEF BlockOf, Block
    <3>4. CASE facts # 0 /\ passages # <<>>
      <4> DEFINE g == Block("graph_facts", {Graph}, facts)
                 t == Block("passages", Ids(ToSet(passages)), Spent(passages))
      <4>0. blocks = <<g>> \o <<t>>
        BY <2>1, <3>4
      <4> HIDE DEF g, t
      <4>1. <<g>> \in Seq({g, t}) /\ <<t>> \in Seq({g, t}) /\ Len(<<g>>) = 1 /\ Len(<<t>>) = 1
        OBVIOUS
      <4>2. DOMAIN blocks = 1..2 /\ blocks[1] = g /\ blocks[2] = t
        BY <4>0, <4>1
      <4> QED
        BY <3>4, <4>2 DEF BlockOf, Block, g, t
    <3> QED
      BY <3>1, <3>2, <3>3, <3>4
  <2>4. Citable = Shown
    BY <2>3 DEF Citable, Shown
  <2>5. ASSUME Shown = {}
        PROVE  facts = 0 /\ passages = <<>>
    <3>1. facts = 0 /\ Ids(ToSet(passages)) = {}
      BY <2>3, <2>5 DEF Shown
    <3>2. passages \in Seq(ToSet(hits))
      BY PassagesKept DEF Kept, Fitting
    <3>3. ToSet(passages) = {}
      BY <3>1 DEF Ids
    <3>4. ASSUME Len(passages) # 0 PROVE FALSE
      <4>1. 1 \in DOMAIN passages
        BY <3>2, <3>4
      <4> QED
        BY <3>3, <4>1 DEF ToSet
    <3>5. passages = <<>>
      BY <3>2, <3>4
    <3> QED
      BY <3>1, <3>5
  <2>6. ASSUME Shown = {}
        PROVE  UsesVector \/ route.forced \/ (route.template # NoTemplate /\ route.entities # {})
    BY DEF AskHeld, RouteHeld
  <2>7. ASSUME Shown = {}, 4 * TokenBudget >= 9 * MaxTokens + HeadingChars + 8, TokenBudget > MinPassageTokens,
               NEW i \in DOMAIN hits
        PROVE  Len(FlattenSeq(hits[i].passage.text)) = 1
    <3>1. facts = 0 /\ passages = <<>>
      BY <2>5, <2>7
    <3>2. hits[i] \in ToSet(hits) /\ IsBoundedRow(hits[i])
      BY DEF AskHeld, HitsHeld, ToSet
    <3>3. PICK n \in 0..Len(passages) :
              hits[i] \notin ToSet(passages) =>
                  \/ TokenBudget - facts - Spent(SubSeq(passages, 1, n)) <= MinPassageTokens
                  \/ PassageTokens(hits[i]) > TokenBudget - facts - Spent(SubSeq(passages, 1, n))
      BY DEF PassagesFitTheBudget
    <3>4. SubSeq(passages, 1, n) = <<>> /\ hits[i] \notin ToSet(passages)
      BY <3>1 DEF ToSet
    <3>6. TokenBudget \in Nat /\ MinPassageTokens \in Nat
      BY RetrievalAssumption DEF RetrievalAssumption
    <3>5. TokenBudget - facts - Spent(SubSeq(passages, 1, n)) = TokenBudget
      <4>1. Spent(SubSeq(passages, 1, n)) = 0
        BY <3>4, SpentOfNone
      <4> QED
        BY <3>1, <3>6, <4>1
    <3>7. PassageTokens(hits[i]) > TokenBudget
      BY <2>7, <3>3, <3>4, <3>5, <3>6
    <3> QED
      BY <2>7, <3>2, <3>7, LongRow
  <2> QED
    BY <2>4, <2>6, <2>7 DEF EvidenceIsHonest
<1> QED
  BY <1>1, AskHeldAlways, PassagesFitTheBudgetCorrect, PTL

-----------------------------------------------------------------------------
(* The measures of an evaluation. *)

\* A finite set of naturals has a largest.
LEMMA LargestOf ==
  ASSUME NEW K \in SUBSET Nat, IsFiniteSet(K), K # {}
  PROVE  Max(K) \in K /\ \A k \in K : Max(K) >= k
<1>1. PICK m \in K : \A k \in K : k <= m
  BY GreatestOf
<1>2. \A k \in K : m >= k
  BY <1>1
<1> QED
  BY <1>2, Zenon DEF Max

\* A percentile is of a rank, and there are as many measurements below it as that
\* says, or more that equal it.
LEMMA PercentileIsNearestRank ==
  ASSUME NEW values \in Seq(Int), values # <<>>, NEW percent \in 1..100
  PROVE  LET within(v) == 100 * Count({i \in DOMAIN values : values[i] <= v}) >= percent * Len(values)
         IN  /\ Percentile(values, percent) \in ToSet(values) /\ within(Percentile(values, percent))
             /\ \A v \in ToSet(values) : within(v) => Percentile(values, percent) <= v
<1> DEFINE n == Len(values)
           rank == Max2(1, (percent * n + 99) \div 100)
           of == SortedBy(values)[rank]
           P == values[of]
           upto(v) == {i \in 1..n : values[i] <= v}
<1>1. n \in Nat /\ n >= 1 /\ values \in [1..n -> Int] /\ DOMAIN values = 1..n
  OBVIOUS
<1>2. rank \in 1..n /\ 100 * rank >= percent * n /\ (rank = 1 \/ 100 * (rank - 1) < percent * n)
  <2> DEFINE x == percent * n
  <2>1. x \in Nat /\ x <= 100 * n
    BY <1>1
  <2> HIDE DEF x
  <2> DEFINE y == (x + 99) \div 100
  <2>2. y \in Nat /\ 100 * y <= x + 99 /\ x < 100 * y + 1
    BY <2>1
  <2> HIDE DEF y
  <2>3. Max2(1, y) = IF 1 < y THEN y ELSE 1
    BY DEF Max2
  <2>4. Max2(1, y) \in 1..n /\ 100 * Max2(1, y) >= x /\ (Max2(1, y) = 1 \/ 100 * (Max2(1, y) - 1) < x)
    BY <1>1, <2>1, <2>2, <2>3
  <2> QED
    BY <2>4 DEF x, y
<1> HIDE DEF rank, n
<1>3. of \in 1..n /\ Cardinality(Below(values, of)) = rank - 1
  BY <1>1, <1>2, SortedIs
<1> HIDE DEF of
<1>4. Percentile(values, percent) = P
  BY DEF Percentile, of, rank, n
<1>5. P \in Int /\ P \in ToSet(values)
  BY <1>1, <1>3 DEF ToSet
<1>6. IsFiniteSet(1..n) /\ \A v : upto(v) \in SUBSET (1..n)
  BY <1>1, FS_Interval
<1>7. 100 * Cardinality(upto(P)) >= percent * n
  <2>1. Below(values, of) \cup {of} \in SUBSET upto(P) /\ of \notin Below(values, of)
    <3>1. \A j \in Below(values, of) : j \in 1..n /\ j # of /\ values[j] \in Int /\ (values[j] < P \/ values[j] = P)
      BY <1>1, <1>3, <1>5 DEF Below
    <3> QED
      BY <1>3, <1>5, <3>1
  <2>2. IsFiniteSet(upto(P)) /\ Cardinality(upto(P)) \in Nat
    BY <1>6, FS_Subset, FS_CardinalityType
  <2>3. IsFiniteSet(Below(values, of))
    BY <1>1, <1>6, FS_Subset DEF Below
  <2>4. Cardinality(Below(values, of) \cup {of}) = rank
    <3>1. Cardinality(Below(values, of) \cup {of}) = Cardinality(Below(values, of)) + 1
      BY <2>1, <2>3, FS_AddElement
    <3> QED
      BY <1>2, <1>3, <3>1
  <2>5. rank <= Cardinality(upto(P))
    BY <2>1, <2>2, <2>4, FS_Subset
  <2> DEFINE c == Cardinality(upto(P))  x == percent * n
  <2>6. c \in Nat /\ rank <= c /\ rank \in Nat /\ 100 * rank >= x /\ x \in Nat
    BY <1>1, <1>2, <2>2, <2>5
  <2> HIDE DEF c, x
  <2>7. 100 * c >= x
    BY <2>6
  <2> QED
    BY <2>7 DEF c, x
<1>8. ASSUME NEW v \in ToSet(values), 100 * Cardinality(upto(v)) >= percent * n, ~(P <= v)
      PROVE  FALSE
  <2>1. v \in Int /\ v < P
    <3>1. v \in Int
      BY <1>1 DEF ToSet
    <3> QED
      BY <1>5, <1>8, <3>1
  <2>2. upto(v) \in SUBSET Below(values, of)
    <3>1. \A j \in upto(v) : j \in 1..n /\ values[j] \in Int /\ values[j] <= v
      BY <1>1
    <3>2. \A j \in upto(v) : values[j] < P
      BY <1>5, <2>1, <3>1
    <3> QED
      BY <1>1, <3>1, <3>2 DEF Below
  <2>3. IsFiniteSet(Below(values, of))
    BY <1>1, <1>6, FS_Subset DEF Below
  <2>4. Cardinality(upto(v)) <= rank - 1 /\ Cardinality(upto(v)) \in Nat
    BY <1>3, <2>2, <2>3, FS_Subset, FS_CardinalityType
  <2> DEFINE c == Cardinality(upto(v))  x == percent * n
  <2>5. /\ c \in Nat /\ c <= rank - 1 /\ rank \in Nat /\ x \in Nat /\ x >= 1
        /\ 100 * c >= x /\ (rank = 1 \/ 100 * (rank - 1) < x)
    BY <1>1, <1>2, <1>8, <2>4
  <2> HIDE DEF c, x
  <2> QED
    BY <2>5
<1>9. DOMAIN values = 1..n /\ Len(values) = n
  BY <1>1 DEF n
<1> HIDE DEF P
<1> QED
  BY <1>4, <1>5, <1>7, <1>8, <1>9 DEF Count

Indexed(n, index, query) == n \in Nat /\ index \in Seq(ToSet(index)) /\ Len(index) = n /\ query.score \in [1..n -> Int]

Ranking(order, n, index, query) ==
    /\ order \in [1..n -> 1..n] /\ \A i \in 1..n : \E r \in 1..n : order[r] = i
    /\ \A k \in Nat : Search(index, query.score, k)
                        = [r \in 1..(IF k < n THEN k ELSE n) |-> index[order[r]]]

\* A search of each size is the first of the same ranking.
LEMMA SearchIsRanked ==
  ASSUME NEW n, NEW index, NEW query, Indexed(n, index, query)
  PROVE  \E order : Ranking(order, n, index, query)
<1> DEFINE key == [i \in DOMAIN index |-> -query.score[i]]
           order == [r \in 1..n |-> SortedBy(key)[r]]
<1>1. n \in Nat /\ DOMAIN index = 1..n /\ Len(index) = n /\ key \in [1..n -> Int]
  BY DEF Indexed
<1> HIDE DEF key
<1>2. /\ \A r \in 1..n : SortedBy(key)[r] \in 1..n
      /\ \A i \in 1..n : \E r \in 1..n : SortedBy(key)[r] = i
  BY <1>1, SortedIs
<1>3. order \in [1..n -> 1..n] /\ \A i \in 1..n : \E r \in 1..n : order[r] = i
  BY <1>2
<1>4. ASSUME NEW k \in Nat
      PROVE  Search(index, query.score, k) = [r \in 1..(IF k < n THEN k ELSE n) |-> index[order[r]]]
  <2> DEFINE m == IF k < n THEN k ELSE n
  <2>1. Search(index, query.score, k) = [r \in 1..m |-> index[SortedBy(key)[r]]]
    BY <1>1, Zenon DEF Search, key
  <2>2. \A r \in 1..m : r \in 1..n
    BY <1>1
  <2> HIDE DEF m
  <2>3. \A r \in 1..m : order[r] = SortedBy(key)[r]
    BY <2>2
  <2> HIDE DEF order
  <2>4. [r \in 1..m |-> index[SortedBy(key)[r]]] = [r \in 1..m |-> index[order[r]]]
    BY <2>3
  <2> QED
    BY <2>1, <2>4 DEF m
<1> HIDE DEF order
<1>5. Ranking(order, n, index, query)
  BY <1>3, <1>4 DEF Ranking
<1> QED
  BY <1>5

\* A rank is of a page that matches; and there is one within k if any of the first
\* k pages does.
LEMMA HitsAreRanked ==
  ASSUME NEW n, NEW index, NEW query, Indexed(n, index, query), NEW titles,
         NEW order, Ranking(order, n, index, query),
         NEW K \in SUBSET Nat, IsFiniteSet(K), NEW k \in K
  PROVE  HitAt(Outcome(index, titles, query, K), k)
             <=> \E r \in 1..n : r <= k /\ Matches(query, index[order[r]])
<1> DEFINE largest == Max(K)
           m == IF largest < n THEN largest ELSE n
           retrieved == Search(index, query.score, largest)
           ranks == {i \in DOMAIN retrieved : Matches(query, retrieved[i])}
           first == CHOOSE i \in ranks : \A j \in ranks : i <= j
           hit == Outcome(index, titles, query, K).hit_rank
<1>1. largest \in Nat /\ k \in Nat /\ k <= largest /\ n \in Nat
  BY LargestOf DEF Indexed
<1>2. retrieved = [r \in 1..m |-> index[order[r]]]
  BY <1>1 DEF Ranking
<1> HIDE DEF retrieved
<1>3. ranks = {r \in 1..m : Matches(query, index[order[r]])}
  BY <1>2
<1>4. hit = IF ranks = {} THEN 0 ELSE first
  BY DEF Outcome, retrieved
<1> HIDE DEF hit, largest
<1>5. HitAt(Outcome(index, titles, query, K), k) <=> hit # 0 /\ hit <= k
  BY DEF HitAt, hit
<1>6. m \in Nat /\ \A r \in 1..n : r <= k => r \in 1..m
  BY <1>1
<1>7. \A r \in 1..m : r \in 1..n
  BY <1>1
<1> HIDE DEF m
<1>8. ranks \in SUBSET (1..m) /\ ranks \in SUBSET Nat
  BY <1>3, <1>6
<1>9. \A r \in ranks : r # 0 /\ r \in 1..n /\ Matches(query, index[order[r]])
  BY <1>3, <1>6, <1>7
<1>10. \A r \in 1..n : r <= k /\ Matches(query, index[order[r]]) => r \in ranks
  BY <1>3, <1>6
<1> HIDE DEF ranks
<1>11. CASE ranks = {}
  BY <1>4, <1>5, <1>10, <1>11
<1>12. CASE ranks # {}
  <2>1. \E i \in ranks : \A j \in ranks : i <= j
    BY <1>8, <1>12, LeastOf
  <2>2. first \in ranks /\ \A j \in ranks : first <= j
    BY <2>1
  <2>3. hit = first /\ hit # 0
    BY <1>4, <1>9, <1>12, <2>2
  <2> HIDE DEF first
  <2>4. ASSUME first <= k PROVE \E r \in 1..n : r <= k /\ Matches(query, index[order[r]])
    BY <1>9, <2>2, <2>4
  <2>5. ASSUME NEW r \in 1..n, r <= k, Matches(query, index[order[r]])
        PROVE  first <= k
    <3>1. first <= r /\ first \in Nat /\ r \in Nat
      BY <1>8, <1>10, <2>2, <2>5
    <3> QED
      BY <1>1, <2>5, <3>1
  <2> QED
    BY <1>5, <2>3, <2>4, <2>5
<1> QED
  BY <1>11, <1>12

\* A finite set counts as many as a part of it and the rest.
LEMMA TwoParts ==
  ASSUME NEW S, IsFiniteSet(S), NEW T \in SUBSET S
  PROVE  /\ IsFiniteSet(T) /\ IsFiniteSet(S \ T)
         /\ Count(T) \in Nat /\ Count(S \ T) \in Nat /\ Count(T) + Count(S \ T) = Count(S)
<1>1. IsFiniteSet(T) /\ IsFiniteSet(S \ T) /\ S \ T \in SUBSET S
  BY FS_Subset
<1>2. T \cup (S \ T) = S /\ T \cap (S \ T) = {}
  OBVIOUS
<1>3. Cardinality(T \cup (S \ T)) = Cardinality(T) + Cardinality(S \ T) - Cardinality(T \cap (S \ T))
  BY <1>1, FS_Union
<1> DEFINE t == Cardinality(T)  u == Cardinality(S \ T)
<1>4. t \in Nat /\ u \in Nat /\ Cardinality({}) = 0
  BY <1>1, FS_CardinalityType, FS_EmptySet
<1>5. Cardinality(S) = t + u - 0
  BY <1>2, <1>3, <1>4
<1> HIDE DEF t, u
<1>6. t + u = Cardinality(S)
  BY <1>4, <1>5
<1> QED
  BY <1>1, <1>4, <1>6 DEF Count, t, u

\* For the questions of one list, and the ranks its targets are found at.
LEMMA RecallOfASet ==
  ASSUME NEW index \in Indexes, NEW n \in Nat, NEW queries \in [1..n -> Queries[Len(index)]]
  PROVE  LET titles == ToSet(index)
             outcomes == Evaluate(index, titles, queries, KValues)
             largest == Max(KValues)
         IN  /\ \A k \in KValues :
                    Recall(outcomes, k) = Recall(Evaluate(index, titles, queries, {k}), k)
             /\ Recall(outcomes, largest)[1] + Count(Misses(outcomes, KValues))
                    + Count(Unlabeled(outcomes)) = Len(queries)
             /\ \A k \in KValues : k >= Len(index) =>
                    {q \in DOMAIN queries : HitAt(outcomes[q], k)} = Scored(outcomes)
<1> DEFINE len == Len(index)  titles == ToSet(index)
           of(K) == Evaluate(index, titles, queries, K)
           outcomes == of(KValues)
           labeled(q) == LabelsIndexed(queries[q], titles)
           found(q, k) == \E r \in 1..len : r <= k /\ Matches(queries[q], Search(index, queries[q].score, len)[r])
           largest == Max(KValues)
<1>1. /\ KValues \in SUBSET Nat /\ IsFiniteSet(KValues) /\ largest \in KValues
      /\ index \in Seq(ToSet(index)) /\ len \in Nat /\ DOMAIN queries = 1..n /\ Len(queries) = n
  BY MeasuresAssumption, LargestOf DEF MeasuresAssumption
<1>2. ASSUME NEW q \in 1..n
      PROVE  Indexed(len, index, queries[q])
  <2>1. queries[q] \in Queries[Len(index)]
    OBVIOUS
  <2> QED
    BY <1>1, <2>1, MeasuresAssumption DEF MeasuresAssumption, Indexed
<1>3. ASSUME NEW q \in 1..n
      PROVE  /\ \A K \in SUBSET Nat : IsFiniteSet(K) =>
                  \A k \in K : HitAt(Outcome(index, titles, queries[q], K), k) <=> found(q, k)
             /\ \A k \in Nat : k >= len => (found(q, k) <=> labeled(q))
  <2> DEFINE query == queries[q]
  <2>1. PICK order : Ranking(order, len, index, query)
    BY <1>2, SearchIsRanked
  <2>2. Search(index, query.score, len) = [r \in 1..len |-> index[order[r]]]
    BY <1>1, <2>1 DEF Ranking
  <2> DEFINE whole == Search(index, query.score, len)
  <2>3. \A r \in 1..len : whole[r] = index[order[r]]
    BY <2>2
  <2>4. \A k : found(q, k) <=> \E r \in 1..len : r <= k /\ Matches(query, index[order[r]])
    BY <2>3
  <2>7. Indexed(len, index, query)
    BY <1>2
  <2> HIDE DEF whole, query
  <2>5. ASSUME NEW K \in SUBSET Nat, IsFiniteSet(K), NEW k \in K
        PROVE  HitAt(Outcome(index, titles, query, K), k) <=> found(q, k)
    BY <2>1, <2>4, <2>5, <2>7, HitsAreRanked
  <2>6. ASSUME NEW k \in Nat, k >= len
        PROVE  found(q, k) <=> labeled(q)
    <3>1. \A r \in 1..len : r <= k
      BY <1>1, <2>6
    <3>2. titles = {index[i] : i \in 1..len}
      <4>1. 1..len = DOMAIN index
        BY <1>1
      <4> QED
        BY <4>1, Zenon DEF ToSet
    <3>3. found(q, k) <=> \E i \in 1..len : Matches(query, index[i])
      BY <2>1, <2>4, <3>1 DEF Ranking
    <3>4. labeled(q) <=> \E t \in titles : Matches(query, t)
      BY DEF LabelsIndexed, Matches, query
    <3> QED
      BY <3>2, <3>3, <3>4
  <2> QED
    BY <2>5, <2>6 DEF query
<1> HIDE DEF found
<1>4. ASSUME NEW K \in SUBSET Nat, IsFiniteSet(K)
      PROVE  /\ DOMAIN of(K) = 1..n
             /\ Scored(of(K)) = {q \in 1..n : labeled(q)}
             /\ \A k \in K : \A q \in 1..n : HitAt(of(K)[q], k) <=> found(q, k)
  <2>1. DOMAIN of(K) = 1..n /\ \A q \in 1..n : of(K)[q] = Outcome(index, titles, queries[q], K)
    BY <1>1 DEF Evaluate
  <2>2. \A q \in 1..n : of(K)[q].labels_in_index = labeled(q)
    BY <2>1 DEF Outcome
  <2> HIDE DEF of
  <2>3. \A k \in K : \A q \in 1..n : HitAt(of(K)[q], k) <=> found(q, k)
    BY <1>3, <1>4, <2>1
  <2> QED
    BY <2>1, <2>2, <2>3 DEF Scored
<1> HIDE DEF of, labeled
<1> DEFINE scored == {q \in 1..n : labeled(q)}  hits_at(k) == {q \in scored : found(q, k)}
<1>5. ASSUME NEW K \in SUBSET Nat, IsFiniteSet(K), NEW k \in K
      PROVE  Recall(of(K), k) = <<Count(hits_at(k)), Count(scored)>>
  <2>1. Scored(of(K)) = scored /\ {q \in Scored(of(K)) : HitAt(of(K)[q], k)} = hits_at(k)
    BY <1>4, <1>5
  <2> QED
    BY <2>1 DEF Recall
<1>6. \A k \in KValues : Recall(outcomes, k) = Recall(of({k}), k)
  <2> SUFFICES ASSUME NEW k \in KValues PROVE Recall(outcomes, k) = Recall(of({k}), k)
    OBVIOUS
  <2>1. {k} \in SUBSET Nat /\ IsFiniteSet({k}) /\ k \in {k}
    BY <1>1, FS_Singleton
  <2> HIDE DEF hits_at, scored
  <2> QED
    BY <1>1, <1>5, <2>1
<1>7. Recall(outcomes, largest)[1] + Count(Misses(outcomes, KValues)) + Count(Unlabeled(outcomes)) = n
  <2>1. Recall(outcomes, largest)[1] = Count(hits_at(largest))
    <3>1. Recall(outcomes, largest) = <<Count(hits_at(largest)), Count(scored)>>
      BY <1>1, <1>5
    <3> QED
      BY <3>1
  <2>2. Misses(outcomes, KValues) = scored \ hits_at(largest)
    BY <1>1, <1>4 DEF Misses
  <2>3. Unlabeled(outcomes) = (1..n) \ scored
    BY <1>1, <1>4 DEF Unlabeled
  <2>4. IsFiniteSet(1..n) /\ Count(1..n) = n
    BY FS_Interval DEF Count
  <2>5. scored \in SUBSET (1..n) /\ hits_at(largest) \in SUBSET scored
    OBVIOUS
  <2> HIDE DEF hits_at, scored
  <2>6. /\ IsFiniteSet(scored)
        /\ Count(scored) \in Nat /\ Count((1..n) \ scored) \in Nat /\ Count(scored) + Count((1..n) \ scored) = n
    BY <2>4, <2>5, TwoParts
  <2>7. /\ Count(hits_at(largest)) \in Nat /\ Count(scored \ hits_at(largest)) \in Nat
        /\ Count(hits_at(largest)) + Count(scored \ hits_at(largest)) = Count(scored)
    BY <2>5, <2>6, TwoParts
  <2> DEFINE a == Count(hits_at(largest))  b == Count(scored \ hits_at(largest))  c == Count((1..n) \ scored)
             d == Count(scored)
  <2>8. a \in Nat /\ b \in Nat /\ c \in Nat /\ a + b = d /\ d + c = n
    BY <2>6, <2>7
  <2> HIDE DEF a, b, c, d
  <2>9. a + b + c = n
    BY <2>8
  <2> QED
    BY <2>1, <2>2, <2>3, <2>9 DEF a, b, c
<1>8. ASSUME NEW k \in KValues, k >= len
      PROVE  {q \in 1..n : HitAt(outcomes[q], k)} = Scored(outcomes)
  <2>1. \A q \in 1..n : found(q, k) <=> labeled(q)
    BY <1>1, <1>3, <1>8 DEF labeled
  <2> QED
    BY <1>1, <1>4, <2>1
<1>9. \A K : of(K) = Evaluate(index, ToSet(index), queries, K)
  BY DEF of
<1> HIDE DEF largest, len
<1> QED
  BY <1>1, <1>6, <1>7, <1>8, <1>9 DEF largest, len

\* For any questions and any ranks.
LEMMA RecallCorrect == RecallIsExact
<1>1. ASSUME NEW index \in Indexes, NEW n \in 0..SetSize, NEW queries \in [1..n -> Queries[Len(index)]]
      PROVE  n \in Nat
  BY MeasuresAssumption DEF MeasuresAssumption
<1>2. ASSUME NEW index \in Indexes, NEW queries \in UNION {[1..n -> Queries[Len(index)]] : n \in 0..SetSize}
      PROVE  LET titles == ToSet(index)
                 outcomes == Evaluate(index, titles, queries, KValues)
                 largest == Max(KValues)
             IN  /\ \A k \in KValues :
                        Recall(outcomes, k) = Recall(Evaluate(index, titles, queries, {k}), k)
                 /\ Recall(outcomes, largest)[1] + Count(Misses(outcomes, KValues))
                        + Count(Unlabeled(outcomes)) = Len(queries)
                 /\ \A k \in KValues : k >= Len(index) =>
                        {q \in DOMAIN queries : HitAt(outcomes[q], k)} = Scored(outcomes)
  <2>1. PICK n \in 0..SetSize : queries \in [1..n -> Queries[Len(index)]]
    BY <1>2
  <2> QED
    BY <1>1, <2>1, RecallOfASet
<1> QED
  BY <1>2, Zenon DEF RecallIsExact

\* For any samples.
LEMMA PercentileCorrect == PercentileIsExact
<1>1. ASSUME NEW values \in Latencies, values # <<>>, NEW percent \in {50, 95}
      PROVE  LET within(v) == 100 * Count({i \in DOMAIN values : values[i] <= v}) >= percent * Len(values)
             IN  /\ Percentile(values, percent) \in ToSet(values) /\ within(Percentile(values, percent))
                 /\ \A v \in ToSet(values) : within(v) => Percentile(values, percent) <= v
  <2>1. values \in Seq(Int) /\ percent \in 1..100
    BY MeasuresAssumption DEF MeasuresAssumption
  <2> QED
    BY <1>1, <2>1, PercentileIsNearestRank
<1> QED
  BY <1>1, Zenon DEF PercentileIsExact

\* The two rates together bound the failures.
LEMMA FewFail ==
  ASSUME NEW n \in Nat, NEW right \in SUBSET (1..n), NEW scored \in SUBSET (1..n), NEW good \in SUBSET scored,
         10 * Count(right) >= 9 * n, 10 * Count(good) >= 9 * Count(scored)
  PROVE  5 * Count({q \in 1..n : q \notin right \/ q \in scored \ good}) <= n
<1> DEFINE fail == {q \in 1..n : q \notin right \/ q \in scored \ good}
           wrong == (1..n) \ right  bad == scored \ good
<1>1. IsFiniteSet(1..n) /\ Count(1..n) = n
  <2>1. IsFiniteSet(1..n) /\ Cardinality(1..n) = IF 1 > n THEN 0 ELSE n - 1 + 1
    BY 1 \in Int, n \in Int, FS_Interval, Zenon
  <2> QED
    BY <2>1 DEF Count
<1>2. /\ Count(right) \in Nat /\ Count(wrong) \in Nat /\ Count(right) + Count(wrong) = n
      /\ IsFiniteSet(wrong)
  BY <1>1, TwoParts
<1>3. IsFiniteSet(scored) /\ Count(scored) \in Nat /\ Count(scored) <= n
  BY <1>1, FS_Subset, FS_CardinalityType DEF Count
<1>4. /\ Count(good) \in Nat /\ Count(bad) \in Nat /\ Count(good) + Count(bad) = Count(scored)
      /\ IsFiniteSet(bad)
  BY <1>3, TwoParts
<1>5. fail = wrong \cup bad
  OBVIOUS
<1> HIDE DEF fail, wrong, bad
<1> DEFINE both == Cardinality(wrong \cap bad)  f == Count(fail)
<1>6. both \in Nat /\ f \in Nat /\ f = Count(wrong) + Count(bad) - both
  <2>1. IsFiniteSet(wrong \cap bad) /\ wrong \cap bad \in SUBSET wrong
    BY <1>2, FS_Subset
  <2>2. IsFiniteSet(fail) /\ Cardinality(fail) = Cardinality(wrong) + Cardinality(bad) - both
    BY <1>2, <1>4, <1>5, FS_Union
  <2> QED
    BY <2>1, <2>2, FS_CardinalityType DEF Count
<1> HIDE DEF both, f
<1> DEFINE r == Count(right)  w == Count(wrong)  s == Count(scored)  g == Count(good)  b == Count(bad)
<1>7. /\ r \in Nat /\ w \in Nat /\ s \in Nat /\ g \in Nat /\ b \in Nat /\ r + w = n /\ s <= n /\ g + b = s
      /\ f = w + b - both /\ 10 * r >= 9 * n /\ 10 * g >= 9 * s
  BY <1>2, <1>3, <1>4, <1>6
<1> HIDE DEF r, w, s, g, b
<1>8. 5 * f <= n
  BY <1>6, <1>7
<1> QED
  BY <1>8 DEF f, fail

\* For the labels and the decisions of one list.
LEMMA RoutingOfASet ==
  ASSUME NEW n \in Nat, NEW labels \in [1..n -> Labels], NEW d \in [1..n -> Decided \cap Decisions]
  PROVE  LET decided == EvaluateRouter(labels, d)
             checked == EvaluateRouter(labels, [q \in 1..n |-> Checked(d[q])])
         IN  /\ \A q \in 1..n : decided[q].intent_ok => checked[q].intent_ok
             /\ \A q \in Failures(checked) \ Failures(decided) : d[q].entities = {}
             /\ \A q \in 1..n : checked[q].scored /\ d[q].entities = {} => q \in Failures(checked)
             /\ MeetsTarget(checked) => /\ 5 * Count(Failures(checked)) <= n
                                       /\ \E q \in 1..n : checked[q].scored
<1> DEFINE routes == [q \in 1..n |-> Checked(d[q])]
           decided == EvaluateRouter(labels, d)  checked == EvaluateRouter(labels, routes)
<1>1. /\ DOMAIN decided = 1..n /\ DOMAIN checked = 1..n /\ Len(checked) = n
      /\ \A q \in 1..n : /\ decided[q] = RouteOutcome(labels[q], d[q])
                         /\ checked[q] = RouteOutcome(labels[q], Checked(d[q]))
  BY DEF EvaluateRouter
<1> HIDE DEF decided, checked
<1>2. ASSUME NEW q \in 1..n
      PROVE  /\ decided[q].intent_ok = IntentOk(labels[q], d[q].intent)
             /\ checked[q].intent_ok = IntentOk(labels[q], Checked(d[q]).intent)
             /\ decided[q].scored = (labels[q].template # NoTemplate) /\ checked[q].scored = decided[q].scored
             /\ decided[q].template_ok = TemplateOk(labels[q], d[q].template)
             /\ checked[q].template_ok = TemplateOk(labels[q], Checked(d[q]).template)
  BY <1>1 DEF RouteOutcome
<1>3. ASSUME NEW q \in 1..n
      PROVE  /\ Checked(d[q]).intent \in {d[q].intent, "both"}
             /\ d[q].entities = {} => Checked(d[q]).template = NoTemplate
             /\ d[q].entities # {} => Checked(d[q]).template = d[q].template
  BY DEF Checked
<1>4. ASSUME NEW q \in 1..n, decided[q].intent_ok
      PROVE  checked[q].intent_ok
  BY <1>2, <1>3, <1>4 DEF IntentOk
<1>5. ASSUME NEW q \in Failures(checked) \ Failures(decided)
      PROVE  d[q].entities = {}
  <2>1. q \in 1..n
    BY <1>1 DEF Failures
  <2> QED
    BY <1>1, <1>2, <1>3, <1>4, <2>1 DEF Failures, TemplateOk
<1>6. ASSUME NEW q \in 1..n, checked[q].scored, d[q].entities = {}
      PROVE  q \in Failures(checked)
  <2>1. labels[q].template # NoTemplate /\ Checked(d[q]).template = NoTemplate
    BY <1>2, <1>3, <1>6
  <2>2. ~TemplateOk(labels[q], Checked(d[q]).template)
    BY <2>1 DEF TemplateOk
  <2>3. ~checked[q].template_ok
    BY <1>2, <2>2
  <2> QED
    BY <1>1, <1>6, <2>3 DEF Failures
<1>7. ASSUME MeetsTarget(checked)
      PROVE  5 * Count(Failures(checked)) <= n /\ \E q \in 1..n : checked[q].scored
  <2> DEFINE right == {q \in 1..n : checked[q].intent_ok}
             scored == {q \in 1..n : checked[q].scored}
             good == {q \in scored : checked[q].template_ok}
  <2>1. IntentAccuracy(checked) = <<Count(right), n>>
    BY <1>1 DEF IntentAccuracy
  <2>2. TemplateAccuracy(checked) = <<Count(good), Count(scored)>>
    BY <1>1 DEF TemplateAccuracy
  <2>3. Failures(checked) = {q \in 1..n : q \notin right \/ q \in scored \ good}
    BY <1>1 DEF Failures
  <2>4. right \in SUBSET (1..n) /\ scored \in SUBSET (1..n) /\ good \in SUBSET scored
    OBVIOUS
  <2>5. scored = {} => Count(scored) = 0
    BY FS_EmptySet DEF Count
  <2>6. scored # {} => \E q \in 1..n : checked[q].scored
    OBVIOUS
  <2> HIDE DEF right, scored, good
  <2>7. /\ 10 * <<Count(right), n>>[1] >= 9 * <<Count(right), n>>[2]
        /\ 10 * <<Count(good), Count(scored)>>[1] >= 9 * <<Count(good), Count(scored)>>[2]
        /\ <<Count(good), Count(scored)>>[2] > 0
    BY <1>7, <2>1, <2>2, Zenon DEF MeetsTarget
  <2>8. 10 * Count(right) >= 9 * n /\ 10 * Count(good) >= 9 * Count(scored) /\ Count(scored) > 0
    BY <2>7
  <2>9. 5 * Count(Failures(checked)) <= n
    BY <2>3, <2>4, <2>8, FewFail
  <2>10. scored # {}
    BY <2>5, <2>8
  <2> QED
    BY <2>6, <2>9, <2>10
<1> QED
  BY <1>4, <1>5, <1>6, <1>7 DEF decided, checked, routes

\* For any labels and any decisions.
LEMMA RoutingCorrect == RoutingIsExact
<1>1. ASSUME NEW n \in 0..SetSize, NEW labels \in [1..n -> Labels], NEW d \in [1..n -> Decided \cap Decisions]
      PROVE  n \in Nat
  BY MeasuresAssumption DEF MeasuresAssumption
<1> QED
  BY <1>1, RoutingOfASet DEF RoutingIsExact

\* For any index, labels and measurements: recall at each k is of one ranking, and
\* leaves out what could not be found; percentiles are of the nearest rank; and the
\* router's rates count what they say (evaluate and _percentile, index/recall.py;
\* evaluate_router and meets_target, retrieve/evaluate.py).
THEOREM MeasuresAreExactCorrect == AllSpec => []MeasuresAreExact
<1>1. MeasuresAreExact
  BY RecallCorrect, PercentileCorrect, RoutingCorrect DEF MeasuresAreExact
<1> QED
  BY <1>1, PTL
-----------------------------------------------------------------------------
(* The slices of embed_documents, and what an API answers for one.         *)

\* The starts of range(0, n, size).
LEMMA Multiples ==
  ASSUME NEW size \in Nat \ {0}
  PROVE  \E m \in [Nat -> Nat] :
            /\ \A k \in Nat : m[k] = k * size /\ m[k + 1] = m[k] + size /\ m[k] >= k
            /\ m[0] = 0
            /\ \A k \in Nat : \A j \in 0..k : m[j] <= m[k]
<1> DEFINE m == [k \in Nat |-> k * size]
<1>1. ASSUME NEW k \in Nat
      PROVE  k * size \in Nat /\ (k + 1) * size = k * size + size
  OBVIOUS
<1>2. m \in [Nat -> Nat] /\ m[0] = 0 /\ \A k \in Nat : m[k] = k * size /\ m[k + 1] = m[k] + size
  <2>1. 0 * size = 0
    OBVIOUS
  <2> QED
    BY <1>1, <2>1
<1> HIDE DEF m
<1> DEFINE S == {k \in Nat : m[k] >= k /\ \A j \in 0..k : m[j] <= m[k]}
<1>3. 0 \in S
  <2>1. \A j \in 0..0 : j = 0
    OBVIOUS
  <2> QED
    BY <1>2, <2>1
<1>4. ASSUME NEW k \in Nat, k \in S
      PROVE  k + 1 \in S
  <2>1. m[k + 1] = m[k] + size /\ m[k] \in Nat /\ m[k] >= k
    BY <1>2, <1>4
  <2>2. ASSUME NEW j \in 0..(k + 1)
        PROVE  m[j] <= m[k + 1]
    <3>1. j = k + 1 \/ j \in 0..k
      OBVIOUS
    <3>2. j \in 0..k => m[j] <= m[k]
      BY <1>4
    <3>3. j \in Nat /\ m[j] \in Nat
      <4>1. j \in Nat
        OBVIOUS
      <4> QED
        BY <1>2, <4>1
    <3> QED
      BY <2>1, <3>1, <3>2, <3>3
  <2> QED
    BY <2>1, <2>2
<1> HIDE DEF S
<1>5. Nat \subseteq S
  BY <1>3, <1>4, SetInduction
<1>6. \A k \in Nat : m[k] >= k /\ \A j \in 0..k : m[j] <= m[k]
  BY <1>5 DEF S
<1> QED
  BY <1>2, <1>6

\* A slice of a list: of what it is, and how long.
LEMMA PieceOf ==
  ASSUME NEW T, NEW s \in Seq(T), NEW i \in Nat, NEW j \in Nat, i < j, j <= Len(s)
  PROVE  SubSeq(s, i + 1, j) \in Seq(T) /\ Len(SubSeq(s, i + 1, j)) = j - i
<1>1. i + 1 \in 1..(Len(s) + 1) /\ j \in i..Len(s) /\ i + 1 \in Int /\ j - (i + 1) + 1 = j - i
  OBVIOUS
<1> DEFINE f == i + 1
<1>2. f \in 1..Len(s) /\ j \in f..Len(s) /\ f \in Nat
  OBVIOUS
<1> HIDE DEF f
<1>3. SubSeq(s, f, j) \in Seq(T) /\ Len(SubSeq(s, f, j)) = j - f + 1
  BY <1>2
<1> QED
  BY <1>1, <1>3 DEF f

\* The slices are the list, in pieces of at most the size.
LEMMA SlicesAre ==
  ASSUME NEW T, NEW s \in Seq(T), NEW size \in Nat \ {0}
  PROVE  /\ Slices(s, size) \in Seq(Seq(T)) /\ FlattenSeq(Slices(s, size)) = s
         /\ \A k \in 1..Len(Slices(s, size)) : Len(Slices(s, size)[k]) \in 1..size
<1> DEFINE n == Len(s)
<1>0. n \in Nat
  OBVIOUS
<1>1. PICK m \in [Nat -> Nat] :
         /\ \A k \in Nat : m[k] = k * size /\ m[k + 1] = m[k] + size /\ m[k] >= k
         /\ m[0] = 0
         /\ \A k \in Nat : \A j \in 0..k : m[j] <= m[k]
  BY Multiples
<1> DEFINE S == {k \in 1..n : m[k - 1] < n}
           end(k) == IF m[k] < n THEN m[k] ELSE n
<1>2. \E K \in Nat : S = 1..K /\ m[K] >= n
  <2>1. CASE S = {}
    <3>1. n = 0
      <4>1. n # 0 => 1 \in 1..n /\ 0 < n
        <5> HIDE DEF n
        <5> QED
          BY <1>0
      <4>2. n # 0 => 1 \in S
        <5>1. 1 - 1 = 0
          OBVIOUS
        <5> QED
          BY <1>1, <4>1, <5>1
      <4> QED
        BY <2>1, <4>2
    <3>2. S = 1..0 /\ m[0] >= n
      BY <1>1, <2>1, <3>1
    <3> QED
      BY <3>2
  <2>2. CASE S # {}
    <3>1. IsFiniteSet(S) /\ S \in SUBSET Nat
      <4>1. IsFiniteSet(1..n) /\ S \in SUBSET (1..n)
        BY <1>0, FS_Interval
      <4> QED
        BY <4>1, FS_Subset
    <3>2. PICK K \in S : \A k \in S : k <= K
      BY <2>2, <3>1, GreatestOf
    <3>3. K \in 1..n /\ m[K - 1] < n /\ K - 1 \in Nat /\ K \in Nat
      BY <1>0, <3>2
    <3>4. ASSUME NEW k \in 1..K PROVE k \in S
      <4>1. k \in 1..n /\ k - 1 \in 0..(K - 1) /\ k - 1 \in Nat
        BY <1>0, <3>3
      <4>2. m[k - 1] <= m[K - 1] /\ m[k - 1] \in Nat /\ m[K - 1] \in Nat
        BY <1>1, <3>3, <4>1
      <4> QED
        BY <1>0, <3>3, <4>1, <4>2
    <3>5. \A k \in S : k \in 1..K
      BY <3>2, <3>3
    <3>6. m[K] >= n
      <4>1. CASE K = n
        BY <1>1, <3>3, <4>1
      <4>2. CASE K # n
        <5>1. K + 1 \in 1..n /\ (K + 1) - 1 = K /\ ~(K + 1 <= K)
          BY <1>0, <3>3, <4>2
        <5>2. K + 1 \notin S
          BY <3>2, <5>1
        <5>3. ~(m[K] < n)
          BY <5>1, <5>2
        <5> QED
          BY <1>0, <1>1, <3>3, <5>3
      <4> QED
        BY <4>1, <4>2
    <3> QED
      BY <3>3, <3>4, <3>5, <3>6
  <2> QED
    BY <2>1, <2>2
<1>3. PICK K \in Nat : S = 1..K /\ m[K] >= n
  BY <1>2
<1> HIDE DEF S, n
<1>4. ASSUME NEW k \in 1..K
      PROVE  /\ k \in 1..n /\ k \in Nat /\ k - 1 \in Nat /\ m[k] = m[k - 1] + size
             /\ m[k - 1] < n /\ m[k - 1] \in Nat /\ m[k] \in Nat
  <2>1. k \in S /\ k \in Nat /\ k - 1 \in Nat /\ (k - 1) + 1 = k
    BY <1>3
  <2> QED
    BY <1>1, <2>1 DEF S
<1> DEFINE slice == [k \in 1..K |-> SubSeq(s, m[k - 1] + 1, end(k))]
<1>5. Slices(s, size) = slice
  <2>1. {k \in 1..Len(s) : (k - 1) * size < Len(s)} = 1..K
    <3>1. \A k \in 1..n : k - 1 \in Nat /\ m[k - 1] = (k - 1) * size
      BY <1>0, <1>1 DEF n
    <3>2. S = {k \in 1..n : (k - 1) * size < n}
      BY <3>1 DEF S
    <3> QED
      BY <1>3, <3>2 DEF n
  <2>2. \A k \in 1..K : /\ (k - 1) * size = m[k - 1]
                        /\ (IF k * size < Len(s) THEN k * size ELSE Len(s)) = end(k)
    BY <1>1, <1>4 DEF n
  <2> HIDE DEF end
  <2>3. Slices(s, size)
            = [k \in 1..K |-> SubSeq(s, (k - 1) * size + 1, IF k * size < Len(s) THEN k * size ELSE Len(s))]
    BY <2>1, Zenon DEF Slices
  <2> QED
    BY <2>2, <2>3
<1>6. ASSUME NEW k \in 1..K
      PROVE  /\ m[k - 1] \in 0..n /\ end(k) \in m[k - 1]..n
             /\ slice[k] \in Seq(T) /\ Len(slice[k]) \in 1..size
  <2> DEFINE i == m[k - 1]  j == end(k)
  <2>1. i \in 0..n /\ j \in (i + 1)..n /\ j - i \in 1..size
    <3>1. n \in Nat /\ i \in Nat /\ i < n /\ j = (IF i + size < n THEN i + size ELSE n)
      BY <1>0, <1>4 DEF n
    <3> HIDE DEF i, j
    <3> QED
      BY <3>1
  <2>2. slice[k] = SubSeq(s, i + 1, j)
    OBVIOUS
  <2> HIDE DEF i, j
  <2>3. SubSeq(s, i + 1, j) \in Seq(T) /\ Len(SubSeq(s, i + 1, j)) = j - i
    <3>1. i \in Nat /\ j \in Nat /\ i < j /\ j <= Len(s)
      BY <1>0, <2>1 DEF n
    <3> QED
      BY <3>1, PieceOf
  <2> HIDE DEF slice
  <2>4. slice[k] \in Seq(T) /\ Len(slice[k]) \in 1..size /\ i \in 0..n /\ j \in i..n
    BY <1>0, <2>1, <2>2, <2>3
  <2> QED
    BY <2>4 DEF i, j
<1>7. slice \in Seq(Seq(T)) /\ Len(slice) = K
  <2>1. \A k \in 1..K : SubSeq(s, m[k - 1] + 1, end(k)) \in Seq(T)
    BY <1>6
  <2> HIDE DEF end
  <2>2. slice \in [1..K -> Seq(T)]
    BY <2>1
  <2> HIDE DEF slice
  <2> QED
    BY <2>2
<1> DEFINE Q == {j \in 0..K : FlattenSeq(SubSeq(slice, 1, j)) = SubSeq(s, 1, end(j))}
<1>8. 0 \in Q
  <2>1. end(0) = 0
    BY <1>0, <1>1 DEF n
  <2>2. SubSeq(s, 1, 0) = <<>>
    OBVIOUS
  <2> HIDE DEF slice
  <2>3. FlattenSeq(SubSeq(slice, 1, 0)) = <<>>
    BY <1>7, NoPrefix
  <2> QED
    <3>1. 0 \in 0..K
      OBVIOUS
    <3> QED
      BY <2>1, <2>2, <2>3, <3>1, Zenon
<1>9. ASSUME NEW j \in 0..(K - 1), j \in Q
      PROVE  j + 1 \in Q
  <2> DEFINE k == j + 1
  <2>1. k \in 1..K /\ k - 1 = j /\ k \in 0..K
    OBVIOUS
  <2>2. end(j) = m[j] /\ m[j] \in 0..n /\ end(k) \in m[j]..n
    BY <1>4, <1>6, <2>1
  <2>3. slice[k] = SubSeq(s, m[j] + 1, end(k))
    BY <2>1
  <2> HIDE DEF slice
  <2>4. FlattenSeq(SubSeq(slice, 1, k)) = FlattenSeq(SubSeq(slice, 1, j)) \o slice[k]
    BY <1>7, PrefixFlattened
  <2>5. FlattenSeq(SubSeq(slice, 1, j)) = SubSeq(s, 1, m[j])
    BY <1>9, <2>2
  <2> HIDE DEF end, k
  <2>6. SubSeq(s, 1, m[j]) \o SubSeq(s, m[j] + 1, end(k)) = SubSeq(s, 1, end(k))
    BY <2>2, SubSeqConcat DEF n
  <2>7. FlattenSeq(SubSeq(slice, 1, k)) = SubSeq(s, 1, end(k))
    BY <2>3, <2>4, <2>5, <2>6
  <2> QED
    BY <2>1, <2>7 DEF k
<1> HIDE DEF Q
<1>10. K \in Q
  BY <1>8, <1>9, LastTurn
<1>11. FlattenSeq(slice) = s
  <2> HIDE DEF slice
  <2>1. FlattenSeq(slice) = SubSeq(s, 1, end(K))
    BY <1>7, <1>10, NoPrefix DEF Q
  <2>2. end(K) = n
    BY <1>0, <1>1, <1>3
  <2>3. SubSeq(s, 1, n) = s
    BY DEF n
  <2> QED
    BY <2>1, <2>2, <2>3
<1> HIDE DEF slice
<1> QED
  BY <1>5, <1>6, <1>7, <1>11

Widths(answer) == UNION {{answer[n][i].width : i \in DOMAIN answer[n]} : n \in 1..RequestSize}
VectorsOf(T, answer) == {[of |-> t, width |-> w] : t \in T, w \in Widths(answer)}
OfText(T, answer) == {p \in VectorsOf(T, answer) \X T : p[1].of = p[2]}

Keys(items) == [i \in DOMAIN items |-> items[i].index]
Answered(items, key, m, n) ==
    /\ m \in 0..n /\ Len(items) = m /\ DOMAIN items = 1..m /\ key \in [1..m -> 1..n]
    /\ \A i, j \in 1..m : key[i] = key[j] => i = j
    /\ m = n => {key[i] : i \in 1..m} = 1..n

\* What the API answers to one request: no more than was asked, nothing twice.
LEMMA AnswerIs ==
  ASSUME NEW answer \in Answers, NEW n \in 1..RequestSize
  PROVE  Answered(answer[n], Keys(answer[n]), Len(answer[n]), n)
<1> DEFINE items == answer[n]  m == Len(items)  key == Keys(items)
           I == {key[i] : i \in 1..m}
<1>1. /\ items \in Seq(ToSet(items))
      /\ \A i, j \in DOMAIN items : items[i].index \in 1..n /\ (items[i].index = items[j].index => i = j)
  BY EmbeddingAssumption DEF EmbeddingAssumption
<1> HIDE DEF items
<1>2. m \in Nat /\ DOMAIN items = 1..m
  BY <1>1
<1> HIDE DEF m
<1>3. key \in [1..m -> 1..n] /\ \A i, j \in 1..m : key[i] = key[j] => i = j
  BY <1>1, <1>2 DEF Keys
<1>4. IsFiniteSet(1..m) /\ Cardinality(1..m) = m /\ IsFiniteSet(1..n) /\ Cardinality(1..n) = n
  BY <1>2, FS_Interval
<1> HIDE DEF key
<1>5. I \in SUBSET (1..n) /\ key \in Bijection(1..m, I)
  <2>1. I \in SUBSET (1..n) /\ key \in [1..m -> I] /\ \A x \in I : \E i \in 1..m : key[i] = x
    BY <1>3
  <2> HIDE DEF I
  <2>2. key \in Injection(1..m, I)
    BY <1>3, <2>1 DEF Injection, IsInjective
  <2>3. key \in Surjection(1..m, I)
    BY <2>1 DEF Surjection
  <2> QED
    BY <2>1, <2>2, <2>3 DEF Bijection
<1> HIDE DEF I
<1>6. IsFiniteSet(I) /\ Cardinality(I) = m
  <2>1. key \in Surjection(1..m, I) /\ key \in Injection(1..m, I)
    BY <1>5 DEF Bijection
  <2> QED
    BY <1>4, <2>1, FS_Surjection
<1>7. Cardinality(I) <= n /\ (Cardinality(I) = n => I = 1..n)
  <2> DEFINE N == 1..n
  <2>1. IsFiniteSet(N) /\ I \in SUBSET N /\ Cardinality(N) = n
    BY <1>4, <1>5
  <2> HIDE DEF N
  <2>2. Cardinality(I) <= Cardinality(N) /\ (Cardinality(I) = Cardinality(N) => I = N)
    BY <2>1, FS_Subset
  <2> QED
    BY <2>1, <2>2 DEF N
<1>8. m \in 0..n /\ (m = n => I = 1..n)
  BY <1>2, <1>6, <1>7
<1> QED
  BY <1>2, <1>3, <1>8 DEF I, m, key, items, Answered

Permutes(key, n) ==
    /\ key \in [1..n -> 1..n] /\ {key[i] : i \in 1..n} = 1..n
    /\ \A i, j \in 1..n : key[i] = key[j] => i = j

\* If it answered for every text, the answers are put back in their order.
LEMMA InTheirPlaces ==
  ASSUME NEW n \in Nat, NEW key, Permutes(key, n), NEW r \in 1..n
  PROVE  SortedBy(key)[r] \in 1..n /\ key[SortedBy(key)[r]] = r
<1>0. /\ key \in [1..n -> 1..n] /\ {key[i] : i \in 1..n} = 1..n
      /\ \A i, j \in 1..n : key[i] = key[j] => i = j
  BY DEF Permutes
<1> DEFINE i == SortedBy(key)[r]
<1>1. i \in 1..n /\ Cardinality(Below(key, i)) = r - 1
  <2>1. key \in [1..n -> Int]
    BY <1>0
  <2> QED
    BY <2>1, SortedIs
<1> HIDE DEF i
<1> DEFINE B == Below(key, i)  J == 1..(key[i] - 1)
           f == [j \in B |-> key[j]]
<1>2. B \in SUBSET (1..n) /\ \A j \in 1..n : j \in B <=> key[j] < key[i]
  <2>1. DOMAIN key = 1..n /\ key[i] \in 1..n /\ \A j \in 1..n : key[j] \in 1..n
    BY <1>0, <1>1
  <2>2. \A j \in 1..n : key[j] = key[i] /\ j < i => FALSE
    BY <1>0, <1>1
  <2> QED
    BY <2>1, <2>2 DEF Below
<1>3. key[i] \in 1..n
  BY <1>0, <1>1
<1> HIDE DEF B
<1>4. f \in Bijection(B, J)
  <2>1. \A j \in B : key[j] \in J
    <3>1. \A j \in B : key[j] \in 1..n /\ key[j] < key[i]
      BY <1>0, <1>2
    <3> QED
      BY <1>3, <3>1
  <2>2. \A v \in J : \E j \in B : key[j] = v
    <3> SUFFICES ASSUME NEW v \in J PROVE \E j \in B : key[j] = v
      OBVIOUS
    <3>1. v \in 1..n /\ v < key[i]
      <4> DEFINE x == key[i]
      <4>1. x \in 1..n /\ v \in 1..(x - 1)
        BY <1>3
      <4> HIDE DEF x
      <4>2. v \in 1..n /\ v < x
        BY <4>1
      <4> QED
        BY <4>2 DEF x
    <3>2. PICK j \in 1..n : key[j] = v
      BY <1>0, <3>1
    <3> QED
      BY <1>2, <3>1, <3>2
  <2> HIDE DEF J
  <2>3. f \in [B -> J] /\ \A j \in B : f[j] = key[j]
    BY <2>1
  <2> HIDE DEF f
  <2>4. f \in Injection(B, J)
    BY <1>0, <1>2, <2>3 DEF Injection, IsInjective
  <2>5. f \in Surjection(B, J)
    BY <2>2, <2>3 DEF Surjection
  <2> QED
    BY <2>4, <2>5 DEF Bijection
<1>5. IsFiniteSet(B)
  <2>1. IsFiniteSet(1..n)
    BY FS_Interval
  <2> QED
    BY <1>2, <2>1, FS_Subset
<1>6. Cardinality(B) = Cardinality(J)
  <2>1. f \in Surjection(B, J) /\ f \in Injection(B, J)
    BY <1>4 DEF Bijection
  <2> QED
    BY <1>5, <2>1, FS_Surjection
<1>7. Cardinality(J) = key[i] - 1
  <2>1. key[i] - 1 \in Nat
    BY <1>3
  <2> QED
    BY <2>1, FS_Interval
<1>8. key[i] = r
  BY <1>1, <1>3, <1>6, <1>7 DEF B
<1> QED
  BY <1>1, <1>8 DEF i

\* What _post returns for a slice: fewer vectors than texts, or as many, each of the text at its place.
LEMMA PostIs ==
  ASSUME NEW answer \in Answers, NEW T, NEW texts \in Seq(T), Len(texts) \in 1..RequestSize
  PROVE  /\ Post(texts, answer) \in Seq(VectorsOf(T, answer))
         /\ Alike(Post(texts, answer), texts, OfText(T, answer))
         /\ Complete(answer) => Len(Post(texts, answer)) = Len(texts)
<1> DEFINE n == Len(texts)  items == answer[n]  m == Len(items)
           key == Keys(items)
           order == SortedBy(key)
           post == Post(texts, answer)
           item(r) == items[order[r]]
<1>0. n \in 1..RequestSize /\ n \in Nat /\ \A i \in 1..n : texts[i] \in T
  OBVIOUS
<1>1. /\ m \in 0..n /\ DOMAIN items = 1..m /\ key \in [1..m -> 1..n]
      /\ \A i, j \in 1..m : key[i] = key[j] => i = j
      /\ m = n => {key[i] : i \in 1..m} = 1..n
  <2>1. Answered(items, key, m, n)
    <3> HIDE DEF n
    <3> QED
      BY <1>0, AnswerIs
  <2> HIDE DEF items, key, m, n
  <2> QED
    BY <2>1 DEF Answered
<1>2. post = [r \in 1..m |-> [of |-> texts[item(r).index], width |-> item(r).width]]
  <2>1. post = [r \in DOMAIN items |-> [of |-> texts[item(r).index], width |-> item(r).width]]
    BY Zenon DEF Post, Keys
  <2> QED
    BY <1>1, <2>1, Zenon
<1> HIDE DEF n
<1>3. \A r \in 1..m : order[r] \in 1..m
  <2>1. m \in Nat /\ key \in [1..m -> Int]
    BY <1>0, <1>1
  <2> HIDE DEF key, m
  <2> QED
    BY <2>1, SortedIs
<1> HIDE DEF post
<1>4. ASSUME NEW r \in 1..m
      PROVE  /\ post[r] = [of |-> texts[key[order[r]]], width |-> item(r).width]
             /\ key[order[r]] \in 1..n /\ post[r] \in VectorsOf(T, answer)
  <2>1. post[r] = [of |-> texts[item(r).index], width |-> item(r).width]
    BY <1>2
  <2>2. order[r] \in DOMAIN items
    BY <1>1, <1>3
  <2>3. key[order[r]] = item(r).index /\ key[order[r]] \in 1..n
    BY <1>1, <1>3, <2>2 DEF Keys
  <2>4. item(r).width \in Widths(answer)
    <3>1. item(r).width \in {answer[n][i].width : i \in DOMAIN answer[n]}
      BY <2>2
    <3> QED
      BY <1>0, <3>1 DEF Widths
  <2>5. texts[item(r).index] \in T
    BY <1>0, <2>3
  <2> QED
    BY <2>1, <2>3, <2>4, <2>5 DEF VectorsOf
<1> HIDE DEF items, key, order, item
<1> DEFINE V == VectorsOf(T, answer)
<1>5. DOMAIN post = 1..m /\ \A r \in 1..m : post[r] \in V
  BY <1>2, <1>4
<1> HIDE DEF V
<1>6. post \in Seq(V) /\ Len(post) = m
  <2>1. m \in Nat
    <3> HIDE DEF m
    <3> QED
      BY <1>0, <1>1
  <2>2. post = [r \in 1..m |-> post[r]]
    BY <1>2, <1>5
  <2> HIDE DEF m
  <2>3. post \in [1..m -> V]
    BY <1>5, <2>2
  <2> QED
    BY <2>1, <2>3
<1>7. ASSUME m = n
      PROVE  \A r \in 1..n : <<post[r], texts[r]>> \in OfText(T, answer)
  <2> SUFFICES ASSUME NEW r \in 1..n PROVE <<post[r], texts[r]>> \in OfText(T, answer)
    OBVIOUS
  <2> HIDE DEF V
  <2>1. key[order[r]] = r
    <3>1. Permutes(key, n)
      <4> HIDE DEF m
      <4> QED
        BY <1>1, <1>7 DEF Permutes
    <3> QED
      BY <1>0, <3>1, InTheirPlaces DEF order
  <2>2. post[r].of = texts[r] /\ post[r] \in VectorsOf(T, answer) /\ texts[r] \in T
    <3> HIDE DEF m
    <3>1. r \in 1..m /\ texts[r] \in T
      BY <1>0, <1>7
    <3>2. post[r] = [of |-> texts[r], width |-> item(r).width] /\ post[r] \in VectorsOf(T, answer)
      BY <1>4, <2>1, <3>1
    <3> QED
      BY <3>1, <3>2
  <2> QED
    BY <2>2 DEF OfText
<1>8. Alike(post, texts, OfText(T, answer))
  <2>1. Len(post) <= n
    <3> HIDE DEF m
    <3> QED
      BY <1>0, <1>1, <1>6
  <2> QED
    BY <1>6, <1>7, <2>1 DEF Alike, n
<1>9. Complete(answer) => Len(post) = n
  BY <1>0, <1>6 DEF Complete, m, items
<1> QED
  BY <1>6, <1>8, <1>9 DEF post, V, n
-----------------------------------------------------------------------------
(* The vectors of a build, passage by passage.                             *)

\* What embed_documents returns for any texts: a vector for each, if every slice is answered in full.
LEMMA DocumentsAre ==
  ASSUME NEW answer \in Answers, NEW T, NEW texts \in Seq(T)
  PROVE  /\ EmbedDocuments(texts, answer) \in Seq(VectorsOf(T, answer))
         /\ Alike(EmbedDocuments(texts, answer), texts, OfText(T, answer))
         /\ Complete(answer) => Len(EmbedDocuments(texts, answer)) = Len(texts)
<1> DEFINE A == Slices(texts, RequestSize)  K == Len(A)
           B == [k \in DOMAIN A |-> Post(A[k], answer)]
           V == VectorsOf(T, answer)  P == OfText(T, answer)
<1>1. RequestSize \in Nat \ {0}
  BY EmbeddingAssumption DEF EmbeddingAssumption
<1>2. A \in Seq(Seq(T)) /\ FlattenSeq(A) = texts /\ \A k \in 1..K : Len(A[k]) \in 1..RequestSize
  BY <1>1, SlicesAre
<1>3. EmbedDocuments(texts, answer) = FlattenSeq(B)
  BY Zenon DEF EmbedDocuments
<1> HIDE DEF A
<1>4. K \in Nat /\ DOMAIN A = 1..K /\ \A k \in 1..K : A[k] \in Seq(T)
  BY <1>2
<1> HIDE DEF V, P
<1>5. \A k \in 1..K : /\ Post(A[k], answer) \in Seq(V) /\ Alike(Post(A[k], answer), A[k], P)
                      /\ Complete(answer) => Len(Post(A[k], answer)) = Len(A[k])
  <2> HIDE DEF K
  <2> QED
    BY <1>2, <1>4, PostIs DEF V, P
<1> DEFINE SV == Seq(V)
<1>6. B \in Seq(SV) /\ Len(B) = K /\ \A k \in 1..K : B[k] = Post(A[k], answer)
  <2>1. B \in [1..K -> SV] /\ \A k \in 1..K : B[k] = Post(A[k], answer)
    <3> HIDE DEF K
    <3> QED
      BY <1>4, <1>5
  <2> HIDE DEF B, K, SV
  <2> QED
    BY <1>4, <2>1
<1> HIDE DEF B
<1>7. /\ Alike(FlattenSeq(B), FlattenSeq(A), P)
      /\ Complete(answer) => Len(FlattenSeq(B)) = Len(FlattenSeq(A))
  <2>1. AllAlike(B, A, P)
    BY <1>5, <1>6 DEF AllAlike
  <2>2. Complete(answer) => AllAsLong(B, A)
    BY <1>5, <1>6 DEF AllAsLong
  <2>3. A \in Seq(Seq(T)) /\ B \in Seq(Seq(V))
    BY <1>2, <1>6
  <2> QED
    BY <2>1, <2>2, <2>3, FlattenAlike
<1>8. FlattenSeq(B) \in Seq(V)
  BY <1>6, FlattenIsOf
<1> QED
  BY <1>2, <1>3, <1>7, <1>8 DEF V, P

\* The passages of a build, and what is stored of one.
TextsOf(X) == {x.text : x \in X}
EmbeddedOf(X) ==
    [chunk : X, embedding : [of : TextsOf(X), width : {Dimensions}]]
Paired(X) ==
    {p \in EmbeddedOf(X) \X X :
        p[1].chunk = p[2] /\ p[1].embedding = [of |-> p[2].text, width |-> Dimensions]}

\* What _embed_batch makes of a batch: no rows, or a row for each passage with the vector of its text.
LEMMA BatchIs ==
  ASSUME NEW answer \in Answers, NEW X, NEW batch \in Seq(X)
  PROVE  /\ ~IsRefused(batch, answer) =>
                /\ Zipped(batch, answer) \in Seq(EmbeddedOf(X)) /\ Len(Zipped(batch, answer)) = Len(batch)
                /\ Alike(Zipped(batch, answer), batch, Paired(X))
         /\ Complete(answer) => ~IsRefused(batch, answer)
<1> DEFINE n == Len(batch)
           texts == [i \in DOMAIN batch |-> batch[i].text]
           T == TextsOf(X)
           v == Vectors(batch, answer)
           z == Zipped(batch, answer)
<1>1. n \in Nat /\ DOMAIN batch = 1..n /\ \A i \in 1..n : batch[i] \in X
  OBVIOUS
<1> HIDE DEF n
<1>2. texts \in Seq(T) /\ Len(texts) = n /\ \A i \in 1..n : texts[i] = batch[i].text
  <2>1. \A i \in 1..n : batch[i].text \in T
    BY <1>1 DEF TextsOf
  <2> HIDE DEF T
  <2>2. texts \in [1..n -> T]
    BY <1>1, <2>1
  <2>3. \A i \in 1..n : texts[i] = batch[i].text
    BY <1>1
  <2> HIDE DEF texts
  <2> QED
    BY <1>1, <2>2, <2>3
<1>3. v = EmbedDocuments(texts, answer)
  BY Zenon DEF Vectors
<1>4. IsRefused(batch, answer) <=> Len(v) # n \/ \E i \in DOMAIN v : v[i].width # Dimensions
  BY Zenon DEF IsRefused, n
<1>5. z = [i \in 1..n |-> [chunk |-> batch[i], embedding |-> v[i]]]
  <2>1. z = [i \in DOMAIN batch |-> [chunk |-> batch[i], embedding |-> v[i]]]
    BY Zenon DEF Zipped
  <2> QED
    BY <1>1, <2>1, Zenon
<1> HIDE DEF texts, v, z, T
<1> DEFINE VT == VectorsOf(T, answer)  P == OfText(T, answer)
<1>6. v \in Seq(VT) /\ Alike(v, texts, P) /\ (Complete(answer) => Len(v) = n)
  BY <1>2, <1>3, DocumentsAre
<1> HIDE DEF VT
<1>7. ASSUME ~IsRefused(batch, answer)
      PROVE  z \in Seq(EmbeddedOf(X)) /\ Len(z) = n /\ Alike(z, batch, Paired(X))
  <2>1. Len(v) = n /\ DOMAIN v = 1..n /\ \A i \in 1..n : v[i].width = Dimensions /\ v[i] \in VT
    <3>1. Len(v) = n /\ \A i \in DOMAIN v : v[i].width = Dimensions
      BY <1>4, <1>7
    <3>2. DOMAIN v = 1..Len(v) /\ \A i \in 1..Len(v) : v[i] \in VT
      BY <1>6
    <3> QED
      BY <3>1, <3>2
  <2>2. ASSUME NEW i \in 1..n
        PROVE  /\ z[i] \in EmbeddedOf(X) /\ <<z[i], batch[i]>> \in Paired(X)
    <3>1. <<v[i], texts[i]>> \in P
      BY <1>2, <1>6, <2>1 DEF Alike
    <3>2. v[i].of = batch[i].text /\ v[i].width = Dimensions
      BY <1>2, <2>1, <3>1 DEF OfText
    <3>3. v[i] = [of |-> batch[i].text, width |-> Dimensions]
      <4>1. PICK t \in T, w \in Widths(answer) : v[i] = [of |-> t, width |-> w]
        BY <2>1 DEF VT, VectorsOf
      <4> QED
        BY <3>2, <4>1
    <3>4. batch[i] \in X /\ batch[i].text \in TextsOf(X)
      BY <1>1 DEF TextsOf
    <3>5. z[i] = [chunk |-> batch[i], embedding |-> v[i]]
      BY <1>5
    <3>6. z[i] \in EmbeddedOf(X)
      BY <3>3, <3>4, <3>5 DEF EmbeddedOf
    <3> QED
      BY <3>3, <3>4, <3>5, <3>6 DEF Paired
  <2> DEFINE E == EmbeddedOf(X)
  <2>3. z \in [1..n -> E] /\ n \in Nat
    <3>1. \A i \in 1..n : z[i] \in E
      BY <2>2
    <3> HIDE DEF E
    <3>2. z = [i \in 1..n |-> z[i]]
      BY <1>5
    <3> QED
      BY <1>1, <3>1, <3>2
  <2> HIDE DEF E
  <2>4. z \in Seq(E) /\ Len(z) = n
    BY <2>3
  <2> QED
    BY <1>1, <2>2, <2>4 DEF Alike, n, E
<1>8. ASSUME Complete(answer)
      PROVE  ~IsRefused(batch, answer)
  <2>1. \A w \in Widths(answer) : w = Dimensions
    <3>1. \A m \in 1..RequestSize : \A i \in DOMAIN answer[m] : answer[m][i].width = Dimensions
      <4> TAKE m \in 1..RequestSize
      <4>1. Len(answer[m]) = m /\ \A i \in 1..m : answer[m][i].width = Dimensions
        BY <1>8 DEF Complete
      <4>2. answer[m] \in Seq(ToSet(answer[m]))
        BY EmbeddingAssumption DEF EmbeddingAssumption
      <4>3. DOMAIN answer[m] = 1..m
        BY <4>1, <4>2
      <4> QED
        BY <4>1, <4>3
    <3> QED
      BY <3>1 DEF Widths
  <2>2. \A x \in VT : x.width = Dimensions
    BY <2>1 DEF VT, VectorsOf
  <2>3. Len(v) = n /\ \A i \in DOMAIN v : v[i] \in VT
    <3>1. \A i \in DOMAIN v : v[i] \in VT
      BY <1>6
    <3> QED
      BY <1>6, <1>8, <3>1
  <2> QED
    BY <1>4, <2>2, <2>3
<1> QED
  BY <1>7, <1>8 DEF z, n

\* What _embed returns.
LEMMA EmbedIs ==
  ASSUME NEW answer \in Answers, NEW X, NEW chunks \in Seq(X)
  PROVE  HaveTheirVectors(chunks, answer)
<1> DEFINE A == Slices(chunks, Batch)  K == Len(A)
           B == [k \in DOMAIN A |-> Zipped(A[k], answer)]
           E == EmbeddedOf(X)  P == Paired(X)
           refused == \E k \in DOMAIN A : IsRefused(A[k], answer)
<1>1. Batch \in Nat \ {0}
  BY EmbeddingAssumption DEF EmbeddingAssumption
<1>2. A \in Seq(Seq(X)) /\ FlattenSeq(A) = chunks
  BY <1>1, SlicesAre
<1>3. Embed(chunks, answer) = IF refused THEN {} ELSE {FlattenSeq(B)}
  BY Zenon DEF Embed
<1> HIDE DEF A
<1>4. K \in Nat /\ DOMAIN A = 1..K /\ \A k \in 1..K : A[k] \in Seq(X)
  BY <1>2
<1>5. Complete(answer) => ~refused
  <2> HIDE DEF K
  <2> QED
    BY <1>4, BatchIs
<1> HIDE DEF E, P
<1>6. ASSUME ~refused
      PROVE  /\ FlattenSeq(B) \in Seq(E) /\ Len(FlattenSeq(B)) = Len(chunks)
             /\ Alike(FlattenSeq(B), chunks, P)
  <2>1. \A k \in 1..K : /\ Zipped(A[k], answer) \in Seq(E) /\ Alike(Zipped(A[k], answer), A[k], P)
                        /\ Len(Zipped(A[k], answer)) = Len(A[k])
    <3> HIDE DEF K
    <3> QED
      BY <1>4, <1>6, BatchIs DEF E, P
  <2> DEFINE SE == Seq(E)
  <2>2. B \in Seq(SE) /\ Len(B) = K /\ \A k \in 1..K : B[k] = Zipped(A[k], answer)
    <3>1. B \in [1..K -> SE] /\ \A k \in 1..K : B[k] = Zipped(A[k], answer)
      <4> HIDE DEF K
      <4> QED
        BY <1>4, <2>1
    <3> HIDE DEF B, K, SE
    <3> QED
      BY <1>4, <3>1
  <2> HIDE DEF B
  <2>3. AllAlike(B, A, P) /\ AllAsLong(B, A)
    BY <2>1, <2>2 DEF AllAlike, AllAsLong
  <2>4. A \in Seq(Seq(X)) /\ B \in Seq(Seq(E))
    BY <1>2, <2>2
  <2>5. Alike(FlattenSeq(B), FlattenSeq(A), P) /\ Len(FlattenSeq(B)) = Len(FlattenSeq(A))
    BY <2>3, <2>4, FlattenAlike
  <2>6. FlattenSeq(B) \in Seq(E)
    BY <2>4, FlattenIsOf
  <2> QED
    BY <1>2, <2>5, <2>6
<1> HIDE DEF B
<1>7. ASSUME NEW embedded \in Embed(chunks, answer)
      PROVE  /\ [n \in DOMAIN embedded |-> embedded[n].chunk] = chunks
             /\ \A n \in DOMAIN chunks :
                   embedded[n].embedding = [of |-> chunks[n].text, width |-> Dimensions]
  <2>1. embedded \in Seq(E) /\ Len(embedded) = Len(chunks) /\ Alike(embedded, chunks, P)
    BY <1>3, <1>6, <1>7
  <2>2. Len(chunks) \in Nat /\ DOMAIN chunks = 1..Len(chunks) /\ DOMAIN embedded = 1..Len(chunks)
    BY <2>1
  <2>3. \A n \in 1..Len(chunks) : <<embedded[n], chunks[n]>> \in Paired(X)
    BY <2>1 DEF Alike, P
  <2>4. \A n \in 1..Len(chunks) :
          /\ embedded[n].chunk = chunks[n]
          /\ embedded[n].embedding = [of |-> chunks[n].text, width |-> Dimensions]
    BY <2>3 DEF Paired
  <2>5. [n \in DOMAIN embedded |-> embedded[n].chunk] = [n \in 1..Len(chunks) |-> chunks[n]]
    BY <2>2, <2>4, Zenon
  <2>6. chunks = [n \in 1..Len(chunks) |-> chunks[n]]
    OBVIOUS
  <2> QED
    BY <2>2, <2>4, <2>5, <2>6
<1>8. Complete(answer) => Embed(chunks, answer) # {}
  BY <1>3, <1>5
<1> QED
  BY <1>7, <1>8 DEF HaveTheirVectors
-----------------------------------------------------------------------------
(* What the passages of a section, and of an article, say.                 *)

\* An item at the end of the second list is one at the end of both.
LEMMA MovedOver ==
  ASSUME NEW T, NEW s \in Seq(T), NEW t \in Seq(T), NEW x \in T
  PROVE  /\ s \o Append(t, x) = Append(s \o t, x) /\ s \o <<x>> = Append(s, x)
         /\ s \o t \in Seq(T) /\ s \o <<>> = s
  OBVIOUS

\* _pack leaves no part out, and keeps their order.
LEMMA PackKeeps ==
  ASSUME NEW T \in SUBSET Paragraphs, NEW parts \in Seq(T)
  PROVE  Pack(parts) \in Seq(Seq(T)) /\ FlattenSeq(Pack(parts)) = parts
<1> DEFINE N == Len(parts)
           upTo(i) == SubSeq(parts, 1, i)
           Good(y, i) == y \in Taking(T) /\ FlattenSeq(y.packed) \o y.current = upTo(i)
<1>1. /\ N \in Nat /\ upTo(0) = <<>> /\ upTo(N) = parts
      /\ \A i \in 1..N : parts[i] \in T
      /\ \A i \in 0..(N - 1) : upTo(i + 1) = Append(upTo(i), parts[i + 1])
  OBVIOUS
<1>2. PICK f : /\ f[0] = Nothing /\ f[N] = Taken(parts)
               /\ \A i \in 1..N : f[i] = Take(f[i - 1], parts[i])
  BY TakeTurns
<1> HIDE DEF N, upTo
<1>3. ASSUME NEW y, NEW i \in 0..(N - 1), Good(y, i)
      PROVE  Good(Take(y, parts[i + 1]), i + 1)
  <2> DEFINE p == parts[i + 1]  z == Take(y, p)  flat == FlattenSeq(y.packed)
  <2>1. /\ p \in T /\ y \in Taking(T) /\ y.packed \in Seq(Seq(T)) /\ y.current \in Seq(T)
        /\ flat \o y.current = upTo(i) /\ upTo(i + 1) = Append(upTo(i), p)
    <3>1. i + 1 \in 1..N
      BY <1>1
    <3> QED
      BY <1>1, <1>3, <3>1 DEF Taking
  <2> HIDE DEF p
  <2>2. z \in Taking(T)
    BY <2>1, TakeIsOf
  <2>3. flat \in Seq(T) /\ FlattenSeq(Append(y.packed, y.current)) = flat \o y.current
    BY <2>1, FlattenOfAppend
  <2>4. \/ z.packed = Append(y.packed, y.current) /\ z.current = <<p>>
        \/ z.packed = y.packed /\ z.current = Append(y.current, p)
    BY DEF Take
  <2> HIDE DEF flat, z
  <2> DEFINE c == y.current
  <2>5. c \in Seq(T)
    BY <2>1
  <2> HIDE DEF c
  <2>6. flat \o Append(c, p) = Append(flat \o c, p) /\ (flat \o c) \o <<p>> = Append(flat \o c, p)
    <3>1. p \in T /\ flat \in Seq(T)
      BY <2>1, <2>3
    <3>2. flat \o Append(c, p) = Append(flat \o c, p) /\ flat \o c \in Seq(T)
      BY <2>5, <3>1, MovedOver
    <3> DEFINE w == flat \o c
    <3>3. w \in Seq(T)
      BY <3>2
    <3> HIDE DEF w
    <3>4. w \o <<p>> = Append(w, p)
      BY <3>1, <3>3, MovedOver
    <3> QED
      BY <3>2, <3>4 DEF w
  <2>7. FlattenSeq(z.packed) \o z.current = Append(upTo(i), p)
    <3>1. CASE z.packed = Append(y.packed, y.current) /\ z.current = <<p>>
      BY <2>1, <2>3, <2>6, <3>1 DEF c, flat
    <3>2. CASE z.packed = y.packed /\ z.current = Append(y.current, p)
      BY <2>1, <2>6, <3>2 DEF c, flat
    <3> QED
      BY <2>4, <3>1, <3>2
  <2> QED
    BY <2>1, <2>2, <2>7 DEF z, p
<1> DEFINE S == {n \in 0..N : Good(f[n], n)}
<1>5. Good(Nothing, 0)
  <2>1. Nothing.packed = <<>> /\ Nothing.current = <<>> /\ <<>> \o <<>> = <<>>
    BY DEF Nothing
  <2>2. Nothing \in Taking(T)
    BY DEF Nothing, Taking
  <2> QED
    BY <1>1, <2>1, <2>2, FlattenOfNone
<1> HIDE DEF Good
<1>6. 0 \in S
  BY <1>1, <1>2, <1>5
<1>7. ASSUME NEW n \in 0..(N - 1), n \in S PROVE n + 1 \in S
  <2>1. n + 1 \in 1..N /\ n + 1 \in 0..N /\ (n + 1) - 1 = n /\ Good(f[n], n)
    BY <1>1, <1>7
  <2>2. f[n + 1] = Take(f[n], parts[n + 1])
    BY <1>2, <2>1
  <2> QED
    BY <1>3, <2>1, <2>2
<1> HIDE DEF S
<1>9. N \in S
  BY <1>1, <1>6, <1>7, LastTurn
<1> DEFINE end == Taken(parts)
<1>10. /\ end.packed \in Seq(Seq(T)) /\ end.current \in Seq(T)
       /\ FlattenSeq(end.packed) \o end.current = parts
  BY <1>1, <1>2, <1>9 DEF S, Good, Taking
<1>11. Pack(parts) = IF end.current = <<>> THEN end.packed ELSE Append(end.packed, end.current)
  BY DEF Pack, Taken
<1> HIDE DEF end
<1>12. FlattenSeq(end.packed) \in Seq(T)
  BY <1>10, FlattenIsOf
<1>13. CASE end.current = <<>>
  <2> DEFINE g == FlattenSeq(end.packed)
  <2>1. g \in Seq(T) /\ g \o <<>> = parts
    BY <1>10, <1>12, <1>13
  <2> HIDE DEF g
  <2>2. g = parts
    BY <2>1
  <2> QED
    BY <1>10, <1>11, <1>13, <2>2 DEF g
<1>14. CASE end.current # <<>>
  <2> DEFINE ep == end.packed  ec == end.current
  <2>1. ep \in Seq(Seq(T)) /\ ec \in Seq(T)
    BY <1>10
  <2> HIDE DEF ep, ec
  <2>2. FlattenSeq(Append(ep, ec)) = FlattenSeq(ep) \o ec /\ Append(ep, ec) \in Seq(Seq(T))
    BY <2>1, FlattenOfAppend
  <2> QED
    BY <1>10, <1>11, <1>14, <2>2 DEF ep, ec
<1> QED
  BY <1>13, <1>14

\* The parts that a paragraph is split into say what it says.
LEMMA PartsKeep ==
  ASSUME NEW p \in Paragraphs
  PROVE  Parts(p) \in Seq(Seq(Nat)) /\ FlattenSeq(Parts(p)) = p
<1>0. p \in Seq(Nat)
  BY DEF Paragraphs
<1>1. CASE Tokens(Chars(p)) <= MaxTokens
  <2>1. Parts(p) = <<p>>
    BY <1>1 DEF Parts
  <2> QED
    BY <1>0, <2>1, FlattenOfOne
<1>2. CASE ~(Tokens(Chars(p)) <= MaxTokens)
  <2> DEFINE T == {q \in Paragraphs : Len(q) = 1}
             alone == [i \in DOMAIN p |-> <<p[i]>>]
             groups == Pack(alone)
  <2>1. alone \in Seq(T)
    <3>2. \A i \in DOMAIN p : <<p[i]>> \in T
      BY <1>0 DEF Paragraphs
    <3> HIDE DEF T
    <3> QED
      BY <1>0, <3>2
  <2>2. T \in SUBSET Paragraphs /\ T \in SUBSET Seq(Nat)
    BY DEF Paragraphs
  <2>3. FlattenSeq(alone) = p
    BY <1>0, FlattenSingles
  <2> HIDE DEF T, alone
  <2>4. groups \in Seq(Seq(T)) /\ FlattenSeq(groups) = alone
    BY <2>1, <2>2, PackKeeps
  <2>5. Parts(p) = [g \in DOMAIN groups |-> FlattenSeq(groups[g])]
    BY <1>2 DEF Parts, alone
  <2> HIDE DEF groups
  <2>6. groups \in Seq(Seq(Seq(Nat)))
    BY <2>2, <2>4
  <2>7. FlattenSeq(Parts(p)) = FlattenSeq(FlattenSeq(groups))
    BY <2>5, <2>6, FlattenFlattened
  <2>8. Parts(p) \in Seq(Seq(Nat))
    <3>1. \A g \in DOMAIN groups : FlattenSeq(groups[g]) \in Seq(Nat)
      BY <2>6, FlattenIsOf
    <3>2. DOMAIN groups = 1..Len(groups) /\ Len(groups) \in Nat
      BY <2>6
    <3> DEFINE Z == Seq(Nat)
    <3>3. \A g \in 1..Len(groups) : FlattenSeq(groups[g]) \in Z
      BY <3>1, <3>2
    <3> HIDE DEF Z
    <3>4. Parts(p) \in [1..Len(groups) -> Z]
      BY <2>5, <3>2, <3>3
    <3> QED
      BY <3>2, <3>4 DEF Z
  <2> QED
    BY <2>3, <2>4, <2>7, <2>8
<1> QED
  BY <1>1, <1>2

\* A text that was split says what it said.
LEMMA SplitKeeps ==
  ASSUME NEW text \in Prose
  PROVE  /\ SplitToBudget(text) \in Seq(Seq(Seq(Nat)))
         /\ FlattenSeq(FlattenSeq(SplitToBudget(text))) = FlattenSeq(text)
<1>0. text \in Seq(Paragraphs) /\ text \in Seq(Seq(Nat)) /\ Paragraphs \in SUBSET Seq(Nat)
  BY DEF Prose, Paragraphs
<1>1. CASE text = <<>>
  <2>1. SplitToBudget(text) = <<>> /\ <<>> \in Seq(Seq(Seq(Nat)))
    BY <1>1 DEF SplitToBudget
  <2> QED
    BY <1>1, <2>1, FlattenOfNone
<1>2. CASE text # <<>> /\ Tokens(TextChars(text)) <= MaxTokens
  <2>1. SplitToBudget(text) = <<text>>
    BY <1>2 DEF SplitToBudget
  <2>2. FlattenSeq(<<text>>) = text
    BY <1>0, FlattenOfOne
  <2>3. <<text>> \in Seq(Seq(Seq(Nat)))
    BY <1>0
  <2> QED
    BY <2>1, <2>2, <2>3
<1>3. CASE text # <<>> /\ ~(Tokens(TextChars(text)) <= MaxTokens)
  <2> DEFINE split == [i \in DOMAIN text |-> Parts(text[i])]  parts == FlattenSeq(split)
             Z == Seq(Nat)
  <2>1. \A i \in DOMAIN text : Parts(text[i]) \in Seq(Paragraphs) /\ Parts(text[i]) \in Seq(Z)
                               /\ FlattenSeq(Parts(text[i])) = text[i]
    <3> TAKE i \in DOMAIN text
    <3>1. text[i] \in Paragraphs
      BY <1>0
    <3>2. Parts(text[i]) \in Seq(Pieces)
      BY <3>1, PartsArePieces
    <3>3. Parts(text[i]) \in Seq(Paragraphs)
      BY <3>2 DEF Pieces
    <3> QED
      BY <3>1, <3>3, PartsKeep
  <2>2. DOMAIN text = 1..Len(text) /\ Len(text) \in Nat
    BY <1>0
  <2> HIDE DEF Z
  <2>3. split \in Seq(Seq(Paragraphs)) /\ split \in Seq(Seq(Z))
    BY <2>1, <2>2
  <2>4. DOMAIN split = DOMAIN text /\ \A i \in DOMAIN text : FlattenSeq(split[i]) = text[i]
    BY <2>1
  <2> HIDE DEF split
  <2>5. parts \in Seq(Paragraphs)
    BY <2>3, FlattenIsOf
  <2>6. SplitToBudget(text) = Pack(parts)
    BY <1>3 DEF SplitToBudget, split
  <2> HIDE DEF parts
  <2>7. Pack(parts) \in Seq(Seq(Paragraphs)) /\ FlattenSeq(Pack(parts)) = parts
    BY <2>5, PackKeeps
  <2>8. FlattenSeq(parts) = FlattenSeq([i \in DOMAIN split |-> FlattenSeq(split[i])])
    BY <2>3, FlattenFlattened DEF parts, Z
  <2>9. [i \in DOMAIN split |-> FlattenSeq(split[i])] = text
    <3>1. [i \in DOMAIN split |-> FlattenSeq(split[i])] = [i \in DOMAIN text |-> text[i]]
      BY <2>4, Zenon
    <3>2. text = [i \in DOMAIN text |-> text[i]]
      BY <1>0
    <3> QED
      BY <3>1, <3>2
  <2>10. Pack(parts) \in Seq(Seq(Seq(Nat)))
    BY <1>0, <2>7
  <2> QED
    BY <2>6, <2>7, <2>8, <2>9, <2>10
<1> QED
  BY <1>1, <1>2, <1>3

\* Of an article, the sentences of a section that is kept, with the headings over it.
KeptOf(path, prose) ==
    IF IsDropped(path) \/ prose = <<>> \/ TextChars(prose) < MinChars THEN <<>> ELSE Said(path, prose)

Under(path) == {<<path, x>> : x \in Nat}

\* What a text says under a path: its sentences, in their order.
LEMMA SaidIs ==
  ASSUME NEW path, NEW t \in Seq(Seq(Nat))
  PROVE  /\ Maps([x \in Nat |-> <<path, x>>], Nat, Under(path))
         /\ Said(path, t) = Mapped([x \in Nat |-> <<path, x>>], FlattenSeq(t))
         /\ Said(path, t) \in Seq(Under(path))
<1> DEFINE G == [x \in Nat |-> <<path, x>>]  u == FlattenSeq(t)
<1>1. Maps(G, Nat, Under(path)) /\ \A x \in Nat : G[x] = <<path, x>>
  BY DEF Maps, Under
<1> HIDE DEF G
<1>2. u \in Seq(Nat)
  BY FlattenIsOf
<1>3. Said(path, t) = [i \in DOMAIN u |-> <<path, u[i]>>]
  BY Zenon DEF Said
<1> HIDE DEF u
<1>4. \A i \in DOMAIN u : G[u[i]] = <<path, u[i]>>
  BY <1>1, <1>2
<1>5. Said(path, t) = Mapped(G, u)
  BY <1>3, <1>4 DEF Mapped
<1>6. Mapped(G, u) \in Seq(Under(path))
  BY <1>1, <1>2, MappedIs
<1> QED
  BY <1>1, <1>5, <1>6 DEF G, u

\* What the pieces of a text say, one after the other, is what it says.
LEMMA SaidInPieces ==
  ASSUME NEW path, NEW texts \in Seq(Seq(Seq(Nat)))
  PROVE  FlattenSeq([i \in DOMAIN texts |-> Said(path, texts[i])]) = Said(path, FlattenSeq(texts))
<1> DEFINE G == [x \in Nat |-> <<path, x>>]  Y == Under(path)
           A == [i \in DOMAIN texts |-> FlattenSeq(texts[i])]
           H == [a \in Seq(Nat) |-> Mapped(G, a)]
<1>1. /\ Maps(G, Nat, Y)
      /\ \A i \in DOMAIN texts : Said(path, texts[i]) = Mapped(G, FlattenSeq(texts[i]))
      /\ \A i \in DOMAIN texts : FlattenSeq(texts[i]) \in Seq(Nat)
  <2>1. \A i \in DOMAIN texts : texts[i] \in Seq(Seq(Nat))
    OBVIOUS
  <2>2. Maps(G, Nat, Y)
    <3>1. <<>> \in Seq(Seq(Nat))
      OBVIOUS
    <3> QED
      BY <3>1, SaidIs
  <2> HIDE DEF G
  <2>3. \A i \in DOMAIN texts : Said(path, texts[i]) = Mapped(G, FlattenSeq(texts[i]))
    BY <2>1, SaidIs DEF G
  <2> QED
    BY <2>1, <2>2, <2>3, FlattenIsOf
<1>2. A \in Seq(Seq(Nat)) /\ DOMAIN A = DOMAIN texts
  <2>1. DOMAIN texts = 1..Len(texts) /\ Len(texts) \in Nat
    OBVIOUS
  <2> DEFINE Z == Seq(Nat)
  <2>2. \A i \in 1..Len(texts) : FlattenSeq(texts[i]) \in Z
    BY <1>1, <2>1
  <2> HIDE DEF Z
  <2>3. A \in [1..Len(texts) -> Z] /\ DOMAIN A = DOMAIN texts
    BY <2>1, <2>2
  <2> QED
    BY <2>1, <2>3 DEF Z
<1>3. \A i \in DOMAIN texts : H[A[i]] = Said(path, texts[i])
  BY <1>1
<1>4. FlattenSeq(A) = FlattenSeq(FlattenSeq(texts)) /\ FlattenSeq(texts) \in Seq(Seq(Nat))
  BY FlattenFlattened, FlattenIsOf
<1> HIDE DEF A
<1>5. Mapped(G, FlattenSeq(A)) = Expanded(H, A)
  <2> HIDE DEF G
  <2> QED
    BY <1>1, <1>2, FlattenMapped
<1> HIDE DEF H
<1>6. Mapped(H, A) = [i \in DOMAIN texts |-> Said(path, texts[i])]
  BY <1>2, <1>3 DEF Mapped
<1>7. Said(path, FlattenSeq(texts)) = Mapped(G, FlattenSeq(FlattenSeq(texts)))
  BY <1>4, SaidIs
<1> HIDE DEF G
<1> QED
  BY <1>4, <1>5, <1>6, <1>7 DEF Expanded

\* The passages of a section.
LEMMA SectionKept ==
  ASSUME NEW section, section.prose \in Prose
  PROVE  LET cut == SectionChunks(section)
         IN  /\ cut \in Seq(ToSet(cut))
             /\ \A i \in DOMAIN cut : cut[i].path = section.path /\ cut[i].text \in Seq(Seq(Nat))
             /\ FlattenSeq([i \in DOMAIN cut |-> Said(cut[i].path, cut[i].text)])
                    = KeptOf(section.path, section.prose)
<1> DEFINE cut == SectionChunks(section)
           path == section.path  prose == section.prose
           texts == SplitToBudget(prose)
           none == IsDropped(path) \/ prose = <<>> \/ TextChars(prose) < MinChars
           said == [i \in DOMAIN cut |-> Said(cut[i].path, cut[i].text)]
<1>1. texts \in Seq(Seq(Seq(Nat))) /\ FlattenSeq(FlattenSeq(texts)) = FlattenSeq(prose)
  BY SplitKeeps
<1>2. cut = IF none THEN <<>>
            ELSE [i \in DOMAIN texts |-> [path |-> path, text |-> texts[i], mentions |-> Mentions(section.links)]]
  BY Zenon DEF SectionChunks
<1>3. KeptOf(path, prose) = IF none THEN <<>> ELSE Said(path, prose)
  BY Zenon DEF KeptOf
<1> HIDE DEF texts, none
<1>4. CASE none
  <2>1. cut = <<>>
    BY <1>2, <1>4
  <2> HIDE DEF cut
  <2>2. said = <<>> /\ cut \in Seq(ToSet(cut)) /\ DOMAIN cut = {}
    BY <2>1
  <2> HIDE DEF said
  <2>3. FlattenSeq(said) = <<>>
    BY <2>2, FlattenOfNone
  <2> QED
    BY <1>3, <1>4, <2>2, <2>3 DEF cut, said
<1>5. CASE ~none
  <2>1. DOMAIN texts = 1..Len(texts) /\ Len(texts) \in Nat /\ \A i \in DOMAIN texts : texts[i] \in Seq(Seq(Nat))
    BY <1>1
  <2>2. cut = [i \in DOMAIN texts |-> [path |-> path, text |-> texts[i], mentions |-> Mentions(section.links)]]
    BY <1>2, <1>5
  <2> HIDE DEF cut
  <2>3. /\ DOMAIN cut = DOMAIN texts /\ cut \in Seq(ToSet(cut))
        /\ \A i \in DOMAIN texts : cut[i].path = path /\ cut[i].text = texts[i]
    <3>1. DOMAIN cut = 1..Len(texts)
      BY <2>1, <2>2
    <3>2. cut \in Seq(ToSet(cut))
      <4> DEFINE Z == ToSet(cut)
      <4>1. \A i \in 1..Len(texts) : cut[i] \in Z
        BY <3>1 DEF ToSet
      <4>2. cut = [i \in 1..Len(texts) |-> cut[i]]
        BY <2>2, <3>1
      <4> HIDE DEF Z
      <4>3. cut \in [1..Len(texts) -> Z]
        BY <4>1, <4>2
      <4>4. cut \in Seq(Z)
        BY <2>1, <4>3
      <4> QED
        BY <4>4 DEF Z
    <3> QED
      BY <2>1, <2>2, <3>1, <3>2
  <2>4. said = [i \in DOMAIN texts |-> Said(path, texts[i])]
    BY <2>3
  <2>5. FlattenSeq(said) = Said(path, FlattenSeq(texts))
    BY <1>1, <2>4, SaidInPieces
  <2>6. Said(path, FlattenSeq(texts)) = Said(path, prose)
    BY <1>1, Zenon DEF Said
  <2> QED
    BY <1>3, <1>5, <2>1, <2>3, <2>5, <2>6 DEF cut, said
<1> QED
  BY <1>4, <1>5

\* What the passages of an article say, section by section.
LEMMA PageKept ==
  ASSUME NEW article \in Articles
  PROVE  LET page == ChunkPage(article)
         IN  FlattenSeq([n \in DOMAIN page |-> Said(page[n].path, page[n].text)])
                 = KeptOf(<<>>, article.lead.prose)
                       \o FlattenSeq([i \in DOMAIN article.sections |->
                                          KeptOf(Path(article, i), article.sections[i].prose)])
<1> DEFINE sections == Sections(article)
           M == Len(article.sections)
           lead == Part(<<>>, article.lead)
           rest == [i \in DOMAIN article.sections |-> Part(Path(article, i), article.sections[i])]
           C == [i \in DOMAIN sections |-> SectionChunks(sections[i])]
           X == UNION {ToSet(C[i]) : i \in DOMAIN sections}
           Y == UNION {Under(c.path) : c \in X}
           W == [c \in X |-> Said(c.path, c.text)]
           page == ChunkPage(article)
           kept(s) == KeptOf(s.path, s.prose)
           G == [a \in Seq(X) |-> Expanded(W, a)]
<1>1. /\ article.lead.prose \in Prose /\ M \in Nat /\ DOMAIN article.sections = 1..M
      /\ \A i \in 1..M : article.sections[i].prose \in Prose
  <2>1. /\ article.lead.prose \in Prose /\ article.sections \in Seq(ToSet(article.sections))
        /\ \A i \in DOMAIN article.sections : article.sections[i].prose \in Prose
    BY ChunkingAssumption DEF ChunkingAssumption
  <2> QED
    BY <2>1
<1>2. /\ \A i \in 1..M : rest[i].prose \in Prose
      /\ lead.prose \in Prose /\ DOMAIN rest = 1..M
  BY <1>1 DEF Part
<1>3. sections = <<lead>> \o rest
  BY DEF Sections
<1>4. rest \in Seq(ToSet(rest)) /\ Len(rest) = M
  BY <1>1 DEF ToSet
<1> HIDE DEF M, rest, sections, lead
<1>5. /\ DOMAIN sections = 1..(M + 1) /\ sections[1] = lead
      /\ \A i \in 1..M : sections[i + 1] = rest[i]
      /\ \A i \in 1..(M + 1) : i = 1 \/ (i - 1 \in 1..M /\ sections[i] = rest[i - 1])
  <2> DEFINE Z == ToSet(rest) \cup {lead}
  <2>1. rest \in Seq(Z) /\ lead \in Z
    BY <1>4
  <2> HIDE DEF Z
  <2>2. sections \in Seq(Z) /\ IsPrepended(sections, lead, rest)
    BY <1>3, <2>1, Prepended
  <2>5. Len(sections) = M + 1 /\ DOMAIN sections = 1..(M + 1) /\ sections[1] = lead
    BY <1>1, <1>4, <2>2 DEF IsPrepended
  <2>6. \A i \in 1..M : sections[i + 1] = rest[i]
    BY <1>4, <2>2 DEF IsPrepended
  <2>7. \A i \in 1..(M + 1) : i = 1 \/ (i - 1 \in 1..M /\ (i - 1) + 1 = i)
    BY <1>1
  <2> QED
    BY <2>5, <2>6, <2>7
<1>6. \A i \in DOMAIN sections : sections[i].prose \in Prose
  BY <1>1, <1>2, <1>5
<1>7. ASSUME NEW i \in DOMAIN sections
      PROVE  /\ C[i] \in Seq(ToSet(C[i]))
             /\ \A k \in DOMAIN C[i] : C[i][k].text \in Seq(Seq(Nat))
             /\ FlattenSeq([k \in DOMAIN C[i] |-> Said(C[i][k].path, C[i][k].text)]) = kept(sections[i])
  <2> DEFINE s == sections[i]
  <2>1. C[i] = SectionChunks(s) /\ s.prose \in Prose
    BY <1>6
  <2> HIDE DEF s, C
  <2>2. /\ C[i] \in Seq(ToSet(C[i]))
        /\ \A k \in DOMAIN C[i] : C[i][k].text \in Seq(Seq(Nat))
        /\ FlattenSeq([k \in DOMAIN C[i] |-> Said(C[i][k].path, C[i][k].text)]) = kept(s)
    BY <2>1, SectionKept
  <2> QED
    BY <2>2 DEF s
<1>8. DOMAIN C = 1..(M + 1) /\ M + 1 \in Nat
  BY <1>1, <1>5
<1>9. page = FlattenSeq(C)
  BY Zenon DEF ChunkPage, sections
<1> HIDE DEF C, page
<1>10. \A i \in DOMAIN sections : ToSet(C[i]) \in SUBSET X
  OBVIOUS
<1>11. \A c \in X : c.text \in Seq(Seq(Nat))
  <2> TAKE c \in X
  <2>1. PICK i \in DOMAIN sections : c \in ToSet(C[i])
    OBVIOUS
  <2>2. PICK k \in DOMAIN C[i] : c = C[i][k]
    BY <2>1, Zenon DEF ToSet
  <2> QED
    BY <1>7, <2>2
<1> HIDE DEF X
<1>12. C \in Seq(Seq(X)) /\ Len(C) = M + 1 /\ \A i \in DOMAIN sections : C[i] \in Seq(X)
  <2>1. \A i \in DOMAIN sections : C[i] \in Seq(X)
    <3> TAKE i \in DOMAIN sections
    <3>1. C[i] \in Seq(ToSet(C[i])) /\ ToSet(C[i]) \in SUBSET X
      BY <1>7, <1>10
    <3> QED
      BY <3>1
  <2> DEFINE Z == Seq(X)
  <2>2. C = [i \in 1..(M + 1) |-> C[i]]
    BY <1>5 DEF C
  <2> HIDE DEF Z
  <2>3. C \in [1..(M + 1) -> Z]
    BY <1>5, <2>1, <2>2 DEF Z
  <2>4. C \in Seq(Z) /\ Len(C) = M + 1
    BY <1>8, <2>3
  <2> QED
    BY <2>1, <2>4 DEF Z
<1>13. Maps(W, X, Seq(Y)) /\ \A c \in X : W[c] = Said(c.path, c.text)
  <2>1. \A c \in X : Said(c.path, c.text) \in Seq(Y)
    <3> TAKE c \in X
    <3>1. Said(c.path, c.text) \in Seq(Under(c.path)) /\ Under(c.path) \in SUBSET Y
      BY <1>11, SaidIs
    <3> HIDE DEF Y
    <3> QED
      BY <3>1
  <2> HIDE DEF Y
  <2> QED
    BY <2>1 DEF Maps
<1> HIDE DEF W, Y
<1>14. ASSUME NEW i \in DOMAIN sections
       PROVE  Expanded(W, C[i]) = kept(sections[i]) /\ kept(sections[i]) \in Seq(Y)
  <2> DEFINE c == C[i]
  <2>1. c \in Seq(X) /\ \A k \in DOMAIN c : c[k] \in X
    <3>1. c \in Seq(X)
      BY <1>12
    <3> HIDE DEF c
    <3> QED
      BY <3>1
  <2> HIDE DEF c
  <2>2. Mapped(W, c) = [k \in DOMAIN c |-> Said(c[k].path, c[k].text)]
    BY <1>13, <2>1 DEF Mapped
  <2>3. Expanded(W, c) = kept(sections[i])
    BY <1>7, <2>2 DEF Expanded, c
  <2>4. Expanded(W, c) \in Seq(Y)
    BY <1>13, <2>1, ExpandedIs
  <2> QED
    BY <2>3, <2>4 DEF c
<1> DEFINE everySaid == [i \in DOMAIN sections |-> kept(sections[i])]
           others == [i \in DOMAIN rest |-> kept(rest[i])]
<1>15. Expanded(W, page) = FlattenSeq(everySaid)
  <2>1. Expanded(W, FlattenSeq(C)) = Expanded(G, C)
    BY <1>12, <1>13, FlattenExpanded
  <2>2. \A i \in DOMAIN C : G[C[i]] = kept(sections[i])
    BY <1>5, <1>8, <1>12, <1>14
  <2> HIDE DEF G, kept
  <2>3. Mapped(G, C) = everySaid
    BY <1>5, <1>8, <2>2 DEF Mapped
  <2> QED
    BY <1>9, <2>1, <2>3 DEF Expanded
<1>16. Expanded(W, page) = FlattenSeq([n \in DOMAIN page |-> Said(page[n].path, page[n].text)])
  <2>1. page \in Seq(X)
    BY <1>9, <1>12, FlattenIsOf
  <2>2. \A n \in DOMAIN page : page[n] \in X
    BY <2>1
  <2>3. Mapped(W, page) = [n \in DOMAIN page |-> Said(page[n].path, page[n].text)]
    BY <1>13, <2>2 DEF Mapped
  <2> QED
    BY <2>3 DEF Expanded
<1>17. FlattenSeq(everySaid) = kept(lead) \o FlattenSeq(others)
  <2> DEFINE Z == Seq(Y)
  <2>1. /\ \A i \in 1..(M + 1) : kept(sections[i]) \in Z
        /\ kept(lead) \in Z /\ \A i \in 1..M : kept(rest[i]) \in Z
    <3>1. \A i \in 1..(M + 1) : kept(sections[i]) \in Z
      BY <1>5, <1>14
    <3>2. 1 \in 1..(M + 1) /\ \A i \in 1..M : i + 1 \in 1..(M + 1)
      BY <1>1
    <3> QED
      BY <1>5, <3>1, <3>2
  <2> HIDE DEF Z, kept
  <2>2. everySaid \in Seq(Z) /\ Len(everySaid) = M + 1 /\ \A i \in 1..(M + 1) : everySaid[i] = kept(sections[i])
    <3>1. everySaid \in [1..(M + 1) -> Z] /\ \A i \in 1..(M + 1) : everySaid[i] = kept(sections[i])
      BY <1>5, <2>1
    <3> HIDE DEF everySaid
    <3> QED
      BY <1>8, <3>1
  <2>3. others \in Seq(Z) /\ Len(others) = M /\ \A i \in 1..M : others[i] = kept(rest[i])
    <3>1. others \in [1..M -> Z] /\ \A i \in 1..M : others[i] = kept(rest[i])
      BY <1>2, <2>1
    <3> HIDE DEF others
    <3> QED
      BY <1>1, <3>1
  <2> HIDE DEF everySaid, others
  <2> DEFINE k == kept(lead)  one == <<k>>
  <2>4. one \in Seq(Z) /\ Len(one) = 1 /\ one[1] = k /\ FlattenSeq(one) = k
    <3>1. k \in Seq(Y) /\ k \in Z
      BY <2>1 DEF Z
    <3> HIDE DEF k
    <3> QED
      BY <3>1, FlattenOfOne
  <2> HIDE DEF one
  <2>5. everySaid = one \o others
    <3>1. 1 \in 1..(M + 1) /\ \A i \in 1..M : i + 1 \in 1..(M + 1)
      BY <1>1
    <3>2. everySaid[1] = k /\ \A i \in 1..M : everySaid[i + 1] = others[i]
      BY <1>5, <2>2, <2>3, <3>1
    <3>3. IsPrepended(everySaid, k, others)
      BY <2>2, <2>3, <3>2 DEF IsPrepended
    <3>4. k \in Z
      BY <2>1
    <3> HIDE DEF k
    <3> QED
      BY <2>2, <2>3, <3>3, <3>4, OnlyPrepended DEF one
  <2>6. FlattenSeq(one \o others) = FlattenSeq(one) \o FlattenSeq(others)
    BY <2>3, <2>4, FlattenOfConcat DEF Z
  <2> QED
    BY <2>4, <2>5, <2>6 DEF k
<1>18. /\ kept(lead) = KeptOf(<<>>, article.lead.prose)
       /\ others = [i \in DOMAIN article.sections |-> KeptOf(Path(article, i), article.sections[i].prose)]
  <2>1. lead.path = <<>> /\ lead.prose = article.lead.prose
    BY DEF lead, Part
  <2>2. \A i \in 1..M : rest[i].path = Path(article, i) /\ rest[i].prose = article.sections[i].prose
    BY <1>1 DEF rest, Part
  <2>3. \A i \in 1..M : kept(rest[i]) = KeptOf(Path(article, i), article.sections[i].prose)
    BY <2>2
  <2> HIDE DEF kept
  <2>4. others = [i \in DOMAIN article.sections |-> KeptOf(Path(article, i), article.sections[i].prose)]
    BY <1>1, <1>2, <2>3
  <2> QED
    BY <2>1, <2>4 DEF kept
<1> HIDE DEF everySaid, others, kept
<1> QED
  BY <1>15, <1>16, <1>17, <1>18 DEF page
-----------------------------------------------------------------------------
(* The headings over a section.                                            *)

\* The sections whose headings a section stands under, itself among them.
Ancestors(s, i) == {j \in 1..i : \A k \in (j + 1)..i : s[k].level > s[j].level}

IsLeveled(s) ==
    /\ s \in Seq(ToSet(s)) /\ \A i \in 1..Len(s) : s[i].level \in 2..6
    /\ \A i \in 1..Len(s) : s[i].level <= (IF i = 1 THEN 2 ELSE s[i - 1].level + 1)

\* The sections over a section, from those over the one before it.
LEMMA AncestorsOf ==
  ASSUME NEW s, IsLeveled(s), NEW i \in 1..Len(s)
  PROVE  /\ i \in Ancestors(s, i) /\ Ancestors(s, i) \in SUBSET (1..i)
         /\ \A j, k \in Ancestors(s, i) : j < k => s[j].level < s[k].level
         /\ i + 1 <= Len(s) => \A j \in 1..(i + 1) :
                (j \in Ancestors(s, i + 1) <=>
                     j = i + 1 \/ (j \in Ancestors(s, i) /\ s[j].level < s[i + 1].level))
<1> DEFINE N == Len(s)
<1>1. s \in Seq(ToSet(s)) /\ N \in Nat /\ \A j \in 1..N : s[j].level \in 2..6
  BY DEF IsLeveled
<1> HIDE DEF N
<1>2. i \in Nat /\ i \in 1..N
  BY <1>1 DEF N
<1>3. i \in Ancestors(s, i)
  BY <1>2 DEF Ancestors
<1>4. Ancestors(s, i) \in SUBSET (1..i)
  BY DEF Ancestors
<1>5. ASSUME NEW j \in Ancestors(s, i), NEW k \in Ancestors(s, i), j < k
      PROVE  s[j].level < s[k].level
  <2>1. j \in 1..i /\ k \in 1..i /\ k \in (j + 1)..i
    BY <1>2, <1>4, <1>5
  <2>2. s[k].level > s[j].level
    BY <2>1 DEF Ancestors
  <2>3. s[k].level \in 2..6 /\ s[j].level \in 2..6
    <3>1. j \in 1..N /\ k \in 1..N
      BY <1>1, <1>2, <2>1
    <3> QED
      BY <1>1, <3>1
  <2> QED
    BY <2>2, <2>3
<1>6. ASSUME i + 1 <= N, NEW j \in 1..(i + 1)
      PROVE  j \in Ancestors(s, i + 1) <=> j = i + 1 \/ (j \in Ancestors(s, i) /\ s[j].level < s[i + 1].level)
  <2>1. j \in 1..N /\ i + 1 \in 1..N /\ s[j].level \in 2..6 /\ s[i + 1].level \in 2..6
    BY <1>1, <1>2, <1>6
  <2>2. CASE j = i + 1
    <3>1. (i + 1 + 1)..(i + 1) = {}
      BY <1>2
    <3> QED
      BY <2>2, <3>1 DEF Ancestors
  <2>3. CASE j # i + 1
    <3>1. j \in 1..i /\ (j + 1)..(i + 1) = ((j + 1)..i) \cup {i + 1}
      BY <1>2, <2>3
    <3>2. s[i + 1].level > s[j].level <=> s[j].level < s[i + 1].level
      BY <2>1
    <3>3. (\A k \in (j + 1)..(i + 1) : s[k].level > s[j].level)
             <=> (\A k \in (j + 1)..i : s[k].level > s[j].level) /\ s[i + 1].level > s[j].level
      BY <3>1
    <3> QED
      BY <2>3, <3>1, <3>2, <3>3 DEF Ancestors
  <2> QED
    BY <2>2, <2>3
<1> QED
  BY <1>3, <1>4, <1>5, <1>6 DEF N

\* Where headings are regular, there is one for each level on the way.
LEMMA AncestorLevels ==
  ASSUME NEW s, IsLeveled(s), NEW i \in 1..Len(s)
  PROVE  {s[j].level : j \in Ancestors(s, i)} = 2..s[i].level
<1> DEFINE N == Len(s)
           Levels(n) == {s[j].level : j \in Ancestors(s, n)}
           Q == {n \in 0..N : n = 0 \/ Levels(n) = 2..s[n].level}
<1>1. /\ s \in Seq(ToSet(s)) /\ N \in Nat /\ \A j \in 1..N : s[j].level \in 2..6
      /\ \A j \in 1..N : s[j].level <= (IF j = 1 THEN 2 ELSE s[j - 1].level + 1)
  BY DEF IsLeveled
<1> HIDE DEF N
<1>2. 0 \in Q
  BY <1>1
<1>3. ASSUME NEW n \in 0..(N - 1), n \in Q
      PROVE  n + 1 \in Q
  <2>1. n + 1 \in 1..N /\ n + 1 \in 0..N /\ (n + 1) - 1 = n /\ n \in Nat
    BY <1>1
  <2>2. CASE n = 0
    <3>1. s[1].level = 2 /\ 1 \in 1..N
      <4>1. 1 \in 1..N
        BY <2>1, <2>2
      <4>2. s[1].level \in 2..6 /\ s[1].level <= 2
        BY <1>1, <4>1
      <4> QED
        BY <4>1, <4>2
    <3>2. Ancestors(s, 1) = {1}
      <4>1. 1 \in Ancestors(s, 1) /\ Ancestors(s, 1) \in SUBSET (1..1)
        BY <3>1, AncestorsOf DEF N
      <4> QED
        BY <4>1
    <3>3. Levels(1) = {2} /\ 2..2 = {2}
      BY <3>1, <3>2
    <3>4. n + 1 = 1
      BY <2>2
    <3> QED
      BY <2>1, <3>1, <3>3, <3>4
  <2>3. CASE n # 0
    <3> DEFINE m == n + 1  l == s[m].level  p == s[n].level
    <3>1. n \in 1..N /\ m \in 1..N /\ m # 1 /\ m - 1 = n /\ n + 1 <= N
      BY <1>1, <2>1, <2>3
    <3>2. l \in 2..6 /\ p \in 2..6 /\ l <= p + 1
      BY <1>1, <3>1
    <3>3. /\ Ancestors(s, n) \in SUBSET (1..n) /\ m \in Ancestors(s, m)
          /\ Ancestors(s, m) \in SUBSET (1..m)
      BY <3>1, AncestorsOf DEF N
    <3>4. \A j \in 1..m : (j \in Ancestors(s, m) <=> j = m \/ (j \in Ancestors(s, n) /\ s[j].level < l))
      BY <3>1, AncestorsOf DEF N
    <3>5. Levels(n) = 2..p
      BY <1>3, <2>3
    <3> HIDE DEF m, l, p
    <3>6. ASSUME NEW x \in Levels(m) PROVE x \in 2..l
      <4>1. PICK j \in Ancestors(s, m) : x = s[j].level
        OBVIOUS
      <4>2. CASE j = m
        BY <3>2, <4>1, <4>2 DEF l
      <4>3. CASE j # m
        <5>1. j \in Ancestors(s, n) /\ x < l
          BY <3>3, <3>4, <4>1, <4>3
        <5>2. x \in 2..p
          BY <3>5, <4>1, <5>1
        <5> QED
          BY <3>2, <5>1, <5>2
      <4> QED
        BY <4>2, <4>3
    <3>7. ASSUME NEW x \in 2..l PROVE x \in Levels(m)
      <4>1. CASE x = l
        BY <3>3, <4>1 DEF l
      <4>2. CASE x # l
        <5>1. x \in 2..p /\ x < l
          BY <3>2, <4>2
        <5>2. PICK j \in Ancestors(s, n) : x = s[j].level
          BY <3>5, <5>1
        <5>3. j \in 1..m
          BY <2>1, <3>3 DEF m
        <5>4. j \in Ancestors(s, m)
          BY <3>4, <5>1, <5>2, <5>3
        <5> QED
          BY <5>2, <5>4
      <4> QED
        BY <4>1, <4>2
    <3>8. Levels(m) = 2..l
      <4> HIDE DEF Levels
      <4> QED
        BY <3>6, <3>7
    <3> QED
      BY <2>1, <3>8 DEF m, l
  <2> QED
    BY <2>2, <2>3
<1> HIDE DEF Q
<1>4. N \in Q /\ \A n \in 0..N : n \in Q
  <2> DEFINE R == {n \in 0..N : \A k \in 0..n : k \in Q}
  <2>1. 0 \in R
    <3>1. \A k \in 0..0 : k = 0
      OBVIOUS
    <3> QED
      BY <1>1, <1>2, <3>1
  <2>2. ASSUME NEW n \in 0..(N - 1), n \in R PROVE n + 1 \in R
    <3>1. n \in 0..n /\ n + 1 \in 0..N /\ \A k \in 0..(n + 1) : k = n + 1 \/ k \in 0..n
      BY <1>1
    <3> QED
      BY <1>3, <2>2, <3>1
  <2> HIDE DEF R
  <2>3. N \in R
    BY <1>1, <2>1, <2>2, LastTurn
  <2> QED
    BY <1>1, <2>3 DEF R
<1>5. i \in 0..N /\ i # 0
  BY <1>1 DEF N
<1> QED
  BY <1>4, <1>5 DEF Q

\* So that the place of an ancestor is its level.
LEMMA AncestorsCounted ==
  ASSUME NEW s, IsLeveled(s), NEW i \in 1..Len(s), NEW x \in Ancestors(s, i)
  PROVE  /\ Cardinality({k \in Ancestors(s, i) : k <= x}) = s[x].level - 1
         /\ s[x].level \in 2..s[i].level /\ s[i].level \in 2..6
<1> DEFINE A == Ancestors(s, i)  B == {k \in A : k <= x}  l == s[x].level
           f == [k \in B |-> s[k].level]  J == 2..l
<1>1. /\ s \in Seq(ToSet(s)) /\ Len(s) \in Nat /\ \A j \in 1..Len(s) : s[j].level \in 2..6
  BY DEF IsLeveled
<1>2. A \in SUBSET (1..i) /\ \A j, k \in A : j < k => s[j].level < s[k].level
  BY AncestorsOf
<1>3. {s[j].level : j \in A} = 2..s[i].level
  BY AncestorLevels
<1> HIDE DEF A
<1>4. x \in A /\ \A k \in A : k \in 1..Len(s) /\ k \in Nat /\ s[k].level \in 2..6 /\ s[k].level \in 2..s[i].level
  <2>1. \A k \in A : k \in 1..Len(s) /\ k \in Nat
    BY <1>1, <1>2
  <2>2. \A k \in A : s[k].level \in 2..s[i].level
    BY <1>3
  <2> QED
    BY <1>1, <2>1, <2>2 DEF A
<1>5. s[i].level \in 2..6
  BY <1>1
<1>6. f \in Surjection(B, J) /\ f \in Injection(B, J)
  <2>1. \A k \in B : s[k].level \in J
    <3> TAKE k \in B
    <3>1. k = x \/ k < x
      BY <1>4
    <3> QED
      BY <1>2, <1>4, <3>1
  <2>2. \A v \in J : \E k \in B : s[k].level = v
    <3> TAKE v \in J
    <3>1. v \in 2..s[i].level /\ v <= l /\ l \in 2..6
      BY <1>4, <1>5
    <3>2. PICK k \in A : s[k].level = v
      BY <1>3, <3>1
    <3>3. k <= x
      <4>1. ~(x < k)
        BY <1>2, <1>4, <3>1, <3>2
      <4> QED
        BY <1>4, <4>1
    <3> QED
      BY <3>2, <3>3
  <2>3. \A j, k \in B : s[j].level = s[k].level => j = k
    <3> TAKE j, k \in B
    <3>1. j \in A /\ k \in A /\ j \in Nat /\ k \in Nat /\ s[j].level \in 2..6 /\ s[k].level \in 2..6
      BY <1>4
    <3>2. j < k => s[j].level < s[k].level
      BY <1>2, <3>1
    <3>3. k < j => s[k].level < s[j].level
      BY <1>2, <3>1
    <3> QED
      BY <3>1, <3>2, <3>3
  <2> HIDE DEF B, J
  <2>4. f \in [B -> J] /\ \A k \in B : f[k] = s[k].level
    BY <2>1
  <2> HIDE DEF f
  <2>5. f \in Injection(B, J)
    BY <2>3, <2>4 DEF Injection, IsInjective
  <2>6. f \in Surjection(B, J)
    BY <2>2, <2>4 DEF Surjection
  <2> QED
    BY <2>5, <2>6
<1> HIDE DEF f
<1>7. IsFiniteSet(B)
  <2>1. IsFiniteSet(1..i) /\ B \in SUBSET (1..i)
    <3>1. i \in Int /\ 1 \in Int
      BY <1>1
    <3>2. IsFiniteSet(1..i)
      BY <3>1, FS_Interval
    <3> QED
      BY <1>2, <3>2
  <2> QED
    BY <2>1, FS_Subset
<1>8. Cardinality(B) = Cardinality(J)
  BY <1>6, <1>7, FS_Surjection
<1>9. Cardinality(J) = l - 1
  <2>1. l \in 2..6
    BY <1>4
  <2> HIDE DEF l
  <2>2. l \in Int /\ 2 \in Int /\ l - 2 + 1 = l - 1 /\ ~(2 > l)
    BY <2>1
  <2> QED
    BY <2>2, FS_Interval
<1> QED
  BY <1>4, <1>5, <1>8, <1>9 DEF A

Named(s) == {s[j].name : j \in 1..Len(s)}

\* The path of headings over a section.
IsTrail(s, i, path) ==
    /\ path \in Seq(Named(s)) /\ Len(path) = s[i].level - 1
    /\ \A n \in 1..Len(path) :
          \E j \in Ancestors(s, i) : s[j].level = n + 1 /\ path[n] = s[j].name

\* The headings over a section make one path.
LEMMA OneTrail ==
  ASSUME NEW s, IsLeveled(s), NEW i \in 1..Len(s), NEW p, NEW q, IsTrail(s, i, p), IsTrail(s, i, q)
  PROVE  p = q
<1>1. /\ s \in Seq(ToSet(s)) /\ Len(s) \in Nat /\ \A j \in 1..Len(s) : s[j].level \in 2..6
  BY DEF IsLeveled
<1>2. p \in Seq(Named(s)) /\ q \in Seq(Named(s)) /\ Len(p) = Len(q)
  BY DEF IsTrail
<1>3. \A j, k \in Ancestors(s, i) : s[j].level = s[k].level => j = k
  <2> TAKE j, k \in Ancestors(s, i)
  <2>1. Ancestors(s, i) \in SUBSET (1..i)
    BY AncestorsOf
  <2>2. j \in Nat /\ k \in Nat /\ j \in 1..Len(s) /\ k \in 1..Len(s)
    BY <1>1, <2>1
  <2>3. s[j].level \in 2..6 /\ s[k].level \in 2..6
    BY <1>1, <2>2
  <2>4. j < k => s[j].level < s[k].level
    BY AncestorsOf
  <2>5. k < j => s[k].level < s[j].level
    BY AncestorsOf
  <2> QED
    BY <2>2, <2>3, <2>4, <2>5
<1>4. \A n \in 1..Len(p) : p[n] = q[n]
  <2> TAKE n \in 1..Len(p)
  <2>1. PICK j \in Ancestors(s, i) : s[j].level = n + 1 /\ p[n] = s[j].name
    BY DEF IsTrail
  <2>2. PICK k \in Ancestors(s, i) : s[k].level = n + 1 /\ q[n] = s[k].name
    BY <1>2 DEF IsTrail
  <2> QED
    BY <1>3, <2>1, <2>2
<1> QED
  BY <1>2, <1>4, SameList

\* Trail is that path.
LEMMA TrailIs ==
  ASSUME NEW article, IsLeveled(article.sections), NEW i \in 1..Len(article.sections)
  PROVE  IsTrail(article.sections, i, Trail(article, i))
<1> DEFINE s == article.sections  A == Ancestors(s, i)
           nth(n) == CHOOSE j \in A : Cardinality({k \in A : k <= j}) = n
           c == Cardinality(A)
<1>1. /\ s \in Seq(ToSet(s)) /\ Len(s) \in Nat /\ \A j \in 1..Len(s) : s[j].level \in 2..6
  BY DEF IsLeveled
<1>3. Trail(article, i) = [n \in 1..c |-> s[nth(n)].name]
  <2> DEFINE B == {j \in 1..i : \A k \in (j + 1)..i : article.sections[k].level > article.sections[j].level}
  <2>1. Trail(article, i) = [n \in 1..Cardinality(B) |->
                                s[CHOOSE j \in B : Cardinality({k \in B : k <= j}) = n].name]
    BY Zenon DEF Trail
  <2>2. A = B
    BY DEF Ancestors
  <2> HIDE DEF A, B
  <2> QED
    BY <2>1, <2>2, Zenon
<1> HIDE DEF s
<1>4. i \in A /\ A \in SUBSET (1..i) /\ i \in Nat
  <2>1. i \in 1..Len(s)
    BY DEF s
  <2>2. i \in A /\ A \in SUBSET (1..i)
    BY AncestorsOf DEF s
  <2> HIDE DEF A
  <2> QED
    BY <1>1, <2>1, <2>2
<1>5. {s[j].level : j \in A} = 2..s[i].level
  BY AncestorLevels DEF s
<1>6. \A x \in A : Cardinality({k \in A : k <= x}) = s[x].level - 1 /\ s[x].level \in 2..s[i].level
  BY AncestorsCounted DEF s
<1>7. s[i].level \in 2..6
  BY <1>4, AncestorsCounted DEF s
<1> HIDE DEF A
<1>8. c = s[i].level - 1
  <2>1. {k \in A : k <= i} = A
    <3>1. \A k \in A : k \in 1..i
      BY <1>4
    <3>2. \A k \in 1..i : k <= i
      BY <1>4
    <3> QED
      BY <3>1, <3>2
  <2> QED
    BY <1>4, <1>6, <2>1
<1> HIDE DEF c
<1>9. ASSUME NEW n \in 1..c
      PROVE  nth(n) \in A /\ s[nth(n)].level = n + 1 /\ s[nth(n)].name \in Named(s)
  <2>1. n + 1 \in 2..s[i].level /\ (n + 1) - 1 = n
    BY <1>7, <1>8
  <2>2. PICK j \in A : s[j].level = n + 1
    BY <1>5, <2>1
  <2>3. Cardinality({k \in A : k <= j}) = n
    BY <1>6, <2>1, <2>2
  <2> DEFINE x == nth(n)
  <2>4. x \in A /\ Cardinality({k \in A : k <= x}) = n
    BY <2>3
  <2> HIDE DEF x
  <2>5. s[x].level = n + 1
    <3> DEFINE l == s[x].level
    <3>1. l - 1 = n /\ l \in 2..s[i].level
      BY <1>6, <2>4
    <3> HIDE DEF l
    <3>2. l = n + 1
      BY <1>7, <3>1
    <3> QED
      BY <3>2 DEF l
  <2>6. x \in 1..Len(s)
    <3>1. i \in 1..Len(s)
      BY DEF s
    <3> QED
      BY <1>1, <1>4, <2>4, <3>1
  <2> QED
    BY <2>4, <2>5, <2>6 DEF x, Named
<1> DEFINE t == Trail(article, i)
<1> HIDE DEF nth
<1>10. DOMAIN t = 1..c /\ \A n \in 1..c : t[n] = s[nth(n)].name
  BY <1>3
<1>11. t \in Seq(Named(s)) /\ Len(t) = c
  <2> DEFINE Z == Named(s)
  <2>1. \A n \in 1..c : s[nth(n)].name \in Z
    BY <1>9
  <2> HIDE DEF Z
  <2>2. t \in [1..c -> Z] /\ c \in Nat
    BY <1>3, <1>7, <1>8, <2>1
  <2> HIDE DEF t
  <2> QED
    BY <2>2 DEF Z
<1> HIDE DEF t
<1>12. IsTrail(s, i, t)
  BY <1>8, <1>9, <1>10, <1>11 DEF IsTrail, A
<1> QED
  BY <1>12 DEF s, t

\* One turn of the walk of _sections.
LEMMA PushIsTrail ==
  ASSUME NEW s, IsLeveled(s), NEW i \in 1..Len(s), NEW path,
         IF i = 1 THEN path = <<>> ELSE IsTrail(s, i - 1, path)
  PROVE  IsTrail(s, i, Push(path, s[i]))
<1> DEFINE l == s[i].level  kept == IF l - 2 < Len(path) THEN l - 2 ELSE Len(path)
           Z == Named(s)  u == SubSeq(path, 1, kept)  w == Append(u, s[i].name)
<1>1. /\ s \in Seq(ToSet(s)) /\ Len(s) \in Nat /\ \A j \in 1..Len(s) : s[j].level \in 2..6
      /\ \A j \in 1..Len(s) : s[j].level <= (IF j = 1 THEN 2 ELSE s[j - 1].level + 1)
  BY DEF IsLeveled
<1>2. l \in 2..6 /\ s[i].name \in Z
  BY <1>1 DEF Named
<1>3. Push(path, s[i]) = w
  BY Zenon DEF Push
<1>4. i \in Ancestors(s, i)
  BY AncestorsOf
<1>5. path \in Seq(Z) /\ Len(path) \in Nat /\ l - 2 <= Len(path)
  <2>1. CASE i = 1
    <3>1. path = <<>> /\ l <= 2
      BY <1>1, <2>1
    <3> QED
      BY <1>2, <3>1
  <2>2. CASE i # 1
    <3>1. path \in Seq(Z) /\ Len(path) = s[i - 1].level - 1
      BY <2>2 DEF IsTrail
    <3>2. i - 1 \in 1..Len(s)
      BY <1>1, <2>2
    <3>3. s[i - 1].level \in 2..6 /\ l <= s[i - 1].level + 1
      BY <1>1, <2>2, <3>2
    <3>4. Len(path) \in Nat
      BY <3>1
    <3> HIDE DEF l
    <3> QED
      BY <1>2, <3>1, <3>3, <3>4
  <2> QED
    BY <2>1, <2>2
<1> HIDE DEF l, Z
<1>6. kept = l - 2 /\ l - 2 \in 0..Len(path)
  BY <1>2, <1>5
<1> HIDE DEF kept
<1>7. u \in Seq(Z) /\ Len(u) = l - 2 /\ \A n \in 1..(l - 2) : u[n] = path[n]
  <2> DEFINE k == l - 2
  <2>1. k \in 0..Len(path) /\ kept = k
    BY <1>6
  <2> HIDE DEF k
  <2>2. SubSeq(path, 1, k) \in Seq(Z) /\ Len(SubSeq(path, 1, k)) = k /\ \A n \in 1..k : SubSeq(path, 1, k)[n] = path[n]
    BY <1>5, <2>1
  <2> QED
    BY <2>1, <2>2 DEF k
<1> HIDE DEF u
<1>8. /\ w \in Seq(Z) /\ Len(w) = l - 1 /\ w[l - 1] = s[i].name
      /\ \A n \in 1..(l - 2) : w[n] = path[n]
  <2> DEFINE k == l - 2
  <2>1. k \in Nat /\ u \in Seq(Z) /\ Len(u) = k /\ k + 1 = l - 1
    BY <1>2, <1>7
  <2> HIDE DEF k
  <2>2. w \in Seq(Z) /\ Len(w) = k + 1 /\ w[k + 1] = s[i].name /\ \A n \in 1..k : w[n] = u[n]
    BY <1>2, <2>1
  <2> HIDE DEF w
  <2> QED
    BY <1>7, <2>1, <2>2 DEF k
<1> HIDE DEF w
<1>9. ASSUME NEW n \in 1..(l - 1)
      PROVE  \E j \in Ancestors(s, i) : s[j].level = n + 1 /\ w[n] = s[j].name
  <2>1. CASE n = l - 1
    <3>1. n + 1 = l
      BY <1>2, <2>1
    <3> QED
      BY <1>4, <1>8, <2>1, <3>1 DEF l
  <2>2. CASE n # l - 1
    <3>1. n \in 1..(l - 2) /\ n \in 1..Len(path) /\ n + 1 < l
      BY <1>2, <1>5, <2>2
    <3>2. i # 1
      <4>1. i = 1 => Len(path) = 0
        OBVIOUS
      <4> QED
        BY <3>1, <4>1
    <3>3. PICK j \in Ancestors(s, i - 1) : s[j].level = n + 1 /\ path[n] = s[j].name
      BY <3>1, <3>2 DEF IsTrail
    <3>4. i - 1 \in 1..Len(s) /\ (i - 1) + 1 = i /\ i <= Len(s)
      BY <1>1, <3>2
    <3> DEFINE h == i - 1
    <3>5. h \in 1..Len(s) /\ h + 1 <= Len(s) /\ h + 1 = i
      BY <3>4
    <3> HIDE DEF h
    <3>6. /\ Ancestors(s, h) \in SUBSET (1..h)
          /\ \A k \in 1..i : (k \in Ancestors(s, i) <=> k = i \/ (k \in Ancestors(s, h) /\ s[k].level < s[i].level))
      <4>1. \A k \in 1..(h + 1) :
                (k \in Ancestors(s, h + 1) <=>
                     k = h + 1 \/ (k \in Ancestors(s, h) /\ s[k].level < s[h + 1].level))
        BY <3>5, AncestorsOf
      <4>2. Ancestors(s, h) \in SUBSET (1..h)
        BY <3>5, AncestorsOf
      <4> QED
        BY <3>5, <4>1, <4>2
    <3>7. j \in Ancestors(s, h)
      BY <3>3 DEF h
    <3>8. j \in 1..i
      BY <1>1, <3>5, <3>6, <3>7
    <3>9. j \in Ancestors(s, i)
      BY <3>1, <3>3, <3>6, <3>7, <3>8 DEF l
    <3> QED
      BY <1>8, <3>1, <3>3, <3>9
  <2> QED
    BY <2>1, <2>2
<1>10. IsTrail(s, i, w)
  BY <1>8, <1>9 DEF IsTrail, l, Z
<1> QED
  BY <1>3, <1>10
-----------------------------------------------------------------------------
(* The index of an article.                                                *)

IsHeadings(list, Z) ==
    list \in Seq(ToSet(list)) /\ \A i \in 1..Len(list) : list[i].level \in 2..6 /\ list[i].name \in Z

\* What _push leaves on the path.
LEMMA PushIsOf ==
  ASSUME NEW Z, NEW path \in Seq(Z), NEW heading, heading.level \in 2..6, heading.name \in Z
  PROVE  Push(path, heading) \in Seq(Z)
<1> DEFINE k == IF heading.level - 2 < Len(path) THEN heading.level - 2 ELSE Len(path)
<1>1. k \in 0..Len(path)
  OBVIOUS
<1>2. Push(path, heading) = Append(SubSeq(path, 1, k), heading.name)
  BY Zenon DEF Push
<1> HIDE DEF k
<1>3. SubSeq(path, 1, k) \in Seq(Z)
  BY <1>1
<1> QED
  BY <1>2, <1>3

\* The turns of the walk.
LEMMA PushTurns ==
  ASSUME NEW Z, NEW headings, IsHeadings(headings, Z)
  PROVE  \E f : /\ f[0] = <<>> /\ f[Len(headings)] = FoldLeft(Push, <<>>, headings)
                /\ \A i \in 1..Len(headings) : f[i] = Push(f[i - 1], headings[i])
<1> DEFINE N == Len(headings)  Y == Seq(Z)  T == {headings[i] : i \in 1..N}
<1>0. /\ N \in Nat /\ DOMAIN headings = 1..N
      /\ \A i \in 1..N : headings[i].level \in 2..6 /\ headings[i].name \in Z
  BY DEF IsHeadings
<1> HIDE DEF N
<1>0a. \A i \in 1..N : headings[i] \in T
  OBVIOUS
<1>0b. \A h \in T : \A y \in Y : Push(y, h) \in Y
  <2> TAKE h \in T
  <2>1. h.level \in 2..6 /\ h.name \in Z
    BY <1>0
  <2> QED
    BY <2>1, PushIsOf
<1> DEFINE step == [p \in Y \X T |-> Push(p[1], p[2])]
           list == [i \in 1..N |-> headings[i]]
<1>3a. <<>> \in Y
  OBVIOUS
<1> HIDE DEF Y, T
<1>1. step \in [Y \X T -> Y] /\ list \in [1..N -> T]
  BY <1>0a, <1>0b
<1>2. \A m \in Y, r \in T : step[<<m, r>>] = Push(m, r)
  OBVIOUS
<1>3. \A i \in 1..N : list[i] = headings[i]
  OBVIOUS
<1> HIDE DEF step, list
<1> DEFINE e == <<>>
<1>3b. e \in Y
  BY <1>3a
<1> HIDE DEF e
<1>4. PICK iter \in [SUBSET (1..N) -> Y] : Iterates(iter, N, e, step, list)
  BY <1>0, <1>1, <1>3b, IterationExists
<1>5. \A s \in SUBSET (1..N) :
          iter[s] = IF s = {} THEN e ELSE Push(iter[s \ {Max(s)}], headings[Max(s)])
  <2> TAKE s \in SUBSET (1..N)
  <2>1. s # {} => Max(s) \in s
    BY <1>0, MaxOf
  <2>2. s # {} => iter[s \ {Max(s)}] \in Y /\ headings[Max(s)] \in T /\ list[Max(s)] = headings[Max(s)]
    BY <1>0a, <1>3, <2>1
  <2> QED
    BY <1>2, <1>4, <2>2 DEF Iterates
<1> DEFINE g == CHOOSE h : h = [s \in SUBSET (1..N) |->
                                  IF s = {} THEN <<>> ELSE Push(h[s \ {Max(s)}], headings[Max(s)])]
<1>6. iter = [s \in SUBSET (1..N) |->
                IF s = {} THEN <<>> ELSE Push(iter[s \ {Max(s)}], headings[Max(s)])]
  BY <1>5 DEF e
<1>7. g = [s \in SUBSET (1..N) |-> IF s = {} THEN <<>> ELSE Push(g[s \ {Max(s)}], headings[Max(s)])]
  BY <1>6
<1>8. FoldLeft(Push, <<>>, headings) = g[1..N]
  BY <1>0, Zenon DEF FoldLeft, MapThenFoldSet
<1> DEFINE f == [i \in 0..N |-> g[1..i]]
<1> HIDE DEF g
<1>9. f[0] = <<>>
  BY <1>0, <1>7
<1>10. ASSUME NEW i \in 1..N
       PROVE  f[i] = Push(f[i - 1], headings[i])
  <2>1. Max(1..i) = i /\ (1..i) \ {i} = 1..(i - 1) /\ 1..i # {} /\ 1..i \in SUBSET (1..N)
    BY <1>0, MaxOfPrefix, PrefixIn
  <2>2. g[1..i] = Push(g[(1..i) \ {Max(1..i)}], headings[Max(1..i)])
    BY <1>7, <2>1
  <2>3. i \in 0..N /\ i - 1 \in 0..N
    BY <1>0
  <2> QED
    BY <2>1, <2>2, <2>3
<1>11. f[N] = g[1..N]
  BY <1>0
<1> HIDE DEF f
<1> QED
  BY <1>8, <1>9, <1>10, <1>11 DEF N

\* The path that the loop has at a section is the headings over it.
LEMMA PathIsTrail ==
  ASSUME NEW article, IsLeveled(article.sections), NEW i \in 1..Len(article.sections)
  PROVE  Path(article, i) = Trail(article, i)
<1> DEFINE s == article.sections  list == SubSeq(s, 1, i)
           Good(y, k) == IF k = 0 THEN y = <<>> ELSE IsTrail(s, k, y)
<1>1. /\ s \in Seq(ToSet(s)) /\ Len(s) \in Nat /\ \A j \in 1..Len(s) : s[j].level \in 2..6
  BY DEF IsLeveled
<1>2. i \in 1..Len(s) /\ IsLeveled(s) /\ Path(article, i) = FoldLeft(Push, <<>>, list)
  BY Zenon DEF Path
<1> HIDE DEF s
<1>3. /\ list \in Seq(ToSet(s)) /\ Len(list) = i /\ \A k \in 1..i : list[k] = s[k]
      /\ i \in Nat
  <2> DEFINE X == ToSet(s)
  <2>1. s \in Seq(X)
    BY <1>1
  <2> HIDE DEF X
  <2>2. i \in 1..Len(s) /\ i \in 0..Len(s) /\ i \in Nat
    BY <1>1, <1>2
  <2> QED
    BY <2>1, <2>2 DEF X
<1> HIDE DEF list
<1>4. IsHeadings(list, Named(s))
  <2>1. \A k \in 1..i : s[k].level \in 2..6 /\ s[k].name \in Named(s)
    <3>1. \A k \in 1..i : k \in 1..Len(s)
      BY <1>1, <1>2
    <3> QED
      BY <1>1, <3>1 DEF Named
  <2>2. list \in Seq(ToSet(list))
    <3> DEFINE L == ToSet(list)
    <3>1. \A k \in 1..i : list[k] \in L
      <4>1. DOMAIN list = 1..i
        BY <1>3
      <4> QED
        BY <4>1 DEF ToSet
    <3> HIDE DEF L
    <3>2. list \in Seq(L)
      BY <1>3, <3>1
    <3> QED
      BY <3>2 DEF L
  <2> QED
    BY <1>3, <2>1, <2>2 DEF IsHeadings
<1>5. PICK f : /\ f[0] = <<>> /\ f[i] = FoldLeft(Push, <<>>, list)
               /\ \A k \in 1..i : f[k] = Push(f[k - 1], list[k])
  <2>1. \E f : /\ f[0] = <<>> /\ f[Len(list)] = FoldLeft(Push, <<>>, list)
               /\ \A k \in 1..Len(list) : f[k] = Push(f[k - 1], list[k])
    BY <1>4, PushTurns
  <2> QED
    BY <1>3, <2>1
<1> DEFINE Q == {k \in 0..i : Good(f[k], k)}
<1>6. 0 \in Q
  BY <1>3, <1>5
<1>7. ASSUME NEW k \in 0..(i - 1), k \in Q
      PROVE  k + 1 \in Q
  <2> DEFINE h == k + 1
  <2>1. h \in 1..i /\ h \in 0..i /\ h - 1 = k /\ h \in 1..Len(s) /\ (h = 1 <=> k = 0) /\ h # 0
    BY <1>1, <1>2, <1>3
  <2> HIDE DEF h
  <2>2. f[h] = Push(f[k], s[h])
    BY <1>3, <1>5, <2>1
  <2>3. IF h = 1 THEN f[k] = <<>> ELSE IsTrail(s, h - 1, f[k])
    BY <1>7, <2>1
  <2>4. IsTrail(s, h, Push(f[k], s[h]))
    BY <1>2, <2>1, <2>3, PushIsTrail
  <2> QED
    BY <2>1, <2>2, <2>4 DEF h
<1> HIDE DEF Q
<1>8. i \in Q
  BY <1>3, <1>6, <1>7, LastTurn
<1>9. IsTrail(s, i, f[i])
  BY <1>2, <1>8 DEF Q
<1>10. IsTrail(s, i, Trail(article, i))
  BY <1>2, TrailIs DEF s
<1> QED
  BY <1>2, <1>5, <1>9, <1>10, OneTrail

\* The passages of an article say what the article holds to be kept.
LEMMA ProseIsKept ==
  ASSUME NEW article \in Articles, Regular(article)
  PROVE  KeepsTheProse(article, ChunkPage(article))
<1> DEFINE s == article.sections  page == ChunkPage(article)
<1>1. s \in Seq(ToSet(s)) /\ \A i \in DOMAIN s : s[i].level \in 2..6
  BY ChunkingAssumption DEF ChunkingAssumption
<1>2. \A i \in DOMAIN s : s[i].level <= (IF i = 1 THEN 2 ELSE s[i - 1].level + 1)
  BY DEF Regular
<1>3. DOMAIN s = 1..Len(s)
  BY <1>1
<1>4. IsLeveled(s)
  BY <1>1, <1>2, <1>3 DEF IsLeveled
<1>5. \A i \in DOMAIN s : Path(article, i) = Trail(article, i)
  BY <1>3, <1>4, PathIsTrail
<1>6. FlattenSeq([n \in DOMAIN page |-> Said(page[n].path, page[n].text)])
          = KeptOf(<<>>, article.lead.prose)
                \o FlattenSeq([i \in DOMAIN s |-> KeptOf(Path(article, i), s[i].prose)])
  BY PageKept
<1>7. [i \in DOMAIN s |-> KeptOf(Path(article, i), s[i].prose)]
          = [i \in DOMAIN s |-> KeptOf(Trail(article, i), s[i].prose)]
  BY <1>5, Zenon
<1>8. Author(article) = KeptOf(<<>>, article.lead.prose)
                            \o FlattenSeq([i \in DOMAIN s |-> KeptOf(Trail(article, i), s[i].prose)])
  BY Zenon DEF Author, KeptOf
<1> HIDE DEF page
<1>9. FlattenSeq([n \in DOMAIN page |-> Said(page[n].path, page[n].text)]) = Author(article)
  BY <1>6, <1>7, <1>8, Zenon
<1> QED
  BY <1>9, Zenon DEF KeepsTheProse, page

\* For any article.
LEMMA ArticlesHeld == ArticlesAreHeld
<1>1. ASSUME NEW article \in Articles
      PROVE  HoldTheArticle(article)
  <2> DEFINE page == ChunkPage(article)
  <2>1. Regular(article) => KeepsTheProse(article, page)
    BY ProseIsKept
  <2>2. \A n \in DOMAIN page : IsBounded(page[n].text)
    <3>1. \A n \in DOMAIN page : page[n].text \in Bounded
      BY ChunksAreBounded
    <3> QED
      BY <3>1 DEF Bounded
  <2> HIDE DEF page
  <2>3. \A chunks \in {page} : /\ Regular(article) => KeepsTheProse(article, chunks)
                               /\ \A n \in DOMAIN chunks : IsBounded(chunks[n].text)
    BY <2>1, <2>2
  <2> QED
    BY <2>3, Zenon DEF HoldTheArticle, page
<1> QED
  BY <1>1 DEF ArticlesAreHeld

\* For any article, and anything the API may answer.
LEMMA VectorsHeld == PassagesHaveTheirVectors
<1>1. ASSUME NEW article \in Articles, NEW answer \in Answers
      PROVE  HaveTheirVectors(ChunkPage(article), answer)
  <2>1. ChunkPage(article) \in Seq(ToSet(ChunkPage(article)))
    BY ChunksAreBounded
  <2> QED
    BY <2>1, EmbedIs
<1> QED
  BY <1>1 DEF PassagesHaveTheirVectors

\* What is indexed of any article is what was written: every sentence once, in order,
\* under its headings, in pieces of a bounded size, each with the vector of its own
\* text or not at all (chunk_page, index/chunk.py; _embed, index/build.py;
\* VoyageEmbedder, index/embed.py).
THEOREM IndexHoldsTheArticleCorrect == AllSpec => []IndexHoldsTheArticle
<1>1. IndexHoldsTheArticle
  BY ArticlesHeld, VectorsHeld DEF IndexHoldsTheArticle
<1> QED
  BY <1>1, PTL
=============================================================================
