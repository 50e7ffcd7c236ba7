--------------------------- MODULE HarvestProofs ---------------------------
(***************************************************************************)
(* What the store of a crawl always satisfies, for any wiki, any profile   *)
(* and any failures: types, no translations, no half-written page, records *)
(* and tallies, and that a complete crawl of a wiki that stood still is a  *)
(* mirror of it.                                                           *)
(***************************************************************************)
EXTENDS Harvest, SequenceTheorems, FiniteSetTheorems, TLAPS

LEMMA NewCrawlType == NewCrawl \in Crawl
BY HarvestAssumption, LenProperties
DEF HarvestAssumption, NewCrawl, Crawl, NoRows, NoRedirects, Pages, Titles, Parts

LEMMA TypeInit == Init => TypeOK
<1> SUFFICES ASSUME Init PROVE TypeOK
  OBVIOUS
<1> USE HarvestAssumption DEF HarvestAssumption, Init
<1>1. wiki \in [Pages -> LivePage \cup {NoPage}] /\ batch \in [Pages -> Copy \cup {NoPage}]
  BY DEF Nothing
<1>2. /\ raw_page \in [Pages -> Row \cup {NoRow}] /\ raw_cats \in [Pages -> Categories \cup {NoRow}]
      /\ txn \in [page : [Pages -> Row \cup {NoRow}], cats : [Pages -> Categories \cup {NoRow}],
                  failed : BOOLEAN]
  BY DEF NoRows
<1>3. redirects \in [Titles -> Titles \cup {NoTitle}]
  BY DEF NoRedirects
<1>4. crawl \in Crawl
  BY NewCrawlType
<1>5. runs \in Seq([ended : {"no", "ok", "error"}, fetched : Nat])
  BY EmptySeq
<1>6. pc \in Steps /\ still \in BOOLEAN /\ settled \in BOOLEAN
  BY Zenon DEF Steps
<1>7. now \in 0..MaxRev /\ saved \in Nat
  OBVIOUS
<1>8. \A p \in Pages : batch[p] = NoPage
  BY DEF Nothing
<1> QED
  BY <1>1, <1>2, <1>3, <1>4, <1>5, <1>6, <1>7, <1>8 DEF TypeOK

LEMMA NewListingType ==
  ASSUME crawl \in Crawl
  PROVE  NewListing(LastNamespace) \in Crawl
<1>1. Len(Namespaces) \in Nat \ {0}
  BY HarvestAssumption, LenProperties, EmptySeq DEF HarvestAssumption
<1>2. 1 \in 1..Len(Namespaces) /\ (~LastNamespace => crawl.ns + 1 \in 1..Len(Namespaces))
  BY <1>1 DEF LastNamespace, Crawl
<1>3. 1 \in 1..(NumTitles + 1)
  BY HarvestAssumption DEF HarvestAssumption
<1> QED
  BY <1>2, <1>3 DEF NewListing, Crawl

LEMMA ExceptAnywhere ==
  ASSUME NEW S, NEW s \in Seq(S), NEW i, NEW e \in S
  PROVE  [s EXCEPT ![i] = e] \in Seq(S)
<1>1. PICK n \in Nat : s \in [1..n -> S]
  BY SeqDef
<1>2. [s EXCEPT ![i] = e] \in [1..n -> S]
  BY <1>1
<1> QED
  BY <1>2, SeqDef

LEMMA AfterType ==
  ASSUME NEW t \in Titles
  PROVE  After(t) \in 1..(NumTitles + 1)
BY HarvestAssumption DEF HarvestAssumption, After, Titles

LEMMA CountTypes ==
  /\ \A S \in SUBSET Pages : Cardinality(S) \in Nat
  /\ \A S \in SUBSET Titles : Cardinality(S) \in Nat
<1>1. IsFiniteSet(Pages) /\ IsFiniteSet(Titles)
  BY HarvestAssumption, FS_Interval DEF HarvestAssumption, Pages, Titles
<1> QED
  BY <1>1, FS_Subset, FS_CardinalityType

\* What a response makes of an entry is an entry.
LEMMA UpdatedType ==
  ASSUME TypeOK, NEW bodies, NEW parts, NEW p \in Pages, Sighted(p)
  PROVE  Updated(p, bodies, parts) \in Copy
<1>1. wiki[p] \in LivePage
  BY DEF Sighted, Exists, TypeOK
<1>2. wiki[p].title \in Titles /\ wiki[p].rev \in Revs /\ wiki[p].cats \in Revs
  BY <1>1 DEF LivePage
<1>3. FirstSight(p) \in Copy
  BY <1>2 DEF FirstSight, Copy
<1> DEFINE entry == IF batch[p] = NoPage THEN FirstSight(p) ELSE batch[p]
           body == entry.rev = 0 /\ p \in (crawl.bodies + 1)..bodies
           read == IF PartOf(p, parts) THEN {wiki[p].cats} ELSE {}
<1>4. entry \in Copy
  BY <1>3 DEF TypeOK
<1>5. Updated(p, bodies, parts) = [title |-> IF body THEN wiki[p].title ELSE entry.title,
                                   rev   |-> IF body THEN wiki[p].rev ELSE entry.rev,
                                   cats  |-> entry.cats \cup read,
                                   since |-> IF entry.since = wiki[p].rev THEN entry.since ELSE 0]
  BY Zenon DEF Updated
<1>6. read \in SUBSET Revs
  BY <1>2
<1> HIDE DEF entry, body, read
<1>7. /\ entry.title \in Titles /\ entry.rev \in Revs \cup {0}
      /\ entry.cats \in SUBSET Revs /\ entry.since \in Revs \cup {0}
  BY <1>4 DEF Copy
<1>8. /\ (IF body THEN wiki[p].title ELSE entry.title) \in Titles
      /\ (IF body THEN wiki[p].rev ELSE entry.rev) \in Revs \cup {0}
      /\ entry.cats \cup read \in SUBSET Revs
      /\ (IF entry.since = wiki[p].rev THEN entry.since ELSE 0) \in Revs \cup {0}
  BY <1>2, <1>6, <1>7
<1> QED
  BY <1>5, <1>8 DEF Copy

LEMMA ResponseType ==
  ASSUME TypeOK, NEW bodies, NEW parts
  PROVE  \A p \in Pages : AfterResponse(p, bodies, parts) \in Copy \cup {NoPage}
<1> SUFFICES ASSUME NEW p \in Pages PROVE AfterResponse(p, bodies, parts) \in Copy \cup {NoPage}
  OBVIOUS
<1>1. batch[p] # NoPage => batch[p] \in Copy
  BY DEF TypeOK
<1>2. batch[p] # NoPage => [batch[p] EXCEPT !.since = 0] \in Copy
  BY <1>1 DEF Copy
<1> QED
  BY <1>2, UpdatedType DEF AfterResponse

LEMMA TypeStep == TypeOK /\ [Next]_vars => TypeOK'
<1> SUFFICES ASSUME TypeOK, [Next]_vars PROVE TypeOK'
  OBVIOUS
<1> USE HarvestAssumption DEF HarvestAssumption, TypeOK
<1>1. CASE WikiChanges
  <2>1. /\ now' \in Revs
        /\ UNCHANGED <<db, runs, limit, txn, pc, crawl, batch, saved, cut>> /\ still' = FALSE /\ settled' = FALSE
    BY <1>1 DEF WikiChanges, WikiStep, Revs
  <2>2. ASSUME NEW p \in Pages, Exists(p) PROVE wiki[p] \in LivePage
    BY <2>2 DEF Exists
  <2>3. wiki' \in [Pages -> LivePage \cup {NoPage}]
    <3>1. ASSUME NEW p \in Pages, Edit(p) \/ EditTemplate(p) \/ Delete(p)
          PROVE  wiki' \in [Pages -> LivePage \cup {NoPage}]
      <4>1. Exists(p) => /\ [wiki[p] EXCEPT !.rev = now', !.cats = now'] \in LivePage
                         /\ [wiki[p] EXCEPT !.cats = now'] \in LivePage
        BY <2>1, <2>2 DEF LivePage
      <4>2. CASE Edit(p)
        <5>1. wiki' = [wiki EXCEPT ![p] = [wiki[p] EXCEPT !.rev = now', !.cats = now']]
          BY <4>2 DEF Edit
        <5> QED
          BY <4>1, <4>2, <5>1 DEF Edit, IsArticle
      <4>3. CASE EditTemplate(p)
        <5>1. wiki' = [wiki EXCEPT ![p] = [wiki[p] EXCEPT !.cats = now']]
          BY <4>3 DEF EditTemplate
        <5> QED
          BY <4>1, <4>3, <5>1 DEF EditTemplate, IsArticle
      <4>4. CASE Delete(p)
        BY <4>4 DEF Delete
      <4> QED
        BY <3>1, <4>2, <4>3, <4>4
    <3>2. ASSUME NEW p \in Pages, NEW t \in Titles, Create(p, t) \/ MakeRedirect(p, t)
          PROVE  wiki' \in [Pages -> LivePage \cup {NoPage}]
      <4>1. Exists(p) => [wiki[p] EXCEPT !.rev = now', !.cats = now', !.to = t] \in LivePage
        BY <2>1, <2>2 DEF LivePage
      <4>2. [title |-> t, rev |-> now', to |-> NoTitle, cats |-> now'] \in LivePage
        BY <2>1 DEF LivePage
      <4>3. CASE Create(p, t)
        BY <4>2, <4>3 DEF Create
      <4>4. CASE MakeRedirect(p, t)
        <5>1. wiki' = [wiki EXCEPT ![p] = [wiki[p] EXCEPT !.rev = now', !.cats = now', !.to = t]]
          BY <4>4 DEF MakeRedirect
        <5> QED
          BY <4>1, <4>4, <5>1 DEF MakeRedirect, IsArticle
      <4> QED
        BY <3>2, <4>3, <4>4
    <3>3. ASSUME NEW p \in Pages, NEW t \in Titles, NEW left \in SUBSET (Pages \ {p}), Move(p, t, left)
          PROVE  wiki' \in [Pages -> LivePage \cup {NoPage}]
      <4>1. wiki[p] \in LivePage
        BY <2>2, <3>3 DEF Move, IsArticle
      <4>2. [wiki[p] EXCEPT !.title = t, !.rev = now', !.cats = now'] \in LivePage
        BY <2>1, <4>1 DEF LivePage
      <4>3. [title |-> wiki[p].title, rev |-> now', to |-> t, cats |-> now'] \in LivePage
        BY <2>1, <4>1 DEF LivePage
      <4> QED
        BY <3>3, <4>2, <4>3 DEF Move
    <3> QED
      BY <1>1, <3>1, <3>2, <3>3 DEF WikiChanges
  <2>4. still' \in BOOLEAN /\ settled' \in BOOLEAN
    BY <2>1, Zenon
  <2> QED
    BY <2>1, <2>3, <2>4 DEF db, Revs
<1>2. CASE Start
  <2>1. Working \in [page : [Pages -> Row \cup {NoRow}], cats : [Pages -> Categories \cup {NoRow}],
                     failed : BOOLEAN]
    BY DEF Working
  <2>2. crawl' \in Crawl
    <3>1. [p \in Pages |-> IF raw_page[p] = NoRow THEN NoRow ELSE raw_page[p].rev]
             \in [Pages -> Revs \cup {NoRow}]
      BY DEF Row
    <3> QED
      BY <1>2, <3>1, NewCrawlType DEF Start, Crawl
  <2>3. runs' \in Seq([ended : {"no", "ok", "error"}, fetched : Nat])
    BY <1>2, AppendProperties DEF Start
  <2>4. limit' \in Nat
    <3>1. Len(runs) + 1 \in 1..MaxRuns
      BY <1>2, LenProperties DEF Start
    <3> QED
      BY <1>2, <3>1, LimitsAssumption DEF Start
  <2> QED
    BY <1>2, <2>1, <2>2, <2>3, <2>4 DEF Start, db, Steps
<1>3. ASSUME NEW well \in BOOLEAN, Exit(well), cut' \in BOOLEAN, runs' \in Seq([ended : {"no", "ok", "error"}, fetched : Nat])
      PROVE  TypeOK'
  <2>1. still' \in BOOLEAN /\ settled' \in BOOLEAN
    BY <1>3, Zenon DEF Exit
  <2> QED
    BY <1>3, <2>1, NewCrawlType DEF Exit, Working, Nothing, Steps, db
<1>4. ASSUME NEW how \in {"ok", "error"}, Close(how) PROVE TypeOK'
  <2>1. runs' \in Seq([ended : {"no", "ok", "error"}, fetched : Nat])
    <3>1. [ended |-> how, fetched |-> crawl.tally] \in [ended : {"no", "ok", "error"}, fetched : Nat]
      BY DEF Crawl
    <3>2. runs' = [runs EXCEPT ![Len(runs)] = [ended |-> how, fetched |-> crawl.tally]]
      BY <1>4 DEF Close
    <3> QED
      BY <3>1, <3>2, ExceptAnywhere
  <2> QED
    BY <1>4, <1>3, <2>1 DEF Close
<1>19. ASSUME Unwind, txn' = txn \/ txn' = [Working EXCEPT !.failed = TRUE], cut' \in BOOLEAN
       PROVE  TypeOK'
  <2>1. crawl' \in Crawl
    BY <1>19, NewCrawlType DEF Unwind, Crawl
  <2>2. txn' \in [page : [Pages -> Row \cup {NoRow}], cats : [Pages -> Categories \cup {NoRow}], failed : BOOLEAN]
    BY <1>19 DEF Working
  <2>3. still' \in BOOLEAN /\ settled' \in BOOLEAN
    BY <1>19, Zenon DEF Unwind
  <2> QED
    BY <1>19, <2>1, <2>2, <2>3 DEF Unwind, Nothing, Steps, db
<1>5. CASE ApiFails
  BY <1>5, <1>19 DEF ApiFails
<1>6. ASSUME Aborted PROVE TypeOK'
  BY <1>6, <1>19 DEF Aborted
<1>7. ASSUME NEW p \in Pages, List(p) PROVE TypeOK'
  <2> DEFINE t == wiki[p].title
             kept == crawl.kept + (IF Keep(t) THEN 1 ELSE 0)
             wanted == Keep(t) /\ crawl.known[p] # wiki[p].rev
             pending == crawl.pending \cup (IF wanted THEN {t} ELSE {})
  <2>1. t \in Titles
    BY <1>7 DEF List, NextListed, Ahead, Articles, IsArticle, Exists, LivePage
  <2>2. After(t) \in 1..(NumTitles + 1) /\ kept \in Nat /\ pending \in SUBSET Titles
    <3>1. crawl.kept \in Nat /\ crawl.pending \in SUBSET Titles
      BY DEF Crawl
    <3>2. After(t) \in 1..(NumTitles + 1)
      BY <2>1, AfterType
    <3> QED
      BY <2>1, <3>1, <3>2
  <2>3. crawl' = [crawl EXCEPT !.cursor = After(t), !.kept = kept, !.pending = pending,
                               !.done = Keep(t) /\ limit # 0 /\ kept >= limit]
    BY <1>7 DEF List
  <2> HIDE DEF t, kept, wanted, pending
  <2>4. crawl' \in Crawl
    BY <2>2, <2>3 DEF Crawl
  <2> QED
    BY <1>7, <2>4 DEF List, Local, db, Steps
<1>8. CASE ListingEnds
  BY <1>8 DEF ListingEnds, Local, db, Crawl
<1>9. CASE NamespaceEnds
  <2>1. /\ NewListing(LastNamespace) \in Crawl
        /\ NewListing(LastNamespace).tally = crawl.tally
    BY NewListingType DEF NewListing, Crawl
  <2> DEFINE next == NewListing(LastNamespace)
  <2>2. crawl' \in Crawl
    <3>1. crawl.tally + crawl.fetched \in Nat
      BY DEF Crawl
    <3>2. crawl' = crawl \/ crawl' = [next EXCEPT !.pending = {}, !.kept = 0, !.fetched = 0,
                                                 !.tally = crawl.tally + crawl.fetched]
      BY <1>9, <2>1 DEF NamespaceEnds
    <3>3. next \in Crawl
      BY <2>1
    <3> HIDE DEF next
    <3>4. [next EXCEPT !.pending = {}, !.kept = 0, !.fetched = 0,
                       !.tally = crawl.tally + crawl.fetched] \in Crawl
      BY <3>1, <3>3 DEF Crawl
    <3> QED
      BY <3>2, <3>4
  <2> QED
    BY <1>9, <2>2 DEF NamespaceEnds, Local, db, Steps
<1>10. CASE Fetch
  <2>1. batch' \in [Pages -> Copy \cup {NoPage}]
    <3>1. CASE PartialResponse
      BY <3>1, ResponseType DEF PartialResponse
    <3>2. CASE LastResponse
      <4>1. \A p \in Pages : AfterResponse(p, NumPages, 2 * NumPages) \in Copy \cup {NoPage}
        BY ResponseType
      <4> QED
        BY <3>2, <4>1 DEF LastResponse, Bodied
    <3> QED
      BY <1>10, <3>1, <3>2 DEF Fetch
  <2>2. crawl' \in Crawl
    <3>0. NumPages \in Nat /\ 0 \in Pages \cup {0} /\ 0 \in Parts \cup {0}
      BY DEF Pages, Parts
    <3>1. CASE PartialResponse
      <4>1. PICK stop \in Cuts : crawl' = [crawl EXCEPT !.bodies = stop[1], !.parts = stop[2]]
        BY <3>1 DEF PartialResponse
      <4>2. stop[1] \in Pages \cup {0} /\ stop[2] \in Parts \cup {0}
        BY <3>0 DEF Pages, Parts
      <4> QED
        BY <4>1, <4>2 DEF Crawl
    <3>2. CASE LastResponse
      BY <3>0, <3>2 DEF LastResponse, Crawl
    <3> QED
      BY <1>10, <3>1, <3>2 DEF Fetch
  <2>3. pc' # "fetch" => \A p \in Pages : batch'[p] # NoPage => batch'[p].rev # 0
    <3>1. CASE PartialResponse
      BY <3>1 DEF PartialResponse
    <3>2. CASE LastResponse
      BY <3>2 DEF LastResponse, Bodied
    <3> QED
      BY <1>10, <3>1, <3>2 DEF Fetch
  <2>4. pc' \in Steps /\ UNCHANGED <<wiki, now, db, runs, limit, txn, still, settled, saved, cut>>
    BY <1>10 DEF Fetch, PartialResponse, LastResponse, Steps
  <2> QED
    BY <2>1, <2>2, <2>3, <2>4 DEF db
<1>11. CASE ClearMoved
  <2>1. [q \in Pages |-> IF q \in Cleared THEN NoRow ELSE txn.page[q]] \in [Pages -> Row \cup {NoRow}]
    OBVIOUS
  <2>2. txn' = [txn EXCEPT !.page = [q \in Pages |-> IF q \in Cleared THEN NoRow ELSE txn.page[q]]]
    BY <1>11 DEF ClearMoved
  <2>3. txn' \in [page : [Pages -> Row \cup {NoRow}], cats : [Pages -> Categories \cup {NoRow}], failed : BOOLEAN]
    BY <2>1, <2>2
  <2> QED
    BY <1>11, <2>3 DEF ClearMoved, db, Steps
<1>12. ASSUME NEW p \in Pages, Upsert(p) PROVE TypeOK'
  <2>1. RowAt(p) \in Row
    BY <1>12 DEF Upsert, InBatch, RowAt, Copy, Row
  <2>2. CASE Collides(p)
    BY <1>12, <1>6, <2>2 DEF Upsert
  <2>3. CASE ~Collides(p)
    <3>1. txn' = [txn EXCEPT !.page = [txn.page EXCEPT ![p] = RowAt(p)]]
      BY <1>12, <2>3 DEF Upsert
    <3>2. txn' \in [page : [Pages -> Row \cup {NoRow}], cats : [Pages -> Categories \cup {NoRow}], failed : BOOLEAN]
      BY <2>1, <3>1
    <3> QED
      BY <1>12, <2>3, <3>2 DEF Upsert, db
  <2> QED
    BY <2>2, <2>3
<1>13. CASE ReplaceCategories
  <2>1. [p \in Pages |-> IF p \in InBatch THEN CategoriesOf(p) ELSE txn.cats[p]]
           \in [Pages -> Categories \cup {NoRow}]
    <3>1. \A p \in InBatch : CategoriesOf(p) \in Categories
      BY <1>13 DEF ReplaceCategories, InBatch, CategoriesOf, Categories, Copy
    <3> HIDE DEF InBatch
    <3> QED
      BY <3>1
  <2>2. txn' = [txn EXCEPT !.cats = [p \in Pages |-> IF p \in InBatch THEN CategoriesOf(p) ELSE txn.cats[p]]]
    BY <1>13 DEF ReplaceCategories
  <2>3. txn' \in [page : [Pages -> Row \cup {NoRow}], cats : [Pages -> Categories \cup {NoRow}], failed : BOOLEAN]
    BY <2>1, <2>2
  <2> QED
    BY <1>13, <2>3 DEF ReplaceCategories, db, Steps
<1>14. CASE Commit
  <2>1. PICK n \in Nat : n = Cardinality(InBatch)
    BY CountTypes DEF InBatch
  <2>2. crawl' = [crawl EXCEPT !.fetched = crawl.fetched + n] /\ saved' = saved + n
    BY <1>14, <2>1 DEF Commit
  <2>3. crawl.fetched + n \in Nat /\ saved' \in Nat
    <3>1. crawl.fetched \in Nat /\ saved \in Nat
      BY DEF Crawl
    <3> QED
      BY <2>2, <3>1
  <2>4. crawl' \in Crawl
    BY <2>2, <2>3 DEF Crawl
  <2>5. /\ raw_page' = txn.page /\ raw_cats' = txn.cats /\ pc' = "list" /\ batch' = Nothing
        /\ UNCHANGED <<wiki, now, redirects, runs, limit, txn, still, settled, cut>>
    BY <1>14 DEF Commit
  <2> QED
    BY <2>3, <2>4, <2>5 DEF Nothing, Steps
<1>15. ASSUME NEW p \in Pages, ListRedirects(p) PROVE TypeOK'
  <2>1. wiki[p].title \in Titles
    BY <1>15 DEF ListRedirects, NextListed, Ahead, Articles, IsArticle, Exists, LivePage
  <2>2. PICK from \in SUBSET SourcesOf(p) :
          crawl' = [crawl EXCEPT !.cursor = After(wiki[p].title),
                                 !.pairs = crawl.pairs + Cardinality(from),
                                 !.done = limit # 0 /\ crawl.pairs + Cardinality(from) = limit,
                                 !.found = [t \in Titles |-> IF t \in from THEN wiki[p].title ELSE @[t]]]
    BY <1>15 DEF ListRedirects
  <2>3. Cardinality(from) \in Nat
    <3>1. SourcesOf(p) \subseteq Titles
      BY <2>1 DEF SourcesOf, Exists, LivePage
    <3> QED
      BY <3>1, CountTypes
  <2>4. After(wiki[p].title) \in 1..(NumTitles + 1) /\ crawl.pairs + Cardinality(from) \in Nat
    <3>1. \A t \in Titles : After(t) \in 1..(NumTitles + 1)
      BY AfterType
    <3>2. crawl.pairs \in Nat
      BY DEF Crawl
    <3> QED
      BY <2>1, <2>3, <3>1, <3>2
  <2>5. [t \in Titles |-> IF t \in from THEN wiki[p].title ELSE crawl.found[t]]
           \in [Titles -> Titles \cup {NoTitle}]
    BY <2>1 DEF Crawl
  <2>6. crawl' \in Crawl
    BY <2>2, <2>4, <2>5 DEF Crawl
  <2> QED
    BY <1>15, <2>6 DEF ListRedirects, Local, db
<1>16. CASE RedirectsEnd
  BY <1>16 DEF RedirectsEnd, Local, db, Steps
<1>17. CASE SaveRedirects
  <2>1. crawl' \in Crawl
    BY <1>17, NewListingType DEF SaveRedirects, Crawl, NoRedirects
  <2>2. redirects' \in [Titles -> Titles \cup {NoTitle}]
    BY <1>17 DEF SaveRedirects, Crawl
  <2> QED
    BY <1>17, <2>1, <2>2 DEF SaveRedirects, Steps
<1>18. CASE UNCHANGED vars
  BY <1>18 DEF vars, db
<1> QED
  BY <1>1, <1>2, <1>3, <1>4, <1>5, <1>6, <1>7, <1>8, <1>9, <1>10, <1>11, <1>12, <1>13, <1>14, <1>15,
     <1>16, <1>17, <1>18
  DEF Next, CrawlStep, Finish, FinishError, Kill, DbFails

\* Every variable of the crawl and of the store keeps its type.
THEOREM TypeCorrect == Spec => []TypeOK
<1> QED
  BY TypeInit, TypeStep, PTL DEF Spec

-----------------------------------------------------------------------------
(* Titles.  The committed rows, the open transaction's view of them, what  *)
(* is pending and what is fetched are all free of translations.            *)

\* What a step may make of the fetched entry of a page: an entry without a body
\* whose title was asked for, the page as the wiki has it, or the entry it was.
Taken(p) ==
    batch'[p] # NoPage =>
        \/ Sighted(p) /\ batch'[p].rev = 0 /\ batch'[p].title = wiki[p].title
        \/ Sighted(p) /\ batch'[p].rev = wiki[p].rev /\ batch'[p].title = wiki[p].title
        \/ batch[p] # NoPage /\ batch'[p].rev = batch[p].rev /\ batch'[p].title = batch[p].title

LEMMA ResponseTakes ==
  ASSUME TypeOK, NEW p \in Pages, NEW bodies, NEW parts, NEW entry,
         entry = AfterResponse(p, bodies, parts), entry # NoPage
  PROVE  \/ Sighted(p) /\ entry.rev = 0 /\ entry.title = wiki[p].title
         \/ Sighted(p) /\ entry.rev = wiki[p].rev /\ entry.title = wiki[p].title
         \/ batch[p] # NoPage /\ entry.rev = batch[p].rev /\ entry.title = batch[p].title
<1>1. CASE Sighted(p)
  BY <1>1 DEF AfterResponse, Updated, FirstSight
<1>2. CASE ~Sighted(p)
  BY <1>2 DEF AfterResponse, TypeOK, Copy
<1> QED
  BY <1>1, <1>2

LEMMA FetchTakes ==
  ASSUME TypeOK, Fetch
  PROVE  \A p \in Pages : Taken(p)
<1> SUFFICES ASSUME NEW p \in Pages, batch'[p] # NoPage PROVE Taken(p)
  BY DEF Taken
<1>1. \E bodies, parts : batch'[p] = AfterResponse(p, bodies, parts)
  <2>1. CASE PartialResponse
    BY <2>1 DEF PartialResponse
  <2>2. CASE LastResponse
    <3>1. batch'[p] = Bodied(AfterResponse(p, NumPages, 2 * NumPages))
      BY <2>2 DEF LastResponse
    <3>2. batch'[p] = AfterResponse(p, NumPages, 2 * NumPages)
      BY <3>1 DEF Bodied
    <3> QED
      BY <3>2
  <2> QED
    BY <2>1, <2>2 DEF Fetch
<1> QED
  BY <1>1, ResponseTakes DEF Taken

NoneTranslated(rows) == \A p \in Pages : rows[p] # NoRow => rows[p].title \notin Translated

TitlesInv ==
    /\ TypeOK
    /\ NoneTranslated(raw_page) /\ NoneTranslated(txn.page)
    /\ \A t \in crawl.pending : t \notin Translated
    /\ \A p \in InBatch : batch[p].title \notin Translated

LEMMA TitlesInit == Init => TitlesInv
BY TypeInit DEF Init, TitlesInv, NoneTranslated, NoRows, NewCrawl, InBatch, Nothing

LEMMA TitlesStep == TitlesInv /\ TypeOK' /\ [Next]_vars => TitlesInv'
<1> SUFFICES ASSUME TitlesInv, TypeOK', [Next]_vars PROVE TitlesInv'
  OBVIOUS
<1> USE DEF TitlesInv, NoneTranslated, InBatch, db
<1>1. CASE WikiChanges
  BY <1>1 DEF WikiChanges, WikiStep
<1>2. CASE Start
  BY <1>2 DEF Start, Working, NewCrawl
<1>3. ASSUME NEW well, Exit(well) PROVE TitlesInv'
  BY <1>3 DEF Exit, Working, NewCrawl, Nothing
<1>18. ASSUME Unwind, txn'.page = txn.page \/ txn'.page = raw_page PROVE TitlesInv'
  <2>1. crawl'.pending = {} /\ \A p \in Pages : batch'[p] = NoPage
    BY <1>18 DEF Unwind, NewCrawl, Nothing
  <2> QED
    BY <1>18, <2>1 DEF Unwind
<1>4. CASE ApiFails
  BY <1>4, <1>18 DEF ApiFails
<1>5. ASSUME Aborted PROVE TitlesInv'
  <2>1. txn'.page = raw_page
    BY <1>5 DEF Aborted, Working
  <2> QED
    BY <1>5, <1>18, <2>1 DEF Aborted
<1>6. ASSUME NEW p \in Pages, List(p) PROVE TitlesInv'
  <2>1. crawl'.pending \subseteq crawl.pending \cup (IF Keep(wiki[p].title) THEN {wiki[p].title} ELSE {})
    BY <1>6 DEF List, TypeOK, Crawl
  <2> QED
    BY <1>6, <2>1 DEF List, Local, Keep
<1>7. ASSUME crawl'.pending \subseteq crawl.pending, Local PROVE TitlesInv'
  BY <1>7 DEF Local
<1>8. ListingEnds \/ NamespaceEnds \/ RedirectsEnd => crawl'.pending \subseteq crawl.pending /\ Local
  BY DEF ListingEnds, NamespaceEnds, RedirectsEnd, NewListing, TypeOK, Crawl
<1>9. CASE Fetch
  <2>1. crawl'.pending \subseteq crawl.pending
    BY <1>9 DEF Fetch, PartialResponse, LastResponse, TypeOK, Crawl
  <2>2. \A p \in Pages : batch'[p] # NoPage => \/ batch[p] # NoPage /\ batch'[p].title = batch[p].title
                                            \/ batch'[p].title \in crawl.pending
    BY <1>9, FetchTakes DEF Taken, Exists, Sighted
  <2>3. UNCHANGED <<raw_page, txn>>
    BY <1>9 DEF Fetch, PartialResponse, LastResponse
  <2> QED
    BY <1>9, <2>1, <2>2, <2>3
<1>10. CASE ClearMoved
  <2>1. \A p \in Pages : txn'.page[p] # NoRow => txn'.page[p] = txn.page[p]
    BY <1>10 DEF ClearMoved, TypeOK
  <2> QED
    BY <1>10, <2>1 DEF ClearMoved
<1>11. ASSUME NEW p \in Pages, Upsert(p), ~Collides(p) PROVE TitlesInv'
  <2>1. batch[p].title \notin Translated
    BY <1>11 DEF Upsert
  <2>2. \A q \in Pages : txn'.page[q] = IF q = p THEN RowAt(p) ELSE txn.page[q]
    BY <1>11 DEF Upsert, Aborted, TypeOK
  <2>3. NoneTranslated(txn'.page)
    BY <2>1, <2>2 DEF RowAt
  <2> QED
    BY <1>11, <2>3 DEF Upsert
<1>12. CASE ReplaceCategories
  <2>1. txn'.page = txn.page
    BY <1>12 DEF ReplaceCategories, TypeOK
  <2> QED
    BY <1>12, <2>1 DEF ReplaceCategories
<1>13. CASE Commit
  BY <1>13 DEF Commit, Nothing, TypeOK, Crawl
<1>14. ASSUME NEW p \in Pages, ListRedirects(p) PROVE TitlesInv'
  BY <1>14 DEF ListRedirects, Local, TypeOK, Crawl
<1>15. CASE SaveRedirects
  BY <1>15 DEF SaveRedirects, NewListing, TypeOK, Crawl
<1>16. CASE UNCHANGED vars
  BY <1>16 DEF vars
<1>17. ASSUME NEW p \in Pages, Upsert(p), Collides(p) PROVE TitlesInv'
  BY <1>17, <1>5 DEF Upsert
<1> QED
  BY <1>1, <1>2, <1>3, <1>4, <1>5, <1>6, <1>7, <1>8, <1>9, <1>10, <1>11, <1>12, <1>13, <1>14, <1>15, <1>16, <1>17
  DEF Next, CrawlStep, Finish, FinishError, Close, Kill, DbFails

\* Translated subpages never reach the store.
THEOREM NoTranslationCorrect == Spec => []NoTranslationStored
<1>1. TitlesInv => NoTranslationStored
  BY DEF TitlesInv, NoneTranslated, NoTranslationStored
<1> QED
  BY <1>1, TitlesInit, TitlesStep, TypeCorrect, PTL DEF Spec

-----------------------------------------------------------------------------
(* Categories.  The live categories of a page are never older than its     *)
(* revision.  A fetch that has found one revision of a page throughout has *)
(* read categories of that revision or newer ones, and some as soon as it  *)
(* has been given the page's first part; at its end it has the body too.   *)
(* A transaction is torn only between its upserts and its category rows,   *)
(* and the torn pages are the batch's.                                     *)

LiveWhole(pages) == \A p \in Pages : pages[p] # NoPage => pages[p].cats \in pages[p].rev..MaxRev
NotAhead == \A p \in Pages : wiki[p] # NoPage => wiki[p].rev <= now

\* Of an entry whose page the fetch has found unchanged so far ...
EntryWhole(entry) ==
    entry.since # 0 => /\ entry.rev \in {0, entry.since}
                       /\ \A stamp \in entry.cats : stamp >= entry.since

\* ... and of what the first parts responses' worth of categories gave it.
Given(entry, p, parts) == entry.since # 0 /\ parts >= 2 * p - 1 => entry.cats # {}

RowWhole(p) == txn.page[p] # NoRow => WholePage(txn.page[p], txn.cats[p])

BatchWhole ==
    \A p \in InBatch : /\ EntryWhole(batch[p])
                       /\ pc = "fetch" => Given(batch[p], p, crawl.parts)
                       /\ pc # "fetch" => Given(batch[p], p, 2 * NumPages)

WholeInv ==
    /\ TypeOK
    /\ LiveWhole(wiki) /\ NotAhead
    /\ BatchWhole
    /\ pc # "fetch" => crawl.parts = 0
    /\ NoHalfWrittenPage
    /\ pc # "upsert" => \A p \in Pages : RowWhole(p)
    /\ pc = "upsert" => \A p \in Pages \ InBatch : RowWhole(p)

LEMMA WholeInit == Init => WholeInv
BY TypeInit
DEF Init, WholeInv, LiveWhole, NotAhead, BatchWhole, InBatch, RowWhole, NoHalfWrittenPage, NoRows, Nothing, NewCrawl

\* A changed copy has the new revision and its categories, or keeps the old one.
Renewed(p) == wiki'[p].rev = now' /\ wiki'[p].cats = now'
Kept(p) ==
    /\ wiki'[p].title = wiki[p].title /\ wiki'[p].rev = wiki[p].rev
    /\ wiki'[p].cats \in {wiki[p].cats, now'}

LEMMA WikiMoves ==
  ASSUME TypeOK, WikiChanges
  PROVE  /\ now \in Nat /\ MaxRev \in Nat /\ now' = now + 1 /\ now' <= MaxRev
         /\ \A q \in Pages : wiki'[q] = NoPage \/ Renewed(q) \/ (Exists(q) /\ Kept(q))
<1>1. /\ now \in Nat /\ MaxRev \in Nat /\ now' = now + 1 /\ now' <= MaxRev
  BY HarvestAssumption DEF HarvestAssumption, WikiChanges, WikiStep, TypeOK
<1>2. \A q \in Pages : Exists(q) => wiki[q] \in LivePage
  BY DEF Exists, TypeOK
<1>3. \A q \in Pages : wiki'[q] = NoPage \/ Renewed(q) \/ (Exists(q) /\ Kept(q))
  <2>1. ASSUME NEW p \in Pages, Edit(p) \/ EditTemplate(p) \/ Delete(p)
        PROVE  \A q \in Pages : wiki'[q] = NoPage \/ Renewed(q) \/ (Exists(q) /\ Kept(q))
    <3>1. Exists(p)
      BY <2>1 DEF Edit, EditTemplate, Delete, IsArticle
    <3>2. \A q \in Pages \ {p} : wiki'[q] = wiki[q]
      BY <2>1 DEF Edit, EditTemplate, Delete, TypeOK
    <3> DEFINE edited == [wiki[p] EXCEPT !.rev = now', !.cats = now']
               restamped == [wiki[p] EXCEPT !.cats = now']
    <3>3. /\ edited.rev = now' /\ edited.cats = now'
         /\ restamped.title = wiki[p].title /\ restamped.rev = wiki[p].rev /\ restamped.cats = now'
      BY <1>2, <3>1 DEF LivePage
    <3>4. wiki' = [wiki EXCEPT ![p] = edited] \/ wiki' = [wiki EXCEPT ![p] = restamped]
            \/ wiki' = [wiki EXCEPT ![p] = NoPage]
      BY <2>1 DEF Edit, EditTemplate, Delete
    <3> HIDE DEF edited, restamped
    <3>5. wiki'[p] \in {edited, restamped, NoPage}
      BY <3>4 DEF TypeOK
    <3>6. wiki'[p] = NoPage \/ Renewed(p) \/ Kept(p)
      BY <3>3, <3>5 DEF Renewed, Kept
    <3> QED
      BY <3>1, <3>2, <3>6 DEF Kept, Exists
  <2>2. ASSUME NEW p \in Pages, NEW t \in Titles, Create(p, t) \/ MakeRedirect(p, t)
        PROVE  \A q \in Pages : wiki'[q] = NoPage \/ Renewed(q) \/ (Exists(q) /\ Kept(q))
    <3>1. CASE Create(p, t)
      BY <3>1 DEF Create, Exists, Renewed, Kept, TypeOK
    <3>2. CASE MakeRedirect(p, t)
      <4> DEFINE turned == [wiki[p] EXCEPT !.rev = now', !.cats = now', !.to = t]
      <4>1. Exists(p) /\ wiki[p] \in LivePage
        BY <1>2, <3>2 DEF MakeRedirect, IsArticle
      <4>2. turned.rev = now' /\ turned.cats = now'
        BY <4>1 DEF LivePage
      <4>3. wiki' = [wiki EXCEPT ![p] = turned]
        BY <3>2 DEF MakeRedirect
      <4> HIDE DEF turned
      <4>4. wiki'[p] = turned /\ \A q \in Pages \ {p} : wiki'[q] = wiki[q]
        BY <4>3 DEF TypeOK
      <4> QED
        BY <4>2, <4>4 DEF Renewed, Kept, Exists
    <3> QED
      BY <2>2, <3>1, <3>2
  <2>3. ASSUME NEW p \in Pages, NEW t \in Titles, NEW left \in SUBSET (Pages \ {p}), Move(p, t, left)
        PROVE  \A q \in Pages : wiki'[q] = NoPage \/ Renewed(q) \/ (Exists(q) /\ Kept(q))
    <3>1. wiki[p] \in LivePage
      BY <1>2, <2>3 DEF Move, IsArticle
    <3>2. Renewed(p)
      <4> DEFINE moved == [wiki[p] EXCEPT !.title = t, !.rev = now', !.cats = now']
      <4>1. wiki'[p] = moved
        BY <2>3 DEF Move
      <4>2. moved.rev = now' /\ moved.cats = now'
        BY <3>1 DEF LivePage
      <4> QED
        BY <4>1, <4>2 DEF Renewed
    <3>3. \A q \in Pages \ {p} : wiki'[q] \in {NoPage, wiki[q]} \/ Renewed(q)
      BY <2>3 DEF Move, Renewed
    <3> QED
      BY <3>2, <3>3 DEF Kept, Exists
  <2> QED
    BY <2>1, <2>2, <2>3 DEF WikiChanges
<1> QED
  BY <1>1, <1>3

LEMMA WikiWhole ==
  ASSUME TypeOK, LiveWhole(wiki), NotAhead, WikiChanges
  PROVE  LiveWhole(wiki') /\ NotAhead'
<1>1. /\ now \in Nat /\ MaxRev \in Nat /\ now' = now + 1 /\ now' <= MaxRev
  BY WikiMoves
<1>2. \A q \in Pages : Exists(q) => wiki[q] \in LivePage
  BY DEF Exists, TypeOK
<1>3. \A q \in Pages : wiki'[q] = NoPage \/ Renewed(q) \/ (Exists(q) /\ Kept(q))
  BY WikiMoves
<1>4. ASSUME NEW q \in Pages, wiki'[q] # NoPage
      PROVE  wiki'[q].cats \in wiki'[q].rev..MaxRev /\ wiki'[q].rev <= now'
  <2>1. CASE Renewed(q)
    BY <1>1, <2>1 DEF Renewed
  <2>2. CASE Exists(q) /\ Kept(q)
    <3>1. wiki[q].rev \in Nat /\ wiki[q].rev <= now /\ wiki[q].cats \in wiki[q].rev..MaxRev
      BY <1>2, <2>2 DEF LivePage, Revs, LiveWhole, NotAhead, Exists
    <3>2. PICK r \in Nat : r = wiki[q].rev
      BY <3>1
    <3>3. r <= now /\ now' \in r..MaxRev /\ r <= now'
      BY <1>1, <3>1, <3>2
    <3> QED
      BY <2>2, <3>1, <3>2, <3>3 DEF Kept
  <2> QED
    BY <1>3, <1>4, <2>1, <2>2
<1> QED
  BY <1>4 DEF LiveWhole, NotAhead

\* A response keeps whole what it was given.
LEMMA ResponseWhole ==
  ASSUME WholeInv, pc = "fetch", NEW p \in Pages, NEW bodies, NEW parts \in Parts, parts >= crawl.parts,
         NEW entry, entry = AfterResponse(p, bodies, parts), entry # NoPage
  PROVE  EntryWhole(entry) /\ Given(entry, p, parts)
<1>1. /\ NumPages \in Nat \ {0} /\ p \in Nat \ {0} /\ parts \in Nat /\ crawl.parts \in Nat
  BY HarvestAssumption DEF HarvestAssumption, WholeInv, TypeOK, Crawl, Parts, Pages
<1>2. CASE ~Sighted(p)
  <2>1. entry.since = 0
    BY <1>2 DEF AfterResponse, WholeInv, TypeOK, Copy
  <2> QED
    BY <2>1 DEF EntryWhole, Given
<1>3. CASE Sighted(p)
  <2> DEFINE old == IF batch[p] = NoPage THEN FirstSight(p) ELSE batch[p]
             body == old.rev = 0 /\ p \in (crawl.bodies + 1)..bodies
             read == IF PartOf(p, parts) THEN {wiki[p].cats} ELSE {}
  <2>1. wiki[p] \in LivePage /\ wiki[p].cats \in wiki[p].rev..MaxRev
    BY <1>3 DEF Sighted, Exists, WholeInv, TypeOK, LiveWhole
  <2>2. wiki[p].rev \in Nat \ {0} /\ wiki[p].cats \in Nat /\ wiki[p].cats >= wiki[p].rev
    BY <2>1, HarvestAssumption DEF HarvestAssumption, LivePage, Revs
  <2>3. /\ entry.rev = (IF body THEN wiki[p].rev ELSE old.rev)
        /\ entry.cats = old.cats \cup read
        /\ entry.since = (IF old.since = wiki[p].rev THEN old.since ELSE 0)
    BY <1>3 DEF AfterResponse, Updated
  <2>4. EntryWhole(old) /\ Given(old, p, crawl.parts)
    <3>1. CASE batch[p] = NoPage
      <4>1. /\ old.rev = 0 /\ old.cats = {}
            /\ old.since = (IF crawl.parts = 0 THEN wiki[p].rev ELSE 0)
        BY <3>1 DEF FirstSight
      <4>2. crawl.parts = 0 => ~(crawl.parts >= 2 * p - 1)
        BY <1>1
      <4> QED
        BY <4>1, <4>2 DEF EntryWhole, Given
    <3>2. CASE batch[p] # NoPage
      BY <3>2 DEF WholeInv, BatchWhole, InBatch
    <3> QED
      BY <3>1, <3>2
  <2> HIDE DEF old, body
  <2>5. ASSUME entry.since # 0 PROVE old.since = wiki[p].rev /\ entry.since = wiki[p].rev /\ old.since # 0
    BY <2>2, <2>3, <2>5
  <2>6. ASSUME entry.since # 0
        PROVE  /\ entry.rev \in {0, entry.since}
               /\ \A stamp \in entry.cats : stamp >= entry.since
    BY <2>2, <2>3, <2>4, <2>5, <2>6 DEF EntryWhole
  <2>7. ASSUME entry.since # 0, parts >= 2 * p - 1
        PROVE  entry.cats # {}
    <3>1. CASE crawl.parts >= 2 * p - 1
      BY <2>3, <2>4, <2>5, <2>7, <3>1 DEF Given
    <3>2. CASE ~(crawl.parts >= 2 * p - 1)
      <4>1. 2 * p - 1 \in (crawl.parts + 1)..parts
        BY <1>1, <2>7, <3>2
      <4>2. PartOf(p, parts)
        BY <4>1 DEF PartOf
      <4> QED
        BY <2>3, <4>2
    <3> QED
      BY <3>1, <3>2
  <2> QED
    BY <2>6, <2>7 DEF EntryWhole, Given
<1> QED
  BY <1>2, <1>3

\* No part has been given before the first response.
LEMMA NothingGiven ==
  ASSUME NEW p \in Pages, NEW entry
  PROVE  Given(entry, p, 0)
<1>1. ~(0 >= 2 * p - 1)
  BY HarvestAssumption DEF HarvestAssumption, Pages
<1> QED
  BY <1>1 DEF Given

LEMMA FetchWhole ==
  ASSUME WholeInv, TypeOK', Fetch
  PROVE  WholeInv'
<1>1. UNCHANGED <<wiki, now, raw_page, raw_cats, txn>> /\ pc = "fetch"
  BY DEF Fetch, PartialResponse, LastResponse, db
<1>2. LiveWhole(wiki)' /\ NotAhead' /\ NoHalfWrittenPage'
  BY <1>1 DEF WholeInv, LiveWhole, NotAhead, NoHalfWrittenPage
<1>3. \A p \in Pages : RowWhole(p)'
  BY <1>1 DEF WholeInv, RowWhole
<1>4. CASE PartialResponse
  <2>1. PICK stop \in Cuts :
          /\ stop[2] >= crawl.parts
          /\ batch' = [p \in Pages |-> AfterResponse(p, stop[1], stop[2])]
          /\ crawl' = [crawl EXCEPT !.bodies = stop[1], !.parts = stop[2]]
    BY <1>4 DEF PartialResponse
  <2>2. stop[2] \in Parts /\ crawl'.parts = stop[2] /\ pc' = "fetch"
    BY <1>4, <2>1, HarvestAssumption DEF HarvestAssumption, PartialResponse, Parts, WholeInv, TypeOK, Crawl
  <2>3. \A p \in InBatch' : EntryWhole(batch'[p]) /\ Given(batch'[p], p, stop[2])
    BY <1>1, <2>1, <2>2, ResponseWhole DEF InBatch
  <2> QED
    BY <1>2, <1>3, <2>2, <2>3 DEF WholeInv, BatchWhole
<1>5. CASE LastResponse
  <2>1. 2 * NumPages \in Parts /\ 2 * NumPages >= crawl.parts
    BY HarvestAssumption DEF HarvestAssumption, Parts, WholeInv, TypeOK, Crawl
  <2>2. /\ batch' = [p \in Pages |-> Bodied(AfterResponse(p, NumPages, 2 * NumPages))]
        /\ pc' \in {"list", "clear"} /\ crawl'.parts = 0
    BY <1>5 DEF LastResponse, WholeInv, TypeOK, Crawl
  <2>3. \A p \in InBatch' : EntryWhole(batch'[p]) /\ Given(batch'[p], p, 2 * NumPages)
    <3> SUFFICES ASSUME NEW p \in Pages, batch'[p] # NoPage
                 PROVE  EntryWhole(batch'[p]) /\ Given(batch'[p], p, 2 * NumPages)
      BY DEF InBatch
    <3>1. batch'[p] = AfterResponse(p, NumPages, 2 * NumPages)
      BY <2>2 DEF Bodied
    <3> QED
      BY <1>1, <2>1, <3>1, ResponseWhole
  <2> QED
    BY <1>2, <1>3, <2>2, <2>3 DEF WholeInv, BatchWhole
<1> QED
  BY <1>4, <1>5 DEF Fetch

\* What is saved of a page is whole.
LEMMA SavedWhole ==
  ASSUME WholeInv, pc # "fetch", NEW p \in InBatch
  PROVE  WholePage(RowAt(p), CategoriesOf(p))
<1>1. batch[p] \in Copy /\ batch[p].rev # 0 /\ p \in Pages
  BY DEF WholeInv, TypeOK, InBatch
<1>2. EntryWhole(batch[p]) /\ Given(batch[p], p, 2 * NumPages)
  BY DEF WholeInv, BatchWhole
<1>3. 2 * NumPages >= 2 * p - 1
  BY <1>1, HarvestAssumption DEF HarvestAssumption, Pages
<1>4. CategoriesOf(p) # NoRow
  <2>1. CategoriesOf(p) \in Categories
    BY <1>1 DEF CategoriesOf, Categories, Copy
  <2> QED
    BY <2>1, MarksAssumption
<1>5. /\ RowAt(p).rev = batch[p].rev /\ CategoriesOf(p).of = batch[p].rev
      /\ CategoriesOf(p).stamps = batch[p].cats /\ CategoriesOf(p).since = batch[p].since
  BY DEF RowAt, CategoriesOf
<1> HIDE DEF CategoriesOf, RowAt
<1> QED
  BY <1>1, <1>2, <1>3, <1>4, <1>5 DEF WholePage, EntryWhole, Given

LEMMA WholeStep == WholeInv /\ TypeOK' /\ [Next]_vars => WholeInv'
<1> SUFFICES ASSUME WholeInv, TypeOK', [Next]_vars PROVE WholeInv'
  OBVIOUS
<1>1. CASE WikiChanges
  <2>1. LiveWhole(wiki') /\ NotAhead'
    BY <1>1, WikiWhole DEF WholeInv
  <2>2. UNCHANGED <<raw_page, raw_cats, txn, pc, crawl, batch>>
    BY <1>1 DEF WikiChanges, WikiStep, db
  <2> QED
    BY <2>1, <2>2 DEF InBatch, WholeInv, BatchWhole, LiveWhole, RowWhole, NoHalfWrittenPage
<1> USE DEF WholeInv, LiveWhole, NotAhead, BatchWhole, RowWhole, NoHalfWrittenPage, db
<1>2. CASE Start
  <2>1. /\ UNCHANGED <<wiki, now, raw_page, raw_cats, batch>> /\ pc = "idle" /\ pc' = "list"
        /\ txn'.page = raw_page /\ txn'.cats = raw_cats /\ crawl'.parts = 0
    BY <1>2 DEF Start, Working, NewCrawl
  <2> QED
    BY <2>1 DEF InBatch
<1>3. ASSUME NEW well, Exit(well) PROVE WholeInv'
  <2>1. /\ UNCHANGED <<wiki, now, raw_page, raw_cats>> /\ pc' = "idle"
        /\ txn'.page = raw_page /\ txn'.cats = raw_cats /\ crawl'.parts = 0
        /\ InBatch' = {}
    BY <1>3 DEF Exit, Working, Nothing, NewCrawl, InBatch
  <2> QED
    BY <2>1
<1>16. ASSUME Unwind, \A p \in Pages : RowWhole(p)' PROVE WholeInv'
  <2>1. /\ UNCHANGED <<wiki, now, raw_page, raw_cats>> /\ pc' = "close_error"
        /\ crawl'.parts = 0 /\ InBatch' = {}
    BY <1>16 DEF Unwind, Nothing, NewCrawl, InBatch
  <2> QED
    BY <1>16, <2>1
<1>4. CASE ApiFails
  BY <1>4, <1>16 DEF ApiFails
<1>5. ASSUME Aborted PROVE WholeInv'
  <2>1. /\ txn'.page = raw_page /\ txn'.cats = raw_cats
    BY <1>5 DEF Aborted, Working
  <2>2. UNCHANGED <<raw_page, raw_cats>>
    BY <1>5 DEF Aborted, Unwind
  <2> QED
    BY <1>5, <1>16, <2>1, <2>2 DEF Aborted
<1>6. ASSUME Local, pc' # "upsert", pc \in {"list", "redirects"}, crawl'.parts = 0 PROVE WholeInv'
  <2>1. UNCHANGED <<wiki, now, raw_page, raw_cats, txn, batch>>
    BY <1>6 DEF Local
  <2>2. pc' = "fetch" => \A p \in InBatch' : Given(batch'[p], p, crawl'.parts)
    BY <1>6, <2>1, NothingGiven DEF InBatch
  <2> QED
    BY <1>6, <2>1, <2>2 DEF InBatch
<1>7. ASSUME NEW p \in Pages, List(p) \/ ListRedirects(p) PROVE WholeInv'
  <2>1. crawl'.parts = crawl.parts
    BY <1>7 DEF List, ListRedirects, TypeOK, Crawl
  <2> QED
    BY <1>6, <1>7, <2>1 DEF List, ListRedirects
<1>8. CASE ListingEnds \/ NamespaceEnds \/ RedirectsEnd
  <2>1. crawl'.parts = crawl.parts
    BY <1>8 DEF ListingEnds, NamespaceEnds, RedirectsEnd, NewListing, TypeOK, Crawl
  <2> QED
    BY <1>6, <1>8, <2>1 DEF ListingEnds, NamespaceEnds, RedirectsEnd
<1>9. CASE Fetch
  BY <1>9, FetchWhole
<1>10. CASE ClearMoved
  <2>1. /\ \A p \in Pages : txn'.page[p] # NoRow => txn'.page[p] = txn.page[p]
        /\ txn'.cats = txn.cats
    BY <1>10 DEF ClearMoved, TypeOK
  <2>2. UNCHANGED <<wiki, now, raw_page, raw_cats, batch, crawl>> /\ pc = "clear" /\ pc' = "upsert"
    BY <1>10 DEF ClearMoved
  <2> QED
    BY <2>1, <2>2 DEF InBatch
<1>11. ASSUME NEW p \in Pages, Upsert(p) PROVE WholeInv'
  <2>1. CASE Collides(p)
    BY <1>5, <1>11, <2>1 DEF Upsert
  <2>2. CASE ~Collides(p)
    <3>1. /\ \A q \in Pages \ {p} : txn'.page[q] = txn.page[q]
          /\ txn'.cats = txn.cats
      BY <1>11, <2>2 DEF Upsert, TypeOK
    <3>2. UNCHANGED <<wiki, now, raw_page, raw_cats, batch, crawl, pc>> /\ pc = "upsert" /\ p \in InBatch
      BY <1>11, <2>2 DEF Upsert
    <3> QED
      BY <3>1, <3>2 DEF InBatch
  <2> QED
    BY <2>1, <2>2
<1>12. CASE ReplaceCategories
  <2>1. /\ txn'.page = txn.page
        /\ \A p \in Pages : txn'.cats[p] = IF p \in InBatch THEN CategoriesOf(p) ELSE txn.cats[p]
    BY <1>12 DEF ReplaceCategories, TypeOK
  <2>2. \A p \in InBatch : txn.page[p] = RowAt(p)
    <3>1. ASSUME NEW p \in InBatch PROVE txn.page[p] = RowAt(p)
      <4>1. p \in Upserted
        BY <1>12, <3>1 DEF ReplaceCategories
      <4> QED
        BY <4>1 DEF Upserted
    <3> QED
      BY <3>1
  <2>3. UNCHANGED <<wiki, now, raw_page, raw_cats, batch, crawl>> /\ pc = "upsert" /\ pc' = "commit"
    BY <1>12 DEF ReplaceCategories
  <2>4. \A p \in InBatch : WholePage(RowAt(p), CategoriesOf(p))
    BY <2>3, SavedWhole
  <2>5. \A p \in Pages : RowWhole(p)'
    BY <2>1, <2>2, <2>3, <2>4
  <2> QED
    BY <2>3, <2>5 DEF InBatch
<1>13. CASE Commit
  <2>1. /\ raw_page' = txn.page /\ raw_cats' = txn.cats /\ UNCHANGED <<wiki, now, txn>>
        /\ pc = "commit" /\ pc' = "list" /\ crawl'.parts = crawl.parts /\ InBatch' = {}
    BY <1>13 DEF Commit, Nothing, InBatch, TypeOK, Crawl
  <2> QED
    BY <2>1
<1>14. CASE SaveRedirects
  <2>1. /\ UNCHANGED <<wiki, now, raw_page, raw_cats, txn, batch>> /\ crawl'.parts = crawl.parts
        /\ pc = "save_redirects" /\ pc' \in {"close", "redirects"}
    BY <1>14 DEF SaveRedirects, NewListing, TypeOK, Crawl
  <2> QED
    BY <2>1 DEF InBatch
<1>15. CASE UNCHANGED vars
  BY <1>15 DEF vars, InBatch
<1> QED
  BY <1>1, <1>2, <1>3, <1>4, <1>5, <1>7, <1>8, <1>9, <1>10, <1>11, <1>12, <1>13, <1>14, <1>15
  DEF Next, CrawlStep, Finish, FinishError, Close, Kill, DbFails

\* However a crawl is interrupted, a stored page has the categories that were
\* saved with its body; and they are there and no older than that revision,
\* unless the page was changed between the responses of its fetch.
THEOREM NoHalfWrittenCorrect == Spec => []NoHalfWrittenPage
<1>1. WholeInv => NoHalfWrittenPage
  BY DEF WholeInv
<1> QED
  BY <1>1, WholeInit, WholeStep, TypeCorrect, PTL DEF Spec

-----------------------------------------------------------------------------
(* Collisions.  Once the rows that hold a title of the batch are cleared,  *)
(* only the batch's own rows can hold one.                                 *)

ClearedInv ==
    pc = "upsert" => \A q \in Pages : \A p \in InBatch \ {q} :
        txn.page[q] # NoRow /\ txn.page[q].title = batch[p].title
            => q \in InBatch /\ batch[q].title = batch[p].title

LEMMA ClearedStep == ClearedInv /\ TypeOK /\ [Next]_vars => ClearedInv'
<1> SUFFICES ASSUME ClearedInv, TypeOK, [Next]_vars PROVE ClearedInv'
  OBVIOUS
<1>1. ASSUME pc' # "upsert" PROVE ClearedInv'
  BY <1>1 DEF ClearedInv
<1>2. CASE ClearMoved
  <2>1. \A q \in Pages : txn'.page[q] = IF q \in Cleared THEN NoRow ELSE txn.page[q]
    BY <1>2 DEF ClearMoved, TypeOK
  <2>2. batch' = batch
    BY <1>2 DEF ClearMoved
  <2> QED
    BY <2>1, <2>2 DEF ClearedInv, Cleared, InBatch
<1>3. ASSUME NEW p \in Pages, Upsert(p) PROVE ClearedInv'
  <2>1. CASE Collides(p)
    BY <1>1, <1>3, <2>1 DEF Upsert, Aborted, Unwind
  <2>2. CASE ~Collides(p)
    <3>1. \A q \in Pages : txn'.page[q] = IF q = p THEN RowAt(p) ELSE txn.page[q]
      BY <1>3, <2>2 DEF Upsert, TypeOK
    <3>2. batch' = batch /\ pc = "upsert" /\ p \in InBatch /\ RowAt(p).title = batch[p].title
      BY <1>3, <2>2 DEF Upsert, RowAt
    <3> QED
      BY <3>1, <3>2 DEF ClearedInv, InBatch
  <2> QED
    BY <2>1, <2>2
<1>4. CASE WikiChanges
  BY <1>1, <1>4 DEF WikiChanges, WikiStep
<1>5. ASSUME NEW well, Exit(well) PROVE ClearedInv'
  BY <1>1, <1>5 DEF Exit
<1>6. ASSUME NEW p \in Pages, List(p) \/ ListRedirects(p) PROVE ClearedInv'
  BY <1>1, <1>6 DEF List, ListRedirects
<1>7. CASE Start \/ ListingEnds \/ NamespaceEnds \/ Fetch \/ RedirectsEnd
  BY <1>1, <1>7 DEF Start, ListingEnds, NamespaceEnds, Fetch, PartialResponse, LastResponse, RedirectsEnd
<1>8. CASE ReplaceCategories \/ Commit \/ SaveRedirects
  BY <1>1, <1>8 DEF ReplaceCategories, Commit, SaveRedirects
<1>9. CASE Aborted \/ ApiFails
  BY <1>1, <1>9 DEF Aborted, ApiFails, Unwind
<1>10. CASE UNCHANGED vars
  BY <1>10 DEF vars, ClearedInv, InBatch
<1> QED
  BY <1>2, <1>3, <1>4, <1>5, <1>6, <1>7, <1>8, <1>9, <1>10
  DEF Next, CrawlStep, Finish, FinishError, Close, Kill, DbFails

\* A save meets one of its titles in another page's row only if the batch has
\* that page too, under the same title.
THEOREM SavesNeverCollideCorrect == Spec => []SavesNeverCollide
<1>1. Init => ClearedInv
  BY DEF Init, ClearedInv
<1>2. ClearedInv => SavesNeverCollide
  BY DEF ClearedInv, SavesNeverCollide, Collides, InBatch
<1> QED
  BY <1>1, <1>2, ClearedStep, TypeCorrect, PTL DEF Spec

-----------------------------------------------------------------------------
(* The run's record.  What was saved is in the tally or still in the       *)
(* namespace's own count, and the record stays open until the run ends.    *)

Counting == {"list", "fetch", "clear", "upsert", "commit"}
Merged == {"redirects", "save_redirects", "close"}
Last == runs[Len(runs)]

TallyInv ==
    /\ pc # "idle" => runs # <<>> /\ Last.ended = "no"
    /\ pc \in Counting => saved = crawl.tally + crawl.fetched
    /\ pc \in Merged => saved = crawl.tally
    /\ pc = "idle" /\ LastRunOk => Last.fetched = saved
    /\ txn.failed => cut
    /\ pc = "idle" /\ runs # <<>> /\ ~cut => Last.ended # "no"

LEMMA LastOfAppend ==
  ASSUME NEW S, NEW s \in Seq(S), NEW e \in S
  PROVE  Append(s, e) # <<>> /\ Append(s, e)[Len(Append(s, e))] = e
BY AppendProperties

LEMMA LastReplaced ==
  ASSUME NEW S, NEW s \in Seq(S), s # <<>>, NEW e
  PROVE  LET t == [s EXCEPT ![Len(s)] = e] IN t # <<>> /\ t[Len(t)] = e
<1>1. Len(s) \in Nat \ {0} /\ s \in [1..Len(s) -> S]
  BY EmptySeq, LenProperties
<1> QED
  BY <1>1

LEMMA TallyStep == TallyInv /\ TypeOK /\ TypeOK' /\ [Next]_vars => TallyInv'
<1> SUFFICES ASSUME TallyInv, TypeOK, TypeOK', [Next]_vars PROVE TallyInv'
  OBVIOUS
<1> USE DEF Counting, Merged
<1>0. /\ crawl.tally \in Nat /\ crawl.fetched \in Nat /\ saved \in Nat
      /\ NewCrawl.tally = 0 /\ NewCrawl.fetched = 0 /\ Working.failed = FALSE
  BY DEF TypeOK, Crawl, NewCrawl, Working
\* A step inside a run that leaves the record, the counts and the phase's side as they are.
<1>1. ASSUME UNCHANGED <<runs, saved, cut>>, txn'.failed = txn.failed,
             crawl'.tally = crawl.tally, crawl'.fetched = crawl.fetched,
             \/ pc' = pc
             \/ pc \in Counting /\ pc' \in Counting
             \/ pc \in Merged /\ pc' \in Merged
      PROVE  TallyInv'
  BY <1>1 DEF TallyInv, Last, LastRunOk
<1>2. CASE WikiChanges
  BY <1>1, <1>2 DEF WikiChanges, WikiStep
<1>3. CASE Start
  <2>1. runs' # <<>> /\ Last'.ended = "no"
    <3>1. PICK r \in [ended : {"no", "ok", "error"}, fetched : Nat] :
            r.ended = "no" /\ runs' = Append(runs, r)
      BY <1>3 DEF Start
    <3>2. Append(runs, r) # <<>> /\ Append(runs, r)[Len(Append(runs, r))] = r
      <4>1. runs \in Seq([ended : {"no", "ok", "error"}, fetched : Nat])
        BY DEF TypeOK
      <4> DEFINE Records == [ended : {"no", "ok", "error"}, fetched : Nat]
      <4>2. runs \in Seq(Records) /\ r \in Records
        BY <4>1
      <4> HIDE DEF Records
      <4> QED
        BY <4>2, LastOfAppend
    <3> QED
      BY <3>1, <3>2 DEF Last
  <2>2. crawl'.tally = 0 /\ crawl'.fetched = 0 /\ saved' = 0 /\ pc' = "list" /\ txn'.failed = FALSE
    BY <1>0, <1>3 DEF Start, NewCrawl
  <2> QED
    BY <2>1, <2>2 DEF TallyInv
<1>4. ASSUME Exit(FALSE), UNCHANGED runs, cut', pc # "idle" PROVE TallyInv'
  BY <1>0, <1>4 DEF Exit, TallyInv, Last, LastRunOk
<1>5. ASSUME NEW how \in {"ok", "error"}, Close(how), pc \in {"close", "close_error"},
             how = "ok" => pc = "close"
      PROVE  TallyInv'
  <2>1. runs' # <<>> /\ Last' = [ended |-> how, fetched |-> crawl.tally]
    BY <1>5, LastReplaced DEF Close, TallyInv, Last, TypeOK
  <2> QED
    BY <1>0, <1>5, <2>1 DEF Close, Exit, TallyInv, LastRunOk, Last
<1>6. ASSUME Unwind, pc # "idle", txn'.failed => cut' PROVE TallyInv'
  BY <1>6 DEF Unwind, TallyInv, Last
<1>7. CASE ApiFails
  BY <1>6, <1>7 DEF ApiFails, TallyInv
<1>8. ASSUME Aborted, pc # "idle" PROVE TallyInv'
  BY <1>6, <1>8 DEF Aborted
<1>9. ASSUME NEW p \in Pages, List(p) PROVE TallyInv'
  <2>1. crawl'.tally = crawl.tally /\ crawl'.fetched = crawl.fetched
    BY <1>9 DEF List, TypeOK, Crawl
  <2>2. UNCHANGED <<runs, saved, cut, txn>> /\ pc \in Counting /\ pc' \in Counting
    BY <1>9 DEF List, Local
  <2> QED
    BY <1>1, <2>1, <2>2
<1>10. CASE ListingEnds
  BY <1>1, <1>10 DEF ListingEnds, Local, TypeOK, Crawl
<1>11. CASE NamespaceEnds
  <2>1. CASE UNCHANGED crawl /\ pc' = "fetch"
    BY <1>1, <1>11, <2>1 DEF NamespaceEnds, Local
  <2>2. CASE ~(UNCHANGED crawl /\ pc' = "fetch")
    <3> DEFINE next == NewListing(LastNamespace)
    <3>1. next.tally = crawl.tally /\ next \in Crawl
      BY NewListingType DEF NewListing, TypeOK, Crawl
    <3>2. /\ crawl' = [next EXCEPT !.pending = {}, !.kept = 0, !.fetched = 0,
                                   !.tally = @ + crawl.fetched]
          /\ pc' \in {"list", "redirects"} /\ pc = "list"
          /\ UNCHANGED <<runs, saved, cut, txn>>
      BY <1>11, <2>2 DEF NamespaceEnds, Local
    <3> HIDE DEF next
    <3>3. crawl'.tally = crawl.tally + crawl.fetched /\ crawl'.fetched = 0
      BY <3>1, <3>2 DEF Crawl
    <3> QED
      BY <1>0, <3>2, <3>3 DEF TallyInv, Last, LastRunOk
  <2> QED
    BY <2>1, <2>2
<1>12. CASE Fetch
  <2>1. crawl'.tally = crawl.tally /\ crawl'.fetched = crawl.fetched
    BY <1>12 DEF Fetch, PartialResponse, LastResponse, TypeOK, Crawl
  <2>2. UNCHANGED <<runs, saved, cut, txn>> /\ pc \in Counting /\ pc' \in Counting
    BY <1>12 DEF Fetch, PartialResponse, LastResponse
  <2> QED
    BY <1>1, <2>1, <2>2
<1>13. CASE ClearMoved \/ ReplaceCategories
  BY <1>1, <1>13 DEF ClearMoved, ReplaceCategories, TypeOK
<1>14. ASSUME NEW p \in Pages, Upsert(p) PROVE TallyInv'
  <2>1. CASE Collides(p)
    BY <1>8, <1>14, <2>1 DEF Upsert
  <2>2. CASE ~Collides(p)
    BY <1>1, <1>14, <2>2 DEF Upsert, TypeOK
  <2> QED
    BY <2>1, <2>2
<1>15. CASE Commit
  <2>1. Cardinality(InBatch) \in Nat
    BY CountTypes DEF InBatch
  <2> DEFINE n == Cardinality(InBatch)
  <2>2. crawl'.tally = crawl.tally /\ crawl'.fetched = crawl.fetched + n /\ saved' = saved + n
    BY <1>15 DEF Commit, TypeOK, Crawl
  <2>3. pc = "commit" /\ pc' = "list" /\ UNCHANGED <<runs, txn, cut>>
    BY <1>15 DEF Commit
  <2> HIDE DEF n
  <2>4. saved = crawl.tally + crawl.fetched
    BY <2>3 DEF TallyInv
  <2>5. saved' = crawl'.tally + crawl'.fetched
    BY <1>0, <2>1, <2>2, <2>4 DEF n
  <2> QED
    BY <2>3, <2>5 DEF TallyInv, Last
<1>16. ASSUME NEW p \in Pages, ListRedirects(p) PROVE TallyInv'
  <2>1. crawl'.tally = crawl.tally /\ crawl'.fetched = crawl.fetched
    BY <1>16 DEF ListRedirects, TypeOK, Crawl
  <2> QED
    BY <1>1, <1>16, <2>1 DEF ListRedirects, Local
<1>17. CASE RedirectsEnd
  BY <1>1, <1>17 DEF RedirectsEnd, Local
<1>18. CASE SaveRedirects
  <2>1. crawl'.tally = crawl.tally /\ crawl'.fetched = crawl.fetched
    BY <1>18 DEF SaveRedirects, NewListing, TypeOK, Crawl
  <2>2. UNCHANGED <<runs, saved, cut, txn>> /\ pc \in Merged /\ pc' \in Merged
    BY <1>18 DEF SaveRedirects
  <2> QED
    BY <1>1, <2>1, <2>2
<1>19. CASE UNCHANGED vars
  BY <1>1, <1>19 DEF vars, db
<1>20. CASE FinishError
  BY <1>4, <1>5, <1>20 DEF FinishError, TallyInv
<1>21. CASE Finish
  BY <1>5, <1>21 DEF Finish
<1>22. CASE Kill \/ DbFails
  BY <1>4, <1>8, <1>22 DEF Kill, DbFails
<1> QED
  BY <1>2, <1>3, <1>7, <1>9, <1>10, <1>11, <1>12, <1>13, <1>14, <1>15, <1>16, <1>17, <1>18, <1>19,
     <1>20, <1>21, <1>22
  DEF Next, CrawlStep

LEMMA TallyHolds == Spec => []TallyInv
<1>1. Init => TallyInv
  BY DEF Init, TallyInv, LastRunOk, Counting, Merged
<1> QED
  BY <1>1, TallyStep, TypeCorrect, PTL DEF Spec

\* The tally of a run that went well is what it stored, over all its namespaces.
THEOREM TallyOfSuccessCorrect == Spec => []TallyOfSuccess
<1>1. TallyInv => TallyOfSuccess
  BY DEF TallyInv, TallyOfSuccess, Last
<1> QED
  BY <1>1, TallyHolds, PTL

\* A run that was not killed, and that the database refused nothing, is closed.
THEOREM UncutRunsAreClosedCorrect == Spec => []UncutRunsAreClosed
<1>1. TallyInv => UncutRunsAreClosed
  BY DEF TallyInv, UncutRunsAreClosed, Last
<1> QED
  BY <1>1, TallyHolds, PTL

-----------------------------------------------------------------------------
(* The mirror.  While the wiki stands still, what is copied is what is     *)
(* there (CopiesInv), and a run without --limit has held, fetched or set   *)
(* aside every wanted page its listing has passed (FullInv).  What a run   *)
(* of an unchanged wiki may skip is what the store holds, because a stored *)
(* revision names one title (PlaceInv), whatever the runs before it did.   *)

WikiTitles ==
    \A p, q \in Pages : Exists(p) /\ Exists(q) /\ wiki[p].title = wiki[q].title => p = q

\* A copy of page p of its present revision is of its present title.
Named(copy, p) == Exists(p) /\ copy.rev = wiki[p].rev => copy.title = wiki[p].title

PlaceInv ==
    /\ WikiTitles
    /\ \A p \in Pages :
         /\ raw_page[p] # NoRow => raw_page[p].rev <= now /\ Named(raw_page[p], p)
         /\ txn.page[p] # NoRow => txn.page[p].rev <= now /\ Named(txn.page[p], p)
         /\ batch[p] # NoPage => batch[p].rev <= now /\ Named(batch[p], p)
         /\ wiki[p] # NoPage => wiki[p].rev <= now
    /\ pc \notin {"upsert", "commit", "close_error"} => txn.page = raw_page
    /\ pc \notin {"fetch", "clear", "upsert", "commit"} => InBatch = {}
    /\ pc # "fetch" => crawl.bodies = 0
    /\ pc \notin {"list", "fetch"} => crawl.pending = {}
    /\ pc = "commit" => \A p \in InBatch : txn.page[p] = RowAt(p)
    /\ pc \notin {"redirects", "save_redirects"} => \A t \in Titles : crawl.found[t] = NoTitle

AsIs(p) == [title |-> wiki[p].title, rev |-> wiki[p].rev]
Held(p) == raw_page[p] = AsIs(p) /\ txn.page[p] = AsIs(p)

Passed(p) ==
    \/ \E i \in 1..(crawl.ns - 1) : NamespaceOf[wiki[p].title] = Namespaces[i]
    \/ InNamespace(wiki[p].title) /\ wiki[p].title < crawl.cursor

\* The redirects onto p that are to be stored.
Onto(q, p) ==
    /\ Exists(q) /\ wiki[q].to = wiki[p].title
    /\ wiki[q].title \notin Translated
    /\ NamespaceOf[wiki[q].title] = NamespaceOf[wiki[p].title]

CopiesInv ==
    /\ \A p \in InBatch : Exists(p) /\ batch[p].title = wiki[p].title /\ batch[p].rev \in {0, wiki[p].rev}
    /\ pc = "fetch" => \A p \in InBatch : wiki[p].title \in crawl.pending
    /\ \A p \in Pages : Exists(p) /\ crawl.known[p] = wiki[p].rev => Held(p)
    /\ \A q \in Pages : Exists(q) /\ crawl.found[wiki[q].title] # NoTitle => crawl.found[wiki[q].title] = wiki[q].to
    /\ pc = "fetch" => \A p \in 1..crawl.bodies : Sighted(p) => p \in InBatch /\ batch[p].rev # 0

FullInv ==
    /\ pc \in Counting =>
         \A p \in Pages : Wanted(p) /\ Passed(p) => wiki[p].title \in crawl.pending \/ p \in InBatch \/ Held(p)
    /\ crawl.done => Ahead = {} /\ pc \in Counting
    /\ pc = "save_redirects" => Ahead = {}
    /\ pc \in {"redirects", "save_redirects", "close", "idle"} => \A p \in Pages : Wanted(p) => Held(p)
    /\ pc \in {"redirects", "save_redirects"} =>
         \A p, q \in Pages : Wanted(p) /\ Passed(p) /\ Onto(q, p) =>
             wiki[p].title \in {crawl.found[wiki[q].title], redirects[wiki[q].title]}
    /\ pc \in {"close", "idle"} =>
         \A p, q \in Pages : Wanted(p) /\ Onto(q, p) => redirects[wiki[q].title] = wiki[p].title

SettledInv ==
    settled => /\ still /\ pc # "idle" /\ crawl.pending = {}
               /\ \A p \in Pages : Wanted(p) => crawl.known[p] = wiki[p].rev

MirrorInv == PlaceInv /\ (still => CopiesInv) /\ (still /\ limit = 0 => FullInv) /\ SettledInv

-----------------------------------------------------------------------------
LEMMA MirrorInit == Init => MirrorInv
<1> SUFFICES ASSUME Init PROVE MirrorInv
  OBVIOUS
<1>1. wiki = Nothing /\ ~still /\ ~settled
  BY DEF Init
<1>2. WikiTitles
  BY DEF Init, Nothing, WikiTitles, Exists
<1>3. PlaceInv
  BY <1>2 DEF Init, PlaceInv, NoRows, Nothing, InBatch, NewCrawl, NoRedirects
<1> QED
  BY <1>1, <1>3 DEF MirrorInv, SettledInv

\* A page takes a title only where there is none, or only a redirect that it removes.
LEMMA WikiTitlesStep ==
  ASSUME TypeOK, WikiTitles, WikiChanges
  PROVE  WikiTitles'
<1>1. \A q \in Pages : Exists(q) => wiki[q] \in LivePage
  BY DEF Exists, TypeOK
<1>2. ASSUME NEW p \in Pages, Edit(p) \/ EditTemplate(p) \/ Delete(p) \/ \E t \in Titles : MakeRedirect(p, t)
      PROVE  WikiTitles'
  <2>1. Exists(p)
    BY <1>2 DEF Edit, EditTemplate, Delete, MakeRedirect, IsArticle
  <2>2. \A q \in Pages \ {p} : wiki'[q] = wiki[q]
    BY <1>2 DEF Edit, EditTemplate, Delete, MakeRedirect, TypeOK
  <2>3. wiki'[p] = NoPage \/ wiki'[p].title = wiki[p].title
    BY <1>1, <1>2, <2>1 DEF Edit, EditTemplate, Delete, MakeRedirect, TypeOK, LivePage
  <2> QED
    BY <2>1, <2>2, <2>3 DEF WikiTitles, Exists
<1>3. ASSUME NEW p \in Pages, NEW t \in Titles, Create(p, t)
      PROVE  WikiTitles'
  BY <1>3 DEF Create, TypeOK, WikiTitles, Exists, At
<1>4. ASSUME NEW p \in Pages, NEW t \in Titles, NEW left \in SUBSET (Pages \ {p}), Move(p, t, left)
      PROVE  WikiTitles'
  <2>1. wiki[p] \in LivePage /\ Exists(p) /\ wiki[p].title # t
    BY <1>1, <1>4 DEF Move, IsArticle
  <2>2. wiki'[p].title = t
    <3>1. wiki'[p] = [wiki[p] EXCEPT !.title = t, !.rev = now', !.cats = now']
      BY <1>4 DEF Move
    <3> QED
      BY <2>1, <3>1 DEF LivePage
  <2>3. \A q \in left : ~Exists(q) /\ wiki'[q].title = wiki[p].title
    BY <1>4 DEF Move
  <2>4. \A q \in Pages \ (left \cup {p}) : wiki'[q] = NoPage \/ (wiki'[q] = wiki[q] /\ q \notin At(t))
    BY <1>4 DEF Move
  <2>5. \A q, r \in left : q = r
    <3>1. IsFiniteSet(left) /\ Cardinality(left) <= 1 /\ Cardinality(left) \in Nat
      <4>1. IsFiniteSet(Pages)
        BY HarvestAssumption, FS_Interval DEF HarvestAssumption, Pages
      <4>2. left \in SUBSET Pages
        OBVIOUS
      <4> QED
        BY <1>4, <4>1, <4>2, FS_Subset, FS_CardinalityType DEF Move
    <3>2. Cardinality(left) = 0 \/ Cardinality(left) = 1
      BY <3>1
    <3> QED
      BY <3>1, <3>2, FS_EmptySet, FS_Singleton
  <2> QED
    BY <2>1, <2>2, <2>3, <2>4, <2>5 DEF WikiTitles, Exists, At
<1> QED
  BY <1>2, <1>3, <1>4 DEF WikiChanges

LEMMA PlaceWiki ==
  ASSUME TypeOK, TypeOK', PlaceInv, WikiChanges
  PROVE  PlaceInv'
<1>1. /\ now \in Nat /\ now' = now + 1
      /\ \A q \in Pages : wiki'[q] = NoPage \/ Renewed(q) \/ (Exists(q) /\ Kept(q))
  BY WikiMoves
<1>2. WikiTitles'
  BY WikiTitlesStep DEF PlaceInv
<1>3. ASSUME NEW p \in Pages, NEW copy, copy.rev \in Revs, copy.rev <= now, Named(copy, p)
      PROVE  copy.rev <= now' /\ Named(copy, p)'
  <2>1. copy.rev < now' /\ copy.rev <= now'
    BY <1>1, <1>3 DEF Revs
  <2> QED
    BY <1>1, <1>3, <2>1 DEF Named, Exists, Renewed, Kept
<1>4. UNCHANGED <<raw_page, raw_cats, redirects, runs, limit, txn, pc, crawl, batch>>
  BY DEF WikiChanges, WikiStep, db
<1>5. \A p \in Pages : wiki'[p] # NoPage => wiki'[p].rev <= now'
  <2> TAKE p \in Pages
  <2>1. Exists(p) => wiki[p].rev \in Nat /\ wiki[p].rev <= now
    BY DEF PlaceInv, TypeOK, LivePage, Revs, Exists
  <2> QED
    BY <1>1, <2>1 DEF Renewed, Kept
<1>6. ASSUME NEW p \in Pages
      PROVE  /\ raw_page'[p] # NoRow => raw_page'[p].rev <= now' /\ Named(raw_page[p], p)'
             /\ txn'.page[p] # NoRow => txn'.page[p].rev <= now' /\ Named(txn.page[p], p)'
             /\ batch'[p] # NoPage => batch'[p].rev <= now' /\ Named(batch[p], p)'
  <2>1. raw_page[p] # NoRow => raw_page[p].rev \in Revs
    BY DEF TypeOK, Row
  <2>2. txn.page[p] # NoRow => txn.page[p].rev \in Revs
    BY DEF TypeOK, Row
  <2>3. batch[p] # NoPage => batch[p].rev \in Revs \cup {0}
    BY DEF TypeOK, Copy
  <2>9. Exists(p) => wiki[p].rev # 0
    BY DEF TypeOK, Exists, LivePage, Revs
  <2>7. wiki'[p] # NoPage => wiki'[p].rev # 0
    BY <1>1, <2>9 DEF Renewed, Kept
  <2>8. now' \in Nat
    BY <1>1
  <2>4. raw_page'[p] # NoRow => raw_page'[p].rev <= now' /\ Named(raw_page[p], p)'
    BY <1>3, <1>4, <2>1 DEF PlaceInv, Named
  <2>5. txn'.page[p] # NoRow => txn'.page[p].rev <= now' /\ Named(txn.page[p], p)'
    BY <1>3, <1>4, <2>2 DEF PlaceInv, Named
  <2>6. batch'[p] # NoPage => batch'[p].rev <= now' /\ Named(batch[p], p)'
    <3>1. CASE batch[p] # NoPage /\ batch[p].rev = 0
      <4>1. batch'[p] = batch[p] /\ batch'[p].rev = 0
        BY <1>4, <3>1
      <4>2. 0 <= now'
        BY <2>8
      <4>3. Named(batch[p], p)'
        BY <2>7, <4>1 DEF Named, Exists
      <4> QED
        BY <4>1, <4>2, <4>3
    <3>2. CASE batch[p] = NoPage \/ batch[p].rev \in Revs
      BY <1>3, <1>4, <3>2 DEF PlaceInv, Named
    <3> QED
      BY <2>3, <3>1, <3>2
  <2> QED
    BY <2>4, <2>5, <2>6
<1> QED
  BY <1>2, <1>4, <1>5, <1>6 DEF PlaceInv, InBatch, RowAt

\* What the rows of a page may be copied from.
Copies(p) == {raw_page[p], txn.page[p], NoRow} \cup (IF batch[p] # NoPage THEN {RowAt(p)} ELSE {})

LEMMA PlaceCopies ==
  ASSUME TypeOK, PlaceInv, UNCHANGED <<wiki, now>>,
         \A p \in Pages : /\ raw_page'[p] \in Copies(p) /\ txn'.page[p] \in Copies(p)
                          /\ Taken(p)
  PROVE  /\ WikiTitles'
         /\ \A p \in Pages :
              /\ raw_page'[p] # NoRow => raw_page'[p].rev <= now' /\ Named(raw_page[p], p)'
              /\ txn'.page[p] # NoRow => txn'.page[p].rev <= now' /\ Named(txn.page[p], p)'
              /\ batch'[p] # NoPage => batch'[p].rev <= now' /\ Named(batch[p], p)'
              /\ wiki'[p] # NoPage => wiki'[p].rev <= now'
<1>1. WikiTitles'
  BY DEF PlaceInv, WikiTitles, Exists
<1>2. ASSUME NEW p \in Pages, NEW row \in Copies(p), row # NoRow
      PROVE  row.rev <= now /\ Named(row, p)
  <2>1. batch[p] # NoPage => RowAt(p).rev <= now /\ Named(RowAt(p), p)
    BY DEF PlaceInv, RowAt, Named
  <2> QED
    BY <1>2, <2>1 DEF PlaceInv, Copies
<1>3. \A p \in Pages : wiki[p] # NoPage => Named(wiki[p], p)
  BY DEF Named
<1>4. ASSUME NEW p \in Pages
      PROVE  /\ raw_page'[p] # NoRow => raw_page'[p].rev <= now' /\ Named(raw_page[p], p)'
             /\ txn'.page[p] # NoRow => txn'.page[p].rev <= now' /\ Named(txn.page[p], p)'
  BY <1>2 DEF Named, Exists
<1>5. ASSUME NEW p \in Pages, batch'[p] # NoPage
      PROVE  batch'[p].rev <= now' /\ Named(batch[p], p)'
  <2>1. batch[p] # NoPage => batch[p].rev <= now /\ Named(batch[p], p)
    BY DEF PlaceInv
  <2>2. wiki[p] # NoPage => wiki[p].rev <= now /\ wiki[p].rev # 0 /\ now \in Nat
    BY DEF PlaceInv, TypeOK, LivePage, Revs
  <2>3. Exists(p)' <=> Exists(p)
    BY DEF Exists
  <2>4. CASE Sighted(p) /\ batch'[p].rev = 0
    BY <2>2, <2>3, <2>4 DEF Named, Exists, Sighted
  <2>5. CASE Sighted(p) /\ batch'[p].rev = wiki[p].rev /\ batch'[p].title = wiki[p].title
    BY <2>2, <2>5 DEF Named, Exists, Sighted
  <2>6. CASE batch[p] # NoPage /\ batch'[p].rev = batch[p].rev /\ batch'[p].title = batch[p].title
    BY <2>1, <2>6 DEF Named, Exists
  <2> QED
    BY <1>5, <2>4, <2>5, <2>6 DEF Taken
<1> QED
  BY <1>1, <1>4, <1>5 DEF PlaceInv

\* Where nothing is copied and nothing is fetched.
LEMMA PlaceStays ==
  ASSUME TypeOK, PlaceInv, UNCHANGED <<wiki, now, raw_page, txn, batch>>,
         pc \in {"list", "redirects", "save_redirects"},
         pc' \in {"list", "redirects", "save_redirects", "close"} \/ (pc = "list" /\ pc' = "fetch"),
         crawl'.bodies = crawl.bodies, pc' \notin {"list", "fetch"} => crawl'.pending = {},
         pc' \notin {"redirects", "save_redirects"} => \A t \in Titles : crawl'.found[t] = NoTitle
  PROVE  PlaceInv'
<1>1. \A p \in Pages : /\ raw_page'[p] \in Copies(p) /\ txn'.page[p] \in Copies(p)
                       /\ Taken(p)
  BY DEF Taken, Copies
<1> QED
  BY <1>1, PlaceCopies DEF PlaceInv, InBatch

LEMMA PlaceExit ==
  ASSUME TypeOK, PlaceInv, UNCHANGED <<wiki, now, db>>,
         pc' = "idle", crawl' = NewCrawl, batch' = Nothing, txn' = Working
  PROVE  PlaceInv'
<1>1. UNCHANGED <<wiki, now, raw_page>> /\ txn'.page = raw_page
  BY DEF Working, db
<1>2. \A p \in Pages : /\ raw_page'[p] \in Copies(p) /\ txn'.page[p] \in Copies(p)
                       /\ batch'[p] = NoPage
  BY <1>1 DEF Copies, Nothing
<1>3. InBatch' = {} /\ crawl'.bodies = 0 /\ crawl'.pending = {} /\ \A t \in Titles : crawl'.found[t] = NoTitle
  BY <1>1, <1>2 DEF InBatch, NewCrawl, NoRedirects
<1>4. txn'.page = raw_page'
  BY <1>1
<1> QED
  BY <1>1, <1>2, <1>3, <1>4, PlaceCopies DEF PlaceInv, Taken

LEMMA PlaceUnwind ==
  ASSUME TypeOK, PlaceInv, Unwind, UNCHANGED raw_page, txn'.page \in {txn.page, raw_page}
  PROVE  PlaceInv'
<1>1. /\ UNCHANGED <<wiki, now>> /\ pc' = "close_error" /\ batch' = Nothing
      /\ crawl' = [NewCrawl EXCEPT !.tally = crawl.tally]
  BY DEF Unwind
<1>2. \A p \in Pages : /\ raw_page'[p] \in Copies(p) /\ txn'.page[p] \in Copies(p)
                       /\ batch'[p] = NoPage
  BY <1>1 DEF Copies, Nothing
<1>3. InBatch' = {} /\ crawl'.bodies = 0 /\ crawl'.pending = {} /\ \A t \in Titles : crawl'.found[t] = NoTitle
  BY <1>1, <1>2 DEF InBatch, NewCrawl, NoRedirects
<1> QED
  BY <1>1, <1>2, <1>3, PlaceCopies DEF PlaceInv, Taken

LEMMA PlaceSave ==
  ASSUME TypeOK, TypeOK', PlaceInv,
         ClearMoved \/ (\E p \in Pages : Upsert(p) /\ ~Collides(p)) \/ ReplaceCategories \/ Commit
  PROVE  PlaceInv'
<1>1. CASE ClearMoved
  <2>1. \A p \in Pages : txn'.page[p] \in {NoRow, txn.page[p]}
    BY <1>1 DEF ClearMoved, TypeOK
  <2>2. UNCHANGED <<wiki, now, raw_page, batch, crawl>> /\ pc = "clear" /\ pc' = "upsert"
    BY <1>1 DEF ClearMoved, db
  <2>3. \A p \in Pages : /\ raw_page'[p] \in Copies(p) /\ txn'.page[p] \in Copies(p)
                         /\ Taken(p)
    BY <2>1, <2>2 DEF Taken, Copies
  <2> QED
    BY <2>2, <2>3, PlaceCopies DEF PlaceInv
<1>2. ASSUME NEW p \in Pages, Upsert(p), ~Collides(p)
      PROVE  PlaceInv'
  <2>1. \A q \in Pages : txn'.page[q] = IF q = p THEN RowAt(p) ELSE txn.page[q]
    BY <1>2 DEF Upsert, Aborted, TypeOK
  <2>2. UNCHANGED <<wiki, now, raw_page, batch, crawl>> /\ pc = "upsert" /\ pc' = "upsert" /\ batch[p] # NoPage
    BY <1>2 DEF Upsert, db, InBatch
  <2>3. \A q \in Pages : /\ raw_page'[q] \in Copies(q) /\ txn'.page[q] \in Copies(q)
                         /\ Taken(q)
    BY <2>1, <2>2 DEF Taken, Copies
  <2> QED
    BY <2>2, <2>3, PlaceCopies DEF PlaceInv
<1>3. CASE ReplaceCategories
  <2>1. txn'.page = txn.page /\ \A p \in InBatch : txn.page[p] = RowAt(p)
    BY <1>3 DEF ReplaceCategories, Upserted, TypeOK
  <2>2. UNCHANGED <<wiki, now, raw_page, batch, crawl>> /\ pc = "upsert" /\ pc' = "commit"
    BY <1>3 DEF ReplaceCategories, db
  <2>3. \A q \in Pages : /\ raw_page'[q] \in Copies(q) /\ txn'.page[q] \in Copies(q)
                         /\ Taken(q)
    BY <2>1, <2>2 DEF Taken, Copies
  <2>4. \A p \in InBatch' : txn'.page[p] = RowAt(p)'
    BY <2>1, <2>2 DEF InBatch, RowAt
  <2> QED
    BY <2>2, <2>3, <2>4, PlaceCopies DEF PlaceInv
<1>4. CASE Commit
  <2>1. /\ UNCHANGED <<wiki, now, txn>> /\ raw_page' = txn.page /\ pc = "commit" /\ pc' = "list"
        /\ batch' = Nothing /\ crawl'.bodies = crawl.bodies /\ crawl'.found = crawl.found
    BY <1>4 DEF Commit, TypeOK, Crawl
  <2>2. \A q \in Pages : /\ raw_page'[q] \in Copies(q) /\ txn'.page[q] \in Copies(q)
                         /\ batch'[q] = NoPage
    BY <2>1 DEF Copies, Nothing
  <2>3. InBatch' = {}
    BY <2>2 DEF InBatch
  <2> QED
    BY <2>1, <2>2, <2>3, PlaceCopies DEF PlaceInv, Taken
<1> QED
  BY <1>1, <1>2, <1>3, <1>4

LEMMA PlaceFetch ==
  ASSUME TypeOK, PlaceInv, Fetch
  PROVE  PlaceInv'
<1>1. UNCHANGED <<wiki, now, raw_page, txn>> /\ pc = "fetch"
  BY DEF Fetch, PartialResponse, LastResponse, db
<1>2. \A q \in Pages : /\ raw_page'[q] \in Copies(q) /\ txn'.page[q] \in Copies(q)
                       /\ Taken(q)
  BY <1>1, FetchTakes DEF Taken, Copies
<1>3. /\ crawl'.found = crawl.found
      /\ \/ pc' = "fetch"
         \/ pc' = "list" /\ crawl'.bodies = 0 /\ InBatch' = {}
         \/ pc' = "clear" /\ crawl'.bodies = 0 /\ crawl'.pending = {}
  BY <1>1 DEF Fetch, PartialResponse, LastResponse, TypeOK, Crawl, Nothing, InBatch
<1> QED
  BY <1>1, <1>2, <1>3, PlaceCopies DEF PlaceInv

LEMMA PlaceStart ==
  ASSUME TypeOK, PlaceInv, Start
  PROVE  PlaceInv'
<1>1. /\ UNCHANGED <<wiki, now, raw_page, batch>> /\ pc = "idle" /\ pc' = "list" /\ txn'.page = raw_page
      /\ crawl'.bodies = 0 /\ crawl'.found = NoRedirects
  BY DEF Start, Working, db, NewCrawl
<1>2. \A p \in Pages : /\ raw_page'[p] \in Copies(p) /\ txn'.page[p] \in Copies(p)
                       /\ Taken(p)
  BY <1>1 DEF Taken, Copies
<1> QED
  BY <1>1, <1>2, PlaceCopies DEF PlaceInv, InBatch, NoRedirects

LEMMA PlaceStep == TypeOK /\ TypeOK' /\ PlaceInv /\ [Next]_vars => PlaceInv'
<1> SUFFICES ASSUME TypeOK, TypeOK', PlaceInv, [Next]_vars PROVE PlaceInv'
  OBVIOUS
<1>1. CASE WikiChanges
  BY <1>1, PlaceWiki
<1>2. CASE Start
  BY <1>2, PlaceStart
<1>3. ASSUME NEW well, Exit(well)
      PROVE  PlaceInv'
  <2>1. UNCHANGED <<wiki, now, db>> /\ pc' = "idle" /\ crawl' = NewCrawl /\ batch' = Nothing /\ txn' = Working
    BY <1>3 DEF Exit
  <2> QED
    BY <2>1, PlaceExit
<1>4. CASE Finish \/ FinishError \/ Kill
  BY <1>3, <1>4 DEF Finish, FinishError, Close, Kill
<1>5. CASE ApiFails
  <2>1. Unwind /\ txn'.page \in {txn.page, raw_page} /\ UNCHANGED raw_page
    BY <1>5 DEF ApiFails, Unwind, db
  <2> QED
    BY <2>1, PlaceUnwind
<1>6. ASSUME Aborted
      PROVE  PlaceInv'
  <2>1. Unwind /\ txn'.page \in {txn.page, raw_page} /\ UNCHANGED raw_page
    BY <1>6 DEF Aborted, Unwind, Working, db
  <2> QED
    BY <2>1, PlaceUnwind
<1>7. CASE DbFails
  BY <1>3, <1>6, <1>7 DEF DbFails
<1>8. ASSUME NEW p \in Pages, List(p)
      PROVE  PlaceInv'
  <2>1. crawl'.bodies = crawl.bodies /\ crawl'.found = crawl.found /\ pc = "list" /\ pc' \in {"list", "fetch"}
    BY <1>8 DEF List, TypeOK, Crawl
  <2>2. UNCHANGED <<wiki, now, raw_page, txn, batch>>
    BY <1>8 DEF List, Local, db
  <2> QED
    BY <2>1, <2>2, PlaceStays DEF PlaceInv
<1>9. CASE ListingEnds \/ NamespaceEnds \/ RedirectsEnd
  <2>1. UNCHANGED <<wiki, now, raw_page, txn, batch>>
    BY <1>9 DEF ListingEnds, NamespaceEnds, RedirectsEnd, Local, db
  <2>2. crawl'.bodies = crawl.bodies /\ crawl'.found = crawl.found
    BY <1>9 DEF ListingEnds, NamespaceEnds, RedirectsEnd, NewListing, TypeOK, Crawl
  <2>3. \/ pc = "list" /\ pc' = "list"
        \/ pc = "list" /\ pc' = "fetch"
        \/ pc = "list" /\ pc' = "redirects" /\ crawl'.pending = {}
        \/ pc = "redirects" /\ pc' = "save_redirects" /\ crawl'.pending = crawl.pending
    BY <1>9 DEF ListingEnds, NamespaceEnds, RedirectsEnd, NewListing, TypeOK, Crawl
  <2> QED
    BY <2>1, <2>2, <2>3, PlaceStays DEF PlaceInv
<1>10. CASE Fetch
  BY <1>10, PlaceFetch
<1>11. CASE ClearMoved \/ (\E p \in Pages : Upsert(p)) \/ ReplaceCategories \/ Commit
  BY <1>6, <1>11, PlaceSave DEF Upsert
<1>12. ASSUME NEW p \in Pages, ListRedirects(p)
       PROVE  PlaceInv'
  <2>1. crawl'.bodies = crawl.bodies /\ crawl'.pending = crawl.pending /\ pc = "redirects" /\ pc' = "redirects"
    BY <1>12 DEF ListRedirects, TypeOK, Crawl
  <2>2. UNCHANGED <<wiki, now, raw_page, txn, batch>>
    BY <1>12 DEF ListRedirects, Local, db
  <2> QED
    BY <2>1, <2>2, PlaceStays DEF PlaceInv
<1>13. CASE SaveRedirects
  <2>1. /\ crawl'.bodies = crawl.bodies /\ crawl'.pending = crawl.pending /\ \A t \in Titles : crawl'.found[t] = NoTitle
        /\ pc = "save_redirects" /\ pc' \in {"close", "redirects"}
    BY <1>13 DEF SaveRedirects, NewListing, NoRedirects, TypeOK, Crawl
  <2>2. UNCHANGED <<wiki, now, raw_page, txn, batch>>
    BY <1>13 DEF SaveRedirects
  <2> QED
    BY <2>1, <2>2, PlaceStays DEF PlaceInv
<1>14. CASE UNCHANGED vars
  BY <1>14 DEF vars, db, PlaceInv, WikiTitles, Exists, Named, InBatch, RowAt
<1> QED
  BY <1>1, <1>2, <1>4, <1>5, <1>7, <1>8, <1>9, <1>10, <1>11, <1>12, <1>13, <1>14 DEF Next, CrawlStep

-----------------------------------------------------------------------------
\* The steps that leave the wiki, and the run, as they are.
Quiet ==
    \/ Start \/ Finish \/ ListingEnds \/ NamespaceEnds \/ Fetch
    \/ ClearMoved \/ ReplaceCategories \/ Commit \/ RedirectsEnd \/ SaveRedirects
    \/ \E p \in Pages : List(p) \/ (Upsert(p) /\ ~Collides(p)) \/ ListRedirects(p)
    \/ UNCHANGED vars

LEMMA StillIsQuiet ==
  ASSUME [Next]_vars, still'
  PROVE  Quiet /\ UNCHANGED wiki /\ (Start \/ (still /\ limit' = limit))
<1>1. ~WikiChanges /\ ~Kill /\ ~FinishError /\ ~ApiFails /\ ~DbFails /\ ~Aborted
  BY DEF WikiChanges, WikiStep, Kill, Exit, FinishError, Close, ApiFails, DbFails, Aborted, Unwind
<1>2. Quiet
  BY <1>1 DEF Next, CrawlStep, Quiet, Upsert
<1>3. UNCHANGED wiki /\ (Start \/ (still /\ limit' = limit))
  BY <1>2 DEF Quiet, Start, Finish, Close, Exit, ListingEnds, NamespaceEnds, Fetch, PartialResponse, LastResponse, ClearMoved, ReplaceCategories,
     Commit, RedirectsEnd, SaveRedirects, List, Upsert, Aborted, Unwind, ListRedirects, Local, vars
<1> QED
  BY <1>2, <1>3

\* What is saved of a wiki that stands still is the page as it is.
LEMMA SavedAsIs ==
  ASSUME TypeOK, CopiesInv, pc # "fetch", NEW p \in InBatch
  PROVE  RowAt(p) = AsIs(p)
<1>1. batch[p].rev # 0 /\ batch[p].title = wiki[p].title /\ batch[p].rev \in {0, wiki[p].rev}
  BY DEF TypeOK, CopiesInv, InBatch
<1> QED
  BY <1>1 DEF RowAt, AsIs

\* What is stored as it is stays so: no other page of a batch has its title.
LEMMA HeldStays ==
  ASSUME TypeOK, PlaceInv, CopiesInv, Quiet, UNCHANGED wiki, NEW p \in Pages, Exists(p), Held(p)
  PROVE  Held(p)'
<1>1. AsIs(p)' = AsIs(p)
  BY DEF AsIs
<1>2. CASE UNCHANGED <<raw_page, txn>>
  BY <1>2 DEF Held, AsIs
<1>3. CASE Start \/ Finish
  BY <1>1, <1>3 DEF Start, Finish, Close, Exit, Working, db, Held
<1>4. CASE ClearMoved
  <2>1. p \notin Cleared
    BY DEF Cleared, Held, AsIs, CopiesInv, PlaceInv, WikiTitles, InBatch, Exists
  <2>2. txn'.page[p] = txn.page[p] /\ raw_page' = raw_page
    BY <1>4, <2>1 DEF ClearMoved, TypeOK, db
  <2> QED
    BY <1>1, <2>2 DEF Held
<1>5. ASSUME NEW q \in Pages, Upsert(q), ~Collides(q)
      PROVE  Held(p)'
  <2>1. txn'.page[p] = (IF p = q THEN RowAt(p) ELSE txn.page[p]) /\ raw_page' = raw_page
    BY <1>5 DEF Upsert, Aborted, TypeOK, db
  <2>2. p = q => RowAt(p) = AsIs(p)
    BY <1>5, SavedAsIs DEF Upsert
  <2> QED
    BY <1>1, <2>1, <2>2 DEF Held
<1>6. CASE ReplaceCategories
  <2>1. txn'.page = txn.page /\ raw_page' = raw_page
    BY <1>6 DEF ReplaceCategories, TypeOK, db
  <2> QED
    BY <1>1, <2>1 DEF Held
<1>7. CASE Commit
  BY <1>1, <1>7 DEF Commit, Held
<1>8. ListingEnds \/ NamespaceEnds \/ Fetch \/ RedirectsEnd \/ SaveRedirects \/ (\E q \in Pages : List(q) \/ ListRedirects(q))
         \/ UNCHANGED vars => UNCHANGED <<raw_page, txn>>
  BY DEF ListingEnds, NamespaceEnds, Fetch, PartialResponse, LastResponse, RedirectsEnd, SaveRedirects, List, ListRedirects, Local, vars, db
<1> QED
  BY <1>2, <1>3, <1>4, <1>5, <1>6, <1>7, <1>8 DEF Quiet

\* A page whose stored revision is the listed one is stored as it is.
LEMMA StartCopies ==
  ASSUME TypeOK, PlaceInv, Start
  PROVE  CopiesInv'
<1>1. /\ UNCHANGED <<wiki, raw_page, batch>> /\ txn'.page = raw_page /\ pc' = "list" /\ InBatch' = {}
      /\ crawl'.found = NoRedirects
      /\ crawl'.known = [p \in Pages |-> IF raw_page[p] = NoRow THEN NoRow ELSE raw_page[p].rev]
  BY DEF Start, Working, db, NewCrawl, PlaceInv, InBatch
<1>2. ASSUME NEW p \in Pages, Exists(p)', crawl'.known[p] = wiki'[p].rev
      PROVE  Held(p)'
  <2>1. wiki[p] \in LivePage /\ Exists(p)
    BY <1>1, <1>2 DEF Exists, TypeOK
  <2>2. raw_page[p] # NoRow
    BY <1>1, <1>2, <2>1, MarksAssumption DEF LivePage
  <2>3. raw_page[p] \in Row /\ raw_page[p].rev = wiki[p].rev /\ raw_page[p].title = wiki[p].title
    BY <1>1, <1>2, <2>1, <2>2 DEF TypeOK, PlaceInv, Named
  <2>4. raw_page[p] = AsIs(p)
    BY <2>3 DEF Row, AsIs
  <2> QED
    BY <1>1, <2>4 DEF Held, AsIs
<1>3. \A q \in Pages : Exists(q)' => crawl'.found[wiki'[q].title] = NoTitle
  BY <1>1 DEF NoRedirects, Exists, TypeOK, LivePage
<1> QED
  BY <1>1, <1>2, <1>3 DEF CopiesInv

\* What becomes of the crawl's locals that a run reads once, or in one phase.
LEMMA LocalsStep ==
  ASSUME TypeOK, Quiet, ~Start
  PROVE  /\ \A p \in Pages : crawl'.known[p] \in {crawl.known[p], NoRow}
         /\ crawl'.found \in {crawl.found, NoRedirects} \/ \E p \in Pages : ListRedirects(p)
         /\ crawl'.bodies \in {crawl.bodies, 0} \/ Fetch
<1>1. CASE Finish
  BY <1>1 DEF Finish, Close, Exit, NewCrawl, NoRows
<1>2. ASSUME NEW p \in Pages, List(p)
      PROVE  crawl'.known = crawl.known /\ crawl'.found = crawl.found /\ crawl'.bodies = crawl.bodies
  BY <1>2 DEF List, TypeOK, Crawl
<1>3. CASE ListingEnds \/ NamespaceEnds \/ RedirectsEnd
  BY <1>3 DEF ListingEnds, NamespaceEnds, RedirectsEnd, NewListing, TypeOK, Crawl
<1>4. CASE Fetch \/ Commit
  BY <1>4 DEF Fetch, PartialResponse, LastResponse, Commit, TypeOK, Crawl
<1>5. CASE SaveRedirects
  BY <1>5 DEF SaveRedirects, NewListing, TypeOK, Crawl
<1>6. ASSUME NEW p \in Pages, ListRedirects(p)
      PROVE  crawl'.known = crawl.known /\ crawl'.bodies = crawl.bodies
  BY <1>6 DEF ListRedirects, TypeOK, Crawl
<1>7. CASE ClearMoved \/ ReplaceCategories \/ (\E p \in Pages : Upsert(p) /\ ~Collides(p)) \/ UNCHANGED vars
  <2>1. UNCHANGED crawl
    BY <1>7 DEF ClearMoved, ReplaceCategories, Upsert, Aborted, vars
  <2> QED
    BY <2>1
<1> QED
  BY <1>1, <1>2, <1>3, <1>4, <1>5, <1>6, <1>7 DEF Quiet

\* By the time the bodies of some pages are in, so are those pages.
LEMMA ResponseGives ==
  ASSUME TypeOK, NEW p \in Pages, Sighted(p), NEW bodies \in Nat, bodies >= crawl.bodies, NEW parts,
         p <= bodies, p <= crawl.bodies => batch[p] # NoPage /\ batch[p].rev # 0
  PROVE  AfterResponse(p, bodies, parts) # NoPage /\ AfterResponse(p, bodies, parts).rev # 0
<1>1. AfterResponse(p, bodies, parts) = Updated(p, bodies, parts)
  BY DEF AfterResponse
<1>2. Updated(p, bodies, parts) # NoPage
  BY UpdatedType, MarksAssumption
<1>3. wiki[p].rev \in Revs /\ wiki[p].rev # 0
  BY DEF Sighted, Exists, TypeOK, LivePage, Revs
<1>4. p \in Nat /\ crawl.bodies \in Nat /\ NumPages \in Nat
  BY HarvestAssumption DEF HarvestAssumption, Pages, TypeOK, Crawl
<1> DEFINE entry == IF batch[p] = NoPage THEN FirstSight(p) ELSE batch[p]
           body == entry.rev = 0 /\ p \in (crawl.bodies + 1)..bodies
<1>5. Updated(p, bodies, parts).rev = IF body THEN wiki[p].rev ELSE entry.rev
  BY DEF Updated
<1>6. entry.rev = 0 => body
  BY <1>4
<1> HIDE DEF entry, body
<1> QED
  BY <1>1, <1>2, <1>3, <1>5, <1>6

LEMMA CopiesStep ==
  ASSUME TypeOK, TypeOK', PlaceInv, PlaceInv', CopiesInv, still, still', Quiet, UNCHANGED wiki, ~Start
  PROVE  CopiesInv'
<1>1. ASSUME NEW p \in Pages, Exists(p)', crawl'.known[p] \in {crawl.known[p], NoRow}, crawl'.known[p] = wiki'[p].rev
      PROVE  Held(p)'
  <2>1. Exists(p) /\ wiki[p].rev # NoRow
    BY <1>1, MarksAssumption DEF Exists, TypeOK, LivePage
  <2> QED
    BY <1>1, <2>1, HeldStays DEF CopiesInv
<1>2. \A p \in Pages : crawl'.known[p] \in {crawl.known[p], NoRow}
  BY LocalsStep
<1>3. \A p \in InBatch' : /\ Exists(p)' /\ batch'[p].title = wiki'[p].title
                          /\ batch'[p].rev \in {0, wiki'[p].rev}
  <2>1. CASE Fetch
    BY <2>1, FetchTakes DEF Taken, Sighted, Exists, CopiesInv, InBatch
  <2>2. CASE UNCHANGED batch
    BY <2>2 DEF CopiesInv, InBatch, Exists
  <2>3. CASE batch' = Nothing
    BY <2>3 DEF Nothing, InBatch
  <2> QED
    BY <2>1, <2>2, <2>3 DEF Quiet, Finish, Close, Exit, ListingEnds, NamespaceEnds, ClearMoved,
     ReplaceCategories, Commit, RedirectsEnd, SaveRedirects, List, Upsert, Aborted, ListRedirects, vars, Local
<1>4. ASSUME NEW q \in Pages, Exists(q)', crawl'.found[wiki'[q].title] # NoTitle
      PROVE  crawl'.found[wiki'[q].title] = wiki'[q].to
  <2>1. Exists(q) /\ wiki[q] \in LivePage
    BY <1>4 DEF Exists, TypeOK
  <2>2. CASE crawl'.found = crawl.found
    BY <1>4, <2>1, <2>2 DEF CopiesInv
  <2>3. CASE crawl'.found = NoRedirects
    BY <1>4, <2>1, <2>3 DEF NoRedirects, LivePage
  <2>4. ASSUME NEW p \in Pages, ListRedirects(p)
        PROVE  crawl'.found[wiki'[q].title] = wiki'[q].to
    <3>1. PICK from \in SUBSET SourcesOf(p) :
            crawl'.found = [t \in Titles |-> IF t \in from THEN wiki[p].title ELSE crawl.found[t]]
      BY <2>4 DEF ListRedirects, TypeOK, Crawl
    <3>2. CASE wiki[q].title \in from
      <4>1. wiki[q].title \in SourcesOf(p)
        BY <3>2
      <4>2. PICK r \in Pages : Exists(r) /\ wiki[r].to = wiki[p].title /\ wiki[r].title = wiki[q].title
        BY <4>1 DEF SourcesOf
      <4>3. r = q
        BY <2>1, <4>2 DEF PlaceInv, WikiTitles
      <4> QED
        BY <2>1, <3>1, <3>2, <4>2, <4>3 DEF LivePage
    <3>3. CASE wiki[q].title \notin from
      BY <1>4, <2>1, <3>1, <3>3 DEF CopiesInv, LivePage
    <3> QED
      BY <3>2, <3>3
  <2> QED
    BY <2>2, <2>3, <2>4, LocalsStep
<1>6. pc = "fetch" => Fetch \/ UNCHANGED vars
  BY DEF Quiet, Finish, ListingEnds, NamespaceEnds, ClearMoved, ReplaceCategories, Commit, RedirectsEnd,
     SaveRedirects, List, Upsert, ListRedirects
<1>5. ASSUME pc' = "fetch", NEW p \in 1..crawl'.bodies, Sighted(p)'
      PROVE  p \in InBatch' /\ batch'[p].rev # 0
  <2>1. CASE pc # "fetch"
    <3>1. crawl'.bodies = 0
      BY <2>1, LocalsStep DEF Fetch, PartialResponse, LastResponse, PlaceInv
    <3> QED
      BY <1>5, <3>1
  <2>2. CASE Fetch
    <3>1. PICK stop \in Cuts : /\ stop[1] >= crawl.bodies
                              /\ batch' = [r \in Pages |-> AfterResponse(r, stop[1], stop[2])]
                              /\ crawl' = [crawl EXCEPT !.bodies = stop[1], !.parts = stop[2]]
      <4>1. ~LastResponse
        BY <1>5 DEF LastResponse
      <4> QED
        BY <2>2, <4>1 DEF Fetch, PartialResponse
    <3>2. crawl'.bodies = stop[1] /\ crawl'.pending = crawl.pending
      BY <3>1 DEF TypeOK, Crawl
    <3>3. NumPages \in Nat /\ stop[1] \in 0..NumPages /\ crawl.bodies \in 0..NumPages
      <4>1. NumPages \in Nat /\ stop \in (0..NumPages) \X (1..(2 * NumPages))
        BY HarvestAssumption DEF HarvestAssumption
      <4>2. crawl.bodies \in 0..NumPages
        <5>1. crawl.bodies \in Pages \cup {0}
          BY DEF TypeOK, Crawl
        <5> QED
          BY <4>1, <5>1 DEF Pages
      <4>3. stop[1] \in 0..NumPages
        BY <4>1
      <4> QED
        BY <4>1, <4>2, <4>3
    <3>4. p \in Pages /\ p <= stop[1] /\ stop[1] \in Nat /\ (p <= crawl.bodies => p \in 1..crawl.bodies)
      BY <1>5, <3>2, <3>3 DEF Pages
    <3>5. Sighted(p)
      BY <1>5, <3>2 DEF Sighted, Exists
    <3>6. p <= crawl.bodies => batch[p] # NoPage /\ batch[p].rev # 0
      BY <2>2, <3>4, <3>5 DEF CopiesInv, InBatch, Fetch, PartialResponse, LastResponse
    <3>7. batch'[p] = AfterResponse(p, stop[1], stop[2])
      BY <3>1, <3>4
    <3> QED
      BY <3>1, <3>4, <3>5, <3>6, <3>7, ResponseGives DEF InBatch
  <2>3. CASE UNCHANGED vars
    BY <1>5, <2>3 DEF vars, CopiesInv, InBatch, Sighted, Exists
  <2> QED
    BY <1>6, <2>1, <2>2, <2>3
<1>7. ASSUME pc' = "fetch", NEW p \in InBatch'
      PROVE  wiki'[p].title \in crawl'.pending
  <2>1. CASE pc # "fetch"
    <3>1. pc = "list" /\ UNCHANGED batch
      BY <1>7, <2>1 DEF Quiet, Start, Finish, Close, Exit, ListingEnds, NamespaceEnds, Fetch, PartialResponse,
         LastResponse, ClearMoved, ReplaceCategories, Commit, RedirectsEnd, SaveRedirects, List, Upsert,
         Aborted, Unwind, ListRedirects, vars, Local
    <3> QED
      BY <1>7, <3>1 DEF PlaceInv, InBatch
  <2>2. CASE Fetch
    <3>1. crawl'.pending = crawl.pending /\ pc = "fetch"
      BY <1>7, <2>2 DEF Fetch, PartialResponse, LastResponse, TypeOK, Crawl
    <3>2. Taken(p) /\ p \in Pages /\ batch'[p] # NoPage
      BY <1>7, <2>2, FetchTakes DEF InBatch
    <3> QED
      BY <3>1, <3>2 DEF Taken, Sighted, CopiesInv, InBatch
  <2>3. CASE UNCHANGED vars
    BY <1>7, <2>3 DEF vars, CopiesInv, InBatch
  <2> QED
    BY <1>6, <2>1, <2>2, <2>3
<1> QED
  BY <1>1, <1>2, <1>3, <1>4, <1>5, <1>7 DEF CopiesInv

-----------------------------------------------------------------------------
\* One step of a run without --limit, of a wiki that does not change.
Context ==
    /\ TypeOK /\ TypeOK' /\ PlaceInv /\ PlaceInv' /\ CopiesInv /\ CopiesInv' /\ FullInv
    /\ Quiet /\ UNCHANGED wiki /\ limit = 0

LEMMA SameWiki ==
  ASSUME UNCHANGED wiki
  PROVE  \A p, q \in Pages : /\ Exists(p)' <=> Exists(p)
                             /\ Wanted(p)' <=> Wanted(p)
                             /\ Onto(q, p)' <=> Onto(q, p)
                             /\ wiki'[p].title = wiki[p].title
BY DEF Exists, IsArticle, Wanted, Onto

LEMMA WantedExists ==
  ASSUME TypeOK, NEW p \in Pages, Wanted(p)
  PROVE  Exists(p) /\ IsArticle(p) /\ wiki[p].title \in Titles /\ wiki[p].title # NoTitle
BY HarvestAssumption DEF HarvestAssumption, Wanted, IsArticle, Exists, TypeOK, LivePage

LEMMA Numbers ==
  ASSUME TypeOK
  PROVE  /\ Len(Namespaces) \in Nat \ {0} /\ crawl.ns \in 1..Len(Namespaces) /\ crawl.cursor \in Nat
         /\ \A p \in Pages : Exists(p) => wiki[p].title \in Nat \ {0}
<1>1. Len(Namespaces) \in Nat \ {0}
  BY HarvestAssumption, LenProperties, EmptySeq DEF HarvestAssumption
<1>2. crawl.ns \in 1..Len(Namespaces) /\ crawl.cursor \in 1..(NumTitles + 1)
  BY DEF TypeOK, Crawl
<1>3. \A p \in Pages : Exists(p) => wiki[p].title \in 1..NumTitles
  BY DEF Exists, TypeOK, LivePage, Titles
<1> QED
  BY <1>1, <1>2, <1>3, HarvestAssumption DEF HarvestAssumption

\* Once a listing is through, it has passed every page of its namespace.
LEMMA AllPassed ==
  ASSUME TypeOK, Ahead = {}, NEW p \in Pages, Wanted(p),
         \E i \in 1..crawl.ns : NamespaceOf[wiki[p].title] = Namespaces[i]
  PROVE  Passed(p)
<1>1. PICK i \in 1..crawl.ns : NamespaceOf[wiki[p].title] = Namespaces[i]
  OBVIOUS
<1>2. crawl.ns \in Nat /\ crawl.cursor \in Nat /\ Exists(p) /\ IsArticle(p) /\ wiki[p].title \in Nat
  BY Numbers, WantedExists
<1>3. CASE i = crawl.ns
  <2>1. p \notin Ahead /\ InNamespace(wiki[p].title) /\ p \in Articles
    BY <1>1, <1>2, <1>3 DEF InNamespace, Articles
  <2>2. wiki[p].title < crawl.cursor
    BY <1>2, <2>1 DEF Ahead
  <2> QED
    BY <2>1, <2>2 DEF Passed
<1>4. CASE i # crawl.ns
  <2>1. i \in 1..(crawl.ns - 1)
    BY <1>2, <1>4
  <2> QED
    BY <1>1, <2>1 DEF Passed
<1> QED
  BY <1>3, <1>4

\* What a new listing has passed are the namespaces before its own.
LEMMA NewListingPassed ==
  ASSUME TypeOK, TypeOK', UNCHANGED wiki, Ahead = {},
         crawl'.ns = IF LastNamespace THEN 1 ELSE crawl.ns + 1, crawl'.cursor = 1,
         NEW p \in Pages, Wanted(p)
  PROVE  /\ Passed(p)' => Passed(p)
         /\ LastNamespace => Passed(p)
<1>1. /\ crawl.ns \in Nat /\ Len(Namespaces) \in Nat /\ crawl.ns \in 1..Len(Namespaces)
      /\ wiki[p].title \in Nat \ {0}
  BY Numbers, WantedExists
<1>2. ASSUME LastNamespace PROVE Passed(p)
  BY <1>2, AllPassed DEF Wanted, LastNamespace
<1>3. ASSUME Passed(p)' PROVE Passed(p)
  <2>1. PICK i \in 1..(crawl'.ns - 1) : NamespaceOf[wiki[p].title] = Namespaces[i]
    BY <1>1, <1>3 DEF Passed
  <2>2. ~LastNamespace /\ i \in 1..crawl.ns
    BY <1>1, <2>1
  <2> QED
    BY <2>1, <2>2, AllPassed
<1> QED
  BY <1>2, <1>3

\* What a listing has passed with the next title is the page of that title.
LEMMA NextPassed ==
  ASSUME TypeOK, PlaceInv, UNCHANGED wiki, NEW p \in Pages, NextListed(p),
         crawl'.ns = crawl.ns, crawl'.cursor = After(wiki[p].title),
         NEW q \in Pages, Wanted(q), Passed(q)'
  PROVE  Passed(q) \/ q = p
<1>1. /\ crawl.cursor \in Nat /\ Exists(p) /\ Exists(q) /\ wiki[p].title \in Nat /\ wiki[q].title \in Nat
      /\ IsArticle(q)
  BY Numbers, WantedExists DEF NextListed, Ahead, Articles, IsArticle
<1>2. CASE InNamespace(wiki[q].title) /\ wiki[q].title < After(wiki[p].title) /\ ~(wiki[q].title < crawl.cursor)
  <2>1. q \in Ahead
    BY <1>1, <1>2 DEF Ahead, Articles
  <2>2. wiki[p].title <= wiki[q].title
    BY <2>1 DEF NextListed
  <2>3. wiki[p].title = wiki[q].title
    BY <1>1, <1>2, <2>2 DEF After
  <2> QED
    BY <1>1, <2>3 DEF PlaceInv, WikiTitles
<1> QED
  BY <1>2 DEF Passed, InNamespace

LEMMA FullStart ==
  ASSUME TypeOK, PlaceInv, Start
  PROVE  FullInv'
<1>1. /\ pc' = "list" /\ crawl'.ns = 1 /\ crawl'.cursor = 1 /\ crawl'.done = FALSE /\ UNCHANGED wiki
  BY DEF Start, NewCrawl
<1>2. \A p \in Pages : Wanted(p)' => ~Passed(p)'
  <2>1. \A p \in Pages : Wanted(p)' => wiki[p].title \in Nat \ {0}
    BY <1>1, Numbers, WantedExists, SameWiki
  <2>2. \A n \in Nat \ {0} : ~(n < 1)
    OBVIOUS
  <2>3. 1..(1 - 1) = {}
    OBVIOUS
  <2> QED
    BY <1>1, <2>1, <2>2, <2>3 DEF Passed
<1> QED
  BY <1>1, <1>2 DEF FullInv

LEMMA FullList ==
  ASSUME Context, NEW p \in Pages, List(p)
  PROVE  FullInv'
<1>1. /\ pc = "list" /\ pc' \in {"list", "fetch"} /\ NextListed(p)
      /\ crawl'.ns = crawl.ns /\ crawl'.cursor = After(wiki[p].title) /\ crawl'.done = FALSE
      /\ crawl'.pending = crawl.pending \cup
             (IF Keep(wiki[p].title) /\ crawl.known[p] # wiki[p].rev THEN {wiki[p].title} ELSE {})
  BY DEF Context, List, TypeOK, Crawl
<1>2. ASSUME NEW q \in Pages, Wanted(q), Passed(q)'
      PROVE  wiki'[q].title \in crawl'.pending \/ q \in InBatch' \/ Held(q)'
  <2>1. Exists(q)
    BY <1>2, WantedExists DEF Context
  <2>2. Held(q) => Held(q)'
    BY <2>1, HeldStays DEF Context
  <2>3. InBatch = {}
    BY <1>1 DEF Context, PlaceInv
  <2>4. CASE Passed(q)
    BY <1>1, <1>2, <2>2, <2>3, <2>4 DEF Context, FullInv, Counting
  <2>5. CASE q = p
    BY <1>1, <1>2, <2>1, <2>2, <2>5 DEF Context, CopiesInv, Keep, Wanted
  <2> QED
    BY <1>1, <1>2, <2>4, <2>5, NextPassed DEF Context
<1> QED
  BY <1>1, <1>2, SameWiki DEF Context, FullInv, Counting

LEMMA FullFetch ==
  ASSUME Context, Fetch
  PROVE  FullInv'
<1>1. /\ pc = "fetch" /\ pc' \in {"fetch", "list", "clear"}
      /\ crawl'.ns = crawl.ns /\ crawl'.cursor = crawl.cursor /\ crawl'.done = crawl.done
      /\ crawl'.pending = crawl.pending \/ LastResponse
  <2>1. CASE PartialResponse
    BY <2>1 DEF PartialResponse, Context, TypeOK, Crawl
  <2>2. CASE LastResponse
    BY <2>2 DEF LastResponse, Context, TypeOK, Crawl
  <2> QED
    BY <2>1, <2>2 DEF Fetch
<1>2. ASSUME NEW q \in InBatch
      PROVE  q \in Pages /\ Sighted(q)
  BY <1>1, <1>2 DEF Context, CopiesInv, InBatch, Sighted
<1>3. ASSUME LastResponse, NEW q \in Pages, Sighted(q)
      PROVE  q \in InBatch'
  <2>1. NumPages \in Nat /\ q \in 1..NumPages /\ crawl.bodies \in 0..NumPages
    <3>1. NumPages \in Nat /\ q \in 1..NumPages
      BY HarvestAssumption DEF HarvestAssumption, Pages
    <3>2. crawl.bodies \in Pages \cup {0}
      BY DEF Context, TypeOK, Crawl
    <3> QED
      BY <3>1, <3>2 DEF Pages
  <2>2. q <= crawl.bodies => batch[q] # NoPage /\ batch[q].rev # 0
    <3>1. q <= crawl.bodies => q \in 1..crawl.bodies
      BY <2>1
    <3> QED
      BY <1>1, <1>3, <3>1 DEF Context, CopiesInv, InBatch
  <2>3. NumPages >= crawl.bodies /\ q <= NumPages
    BY <2>1
  <2>4. TypeOK
    BY DEF Context
  <2>5. /\ AfterResponse(q, NumPages, 2 * NumPages) # NoPage
        /\ AfterResponse(q, NumPages, 2 * NumPages).rev # 0
    BY <1>3, <2>1, <2>2, <2>3, <2>4, ResponseGives
  <2>6. batch'[q] = AfterResponse(q, NumPages, 2 * NumPages)
    BY <1>3, <2>5 DEF LastResponse, Bodied
  <2> QED
    BY <2>5, <2>6 DEF InBatch
<1>4. ASSUME PartialResponse, NEW q \in InBatch
      PROVE  q \in InBatch'
  <2>1. PICK stop \in Cuts : batch' = [r \in Pages |-> AfterResponse(r, stop[1], stop[2])]
    BY <1>4 DEF PartialResponse
  <2>2. batch'[q] = Updated(q, stop[1], stop[2])
    BY <1>2, <1>4, <2>1 DEF AfterResponse
  <2> QED
    BY <1>2, <1>4, <2>2, UpdatedType, MarksAssumption DEF Context, InBatch
<1>5. ASSUME NEW q \in Pages, Wanted(q), Passed(q)'
      PROVE  wiki'[q].title \in crawl'.pending \/ q \in InBatch' \/ Held(q)'
  <2>1. Exists(q) /\ Passed(q)
    BY <1>1, <1>5, WantedExists DEF Context, Passed, InNamespace
  <2>2. Held(q) => Held(q)'
    BY <2>1, HeldStays DEF Context
  <2>3. q \in InBatch => q \in InBatch'
    BY <1>2, <1>3, <1>4 DEF Fetch
  <2>4. wiki[q].title \in crawl.pending => wiki'[q].title \in crawl'.pending \/ q \in InBatch'
    BY <1>1, <1>3, <2>1 DEF Context, Sighted
  <2> QED
    BY <1>1, <1>5, <2>1, <2>2, <2>3, <2>4 DEF Context, FullInv, Counting
<1>6. Ahead' = Ahead
  BY <1>1 DEF Context, Ahead, Articles, IsArticle, Exists, InNamespace
<1> QED
  BY <1>1, <1>5, <1>6, SameWiki DEF Context, FullInv, Counting

LEMMA FullListingEnds ==
  ASSUME Context, ListingEnds
  PROVE  FullInv'
<1>1. /\ pc = "list" /\ pc' = "list" /\ Ahead = {} /\ UNCHANGED <<raw_page, txn, batch>>
      /\ crawl'.ns = crawl.ns /\ crawl'.cursor = crawl.cursor /\ crawl'.pending = crawl.pending
  BY DEF Context, ListingEnds, Local, db, TypeOK, Crawl
<1>2. \A q \in Pages : /\ Passed(q)' <=> Passed(q)
                       /\ Held(q)' <=> Held(q)
                       /\ q \in InBatch' <=> q \in InBatch
  BY <1>1 DEF Context, Passed, InNamespace, Held, AsIs, InBatch
<1>3. Ahead' = Ahead
  BY <1>1 DEF Context, Ahead, Articles, IsArticle, Exists, InNamespace
<1>4. \A q \in Pages : Wanted(q) /\ Passed(q) => wiki[q].title \in crawl.pending \/ q \in InBatch \/ Held(q)
  BY <1>1 DEF Context, FullInv, Counting
<1> QED
  BY <1>1, <1>2, <1>3, <1>4, SameWiki DEF Context, FullInv, Counting

LEMMA FullNamespaceEnds ==
  ASSUME Context, NamespaceEnds
  PROVE  FullInv'
<1>1. /\ pc = "list" /\ Ahead = {} /\ InBatch = {} /\ UNCHANGED <<wiki, raw_page, txn, batch>>
      /\ \A t \in Titles : crawl.found[t] = NoTitle
  BY DEF Context, NamespaceEnds, Local, db, FullInv, PlaceInv
<1>2. \A q \in Pages : Wanted(q) /\ Passed(q) => wiki[q].title \in crawl.pending \/ Held(q)
  BY <1>1 DEF Context, FullInv, Counting
<1>3. \A q \in Pages : Held(q)' <=> Held(q)
  BY <1>1 DEF Held, AsIs
<1>4. CASE UNCHANGED crawl /\ pc' = "fetch"
  <2>1. Ahead' = Ahead
    BY <1>1, <1>4 DEF Ahead, Articles, IsArticle, Exists, InNamespace
  <2>2. \A q \in Pages : Passed(q)' <=> Passed(q)
    BY <1>1, <1>4 DEF Passed, InNamespace
  <2> QED
    BY <1>1, <1>2, <1>3, <1>4, <2>1, <2>2, SameWiki DEF FullInv, Counting
<1>5. CASE ~(UNCHANGED crawl /\ pc' = "fetch")
  <2>1. /\ crawl.pending = {} /\ crawl'.pending = {} /\ crawl'.done = FALSE
        /\ crawl'.ns = (IF LastNamespace THEN 1 ELSE crawl.ns + 1) /\ crawl'.cursor = 1
        /\ pc' = IF LastNamespace THEN "redirects" ELSE "list"
    BY <1>5 DEF NamespaceEnds, Flush, NewListing, Context, TypeOK, Crawl
  <2>2. \A q \in Pages : Wanted(q) => (Passed(q)' => Passed(q)) /\ (LastNamespace => Passed(q))
    BY <1>1, <2>1, NewListingPassed DEF Context
  <2>3. \A q \in Pages : Wanted(q) /\ Passed(q) => Held(q)
    BY <1>2, <2>1
  <2>4. CASE LastNamespace
    <3>1. \A q \in Pages : Wanted(q) => ~Passed(q)'
      <4>1. \A q \in Pages : Wanted(q) => wiki[q].title \in Nat \ {0}
        BY Numbers, WantedExists DEF Context
      <4>2. \A n \in Nat \ {0} : ~(n < 1)
        OBVIOUS
      <4>3. 1..(1 - 1) = {}
        OBVIOUS
      <4> QED
        BY <1>1, <2>1, <2>4, <4>1, <4>2, <4>3 DEF Passed
    <3> QED
      BY <1>1, <1>3, <2>1, <2>2, <2>3, <2>4, <3>1, SameWiki DEF FullInv, Counting
  <2>5. CASE ~LastNamespace
    BY <1>1, <1>3, <2>1, <2>2, <2>3, <2>5, SameWiki DEF FullInv, Counting
  <2> QED
    BY <2>4, <2>5
<1> QED
  BY <1>4, <1>5

LEMMA FullSave ==
  ASSUME Context, ClearMoved \/ (\E p \in Pages : Upsert(p) /\ ~Collides(p)) \/ ReplaceCategories
  PROVE  FullInv'
<1>1. /\ pc \in {"clear", "upsert"} /\ pc' \in {"upsert", "commit"} /\ UNCHANGED <<wiki, crawl, batch>>
  BY DEF ClearMoved, Upsert, ReplaceCategories, Aborted
<1>2. \A q \in Pages : /\ Passed(q)' <=> Passed(q)
                       /\ q \in InBatch' <=> q \in InBatch
                       /\ Wanted(q) /\ Held(q) => Held(q)'
  BY <1>1, WantedExists, HeldStays DEF Context, Passed, InNamespace, InBatch
<1>3. Ahead' = Ahead
  BY <1>1 DEF Ahead, Articles, IsArticle, Exists, InNamespace
<1>4. \A q \in Pages : Wanted(q) /\ Passed(q) => wiki[q].title \in crawl.pending \/ q \in InBatch \/ Held(q)
  BY <1>1 DEF Context, FullInv, Counting
<1> QED
  BY <1>1, <1>2, <1>3, <1>4, SameWiki DEF Context, FullInv, Counting

LEMMA FullCommit ==
  ASSUME Context, Commit
  PROVE  FullInv'
<1>1. /\ pc = "commit" /\ pc' = "list" /\ UNCHANGED <<wiki, txn>> /\ raw_page' = txn.page
      /\ crawl'.ns = crawl.ns /\ crawl'.cursor = crawl.cursor /\ crawl'.pending = crawl.pending
      /\ crawl'.done = crawl.done
  BY DEF Context, Commit, TypeOK, Crawl
<1>2. \A q \in Pages : Wanted(q) /\ Held(q) => Held(q)'
  BY WantedExists, HeldStays DEF Context
<1>3. ASSUME NEW q \in InBatch
      PROVE  Held(q)'
  <2>1. RowAt(q) = AsIs(q) /\ txn.page[q] = RowAt(q)
    BY <1>1, <1>3, SavedAsIs DEF Context, PlaceInv
  <2>2. AsIs(q)' = AsIs(q) /\ txn'.page[q] = txn.page[q] /\ raw_page'[q] = txn.page[q]
    BY <1>1 DEF AsIs
  <2> QED
    BY <2>1, <2>2 DEF Held
<1>4. Ahead' = Ahead /\ \A q \in Pages : Passed(q)' <=> Passed(q)
  BY <1>1 DEF Ahead, Articles, IsArticle, Exists, InNamespace, Passed
<1>5. \A q \in Pages : Wanted(q) /\ Passed(q) => wiki[q].title \in crawl.pending \/ q \in InBatch \/ Held(q)
  BY <1>1 DEF Context, FullInv, Counting
<1> QED
  BY <1>1, <1>2, <1>3, <1>4, <1>5, SameWiki DEF Context, FullInv, Counting

LEMMA FullRedirectsEnd ==
  ASSUME Context, RedirectsEnd
  PROVE  FullInv'
<1>1. /\ pc = "redirects" /\ pc' = "save_redirects" /\ ~crawl.done /\ Ahead = {}
      /\ UNCHANGED <<wiki, crawl, raw_page, txn, redirects>>
  BY DEF RedirectsEnd, Local, db, Context, FullInv, Counting
<1>2. /\ Ahead' = Ahead
      /\ \A q \in Pages : (Passed(q)' <=> Passed(q)) /\ (Held(q)' <=> Held(q))
  BY <1>1 DEF Ahead, Articles, IsArticle, Exists, InNamespace, Passed, Held, AsIs
<1> QED
  BY <1>1, <1>2, SameWiki DEF Context, FullInv, Counting

LEMMA FullListRedirects ==
  ASSUME Context, NEW p \in Pages, ListRedirects(p)
  PROVE  FullInv'
<1>1. PICK from \in SUBSET SourcesOf(p) :
        /\ (limit # 0 /\ crawl.pairs + Cardinality(from) = limit) \/ from = SourcesOf(p)
        /\ crawl' = [crawl EXCEPT !.cursor = After(wiki[p].title), !.pairs = crawl.pairs + Cardinality(from),
                         !.done = limit # 0 /\ crawl.pairs + Cardinality(from) = limit,
                         !.found = [t \in Titles |-> IF t \in from THEN wiki[p].title ELSE @[t]]]
  BY DEF ListRedirects
<1>2. /\ pc = "redirects" /\ pc' = "redirects" /\ NextListed(p) /\ from = SourcesOf(p)
      /\ crawl'.ns = crawl.ns /\ crawl'.cursor = After(wiki[p].title) /\ crawl'.done = FALSE
      /\ crawl'.found = [t \in Titles |-> IF t \in from THEN wiki[p].title ELSE crawl.found[t]]
      /\ UNCHANGED <<wiki, raw_page, txn, redirects>>
  BY <1>1 DEF Context, ListRedirects, Local, db, TypeOK, Crawl
<1>3. ASSUME NEW r \in Pages, NEW q \in Pages, Wanted(r), Passed(r)', Onto(q, r)
      PROVE  wiki[r].title \in {crawl'.found[wiki[q].title], redirects[wiki[q].title]}
  <2>1. Exists(q) /\ wiki[q].title \in Titles /\ wiki[q].to = wiki[r].title
    BY <1>3 DEF Context, Onto, Exists, TypeOK, LivePage
  <2>2. CASE Passed(r)
    <3>1. wiki[r].title \in {crawl.found[wiki[q].title], redirects[wiki[q].title]}
      BY <1>2, <1>3, <2>2 DEF Context, FullInv
    <3>2. CASE wiki[q].title \in from
      <4>1. PICK s \in Pages : Exists(s) /\ wiki[s].to = wiki[p].title /\ wiki[s].title = wiki[q].title
        BY <1>2, <3>2 DEF SourcesOf
      <4>2. s = q
        BY <2>1, <4>1 DEF Context, PlaceInv, WikiTitles
      <4> QED
        BY <1>2, <2>1, <3>2, <4>1, <4>2
    <3>3. CASE wiki[q].title \notin from
      BY <1>2, <2>1, <3>1, <3>3
    <3> QED
      BY <3>2, <3>3
  <2>3. CASE r = p
    <3>1. wiki[q].title \in SourcesOf(p)
      BY <1>2, <1>3, <2>1, <2>3 DEF SourcesOf, Onto, Wanted, InNamespace, NextListed, Ahead, Articles
    <3> QED
      BY <1>2, <2>1, <2>3, <3>1
  <2> QED
    BY <1>2, <1>3, <2>2, <2>3, NextPassed DEF Context
<1>4. \A q \in Pages : Held(q)' <=> Held(q)
  BY <1>2 DEF Held, AsIs
<1> QED
  BY <1>2, <1>3, <1>4, SameWiki DEF Context, FullInv, Counting

LEMMA FullSaveRedirects ==
  ASSUME Context, SaveRedirects
  PROVE  FullInv'
<1>1. /\ pc = "save_redirects" /\ Ahead = {} /\ UNCHANGED <<wiki, raw_page, txn>>
      /\ redirects' = [t \in Titles |-> IF crawl.found[t] = NoTitle THEN redirects[t] ELSE crawl.found[t]]
      /\ pc' = IF LastNamespace THEN "close" ELSE "redirects"
  BY DEF SaveRedirects, Context, FullInv
<1>2. /\ crawl'.done = FALSE /\ crawl'.cursor = 1
      /\ crawl'.ns = (IF LastNamespace THEN 1 ELSE crawl.ns + 1)
  BY DEF SaveRedirects, NewListing, Context, TypeOK, Crawl
<1>3. \A q \in Pages : Wanted(q) => (Passed(q)' => Passed(q)) /\ (LastNamespace => Passed(q))
  BY <1>1, <1>2, NewListingPassed DEF Context
<1>4. ASSUME NEW r \in Pages, NEW q \in Pages, Wanted(r), Passed(r), Onto(q, r)
      PROVE  redirects'[wiki[q].title] = wiki[r].title
  <2>1. Exists(q) /\ wiki[q].title \in Titles /\ wiki[q].to = wiki[r].title /\ wiki[r].title # NoTitle
    BY <1>4, WantedExists DEF Context, Onto, Exists, TypeOK, LivePage
  <2>2. wiki[r].title \in {crawl.found[wiki[q].title], redirects[wiki[q].title]}
    BY <1>1, <1>4 DEF Context, FullInv
  <2>3. crawl.found[wiki[q].title] # NoTitle => crawl.found[wiki[q].title] = wiki[q].to
    BY <2>1 DEF Context, CopiesInv
  <2> QED
    BY <1>1, <2>1, <2>2, <2>3
<1>5. \A q \in Pages : Held(q)' <=> Held(q)
  BY <1>1 DEF Held, AsIs
<1>6. \A q \in Pages : Wanted(q) => Held(q)
  BY <1>1 DEF Context, FullInv
<1> QED
  BY <1>1, <1>2, <1>3, <1>4, <1>5, <1>6, SameWiki DEF FullInv, Counting

LEMMA FullFinish ==
  ASSUME Context, Finish
  PROVE  FullInv'
<1>1. /\ pc = "close" /\ pc' = "idle" /\ crawl'.done = FALSE /\ UNCHANGED <<wiki, redirects>>
  BY DEF Finish, Close, Exit, NewCrawl, db
<1>2. \A q \in Pages : Wanted(q) /\ Held(q) => Held(q)'
  BY WantedExists, HeldStays DEF Context
<1> QED
  BY <1>1, <1>2, SameWiki DEF Context, FullInv, Counting

LEMMA FullStep ==
  ASSUME Context, ~Start
  PROVE  FullInv'
<1>1. CASE UNCHANGED vars
  <2>1. UNCHANGED <<wiki, redirects, raw_page, txn, pc, crawl, batch>>
    BY <1>1 DEF vars, db
  <2>2. /\ Ahead' = Ahead /\ InBatch' = InBatch
        /\ \A q \in Pages : (Passed(q)' <=> Passed(q)) /\ (Held(q)' <=> Held(q))
    BY <2>1 DEF Ahead, Articles, IsArticle, Exists, InNamespace, Passed, Held, AsIs, InBatch
  <2> QED
    BY <2>1, <2>2, SameWiki DEF Context, FullInv
<1>2. CASE ~(UNCHANGED vars)
  BY <1>2, FullList, FullFetch, FullListingEnds, FullNamespaceEnds, FullSave, FullCommit, FullRedirectsEnd,
     FullListRedirects, FullSaveRedirects, FullFinish DEF Context, Quiet
<1> QED
  BY <1>1, <1>2

\* A run after a complete one, of the same wiki, has every wanted page's revision.
LEMMA SettledStart ==
  ASSUME MirrorInv, TypeOK, Start
  PROVE  SettledInv'
<1> SUFFICES ASSUME settled' PROVE SettledInv'
  BY DEF SettledInv
<1>1. /\ pc = "idle" /\ still /\ limit = 0 /\ UNCHANGED wiki /\ still' /\ pc' = "list" /\ crawl'.pending = {}
      /\ crawl'.known = [p \in Pages |-> IF raw_page[p] = NoRow THEN NoRow ELSE raw_page[p].rev]
  BY DEF Start, NewCrawl
<1>2. ASSUME NEW p \in Pages, Wanted(p)
      PROVE  crawl'.known[p] = wiki[p].rev
  <2>1. raw_page[p] = AsIs(p) /\ wiki[p] \in LivePage
    BY <1>1, <1>2, WantedExists DEF MirrorInv, FullInv, Held, TypeOK, Exists
  <2>2. AsIs(p) \in Row
    BY <2>1 DEF AsIs, LivePage, Row
  <2> QED
    BY <1>1, <2>1, <2>2, MarksAssumption DEF AsIs
<1> QED
  BY <1>1, <1>2, SameWiki DEF SettledInv

LEMMA SettledList ==
  ASSUME TypeOK, SettledInv, settled, NEW p \in Pages, List(p)
  PROVE  crawl'.pending = {} /\ crawl'.known = crawl.known
<1>1. /\ NextListed(p) /\ crawl'.known = crawl.known
      /\ crawl'.pending = crawl.pending \cup
             (IF Keep(wiki[p].title) /\ crawl.known[p] # wiki[p].rev THEN {wiki[p].title} ELSE {})
  BY DEF List, TypeOK, Crawl
<1>2. Keep(wiki[p].title) => Wanted(p)
  <2>1. crawl.ns \in 1..Len(Namespaces)
    BY Numbers
  <2> QED
    BY <1>1, <2>1 DEF NextListed, Ahead, Articles, InNamespace, Keep, Wanted
<1> QED
  BY <1>1, <1>2 DEF SettledInv

LEMMA SettledStep ==
  ASSUME TypeOK, SettledInv, Quiet, ~Start, UNCHANGED wiki
  PROVE  SettledInv'
<1> SUFFICES ASSUME settled' PROVE SettledInv'
  BY DEF SettledInv
<1>1. CASE UNCHANGED vars
  <2>1. UNCHANGED <<wiki, still, settled, pc, crawl>>
    BY <1>1 DEF vars
  <2> QED
    BY <2>1, SameWiki DEF SettledInv
<1>2. CASE ~(UNCHANGED vars)
  <2>1. ~Finish /\ settled /\ UNCHANGED still /\ pc' # "idle"
    BY <1>2 DEF Quiet, Finish, Close, Exit, ListingEnds, NamespaceEnds, Fetch, PartialResponse, LastResponse, ClearMoved, ReplaceCategories,
       Commit, RedirectsEnd, SaveRedirects, List, Upsert, Aborted, ListRedirects, Local, SettledInv
  <2>2. ASSUME NEW p \in Pages, List(p)
        PROVE  crawl'.pending = {} /\ crawl'.known = crawl.known
    BY <2>1, <2>2, SettledList
  <2>3. ASSUME ListingEnds \/ RedirectsEnd \/ Commit \/ Fetch
        PROVE  crawl'.pending = {} /\ crawl'.known = crawl.known
    BY <2>1, <2>3 DEF ListingEnds, RedirectsEnd, Commit, Fetch, PartialResponse, LastResponse, TypeOK, Crawl, SettledInv
  <2>4. ASSUME NamespaceEnds \/ SaveRedirects
        PROVE  crawl'.pending = {} /\ crawl'.known = crawl.known
    BY <2>1, <2>4 DEF NamespaceEnds, SaveRedirects, NewListing, TypeOK, Crawl, SettledInv
  <2>5. ASSUME ClearMoved \/ ReplaceCategories \/ \E p \in Pages : Upsert(p) /\ ~Collides(p)
        PROVE  crawl'.pending = {} /\ crawl'.known = crawl.known
    BY <2>1, <2>5 DEF ClearMoved, ReplaceCategories, Upsert, Aborted, SettledInv
  <2>6. ASSUME NEW p \in Pages, ListRedirects(p)
        PROVE  crawl'.pending = {} /\ crawl'.known = crawl.known
    BY <2>1, <2>6 DEF ListRedirects, TypeOK, Crawl, SettledInv
  <2>7. crawl'.pending = {} /\ crawl'.known = crawl.known
    <3>1. settled => crawl.pending = {}
      BY DEF SettledInv
    <3> QED
      BY <1>2, <2>1, <2>2, <2>3, <2>4, <2>5, <2>6, <3>1 DEF Quiet
  <2> QED
    BY <2>1, <2>7, SameWiki DEF SettledInv
<1> QED
  BY <1>1, <1>2

LEMMA MirrorStep == TypeOK /\ TypeOK' /\ MirrorInv /\ [Next]_vars => MirrorInv'
<1> SUFFICES ASSUME TypeOK, TypeOK', MirrorInv, [Next]_vars PROVE MirrorInv'
  OBVIOUS
<1>1. PlaceInv'
  BY PlaceStep DEF MirrorInv
<1>2. ASSUME ~still' PROVE MirrorInv'
  <2>1. ~settled'
    BY <1>2, Zenon DEF MirrorInv, SettledInv, Next, CrawlStep, Start, Finish, FinishError, Close, Exit, ListingEnds,
       NamespaceEnds, Fetch, PartialResponse, LastResponse, ClearMoved, ReplaceCategories, Commit, RedirectsEnd, SaveRedirects, List, Upsert,
       Aborted, Unwind, ListRedirects, WikiChanges, WikiStep, Kill, ApiFails, DbFails, Local, vars
  <2> QED
    BY <1>1, <1>2, <2>1 DEF MirrorInv, SettledInv
<1>3. ASSUME still' PROVE MirrorInv'
  <2>1. Quiet /\ UNCHANGED wiki /\ (Start \/ (still /\ limit' = limit))
    BY <1>3, StillIsQuiet
  <2>2. CASE Start
    <3>1. CopiesInv' /\ FullInv' /\ SettledInv'
      BY <2>2, StartCopies, FullStart, SettledStart DEF MirrorInv
    <3> QED
      BY <1>1, <3>1 DEF MirrorInv
  <2>3. CASE ~Start
    <3>1. CopiesInv /\ CopiesInv' /\ SettledInv'
      BY <1>1, <1>3, <2>1, <2>3, CopiesStep, SettledStep DEF MirrorInv
    <3>2. limit = 0 => FullInv'
      <4>1. limit = 0 => Context
        BY <1>1, <2>1, <2>3, <3>1 DEF Context, MirrorInv
      <4> QED
        BY <2>3, <4>1, FullStep
    <3> QED
      BY <1>1, <2>1, <2>3, <3>1, <3>2 DEF MirrorInv
  <2> QED
    BY <2>2, <2>3
<1> QED
  BY <1>2, <1>3

LEMMA MirrorHolds == Spec => []MirrorInv
BY MirrorInit, MirrorStep, TypeCorrect, PTL DEF Spec

\* After a complete crawl of a wiki that stood still, every wanted article is
\* stored as it is and every redirect onto it points to it, whatever the runs
\* before it stored, skipped or lost.
THEOREM MirroredCorrect == Spec => []Mirrored
<1>1. TypeOK /\ MirrorInv => Mirrored
  <2> SUFFICES ASSUME TypeOK, MirrorInv, Complete, NEW p \in Pages, Wanted(p)
               PROVE  /\ raw_page[p] = AsIs(p)
                      /\ \A q \in Pages : Onto(q, p) => redirects[wiki[q].title] = wiki[p].title
    BY DEF Mirrored, AsIs, Onto
  <2>1. FullInv /\ pc = "idle"
    BY DEF MirrorInv, Complete
  <2> QED
    BY <2>1 DEF FullInv, Held
<1> QED
  BY <1>1, MirrorHolds, TypeCorrect, PTL

\* A run that follows a complete one, of a wiki nobody has changed since, puts
\* no title aside to fetch.
THEOREM RerunFetchesNothingCorrect == Spec => []RerunFetchesNothing
<1>1. MirrorInv => RerunFetchesNothing
  BY DEF MirrorInv, SettledInv, RerunFetchesNothing
<1> QED
  BY <1>1, MirrorHolds, PTL
=============================================================================
