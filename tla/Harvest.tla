------------------------------- MODULE Harvest -------------------------------
(***************************************************************************)
(* The crawl: one wiki mirrored into raw_page, raw_category and            *)
(* raw_redirect by Crawler.run (harvest/crawl.py) through                  *)
(* PostgresHarvestStore (harvest/postgres.py), while editors go on         *)
(* editing, moving, redirecting and deleting pages.                        *)
(*                                                                         *)
(* Every API response is a moment of its own: the catalogue is paged, a    *)
(* batch is fetched BY TITLE after it was listed, and its answer may take  *)
(* several responses, with a page's body in one and its categories in      *)
(* others.  One save is one transaction of several statements.             *)
(*                                                                         *)
(* Titles are numbered in the order allpages lists them.  Page bodies are  *)
(* their revision ids; categories are the stamp of the change that last    *)
(* touched them, and a page's categories are answered in at most two parts *)
(* (Parts, a bound).                                                       *)
(***************************************************************************)
EXTENDS Naturals, Sequences, FiniteSets

CONSTANTS
    NumPages,       \* page ids are 1..NumPages
    NumTitles,      \* titles are 1..NumTitles
    Translated,     \* the titles TranslationFilter.is_translation drops
    Namespaces,     \* the profile's crawl_namespaces, a sequence
    NamespaceOf,    \* the namespace of each title
    BatchSize,      \* CONTENT_BATCH
    Limits,         \* what --limit of each run may be: pages kept per namespace, 0 for no limit
    Cuts,           \* where a response of a fetch may stop: <<bodies, category parts>> given so far
    TemplateEdits,  \* whether a template can change a page's categories
    Failures,       \* what may go wrong: "api", "db", "kill"
    MaxRev,         \* bound: the wiki's last revision id
    MaxRuns,        \* bound: crawls in a behaviour
    NoPage, NoTitle, NoRow

Pages == 1..NumPages
Titles == 1..NumTitles

ASSUME HarvestAssumption ==
    /\ NumPages \in Nat \ {0} /\ NumTitles \in Nat
    /\ Translated \subseteq Titles
    /\ Namespaces \in Seq(Nat) /\ Namespaces # <<>>
    /\ NamespaceOf \in [Titles -> Nat]
    /\ BatchSize \in Nat \ {0}
    /\ MaxRev \in Nat /\ MaxRuns \in Nat
    /\ Cuts \subseteq (0..NumPages) \X (1..(2 * NumPages)) /\ TemplateEdits \in BOOLEAN
    /\ Failures \subseteq {"api", "db", "kill"}
    /\ NoTitle \notin Titles

ASSUME LimitsAssumption == Limits \in [1..MaxRuns -> SUBSET Nat]

VARIABLES
    wiki,       \* the live wiki: page id -> [title, rev, to, cats] or NoPage
    now,        \* its last revision id
    raw_page,   \* committed: page id -> [title, rev] or NoRow
    raw_cats,   \* committed: page id -> its stored categories [of, stamps, since] or NoRow
    redirects,  \* committed: raw_redirect, from title -> to title or NoTitle
    runs,       \* crawl_run: a sequence of [ended, fetched]
    limit,      \* --limit of the last run
    txn,        \* the open transaction's view: [page, cats], and whether it failed
    pc,         \* where the crawler is
    crawl,      \* the locals of Crawler.run and _crawl_namespace
    batch,      \* pages fetched and not saved yet: page id -> its copy or NoPage
    still,      \* history: the wiki has not changed since the run started
    settled,    \* history: nor since the start of a successful run without --limit before it
    saved,      \* history: pages this run has committed
    cut         \* history: this run was killed, or the database refused it a statement

db == <<raw_page, raw_cats, redirects>>
vars == <<wiki, now, db, runs, limit, txn, pc, crawl, batch, still, settled, saved, cut>>

Revs == 1..MaxRev
LivePage == [title : Titles, rev : Revs, to : Titles \cup {NoTitle}, cats : Revs]

\* An entry of _fetch: no body while rev is 0; the stamps of the categories read
\* so far; history: the revision that every response so far found, 0 if they differ.
Copy == [title : Titles, rev : Revs \cup {0}, cats : SUBSET Revs, since : Revs \cup {0}]

Row == [title : Titles, rev : Revs]

\* The categories of a page; histories: the body they were saved with, and the
\* revision its whole fetch found.
Categories == [of : Revs, stamps : SUBSET Revs, since : Revs \cup {0}]
Parts == 1..(2 * NumPages)
Crawl == [ns : 1..Len(Namespaces), cursor : 1..(NumTitles + 1), done : BOOLEAN,
          known : [Pages -> Revs \cup {NoRow}], pending : SUBSET Titles, kept : Nat,
          bodies : Pages \cup {0}, parts : Parts \cup {0}, fetched : Nat, tally : Nat, found : [Titles -> Titles \cup {NoTitle}], pairs : Nat]
ASSUME MarksAssumption == NoPage \notin LivePage \cup Copy /\ NoRow \notin Row \cup Revs \cup Categories

Steps == {"idle", "list", "fetch", "clear", "upsert", "commit",
          "redirects", "save_redirects", "close", "close_error"}

TypeOK ==
    /\ wiki \in [Pages -> LivePage \cup {NoPage}]
    /\ now \in 0..MaxRev
    /\ raw_page \in [Pages -> Row \cup {NoRow}]
    /\ raw_cats \in [Pages -> Categories \cup {NoRow}]
    /\ redirects \in [Titles -> Titles \cup {NoTitle}]
    /\ runs \in Seq([ended : {"no", "ok", "error"}, fetched : Nat])
    /\ limit \in Nat
    /\ txn \in [page : [Pages -> Row \cup {NoRow}], cats : [Pages -> Categories \cup {NoRow}],
                failed : BOOLEAN]
    /\ pc \in Steps
    /\ crawl \in Crawl
    /\ batch \in [Pages -> Copy \cup {NoPage}]
    /\ pc # "fetch" => \A p \in Pages : batch[p] # NoPage => batch[p].rev # 0
    /\ still \in BOOLEAN /\ settled \in BOOLEAN
    /\ saved \in Nat /\ cut \in BOOLEAN

Nothing == [p \in Pages |-> NoPage]
NoRows == [p \in Pages |-> NoRow]
NoRedirects == [t \in Titles |-> NoTitle]
NewCrawl == [ns |-> 1, cursor |-> 1, done |-> FALSE, known |-> NoRows, pending |-> {}, kept |-> 0,
             bodies |-> 0, parts |-> 0, fetched |-> 0, tally |-> 0, found |-> NoRedirects, pairs |-> 0]

Init ==
    /\ wiki = Nothing /\ now = 0
    /\ raw_page = NoRows /\ raw_cats = NoRows /\ redirects = NoRedirects
    /\ runs = <<>> /\ limit = 0
    /\ txn = [page |-> NoRows, cats |-> NoRows, failed |-> FALSE]
    /\ pc = "idle" /\ crawl = NewCrawl /\ batch = Nothing
    /\ still = FALSE /\ settled = FALSE /\ saved = 0 /\ cut = FALSE

-----------------------------------------------------------------------------
(* The wiki.  It changes at any time; only its API responses are visible,  *)
(* so changing it while the crawler talks to Postgres adds nothing.        *)

Exists(p) == wiki[p] # NoPage
IsArticle(p) == Exists(p) /\ wiki[p].to = NoTitle
At(t) == {p \in Pages : Exists(p) /\ wiki[p].title = t}

WikiStep ==
    /\ pc \in {"idle", "list", "fetch", "redirects"}
    /\ now < MaxRev
    /\ now' = now + 1
    /\ still' = FALSE /\ settled' = FALSE
    /\ UNCHANGED <<db, runs, limit, txn, pc, crawl, batch, saved, cut>>

\* A new page, or a deleted one brought back under its id.
Create(p, t) ==
    /\ ~Exists(p) /\ At(t) = {}
    /\ wiki' = [wiki EXCEPT ![p] = [title |-> t, rev |-> now', to |-> NoTitle, cats |-> now']]

Edit(p) == IsArticle(p) /\ wiki' = [wiki EXCEPT ![p].rev = now', ![p].cats = now']

\* A template the page uses changes: its categories do too, its revision does not.
EditTemplate(p) == TemplateEdits /\ IsArticle(p) /\ wiki' = [wiki EXCEPT ![p].cats = now']

MakeRedirect(p, t) ==
    /\ IsArticle(p) /\ wiki[p].title # t
    /\ wiki' = [wiki EXCEPT ![p].rev = now', ![p].cats = now', ![p].to = t]

Delete(p) == Exists(p) /\ wiki' = [wiki EXCEPT ![p] = NoPage]

\* A move is a new revision of the page at its new title, over a redirect if
\* one is there, and may leave a redirect (a new page, r) at the old one.
Move(p, t, left) ==
    /\ IsArticle(p) /\ wiki[p].title # t
    /\ \A q \in At(t) : wiki[q].to = wiki[p].title
    /\ left \subseteq {r \in Pages : ~Exists(r)} /\ Cardinality(left) <= 1
    /\ wiki' = [q \in Pages |->
         IF q = p THEN [wiki[p] EXCEPT !.title = t, !.rev = now', !.cats = now']
         ELSE IF q \in left THEN [title |-> wiki[p].title, rev |-> now', to |-> t, cats |-> now']
         ELSE IF q \in At(t) THEN NoPage ELSE wiki[q]]

WikiChanges ==
    /\ WikiStep
    /\ \E p \in Pages :
         \/ Edit(p)
         \/ EditTemplate(p)
         \/ Delete(p)
         \/ \E t \in Titles : \/ Create(p, t)
                              \/ MakeRedirect(p, t)
                              \/ \E left \in SUBSET (Pages \ {p}) : Move(p, t, left)

-----------------------------------------------------------------------------
(* Starting and ending a run.                                              *)

Working == [page |-> raw_page, cats |-> raw_cats, failed |-> FALSE]

LastRunOk == runs # <<>> /\ runs[Len(runs)].ended = "ok"

StartForgets ==                                                     \* mutant
    /\ pc = "idle" /\ Len(runs) < MaxRuns
    /\ runs' = Append(runs, [ended |-> "no", fetched |-> 0])
    /\ \E n \in Limits[Len(runs) + 1] : limit' = n
    /\ crawl' = NewCrawl
    /\ pc' = "list"
    /\ txn' = Working
    /\ still' = TRUE /\ settled' = (still /\ LastRunOk /\ limit = 0) /\ saved' = 0 /\ cut' = FALSE
    /\ UNCHANGED <<wiki, now, db, batch>>

\* start_run commits its row, then known_revisions is read once.
Start ==
    /\ pc = "idle" /\ Len(runs) < MaxRuns
    /\ runs' = Append(runs, [ended |-> "no", fetched |-> 0])
    /\ \E n \in Limits[Len(runs) + 1] : limit' = n
    /\ crawl' = [NewCrawl EXCEPT !.known =
           [p \in Pages |-> IF raw_page[p] = NoRow THEN NoRow ELSE raw_page[p].rev]]
    /\ pc' = "list"
    /\ txn' = Working
    /\ still' = TRUE /\ settled' = (still /\ LastRunOk /\ limit = 0) /\ saved' = 0 /\ cut' = FALSE
    /\ UNCHANGED <<wiki, now, db, batch>>

\* The process is gone, or the command exits: what was not committed is not
\* there.  The histories go on only after a run that ended well.
Exit(well) ==
    /\ pc' = "idle"
    /\ crawl' = NewCrawl /\ batch' = Nothing
    /\ txn' = Working
    /\ limit' = IF well THEN limit ELSE 0
    /\ saved' = IF well THEN saved ELSE 0
    /\ still' = (well /\ still) /\ settled' = FALSE
    /\ UNCHANGED <<wiki, now, db>>

Close(how) ==
    /\ runs' = [runs EXCEPT ![Len(runs)] = [ended |-> how, fetched |-> crawl.tally]]
    /\ Exit(how = "ok") /\ UNCHANGED cut

Finish == pc = "close" /\ Close("ok")

\* finish_run(error) runs in whatever transaction the exception left behind.
FinishError ==
    /\ pc = "close_error"
    /\ \/ ~txn.failed /\ Close("error")
       \/ txn.failed /\ Exit(FALSE) /\ UNCHANGED <<runs, cut>>

Kill == "kill" \in Failures /\ pc # "idle" /\ Exit(FALSE) /\ cut' = TRUE /\ UNCHANGED runs

ApiFailsUnhandled ==                                                \* mutant
    "api" \in Failures /\ pc \in {"list", "fetch", "redirects"} /\ Exit(FALSE) /\ UNCHANGED <<runs, cut>>

\* An exception leaves the namespace's locals behind; the run's tally is still there.
Unwind ==
    /\ pc' = "close_error"
    /\ crawl' = [NewCrawl EXCEPT !.tally = crawl.tally]
    /\ batch' = Nothing
    /\ saved' = 0 /\ still' = FALSE /\ settled' = FALSE
    /\ UNCHANGED <<wiki, now, db, runs, limit>>

\* The API gives up (client.py has already retried).
ApiFails ==
    /\ "api" \in Failures /\ pc \in {"list", "fetch", "redirects"}
    /\ Unwind /\ UNCHANGED <<txn, cut>>

\* A statement is refused, and the transaction with it.
Aborted == Unwind /\ txn' = [Working EXCEPT !.failed = TRUE] /\ cut' = TRUE

DbFails ==
    /\ "db" \in Failures
    /\ \/ pc \in {"clear", "upsert", "commit", "save_redirects"} /\ Aborted
       \/ pc = "close" /\ Exit(FALSE) /\ cut' = TRUE /\ UNCHANGED runs

-----------------------------------------------------------------------------
(* _crawl_namespace.                                                       *)

InNamespace(t) == NamespaceOf[t] = Namespaces[crawl.ns]
Articles == {p \in Pages : IsArticle(p) /\ InNamespace(wiki[p].title)}
Ahead == {p \in Articles : wiki[p].title >= crawl.cursor}
NextListed(p) == p \in Ahead /\ \A q \in Ahead : wiki[p].title <= wiki[q].title

Local == UNCHANGED <<wiki, now, db, runs, limit, txn, batch, still, settled, saved, cut>>

Keep(t) == t \notin Translated

StayPut(t) == t                                                     \* mutant

\* The continuation of a listing that has given title t.
After(t) == t + 1

\* One catalogue entry: skip a translation, skip a page whose stored revision
\* is the listed one, put the others aside; fetch when a batch is full.
List(p) ==
    LET t == wiki[p].title
        kept == crawl.kept + (IF Keep(t) THEN 1 ELSE 0)
        wanted == Keep(t) /\ crawl.known[p] # wiki[p].rev
        pending == crawl.pending \cup (IF wanted THEN {t} ELSE {})
    IN  /\ pc = "list" /\ ~crawl.done /\ NextListed(p)
        /\ crawl' = [crawl EXCEPT !.cursor = After(t), !.kept = kept, !.pending = pending,
                                  !.done = Keep(t) /\ limit # 0 /\ kept >= limit]
        /\ pc' = IF wanted /\ Cardinality(pending) >= BatchSize THEN "fetch" ELSE "list"
        /\ Local

ListingEnds ==
    /\ pc = "list" /\ ~crawl.done /\ Ahead = {}
    /\ crawl' = [crawl EXCEPT !.done = TRUE]
    /\ UNCHANGED pc /\ Local

FullBatchOnly == Cardinality(crawl.pending) >= BatchSize            \* mutant

\* The last, partial batch.
Flush == crawl.pending # {}

\* The next namespace of a pass, or the first one of the next pass.
NewListing(last) ==
    [crawl EXCEPT !.ns = IF last THEN 1 ELSE @ + 1, !.cursor = 1, !.done = FALSE]

LastNamespace == crawl.ns = Len(Namespaces)

TallyOfLastNamespace ==                                             \* mutant
    /\ pc = "list" /\ crawl.done
    /\ \/ Flush /\ pc' = "fetch" /\ UNCHANGED crawl
       \/ /\ ~Flush
          /\ crawl' = [NewListing(LastNamespace) EXCEPT !.pending = {}, !.kept = 0, !.fetched = 0,
                                                        !.tally = crawl.fetched]
          /\ pc' = IF LastNamespace THEN "redirects" ELSE "list"
    /\ Local

\* A namespace ends when nothing is pending, and its tally is merged.
NamespaceEnds ==
    /\ pc = "list" /\ crawl.done
    /\ \/ Flush /\ pc' = "fetch" /\ UNCHANGED crawl
       \/ /\ ~Flush
          /\ crawl' = [NewListing(LastNamespace) EXCEPT !.pending = {}, !.kept = 0, !.fetched = 0,
                                                        !.tally = @ + crawl.fetched]
          /\ pc' = IF LastNamespace THEN "redirects" ELSE "list"
    /\ Local

\* What a response says of the pending titles, redirect pages included.
Sighted(p) == Exists(p) /\ wiki[p].title \in crawl.pending

\* The response carries the category parts crawl.parts + 1 to parts.
PartOf(p, parts) == {2 * p - 1, 2 * p} \cap (crawl.parts + 1)..parts # {}

\* The entry of a page the fetch has not met before.
FirstSight(p) ==
    [title |-> wiki[p].title, rev |-> 0, cats |-> {},
     since |-> IF crawl.parts = 0 THEN wiki[p].rev ELSE 0]

\* A page keeps the first body it is given; its categories accumulate.
Updated(p, bodies, parts) ==
    LET entry == IF batch[p] = NoPage THEN FirstSight(p) ELSE batch[p]
        body == entry.rev = 0 /\ p \in (crawl.bodies + 1)..bodies
    IN  [title |-> IF body THEN wiki[p].title ELSE entry.title,
         rev   |-> IF body THEN wiki[p].rev ELSE entry.rev,
         cats  |-> entry.cats \cup (IF PartOf(p, parts) THEN {wiki[p].cats} ELSE {}),
         since |-> IF entry.since = wiki[p].rev THEN entry.since ELSE 0]

AfterResponse(p, bodies, parts) ==
    IF Sighted(p) THEN Updated(p, bodies, parts)
    ELSE IF batch[p] = NoPage THEN NoPage ELSE [batch[p] EXCEPT !.since = 0]

\* _to_raw_page: an entry that was given no body is dropped.
Bodied(entry) == IF entry # NoPage /\ entry.rev # 0 THEN entry ELSE NoPage

\* One response of _fetch: the bodies of some more pages, in page id order, and
\* some more parts of their categories.  The titles are looked up anew by each
\* response: a page may come late, without its body or its categories, or leave,
\* and a title may be answered twice, when another page has taken it meanwhile.
PartialResponse ==
    /\ pc = "fetch"
    /\ \E stop \in Cuts :
         /\ stop[1] >= crawl.bodies /\ stop[2] >= crawl.parts
         /\ stop # <<crawl.bodies, crawl.parts>> /\ stop # <<NumPages, 2 * NumPages>>
         /\ batch' = [p \in Pages |-> AfterResponse(p, stop[1], stop[2])]
         /\ crawl' = [crawl EXCEPT !.bodies = stop[1], !.parts = stop[2]]
    /\ UNCHANGED <<wiki, now, db, runs, limit, txn, pc, still, settled, saved, cut>>

LastResponse ==
    /\ pc = "fetch"
    /\ batch' = [p \in Pages |-> Bodied(AfterResponse(p, NumPages, 2 * NumPages))]
    /\ crawl' = [crawl EXCEPT !.bodies = 0, !.parts = 0, !.pending = {}]
    /\ pc' = IF batch' = Nothing THEN "list" ELSE "clear"
    /\ UNCHANGED <<wiki, now, db, runs, limit, txn, still, settled, saved, cut>>

Fetch == PartialResponse \/ LastResponse

-----------------------------------------------------------------------------
(* PostgresHarvestStore.save_pages, one statement at a time.               *)

InBatch == {p \in Pages : batch[p] # NoPage}
RowAt(p) == [title |-> batch[p].title, rev |-> batch[p].rev]
Upserted == {p \in InBatch : txn.page[p] = RowAt(p)}

\* _CLEAR_MOVED_TITLE: rows of other pages that hold a title of the batch.
Cleared == {q \in Pages : /\ txn.page[q] # NoRow
                          /\ \E p \in InBatch \ {q} : batch[p].title = txn.page[q].title}

ClearNothing ==                                                     \* mutant
    /\ pc = "clear"
    /\ pc' = "upsert"
    /\ UNCHANGED <<wiki, now, db, runs, limit, txn, crawl, batch, still, settled, saved, cut>>

ClearMoved ==
    /\ pc = "clear"
    /\ txn' = [txn EXCEPT !.page = [q \in Pages |-> IF q \in Cleared THEN NoRow ELSE @[q]]]
    /\ pc' = "upsert"
    /\ UNCHANGED <<wiki, now, db, runs, limit, crawl, batch, still, settled, saved, cut>>

\* raw_page_title_idx is unique.
Collides(p) == \E q \in Pages \ {p} : txn.page[q] # NoRow /\ txn.page[q].title = batch[p].title

UpsertAutocommits(p) ==                                             \* mutant
    /\ pc = "upsert" /\ p \in InBatch \ Upserted
    /\ \/ Collides(p) /\ Aborted
       \/ /\ ~Collides(p)
          /\ txn' = [txn EXCEPT !.page[p] = RowAt(p)]
          /\ raw_page' = txn'.page
          /\ UNCHANGED <<wiki, now, raw_cats, redirects, runs, limit, pc, crawl, batch, still, settled, saved, cut>>

Upsert(p) ==
    /\ pc = "upsert" /\ p \in InBatch \ Upserted
    /\ \/ Collides(p) /\ Aborted
       \/ /\ ~Collides(p)
          /\ txn' = [txn EXCEPT !.page[p] = RowAt(p)]
          /\ UNCHANGED <<wiki, now, db, runs, limit, pc, crawl, batch, still, settled, saved, cut>>

CategoriesOf(p) == [of |-> batch[p].rev, stamps |-> batch[p].cats, since |-> batch[p].since]

ReplaceCategories ==
    /\ pc = "upsert" /\ Upserted = InBatch
    /\ txn' = [txn EXCEPT !.cats = [p \in Pages |-> IF p \in InBatch THEN CategoriesOf(p) ELSE @[p]]]
    /\ pc' = "commit"
    /\ UNCHANGED <<wiki, now, db, runs, limit, crawl, batch, still, settled, saved, cut>>

Commit ==
    /\ pc = "commit"
    /\ raw_page' = txn.page /\ raw_cats' = txn.cats
    /\ saved' = saved + Cardinality(InBatch)
    /\ crawl' = [crawl EXCEPT !.fetched = @ + Cardinality(InBatch)]
    /\ batch' = Nothing
    /\ pc' = "list"
    /\ UNCHANGED <<wiki, now, redirects, runs, limit, txn, still, settled, cut>>

-----------------------------------------------------------------------------
(* _crawl_redirects.                                                       *)

\* The redirects onto article p, from its own namespace, neither end translated.
SourcesOf(p) ==
    IF wiki[p].title \in Translated THEN {}
    ELSE {wiki[q].title : q \in {q \in Pages : /\ Exists(q) /\ wiki[q].to = wiki[p].title
                                               /\ InNamespace(wiki[q].title)
                                               /\ wiki[q].title \notin Translated}}

\* One target of the listing; islice cuts the pairs at the limit.
ListRedirects(p) ==
    /\ pc = "redirects" /\ ~crawl.done /\ NextListed(p)
    /\ \E from \in SUBSET SourcesOf(p) :
         LET pairs == crawl.pairs + Cardinality(from)
             full == limit # 0 /\ pairs = limit
         IN  /\ full \/ from = SourcesOf(p)
             /\ limit # 0 => pairs <= limit
             /\ crawl' = [crawl EXCEPT !.cursor = After(wiki[p].title), !.pairs = pairs, !.done = full,
                              !.found = [t \in Titles |-> IF t \in from THEN wiki[p].title ELSE @[t]]]
    /\ UNCHANGED pc /\ Local

RedirectsEnd ==
    /\ pc = "redirects" /\ (crawl.done \/ Ahead = {})
    /\ pc' = "save_redirects"
    /\ UNCHANGED crawl /\ Local

\* save_redirects upserts and never deletes.
SaveRedirects ==
    /\ pc = "save_redirects"
    /\ redirects' = [t \in Titles |-> IF crawl.found[t] = NoTitle THEN redirects[t] ELSE crawl.found[t]]
    /\ pc' = IF LastNamespace THEN "close" ELSE "redirects"
    /\ crawl' = [NewListing(LastNamespace) EXCEPT !.found = NoRedirects, !.pairs = 0]
    /\ UNCHANGED <<wiki, now, raw_page, raw_cats, runs, limit, txn, batch, still, settled, saved, cut>>

-----------------------------------------------------------------------------
CrawlStep ==
    \/ Finish \/ FinishError \/ ListingEnds \/ NamespaceEnds \/ Fetch
    \/ ClearMoved \/ ReplaceCategories \/ Commit \/ RedirectsEnd \/ SaveRedirects
    \/ \E p \in Pages : List(p) \/ Upsert(p) \/ ListRedirects(p)

Next == Start \/ CrawlStep \/ WikiChanges \/ Kill \/ ApiFails \/ DbFails

Spec == Init /\ [][Next]_vars

\* A crawl that has been started is a loop nobody suspends.
FairSpec == Spec /\ WF_vars(CrawlStep)

-----------------------------------------------------------------------------
\* The categories were saved with this body; and they are there, all read no
\* earlier than that revision was made, unless the page itself was changed while
\* it was being fetched.
WholePage(row, cats) ==
    /\ cats # NoRow /\ cats.of = row.rev
    /\ cats.since # 0 => /\ cats.since = row.rev
                        /\ cats.stamps # {}
                        /\ \A stamp \in cats.stamps : stamp >= row.rev

\* "a crawl can be interrupted and resumed without ... a half-written page".
NoHalfWrittenPage == \A p \in Pages : raw_page[p] # NoRow => WholePage(raw_page[p], raw_cats[p])

\* What _CLEAR_MOVED_TITLE is for: a page of a save meets its title in another
\* page's row only if the batch itself has two pages of that title (a fetch in
\* several responses, and a move between them).
SavesNeverCollide ==
    pc = "upsert" => \A p \in InBatch \ Upserted :
        Collides(p) => \E q \in InBatch \ {p} : batch[q].title = batch[p].title

\* Translated subpages never reach the store.
NoTranslationStored == \A p \in Pages : raw_page[p] # NoRow => raw_page[p].title \notin Translated

\* A complete crawl, of a wiki that did not change meanwhile.
Complete == pc = "idle" /\ still /\ LastRunOk /\ limit = 0

Wanted(p) ==
    /\ IsArticle(p)
    /\ wiki[p].title \notin Translated
    /\ \E i \in 1..Len(Namespaces) : NamespaceOf[wiki[p].title] = Namespaces[i]

\* After a complete crawl every wanted article is stored as it is, and every
\* redirect onto one points where it does, whatever earlier runs were cut
\* short, missed or skipped.
Mirrored ==
    Complete => \A p \in Pages : Wanted(p) =>
        /\ raw_page[p] = [title |-> wiki[p].title, rev |-> wiki[p].rev]
        /\ \A q \in Pages :
             /\ Exists(q) /\ wiki[q].to = wiki[p].title
             /\ wiki[q].title \notin Translated
             /\ NamespaceOf[wiki[q].title] = NamespaceOf[wiki[p].title]
             => redirects[wiki[q].title] = wiki[p].title

\* "on a re-run ... fetched should be zero": nothing is pending in a run that
\* follows a successful one with the wiki unchanged since.
RerunFetchesNothing == settled => crawl.pending = {}

\* store.py, finish_run: "Close the run, recording its tally and how it ended".
RunsAreClosed == pc = "idle" => \A i \in 1..Len(runs) : runs[i].ended # "no"

\* What is true of it: a run that was not killed and that the database refused
\* nothing is closed, however the API failed it ...
UncutRunsAreClosed ==
    pc = "idle" /\ runs # <<>> /\ ~cut => runs[Len(runs)].ended # "no"

\* ... and the tally of one that went well is what it stored, over all its
\* namespaces.
TallyOfSuccess == pc = "idle" /\ LastRunOk => runs[Len(runs)].fetched = saved

\* A crawl ends.
CrawlEnds == pc # "idle" ~> pc = "idle"
=============================================================================
