# Ragtorio, specified

TLA+ models of [Ragtorio](../src/README.md), a pipeline that mirrors a
crafting-game wiki into Postgres, builds a graph and a search index from it, and
answers questions over HTTP with checked citations. The modules are translated
from `src/src/ragtorio/` (paths below are relative to it). TLC checks them on
small instances, and TLAPS proves what matters most for all values of the constants.

    tlc -workers 2 -config MCServing.cfg MCServing.tla
    tlapm ServingProofs.tla

`PROJECT.json` lists the runs, the source lines behind every definition (`map`),
a seeded bug that each property catches (`mutants`), and the hazards the properties are for.

## The system

The corpus is built by commands run one after another; a server then answers from it.

    wiki API --harvest--> raw_page, raw_category, raw_redirect
                             |--extract--> fact --graph load--> Neo4j
                             `--index build------------------------------> chunk
    question --cap--> route --> graph + search --> merge --> answer --> reader
                                     `--> routing_log

| component | state | operations | what is hard | correct when |
|---|---|---|---|---|
| **Request cap** `api/ratelimit.py` | deque of hits per client, a lock | `check`, `_evict` | called from many threads; clock read outside the lock | the cap holds from both sides, `Retry-After` is honest |
| **Server question path** `api/app.py`, `retrieve/pipeline.py`, `retrieve/log.py`, `index/postgres.py` | one psycopg connection and its transaction; `routing_log` | `/ask`, `/health` | threads end each other's transaction; a swallowed error leaves it failed | every answer logged, logging fails nobody, nothing left open |
| **Streamed answer** `api/app.py` | queue, worker thread, outcome | `_stream` | two threads, a reader who leaves | tokens in order, one last event, nobody blocks for ever |
| **Answer loop** `answer/pipeline.py`, `answer/validate.py` | conversation, last check | `answer_from`, `validate` | regeneration; loop variables of different attempts | the answer's verdict is about the answer's text |
| **Crawler** `harvest/crawl.py` | locals of one run | `run`, `_crawl_namespace`, `_fetch`, `_crawl_redirects` | the wiki changes between listing and fetch, and between the responses of one fetch; API failures | after a complete crawl the mirror is exact; a re-run fetches nothing |
| **Harvest store** `harvest/postgres.py`, `db/schema.sql` | `crawl_run`, `raw_*` tables, a transaction | `start_run`, `save_pages`, `save_redirects`, `finish_run` | kill or refused statement between two statements; unique title index | no half-written page, saves that do not collide, runs closed |
| **MediaWiki client** `harvest/client.py` | next call time, retry count | `acquire`, `request`, `query_paged` | spacing, retries, continuation | calls are spaced, giving up surfaces, a listing comes once |
| **Fact extraction** `extract/` | `fact` | `extract`, `replace_all` | one field failing; replacing while reading | facts of exactly the current pages |
| **Entity resolution** `ontology/resolve.py`, `canonical.py` | none (pure) | `resolve` | stale redirects, item/recipe split | one node per thing, no invented target |
| **Graph load and check** `ontology/load.py`, `check.py` | Neo4j | `load`, `check_graph` | MERGE on top of an older graph | the graph is what was resolved |
| **Recipe tree** `ontology/recipe_tree.py`, `retrieve/graph.py`, `answer/render.py` | none (a query) | `recipe_tree`, `raw_totals`, two renderings, `consumers_of` | cycles, depth cut-offs, an unstated amount | every leaf counted once; the log, the prompt and the other queries agree |
| **Index build** `index/chunk.py`, `build.py`, `embed.py`, `postgres.py` | `chunk` table and the width of its vectors | `build_index`, `ensure_embedding_dimension`, `replace_all` | packing to a budget; builds at once; width changed apart | the index is one build's, and a build is its articles |
| **Retrieval** `retrieve/pipeline.py`, `router.py`, `entities.py`, `vector.py`, `merge.py` | none (one question) | `route`, `resolve_all`, `run`, `merge` | downgrades, two searches of a table that is rewritten, a budget | honest evidence, within the budget |
| **Measures** `index/recall.py`, `retrieve/evaluate.py` | none (pure) | `evaluate`, `evaluate_router` | one search for every k, labels not indexed, nearest rank | the numbers mean what they are called |
| **Profiles, command line, probe, examples** `config.py`, `cli.py`, `harvest/probe.py`, `answer/examples.py` | none | parsing; one command per component; reports | - | - |

How they interact: commands share only the database. Within the server, worker
threads share the rate limiter (through its lock) and the Postgres connection
(through nothing). A streamed answer hands tokens from a worker to the response
through a queue. The crawler calls the client and the store, one after the other.
A question reads the `chunk` table while somebody may be rebuilding it.

## The modules

| module | models | state and actions in the code |
|---|---|---|
| `RateLimiter` | request cap | `tracked`, `seen` are the dict `_seen`; `ReadClock` is the call of `_clock` before the lock, `Enter` takes the lock and runs `_evict`, `PopExpired` one turn of the loop, and `Admit`, `Refuse`, `RaiseIndexError` the three ways out. `Tick` is the clock |
| `Serving` | question path | `txn` is psycopg's transaction status, `unsaved` the rows inserted and not committed. One action per point at which a thread uses the connection: `Search`, `SearchEnds` (its rollback), `Record`, `Commit`, `Probe`; `Route` and `Generate` do not touch it. `Execute`, `Fail`, `Refused`, `RollbackAll`, `CommitAll` are psycopg and the server |
| `Harvest` | crawler and store | `crawl` has the locals of `run` and `_crawl_namespace`, `batch` those of `_fetch`, `txn` what the open transaction sees. One action per catalogue entry (`List`, `ListRedirects`), response of a fetch (`Fetch`, which is `PartialResponse` or `LastResponse`) and SQL statement (`ClearMoved`, `Upsert`, `ReplaceCategories`, `Commit`, `SaveRedirects`); `WikiChanges` is everybody else |
| `WikiClient` | API client | `nextAllowed` is `_next_allowed`; `Acquire`, `Receive` (its outcomes `RetryLater`, `Raise`, `Succeed`), `Backoff`, `TryAgain`, `GiveUp` are the turns of `request`; `page` is the continuation |
| `Extraction` | fact extraction | operators: `Classify`, `FieldFacts`, `PageFacts`, `ExtractedFacts` follow `classify`, `_facts_for_field`, `_extract_page`, `extract` |
| `Resolution` | entity resolution | operators: `ItemId`, `RecipeId` are the first pass, `ResolvedNodes` the second, `ResolvedEdges` and `Unresolved` the third, one operator per branch of `_build_edges` |
| `GraphLoad` (extends both) | `ragtorio extract` and `graph load` | `fact` is the table, `nodes` and `edges` what Neo4j has committed, `view` what the open transaction sees. `Harvest` and `Extract` change the corpus; `Start` resolves it; `MergeNode` (or `NodeRefused`) is a row of a batch, `CommitNodes` its end, `MergeEdges` a batch of edges |
| `RecipeTree` (extends `GraphLoad`) | recipe tree, its renderings, `consumers_of`, `graph check` | operators over what is in Neo4j: a node of a tree is the branch of `CONSUMES` edges that leads to it; `Children` is a turn of `_tree`, `LoggedLines` and `ShownLines` the two renderings |
| `EventStream` | what a streaming reader is promised | abstract: tokens as said, then one last event |
| `Streaming` | `_stream` | the worker (`Retrieved`, `Put`, `Answered`, `Raised`, `PutNone`, `WorkerExits`), the generator (`Open`, `Get`, `GetNone`, `Join`, `Close`), the reader (`HangUp`) |
| `AnswerLoop` | `answer_from`, `validate` | one action per outcome of a model call: `Refuse`, `Unavailable`, `Ship`, `Regenerate`; `Say` is its text |
| `Answering` | the two together | instances of `AnswerLoop` and `Streaming`: the loop runs inside the worker, `on_text` is `tokens.put`, or nobody streams |
| `Chunking` | `Chunker` | operators: `Pack` and `Take` are `_pack` and a turn of it, `Parts`, `SplitToBudget`, `Push` and `Sections` the walk over headings, `ChunkPage` the whole |
| `Sorting` | Python's stable `sort(key=...)` | operator: `SortedBy` gives the places in order, each with as many before it as come before it |
| `Embedding` (extends `IndexBuild`) | `_embed`, a hosted provider | operators: `Slices` are the two loops over batches, `Post` a request, `Vectors` a batch's; `IsRefused` the check of the width and the strictness of `zip`, `Zipped` the rows |
| `IndexBuild` (extends `Chunking`) | `index build`, several at once | `build` is where each process is. `Make` embeds, `Check` and `Resize` are `ensure_embedding_dimension`, `Read`, `Delete`, `Insert`, `Commit` are `replace_all`; `WaitsFor` and `Deadlock` are Postgres' locks |
| `Retrieval` (extends `IndexBuild`) | one question, while builds run | `Route`, `Lookup`, `Narrow`, `Widen`, `Merge`, in the order of `retrieve`; `Shown` and `Citable` are `render_prompt` and `citation_instruction` |
| `EntityNames` (extends `Retrieval`) | `GraphEntityResolver` | operators: `ByTitle`, `ByAlias`, `BySearch` are the three passes, `ResolveAll` the loop over mentions |
| `Measures` (extends `Retrieval`, for its router) | recall, router evaluation | operators of the names in the code |

`MC*` modules give TLC its constants, and `*Proofs` modules hold the theorems.
Definitions marked `mutant` in a comment are seeded bugs; no specification uses them.
Where a component is a pure function, its properties say for every input of a bounded set what
the result must be, in terms of a definition that is not the code's. They are invariants
conditioned on the state in which the function is about to be used (a build about to start, a
question just asked), and TLC evaluates them there for all the inputs.

### What is abstracted

- **Time** in `RateLimiter` is an integer clock. A check lasts at most `MaxStall`
  from its reading to its verdict. With no bound the cap cannot be stated at all.
- **The router** in `Serving` is a choice among its outcomes. The connection only
  sees whether a search follows. The graph half never touches Postgres.
- **psycopg**: each statement is atomic (the connection has its own lock), a
  statement opens a transaction if none is open, COMMIT of a failed transaction
  is a rollback without an error, and a lost connection refuses everything
  that has to be sent. COMMIT and ROLLBACK with nothing open send nothing.
- **Pages** in `Harvest` are revision ids, and categories are the stamp of the
  last change that touched them. That is enough to tell whether a copy is
  current and whole. `TranslationFilter` is a set of titles. Titles are
  normalised, so a fetch by title finds what is at that title. A fetch is answered in any number of responses
  that stop where `Cuts` says: each has some more bodies, in page id order, and some more of the categories, a page's
  in at most two parts, and looks the titles up anew. A page whose revision has no text slot, which the code drops, is left out.
  The wiki changes only while its API is in use: at the other steps nobody looks
  at it, and a change made there can be made at the next API step instead.
- **`save_pages`**: the delete, each upsert and the category rows are separate
  steps of one transaction. The two statements on `raw_category` are one
  step, as the transaction hides the state between them; `executemany` upserts in
  any order. `save_redirects` and `finish_run` are one statement and a commit, one step each.
- **Facts and nodes**: titles are names, parsed fields are sets of names, `Broken`
  where the parser raises. Quantities and properties are left out, except a node's title
  and whether an edge states an amount, as merging tells these apart. Titles that differ in case are one
  name. Version events from the article's history are left out.
- **Neo4j**: `apoc.merge.node` matches on the id and all labels of the row, and a
  second node that shares a label with one of the same id breaks a constraint of
  `ontology/schema.cypher`. A batch is a transaction; its refusal surfaces in `load`, at the
  latest when the session runs the next one. The corpus changes between loads only, as a load reads it once, at its start.
- **Texts** in `AnswerLoop` are sequences of sentences, and a sentence is the set of
  citations in it. A bracket the splitter cuts in two has its citation in the text and in
  no sentence. A declined call says nothing; a text is validated whole.

- **Chunks**: cleaned prose is paragraphs of sentences of so many characters, as that is all the
  splitter looks at; the cleaning of wikitext is left out, so are infoboxes and tables. A section's
  links are the names its markup links to. Token counts are the code's estimate.
- **Postgres**, in `IndexBuild`, is at READ COMMITTED: a DELETE sees what was committed when it began,
  waits for who holds its rows, and skips what is gone by then; an INSERT waits for an
  id that is being written, and is refused one that is there. ALTER TABLE waits for everybody
  else that has touched the table. Waiting cycles of more than two are left out.
- **The model, the ranking and the graph** in `Retrieval` are any: a decision is any that the
  schema allows, a search returns any of the rows in any order (an approximate index may
  leave some out), a template any number of tokens of facts. Recall is measured over the exact scan of the code.
- **Vectors** in `Embedding` are the text they are of and their width. Numbers in `Measures` stay fractions;
  `ceil(0.95 n)` in floating point is exact for every number of queries there will be.
- **Recipe trees** count leaves; quantities are left out, but for their being stated. Where an item
  has several recipes its own is taken, else any one of them (the code takes the lowest id).

## The runs

Most take seconds; `MCIndex` takes a minute, `MCRateLimiter` two,
`MCHarvest` and `MCGraphLoad` up to four, on two cores.

| run | instance | shows |
|---|---|---|
| `MCRateLimiter` | 2 threads, 2 clients, limits 0-2, window 2, stall 1, clock to 5 | the cap from both sides, and honest promises |
| `MCServing` | 3 questions, 2 at a time, health probes, all faults | three invariants, and that every question ends |
| `MCServingTwoAtOnce` | 2 questions at once, no fault | **violates** `EveryAnswerLogged` |
| `MCServingLogFails` | 2 questions in turn, a refused INSERT | **violates** `LoggingNeverFailsAQuestion` |
| `MCHarvest` | 2 pages, 4 titles (one translated, one in a second namespace), batches of 2 fetched in up to three responses, 3 edits, a crawl with `--limit` 1 or none and a full one, every failure at every step | the mirror, the transaction, the tally, and that crawls end |
| `MCHarvestOpenRun` | 2 pages, a refused statement | **violates** `RunsAreClosed` |
| `MCWikiClient` | a listing of 2 responses, 3 attempts, waits on both sides of each cap, sleeps that are late | spacing, `Retry-After`, causes of failure, continuation |
| `MCGraphLoad` | 3 pages (an item, its machine, a technology) of 2 to 4 contents each, redirects, 1 change, 2 loads, batches of 2, kills; trees to depth 3, rendered to 2, two sets of raw items | the resolved graph, that loads can be repeated, and every query of it |
| `MCGraphLoadReload` | the same, without redirects | **violates** `ReloadIsSafe` |
| `MCAnswering` | texts of up to 2 pieces; one real, one fabricated and one malformed citation and the graph; one regeneration; streamed or not; a reader who may leave | the answer tells the truth about its own text, the stream keeps its promise, both threads end |
| `MCAnswerLoopDeclined` | texts of one piece | **violates** `CitationsAreInTheText` |
| `MCIndex` | two builds of a wiki over what an earlier one left, or one of a wider wiki; pages that come, go and grow; one question. Some 200 articles, 4 ways for a provider to answer, 4 indexes, 16 graphs of 4 nodes | the index, what a question gets from it, and the pure parts |

### What the properties say

*Request cap.* `CapHolds`: `limit + 1` admitted requests of a client span at
least a window *less the stall*. Without the last words it is false: a thread
that reads the clock and then waits for the lock compares a late reading with hits
recorded meanwhile. `PromiseKept`: a client that waits as long as it was told is
let in, unless a later request of its own took the slot. `RefusedForCause`: behind a refusal stand `limit`
admitted requests of the same client from the last window, or a stall more, so that nobody is
refused because of another client, of a request that was itself refused, or of one long past.

*Question path.* `NoFaultNoFailure`: sharing the connection alone never fails a
question. `AnswersAloneAreLogged`:
what is left of `EveryAnswerLogged` when questions come one at a time and
nothing is refused. `ReleasedWhenQuiet`: only a health probe leaves the server idle
in transaction. `EveryQuestionEnds`: whatever is refused, there is a response.

*Crawl.* `Mirrored`: after a successful crawl without `--limit`, of a wiki that did
not change meanwhile, every wanted article is stored as it is and every redirect
onto it is there, whatever earlier crawls were killed, failed or raced with.
`RerunFetchesNothing`: the crawl after that has nothing to fetch.
`NoHalfWrittenPage`: a stored page has the categories that were saved with its body, and, if every
response of its fetch found the page at one revision, they are there and none is older than that revision.
`SavesNeverCollide`: because of the delete of moved titles, a save is refused over
`raw_page_title_idx` only when its own batch has two pages of one title. `UncutRunsAreClosed`, `TallyOfSuccess`: what
`crawl_run` says of a run that was not cut short.

*API client.* `RateHolds`: any calls `i` and `j` are `j - i` intervals apart but for *one* late wake-up,
however many there were between, although the next call is due from when this one was due and not from
when it was sent. `RetryAfterHonoured`: no call, of this or a later request, before the time
a server named. `FailsForCause`: giving up, raising and succeeding are each what the responses were.
`EachResponseOnce`: retries neither lose nor repeat part of a listing.

*Graph.* `GraphIsSound`: no edge of a resolved graph dangles (the loader would drop it
in silence), and an id is one node, where no redirect leads away from a page
that has facts. `ReferencesAccountedFor`: a reference that can be to a page becomes an edge of its kind and direction
between the two, except what a page that is no technology requires or allows, which is filtered; exactly the references that can
be to none are logged, except requirements, which are dropped without a word; and every edge comes from a reference. `LoadHoldsTheGraph`: what a successful load resolved is in Neo4j,
whatever was there. `SameGraphIsExact`: loads of one graph, killed
anywhere and repeated, end with exactly the graph. It is what is left of
`ReloadIsSafe` when nothing has changed.

*Recipe trees.* `LeavesAreRaw`: the walk stops for the reason the reader is told, and goes on to all
stated ingredients of one recipe. `TotalsCountEveryLeaf`: the totals count every leaf, and the prompt's
are those that were logged and budgeted, unless a recipe states no amount. `QueriesAgree`: `consumers_of`
is the inverse of the tree's step, and what looks wrong in a tree is in the report of `graph check`.

*Answer.* `KeepsPromise`: the worker, the queue and the generator, with the loop inside, implement
`EventStream`, with `open` read as "the generator is not finished". `ReaderIsAnswered`,
`WorkerEnds`: neither thread waits for the other for ever. `HonestAnswer`: `grounded`, `unverified` and
`citations` agree with the returned text. `FinalSpeaksOfWhatWasSent`: the last event is an answer exactly if there is one, and its
verdict is about what the reader was sent, the model having been asked once.

*Index.* `OneBuild`: what is stored for a wiki is all that one build made of it, however many ran at
once, were refused or died; it needs a page that every build finds, so that two builds have an id in
common (two that share none could mix: the DELETE of one does not see the rows of the other).
`BuildsEnd`: deadlock and waiting included. `IndexHoldsTheArticle`: every sentence of an article is in one
passage, in order, under its headings, in pieces of at most 9/4 of the budget, and each passage has the vector
of its own text, or the build fails.

*Retrieval.* `HitsAreOfOneBuild`: a search sees one build; only a rebuild between the narrowed and the
wide search gives passages of two. `PassagesFitTheBudget`: passages fit what the graph's facts leave,
none twice, in order, none left out that would fit. `EvidenceIsHonest`: the model may cite what
it is shown and nothing else, and "no evidence" is said only where something was looked up and nothing fitted.
`NamesAreResolvedHonestly`: a mention is an entity or is reported, whatever else is mentioned; a guess never
pre-empts a name and never lacks one of its terms.

*Measures.* `MeasuresAreExact`: recall at each k from one search is that of a search at k; a query is
excluded only for what it could not have found; percentiles are by nearest rank; checking a route never
makes an error of a right intent, and the target cannot be met by a set that fails.

### Where the code and its documentation disagree

Each is a run that TLC ends with a counterexample; `PROJECT.json` quotes the lines.

1. **A routing row is lost when two questions overlap** (`MCServingTwoAtOnce`).
   `PostgresChunkStore.search` rolls the connection back when it is done
   (`index/postgres.py:108`). If that falls between another thread's INSERT into
   `routing_log` and its COMMIT, the row is gone and the commit succeeds.
2. **A failed log row fails the next question** (`MCServingLogFails`). `_record`
   swallows the error but nobody rolls back, so the next question's search is refused.
   Questions keep failing until a graph-only one gets as far as its commit.
3. **A refused statement leaves a crawl open** (`MCHarvestOpenRun`). `run` calls
   `finish_run` in the aborted transaction, and that raises before it writes.
4. **A declined regeneration keeps the previous draft's citations**
   (`MCAnswerLoopDeclined`). The refusal leaves the loop before `check` is assigned.
5. **A reload after a change can be refused** (`MCGraphLoadReload`). A node is merged on
   its id and all its labels (`ontology/load.py:27`). When an item becomes the target of
   its first `CRAFTED_AT` edge, its row is `{Item, Station}`, the loaded `{Item}` is
   not matched, and creating another breaks `item_id`. The load aborts and later batches are not
   written; so does every load after it. An item reclassified as a fluid does the same. `cli.py:193`
   and the repository's README call a reload "always safe".

Smaller ones, visible in the models and without a run of their own:

- With `--rate-limit 0` a request is a 500 (`IndexError` at `ratelimit.py:54`), not a 429:
  action `RaiseIndexError`.
- A fetch answered in several responses can bring two pages with one title (one
  moved over the other in between), and its save is refused by the unique index: the
  exception in `SavesNeverCollide`.
- A page that is edited between two responses of its fetch is stored with the categories of the responses before the
  edit, or with a body from before it and later categories, and a page that comes late may be stored without categories
  (`harvest/crawl.py:154-167`). The next crawl skips it, as its revision is the listed one, although `harvest/postgres.py:4` says
  that a crawl is resumed without "a half-written page". `NoHalfWrittenPage` speaks of pages that were not changed during their fetch (`since`).
- A page whose template changed its categories is skipped as unchanged: the property asks for categories *at least* as
  new as the revision, and `Mirrored` says nothing of categories.
- Rows of deleted pages and of pages that became redirects stay, as nothing
  deletes them, while `db/schema.sql:22` calls the table "One row per page, current
  revision only". `Mirrored` is one-directional for that reason.
- A failed run records the tally up to its last complete namespace.
- Nodes and edges whose facts are gone stay in Neo4j, since a load deletes nothing:
  `LoadHoldsTheGraph` is one-directional. Properties a page no longer has stay too.
- A page with facts whose title is redirected merges into the node of the redirect's target, and
  the node has the title of whichever row came last, while `ontology/models.py:11` says
  "``id`` is unique across labels": `GraphIsSound` is stated of the others.
- A requirement that names nothing is dropped with neither an edge nor a log entry (`ontology/resolve.py:293-297`), along with those
  of and onto pages that are no technologies, which the module's docstring calls a deliberate filter; the repository's
  README says "A reference that resolves to nothing is logged, never invented". A technology that a page allows which is none itself
  is dropped in silence too (`resolve.py:245-254`).
- A question that fails after its INSERT (the model's error, a 503, or any other, a 500) keeps its row, so `routing_log` has
  questions that got no answer.
- A health probe leaves the connection idle in transaction (`api/app.py:272`) until the next question, whose `asked_at` is the probe's time.
- A bracketed token that is not shaped like a chunk id is ignored
  (`answer/validate.py:65`), while the comment above (`validate.py:30-33`) says it
  is "still a fabricated citation".
- A lost Postgres connection is never reopened (`api/app.py:224`).
- `answer_from` says that the streaming path retrieves before opening the response
  (`answer/pipeline.py:66`); `_stream` retrieves in the worker, after the 200 has been sent.
- "each within the token budget" (`index/chunk.py:223`) is not so: `_pack` adds up rounded estimates of
  parts without their separators, and one sentence is never split. `IndexHoldsTheArticle` has the true bound.
- A heading that skips a level is put under its elder sibling (`index/chunk.py:188`), and is dropped
  with it if that one is dropped: the property is about regular headings.
- "labeled blocks that fit the budget" (`retrieve/merge.py:42`): the graph's block has no limit.
- Two builds that both resize the column wait for each other, as each has counted the rows before
  it asks for the table: one is thrown out by Postgres (action `Deadlock`).
- A vector width that does not change hides a change of provider (`index/postgres.py:122`): the next
  build replaces the wiki's own rows only, and another wiki's keep the old provider's vectors.
- A tree node whose recipe states no amounts is a raw material to `render.py:107` and nothing to
  `recipe_tree.py:134`: the condition in `TotalsCountEveryLeaf`.
- A branch that is cut by the depth bound has the mark of one that loops; the prompt never shows it, as
  it is cut earlier (12 against 15), but the logged lines do (`retrieve/graph.py:146-167`).
- Entities keep the first label they are matched by, so a guess that comes first hides the later exact match.
- `template_accuracy` is 0.0 when no label names a template, so such a set cannot meet the target.

### Bounds, and why they are enough

- Two threads are one that works and one that interferes. In `RateLimiter` the
  theorems cover the rest. Limits 0, 1 and 2 are the empty deque, the deque whose head
  is its tail, and one with both; the clock runs for two and a half windows, in which a client is forgotten and comes back.
- Two questions in flight give every order of one's statements between
  another's, and the third comes after what they leave behind. A search can be widened
  once, as in the code.
- Two pages and three changes are a page moved over another between its listing
  and its fetch and back, or a redirect left behind. Four titles are two plain ones, a
  translation and one of the other namespace. Two crawls are one that leaves something
  behind and one that finds it; `BatchSize` 2 gives a full, a partial and an empty batch.
  A fetch that stops after one body and half of its page's categories, or after all categories and before any body, or at neither or
  both, has an edit before, between and after the two halves of a page, and pages that come late, leave, or take another's title.
- Three pages give every kind of edge, a self-made and an explicit output, a field that does
  not parse, a page the profile ignores, a reference that needs a suffix and one to nothing; one of the pages can be a second technology. Two loads are
  one that leaves something behind and one that finds it; a batch of 2 is smaller than the graph.
- Trees of depth 3 come back to an item, and go one deeper than the prompt shows.
- Two pieces with a citation of each kind give sentences that mix, repeat or lack
  citations, and are as many tokens as the queue needs to hold any order of `Put` and `Get`. `max_attempts` is 2 in the code.
- Two responses of a listing have one continuation; three attempts spend the budget on every mixture of
  causes; an interval of 3, late by up to 1, shows that lateness does not add up.
- Two builds are enough to wait, deadlock and overwrite each other; earlier ones of the
  same and of another width leave rows to find, to delete and to refuse. Two pages, one of which comes and goes and
  one of which grows, make builds of different rows. A budget of 4 tokens and paragraphs of up to four
  sentences give full, partial and overfull groups.
- A batch of 3 in requests of 2 has a full and a partial one of each.
- Two labels of a set are one that is met and one that is not (`SetSize`).
- Four nodes give two of a title but for its case, one whose alias is another's title, and one that shares a term.

`MaxTime`, `MaxRev`, `MaxRuns`, `MaxChanges`, `MaxLoads`, `MaxPieces`, `NumPages` (of `WikiClient`) and the
constants marked `bound` in the modules bound what there may be, and nothing the code decides.
Deadlock is checked for `RateLimiter`, whose threads never stop asking. The other
models stop when their work is done, and their configurations say so.

### Fairness

- `Serving`: a worker thread that has taken a question up runs on. The thread pool
  schedules it, and every call it makes ends (each client library has a timeout). Nothing
  is assumed of questions not yet taken up, nor of probes.
- `Harvest`: the crawler, once started, keeps stepping; nothing is assumed of the wiki or of failures.
- `Answering`: both threads are scheduled, and the model call ends. Nothing is assumed of the reader.
- `IndexBuild`: a process that has embedded its passages goes on, unless it is killed, and Postgres breaks
  a deadlock it is part of. Nothing is assumed of when builds start.

## The proofs

TLAPS checks every step. Assumptions are only those on the constants, named in each module.

| theorem | for every | by |
|---|---|---|
| `RateLimiterProofs`: `TypeCorrect`, `CapCorrect`, `PromiseCorrect`, `RefusedForCauseCorrect` | number of threads and clients, limit, window, stall up to the window | `IInv` |
| `ServingProofs`: `TypeCorrect`, `SharingNeverFails`, `NothingHeldOpen`, `AnswersAloneLogged` | number of questions and workers, faults, probes | `Safe`, `Quiet`, `Logged` |
| `GraphLoadProofs`: `TypeCorrect`, `EdgesJoinNodesCorrect`, `StraightCorrect`, `GraphIsSoundCorrect`, `ReferencesCorrect`, `LoadHoldsTheGraphCorrect`, `SameGraphIsExactCorrect`, `SameGraphLoadsCorrect` | wiki, profile, redirects, batch size, number of loads and kills | `Inv`, `OneGraph`, `Done`, `Current` |
| `GraphLoadProofs`, of what is then asked of the graph: `LeavesAreRawCorrect`, `TotalsCorrect`, `QueriesAgreeCorrect` | graph that loads can leave, depth, depth of the prompt, set of raw items | `Current`, induction up and down the levels of a tree |
| `HarvestProofs`: `TypeCorrect`, `NoTranslationCorrect`, `NoHalfWrittenCorrect`, `SavesNeverCollideCorrect`, `UncutRunsAreClosedCorrect`, `TallyOfSuccessCorrect`, `MirroredCorrect`, `RerunFetchesNothingCorrect` | wiki, namespaces, batch size, limits, interleaving of edits and failures | `TitlesInv`, `WholeInv`, `ClearedInv`, `TallyInv`, `MirrorInv` |
| `WikiClientProofs`: `TypeCorrect`, `RateHoldsCorrect`, `RetryAfterHonouredCorrect`, `FailsForCauseCorrect`, `EachResponseOnceCorrect` | interval, attempts, caps, delays, length of the listing | `IInv` |
| `AnsweringProofs`: `LoopImplemented`, `StreamImplemented`, `KeepsPromiseCorrect`, `HonestAnswerCorrect`, `FinalCorrect` | passages, texts, attempts, interleaving of worker, generator and reader | `LoopInv`, `StreamInv`, `Together` |
| `RetrievalProofs`: `OneBuildCorrect`, `PrimaryKeyHolds` | number of builds, wikis, widths, pages, articles, kills and deadlocks | `IInv`, `Keyed` |
| `RetrievalProofs`, of a question: `HitsAreOfOneBuildCorrect`, `PassagesFitTheBudgetCorrect`, `EvidenceIsHonestCorrect`, `NamesAreResolvedHonestlyCorrect` | the same, and the budget, limits of a search, facts, decisions, graph of distinct ids | `Searched`, `AskHeld` |
| `RetrievalProofs`, of the pure parts: `IndexHoldsTheArticleCorrect`, `MeasuresAreExactCorrect` | article, budget, size of batch and request, order and gaps of the API's answer; index, labels, scores, latencies, size of the labeled set | `PackKeeps`, `PathIsTrail`, `PostIs`, `SortedIs`, induction along lists |

`SequenceFolds` holds the lemmas that several of these rest on. The loops of the code are modelled as folds over
lists and its recursions as recursive functions, and the library states induction over them for a predicate that is a
parameter, which the provers cannot instantiate. Its fact about least elements (`WFMin`) is about *sets*, though, and that
is enough: `SetInduction`, `TurnInduction` and `LastTurn` do induction with a set in the predicate's place, `IterationExists` gives
a fold turn by turn, `SumIsPairs` turns a sum over a list into the size of a set, and `FlattenTurns` gives the
concatenation of a list of lists, list by list.

**The cap.** `CapHolds` compares requests that are no longer in the deque with ones that
are, so `IInv` relates the deque to the history of all admitted hits. It is a
suffix of it (`SuffixInv`); what is missing has left the window by now,
whatever reading dropped it (`DroppedInv`); hits are out of order by at most a stall
(`SpreadInv`). A request is admitted when fewer than `limit` hits are in the deque, so the
hit `limit` places back has been dropped, and is a window old *now*, hence a window
less a stall older than the reading recorded. `PromiseInv` carries honesty: while a
promise stands, a slot is free or the oldest hit leaves the window exactly then. A refusal finds the deque full and
its oldest hit in the window; the others may be older than that one, by at most a stall (`FullIsACause`).

**The connection.** `Safe`: the connection refuses statements only after a fault. `Quiet`: an open transaction no probe is
part of is some thread's, about to end it. `Logged`: as long as questions came one at a
time and nothing was refused, the row of the one in flight is pending until its own
commit; the histories `overlapped` and `faulted` are never taken back (`AloneBefore`).

**The mirror.** Committed rows are replaced by the transaction's view, so `TitlesInv` says of that view, of pending titles
and of fetched pages too that none is a translation. `WholeInv` follows a page from response to response: as long as its
fetch has found one revision, the body it has is of that revision, no category it has read is older, and it has some as soon as it was
given its first part (`EntryWhole`, `Given`). It also says where a stored page may be torn: in
the transaction's view only, between its upserts and its category rows, and only pages of the batch.

**The graph.** What a resolved graph is needs no induction over steps: `EdgesOfType` follows the
branches of `_build_edges` and finds both ends among the ids that titles with facts stand for,
and `EntityIdsHaveNodes` gives each of them a node. `ReferencesCorrect` goes the other way, from a reference to the page its branch
looks up (`ReferenceResolves`; `FollowOnFits` where suffixes are tried) and from an edge to the fact behind it. The assumptions are on the profile
(labels it may emit), on parsers (what they return) and that recipe titles differ, as a suffix makes them.
`Done` then says that rows no longer to do are in Neo4j: merging a node moves none and
takes no label off (`MergeKeepsNodes`), merging an edge removes none (`LinkedKeeps`), and all nodes
precede all edges. `OneGraph` says that while loads have resolved one graph only, Neo4j has
rows of it only, so a row finds itself or nothing (`FindsItself`), and `keep` has left
one row per pair of ends and type (`ResolvedRowsAreOne`), so merging an edge again changes nothing.

**The crawl's record.** `ClearedInv`: once the rows that hold a title of the batch are deleted, only the
batch's own rows can hold one, so a collision is between two of its pages. `TallyInv`: what this run
has committed is in its tally or in the namespace's own count, its row stays open until it ends, and a failed
transaction means the run was refused something.

**The client.** `DueInv` counts from the call that is due next: it is a whole number of intervals after
every call made, but for one late wake-up, and `acquire` adds an interval to what was due. With what was
*sent* the lateness would add up, which is why `RateHolds` is not inductive. `WaitInv` says that
`Retry-After` is behind, or the backoff that is about to start covers it; `LoopInv` ties the responses to the counter.

**The stream.** `Answering` takes a step of the loop or none, and of the stream or none, so both specifications are
implemented. `Queued` is the refinement's core: what was said is what was sent and then what is queued,
with the sentinel behind it, so a `Get` is the abstract step that hands over the next token. `Together` says that
a streamed answer is the first and only text, all of it shown, and the outcome is an answer exactly if the loop came to one.

**The index.** Whoever is about to commit has deleted *all* rows stored for its wiki (`Deletions`): an INSERT
that found an id in the table was refused, and every build has an id in common (`Common`) with what is stored.
Two cannot be there at once (`OneCommits`), as the second waits for that id. So the table goes from
one build's rows to another's (`Stored`); what a DELETE has found (`SeenWhole`) is one
build's rows, of which it removes all that are still stored, or none.

**The mirror, whole.** `Mirrored` speaks of the end of a run, and `MirrorInv` of all its steps. `CopiesInv`: as long
as the wiki stands still, what is fetched is what is there, and a page whose known revision is the present one is stored as it is.
`FullInv`: a wanted page that the listing has passed is pending, fetched or stored, and a redirect onto it found or stored.
`PlaceInv` is what makes the second run work: whatever runs were killed or raced with, a
stored revision that is still the page's has the page's title, since a move gives the page a new revision. Without it a skipped page could be
stored under an old title. `SettledInv` then leaves the run after a success nothing to fetch.

**Trees.** A tree is finite (its branches are built from finitely many edges, level by level), and a branch is in it exactly
if each edge is a step of `Children`. `LeavesAreRaw` needs `Current`: what a step walks is what was loaded. `TotalsCountEveryLeaf` needs
more: the total of a subtree counts, per material, the leaves below its branch. Branches below different children are different, so
the counts of the children add up (`CountOnTree`), and the induction is from the leaves up. The prompt's total and the logged one are both that
count. `QueriesAgree` follows an edge back: a row of `consumers_of` asks for the edge that the step took.

**A question.** `Keyed`: an id is never twice in the table, which needs no assumption on articles, as a primary key
refuses the second (`inserted` of two builds never meet). So a search finds no chunk twice, and by `Stored` what it finds is of one
build (`Searched`), while the table is rewritten between the narrowed and the wide search. `AskHeld` adds what a question
holds from step to step: its rows are texts that `Chunker` made, hits and facts are what the searches and templates found, and what is shown is
`Fitted` of them. `Kept` is the loop of `_fit` turn by turn: what was kept fits, and each row passed over did not
fit behind those before it (`Behind`). `LongRow` is where `EvidenceIsHonest` meets the chunker: with the
whole budget left, a row that does not fit it is one sentence, because every other passage is at most 9/4 of `MaxTokens`
(`ChunksAreBounded`). That is the true form of "each within the token
budget": `PackedGroups` bounds a group of several parts by their rounded estimates, and a group of one is that part.

**Names.** Each of the three passes adds the mentions it matches and leaves the others, so by the end a mention is an
entity or reported. `Best` is at most one node because ids are numbers and differ.

**An article, and its index.** A loop that groups what it takes leaves nothing out if what it has put away, and then what it holds,
is what it has taken: that is `PackKeeps`, and `PartsKeep`, `SplitKeeps`, `SectionKept` and `PageKept` carry it from sentences to the page, as
flattening a list of lists of lists does not depend on which level is flattened first (`FlattenFlattened`). The headings are the hard
part. `Push` cuts the path by a heading's *level*, while `Trail` counts the sections over it; they agree where levels go down one at
a time, since then a section has exactly one section over it of each level above (`AncestorsCounted`), and those of the next section are
these, cut at its level, and itself (`AncestorsOf`). The vectors come back in any order. `SortedBy` of their indexes sends
place `i` to the answer for text `i` if all were answered, as distinct numbers of `1..n` are then all of them (`InTheirPlaces`), and
if not, there are too few in this request and so in the batch (`Alike` carries both cases through the requests), which `zip` refuses.

**Measures.** `SortedIs` says that sorting loses no place and repeats none. A ranking cut at a smaller `k` is then the
first `k` of one ranking, so the first hit within `k` is found by one search or by neither. The nearest rank is the least
value that enough of the samples do not exceed. `TwoParts` splits the counts of a set of labels into those that count and those that do not.

**What the attempts found.** Four statements were wrong, or said less than they seemed to.
`LeavesAreRaw` was false of wikis in which a redirect sends a recipe's title to its item's: the item's node then has the
`PRODUCES` edge, and the query asks for a `Recipe`. It now speaks of nodes that are labelled so (`Makers`).
`QueriesAgree` was false after loads of different graphs, where a node that was a recipe need not be one any more: hence
`OfRecipe`. A total is a number only of a finite tree, so `Names` is assumed finite, as a wiki's titles are. And the bound on passages
needs that no paragraph is blank and that splitting one into sentences leaves some (`Prose`), which the code ensures by
skipping what is empty after `strip()`, and `re.split` by returning at least one string. `MarksAssumption` (of `Harvest`) says
that the marks for "no page" and "no row" are not pages or rows, and `EntityNamesAssumption` that graphs are finite and ids numbers, with an order.

Three definitions were restated to be reasoned about, with the same meaning: sorting was `SortSeq` and filtering `SelectSeq`, which
the prover knows nothing about, and are now `Sorting` and a set of places; and the number of labels in a set is a constant, so that the
theorem is about sets of any size. `MeasuresAssumption` and `EmbeddingAssumption` say what the numbers range over, that the k are finitely many and at least one, and that the
API answers at most once for a text that it was sent.

**Left to TLC.** Every invariant of the passing runs is proved, and the safety of each action property. Liveness under fairness (`EveryQuestionEnds`,
`CrawlEnds`, `BuildsEnd`, `ReaderIsAnswered`, `WorkerEnds`) is out of the prover's reach. What the instances of `MCIndex` add is that the
hypotheses of the pure theorems are met: articles with regular headings, answers that are complete.

## Not modelled

- The wikitext grammar, its field parsers and the cleaning of prose: text handling.
- Prompts and the wording of renderings, except what is shown, cited and counted.
- Profiles and settings (`config.py`): parsing and validation without later state. The modules take what they yield as constants.
- Vectors, cosine, and the local and fake embedders: numerical work. The approximate index is any subset.
- `unlock_chain` and `tier_compare`: queries whose results are facts of any size here. (`unlock_chain`
  lists one longest path, while the header of its file says "everything that research needs".)
- `harvest/probe.py`, `answer/examples.py`, and the reports of `cli.py`: read-only.
- In-memory stores are test doubles, except the exact scan that recall is measured on.
- Waiting cycles of three or more builds, and the extract command at the same time as a load.
