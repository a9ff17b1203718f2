# Verification of the Vietnamese legal question answering system

TLA+ models of this repository's code, TLC runs that check them on small
instances, and theorems about them that TLAPS checks for every value of the
constants. `PROJECT.json` ties each definition to the lines it models, each
property to a run and to a change of the code that would break it, and each
hazard of the code to the properties that watch it.

Paths below are relative to the repository (`src/` is its Python package).

## 1. The system

A corpus of Vietnamese laws is crawled, cleaned, parsed into a hierarchy, cut
into chunks, embedded and stored in Qdrant. An API answers questions from it:
dense and sparse retrieval, fusion, selection of evidence, a language model, a
citation guard. A web client keeps conversations.

```text
 crawl -> clean -> parse -> chunk -> [index run] -> Qdrant
                                                      |
 browser -> FastAPI route -> worker thread -> [dense: encoder, Qdrant client]
               |                                      + sparse -> fusion
          conversations                               -> selection -> LLM -> guard
```

### 1.1 Inventory

| Component | State it keeps | Operations | Works with | Hard behaviour | What makes it correct |
|---|---|---|---|---|---|
| Crawler, crawl limiter, raw store, selector (`src/ingestion/`, `src/services/crawl_service.py`) | slots, permits, locks and times per host; two files per law | select, acquire, fetch, retry, wait, save, report | web sites, file system | concurrency, retries, crash between two files | delays kept; files agree; permits are not lost; runs end |
| Raw audit (`src/ingestion/audit.py`) | none | scan, judge | raw store | rules of its own, beside the selector's | what passes is what is not fetched again |
| Cleaning (`src/ingestion/cleaning.py`) | none; two files per law | choose container, trim, drop, join | raw store | phrases of the site inside the law | no article is cut off unnoticed |
| Parsing and chunking (`src/processing/legal_*.py`) | recognizer's context; hierarchy and chunk files | recognize, segment, build, validate, cut | file system | notes, quotes, lettered and mistyped numbers; passes that decide the same thing apart | units reach chunks, each cited as it was read; what is lost is told |
| The three commands (`src/services/cleaning_service.py`, `legal_parsing_service.py`, `chunking_service.py`) and the JSONL validator (`src/processing/processed_jsonl_validator.py`) | files of several versions and commands | clean, parse, chunk, validate | each other's files | crashes, full disks, partial runs, stale files | a quiet pass is current; a damaged corpus is noticed |
| Qdrant collection (`src/indexing/qdrant_collection.py`) | schema in Qdrant | inspect, delete, create, index fields | index runs, other set-ups | set-ups that overlap; recreation beside a checkpoint | success means a whole collection; points survive a set-up that matches |
| Indexing run (`src/indexing/indexing_service.py`) | progress sets, batch, metrics; checkpoint file; points in Qdrant | start, resume, take row, embed, upsert, retry, write checkpoint, count, report | chunk loader, encoder, Qdrant | crash between upsert and checkpoint; lost and late answers; duplicate ids; limits over resumes | a recorded chunk is stored; success means all are; nothing planned is forgotten; retries converge |
| Index validation (`src/indexing/index_validation.py`) | report | read schema, sample, filters, queries | Qdrant, chunk file | reads of different moments | a good report holds |
| Ask route, workflow, hybrid retrieval (`src/api/routes/legal_qa.py`, `src/services/`, `src/retrieval/`) | per request: deadlines, threads, attempts, issue, verdict, result | worker, load, embed, query, retry, fallback, select, generate, guard, map, time out | encoder, shared Qdrant client, LLM | seven nested timeouts; threads that cannot be cancelled; fallbacks; abandoned workers | one answer in time; legal answers only from allowed, cited evidence; failures reported for what they are |
| Shared Qdrant client (`src/retrieval/dense_retriever.py`) | `_qdrant_client` | query, close, replace, back off | all questions, each with its own event loop | a retry closes the client that others use; cancellation between close and replacement | a closed client does not stay; questions recover and end; clients are not lost |
| Encoder cache (`src/indexing/embedding_model.py`) | encoder and lock per model | lazy load | worker threads, warm-ups | concurrent first use; failed builds; abandoned loads | built once, shared by all |
| Service cache and warm-up (`src/api/dependencies.py`, `app.py`, `routes/legal_qa.py`) | service and lock; reports | resolve, warm up, time out, report | event loop, encoder | a lock taken on the event loop; status read before and after | built once; "warmed" is true; every call is answered |
| Fusion and quota (`src/retrieval/fusion.py`, `coverage_aware.py`) | none | rank fusion, quotas | retrievers | overlaps, repeated and missing ids | no duplicates, no retriever unheard, no list short |
| Evidence, selection, prompt, guard (`src/retrieval/evidence.py`, `selection.py`, `prompting.py`, `generation.py`) | none | build packets, deduplicate, cut, number, check citations | ask workflow | ids by rank and by position; rejections and cautions of different passes | a citation names the evidence the model saw; fallbacks have a reason |
| Quality gate (`src/retrieval/generation_evaluation.py`, `quality_gate.py`) | report, manifest of reviews | run suite, review, judge | persons | a manifest of earlier suites; rates over no cases | what passes is safe and reviewed; what is good passes |
| Conversations (`src/services/conversation_service.py`, `postgres_conversation_repository.py`) | conversations, messages | create, list, get, rename, delete, add message | routes (on the event loop), PostgreSQL shared by processes | transactions that wait, break, or commit unheard; two statements per read | a call takes effect whole or not at all; reads miss nothing acknowledged; no call waits for ever |
| Web client (`apps/frontend/`) | conversations, open questions, mirror queues | ask, stop, switch, delete, mirror, reload | API | answers after a switch, a stop or a deletion; a backend that restarts | an answer lands where it was asked; the mirror is in order |
| Context of follow-ups (`src/services/legal_qa_context.py`) | none | pick the earlier question | web client | stopped and failed questions in between | a follow-up is searched with the question before it |
| Question rate limiter (`src/api/rate_limit.py`) | window per client | check, prune | ask route | window boundaries, rounding | at most the quota per window; Retry-After suffices |
| Sparse retriever, LLM client, reranker, settings, readiness, deployment scripts | none | score, call, parse | | pure or a single call | |

### 1.2 How components meet

* Crawling, cleaning, parsing, chunking and indexing are commands that meet in
  files only; each takes what it finds. An operator runs them in any order.
* The route runs `LegalQAService.answer` in a worker thread under the ask
  deadline and abandons the thread when it passes. The worker runs one
  `asyncio.run`, so every question has an event loop of its own.
* All workers share one service, therefore one `DenseRetriever`, one Qdrant
  client and one encoder. Only the encoder and the service are behind a lock.
* Set-ups, index runs, validations and the API meet in Qdrant alone. Index runs
  meet each other in Qdrant and in the checkpoint file.
* The conversation routes run the repository on the event loop; API processes
  meet in PostgreSQL. The web client keeps its conversations itself and mirrors
  them to that API.

## 2. Modules

| Module | What it models | Uses |
|---|---|---|
| `Crawl` | the crawl command: selection, tasks, rate limiter, the two files of a law | |
| `RawAudit` | the audit of what `Crawl` leaves | `Crawl` |
| `MCCrawl` | a registry for TLC | `RawAudit` |
| `Cleaning` | container, trimming, lines dropped and joined | `Listing` |
| `LegalGrammar` | segmenter, builder, both validators, chunker, as functions | `Listing` |
| `LegalText` | one law from page to chunks, the recognizer line by line | `Cleaning`, `LegalGrammar` |
| `MCLegalText` | pages for TLC | `LegalText` |
| `Laws_proofs` | theorems about a law from the site to its chunks | `RawAudit`, `LegalText` |
| `ProcessedJsonl` | the validator of the chunk file, as a function | |
| `CorpusBuild` | the three commands, their files, crashes | `ProcessedJsonl` |
| `MCCorpusBuild` | laws, versions and foreign files for TLC | `CorpusBuild` |
| `IndexLifecycle` | set-ups, runs and validations on one collection | |
| `MCIndexLifecycle` | chunks, plans and filters for TLC | `IndexLifecycle` |
| `IndexLifecycle_proofs` | theorems | `IndexLifecycle` |
| `IndexingRun` | `IndexingService.index_chunks`, the checkpoint, Qdrant as it sees it, the operator | |
| `MCIndexingRun` | corpora for TLC | `IndexingRun` |
| `IndexingRun_proofs` | theorems | `IndexingRun` |
| `AskPromise` | what a question promises (abstract) | |
| `AskRequest` | one question in time: route, worker, retrieval, gate, model, mapping | `AskPromise` (refinement) |
| `Listing` | sorted lists, and what a filter keeps of one | |
| `Fusion`, `Evidence` | rank fusion with quotas; packets, selection, numbering | `Listing` |
| `NaiveRag` | what one question is answered from | instances of `Fusion` and `Evidence` |
| `MCNaiveRag` | candidate lists and contents for TLC | `NaiveRag` |
| `Ask_proofs` | theorems about one question | `AskRequest`, `NaiveRag` |
| `DenseClients` | many questions on the shared Qdrant client | |
| `LazyOnce` | double-checked lazy construction (encoder, service) | |
| `ServiceWarmup` | warm-up endpoint and background warm-up | `LazyOnce` twice: service and encoder |
| `Shared_proofs` | theorems about what all questions share | `ServiceWarmup`, `DenseClients` |
| `QualityGate` | suites, reviews and the gate | |
| `MCQualityGate` | datasets and outcomes for TLC | `QualityGate` |
| `Offline_proofs` | theorems about what the offline commands leave | `CorpusBuild`, `QualityGate` |
| `ConversationStore` | what the conversation API promises (abstract) | |
| `Conversations` | its calls, statement by statement, over both repositories | `ConversationStore` (refinement) |
| `MCConversations` | owners for TLC | `Conversations` |
| `Conversations_proofs` | theorems | `Conversations` |
| `Workspace` | one page of the web client and the conversation API it mirrors to | |
| `MCWorkspace` | symmetry for TLC | `Workspace` |
| `Workspace_proofs` | theorems | `Workspace` |

Operators called *Mutant* in a comment are not part of a specification: each is
a form a definition would take under a plausible bug, kept to show that a
property notices it. A property that several parts of a module state together
(`RecordsAreTrue`, `ReadsAreRecent`, ...) is checked as one; its parts have
names of their own, used below.

### 2.1 Crawl and RawAudit

`Crawl` has one action per step of a task between two awaits: the service's semaphore
(`Begin`), the permit (`AcquirePermit`), the lock of the host and the delay
(`HostLock`, `DelayEnds`), the answer of the site, the wait after a 429, and
`save_html`, which does not suspend. `since` is `_last_request` as the code sees
it, `quiet` what a property needs: the time since a request really went out. A page
is named by the run that fetched it; a file that was truncated and not written is
torn. The process may die at every step, inside `save_html` too (`CrashSaving`).

The checks: requests to a host are apart (`RequestsSpaced`); a law that
later runs skip has a whole page, the one its metadata describes
(`SkippedIsWhole`), and a success in the report has both files behind it
(`ReportedIsStored`), together `DiskIsWhatIsSaid`; a run ends whatever the site
answers (`RunEnds`). That no permit is lost, so that a task that got a slot always
gets a permit (`PermitsSuffice`), is proved. `SkippedIsWhole` leaves out laws that
were on disk and crawled again with `--no-skip-crawled`: there a crash does leave
old metadata beside a new page, as `refresh` is always `False` and `--force` is
read nowhere, although its help says "backup existing artifacts".

`RawAudit` gives each law the status `audit_raw_corpus` would, from the size and the
beginning of its page and the fields of its metadata; the audit does not compare the
page with the hash in them, and neither does the model. `AuditAgreesWithSelector`:
a law that passes is not fetched again, and one that is skipped and whole passes
unless the site sent something else than a law.

### 2.2 LegalText: Cleaning and LegalGrammar

One page becomes chunks. A line is what the recognizer's patterns see of it: the first
pattern that matches and the number in it; offsets are line numbers. `Cleaning`
chooses the container (the site's own or the fallback), cuts off what stands before
and after the law, drops lines of the site and joins a heading split over two lines.
The recognizer then reads line by line, one action per branch of its loop
(`SkipBlank`, `SourceNote`, `OtherBoundary`, `DropNoteContent`, `Structure`,
`Article`, `Point`, `Clause`, `Plain`), with its context in `ctx`; `Parse` applies
segmenter, builder and tree validator, `Chunk` the chunker and chunk validator, all
of them functions in `LegalGrammar`. `Pages` is any set of pages of lines, `Letters` what
may follow the digits of a number; the specification has names of its own (`LawSpec`).

The checks. `ArticlesSurviveCleaning`: article headings of the page reach the text, but
in the ways the property names. A block of the site's container of at most 100
characters is left out, whatever stands in it; without such a container, one block may be
taken for the whole law (`HeadingsTaken`). And outside the site's container a
phrase of `END_MARKERS` in a sentence after three articles cuts off the rest of the law;
this part (`HeadingsKept`) is about texts with an Article 1 near the beginning. Nothing compares the text with the
page: `clean_raw_artifact` warns of a text shorter than a minimum, of one without an
article, and of four named laws when they have too few. A law whose headings were recognized becomes a tree
unless a source note or appendix stands before a later heading
(`FailsOnlyPastBoundary`). Recognizer, builder and chunker, which each find the
article and clause of a line anew, agree (`CitationMatchesContext`), and every unit
of an accepted law reaches the chunks, without overlap, and passes the chunk
validator (`UnitsReachChunks`), together `ChunksAreTheUnits`. A law parsed without a warning
has all its articles (`CleanLawIsWhole`), but for laws with lettered articles, which
the count before parsing does not know.

### 2.3 CorpusBuild and ProcessedJsonl

`raw`, `norm`, `txt`, `hier`, `jsonl` and `report` are the files, each with the version
of the law it was made from, or `Torn`. A command goes through its laws
(`Clean`, `Parse`, `Chunk`, ...), writes (`WriteChunks`, `WriteReport`), may be
killed or find the disk full at every file (`Abort`, `CleanWriteFails`, ...), and a
law may be downloaded again between two (`Download`). What `LegalText` does with a
text is the constant `Fate`; what the tree validator and the models of a hierarchy let
through is assumed of it by name (`TreeFits`: a unit has a number, a text with something
in it and a parent of the level above; node ids are of one law). `ProcessedJsonl` is the
validator of the chunk file, check by check, as a function of the file, the report and the
hierarchies: what is found in a line, given the ids of the rows before it.

The checks: after three stages without a failure in the order of the pipeline the
chunk file is that of the current texts (`QuietPassIsCurrent`); whatever else was
run or killed, the rows of a law are of one version, and only the last law is cut
(`RowsOfALawAreOneVersion`); the validator, which shares no code with the chunker,
accepts what it makes and calls a file ready exactly if it does not fail and is
not empty (`ValidatorAgrees`). Short of a quiet pass the chunk file may mix laws
of several versions: chunking takes every hierarchy on disk, also that of a law whose
cleaning or parsing failed since.

### 2.4 IndexLifecycle

One collection, its plan, field indexes and points; `epoch` counts its creations. A
set-up is `CollectionExists`, `Inspect`, `Delete`, `Create`, `CreateIndex` for each
field; a run scans the file chunk by chunk (`Scan`, `Upsert`, `SaveCheckpoint`); a
validation reads schema, sample, filters and queries (`CheckSchema`, ...); the chunk
file may be rebuilt at any moment (`Rebuild`). Every request is a step of its own
and may fail; every command may be killed.

The checks: overlapping set-ups with one plan that all report success leave a whole
collection (`SetupSuccessIsWhole`); one that nothing overlaps never takes points from
a collection that matches (`LoneSetupKeepsPoints`); overlapping ones can, as the
second deletes what the first has just made. A successful run has stored the current
version of every chunk, unless the file or the collection changed since the run it
resumes began (`SuccessfulRunIsCurrent`): the checkpoint is bound to the path and
not to the content of the file. A report of a validation that is good in every part
holds as long as the collection is not replaced (`GoodReportHolds`); one whose parts
have seen two collections, because it was replaced between the reads, is not covered.

### 2.5 IndexingRun

`job` is the frame of `index_chunks` (`processed` is `processed_chunk_id_set`,
`failed` is `checkpoint_failed_ids`, and so on), `ckpt` the checkpoint file,
`points` what Qdrant has applied, `queued` what it has accepted, `lost` what it may still
receive. A run is
started fresh or resumed (`StartFresh`, `StartResumed`), dry or real, with a
limit; it reads the count, takes rows one by one, embeds and upserts batches,
writes a checkpoint after each, and reports. Between two steps the process may
die (`Crash`), the encoder, an upsert or a checkpoint write may fail; an upsert
that failed for the client may be on its way (`lost`) and arrive at any later time, also
during another run (`UpsertRaises`, `Arrive`); one that was acknowledged is applied later
(`Apply`).

A chunk is its id, a point the run that wrote it, a row one of four kinds (it can
be prepared, its preparation raises, the law filter drops it, or it makes the
stream raise). Vectors, payload fields, timings and the wording of issues are
left out.

The checks. `RecordsAreTrue`: a chunk recorded as processed is in Qdrant
(`ProcessedIsStored`), and the two lists of a checkpoint never overlap, so that its own
validator never stops a run (`ProgressConsistent`). `ReportIsTrue`: `success`
leaves nothing out (`SuccessMeansIndexed`), and every planned chunk is processed or
named as failed (`EveryPlannedChunkAccounted`). `StepsRespectRecords`: only
a request that its client gave up, and that arrives late, brings an older payload
back (`NoStaleOverwrite`), resumes only add
progress (`CheckpointOnlyGrows`), `--limit` bounds the corpus across resumes
(`LimitBoundsCorpus`), a dry run changes nothing (`DryRunIsReadOnly`), and a count
warning means that the count could not be read or that an accepted upsert is not applied
yet (`WarningMeansPending`).
`Convergence`: an operator who keeps starting runs over the whole corpus gets every
chunk stored that can be, up to the row where the file cannot be read on.

### 2.6 AskRequest and AskPromise

`at` is the await the worker's coroutine is in, `outer` and `stage` the pending
timers of `asyncio.wait_for`, `threads` the threads of the worker's loop,
`route` the response. Time is counted in ticks; a timer that is due fires before
the clock moves on, and two that are due in one tick fire in either order. What
the evidence rules and the citation check decide is a nondeterministic verdict
here; `NaiveRag` computes it.

The image runs Python 3.11, whose `asyncio.wait_for` returns the result of a call
that has just ended and drops a cancellation that arrives at that moment
(`WaitEnds`, `OuterDue`); `outer = 0` stands for a retrieval deadline that is no
longer pending, or was lost in this way. A thread cannot be cancelled: after a
timed out load or embedding `asyncio.run` joins it (`Join`).

The checks. `ClientIsToldWhatHappened`: an answer in time whatever hangs
(`AnsweredInTime`), a degraded answer says so (`DegradedIsVisible`), Qdrant is blamed
only if it was asked (`QdrantIsBlamedRightly`), and what a step's timeout does not
bound (`TimeoutReportedAfterThreadEnds`). `KeepsPromiseInTime`: the abstract promise,
one answer, and a legal one only with allowed evidence and checked citations, with
its liveness. `WorkerEnds`: an abandoned worker ends once its threads do. Under the
production budgets a load timeout is never reported, as the retrieval deadline comes
first (`LoadTimeoutUnreachable`, proved).

### 2.7 NaiveRag: Fusion and Evidence

`Retrieve` takes any dense and sparse list and fuses them (weights, ties, the quotas of
`select_with_source_quotas`); `FallBackToSparse` and `RetrievalFails` are the other ends
of retrieval. `Gate` builds packets, deduplicates, cuts and selects; `GenerateText` lets the
model write any numbers, and the guard checks them; `Respond` maps twice, to the
service's and to the route's response. A chunk carries the gaps that the checks tell
apart (missing fields, flags, texts of articles, lengths), not its text.

The checks: the fused list keeps the head of each retriever's list, repeats
nothing and is as long as it can be (`SourcesAreHeard`); each citation of an answer is
the chunk whose text stood under that number in the prompt, complete and in force
(`AnswerIsGrounded`); the client is told that there is no sufficient basis only for one
of five reasons (`FallbackIsJustified`); an answer without caution is not drawn
from cut or gappy evidence alone (`PlainAnswerHasCleanEvidence`).

### 2.8 DenseClients

Clients are numbered in the order of their creation; `current` is
`DenseRetriever._qdrant_client`. A question queries, and after a transient failure
closes whatever client is current *then*, replaces it, backs off and queries
again. Every await is a step of its own, where other questions run and where the
retrieval budget may cancel this one. A query on a closed client fails; one on a
client that another question has used may fail, because its connections belong to
the event loop of that question (httpx). Qdrant itself may fail any query.

The checks. `SharedClientHeals`: a closed shared client is being replaced, or whoever
closed it was cut short (`ClosedCurrentIsBeingReplaced`); a question that overlaps no
other, and that neither Qdrant, the network nor its deadline fails, needs one query more
than the first, whatever earlier ones left behind, unless the replacement of the
client it found raises: closing connections of a dead event loop may, and no retry
catches that (`AloneRequestHeals`, `RecreateRaises`); clients are dropped unclosed only in races
(`ClientsLeakOnlyInRaces`). `EveryRequestEnds`. What the model also
shows, and no document denies: two questions that overlap can use up each other's
attempts while Qdrant is healthy.

### 2.9 LazyOnce and ServiceWarmup

`LazyOnce` is double-checked locking with builds that may fail. `ServiceWarmup`
instantiates it twice, for the service (users: the event loop and the start-up
thread) and for the encoder (users: the workers), and adds the worker of a
warm-up, its timeouts, the endpoint's timeout and the report. The event loop is a
resource: while it resolves the service it does nothing else (`LoopFree`).

The checks. `OneOfEach`: at most one service and one encoder are built, whatever
fails, is given up and asked for again (`BuiltOnce`), and whoever was given one was given
the one that is cached (`AllShareOne`). `CallsAreAnswered`: every call is answered
though its load never ends (`EveryCallAnswered`), "warmed" is what the deployment
preflight takes it for (`WarmedIsWarm`), and a call that found the encoder reports no
load (`HitMeansNoLoad`).

### 2.10 QualityGate

`Suite` writes a report over some dataset and any outcome of its cases (`SuiteRaises`
leaves the old one); `Review` adds a person's verdict on a case of the latest report to
the manifest. The gate reads both and is a function of them, so it is evaluated in every
state: the manifest may be of earlier suites. Thresholds are those of
`configs/retrieval/quality_gate.yml`.

The checks: where the gate passes, every case kept the rules and a person stands behind
the answers (`PassedGateIsSafe`); a verdict counts only for the kind of outcome it was given
for, and no finding gets lost (`ReviewsAreHeard`); a good baseline passes, also if it
has only fallbacks, or none (`GoodBaselinePasses`). What the gate cannot know, and the
model shows: a review of an earlier answer with the same decision, blocking and caution
counts for the new one.

### 2.11 Conversations and ConversationStore

A handler runs on the event loop from its first statement to its answer, so each API
process has one call at work; with PostgreSQL there are several processes. Each
statement is a step: `InsertRow`; `LockRow`, the UPDATE or DELETE that finds its row,
waits for whoever has it locked and looks again; `NextStatement`; `Commit`; for reads
`SelectRows` and one `FetchMessages` per conversation, each of which sees what is
committed by then. A call may fail anywhere (`CallFails`): what its transaction has
done is rolled back some time later (`RollBack`), or the commit had arrived
(`CommitUnheard`). In memory mode a handler is one step (`Handle`), and `Restart`
empties the memory. A call's number stands for its time, its message, its title.

`ConversationStore` is what a caller may rely on, for either repository: a call takes
effect as a whole, at most once, while it is open; it is refused only if there is
nothing to change; one that failed has all of its effect or none; a deleted conversation
does not come back; and only what is not durable is ever lost.

The checks: `Conversations` implements it (`KeepsConversationPromise`, proved too); reads,
which take several statements and are no snapshots, take account of all that was
acknowledged before them, with messages in an order in which they can have been sent, and
show only the caller's own (`ReadsAreRecent`); every call is answered, and processes never
wait for each other's rows for ever (`CallsEnd`). What the model allows, because the code
does: a conversation deleted between the two SELECTs of a read appears without
messages; and an update time goes back when the call that read the clock first commits
last.

### 2.12 Workspace

One page: its conversations, the questions it has open (`asks`), the one the stop button
is about (`current`), and for each conversation a mirror queue. `Submit`, `Stop`,
`Select`, `Delete` and `Reload` are the user's; `Answer` and `AskFails` come in any order;
a queue sends its first message in steps (`StartSync`, `CreateArrives`, `Created`,
`PostArrives`, `Missing`, `SyncFails`), between which anything else may happen; the
backend may restart and lose all (`Restart`).

The checks: each answer is shown where it was asked and as it went
(`AnswersShownAsTheyWent`); a conversation of the backend holds messages of one
conversation, none twice, in order (`MirrorIsInOrder`); the backend keeps no
conversation the page deleted and no second one of a conversation, unless a lost request
hid it (`NothingLeftBehind`); a follow-up is searched with the question before it, unless it is so long
that nothing fits beside it (`FollowUpHasItsTopic`): a question of 3,999 or 4,000
characters is searched alone, although page and API allow it. A post that the page gave up
on and that arrives later is not modelled.

## 3. Runs

| Run | Instance | States, time | What it shows |
|---|---|---|---|
| `indexing` | 6 rows of every kind, ids in several of them, batches of 2, limits 2 and 9, 3 fresh runs, 2 faults, fair | 468,486, 124 s | records, reports and steps under crashes and lost answers; everything is indexed in the end |
| `ask_question` | one question, a load budget equal to the retrieval budget; only time is fair | 68,123, 6 s | every property of a question, the promise included |
| `clients` | 2 questions, 3 attempts, fair | 24,667, 4 s | the shared client; retries end |
| `warmup_calls` | 1 call and the background warm-up, fair | 7,609, 3 s | answers, reports, one encoder and one service |
| `crawl` | 2 laws of one host and an untrusted one, 2 tasks, delay 2, 1 retry, 2 runs, fair | 70,006, 15 s | spacing, files, ends, and the audit of every state |
| `legal_text` | some thousand short laws, and laws between lines of the site | 217,948, 35 s | units from page to chunks |
| `corpus_build` | 2 laws of 2 versions, 3 commands, 1 fault, foreign files | 555,031, 21 s | the chunk file and its validator |
| `index_lifecycle` | 2 chunks, 2 set-ups, 2 plans, 2 fields, 3 commands, 1 fault | 431,689, 10 s | what a success of each command is worth |
| `answer` | 4 chunks, lists with repeated and missing ids, final list of 3, 2 selected | 757,869, 20 s | lists, citations, fallbacks |
| `web` | 2 conversations, 2 questions of 2 lengths, 1 fault | 3,126,258, 85 s | page and mirror |
| `quality_gate` | 4 datasets, 2 suites, any reviews | 367,611, 68 s | what a passed gate means |
| `conversations` | 2 processes, 3 calls, 2 owners, 1 fault, both repositories, with and without authentication, fair | 706,697, 90 s | the promise, reads, ends |

Bounds. Indexing: `MaxRuns` bounds fresh runs and `MaxFaults` faults; one run more
than faults, so that two crashes before a first checkpoint leave one; the corpus makes
an id appear before and after its twin in batches with a partial last one. Ask: a tick is
15 seconds, so the production values are 6 (ask, 90 s), 4 (retrieval, 60 s), 8 (load,
120 s), and so on; the smaller budgets are rounded up to a tick, which keeps their order.
`ask_question` lowers the load budget to 4, the retrieval budget: then both end in the
same tick, either may be the first, and every path of the production values is there too.
Nothing else in `AskRequest` is bounded; the clock stops when nothing is left to happen.
Clients: two questions with three attempts let each close what the other replaced, twice;
the theorems cover any number. Warm-up: one call and the background task give an abandoned
worker and a competitor at once. Crawl: two tasks contend for a host, and the second run
meets every pair of files the first can leave behind; more tasks than slots are left to the
theorems. Legal text: `ShortText`, `BodyText` and `EarlyWindow` count lines instead of
characters (1, 3 and 5 of them in the run); any two kinds of line after three beginnings of a law, followed by a common
one, put each branch of the recognizer behind each other one. Corpus: three commands
are one pass, and with one of them repeated or partial, two laws the shortest mixed
corpus. Lifecycle: three commands let two set-ups and a run, or a run, its resumption
and a validation, overlap. Answer: quotas of 1, 1 and 1 of 3 stand for 5, 4 and 1 of
10, weights 2 and 3 for 1.0 and 1.5. Web: two questions are enough for an answer to
arrive after a switch, a stop, a deletion and the next question; of lengths up to 4, 2 leaves room for an earlier
question and 3 leaves none. Gate: a
second suite makes every review one of an earlier report. Conversations: three calls are a
writer, a second one that waits for its row, and a reader that overlaps both; the theorem
covers any number.

`SYMMETRY` is used for interchangeable set-ups and conversations, in runs without
liveness. `CHECK_DEADLOCK FALSE` is used where questions, commands, pages or calls are
over: these models end, they do not loop. Only the indexing run goes on for ever.

Fairness, in the six runs that have liveness. Indexing: the process takes its next step,
Qdrant applies what it accepted, the operator starts again; faults are bounded and never
fair. Ask: time passes and timers fire (`TimeSpec`), and nothing else need ever happen;
`WorkerEnds` assumes besides, in its own statement, that the worker's code and its
threads go on, because they are computation; Qdrant and the language model are
never fair. Clients: a request that has begun goes on, as every await in it has a
timeout. Warm-up: builds of the service end, the loop goes on when it can, the
endpoint's timer fires; worker threads may hang forever. Crawl: time passes, tasks go
on, and requests end by httpx's timeout at the latest; nothing is assumed of the order
in which semaphores and locks serve their waiters. Conversations: some call goes on if one
can, or PostgreSQL ends a transaction whose connection is lost; which one is not said,
and the number of calls is bounded.

## 4. Statements the code does not keep

Met while modelling. Where a configuration is named, TLC refutes the property with
it, beside the modules: `tlc -config <name>.cfg` with the module the name begins with
(`-continue` where one configuration has several of them).

* A cold model load within its own budget is ended by the retrieval budget
  (`LoadHasItsOwnBudget`, `AskRequest_refuted`).
* The budget of the sparse fallback bounds nothing, as the retriever never
  suspends (`FallbackIsBounded`, `AskRequest_refuted`).
* After a fallback a request reports the encoder it loaded itself as loaded before
  (`LoadedBeforeIsOfTheStart`, `AskRequest_refuted`).
* After a load timeout the warm-up reports an encoding that was never started
  (`EncodeStatusTrue`, `ServiceWarmup_refuted`).
* The event loop waits for the background warm-up's build of the service
  (`ReadinessNotBlocked`, `ServiceWarmup_refuted`).
* A source note or appendix inside a chapter ends the chapter's span; when the law goes on
  after it, the next article lies outside its parent and the whole law fails
  (`src/processing/legal_hierarchy_builder.py:192`), although the tests of recognizer and
  segmenter let articles follow a note (`tests/unit/processing/test_legal_heading_recognizer.py:244`,
  `test_legal_span_segmenter.py:278` there) (`NoteEndsAtNextArticle`, `MCLegalText_note`).
* The parser's warning of an empty article never reaches the chunker
  (`legal_chunker.py:209`), so the chunk is not flagged as the chunk model says
  (`legal_chunk_models.py:60`) (`EmptyArticleIsFlagged`, `MCLegalText_empty`).
* Article text left out as repeated may stand nowhere in the prompt, when the packet it
  was taken from is not selected (`RepeatedParentIsShown`, `MCNaiveRag_parent`).
* The stop button stops the question asked last, which need not be one of the
  conversation that is shown (`StopReachesWhatIsShown`, `MCWorkspace_stop`).

Without a configuration:

* `routes/conversations.py:40` says that the list is ordered by most recent update. It is
  ordered by update times, which are taken before a call waits for its row, and may go back.
* `rag_pipeline.py:56` says the model is called for plain answers only; it is called for
  `answer_with_caution` too.
* A report of the evaluation that contains one of its own labels for secrets
  ("authorization-marker", "bearer-token-marker") is refused by `write_report`.
* The crawler's debug mode reports `failed=0` for an untrusted URL.
* The frozen generation baseline checks the manifest of its retrieval run only: cases of a
  run that was killed before it wrote its manifest are accepted under the old one.

## 5. Proofs

All theorems are checked to the last leaf; none is assumed. They hold for every value of
the constants that satisfies the named `ASSUME`s of the modules, which say what the
program's own types and settings guarantee: the corpus is a sequence of rows, budgets,
attempts and texts are not empty, names of different things differ, the hierarchies are
such as the tree validator lets through, files from elsewhere are finite, a question takes
along at least two messages of context (the code: six), the gate reads reports and
reviews of the shapes its parsers admit.

* `IndexingRun_proofs`: `TypeOK`, `RecordsAreTrue`, `ReportIsTrue`, `NoStaleOverwrite` and
  `StepsRespectRecords`, for every corpus, batch size, limit and number of faults.
  `ProcessedIsStored` is not inductive: the invariant adds that what memory records is
  stored too, that the batch holds rows already taken, and that run ids in Qdrant never
  exceed those minted; accounting needs that every row taken is recorded, in the batch or
  filtered. `StepsRespectRecords` needs that a run that goes on from the checkpoint carries
  all of its progress (`GrowInv`), that points are never fewer than before the run
  (`CountInv`), and that the rows planned are counted against the limit (`LimitInv`).
* `Ask_proofs`, the request: `TypeOK`, `AnsweredInTime` (no tick happens while the ask
  timer is due), `KeepsPromise` (what `result` will say is already supported by
  `verdict` and `cited` when the coroutine ends, and both only change before),
  `LoadTimeoutUnreachable` (while the model is loading the retrieval deadline is
  still pending and comes first), and `ClientIsToldWhatHappened`: whatever blames Qdrant
  comes after a query (`Blame`), and a timeout of the encoder is passed on after its thread
  was joined (`Joined`).
  What the answer rests on: all properties of `NaiveRag`, for any candidate lists, contents,
  weights, quotas that fit and bounds. The fused score is a fraction compared exactly, and
  two candidates with one score differ in rank, so the candidates are in one order
  (`CandidatesAreOrdered`); each quota adds the head of its list, and none is cut off
  because together they fit (`AppendFromIs`, `QuotasAreServed`: `SourcesAreHeard`). Chunk by
  chunk, the bundle holds packets worth showing, and one as soon as a usable chunk was seen
  (`BundleInv`); a packet of a bundle is never rejected by the selection, so a fallback of
  the gate means an empty bundle (`SelectedIs`, `DecisionIs`). The invariant (`RagInv`)
  keeps what the gate computed until the response. The specification has names of its own
  (`RagSpec`) for the two modules to be extended together.
* `Shared_proofs`, what all questions share, for any number of calls, questions and
  attempts. `OneOfEach`: on the encoder and on the service every step of the
  warm-ups is one of `LazyOnce` or leaves it alone, and there the lock is held exactly by
  the user inside, and a build runs only while nothing is built. The
  safety half of `CallsAreAnswered`: `WarmedIsWarm` and `HitMeansNoLoad` need to know what a
  worker saw when it began and what it will report (`Warm`, `ReportsTrue`). And
  `SharedClientHeals`: `AloneRequestHeals` needs to know that a question alone owns the
  newest client after its own replacement: nobody else has closed or used it, so only its
  first query, and the replacement after that, can fail;
  `ClientsLeakOnlyInRaces` that without overlap the client a question closes and replaces
  is the shared one. The specification of `DenseClients` has names of its own
  (`ClientsSpec`) for the two modules to be extended together.
* `Laws_proofs`, the crawler: all safety properties of `Crawl`, for any registry, number of tasks,
  delay and retries. The semaphores count the tasks past them (`Counted`), which makes
  `PermitsSuffice` a fact about cardinalities; `RequestsSpaced` needs that the one task
  asleep for a host holds its lock and sleeps long enough (`Locking`);
  `SkippedIsWhole` that a page is never older than its metadata unless the law is
  being crawled again (`Working`). The concurrency is assumed to be at least 1, which
  the command does not check: with 0 it waits for ever. `AuditAgreesWithSelector` follows
  for whatever lies on the disk.
  The text of a law, in the same module: all four safety properties of `LegalText`, for
  every set of pages, laws of any length and any lengths of the cleaning step. What filters
  keep, builders build and links reach is defined by recursive functions; the library's
  induction cannot be instantiated, so the first lemmas (`KeptIs`, `BuiltDef`, `LinkedDef`,
  `FlattenIs`) settle them once, by least counterexample. The inductive invariant is
  `LawInv`: headings come in the order of their lines, and the article and clause each of
  them says it belongs to still stood open when it came (`Stands`), so that the recognizer's
  context, which forgets spans, and the spans, which forget context, can be compared. A span
  ends at the next heading of its level or above, or at a boundary (`SpanIs`); without a
  boundary that ends spans before a later heading, the parent the builder selects is the
  nearest heading above that outranks the unit and still stands, and contains it
  (`ParentEncloses`, `NeverRefused`). The tree so built is sound after each unit
  (`BuildsOn`), whence each of the ten checks of the tree validator finds nothing
  (`TreeFine`) but a law without articles: `FailsOnlyPastBoundary`. The chunker takes
  children in order, so its rows follow each other and cover every article, clause and point
  (`WholeCutIs`), the chunk validator refuses none (`NoChunkErrors`), and a row's article
  and clause are the ones that stood (`CitedIs`): `ChunksAreTheUnits`. `CleanLawIsWhole`
  is a count: article nodes are at counted lines, no two at one, and as many.
  `ArticlesSurviveCleaning` follows the steps of `Cleaned` backwards, and what is taken of a
  page holds the blocks that were joined (`TextHolds`, `WholeHolds`). Stated with the end
  phrase after Article 1, as it first was, it is false: a phrase after three references in
  the preamble cuts off the whole law.
* `IndexLifecycle_proofs`: every property of set-ups, runs, validations and edits of the
  chunk file that interleave. Progress that no set-up has disturbed, of the run or of the
  checkpoint, is in the collection at the version of the file (`FreshInv`, for
  `SuccessfulRunIsCurrent`); while a group of set-ups has one plan and none has failed, the
  collection is whole, one of them answers for what it lacks, or none has come to the
  payload indexes yet (`GroupInv`, for `SetupSuccessIsWhole`); a
  set-up that runs alone deletes only what does not fit its plan (`LoneInv`, for
  `LoneSetupKeepsPoints`); what a validation has seen good stays so in the collection it
  saw (`CheckInv`, for `GoodReportHolds`).
* `Conversations_proofs`: `TypeOK`; that `Conversations` implements
  `ConversationStore`; and `ReadsAreRecent`: for any number of processes, calls and faults.
  A call has its effect in the step that commits it, statements after it was checked; the
  invariant therefore says that a transaction past its first statement holds the lock of
  its row and that the row is still there and still the caller's (`Locked`), that the id of
  a conversation being created is new (`NewIds`), and where a call is determines what it has
  been answered (`Stages`). Each action is then one of the store's, or unseen. For
  `ReadsAreRecent`, rows are tied to the calls they are of (`RowIsMade`): until a restart
  loses memory, each effect that was acknowledged before a call is in the rows it reads
  (`RowIsTold`), renames of one conversation take turns because of the lock of its row
  (`RenamesTakeTurns`), and what a read has collected so far is no older (`ReadIsTrue`).
  The lemma about ORDER BY (`InOrderIs`: each row once, in the order of a key) is a
  pigeonhole argument.
* `Workspace_proofs`: all properties of the page and its mirror, for any number of chats,
  questions and faults. Each message fits the question it is of, and a question still open
  is the last of its conversation (`PageInv`, for `AnswersShownAsTheyWent`); what is queued or
  stored was said, and in this order (`MirrorInv`, for `MirrorIsInOrder`);
  `NothingLeftBehind` is inductive as it stands. `FollowUpHasItsTopic` rests on lemmas
  about filtering and the most recent messages of a sequence, by least counterexample.
* `Offline_proofs`, the corpus commands: `QuietPassIsCurrent` and
  `RowsOfALawAreOneVersion`, for any number of laws, versions, commands and faults, and
  whatever LegalText makes of a text. Where a stage has ended quietly its files are of the
  last download, but for laws that failed in the same stage again (`StagesInv`); a chunking
  of all laws then has the rows of those it has gone through (`ChunksInv`), which needs that
  no law comes twice in the order. For the second property the lines a chunking has
  collected hold each law it has gone through whole, in one version, and no other (`Tidy`);
  what a kill leaves of them is a beginning of tidy lines. That rows are of their law is
  proved of the definitions, by least counterexample over the sequences that are joined.
  `ValidatorAgrees` relates the two programs through the file. For the chunker: a row is that
  of a unit of a tree that fits (`RowStands`), so its fields, citation, source, parents and
  repeal marks pass each check (`RowIsRight`), its id is new because the nodes of a law are
  chunked once and those of two laws differ (`Keyed`), and the report stays that of the file
  (`ReportInv`). For the validator: totals are sums over finitely many lines (`FilesInv`,
  `TotalIs`), so no error means none in any line, and every line is a row with its payload
  (`ReadyIs`).
  The gate, in the same module: all its properties, for every dataset, outcome, set of
  required cases and order of suites and reviews. It is a function of two files, so its
  properties are facts about one state; the invariant is what a reviewer leaves behind:
  the verdict of a fallback stands on fallbacks only, and no claims with it. The
  specification of `QualityGate` has names of its own (`GateSpec`) for this.

Only model-checked: liveness (`Convergence`, `WorkerEnds`, `KeepsPromiseInTime`'s,
`EveryRequestEnds`, `EveryCallAnswered`, `RunEnds`, `CallsEnd`), which with `ENABLED` is
out of this prover's reach. Every safety property a run checks is a theorem.

## 6. Plan

1. Several questions in `AskRequest`, and the thread limiter of the route.
2. The frozen benchmark baselines (`src/evaluation/`): what is verified when, against
   files that change in between.
3. `FixedWindowLimiter`: the quota per window and what Retry-After promises.

## 7. Not modelled

* Question rate limiter: one function under one lock and without an await; its arithmetic
  is a matter for unit tests.
* Reranker, offline retrieval workflows, retrieval metrics, frozen baselines, cleaning
  diagnostics: sequential computations over files, without the states this project is
  about.
* Settings, readiness, health, deployment scripts: parsing, single calls, responses.
* Text, regular expressions, scores, vectors, titles, the wording of reports: abstracted to
  what the properties tell apart, or left out.
* Behaviour of httpx, Qdrant, anyio, asyncio and PostgreSQL is modelled only as far as
  the code relies on it, and marked external.

Hazards no property covers (`hazards` in `PROJECT.json`): the order of the retrieval
deadline and the deadlines inside it, which the code does not keep as documented
(section 4); and threads abandoned by the route, whose number anyio's limiter does
not bound. Covered in part only, as their `note` says: a resume after the chunk file was
rebuilt, validations of a collection that is replaced meanwhile, posts of the page that
arrive after it gave up on them, and reviews of an earlier answer with the same outcome.
