# A TLA+ model of the AI intelligence ingestion pipeline

This directory specifies the parts of the pipeline whose correctness depends on
the order of events: the five ingestion pipelines, the crawlers that feed them and
the master run that executes them, the lease coordinator that keeps parallel
workers apart, the LLM extraction engine with its providers, cache and circuit
breakers, and the storage repositories; and two algorithms that these rest on,
chunking and entity resolution. TLC checks each on small instances; TLAPS proves the statements
that matter most for every instance. Paths are relative to the repository root;
`ai_intel/` stands for `src/ai_intel/`.

## The system

| Component | State it keeps | Operations | What is hard |
|---|---|---|---|
| Work leases, `ai_intel/storage/redis_queue.py` | Redis keys `lock:target:<id>` with an expiry; a dictionary per process; one heartbeat task per worker | `claim_target`, `renew_lease`, `release_target`, `recover_dead_workers`, `HeartbeatTask` | two-command renewals and releases, expiry between them, errors that switch to the dictionary, dead workers |
| LLM extraction, `ai_intel/llm/orchestrator.py`, `cache.py` | document and chunk cache; the payloads of a running extraction | `extract` | concurrent extractions, retries, fallback, partial failure, lists shared between payloads |
| Circuit breaker, `ai_intel/llm/circuit_breaker.py` | state, failure count, time of the last failure, per provider | `can_execute`, `record_success`, `record_failure` | late answers and probes in any order |
| Record storage, `ai_intel/storage/{base,memory,postgres}.py`, `sql/schema.sql` | `canonical_records` and a table per record type; a dictionary in memory | typed upserts, `upsert_record`, `batch_upsert_*` | two-table transactions, several unique columns, rollbacks, the pool, lost replies |
| Crawl queue, same files | `crawl_targets`; a deque and two sets in memory | `enqueue`, `claim_batch`, `mark_done` | concurrent claims, targets claimed by a worker that dies |
| Pipelines, `ai_intel/pipelines/{research_papers,startups,products,news,jobs}.py` | counters, keys seen in this run | `ingest` | one record or crawler failing, steps in the wrong order (key marked as seen, mapping logged, record stored) |
| Master run, `ai_intel/pipelines/runner.py` | run manifest | `run_all` | exception between start and completion, storage fallback, export |
| Crawlers, `ai_intel/crawlers/`, with `utils/retry.py` | none of their own; requests in progress | `fetch_products`, `fetch_jobs`, `fetch_startups`, `fetch_mappings`, `fetch_by_ids`, `iter_papers` | answers in any order, retries, broken pages, listings that grow while they are read, substitutes |
| GitHub metrics, `ai_intel/github/metrics.py` | requests in progress | `fetch_metrics` | several at a time under a semaphore, partial failure |
| Entity resolution, `ai_intel/resolution/` | the alias graph and the table of normalized names, fixed once built | `add_alias`, `resolve` | order of signals, names that are aliases of others |
| Semantic chunker, `ai_intel/llm/chunker.py` | none | `chunk` | limits, blocks above the limit, repeated context |
| Quality audit, `ai_intel/validation/quality.py` | none | `audit_run` | a window of its own |
| Freshness, cleaning, validation, exporters, schemas, settings, CLI | none | pure functions, files | boundaries |

How they interact: `run_all` runs the five pipelines one after the other, each
pipeline fetches candidates, builds and validates records, and calls the typed
upsert of the repository it was given. The crawlers of products and jobs run side
by side under `asyncio.gather`, those of startups and the feeds of news in turn,
and the research pipeline asks a dataset, arXiv and GitHub. After the pipelines
come one extraction probe, the audit and the export.
Several processes may share a PostgreSQL database and a Redis
server. The lease coordinator, the crawl queue and `batch_upsert_*` are library
code that the pipelines do not call yet; the orchestrator is called by the CLI
and the probe. So leases and extraction are composed with their environment only,
while the master run, the pipelines and the repositories are composed with each
other: `MasterRun` extends `IngestPipeline`, in which an upsert is one step that
stores a record in its row and answers whether the row is new. That this is what
the transactions of PostgreSQL amount to is what `RecordStore` shows, by
implementing `RecordService`.

What makes each correct: a target is processed by one worker and is never stuck
with a dead one; an extraction never asks again for a chunk it has an answer for, never mixes
documents and always ends; what sources have is found, in their order, and made up only where it
is missing; names in records resolve to themselves; the tables of the database
agree; every record is fresh, traceable and counted once; a run ends, and reports
what it has done.

## Modules

| Module | Contents |
|---|---|
| `LeaseService` | the abstract promise of the coordinator: a target goes from one holder to the next through a moment without one |
| `WorkLease` | `RedisWorkCoordinator` and `HeartbeatTask` |
| `WorkLeaseProofs` | theorems about `WorkLease` |
| `CircuitBreaker` | operators on one breaker |
| `LLMProviders` | the five providers and the chain of the command line |
| `SemanticChunker` | `SemanticChunker.chunk` as a function, and what it has to keep |
| `LLMOrchestrator` | `LLMOrchestrator.extract` run by concurrent tasks |
| `LLMOrchestratorProofs` | theorems about `LLMOrchestrator` and its breakers |
| `RecordService` | an upsert as one step of a table: of typed rows, or, for the repository in memory, of natural keys |
| `RecordStore` | the PostgreSQL upserts and the loops that call them |
| `RecordStoreProofs` | theorems about `RecordStore` |
| `SourceFetch` | how products, jobs, startups and news gather their candidates: 12 crawlers, the feeds, retries |
| `SourceFetchProofs` | theorems about `SourceFetch` |
| `PaperHarvest` | how the research pipeline gets its papers, links and stars |
| `PaperHarvestProofs` | theorems about `PaperHarvest` |
| `EntityResolver` | the alias graph, `resolve`, and the names in records |
| `EntityResolverProofs` | theorems about `EntityResolver` |
| `IngestPipeline` | the `ingest` methods of the five pipelines |
| `IngestPipelineProofs` | theorems about `IngestPipeline` |
| `MasterRun` | `MasterPipelineRunner.run_all`, on top of `IngestPipeline` |
| `MasterRunProofs` | master runs are runs of pipelines, and what follows |
| `MCWorkLease`, `MCLLMOrchestrator`, `MCRecordStore`, `MCSourceFetch`, `MCPaperHarvest`, `MCEntityResolver`, `MCMasterRun` | constants for TLC, and facts about the algorithms that TLC evaluates |

Operators whose name has a suffix (`Locked_Early`, `StoreChunk_Never`, ...) are
deliberately wrong variants of the operator they follow, with the same
parameters. No specification uses them: putting one in the place of the right
operator makes TLC find the violation of a property, which shows that the
property is sensitive to that part of the code. `PROJECT.json` pairs them.

### WorkLease

State: `redis` (owner and remaining time of every key), `local` (the
`_in_memory_locks` of every process: owner and age), `main` and `beat` (where the
worker's own task and its heartbeat are), `lease` (the time left of the lease the
worker was last *told* it has), `faults`. Every `await` on Redis ends a step, so
`claim_target` is `ClaimSend` and `ClaimSet`; `renew_lease` is `HeartbeatWake`,
`RenewGet` and `RenewExpire`; `release_target` is `ReleaseSend`, `ReleaseGet` and
`ReleaseDelete`. An error in any of them (`ClaimError`, `RenewError`,
`ReleaseError`) happens before or after the server has carried the command out
and leads to the in-memory part of the same method, as the `except` branches do.
Without Redis each method is one step. `Tick` lets one unit of time pass, expires
keys, and is held back while a call or a timer is `MaxLatency` late. A renewal and
a claim count the lease from the time read at their beginning, as the tokens do.
`Abandon` and `Crash` are the end of a task and of a process without a release.
Two small abstractions: a worker that releases or abandons a target gives up the
command of its own that is in flight, which a server could still carry out; and one
`MaxLatency` bounds GET and EXPIRE alike.

`DecodeResponses` distinguishes clients that return `bytes` from those that
return `str`: for the latter `.decode` raises on the name of another owner.

### CircuitBreaker, LLMProviders and LLMOrchestrator

A task runs without interruption from one `await` to the next, so `extract` has
four actions: `Extract` (call, document cache, chunks up to the first provider
call), `Answer` and `Fails` (the provider returns or raises, and everything up to
the next `await` or the end), and `Wake` (the backoff is over). `heap` holds the
lists that payloads consist of, because `_merge_chunk_payloads` puts the list of
the first payload into the result and extends it. What a provider finds in a
chunk is represented by the chunk's text. A breaker's clock is relative and
stops at the cooldown; its failure count stops at the threshold, beyond which
the code only compares.

A provider is what its calls can come to. `OfStatus` is the ladder of statuses in
every `extract` method, and a call without a key ends in a final error. Gemini's
reply may be any JSON, that of the others is an object; an array is cached like a
dictionary and makes `_merge_chunk_payloads` raise `AttributeError` when there is a
second payload. `CliChain` is the chain that `main.py` builds.

Left out: the confidence score, `RetryMetrics` and the semaphores of the
providers, which only delay calls. `extract_dict` is `extract` without a model.

### SemanticChunker

A text is a sequence of blocks with lengths, a chunk a sequence of blocks. The
chunks that the instances of `LLMOrchestrator` use are those `Chunk` makes
(`ChunksAreMade`). For all texts of up to three blocks around the limit TLC
evaluates three assumptions of `MCLLMOrchestrator`: no block is lost, doubled or
moved (`ChunksKeepBlocks`); a chunk with more tokens than the limit has one block of
its own (`ChunksAreLimited`); context only opens a chunk and never is one
(`ContextOpensChunks`). Its context may take a chunk above the limit by the
context's length, which the code counts without its brackets.

### RecordStore

A typed upsert is `Acquire` (a connection of the pool), `UpsertCanonical`, the
second statement, which is `LockRow` (it has the conflicting row, or inserted one)
and `UpsertChild` (it has passed the primary key), and `Commit`. `canon` and `child`
are the committed tables. What an open transaction has written follows from how far
its client is, and so do the locks it holds. `UpsertChild` raises when another row
bears the id of the canonical record (`BreaksPrimaryKey`): the primary key of all
five typed tables is `canonical_record_id`, while their `ON CONFLICT` names the URL
or name. It waits when an open transaction is about to take the id away from its
row (`Blocks`); a circle of those who wait so is broken by the server
(`BreakDeadlock`). `arxiv_id` and `content_hash` are unique as well, but are what
the natural keys are made of, so the primary key is broken whenever they are.

Whether the record is new is decided, as by `(xmax = 0)`, in the second statement,
and kept in `pc` ("inserted" or "updated") until `Commit` returns it. A row has two
columns: `rec` stands for those that every update overwrites, `kept` for those that
some updates leave alone. `Keeps` are the records that do: all jobs
(`first_seen_at` is not in their `DO UPDATE SET`), and startups without a value for a
column under `COALESCE`.

`Abort` is a lost connection or a cancelled statement;
`CommitUnheard` is a commit whose reply is lost. The clients in `Batching` are
`batch_upsert_*`, which ends at an exception; the others are loops of a pipeline,
which counts it and goes on. The records of a batch are those that reach the upsert.
`UpsertRecord` is `upsert_record`, the first statement alone, on a connection of
the pool for one step. The five typed upserts have the same shape; `KeyOf` and
`RowOf` stand for the natural keys of `ai_intel/schemas/records.py` and the conflict
column of the table.

### SourceFetch

A crawler is a record of what distinguishes it: attempts, what is retried, what an
invalid entry and a failed request come to, how it fills a short page. `Start`,
`Respond` and `Wake` are a request under `RetryPolicy.run_async`; `ResultOf` is
what the crawler then makes of the page, `Gather` the end of `asyncio.gather` or of
the loop over sources, with the samples of the news pipeline. Pages are sequences
of entries that are usable, blank or invalid. Wellfound reads none of them: the
selector of `wellfound_jobs.py:47` is not valid CSS, so `soup.select` raises on every
page and the samples take its place (`WellfoundJobs`). The regular expressions of
`news.py` are taken to match item by item. The length of a wait is left out, and
so is a limit of 0, for which a startup run takes one candidate.

### PaperHarvest

`ReadRows` reads the dataset of links page by page, `ReadBatch` asks arXiv for the
papers with these ids, `ReadListing` fills up from the listing, to which papers are
submitted meanwhile (`Arrive`), `JoinPapers` joins, and `Gather`, `Ask`, `Respond`
and `WakeFetch` ask GitHub about the repositories of one paper, `Slots` at a time,
before `Build` makes its record. `repositories` is the ranked tuple that
`_refresh_repository_metrics` is given, kept from `Gather` to `Build`. A request may fail at every point: a page of links
ends the links, a batch is skipped, and a failure of the listing discards all papers.
The ranking among repositories that are equally official is left out.

### EntityResolver

What a resolver knows is a record, on which `AddSeed`, `AddDefault` and `AddAlias`
are operators; `Signals` are the six ways of `resolve` in their order, and
`StartupName`, `ProductName` and `JobName` what the pipelines put into records. The
conversions of names (lower case, normalisation, similarity, ids) are constants, of
which `ConversionsAssumption` says what the theorems need. `_score` is `fuzz.ratio`.
The two keys under which a context may carry a domain (`domain` and
`company_domain`) are one.

### IngestPipeline

A *run* is one call of `ingest`; `VerticalOf` says of which pipeline. `Start` is
`start_pipeline_run` and the cutoff, `Fetch` the gathering of candidates, then
each candidate is met by one of `RejectStale`, `SkipDuplicate`, `RejectInvalid` and
`Accept`, and an accepted one by `Write` (the mapping log, or the GitHub metrics of
a paper) and `StoreRecord`. Every `await` on the repository ends a step, so runs
interleave there. The pipelines differ in the order of the tests (news builds a
record before it judges the date, jobs after; startups are remembered by name
before their record is built; papers write metrics before they validate), in the
limit and in the sources, and the guards say how.

Failures inside the loop cost a candidate: `RejectInvalid`, `WriteRaises` and
`StoreRaises` (the call may or may not have taken effect), and `StoreRefused`, where
PostgreSQL has the canonical record under another URL and its primary key breaks.
Failures outside it cost the run: `Abort`. A source that is down returns its
samples, where the crawler has some, or nothing; the startup pipeline has no such
protection, so there `Abort` is the only way for a source to fail. `Papers` is the
arXiv part of the research pipeline, which discards its first answer when the
second query fails.

A candidate is a model value with a key, a row, a remembered name and a date.
Both kinds of repository keep one record per key (`records`); PostgreSQL has besides
a typed table, with one row per URL or name, whose key is in `rows`. `IsNew` is what
an upsert answers, and the counts of a run go by: in memory, that there was no
record under the key; on PostgreSQL, that there was no row. The two differ for a
role that is renamed at its URL and for an article that is edited (its
`content_hash` is its key), which are new canonical records in old rows.
The choice of metrics is in `PaperHarvest`, resolution in `EntityResolver`, how
candidates are gathered in `SourceFetch`; the other fields of a record and the
optional `since` of papers are left out. 

### MasterRun

`Begin` chooses the storage (a dry run and a failed connection give the master run
a memory of its own), `Ingest` starts the next pipeline when those before it have
returned, `Export` collects and writes the rows, `Finish` completes the manifest,
`Propagate` and `Raise` are the exceptions. A storage injected
through the constructor (`runner.py:77-78`) is left out: no caller in the repository
uses it. `Rows` is empty for PostgreSQL, because
`run_all` reads records from an `InMemoryStorageRepository` only and the exporter
ignores the storage it is given. `Violations` is what the audit counts as stale, by
a window that ends when it runs.

## What is checked

| Run | Instance | Shows |
|---|---|---|
| `lease_local` | 2 workers, 2 targets, one process, no Redis | only the owner touches an entry in force, dead workers are recovered, implements `LeaseService` |
| `lease_redis` | 2 processes, Redis, latency 1, TTL 6, interval 2, one raised call | exclusion, and a heartbeat keeps its lease, until a call raises; no call touches the lease of another; orphaned keys expire |
| `lease_late` | a call as slow as the lease | **violated**: GET, expiry, claim by another worker, EXPIRE: two holders |
| `llm_sequential` | 1 caller, 3 documents (2, 1 and no chunks), Gemini and the mock, 2 attempts, with and without `output_model` | types, own facts, termination |
| `llm_concurrent` | 2 callers, one document of 2 chunks, Groq and DeepSeek | breakers are consistent, no extraction asks again for a chunk it had an answer for, payloads are in order, failure only when all providers are exhausted |
| `llm_shared_list` | 2 documents that begin alike | **violated**: the merged list is the cached list |
| `store` | 2 loops and a batch, 4 postings over 2 keys and 2 URLs, pool of 2, `upsert_record`, 1 fault | the two tables agree, rows are counted once, `first_seen_at` stays, every batch ends, implements `RecordService` |
| `crawl` | each of the four list pipelines, limits 2 and 16, requests of two sources may fail, five kinds of pages | order of candidates, substitutes only for what is missing among what the crawlers read, limits, gathering ends |
| `papers` | 6 papers, 3 repositories, pages and batches of 2, limits 1 and 3, 2 attempts, 2 slots, 2 arrivals | no paper is skipped, what was found is joined, records have the links and stars of their paper, the run ends |
| `master_all` | one master run, five pipelines, 12 candidates, 1 fault, in memory or on PostgreSQL | records rest on logged mappings and metrics, the first candidate of a name wins, export and counts of a run in memory agree, the audit reports only what has aged since it was stored, every run ends |
| `master_pair` | two master runs of the job pipeline, on one database or apart, limit 1, 1 fault, time 0..1 | the counts of all runs add up to the rows, a run counts a failure for every fresh name it has lost, nothing stale is stored, the limit holds |
| `master_export` | one master run | **violated**: a run on PostgreSQL completes and has exported nothing |

Disagreements with the documentation:

* README.md:75 promises that leases prevent redundant crawling. `renew_lease`
  reads the owner and extends the key in two commands, and ignores the reply of
  the second (`lease_late`). Under `Interval + 3 * MaxLatency < LeaseTTL` and
  without errors `lease_redis` does not find this: GET and EXPIRE of the renewal
  must be answered while the lease runs, after a timer that may be late.
* orchestrator.py:74 and architecture.md:89 describe caching the payloads of
  individual chunks. `merged[k].extend` changes the cached payload of the first
  chunk (`llm_shared_list`).
* README.md:112 lists storage in PostgreSQL and export among the steps of one
  run. With PostgreSQL the exported tabs are empty (`master_export`), while the
  manifest says `export_status` "completed".

The models have further behaviours that the documentation does not lead one
to expect, for which there is no run: no posting of Wellfound is ever read, because the
selector of `wellfound_jobs.py:47` is not valid CSS, and samples take its place
(README.md:63; for this reason `SubstitutesOnlyForMissing` speaks of pages that a
crawler can read); a Redis error moves one worker to the
dictionary of its process, so exclusion is lost under faults (README.md:75; for this
reason `Exclusion` speaks of runs without raised calls); `can_execute` is asked once before the
attempts on a provider, and retries go on after the breaker has opened
(README.md:70); `batch_upsert_*` are loops over single transactions, of which some may be done
when one fails (README.md:183); a failed listing of arXiv discards the papers found
by id; an array among the payloads of a text fails all later extractions of it.

### Bounds

Two workers are enough for a collision. One target suffices with Redis, since keys do not
interact; without it `recover_dead_workers` handles several entries at once, so
there are two. TTL, interval and latency are the smallest numbers that satisfy,
or in `lease_late` break, the inequality above. Ages stop at `AgeCap`: older
entries are all expired. `MaxFaults` bounds raised calls.

Two providers and two attempts make retries, fallback and exhaustion happen;
threshold 2 and cooldown 1 let a breaker open within one extraction and recover
within the next. Two keys and two URLs give every kind of collision of postings:
same key under a new URL, same URL under a new key, neither, both. Three of the
four records leave a column alone when they update a row and the fourth overwrites
it, as a startup does that bears the value.

In `crawl` each limit is below, or above, the number of crawlers, so that shares are
rounded up, or leave room for several entries. Pages are blank, short, full, and
broken inside and behind the share; three of the crawlers cannot fail (`Flaky`),
which differ from the second in nothing. In `papers` two pages and two batches
let something happen between them, and two arrivals shift a page by its length; one
paper has links on both pages of the dataset, and one the title of another.
`MCEntityResolver` has names for every relation the resolver tells apart: spelled in
two ways, a domain, a close one (exactly at the threshold of 85), an empty one.

In the master runs each vertical has as many candidates as its tests need: papers
with and without code, two startups of one name, a product that cannot be built, a
fresh, a stale and a sample article; and of jobs a stale posting, an invalid one, a
valid one and a re-post of the same role, and another role, from sources that may
be down. The job sources of `master_pair` begin with the stale posting and offer
two roles, the second at the URL of the first, so that with a limit of 1 a run stops
early, meets records of the other run, and renames a role in its row. Master runs
differ in nothing but their names, and no temporal property is checked there, so
`AnyOrder` is a symmetry. The clock moves once, past the cutoff of a posting. `Limit` 3 with two
or three sources gives every crawler one candidate. One fault is one raised call
or one crash, at any place of any run; what several do together is left to the
theorems, which bound neither faults nor runs.

### Fairness

`WorkLease`: time passes, commands that were sent are answered, due timers fire
(the event loop), and without Redis somebody calls `recover_dead_workers` from
time to time, which is what that method is for. Nothing makes a worker claim or
release. `MasterRun`: the next step of every
master run or of its pipeline is taken, because the event loop and the database
serve everybody; nothing makes a run begin, fail or end early. `LLMOrchestrator`: a provider call returns or raises and a sleep ends;
no fairness on callers. `SourceFetch` and
`PaperHarvest`: a request ends, by the timeout of its session at the latest, and a
sleep ends; nothing makes papers arrive. `RecordStore`: strong fairness on each client's step,
because the waiters of the asyncpg pool and of PostgreSQL locks are queued in
order.

## What is proved

With TLAPS, for every value of the constants that satisfies the `ASSUME`s, every
safety and action property that a run checks, and the refinements:

| Module | Theorems, and the properties they establish |
|---|---|
| `WorkLeaseProofs` | `TypeCorrect` (`TypeOK`), `RedisExclusion` and `OneProcessExclusion` (`Exclusion`), `HeartbeatKeepsLease` (`WorkingKeepsLease`), `RedisLeaseBacked` and `WithoutRedisLeaseBacked` (`LeaseBacked`), `OnlyOwnerTouchesKeys` (`OnlyOwnerTouches`), `OnlyOwnerTouchesEntries` (`OnlyOwnerTouchesLocal`), `RedisService` and `OneProcessService` (`ServiceSpec`) |
| `LLMOrchestratorProofs` | `TypeCorrect`, `BreakersConsistent`, `CollectedInOrder` (`PayloadsInOrder`), `ChunkAskedOnce` (`NoReplay`), `OnlyOwnFacts` (`OwnFactsOnly`), `FailsWhenExhausted` (`FailsOnlyWhenExhausted`) |
| `RecordStoreProofs` | `TypeCorrect`, `TablesAgree` (`RowsAgree`), `CountsRowsOnce` (`CountedOnce`), `KeepsFirstSeen` (`FirstSeenStays`), `ImplementsService` (`ServiceSpec`) |
| `SourceFetchProofs` | `TypeCorrect`, `CandidatesInOrder` (`InSourceOrder`), `OnlyMissingIsMadeUp` (`SubstitutesOnlyForMissing`), `LimitIsKept` (`WithinLimit`) |
| `PaperHarvestProofs` | `TypeCorrect`, `RequestsBounded`, `NothingSkipped` (`NoGap`), `NothingFoundIsLost` (`FoundIsJoined`), `RecordsAreRight` (`RecordsFollowDataset`) |
| `IngestPipelineProofs` | `TypeCorrect`, `Traceable` (`StoredIsLogged`), `FirstOfNameWins` (`FirstWins`), `FreshOnly` (`StoredFresh`), `NothingIsLost` (`NothingLostQuietly`), `CountsAreRight` (`CountsAddUp`) |
| `MasterRunProofs` | `MasterImplementsIngest`, `MasterTypeCorrect`, `MasterTraceable`, `ManifestIsExact` (`ExportMatchesCounts`), `MasterLosesNothing`, `MasterCountsAddUp` |
| `EntityResolverProofs` | `ResolvedIsConfident`, `ResolutionIsStable`, `BuildingKeepsClosed` |

The arguments, by inductive invariant:

* `WorkLease` without Redis. Exclusion alone is not inductive: nothing
  in it says why a worker may believe in its lease. `LocalInv` adds that a worker
  with time left is working, that its own dictionary entry names it, and that
  the age of the entry and the time left add up to at most `LeaseTTL`. A claim
  that finds an entry old enough to take over then knows that its owner has no
  time left. `NoSteal` is the same argument for a step, from which
  the refinement of `LeaseService` follows; it needs that all workers share a
  process (the theorems assume it), for without Redis two processes know nothing
  of each other. `OnlyOwnerTouchesEntries` assumes nothing.
* `WorkLease` with Redis. `Timely`, which holds until a call raises, says of each
  worker that the key is its own, how long it has spent since the last renewal was
  sent (`Spent`: in its sleep, a late timer, and up to two late calls), and that
  this and what the key, or the lease, has left add up to the TTL. The hypothesis
  `InTime` is what makes the sum leave something: there is Redis, every worker runs
  a heartbeat, and `Interval + 3 * MaxLatency < LeaseTTL`. `lease_redis` satisfies
  it, the defaults of the code (a TTL of 60 s and a heartbeat every 15 s) do for calls of
  less than 15 s, and `lease_late` shows what happens without it. After a call has
  raised, only what `Prompt` says remains, and only if no call is late
  (`MaxLatency = 0`): a call that is about to write a key has just read its
  worker's name there. `RedisService` assumes besides that no call raises
  (`MaxFaults = 0`), since a claim that falls back to a dictionary is unknown to
  the others.
* `LLMOrchestrator`. The breakers: each is sound, which every operation of a
  breaker keeps on its own, so no order of calls, probes and late answers
  matters. The extractions: `ExtractInv` says whose chunk each list was made for,
  in the heap, in the cache and among the payloads (`StoreOK`); that an extraction
  between two calls has one payload for every chunk before the one in work, has
  passed the providers before the one it waits for, and has no list of its own for that
  chunk yet (`Waiting`); and that what was returned was made for its document.
  `OnlyOwnFacts` assumes `DistinctChunks`: no two documents have the same chunk at
  the same position. Without it the property is false, as `llm_shared_list` shows.
* `RecordStore`. `StoreInv` says that no two transactions
  hold the same canonical row or the same typed row (`LocksOK`); that the id of a
  transaction which has passed the primary key is on no other row (`WrittenOK`),
  and stays so, since whoever could put it there needs the canonical row; and that
  the row is still as the second statement found it (`FreshOK`), since whoever could
  change it needs the row. From these, `TablesAgree` is what a commit does to the row
  and to those of others, with `upsert_record` allowed for. `CountsRowsOnce` counts the rows
  there are (`CountsOK`): a commit which tells its caller that the record is new fills a
  row that was empty, and only a lost reply leaves one uncounted.
  `KeepsFirstSeen` needs that a transaction which commits over a row has found it
  there. For `ImplementsService` the table is that of the typed rows, which
  change at a commit only; that the answer given then, which was decided two steps
  earlier, is the one that a single step would give, is `FreshOK` again.
* `IngestPipeline`. `TypeInv` adds to the types that a run which
  goes on is below its limit (`Below`), for `StoreRecord` stops at it and not
  after, and that candidates have the type of their pipeline (`Typed`), which is
  `AnswersAssumption`, a fact about sequences that TLC evaluates.
  `Traceable` needs that the candidate in hand has been logged when it is about to
  be stored (`Backed`). `OrderInv` says that a run
  remembers whatever it has passed unless that was stale or could not be built
  (`Passed`), and that a candidate in hand is fresh, remembered, and the first of its
  name (`Chosen`). `FreshOnly` needs besides that a run which has gathered
  something keeps its window and its candidates (`WindowKept`), so that it
  remains the witness of what it stored. `LossInv` adds that the names a run has met
  (`Met`: what it remembers, and what it has passed that was not stale) and that are
  neither kept nor in work are no more than its failures (`Dealt`), and where it may
  end (`Ended`). It speaks of runs with failures, too. `CountsAreRight` needs that
  repositories are finite (`HeldFinite`), what an upsert does to what is held
  (`UpsertHolds`), that a sum over runs changes by what one of
  its terms does, and that a run stores in one repository. It assumes of candidates
  only that those with one key, or one row, are of one type: a row may change its
  key, and a key may be refused because another row has it.
* `MasterRun`. With variables of its own hidden, a master run does nothing that
  independent runs could not do, so the theorems above hold of it.
  `MasterTypeCorrect` needs that nothing has been started before `Begin`
  (`Dormant`). `ManifestIsExact` needs that the memory of a master run holds of each
  type as many records as its pipeline has counted (`Shelves`), and that all pipelines
  have returned when it exports (`Closed`).
* `SourceFetch`. `FetchInv`: the result of every crawler is `Sound`, whatever the
  page: what was read comes before what was made up, nothing is made up beyond
  the share, and an entry of a valid page is missing only when the share is full.
  What remains is how results are put together, in the order of the crawlers or
  interleaved (`InOrder`).
* `PaperHarvest`. The listing: `ReadUpTo(m)` says that its first m papers have been
  read and none behind them, and that at most `arrived + m` positions have been
  passed, since a paper that is submitted moves the others by one. Requests: an
  attempt is left to whoever sleeps (`Attempted`). The join: `JoinInv` adds that a listing read as a
  whole was read to its end or to the limit, and `HeldInv` that nothing is joined before.
  The records: `Follows` says that the links hold exactly the rows read so far, each
  under its key and each key once; `WorkInv` that what is asked of GitHub are the
  ranked repositories of the paper in work. The theorems assume that arXiv lists a
  paper once and that stars are natural numbers (`HarvestAssumption`).
* `EntityResolver`. A resolution is one
  of the signals, so what `resolve` gives has a confidence of 85 to 100 and, in a
  closed resolver, the name of a registered entity, and the gates of the pipelines at
  80 reject nothing: the three write the same name. What has no signal has confidence 0, and a
  product is then written without a name (`ResolvedIsConfident`). The name that `resolve` gives resolves to
  itself, provided that no name of an entity is an alias of another (`Closed`), for
  then the second signal finds it; seeds and aliases that are
  `Harmless` keep that so; `HarmIsUnstable` in `MCEntityResolver` is an example of one that is
  not. Whether the lists in `resolver.py` are harmless is not checked: the names
  of the models are not those of the lists.

The operators that the models compute with (`Picked`, `Merged`, `UsableIn`, sums
over runs) are recursive functions. The prover has no induction over them, but it
has the least number of a set: lemmas such as `UpToN` say that a set of numbers
with 0 and with the successor of each of its members up to n has all of them, and
the claim about an operator is applied to the set of lengths for which it holds. Where the
recursive function is a `CHOOSE`, two lemmas say that there is such a function and
only one (`PicksExist`, `PicksUnique`).

Only model-checked:

* liveness (`DeadWorkerRecovered`, `ExtractionEnds`, `BatchEnds`, `GatherEnds`,
  `HarvestEnds`, `MasterEnds`), since TLAPS does not reason about fairness and
  ENABLED;
* what `SemanticChunker` and the lists of `EntityResolver` come to as a whole
  (`ChunksKeepBlocks`, `HarmlessIsStable` and the like), which TLC evaluates.

## Not modelled

* The crawl queue: `enqueue`, `claim_batch` and `mark_done`. The statement that
  decides is one in each of them, and only tests call them, so there is no caller
  whose interleavings one could describe. `claim_batch` with SKIP LOCKED hands a
  target out once; a target claimed by a worker that dies is never pending again.
* `extraction/chunker.py` and `crawlers/fetchers.py`, which no pipeline uses.
* Dates, texts and numbers: `extraction/`, the parsers of pages, `validation/records.py`,
  the columns of the export. They are functions without state on strings, where a
  model would repeat the regular expressions; the models take what they return.
* The extraction probe of the master run, its manifest's counters, logging, metrics,
  settings and arguments: nothing in the models depends on them.

## Plan

Done, in this order: `WorkLease`, `LLMOrchestrator`, `RecordStore`,
`IngestPipeline`, `MasterRun`, then `SourceFetch`, `PaperHarvest`,
`LLMProviders`, `SemanticChunker`, `EntityResolver` and the audit; then the proofs of
all their invariants and action properties. What is left:

1. The function `Chunk` of `SemanticChunker`, for texts of any length, by the
   induction on lengths that the other proofs use.
2. That a whole list of harmless seeds and aliases builds a closed resolver.

## Running

    tlc -config WorkLease_local.cfg MCWorkLease
    tlapm WorkLeaseProofs.tla

Every `.cfg` belongs to the MC module of the same component. `lease_redis`, `llm_*`,
`papers`, `store` and the master runs take up to a minute or two, the others seconds.
