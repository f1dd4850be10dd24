# Verification of the Landa AI RAG service

TLA+ models of the core of `src/app`, the TLC instances that check them and the
theorems TLAPS proves about them. The models are written from the code; where
this file or a module quotes a comment, a docstring or a test, it is because a
property states what that text promises. Paths below are under `src/app` unless
they begin with `src/`.

## The system

A FastAPI service (one uvicorn process, one event loop, a few thread pools,
child processes for parsing, an asyncpg pool, Gemini as the AI provider) that a
Node backend calls. It indexes knowledge-base documents, answers chat questions
over them, hands out their text page by page, and turns a source into courses:
the AI ID pipeline (package `idm`) and the older lesson-author workflows.

| Component | State | Operations | Talks to | What is hard | Modelled |
|---|---|---|---|---|---|
| Document index lifecycle: `services/ingestion/index.py`, `documents.py`, `repositories/indexing.py`, `documents.py` | rows of `rag_document_indexes`, structure nodes, open transactions | index, delete, re-index without change | PostgreSQL, embedding fan-out | transactions at READ COMMITTED, deadlocks, half-failed deletes, cancellation, crashes | `IndexLifecycle` |
| Source snapshot route, retrieval and chat: `services/orchestration_v2/source_snapshot.py`, `services/retrieval/*`, `repositories/source_snapshot.py`, `retrieval.py` | none of their own: the cursor and revision live with the caller | pages, outline, vector, keyword, chapter and whole-source reads | PostgreSQL, embedding of the question | several SELECTs without a transaction, seconds apart | `SourceReaders` (partly) |
| Workload limiter: `core/concurrency.py` 73-147 | two semaphores | `slot()` | every provider call, index request and CPU job | a slot handed over while its waiter leaves; reserved slots | `WorkloadLimiter` |
| Client pool: `infra/gemini/pool.py` | LRU of SDK clients with lease counters | `lease`, `clear` | provider threads | threads between lock regions, shutdown under running calls | `GeminiClientPool` |
| Provider transport: `infra/gemini/transport.py`, `retry.py` | attempts, cumulative rate-limit wait, provider threads | `call_provider_with_timeout` | limiter, threads, SDK | threads that outlive their await, retries, waits that give an attempt back | `ProviderCalls` |
| Embedding fan-out: `infra/gemini/calls.py` 102-166 | shared iterator, results, failures | `embed_texts` | transport | the first failure cancels the rest; a caller cancelled while unwinding | `EmbedBatches` |
| Child processes: `core/child_process.py`, `run_in_child`, `services/ingestion/extract_*.py` | child, kill flag, CPU slots | run, cancel, kill, shutdown | worker threads | kill while starting or being reaped; shutdown in between | `ChildRuns` |
| AI ID runtime and course design: `idm/runtime.py`, `course_design.py`, `content_map.py`, `blueprint.py`, `architecture.py` | token ledger, sticky provider failure, deadline, stage results | W1 map, W1 reduce, W2, W4, repairs, fallbacks | transport, limiter | parallel calls on one ledger, unknown bills, cancellation | `CourseDesign` |
| Unit writer W5: `idm/storyboard*.py`, `qa_judge.py`, `services/orchestration_v2/unit.py` | draft, review list, judgement, usage | write, repair, settle, judge, judge repair | runtime | a ladder of repairs kept slot by slot under a falling budget | `UnitWriter` |
| Staged units: `services/lesson_author/staged/writer.py`, `services/staged_unit/*`, `semantic_review.py` | unit, fallback unit, review, usage | write, recover, fail-soft merge, review, rewrite, review again | transport | a unit of four authors; every call may fail after it was billed | `StagedUnit`, `UnitRoute` |
| Course architecture: `workflows/course_architecture.py`, `services/lesson_author/blueprint_workflow.py` | LangGraph state: findings, fingerprints, repair counters | architect, validate, classify, repair, finalize | transport | repairs of several calls under two bounds; a graph with cycles | `CourseArchitecture` |
| Service lifetime: `core/lifespan.py`, `core/request_context.py`, `infra/db.py`, `services/runtime.py` | in-flight counter, idle event, pool, tasks of each request | start, connect and retry, drain, close | uvicorn, asyncpg | two grace periods, cancelled and shielded work, closing under use | `ServiceLifetime` |
| Lesson generation and chapter checkpoints: `workflows/lesson_generation.py`, `services/lesson_author/*` | LangGraph state | generate, validate, repair | staged writer | the same kind of graph as the course architecture | no |
| Preserve, module design and organisation profile: `idm/preserve_*.py`, `module_design*.py`, `org_distill.py` | the ledger | further stages | runtime | as course design | no |
| Validators, fallbacks, content rules: `idm/validation.py`, `source_fallback.py`, `text.py`, ... | none | pure functions | | a fallback is not validated again | no |
| Extraction and chunking: `services/ingestion/extract.py`, `chunking.py`, ... | none | parsing | files | text processing | no |
| Authentication: `core/security.py` | replay cache | HMAC check | every request | time taken before an await, a bounded cache | no |
| Schema guard: `infra/schema_check.py` | last result | refresh | readiness | refreshes out of order | no |
| Usage, telemetry, errors, content analysis, contracts, HTTP wiring, metrics, logging | none | conversions | | | no |

How they interact: a request passes authentication and two middlewares
(`ServiceLifetime` counts it), a route runs a task under a deadline; the task
reads and writes PostgreSQL through the pool and calls the provider through the
transport, which takes a slot of the limiter, a thread, and a leased client.
Indexing is the only writer of the database. What it promises to every reader
is `PublishedIndex`; what the readers make of that promise over several
statements is `SourceReaders`.

`PROJECT.json` lists the components with their status, and under `hazards`
everything of this code that is hard to test, at its line, with the properties
that cover it.

## Modules

| Module | Models | Composition |
|---|---|---|
| `PublishedIndex` | the promise indexing makes to retrieval | abstract |
| `Slots` | the promise a limiter makes to whoever runs under its slots | abstract |
| `IndexLifecycle` | index and delete requests of one document over its rows | implements `PublishedIndex` (INSTANCE) |
| `SourceReaders` | snapshot paging and retrieval of that document | on top of `IndexLifecycle`: readers beside writers |
| `WorkloadLimiter` | `WorkloadLimiter.slot` over asyncio semaphores | implements `Slots` (INSTANCE) |
| `GeminiClientPool` | the client cache between its lock regions | |
| `ProviderCalls` | the transport's loop of attempts and the threads it runs on | presumes of its slots what `Slots` says |
| `EmbedBatches` | the workers of one embedding request | on top of `ProviderCalls`, beside another caller |
| `ChildRuns` | `run_in_child`, worker threads, children and `shutdown()` | event loop, threads and processes; presumes of its slots what `Slots` says |
| `CourseDesign` | the course-skeleton task: jobs, calls, ledger, answer | W1 map, reduce, W2, W4 on the runtime |
| `CourseArchitecture` | the blueprint graph with its callbacks | |
| `UnitWriter` | the storyboard writer W5 with repairs, settlement and judge | |
| `StagedUnit` | the staged writer with its semantic review | |
| `UnitRoute` | the unit route: which lane a contract takes | composes `UnitWriter` and `StagedUnit` |
| `ServiceLifetime` | the service from start to exit around index requests | lifespan, middlewares, database runtime, except clauses of indexing |
| `MC...` | TLC instances | extend the module of that name |
| `..._proofs` | theorems and proofs | extend the module of that name and `TLAPS`; `Concurrency_proofs` extends `WorkloadLimiter` and `ChildRuns`, `SourceReaders_proofs` also proves the theorems about `IndexLifecycle`, `EmbedBatches_proofs` those about `ProviderCalls`, `UnitRoute_proofs` those about `UnitWriter` and `StagedUnit` |

Each module names its actions after what the code does at that point;
`PROJECT.json` maps each definition to its lines. Definitions commented as
faulty variants (or mutants) are used by no specification: each one is a
plausible bug, and a property is kept only if substituting one breaks it.

### How state and actions correspond to the code

*IndexLifecycle.* A request names the row it inserts. `status`, `active`,
`fingerprint`, `version` and `nodes` are columns and tables; `locks`, `seen`,
`wanted`, `doomed`, `stale` and `nextVersion` belong to an open transaction. An
UPDATE or DELETE over several rows is a read of the rows its WHERE clause matches
(`Scan`) and then one step per row, in any order (`TakeRow`): it waits for the
lock of the row it has reached while it keeps those it has, and changes the row
if that still exists and matches. That is how PostgreSQL executes them at READ
COMMITTED. It is why two final transactions can each miss a row the other one
inserted, and why a request that supersedes and a delete, too, can be part of a
deadlock. A row that exists but no longer matches stays locked, as in PostgreSQL,
which locks a row before it looks at it again. One transaction of a cycle is
aborted by `AbortDeadlocked`. The locks on rows of chunks and structure nodes
are left out. `Fail` and `CancelAfterCommit` are the except clauses, `Vanish` a
process that dies.

*SourceReaders.* Each SELECT of a reader is one step over the rows committed at
that moment, and any step of the writers may come in between. A page is three
SELECTs: `ReadRevision` (the learned index of the document), `ReadEvidence` (the
evidence summary of its chunks, and the comparison with
`expected_source_revision`) and `GivePage` (the chunks after the cursor, cut at
the row limit and at what a page may hold) or `RefusePage`. The caller sends
back the revision and the cursor it was given; both are optional in
`schemas/orchestration_v2.py:31-32`, a caller that omits them starts again.
`retrieve_chunks` is the other reader: `found` records which index each
statement met, and `AnswerRows` is the choice of rows at the end of it. One
document stands for the documents of a request, facts for bytes, and chunks
come and go with the row of their index (the repositories say "chunks cascade";
the repository holds no DDL). For that reason the two 409 answers for a mixed
inventory have no counterpart: they need an index of which a part is missing.

*WorkloadLimiter.* `value`, the queue order `ahead`, `woken` and `cancelled`
are `asyncio.Semaphore` of Python 3.12 (its fast path, its waiters, the
hand-over of a released slot and the wake-up in `acquire` when a waiter is
cancelled); the semaphore is external code, written from its behaviour, and
`Enter`, `GiveUp` and `Exit` are `slot()` around it.

*GeminiClientPool.* One action per region under the lock and one per call
outside of it (building a client, closing one).

*ProviderCalls, EmbedBatches.* A call is a phase (`slot`, `queued`, `running`,
`sleeping`, ...) with the counters of the loop. A deadline or a cancellation
ends the await and leaves the thread to the SDK (`zombies`). `Shutdown` drops
the executor: queued calls end cancelled, running ones become `old` and no
longer count against the next executor's threads. `EmbedBatches` runs the
workers of `_until_first_failure` on these calls; its `Store` is the comparison
of lengths by which `index_document` guards the insert.

*ChildRuns.* `await` is the coroutine, `thread` the worker thread between any
two calls it makes, `child` the process, `todo` and `aim` the loop in the
middle of cancelling runs, between the look at `returncode` and the signal.
A stretch of the loop without an await is not interleaved with other steps of
the loop, but with threads and children.

*CourseDesign.* A job is one stage loop of two attempts. `Dispatch` is
`idm_generate` up to the provider, `Accept`, `Reject`, `Transient` and
`Terminal` what comes back; a repair follows its rejected answer without an
await, which is why `running` exists. `spent` records what the provider really
billed, the ledger only what the code knows. A call that is answered books the
provider's count or, where the answer has no usage metadata, an estimate from the
length of its text (`Book`); `over` records what estimates booked beyond the
bill, and tokens they fall short of are left out of `spent`. A call without an
answer (`Lose`) books nothing and may be billed. A call has one bill: attempts
the transport retries within it are not told apart.

*CourseArchitecture.* `node` is the graph's node; `finding`, `prints`,
`attempts`, `calls`, `repairs`, `targets` are keys of its state. The node
`scoped_repair` is split at its provider calls (`todo`, `sent`), because it may
break off between two. A validation finds what it likes of `Findings`; a repair
needs what it likes of `PlansFor` the layer. `executed` counts what the
provider received.

*UnitWriter.* A draft is the set of what its validators find in it (`Findings`:
slot and kind of finding). `pc` names the await or the synchronous step.
`left` says what still fits in the time: nothing, a call, or also the steps the
server asks time for first. Guards between old and new texts (`Worse`,
`Guarded`) compare findings slot by slot as `guard_repair` does. The checks of a
slot read other slots (`Reads`: a question the html above it and every FAQ, a FAQ
the html above and for its title the whole unit, a framework all html), so every
edit of a slot, by a repair, by the mix of an old and a new draft (`Mixed`), by
the settlement (`Mend`, `FallBackSlot`) or by the explanation of acronyms
(`Explain`), may give the slots that read it a finding of that kind (`Heard`) or
take one away, up to `MaxEchoes` at a time. `written` is the writer's answer with
what the server's own edits made: what no repair is to blame for. `handed` is the
draft the judge read last, before `Explain`. `bills` is the least that is known of
any bill: the provider's count, a guess (an estimate, or an answer after attempts
that failed), or nothing.

*StagedUnit.* A unit is the finding its validator makes in each component and
in the whole. The actions follow the writer (`Author`, `Recover`, `Soften`,
`HandOver`), the review (`Review`, `Rewrite`, `Rereview`) and the two exits
(`Finish`, `WholeFallback`). A call has a number of attempts and an outcome;
`known` and `sknown` are what the code believes of the bills, `billed` what is
true of the calls of the writer and of the review: all is known, all but the
attempts before an answer or a refusal, or not all.

*ServiceLifetime.* Each request is the task uvicorn runs, the task
`DisconnectCancellationMiddleware` starts and the (shielded) write that closes
an index row. `cancelled` and `interrupted` are cancellations that were
requested and not yet delivered.

## Runs

`CHECK_DEADLOCK FALSE` where the system really stops: requests are answered,
tasks end, the service exits.

| Run | Instance | Shows | States |
|---|---|---|---|
| `IndexRows` | 2 index requests, 2 contents, 1 delete; failures, cancellations, crashes everywhere | `AtMostOneActive`, `ServedHasItsNodes`, `RunningRowHasAnOwner`, `SettledStatusIsFinal`, `ImplementsPublishedIndex`, `EveryRequestIsAnswered` | 92 thousand |
| `SourceReaders` | 3 index requests of two embedding models without outside failure, 1 reader, 3 chunks in pages of two; the two requests of one model are interchangeable (symmetry) | `SomeRequestWins`: requests never cancel each other out, whatever rows they lock in whatever order (deadlock is checked); `SnapshotIsSound`: what a caller collected is a prefix of one revision; `ReadsMoveForward`: of the revisions one retrieval met only the last may still be served | 2.3 million |
| `Limiter` | 2 chat and 2 background callers, 2 slots, 1 reserved | `NoSlotLost`, `ReservedServesChat`, `EveryWaitEnds` | 9 thousand |
| `Pool` | 3 threads, 2 keys, 3 clients, cache of 1 | `NeverClosedInUse`, `NoClientLeaks`, `RetiredIsClosed` | 98 thousand |
| `Course` | 3 sections two at a time, 1 batch, a grant of 5, estimates of at most 1 | `SpendIsBounded`, `LaterStagesKeepTheirShare`, `UsageIsTruthful`, `NothingOutlivesTheRequest`, `EveryRequestEnds` | 2.2 million |
| `Embed` | 2 workers on 2 batches and an AI ID caller, 2 slots, 4 threads, 2 attempts, waits of up to 2 units | `OnlyCompleteVectorsAreIndexed`, `NoCallOutlivesTheRequest`, `SpareThreadsServe`, `EmbeddingEnds` | 289 thousand |
| `Children` | 2 runs on 1 CPU slot and a service that stops | `UnkilledChildHoldsASlot`, `CancelledRunEnds` | 24 thousand |
| `Architecture` | 4 layers, 3 provider calls, 2 fingerprints, 19 supersteps | `ExecutedCallsAreVisible`, `ProviderRepairsAreBounded`, `OnlyValidatedBlueprintIsAnswered`, `EveryRequestEnds` | 1.1 million |
| `Unit` | all lanes: a text, a question and a FAQ with one finding in each answer and up to one more by what slots read; two components of which a review may have one rewritten | `LastCheckPasses`, `RepairsNeverHurt`, `ValidatedIsEarned`, `JudgementIsOfTheUnit` of the storyboard; `AnsweredUnitIsSound`, `ValidatedWasReviewed`, `ValidatedUsageIsTruthful` of the staged lane | 1.5 million |
| `Lifetime` | 2 index requests, start to exit | `DrainIsNotMissed`, `GracefulStopSparesWork`, `ServiceStops` | 101 thousand |

Runs in which TLC refutes what the repository says of itself:

| Run | The text | What happens |
|---|---|---|
| `SourceSnapshot` (`CompleteSnapshotIsWhole`) | `source_snapshot.py:42` "Return one deterministic source page", line 181 "The learned source revision changed while paging." | the revision is compared before the SELECT of the chunks, outside any transaction. If the index is replaced or deleted in between, the SELECT finds nothing, `has_more` is false, and the caller takes a part of the source, or nothing, for all of it. `SnapshotIsSound` says how far it goes: chunks are missing only of an index that is gone, and what there is, is of one revision |
| `StagedUsage` (`UsageClaimIsTrue`) | `src/tests/unit/services/test_lesson_author_orchestration_v2_endpoints.py:490` "test_unit_incomplete_provider_usage_never_crosses_the_service_boundary" | the recovery call of the staged writer is sent and lost, its component comes from the server's own unit, and the answer calls its usage complete |

### Bounds and why they are enough

- Two index requests and a delete show every pair of statements in every order;
  the third request of `SourceReaders` is there because superseding needs a
  victim, a winner and a bystander. `MaxVersion` is one version per request.
- Readers do not see each other, so one is enough. Three chunks of which a page
  takes two are two pages and, without facts, a chunk that weighs nothing. The
  oversized chunk is in the content `c2`, which only `SourceSnapshot` contains.
- Four callers on two slots, one reserved, are the least with two callers of
  each kind, one of which waits at each gate while another is served.
- A cache of one client with two keys evicts at every miss; three threads are
  a holder, an evicting one and one that clears or loses a race. The bound on
  `Clients` caps how many are ever built.
- Two workers on two batches and a third caller contend for two slots; four
  threads make it possible that all are abandoned. Waits of 0, 1 and 3 units
  against a bound of 2 are a hint below the floor, one that fits and one that
  does not.
- Two runs on one CPU slot show the hand-over of the slot while the first child
  is still being killed.
- Three sections with parallelism two make one section wait; the grant of 5
  leaves the map exactly one full call and two halves beside the shares of the
  later stages. One W2 batch keeps the run small; the proofs cover any number.
- Four layers are one without an operation, one the server can repair, one with
  two operations and a late one; three calls and one repair per layer are the
  code's numbers; `RecursionLimit` 19 leaves room for five rounds. The default
  of `course_workflow_max_repair_attempts` is 2.
- Estimates of 0 and 1 are one that falls short, one that fits and one beyond the
  bill; the proofs cover any (`EstimateMax`).
- A storyboard of a text, a question and a FAQ has a slot of each kind, and each
  of them reads another or is read. One finding in an answer and one more by what
  slots read (`MaxEchoes`) are enough for a repair that exchanges a finding for
  one in another slot, and for a mixed draft that is worse than both of its
  halves; `MaxBlocking` 2 lets the judge have two slots repaired. Two components with one rewritten show a
  component the review names and nobody rewrites; only the proofs cover a
  review of all components.
- Two requests in `Lifetime` are the last one counted and one before it.

### Fairness

Every weak fairness condition is on something that the event loop, a thread or
a timeout does by itself: tasks that can run are run, SDK calls end by the
deadline they carry, killed processes die, database statements end by their
command timeout, and the outer timeout of `idm_generate` fires. Nothing makes
the provider answer, a child respond, a caller hang up, or a request that
nobody cancels finish: `EveryRequestEnds` and `ServiceStops` hold without that,
from the deadline and from uvicorn's `timeout_graceful_shutdown`
(`__main__.py:64`). `EveryRequestEnds` of the architecture is the fairness of
the graph alone: what ends a cycle of repairs is LangGraph's recursion limit.
`EveryRequestIsAnswered` needs the database to break deadlocks
(`AbortDeadlocked`). The unit lanes have no liveness property: every step of
them goes forward, so they end as soon as their calls do.

## Proofs

For every value of the constants (as restricted by the named assumptions of the
modules):

| Module | Theorems | Inductive invariant |
|---|---|---|
| `SourceReaders_proofs` (I. the index rows) | `TypeCorrect`, `OneActiveIndex`, `RunningRowsAreOwned`, `SettledIsFinal`, `ServedKeepsItsNodes`, `NeverUnserved`, `Implements`, `SomebodyWins` | `IndInv`; with `ContenderIsLeft` for the last |
| `SourceReaders_proofs` (II. the readers) | `ReadersTypeCorrect`, `SnapshotsAreSound`, `RetrievalMovesForward`, `OneActiveBesideReaders`, `SomebodyWinsBesideReaders` | `SourceInv` on top of `IndInv` |
| `Concurrency_proofs` (I. the limiter) | `TypeCorrect`, `SlotsAreConserved`, `BackgroundStaysBounded`, `ChatHasItsSlots`, `SlotsArePromised` | `TypeOK`, `Standing`, `NoSlotLost`, `NoLostWakeup` |
| `Concurrency_proofs` (II. child processes) | `RunsTypeCorrect`, `ChildrenHoldTheirSlots`, `OnlyWholeReplies`, `RunsUseTheirSlots` | `CTypeOK` and of each run `ChildFollowsThread`, `WaitsEndTold`, `ReplyFollowsChild` |
| `EmbedBatches_proofs` | `TypeCorrect`, `UsesTheTransport`, `CallsUseTheirSlots`, `SpareThreadsSuffice`, `VectorsAreComplete`, `CallsEndFirst` | `CallsInv` of the transport; `WorkersCall`, `BatchesAreAccounted`, `WorkersEnd`, `ResultsAreComplete` on top |
| `GeminiClientPool_proofs` | `TypeCorrect`, `LeasedStaysOpen`, `NoDoubleClose`, `NothingLeaks` | `TypeOK`, `LeasesExact`, `ThreadLife`, `OneHand`, `NoClientLeaks` |
| `CourseDesign_proofs` | `TypeCorrect`, `SpendStaysBounded`, `ShareIsGuaranteed`, `UsageStaysTruthful`, `NothingIsLeftReserved`, `LossIsReviewed` | `TypeOK`, `OneRuns`, `SpendKnown`, `StagesInOrder`, `SharesKept`, `FailureIsSticky`, `ReservationsKnown` |
| `CourseArchitecture_proofs` | `TypeCorrect`, `CallsAreAccounted`, `RepairsStayBounded`, `AnswerIsValidated`, `AllocationIsServers` | `TypeOK`, `Accounted`, `WithinBounds`, `Checked`, `AllocationIsNotHeldAgainstIt` |
| `UnitRoute_proofs` (I. the staged lane) | `StagedTypeCorrect`, `AnswersAreChecked`, `ReviewIsComplete`, `UsageIsAccounted` | `STypeOK`, `ChecksHold`, `ReviewsHold`, `BillsHold` |
| `UnitRoute_proofs` (II. the storyboard lane) | `WriterTypeCorrect`, `LastCheckHolds`, `RepairsDoNoHarm`, `ValidationIsEarned`, `JudgementIsTold`, `RouteKeepsTheLanes` | `TypeOK`, `HarmHold`, `RulesHold`, `NotesHold`, `UsageHold`, `JudgementHold` |
| `ServiceLifetime_proofs` | `TypeCorrect`, `NothingIsLeftBehind`, `GracefulStop`, `RowsAreRemembered`, `DrainWakesUp` | `TypeOK`, `RequestLife`, `Undisturbed`, `InOrder`, `DrainKnown` |

*One active index.* `AtMostOneActive` says nothing of transactions that have
read but not yet written, so it is not inductive. `IndInv` adds the discipline
of row locks (`LockDiscipline`), which rows can exist at which point
(`RowLife`), and the argument itself (`SwapDiscipline`): of two transactions
past the snapshot of `deactivate_other_indexes` one has yet to reach the row of
the other, which stays locked until that one ends, so only one gets as far as its
purge; and every active row is still ahead of the scan or locked by it, so that
the one that publishes has deactivated the former active row. `TakeKeepsLocks`
and `TakeKeepsSwap` say once what locking one more row does to these, for all
three statements that do it. `Implements` then maps each step to a step of
`PublishedIndex` or a stutter.

*Some request wins.* A contender is a request whose row is running and which may
yet publish it. As long as nothing is served and a row was ever inserted, there
is one (`ContenderIsLeft`): rows are superseded by the commit that inserts the
row of their successor, and of a deadlock only one request is aborted. That
another contender is then left is `DeadlocksAreOfContenders`: only who holds
locks is waited for, and who holds locks supersedes others, and will have a row
of its own, or is in its final transaction, with a running row. The property is
about
`CalmSpec`, where nothing fails from outside: with failures everyone can lose.

*Readers.* No reader holds a lock, so everything they rely on must be monotone:
a row that was learned stays learned until it disappears and never comes back
(`LearnedRows`), so the chunks of its index are all there or all gone, and a
prefix read earlier stays a prefix (`PrefixHeld`). Of the indexes a retrieval
has met only one can be active at a time, and one that was replaced never
becomes active again; the last one met is therefore the only one that may be.
The proof uses `IndInv` of the writers at every step of the readers, and the
readers change nothing the writers see.

*Slots.* `NoSlotLost` is the conservation law; `ReservedServesChat` needs that
no free slot is slept over (`NoLostWakeup`) and what a caller may hold at each
point (`Standing`). `SlotsArePromised` maps the limiter to `Slots`, a set of
callers inside that never exceeds the limit: who passes the gate "every" had a
slot free or was handed one. The modules on top of the limiter do not repeat its
semaphores; their slot is the guard that fewer than `Limit` hold one. What they
presume by it is what the limiter promises: `CallsUseTheirSlots` (the provider
calls of one workload) and `RunsUseTheirSlots` (the CPU slots of `ChildRuns`)
prove that they, too, come and go as `Slots` allows.

*Child processes.* A run that holds no slot has not begun, has returned, or was
cancelled or dropped. In the first two cases it has no child
(`ChildFollowsThread`: a child exists only while its thread is between spawn and
reaping, and the run knows of it from `Register` on). In the last two the flag is
set, and a child that still lives is one whose thread has yet to meet the flag
(`WaitsEndTold`). `OnlyWholeReplies`: the sections a run returns come from a
reply the child wrote to its end (`ReplyFollowsChild`).

*Provider calls and embedding.* A call that queues for a thread holds a slot, as
do those that run, and no more than `Limit` do (`SlotsAreBounded`); when all
threads are away the rest of them are abandoned ones, which is more than the
spare ones as one slot is the queueing call's (`SpareThreadsServe`, with
`ThreadsAreBounded`). `UsesTheTransport` proves that an embedding request makes
the steps of `ProviderCalls` and no others, so what is proved of the transport
holds beneath it. For `VectorsAreComplete` each batch that was taken has its vector, its
failure, or the worker that sends it (`BatchesAreAccounted`) unless the request
stops, and workers end by themselves only when no batch is left (`WorkersEnd`).
`CallsEndFirst` is that a worker sends exactly while its call is in the
transport (`WorkersCall`).

*Clients.* A client is in exactly one hand (`OneHand`), and its counter is the
number of threads that lease it (`LeasesExact`), by cardinality lemmas.

*Tokens.* Reservations are summed over the jobs in flight only through the
ledger. As long as no call was lost the bill is what the ledger counts but for
estimates (`over`), which only ever make it count more; the unknown part of the
bill exists only together with a failure that ends all later calls (`SpendKnown`,
with the lemmas `Booked` and `Lost` about the two ways in which a call ends), and
each stage leaves the minimum of the ones after it, up to `over` (`SharesKept`). `ReservationsKnown` ties the counter to the calls
without a sum, which the prover could not compute: the reserved tokens are a set
with as many elements as the counter says, a call adds and takes away its own,
and the set is empty when nobody calls.

*Repair calls.* The cap is asked before a repair with the number of calls it is
planned to take, which two functions count in two ways: targets before,
groups of operations after. `WithinBounds` carries the number left through the
calls of one repair, and needs that the groups are never more than what was
planned. `Accounted` is the sum of what earlier repairs charged and what this
one sent.

*Staged units.* Whoever wrote a component last, the whole was checked after it
(`ChecksHold`); each of the four ways to merge components ends in such a check,
or in the source-locked unit, which was checked before. `ReviewsHold` follows
the two reviews through the cut at `RepairLimit` components; `BillsHold` ties the
flags of the code to `billed` (`Accounted`) and says at which points they are
ahead of it, which is why the theorem excludes units with text of the server (see
`StagedUsage`).

*Storyboard.* `HarmHold` is the guard seen from the draft: whatever fails a check
now, outside of the slots of the server and of wording, was in the answer the
writer gave or was made by an edit of the server. A draft that comes out of
`Guarded` adds nothing of the kind anywhere, whichever of its slots are old, new
or read beside others (`GuardedAre`, from `NotWorse`), and an edit of the server
adds to `written` what it adds to the draft. From `Explain` on the invariant is
about `handed` (`Subject`). `RulesHold` and `NotesHold` say of every draft past
the settlement that it breaks no rule, and that what fails a check is noted for
review; both must hold of the repaired draft too while it is judged again, and
what slots read of each other breaks no rule (`EchoesAre`). `UsageHold` covers the flag that is saved before a repair and
put back after it. A settlement takes the slots in their order; that the least
of the open ones is one of them follows from the well-foundedness of < on Nat
(`LeastOf`). `RouteKeepsTheLanes`: the route takes no step that is not one of its
lane, so that the theorems about the lanes hold of the route.

*Lifetime.* As long as uvicorn cancels nothing, a request is cancelled at most
once and waits for its app (`Undisturbed`), and the lifespan ends after every
request has (`InOrder`). `DrainKnown` follows the counter by cardinality; it
needs `RequestsAssumption`, that the requests are finitely many, and that
`drain()` makes its event before it waits.

Theorems about properties no run repeats: `NeverUnserved`, `NoDoubleClose`,
`BackgroundStaysBounded`, `SlotsArePromised`, `CallsUseTheirSlots`,
`RunsUseTheirSlots`, `UsesTheTransport`, `OnlyWholeReplies`, `LossIsReviewed`,
`AllocationIsServers`, `NothingIsLeftBehind`, `RowsAreRemembered`,
`RouteKeepsTheLanes`.

Every invariant and every action property of a passing run is a theorem. Only
model-checked are the liveness properties (`EveryRequestIsAnswered`,
`EveryWaitEnds`, `RetiredIsClosed`, `EveryRequestEnds` of both modules,
`EmbeddingEnds`, `CancelledRunEnds`, `ServiceStops`): the prover does not treat
ENABLED and liveness under fairness; what the two runs refute, and what the code does not keep
(below). No theorem is
by induction over data, since the library's induction theorems take an operator
as a parameter: the argument from a least element (`WFMin`) is what can be had.

A proof that failed found one mistake in a model: the disjunct of `CalmNext` that
lets the system stutter once every request is answered was quantified over too
much, and left the variables unconstrained when there are no requests.

## What is assumed of external code

PostgreSQL at READ COMMITTED with row locks and deadlock detection, chunks that
cascade with the row of their index, and no unique constraint that would reject
a second running row; `asyncio.Semaphore` of Python 3.12; an asyncpg pool that
refuses new acquires when it closes and waits for the connections in use;
uvicorn 0.34, which stops accepting, waits up to `timeout_graceful_shutdown`,
cancels the request tasks without awaiting them and then ends the lifespan;
LangGraph's recursion limit; a provider that honours the output cap (thinking
tokens included) and does not bill rejected requests. The course runs with a
token grant; its input allowance is abstracted to a refusal that may always
happen. The caller of the snapshot route follows `next_cursor` and sends the
revision it was given.

## What the models showed besides

Behaviours of the code that a reader of it may not expect. None of them is a
claim about how often they happen; in all of them the properties of the passing
runs hold. Those that name a property can be reproduced with it as INVARIANT.

*Indexing.*
- `index.py:59` says "the newer one wins". Two overlapping `start_index_row`
  transactions leave two running rows, and the older one, learned first, deletes
  the newer. Without the DDL it is open whether the database forbids this.
- A request cancelled between COMMIT and return of `start_index_row` does not
  know its row, which stays running until the next request (`index.py:133`,
  206, 248). `RunningRowHasAnOwner` allows exactly these owners.
- After a delete that failed half way an index has no structure nodes, and a
  request for the same content skips indexing (`index.py:107`,
  `documents.py:11-22`).

*Readers.*
- `ChapterRowsMatchOutline`, on the instance of `SourceSnapshot`, fails after
  some minutes: the page range of a chapter is resolved on the outline of one
  revision and applied to the chunks of the next, although
  `services/retrieval/search.py:231-233` calls the chapter an authoritative
  boundary. `ReadsMoveForward` is what is left: never the other way round.
- `source_snapshot.py:82-89`: an index that vanishes between the first two
  SELECTs has no summary, takes its declared counts for the actual ones, and
  passes as an index of an older parser.
- The matches of a chat question may join two revisions, merged by document and
  chunk number; the statements for the outline do not filter by embedding model
  although the others do; a draft whose facts are named by position is accepted
  after the document was indexed again.

*Shutdown.*
- `DrainedMeansIdle`, on `Spec` of `ServiceLifetime` with two requests, fails:
  when uvicorn's grace period ends, request tasks end before the apps they
  cancel (`request_context.py:231-234`), the drain reports an idle service and
  the pool closes under them, whereas `lifespan.py:22-24` says that shutdown can
  "wait for in-flight work before closing the database pool underneath it".
- `SignalsItsOwnGroup`, on the instance of `Children`, fails: the loop may read
  `returncode` before, and send the signal after, the worker thread reaped the
  child, to a process group whose id is free by then.

*Course architecture.*
- The usage of the last repair overwrites that of the ones before
  (`course_architecture.py`, around line 989).
- A repair refused because of its planned calls is answered
  `ARCHITECTURE_VALIDATION_FAILED`, while the classification had recorded that
  the repairs are exhausted; a first provider repair that fails is answered as
  exhausted.
- Repairs the server makes by itself are bounded only by LangGraph's recursion
  limit, since a fingerprint is compared with the last one of its layer only;
  its `GraphRecursionError` is no workflow failure. The branch of V5 that
  removes units without facts is unreachable in this order of nodes.

*Usage.* A comment at `infra/gemini/telemetry.py:52` says "Never label estimates
as Gemini/provider usage", and a test is named
"test_estimated_or_retried_provider_usage_does_not_claim_complete_accounting"
(`src/tests/test_chapter_checkpoint.py:215`). Three lanes of the service do
otherwise:
- `EstimatesAreLabelled` (instance of `Course`) fails: `idm_generate` books a
  local estimate when an answer carries no usage metadata
  (`infra/gemini/usage.py:71-88`), `usage.complete` stays TRUE
  (`idm/runtime.py:383-390`), and the course is answered with complete usage of
  source "provider" (`idm/course_design.py:184-185`).
- `ValidatedUsageIsReported` (instance of `Unit`) fails in the same way: a
  validated storyboard unit may rest on an estimate, or on an answer after an
  attempt that failed (`idm/storyboard.py:655-662`).
- `CompleteMeansEveryAttempt` (instance of `Unit`) fails: after a call of the
  review that was sent again the staged lane claims complete usage
  (`services/orchestration_v2/unit.py:448-454`, 521-523), which the writer of the
  same lane does not for its own calls (`staged/writer.py:240`, 317).

`UsageIsTruthful`, `ValidatedIsEarned` and `ValidatedUsageIsTruthful` are what is
left.

*Unit writer.*
- `ValidatedUnitIsClean` (instance of `Unit`) fails: `explain_acronyms` edits html
  after the settlement and the judgement (`idm/storyboard.py:643-646`), and
  `keeps_findings` looks at the edited slot only (`storyboard_steps.py:790-801`),
  so that a question or FAQ that is compared with that html may get a finding.
  The findings of the returned unit are counted for the author's note
  (`storyboard.py:679`), but make no validated unit one to review.
- The judgement in the reply is of the unit before that edit.
- `BoundNeverLimits` (`storyboard.py:537-539`) fails for a text of three steps
  beside a FAQ of four: `Spec` of `UnitWriter` with Kinds <<"html", "la_faq">>,
  MaxFindings 7, MaxEchoes 0, MaxBlocking 1, JudgeMode "off", Plenty 1. The unit
  then is replaced as a whole although each of its slots could be settled. With seven
  findings `Answers` has to be written as the equal set
  {a \in SUBSET Findings : Cardinality(a) <= MaxFindings}, which TLC enumerates
  faster there (and slower on the instance of `Unit`); the counterexample then
  takes seconds.
- A second judgement that does not fit in the time discards the first one; the
  unit then is no longer in the provider's lane. A terminal provider failure in
  the judge's repair is swallowed there.

*Staged unit.*
- A deadline in the first call of the writer becomes an HTTP error instead of
  the fallback that the comment at `unit.py:77-80` describes.
- `request_timeout_ms` bounds each attempt and the wait for a slot, so that a
  retried call of the review may outlast the budget it was given.
- When a repair made no progress, the summary of the review names the findings
  of the repair that was rejected.
- A unit of which every component was taken from the server may be
  validated, the whole fallback never is.

## What is not modelled, and why

- Extraction, chunking, prompts, answers, the contents of validators and text
  rules: data without control. What a fallback returns must pass the validator
  of its stage; that is arithmetic over character budgets and facts.
- Of retrieval: ranking, thresholds, the coverage manifest, several documents
  in one request. Of indexing: `delete_kb` (the same two statements over a
  whole knowledge base) and what several documents share.
- Of the units: worksheet slots, cancellation by the caller of the staged lane, and time other than as what still fits. The
  staged proposal of a whole chapter is not the unit route. Of what slots read of
  each other, only findings of the quality rules are: the rules of Node and of
  the shared validator stay with their slot. How far an estimate is from a bill
  is a bound (`EstimateMax`), and the course has one bill per call.
- Of the architecture: retrieval before the graph, media review, the shape of
  the answer.
- The join of worker threads when the interpreter exits, after the lifespan.
- Of `RuntimeState` the `draining` flag: it is set when the lifespan ends, that
  is after uvicorn's own grace period, so nothing modelled reads it.
- Authentication, the schema guard, usage and telemetry, metrics, logging and
  wiring: a bounded cache, a cached result, conversions.

## Plan

1. Done: the modules above. The index rows came first because they are the
   shared state that outlives a request, with the readers beside them; then what
   every call passes through (limiter, pool, transport, children), then the
   tasks on top (embedding, course design, architecture, units), and what holds
   all of it together (lifetime).
2. Next modules:
   - `LessonGeneration`: the second LangGraph workflow. Seen while reading it: a
     repair is counted only when it succeeds, its usage overwrites that of the
     generation, a provider error in a repair leaves the graph as an exception,
     and the bound is the smaller of 2 and the setting;
   - `StageFallbacks`: the packing of W1, W2 and W4 fallbacks as operators over
     small facts and blocks, against the validators of their stages;
   - preserve design, module design and organisation profile on the ledger of
     `CourseDesign`;
   - `SchemaGuard`: the cached readiness result.
3. Next proofs: what the later modules promise. Of the present ones, that the
   unit lanes only go forward (a measure that every step lowers) would bound
   their provider calls for every instance, and that the calls `CourseDesign`
   makes are calls of `ProviderCalls` would join the last two modules that are
   proved about separately.

Runs are kept few and each asks one question: a later module takes the place of
the weakest run or joins a run of a related module.
