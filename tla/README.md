# RegDelta in TLA+

RegDelta reads regulatory circulars, extracts their obligations, and assesses a
firm's policy manual against them with a language model. This directory holds
TLA+ models of the parts of it that are hard to test, what TLC checks about them,
and what TLAPS proves about them. Paths in this document are relative to the
repository root.

| Module | Models | Checked by | Proved in |
|---|---|---|---|
| `RunLifecycle` | what launching and running an assessment promises | `runs` (as a refinement) | |
| `AssessmentRuns` | POST /assessments, the launch transaction, the background task, crash and recovery | `runs` | `AssessmentRunsProofs` |
| `AssessmentGraph` | the graph's nodes, judge threads, call budget, wall clock | `graph`, `graph_refused_memo` | `AssessmentGraphProofs` |
| `TraceStream` | Tracer, SSE generator, EventSource, reducer, page queries | `trace` | `TraceStreamProofs` |
| `Gateway` | call slots, client construction, retries | `gateway` | `SharingProofs` |
| `SharedSearch` | the shared reranked searches | `search` | `SharingProofs` |
| `CitationGraph` | reference resolution, supersession, the temporal filter | `database`, `retrieval` | `DatabaseProofs` |
| `Corpus` | ingestion, citation graph rebuild, policy pack, embeddings, extraction, the seed | `database`, `corpus_reseed` | `DatabaseProofs` |
| `Decisions` | analyst decisions and the page that shows a run | `database` | `DatabaseProofs` |
| `Retrieval` | the retrieval pipeline, statement by statement, and its two models | `retrieval` | `RetrievalProofs` |
| `Segments` | normalisation, pages, paragraphs, chunks, policy clauses | `algorithms` | `AlgorithmsProofs` |
| `Quotes` | spans, grounding, obligations by model and by rule, reference keys | `algorithms`, `quote_drift` | `AlgorithmsProofs`, `QuotesProofs` |
| `RuleJudge` | the rule-based provider's judgement | `algorithms` | `QuotesProofs` |
| `Metrics` | the evaluation suites' measures | `algorithms` | `AlgorithmsProofs` |
| `SmokeCheck` | the paid smoke check | `algorithms` | |
| `HumanReview` | support review and annotation, over files without locks | `evaluation` | `SharingProofs` |
| `Measurement` | gold set, measurements, their provenance, the baseline gate | `evaluation` | `SharingProofs` |

`Algorithms` enumerates inputs for the pure algorithms; `MCCorpus`, `MCDatabase`,
`MCRetrieval` and `MCEvaluation` instantiate the other modules for TLC. `Retrieval` and
`Corpus` both extend `CitationGraph`: what one writes is what the other filters by.

Run a check with `tlc -workers 2 -config runs.cfg AssessmentRuns`, a proof with
`tlapm AssessmentRunsProofs.tla`. `PROJECT.json` lists the runs with their
properties, the lines each definition models, the hazards and the theorems.

## 1. Inventory

### Components, their state and their operations

- **Launching and recording runs** (`backend/app/routers/assessments.py`,
  `services/assessment.py`, `repositories/assessments.py`, `agent_runs.py`,
  `main.py`). State: one `assessments` and one `agent_runs` row for a run, each
  with a status; a Postgres advisory lock for each circular and policy pack; the
  background task in the API process. Operations: launch (lock, `find_active`,
  insert two rows, commit), refuse with 409, `run_assessment` (RUNNING, the graph,
  `_finish`), recovery at startup. *Correct when* no two runs with the same inputs
  are in progress, both rows say the same, an ended run stays as it is and an
  accepted one ends.
- **Assessment graph and call budget** (`backend/app/ai/graph`). State: the
  LangGraph state, one worker coroutine for each obligation, the threads in which
  they call the model, `CallBudget`, committed findings, `failed_tasks`.
  Operations: plan, fan out, retrieve, judge and verify with re-judgement, persist,
  fan in, write the memo, stop at the wall clock. *Correct when* the limits hold,
  a COMPLETED run has skipped nothing and the stored usage is what was used.
- **Trace and live stream** (`tracing.py`, `assessment_stream.py`,
  `frontend/src/hooks`, `pages/AssessmentWorkspace.tsx`). State: steps with a
  sequence number and a status, one generator for each connection, what it last
  sent, the page's `TraceState` and two queries. *Correct when* the page never goes
  back, shows the stored trace once told the run is done, and gets there.
- **Analyst decisions** (`set_decision`, `get_assessment`, `useAssessment`,
  `useSetDecision`, `DecisionBar`). State: a finding's decision and its time; the
  page's cached detail and its fetch. *Correct when* the page never shows a decision
  that was not stored, settles on the stored one, and lists every finding of a run it
  shows as ended.
- **LLM gateway** (`backend/app/ai/gateway.py`). State: a semaphore of call slots,
  a lazily built client under a lock. Operations: a call with its retries.
  *Correct when* no slot is lost, one client is built and every call ends.
- **Search service** (`services/search.py`). State: `_running` tasks and
  `_finished` results by request. *Correct when* identical reranked searches run
  once, an answer is to the question asked and fresh, and nobody is harmed by
  another request going away.
- **Retrieval pipeline** (`ai/retrieval`, `repositories/search.py`). State: the two
  models loaded on first use, each behind a loading lock and an inference lock.
  Operations: dense and lexical candidates, reciprocal rank fusion, reranking, refusal
  below a threshold, the temporal filter and the probe for what it hides. *Correct
  when* an answer is the best of what was read, a refusal is decided on the best
  candidate, and the banner tells the truth.
- **Extraction and quote grounding** (`ai/extraction`, `ai/verification`):
  segments, chunks, spans, references and rules; pure functions over text. *Correct
  when* every offset cuts out the text it stands for.
- **Ingestion, citation graph, policy packs, the seed** (`services/ingestion.py`,
  `citation_graph.py`, `policy_pack.py`, `ingestion/`). State: circulars, citations,
  supersessions, clauses, embeddings, obligations; one session for each process, a
  transaction for each document. *Correct when* the report says what is stored, a
  rebuild replaces exactly what was there, a seed that reports success has done all its
  steps, and a circular goes out of force when its successor comes in.
- **Evaluation** (`evaluation/`). State: ledgers, annotations, gold set, result files and
  rows, the baseline: files without locks. *Correct when* what is counted was reviewed as
  it now is, saved answers survive later commands, numbers compared are of the same
  questions, and measures agree with their definitions.
- **HTTP API, configuration, logging, schema, frontend views, MCP server, scripts**:
  no state of their own.

### How they interact

A request handler commits a launch and hands a background task to the server. The
task runs the graph, whose workers search the manual, call the gateway from threads,
write steps through the Tracer and commit findings in sessions of their own. Each SSE
connection polls the two tables the task writes. The page applies the events,
independently polls the assessment's detail, and sends decisions on its findings. A
crash takes handlers, tasks, threads and connections with it and leaves the committed
rows; the next process recovers them before it serves. The corpus is written by
separate command-line processes at any time: the temporal filter of every search reads
what the last rebuild of the citation graph left. The evaluation tools read both and
write files for each other.

### What is hard

Two launches between check and insert. A process that dies between any two of the
steps above, and a recovery that itself fails. Coroutines that can be cancelled at
an await, and the threads they wait for, which cannot. A budget shared by threads
and known only after each call. Cancellation inside a transaction. Reads that
are not one snapshot: the stream's two, the detail endpoint's four, a search's six, a
rebuild's three deletes. Connections that break with events under way, and a browser
that gives up for good. Locks, slots and cache entries that must be given back on
every path. Commands that rewrite a file another has just read. Offsets that must
survive normalisation, and figures that divide by counts which may be zero.
`PROJECT.json` lists the most important of these at their lines with the property
about each.

## 2. The models

### RunLifecycle and AssessmentRuns

`RunLifecycle` is the promise: a launch is one step, taken only if no active run
has the same inputs; a run goes PENDING, RUNNING, one terminal status; a restart may
fail active runs only. `AssessmentRuns` has what the code has:

- `Post`, `LockLaunch`, `Refuse` / `AddRows`, `CommitLaunch`, `Respond` are the
  handler from one await to the next. A transaction's rows become visible, and its
  advisory lock free, at its end. A request and the run it creates share an identity,
  and what it asks for is chosen in `Init`: the code never changes it.
- `StartRun`, `Execute`, `FinishRun` are `run_assessment`. `Execute` chooses any
  outcome; `AssessmentGraph` models how the outcome comes about.
- `FailRequest` and `FailRun` are database failures where the code has no handler.
  `FailRequest` in `created` is the close of the request's session: the response, and
  with it the background task, is lost after the commit.
- `Crash`, `Restart`, `Recover`, `RecoveryFails` are the process and its lifespan.

The model has one API process. A recovery that races the last commit of the process
before it is left out: the old process's connections are taken to be gone.

### AssessmentGraph

One run from `plan_assessment` to `_finish`. The coroutine of an obligation
(`worker`) and the thread running its `_judge` (`thread`) are separate: `Timeout`, or
an exception anywhere, stops coroutines at the await where they stand
(`StopWorker`), while a started thread goes on (`CallJudge`, `JudgeReplies`,
`CallRepair`, `RepairReplies`, `GatewayFails` never look at `stage`). A job not
started is dropped with its coroutine, and a commit that is cut short may have reached
the database or not (`MaySave`). `CallBudget.acquire` and `record` are under its lock
and are one step each. A judgement is abstracted to what the code branches on:
both quotes located, not located, no usable answer, refused by the budget, fatal.

### TraceStream

`Tracer.step` is three transactions around a body; only the body is inside
`try`/`finally`, so `CancelBody` and `CancelOutsideBody` differ. The SSE generator
reads the run (`ReadRun`) and then the steps (`KeepPolling`, `SendDone`,
`SendTimeout`) in two statements, between which everything else may happen. `channel` is
what was sent and not applied; it dies with its connection. `ConnectRefused` is the 502 of
the proxy while the API is down, after which a browser never retries. The page
switches from the trace to the steps query (`Shown`) once its own query of the run,
refetched every few seconds, shows the end. A step's fingerprint is abstracted to
its status. Malformed events and an unknown run are left out.

### Decisions

One run that still adds findings, the page of one analyst, and decisions sent from
elsewhere. `LoadFinding` and `StoreDecision` are the two statements of `set_decision`; the
UPDATE writes only the columns that differ from what the handler loaded (`Updated`), as
SQLAlchemy's unit of work does. `ReadDetail` is one statement of `get_assessment` at a
time (`Reads` gives their order). `AnswerArrives` replaces the finding in the page's
cache, cancels a fetch under way and starts another, as `invalidateQueries` does. A
failure (`DecisionFails`, `FetchFails`) may fall before or after the commit.

### Gateway

A call takes a slot, finds or builds the client under double-checked locking
(`FindClient`, `LockClient`, `FoundBuilt` / `StartBuild`, `Build` / `MissingKey`), makes
an attempt, and ends, or backs off and tries again. `Leave` is the end of the `with`
block on every path. `_groq` and `_anthropic` have the same shape and are one model;
the rule-based stand-in is `AnswerLocally`. Each call belongs to one of several gateways,
as `run_assessment` constructs one for each run.

### SharedSearch

One event loop, so an action is what happens between two awaits. `Settle` is the done
callback, which runs after the task's end (`Return`, `Raise`) but not at the same
moment: a request arriving in between joins a task that is done. A waiter goes on after
the callback. `Stored` keeps the order of the `OrderedDict`, where an existing key keeps
its place. The clock advances between any two steps.

### CitationGraph, Corpus, Retrieval

`CitationGraph` has the pure part: which circular a reference names (`Resolve`, by number,
then by date), the edges a corpus gives (`Citations`, `Supersessions`), and the filter that
reads them (`Superseded`, `InForce`). A circular is a file with a number, bytes, a date and
paragraphs, and a paragraph has the references, dates and cue the extraction found.

`Corpus` runs the modules of `ingestion/` as processes with one session each, from one
statement to the next under READ COMMITTED. `Look` (by checksum), `LookNumber`, `Insert`, `Save`,
`CommitDocument` are a document's transaction with its unique keys, and other processes may commit
between any two of them; `RolledBack` is every way it fails. `DeleteAll`,
`CitationsDeleted`, `SupersessionsDeleted`, `Tabulate`, `WriteEdges`, `ReplaceGraph` are a
rebuild: a DELETE works on the rows it saw when it began and waits for other writers of
them. `LookPack` and `StorePack` are a lookup and an insert under a unique key, and the clauses are
embedded in a query of their own after the chunks (`SelectRows`, `EmbedBatch`, `EndEmbed`). `Begin`,
`NextModule`, `Stop` are the seed's sequence. `Crash` loses a transaction.

`Retrieval` runs `retrieve` for two searches while the corpus changes between any two of
its statements (`Changed`: a document is added, embedded or gone, the graph rebuilt). A
request carries the order its query gives the chunks, as the models are external. Dense search
returns the nearest chunks of that order; the code's HNSW index is approximate and may miss some,
so what `AnswersAreSound` and the banner say of the candidates is said of an index that misses none. Sorted
and filtered lists are functions of the positions (`Listing`, `Only`). The models are loaded under a
loading lock with a second look (`Look`, `LockModel`, `Recheck`,
`Build`) and used under an inference lock, by searches and by the start-up task.

### Segments, Quotes, RuleJudge, Metrics, SmokeCheck

Pure operators. Text is a sequence of the characters, words or lines that the code tells
apart (`Kind` of a line, white space, joined and invisible characters). Folds replace loops.
A percentile is in twentieths and a rate a fraction, so no rounding is modelled. Bootstrap
draws are inputs. The smoke check is a function of what it finds, with the code's order of
checks.

### HumanReview and Measurement

Each command is a process that reads a file when it starts and works on that reading
(`StartExport`, `StartReview`, `StartAnnotate`), while others come and go; a rewrite replaces
the file by what was read and changed. `Crash` and `CutShort` leave torn files. Hand edits
and revised findings are actions of the environment. What a command has still to ask about is
the set of the positions left in its reading; it asks about the first (`Asked`) and goes on
(`GoesOn`). `Measurement` has the gold set, runs
with their summaries, rows and provenance, re-summarised results, the baseline
and its gate, and the corpus that changes meanwhile. What a command reads before it measures is
one step. Storing a summary is a transaction without a lock or a unique key: `Erase` is the start
of its DELETE and fixes the rows it sees, `Erased` its end, after waiting for transactions that
have removed some of them, and `Persist` the inserts and the commit. So two may overlap and
both insert. The ghost `overlapped` holds the commands to which that happened.

## 3. The runs

The state spaces stop: requests are answered, runs end, counters reach their bounds.
So most configurations switch deadlock checking off.

| Run | Bounds | What it shows |
|---|---|---|
| `runs` | 3 requests, 1 pair, 2 dates, 1 crash, 1 database failure | `OneActiveRun`: launches exclude each other. `RowsAgree`. `ActiveRunIsOwned`: without database failures no run is active that nobody will finish. `TerminalIsFinal`. `LifecycleSpec`: refinement of `RunLifecycle`. `AcceptedRunEnds`, `RequestAnswered` |
| `graph` | 2 obligations of at most 2 clauses, 1 re-judgement, 5 calls of 1 or 2 tokens, 5 tokens | `LimitsHold`: calls within the budget, tokens over it by at most one response for each worker. `OutcomeIsTrue`: COMPLETED skipped nothing, CAPPED has a reason, the stored usage is what was used. `FindingsAreHonest`: one finding for each clause or none, attempts are those made. `FindingsSettled`: nothing is added under a terminal status. `RunIsStored`, though no thread ever has to return |
| `trace` | 2 nodes, 2 breaks or timeouts, 1 crash | `DoneIsFinal`, `TraceIsSound` (numbers are unique, a restart closes the steps of the runs it fails), `StepsNeverGoBack`, `PageConverges` |
| `gateway` | 3 calls, 2 gateways, 2 slots, 2 attempts | `SlotsAccountedFor`, `OneClientPerGateway`, `CallEnds` |
| `search` | 3 requests, 2 questions, 1 entry, a TTL of 2 ticks, 1 failure | `OneAtATime`, `AnswersTheQuestion` (and no older than the TTL), `FailsOnlyByItself`, `WaitEnds` |
| `database` | a seed of 2 circulars started twice, 1 crash, an operator with 5 files, one of them the seed's, and 3 modules; or 2 findings, 2 decisions, 1 failure | `ReportIsTrue`, `RebuildIsExact`, `HandoverIsExact`, `SeedIsComplete`; `DecisionsAreTrue`, `EndedPageIsWhole` |
| `algorithms` | every text of 5 characters, page of 3 lines, 5 paragraphs, quote of 3 in a text of 4, obligation and clause of 3 words to judge, data set of 2 to 5 rows, every pair of faults of a smoke check | `SpansRoundTrip`, `ChunksCover`, `QuotesAreLocated`, `TextIsStable`, `MetricsAreHonest` |
| `retrieval` | 3 circulars of a chunk each, 2 searches and the start-up task, 1 change, 2 candidates and 2 results | `AnswersAreSound`, `BannerIsTrue`, `ModelsAreSafe` |
| `evaluation` | 3 commands, 2 findings, 2 contents, 2 questions, 1 revision, 2 reviews; or 2 measurers, 1 label, 2 modes, 2 versions, 4 commands | `CountsAreExact`, `SavedWorkStands`, `NumbersOfSameQuestions` |

Why these bounds are enough to meet the interesting cases:

- *runs*: three requests give a holder of the lock, a waiter and a latecomer, and with
  two dates both requests that exclude each other and requests that only share the
  lock. A second pair shares nothing with the first. One crash and one failure can
  strike anywhere, the recovery included; the proofs cover any number.
- *graph*: two workers with five calls and five tokens let either limit be crossed by
  either worker, with a call of the other under way, in a first judgement, a repair, a
  re-judgement or the memo.
- *trace*: two nodes are needed for two numbers to meet; two breaks for a connection
  lost while it replays after a first loss.
- *gateway*: two slots and three calls make calls wait, and two threads race for the
  client of one gateway while a third uses the other.
- *search*: three requests are a starter, a joiner and a later reuse; a cache of one
  entry is always full; with two ticks a result is fresh, then not.
- *database*: the files are chosen so that each outcome of a document happens (stored,
  bytes already known, number already taken, refused by the database, scanned without a
  text layer; the operator also has a file of the seed, so that the same bytes are committed between
  the two lookups of the other process) and the second seeded circular displaces the first, once by
  number and once
  by date. Two decisions are enough to overlap, on one finding or from two pages. The two
  halves share no table and a behaviour is of one of them.
- *algorithms*: the lengths fall on both sides of the target and the overlap; the line kinds
  are those the segmenter tells apart; a quote of three may be split by white space twice.
- *retrieval*: the middle circular may be superseded by the last, so that each of the
  three lists may hold a hidden chunk first, in the middle or last; one change falls between
  any two statements. `NoFilters`, an as-of date, and a narrower `date_to` are asked.
- *evaluation*: three commands are an export, a review and one that overtakes either. The
  two halves share no file. Symmetry over the commands, used with invariants only.

### Where the code differs from what is written about it

Each of these runs checks one statement and TLC finds it violated.

| Run | Statement | What happens |
|---|---|---|
| `graph_refused_memo` | `error_reason` says why a COMPLETED run has no memo (`services/assessment.py`) | a refused memo is stored as an empty text without a reason |
| `corpus_reseed` | "Every step is idempotent, so re-running is safe." (`ingestion/seed.py`) | extraction commits each circular and skips itself when any obligation exists, so a seed that died in the middle of it is completed by no later seed |
| `quote_drift` | VERIFIED: "both quotes were found verbatim; offsets point at them" (`docs/architecture.md`) | an obligation keeps the model's own white space, so the offset of a quote in it may point elsewhere in the circular |

Read in the code and not given a run:

- a recovery that fails at startup leaves the runs of the dead process RUNNING until the
  next restart (`main.py:62`; `docs/limitations.md` says never). `runs` lets it happen;
- a judgement whose quotes were not located is dropped when its re-judgement gets no
  answer (`nodes.py:323`), and a node cancelled next to its body leaves its step RUNNING
  (`tracing.py:101`);
- an EventSource that met a 502 has given up, and the page says the browser is retrying
  (`useAssessmentStream.ts:29`);
- every run has its own gateway, so two runs exceed the limit documented for the process
  (`gateway.py:212`); the budget does not count the gateway's retries;
- two overlapping decisions on one finding: a handler that loaded ACCEPTED and sends
  ACCEPTED writes only the time, so it may leave PENDING with a time, or answer ACCEPTED
  while REJECTED is stored. A decision stored whose answer is lost is reported as not saved;
- `docs/architecture.md` says a second launch of the same circular and manual is refused, and
  `find_active` lets one with another as-of date through (the model has it so);
- `run_assessment` says it never raises, and the statements around the graph are outside any
  handler (`FailRun`). POST /assessments holds its session's connection while it asks the pool
  for a second one, so as many launches as the pool has connections wait for each other until
  its timeout;
- "reused for five minutes" holds until an entry is evicted, which can hit a recomputed
  entry early;
- the probe replaces `date_to` by the as-of date (`pipeline.py:169`), so with both given it may
  report chunks that `date_to` hid; a dated reference that resolves to the citing circular is
  dropped; the cue that comes first in the table wins over a stronger one (`citations.py:180`);
- a chunk that begins with a carried overlap may exceed the target (`ChunksCover` says by how
  much), which the header of `chunking.py` does not; and an oversized paragraph is put behind a
  carried overlap, though the comment at its branch says it is "never merged with neighbours"
  (`chunking.py:102`);
- ingesting the same bytes twice at once may store both, after which looking them up by
  checksum raises; or, when one process commits between the other's lookups by checksum and by number,
  report identical bytes as a conflict "from a different file" (`ingestion.py:132`, `:135`;
  the docstring at `:124` says `IngestConflict` means a different file). `ReportIsTrue` allows it
  only when another process stored them;
- two commands that store results under one label at once leave runs of two summaries beside each
  other (`run_eval.py:339`), which its docstring says never happens ("a corrected summary never sits
  beside the one it corrects"). `NumbersOfSameQuestions` says that the next command to store
  the label alone leaves nothing of either;
- `annotation.review` rewrites from its own reading and loses what another saved; ledgers cut
  short by a crash lose their tail; two exports lose one's rows. Result files are hashed after
  measuring. `SavedWorkStands` and `NumbersOfSameQuestions` show that these are the only ways;
- "no candidates" counts as refused in the retrieval harness (`run_eval.py:147`);
- the memo's "obligations with no matching clause" counts findings; the rule-based judge looks at
  the first figure of a text only, and a quote may be trimmed in front of it; greedy matching
  depends on the order of rows a query without ORDER BY returns; the smoke check may call a run without
  memo INVALID when a call
  under way crossed the token cap.

### Fairness

- *runs*: handlers and tasks are run by the event loop (WF); the wall clock ends every
  graph, so `Execute` is fair; Postgres serves the waiters of a lock in order, so
  `LockLaunch` is strongly fair; a supervisor restarts the API and its recovery either
  succeeds or fails. Nobody has to post, crash or fail. A run left by a failed
  database write is not promised to end: `AcceptedRunEnds` says so.
- *graph*: the clock, the cancellation of coroutines and the final write. Not the threads:
  a provider may hang, and the run must still end.
- *trace*: the nodes, `_finish`, recovery, and the page's two queries. Nothing is assumed of
  the stream: every connection may break or be refused for ever.
- *gateway*: every thread that can go on does; the HTTP timeout configured on both
  clients ends an attempt. `LockClient` and `TakeSlot` are only weakly fair: a thread is
  not promised the lock ahead of others, and needs no promise, as each call contends for
  it finitely often.
- *search*: retrievals end, callbacks run, waiters are woken.
- *database*, *retrieval*, *evaluation*: none. People and shells start these commands and
  nothing obliges them to go on; the properties are safety.

## 4. What is proved

TLC checks small instances; the theorems hold for every value of the constants. Each proof
module states an inductive invariant `IInv` as a conjunction of named parts, shows that it
holds initially and is kept by each action, and derives the properties from it. The same
conjunctions were model-checked on the bounds above before they were proved.

**`AssessmentRunsProofs`**, for any sets of requests, pairs and dates and any number of
crashes and failures, assuming only that `NoOne` is not a request and the bounds are
natural numbers: `TypeCorrect`, `AtMostOneActiveRun`, `RowsAlwaysAgree`, `ActiveRunsAreOwned`,
`TerminalStatusIsFinal` and `ImplementsLifecycle` (the refinement of `RunLifecycle`).
`OneActiveRun` is not inductive: a state may satisfy it in which two requests are both
about to commit. The invariant adds why that never happens. The lock of a pair is
held by exactly the request whose launch transaction is open (`LockHeldInTransaction`),
so two requests of one pair are never in it together; the one about to commit has no
rival among committed runs (`NoRivalBeforeCommit`), because only a commit under the same
lock creates an active row with the same inputs; a row says how far its task has come
(`RowFollowsTask`), so `StartRun` and `FinishRun` never turn an ended run active; and
nothing runs while the process is down (`QuietWhenNotUp`), so a recovery never fails a
run that a task still writes. `RowFollowsTask` also gives `TerminalIsFinal` and maps
every step to a step or a stutter of `RunLifecycle`.

**`AssessmentGraphProofs`**, for any finite set of obligations, any limits, clauses and
retries, and responses of any sizes with a largest one (the bound needs a name for it):
`TypeCorrect`, `LimitsAlwaysHold`, `OutcomesAreTrue`, `FindingsAlwaysHonest`,
`FindingsAreSettled`. What the budget overshoots by cannot be read off `budget` alone:
a claim is granted below the limit and paid for later. `OwedIsCovered` counts what is
owed, a largest response for each call under way, and for the memo's until its coroutine has
taken it; a new claim is granted only when the tokens are below the limit and at most one
call of each other worker is owed. `ThreadsAreOwned` says whose thread may run when: of a
coroutine that waits for it, and the memo's only once all workers have ended, which is why
the usage of a run that was not stopped no longer changes when it is stored
(`RecordIsTrue`). A cancelled run has threads without coroutines, and for it only the
limits are claimed. `Progress` counts each clause behind a worker as a draft or a failed
task unless the budget is spent, which makes COMPLETED mean that nothing was skipped;
`DraftsAreHonest` ties each draft to the judgements made of its clause.

**`TraceStreamProofs`**, for any finite set of nodes and any number of crashes and broken
connections: `TraceAlwaysSound`, `EndIsFinal` (a stored end and its steps never change
again), `DoneIsAlwaysFinal` and `StepsOnlyGoOn`. Numbers are unique because each is the
counter's next value (`NumbersAreGiven`); nothing writes after the end because every node has
ended or was stopped when the status is written (`WritersHaveEnded`). This first invariant is
of the trace alone, and one lemma shows that no action of the stream or the page writes the
trace. The second, `PInv`, is of the page and rests on the first. A step may be in five places
at once: on the page, in several events under way, in what the connection remembers
having sent, in what it has read, and in its row; `StepsGoOn` orders them all, and says so
for any two events in the channel, so that applying the first leaves it true of the rest.
`SentIsSaid` ties the connection's memory to the last event under way about the step, or to
the page if none is: an omitted event was not needed. `EndComesLast` says that a
"done" is the last thing a connection carries and that it names the stored end.

**`SharingProofs`** is about what concurrent callers and commands share, in four specifications. For any
finite set of calls, any gateways and any limits of at least one (`GatewaySpec`): `NoSlotIsLost` and
`OneClient`. The count of `SlotsAccountedFor` is kept by three
lemmas on the set of calls that hold a slot: a step adds one, removes one, or keeps
it. For `OneClient`, the lock is held exactly by the call that checks or builds
(`LockHeld`), and one that builds does so for a gateway without a client
(`BuildsTheFirst`), so a client is never replaced. `AttemptLeft` bounds the attempts.

For any requests, questions, cache size, TTL and failures of the shared searches:
`SearchesExclude`, `AnswersAreFresh`, `NoSharedFailure`. `OneAtATime` is not inductive: a
computation that `_running` does not name could be followed by a second one. By
`RunningIsRegistered` the registry names exactly the computations from their start to
their callback. Freshness follows the result from its computation through the cache
(`CacheIsTrue`: an entry is the settled result of a search for its key, dated when it
was settled) to the request that takes it (`SourceIsTrue`).

**`DatabaseProofs`** is about two specifications that share no table. The first is `Corpus`,
for any files, any number of processes, commands and crashes, and any jobs made of the
seed's modules: `ReportAlwaysTrue`, `RebuildAlwaysExact`, `HandoverAlwaysExact`,
`SeedAlwaysComplete`. Assumed of the constants (`CorpusAssumption`) is that no file is named
twice in one process's batch, that dates are numbers, and that a job is the seed's or one of its
modules. `CInv` has nine parts. A transaction holds the row of the document in hand and no
other (`RowsInHand`), and what is to come has not been reported (`BatchIsAhead`), so the
report and the stored rows grow together (`ReportStands`); a number found taken after the bytes were
not found is another process's or of other bytes, since its own rows were all there to be found.
`GraphFollowsCorpus` is why a
rebuild beside others does no harm: every citation it has deleted and not yet committed starts
at a stored circular, and before it commits its own rows link every such circular again. So a
circular, once linked, stays linked in what is committed. `AloneDeletesAll` says that
the statements of a rebuild nobody overlaps see the whole table: its own rows are all there is
afterwards. `SeedGoesOn` says how far a seed is at each label: its documents reported or still
ahead while it ingests, a copy of each stored and linked after the rebuild, embedded or in the
list to embed after that. Whose copy it is may differ, as another process may have stored the
same bytes. `HandoverIsExact` needs only that a stored edge bears the date of its newer
circular. The lemmas under these are about `Resolve` (what it binds carries the number or the
date named), `Citations` and `Supersessions` (their edges start at listed circulars), and
`ById` (it lists every row once), which is written as a function so that it can be reasoned about.

The second is `Decisions` (`DecisionSpec`, the analysts' half), for any number of findings,
decisions and failures: `DecisionsAlwaysTrue` and `EndedPageAlwaysWhole`. `LastWordIsShown` says
where the page's last word on a finding is: in a stored decision whose answer is awaited, in a
fetch that has yet to read the list or read it since, or on the page. The page that shows a run
as ended is whole because the status is read first: from then on nothing counted changes
(`FetchIsTrue`). `TimesAreTrue` says that where no decisions overlapped a handler writes on
what it loaded. `database` checks either half by itself.

**`SharingProofs`**, on the files that commands share, in two sets apart. For any number of
commands, reviews, revisions and hand edits, and finite sets of findings and questions
(`ReviewSpec`): `CountsAlwaysExact` and `SavedWorkAlwaysStands`. `CountsAreExact` follows once
nobody is asked about a row whose hash is not that of what it says
(`AnswersNameWhatWasSeen`). `SavedWorkStands` is of a file that one command rewrites from its own
reading: `CandidatesStand` and `AnnotationsStand` follow what was saved from the file into the
reading of every command that can still put it back, unless the file was cut short or the
command overtaken, and say that at most one command is between truncating and writing. For any
number of measurers, labels and versions (`MeasureSpec`): `NumbersAlwaysOfSameQuestions`.
Between the rows and the summary a command holds both (`RowsAwaitSummary`) and is the only
one to write that label; a summary that is read has rows of the same measurement
(`SummariesAreTrue`), from which the baseline is taken (`BaselineIsTrue`), so whatever the gate
compares is of one set of questions (`ComparedIsOne`). A command that nobody overlaps while it stores
a label finds every run of it (`RowsAreFound`: what is stored under the label is what its DELETE saw),
so it leaves its own and nothing beside them (`StoredTogether`), whatever overlapping commands left
before.

**`RetrievalProofs`**, for any corpus, requests, number of searches and changes.
`ModelsAlwaysSafe`: a thread holds the loading lock of its model from its second look to the
end of the build, and one that builds found nothing cached (`LoadersHoldTheLock`); one that is
inside a model holds its inference lock (`RunnersHoldTheLock`). `AnswersAlwaysSound` and
`BannerAlwaysTrue` follow from `SInv`: a search stands at a stage its request applies to and is
inside a model only at the stage that uses it (`CallersFollow`); from the load on its candidates
are the fusion of its lists and its answer is made of them (`IsAssembled`); and while the corpus
stays as it is, what it has read by a stage is what it would read now (`IsRead`), so that a
stage that is left out changes nothing. The rest is about lists. `Listing`, on which fusion and
reranking rest, places a member by how many come before it; `Listed` shows that with a strict
total order each member of a finite set stands there once and in order. `FractionsOrdered` makes
the comparison of the fused scores such an order; `BothBetterIsFirst` and `TopIsFirst` are what
the sum of `1 / (k + rank)` gives, `HitsAreBest` what is left after the cut and the rows that
vanished. Assumed is what the code has by its types and settings (`RetrievalAssumption`): chunk
ids are numbers, `retrieve_top_n`, `rerank_top_k` and `rrf_k` at least 1 (`config.py`), a request
has lists of chunks and a score for each, the mark of a free lock names no thread, and the
start-up task is no search.

**`AlgorithmsProofs`**, for pages, manuals and lists of paragraphs of any length and any
target, overlap and threshold: `SpansAlwaysRoundTrip`, `ChunksAlwaysCover`, `TextAlwaysStable`,
and `MatchingAlwaysHonest` for predictions and labels of any number.
Assumed is that bounds and budgets are natural numbers (`AlgorithmsAssumption`). The loops of the
code are folds, which the library defines by recursion over a set of indices, and induction on
data is out of the provers' reach. So each fold is unfolded once into the states its loop goes
through, a function on the numbers up to its length that exists by well-founded recursion on
sets of indices (`FoldExists`, then `TokensFold`, `ChunkFold`, `BlocksFold`, `AddFold`,
`FullFold`); that a set of numbers holds all of them (`UpTo`) then replaces the induction, and what is
left is an invariant of the loop. `Chunking` says how far the chunks of `chunk_paragraphs`
reach, that the open group goes on where they end, and that what it repeats fits the overlap. `Splitting`
says that the blocks and the open one hold the solid lines so far in order, and that the open one
is a table or has no row of one. `LaidOut` gives each paragraph its block and its
offsets, from which `SliceLaw` cuts any run of paragraphs out of the full text: a chunk, or one
paragraph. `ClauseSlice` does it for a clause, and `Headings` are the clause lines in increasing
order, so clauses cannot overlap.

`TextIsStable` has three parts, each for texts of any length. What a step of `normalise` keeps
of a text is a set of places (`Kept`): `KeptLaw` numbers them in order, `KeptNeighbours` says that
what was left out lies between two neighbours, `KeptOnly` that the characters of a kind survive when
no place of theirs was left out. With these each step has a law (`ShownLaw`, `UnifyLaw`,
`TrimLaw`, `CollapseLaw`, `StripLaw`): what it establishes, what it keeps of the step before, and
that a text which has it already is left as it is. So a normal text is a fixed point (`NormalIsFixed`),
and the characters that show are those of the text as printed. A reference's key has no
separator at its ends and no two in a row, which `normalise_reference` leaves alone
(`KeyIsFixed`), and everything a variant adds is taken off before anything depends on it (`KeyOfVariant`).
An obligation found by rule lies within one sentence (`FoundLaw`), a sentence starts where the
one before it has ended (`SentenceLaw`), and a sentence has one obligation.

`MatchingIsHonest`, the part of `MetricsAreHonest` on extraction, compares the greedy matching of
`compute` with the largest set of matching pairs that share no prediction and no label. The
invariant of its loop (`ClaimedWell`, kept by `ClaimKeeps`) is a set of as many pairs as labels are
claimed, such that every pair of a prediction seen so far has its label claimed or its prediction in
one of them.
After the last prediction any set of pairs that share nothing therefore splits into those whose
label is claimed and those whose prediction is, neither larger than the matching (`HalfOfBest`);
`RatesLaw` reads the rates off the counts.

**`QuotesProofs`** extends it with `QuotesAlwaysLocated`, for texts, quotes and judgements of any
length, assuming further that a quote is trimmed to at least one word (`RuleJudgeAssumption`).
`QuotesAreLocated` has a part for each of who quotes. For a model's quote (`ModelQuotesAlwaysLocated`)
the words of a text are the runs of solid characters in order (`WordPlaces`), and the words of
a part between two blanks, or the ends, are those of the text that lie in it (`WordsOfMiddle`).
The fold that follows a quote's words through the source is unfolded as above (`WordsEndFold`).
From there soundness (`MatchIsTrue`: what it ends behind has the words of the quote) and
completeness (`MatchExists`: where a part of the source has the quote's words, the fold that
begins at the first of them does not fail) are two invariants of it, and `ResolveLaw` puts them
together with the exact search: a quote is located exactly when its words stand in the
source, and the span cuts out those words. `verify_judgement`, the extraction with its repair and
the recheck of the evaluation follow from it (`ExtractedLaw` and the theorem). The rule-based
judge (`RuleQuotesAlwaysLocated`) quotes a trimmed sentence, or one figure, of the text it quotes
from, and what is such a part and does not begin with a blank is located (`TrimmedLaw`, `SentencesLaw`,
`BestIsQuotable`, `AroundIsQuotable`); `JudgeLaw` adds that a conflict shows in the quotes what it is about.

Only model-checked: every liveness property (fairness and ENABLED are beyond the prover), and
of the pure algorithms' properties the other parts of `MetricsAreHonest`, on agreement, performance,
ranking,
comparison and the smoke check: they sum and sort data sets, and what those recursions compute for
every input is an induction over data that was not carried out.
What would need an induction over data in the other proofs is avoided by stating an invariant for all
positions of a sequence at once, as `StepsGoOn` does, or a list by the place of each member, as
`Listing` does.

## 5. Not modelled

- **The connection pool**: its size and waiting are SQLAlchemy's; a wait that times out is a
  failed request, which `AssessmentRuns` has.
- **Model inference, PDF reading, OCR**: third-party code and I/O. Their results are chosen
  freely in the models that use them.
- **`wilson_interval`**: square roots, which TLC has no numbers for.
- **The cue table of supersessions** and the wording of rationales, memos, prompts and
  reports: text.
- **`check_provider_ready`, settings, logging, schemas and migrations, the read-only
  endpoints, the MCP tools, rendering in the frontend**: no state that a second step
  could find changed.
- **`prepare_db`, corpus generation, scraping, `report`, `bench_rerank`, scripts**: run once, by
  hand, on files of their own.
- **Several API processes**: the code is deployed as one, and recovery relies on it.
