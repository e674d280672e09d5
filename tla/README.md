# Verification of domainrag-ops

domainrag-ops is a multi-tenant retrieval-augmented question-answering service: a FastAPI
backend (`src/backend/app`), a library with the RAG logic (`src/packages/rag_core`),
PostgreSQL, Qdrant, an object storage, and model servers. This directory holds a TLA+
model of the backend's control: the chat turn, the indexing of documents, and the
administration around them, wherever requests, background tasks, workers or processes write
shared state. TLC configurations check it on small instances, and TLAPS proofs establish
the main results for every instance.

Paths below are relative to `src/`. `PROJECT.json` maps every definition that models code to
the lines it models, and lists the components, runs, mutants, findings, hazards and theorems.

## 1. Inventory of the system

| Component | State | Operations | Modelled in |
|---|---|---|---|
| Indexing jobs | `indexing_jobs` rows; `_pending` in memory; the background tasks | upload, reindex, retry, execute, four modes, job status | `IndexingJobs` |
| Document stores | `documents`, `chunks`, `chunks_archive`, Qdrant points, stored file | write by an indexing run, approval, metadata update | `DocumentStores` |
| Hard delete of a document | the same five stores, dead letters, chat logs | `DELETE /documents/{id}/hard` | `DocumentStores` (stores), `IndexingJobs` (beside jobs), `ChatLogs` (cited excerpts) |
| Archival of chunks | `chunks.archived_at`, `chunks_archive`, the payload | nightly worker | `DocumentStores`, lock in `CronLock` |
| Configuration overrides | `tenant_config_overrides`; per process: overrides, cache | PATCH, PUT /routing, load, preload, LISTEN/NOTIFY, reload | `ConfigCache` |
| Chat pipeline | the state of one LangGraph run or of one stream; the log row; the reply | the nodes, the gates, the generation chain, streamed events | `ChatPipeline`, abstract `ChatTurn` |
| Citation verification and judging | none | tiers 1 and 2, conflict detector, judge, gates 1 and 2 | `CitationVerifier` (operators) |
| Retrieval and access filter | none | what the filter lets through; routing, classification | `ChatPipeline` (`Permitted`, `ModelRouter`) |
| Chat logs, feedback, erasure | `chat_logs`, `conversations` | write, erase, delete, mask, feedback, reverify | `ChatLogs` |
| PII policy and storage approvals | `pii_storage_approvals` | approve, expire, revoke; block, mask | `ChatLogs`, `ChatPipeline` |
| Input schemas | `tenant_input_schemas`; per process: runtime schema and cache | PUT /schema, validate, schema channel | `SchemaVersions` |
| Evaluation jobs | `evaluation_jobs`, tasks, the swapped loader | run, execute, promote | `EvaluationJobs` |
| LoRA adapters | `adapter_registry`, KeyHub, shared directory, vLLM | upload, activate, retire, delete | `LoraAdapters` |
| Authentication and membership | JWKS cache; memberships | key lookup and refresh; enter, join, assign, revoke | `SigningKeys`, `TenantLifecycle` |
| Tenant lifecycle | `tenants`, data in tables, collection and storage, dead letters | register, change status, enrollment policy, hard delete | `TenantLifecycle` |
| Assessment items | `assessment_items` | extract, generate, validate, patch, approve, import | `AssessmentItems` |
| Cron and advisory locks | job loops, connection pools, session-level locks | lock, work, unlock, next month's partition | `CronLock` |
| Prompt studio, ledger, dashboards, clients, front end, infrastructure | - | memory of one process, best-effort output, read-only queries, I/O, presentation | out of scope (section 6) |

How the components meet:

* A request handler answers with 202 and leaves the rest to a FastAPI background task of
  the same process. The two share `IndexingOrchestrator._pending` (or that of the evaluation
  orchestrator), which lives in memory, and the job row, which does not. Nothing reads the
  job tables at startup.
* The indexing run, approval, metadata update, hard delete and the archival worker write the
  same five stores. No transaction spans two stores and most operations spread over several
  commits of one. Only indexing runs exclude each other, through a partial unique index.
* Search decides on the Qdrant payload alone. A payload that differs from the rows is
  therefore what users see; the chat pipeline cites what search lets through.
* Configuration and input schemas are shared by processes through tables; each process has
  its own copies. Changes travel by `NOTIFY`, and each notification is handled by an
  independent asyncio task. A lost connection is repaired by a full preload.
* A chat turn reads a configuration, calls models that may fail, and ends with one row in
  `chat_logs`, which erasure, hard delete, feedback and reverification change later.
* Evaluation runs use the dependencies of the live chat, with the loader swapped.

What is hard about it: interleavings at every `await`; status updates hidden by row level
security; reads and writes of one row in two transactions (tenant status, adapter registry,
promotion, item bank, reverification); session-level locks on pooled connections; deletes in
several systems of which any may fail; notifications that are lost or handled out of order;
a process that dies between the 202 and the end of the run; a pipeline in which every model
call may raise and four places rewrite the answer. The list with lines is under `hazards`.

What makes each component correct:

* jobs: one active job and one run per document; an accepted job is never lost and ends;
  its status moves forward only;
* stores: between operations the layers agree; a hard delete leaves nothing; an archived
  chunk has its copy; a withdrawn approval takes effect in search;
* configuration: a cached configuration is never older than the overrides of its process; a
  routing that has been answered is in use; every process ends up with the table;
* chat: a grounded answer rests on retrieved chunks that were measured; what is logged is
  what was answered; a blocked question reaches no model and the text of an answer is
  masked; every turn ends;
* logs: plain text needs an approval; what was erased or masked does not come back;
* administration: schema versions are one history and the newest is in force; what is
  promoted, served or approved has earned it; a tenant's delete_status is true, and what a
  failed step leaves behind is reported;
* background: keys are found and expire, one process at a time runs a job, loops go on.

## 2. Modules

### IndexingJobs

| TLA+ | Code |
|---|---|
| `status`, `jobDoc` | table `indexing_jobs` (a document is one domain, doc_id and doc_version) |
| `pending` | `IndexingOrchestrator._pending`: job id to request, of which the mode matters |
| `task[t]` | an API request and, after the answer, its background task |
| `docs`, `chunked` | which documents have a row, and chunk rows: what 404s and fallbacks depend on |
| `RlsApplies` | whether the role of the job repository is subject to row level security |

`PrepareUpload`, `PrepareReindex` and `RegisterJob` are the upload and reindex handlers up to
and including `job_repo.create`. `RetryLoad`, `RetryRequest` and `RetryReset` are `retry_job`
between its three awaits. `Execute` and `LoadConfig` are `IndexingOrchestrator.execute`; the
steps `Start` to `Finish` are `IndexingService` in the modes full, chunk_re_split,
parser_only and embedding_only, with the fallback of the last two to a full run and the 30%
rule (`FailFast`; the embedder fails for the whole batch or not at all, so the rate is 0 or 1
and `partial` is never written). `Fail` is the exception handler, `Abandon` the exceptions that
get past it, `Crash` the death of the process. `HardDelete` and `DeleteDoc` remove the rows
that the fallbacks look at, without a look at the job table.

`get` and `update` of the job repository never set `app.current_domain`. Under a role subject
to row level security they therefore see no row; `RowsVisible` is that condition, and the
unique index, which is no query, still works.

### DocumentStores

One document version. `doc`, `rows`, `cold`, `points`, `file` are the five stores, and `op`
what each concurrent operation does and remembers between two calls. Metadata is abstracted
to what the search filter and the archiver distinguish: the approval, whether `valid_until`
is past, whether the acl names anybody, whether the chunk is archived. (The archiver has a
retention period on top of `valid_until`; `past` stands for both, which merges two
thresholds of one date.) A step is one commit or one call of another service, with the
archiver's transaction split where READ COMMITTED takes its second snapshot.

Indexing runs are one at a time (`Indexing` in the guard): that is `SingleRun` of
`IndexingJobs`, proved there.

### ConfigCache

One tenant, several processes. A category's rows are one value, the number of the change
that wrote them, so that "older" is `<`. `over` and `cache` are the two dictionaries of
`TenantConfigService`; `link` and `snap` are the startup and the listener; `task[i][n]` is
the handler task of notification `n` in process `i`, between its SELECT and its use of the
rows. `Disconnect` may lose any notification that no task has started on; `Restart` clears
the process. `load` is synchronous and called on the event loop only, so it is one step.
`Spaced` restricts the administrators, not the system: changes wait until no snapshot is held
and no request is between its commit and its answer.

### ChatPipeline, CitationVerifier, ChatTurn

`ChatPipeline` is one turn. `pc` is the node of `build_chat_structured_full` or the step of
`StreamingChatService` that runs next, `st` the fields of `RAGState` (or the generator's
locals) on which something depends, `log` the row, `letters` the counted losses of a row,
`reply` what the client got, `calls` the outside services that were called. Each node is one
action; the generation chain (primary, its retries and fallbacks) one action per attempt, the
judge one per segment, the stream one per event. Models, embedder, index, database and judge
choose their answer from the sets that the constants give, or raise where the code calls
them. Edges of the graph are the function `Edge`; `Raise` is an exception that no node
handles. A text is reduced to its author and to whether it still holds personal data
(`dirty`); `MaskResponsePii` is what clears that mark. The same mark is kept apart for what
goes out beside the answer and is not masked: the segments (`segsDirty`), and the claims of
the citations and the items of an exam, which are stored as well (`keptDirty`). `rewritten`
says whether `rewritten_query` is the question as typed, the model's text, or empty.
Metadata that nothing depends on (judge results, details of conflicts, latencies) is left
out.

`CitationVerifier` holds the computation: which markers a segment keeps, what tier 1
measures, the heuristic conflict detector, tier 2 on syntheses and conflicts, the judge on
inferences, the unsupported share, the confidence and both gates. Conflict groups are the
list that the model gave, of which the code checks the length only: two equal groups pass.
Embedding similarities are inputs, as the level that the two thresholds give them; ratios
are compared as fractions, so that no rounding hides a boundary.

`ChatTurn` is the promise: a turn is opened, its outcome is recorded (or the loss of the
record counted), then delivered, and the outcome delivered is the one recorded; a turn may
be dropped without an outcome; a turn that is open is recorded or dropped, and one that is
recorded is closed. `ImplementsTurn` is the refinement: `Turn == INSTANCE ChatTurn WITH`
phase, record and answer computed from `pc`, `log`, `letters` and `reply`. The fairness of
`ChatTurn` must follow from that of `ChatPipeline`, so the run also shows termination.

### ChatLogs

The rows of `chat_logs` in the order of `created_at`, the conversations, the approval, the
turns that are under way (with the approval they have read), and one reverification (`rev`),
which reads a page, calls the embedder and writes back the citations it has read. One action
is one transaction. The history variables `erased`, `withdrawn` and `crossed` name rows that
were erased, excerpts that were masked, and rows that changed while a reverification held a
copy of them. A row also has its `rewritten_query`, which the storage policy does not touch
and an erasure sets to NULL.

### ControlPlane and its parts

`SchemaVersions`, `EvaluationJobs`, `LoraAdapters`, `SigningKeys`, `TenantLifecycle`,
`AssessmentItems` and `CronLock` share a process but no variable, and none waits for another.
`ControlPlane` puts them side by side: `part` selects the part that a behavior is about. A
product of all of them would multiply states and show nothing more, since a step of one
part can neither enable, disable nor change a step of another.

| Module | What is atomic, and what the state remembers |
|---|---|
| `SchemaVersions` | `put[e]`: structure check, compatibility check and insert are separate transactions; `FOR UPDATE` takes the row or waits, and a waiter sees the row again, not a newer one. `reload[p][v]`: the task of a notification between its SELECT and its apply. `crossed`: a commit fell between another one's read and apply. |
| `EvaluationJobs` | a task's steps between awaits; `loader` is `deps.config_loader` as the sequence of the overrides it applies; `promote` is a promotion between its read and its write; `visible` is row level security as for the indexing jobs. Every update may raise, before or after its commit, the one of the exception handler too (`FailRaises`); `lost` names the jobs that nobody writes to any more for that reason. |
| `LoraAdapters` | one adapter in four places; registry operations read in one transaction and write in another; `Rollback` of a failed load; `VllmRestart` forgets what was loaded. |
| `SigningKeys` | `get_key` between awaits, with the asyncio.Lock; `Rotate` and `Tick` are the provider and the clock. |
| `TenantLifecycle` | platform requests read the row and write it later, and may break off between any two transactions (`Abort`); `Wipe` is one place per commit, `WipeFails` collects a failed step, `HardDeleteEnd` writes the dead letters; the step of the storage goes through and reaches nothing (`Missed`). A visitor's request reads membership and enrollment policy, perhaps joins, and then uses the tenant. `wiped` and `late` remember what was erased, and what was written after that. |
| `AssessmentItems` | each request in its transactions; `handed` and `decided` record what really happened, `dirty` whether somebody else wrote during an import. All items that an extraction selects are counted as used, and some of them are handed out. The form of an import gives one mode for the file; the model allows any for each item. |
| `CronLock` | connections of each process's pool (idle, in use, closed), the lock counts of each session, the loops of the job with the month they have read before the lock (`target`). An idle connection is given lowest first, the pool's queue being first in, first out: with the one idle connection of the administrators' engine (`core/db.py:21`) there is no difference. `shared` and `stranded` name the two situations in which the lock is known to fail. |

### MC modules

The `MC` modules add symmetry sets and values: for the stores, which slot may start which
operation (`Does`); for the chat, the corpus, score lists, answers and configurations.
Symmetry is used only by runs that check invariants and action properties of symmetric
constants, and by no run with liveness.

Definitions whose comment begins with "Mutant" are not part of the model. Each is a
plausible bug of the definition that follows it, used to confirm that a property notices it.

## 3. Runs

| Run | Properties | States | What it shows |
|---|---|---|---|
| `jobs_owner` | `TypeOK`, `OneActiveJob`, `ActiveJobIsCarried`, `StatusForward`, `JobsTerminate` | 36 082 | two concurrent clients, one of which retries, three jobs, every stage able to raise: no job is lost, doubled or moved back, and every job ends |
| `jobs_crash` | `SingleRun` | 64 236 | three clients, configuration errors, database outages and a crash do not make two runs of one document overlap |
| `stores_sequential` | `LayersAgree`, `HardDeleteIsComplete`, `WithdrawnIsHidden` | 2 493 | with one caller and no faults all five stores agree between operations, embedding_only and shrinking files excepted |
| `stores_worker` | `RowsFollowDoc` | 347 562 | documents and chunks agree beside the archival worker, with failing parser, vector store and storage, in every mode |
| `stores_two_workers` | `ArchivedHasColdCopy` | 24 592 | two workers at once and an administrator who uploads, reindexes and edits metadata, with failures of parser, database and vector store, lose no archived copy |
| `config_spaced` | `WriteIsVisible`, `Converges` | 72 198 | two administrators whose changes do not overlap: the answered routing is in use, and the process ends up with the table although connections break and the process restarts |
| `config_chaos` | `CacheFollowsOverrides` | 122 308 | overlapping changes, failing reloads, lost connections, restarts: the cache never outlives the overrides |
| `chat` | `TypeOK`, `CitationsAreBacked`, `RecordedAsAnswered`, `PiiChecksHold`, `ImplementsTurn` | 681 697 | every path through graph and stream, whatever models, judge, index and writer return or raise |
| `logs` | `TypeOK`, `PlainNeedsApproval`, `RemovedStaysRemoved`, `ReverifyIsComplete` | 1 892 963 | turns, approvals, erasures, deletes, feedback and a reverification in any order |
| `control_admin` | `TypeOK`, `VersionHistory`, `ActiveSchemaIsInForce`, `PromotedPassedItsGate`, `OverrideStaysInItsRun`, `OnlyActiveIsServed`, `LeftoverIsReported`, `DeleteStatusIsTrue`, `UsesAreCounted`, `ApprovedByDecision`, `ImportAddsNoDuplicate` | 1 250 352 | two administrators, users and tasks interleave in schemas, evaluation, adapters, tenants and item bank; outside services fail and deletes break off |
| `control_tasks` | `PublishedKeyIsFound`, `LockWorks`, `PartitionIsReady`, `WithdrawnKeyExpires`, `TasksGetOn` | 93 235 | key cache, job loops and evaluation tasks under the fairness of the event loop |
| `jobs_rls_stuck` | `JobsTerminate` (violated) | - | the job repository runs on the session of the role subject to row level security; `update` finds no row and returns, so the job stays pending and its row blocks the document |

Several properties hold up to a race that they name: `ActiveSchemaIsInForce` (`~crossed`),
`OverrideStaysInItsRun` (`~overlapped`), `OnlyActiveIsServed` (`~raced`, `~unheard`),
`LeftoverIsReported` (`late`, `Missed`), `RemovedStaysRemoved` (`crossed`), `LockWorks`
(`~shared`, `~stranded`), `ImportAddsNoDuplicate` (`dirty`), `TasksGetOn` (a job in `lost`, a
crash, `shared`, `stranded`). Nothing in the code prevents these races; section 4 says what
each of them does, and dropping the condition from the property gives a counterexample.
The properties therefore say that nothing else goes wrong, and not that the named race is
harmless. The conditions are sufficient; they are not claimed to be the weakest ones.

### Bounds

* Documents, in `IndexingJobs`: the unique index, the fallbacks and `_pending` relate jobs
  of one document, and two documents share nothing but the job table; one document is
  enough. Three jobs give an active one, a failed one being retried, and a newcomer.
* Chunks: two, so that operations can touch some and not others; the run with shrinking files
  uses one chunk (present or vanished) to keep the product with all faults small. The proofs
  hold for any number.
* Slots: the conflicts are between two operations; two workers and an administrator is the
  largest mix that `ArchivedHasColdCopy` has to survive.
* Changes and breakdowns: two changes are the least that can be reordered, and two
  breakdowns the least that can interrupt the recovery from the first.
* Processes: they interact only through the table and the notifications, which no process
  can delay for another; convergence of one is convergence of each.
* `MaxCrashes` 1: a crash leaves orphaned rows and no memory, and a second one adds nothing
  new to that state.
* Chat: two readable chunks, one above the clearance and one in the archive; answers of one
  or two segments, since segments meet only in counts and ratios, and two are enough to be on
  both sides of `MinVerifiedCount` and of the 50% limits; markers in and out of range, doubled
  and not numeric; three configurations that between them switch every option on and off. Two
  tokens and two figure items are the least that a stream or a figure request can break
  between.
* Logs: two turns, two users, one conversation and one document; a page of one row and two
  records, so that a reverification needs two pages and a withdrawal can fall between them.
* Administration: two editors, two jobs, two operators, two platform administrators and two
  clients, since each race has two participants; two schema versions give a first insert
  (without a row to lock) and a second one; two items give a duplicate; one use of an item
  is enough, since increments of `used_count` commute (`MaxUsed` 1); a hard delete of the
  members, the collection and the storage has one step of each kind: rows of users, a place
  that a registration creates, and a call that reaches nothing.
* Background: two keys are one rotation; a TTL of one tick separates fresh from stale; two
  processes compete for the lock, with a pool of one connection and one overflow connection;
  the calendar starts in December, so that the month that passes ends a year. The parts that
  `control_tasks` is not about have one participant each.

### Fairness

* `IndexingJobs!FairSpec`: weak fairness of each task's own steps. asyncio resumes a task
  whose call returned or raised, and the clients of the embedder and the vector store have
  timeouts. Requests are not fair.
* `DocumentStores!FairSpec`: the same for each operation.
* `ConfigCache!FairSpec`: startup, the listener's loop and handler tasks go on, and requests
  finish. The listener's loop retries for ever with a capped backoff; that a reconnect
  eventually succeeds is an assumption about the network, limited by `MaxBreaks`.
* `ChatPipeline!FairSpec`: weak fairness of `Work`, the next node or event of a started turn.
  New turns and disconnects are not fair.
* `ControlPlane!FairSpec`: weak fairness of each evaluation task, each key lookup and each
  job loop. Waiters of an `asyncio.Lock` are woken in order of arrival, so a lookup that can
  have the lock again and again gets it: strong fairness of `Acquire` and `AcquireAgain`.

Deadlock is checked except in `logs`, `control_admin` and `control_tasks`. There the bounds
on requests, schema versions and evaluation jobs bring a part to its end, where the system
would accept another request.

## 4. Disagreements met while modelling

The run `jobs_rls_stuck` is the finding of `PROJECT.json`. The others are places where the
code does something that its surroundings do not lead one to expect; the properties are
stated so that they hold beside them.

Documents and configuration:

* An exception of `_load_pii_config` leaves the job pending without a task (`jobs_owner`
  with `Faults = {"config"}`); a crash does the same, and no startup step repairs the row.
* embedding_only writes points with an empty acl and without the archive mark while the rows
  keep theirs (`stores_sequential` with `embedding_only` among the operations).
* A `set_payload` that fails is only logged, and two approval requests may interleave their
  three writes: either leaves the layers apart (`stores_sequential` with the fault
  "vector"; with a second slot that approves).
* After a re-split into fewer chunks the points of the vanished ids outlive the hard delete,
  which names the points by the rows that exist (`stores_sequential` with
  `Splits <- ShorterSplits`).
* A delete and an upload that commit between the archiver's INSERT and UPDATE get the new
  rows marked without a copy (`stores_two_workers` with "delete" in the administrator's
  operations).
* PATCH /configs empties the cache but not the overrides it is rebuilt from, so the answering
  process uses the old value until its own notification is handled; and a change that
  commits between a preload's SELECT and LISTEN reaches the process only with the next
  change (`config_spaced` with
  `Spaced = FALSE`).
* A reload or reconnect preload that raises is logged and not repeated: the process keeps its
  configuration until the next change (`Faulty = TRUE`).
* Two overlapping retries of one failed job both pass the status check, and both run
  (`indexing_orchestrator.py:200`; `jobs_crash` with a second retrier).
* A hard delete during an indexing run: the run writes points and rows after they were
  cleared (`hard_delete_service.py:105`).
* Two reload tasks of one process apply their rows in the wrong order, and the older
  configuration stays (`listen_notify.py:141`; `config_spaced` with `Spaced = FALSE`).

Chat and logs:

* Structured routing to a refusal is recorded but the graph goes on to generate
  (`nodes.py:205`); the stream refuses.
* A chunk that a conflict segment cites outside its groups is reported as verified, and two
  conflict groups with the same chunks are accepted as a conflict
  (`verifier_service.py:274` compares the length of the list).
* A fallback at gate 2 keeps the citations in `chat_logs`. Only `final_answer` is masked
  (`nodes.py:1192`): `answer_segments`, the `claim_text` of citations and the items of an exam
  are delivered as the model wrote them, and the last two are stored so. The partial text of a
  stream that fails is stored unmasked.
* When the ungrounded generation fails, the row has an empty answer and the user gets the
  default refusal (`rag_service.py:354`).
* `rewritten_query` is the question as typed whenever rewriting is off or fails
  (`query_rewriter.py:88`), and is stored unmasked under the mask policy
  (`chat_log_writer.py:158` of the backend); only an erasure
  or a delete of the row removes it.
* A client that disconnects, and an exception of tier 2 or of the judge, leave no log row.
* The cap on figure items does not apply to compound exam requests.
* `compliance_mode` is not among the keys that `_config_to_dict` copies.
* A reverification writes back the citations of a row that was erased or masked meanwhile
  (`citation_reverify_service.py:195`). With a `max_records` that is no multiple of 20, which
  the API allows, its last page starts too early and rows are seen twice (line 162).
* A conversation's title keeps the text of an erased question; a turn that is under way
  recreates a conversation that was deleted.
* An expired approval blocks a new one until it is revoked.

Administration:

* Two schema commits whose applies cross leave the older schema in force until the next
  change.
* Overlapping evaluation runs restore each other's override, and the live chat uses whatever
  loader is swapped in. An exception before the `try` leaves a job pending, and one after the
  commit of that first update leaves it running; so does a failure of the exception handler's
  own update (`evaluation_orchestrator.py:181`). Under row level security updates are lost as
  for indexing jobs. A promotion that has read its job overwrites what the job became since.
* Re-uploading an adapter deletes the weights of the registered one when its insert fails;
  activation and retirement can interleave so that a retired adapter becomes active again
  (`lora_registry.py:124`); the reread after retirement asserts a row that may be gone.
* A status written from an earlier read revives a deleted tenant
  (`tenant_lifecycle_service.py:337`). A delete that raises or is cut off before its last
  transaction (line 414) leaves a tenant 'archived' that has lost data, which one PATCH serves
  again; its failed steps leave no dead letter. `delete_status` tells in every case that
  data is gone (`DeleteStatusIsTrue`), but nothing reads it before a tenant is served.
* The docstring of the service says "storage prefix 전부 삭제" (line 8), but `hard_delete`
  passes an empty `doc_id` (line 409) and `MinIOStorage.delete` lists the prefix `<domain>//`
  (`document_storage.py:281`), which no stored object has (line 237): the files stay, no step
  fails and no dead letter is written.
* A first visit can add a membership after the hard delete has erased them, and a revoked
  member of an open domain is a member again on the next visit (`auth_adapter.py:446`).
* An extraction counts every item it has selected as used, and then cuts its answer to the
  count that was asked for (`tenant_assessment.py:172`): `used_count` is an upper bound.
* A patch writes back a whole row and can undo a retirement or an approval meanwhile; an
  approval names an item, not the text that was looked at. Two imports, or an import beside
  any other writer, can add duplicates; so can one batch of generated items. An import under
  a prefix that was used before overwrites items.
* `get_key(force_refresh=True)` refreshes nothing while the cache is fresh: it calls
  `_refresh_locked` without `force`.

Background:

* A lock taken on one pooled connection is released on another one if anybody else uses the
  pool meanwhile, and stays held; when `CREATE` raises, the unlock runs on another connection;
  an overflow connection is closed on return and gives up the lock during the run.
* The job that `main.py:94` registers calls the archival worker's constructor without its
  required arguments, so that in the scheduler every run ends in the `except` of
  `_run_job_loop`. The worker modelled is the one that `archival_worker.py` builds itself.

## 5. Proofs

Checked by TLAPS. Every safety property that a run checks, action properties included, is
also a theorem, for every value of the constants that the `ASSUME` of its module admits (TLC
evaluates it in every run) and, where the table names one, under a further condition. Each
specification has its own proof module. The schemas and the item bank have their inductive
invariants in `SchemaVersions_proofs` and `AssessmentItems_proofs`, with what they need of
the constants stated in each lemma; `ControlPlane_proofs` holds those of the other parts,
shows that a step of the composition is a step of one part and leaves the others alone, and
concludes the theorems for `ControlPlane!Spec`.

| Theorem | Statement |
|---|---|
| **`IndexingJobs_proofs`** | |
| `TypeCorrect` | `Spec => []TypeOK` |
| `OneActiveJobAlways` | `Spec => []OneActiveJob`, whichever role, faults and crashes |
| `SingleRunAlways` | `Spec => []SingleRun`, if row level security applies or at most one client retries (`SoleRetrier`) |
| `NoActiveJobIsLost` | `Spec => []ActiveJobIsCarried`, with `SoleRetrier`, visible rows, no crash, no database outage and no configuration error (`Undisturbed`) |
| `JobsMoveForward` | `Spec => StatusForward`, with `SoleRetrier`, whatever fails or crashes |
| **`DocumentStores_proofs`** | |
| `StoresTypeCorrect` | `Spec => []TypeOK` |
| `TablesAgree` | `Spec => []RowsFollowDoc`, for one administrator, any number of archival workers, any splits, and failures of everything but the database |
| `ArchivedRowsAreCopied` | `Spec => []ArchivedHasColdCopy`, for any number of administrators and workers with all failures, without a delete and with one split of the file |
| `StoresAgree` | `Spec => []LayersAgree`, one request at a time, no failures, no embedding_only, one split |
| `DeletedIsGone` | `Spec => []HardDeleteIsComplete`, under the same conditions |
| **`ConfigCache_proofs`** | |
| `ConfigTypeCorrect` | `Spec => [](TypeOK /\ Placed)` |
| `CacheNeverStale` | `Spec => []CacheFollowsOverrides`, without any restriction |
| `PutIsVisible` | `Spec => []WriteIsVisible`, if changes do not overlap (`Spaced`) |
| **`ChatPipeline_proofs`** | for every configuration, corpus, clearance, answer, measurement, verdict and threshold |
| `PipelineIsTyped` | `Spec => []TypeOK` |
| `CitationsRestOnEvidence` | `Spec => []CitationsAreBacked` |
| `RowIsTheAnswer` | `Spec => []RecordedAsAnswered` |
| `PersonalDataIsChecked` | `Spec => []PiiChecksHold` |
| `PipelineImplementsTurn` | `Spec => Turn!Init /\ [][Turn!Next]_(Turn!turnVars)`: the refinement without its fairness |
| **`ChatLogs_proofs`** | for any turns, users, conversations, documents, page size and cap |
| `LogsAreTyped` | `Spec => []TypeOK` |
| `PlainTextIsApproved` | `Spec => []PlainNeedsApproval` |
| `RemovedIsNotRestored` | `Spec => []RemovedStaysRemoved` |
| `ReverificationIsComplete` | `Spec => []ReverifyIsComplete` |
| **`ControlPlane_proofs`** | for any number of participants in each part |
| `ControlPlaneIsTyped` | `Spec => []TypeOK`, all parts together |
| `SchemasFormOneHistory`, `SchemaIsInForceEverywhere` | `Spec => []VersionHistory`, `Spec => []ActiveSchemaIsInForce` |
| `PromotionsPassedTheirGate`, `OverridesStayInTheirRun` | `Spec => []PromotedPassedItsGate`, `Spec => []OverrideStaysInItsRun` |
| `ItemsAreApprovedByDecision`, `EveryUseIsCounted`, `ImportsAddNoDuplicate` | `Spec => []ApprovedByDecision`, `Spec => []UsesAreCounted`, `Spec => ImportAddsNoDuplicate` |
| `ServedAdapterIsActive` | `Spec => []OnlyActiveIsServed` |
| `LeftoversAreReported`, `DeleteStatusTells` | `Spec => []LeftoverIsReported`, `Spec => []DeleteStatusIsTrue` |
| `PublishedKeysAreFound`, `WithdrawnKeysExpire` | `Spec => []PublishedKeyIsFound`, `Spec => WithdrawnKeyExpires` |
| `AdvisoryLockWorks`, `PartitionsAreReady` | `Spec => []LockWorks`, `Spec => []PartitionIsReady` |

### What the constants are assumed to be

Mostly types. The ones that say more:

* `ControlPlane`: keys are numbered in the order of rotation, from 1 and without gaps
  (`Kids`); a hard delete has a step for the memberships and one for the collection, and
  these are two steps (`DeleteOrder`, `Collection`); a pool keeps at least one connection
  (`PoolSize`; that of the administrators' engine is 1), and three connections can be told
  apart, because a run and another request hold two and the pool must be able to open one
  more (`Conns`).
* `ChatLogs`: `None` is neither a user, a row nor a conversation; page size and cap are at
  least 1.
* `ChatPipeline`: configurations, chunks, scores, answers and similarities have their types;
  a figure request tries 8 subjects at most; thresholds are natural numbers (per cent).

The conditions of the theorems about jobs and stores are not needed for convenience: for
each, section 4 describes what the code does without it, and TLC gives the behavior.

### The arguments

Indexing and stores:

* `OneActiveJob` needs only the guards of the index (`Conflict`, `Taken`) and the type.
* `SingleRun` is a statement about tasks, and the index one about rows. The inductive
  invariant `SafeInv` ties them: a task between the registration and its end carries a job of
  its own (`CarryAlone`, which needs that a handler knows its new id alone,
  `RegisterAlone`), and that job's row is active and names the task's document
  (`CarriedIsActive`). Two runs of one document would be two active rows. A retry makes a
  terminal row active; that the row it has checked is still terminal when it resets it
  (`RetryIsTerminal`) holds only if no other client retries meanwhile, which is the
  assumption `SoleRetrier`; with a second retrier in `jobs_crash` TLC finds two runs.
  Under row level security no retry gets past the lookup, and rows never leave 'pending'.
* `ActiveJobIsCarried` is the converse of `CarriedIsActive`. It needs `QueuedIsKept`: what a
  task will look up in `_pending` is there, since only the task itself takes it out.
* `StatusForward` compares two states of a row, so the invariant has to know what is in the
  row when a task writes it: the stage that the task reported last (`StageReported`).
* `RowsFollowDoc` is about quiet states. `AgreeInv(a)` says what holds for the administrator's
  slot `a` at each step: the tables agree unless the administrator is between the commit of
  the document row and that of the chunk rows, and in that window what the operation
  remembers (its metadata and the ids it has listed) is what brings them together again.
  The workers only set the archive mark.
* `ArchivedHasColdCopy`: the archiver marks the rows it has chosen (`Candidates`) only after
  their copies are staged in the same transaction or there already
  (`CopyIsStaged`). A run replaces all rows
  (`WritesAll`), and the copies go only with a delete.
* `LayersAgree` and `HardDeleteIsComplete` extend `AgreeInv` to the other three stores.
  `PointsFollow` states for every step how the points lag behind the rows, as the one update
  that is still to come; `FileFollows` and `ColdFollows` the same for file and copies.

Configuration:

* `CacheFollowsOverrides` is inductive with `Placed` (a request under way belongs to a
  process): every operation on the overrides invalidates the cache in the same step.
* `WriteIsVisible` needs that a snapshot somebody holds is the table (`HeldIsCurrent`), and
  that what a request has written is in the table or replaced by something newer
  (`WrittenIsStored`, `DbBelowWrites`). `Spaced` gives the first; without it an old snapshot
  can be applied after the answer.

Chat:

* `PipelineInv` says, node by node, what the fields of the state are worth. `ContextInv`: the
  contexts are chunks that the filter let through. `SegmentInv`: after tier 1 the markers are
  in range, after tier 2 what is left of a segment rests on measured chunks (`Backed`), and
  after the judge an inference was confirmed (`Confirmed`). `CitationInv`: a grounded success
  carries citations of these segments and enough of them verified. `DirtyInv`: where text
  may still hold personal data. `BesideInv`: what is stored and delivered beside the answer,
  and that an exam is never refused, so that its items do not go out with a refusal.
  `OutcomeInv`, `RecordInv`: where a turn has an outcome, that
  it is recorded once, as it is, and delivered after that. Each action has a lemma about the
  nodes it connects and the fields it touches (`Goes`, `Touches`); the computation of
  `CitationVerifier` enters through lemmas about its operators.
* The refinement follows step by step from `RecordInv`: nodes before the record are stutters
  of `ChatTurn`, the record and the delivery are its two actions.

Logs:

* `LogsInv`: a running turn knows its user and conversation and rows belong to written turns
  (`Known`), the order lists the rows that exist (`Listed`), the page and what was seen stay
  within the cap (`Room`).
* `RemovedStaysRemoved` depends on the copies. A copy has the citations of its row, unless
  the row is in `crossed` (`Current`): so what a reverification writes back is what is there.
* `ReverifyIsComplete` is about the end; `Progressed` says how far the loop has got: before
  page p the first (p - 1) * size rows have been seen, in order, and the copies in the page are
  those that follow. Pages tile the rows as long as each has the same size, which is where
  "`max_records` is a multiple of the page size" is used (`PageFits`).

Administration and background:

* `VersionHistory` depends on who may insert. `SchemaInv` adds that a request which holds a
  lock on a row holds it alone and that the row is the active one (`Locks`), that the
  versions a request names exist (`Named`), and that a request past the compatibility check
  carries all types of its base version as long as that is active (`Compatible`). The check
  and the insert are different transactions: `base_version` is what ties them. A first
  version has no row to lock; there the unique constraint decides, and any loser finds
  version 1 taken. `InsertedIsNewest` is the central lemma.
* `ActiveSchemaIsInForce`: as long as no commits have crossed, what a handler or a task is
  about to apply is the active version (`Carried`), a process that no task is on its way to
  has it (`Applied`), and the cache of a process is that of its runtime schema (`Cached`).
* `promote` writes over a row it has read before. `EvalInv` says why nothing can have
  happened in between: a job gets its gate only once (`GateOnce`), and a promotion in flight
  belongs to a job that has it (`InFlightPassed`). For the loader, `LoaderKept` says that a
  run which is alone has kept the live loader as its `base` and `original`.
* `ApprovedByDecision` must also hold of the rows that PATCH requests hold in memory
  (`HeldByDecision`), since they are written back as they were read. `BankInv` adds that an
  import knows the questions of the bank unless it is marked `dirty` (`ImportsKnow`).
* `OnlyActiveIsServed`: what vLLM serves without an active row is in the hands of a request
  that will unload it (`Unloading`).
* `LeftoverIsReported`: the places behind a delete are erased or collected as failed
  (`Collected`), only a delete that has reached its end leaves the tenant deleted
  (`Accounted`), and what an erased place holds was written later (`Later`).
  `DeleteStatusIsTrue` needs besides that a delete writes `delete_status` before it erases
  (`Begun`); that deletes overlap does no harm because each of them has all the places
  behind it, in its own list or in the dead letters, when it writes the last status.
* Keys: they are withdrawn in the order of their ids (`Published`), and a cached key has been
  withdrawn no longer than the cache is old (`Aging`).
* `LockWorks`: there is one holder in the whole system (`OneHolder`), who works holds the lock
  (`WorkHolds`), and as long as nobody else uses the pool the connection that the unlock
  will be given is the one that holds it (`UnlockReaches`). The last needs an exact account
  of the pool: every connection that is out belongs to the run or to the other request
  (`Owned`), and the pool keeps no more than its size (`Bounded`).

### Only model-checked

* `JobsTerminate`, `WithdrawnIsHidden`, `Converges`, `TasksGetOn` and the fairness of
  `ImplementsTurn`: liveness under fairness, and `ENABLED`, are outside the prover.
* What the sequence operators of `CitationVerifier` and `DocumentStores` compute for one
  input: the proofs use what the operators guarantee, not a closed form; TLC evaluates them
  on the inputs of the runs.

## 6. Not modelled

* Several backend processes with indexing or evaluation: `_pending` belongs to one process,
  and a second one would find nothing to execute.
* The audit rows and ledger events that handlers write: best-effort, with dead letters of
  their own, and nothing reads them back.
* Documents with several versions and the parser version inside a chunk id.
* Nesting of dotted override paths (`_set_nested`, `_deep_merge_into`), restricted keys, and
  rows of a tenant that was deleted (the trigger fires on INSERT and UPDATE only, and a
  preload never clears an override).
* Login redirect, token refresh and logout: forwarding to the identity provider, with a
  cookie and a state entry that one request writes and one reads.
* Prompt studio: versions in the memory of one process, replaced without an await.
* Wording of prompts, parsing of exam requests, similarity scores, rank fusion, PII
  patterns, PDF and figure extraction: conversions of data whose outcome is an input of the
  control, chosen nondeterministically.
* The migration of a tenant's embeddings (a script that an operator runs) and the drop of the
  old collection beyond its lock.
* Dashboards, distributions, service clients, in-memory doubles for tests, the front end,
  deployment and command-line tools.

## 7. Plan

1. An abstract lock per document, implemented by `IndexingJobs`, and `DocumentStores` composed
   with it instead of the guard `Indexing`; the safety part of that refinement proved.
2. Operators checked against a reference over small inputs: deep merge of overrides (does the
   order of rows matter), rank fusion.
3. Weaker conditions for the stores: `LayersAgree` beside the archival workers, and a hard
   delete after a re-split into more chunks.
