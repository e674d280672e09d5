---------------------------- MODULE IndexingJobs ----------------------------
(***************************************************************************)
(* The life of an indexing job: the admin API handlers that create or      *)
(* retry it, the orchestrator's in-memory table of pending requests, the   *)
(* background task that executes it, and the indexing_jobs table.          *)
(*                                                                         *)
(*   backend/app/api/tenant_admin.py          upload / reindex / retry     *)
(*   backend/app/services/indexing_orchestrator.py                         *)
(*   packages/rag_core/rag_core/services/indexing_service.py               *)
(*   backend/app/repositories/indexing_job_repository.py                   *)
(*                                                                         *)
(* One step is what runs between two awaits that touch shared state: one   *)
(* committed statement of a repository, together with the synchronous code *)
(* around it.  A document is one (domain_id, doc_id, doc_version).         *)
(***************************************************************************)
EXTENDS Naturals

CONSTANTS
    Docs,       \* documents
    Jobs,       \* job ids that uuid4 may hand out: the bound on jobs created
    Tasks,      \* concurrent API requests, each with its background task
    Retriers,   \* the tasks whose client may use the retry endpoint
    RlsApplies, \* is the role of the job repository subject to row level security
    Faults,     \* the calls that may raise, a subset of FaultKinds
    MaxCrashes, \* how often the backend process may die
    NoDoc, NoJob, NoReq

FaultKinds == {"config", "parse", "chunk", "embed", "upsert", "write", "outage"}

Modes == {"full", "chunk_re_split", "parser_only", "embedding_only"}

ASSUME ConstantsAssumption ==
    /\ Retriers \subseteq Tasks
    /\ RlsApplies \in BOOLEAN
    /\ Faults \subseteq FaultKinds
    /\ MaxCrashes \in Nat
    /\ NoDoc \notin Docs
    /\ NoJob \notin Jobs
    /\ NoReq \notin Modes

VARIABLES
    status,   \* indexing_jobs.status, "none" before the INSERT
    jobDoc,   \* indexing_jobs.(domain_id, doc_id, doc_version)
    pending,  \* IndexingOrchestrator._pending: job id -> requested mode
    task,     \* what each API request / background task is doing
    docs,     \* documents that have a row in table documents
    chunked,  \* documents that have rows in table chunks
    crashes

vars == <<status, jobDoc, pending, task, docs, chunked, crashes>>

ActiveStates == {"pending", "parsing", "chunking", "embedding", "indexing"}
TerminalStates == {"completed", "partial", "failed"}
Statuses == {"none"} \cup ActiveStates \cup TerminalStates

\* Handler steps before the response, then the background task's steps.
HandlerPcs == {"register", "retry_doc", "retry_reset", "delete_doc"}
LaunchPcs == {"execute", "load_config"}
RunPcs == {"start", "parse", "chunk", "embed", "upsert", "write_doc",
           "write_chunks", "metadata", "finish"}
Pcs == {"idle"} \cup HandlerPcs \cup LaunchPcs \cup RunPcs

\* Local state of a task: where it is, its job, its request, and whether the
\* one embed_batch call of the run succeeded.
TaskStates == [pc: Pcs, doc: Docs \cup {NoDoc}, job: Jobs \cup {NoJob},
               mode: Modes, embedded: BOOLEAN]

Idle == [pc |-> "idle", doc |-> NoDoc, job |-> NoJob,
         mode |-> "full", embedded |-> TRUE]

TypeOK ==
    /\ status \in [Jobs -> Statuses]
    /\ jobDoc \in [Jobs -> Docs \cup {NoDoc}]
    /\ pending \in [Jobs -> Modes \cup {NoReq}]
    /\ task \in [Tasks -> TaskStates]
    /\ docs \subseteq Docs
    /\ chunked \subseteq Docs
    /\ crashes \in Nat

Init ==
    /\ status = [j \in Jobs |-> "none"]
    /\ jobDoc = [j \in Jobs |-> NoDoc]
    /\ pending = [j \in Jobs |-> NoReq]
    /\ task = [t \in Tasks |-> Idle]
    /\ docs = {}
    /\ chunked = {}
    /\ crashes = 0

-----------------------------------------------------------------------------
(* The job repository.                                                     *)

Active(j) == status[j] \in ActiveStates

\* Row level security hides every row from a session that has not set
\* app.current_domain, and get and update never do: under the role
\* domainrag_app get answers None and update returns before its UPDATE.
RowsVisible == ~RlsApplies

\* Mutant: the index covers only the jobs nobody has started
ConflictQueued(d) == \E j \in Jobs : jobDoc[j] = d /\ status[j] = "pending"

\* create: the partial unique index over the active states (migration 002)
Conflict(d) == \E j \in Jobs : jobDoc[j] = d /\ Active(j)

\* The same index rejects an UPDATE that makes a second job active
Taken(j) == \E k \in Jobs \ {j} : jobDoc[k] = jobDoc[j] /\ Active(k)

\* update(status = s), no-op when the row is hidden
SetStatus(j, s) ==
    status' = IF RowsVisible THEN [status EXCEPT ![j] = s] ELSE status

\* update(status = s) with s an active state, accepted by the index
SetActive(j, s) == (RowsVisible => ~Taken(j)) /\ SetStatus(j, s)

-----------------------------------------------------------------------------
(* Request handlers.                                                       *)

At(t, pc) == task[t].pc = pc

Goto(t, pc) == task' = [task EXCEPT ![t].pc = pc]

Return(t) == task' = [task EXCEPT ![t] = Idle]

\* uuid4 never repeats
Fresh(j) == status[j] = "none" /\ \A t \in Tasks : task[t].job # j

Accept(t, d, j, m) ==
    /\ At(t, "idle")
    /\ Fresh(j)
    /\ task' = [task EXCEPT ![t] = [pc |-> "register", doc |-> d, job |-> j,
                                    mode |-> m, embedded |-> TRUE]]
    /\ UNCHANGED <<status, jobDoc, pending, docs, chunked, crashes>>

\* POST /documents/upload up to job_repo.create
PrepareUpload(t, d, j) == Accept(t, d, j, "full")

\* POST /documents/{doc_id}/reindex up to job_repo.create; without a document
\* row the answer is 404 and nothing changes
PrepareReindex(t, d, j, m) == d \in docs /\ Accept(t, d, j, m)

\* job_repo.create, then _pending[job_id] = request; a conflict is a 409
RegisterJob(t) ==
    LET j == task[t].job
        d == task[t].doc
    IN  /\ At(t, "register")
        /\ \/ /\ Conflict(d)
              /\ Return(t)
              /\ UNCHANGED <<status, jobDoc, pending>>
           \/ /\ ~Conflict(d)
              /\ status' = [status EXCEPT ![j] = "pending"]
              /\ jobDoc' = [jobDoc EXCEPT ![j] = d]
              /\ pending' = [pending EXCEPT ![j] = task[t].mode]
              /\ Goto(t, "execute")
        /\ UNCHANGED <<docs, chunked, crashes>>

\* Mutant: retry without the check of the status
RetryLoadAny(t, j) ==
    /\ At(t, "idle")
    /\ t \in Retriers
    /\ RowsVisible
    /\ status[j] # "none"
    /\ task' = [task EXCEPT ![t] = [Idle EXCEPT !.pc = "retry_doc", !.job = j,
                                                !.doc = jobDoc[j]]]
    /\ UNCHANGED <<status, jobDoc, pending, docs, chunked, crashes>>

\* retry_job: job_repo.get and the check of its status
RetryLoad(t, j) ==
    /\ At(t, "idle")
    /\ t \in Retriers
    /\ RowsVisible
    /\ status[j] \in {"failed", "partial"}
    /\ task' = [task EXCEPT ![t] = [Idle EXCEPT !.pc = "retry_doc", !.job = j,
                                                !.doc = jobDoc[j]]]
    /\ UNCHANGED <<status, jobDoc, pending, docs, chunked, crashes>>

\* retry_job: document_repo.get (None is a 404), then _pending[job_id] = request
RetryRequest(t) ==
    /\ At(t, "retry_doc")
    /\ \/ /\ task[t].doc \notin docs
          /\ Return(t)
          /\ UNCHANGED pending
       \/ /\ task[t].doc \in docs
          /\ pending' = [pending EXCEPT ![task[t].job] = "full"]
          /\ Goto(t, "retry_reset")
    /\ UNCHANGED <<status, jobDoc, docs, chunked, crashes>>

\* retry_job: update(status = "pending"); an IntegrityError ends the request
RetryReset(t) ==
    LET j == task[t].job
    IN  /\ At(t, "retry_reset")
        /\ \/ /\ Taken(j)
              /\ Return(t)
              /\ UNCHANGED status
           \/ /\ SetActive(j, "pending")
              /\ Goto(t, "execute")
        /\ UNCHANGED <<jobDoc, pending, docs, chunked, crashes>>

\* DELETE /documents/{doc_id}/hard: chunk rows first ...
HardDelete(t, d) ==
    /\ At(t, "idle")
    /\ \/ chunked' = chunked \ {d}
       \/ "write" \in Faults /\ UNCHANGED chunked
    /\ task' = [task EXCEPT ![t] = [Idle EXCEPT !.pc = "delete_doc", !.doc = d]]
    /\ UNCHANGED <<status, jobDoc, pending, docs, crashes>>

\* ... the document row last.  A failed DELETE becomes a dead letter and the
\* handler goes on; the job table is not consulted.
DeleteDoc(t) ==
    /\ At(t, "delete_doc")
    /\ \/ docs' = docs \ {task[t].doc}
       \/ "write" \in Faults /\ UNCHANGED docs
    /\ Return(t)
    /\ UNCHANGED <<status, jobDoc, pending, chunked, crashes>>

-----------------------------------------------------------------------------
(* The background task: IndexingOrchestrator.execute and IndexingService.  *)

\* _pending.pop(job_id, None); nothing there is only logged
Execute(t) ==
    LET j == task[t].job
    IN  /\ At(t, "execute")
        /\ \/ /\ pending[j] = NoReq
              /\ Return(t)
              /\ UNCHANGED pending
           \/ /\ pending[j] # NoReq
              /\ task' = [task EXCEPT ![t].pc = "load_config",
                                      ![t].mode = pending[j]]
              /\ pending' = [pending EXCEPT ![j] = NoReq]
        /\ UNCHANGED <<status, jobDoc, docs, chunked, crashes>>

\* _ensure_collection_exists swallows its errors; _load_pii_config returned
LoadConfig(t) ==
    /\ At(t, "load_config")
    /\ Goto(t, "start")
    /\ UNCHANGED <<status, jobDoc, pending, docs, chunked, crashes>>

\* The mode dispatch and the first status update.  embedding_only without
\* chunk rows becomes a full run.
Start(t) ==
    LET tk == task[t]
    IN  /\ At(t, "start")
        /\ \/ /\ tk.mode = "embedding_only" /\ tk.doc \in chunked
              /\ SetActive(tk.job, "embedding")
              /\ Goto(t, "embed")
           \/ /\ tk.mode = "embedding_only" /\ tk.doc \notin chunked
              /\ SetActive(tk.job, "parsing")
              /\ task' = [task EXCEPT ![t].pc = "parse", ![t].mode = "full"]
           \/ /\ tk.mode # "embedding_only"
              /\ SetActive(tk.job, "parsing")
              /\ Goto(t, "parse")
        /\ UNCHANGED <<jobDoc, pending, docs, chunked, crashes>>

\* Mutant: the fallback of parser_only queues the job again
ParseRequeue(t) ==
    LET tk == task[t]
        fallback == tk.mode = "parser_only" /\ tk.doc \notin chunked
    IN  /\ At(t, "parse")
        /\ SetActive(tk.job, IF fallback THEN "pending" ELSE "chunking")
        /\ task' = [task EXCEPT ![t].pc = IF fallback THEN "parse" ELSE "chunk",
                                ![t].mode = "full"]
        /\ UNCHANGED <<jobDoc, pending, docs, chunked, crashes>>

\* parser.parse returned.  parser_only lists the chunk rows: none means a
\* full run, which sets 'parsing' again.
Parse(t) ==
    LET tk == task[t]
    IN  /\ At(t, "parse")
        /\ \/ /\ tk.mode = "parser_only" /\ tk.doc \in chunked
              /\ SetActive(tk.job, "indexing")
              /\ Goto(t, "metadata")
           \/ /\ tk.mode = "parser_only" /\ tk.doc \notin chunked
              /\ SetActive(tk.job, "parsing")
              /\ task' = [task EXCEPT ![t].mode = "full"]
           \/ /\ tk.mode # "parser_only"
              /\ SetActive(tk.job, "chunking")
              /\ Goto(t, "chunk")
        /\ UNCHANGED <<jobDoc, pending, docs, chunked, crashes>>

\* chunker.chunk and _scan_pii returned
Chunk(t) ==
    /\ At(t, "chunk")
    /\ SetActive(task[t].job, "embedding")
    /\ Goto(t, "embed")
    /\ UNCHANGED <<jobDoc, pending, docs, chunked, crashes>>

\* Mutant: a failed batch is chunked and embedded again, without a limit
EmbedRetries(t) ==
    /\ At(t, "embed")
    /\ \/ Goto(t, "upsert") /\ SetActive(task[t].job, "indexing")
       \/ "embed" \in Faults /\ Goto(t, "chunk") /\ UNCHANGED status
    /\ UNCHANGED <<jobDoc, pending, docs, chunked, crashes>>

\* _embed_safely: embed_batch raises for the whole batch or not at all.  Only
\* a full run reports 'indexing'.
Embed(t) ==
    /\ At(t, "embed")
    /\ \E ok \in (IF "embed" \in Faults THEN BOOLEAN ELSE {TRUE}) :
          task' = [task EXCEPT ![t].pc = "upsert", ![t].embedded = ok]
    /\ IF task[t].mode = "embedding_only" THEN UNCHANGED status
       ELSE SetActive(task[t].job, "indexing")
    /\ UNCHANGED <<jobDoc, pending, docs, chunked, crashes>>

\* Mutant: the fail-fast return forgets the status update
FailFastSilent(t) ==
    /\ At(t, "upsert")
    /\ ~task[t].embedded
    /\ Return(t)
    /\ UNCHANGED <<status, jobDoc, pending, docs, chunked, crashes>>

\* The 30% rule: a failed batch is a failure rate of 1
FailFast(t) ==
    /\ At(t, "upsert")
    /\ ~task[t].embedded
    /\ SetStatus(task[t].job, "failed")
    /\ Return(t)
    /\ UNCHANGED <<jobDoc, pending, docs, chunked, crashes>>

\* _upsert_to_qdrant
Upsert(t) ==
    /\ At(t, "upsert")
    /\ task[t].embedded
    /\ Goto(t, IF task[t].mode = "embedding_only" THEN "metadata" ELSE "write_doc")
    /\ UNCHANGED <<status, jobDoc, pending, docs, chunked, crashes>>

\* _write_chunks_and_document: document_repo.upsert, one transaction ...
WriteDoc(t) ==
    /\ At(t, "write_doc")
    /\ docs' = docs \cup {task[t].doc}
    /\ Goto(t, "write_chunks")
    /\ UNCHANGED <<status, jobDoc, pending, chunked, crashes>>

\* ... chunk_repo.replace_chunks, another; a file may yield no chunk at all
WriteChunks(t) ==
    /\ At(t, "write_chunks")
    /\ \/ chunked' = chunked \cup {task[t].doc}
       \/ chunked' = chunked \ {task[t].doc}
    /\ Goto(t, "finish")
    /\ UNCHANGED <<status, jobDoc, pending, docs, crashes>>

\* update_metadata of the chunk rows (parser_only also swallows set_payload)
UpdateMetadata(t) ==
    /\ At(t, "metadata")
    /\ Goto(t, "finish")
    /\ UNCHANGED <<status, jobDoc, pending, docs, chunked, crashes>>

\* Mutant: a status that neither list of states knows
FinishDone(t) ==
    /\ At(t, "finish")
    /\ SetStatus(task[t].job, "done")
    /\ Return(t)
    /\ UNCHANGED <<jobDoc, pending, docs, chunked, crashes>>

\* status = "partial" if embed_result.failed else "completed"
Finish(t) ==
    /\ At(t, "finish")
    /\ SetStatus(task[t].job, IF task[t].embedded THEN "completed" ELSE "partial")
    /\ Return(t)
    /\ UNCHANGED <<jobDoc, pending, docs, chunked, crashes>>

\* Which fault can raise at which point of a run
FaultAt == [p \in Pcs |->
    CASE p = "parse" -> "parse"
      [] p = "chunk" -> "chunk"
      [] p = "upsert" -> "upsert"
      [] p \in {"write_doc", "write_chunks", "metadata"} -> "write"
      [] OTHER -> "outage"]

\* The index rejects the status update that comes next
Rejected(t) ==
    /\ RowsVisible
    /\ Taken(task[t].job)
    /\ \/ task[t].pc \in {"start", "parse", "chunk"}
       \/ At(t, "embed") /\ task[t].mode # "embedding_only"

\* run_with_existing_job: any exception ends in update(status = "failed")
Fail(t) ==
    /\ task[t].pc \in RunPcs
    /\ FaultAt[task[t].pc] \in Faults \/ Rejected(t)
    /\ SetStatus(task[t].job, "failed")
    /\ Return(t)
    /\ UNCHANGED <<jobDoc, pending, docs, chunked, crashes>>

\* The exceptions that leave the row as it is: _load_pii_config raises outside
\* the try block of execute, or the database is away, so that the update of
\* the exception handler raises too.
Abandon(t) ==
    /\ \/ At(t, "load_config") /\ "config" \in Faults
       \/ task[t].pc \in RunPcs /\ "outage" \in Faults
    /\ Return(t)
    /\ UNCHANGED <<status, jobDoc, pending, docs, chunked, crashes>>

\* The process dies: _pending and the tasks are gone, the tables stay, and
\* lifespan in main.py does not look at indexing_jobs when it starts again.
Crash ==
    /\ crashes < MaxCrashes
    /\ crashes' = crashes + 1
    /\ pending' = [j \in Jobs |-> NoReq]
    /\ task' = [t \in Tasks |-> Idle]
    /\ UNCHANGED <<status, jobDoc, docs, chunked>>

-----------------------------------------------------------------------------
Request(t) ==
    \/ \E d \in Docs, j \in Jobs : PrepareUpload(t, d, j)
    \/ \E d \in Docs, j \in Jobs, m \in Modes : PrepareReindex(t, d, j, m)
    \/ \E j \in Jobs : RetryLoad(t, j)
    \/ \E d \in Docs : HardDelete(t, d)

Step(t) ==
    \/ RegisterJob(t)
    \/ RetryRequest(t)
    \/ RetryReset(t)
    \/ DeleteDoc(t)
    \/ Execute(t)
    \/ LoadConfig(t)
    \/ Start(t)
    \/ Parse(t)
    \/ Chunk(t)
    \/ Embed(t)
    \/ FailFast(t)
    \/ Upsert(t)
    \/ WriteDoc(t)
    \/ WriteChunks(t)
    \/ UpdateMetadata(t)
    \/ Finish(t)
    \/ Fail(t)
    \/ Abandon(t)

Next == (\E t \in Tasks : Request(t) \/ Step(t)) \/ Crash

Spec == Init /\ [][Next]_vars

\* The event loop resumes every task whose call returned or raised, and the
\* clients of the embedder and the vector store time out.  Nobody has to send
\* requests.
FairSpec == Spec /\ \A t \in Tasks : WF_vars(Step(t))

-----------------------------------------------------------------------------
(* Properties.                                                             *)

Running(t) == task[t].pc \in RunPcs

\* ADR-012 section 10: the table never holds two active jobs for one document,
\* whatever uploads, reindex requests and retries do at the same time.
OneActiveJob ==
    \A j, k \in Jobs : Active(j) /\ Active(k) /\ jobDoc[j] = jobDoc[k] => j = k

\* What the index is for: no two background tasks parse, upsert and replace the
\* chunks of one document at the same time.
SingleRun ==
    \A t, u \in Tasks :
        Running(t) /\ Running(u) /\ task[t].doc = task[u].doc => t = u

\* An active row is some task's work in progress: no return path of execute,
\* of a mode or of the exception handler leaves one behind.
ActiveJobIsCarried ==
    \A j \in Jobs : Active(j) =>
        \E t \in Tasks : task[t].job = j /\ task[t].pc \in LaunchPcs \cup RunPcs

Rank == [s \in Statuses |->
    CASE s = "none" -> 0
      [] s = "pending" -> 1
      [] s = "parsing" -> 2
      [] s = "chunking" -> 3
      [] s = "embedding" -> 4
      [] s = "indexing" -> 5
      [] OTHER -> 6]

\* A job only moves forward through the pipeline; only a retry moves it back,
\* from failed or partial to pending, and a completed job is final.
StatusForward == [][\A j \in Jobs :
    \/ status'[j] = status[j]
    \/ Rank[status[j]] < Rank[status'[j]]
    \/ status[j] \in {"failed", "partial"} /\ status'[j] = "pending"]_status

\* Every job the API accepted reaches completed, partial or failed.
JobsTerminate == \A j \in Jobs : Active(j) ~> status[j] \in TerminalStates
=============================================================================
