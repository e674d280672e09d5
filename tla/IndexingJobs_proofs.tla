------------------------ MODULE IndexingJobs_proofs ------------------------
(***************************************************************************)
(* Type correctness, one active job and one run per document for the       *)
(* indexing jobs, for any number of documents, jobs, tasks, faults and     *)
(* crashes; that an active job is in somebody's hands where nothing takes  *)
(* it out of them, and that the reported stages only go forward.           *)
(***************************************************************************)
EXTENDS IndexingJobs, TLAPS

\* The tasks that execute a job, from the pop of its request to the last status
CarryPcs == LaunchPcs \cup RunPcs
RetryPcs == {"retry_doc", "retry_reset"}
Carrying(t) == task[t].pc \in CarryPcs

-----------------------------------------------------------------------------
(* How the three ways of updating a task, and SetStatus, change the state. *)

\* The points of control of handlers, launched tasks and runs are distinct.
LEMMA PcFacts ==
    /\ CarryPcs \subseteq Pcs /\ RetryPcs \subseteq Pcs /\ "idle" \in Pcs
    /\ "register" \in Pcs /\ "delete_doc" \in Pcs
    /\ "idle" \notin CarryPcs /\ "register" \notin CarryPcs
    /\ "delete_doc" \notin CarryPcs /\ CarryPcs \cap RetryPcs = {}
    /\ "idle" \notin RetryPcs /\ "register" \notin RetryPcs
    /\ "delete_doc" \notin RetryPcs
    /\ "retry_doc" \in RetryPcs /\ "retry_reset" \in RetryPcs
    /\ "execute" \in CarryPcs /\ "load_config" \in CarryPcs
    /\ RunPcs \subseteq CarryPcs
    /\ "start" \in RunPcs /\ "parse" \in RunPcs /\ "chunk" \in RunPcs
    /\ "embed" \in RunPcs /\ "upsert" \in RunPcs /\ "write_doc" \in RunPcs
    /\ "write_chunks" \in RunPcs /\ "metadata" \in RunPcs /\ "finish" \in RunPcs
  BY DEF CarryPcs, RetryPcs, Pcs, HandlerPcs, LaunchPcs, RunPcs

\* Which statuses are active, and that they are statuses.
LEMMA StatusFacts ==
    /\ ActiveStates \subseteq Statuses /\ TerminalStates \subseteq Statuses
    /\ "none" \in Statuses /\ "none" \notin ActiveStates
    /\ "none" \notin TerminalStates
    /\ ActiveStates \cap TerminalStates = {}
    /\ "pending" \in ActiveStates /\ "parsing" \in ActiveStates
    /\ "chunking" \in ActiveStates /\ "embedding" \in ActiveStates
    /\ "indexing" \in ActiveStates
    /\ "completed" \in TerminalStates /\ "partial" \in TerminalStates
    /\ "failed" \in TerminalStates
  BY DEF Statuses, ActiveStates, TerminalStates

\* A task at rest is a task state and carries nothing.
LEMMA IdleFacts ==
    /\ Idle \in TaskStates
    /\ Idle.pc = "idle" /\ Idle.doc = NoDoc /\ Idle.job = NoJob
  BY PcFacts DEF Idle, TaskStates, Modes

\* Replacing the state of one task keeps the table of tasks well typed.
LEMMA ReplaceTask ==
    ASSUME task \in [Tasks -> TaskStates], NEW t \in Tasks, NEW x \in TaskStates,
           task' = [task EXCEPT ![t] = x]
    PROVE  /\ task' \in [Tasks -> TaskStates]
           /\ task'[t] = x
           /\ \A u \in Tasks \ {t} : task'[u] = task[u]
  OBVIOUS

\* Goto changes the point of control of one task and nothing else of it.
LEMMA GotoTask ==
    ASSUME task \in [Tasks -> TaskStates], NEW t \in Tasks, NEW p \in Pcs,
           Goto(t, p)
    PROVE  /\ task' \in [Tasks -> TaskStates]
           /\ task'[t].pc = p
           /\ task'[t].doc = task[t].doc /\ task'[t].job = task[t].job
           /\ \A u \in Tasks \ {t} : task'[u] = task[u]
  BY DEF Goto, TaskStates

\* Return puts one task to rest.
LEMMA ReturnTask ==
    ASSUME task \in [Tasks -> TaskStates], NEW t \in Tasks, Return(t)
    PROVE  /\ task' \in [Tasks -> TaskStates]
           /\ task'[t] = Idle
           /\ \A u \in Tasks \ {t} : task'[u] = task[u]
  BY IdleFacts DEF Return

\* update(status = s) keeps the column well typed and touches one job only.
LEMMA SetStatusFacts ==
    ASSUME status \in [Jobs -> Statuses], NEW j \in Jobs, NEW s \in Statuses,
           SetStatus(j, s)
    PROVE  /\ status' \in [Jobs -> Statuses]
           /\ status'[j] = IF RlsApplies THEN status[j] ELSE s
           /\ \A k \in Jobs \ {j} : status'[k] = status[k]
  BY DEF SetStatus, RowsVisible

-----------------------------------------------------------------------------
(* Type correctness.  TypeOK alone is not inductive: that WriteDoc writes  *)
(* the row of a document, and SetStatus the row of a job, rests on what a  *)
(* task holds at each point of its handler.                                *)

TasksHoldDocs ==
    \A t \in Tasks : task[t].pc # "idle" => task[t].doc \in Docs

TasksHoldJobs ==
    \A t \in Tasks :
        /\ task[t].pc = "register" => task[t].job \in Jobs
        /\ task[t].pc \in CarryPcs \cup RetryPcs =>
               task[t].job \in Jobs /\ status[task[t].job] # "none"

JobsHaveDocs == \A j \in Jobs : status[j] # "none" => jobDoc[j] \in Docs

TypeInv == TypeOK /\ TasksHoldDocs /\ TasksHoldJobs /\ JobsHaveDocs

\* The initial state is well typed and every job in use has its document.
LEMMA TypeInit == Init => TypeInv
  <1> SUFFICES ASSUME Init PROVE TypeInv
    OBVIOUS
  <1>1. TypeOK
    BY IdleFacts, StatusFacts DEF Init, TypeOK
  <1>2. TasksHoldDocs /\ TasksHoldJobs /\ JobsHaveDocs
    BY IdleFacts, PcFacts DEF Init, TasksHoldDocs, TasksHoldJobs, JobsHaveDocs
  <1> QED
    BY <1>1, <1>2 DEF TypeInv

(* Every step of a background task has one shape: the task goes on with    *)
(* the same job, or it ends, and it writes at most the status of that job. *)
Moves(t) ==
    /\ Carrying(t)
    /\ jobDoc' = jobDoc
    /\ task' \in [Tasks -> TaskStates]
    /\ \A u \in Tasks \ {t} : task'[u] = task[u]
    /\ \/ /\ Carrying(t)'
          /\ task'[t].doc = task[t].doc /\ task'[t].job = task[t].job
          /\ \/ status' = status
             \/ \E s \in ActiveStates : SetActive(task[t].job, s)
       \/ /\ task'[t] = Idle
          /\ \/ status' = status
             \/ \E s \in TerminalStates : SetStatus(task[t].job, s)

BackgroundStep(t) ==
    \/ Execute(t) \/ LoadConfig(t) \/ Start(t) \/ Parse(t) \/ Chunk(t)
    \/ Embed(t) \/ FailFast(t) \/ Upsert(t) \/ WriteDoc(t) \/ WriteChunks(t)
    \/ UpdateMetadata(t) \/ Finish(t) \/ Fail(t) \/ Abandon(t)

\* A step of a background task changes that task, and at most the status of
\* its own job, in one of the ways that Moves lists.
LEMMA BackgroundMoves ==
    ASSUME TypeInv, NEW t \in Tasks, BackgroundStep(t)
    PROVE  Moves(t)
  <1> USE PcFacts, StatusFacts DEF At, Moves, Carrying
  <1>0. task \in [Tasks -> TaskStates]
    BY DEF TypeInv, TypeOK
  <1>1. CASE Execute(t)
    <2>1. CASE Return(t)
      BY <1>0, <1>1, <2>1, ReturnTask DEF Execute
    <2>2. CASE pending[task[t].job] # NoReq
      <3>1. task' = [task EXCEPT ![t].pc = "load_config",
                                 ![t].mode = pending[task[t].job]]
        BY <1>1, <2>2 DEF Execute
      <3>2. pending[task[t].job] \in Modes
        BY <1>1, <2>2 DEF Execute, TypeInv, TypeOK, TasksHoldJobs
      <3>3. /\ task' \in [Tasks -> TaskStates]
            /\ task'[t].pc = "load_config"
            /\ task'[t].doc = task[t].doc /\ task'[t].job = task[t].job
            /\ \A u \in Tasks \ {t} : task'[u] = task[u]
        BY <1>0, <3>1, <3>2, ZenonT(60) DEF TaskStates
      <3> QED
        BY <1>1, <3>3 DEF Execute
    <2> QED
      BY <1>1, <2>1, <2>2 DEF Execute
  <1>2. CASE LoadConfig(t)
    BY <1>0, <1>2, GotoTask DEF LoadConfig
  <1>3. CASE Start(t)
    <2>1. CASE Goto(t, "embed")
      BY <1>0, <1>3, <2>1, GotoTask DEF Start
    <2>2. CASE Goto(t, "parse")
      BY <1>0, <1>3, <2>2, GotoTask DEF Start
    <2>3. CASE task' = [task EXCEPT ![t].pc = "parse", ![t].mode = "full"]
      BY <1>0, <1>3, <2>3, ZenonT(60) DEF Start, TaskStates, Modes
    <2> QED
      BY <1>3, <2>1, <2>2, <2>3 DEF Start
  <1>4. CASE Parse(t)
    <2>1. CASE Goto(t, "metadata")
      BY <1>0, <1>4, <2>1, GotoTask DEF Parse
    <2>2. CASE Goto(t, "chunk")
      BY <1>0, <1>4, <2>2, GotoTask DEF Parse
    <2>3. CASE task' = [task EXCEPT ![t].mode = "full"]
      BY <1>0, <1>4, <2>3 DEF Parse, TaskStates, Modes
    <2> QED
      BY <1>4, <2>1, <2>2, <2>3 DEF Parse
  <1>5. CASE Chunk(t)
    BY <1>0, <1>5, GotoTask DEF Chunk
  <1>6. CASE Embed(t)
    <2>1. PICK ok \in BOOLEAN :
             task' = [task EXCEPT ![t].pc = "upsert", ![t].embedded = ok]
      BY <1>6 DEF Embed
    <2>2. status' = status \/ SetActive(task[t].job, "indexing")
      BY <1>6 DEF Embed
    <2>3. /\ task' \in [Tasks -> TaskStates]
          /\ task'[t].pc = "upsert"
          /\ task'[t].doc = task[t].doc /\ task'[t].job = task[t].job
          /\ \A u \in Tasks \ {t} : task'[u] = task[u]
      BY <1>0, <2>1, ZenonT(60) DEF TaskStates
    <2> QED
      BY <1>6, <2>2, <2>3 DEF Embed
  <1>7. CASE FailFast(t)
    BY <1>0, <1>7, ReturnTask DEF FailFast
  <1>8. CASE Upsert(t)
    BY <1>0, <1>8, GotoTask DEF Upsert
  <1>9. CASE WriteDoc(t)
    BY <1>0, <1>9, GotoTask DEF WriteDoc
  <1>10. CASE WriteChunks(t)
    BY <1>0, <1>10, GotoTask DEF WriteChunks
  <1>11. CASE UpdateMetadata(t)
    BY <1>0, <1>11, GotoTask DEF UpdateMetadata
  <1>12. CASE Finish(t)
    BY <1>0, <1>12, ReturnTask DEF Finish
  <1>13. CASE Fail(t)
    BY <1>0, <1>13, ReturnTask DEF Fail
  <1>14. CASE Abandon(t)
    BY <1>0, <1>14, ReturnTask DEF Abandon
  <1> QED
    BY <1>1, <1>2, <1>3, <1>4, <1>5, <1>6, <1>7, <1>8, <1>9, <1>10, <1>11,
       <1>12, <1>13, <1>14 DEF BackgroundStep

\* Every step preserves the types and the links between tasks, jobs and
\* documents.
LEMMA TypeNext == TypeInv /\ [Next]_vars => TypeInv'
  <1> SUFFICES ASSUME TypeInv, [Next]_vars PROVE TypeInv'
    OBVIOUS
  <1> USE PcFacts, StatusFacts, IdleFacts
  <1>0. /\ TypeOK /\ task \in [Tasks -> TaskStates] /\ status \in [Jobs -> Statuses]
        /\ jobDoc \in [Jobs -> Docs \cup {NoDoc}]
    BY DEF TypeInv, TypeOK
  <1>1. CASE UNCHANGED vars
    BY <1>1 DEF TypeInv, TypeOK, TasksHoldDocs, TasksHoldJobs, JobsHaveDocs, vars
  <1>2. CASE Crash
    <2>1. TypeOK'
      BY <1>2 DEF Crash, TypeInv, TypeOK
    <2>2. TasksHoldDocs' /\ TasksHoldJobs' /\ JobsHaveDocs'
      BY <1>2 DEF Crash, TypeInv, TasksHoldDocs, TasksHoldJobs, JobsHaveDocs
    <2> QED
      BY <2>1, <2>2 DEF TypeInv
  <1>3. ASSUME NEW t \in Tasks, Request(t) PROVE TypeInv'
    <2>1. ASSUME NEW d \in Docs, NEW j \in Jobs, NEW m \in Modes, Accept(t, d, j, m)
          PROVE TypeInv'
      <3>1. [pc |-> "register", doc |-> d, job |-> j, mode |-> m,
             embedded |-> TRUE] \in TaskStates
        BY DEF TaskStates
      <3>2. TypeOK'
        BY <1>0, <2>1, <3>1, ReplaceTask DEF Accept, TypeOK
      <3>3. TasksHoldDocs' /\ TasksHoldJobs' /\ JobsHaveDocs'
        BY <1>0, <2>1, <3>1, ReplaceTask
           DEF Accept, TypeInv, TasksHoldDocs, TasksHoldJobs, JobsHaveDocs
      <3> QED
        BY <3>2, <3>3 DEF TypeInv
    <2>2. ASSUME NEW j \in Jobs, RetryLoad(t, j) PROVE TypeInv'
      <3> DEFINE x == [Idle EXCEPT !.pc = "retry_doc", !.job = j, !.doc = jobDoc[j]]
      <3>1. /\ x \in TaskStates
            /\ x.pc = "retry_doc" /\ x.job = j /\ x.doc = jobDoc[j]
        BY <1>0 DEF TaskStates, Idle, Modes
      <3>2. status[j] # "none" /\ jobDoc[j] \in Docs
        BY <2>2 DEF RetryLoad, TypeInv, JobsHaveDocs
      <3>3. task' = [task EXCEPT ![t] = x]
        BY <2>2 DEF RetryLoad
      <3> HIDE DEF x
      <3>4. TypeOK'
        BY <1>0, <2>2, <3>1, <3>3, ReplaceTask DEF RetryLoad, TypeOK
      <3>5. TasksHoldDocs' /\ TasksHoldJobs' /\ JobsHaveDocs'
        BY <1>0, <2>2, <3>1, <3>2, <3>3, ReplaceTask
           DEF RetryLoad, TypeInv, TasksHoldDocs, TasksHoldJobs, JobsHaveDocs
      <3> QED
        BY <3>4, <3>5 DEF TypeInv
    <2>3. ASSUME NEW d \in Docs, HardDelete(t, d) PROVE TypeInv'
      <3> DEFINE x == [Idle EXCEPT !.pc = "delete_doc", !.doc = d]
      <3>1. x \in TaskStates /\ x.pc = "delete_doc" /\ x.doc = d
        BY DEF TaskStates, Idle, Modes
      <3>2. task' = [task EXCEPT ![t] = x]
        BY <2>3 DEF HardDelete
      <3> HIDE DEF x
      <3>3. TypeOK'
        BY <1>0, <2>3, <3>1, <3>2, ReplaceTask DEF HardDelete, TypeOK
      <3>4. TasksHoldDocs' /\ TasksHoldJobs' /\ JobsHaveDocs'
        BY <1>0, <2>3, <3>1, <3>2, ReplaceTask
           DEF HardDelete, TypeInv, TasksHoldDocs, TasksHoldJobs, JobsHaveDocs
      <3> QED
        BY <3>3, <3>4 DEF TypeInv
    <2> QED
      BY <1>3, <2>1, <2>2, <2>3 DEF Request, PrepareUpload, PrepareReindex, Modes
  <1>4. ASSUME NEW t \in Tasks, BackgroundStep(t) PROVE TypeInv'
    <2>1. Moves(t) /\ task[t].job \in Jobs /\ task[t].doc \in Docs
          /\ status[task[t].job] # "none"
      BY <1>4, BackgroundMoves DEF Moves, Carrying, TypeInv, TasksHoldDocs, TasksHoldJobs
    <2>2. /\ status' \in [Jobs -> Statuses]
          /\ \A k \in Jobs : status'[k] # "none" <=> status[k] # "none"
      <3>1. CASE status' = status
        BY <1>0, <3>1
      <3>2. ASSUME NEW s \in ActiveStates \cup TerminalStates,
                   SetStatus(task[t].job, s)
            PROVE  <2>2!1 /\ <2>2!2
        BY <1>0, <2>1, <3>2, SetStatusFacts
      <3> QED
        BY <2>1, <3>1, <3>2 DEF Moves, SetActive
    <2>3. TasksHoldDocs' /\ TasksHoldJobs' /\ JobsHaveDocs'
      <3>1. TasksHoldDocs' /\ TasksHoldJobs'
        BY <2>1, <2>2 DEF Moves, Carrying, TypeInv, TasksHoldDocs, TasksHoldJobs
      <3>2. JobsHaveDocs'
        BY <2>1, <2>2 DEF Moves, TypeInv, JobsHaveDocs
      <3> QED
        BY <3>1, <3>2
    <2>4. pending' \in [Jobs -> Modes \cup {NoReq}] /\ crashes' \in Nat
      BY <1>0, <1>4, <2>1 DEF BackgroundStep, TypeOK, Execute, LoadConfig, Start, Parse,
         Chunk, Embed, FailFast, Upsert, WriteDoc, WriteChunks, UpdateMetadata,
         Finish, Fail, Abandon
    <2>5. docs' \subseteq Docs /\ chunked' \subseteq Docs
      BY <1>0, <1>4, <2>1 DEF BackgroundStep, TypeOK, Execute, LoadConfig, Start, Parse,
         Chunk, Embed, FailFast, Upsert, WriteDoc, WriteChunks, UpdateMetadata,
         Finish, Fail, Abandon
    <2>6. TypeOK'
      BY <1>0, <2>1, <2>2, <2>4, <2>5 DEF Moves, TypeOK
    <2> QED
      BY <2>3, <2>6 DEF TypeInv
  <1>5. ASSUME NEW t \in Tasks, RegisterJob(t) PROVE TypeInv'
    <2>1. task[t].job \in Jobs /\ task[t].doc \in Docs /\ task[t].mode \in Modes
      BY <1>0, <1>5 DEF RegisterJob, At, TypeInv, TasksHoldDocs, TasksHoldJobs, TaskStates
    <2>2. CASE Return(t) /\ UNCHANGED <<status, jobDoc, pending>>
      <3>1. TypeOK'
        BY <1>0, <1>5, <2>2, ReturnTask DEF RegisterJob, TypeOK
      <3>2. TasksHoldDocs' /\ TasksHoldJobs' /\ JobsHaveDocs'
        BY <1>0, <2>2, ReturnTask DEF TypeInv, TasksHoldDocs, TasksHoldJobs, JobsHaveDocs
      <3> QED
        BY <3>1, <3>2 DEF TypeInv
    <2>3. CASE /\ status' = [status EXCEPT ![task[t].job] = "pending"]
               /\ jobDoc' = [jobDoc EXCEPT ![task[t].job] = task[t].doc]
               /\ pending' = [pending EXCEPT ![task[t].job] = task[t].mode]
               /\ Goto(t, "execute")
      <3>1. TypeOK'
        BY <1>0, <1>5, <2>1, <2>3, GotoTask DEF RegisterJob, TypeOK
      <3>2. TasksHoldDocs' /\ TasksHoldJobs' /\ JobsHaveDocs'
        BY <1>0, <2>1, <2>3, GotoTask
           DEF At, TypeInv, TasksHoldDocs, TasksHoldJobs, JobsHaveDocs
      <3> QED
        BY <3>1, <3>2 DEF TypeInv
    <2> QED
      BY <1>5, <2>2, <2>3 DEF RegisterJob
  <1>6. ASSUME NEW t \in Tasks, RetryRequest(t) \/ RetryReset(t) PROVE TypeInv'
    <2>1. /\ task[t].job \in Jobs /\ task[t].doc \in Docs
          /\ status[task[t].job] # "none" /\ task[t].pc \in RetryPcs
      BY <1>6 DEF RetryRequest, RetryReset, At, TypeInv, TasksHoldDocs, TasksHoldJobs
    <2>2. /\ task' \in [Tasks -> TaskStates]
          /\ \A u \in Tasks \ {t} : task'[u] = task[u]
          /\ \/ task'[t] = Idle
             \/ /\ task'[t].pc \in {"retry_reset", "execute"}
                /\ task'[t].doc = task[t].doc /\ task'[t].job = task[t].job
      BY <1>0, <1>6, GotoTask, ReturnTask DEF RetryRequest, RetryReset
    <2>3. /\ status' \in [Jobs -> Statuses]
          /\ \A k \in Jobs : status'[k] # "none" <=> status[k] # "none"
      <3>1. status' = status \/ SetStatus(task[t].job, "pending")
        BY <1>6 DEF RetryRequest, RetryReset, SetActive
      <3> QED
        BY <1>0, <2>1, <3>1, SetStatusFacts
    <2>4. TypeOK'
      BY <1>0, <1>6, <2>1, <2>2, <2>3 DEF RetryRequest, RetryReset, TypeOK, Modes
    <2>5. TasksHoldDocs' /\ TasksHoldJobs'
      BY <2>1, <2>2, <2>3 DEF TypeInv, TasksHoldDocs, TasksHoldJobs
    <2>6. JobsHaveDocs'
      BY <1>6, <2>3 DEF RetryRequest, RetryReset, TypeInv, JobsHaveDocs
    <2> QED
      BY <2>4, <2>5, <2>6 DEF TypeInv
  <1>7. ASSUME NEW t \in Tasks, DeleteDoc(t) PROVE TypeInv'
    <2>1. TypeOK'
      BY <1>0, <1>7, ReturnTask DEF DeleteDoc, TypeOK
    <2>2. TasksHoldDocs' /\ TasksHoldJobs' /\ JobsHaveDocs'
      BY <1>0, <1>7, ReturnTask
         DEF DeleteDoc, TypeInv, TasksHoldDocs, TasksHoldJobs, JobsHaveDocs
    <2> QED
      BY <2>1, <2>2 DEF TypeInv
  <1> QED
    BY <1>1, <1>2, <1>3, <1>4, <1>5, <1>6, <1>7 DEF Next, Step, BackgroundStep

\* Every variable keeps its type through all handlers, background steps,
\* faults and crashes of the indexing orchestrator.
THEOREM TypeCorrect == Spec => []TypeOK
  <1>1. TypeInv => TypeOK
    BY DEF TypeInv
  <1> QED
    BY <1>1, TypeInit, TypeNext, PTL DEF Spec

-----------------------------------------------------------------------------
(* One active job per document, whoever retries.                           *)

\* No step makes a second job of a document active: create and update go
\* through the partial unique index.
LEMMA OneActiveNext ==
    ASSUME TypeInv, OneActiveJob, [Next]_vars
    PROVE  OneActiveJob'
  <1> USE StatusFacts DEF OneActiveJob, Active
  <1>0. /\ task \in [Tasks -> TaskStates] /\ status \in [Jobs -> Statuses]
        /\ jobDoc \in [Jobs -> Docs \cup {NoDoc}]
    BY DEF TypeInv, TypeOK
  <1>1. ASSUME NEW j \in Jobs, NEW s \in ActiveStates, SetActive(j, s), jobDoc' = jobDoc
        PROVE  OneActiveJob'
    BY <1>0, <1>1, SetStatusFacts DEF SetActive, Taken, RowsVisible
  <1>2. ASSUME NEW j \in Jobs, NEW s \in TerminalStates, SetStatus(j, s), jobDoc' = jobDoc
        PROVE  OneActiveJob'
    BY <1>0, <1>2, SetStatusFacts
  <1>3. CASE UNCHANGED <<status, jobDoc>>
    BY <1>3
  <1>4. ASSUME NEW t \in Tasks, RegisterJob(t) PROVE OneActiveJob'
    <2>1. task[t].job \in Jobs
      BY <1>4 DEF RegisterJob, At, TypeInv, TasksHoldJobs
    <2> QED
      BY <1>0, <1>3, <1>4, <2>1 DEF RegisterJob, Conflict
  <1>5. ASSUME NEW t \in Tasks, RetryReset(t) PROVE OneActiveJob'
    <2>1. task[t].job \in Jobs
      BY <1>5, PcFacts DEF RetryReset, At, TypeInv, TasksHoldJobs
    <2> QED
      BY <1>1, <1>3, <1>5, <2>1 DEF RetryReset
  <1>6. ASSUME NEW t \in Tasks, BackgroundStep(t) PROVE OneActiveJob'
    <2>1. Moves(t) /\ task[t].job \in Jobs
      BY <1>6, BackgroundMoves DEF Moves, Carrying, TypeInv, TasksHoldJobs
    <2> QED
      BY <1>1, <1>2, <1>3, <2>1 DEF Moves
  <1>7. ASSUME NEW t \in Tasks, Request(t) \/ RetryRequest(t) \/ DeleteDoc(t)
        PROVE  UNCHANGED <<status, jobDoc>>
    BY <1>7 DEF Request, PrepareUpload, PrepareReindex, Accept, RetryLoad, HardDelete,
       RetryRequest, DeleteDoc
  <1> QED
    BY <1>3, <1>4, <1>5, <1>6, <1>7 DEF Next, Step, BackgroundStep, Crash, vars

\* ADR-012 section 10 holds in every reachable state, for any number of clients
\* that upload, reindex and retry: the partial unique index is never bypassed.
THEOREM OneActiveJobAlways == Spec => []OneActiveJob
  <1>1. Init => OneActiveJob
    BY StatusFacts DEF Init, OneActiveJob, Active
  <1>2. TypeInv /\ OneActiveJob /\ [Next]_vars => OneActiveJob'
    BY OneActiveNext
  <1> QED
    BY <1>1, <1>2, TypeInit, TypeNext, PTL DEF Spec

-----------------------------------------------------------------------------
(* One run per document.                                                   *)

\* At most one client uses the retry endpoint at a time; under row level
\* security retry_job finds no job, and there may be any number of clients.
SoleRetrier == RlsApplies \/ \A t, u \in Retriers : t = u

\* A task that executes a job works for the document of an active row ...
CarriedIsActive ==
    \A t \in Tasks : Carrying(t) =>
        Active(task[t].job) /\ jobDoc[task[t].job] = task[t].doc

\* ... and is the only one to do so.
CarryAlone ==
    \A t, u \in Tasks : Carrying(t) /\ Carrying(u) /\ task[t].job = task[u].job => t = u

\* A handler that is about to insert a job is the only task that knows its id.
RegisterAlone ==
    \A t \in Tasks : task[t].pc = "register" =>
        /\ status[task[t].job] = "none"
        /\ \A u \in Tasks : task[u].job = task[t].job => t = u

\* Between the status check of a retry and its reset the job stays terminal.
RetryIsTerminal ==
    \A t \in Tasks : task[t].pc \in RetryPcs =>
        /\ t \in Retriers /\ ~RlsApplies
        /\ status[task[t].job] \in TerminalStates
        /\ jobDoc[task[t].job] = task[t].doc

SafeInv ==
    TypeInv /\ OneActiveJob /\ CarriedIsActive /\ CarryAlone /\ RegisterAlone
            /\ RetryIsTerminal

\* No task carries a job in the initial state.
LEMMA SafeInit == Init => SafeInv
  <1> SUFFICES ASSUME Init PROVE SafeInv
    OBVIOUS
  <1>1. TypeInv
    BY TypeInit
  <1>2. OneActiveJob /\ CarriedIsActive /\ CarryAlone /\ RegisterAlone /\ RetryIsTerminal
    BY IdleFacts, PcFacts, StatusFacts DEF Init, OneActiveJob, Active, CarriedIsActive,
       Carrying, CarryAlone, RegisterAlone, RetryIsTerminal
  <1> QED
    BY <1>1, <1>2 DEF SafeInv

\* Every step keeps a run alone on its document.
LEMMA SafeNext ==
    ASSUME SoleRetrier, SafeInv, [Next]_vars
    PROVE  SafeInv'
  <1> USE PcFacts, StatusFacts, IdleFacts
  <1> DEFINE Rest == CarriedIsActive /\ CarryAlone /\ RegisterAlone /\ RetryIsTerminal
  <1>0. /\ TypeInv /\ TypeInv' /\ Rest /\ OneActiveJob'
        /\ task \in [Tasks -> TaskStates] /\ status \in [Jobs -> Statuses]
        /\ jobDoc \in [Jobs -> Docs \cup {NoDoc}]
    BY TypeNext, OneActiveNext DEF SafeInv, TypeInv, TypeOK
  <1>1. CASE UNCHANGED vars
    BY <1>0, <1>1 DEF SafeInv, Active, CarriedIsActive, Carrying, CarryAlone,
       RegisterAlone, RetryIsTerminal, vars
  <1>2. CASE Crash
    <2>1. Rest'
      BY <1>0, <1>2 DEF Crash, Active, CarriedIsActive, Carrying, CarryAlone,
         RegisterAlone, RetryIsTerminal
    <2> QED
      BY <1>0, <2>1 DEF SafeInv
  <1>3. ASSUME NEW t \in Tasks, Request(t) PROVE Rest'
    <2>0. UNCHANGED <<status, jobDoc>> /\ task[t].pc = "idle"
      BY <1>3 DEF Request, PrepareUpload, PrepareReindex, Accept, RetryLoad, HardDelete, At
    <2>1. ASSUME NEW d \in Docs, NEW j \in Jobs, NEW m \in Modes, Accept(t, d, j, m)
          PROVE Rest'
      <3>1. [pc |-> "register", doc |-> d, job |-> j, mode |-> m,
             embedded |-> TRUE] \in TaskStates
        BY DEF TaskStates
      <3>2. /\ task'[t].pc = "register" /\ task'[t].job = j
            /\ \A u \in Tasks \ {t} : task'[u] = task[u]
            /\ status[j] = "none" /\ \A u \in Tasks : task[u].job # j
        BY <1>0, <2>1, <3>1, ReplaceTask DEF Accept, Fresh
      <3> QED
        BY <1>0, <2>0, <3>2 DEF Active, CarriedIsActive, Carrying,
           CarryAlone, RegisterAlone, RetryIsTerminal
    <2>2. ASSUME NEW j \in Jobs, RetryLoad(t, j) PROVE Rest'
      <3> DEFINE x == [Idle EXCEPT !.pc = "retry_doc", !.job = j, !.doc = jobDoc[j]]
      <3>1. /\ x \in TaskStates
            /\ x.pc = "retry_doc" /\ x.job = j /\ x.doc = jobDoc[j]
        BY <1>0 DEF TaskStates, Idle, Modes
      <3>2. task' = [task EXCEPT ![t] = x] /\ t \in Retriers /\ ~RlsApplies
            /\ status[j] \in TerminalStates
        BY <2>2 DEF RetryLoad, RowsVisible
      <3> HIDE DEF x
      <3>3. /\ task'[t].pc = "retry_doc" /\ task'[t].job = j
            /\ task'[t].doc = jobDoc[j]
            /\ \A u \in Tasks \ {t} : task'[u] = task[u]
        BY <1>0, <3>1, <3>2, ReplaceTask
      <3> QED
        BY <1>0, <2>0, <3>2, <3>3 DEF Active, CarriedIsActive, Carrying,
           CarryAlone, RegisterAlone, RetryIsTerminal
    <2>3. ASSUME NEW d \in Docs, HardDelete(t, d) PROVE Rest'
      <3> DEFINE x == [Idle EXCEPT !.pc = "delete_doc", !.doc = d]
      <3>1. x \in TaskStates /\ x.pc = "delete_doc" /\ x.job = NoJob
        BY DEF TaskStates, Idle, Modes
      <3>2. task' = [task EXCEPT ![t] = x]
        BY <2>3 DEF HardDelete
      <3> HIDE DEF x
      <3>3. /\ task'[t].pc = "delete_doc" /\ task'[t].job = NoJob
            /\ \A u \in Tasks \ {t} : task'[u] = task[u]
        BY <1>0, <3>1, <3>2, ReplaceTask
      <3>4. NoJob \notin Jobs
        BY ConstantsAssumption
      <3> QED
        BY <1>0, <2>0, <3>3, <3>4 DEF Active, CarriedIsActive, Carrying,
           CarryAlone, RegisterAlone, RetryIsTerminal, TypeInv, TasksHoldJobs
    <2> QED
      BY <1>3, <2>1, <2>2, <2>3 DEF Request, PrepareUpload, PrepareReindex, Modes
  <1>4. ASSUME NEW t \in Tasks, BackgroundStep(t) PROVE Rest'
    <2>1. Moves(t) /\ task[t].job \in Jobs /\ Active(task[t].job)
      BY <1>0, <1>4, BackgroundMoves
         DEF Moves, Carrying, TypeInv, TasksHoldJobs, CarriedIsActive
    <2>2. \A k \in Jobs \ {task[t].job} : status'[k] = status[k]
      <3>1. ASSUME NEW s \in ActiveStates \cup TerminalStates,
                   SetStatus(task[t].job, s)
            PROVE  <2>2
        BY <1>0, <2>1, <3>1, SetStatusFacts
      <3> QED
        BY <2>1, <3>1 DEF Moves, SetActive
    <2>3. Carrying(t)' => Active(task[t].job)'
      <3>1. ASSUME NEW s \in ActiveStates, SetStatus(task[t].job, s)
            PROVE  status'[task[t].job] \in ActiveStates
        BY <1>0, <2>1, <3>1, SetStatusFacts DEF Active
      <3> QED
        BY <2>1, <3>1 DEF Moves, SetActive, Active, Carrying
    <2>4. CarriedIsActive' /\ CarryAlone'
      BY <1>0, <2>1, <2>2, <2>3 DEF Moves, CarriedIsActive, CarryAlone, Carrying, Active,
         TypeInv, TasksHoldJobs
    <2>5. RegisterAlone'
      BY <1>0, <2>1, <2>2, ConstantsAssumption DEF Moves, RegisterAlone, Carrying, Active,
         TypeInv, TasksHoldJobs
    <2>6. RetryIsTerminal'
      BY <1>0, <2>1, <2>2 DEF Moves, RetryIsTerminal, Carrying, Active,
         TypeInv, TasksHoldJobs
    <2> QED
      BY <2>4, <2>5, <2>6
  <1>5. ASSUME NEW t \in Tasks, RegisterJob(t) PROVE Rest'
    <2>1. /\ task[t].pc = "register"
          /\ task[t].job \in Jobs /\ task[t].doc \in Docs /\ status[task[t].job] = "none"
          /\ \A u \in Tasks : task[u].job = task[t].job => t = u
      BY <1>0, <1>5 DEF RegisterJob, At, TypeInv, TasksHoldDocs, TasksHoldJobs, RegisterAlone
    <2>2. CASE Return(t) /\ UNCHANGED <<status, jobDoc>>
      BY <1>0, <2>1, <2>2, ReturnTask, ConstantsAssumption
         DEF Active, CarriedIsActive, Carrying,
         CarryAlone, RegisterAlone, RetryIsTerminal, TypeInv, TasksHoldJobs
    <2>3. CASE /\ ~Conflict(task[t].doc)
               /\ status' = [status EXCEPT ![task[t].job] = "pending"]
               /\ jobDoc' = [jobDoc EXCEPT ![task[t].job] = task[t].doc]
               /\ Goto(t, "execute")
      <3>1. /\ task'[t].pc = "execute" /\ task'[t].doc = task[t].doc
            /\ task'[t].job = task[t].job
            /\ \A u \in Tasks \ {t} : task'[u] = task[u]
        BY <1>0, <2>3, GotoTask
      <3>2. /\ status'[task[t].job] = "pending" /\ jobDoc'[task[t].job] = task[t].doc
            /\ \A k \in Jobs \ {task[t].job} :
                  status'[k] = status[k] /\ jobDoc'[k] = jobDoc[k]
        BY <1>0, <2>1, <2>3
      <3>3. CarriedIsActive' /\ CarryAlone'
        BY <1>0, <2>1, <3>1, <3>2 DEF CarriedIsActive, CarryAlone, Carrying, Active,
           TypeInv, TasksHoldJobs
      <3>4. RegisterAlone' /\ RetryIsTerminal'
        BY <1>0, <2>1, <3>1, <3>2 DEF RegisterAlone, RetryIsTerminal, TypeInv, TasksHoldJobs
      <3> QED
        BY <3>3, <3>4
    <2> QED
      BY <1>5, <2>2, <2>3 DEF RegisterJob
  <1>6. ASSUME NEW t \in Tasks, RetryRequest(t) PROVE Rest'
    <2>1. /\ task[t].pc = "retry_doc" /\ UNCHANGED <<status, jobDoc>>
          /\ \A u \in Tasks \ {t} : task'[u] = task[u]
          /\ \/ task'[t] = Idle
             \/ /\ task'[t].pc = "retry_reset"
                /\ task'[t].doc = task[t].doc /\ task'[t].job = task[t].job
      BY <1>0, <1>6, GotoTask, ReturnTask DEF RetryRequest, At
    <2> QED
      BY <1>0, <2>1, ConstantsAssumption DEF Active, CarriedIsActive, Carrying,
         CarryAlone, RegisterAlone, RetryIsTerminal, TypeInv, TasksHoldJobs
  <1>7. ASSUME NEW t \in Tasks, RetryReset(t) PROVE Rest'
    <2>1. /\ task[t].pc = "retry_reset" /\ jobDoc' = jobDoc /\ task[t].job \in Jobs
          /\ ~RlsApplies /\ t \in Retriers /\ status[task[t].job] \in TerminalStates
          /\ jobDoc[task[t].job] = task[t].doc
      BY <1>0, <1>7 DEF RetryReset, At, RetryIsTerminal, TypeInv, TasksHoldJobs
    <2>2. CASE Return(t) /\ status' = status
      BY <1>0, <2>1, <2>2, ReturnTask, ConstantsAssumption
         DEF Active, CarriedIsActive, Carrying,
         CarryAlone, RegisterAlone, RetryIsTerminal, TypeInv, TasksHoldJobs
    <2>3. CASE /\ SetStatus(task[t].job, "pending")
               /\ Goto(t, "execute")
      <3>1. /\ task'[t].pc = "execute" /\ task'[t].doc = task[t].doc
            /\ task'[t].job = task[t].job
            /\ \A u \in Tasks \ {t} : task'[u] = task[u]
        BY <1>0, <2>3, GotoTask
      <3>2. /\ status'[task[t].job] = "pending"
            /\ \A k \in Jobs \ {task[t].job} : status'[k] = status[k]
        BY <1>0, <2>1, <2>3, SetStatusFacts
      <3>3. CarriedIsActive' /\ CarryAlone'
        BY <1>0, <2>1, <3>1, <3>2 DEF CarriedIsActive, CarryAlone, Carrying, Active,
           TypeInv, TasksHoldJobs
      <3>4. RegisterAlone'
        BY <1>0, <2>1, <3>1, <3>2 DEF RegisterAlone, TypeInv, TasksHoldJobs
      <3>5. RetryIsTerminal'
        BY <1>0, <2>1, <3>1, <3>2 DEF RetryIsTerminal, SoleRetrier, TypeInv, TasksHoldJobs
      <3> QED
        BY <3>3, <3>4, <3>5
    <2> QED
      BY <1>7, <2>2, <2>3 DEF RetryReset, SetActive
  <1>8. ASSUME NEW t \in Tasks, DeleteDoc(t) PROVE Rest'
    <2>1. /\ task'[t] = Idle /\ UNCHANGED <<status, jobDoc>>
          /\ \A u \in Tasks \ {t} : task'[u] = task[u]
      BY <1>0, <1>8, ReturnTask DEF DeleteDoc
    <2> QED
      BY <1>0, <2>1, ConstantsAssumption DEF Active, CarriedIsActive, Carrying,
         CarryAlone, RegisterAlone, RetryIsTerminal, TypeInv, TasksHoldJobs
  <1> QED
    BY <1>0, <1>1, <1>2, <1>3, <1>4, <1>5, <1>6, <1>7, <1>8
       DEF Next, Step, BackgroundStep, SafeInv

\* Mutual exclusion of the runs of one document: with one client retrying at a
\* time, no two background tasks index the same document at once, whatever
\* fails and however often the process crashes.
THEOREM SingleRunAlways ==
    ASSUME SoleRetrier
    PROVE  Spec => []SingleRun
  <1>1. Init => SafeInv
    BY SafeInit
  <1>2. SafeInv /\ [Next]_vars => SafeInv'
    BY SafeNext
  <1>3. SafeInv => SingleRun
    BY PcFacts DEF SafeInv, OneActiveJob, CarriedIsActive, CarryAlone, Carrying,
       TypeInv, TasksHoldJobs, SingleRun, Running
  <1> QED
    BY <1>1, <1>2, <1>3, PTL DEF Spec

-----------------------------------------------------------------------------
(* What handlers do to the jobs: they hand one to a background task, or    *)
(* leave the table alone.                                                  *)

HandlerStep(t) ==
    Request(t) \/ RegisterJob(t) \/ RetryRequest(t) \/ RetryReset(t) \/ DeleteDoc(t)

\* The job's status becomes "pending" and its background task is scheduled
Launches(t) ==
    /\ task[t].pc \in {"register", "retry_reset"} /\ task[t].job \in Jobs
    /\ task'[t].pc = "execute" /\ task'[t].job = task[t].job
    /\ status'[task[t].job] \in {"pending", status[task[t].job]}
    /\ ~RlsApplies => status'[task[t].job] = "pending"
    /\ \A k \in Jobs \ {task[t].job} : status'[k] = status[k]
    /\ task[t].pc = "register" => pending'[task[t].job] # NoReq

\* The handler answers, or goes on to its next statement
Handles(t) ==
    /\ status' = status
    /\ task'[t].pc \notin CarryPcs
    /\ task'[t].pc = "retry_doc" =>
        task'[t].job \in Jobs /\ status[task'[t].job] \in {"failed", "partial"}
    /\ task'[t].pc = "retry_reset" =>
        /\ task[t].pc = "retry_doc" /\ task'[t].job = task[t].job
        /\ pending'[task[t].job] # NoReq

HandlerEffect(t) ==
    /\ ~Carrying(t)
    /\ \A u \in Tasks \ {t} : task'[u] = task[u]
    /\ Launches(t) \/ Handles(t)
    /\ \A j \in Jobs : pending[j] # NoReq => pending'[j] # NoReq

\* upload, reindex, retry_job and hard_delete: what the step of a handler does to
\* its task, to the status of the jobs and to the queued requests.
LEMMA HandlerMoves ==
    ASSUME TypeInv, NEW t \in Tasks, HandlerStep(t)
    PROVE  HandlerEffect(t)
  <1> USE PcFacts, StatusFacts, IdleFacts DEF At, Carrying
  <1>0. /\ task \in [Tasks -> TaskStates] /\ status \in [Jobs -> Statuses]
        /\ pending \in [Jobs -> Modes \cup {NoReq}] /\ jobDoc \in [Jobs -> Docs \cup {NoDoc}]
    BY DEF TypeInv, TypeOK
  <1>n. NoReq \notin Modes /\ "full" \in Modes
    BY ConstantsAssumption DEF Modes
  <1>1. ASSUME NEW d \in Docs, NEW j \in Jobs, NEW m \in Modes, Accept(t, d, j, m)
        PROVE  HandlerEffect(t)
    <2>1. [pc |-> "register", doc |-> d, job |-> j, mode |-> m,
           embedded |-> TRUE] \in TaskStates
      BY DEF TaskStates
    <2>2. task'[t].pc = "register" /\ \A u \in Tasks \ {t} : task'[u] = task[u]
      BY <1>0, <1>1, <2>1, ReplaceTask DEF Accept
    <2> QED
      BY <1>1, <2>2 DEF Accept, HandlerEffect, Handles
  <1>2. ASSUME NEW j \in Jobs, RetryLoad(t, j) PROVE HandlerEffect(t)
    <2> DEFINE x == [Idle EXCEPT !.pc = "retry_doc", !.job = j, !.doc = jobDoc[j]]
    <2>1. x \in TaskStates /\ x.pc = "retry_doc" /\ x.job = j
      BY <1>0 DEF TaskStates, Idle, Modes
    <2>2. task' = [task EXCEPT ![t] = x]
      BY <1>2 DEF RetryLoad
    <2> HIDE DEF x
    <2>3. /\ task'[t].pc = "retry_doc" /\ task'[t].job = j
          /\ \A u \in Tasks \ {t} : task'[u] = task[u]
      BY <1>0, <2>1, <2>2, ReplaceTask
    <2> QED
      BY <1>2, <2>3 DEF RetryLoad, HandlerEffect, Handles
  <1>3. ASSUME NEW d \in Docs, HardDelete(t, d) PROVE HandlerEffect(t)
    <2> DEFINE x == [Idle EXCEPT !.pc = "delete_doc", !.doc = d]
    <2>1. x \in TaskStates /\ x.pc = "delete_doc"
      BY DEF TaskStates, Idle, Modes
    <2>2. task' = [task EXCEPT ![t] = x]
      BY <1>3 DEF HardDelete
    <2> HIDE DEF x
    <2>3. task'[t].pc = "delete_doc" /\ \A u \in Tasks \ {t} : task'[u] = task[u]
      BY <1>0, <2>1, <2>2, ReplaceTask
    <2> QED
      BY <1>3, <2>3 DEF HardDelete, HandlerEffect, Handles
  <1>4. CASE RegisterJob(t)
    <2>1. task[t].job \in Jobs /\ task[t].mode \in Modes /\ task[t].pc = "register"
      BY <1>0, <1>4 DEF RegisterJob, TypeInv, TasksHoldJobs, TaskStates
    <2>2. CASE Return(t) /\ UNCHANGED <<status, pending>>
      BY <1>0, <2>1, <2>2, ReturnTask DEF HandlerEffect, Handles
    <2>3. CASE /\ status' = [status EXCEPT ![task[t].job] = "pending"]
               /\ pending' = [pending EXCEPT ![task[t].job] = task[t].mode]
               /\ Goto(t, "execute")
      BY <1>0, <1>n, <2>1, <2>3, GotoTask DEF HandlerEffect, Launches
    <2> QED
      BY <1>4, <2>2, <2>3 DEF RegisterJob
  <1>5. CASE RetryRequest(t)
    <2>1. task[t].job \in Jobs /\ task[t].pc = "retry_doc" /\ status' = status
      BY <1>5 DEF RetryRequest, TypeInv, TasksHoldJobs
    <2>2. CASE Return(t) /\ UNCHANGED pending
      BY <1>0, <2>1, <2>2, ReturnTask DEF HandlerEffect, Handles
    <2>3. CASE pending' = [pending EXCEPT ![task[t].job] = "full"] /\ Goto(t, "retry_reset")
      BY <1>0, <1>n, <2>1, <2>3, GotoTask DEF HandlerEffect, Handles
    <2> QED
      BY <1>5, <2>2, <2>3 DEF RetryRequest
  <1>6. CASE RetryReset(t)
    <2>1. task[t].job \in Jobs /\ task[t].pc = "retry_reset" /\ pending' = pending
      BY <1>6 DEF RetryReset, TypeInv, TasksHoldJobs
    <2>2. CASE Return(t) /\ UNCHANGED status
      BY <1>0, <2>1, <2>2, ReturnTask DEF HandlerEffect, Handles
    <2>3. CASE SetStatus(task[t].job, "pending") /\ Goto(t, "execute")
      BY <1>0, <2>1, <2>3, GotoTask, SetStatusFacts DEF HandlerEffect, Launches
    <2> QED
      BY <1>6, <2>2, <2>3 DEF RetryReset, SetActive
  <1>7. CASE DeleteDoc(t)
    BY <1>0, <1>7, ReturnTask DEF DeleteDoc, HandlerEffect, Handles
  <1> QED
    BY <1>1, <1>2, <1>3, <1>4, <1>5, <1>6, <1>7
       DEF HandlerStep, Request, PrepareUpload, PrepareReindex, Modes

-----------------------------------------------------------------------------
(* No active row is left behind.                                           *)

\* The three ways in which a row is left active are excluded: the process dies,
\* _load_pii_config raises or the database is away for the exception handler too,
\* and row level security hides the row from update.
Undisturbed == ~RlsApplies /\ MaxCrashes = 0 /\ Faults \cap {"config", "outage"} = {}

\* A task that is going to pop a request finds one
QueuedIsKept ==
    \A t \in Tasks : task[t].pc \in {"retry_reset", "execute"} => pending[task[t].job] # NoReq

\* execute, run_with_existing_job: a background task goes on with its job or ends
\* with a final status.
LEMMA EndIsReported ==
    ASSUME Undisturbed, TypeInv, QueuedIsKept, NEW t \in Tasks, BackgroundStep(t)
    PROVE  Carrying(t)' \/ \E s \in TerminalStates : SetStatus(task[t].job, s)
  <1> USE PcFacts, StatusFacts DEF At, Carrying
  <1>0. task \in [Tasks -> TaskStates]
    BY DEF TypeInv, TypeOK
  <1>1. CASE Execute(t)
    <2>1. task' = [task EXCEPT ![t].pc = "load_config", ![t].mode = pending[task[t].job]]
      BY <1>1 DEF Execute, QueuedIsKept
    <2> QED
      BY <1>0, <2>1 DEF TaskStates
  <1>2. CASE LoadConfig(t) \/ Chunk(t) \/ Upsert(t) \/ WriteDoc(t) \/ WriteChunks(t)
             \/ UpdateMetadata(t)
    <2>1. \E p \in RunPcs : Goto(t, p)
      BY <1>2 DEF LoadConfig, Chunk, Upsert, WriteDoc, WriteChunks, UpdateMetadata
    <2> QED
      BY <1>0, <2>1, GotoTask
  <1>3. CASE Start(t) \/ Parse(t) \/ Embed(t)
    <2>1. CASE \E p \in RunPcs : Goto(t, p)
      BY <1>0, <2>1, GotoTask
    <2>2. CASE task' = [task EXCEPT ![t].pc = "parse", ![t].mode = "full"]
      BY <1>0, <2>2 DEF TaskStates
    <2>3. CASE task[t].pc = "parse" /\ task' = [task EXCEPT ![t].mode = "full"]
      BY <1>0, <2>3 DEF TaskStates
    <2>4. CASE \E ok \in BOOLEAN : task' = [task EXCEPT ![t].pc = "upsert", ![t].embedded = ok]
      BY <1>0, <2>4 DEF TaskStates
    <2> QED
      BY <1>3, <2>1, <2>2, <2>3, <2>4 DEF Start, Parse, Embed
  <1>4. CASE FailFast(t) \/ Finish(t) \/ Fail(t)
    BY <1>4 DEF FailFast, Finish, Fail
  <1>5. CASE Abandon(t)
    BY <1>5 DEF Abandon, Undisturbed
  <1> QED
    BY <1>1, <1>2, <1>3, <1>4, <1>5 DEF BackgroundStep

\* A request stays queued until its own task has taken it.
LEMMA QueuedNext ==
    ASSUME SafeInv, QueuedIsKept, [Next]_vars
    PROVE  QueuedIsKept'
  <1> USE PcFacts, StatusFacts DEF At
  <1>0. /\ TypeInv /\ TypeInv' /\ task \in [Tasks -> TaskStates]
        /\ pending \in [Jobs -> Modes \cup {NoReq}]
    BY TypeNext DEF SafeInv, TypeInv, TypeOK
  <1>1. CASE UNCHANGED vars
    BY <1>1 DEF QueuedIsKept, vars
  <1>2. CASE Crash
    BY <1>2, IdleFacts DEF Crash, QueuedIsKept
  <1>3. ASSUME NEW t \in Tasks, HandlerStep(t) PROVE QueuedIsKept'
    <2>1. HandlerEffect(t)
      BY <1>0, <1>3, HandlerMoves
    <2>2. \A u \in Tasks \ {t} : task[u].pc \in {"retry_reset", "execute"} => task[u].job \in Jobs
      BY <1>0 DEF TypeInv, TasksHoldJobs
    <2>3. \A u \in Tasks \ {t} :
            task'[u].pc \in {"retry_reset", "execute"} => pending'[task'[u].job] # NoReq
      BY <2>1, <2>2 DEF HandlerEffect, QueuedIsKept
    <2>4. task'[t].pc \in {"retry_reset", "execute"} => pending'[task'[t].job] # NoReq
      BY <2>1 DEF HandlerEffect, Launches, Handles, QueuedIsKept
    <2> QED
      BY <2>3, <2>4 DEF QueuedIsKept
  <1>4. ASSUME NEW t \in Tasks, BackgroundStep(t) PROVE QueuedIsKept'
    <2>1. /\ Moves(t) /\ task[t].job \in Jobs /\ Active(task[t].job) /\ Carrying(t)
      BY <1>0, <1>4, BackgroundMoves
         DEF Moves, Carrying, TypeInv, TasksHoldJobs, CarriedIsActive, SafeInv
    <2>2. task'[t].pc \notin {"retry_reset", "execute"}
      <3>1. CASE task'[t] = Idle
        BY <3>1, IdleFacts
      <3>2. CASE Execute(t) /\ task'[t] # Idle
        <4>1. task' = [task EXCEPT ![t].pc = "load_config", ![t].mode = pending[task[t].job]]
          BY <1>0, <3>2, ReturnTask DEF Execute
        <4> QED
          BY <1>0, <4>1 DEF TaskStates
      <3>3. CASE \E p \in RunPcs : Goto(t, p)
        <4>1. PICK p \in RunPcs : Goto(t, p)
          BY <3>3
        <4>2. p # "retry_reset" /\ p # "execute"
          BY DEF RunPcs
        <4> QED
          BY <1>0, <4>1, <4>2, GotoTask
      <3>4. CASE \/ task' = [task EXCEPT ![t].pc = "parse", ![t].mode = "full"]
                 \/ task[t].pc = "parse" /\ task' = [task EXCEPT ![t].mode = "full"]
                 \/ \E ok \in BOOLEAN :
                      task' = [task EXCEPT ![t].pc = "upsert", ![t].embedded = ok]
        BY <1>0, <3>4 DEF TaskStates
      <3> QED
        BY <1>0, <1>4, <3>1, <3>2, <3>3, <3>4, ReturnTask
           DEF BackgroundStep, LoadConfig, Chunk, Upsert, WriteDoc, WriteChunks,
               UpdateMetadata, Start, Parse, Embed, FailFast, Finish, Fail, Abandon
    <2>3. \A j \in Jobs \ {task[t].job} : pending'[j] = pending[j]
      BY <1>0, <1>4, <2>1 DEF BackgroundStep, Execute, LoadConfig, Start, Parse,
         Chunk, Embed, FailFast, Upsert, WriteDoc, WriteChunks, UpdateMetadata,
         Finish, Fail, Abandon
    <2>4. ASSUME NEW u \in Tasks \ {t}, task[u].pc \in {"retry_reset", "execute"}
          PROVE  task[u].job \in Jobs /\ task[u].job # task[t].job
      <3>1. task[u].job \in Jobs
        BY <1>0, <2>4 DEF TypeInv, TasksHoldJobs
      <3>2. CASE task[u].pc = "execute"
        BY <2>1, <2>4, <3>1, <3>2 DEF SafeInv, CarryAlone, Carrying
      <3>3. CASE task[u].pc = "retry_reset"
        BY <2>1, <2>4, <3>1, <3>3 DEF SafeInv, RetryIsTerminal, Active
      <3> QED
        BY <2>4, <3>2, <3>1, <3>3
    <2> QED
      BY <2>1, <2>2, <2>3, <2>4 DEF QueuedIsKept, Moves
  <1> QED
    BY <1>1, <1>2, <1>3, <1>4 DEF Next, Step, BackgroundStep, HandlerStep

\* Every step leaves the active rows with the task that works on them.
LEMMA CarriedNext ==
    ASSUME Undisturbed, SafeInv, QueuedIsKept, ActiveJobIsCarried, [Next]_vars
    PROVE  ActiveJobIsCarried'
  <1> USE PcFacts, StatusFacts
  <1>0. /\ TypeInv /\ TypeInv' /\ task \in [Tasks -> TaskStates] /\ status \in [Jobs -> Statuses]
        /\ crashes \in Nat
    BY TypeNext DEF SafeInv, TypeInv, TypeOK
  <1>a. \A j \in Jobs : Active(j) => \E t \in Tasks : task[t].job = j /\ Carrying(t)
    BY DEF ActiveJobIsCarried, Carrying, CarryPcs
  <1>b. SUFFICES \A j \in Jobs : Active(j)' => \E t \in Tasks : task'[t].job = j /\ Carrying(t)'
    BY DEF ActiveJobIsCarried, Carrying, CarryPcs
  <1>1. CASE UNCHANGED vars
    BY <1>a, <1>1 DEF vars, Active, Carrying
  <1>2. CASE Crash
    BY <1>0, <1>2 DEF Crash, Undisturbed
  <1>3. ASSUME NEW t \in Tasks, HandlerStep(t), NEW j \in Jobs, Active(j)'
        PROVE  \E u \in Tasks : task'[u].job = j /\ Carrying(u)'
    <2>1. HandlerEffect(t)
      BY <1>0, <1>3, HandlerMoves
    <2>2. CASE Active(j)
      BY <1>a, <2>1, <2>2 DEF HandlerEffect, Carrying
    <2>3. CASE ~Active(j)
      <3>1. Launches(t) /\ task[t].job = j
        BY <1>3, <2>1, <2>3 DEF HandlerEffect, Handles, Launches, Active
      <3> QED
        BY <3>1 DEF Launches, Carrying
    <2> QED
      BY <2>2, <2>3
  <1>4. ASSUME NEW t \in Tasks, BackgroundStep(t), NEW j \in Jobs, Active(j)'
        PROVE  \E u \in Tasks : task'[u].job = j /\ Carrying(u)'
    <2>1. Moves(t) /\ task[t].job \in Jobs
      BY <1>0, <1>4, BackgroundMoves DEF Moves, Carrying, TypeInv, TasksHoldJobs
    <2>2. \A k \in Jobs \ {task[t].job} : status'[k] = status[k]
      <3>1. ASSUME NEW s \in ActiveStates \cup TerminalStates, SetStatus(task[t].job, s)
            PROVE  <2>2
        BY <1>0, <2>1, <3>1, SetStatusFacts
      <3> QED
        BY <2>1, <3>1 DEF Moves, SetActive
    <2>3. CASE j = task[t].job
      <3>1. ASSUME NEW s \in TerminalStates, SetStatus(j, s) PROVE FALSE
        BY <1>0, <1>4, <3>1, SetStatusFacts DEF Active, Undisturbed
      <3>2. Carrying(t)'
        BY <1>0, <1>4, <2>3, <3>1, EndIsReported
      <3> QED
        BY <2>1, <2>3, <3>2, IdleFacts DEF Moves, Carrying
    <2>4. CASE j # task[t].job
      <3>1. PICK u \in Tasks : task[u].job = j /\ Carrying(u)
        BY <1>4, <1>a, <2>2, <2>4 DEF Active
      <3> QED
        BY <2>1, <2>4, <3>1 DEF Moves, Carrying
    <2> QED
      BY <2>3, <2>4
  <1> QED
    BY <1>1, <1>2, <1>3, <1>4 DEF Next, Step, BackgroundStep, HandlerStep

\* No return path of execute, of a mode or of the exception handler leaves an
\* active row behind, for any number of documents, jobs and clients, as long as one
\* client retries at a time and the process, the database and the tenant's
\* configuration stay available.
THEOREM NoActiveJobIsLost ==
    ASSUME SoleRetrier, Undisturbed
    PROVE  Spec => []ActiveJobIsCarried
  <1>1. Init => SafeInv
    BY SafeInit
  <1>2. SafeInv /\ [Next]_vars => SafeInv'
    BY SafeNext
  <1>3. Init => QueuedIsKept /\ ActiveJobIsCarried
    BY IdleFacts, StatusFacts DEF Init, QueuedIsKept, ActiveJobIsCarried, Active
  <1>4. SafeInv /\ QueuedIsKept /\ [Next]_vars => QueuedIsKept'
    BY QueuedNext
  <1>5. SafeInv /\ QueuedIsKept /\ ActiveJobIsCarried /\ [Next]_vars => ActiveJobIsCarried'
    BY CarriedNext
  <1> QED
    BY <1>1, <1>2, <1>3, <1>4, <1>5, PTL DEF Spec

-----------------------------------------------------------------------------
(* A job moves forward.  The status that a run writes is ahead of the one  *)
(* in the row because the row still shows the stage the run is at: no      *)
(* other task writes it.                                                   *)

\* What the row shows while a run is at this point
StageOf(pc) ==
    CASE pc = "parse" -> "parsing"
      [] pc = "chunk" -> "chunking"
      [] pc = "embed" -> "embedding"
      [] OTHER -> "pending"

StagePcs == LaunchPcs \cup {"start", "parse", "chunk", "embed"}

StageReported ==
    ~RlsApplies =>
        \A t \in Tasks :
            /\ task[t].pc \in StagePcs => status[task[t].job] = StageOf(task[t].pc)
            /\ task[t].pc \in RetryPcs => status[task[t].job] \in {"failed", "partial"}

Forward(j) ==
    \/ status'[j] = status[j]
    \/ Rank[status[j]] < Rank[status'[j]]
    \/ status[j] \in {"failed", "partial"} /\ status'[j] = "pending"

\* The stages are ranked in the order of the pipeline.
LEMMA RankFacts ==
    /\ Rank["none"] = 0 /\ Rank["pending"] = 1 /\ Rank["parsing"] = 2
    /\ Rank["chunking"] = 3 /\ Rank["embedding"] = 4 /\ Rank["indexing"] = 5
    /\ \A s \in ActiveStates : Rank[s] \in 1 .. 5
    /\ \A s \in TerminalStates : Rank[s] = 6
  BY DEF Rank, Statuses, ActiveStates, TerminalStates

\* Only the row of one job changes, and it moves forward.
LEMMA OneMoves ==
    ASSUME NEW j \in Jobs, \A k \in Jobs \ {j} : status'[k] = status[k], Forward(j)
    PROVE  \A k \in Jobs : Forward(k)
  BY DEF Forward

\* What a background task writes, and where it is afterwards.
Writes(t, s, pc) ==
    /\ SetStatus(task[t].job, s)
    /\ task'[t].pc = pc
    /\ \/ task[t].pc = "start" /\ s = "embedding" /\ pc = "embed"
       \/ task[t].pc = "start" /\ s = "parsing" /\ pc = "parse"
       \/ task[t].pc = "parse" /\ s = "indexing" /\ pc = "metadata"
       \/ task[t].pc = "parse" /\ s = "parsing" /\ pc = "parse"
       \/ task[t].pc = "parse" /\ s = "chunking" /\ pc = "chunk"
       \/ task[t].pc = "chunk" /\ s = "embedding" /\ pc = "embed"
       \/ task[t].pc = "embed" /\ s = "indexing" /\ pc = "upsert"
       \/ s \in TerminalStates /\ pc = "idle"

\* The stages of execute and of the four modes, in the order of the code.
LEMMA BackgroundWrites ==
    ASSUME TypeInv, NEW t \in Tasks, BackgroundStep(t)
    PROVE  \/ \E s \in Statuses, pc \in Pcs : Writes(t, s, pc)
           \/ /\ status' = status
              /\ task'[t].pc \in StagePcs =>
                    StageOf(task'[t].pc) = StageOf(task[t].pc) /\ task[t].pc \in StagePcs
  <1> USE PcFacts, StatusFacts, IdleFacts DEF At
  <1>0. task \in [Tasks -> TaskStates]
    BY DEF TypeInv, TypeOK
  <1>s. /\ {"execute", "load_config", "start", "parse", "chunk", "embed"} = StagePcs
        /\ StageOf("execute") = "pending" /\ StageOf("load_config") = "pending"
        /\ StageOf("start") = "pending"
    BY DEF StagePcs, LaunchPcs, StageOf
  <1>1. CASE Execute(t)
    <2>1. CASE Return(t)
      BY <1>0, <1>1, <1>s, <2>1, ReturnTask DEF Execute
    <2>2. CASE task' = [task EXCEPT ![t].pc = "load_config", ![t].mode = pending[task[t].job]]
      <3>1. task'[t].pc = "load_config"
        BY <1>0, <2>2 DEF TaskStates
      <3> QED
        BY <1>1, <1>s, <3>1 DEF Execute
    <2> QED
      BY <1>1, <2>1, <2>2 DEF Execute
  <1>2. CASE LoadConfig(t)
    BY <1>0, <1>2, <1>s, GotoTask DEF LoadConfig
  <1>3. CASE Start(t)
    <2>1. CASE SetActive(task[t].job, "embedding") /\ Goto(t, "embed")
      <3>1. task'[t].pc = "embed" /\ task[t].pc = "start"
        BY <1>0, <1>3, <2>1, GotoTask DEF Start
      <3>2. Writes(t, "embedding", "embed")
        BY <2>1, <3>1 DEF Writes, SetActive
      <3> QED
        BY <3>2
    <2>2. CASE SetActive(task[t].job, "parsing")
               /\ task' = [task EXCEPT ![t].pc = "parse", ![t].mode = "full"]
      <3>1. task'[t].pc = "parse"
        BY <1>0, <2>2 DEF TaskStates
      <3> QED
        BY <1>3, <2>2, <3>1 DEF Start, Writes, SetActive
    <2>3. CASE SetActive(task[t].job, "parsing") /\ Goto(t, "parse")
      BY <1>0, <1>3, <2>3, GotoTask DEF Start, Writes, SetActive
    <2> QED
      BY <1>3, <2>1, <2>2, <2>3 DEF Start
  <1>4. CASE Parse(t)
    <2>1. CASE SetActive(task[t].job, "indexing") /\ Goto(t, "metadata")
      BY <1>0, <1>4, <2>1, GotoTask DEF Parse, Writes, SetActive
    <2>2. CASE SetActive(task[t].job, "parsing") /\ task' = [task EXCEPT ![t].mode = "full"]
      <3>1. task'[t].pc = "parse"
        BY <1>0, <1>4, <2>2 DEF Parse, TaskStates
      <3> QED
        BY <1>4, <2>2, <3>1 DEF Parse, Writes, SetActive
    <2>3. CASE SetActive(task[t].job, "chunking") /\ Goto(t, "chunk")
      BY <1>0, <1>4, <2>3, GotoTask DEF Parse, Writes, SetActive
    <2> QED
      BY <1>4, <2>1, <2>2, <2>3 DEF Parse
  <1>5. CASE Chunk(t)
    BY <1>0, <1>5, GotoTask DEF Chunk, Writes, SetActive
  <1>6. CASE Embed(t)
    <2>1. task'[t].pc = "upsert"
      BY <1>0, <1>6 DEF Embed, TaskStates
    <2>2. CASE UNCHANGED status
      BY <1>s, <2>1, <2>2
    <2>3. CASE SetActive(task[t].job, "indexing")
      BY <1>6, <2>1, <2>3 DEF Embed, Writes, SetActive
    <2> QED
      BY <1>6, <2>2, <2>3 DEF Embed
  <1>7. CASE Upsert(t) \/ WriteDoc(t) \/ WriteChunks(t) \/ UpdateMetadata(t)
    <2>1. /\ status' = status
          /\ \E p \in {"metadata", "write_doc", "write_chunks", "finish"} : Goto(t, p)
      BY <1>7 DEF Upsert, WriteDoc, WriteChunks, UpdateMetadata
    <2> QED
      BY <1>0, <1>s, <2>1, GotoTask
  <1>8. CASE FailFast(t) \/ Finish(t) \/ Fail(t)
    <2>1. Return(t) /\ \E s \in TerminalStates : SetStatus(task[t].job, s)
      BY <1>8 DEF FailFast, Finish, Fail
    <2>2. task'[t].pc = "idle"
      BY <1>0, <2>1, ReturnTask
    <2> QED
      BY <2>1, <2>2 DEF Writes
  <1>9. CASE Abandon(t)
    BY <1>0, <1>9, <1>s, ReturnTask DEF Abandon
  <1> QED
    BY <1>1, <1>2, <1>3, <1>4, <1>5, <1>6, <1>7, <1>8, <1>9 DEF BackgroundStep

\* update: whatever a step writes to a row is ahead of what the row shows, and the
\* row keeps showing the stage of its run.
LEMMA ForwardNext ==
    ASSUME SafeInv, SafeInv', StageReported, [Next]_vars
    PROVE  StageReported' /\ \A j \in Jobs : Forward(j)
  <1> USE PcFacts, StatusFacts, IdleFacts
  <1>0. /\ TypeInv /\ TypeInv' /\ task \in [Tasks -> TaskStates] /\ status \in [Jobs -> Statuses]
    BY DEF SafeInv, TypeInv, TypeOK
  <1>s. /\ StagePcs \subseteq CarryPcs /\ "execute" \in StagePcs /\ StageOf("execute") = "pending"
        /\ "idle" \notin StagePcs
    BY DEF StagePcs, CarryPcs, LaunchPcs, RunPcs, StageOf
  <1>1. CASE UNCHANGED vars
    BY <1>1 DEF vars, StageReported, Forward
  <1>2. CASE Crash
    BY <1>2, <1>s DEF Crash, StageReported, Forward
  <1>3. ASSUME NEW t \in Tasks, HandlerStep(t)
        PROVE  StageReported' /\ \A j \in Jobs : Forward(j)
    <2>1. HandlerEffect(t)
      BY <1>0, <1>3, HandlerMoves
    <2>2. CASE Handles(t)
      <3>1. \A j \in Jobs : Forward(j)
        BY <2>2 DEF Handles, Forward
      <3>2. ~RlsApplies /\ task'[t].pc \in RetryPcs => status[task'[t].job] \in {"failed", "partial"}
        BY <2>2 DEF Handles, StageReported, RetryPcs
      <3>3. StageReported'
        BY <1>s, <2>1, <2>2, <3>2 DEF HandlerEffect, Handles, StageReported
      <3> QED
        BY <3>1, <3>3
    <2>3. CASE Launches(t)
      <3> DEFINE j == task[t].job
      <3>1. /\ task[t].pc \in {"register", "retry_reset"} /\ j \in Jobs
            /\ task'[t].pc = "execute" /\ task'[t].job = j
            /\ status'[j] \in {"pending", status[j]} /\ (~RlsApplies => status'[j] = "pending")
            /\ \A k \in Jobs \ {j} : status'[k] = status[k]
        BY <2>3 DEF Launches
      <3>2. CASE task[t].pc = "register"
        <4>1. status[j] = "none" /\ \A u \in Tasks : task[u].job = j => t = u
          BY <3>2 DEF SafeInv, RegisterAlone
        <4>2. Forward(j)
          BY <3>1, <4>1, RankFacts DEF Forward
        <4>3. StageReported'
          BY <1>s, <2>1, <3>1, <4>1, <1>0
             DEF HandlerEffect, StageReported, TypeInv, TasksHoldJobs
        <4> QED
          BY <3>1, <4>2, <4>3, OneMoves
      <3>3. CASE task[t].pc = "retry_reset"
        <4>1. ~RlsApplies /\ status[j] \in {"failed", "partial"} /\ status[j] \in TerminalStates
          BY <3>3 DEF SafeInv, RetryIsTerminal, StageReported
        <4>2. Forward(j)
          BY <3>1, <4>1 DEF Forward
        <4>3. \A u \in Tasks \ {t} : task[u].pc \in CarryPcs => task[u].job # j
          BY <4>1 DEF SafeInv, CarriedIsActive, Carrying, Active
        <4>4. \A u \in Tasks \ {t} : task'[u].pc \in RetryPcs => task'[u].job # j
          BY <3>1, <4>1 DEF SafeInv, RetryIsTerminal
        <4>5. StageReported'
          BY <1>s, <2>1, <3>1, <4>3, <4>4, <1>0
             DEF HandlerEffect, StageReported, TypeInv, TasksHoldJobs
        <4> QED
          BY <3>1, <4>2, <4>5, OneMoves
      <3> QED
        BY <3>1, <3>2, <3>3
    <2> QED
      BY <2>1, <2>2, <2>3 DEF HandlerEffect
  <1>4. ASSUME NEW t \in Tasks, BackgroundStep(t)
        PROVE  StageReported' /\ \A j \in Jobs : Forward(j)
    <2> DEFINE j == task[t].job
    <2>1. /\ Moves(t) /\ Carrying(t) /\ j \in Jobs /\ Active(j)
      BY <1>0, <1>4, BackgroundMoves
         DEF Moves, Carrying, TypeInv, TasksHoldJobs, CarriedIsActive, SafeInv
    <2>2. /\ \A u \in Tasks \ {t} : task'[u] = task[u]
          /\ task'[t].pc \in CarryPcs => task'[t].job = j
          /\ task'[t].pc \notin RetryPcs
      BY <2>1 DEF Moves, Carrying
    <2>3. \A u \in Tasks \ {t} :
            /\ task[u].pc \in CarryPcs \cup RetryPcs => task[u].job \in Jobs
            /\ task[u].pc \in CarryPcs => task[u].job # j
            /\ task[u].pc \in RetryPcs => task[u].job # j
      BY <1>0, <2>1 DEF SafeInv, CarryAlone, Carrying, RetryIsTerminal, Active, TypeInv,
         TasksHoldJobs
    <2>4. CASE /\ status' = status
               /\ task'[t].pc \in StagePcs =>
                    StageOf(task'[t].pc) = StageOf(task[t].pc) /\ task[t].pc \in StagePcs
      <3>1. StageReported'
        BY <1>s, <2>2, <2>4 DEF StageReported
      <3> QED
        BY <2>4, <3>1 DEF Forward
    <2>5. ASSUME NEW s \in Statuses, NEW pc \in Pcs, Writes(t, s, pc)
          PROVE  StageReported' /\ \A k \in Jobs : Forward(k)
      <3>1. /\ task'[t].pc = pc
            /\ status'[j] = IF RlsApplies THEN status[j] ELSE s
            /\ \A k \in Jobs \ {j} : status'[k] = status[k]
        BY <1>0, <2>1, <2>5, SetStatusFacts DEF Writes
      <3>2. /\ pc \in StagePcs => s = StageOf(pc)
            /\ ~RlsApplies => s = status[j] \/ Rank[status[j]] < Rank[s]
        <4>1. CASE s \in TerminalStates /\ pc = "idle"
          <5>1. Rank[s] = 6 /\ Rank[status[j]] \in 1 .. 5
            BY <2>1, <4>1, RankFacts DEF Active
          <5> QED
            BY <1>s, <4>1, <5>1
        <4>2. CASE ~(s \in TerminalStates /\ pc = "idle")
          <5>1. task[t].pc \in {"start", "parse", "chunk", "embed"}
            BY <2>5, <4>2 DEF Writes
          <5>2. ~RlsApplies => status[j] = StageOf(task[t].pc)
            BY <5>1 DEF StageReported, StagePcs
          <5>3. /\ StageOf("start") = "pending" /\ StageOf("parse") = "parsing"
                /\ StageOf("chunk") = "chunking" /\ StageOf("embed") = "embedding"
                /\ "metadata" \notin StagePcs /\ "upsert" \notin StagePcs
            BY DEF StageOf, StagePcs, LaunchPcs
          <5> QED
            BY <2>5, <4>2, <5>2, <5>3, RankFacts DEF Writes
        <4> QED
          BY <4>1, <4>2
      <3>3. Forward(j)
        BY <3>1, <3>2 DEF Forward
      <3>4. StageReported'
        BY <1>s, <2>2, <2>3, <3>1, <3>2 DEF StageReported
      <3> QED
        BY <2>1, <3>1, <3>3, <3>4, OneMoves
    <2> QED
      BY <1>0, <1>4, <2>4, <2>5, BackgroundWrites
  <1> QED
    BY <1>1, <1>2, <1>3, <1>4 DEF Next, Step, BackgroundStep, HandlerStep

\* A job moves forward only: a completed job is final, and nothing but a retry takes
\* a failed or partial one back to pending, with one client retrying at a time and
\* whatever fails or crashes.
THEOREM JobsMoveForward ==
    ASSUME SoleRetrier
    PROVE  Spec => StatusForward
  <1>1. Init => SafeInv /\ StageReported
    BY SafeInit, IdleFacts, PcFacts DEF Init, StageReported, StagePcs, LaunchPcs
  <1>2. SafeInv /\ [Next]_vars => SafeInv'
    BY SafeNext
  <1>3. SafeInv /\ SafeInv' /\ StageReported /\ [Next]_vars
          => StageReported' /\ \A j \in Jobs : Forward(j)
    BY ForwardNext
  <1>4. (\A j \in Jobs : Forward(j)) =>
          [\A j \in Jobs :
            \/ status'[j] = status[j]
            \/ Rank[status[j]] < Rank[status'[j]]
            \/ status[j] \in {"failed", "partial"} /\ status'[j] = "pending"]_status
    BY DEF Forward
  <1> QED
    BY <1>1, <1>2, <1>3, <1>4, PTL DEF Spec, StatusForward
=============================================================================
