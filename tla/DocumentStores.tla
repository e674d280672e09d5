--------------------------- MODULE DocumentStores ---------------------------
(***************************************************************************)
(* One document version in its five stores, and the services that write    *)
(* them: the documents, chunks and chunks_archive tables, the points of    *)
(* the Qdrant collection, and the stored file.                             *)
(*                                                                         *)
(*   rag_core/services/indexing_service.py    upload and reindex           *)
(*   app/services/document_approval_service.py, document_metadata_service  *)
(*   app/services/hard_delete_service.py                                   *)
(*   app/services/archival_worker.py, chunks_archiver.py                   *)
(*                                                                         *)
(* No transaction spans two stores.  A step is one committed transaction,  *)
(* one call of the vector store or one call of the object storage; the     *)
(* archiver's transaction is two steps, because its INSERT and its UPDATE  *)
(* take a snapshot each (READ COMMITTED).                                  *)
(***************************************************************************)

CONSTANTS
    Chunks,  \* chunk ids: <doc_id>:<doc_version>:<parser_version>:chunk:<index>
    Splits,  \* the sets of chunk ids the parser and the chunker may produce
    Slots,   \* requests, background tasks and workers that run concurrently
    Does,    \* the operations that each slot may start
    Metas,   \* the metadata that an upload may carry
    Faults,  \* the services that may raise
    NoRow

Kinds == {"upload", "reindex", "parser_only", "embedding_only",
          "approve", "patch", "delete", "archive"}

Approvals == {"draft", "approved", "archived"}

\* What the search filter and the archiver look at: the approval, whether
\* valid_until is past, and whether the acl names anybody.
Meta == [approval: Approvals, past: BOOLEAN, acl: BOOLEAN]

\* Table documents has no acl column.
DocRow == [approval: Approvals, past: BOOLEAN]

ChunkRow == [approval: Approvals, past: BOOLEAN, acl: BOOLEAN, archived: BOOLEAN]

ASSUME StoresAssumption ==
    /\ Splits \subseteq SUBSET Chunks
    /\ Does \in [Slots -> SUBSET Kinds]
    /\ Metas \subseteq Meta
    /\ Faults \subseteq {"parse", "db", "vector", "storage"}
    /\ NoRow \notin DocRow \cup ChunkRow

VARIABLES
    doc,     \* the row of table documents
    rows,    \* the rows of table chunks
    cold,    \* the chunk ids that have a copy in chunks_archive
    points,  \* the points of the collection, with their payload
    file,    \* is the uploaded file in the storage
    op       \* what each slot is doing

vars == <<doc, rows, cold, points, file, op>>

IndexPcs == {"list", "parse", "upsert", "write_doc", "write_rows"}
SyncPcs == {"sync_list", "sync_rows", "sync_points"}
DeletePcs == {"delete_points", "delete_file", "delete_doc"}
ArchivePcs == {"copy", "mark", "sync_archived"}
Pcs == {"idle"} \cup IndexPcs \cup SyncPcs \cup DeletePcs \cup ArchivePcs

\* ids are the chunk ids an operation remembers between two calls, staged the
\* copies that the archiver has inserted and not committed.
OpStates == [kind: Kinds, pc: Pcs, meta: Meta, ids: SUBSET Chunks,
             staged: SUBSET Chunks]

NoMeta == [approval |-> "draft", past |-> FALSE, acl |-> FALSE]

Idle == [kind |-> "upload", pc |-> "idle", meta |-> NoMeta, ids |-> {}, staged |-> {}]

TypeOK ==
    /\ doc \in DocRow \cup {NoRow}
    /\ rows \in [Chunks -> ChunkRow \cup {NoRow}]
    /\ cold \subseteq Chunks
    /\ points \in [Chunks -> ChunkRow \cup {NoRow}]
    /\ file \in BOOLEAN
    /\ op \in [Slots -> OpStates]

Init ==
    /\ doc = NoRow
    /\ rows = [c \in Chunks |-> NoRow]
    /\ cold = {}
    /\ points = [c \in Chunks |-> NoRow]
    /\ file = FALSE
    /\ op = [o \in Slots |-> Idle]

-----------------------------------------------------------------------------
At(o, pc) == op[o].pc = pc

Present(store) == {c \in Chunks : store[c] # NoRow}

Begin(o, k, pc, m, ids) ==
    /\ At(o, "idle")
    /\ k \in Does[o]
    /\ op' = [op EXCEPT ![o] = [kind |-> k, pc |-> pc, meta |-> m, ids |-> ids,
                                staged |-> {}]]

Goto(o, pc) == op' = [op EXCEPT ![o].pc = pc]

Return(o) == op' = [op EXCEPT ![o] = Idle]

\* IndexingJobs, SingleRun: one job at a time indexes the document
Indexing == \E o \in Slots : op[o].pc \in IndexPcs

\* What a request writes to a new row or payload: not archived
NewRow(m) == [approval |-> m.approval, past |-> m.past, acl |-> m.acl, archived |-> FALSE]

\* UPDATE ... WHERE chunk_id IN ids, or set_payload of the points ids: the
\* ones that are gone stay gone.
Update(store, ids, F(_)) ==
    [c \in Chunks |-> IF c \in ids /\ store[c] # NoRow THEN F(store[c]) ELSE store[c]]

-----------------------------------------------------------------------------
(* Indexing.                                                               *)

\* prepare_upload: the file is saved before the job is registered, so that
\* a 409 leaves the new file behind
Upload(o, m) ==
    /\ file' = TRUE
    /\ \/ ~Indexing /\ Begin(o, "upload", "parse", m, {})
       \/ /\ Indexing /\ At(o, "idle") /\ "upload" \in Does[o]
          /\ UNCHANGED op
    /\ UNCHANGED <<doc, rows, cold, points>>

\* prepare_reindex and retry_job: the metadata of the document row, and an
\* empty acl, are fixed here and written when the job runs
Reindex(o, k) ==
    /\ doc # NoRow
    /\ ~Indexing
    /\ Begin(o, k, IF k = "reindex" THEN "parse" ELSE "list",
             [approval |-> doc.approval, past |-> doc.past, acl |-> FALSE], {})
    /\ UNCHANGED <<doc, rows, cold, points, file>>

\* embedding_only and parser_only list the chunk rows first; without any the
\* run is a full one.  parser_only then updates page metadata only.
ListRows(o) ==
    /\ At(o, "list")
    /\ \/ Present(rows) = {} /\ Goto(o, "parse")
       \/ /\ Present(rows) # {}
          /\ IF op[o].kind = "parser_only" THEN Return(o)
             ELSE op' = [op EXCEPT ![o].pc = "upsert", ![o].ids = Present(rows)]
    /\ UNCHANGED <<doc, rows, cold, points, file>>

\* parse, chunk and embed: everything before the first write
Parse(o) ==
    /\ At(o, "parse")
    /\ file
    /\ \E ids \in Splits :
          op' = [op EXCEPT ![o].pc = "upsert", ![o].ids = ids, ![o].kind = "reindex"]
    /\ UNCHANGED <<doc, rows, cold, points, file>>

\* _upsert_to_qdrant replaces the payload of the points it names.
\* embedding_only leaves the rows alone.
Upsert(o) ==
    /\ At(o, "upsert")
    /\ points' = [c \in Chunks |-> IF c \in op[o].ids THEN NewRow(op[o].meta) ELSE points[c]]
    /\ IF op[o].kind = "embedding_only" THEN Return(o) ELSE Goto(o, "write_doc")
    /\ UNCHANGED <<doc, rows, cold, file>>

\* _write_chunks_and_document: document_repo.upsert ...
WriteDoc(o) ==
    /\ At(o, "write_doc")
    /\ doc' = [approval |-> op[o].meta.approval, past |-> op[o].meta.past]
    /\ Goto(o, "write_rows")
    /\ UNCHANGED <<rows, cold, points, file>>

\* ... and chunk_repo.replace_chunks
WriteRows(o) ==
    /\ At(o, "write_rows")
    /\ rows' = [c \in Chunks |-> IF c \in op[o].ids THEN NewRow(op[o].meta) ELSE NoRow]
    /\ Return(o)
    /\ UNCHANGED <<doc, cold, points, file>>

-----------------------------------------------------------------------------
(* set_approval and the metadata update: document, rows, points.           *)

SetField(k, m, r) ==
    IF k = "approve" THEN [r EXCEPT !.approval = m.approval]
    ELSE [r EXCEPT !.past = m.past]

UpdateDoc(o, k, m) ==
    /\ doc # NoRow
    /\ doc' = SetField(k, m, doc)
    /\ Begin(o, k, "sync_list", m, {})
    /\ UNCHANGED <<rows, cold, points, file>>

\* PATCH /documents/{doc_id}/approval: update_approval; no row is a 404
Approve(o, a) == UpdateDoc(o, "approve", [NoMeta EXCEPT !.approval = a])

\* PATCH /documents/{doc_id} with a valid_until: update_partial.  What update
\* reads before it only serves the validation; no row is a 404.
Patch(o, past) == UpdateDoc(o, "patch", [NoMeta EXCEPT !.past = past])

\* Mutant: list_by_doc leaves out the archived rows
SyncListActive(o) ==
    LET ids == {c \in Present(rows) : ~rows[c].archived}
    IN  /\ At(o, "sync_list")
        /\ IF ids = {} THEN Return(o)
           ELSE op' = [op EXCEPT ![o].pc = "sync_rows", ![o].ids = ids]
        /\ UNCHANGED <<doc, rows, cold, points, file>>

\* chunk_repo.list_by_doc
SyncList(o) ==
    /\ At(o, "sync_list")
    /\ IF Present(rows) = {} THEN Return(o)
       ELSE op' = [op EXCEPT ![o].pc = "sync_rows", ![o].ids = Present(rows)]
    /\ UNCHANGED <<doc, rows, cold, points, file>>

\* Mutant: rows only, no set_payload
SyncRowsOnly(o) ==
    /\ At(o, "sync_rows")
    /\ rows' = Update(rows, op[o].ids, LAMBDA r : SetField(op[o].kind, op[o].meta, r))
    /\ Return(o)
    /\ UNCHANGED <<doc, cold, points, file>>

\* Mutant: a paged list_by_doc that never reaches its end
SyncRowsAgain(o) ==
    /\ At(o, "sync_rows")
    /\ rows' = Update(rows, op[o].ids, LAMBDA r : SetField(op[o].kind, op[o].meta, r))
    /\ Goto(o, "sync_list")
    /\ UNCHANGED <<doc, cold, points, file>>

\* chunk_repo.update_metadata
SyncRows(o) ==
    /\ At(o, "sync_rows")
    /\ rows' = Update(rows, op[o].ids, LAMBDA r : SetField(op[o].kind, op[o].meta, r))
    /\ Goto(o, "sync_points")
    /\ UNCHANGED <<doc, cold, points, file>>

\* vector_store.set_payload; an error is logged and the request succeeds
SyncPoints(o) ==
    /\ At(o, "sync_points")
    /\ \/ points' = Update(points, op[o].ids,
                           LAMBDA r : SetField(op[o].kind, op[o].meta, r))
       \/ "vector" \in Faults /\ UNCHANGED points
    /\ Return(o)
    /\ UNCHANGED <<doc, rows, cold, file>>

-----------------------------------------------------------------------------
(* Hard delete.  A step that raises is a dead letter and the next one runs. *)

\* Mutant: chunks_archive is forgotten
DeleteRowsKeepArchive(o) ==
    /\ rows' = [c \in Chunks |-> NoRow]
    /\ Begin(o, "delete", IF Present(rows) = {} THEN "delete_file"
                          ELSE "delete_points", NoMeta, Present(rows))
    /\ UNCHANGED <<doc, cold, points, file>>

\* chunk_repo.delete_by_doc; the archive is cleared only if there are rows
DeleteRows(o) ==
    /\ \/ /\ rows' = [c \in Chunks |-> NoRow]
          /\ cold' = IF Present(rows) = {} THEN cold ELSE {}
          /\ Begin(o, "delete", IF Present(rows) = {} THEN "delete_file"
                                ELSE "delete_points", NoMeta, Present(rows))
       \/ /\ "db" \in Faults
          /\ Begin(o, "delete", "delete_file", NoMeta, {})
          /\ UNCHANGED <<rows, cold>>
    /\ UNCHANGED <<doc, points, file>>

DeletePoints(o) ==
    /\ At(o, "delete_points")
    /\ \/ points' = [c \in Chunks |-> IF c \in op[o].ids THEN NoRow ELSE points[c]]
       \/ "vector" \in Faults /\ UNCHANGED points
    /\ Goto(o, "delete_file")
    /\ UNCHANGED <<doc, rows, cold, file>>

DeleteFile(o) ==
    /\ At(o, "delete_file")
    /\ \/ file' = FALSE
       \/ "storage" \in Faults /\ UNCHANGED file
    /\ Goto(o, "delete_doc")
    /\ UNCHANGED <<doc, rows, cold, points>>

DeleteDoc(o) ==
    /\ At(o, "delete_doc")
    /\ \/ doc' = NoRow
       \/ "db" \in Faults /\ UNCHANGED doc
    /\ Return(o)
    /\ UNCHANGED <<rows, cold, points, file>>

-----------------------------------------------------------------------------
(* The archival worker.                                                    *)

\* find_candidates; none ends the run for this tenant
FindCandidates(o) ==
    LET ids == {c \in Present(rows) : rows[c].past /\ ~rows[c].archived}
    IN  /\ ids # {}
        /\ Begin(o, "archive", "copy", NoMeta, ids)
        /\ UNCHANGED <<doc, rows, cold, points, file>>

\* archive: INSERT INTO chunks_archive ... SELECT, visible after the commit
ArchiveCopy(o) ==
    /\ At(o, "copy")
    /\ op' = [op EXCEPT ![o].pc = "mark",
                        ![o].staged = {c \in op[o].ids \cap Present(rows) : ~rows[c].archived}]
    /\ UNCHANGED <<doc, rows, cold, points, file>>

\* Mutant: the INSERT is lost
ArchiveMarkOnly(o) ==
    LET marked == {c \in op[o].ids \cap Present(rows) : ~rows[c].archived}
    IN  /\ At(o, "mark")
        /\ rows' = Update(rows, marked, LAMBDA r : [r EXCEPT !.archived = TRUE])
        /\ op' = [op EXCEPT ![o].pc = "sync_archived", ![o].ids = marked]
        /\ UNCHANGED <<doc, cold, points, file>>

\* archive: UPDATE chunks SET archived_at ... RETURNING chunk_id, and commit
ArchiveMark(o) ==
    LET marked == {c \in op[o].ids \cap Present(rows) : ~rows[c].archived}
    IN  /\ At(o, "mark")
        /\ rows' = Update(rows, marked, LAMBDA r : [r EXCEPT !.archived = TRUE])
        /\ cold' = cold \cup op[o].staged
        /\ IF marked = {} THEN Return(o)
           ELSE op' = [op EXCEPT ![o].pc = "sync_archived", ![o].ids = marked]
        /\ UNCHANGED <<doc, points, file>>

\* set_payload(archived = True); an error is logged
SyncArchived(o) ==
    /\ At(o, "sync_archived")
    /\ \/ points' = Update(points, op[o].ids, LAMBDA r : [r EXCEPT !.archived = TRUE])
       \/ "vector" \in Faults /\ UNCHANGED points
    /\ Return(o)
    /\ UNCHANGED <<doc, rows, cold, file>>

-----------------------------------------------------------------------------
\* The exceptions that end an operation where it stands: a file that is gone
\* or that does not parse, chunk or embed, a statement, or the upsert
Raise(o) ==
    /\ \/ At(o, "parse") /\ (~file \/ "parse" \in Faults)
       \/ At(o, "upsert") /\ "vector" \in Faults
       \/ /\ op[o].pc \in {"list", "write_doc", "write_rows", "sync_list", "sync_rows",
                           "copy", "mark"}
          /\ "db" \in Faults
    /\ Return(o)
    /\ UNCHANGED <<doc, rows, cold, points, file>>

Request(o) ==
    \/ \E m \in Metas : Upload(o, m)
    \/ \E k \in {"reindex", "parser_only", "embedding_only"} : Reindex(o, k)
    \/ \E a \in Approvals : Approve(o, a)
    \/ \E past \in BOOLEAN : Patch(o, past)
    \/ DeleteRows(o)
    \/ FindCandidates(o)

Step(o) ==
    \/ ListRows(o) \/ Parse(o) \/ Upsert(o) \/ WriteDoc(o) \/ WriteRows(o)
    \/ SyncList(o) \/ SyncRows(o) \/ SyncPoints(o)
    \/ DeletePoints(o) \/ DeleteFile(o) \/ DeleteDoc(o)
    \/ ArchiveCopy(o) \/ ArchiveMark(o) \/ SyncArchived(o)
    \/ Raise(o)

Next == \E o \in Slots : Request(o) \/ Step(o)

Spec == Init /\ [][Next]_vars

\* Every call returns or raises; nobody has to send requests.
FairSpec == Spec /\ \A o \in Slots : WF_vars(Step(o))

-----------------------------------------------------------------------------
(* Properties.                                                             *)

Quiet == \A o \in Slots : At(o, "idle")

\* build_qdrant_acl_filter lets some user see the point
Served(c) ==
    /\ points[c] # NoRow
    /\ points[c].approval = "approved"
    /\ ~points[c].past
    /\ points[c].acl
    /\ ~points[c].archived

Withdrawn == doc # NoRow /\ doc.approval # "approved"

\* ADR-012, the payload-only sync: between operations every chunk row has the
\* approval and the validity of its document, and every point the payload of
\* its row; search decides on the payload alone.
LayersAgree ==
    Quiet => \A c \in Chunks :
        /\ points[c] = rows[c]
        /\ rows[c] # NoRow => /\ doc # NoRow
                              /\ rows[c].approval = doc.approval
                              /\ rows[c].past = doc.past

\* The two tables agree even when the vector store, the parser or the storage
\* fails in the middle of an upload, a reindex, an approval or a delete, and
\* while the archival worker runs.
RowsFollowDoc ==
    Quiet => \A c \in Chunks : rows[c] # NoRow =>
        /\ doc # NoRow
        /\ rows[c].approval = doc.approval
        /\ rows[c].past = doc.past

\* A hard delete leaves nothing: without a document row there are no chunks, no
\* archived copies, no points and no file.
HardDeleteIsComplete ==
    Quiet /\ doc = NoRow =>
        /\ Present(rows) = {}
        /\ Present(points) = {}
        /\ cold = {}
        /\ ~file

\* The archiver moves: a row it has marked has its copy in chunks_archive.
ArchivedHasColdCopy ==
    \A c \in Present(rows) : rows[c].archived => c \in cold

\* A document whose approval is taken back stops being served.
WithdrawnIsHidden == Withdrawn ~> (~Withdrawn \/ \A c \in Chunks : ~Served(c))
=============================================================================
