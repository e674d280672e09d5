----------------------- MODULE DocumentStores_proofs -----------------------
(***************************************************************************)
(* Type correctness of the document stores; the agreement of the documents *)
(* and chunks tables under one administrator and any number of archival    *)
(* workers; the cold copies of archived rows under any number of both; and *)
(* the agreement of all stores, and their being empty after a hard delete, *)
(* for requests that come one at a time.  For any chunks and metadata.     *)
(***************************************************************************)
EXTENDS DocumentStores, TLAPS

\* The points of control are distinct strings.
LEMMA PcFacts ==
    /\ "idle" \in Pcs /\ IndexPcs \subseteq Pcs /\ SyncPcs \subseteq Pcs
    /\ DeletePcs \subseteq Pcs /\ ArchivePcs \subseteq Pcs
    /\ "list" \in IndexPcs /\ "parse" \in IndexPcs /\ "upsert" \in IndexPcs
    /\ "write_doc" \in IndexPcs /\ "write_rows" \in IndexPcs
    /\ "sync_list" \in SyncPcs /\ "sync_rows" \in SyncPcs /\ "sync_points" \in SyncPcs
    /\ "delete_points" \in DeletePcs /\ "delete_file" \in DeletePcs
    /\ "delete_doc" \in DeletePcs
    /\ "copy" \in ArchivePcs /\ "mark" \in ArchivePcs /\ "sync_archived" \in ArchivePcs
  BY DEF Pcs, IndexPcs, SyncPcs, DeletePcs, ArchivePcs

\* The state of a slot at rest is a state of a slot.
LEMMA IdleFacts ==
    /\ NoMeta \in Meta /\ Idle \in OpStates /\ Idle.pc = "idle"
    /\ \A x \in Approvals : [NoMeta EXCEPT !.approval = x] \in Meta
    /\ \A b \in BOOLEAN : [NoMeta EXCEPT !.past = b] \in Meta
  BY PcFacts DEF Idle, NoMeta, Meta, OpStates, Kinds, Approvals

\* Begin, Goto and Return change one slot.
LEMMA BeginOp ==
    ASSUME op \in [Slots -> OpStates], NEW o \in Slots, NEW k \in Kinds, NEW p \in Pcs,
           NEW m \in Meta, NEW ids \in SUBSET Chunks, Begin(o, k, p, m, ids)
    PROVE  /\ op' \in [Slots -> OpStates]
           /\ op[o].pc = "idle" /\ k \in Does[o]
           /\ op'[o].kind = k /\ op'[o].pc = p /\ op'[o].meta = m /\ op'[o].ids = ids
           /\ \A u \in Slots \ {o} : op'[u] = op[u]
  <1>1. [kind |-> k, pc |-> p, meta |-> m, ids |-> ids, staged |-> {}] \in OpStates
    BY DEF OpStates
  <1> QED
    BY <1>1 DEF Begin, At

\* Goto changes the point of control of one slot.
LEMMA GotoOp ==
    ASSUME op \in [Slots -> OpStates], NEW o \in Slots, NEW p \in Pcs, Goto(o, p)
    PROVE  /\ op' \in [Slots -> OpStates]
           /\ op'[o].kind = op[o].kind /\ op'[o].pc = p /\ op'[o].meta = op[o].meta
           /\ op'[o].ids = op[o].ids
           /\ \A u \in Slots \ {o} : op'[u] = op[u]
  BY DEF Goto, OpStates

\* Return puts one slot to rest.
LEMMA ReturnOp ==
    ASSUME op \in [Slots -> OpStates], NEW o \in Slots, Return(o)
    PROVE  /\ op' \in [Slots -> OpStates]
           /\ op'[o] = Idle
           /\ \A u \in Slots \ {o} : op'[u] = op[u]
  BY IdleFacts DEF Return

\* The rows and payloads that are written have the type of a row.
LEMMA RowFacts ==
    /\ NoRow \notin DocRow /\ NoRow \notin ChunkRow
    /\ \A m \in Meta : NewRow(m) \in ChunkRow
    /\ \A m \in Meta : [approval |-> m.approval, past |-> m.past] \in DocRow
    /\ \A m \in Meta, k \in Kinds, r \in ChunkRow : SetField(k, m, r) \in ChunkRow
    /\ \A m \in Meta, k \in Kinds, r \in DocRow : SetField(k, m, r) \in DocRow
    /\ \A r \in ChunkRow : [r EXCEPT !.archived = TRUE] \in ChunkRow
  BY StoresAssumption DEF NewRow, Meta, DocRow, ChunkRow, SetField


-----------------------------------------------------------------------------
(* Type correctness: TypeOK is inductive.                                  *)

\* The initial state is well typed.
LEMMA TypeInit == Init => TypeOK
  BY IdleFacts DEF Init, TypeOK

\* Every step of every operation preserves the types.
LEMMA TypeNext == TypeOK /\ [Next]_vars => TypeOK'
  <1> SUFFICES ASSUME TypeOK, [Next]_vars PROVE TypeOK'
    OBVIOUS
  <1> USE PcFacts, IdleFacts, RowFacts
  <1>0. /\ op \in [Slots -> OpStates]
        /\ rows \in [Chunks -> ChunkRow \cup {NoRow}]
        /\ points \in [Chunks -> ChunkRow \cup {NoRow}]
        /\ \A o \in Slots : op[o].meta \in Meta /\ op[o].kind \in Kinds
                            /\ op[o].ids \subseteq Chunks /\ op[o].staged \subseteq Chunks
    BY DEF TypeOK, OpStates
  <1>1. CASE UNCHANGED vars
    BY <1>1 DEF TypeOK, vars
  <1>2. ASSUME NEW o \in Slots, Request(o) PROVE TypeOK'
    <2>0. Present(rows) \in SUBSET Chunks /\ {} \in SUBSET Chunks
      BY DEF Present
    <2>1. ASSUME NEW m \in Metas, Upload(o, m) PROVE TypeOK'
      <3>1. op' \in [Slots -> OpStates]
        <4>1. m \in Meta /\ "upload" \in Kinds
          BY StoresAssumption DEF Kinds
        <4> QED
          BY <1>0, <2>0, <2>1, <4>1, BeginOp DEF Upload
      <3> QED
        BY <2>1, <3>1 DEF Upload, TypeOK
    <2>2. ASSUME NEW k \in {"reindex", "parser_only", "embedding_only"}, Reindex(o, k)
          PROVE  TypeOK'
      <3> DEFINE m == [approval |-> doc.approval, past |-> doc.past, acl |-> FALSE]
                 p == IF k = "reindex" THEN "parse" ELSE "list"
      <3>1. m \in Meta /\ k \in Kinds /\ p \in Pcs
        BY <2>2 DEF Reindex, TypeOK, DocRow, Meta, Kinds
      <3>2. Begin(o, k, p, m, {})
        BY <2>2 DEF Reindex
      <3> HIDE DEF m, p
      <3>3. op' \in [Slots -> OpStates]
        BY <1>0, <2>0, <3>1, <3>2, BeginOp
      <3> QED
        BY <2>2, <3>3 DEF Reindex, TypeOK
    <2>3. ASSUME NEW k \in Kinds, NEW m \in Meta, UpdateDoc(o, k, m) PROVE TypeOK'
      <3>1. op' \in [Slots -> OpStates]
        BY <1>0, <2>0, <2>3, BeginOp DEF UpdateDoc
      <3>2. doc' \in DocRow
        BY <2>3 DEF UpdateDoc, TypeOK
      <3> QED
        BY <2>3, <3>1, <3>2 DEF UpdateDoc, TypeOK
    <2>4. ASSUME NEW x \in Approvals, Approve(o, x) PROVE TypeOK'
      BY <2>3, <2>4 DEF Approve, Kinds
    <2>5. ASSUME NEW b \in BOOLEAN, Patch(o, b) PROVE TypeOK'
      BY <2>3, <2>5 DEF Patch, Kinds
    <2>6. CASE DeleteRows(o)
      <3>1. "delete" \in Kinds
        BY DEF Kinds
      <3>2. op' \in [Slots -> OpStates]
        BY <1>0, <2>0, <2>6, <3>1, BeginOp DEF DeleteRows
      <3> QED
        BY <2>6, <3>2 DEF DeleteRows, TypeOK
    <2>7. CASE FindCandidates(o)
      <3> DEFINE ids == {c \in Present(rows) : rows[c].past /\ ~rows[c].archived}
      <3>1. "archive" \in Kinds /\ ids \in SUBSET Chunks
        BY DEF Kinds, Present
      <3>2. Begin(o, "archive", "copy", NoMeta, ids)
        BY <2>7 DEF FindCandidates
      <3> HIDE DEF ids
      <3>3. op' \in [Slots -> OpStates]
        BY <1>0, <3>1, <3>2, BeginOp
      <3> QED
        BY <2>7, <3>3 DEF FindCandidates, TypeOK
    <2> QED
      BY <1>2, <2>1, <2>2, <2>4, <2>5, <2>6, <2>7 DEF Request
  <1>3. ASSUME NEW o \in Slots, Step(o) PROVE TypeOK'
    <2>0. Present(rows) \subseteq Chunks
      BY DEF Present
    <2>1. CASE ListRows(o)
      <3>1. ASSUME op' = [op EXCEPT ![o].pc = "upsert", ![o].ids = Present(rows)]
            PROVE  op' \in [Slots -> OpStates]
        BY <1>0, <2>0, <3>1 DEF OpStates
      <3>2. op' \in [Slots -> OpStates]
        BY <1>0, <2>1, <3>1, GotoOp, ReturnOp DEF ListRows
      <3> QED
        BY <2>1, <3>2 DEF ListRows, TypeOK
    <2>2. CASE Parse(o)
      <3>1. PICK ids \in Splits :
               op' = [op EXCEPT ![o].pc = "upsert", ![o].ids = ids, ![o].kind = "reindex"]
        BY <2>2 DEF Parse
      <3>2. ids \in SUBSET Chunks /\ "reindex" \in Kinds
        BY StoresAssumption DEF Kinds
      <3>3. op' \in [Slots -> OpStates]
        BY <1>0, <3>1, <3>2 DEF OpStates
      <3> QED
        BY <2>2, <3>3 DEF Parse, TypeOK
    <2>3. CASE Upsert(o)
      <3>1. op' \in [Slots -> OpStates]
        BY <1>0, <2>3, GotoOp, ReturnOp DEF Upsert
      <3>2. points' \in [Chunks -> ChunkRow \cup {NoRow}]
        BY <1>0, <2>3 DEF Upsert
      <3> QED
        BY <2>3, <3>1, <3>2 DEF Upsert, TypeOK
    <2>4. CASE WriteDoc(o)
      <3>1. op' \in [Slots -> OpStates] /\ doc' \in DocRow
        BY <1>0, <2>4, GotoOp DEF WriteDoc
      <3> QED
        BY <2>4, <3>1 DEF WriteDoc, TypeOK
    <2>5. CASE WriteRows(o)
      <3>1. op' \in [Slots -> OpStates] /\ rows' \in [Chunks -> ChunkRow \cup {NoRow}]
        BY <1>0, <2>5, ReturnOp DEF WriteRows
      <3> QED
        BY <2>5, <3>1 DEF WriteRows, TypeOK
    <2>6. CASE SyncList(o)
      <3>1. ASSUME op' = [op EXCEPT ![o].pc = "sync_rows", ![o].ids = Present(rows)]
            PROVE  op' \in [Slots -> OpStates]
        BY <1>0, <2>0, <3>1 DEF OpStates
      <3>2. op' \in [Slots -> OpStates]
        BY <1>0, <2>6, <3>1, ReturnOp DEF SyncList
      <3> QED
        BY <2>6, <3>2 DEF SyncList, TypeOK
    <2>7. CASE SyncRows(o)
      <3>1. op' \in [Slots -> OpStates]
        BY <1>0, <2>7, GotoOp DEF SyncRows
      <3>2. rows' \in [Chunks -> ChunkRow \cup {NoRow}]
        BY <1>0, <2>7 DEF SyncRows, Update
      <3> QED
        BY <2>7, <3>1, <3>2 DEF SyncRows, TypeOK
    <2>8. CASE SyncPoints(o)
      <3>1. op' \in [Slots -> OpStates]
        BY <1>0, <2>8, ReturnOp DEF SyncPoints
      <3>2. points' \in [Chunks -> ChunkRow \cup {NoRow}]
        BY <1>0, <2>8 DEF SyncPoints, Update
      <3> QED
        BY <2>8, <3>1, <3>2 DEF SyncPoints, TypeOK
    <2>9. CASE DeletePoints(o) \/ DeleteFile(o)
      <3>1. op' \in [Slots -> OpStates]
        BY <1>0, <2>9, GotoOp DEF DeletePoints, DeleteFile
      <3> QED
        BY <1>0, <2>9, <3>1 DEF DeletePoints, DeleteFile, TypeOK
    <2>10. CASE DeleteDoc(o) \/ Raise(o)
      <3>1. op' \in [Slots -> OpStates]
        BY <1>0, <2>10, ReturnOp DEF DeleteDoc, Raise
      <3> QED
        BY <2>10, <3>1 DEF DeleteDoc, Raise, TypeOK
    <2>11. CASE ArchiveCopy(o)
      <3> DEFINE st == {c \in op[o].ids \cap Present(rows) : ~rows[c].archived}
      <3>1. st \in SUBSET Chunks
        BY <1>0
      <3>2. op' = [op EXCEPT ![o].pc = "mark", ![o].staged = st]
        BY <2>11 DEF ArchiveCopy
      <3> HIDE DEF st
      <3>3. op' \in [Slots -> OpStates]
        BY <1>0, <3>1, <3>2 DEF OpStates
      <3> QED
        BY <2>11, <3>3 DEF ArchiveCopy, TypeOK
    <2>12. CASE ArchiveMark(o)
      <3> DEFINE mk == {c \in op[o].ids \cap Present(rows) : ~rows[c].archived}
      <3>1. mk \in SUBSET Chunks
        BY <1>0
      <3>2. /\ rows' = Update(rows, mk, LAMBDA r : [r EXCEPT !.archived = TRUE])
            /\ Return(o) \/ op' = [op EXCEPT ![o].pc = "sync_archived", ![o].ids = mk]
        BY <2>12 DEF ArchiveMark
      <3> HIDE DEF mk
      <3>3. ASSUME op' = [op EXCEPT ![o].pc = "sync_archived", ![o].ids = mk]
            PROVE  op' \in [Slots -> OpStates]
        BY <1>0, <3>1, <3>3 DEF OpStates
      <3>4. op' \in [Slots -> OpStates]
        BY <1>0, <3>2, <3>3, ReturnOp
      <3>5. rows' \in [Chunks -> ChunkRow \cup {NoRow}]
        BY <1>0, <3>2 DEF Update
      <3> QED
        BY <1>0, <2>12, <3>4, <3>5 DEF ArchiveMark, TypeOK
    <2>13. CASE SyncArchived(o)
      <3>1. op' \in [Slots -> OpStates]
        BY <1>0, <2>13, ReturnOp DEF SyncArchived
      <3>2. points' \in [Chunks -> ChunkRow \cup {NoRow}]
        BY <1>0, <2>13 DEF SyncArchived, Update
      <3> QED
        BY <2>13, <3>1, <3>2 DEF SyncArchived, TypeOK
    <2> QED
      BY <1>3, <2>1, <2>2, <2>3, <2>4, <2>5, <2>6, <2>7, <2>8, <2>9, <2>10, <2>11,
         <2>12, <2>13 DEF Step
  <1> QED
    BY <1>1, <1>2, <1>3 DEF Next

\* Every store and every operation in progress keeps its type, whatever runs
\* concurrently and whatever fails.
THEOREM StoresTypeCorrect == Spec => []TypeOK
  BY TypeInit, TypeNext, PTL DEF Spec

-----------------------------------------------------------------------------
(* The tables agree.  The invariant says, for each point of the            *)
(* administrator's operation, how far the document row is ahead of the     *)
(* chunk rows.  The workers never touch what the tables agree on.          *)

Match(r) == doc # NoRow /\ r.approval = doc.approval /\ r.past = doc.past

RowsMatch == \A c \in Chunks : rows[c] # NoRow => Match(rows[c])

WorkerPcs == {"idle"} \cup ArchivePcs

AgreePcs == WorkerPcs \cup {"list", "parse", "upsert", "write_doc", "sync_points"}

AgreeInv(a) ==
    /\ \A o \in Slots \ {a} : op[o].pc \in WorkerPcs
    /\ op[a].pc \in AgreePcs => RowsMatch
    /\ op[a].pc = "write_rows" =>
           /\ doc # NoRow
           /\ doc.approval = op[a].meta.approval /\ doc.past = op[a].meta.past
    /\ op[a].pc \in {"sync_list", "sync_rows"} =>
           \A c \in Chunks : rows[c] # NoRow =>
               Match(SetField(op[a].kind, op[a].meta, rows[c]))
    /\ op[a].pc = "sync_rows" => \A c \in Chunks : rows[c] # NoRow => c \in op[a].ids
    /\ op[a].pc \in DeletePcs => \A c \in Chunks : rows[c] = NoRow

\* The rows keep their approval and validity.
SameRows ==
    \A c \in Chunks :
        /\ rows'[c] = NoRow <=> rows[c] = NoRow
        /\ rows[c] # NoRow => /\ rows'[c].approval = rows[c].approval
                              /\ rows'[c].past = rows[c].past

ArchiveStep(o) ==
    FindCandidates(o) \/ ArchiveCopy(o) \/ ArchiveMark(o) \/ SyncArchived(o)

\* A step of the archiver keeps the document row and what the rows agree on.
LEMMA ArchiveMoves ==
    ASSUME TypeOK, NEW o \in Slots, ArchiveStep(o)
    PROVE  /\ doc' = doc /\ SameRows
           /\ op[o].pc \in WorkerPcs /\ op'[o].pc \in WorkerPcs
           /\ \A u \in Slots \ {o} : op'[u] = op[u]
  <1> USE PcFacts, IdleFacts, RowFacts DEF WorkerPcs
  <1>0. /\ op \in [Slots -> OpStates] /\ rows \in [Chunks -> ChunkRow \cup {NoRow}]
    BY DEF TypeOK
  <1>1. CASE FindCandidates(o)
    <2> DEFINE ids == {c \in Present(rows) : rows[c].past /\ ~rows[c].archived}
    <2>1. "archive" \in Kinds /\ ids \in SUBSET Chunks
      BY DEF Kinds, Present
    <2>2. Begin(o, "archive", "copy", NoMeta, ids)
      BY <1>1 DEF FindCandidates
    <2> HIDE DEF ids
    <2> QED
      BY <1>0, <1>1, <2>1, <2>2, BeginOp DEF FindCandidates, SameRows
  <1>2. CASE ArchiveCopy(o)
    BY <1>0, <1>2 DEF ArchiveCopy, SameRows, At, OpStates
  <1>3. CASE ArchiveMark(o)
    <2> DEFINE mk == {c \in op[o].ids \cap Present(rows) : ~rows[c].archived}
    <2>1. /\ rows' = Update(rows, mk, LAMBDA r : [r EXCEPT !.archived = TRUE])
          /\ Return(o) \/ op' = [op EXCEPT ![o].pc = "sync_archived", ![o].ids = mk]
          /\ doc' = doc /\ op[o].pc = "mark"
      BY <1>3 DEF ArchiveMark, At
    <2> HIDE DEF mk
    <2>2. SameRows
      BY <1>0, <2>1 DEF SameRows, Update, ChunkRow
    <2>3. op'[o].pc \in WorkerPcs /\ \A u \in Slots \ {o} : op'[u] = op[u]
      BY <1>0, <2>1, ReturnOp DEF OpStates
    <2> QED
      BY <2>1, <2>2, <2>3
  <1>4. CASE SyncArchived(o)
    BY <1>0, <1>4, ReturnOp DEF SyncArchived, SameRows, At
  <1> QED
    BY <1>1, <1>2, <1>3, <1>4 DEF ArchiveStep

\* The tables agree in the initial state.
LEMMA AgreeInit ==
    ASSUME NEW a \in Slots, Init
    PROVE  AgreeInv(a)
  BY IdleFacts, PcFacts DEF Init, AgreeInv, RowsMatch, WorkerPcs, AgreePcs, DeletePcs

\* Every step of the administrator and of the workers keeps the tables in the
\* relation that AgreeInv describes for the administrator's point of control.
LEMMA AgreeNext ==
    ASSUME NEW a \in Slots, \A o \in Slots \ {a} : Does[o] \subseteq {"archive"},
           "db" \notin Faults, TypeOK, AgreeInv(a), [Next]_vars
    PROVE  AgreeInv(a)'
  <1> USE PcFacts, IdleFacts, RowFacts
  <1>0. /\ op \in [Slots -> OpStates] /\ rows \in [Chunks -> ChunkRow \cup {NoRow}]
        /\ doc \in DocRow \cup {NoRow}
        /\ \A o \in Slots : op[o].meta \in Meta /\ op[o].kind \in Kinds
                            /\ op[o].ids \subseteq Chunks
    BY DEF TypeOK, OpStates
  <1>1. CASE UNCHANGED vars
    BY <1>1 DEF AgreeInv, RowsMatch, Match, vars
  <1>2. ASSUME NEW o \in Slots, ArchiveStep(o) PROVE AgreeInv(a)'
    <2>1. /\ doc' = doc /\ SameRows
          /\ op[o].pc \in WorkerPcs /\ op'[o].pc \in WorkerPcs
          /\ \A u \in Slots \ {o} : op'[u] = op[u]
      BY <1>2, ArchiveMoves
    <2>2. CASE o = a
      BY <1>0, <2>1, <2>2 DEF AgreeInv, RowsMatch, Match, SameRows, WorkerPcs, AgreePcs,
         ArchivePcs, DeletePcs
    <2>3. CASE o # a
      <3>1. op'[a] = op[a]
        BY <2>1, <2>3
      <3>2. /\ \A u \in Slots \ {a} : op'[u].pc \in WorkerPcs
            /\ op[a].pc \in AgreePcs => RowsMatch'
            /\ op[a].pc \in DeletePcs => \A c \in Chunks : rows'[c] = NoRow
            /\ op[a].pc = "sync_rows" => \A c \in Chunks : rows'[c] # NoRow => c \in op[a].ids
        BY <1>0, <2>1, <2>3 DEF AgreeInv, RowsMatch, Match, SameRows
      <3>3. op[a].pc \in {"sync_list", "sync_rows"} =>
               \A c \in Chunks : rows'[c] # NoRow =>
                   Match(SetField(op[a].kind, op[a].meta, rows'[c]))
        <4> SUFFICES ASSUME op[a].pc \in {"sync_list", "sync_rows"},
                            NEW c \in Chunks, rows'[c] # NoRow
                     PROVE  Match(SetField(op[a].kind, op[a].meta, rows'[c]))
          OBVIOUS
        <4>1. /\ rows[c] \in ChunkRow
              /\ rows'[c].approval = rows[c].approval /\ rows'[c].past = rows[c].past
              /\ Match(SetField(op[a].kind, op[a].meta, rows[c]))
          BY <1>0, <2>1 DEF AgreeInv, SameRows
        <4>2. rows'[c] \in ChunkRow
          BY TypeNext DEF TypeOK
        <4> QED
          BY <1>0, <4>1, <4>2 DEF Match, SetField, ChunkRow
      <3> QED
        BY <2>1, <3>1, <3>2, <3>3 DEF AgreeInv, Match
    <2> QED
      BY <2>2, <2>3
  <1>3. ASSUME NEW o \in Slots \ {a}, Request(o) \/ Step(o) PROVE ArchiveStep(o)
    <2>1. op[o].pc \in WorkerPcs /\ Does[o] \subseteq {"archive"}
      BY DEF AgreeInv
    <2>2. CASE Request(o)
      BY <2>1, <2>2 DEF Request, Upload, Reindex, Approve, Patch, UpdateDoc, DeleteRows,
         Begin, ArchiveStep
    <2>3. CASE Step(o)
      BY <2>1, <2>3 DEF Step, ListRows, Parse, Upsert, WriteDoc, WriteRows, SyncList,
         SyncRows, SyncPoints, DeletePoints, DeleteFile, DeleteDoc, Raise, At, ArchiveStep,
         WorkerPcs, ArchivePcs
    <2> QED
      BY <1>3, <2>2, <2>3
  <1>4. CASE Request(a) /\ ~ArchiveStep(a)
    <2>0. Present(rows) \in SUBSET Chunks /\ {} \in SUBSET Chunks
      BY DEF Present
    <2>1. ASSUME NEW m \in Metas, Upload(a, m) PROVE AgreeInv(a)'
      <3>1. m \in Meta /\ "upload" \in Kinds
        BY StoresAssumption DEF Kinds
      <3>2. /\ op[a].pc = "idle" /\ doc' = doc /\ rows' = rows
            /\ op'[a].pc \in {"idle", "parse"}
            /\ \A u \in Slots \ {a} : op'[u] = op[u]
        BY <1>0, <2>0, <2>1, <3>1, BeginOp DEF Upload, At
      <3> QED
        BY <3>2 DEF AgreeInv, RowsMatch, Match, WorkerPcs, AgreePcs, DeletePcs
    <2>2. ASSUME NEW k \in {"reindex", "parser_only", "embedding_only"}, Reindex(a, k)
          PROVE  AgreeInv(a)'
      <3> DEFINE m == [approval |-> doc.approval, past |-> doc.past, acl |-> FALSE]
                 p == IF k = "reindex" THEN "parse" ELSE "list"
      <3>1. m \in Meta /\ k \in Kinds /\ p \in Pcs /\ p \in {"parse", "list"}
        BY <1>0, <2>2 DEF Reindex, DocRow, Meta, Kinds
      <3>2. Begin(a, k, p, m, {}) /\ doc' = doc /\ rows' = rows
        BY <2>2 DEF Reindex
      <3> HIDE DEF m, p
      <3>3. /\ op[a].pc = "idle" /\ op'[a].pc \in {"parse", "list"}
            /\ \A u \in Slots \ {a} : op'[u] = op[u]
        BY <1>0, <2>0, <3>1, <3>2, BeginOp
      <3> QED
        BY <3>2, <3>3 DEF AgreeInv, RowsMatch, Match, WorkerPcs, AgreePcs, DeletePcs
    <2>3. ASSUME NEW k \in Kinds, NEW m \in Meta, UpdateDoc(a, k, m) PROVE AgreeInv(a)'
      <3>1. /\ op[a].pc = "idle" /\ op'[a].pc = "sync_list"
            /\ op'[a].kind = k /\ op'[a].meta = m
            /\ \A u \in Slots \ {a} : op'[u] = op[u]
        BY <1>0, <2>0, <2>3, BeginOp DEF UpdateDoc
      <3>2. doc \in DocRow /\ doc' = SetField(k, m, doc) /\ rows' = rows /\ RowsMatch
        BY <1>0, <2>3, <3>1 DEF UpdateDoc, AgreeInv, AgreePcs, WorkerPcs
      <3>3. ASSUME NEW c \in Chunks, rows[c] # NoRow
            PROVE  /\ doc' # NoRow
                   /\ SetField(k, m, rows[c]).approval = doc'.approval
                   /\ SetField(k, m, rows[c]).past = doc'.past
        <4>1. rows[c] \in ChunkRow /\ rows[c].approval = doc.approval
              /\ rows[c].past = doc.past
          BY <1>0, <3>2, <3>3 DEF RowsMatch, Match
        <4>2. doc' # NoRow
          BY <3>2
        <4> QED
          BY <3>2, <4>1, <4>2 DEF SetField, ChunkRow, DocRow
      <3> QED
        BY <3>1, <3>2, <3>3 DEF AgreeInv, Match, AgreePcs, WorkerPcs, DeletePcs, ArchivePcs
    <2>4. ASSUME NEW x \in Approvals, Approve(a, x) PROVE AgreeInv(a)'
      BY <2>3, <2>4 DEF Approve, Kinds
    <2>5. ASSUME NEW b \in BOOLEAN, Patch(a, b) PROVE AgreeInv(a)'
      BY <2>3, <2>5 DEF Patch, Kinds
    <2>6. CASE DeleteRows(a)
      <3>1. "delete" \in Kinds
        BY DEF Kinds
      <3>2. /\ op'[a].pc \in DeletePcs /\ \A u \in Slots \ {a} : op'[u] = op[u]
            /\ \A c \in Chunks : rows'[c] = NoRow
        BY <1>0, <2>0, <2>6, <3>1, BeginOp DEF DeleteRows
      <3> QED
        BY <3>2 DEF AgreeInv, AgreePcs, WorkerPcs, DeletePcs, ArchivePcs
    <2> QED
      BY <1>4, <2>1, <2>2, <2>4, <2>5, <2>6 DEF Request, ArchiveStep
  <1>5. CASE Step(a) /\ ~ArchiveStep(a)
    <2> USE DEF AgreeInv, AgreePcs, WorkerPcs, DeletePcs, ArchivePcs
    <2>1. CASE ListRows(a) \/ Raise(a)
      <3>1. /\ op[a].pc \in AgreePcs /\ doc' = doc /\ rows' = rows
            /\ op'[a].pc \in {"idle", "parse", "upsert"}
            /\ \A u \in Slots \ {a} : op'[u] = op[u]
        BY <1>0, <2>1, GotoOp, ReturnOp DEF ListRows, Raise, At, OpStates
      <3> QED
        BY <3>1 DEF RowsMatch, Match
    <2>2. CASE Parse(a)
      <3>1. PICK ids \in Splits :
               op' = [op EXCEPT ![a].pc = "upsert", ![a].ids = ids, ![a].kind = "reindex"]
        BY <2>2 DEF Parse
      <3>2. op'[a].pc = "upsert" /\ \A u \in Slots \ {a} : op'[u] = op[u]
        BY <1>0, <3>1 DEF OpStates
      <3> QED
        BY <2>2, <3>2 DEF Parse, At, RowsMatch, Match
    <2>3. CASE Upsert(a)
      <3>1. /\ op'[a].pc \in {"idle", "write_doc"}
            /\ \A u \in Slots \ {a} : op'[u] = op[u]
        BY <1>0, <2>3, GotoOp, ReturnOp DEF Upsert
      <3> QED
        BY <2>3, <3>1 DEF Upsert, At, RowsMatch, Match
    <2>4. CASE WriteDoc(a)
      <3>1. /\ op'[a].pc = "write_rows" /\ op'[a].meta = op[a].meta
            /\ \A u \in Slots \ {a} : op'[u] = op[u]
        BY <1>0, <2>4, GotoOp DEF WriteDoc
      <3>2. doc' # NoRow /\ doc'.approval = op[a].meta.approval
            /\ doc'.past = op[a].meta.past
        BY <1>0, <2>4 DEF WriteDoc
      <3> QED
        BY <3>1, <3>2
    <2>5. CASE WriteRows(a)
      <3>1. /\ op'[a] = Idle /\ \A u \in Slots \ {a} : op'[u] = op[u]
        BY <1>0, <2>5, ReturnOp DEF WriteRows
      <3>2. RowsMatch'
        BY <1>0, <2>5 DEF WriteRows, At, RowsMatch, Match, NewRow
      <3> QED
        BY <3>1, <3>2
    <2>6. CASE SyncList(a)
      <3>1. CASE Present(rows) = {}
        BY <1>0, <2>6, <3>1, ReturnOp DEF SyncList, RowsMatch, Present
      <3>2. CASE Present(rows) # {}
        <4>1. /\ op'[a].pc = "sync_rows" /\ op'[a].ids = Present(rows)
              /\ op'[a].meta = op[a].meta /\ op'[a].kind = op[a].kind
              /\ \A u \in Slots \ {a} : op'[u] = op[u]
              /\ op[a].pc = "sync_list" /\ doc' = doc /\ rows' = rows
          BY <1>0, <2>6, <3>2 DEF SyncList, OpStates, At
        <4> QED
          BY <4>1 DEF Present, Match
      <3> QED
        BY <3>1, <3>2
    <2>7. CASE SyncRows(a)
      <3>1. /\ op'[a].pc = "sync_points" /\ \A u \in Slots \ {a} : op'[u] = op[u]
            /\ op[a].pc = "sync_rows" /\ doc' = doc
        BY <1>0, <2>7, GotoOp DEF SyncRows, At
      <3>2. RowsMatch'
        <4> SUFFICES ASSUME NEW c \in Chunks, rows'[c] # NoRow PROVE Match(rows'[c])
          BY <3>1 DEF RowsMatch, Match
        <4>1. rows[c] # NoRow /\ c \in op[a].ids
          BY <1>0, <2>7, <3>1 DEF SyncRows, Update
        <4>2. rows'[c] = SetField(op[a].kind, op[a].meta, rows[c])
          BY <2>7, <4>1 DEF SyncRows, Update
        <4> QED
          BY <3>1, <4>1, <4>2
      <3> QED
        BY <3>1, <3>2
    <2>8. CASE SyncPoints(a)
      <3>1. /\ op'[a] = Idle /\ \A u \in Slots \ {a} : op'[u] = op[u]
        BY <1>0, <2>8, ReturnOp DEF SyncPoints
      <3> QED
        BY <2>8, <3>1 DEF SyncPoints, At, RowsMatch, Match
    <2>9. CASE DeletePoints(a) \/ DeleteFile(a)
      <3>1. /\ op[a].pc \in DeletePcs /\ op'[a].pc \in DeletePcs /\ rows' = rows
            /\ \A u \in Slots \ {a} : op'[u] = op[u]
        BY <1>0, <2>9, GotoOp DEF DeletePoints, DeleteFile, At
      <3> QED
        BY <3>1
    <2>10. CASE DeleteDoc(a)
      <3>1. /\ op'[a] = Idle /\ \A u \in Slots \ {a} : op'[u] = op[u]
            /\ op[a].pc = "delete_doc" /\ rows' = rows
        BY <1>0, <2>10, ReturnOp DEF DeleteDoc, At
      <3> QED
        BY <3>1 DEF RowsMatch
    <2> QED
      BY <1>5, <2>1, <2>2, <2>3, <2>4, <2>5, <2>6, <2>7, <2>8, <2>9, <2>10
         DEF Step, ArchiveStep
  <1> QED
    BY <1>1, <1>2, <1>3, <1>4, <1>5 DEF Next

\* One administrator who waits for each operation and any number of archival
\* workers: between operations the chunk rows have the approval and validity of
\* their document, even if the vector store, the parser or the storage failed.
THEOREM TablesAgree ==
    ASSUME NEW a \in Slots, \A o \in Slots \ {a} : Does[o] \subseteq {"archive"},
           "db" \notin Faults
    PROVE  Spec => []RowsFollowDoc
  <1>1. Init => TypeOK /\ AgreeInv(a)
    BY TypeInit, AgreeInit
  <1>2. TypeOK /\ AgreeInv(a) /\ [Next]_vars => TypeOK' /\ AgreeInv(a)'
    BY TypeNext, AgreeNext
  <1>3. AgreeInv(a) => RowsFollowDoc
    BY DEF AgreeInv, AgreePcs, WorkerPcs, RowsMatch, Match, RowsFollowDoc, Quiet, At
  <1> QED
    BY <1>1, <1>2, <1>3, PTL DEF Spec

-----------------------------------------------------------------------------
(* Archived rows have their copy.  The UPDATE of the archiver may see rows *)
(* that its INSERT has not seen.  It is safe as long as no row goes away:  *)
(* then a candidate that was not copied had been archived already, and its *)
(* copy stays.                                                             *)

Candidates ==
    \A o \in Slots : op[o].pc \in {"copy", "mark"} => op[o].ids \subseteq Present(rows)

CopyIsStaged == \A o \in Slots : At(o, "mark") => op[o].ids \subseteq op[o].staged \cup cold

\* A run replaces all rows of the document
WritesAll ==
    \A o \in Slots :
        /\ At(o, "list") => op[o].kind \in {"parser_only", "embedding_only"}
        /\ At(o, "upsert") /\ op[o].kind # "embedding_only" => op[o].ids = Chunks
        /\ op[o].pc \in {"write_doc", "write_rows"} => op[o].ids = Chunks

NoDelete == \A o \in Slots : op[o].pc \notin DeletePcs

ColdInv == Candidates /\ CopyIsStaged /\ WritesAll /\ NoDelete /\ ArchivedHasColdCopy

\* A step of one slot that takes away neither rows nor copies.
LEMMA ColdKept ==
    ASSUME ColdInv, NEW o \in Slots, \A u \in Slots \ {o} : op'[u] = op[u],
           Present(rows) \subseteq Present(rows)', cold \subseteq cold',
           \A c \in Chunks : rows'[c] # NoRow /\ rows'[c].archived => c \in cold',
           op'[o].pc \in {"copy", "mark"} => op'[o].ids \subseteq Present(rows)',
           op'[o].pc = "mark" => op'[o].ids \subseteq op'[o].staged \cup cold',
           op'[o].pc = "list" => op'[o].kind \in {"parser_only", "embedding_only"},
           op'[o].pc = "upsert" /\ op'[o].kind # "embedding_only" => op'[o].ids = Chunks,
           op'[o].pc \in {"write_doc", "write_rows"} => op'[o].ids = Chunks,
           op'[o].pc \notin DeletePcs
    PROVE  ColdInv'
  <1>1. Candidates'
    BY DEF ColdInv, Candidates
  <1>2. CopyIsStaged'
    BY DEF ColdInv, CopyIsStaged, At
  <1>3. WritesAll' /\ NoDelete'
    BY DEF ColdInv, WritesAll, NoDelete, At
  <1>4. ArchivedHasColdCopy'
    BY DEF ArchivedHasColdCopy, Present
  <1> QED
    BY <1>1, <1>2, <1>3, <1>4 DEF ColdInv

\* A slot at rest, or at a point that neither archives nor writes rows.
Harmless == {"idle", "parse", "sync_list", "sync_rows", "sync_points", "sync_archived"}

\* A step that leaves rows and copies alone and ends at such a point.
LEMMA ColdStands ==
    ASSUME ColdInv, NEW o \in Slots, \A u \in Slots \ {o} : op'[u] = op[u],
           UNCHANGED <<rows, cold>>, op'[o].pc \in Harmless
    PROVE  ColdInv'
  <1>1. Present(rows)' = Present(rows)
    BY DEF Present
  <1>2. \A c \in Chunks : rows'[c] # NoRow /\ rows'[c].archived => c \in cold'
    BY DEF ColdInv, ArchivedHasColdCopy, Present
  <1>3. /\ op'[o].pc \notin {"copy", "mark", "list", "upsert", "write_doc", "write_rows"}
        /\ op'[o].pc \notin DeletePcs
    BY DEF Harmless, DeletePcs
  <1> QED
    BY <1>1, <1>2, <1>3, ColdKept

\* archive, replace_chunks, update_metadata: no step leaves an archived row without
\* its copy.
LEMMA ColdNext ==
    ASSUME \A o \in Slots : "delete" \notin Does[o], Splits \subseteq {Chunks},
           TypeOK, ColdInv, [Next]_vars
    PROVE  ColdInv'
  <1> USE PcFacts, IdleFacts, RowFacts DEF At
  <1>0. /\ op \in [Slots -> OpStates]
        /\ rows \in [Chunks -> ChunkRow \cup {NoRow}]
        /\ \A o \in Slots : op[o].meta \in Meta /\ op[o].kind \in Kinds
                            /\ op[o].ids \subseteq Chunks /\ op[o].staged \subseteq Chunks
    BY DEF TypeOK, OpStates
  <1>k. \A k \in {"upload", "reindex", "parser_only", "embedding_only", "approve", "patch",
                  "delete", "archive"} : k \in Kinds
    BY DEF Kinds
  <1>a. \A c \in Chunks : rows[c] # NoRow /\ rows[c].archived => c \in cold
    BY DEF ColdInv, ArchivedHasColdCopy, Present
  <1>h. \A p \in Harmless : p \in Pcs
    BY DEF Harmless, Pcs, SyncPcs, ArchivePcs, IndexPcs
  <1>1. CASE UNCHANGED vars
    BY <1>1 DEF vars, ColdInv, Candidates, CopyIsStaged, WritesAll, NoDelete,
       ArchivedHasColdCopy, Present
  <1>r. ASSUME NEW o \in Slots, Return(o), UNCHANGED <<rows, cold>> PROVE ColdInv'
    BY <1>0, <1>r, ReturnOp, ColdStands DEF Harmless
  <1>2. ASSUME NEW o \in Slots, NEW m \in Metas, Upload(o, m) PROVE ColdInv'
    <2>1. m \in Meta
      BY StoresAssumption
    <2>2. CASE UNCHANGED op
      BY <1>2, <2>2 DEF Upload, ColdInv, Candidates, CopyIsStaged, WritesAll, NoDelete,
         ArchivedHasColdCopy, Present
    <2>3. CASE Begin(o, "upload", "parse", m, {})
      <3>1. op'[o].pc = "parse" /\ \A u \in Slots \ {o} : op'[u] = op[u]
        BY <1>0, <1>k, <2>1, <2>3, BeginOp
      <3> QED
        BY <1>2, <3>1, ColdStands DEF Upload, Harmless
    <2> QED
      BY <1>2, <2>2, <2>3 DEF Upload
  <1>3. ASSUME NEW o \in Slots, NEW k \in {"reindex", "parser_only", "embedding_only"},
               Reindex(o, k)
        PROVE  ColdInv'
    <2> DEFINE m == [approval |-> doc.approval, past |-> doc.past, acl |-> FALSE]
               p == IF k = "reindex" THEN "parse" ELSE "list"
    <2>1. m \in Meta /\ k \in Kinds /\ p \in Pcs
      BY <1>3 DEF Reindex, TypeOK, DocRow, Meta, Kinds
    <2>2. Begin(o, k, p, m, {}) /\ UNCHANGED <<rows, cold>>
      BY <1>3 DEF Reindex
    <2>3. p = "parse" \/ (p = "list" /\ k \in {"parser_only", "embedding_only"})
      OBVIOUS
    <2> HIDE DEF m, p
    <2>4. op'[o].pc = p /\ op'[o].kind = k /\ \A u \in Slots \ {o} : op'[u] = op[u]
      BY <1>0, <2>1, <2>2, BeginOp
    <2>5. CASE p = "parse"
      BY <2>2, <2>4, <2>5, ColdStands DEF Harmless
    <2>6. CASE p = "list" /\ k \in {"parser_only", "embedding_only"}
      <3>1. Present(rows)' = Present(rows) /\ op'[o].pc \notin DeletePcs
        BY <2>2, <2>4, <2>6 DEF Present, DeletePcs
      <3> QED
        BY <1>a, <2>2, <2>4, <2>6, <3>1, ColdKept
    <2> QED
      BY <2>3, <2>5, <2>6
  <1>4. ASSUME NEW o \in Slots, NEW k \in {"approve", "patch"}, NEW m \in Meta,
               UpdateDoc(o, k, m)
        PROVE  ColdInv'
    <2>1. op'[o].pc = "sync_list" /\ \A u \in Slots \ {o} : op'[u] = op[u]
      BY <1>0, <1>k, <1>4, BeginOp DEF UpdateDoc
    <2> QED
      BY <1>4, <2>1, ColdStands DEF UpdateDoc, Harmless
  <1>5. ASSUME NEW o \in Slots, DeleteRows(o) PROVE ColdInv'
    BY <1>5 DEF DeleteRows, Begin
  <1>6. ASSUME NEW o \in Slots, FindCandidates(o) PROVE ColdInv'
    <2> DEFINE ids == {c \in Present(rows) : rows[c].past /\ ~rows[c].archived}
    <2>1. ids \in SUBSET Chunks /\ ids \subseteq Present(rows)
      BY DEF Present
    <2>2. Begin(o, "archive", "copy", NoMeta, ids) /\ UNCHANGED <<rows, cold>>
      BY <1>6 DEF FindCandidates
    <2> HIDE DEF ids
    <2>3. op'[o].pc = "copy" /\ op'[o].ids = ids /\ \A u \in Slots \ {o} : op'[u] = op[u]
      BY <1>0, <1>k, <2>1, <2>2, BeginOp
    <2>4. Present(rows)' = Present(rows) /\ op'[o].pc \notin DeletePcs
      BY <2>2, <2>3 DEF Present, DeletePcs
    <2> QED
      BY <1>a, <2>1, <2>2, <2>3, <2>4, ColdKept
  <1>7. ASSUME NEW o \in Slots, ListRows(o) PROVE ColdInv'
    <2>1. CASE Return(o)
      BY <1>7, <1>r, <2>1 DEF ListRows
    <2>2. CASE Goto(o, "parse")
      BY <1>0, <1>7, <2>2, GotoOp, ColdStands DEF ListRows, Harmless
    <2>3. CASE op' = [op EXCEPT ![o].pc = "upsert", ![o].ids = Present(rows)]
               /\ op[o].kind # "parser_only"
      <3>1. op'[o].pc = "upsert" /\ op'[o].kind = op[o].kind
            /\ \A u \in Slots \ {o} : op'[u] = op[u]
        BY <1>0, <2>3 DEF OpStates
      <3>2. op[o].kind = "embedding_only"
        BY <1>7, <2>3 DEF ListRows, ColdInv, WritesAll
      <3>3. Present(rows)' = Present(rows) /\ UNCHANGED <<rows, cold>>
            /\ op'[o].pc \notin DeletePcs
        BY <1>7, <3>1 DEF ListRows, Present, DeletePcs
      <3> QED
        BY <1>a, <3>1, <3>2, <3>3, ColdKept
    <2> QED
      BY <1>7, <2>1, <2>2, <2>3 DEF ListRows
  <1>8. ASSUME NEW o \in Slots, Parse(o) PROVE ColdInv'
    <2>1. op' = [op EXCEPT ![o].pc = "upsert", ![o].ids = Chunks, ![o].kind = "reindex"]
      BY <1>8 DEF Parse
    <2>2. op'[o].pc = "upsert" /\ op'[o].ids = Chunks /\ \A u \in Slots \ {o} : op'[u] = op[u]
      BY <1>0, <2>1 DEF OpStates
    <2>3. Present(rows)' = Present(rows) /\ UNCHANGED <<rows, cold>>
          /\ op'[o].pc \notin DeletePcs
      BY <1>8, <2>2 DEF Parse, Present, DeletePcs
    <2> QED
      BY <1>a, <2>2, <2>3, ColdKept
  <1>9. ASSUME NEW o \in Slots, Upsert(o) \/ WriteDoc(o) PROVE ColdInv'
    <2>1. CASE Return(o)
      BY <1>9, <1>r, <2>1 DEF Upsert, WriteDoc
    <2>2. ASSUME NEW p \in {"write_doc", "write_rows"}, Goto(o, p), op[o].ids = Chunks
          PROVE  ColdInv'
      <3>1. op'[o].pc = p /\ op'[o].ids = Chunks /\ \A u \in Slots \ {o} : op'[u] = op[u]
        BY <1>0, <2>2, GotoOp
      <3>2. Present(rows)' = Present(rows) /\ UNCHANGED <<rows, cold>>
            /\ op'[o].pc \notin DeletePcs
        BY <1>9, <3>1 DEF Upsert, WriteDoc, Present, DeletePcs
      <3> QED
        BY <1>a, <3>1, <3>2, ColdKept
    <2> QED
      BY <1>9, <2>1, <2>2 DEF Upsert, WriteDoc, ColdInv, WritesAll
  <1>10. ASSUME NEW o \in Slots, WriteRows(o) PROVE ColdInv'
    <2>1. \A c \in Chunks : rows'[c] = NewRow(op[o].meta)
      BY <1>10 DEF WriteRows, ColdInv, WritesAll
    <2>2. \A c \in Chunks : rows'[c] # NoRow /\ ~rows'[c].archived
      BY <1>0, <2>1 DEF NewRow
    <2>3. Present(rows)' = Chunks /\ Present(rows) \subseteq Chunks /\ cold' = cold
      BY <1>10, <2>2 DEF Present, WriteRows
    <2>4. op'[o] = Idle /\ \A u \in Slots \ {o} : op'[u] = op[u]
      BY <1>0, <1>10, ReturnOp DEF WriteRows
    <2>5. "idle" \notin DeletePcs
      BY DEF DeletePcs
    <2> QED
      BY <2>2, <2>3, <2>4, <2>5, ColdKept
  <1>11. ASSUME NEW o \in Slots, SyncList(o) PROVE ColdInv'
    <2>1. CASE Return(o)
      BY <1>11, <1>r, <2>1 DEF SyncList
    <2>2. CASE op' = [op EXCEPT ![o].pc = "sync_rows", ![o].ids = Present(rows)]
      <3>1. op'[o].pc = "sync_rows" /\ \A u \in Slots \ {o} : op'[u] = op[u]
        BY <1>0, <2>2 DEF OpStates
      <3> QED
        BY <1>11, <3>1, ColdStands DEF SyncList, Harmless
    <2> QED
      BY <1>11, <2>1, <2>2 DEF SyncList
  <1>12. ASSUME NEW o \in Slots, SyncRows(o) PROVE ColdInv'
    <2>1. op'[o].pc = "sync_points" /\ \A u \in Slots \ {o} : op'[u] = op[u]
      BY <1>0, <1>12, GotoOp DEF SyncRows
    <2>2. \A c \in Chunks :
            rows'[c] \in {rows[c], SetField(op[o].kind, op[o].meta, rows[c])}
            /\ (rows[c] = NoRow => rows'[c] = NoRow)
      BY <1>12 DEF SyncRows, Update
    <2>3. \A r \in ChunkRow : SetField(op[o].kind, op[o].meta, r).archived = r.archived
      BY DEF SetField, ChunkRow
    <2>4. \A c \in Chunks : /\ rows[c] # NoRow => rows'[c] # NoRow
                            /\ rows'[c] # NoRow =>
                                 rows[c] # NoRow /\ rows'[c].archived = rows[c].archived
      <3> SUFFICES ASSUME NEW c \in Chunks, rows[c] # NoRow
                   PROVE  rows'[c] # NoRow /\ rows'[c].archived = rows[c].archived
        BY <2>2
      <3>1. rows[c] \in ChunkRow
        BY <1>0
      <3>2. SetField(op[o].kind, op[o].meta, rows[c]) \in ChunkRow
        BY <1>0, <3>1
      <3> QED
        BY <2>2, <2>3, <3>1, <3>2
    <2>5. Present(rows) \subseteq Present(rows)' /\ cold' = cold
      BY <1>12, <2>4 DEF Present, SyncRows
    <2>6. op'[o].pc \notin DeletePcs
      BY <2>1 DEF DeletePcs
    <2> QED
      BY <1>a, <2>1, <2>4, <2>5, <2>6, ColdKept
  <1>13. ASSUME NEW o \in Slots, SyncPoints(o) \/ SyncArchived(o) \/ Raise(o) PROVE ColdInv'
    BY <1>13, <1>r DEF SyncPoints, SyncArchived, Raise
  <1>14. ASSUME NEW o \in Slots, DeletePoints(o) \/ DeleteFile(o) \/ DeleteDoc(o) PROVE ColdInv'
    BY <1>14 DEF DeletePoints, DeleteFile, DeleteDoc, ColdInv, NoDelete
  <1>15. ASSUME NEW o \in Slots, ArchiveCopy(o) PROVE ColdInv'
    <2> DEFINE st == {c \in op[o].ids \cap Present(rows) : ~rows[c].archived}
    <2>1. op' = [op EXCEPT ![o].pc = "mark", ![o].staged = st]
      BY <1>15 DEF ArchiveCopy
    <2>2. op[o].ids \subseteq Present(rows)
      BY <1>15 DEF ArchiveCopy, ColdInv, Candidates
    <2>3. op[o].ids \subseteq st \cup cold
      BY <1>a, <2>2 DEF Present
    <2> HIDE DEF st
    <2>4. /\ op'[o].pc = "mark" /\ op'[o].ids = op[o].ids /\ op'[o].staged = st
          /\ \A u \in Slots \ {o} : op'[u] = op[u]
      BY <1>0, <2>1 DEF OpStates
    <2>5. Present(rows)' = Present(rows) /\ UNCHANGED <<rows, cold>>
          /\ op'[o].pc \notin DeletePcs
      BY <1>15, <2>4 DEF ArchiveCopy, Present, DeletePcs
    <2> QED
      BY <1>a, <2>2, <2>3, <2>4, <2>5, ColdKept
  <1>16. ASSUME NEW o \in Slots, ArchiveMark(o) PROVE ColdInv'
    <2> DEFINE mk == {c \in op[o].ids \cap Present(rows) : ~rows[c].archived}
    <2>1. /\ rows' = Update(rows, mk, LAMBDA r : [r EXCEPT !.archived = TRUE])
          /\ cold' = cold \cup op[o].staged
          /\ Return(o) \/ op' = [op EXCEPT ![o].pc = "sync_archived", ![o].ids = mk]
      BY <1>16 DEF ArchiveMark
    <2>2. mk \subseteq op[o].ids /\ op[o].ids \subseteq op[o].staged \cup cold
      BY <1>16 DEF ArchiveMark, ColdInv, CopyIsStaged
    <2> HIDE DEF mk
    <2>3. op'[o].pc \in {"idle", "sync_archived"} /\ \A u \in Slots \ {o} : op'[u] = op[u]
      <3>1. CASE Return(o)
        BY <1>0, <3>1, ReturnOp
      <3>2. CASE op' = [op EXCEPT ![o].pc = "sync_archived", ![o].ids = mk]
        BY <1>0, <3>2 DEF OpStates
      <3> QED
        BY <2>1, <3>1, <3>2
    <2>4. \A c \in Chunks :
            /\ c \notin mk => rows'[c] = rows[c]
            /\ rows[c] = NoRow => rows'[c] = NoRow
            /\ rows[c] # NoRow => rows'[c] # NoRow
      BY <1>0, <2>1 DEF Update
    <2>5. Present(rows) \subseteq Present(rows)'
      BY <2>4 DEF Present
    <2>6. \A c \in Chunks : rows'[c] # NoRow /\ rows'[c].archived => c \in cold'
      BY <1>a, <2>1, <2>2, <2>4
    <2>7. op'[o].pc \notin DeletePcs
      BY <2>3 DEF DeletePcs
    <2> QED
      BY <2>1, <2>3, <2>5, <2>6, <2>7, ColdKept
  <1>17. ASSUME NEW o \in Slots, Request(o) PROVE ColdInv'
    BY <1>17, <1>2, <1>3, <1>4, <1>5, <1>6 DEF Request, Approve, Patch
  <1>18. ASSUME NEW o \in Slots, Step(o) PROVE ColdInv'
    BY <1>18, <1>7, <1>8, <1>9, <1>10, <1>11, <1>12, <1>13, <1>14, <1>15, <1>16 DEF Step
  <1> QED
    BY <1>1, <1>17, <1>18 DEF Next

\* archive: any number of administrators who upload, reindex, approve and change
\* documents beside any number of archival workers, with all failures: a row that is
\* marked as archived has its copy in chunks_archive, as long as nobody deletes the
\* document and its file yields the same chunks again.
THEOREM ArchivedRowsAreCopied ==
    ASSUME \A o \in Slots : "delete" \notin Does[o], Splits \subseteq {Chunks}
    PROVE  Spec => []ArchivedHasColdCopy
  <1>1. Init => ColdInv
    BY IdleFacts, PcFacts DEF Init, ColdInv, Candidates, CopyIsStaged, WritesAll, NoDelete,
       ArchivedHasColdCopy, Present, At, DeletePcs
  <1>2. TypeOK /\ ColdInv /\ [Next]_vars => ColdInv'
    BY ColdNext
  <1>3. ColdInv => ArchivedHasColdCopy
    BY DEF ColdInv
  <1> QED
    BY <1>1, <1>2, <1>3, TypeInit, TypeNext, PTL DEF Spec

-----------------------------------------------------------------------------
(* One request at a time, and nothing fails.  The invariant says for each  *)
(* point of the operation how far the stores that it has not written yet   *)
(* are behind.                                                             *)

SamePcs == {"idle", "list", "parse", "upsert", "sync_list", "sync_rows", "copy", "mark"}

FilePcs == {"idle", "list"} \cup SyncPcs \cup ArchivePcs

Marked(r) == [r EXCEPT !.archived = TRUE]

PointsFollow(a) ==
    /\ op[a].pc \in SamePcs => \A c \in Chunks : points[c] = rows[c]
    /\ op[a].pc \in {"write_doc", "write_rows"} =>
           \A c \in Chunks : points[c] = NewRow(op[a].meta)
    /\ op[a].pc = "sync_points" => \A c \in Chunks :
           rows[c] = IF c \in op[a].ids /\ points[c] # NoRow
                     THEN SetField(op[a].kind, op[a].meta, points[c]) ELSE points[c]
    /\ op[a].pc = "sync_archived" => \A c \in Chunks :
           rows[c] = IF c \in op[a].ids /\ points[c] # NoRow
                     THEN Marked(points[c]) ELSE points[c]
    /\ op[a].pc = "delete_points" => \A c \in Chunks : points[c] # NoRow => c \in op[a].ids
    /\ op[a].pc \in {"delete_file", "delete_doc"} => \A c \in Chunks : points[c] = NoRow

FileFollows(a) ==
    /\ op[a].pc \in FilePcs => (file <=> doc # NoRow)
    /\ op[a].pc \in IndexPcs => file
    /\ op[a].pc = "delete_doc" => ~file

ColdFollows(a) ==
    /\ (\A c \in Chunks : rows[c] = NoRow) => cold = {}
    /\ op[a].pc \in {"copy", "mark"} => \A c \in op[a].ids : rows[c] # NoRow
    /\ op[a].pc = "mark" => op[a].staged \subseteq op[a].ids

RunsInFull(a) ==
    /\ op[a].pc \in {"upsert", "write_doc", "write_rows"} => op[a].ids = Chunks
    /\ op[a].pc = "list" => op[a].kind = "parser_only"
    /\ op[a].pc \in IndexPcs => op[a].kind # "embedding_only"

SequentialInv(a) == PointsFollow(a) /\ FileFollows(a) /\ ColdFollows(a) /\ RunsInFull(a)

\* Every step of the only request keeps the stores in the relation that
\* SequentialInv describes for its point of control.
LEMMA SequentialNext ==
    ASSUME NEW a \in Slots, Slots = {a}, Faults = {}, "embedding_only" \notin Does[a],
           Splits \subseteq {Chunks}, TypeOK, AgreeInv(a), AgreeInv(a)', SequentialInv(a),
           [Next]_vars
    PROVE  SequentialInv(a)'
  <1> USE PcFacts, IdleFacts, RowFacts
  <1>0. /\ op \in [Slots -> OpStates]
        /\ rows \in [Chunks -> ChunkRow \cup {NoRow}]
        /\ points \in [Chunks -> ChunkRow \cup {NoRow}]
        /\ cold \subseteq Chunks
        /\ op[a].meta \in Meta /\ op[a].kind \in Kinds /\ op[a].pc \in Pcs
        /\ op[a].ids \subseteq Chunks /\ op[a].staged \subseteq Chunks
    BY DEF TypeOK, OpStates
  <1>k. \A k \in {"upload", "reindex", "parser_only", "embedding_only", "approve", "patch",
                  "delete", "archive"} : k \in Kinds
    BY DEF Kinds
  <1> USE DEF At, Pcs, IndexPcs, SyncPcs, DeletePcs, ArchivePcs, SamePcs, FilePcs
  <1>1. CASE UNCHANGED vars
    BY <1>1 DEF vars, SequentialInv, PointsFollow, FileFollows, ColdFollows, RunsInFull
  <1>2. ASSUME NEW m \in Metas, Upload(a, m) PROVE SequentialInv(a)'
    <2>1. m \in Meta
      BY StoresAssumption
    <2>2. op[a].pc = "idle" /\ Begin(a, "upload", "parse", m, {})
      BY <1>2 DEF Upload, Indexing, Begin
    <2>3. op'[a].pc = "parse" /\ op'[a].kind = "upload"
      BY <1>0, <1>k, <2>1, <2>2, BeginOp
    <2> QED
      BY <1>2, <2>2, <2>3 DEF Upload, SequentialInv, PointsFollow, FileFollows, ColdFollows,
         RunsInFull
  <1>3. ASSUME NEW k \in {"reindex", "parser_only", "embedding_only"}, Reindex(a, k)
        PROVE  SequentialInv(a)'
    <2> DEFINE m == [approval |-> doc.approval, past |-> doc.past, acl |-> FALSE]
               p == IF k = "reindex" THEN "parse" ELSE "list"
    <2>1. m \in Meta /\ k \in Kinds /\ p \in Pcs
      BY <1>3 DEF Reindex, TypeOK, DocRow, Meta, Kinds
    <2>2. Begin(a, k, p, m, {}) /\ doc # NoRow /\ UNCHANGED <<doc, rows, cold, points, file>>
      BY <1>3 DEF Reindex
    <2>3. p = "parse" \/ (p = "list" /\ k \in {"parser_only", "embedding_only"})
      OBVIOUS
    <2> HIDE DEF m, p
    <2>4. op[a].pc = "idle" /\ op'[a].pc = p /\ op'[a].kind = k /\ k # "embedding_only"
      BY <1>0, <2>1, <2>2, BeginOp
    <2> QED
      BY <2>2, <2>3, <2>4 DEF SequentialInv, PointsFollow, FileFollows, ColdFollows,
         RunsInFull
  <1>4. ASSUME NEW k \in {"approve", "patch"}, NEW m \in Meta, UpdateDoc(a, k, m)
        PROVE  SequentialInv(a)'
    <2>1. op[a].pc = "idle" /\ op'[a].pc = "sync_list"
      BY <1>0, <1>k, <1>4, BeginOp DEF UpdateDoc
    <2>2. doc # NoRow /\ doc' # NoRow
      BY <1>4, <1>k DEF UpdateDoc, TypeOK
    <2> QED
      BY <1>4, <2>1, <2>2 DEF UpdateDoc, SequentialInv, PointsFollow, FileFollows,
         ColdFollows, RunsInFull
  <1>5. CASE DeleteRows(a)
    <2> DEFINE p == IF Present(rows) = {} THEN "delete_file" ELSE "delete_points"
    <2>1. /\ Begin(a, "delete", p, NoMeta, Present(rows))
          /\ rows' = [c \in Chunks |-> NoRow]
          /\ cold' = IF Present(rows) = {} THEN cold ELSE {}
          /\ UNCHANGED <<doc, points, file>>
      BY <1>5 DEF DeleteRows
    <2>2. p \in Pcs /\ Present(rows) \in SUBSET Chunks
      BY DEF Present
    <2>3. \/ p = "delete_file" /\ Present(rows) = {}
          \/ p = "delete_points"
      OBVIOUS
    <2> HIDE DEF p
    <2>4. op[a].pc = "idle" /\ op'[a].pc = p /\ op'[a].ids = Present(rows)
      BY <1>0, <1>k, <2>1, <2>2, BeginOp
    <2>5. \A c \in Chunks : points[c] # NoRow <=> c \in Present(rows)
      BY <2>4 DEF Present, SequentialInv, PointsFollow
    <2>6. cold' = {}
      BY <2>1 DEF Present, SequentialInv, ColdFollows
    <2> QED
      BY <2>1, <2>3, <2>4, <2>5, <2>6 DEF SequentialInv, PointsFollow, FileFollows,
         ColdFollows, RunsInFull
  <1>6. CASE FindCandidates(a)
    <2> DEFINE ids == {c \in Present(rows) : rows[c].past /\ ~rows[c].archived}
    <2>1. ids \in SUBSET Chunks /\ \A c \in ids : rows[c] # NoRow
      BY DEF Present
    <2>2. Begin(a, "archive", "copy", NoMeta, ids) /\ UNCHANGED <<doc, rows, cold, points, file>>
      BY <1>6 DEF FindCandidates
    <2> HIDE DEF ids
    <2>3. op[a].pc = "idle" /\ op'[a].pc = "copy" /\ op'[a].ids = ids
      BY <1>0, <1>k, <2>1, <2>2, BeginOp
    <2> QED
      BY <2>1, <2>2, <2>3 DEF SequentialInv, PointsFollow, FileFollows, ColdFollows,
         RunsInFull
  <1>7. CASE ListRows(a)
    <2>1. op[a].pc = "list" /\ op[a].kind = "parser_only"
          /\ UNCHANGED <<doc, rows, cold, points, file>>
      BY <1>7 DEF ListRows, SequentialInv, RunsInFull
    <2>2. CASE Return(a)
      <3>1. op'[a].pc = "idle"
        BY <1>0, <2>2, ReturnOp
      <3> QED
        BY <2>1, <3>1 DEF SequentialInv, PointsFollow, FileFollows, ColdFollows, RunsInFull
    <2>3. CASE Goto(a, "parse")
      <3>1. op'[a].pc = "parse" /\ op'[a].kind = op[a].kind
        BY <1>0, <2>3, GotoOp
      <3> QED
        BY <2>1, <3>1 DEF SequentialInv, PointsFollow, FileFollows, ColdFollows, RunsInFull
    <2> QED
      BY <1>7, <2>1, <2>2, <2>3 DEF ListRows
  <1>8. CASE Parse(a)
    <2>1. op' = [op EXCEPT ![a].pc = "upsert", ![a].ids = Chunks, ![a].kind = "reindex"]
      BY <1>8 DEF Parse
    <2>2. op'[a].pc = "upsert" /\ op'[a].ids = Chunks /\ op'[a].kind = "reindex"
      BY <1>0, <2>1 DEF OpStates
    <2> QED
      BY <1>8, <2>2 DEF Parse, SequentialInv, PointsFollow, FileFollows, ColdFollows,
         RunsInFull
  <1>9. CASE Upsert(a)
    <2>1. op[a].pc = "upsert" /\ op[a].kind # "embedding_only" /\ op[a].ids = Chunks
      BY <1>9 DEF Upsert, SequentialInv, RunsInFull
    <2>2. op'[a].pc = "write_doc" /\ op'[a].kind = op[a].kind /\ op'[a].meta = op[a].meta
          /\ op'[a].ids = op[a].ids
      BY <1>0, <1>9, <2>1, GotoOp DEF Upsert
    <2>3. \A c \in Chunks : points'[c] = NewRow(op[a].meta)
      BY <1>9, <2>1 DEF Upsert
    <2> QED
      BY <1>9, <2>1, <2>2, <2>3 DEF Upsert, SequentialInv, PointsFollow, FileFollows,
         ColdFollows, RunsInFull
  <1>10. CASE WriteDoc(a)
    <2>1. op[a].pc = "write_doc" /\ op'[a].pc = "write_rows" /\ op'[a].kind = op[a].kind
          /\ op'[a].meta = op[a].meta /\ op'[a].ids = op[a].ids
      BY <1>0, <1>10, GotoOp DEF WriteDoc
    <2> QED
      BY <1>10, <2>1 DEF WriteDoc, SequentialInv, PointsFollow, FileFollows, ColdFollows,
         RunsInFull
  <1>11. CASE WriteRows(a)
    <2>1. op[a].pc = "write_rows" /\ op'[a].pc = "idle" /\ op[a].ids = Chunks
      BY <1>0, <1>11, ReturnOp DEF WriteRows, SequentialInv, RunsInFull
    <2>2. \A c \in Chunks : rows'[c] = NewRow(op[a].meta)
      BY <1>11, <2>1 DEF WriteRows
    <2>3. \A c \in Chunks : points[c] = NewRow(op[a].meta) /\ rows'[c] # NoRow
      BY <1>0, <2>1, <2>2 DEF SequentialInv, PointsFollow
    <2>4. doc # NoRow /\ file
      BY <2>1 DEF AgreeInv, SequentialInv, FileFollows
    <2>5. ColdFollows(a)'
      BY <1>0, <1>11, <2>1, <2>3 DEF WriteRows, ColdFollows
    <2>6. PointsFollow(a)'
      BY <1>11, <2>1, <2>2, <2>3 DEF WriteRows, PointsFollow
    <2> QED
      BY <1>11, <2>1, <2>4, <2>5, <2>6 DEF WriteRows, SequentialInv, FileFollows, RunsInFull
  <1>12. CASE SyncList(a)
    <2>1. op[a].pc = "sync_list" /\ UNCHANGED <<doc, rows, cold, points, file>>
      BY <1>12 DEF SyncList
    <2>2. op'[a].pc \in {"idle", "sync_rows"}
      <3>1. CASE Return(a)
        BY <1>0, <3>1, ReturnOp
      <3>2. CASE op' = [op EXCEPT ![a].pc = "sync_rows", ![a].ids = Present(rows)]
        BY <1>0, <3>2 DEF OpStates
      <3> QED
        BY <1>12, <3>1, <3>2 DEF SyncList
    <2> QED
      BY <2>1, <2>2 DEF SequentialInv, PointsFollow, FileFollows, ColdFollows, RunsInFull
  <1>13. CASE SyncRows(a)
    <2>1. op[a].pc = "sync_rows" /\ op'[a].pc = "sync_points" /\ op'[a].kind = op[a].kind
          /\ op'[a].meta = op[a].meta /\ op'[a].ids = op[a].ids
      BY <1>0, <1>13, GotoOp DEF SyncRows
    <2>2. \A c \in Chunks :
            rows'[c] = IF c \in op[a].ids /\ rows[c] # NoRow
                       THEN SetField(op[a].kind, op[a].meta, rows[c]) ELSE rows[c]
      BY <1>13 DEF SyncRows, Update
    <2>3. \A c \in Chunks : points[c] = rows[c]
      BY <2>1 DEF SequentialInv, PointsFollow
    <2>4. \A c \in Chunks : rows[c] # NoRow => rows'[c] # NoRow
      <3> SUFFICES ASSUME NEW c \in Chunks, rows[c] # NoRow PROVE rows'[c] # NoRow
        OBVIOUS
      <3>1. rows[c] \in ChunkRow
        BY <1>0
      <3>2. SetField(op[a].kind, op[a].meta, rows[c]) \in ChunkRow
        BY <1>0, <3>1
      <3> QED
        BY <2>2, <3>1, <3>2
    <2>5. PointsFollow(a)'
      BY <1>13, <2>1, <2>2, <2>3 DEF SyncRows, PointsFollow
    <2>6. ColdFollows(a)'
      BY <1>13, <2>1, <2>4 DEF SyncRows, SequentialInv, ColdFollows
    <2> QED
      BY <1>13, <2>1, <2>5, <2>6 DEF SyncRows, SequentialInv, FileFollows, RunsInFull
  <1>14. CASE SyncPoints(a)
    <2>1. op[a].pc = "sync_points" /\ op'[a].pc = "idle"
      BY <1>0, <1>14, ReturnOp DEF SyncPoints
    <2>2. \A c \in Chunks :
            points'[c] = IF c \in op[a].ids /\ points[c] # NoRow
                         THEN SetField(op[a].kind, op[a].meta, points[c]) ELSE points[c]
      BY <1>14 DEF SyncPoints, Update
    <2>3. \A c \in Chunks : points'[c] = rows[c]
      BY <2>1, <2>2 DEF SequentialInv, PointsFollow
    <2> QED
      BY <1>14, <2>1, <2>3 DEF SyncPoints, SequentialInv, PointsFollow, FileFollows,
         ColdFollows, RunsInFull
  <1>15. CASE DeletePoints(a)
    <2>1. op[a].pc = "delete_points" /\ op'[a].pc = "delete_file"
      BY <1>0, <1>15, GotoOp DEF DeletePoints
    <2>2. \A c \in Chunks : points'[c] = NoRow
      BY <1>15, <2>1 DEF DeletePoints, SequentialInv, PointsFollow
    <2> QED
      BY <1>15, <2>1, <2>2 DEF DeletePoints, SequentialInv, PointsFollow, FileFollows,
         ColdFollows, RunsInFull
  <1>16. CASE DeleteFile(a)
    <2>1. op[a].pc = "delete_file" /\ op'[a].pc = "delete_doc" /\ file' = FALSE
      BY <1>0, <1>16, GotoOp DEF DeleteFile
    <2> QED
      BY <1>16, <2>1 DEF DeleteFile, SequentialInv, PointsFollow, FileFollows, ColdFollows,
         RunsInFull
  <1>17. CASE DeleteDoc(a)
    <2>1. op[a].pc = "delete_doc" /\ op'[a].pc = "idle" /\ doc' = NoRow
      BY <1>0, <1>17, ReturnOp DEF DeleteDoc
    <2>2. \A c \in Chunks : rows[c] = NoRow
      BY <2>1 DEF AgreeInv
    <2> QED
      BY <1>17, <2>1, <2>2 DEF DeleteDoc, SequentialInv, PointsFollow, FileFollows,
         ColdFollows, RunsInFull
  <1>18. CASE ArchiveCopy(a)
    <2> DEFINE st == {c \in op[a].ids \cap Present(rows) : ~rows[c].archived}
    <2>1. op' = [op EXCEPT ![a].pc = "mark", ![a].staged = st]
      BY <1>18 DEF ArchiveCopy
    <2>2. st \subseteq op[a].ids
      OBVIOUS
    <2> HIDE DEF st
    <2>3. op[a].pc = "copy" /\ op'[a].pc = "mark" /\ op'[a].ids = op[a].ids
          /\ op'[a].staged = st
      BY <1>0, <1>18, <2>1 DEF OpStates, ArchiveCopy
    <2> QED
      BY <1>18, <2>2, <2>3 DEF ArchiveCopy, SequentialInv, PointsFollow, FileFollows,
         ColdFollows, RunsInFull
  <1>19. CASE ArchiveMark(a)
    <2> DEFINE mk == {c \in op[a].ids \cap Present(rows) : ~rows[c].archived}
    <2>1. /\ rows' = Update(rows, mk, LAMBDA r : [r EXCEPT !.archived = TRUE])
          /\ cold' = cold \cup op[a].staged
          /\ \/ mk = {} /\ Return(a)
             \/ op' = [op EXCEPT ![a].pc = "sync_archived", ![a].ids = mk]
          /\ op[a].pc = "mark" /\ UNCHANGED <<doc, points, file>>
      BY <1>19 DEF ArchiveMark
    <2> HIDE DEF mk
    <2>2. \A c \in Chunks :
            rows'[c] = IF c \in mk /\ rows[c] # NoRow THEN Marked(rows[c]) ELSE rows[c]
      BY <2>1 DEF Update, Marked
    <2>3. \A c \in Chunks : points[c] = rows[c]
      BY <2>1 DEF SequentialInv, PointsFollow
    <2>4. \A c \in Chunks : rows[c] # NoRow => rows'[c] # NoRow
      <3>1. \A r \in ChunkRow : Marked(r) \in ChunkRow
        BY DEF Marked
      <3> QED
        BY <1>0, <2>2, <3>1
    <2>5. \/ mk = {} /\ op'[a].pc = "idle"
          \/ op'[a].pc = "sync_archived" /\ op'[a].ids = mk
      <3>1. CASE mk = {} /\ Return(a)
        BY <1>0, <3>1, ReturnOp
      <3>2. CASE op' = [op EXCEPT ![a].pc = "sync_archived", ![a].ids = mk]
        BY <1>0, <3>2 DEF OpStates
      <3> QED
        BY <2>1, <3>1, <3>2
    <2>6. PointsFollow(a)'
      BY <2>1, <2>2, <2>3, <2>5 DEF PointsFollow
    <2>7. ColdFollows(a)'
      <3>1. ASSUME \A c \in Chunks : rows'[c] = NoRow PROVE cold' = {}
        <4>1. \A c \in Chunks : rows[c] = NoRow
          BY <2>4, <3>1
        <4>2. op[a].staged = {} /\ cold = {}
          BY <1>0, <2>1, <4>1 DEF SequentialInv, ColdFollows
        <4> QED
          BY <2>1, <4>2
      <3> QED
        BY <2>5, <3>1 DEF ColdFollows
    <2> QED
      BY <2>1, <2>5, <2>6, <2>7 DEF SequentialInv, FileFollows, RunsInFull
  <1>20. CASE SyncArchived(a)
    <2>1. op[a].pc = "sync_archived" /\ op'[a].pc = "idle"
      BY <1>0, <1>20, ReturnOp DEF SyncArchived
    <2>2. \A c \in Chunks :
            points'[c] = IF c \in op[a].ids /\ points[c] # NoRow
                         THEN Marked(points[c]) ELSE points[c]
      BY <1>20 DEF SyncArchived, Update, Marked
    <2>3. \A c \in Chunks : points'[c] = rows[c]
      BY <2>1, <2>2 DEF SequentialInv, PointsFollow
    <2> QED
      BY <1>20, <2>1, <2>3 DEF SyncArchived, SequentialInv, PointsFollow, FileFollows,
         ColdFollows, RunsInFull
  <1>21. ~Raise(a)
    BY DEF Raise, SequentialInv, FileFollows
  <1>22. CASE Request(a)
    BY <1>22, <1>2, <1>3, <1>4, <1>5, <1>6 DEF Request, Approve, Patch
  <1>23. CASE Step(a)
    BY <1>23, <1>7, <1>8, <1>9, <1>10, <1>11, <1>12, <1>13, <1>14, <1>15, <1>16, <1>17,
       <1>18, <1>19, <1>20, <1>21 DEF Step
  <1> QED
    BY <1>1, <1>22, <1>23 DEF Next

\* The stores agree in the initial state.
LEMMA SequentialInit ==
    ASSUME NEW a \in Slots, Init
    PROVE  SequentialInv(a)
  BY IdleFacts DEF Init, SequentialInv, PointsFollow, FileFollows, ColdFollows, RunsInFull,
     IndexPcs, SamePcs

\* set_approval, update and the archiver: one request at a time and without failures,
\* for any chunks and metadata: between two requests every point has the payload of its
\* row and every row the approval and the validity of the document.
THEOREM StoresAgree ==
    ASSUME NEW a \in Slots, Slots = {a}, Faults = {}, "embedding_only" \notin Does[a],
           Splits \subseteq {Chunks}
    PROVE  Spec => []LayersAgree
  <1>1. Init => AgreeInv(a) /\ SequentialInv(a)
    BY AgreeInit, SequentialInit
  <1>2. TypeOK /\ AgreeInv(a) /\ SequentialInv(a) /\ [Next]_vars
           => AgreeInv(a)' /\ SequentialInv(a)'
    BY AgreeNext, SequentialNext
  <1>3. AgreeInv(a) /\ SequentialInv(a) => LayersAgree
    BY DEF LayersAgree, Quiet, At, AgreeInv, AgreePcs, WorkerPcs, RowsMatch, Match,
       SequentialInv, PointsFollow, SamePcs
  <1> QED
    BY <1>1, <1>2, <1>3, TypeInit, TypeNext, PTL DEF Spec

\* hard_delete: one request at a time and without failures, a document without its row
\* has left no chunk, no copy, no point and no file.
THEOREM DeletedIsGone ==
    ASSUME NEW a \in Slots, Slots = {a}, Faults = {}, "embedding_only" \notin Does[a],
           Splits \subseteq {Chunks}
    PROVE  Spec => []HardDeleteIsComplete
  <1>1. Init => AgreeInv(a) /\ SequentialInv(a)
    BY AgreeInit, SequentialInit
  <1>2. TypeOK /\ AgreeInv(a) /\ SequentialInv(a) /\ [Next]_vars
           => AgreeInv(a)' /\ SequentialInv(a)'
    BY AgreeNext, SequentialNext
  <1>3. AgreeInv(a) /\ SequentialInv(a) => HardDeleteIsComplete
    <2> SUFFICES ASSUME AgreeInv(a), SequentialInv(a), op[a].pc = "idle", doc = NoRow
                 PROVE  Present(rows) = {} /\ Present(points) = {} /\ cold = {} /\ ~file
      BY DEF HardDeleteIsComplete, Quiet, At
    <2>1. \A c \in Chunks : rows[c] = NoRow
      BY DEF AgreeInv, AgreePcs, WorkerPcs, RowsMatch, Match
    <2> QED
      BY <2>1 DEF Present, SequentialInv, PointsFollow, FileFollows, ColdFollows, SamePcs,
         FilePcs
  <1> QED
    BY <1>1, <1>2, <1>3, TypeInit, TypeNext, PTL DEF Spec
=============================================================================
