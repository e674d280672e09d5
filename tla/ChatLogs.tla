------------------------------ MODULE ChatLogs ------------------------------
(***************************************************************************)
(* The chat_logs and conversations of one tenant, the approval that lets   *)
(* a turn store its question as it is, and everything that later changes a *)
(* row: erasure by the user, hard delete of a cited document, feedback,    *)
(* and the reverification of citations, which reads a page of rows, asks   *)
(* the embedder and writes back what it has read.                          *)
(*                                                                         *)
(* Each action is one transaction.  The rows of tenant_lifecycle_logs and  *)
(* the events for the ledger are not part of the state.                    *)
(***************************************************************************)
EXTENDS Integers, Sequences, FiniteSets, SequencesExt

CONSTANTS
    Requests,       \* chat turns, by request_id
    Users,
    Convs,          \* conversation ids
    Docs,           \* documents an answer may cite
    PageSize,       \* rows per page of a reverification (20)
    MaxRecords,     \* max_records of a reverification
    Reverifications, \* bound on the reverifications
    Withdrawals,    \* bound on erasures and hard deletes together
    Approvals,      \* bound on changes of the approval
    None

Questions == {"raw", "masked", "null"}

\* rewritten_query: NULL, or a text that may be the question as it was typed
Rewritten == {"query", "null"}

RowType ==
    [user : Users \cup {None}, conv : Convs, question : Questions, rewritten : Rewritten,
     answer : BOOLEAN, cites : SUBSET Docs, masked : SUBSET Docs, policy : {"plain", "mask", "erased"},
     feedback : Users \cup {None}, seen : BOOLEAN]

ConvType == [owner : Users, title : {"raw", "masked", "own"}, seen : BOOLEAN]

TurnType ==
    [phase : {"new", "run", "written", "lost"}, plain : BOOLEAN, user : Users \cup {None},
     conv : Convs \cup {None}, seen : BOOLEAN]

ASSUME LogsAssumption ==
    /\ PageSize \in Nat \ {0}
    /\ MaxRecords \in Nat \ {0}
    /\ Reverifications \in Nat /\ Withdrawals \in Nat /\ Approvals \in Nat
    /\ None \notin Users \cup RowType \cup ConvType

VARIABLES
    approval,  \* the active approval: "none", "valid", or "expired"
    turn,      \* Requests -> the turn: its phase, and what its state holds
    logs,      \* Requests -> the row of chat_logs, or None
    order,     \* the rows by created_at, oldest first
    convs,     \* Convs -> the row of conversations, or None
    rev,       \* the reverification that runs
    left,      \* what the bounds leave
    erased,    \* rows that their user has erased
    withdrawn, \* Requests -> cited documents that were masked in the row
    crossed    \* rows that changed while a reverification held a copy

vars == <<approval, turn, logs, order, convs, rev, left, erased, withdrawn, crossed>>

NoTurn == [phase |-> "new", user |-> None, conv |-> None, plain |-> FALSE, seen |-> FALSE]

NoRev == [pc |-> "idle", page |-> 0, full |-> FALSE, queue |-> <<>>, scanned |-> <<>>,
          moved |-> FALSE]

Init ==
    /\ approval = "none"
    /\ turn = [r \in Requests |-> NoTurn]
    /\ logs = [r \in Requests |-> None]
    /\ order = <<>>
    /\ convs = [c \in Convs |-> None]
    /\ rev = NoRev
    /\ left = [rev |-> Reverifications, withdraw |-> Withdrawals, approve |-> Approvals]
    /\ erased = {}
    /\ withdrawn = [r \in Requests |-> {}]
    /\ crossed = {}

InFlight(r) == turn[r].phase = "run"

-----------------------------------------------------------------------------
(* Approvals of plain storage.                                             *)

\* Turns in flight remember that there was a valid approval while they ran
Witness == [r \in Requests |-> IF InFlight(r) THEN [turn[r] EXCEPT !.seen = TRUE] ELSE turn[r]]

\* INSERT under the partial unique index: one active row, expired or not
ApprovePlain ==
    /\ left.approve > 0
    /\ approval = "none"
    /\ approval' = "valid"
    /\ turn' = Witness
    /\ left' = [left EXCEPT !.approve = @ - 1]
    /\ UNCHANGED <<logs, order, convs, rev, erased, withdrawn, crossed>>

RevokeActive ==
    /\ approval # "none"
    /\ approval' = "none"
    /\ UNCHANGED <<turn, logs, order, convs, rev, left, erased, withdrawn, crossed>>

\* valid_until passes; the row stays active
Expire ==
    /\ approval = "valid"
    /\ approval' = "expired"
    /\ UNCHANGED <<turn, logs, order, convs, rev, left, erased, withdrawn, crossed>>

\* Mutant: every active row counts
IsPlainApprovedActive == approval # "none"

IsPlainApproved == approval = "valid"

-----------------------------------------------------------------------------
(* Turns.                                                                  *)

\* The configuration of a turn is loaded; the tenant is configured for plain
StartTurn(r, u, c) ==
    /\ turn[r].phase = "new"
    /\ turn' = [turn EXCEPT ![r] = [phase |-> "run", user |-> u, conv |-> c,
                                    plain |-> IsPlainApproved, seen |-> approval = "valid"]]
    /\ UNCHANGED <<approval, logs, order, convs, rev, left, erased, withdrawn, crossed>>

\* Mutant: the name of the policy is stored for the text
StoredPolicy(t) == IF t.plain THEN "plain" ELSE "mask"

Stored(t) == IF t.plain THEN "raw" ELSE "masked"

\* The policy decides on the question only: the rewritten query is stored as it is
Row(t, cites, query) ==
    [user |-> t.user, conv |-> t.conv, question |-> Stored(t), rewritten |-> query,
     answer |-> TRUE, cites |-> cites, masked |-> {}, policy |-> IF t.plain THEN "plain" ELSE "mask",
     feedback |-> None, seen |-> t.seen]

\* The conversation when it is not there (ON CONFLICT DO NOTHING), and the row
WriteLog(r, cites, query) ==
    /\ InFlight(r)
    /\ LET t == turn[r]
       IN  /\ logs' = [logs EXCEPT ![r] = Row(t, cites, query)]
           /\ convs' = [convs EXCEPT ![t.conv] =
                  IF @ = None THEN [owner |-> t.user, title |-> Stored(t), seen |-> t.seen]
                  ELSE @]
    /\ order' = Append(order, r)
    /\ turn' = [turn EXCEPT ![r] = [NoTurn EXCEPT !.phase = "written"]]
    /\ rev' = [rev EXCEPT !.moved = rev.pc # "idle"]
    /\ UNCHANGED <<approval, left, erased, withdrawn, crossed>>

\* The writer's failure is counted, the answer is delivered all the same
LoseLog(r) ==
    /\ InFlight(r)
    /\ turn' = [turn EXCEPT ![r] = [NoTurn EXCEPT !.phase = "lost"]]
    /\ UNCHANGED <<approval, logs, order, convs, rev, left, erased, withdrawn, crossed>>

-----------------------------------------------------------------------------
(* Changes by users and administrators.                                    *)

Owns(u, r) == logs[r] # None /\ logs[r].user = u

\* The last one counts
Feedback(u, r) ==
    /\ Owns(u, r)
    /\ logs' = [logs EXCEPT ![r].feedback = u]
    /\ UNCHANGED <<approval, turn, order, convs, rev, left, erased, withdrawn, crossed>>

\* Copies of these rows that a reverification has not written back yet
Held(rows) == {r \in rows : \E k \in DOMAIN rev.queue : rev.queue[k].id = r}

\* Mutant: the columns of the reverification are forgotten
ErasedRowKeepsCitations(row) ==
    [row EXCEPT !.question = "null", !.rewritten = "null", !.answer = FALSE,
                !.policy = "erased", !.user = None]

ErasedRow(row) ==
    [row EXCEPT !.question = "null", !.rewritten = "null", !.answer = FALSE,
                !.cites = {}, !.masked = {}, !.policy = "erased", !.user = None]

\* DELETE /me/chat_logs with mode mask_only
EraseMyLogs(u) ==
    LET rows == {r \in Requests : Owns(u, r)}
    IN  /\ left.withdraw > 0
        /\ logs' = [r \in Requests |-> IF r \in rows THEN ErasedRow(logs[r]) ELSE logs[r]]
        /\ erased' = erased \cup rows
        /\ crossed' = crossed \cup Held(rows)
        /\ left' = [left EXCEPT !.withdraw = @ - 1]
        /\ UNCHANGED <<approval, turn, order, convs, rev, withdrawn>>

\* The numbers of S in ascending order (there is one such sequence)
Ascending(S) ==
    {f \in [1 .. Cardinality(S) -> S] :
        /\ S \subseteq Range(f)
        /\ \A i, j \in DOMAIN f : i < j => f[i] < f[j]}

\* The rows are deleted: mode hard_delete, and delete_logs of a hard delete
Drop(rows) ==
    /\ left.withdraw > 0
    /\ logs' = [r \in Requests |-> IF r \in rows THEN None ELSE logs[r]]
    /\ \E stay \in Ascending({k \in DOMAIN order : order[k] \notin rows}) :
          order' = [k \in DOMAIN stay |-> order[stay[k]]]
    /\ rev' = [rev EXCEPT !.moved = @ \/ (rev.pc # "idle" /\ rows # {})]
    /\ left' = [left EXCEPT !.withdraw = @ - 1]
    /\ UNCHANGED <<approval, turn, convs, erased, withdrawn, crossed>>

DeleteMyLogs(u) == Drop({r \in Requests : Owns(u, r)})

Citing(d) == {r \in Requests : logs[r] # None /\ d \in logs[r].cites}

DeleteLogs(d) == Drop(Citing(d))

\* mask_excerpts of a hard delete
MaskExcerpts(d) ==
    /\ left.withdraw > 0
    /\ logs' = [r \in Requests |-> IF r \in Citing(d) THEN [logs[r] EXCEPT !.masked = @ \cup {d}]
                                   ELSE logs[r]]
    /\ withdrawn' = [r \in Requests |-> IF r \in Citing(d) THEN withdrawn[r] \cup {d}
                                        ELSE withdrawn[r]]
    /\ crossed' = crossed \cup Held(Citing(d))
    /\ left' = [left EXCEPT !.withdraw = @ - 1]
    /\ UNCHANGED <<approval, turn, order, convs, rev, erased>>

OwnsConv(u, c) == convs[c] # None /\ convs[c].owner = u

PatchConversation(u, c) ==
    /\ OwnsConv(u, c)
    /\ convs[c].title # "own"
    /\ convs' = [convs EXCEPT ![c].title = "own"]
    /\ UNCHANGED <<approval, turn, logs, order, rev, left, erased, withdrawn, crossed>>

\* The row goes, the chat_logs stay
DeleteConversation(u, c) ==
    /\ OwnsConv(u, c)
    /\ convs' = [convs EXCEPT ![c] = None]
    /\ UNCHANGED <<approval, turn, logs, order, rev, left, erased, withdrawn, crossed>>

-----------------------------------------------------------------------------
(* Reverification.                                                         *)

\* list_by_tenant: newest first, LIMIT size OFFSET (page - 1) * size
ListByTenant(page, size) ==
    LET newest == Reverse(order)
        offset == (page - 1) * size
        last == IF offset + size < Len(newest) THEN offset + size ELSE Len(newest)
    IN  SubSeq(newest, offset + 1, last)

StartReverify ==
    /\ rev.pc = "idle"
    /\ left.rev > 0
    /\ rev' = [NoRev EXCEPT !.pc = "page", !.page = 1]
    /\ left' = [left EXCEPT !.rev = @ - 1]
    /\ UNCHANGED <<approval, turn, logs, order, convs, erased, withdrawn, crossed>>

\* The size of a page shrinks with the cap, and so does its offset
PageLength == IF MaxRecords - Len(rev.scanned) < PageSize THEN MaxRecords - Len(rev.scanned)
              ELSE PageSize

Copies(ids) == [k \in DOMAIN ids |-> [id |-> ids[k], row |-> logs[ids[k]]]]

FetchPage ==
    /\ rev.pc = "page"
    /\ LET items == ListByTenant(rev.page, PageLength)
       IN  rev' = IF Len(rev.scanned) >= MaxRecords \/ items = <<>>
                  THEN [rev EXCEPT !.pc = "done"]
                  ELSE [rev EXCEPT !.pc = "rows", !.queue = Copies(items),
                                   !.full = Len(items) >= PageLength]
    /\ UNCHANGED <<approval, turn, logs, order, convs, left, erased, withdrawn, crossed>>

\* Mutant: one page is all
AfterRowsEarly(v) == IF v.queue # <<>> THEN v ELSE [v EXCEPT !.pc = "done"]

\* A page that was not full is the last one
AfterRows(v) ==
    CASE v.queue # <<>> -> v
      [] v.queue = <<>> /\ ~v.full -> [v EXCEPT !.pc = "done"]
      [] v.queue = <<>> /\ v.full -> [v EXCEPT !.pc = "page", !.page = @ + 1]

\* A copy without citations, or one the embedder fails on, is passed over
SkipRow ==
    /\ rev.pc = "rows"
    /\ rev' = AfterRows([rev EXCEPT !.queue = Tail(@),
                                    !.scanned = Append(@, Head(rev.queue).id)])
    /\ UNCHANGED <<approval, turn, logs, order, convs, left, erased, withdrawn, crossed>>

\* UPDATE ... WHERE request_id: the copied citations, with new levels
UpdateRow ==
    /\ rev.pc = "rows"
    /\ LET copy == Head(rev.queue)
       IN  /\ copy.row.cites # {}
           /\ logs' = IF logs[copy.id] = None THEN logs
                      ELSE [logs EXCEPT ![copy.id].cites = copy.row.cites,
                                        ![copy.id].masked = copy.row.masked]
           /\ rev' = AfterRows([rev EXCEPT !.queue = Tail(@),
                                           !.scanned = Append(@, copy.id)])
    /\ UNCHANGED <<approval, turn, order, convs, left, erased, withdrawn, crossed>>

\* The summary is returned
EndReverify ==
    /\ rev.pc = "done"
    /\ rev' = NoRev
    /\ UNCHANGED <<approval, turn, logs, order, convs, left, erased, withdrawn, crossed>>

Reverify == FetchPage \/ SkipRow \/ UpdateRow \/ EndReverify

Next ==
    \/ ApprovePlain \/ RevokeActive \/ Expire
    \/ \E r \in Requests :
          \/ \E u \in Users, c \in Convs : StartTurn(r, u, c)
          \/ \E cites \in SUBSET Docs, query \in Rewritten : WriteLog(r, cites, query)
          \/ LoseLog(r)
          \/ \E u \in Users : Feedback(u, r)
    \/ \E u \in Users : EraseMyLogs(u) \/ DeleteMyLogs(u)
    \/ \E d \in Docs : DeleteLogs(d) \/ MaskExcerpts(d)
    \/ \E u \in Users, c \in Convs : PatchConversation(u, c) \/ DeleteConversation(u, c)
    \/ StartReverify
    \/ Reverify

Spec == Init /\ [][Next]_vars

-----------------------------------------------------------------------------
(* Properties.                                                             *)

\* Every variable has its type, and order lists the rows that are there
TypeOK ==
    /\ approval \in {"none", "valid", "expired"}
    /\ \A r \in Requests :
         /\ turn[r] \in TurnType
         /\ logs[r] \in RowType \cup {None}
         /\ withdrawn[r] \in SUBSET Docs
    /\ {order[k] : k \in DOMAIN order} = {r \in Requests : logs[r] # None}
    /\ \A c \in Convs : convs[c] \in ConvType \cup {None}
    /\ rev.pc \in {"idle", "page", "rows", "done"}
    /\ Len(rev.scanned) <= MaxRecords
    /\ erased \subseteq Requests /\ crossed \subseteq Requests

(* What pii_storage_policy says of a row is true of its question, and the  *)
(* question is stored as it was typed, in a row or in the title that is    *)
(* cut from it, only if a valid approval existed while the turn ran:       *)
(* revoking or letting it expire ends plain storage for every turn that    *)
(* starts later, and only for those.  (The approval does not govern        *)
(* rewritten_query, which is stored as it is under either policy.)         *)
PlainNeedsApproval ==
    /\ \A r \in Requests :
         logs[r] # None =>
             /\ logs[r].question = "raw" <=> logs[r].policy = "plain"
             /\ logs[r].policy = "plain" => logs[r].seen
    /\ \A c \in Convs : convs[c] # None /\ convs[c].title = "raw" => convs[c].seen

Blanked(row) ==
    /\ row.question = "null" /\ row.rewritten = "null" /\ ~row.answer
    /\ row.user = None /\ row.policy = "erased"

(* What a user has erased stays erased: question, rewritten query, answer  *)
(* and identity never return, feedback included, and the citations return  *)
(* only if a reverification had copied the row before the erasure.         *)
ErasedStaysErased ==
    \A r \in erased :
        logs[r] # None =>
            /\ Blanked(logs[r])
            /\ r \notin crossed => logs[r].cites = {}

(* An excerpt that a hard delete has masked stays masked in the rows that  *)
(* existed, unless a reverification had copied the row before.             *)
MaskedStaysMasked ==
    \A r \in Requests :
        logs[r] # None /\ r \notin crossed =>
            logs[r].cites \cap withdrawn[r] \subseteq logs[r].masked

(* Erasure and masking are one-way, whatever is written to the row later.  *)
RemovedStaysRemoved == ErasedStaysErased /\ MaskedStaysMasked

(* A reverification that nobody disturbs looks at each of the newest       *)
(* max_records rows, and at none of them twice.  (Unless max_records is    *)
(* not a multiple of the page size: then the last, shorter page starts too *)
(* early.)                                                                 *)
ReverifyIsComplete ==
    rev.pc = "done" /\ ~rev.moved /\ MaxRecords % PageSize = 0 =>
        LET newest == Reverse(order)
            n == IF MaxRecords < Len(newest) THEN MaxRecords ELSE Len(newest)
        IN  rev.scanned = SubSeq(newest, 1, n)
=============================================================================
