----------------------- MODULE AssessmentItems_proofs -----------------------
(***************************************************************************)
(* The item bank, for any number of clients, items and questions: the      *)
(* inductive invariants behind ItemsAreApprovedByDecision,                 *)
(* EveryUseIsCounted and ImportsAddNoDuplicate of ControlPlane_proofs.     *)
(*                                                                         *)
(* PATCH writes back the row that it has read in an earlier transaction,   *)
(* whatever the bank holds by then.  The invariant therefore also speaks   *)
(* of the rows in the hands of such requests (HeldByDecision).  An import  *)
(* adds no duplicate because what it has read of the bank, and what it has *)
(* added since, is all there is unless others write too (ImportsKnow).     *)
(***************************************************************************)
EXTENDS AssessmentItems, TLAPS

AnyRow == [question : Questions \cup {"none"}, status : Statuses \cup {"absent"},
           decided : BOOLEAN]

Decided(row) == row.status = "approved" => row.decided

BankTyped == bank \in [Items -> AnyRow]
RequestsTyped == DOMAIN itemReq = Clients /\ \A c \in Clients : "step" \in DOMAIN itemReq[c]

Sound(request) == request.step = "patch" => request.row \in AnyRow /\ Decided(request.row)

HeldByDecision == \A c \in Clients : Sound(itemReq[c])

ItemInv == BankTyped /\ RequestsTyped /\ ApprovedByDecision /\ HeldByDecision

-----------------------------------------------------------------------------

\* A request goes on and keeps a row by decision, or none: with Go the imports of
\* the others learn that the bank has changed, with Stay they do not.
LEMMA RequestMoves ==
    ASSUME ItemInv, NEW c \in Clients, NEW request, "step" \in DOMAIN request,
           Sound(request), Go(c, request) \/ Stay(c, request)
    PROVE  RequestsTyped' /\ HeldByDecision'
<1>1. ASSUME NEW d \in Clients
      PROVE  /\ "step" \in DOMAIN [itemReq[d] EXCEPT !.dirty = TRUE]
             /\ At(d, "import") => [itemReq[d] EXCEPT !.dirty = TRUE].step = "import"
  BY DEF ItemInv, RequestsTyped, At
<1>2. CASE Go(c, request)
  <2>1. RequestsTyped'
    BY <1>1, <1>2 DEF ItemInv, RequestsTyped, Go
  <2>2. ASSUME NEW d \in Clients PROVE Sound(itemReq'[d])
    <3>1. CASE d = c
      BY <1>2, <3>1 DEF Go
    <3>2. CASE d # c /\ At(d, "import")
      BY <1>1, <1>2, <3>2 DEF Go, Sound
    <3>3. CASE d # c /\ ~At(d, "import")
      BY <1>2, <3>3 DEF Go, ItemInv, HeldByDecision
    <3> QED BY <3>1, <3>2, <3>3
  <2> QED BY <2>1, <2>2 DEF HeldByDecision, Sound, Decided, AnyRow
<1>3. CASE Stay(c, request)
  <2>1. /\ DOMAIN itemReq' = Clients /\ itemReq'[c] = request
        /\ \A d \in Clients \ {c} : itemReq'[d] = itemReq[d]
    BY <1>3 DEF Stay, ItemInv, RequestsTyped
  <2>2. RequestsTyped'
    BY <2>1 DEF ItemInv, RequestsTyped
  <2>3. \A d \in Clients : Sound(itemReq'[d])
    BY <2>1 DEF ItemInv, HeldByDecision
  <2> QED BY <2>2, <2>3 DEF HeldByDecision, Sound, Decided, AnyRow
<1> QED BY <1>2, <1>3

\* upsert: a row by decision is written over whatever the bank holds there.
LEMMA UpsertKeeps ==
    ASSUME ItemInv, NEW i, NEW row \in AnyRow, Decided(row), Upsert(i, row)
    PROVE  BankTyped' /\ ApprovedByDecision'
<1>1. bank' = [bank EXCEPT ![i] = row]
  BY DEF Upsert
<1>2. BankTyped'
  BY <1>1 DEF ItemInv, BankTyped
<1>3. \A k \in Items : Decided(bank'[k])
  BY <1>1 DEF ItemInv, BankTyped, ApprovedByDecision, Decided
<1> QED BY <1>2, <1>3 DEF ApprovedByDecision, Decided

\* The rows that the handlers make: approved only with the decision, when they
\* carry a status given by an administrator, and never by a validator.
LEMMA MadeRows ==
    /\ \A q \in Questions, s \in Statuses :
         Row(q, s, s = "approved") \in AnyRow /\ Decided(Row(q, s, s = "approved"))
    /\ \A q \in Questions, s \in {"draft", "reviewed"} :
         Row(q, s, FALSE) \in AnyRow /\ Decided(Row(q, s, FALSE))
    /\ \A row \in AnyRow, q \in Questions :
         Decided(row) => [row EXCEPT !.question = q] \in AnyRow
                         /\ Decided([row EXCEPT !.question = q])
<1>1. ASSUME NEW q \in Questions, NEW s \in Statuses
      PROVE  Row(q, s, s = "approved") \in AnyRow /\ Decided(Row(q, s, s = "approved"))
  BY DEF Row, AnyRow, Decided, Statuses
<1>2. ASSUME NEW q \in Questions, NEW s \in {"draft", "reviewed"}
      PROVE  Row(q, s, FALSE) \in AnyRow /\ Decided(Row(q, s, FALSE))
  BY DEF Row, AnyRow, Decided, Statuses
<1>3. ASSUME NEW row \in AnyRow, NEW q \in Questions, Decided(row)
      PROVE  [row EXCEPT !.question = q] \in AnyRow /\ Decided([row EXCEPT !.question = q])
  BY <1>3 DEF AnyRow, Decided
<1> QED BY <1>1, <1>2, <1>3

\* The rows of an import: approved only in a mode that approves.
LEMMA ImportsDecide ==
    ASSUME NEW q \in Questions, NEW row \in ImportedRows(q)
    PROVE  row \in Rows /\ row \in AnyRow /\ Decided(row) /\ row.question = q
<1>0. PICK mode \in Modes, sound \in BOOLEAN : row = ImportedRow(q, mode, sound)
  BY Zenon DEF ImportedRows
<1> DEFINE s == ImportedStatus(mode, sound)
           d == s = "approved" /\ (mode.auto \/ mode.default = "approved")
<1>1. s \in Statuses /\ d \in BOOLEAN /\ (s = "approved" => d)
  BY DEF ImportedStatus, Modes, Statuses
<1>2. row = [question |-> q, status |-> s, decided |-> d]
  BY <1>0 DEF ImportedRow, Row
<1> HIDE DEF s, d
<1> QED BY <1>1, <1>2 DEF Rows, AnyRow, Decided

-----------------------------------------------------------------------------

\* Every handler of the item bank keeps the invariant.
LEMMA ItemStep ==
    ASSUME ItemInv, NEW c \in Clients,
           \/ ExtractRead(c) \/ Touch(c)
           \/ StartGenerate(c) \/ GenerateItem(c) \/ EndGenerate(c)
           \/ StartFigureReuse(c) \/ FigureItem(c) \/ Validate(c)
           \/ CreateRead(c) \/ Create(c) \/ PatchRead(c) \/ Patch(c)
           \/ ApproveRead(c) \/ Approve(c) \/ ApproveAll(c) \/ Raises(c)
           \/ ImportRead(c) \/ ImportItem(c) \/ EndImport(c)
    PROVE  ItemInv'
<1>i. "step" \in DOMAIN Idle /\ Sound(Idle)
  BY DEF Idle, Sound
<1>g. LET g == [step |-> "generate"] IN "step" \in DOMAIN g /\ Sound(g)
  BY DEF Sound
<1>c. "step" \in DOMAIN itemReq[c] /\ Sound(itemReq[c])
  BY DEF ItemInv, RequestsTyped, HeldByDecision
<1>b. UNCHANGED bank => BankTyped' /\ ApprovedByDecision'
  BY DEF ItemInv, BankTyped, ApprovedByDecision
<1>1. CASE UNCHANGED bank /\ \E request : /\ "step" \in DOMAIN request /\ Sound(request)
                                         /\ Stay(c, request)
  BY <1>b, <1>1, RequestMoves DEF ItemInv
<1>2. ASSUME NEW i, NEW row \in AnyRow, Decided(row), Upsert(i, row),
             NEW request, "step" \in DOMAIN request, Sound(request), Go(c, request)
      PROVE  ItemInv'
  BY <1>2, UpsertKeeps, RequestMoves DEF ItemInv
<1>3. CASE ExtractRead(c)
  <2>1. PICK picks : Stay(c, [step |-> "touch", picks |-> picks])
    BY <1>3 DEF ExtractRead
  <2>2. LET t == [step |-> "touch", picks |-> picks] IN "step" \in DOMAIN t /\ Sound(t)
    BY DEF Sound
  <2>3. UNCHANGED bank
    BY <1>3 DEF ExtractRead
  <2> QED BY <1>1, <1>g, <2>1, <2>2, <2>3
<1>4. CASE Touch(c)
  <2>1. PICK request \in {[step |-> "generate"], Idle} : Stay(c, request)
    BY <1>4 DEF Touch
  <2>2. UNCHANGED bank
    BY <1>4 DEF Touch
  <2> QED BY <1>1, <1>g, <1>i, <2>1, <2>2
<1>5. CASE StartGenerate(c)
  BY <1>1, <1>g, <1>5 DEF StartGenerate
<1>6. CASE EndGenerate(c) \/ EndImport(c) \/ Raises(c)
  BY <1>1, <1>i, <1>6 DEF EndGenerate, EndImport, Raises
<1>7. CASE StartFigureReuse(c)
  <2>1. LET f == [step |-> "figure"] IN "step" \in DOMAIN f /\ Sound(f)
    BY DEF Sound
  <2> QED BY <1>1, <1>7, <2>1 DEF StartFigureReuse
<1>8. CASE GenerateItem(c)
  <2>1. PICK i \in Items, q \in Questions, s \in {"draft", "reviewed"} : Upsert(i, Row(q, s, FALSE))
    BY <1>8 DEF GenerateItem, Outcomes
  <2>2. Go(c, itemReq[c])
    BY <1>8 DEF GenerateItem
  <2> QED BY <1>2, <1>c, <2>1, <2>2, MadeRows
<1>9. CASE FigureItem(c)
  <2>1. PICK i \in Items, q \in Questions : Upsert(i, Row(q, "draft", FALSE))
    BY <1>9 DEF FigureItem
  <2>2. Go(c, itemReq[c])
    BY <1>9 DEF FigureItem
  <2> QED BY <1>2, <1>c, <2>1, <2>2, MadeRows
<1>10. CASE Validate(c)
  <2>1. PICK i \in Items, q \in Questions, s \in {"draft", "reviewed"} : Upsert(i, Row(q, s, FALSE))
    BY <1>10 DEF Validate, Outcomes
  <2>2. Go(c, Idle)
    BY <1>10 DEF Validate
  <2> QED BY <1>2, <1>i, <2>1, <2>2, MadeRows
<1>11. CASE CreateRead(c) \/ ApproveRead(c)
  <2>1. PICK i \in Items, step \in {"create", "approve"} : Stay(c, [step |-> step, item |-> i])
    BY <1>11 DEF CreateRead, ApproveRead
  <2>2. LET t == [step |-> step, item |-> i] IN "step" \in DOMAIN t /\ Sound(t)
    BY DEF Sound
  <2>3. UNCHANGED bank
    BY <1>11 DEF CreateRead, ApproveRead
  <2> QED BY <1>1, <2>1, <2>2, <2>3
<1>12. CASE Create(c)
  <2>1. PICK q \in Questions, s \in Statuses : Upsert(itemReq[c].item, Row(q, s, s = "approved"))
    BY <1>12 DEF Create
  <2>2. Go(c, Idle)
    BY <1>12 DEF Create
  <2> QED BY <1>2, <1>i, <2>1, <2>2, MadeRows
<1>13. CASE PatchRead(c)
  <2>1. PICK i \in Items : Stay(c, [step |-> "patch", item |-> i, row |-> bank[i]])
    BY <1>13 DEF PatchRead, Present
  <2>2. bank[i] \in AnyRow /\ Decided(bank[i])
    BY DEF ItemInv, BankTyped, ApprovedByDecision, Decided
  <2>3. LET t == [step |-> "patch", item |-> i, row |-> bank[i]]
        IN  "step" \in DOMAIN t /\ Sound(t)
    BY <2>2 DEF Sound
  <2>4. UNCHANGED bank
    BY <1>13 DEF PatchRead
  <2> QED BY <1>1, <2>1, <2>3, <2>4
<1>14. CASE Patch(c)
  <2>1. Go(c, Idle)
    BY <1>14 DEF Patch
  <2>2. itemReq[c].row \in AnyRow /\ Decided(itemReq[c].row)
    BY <1>14, <1>c DEF Patch, At, Sound
  <2>3. CASE \E q \in Questions :
               Upsert(itemReq[c].item, [itemReq[c].row EXCEPT !.question = q])
    <3>1. PICK q \in Questions : Upsert(itemReq[c].item, [itemReq[c].row EXCEPT !.question = q])
      BY <2>3
    <3> QED BY <1>2, <1>i, <2>1, <2>2, <3>1, MadeRows
  <2>4. CASE \E q \in Questions, s \in Statuses :
               Upsert(itemReq[c].item, Row(q, s, s = "approved"))
    <3>1. PICK q \in Questions, s \in Statuses : Upsert(itemReq[c].item, Row(q, s, s = "approved"))
      BY <2>4
    <3> QED BY <1>2, <1>i, <2>1, <3>1, MadeRows
  <2> QED BY <1>14, <2>3, <2>4 DEF Patch
<1>15. CASE Approve(c)
  <2> DEFINE i == itemReq[c].item
  <2>1. bank' = [bank EXCEPT ![i] = [bank[i] EXCEPT !.status = "approved", !.decided = TRUE]]
    BY <1>15 DEF Approve, ItemInv, BankTyped
  <2> HIDE DEF i
  <2>2. ASSUME NEW k \in Items PROVE bank'[k] \in AnyRow /\ Decided(bank'[k])
    <3>1. bank[k] \in AnyRow /\ Decided(bank[k])
      BY DEF ItemInv, BankTyped, ApprovedByDecision, Decided
    <3>2. LET t == [bank[k] EXCEPT !.status = "approved", !.decided = TRUE]
          IN  t \in AnyRow /\ Decided(t)
      BY <3>1 DEF AnyRow, Decided, Statuses
    <3>3. CASE k = i
      BY <2>1, <3>2, <3>3 DEF ItemInv, BankTyped
    <3>4. CASE k # i
      BY <2>1, <3>1, <3>4 DEF ItemInv, BankTyped
    <3> QED BY <3>3, <3>4
  <2>3. bank' = [k \in Items |-> bank'[k]]
    BY <2>1 DEF ItemInv, BankTyped
  <2>4. BankTyped' /\ ApprovedByDecision'
    BY <2>2, <2>3 DEF BankTyped, ApprovedByDecision, Decided, AnyRow
  <2> QED BY <1>15, <1>i, <2>4, RequestMoves DEF Approve, ItemInv
<1>16. CASE ApproveAll(c)
  <2>1. PICK filter \in SUBSET Items :
          bank' = [i \in Items |-> IF i \in filter \cap Approvable
                                   THEN Row(bank[i].question, "approved", TRUE) ELSE bank[i]]
    BY <1>16 DEF ApproveAll
  <2>2. ASSUME NEW k \in Items PROVE bank'[k] \in AnyRow /\ Decided(bank'[k])
    <3>1. bank[k] \in AnyRow /\ Decided(bank[k])
      BY DEF ItemInv, BankTyped, ApprovedByDecision, Decided
    <3>2. LET t == Row(bank[k].question, "approved", TRUE) IN t \in AnyRow /\ Decided(t)
      BY <3>1 DEF AnyRow, Decided, Statuses, Row
    <3> QED BY <2>1, <3>1, <3>2
  <2>3. bank' = [k \in Items |-> bank'[k]]
    BY <2>1
  <2>4. BankTyped' /\ ApprovedByDecision'
    BY <2>2, <2>3 DEF BankTyped, ApprovedByDecision, Decided, AnyRow
  <2> QED BY <1>16, <1>i, <2>4, RequestMoves DEF ApproveAll, ItemInv
<1>17. CASE ImportRead(c)
  <2> DEFINE t == [step |-> "import", from |-> 1, dirty |-> FALSE,
                   seen |-> {bank[i].question : i \in Active} \ Fragments]
  <2>1. Stay(c, t) /\ UNCHANGED bank
    BY <1>17 DEF ImportRead
  <2>2. "step" \in DOMAIN t /\ Sound(t)
    BY DEF Sound
  <2> QED BY <1>1, <2>1, <2>2
<1>18. CASE ImportItem(c)
  <2>0. PICK i \in itemReq[c].from .. LastItem, q \in Questions :
          \E row \in ImportedRows(q) :
            /\ Upsert(i, row)
            /\ Go(c, [itemReq[c] EXCEPT !.from = i + 1, !.seen = Seen(itemReq[c].seen, q)])
    BY <1>18 DEF ImportItem
  <2>1. PICK row \in ImportedRows(q) :
          /\ Upsert(i, row)
          /\ Go(c, [itemReq[c] EXCEPT !.from = i + 1, !.seen = Seen(itemReq[c].seen, q)])
    BY <2>0
  <2> DEFINE t == [itemReq[c] EXCEPT !.from = i + 1, !.seen = Seen(itemReq[c].seen, q)]
  <2>2. "step" \in DOMAIN t /\ t.step = "import"
    BY <1>18, <1>c DEF ImportItem, At
  <2>3. Go(c, t)
    BY <2>1
  <2> HIDE DEF t
  <2>4. Sound(t)
    BY <2>2 DEF Sound
  <2>5. row \in AnyRow /\ Decided(row)
    BY ImportsDecide
  <2> QED BY <1>2, <2>1, <2>2, <2>3, <2>4, <2>5
<1> QED BY <1>3, <1>4, <1>5, <1>6, <1>7, <1>8, <1>9, <1>10, <1>11, <1>12, <1>13, <1>14, <1>15,
           <1>16, <1>17, <1>18

\* Every step of some client keeps the invariant.
LEMMA ItemNext ==
    ASSUME ItemInv, Next
    PROVE  ItemInv'
BY ItemStep DEF Next

\* A step that changes nothing of the bank and its requests keeps the invariant.
LEMMA ItemStutter ==
    ASSUME ItemInv, UNCHANGED itemVars
    PROVE  ItemInv'
BY DEF itemVars, ItemInv, BankTyped, RequestsTyped, ApprovedByDecision, HeldByDecision,
       Sound, Decided, AnyRow

\* An empty bank without requests.
LEMMA ItemInit ==
    ASSUME Init
    PROVE  ItemInv
<1>1. NoRow \in AnyRow /\ NoRow.status = "absent"
  BY DEF NoRow, Row, AnyRow
<1>2. BankTyped /\ ApprovedByDecision
  BY <1>1 DEF Init, BankTyped, ApprovedByDecision
<1>3. RequestsTyped /\ HeldByDecision
  BY DEF Init, RequestsTyped, HeldByDecision, Sound, Idle
<1> QED BY <1>2, <1>3 DEF ItemInv

-----------------------------------------------------------------------------
(* Types, the count of uses, and what an import knows of the bank.         *)

ImportRequests == [step : {"import"}, from : 1 .. LastItem + 1, seen : SUBSET Questions,
                   dirty : BOOLEAN]

IsActive(row) == row.status \notin {"absent", "retired"}

\* The keys of an import are those of the active items, or the bank has changed
Knows(request, items) ==
    request.dirty \/ \A i \in Items : IsActive(items[i]) => items[i].question \in request.seen \cup Fragments

ImportsKnow == \A c \in Clients : At(c, "import") => Knows(itemReq[c], bank)

\* An item that a request is about to approve has a row
ApprovesRows == \A c \in Clients : At(c, "approve") => itemReq[c].item \in Present

BankInv == TypeOK /\ UsesAreCounted /\ ImportsKnow /\ ApprovesRows

\* What the requests of each step carry.
LEMMA RequestsByStep ==
    ASSUME NEW r \in Requests
    PROVE  /\ r.step = "import" => r \in ImportRequests
           /\ r.step = "touch" => r.picks \subseteq Items
           /\ r.step \in {"create", "approve", "patch"} => r.item \in Items
           /\ r.step = "patch" => r.row \in Rows
<1>1. CASE r \in {Idle, [step |-> "generate"], [step |-> "figure"]}
  BY <1>1 DEF Idle
<1>2. CASE r \in [step : {"touch"}, picks : SUBSET Items]
  BY <1>2
<1>3. CASE r \in [step : {"create", "approve"}, item : Items]
  BY <1>3
<1>4. CASE r \in [step : {"patch"}, item : Items, row : Rows]
  BY <1>4
<1>5. CASE r \in ImportRequests
  BY <1>5 DEF ImportRequests
<1> QED BY <1>1, <1>2, <1>3, <1>4, <1>5 DEF Requests, ImportRequests

\* Go: the request moves, and the imports of the others are told.
LEMMA RequestGoes ==
    ASSUME TypeOK, NEW c \in Clients, NEW request \in Requests, Go(c, request)
    PROVE  /\ itemReq' \in [Clients -> Requests] /\ itemReq'[c] = request
           /\ \A d \in Clients : d # c =>
                /\ itemReq'[d].step = itemReq[d].step
                /\ ~At(d, "import") => itemReq'[d] = itemReq[d]
                /\ At(d, "import") => itemReq'[d].dirty
<1>1. ASSUME NEW d \in Clients, At(d, "import")
      PROVE  LET r == [itemReq[d] EXCEPT !.dirty = TRUE]
             IN  r \in Requests /\ r.step = "import" /\ r.dirty
  <2>1. itemReq[d] \in ImportRequests
    BY <1>1, RequestsByStep DEF TypeOK, At
  <2> DEFINE r == [itemReq[d] EXCEPT !.dirty = TRUE]
  <2>2. r \in ImportRequests /\ r.step = "import" /\ r.dirty
    BY <2>1 DEF ImportRequests
  <2> HIDE DEF r
  <2>3. r \in Requests
    BY <2>2 DEF Requests, ImportRequests
  <2> QED BY <2>2, <2>3 DEF r
<1>2. \A d \in Clients : itemReq[d] \in Requests
  BY DEF TypeOK
<1>3. \A d \in Clients : At(d, "import") => itemReq[d].step = "import"
  BY DEF At
<1>4. itemReq' = [d \in Clients |->
        IF d = c THEN request
        ELSE IF At(d, "import") THEN [itemReq[d] EXCEPT !.dirty = TRUE]
        ELSE itemReq[d]]
  BY DEF Go
<1>5. ASSUME NEW d \in Clients
      PROVE  /\ itemReq'[d] \in Requests
             /\ d # c =>
                /\ itemReq'[d].step = itemReq[d].step
                /\ ~At(d, "import") => itemReq'[d] = itemReq[d]
                /\ At(d, "import") => itemReq'[d].dirty
  <2>1. CASE d = c
    BY <1>4, <2>1
  <2>2. CASE d # c /\ At(d, "import")
    <3>1. itemReq'[d] = [itemReq[d] EXCEPT !.dirty = TRUE]
      BY <1>4, <2>2
    <3> QED BY <1>1, <1>3, <2>2, <3>1
  <2>3. CASE d # c /\ ~At(d, "import")
    BY <1>2, <1>4, <2>3
  <2> QED BY <2>1, <2>2, <2>3
<1> QED BY <1>4, <1>5

\* A handler that leaves the rows alone.
LEMMA BankStays ==
    ASSUME BankInv, NEW c \in Clients, NEW request \in Requests, Stay(c, request),
           UNCHANGED bank, usedCount' \in [Items -> Nat], handed' \in [Items -> Nat],
           \A i \in Items : handed'[i] <= usedCount'[i],
           request.step = "approve" => request.item \in Present,
           request.step = "import" => Knows(request, bank)
    PROVE  BankInv'
<1>1. /\ itemReq' \in [Clients -> Requests] /\ itemReq'[c] = request
      /\ \A d \in Clients : d # c => itemReq'[d] = itemReq[d]
  BY DEF BankInv, TypeOK, Stay
<1>2. TypeOK' /\ UsesAreCounted'
  BY <1>1 DEF BankInv, TypeOK, UsesAreCounted
<1>3. \A d \in Clients : itemReq'[d].step = "import" => Knows(itemReq'[d], bank)
  BY <1>1 DEF BankInv, ImportsKnow, At
<1>4. \A d \in Clients : itemReq'[d].step = "approve" => itemReq'[d].item \in Present
  BY <1>1 DEF BankInv, ApprovesRows, At
<1>5. ImportsKnow'
  BY <1>3 DEF ImportsKnow, At, Knows, IsActive
<1>6. ApprovesRows'
  BY <1>4 DEF ApprovesRows, At, Present
<1> QED BY <1>2, <1>5, <1>6 DEF BankInv

\* A handler that writes rows: the count of uses is not touched, and no row goes.
LEMMA BankIsWritten ==
    ASSUME BankInv, NEW c \in Clients, NEW request \in Requests, Go(c, request),
           bank' \in [Items -> Rows \cup {NoRow}], UNCHANGED <<usedCount, handed>>,
           \A i \in Items : bank[i].status # "absent" => bank'[i].status # "absent",
           request.step # "approve",
           request.step = "import" => Knows(request, bank')
    PROVE  BankInv'
<1>0. TypeOK
  BY DEF BankInv
<1>1. /\ itemReq' \in [Clients -> Requests] /\ itemReq'[c] = request
      /\ \A d \in Clients : d # c =>
           /\ itemReq'[d].step = itemReq[d].step
           /\ ~At(d, "import") => itemReq'[d] = itemReq[d]
           /\ At(d, "import") => itemReq'[d].dirty
  BY <1>0, RequestGoes
<1>2. TypeOK' /\ UsesAreCounted'
  BY <1>1 DEF BankInv, TypeOK, UsesAreCounted
<1>3. \A d \in Clients : itemReq'[d].step = "import" => Knows(itemReq'[d], bank')
  BY <1>1 DEF At, Knows
<1>4. \A d \in Clients : itemReq'[d].step = "approve" =>
        itemReq'[d].item \in Items /\ bank'[itemReq'[d].item].status # "absent"
  BY <1>1 DEF BankInv, ApprovesRows, At, Present
<1>5. ImportsKnow'
  BY <1>3 DEF ImportsKnow, At, Knows, IsActive
<1>6. ApprovesRows'
  BY <1>4 DEF ApprovesRows, At, Present
<1> QED BY <1>2, <1>5, <1>6 DEF BankInv

\* upsert: one row is written, in whatever state the bank has it.
LEMMA BankIsUpserted ==
    ASSUME BankInv, NEW c \in Clients, NEW request \in Requests, Go(c, request),
           NEW i \in Items, NEW row \in Rows, Upsert(i, row),
           request.step # "approve",
           request.step = "import" => Knows(request, [bank EXCEPT ![i] = row])
    PROVE  BankInv'
<1>1. bank' = [bank EXCEPT ![i] = row] /\ UNCHANGED <<usedCount, handed>>
  BY DEF Upsert, Upserted
<1>2. bank' \in [Items -> Rows \cup {NoRow}]
  BY <1>1 DEF BankInv, TypeOK
<1>3. row.status # "absent"
  BY DEF Rows, Statuses
<1>4. \A k \in Items : bank[k].status # "absent" => bank'[k].status # "absent"
  BY <1>1, <1>3 DEF BankInv, TypeOK
<1> QED BY <1>1, <1>2, <1>4, BankIsWritten

\* The rows that the handlers make have the types of the bank.
LEMMA MadeRowsTyped ==
    /\ \A q \in Questions, s \in Statuses, d \in BOOLEAN : Row(q, s, d) \in Rows
    /\ \A row \in Rows, q \in Questions : [row EXCEPT !.question = q] \in Rows
    /\ \A row \in Rows : [row EXCEPT !.status = "approved", !.decided = TRUE] \in Rows
    /\ Outcomes \subseteq Statuses
BY DEF Row, Rows, Statuses, Outcomes

\* Every handler of the item bank keeps the types, the count of uses and what the
\* imports know.
LEMMA BankStep ==
    ASSUME LastItem \in Nat, BankInv, NEW c \in Clients,
           \/ ExtractRead(c) \/ Touch(c)
           \/ StartGenerate(c) \/ GenerateItem(c) \/ EndGenerate(c)
           \/ StartFigureReuse(c) \/ FigureItem(c) \/ Validate(c)
           \/ CreateRead(c) \/ Create(c) \/ PatchRead(c) \/ Patch(c)
           \/ ApproveRead(c) \/ Approve(c) \/ ApproveAll(c) \/ Raises(c)
           \/ ImportRead(c) \/ ImportItem(c) \/ EndImport(c)
    PROVE  BankInv'
<1>t. /\ bank \in [Items -> Rows \cup {NoRow}] /\ itemReq[c] \in Requests
      /\ usedCount \in [Items -> Nat] /\ handed \in [Items -> Nat]
      /\ \A i \in Items : handed[i] <= usedCount[i]
  BY DEF BankInv, TypeOK, UsesAreCounted
<1>r. \A i \in Items : bank[i].status # "absent" => bank[i] \in Rows
  BY <1>t DEF NoRow, Row
<1>i. Idle \in Requests /\ Idle.step = "idle"
  BY DEF Idle, Requests
<1>g. LET g == [step |-> "generate"] IN g \in Requests /\ g.step = "generate"
  BY DEF Requests
<1>1. ASSUME UNCHANGED <<bank, usedCount, handed>>, NEW request \in Requests, Stay(c, request),
             request.step \notin {"approve", "import"}
      PROVE  BankInv'
  BY <1>t, <1>1, BankStays
<1>2. ASSUME NEW i \in Items, NEW row \in Rows, Upsert(i, row), NEW request \in Requests,
             Go(c, request), request.step \notin {"approve", "import"}
      PROVE  BankInv'
  BY <1>2, BankIsUpserted
<1>3. CASE ExtractRead(c)
  <2>1. PICK picks \in SUBSET Items : Stay(c, [step |-> "touch", picks |-> picks])
    BY <1>3 DEF ExtractRead, Unspent
  <2>2. LET t == [step |-> "touch", picks |-> picks] IN t \in Requests /\ t.step = "touch"
    BY DEF Requests
  <2>3. UNCHANGED <<bank, usedCount, handed>>
    BY <1>3 DEF ExtractRead
  <2> QED BY <1>1, <1>g, <2>1, <2>2, <2>3
<1>4. CASE Touch(c)
  <2>1. PICK request \in {[step |-> "generate"], Idle} : Stay(c, request)
    BY <1>4 DEF Touch
  <2> DEFINE picks == itemReq[c].picks
  <2>2. PICK cut \in SUBSET picks :
          /\ usedCount' = [i \in Items |-> IF i \in picks THEN usedCount[i] + 1 ELSE usedCount[i]]
          /\ handed' = [i \in Items |-> IF i \in cut THEN handed[i] + 1 ELSE handed[i]]
          /\ UNCHANGED bank
    BY <1>4 DEF Touch
  <2> HIDE DEF picks
  <2>4. /\ usedCount' \in [Items -> Nat] /\ handed' \in [Items -> Nat]
        /\ \A i \in Items : handed'[i] <= usedCount'[i]
    BY <1>t, <2>2
  <2>3. request \in Requests /\ request.step \in {"idle", "generate"}
    BY <1>g, <1>i
  <2> QED BY <2>1, <2>2, <2>3, <2>4, BankStays
<1>5. CASE StartGenerate(c)
  BY <1>1, <1>g, <1>5 DEF StartGenerate
<1>6. CASE EndGenerate(c) \/ EndImport(c) \/ Raises(c)
  BY <1>1, <1>i, <1>6 DEF EndGenerate, EndImport, Raises
<1>7. CASE StartFigureReuse(c)
  <2>1. LET f == [step |-> "figure"] IN f \in Requests /\ f.step = "figure"
    BY DEF Requests
  <2> QED BY <1>1, <1>7, <2>1 DEF StartFigureReuse
<1>8. CASE GenerateItem(c)
  <2>1. PICK i \in Items, q \in Questions, s \in Statuses : Upsert(i, Row(q, s, FALSE))
    BY <1>8, MadeRowsTyped DEF GenerateItem
  <2>2. Go(c, itemReq[c]) /\ itemReq[c].step = "generate"
    BY <1>8 DEF GenerateItem, At
  <2> QED BY <1>2, <1>t, <2>1, <2>2, MadeRowsTyped
<1>9. CASE FigureItem(c)
  <2>1. PICK i \in Items, q \in Questions : Upsert(i, Row(q, "draft", FALSE))
    BY <1>9 DEF FigureItem
  <2>2. Go(c, itemReq[c]) /\ itemReq[c].step = "figure" /\ "draft" \in Statuses
    BY <1>9 DEF FigureItem, At, Statuses
  <2> QED BY <1>2, <1>t, <2>1, <2>2, MadeRowsTyped
<1>10. CASE Validate(c)
  <2>1. PICK i \in Items, q \in Questions, s \in Statuses : Upsert(i, Row(q, s, FALSE))
    BY <1>10 DEF Validate, Outcomes, Statuses
  <2>2. Go(c, Idle)
    BY <1>10 DEF Validate
  <2> QED BY <1>2, <1>i, <2>1, <2>2, MadeRowsTyped
<1>11. CASE CreateRead(c)
  <2>1. PICK i \in Items : Stay(c, [step |-> "create", item |-> i])
    BY <1>11 DEF CreateRead
  <2>2. LET t == [step |-> "create", item |-> i] IN t \in Requests /\ t.step = "create"
    BY DEF Requests
  <2>3. UNCHANGED <<bank, usedCount, handed>>
    BY <1>11 DEF CreateRead
  <2> QED BY <1>1, <2>1, <2>2, <2>3
<1>12. CASE Create(c)
  <2>1. PICK q \in Questions, s \in Statuses : Upsert(itemReq[c].item, Row(q, s, s = "approved"))
    BY <1>12 DEF Create
  <2>2. Go(c, Idle) /\ itemReq[c].item \in Items
    BY <1>12, <1>t, RequestsByStep DEF Create, At
  <2>3. Row(q, s, s = "approved") \in Rows
    BY MadeRowsTyped
  <2> QED BY <1>2, <1>i, <2>1, <2>2, <2>3
<1>13. CASE PatchRead(c)
  <2>1. PICK i \in Present : Stay(c, [step |-> "patch", item |-> i, row |-> bank[i]])
    BY <1>13 DEF PatchRead
  <2>2. i \in Items /\ bank[i] \in Rows
    BY <1>r DEF Present
  <2>3. LET t == [step |-> "patch", item |-> i, row |-> bank[i]]
        IN  t \in Requests /\ t.step = "patch"
    BY <2>2 DEF Requests
  <2>4. UNCHANGED <<bank, usedCount, handed>>
    BY <1>13 DEF PatchRead
  <2> QED BY <1>1, <2>1, <2>3, <2>4
<1>14. CASE Patch(c)
  <2>1. Go(c, Idle)
    BY <1>14 DEF Patch
  <2>2. itemReq[c].row \in Rows /\ itemReq[c].item \in Items
    BY <1>14, <1>t, RequestsByStep DEF Patch, At
  <2>3. \E row \in Rows : Upsert(itemReq[c].item, row)
    <3>1. CASE \E q \in Questions :
                 Upsert(itemReq[c].item, [itemReq[c].row EXCEPT !.question = q])
      BY <2>2, <3>1, MadeRowsTyped
    <3>2. CASE \E q \in Questions, s \in Statuses :
                 Upsert(itemReq[c].item, Row(q, s, s = "approved"))
      <4>1. PICK q \in Questions, s \in Statuses : Upsert(itemReq[c].item, Row(q, s, s = "approved"))
        BY <3>2
      <4>2. Row(q, s, s = "approved") \in Rows
        BY MadeRowsTyped
      <4> QED BY <4>1, <4>2
    <3> QED BY <1>14, <3>1, <3>2 DEF Patch
  <2> QED BY <1>2, <1>i, <2>1, <2>2, <2>3
<1>15. CASE ApproveRead(c)
  <2>1. PICK i \in Items : /\ bank[i].status \in {"draft", "reviewed"}
                           /\ Stay(c, [step |-> "approve", item |-> i])
    BY <1>15 DEF ApproveRead
  <2> DEFINE t == [step |-> "approve", item |-> i]
  <2>2. t \in Requests /\ t.step = "approve" /\ t.item = i
    BY DEF Requests
  <2>3. i \in Present
    BY <2>1 DEF Present
  <2>4. UNCHANGED <<bank, usedCount, handed>> /\ Stay(c, t)
    BY <1>15, <2>1 DEF ApproveRead
  <2> HIDE DEF t
  <2> QED BY <1>t, <2>2, <2>3, <2>4, BankStays
<1>16. CASE Approve(c)
  <2> DEFINE i == itemReq[c].item
             row == [bank[i] EXCEPT !.status = "approved", !.decided = TRUE]
  <2>1. i \in Items /\ bank[i].status # "absent"
    BY <1>16 DEF Approve, BankInv, ApprovesRows, Present
  <2>2. bank' = [bank EXCEPT ![i] = row]
    BY <1>16, <1>t DEF Approve
  <2>3. row \in Rows
    BY <1>r, <2>1, MadeRowsTyped
  <2>4. UNCHANGED <<usedCount, handed>> /\ Go(c, Idle)
    BY <1>16 DEF Approve
  <2> HIDE DEF row, i
  <2>5. Upsert(i, row)
    BY <2>2, <2>4 DEF Upsert, Upserted
  <2> QED BY <1>2, <1>i, <2>1, <2>3, <2>4, <2>5
<1>17. CASE ApproveAll(c)
  <2>1. PICK filter \in SUBSET Items :
          bank' = [i \in Items |-> IF i \in filter \cap Approvable
                                   THEN Row(bank[i].question, "approved", TRUE) ELSE bank[i]]
    BY <1>17 DEF ApproveAll
  <2>2. ASSUME NEW k \in Items
        PROVE  /\ bank'[k] \in Rows \cup {NoRow}
               /\ bank[k].status # "absent" => bank'[k].status # "absent"
    <3>1. CASE k \in filter \cap Approvable
      <4>1. bank[k] \in Rows
        BY <1>r, <3>1 DEF Approvable
      <4>2. LET t == Row(bank[k].question, "approved", TRUE) IN t \in Rows /\ t.status = "approved"
        BY <4>1 DEF Row, Rows, Statuses
      <4> QED BY <2>1, <3>1, <4>2
    <3>2. CASE k \notin filter \cap Approvable
      BY <1>t, <2>1, <3>2
    <3> QED BY <3>1, <3>2
  <2>3. bank' \in [Items -> Rows \cup {NoRow}]
    BY <2>1, <2>2
  <2> QED BY <1>17, <1>i, <2>2, <2>3, BankIsWritten DEF ApproveAll
<1>18. CASE ImportRead(c)
  <2> DEFINE seen == {bank[i].question : i \in Active} \ Fragments
             t == [step |-> "import", from |-> 1, dirty |-> FALSE, seen |-> seen]
  <2>1. Stay(c, t)
    BY <1>18 DEF ImportRead
  <2>2. seen \subseteq Questions
    BY <1>r DEF Active, Present, Rows
  <2>3. \A i \in Items : IsActive(bank[i]) => bank[i].question \in seen \cup Fragments
    BY DEF IsActive, Active, Present
  <2> HIDE DEF seen
  <2>4. t \in ImportRequests /\ t.step = "import" /\ t.seen = seen
    BY <2>2 DEF ImportRequests
  <2> HIDE DEF t
  <2>5. t \in Requests
    BY <2>4 DEF Requests, ImportRequests
  <2>6. Knows(t, bank)
    BY <2>3, <2>4 DEF Knows
  <2>7. UNCHANGED <<bank, usedCount, handed>>
    BY <1>18 DEF ImportRead
  <2> QED BY <1>t, <2>1, <2>4, <2>5, <2>6, <2>7, BankStays
<1>19. CASE ImportItem(c)
  <2>0. PICK i \in itemReq[c].from .. LastItem, q \in Questions :
          \E row \in ImportedRows(q) :
            /\ Upsert(i, row)
            /\ Go(c, [itemReq[c] EXCEPT !.from = i + 1, !.seen = Seen(itemReq[c].seen, q)])
    BY <1>19 DEF ImportItem
  <2>1. PICK row \in ImportedRows(q) :
          /\ Upsert(i, row)
          /\ Go(c, [itemReq[c] EXCEPT !.from = i + 1, !.seen = Seen(itemReq[c].seen, q)])
    BY <2>0
  <2> DEFINE next == i + 1
             seen == Seen(itemReq[c].seen, q)
             t == [itemReq[c] EXCEPT !.from = next, !.seen = seen]
  <2>2. itemReq[c] \in ImportRequests /\ itemReq[c].step = "import"
    BY <1>19, <1>t, RequestsByStep DEF ImportItem, At
  <2>3. /\ i \in Items /\ next \in 1 .. LastItem + 1
        /\ itemReq[c].seen \subseteq Questions
    BY <2>1, <2>2 DEF ImportRequests, Items
  <2>5. row \in Rows /\ row.question = q
    BY ImportsDecide
  <2>6. /\ seen \in SUBSET Questions /\ itemReq[c].seen \subseteq seen
        /\ q \in seen \cup Fragments
    BY <2>3 DEF Seen
  <2>7. Upsert(i, row) /\ Go(c, t)
    BY <2>1
  <2> HIDE DEF next, seen
  <2>8. t \in ImportRequests /\ t.step = "import" /\ t.seen = seen /\ t.dirty = itemReq[c].dirty
    BY <2>2, <2>3, <2>6 DEF ImportRequests
  <2> HIDE DEF t
  <2>9. t \in Requests
    BY <2>8 DEF Requests, ImportRequests
  <2>10. Knows(t, [bank EXCEPT ![i] = row])
    <3>1. Knows(itemReq[c], bank)
      BY <2>2 DEF BankInv, ImportsKnow, At
    <3>2. ASSUME NEW k \in Items PROVE [bank EXCEPT ![i] = row][k] = IF k = i THEN row ELSE bank[k]
      BY <1>t
    <3> QED BY <2>5, <2>6, <2>8, <3>1, <3>2 DEF Knows
  <2> QED BY <2>3, <2>5, <2>7, <2>8, <2>9, <2>10, BankIsUpserted
<1> QED BY <1>3, <1>4, <1>5, <1>6, <1>7, <1>8, <1>9, <1>10, <1>11, <1>12, <1>13, <1>14, <1>15,
           <1>16, <1>17, <1>18, <1>19

\* Every step of some client keeps them.
LEMMA BankNext ==
    ASSUME LastItem \in Nat, BankInv, Next
    PROVE  BankInv'
BY BankStep DEF Next

\* A step that changes nothing of the bank and its requests keeps them.
LEMMA BankStutter ==
    ASSUME BankInv, UNCHANGED itemVars
    PROVE  BankInv'
<1>1. TypeOK' /\ UsesAreCounted'
  BY DEF itemVars, BankInv, TypeOK, UsesAreCounted
<1>2. ImportsKnow' /\ ApprovesRows'
  BY DEF itemVars, BankInv, ImportsKnow, ApprovesRows, At, Present, Knows, IsActive
<1> QED BY <1>1, <1>2 DEF BankInv

\* They hold of an empty bank.
LEMMA BankInit ==
    ASSUME Init
    PROVE  BankInv
<1>1. TypeOK /\ UsesAreCounted
  BY DEF Init, TypeOK, UsesAreCounted, Requests
<1>2. ImportsKnow /\ ApprovesRows
  BY DEF Init, ImportsKnow, ApprovesRows, At, Idle
<1> QED BY <1>1, <1>2 DEF BankInv

\* import_pdf: while nobody else writes to the bank, an item of an import has a
\* question that no active item has.
LEMMA ImportIsNew ==
    ASSUME LastItem \in Nat, BankInv, Next, NEW c \in Clients,
           At(c, "import"), itemReq'[c].step = "import", ~itemReq'[c].dirty
    PROVE  Duplicates' \subseteq Duplicates
<1>0. TypeOK /\ bank \in [Items -> Rows \cup {NoRow}] /\ itemReq[c] \in ImportRequests
  BY RequestsByStep DEF BankInv, TypeOK, At
<1>1. UNCHANGED bank => Duplicates' \subseteq Duplicates
  BY DEF Duplicates, Active, Present
<1>2. PICK d \in Clients :
        \/ ExtractRead(d) \/ Touch(d)
        \/ StartGenerate(d) \/ GenerateItem(d) \/ EndGenerate(d)
        \/ StartFigureReuse(d) \/ FigureItem(d) \/ Validate(d)
        \/ CreateRead(d) \/ Create(d) \/ PatchRead(d) \/ Patch(d)
        \/ ApproveRead(d) \/ Approve(d) \/ ApproveAll(d) \/ Raises(d)
        \/ ImportRead(d) \/ ImportItem(d) \/ EndImport(d)
  BY DEF Next
<1>3. UNCHANGED bank \/ \E request : Go(d, request)
  BY <1>2 DEF ExtractRead, Touch, StartGenerate, GenerateItem, EndGenerate, StartFigureReuse,
              FigureItem, Validate, CreateRead, Create, PatchRead, Patch, ApproveRead, Approve,
              ApproveAll, Raises, ImportRead, ImportItem, EndImport
<1>4. CASE d # c
  <2>1. ASSUME NEW request, Go(d, request) PROVE FALSE
    <3>1. itemReq'[c] = [itemReq[c] EXCEPT !.dirty = TRUE]
      BY <1>4, <2>1 DEF Go
    <3> QED BY <1>0, <3>1 DEF ImportRequests
  <2> QED BY <1>1, <1>3, <2>1
<1>5. CASE d = c /\ ~ImportItem(c)
  <2>1. UNCHANGED bank
    BY <1>2, <1>5 DEF At, ExtractRead, Touch, StartGenerate, GenerateItem, EndGenerate,
                      StartFigureReuse, FigureItem, Validate, CreateRead, Create, PatchRead, Patch,
                      ApproveRead, Approve, ApproveAll, Raises, ImportRead, EndImport
  <2> QED BY <1>1, <2>1
<1>6. CASE ImportItem(c)
  <2>0. PICK i \in itemReq[c].from .. LastItem, q \in Questions \ itemReq[c].seen :
          \E row \in ImportedRows(q) :
            /\ Upsert(i, row)
            /\ Go(c, [itemReq[c] EXCEPT !.from = i + 1, !.seen = Seen(itemReq[c].seen, q)])
    BY <1>6 DEF ImportItem
  <2>1. PICK row \in ImportedRows(q) :
          /\ Upsert(i, row)
          /\ Go(c, [itemReq[c] EXCEPT !.from = i + 1, !.seen = Seen(itemReq[c].seen, q)])
    BY <2>0
  <2>2. bank' = [bank EXCEPT ![i] = row] /\ row.question = q
    BY <2>1, ImportsDecide DEF Upsert
  <2>3. i \in Items
    BY <1>0, <2>1 DEF ImportRequests, Items
  <2>4. itemReq'[c] = [itemReq[c] EXCEPT !.from = i + 1, !.seen = Seen(itemReq[c].seen, q)]
    BY <2>1 DEF Go
  <2>5. itemReq'[c].dirty = itemReq[c].dirty
    BY <1>0, <2>4 DEF ImportRequests
  <2>6. \A k \in Items : IsActive(bank[k]) => bank[k].question \in itemReq[c].seen \cup Fragments
    BY <2>5 DEF BankInv, ImportsKnow, Knows
  <2>7. bank'[i] = row /\ \A k \in Items : k # i => bank'[k] = bank[k]
    BY <1>0, <2>2, <2>3
  <2>8. ASSUME NEW k \in Items, k # i, bank'[k].status # "absent", bank'[k].status # "retired",
               bank'[k].question = q, q \notin Fragments
        PROVE  FALSE
    BY <2>6, <2>7, <2>8 DEF IsActive
  <2>9. ASSUME NEW p \in Duplicates' PROVE p \in Duplicates
    <3>1. /\ p \in Items \X Items /\ p[1] # p[2]
          /\ bank'[p[1]].status # "absent" /\ bank'[p[1]].status # "retired"
          /\ bank'[p[2]].status # "absent" /\ bank'[p[2]].status # "retired"
          /\ bank'[p[1]].question = bank'[p[2]].question /\ bank'[p[1]].question \notin Fragments
      BY DEF Duplicates, Active, Present
    <3>2. p[1] # i /\ p[2] # i
      BY <2>2, <2>7, <2>8, <3>1
    <3> QED BY <2>7, <3>1, <3>2 DEF Duplicates, Active, Present
  <2> QED BY <2>9
<1> QED BY <1>4, <1>5, <1>6
=============================================================================
