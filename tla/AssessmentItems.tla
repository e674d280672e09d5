-------------------------- MODULE AssessmentItems --------------------------
(***************************************************************************)
(* The item bank of one domain: rows of assessment_items and the requests  *)
(* that read them in one transaction and write them in another.            *)
(***************************************************************************)
EXTENDS Naturals

CONSTANTS
    Clients,    \* users and administrators, one request at a time each
    LastItem,   \* items are 1 .. LastItem; an import numbers its items in order
    Questions,  \* what an item may ask
    Fragments,  \* the questions shorter than ten characters, never deduplicated
    MaxUsed     \* bound on used_count

Items == 1 .. LastItem
Statuses == {"draft", "reviewed", "approved", "retired"}
Modes == [default : {"draft", "reviewed", "approved"}, auto : BOOLEAN]

VARIABLES
    bank,       \* item -> its row; status "absent" when there is none
    usedCount,  \* item -> the column used_count
    handed,     \* item -> how often it has been handed out
    itemReq     \* client -> its request

itemVars == <<bank, usedCount, handed, itemReq>>

\* decided: has an administrator decided that this text is approved
Row(question, status, decided) == [question |-> question, status |-> status, decided |-> decided]
Rows == [question : Questions, status : Statuses, decided : BOOLEAN]
NoRow == Row("none", "absent", FALSE)

Idle == [step |-> "idle"]
Requests ==
    {Idle, [step |-> "generate"], [step |-> "figure"]}
        \cup [step : {"touch"}, picks : SUBSET Items]
        \cup [step : {"create", "approve"}, item : Items]
        \cup [step : {"patch"}, item : Items, row : Rows]
        \cup [step : {"import"}, from : 1 .. LastItem + 1, seen : SUBSET Questions, dirty : BOOLEAN]

TypeOK ==
    /\ bank \in [Items -> Rows \cup {NoRow}]
    /\ usedCount \in [Items -> Nat]
    /\ handed \in [Items -> Nat]
    /\ itemReq \in [Clients -> Requests]

Init ==
    /\ bank = [i \in Items |-> NoRow]
    /\ usedCount = [i \in Items |-> 0]
    /\ handed = [i \in Items |-> 0]
    /\ itemReq = [c \in Clients |-> Idle]

At(c, step) == itemReq[c].step = step
Present == {i \in Items : bank[i].status # "absent"}
Active == {i \in Present : bank[i].status # "retired"}
Duplicates == {p \in Active \X Active :
                 p[1] # p[2] /\ bank[p[1]].question = bank[p[2]].question
                             /\ bank[p[1]].question \notin Fragments}

\* The bank has changed under the imports of the others
Go(c, request) ==
    itemReq' = [d \in Clients |->
        IF d = c THEN request
        ELSE IF At(d, "import") THEN [itemReq[d] EXCEPT !.dirty = TRUE]
        ELSE itemReq[d]]
Stay(c, request) == itemReq' = [itemReq EXCEPT ![c] = request]

\* Mutant: ON CONFLICT DO UPDATE also takes used_count from the record
UpsertedAnew(i) == usedCount' = [usedCount EXCEPT ![i] = 0]

\* ON CONFLICT leaves used_count as it is
Upserted(i) == UNCHANGED usedCount

Upsert(i, row) ==
    /\ bank' = [bank EXCEPT ![i] = row]
    /\ Upserted(i)
    /\ UNCHANGED handed

-----------------------------------------------------------------------------
(* POST /extract and /hybrid.                                              *)

\* Items that may be used once more
Unspent == {i \in Items : usedCount[i] < MaxUsed}

\* The candidates are those with a wanted status; some of them are sampled
ExtractRead(c) ==
    /\ At(c, "idle")
    /\ \E wanted \in {{"approved"}, Statuses} :
       \E picks \in (SUBSET {i \in Unspent : bank[i].status \in wanted}) \ {{}} :
            Stay(c, [step |-> "touch", picks |-> picks])
    /\ UNCHANGED <<bank, usedCount, handed>>

\* All the picks are touched; the response is cut to the count of the request
Touch(c) ==
    /\ At(c, "touch")
    /\ itemReq[c].picks \subseteq Unspent
    /\ usedCount' = [i \in Items |-> IF i \in itemReq[c].picks THEN usedCount[i] + 1 ELSE usedCount[i]]
    /\ \E cut \in SUBSET itemReq[c].picks :
         handed' = [i \in Items |-> IF i \in cut THEN handed[i] + 1 ELSE handed[i]]
    /\ \E hybrid \in BOOLEAN : Stay(c, IF hybrid THEN [step |-> "generate"] ELSE Idle)
    /\ UNCHANGED bank

-----------------------------------------------------------------------------
(* POST /generate, /figure-reuse and /validate.                            *)

\* Mutant: four good scores approve an item
OutcomesApproving == {"draft", "reviewed", "approved"}

\* A validator that fails twice or objects makes a draft, otherwise reviewed
Outcomes == {"draft", "reviewed"}

StartGenerate(c) ==
    /\ At(c, "idle")
    /\ Stay(c, [step |-> "generate"])
    /\ UNCHANGED <<bank, usedCount, handed>>

\* A candidate that passes the guards and the index of items is written under a
\* new identifier; one that does not leaves no trace
GenerateItem(c) ==
    /\ At(c, "generate")
    /\ \E i \in Items \ Present, q \in Questions, s \in Outcomes : Upsert(i, Row(q, s, FALSE))
    /\ Go(c, itemReq[c])

\* The retries are used up or the target is reached
EndGenerate(c) ==
    /\ At(c, "generate") \/ At(c, "figure")
    /\ Stay(c, Idle)
    /\ UNCHANGED <<bank, usedCount, handed>>

StartFigureReuse(c) ==
    /\ At(c, "idle")
    /\ \E i \in Items : bank[i].status = "approved"
    /\ Stay(c, [step |-> "figure"])
    /\ UNCHANGED <<bank, usedCount, handed>>

FigureItem(c) ==
    /\ At(c, "figure")
    /\ \E i \in Items \ Present, q \in Questions : Upsert(i, Row(q, "draft", FALSE))
    /\ Go(c, itemReq[c])

\* persist: each item is written under its own or a new identifier, over
\* whatever the bank holds there; with a figure it is a draft, one of the outcomes
Validate(c) ==
    /\ At(c, "idle")
    /\ \E i \in Items, q \in Questions, s \in Outcomes : Upsert(i, Row(q, s, FALSE))
    /\ Go(c, Idle)

-----------------------------------------------------------------------------
(* Administration of items.                                                *)

CreateRead(c) ==
    /\ At(c, "idle")
    /\ \E i \in Items \ Present : Stay(c, [step |-> "create", item |-> i])
    /\ UNCHANGED <<bank, usedCount, handed>>

Create(c) ==
    /\ At(c, "create")
    /\ \E q \in Questions, s \in Statuses : Upsert(itemReq[c].item, Row(q, s, s = "approved"))
    /\ Go(c, Idle)

\* PATCH takes the whole record, sets the given fields and writes all of it
PatchRead(c) ==
    /\ At(c, "idle")
    /\ \E i \in Present : Stay(c, [step |-> "patch", item |-> i, row |-> bank[i]])
    /\ UNCHANGED <<bank, usedCount, handed>>

Patch(c) ==
    /\ At(c, "patch")
    /\ \/ \E q \in Questions : Upsert(itemReq[c].item, [itemReq[c].row EXCEPT !.question = q])
       \/ \E q \in Questions, s \in Statuses : Upsert(itemReq[c].item, Row(q, s, s = "approved"))
    /\ Go(c, Idle)

ApproveRead(c) ==
    /\ At(c, "idle")
    /\ \E i \in Items :
        /\ bank[i].status \in {"draft", "reviewed"}
        /\ Stay(c, [step |-> "approve", item |-> i])
    /\ UNCHANGED <<bank, usedCount, handed>>

\* update_quality has no condition on the status it replaces
Approve(c) ==
    /\ At(c, "approve")
    /\ bank' = [bank EXCEPT ![itemReq[c].item].status = "approved",
                            ![itemReq[c].item].decided = TRUE]
    /\ Go(c, Idle)
    /\ UNCHANGED <<usedCount, handed>>

\* The rows that approve-all may change
Approvable == {i \in Items : bank[i].status \in {"draft", "reviewed"}}

ApproveAll(c) ==
    /\ At(c, "idle")
    /\ \E filter \in (SUBSET Items) \ {{}} :
         bank' = [i \in Items |->
            IF i \in filter \cap Approvable THEN Row(bank[i].question, "approved", TRUE) ELSE bank[i]]
    /\ Go(c, Idle)
    /\ UNCHANGED <<usedCount, handed>>

\* A transaction raises: nothing is written, and the request ends with an error
Raises(c) ==
    /\ itemReq[c].step \in {"touch", "create", "patch", "approve"}
    /\ Stay(c, Idle)
    /\ UNCHANGED <<bank, usedCount, handed>>

-----------------------------------------------------------------------------
(* POST /import: the keys of the bank are read once.                       *)

ImportRead(c) ==
    /\ At(c, "idle")
    /\ Stay(c, [step |-> "import", from |-> 1, dirty |-> FALSE,
                seen |-> {bank[i].question : i \in Active} \ Fragments])
    /\ UNCHANGED <<bank, usedCount, handed>>

\* Mutant: the keys are those of the bank, not also those of this import
SeenBank(seen, q) == seen

\* The keys after an item: long questions are remembered
Seen(seen, q) == IF q \in Fragments THEN seen ELSE seen \cup {q}

\* sound: an answer found in the key, four choices and no language drift
ImportedStatus(mode, sound) == IF mode.auto /\ sound THEN "approved" ELSE mode.default

ImportedRow(q, mode, sound) ==
    LET s == ImportedStatus(mode, sound)
    IN  Row(q, s, s = "approved" /\ (mode.auto \/ mode.default = "approved"))

\* The mode belongs to the form, but any is allowed for each item
ImportedRows(q) ==
    {row \in Rows : \E mode \in Modes, sound \in BOOLEAN : row = ImportedRow(q, mode, sound)}

\* The item of the next number; duplicates are skipped
ImportItem(c) ==
    /\ At(c, "import")
    /\ \E i \in itemReq[c].from .. LastItem, q \in Questions \ itemReq[c].seen :
       \E row \in ImportedRows(q) :
        /\ Upsert(i, row)
        /\ Go(c, [itemReq[c] EXCEPT !.from = i + 1, !.seen = Seen(@, q)])

EndImport(c) ==
    /\ At(c, "import")
    /\ Stay(c, Idle)
    /\ UNCHANGED <<bank, usedCount, handed>>

Next ==
    \E c \in Clients :
        \/ ExtractRead(c) \/ Touch(c)
        \/ StartGenerate(c) \/ GenerateItem(c) \/ EndGenerate(c)
        \/ StartFigureReuse(c) \/ FigureItem(c) \/ Validate(c)
        \/ CreateRead(c) \/ Create(c) \/ PatchRead(c) \/ Patch(c)
        \/ ApproveRead(c) \/ Approve(c) \/ ApproveAll(c) \/ Raises(c)
        \/ ImportRead(c) \/ ImportItem(c) \/ EndImport(c)

-----------------------------------------------------------------------------
(* Properties.                                                             *)

\* extract, touch_used and upsert: an item has been handed out no more often than
\* its used_count says, however extractions interleave with each other and with the
\* requests that write whole rows.  (It may have been touched and then cut off.)
UsesAreCounted == \A i \in Items : handed[i] <= usedCount[i]

\* validate, generate, figure_reuse, patch and import: an approved item is
\* approved because an administrator said so (approve, approve-all, a status in
\* create or patch, the mode of an import), never by a model's verdict, and
\* also after a late write of a row that was read before.
ApprovedByDecision == \A i \in Items : bank[i].status = "approved" => bank[i].decided

\* import_pdf: an import adds no second active item with a question of the bank
\* or of its own file, unless somebody else wrote to the bank meanwhile.
ImportAddsNoDuplicate ==
    [][\A c \in Clients :
        At(c, "import") /\ itemReq'[c].step = "import" /\ ~itemReq'[c].dirty
            => Duplicates' \subseteq Duplicates]_itemVars
=============================================================================
