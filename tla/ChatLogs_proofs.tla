--------------------------- MODULE ChatLogs_proofs ---------------------------
(***************************************************************************)
(* The rows of chat_logs for any number of turns, users, conversations and *)
(* documents, any page size and any number of approvals, withdrawals and   *)
(* reverifications: the types, plain storage under an approval, what was   *)
(* erased or masked, and the rows that a reverification looks at.          *)
(***************************************************************************)
EXTENDS ChatLogs, FiniteSetTheorems, SequenceTheorems, WellFoundedInduction, TLAPS

-----------------------------------------------------------------------------
(* The inductive invariant, by what it speaks about.                       *)

CopyType == [id : Requests, row : RowType]

RevType ==
    [pc : {"idle", "page", "rows", "done"}, page : Nat, full : BOOLEAN,
     queue : Seq(CopyType), scanned : Seq(Requests), moved : BOOLEAN]

Typed ==
    /\ approval \in {"none", "valid", "expired"}
    /\ turn \in [Requests -> TurnType]
    /\ logs \in [Requests -> RowType \cup {None}]
    /\ order \in Seq(Requests)
    /\ convs \in [Convs -> ConvType \cup {None}]
    /\ rev \in RevType
    /\ erased \subseteq Requests /\ crossed \subseteq Requests
    /\ withdrawn \in [Requests -> SUBSET Docs]

Stays(r) == turn[r].phase = "written"

\* A running turn knows its user and its conversation, and rows are those of the
\* turns that have been written
Known ==
    \A r \in Requests :
        /\ InFlight(r) => turn[r].user \in Users /\ turn[r].conv \in Convs
        /\ logs[r] # None => Stays(r)

Listed == Range(order) = {r \in Requests : logs[r] # None}

Room ==
    /\ rev.pc = "page" => rev.page # 0
    /\ rev.pc = "rows" => rev.queue # <<>>
    /\ rev.pc # "rows" => rev.queue = <<>>
    /\ Len(rev.scanned) + Len(rev.queue) <= MaxRecords

LogsInv == Typed /\ Known /\ Listed /\ Room

PlainInv ==
    /\ PlainNeedsApproval
    /\ \A r \in Requests : InFlight(r) /\ turn[r].plain => turn[r].seen

\* What was removed from a row that cannot be written again
RowRemoved(r) ==
    /\ r \in erased \/ withdrawn[r] # {} => Stays(r)
    /\ r \in erased /\ logs[r] # None => Blanked(logs[r])
    /\ r \in erased /\ logs[r] # None /\ r \notin crossed => logs[r].cites = {}
    /\ logs[r] # None /\ r \notin crossed =>
           logs[r].cites \cap withdrawn[r] \subseteq logs[r].masked

\* A copy has the citations of its row, unless the row has changed meanwhile
Current(copy) ==
    /\ Stays(copy.id)
    /\ copy.id \notin crossed /\ logs[copy.id] # None =>
           /\ copy.row.cites = logs[copy.id].cites
           /\ copy.row.masked = logs[copy.id].masked

RemovedInv ==
    /\ \A r \in Requests : RowRemoved(r)
    /\ \A k \in DOMAIN rev.queue : Current(rev.queue[k])

Newest(k) == order[Len(order) - k + 1]

Undisturbed == ~rev.moved /\ MaxRecords % PageSize = 0

Least(m, n) == IF m < n THEN m ELSE n

Progressed ==
    Undisturbed =>
        /\ rev.pc # "idle" => \A k \in DOMAIN rev.scanned : k <= Len(order) /\ rev.scanned[k] = Newest(k)
        /\ rev.pc = "page" => Len(rev.scanned) = (rev.page - 1) * PageSize
        /\ rev.pc = "rows" =>
              /\ Len(rev.scanned) + Len(rev.queue) = Least(rev.page * PageSize, Len(order))
              /\ rev.page * PageSize <= MaxRecords
              /\ rev.full <=> rev.page * PageSize <= Len(order)
              /\ \A k \in DOMAIN rev.queue : rev.queue[k].id = Newest(Len(rev.scanned) + k)
        /\ rev.pc = "done" => Len(rev.scanned) = Least(MaxRecords, Len(order))

-----------------------------------------------------------------------------
(* Rows and turns.                                                         *)

\* What the writer, the erasure, the masking, the feedback and the update of the
\* citations make of a row is a row.
LEMMA RowFacts ==
    /\ None \notin RowType /\ None \notin ConvType /\ None \notin Users
    /\ \A t \in TurnType, cites \in SUBSET Docs, query \in Rewritten :
          t.user \in Users /\ t.conv \in Convs => Row(t, cites, query) \in RowType
    /\ \A row \in RowType : ErasedRow(row) \in RowType
    /\ \A row \in RowType, d \in Docs : [row EXCEPT !.masked = @ \cup {d}] \in RowType
    /\ \A row \in RowType, u \in Users : [row EXCEPT !.feedback = u] \in RowType
    /\ \A row \in RowType, a \in SUBSET Docs, b \in SUBSET Docs :
          [row EXCEPT !.cites = a, !.masked = b] \in RowType
  <1>1. None \notin RowType /\ None \notin ConvType /\ None \notin Users
    BY LogsAssumption
  <1>2. ASSUME NEW t \in TurnType, NEW cites \in SUBSET Docs, NEW query \in Rewritten,
               t.user \in Users, t.conv \in Convs
        PROVE  Row(t, cites, query) \in RowType
    <2>1. Stored(t) \in Questions /\ t.seen \in BOOLEAN
      BY DEF Stored, Questions, TurnType
    <2> QED
      BY <1>2, <2>1 DEF Row, RowType
  <1>3. ASSUME NEW row \in RowType PROVE ErasedRow(row) \in RowType
    BY DEF ErasedRow, RowType, Questions, Rewritten
  <1>4. ASSUME NEW row \in RowType, NEW d \in Docs
        PROVE  [row EXCEPT !.masked = @ \cup {d}] \in RowType
    <2>1. row.masked \cup {d} \in SUBSET Docs
      BY DEF RowType
    <2> QED
      BY <2>1 DEF RowType
  <1>5. ASSUME NEW row \in RowType, NEW u \in Users
        PROVE  [row EXCEPT !.feedback = u] \in RowType
    BY DEF RowType
  <1>6. ASSUME NEW row \in RowType, NEW a \in SUBSET Docs, NEW b \in SUBSET Docs
        PROVE  [row EXCEPT !.cites = a, !.masked = b] \in RowType
    BY DEF RowType
  <1> QED
    BY <1>1, <1>2, <1>3, <1>4, <1>5, <1>6

\* A turn keeps its type when it starts, is witnessed or ends.
LEMMA TurnFacts ==
    /\ NoTurn \in TurnType
    /\ \A p \in {"written", "lost"} : [NoTurn EXCEPT !.phase = p] \in TurnType
    /\ \A u \in Users, c \in Convs, plain, seen \in BOOLEAN :
          [phase |-> "run", user |-> u, conv |-> c, plain |-> plain, seen |-> seen] \in TurnType
    /\ \A t \in TurnType : [t EXCEPT !.seen = TRUE] \in TurnType
  BY DEF NoTurn, TurnType

-----------------------------------------------------------------------------
(* Sequences of rows.                                                      *)

\* DELETE: the rows that stay keep their order, and nothing changes if none goes.
LEMMA RemainingRows ==
    ASSUME NEW s \in Seq(Requests), NEW gone, NEW S,
           \A k : k \in S <=> k \in DOMAIN s /\ s[k] \notin gone,
           NEW f \in Ascending(S), NEW t \in [DOMAIN f -> Requests],
           \A k \in DOMAIN f : t[k] = s[f[k]]
    PROVE  /\ t \in Seq(Requests)
           /\ Range(t) = Range(s) \ gone
           /\ gone = {} => t = s
  <1>1. DOMAIN s = 1 .. Len(s) /\ Len(s) \in Nat
    OBVIOUS
  <1>2. IsFiniteSet(1 .. Len(s))
    BY <1>1, FS_Interval
  <1>3. Cardinality(S) \in Nat
    BY <1>1, <1>2, FS_Subset, FS_CardinalityType
  <1>4. /\ f \in [1 .. Cardinality(S) -> S]
        /\ S \subseteq Range(f)
        /\ \A i, j \in DOMAIN f : i < j => f[i] < f[j]
    BY DEF Ascending
  <1> DEFINE m == Cardinality(S)
  <1>5. t \in [1 .. m -> Requests]
    BY <1>1, <1>4
  <1>6. t \in Seq(Requests)
    BY <1>3, <1>5, SeqDef
  <1>7. Range(t) = Range(s) \ gone
    <2>1. ASSUME NEW x \in Range(t) PROVE x \in Range(s) \ gone
      BY <1>4, <2>1 DEF Range
    <2>2. ASSUME NEW x \in Range(s) \ gone PROVE x \in Range(t)
      <3>1. PICK k \in DOMAIN s : s[k] = x
        BY <2>2 DEF Range
      <3>2. k \in S
        BY <2>2, <3>1
      <3>3. PICK i \in DOMAIN f : f[i] = k
        BY <1>4, <3>2 DEF Range
      <3> QED
        BY <3>1, <3>3 DEF Range
    <2> QED
      BY <2>1, <2>2
  <1>8. ASSUME gone = {} PROVE t = s
    <2>1. S = 1 .. Len(s)
      BY <1>1, <1>8
    <2> DEFINE bad == {k \in 1 .. m : f[k] # k}
    <2>2. bad = {}
      <3> SUFFICES ASSUME bad # {} PROVE FALSE
        OBVIOUS
      <3> DEFINE R == {ss \in Nat \X Nat : ss[1] < ss[2]}
      <3>1. IsWellFoundedOn(R, Nat)
        BY NatLessThanWellFounded, Zenon DEF OpToRel
      <3>11. bad \subseteq Nat
        BY <1>3
      <3>12. \A j, k \in Nat : <<j, k>> \in R <=> j < k
        OBVIOUS
      <3>13. \E k \in bad : \A j \in bad : ~(<<j, k>> \in R)
        <4> HIDE DEF bad, R
        <4> QED
          BY <3>1, <3>11, WFMin
      <3>2. PICK k \in bad : \A j \in bad : ~(j < k)
        <4> HIDE DEF bad, R
        <4> QED
          BY <3>11, <3>12, <3>13
      <3>3. \A j \in 1 .. m : j < k => f[j] = j
        BY <3>2
      <3>4. f[k] \in 1 .. Len(s) /\ f[k] > k
        <4>1. f[k] \in 1 .. Len(s) /\ f[k] # k
          BY <1>4, <2>1
        <4>2. CASE k = 1
          BY <4>1, <4>2
        <4>3. CASE k # 1
          <5>1. k - 1 \in 1 .. m /\ k - 1 < k /\ k \in 1 .. m
            BY <1>3, <4>3
          <5>2. f[k - 1] = k - 1 /\ f[k - 1] < f[k]
            BY <1>4, <3>3, <5>1
          <5> QED
            BY <1>3, <4>1, <5>1, <5>2
        <4> QED
          BY <4>2, <4>3
      <3>5. k \in S
        BY <1>1, <1>3, <2>1, <3>4
      <3>6. PICK j \in 1 .. m : f[j] = k
        BY <1>4, <3>5 DEF Range
      <3>7. ~(j < k) /\ j # k
        BY <3>3, <3>4, <3>6
      <3>8. k < j
        BY <1>3, <3>7
      <3>9. f[k] < f[j]
        BY <1>4, <3>8
      <3> QED
        BY <1>1, <1>3, <3>4, <3>6, <3>9
    <2>3. \A k \in 1 .. m : f[k] = k
      BY <2>2
    <2>4. 1 .. m = 1 .. Len(s)
      <3>1. \A k \in 1 .. m : k \in 1 .. Len(s)
        BY <1>4, <2>1, <2>3
      <3>2. \A k \in 1 .. Len(s) : k \in 1 .. m
        BY <1>4, <2>1, <2>3 DEF Range
      <3> QED
        BY <3>1, <3>2
    <2>5. \A k \in 1 .. Len(s) : t[k] = s[k]
      BY <1>4, <2>3, <2>4
    <2>6. DOMAIN t = DOMAIN s
      BY <1>1, <1>5, <2>4
    <2>7. Len(t) = Len(s)
      BY <1>1, <1>6, <2>6
    <2> QED
      BY <1>6, <2>5, <2>7, SeqEqual
  <1> QED
    BY <1>6, <1>7, <1>8

\* list_by_tenant: the page is a part of the rows, newest first.
LEMMA PageOfRows ==
    ASSUME order \in Seq(Requests), NEW page \in Nat \ {0}, NEW size \in Nat
    PROVE  LET items == ListByTenant(page, size)
               offset == (page - 1) * size
           IN  /\ items \in Seq(Requests)
               /\ offset \in Nat
               /\ Len(items) = IF offset + size < Len(order) THEN size
                               ELSE IF offset < Len(order) THEN Len(order) - offset ELSE 0
               /\ \A k \in DOMAIN items : offset + k <= Len(order) /\ items[k] = Newest(offset + k)
               /\ Range(items) \subseteq Range(order)
  <1> DEFINE offset == (page - 1) * size
             newest == Reverse(order)
             last == IF offset + size < Len(newest) THEN offset + size ELSE Len(newest)
             items == ListByTenant(page, size)
  <1>1. offset \in Nat
    OBVIOUS
  <1>2. newest \in Seq(Requests) /\ Len(newest) = Len(order) /\ Len(order) \in Nat
        /\ \A k \in 1 .. Len(order) : newest[k] = Newest(k)
    <2>1. newest \in [1 .. Len(order) -> Requests]
      BY DEF Reverse
    <2>2. newest \in Seq(Requests)
      BY <2>1, SeqDef
    <2> QED
      BY <2>1, <2>2 DEF Reverse, Newest
  <1>3. items = SubSeq(newest, offset + 1, last)
    BY DEF ListByTenant
  <1> HIDE DEF offset, newest, items
  <1>4. last \in Nat /\ last <= Len(order)
    BY <1>1, <1>2
  <1>5. items \in Seq(Requests) /\ \A k \in DOMAIN items :
            k \in 1 .. last - offset /\ items[k] = newest[offset + k]
    <2>1. items = [k \in 1 .. last - offset |-> newest[offset + k]]
      BY <1>1, <1>2, <1>3, <1>4
    <2> QED
      BY <1>1, <1>2, <1>3, <1>4, <2>1
  <1>6. Len(items) = IF offset + 1 <= last THEN last - offset ELSE 0
    BY <1>1, <1>2, <1>3, <1>4
  <1>7. \A k \in DOMAIN items : /\ offset + k \in 1 .. Len(order)
                               /\ items[k] = Newest(offset + k)
    <2> SUFFICES ASSUME NEW k \in DOMAIN items
                 PROVE  offset + k \in 1 .. Len(order) /\ items[k] = Newest(offset + k)
      OBVIOUS
    <2>1. k \in 1 .. last - offset /\ items[k] = newest[offset + k]
      BY <1>5
    <2>2. offset + k \in 1 .. Len(order)
      <3> HIDE DEF last
      <3> QED
        BY <1>1, <1>2, <1>4, <2>1
    <2> QED
      BY <1>2, <2>1, <2>2
  <1>8. Range(items) \subseteq Range(order)
    <2> SUFFICES ASSUME NEW k \in DOMAIN items PROVE items[k] \in Range(order)
      BY DEF Range
    <2>1. Len(order) - (offset + k) + 1 \in DOMAIN order
      BY <1>1, <1>2, <1>7
    <2> QED
      BY <1>7, <2>1 DEF Newest, Range
  <1>9. Len(items) = IF offset + size < Len(order) THEN size
                     ELSE IF offset < Len(order) THEN Len(order) - offset ELSE 0
    BY <1>1, <1>2, <1>6
  <1> QED
    BY <1>1, <1>5, <1>7, <1>8, <1>9 DEF offset, items

-----------------------------------------------------------------------------
(* Steps of the reverification.                                            *)

\* The row at the head of the page has been dealt with.
Passed(v) == [v EXCEPT !.queue = Tail(@), !.scanned = Append(@, Head(v.queue).id)]

\* A page that has rows left goes on; a full one is followed by another page.
LEMMA AfterRowsFacts ==
    ASSUME NEW v \in RevType, v.pc = "rows"
    PROVE  /\ AfterRows(v) \in RevType
           /\ AfterRows(v).queue = v.queue /\ AfterRows(v).scanned = v.scanned
           /\ AfterRows(v).full = v.full /\ AfterRows(v).moved = v.moved
           /\ v.queue # <<>> => AfterRows(v).pc = "rows" /\ AfterRows(v).page = v.page
           /\ v.queue = <<>> /\ ~v.full => AfterRows(v).pc = "done"
           /\ v.queue = <<>> /\ v.full => AfterRows(v).pc = "page"
                                          /\ AfterRows(v).page = v.page + 1
  <1>1. CASE v.queue # <<>>
    BY <1>1 DEF AfterRows
  <1>2. CASE v.queue = <<>> /\ ~v.full
    <2>1. AfterRows(v) = [v EXCEPT !.pc = "done"]
      BY <1>2 DEF AfterRows
    <2> QED
      BY <1>2, <2>1 DEF RevType
  <1>3. CASE v.queue = <<>> /\ v.full
    <2>1. AfterRows(v) = [v EXCEPT !.pc = "page", !.page = @ + 1]
      BY <1>3 DEF AfterRows
    <2>2. v.page + 1 \in Nat
      BY DEF RevType
    <2> QED
      BY <1>3, <2>1, <2>2 DEF RevType
  <1>4. v.full \in BOOLEAN
    BY DEF RevType
  <1> QED
    BY <1>1, <1>2, <1>3, <1>4

\* Passing over a row moves it from the page to the rows that were seen.
LEMMA PassedFacts ==
    ASSUME NEW v \in RevType, v.queue # <<>>
    PROVE  /\ Passed(v) \in RevType
           /\ Passed(v).queue = Tail(v.queue)
           /\ Passed(v).scanned = Append(v.scanned, v.queue[1].id)
           /\ Passed(v).pc = v.pc /\ Passed(v).page = v.page /\ Passed(v).full = v.full
           /\ Passed(v).moved = v.moved
           /\ Len(Passed(v).scanned) = Len(v.scanned) + 1
           /\ Len(Passed(v).queue) = Len(v.queue) - 1
           /\ Len(v.queue) \in Nat \ {0} /\ Len(v.scanned) \in Nat
           /\ \A k \in 1 .. Len(v.queue) - 1 : Passed(v).queue[k] = v.queue[k + 1]
           /\ \A k \in 1 .. Len(v.scanned) : Passed(v).scanned[k] = v.scanned[k]
           /\ Passed(v).scanned[Len(v.scanned) + 1] = v.queue[1].id
  <1>1. v.queue \in Seq(CopyType) /\ v.scanned \in Seq(Requests)
    BY DEF RevType
  <1>2. /\ Tail(v.queue) \in Seq(CopyType) /\ Head(v.queue) = v.queue[1]
        /\ v.queue[1] \in CopyType
        /\ Len(Tail(v.queue)) = Len(v.queue) - 1 /\ Len(v.queue) \in Nat \ {0}
        /\ \A k \in 1 .. Len(v.queue) - 1 : Tail(v.queue)[k] = v.queue[k + 1]
    BY <1>1
  <1>3. v.queue[1].id \in Requests
    BY <1>2 DEF CopyType
  <1> DEFINE q == Tail(v.queue)
             s == Append(v.scanned, v.queue[1].id)
  <1>4. /\ s \in Seq(Requests) /\ Len(s) = Len(v.scanned) + 1 /\ Len(v.scanned) \in Nat
        /\ \A k \in 1 .. Len(v.scanned) : s[k] = v.scanned[k]
        /\ s[Len(v.scanned) + 1] = v.queue[1].id
    BY <1>1, <1>3
  <1>5. Passed(v) = [v EXCEPT !.queue = q, !.scanned = s]
    BY <1>2 DEF Passed
  <1> HIDE DEF q, s
  <1>6. q \in Seq(CopyType)
    BY <1>2 DEF q
  <1>7. /\ Passed(v) \in RevType /\ Passed(v).queue = q /\ Passed(v).scanned = s
        /\ Passed(v).pc = v.pc /\ Passed(v).page = v.page /\ Passed(v).full = v.full
        /\ Passed(v).moved = v.moved
    BY <1>4, <1>5, <1>6 DEF RevType
  <1> QED
    BY <1>2, <1>4, <1>7 DEF q, s

\* What a step over one row does to the reverification.
LEMMA RowStep ==
    ASSUME rev \in RevType, Room, rev.pc = "rows", rev' = AfterRows(Passed(rev))
    PROVE  /\ rev' \in RevType
           /\ rev'.queue = Tail(rev.queue)
           /\ rev'.scanned = Append(rev.scanned, rev.queue[1].id)
           /\ rev'.full = rev.full /\ rev'.moved = rev.moved
           /\ Len(rev'.scanned) = Len(rev.scanned) + 1 /\ Len(rev.scanned) \in Nat
           /\ Len(rev'.queue) = Len(rev.queue) - 1 /\ Len(rev.queue) \in Nat \ {0}
           /\ \A k \in 1 .. Len(rev.queue) - 1 : rev'.queue[k] = rev.queue[k + 1]
           /\ \A k \in 1 .. Len(rev.scanned) : rev'.scanned[k] = rev.scanned[k]
           /\ rev'.scanned[Len(rev.scanned) + 1] = rev.queue[1].id
           /\ \/ rev'.pc = "rows" /\ rev'.page = rev.page /\ rev'.queue # <<>>
              \/ rev'.pc = "done" /\ rev'.queue = <<>> /\ ~rev.full
              \/ rev'.pc = "page" /\ rev'.page = rev.page + 1 /\ rev'.queue = <<>> /\ rev.full
  <1>1. rev.queue # <<>>
    BY DEF Room
  <1>2. Passed(rev) \in RevType /\ Passed(rev).pc = "rows" /\ rev.full \in BOOLEAN
    BY <1>1, PassedFacts DEF RevType
  <1> DEFINE v == Passed(rev)
  <1>3. /\ v.queue = Tail(rev.queue)
        /\ v.scanned = Append(rev.scanned, rev.queue[1].id)
        /\ v.page = rev.page /\ v.full = rev.full /\ v.moved = rev.moved
        /\ Len(v.scanned) = Len(rev.scanned) + 1
        /\ Len(v.queue) = Len(rev.queue) - 1
        /\ Len(rev.queue) \in Nat \ {0} /\ Len(rev.scanned) \in Nat
        /\ \A k \in 1 .. Len(rev.queue) - 1 : v.queue[k] = rev.queue[k + 1]
        /\ \A k \in 1 .. Len(rev.scanned) : v.scanned[k] = rev.scanned[k]
        /\ v.scanned[Len(rev.scanned) + 1] = rev.queue[1].id
    BY <1>1, PassedFacts
  <1>4. v \in RevType /\ v.pc = "rows" /\ rev' = AfterRows(v)
    BY <1>2
  <1> HIDE DEF v
  <1>5. /\ rev' \in RevType /\ rev'.queue = v.queue /\ rev'.scanned = v.scanned
        /\ rev'.full = v.full /\ rev'.moved = v.moved
    BY <1>4, AfterRowsFacts
  <1>6. \/ rev'.pc = "rows" /\ rev'.page = v.page /\ v.queue # <<>>
        \/ rev'.pc = "done" /\ v.queue = <<>> /\ ~v.full
        \/ rev'.pc = "page" /\ rev'.page = v.page + 1 /\ v.queue = <<>> /\ v.full
    <2>1. CASE v.queue # <<>>
      BY <1>4, <2>1, AfterRowsFacts
    <2>2. CASE v.queue = <<>> /\ ~v.full
      BY <1>4, <2>2, AfterRowsFacts
    <2>3. CASE v.queue = <<>> /\ v.full
      BY <1>4, <2>3, AfterRowsFacts
    <2> QED
      BY <2>1, <2>2, <2>3
  <1>7. \/ rev'.pc = "rows" /\ rev'.page = rev.page /\ rev'.queue # <<>>
        \/ rev'.pc = "done" /\ rev'.queue = <<>> /\ ~rev.full
        \/ rev'.pc = "page" /\ rev'.page = rev.page + 1 /\ rev'.queue = <<>> /\ rev.full
    BY <1>3, <1>5, <1>6
  <1> QED
    BY <1>3, <1>5, <1>7

\* The next page: nothing is left, or its rows are copied as they are.
LEMMA PageStep ==
    ASSUME Typed, Listed, Room, FetchPage
    PROVE  /\ rev' \in RevType
           /\ rev.pc = "page" /\ rev.queue = <<>>
           /\ rev'.scanned = rev.scanned /\ rev'.page = rev.page /\ rev'.moved = rev.moved
           /\ PageLength \in Nat /\ Len(rev.scanned) \in Nat
           /\ LET items == ListByTenant(rev.page, PageLength)
              IN  \/ /\ Len(rev.scanned) >= MaxRecords \/ items = <<>>
                     /\ rev'.pc = "done" /\ rev'.queue = <<>>
                  \/ /\ Len(rev.scanned) < MaxRecords /\ items # <<>>
                     /\ rev'.pc = "rows" /\ Len(rev'.queue) = Len(items)
                     /\ Len(rev'.queue) \in Nat
                     /\ rev'.full = (Len(items) >= PageLength)
                     /\ \A k \in 1 .. Len(items) :
                           /\ rev'.queue[k] = [id |-> items[k], row |-> logs[items[k]]]
                           /\ logs[items[k]] # None
  <1> DEFINE items == ListByTenant(rev.page, PageLength)
  <1>1. /\ rev \in RevType /\ rev.page \in Nat \ {0} /\ rev.queue = <<>> /\ rev.pc = "page"
        /\ rev.queue \in Seq(CopyType) /\ rev.scanned \in Seq(Requests)
    BY DEF Typed, Room, FetchPage, RevType
  <1>2. Len(rev.scanned) \in Nat /\ Len(rev.scanned) <= MaxRecords
    BY <1>1, LogsAssumption DEF Room
  <1>3. PageLength \in Nat
    BY <1>2, LogsAssumption DEF PageLength
  <1>4. items \in Seq(Requests) /\ Range(items) \subseteq Range(order)
    BY <1>1, <1>3, PageOfRows DEF Typed
  <1>5. rev' = IF Len(rev.scanned) >= MaxRecords \/ items = <<>>
               THEN [rev EXCEPT !.pc = "done"]
               ELSE [rev EXCEPT !.pc = "rows", !.queue = Copies(items),
                                !.full = Len(items) >= PageLength]
    BY DEF FetchPage
  <1> HIDE DEF items
  <1>6. CASE Len(rev.scanned) >= MaxRecords \/ items = <<>>
    <2>1. rev' = [rev EXCEPT !.pc = "done"]
      BY <1>5, <1>6
    <2>2. rev' \in RevType /\ rev'.queue = <<>> /\ rev'.pc = "done"
          /\ rev'.scanned = rev.scanned /\ rev'.page = rev.page /\ rev'.moved = rev.moved
      BY <1>1, <2>1 DEF RevType
    <2> QED
      BY <1>1, <1>2, <1>3, <1>6, <2>2 DEF items
  <1>7. CASE ~(Len(rev.scanned) >= MaxRecords \/ items = <<>>)
    <2> DEFINE q == Copies(items)
               b == Len(items) >= PageLength
    <2>1. \A k \in DOMAIN items : items[k] \in Requests /\ logs[items[k]] # None
      BY <1>4 DEF Listed, Range
    <2>2. \A k \in DOMAIN items : [id |-> items[k], row |-> logs[items[k]]] \in CopyType
      BY <2>1 DEF Typed, CopyType
    <2>3. q = [k \in DOMAIN items |-> [id |-> items[k], row |-> logs[items[k]]]]
      BY DEF Copies
    <2>4. DOMAIN items = 1 .. Len(items) /\ Len(items) \in Nat
      BY <1>4
    <2> HIDE DEF q
    <2>5. q \in [1 .. Len(items) -> CopyType]
      BY <2>2, <2>3, <2>4
    <2>6. q \in Seq(CopyType) /\ Len(q) = Len(items)
      BY <2>4, <2>5, SeqDef
    <2>7. rev' = [rev EXCEPT !.pc = "rows", !.queue = q, !.full = b]
      BY <1>5, <1>7 DEF q
    <2>8. b \in BOOLEAN
      OBVIOUS
    <2> HIDE DEF b
    <2>9. rev' \in RevType /\ rev'.queue = q /\ rev'.pc = "rows" /\ rev'.full = b
          /\ rev'.scanned = rev.scanned /\ rev'.page = rev.page /\ rev'.moved = rev.moved
      BY <1>1, <2>6, <2>7, <2>8 DEF RevType
    <2>10. \A k \in 1 .. Len(items) : rev'.queue[k] = [id |-> items[k], row |-> logs[items[k]]]
      BY <2>3, <2>4, <2>9
    <2>11. Len(rev.scanned) < MaxRecords /\ items # <<>>
      BY <1>2, <1>7, LogsAssumption
    <2> QED
      BY <1>1, <1>2, <1>3, <2>1, <2>4, <2>6, <2>9, <2>10, <2>11 DEF items, b
  <1> QED
    BY <1>6, <1>7

-----------------------------------------------------------------------------
(* Types, and which rows there are.                                        *)

\* A step that leaves the reverification and the list of rows alone.
LEMMA LogsKept ==
    ASSUME LogsInv, UNCHANGED <<order, rev>>,
           approval' \in {"none", "valid", "expired"},
           turn' \in [Requests -> TurnType],
           \A r \in Requests : InFlight(r)' => turn'[r].user \in Users /\ turn'[r].conv \in Convs,
           \A r \in Requests : Stays(r) => Stays(r)',
           logs' \in [Requests -> RowType \cup {None}],
           \A r \in Requests : logs'[r] = None <=> logs[r] = None,
           convs' \in [Convs -> ConvType \cup {None}],
           erased' \subseteq Requests, crossed' \subseteq Requests,
           withdrawn' \in [Requests -> SUBSET Docs]
    PROVE  LogsInv'
  <1>1. Typed'
    BY DEF LogsInv, Typed
  <1>2. Known'
    BY DEF LogsInv, Known
  <1>3. Listed'
    BY DEF LogsInv, Listed
  <1>4. Room'
    BY DEF LogsInv, Room
  <1> QED
    BY <1>1, <1>2, <1>3, <1>4 DEF LogsInv

\* A step of the reverification that leaves the rows alone or changes their columns.
LEMMA RevKept ==
    ASSUME LogsInv, UNCHANGED <<approval, turn, order, convs, erased, withdrawn, crossed>>,
           logs' \in [Requests -> RowType \cup {None}],
           \A r \in Requests : logs'[r] = None <=> logs[r] = None,
           rev' \in RevType, Room'
    PROVE  LogsInv'
  <1>1. Typed'
    BY DEF LogsInv, Typed
  <1>2. Known'
    BY DEF LogsInv, Known, InFlight, Stays
  <1>3. Listed'
    BY DEF LogsInv, Listed
  <1> QED
    BY <1>1, <1>2, <1>3 DEF LogsInv

\* The initial state is well typed.
LEMMA LogsInit == Init => LogsInv
  <1> SUFFICES ASSUME Init PROVE LogsInv
    OBVIOUS
  <1>1. <<>> \in Seq(Requests) /\ <<>> \in Seq(CopyType) /\ Len(<<>>) = 0
    OBVIOUS
  <1>2. NoRev \in RevType /\ NoRev.pc = "idle" /\ NoRev.queue = <<>> /\ NoRev.scanned = <<>>
    BY <1>1 DEF NoRev, RevType
  <1>3. Typed
    BY <1>1, <1>2, TurnFacts DEF Init, Typed
  <1>4. Known
    BY DEF Init, Known, InFlight, NoTurn
  <1>5. Range(<<>>) = {}
    BY DEF Range
  <1>6. Listed
    BY <1>5 DEF Init, Listed
  <1>7. Room
    BY <1>1, <1>2, LogsAssumption DEF Init, Room
  <1> QED
    BY <1>3, <1>4, <1>6, <1>7 DEF LogsInv

\* Every transaction preserves the types and the list of the rows.
LEMMA LogsNext == LogsInv /\ [Next]_vars => LogsInv'
  <1> SUFFICES ASSUME LogsInv, [Next]_vars PROVE LogsInv'
    OBVIOUS
  <1>0. /\ approval \in {"none", "valid", "expired"}
        /\ turn \in [Requests -> TurnType]
        /\ logs \in [Requests -> RowType \cup {None}]
        /\ order \in Seq(Requests)
        /\ convs \in [Convs -> ConvType \cup {None}]
        /\ rev \in RevType
        /\ erased \subseteq Requests /\ crossed \subseteq Requests
        /\ withdrawn \in [Requests -> SUBSET Docs]
        /\ \A r \in Requests : InFlight(r) => turn[r].user \in Users /\ turn[r].conv \in Convs
        /\ \A r \in Requests : logs[r] # None => Stays(r)
    BY DEF LogsInv, Typed, Known
  <1>1. CASE UNCHANGED vars
    BY <1>0, <1>1, LogsKept DEF vars, InFlight, Stays
  <1>2. CASE ApprovePlain
    <2>1. \A r \in Requests : Witness[r] \in TurnType /\ Witness[r].phase = turn[r].phase
                              /\ Witness[r].user = turn[r].user /\ Witness[r].conv = turn[r].conv
      BY <1>0, TurnFacts DEF Witness, TurnType
    <2>2. turn' \in [Requests -> TurnType] /\ \A r \in Requests : turn'[r] = Witness[r]
      BY <1>2, <2>1 DEF ApprovePlain, Witness
    <2> QED
      BY <1>0, <1>2, <2>1, <2>2, LogsKept DEF ApprovePlain, InFlight, Stays
  <1>3. CASE RevokeActive \/ Expire
    BY <1>0, <1>3, LogsKept DEF RevokeActive, Expire, InFlight, Stays
  <1>4. ASSUME NEW r \in Requests, NEW u \in Users, NEW c \in Convs, StartTurn(r, u, c)
        PROVE  LogsInv'
    <2> DEFINE t == [phase |-> "run", user |-> u, conv |-> c, plain |-> IsPlainApproved,
                     seen |-> approval = "valid"]
    <2>1. t \in TurnType /\ t.user = u /\ t.conv = c
      BY TurnFacts DEF IsPlainApproved
    <2>2. turn' = [turn EXCEPT ![r] = t] /\ turn[r].phase = "new"
      BY <1>4 DEF StartTurn
    <2> HIDE DEF t
    <2>3. turn' \in [Requests -> TurnType] /\ turn'[r] = t
          /\ \A q \in Requests \ {r} : turn'[q] = turn[q]
      BY <1>0, <2>1, <2>2
    <2> QED
      BY <1>0, <1>4, <2>1, <2>2, <2>3, LogsKept DEF StartTurn, InFlight, Stays
  <1>5. ASSUME NEW r \in Requests, NEW cites \in SUBSET Docs,
               NEW query \in Rewritten, WriteLog(r, cites, query)
        PROVE  LogsInv'
    <2> DEFINE row == Row(turn[r], cites, query)
               t == [NoTurn EXCEPT !.phase = "written"]
               cv == [owner |-> turn[r].user, title |-> Stored(turn[r]), seen |-> turn[r].seen]
    <2>1. turn[r] \in TurnType /\ turn[r].user \in Users /\ turn[r].conv \in Convs
          /\ turn[r].phase = "run"
      BY <1>0, <1>5 DEF WriteLog, InFlight
    <2>2. row \in RowType /\ t \in TurnType /\ t.phase = "written"
      BY <2>1, RowFacts, TurnFacts DEF NoTurn
    <2>3. cv \in ConvType
      BY <2>1 DEF ConvType, TurnType, Stored
    <2>4. /\ logs' = [logs EXCEPT ![r] = row] /\ turn' = [turn EXCEPT ![r] = t]
          /\ convs' = [convs EXCEPT ![turn[r].conv] = IF @ = None THEN cv ELSE @]
          /\ order' = Append(order, r)
          /\ rev' = [rev EXCEPT !.moved = rev.pc # "idle"]
          /\ UNCHANGED <<approval, erased, withdrawn, crossed>>
      BY <1>5 DEF WriteLog
    <2> HIDE DEF row, t, cv
    <2>5. /\ logs' \in [Requests -> RowType \cup {None}] /\ logs'[r] = row
          /\ \A q \in Requests \ {r} : logs'[q] = logs[q]
      BY <1>0, <2>2, <2>4
    <2>6. /\ turn' \in [Requests -> TurnType] /\ turn'[r] = t
          /\ \A q \in Requests \ {r} : turn'[q] = turn[q]
      BY <1>0, <2>2, <2>4
    <2>7. convs' \in [Convs -> ConvType \cup {None}]
      BY <1>0, <2>3, <2>4
    <2>8. order' \in Seq(Requests) /\ Range(order') = Range(order) \cup {r}
      <3>1. /\ order' \in Seq(Requests) /\ Len(order') = Len(order) + 1 /\ Len(order) \in Nat
            /\ order'[Len(order) + 1] = r
            /\ \A k \in 1 .. Len(order) : order'[k] = order[k]
        BY <1>0, <2>4
      <3>2. DOMAIN order = 1 .. Len(order) /\ DOMAIN order' = 1 .. Len(order) + 1
        BY <1>0, <3>1
      <3>3. DOMAIN order' = DOMAIN order \cup {Len(order) + 1}
        BY <3>1, <3>2
      <3> QED
        BY <3>1, <3>2, <3>3 DEF Range
    <2>9. rev' \in RevType /\ rev'.pc = rev.pc /\ rev'.page = rev.page /\ rev'.queue = rev.queue
          /\ rev'.scanned = rev.scanned
      BY <1>0, <2>4 DEF RevType
    <2>10. Typed'
      BY <1>0, <2>4, <2>5, <2>6, <2>7, <2>8, <2>9 DEF Typed
    <2>11. Known'
      BY <1>0, <2>2, <2>5, <2>6 DEF Known, InFlight, Stays
    <2>12. Listed'
      BY <2>2, <2>5, <2>8, RowFacts DEF LogsInv, Listed
    <2>13. Room'
      BY <2>9 DEF LogsInv, Room
    <2> QED
      BY <2>10, <2>11, <2>12, <2>13 DEF LogsInv
  <1>6. ASSUME NEW r \in Requests, LoseLog(r) PROVE LogsInv'
    <2> DEFINE t == [NoTurn EXCEPT !.phase = "lost"]
    <2>1. t \in TurnType /\ t.phase = "lost"
      BY TurnFacts DEF NoTurn
    <2>2. turn' = [turn EXCEPT ![r] = t] /\ turn[r].phase = "run"
      BY <1>6 DEF LoseLog, InFlight
    <2> HIDE DEF t
    <2>3. turn' \in [Requests -> TurnType] /\ turn'[r] = t
          /\ \A q \in Requests \ {r} : turn'[q] = turn[q]
      BY <1>0, <2>1, <2>2
    <2> QED
      BY <1>0, <1>6, <2>1, <2>2, <2>3, LogsKept DEF LoseLog, InFlight, Stays
  <1>7. ASSUME NEW r \in Requests, NEW u \in Users, Feedback(u, r) PROVE LogsInv'
    <2> DEFINE row == [logs[r] EXCEPT !.feedback = u]
    <2>1. logs[r] # None /\ logs' = [logs EXCEPT ![r] = row]
      BY <1>0, <1>7 DEF Feedback, Owns
    <2>2. row \in RowType
      BY <1>0, <2>1, RowFacts
    <2> HIDE DEF row
    <2>3. logs' \in [Requests -> RowType \cup {None}]
          /\ \A q \in Requests : logs'[q] = None <=> logs[q] = None
      BY <1>0, <2>1, <2>2, RowFacts
    <2> QED
      BY <1>0, <1>7, <2>3, LogsKept DEF Feedback, InFlight, Stays
  <1>8. ASSUME NEW u \in Users, EraseMyLogs(u) PROVE LogsInv'
    <2> DEFINE gone == {r \in Requests : Owns(u, r)}
    <2>1. /\ logs' = [r \in Requests |-> IF r \in gone THEN ErasedRow(logs[r]) ELSE logs[r]]
          /\ erased' = erased \cup gone /\ crossed' = crossed \cup Held(gone)
          /\ UNCHANGED <<approval, turn, order, convs, rev, withdrawn>>
      BY <1>8 DEF EraseMyLogs
    <2>2. gone \subseteq Requests /\ \A r \in gone : logs[r] \in RowType
      BY <1>0 DEF Owns
    <2> HIDE DEF gone
    <2>3. logs' \in [Requests -> RowType \cup {None}]
          /\ \A q \in Requests : logs'[q] = None <=> logs[q] = None
      BY <1>0, <2>1, <2>2, RowFacts
    <2>4. erased' \subseteq Requests /\ crossed' \subseteq Requests
      BY <1>0, <2>1, <2>2 DEF Held
    <2> QED
      BY <1>0, <2>1, <2>3, <2>4, LogsKept DEF InFlight, Stays
  <1>9. ASSUME NEW gone, Drop(gone) PROVE LogsInv'
    <2>1. /\ logs' = [r \in Requests |-> IF r \in gone THEN None ELSE logs[r]]
          /\ rev' = [rev EXCEPT !.moved = @ \/ (rev.pc # "idle" /\ gone # {})]
          /\ UNCHANGED <<approval, turn, convs, erased, withdrawn, crossed>>
      BY <1>9 DEF Drop
    <2>2. order' \in Seq(Requests) /\ Range(order') = Range(order) \ gone
      <3>1. PICK stay \in Ascending({k \in DOMAIN order : order[k] \notin gone}) :
               order' = [k \in DOMAIN stay |-> order[stay[k]]]
        BY <1>9 DEF Drop
      <3> DEFINE S == {k \in DOMAIN order : order[k] \notin gone}
      <3>2. stay \in Ascending(S) /\ \A k : k \in S <=> k \in DOMAIN order /\ order[k] \notin gone
        OBVIOUS
      <3> HIDE DEF S
      <3>3. stay \in [1 .. Cardinality(S) -> S]
        BY <3>2 DEF Ascending
      <3>4. order' \in [DOMAIN stay -> Requests] /\ \A k \in DOMAIN stay : order'[k] = order[stay[k]]
        BY <1>0, <3>1, <3>2, <3>3
      <3> QED
        BY <1>0, <3>2, <3>4, RemainingRows, SMTT(30)
    <2>3. logs' \in [Requests -> RowType \cup {None}]
      BY <1>0, <2>1
    <2>4. rev' \in RevType /\ rev'.pc = rev.pc /\ rev'.page = rev.page /\ rev'.queue = rev.queue
          /\ rev'.scanned = rev.scanned
      BY <1>0, <2>1 DEF RevType
    <2>5. Typed'
      BY <1>0, <2>1, <2>2, <2>3, <2>4 DEF Typed
    <2>6. Known'
      BY <1>0, <2>1 DEF Known, InFlight, Stays
    <2>7. Listed'
      BY <2>1, <2>2 DEF LogsInv, Listed
    <2>8. Room'
      BY <2>4 DEF LogsInv, Room
    <2> QED
      BY <2>5, <2>6, <2>7, <2>8 DEF LogsInv
  <1>10. ASSUME NEW d \in Docs, MaskExcerpts(d) PROVE LogsInv'
    <2> DEFINE hit == Citing(d)
               row(r) == [logs[r] EXCEPT !.masked = @ \cup {d}]
    <2>1. /\ logs' = [r \in Requests |-> IF r \in hit THEN row(r) ELSE logs[r]]
          /\ withdrawn' = [r \in Requests |-> IF r \in hit THEN withdrawn[r] \cup {d}
                                              ELSE withdrawn[r]]
          /\ crossed' = crossed \cup Held(hit)
          /\ UNCHANGED <<approval, turn, order, convs, rev, erased>>
      BY <1>10 DEF MaskExcerpts
    <2>2. hit \subseteq Requests /\ \A r \in hit : logs[r] \in RowType /\ row(r) \in RowType
      <3>1. \A r \in hit : r \in Requests /\ logs[r] \in RowType
        BY <1>0 DEF Citing
      <3> QED
        BY <3>1, RowFacts
    <2> HIDE DEF hit, row
    <2>3. logs' \in [Requests -> RowType \cup {None}]
          /\ \A q \in Requests : logs'[q] = None <=> logs[q] = None
      BY <1>0, <2>1, <2>2, RowFacts
    <2>4. withdrawn' \in [Requests -> SUBSET Docs] /\ crossed' \subseteq Requests
      BY <1>0, <2>1, <2>2 DEF Held
    <2> QED
      BY <1>0, <2>1, <2>3, <2>4, LogsKept DEF InFlight, Stays
  <1>11. ASSUME NEW u \in Users, NEW c \in Convs,
                PatchConversation(u, c) \/ DeleteConversation(u, c)
         PROVE  LogsInv'
    <2>1. convs' \in [Convs -> ConvType \cup {None}]
      BY <1>0, <1>11 DEF PatchConversation, DeleteConversation, OwnsConv, ConvType
    <2> QED
      BY <1>0, <1>11, <2>1, LogsKept DEF PatchConversation, DeleteConversation, InFlight, Stays
  <1>12. CASE StartReverify
    <2>1. /\ rev' = [NoRev EXCEPT !.pc = "page", !.page = 1]
          /\ UNCHANGED <<approval, turn, logs, order, convs, erased, withdrawn, crossed>>
      BY <1>12 DEF StartReverify
    <2>2. <<>> \in Seq(Requests) /\ <<>> \in Seq(CopyType) /\ Len(<<>>) = 0
      OBVIOUS
    <2>3. rev' \in RevType /\ rev'.pc = "page" /\ rev'.page = 1 /\ rev'.queue = <<>>
          /\ rev'.scanned = <<>>
      BY <2>1, <2>2 DEF NoRev, RevType
    <2>4. Room'
      BY <2>2, <2>3, LogsAssumption DEF Room
    <2> QED
      BY <1>0, <2>1, <2>3, <2>4, RevKept
  <1>13. CASE FetchPage
    <2>1. UNCHANGED <<approval, turn, logs, order, convs, erased, withdrawn, crossed>>
      BY <1>13 DEF FetchPage
    <2>2. Typed /\ Listed /\ Room
      BY DEF LogsInv
    <2> DEFINE items == ListByTenant(rev.page, PageLength)
    <2>3. Len(items) \in Nat /\ Len(items) <= PageLength
      <3>1. rev.page \in Nat \ {0} /\ PageLength \in Nat /\ Len(order) \in Nat
        BY <1>0, <1>13, <2>2, PageStep DEF Room, RevType
      <3> DEFINE offset == (rev.page - 1) * PageLength
      <3>2. /\ offset \in Nat
            /\ Len(items) = IF offset + PageLength < Len(order) THEN PageLength
                            ELSE IF offset < Len(order) THEN Len(order) - offset ELSE 0
        BY <1>0, <3>1, PageOfRows
      <3> HIDE DEF offset, items
      <3> QED
        BY <3>1, <3>2
    <2>4. Len(rev.scanned) \in Nat /\ Len(rev.scanned) + Len(rev.queue) <= MaxRecords
          /\ rev.queue = <<>> /\ Len(<<>>) = 0
      BY <1>13, <2>2, PageStep DEF Room
    <2>5. Room'
      <3>1. CASE rev'.pc = "done" /\ rev'.queue = <<>>
        BY <1>13, <2>2, <2>4, <3>1, PageStep DEF Room
      <3>2. CASE /\ Len(rev.scanned) < MaxRecords /\ items # <<>> /\ rev'.pc = "rows"
                 /\ Len(rev'.queue) = Len(items)
        <4>1. rev'.queue # <<>>
          <5>1. items \in Seq(Requests)
            BY <1>0, <1>13, <2>2, PageStep, PageOfRows DEF Room, RevType
          <5> HIDE DEF items
          <5>2. Len(items) # 0
            BY <3>2, <5>1
          <5> QED
            BY <2>4, <3>2, <5>2
        <4>2. Len(items) <= MaxRecords - Len(rev.scanned)
          BY <2>3, <2>4, LogsAssumption DEF PageLength
        <4> HIDE DEF items
        <4>3. rev'.scanned = rev.scanned
          BY <1>13, <2>2, PageStep
        <4> QED
          BY <2>3, <2>4, <3>2, <4>1, <4>2, <4>3, LogsAssumption DEF Room
      <3> QED
        BY <1>13, <2>2, <3>1, <3>2, PageStep
    <2> QED
      BY <1>0, <1>13, <2>1, <2>2, <2>5, PageStep, RevKept
  <1>14. ASSUME rev.pc = "rows", rev' = AfterRows(Passed(rev)) PROVE rev' \in RevType /\ Room'
    <2>1. Room
      BY DEF LogsInv
    <2>2. Len(rev.scanned) + Len(rev.queue) <= MaxRecords
      BY <2>1 DEF Room
    <2>3. /\ rev' \in RevType
          /\ Len(rev'.scanned) = Len(rev.scanned) + 1 /\ Len(rev.scanned) \in Nat
          /\ Len(rev'.queue) = Len(rev.queue) - 1 /\ Len(rev.queue) \in Nat \ {0}
          /\ \/ rev'.pc = "rows" /\ rev'.queue # <<>>
             \/ rev'.pc = "done" /\ rev'.queue = <<>>
             \/ rev'.pc = "page" /\ rev'.page = rev.page + 1 /\ rev'.queue = <<>>
      BY <1>0, <1>14, <2>1, RowStep
    <2>4. Len(rev'.scanned) + Len(rev'.queue) <= MaxRecords
      <3>1. Len(rev'.scanned) + Len(rev'.queue) = Len(rev.scanned) + Len(rev.queue)
        <4>1. \A m \in Nat, n \in Nat \ {0} : (m + 1) + (n - 1) = m + n
          OBVIOUS
        <4> QED
          BY <2>3, <4>1
      <3> QED
        BY <2>2, <3>1
    <2>5. rev.page \in Nat /\ rev.page + 1 # 0
      BY <1>0 DEF RevType
    <2> QED
      BY <2>3, <2>4, <2>5 DEF Room
  <1>15. CASE SkipRow
    BY <1>0, <1>14, <1>15, RevKept DEF SkipRow, Passed
  <1>16. CASE UpdateRow
    <2> DEFINE copy == Head(rev.queue)
               row == [logs[copy.id] EXCEPT !.cites = copy.row.cites, !.masked = copy.row.masked]
    <2>1. /\ rev.pc = "rows" /\ rev' = AfterRows(Passed(rev))
          /\ logs' = IF logs[copy.id] = None THEN logs
                     ELSE [logs EXCEPT ![copy.id].cites = copy.row.cites,
                                       ![copy.id].masked = copy.row.masked]
          /\ UNCHANGED <<approval, turn, order, convs, erased, withdrawn, crossed>>
      BY <1>16 DEF UpdateRow, Passed
    <2>2. copy \in CopyType
      BY <1>0, <2>1 DEF LogsInv, Room, RevType
    <2>3. copy.id \in Requests /\ copy.row.cites \in SUBSET Docs /\ copy.row.masked \in SUBSET Docs
      BY <2>2 DEF CopyType, RowType
    <2> HIDE DEF copy
    <2>4. logs[copy.id] = None \/ row \in RowType
      BY <1>0, <2>3, RowFacts
    <2>5. logs[copy.id] # None => logs' = [logs EXCEPT ![copy.id] = row]
      BY <1>0, <2>1, <2>3
    <2> HIDE DEF row
    <2>6. logs' \in [Requests -> RowType \cup {None}]
          /\ \A q \in Requests : logs'[q] = None <=> logs[q] = None
      BY <1>0, <2>1, <2>3, <2>4, <2>5, RowFacts
    <2> QED
      BY <1>14, <2>1, <2>6, RevKept
  <1>17. CASE EndReverify
    <2>1. <<>> \in Seq(Requests) /\ <<>> \in Seq(CopyType) /\ Len(<<>>) = 0
      OBVIOUS
    <2>2. rev' \in RevType /\ Room'
      BY <1>17, <2>1, LogsAssumption DEF EndReverify, NoRev, RevType, Room
    <2> QED
      BY <1>0, <1>17, <2>2, RevKept DEF EndReverify
  <1> QED
    BY <1>1, <1>2, <1>3, <1>4, <1>5, <1>6, <1>7, <1>8, <1>9, <1>10, <1>11, <1>12, <1>13,
       <1>15, <1>16, <1>17 DEF Next, Reverify, DeleteMyLogs, DeleteLogs

\* Every row, turn and copy keeps its type, the list holds the rows that are there, and
\* a reverification looks at no more than max_records rows.
THEOREM LogsAreTyped == Spec => []TypeOK
  <1>1. LogsInv => TypeOK
    <2> SUFFICES ASSUME LogsInv PROVE TypeOK
      OBVIOUS
    <2>1. rev.pc \in {"idle", "page", "rows", "done"} /\ Len(rev.scanned) \in Nat
          /\ Len(rev.queue) \in Nat
      BY DEF LogsInv, Typed, RevType
    <2>2. Len(rev.scanned) <= MaxRecords
      <3>1. Len(rev.scanned) + Len(rev.queue) <= MaxRecords
        BY DEF LogsInv, Room
      <3>2. ASSUME NEW m \in Nat, NEW n \in Nat, m + n <= MaxRecords PROVE m <= MaxRecords
        BY <3>2, LogsAssumption
      <3> QED
        BY <2>1, <3>1, <3>2
    <2> QED
      BY <2>1, <2>2 DEF LogsInv, Typed, Listed, Range, TypeOK
  <1> QED
    BY <1>1, LogsInit, LogsNext, PTL DEF Spec

-----------------------------------------------------------------------------
(* Plain storage.                                                          *)

\* The erasure leaves nothing of the question, the answer, the user and the citations.
LEMMA ErasedColumns ==
    ASSUME NEW row \in RowType
    PROVE  Blanked(ErasedRow(row)) /\ ErasedRow(row).cites = {} /\ ErasedRow(row).masked = {}
  BY DEF RowType, ErasedRow, Blanked

\* No question is stored as it is that was not before.
LEMMA PlainKept ==
    ASSUME PlainInv,
           \A r \in Requests : logs'[r] # None =>
               \/ /\ logs[r] # None /\ logs'[r].question = logs[r].question
                  /\ logs'[r].policy = logs[r].policy /\ logs'[r].seen = logs[r].seen
               \/ logs'[r].question # "raw" /\ logs'[r].policy # "plain",
           \A c \in Convs : convs'[c] # None /\ convs'[c].title = "raw" => convs'[c] = convs[c],
           \A r \in Requests : InFlight(r)' /\ turn'[r].plain => turn'[r].seen
    PROVE  PlainInv'
  BY DEF PlainInv, PlainNeedsApproval

\* A row that UPDATE ... citations writes has the columns of the one before but two.
LEMMA UpdatedRow ==
    ASSUME LogsInv, UpdateRow
    PROVE  /\ rev.queue[1] \in CopyType /\ rev.queue[1].id \in Requests
           /\ 1 \in DOMAIN rev.queue /\ rev' = AfterRows(Passed(rev)) /\ rev.pc = "rows"
           /\ UNCHANGED <<approval, turn, order, convs, left, erased, withdrawn, crossed>>
           /\ \A r \in Requests \ {rev.queue[1].id} : logs'[r] = logs[r]
           /\ LET r == rev.queue[1].id
                  copy == rev.queue[1].row
              IN  /\ logs[r] = None => logs'[r] = None
                  /\ logs[r] # None =>
                       /\ logs'[r] # None
                       /\ logs'[r].question = logs[r].question /\ logs'[r].policy = logs[r].policy
                       /\ logs'[r].rewritten = logs[r].rewritten
                       /\ logs'[r].seen = logs[r].seen /\ logs'[r].answer = logs[r].answer
                       /\ logs'[r].user = logs[r].user
                       /\ logs'[r].cites = copy.cites /\ logs'[r].masked = copy.masked
  <1> DEFINE copy == Head(rev.queue)
             row == [logs[copy.id] EXCEPT !.cites = copy.row.cites, !.masked = copy.row.masked]
  <1>0. logs \in [Requests -> RowType \cup {None}] /\ rev \in RevType
    BY DEF LogsInv, Typed
  <1>1. /\ rev.pc = "rows" /\ rev' = AfterRows(Passed(rev))
        /\ logs' = IF logs[copy.id] = None THEN logs
                   ELSE [logs EXCEPT ![copy.id].cites = copy.row.cites,
                                     ![copy.id].masked = copy.row.masked]
        /\ UNCHANGED <<approval, turn, order, convs, left, erased, withdrawn, crossed>>
    BY DEF UpdateRow, Passed
  <1>2. copy \in CopyType /\ copy = rev.queue[1] /\ 1 \in DOMAIN rev.queue
    BY <1>0, <1>1 DEF LogsInv, Room, RevType
  <1>3. copy.id \in Requests /\ copy.row.cites \in SUBSET Docs /\ copy.row.masked \in SUBSET Docs
    BY <1>2 DEF CopyType, RowType
  <1> HIDE DEF copy
  <1>4. logs[copy.id] # None => logs' = [logs EXCEPT ![copy.id] = row]
    BY <1>0, <1>1, <1>3
  <1>5. logs[copy.id] # None =>
           /\ row \in RowType
           /\ row.question = logs[copy.id].question /\ row.policy = logs[copy.id].policy
           /\ row.rewritten = logs[copy.id].rewritten
           /\ row.seen = logs[copy.id].seen /\ row.answer = logs[copy.id].answer
           /\ row.user = logs[copy.id].user
           /\ row.cites = copy.row.cites /\ row.masked = copy.row.masked
    <2>1. logs[copy.id] # None => logs[copy.id] \in RowType
      BY <1>0, <1>3
    <2>2. logs[copy.id] # None => row \in RowType
      BY <1>3, <2>1, RowFacts
    <2> QED
      BY <2>1, <2>2 DEF RowType
  <1> HIDE DEF row
  <1>6. CASE logs[copy.id] = None
    BY <1>1, <1>2, <1>3, <1>6
  <1>7. CASE logs[copy.id] # None
    <2>1. logs'[copy.id] = row /\ \A r \in Requests \ {copy.id} : logs'[r] = logs[r]
      BY <1>0, <1>3, <1>4, <1>7
    <2>2. row # None
      BY <1>5, <1>7, RowFacts
    <2> QED
      BY <1>1, <1>2, <1>3, <1>5, <1>7, <2>1, <2>2
  <1> QED
    BY <1>6, <1>7

\* write and is_plain_approved: no transaction stores plain text without an approval
\* that was valid while the turn ran.
LEMMA PlainNext == LogsInv /\ PlainInv /\ [Next]_vars => PlainInv'
  <1> SUFFICES ASSUME LogsInv, PlainInv, [Next]_vars PROVE PlainInv'
    OBVIOUS
  <1>0. /\ turn \in [Requests -> TurnType]
        /\ logs \in [Requests -> RowType \cup {None}]
        /\ convs \in [Convs -> ConvType \cup {None}]
        /\ \A r \in Requests : InFlight(r) /\ turn[r].plain => turn[r].seen
        /\ \A r \in Requests : InFlight(r) => turn[r].conv \in Convs
    BY DEF LogsInv, Typed, PlainInv, Known
  <1>1. ASSUME UNCHANGED <<turn, logs, convs>> PROVE PlainInv'
    BY <1>0, <1>1, PlainKept DEF InFlight
  <1>2. CASE ApprovePlain
    <2>1. \A r \in Requests : turn'[r] = IF InFlight(r) THEN [turn[r] EXCEPT !.seen = TRUE]
                                         ELSE turn[r]
      BY <1>2 DEF ApprovePlain, Witness
    <2>2. \A r \in Requests : InFlight(r)' /\ turn'[r].plain => turn'[r].seen
      BY <1>0, <2>1 DEF InFlight, TurnType
    <2> QED
      BY <1>2, <2>2, PlainKept DEF ApprovePlain
  <1>3. ASSUME NEW r \in Requests, NEW u \in Users, NEW c \in Convs, StartTurn(r, u, c)
        PROVE  PlainInv'
    <2>1. \A q \in Requests : InFlight(q)' /\ turn'[q].plain => turn'[q].seen
      BY <1>0, <1>3 DEF StartTurn, InFlight, IsPlainApproved
    <2> QED
      BY <1>3, <2>1, PlainKept DEF StartTurn
  <1>4. ASSUME NEW r \in Requests, NEW cites \in SUBSET Docs,
               NEW query \in Rewritten, WriteLog(r, cites, query)
        PROVE  PlainInv'
    <2> DEFINE t == turn[r]
    <2>1. /\ InFlight(r) /\ t.conv \in Convs
          /\ logs' = [logs EXCEPT ![r] = Row(t, cites, query)]
          /\ convs' = [convs EXCEPT ![t.conv] =
                 IF @ = None THEN [owner |-> t.user, title |-> Stored(t), seen |-> t.seen]
                 ELSE @]
          /\ turn' = [turn EXCEPT ![r] = [NoTurn EXCEPT !.phase = "written"]]
      BY <1>0, <1>4 DEF WriteLog
    <2>2. Stored(t) = "raw" => t.plain /\ t.seen
      BY <1>0, <2>1 DEF Stored
    <2>3. /\ Row(t, cites, query).question = "raw" <=> Row(t, cites, query).policy = "plain"
          /\ Row(t, cites, query).policy = "plain" => Row(t, cites, query).seen
      BY <2>2 DEF Row, Stored
    <2>4. /\ logs'[r] = Row(t, cites, query) /\ \A q \in Requests \ {r} : logs'[q] = logs[q]
          /\ \A c \in Convs : convs'[c] = convs[c]
                              \/ convs'[c] = [owner |-> t.user, title |-> Stored(t), seen |-> t.seen]
          /\ turn'[r].phase = "written" /\ \A q \in Requests \ {r} : turn'[q] = turn[q]
      BY <1>0, <2>1 DEF NoTurn
    <2> HIDE DEF t
    <2>5. \A q \in Requests : logs'[q] # None =>
             /\ logs'[q].question = "raw" <=> logs'[q].policy = "plain"
             /\ logs'[q].policy = "plain" => logs'[q].seen
      BY <2>3, <2>4 DEF PlainInv, PlainNeedsApproval
    <2>6. \A c \in Convs : convs'[c] # None /\ convs'[c].title = "raw" => convs'[c].seen
      BY <2>2, <2>4 DEF PlainInv, PlainNeedsApproval
    <2>7. \A q \in Requests : InFlight(q)' /\ turn'[q].plain => turn'[q].seen
      BY <1>0, <2>4 DEF InFlight
    <2> QED
      BY <2>5, <2>6, <2>7 DEF PlainInv, PlainNeedsApproval
  <1>5. ASSUME NEW r \in Requests, LoseLog(r) PROVE PlainInv'
    <2>1. \A q \in Requests : InFlight(q)' /\ turn'[q].plain => turn'[q].seen
      BY <1>0, <1>5 DEF LoseLog, InFlight, NoTurn
    <2> QED
      BY <1>5, <2>1, PlainKept DEF LoseLog
  <1>6. ASSUME NEW r \in Requests, NEW u \in Users, Feedback(u, r) PROVE PlainInv'
    <2>1. /\ logs[r] \in RowType /\ logs[r] # None
          /\ logs' = [logs EXCEPT ![r] = [logs[r] EXCEPT !.feedback = u]]
      BY <1>0, <1>6 DEF Feedback, Owns
    <2>2. logs'[r] = [logs[r] EXCEPT !.feedback = u] /\ \A q \in Requests \ {r} : logs'[q] = logs[q]
      BY <1>0, <2>1
    <2>3. /\ logs'[r].question = logs[r].question /\ logs'[r].policy = logs[r].policy
          /\ logs'[r].seen = logs[r].seen /\ logs[r] # None
      BY <2>1, <2>2 DEF RowType
    <2>4. UNCHANGED <<turn, convs>>
      BY <1>6 DEF Feedback
    <2> QED
      BY <1>0, <2>2, <2>3, <2>4, PlainKept DEF InFlight
  <1>7. ASSUME NEW u \in Users, EraseMyLogs(u) PROVE PlainInv'
    <2>1. \A r \in Requests : \/ logs'[r] = logs[r]
                              \/ logs[r] \in RowType /\ logs'[r] = ErasedRow(logs[r])
      BY <1>0, <1>7 DEF EraseMyLogs, Owns
    <2>2. \A row \in RowType : ErasedRow(row).question # "raw" /\ ErasedRow(row).policy # "plain"
      BY ErasedColumns DEF Blanked
    <2> QED
      BY <1>0, <1>7, <2>1, <2>2, PlainKept DEF EraseMyLogs, InFlight
  <1>8. ASSUME NEW gone, Drop(gone) PROVE PlainInv'
    <2>1. \A r \in Requests : logs'[r] \in {None, logs[r]}
      BY <1>8 DEF Drop
    <2> QED
      BY <1>0, <1>8, <2>1, PlainKept DEF Drop, InFlight
  <1>9. ASSUME NEW d \in Docs, MaskExcerpts(d) PROVE PlainInv'
    <2>1. \A r \in Requests :
             \/ logs'[r] = logs[r]
             \/ /\ logs[r] \in RowType /\ logs[r] # None
                /\ logs'[r] = [logs[r] EXCEPT !.masked = @ \cup {d}]
      BY <1>0, <1>9 DEF MaskExcerpts, Citing
    <2>2. \A r \in Requests :
             \/ logs'[r] = logs[r]
             \/ /\ logs[r] # None /\ logs'[r].question = logs[r].question
                /\ logs'[r].policy = logs[r].policy /\ logs'[r].seen = logs[r].seen
      BY <2>1 DEF RowType
    <2>3. UNCHANGED <<turn, convs>>
      BY <1>9 DEF MaskExcerpts
    <2> QED
      BY <1>0, <2>2, <2>3, PlainKept DEF InFlight
  <1>10. ASSUME NEW u \in Users, NEW c \in Convs,
                PatchConversation(u, c) \/ DeleteConversation(u, c)
         PROVE  PlainInv'
    <2>1. \A b \in Convs : convs'[b] # None /\ convs'[b].title = "raw" => convs'[b] = convs[b]
      BY <1>0, <1>10 DEF PatchConversation, DeleteConversation, OwnsConv, ConvType
    <2> QED
      BY <1>0, <1>10, <2>1, PlainKept DEF PatchConversation, DeleteConversation, InFlight
  <1>11. CASE UpdateRow
    <2>1. \A r \in Requests :
             \/ logs'[r] = logs[r]
             \/ /\ logs[r] # None /\ logs'[r].question = logs[r].question
                /\ logs'[r].policy = logs[r].policy /\ logs'[r].seen = logs[r].seen
      BY <1>11, UpdatedRow
    <2>2. UNCHANGED <<turn, convs>>
      BY <1>11 DEF UpdateRow
    <2> QED
      BY <1>0, <2>1, <2>2, PlainKept DEF InFlight
  <1>12. CASE RevokeActive \/ Expire \/ StartReverify \/ FetchPage \/ SkipRow \/ EndReverify
    BY <1>1, <1>12 DEF RevokeActive, Expire, StartReverify, FetchPage, SkipRow, EndReverify
  <1>13. CASE UNCHANGED vars
    BY <1>1, <1>13 DEF vars
  <1> QED
    BY <1>2, <1>3, <1>4, <1>5, <1>6, <1>7, <1>8, <1>9, <1>10, <1>11, <1>12, <1>13
       DEF Next, Reverify, DeleteMyLogs, DeleteLogs

\* is_plain_approved and write: pii_storage_policy is true of the question of its row, and
\* a question, or a title cut from it, is stored as it was typed only if an approval was
\* valid while its turn ran, however approvals, turns, erasures and reverifications
\* interleave.  rewritten_query is outside the approval.
THEOREM PlainTextIsApproved == Spec => []PlainNeedsApproval
  <1>1. Init => PlainInv
    BY DEF Init, PlainInv, PlainNeedsApproval, InFlight, NoTurn
  <1>2. PlainInv => PlainNeedsApproval
    BY DEF PlainInv
  <1> QED
    BY <1>1, <1>2, LogsInit, LogsNext, PlainNext, PTL DEF Spec

-----------------------------------------------------------------------------
(* What was erased or masked.                                              *)

\* A row that keeps its columns, or changes the feedback at most.
LEMMA RowKept ==
    ASSUME NEW r \in Requests, RowRemoved(r), Stays(r) => Stays(r)',
           r \in erased' <=> r \in erased, r \in crossed => r \in crossed',
           withdrawn'[r] = withdrawn[r], logs'[r] # None => logs[r] # None,
           logs'[r] # None => /\ Blanked(logs[r]) => Blanked(logs'[r])
                              /\ logs'[r].cites = logs[r].cites
                              /\ logs'[r].masked = logs[r].masked
    PROVE  RowRemoved(r)'
  BY DEF RowRemoved

\* A copy of a row whose citations stay as they are, or that is marked as changed.
LEMMA CopyKept ==
    ASSUME NEW copy, Current(copy), Stays(copy.id) => Stays(copy.id)',
           copy.id \in crossed => copy.id \in crossed',
           \/ copy.id \in crossed'
           \/ logs'[copy.id] = None
           \/ /\ logs[copy.id] # None
              /\ logs'[copy.id].cites = logs[copy.id].cites
              /\ logs'[copy.id].masked = logs[copy.id].masked
    PROVE  Current(copy)'
  BY DEF Current

\* A step that leaves the rows, what was removed from them and the copies alone.
LEMMA RemovedStands ==
    ASSUME RemovedInv, UNCHANGED <<logs, rev, erased, withdrawn, crossed>>,
           \A r \in Requests : Stays(r) => Stays(r)',
           \A k \in DOMAIN rev.queue : rev.queue[k].id \in Requests
    PROVE  RemovedInv'
  <1>1. \A r \in Requests : RowRemoved(r)'
    BY RowKept DEF RemovedInv
  <1>2. ASSUME NEW k \in DOMAIN rev.queue PROVE Current(rev.queue[k])'
    BY DEF RemovedInv, Current
  <1> QED
    BY <1>1, <1>2 DEF RemovedInv

\* A step of the reverification that leaves the rows alone.
LEMMA RemovedRead ==
    ASSUME RemovedInv, UNCHANGED <<turn, logs, erased, withdrawn, crossed>>,
           \A k \in DOMAIN rev'.queue : Current(rev'.queue[k])
    PROVE  RemovedInv'
  <1>1. \A r \in Requests : RowRemoved(r)'
    BY RowKept DEF RemovedInv, Stays
  <1>2. ASSUME NEW copy PROVE Current(copy)' <=> Current(copy)
    BY DEF Current, Stays
  <1> QED
    BY <1>1, <1>2 DEF RemovedInv

\* Erasures, hard deletes, feedback and reverifications: what was removed from a row
\* comes back only through a copy that was taken before.
LEMMA RemovedNext == LogsInv /\ RemovedInv /\ [Next]_vars => RemovedInv'
  <1> SUFFICES ASSUME LogsInv, RemovedInv, [Next]_vars PROVE RemovedInv'
    OBVIOUS
  <1>0. /\ turn \in [Requests -> TurnType]
        /\ logs \in [Requests -> RowType \cup {None}]
        /\ withdrawn \in [Requests -> SUBSET Docs]
        /\ rev \in RevType /\ Room
        /\ \A r \in Requests : logs[r] # None => Stays(r)
        /\ \A r \in Requests : RowRemoved(r)
        /\ \A k \in DOMAIN rev.queue : Current(rev.queue[k])
    BY DEF LogsInv, Typed, Known, RemovedInv
  <1>1. /\ rev.queue \in Seq(CopyType) /\ DOMAIN rev.queue = 1 .. Len(rev.queue)
        /\ \A k \in DOMAIN rev.queue : rev.queue[k] \in CopyType /\ rev.queue[k].id \in Requests
    <2>1. rev.queue \in Seq(CopyType)
      BY <1>0 DEF RevType
    <2>2. \A k \in DOMAIN rev.queue : rev.queue[k] \in CopyType
      BY <2>1
    <2> QED
      BY <2>1, <2>2 DEF CopyType
  <1>2. CASE UNCHANGED vars
    BY <1>1, <1>2, RemovedStands DEF vars, Stays
  <1>3. CASE ApprovePlain
    <2>1. \A r \in Requests : turn'[r].phase = turn[r].phase
      BY <1>0, <1>3 DEF ApprovePlain, Witness, TurnType
    <2> QED
      BY <1>1, <1>3, <2>1, RemovedStands DEF ApprovePlain, Stays
  <1>4. CASE RevokeActive \/ Expire
    BY <1>1, <1>4, RemovedStands DEF RevokeActive, Expire, Stays
  <1>5. ASSUME NEW r \in Requests,
               LoseLog(r) \/ \E u \in Users, c \in Convs : StartTurn(r, u, c)
        PROVE  RemovedInv'
    <2>1. turn[r].phase # "written" /\ \A q \in Requests \ {r} : turn'[q] = turn[q]
      BY <1>0, <1>5 DEF LoseLog, StartTurn, InFlight
    <2>2. UNCHANGED <<logs, rev, erased, withdrawn, crossed>>
      BY <1>5 DEF LoseLog, StartTurn
    <2>3. \A q \in Requests : Stays(q) => Stays(q)'
      BY <2>1 DEF Stays
    <2> QED
      BY <1>1, <2>2, <2>3, RemovedStands
  <1>6. ASSUME NEW r \in Requests, NEW cites \in SUBSET Docs,
               NEW query \in Rewritten, WriteLog(r, cites, query)
        PROVE  RemovedInv'
    <2>1. /\ turn[r].phase = "run" /\ logs' = [logs EXCEPT ![r] = Row(turn[r], cites, query)]
          /\ turn' = [turn EXCEPT ![r] = [NoTurn EXCEPT !.phase = "written"]]
          /\ rev' = [rev EXCEPT !.moved = rev.pc # "idle"]
          /\ UNCHANGED <<erased, withdrawn, crossed>>
      BY <1>6 DEF WriteLog, InFlight
    <2>2. /\ \A q \in Requests \ {r} : logs'[q] = logs[q] /\ turn'[q] = turn[q]
          /\ rev'.queue = rev.queue /\ ~Stays(r)
      BY <1>0, <2>1 DEF RevType, Stays
    <2>3. r \notin erased /\ withdrawn[r] = {}
      BY <1>0, <2>2 DEF RowRemoved
    <2>4. \A q \in Requests \ {r} : RowRemoved(q)'
      BY <1>0, <2>1, <2>2, RowKept DEF Stays
    <2>5. RowRemoved(r)'
      BY <2>1, <2>3 DEF RowRemoved
    <2>6. ASSUME NEW k \in DOMAIN rev.queue PROVE Current(rev.queue[k])'
      <3>1. PICK copy : copy = rev.queue[k]
        OBVIOUS
      <3>2. Current(copy) /\ copy.id \in Requests \ {r}
        BY <1>0, <1>1, <2>2, <3>1 DEF Current
      <3>3. Current(copy)'
        BY <2>1, <2>2, <3>2 DEF Current, Stays
      <3> QED
        BY <2>1, <2>2, <3>1, <3>3 DEF Current, Stays
    <2> QED
      BY <2>2, <2>4, <2>5, <2>6 DEF RemovedInv
  <1>7. ASSUME UNCHANGED <<turn, rev>>,
               \A r \in Requests : RowRemoved(r)',
               \A r \in Requests : r \in crossed => r \in crossed',
               \A r \in Requests :
                  \/ r \in crossed' \/ logs'[r] = None
                  \/ /\ logs[r] # None
                     /\ logs'[r].cites = logs[r].cites /\ logs'[r].masked = logs[r].masked
                  \/ \A k \in DOMAIN rev.queue : rev.queue[k].id # r
        PROVE  RemovedInv'
    <2>1. ASSUME NEW k \in DOMAIN rev.queue PROVE Current(rev.queue[k])'
      <3>1. PICK copy : copy = rev.queue[k]
        OBVIOUS
      <3>2. Current(copy) /\ copy.id \in Requests
        BY <1>0, <1>1, <3>1
      <3>3. Current(copy)'
        BY <1>7, <3>1, <3>2, CopyKept DEF Stays
      <3> QED
        BY <1>7, <3>1, <3>3 DEF Current, Stays
    <2> QED
      BY <1>7, <2>1 DEF RemovedInv
  <1>8. ASSUME NEW r \in Requests, NEW u \in Users, Feedback(u, r) PROVE RemovedInv'
    <2>1. /\ logs[r] \in RowType /\ logs[r] # None
          /\ logs' = [logs EXCEPT ![r] = [logs[r] EXCEPT !.feedback = u]]
          /\ UNCHANGED <<turn, rev, erased, withdrawn, crossed>>
      BY <1>0, <1>8 DEF Feedback, Owns
    <2>2. logs'[r] = [logs[r] EXCEPT !.feedback = u] /\ \A q \in Requests \ {r} : logs'[q] = logs[q]
      BY <1>0, <2>1
    <2>3. /\ Blanked(logs[r]) => Blanked(logs'[r])
          /\ logs'[r].cites = logs[r].cites /\ logs'[r].masked = logs[r].masked
      BY <2>1, <2>2 DEF RowType, Blanked
    <2>4. RowRemoved(r)'
      BY <1>0, <2>1, <2>3, RowKept DEF Stays
    <2>5. \A q \in Requests \ {r} : RowRemoved(q)'
      BY <1>0, <2>1, <2>2, RowKept DEF Stays
    <2> QED
      BY <1>7, <2>1, <2>2, <2>3, <2>4, <2>5
  <1>9. ASSUME NEW u \in Users, EraseMyLogs(u) PROVE RemovedInv'
    <2> DEFINE gone == {r \in Requests : Owns(u, r)}
    <2>1. /\ logs' = [r \in Requests |-> IF r \in gone THEN ErasedRow(logs[r]) ELSE logs[r]]
          /\ erased' = erased \cup gone /\ crossed' = crossed \cup Held(gone)
          /\ UNCHANGED <<turn, rev, withdrawn>>
      BY <1>9 DEF EraseMyLogs
    <2>2. \A r \in gone : r \in Requests /\ logs[r] \in RowType /\ logs[r] # None
      BY <1>0 DEF Owns
    <2> HIDE DEF gone
    <2>3. ASSUME NEW r \in gone PROVE RowRemoved(r)'
      <3>1. Blanked(logs'[r]) /\ logs'[r].cites = {} /\ Stays(r)'
        BY <1>0, <2>1, <2>2, ErasedColumns DEF Stays
      <3> QED
        BY <3>1 DEF RowRemoved
    <2>4. \A r \in Requests \ gone : RowRemoved(r)'
      BY <1>0, <2>1, RowKept DEF Stays
    <2>5. \A r \in gone : r \in crossed' \/ \A k \in DOMAIN rev.queue : rev.queue[k].id # r
      BY <2>1 DEF Held
    <2>6. \A r \in Requests \ gone : logs'[r] = logs[r]
      BY <2>1
    <2> QED
      BY <1>7, <2>1, <2>3, <2>4, <2>5, <2>6
  <1>10. ASSUME NEW gone, Drop(gone) PROVE RemovedInv'
    <2>1. /\ \A r \in Requests : logs'[r] = None \/ logs'[r] = logs[r]
          /\ rev' = [rev EXCEPT !.moved = @ \/ (rev.pc # "idle" /\ gone # {})]
          /\ UNCHANGED <<turn, erased, withdrawn, crossed>>
      BY <1>10 DEF Drop
    <2>2. rev'.queue = rev.queue
      BY <1>0, <2>1 DEF RevType
    <2>3. \A r \in Requests : RowRemoved(r)'
      BY <1>0, <2>1, RowKept DEF Stays
    <2>4. ASSUME NEW k \in DOMAIN rev.queue PROVE Current(rev.queue[k])'
      <3>1. PICK copy : copy = rev.queue[k]
        OBVIOUS
      <3>2. Current(copy) /\ copy.id \in Requests
        BY <1>0, <1>1, <3>1
      <3>3. Current(copy)'
        BY <2>1, <3>2 DEF Current, Stays
      <3> QED
        BY <2>2, <3>1, <3>3 DEF Current, Stays
    <2> QED
      BY <2>2, <2>3, <2>4 DEF RemovedInv
  <1>11. ASSUME NEW d \in Docs, MaskExcerpts(d) PROVE RemovedInv'
    <2> DEFINE hit == Citing(d)
               row(r) == [logs[r] EXCEPT !.masked = @ \cup {d}]
    <2>1. /\ logs' = [r \in Requests |-> IF r \in hit THEN row(r) ELSE logs[r]]
          /\ withdrawn' = [r \in Requests |-> IF r \in hit THEN withdrawn[r] \cup {d}
                                              ELSE withdrawn[r]]
          /\ crossed' = crossed \cup Held(hit)
          /\ UNCHANGED <<turn, rev, erased>>
      BY <1>11 DEF MaskExcerpts
    <2>2. \A r \in hit : r \in Requests /\ logs[r] \in RowType /\ logs[r] # None /\ d \in logs[r].cites
      BY <1>0 DEF Citing
    <2>3. \A r \in hit : /\ Blanked(logs[r]) => Blanked(row(r))
                         /\ row(r).cites = logs[r].cites /\ row(r).masked = logs[r].masked \cup {d}
      BY <2>2 DEF RowType, Blanked
    <2> HIDE DEF hit, row
    <2>4. ASSUME NEW r \in hit PROVE RowRemoved(r)'
      <3>1. r \in Requests /\ logs'[r] = row(r) /\ withdrawn'[r] = withdrawn[r] \cup {d}
        BY <2>1, <2>2
      <3>2. RowRemoved(r) /\ Stays(r) /\ Stays(r)'
        BY <1>0, <2>1, <2>2 DEF Stays
      <3>3. r \in crossed => r \in crossed'
        BY <2>1
      <3> QED
        BY <2>1, <2>2, <2>3, <3>1, <3>2, <3>3 DEF RowRemoved
    <2>5. \A r \in Requests \ hit : RowRemoved(r)'
      BY <1>0, <2>1, RowKept DEF Stays
    <2>6. \A r \in hit : r \in crossed' \/ \A k \in DOMAIN rev.queue : rev.queue[k].id # r
      BY <2>1 DEF Held
    <2>7. \A r \in Requests \ hit : logs'[r] = logs[r]
      BY <2>1
    <2> QED
      BY <1>7, <2>1, <2>4, <2>5, <2>6, <2>7
  <1>12. ASSUME NEW u \in Users, NEW c \in Convs,
                PatchConversation(u, c) \/ DeleteConversation(u, c)
         PROVE  RemovedInv'
    BY <1>1, <1>12, RemovedStands DEF PatchConversation, DeleteConversation, Stays
  <1>13. CASE StartReverify \/ EndReverify
    <2>1. rev'.queue = <<>> /\ UNCHANGED <<turn, logs, erased, withdrawn, crossed>>
      <3>1. NoRev.queue = <<>> /\ [NoRev EXCEPT !.pc = "page", !.page = 1].queue = <<>>
        BY DEF NoRev
      <3>2. CASE StartReverify
        BY <3>1, <3>2 DEF StartReverify
      <3>3. CASE EndReverify
        BY <3>1, <3>3 DEF EndReverify
      <3> QED
        BY <1>13, <3>2, <3>3
    <2>2. DOMAIN <<>> = {}
      OBVIOUS
    <2> QED
      BY <2>1, <2>2, RemovedRead
  <1>14. CASE FetchPage
    <2>1. Typed /\ Listed /\ Room /\ UNCHANGED <<turn, logs, erased, withdrawn, crossed>>
      BY <1>14 DEF LogsInv, FetchPage
    <2>2. rev' \in RevType /\ rev'.queue \in Seq(CopyType)
      BY <1>14, <2>1, PageStep DEF RevType
    <2> DEFINE items == ListByTenant(rev.page, PageLength)
    <2>3. \/ rev'.queue = <<>>
          \/ /\ Len(rev'.queue) = Len(items)
             /\ \A k \in 1 .. Len(items) :
                   /\ rev'.queue[k] = [id |-> items[k], row |-> logs[items[k]]]
                   /\ logs[items[k]] # None
      BY <1>14, <2>1, PageStep
    <2> HIDE DEF items
    <2>4. ASSUME NEW k \in DOMAIN rev'.queue PROVE Current(rev'.queue[k])
      <3>1. k \in 1 .. Len(items) /\ rev'.queue[k] \in CopyType
        BY <2>2, <2>3, <2>4
      <3>2. rev'.queue[k] = [id |-> items[k], row |-> logs[items[k]]] /\ logs[items[k]] # None
        BY <2>3, <2>4, <3>1, <2>2
      <3>3. items[k] \in Requests
        BY <3>1, <3>2 DEF CopyType
      <3> QED
        BY <1>0, <3>2, <3>3 DEF Current
    <2> QED
      BY <2>1, <2>4, RemovedRead
  <1>15. ASSUME rev.pc = "rows", rev' = AfterRows(Passed(rev))
         PROVE  \A k \in DOMAIN rev'.queue : k + 1 \in DOMAIN rev.queue
                                             /\ rev'.queue[k] = rev.queue[k + 1]
    <2>1. /\ rev' \in RevType
          /\ Len(rev'.queue) = Len(rev.queue) - 1 /\ Len(rev.queue) \in Nat \ {0}
          /\ \A k \in 1 .. Len(rev.queue) - 1 : rev'.queue[k] = rev.queue[k + 1]
      BY <1>0, <1>15, RowStep
    <2>2. DOMAIN rev'.queue = 1 .. Len(rev'.queue)
      BY <2>1 DEF RevType
    <2> QED
      BY <1>1, <2>1, <2>2
  <1>16. CASE SkipRow
    <2>1. rev.pc = "rows" /\ rev' = AfterRows(Passed(rev))
          /\ UNCHANGED <<turn, logs, erased, withdrawn, crossed>>
      BY <1>16 DEF SkipRow, Passed
    <2> QED
      BY <1>0, <1>15, <2>1, RemovedRead
  <1>17. CASE UpdateRow
    <2> DEFINE r == rev.queue[1].id
               copy == rev.queue[1].row
    <2>1. /\ r \in Requests /\ 1 \in DOMAIN rev.queue /\ rev.pc = "rows"
          /\ rev' = AfterRows(Passed(rev))
          /\ UNCHANGED <<turn, erased, withdrawn, crossed>>
          /\ \A q \in Requests \ {r} : logs'[q] = logs[q]
          /\ logs[r] = None => logs'[r] = None
          /\ logs[r] # None =>
                /\ logs'[r] # None
                /\ logs'[r].question = logs[r].question /\ logs'[r].policy = logs[r].policy
                /\ logs'[r].rewritten = logs[r].rewritten
                /\ logs'[r].answer = logs[r].answer /\ logs'[r].user = logs[r].user
                /\ logs'[r].cites = copy.cites /\ logs'[r].masked = copy.masked
      BY <1>17, UpdatedRow
    <2>2. r \notin crossed /\ logs[r] # None => /\ copy.cites = logs[r].cites
                                                /\ copy.masked = logs[r].masked
      BY <1>0, <2>1 DEF Current
    <2>3. PICK s, cp : s = r /\ cp = copy
      OBVIOUS
    <2> HIDE DEF r, copy
    <2>4. RowRemoved(s)'
      BY <1>0, <2>1, <2>2, <2>3 DEF RowRemoved, Blanked, Stays
    <2>5. \A q \in Requests \ {s} : RowRemoved(q)'
      BY <1>0, <2>1, <2>3, RowKept DEF Stays
    <2>6. ASSUME NEW k \in DOMAIN rev'.queue, NEW c, c = rev'.queue[k] PROVE Current(c)'
      <3>1. k + 1 \in DOMAIN rev.queue /\ c = rev.queue[k + 1]
        BY <1>15, <2>1, <2>6
      <3>2. Current(c) /\ c.id \in Requests
        BY <1>0, <1>1, <3>1
      <3> QED
        BY <2>1, <2>2, <2>3, <3>2 DEF Current, Stays
    <2>7. \A k \in DOMAIN rev'.queue : Current(rev.queue[k])'
      BY <2>6 DEF Current, Stays
    <2> QED
      BY <2>4, <2>5, <2>7 DEF RemovedInv
  <1> QED
    BY <1>2, <1>3, <1>4, <1>5, <1>6, <1>8, <1>9, <1>10, <1>11, <1>12, <1>13, <1>14, <1>16,
       <1>17 DEF Next, Reverify, DeleteMyLogs, DeleteLogs

\* erase_my_logs, mask_excerpts and the citation update: what a user has erased and what
\* a hard delete has masked stays so, feedback and later reverifications included,
\* except through a copy that a reverification took before.
THEOREM RemovedIsNotRestored == Spec => []RemovedStaysRemoved
  <1>1. Init => RemovedInv
    <2>1. DOMAIN <<>> = {}
      OBVIOUS
    <2> QED
      BY <2>1 DEF Init, RemovedInv, RowRemoved, NoRev
  <1>2. LogsInv /\ RemovedInv => RemovedStaysRemoved
    BY DEF LogsInv, Typed, RemovedInv, RowRemoved, RemovedStaysRemoved, ErasedStaysErased,
       MaskedStaysMasked
  <1> QED
    BY <1>1, <1>2, LogsInit, LogsNext, RemovedNext, PTL DEF Spec

-----------------------------------------------------------------------------
(* How far the reverification has got.                                     *)

\* A page that starts before max_records fits, when the pages divide max_records.
LEMMA PageFits ==
    ASSUME MaxRecords % PageSize = 0, NEW g \in Nat \ {0}
    PROVE  /\ g * PageSize \in Nat /\ (g - 1) * PageSize \in Nat
           /\ g * PageSize = (g - 1) * PageSize + PageSize
           /\ (g - 1) * PageSize < MaxRecords => g * PageSize <= MaxRecords
  <1>1. ASSUME NEW n \in Nat, NEW p \in Nat \ {0}
        PROVE  n * p \in Nat
    OBVIOUS
  <1>2. g * PageSize \in Nat /\ (g - 1) * PageSize \in Nat
    BY <1>1, LogsAssumption
  <1>3. ASSUME NEW p \in Nat \ {0} PROVE g * p = (g - 1) * p + p
    OBVIOUS
  <1>4. ASSUME NEW m \in Nat, NEW p \in Nat \ {0}, m % p = 0
        PROVE  m = (m \div p) * p /\ m \div p \in Nat
    BY <1>4
  <1>5. ASSUME NEW q \in Nat, NEW p \in Nat \ {0}, (g - 1) * p < q * p
        PROVE  g * p <= q * p
    <2>1. CASE q <= g - 1
      <3>1. PICK d \in Nat : g - 1 = q + d
        <4>1. g - 1 - q \in Nat /\ g - 1 = q + (g - 1 - q)
          BY <2>1
        <4> QED
          BY <4>1
      <3>2. (g - 1) * p = q * p + d * p /\ d * p \in Nat /\ q * p \in Nat
        BY <1>1, <3>1
      <3> QED
        BY <1>5, <3>2
    <2>2. CASE q >= g
      <3>1. PICK d \in Nat : q = g + d
        <4>1. q - g \in Nat /\ q = g + (q - g)
          BY <2>2
        <4> QED
          BY <4>1
      <3>2. q * p = g * p + d * p /\ d * p \in Nat /\ g * p \in Nat
        BY <1>1, <3>1
      <3> QED
        BY <3>2
    <2> QED
      BY <2>1, <2>2
  <1>6. ASSUME (g - 1) * PageSize < MaxRecords PROVE g * PageSize <= MaxRecords
    <2>1. PICK q \in Nat : MaxRecords = q * PageSize
      BY <1>4, LogsAssumption
    <2> QED
      BY <1>5, <1>6, <2>1, LogsAssumption
  <1> QED
    BY <1>2, <1>3, <1>6, LogsAssumption

\* A step that leaves the rows in their order and the reverification alone.
LEMMA ProgressKept ==
    ASSUME Progressed, UNCHANGED <<order, rev>>
    PROVE  Progressed'
  BY DEF Progressed, Undisturbed, Newest

\* The rows of the next page are the ones that follow those seen so far.
LEMMA PageProgress ==
    ASSUME LogsInv, Progressed, FetchPage
    PROVE  Progressed'
  <1> SUFFICES ASSUME Undisturbed' PROVE Progressed'
    BY DEF Progressed
  <1> DEFINE P == PageSize
             g == rev.page
             s == Len(rev.scanned)
             o == Len(order)
             items == ListByTenant(g, PageLength)
  <1>1. /\ Typed /\ Listed /\ Room /\ order \in Seq(Requests) /\ o \in Nat /\ s \in Nat
        /\ rev \in RevType /\ order' = order
    BY DEF LogsInv, Typed, RevType, FetchPage
  <1>2. /\ rev.pc = "page" /\ rev.queue = <<>> /\ PageLength \in Nat
        /\ rev'.scanned = rev.scanned /\ rev'.page = g /\ rev'.moved = rev.moved
        /\ rev' \in RevType
    BY <1>1, PageStep
  <1>3. \/ /\ s >= MaxRecords \/ items = <<>>
           /\ rev'.pc = "done" /\ rev'.queue = <<>>
        \/ /\ s < MaxRecords /\ items # <<>>
           /\ rev'.pc = "rows" /\ Len(rev'.queue) = Len(items)
           /\ Len(rev'.queue) \in Nat
           /\ rev'.full = (Len(items) >= PageLength)
           /\ \A k \in 1 .. Len(items) : rev'.queue[k] = [id |-> items[k], row |-> logs[items[k]]]
    BY <1>1, PageStep
  <1>4. Undisturbed /\ MaxRecords % P = 0
    BY <1>2 DEF Undisturbed
  <1>5. /\ \A k \in DOMAIN rev.scanned : k <= o /\ rev.scanned[k] = Newest(k)
        /\ s = (g - 1) * P
    BY <1>2, <1>4 DEF Progressed
  <1>6. g \in Nat \ {0} /\ rev.scanned \in Seq(Requests) /\ DOMAIN rev.scanned = 1 .. s
    BY <1>1, <1>2 DEF Room, RevType
  <1>7. s <= MaxRecords /\ s <= o
    <2>1. Len(<<>>) = 0 /\ s + Len(rev.queue) <= MaxRecords
      BY <1>1 DEF Room
    <2>2. s + 0 <= MaxRecords
      BY <1>2, <2>1
    <2>3. s # 0 => s \in DOMAIN rev.scanned
      BY <1>1, <1>6
    <2> QED
      BY <1>1, <1>5, <2>2, <2>3, LogsAssumption
  <1>8. \A k \in DOMAIN rev'.scanned : k <= Len(order') /\ rev'.scanned[k] = Newest(k)'
    BY <1>1, <1>2, <1>5 DEF Newest
  <1> DEFINE gP == g * P
  <1>9. gP \in Nat /\ gP = s + P /\ (s < MaxRecords => gP <= MaxRecords)
    BY <1>4, <1>5, <1>6, PageFits
  <1> HIDE DEF gP
  <1>10. s < MaxRecords => PageLength = P
    BY <1>1, <1>9, LogsAssumption DEF PageLength
  <1>11. s < MaxRecords =>
           /\ items \in Seq(Requests)
           /\ Len(items) = IF s + P < o THEN P ELSE IF s < o THEN o - s ELSE 0
           /\ \A k \in DOMAIN items : items[k] = Newest(s + k)
    <2> SUFFICES ASSUME s < MaxRecords
                 PROVE  /\ items \in Seq(Requests)
                        /\ Len(items) = IF s + P < o THEN P ELSE IF s < o THEN o - s ELSE 0
                        /\ \A k \in DOMAIN items : items[k] = Newest(s + k)
      OBVIOUS
    <2>1. items = ListByTenant(g, P) /\ P \in Nat
      BY <1>10, LogsAssumption
    <2> HIDE DEF items, s, g
    <2>2. LET page == ListByTenant(g, P)
              offset == (g - 1) * P
          IN  /\ page \in Seq(Requests)
              /\ Len(page) = IF offset + P < o THEN P
                             ELSE IF offset < o THEN o - offset ELSE 0
              /\ \A k \in DOMAIN page : page[k] = Newest(offset + k)
      BY <1>1, <1>6, <2>1, PageOfRows
    <2> QED
      BY <1>5, <2>1, <2>2
  <1> HIDE DEF items, s, o, g
  <1>12. CASE rev'.pc = "done"
    <2>1. s >= MaxRecords \/ (s < MaxRecords /\ items = <<>>)
      BY <1>1, <1>3, <1>12, LogsAssumption
    <2>2. s < MaxRecords /\ items = <<>> => o <= s
      <3>1. Len(<<>>) = 0
        OBVIOUS
      <3> QED
        BY <1>1, <1>11, <3>1, LogsAssumption
    <2>3. s = Least(MaxRecords, o)
      BY <1>1, <1>7, <2>1, <2>2, LogsAssumption DEF Least
    <2> QED
      BY <1>1, <1>2, <1>8, <1>12, <2>3 DEF Progressed, s, o
  <1>13. CASE rev'.pc = "rows"
    <2>1. /\ s < MaxRecords /\ items # <<>> /\ Len(rev'.queue) = Len(items)
          /\ rev'.full = (Len(items) >= PageLength)
          /\ \A k \in 1 .. Len(items) : rev'.queue[k] = [id |-> items[k], row |-> logs[items[k]]]
      BY <1>3, <1>13
    <2>2. items \in Seq(Requests) /\ Len(items) # 0
      BY <1>11, <2>1
    <2>3. s + Len(rev'.queue) = Least(gP, o) /\ (rev'.full <=> gP <= o)
      <3> DEFINE n == Len(items)
      <3>1. /\ n \in Nat \ {0} /\ P \in Nat \ {0} /\ s \in Nat /\ o \in Nat
            /\ n = IF s + P < o THEN P ELSE IF s < o THEN o - s ELSE 0
        BY <1>1, <1>11, <2>1, <2>2, LogsAssumption
      <3> HIDE DEF n
      <3>2. s + n = Least(s + P, o) /\ (n >= P <=> s + P <= o)
        BY <3>1 DEF Least
      <3>3. gP = s + P /\ Len(rev'.queue) = n /\ (rev'.full <=> n >= P)
        BY <1>9, <1>10, <2>1 DEF n
      <3> QED
        BY <3>2, <3>3
    <2>4. rev'.queue \in Seq(CopyType) /\ DOMAIN rev'.queue = 1 .. Len(items)
          /\ DOMAIN items = 1 .. Len(items)
      BY <1>2, <2>1, <2>2 DEF RevType
    <2>5. ASSUME NEW k \in DOMAIN rev'.queue
          PROVE  rev'.queue[k].id = order'[Len(order') - (Len(rev'.scanned) + k) + 1]
      <3>1. rev'.queue[k].id = items[k]
        <4>1. k \in 1 .. Len(items)
          BY <2>4, <2>5
        <4>2. rev'.queue[k] = [id |-> items[k], row |-> logs[items[k]]]
          BY <2>1, <4>1
        <4> QED
          BY <4>2
      <3>2. items[k] = Newest(s + k)
        BY <1>11, <2>1, <2>4, <2>5
      <3>3. s = Len(rev'.scanned)
        BY <1>2 DEF s
      <3> QED
        BY <1>1, <3>1, <3>2, <3>3 DEF Newest
    <2>6. gP <= MaxRecords
      BY <1>9, <2>1
    <2>7. /\ Len(rev'.scanned) + Len(rev'.queue) = Least(rev'.page * PageSize, Len(order'))
          /\ rev'.page * PageSize <= MaxRecords
          /\ rev'.full <=> rev'.page * PageSize <= Len(order')
      BY <1>1, <1>2, <2>3, <2>6 DEF gP, s, o
    <2> QED
      BY <1>8, <1>13, <2>5, <2>7 DEF Progressed, Newest
  <1> QED
    BY <1>3, <1>12, <1>13

\* A row that has been dealt with is the next one in the order.
LEMMA RowProgress ==
    ASSUME LogsInv, Progressed, rev.pc = "rows", rev' = AfterRows(Passed(rev)), order' = order
    PROVE  Progressed'
  <1> SUFFICES ASSUME Undisturbed' PROVE Progressed'
    BY DEF Progressed
  <1> DEFINE g == rev.page
             s == Len(rev.scanned)
             q == Len(rev.queue)
             o == Len(order)
             gP == g * PageSize
  <1>1. rev \in RevType /\ Room /\ order \in Seq(Requests) /\ o \in Nat
    BY DEF LogsInv, Typed
  <1>2. /\ rev' \in RevType
        /\ rev'.full = rev.full /\ rev'.moved = rev.moved
        /\ Len(rev'.scanned) = s + 1 /\ s \in Nat
        /\ Len(rev'.queue) = q - 1 /\ q \in Nat \ {0}
        /\ \A k \in 1 .. q - 1 : rev'.queue[k] = rev.queue[k + 1]
        /\ \A k \in 1 .. s : rev'.scanned[k] = rev.scanned[k]
        /\ rev'.scanned[s + 1] = rev.queue[1].id
    BY <1>1, RowStep
  <1>3. \/ rev'.pc = "rows" /\ rev'.page = g /\ rev'.queue # <<>>
        \/ rev'.pc = "done" /\ rev'.queue = <<>> /\ ~rev.full
        \/ rev'.pc = "page" /\ rev'.page = g + 1 /\ rev'.queue = <<>> /\ rev.full
    BY <1>1, RowStep
  <1>4. Undisturbed /\ MaxRecords % PageSize = 0
    BY <1>2 DEF Undisturbed
  <1>5. /\ \A k \in DOMAIN rev.scanned : k <= o /\ rev.scanned[k] = Newest(k)
        /\ s + q = Least(gP, o)
        /\ gP <= MaxRecords
        /\ rev.full <=> gP <= o
        /\ \A k \in DOMAIN rev.queue : rev.queue[k].id = Newest(s + k)
    BY <1>4 DEF Progressed
  <1>6. g \in Nat /\ gP \in Nat
    <2>1. ASSUME NEW n \in Nat, NEW p \in Nat PROVE n * p \in Nat
      OBVIOUS
    <2> QED
      BY <1>1, <2>1, LogsAssumption DEF RevType
  <1>7. DOMAIN rev.queue = 1 .. q /\ DOMAIN rev.scanned = 1 .. s
    BY <1>1 DEF RevType
  <1>8. DOMAIN rev'.queue = 1 .. q - 1 /\ DOMAIN rev'.scanned = 1 .. s + 1
    BY <1>2 DEF RevType
  <1> HIDE DEF gP, s, q, o, g
  <1>10. /\ s \in Nat /\ q \in Nat \ {0} /\ o \in Nat /\ gP \in Nat
         /\ s + q = Least(gP, o) /\ gP <= MaxRecords /\ s + 1 <= o
    <2>1. s \in Nat /\ q \in Nat \ {0} /\ o \in Nat /\ gP \in Nat /\ s + q = Least(gP, o)
      BY <1>1, <1>2, <1>5, <1>6
    <2>2. s + q <= o
      BY <2>1 DEF Least
    <2>3. s + 1 <= o
      BY <2>1, <2>2
    <2> QED
      BY <1>5, <2>1, <2>3
  <1>11. \A k \in DOMAIN rev'.scanned : k <= o /\ rev'.scanned[k] = Newest(k)
    <2> SUFFICES ASSUME NEW k \in 1 .. s + 1 PROVE k <= o /\ rev'.scanned[k] = Newest(k)
      BY <1>8
    <2>1. CASE k \in 1 .. s
      BY <1>2, <1>5, <1>7, <2>1
    <2>2. CASE k = s + 1
      <3>1. 1 \in DOMAIN rev.queue
        BY <1>2, <1>7
      <3> QED
        BY <1>2, <1>5, <1>10, <2>2, <3>1
    <2> QED
      BY <1>2, <2>1, <2>2
  <1>12. \A k \in DOMAIN rev'.scanned : k <= Len(order') /\ rev'.scanned[k] = Newest(k)'
    BY <1>11 DEF Newest, o
  <1>13. CASE rev'.pc = "rows"
    <2>1. Len(rev'.scanned) + Len(rev'.queue) = Least(gP, o)
      <3>1. s + 1 + (q - 1) = s + q
        BY <1>10
      <3> QED
        BY <1>2, <1>10, <3>1
    <2>2. ASSUME NEW k \in DOMAIN rev'.queue
          PROVE  rev'.queue[k].id = order'[Len(order') - (Len(rev'.scanned) + k) + 1]
      <3>1. k \in 1 .. q - 1
        BY <1>8, <2>2
      <3>2. k + 1 \in 1 .. q /\ s + 1 + k = s + (k + 1)
        BY <1>10, <3>1
      <3>3. rev'.queue[k] = rev.queue[k + 1]
        BY <1>2, <3>1
      <3>4. rev.queue[k + 1].id = Newest(s + (k + 1))
        BY <1>5, <1>7, <3>2
      <3>5. Len(rev'.scanned) + k = s + (k + 1)
        BY <1>2, <3>2
      <3> QED
        BY <3>3, <3>4, <3>5 DEF Newest
    <2>3. rev'.page * PageSize = gP /\ rev'.full = rev.full
      BY <1>2, <1>3, <1>13 DEF gP
    <2>4. Len(order') = o
      BY DEF o
    <2>5. /\ Len(rev'.scanned) + Len(rev'.queue) = Least(rev'.page * PageSize, Len(order'))
          /\ rev'.page * PageSize <= MaxRecords
          /\ rev'.full <=> rev'.page * PageSize <= Len(order')
      BY <1>5, <1>10, <2>1, <2>3, <2>4
    <2> QED
      BY <1>12, <1>13, <2>2, <2>5 DEF Progressed, Newest
  <1>14. CASE rev'.pc = "done"
    <2>1. rev'.queue = <<>> /\ ~rev.full
      BY <1>3, <1>14
    <2>2. q - 1 = 0 /\ o < gP
      <3>1. ~(gP <= o) /\ q - 1 = Len(<<>>) /\ Len(<<>>) = 0
        BY <1>2, <1>5, <2>1
      <3> QED
        BY <1>10, <3>1
    <2>3. s + 1 = Least(MaxRecords, o)
      BY <1>10, <2>2, LogsAssumption DEF Least
    <2>4. Len(rev'.scanned) = Least(MaxRecords, Len(order'))
      BY <1>2, <2>3 DEF o
    <2> QED
      BY <1>12, <1>14, <2>4 DEF Progressed
  <1>15. CASE rev'.pc = "page"
    <2>1. rev'.queue = <<>> /\ rev.full /\ rev'.page = g + 1
      BY <1>3, <1>15
    <2>2. q - 1 = 0 /\ gP <= o
      <3>1. gP <= o /\ q - 1 = Len(<<>>) /\ Len(<<>>) = 0
        BY <1>2, <1>5, <2>1
      <3> QED
        BY <1>10, <3>1
    <2>3. s + 1 = gP
      BY <1>10, <2>2 DEF Least
    <2>4. Len(rev'.scanned) = (rev'.page - 1) * PageSize
      <3>1. rev'.page - 1 = g
        BY <1>6, <2>1
      <3> QED
        BY <1>2, <2>3, <3>1 DEF gP
    <2> QED
      BY <1>12, <1>15, <2>4 DEF Progressed
  <1> QED
    BY <1>3, <1>13, <1>14, <1>15

\* Every step: whoever adds or deletes a row while a reverification runs disturbs it.
LEMMA ProgressedNext == LogsInv /\ Progressed /\ [Next]_vars => Progressed'
  <1> SUFFICES ASSUME LogsInv, Progressed, [Next]_vars PROVE Progressed'
    OBVIOUS
  <1>0. rev \in RevType /\ order \in Seq(Requests) /\ Room
    BY DEF LogsInv, Typed
  <1>1. CASE UNCHANGED <<order, rev>>
    BY <1>1, ProgressKept
  <1>2. CASE rev'.pc = "idle"
    BY <1>2 DEF Progressed
  <1>3. ASSUME NEW r \in Requests, NEW cites \in SUBSET Docs,
               NEW query \in Rewritten, WriteLog(r, cites, query) PROVE Progressed'
    <2>1. rev'.pc = rev.pc /\ rev'.moved = (rev.pc # "idle")
      BY <1>0, <1>3 DEF WriteLog, RevType
    <2> QED
      BY <2>1 DEF Progressed, Undisturbed
  <1>4. ASSUME NEW rows, Drop(rows) PROVE Progressed'
    <2>1. rev' = [rev EXCEPT !.moved = rev.moved \/ (rev.pc # "idle" /\ rows # {})]
      BY <1>4 DEF Drop
    <2>2. /\ rev'.pc = rev.pc /\ rev'.page = rev.page /\ rev'.full = rev.full
          /\ rev'.queue = rev.queue /\ rev'.scanned = rev.scanned
          /\ rev'.moved = (rev.moved \/ (rev.pc # "idle" /\ rows # {}))
      BY <1>0, <2>1 DEF RevType
    <2>3. CASE rev.pc = "idle"
      BY <2>2, <2>3 DEF Progressed
    <2>4. CASE rev.pc # "idle" /\ rows # {}
      BY <2>2, <2>4 DEF Progressed, Undisturbed
    <2>5. CASE rows = {}
      <3> DEFINE S == {k \in DOMAIN order : order[k] \notin rows}
      <3>1. PICK f \in Ascending(S) : order' = [k \in DOMAIN f |-> order[f[k]]]
        BY <1>4 DEF Drop
      <3>2. \A k : k \in S <=> k \in DOMAIN order /\ order[k] \notin rows
        OBVIOUS
      <3> HIDE DEF S
      <3>3. \A k \in DOMAIN f : f[k] \in S
        BY <3>1 DEF Ascending
      <3>4. order' \in [DOMAIN f -> Requests]
        BY <1>0, <3>1, <3>2, <3>3
      <3>5. \A k \in DOMAIN f : order'[k] = order[f[k]]
        BY <3>1
      <3>6. order' = order
        BY <1>0, <2>5, <3>1, <3>2, <3>4, <3>5, RemainingRows
      <3> QED
        BY <2>2, <2>5, <3>6 DEF Progressed, Undisturbed, Newest
    <2> QED
      BY <2>3, <2>4, <2>5
  <1>5. CASE StartReverify
    <2>1. /\ rev'.pc = "page" /\ rev'.page = 1 /\ rev'.scanned = <<>>
      BY <1>5 DEF StartReverify, NoRev
    <2>2. DOMAIN <<>> = {} /\ Len(<<>>) = 0
      OBVIOUS
    <2>3. Len(<<>>) = (1 - 1) * PageSize
      BY <2>2, LogsAssumption
    <2> QED
      BY <2>1, <2>2, <2>3 DEF Progressed
  <1>6. CASE FetchPage
    BY <1>6, PageProgress
  <1>7. CASE SkipRow \/ UpdateRow
    <2>1. rev.pc = "rows" /\ order' = order /\ rev' = AfterRows(Passed(rev))
      <3>1. CASE SkipRow
        BY <3>1 DEF SkipRow, Passed
      <3>2. CASE UpdateRow
        BY <3>2, UpdatedRow
      <3> QED
        BY <1>7, <3>1, <3>2
    <2> QED
      BY <2>1, RowProgress
  <1>8. CASE EndReverify
    BY <1>8, <1>2 DEF EndReverify, NoRev
  <1>9. \/ UNCHANGED <<order, rev>>
        \/ \E r \in Requests, cites \in SUBSET Docs, query \in Rewritten :
              WriteLog(r, cites, query)
        \/ \E rows : Drop(rows)
        \/ StartReverify \/ FetchPage \/ SkipRow \/ UpdateRow \/ EndReverify
    BY DEF Next, vars, Reverify, ApprovePlain, RevokeActive, Expire, StartTurn, LoseLog,
           Feedback, EraseMyLogs, DeleteMyLogs, DeleteLogs, MaskExcerpts, PatchConversation,
           DeleteConversation
  <1> QED
    BY <1>1, <1>3, <1>4, <1>5, <1>6, <1>7, <1>8, <1>9

\* CitationReverifyService.reverify: a reverification during which no row is added or
\* deleted looks at each of the newest max_records rows once, newest first, for every
\* page size that divides max_records and every number of rows.
THEOREM ReverificationIsComplete == Spec => []ReverifyIsComplete
  <1>1. Init => Progressed
    BY DEF Init, NoRev, Progressed
  <1>2. LogsInv /\ Progressed => ReverifyIsComplete
    <2> SUFFICES ASSUME LogsInv, Progressed, rev.pc = "done", ~rev.moved,
                        MaxRecords % PageSize = 0
                 PROVE  LET newest == Reverse(order)
                            n == IF MaxRecords < Len(newest) THEN MaxRecords ELSE Len(newest)
                        IN  rev.scanned = SubSeq(newest, 1, n)
      BY DEF ReverifyIsComplete
    <2> DEFINE newest == Reverse(order)
               o == Len(order)
               n == IF MaxRecords < Len(newest) THEN MaxRecords ELSE Len(newest)
    <2>1. /\ order \in Seq(Requests) /\ o \in Nat /\ rev.scanned \in Seq(Requests)
          /\ DOMAIN rev.scanned = 1 .. Len(rev.scanned)
      BY DEF LogsInv, Typed, RevType
    <2>2. newest \in [1 .. o -> Requests] /\ \A k \in 1 .. o : newest[k] = Newest(k)
      BY <2>1 DEF Reverse, Newest
    <2> HIDE DEF newest
    <2>3. newest \in Seq(Requests) /\ Len(newest) = o
      BY <2>1, <2>2, SeqDef
    <2>4. /\ Len(rev.scanned) = n /\ n \in Nat /\ n <= o
          /\ \A k \in 1 .. Len(rev.scanned) : k <= o /\ rev.scanned[k] = Newest(k)
      BY <2>1, <2>3, LogsAssumption DEF Progressed, Undisturbed, Least
    <2> HIDE DEF n
    <2>5. /\ SubSeq(newest, 1, n) \in Seq(Requests) /\ Len(SubSeq(newest, 1, n)) = n
          /\ \A k \in 1 .. n : SubSeq(newest, 1, n)[k] = newest[k]
      BY <2>1, <2>3, <2>4
    <2>6. \A k \in 1 .. n : rev.scanned[k] = SubSeq(newest, 1, n)[k]
      BY <2>1, <2>2, <2>4, <2>5
    <2>7. rev.scanned = SubSeq(newest, 1, n)
      BY <2>1, <2>4, <2>5, <2>6, SeqEqual
    <2> QED
      BY <2>7 DEF n, newest
  <1> QED
    BY <1>1, <1>2, LogsInit, LogsNext, ProgressedNext, PTL DEF Spec
=============================================================================
