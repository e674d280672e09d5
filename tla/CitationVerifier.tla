-------------------------- MODULE CitationVerifier --------------------------
(***************************************************************************)
(* What VerifierService, ConflictDetector and the two gates compute, as    *)
(* operators on an answer.  An answer is a sequence of segments; a segment *)
(* cites retrieved chunks by their position 1..n in the context list.  Its *)
(* list of markers is a function on positions, so that a filtered list is  *)
(* a restriction of the list it came from; its list of conflict groups is  *)
(* one too, and may name the same group twice.                             *)
(*                                                                         *)
(* Texts and embeddings are abstracted to what is measured on them:        *)
(*   - sim[i][c] is how the text of segment i compares with chunk c, as    *)
(*     the level that the two thresholds of citation.yaml give it;         *)
(*   - readings is the list of signals (dates, numbers of one unit, rule   *)
(*     ids) in the order in which the detector looks at them; a reading    *)
(*     gives each chunk the set of values found in it.                     *)
(* Scores, weights and ratios are percentages; a confidence is kept as a   *)
(* fraction so that nothing is rounded.                                    *)
(***************************************************************************)
EXTENDS Integers, Sequences, FiniteSets, Functions

CONSTANTS
    MinVerifiedCount,    \* gates.generation.min_verified_count
    MaxUnsupportedRatio, \* gates.generation.max_unsupported_ratio, in percent
    MinConfidence,       \* gates.generation.min_confidence, in percent
    MinTop1,             \* gates.retrieval.min_top1_rerank, in percent
    MinStrongChunks,     \* gates.retrieval.min_strong_chunks
    StrongChunk          \* gates.retrieval.strong_chunk_threshold, in percent

ASSUME ThresholdsAreNaturals ==
    /\ MinVerifiedCount \in Nat
    /\ MaxUnsupportedRatio \in Nat
    /\ MinConfidence \in Nat
    /\ MinTop1 \in Nat
    /\ MinStrongChunks \in Nat
    /\ StrongChunk \in Nat

Levels == {"strong", "medium", "weak"}

SupportTypes == {"direct", "synthesis", "inference", "conflict"}

\* A marker that is not an integer: parse_segments drops it
NotAnInt == -1

ToSet(s) == {s[k] : k \in DOMAIN s}

Cited(seg) == ToSet(seg.cites)

-----------------------------------------------------------------------------

\* Gate 1: the best score, and how many chunks are strong enough
Gate1(scores) ==
    /\ scores # <<>>
    /\ \E k \in DOMAIN scores : scores[k] >= MinTop1
    /\ Cardinality({k \in DOMAIN scores : scores[k] >= StrongChunk}) >= MinStrongChunks

ParseSegments(raw) ==
    [i \in DOMAIN raw |->
        [cites |-> RestrictValues(raw[i].cites, LAMBDA c : c # NotAnInt),
         type |-> IF raw[i].type = "none" THEN "direct" ELSE raw[i].type,
         groups |-> raw[i].groups,
         meta |-> <<>>,
         downgraded |-> FALSE,
         pending |-> FALSE]]

\* Tier 1: markers outside 1..n are dropped
Tier1Filter(segs, n) ==
    [i \in DOMAIN segs |->
        [segs[i] EXCEPT !.cites = RestrictValues(@, LAMBDA c : c \in 1 .. n)]]

\* Chunks with the same non-empty set of values form a group, listed by its
\* lowest chunk
GroupChunksByValue(chunks, reading) ==
    [c \in {c \in chunks : /\ reading[c] # {}
                           /\ \A d \in chunks : reading[d] = reading[c] => c <= d} |->
        {d \in chunks : reading[d] = reading[c]}]

NumGroups(groups) == Cardinality(DOMAIN groups)

\* The first signal that splits the cited chunks turns the segment into a conflict
DetectInSegment(seg, n, readings) ==
    LET chunks == Cited(seg) \cap 1 .. n
        splits == {k \in DOMAIN readings :
                      NumGroups(GroupChunksByValue(chunks, readings[k])) >= 2}
        first == CHOOSE k \in splits : \A j \in splits : k <= j
    IN  IF seg.type = "conflict" \/ Cardinality(DOMAIN seg.cites) < 2 \/ splits = {}
        THEN seg
        ELSE [seg EXCEPT !.type = "conflict",
                         !.groups = GroupChunksByValue(chunks, readings[first])]

Downgrade(seg) == [seg EXCEPT !.cites = <<>>, !.meta = <<>>, !.downgraded = TRUE]

Passes(level) == level # "weak"

Cap(level) == IF level = "strong" THEN "medium" ELSE level

Assess(seg, sim) == [c \in Cited(seg) |-> [level |-> sim[c], verified |-> Passes(sim[c])]]

AllPass(seg, sim) == seg.cites # <<>> /\ \A c \in Cited(seg) : Passes(sim[c])

\* Tier 2: what the measured similarities leave of one segment
Tier2Classify(seg, sim, judge) ==
    CASE seg.type = "conflict" ->
            IF /\ NumGroups(seg.groups) >= 2
               /\ \A g \in ToSet(seg.groups) :
                     g # {} /\ \A c \in g : c \in Cited(seg) /\ Passes(sim[c])
            THEN [seg EXCEPT !.meta = [c \in Cited(seg) |->
                                          [level |-> Cap(sim[c]), verified |-> TRUE]]]
            ELSE Downgrade(seg)
      [] seg.type = "inference" ->
            IF judge /\ AllPass(seg, sim)
            THEN [seg EXCEPT !.meta = Assess(seg, sim), !.pending = TRUE]
            ELSE Downgrade(seg)
      [] seg.type = "synthesis" /\ ~AllPass(seg, sim) -> Downgrade(seg)
      [] OTHER ->
            LET kept == [seg EXCEPT !.cites = RestrictValues(@, LAMBDA c : Passes(sim[c]))]
            IN  [kept EXCEPT !.meta = Assess(kept, sim)]

\* Mutant: a rejected inference keeps its citations
ApplyJudgeResultKeeps(seg, passes) ==
    [seg EXCEPT !.pending = FALSE, !.downgraded = ~passes,
                !.meta = [c \in DOMAIN seg.meta |->
                             [level |-> Cap(seg.meta[c].level), verified |-> passes]]]

\* The judge confirms an inference, at most at level medium, or strips it
ApplyJudgeResult(seg, passes) ==
    IF passes
    THEN [seg EXCEPT !.pending = FALSE,
                     !.meta = [c \in DOMAIN seg.meta |->
                                  [level |-> Cap(seg.meta[c].level), verified |-> TRUE]]]
    ELSE [Downgrade(seg) EXCEPT !.pending = FALSE]

\* Tier 3: segments without a citation
Unsupported(segs) == {i \in DOMAIN segs : segs[i].cites = <<>>}

\* One citation per marker, so a chunk cited twice gives two
AssembleCitations(segs, n) ==
    UNION {{[seg |-> i, pos |-> k, chunk |-> segs[i].cites[k], type |-> segs[i].type,
             level |-> segs[i].meta[segs[i].cites[k]].level,
             verified |-> segs[i].meta[segs[i].cites[k]].verified] :
                k \in {k \in DOMAIN segs[i].cites : segs[i].cites[k] \in 1 .. n}} :
           i \in DOMAIN segs}

VerifiedCount(citations) == Cardinality({c \in citations : c.verified})

\* |unsupported| / |segments| > max, cross-multiplied; no segment gives ratio 0
RatioAbove(segs) ==
    Cardinality(Unsupported(segs)) * 100 > MaxUnsupportedRatio * Len(segs)

InUnitRange(percent) == IF percent < 0 THEN 0 ELSE IF percent > 100 THEN 100 ELSE percent

(* The weighted sum 0.3 retrieval + 0.3 verified + 0.2 supported + 0.2     *)
(* coverage, in percent and as a fraction.  The best score is clamped; the *)
(* other terms are ratios, so that clamping the sum changes nothing.       *)
ComputeConfidence(segs, citations, scores) ==
    LET best == IF scores = <<>> THEN 0
                ELSE CHOOSE s \in ToSet(scores) : \A t \in ToSet(scores) : s >= t
        top1 == InUnitRange(best)
        markers == Cardinality(UNION {{<<i, k>> : k \in DOMAIN segs[i].cites} :
                                         i \in DOMAIN segs})
        m == IF markers = 0 THEN 1 ELSE markers
        n == IF segs = <<>> THEN 1 ELSE Len(segs)
        covered == Len(segs) - Cardinality(Unsupported(segs))
        supported == IF segs = <<>> THEN 1 ELSE covered
        v == IF markers = 0 THEN 0 ELSE VerifiedCount(citations)
    IN  [num |-> 30 * top1 * m * n + 30 * 100 * v * n + 20 * 100 * supported * m
                    + 20 * 100 * covered * m,
         den |-> 100 * m * n]

\* Gate 2, with the reason in the order of the code's checks
EvaluateGate2(segs, citations, conf) ==
    IF VerifiedCount(citations) < MinVerifiedCount THEN "below_min_verified_count"
    ELSE IF RatioAbove(segs) THEN "above_max_unsupported_ratio"
    ELSE IF conf.num < MinConfidence * conf.den THEN "below_min_confidence"
    ELSE "passed"
=============================================================================
