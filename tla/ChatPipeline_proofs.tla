------------------------ MODULE ChatPipeline_proofs ------------------------
(***************************************************************************)
(* What is proved of the chat pipeline for every tenant configuration,     *)
(* corpus, answer of the model and measurement: its invariants, and that   *)
(* it implements the chat turn of ChatTurn, fairness aside.                *)
(***************************************************************************)
EXTENDS ChatPipeline, FiniteSetTheorems, TLAPS

-----------------------------------------------------------------------------
(* The inductive invariant, by what it speaks about.  The sets of nodes    *)
(* say where in the turn a fact holds.                                     *)

Unloaded == {"idle", "tenant_resolver", "load_tenant_config"}

\* Nothing has been written yet
Drafting == {"check_input_pii", "build_acl_filter", "classify_query", "model_router",
             "query_rewrite", "retrieve_context", "gate_1", "generate_answer",
             "generate_ungrounded", "assessment", "collect_figures"}

\* The answer consists of segments, whose markers are in range, are measured
Parsed == {"verify_tier1"}

Ranged == {"detect_conflict_heuristic", "verify_tier2"}

Measured == {"judge_inference", "detect_unsupported", "assemble_response"}

Assembled == {"mask_response_pii", "compute_confidence", "gate_2", "save_chat_log", "respond",
              "done"}

StructuredPc == (Drafting \cup Parsed \cup Ranged \cup Measured \cup Assembled
                     \cup {"tenant_resolver", "parse_response", "fallback"}) \ {"done"}

Emitting == {"emit_fallback", "emit_error", "emit_complete"}

StreamingPc == {"stream_pii", "stream_route", "stream_token"} \cup Emitting

Fields == {"mode", "pii", "cfg", "plainOk", "storage", "fallback", "type", "model", "lora",
           "chain", "contexts", "scores", "grounding", "rewritten", "segs", "sims", "text",
           "dirty", "segsDirty", "keptDirty", "citations", "conf", "judged", "figs", "tokens"}

\* The state is a record; the two paths have their own nodes
PathInv ==
    /\ DOMAIN st = Fields
    /\ pc \in StructuredPc \cup StreamingPc \cup {"idle", "load_tenant_config", "done", "raised"}
    /\ st.mode \in {"structured", "streaming"}
    /\ pc \in StructuredPc => st.mode = "structured"
    /\ pc \in StreamingPc => st.mode = "streaming"

FigureCount == [want : Nat, got : Nat, pass : Nat, subj : Nat, texts : Nat]

\* Types of what ends up in a row, of the figure requests and of the chain
FieldInv ==
    /\ st.text \in Texts /\ st.dirty \in BOOLEAN /\ st.segsDirty \in BOOLEAN
    /\ st.rewritten \in Rewrites /\ st.keptDirty \in BOOLEAN
    /\ st.fallback \in Reasons \cup {None}
    /\ st.grounding \in Groundings
    /\ st.citations \subseteq CitationType
    /\ st.chain \in 0 .. 3
    /\ st.figs \in FigureCount
    /\ st.figs.got <= st.figs.want
    /\ pc \in Unloaded \cup {"check_input_pii", "build_acl_filter", "classify_query",
                             "model_router", "assessment"} => st.figs.got = 0

\* The contexts are chunks that the caller may read
ContextInv ==
    /\ pc \notin Unloaded \cup {"raised"} =>
          /\ st.cfg \in Configs
          /\ \A i \in DOMAIN st.contexts : Permitted(st.contexts[i], st.cfg)
    /\ pc \in Unloaded => st.contexts = <<>>
    /\ st.contexts \in Seq(Corpus)
    /\ Len(st.contexts) <= ContextTopK

\* Masked text stays masked until it is stored, and only masked text gets there
DirtyInv ==
    /\ pc \in Unloaded \cup Drafting \cup {"parse_response"} \cup Parsed \cup Ranged \cup Measured
              \cup {"stream_pii", "stream_route", "emit_fallback"} => ~st.dirty
    /\ pc = "mask_response_pii" /\ st.text = "" => ~st.dirty
    /\ pc \in (Assembled \cup {"emit_complete"}) \ {"mask_response_pii"} =>
          (st.cfg.mask /\ st.fallback # "llm_error" => ~st.dirty)
    /\ pc \in {"compute_confidence", "gate_2", "save_chat_log", "respond"} =>
          (st.cfg.mask => ~st.dirty)
    /\ pc = "done" /\ st.mode = "structured" => (st.cfg.mask => ~st.dirty)
    /\ pc = "emit_error" => st.fallback = "llm_error"

\* Where a turn has an outcome, and which services a refused one has called
OutcomeInv ==
    /\ pc = "fallback" => st.fallback # None
    /\ pc \in {"emit_fallback", "emit_error"} => st.fallback # None
    /\ pc \in Unloaded \cup {"check_input_pii", "build_acl_filter", "classify_query",
                             "model_router", "stream_pii", "stream_route", "stream_token",
                             "emit_complete"} => st.fallback = None
    /\ pc \in Unloaded \cup {"check_input_pii", "stream_pii", "stream_route"} => calls = {}
    /\ st.fallback = "input_pii_blocked" =>
          calls = {} /\ pc \in {"fallback", "save_chat_log", "respond", "emit_fallback",
                                "done", "raised"}
    /\ st.mode = "streaming" /\ st.fallback = "routing_refusal" =>
          calls = {"classify"} /\ pc \in {"emit_fallback", "done", "raised"}

\* The outcome is recorded once, as it is, and then delivered
RecordInv ==
    /\ letters \in 0 .. 1 /\ log \in LogType \cup {None}
    /\ log = None \/ letters = 0
    /\ pc \notin {"respond", "done", "raised"} \cup Emitting => log = None /\ letters = 0
    /\ pc \in {"respond", "done"} \cup Emitting =>
          \/ log = LogRow(st) /\ letters = 0
          \/ log = None /\ letters = 1
    /\ pc = "done" =>
          IF st.mode = "structured" THEN reply = Response(st)
          ELSE /\ reply.kind \in {"fallback", "error", "complete"}
               /\ reply.status = IF st.fallback = None THEN "success" ELSE "fallback"

\* What is stored and delivered beside the answer: nothing for a blocked question
\* or a stream, and nothing of an exam that was refused
BesideInv ==
    /\ pc \in Unloaded \cup {"check_input_pii"} \cup StreamingPc =>
          st.rewritten = "none" /\ ~st.keptDirty
    /\ st.fallback = "input_pii_blocked" =>
          st.rewritten = "none" /\ ~st.keptDirty /\ ~st.dirty
    /\ pc \in (StructuredPc \cup Unloaded) \ {"mask_response_pii", "save_chat_log", "respond"} =>
          st.grounding = "grounded"
    /\ pc \in StreamingPc \ {"stream_pii"} => st.grounding = "streaming"
    /\ st.grounding = "assessment" => st.fallback = None
    /\ log # None => log = LogRow(st)
    /\ pc = "done" /\ st.mode = "streaming" => ~reply.beside

Segment(seg) ==
    /\ DOMAIN seg = {"cites", "type", "groups", "meta", "downgraded", "pending"}
    /\ seg.type \in Kinds /\ seg.pending \in BOOLEAN
    /\ DOMAIN seg.cites \subseteq Nat /\ IsFiniteSet(DOMAIN seg.cites)

InRange(seg, n) == \A c \in Cited(seg) : c \in 1 .. n

Strong == {"strong", "medium"}

\* What tier 2 leaves of a segment rests on what was measured
Backed(seg, sim, n) ==
    /\ InRange(seg, n)
    /\ \A c \in Cited(seg) :
         c \in DOMAIN seg.meta /\ seg.meta[c].level \in Levels /\ seg.meta[c].verified \in BOOLEAN
    /\ seg.type # "conflict" => \A c \in Cited(seg) : sim[c] \in Strong
    /\ seg.type = "conflict" /\ Cited(seg) # {} =>
          /\ NumGroups(seg.groups) >= 2
          /\ \A g \in ToSet(seg.groups) : g # {} /\ \A c \in g : sim[c] \in Strong
    /\ seg.type = "inference" => \A c \in Cited(seg) : seg.meta[c].level \in Strong

Confirmed(i, seg, judged) ==
    seg.type = "inference" /\ ~seg.pending =>
        \A c \in Cited(seg) : i \in judged /\ seg.meta[c].level = "medium"

SegmentInv ==
    /\ pc \in Unloaded \cup Drafting \cup StreamingPc => st.segs = <<>>
    /\ pc = "parse_response" => st.segs \in Seq(RawSegment)
    /\ pc \in Parsed \cup Ranged \cup Measured \cup Assembled =>
          /\ DOMAIN st.segs \subseteq Nat /\ IsFiniteSet(DOMAIN st.segs)
          /\ \A i \in DOMAIN st.segs : Segment(st.segs[i])
    /\ pc \in Ranged =>
          \A i \in DOMAIN st.segs :
              InRange(st.segs[i], Len(st.contexts)) /\ ~st.segs[i].pending
    /\ pc \in Parsed => \A i \in DOMAIN st.segs : ~st.segs[i].pending
    /\ pc \in Measured \cup Assembled =>
          \A i \in DOMAIN st.segs :
              /\ Backed(st.segs[i], st.sims[i], Len(st.contexts))
              /\ Confirmed(i, st.segs[i], st.judged)
    /\ pc \in (Measured \cup Assembled) \ {"judge_inference"} =>
          \A i \in DOMAIN st.segs : ~st.segs[i].pending

\* A grounded success carries the citations of its segments, enough of them verified
CitationInv ==
    pc \in Assembled /\ st.mode = "structured" /\ st.grounding = "grounded"
        /\ st.fallback = None =>
      /\ st.citations = AssembleCitations(st.segs, Len(st.contexts))
      /\ pc \in {"save_chat_log", "respond", "done"} =>
            VerifiedCount(st.citations) >= MinVerifiedCount

BasicInv == PathInv /\ FieldInv /\ ContextInv /\ DirtyInv /\ OutcomeInv /\ RecordInv

PipelineInv == BasicInv /\ BesideInv /\ SegmentInv /\ CitationInv
-----------------------------------------------------------------------------
(* Steps of the pipeline.                                                  *)

USE DEF Texts, Reasons, Groundings, Rewrites, Unloaded, Drafting, Parsed, Ranged, Measured, Assembled,
        StructuredPc, Emitting, StreamingPc

\* A step changes these fields of the state only
Touches(F) == DOMAIN st' = Fields /\ \A f \in Fields \ F : st'[f] = st[f]

\* A step from one node to the next that records and delivers nothing
Goes(n, m, F) == pc = n /\ pc' = m /\ Touches(F) /\ UNCHANGED <<log, letters, reply>>

\* An answer without segments.
LEMMA NoSegments ==
    DOMAIN <<>> = {} /\ IsFiniteSet(DOMAIN <<>>) /\ DOMAIN <<>> \subseteq Nat
  <1>1. DOMAIN <<>> = {}
    OBVIOUS
  <1> QED
    BY <1>1, FS_EmptySet

\* _collect_figure_items asks a subject for what is missing, so it never has too many.
LEMMA FiguresAreCounted ==
    ASSUME NEW f \in FigureCount, f.got <= f.want, NEW k \in 0 .. (f.want - f.got)
    PROVE  /\ [f EXCEPT !.got = @ + k, !.subj = @ + 1] \in FigureCount
           /\ [f EXCEPT !.got = @ + k, !.subj = 1, !.pass = @ + 1] \in FigureCount
           /\ f.got + k <= f.want
  <1>1. f.got \in Nat /\ f.want \in Nat /\ f.subj \in Nat /\ f.pass \in Nat /\ k \in Nat
    BY DEF FigureCount
  <1>2. f.got + k <= f.want
    BY <1>1
  <1>a. f.got + k \in Nat /\ f.subj + 1 \in Nat /\ f.pass + 1 \in Nat /\ 1 \in Nat
    BY <1>1
  <1>3. [f EXCEPT !.got = @ + k, !.subj = @ + 1] \in FigureCount
    BY <1>a DEF FigureCount
  <1>4. [f EXCEPT !.got = @ + k, !.subj = 1, !.pass = @ + 1] \in FigureCount
    BY <1>a DEF FigureCount
  <1> QED
    BY <1>2, <1>3, <1>4

\* The request is noted down, or given up, without touching the count.
LEMMA FiguresAreWanted ==
    ASSUME NEW f \in FigureCount, NEW w \in Nat, NEW n \in Nat
    PROVE  /\ [f EXCEPT !.want = w, !.texts = n] \in FigureCount
           /\ [f EXCEPT !.want = w, !.texts = n].got = f.got
           /\ [f EXCEPT !.want = w, !.texts = n].want = w
           /\ [f EXCEPT !.pass = 3] \in FigureCount
           /\ [f EXCEPT !.pass = 3].got = f.got /\ [f EXCEPT !.pass = 3].want = f.want
  BY DEF FigureCount

\* A chain of at most three attempts.
LEMMA ChainIsShort ==
    ASSUME NEW c \in 0 .. 3, NEW n \in 1 .. 3, c + 1 < n \/ c + 1 = n
    PROVE  c + 1 \in 0 .. 3
  OBVIOUS

\* An exception that no node catches ends the turn where it is.
LEMMA RaiseStep ==
    ASSUME PipelineInv, pc' = "raised", UNCHANGED <<st, log, letters, reply>>,
           calls' = calls \/ pc \in {"verify_tier2", "judge_inference"}
    PROVE  PipelineInv'
  <1> USE DEF PipelineInv, BasicInv, PathInv
  <1>1. PathInv' /\ FieldInv' /\ ContextInv' /\ DirtyInv' /\ RecordInv'
    <2>0. PathInv'
      OBVIOUS
    <2>1. FieldInv'
      BY ZenonT(120) DEF FieldInv
    <2>2. ContextInv'
      BY DEF ContextInv
    <2>3. DirtyInv'
      BY DEF DirtyInv
    <2>4. RecordInv'
      BY DEF RecordInv
    <2> QED
      BY <2>0, <2>1, <2>2, <2>3, <2>4
  <1>2. OutcomeInv'
    BY DEF OutcomeInv
  <1>3. SegmentInv' /\ CitationInv'
    BY DEF SegmentInv, CitationInv
  <1>4. BesideInv'
    BY DEF BesideInv, LogRow
  <1> QED
    BY <1>1, <1>2, <1>3, <1>4

\* The configuration, the input check and the classification.
LEMMA LoadingStep ==
    ASSUME PipelineInv,
           TenantResolver \/ LoadTenantConfig \/ CheckInputPii \/ BuildAclFilter
               \/ ClassifyQuery \/ ModelRouter
    PROVE  PipelineInv'
  <1> USE DEF PipelineInv, BasicInv, PathInv, Goes, Touches, Fields
  <1> DEFINE InputChecked == Goes("check_input_pii", "build_acl_filter", {"storage"})
  <1>1. CASE TenantResolver
    <2>1. Goes("tenant_resolver", "load_tenant_config", {}) /\ UNCHANGED calls
      BY <1>1 DEF TenantResolver, Node, Step, Edge
    <2>2. BasicInv'
      BY <2>1, ZenonT(120) DEF FieldInv, ContextInv, DirtyInv, OutcomeInv, RecordInv
    <2>b. BesideInv'
      BY <2>1 DEF BesideInv, OutcomeInv, DirtyInv, RecordInv, FieldInv
    <2>3. SegmentInv' /\ CitationInv'
      BY <2>1 DEF SegmentInv, CitationInv
    <2> QED
      BY <2>2, <2>3, <2>b
  <1>2. CASE LoadTenantConfig
    <2>1. ASSUME NEW c \in Configs, NEW ok \in BOOLEAN,
                 Step("load_tenant_config", [st EXCEPT !.cfg = c, !.plainOk = ok],
                      IF st.mode = "structured" THEN Edge["load_tenant_config"]
                      ELSE "stream_pii"),
                 UNCHANGED calls
          PROVE  PipelineInv'
      <3>1. /\ Goes("load_tenant_config",
                    IF st.mode = "structured" THEN "check_input_pii" ELSE "stream_pii",
                    {"cfg", "plainOk"})
            /\ st'.cfg \in Configs /\ UNCHANGED calls
        BY <2>1 DEF Step, Edge
      <3>2. DOMAIN st'.contexts = {} /\ st'.contexts = <<>>
        BY <3>1 DEF ContextInv
      <3>3. BasicInv'
        BY <3>1, <3>2, ZenonT(120) DEF FieldInv, ContextInv, DirtyInv, OutcomeInv, RecordInv
      <3>b. BesideInv'
        BY <3>1, <3>2, ZenonT(60) DEF BesideInv, OutcomeInv, DirtyInv, RecordInv, FieldInv
      <3>4. SegmentInv' /\ CitationInv'
        BY <3>1 DEF SegmentInv, CitationInv
      <3> QED
        BY <3>3, <3>4, <3>b
    <2>2. CASE Raise("load_tenant_config") /\ UNCHANGED calls
      BY <2>2, RaiseStep DEF Raise
    <2> QED
      BY <1>2, <2>1, <2>2 DEF LoadTenantConfig
  <1>3. CASE CheckInputPii
    <2>1. CASE Blocked(st.pii)
      <3>1. /\ Goes("check_input_pii", "fallback", {"storage", "fallback"})
            /\ st'.fallback = "input_pii_blocked" /\ UNCHANGED calls
        BY <1>3, <2>1, ZenonT(120) DEF CheckInputPii, Step
      <3>2. BasicInv'
        BY <3>1, ChatAssumption, ZenonT(120) DEF FieldInv, ContextInv, DirtyInv, OutcomeInv, RecordInv
      <3>b. BesideInv'
        BY <3>1, ChatAssumption DEF BesideInv, OutcomeInv, DirtyInv, RecordInv, FieldInv
      <3>3. SegmentInv' /\ CitationInv'
        BY <3>1 DEF SegmentInv, CitationInv
      <3> QED
        BY <3>2, <3>3, <3>b
    <2>2. CASE ~Blocked(st.pii)
      <3>1. InputChecked /\ UNCHANGED calls
        BY <1>3, <2>2 DEF CheckInputPii, Step
      <3>2. BasicInv'
        BY <3>1, ZenonT(120) DEF FieldInv, ContextInv, DirtyInv, OutcomeInv, RecordInv
      <3>b. BesideInv'
        BY <3>1 DEF BesideInv, OutcomeInv, DirtyInv, RecordInv, FieldInv
      <3>3. SegmentInv' /\ CitationInv'
        BY <3>1 DEF SegmentInv, CitationInv
      <3> QED
        BY <3>2, <3>3, <3>b
    <2> QED
      BY <2>1, <2>2
  <1>4. CASE BuildAclFilter
    <2>1. Goes("build_acl_filter", "classify_query", {}) /\ UNCHANGED calls
      BY <1>4 DEF BuildAclFilter, Node, Step, Edge
    <2>2. BasicInv'
      BY <2>1, ZenonT(120) DEF FieldInv, ContextInv, DirtyInv, OutcomeInv, RecordInv
    <2>b. BesideInv'
      BY <2>1 DEF BesideInv, OutcomeInv, DirtyInv, RecordInv, FieldInv
    <2>3. SegmentInv' /\ CitationInv'
      BY <2>1 DEF SegmentInv, CitationInv
    <2> QED
      BY <2>2, <2>3, <2>b
  <1>5. CASE ClassifyQuery
    <2>1. Goes("classify_query", "model_router", {"type"})
      BY <1>5 DEF ClassifyQuery, Classify, Node, Step, Edge
    <2>2. BasicInv'
      BY <2>1, ZenonT(120) DEF FieldInv, ContextInv, DirtyInv, OutcomeInv, RecordInv
    <2>b. BesideInv'
      BY <2>1 DEF BesideInv, OutcomeInv, DirtyInv, RecordInv, FieldInv
    <2>3. SegmentInv' /\ CitationInv'
      BY <2>1 DEF SegmentInv, CitationInv
    <2> QED
      BY <2>2, <2>3, <2>b
  <1>6. CASE ModelRouter
    <2>1. /\ Goes("model_router",
                  IF st.type = "assessment_generation" THEN "assessment" ELSE "query_rewrite",
                  {"model", "lora", "fallback"})
          /\ st'.fallback \in {st.fallback, "routing_refusal"} /\ UNCHANGED calls
      BY <1>6 DEF ModelRouter, Routed, Decide, Step
    <2>2. BasicInv'
      BY <2>1, ZenonT(120) DEF FieldInv, ContextInv, DirtyInv, OutcomeInv, RecordInv
    <2>b. BesideInv'
      BY <2>1 DEF BesideInv, OutcomeInv, DirtyInv, RecordInv, FieldInv
    <2>3. SegmentInv' /\ CitationInv'
      BY <2>1 DEF SegmentInv, CitationInv
    <2> QED
      BY <2>2, <2>3, <2>b
  <1> QED
    BY <1>1, <1>2, <1>3, <1>4, <1>5, <1>6

\* What _format and the notices of the assessment node write
Formatted == {"grounding", "text", "fallback", "dirty", "segsDirty", "keptDirty"}

\* The answer with the items of an exam, or the notice that there are none.
LEMMA FormattedAnswer ==
    ASSUME PathInv, FieldInv, NEW s, s \in {Notice(st)} \cup {Exam(st, d) : d \in BOOLEAN}
    PROVE  /\ DOMAIN s = Fields /\ \A f \in Fields \ Formatted : s[f] = st[f]
           /\ s.grounding \in {"ungrounded", "assessment"} /\ s.text \in {"notice", "exam"}
           /\ s.fallback = None /\ s.dirty \in BOOLEAN /\ s.segsDirty \in BOOLEAN
           /\ s.keptDirty \in BOOLEAN
  <1> USE DEF PathInv, Fields, Formatted
  <1>1. CASE s = Notice(st)
    BY <1>1 DEF Notice, FieldInv
  <1>2. ASSUME NEW d \in BOOLEAN, s = Exam(st, d)
        PROVE  /\ DOMAIN s = Fields /\ \A f \in Fields \ Formatted : s[f] = st[f]
               /\ s.grounding = "assessment" /\ s.text = "exam" /\ s.fallback = None
               /\ s.dirty = d /\ s.segsDirty = d /\ s.keptDirty = d
    BY <1>2 DEF Exam
  <1> QED
    BY <1>1, <1>2

\* The search, the generation of an answer and of exam questions.
LEMMA GeneratingStep ==
    ASSUME PipelineInv,
           QueryRewrite \/ RetrieveContext \/ Gate1Node \/ GenerateAnswer
               \/ GenerateUngrounded \/ Assessment \/ CollectFigures \/ FigureAnswer
    PROVE  PipelineInv'
  <1> USE DEF PipelineInv, BasicInv, PathInv, Goes, Touches, Fields
  <1>1. CASE QueryRewrite
    <2>1. /\ Goes("query_rewrite", "retrieve_context", {"rewritten"})
          /\ st'.rewritten \in Rewrites
      <3>1. PICK query \in Rewrites : Node("query_rewrite", [st EXCEPT !.rewritten = query])
        BY <1>1 DEF QueryRewrite
      <3> QED
        BY <3>1 DEF Node, Step, Edge
    <2>2. BasicInv'
      BY <2>1, ZenonT(60) DEF FieldInv, ContextInv, DirtyInv, OutcomeInv, RecordInv
    <2>b. BesideInv'
      BY <2>1 DEF BesideInv, OutcomeInv, DirtyInv, RecordInv, FieldInv
    <2>3. SegmentInv' /\ CitationInv'
      BY <2>1 DEF SegmentInv, CitationInv
    <2> QED
      BY <2>2, <2>3, <2>b
  <1>2. CASE RetrieveContext
    <2>1. ASSUME NEW scores, NEW hits, hits \in Seq(Corpus),
                 \A k \in DOMAIN hits : Permitted(hits[k], st.cfg),
                 Node("retrieve_context", Retrieve(scores, hits))
          PROVE  PipelineInv'
      <3> DEFINE n == IF Len(hits) < ContextTopK THEN Len(hits) ELSE ContextTopK
      <3>1. n \in 0 .. Len(hits) /\ n <= ContextTopK
        BY <2>1, ChatAssumption
      <3>2. /\ Goes("retrieve_context", "gate_1", {"scores", "contexts"})
            /\ st'.contexts = SubSeq(hits, 1, n)
        BY <2>1 DEF Retrieve, Node, Step, Edge
      <3> HIDE DEF n
      <3>3. /\ st'.contexts \in Seq(Corpus) /\ Len(st'.contexts) = n
            /\ \A k \in 1 .. n : st'.contexts[k] = hits[k]
        BY <2>1, <3>1, <3>2
      <3>4. ContextInv'
        <4>1. \A k \in DOMAIN st'.contexts : Permitted(st'.contexts[k], st.cfg)
          BY <2>1, <3>1, <3>3
        <4> QED
          BY <3>1, <3>2, <3>3, <4>1 DEF ContextInv, Permitted
      <3>5. BasicInv'
        BY <3>2, <3>4 DEF FieldInv, DirtyInv, OutcomeInv, RecordInv
      <3>b. BesideInv'
        BY <3>2, <3>4 DEF BesideInv, OutcomeInv, DirtyInv, RecordInv, FieldInv
      <3>6. SegmentInv' /\ CitationInv'
        BY <3>2 DEF SegmentInv, CitationInv
      <3> QED
        BY <3>5, <3>6, <3>b
    <2>2. ASSUME NEW scores \in ScoreLists,
                 NEW hits \in [DOMAIN scores -> {c \in Corpus : Permitted(c, st.cfg)}],
                 Node("retrieve_context", Retrieve(scores, hits))
          PROVE  PipelineInv'
      <3>1. scores \in Seq(Int)
        BY ChatAssumption
      <3>2. DOMAIN hits = 1 .. Len(scores) /\ Len(scores) \in Nat
        BY <3>1
      <3>3. hits \in Seq(Corpus) /\ \A k \in DOMAIN hits : Permitted(hits[k], st.cfg)
        BY <3>2
      <3> QED
        BY <2>1, <2>2, <3>3
    <2>3. CASE Node("retrieve_context", Retrieve(<<>>, <<>>))
      <3>1. <<>> \in Seq(Corpus) /\ DOMAIN <<>> = {}
        OBVIOUS
      <3> QED
        BY <2>1, <2>3, <3>1
    <2> QED
      BY <1>2, <2>2, <2>3 DEF RetrieveContext
  <1>3. CASE Gate1Node
    <2>1. CASE Gate1(st.scores)
      <3>1. Goes("gate_1", "generate_answer", {}) /\ UNCHANGED calls
        BY <1>3, <2>1 DEF Gate1Node, Step
      <3>2. BasicInv'
        BY <3>1, ZenonT(60) DEF FieldInv, ContextInv, DirtyInv, OutcomeInv, RecordInv
      <3>b. BesideInv'
        BY <3>1 DEF BesideInv, OutcomeInv, DirtyInv, RecordInv, FieldInv
      <3>3. SegmentInv' /\ CitationInv'
        BY <3>1 DEF SegmentInv, CitationInv
      <3> QED
        BY <3>2, <3>3, <3>b
    <2>2. CASE ~Gate1(st.scores)
      <3>1. /\ Goes("gate_1", "generate_ungrounded", {"fallback"}) /\ UNCHANGED calls
            /\ st'.fallback \in {"retrieval_unavailable", "gate1_failed"}
        BY <1>3, <2>2 DEF Gate1Node, Step
      <3>2. BasicInv'
        BY <3>1, ZenonT(60) DEF FieldInv, ContextInv, DirtyInv, OutcomeInv, RecordInv
      <3>b. BesideInv'
        BY <3>1 DEF BesideInv, OutcomeInv, DirtyInv, RecordInv, FieldInv
      <3>3. SegmentInv' /\ CitationInv'
        BY <3>1 DEF SegmentInv, CitationInv
      <3> QED
        BY <3>2, <3>3, <3>b
    <2> QED
      BY <2>1, <2>2
  <1>4. CASE GenerateAnswer
    <2> DEFINE k == st.chain + 1
    <2>1. Len(ChainSteps) \in 1 .. 3
      BY DEF ChainSteps
    <2>2. ASSUME NEW raw \in Answers, NEW d \in BOOLEAN, NEW model, NEW lora,
                 Node("generate_answer", [st EXCEPT !.segs = raw, !.segsDirty = d,
                                                    !.model = model, !.lora = lora])
          PROVE  PipelineInv'
      <3>1. /\ Goes("generate_answer", "parse_response", {"segs", "segsDirty", "model", "lora"})
            /\ st'.segs = raw /\ st'.segsDirty = d
        BY <2>2 DEF Node, Step, Edge
      <3>2. BasicInv'
        BY <3>1, ZenonT(60) DEF FieldInv, ContextInv, DirtyInv, OutcomeInv, RecordInv
      <3>b. BesideInv'
        BY <3>1 DEF BesideInv, OutcomeInv, DirtyInv, RecordInv, FieldInv
      <3>3. SegmentInv' /\ CitationInv'
        BY <3>1, ChatAssumption DEF SegmentInv, CitationInv
      <3> QED
        BY <3>2, <3>3, <3>b
    <2>3. CASE /\ k < Len(ChainSteps)
               /\ Step("generate_answer", [st EXCEPT !.chain = k], "generate_answer")
      <3>1. Goes("generate_answer", "generate_answer", {"chain"}) /\ st'.chain = k
        BY <2>3 DEF Step
      <3>2. k \in 0 .. 3
        <4>1. st.chain \in 0 .. 3
          BY DEF FieldInv
        <4> QED
          BY <2>1, <2>3, <4>1, ChainIsShort
      <3>3. BasicInv'
        BY <3>1, <3>2, ZenonT(120) DEF FieldInv, ContextInv, DirtyInv, OutcomeInv, RecordInv
      <3>b. BesideInv'
        BY <3>1, <3>2 DEF BesideInv, OutcomeInv, DirtyInv, RecordInv, FieldInv
      <3>4. SegmentInv' /\ CitationInv'
        BY <3>1 DEF SegmentInv, CitationInv
      <3> QED
        BY <3>3, <3>4, <3>b
    <2>4. CASE /\ k = Len(ChainSteps)
               /\ Node("generate_answer", [st EXCEPT !.segs = <<>>, !.chain = k,
                                              !.fallback = "low_generation_quality"])
      <3>1. /\ Goes("generate_answer", "parse_response", {"segs", "chain", "fallback"})
            /\ st'.segs = <<>> /\ st'.chain = k /\ st'.fallback = "low_generation_quality"
        BY <2>4 DEF Node, Step, Edge
      <3>2. k \in 0 .. 3
        <4>1. st.chain \in 0 .. 3
          BY DEF FieldInv
        <4> QED
          BY <2>1, <2>4, <4>1, ChainIsShort
      <3>3. BasicInv'
        BY <3>1, <3>2, ZenonT(60) DEF FieldInv, ContextInv, DirtyInv, OutcomeInv, RecordInv
      <3>b. BesideInv'
        BY <3>1, <3>2 DEF BesideInv, OutcomeInv, DirtyInv, RecordInv, FieldInv
      <3>4. SegmentInv' /\ CitationInv'
        BY <3>1 DEF SegmentInv, CitationInv
      <3> QED
        BY <3>3, <3>4, <3>b
    <2> QED
      BY <1>4, <2>2, <2>3, <2>4 DEF GenerateAnswer
  <1>5. CASE GenerateUngrounded
    <2> DEFINE Answer == {"grounding", "text", "dirty", "segsDirty", "fallback"}
    <2>1. ASSUME NEW text \in {"conversation", ""}, NEW d \in BOOLEAN, text = "" => ~d,
                 Node("generate_ungrounded",
                      [st EXCEPT !.grounding = "ungrounded", !.text = text,
                                 !.dirty = d, !.segsDirty = d, !.fallback = None])
          PROVE  PipelineInv'
      <3>1. /\ Goes("generate_ungrounded", "mask_response_pii", Answer)
            /\ st'.grounding = "ungrounded" /\ st'.text \in {"conversation", ""}
            /\ st'.dirty = d /\ st'.segsDirty = d /\ st'.fallback = None
            /\ st'.text = "" => ~st'.dirty
        BY <2>1 DEF Node, Step, Edge
      <3>2. BasicInv'
        BY <3>1, ChatAssumption, ZenonT(120) DEF FieldInv, ContextInv, DirtyInv, OutcomeInv, RecordInv
      <3>b. BesideInv'
        BY <3>1, ChatAssumption DEF BesideInv, OutcomeInv, DirtyInv, RecordInv, FieldInv
      <3>3. SegmentInv' /\ CitationInv'
        BY <3>1, NoSegments DEF SegmentInv, CitationInv
      <3> QED
        BY <3>2, <3>3, <3>b
    <2>2. CASE Node("generate_ungrounded",
                    [st EXCEPT !.grounding = "ungrounded", !.text = "",
                               !.fallback = "low_generation_quality"])
      <3>1. /\ Goes("generate_ungrounded", "mask_response_pii", {"grounding", "text", "fallback"})
            /\ st'.grounding = "ungrounded" /\ st'.text = ""
            /\ st'.fallback = "low_generation_quality"
        BY <2>2 DEF Node, Step, Edge
      <3>2. BasicInv'
        BY <3>1, ZenonT(120) DEF FieldInv, ContextInv, DirtyInv, OutcomeInv, RecordInv
      <3>b. BesideInv'
        BY <3>1 DEF BesideInv, OutcomeInv, DirtyInv, RecordInv, FieldInv
      <3>3. SegmentInv' /\ CitationInv'
        BY <3>1, NoSegments DEF SegmentInv, CitationInv
      <3> QED
        BY <3>2, <3>3, <3>b
    <2> QED
      BY <1>5, <2>1, <2>2 DEF GenerateUngrounded
  <1>6. CASE Assessment
    <2>1. ASSUME NEW s, s \in {Notice(st)} \cup {Exam(st, d) : d \in BOOLEAN},
                 Node("assessment", s),
                 calls' = calls \/ calls' = calls \cup {"generate"}
          PROVE  PipelineInv'
      <3>0. /\ pc = "assessment" /\ pc' = "mask_response_pii" /\ st' = s
            /\ UNCHANGED <<log, letters, reply>>
        BY <2>1 DEF Node, Step, Edge
      <3>1. /\ Goes("assessment", "mask_response_pii", Formatted)
            /\ st'.grounding \in {"ungrounded", "assessment"} /\ st'.text \in {"notice", "exam"}
            /\ st'.fallback = None /\ st'.dirty \in BOOLEAN /\ st'.segsDirty \in BOOLEAN
            /\ st'.keptDirty \in BOOLEAN
        BY <2>1, <3>0, FormattedAnswer
      <3>2. BasicInv'
        BY <3>1, ChatAssumption, ZenonT(120) DEF FieldInv, ContextInv, DirtyInv, OutcomeInv, RecordInv, Formatted
      <3>b. BesideInv'
        BY <3>1, ChatAssumption DEF BesideInv, OutcomeInv, DirtyInv, RecordInv, FieldInv
      <3>3. SegmentInv' /\ CitationInv'
        BY <3>1, NoSegments DEF SegmentInv, CitationInv, Formatted
      <3> QED
        BY <3>2, <3>3, <3>b
    <2>2. ASSUME NEW want \in 1 .. MaxFigures, NEW n \in 0 .. 1,
                 Step("assessment", [st EXCEPT !.figs.want = want, !.figs.texts = n],
                      "collect_figures")
          PROVE  PipelineInv'
      <3>1. /\ Goes("assessment", "collect_figures", {"figs"})
            /\ st'.figs = [st.figs EXCEPT !.want = want, !.texts = n]
        BY <2>2 DEF Step
      <3>2. st.figs.got = 0
        BY <3>1 DEF FieldInv
      <3>3. FieldInv'
        <4>1. want \in Nat /\ n \in Nat /\ 0 <= want
          BY ChatAssumption
        <4>2. st.figs \in FigureCount
          BY DEF FieldInv
        <4> HIDE DEF PipelineInv
        <4> DEFINE g == [st.figs EXCEPT !.want = want, !.texts = n]
        <4>3. g \in FigureCount /\ g.got = st.figs.got /\ g.want = want
          BY <4>1, <4>2 DEF FigureCount
        <4>4. st'.figs = g
          BY <3>1
        <4> HIDE DEF g
        <4> QED
          BY <3>1, <3>2, <4>1, <4>3, <4>4 DEF FieldInv, PipelineInv
      <3>4. BasicInv'
        BY <3>1, <3>3 DEF ContextInv, DirtyInv, OutcomeInv, RecordInv
      <3>b. BesideInv'
        BY <3>1, <3>3 DEF BesideInv, OutcomeInv, DirtyInv, RecordInv, FieldInv
      <3>5. SegmentInv' /\ CitationInv'
        BY <3>1 DEF SegmentInv, CitationInv
      <3> QED
        BY <3>4, <3>5, <3>b
    <2> QED
      BY <1>6, <2>1, <2>2, ZenonT(60) DEF Assessment, Call
  <1>7. CASE CollectFigures
    <2>1. ASSUME NEW f, Step("collect_figures", [st EXCEPT !.figs = f], "collect_figures"),
                 f \in FigureCount,
                 f.got <= f.want
          PROVE  PipelineInv'
      <3>1. Goes("collect_figures", "collect_figures", {"figs"}) /\ st'.figs = f
        BY <2>1 DEF Step
      <3>2. BasicInv'
        BY <2>1, <3>1, ZenonT(120) DEF FieldInv, ContextInv, DirtyInv, OutcomeInv, RecordInv
      <3>b. BesideInv'
        BY <2>1, <3>1 DEF BesideInv, OutcomeInv, DirtyInv, RecordInv, FieldInv
      <3>3. SegmentInv' /\ CitationInv'
        BY <3>1 DEF SegmentInv, CitationInv
      <3> QED
        BY <3>2, <3>3, <3>b
    <2> DEFINE f == st.figs
    <2>2. /\ f \in FigureCount
          /\ f.got <= f.want
      BY DEF FieldInv
    <2>3. ASSUME NEW k \in 0 .. (f.want - f.got),
                 Step("collect_figures",
                      [st EXCEPT !.figs =
                          IF f.subj < Subjects
                          THEN [f EXCEPT !.got = @ + k, !.subj = @ + 1]
                          ELSE [f EXCEPT !.got = @ + k, !.subj = 1, !.pass = @ + 1]],
                      "collect_figures")
          PROVE  PipelineInv'
      <3> DEFINE g == IF f.subj < Subjects
                      THEN [f EXCEPT !.got = @ + k, !.subj = @ + 1]
                      ELSE [f EXCEPT !.got = @ + k, !.subj = 1, !.pass = @ + 1]
      <3>1. /\ g \in FigureCount
            /\ g.got <= g.want
        <4>1. /\ g \in FigureCount /\ f.got + k <= f.want
          BY <2>2, <2>3, FiguresAreCounted
        <4>2. g.got = f.got + k /\ g.want = f.want
          BY <2>2 DEF FigureCount
        <4> QED
          BY <4>1, <4>2
      <3>2. Step("collect_figures", [st EXCEPT !.figs = g], "collect_figures")
        BY <2>3
      <3> HIDE DEF g
      <3> QED
        BY <2>1, <3>1, <3>2
    <2>4. CASE Step("collect_figures", [st EXCEPT !.figs.pass = 3], "collect_figures")
      <3> DEFINE g == [f EXCEPT !.pass = 3]
      <3>1. /\ g \in FigureCount
            /\ g.got <= g.want
        BY <2>2, FiguresAreWanted
      <3>2. Step("collect_figures", [st EXCEPT !.figs = g], "collect_figures")
        BY <2>4 DEF Step
      <3> HIDE DEF g
      <3> QED
        BY <2>1, <3>1, <3>2
    <2> QED
      BY <1>7, <2>3, <2>4 DEF CollectFigures
  <1>8. CASE FigureAnswer
    <2>0. /\ pc = "collect_figures" /\ pc' = "mask_response_pii"
          /\ st' \in {Notice(st)} \cup {Exam(st, d) : d \in BOOLEAN}
          /\ UNCHANGED <<log, letters, reply, calls>>
      BY <1>8 DEF FigureAnswer, Step, Edge
    <2>1. /\ Goes("collect_figures", "mask_response_pii", Formatted)
          /\ st'.grounding \in {"ungrounded", "assessment"} /\ st'.text \in {"notice", "exam"}
          /\ st'.fallback = None /\ st'.dirty \in BOOLEAN /\ st'.segsDirty \in BOOLEAN
          /\ st'.keptDirty \in BOOLEAN /\ UNCHANGED calls
      BY <2>0, FormattedAnswer
    <2>2. BasicInv'
      BY <2>1, ChatAssumption, ZenonT(120) DEF FieldInv, ContextInv, DirtyInv, OutcomeInv, RecordInv, Formatted
    <2>b. BesideInv'
      BY <2>1, ChatAssumption DEF BesideInv, OutcomeInv, DirtyInv, RecordInv, FieldInv
    <2>3. SegmentInv' /\ CitationInv'
      BY <2>1, NoSegments DEF SegmentInv, CitationInv, Formatted
    <2> QED
      BY <2>2, <2>3, <2>b
  <1> QED
    BY <1>1, <1>2, <1>3, <1>4, <1>5, <1>6, <1>7, <1>8

-----------------------------------------------------------------------------
(* Verification.                                                           *)

\* parse_segments: segments with what the later steps add to them.
LEMMA ParsedSegments ==
    ASSUME NEW raw \in Seq(RawSegment)
    PROVE  /\ DOMAIN ParseSegments(raw) \subseteq Nat
           /\ IsFiniteSet(DOMAIN ParseSegments(raw))
           /\ \A i \in DOMAIN ParseSegments(raw) :
                 /\ Segment(ParseSegments(raw)[i])
                 /\ ~ParseSegments(raw)[i].pending
  <1>1. DOMAIN ParseSegments(raw) = 1 .. Len(raw)
    BY DEF ParseSegments
  <1>2. ASSUME NEW i \in 1 .. Len(raw)
        PROVE  Segment(ParseSegments(raw)[i]) /\ ~ParseSegments(raw)[i].pending
    <2> DEFINE D == {k \in DOMAIN raw[i].cites : raw[i].cites[k] # NotAnInt}
               seg == ParseSegments(raw)[i]
    <2>1. raw[i] \in RawSegment
      OBVIOUS
    <2>2. D \subseteq 1 .. Len(raw[i].cites) /\ Len(raw[i].cites) \in Nat
      BY <2>1 DEF RawSegment
    <2>3. D \subseteq Nat /\ IsFiniteSet(D)
      <3>1. PICK m \in Nat : D \subseteq 1 .. m
        BY <2>2
      <3>2. IsFiniteSet(1 .. m)
        BY <3>1, FS_Interval
      <3> QED
        BY <3>1, <3>2, FS_Subset
    <2>4. /\ seg.cites = [k \in D |-> raw[i].cites[k]]
          /\ seg.type = IF raw[i].type = "none" THEN "direct" ELSE raw[i].type
          /\ seg.pending = FALSE
          /\ DOMAIN seg = {"cites", "type", "groups", "meta", "downgraded", "pending"}
      BY DEF ParseSegments, RestrictValues, Restrict
    <2>5. seg.type \in Kinds
      BY <2>1, <2>4 DEF RawSegment, Kinds, SupportTypes
    <2> HIDE DEF D, seg
    <2>6. Segment(seg) /\ ~seg.pending
      BY <2>3, <2>4, <2>5 DEF Segment
    <2> QED
      BY <2>6 DEF seg
  <1> QED
    BY <1>1, <1>2, FS_Interval

\* tier1_filter: the markers that are left are in range, the rest stays.
LEMMA FilteredSegment ==
    ASSUME NEW segs, NEW n, NEW i \in DOMAIN segs, Segment(segs[i])
    PROVE  LET seg == Tier1Filter(segs, n)[i]
           IN  /\ Segment(seg) /\ seg.pending = segs[i].pending
               /\ \A c \in Cited(seg) : c \in 1 .. n
  <1> DEFINE D == {k \in DOMAIN segs[i].cites : segs[i].cites[k] \in 1 .. n}
             seg == Tier1Filter(segs, n)[i]
  <1>1. D \subseteq Nat /\ IsFiniteSet(D)
    BY FS_Subset DEF Segment
  <1>2. /\ DOMAIN seg = DOMAIN segs[i]
        /\ seg.cites = [k \in D |-> segs[i].cites[k]]
        /\ seg.type = segs[i].type /\ seg.pending = segs[i].pending
    BY DEF Tier1Filter, RestrictValues, Restrict, Segment
  <1> HIDE DEF D, seg
  <1>3. Segment(seg)
    BY <1>1, <1>2 DEF Segment
  <1>4. \A c \in Cited(seg) : c \in 1 .. n
    BY <1>2 DEF Cited, ToSet, D
  <1> QED
    BY <1>2, <1>3, <1>4 DEF seg

\* detect_in_segment: a segment may become a conflict; its markers stay.
LEMMA DetectedSegment ==
    ASSUME NEW seg, NEW n, NEW readings, Segment(seg)
    PROVE  LET new == DetectInSegment(seg, n, readings)
           IN  Segment(new) /\ new.cites = seg.cites /\ new.pending = seg.pending
  BY DEF DetectInSegment, Segment, Kinds, SupportTypes

\* A segment that is stripped of its citations.
LEMMA DowngradedSegment ==
    ASSUME NEW seg, Segment(seg)
    PROVE  /\ Segment(Downgrade(seg)) /\ Cited(Downgrade(seg)) = {}
           /\ Downgrade(seg).pending = seg.pending /\ Downgrade(seg).type = seg.type
  <1>1. DOMAIN <<>> \subseteq Nat /\ IsFiniteSet(DOMAIN <<>>) /\ DOMAIN <<>> = {}
    BY NoSegments
  <1> QED
    BY <1>1 DEF Downgrade, Segment, Cited, ToSet

\* _classify says whether a level counts as verified.
LEMMA PassesIsBoolean ==
    ASSUME NEW level
    PROVE  Passes(level) \in BOOLEAN
  BY DEF Passes

\* tier2_classify: whatever it leaves of a segment was measured.
LEMMA ClassifiedSegment ==
    ASSUME NEW seg, NEW sim, NEW judge \in BOOLEAN, NEW n \in Nat,
           Segment(seg), ~seg.pending, \A c \in Cited(seg) : c \in 1 .. n,
           \A k \in 1 .. n : sim[k] \in Levels
    PROVE  LET new == Tier2Classify(seg, sim, judge)
           IN  /\ Segment(new)
               /\ Cited(new) \subseteq Cited(seg)
               /\ \A c \in Cited(new) : /\ c \in DOMAIN new.meta
                                        /\ new.meta[c].level \in Levels
                                        /\ new.meta[c].verified \in BOOLEAN
               /\ new.type # "conflict" => \A c \in Cited(new) : sim[c] \in Strong
               /\ new.type = "conflict" /\ Cited(new) # {} =>
                     /\ NumGroups(new.groups) >= 2
                     /\ \A g \in ToSet(new.groups) : g # {} /\ \A c \in g : sim[c] \in Strong
               /\ new.type = "inference" =>
                     /\ \A c \in Cited(new) : new.meta[c].level \in Strong
                     /\ Cited(new) # {} => new.pending
               /\ new.pending => new.type = "inference"
  <1> DEFINE new == Tier2Classify(seg, sim, judge)
             kept == [seg EXCEPT !.cites = RestrictValues(@, LAMBDA c : Passes(sim[c]))]
             Goal(s) ==
               /\ Segment(s)
               /\ Cited(s) \subseteq Cited(seg)
               /\ \A c \in Cited(s) : /\ c \in DOMAIN s.meta
                                      /\ s.meta[c].level \in Levels
                                      /\ s.meta[c].verified \in BOOLEAN
               /\ s.type # "conflict" => \A c \in Cited(s) : sim[c] \in Strong
               /\ s.type = "conflict" /\ Cited(s) # {} =>
                     /\ NumGroups(s.groups) >= 2
                     /\ \A g \in ToSet(s.groups) : g # {} /\ \A c \in g : sim[c] \in Strong
               /\ s.type = "inference" =>
                     /\ \A c \in Cited(s) : s.meta[c].level \in Strong
                     /\ Cited(s) # {} => s.pending
               /\ s.pending => s.type = "inference"
  <1>1. \A c \in Cited(seg) : sim[c] \in Levels /\ (Passes(sim[c]) => sim[c] \in Strong)
    BY DEF Levels, Passes, Strong
  <1>2. Goal(Downgrade(seg))
    BY DowngradedSegment
  <1>3. CASE seg.type = "conflict"
    <2> DEFINE s == [seg EXCEPT !.meta = [c \in Cited(seg) |->
                                             [level |-> Cap(sim[c]), verified |-> TRUE]]]
    <2>1. CASE /\ NumGroups(seg.groups) >= 2
               /\ \A g \in ToSet(seg.groups) :
                     g # {} /\ \A c \in g : c \in Cited(seg) /\ Passes(sim[c])
      <3>2. new = s
        BY <1>3, <2>1 DEF Tier2Classify
      <3>3. /\ DOMAIN s = DOMAIN seg /\ s.cites = seg.cites /\ s.type = seg.type
            /\ s.groups = seg.groups /\ s.pending = seg.pending
            /\ s.meta = [c \in Cited(seg) |-> [level |-> Cap(sim[c]), verified |-> TRUE]]
        BY DEF Segment
      <3> HIDE DEF s
      <3>4. Segment(s) /\ Cited(s) = Cited(seg)
        BY <3>3 DEF Segment, Cited
      <3>5. \A c \in Cited(s) : /\ c \in DOMAIN s.meta /\ s.meta[c].level \in Levels
                                /\ s.meta[c].verified \in BOOLEAN
        <4>1. \A c \in Cited(seg) : Cap(sim[c]) \in Levels
          BY <1>1 DEF Cap, Levels
        <4>2. ASSUME NEW c \in Cited(s)
              PROVE  /\ c \in DOMAIN s.meta /\ s.meta[c].level = Cap(sim[c])
                     /\ s.meta[c].verified = TRUE
          BY <3>3, <3>4
        <4> QED
          BY <3>4, <4>1, <4>2
      <3>6. Goal(s)
        BY <1>1, <1>3, <2>1, <3>3, <3>4, <3>5
      <3> HIDE DEF Goal, new
      <3>7. Goal(new)
        BY <3>2, <3>6
      <3> QED
        BY <3>7 DEF Goal, new
    <2>2. CASE ~(/\ NumGroups(seg.groups) >= 2
                 /\ \A g \in ToSet(seg.groups) :
                       g # {} /\ \A c \in g : c \in Cited(seg) /\ Passes(sim[c]))
      <3>1. new = Downgrade(seg)
        BY <1>3, <2>2 DEF Tier2Classify
      <3> HIDE DEF Goal, new
      <3>2. Goal(new)
        BY <1>2, <3>1
      <3> QED
        BY <3>2 DEF Goal, new
    <2> QED
      BY <2>1, <2>2
  <1>4. CASE seg.type = "inference"
    <2> DEFINE s == [seg EXCEPT !.meta = Assess(seg, sim), !.pending = TRUE]
    <2>1. CASE judge /\ AllPass(seg, sim)
      <3>1. new = s
        BY <1>4, <2>1 DEF Tier2Classify
      <3>2. /\ DOMAIN s = DOMAIN seg /\ s.cites = seg.cites /\ s.type = seg.type
            /\ s.pending = TRUE
            /\ s.meta = [c \in Cited(seg) |-> [level |-> sim[c], verified |-> Passes(sim[c])]]
        BY DEF Segment, Assess
      <3>3. \A c \in Cited(seg) : sim[c] \in Strong
        BY <1>1, <2>1 DEF AllPass
      <3> HIDE DEF s
      <3>4. Segment(s) /\ Cited(s) = Cited(seg)
        BY <3>2 DEF Segment, Cited
      <3>5. \A c \in Cited(s) : /\ c \in DOMAIN s.meta /\ s.meta[c].level \in Levels
                                /\ s.meta[c].level \in Strong
                                /\ s.meta[c].verified \in BOOLEAN
        <4>1. ASSUME NEW c \in Cited(s)
              PROVE  /\ c \in DOMAIN s.meta /\ s.meta[c].level = sim[c]
                     /\ s.meta[c].verified = Passes(sim[c])
          BY <3>2, <3>4
        <4>2. \A c \in Cited(s) : s.meta[c].verified \in BOOLEAN
          BY <4>1, PassesIsBoolean, Zenon
        <4> QED
          BY <1>1, <3>3, <3>4, <4>1, <4>2
      <3>6. Goal(s)
        BY <1>4, <3>2, <3>3, <3>4, <3>5
      <3> HIDE DEF Goal, new
      <3>7. Goal(new)
        BY <3>1, <3>6
      <3> QED
        BY <3>7 DEF Goal, new
    <2>2. CASE ~(judge /\ AllPass(seg, sim))
      <3>1. new = Downgrade(seg)
        BY <1>4, <2>2 DEF Tier2Classify
      <3> HIDE DEF Goal, new
      <3>2. Goal(new)
        BY <1>2, <3>1
      <3> QED
        BY <3>2 DEF Goal, new
    <2> QED
      BY <2>1, <2>2
  <1>5. CASE seg.type = "synthesis" /\ ~AllPass(seg, sim)
    <2>1. new = Downgrade(seg)
      BY <1>5 DEF Tier2Classify
    <2> HIDE DEF Goal, new
    <2>2. Goal(new)
      BY <1>2, <2>1
    <2> QED
      BY <2>2 DEF Goal, new
  <1>6. CASE /\ seg.type # "conflict" /\ seg.type # "inference"
             /\ ~(seg.type = "synthesis" /\ ~AllPass(seg, sim))
    <2> DEFINE s == [kept EXCEPT !.meta = Assess(kept, sim)]
               D == {k \in DOMAIN seg.cites : Passes(sim[seg.cites[k]])}
    <2>1. new = s
      BY <1>6 DEF Tier2Classify
    <2>2. /\ DOMAIN kept = DOMAIN seg /\ kept.type = seg.type /\ kept.pending = seg.pending
          /\ kept.cites = [k \in D |-> seg.cites[k]]
      BY DEF Segment, RestrictValues, Restrict
    <2> HIDE DEF kept
    <2>3. /\ DOMAIN s = DOMAIN seg /\ s.cites = kept.cites /\ s.type = seg.type
          /\ s.pending = seg.pending
          /\ s.meta = [c \in Cited(kept) |-> [level |-> sim[c], verified |-> Passes(sim[c])]]
      BY <2>2 DEF Segment, Assess
    <2> HIDE DEF s
    <2>4. IsFiniteSet(D) /\ D \subseteq Nat
      BY FS_Subset DEF Segment
    <2>5. Segment(s)
      BY <2>2, <2>3, <2>4 DEF Segment
    <2>6. Cited(s) = Cited(kept) /\ \A c \in Cited(s) : c \in Cited(seg) /\ Passes(sim[c])
      BY <2>2, <2>3 DEF Cited, ToSet
    <2>7. \A c \in Cited(s) : /\ c \in DOMAIN s.meta /\ s.meta[c].level \in Levels
                              /\ sim[c] \in Strong /\ s.meta[c].verified \in BOOLEAN
      <3>1. ASSUME NEW c \in Cited(s)
            PROVE  /\ c \in DOMAIN s.meta /\ s.meta[c].level = sim[c]
                   /\ s.meta[c].verified = Passes(sim[c])
        BY <2>3, <2>6
      <3>2. \A c \in Cited(s) : s.meta[c].verified \in BOOLEAN
        BY <3>1, PassesIsBoolean, Zenon
      <3> QED
        BY <1>1, <2>6, <3>1, <3>2
    <2>8. Goal(s)
      BY <1>6, <2>3, <2>5, <2>6, <2>7
    <2> HIDE DEF Goal, new
    <2>9. Goal(new)
      BY <2>1, <2>8
    <2> QED
      BY <2>9 DEF Goal, new
  <1> QED
    BY <1>3, <1>4, <1>5, <1>6

\* apply_judge_result: an inference is confirmed at medium, or stripped.
LEMMA JudgedSegment ==
    ASSUME NEW seg, NEW passes \in BOOLEAN, Segment(seg),
           \A c \in Cited(seg) : c \in DOMAIN seg.meta
    PROVE  LET new == ApplyJudgeResult(seg, passes)
           IN  /\ Segment(new) /\ ~new.pending
               /\ new.type = seg.type /\ new.groups = seg.groups
               /\ Cited(new) = IF passes THEN Cited(seg) ELSE {}
               /\ \A c \in Cited(new) : /\ c \in DOMAIN new.meta
                                        /\ new.meta[c].level = Cap(seg.meta[c].level)
                                        /\ new.meta[c].verified \in BOOLEAN
  <1> DEFINE new == ApplyJudgeResult(seg, passes)
  <1>1. CASE passes
    <2>1. /\ DOMAIN new = DOMAIN seg /\ new.cites = seg.cites /\ new.type = seg.type
          /\ new.groups = seg.groups /\ new.pending = FALSE
          /\ new.meta = [c \in DOMAIN seg.meta |->
                            [level |-> Cap(seg.meta[c].level), verified |-> TRUE]]
      BY <1>1 DEF ApplyJudgeResult, Segment
    <2> HIDE DEF new
    <2>2. Segment(new) /\ Cited(new) = Cited(seg)
      BY <2>1 DEF Segment, Cited
    <2>3. ASSUME NEW c \in Cited(new)
          PROVE  /\ c \in DOMAIN new.meta /\ new.meta[c].level = Cap(seg.meta[c].level)
                 /\ new.meta[c].verified = TRUE
      BY <2>1, <2>2
    <2>4. \A c \in Cited(new) : new.meta[c].verified \in BOOLEAN
      BY <2>3, Zenon
    <2> QED
      BY <1>1, <2>1, <2>2, <2>3, <2>4 DEF new
  <1>2. CASE ~passes
    <2> DEFINE d == Downgrade(seg)
    <2>1. /\ Segment(d) /\ Cited(d) = {} /\ d.type = seg.type /\ d.groups = seg.groups
      BY DowngradedSegment DEF Downgrade, Segment
    <2>2. new = [d EXCEPT !.pending = FALSE]
      BY <1>2 DEF ApplyJudgeResult
    <2> HIDE DEF d, new
    <2>3. /\ DOMAIN new = DOMAIN d /\ new.cites = d.cites /\ new.type = d.type
          /\ new.groups = d.groups /\ new.pending = FALSE
      BY <2>1, <2>2 DEF Segment
    <2>4. Segment(new) /\ Cited(new) = {}
      BY <2>1, <2>3 DEF Segment, Cited
    <2> QED
      BY <1>2, <2>1, <2>3, <2>4 DEF new
  <1> QED
    BY <1>1, <1>2

\* apply_judge_result: a confirmed inference rests on what was measured.
LEMMA JudgedIsBacked ==
    ASSUME NEW seg, NEW sim, NEW n, NEW passes \in BOOLEAN, Segment(seg), Backed(seg, sim, n),
           NEW new, new = ApplyJudgeResult(seg, passes)
    PROVE  /\ Segment(new) /\ ~new.pending /\ Backed(new, sim, n)
           /\ new.type = "inference" =>
                 \A c \in Cited(new) : passes /\ new.meta[c].level = "medium"
  <1>1. \A c \in Cited(seg) : c \in DOMAIN seg.meta
    BY DEF Backed
  <1>2. /\ Segment(new) /\ ~new.pending
        /\ new.type = seg.type /\ new.groups = seg.groups
        /\ Cited(new) = IF passes THEN Cited(seg) ELSE {}
        /\ \A c \in Cited(new) : /\ c \in DOMAIN new.meta
                                 /\ new.meta[c].level = Cap(seg.meta[c].level)
                                 /\ new.meta[c].verified \in BOOLEAN
    BY <1>1, JudgedSegment
  <1>3. \A c \in Cited(new) : c \in Cited(seg) /\ passes
    BY <1>2
  <1>4. \A c \in Cited(new) :
           /\ new.meta[c].level \in Levels
           /\ seg.type = "inference" => new.meta[c].level = "medium"
    BY <1>2, <1>3 DEF Backed, Cap, Levels, Strong
  <1>5. Cited(new) # {} => Cited(seg) # {}
    BY <1>3
  <1>6. InRange(new, n)
    BY <1>3 DEF Backed, InRange
  <1>7. \A c \in Cited(new) : /\ c \in DOMAIN new.meta /\ new.meta[c].level \in Levels
                              /\ new.meta[c].verified \in BOOLEAN
    BY <1>2, <1>4
  <1>8. Backed(new, sim, n)
    BY <1>2, <1>3, <1>4, <1>5, <1>6, <1>7 DEF Backed, Strong
  <1> QED
    BY <1>2, <1>3, <1>4, <1>8

\* A set of positions has a first one.
LEMMA FirstPosition ==
    ASSUME NEW S \in SUBSET Nat, S # {}
    PROVE  (CHOOSE i \in S : \A j \in S : i <= j) \in S
  <1>1. \E i \in S : \A j \in S : ~(<<j, i>> \in OpToRel(<, Nat))
    BY NatLessThanWellFounded, WFMin
  <1>2. PICK i \in S : \A j \in S : ~(<<j, i>> \in OpToRel(<, Nat))
    BY <1>1
  <1>3. ASSUME NEW j \in S
        PROVE  i <= j
    <2>1. i \in Nat /\ j \in Nat
      OBVIOUS
    <2>2. j < i => <<j, i>> \in OpToRel(<, Nat)
      BY <2>1 DEF OpToRel
    <2>3. ~(j < i)
      BY <1>2, <2>2, Zenon
    <2> QED
      BY <2>1, <2>3
  <1> QED
    BY <1>3

\* The image of a finite set is finite.
LEMMA ImageIsFinite ==
    ASSUME NEW S, IsFiniteSet(S), NEW f, DOMAIN f = S
    PROVE  IsFiniteSet({f[x] : x \in S})
  <1>1. [x \in S |-> f[x]] \in Surjection(S, {f[x] : x \in S})
    BY DEF Surjection
  <1> QED
    BY <1>1, FS_Surjection

CitationOf(segs, i, k) ==
    [seg |-> i, pos |-> k, chunk |-> segs[i].cites[k], type |-> segs[i].type,
     level |-> segs[i].meta[segs[i].cites[k]].level,
     verified |-> segs[i].meta[segs[i].cites[k]].verified]

InRangePositions(seg, n) == {k \in DOMAIN seg.cites : seg.cites[k] \in 1 .. n}

\* assemble: a citation stands for a marker of a segment.
LEMMA CitationsOfSegments ==
    ASSUME NEW segs, NEW n, NEW c \in AssembleCitations(segs, n)
    PROVE  \E i \in DOMAIN segs : \E k \in InRangePositions(segs[i], n) :
              c = CitationOf(segs, i, k)
  BY DEF AssembleCitations, CitationOf, InRangePositions

\* assemble: there are finitely many citations.
LEMMA CitationsAreFinite ==
    ASSUME NEW segs, NEW n, IsFiniteSet(DOMAIN segs),
           \A i \in DOMAIN segs : IsFiniteSet(DOMAIN segs[i].cites)
    PROVE  IsFiniteSet(AssembleCitations(segs, n))
  <1> DEFINE Of(i) == {CitationOf(segs, i, k) : k \in InRangePositions(segs[i], n)}
             f == [i \in DOMAIN segs |-> Of(i)]
  <1>1. ASSUME NEW i \in DOMAIN segs
        PROVE  IsFiniteSet(Of(i))
    <2> DEFINE K == InRangePositions(segs[i], n)
               g == [k \in K |-> CitationOf(segs, i, k)]
    <2>1. IsFiniteSet(K)
      BY FS_Subset DEF InRangePositions
    <2>2. IsFiniteSet({g[k] : k \in K})
      <3> HIDE DEF K
      <3>1. DOMAIN g = K
        OBVIOUS
      <3> HIDE DEF g
      <3> QED
        BY <2>1, <3>1, ImageIsFinite
    <2>3. {g[k] : k \in K} = Of(i)
      OBVIOUS
    <2> QED
      BY <2>2, <2>3
  <1>2. IsFiniteSet({f[i] : i \in DOMAIN segs})
    <2>1. DOMAIN f = DOMAIN segs
      OBVIOUS
    <2> HIDE DEF f
    <2> QED
      BY <2>1, ImageIsFinite
  <1>3. \A T \in {f[i] : i \in DOMAIN segs} : IsFiniteSet(T)
    BY <1>1
  <1>4. AssembleCitations(segs, n) = UNION {f[i] : i \in DOMAIN segs}
    BY DEF AssembleCitations, CitationOf, InRangePositions
  <1> QED
    BY <1>2, <1>3, <1>4, FS_UNION

\* The verification of an answer.
LEMMA VerifyingStep ==
    ASSUME PipelineInv,
           ParseResponse \/ VerifyTier1 \/ DetectConflictHeuristic \/ VerifyTier2
               \/ JudgeInference \/ DetectUnsupported \/ AssembleResponse
    PROVE  PipelineInv'
  <1> USE DEF PipelineInv, BasicInv, PathInv, Goes, Touches, Fields
  <1>1. CASE ParseResponse
    <2>1. Goes("parse_response", "verify_tier1", {"segs"}) /\ st'.segs = ParseSegments(st.segs)
      BY <1>1 DEF ParseResponse, Node, Step, Edge
    <2>2. BasicInv'
      BY <2>1, ZenonT(60) DEF FieldInv, ContextInv, DirtyInv, OutcomeInv, RecordInv
    <2>b. BesideInv'
      BY <2>1 DEF BesideInv, OutcomeInv, DirtyInv, RecordInv, FieldInv
    <2>3. /\ DOMAIN st'.segs \subseteq Nat /\ IsFiniteSet(DOMAIN st'.segs)
          /\ \A i \in DOMAIN st'.segs : Segment(st'.segs[i]) /\ ~st'.segs[i].pending
      BY <2>1, ParsedSegments DEF SegmentInv
    <2>4. SegmentInv' /\ CitationInv'
      BY <2>1, <2>3 DEF SegmentInv, CitationInv
    <2> QED
      BY <2>2, <2>4, <2>b
  <1>2. CASE VerifyTier1
    <2> DEFINE n == Len(st.contexts)
    <2>1. /\ Goes("verify_tier1", "detect_conflict_heuristic", {"segs"})
          /\ st'.segs = Tier1Filter(st.segs, n)
      BY <1>2 DEF VerifyTier1, NumContexts, Node, Step, Edge
    <2>2. BasicInv'
      BY <2>1, ZenonT(60) DEF FieldInv, ContextInv, DirtyInv, OutcomeInv, RecordInv
    <2>b. BesideInv'
      BY <2>1 DEF BesideInv, OutcomeInv, DirtyInv, RecordInv, FieldInv
    <2>3. DOMAIN st'.segs = DOMAIN st.segs
      BY <2>1 DEF Tier1Filter
    <2>4. ASSUME NEW i \in DOMAIN st.segs
          PROVE  /\ Segment(st'.segs[i]) /\ ~st'.segs[i].pending
                 /\ InRange(st.segs[i], Len(st.contexts))'
      <3>1. Segment(st.segs[i]) /\ ~st.segs[i].pending
        BY <2>1 DEF SegmentInv
      <3>2. /\ Segment(st'.segs[i]) /\ st'.segs[i].pending = st.segs[i].pending
            /\ \A c \in Cited(st'.segs[i]) : c \in 1 .. n
        BY <2>1, <3>1, FilteredSegment
      <3> QED
        BY <2>1, <3>1, <3>2 DEF InRange
    <2>5. SegmentInv' /\ CitationInv'
      BY <2>1, <2>3, <2>4 DEF SegmentInv, CitationInv
    <2> QED
      BY <2>2, <2>5, <2>b
  <1>3. CASE DetectConflictHeuristic
    <2> DEFINE n == Len(st.contexts)
    <2>0. PICK readings :
             /\ Node("detect_conflict_heuristic",
                     [st EXCEPT !.segs = [i \in DOMAIN st.segs |->
                         DetectInSegment(st.segs[i], n, readings)]])
             /\ UNCHANGED calls
      BY <1>3 DEF DetectConflictHeuristic, NumContexts
    <2>1. /\ Goes("detect_conflict_heuristic", "verify_tier2", {"segs"})
          /\ st'.segs = [i \in DOMAIN st.segs |-> DetectInSegment(st.segs[i], n, readings)]
          /\ UNCHANGED calls
      BY <2>0 DEF Node, Step, Edge
    <2>2. BasicInv'
      BY <2>1, ZenonT(60) DEF FieldInv, ContextInv, DirtyInv, OutcomeInv, RecordInv
    <2>b. BesideInv'
      BY <2>1 DEF BesideInv, OutcomeInv, DirtyInv, RecordInv, FieldInv
    <2>3. ASSUME NEW i \in DOMAIN st.segs
          PROVE  /\ Segment(st'.segs[i]) /\ ~st'.segs[i].pending
                 /\ InRange(st.segs[i], Len(st.contexts))'
      <3>1. Segment(st.segs[i]) /\ ~st.segs[i].pending /\ InRange(st.segs[i], n)
        BY <2>1 DEF SegmentInv
      <3>2. st'.segs[i] = DetectInSegment(st.segs[i], n, readings)
        BY <2>1
      <3>3. /\ Segment(st'.segs[i]) /\ st'.segs[i].pending = st.segs[i].pending
            /\ st'.segs[i].cites = st.segs[i].cites
        BY <3>1, <3>2, DetectedSegment
      <3> QED
        BY <2>1, <3>1, <3>3 DEF InRange, Cited
    <2>4. SegmentInv' /\ CitationInv'
      BY <2>1, <2>3 DEF SegmentInv, CitationInv
    <2> QED
      BY <2>2, <2>4, <2>b
  <1>4. CASE VerifyTier2
    <2>1. ASSUME NEW sims \in [DOMAIN st.segs -> Similarities],
                 Node("verify_tier2",
                      [st EXCEPT !.sims = sims,
                                 !.segs = [i \in DOMAIN st.segs |->
                                     Tier2Classify(st.segs[i], sims[i], st.cfg.judge)]])
          PROVE  PipelineInv'
      <3> DEFINE new == [i \in DOMAIN st.segs |->
                            Tier2Classify(st.segs[i], sims[i], st.cfg.judge)]
      <3>1. /\ Goes("verify_tier2", "judge_inference", {"segs", "sims"})
            /\ st'.segs = new /\ st'.sims = sims
        BY <2>1 DEF Node, Step, Edge
      <3>2. BasicInv'
        BY <3>1, ZenonT(60) DEF FieldInv, ContextInv, DirtyInv, OutcomeInv, RecordInv
      <3>b. BesideInv'
        BY <3>1 DEF BesideInv, OutcomeInv, DirtyInv, RecordInv, FieldInv
      <3>3. ASSUME NEW i \in DOMAIN st.segs
            PROVE  /\ Segment(new[i])
                   /\ Backed(new[i], sims[i], Len(st.contexts))
                   /\ new[i].type = "inference" /\ ~new[i].pending => Cited(new[i]) = {}
        <4> DEFINE n == Len(st.contexts)
        <4>1. /\ Segment(st.segs[i]) /\ ~st.segs[i].pending
              /\ \A c \in Cited(st.segs[i]) : c \in 1 .. n
          BY <3>1 DEF SegmentInv, InRange
        <4>2. n \in Nat /\ \A k \in 1 .. n : sims[i][k] \in Levels
          <5>1. sims[i] \in Similarities /\ st.contexts \in Seq(Corpus) /\ n <= ContextTopK
            BY <2>1 DEF ContextInv
          <5> QED
            BY <5>1, ChatAssumption
        <4>3. st.cfg.judge \in BOOLEAN
          BY <3>1, ChatAssumption DEF ContextInv, ConfigType
        <4>4. new[i] = Tier2Classify(st.segs[i], sims[i], st.cfg.judge)
          OBVIOUS
        <4> HIDE DEF n, new
        <4> QED
          BY <4>1, <4>2, <4>3, <4>4, ClassifiedSegment DEF Backed, InRange, n
      <3> HIDE DEF new
      <3>4. DOMAIN st'.segs = DOMAIN st.segs
        BY <3>1 DEF new
      <3>5. ASSUME NEW i \in DOMAIN st.segs
            PROVE  /\ Segment(st'.segs[i])
                   /\ Backed(st.segs[i], st.sims[i], Len(st.contexts))'
                   /\ Confirmed(i, st.segs[i], st.judged)'
        BY <3>1, <3>3, SMTT(30) DEF Backed, InRange, Confirmed
      <3>6. SegmentInv' /\ CitationInv'
        BY <3>1, <3>4, <3>5 DEF SegmentInv, CitationInv
      <3> QED
        BY <3>2, <3>6, <3>b
    <2>2. CASE Raise("verify_tier2")
      BY <2>2, RaiseStep DEF Raise
    <2> QED
      BY <1>4, <2>1, <2>2 DEF VerifyTier2
  <1>5. CASE JudgeInference
    <2>1. CASE Pending = {} /\ Node("judge_inference", st) /\ UNCHANGED calls
      <3>1. Goes("judge_inference", "detect_unsupported", {}) /\ UNCHANGED calls
        BY <2>1 DEF Node, Step, Edge
      <3>2. BasicInv'
        BY <3>1, ZenonT(60) DEF FieldInv, ContextInv, DirtyInv, OutcomeInv, RecordInv
      <3>b. BesideInv'
        BY <3>1 DEF BesideInv, OutcomeInv, DirtyInv, RecordInv, FieldInv
      <3>3. \A i \in DOMAIN st.segs : ~st.segs[i].pending
        BY <2>1 DEF Pending
      <3>4. ASSUME NEW i \in DOMAIN st.segs
            PROVE  /\ Segment(st'.segs[i]) /\ ~st'.segs[i].pending
                   /\ Backed(st.segs[i], st.sims[i], Len(st.contexts))'
                   /\ Confirmed(i, st.segs[i], st.judged)'
        BY <3>1, <3>3 DEF SegmentInv
      <3>5. SegmentInv' /\ CitationInv'
        BY <3>1, <3>4 DEF SegmentInv, CitationInv
      <3> QED
        BY <3>2, <3>5, <3>b
    <2> DEFINE i == CHOOSE i \in Pending : \A j \in Pending : i <= j
    <2>2. ASSUME Pending # {}, NEW passes \in BOOLEAN,
                 Step("judge_inference",
                      [st EXCEPT !.segs[i] = ApplyJudgeResult(st.segs[i], passes),
                                 !.judged = IF passes THEN @ \cup {i} ELSE @],
                      "judge_inference")
          PROVE  PipelineInv'
      <3>1. pc = "judge_inference"
        BY <2>2 DEF Step
      <3>2. i \in Pending
        BY <2>2, <3>1, FirstPosition DEF Pending, SegmentInv
      <3> HIDE DEF i
      <3>3. /\ Goes("judge_inference", "judge_inference", {"segs", "judged"})
            /\ st'.segs = [st.segs EXCEPT ![i] = ApplyJudgeResult(st.segs[i], passes)]
            /\ st'.judged = IF passes THEN st.judged \cup {i} ELSE st.judged
        BY <2>2 DEF Step
      <3>4. BasicInv'
        BY <3>3, ZenonT(60) DEF FieldInv, ContextInv, DirtyInv, OutcomeInv, RecordInv
      <3>b. BesideInv'
        BY <3>3 DEF BesideInv, OutcomeInv, DirtyInv, RecordInv, FieldInv
      <3>5. i \in DOMAIN st.segs /\ DOMAIN st'.segs = DOMAIN st.segs
        BY <3>2, <3>3 DEF Pending
      <3> DEFINE old == st.segs[i]
                 new == ApplyJudgeResult(old, passes)
                 sim == st.sims[i]
                 n == Len(st.contexts)
      <3>6. /\ Segment(new) /\ Backed(new, sim, n)
            /\ new.type = "inference" =>
                  \A c \in Cited(new) : passes /\ new.meta[c].level = "medium"
        <4>1. Segment(old) /\ Backed(old, sim, n)
          BY <3>1, <3>5 DEF SegmentInv
        <4>2. new = ApplyJudgeResult(old, passes) /\ passes \in BOOLEAN
          BY <2>2
        <4> HIDE DEF PipelineInv, old, sim, n, new
        <4> QED
          BY <4>1, <4>2, JudgedIsBacked
      <3>7. /\ st'.segs[i] = new /\ st'.sims = st.sims /\ Len(st'.contexts) = n
            /\ \A j \in DOMAIN st.segs : j # i => st'.segs[j] = st.segs[j]
            /\ st.judged \subseteq st'.judged /\ (passes => i \in st'.judged)
        BY <3>3, <3>5
      <3> HIDE DEF old, new, sim, n
      <3>8. Confirmed(i, new, st'.judged)
        BY <3>6, <3>7 DEF Confirmed
      <3>9. ASSUME NEW j \in DOMAIN st.segs, j # i
            PROVE  /\ Segment(st'.segs[j]) /\ Backed(st'.segs[j], st'.sims[j], n)
                   /\ Confirmed(j, st'.segs[j], st'.judged)
        <4>1. /\ Segment(st.segs[j]) /\ Backed(st.segs[j], st.sims[j], n)
              /\ Confirmed(j, st.segs[j], st.judged)
          BY <3>1 DEF SegmentInv, n
        <4>2. Confirmed(j, st.segs[j], st'.judged)
          BY <3>7, <4>1 DEF Confirmed
        <4> QED
          BY <3>7, <3>9, <4>1, <4>2
      <3>10. ASSUME NEW j \in DOMAIN st'.segs
             PROVE  /\ Segment(st'.segs[j]) /\ Backed(st'.segs[j], st'.sims[j], Len(st'.contexts))
                    /\ Confirmed(j, st'.segs[j], st'.judged)
        BY <3>5, <3>6, <3>7, <3>8, <3>9 DEF sim
      <3>11. DOMAIN st'.segs \subseteq Nat /\ IsFiniteSet(DOMAIN st'.segs)
        BY <3>1, <3>5 DEF SegmentInv
      <3>12. SegmentInv'
        BY <3>3, <3>10, <3>11 DEF SegmentInv
      <3>13. CitationInv'
        BY <3>3 DEF CitationInv
      <3> QED
        BY <3>4, <3>12, <3>13, <3>b
    <2>3. CASE Raise("judge_inference")
      BY <2>3, RaiseStep DEF Raise
    <2> QED
      BY <1>5, <2>1, <2>2, <2>3 DEF JudgeInference
  <1>6. CASE DetectUnsupported
    <2>1. Goes("detect_unsupported", "assemble_response", {}) /\ UNCHANGED calls
      BY <1>6 DEF DetectUnsupported, Node, Step, Edge
    <2>2. BasicInv'
      BY <2>1 DEF FieldInv, ContextInv, DirtyInv, OutcomeInv, RecordInv
    <2>b. BesideInv'
      BY <2>1 DEF BesideInv, OutcomeInv, DirtyInv, RecordInv, FieldInv
    <2>3. SegmentInv' /\ CitationInv'
      BY <2>1 DEF SegmentInv, CitationInv
    <2> QED
      BY <2>2, <2>3, <2>b
  <1>7. CASE AssembleResponse
    <2> DEFINE n == Len(st.contexts)
    <2>1. /\ Goes("assemble_response", "mask_response_pii", {"citations", "text", "dirty", "keptDirty"})
          /\ st'.citations = AssembleCitations(st.segs, n)
          /\ st'.text = IF st.segs = <<>> THEN "" ELSE "generated"
          /\ st'.dirty = (st.segs # <<>> /\ st.segsDirty)
          /\ st'.keptDirty = (st.segs # <<>> /\ st.segsDirty)
      BY <1>7 DEF AssembleResponse, NumContexts, Node, Step, Edge
    <2>2. st'.citations \subseteq CitationType
      <3> SUFFICES ASSUME NEW c \in AssembleCitations(st.segs, n)
                   PROVE  c \in CitationType
        BY <2>1, ZenonT(120)
      <3>1. PICK i \in DOMAIN st.segs : \E k \in InRangePositions(st.segs[i], n) :
                c = CitationOf(st.segs, i, k)
        BY CitationsOfSegments
      <3>2. PICK k \in InRangePositions(st.segs[i], n) : c = CitationOf(st.segs, i, k)
        BY <3>1
      <3> DEFINE seg == st.segs[i]
      <3>3. Segment(seg) /\ Backed(seg, st.sims[i], n) /\ i \in Nat
        BY <2>1 DEF SegmentInv
      <3>4. k \in DOMAIN seg.cites /\ seg.cites[k] \in Cited(seg)
        BY DEF InRangePositions, Cited, ToSet
      <3>5. /\ k \in Nat /\ seg.cites[k] \in Nat /\ seg.type \in Kinds
            /\ seg.meta[seg.cites[k]].level \in Levels
            /\ seg.meta[seg.cites[k]].verified \in BOOLEAN
        BY <3>3, <3>4 DEF Segment, Backed, InRange
      <3> QED
        BY <3>2, <3>3, <3>5 DEF CitationOf, CitationType
    <2>3. BasicInv'
      BY <2>1, <2>2, ZenonT(120) DEF FieldInv, ContextInv, DirtyInv, OutcomeInv, RecordInv
    <2>b. BesideInv'
      BY <2>1, <2>2 DEF BesideInv, OutcomeInv, DirtyInv, RecordInv, FieldInv
    <2>4. SegmentInv'
      BY <2>1 DEF SegmentInv
    <2>5. CitationInv'
      BY <2>1 DEF CitationInv
    <2> QED
      BY <2>3, <2>4, <2>5, <2>b
  <1> QED
    BY <1>1, <1>2, <1>3, <1>4, <1>5, <1>6, <1>7

-----------------------------------------------------------------------------
(* Recording and answering.                                                *)

\* The payload of a row has the type of a row.
LEMMA RowIsTyped ==
    ASSUME FieldInv
    PROVE  LogRow(st) \in LogType
  <1>1. (IF st.storage = "mask" THEN "masked" ELSE "raw") \in {"masked", "raw"}
    OBVIOUS
  <1>2. /\ st.text \in Texts /\ st.dirty \in BOOLEAN /\ st.fallback \in Reasons \cup {None}
        /\ st.citations \in SUBSET CitationType /\ st.grounding \in Groundings
        /\ st.rewritten \in Rewrites /\ st.keptDirty \in BOOLEAN
    BY DEF FieldInv
  <1> HIDE DEF Texts, Reasons, Groundings, Rewrites
  <1> QED
    BY <1>1, <1>2 DEF LogRow, LogType

\* Gate 2 lets nothing pass with too few verified citations.
LEMMA PassedIsVerified ==
    ASSUME NEW segs, NEW citations, NEW conf, IsFiniteSet(citations)
    PROVE  /\ EvaluateGate2(segs, citations, conf) \in
                 {"passed", "below_min_verified_count", "above_max_unsupported_ratio",
                  "below_min_confidence"}
           /\ EvaluateGate2(segs, citations, conf) = "passed" =>
                 VerifiedCount(citations) >= MinVerifiedCount
  <1>1. VerifiedCount(citations) \in Nat
    <2>1. IsFiniteSet({c \in citations : c.verified})
      BY FS_Subset
    <2> QED
      BY <2>1, FS_CardinalityType DEF VerifiedCount
  <1> DEFINE few == VerifiedCount(citations) < MinVerifiedCount
  <1>2. ~few => VerifiedCount(citations) >= MinVerifiedCount
    BY <1>1, ThresholdsAreNaturals
  <1>3. EvaluateGate2(segs, citations, conf) = "passed" => ~few
    BY DEF EvaluateGate2
  <1>4. EvaluateGate2(segs, citations, conf) \in
           {"passed", "below_min_verified_count", "above_max_unsupported_ratio",
            "below_min_confidence"}
    BY DEF EvaluateGate2
  <1> QED
    BY <1>2, <1>3, <1>4

\* Whatever the citations are, gate 2 gives a verdict.
LEMMA VerdictOfGate2 ==
    ASSUME NEW segs, NEW citations, NEW conf
    PROVE  EvaluateGate2(segs, citations, conf) \in
               {"passed", "below_min_verified_count", "above_max_unsupported_ratio",
                "below_min_confidence"}
  BY DEF EvaluateGate2

\* Masking, the second gate, the fallback text, the row and the response.
LEMMA RecordingStep ==
    ASSUME PipelineInv,
           MaskResponsePii \/ Confidence \/ Gate2Node \/ Fallback \/ SaveChatLog \/ Respond
    PROVE  PipelineInv'
  <1> USE DEF PipelineInv, BasicInv, PathInv, Goes, Touches, Fields
  <1>1. CASE MaskResponsePii
    <2>1. /\ Goes("mask_response_pii",
                  IF st.grounding = "grounded" THEN "compute_confidence" ELSE "save_chat_log",
                  {"dirty"})
          /\ st'.dirty = IF st.text = "" \/ ~st.cfg.mask THEN st.dirty ELSE FALSE
          /\ UNCHANGED calls
      BY <1>1 DEF MaskResponsePii, Step
    <2>2. st'.dirty \in BOOLEAN /\ (st'.cfg.mask => ~st'.dirty)
      BY <2>1 DEF FieldInv, DirtyInv
    <2>3. BasicInv'
      BY <2>1, <2>2, ZenonT(120) DEF FieldInv, ContextInv, DirtyInv, OutcomeInv, RecordInv
    <2>b. BesideInv'
      BY <2>1, <2>2 DEF BesideInv, OutcomeInv, DirtyInv, RecordInv, FieldInv
    <2>4. SegmentInv' /\ CitationInv'
      BY <2>1, ZenonT(120) DEF SegmentInv, CitationInv
    <2> QED
      BY <2>3, <2>4, <2>b
  <1>2. CASE Confidence
    <2>1. Goes("compute_confidence", "gate_2", {"conf"}) /\ UNCHANGED calls
      BY <1>2 DEF Confidence, Node, Step, Edge
    <2>2. BasicInv'
      BY <2>1, ZenonT(60) DEF FieldInv, ContextInv, DirtyInv, OutcomeInv, RecordInv
    <2>b. BesideInv'
      BY <2>1 DEF BesideInv, OutcomeInv, DirtyInv, RecordInv, FieldInv
    <2>3. SegmentInv' /\ CitationInv'
      BY <2>1 DEF SegmentInv, CitationInv
    <2> QED
      BY <2>2, <2>3, <2>b
  <1>3. CASE Gate2Node
    <2> DEFINE verdict == EvaluateGate2(st.segs, st.citations, st.conf)
    <2>1. CASE verdict = "passed"
      <3>1. Goes("gate_2", "save_chat_log", {}) /\ UNCHANGED calls
        BY <1>3, <2>1 DEF Gate2Node, Step
      <3>2. BasicInv'
        BY <3>1, ZenonT(60) DEF FieldInv, ContextInv, DirtyInv, OutcomeInv, RecordInv
      <3>b. BesideInv'
        BY <3>1 DEF BesideInv, OutcomeInv, DirtyInv, RecordInv, FieldInv
      <3>3. ASSUME st.citations = AssembleCitations(st.segs, Len(st.contexts))
            PROVE  VerifiedCount(st.citations) >= MinVerifiedCount
        <4>1. /\ IsFiniteSet(DOMAIN st.segs)
              /\ \A i \in DOMAIN st.segs : IsFiniteSet(DOMAIN st.segs[i].cites)
          BY <3>1 DEF SegmentInv, Segment
        <4>2. IsFiniteSet(st.citations)
          BY <3>3, <4>1, CitationsAreFinite
        <4> QED
          BY <2>1, <4>2, PassedIsVerified
      <3>4. SegmentInv'
        BY <3>1 DEF SegmentInv
      <3>5. CitationInv'
        BY <3>1, <3>3 DEF CitationInv
      <3> QED
        BY <3>2, <3>4, <3>5, <3>b
    <2>2. CASE verdict # "passed"
      <3>1. Goes("gate_2", "fallback", {"fallback"}) /\ st'.fallback = verdict /\ UNCHANGED calls
        BY <1>3, <2>2 DEF Gate2Node, Step
      <3>2. st'.fallback \in {"below_min_verified_count", "above_max_unsupported_ratio",
                              "below_min_confidence"}
        BY <2>2, <3>1, VerdictOfGate2
      <3>3. BasicInv'
        BY <3>1, <3>2, ChatAssumption, ZenonT(60) DEF FieldInv, ContextInv, DirtyInv, OutcomeInv, RecordInv
      <3>b. BesideInv'
        BY <3>1, <3>2, ChatAssumption DEF BesideInv, OutcomeInv, DirtyInv, RecordInv, FieldInv
      <3>4. SegmentInv' /\ CitationInv'
        BY <3>1 DEF SegmentInv, CitationInv
      <3> QED
        BY <3>3, <3>4, <3>b
    <2> QED
      BY <2>1, <2>2
  <1>4. CASE Fallback
    <2>1. /\ Goes("fallback", "save_chat_log", {"text", "dirty", "segs", "segsDirty"})
          /\ st'.text = "refusal" /\ st'.dirty = FALSE /\ st'.segs = <<>>
          /\ st'.segsDirty = FALSE /\ UNCHANGED calls
      BY <1>4 DEF Fallback, Node, Step, Edge
    <2>2. BasicInv'
      BY <2>1, ZenonT(120) DEF FieldInv, ContextInv, DirtyInv, OutcomeInv, RecordInv
    <2>b. BesideInv'
      BY <2>1 DEF BesideInv, OutcomeInv, DirtyInv, RecordInv, FieldInv
    <2>3. SegmentInv'
      BY <2>1, NoSegments DEF SegmentInv
    <2>4. CitationInv'
      BY <2>1 DEF OutcomeInv, CitationInv
    <2> QED
      BY <2>2, <2>3, <2>4, <2>b
  <1>5. CASE SaveChatLog
    <2>1. /\ pc = "save_chat_log" /\ pc' = "respond" /\ UNCHANGED <<st, reply, calls>>
          /\ WriteLog(LogRow(st))
      BY <1>5 DEF SaveChatLog
    <2>2. PathInv' /\ FieldInv' /\ ContextInv' /\ DirtyInv' /\ OutcomeInv'
      <3>1. PathInv' /\ FieldInv'
        BY <2>1, ZenonT(120) DEF FieldInv
      <3>2. ContextInv'
        BY <2>1 DEF ContextInv
      <3>3. DirtyInv'
        BY <2>1 DEF DirtyInv
      <3>4. OutcomeInv'
        BY <2>1 DEF OutcomeInv
      <3> QED
        BY <3>1, <3>2, <3>3, <3>4
    <2>3. RecordInv'
      <3>1. LogRow(st) \in LogType /\ letters = 0 /\ log = None
        BY <2>1, RowIsTyped DEF RecordInv
      <3>2. LogRow(st)' = LogRow(st)
        BY <2>1 DEF LogRow
      <3> QED
        BY <2>1, <3>1, <3>2 DEF RecordInv, WriteLog
    <2>4. SegmentInv' /\ CitationInv'
      BY <2>1 DEF SegmentInv, CitationInv
    <2>5. BesideInv'
      <3>1. LogRow(st)' = LogRow(st)
        BY <2>1 DEF LogRow
      <3> QED
        BY <2>1, <2>3, <3>1 DEF BesideInv, RecordInv
    <2> QED
      BY <2>2, <2>3, <2>4, <2>5
  <1>6. CASE Respond
    <2>1. /\ pc = "respond" /\ pc' = "done" /\ UNCHANGED <<st, log, letters, calls>>
          /\ reply' = Response(st)
      BY <1>6 DEF Respond
    <2>2. PathInv' /\ FieldInv' /\ ContextInv' /\ DirtyInv' /\ OutcomeInv'
      <3>1. PathInv' /\ FieldInv'
        BY <2>1, ZenonT(120) DEF FieldInv
      <3>2. ContextInv'
        BY <2>1 DEF ContextInv
      <3>3. DirtyInv'
        BY <2>1 DEF DirtyInv
      <3>4. OutcomeInv'
        BY <2>1 DEF OutcomeInv
      <3> QED
        BY <3>1, <3>2, <3>3, <3>4
    <2>3. RecordInv'
      <3>1. LogRow(st)' = LogRow(st) /\ Response(st)' = Response(st)
        BY <2>1 DEF LogRow, Response
      <3> QED
        BY <2>1, <3>1 DEF RecordInv
    <2>4. SegmentInv' /\ CitationInv'
      BY <2>1 DEF SegmentInv, CitationInv
    <2>5. BesideInv'
      <3>1. LogRow(st)' = LogRow(st)
        BY <2>1 DEF LogRow
      <3> QED
        BY <2>1, <3>1 DEF BesideInv
    <2> QED
      BY <2>2, <2>3, <2>4, <2>5
  <1> QED
    BY <1>1, <1>2, <1>3, <1>4, <1>5, <1>6

-----------------------------------------------------------------------------
(* Streaming.                                                              *)

\* One transaction or a dead letter, and none before.
LEMMA RecordedOnce ==
    ASSUME log = None, letters = 0, WriteLog(LogRow(st')), LogRow(st') \in LogType,
           pc' \in Emitting
    PROVE  RecordInv'
  <1>1. \/ log' = LogRow(st') /\ letters' = 0
        \/ log' = None /\ letters' = 1
    BY DEF WriteLog
  <1>2. letters' \in 0 .. 1 /\ log' \in LogType \cup {None} /\ (log' = None \/ letters' = 0)
    BY <1>1
  <1>3. pc' \notin {"respond", "done", "raised"}
    OBVIOUS
  <1> QED
    BY <1>1, <1>2, <1>3 DEF RecordInv

\* _save_log: what a stream has come to is stored, or its loss counted.
LEMMA StreamSaveStep ==
    ASSUME PipelineInv, pc \in {"stream_pii", "stream_route", "stream_token"}, pc' \in Emitting,
           Touches({"storage", "grounding", "fallback", "text", "dirty", "type", "model", "lora"}),
           WriteLog(LogRow(st')), UNCHANGED reply,
           st'.text \in Texts, st'.dirty \in BOOLEAN, st'.grounding = "streaming",
           st'.fallback \in Reasons \cup {None},
           pc' = "emit_fallback" =>
               st'.fallback \in {"input_pii_blocked", "routing_refusal"} /\ ~st'.dirty,
           pc' = "emit_error" => st'.fallback = "llm_error",
           pc' = "emit_complete" => st'.fallback = None /\ (st'.cfg.mask => ~st'.dirty),
           st'.fallback = "input_pii_blocked" => calls' = {},
           st'.fallback = "routing_refusal" => calls' = {"classify"}
    PROVE  PipelineInv'
  <1> USE DEF PipelineInv, BasicInv, PathInv, Touches, Fields
  <1>0. st'.segs = st.segs /\ st.segs = <<>>
    BY DEF SegmentInv
  <1>1. PathInv'
    OBVIOUS
  <1>2. FieldInv'
    BY DEF FieldInv
  <1>3. ContextInv'
    BY DEF ContextInv
  <1>4. DirtyInv'
    BY DEF DirtyInv
  <1>5. OutcomeInv'
    BY ChatAssumption DEF OutcomeInv
  <1>6. RecordInv'
    <2>1. log = None /\ letters = 0
      BY DEF RecordInv
    <2>2. LogRow(st') \in LogType
      <3>1. (IF st'.storage = "mask" THEN "masked" ELSE "raw") \in {"masked", "raw"}
        OBVIOUS
      <3> HIDE DEF PipelineInv
      <3> QED
        BY <1>2, <3>1 DEF FieldInv, LogRow, LogType
    <2>3. pc' \notin {"respond", "done", "raised"} /\ pc' \in Emitting
      OBVIOUS
    <2> HIDE DEF PipelineInv, Touches
    <2> QED
      BY <2>1, <2>2, <2>3, RecordedOnce
  <1>7. SegmentInv' /\ CitationInv'
    BY <1>0 DEF SegmentInv, CitationInv
  <1>8. BesideInv'
    <2>1. log' # None => log' = LogRow(st')
      BY DEF WriteLog, RecordInv
    <2>2. st'.rewritten = "none" /\ ~st'.keptDirty
      BY ZenonT(60) DEF BesideInv
    <2>3. st'.fallback = "input_pii_blocked" => ~st'.dirty
      BY ChatAssumption
    <2>4. st'.grounding # "assessment"
      OBVIOUS
    <2>5. LogRow(st)' = LogRow(st')
      BY DEF LogRow
    <2> QED
      BY <2>1, <2>2, <2>3, <2>4, <2>5 DEF BesideInv
  <1> QED
    BY <1>1, <1>2, <1>3, <1>4, <1>5, <1>6, <1>7, <1>8

\* The steps of the generator behind a stream.
LEMMA StreamingStep ==
    ASSUME PipelineInv,
           StreamPii \/ StreamRoute \/ StreamToken \/ StreamFail \/ StreamDone \/ StreamEmit
    PROVE  PipelineInv'
  <1> USE DEF PipelineInv, BasicInv, PathInv, Goes, Touches, Fields
  <1>1. CASE StreamPii
    <2>1. CASE Blocked(st.pii)
      <3> DEFINE s == [st EXCEPT !.storage = StoragePolicy(st.cfg, st.plainOk),
                                 !.grounding = "streaming"]
      <3>0. /\ StreamSave("stream_pii", [s EXCEPT !.fallback = "input_pii_blocked",
                                                  !.text = "refusal"], "emit_fallback")
            /\ UNCHANGED calls
        BY <1>1, <2>1, Zenon DEF StreamPii
      <3>1. /\ pc = "stream_pii" /\ pc' = "emit_fallback" /\ UNCHANGED <<reply, calls>>
            /\ Touches({"storage", "grounding", "fallback", "text"})
            /\ st'.grounding = "streaming" /\ st'.fallback = "input_pii_blocked"
            /\ st'.text = "refusal"
            /\ WriteLog(LogRow(st'))
        BY <3>0 DEF StreamSave, LogRow, WriteLog
      <3>2. calls = {} /\ ~st.dirty /\ st.dirty \in BOOLEAN
        BY <3>1 DEF OutcomeInv, DirtyInv, FieldInv
      <3>3. Touches({"storage", "grounding", "fallback", "text", "dirty", "type", "model", "lora"})
        BY <3>1
      <3> HIDE DEF PipelineInv, Touches
      <3> QED
        BY <3>1, <3>2, <3>3, StreamSaveStep DEF Touches
    <2>2. CASE ~Blocked(st.pii)
      <3>0. /\ Stream("stream_pii", [st EXCEPT !.storage = StoragePolicy(st.cfg, st.plainOk),
                                               !.grounding = "streaming"], "stream_route")
            /\ UNCHANGED calls
        BY <1>1, <2>2, Zenon DEF StreamPii
      <3>1. /\ Goes("stream_pii", "stream_route", {"storage", "grounding"}) /\ UNCHANGED calls
            /\ st'.grounding = "streaming"
        BY <3>0 DEF Stream, Step
      <3>2. BasicInv'
        BY <3>1, ZenonT(120) DEF FieldInv, ContextInv, DirtyInv, OutcomeInv, RecordInv
      <3>b. BesideInv'
        BY <3>1 DEF BesideInv, OutcomeInv, DirtyInv, RecordInv, FieldInv
      <3>3. SegmentInv' /\ CitationInv'
        BY <3>1 DEF SegmentInv, CitationInv
      <3> QED
        BY <3>2, <3>3, <3>b
    <2> QED
      BY <2>1, <2>2
  <1>2. CASE StreamRoute
    <2>1. PICK type \in Types :
             LET s == Routed([st EXCEPT !.type = type])
             IN  IF s.fallback = None
                 THEN Stream("stream_route", s, "stream_token")
                 ELSE StreamSave("stream_route", [s EXCEPT !.text = "refusal"], "emit_fallback")
      BY <1>2 DEF StreamRoute
    <2> DEFINE s == Routed([st EXCEPT !.type = type])
    <2>2. /\ pc = "stream_route" /\ st.fallback = None /\ calls = {}
          /\ calls' = {"classify"} /\ ~st.dirty /\ st.dirty \in BOOLEAN
          /\ st.grounding = "streaming"
      BY <1>2 DEF StreamRoute, Call, OutcomeInv, DirtyInv, FieldInv, BesideInv
    <2>3. /\ DOMAIN s = Fields /\ s.fallback \in {None, "routing_refusal"}
          /\ \A f \in Fields \ {"fallback", "type", "model", "lora"} : s[f] = st[f]
      BY <2>2 DEF Routed, Decide
    <2> HIDE DEF s
    <2>4. CASE s.fallback = None
      <3>1. /\ Goes("stream_route", "stream_token", {"fallback", "type", "model", "lora"})
            /\ st'.fallback = None
        BY <2>1, <2>3, <2>4 DEF Stream, Step, s
      <3>2. BasicInv'
        BY <2>2, <3>1, ChatAssumption, ZenonT(60) DEF FieldInv, ContextInv, DirtyInv, OutcomeInv, RecordInv
      <3>b. BesideInv'
        BY <2>2, <3>1, ChatAssumption DEF BesideInv, OutcomeInv, DirtyInv, RecordInv, FieldInv
      <3>3. SegmentInv' /\ CitationInv'
        BY <3>1 DEF SegmentInv, CitationInv
      <3> QED
        BY <3>2, <3>3, <3>b
    <2>5. CASE s.fallback # None
      <3>1. StreamSave("stream_route", [s EXCEPT !.text = "refusal"], "emit_fallback")
        BY <2>1, <2>5 DEF s
      <3>2. /\ pc' = "emit_fallback" /\ UNCHANGED reply
            /\ st' = [s EXCEPT !.text = "refusal"]
            /\ WriteLog(LogRow(st'))
        BY <3>1 DEF StreamSave, WriteLog, LogRow
      <3>3. /\ Touches({"fallback", "text", "type", "model", "lora"})
            /\ st'.fallback = "routing_refusal" /\ st'.text = "refusal"
        BY <2>3, <2>5, <3>2
      <3>4. Touches({"storage", "grounding", "fallback", "text", "dirty", "type", "model", "lora"})
        BY <3>3
      <3>5. st'.dirty = st.dirty /\ st'.grounding = st.grounding
        BY <3>3
      <3> HIDE DEF PipelineInv, Touches
      <3> QED
        BY <2>2, <3>2, <3>3, <3>4, <3>5, StreamSaveStep
    <2> QED
      BY <2>4, <2>5
  <1>3. CASE StreamToken
    <2>1. /\ pc = "stream_token" /\ UNCHANGED <<pc, log, letters>>
          /\ Touches({"tokens", "text", "dirty"}) /\ st'.text = "tokens"
      BY <1>3 DEF StreamToken
    <2>2. st'.dirty \in BOOLEAN
      BY <1>3 DEF StreamToken, FieldInv
    <2>3. BasicInv'
      BY <2>1, <2>2, ZenonT(120) DEF FieldInv, ContextInv, DirtyInv, OutcomeInv, RecordInv
    <2>b. BesideInv'
      BY <2>1, <2>2, ZenonT(60) DEF BesideInv, OutcomeInv, DirtyInv, RecordInv, FieldInv
    <2>4. SegmentInv' /\ CitationInv'
      BY <2>1 DEF SegmentInv, CitationInv
    <2> QED
      BY <2>3, <2>4, <2>b
  <1>4. CASE StreamFail
    <2>1. /\ pc = "stream_token" /\ pc' = "emit_error" /\ UNCHANGED reply
          /\ Touches({"fallback"}) /\ st'.fallback = "llm_error" /\ WriteLog(LogRow(st'))
      BY <1>4 DEF StreamFail, StreamSave, LogRow, WriteLog
    <2>2. Touches({"storage", "grounding", "fallback", "text", "dirty", "type", "model", "lora"})
      BY <2>1
    <2>3. st'.text \in Texts /\ st'.dirty \in BOOLEAN /\ st'.grounding = "streaming"
      BY <2>1 DEF FieldInv, BesideInv
    <2> HIDE DEF PipelineInv, Touches
    <2> QED
      BY <2>1, <2>2, <2>3, StreamSaveStep
  <1>5. CASE StreamDone
    <2>1. /\ pc = "stream_token" /\ pc' = "emit_complete" /\ UNCHANGED reply
          /\ Touches({"dirty"}) /\ st'.dirty = IF st.cfg.mask THEN FALSE ELSE st.dirty
          /\ WriteLog(LogRow(st'))
      BY <1>5 DEF StreamDone, StreamSave, LogRow, WriteLog
    <2>2. Touches({"storage", "grounding", "fallback", "text", "dirty", "type", "model", "lora"})
      BY <2>1
    <2>3. st'.text \in Texts /\ st'.dirty \in BOOLEAN /\ st'.grounding = "streaming"
      BY <2>1 DEF FieldInv, BesideInv
    <2>4. st'.fallback = None /\ (st'.cfg.mask => ~st'.dirty)
      BY <2>1 DEF OutcomeInv
    <2> HIDE DEF PipelineInv, Touches
    <2> QED
      BY <2>1, <2>2, <2>3, <2>4, ChatAssumption, StreamSaveStep
  <1>6. CASE StreamEmit
    <2>1. /\ pc \in Emitting /\ pc' = "done" /\ UNCHANGED <<st, log, letters, calls>>
          /\ reply' = Event(EventOf[pc])
      BY <1>6 DEF StreamEmit, EventOf
    <2>2. PathInv' /\ FieldInv' /\ ContextInv' /\ DirtyInv' /\ OutcomeInv'
      <3>1. PathInv' /\ FieldInv'
        BY <2>1, ZenonT(120) DEF FieldInv
      <3>2. ContextInv'
        BY <2>1 DEF ContextInv
      <3>3. DirtyInv'
        BY <2>1 DEF DirtyInv
      <3>4. OutcomeInv'
        BY <2>1 DEF OutcomeInv
      <3> QED
        BY <3>1, <3>2, <3>3, <3>4
    <2>3. RecordInv'
      <3>1. LogRow(st)' = LogRow(st)
        BY <2>1 DEF LogRow
      <3>2. /\ reply'.kind \in {"fallback", "error", "complete"}
            /\ reply'.status = IF st.fallback = None THEN "success" ELSE "fallback"
        BY <2>1 DEF Event, EventOf, OutcomeInv
      <3> QED
        BY <2>1, <3>1, <3>2 DEF RecordInv
    <2>4. SegmentInv' /\ CitationInv'
      BY <2>1, NoSegments DEF SegmentInv, CitationInv
    <2>5. BesideInv'
      <3>1. LogRow(st)' = LogRow(st)
        BY <2>1 DEF LogRow
      <3>2. reply'.beside = FALSE
        BY <2>1 DEF Event
      <3> QED
        BY <2>1, <3>1, <3>2 DEF BesideInv
    <2> QED
      BY <2>2, <2>3, <2>4, <2>5
  <1> QED
    BY <1>1, <1>2, <1>3, <1>4, <1>5, <1>6

-----------------------------------------------------------------------------
(* The invariant.                                                          *)

\* No figure has been asked for.
LEMMA NoFigures ==
    ASSUME NEW f, f = [want |-> 0, got |-> 0, pass |-> 1, subj |-> 1, texts |-> 0]
    PROVE  f \in FigureCount /\ f.got = 0 /\ f.got <= f.want
  <1>1. 0 \in Nat /\ 1 \in Nat /\ f.got = 0 /\ f.want = 0
    OBVIOUS
  <1>2. f \in FigureCount
    BY <1>1 DEF FigureCount
  <1> QED
    BY <1>1, <1>2

\* A turn that has not begun, or has only just: nothing retrieved, written or stored.
Fresh ==
    /\ DOMAIN st = Fields /\ log = None /\ letters = 0 /\ calls = {}
    /\ st.mode \in {"structured", "streaming"}
    /\ st.text = "" /\ st.dirty = FALSE /\ st.segsDirty = FALSE
    /\ st.keptDirty = FALSE /\ st.rewritten = "none"
    /\ st.fallback = None /\ st.grounding = "grounded" /\ st.citations = {}
    /\ st.chain = 0 /\ st.contexts = <<>> /\ st.segs = <<>>
    /\ st.figs = [want |-> 0, got |-> 0, pass |-> 1, subj |-> 1, texts |-> 0]
    /\ pc \in Unloaded /\ (pc = "tenant_resolver" => st.mode = "structured")

\* Such a turn satisfies the invariant.
LEMMA FreshTurn ==
    ASSUME Fresh
    PROVE  PipelineInv
  <1>1. <<>> \in Seq(Corpus) /\ Len(<<>>) = 0 /\ DOMAIN <<>> = {}
    OBVIOUS
  <1>2. PathInv
    BY DEF Fresh, PathInv
  <1>3. FieldInv
    <2>1. st.figs \in FigureCount /\ st.figs.got = 0 /\ st.figs.got <= st.figs.want
      <3>1. st.figs = [want |-> 0, got |-> 0, pass |-> 1, subj |-> 1, texts |-> 0]
        BY DEF Fresh
      <3> HIDE DEF Fresh
      <3> QED
        BY <3>1, NoFigures
    <2>2. /\ st.text = "" /\ st.fallback = None /\ st.grounding = "grounded"
          /\ st.citations = {} /\ st.chain = 0 /\ st.rewritten = "none"
      BY DEF Fresh
    <2>3. st.dirty \in BOOLEAN /\ st.segsDirty \in BOOLEAN /\ st.keptDirty \in BOOLEAN
      BY Zenon DEF Fresh
    <2> HIDE DEF Fresh
    <2>4. /\ st.text \in Texts /\ st.fallback \in Reasons \cup {None} /\ st.grounding \in Groundings
          /\ st.rewritten \in Rewrites
      BY <2>2
    <2>5. st.citations \subseteq CitationType
      BY <2>2, Zenon
    <2>6. 0 \in 0 .. 3
      OBVIOUS
    <2>7. st.chain \in 0 .. 3
      BY <2>2, <2>6, Zenon
    <2> QED
      BY <2>1, <2>3, <2>4, <2>5, <2>7 DEF FieldInv
  <1>4. ContextInv
    <2>1. Len(st.contexts) = 0 /\ st.contexts \in Seq(Corpus) /\ st.contexts = <<>>
      BY <1>1 DEF Fresh
    <2>2. 0 <= ContextTopK
      BY ChatAssumption
    <2>3. pc \in Unloaded
      BY DEF Fresh
    <2> QED
      BY <2>1, <2>2, <2>3 DEF ContextInv
  <1>5. DirtyInv
    <2>1. pc \in Unloaded /\ ~st.dirty
      BY Zenon DEF Fresh
    <2> QED
      BY <2>1 DEF DirtyInv
  <1>6. OutcomeInv
    <2>1. pc \in Unloaded /\ calls = {} /\ st.fallback = None
      BY DEF Fresh
    <2> QED
      BY <2>1, ChatAssumption DEF OutcomeInv
  <1>7. RecordInv
    <2>1. pc \in Unloaded /\ log = None /\ letters = 0
      BY DEF Fresh
    <2> QED
      BY <2>1 DEF RecordInv
  <1>8. SegmentInv /\ CitationInv
    BY DEF Fresh, SegmentInv, CitationInv
  <1>9. BesideInv
    <2>1. /\ pc \in Unloaded /\ log = None /\ st.rewritten = "none" /\ st.grounding = "grounded"
          /\ st.fallback = None
      BY DEF Fresh
    <2>2. ~st.keptDirty /\ ~st.dirty
      BY Zenon DEF Fresh
    <2> QED
      BY <2>1, <2>2 DEF BesideInv
  <1> QED
    BY <1>2, <1>3, <1>4, <1>5, <1>6, <1>7, <1>8, <1>9 DEF PipelineInv, BasicInv

\* Before the first request.
LEMMA PipelineInit ==
    ASSUME Init
    PROVE  PipelineInv
  <1>1. Fresh
    BY DEF Init, Blank, Fields, Fresh
  <1> QED
    BY <1>1, FreshTurn

\* A request comes in, the client of a stream goes away, the next turn begins.
LEMMA TurnStep ==
    ASSUME PipelineInv,
           \/ \E mode \in {"structured", "streaming"}, pii \in {"clean", "block"} :
                 Chat(mode, pii)
           \/ Disconnect \/ NextTurn
    PROVE  PipelineInv'
  <1>1. ASSUME NEW mode \in {"structured", "streaming"}, NEW pii, Chat(mode, pii)
        PROVE  PipelineInv'
    <2>1. /\ pc = "idle" /\ UNCHANGED <<log, letters, reply, calls>>
          /\ pc' = IF mode = "structured" THEN "tenant_resolver" ELSE "load_tenant_config"
      BY <1>1 DEF Chat
    <2>2. /\ DOMAIN st' = Fields
          /\ st'.mode = mode /\ st'.text = "" /\ st'.dirty = FALSE /\ st'.segsDirty = FALSE
          /\ st'.keptDirty = FALSE /\ st'.rewritten = "none"
          /\ st'.fallback = None /\ st'.grounding = "grounded" /\ st'.citations = {}
          /\ st'.chain = 0 /\ st'.contexts = <<>> /\ st'.segs = <<>>
          /\ st'.figs = [want |-> 0, got |-> 0, pass |-> 1, subj |-> 1, texts |-> 0]
      BY <1>1 DEF Chat, Blank, Fields
    <2>3. calls = {} /\ log = None /\ letters = 0
      BY <2>1 DEF PipelineInv, BasicInv, OutcomeInv, RecordInv
    <2>4. Fresh'
      BY <1>1, <2>1, <2>2, <2>3 DEF Fresh
    <2> QED
      BY <2>4, FreshTurn, PTL
  <1>2. CASE Disconnect
    BY <1>2, RaiseStep DEF Disconnect
  <1>3. CASE NextTurn
    <2>1. Init'
      BY <1>3 DEF NextTurn, Init
    <2> QED
      BY <2>1, PipelineInit, PTL
  <1> QED
    BY <1>1, <1>2, <1>3

\* Nothing happens.
LEMMA PipelineStutter ==
    ASSUME PipelineInv, UNCHANGED vars
    PROVE  PipelineInv'
  <1> USE DEF PipelineInv, BasicInv, vars
  <1>1. PathInv'
    BY DEF PathInv
  <1>2. FieldInv'
    BY ZenonT(120) DEF FieldInv
  <1>3. ContextInv'
    BY DEF ContextInv
  <1>4. DirtyInv'
    BY DEF DirtyInv
  <1>5. OutcomeInv'
    BY DEF OutcomeInv
  <1>6. RecordInv'
    <2>1. LogRow(st)' = LogRow(st) /\ Response(st)' = Response(st)
      BY DEF LogRow, Response
    <2> QED
      BY <2>1 DEF RecordInv
  <1>7. SegmentInv' /\ CitationInv'
    BY DEF SegmentInv, CitationInv
  <1>8. BesideInv'
    <2>1. LogRow(st)' = LogRow(st)
      BY DEF LogRow
    <2> QED
      BY <2>1 DEF BesideInv
  <1> QED
    BY <1>1, <1>2, <1>3, <1>4, <1>5, <1>6, <1>7, <1>8

\* Every step of the pipeline keeps the invariant.
LEMMA PipelineStep ==
    ASSUME PipelineInv, [Next]_vars
    PROVE  PipelineInv'
  <1>1. CASE Structured
    BY <1>1, LoadingStep, GeneratingStep, VerifyingStep, RecordingStep DEF Structured
  <1>2. CASE TenantResolver \/ LoadTenantConfig
    BY <1>2, LoadingStep
  <1>3. CASE Streaming
    BY <1>3, StreamingStep DEF Streaming
  <1>4. CASE UNCHANGED vars
    BY <1>4, PipelineStutter
  <1>5. CASE \/ \E mode \in {"structured", "streaming"}, pii \in {"clean", "block"} :
                   Chat(mode, pii)
             \/ Disconnect \/ NextTurn
    BY <1>5, TurnStep
  <1> QED
    BY <1>1, <1>2, <1>3, <1>4, <1>5 DEF Next, Work

\* The invariant holds throughout.
LEMMA PipelineInvariant == Spec => []PipelineInv
  <1>1. Init => PipelineInv
    BY PipelineInit
  <1>2. PipelineInv /\ [Next]_vars => PipelineInv'
    BY PipelineStep
  <1> QED
    BY <1>1, <1>2, PTL DEF Spec

-----------------------------------------------------------------------------
(* What follows from it.                                                   *)

(* Every variable keeps its type: a row of chat_logs has the type of a row, *)
(* the turn is recorded or counted as lost at most once, the generation    *)
(* chain has three attempts at most and the figure requests never collect  *)
(* more than was asked for.                                                *)
THEOREM PipelineIsTyped == Spec => []TypeOK
  <1>1. PipelineInv => TypeOK
    <2> SUFFICES ASSUME PipelineInv PROVE TypeOK
      OBVIOUS
    <2>1. \A i \in DOMAIN st.contexts : st.contexts[i] \in Corpus
      <3>1. st.contexts \in Seq(Corpus)
        BY DEF PipelineInv, BasicInv, ContextInv
      <3> QED
        BY <3>1
    <2>2. pc \in DOMAIN Edge \cup DOMAIN EventOf
              \cup {"idle", "check_input_pii", "model_router", "gate_1", "gate_2",
                    "mask_response_pii", "collect_figures", "respond", "done", "raised",
                    "stream_pii", "stream_route", "stream_token"}
      BY DEF PipelineInv, BasicInv, PathInv, Edge, EventOf
    <2>3. st.mode \in {"structured", "streaming"} /\ letters \in 0 .. 1
          /\ log \in LogType \cup {None} /\ (log = None \/ letters = 0)
      BY DEF PipelineInv, BasicInv, PathInv, RecordInv
    <2>4. st.grounding \in Groundings /\ st.chain \in 0 .. 3 /\ st.figs.got <= st.figs.want
      BY DEF PipelineInv, BasicInv, FieldInv
    <2> QED
      BY <2>1, <2>2, <2>3, <2>4 DEF TypeOK
  <1> QED
    BY <1>1, PipelineInvariant, PTL

\* A grounded success that was delivered, in terms of the state it was made from.
LEMMA GroundedAnswer ==
    ASSUME PipelineInv, Answered("grounded")
    PROVE  /\ pc = "done" /\ st.mode = "structured" /\ st.fallback = None
           /\ st.grounding = "grounded" /\ reply.citations = st.citations
           /\ st.citations = AssembleCitations(st.segs, Len(st.contexts))
           /\ VerifiedCount(st.citations) >= MinVerifiedCount
  <1>1. pc = "done" /\ reply.kind = "response" /\ reply.status = "success"
        /\ reply.grounding = "grounded"
    BY DEF Answered
  <1>2. st.mode = "structured" /\ reply = Response(st)
    BY <1>1 DEF PipelineInv, BasicInv, RecordInv, PathInv
  <1>3. st.fallback = None /\ st.grounding = "grounded" /\ reply.citations = st.citations
    BY <1>1, <1>2 DEF Response
  <1> QED
    BY <1>1, <1>2, <1>3 DEF PipelineInv, CitationInv

(* A grounded answer that reaches the user passed both gates on evidence:  *)
(* it has min_verified_count verified citations, each names a retrieved    *)
(* chunk that was measured, an inference was confirmed by the judge, and a *)
(* synthesis or a conflict rests on measured chunks only.  This holds for  *)
(* every answer the model may write, every measurement and every verdict.  *)
THEOREM CitationsRestOnEvidence == Spec => []CitationsAreBacked
  <1>1. PipelineInv => CitationsAreBacked
    <2> SUFFICES ASSUME PipelineInv, Answered("grounded")
                 PROVE  /\ Cardinality({c \in reply.citations : c.verified}) >= MinVerifiedCount
                        /\ \A c \in reply.citations :
                             LET measured(k) == st.sims[c.seg][k] \in {"strong", "medium"}
                                 seg == st.segs[c.seg]
                             IN  /\ c.chunk \in 1 .. Len(st.contexts)
                                 /\ c.type # "conflict" => measured(c.chunk)
                                 /\ c.type = "conflict" =>
                                       /\ NumGroups(seg.groups) >= 2
                                       /\ \A g \in ToSet(seg.groups) :
                                             g # {} /\ \A k \in g : measured(k)
                                 /\ c.type = "inference" =>
                                       c.seg \in st.judged /\ c.level = "medium"
                                 /\ c.type = "synthesis" => \A k \in Cited(seg) : measured(k)
      BY DEF CitationsAreBacked
    <2>1. /\ pc = "done" /\ reply.citations = st.citations
          /\ st.citations = AssembleCitations(st.segs, Len(st.contexts))
          /\ VerifiedCount(st.citations) >= MinVerifiedCount
      BY GroundedAnswer
    <2>2. ASSUME NEW c \in reply.citations
          PROVE  LET measured(k) == st.sims[c.seg][k] \in {"strong", "medium"}
                     seg == st.segs[c.seg]
                 IN  /\ c.chunk \in 1 .. Len(st.contexts)
                     /\ c.type # "conflict" => measured(c.chunk)
                     /\ c.type = "conflict" =>
                           /\ NumGroups(seg.groups) >= 2
                           /\ \A g \in ToSet(seg.groups) :
                                 g # {} /\ \A k \in g : measured(k)
                     /\ c.type = "inference" => c.seg \in st.judged /\ c.level = "medium"
                     /\ c.type = "synthesis" => \A k \in Cited(seg) : measured(k)
      <3> DEFINE n == Len(st.contexts)
      <3>1. PICK i \in DOMAIN st.segs : \E k \in InRangePositions(st.segs[i], n) :
                c = CitationOf(st.segs, i, k)
        BY <2>1, CitationsOfSegments
      <3>2. PICK k \in InRangePositions(st.segs[i], n) : c = CitationOf(st.segs, i, k)
        BY <3>1
      <3> DEFINE seg == st.segs[i]
                 sim == st.sims[i]
      <3>3. /\ Segment(seg) /\ Backed(seg, sim, n) /\ Confirmed(i, seg, st.judged)
            /\ ~seg.pending
        BY <2>1 DEF PipelineInv, SegmentInv
      <3>4. /\ c.seg = i /\ c.chunk = seg.cites[k] /\ c.type = seg.type
            /\ c.level = seg.meta[seg.cites[k]].level
        BY <3>2 DEF CitationOf
      <3>5. seg.cites[k] \in 1 .. n /\ seg.cites[k] \in Cited(seg)
        BY DEF InRangePositions, Cited, ToSet
      <3> HIDE DEF n, seg, sim, PipelineInv
      <3>6. /\ seg.type # "conflict" => sim[c.chunk] \in {"strong", "medium"}
            /\ seg.type = "conflict" =>
                  /\ NumGroups(seg.groups) >= 2
                  /\ \A g \in ToSet(seg.groups) :
                        g # {} /\ \A x \in g : sim[x] \in {"strong", "medium"}
            /\ seg.type = "synthesis" => \A x \in Cited(seg) : sim[x] \in {"strong", "medium"}
        BY <3>3, <3>4, <3>5 DEF Backed, Strong
      <3>7. seg.type = "inference" => i \in st.judged /\ c.level = "medium"
        BY <3>3, <3>4, <3>5 DEF Confirmed
      <3> QED
        BY <3>4, <3>5, <3>6, <3>7 DEF n, seg, sim
    <2> QED
      BY <2>1, <2>2 DEF VerifiedCount
  <1> QED
    BY <1>1, PipelineInvariant, PTL

(* The row in chat_logs is the answer the user got: same text, same        *)
(* masking, same outcome, and for a success the same citations.  Only a    *)
(* refusal without any text is stored as empty and delivered with the      *)
(* default text.                                                           *)
THEOREM RowIsTheAnswer == Spec => []RecordedAsAnswered
  <1>1. PipelineInv => RecordedAsAnswered
    <2> SUFFICES ASSUME PipelineInv, pc = "done", log # None, reply.kind = "response"
                 PROVE  /\ \/ log.text = reply.text
                           \/ log.text = "" /\ reply.text = "default" /\ log.fallback # None
                        /\ log.dirty = reply.dirty
                        /\ (log.fallback = None) <=> (reply.status = "success")
                        /\ reply.status = "success" => log.citations = reply.citations
      BY DEF RecordedAsAnswered
    <2>1. log = LogRow(st) /\ reply = Response(st)
      BY DEF PipelineInv, BasicInv, RecordInv, PathInv
    <2> HIDE DEF PipelineInv
    <2> QED
      BY <2>1 DEF LogRow, Response
  <1> QED
    BY <1>1, PipelineInvariant, PTL

(* The two checks of personal data.  A blocked question reaches no model,  *)
(* embedder or index on either path and leaves no rewritten query behind.  *)
(* With response masking on, the text of an answer is delivered and stored *)
(* masked; what stays unmasked beside it, the segments, the claims of the  *)
(* citations and the items of an exam, goes out with a success only.       *)
THEOREM PersonalDataIsChecked == Spec => []PiiChecksHold
  <1>1. PipelineInv => PiiChecksHold
    <2> SUFFICES ASSUME PipelineInv PROVE RefusedReachesNoModel /\ AnswerIsMasked
      BY DEF PiiChecksHold
    <2>1. RefusedReachesNoModel
      <3>1. ASSUME st.fallback = "input_pii_blocked", log # None
            PROVE  log.rewritten = "none" /\ ~log.dirty /\ ~log.beside
        <4>1. log = LogRow(st) /\ st.rewritten = "none" /\ ~st.keptDirty /\ ~st.dirty
          BY <3>1 DEF PipelineInv, BesideInv
        <4> QED
          BY <4>1 DEF LogRow
      <3> QED
        BY <3>1 DEF RefusedReachesNoModel, PipelineInv, BasicInv, OutcomeInv
    <2>2. ASSUME pc = "done", st.cfg.mask, reply.kind = "response"
          PROVE  ~reply.dirty
      <3>1. st.mode = "structured" /\ reply = Response(st) /\ ~st.dirty
        BY <2>2 DEF PipelineInv, BasicInv, RecordInv, PathInv, DirtyInv
      <3> QED
        BY <3>1 DEF Response
    <2>3. ASSUME pc = "done", st.cfg.mask, log # None, st.fallback # "llm_error"
          PROVE  ~log.dirty
      <3>1. log = LogRow(st) /\ ~st.dirty
        BY <2>3 DEF PipelineInv, BasicInv, RecordInv, DirtyInv
      <3> QED
        BY <3>1 DEF LogRow
    <2>4. ASSUME pc = "done", reply.status = "fallback"
          PROVE  ~reply.beside
      <3>1. CASE st.mode = "streaming"
        BY <2>4, <3>1 DEF PipelineInv, BesideInv
      <3>2. CASE st.mode = "structured"
        <4>1. reply = Response(st)
          BY <2>4, <3>2 DEF PipelineInv, BasicInv, RecordInv
        <4>2. st.fallback # None
          BY <2>4, <4>1 DEF Response
        <4>3. st.grounding # "assessment"
          BY <4>2 DEF PipelineInv, BesideInv
        <4> QED
          BY <4>1, <4>2, <4>3 DEF Response
      <3> QED
        BY <3>1, <3>2 DEF PipelineInv, BasicInv, PathInv
    <2> QED
      BY <2>1, <2>2, <2>3, <2>4 DEF AnswerIsMasked
  <1> QED
    BY <1>1, PipelineInvariant, PTL

-----------------------------------------------------------------------------
(* The pipeline implements the chat turn.                                  *)

\* A turn that has no outcome yet, and one whose outcome is recorded
OpenPc == (StructuredPc \cup StreamingPc \cup {"load_tenant_config"}) \ ({"respond"} \cup Emitting)

RecordedPc == {"respond"} \cup Emitting

\* What a step of the pipeline is to the turn.
StepOfTurn ==
    \/ pc \in OpenPc /\ pc' \in OpenPc /\ UNCHANGED <<log, letters>>
    \/ pc = "idle" /\ pc' \in OpenPc /\ UNCHANGED <<log, letters>>
    \/ pc \in OpenPc /\ pc' \in RecordedPc
    \/ pc \in RecordedPc /\ pc' = "done" /\ UNCHANGED <<log, letters>>
    \/ pc \in OpenPc \cup RecordedPc /\ pc' = "raised" /\ UNCHANGED <<log, letters>>
    \/ pc \in {"done", "raised"} /\ pc' = "idle"

\* Every action of the pipeline is one of these.
LEMMA StepsOfTurn ==
    ASSUME Next
    PROVE  StepOfTurn
  <1> USE DEF StepOfTurn, OpenPc, RecordedPc, Node, Step, Raise
  <1>1. CASE TenantResolver \/ LoadTenantConfig \/ CheckInputPii \/ BuildAclFilter
                 \/ ClassifyQuery \/ ModelRouter
    <2>1. CASE TenantResolver
      BY <2>1 DEF TenantResolver, Edge
    <2>2. CASE LoadTenantConfig
      BY <2>2 DEF LoadTenantConfig, Edge
    <2>3. CASE CheckInputPii
      BY <2>3 DEF CheckInputPii
    <2>4. CASE BuildAclFilter
      BY <2>4 DEF BuildAclFilter, Edge
    <2>5. CASE ClassifyQuery
      BY <2>5 DEF ClassifyQuery, Edge
    <2>6. CASE ModelRouter
      BY <2>6 DEF ModelRouter
    <2> QED
      BY <1>1, <2>1, <2>2, <2>3, <2>4, <2>5, <2>6
  <1>2. CASE QueryRewrite \/ RetrieveContext \/ Gate1Node \/ GenerateAnswer
                 \/ GenerateUngrounded \/ Assessment \/ CollectFigures \/ FigureAnswer
    <2>1. CASE QueryRewrite
      BY <2>1 DEF QueryRewrite, Edge
    <2>2. CASE RetrieveContext
      BY <2>2 DEF RetrieveContext, Edge
    <2>3. CASE Gate1Node
      BY <2>3 DEF Gate1Node
    <2>4. CASE GenerateAnswer
      BY <2>4 DEF GenerateAnswer, Edge
    <2>5. CASE GenerateUngrounded
      BY <2>5 DEF GenerateUngrounded, Edge
    <2>6. CASE Assessment
      BY <2>6 DEF Assessment, Edge
    <2>7. CASE CollectFigures
      BY <2>7 DEF CollectFigures
    <2>8. CASE FigureAnswer
      BY <2>8 DEF FigureAnswer, Edge
    <2> QED
      BY <1>2, <2>1, <2>2, <2>3, <2>4, <2>5, <2>6, <2>7, <2>8
  <1>3. CASE ParseResponse \/ VerifyTier1 \/ DetectConflictHeuristic \/ VerifyTier2
                 \/ JudgeInference \/ DetectUnsupported \/ AssembleResponse
    <2>1. CASE ParseResponse
      BY <2>1 DEF ParseResponse, Edge
    <2>2. CASE VerifyTier1
      BY <2>2 DEF VerifyTier1, Edge
    <2>3. CASE DetectConflictHeuristic
      BY <2>3 DEF DetectConflictHeuristic, Edge
    <2>4. CASE VerifyTier2
      BY <2>4 DEF VerifyTier2, Edge
    <2>5. CASE JudgeInference
      BY <2>5 DEF JudgeInference, Edge
    <2>6. CASE DetectUnsupported
      BY <2>6 DEF DetectUnsupported, Edge
    <2>7. CASE AssembleResponse
      BY <2>7 DEF AssembleResponse, Edge
    <2> QED
      BY <1>3, <2>1, <2>2, <2>3, <2>4, <2>5, <2>6, <2>7
  <1>4. CASE MaskResponsePii \/ Confidence \/ Gate2Node \/ Fallback \/ SaveChatLog \/ Respond
    <2>1. CASE MaskResponsePii
      BY <2>1 DEF MaskResponsePii
    <2>2. CASE Confidence
      BY <2>2 DEF Confidence, Edge
    <2>3. CASE Gate2Node
      BY <2>3 DEF Gate2Node
    <2>4. CASE Fallback
      BY <2>4 DEF Fallback, Edge
    <2>5. CASE SaveChatLog \/ Respond
      BY <2>5 DEF SaveChatLog, Respond
    <2> QED
      BY <1>4, <2>1, <2>2, <2>3, <2>4, <2>5
  <1>5. CASE Streaming
    <2>1. CASE StreamPii
      BY <2>1 DEF StreamPii, Stream, StreamSave
    <2>2. CASE StreamRoute
      BY <2>2 DEF StreamRoute, Stream, StreamSave
    <2>3. CASE StreamToken
      BY <2>3 DEF StreamToken
    <2>4. CASE StreamFail \/ StreamDone
      BY <2>4 DEF StreamFail, StreamDone, StreamSave
    <2>5. CASE StreamEmit
      BY <2>5 DEF StreamEmit, EventOf
    <2> QED
      BY <1>5, <2>1, <2>2, <2>3, <2>4, <2>5 DEF Streaming
  <1>6. ASSUME NEW mode, NEW pii, Chat(mode, pii)
        PROVE  StepOfTurn
    BY <1>6 DEF Chat
  <1>7. CASE Disconnect \/ NextTurn
    BY <1>7 DEF Disconnect, NextTurn, EventOf
  <1> HIDE DEF StepOfTurn
  <1> QED
    BY <1>1, <1>2, <1>3, <1>4, <1>5, <1>6, <1>7 DEF Next, Work, Structured

\* The phase, the record and the answer of the turn, as Turn maps them
Phase == CASE pc = "idle" -> "idle"
           [] pc = "done" -> "closed"
           [] pc = "raised" -> "dropped"
           [] pc \in {"respond"} \cup DOMAIN EventOf -> "recorded"
           [] OTHER -> "open"

Record == CASE log # None -> (IF log.fallback = None THEN "success" ELSE "fallback")
            [] letters > 0 -> "lost"
            [] OTHER -> "none"

Answer == IF pc = "done" THEN reply.status ELSE "none"

PhaseIsPc ==
    /\ pc \in OpenPc => Phase = "open" /\ Answer = "none"
    /\ pc \in RecordedPc => Phase = "recorded" /\ Answer = "none"
    /\ pc = "idle" => Phase = "idle" /\ Answer = "none"
    /\ pc = "raised" => Phase = "dropped" /\ Answer = "none"
    /\ pc = "done" => Phase = "closed"

\* Where a turn is, and what that says of its phase.
LEMMA PhaseOfPc == PhaseIsPc
  BY DEF PhaseIsPc, Phase, Answer, OpenPc, RecordedPc, EventOf

RecordIsPc ==
    /\ pc \in OpenPc \cup {"idle"} => Record = "none"
    /\ pc \in RecordedPc => Record \in {"success", "fallback", "lost"}
    /\ pc = "done" => Answer \in {"success", "fallback"} /\ Record \in {Answer, "lost"}

\* What the record of a turn says in each phase.
LEMMA RecordOfPc ==
    ASSUME PipelineInv
    PROVE  RecordIsPc
  <1>1. pc \in OpenPc \cup {"idle"} => Record = "none"
    <2>1. pc \in OpenPc \cup {"idle"} => log = None /\ letters = 0
      BY DEF PipelineInv, BasicInv, RecordInv, OpenPc
    <2> QED
      BY <2>1 DEF Record
  <1>2. pc \in RecordedPc \cup {"done"} =>
           \/ log = LogRow(st) /\ log # None
           \/ log = None /\ letters = 1
    <2>1. LogRow(st) \in LogType
      BY RowIsTyped DEF PipelineInv, BasicInv
    <2>2. LogRow(st) # None
      BY <2>1, ChatAssumption
    <2> QED
      BY <2>2 DEF PipelineInv, BasicInv, RecordInv, RecordedPc
  <1>3. pc \in RecordedPc \cup {"done"} =>
           Record \in {IF st.fallback = None THEN "success" ELSE "fallback", "lost"}
    <2> HIDE DEF PipelineInv
    <2>1. CASE log = LogRow(st) /\ log # None
      BY <2>1 DEF Record, LogRow
    <2>2. CASE log = None /\ letters = 1
      BY <2>2 DEF Record
    <2> QED
      BY <1>2, <2>1, <2>2
  <1>4. pc = "done" => Answer = IF st.fallback = None THEN "success" ELSE "fallback"
    <2>1. ASSUME pc = "done"
          PROVE  reply.status = IF st.fallback = None THEN "success" ELSE "fallback"
      <3>1. CASE st.mode = "structured"
        <4>1. reply = Response(st)
          BY <2>1, <3>1 DEF PipelineInv, BasicInv, RecordInv
        <4> QED
          BY <4>1 DEF Response
      <3>2. CASE st.mode # "structured"
        BY <2>1, <3>2 DEF PipelineInv, BasicInv, RecordInv
      <3> QED
        BY <3>1, <3>2
    <2> QED
      BY <2>1 DEF Answer
  <1> HIDE DEF PipelineInv
  <1> QED
    BY <1>1, <1>3, <1>4 DEF RecordIsPc

\* The steps of the turn, in these terms.
LEMMA TurnInTerms ==
    /\ Turn!turnVars = <<Phase, Record, Answer>>
    /\ Turn!Open <=> Phase = "idle" /\ Phase' = "open" /\ Record' = Record /\ Answer' = Answer
    /\ Turn!Record <=> /\ Phase = "open" /\ Phase' = "recorded" /\ Answer' = Answer
                       /\ Record' \in {"success", "fallback"} \cup {"lost"}
    /\ Turn!Close <=> /\ Phase = "recorded" /\ Phase' = "closed" /\ Record' = Record
                      /\ Answer' \in IF Record = "lost" THEN {"success", "fallback"}
                                     ELSE {Record}
    /\ Turn!Drop <=> /\ Phase \in {"open", "recorded"} /\ Phase' = "dropped"
                     /\ Record' = Record /\ Answer' = Answer
    /\ Turn!NextTurn <=> /\ Phase \in {"closed", "dropped"} /\ Phase' = "idle"
                         /\ Record' = "none" /\ Answer' = "none"
    /\ Turn!Init <=> Phase = "idle" /\ Record = "none" /\ Answer = "none"
  BY DEF Turn!turnVars, Turn!Open, Turn!Record, Turn!Close, Turn!Drop, Turn!NextTurn, Turn!Init,
         Turn!Outcomes, Phase, Record, Answer

\* A step of the pipeline is a step of the turn, or none.
LEMMA TurnSimulation ==
    ASSUME PipelineInv, PipelineInv', [Next]_vars
    PROVE  [Turn!Next]_(Turn!turnVars)
  <1>1. CASE UNCHANGED vars
    BY <1>1 DEF vars, Turn!turnVars
  <1>2. CASE Next
    <2>1. StepOfTurn
      BY <1>2, StepsOfTurn
    <2>2. PhaseIsPc /\ RecordIsPc
      BY PhaseOfPc, RecordOfPc
    <2>3. PhaseIsPc'
      BY PhaseOfPc, PTL
    <2>4. RecordIsPc'
      BY RecordOfPc, PTL
    <2> USE DEF PhaseIsPc, RecordIsPc
    <2>5. UNCHANGED <<log, letters>> => Record' = Record
      BY DEF Record
    <2>6. CASE pc \in OpenPc /\ pc' \in OpenPc
      <3>1. Phase' = Phase /\ Record' = Record /\ Answer' = Answer
        BY <2>2, <2>3, <2>4, <2>6
      <3> QED
        BY <3>1 DEF Turn!turnVars, Phase, Record, Answer
    <2>7. CASE pc = "idle" /\ pc' \in OpenPc
      <3>1. Turn!Open
        BY <2>2, <2>3, <2>4, <2>7, TurnInTerms
      <3> QED
        BY <3>1 DEF Turn!Next
    <2>8. CASE pc \in OpenPc /\ pc' \in RecordedPc
      <3>1. Turn!Record
        BY <2>2, <2>3, <2>4, <2>8, TurnInTerms
      <3> QED
        BY <3>1 DEF Turn!Next
    <2>9. CASE pc \in RecordedPc /\ pc' = "done" /\ UNCHANGED <<log, letters>>
      <3>1. Turn!Close
        BY <2>2, <2>3, <2>4, <2>5, <2>9, TurnInTerms
      <3> QED
        BY <3>1 DEF Turn!Next
    <2>10. CASE pc \in OpenPc \cup RecordedPc /\ pc' = "raised" /\ UNCHANGED <<log, letters>>
      <3>1. Turn!Drop
        BY <2>2, <2>3, <2>5, <2>10, TurnInTerms
      <3> QED
        BY <3>1 DEF Turn!Next
    <2>11. CASE pc \in {"done", "raised"} /\ pc' = "idle"
      <3>1. Turn!NextTurn
        BY <2>2, <2>3, <2>4, <2>11, TurnInTerms
      <3> QED
        BY <3>1 DEF Turn!Next
    <2> QED
      BY <2>1, <2>6, <2>7, <2>8, <2>9, <2>10, <2>11 DEF StepOfTurn
  <1> QED
    BY <1>1, <1>2

(* The pipeline implements the chat turn, fairness aside: on either path   *)
(* the outcome is recorded, or its loss counted, before it is delivered,   *)
(* once, and what is delivered is the outcome that was recorded.           *)
THEOREM PipelineImplementsTurn == Spec => Turn!Init /\ [][Turn!Next]_(Turn!turnVars)
  <1>1. Init => Turn!Init
    <2> SUFFICES ASSUME Init PROVE Turn!Init
      OBVIOUS
    <2>1. PipelineInv /\ pc = "idle"
      BY PipelineInit DEF Init
    <2> QED
      BY <2>1, PhaseOfPc, RecordOfPc, TurnInTerms DEF PhaseIsPc, RecordIsPc
  <1>2. PipelineInv /\ PipelineInv' /\ [Next]_vars => [Turn!Next]_(Turn!turnVars)
    BY TurnSimulation
  <1> QED
    BY <1>1, <1>2, PipelineInvariant, PTL DEF Spec
=============================================================================
