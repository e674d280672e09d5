---------------------------- MODULE ChatPipeline ----------------------------
(***************************************************************************)
(* One chat turn through the backend: POST /chat runs the LangGraph nodes  *)
(* of build_chat_structured_full, POST /chat/stream the generator of       *)
(* StreamingChatService.  One action per node, per attempt of the          *)
(* generation chain, per judged segment, per figure request and per        *)
(* stream event.  The language model, the embedder, the vector store and   *)
(* the database answer nondeterministically, failures included.            *)
(*                                                                         *)
(* A text is known by who wrote it and by whether it holds personal data:  *)
(* dirty for the answer, segsDirty for its segments, keptDirty for what is *)
(* built from them before the answer is masked, that is the claim_text of  *)
(* the citations and the items of an exam.  st is the part of RAGState, or *)
(* of the generator's locals, that decides something.                      *)
(***************************************************************************)
EXTENDS CitationVerifier, TLC

CONSTANTS
    Configs,      \* tenant configurations: see ConfigType
    Corpus,       \* the chunks of the tenant's collection: see ChunkType
    Clearance,    \* the caller's clearance, 0 (public) .. 3 (secret)
    ContextTopK,  \* retrieval.top_k.context
    ScoreLists,   \* rerank scores a search may return, best first
    Answers,      \* answer_segments a model may write
    Similarities, \* how a segment may compare with the chunks
    Readings,     \* lists of readings the detector may take
    Subjects,     \* subjects the figure requests try, at most 8
    MaxFigures,   \* cap on the figure items of one request
    MaxTokens,    \* bound on the tokens of a stream
    None          \* "not set"

ChunkType == [approved : BOOLEAN, level : 0 .. 3, acl : BOOLEAN,
              valid : BOOLEAN, archived : BOOLEAN]

ConfigType == [judge : BOOLEAN, heuristic : BOOLEAN, plain : BOOLEAN, mask : BOOLEAN,
               rewrite : BOOLEAN, exams : BOOLEAN, figures : BOOLEAN, archive : BOOLEAN,
               lora : BOOLEAN, refuses : SUBSET {"document_qa", "assessment_generation"},
               shared : SUBSET {"document_qa", "assessment_generation"}]

\* "other" is a support_type that the code gives no meaning
Kinds == SupportTypes \cup {"other"}

RawSegment == [type : Kinds \cup {"none"}, cites : Seq(Int), groups : Seq(SUBSET Int)]

CitationType == [seg : Nat, pos : Nat, chunk : Nat, type : Kinds, level : Levels,
                 verified : BOOLEAN]

\* "default" is the refusal that the response builder puts for an empty answer
Texts == {"", "generated", "conversation", "notice", "exam", "refusal", "default", "tokens"}

Reasons == {"input_pii_blocked", "routing_refusal", "retrieval_unavailable", "gate1_failed",
            "low_generation_quality", "below_min_verified_count",
            "above_max_unsupported_ratio", "below_min_confidence", "llm_error"}

Groundings == {"grounded", "ungrounded", "assessment", "streaming"}

\* rewritten_query: not set, the question as it was typed, or a text around it or
\* in its place that the model has written
Rewrites == {"none", "raw", "model"}

LogType == [text : Texts, dirty : BOOLEAN, fallback : Reasons \cup {None},
            citations : SUBSET CitationType, grounding : Groundings,
            question : {"masked", "raw"}, rewritten : Rewrites, beside : BOOLEAN]

ASSUME ChatAssumption ==
    /\ Configs \subseteq ConfigType
    /\ Corpus \subseteq ChunkType
    /\ Clearance \in 0 .. 3
    /\ ContextTopK \in Nat \ {0}
    /\ MaxFigures \in Nat /\ MaxTokens \in Nat /\ Subjects \in 0 .. 8
    /\ ScoreLists \subseteq Seq(Int)
    /\ Answers \subseteq Seq(RawSegment)
    /\ \A sim \in Similarities : \A k \in 1 .. ContextTopK : sim[k] \in Levels
    /\ None \notin Reasons /\ None \notin LogType

VARIABLES
    pc,        \* the node or the streaming step that runs next
    st,        \* the state of the turn
    log,       \* the row of chat_logs, or None
    letters,   \* write failures counted for this turn
    reply,     \* what the client got last, or None
    calls      \* the services this turn has called

vars == <<pc, st, log, letters, reply, calls>>

Types == {"document_qa", "assessment_generation"}

Blank ==
    [mode |-> "structured", pii |-> "clean", cfg |-> None, plainOk |-> FALSE,
     storage |-> "mask", fallback |-> None, type |-> "document_qa",
     model |-> "tenant_slm", lora |-> FALSE, chain |-> 0,
     contexts |-> <<>>, scores |-> <<>>, grounding |-> "grounded",
     rewritten |-> "none", segs |-> <<>>, sims |-> <<>>,
     text |-> "", dirty |-> FALSE, segsDirty |-> FALSE, keptDirty |-> FALSE,
     citations |-> {}, conf |-> [num |-> 0, den |-> 1], judged |-> {},
     figs |-> [want |-> 0, got |-> 0, pass |-> 1, subj |-> 1, texts |-> 0],
     tokens |-> 0]

Init ==
    /\ pc = "idle"
    /\ st = Blank
    /\ log = None
    /\ letters = 0
    /\ reply = None
    /\ calls = {}

-----------------------------------------------------------------------------
(* Edges of the graph.                                                     *)

\* add_edge of build_chat_structured_full
Edge ==
    [tenant_resolver |-> "load_tenant_config",
     load_tenant_config |-> "check_input_pii",
     build_acl_filter |-> "classify_query",
     classify_query |-> "model_router",
     assessment |-> "mask_response_pii",
     query_rewrite |-> "retrieve_context",
     retrieve_context |-> "gate_1",
     generate_ungrounded |-> "mask_response_pii",
     generate_answer |-> "parse_response",
     parse_response |-> "verify_tier1",
     verify_tier1 |-> "detect_conflict_heuristic",
     detect_conflict_heuristic |-> "verify_tier2",
     verify_tier2 |-> "judge_inference",
     judge_inference |-> "detect_unsupported",
     detect_unsupported |-> "assemble_response",
     assemble_response |-> "mask_response_pii",
     compute_confidence |-> "gate_2",
     fallback |-> "save_chat_log",
     save_chat_log |-> "respond"]

\* A node runs, merges what it returns into the state, and the graph goes on at n
Step(node, merged, n) ==
    /\ pc = node
    /\ st' = merged
    /\ pc' = n
    /\ UNCHANGED <<log, letters, reply>>

Node(node, merged) == Step(node, merged, Edge[node])

Call(services) == calls' = calls \cup services

\* An exception that no node catches: the request ends with status 500
Raise(node) ==
    /\ pc = node
    /\ pc' = "raised"
    /\ UNCHANGED <<st, log, letters, reply>>

-----------------------------------------------------------------------------
(* Requests and configuration.                                             *)

\* POST /chat and POST /chat/stream: ids are issued, the state is new
Chat(mode, pii) ==
    /\ pc = "idle"
    /\ pc' = IF mode = "structured" THEN "tenant_resolver" ELSE "load_tenant_config"
    /\ st' = [Blank EXCEPT !.mode = mode, !.pii = pii]
    /\ UNCHANGED <<log, letters, reply, calls>>

\* The caller was authenticated, so tenant_resolver finds domain and user
TenantResolver == Node("tenant_resolver", st) /\ UNCHANGED calls

\* The loader asks the approval service on every request; its query may fail
LoadTenantConfig ==
    /\ \/ \E c \in Configs, ok \in BOOLEAN :
            Step("load_tenant_config", [st EXCEPT !.cfg = c, !.plainOk = ok],
                 IF st.mode = "structured" THEN Edge["load_tenant_config"] ELSE "stream_pii")
       \/ Raise("load_tenant_config")
    /\ UNCHANGED calls

-----------------------------------------------------------------------------
(* Personal data, classification, routing.                                 *)

\* mask_for_storage.  compliance_mode is not among the keys the loader copies,
\* so it never forces masking.
StoragePolicy(cfg, plainOk) == IF cfg.plain /\ plainOk THEN "plain" ELSE "mask"

\* check_input: a finding whose action is block stops the turn
Blocked(pii) == pii = "block"

CheckInputPii ==
    /\ pc = "check_input_pii"
    /\ LET s == [st EXCEPT !.storage = StoragePolicy(st.cfg, st.plainOk)]
       IN  /\ IF Blocked(st.pii)
              THEN Step("check_input_pii", [s EXCEPT !.fallback = "input_pii_blocked"],
                        "fallback")
              ELSE Step("check_input_pii", s, "build_acl_filter")
           /\ UNCHANGED calls

\* build_qdrant_acl_filter: what the filter lets through; the archive only with
\* retrieval.exclude_archived = false
Permitted(c, cfg) ==
    /\ c.approved
    /\ c.level <= Clearance
    /\ c.acl
    /\ c.valid
    /\ c.archived => cfg.archive

BuildAclFilter == Node("build_acl_filter", st) /\ UNCHANGED calls

\* Tier 1 rules, else the model, else the configured fallback decision: any type
Classify(type) == [st EXCEPT !.type = type]

ClassifyQuery ==
    /\ pc = "classify_query"
    /\ \E type \in Types : Node("classify_query", Classify(type))
    /\ Call({"classify"})

\* ModelRouter.decide: the rule of the query type, else the default
Decide(cfg, type) ==
    [model |-> IF type \in cfg.shared THEN "shared_llm" ELSE "tenant_slm",
     lora |-> type \notin cfg.shared /\ cfg.lora,
     refused |-> type \in cfg.refuses]

Routed(s) ==
    LET d == Decide(s.cfg, s.type)
    IN  [s EXCEPT !.model = d.model, !.lora = d.lora,
                  !.fallback = IF d.refused THEN "routing_refusal" ELSE @]

ModelRouter ==
    /\ pc = "model_router"
    /\ Step("model_router", Routed(st),
            IF st.type = "assessment_generation" THEN "assessment" ELSE "query_rewrite")
    /\ UNCHANGED calls

-----------------------------------------------------------------------------
(* Retrieval.                                                              *)

\* The rewritten query, or the question as it is when the rewriter is off or fails
QueryRewrite ==
    /\ pc = "query_rewrite"
    /\ \E query \in IF st.cfg.rewrite THEN {"raw", "model"} ELSE {"raw"} :
         Node("query_rewrite", [st EXCEPT !.rewritten = query])
    /\ Call(IF st.cfg.rewrite THEN {"rewrite"} ELSE {})

\* retrieve: hits that pass the filter, reranked, the best of them as contexts
Retrieve(scores, hits) ==
    [st EXCEPT !.scores = scores,
               !.contexts = SubSeq(hits, 1, IF Len(hits) < ContextTopK THEN Len(hits)
                                            ELSE ContextTopK)]

RetrieveContext ==
    /\ pc = "retrieve_context"
    /\ \/ \E scores \in ScoreLists :
            \E hits \in [DOMAIN scores -> {c \in Corpus : Permitted(c, st.cfg)}] :
                /\ \A j, k \in DOMAIN hits : j # k => hits[j] # hits[k]
                /\ Node("retrieve_context", Retrieve(scores, hits))
       \/ Node("retrieve_context", Retrieve(<<>>, <<>>))   \* no hit, or a failure
    /\ Call({"retrieve"})

Gate1Node ==
    /\ IF Gate1(st.scores)
       THEN Step("gate_1", st, "generate_answer")
       ELSE Step("gate_1",
                 [st EXCEPT !.fallback = IF st.scores = <<>> THEN "retrieval_unavailable"
                                         ELSE "gate1_failed"],
                 "generate_ungrounded")
    /\ UNCHANGED calls

-----------------------------------------------------------------------------
(* Generation.                                                             *)

\* The fallback chain: the routed model, the same without LoRA, the shared model
ChainSteps ==
    <<[model |-> st.model, lora |-> st.lora]>>
        \o (IF st.model = "tenant_slm" /\ st.lora
            THEN <<[model |-> "tenant_slm", lora |-> FALSE]>> ELSE <<>>)
        \o (IF st.model # "shared_llm"
            THEN <<[model |-> "shared_llm", lora |-> FALSE]>> ELSE <<>>)

\* One attempt; ChainSteps is a function of the routed model, which stays until
\* an attempt succeeds
GenerateAnswer ==
    /\ pc = "generate_answer"
    /\ LET k == st.chain + 1
           step == ChainSteps[k]
       IN  /\ \/ \E raw \in Answers, d \in BOOLEAN :
                   Node("generate_answer",
                        [st EXCEPT !.segs = raw, !.segsDirty = d,
                                   !.model = step.model, !.lora = step.lora])
              \/ /\ k < Len(ChainSteps)
                 /\ Step("generate_answer", [st EXCEPT !.chain = k], "generate_answer")
              \/ /\ k = Len(ChainSteps)
                 /\ Node("generate_answer",
                         [st EXCEPT !.segs = <<>>, !.chain = k,
                                    !.fallback = "low_generation_quality"])
           /\ Call({"generate"})

\* The model talks, perhaps without a word, or fails
GenerateUngrounded ==
    /\ \/ \E text \in {"conversation", ""}, d \in BOOLEAN :
            /\ text = "" => ~d
            /\ Node("generate_ungrounded",
                    [st EXCEPT !.grounding = "ungrounded", !.text = text,
                               !.dirty = d, !.segsDirty = d, !.fallback = None])
       \/ Node("generate_ungrounded",
               [st EXCEPT !.grounding = "ungrounded", !.text = "",
                          !.fallback = "low_generation_quality"])
    /\ Call({"generate"})

-----------------------------------------------------------------------------
(* Exam questions on demand.                                               *)

\* A message that no item could be made
Notice(s) == [s EXCEPT !.grounding = "ungrounded", !.text = "notice", !.fallback = None]

\* The items, and the answer that is formatted from them
Exam(s, d) == [s EXCEPT !.grounding = "assessment", !.text = "exam", !.fallback = None,
                        !.dirty = d, !.segsDirty = d, !.keptDirty = d]

(* Without the service a notice; with no wish for figures the text items,  *)
(* an empty list included; with one the figure requests, together with     *)
(* text items (0 or some) when more items than figures were asked for.     *)
Assessment ==
    /\ pc = "assessment"
    /\ \/ /\ ~st.cfg.exams
          /\ Node("assessment", Notice(st))
          /\ UNCHANGED calls
       \/ /\ st.cfg.exams
          /\ \E d \in BOOLEAN : Node("assessment", Exam(st, d))
          /\ Call({"generate"})
       \/ /\ st.cfg.exams /\ st.cfg.figures
          /\ \E want \in 1 .. MaxFigures, t \in 0 .. 1 :
               Step("assessment", [st EXCEPT !.figs.want = want, !.figs.texts = t],
                    "collect_figures")
          /\ Call({"generate"})

\* The loop of _collect_figure_items is over: two passes at most, a second one
\* only when the first gave nothing
FiguresDone(f) ==
    \/ f.got >= f.want
    \/ f.pass > 2
    \/ f.pass = 2 /\ f.subj = 1 /\ f.got > 0

\* Mutant: every subject is asked for all the figures
CollectFiguresUncapped ==
    /\ pc = "collect_figures" /\ ~FiguresDone(st.figs)
    /\ \E k \in 0 .. st.figs.want :
          Step("collect_figures", [st EXCEPT !.figs.got = @ + k, !.figs.subj = Subjects,
                                             !.figs.pass = @ + 1], "collect_figures")
    /\ Call({"vision"})

\* The figure request for one subject: items, none, or the model is down
CollectFigures ==
    /\ pc = "collect_figures"
    /\ LET f == st.figs
           advance(k) == IF f.subj < Subjects
                         THEN [f EXCEPT !.got = @ + k, !.subj = @ + 1]
                         ELSE [f EXCEPT !.got = @ + k, !.subj = 1, !.pass = @ + 1]
       IN  /\ ~FiguresDone(f) /\ Subjects > 0
           /\ \/ \E k \in 0 .. (f.want - f.got) :
                   Step("collect_figures", [st EXCEPT !.figs = advance(k)], "collect_figures")
              \/ Step("collect_figures", [st EXCEPT !.figs.pass = 3], "collect_figures")
           /\ Call({"vision"})

FigureAnswer ==
    /\ pc = "collect_figures"
    /\ FiguresDone(st.figs) \/ Subjects = 0
    /\ \E merged \in IF st.figs.got + st.figs.texts = 0 THEN {Notice(st)}
                     ELSE {Exam(st, d) : d \in BOOLEAN} :
         Step("collect_figures", merged, Edge["assessment"])
    /\ UNCHANGED calls

-----------------------------------------------------------------------------
(* Verification.                                                           *)

NumContexts == Len(st.contexts)

ParseResponse ==
    /\ pc = "parse_response"
    /\ Node("parse_response", [st EXCEPT !.segs = ParseSegments(st.segs)])
    /\ UNCHANGED calls

VerifyTier1 ==
    /\ pc = "verify_tier1"
    /\ Node("verify_tier1", [st EXCEPT !.segs = Tier1Filter(st.segs, NumContexts)])
    /\ UNCHANGED calls

DetectConflictHeuristic ==
    /\ pc = "detect_conflict_heuristic"
    /\ \E readings \in IF st.cfg.heuristic /\ NumContexts > 0 THEN Readings ELSE {<<>>} :
         Node("detect_conflict_heuristic",
              [st EXCEPT !.segs = [i \in DOMAIN st.segs |->
                  DetectInSegment(st.segs[i], NumContexts, readings)]])
    /\ UNCHANGED calls

\* The embedder measures every cited chunk; its failure is not caught
VerifyTier2 ==
    /\ pc = "verify_tier2"
    /\ \/ \E sims \in [DOMAIN st.segs -> Similarities] :
            Node("verify_tier2",
                 [st EXCEPT !.sims = sims,
                            !.segs = [i \in DOMAIN st.segs |->
                                Tier2Classify(st.segs[i], sims[i], st.cfg.judge)]])
       \/ st.segs # <<>> /\ Raise("verify_tier2")
    /\ Call({"embed"})

Pending == {i \in DOMAIN st.segs : st.segs[i].pending}

\* One pending segment after the other; a failing call is not caught, an answer
\* that does not parse rejects the segment
JudgeInference ==
    /\ pc = "judge_inference"
    /\ \/ /\ Pending = {}
          /\ Node("judge_inference", st)
          /\ UNCHANGED calls
       \/ LET i == CHOOSE i \in Pending : \A j \in Pending : i <= j
          IN  /\ Pending # {}
              /\ \/ \E passes \in BOOLEAN :
                      Step("judge_inference",
                           [st EXCEPT !.segs[i] = ApplyJudgeResult(st.segs[i], passes),
                                      !.judged = IF passes THEN @ \cup {i} ELSE @],
                           "judge_inference")
                 \/ Raise("judge_inference")
              /\ Call({"judge"})

DetectUnsupported == Node("detect_unsupported", st) /\ UNCHANGED calls

AssembleResponse ==
    /\ pc = "assemble_response"
    /\ Node("assemble_response",
            [st EXCEPT !.citations = AssembleCitations(st.segs, NumContexts),
                       !.text = IF st.segs = <<>> THEN "" ELSE "generated",
                       !.dirty = st.segs # <<>> /\ st.segsDirty,
                       !.keptDirty = st.segs # <<>> /\ st.segsDirty])
    /\ UNCHANGED calls

\* Mutant: only grounded answers are masked
MaskResponsePiiGrounded ==
    /\ pc = "mask_response_pii"
    /\ IF st.grounding = "grounded"
       THEN Step("mask_response_pii", [st EXCEPT !.dirty = @ /\ ~st.cfg.mask],
                 "compute_confidence")
       ELSE Step("mask_response_pii", st, "save_chat_log")
    /\ UNCHANGED calls

\* final_answer is masked; segments, citations and items stay as they are
MaskResponsePii ==
    /\ pc = "mask_response_pii"
    /\ Step("mask_response_pii",
            IF st.text = "" \/ ~st.cfg.mask THEN st ELSE [st EXCEPT !.dirty = FALSE],
            IF st.grounding = "grounded" THEN "compute_confidence" ELSE "save_chat_log")
    /\ UNCHANGED calls

Confidence ==
    /\ pc = "compute_confidence"
    /\ Node("compute_confidence",
            [st EXCEPT !.conf = ComputeConfidence(st.segs, st.citations,
                                                  SubSeq(st.scores, 1, NumContexts))])
    /\ UNCHANGED calls

Gate2Node ==
    /\ pc = "gate_2"
    /\ LET verdict == EvaluateGate2(st.segs, st.citations, st.conf)
       IN  /\ IF verdict = "passed"
              THEN Step("gate_2", st, "save_chat_log")
              ELSE Step("gate_2", [st EXCEPT !.fallback = verdict], "fallback")
           /\ UNCHANGED calls

\* The fallback text replaces the answer; citations and grounding stay
Fallback ==
    /\ Node("fallback", [st EXCEPT !.text = "refusal", !.dirty = FALSE, !.segs = <<>>,
                                   !.segsDirty = FALSE])
    /\ UNCHANGED calls

-----------------------------------------------------------------------------
(* Recording and answering.                                                *)

\* Mutant: the row is built from the segments, which are not masked
LogRowSegments(s) ==
    [text |-> s.text, dirty |-> s.segsDirty, fallback |-> s.fallback,
     citations |-> s.citations, grounding |-> s.grounding,
     question |-> IF s.storage = "mask" THEN "masked" ELSE "raw",
     rewritten |-> s.rewritten, beside |-> s.keptDirty]

\* The payload of save_chat_log_node and of _save_log: the policy decides on the
\* question and not on rewritten_query, citations or the items of an exam
LogRow(s) ==
    [text |-> s.text, dirty |-> s.dirty, fallback |-> s.fallback,
     citations |-> s.citations, grounding |-> s.grounding,
     question |-> IF s.storage = "mask" THEN "masked" ELSE "raw",
     rewritten |-> s.rewritten, beside |-> s.keptDirty]

\* One transaction, or a dead letter when it fails
WriteLog(row) ==
    \/ log' = row /\ UNCHANGED letters
    \/ letters' = letters + 1 /\ UNCHANGED log

\* Mutant: a failed write is swallowed
SaveChatLogSilent ==
    /\ pc = "save_chat_log"
    /\ log' \in {log, LogRow(st)}
    /\ pc' = "respond"
    /\ UNCHANGED <<st, letters, reply, calls>>

SaveChatLog ==
    /\ pc = "save_chat_log"
    /\ WriteLog(LogRow(st))
    /\ pc' = "respond"
    /\ UNCHANGED <<st, reply, calls>>

(* A success carries the answer, its segments and citations; a refusal the *)
(* answer, or the default text when there is none.  The items of an exam   *)
(* are in the metadata of both.  beside: does anything but the answer hold *)
(* personal data.                                                          *)
Response(s) ==
    [kind |-> "response",
     status |-> IF s.fallback = None THEN "success" ELSE "fallback",
     text |-> IF s.fallback # None /\ s.text = "" THEN "default" ELSE s.text,
     dirty |-> s.dirty,
     citations |-> IF s.fallback = None THEN s.citations ELSE {},
     grounding |-> s.grounding,
     beside |-> \/ s.fallback = None /\ (s.segsDirty \/ s.keptDirty)
                \/ s.grounding = "assessment" /\ s.keptDirty]

\* The ledger event of a blocked turn is best effort, then the response is built
Respond ==
    /\ pc = "respond"
    /\ reply' = Response(st)
    /\ pc' = "done"
    /\ UNCHANGED <<st, log, letters, calls>>

-----------------------------------------------------------------------------
(* Streaming.                                                              *)

Event(kind) == [kind |-> kind, status |-> IF kind = "complete" THEN "success" ELSE "fallback",
                text |-> st.text, dirty |-> st.dirty, citations |-> {},
                grounding |-> "streaming", beside |-> FALSE]

\* A generator step that goes on without a log entry
Stream(node, merged, n) == Step(node, merged, n)

\* A generator step that ends with _save_log; the event follows
StreamSave(node, merged, kind) ==
    /\ pc = node
    /\ st' = merged
    /\ WriteLog(LogRow(merged))
    /\ pc' = kind
    /\ UNCHANGED reply

StreamPii ==
    /\ pc = "stream_pii"
    /\ LET s == [st EXCEPT !.storage = StoragePolicy(st.cfg, st.plainOk),
                           !.grounding = "streaming"]
       IN  /\ IF Blocked(st.pii)
              THEN StreamSave("stream_pii", [s EXCEPT !.fallback = "input_pii_blocked",
                                                      !.text = "refusal"], "emit_fallback")
              ELSE Stream("stream_pii", s, "stream_route")
           /\ UNCHANGED calls

\* Classification and routing; a refusal ends the turn before the model is called
StreamRoute ==
    /\ pc = "stream_route"
    /\ \E type \in Types :
         LET s == Routed([st EXCEPT !.type = type])
         IN  IF s.fallback = None
             THEN Stream("stream_route", s, "stream_token")
             ELSE StreamSave("stream_route", [s EXCEPT !.text = "refusal"], "emit_fallback")
    /\ Call({"classify"})

StreamToken ==
    /\ pc = "stream_token"
    /\ st.tokens < MaxTokens
    /\ \E d \in BOOLEAN :
         /\ pc = "stream_token"
         /\ st' = [st EXCEPT !.tokens = @ + 1, !.text = "tokens", !.dirty = @ \/ d]
         /\ reply' = [kind |-> "token", dirty |-> d]
    /\ Call({"generate"})
    /\ UNCHANGED <<pc, log, letters>>

\* The model fails: what has come so far is logged as it is
StreamFail ==
    /\ StreamSave("stream_token", [st EXCEPT !.fallback = "llm_error"], "emit_error")
    /\ Call({"generate"})

\* The model is done: the whole text is masked and logged
StreamDone ==
    /\ pc = "stream_token"
    /\ StreamSave("stream_token",
                  IF st.cfg.mask THEN [st EXCEPT !.dirty = FALSE] ELSE st, "emit_complete")
    /\ Call({"generate"})

EventOf == [emit_fallback |-> "fallback", emit_error |-> "error", emit_complete |-> "complete"]

StreamEmit ==
    /\ pc \in DOMAIN EventOf
    /\ reply' = Event(EventOf[pc])
    /\ pc' = "done"
    /\ UNCHANGED <<st, log, letters, calls>>

\* The client of a stream goes away: the generator is cancelled where it is
Disconnect ==
    /\ st.mode = "streaming"
    /\ pc \in {"stream_pii", "stream_route", "stream_token"} \cup DOMAIN EventOf
    /\ pc' = "raised"
    /\ UNCHANGED <<st, log, letters, reply, calls>>

-----------------------------------------------------------------------------
NextTurn ==
    /\ pc \in {"done", "raised"}
    /\ pc' = "idle"
    /\ st' = Blank
    /\ log' = None
    /\ letters' = 0
    /\ reply' = None
    /\ calls' = {}

Structured ==
    \/ CheckInputPii \/ BuildAclFilter \/ ClassifyQuery \/ ModelRouter
    \/ QueryRewrite \/ RetrieveContext \/ Gate1Node \/ GenerateAnswer
    \/ GenerateUngrounded \/ Assessment \/ CollectFigures \/ FigureAnswer
    \/ ParseResponse \/ VerifyTier1 \/ DetectConflictHeuristic \/ VerifyTier2
    \/ JudgeInference \/ DetectUnsupported \/ AssembleResponse \/ MaskResponsePii
    \/ Confidence \/ Gate2Node \/ Fallback \/ SaveChatLog \/ Respond

Streaming == StreamPii \/ StreamRoute \/ StreamToken \/ StreamFail \/ StreamDone \/ StreamEmit

Work == TenantResolver \/ LoadTenantConfig \/ Structured \/ Streaming

Next ==
    \/ \E mode \in {"structured", "streaming"}, pii \in {"clean", "block"} :
          Chat(mode, pii)
    \/ Work
    \/ Disconnect
    \/ NextTurn

Spec == Init /\ [][Next]_vars

\* The event loop goes on with a started turn; requests, disconnects and
\* new turns come when they like
FairSpec == Spec /\ WF_vars(Work)

-----------------------------------------------------------------------------
(* Properties.                                                             *)

\* Every variable has its type; the turn's own fields are spelled out
TypeOK ==
    /\ pc \in DOMAIN Edge \cup DOMAIN EventOf
              \cup {"idle", "check_input_pii", "model_router", "gate_1", "gate_2",
                    "mask_response_pii", "collect_figures", "respond", "done", "raised",
                    "stream_pii", "stream_route", "stream_token"}
    /\ st.mode \in {"structured", "streaming"}
    /\ st.grounding \in Groundings
    /\ st.chain \in 0 .. 3
    /\ st.figs.got <= st.figs.want
    /\ \A i \in DOMAIN st.contexts : st.contexts[i] \in Corpus
    /\ log \in LogType \cup {None}
    /\ letters \in 0 .. 1
    /\ log = None \/ letters = 0

\* The turn as ChatTurn sees it
Turn == INSTANCE ChatTurn WITH
    phase <- CASE pc = "idle" -> "idle"
               [] pc = "done" -> "closed"
               [] pc = "raised" -> "dropped"
               [] pc \in {"respond"} \cup DOMAIN EventOf -> "recorded"
               [] OTHER -> "open",
    record <- CASE log # None -> (IF log.fallback = None THEN "success" ELSE "fallback")
                [] letters > 0 -> "lost"
                [] OTHER -> "none",
    answer <- IF pc = "done" THEN reply.status ELSE "none"

(* The pipeline implements the chat turn: nodes, retries, gates and stream *)
(* events amount to one recorded outcome, delivered after it was recorded  *)
(* (or its loss counted), and a turn never stays open.                     *)
ImplementsTurn == Turn!Spec

Answered(grounding) ==
    pc = "done" /\ reply.kind = "response" /\ reply.status = "success"
        /\ reply.grounding = grounding

(* A grounded answer that reaches the user passed both gates on evidence:  *)
(* enough verified citations, and every citation names a retrieved chunk   *)
(* that was measured at medium or better, an inference was confirmed by    *)
(* the judge, a synthesis rests on measured chunks only, and both sides of *)
(* a conflict were measured.  (The sides the model lists may be the same,  *)
(* and a chunk that a conflict segment cites outside its groups is         *)
(* reported as verified whatever was measured.)                            *)
CitationsAreBacked ==
    Answered("grounded") =>
        /\ Cardinality({c \in reply.citations : c.verified}) >= MinVerifiedCount
        /\ \A c \in reply.citations :
             LET measured(k) == st.sims[c.seg][k] \in {"strong", "medium"}
                 seg == st.segs[c.seg]
             IN  /\ c.chunk \in 1 .. Len(st.contexts)
                 /\ c.type # "conflict" => measured(c.chunk)
                 /\ c.type = "conflict" =>
                       /\ NumGroups(seg.groups) >= 2
                       /\ \A g \in ToSet(seg.groups) : g # {} /\ \A k \in g : measured(k)
                 /\ c.type = "inference" => c.seg \in st.judged /\ c.level = "medium"
                 /\ c.type = "synthesis" => \A k \in Cited(seg) : measured(k)

(* The row in chat_logs is the answer the user got: same text, same        *)
(* masking, same outcome, and for a success the same citations, although   *)
(* masking, the gates and the fallback node rewrite the state in between.  *)
(* Only a refusal without any text is recorded as empty, and delivered     *)
(* with the default text.                                                  *)
RecordedAsAnswered ==
    (pc = "done" /\ log # None /\ reply.kind = "response") =>
        /\ \/ log.text = reply.text
           \/ log.text = "" /\ reply.text = "default" /\ log.fallback # None
        /\ log.dirty = reply.dirty
        /\ (log.fallback = None) <=> (reply.status = "success")
        /\ reply.status = "success" => log.citations = reply.citations

(* A question that is blocked for personal data reaches no model, no       *)
(* embedder and no index on either path, and leaves no rewritten query and *)
(* no text of a model behind; a stream that routing refuses generates      *)
(* nothing.                                                                *)
RefusedReachesNoModel ==
    /\ st.fallback = "input_pii_blocked" =>
          /\ calls = {}
          /\ log # None => log.rewritten = "none" /\ ~log.dirty /\ ~log.beside
    /\ (st.mode = "streaming" /\ st.fallback = "routing_refusal") => calls = {"classify"}

(* With response masking on, the text of an answer is delivered and stored *)
(* masked, on the structured path and for a finished stream.  (The partial *)
(* text of a stream that fails is stored as it came.)  What is unmasked    *)
(* beside the answer (segments, claims, exam items) goes to the user with  *)
(* a success only: a refused answer does not get out in pieces.            *)
AnswerIsMasked ==
    pc = "done" =>
        /\ (st.cfg.mask /\ reply.kind = "response") => ~reply.dirty
        /\ (st.cfg.mask /\ log # None /\ st.fallback # "llm_error") => ~log.dirty
        /\ reply.status = "fallback" => ~reply.beside

(* The two checks of personal data that the answer passes: the question    *)
(* before any model sees it, and the text of the answer before it is       *)
(* delivered and stored.                                                   *)
PiiChecksHold == RefusedReachesNoModel /\ AnswerIsMasked
=============================================================================
