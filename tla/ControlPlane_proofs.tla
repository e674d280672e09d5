------------------------ MODULE ControlPlane_proofs ------------------------
(***************************************************************************)
(* What is proved of a part holds in the composition.  The inductive       *)
(* invariants of the schemas and the item bank are those of the modules    *)
(* SchemaVersions_proofs and AssessmentItems_proofs; those of the          *)
(* evaluation jobs, the adapters, the tenants, the signing keys and the    *)
(* operational jobs are here.  A step of the composition is shown to be a  *)
(* step of one part and to leave the others alone.                         *)
(***************************************************************************)
EXTENDS ControlPlane, FiniteSetTheorems, WellFoundedInduction, TLAPS

-----------------------------------------------------------------------------
(* Input schemas.                                                          *)

SchemaP == INSTANCE SchemaVersions_proofs

\* Both instances of the module have the same actions.
LEMMA SchemaSameNext ==
    Schema!Next => SchemaP!Next
BY DEF Schema!Next, SchemaP!Next, Schema!PutSchema, SchemaP!PutSchema,
       Schema!ValidateStructure, SchemaP!ValidateStructure, Schema!CheckCompat,
       SchemaP!CheckCompat, Schema!SelectForUpdate, SchemaP!SelectForUpdate,
       Schema!Wake, SchemaP!Wake, Schema!Conflict, SchemaP!Conflict,
       Schema!InsertNewActive, SchemaP!InsertNewActive, Schema!RuntimeApply,
       SchemaP!RuntimeApply, Schema!Validate, SchemaP!Validate, Schema!ReloadSelect,
       SchemaP!ReloadSelect, Schema!ReloadApply, SchemaP!ReloadApply, Schema!NoPut,
       SchemaP!NoPut, Schema!Go, SchemaP!Go, Schema!Answer, SchemaP!Answer,
       Schema!GetActive, SchemaP!GetActive, Schema!TypesOf, SchemaP!TypesOf,
       Schema!Shown, SchemaP!Shown, Schema!Schemas, SchemaP!Schemas,
       Schema!Versions, SchemaP!Versions, Schema!NotLoaded, SchemaP!NotLoaded,
       Schema!NoTask, SchemaP!NoTask, Schema!ApplyRuntimeOverride,
       SchemaP!ApplyRuntimeOverride, Schema!RemovedInputTypes,
       SchemaP!RemovedInputTypes, Schema!Locked, SchemaP!Locked, Schema!BaseMatches,
       SchemaP!BaseMatches, Schema!NewVersion, SchemaP!NewVersion, Schema!Overtaken,
       SchemaP!Overtaken

\* Both instances of the module have the same initial states.
LEMMA SchemaSameInit ==
    Schema!Init => SchemaP!Init
BY DEF Schema!Init, SchemaP!Init, Schema!Versions, SchemaP!Versions, Schema!NoRow,
       SchemaP!NoRow, Schema!NoPut, SchemaP!NoPut, Schema!NotLoaded,
       SchemaP!NotLoaded, Schema!NoTask, SchemaP!NoTask

\* A step of another part, or none, leaves the variables of this one alone.
LEMMA SchemaPart ==
    [Next]_vars => SchemaP!Next \/ UNCHANGED schemaVars
<1>1. SchemaStep => SchemaP!Next
  BY SchemaSameNext DEF SchemaStep
<1>2. [Next]_vars /\ ~SchemaStep => UNCHANGED schemaVars
  BY DEF Next, vars, SchemaStep, EvalStep, LoraStep, KeyStep, TenantStep, ItemStep, CronStep,
         SchemaOnly, EvalOnly, LoraOnly, KeyOnly, TenantOnly, ItemOnly, CronOnly, schemaVars
<1> QED BY <1>1, <1>2

\* The invariant that is proved for the part alone holds in the composition.
LEMMA SchemaInvariant ==
    Spec => []SchemaP!SchemaInv
<1>1. Init => SchemaP!SchemaInv
  BY SchemaSameInit, SchemaP!SchemaInit, ControlPlaneAssumption DEF Init
<1>2. SchemaP!SchemaInv /\ [Next]_vars => SchemaP!SchemaInv'
  <2> SUFFICES ASSUME SchemaP!SchemaInv, [Next]_vars PROVE SchemaP!SchemaInv'
    OBVIOUS
  <2>1. CASE SchemaP!Next
    BY <2>1, SchemaP!SchemaStep, ControlPlaneAssumption
  <2>2. CASE UNCHANGED schemaVars
    BY <2>2, SchemaP!SchemaStutter DEF schemaVars, SchemaP!schemaVars
  <2> QED BY <2>1, <2>2, SchemaPart
<1> QED BY <1>1, <1>2, PTL DEF Spec

\* insert_new_active: whatever number of administrators write a tenant's schema at
\* the same time, through any number of processes, exactly the newest version is
\* active, the versions have no gap and none lacks a type of the one before it.
THEOREM SchemasFormOneHistory == Spec => []VersionHistory
<1>1. SchemaP!SchemaInv => VersionHistory
  BY DEF SchemaP!SchemaInv, VersionHistory, Schema!VersionHistory, SchemaP!VersionHistory, Schema!OneActiveVersion,
       SchemaP!OneActiveVersion, Schema!TypesAreNeverRemoved,
       SchemaP!TypesAreNeverRemoved, Schema!Versions, SchemaP!Versions
<1> QED BY <1>1, SchemaInvariant, PTL

\* What is known of the schemas in force holds in the composition.
LEMMA InForceInvariant ==
    Spec => []SchemaP!InForceInv
<1>1. Init => SchemaP!InForceInv
  BY SchemaSameInit, SchemaP!InForceInit DEF Init
<1>2. SchemaP!SchemaInv /\ SchemaP!InForceInv /\ [Next]_vars => SchemaP!InForceInv'
  <2> SUFFICES ASSUME SchemaP!SchemaInv, SchemaP!InForceInv, [Next]_vars
               PROVE  SchemaP!InForceInv'
    OBVIOUS
  <2>1. CASE SchemaP!Next
    BY <2>1, SchemaP!InForceStep, ControlPlaneAssumption
  <2>2. CASE UNCHANGED schemaVars
    BY <2>2, SchemaP!InForceStutter DEF schemaVars, SchemaP!schemaVars
  <2> QED BY <2>1, <2>2, SchemaPart
<1> QED BY <1>1, <1>2, SchemaInvariant, PTL DEF Spec

\* _runtime_apply, reload_tenant_schema: once handlers and tasks are through, all
\* processes validate uploads with the active version, unless the last commit fell
\* between the read and the apply of another one; for any number of processes,
\* administrators and versions.
THEOREM SchemaIsInForceEverywhere == Spec => []ActiveSchemaIsInForce
<1>1. SchemaP!InForceInv => SchemaP!ActiveSchemaIsInForce
  BY SchemaP!QuietIsInForce
<1>2. SchemaP!ActiveSchemaIsInForce => ActiveSchemaIsInForce
  BY DEF ActiveSchemaIsInForce, Schema!ActiveSchemaIsInForce, SchemaP!ActiveSchemaIsInForce,
         Schema!Quiet, SchemaP!Quiet, Schema!InForce, SchemaP!InForce, Schema!TypesOf,
         SchemaP!TypesOf, Schema!GetActive, SchemaP!GetActive, Schema!Versions,
         SchemaP!Versions
<1> QED BY <1>1, <1>2, InForceInvariant, PTL

-----------------------------------------------------------------------------
(* Evaluation jobs.                                                        *)
(*                                                                         *)
(* promote writes "promoted" over whatever the row has become since it was *)
(* read.  It is safe because a job gets its gate only once: while its task *)
(* can still write one the row has none (GateOnce), so that no promotion   *)
(* of it is in flight (InFlightPassed).                                    *)
(*                                                                         *)
(* The loader is safe as long as a run finds the live loader when it       *)
(* starts; then what it keeps as base and original is <<>> (LoaderKept).   *)

EvalTaskStates == {"none", "pending", "start", "begin", "case", "graph", "gate", "failing"}
EvalRowType == [status: Eval!Statuses, gate: {"none", "passed", "failed"}]
EvalTaskType == [pc: EvalTaskStates, gated: BOOLEAN, base: Seq(EvalJobs), original: Seq(EvalJobs),
             left: 0 .. Cases]

EvalTyping ==
    /\ evalRow \in [EvalJobs -> EvalRowType]
    /\ evalTask \in [EvalJobs -> EvalTaskType]
    /\ loader \in Seq(EvalJobs)
    /\ used \in [EvalJobs -> SUBSET Seq(EvalJobs)]
    /\ promote \in [Promoters -> SUBSET EvalJobs]
    /\ visible \in BOOLEAN /\ overlapped \in BOOLEAN /\ crashed \in BOOLEAN

\* A row has no gate before the task of the job is through with its cases
GateOnce ==
    \A j \in EvalJobs :
        /\ evalRow[j].status = "none" => evalTask[j].pc = "none" /\ evalRow[j].gate = "none"
        /\ evalTask[j].pc \notin {"none", "failing"} => evalRow[j].gate = "none"

InFlightPassed == \A a \in Promoters : \A j \in promote[a] : evalRow[j].gate = "passed"

LoaderKept ==
    ~overlapped =>
        \A j \in EvalJobs : Eval!InRun(j) =>
            loader = <<j>> /\ evalTask[j].base = <<>> /\ evalTask[j].original = <<>>

EvalInv ==
    /\ EvalTyping
    /\ GateOnce
    /\ InFlightPassed
    /\ Eval!PromotedPassedItsGate
    /\ LoaderKept
    /\ Eval!OverrideStaysInItsRun
    /\ lost \subseteq EvalJobs

\* update: the row of one job changes, or none when the update does not find it.
LEMMA UpdateOneJob ==
    ASSUME EvalTyping, NEW j \in EvalJobs, NEW row \in EvalRowType, Eval!Update(j, row)
    PROVE  /\ evalRow' \in [EvalJobs -> EvalRowType]
           /\ evalRow'[j] \in {evalRow[j], row}
           /\ \A k \in EvalJobs \ {j} : evalRow'[k] = evalRow[k]
BY DEF EvalTyping, Eval!Update

\* execute: the task of one job goes on, what it keeps stays, and the others stand.
LEMMA GoOneJob ==
    ASSUME EvalTyping, NEW j \in EvalJobs, NEW pc \in EvalTaskStates, Eval!Go(j, pc)
    PROVE  /\ evalTask' \in [EvalJobs -> EvalTaskType]
           /\ evalTask'[j] = [evalTask[j] EXCEPT !.pc = pc]
           /\ evalTask'[j].pc = pc
           /\ evalTask'[j].base = evalTask[j].base
           /\ evalTask'[j].original = evalTask[j].original
           /\ \A k \in EvalJobs \ {j} : evalTask'[k] = evalTask[k]
<1>1. evalTask[j] \in EvalTaskType
  BY DEF EvalTyping
<1>2. [evalTask[j] EXCEPT !.pc = pc] \in EvalTaskType
  BY <1>1 DEF EvalTaskType
<1>3. evalTask' = [evalTask EXCEPT ![j] = [evalTask[j] EXCEPT !.pc = pc]]
  BY DEF Eval!Go, EvalTyping
<1>4. evalTask'[j] = [evalTask[j] EXCEPT !.pc = pc]
  BY <1>3 DEF EvalTyping
<1>5. evalTask' \in [EvalJobs -> EvalTaskType] /\ \A k \in EvalJobs \ {j} : evalTask'[k] = evalTask[k]
  BY <1>2, <1>3 DEF EvalTyping
<1> QED BY <1>1, <1>4, <1>5 DEF EvalTaskType

\* A step of the task of one job that touches neither the loader nor who is in
\* run() leaves the promise about overrides as it is.
LEMMA LoaderStands ==
    ASSUME EvalInv, UNCHANGED <<loader, used, overlapped>>, NEW j \in EvalJobs,
           ~Eval!InRun(j), ~Eval!InRun(j)',
           \A k \in EvalJobs \ {j} : evalTask'[k] = evalTask[k]
    PROVE  LoaderKept' /\ Eval!OverrideStaysInItsRun'
<1>1. \A k \in EvalJobs : Eval!InRun(k)' <=> Eval!InRun(k)
  BY DEF Eval!InRun
<1>2. LoaderKept'
  BY <1>1 DEF EvalInv, LoaderKept, Eval!InRun
<1>3. Eval!OverrideStaysInItsRun'
  BY <1>1 DEF EvalInv, Eval!OverrideStaysInItsRun
<1> QED BY <1>2, <1>3

\* Steps of a run that leave rows and promotions alone keep what is known of them,
\* as long as the task that moves had no gate to lose.
LEMMA EvalRowsStand ==
    ASSUME EvalInv, UNCHANGED <<evalRow, promote>>, NEW j \in EvalJobs,
           evalTask[j].pc \notin {"none", "failing"},
           \A k \in EvalJobs \ {j} : evalTask'[k] = evalTask[k]
    PROVE  GateOnce' /\ InFlightPassed' /\ Eval!PromotedPassedItsGate'
<1>1. GateOnce'
  BY DEF EvalInv, GateOnce
<1>2. InFlightPassed' /\ Eval!PromotedPassedItsGate'
  BY DEF EvalInv, InFlightPassed, Eval!PromotedPassedItsGate
<1> QED BY <1>1, <1>2

\* prepare_run, execute, promote and a restart: every step keeps the invariant.
LEMMA EvalKept ==
    ASSUME Cases \in Nat, EvalInv, Eval!Next
    PROVE  EvalInv'
<1>t. EvalTyping
  BY DEF EvalInv
<1>l. lost' \subseteq EvalJobs
  BY DEF EvalInv, Eval!Next, Eval!TaskStep, Eval!PrepareRun, Eval!Execute, Eval!MarkRunning,
         Eval!RunnerInit, Eval!LoadDatasetFails, Eval!CaseLoadsConfig, Eval!CaseEnds,
         Eval!CaseRaises, Eval!GateRaises, Eval!Complete, Eval!Fail, Eval!FailRaises,
         Eval!PromoteRead, Eval!PromoteWrite, Eval!Crash
<1>p. /\ {"none", "pending", "start", "begin", "case", "graph", "gate", "failing"} = EvalTaskStates
      /\ {"none", "pending", "running", "completed", "failed", "promoted"} = Eval!Statuses
  BY DEF EvalTaskStates, Eval!Statuses
<1>r. \A j \in EvalJobs : evalRow[j] \in EvalRowType /\ evalTask[j] \in EvalTaskType
  BY <1>t DEF EvalTyping
<1>u. \A j \in EvalJobs, s \in Eval!Statuses :
        /\ [evalRow[j] EXCEPT !.status = s] \in EvalRowType
        /\ [evalRow[j] EXCEPT !.status = s].status = s
        /\ [evalRow[j] EXCEPT !.status = s].gate = evalRow[j].gate
  BY <1>r DEF EvalRowType
<1>c. 0 \in 0 .. Cases /\ Cases \in 0 .. Cases
  OBVIOUS
<1>1. ASSUME NEW j \in EvalJobs, NEW gated \in BOOLEAN, Eval!PrepareRun(j, gated) PROVE EvalInv'
  <2>1. /\ evalRow' = [evalRow EXCEPT ![j] = [evalRow[j] EXCEPT !.status = "pending"]]
        /\ evalRow' \in [EvalJobs -> EvalRowType]
    BY <1>1, <1>t, <1>u, <1>p DEF Eval!PrepareRun, EvalTyping
  <2>2. evalRow'[j].gate = "none" /\ evalRow'[j].status = "pending"
    BY <1>1, <1>t, <1>u, <1>p, <2>1 DEF Eval!PrepareRun, EvalTyping, EvalInv, GateOnce
  <2>3. \A k \in EvalJobs \ {j} : evalRow'[k] = evalRow[k]
    BY <2>1, <1>t DEF EvalTyping
  <2>4. [evalTask[j] EXCEPT !.pc = "pending", !.gated = gated] \in EvalTaskType
    BY <1>r, <1>p DEF EvalTaskType
  <2>5. evalTask' = [evalTask EXCEPT ![j] = [evalTask[j] EXCEPT !.pc = "pending", !.gated = gated]]
    BY <1>1, <1>t DEF Eval!PrepareRun, EvalTyping
  <2>6. evalTask' \in [EvalJobs -> EvalTaskType] /\ \A k \in EvalJobs \ {j} : evalTask'[k] = evalTask[k]
    BY <2>4, <2>5, <1>t DEF EvalTyping
  <2>7. ~Eval!InRun(j)'
    BY <2>5, <1>r, <1>t DEF Eval!InRun, EvalTyping, EvalTaskType
  <2>8. EvalTyping'
    BY <1>1, <1>t, <2>1, <2>6 DEF Eval!PrepareRun, EvalTyping
  <2>9. GateOnce' /\ InFlightPassed' /\ Eval!PromotedPassedItsGate'
    <3>1. GateOnce'
      BY <2>2, <2>3, <2>6 DEF EvalInv, GateOnce
    <3>2. \A a \in Promoters : j \notin promote[a]
      BY <1>1 DEF Eval!PrepareRun, EvalInv, GateOnce, InFlightPassed
    <3>3. InFlightPassed'
      BY <1>1, <1>t, <2>3, <3>2 DEF Eval!PrepareRun, EvalInv, InFlightPassed, EvalTyping
    <3>4. Eval!PromotedPassedItsGate'
      BY <2>2, <2>3 DEF EvalInv, Eval!PromotedPassedItsGate
    <3> QED BY <3>1, <3>3, <3>4
  <2>10. ~Eval!InRun(j)
    BY <1>1 DEF Eval!PrepareRun, EvalInv, GateOnce, Eval!InRun
  <2>11. LoaderKept' /\ Eval!OverrideStaysInItsRun'
    BY <1>1, <2>6, <2>7, <2>10, LoaderStands DEF Eval!PrepareRun
  <2> QED BY <1>l, <2>8, <2>9, <2>11 DEF EvalInv
<1>2. ASSUME NEW j \in EvalJobs, Eval!Execute(j) \/ Eval!LoadDatasetFails(j) \/ Eval!GateRaises(j)
      PROVE  EvalInv'
  <2>1. PICK pc \in {"start", "none", "failing"} : Eval!Go(j, pc)
    BY <1>2 DEF Eval!Execute, Eval!LoadDatasetFails, Eval!GateRaises
  <2>2. /\ evalTask' \in [EvalJobs -> EvalTaskType]
        /\ evalTask'[j].pc = pc
        /\ \A k \in EvalJobs \ {j} : evalTask'[k] = evalTask[k]
    BY <2>1, <1>t, <1>p, GoOneJob
  <2>3. /\ evalTask[j].pc \in {"pending", "begin", "gate"}
        /\ UNCHANGED <<visible, crashed, evalRow, promote, loader, used, overlapped>>
    BY <1>2 DEF Eval!Execute, Eval!LoadDatasetFails, Eval!GateRaises, Eval!At
  <2>4. EvalTyping'
    BY <1>t, <2>2, <2>3 DEF EvalTyping
  <2>5. GateOnce' /\ InFlightPassed' /\ Eval!PromotedPassedItsGate'
    BY <2>2, <2>3, EvalRowsStand
  <2>6. LoaderKept' /\ Eval!OverrideStaysInItsRun'
    BY <2>2, <2>3, LoaderStands DEF Eval!InRun
  <2> QED BY <1>l, <2>4, <2>5, <2>6 DEF EvalInv
<1>3. ASSUME NEW j \in EvalJobs, NEW row \in EvalRowType, NEW pc \in EvalTaskStates,
             Eval!Update(j, row), Eval!Go(j, pc), evalTask[j].pc \notin {"none", "case", "graph"},
             pc \notin {"case", "graph"}, UNCHANGED <<visible, crashed, promote, loader, used, overlapped>>,
             row.status \notin {"none", "promoted"},
             pc \notin {"none", "failing"} =>
                evalTask[j].pc # "failing" /\ row.gate = evalRow[j].gate,
             evalTask[j].pc = "failing" => row.gate = evalRow[j].gate
      PROVE  EvalInv'
  <2>1. /\ evalRow' \in [EvalJobs -> EvalRowType]
        /\ evalRow'[j] \in {evalRow[j], row}
        /\ \A k \in EvalJobs \ {j} : evalRow'[k] = evalRow[k]
    BY <1>3, <1>t, UpdateOneJob
  <2>2. /\ evalTask' \in [EvalJobs -> EvalTaskType]
        /\ evalTask'[j].pc = pc
        /\ \A k \in EvalJobs \ {j} : evalTask'[k] = evalTask[k]
    BY <1>3, <1>t, GoOneJob
  <2>3. EvalTyping'
    BY <1>3, <1>t, <2>1, <2>2 DEF EvalTyping
  <2>4. GateOnce'
    <3>1. evalRow[j].status # "none" /\ evalRow'[j].status # "none"
      BY <1>3, <2>1 DEF EvalInv, GateOnce
    <3>2. pc \notin {"none", "failing"} => evalRow'[j].gate = "none"
      BY <1>3, <2>1 DEF EvalInv, GateOnce
    <3> QED BY <2>1, <2>2, <3>1, <3>2 DEF EvalInv, GateOnce
  <2>5. InFlightPassed'
    <3> SUFFICES ASSUME NEW a \in Promoters, NEW k \in promote[a]
                 PROVE  evalRow'[k].gate = "passed"
      BY <1>3 DEF InFlightPassed
    <3>1. k \in EvalJobs /\ evalRow[k].gate = "passed"
      BY <1>t DEF EvalTyping, EvalInv, InFlightPassed
    <3>2. CASE k = j
      BY <1>3, <2>1, <3>1, <3>2 DEF EvalInv, GateOnce
    <3> QED BY <2>1, <3>1, <3>2
  <2>6. Eval!PromotedPassedItsGate'
    BY <1>3, <2>1 DEF EvalInv, Eval!PromotedPassedItsGate
  <2>7. LoaderKept' /\ Eval!OverrideStaysInItsRun'
    BY <1>3, <2>2, LoaderStands DEF Eval!InRun
  <2> QED BY <1>l, <2>3, <2>4, <2>5, <2>6, <2>7 DEF EvalInv
<1>4. ASSUME NEW j \in EvalJobs, Eval!MarkRunning(j) PROVE EvalInv'
  <2>1. PICK pc \in {"begin", "none"} : Eval!Go(j, pc)
    BY <1>4 DEF Eval!MarkRunning
  <2> QED BY <1>3, <1>4, <1>p, <1>u, <2>1 DEF Eval!MarkRunning, Eval!At
<1>5. ASSUME NEW j \in EvalJobs, NEW gate \in {"none", "passed", "failed"}, Eval!Complete(j, gate)
      PROVE  EvalInv'
  <2>1. [status |-> "completed", gate |-> gate] \in EvalRowType
    BY <1>p DEF EvalRowType
  <2>2. PICK pc \in {"none", "failing"} : Eval!Go(j, pc)
    BY <1>5 DEF Eval!Complete
  <2> DEFINE row == [status |-> "completed", gate |-> gate]
  <2>3. row.status = "completed"
    OBVIOUS
  <2>4. Eval!Update(j, row)
    BY <1>5 DEF Eval!Complete
  <2>5. evalTask[j].pc = "gate" /\ UNCHANGED <<visible, crashed, promote, loader, used, overlapped>>
    BY <1>5 DEF Eval!Complete, Eval!At
  <2>6. pc \in EvalTaskStates
    BY <1>p
  <2> HIDE DEF row
  <2> QED BY <1>3, <2>1, <2>2, <2>3, <2>4, <2>5, <2>6 DEF row
<1>6. ASSUME NEW j \in EvalJobs, Eval!Fail(j) PROVE EvalInv'
  BY <1>3, <1>6, <1>p, <1>u DEF Eval!Fail, Eval!At
<1>7. ASSUME NEW j \in EvalJobs, Eval!RunnerInit(j) PROVE EvalInv'
  <2> DEFINE task == [evalTask[j] EXCEPT !.pc = "case", !.base = loader, !.original = loader,
                                         !.left = Cases]
  <2>1. task \in EvalTaskType
    BY <1>c, <1>p, <1>r, <1>t DEF EvalTaskType, EvalTyping
  <2>2. task.pc = "case" /\ task.base = loader /\ task.original = loader
    BY <1>r DEF EvalTaskType
  <2>3. evalTask' = [evalTask EXCEPT ![j] = task]
    BY <1>7, <1>t DEF Eval!RunnerInit, EvalTyping
  <2> HIDE DEF task
  <2>4. evalTask' \in [EvalJobs -> EvalTaskType] /\ evalTask'[j] = task
    BY <2>1, <2>3, <1>t DEF EvalTyping
  <2>5. \A k \in EvalJobs \ {j} : evalTask'[k] = evalTask[k]
    BY <2>3, <1>t DEF EvalTyping
  <2>6. /\ evalTask[j].pc = "begin" /\ loader' = Append(loader, j)
        /\ UNCHANGED <<visible, crashed, evalRow, used, promote>>
    BY <1>7 DEF Eval!RunnerInit, Eval!At
  <2>7. loader' \in Seq(EvalJobs)
    BY <2>6, <1>t DEF EvalTyping
  <2>8. overlapped' = (overlapped \/ \E k \in EvalJobs \ {j} : Eval!InRun(k))
    BY <1>7 DEF Eval!RunnerInit
  <2>9. EvalTyping'
    BY <2>4, <2>6, <2>7, <2>8, <1>t DEF EvalTyping
  <2>10. GateOnce' /\ InFlightPassed' /\ Eval!PromotedPassedItsGate'
    BY <2>5, <2>6, EvalRowsStand
  <2>11. ~overlapped' => loader = <<>> /\ \A k \in EvalJobs : ~Eval!InRun(k)
    BY <2>6, <2>8 DEF EvalInv, Eval!OverrideStaysInItsRun, Eval!InRun
  <2>12. ~overlapped' => loader' = <<j>>
    BY <2>6, <2>11
  <2>13. Eval!InRun(j)' /\ \A k \in EvalJobs \ {j} : Eval!InRun(k)' <=> Eval!InRun(k)
    BY <2>2, <2>4, <2>5 DEF Eval!InRun
  <2>14. LoaderKept'
    BY <2>2, <2>4, <2>11, <2>12, <2>13 DEF LoaderKept
  <2>15. Eval!OverrideStaysInItsRun'
    BY <2>6, <2>8, <2>13 DEF EvalInv, Eval!OverrideStaysInItsRun
  <2> QED BY <1>l, <2>9, <2>10, <2>14, <2>15 DEF EvalInv
<1>8. ASSUME NEW j \in EvalJobs, Eval!CaseLoadsConfig(j) PROVE EvalInv'
  <2>1. /\ evalTask' \in [EvalJobs -> EvalTaskType]
        /\ evalTask'[j].pc = "graph"
        /\ evalTask'[j].base = evalTask[j].base /\ evalTask'[j].original = evalTask[j].original
        /\ \A k \in EvalJobs \ {j} : evalTask'[k] = evalTask[k]
    BY <1>8, <1>t, <1>p, GoOneJob DEF Eval!CaseLoadsConfig
  <2>2. evalTask[j].pc = "case" /\ UNCHANGED <<visible, crashed, evalRow, loader, promote, overlapped>>
    BY <1>8 DEF Eval!CaseLoadsConfig, Eval!At
  <2>3. /\ used' \in [EvalJobs -> SUBSET Seq(EvalJobs)]
        /\ used'[j] = used[j] \cup {loader}
        /\ \A k \in EvalJobs \ {j} : used'[k] = used[k]
    BY <1>8, <1>t DEF Eval!CaseLoadsConfig, EvalTyping
  <2>4. EvalTyping'
    BY <1>t, <2>1, <2>2, <2>3 DEF EvalTyping
  <2>5. GateOnce' /\ InFlightPassed' /\ Eval!PromotedPassedItsGate'
    BY <2>1, <2>2, EvalRowsStand
  <2>6. Eval!InRun(j) /\ \A k \in EvalJobs : Eval!InRun(k)' <=> Eval!InRun(k)
    BY <2>1, <2>2 DEF Eval!InRun
  <2>7. LoaderKept'
    BY <2>1, <2>2, <2>6 DEF EvalInv, LoaderKept
  <2>8. ~overlapped => loader = <<j>>
    BY <2>6 DEF EvalInv, LoaderKept
  <2>9. Eval!OverrideStaysInItsRun'
    BY <2>2, <2>3, <2>6, <2>8 DEF EvalInv, Eval!OverrideStaysInItsRun
  <2> QED BY <1>l, <2>4, <2>5, <2>7, <2>9 DEF EvalInv
<1>9. ASSUME NEW j \in EvalJobs, Eval!InRun(j), NEW task \in EvalTaskType,
             evalTask' = [evalTask EXCEPT ![j] = task],
             task.base = evalTask[j].base, task.original = evalTask[j].original,
             \/ task.pc = "case" /\ loader' = Append(evalTask[j].base, j)
             \/ task.pc \in {"gate", "failing"} /\ loader' = evalTask[j].original,
             UNCHANGED <<visible, crashed, evalRow, used, promote, overlapped>>
      PROVE  EvalInv'
  <2>1. evalTask' \in [EvalJobs -> EvalTaskType] /\ evalTask'[j] = task
        /\ \A k \in EvalJobs \ {j} : evalTask'[k] = evalTask[k]
    BY <1>9, <1>t DEF EvalTyping
  <2>2. loader' \in Seq(EvalJobs)
    <3>1. evalTask[j].base \in Seq(EvalJobs) /\ evalTask[j].original \in Seq(EvalJobs)
      BY <1>r DEF EvalTaskType
    <3>2. Append(evalTask[j].base, j) \in Seq(EvalJobs)
      BY <3>1
    <3> QED BY <1>9, <3>1, <3>2
  <2>3. EvalTyping'
    BY <1>9, <1>t, <2>1, <2>2 DEF EvalTyping
  <2>4. evalTask[j].pc \notin {"none", "failing"}
    BY <1>9 DEF Eval!InRun
  <2>5. GateOnce' /\ InFlightPassed' /\ Eval!PromotedPassedItsGate'
    BY <1>9, <2>1, <2>4, EvalRowsStand
  <2>6. ~overlapped => /\ \A k \in EvalJobs \ {j} : ~Eval!InRun(k)
                       /\ evalTask[j].base = <<>> /\ evalTask[j].original = <<>>
    BY <1>9 DEF EvalInv, LoaderKept
  <2>7. \A k \in EvalJobs \ {j} : Eval!InRun(k)' <=> Eval!InRun(k)
    BY <2>1 DEF Eval!InRun
  <2>8. CASE task.pc = "case" /\ loader' = Append(evalTask[j].base, j)
    <3>1. ~overlapped => loader' = <<j>>
      <4>1. Append(<<>>, j) = <<j>>
        OBVIOUS
      <4> QED BY <2>6, <2>8, <4>1
    <3>2. Eval!InRun(j)'
      BY <2>1, <2>8 DEF Eval!InRun
    <3>3. LoaderKept'
      BY <1>9, <2>1, <2>6, <2>7, <3>1 DEF LoaderKept
    <3>4. Eval!OverrideStaysInItsRun'
      BY <1>9, <3>2 DEF EvalInv, Eval!OverrideStaysInItsRun
    <3> QED BY <1>l, <2>3, <2>5, <3>3, <3>4 DEF EvalInv
  <2>9. CASE task.pc \in {"gate", "failing"} /\ loader' = evalTask[j].original
    <3>1. ~overlapped => loader' = <<>> /\ \A k \in EvalJobs : ~Eval!InRun(k)'
      BY <2>1, <2>6, <2>7, <2>9 DEF Eval!InRun
    <3>2. LoaderKept' /\ Eval!OverrideStaysInItsRun'
      BY <1>9, <3>1 DEF EvalInv, LoaderKept, Eval!OverrideStaysInItsRun
    <3> QED BY <1>l, <2>3, <2>5, <3>2 DEF EvalInv
  <2> QED BY <1>9, <2>8, <2>9
<1>10. ASSUME NEW j \in EvalJobs, Eval!CaseEnds(j) PROVE EvalInv'
  <2>0. Eval!InRun(j) /\ UNCHANGED <<visible, crashed, evalRow, used, promote, overlapped>>
    BY <1>10 DEF Eval!CaseEnds, Eval!At, Eval!InRun
  <2>1. CASE evalTask[j].left > 1
    <3> DEFINE task == [evalTask[j] EXCEPT !.pc = "case", !.left = evalTask[j].left - 1]
    <3>1. evalTask[j].left \in 0 .. Cases
      BY <1>r DEF EvalTaskType
    <3>2. task \in EvalTaskType /\ task.pc = "case" /\ task.base = evalTask[j].base
          /\ task.original = evalTask[j].original
      <4>1. evalTask[j].left - 1 \in 0 .. Cases
        BY <2>1, <3>1
      <4>2. evalTask[j] \in EvalTaskType /\ "case" \in EvalTaskStates
        BY <1>r, <1>p
      <4> QED BY <4>1, <4>2 DEF EvalTaskType
    <3>3. evalTask' = [evalTask EXCEPT ![j] = task] /\ loader' = Append(evalTask[j].base, j)
      BY <1>10, <1>t, <2>1 DEF Eval!CaseEnds, EvalTyping
    <3> HIDE DEF task
    <3> QED BY <1>9, <2>0, <3>2, <3>3
  <2>2. CASE ~(evalTask[j].left > 1)
    <3> DEFINE task == [evalTask[j] EXCEPT !.pc = "gate", !.left = 0]
    <3>1. task \in EvalTaskType /\ task.pc = "gate" /\ task.base = evalTask[j].base
          /\ task.original = evalTask[j].original
      BY <1>c, <1>r, <1>p DEF EvalTaskType
    <3>2. evalTask' = [evalTask EXCEPT ![j] = task] /\ loader' = evalTask[j].original
      BY <1>10, <1>t, <2>2 DEF Eval!CaseEnds, Eval!RestoreLoader, EvalTyping
    <3> HIDE DEF task
    <3> QED BY <1>9, <2>0, <3>1, <3>2
  <2> QED BY <2>1, <2>2
<1>11. ASSUME NEW j \in EvalJobs, Eval!CaseRaises(j) PROVE EvalInv'
  <2> DEFINE task == [evalTask[j] EXCEPT !.pc = "failing"]
  <2>1. task \in EvalTaskType /\ task.pc = "failing" /\ task.base = evalTask[j].base
        /\ task.original = evalTask[j].original
    BY <1>r, <1>p DEF EvalTaskType
  <2>2. evalTask' = [evalTask EXCEPT ![j] = task] /\ loader' = evalTask[j].original
    BY <1>11, <1>t DEF Eval!CaseRaises, Eval!RestoreLoader, Eval!Go, EvalTyping
  <2>3. Eval!InRun(j) /\ UNCHANGED <<visible, crashed, evalRow, used, promote, overlapped>>
    BY <1>11 DEF Eval!CaseRaises
  <2> HIDE DEF task
  <2> QED BY <1>9, <2>1, <2>2, <2>3
<1>12. ASSUME NEW a \in Promoters, NEW j \in EvalJobs, Eval!PromoteRead(a, j) PROVE EvalInv'
  <2>1. EvalTyping'
    BY <1>12, <1>t DEF Eval!PromoteRead, EvalTyping
  <2>2. InFlightPassed'
    BY <1>12, <1>t DEF Eval!PromoteRead, Eval!GatePassed, EvalInv, InFlightPassed, EvalTyping
  <2>3. GateOnce' /\ Eval!PromotedPassedItsGate'
    BY <1>12 DEF Eval!PromoteRead, EvalInv, GateOnce, Eval!PromotedPassedItsGate
  <2>4. LoaderKept' /\ Eval!OverrideStaysInItsRun'
    BY <1>12 DEF Eval!PromoteRead, EvalInv, LoaderKept, Eval!OverrideStaysInItsRun, Eval!InRun
  <2> QED BY <1>l, <2>1, <2>2, <2>3, <2>4 DEF EvalInv
<1>13. ASSUME NEW a \in Promoters, Eval!PromoteWrite(a) PROVE EvalInv'
  <2>1. PICK j \in promote[a] : Eval!Update(j, [evalRow[j] EXCEPT !.status = "promoted"])
    BY <1>13 DEF Eval!PromoteWrite
  <2>2. j \in EvalJobs /\ evalRow[j].gate = "passed"
    BY <1>t DEF EvalTyping, EvalInv, InFlightPassed
  <2>3. /\ evalRow' \in [EvalJobs -> EvalRowType]
        /\ evalRow'[j] \in {evalRow[j], [evalRow[j] EXCEPT !.status = "promoted"]}
        /\ \A k \in EvalJobs \ {j} : evalRow'[k] = evalRow[k]
    BY <2>1, <2>2, <1>t, <1>u, <1>p, UpdateOneJob
  <2>4. evalRow'[j].gate = "passed" /\ evalRow'[j].status \in {evalRow[j].status, "promoted"}
    <3>1. "promoted" \in Eval!Statuses
      BY <1>p
    <3>2. /\ [evalRow[j] EXCEPT !.status = "promoted"].status = "promoted"
          /\ [evalRow[j] EXCEPT !.status = "promoted"].gate = "passed"
      BY <2>2, <3>1, <1>u
    <3> QED BY <2>2, <2>3, <3>2
  <2>5. promote' \in [Promoters -> SUBSET EvalJobs]
        /\ \A b \in Promoters : promote'[b] \subseteq promote[b]
    BY <1>13, <1>t DEF Eval!PromoteWrite, EvalTyping
  <2>6. UNCHANGED <<visible, crashed, evalTask, loader, used, overlapped>>
    BY <1>13 DEF Eval!PromoteWrite
  <2>7. EvalTyping'
    BY <1>t, <2>3, <2>5, <2>6 DEF EvalTyping
  <2>8. \A k \in EvalJobs : evalRow'[k].gate = evalRow[k].gate
                            /\ (evalRow'[k].status = "none" => evalRow[k].status = "none")
    BY <2>2, <2>3, <2>4
  <2>9. GateOnce'
    BY <2>6, <2>8 DEF EvalInv, GateOnce
  <2>10. InFlightPassed'
    BY <1>t, <2>5, <2>8 DEF EvalInv, InFlightPassed, EvalTyping
  <2>11. Eval!PromotedPassedItsGate'
    BY <2>3, <2>4 DEF EvalInv, Eval!PromotedPassedItsGate
  <2>12. LoaderKept' /\ Eval!OverrideStaysInItsRun'
    BY <2>6 DEF EvalInv, LoaderKept, Eval!OverrideStaysInItsRun, Eval!InRun
  <2> QED BY <1>l, <2>7, <2>9, <2>10, <2>11, <2>12 DEF EvalInv
<1>14. ASSUME Eval!Crash PROVE EvalInv'
  <2>1. Eval!NoTask \in EvalTaskType /\ Eval!NoTask.pc = "none"
    BY <1>p DEF Eval!NoTask, EvalTaskType
  <2>2. /\ evalTask' \in [EvalJobs -> EvalTaskType]
        /\ \A j \in EvalJobs : evalTask'[j].pc = "none"
    BY <1>14, <2>1 DEF Eval!Crash
  <2>3. loader' = <<>> /\ crashed' = TRUE /\ UNCHANGED <<visible, evalRow, used, overlapped>>
    BY <1>14 DEF Eval!Crash
  <2>4. promote' \in [Promoters -> SUBSET EvalJobs] /\ \A a \in Promoters : promote'[a] = {}
    BY <1>14 DEF Eval!Crash
  <2>5. EvalTyping'
    BY <1>t, <2>2, <2>3, <2>4 DEF EvalTyping
  <2>6. GateOnce' /\ InFlightPassed' /\ Eval!PromotedPassedItsGate'
    BY <2>2, <2>3, <2>4 DEF EvalInv, GateOnce, InFlightPassed, Eval!PromotedPassedItsGate
  <2>7. LoaderKept' /\ Eval!OverrideStaysInItsRun'
    BY <2>2, <2>3 DEF EvalInv, LoaderKept, Eval!OverrideStaysInItsRun, Eval!InRun
  <2> QED BY <1>l, <2>5, <2>6, <2>7 DEF EvalInv
<1>15. ASSUME NEW j \in EvalJobs, Eval!FailRaises(j) PROVE EvalInv'
  <2>1. /\ evalTask' \in [EvalJobs -> EvalTaskType]
        /\ evalTask'[j].pc = "none"
        /\ \A k \in EvalJobs \ {j} : evalTask'[k] = evalTask[k]
    BY <1>15, <1>t, <1>p, GoOneJob DEF Eval!FailRaises
  <2>2. /\ evalTask[j].pc = "failing"
        /\ UNCHANGED <<visible, crashed, evalRow, promote, loader, used, overlapped>>
    BY <1>15 DEF Eval!FailRaises, Eval!At
  <2>3. EvalTyping'
    BY <1>t, <2>1, <2>2 DEF EvalTyping
  <2>4. GateOnce'
    BY <2>1, <2>2 DEF EvalInv, GateOnce
  <2>5. InFlightPassed' /\ Eval!PromotedPassedItsGate'
    BY <2>2 DEF EvalInv, InFlightPassed, Eval!PromotedPassedItsGate
  <2>6. LoaderKept' /\ Eval!OverrideStaysInItsRun'
    BY <2>1, <2>2, LoaderStands DEF Eval!InRun
  <2> QED BY <1>l, <2>3, <2>4, <2>5, <2>6 DEF EvalInv
<1> QED BY <1>1, <1>2, <1>4, <1>5, <1>6, <1>7, <1>8, <1>10, <1>11, <1>12, <1>13, <1>14, <1>15
        DEF Eval!Next, Eval!TaskStep

\* A tenant without an evaluation job, and the loader of the live chat in place.
LEMMA EvalInit ==
    ASSUME Cases \in Nat, Eval!Init
    PROVE  EvalInv
<1>1. Eval!NoTask \in EvalTaskType /\ Eval!NoTask.pc = "none"
  BY DEF Eval!NoTask, EvalTaskType, EvalTaskStates
<1>2. evalTask \in [EvalJobs -> EvalTaskType] /\ \A j \in EvalJobs : evalTask[j].pc = "none"
  BY <1>1 DEF Eval!Init
<1>3. EvalTyping
  <2>1. [status |-> "none", gate |-> "none"] \in EvalRowType
    BY DEF EvalRowType, Eval!Statuses
  <2>2. evalRow \in [EvalJobs -> EvalRowType]
    BY <2>1 DEF Eval!Init
  <2>3. loader \in Seq(EvalJobs)
    BY DEF Eval!Init
  <2>4. /\ used \in [EvalJobs -> SUBSET Seq(EvalJobs)]
        /\ visible \in BOOLEAN /\ overlapped \in BOOLEAN /\ crashed \in BOOLEAN
    BY DEF Eval!Init
  <2>5. promote \in [Promoters -> SUBSET EvalJobs]
    BY DEF Eval!Init
  <2> QED BY <1>2, <2>2, <2>3, <2>4, <2>5 DEF EvalTyping
<1>4. GateOnce /\ InFlightPassed /\ Eval!PromotedPassedItsGate
  BY <1>2 DEF Eval!Init, GateOnce, InFlightPassed, Eval!PromotedPassedItsGate
<1>5. LoaderKept /\ Eval!OverrideStaysInItsRun
  BY <1>2 DEF Eval!Init, LoaderKept, Eval!OverrideStaysInItsRun, Eval!InRun
<1>6. lost = {}
  BY DEF Eval!Init
<1> QED BY <1>3, <1>4, <1>5, <1>6 DEF EvalInv

\* execute: the invariant holds the type invariant of the module.
LEMMA EvalIsTyped ==
    ASSUME EvalInv
    PROVE  Eval!TypeOK
<1>1. \A j \in EvalJobs : evalTask[j] \in EvalTaskType
  BY DEF EvalInv, EvalTyping
<1>2. \A j \in EvalJobs :
        /\ evalTask[j].pc \in EvalTaskStates /\ evalTask[j].left \in 0 .. Cases
        /\ evalTask[j].base \in Seq(EvalJobs) /\ evalTask[j].original \in Seq(EvalJobs)
  BY <1>1 DEF EvalTaskType
<1> QED BY <1>2 DEF EvalInv, EvalTyping, Eval!TypeOK, EvalTaskStates, EvalRowType, Eval!Loaders

\* A step that changes nothing keeps the invariant.
LEMMA EvalStutter ==
    ASSUME EvalInv, UNCHANGED Eval!evalVars
    PROVE  EvalInv'
BY DEF EvalInv, Eval!evalVars, EvalTyping, GateOnce, InFlightPassed,
       Eval!PromotedPassedItsGate, LoaderKept,
       Eval!OverrideStaysInItsRun, Eval!InRun

\* A step of another part, or none, leaves the variables of this one alone.
LEMMA EvalPart ==
    [Next]_vars => Eval!Next \/ UNCHANGED evalVars
<1>1. EvalStep => Eval!Next
  BY DEF EvalStep
<1>2. [Next]_vars /\ ~EvalStep => UNCHANGED evalVars
  BY DEF Next, vars, SchemaStep, EvalStep, LoraStep, KeyStep, TenantStep, ItemStep, CronStep,
         SchemaOnly, EvalOnly, LoraOnly, KeyOnly, TenantOnly, ItemOnly, CronOnly, evalVars
<1> QED BY <1>1, <1>2

\* The invariant that is proved for the part alone holds in the composition.
LEMMA EvalInvariant ==
    Spec => []EvalInv
<1>1. Init => EvalInv
  BY EvalInit, ControlPlaneAssumption DEF Init
<1>2. EvalInv /\ [Next]_vars => EvalInv'
  <2> SUFFICES ASSUME EvalInv, [Next]_vars PROVE EvalInv'
    OBVIOUS
  <2>1. CASE Eval!Next
    BY <2>1, EvalKept, ControlPlaneAssumption
  <2>2. CASE UNCHANGED evalVars
    BY <2>2, EvalStutter DEF evalVars, Eval!evalVars
  <2> QED BY <2>1, <2>2, EvalPart
<1> QED BY <1>1, <1>2, PTL DEF Spec

\* promote: however promotions, runs, failed updates and restarts interleave, a
\* job that is marked promoted has passed the gate of its own run.
THEOREM PromotionsPassedTheirGate == Spec => []PromotedPassedItsGate
<1>1. EvalInv => PromotedPassedItsGate
  BY DEF EvalInv, PromotedPassedItsGate, Eval!PromotedPassedItsGate
<1> QED BY <1>1, EvalInvariant, PTL

\* _run_one: as long as no two runs have been inside run() at once, a job is
\* measured with its own override only, and the live chat has its own loader
\* whenever no case is running, also after a case that raised.
THEOREM OverridesStayInTheirRun == Spec => []OverrideStaysInItsRun
<1>1. EvalInv => OverrideStaysInItsRun
  BY DEF EvalInv, OverrideStaysInItsRun, Eval!OverrideStaysInItsRun
<1> QED BY <1>1, EvalInvariant, PTL

-----------------------------------------------------------------------------
(* Assessment items.                                                       *)

ItemP == INSTANCE AssessmentItems_proofs

\* Both instances of the module have the same actions.
LEMMA ItemSameNext ==
    Item!Next => ItemP!Next
<1>1. ASSUME NEW q, NEW mode, NEW sound
      PROVE  Item!ImportedRow(q, mode, sound) = ItemP!ImportedRow(q, mode, sound)
  BY DEF Item!ImportedRow, ItemP!ImportedRow, Item!ImportedStatus, ItemP!ImportedStatus, Item!Row,
         ItemP!Row
<1>2. ASSUME NEW q PROVE Item!ImportedRows(q) = ItemP!ImportedRows(q)
  BY <1>1, Zenon DEF Item!ImportedRows, ItemP!ImportedRows, Item!Modes, ItemP!Modes,
         Item!Rows, ItemP!Rows, Item!Statuses, ItemP!Statuses
<1>3. ASSUME NEW c \in Clients
      PROVE  /\ Item!ExtractRead(c) => ItemP!ExtractRead(c)
             /\ Item!Touch(c) => ItemP!Touch(c)
             /\ Item!Raises(c) => ItemP!Raises(c)
  BY DEF Item!ExtractRead, ItemP!ExtractRead, Item!Touch, ItemP!Touch, Item!Raises,
         ItemP!Raises, Item!At, ItemP!At, Item!Stay, ItemP!Stay, Item!Unspent, ItemP!Unspent,
         Item!Idle, ItemP!Idle, Item!Statuses, ItemP!Statuses, Item!Items, ItemP!Items
<1>4. ASSUME NEW c \in Clients
      PROVE  /\ Item!StartGenerate(c) => ItemP!StartGenerate(c)
             /\ Item!GenerateItem(c) => ItemP!GenerateItem(c)
             /\ Item!EndGenerate(c) => ItemP!EndGenerate(c)
             /\ Item!StartFigureReuse(c) => ItemP!StartFigureReuse(c)
             /\ Item!FigureItem(c) => ItemP!FigureItem(c)
             /\ Item!Validate(c) => ItemP!Validate(c)
  BY DEF Item!StartGenerate, ItemP!StartGenerate, Item!GenerateItem, ItemP!GenerateItem,
         Item!EndGenerate, ItemP!EndGenerate, Item!StartFigureReuse, ItemP!StartFigureReuse,
         Item!FigureItem, ItemP!FigureItem, Item!Validate, ItemP!Validate, Item!At, ItemP!At,
         Item!Go, ItemP!Go, Item!Stay, ItemP!Stay, Item!Idle, ItemP!Idle, Item!Upsert,
         ItemP!Upsert, Item!Upserted, ItemP!Upserted, Item!Row, ItemP!Row, Item!Items,
         ItemP!Items, Item!Present, ItemP!Present, Item!Outcomes, ItemP!Outcomes
<1>5. ASSUME NEW c \in Clients
      PROVE  /\ Item!CreateRead(c) => ItemP!CreateRead(c)
             /\ Item!Create(c) => ItemP!Create(c)
             /\ Item!PatchRead(c) => ItemP!PatchRead(c)
             /\ Item!Patch(c) => ItemP!Patch(c)
  BY DEF Item!CreateRead, ItemP!CreateRead, Item!Create, ItemP!Create, Item!PatchRead,
         ItemP!PatchRead, Item!Patch, ItemP!Patch, Item!At, ItemP!At, Item!Go, ItemP!Go,
         Item!Stay, ItemP!Stay, Item!Idle, ItemP!Idle, Item!Upsert, ItemP!Upsert,
         Item!Upserted, ItemP!Upserted, Item!Row, ItemP!Row, Item!Items, ItemP!Items,
         Item!Present, ItemP!Present, Item!Statuses, ItemP!Statuses
<1>6. ASSUME NEW c \in Clients
      PROVE  /\ Item!ApproveRead(c) => ItemP!ApproveRead(c)
             /\ Item!Approve(c) => ItemP!Approve(c)
             /\ Item!ApproveAll(c) => ItemP!ApproveAll(c)
  BY DEF Item!ApproveRead, ItemP!ApproveRead, Item!Approve, ItemP!Approve, Item!ApproveAll,
         ItemP!ApproveAll, Item!At, ItemP!At, Item!Go, ItemP!Go, Item!Stay, ItemP!Stay,
         Item!Idle, ItemP!Idle, Item!Row, ItemP!Row, Item!Items, ItemP!Items, Item!Approvable,
         ItemP!Approvable
<1>7. ASSUME NEW c \in Clients
      PROVE  /\ Item!ImportRead(c) => ItemP!ImportRead(c)
             /\ Item!ImportItem(c) => ItemP!ImportItem(c)
             /\ Item!EndImport(c) => ItemP!EndImport(c)
  BY <1>2 DEF Item!ImportRead, ItemP!ImportRead, Item!ImportItem, ItemP!ImportItem, Item!EndImport,
         ItemP!EndImport, Item!At, ItemP!At, Item!Go, ItemP!Go, Item!Stay, ItemP!Stay,
         Item!Idle, ItemP!Idle, Item!Upsert, ItemP!Upsert, Item!Upserted, ItemP!Upserted,
         Item!Items, ItemP!Items, Item!Active, ItemP!Active, Item!Present, ItemP!Present,
         Item!Seen, ItemP!Seen
<1> QED BY <1>3, <1>4, <1>5, <1>6, <1>7 DEF Item!Next, ItemP!Next

\* Both instances of the module have the same initial states.
LEMMA ItemSameInit ==
    Item!Init => ItemP!Init
BY DEF Item!Init, ItemP!Init, Item!Items, ItemP!Items, Item!NoRow, ItemP!NoRow,
       Item!Row, ItemP!Row, Item!Idle, ItemP!Idle

\* A step of another part, or none, leaves the variables of this one alone.
LEMMA ItemPart ==
    [Next]_vars => ItemP!Next \/ UNCHANGED itemVars
<1>1. ItemStep => ItemP!Next
  BY ItemSameNext DEF ItemStep
<1>2. [Next]_vars /\ ~ItemStep => UNCHANGED itemVars
  BY DEF Next, vars, SchemaStep, EvalStep, LoraStep, KeyStep, TenantStep, ItemStep, CronStep,
         SchemaOnly, EvalOnly, LoraOnly, KeyOnly, TenantOnly, ItemOnly, CronOnly, itemVars
<1> QED BY <1>1, <1>2

\* The invariant that is proved for the part alone holds in the composition.
LEMMA ItemInvariant ==
    Spec => []ItemP!ItemInv
<1>1. Init => ItemP!ItemInv
  BY ItemSameInit, ItemP!ItemInit, ControlPlaneAssumption DEF Init
<1>2. ItemP!ItemInv /\ [Next]_vars => ItemP!ItemInv'
  <2> SUFFICES ASSUME ItemP!ItemInv, [Next]_vars PROVE ItemP!ItemInv'
    OBVIOUS
  <2>1. CASE ItemP!Next
    BY <2>1, ItemP!ItemNext, ControlPlaneAssumption
  <2>2. CASE UNCHANGED itemVars
    BY <2>2, ItemP!ItemStutter DEF itemVars, ItemP!itemVars
  <2> QED BY <2>1, <2>2, ItemPart
<1> QED BY <1>1, <1>2, PTL DEF Spec

\* validate, generate, figure_reuse, patch, approve and import: for any number of
\* concurrent clients, an approved item has been approved by an administrator,
\* also when a request writes back a row that it has read before.
THEOREM ItemsAreApprovedByDecision == Spec => []ApprovedByDecision
<1>1. ItemP!ItemInv => ApprovedByDecision
  BY DEF ItemP!ItemInv, ApprovedByDecision, Item!ApprovedByDecision, ItemP!ApprovedByDecision, Item!Items, ItemP!Items
<1> QED BY <1>1, ItemInvariant, PTL

\* So do the types, the count of uses and what the imports know.
LEMMA BankInvariant ==
    Spec => []ItemP!BankInv
<1>1. Init => ItemP!BankInv
  BY ItemSameInit, ItemP!BankInit DEF Init
<1>2. ItemP!BankInv /\ [Next]_vars => ItemP!BankInv'
  <2> SUFFICES ASSUME ItemP!BankInv, [Next]_vars PROVE ItemP!BankInv'
    OBVIOUS
  <2>1. CASE ItemP!Next
    BY <2>1, ItemP!BankNext, ControlPlaneAssumption
  <2>2. CASE UNCHANGED itemVars
    BY <2>2, ItemP!BankStutter DEF itemVars, ItemP!itemVars
  <2> QED BY <2>1, <2>2, ItemPart
<1> QED BY <1>1, <1>2, PTL DEF Spec

\* extract, touch_used, upsert: for any number of clients and items, an item has been
\* handed out no more often than its used_count says, whichever requests write whole
\* rows meanwhile.
THEOREM EveryUseIsCounted == Spec => []UsesAreCounted
<1>1. ItemP!BankInv => UsesAreCounted
  BY DEF ItemP!BankInv, UsesAreCounted, Item!UsesAreCounted, ItemP!UsesAreCounted,
         Item!Items, ItemP!Items
<1> QED BY <1>1, BankInvariant, PTL

\* import_pdf: for any number of clients, items and questions, an import adds no
\* second active item with a question of the bank or of its own file, unless
\* somebody else wrote to the bank meanwhile.
THEOREM ImportsAddNoDuplicate == Spec => ImportAddsNoDuplicate
<1> DEFINE Adds == \A c \in Clients :
             Item!At(c, "import") /\ itemReq'[c].step = "import" /\ ~itemReq'[c].dirty
                 => Item!Duplicates' \subseteq Item!Duplicates
<1>1. ItemP!BankInv /\ [Next]_vars => [Adds]_(Item!itemVars)
  <2> SUFFICES ASSUME ItemP!BankInv, ItemP!Next, NEW c \in Clients,
                      Item!At(c, "import"), itemReq'[c].step = "import", ~itemReq'[c].dirty
               PROVE  Item!Duplicates' \subseteq Item!Duplicates
    BY ItemPart DEF itemVars, Item!itemVars
  <2>1. ItemP!Duplicates' \subseteq ItemP!Duplicates
    BY ItemP!ImportIsNew, ControlPlaneAssumption DEF Item!At, ItemP!At
  <2> QED BY <2>1 DEF Item!Duplicates, ItemP!Duplicates, Item!Active, ItemP!Active, Item!Present,
                      ItemP!Present, Item!Items, ItemP!Items
<1>2. ImportAddsNoDuplicate <=> [][Adds]_(Item!itemVars)
  BY DEF ImportAddsNoDuplicate, Item!ImportAddsNoDuplicate
<1> HIDE DEF Adds
<1> QED BY <1>1, <1>2, BankInvariant, PTL DEF Spec

-----------------------------------------------------------------------------
(* LoRA adapters.                                                          *)

\* A request that will look at the row again, or is about to unload
Unloading(o) ==
    \/ loraReq[o] \in {"check", "activate", "rollback", "unload"}
    \/ loraReq[o] = "reread" /\ adapter = "retired"

(* What vLLM serves without an active row is in the hands of a request; a  *)
(* request that deletes the row has seen that it is not active.            *)
LoraInv ==
    /\ Lora!TypeOK
    /\ ~raced => \A o \in Operators : loraReq[o] = "delete" => adapter # "active"
    /\ ~raced /\ ~unheard /\ served /\ adapter # "active" => \E o \in Operators : Unloading(o)

\* A request takes a step and leaves row, weights and vLLM alone.
LEMMA LoraRequestMoves ==
    ASSUME LoraInv, NEW o \in Operators, NEW step \in Lora!Steps, Lora!Go(o, step),
           UNCHANGED <<adapter, served, raced, unheard>>,
           secret' \in BOOLEAN, file' \in BOOLEAN,
           step = "delete" => adapter # "active",
           Unloading(o) /\ served /\ adapter # "active" => Unloading(o)'
    PROVE  LoraInv'
<1>1. /\ Lora!TypeOK' /\ loraReq'[o] = step
      /\ \A p \in Operators : p # o => loraReq'[p] = loraReq[p]
  BY DEF LoraInv, Lora!TypeOK, Lora!Go
<1>2. \A p \in Operators : p # o => (Unloading(p) <=> Unloading(p)')
  BY <1>1 DEF Unloading
<1> QED BY <1>1, <1>2 DEF LoraInv

\* The row is written: whoever relied on it has been raced.
LEMMA LoraRowIsWritten ==
    ASSUME LoraInv, NEW o \in Operators, NEW status, Lora!Write(o, status),
           NEW step \in Lora!Steps, Lora!Go(o, step),
           status \in {"none", "registered", "active", "retired"},
           UNCHANGED <<secret, file, served, unheard>>,
           step # "delete",
           ~raced /\ served /\ status # "active" =>
               Unloading(o)' \/ (adapter # "active" /\ ~Unloading(o))
    PROVE  LoraInv'
<1>1. /\ Lora!TypeOK' /\ loraReq'[o] = step
      /\ \A p \in Operators : p # o => loraReq'[p] = loraReq[p]
  BY DEF LoraInv, Lora!TypeOK, Lora!Go, Lora!Write
<1>2. ~raced' => /\ ~raced
                 /\ \A p \in Operators \ {o} :
                      loraReq[p] \notin {"activate", "retire", "reread", "unload", "delete"}
  BY DEF Lora!Write
<1>3. ~raced' => \A p \in Operators : loraReq'[p] # "delete"
  BY <1>1, <1>2
<1>4. ASSUME ~raced', ~unheard', served', adapter' # "active"
      PROVE  \E p \in Operators : Unloading(p)'
  <2>1. CASE Unloading(o)'
    BY <2>1
  <2>2. CASE adapter # "active" /\ ~Unloading(o)
    <3>1. PICK p \in Operators : Unloading(p)
      BY <1>2, <1>4, <2>2 DEF LoraInv
    <3>2. p # o
      BY <2>2, <3>1
    <3>3. loraReq[p] \in {"check", "rollback"}
      BY <1>2, <1>4, <3>1, <3>2 DEF Unloading
    <3> QED BY <1>1, <3>2, <3>3 DEF Unloading
  <2> QED BY <1>2, <1>4, <2>1, <2>2 DEF Lora!Write
<1> QED BY <1>1, <1>3, <1>4 DEF LoraInv

\* vLLM unloads the adapter, or does not hear of it.
LEMMA LoraUnloads ==
    ASSUME LoraInv, NEW o \in Operators, Lora!Go(o, "idle"),
           \/ served' = FALSE /\ UNCHANGED unheard
           \/ unheard' = TRUE /\ UNCHANGED served,
           file' \in BOOLEAN, UNCHANGED <<adapter, secret, raced>>
    PROVE  LoraInv'
<1>1. /\ Lora!TypeOK' /\ loraReq'[o] = "idle"
      /\ \A p \in Operators : p # o => loraReq'[p] = loraReq[p]
  BY DEF LoraInv, Lora!TypeOK, Lora!Go, Lora!Steps
<1>2. ~unheard' /\ served' => FALSE
  OBVIOUS
<1> QED BY <1>1, <1>2 DEF LoraInv

\* Every step of a request, and a restart of vLLM, keep the invariant.
LEMMA LoraStepKeeps ==
    ASSUME LoraInv, Lora!Next
    PROVE  LoraInv'
<1> USE DEF Lora!At
<1>0. Lora!TypeOK
  BY DEF LoraInv
<1>1. ASSUME NEW o \in Operators,
             Lora!PutSecret(o) \/ Lora!CleanSecret(o) \/ Lora!ActivateRead(o)
                 \/ Lora!FetchWeights(o) \/ Lora!DeleteRead(o) \/ Lora!RetireRead(o)
      PROVE  LoraInv'
  <2>1. PICK step \in {"insert", "idle", "fetch", "load", "delete", "unload", "retire"} :
          Lora!Go(o, step) /\ (step = "delete" => adapter # "active")
    BY <1>1 DEF Lora!PutSecret, Lora!CleanSecret, Lora!ActivateRead, Lora!FetchWeights,
                Lora!DeleteRead, Lora!RetireRead
  <2>2. /\ UNCHANGED <<adapter, served, raced, unheard>>
        /\ secret' \in BOOLEAN /\ file' \in BOOLEAN
        /\ loraReq[o] \in {"idle", "clean", "fetch"}
    BY <1>0, <1>1 DEF Lora!PutSecret, Lora!CleanSecret, Lora!ActivateRead, Lora!FetchWeights,
                Lora!DeleteRead, Lora!RetireRead, Lora!TypeOK
  <2>3. step \in Lora!Steps /\ ~Unloading(o)
    BY <2>2 DEF Lora!Steps, Unloading
  <2> QED BY <2>1, <2>2, <2>3, LoraRequestMoves
<1>2. ASSUME NEW o \in Operators, Lora!RegistryCheck(o) PROVE LoraInv'
  <2> DEFINE step == IF Lora!Refuses THEN "rollback"
                     ELSE IF adapter = "active" THEN "idle" ELSE "activate"
  <2>1. /\ Lora!Go(o, step) /\ UNCHANGED <<adapter, secret, file, served, raced, unheard>>
    BY <1>2 DEF Lora!RegistryCheck
  <2>2. step \in Lora!Steps /\ step # "delete"
        /\ (adapter # "active" => step \in {"rollback", "activate"})
    BY DEF Lora!Steps
  <2> HIDE DEF step
  <2>3. loraReq'[o] = step
    BY <1>0, <2>1 DEF Lora!Go, Lora!TypeOK
  <2>4. adapter # "active" => Unloading(o)'
    BY <2>2, <2>3 DEF Unloading
  <2>5. secret' \in BOOLEAN /\ file' \in BOOLEAN
    BY <1>0, <2>1 DEF Lora!TypeOK
  <2> QED BY <2>1, <2>2, <2>4, <2>5, LoraRequestMoves
<1>3. ASSUME NEW o \in Operators, Lora!RetireReread(o) PROVE LoraInv'
  <2> DEFINE step == IF adapter = "retired" THEN "unload" ELSE "idle"
  <2>1. /\ Lora!Go(o, step) /\ UNCHANGED <<adapter, secret, file, served, raced, unheard>>
        /\ loraReq[o] = "reread"
    BY <1>3 DEF Lora!RetireReread
  <2>2. step \in Lora!Steps /\ step # "delete" /\ (adapter = "retired" => step = "unload")
    BY DEF Lora!Steps
  <2> HIDE DEF step
  <2>3. loraReq'[o] = step
    BY <1>0, <2>1 DEF Lora!Go, Lora!TypeOK
  <2>4. Unloading(o) => Unloading(o)'
    BY <2>1, <2>2, <2>3 DEF Unloading
  <2>5. secret' \in BOOLEAN /\ file' \in BOOLEAN
    BY <1>0, <2>1 DEF Lora!TypeOK
  <2> QED BY <2>1, <2>2, <2>4, <2>5, LoraRequestMoves
<1>4. ASSUME NEW o \in Operators, Lora!LoadAdapter(o) PROVE LoraInv'
  <2>1. CASE served' = TRUE /\ Lora!Go(o, "check") /\ UNCHANGED file
    <3>1. /\ Lora!TypeOK' /\ loraReq'[o] = "check"
          /\ \A p \in Operators : p # o => loraReq'[p] = loraReq[p]
          /\ UNCHANGED <<adapter, raced, unheard>>
      BY <1>0, <1>4, <2>1 DEF Lora!LoadAdapter, Lora!Go, Lora!TypeOK, Lora!Steps
    <3>2. Unloading(o)'
      BY <3>1 DEF Unloading
    <3> QED BY <3>1, <3>2 DEF LoraInv
  <2>2. CASE file' = FALSE /\ Lora!Go(o, "idle") /\ UNCHANGED served
    <3>1. /\ UNCHANGED <<adapter, served, raced, unheard>> /\ secret' \in BOOLEAN
          /\ file' \in BOOLEAN /\ "idle" \in Lora!Steps /\ ~Unloading(o)
      BY <1>0, <1>4, <2>2 DEF Lora!LoadAdapter, Lora!TypeOK, Lora!Steps, Unloading
    <3> QED BY <2>2, <3>1, LoraRequestMoves
  <2> QED BY <1>4, <2>1, <2>2 DEF Lora!LoadAdapter
<1>5. ASSUME NEW o \in Operators, Lora!Insert(o) PROVE LoraInv'
  <2>0. "idle" \in Lora!Steps /\ "clean" \in Lora!Steps /\ ~Unloading(o)
    BY <1>5 DEF Lora!Steps, Lora!Insert, Unloading
  <2>1. CASE adapter = "none" /\ Lora!Write(o, "registered") /\ Lora!Go(o, "idle")
    BY <1>5, <2>0, <2>1, LoraRowIsWritten DEF Lora!Insert
  <2>2. CASE Lora!Go(o, "clean") /\ UNCHANGED <<adapter, raced>>
    BY <1>0, <1>5, <2>0, <2>2, LoraRequestMoves DEF Lora!Insert, Lora!TypeOK
  <2> QED BY <1>5, <2>1, <2>2 DEF Lora!Insert
<1>6. ASSUME NEW o \in Operators, Lora!RegistryActivate(o) PROVE LoraInv'
  <2>0. "idle" \in Lora!Steps /\ "rollback" \in Lora!Steps
    BY DEF Lora!Steps
  <2>1. CASE adapter # "none" /\ Lora!Write(o, "active") /\ Lora!Go(o, "idle")
    BY <1>6, <2>0, <2>1, LoraRowIsWritten DEF Lora!RegistryActivate
  <2>2. CASE Lora!Go(o, "rollback") /\ UNCHANGED <<adapter, raced>>
    <3>1. Unloading(o)'
      BY <1>0, <2>2 DEF Lora!Go, Lora!TypeOK, Unloading
    <3> QED BY <1>0, <1>6, <2>0, <2>2, <3>1, LoraRequestMoves
            DEF Lora!RegistryActivate, Lora!TypeOK
  <2> QED BY <1>6, <2>1, <2>2 DEF Lora!RegistryActivate
<1>7. ASSUME NEW o \in Operators, Lora!RegistryRetire(o) PROVE LoraInv'
  <2>0. "reread" \in Lora!Steps /\ ~Unloading(o) /\ Lora!Go(o, "reread")
        /\ UNCHANGED <<secret, file, served, unheard>>
    BY <1>7 DEF Lora!Steps, Lora!RegistryRetire, Unloading
  <2>1. CASE adapter # "none"
    <3>1. Lora!Write(o, "retired")
      BY <1>7, <2>1 DEF Lora!RegistryRetire
    <3>2. Unloading(o)'
      BY <1>0, <2>0, <3>1 DEF Lora!Write, Lora!Go, Lora!TypeOK, Unloading
    <3> QED BY <2>0, <3>1, <3>2, LoraRowIsWritten
  <2>2. CASE adapter = "none"
    BY <1>0, <1>7, <2>0, <2>2, LoraRequestMoves DEF Lora!RegistryRetire, Lora!TypeOK
  <2> QED BY <2>1, <2>2
<1>8. ASSUME NEW o \in Operators, Lora!RegistryDelete(o) PROVE LoraInv'
  <2>0. "idle" \in Lora!Steps /\ ~Unloading(o) /\ Lora!Go(o, "idle")
        /\ UNCHANGED <<secret, file, served, unheard>> /\ (~raced => adapter # "active")
    BY <1>8 DEF Lora!Steps, Lora!RegistryDelete, Unloading, LoraInv
  <2>1. CASE adapter # "none"
    BY <1>8, <2>0, <2>1, LoraRowIsWritten DEF Lora!RegistryDelete
  <2>2. CASE adapter = "none"
    BY <1>0, <1>8, <2>0, <2>2, LoraRequestMoves DEF Lora!RegistryDelete, Lora!TypeOK
  <2> QED BY <2>1, <2>2
<1>9. ASSUME NEW o \in Operators, Lora!Rollback(o) \/ Lora!Unload(o) PROVE LoraInv'
  BY <1>0, <1>9, LoraUnloads DEF Lora!Rollback, Lora!Unload, Lora!TypeOK
<1>10. CASE Lora!VllmRestart
  <2>1. /\ Lora!TypeOK' /\ served' = FALSE /\ UNCHANGED <<adapter, loraReq, raced, unheard>>
    BY <1>0, <1>10 DEF Lora!VllmRestart, Lora!TypeOK
  <2> QED BY <2>1 DEF LoraInv
<1> QED BY <1>1, <1>2, <1>3, <1>4, <1>5, <1>6, <1>7, <1>8, <1>9, <1>10 DEF Lora!Next

\* A step of another part, or none, leaves the variables of this one alone.
LEMMA LoraPart ==
    [Next]_vars => Lora!Next \/ UNCHANGED loraVars
BY DEF Next, vars, SchemaStep, EvalStep, LoraStep, KeyStep, TenantStep, ItemStep, CronStep,
       SchemaOnly, EvalOnly, LoraOnly, KeyOnly, TenantOnly, ItemOnly, CronOnly, loraVars

\* The invariant holds in the composition.
LEMMA LoraInvariant ==
    Spec => []LoraInv
<1>1. Init => LoraInv
  <2> SUFFICES ASSUME Lora!Init PROVE LoraInv
    BY DEF Init
  <2> QED BY DEF Lora!Init, LoraInv, Lora!TypeOK, Lora!Steps
<1>2. LoraInv /\ [Next]_vars => LoraInv'
  <2> SUFFICES ASSUME LoraInv, [Next]_vars PROVE LoraInv'
    OBVIOUS
  <2>1. CASE UNCHANGED loraVars
    BY <2>1 DEF loraVars, LoraInv, Lora!TypeOK, Unloading
  <2> QED BY <2>1, LoraStepKeeps, LoraPart
<1> QED BY <1>1, <1>2, PTL DEF Spec

\* activate, retire, delete: for any number of administrators, when no request is
\* in flight vLLM serves an active adapter only, unless an unload was not heard or
\* the row was written under a request that relied on it.
THEOREM ServedAdapterIsActive == Spec => []OnlyActiveIsServed
<1>1. LoraInv => OnlyActiveIsServed
  BY DEF LoraInv, OnlyActiveIsServed, Lora!OnlyActiveIsServed, Lora!At, Unloading
<1> QED BY <1>1, LoraInvariant, PTL

-----------------------------------------------------------------------------
(* Tenants.                                                                *)

Erased(place) == place \in wiped
Visible(place) == place \in data \/ (place = "members" /\ \E u \in Visitors : members[u] # "none")

\* What a place holds although it was erased was written later
Later == \A place \in Tenants!Places \ Tenants!Missed :
            Erased(place) /\ Visible(place) => place \in late

\* The steps that a delete has behind it have erased their places or failed
Collected ==
    \A a \in PlatformAdmins :
        /\ \A i \in 1 .. Len(DeleteOrder) :
             i < admin[a].at => Erased(DeleteOrder[i]) \/ DeleteOrder[i] \in admin[a].failed
        /\ admin[a].pc = "end" => admin[a].at = Len(DeleteOrder) + 1
        /\ admin[a].pc = "wipe" => admin[a].at <= Len(DeleteOrder)
        /\ admin[a].pc \notin {"wipe", "end"} => admin[a].at = 1

\* Only a delete that has ended leaves the tenant deleted
Accounted ==
    tenant.status = "deleted" =>
        \A place \in Tenants!Places : Erased(place) \/ place \in deadLetters

\* Without a row there is no request on it
Unregistered ==
    tenant.status = "none" => wiped = {} /\ \A a \in PlatformAdmins : admin[a].pc = "idle"

PatchTargets == \A a \in PlatformAdmins :
    admin[a].pc = "patch" => admin[a].to \in {"active", "suspended", "archived"}

\* Nothing is erased before delete_status is written
Begun == \A a \in PlatformAdmins : admin[a].pc \in {"wipe", "end"} => tenant.del # "none"

TenantInv ==
    /\ Tenants!TypeOK
    /\ Later /\ Collected /\ Accounted
    /\ Unregistered /\ PatchTargets /\ Begun /\ Tenants!DeleteStatusIsTrue

AdminRows == [pc: {"idle", "collection", "patch", "begin", "wipe", "end"}, to: Tenants!Statuses,
              at: 1 .. (Len(DeleteOrder) + 1), failed: SUBSET Tenants!Places]
TenantRows == [status: Tenants!Statuses, open: BOOLEAN,
               del: {"none", "in_progress", "completed", "partial"}]

\* A hard delete has steps: the members are one of its places, the collection
\* another.
LEMMA DeleteHasSteps ==
    /\ Len(DeleteOrder) \in Nat /\ 1 <= Len(DeleteOrder)
    /\ "members" \in Tenants!Places /\ Collection \in Tenants!Places \ {"members"}
    /\ \A i \in 1 .. Len(DeleteOrder) : DeleteOrder[i] \in Tenants!Places
<1>1. Len(DeleteOrder) \in Nat
  BY ControlPlaneAssumption
<1> QED BY <1>1, ControlPlaneAssumption DEF Tenants!Places

\* The requests of users write data, memberships and their own progress only.
LEMMA TenantUsed ==
    ASSUME TenantInv, UNCHANGED <<tenant, deadLetters, admin, wiped>>,
           data' \subseteq Tenants!Places \ {"members"},
           members' \in [Visitors -> Tenants!Memberships],
           late' \subseteq Tenants!Places,
           visit' \in [Visitors -> {"away", "enrollment", "join", "inside"}],
           Later'
    PROVE  TenantInv'
<1>1. Tenants!TypeOK'
  BY DEF TenantInv, Tenants!TypeOK
<1>2. Collected' /\ Accounted' /\ Unregistered' /\ PatchTargets' /\ Begun'
  BY DEF TenantInv, Collected, Accounted, Unregistered, PatchTargets, Begun, Erased
<1>3. Tenants!DeleteStatusIsTrue'
  BY DEF TenantInv, Tenants!DeleteStatusIsTrue
<1> QED BY <1>1, <1>2, <1>3 DEF TenantInv

\* A request changes its own progress only.
LEMMA AdminGoesOn ==
    ASSUME TenantInv, NEW a \in PlatformAdmins, NEW row \in AdminRows,
           admin' = [admin EXCEPT ![a] = row]
    PROVE  /\ admin' \in [PlatformAdmins -> AdminRows] /\ admin'[a] = row
           /\ \A b \in PlatformAdmins : b # a => admin'[b] = admin[b]
BY DEF TenantInv, Tenants!TypeOK, AdminRows

\* Before a delete erases: the row of tenants, or the progress of a request.
LEMMA TenantNothingErased ==
    ASSUME TenantInv, NEW a \in PlatformAdmins,
           UNCHANGED <<data, members, deadLetters, visit, wiped, late>>,
           tenant' \in TenantRows,
           admin' \in [PlatformAdmins -> AdminRows],
           \A b \in PlatformAdmins : b # a => admin'[b] = admin[b],
           admin'[a].at = 1, admin'[a].pc # "end",
           admin'[a].pc = "patch" => admin'[a].to \in {"active", "suspended", "archived"},
           tenant.status # "none", tenant'.status # "none",
           tenant'.status = "deleted" => tenant.status = "deleted",
           tenant'.del = tenant.del \/ tenant'.del = "in_progress",
           admin'[a].pc = "wipe" => tenant'.del # "none"
    PROVE  TenantInv'
<1>1. Tenants!TypeOK'
  BY DEF TenantInv, Tenants!TypeOK, TenantRows, AdminRows
<1>2. Later'
  BY DEF TenantInv, Later, Visible, Erased
<1>3. Collected'
  <2> SUFFICES ASSUME NEW b \in PlatformAdmins
               PROVE  /\ \A i \in 1 .. Len(DeleteOrder) :
                           i < admin'[b].at => Erased(DeleteOrder[i])' \/ DeleteOrder[i] \in admin'[b].failed
                      /\ admin'[b].pc = "end" => admin'[b].at = Len(DeleteOrder) + 1
                      /\ admin'[b].pc = "wipe" => admin'[b].at <= Len(DeleteOrder)
                      /\ admin'[b].pc \notin {"wipe", "end"} => admin'[b].at = 1
    BY DEF Collected, Erased
  <2>1. CASE b = a
    BY <2>1, DeleteHasSteps
  <2>2. CASE b # a
    BY <2>2 DEF TenantInv, Collected, Erased
  <2> QED BY <2>1, <2>2
<1>4. Accounted'
  BY DEF TenantInv, Accounted, Erased
<1>5. Unregistered' /\ PatchTargets'
  BY DEF TenantInv, Unregistered, PatchTargets
<1>6. Begun'
  BY DEF TenantInv, Begun
<1>7. Tenants!DeleteStatusIsTrue'
  BY DEF TenantInv, Tenants!DeleteStatusIsTrue
<1> QED BY <1>1, <1>2, <1>3, <1>4, <1>5, <1>6, <1>7 DEF TenantInv

\* POST and PATCH /tenants, the begin of a hard delete, and a request that breaks off.
LEMMA TenantRowIsWritten ==
    ASSUME TenantInv, NEW a \in PlatformAdmins, NEW open \in BOOLEAN, NEW to \in Tenants!Statuses,
           \/ Tenants!Register(a, open) \/ Tenants!SetEnrollmentPolicy(a, open)
           \/ Tenants!CreateCollection(a) \/ Tenants!Abort(a)
           \/ Tenants!PatchRead(a, to) \/ Tenants!UpdateStatus(a)
           \/ Tenants!HardDeleteRead(a) \/ Tenants!HardDeleteBegin(a)
    PROVE  TenantInv'
<1>0. admin \in [PlatformAdmins -> AdminRows] /\ tenant \in TenantRows
  BY DEF TenantInv, Tenants!TypeOK, AdminRows, TenantRows
<1>n. Tenants!NoAdmin \in AdminRows /\ Tenants!NoAdmin.at = 1 /\ Tenants!NoAdmin.pc = "idle"
  BY DeleteHasSteps DEF Tenants!NoAdmin, AdminRows, Tenants!Statuses
<1>1. CASE Tenants!Register(a, open)
  <2> DEFINE row == [admin[a] EXCEPT !.pc = "collection"]
  <2>1. /\ tenant' = [status |-> "active", del |-> "none", open |-> open]
        /\ admin' = [admin EXCEPT ![a] = row] /\ admin[a].pc = "idle"
        /\ UNCHANGED <<data, members, deadLetters, visit, wiped, late>>
        /\ tenant.status = "none"
    BY <1>0, <1>1 DEF Tenants!Register
  <2>2. wiped = {} /\ \A b \in PlatformAdmins : admin[b].pc = "idle"
    BY <2>1 DEF TenantInv, Unregistered
  <2>3. row \in AdminRows /\ row.pc = "collection" /\ row.at = admin[a].at
    BY <1>0 DEF AdminRows
  <2>4. row.at = 1
    BY <2>1, <2>3 DEF TenantInv, Collected
  <2>5. /\ admin' \in [PlatformAdmins -> AdminRows] /\ admin'[a] = row
        /\ \A b \in PlatformAdmins : b # a => admin'[b] = admin[b]
    BY <2>1, <2>3, AdminGoesOn
  <2> HIDE DEF row
  <2>6. tenant' \in TenantRows /\ tenant'.status = "active" /\ tenant'.del = "none"
    BY <2>1 DEF TenantRows, Tenants!Statuses
  <2>7. Tenants!TypeOK'
    BY <2>1, <2>5, <2>6 DEF TenantInv, Tenants!TypeOK, AdminRows, TenantRows
  <2>8. Later' /\ Accounted' /\ Unregistered' /\ Tenants!DeleteStatusIsTrue'
    BY <2>1, <2>2, <2>6 DEF Later, Accounted, Unregistered, Erased, Tenants!DeleteStatusIsTrue
  <2>9. PatchTargets' /\ Begun'
    BY <2>2, <2>3, <2>5 DEF PatchTargets, Begun
  <2>10. Collected'
    <3> SUFFICES ASSUME NEW b \in PlatformAdmins
                 PROVE  admin'[b].at = 1 /\ admin'[b].pc \notin {"wipe", "end"}
      BY DeleteHasSteps DEF Collected
    <3> QED BY <2>2, <2>3, <2>4, <2>5 DEF TenantInv, Collected
  <2> QED BY <2>7, <2>8, <2>9, <2>10 DEF TenantInv
<1>2. CASE Tenants!SetEnrollmentPolicy(a, open)
  <2>1. /\ tenant' \in TenantRows /\ tenant'.status = tenant.status /\ tenant.status # "none"
        /\ tenant'.del = tenant.del
        /\ UNCHANGED <<data, members, deadLetters, admin, visit, wiped, late>>
        /\ admin[a].pc = "idle"
    BY <1>0, <1>2 DEF Tenants!SetEnrollmentPolicy, TenantRows
  <2>2. admin[a].at = 1
    BY <2>1 DEF TenantInv, Collected
  <2> QED BY <1>0, <2>1, <2>2, TenantNothingErased
<1>3. CASE Tenants!PatchRead(a, to)
  <2> DEFINE row == [admin[a] EXCEPT !.pc = "patch", !.to = to]
  <2>1. /\ admin' = [admin EXCEPT ![a] = row] /\ admin[a].pc = "idle"
        /\ to \in Tenants!Transitions(tenant.status)
        /\ UNCHANGED <<tenant, data, members, deadLetters, visit, wiped, late>>
    BY <1>0, <1>3 DEF Tenants!PatchRead
  <2>2. row \in AdminRows /\ row.pc = "patch" /\ row.to = to /\ row.at = admin[a].at
    BY <1>0 DEF AdminRows
  <2>3. row.at = 1
    BY <2>1, <2>2 DEF TenantInv, Collected
  <2>4. to \in {"active", "suspended", "archived"} /\ tenant.status # "none"
    BY <1>0, <2>1 DEF Tenants!Transitions, TenantRows, Tenants!Statuses
  <2>5. /\ admin' \in [PlatformAdmins -> AdminRows] /\ admin'[a] = row
        /\ \A b \in PlatformAdmins : b # a => admin'[b] = admin[b]
    BY <2>1, <2>2, AdminGoesOn
  <2> HIDE DEF row
  <2> QED BY <1>0, <2>1, <2>2, <2>3, <2>4, <2>5, TenantNothingErased
<1>4. CASE Tenants!UpdateStatus(a)
  <2>1. /\ tenant' = [tenant EXCEPT !.status = admin[a].to] /\ admin[a].pc = "patch"
        /\ admin' = [admin EXCEPT ![a] = Tenants!NoAdmin]
        /\ UNCHANGED <<data, members, deadLetters, visit, wiped, late>>
    BY <1>4 DEF Tenants!UpdateStatus
  <2>2. /\ admin' \in [PlatformAdmins -> AdminRows] /\ admin'[a] = Tenants!NoAdmin
        /\ \A b \in PlatformAdmins : b # a => admin'[b] = admin[b]
    BY <1>n, <2>1, AdminGoesOn
  <2>3. admin[a].to \in {"active", "suspended", "archived"}
    BY <2>1 DEF TenantInv, PatchTargets
  <2>4. tenant' \in TenantRows /\ tenant'.status = admin[a].to /\ tenant'.del = tenant.del
    BY <1>0, <2>1, <2>3 DEF TenantRows, Tenants!Statuses
  <2>5. tenant.status # "none"
    BY <2>1 DEF TenantInv, Unregistered
  <2> QED BY <1>n, <2>1, <2>2, <2>3, <2>4, <2>5, TenantNothingErased
<1>5. CASE Tenants!HardDeleteRead(a)
  <2> DEFINE row == [admin[a] EXCEPT !.pc = "begin"]
  <2>1. /\ admin' = [admin EXCEPT ![a] = row] /\ admin[a].pc = "idle"
        /\ tenant.status = "archived"
        /\ UNCHANGED <<tenant, data, members, deadLetters, visit, wiped, late>>
    BY <1>0, <1>5 DEF Tenants!HardDeleteRead, Tenants!Deletable
  <2>2. row \in AdminRows /\ row.pc = "begin" /\ row.at = admin[a].at
    BY <1>0 DEF AdminRows
  <2>3. row.at = 1
    BY <2>1, <2>2 DEF TenantInv, Collected
  <2>4. /\ admin' \in [PlatformAdmins -> AdminRows] /\ admin'[a] = row
        /\ \A b \in PlatformAdmins : b # a => admin'[b] = admin[b]
    BY <2>1, <2>2, AdminGoesOn
  <2> HIDE DEF row
  <2> QED BY <1>0, <2>1, <2>2, <2>3, <2>4, TenantNothingErased
<1>6. CASE Tenants!HardDeleteBegin(a)
  <2> DEFINE row == [admin[a] EXCEPT !.pc = "wipe"]
  <2>1. /\ admin' = [admin EXCEPT ![a] = row] /\ admin[a].pc = "begin"
        /\ tenant' = [tenant EXCEPT !.del = "in_progress"]
        /\ UNCHANGED <<data, members, deadLetters, visit, wiped, late>>
    BY <1>0, <1>6 DEF Tenants!HardDeleteBegin
  <2>2. row \in AdminRows /\ row.pc = "wipe" /\ row.at = admin[a].at
    BY <1>0 DEF AdminRows
  <2>3. row.at = 1 /\ tenant.status # "none"
    BY <2>1, <2>2 DEF TenantInv, Collected, Unregistered
  <2>4. /\ admin' \in [PlatformAdmins -> AdminRows] /\ admin'[a] = row
        /\ \A b \in PlatformAdmins : b # a => admin'[b] = admin[b]
    BY <2>1, <2>2, AdminGoesOn
  <2>5. /\ tenant' \in TenantRows /\ tenant'.status = tenant.status
        /\ tenant'.del = "in_progress"
    BY <1>0, <2>1 DEF TenantRows
  <2> HIDE DEF row
  <2> QED BY <1>0, <2>1, <2>2, <2>3, <2>4, <2>5, TenantNothingErased
<1>7. CASE Tenants!Abort(a)
  <2>1. /\ admin[a].pc # "idle" /\ admin' = [admin EXCEPT ![a] = Tenants!NoAdmin]
        /\ UNCHANGED <<tenant, data, members, deadLetters, visit, wiped, late>>
    BY <1>7 DEF Tenants!Abort
  <2>2. /\ admin' \in [PlatformAdmins -> AdminRows] /\ admin'[a] = Tenants!NoAdmin
        /\ \A b \in PlatformAdmins : b # a => admin'[b] = admin[b]
    BY <1>n, <2>1, AdminGoesOn
  <2>3. tenant.status # "none"
    BY <2>1 DEF TenantInv, Unregistered
  <2> QED BY <1>0, <1>n, <2>1, <2>2, <2>3, TenantNothingErased
<1>8. CASE Tenants!CreateCollection(a)
  <2>1. /\ admin[a].pc = "collection" /\ admin' = [admin EXCEPT ![a] = Tenants!NoAdmin]
        /\ \/ data' = data \cup {Collection} /\ Tenants!Written(Collection)
           \/ UNCHANGED <<data, late>>
        /\ UNCHANGED <<tenant, members, deadLetters, visit, wiped>>
    BY <1>8 DEF Tenants!CreateCollection
  <2>2. /\ admin' \in [PlatformAdmins -> AdminRows] /\ admin'[a] = Tenants!NoAdmin
        /\ \A b \in PlatformAdmins : b # a => admin'[b] = admin[b]
    BY <1>n, <2>1, AdminGoesOn
  <2>3. tenant.status # "none"
    BY <2>1 DEF TenantInv, Unregistered
  <2>4. data' \subseteq Tenants!Places \ {"members"} /\ late' \subseteq Tenants!Places
    BY <2>1, DeleteHasSteps DEF TenantInv, Tenants!TypeOK, Tenants!Written
  <2>5. Tenants!TypeOK'
    BY <1>0, <2>1, <2>2, <2>4 DEF TenantInv, Tenants!TypeOK, AdminRows
  <2>6. Later'
    BY <2>1, ControlPlaneAssumption DEF TenantInv, Later, Erased, Visible, Tenants!Written
  <2>7. Accounted' /\ Unregistered' /\ Tenants!DeleteStatusIsTrue'
    BY <2>1, <2>3 DEF TenantInv, Accounted, Unregistered, Erased, Tenants!DeleteStatusIsTrue
  <2>8. PatchTargets' /\ Begun'
    BY <1>n, <2>1, <2>2 DEF TenantInv, PatchTargets, Begun
  <2>9. Collected'
    <3> SUFFICES ASSUME NEW b \in PlatformAdmins
                 PROVE  /\ \A i \in 1 .. Len(DeleteOrder) :
                             i < admin'[b].at => Erased(DeleteOrder[i])' \/ DeleteOrder[i] \in admin'[b].failed
                        /\ admin'[b].pc = "end" => admin'[b].at = Len(DeleteOrder) + 1
                        /\ admin'[b].pc = "wipe" => admin'[b].at <= Len(DeleteOrder)
                        /\ admin'[b].pc \notin {"wipe", "end"} => admin'[b].at = 1
      BY DEF Collected, Erased
    <3>1. CASE b = a
      BY <1>n, <2>2, <3>1, DeleteHasSteps
    <3>2. CASE b # a
      BY <2>1, <2>2, <3>2 DEF TenantInv, Collected, Erased
    <3> QED BY <3>1, <3>2
  <2> QED BY <2>5, <2>6, <2>7, <2>8, <2>9 DEF TenantInv
<1> QED BY <1>1, <1>2, <1>3, <1>4, <1>5, <1>6, <1>7, <1>8

\* A step of a hard delete: its place is erased, or it has failed and is collected.
LEMMA TenantIsErased ==
    ASSUME TenantInv, NEW a \in PlatformAdmins, Tenants!Wipe(a) \/ Tenants!WipeFails(a)
    PROVE  TenantInv'
<1> DEFINE place == DeleteOrder[admin[a].at]
           failed == IF Tenants!Wipe(a) THEN admin[a].failed ELSE admin[a].failed \cup {place}
           row == [admin[a] EXCEPT !.at = @ + 1, !.failed = failed,
                     !.pc = IF admin[a].at = Len(DeleteOrder) THEN "end" ELSE "wipe"]
<1>0. /\ admin \in [PlatformAdmins -> AdminRows] /\ admin[a].pc = "wipe"
      /\ UNCHANGED <<tenant, deadLetters, visit>>
  BY DEF TenantInv, Tenants!TypeOK, AdminRows, Tenants!Wipe, Tenants!WipeFails
<1>1. /\ Len(DeleteOrder) \in Nat
      /\ admin[a].at \in 1 .. Len(DeleteOrder) /\ place \in Tenants!Places
      /\ tenant.status # "none"
  BY <1>0, DeleteHasSteps DEF TenantInv, Collected, AdminRows, Unregistered
<1>2. admin' = [admin EXCEPT ![a] = row]
  BY <1>0 DEF Tenants!Wipe, Tenants!WipeFails, Tenants!Advance
<1>3. failed \in SUBSET Tenants!Places /\ admin[a].failed \subseteq failed
  BY <1>0, <1>1 DEF AdminRows
<1> HIDE DEF failed
<1>4. /\ row \in AdminRows /\ row.at = admin[a].at + 1 /\ row.failed = failed
      /\ row.pc = IF admin[a].at = Len(DeleteOrder) THEN "end" ELSE "wipe"
  <2> DEFINE next == IF admin[a].at = Len(DeleteOrder) THEN "end" ELSE "wipe"
             step == admin[a].at + 1
  <2>1. /\ admin[a] \in AdminRows /\ step \in 1 .. (Len(DeleteOrder) + 1)
        /\ next \in {"wipe", "end"}
    BY <1>0, <1>1
  <2>2. row = [admin[a] EXCEPT !.at = step, !.failed = failed, !.pc = next]
    OBVIOUS
  <2> HIDE DEF row, next, step
  <2>3. /\ row \in AdminRows /\ row.at = step /\ row.failed = failed /\ row.pc = next
    BY <1>3, <2>1, <2>2 DEF AdminRows
  <2> QED BY <2>3 DEF next, step
<1>5. /\ admin' \in [PlatformAdmins -> AdminRows] /\ admin'[a] = row
      /\ \A b \in PlatformAdmins : b # a => admin'[b] = admin[b]
  BY <1>2, <1>4, AdminGoesOn
<1> HIDE DEF row
<1>6. /\ \/ /\ data' = data \ ({place} \ Tenants!Missed) /\ wiped' = wiped \cup {place} /\ late' = late \ {place}
            /\ members' = IF place = "members" THEN [u \in Visitors |-> "none"] ELSE members
         \/ UNCHANGED <<data, members, wiped, late>>
      /\ place \in wiped' \/ place \in failed
  BY DEF Tenants!Wipe, Tenants!WipeFails, failed
<1> HIDE DEF place
<1>7. Tenants!TypeOK'
  BY <1>0, <1>1, <1>5, <1>6 DEF TenantInv, Tenants!TypeOK, AdminRows, Tenants!Memberships
<1>8. wiped \subseteq wiped' /\ wiped' \subseteq wiped \cup {place}
  BY <1>6
<1>9. Later'
  <2> SUFFICES ASSUME NEW p \in Tenants!Places \ Tenants!Missed, Erased(p)', Visible(p)'
               PROVE  p \in late'
    BY DEF Later
  <2>1. CASE UNCHANGED <<data, members, wiped, late>>
    BY <2>1 DEF TenantInv, Later, Erased, Visible
  <2>2. CASE /\ data' = data \ ({place} \ Tenants!Missed) /\ wiped' = wiped \cup {place} /\ late' = late \ {place}
             /\ members' = IF place = "members" THEN [u \in Visitors |-> "none"] ELSE members
    <3>1. p # place
      BY <2>2 DEF Visible
    <3>2. Erased(p) /\ Visible(p)
      BY <2>2, <3>1 DEF Erased, Visible
    <3> QED BY <2>2, <3>1, <3>2 DEF TenantInv, Later
  <2> QED BY <1>6, <2>1, <2>2
<1>10. Collected'
  <2> SUFFICES ASSUME NEW b \in PlatformAdmins
               PROVE  /\ \A i \in 1 .. Len(DeleteOrder) :
                           i < admin'[b].at => Erased(DeleteOrder[i])' \/ DeleteOrder[i] \in admin'[b].failed
                      /\ admin'[b].pc = "end" => admin'[b].at = Len(DeleteOrder) + 1
                      /\ admin'[b].pc = "wipe" => admin'[b].at <= Len(DeleteOrder)
                      /\ admin'[b].pc \notin {"wipe", "end"} => admin'[b].at = 1
    BY DEF Collected, Erased
  <2>1. CASE b # a
    BY <1>5, <1>8, <2>1 DEF TenantInv, Collected, Erased
  <2>2. CASE b = a
    <3>1. ASSUME NEW i \in 1 .. Len(DeleteOrder), i < admin'[a].at
          PROVE  Erased(DeleteOrder[i])' \/ DeleteOrder[i] \in admin'[a].failed
      <4>1. CASE i = admin[a].at
        BY <1>4, <1>5, <1>6, <4>1 DEF place, Erased
      <4>2. CASE i # admin[a].at
        <5>1. i < admin[a].at
          BY <1>1, <1>4, <1>5, <3>1, <4>2
        <5> QED BY <1>3, <1>4, <1>5, <1>8, <5>1 DEF TenantInv, Collected, Erased
      <4> QED BY <4>1, <4>2
    <3> QED BY <1>1, <1>4, <1>5, <2>2, <3>1
  <2> QED BY <2>1, <2>2
<1>11. Accounted' /\ Unregistered'
  BY <1>0, <1>1, <1>8 DEF TenantInv, Accounted, Unregistered, Erased
<1>12. PatchTargets' /\ Begun'
  BY <1>0, <1>4, <1>5 DEF TenantInv, PatchTargets, Begun
<1>13. Tenants!DeleteStatusIsTrue'
  <2>1. tenant.del # "none"
    BY <1>0 DEF TenantInv, Begun
  <2> QED BY <1>0, <1>8, <2>1 DEF TenantInv, Tenants!DeleteStatusIsTrue
<1> QED BY <1>7, <1>9, <1>10, <1>11, <1>12, <1>13 DEF TenantInv

\* The final UPDATE of a hard delete, with its dead letters.
LEMMA TenantIsDeleted ==
    ASSUME TenantInv, NEW a \in PlatformAdmins, Tenants!HardDeleteEnd(a)
    PROVE  TenantInv'
<1>0. admin \in [PlatformAdmins -> AdminRows] /\ tenant \in TenantRows
  BY DEF TenantInv, Tenants!TypeOK, AdminRows, TenantRows
<1>1. /\ admin[a].pc = "end" /\ admin' = [admin EXCEPT ![a] = Tenants!NoAdmin]
      /\ tenant' = [tenant EXCEPT !.status = "deleted",
                      !.del = IF admin[a].failed = {} THEN "completed" ELSE "partial"]
      /\ deadLetters' = deadLetters \cup admin[a].failed
      /\ UNCHANGED <<data, members, wiped, late, visit>>
  BY DEF Tenants!HardDeleteEnd
<1>2. Tenants!NoAdmin \in AdminRows /\ Tenants!NoAdmin.at = 1 /\ Tenants!NoAdmin.pc = "idle"
  BY DeleteHasSteps DEF Tenants!NoAdmin, AdminRows, Tenants!Statuses
<1>3. /\ admin' \in [PlatformAdmins -> AdminRows] /\ admin'[a] = Tenants!NoAdmin
      /\ \A b \in PlatformAdmins : b # a => admin'[b] = admin[b]
  BY <1>1, <1>2, AdminGoesOn
<1>4. tenant' \in TenantRows /\ tenant'.status = "deleted"
      /\ tenant'.del = IF admin[a].failed = {} THEN "completed" ELSE "partial"
  BY <1>0, <1>1 DEF TenantRows, Tenants!Statuses
<1>5. Tenants!TypeOK'
  BY <1>0, <1>1, <1>3, <1>4 DEF TenantInv, Tenants!TypeOK, AdminRows, TenantRows
<1>6. Later'
  BY <1>1 DEF TenantInv, Later, Erased, Visible
<1>7. Collected'
  <2> SUFFICES ASSUME NEW b \in PlatformAdmins
               PROVE  /\ \A i \in 1 .. Len(DeleteOrder) :
                           i < admin'[b].at => Erased(DeleteOrder[i])' \/ DeleteOrder[i] \in admin'[b].failed
                      /\ admin'[b].pc = "end" => admin'[b].at = Len(DeleteOrder) + 1
                      /\ admin'[b].pc = "wipe" => admin'[b].at <= Len(DeleteOrder)
                      /\ admin'[b].pc \notin {"wipe", "end"} => admin'[b].at = 1
    BY DEF Collected, Erased
  <2>1. CASE b = a
    BY <1>2, <1>3, <2>1, DeleteHasSteps
  <2>2. CASE b # a
    BY <1>1, <1>3, <2>2 DEF TenantInv, Collected, Erased
  <2> QED BY <2>1, <2>2
<1>8. \A place \in Tenants!Places : place \in wiped \/ place \in admin[a].failed
  <2> SUFFICES ASSUME NEW place \in Tenants!Places
               PROVE  place \in wiped \/ place \in admin[a].failed
    OBVIOUS
  <2>1. PICK i \in 1 .. Len(DeleteOrder) : place = DeleteOrder[i]
    BY DEF Tenants!Places
  <2>2. i < admin[a].at
    BY <1>1, DeleteHasSteps DEF TenantInv, Collected
  <2> QED BY <2>1, <2>2 DEF TenantInv, Collected, Erased
<1>9. Accounted'
  BY <1>1, <1>8 DEF Accounted, Erased
<1>10. Unregistered' /\ PatchTargets'
  BY <1>2, <1>3, <1>4 DEF TenantInv, Unregistered, PatchTargets
<1>11. Begun' /\ Tenants!DeleteStatusIsTrue'
  BY <1>1, <1>4, <1>8 DEF Begun, Tenants!DeleteStatusIsTrue
<1> QED BY <1>5, <1>6, <1>7, <1>9, <1>10, <1>11 DEF TenantInv

\* The requests of users: what is written where a delete has been is late.
LEMMA TenantIsUsed ==
    ASSUME TenantInv, NEW u \in Visitors,
           \/ Tenants!Assign(u) \/ Tenants!Revoke(u) \/ Tenants!LoadMembership(u)
           \/ Tenants!LoadEnrollment(u)
           \/ Tenants!CreateJitMembership(u) \/ Tenants!Leave(u)
           \/ \E place \in Tenants!Places \ {"members"} : Tenants!Use(u, place)
    PROVE  TenantInv'
<1>0. /\ data \subseteq Tenants!Places \ {"members"} /\ late \subseteq Tenants!Places
      /\ members \in [Visitors -> Tenants!Memberships]
      /\ visit \in [Visitors -> {"away", "enrollment", "join", "inside"}]
  BY DEF TenantInv, Tenants!TypeOK
<1>1. ASSUME UNCHANGED <<tenant, data, deadLetters, admin, wiped>>,
             members' = [members EXCEPT ![u] = "active"], Tenants!Written("members"),
             visit' \in [Visitors -> {"away", "enrollment", "join", "inside"}]
      PROVE  TenantInv'
  <2>1. members' \in [Visitors -> Tenants!Memberships]
    BY <1>0, <1>1 DEF Tenants!Memberships
  <2>2. late' \subseteq Tenants!Places
    BY <1>0, <1>1, DeleteHasSteps DEF Tenants!Written
  <2>3. Later'
    BY <1>1 DEF TenantInv, Later, Erased, Visible, Tenants!Written
  <2> QED BY <1>0, <1>1, <2>1, <2>2, <2>3, TenantUsed
<1>2. ASSUME UNCHANGED <<tenant, data, members, deadLetters, admin, wiped, late>>,
             visit' \in [Visitors -> {"away", "enrollment", "join", "inside"}]
      PROVE  TenantInv'
  <2>1. Later'
    BY <1>2 DEF TenantInv, Later, Erased, Visible
  <2> QED BY <1>0, <1>2, <2>1, TenantUsed
<1>3. CASE Tenants!Assign(u)
  BY <1>0, <1>1, <1>3 DEF Tenants!Assign
<1>4. CASE Tenants!Revoke(u)
  <2>1. /\ members[u] = "active" /\ members' = [members EXCEPT ![u] = "inactive"]
        /\ UNCHANGED <<tenant, data, deadLetters, admin, visit, wiped, late>>
    BY <1>4 DEF Tenants!Revoke
  <2>2. members' \in [Visitors -> Tenants!Memberships]
    BY <1>0, <2>1 DEF Tenants!Memberships
  <2>3. Later'
    BY <1>0, <2>1 DEF TenantInv, Later, Erased, Visible
  <2> QED BY <1>0, <2>1, <2>2, <2>3, TenantUsed
<1>6. CASE Tenants!LoadMembership(u)
  BY <1>0, <1>2, <1>6 DEF Tenants!LoadMembership
<1>7. CASE Tenants!LoadEnrollment(u)
  BY <1>0, <1>2, <1>7 DEF Tenants!LoadEnrollment
<1>8. CASE Tenants!CreateJitMembership(u)
  <2>1. visit' \in [Visitors -> {"away", "enrollment", "join", "inside"}]
    BY <1>0, <1>8 DEF Tenants!CreateJitMembership
  <2> QED BY <1>1, <1>2, <1>8, <2>1 DEF Tenants!CreateJitMembership
<1>9. CASE Tenants!Leave(u)
  BY <1>0, <1>2, <1>9 DEF Tenants!Leave
<1>10. ASSUME NEW place \in Tenants!Places \ {"members"}, Tenants!Use(u, place)
       PROVE  TenantInv'
  <2>1. /\ data' = data \cup {place} /\ Tenants!Written(place)
        /\ UNCHANGED <<tenant, members, deadLetters, admin, visit, wiped>>
    BY <1>10 DEF Tenants!Use
  <2>2. data' \subseteq Tenants!Places \ {"members"} /\ late' \subseteq Tenants!Places
    BY <1>0, <2>1 DEF Tenants!Written
  <2>3. Later'
    BY <2>1 DEF TenantInv, Later, Erased, Visible, Tenants!Written
  <2> QED BY <1>0, <2>1, <2>2, <2>3, TenantUsed
<1> QED BY <1>3, <1>4, <1>6, <1>7, <1>8, <1>9, <1>10

\* A step of another part, or none, leaves the variables of this one alone.
LEMMA TenantPart ==
    [Next]_vars => Tenants!Next \/ UNCHANGED tenantVars
BY DEF Next, vars, SchemaStep, EvalStep, LoraStep, KeyStep, TenantStep, ItemStep, CronStep,
       SchemaOnly, EvalOnly, LoraOnly, KeyOnly, TenantOnly, ItemOnly, CronOnly, tenantVars

\* The invariant holds in the composition.
LEMMA TenantInvariant ==
    Spec => []TenantInv
<1>1. Init => TenantInv
  <2> SUFFICES ASSUME Tenants!Init PROVE TenantInv
    BY DEF Init
  <2>1. Tenants!NoAdmin \in AdminRows /\ Tenants!NoAdmin.at = 1 /\ Tenants!NoAdmin.pc = "idle"
    BY DeleteHasSteps DEF Tenants!NoAdmin, AdminRows, Tenants!Statuses
  <2>2. \A a \in PlatformAdmins : admin[a] = Tenants!NoAdmin
    BY DEF Tenants!Init
  <2>3. Tenants!TypeOK
    BY <2>1 DEF Tenants!Init, Tenants!TypeOK, AdminRows, Tenants!Statuses, Tenants!Memberships
  <2>4. Later /\ Accounted /\ Unregistered /\ Tenants!DeleteStatusIsTrue
    BY <2>1, <2>2 DEF Tenants!Init, Later, Accounted, Unregistered, Erased,
                      Tenants!DeleteStatusIsTrue
  <2>5. Collected /\ PatchTargets /\ Begun
    BY <2>1, <2>2, DeleteHasSteps DEF Collected, PatchTargets, Begun
  <2> QED BY <2>3, <2>4, <2>5 DEF TenantInv
<1>2. TenantInv /\ [Next]_vars => TenantInv'
  <2> SUFFICES ASSUME TenantInv, [Next]_vars PROVE TenantInv'
    OBVIOUS
  <2>1. CASE UNCHANGED tenantVars
    BY <2>1 DEF tenantVars, TenantInv, Tenants!TypeOK, Later, Collected, Accounted, Unregistered,
                PatchTargets, Begun, Erased, Visible, Tenants!DeleteStatusIsTrue
  <2>2. CASE Tenants!Next
    <3>1. ASSUME NEW a \in PlatformAdmins,
                 \/ \E open \in BOOLEAN :
                      Tenants!Register(a, open) \/ Tenants!SetEnrollmentPolicy(a, open)
                 \/ \E to \in Tenants!Statuses : Tenants!PatchRead(a, to)
                 \/ Tenants!CreateCollection(a) \/ Tenants!UpdateStatus(a) \/ Tenants!Abort(a)
                 \/ Tenants!HardDeleteRead(a) \/ Tenants!HardDeleteBegin(a)
                 \/ Tenants!Wipe(a) \/ Tenants!WipeFails(a) \/ Tenants!HardDeleteEnd(a)
          PROVE  TenantInv'
      <4>1. TRUE \in BOOLEAN /\ "none" \in Tenants!Statuses
        BY DEF Tenants!Statuses
      <4> QED BY <3>1, <4>1, TenantRowIsWritten, TenantIsErased, TenantIsDeleted
    <3> QED BY <2>2, <3>1, TenantIsUsed DEF Tenants!Next
  <2> QED BY <2>1, <2>2, TenantPart
<1> QED BY <1>1, <1>2, PTL DEF Spec

\* hard_delete: for any number of administrators, users and steps, whichever steps
\* fail, wherever requests break off and however deletes overlap, what is left of a
\* deleted tenant is named by a dead letter, was written after its place had been
\* erased, or is in the storage, which the erasing call misses.
THEOREM LeftoversAreReported == Spec => []LeftoverIsReported
<1>1. TenantInv => LeftoverIsReported
  <2> SUFFICES ASSUME TenantInv, tenant.status = "deleted",
                      NEW p \in Tenants!Remains, p \notin Tenants!Missed
               PROVE  p \in deadLetters \cup late
    BY DEF LeftoverIsReported, Tenants!LeftoverIsReported
  <2>1. p \in Tenants!Places /\ Visible(p)
    BY DeleteHasSteps DEF TenantInv, Tenants!TypeOK, Tenants!Remains, Visible
  <2> QED BY <2>1 DEF TenantInv, Accounted, Later
<1> QED BY <1>1, TenantInvariant, PTL

\* hard_delete: for any number of administrators, users and steps, delete_status
\* tells what the deletes have done, wherever they break off and however they
\* overlap with each other and with a PATCH.
THEOREM DeleteStatusTells == Spec => []DeleteStatusIsTrue
<1>1. TenantInv => DeleteStatusIsTrue
  BY DEF TenantInv, DeleteStatusIsTrue
<1> QED BY <1>1, TenantInvariant, PTL

-----------------------------------------------------------------------------
(* Signing keys.                                                           *)

\* Keys are withdrawn in the order of their ids
Published == current \in Kids /\ \A k \in Kids : k >= current => gone[k] = 0

\* A cached key was published when the cache was filled
Aging == \A k \in keys : gone[k] <= age

KeyInv ==
    /\ Key!TypeOK
    /\ Published /\ Aging
    /\ Key!PublishedKeyIsFound

LookupRows == [pc: Key!Steps, kid: Kids, out: Key!Outcomes]

\* A lookup goes on without the provider: cache, clock and keys stay as they are.
LEMMA LookupGoesOn ==
    ASSUME KeyInv, NEW c \in Lookups, NEW row \in LookupRows,
           lookup' = [lookup EXCEPT ![c] = row],
           UNCHANGED <<current, gone, keys, age>>, lock' \in Lookups \cup {Nobody},
           known' \in [Lookups -> BOOLEAN], \A d \in Lookups : d # c => known'[d] = known[d],
           row.out = "unknown" => ~known'[c]
    PROVE  KeyInv'
<1>1. Key!TypeOK'
  BY DEF KeyInv, Key!TypeOK, LookupRows
<1>2. Published' /\ Aging'
  BY DEF KeyInv, Published, Aging
<1>3. Key!PublishedKeyIsFound'
  BY DEF KeyInv, Key!TypeOK, Key!PublishedKeyIsFound
<1> QED BY <1>1, <1>2, <1>3 DEF KeyInv

\* A fetch fills the cache with what is published when it ends.
LEMMA CacheIsFilled ==
    ASSUME KeyInv, NEW c \in Lookups, NEW row \in LookupRows,
           lookup' = [lookup EXCEPT ![c] = row], Key!Fetched,
           UNCHANGED <<current, gone>>,
           known' \in [Lookups -> BOOLEAN], \A d \in Lookups : d # c => known'[d] = known[d],
           row.out = "unknown" => ~known'[c]
    PROVE  KeyInv'
<1>1. Key!TypeOK'
  <2>1. 0 \in 0 .. Key!Stale
    BY ControlPlaneAssumption DEF Key!Stale
  <2>2. lookup' \in [Lookups -> LookupRows]
    BY DEF KeyInv, Key!TypeOK, LookupRows
  <2> QED BY <2>1, <2>2 DEF KeyInv, Key!TypeOK, LookupRows, Key!Fetched
<1>2. Published' /\ Aging'
  <2>1. gone[current] = 0
    BY ControlPlaneAssumption DEF KeyInv, Published
  <2> QED BY <2>1 DEF KeyInv, Published, Aging, Key!Fetched
<1>3. Key!PublishedKeyIsFound'
  BY DEF KeyInv, Key!TypeOK, Key!PublishedKeyIsFound
<1> QED BY <1>1, <1>2, <1>3 DEF KeyInv

\* The steps of a lookup.
LEMMA LookupStep ==
    ASSUME KeyInv, NEW c \in Lookups,
           \/ \E kid \in 1 .. current : Key!Ask(c, kid)
           \/ Key!Step(c) \/ Key!Acquire(c) \/ Key!AcquireAgain(c)
    PROVE  KeyInv'
<1>0. /\ lookup \in [Lookups -> LookupRows] /\ lock \in Lookups \cup {Nobody}
      /\ known \in [Lookups -> BOOLEAN] /\ lookup[c] \in LookupRows
  BY DEF KeyInv, Key!TypeOK, LookupRows
<1>1. \A pc \in Key!Steps :
        /\ [lookup[c] EXCEPT !.pc = pc] \in LookupRows
        /\ [lookup[c] EXCEPT !.pc = pc].out = lookup[c].out
  BY <1>0 DEF LookupRows
<1>2. \A out \in Key!Outcomes :
        /\ [lookup[c] EXCEPT !.pc = "done", !.out = out] \in LookupRows
        /\ [lookup[c] EXCEPT !.pc = "done", !.out = out].out = out
  BY <1>0 DEF LookupRows, Key!Steps
<1>3. lookup[c].out = "unknown" => ~known[c]
  BY DEF KeyInv, Key!PublishedKeyIsFound
<1>4. ASSUME NEW pc \in Key!Steps, Key!Go(c, pc) PROVE lookup' = [lookup EXCEPT ![c] = [lookup[c] EXCEPT !.pc = pc]]
  BY <1>0, <1>4 DEF Key!Go
<1>5. ASSUME NEW out \in Key!Outcomes, Key!Return(c, out)
      PROVE  lookup' = [lookup EXCEPT ![c] = [lookup[c] EXCEPT !.pc = "done", !.out = out]]
  BY <1>0, <1>5 DEF Key!Return
<1>6. /\ {"lock", "fetch", "relock", "refetch"} \subseteq Key!Steps
      /\ {"key", "unknown", "error"} \subseteq Key!Outcomes
  BY DEF Key!Steps, Key!Outcomes
\* A step that leaves the cache alone, with any outcome but "unknown"
<1>7. ASSUME UNCHANGED <<current, gone, keys, age, known>>, lock' \in Lookups \cup {Nobody},
             \/ \E pc \in Key!Steps : Key!Go(c, pc)
             \/ \E out \in Key!Outcomes : Key!Return(c, out) /\ out # "unknown"
      PROVE  KeyInv'
  <2>1. ASSUME NEW pc \in Key!Steps, Key!Go(c, pc) PROVE KeyInv'
    <3> DEFINE row == [lookup[c] EXCEPT !.pc = pc]
    <3>1. row \in LookupRows /\ row.out = lookup[c].out /\ lookup' = [lookup EXCEPT ![c] = row]
      BY <1>1, <1>4, <2>1
    <3> HIDE DEF row
    <3> QED BY <1>0, <1>3, <1>7, <3>1, LookupGoesOn
  <2>2. ASSUME NEW out \in Key!Outcomes, Key!Return(c, out), out # "unknown" PROVE KeyInv'
    <3> DEFINE row == [lookup[c] EXCEPT !.pc = "done", !.out = out]
    <3>1. row \in LookupRows /\ row.out = out /\ lookup' = [lookup EXCEPT ![c] = row]
      BY <1>2, <1>5, <2>2
    <3> HIDE DEF row
    <3> QED BY <1>0, <1>7, <2>2, <3>1, LookupGoesOn
  <2> QED BY <1>7, <2>1, <2>2
<1>8. ASSUME NEW kid \in 1 .. current, Key!Ask(c, kid) PROVE KeyInv'
  <2> DEFINE row == [pc |-> "enter", kid |-> kid, out |-> "none"]
  <2>1. kid \in Kids
    BY ControlPlaneAssumption DEF KeyInv, Published
  <2>2. row \in LookupRows /\ row.out = "none" /\ lookup' = [lookup EXCEPT ![c] = row]
    BY <1>8, <2>1 DEF Key!Ask, LookupRows, Key!Steps, Key!Outcomes
  <2>3. /\ known' \in [Lookups -> BOOLEAN] /\ \A d \in Lookups : d # c => known'[d] = known[d]
        /\ UNCHANGED <<current, gone, keys, age, lock>>
    BY <1>0, <1>8 DEF Key!Ask
  <2> HIDE DEF row
  <2> QED BY <1>0, <2>2, <2>3, LookupGoesOn
<1>9. CASE Key!GetKey(c)
  BY <1>0, <1>6, <1>7, <1>9 DEF Key!GetKey
<1>10. CASE Key!Acquire(c)
  <2>1. lock' \in Lookups \cup {Nobody}
    BY <1>0, <1>10 DEF Key!Acquire
  <2> QED BY <1>6, <1>7, <1>10, <2>1 DEF Key!Acquire
<1>11. CASE Key!AcquireAgain(c)
  BY <1>6, <1>7, <1>11 DEF Key!AcquireAgain
<1>12. CASE Key!FetchFails(c)
  BY <1>6, <1>7, <1>12 DEF Key!FetchFails
<1>13. CASE Key!Fetch(c)
  <2> DEFINE row == IF lookup[c].kid = current
                    THEN [lookup[c] EXCEPT !.pc = "done", !.out = "key"]
                    ELSE [lookup[c] EXCEPT !.pc = "relock"]
  <2>1. row \in LookupRows /\ (row.out = "unknown" => ~known[c])
    BY <1>1, <1>2, <1>3, <1>6
  <2>2. /\ lookup' = [lookup EXCEPT ![c] = row] /\ Key!Fetched
        /\ UNCHANGED <<current, gone, known>>
    BY <1>4, <1>5, <1>6, <1>13 DEF Key!Fetch
  <2> HIDE DEF row
  <2> QED BY <1>0, <2>1, <2>2, CacheIsFilled
<1>14. CASE Key!Refetch(c)
  <2> DEFINE out == IF lookup[c].kid = current THEN "key" ELSE "unknown"
             row == [lookup[c] EXCEPT !.pc = "done", !.out = out]
  <2>1. out \in Key!Outcomes /\ Key!Return(c, out)
    BY <1>6, <1>14 DEF Key!Refetch
  <2>2. /\ known' = [known EXCEPT ![c] = lookup[c].kid = current]
        /\ Key!Fetched /\ UNCHANGED <<current, gone>>
    BY <1>14 DEF Key!Refetch
  <2>3. /\ known' \in [Lookups -> BOOLEAN] /\ \A d \in Lookups : d # c => known'[d] = known[d]
        /\ out = "unknown" => ~known'[c]
    BY <1>0, <2>2
  <2> HIDE DEF out
  <2>4. row \in LookupRows /\ row.out = out /\ lookup' = [lookup EXCEPT ![c] = row]
    BY <1>2, <1>5, <2>1
  <2> HIDE DEF row
  <2> QED BY <2>2, <2>3, <2>4, CacheIsFilled
<1> QED BY <1>8, <1>9, <1>10, <1>11, <1>12, <1>13, <1>14 DEF Key!Step

\* Rotation and time: a cached key never gets older than the cache.
LEMMA KeysGrowOld ==
    ASSUME KeyInv, Key!Rotate \/ Key!Tick
    PROVE  KeyInv'
<1>0. /\ TTL \in Nat /\ Kids \subseteq Nat /\ current \in Kids /\ keys \subseteq Kids
      /\ age \in 0 .. (TTL + 1) /\ gone \in [Kids -> 0 .. (TTL + 1)]
  BY ControlPlaneAssumption DEF KeyInv, Key!TypeOK, Key!Stale
<1>1. CASE Key!Rotate
  <2>1. current' = current + 1 /\ current' \in Kids
        /\ UNCHANGED <<gone, keys, age, lock, lookup, known>>
    BY <1>1 DEF Key!Rotate
  <2>2. Key!TypeOK'
    BY <2>1 DEF KeyInv, Key!TypeOK
  <2>3. Published' /\ Aging' /\ Key!PublishedKeyIsFound'
    <3>1. Published'
      BY <1>0, <2>1 DEF KeyInv, Published
    <3> QED BY <2>1, <3>1 DEF KeyInv, Aging, Key!PublishedKeyIsFound
  <2> QED BY <2>2, <2>3 DEF KeyInv
<1>2. CASE Key!Tick
  <2>1. /\ age' = IF age < TTL + 1 THEN age + 1 ELSE age
        /\ gone' = [k \in Kids |-> IF k < current /\ gone[k] < TTL + 1 THEN gone[k] + 1 ELSE gone[k]]
        /\ UNCHANGED <<current, keys, lock, lookup, known>>
    BY <1>2 DEF Key!Tick, Key!Stale
  <2>2. /\ age' \in 0 .. (TTL + 1) /\ gone' \in [Kids -> 0 .. (TTL + 1)]
        /\ \A k \in Kids : gone[k] <= age => gone'[k] <= age'
        /\ \A k \in Kids : k >= current => gone'[k] = gone[k]
    BY <1>0, <2>1
  <2>3. Key!TypeOK'
    BY <2>1, <2>2 DEF KeyInv, Key!TypeOK, Key!Stale
  <2>4. Published' /\ Aging' /\ Key!PublishedKeyIsFound'
    BY <1>0, <2>1, <2>2 DEF KeyInv, Published, Aging, Key!PublishedKeyIsFound
  <2> QED BY <2>3, <2>4 DEF KeyInv
<1> QED BY <1>1, <1>2

\* A step of another part, or none, leaves the variables of this one alone.
LEMMA KeyPart ==
    [Next]_vars => Key!Next \/ UNCHANGED keyVars
BY DEF Next, vars, SchemaStep, EvalStep, LoraStep, KeyStep, TenantStep, ItemStep, CronStep,
       SchemaOnly, EvalOnly, LoraOnly, KeyOnly, TenantOnly, ItemOnly, CronOnly, keyVars

\* The invariant holds in the composition.
LEMMA KeyInvariant ==
    Spec => []KeyInv
<1>1. Init => KeyInv
  <2> SUFFICES ASSUME Key!Init PROVE KeyInv
    BY DEF Init
  <2>1. Key!TypeOK
    BY ControlPlaneAssumption DEF Key!Init, Key!TypeOK, Key!Stale, Key!NoLookup, Key!Steps,
                                  Key!Outcomes
  <2>2. Published /\ Aging /\ Key!PublishedKeyIsFound
    BY ControlPlaneAssumption DEF Key!Init, Published, Aging, Key!PublishedKeyIsFound
  <2> QED BY <2>1, <2>2 DEF KeyInv
<1>2. KeyInv /\ [Next]_vars => KeyInv'
  <2> SUFFICES ASSUME KeyInv, [Next]_vars PROVE KeyInv'
    OBVIOUS
  <2>1. CASE UNCHANGED keyVars
    BY <2>1 DEF keyVars, KeyInv, Key!TypeOK, Published, Aging, Key!PublishedKeyIsFound
  <2>2. CASE Key!Next
    BY <2>2, LookupStep, KeysGrowOld DEF Key!Next
  <2> QED BY <2>1, <2>2, KeyPart
<1> QED BY <1>1, <1>2, PTL DEF Spec

\* get_key: for any number of concurrent requests and rotations, a key that the
\* provider publishes is not reported as unknown.
THEOREM PublishedKeysAreFound == Spec => []PublishedKeyIsFound
<1>1. KeyInv => PublishedKeyIsFound
  BY DEF KeyInv, PublishedKeyIsFound
<1> QED BY <1>1, KeyInvariant, PTL

\* get_key: for any number of concurrent requests, any TTL and however many
\* refreshes fail, no token is accepted whose key was withdrawn longer ago than
\* the TTL.
THEOREM WithdrawnKeysExpire == Spec => WithdrawnKeyExpires
<1> DEFINE Accepts == \A c \in Lookups :
             lookup[c].out = "none" /\ lookup'[c].out = "key" => gone[lookup[c].kid] <= TTL
<1>1. KeyInv /\ [Next]_vars => [Accepts]_(Key!keyVars)
  <2> SUFFICES ASSUME KeyInv, Key!Next, NEW c \in Lookups,
                      lookup[c].out = "none", lookup'[c].out = "key"
               PROVE  gone[lookup[c].kid] <= TTL
    BY KeyPart DEF keyVars, Key!keyVars
  <2>0. /\ TTL \in Nat /\ Kids \subseteq Nat /\ current \in Kids /\ keys \subseteq Kids
        /\ age \in 0 .. (TTL + 1) /\ gone \in [Kids -> 0 .. (TTL + 1)]
        /\ lookup \in [Lookups -> LookupRows]
    BY ControlPlaneAssumption DEF KeyInv, Key!TypeOK, Key!Stale, LookupRows
  <2>1. ASSUME lookup[c].kid \in keys, ~(age > TTL) PROVE gone[lookup[c].kid] <= TTL
    <3>1. gone[lookup[c].kid] <= age /\ gone[lookup[c].kid] \in 0 .. (TTL + 1)
      BY <2>0, <2>1 DEF KeyInv, Aging
    <3> QED BY <2>0, <2>1, <3>1
  <2>2. ASSUME lookup[c].kid = current PROVE gone[lookup[c].kid] <= TTL
    BY <2>0, <2>2 DEF KeyInv, Published
  <2>3. ASSUME NEW d \in Lookups, d # c, NEW row, lookup' = [lookup EXCEPT ![d] = row] PROVE FALSE
    BY <2>0, <2>3
  <2>4. PICK d \in Lookups : \/ \E kid \in 1 .. current : Key!Ask(d, kid)
                             \/ Key!Step(d) \/ Key!Acquire(d) \/ Key!AcquireAgain(d)
    BY <2>0 DEF Key!Next, Key!Rotate, Key!Tick
  <2>5. d = c
    <3>1. \E row : lookup' = [lookup EXCEPT ![d] = row]
      BY <2>0, <2>4 DEF Key!Ask, Key!Step, Key!GetKey, Key!Fetch, Key!Refetch, Key!FetchFails,
                        Key!Acquire, Key!AcquireAgain, Key!Go, Key!Return
    <3> QED BY <2>3, <3>1
  <2>6. \A pc : Key!Go(c, pc) => lookup'[c].out = "none"
    BY <2>0 DEF Key!Go, LookupRows
  <2>7. \A out : Key!Return(c, out) => lookup'[c].out = out
    BY <2>0 DEF Key!Return, LookupRows
  <2>8. CASE \E kid \in 1 .. current : Key!Ask(c, kid)
    BY <2>0, <2>8 DEF Key!Ask
  <2>9. CASE Key!GetKey(c) \/ Key!Acquire(c)
    BY <2>1, <2>6, <2>9 DEF Key!GetKey, Key!Acquire, Key!Cached, Key!IsStale
  <2>10. CASE Key!Fetch(c) \/ Key!Refetch(c)
    BY <2>2, <2>6, <2>7, <2>10 DEF Key!Fetch, Key!Refetch
  <2>11. CASE Key!FetchFails(c) \/ Key!AcquireAgain(c)
    BY <2>6, <2>7, <2>11 DEF Key!FetchFails, Key!AcquireAgain
  <2> QED BY <2>4, <2>5, <2>8, <2>9, <2>10, <2>11 DEF Key!Step
<1>2. WithdrawnKeyExpires <=> [][Accepts]_(Key!keyVars)
  BY DEF WithdrawnKeyExpires, Key!WithdrawnKeyExpires
<1> HIDE DEF Accepts
<1> QED BY <1>1, <1>2, KeyInvariant, PTL DEF Spec

-----------------------------------------------------------------------------
(* Operational jobs.                                                       *)

Calendar ==
    kind = "partition" =>
        /\ today \in partitions
        /\ ready => Cron!NextMonth(today) \in partitions

\* Where the loop of a job has a connection of its own
ShapeOf(n) ==
    /\ loop[n].pc \in {"sleep", "lock"} \/ kind = "scan" => loop[n].c = Nothing
    /\ loop[n].pc = "work" /\ kind = "partition" => loop[n].c # Nothing
    /\ loop[n].pc = "unlock" /\ loop[n].c # Nothing => stranded

LoopShape == \A n \in Nodes : ShapeOf(n)

Bounded == \A n \in Nodes : Cardinality(Cron!Idle(conn[n])) <= PoolSize

\* A connection that is out belongs to the run or to the other request
OwnedBy(n) == \A c \in Conns : conn[n][c] = "busy" => c = guest[n] \/ c = loop[n].c

Owned == \A n \in Nodes : OwnedBy(n)

Holds(n, c) == held[n][c] > 0

OneHolder == \A m, n \in Nodes, c, d \in Conns : Holds(m, c) /\ Holds(n, d) => m = n /\ c = d

\* Who works holds the lock
WorkHolds == ~shared => \A n \in Nodes : loop[n].pc = "work" => \E c \in Conns : Holds(n, c)

\* The session that holds the lock is the one that the unlock will be given
Reaches(n, c) ==
    /\ Cron!InRun(n) /\ held[n][c] = 1
    /\ loop[n].c = Nothing => c = Cron!Given(conn[n])
    /\ loop[n].c # Nothing => c = loop[n].c /\ c = Cron!Given(Cron!Checkin(conn[n], c))

UnlockReaches ==
    ~shared /\ ~stranded => \A n \in Nodes, c \in Conns : Holds(n, c) => Reaches(n, c)

CronInv ==
    /\ Cron!TypeOK
    /\ Calendar /\ LoopShape
    /\ Bounded /\ Owned
    /\ OneHolder /\ WorkHolds /\ UnlockReaches

-----------------------------------------------------------------------------
(* The pool: what it gives, takes back and gives again.                    *)

Pools == [Conns -> {"closed", "idle", "busy"}]
Size(pool) == Cardinality(Cron!Idle(pool))

\* The module of the jobs counts as this one does.
LEMMA SameCardinality ==
    ASSUME NEW S
    PROVE  Cron!Cardinality(S) = Cardinality(S)
BY DEF Cron!Cardinality, Cardinality

\* A set of connections has a first one.
LEMMA FirstIsLeast ==
    ASSUME NEW S, S \subseteq Conns, S # {}
    PROVE  Cron!First(S) \in S
<1> DEFINE R == {ss \in Nat \X Nat : ss[1] < ss[2]}
<1>1. IsWellFoundedOn(R, Nat)
  BY NatLessThanWellFounded, Zenon DEF OpToRel
<1> HIDE DEF R
<1>2. PICK x \in S : \A y \in S : ~(<<y, x>> \in R)
  BY <1>1, WFMin, ControlPlaneAssumption
<1>3. ASSUME NEW y \in S PROVE x <= y
  <2>1. x \in Nat /\ y \in Nat /\ <<y, x>> \notin R
    BY <1>2, ControlPlaneAssumption
  <2>2. ~(y < x)
    BY <2>1 DEF R
  <2> QED BY <2>1, <2>2
<1> QED BY <1>3 DEF Cron!First

\* The idle connections of a pool are finitely many.
LEMMA PoolIsFinite ==
    ASSUME NEW pool
    PROVE  IsFiniteSet(Cron!Idle(pool)) /\ Size(pool) \in Nat
<1>1. IsFiniteSet(Cron!Idle(pool))
  BY FS_Subset, ControlPlaneAssumption DEF Cron!Idle
<1> QED BY <1>1, FS_CardinalityType DEF Size

\* A connection is taken out of a pool.
LEMMA PoolGives ==
    ASSUME NEW pool \in Pools, NEW c \in Conns
    PROVE  /\ Cron!Checkout(pool, c) \in Pools /\ Cron!Checkout(pool, c)[c] = "busy"
           /\ \A d \in Conns : d # c => Cron!Checkout(pool, c)[d] = pool[d]
           /\ Size(Cron!Checkout(pool, c)) <= Size(pool)
           /\ pool[c] = "idle" => Size(Cron!Checkout(pool, c)) < Size(pool)
<1> DEFINE busy == Cron!Checkout(pool, c)
<1>1. /\ busy \in Pools /\ busy[c] = "busy" /\ \A d \in Conns : d # c => busy[d] = pool[d]
  BY DEF Cron!Checkout, Pools
<1> HIDE DEF busy
<1>2. Cron!Idle(busy) = Cron!Idle(pool) \ {c}
  BY <1>1 DEF Cron!Idle
<1>3. IsFiniteSet(Cron!Idle(pool)) /\ Size(pool) \in Nat /\ Size(busy) \in Nat
  BY PoolIsFinite
<1>4. Size(busy) = IF c \in Cron!Idle(pool) THEN Size(pool) - 1 ELSE Size(pool)
  BY <1>2, <1>3, FS_RemoveElement DEF Size
<1>5. Size(busy) <= Size(pool) /\ (pool[c] = "idle" => Size(busy) < Size(pool))
  BY <1>3, <1>4 DEF Cron!Idle
<1> QED BY <1>1, <1>5 DEF busy

\* A connection is returned, and kept or closed.
LEMMA PoolTakes ==
    ASSUME NEW pool \in Pools, NEW c \in Conns, Size(pool) <= PoolSize
    PROVE  /\ Cron!Checkin(pool, c) \in Pools
           /\ Cron!Checkin(pool, c)[c] = IF Size(pool) < PoolSize THEN "idle" ELSE "closed"
           /\ \A d \in Conns : d # c => Cron!Checkin(pool, c)[d] = pool[d]
           /\ Size(Cron!Checkin(pool, c)) <= PoolSize
<1> DEFINE back == Cron!Checkin(pool, c)
<1>1. /\ back \in Pools /\ back[c] = (IF Size(pool) < PoolSize THEN "idle" ELSE "closed")
      /\ \A d \in Conns : d # c => back[d] = pool[d]
  <2> DEFINE to == IF Size(pool) < PoolSize THEN "idle" ELSE "closed"
  <2>0. back = [pool EXCEPT ![c] = to]
    BY SameCardinality DEF Cron!Checkin, Size
  <2>1. back = [pool EXCEPT ![c] = to] /\ to \in {"idle", "closed"}
    BY <2>0
  <2> HIDE DEF to, back
  <2>2. back \in Pools /\ back[c] = to /\ \A d \in Conns : d # c => back[d] = pool[d]
    BY <2>1 DEF Pools
  <2> QED BY <2>2 DEF to
<1> HIDE DEF back
<1>2. /\ IsFiniteSet(Cron!Idle(pool)) /\ Size(pool) \in Nat /\ Size(back) \in Nat
      /\ PoolSize \in Nat
  BY PoolIsFinite, ControlPlaneAssumption
<1>3. CASE Size(pool) < PoolSize
  <2>1. Cron!Idle(back) = Cron!Idle(pool) \cup {c}
    BY <1>1, <1>3 DEF Cron!Idle
  <2>2. Size(back) = IF c \in Cron!Idle(pool) THEN Size(pool) ELSE Size(pool) + 1
    BY <1>2, <2>1, FS_AddElement DEF Size
  <2> QED BY <1>1, <1>2, <1>3, <2>2 DEF back
<1>4. CASE ~(Size(pool) < PoolSize)
  <2>1. Cron!Idle(back) = Cron!Idle(pool) \ {c}
    BY <1>1, <1>4 DEF Cron!Idle
  <2>2. Size(back) = IF c \in Cron!Idle(pool) THEN Size(pool) - 1 ELSE Size(pool)
    BY <1>2, <2>1, FS_RemoveElement DEF Size
  <2> QED BY <1>1, <1>2, <1>4, <2>2 DEF back
<1> QED BY <1>3, <1>4

\* While a connection is not out, the pool has one to give.
LEMMA PoolHasOne ==
    ASSUME NEW pool \in Pools, NEW d \in Conns, pool[d] # "busy"
    PROVE  /\ Cron!Given(pool) \in Conns /\ pool[Cron!Given(pool)] # "busy"
           /\ Cron!Idle(pool) # {} => Cron!Given(pool) \in Cron!Idle(pool)
<1>1. CASE Cron!Idle(pool) # {}
  <2>1. Cron!First(Cron!Idle(pool)) \in Cron!Idle(pool)
    BY <1>1, FirstIsLeast DEF Cron!Idle
  <2> QED BY <1>1, <2>1 DEF Cron!Given, Cron!Idle
<1>2. CASE Cron!Idle(pool) = {}
  <2> DEFINE closed == {c \in Conns : pool[c] = "closed"}
  <2>1. closed # {}
    BY <1>2 DEF Cron!Idle, Pools
  <2>2. Cron!First(closed) \in closed
    BY <2>1, FirstIsLeast
  <2> QED BY <1>2, <2>2 DEF Cron!Given
<1> QED BY <1>1, <1>2

\* A connection that has been returned is the one that the pool gives next: it is
\* kept, because the pool was not over its size before it gave it.
LEMMA PoolGivesAgain ==
    ASSUME NEW pool \in Pools, NEW d \in Conns, pool[d] # "busy", Size(pool) <= PoolSize,
           NEW c, c = Cron!Given(pool)
    PROVE  LET back == Cron!Checkin(Cron!Checkout(pool, c), c)
           IN  /\ back \in Pools /\ back[c] = "idle" /\ Cron!Given(back) = c
               /\ \A e \in Conns : e # c => back[e] = pool[e]
               /\ Size(back) <= PoolSize
<1> DEFINE busy == Cron!Checkout(pool, c)
           back == Cron!Checkin(busy, c)
<1>1. c \in Conns /\ pool[c] # "busy" /\ (Cron!Idle(pool) # {} => c \in Cron!Idle(pool))
  BY PoolHasOne
<1>2. /\ Size(pool) \in Nat /\ PoolSize \in Nat \ {0} /\ IsFiniteSet(Cron!Idle(pool))
      /\ Size(busy) \in Nat
  BY PoolIsFinite, ControlPlaneAssumption
<1>3. /\ busy \in Pools /\ busy[c] = "busy" /\ \A e \in Conns : e # c => busy[e] = pool[e]
      /\ Size(busy) <= Size(pool) /\ (pool[c] = "idle" => Size(busy) < Size(pool))
  BY <1>1, PoolGives
<1> HIDE DEF busy
<1>4. Size(busy) < PoolSize
  <2>1. CASE Cron!Idle(pool) # {}
    BY <1>1, <1>2, <1>3, <2>1 DEF Cron!Idle
  <2>2. CASE Cron!Idle(pool) = {}
    <3>1. Size(pool) = 0
      BY <2>2, FS_EmptySet DEF Size
    <3> QED BY <1>2, <1>3, <3>1
  <2> QED BY <2>1, <2>2
<1>5. /\ back \in Pools /\ back[c] = "idle" /\ \A e \in Conns : e # c => back[e] = busy[e]
      /\ Size(back) <= PoolSize
  BY <1>1, <1>2, <1>3, <1>4, PoolTakes, SMTT(30)
<1> HIDE DEF back
<1>6. Cron!Idle(back) = Cron!Idle(pool) \cup {c}
  BY <1>1, <1>3, <1>5 DEF Cron!Idle
<1>7. Cron!Given(back) = c
  <2>1. CASE Cron!Idle(pool) # {}
    <3>1. Cron!Idle(back) = Cron!Idle(pool)
      BY <1>1, <1>6, <2>1
    <3> QED BY <2>1, <3>1 DEF Cron!Given
  <2>2. CASE Cron!Idle(pool) = {}
    <3>1. Cron!Idle(back) = {c} /\ {c} # {}
      BY <1>6, <2>2
    <3>2. Cron!First({c}) \in {c}
      BY <1>1, FirstIsLeast
    <3> QED BY <3>1, <3>2 DEF Cron!Given
  <2> QED BY <2>1, <2>2
<1> QED BY <1>3, <1>5, <1>7 DEF back, busy

-----------------------------------------------------------------------------
(* The runs of the jobs.                                                   *)

LoopRows ==
    [pc: {"sleep", "lock", "work", "unlock"}, c: Conns \cup {Nothing}, target: SUBSET Cron!Dates]

\* The month after a date is a date.
LEMMA NextMonthIsDate ==
    ASSUME NEW d \in Cron!Dates
    PROVE  Cron!NextMonth(d) \in Cron!Dates
BY DEF Cron!NextMonth, Cron!Dates

\* The sessions of one process change: the locks of a closed one are given up.
LEMMA SessionsChange ==
    ASSUME CronInv, NEW n \in Nodes, NEW pool \in Pools, NEW locks \in [Conns -> 0 .. 2],
           Size(pool) <= PoolSize, Cron!Pool(n, pool, locks)
    PROVE  /\ conn' \in [Nodes -> Pools] /\ conn'[n] = pool
           /\ held' \in [Nodes -> [Conns -> 0 .. 2]]
           /\ \A c \in Conns : held'[n][c] = IF pool[c] = "closed" THEN 0 ELSE locks[c]
           /\ \A m \in Nodes : m # n => conn'[m] = conn[m] /\ held'[m] = held[m]
           /\ Bounded'
<1>0. conn \in [Nodes -> Pools] /\ held \in [Nodes -> [Conns -> 0 .. 2]]
  BY DEF CronInv, Cron!TypeOK, Pools
<1>1. conn' = [conn EXCEPT ![n] = pool] /\ held' = [held EXCEPT ![n] = Cron!Kept(pool, locks)]
  BY DEF Cron!Pool
<1> DEFINE kept == Cron!Kept(pool, locks)
<1>2. kept \in [Conns -> 0 .. 2] /\ \A c \in Conns : kept[c] = IF pool[c] = "closed" THEN 0 ELSE locks[c]
  BY DEF Cron!Kept
<1> HIDE DEF kept
<1>3. /\ conn' \in [Nodes -> Pools] /\ conn'[n] = pool
      /\ held' \in [Nodes -> [Conns -> 0 .. 2]] /\ held'[n] = kept
      /\ \A m \in Nodes : m # n => conn'[m] = conn[m] /\ held'[m] = held[m]
  BY <1>0, <1>1, <1>2 DEF kept
<1>4. \A m \in Nodes : Cardinality(Cron!Idle(conn'[m])) <= PoolSize
  BY <1>3 DEF CronInv, Bounded, Size
<1>5. Bounded'
  BY <1>4 DEF Bounded, Cron!Idle
<1> QED BY <1>2, <1>3, <1>5

\* A step of one process after which no session holds the lock that did not.
LEMMA LocksFade ==
    ASSUME CronInv, NEW n \in Nodes,
           \A m \in Nodes : m # n => /\ conn'[m] = conn[m] /\ held'[m] = held[m]
                                     /\ loop'[m] = loop[m],
           \A c \in Conns : Holds(n, c)' => Holds(n, c),
           shared => shared', stranded => stranded',
           ~shared' /\ loop'[n].pc = "work" => \E c \in Conns : Holds(n, c)',
           ~shared' /\ ~stranded' => \A c \in Conns : Holds(n, c)' => Reaches(n, c)'
    PROVE  OneHolder' /\ WorkHolds' /\ UnlockReaches'
<1>1. \A m \in Nodes, c \in Conns : m # n => (Holds(m, c)' <=> Holds(m, c))
  BY DEF Holds
<1>2. \A m \in Nodes, c \in Conns : m # n => (Reaches(m, c)' <=> Reaches(m, c))
  BY DEF Reaches, Cron!InRun
<1>3. OneHolder'
  BY <1>1 DEF CronInv, OneHolder
<1>4. WorkHolds'
  BY <1>1 DEF CronInv, WorkHolds
<1>5. UnlockReaches'
  BY <1>1, <1>2 DEF CronInv, UnlockReaches
<1> QED BY <1>3, <1>4, <1>5

\* A process always has a connection to give: one run and one other request take
\* at most two.
LEMMA NodeHasOne ==
    ASSUME CronInv, NEW n \in Nodes
    PROVE  /\ \E d \in Conns : conn[n][d] # "busy"
           /\ conn[n] \in Pools /\ Size(conn[n]) <= PoolSize
           /\ loop[n] \in LoopRows /\ guest[n] \in Conns \cup {Nothing}
           /\ held[n] \in [Conns -> 0 .. 2]
<1>1. /\ conn[n] \in Pools /\ Size(conn[n]) <= PoolSize
      /\ loop[n] \in LoopRows /\ guest[n] \in Conns \cup {Nothing}
      /\ held[n] \in [Conns -> 0 .. 2]
  BY DEF CronInv, Cron!TypeOK, Bounded, Pools, Size, LoopRows
<1>2. \E d \in Conns : d # guest[n] /\ d # loop[n].c
  <2>1. PICK c \in Conns : TRUE
    BY ControlPlaneAssumption
  <2> DEFINE g == IF guest[n] = Nothing THEN c ELSE guest[n]
             l == IF loop[n].c = Nothing THEN c ELSE loop[n].c
  <2>2. g \in Conns /\ l \in Conns
    BY <1>1, <2>1 DEF LoopRows
  <2>3. PICK d \in Conns : d # g /\ d # l
    BY <2>2, ControlPlaneAssumption
  <2>4. d # Nothing
    BY ControlPlaneAssumption
  <2> QED BY <2>3, <2>4
<1> QED BY <1>1, <1>2 DEF CronInv, Owned, OwnedBy

\* A step of one process: what the others have is theirs.
LEMMA NodeMoves ==
    ASSUME CronInv, NEW n \in Nodes, UNCHANGED kind, UNCHANGED today,
           conn' \in [Nodes -> Pools], held' \in [Nodes -> [Conns -> 0 .. 2]],
           DOMAIN loop' = Nodes, loop'[n] \in LoopRows,
           DOMAIN guest' = Nodes, guest'[n] \in Conns \cup {Nothing},
           \A m \in Nodes : m # n => /\ conn'[m] = conn[m] /\ loop'[m] = loop[m]
                                     /\ guest'[m] = guest[m],
           loop' = [m \in Nodes |-> loop'[m]], guest' = [m \in Nodes |-> guest'[m]],
           partitions' \subseteq Cron!Dates, ready' \in BOOLEAN,
           shared' \in BOOLEAN, stranded' \in BOOLEAN, stranded => stranded',
           ShapeOf(n)', OwnedBy(n)'
    PROVE  Cron!TypeOK' /\ LoopShape' /\ Owned'
<1>1. loop' \in [Nodes -> LoopRows] /\ guest' \in [Nodes -> Conns \cup {Nothing}]
  BY ZenonT(60) DEF CronInv, Cron!TypeOK, LoopRows
<1>2. Cron!TypeOK'
  BY <1>1 DEF CronInv, Cron!TypeOK, LoopRows, Pools
<1>3. LoopShape'
  BY DEF CronInv, LoopShape, ShapeOf
<1>4. Owned'
  BY DEF CronInv, Owned, OwnedBy
<1> QED BY <1>2, <1>3, <1>4

\* Another request takes or returns a connection of the process.
LEMMA GuestStep ==
    ASSUME CronInv, NEW n \in Nodes, Cron!Borrow(n) \/ Cron!GiveBack(n)
    PROVE  CronInv'
<1> DEFINE c == IF guest[n] = Nothing THEN Cron!Given(conn[n]) ELSE guest[n]
           pool == IF guest[n] = Nothing THEN Cron!Checkout(conn[n], c) ELSE Cron!Checkin(conn[n], c)
<1>0. /\ conn[n] \in Pools /\ Size(conn[n]) <= PoolSize /\ loop[n] \in LoopRows
      /\ guest[n] \in Conns \cup {Nothing} /\ held[n] \in [Conns -> 0 .. 2]
      /\ loop \in [Nodes -> LoopRows] /\ guest \in [Nodes -> Conns \cup {Nothing}]
      /\ shared \in BOOLEAN /\ stranded \in BOOLEAN /\ ready \in BOOLEAN
      /\ partitions \subseteq Cron!Dates
  BY NodeHasOne DEF CronInv, Cron!TypeOK, LoopRows
<1>1. c \in Conns /\ c # Nothing
  BY <1>0, NodeHasOne, PoolHasOne, ControlPlaneAssumption
<1>2. /\ pool \in Pools /\ Size(pool) <= PoolSize
      /\ \A d \in Conns : d # c => pool[d] = conn[n][d]
      /\ guest[n] # Nothing => pool[c] # "busy"
  <2>1. CASE guest[n] = Nothing
    <3>1. /\ pool \in Pools /\ Size(pool) <= Size(conn[n])
          /\ \A d \in Conns : d # c => pool[d] = conn[n][d]
      BY <1>0, <1>1, <2>1, PoolGives
    <3>2. Size(pool) \in Nat /\ Size(conn[n]) \in Nat /\ PoolSize \in Nat
      BY PoolIsFinite, ControlPlaneAssumption
    <3> QED BY <1>0, <2>1, <3>1, <3>2
  <2>2. CASE guest[n] # Nothing
    BY <1>0, <1>1, <2>2, PoolTakes
  <2> QED BY <2>1, <2>2
<1>3. /\ Cron!Pool(n, pool, held[n]) /\ shared' = (shared \/ Cron!InRun(n))
      /\ guest' = [guest EXCEPT ![n] = IF guest[n] = Nothing THEN c ELSE Nothing]
      /\ UNCHANGED <<kind, loop, today, partitions, ready, stranded>>
  BY DEF Cron!Borrow, Cron!GiveBack
<1> HIDE DEF pool, c
<1>4. /\ conn' \in [Nodes -> Pools] /\ conn'[n] = pool
      /\ held' \in [Nodes -> [Conns -> 0 .. 2]]
      /\ \A d \in Conns : held'[n][d] = IF pool[d] = "closed" THEN 0 ELSE held[n][d]
      /\ \A m \in Nodes : m # n => conn'[m] = conn[m] /\ held'[m] = held[m]
      /\ Bounded'
  BY <1>0, <1>2, <1>3, SessionsChange
<1>5. /\ guest'[n] = (IF guest[n] = Nothing THEN c ELSE Nothing) /\ DOMAIN guest' = Nodes
      /\ \A m \in Nodes : m # n => guest'[m] = guest[m]
      /\ guest' = [m \in Nodes |-> guest'[m]]
  BY <1>0, <1>3
<1>6. ShapeOf(n)'
  BY <1>3 DEF CronInv, LoopShape, ShapeOf
<1>7. OwnedBy(n)'
  <2> SUFFICES ASSUME NEW d \in Conns, pool[d] = "busy" PROVE d = guest'[n] \/ d = loop[n].c
    BY <1>3, <1>4 DEF OwnedBy
  <2>1. CASE d = c
    BY <1>2, <1>5, <2>1
  <2>2. CASE d # c
    <3>1. conn[n][d] = "busy"
      BY <1>2, <2>2
    <3>2. d = guest[n] \/ d = loop[n].c
      BY <3>1 DEF CronInv, Owned, OwnedBy
    <3>3. d # guest[n]
      BY <2>2, ControlPlaneAssumption DEF c
    <3> QED BY <3>2, <3>3
  <2> QED BY <2>1, <2>2
<1>8. Cron!TypeOK' /\ LoopShape' /\ Owned'
  <2>1. loop' \in [Nodes -> LoopRows] /\ loop' = [m \in Nodes |-> loop'[m]]
    BY <1>0, <1>3
  <2>2. guest'[n] \in Conns \cup {Nothing} /\ shared' \in BOOLEAN
    BY <1>0, <1>1, <1>3, <1>5
  <2> QED BY <1>0, <1>3, <1>4, <1>5, <1>6, <1>7, <2>1, <2>2, NodeMoves
<1>9. Calendar'
  BY <1>3 DEF CronInv, Calendar, Cron!NextMonth
<1>10. OneHolder' /\ WorkHolds' /\ UnlockReaches'
  <2>1. \A d \in Conns : Holds(n, d)' => Holds(n, d)
    BY <1>0, <1>4 DEF Holds
  <2>2. ~shared' => ~shared /\ loop'[n].pc # "work" /\ ~Cron!InRun(n)
    BY <1>3 DEF Cron!InRun
  <2>3. ~shared' /\ ~stranded' => \A d \in Conns : ~Holds(n, d)'
    BY <1>3, <2>1, <2>2 DEF CronInv, UnlockReaches, Reaches
  <2> QED BY <1>3, <1>4, <2>1, <2>2, <2>3, LocksFade
<1> QED BY <1>4, <1>8, <1>9, <1>10 DEF CronInv

\* A step of the loop without the pool: the job starts, or its work ends or raises.
LEMMA LoopStep ==
    ASSUME CronInv, NEW n \in Nodes, Cron!Start(n) \/ Cron!Scan(n) \/ Cron!CreateFails(n)
    PROVE  CronInv'
<1> DEFINE months == IF kind = "partition" THEN {Cron!NextMonth(today)} ELSE {}
           row == IF Cron!Start(n) THEN [loop[n] EXCEPT !.pc = "lock", !.target = months]
                  ELSE [loop[n] EXCEPT !.pc = "unlock"]
<1>0. /\ conn \in [Nodes -> Pools] /\ held \in [Nodes -> [Conns -> 0 .. 2]]
      /\ loop \in [Nodes -> LoopRows] /\ guest \in [Nodes -> Conns \cup {Nothing}]
      /\ shared \in BOOLEAN /\ stranded \in BOOLEAN /\ ready \in BOOLEAN
      /\ partitions \subseteq Cron!Dates /\ kind \in {"scan", "partition"}
  BY DEF CronInv, Cron!TypeOK, LoopRows, Pools
<1>m. months \subseteq Cron!Dates
  BY NextMonthIsDate DEF CronInv, Cron!TypeOK
<1>1. /\ loop' = [loop EXCEPT ![n] = row]
      /\ UNCHANGED <<kind, conn, held, guest, today, partitions, ready, shared>>
      /\ (stranded => stranded') /\ stranded' \in BOOLEAN
  BY <1>0 DEF Cron!Start, Cron!Scan, Cron!CreateFails
<1>2. /\ row \in LoopRows /\ row.c = loop[n].c /\ row.pc \in {"lock", "unlock"}
      /\ row.pc = "lock" => loop[n].pc = "sleep"
      /\ row.pc = "unlock" => /\ loop[n].pc = "work"
                              /\ (kind = "scan" /\ stranded' = stranded) \/ stranded'
  <2> HIDE DEF months
  <2> QED BY <1>0, <1>m DEF LoopRows, Cron!Start, Cron!Scan, Cron!CreateFails
<1> HIDE DEF row
<1>3. /\ loop'[n] = row /\ DOMAIN loop' = Nodes /\ loop' = [m \in Nodes |-> loop'[m]]
      /\ \A m \in Nodes : m # n => loop'[m] = loop[m]
  BY <1>0, <1>1
<1>4. ShapeOf(n)'
  BY <1>1, <1>2, <1>3 DEF CronInv, LoopShape, ShapeOf
<1>5. OwnedBy(n)'
  BY <1>1, <1>2, <1>3 DEF CronInv, Owned, OwnedBy
<1>6. Cron!TypeOK' /\ LoopShape' /\ Owned'
  <2>1. /\ DOMAIN guest' = Nodes /\ guest'[n] \in Conns \cup {Nothing}
        /\ guest' = [m \in Nodes |-> guest'[m]]
    BY <1>0, <1>1
  <2>2. /\ conn' \in [Nodes -> Pools] /\ held' \in [Nodes -> [Conns -> 0 .. 2]]
        /\ partitions' \subseteq Cron!Dates /\ ready' \in BOOLEAN
        /\ shared' \in BOOLEAN /\ UNCHANGED kind /\ UNCHANGED today
        /\ \A m \in Nodes : conn'[m] = conn[m] /\ guest'[m] = guest[m]
    BY <1>0, <1>1
  <2>3. stranded' \in BOOLEAN /\ (stranded => stranded')
    BY <1>1
  <2>4. loop'[n] \in LoopRows
    BY <1>2, <1>3
  <2> QED BY <1>3, <1>4, <1>5, <2>1, <2>2, <2>3, <2>4, NodeMoves
<1>7. Calendar' /\ Bounded'
  BY <1>1 DEF CronInv, Calendar, Bounded, Cron!NextMonth
<1>8. OneHolder' /\ WorkHolds' /\ UnlockReaches'
  <2>1. \A c \in Conns : Holds(n, c)' <=> Holds(n, c)
    BY <1>1 DEF Holds
  <2>2. ~shared' /\ ~stranded' => \A c \in Conns : Holds(n, c)' => Reaches(n, c)'
    <3> SUFFICES ASSUME ~shared', ~stranded', NEW c \in Conns, Holds(n, c) PROVE Reaches(n, c)'
      BY <2>1
    <3>1. Reaches(n, c)
      BY <1>1 DEF CronInv, UnlockReaches
    <3> QED BY <1>1, <1>2, <1>3, <3>1 DEF Reaches, Cron!InRun
  <2> QED BY <1>1, <1>2, <1>3, <2>1, <2>2, LocksFade
<1> QED BY <1>6, <1>7, <1>8 DEF CronInv

\* ensure_partition commits: the connection with the lock goes back to the pool.
LEMMA PartitionStep ==
    ASSUME CronInv, NEW n \in Nodes, Cron!CreatePartition(n)
    PROVE  CronInv'
<1> DEFINE c == loop[n].c
           pool == Cron!Checkin(conn[n], c)
           row == [Cron!NoLoop EXCEPT !.pc = "unlock"]
<1>0. /\ conn[n] \in Pools /\ Size(conn[n]) <= PoolSize /\ loop[n] \in LoopRows
      /\ held[n] \in [Conns -> 0 .. 2]
      /\ loop \in [Nodes -> LoopRows] /\ guest \in [Nodes -> Conns \cup {Nothing}]
      /\ shared \in BOOLEAN /\ stranded \in BOOLEAN
      /\ partitions \subseteq Cron!Dates /\ today \in Cron!Dates
  BY NodeHasOne DEF CronInv, Cron!TypeOK, LoopRows
<1>1. /\ kind = "partition" /\ loop[n].pc = "work"
      /\ ready' = (ready \/ Cron!NextMonth(today) \in loop[n].target)
      /\ partitions' = partitions \cup loop[n].target
      /\ Cron!Pool(n, pool, held[n]) /\ loop' = [loop EXCEPT ![n] = row]
      /\ UNCHANGED <<kind, guest, today, shared, stranded>>
  BY DEF Cron!CreatePartition
<1>2. c \in Conns /\ c # Nothing
  BY <1>0, <1>1 DEF CronInv, LoopShape, ShapeOf, LoopRows
<1>3. /\ pool \in Pools /\ Size(pool) <= PoolSize /\ pool[c] # "busy"
      /\ \A d \in Conns : d # c => pool[d] = conn[n][d]
  BY <1>0, <1>2, PoolTakes
<1>4. /\ conn' \in [Nodes -> Pools] /\ conn'[n] = pool
      /\ held' \in [Nodes -> [Conns -> 0 .. 2]]
      /\ \A d \in Conns : held'[n][d] = IF pool[d] = "closed" THEN 0 ELSE held[n][d]
      /\ \A m \in Nodes : m # n => conn'[m] = conn[m] /\ held'[m] = held[m]
      /\ Bounded'
  <2> HIDE DEF pool
  <2> QED BY <1>0, <1>1, <1>3, SessionsChange
<1>5. /\ row \in LoopRows /\ row.pc = "unlock" /\ row.c = Nothing
  BY DEF LoopRows, Cron!NoLoop
<1> HIDE DEF row
<1>6. /\ loop'[n] = row /\ DOMAIN loop' = Nodes /\ loop' = [m \in Nodes |-> loop'[m]]
      /\ \A m \in Nodes : m # n => loop'[m] = loop[m]
  BY <1>0, <1>1
<1>7. loop[n].target \subseteq Cron!Dates /\ ready \in BOOLEAN
  BY <1>0 DEF LoopRows, CronInv, Cron!TypeOK
<1>8. ShapeOf(n)'
  BY <1>5, <1>6 DEF ShapeOf
<1>9. OwnedBy(n)'
  BY <1>1, <1>3, <1>4 DEF CronInv, Owned, OwnedBy
<1>10. Cron!TypeOK' /\ LoopShape' /\ Owned'
  <2>1. partitions' \subseteq Cron!Dates /\ ready' \in BOOLEAN
    BY <1>0, <1>1, <1>7
  <2>2. DOMAIN guest' = Nodes /\ guest'[n] \in Conns \cup {Nothing}
        /\ guest' = [m \in Nodes |-> guest'[m]]
    BY <1>0, <1>1
  <2> QED BY <1>0, <1>1, <1>4, <1>5, <1>6, <1>8, <1>9, <2>1, <2>2, NodeMoves
<1>11. Calendar'
  BY <1>1 DEF CronInv, Calendar, Cron!NextMonth
<1>12. OneHolder' /\ WorkHolds' /\ UnlockReaches'
  <2>1. \A d \in Conns : Holds(n, d)' => Holds(n, d) /\ held'[n][d] = held[n][d]
    BY <1>0, <1>4 DEF Holds
  <2>2. ~shared' /\ ~stranded' => \A d \in Conns : Holds(n, d)' => Reaches(n, d)'
    <3> SUFFICES ASSUME ~shared', ~stranded', NEW d \in Conns, Holds(n, d)' PROVE Reaches(n, d)'
      OBVIOUS
    <3>1. Reaches(n, d)
      BY <1>1, <2>1 DEF CronInv, UnlockReaches
    <3>2. d = Cron!Given(pool) /\ held[n][d] = 1
      BY <1>2, <3>1 DEF Reaches
    <3>3. held'[n][d] = 1 /\ conn'[n] = pool /\ loop'[n].pc = "unlock" /\ loop'[n].c = Nothing
      BY <1>4, <1>5, <1>6, <2>1, <3>2
    <3> QED BY <3>2, <3>3 DEF Reaches, Cron!InRun
  <2> QED BY <1>1, <1>4, <1>5, <1>6, <2>1, <2>2, LocksFade
<1> QED BY <1>4, <1>10, <1>11, <1>12 DEF CronInv

\* The process restarts, and its sessions are closed.
LEMMA RestartStep ==
    ASSUME CronInv, NEW n \in Nodes, Cron!Restart(n)
    PROVE  CronInv'
<1> DEFINE pool == [c \in Conns |-> "closed"]
<1>0. /\ held[n] \in [Conns -> 0 .. 2]
      /\ loop \in [Nodes -> LoopRows] /\ guest \in [Nodes -> Conns \cup {Nothing}]
      /\ shared \in BOOLEAN /\ stranded \in BOOLEAN /\ ready \in BOOLEAN
      /\ partitions \subseteq Cron!Dates
  BY DEF CronInv, Cron!TypeOK, LoopRows
<1>1. /\ Cron!Pool(n, pool, held[n]) /\ loop' = [loop EXCEPT ![n] = Cron!NoLoop]
      /\ guest' = [guest EXCEPT ![n] = Nothing]
      /\ UNCHANGED <<kind, today, partitions, ready, shared, stranded>>
  BY DEF Cron!Restart
<1>2. pool \in Pools /\ Size(pool) <= PoolSize
  <2>1. Cron!Idle(pool) = {}
    BY DEF Cron!Idle
  <2>2. Size(pool) = 0
    BY <2>1, FS_EmptySet DEF Size
  <2> QED BY <2>2, ControlPlaneAssumption DEF Pools
<1>3. \A c \in Conns : pool[c] = "closed"
  OBVIOUS
<1> HIDE DEF pool
<1>4. /\ conn' \in [Nodes -> Pools] /\ conn'[n] = pool
      /\ held' \in [Nodes -> [Conns -> 0 .. 2]]
      /\ \A d \in Conns : held'[n][d] = IF pool[d] = "closed" THEN 0 ELSE held[n][d]
      /\ \A m \in Nodes : m # n => conn'[m] = conn[m] /\ held'[m] = held[m]
      /\ Bounded'
  BY <1>0, <1>1, <1>2, SessionsChange
<1>5. Cron!NoLoop \in LoopRows /\ Cron!NoLoop.pc = "sleep" /\ Cron!NoLoop.c = Nothing
  BY DEF Cron!NoLoop, LoopRows
<1>6. /\ loop'[n] = Cron!NoLoop /\ DOMAIN loop' = Nodes /\ loop' = [m \in Nodes |-> loop'[m]]
      /\ guest'[n] = Nothing /\ DOMAIN guest' = Nodes /\ guest' = [m \in Nodes |-> guest'[m]]
      /\ \A m \in Nodes : m # n => loop'[m] = loop[m] /\ guest'[m] = guest[m]
  BY <1>0, <1>1
<1>7. ShapeOf(n)' /\ OwnedBy(n)'
  BY <1>3, <1>4, <1>5, <1>6 DEF ShapeOf, OwnedBy
<1>8. Cron!TypeOK' /\ LoopShape' /\ Owned'
  BY <1>0, <1>1, <1>4, <1>5, <1>6, <1>7, NodeMoves
<1>9. Calendar'
  BY <1>1 DEF CronInv, Calendar, Cron!NextMonth
<1>10. OneHolder' /\ WorkHolds' /\ UnlockReaches'
  <2>1. \A d \in Conns : ~Holds(n, d)'
    BY <1>3, <1>4 DEF Holds
  <2> QED BY <1>1, <1>4, <1>5, <1>6, <2>1, LocksFade
<1> QED BY <1>4, <1>8, <1>9, <1>10 DEF CronInv

\* A month passes: the one that begins is the one whose partition was made.
LEMMA MonthStep ==
    ASSUME CronInv, Cron!MonthPasses
    PROVE  CronInv'
<1>1. /\ ready /\ ready' = FALSE
      /\ today' = [year |-> today.year + today.month \div 12, month |-> (today.month % 12) + 1]
      /\ UNCHANGED <<kind, conn, held, loop, guest, partitions, shared, stranded>>
      /\ today \in Cron!Dates
  BY DEF Cron!MonthPasses, CronInv, Cron!TypeOK
<1>2. today' = Cron!NextMonth(today)
  <2>1. CASE today.month = 12
    BY <1>1, <2>1 DEF Cron!NextMonth, Cron!Dates
  <2>2. CASE today.month # 12
    <3>1. today.month \in 1 .. 11
      BY <1>1, <2>2 DEF Cron!Dates
    <3>2. today.month \div 12 = 0 /\ today.month % 12 = today.month
      BY <3>1
    <3> QED BY <1>1, <2>2, <3>2 DEF Cron!NextMonth, Cron!Dates
  <2> QED BY <2>1, <2>2
<1>3. today' \in Cron!Dates
  BY <1>1, <1>2, NextMonthIsDate
<1>4. Cron!TypeOK' /\ Calendar'
  BY <1>1, <1>2, <1>3 DEF CronInv, Cron!TypeOK, Calendar
<1>5. LoopShape' /\ Bounded' /\ Owned'
  BY <1>1 DEF CronInv, LoopShape, ShapeOf, Bounded, Owned, OwnedBy
<1>6. OneHolder' /\ WorkHolds' /\ UnlockReaches'
  BY <1>1 DEF CronInv, OneHolder, WorkHolds, UnlockReaches, Holds, Reaches, Cron!InRun
<1> QED BY <1>4, <1>5, <1>6 DEF CronInv

\* pg_try_advisory_lock: the lock is taken when no other session has it, and the
\* run keeps its connection or returns it to be given again.
LEMMA TryLockStep ==
    ASSUME CronInv, NEW n \in Nodes, Cron!TryLock(n)
    PROVE  CronInv'
<1> DEFINE c == Cron!Given(conn[n])
           busy == Cron!Checkout(conn[n], c)
           back == Cron!Checkin(busy, c)
           free == Cron!Obtainable(n, c)
           keep == kind = "partition" /\ free
           pool == IF keep THEN busy ELSE back
           locks == IF free /\ held[n][c] < 2 THEN [held[n] EXCEPT ![c] = @ + 1] ELSE held[n]
           row == IF free THEN [loop[n] EXCEPT !.pc = "work", !.c = IF keep THEN c ELSE Nothing]
                  ELSE Cron!NoLoop
<1>0. /\ conn[n] \in Pools /\ Size(conn[n]) <= PoolSize /\ loop[n] \in LoopRows
      /\ held[n] \in [Conns -> 0 .. 2] /\ held \in [Nodes -> [Conns -> 0 .. 2]]
      /\ loop \in [Nodes -> LoopRows] /\ guest \in [Nodes -> Conns \cup {Nothing}]
      /\ shared \in BOOLEAN /\ stranded \in BOOLEAN /\ ready \in BOOLEAN
      /\ partitions \subseteq Cron!Dates /\ kind \in {"scan", "partition"}
  BY NodeHasOne DEF CronInv, Cron!TypeOK, LoopRows
<1>1. /\ loop[n].pc = "lock" /\ Cron!Pool(n, pool, locks) /\ loop' = [loop EXCEPT ![n] = row]
      /\ shared' = (shared \/ guest[n] # Nothing)
      /\ UNCHANGED <<kind, guest, today, partitions, ready, stranded>>
  BY DEF Cron!TryLock
<1>2. PICK e \in Conns : conn[n][e] # "busy"
  BY NodeHasOne
<1>3. c \in Conns /\ c # Nothing
  BY <1>0, <1>2, PoolHasOne, ControlPlaneAssumption
<1>4. /\ busy \in Pools /\ busy[c] = "busy" /\ \A d \in Conns : d # c => busy[d] = conn[n][d]
      /\ Size(busy) <= PoolSize
  <2>1. /\ busy \in Pools /\ busy[c] = "busy" /\ \A d \in Conns : d # c => busy[d] = conn[n][d]
        /\ Size(busy) <= Size(conn[n])
    BY <1>0, <1>3, PoolGives
  <2>2. Size(busy) \in Nat /\ Size(conn[n]) \in Nat /\ PoolSize \in Nat
    BY PoolIsFinite, ControlPlaneAssumption
  <2> QED BY <1>0, <2>1, <2>2
<1>5. /\ back \in Pools /\ back[c] = "idle" /\ Cron!Given(back) = c
      /\ \A d \in Conns : d # c => back[d] = conn[n][d]
      /\ Size(back) <= PoolSize
  BY <1>0, <1>2, PoolGivesAgain
<1> HIDE DEF busy, back
<1>6. /\ pool \in Pools /\ Size(pool) <= PoolSize /\ pool[c] # "closed"
      /\ pool[c] = "busy" => keep
      /\ \A d \in Conns : d # c => pool[d] = conn[n][d]
  BY <1>4, <1>5
<1>7. /\ locks \in [Conns -> 0 .. 2] /\ \A d \in Conns : d # c => locks[d] = held[n][d]
      /\ ~free => locks[c] = held[n][c]
      /\ free => locks[c] > 0 /\ (held[n][c] = 0 => locks[c] = 1)
  <2>1. held[n][c] \in 0 .. 2
    BY <1>0, <1>3
  <2>2. CASE free /\ held[n][c] < 2
    <3>1. locks = [held[n] EXCEPT ![c] = held[n][c] + 1] /\ held[n][c] + 1 \in 1 .. 2
      BY <2>1, <2>2
    <3> HIDE DEF locks, free
    <3> QED BY <1>0, <1>3, <2>1, <2>2, <3>1
  <2>3. CASE ~(free /\ held[n][c] < 2)
    <3>1. locks = held[n]
      BY <2>3
    <3> HIDE DEF locks, free
    <3> QED BY <1>0, <2>1, <2>3, <3>1
  <2> QED BY <2>2, <2>3
<1>8. /\ row \in LoopRows /\ (free => row.pc = "work") /\ (~free => row.pc = "sleep")
      /\ row.c = IF keep THEN c ELSE Nothing
  BY <1>0, <1>3 DEF LoopRows, Cron!NoLoop
<1>9. free <=> \A m \in Nodes, d \in Conns : Holds(m, d) => m = n /\ d = c
  BY <1>0 DEF Cron!Obtainable, Holds
<1> HIDE DEF c, free, keep, pool, locks, row
<1>10. /\ conn' \in [Nodes -> Pools] /\ conn'[n] = pool
       /\ held' \in [Nodes -> [Conns -> 0 .. 2]]
       /\ \A d \in Conns : held'[n][d] = IF pool[d] = "closed" THEN 0 ELSE locks[d]
       /\ \A m \in Nodes : m # n => conn'[m] = conn[m] /\ held'[m] = held[m]
       /\ Bounded'
  BY <1>0, <1>1, <1>6, <1>7, SessionsChange
<1>11. /\ loop'[n] = row /\ DOMAIN loop' = Nodes /\ loop' = [m \in Nodes |-> loop'[m]]
       /\ DOMAIN guest' = Nodes /\ guest' = [m \in Nodes |-> guest'[m]]
       /\ guest'[n] \in Conns \cup {Nothing} /\ guest'[n] = guest[n] /\ shared' \in BOOLEAN
       /\ \A m \in Nodes : m # n => loop'[m] = loop[m] /\ guest'[m] = guest[m]
  BY <1>0, <1>1
<1>12. ShapeOf(n)'
  <2>1. kind' = kind /\ (keep <=> kind = "partition" /\ free)
    BY <1>1 DEF keep
  <2> QED BY <1>0, <1>3, <1>8, <1>11, <2>1 DEF ShapeOf
<1>13. OwnedBy(n)'
  <2> SUFFICES ASSUME NEW d \in Conns, pool[d] = "busy" PROVE d = guest[n] \/ d = row.c
    BY <1>10, <1>11 DEF OwnedBy
  <2>1. CASE d = c
    BY <1>6, <1>8, <2>1
  <2>2. CASE d # c
    <3>1. conn[n][d] = "busy"
      BY <1>6, <2>2
    <3>2. d = guest[n] \/ d = loop[n].c
      BY <3>1 DEF CronInv, Owned, OwnedBy
    <3>3. d # loop[n].c
      BY <1>1, ControlPlaneAssumption DEF CronInv, LoopShape, ShapeOf
    <3> QED BY <3>2, <3>3
  <2> QED BY <2>1, <2>2
<1>14. Cron!TypeOK' /\ LoopShape' /\ Owned'
  BY <1>0, <1>1, <1>8, <1>10, <1>11, <1>12, <1>13, NodeMoves
<1>15. Calendar'
  BY <1>1 DEF CronInv, Calendar, Cron!NextMonth
<1>16. ~shared /\ ~stranded => \A d \in Conns : ~Holds(n, d)
  BY <1>1 DEF CronInv, UnlockReaches, Reaches, Cron!InRun
<1>17. OneHolder' /\ WorkHolds' /\ UnlockReaches'
  <2>1. CASE free
    <3>0. PICK k \in Conns : k = c
      BY <1>3
    <3>1. \A m \in Nodes, d \in Conns : Holds(m, d) => m = n /\ d = k
      BY <1>9, <2>1, <3>0
    <3>2. Holds(n, k)'
      BY <1>3, <1>6, <1>7, <1>10, <2>1, <3>0 DEF Holds
    <3>3. \A m \in Nodes, d \in Conns : Holds(m, d)' => m = n /\ d = k
      BY <1>0, <1>7, <1>10, <3>0, <3>1 DEF Holds
    <3>4. OneHolder'
      BY <3>3 DEF OneHolder
    <3>5. WorkHolds'
      <4> SUFFICES ASSUME ~shared', NEW m \in Nodes, loop'[m].pc = "work"
                   PROVE  \E d \in Conns : Holds(m, d)'
        BY DEF WorkHolds
      <4>1. CASE m = n
        BY <3>2, <4>1
      <4>2. CASE m # n
        BY <1>1, <1>11, <3>1, <4>2 DEF CronInv, WorkHolds
      <4> QED BY <4>1, <4>2
    <3>6. UnlockReaches'
      <4> SUFFICES ASSUME ~shared', ~stranded' PROVE Reaches(n, k)'
        BY <3>3 DEF UnlockReaches
      <4>1. held[n][k] = 0
        BY <1>0, <1>1, <1>16 DEF Holds
      <4>2. held'[n][k] = 1 /\ loop'[n].pc = "work"
        BY <1>3, <1>6, <1>7, <1>8, <1>10, <1>11, <2>1, <3>0, <4>1
      <4>3. CASE keep
        <5>1. conn'[n] = busy /\ loop'[n].c = k /\ Cron!Given(Cron!Checkin(busy, k)) = k
          BY <1>5, <1>8, <1>10, <1>11, <3>0, <4>3 DEF pool, back
        <5> QED BY <1>3, <3>0, <4>2, <5>1 DEF Reaches, Cron!InRun
      <4>4. CASE ~keep
        <5>1. conn'[n] = back /\ loop'[n].c = Nothing /\ Cron!Given(back) = k
          BY <1>5, <1>8, <1>10, <1>11, <3>0, <4>4 DEF pool
        <5> QED BY <4>2, <5>1 DEF Reaches, Cron!InRun
      <4> QED BY <4>3, <4>4
    <3> QED BY <3>4, <3>5, <3>6
  <2>2. CASE ~free
    <3>1. \A d \in Conns : Holds(n, d)' => Holds(n, d)
      <4> SUFFICES ASSUME NEW d \in Conns, Holds(n, d)' PROVE Holds(n, d)
        OBVIOUS
      <4>1. locks[d] = held[n][d]
        BY <1>7, <2>2
      <4> QED BY <1>10, <4>1 DEF Holds
    <3>2. ~shared' /\ ~stranded' => \A d \in Conns : ~Holds(n, d)'
      BY <1>1, <1>16, <3>1
    <3> QED BY <1>1, <1>8, <1>10, <1>11, <2>2, <3>1, <3>2, LocksFade
  <2> QED BY <2>1, <2>2
<1> QED BY <1>10, <1>14, <1>15, <1>17 DEF CronInv

\* pg_advisory_unlock on the connection that the pool gives.
LEMMA UnlockStep ==
    ASSUME CronInv, NEW n \in Nodes, Cron!Unlock(n)
    PROVE  CronInv'
<1> DEFINE c == Cron!Given(conn[n])
           back == Cron!Checkin(Cron!Checkout(conn[n], c), c)
           pool == IF loop[n].c = Nothing THEN back ELSE Cron!Checkin(back, loop[n].c)
           locks == [held[n] EXCEPT ![c] = IF @ > 0 THEN @ - 1 ELSE 0]
<1>0. /\ conn[n] \in Pools /\ Size(conn[n]) <= PoolSize /\ loop[n] \in LoopRows
      /\ held[n] \in [Conns -> 0 .. 2]
      /\ loop \in [Nodes -> LoopRows] /\ guest \in [Nodes -> Conns \cup {Nothing}]
      /\ shared \in BOOLEAN /\ stranded \in BOOLEAN /\ ready \in BOOLEAN
      /\ partitions \subseteq Cron!Dates
  BY NodeHasOne DEF CronInv, Cron!TypeOK, LoopRows
<1>1. /\ loop[n].pc = "unlock" /\ Cron!Pool(n, pool, locks)
      /\ loop' = [loop EXCEPT ![n] = Cron!NoLoop]
      /\ UNCHANGED <<kind, guest, today, partitions, ready, shared, stranded>>
  BY DEF Cron!Unlock
<1>2. PICK e \in Conns : conn[n][e] # "busy"
  BY NodeHasOne
<1>3. c \in Conns
  BY <1>0, <1>2, PoolHasOne
<1>4. /\ back \in Pools /\ back[c] = "idle" /\ \A d \in Conns : d # c => back[d] = conn[n][d]
      /\ Size(back) <= PoolSize
  BY <1>0, <1>2, PoolGivesAgain
<1> HIDE DEF back
<1>5. /\ pool \in Pools /\ Size(pool) <= PoolSize
      /\ \A d \in Conns : pool[d] = "busy" => conn[n][d] = "busy" /\ d # loop[n].c
  <2>1. CASE loop[n].c = Nothing
    BY <1>4, <2>1, ControlPlaneAssumption
  <2>2. CASE loop[n].c # Nothing
    <3>1. loop[n].c \in Conns
      BY <1>0, <2>2 DEF LoopRows
    <3>2. /\ pool \in Pools /\ Size(pool) <= PoolSize /\ pool[loop[n].c] # "busy"
          /\ \A d \in Conns : d # loop[n].c => pool[d] = back[d]
      BY <1>4, <2>2, <3>1, PoolTakes
    <3> QED BY <1>4, <3>2
  <2> QED BY <2>1, <2>2
<1>6. /\ locks \in [Conns -> 0 .. 2] /\ \A d \in Conns : d # c => locks[d] = held[n][d]
      /\ locks[c] > 0 => held[n][c] > 0
      /\ held[n][c] = 1 => locks[c] = 0
  <2> DEFINE left == IF held[n][c] > 0 THEN held[n][c] - 1 ELSE 0
  <2>1. held[n][c] \in 0 .. 2
    BY <1>0, <1>3
  <2>2. left \in 0 .. 2 /\ (left > 0 => held[n][c] > 0) /\ (held[n][c] = 1 => left = 0)
    BY <2>1
  <2>3. locks = [held[n] EXCEPT ![c] = left]
    OBVIOUS
  <2> HIDE DEF locks, left
  <2> QED BY <1>0, <1>3, <2>2, <2>3
<1> HIDE DEF pool, locks
<1>7. /\ conn' \in [Nodes -> Pools] /\ conn'[n] = pool
      /\ held' \in [Nodes -> [Conns -> 0 .. 2]]
      /\ \A d \in Conns : held'[n][d] = IF pool[d] = "closed" THEN 0 ELSE locks[d]
      /\ \A m \in Nodes : m # n => conn'[m] = conn[m] /\ held'[m] = held[m]
      /\ Bounded'
  BY <1>0, <1>1, <1>5, <1>6, SessionsChange
<1>8. Cron!NoLoop \in LoopRows /\ Cron!NoLoop.pc = "sleep" /\ Cron!NoLoop.c = Nothing
  BY DEF Cron!NoLoop, LoopRows
<1>9. /\ loop'[n] = Cron!NoLoop /\ DOMAIN loop' = Nodes /\ loop' = [m \in Nodes |-> loop'[m]]
      /\ DOMAIN guest' = Nodes /\ guest' = [m \in Nodes |-> guest'[m]]
      /\ guest'[n] \in Conns \cup {Nothing} /\ guest'[n] = guest[n]
      /\ \A m \in Nodes : m # n => loop'[m] = loop[m] /\ guest'[m] = guest[m]
  BY <1>0, <1>1
<1>10. ShapeOf(n)'
  BY <1>8, <1>9 DEF ShapeOf
<1>11. OwnedBy(n)'
  BY <1>5, <1>7, <1>9 DEF CronInv, Owned, OwnedBy
<1>12. Cron!TypeOK' /\ LoopShape' /\ Owned'
  BY <1>0, <1>1, <1>7, <1>8, <1>9, <1>10, <1>11, NodeMoves
<1>13. Calendar'
  BY <1>1 DEF CronInv, Calendar, Cron!NextMonth
<1>14. OneHolder' /\ WorkHolds' /\ UnlockReaches'
  <2>1. \A d \in Conns : Holds(n, d)' => Holds(n, d) /\ locks[d] > 0
    BY <1>0, <1>6, <1>7 DEF Holds
  <2>2. ~shared' /\ ~stranded' => \A d \in Conns : ~Holds(n, d)'
    <3> SUFFICES ASSUME ~shared', ~stranded', NEW d \in Conns, Holds(n, d)' PROVE FALSE
      OBVIOUS
    <3>1. Reaches(n, d) /\ loop[n].c = Nothing
      BY <1>1, <2>1 DEF CronInv, UnlockReaches, LoopShape, ShapeOf
    <3>2. d = c /\ held[n][d] = 1
      BY <3>1 DEF Reaches
    <3> QED BY <1>6, <2>1, <3>2
  <2> QED BY <1>1, <1>7, <1>8, <1>9, <2>1, <2>2, LocksFade
<1> QED BY <1>7, <1>12, <1>13, <1>14 DEF CronInv

\* A step of another part, or none, leaves the variables of this one alone.
LEMMA CronPart ==
    [Next]_vars => Cron!Next \/ UNCHANGED cronVars
BY DEF Next, vars, SchemaStep, EvalStep, LoraStep, KeyStep, TenantStep, ItemStep, CronStep,
       SchemaOnly, EvalOnly, LoraOnly, KeyOnly, TenantOnly, ItemOnly, CronOnly, cronVars

\* The invariant holds in the composition.
LEMMA CronInvariant ==
    Spec => []CronInv
<1>1. Init => CronInv
  <2> SUFFICES ASSUME Cron!Init PROVE CronInv
    BY DEF Init
  <2>1. \A n \in Nodes : conn[n] = [c \in Conns |-> "closed"] /\ loop[n] = Cron!NoLoop
    BY DEF Cron!Init
  <2>2. Cron!NoLoop.pc = "sleep" /\ Cron!NoLoop.c = Nothing /\ Cron!NoLoop \in LoopRows
    BY DEF Cron!NoLoop, LoopRows
  <2>3. Cron!TypeOK /\ Calendar
    <3>1. today \in Cron!Dates /\ partitions = {today}
      BY DEF Cron!Init, Cron!Dates
    <3>2. /\ conn \in [Nodes -> Pools] /\ held \in [Nodes -> [Conns -> 0 .. 2]]
          /\ loop \in [Nodes -> LoopRows] /\ guest \in [Nodes -> Conns \cup {Nothing}]
      BY <2>2 DEF Cron!Init, Pools
    <3>3. /\ kind \in {"scan", "partition"} /\ ready = FALSE
          /\ shared \in BOOLEAN /\ stranded \in BOOLEAN
      BY DEF Cron!Init
    <3> QED BY <3>1, <3>2, <3>3 DEF Cron!TypeOK, Calendar, LoopRows, Pools
  <2>4. LoopShape /\ Owned
    BY <2>1, <2>2 DEF LoopShape, ShapeOf, Owned, OwnedBy
  <2>5. Bounded
    <3> SUFFICES ASSUME NEW n \in Nodes PROVE Cardinality(Cron!Idle(conn[n])) <= PoolSize
      BY DEF Bounded
    <3>1. Cron!Idle(conn[n]) = {}
      BY <2>1 DEF Cron!Idle
    <3> QED BY <3>1, FS_EmptySet, ControlPlaneAssumption
  <2>6. \A n \in Nodes, c \in Conns : ~Holds(n, c)
    BY DEF Cron!Init, Holds
  <2>7. OneHolder /\ WorkHolds /\ UnlockReaches
    BY <2>1, <2>2, <2>6 DEF OneHolder, WorkHolds, UnlockReaches
  <2> QED BY <2>3, <2>4, <2>5, <2>7 DEF CronInv
<1>2. CronInv /\ [Next]_vars => CronInv'
  <2> SUFFICES ASSUME CronInv, [Next]_vars PROVE CronInv'
    OBVIOUS
  <2>1. CASE UNCHANGED cronVars
    BY <2>1 DEF cronVars, CronInv, Cron!TypeOK, Calendar, LoopShape, ShapeOf, Bounded, Owned,
                OwnedBy, OneHolder, WorkHolds, UnlockReaches, Holds, Reaches, Cron!InRun
  <2>2. CASE Cron!Next
    BY <2>2, GuestStep, LoopStep, PartitionStep, TryLockStep, UnlockStep, RestartStep, MonthStep
       DEF Cron!Next, Cron!RunStep
  <2> QED BY <2>1, <2>2, CronPart
<1> QED BY <1>1, <1>2, PTL DEF Spec

\* run_all_tenants, scan, ensure_partition: for any number of processes and any
\* size of the pool, at most one does the work while nobody else uses the pool
\* during a run, and then the lock comes back unless a CREATE has failed.
THEOREM AdvisoryLockWorks == Spec => []LockWorks
<1>1. CronInv => LockWorks
  <2> SUFFICES ASSUME CronInv PROVE LockWorks
    OBVIOUS
  <2>1. Cron!SingleRunner
    BY DEF CronInv, Cron!SingleRunner, WorkHolds, OneHolder
  <2>2. Cron!LockIsReturned
    <3> SUFFICES ASSUME \A n \in Nodes : ~Cron!InRun(n), ~shared, ~stranded,
                        NEW n \in Nodes, NEW c \in Conns
                 PROVE  held[n][c] = 0
      BY DEF Cron!LockIsReturned
    <3>1. ~Holds(n, c) /\ held[n][c] \in 0 .. 2
      BY DEF CronInv, UnlockReaches, Reaches, Cron!TypeOK
    <3> QED BY <3>1 DEF Holds
  <2> QED BY <2>1, <2>2 DEF LockWorks, Cron!LockWorks
<1> QED BY <1>1, CronInvariant, PTL

\* ensure_next_month_partition: for any number of processes and months, a month
\* that begins after one in which a run has succeeded has its partition, over the
\* end of a year too.
THEOREM PartitionsAreReady == Spec => []PartitionIsReady
<1>1. CronInv => PartitionIsReady
  BY DEF CronInv, Calendar, PartitionIsReady, Cron!PartitionIsReady
<1> QED BY <1>1, CronInvariant, PTL

-----------------------------------------------------------------------------
(* All parts together.                                                     *)

\* Every reachable state of schemas, jobs, adapters, keys, tenants, items and
\* operational jobs is well typed, for any number of each.
THEOREM ControlPlaneIsTyped == Spec => []TypeOK
<1>1. SchemaP!SchemaInv => Schema!TypeOK
  BY DEF SchemaP!SchemaInv, SchemaP!TypeOK, Schema!TypeOK, SchemaP!Versions, Schema!Versions,
         SchemaP!Schemas, Schema!Schemas, SchemaP!PutStates, Schema!PutStates
<1>2. EvalInv => Eval!TypeOK
  BY EvalIsTyped
<1>3. ItemP!BankInv => Item!TypeOK
  <2>1. Item!Rows = ItemP!Rows /\ Item!NoRow = ItemP!NoRow /\ Item!Items = ItemP!Items
    BY DEF ItemP!Rows, Item!Rows, ItemP!Statuses, Item!Statuses, Item!NoRow, ItemP!NoRow,
           Item!Row, ItemP!Row, Item!Items, ItemP!Items
  <2>2. Item!Requests = ItemP!Requests
    BY <2>1 DEF ItemP!Requests, Item!Requests, ItemP!Idle, Item!Idle
  <2> QED BY <2>1, <2>2 DEF ItemP!BankInv, ItemP!TypeOK, Item!TypeOK
<1>4. LoraInv => Lora!TypeOK
  BY DEF LoraInv
<1>5. (KeyInv => Key!TypeOK) /\ (TenantInv => Tenants!TypeOK) /\ (CronInv => Cron!TypeOK)
  BY DEF KeyInv, TenantInv, CronInv
<1> QED BY <1>1, <1>2, <1>3, <1>4, <1>5, SchemaInvariant, EvalInvariant, BankInvariant,
           LoraInvariant, KeyInvariant, TenantInvariant, CronInvariant, PTL DEF TypeOK
=============================================================================
