---------------------------- MODULE ControlPlane ----------------------------
(***************************************************************************)
(* The administration of the service: input schemas, evaluation jobs, LoRA *)
(* adapters, the signing keys of the identity provider, tenants, the item  *)
(* bank and the operational jobs.  These parts share a process but no      *)
(* variable, and none waits for another, so a behavior is one of one part: *)
(* `part' says which, and the others stay as they are.  Each part has a    *)
(* module.                                                                 *)
(***************************************************************************)
EXTENDS Naturals, Sequences, FiniteSets

CONSTANTS
    Parts,   \* the parts that a run looks at
    Procs, Editors, InputTypes, MaxVersion,
    EvalJobs, Promoters, Cases,
    Operators,
    Lookups, Kids, TTL, Nobody,
    PlatformAdmins, Visitors, DeleteOrder, Collection,
    Clients, LastItem, Questions, Fragments, MaxUsed,
    Nodes, Conns, PoolSize, Months, Nothing

ASSUME ControlPlaneAssumption ==
    /\ Parts \subseteq {"schema", "eval", "lora", "key", "tenant", "items", "cron"}
    /\ MaxVersion \in Nat \ {0} /\ Procs # {}
    /\ Cases \in Nat \ {0}
    /\ Kids \subseteq Nat /\ 1 \in Kids /\ (\A k \in Kids : 1 .. k \subseteq Kids) /\ TTL \in Nat
    /\ DeleteOrder \in Seq(STRING)
    /\ \E i \in 1 .. Len(DeleteOrder) : DeleteOrder[i] = "members"
    /\ \E i \in 1 .. Len(DeleteOrder) : DeleteOrder[i] = Collection
    /\ Collection # "members"
    /\ LastItem \in Nat /\ MaxUsed \in Nat /\ Fragments \subseteq Questions
    /\ Conns \subseteq Nat /\ IsFiniteSet(Conns) /\ Nothing \notin Conns
    /\ Conns # {} /\ \A c, d \in Conns : Conns \ {c, d} # {}
    /\ PoolSize \in Nat \ {0}

VARIABLES
    part,
    rows, put, runtime, loaded, reload, crossed,
    visible, evalRow, evalTask, loader, used, promote, overlapped, crashed, lost,
    adapter, secret, file, served, loraReq, raced, unheard,
    current, gone, keys, age, lock, lookup, known,
    tenant, data, members, deadLetters, admin, visit, wiped, late,
    bank, usedCount, handed, itemReq,
    kind, conn, held, loop, guest, today, partitions, ready, shared, stranded

Schema  == INSTANCE SchemaVersions
Eval    == INSTANCE EvaluationJobs
Lora    == INSTANCE LoraAdapters
Key     == INSTANCE SigningKeys
Tenants == INSTANCE TenantLifecycle
Item    == INSTANCE AssessmentItems
Cron    == INSTANCE CronLock

schemaVars == <<rows, put, runtime, loaded, reload, crossed>>
evalVars   == <<visible, evalRow, evalTask, loader, used, promote, overlapped, crashed, lost>>
loraVars   == <<adapter, secret, file, served, loraReq, raced, unheard>>
keyVars    == <<current, gone, keys, age, lock, lookup, known>>
tenantVars == <<tenant, data, members, deadLetters, admin, visit, wiped, late>>
itemVars   == <<bank, usedCount, handed, itemReq>>
cronVars   == <<kind, conn, held, loop, guest, today, partitions, ready, shared, stranded>>

vars == <<part, schemaVars, evalVars, loraVars, keyVars, tenantVars, itemVars, cronVars>>

Init ==
    /\ part \in Parts
    /\ Schema!Init /\ Lora!Init /\ Key!Init /\ Tenants!Init /\ Item!Init
    /\ Eval!Init /\ (part # "eval" => ~visible)
    /\ Cron!Init /\ (part # "cron" => kind = "scan")

\* What the other parts keep
SchemaOnly == UNCHANGED <<part, evalVars, loraVars, keyVars, tenantVars, itemVars, cronVars>>
EvalOnly   == UNCHANGED <<part, schemaVars, loraVars, keyVars, tenantVars, itemVars, cronVars>>
LoraOnly   == UNCHANGED <<part, schemaVars, evalVars, keyVars, tenantVars, itemVars, cronVars>>
KeyOnly    == UNCHANGED <<part, schemaVars, evalVars, loraVars, tenantVars, itemVars, cronVars>>
TenantOnly == UNCHANGED <<part, schemaVars, evalVars, loraVars, keyVars, itemVars, cronVars>>
ItemOnly   == UNCHANGED <<part, schemaVars, evalVars, loraVars, keyVars, tenantVars, cronVars>>
CronOnly   == UNCHANGED <<part, schemaVars, evalVars, loraVars, keyVars, tenantVars, itemVars>>

SchemaStep == part = "schema" /\ Schema!Next /\ SchemaOnly
EvalStep   == part = "eval" /\ Eval!Next /\ EvalOnly
LoraStep   == part = "lora" /\ Lora!Next /\ LoraOnly
KeyStep    == part = "key" /\ Key!Next /\ KeyOnly
TenantStep == part = "tenant" /\ Tenants!Next /\ TenantOnly
ItemStep   == part = "items" /\ Item!Next /\ ItemOnly
CronStep   == part = "cron" /\ Cron!Next /\ CronOnly

Next == SchemaStep \/ EvalStep \/ LoraStep \/ KeyStep \/ TenantStep \/ ItemStep \/ CronStep

-----------------------------------------------------------------------------
(* Fairness: a task of the event loop that can go on does; asyncio.Lock    *)
(* wakes its waiters in order, so that one that can have the lock again    *)
(* and again gets it; the loop of a job wakes up from its sleep.           *)

EvalFairness == \A j \in EvalJobs : WF_evalVars(part = "eval" /\ Eval!TaskStep(j))

KeyFairness == \A c \in Lookups :
    /\ WF_keyVars(part = "key" /\ Key!Step(c))
    /\ SF_keyVars(part = "key" /\ Key!Acquire(c))
    /\ SF_keyVars(part = "key" /\ Key!AcquireAgain(c))

CronFairness == \A n \in Nodes :
    /\ WF_cronVars(part = "cron" /\ Cron!Start(n))
    /\ WF_cronVars(part = "cron" /\ Cron!RunStep(n))

Spec == Init /\ [][Next]_vars

FairSpec == Init /\ [][Next]_vars /\ EvalFairness /\ KeyFairness /\ CronFairness

-----------------------------------------------------------------------------
(* Properties, stated in the modules of the parts.                         *)

\* Every part keeps to the types of its module.
TypeOK ==
    /\ Schema!TypeOK /\ Eval!TypeOK /\ Lora!TypeOK
    /\ Key!TypeOK /\ Tenants!TypeOK /\ Item!TypeOK /\ Cron!TypeOK

\* put_schema, insert_new_active: at most one version is active, it is the
\* newest, there is no gap, and none lacks an input_type of the one before,
\* however two requests overlap.
VersionHistory == Schema!VersionHistory

\* runtime_apply, reload_tenant_schema: uploads are validated with the active
\* version once handlers and tasks are through, unless two commits crossed.
ActiveSchemaIsInForce == Schema!ActiveSchemaIsInForce

\* promote: only a job whose own gate has passed is marked promoted.
PromotedPassedItsGate == Eval!PromotedPassedItsGate

\* EvalRunner._run_one: while runs do not overlap, a job is measured with its own
\* override, and the live chat has its loader back however the cases end.
OverrideStaysInItsRun == Eval!OverrideStaysInItsRun

\* activate, retire: vLLM serves an active adapter only, once requests are done
\* and unless an unload was not heard or two requests wrote the row.
OnlyActiveIsServed == Lora!OnlyActiveIsServed

\* get_key: a withdrawn key is accepted for no longer than the TTL.
WithdrawnKeyExpires == Key!WithdrawnKeyExpires

\* get_key: a published key is never reported as unknown.
PublishedKeyIsFound == Key!PublishedKeyIsFound

\* hard_delete: what is left of a deleted tenant is named by a dead letter, was
\* written after its place had been erased, or is what the erasing call misses.
LeftoverIsReported == Tenants!LeftoverIsReported

\* hard_delete: delete_status tells what the deletes of a tenant have done to it,
\* wherever they break off and however they overlap.
DeleteStatusIsTrue == Tenants!DeleteStatusIsTrue

\* touch_used, upsert: an item has been handed out no more often than its used_count
\* says, whichever requests write whole rows meanwhile.
UsesAreCounted == Item!UsesAreCounted

\* validate, generate, patch, import: an approved item is approved because an
\* administrator said so.
ApprovedByDecision == Item!ApprovedByDecision

\* import_pdf: an import adds no second active item with a question of the bank
\* or of its own file, unless somebody else wrote to the bank meanwhile.
ImportAddsNoDuplicate == Item!ImportAddsNoDuplicate

\* run_all_tenants, scan, ensure_partition: one process at a time does the work,
\* and the lock is free when no run is on, while nobody else uses the pool during
\* a run and no CREATE has failed.
LockWorks == Cron!LockWorks

\* ensure_next_month_partition: a month has its partition when it begins.
PartitionIsReady == Cron!PartitionIsReady

\* What has begun comes to its end or goes on: execute ends a running job unless
\* the process restarts or its last write raises, get_key answers every lookup, and _run_job_loop starts
\* its job again and again, whatever a run raises.
TasksGetOn ==
    /\ Eval!RunningJobEnds
    /\ Key!LookupEnds
    /\ part = "cron" => Cron!JobsKeepRunning
=============================================================================
