--------------------------- MODULE SchemaVersions ---------------------------
(***************************************************************************)
(* The input schemas of one tenant.  PUT /schema checks the new schema     *)
(* against the active version, in a transaction of its own, and then       *)
(* inserts the next version under SELECT ... FOR UPDATE and the unique     *)
(* (domain_id, schema_version).  The schema that a process validates       *)
(* uploads with is replaced by the handler after its commit, and by the    *)
(* task of each NOTIFY that the insert sends.                              *)
(*                                                                         *)
(* A schema is the set of its input_types.  Version 0 stands for None.  A  *)
(* tenant without a row has no input_schema.yaml either.  Delivery of the  *)
(* notifications is the subject of ConfigCache; here none is lost.         *)
(***************************************************************************)
EXTENDS Naturals

CONSTANTS
    Procs,       \* backend processes
    Editors,     \* administrators, one request at a time each
    InputTypes,
    MaxVersion   \* bound on the versions

VARIABLES
    rows,      \* tenant_input_schemas, by schema_version
    put,       \* what the request of each editor is doing
    runtime,   \* InputSchemaLoader._runtime_yaml of each process
    loaded,    \* InputSchemaLoader._cache of each process
    reload,    \* the handler task of each process and version
    crossed    \* was the last commit passed by an older apply

schemaVars == <<rows, put, runtime, loaded, reload, crossed>>

Schemas == SUBSET InputTypes
Versions == 1 .. MaxVersion

NoRow == [status |-> "none", types |-> {}]
NoPut == [pc |-> "idle", on |-> CHOOSE p \in Procs : TRUE, types |-> {}, base |-> 0,
          current |-> 0]
NoTask == [at |-> "none", types |-> {}]
NotLoaded == [full |-> FALSE, types |-> {}]

PutStates == {"idle", "structure", "compat", "select", "waiting", "locked", "apply"}

TypeOK ==
    /\ rows \in [Versions -> [status: {"none", "active", "deprecated"}, types: Schemas]]
    /\ put \in [Editors -> [pc: PutStates, on: Procs, types: Schemas,
                            base: 0 .. MaxVersion, current: 0 .. MaxVersion]]
    /\ runtime \in [Procs -> Schemas]
    /\ loaded \in [Procs -> [full: BOOLEAN, types: Schemas]]
    /\ reload \in [Procs -> [Versions -> [at: {"none", "select", "apply"}, types: Schemas]]]
    /\ crossed \in BOOLEAN

Init ==
    /\ rows = [v \in Versions |-> NoRow]
    /\ put = [e \in Editors |-> NoPut]
    /\ runtime = [p \in Procs |-> {}]
    /\ loaded = [p \in Procs |-> NotLoaded]
    /\ reload = [p \in Procs |-> [v \in Versions |-> NoTask]]
    /\ crossed = FALSE

\* get_active: the highest active version, 0 when there is none
GetActive ==
    LET active == {v \in Versions : rows[v].status = "active"}
    IN  IF active = {} THEN 0 ELSE CHOOSE v \in active : \A w \in active : w <= v

TypesOf(v) == IF v = 0 THEN {} ELSE rows[v].types

\* A base_version that a client can have: none, or one it has been shown
Shown == {0} \cup {v \in Versions : rows[v].status # "none"}

-----------------------------------------------------------------------------
(* InputSchemaLoader, in one process.                                      *)

\* Mutant: the schema is replaced under the cached one
ApplyRuntimeOverrideOnly(p, types) ==
    runtime' = [runtime EXCEPT ![p] = types] /\ UNCHANGED loaded

ApplyRuntimeOverride(p, types) ==
    /\ runtime' = [runtime EXCEPT ![p] = types]
    /\ loaded' = [loaded EXCEPT ![p] = NotLoaded]

\* validate of an upload: load fills the cache
Validate(p) ==
    /\ ~loaded[p].full
    /\ loaded' = [loaded EXCEPT ![p] = [full |-> TRUE, types |-> runtime[p]]]
    /\ UNCHANGED <<rows, put, runtime, reload, crossed>>

\* The input_types that an upload to the process may have
InForce(p) == IF loaded[p].full THEN loaded[p].types ELSE runtime[p]

-----------------------------------------------------------------------------
(* PUT /schema.                                                            *)

Go(e, pc) == put' = [put EXCEPT ![e].pc = pc]
Answer(e) == put' = [put EXCEPT ![e] = NoPut]

PutSchema(e, p, types, base) ==
    /\ put[e].pc = "idle"
    /\ rows[MaxVersion].status = "none"
    /\ put' = [put EXCEPT ![e] = [NoPut EXCEPT !.pc = "structure", !.on = p,
                                               !.types = types, !.base = base]]
    /\ UNCHANGED <<rows, runtime, loaded, reload, crossed>>

\* _validate_structure finds a fault (422) or none
ValidateStructure(e) ==
    /\ put[e].pc = "structure"
    /\ Answer(e) \/ Go(e, "compat")
    /\ UNCHANGED <<rows, runtime, loaded, reload, crossed>>

RemovedInputTypes(old, new) == old \ new

\* 422 when an input_type of the active version is gone
CheckCompat(e) ==
    /\ put[e].pc = "compat"
    /\ IF RemovedInputTypes(TypesOf(GetActive), put[e].types) # {}
       THEN Answer(e)
       ELSE Go(e, "select")
    /\ UNCHANGED <<rows, runtime, loaded, reload, crossed>>

Locked(v) == \E e \in Editors : put[e].pc = "locked" /\ put[e].current = v

\* SELECT ... FOR UPDATE: the row is taken, or waited for
SelectForUpdate(e) ==
    /\ put[e].pc = "select"
    /\ LET v == GetActive
       IN  put' = [put EXCEPT ![e].current = v,
                              ![e].pc = IF v # 0 /\ Locked(v) THEN "waiting" ELSE "locked"]
    /\ UNCHANGED <<rows, runtime, loaded, reload, crossed>>

\* The waiter looks at the row again; a row that is no longer active is not
\* returned, and a newer one is not in the statement's snapshot
Wake(e) ==
    /\ put[e].pc = "waiting"
    /\ ~Locked(put[e].current)
    /\ put' = [put EXCEPT ![e].pc = "locked",
                          ![e].current = IF rows[@].status = "active" THEN @ ELSE 0]
    /\ UNCHANGED <<rows, runtime, loaded, reload, crossed>>

\* Mutant: any base_version is accepted
BaseMatchesAny(e) == TRUE

BaseMatches(e) == put[e].current = put[e].base

NewVersion(e) == put[e].current + 1

\* 409 for another base_version, or for a version that is there already
Conflict(e) ==
    /\ put[e].pc = "locked"
    /\ \/ ~BaseMatches(e)
       \/ NewVersion(e) \in Versions /\ rows[NewVersion(e)].status # "none"
    /\ Answer(e)
    /\ UNCHANGED <<rows, runtime, loaded, reload, crossed>>

\* Has anyone read an older version and not applied it yet
Overtaken ==
    \/ \E e \in Editors : put[e].pc = "apply"
    \/ \E p \in Procs, v \in Versions : reload[p][v].at = "apply"

\* The old version is deprecated, the new one inserted, and the commit notifies
InsertNewActive(e) ==
    /\ put[e].pc = "locked"
    /\ BaseMatches(e)
    /\ LET v == NewVersion(e)
           c == put[e].current
       IN  /\ v \in Versions
           /\ rows[v].status = "none"
           /\ rows' = [w \in Versions |->
                IF w = v THEN [status |-> "active", types |-> put[e].types]
                ELSE IF w = c THEN [rows[w] EXCEPT !.status = "deprecated"]
                ELSE rows[w]]
           /\ reload' = [p \in Procs |-> [reload[p] EXCEPT ![v].at = "select"]]
    /\ Go(e, "apply")
    /\ crossed' = Overtaken
    /\ UNCHANGED <<runtime, loaded>>

RuntimeApply(e) ==
    /\ put[e].pc = "apply"
    /\ ApplyRuntimeOverride(put[e].on, put[e].types)
    /\ Answer(e)
    /\ UNCHANGED <<rows, reload, crossed>>

-----------------------------------------------------------------------------
(* The task of a notification: reload_tenant_schema.                       *)

ReloadSelect(p, v) ==
    /\ reload[p][v].at = "select"
    /\ reload' = [reload EXCEPT ![p][v] = [at |-> "apply", types |-> TypesOf(GetActive)]]
    /\ UNCHANGED <<rows, put, runtime, loaded, crossed>>

ReloadApply(p, v) ==
    /\ reload[p][v].at = "apply"
    /\ ApplyRuntimeOverride(p, reload[p][v].types)
    /\ reload' = [reload EXCEPT ![p][v] = NoTask]
    /\ UNCHANGED <<rows, put, crossed>>

Next ==
    \/ \E e \in Editors :
        \/ \E p \in Procs, types \in Schemas, base \in Shown : PutSchema(e, p, types, base)
        \/ ValidateStructure(e)
        \/ CheckCompat(e)
        \/ SelectForUpdate(e)
        \/ Wake(e)
        \/ Conflict(e)
        \/ InsertNewActive(e)
        \/ RuntimeApply(e)
    \/ \E p \in Procs :
        \/ Validate(p)
        \/ \E v \in Versions : ReloadSelect(p, v) \/ ReloadApply(p, v)

-----------------------------------------------------------------------------
(* Properties.                                                             *)

\* put_schema, insert_new_active: however requests overlap, at most one version
\* is active, it is the newest, and the versions have no gap.
OneActiveVersion ==
    \A v \in Versions :
        rows[v].status # "none" =>
            /\ \A w \in 1 .. (v - 1) : rows[w].status # "none"
            /\ rows[v].status = "active" <=> (v = MaxVersion \/ rows[v + 1].status = "none")

\* put: the check for removed input_types reads the active version before the
\* insert locks it, and still no version lacks a type of the version before it.
TypesAreNeverRemoved ==
    \A v \in Versions :
        v < MaxVersion /\ rows[v + 1].status # "none"
            => rows[v].types \subseteq rows[v + 1].types

\* insert_new_active and the checks before it: whichever requests interleave, the
\* versions are one history, each built on the one before it.
VersionHistory == OneActiveVersion /\ TypesAreNeverRemoved

Quiet ==
    /\ \A e \in Editors : put[e].pc # "apply"
    /\ \A p \in Procs, v \in Versions : reload[p][v].at = "none"

\* _runtime_apply and reload_tenant_schema: when every handler and task is
\* through, all processes validate uploads with the active version, unless the
\* last commit fell between another one's read and apply.
ActiveSchemaIsInForce ==
    Quiet /\ ~crossed => \A p \in Procs : InForce(p) = TypesOf(GetActive)
=============================================================================
