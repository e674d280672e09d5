----------------------------- MODULE ConfigCache -----------------------------
(***************************************************************************)
(* How a change of a tenant's configuration reaches the backend instances. *)
(*                                                                         *)
(*   app/services/tenant_config_service.py    PATCH: UPSERT and pg_notify  *)
(*   app/api/tenant_admin.py                  PUT /routing                 *)
(*   app/core/tenant_config_service.py        runtime overrides and cache  *)
(*   app/services/listen_notify.py            the LISTEN connection        *)
(*   app/services/startup_preload.py          preload and reload           *)
(*   app/main.py                              lifespan and the handlers    *)
(*                                                                         *)
(* One tenant; a category's rows are one value, and a value is the number  *)
(* of the change that wrote it, 0 when there is no row and the files of    *)
(* the platform and the tenant decide.  load is synchronous, so that a     *)
(* step of an instance is what runs between two awaits.                    *)
(***************************************************************************)
EXTENDS Naturals

CONSTANTS
    Instances,   \* backend processes
    Clients,     \* administrators, one request at a time each
    Categories,
    Routing,     \* the category of PUT /routing
    NoInstance,
    Sources,     \* what notifies at a commit: patch and the table's trigger
    Kinds,       \* the requests that clients send, a subset of {"patch", "put"}
    Spaced,      \* do administrators wait until the last change has settled
    Faulty,      \* may the SELECT of a reload raise
    MaxWrites,   \* bound on committed changes
    MaxBreaks    \* bound on broken connections and restarts

ASSUME ConfigAssumption ==
    /\ Routing \in Categories
    /\ NoInstance \notin Instances
    /\ Kinds \subseteq {"patch", "put"}
    /\ Spaced \in BOOLEAN
    /\ Faulty \in BOOLEAN
    /\ MaxWrites \in Nat
    /\ MaxBreaks \in Nat

VARIABLES
    db,      \* tenant_config_overrides
    over,    \* TenantConfigService._runtime_overrides of each instance
    cache,   \* TenantConfigService._cache of each instance
    link,    \* where the startup or the listener of each instance is
    snap,    \* the rows its preload has read
    task,    \* the handler tasks of each instance, one per notification
    req,     \* what each administrator's request is doing
    writes,
    breaks

vars == <<db, over, cache, link, snap, task, req, writes, breaks>>

Overrides == [Categories -> 0 .. MaxWrites]
NoOverrides == [c \in Categories |-> 0]

\* A cached config, or nothing that is younger than the TTL
Cached == [valid: BOOLEAN, config: Overrides]
Empty == [valid |-> FALSE, config |-> NoOverrides]

Links == {"off", "booting", "connecting", "listening", "broken", "reloading"}

\* A commit notifies twice: patch itself and the trigger of migration 012,
\* whose payloads differ.
Notes == (1 .. MaxWrites) \X Sources

TaskStates == [at: {"none", "select", "apply"}, rows: Overrides]
NoTask == [at |-> "none", rows |-> NoOverrides]
NewTask == [at |-> "select", rows |-> NoOverrides]

Requests == [at: {"idle", "finish", "done"}, kind: {"patch", "put"},
             on: Instances \cup {NoInstance}, cat: Categories,
             val: 0 .. MaxWrites]
NoRequest == [at |-> "idle", kind |-> "patch", on |-> NoInstance, cat |-> Routing,
              val |-> 0]

TypeOK ==
    /\ db \in Overrides
    /\ over \in [Instances -> Overrides]
    /\ cache \in [Instances -> Cached]
    /\ link \in [Instances -> Links]
    /\ snap \in [Instances -> Overrides]
    /\ task \in [Instances -> [Notes -> TaskStates]]
    /\ req \in [Clients -> Requests]
    /\ writes \in 0 .. MaxWrites
    /\ breaks \in 0 .. MaxBreaks

Init ==
    /\ db = NoOverrides
    /\ over = [i \in Instances |-> NoOverrides]
    /\ cache = [i \in Instances |-> Empty]
    /\ link = [i \in Instances |-> "off"]
    /\ snap = [i \in Instances |-> NoOverrides]
    /\ task = [i \in Instances |-> [n \in Notes |-> NoTask]]
    /\ req = [c \in Clients |-> NoRequest]
    /\ writes = 0
    /\ breaks = 0

-----------------------------------------------------------------------------
(* TenantConfigService: the state of one process.                          *)

\* invalidate
Invalidate(i) == cache' = [cache EXCEPT ![i] = Empty]

\* Mutant: the overrides change under a cached config
SetOverridesOnly(i, rows) == over' = [over EXCEPT ![i] = rows] /\ UNCHANGED cache

\* clear_runtime_overrides and apply_runtime_override, which invalidate
SetOverrides(i, rows) == over' = [over EXCEPT ![i] = rows] /\ Invalidate(i)

\* load by a chat or admin request, when the cache has no config
Load(i) ==
    /\ link[i] \notin {"off", "booting"}
    /\ ~cache[i].valid
    /\ cache' = [cache EXCEPT ![i] = [valid |-> TRUE, config |-> over[i]]]
    /\ UNCHANGED <<db, over, link, snap, task, req, writes, breaks>>

\* The TTL runs out; POST /configs/reload and the handler of
\* tenant_lifecycle_changed do the same
Expire(i) ==
    /\ cache[i].valid
    /\ Invalidate(i)
    /\ UNCHANGED <<db, over, link, snap, task, req, writes, breaks>>

-----------------------------------------------------------------------------
(* Startup and the listener.                                               *)

\* preload_tenant_configs: the SELECT, at startup or after the backoff
Preload(i) ==
    /\ \/ link[i] = "off" /\ link' = [link EXCEPT ![i] = "booting"]
       \/ link[i] = "broken" /\ link' = [link EXCEPT ![i] = "reloading"]
    /\ snap' = [snap EXCEPT ![i] = db]
    /\ UNCHANGED <<db, over, cache, task, req, writes, breaks>>

\* Mutant: what the preload has read is not applied
PreloadForgotten(i) ==
    /\ link[i] \in {"booting", "reloading"}
    /\ link' = [link EXCEPT ![i] = "connecting"]
    /\ UNCHANGED <<db, over, cache, snap, task, req, writes, breaks>>

\* preload_tenant_configs: the groups it found are applied, others are left as
\* they are; then the listener connects
PreloadApply(i) ==
    /\ link[i] \in {"booting", "reloading"}
    /\ SetOverrides(i, [c \in Categories |->
                           IF snap[i][c] # 0 THEN snap[i][c] ELSE over[i][c]])
    /\ snap' = [snap EXCEPT ![i] = NoOverrides]
    /\ link' = [link EXCEPT ![i] = "connecting"]
    /\ UNCHANGED <<db, task, req, writes, breaks>>

\* _on_listener_reconnect: a preload that raises is logged
PreloadFails(i) ==
    /\ Faulty
    /\ link[i] = "broken"
    /\ link' = [link EXCEPT ![i] = "connecting"]
    /\ UNCHANGED <<db, over, cache, snap, task, req, writes, breaks>>

\* _connect_and_listen: add_listener
Listen(i) ==
    /\ link[i] = "connecting"
    /\ link' = [link EXCEPT ![i] = "listening"]
    /\ UNCHANGED <<db, over, cache, snap, task, req, writes, breaks>>

\* The connection breaks, or does not come up.  Any of the notifications that
\* no task has begun to handle may have been on the wire.
Disconnect(i) ==
    /\ breaks < MaxBreaks
    /\ link[i] \in {"connecting", "listening"}
    /\ link' = [link EXCEPT ![i] = "broken"]
    /\ \E lost \in SUBSET {n \in Notes : task[i][n].at = "select"} :
          task' = [task EXCEPT ![i] =
                      [n \in Notes |-> IF n \in lost THEN NoTask ELSE task[i][n]]]
    /\ breaks' = breaks + 1
    /\ UNCHANGED <<db, over, cache, snap, req, writes>>

\* The process restarts; its memory, its tasks and its requests are gone
Restart(i) ==
    /\ breaks < MaxBreaks
    /\ link[i] # "off"
    /\ link' = [link EXCEPT ![i] = "off"]
    /\ over' = [over EXCEPT ![i] = NoOverrides]
    /\ Invalidate(i)
    /\ snap' = [snap EXCEPT ![i] = NoOverrides]
    /\ task' = [task EXCEPT ![i] = [n \in Notes |-> NoTask]]
    /\ req' = [c \in Clients |-> IF req[c].on = i THEN NoRequest ELSE req[c]]
    /\ breaks' = breaks + 1
    /\ UNCHANGED <<db, writes>>

\* _on_config_changed, reload_tenant_config: the SELECT of one task ...
Select(i, n) ==
    /\ task[i][n].at = "select"
    /\ task' = [task EXCEPT ![i][n] = [at |-> "apply", rows |-> db]]
    /\ UNCHANGED <<db, over, cache, link, snap, req, writes, breaks>>

\* ... and the replacement of the overrides.  Every notification has a task of
\* its own, and nothing orders them.
Apply(i, n) ==
    /\ task[i][n].at = "apply"
    /\ SetOverrides(i, task[i][n].rows)
    /\ task' = [task EXCEPT ![i][n] = NoTask]
    /\ UNCHANGED <<db, link, snap, req, writes, breaks>>

\* _invoke_safely: a reload that raises is logged
ReloadFails(i, n) ==
    /\ Faulty
    /\ task[i][n].at = "select"
    /\ task' = [task EXCEPT ![i][n] = NoTask]
    /\ UNCHANGED <<db, over, cache, link, snap, req, writes, breaks>>

-----------------------------------------------------------------------------
(* The requests of administrators.                                         *)

\* The last change has been read where it must be, and nothing older is held
Settled ==
    /\ \A i \in Instances : link[i] \notin {"booting", "reloading", "connecting"}
    /\ \A i \in Instances, n \in Notes : task[i][n].at # "apply"
    /\ \A c \in Clients : req[c].at # "finish"

\* patch: UPSERT, change log and pg_notify in one transaction.  Only the
\* connections that listen when it commits are notified.
Commit(c, k, i, cat) ==
    /\ req[c].at = "idle"
    /\ k = "put" => cat = Routing
    /\ link[i] \notin {"off", "booting"}
    /\ writes < MaxWrites
    /\ Spaced => Settled
    /\ writes' = writes + 1
    /\ db' = [db EXCEPT ![cat] = writes']
    /\ task' = [x \in Instances |-> [n \in Notes |->
                  IF link[x] = "listening" /\ n[1] = writes' THEN NewTask
                  ELSE task[x][n]]]
    /\ req' = [req EXCEPT ![c] = [at |-> "finish", kind |-> k, on |-> i,
                                  cat |-> cat, val |-> writes']]
    /\ UNCHANGED <<over, cache, link, snap, breaks>>

\* Mutant: PUT /routing leaves the overrides to the notification
FinishInvalidates(c) ==
    /\ req[c].at = "finish"
    /\ Invalidate(req[c].on)
    /\ req' = [req EXCEPT ![c].at = "done"]
    /\ UNCHANGED <<db, over, link, snap, task, writes, breaks>>

\* After the commit and the ledger: patch invalidates, put_routing also applies
\* its value to the overrides of its own process
Finish(c) ==
    LET i == req[c].on
    IN  /\ req[c].at = "finish"
        /\ \/ req[c].kind = "patch" /\ Invalidate(i) /\ UNCHANGED over
           \/ /\ req[c].kind = "put"
              /\ SetOverrides(i, [over[i] EXCEPT ![req[c].cat] = req[c].val])
        /\ req' = [req EXCEPT ![c].at = "done"]
        /\ UNCHANGED <<db, link, snap, task, writes, breaks>>

\* The administrator turns to something else
Leave(c) ==
    /\ req[c].at = "done"
    /\ req' = [req EXCEPT ![c] = NoRequest]
    /\ UNCHANGED <<db, over, cache, link, snap, task, writes, breaks>>

-----------------------------------------------------------------------------
\* What an instance does by itself
Progress(i) ==
    \/ Preload(i)
    \/ PreloadApply(i)
    \/ PreloadFails(i)
    \/ Listen(i)

Handle(i, n) == Select(i, n) \/ Apply(i, n) \/ ReloadFails(i, n)

Next ==
    \/ \E i \in Instances :
          \/ Progress(i)
          \/ \E n \in Notes : Handle(i, n)
          \/ Load(i)
          \/ Expire(i)
          \/ Disconnect(i)
          \/ Restart(i)
    \/ \E c \in Clients :
          \/ \E k \in Kinds, i \in Instances, cat \in Categories :
                Commit(c, k, i, cat)
          \/ Finish(c)
          \/ Leave(c)

Spec == Init /\ [][Next]_vars

\* lifespan, the listener's loop, its handler tasks and the requests are all
\* awaits that return; connections come up again.
FairSpec ==
    /\ Spec
    /\ \A i \in Instances : WF_vars(Progress(i))
    /\ \A i \in Instances, n \in Notes : WF_vars(Handle(i, n))
    /\ \A c \in Clients : WF_vars(Finish(c))

-----------------------------------------------------------------------------
(* Properties.                                                             *)

\* load never returns a configuration that the overrides of its own process
\* have outlived, whatever tasks, preloads and requests interleave with it.
CacheFollowsOverrides ==
    \A i \in Instances : cache[i].valid => cache[i].config = over[i]

\* From the answer of PUT /routing on, the instance that answered uses the new
\* value, or one that is newer still.
WriteIsVisible ==
    \A c \in Clients : req[c].at = "done" /\ req[c].kind = "put" =>
        over[req[c].on][req[c].cat] >= req[c].val

\* Once changes and breakdowns stop, every instance ends up with the rows of
\* the table, however many notifications were lost.
Converges == <>[](\A i \in Instances : over[i] = db)
=============================================================================
