---------------------------- MODULE LoraAdapters ----------------------------
(***************************************************************************)
(* One LoRA adapter: its row in adapter_registry, its weights in KeyHub    *)
(* and in the directory shared with vLLM, and what vLLM has loaded.        *)
(* Upload, activation, retirement and deletion are requests of several     *)
(* steps; the registry reads a row and writes it in two transactions.      *)
(***************************************************************************)
EXTENDS Naturals

CONSTANT Operators   \* administrators, one request at a time each

VARIABLES
    adapter,    \* status of the row, "none" when there is no row
    secret,     \* does KeyHub hold the weights
    file,       \* does the shared directory hold them
    served,     \* has vLLM loaded the adapter
    loraReq,    \* Operators -> the step of a request
    raced,      \* was the row written while another request relied on it
    unheard     \* has an unload of a loaded adapter failed

loraVars == <<adapter, secret, file, served, loraReq, raced, unheard>>

Steps == {"idle", "insert", "clean", "fetch", "load", "check", "activate", "rollback",
          "retire", "reread", "unload", "delete"}

TypeOK ==
    /\ adapter \in {"none", "registered", "active", "retired"}
    /\ secret \in BOOLEAN /\ file \in BOOLEAN /\ served \in BOOLEAN
    /\ loraReq \in [Operators -> Steps]
    /\ raced \in BOOLEAN /\ unheard \in BOOLEAN

Init ==
    /\ adapter = "none"
    /\ secret = FALSE /\ file = FALSE /\ served = FALSE
    /\ loraReq = [o \in Operators |-> "idle"]
    /\ raced = FALSE /\ unheard = FALSE

At(o, step) == loraReq[o] = step
Go(o, step) == loraReq' = [loraReq EXCEPT ![o] = step]

\* The row is written; others may be between their read of it and their end
Write(o, status) ==
    /\ adapter' = status
    /\ raced' = (raced \/ \E p \in Operators \ {o} :
                    loraReq[p] \in {"activate", "retire", "reread", "unload", "delete"})

-----------------------------------------------------------------------------
(* POST /lora/upload: the weights go to KeyHub before the row is inserted. *)

PutSecret(o) ==
    /\ At(o, "idle")
    /\ secret' = TRUE
    /\ Go(o, "insert")
    /\ UNCHANGED <<adapter, file, served, raced, unheard>>

\* Inserted; or 409 for an adapter_id that is there, or another failure
Insert(o) ==
    /\ At(o, "insert")
    /\ \/ adapter = "none" /\ Write(o, "registered") /\ Go(o, "idle")
       \/ Go(o, "clean") /\ UNCHANGED <<adapter, raced>>
    /\ UNCHANGED <<secret, file, served, unheard>>

\* The secret of the refused upload is deleted, or KeyHub fails
CleanSecret(o) ==
    /\ At(o, "clean")
    /\ secret' \in {FALSE, secret}
    /\ Go(o, "idle")
    /\ UNCHANGED <<adapter, file, served, raced, unheard>>

-----------------------------------------------------------------------------
(* POST /lora/{adapter_id}/activate.                                       *)

ActivateRead(o) ==
    /\ At(o, "idle")
    /\ adapter \in {"registered", "active"}
    /\ Go(o, "fetch")
    /\ UNCHANGED <<adapter, secret, file, served, raced, unheard>>

\* get_secret fails (502), or the weights are written to the directory
FetchWeights(o) ==
    /\ At(o, "fetch")
    /\ \/ Go(o, "idle") /\ UNCHANGED file
       \/ secret /\ file' = TRUE /\ Go(o, "load")
    /\ UNCHANGED <<adapter, secret, served, raced, unheard>>

\* load_lora_adapter; when it fails the file is removed (502)
LoadAdapter(o) ==
    /\ At(o, "load")
    /\ \/ file /\ served' = TRUE /\ Go(o, "check") /\ UNCHANGED file
       \/ file' = FALSE /\ Go(o, "idle") /\ UNCHANGED served
    /\ UNCHANGED <<adapter, secret, raced, unheard>>

\* The registry looks at the row again
Refuses == adapter \in {"none", "retired"}

RegistryCheck(o) ==
    /\ At(o, "check")
    /\ Go(o, IF Refuses THEN "rollback" ELSE IF adapter = "active" THEN "idle" ELSE "activate")
    /\ UNCHANGED <<adapter, secret, file, served, raced, unheard>>

\* The UPDATE has no condition on the status; it may find no row, and it may fail
RegistryActivate(o) ==
    /\ At(o, "activate")
    /\ \/ adapter # "none" /\ Write(o, "active") /\ Go(o, "idle")
       \/ Go(o, "rollback") /\ UNCHANGED <<adapter, raced>>
    /\ UNCHANGED <<secret, file, served, unheard>>

\* Mutant: a refused activation removes the file and leaves vLLM alone
RollbackFileOnly(o) ==
    /\ At(o, "rollback")
    /\ file' = FALSE
    /\ Go(o, "idle")
    /\ UNCHANGED <<adapter, secret, served, raced, unheard>>

\* unload_lora_adapter, whose failure is ignored, and removal of the file
Rollback(o) ==
    /\ At(o, "rollback")
    /\ \/ served' = FALSE /\ UNCHANGED unheard
       \/ unheard' = TRUE /\ UNCHANGED served
    /\ file' = FALSE
    /\ Go(o, "idle")
    /\ UNCHANGED <<adapter, secret, raced>>

-----------------------------------------------------------------------------
(* POST /lora/{adapter_id}/retire; a retired adapter is unloaded again.    *)

RetireRead(o) ==
    /\ At(o, "idle")
    /\ adapter # "none"
    /\ Go(o, IF adapter = "retired" THEN "unload" ELSE "retire")
    /\ UNCHANGED <<adapter, secret, file, served, raced, unheard>>

RegistryRetire(o) ==
    /\ At(o, "retire")
    /\ IF adapter # "none" THEN Write(o, "retired") ELSE UNCHANGED <<adapter, raced>>
    /\ Go(o, "reread")
    /\ UNCHANGED <<secret, file, served, unheard>>

\* The registry returns the row as it is now; without a row its assert fails
RetireReread(o) ==
    /\ At(o, "reread")
    /\ Go(o, IF adapter = "retired" THEN "unload" ELSE "idle")
    /\ UNCHANGED <<adapter, secret, file, served, raced, unheard>>

Unload(o) ==
    /\ At(o, "unload")
    /\ \/ served' = FALSE /\ UNCHANGED unheard
       \/ unheard' = TRUE /\ UNCHANGED served
    /\ Go(o, "idle")
    /\ UNCHANGED <<adapter, secret, file, raced>>

-----------------------------------------------------------------------------
(* DELETE /lora/{adapter_id}: 409 for an active one.                       *)

DeleteRead(o) ==
    /\ At(o, "idle")
    /\ adapter \in {"registered", "retired"}
    /\ Go(o, "delete")
    /\ UNCHANGED <<adapter, secret, file, served, raced, unheard>>

RegistryDelete(o) ==
    /\ At(o, "delete")
    /\ IF adapter # "none" THEN Write(o, "none") ELSE UNCHANGED <<adapter, raced>>
    /\ Go(o, "idle")
    /\ UNCHANGED <<secret, file, served, unheard>>

\* vLLM restarts without its adapters
VllmRestart ==
    /\ served
    /\ served' = FALSE
    /\ UNCHANGED <<adapter, secret, file, loraReq, raced, unheard>>

Next ==
    \/ \E o \in Operators :
        \/ PutSecret(o) \/ Insert(o) \/ CleanSecret(o)
        \/ ActivateRead(o) \/ FetchWeights(o) \/ LoadAdapter(o) \/ RegistryCheck(o)
        \/ RegistryActivate(o) \/ Rollback(o)
        \/ RetireRead(o) \/ RegistryRetire(o) \/ RetireReread(o) \/ Unload(o)
        \/ DeleteRead(o) \/ RegistryDelete(o)
    \/ VllmRestart

-----------------------------------------------------------------------------
(* Properties.                                                             *)

\* activate and retire: when no request is in flight vLLM serves an active
\* adapter only, whatever fails and in whatever order requests interleave,
\* unless vLLM did not hear of an unload or a row was written under a request
\* that relied on it.
OnlyActiveIsServed ==
    (\A o \in Operators : At(o, "idle")) /\ ~raced /\ ~unheard
        => (served => adapter = "active")
=============================================================================
