--------------------------- MODULE TenantLifecycle --------------------------
(***************************************************************************)
(* One tenant: registration, changes of its status and enrollment policy,  *)
(* hard delete over the tables, the collection and the storage, and the    *)
(* users who enter it: by membership, by a global role, or by joining an   *)
(* open domain on the first request.                                       *)
(*                                                                         *)
(* Platform requests read the row of tenants and write it in transactions  *)
(* of their own.  A request may fail between two of them, or be cut by a   *)
(* restart.  Events for the ledger are not part of the state.              *)
(***************************************************************************)
EXTENDS Naturals, Sequences

CONSTANTS
    PlatformAdmins,   \* one request at a time each
    Visitors,         \* users, one request at a time each
    DeleteOrder,      \* the steps of a hard delete, by the place they erase: the
                      \* tables, whose last is "members", the collection, the storage
    Collection        \* the place that a registration creates

VARIABLES
    tenant,     \* the row of tenants: status, delete_status, enrollment_policy
    data,       \* where the tenant has data, besides its members
    members,    \* Visitors -> the row of user_tenant_membership
    deadLetters, \* steps in tenant_delete_failures
    admin,      \* PlatformAdmins -> the request
    visit,      \* Visitors -> the request
    wiped,      \* places whose step of a hard delete has gone through
    late        \* places written after they were erased

tenantVars == <<tenant, data, members, deadLetters, admin, visit, wiped, late>>

Places == {DeleteOrder[i] : i \in 1 .. Len(DeleteOrder)}

\* MinIOStorage.delete with an empty doc_id lists the prefix of no stored object,
\* so its step goes through and the files stay
Missed == {"storage"}

Statuses == {"none", "active", "suspended", "archived", "deleted"}
Memberships == {"none", "active", "inactive"}

NoAdmin == [pc |-> "idle", to |-> "none", at |-> 1, failed |-> {}]

TypeOK ==
    /\ tenant \in [status: Statuses, open: BOOLEAN,
                   del: {"none", "in_progress", "completed", "partial"}]
    /\ data \subseteq Places \ {"members"}
    /\ members \in [Visitors -> Memberships]
    /\ deadLetters \subseteq Places /\ wiped \subseteq Places /\ late \subseteq Places
    /\ admin \in [PlatformAdmins -> [pc: {"idle", "collection", "patch", "begin", "wipe", "end"},
                                     to: Statuses, at: 1 .. (Len(DeleteOrder) + 1), failed: SUBSET Places]]
    /\ visit \in [Visitors -> {"away", "enrollment", "join", "inside"}]

Init ==
    /\ tenant = [status |-> "none", del |-> "none", open |-> FALSE]
    /\ data = {}
    /\ members = [u \in Visitors |-> "none"]
    /\ deadLetters = {}
    /\ admin = [a \in PlatformAdmins |-> NoAdmin]
    /\ visit = [u \in Visitors |-> "away"]
    /\ wiped = {} /\ late = {}

-----------------------------------------------------------------------------
(* POST /tenants and PATCH /tenants/{domain_id}.                           *)

Transitions(from) ==
    CASE from = "active"    -> {"suspended", "archived"}
      [] from = "suspended" -> {"active", "archived"}
      [] from = "archived"  -> {"active"}
      [] OTHER              -> {}

\* A write to a place, perhaps behind the step that erased it
Written(place) == late' = late \cup ((wiped \ Missed) \cap {place})

\* The INSERT; 409 when the row is there
Register(a, open) ==
    /\ admin[a].pc = "idle"
    /\ tenant.status = "none"
    /\ tenant' = [status |-> "active", del |-> "none", open |-> open]
    /\ admin' = [admin EXCEPT ![a].pc = "collection"]
    /\ UNCHANGED <<data, members, deadLetters, visit, wiped, late>>

\* After the commit; a failure to create the collection is ignored
CreateCollection(a) ==
    /\ admin[a].pc = "collection"
    /\ \/ data' = data \cup {Collection} /\ Written(Collection)
       \/ UNCHANGED <<data, late>>
    /\ admin' = [admin EXCEPT ![a] = NoAdmin]
    /\ UNCHANGED <<tenant, members, deadLetters, visit, wiped>>

PatchRead(a, to) ==
    /\ admin[a].pc = "idle"
    /\ to \in Transitions(tenant.status)
    /\ admin' = [admin EXCEPT ![a].pc = "patch", ![a].to = to]
    /\ UNCHANGED <<tenant, data, members, deadLetters, visit, wiped, late>>

\* The UPDATE has no condition on the status
UpdateStatus(a) ==
    /\ admin[a].pc = "patch"
    /\ tenant' = [tenant EXCEPT !.status = admin[a].to]
    /\ admin' = [admin EXCEPT ![a] = NoAdmin]
    /\ UNCHANGED <<data, members, deadLetters, visit, wiped, late>>

SetEnrollmentPolicy(a, open) ==
    /\ admin[a].pc = "idle"
    /\ tenant.status # "none"
    /\ tenant.open # open
    /\ tenant' = [tenant EXCEPT !.open = open]
    /\ UNCHANGED <<data, members, deadLetters, admin, visit, wiped, late>>

-----------------------------------------------------------------------------
(* DELETE /tenants/{domain_id}/hard.                                       *)

Deletable == tenant.status = "archived"

HardDeleteRead(a) ==
    /\ admin[a].pc = "idle"
    /\ Deletable
    /\ admin' = [admin EXCEPT ![a].pc = "begin"]
    /\ UNCHANGED <<tenant, data, members, deadLetters, visit, wiped, late>>

HardDeleteBegin(a) ==
    /\ admin[a].pc = "begin"
    /\ tenant' = [tenant EXCEPT !.del = "in_progress"]
    /\ admin' = [admin EXCEPT ![a].pc = "wipe"]
    /\ UNCHANGED <<data, members, deadLetters, visit, wiped, late>>

\* The next step of a delete: the last one is followed by the final UPDATE
Advance(a, failed) ==
    admin' = [admin EXCEPT ![a].at = @ + 1, ![a].failed = failed,
                           ![a].pc = IF admin[a].at = Len(DeleteOrder) THEN "end" ELSE "wipe"]

Wipe(a) ==
    /\ admin[a].pc = "wipe"
    /\ LET place == DeleteOrder[admin[a].at]
       IN  /\ data' = data \ ({place} \ Missed)
           /\ members' = IF place = "members" THEN [u \in Visitors |-> "none"] ELSE members
           /\ wiped' = wiped \cup {place}
           /\ late' = late \ {place}
    /\ Advance(a, admin[a].failed)
    /\ UNCHANGED <<tenant, deadLetters, visit>>

\* Mutant: a failed step is only logged
WipeFailsLogged(a) ==
    /\ admin[a].pc = "wipe"
    /\ Advance(a, admin[a].failed)
    /\ UNCHANGED <<tenant, data, members, deadLetters, visit, wiped, late>>

\* The step is collected, and the next one is tried
WipeFails(a) ==
    /\ admin[a].pc = "wipe"
    /\ Advance(a, admin[a].failed \cup {DeleteOrder[admin[a].at]})
    /\ UNCHANGED <<tenant, data, members, deadLetters, visit, wiped, late>>

\* Mutant: a delete with failed steps gets a status that nobody reads
HardDeleteEndFailed(a) ==
    /\ admin[a].pc = "end"
    /\ tenant' = [tenant EXCEPT !.status = "deleted",
                        !.del = IF admin[a].failed = {} THEN "completed" ELSE "failed"]
    /\ deadLetters' = deadLetters \cup admin[a].failed
    /\ admin' = [admin EXCEPT ![a] = NoAdmin]
    /\ UNCHANGED <<data, members, visit, wiped, late>>

\* Mutant: the failed steps do not count in the status
HardDeleteEndCompleted(a) ==
    /\ admin[a].pc = "end"
    /\ tenant' = [tenant EXCEPT !.status = "deleted", !.del = "completed"]
    /\ deadLetters' = deadLetters \cup admin[a].failed
    /\ admin' = [admin EXCEPT ![a] = NoAdmin]
    /\ UNCHANGED <<data, members, visit, wiped, late>>

HardDeleteEnd(a) ==
    /\ admin[a].pc = "end"
    /\ tenant' = [tenant EXCEPT !.status = "deleted",
                        !.del = IF admin[a].failed = {} THEN "completed" ELSE "partial"]
    /\ deadLetters' = deadLetters \cup admin[a].failed
    /\ admin' = [admin EXCEPT ![a] = NoAdmin]
    /\ UNCHANGED <<data, members, visit, wiped, late>>

\* A statement outside the steps' try raises, or the process goes down: what was
\* committed stays, the list of failed steps is lost
Abort(a) ==
    /\ admin[a].pc # "idle"
    /\ admin' = [admin EXCEPT ![a] = NoAdmin]
    /\ UNCHANGED <<tenant, data, members, deadLetters, visit, wiped, late>>

-----------------------------------------------------------------------------
(* Members, and the requests of users.                                     *)

\* The upsert needs the row of tenants, in any status
Assign(u) ==
    /\ tenant.status # "none"
    /\ members[u] # "active"
    /\ members' = [members EXCEPT ![u] = "active"]
    /\ Written("members")
    /\ UNCHANGED <<tenant, data, deadLetters, admin, visit, wiped>>

Revoke(u) ==
    /\ members[u] = "active"
    /\ members' = [members EXCEPT ![u] = "inactive"]
    /\ UNCHANGED <<tenant, data, deadLetters, admin, visit, wiped, late>>

\* verify_and_extract with a token that is in order reads the membership; a global
\* role needs none
LoadMembership(u) ==
    /\ visit[u] = "away"
    /\ \E isGlobal \in BOOLEAN :
        visit' = [visit EXCEPT ![u] = IF isGlobal \/ members[u] = "active"
                                      THEN "inside" ELSE "enrollment"]
    /\ UNCHANGED <<tenant, data, members, deadLetters, admin, wiped, late>>

Enrollable == tenant.open /\ tenant.status = "active"

\* 403, or the membership is created
LoadEnrollment(u) ==
    /\ visit[u] = "enrollment"
    /\ visit' = [visit EXCEPT ![u] = IF Enrollable THEN "join" ELSE "away"]
    /\ UNCHANGED <<tenant, data, members, deadLetters, admin, wiped, late>>

\* The insert is best effort: without the row the request passes all the same
CreateJitMembership(u) ==
    /\ visit[u] = "join"
    /\ visit' = [visit EXCEPT ![u] = "inside"]
    /\ \/ members' = [members EXCEPT ![u] = "active"] /\ Written("members")
       \/ UNCHANGED <<members, late>>
    /\ UNCHANGED <<tenant, data, deadLetters, admin, wiped>>

\* A request that has been let in writes: a chat log, a document, a collection
Use(u, place) ==
    /\ visit[u] = "inside"
    /\ tenant.status # "none"
    /\ data' = data \cup {place}
    /\ Written(place)
    /\ UNCHANGED <<tenant, members, deadLetters, admin, visit, wiped>>

Leave(u) ==
    /\ visit[u] = "inside"
    /\ visit' = [visit EXCEPT ![u] = "away"]
    /\ UNCHANGED <<tenant, data, members, deadLetters, admin, wiped, late>>

Next ==
    \/ \E a \in PlatformAdmins :
        \/ \E open \in BOOLEAN : Register(a, open) \/ SetEnrollmentPolicy(a, open)
        \/ \E to \in Statuses : PatchRead(a, to)
        \/ CreateCollection(a) \/ UpdateStatus(a) \/ Abort(a)
        \/ HardDeleteRead(a) \/ HardDeleteBegin(a)
        \/ Wipe(a) \/ WipeFails(a) \/ HardDeleteEnd(a)
    \/ \E u \in Visitors :
        \/ Assign(u) \/ Revoke(u)
        \/ LoadMembership(u) \/ LoadEnrollment(u) \/ CreateJitMembership(u)
        \/ \E place \in Places \ {"members"} : Use(u, place)
        \/ Leave(u)

-----------------------------------------------------------------------------
(* Properties.                                                             *)

Remains == data \cup {p \in {"members"} : \E u \in Visitors : members[u] # "none"}

\* hard_delete: whichever of its steps fail and wherever requests break off, what
\* is left of a deleted tenant is named by a dead letter, was written after its
\* place had been erased, or is what the erasing call misses.
LeftoverIsReported ==
    tenant.status = "deleted" => Remains \subseteq (deadLetters \cup late \cup Missed)

\* hard_delete: delete_status tells how far the deletes have come, although they
\* break off, are repeated and overlap, and although a PATCH may serve the tenant
\* again under them.  A tenant that has lost data has one; "completed" means that the
\* step of every place has gone through, "partial" that the others left a dead letter.
DeleteStatusIsTrue ==
    /\ wiped # {} => tenant.del # "none"
    /\ tenant.del = "completed" => Places \subseteq wiped
    /\ tenant.del = "partial" => deadLetters # {} /\ Places \subseteq (wiped \cup deadLetters)
=============================================================================
