---------------------------- MODULE SigningKeys -----------------------------
(***************************************************************************)
(* JWKSClient: the cache of the identity provider's signing keys, shared   *)
(* by the requests of one process.  get_key runs without a lock, then      *)
(* under an asyncio.Lock that is held across the fetch, and once more when *)
(* the key is unknown.                                                     *)
(*                                                                         *)
(* A step is what runs between two awaits.  Time is counted in ticks, a    *)
(* fetch is shorter than a tick, and a fetch returns the keys that are     *)
(* published when it ends.                                                 *)
(***************************************************************************)
EXTENDS Naturals

CONSTANTS
    Lookups,   \* requests whose token is being verified
    Kids,      \* key ids 1 .. n, in the order of their rotation
    TTL,       \* cache_ttl, in ticks
    Nobody

VARIABLES
    current,   \* the key id that the provider publishes
    gone,      \* Kids -> ticks since the provider has withdrawn it
    keys,      \* _keys
    age,       \* ticks since _fetched_at; TTL + 1 is stale
    lock,      \* holder of _lock
    lookup,    \* Lookups -> the request: its step, its kid and its outcome
    known      \* Lookups -> was its kid published when it was not found

keyVars == <<current, gone, keys, age, lock, lookup, known>>

Stale == TTL + 1
Steps == {"idle", "enter", "lock", "fetch", "relock", "refetch", "done"}
Outcomes == {"none", "key", "unknown", "error"}

NoLookup == [pc |-> "idle", kid |-> 1, out |-> "none"]

TypeOK ==
    /\ current \in Kids
    /\ gone \in [Kids -> 0 .. Stale]
    /\ keys \subseteq Kids
    /\ age \in 0 .. Stale
    /\ lock \in Lookups \cup {Nobody}
    /\ lookup \in [Lookups -> [pc: Steps, kid: Kids, out: Outcomes]]
    /\ known \in [Lookups -> BOOLEAN]

\* _fetched_at is 0 at the start: the empty cache is stale
Init ==
    /\ current = 1
    /\ gone = [k \in Kids |-> 0]
    /\ keys = {}
    /\ age = Stale
    /\ lock = Nobody
    /\ lookup = [c \in Lookups |-> NoLookup]
    /\ known = [c \in Lookups |-> FALSE]

At(c, pc) == lookup[c].pc = pc
Go(c, pc) == lookup' = [lookup EXCEPT ![c].pc = pc]
Return(c, out) == lookup' = [lookup EXCEPT ![c].pc = "done", ![c].out = out]

IsStale == age > TTL
Cached(c) == lookup[c].kid \in keys

-----------------------------------------------------------------------------

\* A token names the key that signed it, published or withdrawn
Ask(c, kid) ==
    /\ lookup[c].pc \in {"idle", "done"}
    /\ lookup' = [lookup EXCEPT ![c] = [pc |-> "enter", kid |-> kid, out |-> "none"]]
    /\ known' = [known EXCEPT ![c] = FALSE]
    /\ UNCHANGED <<current, gone, keys, age, lock>>

GetKey(c) ==
    /\ At(c, "enter")
    /\ IF Cached(c) /\ ~IsStale THEN Return(c, "key") ELSE Go(c, "lock")
    /\ UNCHANGED <<current, gone, keys, age, lock, known>>

\* Under the lock: another request may have fetched; a fresh, filled cache is
\* not fetched again, and then a kid that is not in it needs the second try
Acquire(c) ==
    /\ At(c, "lock")
    /\ lock = Nobody
    /\ IF IsStale \/ keys = {}
       THEN lock' = c /\ Go(c, "fetch")
       ELSE /\ IF Cached(c) THEN Return(c, "key") ELSE Go(c, "relock")
            /\ UNCHANGED lock
    /\ UNCHANGED <<current, gone, keys, age, known>>

\* _refresh_locked ends with the published keys, and the lock is released
Fetched ==
    /\ keys' = {current}
    /\ age' = 0
    /\ lock' = Nobody

Fetch(c) ==
    /\ At(c, "fetch")
    /\ Fetched
    /\ IF lookup[c].kid = current THEN Return(c, "key") ELSE Go(c, "relock")
    /\ UNCHANGED <<current, gone, known>>

\* Mutant: the second refresh is not forced, and a fresh cache is not fetched
AcquireAgainFresh(c) ==
    /\ At(c, "relock")
    /\ lock = Nobody
    /\ IF IsStale
       THEN lock' = c /\ Go(c, "refetch") /\ UNCHANGED known
       ELSE /\ Return(c, IF Cached(c) THEN "key" ELSE "unknown")
            /\ known' = [known EXCEPT ![c] = lookup[c].kid = current]
            /\ UNCHANGED lock
    /\ UNCHANGED <<current, gone, keys, age>>

\* _refresh_locked(force=True), whatever the cache has become meanwhile
AcquireAgain(c) ==
    /\ At(c, "relock")
    /\ lock = Nobody
    /\ lock' = c
    /\ Go(c, "refetch")
    /\ UNCHANGED <<current, gone, keys, age, known>>

Refetch(c) ==
    /\ At(c, "refetch")
    /\ Fetched
    /\ Return(c, IF lookup[c].kid = current THEN "key" ELSE "unknown")
    /\ known' = [known EXCEPT ![c] = lookup[c].kid = current]
    /\ UNCHANGED <<current, gone>>

\* Mutant: when the provider cannot be reached the cache serves on
FetchFailsServes(c) ==
    /\ lookup[c].pc \in {"fetch", "refetch"}
    /\ lock' = Nobody
    /\ Return(c, IF Cached(c) THEN "key" ELSE "error")
    /\ UNCHANGED <<current, gone, keys, age, known>>

\* JWKSFetchError: no answer, or an answer without keys
FetchFails(c) ==
    /\ lookup[c].pc \in {"fetch", "refetch"}
    /\ lock' = Nobody
    /\ Return(c, "error")
    /\ UNCHANGED <<current, gone, keys, age, known>>

-----------------------------------------------------------------------------
(* The identity provider, and time.                                        *)

Rotate ==
    /\ current + 1 \in Kids
    /\ current' = current + 1
    /\ UNCHANGED <<gone, keys, age, lock, lookup, known>>

\* A tick is longer than the fetch that holds the lock
Tick ==
    /\ lock = Nobody
    /\ age' = IF age < Stale THEN age + 1 ELSE age
    /\ gone' = [k \in Kids |-> IF k < current /\ gone[k] < Stale THEN gone[k] + 1 ELSE gone[k]]
    /\ <<age', gone'>> # <<age, gone>>
    /\ UNCHANGED <<current, keys, lock, lookup, known>>

Step(c) ==
    \/ GetKey(c)
    \/ Fetch(c)
    \/ Refetch(c)
    \/ FetchFails(c)

Next ==
    \/ \E c \in Lookups :
        \/ \E kid \in 1 .. current : Ask(c, kid)
        \/ Step(c)
        \/ Acquire(c)
        \/ AcquireAgain(c)
    \/ Rotate
    \/ Tick

-----------------------------------------------------------------------------
(* Properties.                                                             *)

\* get_key: a key that the provider has withdrawn is accepted for no longer than
\* the TTL, even when every refresh of the cache fails.
WithdrawnKeyExpires ==
    [][\A c \in Lookups :
        lookup[c].out = "none" /\ lookup'[c].out = "key" => gone[lookup[c].kid] <= TTL]_keyVars

\* get_key: a key that the provider publishes is never reported as unknown,
\* however old the cache is and whoever has just refreshed it.
PublishedKeyIsFound ==
    \A c \in Lookups : lookup[c].out = "unknown" => ~known[c]

\* get_key: every request gets its answer; one whose fetch has failed leaves
\* the lock to the others.
LookupEnds == \A c \in Lookups : lookup[c].pc = "enter" ~> lookup[c].pc = "done"
=============================================================================
