-------------------------- MODULE ConfigCache_proofs --------------------------
(***************************************************************************)
(* What holds for any number of instances, administrators, categories,     *)
(* changes and breakdowns: a cached configuration is never out of date     *)
(* with the overrides of its process, and PUT /routing is visible where it *)
(* was answered if changes do not overlap.                                 *)
(***************************************************************************)
EXTENDS ConfigCache, TLAPS

\* What the next-state relation does, without the environment's choices
InstanceStep(i) ==
    \/ Progress(i) \/ Load(i) \/ Expire(i) \/ Disconnect(i) \/ Restart(i)
    \/ \E n \in Notes : Handle(i, n)

ClientStep(c) ==
    \/ \E k \in Kinds, i \in Instances, cat \in Categories : Commit(c, k, i, cat)
    \/ Finish(c)
    \/ Leave(c)

\* The constants of the state are of the types TypeOK names.
LEMMA Constants ==
    /\ NoOverrides \in Overrides
    /\ Empty \in Cached
    /\ NoTask \in TaskStates /\ NewTask \in TaskStates
    /\ NoRequest \in Requests
BY ConfigAssumption, SMT DEF ConfigAssumption, NoOverrides, Overrides, Empty, Cached,
     NoTask, NewTask, TaskStates, NoRequest, Requests

\* SetOverrides keeps the overrides and the cache of an instance well typed.
LEMMA SetOverridesType ==
    ASSUME TypeOK, NEW i \in Instances, NEW rows \in Overrides, SetOverrides(i, rows)
    PROVE  over' \in [Instances -> Overrides] /\ cache' \in [Instances -> Cached]
BY Constants DEF TypeOK, SetOverrides, Invalidate

\* Every step of an instance preserves TypeOK.
LEMMA InstanceStepType ==
    ASSUME TypeOK, NEW i \in Instances, InstanceStep(i)
    PROVE  TypeOK'
<1> USE ConfigAssumption DEF ConfigAssumption
<1>1. CASE Preload(i)
  BY <1>1 DEF TypeOK, Preload, Links
<1>2. CASE PreloadApply(i)
  <2> DEFINE rows == [c \in Categories |->
                        IF snap[i][c] # 0 THEN snap[i][c] ELSE over[i][c]]
  <2>1. rows \in Overrides
    BY DEF TypeOK, Overrides
  <2>2. SetOverrides(i, rows)
    BY <1>2 DEF PreloadApply
  <2> HIDE DEF rows
  <2>3. over' \in [Instances -> Overrides] /\ cache' \in [Instances -> Cached]
    BY <2>1, <2>2, SetOverridesType
  <2> QED
    BY <1>2, <2>3, Constants DEF TypeOK, PreloadApply, Links
<1>3. CASE PreloadFails(i)
  BY <1>3 DEF TypeOK, PreloadFails, Links
<1>4. CASE Listen(i)
  BY <1>4 DEF TypeOK, Listen, Links
<1>5. CASE Load(i)
  BY <1>5 DEF TypeOK, Load, Cached
<1>6. CASE Expire(i)
  BY <1>6, Constants DEF TypeOK, Expire, Invalidate
<1>7. CASE Disconnect(i)
  <2>1. PICK lost \in SUBSET {n \in Notes : task[i][n].at = "select"} :
          task' = [task EXCEPT ![i] =
                     [n \in Notes |-> IF n \in lost THEN NoTask ELSE task[i][n]]]
    BY <1>7 DEF Disconnect
  <2>2. task' \in [Instances -> [Notes -> TaskStates]]
    BY <2>1, Constants DEF TypeOK
  <2> QED
    BY <1>7, <2>2 DEF TypeOK, Disconnect, Links
<1>8. CASE Restart(i)
  BY <1>8, Constants DEF TypeOK, Restart, Invalidate, Links
<1>9. CASE \E n \in Notes : Handle(i, n)
  <2>1. PICK n \in Notes : Handle(i, n)
    BY <1>9
  <2>2. CASE Select(i, n)
    BY <2>2 DEF TypeOK, Select, TaskStates
  <2>3. CASE Apply(i, n)
    <3>1. task[i][n].rows \in Overrides
      BY DEF TypeOK, TaskStates
    <3>2. over' \in [Instances -> Overrides] /\ cache' \in [Instances -> Cached]
      BY <2>3, <3>1, SetOverridesType DEF Apply
    <3> QED
      BY <2>3, <3>2, Constants DEF TypeOK, Apply
  <2>4. CASE ReloadFails(i, n)
    BY <2>4, Constants DEF TypeOK, ReloadFails
  <2> QED
    BY <2>1, <2>2, <2>3, <2>4 DEF Handle
<1> QED
  BY <1>1, <1>2, <1>3, <1>4, <1>5, <1>6, <1>7, <1>8, <1>9 DEF InstanceStep, Progress

\* A request that is under way has an instance.
Placed == \A c \in Clients : req[c].at # "idle" => req[c].on \in Instances

\* Every step of an administrator's request preserves TypeOK.
LEMMA ClientStepType ==
    ASSUME TypeOK, Placed, NEW c \in Clients, ClientStep(c)
    PROVE  TypeOK'
<1> USE ConfigAssumption DEF ConfigAssumption
<1>1. CASE \E k \in Kinds, i \in Instances, cat \in Categories : Commit(c, k, i, cat)
  <2>1. PICK k \in Kinds, i \in Instances, cat \in Categories : Commit(c, k, i, cat)
    BY <1>1
  <2>2. writes' \in 0 .. MaxWrites
    BY <2>1 DEF TypeOK, Commit
  <2>3. db' \in Overrides
    BY <2>1, <2>2 DEF TypeOK, Commit, Overrides
  <2>4. task' \in [Instances -> [Notes -> TaskStates]]
    BY <2>1, Constants DEF TypeOK, Commit
  <2>5. req' \in [Clients -> Requests]
    BY <2>1, <2>2 DEF TypeOK, Commit, Requests
  <2> QED
    BY <2>1, <2>2, <2>3, <2>4, <2>5 DEF TypeOK, Commit
<1>2. CASE Finish(c)
  <2> DEFINE i == req[c].on
             rows == [over[i] EXCEPT ![req[c].cat] = req[c].val]
  <2>1. i \in Instances
    BY <1>2 DEF Placed, Finish
  <2>2. over' \in [Instances -> Overrides] /\ cache' \in [Instances -> Cached]
    <3>1. CASE Invalidate(i) /\ UNCHANGED over
      BY <3>1, <2>1, Constants DEF TypeOK, Invalidate
    <3>2. CASE SetOverrides(i, rows)
      <4>1. rows \in Overrides
        BY <2>1 DEF TypeOK, Overrides, Requests
      <4> QED
        BY <2>1, <3>2, <4>1, SetOverridesType
    <3> QED
      BY <1>2, <3>1, <3>2 DEF Finish
  <2>3. req' \in [Clients -> Requests]
    BY <1>2 DEF TypeOK, Finish, Requests
  <2> QED
    BY <1>2, <2>2, <2>3 DEF TypeOK, Finish
<1>3. CASE Leave(c)
  BY <1>3, Constants DEF TypeOK, Leave
<1> QED
  BY <1>1, <1>2, <1>3 DEF ClientStep

\* Requests keep their instance.
LEMMA PlacedStep ==
    ASSUME TypeOK, Placed, [Next]_vars
    PROVE  Placed'
<1>1. CASE \E i \in Instances : Restart(i)
  BY <1>1 DEF TypeOK, Placed, Restart, NoRequest
<1>2. CASE UNCHANGED req
  BY <1>2 DEF Placed
<1>3. CASE \E c \in Clients : ClientStep(c)
  <2>1. PICK c \in Clients : ClientStep(c)
    BY <1>3
  <2>2. CASE \E k \in Kinds, i \in Instances, cat \in Categories : Commit(c, k, i, cat)
    BY <2>2 DEF TypeOK, Placed, Commit
  <2>3. CASE Finish(c)
    BY <2>3 DEF TypeOK, Placed, Finish, Requests
  <2>4. CASE Leave(c)
    BY <2>4 DEF TypeOK, Placed, Leave, NoRequest
  <2> QED
    BY <2>1, <2>2, <2>3, <2>4 DEF ClientStep
<1> QED
  BY <1>1, <1>2, <1>3 DEF Next, vars, ClientStep, Progress, Handle, Preload, PreloadApply,
     PreloadFails, Listen, Load, Expire, Disconnect, Select, Apply, ReloadFails

\* The next-state relation preserves the types.
LEMMA TypeStep ==
    ASSUME TypeOK, Placed, [Next]_vars
    PROVE  TypeOK'
<1>1. CASE \E i \in Instances : InstanceStep(i)
  BY <1>1, InstanceStepType
<1>2. CASE \E c \in Clients : ClientStep(c)
  BY <1>2, ClientStepType
<1>3. CASE UNCHANGED vars
  BY <1>3 DEF TypeOK, vars
<1> QED
  BY <1>1, <1>2, <1>3 DEF Next, InstanceStep, ClientStep

\* The initial state is well typed.
LEMMA TypeInit == Init => TypeOK /\ Placed
BY Constants, ConfigAssumption DEF ConfigAssumption, Init, TypeOK, Placed, Links, NoRequest

\* Every reachable state is well typed, for any constants that
\* ConfigAssumption admits.
THEOREM ConfigTypeCorrect == Spec => [](TypeOK /\ Placed)
<1>1. Init => TypeOK /\ Placed
  BY TypeInit
<1>2. TypeOK /\ Placed /\ [Next]_vars => (TypeOK /\ Placed)'
  BY TypeStep, PlacedStep
<1> QED
  BY <1>1, <1>2, PTL DEF Spec

-----------------------------------------------------------------------------
(* The cache.                                                              *)

\* SetOverrides and Invalidate empty the cache of the instance they change.
LEMMA CacheStep ==
    ASSUME TypeOK, Placed, CacheFollowsOverrides, [Next]_vars
    PROVE  CacheFollowsOverrides'
<1>1. CASE UNCHANGED <<over, cache>>
  BY <1>1 DEF CacheFollowsOverrides
<1>2. ASSUME NEW i \in Instances, Invalidate(i),
             \A x \in Instances : x # i => over'[x] = over[x]
      PROVE  CacheFollowsOverrides'
  BY <1>2 DEF TypeOK, CacheFollowsOverrides, Invalidate, Empty
<1>3. ASSUME NEW i \in Instances, NEW rows, SetOverrides(i, rows)
      PROVE  CacheFollowsOverrides'
  <2>1. Invalidate(i) /\ \A x \in Instances : x # i => over'[x] = over[x]
    BY <1>3 DEF TypeOK, SetOverrides
  <2> QED
    BY <1>2, <2>1
<1>4. CASE \E i \in Instances : Load(i)
  BY <1>4 DEF TypeOK, CacheFollowsOverrides, Load
<1>5. CASE \E i \in Instances : Expire(i) \/ Restart(i)
  <2>1. PICK i \in Instances : Expire(i) \/ Restart(i)
    BY <1>5
  <2>2. Invalidate(i) /\ \A x \in Instances : x # i => over'[x] = over[x]
    BY <2>1 DEF TypeOK, Expire, Restart
  <2> QED
    BY <1>2, <2>2
<1>6. CASE \E i \in Instances : PreloadApply(i)
  BY <1>3, <1>6 DEF PreloadApply
<1>7. CASE \E i \in Instances, n \in Notes : Apply(i, n)
  BY <1>3, <1>7 DEF Apply
<1>8. CASE \E c \in Clients : Finish(c)
  <2>1. PICK c \in Clients : Finish(c)
    BY <1>8
  <2>2. req[c].on \in Instances
    BY <2>1 DEF Placed, Finish
  <2>3. CASE Invalidate(req[c].on) /\ UNCHANGED over
    BY <1>2, <2>2, <2>3
  <2>4. CASE \E rows : SetOverrides(req[c].on, rows)
    BY <1>3, <2>2, <2>4
  <2> QED
    BY <2>1, <2>3, <2>4, Zenon DEF Finish
<1> QED
  BY <1>1, <1>4, <1>5, <1>6, <1>7, <1>8 DEF Next, vars, Progress, Handle, Preload,
     PreloadFails, Listen, Disconnect, Select, ReloadFails, Commit, Leave

\* TenantConfigService.load never returns a configuration older than the
\* overrides of its process, however preloads, reload tasks, lost connections,
\* restarts and requests interleave.
THEOREM CacheNeverStale == Spec => []CacheFollowsOverrides
<1>1. Init => CacheFollowsOverrides
  BY DEF Init, CacheFollowsOverrides, Empty
<1>2. TypeOK /\ Placed /\ CacheFollowsOverrides /\ [Next]_vars => CacheFollowsOverrides'
  BY CacheStep
<1> QED
  BY <1>1, <1>2, ConfigTypeCorrect, PTL DEF Spec

-----------------------------------------------------------------------------
(* PUT /routing, beside PATCH requests, under changes that do not overlap. *)

\* A snapshot that somebody still holds is the table: no change commits while
\* a preload or a task is between its SELECT and its use of the rows.
HeldIsCurrent ==
    /\ \A i \in Instances : link[i] \in {"booting", "reloading"} => snap[i] = db
    /\ \A i \in Instances, n \in Notes : task[i][n].at = "apply" => task[i][n].rows = db

\* No row has a number that is still to come; a request under way wrote a row
\* that is in the table or has been replaced by a newer one, and as long as
\* the request is not finished the row is in the table.
WrittenIsStored ==
    \A c \in Clients : req[c].at # "idle" =>
        /\ req[c].val > 0
        /\ db[req[c].cat] >= req[c].val
        /\ req[c].at = "finish" => db[req[c].cat] = req[c].val

DbBelowWrites == \A cat \in Categories : db[cat] <= writes

PutInv == HeldIsCurrent /\ WrittenIsStored /\ DbBelowWrites /\ WriteIsVisible

\* A step that leaves the table, the requests and the overrides alone, and
\* takes only current snapshots, preserves PutInv.
LEMMA PutInstanceStep ==
    ASSUME TypeOK, Placed, PutInv, NEW i \in Instances, InstanceStep(i)
    PROVE  PutInv'
<1> USE DEF PutInv
<1>1. CASE Preload(i)
  BY <1>1 DEF TypeOK, HeldIsCurrent, WrittenIsStored, DbBelowWrites, WriteIsVisible, Preload
<1>2. CASE PreloadApply(i)
  <2> DEFINE rows == [c \in Categories |->
                        IF snap[i][c] # 0 THEN snap[i][c] ELSE over[i][c]]
  <2>1. HeldIsCurrent' /\ WrittenIsStored' /\ DbBelowWrites'
    BY <1>2 DEF TypeOK, HeldIsCurrent, WrittenIsStored, DbBelowWrites, PreloadApply
  <2>2. over' = [over EXCEPT ![i] = rows]
    BY <1>2 DEF PreloadApply, SetOverrides
  <2>3. snap[i] = db
    BY <1>2 DEF HeldIsCurrent, PreloadApply
  <2>4. ASSUME NEW c \in Clients, req[c].at = "done", req[c].kind = "put"
        PROVE  over'[req[c].on][req[c].cat] >= req[c].val
    <3>1. req[c].on \in Instances /\ req[c].cat \in Categories /\ req[c].val \in Nat
          /\ db[req[c].cat] \in Nat
      BY <2>4, ConfigAssumption DEF TypeOK, Placed, Requests, Overrides, ConfigAssumption
    <3>2. db[req[c].cat] >= req[c].val /\ req[c].val > 0
      BY <2>4 DEF WrittenIsStored
    <3>3. CASE req[c].on = i
      <4>1. over'[i][req[c].cat] = rows[req[c].cat]
        BY <2>2 DEF TypeOK
      <4>2. rows[req[c].cat] = db[req[c].cat]
        BY <2>3, <3>1, <3>2
      <4> QED
        BY <3>2, <3>3, <4>1, <4>2
    <3>4. CASE req[c].on # i
      BY <2>2, <2>4, <3>1, <3>4 DEF TypeOK, WriteIsVisible
    <3> QED
      BY <3>3, <3>4
  <2>5. req' = req
    BY <1>2 DEF PreloadApply
  <2>6. WriteIsVisible'
    BY <2>4, <2>5 DEF WriteIsVisible
  <2> QED
    BY <2>1, <2>6
<1>3. CASE PreloadFails(i) \/ Listen(i)
  BY <1>3 DEF TypeOK, HeldIsCurrent, WrittenIsStored, DbBelowWrites, WriteIsVisible,
     PreloadFails, Listen
<1>4. CASE Load(i) \/ Expire(i)
  BY <1>4 DEF HeldIsCurrent, WrittenIsStored, DbBelowWrites, WriteIsVisible, Load, Expire
<1>5. CASE Disconnect(i)
  <2>1. PICK lost \in SUBSET {n \in Notes : task[i][n].at = "select"} :
          task' = [task EXCEPT ![i] =
                     [n \in Notes |-> IF n \in lost THEN NoTask ELSE task[i][n]]]
    BY <1>5 DEF Disconnect
  <2>2. HeldIsCurrent'
    BY <1>5, <2>1 DEF TypeOK, HeldIsCurrent, Disconnect, NoTask
  <2> QED
    BY <1>5, <2>2 DEF WrittenIsStored, DbBelowWrites, WriteIsVisible, Disconnect
<1>6. CASE Restart(i)
  <2>1. HeldIsCurrent'
    BY <1>6 DEF TypeOK, HeldIsCurrent, Restart, NoTask
  <2>2. WrittenIsStored' /\ DbBelowWrites'
    BY <1>6 DEF TypeOK, WrittenIsStored, DbBelowWrites, Restart, NoRequest
  <2>3. WriteIsVisible'
    BY <1>6 DEF TypeOK, Placed, WriteIsVisible, Restart, NoRequest
  <2> QED
    BY <2>1, <2>2, <2>3
<1>7. CASE \E n \in Notes : Handle(i, n)
  <2>1. PICK n \in Notes : Handle(i, n)
    BY <1>7
  <2>2. CASE Select(i, n)
    BY <2>2 DEF TypeOK, HeldIsCurrent, WrittenIsStored, DbBelowWrites, WriteIsVisible, Select
  <2>3. CASE Apply(i, n)
    <3>1. over' = [over EXCEPT ![i] = db]
      BY <2>3 DEF HeldIsCurrent, Apply, SetOverrides
    <3>2. HeldIsCurrent' /\ WrittenIsStored' /\ DbBelowWrites'
      BY <2>3 DEF TypeOK, HeldIsCurrent, WrittenIsStored, DbBelowWrites, Apply, NoTask
    <3>3. WriteIsVisible'
      BY <2>3, <3>1 DEF TypeOK, Placed, WrittenIsStored, WriteIsVisible, Apply
    <3> QED
      BY <3>2, <3>3
  <2>4. CASE ReloadFails(i, n)
    BY <2>4 DEF TypeOK, HeldIsCurrent, WrittenIsStored, DbBelowWrites, WriteIsVisible,
       ReloadFails, NoTask
  <2> QED
    BY <2>1, <2>2, <2>3, <2>4 DEF Handle
<1> QED
  BY <1>1, <1>2, <1>3, <1>4, <1>5, <1>6, <1>7 DEF InstanceStep, Progress

\* A commit finds no snapshot in use, and a PUT applies what it has written.
LEMMA PutClientStep ==
    ASSUME Spaced = TRUE, TypeOK, Placed, PutInv, NEW c \in Clients, ClientStep(c)
    PROVE  PutInv'
<1> USE DEF PutInv
<1>1. CASE \E k \in Kinds, i \in Instances, cat \in Categories : Commit(c, k, i, cat)
  <2>1. PICK k \in Kinds, i \in Instances, cat \in Categories : Commit(c, k, i, cat)
    BY <1>1
  <2>2. Settled
    BY <2>1 DEF Commit
  <2>3. writes \in Nat /\ writes' = writes + 1 /\ db' = [db EXCEPT ![cat] = writes + 1]
        /\ db \in [Categories -> Nat]
    BY <2>1, ConfigAssumption DEF TypeOK, Commit, Overrides, ConfigAssumption
  <2>4. HeldIsCurrent'
    BY <2>1, <2>2 DEF TypeOK, HeldIsCurrent, Settled, Commit, NewTask
  <2>5. DbBelowWrites'
    BY <2>3 DEF DbBelowWrites
  <2>6. req' = [req EXCEPT ![c] = [at |-> "finish", kind |-> k, on |-> i,
                                   cat |-> cat, val |-> writes + 1]]
    BY <2>1, <2>3 DEF Commit
  <2>7. WrittenIsStored'
    <3>1. ASSUME NEW x \in Clients, req'[x].at # "idle"
          PROVE  /\ req'[x].val > 0
                 /\ db'[req'[x].cat] >= req'[x].val
                 /\ req'[x].at = "finish" => db'[req'[x].cat] = req'[x].val
      <4>1. CASE x = c
        BY <2>2, <2>3, <2>6, <4>1 DEF TypeOK
      <4>2. CASE x # c
        <5>1. req'[x] = req[x]
          BY <2>6, <4>2 DEF TypeOK
        <5>2. req[x].cat \in Categories /\ req[x].val \in Nat
          BY ConfigAssumption DEF TypeOK, Requests, ConfigAssumption
        <5>3. req[x].val > 0 /\ db[req[x].cat] >= req[x].val
          BY <3>1, <5>1 DEF WrittenIsStored
        <5>4. req[x].at # "finish"
          BY <2>2 DEF Settled
        <5> QED
          BY <2>3, <5>1, <5>2, <5>3, <5>4 DEF DbBelowWrites
      <4> QED
        BY <4>1, <4>2
    <3> QED
      BY <3>1 DEF WrittenIsStored
  <2>8. WriteIsVisible'
    BY <2>1, <2>6 DEF TypeOK, WriteIsVisible, Commit
  <2> QED
    BY <2>4, <2>5, <2>7, <2>8
<1>2. CASE Finish(c)
  <2> DEFINE i == req[c].on
  <2>1. i \in Instances /\ req[c].cat \in Categories
    BY <1>2 DEF TypeOK, Placed, Finish, Requests
  <2>2. \/ req[c].kind = "patch" /\ over' = over
        \/ over' = [over EXCEPT ![i] = [over[i] EXCEPT ![req[c].cat] = req[c].val]]
    BY <1>2 DEF Finish, SetOverrides
  <2>3. HeldIsCurrent' /\ DbBelowWrites'
    BY <1>2 DEF HeldIsCurrent, DbBelowWrites, Finish
  <2>4. req' = [req EXCEPT ![c].at = "done"] /\ db' = db
    BY <1>2 DEF Finish
  <2>5. \A x \in Clients : /\ req'[x].kind = req[x].kind
                           /\ req'[x].cat = req[x].cat
                           /\ req'[x].val = req[x].val
                           /\ req'[x].on = req[x].on
                           /\ x # c => req'[x].at = req[x].at
    BY <2>4 DEF TypeOK, Requests
  <2>6. WrittenIsStored'
    BY <1>2, <2>4, <2>5 DEF TypeOK, WrittenIsStored, Finish
  <2>7. ASSUME NEW x \in Clients, req'[x].at = "done", req'[x].kind = "put"
        PROVE  over'[req'[x].on][req'[x].cat] >= req'[x].val
    <3>1. req[x].on \in Instances /\ req[x].cat \in Categories /\ req[x].val \in Nat
          /\ db[req[x].cat] >= req[x].val
      BY <1>2, <2>5, <2>7, ConfigAssumption
      DEF TypeOK, Placed, WrittenIsStored, Finish, Requests, ConfigAssumption
    <3>2. db[req[c].cat] = req[c].val
      BY <1>2 DEF WrittenIsStored, Finish
    <3>3. over[i] \in Overrides
      BY <2>1 DEF TypeOK
    <3>4. CASE req[c].kind = "patch" /\ over' = over
      BY <2>5, <2>7, <3>4 DEF WriteIsVisible
    <3> SUFFICES ASSUME over' = [over EXCEPT ![i] = [over[i] EXCEPT ![req[c].cat] = req[c].val]]
                 PROVE  over'[req'[x].on][req'[x].cat] >= req'[x].val
      BY <2>2, <3>4
    <3>5. CASE req[x].on = i /\ req[x].cat = req[c].cat
      BY <2>1, <2>5, <3>1, <3>2, <3>3, <3>5 DEF TypeOK, Overrides
    <3>6. CASE ~(req[x].on = i /\ req[x].cat = req[c].cat)
      <4>1. x # c
        BY <3>6
      <4>2. over[req[x].on][req[x].cat] >= req[x].val
        BY <2>5, <2>7, <4>1 DEF WriteIsVisible
      <4> QED
        BY <2>1, <2>5, <3>1, <3>3, <3>6, <4>2 DEF TypeOK, Overrides
    <3> QED
      BY <3>5, <3>6
  <2>8. WriteIsVisible'
    BY <2>7 DEF WriteIsVisible
  <2> QED
    BY <2>3, <2>6, <2>8
<1>3. CASE Leave(c)
  BY <1>3 DEF TypeOK, HeldIsCurrent, WrittenIsStored, DbBelowWrites, WriteIsVisible, Leave,
     NoRequest
<1> QED
  BY <1>1, <1>2, <1>3 DEF ClientStep

\* If changes do not overlap, an instance that has answered a PUT /routing uses
\* the new routing at once and never falls back behind it, whatever breaks.
THEOREM PutIsVisible ==
    ASSUME Spaced = TRUE
    PROVE  Spec => []WriteIsVisible
<1>1. Init => PutInv
  BY ConfigAssumption DEF ConfigAssumption, Init, PutInv, HeldIsCurrent, WrittenIsStored,
     DbBelowWrites, WriteIsVisible, NoTask, NoRequest, NoOverrides
<1>2. TypeOK /\ Placed /\ PutInv /\ [Next]_vars => PutInv'
  <2> SUFFICES ASSUME TypeOK, Placed, PutInv, [Next]_vars
               PROVE  PutInv'
    OBVIOUS
  <2>1. CASE \E i \in Instances : InstanceStep(i)
    BY <2>1, PutInstanceStep
  <2>2. CASE \E c \in Clients : ClientStep(c)
    BY <2>2, PutClientStep
  <2>3. CASE UNCHANGED vars
    BY <2>3 DEF vars, PutInv, HeldIsCurrent, WrittenIsStored, DbBelowWrites, WriteIsVisible
  <2> QED
    BY <2>1, <2>2, <2>3 DEF Next, InstanceStep, ClientStep
<1>3. PutInv => WriteIsVisible
  BY DEF PutInv
<1> QED
  BY <1>1, <1>2, <1>3, ConfigTypeCorrect, PTL DEF Spec
=============================================================================
