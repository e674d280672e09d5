------------------------ MODULE SchemaVersions_proofs -----------------------
(***************************************************************************)
(* The versions of an input schema form one history, for any number of     *)
(* processes, administrators, input_types and versions: the inductive      *)
(* invariant behind ControlPlane_proofs!SchemasFormOneHistory.  InForceInv *)
(* is the one behind SchemaIsInForceEverywhere.                            *)
(*                                                                         *)
(* VersionHistory is not inductive.  What keeps it is who may insert: a    *)
(* request that holds the lock on a row holds it alone and the row is the  *)
(* active one (Locks), and a request that has passed the check for removed *)
(* types carries all types of the version it was based on, as long as that *)
(* version is the active one (Compatible).                                 *)
(***************************************************************************)
EXTENDS SchemaVersions, TLAPS

Exists(v) == rows[v].status # "none"
IsActive(v) == rows[v].status = "active"

\* A version that a request names is one of the table
Named ==
    \A e \in Editors :
        /\ put[e].base # 0 => Exists(put[e].base)
        /\ put[e].current # 0 => Exists(put[e].current)

Locks ==
    /\ \A e \in Editors : put[e].pc = "waiting" => put[e].current # 0
    /\ \A e \in Editors :
        put[e].pc = "locked" /\ put[e].current # 0 => IsActive(put[e].current)
    /\ \A e, f \in Editors :
        put[e].pc = "locked" /\ put[f].pc = "locked" /\ put[e].current # 0
            /\ put[e].current = put[f].current => e = f

Checked == {"select", "waiting", "locked"}

Compatible ==
    \A e \in Editors :
        put[e].pc \in Checked /\ put[e].base # 0 /\ IsActive(put[e].base)
            => rows[put[e].base].types \subseteq put[e].types

SchemaInv ==
    /\ TypeOK
    /\ OneActiveVersion
    /\ TypesAreNeverRemoved
    /\ Named
    /\ Locks
    /\ Compatible

-----------------------------------------------------------------------------

\* OneActiveVersion: two active versions are the same one.
LEMMA ActiveIsUnique ==
    ASSUME MaxVersion \in Nat \ {0}, TypeOK, OneActiveVersion,
           NEW v \in Versions, NEW w \in Versions, IsActive(v), IsActive(w)
    PROVE  v = w
<1>1. ASSUME NEW x \in Versions, NEW y \in Versions, IsActive(x), IsActive(y), x < y
      PROVE  FALSE
  <2>1. x + 1 \in Versions /\ x + 1 <= y
    BY <1>1 DEF Versions
  <2>2. Exists(x + 1)
    <3>1. CASE x + 1 = y
      BY <3>1, <1>1 DEF Exists, IsActive
    <3>2. CASE x + 1 # y
      BY <3>2, <2>1, <1>1 DEF OneActiveVersion, Exists, IsActive, Versions
    <3> QED BY <3>1, <3>2
  <2>3. x # MaxVersion
    BY <1>1 DEF Versions
  <2> QED BY <1>1, <2>2, <2>3 DEF OneActiveVersion, Exists, IsActive
<1> QED BY <1>1 DEF Versions

\* get_active: GetActive returns the active version, or 0 when there is none.
LEMMA GetActiveFinds ==
    ASSUME MaxVersion \in Nat \ {0}, TypeOK, OneActiveVersion
    PROVE  /\ GetActive \in 0 .. MaxVersion
           /\ GetActive # 0 => GetActive \in Versions /\ IsActive(GetActive)
           /\ \A v \in Versions : IsActive(v) => GetActive = v
<1> DEFINE active == {v \in Versions : rows[v].status = "active"}
<1>1. CASE active = {}
  <2>1. GetActive = 0
    BY <1>1 DEF GetActive
  <2> QED BY <1>1, <2>1 DEF IsActive
<1>2. CASE active # {}
  <2>1. PICK v \in active : TRUE
    BY <1>2
  <2>2. \A w \in active : w = v
    BY <2>1, ActiveIsUnique DEF IsActive
  <2>3. \A w \in active : w <= v
    BY <2>1, <2>2 DEF Versions
  <2>4. GetActive = CHOOSE x \in active : \A w \in active : w <= x
    BY <1>2 DEF GetActive
  <2>5. GetActive \in active
    BY <2>1, <2>3, <2>4
  <2>6. GetActive \in 0 .. MaxVersion /\ GetActive # 0
    BY <2>5 DEF Versions
  <2> QED BY <2>2, <2>5, <2>6 DEF IsActive
<1> QED BY <1>1, <1>2

-----------------------------------------------------------------------------
(* Steps that leave the table alone: what is to be shown is about the      *)
(* request of one editor.                                                  *)

\* put: an editor's request changes and the table does not.  The history stands,
\* and what the other requests name, hold and carry stays true.
LEMMA OneRequestMoves ==
    ASSUME SchemaInv, TypeOK', NEW e \in Editors, UNCHANGED rows,
           \A f \in Editors \ {e} : put'[f] = put[f],
           put'[e].base # 0 => Exists(put'[e].base),
           put'[e].current # 0 => Exists(put'[e].current),
           put'[e].pc = "waiting" => put'[e].current # 0,
           put'[e].pc = "locked" /\ put'[e].current # 0 =>
               /\ IsActive(put'[e].current)
               /\ \A f \in Editors \ {e} :
                    put[f].pc = "locked" => put[f].current # put'[e].current,
           put'[e].pc \in Checked /\ put'[e].base # 0 /\ IsActive(put'[e].base)
               => rows[put'[e].base].types \subseteq put'[e].types
    PROVE  SchemaInv'
<1>1. OneActiveVersion' /\ TypesAreNeverRemoved'
  BY DEF SchemaInv, OneActiveVersion, TypesAreNeverRemoved
<1>2. Named'
  BY DEF SchemaInv, Named, Exists
<1>3. Locks'
  <2>1. \A f \in Editors : put'[f].pc = "waiting" => put'[f].current # 0
    BY DEF SchemaInv, Locks
  <2>2. \A f \in Editors :
          put'[f].pc = "locked" /\ put'[f].current # 0 => IsActive(put[f].current)'
    BY DEF SchemaInv, Locks, IsActive
  <2>3. \A f, g \in Editors :
          put'[f].pc = "locked" /\ put'[g].pc = "locked" /\ put'[f].current # 0
              /\ put'[f].current = put'[g].current => f = g
    <3> SUFFICES ASSUME NEW f \in Editors, NEW g \in Editors, f # g,
                        put'[f].pc = "locked", put'[g].pc = "locked",
                        put'[f].current # 0, put'[f].current = put'[g].current
                 PROVE  FALSE
      OBVIOUS
    <3>1. CASE f = e
      BY <3>1
    <3>2. CASE g = e
      BY <3>2
    <3>3. CASE f # e /\ g # e
      BY <3>3 DEF SchemaInv, Locks
    <3> QED BY <3>1, <3>2, <3>3
  <2> QED BY <2>1, <2>2, <2>3 DEF Locks
<1>4. Compatible'
  BY DEF SchemaInv, Compatible, IsActive
<1> QED BY <1>1, <1>2, <1>3, <1>4 DEF SchemaInv

\* apply_runtime_override and its callers: steps that change neither the table nor
\* a request keep the invariant.
LEMMA NoRequestMoves ==
    ASSUME SchemaInv, TypeOK', UNCHANGED <<rows, put>>
    PROVE  SchemaInv'
BY DEF SchemaInv, OneActiveVersion, TypesAreNeverRemoved, Named, Locks, Compatible,
       Exists, IsActive

\* The parts of TypeOK
PutType == [pc: PutStates, on: Procs, types: Schemas, base: 0 .. MaxVersion,
            current: 0 .. MaxVersion]
TaskType == [at: {"none", "select", "apply"}, types: Schemas]

PutsTyped == put \in [Editors -> PutType]
RowType == [status: {"none", "active", "deprecated"}, types: Schemas]
RowsTyped == rows \in [Versions -> RowType]
LoaderTyped ==
    runtime \in [Procs -> Schemas] /\ loaded \in [Procs -> [full: BOOLEAN, types: Schemas]]
TasksTyped == reload \in [Procs -> [Versions -> TaskType]] /\ crossed \in BOOLEAN

\* TypeOK is the conjunction of its parts: requests, table, loaders and tasks.
LEMMA TypeParts == TypeOK <=> PutsTyped /\ RowsTyped /\ LoaderTyped /\ TasksTyped
BY DEF TypeOK, PutsTyped, RowsTyped, LoaderTyped, TasksTyped, PutType, RowType, TaskType

\* NoPut, the request of an idle editor, is well typed, and so is a request that
\* goes on to another step or has found its current version.
LEMMA PutTypes ==
    ASSUME MaxVersion \in Nat \ {0}, Procs # {}
    PROVE  /\ NoPut \in PutType
           /\ \A r \in PutType, pc \in PutStates, v \in 0 .. MaxVersion :
                [r EXCEPT !.pc = pc] \in PutType /\ [r EXCEPT !.pc = pc, !.current = v] \in PutType
<1>1. NoPut \in PutType
  BY DEF NoPut, PutType, PutStates, Schemas
<1>2. ASSUME NEW r \in PutType, NEW pc \in PutStates, NEW v \in 0 .. MaxVersion
      PROVE  [r EXCEPT !.pc = pc] \in PutType /\ [r EXCEPT !.pc = pc, !.current = v] \in PutType
  BY DEF PutType
<1> QED BY <1>1, <1>2

\* put: the answer, and the next step, of a request.
LEMMA RequestType ==
    ASSUME MaxVersion \in Nat \ {0}, Procs # {}, PutsTyped, NEW e \in Editors
    PROVE  /\ Answer(e) => PutsTyped'
           /\ \A pc \in PutStates : Go(e, pc) => PutsTyped'
<1>1. Answer(e) => PutsTyped'
  BY PutTypes DEF Answer, PutsTyped
<1>2. ASSUME NEW pc \in PutStates, Go(e, pc) PROVE PutsTyped'
  <2>1. put[e] \in PutType
    BY DEF PutsTyped
  <2>2. 0 \in 0 .. MaxVersion
    OBVIOUS
  <2>3. [put[e] EXCEPT !.pc = pc] \in PutType
    BY <2>1, <2>2, PutTypes
  <2> QED BY <1>2, <2>3 DEF Go, PutsTyped
<1> QED BY <1>1, <1>2

\* apply_runtime_override keeps the loader well typed.
LEMMA LoaderType ==
    ASSUME LoaderTyped, NEW p \in Procs, NEW types \in Schemas, ApplyRuntimeOverride(p, types)
    PROVE  LoaderTyped'
<1>1. NotLoaded \in [full: BOOLEAN, types: Schemas]
  BY DEF NotLoaded, Schemas
<1> QED BY <1>1 DEF LoaderTyped, ApplyRuntimeOverride

\* Every step of the handlers, of the tasks and of the loader keeps the types.
LEMMA TypeStep ==
    ASSUME MaxVersion \in Nat \ {0}, Procs # {}, SchemaInv, Next
    PROVE  TypeOK'
<1>0. GetActive \in 0 .. MaxVersion /\ (GetActive # 0 => GetActive \in Versions)
  BY GetActiveFinds DEF SchemaInv
<1>t. PutsTyped /\ RowsTyped /\ LoaderTyped /\ TasksTyped
  BY TypeParts DEF SchemaInv
<1>1. TypesOf(GetActive) \in Schemas
  BY <1>0, <1>t DEF TypesOf, Schemas, RowsTyped, RowType
<1>e. {"structure", "compat", "select", "waiting", "locked", "apply"} \subseteq PutStates
  BY DEF PutStates
<1>2. ASSUME NEW e \in Editors, NEW p \in Procs, NEW types \in Schemas, NEW base \in Shown,
             PutSchema(e, p, types, base)
      PROVE  TypeOK'
  <2>1. base \in 0 .. MaxVersion
    BY <1>2 DEF Shown, Versions
  <2>2. [NoPut EXCEPT !.pc = "structure", !.on = p, !.types = types, !.base = base] \in PutType
    BY <2>1, <1>e, PutTypes DEF PutType
  <2>3. PutsTyped'
    BY <1>2, <1>t, <2>2 DEF PutSchema, PutsTyped
  <2> QED BY <1>2, <1>t, <2>3, TypeParts
          DEF PutSchema, RowsTyped, LoaderTyped, TasksTyped, TypeOK, PutType, RowType, TaskType, PutsTyped
<1>3. ASSUME NEW e \in Editors, ValidateStructure(e) \/ CheckCompat(e) \/ Conflict(e)
      PROVE  TypeOK'
  <2>1. PutsTyped'
    BY <1>3, <1>t, <1>e, RequestType DEF ValidateStructure, CheckCompat, Conflict
  <2> QED BY <1>3, <1>t, <2>1
          DEF ValidateStructure, CheckCompat, Conflict, RowsTyped, LoaderTyped, TasksTyped,
              TypeOK, PutType, RowType, TaskType, PutsTyped
<1>4. ASSUME NEW e \in Editors, SelectForUpdate(e) \/ Wake(e) PROVE TypeOK'
  <2>1. put[e] \in PutType /\ put[e].current \in 0 .. MaxVersion
    BY <1>t DEF PutsTyped, PutType
  <2>2. \E pc \in PutStates, v \in 0 .. MaxVersion :
          put' = [put EXCEPT ![e] = [put[e] EXCEPT !.pc = pc, !.current = v]]
    <3>1. CASE SelectForUpdate(e)
      <4> DEFINE pc == IF GetActive # 0 /\ Locked(GetActive) THEN "waiting" ELSE "locked"
      <4>1. put' = [put EXCEPT ![e] = [put[e] EXCEPT !.pc = pc, !.current = GetActive]]
        BY <3>1, <1>t, <2>1 DEF SelectForUpdate, PutsTyped, PutType
      <4>2. pc \in PutStates
        BY <1>e
      <4> HIDE DEF pc
      <4> QED BY <4>1, <4>2, <1>0
    <3>2. CASE Wake(e)
      <4> DEFINE v == IF rows[put[e].current].status = "active" THEN put[e].current ELSE 0
      <4>1. put' = [put EXCEPT ![e] = [put[e] EXCEPT !.pc = "locked", !.current = v]]
        BY <3>2, <1>t, <2>1 DEF Wake, PutsTyped, PutType
      <4>2. v \in 0 .. MaxVersion
        BY <2>1
      <4> HIDE DEF v
      <4> QED BY <4>1, <4>2, <1>e
    <3> QED BY <1>4, <3>1, <3>2
  <2>3. PutsTyped'
    <3>1. PICK pc \in PutStates, v \in 0 .. MaxVersion :
            put' = [put EXCEPT ![e] = [put[e] EXCEPT !.pc = pc, !.current = v]]
      BY <2>2
    <3> DEFINE r == [put[e] EXCEPT !.pc = pc, !.current = v]
    <3>2. r \in PutType
      BY <2>1, PutTypes
    <3>3. put' = [put EXCEPT ![e] = r]
      BY <3>1
    <3> HIDE DEF r
    <3> QED BY <3>2, <3>3, <1>t DEF PutsTyped
  <2> QED BY <1>4, <1>t, <2>3
          DEF SelectForUpdate, Wake, RowsTyped, LoaderTyped, TasksTyped,
              TypeOK, PutType, RowType, TaskType, PutsTyped
<1>5. ASSUME NEW e \in Editors, InsertNewActive(e) PROVE TypeOK'
  <2>0. put[e].types \in Schemas
    BY <1>t DEF PutsTyped, PutType
  <2>1. RowsTyped'
    <3>1. [status |-> "active", types |-> put[e].types] \in RowType
      BY <2>0 DEF RowType
    <3>2. ASSUME NEW w \in Versions
          PROVE  rows[w] \in RowType /\ [rows[w] EXCEPT !.status = "deprecated"] \in RowType
      BY <1>t DEF RowsTyped, RowType
    <3> QED BY <1>5, <3>1, <3>2 DEF InsertNewActive, RowsTyped
  <2>2. TasksTyped'
    <3>1. PICK v \in Versions :
            reload' = [p \in Procs |-> [reload[p] EXCEPT ![v].at = "select"]]
      BY <1>5 DEF InsertNewActive
    <3>2. ASSUME NEW p \in Procs
          PROVE  [reload[p] EXCEPT ![v].at = "select"] \in [Versions -> TaskType]
      <4>1. reload[p] \in [Versions -> TaskType] /\ reload[p][v] \in TaskType
        BY <1>t DEF TasksTyped
      <4>2. [reload[p][v] EXCEPT !.at = "select"] \in TaskType
        BY <4>1 DEF TaskType
      <4> QED BY <4>1, <4>2
    <3>3. crossed' \in BOOLEAN
      BY <1>5 DEF InsertNewActive, Overtaken
    <3> QED BY <3>1, <3>2, <3>3 DEF TasksTyped
  <2>3. PutsTyped'
    BY <1>5, <1>t, <1>e, RequestType DEF InsertNewActive
  <2>4. LoaderTyped'
    BY <1>5, <1>t DEF InsertNewActive, LoaderTyped
  <2> QED BY <2>1, <2>2, <2>3, <2>4
          DEF RowsTyped, LoaderTyped, TasksTyped, TypeOK, PutType, RowType, TaskType, PutsTyped
<1>6. ASSUME NEW e \in Editors, RuntimeApply(e) PROVE TypeOK'
  <2>1. put[e].on \in Procs /\ put[e].types \in Schemas
    BY <1>t DEF PutsTyped, PutType
  <2>2. PutsTyped' /\ LoaderTyped'
    BY <1>6, <1>t, <2>1, RequestType, LoaderType DEF RuntimeApply
  <2> QED BY <1>6, <1>t, <2>2
          DEF RuntimeApply, RowsTyped, LoaderTyped, TasksTyped, TypeOK, PutType, RowType, TaskType, PutsTyped
<1>7. ASSUME NEW p \in Procs, Validate(p) PROVE TypeOK'
  <2>1. LoaderTyped'
    BY <1>7, <1>t DEF Validate, LoaderTyped
  <2> QED BY <1>7, <1>t, <2>1
          DEF Validate, RowsTyped, LoaderTyped, TasksTyped, TypeOK, PutType, RowType, TaskType, PutsTyped
<1>8. ASSUME NEW p \in Procs, NEW v \in Versions, ReloadSelect(p, v) \/ ReloadApply(p, v)
      PROVE  TypeOK'
  <2>1. PICK r \in TaskType : reload' = [reload EXCEPT ![p][v] = r]
    <3>1. [at |-> "apply", types |-> TypesOf(GetActive)] \in TaskType /\ NoTask \in TaskType
      BY <1>1 DEF TaskType, NoTask, Schemas
    <3> QED BY <1>8, <3>1 DEF ReloadSelect, ReloadApply
  <2>2. reload' \in [Procs -> [Versions -> TaskType]]
    BY <2>1, <1>t DEF TasksTyped
  <2>3. reload[p][v].types \in Schemas
    BY <1>t DEF TasksTyped, TaskType
  <2>4. LoaderTyped'
    BY <1>8, <1>t, <2>3, LoaderType DEF ReloadSelect, ReloadApply, LoaderTyped
  <2> QED BY <1>8, <1>t, <2>2, <2>4
          DEF ReloadSelect, ReloadApply, RowsTyped, LoaderTyped, TasksTyped,
              TypeOK, PutType, RowType, TaskType, PutsTyped
<1> QED BY <1>2, <1>3, <1>4, <1>5, <1>6, <1>7, <1>8 DEF Next

-----------------------------------------------------------------------------
(* The step that adds a version.                                           *)

\* insert_new_active: the version that a lock holder inserts comes right after the
\* newest one, and the insert leaves it as the only active one.
LEMMA InsertedIsNewest ==
    ASSUME MaxVersion \in Nat \ {0}, SchemaInv, NEW e \in Editors, InsertNewActive(e)
    PROVE  /\ NewVersion(e) \in Versions /\ ~Exists(NewVersion(e))
           /\ put[e].current = 0 => \A w \in Versions : ~Exists(w)
           /\ \A w \in Versions :
                /\ w < NewVersion(e) =>
                     /\ Exists(w) /\ rows'[w].types = rows[w].types
                     /\ rows'[w].status # "none" /\ rows'[w].status # "active"
                /\ w = NewVersion(e) =>
                     rows'[w].status = "active" /\ rows'[w].types = put[e].types
                /\ w > NewVersion(e) => rows'[w].status = "none"
<1> DEFINE v == NewVersion(e)
           c == put[e].current
<1>1. c \in 0 .. MaxVersion /\ v = c + 1
  BY DEF SchemaInv, TypeOK, NewVersion
<1>2. v \in Versions /\ ~Exists(v)
  BY DEF InsertNewActive, Exists
<1>3. \A w \in Versions : w > v => ~Exists(w)
  BY <1>1, <1>2 DEF SchemaInv, OneActiveVersion, Exists, Versions
<1>4. c # 0 => c \in Versions /\ IsActive(c)
  BY <1>1 DEF SchemaInv, Locks, InsertNewActive, Versions
<1>5. \A w \in Versions : w < v => Exists(w)
  <2> SUFFICES ASSUME NEW w \in Versions, w < v PROVE Exists(w)
    OBVIOUS
  <2>1. c # 0 /\ w <= c
    BY <1>1 DEF Versions
  <2>2. Exists(c) /\ (\A u \in 1 .. (c - 1) : Exists(u))
    BY <2>1, <1>4 DEF SchemaInv, OneActiveVersion, Exists, IsActive
  <2> QED BY <2>1, <2>2, <1>1 DEF Versions
<1>6. \A w \in Versions : w < c => ~IsActive(w)
  BY <1>1, <1>4, ActiveIsUnique DEF SchemaInv, Versions
<1>7. rows' = [w \in Versions |->
                IF w = v THEN [status |-> "active", types |-> put[e].types]
                ELSE IF w = c THEN [rows[w] EXCEPT !.status = "deprecated"]
                ELSE rows[w]]
  BY DEF InsertNewActive
<1>8. ASSUME NEW w \in Versions, w < v
      PROVE  /\ rows'[w].types = rows[w].types
             /\ rows'[w].status # "none" /\ rows'[w].status # "active"
  <2>0. rows[w] \in [status: {"none", "active", "deprecated"}, types: Schemas]
    BY DEF SchemaInv, TypeOK
  <2>1. CASE w = c
    <3>1. rows'[w] = [rows[w] EXCEPT !.status = "deprecated"]
      BY <1>7, <1>8, <2>1 DEF Versions
    <3> QED BY <2>0, <3>1
  <2>2. CASE w # c
    <3>1. rows'[w] = rows[w] /\ w < c
      BY <1>1, <1>7, <1>8, <2>2 DEF Versions
    <3> QED BY <3>1, <1>5, <1>6, <1>8 DEF Exists, IsActive
  <2> QED BY <2>1, <2>2
<1>9. rows'[v].status = "active" /\ rows'[v].types = put[e].types
  BY <1>2, <1>7
<1>10. \A w \in Versions : w > v => rows'[w].status = "none"
  BY <1>1, <1>3, <1>7 DEF Exists, Versions
<1>11. c = 0 => \A w \in Versions : ~Exists(w)
  BY <1>1, <1>2, <1>3 DEF Versions
<1> QED BY <1>2, <1>5, <1>8, <1>9, <1>10, <1>11

\* insert_new_active keeps the history, and leaves no other request with a lock.
LEMMA InsertKeeps ==
    ASSUME MaxVersion \in Nat \ {0}, SchemaInv, TypeOK', NEW e \in Editors, InsertNewActive(e)
    PROVE  SchemaInv'
<1> DEFINE v == NewVersion(e)
           c == put[e].current
<1>1. /\ v \in Versions /\ ~Exists(v)
      /\ c = 0 => \A w \in Versions : ~Exists(w)
  BY InsertedIsNewest
<1>2. \A w \in Versions : w < v =>
        /\ Exists(w) /\ rows'[w].types = rows[w].types
        /\ rows'[w].status # "none" /\ rows'[w].status # "active"
  BY InsertedIsNewest
<1>3. rows'[v].status = "active" /\ rows'[v].types = put[e].types
  BY <1>1, InsertedIsNewest
<1>4. \A w \in Versions : w > v => rows'[w].status = "none"
  BY InsertedIsNewest
<1>5. c \in 0 .. MaxVersion /\ v = c + 1 /\ put[e].base = c /\ put[e].pc = "locked"
  BY DEF SchemaInv, TypeOK, NewVersion, InsertNewActive, BaseMatches
<1>6. /\ \A f \in Editors : put'[f].base = put[f].base /\ put'[f].current = put[f].current
                            /\ put'[f].types = put[f].types
      /\ \A f \in Editors \ {e} : put'[f].pc = put[f].pc
      /\ put'[e].pc = "apply"
  BY DEF SchemaInv, TypeOK, InsertNewActive, Go
<1> HIDE DEF v, c
<1>7. OneActiveVersion'
  <2> SUFFICES ASSUME NEW w \in Versions, rows'[w].status # "none"
               PROVE  /\ \A u \in 1 .. (w - 1) : rows'[u].status # "none"
                      /\ rows'[w].status = "active"
                            <=> (w = MaxVersion \/ rows'[w + 1].status = "none")
    BY DEF OneActiveVersion, Versions
  <2>1. w <= v
    BY <1>1, <1>4 DEF Versions
  <2>2. \A u \in 1 .. (w - 1) : rows'[u].status # "none"
    BY <2>1, <1>1, <1>2 DEF Versions
  <2>3. CASE w = v
    BY <2>2, <2>3, <1>1, <1>3, <1>4 DEF Versions
  <2>4. CASE w # v
    <3>1. w < v /\ w + 1 \in Versions /\ w + 1 <= v /\ w # MaxVersion
      BY <2>1, <2>4, <1>1 DEF Versions
    <3>2. rows'[w + 1].status # "none"
      BY <3>1, <1>1, <1>2, <1>3 DEF Versions
    <3> QED BY <2>2, <3>1, <3>2, <1>2
  <2> QED BY <2>3, <2>4
<1>8. TypesAreNeverRemoved'
  <2> SUFFICES ASSUME NEW w \in Versions, w < MaxVersion, rows'[w + 1].status # "none"
               PROVE  rows'[w].types \subseteq rows'[w + 1].types
    BY DEF TypesAreNeverRemoved, Versions
  <2>1. w + 1 \in Versions /\ w + 1 <= v /\ w < v
    BY <1>1, <1>4 DEF Versions
  <2>2. CASE w + 1 < v
    BY <2>1, <2>2, <1>2 DEF SchemaInv, TypesAreNeverRemoved, Exists
  <2>3. CASE w + 1 = v
    <3>1. w = c /\ c # 0
      BY <2>3, <1>5 DEF Versions
    <3>2. IsActive(c)
      BY <3>1, <1>5 DEF SchemaInv, Locks, c
    <3>3. rows[c].types \subseteq put[e].types
      BY <3>1, <3>2, <1>5 DEF SchemaInv, Compatible, Checked
    <3> QED BY <2>1, <2>3, <3>1, <3>3, <1>2, <1>3
  <2> QED BY <2>1, <2>2, <2>3, <1>1 DEF Versions
<1>9. \A w \in Versions : Exists(w) => Exists(w)'
  BY <1>1, <1>2, <1>3, <1>4, <1>5 DEF Exists, Versions, SchemaInv, OneActiveVersion
<1>10. \A f \in Editors :
         /\ put[f].base \in 0 .. MaxVersion /\ put[f].current \in 0 .. MaxVersion
         /\ put[f].base # 0 => put[f].base \in Versions /\ Exists(put[f].base)
         /\ put[f].current # 0 => put[f].current \in Versions /\ Exists(put[f].current)
  BY DEF SchemaInv, TypeOK, Named, Versions
<1>11. Named'
  BY <1>6, <1>9, <1>10 DEF Named, Exists
<1>12. \A f \in Editors : put'[f].pc = "locked" => put'[f].current = 0
  <2> SUFFICES ASSUME NEW f \in Editors, put'[f].pc = "locked", put[f].current # 0
               PROVE  FALSE
    BY <1>6
  <2>1. f # e /\ put[f].pc = "locked"
    BY <1>6
  <2>2. c # 0
    BY <1>1, <1>10
  <2>3. IsActive(c) /\ c \in Versions
    BY <2>2, <1>5, <1>10 DEF SchemaInv, Locks, c
  <2>4. IsActive(put[f].current)
    BY <2>1 DEF SchemaInv, Locks
  <2>5. put[f].current = c
    BY <2>3, <2>4, <1>10, ActiveIsUnique DEF SchemaInv
  <2> QED BY <2>1, <2>2, <2>5, <1>5 DEF SchemaInv, Locks, c
<1>13. Locks'
  <2>1. \A f \in Editors : put'[f].pc = "waiting" => put'[f].current # 0
    BY <1>6 DEF SchemaInv, Locks
  <2> QED BY <2>1, <1>12 DEF Locks
<1>14. Compatible'
  <2> SUFFICES ASSUME NEW f \in Editors, put'[f].pc \in Checked, put'[f].base # 0,
                      IsActive(put[f].base)'
               PROVE  FALSE
    BY DEF Compatible
  <2>1. put[f].base \in Versions /\ Exists(put[f].base) /\ rows'[put[f].base].status = "active"
    BY <1>6, <1>10 DEF IsActive
  <2>2. put[f].base = v
    BY <2>1, <1>1, <1>2, <1>4 DEF Versions
  <2> QED BY <2>1, <2>2, <1>1
<1> QED BY <1>7, <1>8, <1>11, <1>13, <1>14 DEF SchemaInv

-----------------------------------------------------------------------------

\* put_schema and the tasks of the notifications: every step keeps the invariant.
LEMMA SchemaStep ==
    ASSUME MaxVersion \in Nat \ {0}, Procs # {}, SchemaInv, Next
    PROVE  SchemaInv'
<1>0. TypeOK'
  BY TypeStep
<1>a. /\ GetActive \in 0 .. MaxVersion
      /\ GetActive # 0 => GetActive \in Versions /\ IsActive(GetActive)
      /\ \A v \in Versions : IsActive(v) => GetActive = v
  BY GetActiveFinds DEF SchemaInv
<1>b. \A f \in Editors : put[f].base \in 0 .. MaxVersion /\ put[f].current \in 0 .. MaxVersion
  BY DEF SchemaInv, TypeOK
<1>n. NoPut.pc = "idle" /\ NoPut.base = 0 /\ NoPut.current = 0
  BY DEF NoPut
<1>1. ASSUME NEW e \in Editors, Answer(e), UNCHANGED rows PROVE SchemaInv'
  <2>1. put'[e] = NoPut /\ \A f \in Editors \ {e} : put'[f] = put[f]
    BY <1>1 DEF Answer, SchemaInv, TypeOK
  <2> QED BY <1>0, <1>1, <1>n, <2>1, OneRequestMoves DEF Checked
<1>2. ASSUME NEW e \in Editors, NEW p \in Procs, NEW types \in Schemas, NEW base \in Shown,
             PutSchema(e, p, types, base)
      PROVE  SchemaInv'
  <2>1. /\ put'[e] = [NoPut EXCEPT !.pc = "structure", !.on = p, !.types = types, !.base = base]
        /\ \A f \in Editors \ {e} : put'[f] = put[f]
        /\ UNCHANGED rows
    BY <1>2 DEF PutSchema, SchemaInv, TypeOK
  <2>2. put'[e].pc = "structure" /\ put'[e].base = base /\ put'[e].current = 0
    BY <2>1 DEF NoPut
  <2>3. base # 0 => Exists(base)
    BY DEF Shown, Exists
  <2> QED BY <1>0, <2>1, <2>2, <2>3, OneRequestMoves DEF Checked
<1>3. ASSUME NEW e \in Editors, ValidateStructure(e) PROVE SchemaInv'
  <2>1. CASE Answer(e)
    BY <1>1, <1>3, <2>1 DEF ValidateStructure
  <2>2. CASE Go(e, "compat")
    <3>1. /\ put'[e] = [put[e] EXCEPT !.pc = "compat"]
          /\ \A f \in Editors \ {e} : put'[f] = put[f]
          /\ UNCHANGED rows
      BY <1>3, <2>2 DEF ValidateStructure, Go, SchemaInv, TypeOK
    <3>2. put'[e].pc = "compat" /\ put'[e].base = put[e].base /\ put'[e].current = put[e].current
      BY <3>1 DEF SchemaInv, TypeOK
    <3> QED BY <1>0, <3>1, <3>2, OneRequestMoves DEF Checked, SchemaInv, Named
  <2> QED BY <1>3, <2>1, <2>2 DEF ValidateStructure
<1>4. ASSUME NEW e \in Editors, CheckCompat(e) PROVE SchemaInv'
  <2>1. CASE Answer(e)
    BY <1>1, <1>4, <2>1 DEF CheckCompat
  <2>2. CASE Go(e, "select") /\ RemovedInputTypes(TypesOf(GetActive), put[e].types) = {}
    <3>1. /\ put'[e] = [put[e] EXCEPT !.pc = "select"]
          /\ \A f \in Editors \ {e} : put'[f] = put[f]
          /\ UNCHANGED rows
      BY <1>4, <2>2 DEF CheckCompat, Go, SchemaInv, TypeOK
    <3>2. /\ put'[e].pc = "select" /\ put'[e].base = put[e].base
          /\ put'[e].current = put[e].current /\ put'[e].types = put[e].types
      BY <3>1 DEF SchemaInv, TypeOK
    <3>3. ASSUME put[e].base # 0, IsActive(put[e].base)
          PROVE  rows[put[e].base].types \subseteq put[e].types
      <4>1. GetActive = put[e].base
        BY <1>a, <1>b, <3>3 DEF Versions
      <4> QED BY <2>2, <3>3, <4>1 DEF RemovedInputTypes, TypesOf
    <3> QED BY <1>0, <3>1, <3>2, <3>3, OneRequestMoves DEF SchemaInv, Named
  <2> QED BY <1>4, <2>1, <2>2 DEF CheckCompat
<1>5. ASSUME NEW e \in Editors, SelectForUpdate(e) PROVE SchemaInv'
  <2>1. /\ put'[e] = [put[e] EXCEPT !.current = GetActive,
                         !.pc = IF GetActive # 0 /\ Locked(GetActive) THEN "waiting" ELSE "locked"]
        /\ \A f \in Editors \ {e} : put'[f] = put[f]
        /\ UNCHANGED rows
    BY <1>5 DEF SelectForUpdate, SchemaInv, TypeOK
  <2>2. /\ put'[e].pc = IF GetActive # 0 /\ Locked(GetActive) THEN "waiting" ELSE "locked"
        /\ put'[e].base = put[e].base /\ put'[e].current = GetActive
        /\ put'[e].types = put[e].types
    BY <2>1 DEF SchemaInv, TypeOK
  <2>3. GetActive # 0 => Exists(GetActive)
    BY <1>a DEF Exists, IsActive
  <2>4. put[e].base # 0 /\ IsActive(put[e].base) => rows[put[e].base].types \subseteq put[e].types
    BY <1>5 DEF SelectForUpdate, SchemaInv, Compatible, Checked
  <2>5. put'[e].pc = "locked" /\ GetActive # 0 =>
          \A f \in Editors \ {e} : put[f].pc = "locked" => put[f].current # GetActive
    BY <2>2 DEF Locked
  <2>6. put[e].base # 0 => Exists(put[e].base)
    BY DEF SchemaInv, Named
  <2> QED BY <1>0, <1>a, <2>1, <2>2, <2>3, <2>4, <2>5, <2>6, OneRequestMoves
<1>6. ASSUME NEW e \in Editors, Wake(e) PROVE SchemaInv'
  <2> DEFINE c == put[e].current
  <2>1. /\ put'[e] = [put[e] EXCEPT !.pc = "locked",
                         !.current = IF rows[c].status = "active" THEN c ELSE 0]
        /\ \A f \in Editors \ {e} : put'[f] = put[f]
        /\ UNCHANGED rows
    BY <1>6 DEF Wake, SchemaInv, TypeOK
  <2>2. /\ put'[e].pc = "locked" /\ put'[e].base = put[e].base
        /\ put'[e].current = IF rows[c].status = "active" THEN c ELSE 0
        /\ put'[e].types = put[e].types
    BY <2>1 DEF SchemaInv, TypeOK
  <2>3. put[e].base # 0 /\ IsActive(put[e].base) => rows[put[e].base].types \subseteq put[e].types
    BY <1>6 DEF Wake, SchemaInv, Compatible, Checked
  <2>4. \A f \in Editors : put[f].pc = "locked" => put[f].current # c
    BY <1>6 DEF Wake, Locked
  <2>5. (put[e].base # 0 => Exists(put[e].base)) /\ (c # 0 => Exists(c))
    BY DEF SchemaInv, Named
  <2> HIDE DEF c
  <2>6. put'[e].current # 0 => put'[e].current = c /\ IsActive(c)
    BY <2>2 DEF IsActive
  <2>7. put'[e].current # 0 =>
          /\ IsActive(put'[e].current) /\ Exists(put'[e].current)
          /\ \A f \in Editors \ {e} : put[f].pc = "locked" => put[f].current # put'[e].current
    BY <2>4, <2>5, <2>6
  <2> QED BY <1>0, <2>1, <2>2, <2>3, <2>5, <2>7, OneRequestMoves
<1>7. ASSUME NEW e \in Editors, Conflict(e) \/ RuntimeApply(e) PROVE SchemaInv'
  BY <1>1, <1>7 DEF Conflict, RuntimeApply
<1>8. ASSUME NEW e \in Editors, InsertNewActive(e) PROVE SchemaInv'
  BY <1>0, <1>8, InsertKeeps
<1>9. ASSUME NEW p \in Procs, Validate(p) PROVE SchemaInv'
  BY <1>0, <1>9, NoRequestMoves DEF Validate
<1>10. ASSUME NEW p \in Procs, NEW v \in Versions, ReloadSelect(p, v) \/ ReloadApply(p, v)
       PROVE  SchemaInv'
  BY <1>0, <1>10, NoRequestMoves DEF ReloadSelect, ReloadApply
<1> QED BY <1>2, <1>3, <1>4, <1>5, <1>6, <1>7, <1>8, <1>9, <1>10 DEF Next

\* A tenant without a schema: no row, no request, no task.
LEMMA SchemaInit ==
    ASSUME MaxVersion \in Nat \ {0}, Procs # {}, Init
    PROVE  SchemaInv
<1>1. PutsTyped
  BY PutTypes DEF Init, PutsTyped
<1>2. RowsTyped /\ LoaderTyped /\ TasksTyped
  BY DEF Init, RowsTyped, RowType, LoaderTyped, TasksTyped, TaskType, NoRow, NotLoaded, NoTask,
         Schemas
<1>3. OneActiveVersion /\ TypesAreNeverRemoved
  BY DEF Init, NoRow, OneActiveVersion, TypesAreNeverRemoved, Versions
<1>4. \A e \in Editors : put[e].pc = "idle" /\ put[e].base = 0 /\ put[e].current = 0
  BY DEF Init, NoPut
<1>5. Named /\ Locks /\ Compatible
  BY <1>4 DEF Named, Locks, Compatible, Checked
<1> QED BY <1>1, <1>2, <1>3, <1>5, TypeParts DEF SchemaInv

\* A step that changes nothing of the schemas keeps the invariant.
LEMMA SchemaStutter ==
    ASSUME SchemaInv, UNCHANGED schemaVars
    PROVE  SchemaInv'
<1>1. TypeOK'
  BY DEF SchemaInv, TypeOK, schemaVars
<1> QED BY <1>1, NoRequestMoves DEF schemaVars

-----------------------------------------------------------------------------
(* The schema in force.  Between a commit and the end of its tasks a       *)
(* process may validate with an older version; what is invariant is that   *)
(* whoever is about to apply a schema carries the active one, and that a   *)
(* process without a task left has it already.                             *)

ActiveTypes == TypesOf(GetActive)

Carried ==
    /\ \A e \in Editors : put[e].pc = "apply" => put[e].types = ActiveTypes
    /\ \A p \in Procs, v \in Versions :
        reload[p][v].at = "apply" => reload[p][v].types = ActiveTypes

Applied ==
    \A p \in Procs :
        (\A v \in Versions : reload[p][v].at = "none") => runtime[p] = ActiveTypes

Cached == \A p \in Procs : loaded[p].full => loaded[p].types = runtime[p]

InForceInv == Cached /\ (~crossed => Carried /\ Applied)

\* apply_runtime_override: the process validates with what was applied, and no
\* longer with what it had cached.
LEMMA OverrideApplies ==
    ASSUME TypeOK, NEW p \in Procs, NEW types, ApplyRuntimeOverride(p, types)
    PROVE  /\ runtime'[p] = types /\ loaded'[p].full = FALSE
           /\ \A q \in Procs \ {p} : runtime'[q] = runtime[q] /\ loaded'[q] = loaded[q]
BY DEF ApplyRuntimeOverride, TypeOK, NotLoaded

\* insert_new_active: the version that was inserted is the active one.
LEMMA InsertedIsActive ==
    ASSUME MaxVersion \in Nat \ {0}, SchemaInv, NEW e \in Editors, InsertNewActive(e)
    PROVE  ActiveTypes' = put[e].types
<1> DEFINE v == NewVersion(e)
<1>1. v \in Versions /\ rows'[v].status = "active" /\ rows'[v].types = put[e].types
  BY InsertedIsNewest
<1>2. \A w \in Versions : w # v => rows'[w].status # "active"
  BY <1>1, InsertedIsNewest DEF Versions
<1>3. v # 0 /\ v <= v
  BY <1>1 DEF Versions
<1> HIDE DEF v
<1> DEFINE active == {w \in Versions : rows'[w].status = "active"}
<1>4. active = {v}
  BY <1>1, <1>2
<1> HIDE DEF active
<1>5. (CHOOSE w \in active : \A u \in active : u <= w) = v
  BY <1>3, <1>4
<1>6. GetActive' = v
  BY <1>4, <1>5 DEF GetActive, active
<1> QED BY <1>1, <1>3, <1>6 DEF ActiveTypes, TypesOf

\* put_schema: a request that is not about to apply a schema goes on, and leaves
\* table, tasks and loaders alone.
LEMMA RequestAppliesNothing ==
    ASSUME InForceInv, NEW e \in Editors, UNCHANGED <<rows, runtime, loaded, reload, crossed>>,
           put'[e].pc # "apply", \A f \in Editors \ {e} : put'[f] = put[f]
    PROVE  InForceInv'
<1>1. ActiveTypes' = ActiveTypes
  BY DEF ActiveTypes, TypesOf, GetActive
<1>2. Cached' /\ (Applied => Applied')
  BY <1>1 DEF InForceInv, Cached, Applied
<1>3. Carried => Carried'
  BY <1>1 DEF Carried
<1> QED BY <1>2, <1>3 DEF InForceInv

\* _runtime_apply, reload_tenant_schema, validate, insert_new_active: every step
\* keeps what is known of the schemas in force.
LEMMA InForceStep ==
    ASSUME MaxVersion \in Nat \ {0}, SchemaInv, InForceInv, Next
    PROVE  InForceInv'
<1>t. TypeOK
  BY DEF SchemaInv
<1>a. UNCHANGED rows => ActiveTypes' = ActiveTypes
  BY DEF ActiveTypes, TypesOf, GetActive
<1>n. NoPut.pc = "idle" /\ NoTask.at = "none"
  BY DEF NoPut, NoTask
<1>1. ASSUME NEW e \in Editors, NEW p \in Procs, NEW types \in Schemas, NEW base \in Shown,
             PutSchema(e, p, types, base)
      PROVE  InForceInv'
  <2>1. put'[e].pc = "structure" /\ \A f \in Editors \ {e} : put'[f] = put[f]
    BY <1>1, <1>t DEF PutSchema, TypeOK, NoPut
  <2> QED BY <1>1, <2>1, RequestAppliesNothing DEF PutSchema
<1>2. ASSUME NEW e \in Editors,
             ValidateStructure(e) \/ CheckCompat(e) \/ SelectForUpdate(e) \/ Wake(e) \/ Conflict(e)
      PROVE  InForceInv'
  <2>1. UNCHANGED <<rows, runtime, loaded, reload, crossed>>
    BY <1>2 DEF ValidateStructure, CheckCompat, SelectForUpdate, Wake, Conflict
  <2>2. put'[e].pc # "apply" /\ \A f \in Editors \ {e} : put'[f] = put[f]
    BY <1>2, <1>t, <1>n DEF ValidateStructure, CheckCompat, SelectForUpdate, Wake, Conflict,
                            Answer, Go, TypeOK
  <2> QED BY <2>1, <2>2, RequestAppliesNothing
<1>3. ASSUME NEW e \in Editors, InsertNewActive(e) PROVE InForceInv'
  <2>1. ActiveTypes' = put[e].types
    BY <1>3, InsertedIsActive
  <2>2. /\ UNCHANGED <<runtime, loaded>> /\ crossed' = Overtaken
        /\ put' = [put EXCEPT ![e].pc = "apply"]
        /\ NewVersion(e) \in Versions
        /\ reload' = [p \in Procs |-> [reload[p] EXCEPT ![NewVersion(e)].at = "select"]]
    BY <1>3 DEF InsertNewActive, Go
  <2>3. PICK v \in Versions : v = NewVersion(e)
    BY <2>2
  <2>4. put'[e].types = put[e].types /\ \A f \in Editors \ {e} : put'[f] = put[f]
    BY <2>2, <1>t DEF TypeOK
  <2>5. \A p \in Procs :
          /\ reload'[p][v].at = "select"
          /\ \A w \in Versions \ {v} : reload'[p][w] = reload[p][w]
    BY <2>2, <2>3, <1>t DEF TypeOK
  <2>6. Cached'
    BY <2>2 DEF InForceInv, Cached
  <2>7. ~crossed' => Carried'
    BY <2>1, <2>2, <2>4, <2>5 DEF Carried, Overtaken
  <2>8. Applied'
    BY <2>5 DEF Applied
  <2> QED BY <2>6, <2>7, <2>8 DEF InForceInv
<1>4. ASSUME NEW e \in Editors, RuntimeApply(e) PROVE InForceInv'
  <2>1. /\ UNCHANGED <<rows, reload, crossed>> /\ put[e].pc = "apply"
        /\ ApplyRuntimeOverride(put[e].on, put[e].types)
    BY <1>4 DEF RuntimeApply
  <2>2. put'[e].pc # "apply" /\ \A f \in Editors \ {e} : put'[f] = put[f]
    BY <1>4, <1>t, <1>n DEF RuntimeApply, Answer, TypeOK
  <2>3. PICK p \in Procs : p = put[e].on
    BY <1>t DEF TypeOK
  <2>4. /\ runtime'[p] = put[e].types /\ loaded'[p].full = FALSE
        /\ \A q \in Procs \ {p} : runtime'[q] = runtime[q] /\ loaded'[q] = loaded[q]
    BY <2>1, <2>3, <1>t, OverrideApplies
  <2>5. Cached'
    BY <2>4 DEF InForceInv, Cached
  <2>6. Carried => Carried' /\ put[e].types = ActiveTypes
    BY <2>1, <2>2, <1>a DEF Carried
  <2>7. Carried /\ Applied => Applied'
    BY <2>1, <2>4, <2>6, <1>a DEF Applied
  <2> QED BY <2>1, <2>5, <2>6, <2>7 DEF InForceInv
<1>5. ASSUME NEW p \in Procs, Validate(p) PROVE InForceInv'
  <2>1. /\ UNCHANGED <<rows, put, runtime, reload, crossed>>
        /\ loaded'[p].types = runtime[p]
        /\ \A q \in Procs \ {p} : loaded'[q] = loaded[q]
    BY <1>5, <1>t DEF Validate, TypeOK
  <2>2. Cached'
    BY <2>1 DEF InForceInv, Cached
  <2>3. (Carried => Carried') /\ (Applied => Applied')
    BY <2>1, <1>a DEF Carried, Applied
  <2> QED BY <2>1, <2>2, <2>3 DEF InForceInv
<1>6. ASSUME NEW p \in Procs, NEW v \in Versions, ReloadSelect(p, v) PROVE InForceInv'
  <2>1. /\ UNCHANGED <<rows, put, runtime, loaded, crossed>> /\ reload[p][v].at = "select"
        /\ reload'[p][v].at = "apply" /\ reload'[p][v].types = ActiveTypes
        /\ \A w \in Versions \ {v} : reload'[p][w] = reload[p][w]
        /\ \A q \in Procs \ {p} : reload'[q] = reload[q]
    BY <1>6, <1>t DEF ReloadSelect, TypeOK, ActiveTypes
  <2>2. Cached'
    BY <2>1 DEF InForceInv, Cached
  <2>3. Carried => Carried'
    BY <2>1, <1>a DEF Carried
  <2>4. Applied => Applied'
    BY <2>1, <1>a DEF Applied
  <2> QED BY <2>1, <2>2, <2>3, <2>4 DEF InForceInv
<1>7. ASSUME NEW p \in Procs, NEW v \in Versions, ReloadApply(p, v) PROVE InForceInv'
  <2>1. /\ UNCHANGED <<rows, put, crossed>> /\ reload[p][v].at = "apply"
        /\ ApplyRuntimeOverride(p, reload[p][v].types)
        /\ reload'[p][v].at = "none"
        /\ \A w \in Versions \ {v} : reload'[p][w] = reload[p][w]
        /\ \A q \in Procs \ {p} : reload'[q] = reload[q]
    BY <1>7, <1>t, <1>n DEF ReloadApply, TypeOK
  <2>2. /\ runtime'[p] = reload[p][v].types /\ loaded'[p].full = FALSE
        /\ \A q \in Procs \ {p} : runtime'[q] = runtime[q] /\ loaded'[q] = loaded[q]
    BY <2>1, <1>t, OverrideApplies
  <2>3. Cached'
    BY <2>2 DEF InForceInv, Cached
  <2>4. Carried => Carried' /\ reload[p][v].types = ActiveTypes
    BY <2>1, <1>a DEF Carried
  <2>5. Carried /\ Applied => Applied'
    BY <2>1, <2>2, <2>4, <1>a DEF Applied
  <2> QED BY <2>1, <2>3, <2>4, <2>5 DEF InForceInv
<1> QED BY <1>1, <1>2, <1>3, <1>4, <1>5, <1>6, <1>7 DEF Next

\* A tenant without a schema: nothing is loaded, applied or active.
LEMMA InForceInit ==
    ASSUME Init
    PROVE  InForceInv
<1>1. \A v \in Versions : rows[v].status = "none"
  BY DEF Init, NoRow
<1>2. ActiveTypes = {}
  BY <1>1 DEF ActiveTypes, TypesOf, GetActive
<1>3. \A e \in Editors : put[e].pc = "idle"
  BY DEF Init, NoPut
<1> QED BY <1>2, <1>3 DEF Init, InForceInv, Cached, Carried, Applied, NotLoaded, NoTask

\* A step that changes nothing of the schemas keeps it.
LEMMA InForceStutter ==
    ASSUME InForceInv, UNCHANGED schemaVars
    PROVE  InForceInv'
BY DEF InForceInv, Cached, Carried, Applied, ActiveTypes, TypesOf, GetActive, schemaVars

\* validate: when no handler and no task is left, uploads are validated with the
\* active version.
LEMMA QuietIsInForce ==
    ASSUME InForceInv
    PROVE  ActiveSchemaIsInForce
BY DEF InForceInv, Cached, Carried, Applied, ActiveTypes, ActiveSchemaIsInForce, Quiet, InForce
=============================================================================
