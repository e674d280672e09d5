--------------------------- MODULE EvaluationJobs ---------------------------
(***************************************************************************)
(* Evaluation jobs: POST /evaluation/run creates the row and a background  *)
(* task, which runs the cases of the dataset through the same dependencies *)
(* as the live chat, with the configuration loader swapped for the time of *)
(* a case; POST .../promote marks a job whose gate has passed.             *)
(*                                                                         *)
(* A loader is the sequence of the overrides it applies, an override is    *)
(* the job it belongs to, and <<>> is the loader of the live chat.  The    *)
(* repository's update reads the row before it has set the tenant: it      *)
(* finds the row when the role is exempt from row level security, and      *)
(* otherwise does nothing (visible).                                       *)
(***************************************************************************)
EXTENDS Naturals, Sequences

CONSTANTS
    EvalJobs,    \* job ids
    Promoters,   \* administrators who promote
    Cases        \* number of cases of a dataset

VARIABLES
    visible,     \* does update find the row
    evalRow,     \* EvalJobs -> the row of evaluation_jobs
    evalTask,    \* EvalJobs -> the background task
    loader,      \* deps.config_loader
    used,        \* EvalJobs -> loaders that its cases have called
    promote,     \* Promoters -> the job of a promotion in flight
    overlapped,  \* have two runs been inside run() at the same time
    crashed,
    lost         \* jobs whose task has ended with a write that raised

evalVars == <<visible, evalRow, evalTask, loader, used, promote, overlapped, crashed, lost>>

Statuses == {"none", "pending", "running", "completed", "failed", "promoted"}
Ended == {"completed", "failed", "promoted"}
Loaders == Seq(EvalJobs)

NoTask == [pc |-> "none", gated |-> FALSE, base |-> <<>>, original |-> <<>>, left |-> 0]

TypeOK ==
    /\ visible \in BOOLEAN /\ overlapped \in BOOLEAN /\ crashed \in BOOLEAN
    /\ evalRow \in [EvalJobs -> [status: Statuses, gate: {"none", "passed", "failed"}]]
    /\ \A j \in EvalJobs :
        /\ evalTask[j].pc \in {"none", "pending", "start", "begin", "case", "graph",
                               "gate", "failing"}
        /\ evalTask[j].left \in 0 .. Cases
        /\ evalTask[j].base \in Loaders /\ evalTask[j].original \in Loaders
    /\ loader \in Loaders
    /\ used \in [EvalJobs -> SUBSET Loaders]
    /\ promote \in [Promoters -> SUBSET EvalJobs]
    /\ lost \subseteq EvalJobs

Init ==
    /\ visible \in BOOLEAN
    /\ evalRow = [j \in EvalJobs |-> [status |-> "none", gate |-> "none"]]
    /\ evalTask = [j \in EvalJobs |-> NoTask]
    /\ loader = <<>>
    /\ used = [j \in EvalJobs |-> {}]
    /\ promote = [a \in Promoters |-> {}]
    /\ overlapped = FALSE
    /\ crashed = FALSE
    /\ lost = {}

At(j, pc) == evalTask[j].pc = pc
Go(j, pc) == evalTask' = [evalTask EXCEPT ![j].pc = pc]
InRun(j) == evalTask[j].pc \in {"case", "graph"}

\* update of the repository; the fields that are None are left alone
Update(j, row) == evalRow' = IF visible THEN [evalRow EXCEPT ![j] = row] ELSE evalRow

-----------------------------------------------------------------------------
(* POST /evaluation/run; gated is FALSE for platform_smoke, and for a      *)
(* tenant without promotion_gate.yaml.                                     *)

PrepareRun(j, gated) ==
    /\ evalRow[j].status = "none"
    /\ evalRow' = [evalRow EXCEPT ![j].status = "pending"]
    /\ evalTask' = [evalTask EXCEPT ![j].pc = "pending", ![j].gated = gated]
    /\ UNCHANGED <<visible, loader, used, promote, overlapped, crashed, lost>>

\* execute takes the job from _pending; ensure_initialized or the first update
\* may raise, outside the try
Execute(j) ==
    /\ At(j, "pending")
    /\ Go(j, "start") \/ Go(j, "none")
    /\ UNCHANGED <<visible, evalRow, loader, used, promote, overlapped, crashed, lost>>

MarkRunning(j) ==
    /\ At(j, "start")
    /\ Update(j, [evalRow[j] EXCEPT !.status = "running"])
    /\ \/ Go(j, "begin") /\ UNCHANGED lost
       \/ Go(j, "none") /\ lost' = lost \cup {j}   \* raised after the commit
    /\ UNCHANGED <<visible, loader, used, promote, overlapped, crashed>>

\* EvalRunner keeps the loader it finds, and the first case swaps it
RunnerInit(j) ==
    /\ At(j, "begin")
    /\ evalTask' = [evalTask EXCEPT ![j].pc = "case", ![j].base = loader,
                                    ![j].original = loader, ![j].left = Cases]
    /\ loader' = Append(loader, j)
    /\ overlapped' = (overlapped \/ \E k \in EvalJobs \ {j} : InRun(k))
    /\ UNCHANGED <<visible, evalRow, used, promote, crashed, lost>>

\* The dataset cannot be loaded
LoadDatasetFails(j) ==
    /\ At(j, "begin")
    /\ Go(j, "failing")
    /\ UNCHANGED <<visible, evalRow, loader, used, promote, overlapped, crashed, lost>>

\* The graph of the case calls deps.config_loader
CaseLoadsConfig(j) ==
    /\ At(j, "case")
    /\ used' = [used EXCEPT ![j] = @ \cup {loader}]
    /\ Go(j, "graph")
    /\ UNCHANGED <<visible, evalRow, loader, promote, overlapped, crashed, lost>>

\* Mutant: the loader is put back only after a case that has succeeded
RestoreLoaderIfDone(j, raised) == loader' = IF raised THEN loader ELSE evalTask[j].original

\* finally: self._deps.config_loader = original
RestoreLoader(j, raised) == loader' = evalTask[j].original

\* A case ends and the next one swaps the loader again without an await, or
\* the run ends
CaseEnds(j) ==
    /\ At(j, "graph")
    /\ IF evalTask[j].left > 1
       THEN /\ evalTask' = [evalTask EXCEPT ![j].pc = "case", ![j].left = @ - 1]
            /\ loader' = Append(evalTask[j].base, j)
       ELSE /\ evalTask' = [evalTask EXCEPT ![j].pc = "gate", ![j].left = 0]
            /\ RestoreLoader(j, FALSE)
    /\ UNCHANGED <<visible, evalRow, used, promote, overlapped, crashed, lost>>

CaseRaises(j) ==
    /\ InRun(j)
    /\ RestoreLoader(j, TRUE)
    /\ Go(j, "failing")
    /\ UNCHANGED <<visible, evalRow, used, promote, overlapped, crashed, lost>>

\* The gate cannot be read or evaluated, or the update raises before its commit
GateRaises(j) ==
    /\ At(j, "gate")
    /\ Go(j, "failing")
    /\ UNCHANGED <<visible, evalRow, loader, used, promote, overlapped, crashed, lost>>

\* The gate is evaluated and stored with the status; an exception after the
\* commit ends in the handler
Complete(j, gate) ==
    /\ At(j, "gate")
    /\ gate \in IF evalTask[j].gated THEN {"passed", "failed"} ELSE {"none"}
    /\ Update(j, [status |-> "completed", gate |-> gate])
    /\ Go(j, "none") \/ Go(j, "failing")
    /\ UNCHANGED <<visible, loader, used, promote, overlapped, crashed, lost>>

\* Mutant: an exception of the run is only logged
FailSilently(j) ==
    /\ At(j, "failing")
    /\ Go(j, "none")
    /\ UNCHANGED <<visible, evalRow, loader, used, promote, overlapped, crashed, lost>>

Fail(j) ==
    /\ At(j, "failing")
    /\ Update(j, [evalRow[j] EXCEPT !.status = "failed"])
    /\ Go(j, "none")
    /\ UNCHANGED <<visible, loader, used, promote, overlapped, crashed, lost>>

\* The update of the handler raises itself, and the task ends
FailRaises(j) ==
    /\ At(j, "failing")
    /\ Go(j, "none")
    /\ lost' = lost \cup {j}
    /\ UNCHANGED <<visible, evalRow, loader, used, promote, overlapped, crashed>>

-----------------------------------------------------------------------------
(* POST /evaluation/jobs/{job_id}/promote.                                 *)

\* Mutant: a job without a gate counts as passed
GatePassedDefault(j) == evalRow[j].gate # "failed"

GatePassed(j) == evalRow[j].gate = "passed"

PromoteRead(a, j) ==
    /\ promote[a] = {}
    /\ evalRow[j].status \in {"completed", "promoted"}
    /\ GatePassed(j)
    /\ promote' = [promote EXCEPT ![a] = {j}]
    /\ UNCHANGED <<visible, evalRow, evalTask, loader, used, overlapped, crashed, lost>>

PromoteWrite(a) ==
    /\ \E j \in promote[a] : Update(j, [evalRow[j] EXCEPT !.status = "promoted"])
    /\ promote' = [promote EXCEPT ![a] = {}]
    /\ UNCHANGED <<visible, evalTask, loader, used, overlapped, crashed, lost>>

\* The process restarts: tasks, _pending and the swapped loader are gone
Crash ==
    /\ ~crashed
    /\ crashed' = TRUE
    /\ evalTask' = [j \in EvalJobs |-> NoTask]
    /\ loader' = <<>>
    /\ promote' = [a \in Promoters |-> {}]
    /\ UNCHANGED <<visible, evalRow, used, overlapped, lost>>

TaskStep(j) ==
    \/ Execute(j)
    \/ MarkRunning(j)
    \/ RunnerInit(j)
    \/ LoadDatasetFails(j)
    \/ CaseLoadsConfig(j)
    \/ CaseEnds(j)
    \/ CaseRaises(j)
    \/ GateRaises(j)
    \/ \E gate \in {"none", "passed", "failed"} : Complete(j, gate)
    \/ Fail(j)
    \/ FailRaises(j)

Next ==
    \/ \E j \in EvalJobs :
        \/ \E gated \in BOOLEAN : PrepareRun(j, gated)
        \/ TaskStep(j)
    \/ \E a \in Promoters : PromoteWrite(a) \/ \E j \in EvalJobs : PromoteRead(a, j)
    \/ Crash

-----------------------------------------------------------------------------
(* Properties.                                                             *)

\* promote: although it writes what it has read before, only a job whose own
\* run has passed its gate is ever marked promoted.
PromotedPassedItsGate ==
    \A j \in EvalJobs : evalRow[j].status = "promoted" => evalRow[j].gate = "passed"

\* _run_one: while runs do not overlap, a job is measured with its own override
\* and no other, and however its cases end the live chat has its loader back.
OverrideStaysInItsRun ==
    ~overlapped =>
        /\ \A j \in EvalJobs : used[j] \subseteq {<<j>>}
        /\ (\A j \in EvalJobs : ~InRun(j)) => loader = <<>>

\* execute: a job that is running reaches an end however its run goes, unless the
\* process restarts or the write that records the end raises as well.
RunningJobEnds ==
    \A j \in EvalJobs :
        evalRow[j].status = "running" ~> (evalRow[j].status \in Ended \/ crashed \/ j \in lost)
=============================================================================
