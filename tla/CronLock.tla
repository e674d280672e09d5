------------------------------ MODULE CronLock ------------------------------
(***************************************************************************)
(* The operational jobs: every process runs a loop, and a run takes a      *)
(* session-level advisory lock of PostgreSQL on a connection of the admin  *)
(* pool, and releases it on the connection that it is given then.          *)
(*                                                                         *)
(* Two shapes of a job.  "scan" (ArchivalWorker, OldCollectionDropService) *)
(* returns the connection as soon as it has the lock.  "partition" keeps   *)
(* it until the commit, and creates the chat_logs partition of the next    *)
(* month.  The pool keeps PoolSize connections and closes a returned one   *)
(* that is more; a closed connection gives up its locks.                   *)
(***************************************************************************)
EXTENDS Integers, FiniteSets

CONSTANTS
    Nodes,      \* backend processes
    Conns,      \* connections of a pool: numbers, so that a choice is definite
    PoolSize,
    Months,     \* bound on the calendar: months that pass
    Nothing

VARIABLES
    kind,       \* the job that the processes run
    conn,       \* Nodes -> Conns -> where a connection is
    held,       \* Nodes -> Conns -> how often its session holds the lock
    loop,       \* Nodes -> the job's loop: where it is, the connection it keeps and
                \* the month that it is to prepare
    guest,      \* Nodes -> a connection lent to another request, or Nothing
    today,      \* year and month
    partitions, \* months that have a partition
    ready,      \* has the job succeeded this month
    shared,     \* has another request used the pool during a run
    stranded    \* has a CREATE failed, with the lock on the connection it kept

cronVars == <<kind, conn, held, loop, guest, today, partitions, ready, shared, stranded>>

Dates == [year: Nat, month: 1 .. 12]

NoLoop == [pc |-> "sleep", c |-> Nothing, target |-> {}]

TypeOK ==
    /\ kind \in {"scan", "partition"}
    /\ conn \in [Nodes -> [Conns -> {"closed", "idle", "busy"}]]
    /\ held \in [Nodes -> [Conns -> 0 .. 2]]
    /\ loop \in [Nodes -> [pc: {"sleep", "lock", "work", "unlock"},
                           c: Conns \cup {Nothing}, target: SUBSET Dates]]
    /\ guest \in [Nodes -> Conns \cup {Nothing}]
    /\ today \in Dates
    /\ partitions \subseteq Dates
    /\ ready \in BOOLEAN /\ shared \in BOOLEAN /\ stranded \in BOOLEAN

\* The calendar starts at the end of a year; its partition is there
Init ==
    /\ kind \in {"scan", "partition"}
    /\ conn = [n \in Nodes |-> [c \in Conns |-> "closed"]]
    /\ held = [n \in Nodes |-> [c \in Conns |-> 0]]
    /\ loop = [n \in Nodes |-> NoLoop]
    /\ guest = [n \in Nodes |-> Nothing]
    /\ today = [year |-> 0, month |-> 12]
    /\ partitions = {today}
    /\ ready = FALSE /\ shared = FALSE /\ stranded = FALSE

-----------------------------------------------------------------------------
(* The pool of one process.                                                *)

Idle(pool) == {c \in Conns : pool[c] = "idle"}
First(S) == CHOOSE c \in S : \A d \in S : c <= d

\* The connection that the pool hands out: an idle one, or a new one.  The admin
\* pool of the code keeps one, so that there is no choice between idle ones
Given(pool) ==
    IF Idle(pool) # {} THEN First(Idle(pool)) ELSE First({c \in Conns : pool[c] = "closed"})

Checkout(pool, c) == [pool EXCEPT ![c] = "busy"]

Checkin(pool, c) ==
    [pool EXCEPT ![c] = IF Cardinality(Idle(pool)) < PoolSize THEN "idle" ELSE "closed"]

\* The locks that survive in the sessions of a pool
Kept(pool, locks) == [c \in Conns |-> IF pool[c] = "closed" THEN 0 ELSE locks[c]]

Pool(n, pool, locks) ==
    /\ conn' = [conn EXCEPT ![n] = pool]
    /\ held' = [held EXCEPT ![n] = Kept(pool, locks)]

InRun(n) == loop[n].pc \in {"work", "unlock"}

\* Another request of the process uses a connection of the pool
Borrow(n) ==
    /\ guest[n] = Nothing
    /\ LET c == Given(conn[n])
       IN  Pool(n, Checkout(conn[n], c), held[n]) /\ guest' = [guest EXCEPT ![n] = c]
    /\ shared' = (shared \/ InRun(n))
    /\ UNCHANGED <<kind, loop, today, partitions, ready, stranded>>

GiveBack(n) ==
    /\ guest[n] # Nothing
    /\ Pool(n, Checkin(conn[n], guest[n]), held[n])
    /\ guest' = [guest EXCEPT ![n] = Nothing]
    /\ shared' = (shared \/ InRun(n))
    /\ UNCHANGED <<kind, loop, today, partitions, ready, stranded>>

-----------------------------------------------------------------------------
(* One run of a job.                                                       *)

\* Mutant: December is followed by a thirteenth month
NextMonthFlat(d) == [year |-> d.year, month |-> d.month + 1]

NextMonth(d) ==
    IF d.month = 12 THEN [year |-> d.year + 1, month |-> 1]
    ELSE [year |-> d.year, month |-> d.month + 1]

\* The date is read before the lock
Start(n) ==
    /\ loop[n].pc = "sleep"
    /\ loop' = [loop EXCEPT ![n].pc = "lock",
                            ![n].target = IF kind = "partition" THEN {NextMonth(today)} ELSE {}]
    /\ UNCHANGED <<kind, conn, held, guest, today, partitions, ready, shared, stranded>>

\* pg_try_advisory_lock: a session that holds the lock gets it again (counted up
\* to 2)
Obtainable(n, c) ==
    \A m \in Nodes, d \in Conns : held[m][d] > 0 => <<m, d>> = <<n, c>>

\* The lock, or a silent skip
TryLock(n) ==
    /\ loop[n].pc = "lock"
    /\ LET c    == Given(conn[n])
           busy == Checkout(conn[n], c)
           keep == kind = "partition" /\ Obtainable(n, c)
       IN  /\ Pool(n, IF keep THEN busy ELSE Checkin(busy, c),
                   IF Obtainable(n, c) /\ held[n][c] < 2
                   THEN [held[n] EXCEPT ![c] = @ + 1] ELSE held[n])
           /\ loop' = [loop EXCEPT ![n] =
                          IF Obtainable(n, c)
                          THEN [loop[n] EXCEPT !.pc = "work", !.c = IF keep THEN c ELSE Nothing]
                          ELSE NoLoop]
    /\ shared' = (shared \/ guest[n] # Nothing)
    /\ UNCHANGED <<kind, guest, today, partitions, ready, stranded>>

\* ensure_partition commits, and returns the connection
CreatePartition(n) ==
    /\ kind = "partition"
    /\ loop[n].pc = "work"
    /\ partitions' = partitions \cup loop[n].target
    /\ ready' = (ready \/ NextMonth(today) \in loop[n].target)
    /\ Pool(n, Checkin(conn[n], loop[n].c), held[n])
    /\ loop' = [loop EXCEPT ![n] = [NoLoop EXCEPT !.pc = "unlock"]]
    /\ UNCHANGED <<kind, guest, today, shared, stranded>>

\* CREATE raises: its session still has the connection when the unlock runs
CreateFails(n) ==
    /\ kind = "partition"
    /\ loop[n].pc = "work"
    /\ loop' = [loop EXCEPT ![n].pc = "unlock"]
    /\ stranded' = TRUE
    /\ UNCHANGED <<kind, conn, held, guest, today, partitions, ready, shared>>

\* Mutant: the unlock follows the work, and is not reached when it raises
ScanSkipsUnlock(n) ==
    /\ kind = "scan"
    /\ loop[n].pc = "work"
    /\ \E next \in {[NoLoop EXCEPT !.pc = "unlock"], NoLoop} : loop' = [loop EXCEPT ![n] = next]
    /\ UNCHANGED <<kind, conn, held, guest, today, partitions, ready, shared, stranded>>

\* The work ends or raises; the unlock is in a finally
Scan(n) ==
    /\ kind = "scan"
    /\ loop[n].pc = "work"
    /\ loop' = [loop EXCEPT ![n].pc = "unlock"]
    /\ UNCHANGED <<kind, conn, held, guest, today, partitions, ready, shared, stranded>>

\* pg_advisory_unlock on the connection that the pool gives; the other session,
\* when there is one, is closed after it.  _run_job_loop counts what the run has
\* raised, and sleeps
Unlock(n) ==
    /\ loop[n].pc = "unlock"
    /\ LET c     == Given(conn[n])
           pool  == Checkin(Checkout(conn[n], c), c)
           locks == [held[n] EXCEPT ![c] = IF @ > 0 THEN @ - 1 ELSE 0]
       IN  Pool(n, IF loop[n].c = Nothing THEN pool ELSE Checkin(pool, loop[n].c), locks)
    /\ loop' = [loop EXCEPT ![n] = NoLoop]
    /\ UNCHANGED <<kind, guest, today, partitions, ready, shared, stranded>>

\* The process restarts
Restart(n) ==
    /\ loop[n] # NoLoop
    /\ Pool(n, [c \in Conns |-> "closed"], held[n])
    /\ loop' = [loop EXCEPT ![n] = NoLoop]
    /\ guest' = [guest EXCEPT ![n] = Nothing]
    /\ UNCHANGED <<kind, today, partitions, ready, shared, stranded>>

\* A month passes after a month in which a run has succeeded
MonthPasses ==
    /\ ready
    /\ 12 * today.year + today.month < 12 + Months
    /\ today' = [year |-> today.year + today.month \div 12, month |-> (today.month % 12) + 1]
    /\ ready' = FALSE
    /\ UNCHANGED <<kind, conn, held, loop, guest, partitions, shared, stranded>>

RunStep(n) ==
    \/ TryLock(n)
    \/ CreatePartition(n)
    \/ CreateFails(n)
    \/ Scan(n)
    \/ Unlock(n)

Next ==
    \/ \E n \in Nodes : Borrow(n) \/ GiveBack(n) \/ Start(n) \/ RunStep(n) \/ Restart(n)
    \/ MonthPasses

-----------------------------------------------------------------------------
(* Properties.                                                             *)

\* run_all_tenants, scan and ensure_partition: one process at a time does the
\* work, as long as nobody else uses the pool during a run.
SingleRunner ==
    ~shared => \A m, n \in Nodes : loop[m].pc = "work" /\ loop[n].pc = "work" => m = n

\* The lock is free when no run is on, however runs have ended, as long as nobody
\* else uses the pool during a run and no CREATE has failed.
LockIsReturned ==
    (\A n \in Nodes : ~InRun(n)) /\ ~shared /\ ~stranded
        => \A n \in Nodes, c \in Conns : held[n][c] = 0

\* pg_try_advisory_lock and pg_advisory_unlock on pooled sessions: the lock keeps
\* a second runner out, and comes back.
LockWorks == SingleRunner /\ LockIsReturned

\* ensure_next_month_partition: the month has its partition when it begins, over
\* the end of a year too.
PartitionIsReady == kind = "partition" => today \in partitions

\* A process without a connection: it has just been started, as a pool that has
\* been used keeps one
Restarted(n) == \A c \in Conns : conn[n][c] = "closed"

\* _run_job_loop and the advisory lock: whatever a run raises, every process starts
\* its job again and again, and not in vain: again and again one of them gets the
\* lock and does the work, unless the processes keep restarting or the lock has
\* gone astray (another request used the pool during a run, or a CREATE failed).
JobsKeepRunning ==
    /\ \A n \in Nodes : []<>(loop[n].pc = "lock")
    /\ \/ []<>(\E n \in Nodes : loop[n].pc = "work" \/ Restarted(n))
       \/ <>(shared \/ stranded)
=============================================================================
