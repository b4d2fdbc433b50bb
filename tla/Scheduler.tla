------------------------------ MODULE Scheduler ------------------------------
(***************************************************************************)
(* The scheduler's tables (t212ai/scheduler/service/core.py): the scheduled *)
(* processes with their status and next run, the audit rows of their runs,  *)
(* and the leases that workers take on due processes. Every method is one   *)
(* transaction and one action here; SchedulerWorker and NewsMonitor are the *)
(* threads that call them.                                                  *)
(*                                                                          *)
(* Times are only ever compared with the present, so each is kept as its    *)
(* distance from now, and Tick lets them all come closer: a distance of 0   *)
(* is a moment that has come, and no bound on the clock is needed.          *)
(***************************************************************************)
EXTENDS Integers, FiniteSets

CONSTANTS
    Process,        \* ids of the scheduled processes
    Run,            \* ids of run rows; one is used again when its run is closed
    Thread,         \* the threads that execute processes
    Schedule,       \* [Process -> ScheduleSpec]
    Lifecycle,      \* [Process -> LifecycleSpec]
    Lease,          \* lease_seconds
    Stale,          \* stale_run_after_seconds
    Limit,          \* the rows of due processes, or of open runs, a pass looks at
    Horizon         \* bound: how long ago a moment is told apart from earlier

Never == -1
NoProcess == "no process"
NoThread == "no thread"

\* ScheduleSpec: how far from creation run_at is, and the distances a next run
\* can have: pollEverySeconds, or what the calendar may give.
ScheduleSpec ==
    [type : {"one_shot", "recurring", "polling", "manual"},
     at : Nat, every : SUBSET (1..Horizon)]

\* LifecycleSpec, with Never for a limit that is not given. (maxRuns is left out:
\* no code reads it.)
LifecycleSpec ==
    [policy : {"complete_on_first_run", "complete_on_first_match",
               "keep_running", "complete_after_n_matches"},
     expires : Nat \cup {Never}, maxMatches : Nat \cup {Never},
     cooldown : 0..Horizon]

ASSUME LimitsArePositive ==
    /\ {Lease, Stale, Limit, Horizon} \subseteq Nat \ {0}
    /\ Lease <= Horizon /\ Stale <= Horizon
ASSUME SpecsAreValid ==
    /\ Schedule \in [Process -> ScheduleSpec]
    /\ Lifecycle \in [Process -> LifecycleSpec]
    /\ \A p \in Process :
          /\ Schedule[p].type \in {"recurring", "polling"} => Schedule[p].every # {}
          /\ Lifecycle[p].policy = "complete_after_n_matches"
                => Lifecycle[p].maxMatches > 0
ASSUME MarkersAreNoIds == NoProcess \notin Process /\ NoThread \notin Thread

VARIABLES
    proc,           \* the rows of scheduled_processes
    run,            \* the rows of scheduled_process_runs
    lock            \* the rows of scheduled_process_locks

store == <<proc, run, lock>>

-----------------------------------------------------------------------------
(* Definitions *)

\* ScheduledProcessStatus, and rows not created yet or deleted.
Terminal == {"completed", "expired", "archived", "failed"}
ProcessStatus == {"absent", "active", "paused", "deleted"} \cup Terminal
\* How a run ended (completed, failed or skipped) is told by nothing here.
RunStatus == {"none", "started", "ended"}

Exists(p) == proc[p].status \notin {"absent", "deleted"}
Active(p) == proc[p].status = "active"
Due(p) == Active(p) /\ proc[p].next = 0

\* A lock row keeps its holder when the lease has run out. The lease token is
\* the thread's own: it forgets the token before it claims the process again.
NoLock == [holder |-> NoThread, left |-> 0]

\* A faulty variant of Leased: a lease left behind counts for good.
LeasedForGood(p) == lock[p].holder # NoThread

Leased(p) == lock[p].left > 0

\* A distance d from a moment that is age ago, as a distance from now.
After(d, age) == IF d = Never THEN Never ELSE IF d > age THEN d - age ELSE 0

Larger(m, n) == IF m > n THEN m ELSE n

\* _initial_next_run_at
InitialNext(p) ==
    CASE Schedule[p].type = "one_shot"  -> {proc[p].runAt}
      [] Schedule[p].type = "recurring" -> Schedule[p].every
      [] Schedule[p].type = "polling"   -> {0}
      [] Schedule[p].type = "manual"    -> {Never}

\* _next_run_after_completion, for a run finished age ago.
NextAfter(p, age, matched) ==
    LET wait == IF matched THEN Lifecycle[p].cooldown ELSE 0
    IN  IF Schedule[p].type \in {"polling", "recurring"}
        THEN {After(Larger(d, wait), age) : d \in Schedule[p].every}
        ELSE {Never}

\* The next run is recomputed for a process that is still active.
Rescheduled(p, age, matched) ==
    IF Active(p) THEN {[proc[p] EXCEPT !.next = n] : n \in NextAfter(p, age, matched)}
                 ELSE {proc[p]}

\* _completed_match_count, counted as far as the limit of matches.
Counted(p, matched) ==
    IF matched /\ proc[p].matches < Lifecycle[p].maxMatches
    THEN [proc[p] EXCEPT !.matches = @ + 1] ELSE proc[p]

\* _apply_success_lifecycle: whether the policy completes the process.
PolicyCompletes(p, matched) ==
    CASE Lifecycle[p].policy = "complete_on_first_run"    -> TRUE
      [] Lifecycle[p].policy = "complete_on_first_match"  -> matched
      [] Lifecycle[p].policy = "keep_running"             -> FALSE
      [] Lifecycle[p].policy = "complete_after_n_matches" ->
            Counted(p, matched).matches >= Lifecycle[p].maxMatches

\* The age of a run is that of an open one.
RunOver(row, status) == [row EXCEPT !.status = status, !.age = 0]

Ended(row, status) == [row EXCEPT !.status = status, !.next = Never]

\* _expire_active_processes
Expired(p) == Active(p) /\ proc[p].expires = 0
AfterExpiry(p) == IF Expired(p) THEN Ended(proc[p], "expired") ELSE proc[p]

Init ==
    /\ proc = [p \in Process |->
                  [status |-> "absent", next |-> Never,
                   expires |-> Lifecycle[p].expires, runAt |-> Schedule[p].at,
                   matches |-> 0]]
    /\ run = [r \in Run |-> [process |-> NoProcess, status |-> "none", age |-> 0]]
    /\ lock = [p \in Process |-> NoLock]

-----------------------------------------------------------------------------
(* What a person or an agent does to a process *)

CreateProcess(p) ==
    /\ proc[p].status = "absent"
    /\ \E n \in InitialNext(p) :
          proc' = [proc EXCEPT ![p].status = "active", ![p].next = n]
    /\ UNCHANGED <<run, lock>>

PauseProcess(p) ==
    /\ Active(p)
    /\ proc' = [proc EXCEPT ![p].status = "paused"]
    /\ UNCHANGED <<run, lock>>

ResumeProcess(p) ==
    /\ proc[p].status = "paused"
    /\ \E n \in InitialNext(p) :
          proc' = [proc EXCEPT ![p].status = "active", ![p].next = n]
    /\ UNCHANGED <<run, lock>>

\* archive_process: from any status, a run in progress or not.
ArchiveProcess(p) ==
    /\ Exists(p)
    /\ proc' = [proc EXCEPT ![p] = Ended(@, "archived")]
    /\ UNCHANGED <<run, lock>>

\* delete_archived_before, for a cutoff that spares some. The rows of the runs
\* and the lease go with the process.
DeleteArchived(P) ==
    /\ P # {}
    /\ \A p \in P : proc[p].status = "archived"
    /\ proc' = [p \in Process |-> IF p \in P THEN [proc[p] EXCEPT !.status = "deleted"]
                                             ELSE proc[p]]
    /\ run' = [r \in Run |-> IF run[r].process \in P
                             THEN [RunOver(run[r], "none") EXCEPT !.process = NoProcess]
                             ELSE run[r]]
    /\ lock' = [p \in Process |-> IF p \in P THEN NoLock ELSE lock[p]]

\* scheduler_status and list_due_processes: reading expires what has run out.
ExpireActive ==
    /\ \E p \in Process : Expired(p)
    /\ proc' = [p \in Process |-> AfterExpiry(p)]
    /\ UNCHANGED <<run, lock>>

\* mark_completed and mark_failed: from any status.
MarkTerminal(p, status) ==
    /\ Exists(p)
    /\ proc' = [proc EXCEPT ![p] = Ended(@, status)]
    /\ UNCHANGED <<run, lock>>

-----------------------------------------------------------------------------
(* Runs *)

\* record_run_started, at a moment that is age ago. The process's status is not
\* looked at.
RecordStarted(r, p, age) ==
    /\ Exists(p)
    /\ run[r].status # "started"
    /\ run' = [run EXCEPT ![r] = [process |-> p, status |-> "started", age |-> age]]
    /\ UNCHANGED <<proc, lock>>

\* A faulty variant of RecordCompleted: the lifecycle is applied to a process
\* that is not active any more.
CompleteAnyway(r, age, matched) ==
    LET p == run[r].process IN
    /\ p # NoProcess
    /\ run' = [run EXCEPT ![r] = RunOver(@, "ended")]
    /\ \E n \in NextAfter(p, age, matched) :
          proc' = [proc EXCEPT ![p] =
                      IF PolicyCompletes(p, matched)
                      THEN Ended(Counted(p, matched), "completed")
                      ELSE [Counted(p, matched) EXCEPT !.next = n]]
    /\ UNCHANGED lock

\* record_run_completed, whatever the run's row says by now.
RecordCompleted(r, age, matched) ==
    LET p == run[r].process IN
    /\ p # NoProcess
    /\ run' = [run EXCEPT ![r] = RunOver(@, "ended")]
    /\ \/ /\ ~Active(p)
          /\ proc' = [proc EXCEPT ![p] = Counted(p, matched)]
       \/ /\ Active(p) /\ PolicyCompletes(p, matched)
          /\ proc' = [proc EXCEPT ![p] = Ended(Counted(p, matched), "completed")]
       \/ /\ Active(p) /\ ~PolicyCompletes(p, matched)
          /\ \E n \in NextAfter(p, age, matched) :
                proc' = [proc EXCEPT ![p] = [Counted(p, matched) EXCEPT !.next = n]]
    /\ UNCHANGED lock

\* record_run_failed and record_run_skipped
RecordUnsuccessful(r, age) ==
    LET p == run[r].process IN
    /\ p # NoProcess
    /\ run' = [run EXCEPT ![r] = RunOver(@, "ended")]
    /\ \E row \in Rescheduled(p, age, FALSE) : proc' = [proc EXCEPT ![p] = row]
    /\ UNCHANGED lock

\* The rows recover_stale_runs selects: the oldest of the runs that are open for
\* too long. Which of those older than Horizon are the oldest is not told apart.
Overdue == {r \in Run : run[r].status = "started" /\ run[r].age >= Stale}
OldestRuns ==
    {rows \in SUBSET Overdue :
        /\ Cardinality(rows) = IF Cardinality(Overdue) < Limit
                               THEN Cardinality(Overdue) ELSE Limit
        /\ \A r \in rows, s \in Overdue \ rows : run[r].age >= run[s].age}

\* A faulty variant of StaleRuns: a lease does not protect its run.
StaleRunsLeased(rows) == rows

\* Another: a lease that has run out still protects its run.
StaleRunsUnlocked(rows) == {r \in rows : lock[run[r].process].holder = NoThread}

\* The runs it closes: those under a lease take a place among the rows all the same.
StaleRuns(rows) == {r \in rows : ~Leased(run[r].process)}

\* The runs R are closed as failed, and their processes get a next run.
Recover(R) ==
    LET affected == {run[r].process : r \in R} IN
    /\ run' = [r \in Run |-> IF r \in R THEN RunOver(run[r], "ended")
                                        ELSE run[r]]
    /\ \E choice \in [affected -> -1..Horizon] :
          /\ \A p \in affected : choice[p] \in NextAfter(p, 0, FALSE)
          /\ proc' = [p \in Process |-> IF p \in affected /\ Active(p)
                                        THEN [proc[p] EXCEPT !.next = choice[p]]
                                        ELSE proc[p]]
    /\ UNCHANGED lock

\* recover_stale_runs
RecoverStaleRuns == \E rows \in OldestRuns : Recover(StaleRuns(rows))

-----------------------------------------------------------------------------
(* Leases *)

Held(t, left) == [holder |-> t, left |-> left]

\* A claim reads the process and its lock row, and only then writes the row:
\* nothing is locked between the two, as with SQLite and its default driver. A row
\* that was not there is inserted, one that was is updated, whoever holds it by now.
Claimable(p) == Active(p) /\ ~Leased(p)
HasRow(p) == lock[p].holder # NoThread
WriteLeases(t, P) ==
    lock' = [p \in Process |-> IF p \in P THEN Held(t, Lease) ELSE lock[p]]

\* refresh_process_lease, in vain when another thread holds the lease by now.
RefreshLease(t, p) ==
    /\ lock' = IF lock[p].holder = t THEN [lock EXCEPT ![p].left = Lease] ELSE lock
    /\ UNCHANGED <<proc, run>>

\* A faulty variant of ReleaseLease: the token is not compared.
ReleaseAny(t, p) ==
    /\ lock' = [lock EXCEPT ![p] = NoLock]
    /\ UNCHANGED <<proc, run>>

\* release_process_lease
ReleaseLease(t, p) ==
    /\ lock' = IF lock[p].holder = t THEN [lock EXCEPT ![p] = NoLock] ELSE lock
    /\ UNCHANGED <<proc, run>>

-----------------------------------------------------------------------------
(* Time *)

Closer(d) == IF d > 0 THEN d - 1 ELSE d
Older(age) == IF age < Horizon THEN age + 1 ELSE age

TimePasses ==
    /\ proc' = [p \in Process |-> [proc[p] EXCEPT
                    !.next = Closer(@), !.expires = Closer(@), !.runAt = Closer(@)]]
    /\ run' = [r \in Run |-> [run[r] EXCEPT
                    !.age = IF run[r].status = "started" THEN Older(@) ELSE @]]
    /\ lock' = [p \in Process |-> [lock[p] EXCEPT !.left = Closer(@)]]

-----------------------------------------------------------------------------
(* Properties *)

ProcessRow ==
    [status : ProcessStatus, next : Nat \cup {Never}, expires : Nat \cup {Never},
     runAt : Nat, matches : Nat]

StoreTypeOK ==
    /\ proc \in [Process -> ProcessRow]
    /\ run \in [Run -> [process : Process \cup {NoProcess}, status : RunStatus,
                        age : 0..Horizon]]
    /\ lock \in [Process -> [holder : Thread \cup {NoThread}, left : 0..Lease]]

\* A process that has ended has no next run, whatever happens to runs of it that
\* were still going on, to their recovery, and to the leases on it.
TerminalIsQuiet ==
    \A p \in Process : proc[p].status \in Terminal => proc[p].next = Never

\* No process that has ended becomes active or paused again.
TerminalIsFinal ==
    [][\A p \in Process :
          proc[p].status \in Terminal => proc'[p].status \in Terminal \cup {"deleted"}]_store

=============================================================================
