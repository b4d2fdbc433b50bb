--------------------------- MODULE SchedulerWorker ---------------------------
(***************************************************************************)
(* The scheduler's worker threads (t212ai/scheduler/worker.py): the one      *)
(* embedded in the bot (app/scheduler_worker.py) and those that the command  *)
(* line runs in processes of their own, all on the tables of Scheduler. A    *)
(* pass recovers stale runs, claims the due processes in one batch, and runs *)
(* them one after another, each on the lease taken at the start of the pass. *)
(***************************************************************************)
EXTENDS Scheduler

CONSTANTS
    Llm,            \* the processes whose execution mode uses a model
    LlmBudget,      \* max_llm_runs_per_pass, 0 for none
    MaxFailures     \* bound: crashes and exceptions that end a pass

ASSUME LlmAreProcesses == Llm \subseteq Process
ASSUME WorkerBounds == LlmBudget \in Nat /\ MaxFailures \in Nat

VARIABLES
    worker,         \* per thread: where it is in its pass
    failures        \* crashes and exceptions so far

workerVars == <<store, worker, failures>>

-----------------------------------------------------------------------------
(* Definitions *)

NoRun == "no run"

ASSUME NoRunIsNoId == NoRun \notin Run

\* pc: "idle", "begun" (stale runs recovered), "reading" (in the transaction of
\* claim_due_processes), "pass", "running" (in the adapter), "skipping" (over
\* the budget), "closing" (run recorded, lease to release), "leaving" (the same
\* after an exception). age: how long ago the pass started. candidates: what a
\* claim in progress has read, found: whether the first has a lock row. claims:
\* the batch not yet worked off. lost (history): those of it that another thread
\* has claimed too, on a lock row it read before, and those that had ended by the
\* time they were claimed.
Between == [pc |-> "idle", age |-> 0, candidates |-> {}, found |-> FALSE,
            claims |-> {}, lost |-> {}, process |-> NoProcess, run |-> NoRun,
            budget |-> LlmBudget]

Over(p) == proc[p].status \in Terminal \cup {"deleted"}

Executing(w, p) == worker[w].pc = "running" /\ worker[w].process = p

\* The run rows that some thread has an id of.
InUse == {worker[w].run : w \in Thread}

Set(w, new) == worker' = [worker EXCEPT ![w] = new]

WorkerInit ==
    /\ Init
    /\ worker = [w \in Thread |-> Between]
    /\ failures = 0

-----------------------------------------------------------------------------
(* run_once, up to the claim *)

BeginPass(w) ==
    /\ worker[w].pc = "idle"
    /\ RecoverStaleRuns
    /\ Set(w, [Between EXCEPT !.pc = "begun"])
    /\ UNCHANGED failures

\* The rows a claim looks at, once those out of time have been expired.
StillDue == {p \in Process : Due(p) /\ ~Expired(p)}
Pages ==
    {P \in SUBSET StillDue :
        Cardinality(P) = IF Cardinality(StillDue) < Limit
                         THEN Cardinality(StillDue) ELSE Limit}

\* claim_due_processes, if there is something to expire: with that write the
\* transaction shuts other writers out, before it reads the rest.
ClaimAtOnce(w) ==
    /\ worker[w].pc = "begun"
    /\ \E p \in Process : Expired(p)
    /\ \E page \in Pages :
          LET claims == {p \in page : ~Leased(p)} IN
          /\ WriteLeases(w, claims)
          /\ Set(w, [Between EXCEPT !.pc = IF claims = {} THEN "idle" ELSE "pass",
                                   !.claims = claims])
    /\ proc' = [p \in Process |-> AfterExpiry(p)]
    /\ UNCHANGED <<run, failures>>

\* Otherwise the due rows and the first lock row are read before anything is locked.
ReadDue(w) ==
    /\ worker[w].pc = "begun"
    /\ \A p \in Process : ~Expired(p)
    /\ \E page \in Pages :
          LET free == {p \in page : ~Leased(p)} IN
          \/ /\ free = {}
             /\ Set(w, Between)
          \/ \E p \in free :
                Set(w, [worker[w] EXCEPT !.pc = "reading", !.candidates = page,
                                         !.process = p, !.found = HasRow(p)])
    /\ UNCHANGED <<store, failures>>

\* Another thread claims p as well: thread v loses its claim, if it has one.
Loses(v, p) ==
    [worker[v] EXCEPT !.lost =
        IF p \in worker[v].claims /\ lock[p].holder = v /\ Leased(p)
        THEN @ \cup {p} ELSE @]

\* The first lock row is written; the others are read under the write lock. What
\* becomes of the processes in the meantime is not looked at.
WriteClaims(w) ==
    LET first == worker[w].process
        claims == {first} \cup {p \in worker[w].candidates : ~Leased(p)}
    IN
    /\ worker[w].pc = "reading"
    /\ worker[w].found = HasRow(first)
    /\ WriteLeases(w, claims)
    /\ worker' = [v \in Thread |->
                     IF v = w THEN [Between EXCEPT !.pc = "pass", !.claims = claims,
                                                   !.lost = {p \in claims : Over(p)}]
                              ELSE Loses(v, first)]
    /\ UNCHANGED <<proc, run, failures>>

\* Or the row to insert is there already, or the row to update has gone: the
\* transaction is rolled back and the exception ends the pass.
ClaimConflicts(w) ==
    /\ worker[w].pc = "reading"
    /\ worker[w].found # HasRow(worker[w].process)
    /\ Set(w, Between)
    /\ UNCHANGED <<store, failures>>

-----------------------------------------------------------------------------
(* The claims, one after another *)

OverBudget(w, p) == p \in Llm /\ LlmBudget > 0 /\ worker[w].budget = 0

\* _run_process and _skip_process_for_llm_budget: record_run_started
StartRun(w, p) ==
    /\ worker[w].pc = "pass"
    /\ p \in worker[w].claims
    /\ \E r \in Run \ InUse :
          /\ RecordStarted(r, p, worker[w].age)
          /\ Set(w, [worker[w] EXCEPT
                !.pc = IF OverBudget(w, p) THEN "skipping" ELSE "running",
                !.process = p, !.run = r,
                !.budget = IF p \in Llm /\ LlmBudget > 0 /\ ~OverBudget(w, p)
                           THEN @ - 1 ELSE @])
    /\ UNCHANGED failures

\* The process has been deleted since it was claimed.
StartMissesProcess(w, p) ==
    /\ worker[w].pc = "pass"
    /\ p \in worker[w].claims
    /\ ~Exists(p)
    /\ Set(w, [worker[w] EXCEPT !.pc = "leaving", !.process = p])
    /\ UNCHANGED <<store, failures>>

\* The adapter answers, or there is none, or it raises.
FinishRun(w) ==
    /\ worker[w].pc = "running"
    /\ \/ \E matched \in BOOLEAN :
             RecordCompleted(worker[w].run, worker[w].age, matched)
       \/ RecordUnsuccessful(worker[w].run, worker[w].age)
    /\ Set(w, [worker[w] EXCEPT !.pc = "closing"])
    /\ UNCHANGED failures

SkipForBudget(w) ==
    /\ worker[w].pc = "skipping"
    /\ RecordUnsuccessful(worker[w].run, worker[w].age)
    /\ Set(w, [worker[w] EXCEPT !.pc = "closing"])
    /\ UNCHANGED failures

\* The row of the run has been deleted meanwhile: the exception ends the pass.
FinishMissesRun(w) ==
    /\ worker[w].pc \in {"running", "skipping"}
    /\ run[worker[w].run].process = NoProcess
    /\ Set(w, [worker[w] EXCEPT !.pc = "leaving"])
    /\ UNCHANGED <<store, failures>>

\* The notification, which changes nothing here, and the lease.
Release(w) ==
    /\ worker[w].pc = "closing"
    /\ ReleaseLease(w, worker[w].process)
    /\ LET left == worker[w].claims \ {worker[w].process} IN
       Set(w, IF left = {} THEN Between
              ELSE [worker[w] EXCEPT !.pc = "pass", !.claims = left,
                                     !.process = NoProcess, !.run = NoRun])
    /\ UNCHANGED failures

\* After an exception only the lease of the process in work is released: the
\* other claims of the batch stay leased until their time is over.
Leave(w) ==
    /\ worker[w].pc = "leaving"
    /\ ReleaseLease(w, worker[w].process)
    /\ Set(w, Between)
    /\ UNCHANGED failures

\* The database refuses a transaction of the pass.
PassFails(w) ==
    /\ worker[w].pc \in {"begun", "pass", "running", "skipping", "closing"}
    /\ failures < MaxFailures
    /\ failures' = failures + 1
    /\ \/ /\ worker[w].pc \in {"pass", "running", "skipping"}
          /\ \E p \in worker[w].claims :
                /\ worker[w].pc = "pass" \/ p = worker[w].process
                /\ Set(w, [worker[w] EXCEPT !.pc = "leaving", !.process = p])
       \/ /\ worker[w].pc \in {"begun", "closing"}
          /\ Set(w, Between)
    /\ UNCHANGED store

\* The thread's process dies and is started again.
WorkerCrash(w) ==
    /\ worker[w].pc # "idle"
    /\ failures < MaxFailures
    /\ failures' = failures + 1
    /\ Set(w, Between)
    /\ UNCHANGED store

\* Between the start of a pass and its claims no time passes to speak of.
Tick ==
    /\ \A w \in Thread : worker[w].pc \notin {"begun", "reading"}
    /\ TimePasses
    /\ worker' = [w \in Thread |->
                     [worker[w] EXCEPT !.age = IF worker[w].pc = "idle" THEN 0
                                               ELSE Older(@)]]
    /\ UNCHANGED failures

-----------------------------------------------------------------------------
(* Specification *)

Manage ==
    /\ \/ \E p \in Process : CreateProcess(p) \/ PauseProcess(p)
                                \/ ResumeProcess(p) \/ ArchiveProcess(p)
       \/ \E P \in SUBSET Process : DeleteArchived(P)
       \/ ExpireActive
    /\ UNCHANGED <<worker, failures>>

Work(w) ==
    \/ BeginPass(w) \/ ClaimAtOnce(w) \/ ReadDue(w) \/ WriteClaims(w)
    \/ ClaimConflicts(w)
    \/ \E p \in Process : StartRun(w, p) \/ StartMissesProcess(w, p)
    \/ FinishRun(w) \/ SkipForBudget(w) \/ FinishMissesRun(w)
    \/ Release(w) \/ Leave(w)

WorkerNext ==
    \/ Manage
    \/ \E w \in Thread : Work(w) \/ PassFails(w) \/ WorkerCrash(w)
    \/ Tick

\* The loop of each worker goes on, and its adapters answer in the end. Time goes
\* on too, strongly fair since a pass never lets it stop for long: the worker
\* waits poll_every_seconds after each. Nobody has to manage processes.
WorkerFairness == SF_workerVars(Tick) /\ \A w \in Thread : WF_workerVars(Work(w))

WorkerSpec == WorkerInit /\ [][WorkerNext]_workerVars
FairWorkerSpec == WorkerSpec /\ WorkerFairness

-----------------------------------------------------------------------------
(* Properties *)

\* The types of the state; a pass starts no more runs that use a model than
\* max_llm_runs_per_pass, its budget never being overdrawn.
WorkerTypeOK ==
    /\ StoreTypeOK
    /\ worker \in [Thread ->
           [pc : {"idle", "begun", "reading", "pass", "running", "skipping",
                  "closing", "leaving"},
            age : 0..Horizon, candidates : SUBSET Process, found : BOOLEAN,
            claims : SUBSET Process, lost : SUBSET Process,
            process : Process \cup {NoProcess}, run : Run \cup {NoRun},
            budget : 0..LlmBudget]]
    /\ failures \in 0..MaxFailures

\* Thread w is at p on a lease that has run out or gone to another thread, or that
\* it took when p had ended.
Unprotected(w, p) == worker[w].age >= Lease \/ p \in worker[w].lost

\* Two threads execute the same process only if the lease of one has run out, or one
\* claimed it without looking again at what it had read before the other's claim.
ExclusiveWhileLeased ==
    \A v, w \in Thread, p \in Process :
        v # w /\ Executing(v, p) /\ Executing(w, p)
            => Unprotected(v, p) \/ Unprotected(w, p)

\* A run is recovered as stale under the thread that executes it only if the
\* thread has outlived its lease, or lost it to a claim made at the same time.
RecoverySparesLeases ==
    \A w \in Thread :
        worker[w].pc = "running" /\ run[worker[w].run].status \notin {"started", "none"}
            => Unprotected(w, worker[w].process)

\* Every run row is closed in the end: by its thread, or as a stale one.
RunsAreClosed ==
    \A r \in Run : run[r].status = "started" ~> run[r].status # "started"

\* An active process that is due is worked on in the end, whatever crashes and
\* left-over leases come between, unless it stops being due.
DueIsServed ==
    \A p \in Process :
        Due(p) ~> ~Due(p) \/ \E w \in Thread :
                                worker[w].process = p /\ worker[w].run # NoRun

\* SCHEDULER_DESIGN_NOTES.md, line 271: a one-shot process runs once, then it is
\* completed. In any case it does not stay active for good once it was due.
OneShotEnds ==
    \A p \in Process :
        Schedule[p].type = "one_shot" => (Due(p) ~> ~Active(p))

=============================================================================
