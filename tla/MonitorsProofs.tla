---------------------------- MODULE MonitorsProofs ----------------------------
(***************************************************************************)
(* Proofs about SchedulerWorker, and below them about Monitors, for any     *)
(* processes, threads, schedules, lifecycles, kinds and bounds.  A claim is *)
(* read and written in two steps, as the code has it: what leases promise   *)
(* is told up to the claims that were lost in between.                      *)
(* The adapters, the record and the notification are a refinement of the    *)
(* one step SchedulerWorker has for them, so what is proved of the workers  *)
(* holds of them; ShownIsSound and MatchIsShown need only who holds which   *)
(* offer; OneRequestPerMatch and SignalsAreWrittenOnce rest on the leases,  *)
(* as NoDoubleExecution does.                                               *)
(***************************************************************************)
EXTENDS Monitors, SchedulerProofs, SequenceTheorems, FiniteSetTheorems


WorkerRow ==
    [pc : {"idle", "begun", "reading", "pass", "running", "skipping", "closing",
           "leaving"},
     age : 0..Horizon, candidates : SUBSET Process, found : BOOLEAN,
     claims : SUBSET Process, lost : SUBSET Process, process : Process \cup {NoProcess},
     run : Run \cup {NoRun}, budget : 0..LlmBudget]

InRun == {"running", "skipping"}

\* A worker that executes or skips has the id of a run row; one that is about to
\* write its claims has read a process to claim.
Typed(row) ==
    /\ row \in WorkerRow
    /\ row.pc \in InRun => row.run \in Run
    /\ row.pc = "reading" => row.process \in Process

WInv ==
    /\ StoreInv
    /\ worker \in [Thread -> WorkerRow]
    /\ \A w \in Thread : Typed(worker[w])
    /\ failures \in 0..MaxFailures

\* One thread's row is written, the tables are kept.
LEMMA WorkerSet ==
  ASSUME WInv, StoreInv', NEW w, NEW new, Set(w, new), w \in Thread => Typed(new),
         failures' \in 0..MaxFailures
  PROVE  WInv'
<1>1. \A v \in Thread : worker'[v] = IF v = w THEN new ELSE worker[v]
  BY DEF WInv, Set
<1>2. \A v \in Thread : Typed(worker'[v])
  BY <1>1 DEF WInv
<1>3. worker' \in [Thread -> WorkerRow]
  BY <1>1, <1>2 DEF WInv, Set, Typed
<1> QED BY <1>2, <1>3 DEF WInv, Typed

LEMMA BetweenTyped == Typed(Between)
BY LimitsArePositive, WorkerBounds DEF Typed, Between, WorkerRow, InRun

LEMMA WInvInit == WorkerInit => WInv
BY StoreInit, BetweenTyped, WorkerBounds DEF WorkerInit, WInv, Typed

LEMMA WInvType == WInv => WorkerTypeOK
BY DEF WInv, WorkerTypeOK, StoreInv, WorkerRow

-----------------------------------------------------------------------------
(* Every step keeps WInv, and ended processes ended *)

\* No process that has been deleted comes back.
StaysDeleted ==
    \A p \in Process : proc[p].status = "deleted" => proc'[p].status = "deleted"

Kept == WInv' /\ StaysTerminal /\ StaysDeleted

LEMMA ClaimSteps ==
  ASSUME WInv, NEW w \in Thread,
         BeginPass(w) \/ ClaimAtOnce(w) \/ ReadDue(w) \/ WriteClaims(w)
            \/ ClaimConflicts(w)
  PROVE  Kept
<1> USE DEF Kept, StoreKept, DeletedStays, StaysDeleted
<1>0. failures \in 0..MaxFailures /\ StoreInv /\ Typed(worker[w])
  BY DEF WInv
<1>1. CASE BeginPass(w)
  <2>1. Typed([Between EXCEPT !.pc = "begun"])
    BY BetweenTyped DEF Typed, Between, WorkerRow, InRun
  <2> QED BY <1>0, <1>1, <2>1, Recovered, WorkerSet DEF BeginPass
<1>2. CASE ClaimAtOnce(w)
  <2>1. PICK page \in Pages :
          LET claims == {p \in page : ~Leased(p)} IN
          /\ WriteLeases(w, claims)
          /\ Set(w, [Between EXCEPT !.pc = IF claims = {} THEN "idle" ELSE "pass",
                                    !.claims = claims])
    BY <1>2 DEF ClaimAtOnce
  <2> DEFINE claims == {p \in page : ~Leased(p)}
             new == [Between EXCEPT !.pc = IF claims = {} THEN "idle" ELSE "pass",
                                    !.claims = claims]
  <2>2. claims \in SUBSET Process
    BY DEF Pages, StillDue
  <2>3. LocksTyped' /\ Set(w, new)
    BY <1>0, <2>1, LeasesWritten
  <2>4. Typed(new)
    BY BetweenTyped, <2>2 DEF Typed, Between, WorkerRow, InRun
  <2>5. RunsTyped'
    BY <1>0, <1>2, TablesTyped DEF ClaimAtOnce, RunsTyped, RunRow
  <2>6. StoreInv' /\ StaysTerminal /\ StaysDeleted
    BY <1>0, <1>2, <2>3, <2>5, Expiring DEF ClaimAtOnce
  <2> HIDE DEF new
  <2> QED BY <1>0, <1>2, <2>3, <2>4, <2>6, WorkerSet DEF ClaimAtOnce
<1>3. CASE ReadDue(w)
  <2>1. StoreInv' /\ StaysTerminal /\ StaysDeleted
    BY <1>0, <1>3, StoreIdle DEF ReadDue
  <2>2. \E new : Typed(new) /\ Set(w, new)
    <3>1. PICK page \in Pages :
            LET free == {p \in page : ~Leased(p)} IN
            \/ free = {} /\ Set(w, Between)
            \/ \E p \in free :
                  Set(w, [worker[w] EXCEPT !.pc = "reading", !.candidates = page,
                                           !.process = p, !.found = HasRow(p)])
      BY <1>3 DEF ReadDue
    <3>2. CASE Set(w, Between)
      BY <3>2, BetweenTyped
    <3>3. ASSUME NEW p \in page,
                 Set(w, [worker[w] EXCEPT !.pc = "reading", !.candidates = page,
                                          !.process = p, !.found = HasRow(p)])
          PROVE  \E new : Typed(new) /\ Set(w, new)
      <4>1. page \in SUBSET Process /\ p \in Process /\ HasRow(p) \in BOOLEAN
        BY DEF Pages, StillDue, HasRow
      <4>2. Typed([worker[w] EXCEPT !.pc = "reading", !.candidates = page,
                                    !.process = p, !.found = HasRow(p)])
        BY <1>0, <4>1 DEF Typed, WorkerRow, InRun
      <4> QED BY <3>3, <4>2
    <3> QED BY <3>1, <3>2, <3>3
  <2> QED BY <1>0, <1>3, <2>1, <2>2, WorkerSet DEF ReadDue
<1>4. CASE WriteClaims(w)
  <2> DEFINE first == worker[w].process
             claims == {first} \cup {p \in worker[w].candidates : ~Leased(p)}
             new == [Between EXCEPT !.pc = "pass", !.claims = claims,
                                    !.lost = {p \in claims : Over(p)}]
  <2>1. first \in Process /\ claims \in SUBSET Process
    BY <1>0, <1>4 DEF WriteClaims, Typed, WorkerRow
  <2>2. /\ worker' = [v \in Thread |-> IF v = w THEN new ELSE Loses(v, first)]
        /\ WriteLeases(w, claims)
    BY <1>4 DEF WriteClaims
  <2> HIDE DEF claims
  <2>3. Typed(new)
    BY <2>1, BetweenTyped DEF Typed, Between, WorkerRow, InRun
  <2> HIDE DEF new, first
  <2>4. StoreInv' /\ StaysTerminal /\ StaysDeleted
    BY <1>0, <1>4, <2>2, LeasesWritten, ProcKept, TablesTyped
       DEF WriteClaims, RunsTyped, RunRow
  <2>5. ASSUME NEW v \in Thread PROVE Typed(Loses(v, first))
    <3>1. Typed(worker[v]) /\ worker[v].lost \cup {first} \in SUBSET Process
      BY <2>1 DEF WInv, Typed, WorkerRow
    <3>2. \A lost \in SUBSET Process : Typed([worker[v] EXCEPT !.lost = lost])
      BY <3>1 DEF Typed, WorkerRow, InRun
    <3> QED BY <3>1, <3>2 DEF Loses, Typed, WorkerRow
  <2>6. \A v \in Thread : Typed(worker'[v])
    BY <2>2, <2>3, <2>5
  <2>7. worker' \in [Thread -> WorkerRow]
    BY <2>2, <2>3, <2>5 DEF Typed
  <2> QED BY <1>0, <1>4, <2>4, <2>6, <2>7 DEF WriteClaims, WInv
<1>5. CASE ClaimConflicts(w)
  BY <1>0, <1>5, StoreIdle, BetweenTyped, WorkerSet DEF ClaimConflicts
<1> QED BY <1>1, <1>2, <1>3, <1>4, <1>5

LEMMA RunSteps ==
  ASSUME WInv, NEW w \in Thread,
         \/ \E p \in Process : StartRun(w, p) \/ StartMissesProcess(w, p)
         \/ FinishRun(w) \/ SkipForBudget(w) \/ FinishMissesRun(w)
         \/ Release(w) \/ Leave(w)
  PROVE  Kept
<1> USE DEF Kept, StoreKept, DeletedStays, StaysDeleted
<1>0. failures \in 0..MaxFailures /\ StoreInv /\ Typed(worker[w])
  BY DEF WInv
<1>1. ASSUME NEW p \in Process, StartRun(w, p) PROVE Kept
  <2>1. PICK r \in Run \ InUse :
          /\ RecordStarted(r, p, worker[w].age)
          /\ Set(w, [worker[w] EXCEPT
                !.pc = IF OverBudget(w, p) THEN "skipping" ELSE "running",
                !.process = p, !.run = r,
                !.budget = IF p \in Llm /\ LlmBudget > 0 /\ ~OverBudget(w, p)
                           THEN @ - 1 ELSE @])
    BY <1>1 DEF StartRun
  <2>2. StoreInv' /\ StaysTerminal /\ StaysDeleted
    BY <1>0, <2>1, RunStarted DEF Typed, WorkerRow
  <2> DEFINE budget == IF p \in Llm /\ LlmBudget > 0 /\ ~OverBudget(w, p)
                       THEN worker[w].budget - 1 ELSE worker[w].budget
  <2>3. budget \in 0..LlmBudget
    BY <1>0, WorkerBounds DEF Typed, WorkerRow, OverBudget
  <2> HIDE DEF budget
  <2>4. Typed([worker[w] EXCEPT
                !.pc = IF OverBudget(w, p) THEN "skipping" ELSE "running",
                !.process = p, !.run = r, !.budget = budget])
    BY <1>0, <2>3 DEF Typed, WorkerRow, InRun
  <2> QED BY <1>0, <1>1, <2>1, <2>2, <2>4, WorkerSet DEF StartRun, budget
<1>2. ASSUME NEW p \in Process, StartMissesProcess(w, p) PROVE Kept
  <2>1. Typed([worker[w] EXCEPT !.pc = "leaving", !.process = p])
    BY <1>0 DEF Typed, WorkerRow, InRun
  <2> QED BY <1>0, <1>2, <2>1, StoreIdle, WorkerSet DEF StartMissesProcess
<1>3. CASE FinishRun(w) \/ SkipForBudget(w)
  <2>1. worker[w].run \in Run /\ worker[w].age \in 0..Horizon
    BY <1>0, <1>3 DEF FinishRun, SkipForBudget, Typed, WorkerRow, InRun
  <2>2. StoreInv' /\ StaysTerminal /\ StaysDeleted
    BY <1>0, <1>3, <2>1, RunCompleted, RunUnsuccessful DEF FinishRun, SkipForBudget
  <2>3. Typed([worker[w] EXCEPT !.pc = "closing"])
    BY <1>0 DEF Typed, WorkerRow, InRun
  <2> QED BY <1>0, <1>3, <2>2, <2>3, WorkerSet DEF FinishRun, SkipForBudget
<1>4. CASE FinishMissesRun(w)
  <2>1. Typed([worker[w] EXCEPT !.pc = "leaving"])
    BY <1>0 DEF Typed, WorkerRow, InRun
  <2> QED BY <1>0, <1>4, <2>1, StoreIdle, WorkerSet DEF FinishMissesRun
<1>5. CASE Release(w)
  <2> DEFINE left == worker[w].claims \ {worker[w].process}
  <2>1. Typed([worker[w] EXCEPT !.pc = "pass", !.claims = left,
                                !.process = NoProcess, !.run = NoRun])
    BY <1>0 DEF Typed, WorkerRow, InRun
  <2>2. \E new : Typed(new) /\ Set(w, new)
    BY <1>5, <2>1, BetweenTyped DEF Release
  <2> QED BY <1>0, <1>5, <2>2, LeaseReleased, WorkerSet DEF Release
<1>6. CASE Leave(w)
  BY <1>0, <1>6, LeaseReleased, BetweenTyped, WorkerSet DEF Leave
<1> QED BY <1>1, <1>2, <1>3, <1>4, <1>5, <1>6

LEMMA FailureSteps ==
  ASSUME WInv, NEW w \in Thread, PassFails(w) \/ WorkerCrash(w) PROVE Kept
<1> USE DEF Kept, StoreKept, DeletedStays, StaysDeleted
<1>0. failures \in 0..MaxFailures /\ StoreInv /\ Typed(worker[w])
  BY DEF WInv
<1>1. failures' \in 0..MaxFailures
  <2>1. failures < MaxFailures /\ failures' = failures + 1
    BY DEF PassFails, WorkerCrash
  <2> QED BY <1>0, <2>1, WorkerBounds
<1>2. StoreKept
  BY <1>0, StoreIdle DEF PassFails, WorkerCrash
<1>3. \E new : Typed(new) /\ Set(w, new)
  <2>1. ASSUME NEW p \in worker[w].claims,
               Set(w, [worker[w] EXCEPT !.pc = "leaving", !.process = p])
        PROVE  \E new : Typed(new) /\ Set(w, new)
    <3>1. Typed([worker[w] EXCEPT !.pc = "leaving", !.process = p])
      BY <1>0 DEF Typed, WorkerRow, InRun
    <3> QED BY <2>1, <3>1
  <2>2. CASE Set(w, Between)
    BY <2>2, BetweenTyped
  <2> QED BY <2>1, <2>2 DEF PassFails, WorkerCrash
<1> QED BY <1>1, <1>2, <1>3, WorkerSet

LEMMA ManageSteps == ASSUME WInv, Manage PROVE Kept
<1>1. StoreInv' /\ StaysTerminal /\ StaysDeleted
  <2>1. CASE \E p \in Process : CreateProcess(p) \/ PauseProcess(p)
                                  \/ ResumeProcess(p) \/ ArchiveProcess(p)
    BY <2>1, Managed DEF WInv, StoreKept, DeletedStays, StaysDeleted
  <2>2. CASE \E P \in SUBSET Process : DeleteArchived(P)
    BY <2>2, Deleted DEF WInv, StaysDeleted
  <2>3. CASE ExpireActive
    BY <2>3, Expiring, TablesTyped
       DEF ExpireActive, WInv, StoreKept, DeletedStays, StaysDeleted, RunsTyped, RunRow, LocksTyped
  <2> QED BY <2>1, <2>2, <2>3 DEF Manage
<1> QED BY <1>1 DEF Manage, WInv, Kept

LEMMA TimeSteps == ASSUME WInv, Tick PROVE Kept
<1>1. StoreInv' /\ StaysTerminal /\ StaysDeleted
  BY TimePassed DEF Tick, WInv, StoreKept, DeletedStays, StaysDeleted
<1> DEFINE age(w) == IF worker[w].pc = "idle" THEN 0 ELSE Older(worker[w].age)
<1>2. ASSUME NEW w \in Thread PROVE Typed([worker[w] EXCEPT !.age = age(w)])
  <2>1. Typed(worker[w])
    BY DEF WInv
  <2>2. age(w) \in 0..Horizon
    BY <2>1, LimitsArePositive DEF Typed, WorkerRow, Older
  <2> HIDE DEF age
  <2> QED BY <2>1, <2>2 DEF Typed, WorkerRow
<1>3. worker' = [w \in Thread |-> [worker[w] EXCEPT !.age = age(w)]]
  BY DEF Tick
<1> HIDE DEF age
<1>4. worker' \in [Thread -> WorkerRow] /\ \A w \in Thread : Typed(worker'[w])
  BY <1>2, <1>3 DEF Typed
<1> QED BY <1>1, <1>4 DEF Tick, WInv, Kept, Typed

LEMMA WInvNext == ASSUME WInv, [WorkerNext]_workerVars PROVE Kept
<1>1. CASE UNCHANGED workerVars
  BY <1>1, StoreIdle DEF workerVars, store, WInv, Kept, StoreKept, DeletedStays, StaysDeleted
<1>2. ASSUME NEW w \in Thread, Work(w) PROVE Kept
  BY <1>2, ClaimSteps, RunSteps DEF Work
<1> QED BY <1>1, <1>2, FailureSteps, ManageSteps, TimeSteps DEF WorkerNext

LEMMA WInvHolds == WorkerSpec => []WInv
<1>1. WInv /\ [WorkerNext]_workerVars => WInv'
  BY WInvNext DEF Kept
<1> QED BY <1>1, WInvInit, PTL DEF WorkerSpec

\* Tables, workers and failures keep their types, and no pass overdraws its
\* budget of runs that use a model, whatever crashes and whoever manages processes.
THEOREM WorkerTypeCorrect == WorkerSpec => []WorkerTypeOK
BY WInvHolds, WInvType, PTL

\* A process that has ended has no next run, whatever late results, recoveries
\* and leases there are.
THEOREM EndedIsQuiet == WorkerSpec => []TerminalIsQuiet
<1>1. WInv => TerminalIsQuiet
  BY DEF WInv, StoreInv
<1> QED BY <1>1, WInvHolds, PTL

\* No step of any thread or person brings a process back that has ended.
THEOREM EndedIsFinal == WorkerSpec => TerminalIsFinal
<1>1. WInv /\ [WorkerNext]_workerVars => [StaysTerminal]_store
  BY WInvNext DEF Kept
<1>2. WorkerSpec => [][StaysTerminal]_store
  BY <1>1, WInvHolds, PTL DEF WorkerSpec
<1> QED BY <1>2 DEF TerminalIsFinal, StaysTerminal

-----------------------------------------------------------------------------
(* Leases *)

\* A pass starts with no claims at its age 0, and the process in execution is one
\* of the batch.
Sound(row) ==
    /\ row.pc \in {"idle", "begun", "reading"} => row.claims = {} /\ row.age = 0
    /\ row.pc \in InRun => row.process \in row.claims

\* For as long as a lease lasts from the start of a pass, the lock row of each
\* claim not worked off is the thread's own, unless the process is deleted or the
\* claim was lost.
HeldBy(w, p) ==
    \/ proc[p].status = "deleted"
    \/ lock[p].holder = w /\ lock[p].left >= Lease - worker[w].age
ClaimsHeld ==
    \A w \in Thread : \A p \in worker[w].claims : ~Unprotected(w, p) => HeldBy(w, p)

ClaimsApart ==
    \A v, w \in Thread : \A p \in worker[v].claims \cap worker[w].claims :
        v # w => Unprotected(v, p) \/ Unprotected(w, p)

RunsApart ==
    \A v, w \in Thread : v # w /\ worker[v].run \in Run => worker[v].run # worker[w].run

\* Deleting a process takes its runs along.
StartedExist ==
    \A r \in Run : run[r].status = "started"
        => run[r].process \in Process /\ proc[run[r].process].status # "deleted"

\* The row of the run in execution has been deleted, or is still as the thread
\* wrote it, or the thread has no lease of its own any more.
OwnRun(w) ==
    LET r == run[worker[w].run] IN
    worker[w].pc \in InRun =>
        \/ r.status = "none"
        \/ r.process = worker[w].process
           /\ (r.status = "started" \/ Unprotected(w, worker[w].process))

LInv ==
    /\ WInv
    /\ \A w \in Thread : Sound(worker[w]) /\ OwnRun(w)
    /\ ClaimsHeld /\ ClaimsApart /\ RunsApart /\ StartedExist

\* A thread's row that claims no more, is no younger, and names no other run.
Narrower(old, new) ==
    /\ new \in WorkerRow /\ Sound(new)
    /\ new.claims \subseteq old.claims
    /\ new.claims = {} \/ (new.age = old.age /\ new.lost = old.lost)
    /\ new.run \in {old.run, NoRun}

LEMMA BetweenSound == Sound(Between) /\ Sound([Between EXCEPT !.pc = "begun"])
BY DEF Sound, Between, InRun

LEMMA BetweenNarrower ==
  ASSUME NEW old
  PROVE  Narrower(old, Between) /\ Narrower(old, [Between EXCEPT !.pc = "begun"])
BY BetweenTyped, BetweenSound DEF Narrower, Between, Typed, WorkerRow

LEMMA Narrowed ==
  ASSUME LInv, NEW w \in Thread, NEW new, Set(w, new), Narrower(worker[w], new)
  PROVE  (\A v \in Thread : Sound(worker'[v])) /\ ClaimsApart' /\ RunsApart'
<1>1. \A v \in Thread : worker'[v] = IF v = w THEN new ELSE worker[v]
  BY DEF LInv, WInv, Set
<1>2. \A v \in Thread : Sound(worker'[v])
  BY <1>1 DEF LInv, Narrower
<1>3. \A v \in Thread : /\ worker'[v].claims \subseteq worker[v].claims
                        /\ worker'[v].claims = {} \/ (/\ worker'[v].age = worker[v].age
                                                      /\ worker'[v].lost = worker[v].lost)
                        /\ worker'[v].run \in {worker[v].run, NoRun}
  BY <1>1 DEF Narrower
<1>4. ClaimsApart'
  BY <1>3 DEF LInv, ClaimsApart, Unprotected
<1>5. RunsApart'
  BY <1>3, NoRunIsNoId DEF LInv, RunsApart
<1> QED BY <1>2, <1>4, <1>5

LEMMA StillHeld ==
  ASSUME LInv, NEW w \in Thread, NEW new, Set(w, new), Narrower(worker[w], new),
         \A p \in Process : proc[p].status = "deleted" => proc'[p].status = "deleted",
         \A v \in Thread : \A p \in worker'[v].claims :
            lock[p].holder = v => lock'[p] = lock[p] \/ proc'[p].status = "deleted"
  PROVE  ClaimsHeld'
<1>1. \A v \in Thread : worker'[v] = IF v = w THEN new ELSE worker[v]
  BY DEF LInv, WInv, Set
<1> SUFFICES ASSUME NEW v \in Thread, NEW p \in worker'[v].claims,
                    ~Unprotected(v, p)'
             PROVE  HeldBy(v, p)'
  BY DEF ClaimsHeld
<1>2. p \in worker[v].claims /\ worker'[v].age = worker[v].age
         /\ worker'[v].lost = worker[v].lost
  BY <1>1 DEF Narrower
<1>3. p \in Process
  BY <1>2 DEF LInv, WInv, WorkerRow
<1>4. HeldBy(v, p)
  BY <1>2 DEF LInv, ClaimsHeld, Unprotected
<1> QED BY <1>2, <1>3, <1>4 DEF HeldBy

\* The thread goes on with no run in execution; processes and runs are left alone.
LEMMA StepsAside ==
  ASSUME LInv, WInv', NEW w \in Thread, NEW new, Set(w, new), Narrower(worker[w], new),
         new.pc \notin InRun, UNCHANGED <<proc, run>>,
         \A v \in Thread : \A p \in worker'[v].claims :
            lock[p].holder = v => lock'[p] = lock[p]
  PROVE  LInv'
<1>1. \A v \in Thread : worker'[v] = IF v = w THEN new ELSE worker[v]
  BY DEF LInv, WInv, Set
<1>2. \A v \in Thread : OwnRun(v)'
  BY <1>1 DEF LInv, OwnRun, Unprotected
<1>3. StartedExist'
  BY DEF LInv, StartedExist
<1> QED BY <1>2, <1>3, Narrowed, StillHeld DEF LInv

LEMMA WorkerField ==
  ASSUME WInv, NEW w \in Thread PROVE worker[w] \in WorkerRow
BY DEF WInv

\* An exception, a crash, a refused transaction, the start or the end of a claim.
LEMMA AsideSteps ==
  ASSUME LInv, WInv', NEW w \in Thread,
         \/ ReadDue(w) \/ ClaimConflicts(w)
         \/ \E p \in Process : StartMissesProcess(w, p)
         \/ FinishMissesRun(w) \/ Release(w) \/ Leave(w)
         \/ PassFails(w) \/ WorkerCrash(w)
  PROVE  LInv'
<1>0. worker[w] \in WorkerRow /\ Sound(worker[w])
  BY WorkerField DEF LInv
<1>1. ASSUME NEW q \in Process \cup {NoProcess},
             Set(w, [worker[w] EXCEPT !.pc = "leaving", !.process = q]),
             UNCHANGED store
      PROVE  LInv'
  <2> DEFINE new == [worker[w] EXCEPT !.pc = "leaving", !.process = q]
  <2>1. Narrower(worker[w], new) /\ new.pc \notin InRun
    BY <1>0 DEF Narrower, Sound, WorkerRow, InRun
  <2> HIDE DEF new
  <2> QED BY <1>1, <2>1, StepsAside DEF store, new
<1>2. ASSUME Set(w, Between), UNCHANGED store PROVE LInv'
  BY <1>2, BetweenNarrower, StepsAside DEF store, Between, InRun
<1>3. ASSUME NEW p \in Process, StartMissesProcess(w, p) PROVE LInv'
  BY <1>1, <1>3 DEF StartMissesProcess
<1>4. CASE FinishMissesRun(w)
  <2>1. [worker[w] EXCEPT !.pc = "leaving"]
           = [worker[w] EXCEPT !.pc = "leaving", !.process = worker[w].process]
    BY <1>0 DEF WorkerRow
  <2>2. worker[w].process \in Process \cup {NoProcess}
    BY <1>0 DEF WorkerRow
  <2> QED BY <1>1, <1>4, <2>1, <2>2 DEF FinishMissesRun
<1>5. CASE PassFails(w) \/ WorkerCrash(w)
  <2>1. worker[w].claims \subseteq Process
    BY <1>0 DEF WorkerRow
  <2> QED BY <1>1, <1>2, <1>5, <2>1 DEF PassFails, WorkerCrash
<1>6. CASE Release(w)
  <2> DEFINE p == worker[w].process
             left == worker[w].claims \ {p}
             new == IF left = {} THEN Between
                    ELSE [worker[w] EXCEPT !.pc = "pass", !.claims = left,
                                           !.process = NoProcess, !.run = NoRun]
  <2>1. Set(w, new) /\ ReleaseLease(w, p)
    BY <1>6 DEF Release
  <2>2. Narrower(worker[w], new) /\ new.pc \notin InRun /\ p \notin new.claims
    <3>1. CASE left = {}
      BY <3>1, BetweenNarrower DEF Between, InRun
    <3>2. CASE left # {}
      BY <1>0, <3>2 DEF Narrower, Sound, WorkerRow, InRun
    <3> QED BY <3>1, <3>2
  <2> HIDE DEF new
  <2>3. \A v \in Thread : \A q \in worker'[v].claims :
           lock[q].holder = v => lock'[q] = lock[q]
    BY <2>1, <2>2 DEF LInv, WInv, StoreInv, StoreTypeOK, Set, ReleaseLease
  <2> QED BY <2>1, <2>2, <2>3, StepsAside DEF ReleaseLease
<1>7. CASE Leave(w)
  <2>1. \A v \in Thread : \A q \in worker'[v].claims :
           lock[q].holder = v => lock'[q] = lock[q]
    BY <1>7 DEF Leave, LInv, WInv, StoreInv, StoreTypeOK, Set, ReleaseLease, Between
  <2> QED BY <1>7, <2>1, BetweenNarrower, StepsAside DEF Leave, ReleaseLease, Between, InRun
<1>8. CASE ReadDue(w)
  <2>1. ASSUME NEW page, NEW p,
               Set(w, [worker[w] EXCEPT !.pc = "reading", !.candidates = page,
                                        !.process = p, !.found = HasRow(p)])
        PROVE  LInv'
    <3> DEFINE new == [worker[w] EXCEPT !.pc = "reading", !.candidates = page,
                                        !.process = p, !.found = HasRow(p)]
    <3>1. worker'[w] = new /\ new \in WorkerRow
      BY <2>1 DEF LInv, WInv, Set
    <3>2. Narrower(worker[w], new) /\ new.pc \notin InRun
      BY <1>0, <1>8, <3>1 DEF Narrower, Sound, WorkerRow, InRun, ReadDue
    <3> HIDE DEF new
    <3> QED BY <1>8, <2>1, <3>2, StepsAside DEF ReadDue, store, new
  <2> QED BY <1>2, <1>8, <2>1 DEF ReadDue
<1> QED BY <1>2, <1>3, <1>4, <1>5, <1>6, <1>7, <1>8 DEF ClaimConflicts

LEMMA KeptDeleted ==
  ASSUME StoreKept
  PROVE  \A p \in Process : proc[p].status = "deleted" <=> proc'[p].status = "deleted"
BY DEF StoreKept, DeletedStays

\* A run is recorded: its own thread's row of it is closed.
LEMMA FinishSteps ==
  ASSUME LInv, WInv', NEW w \in Thread, FinishRun(w) \/ SkipForBudget(w)
  PROVE  LInv'
<1> DEFINE r == worker[w].run
           new == [worker[w] EXCEPT !.pc = "closing"]
<1>1. worker[w] \in WorkerRow /\ Sound(worker[w]) /\ r \in Run
        /\ worker[w].age \in 0..Horizon
  BY DEF LInv, WInv, Typed, FinishRun, SkipForBudget, InRun, WorkerRow
<1>2. run' = [run EXCEPT ![r] = RunOver(@, "ended")]
  BY DEF FinishRun, SkipForBudget, RecordCompleted, RecordUnsuccessful
<1>3. StoreKept /\ UNCHANGED lock /\ Set(w, new)
  <2>1. UNCHANGED lock /\ Set(w, new)
    BY DEF FinishRun, SkipForBudget, RecordCompleted, RecordUnsuccessful
  <2>2. StoreKept
    BY <1>1, RunCompleted, RunUnsuccessful DEF FinishRun, SkipForBudget, LInv, WInv
  <2> QED BY <2>1, <2>2
<1>4. Narrower(worker[w], new) /\ new.pc \notin InRun
  BY <1>1 DEF Narrower, Sound, WorkerRow, InRun
<1>5. \A v \in Thread : worker'[v] = IF v = w THEN new ELSE worker[v]
  BY <1>3 DEF LInv, WInv, Set
<1>6. ASSUME NEW q \in Run
      PROVE  /\ run'[q] = IF q = r THEN RunOver(run[q], "ended") ELSE run[q]
             /\ run[q] \in RunRow /\ RunOver(run[q], "ended").status = "ended"
  BY <1>2 DEF LInv, WInv, StoreInv, StoreTypeOK, RunRow, RunOver
<1> HIDE DEF new, r
<1>7. ASSUME NEW v \in Thread PROVE OwnRun(v)'
  <2>1. CASE v = w
    BY <1>4, <1>5, <2>1 DEF OwnRun
  <2>2. CASE v # w /\ worker[v].pc \in InRun
    <3>1. worker[v].run \in Run /\ worker[v].run # r
      BY <2>2 DEF LInv, WInv, Typed, RunsApart, r
    <3>2. run'[worker[v].run] = run[worker[v].run]
      BY <1>6, <3>1
    <3> QED BY <1>5, <2>2, <3>2 DEF LInv, OwnRun, Unprotected
  <2>3. CASE v # w /\ worker[v].pc \notin InRun
    BY <1>5, <2>3 DEF OwnRun
  <2> QED BY <2>1, <2>2, <2>3
<1>8. StartedExist'
  <2>1. ASSUME NEW q \in Run, run'[q].status = "started" PROVE run'[q] = run[q]
    BY <1>6, <2>1 DEF RunRow
  <2> QED BY <1>3, <2>1, KeptDeleted DEF LInv, StartedExist
<1> QED BY <1>3, <1>4, <1>7, <1>8, Narrowed, StillHeld, KeptDeleted DEF LInv

\* A pass begins: no run of a thread in time is among the stale ones.
LEMMA BeginSteps ==
  ASSUME LInv, WInv', NEW w \in Thread, BeginPass(w) PROVE LInv'
<1> DEFINE new == [Between EXCEPT !.pc = "begun"]
<1>0. PICK rows \in OldestRuns : Recover(StaleRuns(rows))
  BY DEF BeginPass, RecoverStaleRuns
<1>1. StoreKept /\ UNCHANGED lock /\ Set(w, new)
  BY <1>0, Recovered DEF BeginPass, Recover, LInv, WInv
<1>2. Narrower(worker[w], new) /\ new.pc \notin InRun
  BY BetweenNarrower DEF Between, InRun
<1>3. \A v \in Thread : worker'[v] = IF v = w THEN new ELSE worker[v]
  BY <1>1 DEF LInv, WInv, Set
<1>4. ASSUME NEW q \in Run
      PROVE  /\ run[q] \in RunRow
             /\ run'[q] = IF q \in StaleRuns(rows) THEN RunOver(run[q], "ended")
                                                   ELSE run[q]
             /\ RunOver(run[q], "ended").status = "ended"
             /\ RunOver(run[q], "ended").process = run[q].process
  <2>1. run[q] \in RunRow
    BY TablesTyped DEF LInv, WInv, RunsTyped
  <2>2. run' = [r \in Run |-> IF r \in StaleRuns(rows) THEN RunOver(run[r], "ended")
                                                        ELSE run[r]]
    BY <1>0 DEF Recover
  <2> QED BY <2>1, <2>2 DEF RunRow, RunOver
<1> HIDE DEF new
<1>5. ASSUME NEW v \in Thread PROVE OwnRun(v)'
  <2> DEFINE r == worker[v].run
  <2>1. CASE worker'[v].pc \notin InRun
    BY <2>1 DEF OwnRun
  <2>2. CASE worker'[v].pc \in InRun
    <3>1. worker'[v] = worker[v] /\ worker[v].pc \in InRun /\ r \in Run
      BY <1>2, <1>3, <2>2 DEF LInv, WInv, Typed
    <3>2. CASE r \notin StaleRuns(rows)
      BY <1>4, <3>1, <3>2 DEF LInv, OwnRun, Unprotected
    <3>3. CASE r \in StaleRuns(rows)
      <4> DEFINE p == worker[v].process
      <4>1. run[r].status = "started" /\ ~Leased(run[r].process)
        BY <3>3 DEF StaleRuns, OldestRuns, Overdue
      <4>2. run[r].process = p
        BY <3>1, <4>1 DEF LInv, OwnRun
      <4>3. p \in worker[v].claims /\ p \in Process /\ proc[p].status # "deleted"
        BY <3>1, <4>1, <4>2 DEF LInv, Sound, StartedExist
      <4>4. Unprotected(v, p)
        <5>1. lock[p].left \in Nat /\ worker[v].age \in Nat
          BY <4>3, LimitsArePositive
             DEF LInv, WInv, StoreInv, StoreTypeOK, WorkerRow
        <5>2. ~(lock[p].left > 0)
          BY <4>1, <4>2 DEF Leased
        <5>3. ~Unprotected(v, p) => lock[p].left >= Lease - worker[v].age
          BY <4>3 DEF LInv, ClaimsHeld, HeldBy
        <5> HIDE DEF p
        <5> QED BY <5>1, <5>2, <5>3, LimitsArePositive DEF Unprotected
      <4>6. run'[r].process = run[r].process
        BY <1>4, <3>1
      <4> QED BY <3>1, <4>2, <4>4, <4>6 DEF OwnRun, Unprotected
    <3> QED BY <3>2, <3>3
  <2> QED BY <2>1, <2>2
<1>6. StartedExist'
  <2>1. ASSUME NEW q \in Run, run'[q].status = "started" PROVE run'[q] = run[q]
    BY <1>4, <2>1 DEF RunRow
  <2> QED BY <1>1, <2>1, KeptDeleted DEF LInv, StartedExist
<1> QED BY <1>1, <1>2, <1>5, <1>6, Narrowed, StillHeld, KeptDeleted DEF LInv

\* What a claim is of: processes that nobody in time has, or has only until then.
FreeFor(w, claims) ==
    \A v \in Thread, p \in Process :
        v # w /\ p \in claims /\ p \in worker[v].claims
            => Unprotected(v, p) \/ Unprotected(v, p)' \/ proc[p].status = "deleted"

\* The leases of a batch are written, and the other threads' rows are the same but
\* for claims that are lost.
LEMMA LeasesTaken ==
  ASSUME LInv, WInv', StoreKept, NEW w \in Thread, NEW claims \in SUBSET Process,
         WriteLeases(w, claims), FreeFor(w, claims), UNCHANGED run,
         worker'[w].claims = claims, worker'[w].age = 0, worker'[w].pc \notin InRun,
         Sound(worker'[w]), worker'[w].run = NoRun,
         \A p \in claims : proc[p].status = "deleted" => p \in worker'[w].lost,
         \A v \in Thread \ {w} :
            /\ worker'[v].claims = worker[v].claims /\ worker'[v].age = worker[v].age
            /\ worker'[v].pc = worker[v].pc /\ worker'[v].process = worker[v].process
            /\ worker'[v].run = worker[v].run /\ worker[v].lost \subseteq worker'[v].lost
  PROVE  LInv'
<1>1. \A v \in Thread \ {w}, p \in Process : Unprotected(v, p) => Unprotected(v, p)'
  BY DEF Unprotected
<1>2. \A p \in Process : lock'[p] = IF p \in claims THEN Held(w, Lease) ELSE lock[p]
  BY DEF WriteLeases
<1>3. ClaimsHeld'
  <2> SUFFICES ASSUME NEW v \in Thread, NEW p \in worker'[v].claims,
                      ~Unprotected(v, p)'
               PROVE  HeldBy(v, p)'
    BY DEF ClaimsHeld
  <2>1. CASE v = w
    <3>1. p \in claims /\ worker'[v].age = 0
      BY <2>1
    <3>2. lock'[p] = Held(w, Lease)
      BY <1>2, <3>1
    <3> QED BY <2>1, <3>1, <3>2, LimitsArePositive DEF HeldBy, Held
  <2>2. CASE v # w
    <3>1. /\ p \in worker[v].claims /\ p \in Process /\ ~Unprotected(v, p)
          /\ worker'[v].age = worker[v].age
      BY <1>1, <2>2 DEF LInv, WInv, WorkerRow
    <3>2. HeldBy(v, p)
      BY <3>1 DEF LInv, ClaimsHeld
    <3>3. CASE p \in claims
      <4>1. proc[p].status = "deleted"
        BY <2>2, <3>1, <3>3 DEF FreeFor
      <4> QED BY <3>1, <4>1, KeptDeleted DEF HeldBy
    <3>4. CASE p \notin claims
      BY <1>2, <3>1, <3>2, <3>4, KeptDeleted DEF HeldBy
    <3> QED BY <3>3, <3>4
  <2> QED BY <2>1, <2>2
<1>4. ASSUME NEW v \in Thread, v # w, NEW p \in worker'[v].claims \cap worker'[w].claims
      PROVE  Unprotected(v, p)' \/ Unprotected(w, p)'
  <2>1. p \in Process /\ p \in claims /\ p \in worker[v].claims
    BY <1>4
  <2>2. Unprotected(v, p) \/ Unprotected(v, p)' \/ proc[p].status = "deleted"
    BY <1>4, <2>1 DEF FreeFor
  <2> QED BY <1>1, <1>4, <2>1, <2>2 DEF Unprotected
<1>5. ClaimsApart'
  <2> SUFFICES ASSUME NEW u \in Thread, NEW v \in Thread, u # v,
                      NEW p \in worker'[u].claims \cap worker'[v].claims
               PROVE  Unprotected(u, p)' \/ Unprotected(v, p)'
    BY DEF ClaimsApart
  <2>1. CASE u = w
    BY <1>4, <2>1
  <2>2. CASE v = w
    BY <1>4, <2>2
  <2>3. CASE u # w /\ v # w
    <3>1. p \in worker[u].claims \cap worker[v].claims /\ p \in Process
      BY <2>3 DEF LInv, WInv, WorkerRow
    <3> QED BY <1>1, <2>3, <3>1 DEF LInv, ClaimsApart
  <2> QED BY <2>1, <2>2, <2>3
<1>6. RunsApart'
  BY NoRunIsNoId DEF LInv, RunsApart
<1>7. ASSUME NEW v \in Thread PROVE Sound(worker'[v]) /\ OwnRun(v)'
  <2>1. CASE v = w
    BY <2>1 DEF OwnRun
  <2>2. CASE v # w
    <3>1. Sound(worker[v]) /\ OwnRun(v)
      BY DEF LInv
    <3>2. worker[v].pc \in InRun => worker[v].process \in Process
      BY <3>1 DEF LInv, WInv, WorkerRow, Sound
    <3> QED BY <1>1, <2>2, <3>1, <3>2 DEF Sound, OwnRun
  <2> QED BY <2>1, <2>2
<1>8. StartedExist'
  BY KeptDeleted DEF LInv, StartedExist
<1> QED BY <1>3, <1>5, <1>6, <1>7, <1>8 DEF LInv

\* A process whose lease nobody has is claimed by nobody in time.
LEMMA UnleasedFree ==
  ASSUME LInv, NEW v \in Thread, NEW p \in worker[v].claims, ~Unprotected(v, p),
         proc[p].status # "deleted"
  PROVE  lock[p].holder = v /\ Leased(p)
<1>1. p \in Process /\ HeldBy(v, p) /\ worker[v].age \in Nat
  BY LimitsArePositive DEF LInv, WInv, WorkerRow, ClaimsHeld
<1>2. lock[p].left \in Nat
  BY <1>1, LimitsArePositive DEF LInv, WInv, StoreInv, StoreTypeOK
<1>3. lock[p].holder = v /\ lock[p].left >= Lease - worker[v].age
        /\ ~(worker[v].age >= Lease)
  BY <1>1 DEF HeldBy, Unprotected
<1> QED BY <1>1, <1>2, <1>3, LimitsArePositive DEF Leased

\* A claim under the write lock: only processes without a lease are taken.
LEMMA ClaimStep ==
  ASSUME LInv, WInv', NEW w \in Thread, ClaimAtOnce(w) PROVE LInv'
<1>1. PICK page \in Pages :
        LET claims == {p \in page : ~Leased(p)} IN
        /\ WriteLeases(w, claims)
        /\ Set(w, [Between EXCEPT !.pc = IF claims = {} THEN "idle" ELSE "pass",
                                  !.claims = claims])
  BY DEF ClaimAtOnce
<1> DEFINE claims == {p \in page : ~Leased(p)}
           new == [Between EXCEPT !.pc = IF claims = {} THEN "idle" ELSE "pass",
                                  !.claims = claims]
<1>2. \A p \in claims : p \in Process /\ ~Leased(p) /\ proc[p].status = "active"
  BY DEF Pages, StillDue, Due, Active
<1>4. WriteLeases(w, claims) /\ Set(w, new)
  BY <1>1
<1> HIDE DEF claims
<1>5. Sound(new) /\ new.pc \notin InRun /\ new.claims = claims /\ new.age = 0
        /\ new.run = NoRun
  BY DEF Sound, Between, InRun
<1> HIDE DEF new
<1>6. \A v \in Thread : worker'[v] = IF v = w THEN new ELSE worker[v]
  BY <1>4 DEF LInv, WInv, Set
<1>7. StoreKept /\ UNCHANGED run
  BY <1>4, LeasesWritten, Expiring, TablesTyped
     DEF ClaimAtOnce, LInv, WInv, RunsTyped, RunRow
<1>8. FreeFor(w, claims)
  BY <1>2, UnleasedFree DEF FreeFor
<1>9. claims \in SUBSET Process /\ \A p \in claims : proc[p].status # "deleted"
  BY <1>2
<1> QED BY <1>4, <1>5, <1>6, <1>7, <1>8, <1>9, LeasesTaken

\* A claim written on rows that were read before: a thread that has taken the first
\* process since has lost it.
LEMMA WriteStep ==
  ASSUME LInv, WInv', NEW w \in Thread, WriteClaims(w) PROVE LInv'
<1> DEFINE first == worker[w].process
           claims == {first} \cup {p \in worker[w].candidates : ~Leased(p)}
           new == [Between EXCEPT !.pc = "pass", !.claims = claims,
                                  !.lost = {p \in claims : Over(p)}]
<1>1. worker[w].pc = "reading" /\ WriteLeases(w, claims) /\ UNCHANGED <<proc, run>>
        /\ worker' = [v \in Thread |-> IF v = w THEN new ELSE Loses(v, first)]
  BY DEF WriteClaims
<1>2. first \in Process /\ claims \in SUBSET Process
        /\ \A p \in claims : p = first \/ ~Leased(p)
  BY <1>1 DEF LInv, WInv, Typed, WorkerRow
<1> HIDE DEF claims
<1>3. Sound(new) /\ new.pc \notin InRun /\ new.claims = claims /\ new.age = 0
        /\ new.run = NoRun /\ new.lost = {p \in claims : Over(p)}
  BY DEF Sound, Between, InRun
<1> HIDE DEF new
<1>4. ASSUME NEW v \in Thread, v # w
      PROVE  /\ worker'[v] = Loses(v, first)
             /\ worker'[v].claims = worker[v].claims /\ worker'[v].age = worker[v].age
             /\ worker'[v].pc = worker[v].pc /\ worker'[v].process = worker[v].process
             /\ worker'[v].run = worker[v].run /\ worker[v].lost \subseteq worker'[v].lost
             /\ first \in worker[v].claims /\ lock[first].holder = v /\ Leased(first)
                   => first \in worker'[v].lost
  <2>1. worker'[v] = Loses(v, first) /\ worker[v] \in WorkerRow
    BY <1>1, <1>4 DEF LInv, WInv
  <2> HIDE DEF first
  <2> QED BY <2>1 DEF Loses, WorkerRow
<1> HIDE DEF first
<1>5. StoreKept
  BY <1>1, LeasesWritten, ProcKept, TablesTyped DEF LInv, WInv, RunsTyped, RunRow
<1>6. FreeFor(w, claims)
  <2> SUFFICES ASSUME NEW v \in Thread, v # w, NEW p \in Process, p \in claims,
                      p \in worker[v].claims, ~Unprotected(v, p),
                      proc[p].status # "deleted"
               PROVE  Unprotected(v, p)'
    BY DEF FreeFor
  <2>1. lock[p].holder = v /\ Leased(p)
    BY UnleasedFree
  <2> QED BY <1>2, <1>4, <2>1 DEF Unprotected
<1>7. \A p \in claims : proc[p].status = "deleted" => p \in new.lost
  BY <1>3 DEF Over
<1>8. worker'[w] = new
  BY <1>1
<1> QED BY <1>1, <1>2, <1>3, <1>4, <1>5, <1>6, <1>7, <1>8, LeasesTaken

\* A run starts on a row that no thread has an id of.
LEMMA StartStep ==
  ASSUME LInv, WInv', NEW w \in Thread, NEW p \in Process, StartRun(w, p) PROVE LInv'
<1>1. PICK r \in Run \ InUse :
        /\ RecordStarted(r, p, worker[w].age)
        /\ Set(w, [worker[w] EXCEPT
              !.pc = IF OverBudget(w, p) THEN "skipping" ELSE "running",
              !.process = p, !.run = r,
              !.budget = IF p \in Llm /\ LlmBudget > 0 /\ ~OverBudget(w, p)
                         THEN @ - 1 ELSE @])
  BY DEF StartRun
<1> DEFINE new == [worker[w] EXCEPT
              !.pc = IF OverBudget(w, p) THEN "skipping" ELSE "running",
              !.process = p, !.run = r,
              !.budget = IF p \in Llm /\ LlmBudget > 0 /\ ~OverBudget(w, p)
                         THEN @ - 1 ELSE @]
<1>2. worker[w] \in WorkerRow /\ p \in worker[w].claims
  BY DEF StartRun, LInv, WInv
<1>3. Sound(new) /\ new.claims = worker[w].claims /\ new.age = worker[w].age
        /\ new.run = r /\ new.process = p /\ new.lost = worker[w].lost
  BY <1>2 DEF Sound, WorkerRow, InRun
<1>4. Set(w, new) /\ UNCHANGED <<proc, lock>> /\ Exists(p)
        /\ run' = [run EXCEPT ![r] = [process |-> p, status |-> "started",
                                      age |-> worker[w].age]]
  BY <1>1 DEF RecordStarted
<1> HIDE DEF new
<1>5. \A v \in Thread : worker'[v] = IF v = w THEN new ELSE worker[v]
  BY <1>4 DEF LInv, WInv, Set
<1>6. \A q \in Run : run'[q] = IF q = r THEN [process |-> p, status |-> "started",
                                            age |-> worker[w].age]
                              ELSE run[q]
  BY <1>4 DEF LInv, WInv, StoreInv, StoreTypeOK
<1>7. \A v \in Thread : worker[v].run # r
  BY DEF InUse
<1>8. \A v \in Thread : /\ worker'[v].claims = worker[v].claims
                      /\ worker'[v].age = worker[v].age
                      /\ worker'[v].lost = worker[v].lost
  BY <1>3, <1>5
<1>9. ClaimsHeld' /\ ClaimsApart'
  BY <1>4, <1>8 DEF LInv, ClaimsHeld, ClaimsApart, HeldBy, Unprotected
<1>10. RunsApart'
  BY <1>3, <1>5, <1>7 DEF LInv, RunsApart
<1>11. ASSUME NEW v \in Thread PROVE Sound(worker'[v]) /\ OwnRun(v)'
  <2>1. CASE v = w
    BY <1>3, <1>5, <1>6, <2>1 DEF OwnRun
  <2>2. CASE v # w
    <3>1. worker'[v] = worker[v] /\ Sound(worker[v]) /\ OwnRun(v)
      BY <1>5, <2>2 DEF LInv
    <3>2. worker[v].pc \in InRun => run'[worker[v].run] = run[worker[v].run]
      BY <1>6, <1>7 DEF LInv, WInv, Typed
    <3> QED BY <3>1, <3>2 DEF OwnRun, Unprotected
  <2> QED BY <2>1, <2>2
<1>12. StartedExist'
  BY <1>4, <1>6 DEF LInv, StartedExist, Exists
<1> QED BY <1>9, <1>10, <1>11, <1>12 DEF LInv

\* People manage processes: of what a thread relies on, only deletion takes away.
LEMMA ManageKeeps == ASSUME LInv, WInv', Manage PROVE LInv'
<1>0. UNCHANGED worker
  BY DEF Manage
<1>1. CASE StoreKept /\ UNCHANGED <<run, lock>>
  <2>1. ClaimsHeld'
    <3> SUFFICES ASSUME NEW v \in Thread, NEW p \in worker[v].claims,
                        ~Unprotected(v, p)
                 PROVE  HeldBy(v, p)'
      BY <1>0 DEF ClaimsHeld, Unprotected
    <3>1. p \in Process /\ HeldBy(v, p)
      BY DEF LInv, WInv, WorkerRow, ClaimsHeld
    <3> QED BY <1>0, <1>1, <3>1, KeptDeleted DEF HeldBy
  <2>2. StartedExist'
    BY <1>1, KeptDeleted DEF LInv, StartedExist
  <2>3. ClaimsApart' /\ RunsApart'
    BY <1>0 DEF LInv, ClaimsApart, RunsApart, Unprotected
  <2>4. \A w \in Thread : Sound(worker'[w]) /\ OwnRun(w)'
    BY <1>0, <1>1 DEF LInv, OwnRun, Unprotected
  <2> QED BY <2>1, <2>2, <2>3, <2>4 DEF LInv
<1>2. ASSUME NEW P \in SUBSET Process, DeleteArchived(P) PROVE LInv'
  <2>1. \A p \in Process : IF p \in P THEN proc'[p].status = "deleted"
                           ELSE proc'[p] = proc[p] /\ lock'[p] = lock[p]
    BY <1>2 DEF DeleteArchived, LInv, WInv, StoreInv, StoreTypeOK, ProcessRow
  <2>2. \A r \in Run : IF run[r].process \in P THEN run'[r].status = "none"
                       ELSE run'[r] = run[r]
    BY <1>2 DEF DeleteArchived, LInv, WInv, StoreInv, StoreTypeOK, RunOver
  <2>3. ClaimsHeld'
    <3> SUFFICES ASSUME NEW v \in Thread, NEW p \in worker[v].claims,
                        ~Unprotected(v, p)
                 PROVE  HeldBy(v, p)'
      BY <1>0 DEF ClaimsHeld, Unprotected
    <3>1. p \in Process /\ HeldBy(v, p)
      BY DEF LInv, WInv, WorkerRow, ClaimsHeld
    <3> QED BY <1>0, <2>1, <3>1 DEF HeldBy
  <2>4. StartedExist'
    BY <2>1, <2>2 DEF LInv, StartedExist
  <2>5. ClaimsApart' /\ RunsApart'
    BY <1>0 DEF LInv, ClaimsApart, RunsApart, Unprotected
  <2>6. ASSUME NEW w \in Thread PROVE Sound(worker'[w]) /\ OwnRun(w)'
    <3>1. worker[w].pc \in InRun => worker[w].run \in Run
      BY DEF LInv, WInv, Typed
    <3> QED BY <1>0, <2>2, <3>1 DEF LInv, OwnRun, Unprotected
  <2> QED BY <2>3, <2>4, <2>5, <2>6 DEF LInv
<1>3. CASE ExpireActive
  BY <1>1, <1>3, Expiring, TablesTyped
     DEF ExpireActive, LInv, WInv, RunsTyped, RunRow, LocksTyped
<1>4. ASSUME NEW p \in Process,
             CreateProcess(p) \/ PauseProcess(p) \/ ResumeProcess(p) \/ ArchiveProcess(p)
      PROVE  LInv'
  <2>1. StoreKept
    BY <1>4, Managed DEF LInv, WInv
  <2>2. UNCHANGED <<run, lock>>
    BY <1>4 DEF CreateProcess, PauseProcess, ResumeProcess, ArchiveProcess
  <2> QED BY <1>1, <2>1, <2>2
<1> QED BY <1>2, <1>3, <1>4 DEF Manage

\* Time: a pass ages as its leases run out.
LEMMA TickKeeps == ASSUME LInv, WInv', Tick PROVE LInv'
<1>1. ASSUME NEW w \in Thread
      PROVE  /\ worker'[w] = [worker[w] EXCEPT !.age = IF worker[w].pc = "idle" THEN 0
                                                      ELSE Older(@)]
             /\ worker[w] \in WorkerRow
  BY DEF Tick, LInv, WInv
<1>2. ASSUME NEW w \in Thread
      PROVE  /\ worker'[w].pc = worker[w].pc /\ worker'[w].claims = worker[w].claims
             /\ worker'[w].process = worker[w].process /\ worker'[w].run = worker[w].run
             /\ worker'[w].lost = worker[w].lost /\ worker[w].age \in 0..Horizon
             /\ worker'[w].age = IF worker[w].pc = "idle" THEN 0 ELSE Older(worker[w].age)
  BY <1>1 DEF WorkerRow
<1>3. ASSUME NEW w \in Thread, worker[w].pc # "idle"
      PROVE  /\ worker[w].age >= Lease => worker'[w].age >= Lease
             /\ worker'[w].age < Lease => worker'[w].age = worker[w].age + 1
                                          /\ worker[w].age < Lease
  <2>1. worker[w].age \in 0..Horizon /\ worker'[w].age = Older(worker[w].age)
    BY <1>2, <1>3
  <2> QED BY <2>1, LimitsArePositive DEF Older
<1>4. \A w \in Thread : worker[w].pc = "idle" => worker[w].claims = {}
  BY DEF LInv, Sound
<1>5. StoreKept
  BY TimePassed DEF Tick, LInv, WInv
<1>6. ClaimsHeld'
  <2> SUFFICES ASSUME NEW v \in Thread, NEW p \in worker'[v].claims,
                      ~Unprotected(v, p)'
               PROVE  HeldBy(v, p)'
    BY DEF ClaimsHeld
  <2>1. p \in worker[v].claims /\ worker[v].pc # "idle" /\ p \in Process
    BY <1>1, <1>2, <1>4 DEF WorkerRow
  <2>a. worker'[v].age < Lease /\ p \notin worker[v].lost
    <3>1. worker'[v].age \in 0..Horizon /\ ~(worker'[v].age >= Lease)
      BY DEF Unprotected, WInv, WorkerRow
    <3> QED BY <1>2, <3>1, LimitsArePositive DEF Unprotected
  <2>2. worker'[v].age = worker[v].age + 1 /\ worker[v].age < Lease
          /\ worker[v].age \in Nat
    BY <1>2, <1>3, <2>1, <2>a, LimitsArePositive
  <2>3. HeldBy(v, p)
    <3>1. ~(worker[v].age >= Lease)
      BY <2>2, LimitsArePositive
    <3> QED BY <2>1, <2>a, <3>1 DEF LInv, ClaimsHeld, Unprotected
  <2>4. lock'[p].holder = lock[p].holder /\ lock'[p].left = Closer(lock[p].left)
          /\ lock[p].left \in Nat
    <3>1. lock'[p] = [lock[p] EXCEPT !.left = Closer(@)]
      BY <2>1 DEF Tick, TimePasses
    <3>2. lock[p] \in [holder : Thread \cup {NoThread}, left : 0..Lease]
      BY <2>1, TablesTyped DEF LInv, WInv, LocksTyped
    <3> QED BY <3>1, <3>2, LimitsArePositive
  <2>5. lock[p].left >= Lease - worker[v].age
           => lock'[p].left >= Lease - worker'[v].age
    BY <2>2, <2>4, LimitsArePositive DEF Closer
  <2> QED BY <1>5, <2>1, <2>3, <2>4, <2>5, KeptDeleted DEF HeldBy
<1>7. ClaimsApart'
  BY <1>2, <1>3, <1>4 DEF LInv, ClaimsApart, Unprotected
<1>8. RunsApart'
  BY <1>2 DEF LInv, RunsApart
<1>9. ASSUME NEW q \in Run
      PROVE  run'[q].status = run[q].status /\ run'[q].process = run[q].process
  <2>1. run'[q] = [run[q] EXCEPT !.age = IF run[q].status = "started" THEN Older(@)
                                         ELSE @]
    BY DEF Tick, TimePasses
  <2>2. run[q] \in RunRow
    BY TablesTyped DEF LInv, WInv, RunsTyped
  <2> QED BY <2>1, <2>2 DEF RunRow
<1>10. StartedExist'
  BY <1>5, <1>9, KeptDeleted DEF LInv, StartedExist
<1>11. ASSUME NEW w \in Thread PROVE Sound(worker'[w]) /\ OwnRun(w)'
  <2>1. Sound(worker'[w])
    BY <1>2 DEF Tick, LInv, Sound
  <2>2. OwnRun(w)'
    <3> SUFFICES ASSUME worker[w].pc \in InRun PROVE OwnRun(w)'
      BY <1>2 DEF OwnRun
    <3>1. worker[w].run \in Run /\ worker[w].pc # "idle"
      BY DEF LInv, WInv, Typed, InRun
    <3> QED BY <1>2, <1>3, <1>9, <3>1 DEF LInv, OwnRun, Unprotected
  <2> QED BY <2>1, <2>2
<1> QED BY <1>6, <1>7, <1>8, <1>10, <1>11 DEF LInv

-----------------------------------------------------------------------------
(* The theorems about leases *)

LEMMA LInvInit == WorkerInit => LInv
<1> SUFFICES ASSUME WorkerInit PROVE LInv
  OBVIOUS
<1>1. \A w \in Thread : worker[w] = Between
  BY DEF WorkerInit
<1>2. \A w \in Thread : Sound(worker[w]) /\ OwnRun(w)
  BY <1>1, BetweenSound DEF OwnRun, Between, InRun
<1>3. ClaimsHeld /\ ClaimsApart /\ RunsApart
  BY <1>1, NoRunIsNoId DEF ClaimsHeld, ClaimsApart, RunsApart, Between
<1>4. StartedExist
  BY DEF WorkerInit, Init, StartedExist
<1> QED BY <1>2, <1>3, <1>4, WInvInit DEF LInv

LEMMA LInvNext == ASSUME LInv, [WorkerNext]_workerVars PROVE LInv'
<1>1. WInv'
  BY WInvNext DEF LInv, Kept
<1>2. CASE UNCHANGED workerVars
  BY <1>1, <1>2
     DEF workerVars, store, LInv, OwnRun, ClaimsHeld, HeldBy, ClaimsApart, RunsApart,
         StartedExist, Unprotected
<1>3. ASSUME NEW w \in Thread, Work(w) PROVE LInv'
  BY <1>1, <1>3, BeginSteps, ClaimStep, WriteStep, StartStep, FinishSteps, AsideSteps
     DEF Work
<1>4. ASSUME NEW w \in Thread, PassFails(w) \/ WorkerCrash(w) PROVE LInv'
  BY <1>1, <1>4, AsideSteps
<1> QED BY <1>1, <1>2, <1>3, <1>4, ManageKeeps, TickKeeps DEF WorkerNext

LEMMA LInvHolds == WorkerSpec => []LInv
<1>1. LInv /\ [WorkerNext]_workerVars => LInv'
  BY LInvNext
<1> QED BY <1>1, LInvInit, PTL DEF WorkerSpec

\* However many workers there are, and however long batches, adapters and lease
\* times: two threads execute the same process only if one outlived its lease, or
\* claimed it on what it had read before the other's claim.
THEOREM NoDoubleExecution == WorkerSpec => []ExclusiveWhileLeased
<1>1. LInv => ExclusiveWhileLeased
  BY DEF LInv, ClaimsApart, Sound, InRun, Executing, ExclusiveWhileLeased
<1> QED BY <1>1, LInvHolds, PTL

\* Recovery closes the run a thread executes only if the thread outlived its lease
\* or has lost it, whatever stale_run_after_seconds is.
THEOREM LiveRunsAreNotRecovered == WorkerSpec => []RecoverySparesLeases
<1>1. LInv => RecoverySparesLeases
  BY DEF LInv, OwnRun, InRun, RecoverySparesLeases
<1> QED BY <1>1, LInvHolds, PTL

-----------------------------------------------------------------------------
(* Monitors: the stages of a run, as types *)

AdapterStage ==
    {"evaluate", "propose", "submit", "link", "search", "write", "answered"}
NotifyStage == {"queue", "send", "sent"}

Task == [stage : {"none"} \cup AdapterStage \cup NotifyStage, result : Result,
         offer : Offer \cup {NoOffer}, left : Seq(Topic), created : Nat]

OfferRow ==
    [process : Process \cup {NoProcess}, action : BOOLEAN, linked : BOOLEAN,
     recorded : BOOLEAN, shown : BOOLEAN, spoiled : BOOLEAN]

MonitorTypeOK ==
    /\ kind \in [Process -> Kinds]
    /\ task \in [Thread -> Task]
    /\ offers \in [Offer -> OfferRow]
    /\ signals \in [Topic -> [Author -> Nat]]

-----------------------------------------------------------------------------
(* The invariant *)

\* What a thread at stage s of process p knows of the offer x in its hands.
Knows(s, result, x, p, k) ==
    /\ x.process = p /\ p \in Process
    /\ s \in AdapterStage => ~x.recorded
    /\ s = "link" => x.action
    /\ s = "answered" /\ result.status = "completed"
          => x.action /\ x.linked /\ result = Approval(k[p])
    /\ s = "answered" /\ result.status # "completed" => result.send = "nothing"
    /\ s \in NotifyStage
          => x.action /\ x.linked /\ x.recorded /\ result.send = "approval"
    /\ s = "sent" => x.shown

\* A thread's task fits where it is in its pass, and its offer fits the task.
Fits(t, row, f, k) ==
    /\ row.pc = "running" <=> t.stage \in AdapterStage
    /\ t.stage \in NotifyStage => row.pc = "closing"
    /\ t.stage # "none" => row.process \in Process
    /\ t.stage \in {"search", "write"} => t.left # <<>>
    /\ t.stage \in {"submit", "link"} => t.offer # NoOffer
    /\ t.stage \in {"none", "evaluate", "propose", "search", "write"}
          => t.offer = NoOffer
    /\ t.offer # NoOffer => Knows(t.stage, t.result, f[t.offer], row.process, k)

HandsApart ==
    \A v, w \in Thread : task[v].offer # NoOffer /\ task[v].offer = task[w].offer => v = w

OfferIsSound(x) ==
    /\ x.recorded => x.process \in Process
    /\ x.shown => x.action /\ x.linked /\ x.recorded

MInv ==
    /\ MonitorTypeOK
    /\ \A w \in Thread : Fits(task[w], worker[w], offers, kind)
    /\ HandsApart
    /\ \A o \in Offer : OfferIsSound(offers[o])
    /\ MatchIsShown

LEMMA AnswersAreResults ==
  ASSUME NEW k \in Kind PROVE AnswersOf(k) \subseteq Result /\ Approval(k) \in Result
<1>1. /\ Failed \in Result /\ Skipped \in Result /\ NoMatch \in Result
      /\ \A matched \in BOOLEAN : Answer("completed", matched, Text(k)) \in Result
  BY DEF Failed, Skipped, NoMatch, Answer, Text, Result
<1>2. Approval(k) \in Result
  BY DEF Approval, Answer, Result
<1>3. /\ InstrumentAnswers(k) \subseteq Result /\ MarketRegimeAnswers(k) \subseteq Result
      /\ CompanyEventAnswers(k) \subseteq Result /\ TradeSetupAnswers(k) \subseteq Result
      /\ CaptureAnswers \subseteq Result
  BY <1>1 DEF InstrumentAnswers, MarketRegimeAnswers, CompanyEventAnswers,
     TradeSetupAnswers, CaptureAnswers
<1> QED BY <1>2, <1>3 DEF AnswersOf, Kind

LEMMA NoTaskTyped == NoTask \in Task /\ Failed \in Result
<1>1. <<>> \in Seq(Topic)
  OBVIOUS
<1> QED BY <1>1 DEF NoTask, Task, NoMatch, Failed, Answer, Result, AdapterStage, NotifyStage

LEMMA MInvInit == MonitorInit => MInv
<1> SUFFICES ASSUME MonitorInit PROVE MInv
  OBVIOUS
<1>1. MonitorTypeOK
  BY NoTaskTyped DEF MonitorInit, MonitorTypeOK, NewOffer, OfferRow
<1>2. ASSUME NEW w \in Thread PROVE Fits(task[w], worker[w], offers, kind)
  BY DEF MonitorInit, WorkerInit, Between, NoTask, Fits, AdapterStage, NotifyStage
<1>3. HandsApart
  BY DEF MonitorInit, HandsApart, NoTask
<1>4. \A o \in Offer : OfferIsSound(offers[o]) /\ ~offers[o].recorded
  BY DEF MonitorInit, NewOffer, OfferIsSound
<1> QED BY <1>1, <1>2, <1>3, <1>4 DEF MInv, MatchIsShown

-----------------------------------------------------------------------------
(* Every step is a worker's step *)

LEMMA RecordFinishes ==
  ASSUME MonitorTypeOK, NEW w \in Thread, RecordResult(w) PROVE FinishRun(w)
<1>1. task[w].result \in Result
  BY DEF MonitorTypeOK, Task
<1>2. CASE task[w].result.status = "completed"
  BY <1>1, <1>2 DEF RecordResult, InAdapter, FinishRun, Result
<1>3. CASE task[w].result.status # "completed"
  BY <1>1, <1>3 DEF RecordResult, InAdapter, FinishRun, Result
<1> QED BY <1>2, <1>3

LEMMA AdapterIdle ==
  ASSUME NEW w \in Thread, Adapter(w) \/ Notify(w)
  PROVE  UNCHANGED <<workerVars, kind>> /\ loose \subseteq loose'
BY DEF Adapter, Notify, Evaluate, SetupIsGood, Propose, Submit, Link, ProposalFails,
   Capture, SearchSignals, WriteSignal, CaptureFails, QueueNotification,
   SendNotification, AttachMessage

LEMMA MonitorStep ==
  ASSUME MonitorTypeOK, [MonitorNext]_monitorVars PROVE [WorkerNext]_workerVars
<1>1. ASSUME NEW w \in Thread, NEW p \in Process, Start(w, p) PROVE WorkerNext
  BY <1>1 DEF Start, WorkerNext, Work
<1>2. ASSUME NEW w \in Thread, RecordResult(w) PROVE WorkerNext
  BY <1>2, RecordFinishes DEF WorkerNext, Work
<1>3. ASSUME NEW w \in Thread, ThreadGoesOn(w) PROVE WorkerNext
  BY <1>3 DEF ThreadGoesOn, WorkerNext, Work
<1>4. ASSUME NEW w \in Thread, ThreadFails(w) PROVE WorkerNext
  BY <1>4 DEF ThreadFails, WorkerNext, Work
<1>5. ASSUME NEW t \in Topic, OthersWrite(t) \/ \E a \in Author : SignalEnds(t, a)
      PROVE  UNCHANGED workerVars
  BY <1>5 DEF SignalEnds, OthersWrite
<1>6. CASE Manage
  BY <1>6 DEF WorkerNext
<1>7. CASE MonitorTick
  BY <1>7 DEF MonitorTick, WorkerNext
<1>8. CASE UNCHANGED monitorVars
  BY <1>8 DEF monitorVars
<1> QED BY <1>1, <1>2, <1>3, <1>4, <1>5, <1>6, <1>7, <1>8, AdapterIdle DEF MonitorNext

-----------------------------------------------------------------------------
(* Every step keeps the invariant *)

\* The offer a thread lets go of, if it is one the match of which is recorded.
LetGo(x) == x.recorded /\ kind[x.process].notify => x.shown \/ x.spoiled

\* Thread w goes from its task to t, with at most the offer in its hands changed
\* or a free one taken; the other threads stay where they are.
LEMMA OneThread ==
  ASSUME MInv, NEW w \in Thread, NEW t \in Task,
         task' = [task EXCEPT ![w] = t],
         kind' = kind, signals' \in [Topic -> [Author -> Nat]],
         \A v \in Thread \ {w} :
            worker'[v].pc = worker[v].pc /\ worker'[v].process = worker[v].process,
         offers' \in [Offer -> OfferRow],
         \A o \in Offer : o \notin {t.offer, task[w].offer} => offers'[o] = offers[o],
         t.offer # task[w].offer /\ t.offer # NoOffer => ~Used(t.offer),
         task[w].offer # NoOffer /\ t.offer # task[w].offer
            => LetGo(offers'[task[w].offer]),
         \A o \in Offer : o \in {t.offer, task[w].offer} => OfferIsSound(offers'[o]),
         Fits(t, worker'[w], offers', kind')
  PROVE  MInv'
<1>1. MonitorTypeOK'
  BY DEF MInv, MonitorTypeOK
<1>2. \A v \in Thread : task'[v] = IF v = w THEN t ELSE task[v]
  BY DEF MInv, MonitorTypeOK
<1>3. ASSUME NEW v \in Thread, task[v].offer # NoOffer
      PROVE  Used(task[v].offer) /\ task[v].offer \in Offer
  <2>1. Fits(task[v], worker[v], offers, kind) /\ task[v] \in Task
    BY DEF MInv, MonitorTypeOK
  <2>2. task[v].offer \in Offer /\ offers[task[v].offer].process \in Process
    BY <1>3, <2>1 DEF Fits, Knows, Task
  <2> QED BY <2>2, MarkersAreNoIds DEF Used
<1>4. ASSUME NEW v \in Thread, v # w, task[v].offer # NoOffer
      PROVE  /\ task[v].offer # t.offer /\ task[v].offer # task[w].offer
             /\ offers'[task[v].offer] = offers[task[v].offer]
  <2>1. task[v].offer # task[w].offer
    BY <1>4 DEF MInv, HandsApart
  <2>2. task[v].offer # t.offer
    BY <1>3, <1>4, <2>1
  <2> QED BY <1>3, <1>4, <2>1, <2>2
<1>5. \A v \in Thread : Fits(task'[v], worker'[v], offers', kind')
  <2> SUFFICES ASSUME NEW v \in Thread, v # w PROVE Fits(task'[v], worker'[v], offers', kind')
    BY <1>2
  <2>1. Fits(task[v], worker[v], offers, kind)
    BY DEF MInv
  <2>2. /\ task'[v] = task[v] /\ worker'[v].pc = worker[v].pc
        /\ worker'[v].process = worker[v].process
    BY <1>2
  <2>3. CASE task[v].offer = NoOffer
    BY <2>1, <2>2, <2>3 DEF Fits
  <2>4. CASE task[v].offer # NoOffer
    <3>1. offers'[task[v].offer] = offers[task[v].offer]
      BY <1>4, <2>4
    <3>2. Knows(task'[v].stage, task'[v].result, offers'[task'[v].offer],
                worker'[v].process, kind')
      BY <2>1, <2>2, <2>4, <3>1 DEF Fits, Knows
    <3> QED BY <2>1, <2>2, <2>4, <3>2 DEF Fits
  <2> QED BY <2>3, <2>4
<1>6. HandsApart'
  <2> SUFFICES ASSUME NEW u \in Thread, NEW v \in Thread, u # v,
                      task'[u].offer # NoOffer, task'[u].offer = task'[v].offer
               PROVE  FALSE
    BY DEF HandsApart
  <2>1. CASE u # w /\ v # w
    BY <1>2, <2>1 DEF MInv, HandsApart
  <2>2. CASE u = w
    BY <1>2, <1>4, <2>2
  <2>3. CASE v = w
    BY <1>2, <1>4, <2>3
  <2> QED BY <2>1, <2>2, <2>3
<1>7. \A o \in Offer : OfferIsSound(offers'[o])
  BY DEF MInv
<1>8. MatchIsShown'
  <2> SUFFICES ASSUME NEW o \in Offer, offers'[o].recorded,
                      kind[offers'[o].process].notify,
                      \A v \in Thread : task'[v].offer # o
               PROVE  offers'[o].shown \/ offers'[o].spoiled
    BY DEF MatchIsShown
  <2>1. o # t.offer
    BY <1>2
  <2>2. CASE o = task[w].offer
    <3>1. o # NoOffer
      BY NoOfferIsNoId
    <3> QED BY <2>1, <2>2, <3>1 DEF LetGo
  <2>3. CASE o # task[w].offer
    <3>1. offers'[o] = offers[o] /\ \A v \in Thread : task[v].offer # o
      BY <1>2, <2>1, <2>3
    <3> QED BY <3>1 DEF MInv, MatchIsShown
  <2> QED BY <2>2, <2>3
<1> QED BY <1>1, <1>5, <1>6, <1>7, <1>8 DEF MInv, OfferIsSound

\* What a thread holds, and the row of the offer in its hands.
LEMMA InHands ==
  ASSUME MInv, NEW w \in Thread
  PROVE  /\ task[w] \in Task
         /\ Fits(task[w], worker[w], offers, kind)
         /\ task[w].offer # NoOffer
               => /\ task[w].offer \in Offer /\ offers[task[w].offer] \in OfferRow
                  /\ OfferIsSound(offers[task[w].offer])
                  /\ Knows(task[w].stage, task[w].result, offers[task[w].offer],
                           worker[w].process, kind)
         /\ offers \in [Offer -> OfferRow] /\ kind \in [Process -> Kinds]
         /\ signals \in [Topic -> [Author -> Nat]]
BY DEF MInv, MonitorTypeOK, Task, Fits

\* An offer's row with a field set.
Flagged(x, field) == [x EXCEPT ![field] = TRUE]

\* One field of the offer in a thread's hands is set, and nothing else.
LEMMA MarkedRow ==
  ASSUME MInv, NEW w \in Thread,
         NEW field \in {"action", "linked", "recorded", "shown", "spoiled"}
  PROVE  /\ Marked(w, field) \in [Offer -> OfferRow]
         /\ \A o \in Offer : o # task[w].offer => Marked(w, field)[o] = offers[o]
         /\ task[w].offer # NoOffer =>
               Marked(w, field)[task[w].offer]
                  = Flagged(offers[task[w].offer], field)
<1>1. CASE task[w].offer = NoOffer
  BY <1>1, InHands DEF Marked
<1>2. CASE task[w].offer # NoOffer
  <2>1. Flagged(offers[task[w].offer], field) \in OfferRow
    BY <1>2, InHands DEF OfferRow, Flagged
  <2> QED BY <1>2, <2>1, InHands DEF Marked, Flagged
<1> QED BY <1>1, <1>2

\* Where a thread may go in its adapter and its notification with nothing written.
LEMMA QuietSteps ==
  ASSUME MInv, NEW w \in Thread, NEW t \in Task,
         task' = [task EXCEPT ![w] = t],
         UNCHANGED <<workerVars, kind, offers, signals>>,
         t.offer = task[w].offer, Fits(t, worker[w], offers, kind)
  PROVE  MInv'
<1>1. \A v \in Thread : worker'[v] = worker[v]
  BY DEF workerVars
<1>2. \A o \in Offer : o \in {t.offer, task[w].offer} => OfferIsSound(offers'[o])
  BY DEF MInv
<1> QED BY <1>1, <1>2, InHands, OneThread DEF workerVars

\* The same with a field of the offer in hand set.
LEMMA MarkSteps ==
  ASSUME MInv, NEW w \in Thread, NEW t \in Task,
         NEW field \in {"action", "linked", "recorded", "shown", "spoiled"},
         task' = [task EXCEPT ![w] = t], UNCHANGED <<kind, signals>>,
         \A v \in Thread \ {w} :
            worker'[v].pc = worker[v].pc /\ worker'[v].process = worker[v].process,
         offers' = Marked(w, field), t.offer \in {task[w].offer, NoOffer},
         Fits(t, worker'[w], offers', kind),
         task[w].offer # NoOffer
            => LET x == Flagged(offers[task[w].offer], field) IN
               OfferIsSound(x) /\ (t.offer = NoOffer => LetGo(x))
  PROVE  MInv'
<1>0. /\ \A o \in Offer : o # task[w].offer => offers'[o] = offers[o]
      /\ task[w].offer # NoOffer =>
            offers'[task[w].offer] = Flagged(offers[task[w].offer], field)
      /\ offers' \in [Offer -> OfferRow]
  BY MarkedRow
<1>1. \A o \in Offer : o \in {t.offer, task[w].offer} => OfferIsSound(offers'[o])
  <2> SUFFICES ASSUME NEW o \in Offer, o = task[w].offer PROVE OfferIsSound(offers'[o])
    BY NoOfferIsNoId
  <2> QED BY <1>0, NoOfferIsNoId
<1>2. task[w].offer # NoOffer /\ t.offer # task[w].offer => LetGo(offers'[task[w].offer])
  BY <1>0
<1> QED BY <1>0, <1>1, <1>2, InHands, OneThread

\* The answer of an adapter with no offer in hand.
LEMMA AnsweredFits ==
  ASSUME MInv, NEW w \in Thread, NEW result \in Result,
         worker[w].pc = "running", worker[w].process \in Process, task[w].offer = NoOffer
  PROVE  /\ Answered(w, result) \in Task /\ Answered(w, result).offer = NoOffer
         /\ Fits(Answered(w, result), worker[w], offers, kind)
BY NoTaskTyped DEF Answered, NoTask, Task, Fits, AdapterStage, NotifyStage

LEMMA CapturedFits ==
  ASSUME MInv, NEW w \in Thread, NEW left \in Seq(Topic), NEW created \in Nat,
         InAdapter(w, "evaluate") \/ InAdapter(w, "search") \/ InAdapter(w, "write")
  PROVE  /\ Captured(w, left, created) \in Task
         /\ Fits(Captured(w, left, created), worker[w], offers, kind)
         /\ Captured(w, left, created).offer = task[w].offer
<1>1. /\ task[w] \in Task /\ Fits(task[w], worker[w], offers, kind)
      /\ task[w].offer = NoOffer /\ worker[w].pc = "running"
      /\ worker[w].process \in Process
  BY InHands DEF Fits, InAdapter
<1>2. /\ Answer("completed", TRUE, Text(KindOf(w))) \in Result
      /\ NoMatch \in Result
  BY DEF Answer, Text, Result, NoMatch
<1>3. CASE left # <<>>
  <2>1. Captured(w, left, created)
           = [task[w] EXCEPT !.stage = "search", !.left = left, !.created = created]
    BY <1>3 DEF Captured
  <2>2. [task[w] EXCEPT !.stage = "search", !.left = left, !.created = created] \in Task
    BY <1>1 DEF Task, AdapterStage
  <2> QED BY <1>1, <1>3, <2>1, <2>2 DEF Task, Fits, AdapterStage, NotifyStage
<1>4. CASE left = <<>>
  <2>1. PICK result \in Result : Captured(w, left, created) = Answered(w, result)
    BY <1>2, <1>4 DEF Captured
  <2> QED BY <1>1, <2>1, AnsweredFits
<1> QED BY <1>3, <1>4

\* A thread with no offer in its hands goes to a stage of the adapter where it
\* still has none.
LEMMA StageSteps ==
  ASSUME MInv, NEW w \in Thread, NEW stage \in {"propose", "write"},
         InAdapter(w, IF stage = "write" THEN "search" ELSE "evaluate"),
         task' = [task EXCEPT ![w].stage = stage],
         UNCHANGED <<workerVars, kind, offers, signals>>
  PROVE  MInv'
<1> DEFINE t == [task[w] EXCEPT !.stage = stage]
<1>1. /\ task[w] \in Task /\ Fits(task[w], worker[w], offers, kind)
  BY InHands
<1>2. t \in Task /\ t.offer = task[w].offer /\ Fits(t, worker[w], offers, kind)
  BY <1>1 DEF InAdapter, Task, Fits, AdapterStage, NotifyStage
<1>3. task' = [task EXCEPT ![w] = t]
  BY DEF MInv, MonitorTypeOK
<1> HIDE DEF t
<1> QED BY <1>2, <1>3, QuietSteps

\* A thread with no offer in its hands answers.
LEMMA AnswerSteps ==
  ASSUME MInv, NEW w \in Thread, NEW result \in Result,
         InAdapter(w, "evaluate") \/ InAdapter(w, "search"),
         Yields(w, result), UNCHANGED <<workerVars, kind, offers, signals>>
  PROVE  MInv'
<1> DEFINE t == Answered(w, result)
<1>1. /\ Fits(task[w], worker[w], offers, kind)
      /\ task[w].stage \in {"evaluate", "search"} /\ worker[w].pc = "running"
  BY InHands DEF InAdapter
<1>a. task[w].offer = NoOffer /\ worker[w].process \in Process
  BY <1>1 DEF Fits
<1>2. t \in Task /\ t.offer = task[w].offer /\ Fits(t, worker[w], offers, kind)
  BY <1>1, <1>a, AnsweredFits
<1>3. task' = [task EXCEPT ![w] = t]
  BY DEF MInv, MonitorTypeOK, Yields
<1> HIDE DEF t
<1> QED BY <1>2, <1>3, QuietSteps

LEMMA CaptureSteps ==
  ASSUME MInv, NEW w \in Thread, NEW left \in Seq(Topic), NEW created \in Nat,
         InAdapter(w, "evaluate") \/ InAdapter(w, "search") \/ InAdapter(w, "write"),
         task' = [task EXCEPT ![w] = Captured(w, left, created)],
         UNCHANGED <<workerVars, kind, offers>>,
         signals' \in [Topic -> [Author -> Nat]]
  PROVE  MInv'
<1>1. \A v \in Thread : worker'[v] = worker[v]
  BY DEF workerVars
<1>2. \A o \in Offer : OfferIsSound(offers'[o])
  BY DEF MInv
<1> DEFINE t == Captured(w, left, created)
<1>3. t \in Task /\ t.offer = task[w].offer /\ Fits(t, worker'[w], offers', kind')
  BY <1>1, CapturedFits
<1> HIDE DEF t
<1>4. task' = [task EXCEPT ![w] = t]
  BY DEF t
<1> QED BY <1>1, <1>2, <1>3, <1>4, InHands, OneThread

LEMMA ReadingSteps ==
  ASSUME MInv, NEW w \in Thread,
         Evaluate(w) \/ SetupIsGood(w) \/ Capture(w) \/ SearchSignals(w)
            \/ WriteSignal(w) \/ CaptureFails(w)
  PROVE  MInv'
<1>0. /\ task[w] \in Task /\ Fits(task[w], worker[w], offers, kind)
      /\ signals \in [Topic -> [Author -> Nat]] /\ kind \in [Process -> Kinds]
  BY InHands
<1>1. CASE Evaluate(w)
  <2>1. KindOf(w) \in Kind
    BY <1>0, <1>1, KindsAreKinds DEF Evaluate, InAdapter, Fits, KindOf
  <2>2. PICK answer \in Result : Yields(w, answer)
    BY <1>1, <2>1, AnswersAreResults DEF Evaluate
  <2> QED BY <1>1, <2>2, AnswerSteps DEF Evaluate
<1>2. CASE SetupIsGood(w)
  BY <1>2, StageSteps DEF SetupIsGood, Stage
<1>3. CASE Capture(w)
  <2>0. PICK n \in 0..MaxCandidates : \E candidates \in [1..n -> Topic] :
          task' = [task EXCEPT ![w] = Captured(w, candidates, 0)]
    BY <1>3 DEF Capture
  <2>1. PICK candidates \in [1..n -> Topic] :
          task' = [task EXCEPT ![w] = Captured(w, candidates, 0)]
    BY <2>0
  <2>2. candidates \in Seq(Topic)
    BY SignalBounds
  <2> QED BY <1>0, <1>3, <2>1, <2>2, CaptureSteps DEF Capture
<1>4. ASSUME InAdapter(w, "search") \/ InAdapter(w, "write")
      PROVE  /\ Head(task[w].left) \in Topic /\ Tail(task[w].left) \in Seq(Topic)
             /\ task[w].created \in Nat /\ worker[w].process \in Process
  BY <1>0, <1>4 DEF InAdapter, Fits, Task
<1>5. CASE SearchSignals(w)
  <2>1. CASE PassBy(w)
    BY <1>0, <1>4, <1>5, <2>1, CaptureSteps DEF SearchSignals, PassBy
  <2>2. CASE Stage(w, "write")
    BY <1>5, <2>2, StageSteps DEF SearchSignals, Stage
  <2> QED BY <1>5, <2>1, <2>2 DEF SearchSignals
<1>6. CASE WriteSignal(w)
  <2>1. /\ Head(task[w].left) \in Topic /\ worker[w].process \in Process
        /\ Tail(task[w].left) \in Seq(Topic) /\ task[w].created + 1 \in Nat
    BY <1>4, <1>6 DEF WriteSignal
  <2>2. signals' \in [Topic -> [Author -> Nat]]
    <3> DEFINE t == Head(task[w].left)
               a == worker[w].process
    <3>1. signals' = [signals EXCEPT ![t][a] = @ + 1] /\ t \in Topic /\ a \in Author
      BY <1>6, <2>1 DEF WriteSignal, Author
    <3> HIDE DEF t, a
    <3>2. signals \in [Topic -> [Author -> Nat]] /\ signals[t][a] + 1 \in Nat
      BY <1>0, <3>1
    <3> QED BY <3>1, <3>2
  <2> QED BY <1>6, <2>1, <2>2, CaptureSteps DEF WriteSignal
<1>7. CASE CaptureFails(w)
  BY <1>0, <1>4, <1>7, CaptureSteps, AnswerSteps, NoTaskTyped DEF CaptureFails, PassBy
<1> QED BY <1>1, <1>2, <1>3, <1>5, <1>6, <1>7

-----------------------------------------------------------------------------

\* The three writes for an order, and their failure.
LEMMA ProposalSteps ==
  ASSUME MInv, NEW w \in Thread,
         Propose(w) \/ Submit(w) \/ Link(w) \/ ProposalFails(w)
  PROVE  MInv'
<1> DEFINE x == offers[task[w].offer]
<1>0. /\ task[w] \in Task /\ Fits(task[w], worker[w], offers, kind)
      /\ task \in [Thread -> Task]
      /\ offers \in [Offer -> OfferRow] /\ kind \in [Process -> Kinds]
      /\ task[w].offer # NoOffer
            => /\ task[w].offer \in Offer /\ x \in OfferRow
               /\ OfferIsSound(x)
               /\ Knows(task[w].stage, task[w].result, x, worker[w].process, kind)
  BY InHands DEF MInv, MonitorTypeOK
<1>s. UNCHANGED workerVars => \A v \in Thread : worker'[v] = worker[v]
  BY DEF workerVars
<1>1. CASE Propose(w)
  <2>1. PICK o \in Offer :
          /\ ~Used(o)
          /\ offers' = [offers EXCEPT ![o].process = worker[w].process]
          /\ task' = [task EXCEPT ![w].stage = "submit", ![w].offer = o]
    BY <1>1 DEF Propose
  <2> DEFINE t == [task[w] EXCEPT !.stage = "submit", !.offer = o]
  <2>2. task' = [task EXCEPT ![w] = t] /\ t \in Task /\ t.offer = o
    BY <1>0, <2>1 DEF Task, AdapterStage
  <2>3. /\ worker[w].process \in Process /\ worker[w].pc = "running"
        /\ task[w].offer = NoOffer
    BY <1>0, <1>1 DEF Propose, InAdapter, Fits
  <2>4. ~offers[o].recorded /\ ~offers[o].shown
    BY <2>1, MarkersAreNoIds DEF MInv, OfferIsSound, Used
  <2>5. /\ offers' \in [Offer -> OfferRow]
        /\ \A q \in Offer : q # o => offers'[q] = offers[q]
        /\ offers'[o] = [offers[o] EXCEPT !.process = worker[w].process]
        /\ offers[o] \in OfferRow
    BY <1>0, <2>1, <2>3 DEF OfferRow
  <2>6. Fits(t, worker[w], offers', kind)
    BY <1>0, <2>3, <2>4, <2>5, NoOfferIsNoId
       DEF Fits, Knows, AdapterStage, NotifyStage, OfferRow
  <2>7. OfferIsSound(offers'[o])
    BY <2>4, <2>5 DEF OfferIsSound, OfferRow
  <2>8. \A q \in Offer : q \in {t.offer, task[w].offer} => OfferIsSound(offers'[q])
    BY <2>2, <2>3, <2>7, NoOfferIsNoId
  <2>9. /\ kind' = kind /\ signals' \in [Topic -> [Author -> Nat]]
        /\ \A v \in Thread : worker'[v] = worker[v]
    BY <1>1, <1>s, InHands DEF Propose
  <2> HIDE DEF t
  <2>10. Fits(t, worker'[w], offers', kind')
    BY <2>6, <2>9
  <2>11. /\ \A q \in Offer : q \notin {t.offer, task[w].offer} => offers'[q] = offers[q]
         /\ ~Used(t.offer)
         /\ task' = [task EXCEPT ![w] = t] /\ t \in Task
    BY <2>1, <2>2, <2>5
  <2>12. /\ t.offer # task[w].offer /\ t.offer # NoOffer => ~Used(t.offer)
         /\ task[w].offer # NoOffer /\ t.offer # task[w].offer
               => LetGo(offers'[task[w].offer])
         /\ offers' \in [Offer -> OfferRow]
    BY <2>3, <2>5, <2>11
  <2>13. \A v \in Thread \ {w} :
            worker'[v].pc = worker[v].pc /\ worker'[v].process = worker[v].process
    BY <2>9
  <2> QED BY <2>8, <2>9, <2>10, <2>11, <2>12, <2>13, OneThread
<1>2. CASE Submit(w)
  <2> DEFINE t == [task[w] EXCEPT !.stage = "link"]
             y == Flagged(x, "action")
  <2>1. task' = [task EXCEPT ![w] = t] /\ t \in Task /\ t.offer = task[w].offer
    BY <1>0, <1>2 DEF Submit, Stage, Task, AdapterStage
  <2>2. /\ task[w].offer # NoOffer /\ worker[w].pc = "running"
        /\ worker[w].process \in Process /\ ~x.recorded
    BY <1>0, <1>2 DEF Submit, InAdapter, Fits, Knows, AdapterStage
  <2>3. offers'[task[w].offer] = y
    BY <1>2, <2>2, MarkedRow DEF Submit
  <2>4. OfferIsSound(y) /\ Knows("link", t.result, y, worker[w].process, kind)
    BY <1>0, <1>2, <2>2 DEF Submit, InAdapter, OfferIsSound, Knows, Flagged, OfferRow,
       AdapterStage, NotifyStage
  <2>5. Fits(t, worker[w], offers', kind)
    BY <1>0, <2>1, <2>2, <2>3, <2>4 DEF Fits, AdapterStage, NotifyStage, Task
  <2> HIDE DEF t
  <2> QED BY <1>0, <1>2, <1>s, <2>1, <2>2, <2>4, <2>5, MarkSteps DEF Submit
<1>3. CASE Link(w)
  <2> DEFINE result == Approval(KindOf(w))
             t == Answered(w, result)
             y == Flagged(x, "linked")
  <2>2. /\ task[w].offer # NoOffer /\ worker[w].pc = "running"
        /\ worker[w].process \in Process /\ ~x.recorded
        /\ x.action /\ KindOf(w) \in Kind
    BY <1>0, <1>3, KindsAreKinds
       DEF Link, InAdapter, Fits, Knows, AdapterStage, KindOf
  <2>0. result \in Result /\ result.status = "completed"
    BY <2>2, AnswersAreResults DEF Approval, Answer
  <2>1. task' = [task EXCEPT ![w] = t] /\ t \in Task /\ t.offer = task[w].offer
          /\ t.stage = "answered" /\ t.result = result
    BY <1>0, <1>3, <2>0, NoTaskTyped DEF Link, Yields, Answered, NoTask, Task, AdapterStage
  <2> HIDE DEF t
  <2>3. offers'[task[w].offer] = y
    BY <1>3, <2>2, MarkedRow DEF Link
  <2>4. OfferIsSound(y) /\ Knows("answered", result, y, worker[w].process, kind)
    BY <1>0, <1>3, <2>0, <2>2 DEF Link, InAdapter, OfferIsSound, Knows, Flagged,
       OfferRow, AdapterStage, NotifyStage, KindOf
  <2>5. Fits(t, worker[w], offers', kind)
    BY <1>0, <2>1, <2>2, <2>3, <2>4 DEF Fits, AdapterStage, NotifyStage, Task
  <2> QED BY <1>0, <1>3, <1>s, <2>1, <2>2, <2>4, <2>5, MarkSteps DEF Link
<1>4. CASE ProposalFails(w)
  <2> DEFINE t == Answered(w, Failed)
             y == Flagged(x, "spoiled")
  <2>1. task' = [task EXCEPT ![w] = t] /\ t \in Task /\ t.offer = task[w].offer
          /\ t.stage = "answered" /\ t.result = Failed
    BY <1>0, <1>4, NoTaskTyped
       DEF ProposalFails, Yields, Answered, NoTask, Task, AdapterStage
  <2> HIDE DEF t
  <2>2. worker[w].pc = "running" /\ worker[w].process \in Process
    BY <1>0, <1>4 DEF ProposalFails, InAdapter, Fits
  <2>3. task[w].offer # NoOffer => offers'[task[w].offer] = y
    BY <1>4, MarkedRow DEF ProposalFails
  <2>4. task[w].offer # NoOffer =>
           OfferIsSound(y) /\ Knows("answered", Failed, y, worker[w].process, kind)
    BY <1>0, <1>4 DEF ProposalFails, InAdapter, OfferIsSound, Knows, Flagged,
       OfferRow, AdapterStage, NotifyStage, Failed, Answer
  <2>5. Fits(t, worker[w], offers', kind)
    BY <1>0, <2>1, <2>2, <2>3, <2>4 DEF Fits, AdapterStage, NotifyStage, Task
  <2> QED BY <1>0, <1>4, <1>s, <2>1, <2>4, <2>5, MarkSteps DEF ProposalFails
<1> QED BY <1>1, <1>2, <1>3, <1>4

\* The offers are left as they are, and one is let go of, if any.
LEMMA KeepSteps ==
  ASSUME MInv, NEW w \in Thread, NEW t \in Task,
         task' = [task EXCEPT ![w] = t], UNCHANGED <<kind, offers, signals>>,
         \A v \in Thread \ {w} :
            worker'[v].pc = worker[v].pc /\ worker'[v].process = worker[v].process,
         t.offer \in {task[w].offer, NoOffer},
         Fits(t, worker'[w], offers, kind),
         task[w].offer # NoOffer /\ t.offer = NoOffer => LetGo(offers[task[w].offer])
  PROVE  MInv'
<1>1. \A o \in Offer : OfferIsSound(offers'[o])
  BY DEF MInv
<1>2. task[w].offer # NoOffer /\ t.offer # task[w].offer => LetGo(offers'[task[w].offer])
  OBVIOUS
<1> QED BY <1>1, <1>2, InHands, OneThread

LEMMA NoTaskFits ==
  ASSUME NEW row, row.pc # "running", NEW f, NEW k
  PROVE  Fits(NoTask, row, f, k) /\ NoTask \in Task /\ NoTask.offer = NoOffer
BY NoTaskTyped DEF Fits, NoTask, AdapterStage, NotifyStage

\* What an answer with an offer in hand is like.
LEMMA AnsweredOffer ==
  ASSUME MInv, NEW w \in Thread, InAdapter(w, "answered"), task[w].offer # NoOffer
  PROVE  LET x == offers[task[w].offer] IN
         /\ x \in OfferRow /\ OfferIsSound(x) /\ ~x.recorded
         /\ x.process = worker[w].process
         /\ task[w].result.status = "completed"
               => /\ x.action /\ x.linked
                  /\ task[w].result.send =
                        IF kind[x.process].notify THEN "approval" ELSE "nothing"
         /\ task[w].result.status # "completed" => task[w].result.send = "nothing"
<1> DEFINE x == offers[task[w].offer]
<1>1. /\ x \in OfferRow /\ OfferIsSound(x) /\ task[w].stage = "answered"
      /\ Knows("answered", task[w].result, x, worker[w].process, kind)
  BY InHands DEF InAdapter
<1>2. /\ ~x.recorded /\ x.process = worker[w].process
      /\ task[w].result.status # "completed" => task[w].result.send = "nothing"
      /\ task[w].result.status = "completed" =>
            x.action /\ x.linked /\ task[w].result = Approval(kind[x.process])
  BY <1>1 DEF Knows, AdapterStage
<1>3. \A k : Approval(k).send = IF k.notify THEN "approval" ELSE "nothing"
  BY DEF Approval, Answer
<1> QED BY <1>1, <1>2, <1>3

\* The record: the offer's match is on record, and the thread goes on to notify
\* or is done with it.
LEMMA RecordSteps ==
  ASSUME MInv, WInv, NEW w \in Thread, RecordResult(w) PROVE MInv'
<1> DEFINE x == offers[task[w].offer]
           y == Flagged(x, "recorded")
<1>0. /\ task[w] \in Task /\ Fits(task[w], worker[w], offers, kind)
      /\ task \in [Thread -> Task]
      /\ InAdapter(w, "answered") /\ UNCHANGED <<kind, signals>>
  BY InHands DEF MInv, MonitorTypeOK, RecordResult
<1>1. /\ worker'[w].pc = "closing" /\ worker'[w].process = worker[w].process
      /\ \A v \in Thread \ {w} : worker'[v] = worker[v]
      /\ worker[w].process \in Process
  BY <1>0 DEF RecordResult, Set, WInv, WorkerRow, Fits, InAdapter
<1>2. task[w].offer # NoOffer => task[w].offer \in Offer
  BY <1>0 DEF Task
<1>3. CASE task[w].result.status = "completed"
  <2>1. offers' = Marked(w, "recorded")
    BY <1>3 DEF RecordResult
  <2>2. /\ \A o \in Offer : o # task[w].offer => offers'[o] = offers[o]
        /\ task[w].offer # NoOffer => offers'[task[w].offer] = y
    BY <2>1, MarkedRow
  <2>3. task[w].offer # NoOffer => OfferIsSound(y) /\ y.recorded
    BY <1>0, <1>3, AnsweredOffer DEF OfferIsSound, Flagged, OfferRow, Fits, InAdapter
  <2>4. CASE task[w].result.send = "nothing"
    <3>1. task' = [task EXCEPT ![w] = NoTask]
      BY <2>4 DEF RecordResult
    <3>2. task[w].offer # NoOffer => LetGo(y)
      BY <1>0, <1>3, <2>4, AnsweredOffer DEF LetGo, Flagged, OfferRow
    <3> QED BY <1>0, <1>1, <2>1, <2>3, <3>1, <3>2, NoTaskFits, MarkSteps
  <2>5. CASE task[w].result.send # "nothing"
    <3> DEFINE t == [task[w] EXCEPT !.stage = "queue"]
    <3>1. task' = [task EXCEPT ![w] = t] /\ t \in Task /\ t.offer = task[w].offer
      BY <1>0, <2>5 DEF RecordResult, Stage, Task, NotifyStage
    <3>2. task[w].offer # NoOffer => Knows("queue", t.result, y, worker[w].process, kind)
      BY <1>0, <1>1, <1>3, <2>5, AnsweredOffer
         DEF Knows, Flagged, OfferRow, AdapterStage, NotifyStage
    <3>3. Fits(t, worker'[w], offers', kind)
      BY <1>0, <1>1, <2>2, <3>1, <3>2 DEF Fits, AdapterStage, NotifyStage, Task
    <3> HIDE DEF t
    <3> QED BY <1>0, <1>1, <2>1, <2>3, <3>1, <3>3, NoOfferIsNoId, MarkSteps
  <2> QED BY <2>4, <2>5
<1>4. CASE task[w].result.status # "completed"
  <2>1. offers' = offers
    BY <1>4 DEF RecordResult
  <2>2. task[w].offer # NoOffer => LetGo(x) /\ task[w].result.send = "nothing"
    BY <1>0, <1>4, AnsweredOffer DEF LetGo
  <2>4. CASE task[w].result.send = "nothing"
    <3>1. task' = [task EXCEPT ![w] = NoTask]
      BY <2>4 DEF RecordResult
    <3> QED BY <1>0, <1>1, <2>1, <2>2, <3>1, NoTaskFits, KeepSteps
  <2>5. CASE task[w].result.send # "nothing"
    <3> DEFINE t == [task[w] EXCEPT !.stage = "queue"]
    <3>1. task' = [task EXCEPT ![w] = t] /\ t \in Task /\ t.offer = NoOffer
      BY <1>0, <2>2, <2>5 DEF RecordResult, Stage, Task, NotifyStage
    <3>2. Fits(t, worker'[w], offers, kind)
      BY <1>0, <1>1, <3>1 DEF Fits, AdapterStage, NotifyStage, Task
    <3> HIDE DEF t
    <3> QED BY <1>0, <1>1, <2>1, <2>2, <2>5, <3>1, <3>2, KeepSteps
  <2> QED BY <2>4, <2>5
<1> QED BY <1>3, <1>4

\* The notification.
LEMMA NotifySteps ==
  ASSUME MInv, NEW w \in Thread, Notify(w) PROVE MInv'
<1> DEFINE x == offers[task[w].offer]
<1>0. /\ task[w] \in Task /\ Fits(task[w], worker[w], offers, kind)
      /\ task \in [Thread -> Task]
      /\ task[w].offer # NoOffer
            => /\ x \in OfferRow /\ OfferIsSound(x)
               /\ Knows(task[w].stage, task[w].result, x, worker[w].process, kind)
  BY InHands DEF MInv, MonitorTypeOK
<1>1. /\ worker[w].pc = "closing" /\ task[w].stage \in NotifyStage
      /\ UNCHANGED <<workerVars, kind, signals>>
  BY DEF Notify, QueueNotification, SendNotification, AttachMessage, Notifying, NotifyStage
<1>2. \A v \in Thread : worker'[v] = worker[v]
  BY <1>1 DEF workerVars
<1>3. ASSUME task[w].offer # NoOffer
      PROVE  /\ x.action /\ x.linked /\ x.recorded /\ task[w].result.send = "approval"
             /\ task[w].stage = "sent" => x.shown
             /\ x.process = worker[w].process /\ worker[w].process \in Process
  BY <1>0, <1>1, <1>3 DEF Knows
<1>4. ASSUME task[w].offer # NoOffer, NEW field \in {"spoiled", "shown"}
      PROVE  OfferIsSound(Flagged(x, field))
  BY <1>0, <1>3, <1>4 DEF OfferIsSound, Flagged, OfferRow
\* The thread is done with the request.
<1>5. ASSUME NEW field \in {"spoiled", "shown"},
             offers' = Marked(w, field), task' = [task EXCEPT ![w] = NoTask]
      PROVE  MInv'
  <2>1. task[w].offer # NoOffer => LetGo(Flagged(x, field))
    BY <1>0, <1>3, <1>5 DEF LetGo, Flagged, OfferRow
  <2> QED BY <1>1, <1>2, <1>4, <1>5, <2>1, NoTaskFits, MarkSteps
\* It goes on to a later stage of the notification.
<1>6. CASE Stage(w, "send") /\ UNCHANGED offers
  <2> DEFINE t == [task[w] EXCEPT !.stage = "send"]
  <2>1. task' = [task EXCEPT ![w] = t] /\ t \in Task /\ t.offer = task[w].offer
    BY <1>0, <1>6 DEF Stage, Task, NotifyStage
  <2>2. Fits(t, worker[w], offers, kind)
    BY <1>0, <1>1, <1>3 DEF Fits, Knows, AdapterStage, NotifyStage, Task
  <2> HIDE DEF t
  <2> QED BY <1>1, <1>6, <2>1, <2>2, QuietSteps
<1>7. CASE QueueNotification(w)
  BY <1>5, <1>6, <1>7 DEF QueueNotification
<1>8. CASE SendNotification(w)
  <2>1. CASE offers' = Delivered(w) /\ Stage(w, "sent")
    <3> DEFINE t == [task[w] EXCEPT !.stage = "sent"]
    <3>1. task' = [task EXCEPT ![w] = t] /\ t \in Task /\ t.offer = task[w].offer
      BY <1>0, <2>1 DEF Stage, Task, NotifyStage
    <3>2. CASE task[w].offer = NoOffer
      <4>1. offers' = offers
        BY <2>1, <3>2 DEF Delivered, Marked
      <4>2. Fits(t, worker[w], offers, kind)
        BY <1>0, <1>1, <3>2 DEF Fits, AdapterStage, NotifyStage, Task
      <4> HIDE DEF t
      <4> QED BY <1>1, <3>1, <4>1, <4>2, QuietSteps
    <3>3. CASE task[w].offer # NoOffer
      <4>1. offers' = Marked(w, "shown")
        BY <1>3, <2>1, <3>3 DEF Delivered
      <4>2. offers'[task[w].offer] = Flagged(x, "shown")
        BY <3>3, <4>1, MarkedRow
      <4>3. Knows("sent", t.result, Flagged(x, "shown"), worker[w].process, kind)
        BY <1>0, <1>3, <3>3 DEF Knows, Flagged, OfferRow, AdapterStage, NotifyStage
      <4>4. Fits(t, worker[w], offers', kind)
        BY <1>0, <1>1, <3>1, <3>3, <4>2, <4>3 DEF Fits, AdapterStage, NotifyStage, Task
      <4> HIDE DEF t
      <4> QED BY <1>1, <1>2, <1>4, <3>1, <3>3, <4>1, <4>4, MarkSteps
    <3> QED BY <3>2, <3>3
  <2>2. CASE offers' = Delivered(w) /\ task' = [task EXCEPT ![w] = NoTask]
    <3>1. offers' = Marked(w, "shown") \/ (offers' = offers /\ task[w].offer = NoOffer)
      BY <1>3, <2>2 DEF Delivered
    <3>2. ASSUME offers' = offers, task[w].offer = NoOffer PROVE MInv'
      BY <1>1, <1>2, <2>2, <3>2, NoTaskFits, KeepSteps
    <3> QED BY <1>5, <2>2, <3>1, <3>2
  <2> QED BY <1>5, <1>8, <2>1, <2>2 DEF SendNotification
<1>9. CASE AttachMessage(w)
  <2>1. task' = [task EXCEPT ![w] = NoTask] /\ task[w].stage = "sent"
    BY <1>9 DEF AttachMessage, Notifying
  <2>2. offers' = offers
    BY <1>9 DEF AttachMessage
  <2>3. task[w].offer # NoOffer => LetGo(x)
    BY <1>3, <2>1 DEF LetGo
  <2> QED BY <1>1, <1>2, <2>1, <2>2, <2>3, NoTaskFits, KeepSteps
<1> QED BY <1>7, <1>8, <1>9 DEF Notify

\* Thread w is not in an adapter after the step, and the others stay, but for
\* claims that they may lose.
StaysAt(v) ==
    /\ worker'[v].pc = worker[v].pc /\ worker'[v].process = worker[v].process
    /\ worker'[v].age = worker[v].age
Halts(w) ==
    /\ worker'[w].pc # "running"
    /\ \A v \in Thread \ {w} : StaysAt(v)

LEMMA HaltingSteps ==
  ASSUME WInv, NEW w \in Thread,
         ThreadGoesOn(w) \/ ThreadFails(w) \/ RecordResult(w)
  PROVE  Halts(w)
<1> USE DEF Halts, StaysAt
<1>0. worker \in [Thread -> WorkerRow]
  BY DEF WInv
<1>1. CASE ThreadGoesOn(w)
  <2>a. CASE BeginPass(w)
    BY <1>0, <2>a DEF BeginPass, Between, Set
  <2>b. CASE ClaimAtOnce(w)
    <3>1. PICK page \in Pages :
            LET claims == {p \in page : ~Leased(p)} IN
            Set(w, [Between EXCEPT !.pc = IF claims = {} THEN "idle" ELSE "pass",
                                   !.claims = claims])
      BY <2>b DEF ClaimAtOnce
    <3> QED BY <1>0, <3>1 DEF Between, Set
  <2>c. CASE ReadDue(w)
    <3>1. PICK page \in Pages :
            \/ Set(w, Between)
            \/ \E p \in page :
                  Set(w, [worker[w] EXCEPT !.pc = "reading", !.candidates = page,
                                           !.process = p, !.found = HasRow(p)])
      BY <2>c DEF ReadDue
    <3>2. CASE Set(w, Between)
      BY <1>0, <3>2 DEF Between, Set
    <3>3. ASSUME NEW p \in page,
                 Set(w, [worker[w] EXCEPT !.pc = "reading", !.candidates = page,
                                          !.process = p, !.found = HasRow(p)])
          PROVE  Halts(w)
      BY <1>0, <3>3 DEF Set, WorkerRow
    <3> QED BY <3>1, <3>2, <3>3
  <2>d. CASE WriteClaims(w)
    <3> DEFINE first == worker[w].process
               claims == {first} \cup {p \in worker[w].candidates : ~Leased(p)}
    <3>1. worker' = [v \in Thread |->
                        IF v = w THEN [Between EXCEPT !.pc = "pass", !.claims = claims,
                                                      !.lost = {p \in claims : Over(p)}]
                                 ELSE Loses(v, first)]
      BY <2>d DEF WriteClaims
    <3> HIDE DEF first, claims
    <3>2. worker'[w].pc = "pass"
      BY <3>1 DEF Between
    <3>3. \A v \in Thread \ {w} : worker'[v] = Loses(v, first) /\ worker[v] \in WorkerRow
      BY <1>0, <3>1
    <3> QED BY <3>2, <3>3 DEF Loses, WorkerRow
  <2>e. CASE ClaimConflicts(w) \/ Leave(w)
    BY <1>0, <2>e DEF ClaimConflicts, Leave, Between, Set
  <2>f. CASE SkipForBudget(w) \/ \E p \in Process : StartMissesProcess(w, p)
    BY <1>0, <2>f DEF SkipForBudget, StartMissesProcess, WorkerRow, Set
  <2>g. CASE Release(w)
    BY <1>0, <2>g DEF Release, Between, WorkerRow, Set
  <2> QED BY <1>1, <2>a, <2>b, <2>c, <2>d, <2>e, <2>f, <2>g DEF ThreadGoesOn
<1>2. CASE ThreadFails(w)
  <2>a. CASE WorkerCrash(w)
    BY <1>0, <2>a DEF WorkerCrash, Between, Set
  <2>b. CASE PassFails(w)
    <3>1. CASE Set(w, Between)
      BY <1>0, <3>1 DEF Between, Set
    <3>2. ASSUME NEW p \in worker[w].claims,
                 Set(w, [worker[w] EXCEPT !.pc = "leaving", !.process = p])
          PROVE  Halts(w)
      BY <1>0, <3>2 DEF Set, WorkerRow
    <3> QED BY <2>b, <3>1, <3>2 DEF PassFails
  <2>c. CASE FinishMissesRun(w)
    BY <1>0, <2>c DEF FinishMissesRun, WorkerRow, Set
  <2> QED BY <1>2, <2>a, <2>b, <2>c DEF ThreadFails
<1>3. CASE RecordResult(w)
  BY <1>0, <1>3 DEF RecordResult, Set, WorkerRow
<1> QED BY <1>1, <1>2, <1>3

\* The worker's own steps around the adapter.
LEMMA WorkerSteps ==
  ASSUME MInv, WInv, NEW w \in Thread,
         \/ \E p \in Process : Start(w, p)
         \/ ThreadGoesOn(w) \/ ThreadFails(w)
  PROVE  MInv'
<1>0. /\ task[w] \in Task /\ Fits(task[w], worker[w], offers, kind)
      /\ task \in [Thread -> Task] /\ worker \in [Thread -> WorkerRow]
  BY InHands DEF MInv, MonitorTypeOK, WInv
<1>1. ASSUME NEW p \in Process, Start(w, p) PROVE MInv'
  <2>1. PICK r \in Run \ InUse :
          Set(w, [worker[w] EXCEPT
                !.pc = IF OverBudget(w, p) THEN "skipping" ELSE "running",
                !.process = p, !.run = r,
                !.budget = IF p \in Llm /\ LlmBudget > 0 /\ ~OverBudget(w, p)
                           THEN @ - 1 ELSE @])
    BY <1>1 DEF Start, StartRun
  <2>2. /\ \A v \in Thread \ {w} : worker'[v] = worker[v]
        /\ worker'[w].pc = IF OverBudget(w, p) THEN "skipping" ELSE "running"
        /\ worker'[w].process = p
    BY <1>0, <2>1 DEF Set, WorkerRow
  <2>3. worker[w].pc = "pass" /\ task[w].offer = NoOffer
    BY <1>0, <1>1 DEF Start, StartRun, Fits, AdapterStage, NotifyStage, Task
  <2> DEFINE t == IF OverBudget(w, p) THEN NoTask
                  ELSE [NoTask EXCEPT !.stage = "evaluate"]
  <2>4. t \in Task /\ t.offer = NoOffer /\ Fits(t, worker'[w], offers, kind)
    BY <2>2, NoTaskTyped, NoTaskFits DEF Task, NoTask, Fits, AdapterStage, NotifyStage
  <2>5. task' = [task EXCEPT ![w] = t] /\ UNCHANGED <<kind, offers, signals>>
    BY <1>1 DEF Start
  <2> HIDE DEF t
  <2> QED BY <2>2, <2>3, <2>4, <2>5, KeepSteps
<1>2. CASE ThreadGoesOn(w)
  <2>1. Halts(w)
    BY <1>2, HaltingSteps
  <2>3. task[w].offer = NoOffer /\ Fits(task[w], worker'[w], offers, kind)
    BY <1>0, <1>2, <2>1 DEF Halts, StaysAt, ThreadGoesOn, Fits, AdapterStage, NotifyStage
  <2>4. task' = [task EXCEPT ![w] = task[w]] /\ UNCHANGED <<kind, offers, signals>>
    BY <1>0, <1>2 DEF ThreadGoesOn
  <2> QED BY <1>0, <2>1, <2>3, <2>4, KeepSteps DEF Halts, StaysAt
<1>3. CASE ThreadFails(w)
  <2>1. Halts(w)
    BY <1>3, HaltingSteps
  <2>3. task[w].offer # NoOffer =>
           LET y == Flagged(offers[task[w].offer], "spoiled") IN
           OfferIsSound(y) /\ LetGo(y)
    BY InHands DEF OfferIsSound, LetGo, Flagged, OfferRow
  <2>4. /\ task' = [task EXCEPT ![w] = NoTask] /\ UNCHANGED <<kind, signals>>
        /\ offers' = Marked(w, "spoiled")
    BY <1>3 DEF ThreadFails
  <2> QED BY <2>1, <2>3, <2>4, NoTaskFits, MarkSteps DEF Halts, StaysAt
<1> QED BY <1>1, <1>2, <1>3

\* What leaves tasks and offers alone, and each thread where it is in its pass.
LEMMA OtherSteps ==
  ASSUME MInv, WInv,
         \/ \E t \in Topic : OthersWrite(t) \/ \E a \in Author : SignalEnds(t, a)
         \/ Manage /\ UNCHANGED <<kind, task, offers, signals, loose>>
         \/ MonitorTick
         \/ UNCHANGED monitorVars
  PROVE  MInv'
<1>1. UNCHANGED <<kind, task, offers>>
  BY DEF OthersWrite, SignalEnds, MonitorTick, monitorVars
<1>2. \A v \in Thread :
         worker'[v].pc = worker[v].pc /\ worker'[v].process = worker[v].process
  <2>1. UNCHANGED worker \/ MonitorTick
    BY DEF OthersWrite, SignalEnds, Manage, monitorVars, workerVars
  <2>2. CASE MonitorTick
    BY <2>2 DEF MonitorTick, Tick, WInv, WorkerRow
  <2> QED BY <2>1, <2>2
<1>3. signals' \in [Topic -> [Author -> Nat]]
  <2>1. signals \in [Topic -> [Author -> Nat]]
    BY DEF MInv, MonitorTypeOK
  <2>2. ASSUME NEW t \in Topic, OthersWrite(t) PROVE signals' \in [Topic -> [Author -> Nat]]
    <3>1. NoProcess \in Author
      BY DEF Author
    <3>2. signals[t][NoProcess] + 1 \in Nat
      BY <2>1, <3>1
    <3> QED BY <2>1, <2>2, <3>1, <3>2 DEF OthersWrite
  <2>3. ASSUME NEW t \in Topic, NEW a \in Author, SignalEnds(t, a)
        PROVE  signals' \in [Topic -> [Author -> Nat]]
    <3>1. signals[t][a] - 1 \in Nat
      BY <2>1, <2>3 DEF SignalEnds
    <3> QED BY <2>1, <2>3, <3>1 DEF SignalEnds
  <2> QED BY <2>1, <2>2, <2>3 DEF MonitorTick, monitorVars
<1>4. \A v \in Thread : Fits(task'[v], worker'[v], offers', kind')
  BY <1>1, <1>2 DEF MInv, Fits
<1> QED BY <1>1, <1>3, <1>4
       DEF MInv, MonitorTypeOK, HandsApart, MatchIsShown, OfferIsSound

LEMMA MInvNext == ASSUME MInv, WInv, [MonitorNext]_monitorVars PROVE MInv'
<1>1. ASSUME NEW w \in Thread, Adapter(w) PROVE MInv'
  BY <1>1, ReadingSteps, ProposalSteps DEF Adapter
<1> QED BY <1>1, RecordSteps, NotifySteps, WorkerSteps, OtherSteps DEF MonitorNext

-----------------------------------------------------------------------------
(* Theorems for any database *)

LEMMA MInvHolds == MonitorSpec => [](MInv /\ WInv)
<1>1. MonitorInit => MInv /\ WInv
  BY MInvInit, WInvInit DEF MonitorInit
<1>2. MInv /\ WInv /\ [MonitorNext]_monitorVars => (MInv /\ WInv)'
  BY MInvNext, MonitorStep, WInvNext DEF MInv, Kept
<1> QED BY <1>1, <1>2, PTL DEF MonitorSpec

\* ShownIsSound (trade_setup_monitor.py, worker.py): whatever fails between the
\* writes of a run, a request in the chat is for an action that was made and
\* linked, by a run on record as a match.
THEOREM ShownRequestsAreSound == MonitorSpec => []ShownIsSound
<1>1. MInv => ShownIsSound
  BY DEF MInv, OfferIsSound, ShownIsSound
<1> QED BY <1>1, MInvHolds, PTL

\* MatchIsShown (_send_result_notification): a match on record is announced, unless
\* something failed or the process is not to notify.
THEOREM MatchesAreShown == MonitorSpec => []MatchIsShown
<1>1. MInv => MatchIsShown
  BY DEF MInv
<1> QED BY <1>1, MInvHolds, PTL

\* The adapters with the record and the notification implement the one step the
\* worker has for them: what is proved of the workers holds of them.
THEOREM MonitorsImplementWorker == MonitorSpec => WorkerSpec
<1>1. MonitorInit => WorkerInit
  BY DEF MonitorInit
<1>2. MInv /\ [MonitorNext]_monitorVars => [WorkerNext]_workerVars
  BY MonitorStep DEF MInv
<1> QED BY <1>1, <1>2, MInvHolds, PTL DEF MonitorSpec, WorkerSpec


-----------------------------------------------------------------------------
(* What the leases promise *)

FirstMatch(p) == Lifecycle[p].policy = "complete_on_first_match"

\* A thread beyond its lease at a process, or with a claim it has lost, has put it
\* among the loose ones.
OutlivedAreLoose ==
    \A w \in Thread :
        /\ worker[w].pc = "running" /\ worker[w].age >= Lease => worker[w].process \in loose
        /\ worker[w].lost \subseteq loose

NoneIsNobody == \A r \in Run : run[r].status = "none" => run[r].process = NoProcess

\* The topic a thread is about to write is not among its process's signals.
WritesTheMissing ==
    \A w \in Thread :
        task[w].stage = "write" /\ worker[w].process \notin loose
            => signals[Head(task[w].left)][worker[w].process] = 0

\* A thread whose claim on p does not matter any more.
Past(row, p) ==
    \/ row.age >= Lease \/ p \in row.lost
    \/ row.pc \in {"closing", "leaving"} /\ row.process = p

\* Process p has ended, and no thread will execute it on a lease of its own.
Settled(p) ==
    Over(p) /\ \A v \in Thread : p \in worker[v].claims => Past(worker[v], p)

Recorded(o, p) == offers[o].process = p /\ offers[o].recorded

MatchesEnd ==
    \A p \in Process \ loose : FirstMatch(p) =>
        \A o \in Offer : Recorded(o, p) =>
            Settled(p) /\ \A q \in Offer : Recorded(q, p) => q = o

LooseInv ==
    /\ OutlivedAreLoose /\ NoneIsNobody
    /\ WritesTheMissing /\ SignalsAreWrittenOnce
    /\ MatchesEnd

LEMMA LooseInvInit == MonitorInit => LooseInv
<1> SUFFICES ASSUME MonitorInit PROVE LooseInv
  OBVIOUS
<1>1. OutlivedAreLoose
  BY DEF MonitorInit, WorkerInit, Between, OutlivedAreLoose
<1>2. NoneIsNobody
  BY DEF MonitorInit, WorkerInit, Init, NoneIsNobody
<1>3. WritesTheMissing
  BY DEF MonitorInit, NoTask, WritesTheMissing
<1>4. SignalsAreWrittenOnce
  BY DEF MonitorInit, Author, SignalsAreWrittenOnce
<1>5. MatchesEnd
  BY DEF MonitorInit, NewOffer, MatchesEnd, Recorded
<1> QED BY <1>1, <1>2, <1>3, <1>4, <1>5 DEF LooseInv

LEMMA LooseGrows == ASSUME [MonitorNext]_monitorVars PROVE loose \subseteq loose'
BY AdapterIdle DEF MonitorNext, monitorVars, Start, RecordResult, ThreadGoesOn,
   ThreadFails, OthersWrite, SignalEnds, MonitorTick

\* Only the write of a claim makes others lost.
LEMMA LostKept ==
  ASSUME WInv, NEW w \in Thread, NEW v \in Thread,
         \/ ThreadFails(w) \/ RecordResult(w) \/ \E p \in Process : Start(w, p)
  PROVE  worker'[v].lost \subseteq worker[v].lost
<1>0. worker \in [Thread -> WorkerRow] /\ worker[v] \in WorkerRow /\ worker[w] \in WorkerRow
  BY DEF WInv
<1>1. ASSUME NEW new, Set(w, new), new.lost \subseteq worker[w].lost
      PROVE  worker'[v].lost \subseteq worker[v].lost
  BY <1>0, <1>1 DEF Set
<1>2. CASE Set(w, Between)
  BY <1>1, <1>2 DEF Between
<1>3. ASSUME NEW pc, NEW p, Set(w, [worker[w] EXCEPT !.pc = pc, !.process = p])
      PROVE  worker'[v].lost \subseteq worker[v].lost
  BY <1>0, <1>1, <1>3 DEF WorkerRow
<1>4. ASSUME NEW pc, Set(w, [worker[w] EXCEPT !.pc = pc])
      PROVE  worker'[v].lost \subseteq worker[v].lost
  BY <1>0, <1>1, <1>4 DEF WorkerRow
<1>5. CASE ThreadFails(w)
  BY <1>2, <1>3, <1>4, <1>5 DEF ThreadFails, WorkerCrash, PassFails, FinishMissesRun
<1>6. CASE RecordResult(w)
  BY <1>4, <1>6 DEF RecordResult
<1>7. ASSUME NEW p \in Process, Start(w, p) PROVE worker'[v].lost \subseteq worker[v].lost
  <2>1. PICK pc, r, n : Set(w, [worker[w] EXCEPT !.pc = pc, !.process = p, !.run = r,
                                                 !.budget = n])
    BY <1>7 DEF Start, StartRun
  <2>2. [worker[w] EXCEPT !.pc = pc, !.process = p, !.run = r, !.budget = n].lost
          = worker[w].lost
    BY <1>0 DEF WorkerRow
  <2> QED BY <1>1, <2>1, <2>2
<1> QED BY <1>5, <1>6, <1>7

\* A thread does not outlive its lease or lose it unseen.
LEMMA OutlivedStep ==
  ASSUME WInv, OutlivedAreLoose, [MonitorNext]_monitorVars PROVE OutlivedAreLoose'
<1>0. worker \in [Thread -> WorkerRow] /\ loose \subseteq loose'
  BY LooseGrows DEF WInv
<1>1. ASSUME UNCHANGED worker PROVE OutlivedAreLoose'
  BY <1>0, <1>1 DEF OutlivedAreLoose
<1>2. ASSUME NEW w \in Thread, Halts(w),
             \A v \in Thread : worker'[v].lost \subseteq worker[v].lost \cup loose'
      PROVE  OutlivedAreLoose'
  BY <1>0, <1>2 DEF OutlivedAreLoose, Halts, StaysAt
<1>3. ASSUME NEW w \in Thread, NEW p \in Process, Start(w, p) PROVE OutlivedAreLoose'
  <2>1. \A v \in Thread \ {w} : worker'[v] = worker[v]
    BY <1>0, <1>3 DEF Start, StartRun, Set
  <2>2. OutlivedBy(worker'[w]) \subseteq loose'
    BY <1>3 DEF Start
  <2>3. \A v \in Thread : worker'[v].lost \subseteq worker[v].lost
    BY <1>3, LostKept
  <2> QED BY <1>0, <2>1, <2>2, <2>3 DEF OutlivedAreLoose, OutlivedBy
<1>4. CASE MonitorTick
  <2>1. \A w \in Thread : OutlivedBy(worker'[w]) \subseteq loose'
    BY <1>4 DEF MonitorTick
  <2>2. \A w \in Thread : worker'[w].lost = worker[w].lost
    BY <1>0, <1>4 DEF MonitorTick, Tick, WorkerRow
  <2> QED BY <1>0, <2>1, <2>2 DEF OutlivedAreLoose, OutlivedBy
<1>5. ASSUME NEW w \in Thread, Adapter(w) \/ Notify(w) PROVE UNCHANGED worker
  BY <1>5, AdapterIdle DEF workerVars
<1>6. ASSUME NEW w \in Thread, ThreadGoesOn(w) PROVE OutlivedAreLoose'
  <2>1. \A v \in Thread : worker'[v].lost \subseteq loose'
    BY <1>6 DEF ThreadGoesOn
  <2> QED BY <1>2, <1>6, <2>1, HaltingSteps
<1>7. ASSUME NEW w \in Thread, ThreadFails(w) \/ RecordResult(w) PROVE OutlivedAreLoose'
  BY <1>2, <1>7, HaltingSteps, LostKept
<1> QED BY <1>1, <1>3, <1>4, <1>5, <1>6, <1>7
       DEF MonitorNext, OthersWrite, SignalEnds, Manage, monitorVars, workerVars

\* A run's row loses its process only with its status.
LEMMA NobodyStep ==
  ASSUME WInv, NoneIsNobody, [WorkerNext]_workerVars PROVE NoneIsNobody'
<1>0. run \in [Run -> RunRow] /\ \A w \in Thread : worker[w] \in WorkerRow
  BY TablesTyped DEF WInv, RunsTyped
<1>1. CASE UNCHANGED run
  BY <1>1 DEF NoneIsNobody
<1>2. ASSUME NEW r, run' = [run EXCEPT ![r] = RunOver(@, "ended")]
      PROVE  NoneIsNobody'
  BY <1>0, <1>2 DEF NoneIsNobody, RunRow, RunOver
<1>3. CASE RecoverStaleRuns
  <2>1. PICK rows \in OldestRuns : Recover(StaleRuns(rows))
    BY <1>3 DEF RecoverStaleRuns
  <2>2. run' = [r \in Run |-> IF r \in StaleRuns(rows) THEN RunOver(run[r], "ended")
                                                        ELSE run[r]]
    BY <2>1 DEF Recover
  <2> QED BY <1>0, <2>2 DEF NoneIsNobody, RunRow, RunOver
<1>4. ASSUME NEW r \in Run, NEW p \in Process, NEW age, RecordStarted(r, p, age)
      PROVE  NoneIsNobody'
  BY <1>0, <1>4 DEF RecordStarted, NoneIsNobody
<1>5. ASSUME NEW P \in SUBSET Process, DeleteArchived(P) PROVE NoneIsNobody'
  BY <1>0, <1>5 DEF DeleteArchived, NoneIsNobody, RunRow, RunOver
<1>6. CASE Tick
  BY <1>0, <1>6 DEF Tick, TimePasses, NoneIsNobody, RunRow
<1>7. ASSUME NEW w \in Thread, Work(w) PROVE NoneIsNobody'
  <2>1. CASE FinishRun(w) \/ SkipForBudget(w)
    BY <1>2, <2>1 DEF FinishRun, SkipForBudget, RecordCompleted, RecordUnsuccessful
  <2>2. CASE \E p \in Process : StartRun(w, p)
    BY <1>4, <2>2 DEF StartRun
  <2>3. CASE BeginPass(w)
    BY <1>3, <2>3 DEF BeginPass
  <2> QED BY <1>1, <1>7, <2>1, <2>2, <2>3
          DEF Work, ClaimAtOnce, ReadDue, WriteClaims, ClaimConflicts, store,
              StartMissesProcess, FinishMissesRun, Release, Leave, ReleaseLease
<1> QED BY <1>1, <1>5, <1>6, <1>7
       DEF WorkerNext, Manage, PassFails, WorkerCrash, CreateProcess, PauseProcess,
           ResumeProcess, ArchiveProcess, ExpireActive, store, workerVars

\* A claim that does not matter stays so, and a new one on a process that has ended
\* is lost from the start.
LEMMA ClaimsPass ==
  ASSUME LInv, [WorkerNext]_workerVars, NEW v \in Thread, NEW p \in worker'[v].claims,
         p \in worker[v].claims => Past(worker[v], p), Over(p)
  PROVE  Past(worker'[v], p)
<1>0. /\ worker \in [Thread -> WorkerRow] /\ Sound(worker[v])
      /\ worker[v] \in WorkerRow
  BY DEF LInv, WInv
<1>1. ASSUME worker'[v] = worker[v] PROVE Past(worker'[v], p)
  BY <1>1
<1>2. ASSUME NEW w \in Thread, NEW new, Set(w, new), w # v PROVE worker'[v] = worker[v]
  BY <1>0, <1>2 DEF Set
<1>3. ASSUME NEW new, Set(v, new) PROVE worker'[v] = new
  BY <1>0, <1>3 DEF Set
\* A row with no more claims, the same age and losses, the thread not closing or
\* leaving before.
<1>4. ASSUME worker'[v].claims \subseteq worker[v].claims, worker'[v].age = worker[v].age,
             worker[v].lost \subseteq worker'[v].lost,
             worker[v].pc \notin {"closing", "leaving"}
      PROVE  Past(worker'[v], p)
  BY <1>4 DEF Past
<1>5. ASSUME worker'[v].claims = {} PROVE FALSE
  BY <1>5
<1>6. CASE Tick
  <2>1. worker'[v] = [worker[v] EXCEPT !.age = IF worker[v].pc = "idle" THEN 0
                                               ELSE Older(worker[v].age)]
    BY <1>6 DEF Tick
  <2>2. worker'[v].claims = worker[v].claims /\ worker[v].pc # "idle"
    BY <1>0, <2>1 DEF Sound, WorkerRow
  <2>3. worker[v].age >= Lease => worker'[v].age >= Lease
    BY <1>0, <2>1, <2>2, LimitsArePositive DEF WorkerRow, Older
  <2>4. worker'[v].pc = worker[v].pc /\ worker'[v].process = worker[v].process
        /\ worker'[v].lost = worker[v].lost
    BY <1>0, <2>1 DEF WorkerRow
  <2> QED BY <2>2, <2>3, <2>4 DEF Past
<1>7. CASE ClaimAtOnce(v)
  <2>1. PICK page \in Pages :
          Set(v, [Between EXCEPT
                     !.pc = IF {q \in page : ~Leased(q)} = {} THEN "idle" ELSE "pass",
                     !.claims = {q \in page : ~Leased(q)}])
    BY <1>7 DEF ClaimAtOnce
  <2>2. worker'[v].claims = {q \in page : ~Leased(q)}
    BY <1>3, <2>1 DEF Between
  <2>3. Due(p)
    BY <2>2 DEF Pages, StillDue
  <2> QED BY <2>3 DEF Due, Active, Over, Terminal
<1>8. CASE Release(v)
  <2>1. CASE worker[v].claims \ {worker[v].process} = {}
    BY <1>3, <1>5, <1>8, <2>1 DEF Release, Between
  <2>2. CASE worker[v].claims \ {worker[v].process} # {}
    <3>1. Set(v, [worker[v] EXCEPT !.pc = "pass",
                      !.claims = worker[v].claims \ {worker[v].process},
                      !.process = NoProcess, !.run = NoRun])
      BY <1>8, <2>2 DEF Release
    <3>2. /\ worker'[v].claims = worker[v].claims \ {worker[v].process}
          /\ worker'[v].age = worker[v].age /\ worker'[v].lost = worker[v].lost
      BY <1>0, <1>3, <3>1 DEF WorkerRow
    <3> QED BY <3>2 DEF Past
  <2> QED BY <2>1, <2>2
<1>9. CASE PassFails(v)
  <2>1. CASE Set(v, Between)
    BY <1>3, <1>5, <2>1 DEF Between
  <2>2. ASSUME worker[v].pc \in {"pass", "running", "skipping"},
               NEW q, Set(v, [worker[v] EXCEPT !.pc = "leaving", !.process = q])
        PROVE  Past(worker'[v], p)
    <3>1. worker'[v].claims = worker[v].claims /\ worker'[v].age = worker[v].age
            /\ worker'[v].lost = worker[v].lost
      BY <1>0, <1>3, <2>2 DEF WorkerRow
    <3> QED BY <1>4, <2>2, <3>1
  <2> QED BY <1>9, <2>1, <2>2 DEF PassFails
<1>10. CASE BeginPass(v) \/ ReadDue(v) \/ ClaimConflicts(v)
  <2>1. CASE BeginPass(v)
    BY <1>3, <1>5, <2>1 DEF BeginPass, Between
  <2>2. ASSUME NEW page, NEW q, worker[v].claims = {},
               Set(v, [worker[v] EXCEPT !.pc = "reading", !.candidates = page,
                                        !.process = q, !.found = HasRow(q)])
        PROVE  FALSE
    BY <1>0, <1>3, <1>5, <2>2 DEF WorkerRow
  <2>3. CASE ReadDue(v)
    <3>1. worker[v].claims = {}
      BY <1>0, <2>3 DEF ReadDue, Sound
    <3>2. CASE Set(v, Between)
      BY <1>3, <1>5, <3>2 DEF Between
    <3>3. CASE ~Set(v, Between)
      <4>1. PICK page, q : Set(v, [worker[v] EXCEPT !.pc = "reading", !.candidates = page,
                                                    !.process = q, !.found = HasRow(q)])
        BY <2>3, <3>3 DEF ReadDue
      <4> QED BY <2>2, <3>1, <4>1
    <3> QED BY <3>2, <3>3
  <2>4. CASE ClaimConflicts(v)
    BY <1>3, <1>5, <2>4 DEF ClaimConflicts, Between
  <2> QED BY <1>10, <2>1, <2>3, <2>4
<1>11. ASSUME NEW q \in Process, StartRun(v, q) PROVE Past(worker'[v], p)
  <2>1. worker'[v].claims = worker[v].claims /\ worker'[v].age = worker[v].age
          /\ worker'[v].lost = worker[v].lost
    BY <1>0, <1>11 DEF StartRun, Set, WorkerRow
  <2> QED BY <1>4, <1>11, <2>1 DEF StartRun
<1>12. CASE \/ FinishRun(v) \/ SkipForBudget(v) \/ FinishMissesRun(v)
            \/ \E q \in Process : StartMissesProcess(v, q)
  <2>1. ASSUME NEW q \in Process, StartMissesProcess(v, q)
        PROVE  /\ worker'[v].claims = worker[v].claims /\ worker'[v].age = worker[v].age
               /\ worker'[v].lost = worker[v].lost
               /\ worker[v].pc \notin {"closing", "leaving"}
    BY <1>0, <2>1 DEF StartMissesProcess, Set, WorkerRow
  <2>2. CASE FinishRun(v) \/ SkipForBudget(v) \/ FinishMissesRun(v)
    <3>1. PICK pc : Set(v, [worker[v] EXCEPT !.pc = pc])
      BY <2>2 DEF FinishRun, SkipForBudget, FinishMissesRun
    <3>2. worker'[v].claims = worker[v].claims /\ worker'[v].age = worker[v].age
            /\ worker'[v].lost = worker[v].lost
      BY <1>0, <1>3, <3>1 DEF WorkerRow
    <3>3. worker[v].pc \notin {"closing", "leaving"}
      BY <2>2 DEF FinishRun, SkipForBudget, FinishMissesRun
    <3> QED BY <1>4, <3>2, <3>3
  <2> QED BY <1>4, <1>12, <2>1, <2>2
<1>13. CASE Leave(v) \/ WorkerCrash(v)
  BY <1>3, <1>5, <1>13 DEF Leave, WorkerCrash, Between
<1>14. ASSUME NEW w \in Thread, WriteClaims(w) PROVE Past(worker'[v], p)
  <2> DEFINE first == worker[w].process
             claims == {first} \cup {q \in worker[w].candidates : ~Leased(q)}
             new == [Between EXCEPT !.pc = "pass", !.claims = claims,
                                    !.lost = {q \in claims : Over(q)}]
  <2>1. worker' = [u \in Thread |-> IF u = w THEN new ELSE Loses(u, first)]
    BY <1>14 DEF WriteClaims
  <2> HIDE DEF first, claims
  <2>2. CASE v = w
    <3>1. worker'[v].claims = claims /\ worker'[v].lost = {q \in claims : Over(q)}
      BY <2>1, <2>2 DEF Between
    <3> QED BY <3>1 DEF Past
  <2>3. CASE v # w
    <3>1. worker'[v] = Loses(v, first)
      BY <2>1, <2>3
    <3>2. /\ worker'[v].claims = worker[v].claims /\ worker'[v].age = worker[v].age
          /\ worker[v].lost \subseteq worker'[v].lost /\ worker'[v].pc = worker[v].pc
          /\ worker'[v].process = worker[v].process
      BY <1>0, <3>1 DEF Loses, WorkerRow
    <3> QED BY <3>2 DEF Past
  <2> QED BY <2>2, <2>3
<1>15. ASSUME NEW w \in Thread, w # v, Work(w) \/ PassFails(w) \/ WorkerCrash(w),
              ~WriteClaims(w)
       PROVE  worker'[v] = worker[v]
  BY <1>2, <1>15
     DEF Work, BeginPass, ClaimAtOnce, ReadDue, ClaimConflicts, StartRun,
         StartMissesProcess, FinishRun, SkipForBudget, FinishMissesRun, Release, Leave,
         PassFails, WorkerCrash
<1>16. CASE (Work(v) /\ ~WriteClaims(v)) \/ PassFails(v) \/ WorkerCrash(v)
  BY <1>7, <1>8, <1>9, <1>10, <1>11, <1>12, <1>13, <1>16 DEF Work
<1>17. CASE Manage \/ UNCHANGED workerVars
  BY <1>1, <1>17 DEF Manage, workerVars
<1> QED BY <1>1, <1>6, <1>14, <1>15, <1>16, <1>17 DEF WorkerNext

LEMMA SettledStays ==
  ASSUME LInv, [WorkerNext]_workerVars, NEW p \in Process, Settled(p)
  PROVE  Settled(p)'
<1>1. Over(p)'
  BY WInvNext DEF LInv, Kept, StaysTerminal, StaysDeleted, Settled, Over
<1> QED BY <1>1, ClaimsPass DEF Settled

\* A match comes on record only with the record of the run that offered it.
LEMMA RecordedHow ==
  ASSUME MInv, [MonitorNext]_monitorVars, NEW o \in Offer, NEW p \in Process,
         Recorded(o, p)'
  PROVE  \/ Recorded(o, p)
         \/ \E w \in Thread :
               /\ RecordResult(w) /\ task[w].offer = o /\ worker[w].process = p
               /\ task[w].result.status = "completed"
<1>0. offers \in [Offer -> OfferRow]
  BY DEF MInv, MonitorTypeOK
<1>1. ASSUME offers'[o] = offers[o] PROVE Recorded(o, p)
  BY <1>1 DEF Recorded
<1>2. ASSUME NEW w \in Thread, NEW field \in {"action", "linked", "shown", "spoiled"},
             offers' = Marked(w, field)
      PROVE  Recorded(o, p)
  <2>1. CASE o # task[w].offer
    BY <1>1, <1>2, <2>1, MarkedRow
  <2>2. CASE o = task[w].offer
    <3>1. offers'[o] = Flagged(offers[o], field)
      BY <1>2, <2>2, NoOfferIsNoId, MarkedRow
    <3> QED BY <1>0, <3>1 DEF Flagged, OfferRow, Recorded
  <2> QED BY <2>1, <2>2
<1>3. ASSUME UNCHANGED offers PROVE Recorded(o, p)
  BY <1>1, <1>3
<1>4. ASSUME NEW w \in Thread, Propose(w) PROVE Recorded(o, p)
  <2>1. PICK q \in Offer : /\ ~Used(q)
                           /\ offers' = [offers EXCEPT ![q].process = worker[w].process]
    BY <1>4 DEF Propose
  <2>2. CASE q # o
    BY <1>0, <1>1, <2>1, <2>2
  <2>3. CASE q = o
    <3>1. offers'[o].recorded = offers[o].recorded
      BY <1>0, <2>1, <2>3 DEF OfferRow
    <3>2. ~offers[o].recorded
      BY <2>1, <2>3, MarkersAreNoIds DEF MInv, OfferIsSound, Used
    <3> QED BY <3>1, <3>2 DEF Recorded
  <2> QED BY <2>2, <2>3
<1>5. ASSUME NEW w \in Thread, RecordResult(w)
      PROVE  \/ Recorded(o, p)
             \/ /\ task[w].offer = o /\ worker[w].process = p
                /\ task[w].result.status = "completed"
  <2>1. CASE task[w].result.status # "completed"
    BY <1>3, <1>5, <2>1 DEF RecordResult
  <2>2. CASE task[w].result.status = "completed" /\ o # task[w].offer
    <3>1. offers' = Marked(w, "recorded")
      BY <1>5, <2>2 DEF RecordResult
    <3> QED BY <1>1, <2>2, <3>1, MarkedRow
  <2>3. CASE task[w].result.status = "completed" /\ o = task[w].offer
    <3>1. offers'[o] = Flagged(offers[o], "recorded")
      BY <1>5, <2>3, NoOfferIsNoId, MarkedRow DEF RecordResult
    <3>2. offers'[o].process = worker[w].process
      <4>1. InAdapter(w, "answered") /\ task[w].offer # NoOffer
        BY <1>5, <2>3, NoOfferIsNoId DEF RecordResult
      <4>2. offers[o].process = worker[w].process
        BY <2>3, <4>1, AnsweredOffer
      <4> QED BY <1>0, <3>1, <4>2 DEF Flagged, OfferRow
    <3> QED BY <2>3, <3>2 DEF Recorded
  <2> QED BY <2>1, <2>2, <2>3
<1>6. ASSUME NEW w \in Thread, Notify(w) PROVE Recorded(o, p)
  BY <1>2, <1>3, <1>6
     DEF Notify, QueueNotification, SendNotification, AttachMessage, Delivered
<1>7. ASSUME NEW w \in Thread, Adapter(w) PROVE Recorded(o, p)
  BY <1>2, <1>3, <1>4, <1>7
     DEF Adapter, Evaluate, SetupIsGood, Submit, Link, ProposalFails, Capture,
         SearchSignals, WriteSignal, CaptureFails, PassBy
<1> QED BY <1>2, <1>3, <1>5, <1>6, <1>7
       DEF MonitorNext, monitorVars, Start, ThreadGoesOn, ThreadFails, OthersWrite,
           SignalEnds, MonitorTick

\* A thread in its adapter is at its process on a lease of its own, unless the
\* process is loose.
LEMMA InTime ==
  ASSUME LInv, OutlivedAreLoose, NEW w \in Thread, worker[w].pc = "running",
         worker[w].process \notin loose
  PROVE  /\ ~Unprotected(w, worker[w].process)
         /\ worker[w].process \in worker[w].claims
BY DEF LInv, Sound, InRun, OutlivedAreLoose, Unprotected

\* The record of a first match ends the process, and finds no other thread at it.
LEMMA RecordEnds ==
  ASSUME LInv, MInv, LooseInv, [WorkerNext]_workerVars, NEW w \in Thread, RecordResult(w),
         NEW p \in Process \ loose', FirstMatch(p), worker[w].process = p,
         task[w].offer # NoOffer, task[w].result.status = "completed"
  PROVE  ~Settled(p) /\ Settled(p)'
<1> DEFINE r == worker[w].run
<1>1. (Active(p) \/ Over(p)) /\ p \notin loose /\ loose' = loose
        /\ worker[w].pc = "running"
  BY DEF RecordResult, InAdapter
<1>2. task[w].result = Approval(kind[p])
  BY InHands DEF Fits, Knows, RecordResult, InAdapter
<1>3. RecordCompleted(r, worker[w].age, TRUE)
  <2>1. task[w].result.matched = TRUE
    BY <1>2 DEF Approval, Answer
  <2>2. RecordCompleted(r, worker[w].age, task[w].result.matched)
    BY DEF RecordResult
  <2> QED BY <2>1, <2>2
<1>4. run[r].process = p
  <2>1. r \in Run /\ worker[w].pc = "running"
    BY DEF RecordResult, InAdapter, LInv, WInv, Typed, InRun
  <2>2. run[r].status # "none"
    BY <1>3, <2>1 DEF RecordCompleted, LooseInv, NoneIsNobody
  <2> QED BY <2>1, <2>2 DEF LInv, OwnRun, InRun
<1>5. PolicyCompletes(p, TRUE)
  BY DEF PolicyCompletes, FirstMatch
<1>6. Over(p)'
  <2>1. CASE Active(p)
    <3>1. proc' = [proc EXCEPT ![p] = Ended(Counted(p, TRUE), "completed")]
      BY <1>3, <1>4, <1>5, <2>1 DEF RecordCompleted
    <3>2. Counted(p, TRUE) \in ProcessRow
      BY CountedTyped DEF LInv, WInv
    <3>3. proc'[p] = Ended(Counted(p, TRUE), "completed")
      BY <3>1 DEF LInv, WInv, StoreInv, StoreTypeOK
    <3> QED BY <3>2, <3>3 DEF Ended, ProcessRow, Over, Terminal
  <2>2. CASE Over(p)
    BY <2>2, WInvNext DEF LInv, Kept, StaysTerminal, StaysDeleted, Over
  <2> QED BY <1>1, <2>1, <2>2
<1>7. ~Unprotected(w, p) /\ p \in worker[w].claims
  BY <1>1, InTime DEF LooseInv
<1>8. ASSUME NEW v \in Thread, p \in worker'[v].claims PROVE Past(worker'[v], p)
  <2>1. worker' = [worker EXCEPT ![w] = [worker[w] EXCEPT !.pc = "closing"]]
    BY DEF RecordResult, Set
  <2>2. CASE v = w
    BY <2>1, <2>2 DEF LInv, WInv, WorkerRow, Past
  <2>3. CASE v # w
    <3>1. worker'[v] = worker[v]
      BY <2>1, <2>3 DEF LInv, WInv
    <3>2. Unprotected(v, p)
      BY <1>7, <1>8, <2>3, <3>1 DEF LInv, ClaimsApart
    <3> QED BY <3>1, <3>2 DEF Past, Unprotected
  <2> QED BY <2>2, <2>3
<1>9. ~Settled(p)
  BY <1>1, <1>7 DEF Settled, Past, Unprotected
<1> QED BY <1>6, <1>8, <1>9 DEF Settled

LEMMA MatchesStep ==
  ASSUME LInv, MInv, LooseInv, [MonitorNext]_monitorVars
  PROVE  MatchesEnd'
<1> SUFFICES ASSUME NEW p \in Process \ loose', FirstMatch(p), NEW o \in Offer,
                    Recorded(o, p)'
             PROVE  Settled(p)' /\ \A q \in Offer : Recorded(q, p)' => q = o
  BY DEF MatchesEnd
<1>0. p \in Process \ loose /\ [WorkerNext]_workerVars
  BY LooseGrows, MonitorStep DEF MInv
\* What was on record before had ended the process before.
<1>1. ASSUME NEW q \in Offer, Recorded(q, p)
      PROVE  Settled(p) /\ \A x \in Offer : Recorded(x, p) => x = q
  BY <1>0, <1>1 DEF LooseInv, MatchesEnd
<1>2. ASSUME NEW w \in Thread, RecordResult(w), worker[w].process = p,
             task[w].result.status = "completed", NEW q \in Offer, task[w].offer = q
      PROVE  ~Settled(p) /\ Settled(p)'
  BY <1>0, <1>2, RecordEnds, NoOfferIsNoId
<1>3. CASE Recorded(o, p)
  <2>1. Settled(p)'
    BY <1>0, <1>1, <1>3, SettledStays
  <2>2. ASSUME NEW q \in Offer, Recorded(q, p)' PROVE q = o
    BY <1>1, <1>2, <1>3, <2>2, RecordedHow
  <2> QED BY <2>1, <2>2
<1>4. CASE ~Recorded(o, p)
  <2>1. PICK w \in Thread :
          /\ RecordResult(w) /\ task[w].offer = o /\ worker[w].process = p
          /\ task[w].result.status = "completed"
    BY <1>4, RecordedHow
  <2>2. ~Settled(p) /\ Settled(p)'
    BY <1>2, <2>1
  <2>3. ASSUME NEW q \in Offer, Recorded(q, p)' PROVE q = o
    <3>1. ~Recorded(q, p)
      BY <1>1, <2>2
    <3>2. PICK v \in Thread : RecordResult(v) /\ task[v].offer = q
      BY <2>3, <3>1, RecordedHow
    <3>3. v = w
      <4>1. Halts(v) /\ Halts(w)
        BY <2>1, <3>2, HaltingSteps DEF LInv
      <4>2. worker[w].pc = "running"
        BY <2>1 DEF RecordResult, InAdapter
      <4> QED BY <4>1, <4>2 DEF Halts, StaysAt
    <3> QED BY <2>1, <3>2, <3>3
  <2> QED BY <2>2, <2>3
<1> QED BY <1>3, <1>4

\* What makes a thread ready to write a signal.
LEMMA WritingHow ==
  ASSUME MInv, WInv, [MonitorNext]_monitorVars, NEW v \in Thread, task'[v].stage = "write"
  PROVE  \/ task'[v] = task[v] /\ worker'[v].process = worker[v].process
         \/ SearchSignals(v) /\ task'[v].left = task[v].left
            /\ (~Known(Head(task[v].left)) \/ worker[v].process \in loose')
            /\ worker'[v] = worker[v]
<1>0. task \in [Thread -> Task] /\ worker \in [Thread -> WorkerRow]
  BY DEF MInv, MonitorTypeOK, WInv
<1>1. ASSUME NEW w \in Thread, w # v, NEW t, task' = [task EXCEPT ![w] = t],
             worker'[v].process = worker[v].process
      PROVE  task'[v] = task[v] /\ worker'[v].process = worker[v].process
  BY <1>0, <1>1
<1>2. ASSUME NEW t, task' = [task EXCEPT ![v] = t] PROVE t.stage = "write"
  BY <1>0, <1>2
<1>3. ASSUME NEW w \in Thread, NEW left, NEW created
      PROVE  Captured(w, left, created).stage # "write"
  <2>1. task[w] \in Task
    BY <1>0
  <2> QED BY <2>1 DEF Captured, Answered, NoTask, Task
<1>4. ASSUME NEW w \in Thread, NEW t, task' = [task EXCEPT ![w] = t], t.stage # "write",
             w # v => worker'[v].process = worker[v].process
      PROVE  task'[v] = task[v] /\ worker'[v].process = worker[v].process
  BY <1>1, <1>2, <1>4
<1>5. ASSUME NEW w \in Thread, NEW stage, Stage(w, stage), stage # "write",
             UNCHANGED worker
      PROVE  task'[v] = task[v] /\ worker'[v].process = worker[v].process
  <2>1. [task[w] EXCEPT !.stage = stage].stage # "write"
    BY <1>0, <1>5 DEF Task
  <2>2. task' = [task EXCEPT ![w] = [task[w] EXCEPT !.stage = stage]]
    BY <1>0, <1>5 DEF Stage
  <2> QED BY <1>4, <1>5, <2>1, <2>2
<1>6. ASSUME NEW w \in Thread, NEW result, Yields(w, result), UNCHANGED worker
      PROVE  task'[v] = task[v] /\ worker'[v].process = worker[v].process
  <2>1. Answered(w, result).stage # "write"
    BY DEF Answered, NoTask
  <2>2. task' = [task EXCEPT ![w] = Answered(w, result)]
    BY <1>6 DEF Yields
  <2> QED BY <1>4, <1>6, <2>1, <2>2
<1>n. NoTask.stage # "write"
  BY DEF NoTask
<1>7. ASSUME NEW w \in Thread, Notify(w)
      PROVE  task'[v] = task[v] /\ worker'[v].process = worker[v].process
  <2>1. UNCHANGED worker
    BY <1>7, AdapterIdle DEF workerVars
  <2> QED BY <1>4, <1>5, <1>7, <1>n, <2>1
          DEF Notify, QueueNotification, SendNotification, AttachMessage
<1>8. ASSUME NEW w \in Thread, SearchSignals(w)
      PROVE  \/ task'[v] = task[v] /\ worker'[v].process = worker[v].process
             \/ SearchSignals(v) /\ task'[v].left = task[v].left
                /\ (~Known(Head(task[v].left)) \/ worker[v].process \in loose')
                /\ worker'[v] = worker[v]
  <2>0. UNCHANGED worker
    BY <1>8 DEF SearchSignals, workerVars
  <2>1. CASE PassBy(w)
    BY <1>3, <1>4, <2>0, <2>1 DEF PassBy
  <2>2. CASE Stage(w, "write") /\ (Known(Head(task[w].left)) => Crowded)
    <3>0. task' = [task EXCEPT ![w] = [task[w] EXCEPT !.stage = "write"]]
      BY <1>0, <2>2 DEF Stage
    <3>1. CASE w = v
      <4>1. Crowded => worker[w].process \in loose'
        BY <1>8 DEF SearchSignals
      <4>2. task'[v].left = task[v].left
        BY <1>0, <3>0, <3>1 DEF Task
      <4> QED BY <1>8, <2>0, <2>2, <3>1, <4>1, <4>2
    <3>2. CASE w # v
      BY <1>1, <2>0, <3>0, <3>2
    <3> QED BY <3>1, <3>2
  <2> QED BY <1>8, <2>1, <2>2 DEF SearchSignals
<1>9. ASSUME NEW w \in Thread, Adapter(w), ~SearchSignals(w)
      PROVE  task'[v] = task[v] /\ worker'[v].process = worker[v].process
  <2>0. UNCHANGED worker
    BY <1>9, AdapterIdle DEF workerVars
  <2>1. CASE Propose(w)
    <3>1. PICK o : task' = [task EXCEPT ![w].stage = "submit", ![w].offer = o]
      BY <2>1 DEF Propose
    <3>2. task' = [task EXCEPT ![w] = [task[w] EXCEPT !.stage = "submit", !.offer = o]]
      BY <1>0, <3>1
    <3>3. [task[w] EXCEPT !.stage = "submit", !.offer = o].stage # "write"
      BY <1>0 DEF Task
    <3> QED BY <1>4, <2>0, <3>2, <3>3
  <2>2. CASE \E left, created : task' = [task EXCEPT ![w] = Captured(w, left, created)]
    BY <1>3, <1>4, <2>0, <2>2
  <2>3. CASE \E result : Yields(w, result)
    BY <1>6, <2>0, <2>3
  <2>4. CASE SetupIsGood(w) \/ Submit(w)
    BY <1>5, <2>0, <2>4 DEF SetupIsGood, Submit
  <2> QED BY <1>9, <2>1, <2>2, <2>3, <2>4
          DEF Adapter, Evaluate, Link, ProposalFails, Capture, WriteSignal, CaptureFails,
              PassBy
<1>10. ASSUME NEW w \in Thread, ThreadGoesOn(w) \/ ThreadFails(w) \/ RecordResult(w)
       PROVE  task'[v] = task[v] /\ worker'[v].process = worker[v].process
  <2>1. w # v => worker'[v].process = worker[v].process
    BY <1>10, HaltingSteps DEF Halts, StaysAt
  <2>2. CASE ThreadFails(w)
    BY <1>4, <1>n, <2>1, <2>2 DEF ThreadFails
  <2>3. CASE ThreadGoesOn(w)
    <3>1. task' = task /\ task[w].stage = "none"
      BY <2>3 DEF ThreadGoesOn
    <3> QED BY <2>1, <3>1
  <2>4. CASE RecordResult(w)
    <3>1. [task[w] EXCEPT !.stage = "queue"].stage # "write"
      BY <1>0 DEF Task
    <3>2. \/ task' = [task EXCEPT ![w] = NoTask]
          \/ task' = [task EXCEPT ![w] = [task[w] EXCEPT !.stage = "queue"]]
      BY <1>0, <2>4 DEF RecordResult, Stage
    <3> QED BY <1>4, <1>n, <2>1, <3>1, <3>2
  <2> QED BY <1>10, <2>2, <2>3, <2>4
<1>11. ASSUME NEW w \in Thread, NEW p \in Process, Start(w, p)
       PROVE  task'[v] = task[v] /\ worker'[v].process = worker[v].process
  <2>1. w # v => worker'[v].process = worker[v].process
    BY <1>0, <1>11 DEF Start, StartRun, Set
  <2>2. [NoTask EXCEPT !.stage = "evaluate"].stage # "write"
    BY DEF NoTask
  <2>3. \/ task' = [task EXCEPT ![w] = NoTask]
        \/ task' = [task EXCEPT ![w] = [NoTask EXCEPT !.stage = "evaluate"]]
    BY <1>11 DEF Start
  <2> QED BY <1>4, <1>n, <2>1, <2>2, <2>3
<1>12. CASE MonitorTick
  BY <1>0, <1>12 DEF MonitorTick, Tick, WorkerRow
<1> QED BY <1>7, <1>8, <1>9, <1>10, <1>11, <1>12
       DEF MonitorNext, monitorVars, workerVars, OthersWrite, SignalEnds, Manage

LEMMA SignalsStep ==
  ASSUME LInv, MInv, LooseInv, [MonitorNext]_monitorVars
  PROVE  WritesTheMissing' /\ SignalsAreWrittenOnce'
<1>0. /\ signals \in [Topic -> [Author -> Nat]] /\ loose \subseteq loose' /\ WInv
      /\ WritesTheMissing /\ SignalsAreWrittenOnce
  BY LooseGrows DEF MInv, MonitorTypeOK, LInv, LooseInv
<1>1. ASSUME NEW v \in Thread, task[v].stage \in {"search", "write"}
      PROVE  /\ worker[v].process \in Process /\ Head(task[v].left) \in Topic
             /\ worker[v].pc = "running" /\ worker[v].process \in worker[v].claims
  <2>1. task[v] \in Task /\ Fits(task[v], worker[v], offers, kind)
    BY InHands
  <2> QED BY <1>1, <2>1 DEF Fits, Task, AdapterStage, LInv, Sound, InRun
\* Only the write of a signal raises a process's count.
<1>2. ASSUME NEW t \in Topic, NEW p \in Process,
             \A w \in Thread : ~WriteSignal(w)
      PROVE  signals'[t][p] \in Nat /\ signals'[t][p] <= signals[t][p]
  <2>0. signals[t][p] \in Nat
    BY <1>0 DEF Author
  <2>1. ASSUME NEW u \in Topic, NEW a \in Author, SignalEnds(u, a)
        PROVE  signals'[t][p] \in Nat /\ signals'[t][p] <= signals[t][p]
    <3>1. signals' = [signals EXCEPT ![u][a] = @ - 1] /\ signals[u][a] > 0
      BY <2>1 DEF SignalEnds
    <3>2. CASE u = t /\ a = p
      <4>1. signals'[t][p] = signals[t][p] - 1
        BY <1>0, <3>1, <3>2
      <4> QED BY <2>0, <3>1, <3>2, <4>1
    <3>3. CASE ~(u = t /\ a = p)
      <4>1. signals'[t][p] = signals[t][p]
        BY <1>0, <3>1, <3>3 DEF Author
      <4> QED BY <2>0, <4>1
    <3> QED BY <3>2, <3>3
  <2>2. ASSUME NEW u \in Topic, OthersWrite(u) PROVE signals'[t][p] = signals[t][p]
    <3>1. signals' = [signals EXCEPT ![u][NoProcess] = @ + 1] /\ p # NoProcess
      BY <2>2, MarkersAreNoIds DEF OthersWrite
    <3> QED BY <1>0, <3>1 DEF Author
  <2>3. ASSUME NEW w \in Thread, Adapter(w) \/ Notify(w) PROVE UNCHANGED signals
    BY <1>2, <2>3
       DEF Adapter, Notify, Evaluate, SetupIsGood, Propose, Submit, Link, ProposalFails,
           Capture, SearchSignals, CaptureFails, QueueNotification, SendNotification,
           AttachMessage
  <2>4. ASSUME UNCHANGED signals
        PROVE  signals'[t][p] \in Nat /\ signals'[t][p] <= signals[t][p]
    BY <2>0, <2>4
  <2>5. ASSUME NEW w \in Thread,
               \/ \E q \in Process : Start(w, q)
               \/ RecordResult(w) \/ ThreadGoesOn(w) \/ ThreadFails(w)
        PROVE  UNCHANGED signals
    BY <2>5 DEF Start, RecordResult, ThreadGoesOn, ThreadFails
  <2>6. ASSUME NEW u \in Topic, OthersWrite(u)
        PROVE  signals'[t][p] \in Nat /\ signals'[t][p] <= signals[t][p]
    <3>1. signals'[t][p] = signals[t][p]
      BY <2>2, <2>6
    <3> QED BY <2>0, <3>1
  <2>7. CASE (Manage /\ UNCHANGED <<kind, task, offers, signals, loose>>) \/ MonitorTick
             \/ UNCHANGED monitorVars
    BY <2>4, <2>7 DEF MonitorTick, monitorVars
  <2> QED BY <2>1, <2>3, <2>4, <2>5, <2>6, <2>7 DEF MonitorNext
<1>3. ASSUME NEW w \in Thread, WriteSignal(w)
      PROVE  /\ UNCHANGED <<workerVars, loose>>
             /\ signals' = [signals EXCEPT
                               ![Head(task[w].left)][worker[w].process] = @ + 1]
             /\ task'[w].stage # "write" /\ task[w].stage = "write"
  <2>1. Captured(w, Tail(task[w].left), task[w].created + 1).stage # "write"
    BY InHands DEF Captured, Answered, NoTask, Task
  <2> QED BY <1>3, <2>1 DEF WriteSignal, InAdapter, MInv, MonitorTypeOK
<1>4. ASSUME NEW p \in Process \ loose', NEW t \in Topic PROVE signals'[t][p] <= 1
  <2>1. signals[t][p] \in Nat /\ signals[t][p] <= 1
    BY <1>0, <1>4 DEF SignalsAreWrittenOnce, Author
  <2>2. CASE \A w \in Thread : ~WriteSignal(w)
    <3>1. signals'[t][p] \in Nat /\ signals'[t][p] <= signals[t][p]
      BY <1>2, <2>2
    <3> QED BY <2>1, <3>1
  <2>3. ASSUME NEW w \in Thread, WriteSignal(w) PROVE signals'[t][p] <= 1
    <3>1. CASE t = Head(task[w].left) /\ p = worker[w].process
      <4>1. signals[t][p] = 0 /\ signals'[t][p] = signals[t][p] + 1
        <5>1. signals[t][p] = 0
          BY <1>0, <1>3, <1>4, <2>3, <3>1 DEF WritesTheMissing
        <5>2. signals' = [signals EXCEPT ![t][p] = @ + 1]
          BY <1>3, <2>3, <3>1
        <5> QED BY <1>0, <5>1, <5>2 DEF Author
      <4> QED BY <4>1
    <3>2. CASE ~(t = Head(task[w].left) /\ p = worker[w].process)
      <4>1. signals'[t][p] = signals[t][p]
        <5> DEFINE u == Head(task[w].left)
                   q == worker[w].process
        <5>1. signals' = [signals EXCEPT ![u][q] = @ + 1]
          BY <1>3, <2>3
        <5>2. u \in Topic /\ q \in Process /\ ~(t = u /\ p = q)
          BY <1>1, <1>3, <2>3, <3>2
        <5> HIDE DEF u, q
        <5> QED BY <1>0, <5>1, <5>2 DEF Author
      <4> QED BY <2>1, <4>1
    <3> QED BY <3>1, <3>2
  <2> QED BY <2>2, <2>3
<1>5. ASSUME NEW v \in Thread, task'[v].stage = "write", worker'[v].process \notin loose'
      PROVE  signals'[Head(task'[v].left)][worker'[v].process] = 0
  <2> DEFINE t == Head(task[v].left)
             p == worker[v].process
  <2>1. /\ task'[v].left = task[v].left /\ worker'[v].process = p
        /\ task[v].stage \in {"search", "write"}
        /\ task[v].stage = "search" => SearchSignals(v)
        /\ signals[t][p] = 0
    <3>1. CASE task'[v] = task[v] /\ worker'[v].process = p
      BY <1>0, <1>5, <3>1 DEF WritesTheMissing
    <3>2. CASE /\ SearchSignals(v) /\ task'[v].left = task[v].left
               /\ (~Known(t) \/ p \in loose') /\ worker'[v] = worker[v]
      <4>1. task[v].stage = "search"
        BY <3>2 DEF SearchSignals, InAdapter
      <4>2. signals[t][p] \in Nat /\ ~(signals[t][p] > 0)
        BY <1>0, <1>1, <1>5, <3>2, <4>1 DEF Known, Author
      <4> QED BY <3>2, <4>1, <4>2
    <3> QED BY <1>0, <1>5, <3>1, <3>2, WritingHow
  <2>2. t \in Topic /\ p \in Process /\ p \in worker[v].claims /\ worker[v].pc = "running"
    BY <1>1, <2>1
  <2>3. CASE \A w \in Thread : ~WriteSignal(w)
    <3>1. signals'[t][p] \in Nat /\ signals'[t][p] <= signals[t][p]
      BY <1>2, <2>2, <2>3
    <3>2. signals'[t][p] = 0
      BY <2>1, <3>1
    <3> QED BY <2>1, <3>2
  <2>4. ASSUME NEW w \in Thread, WriteSignal(w) PROVE signals'[t][p] = 0
    <3>1. w # v
      BY <1>3, <1>5, <2>4
    <3>2. p # worker[w].process
      <4> SUFFICES ASSUME p = worker[w].process PROVE FALSE
        OBVIOUS
      <4>1. worker[w].pc = "running" /\ p \in worker[w].claims
        BY <1>1, <1>3, <2>4
      <4>2. Unprotected(v, p) \/ Unprotected(w, p)
        BY <2>2, <3>1, <4>1 DEF LInv, ClaimsApart
      <4>3. p \in loose
        BY <2>2, <4>1, <4>2, InTime DEF LooseInv
      <4> QED BY <1>0, <1>5, <2>1, <4>3
    <3> DEFINE u == Head(task[w].left)
               q == worker[w].process
    <3>3. signals' = [signals EXCEPT ![u][q] = @ + 1] /\ u \in Topic /\ q \in Process
      BY <1>1, <1>3, <2>4
    <3>4. signals[t][p] = 0 /\ p # q /\ t \in Topic /\ p \in Process
      BY <2>1, <2>2, <3>2
    <3> HIDE DEF t, p, u, q
    <3> QED BY <1>0, <3>3, <3>4 DEF Author
  <2> QED BY <2>1, <2>3, <2>4
<1> QED BY <1>4, <1>5 DEF WritesTheMissing, SignalsAreWrittenOnce

-----------------------------------------------------------------------------
(* Theorems about what leases are for *)

AllInv == LInv /\ MInv /\ LooseInv

LEMMA AllInvHolds == MonitorSpec => []AllInv
<1>1. MonitorInit => AllInv
  BY LInvInit, MInvInit, LooseInvInit DEF MonitorInit, AllInv
<1>2. AllInv /\ [MonitorNext]_monitorVars => AllInv'
  <2> SUFFICES ASSUME AllInv, [MonitorNext]_monitorVars PROVE AllInv'
    OBVIOUS
  <2>1. [WorkerNext]_workerVars /\ WInv
    BY MonitorStep DEF AllInv, MInv, LInv
  <2>2. LInv' /\ MInv'
    BY <2>1, LInvNext, MInvNext DEF AllInv
  <2>3. LooseInv'
    BY <2>1, OutlivedStep, NobodyStep, SignalsStep, MatchesStep DEF AllInv, LooseInv
  <2> QED BY <2>2, <2>3 DEF AllInv
<1> QED BY <1>1, <1>2, PTL DEF MonitorSpec

\* OneRequestPerMatch: a process of complete_on_first_match shows one approval
\* request at most, unless it was paused under a run or a thread was at it without
\* a lease of its own, however many threads, runs and crashes there are.
THEOREM OneRequestIsShown == MonitorSpec => []OneRequestPerMatch
<1>1. ASSUME AllInv, NEW p \in Process \ loose, FirstMatch(p)
      PROVE  Cardinality({o \in Offer : offers[o].process = p /\ offers[o].shown}) <= 1
  <2> DEFINE S == {o \in Offer : offers[o].process = p /\ offers[o].shown}
  <2>1. \A o, q \in S : Recorded(o, p) /\ Recorded(q, p)
    BY <1>1 DEF AllInv, MInv, OfferIsSound, Recorded
  <2>2. \A o, q \in S : o = q
    BY <1>1, <2>1 DEF AllInv, LooseInv, MatchesEnd
  <2>3. S = {} => Cardinality(S) = 0
    BY FS_EmptySet
  <2>4. ASSUME NEW o \in S PROVE Cardinality(S) = 1
    <3>1. S = {o}
      BY <2>2, <2>4
    <3> QED BY <3>1, FS_Singleton
  <2> HIDE DEF S
  <2>5. Cardinality(S) = 0 \/ Cardinality(S) = 1
    BY <2>3, <2>4
  <2> QED BY <2>5 DEF S
<1>2. AllInv => OneRequestPerMatch
  BY <1>1 DEF OneRequestPerMatch, FirstMatch
<1> QED BY <1>2, AllInvHolds, PTL

\* SignalsAreWrittenOnce: a capture does not write a topic it has written, however
\* often it runs and whatever fails, unless it has looked the topic up among more
\* signals than a search returns, or a thread was at its process without a lease of
\* its own.
THEOREM SignalsWrittenOnce == MonitorSpec => []SignalsAreWrittenOnce
<1>1. AllInv => SignalsAreWrittenOnce
  BY DEF AllInv, LooseInv
<1> QED BY <1>1, AllInvHolds, PTL

\* Two adapters are at work on the same process, or an adapter's run is recovered
\* under it, only if one of them has no lease of its own any more.
THEOREM AdaptersRunApart ==
  MonitorSpec => [](ExclusiveWhileLeased /\ RecoverySparesLeases)
BY MonitorsImplementWorker, NoDoubleExecution, LiveRunsAreNotRecovered, PTL

=============================================================================
