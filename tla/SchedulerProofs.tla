--------------------------- MODULE SchedulerProofs ---------------------------
(***************************************************************************)
(* What each method of the scheduler does to its tables, whoever calls it: *)
(* rows keep their types, a process that has ended stays ended and has no  *)
(* next run. MonitorsProofs and NewsMonitorProofs use these lemmas for the *)
(* threads that call the methods.                                          *)
(***************************************************************************)
EXTENDS Scheduler, TLAPS

StoreInv == StoreTypeOK /\ TerminalIsQuiet

\* What TerminalIsFinal says of one step.
StaysTerminal ==
    \A p \in Process :
        proc[p].status \in Terminal => proc'[p].status \in Terminal \cup {"deleted"}

\* No process is deleted, and none comes back.
DeletedStays ==
    \A p \in Process : proc'[p].status = "deleted" <=> proc[p].status = "deleted"

StoreKept == StoreInv' /\ StaysTerminal /\ DeletedStays

\* A row that may take the place of row p.
Successor(p, row) ==
    /\ row \in ProcessRow
    /\ row.status \in Terminal => row.next = Never
    /\ proc[p].status \in Terminal => row.status \in Terminal \cup {"deleted"}
    /\ row.status = "deleted" <=> proc[p].status = "deleted"

RunRow == [process : Process \cup {NoProcess}, status : RunStatus, age : 0..Horizon]
RunsTyped == run \in [Run -> RunRow]
LocksTyped == lock \in [Process -> [holder : Thread \cup {NoThread}, left : 0..Lease]]

-----------------------------------------------------------------------------
(* Writing rows *)

LEMMA RowsWritten ==
  ASSUME StoreInv, NEW f, proc' = [p \in Process |-> f[p]],
         \A p \in Process : Successor(p, f[p]), RunsTyped', LocksTyped'
  PROVE  StoreKept
BY DEF StoreInv, StoreTypeOK, StoreKept, StaysTerminal, DeletedStays, TerminalIsQuiet,
       Successor, RunsTyped, RunRow, LocksTyped

LEMMA RowItself == ASSUME StoreInv, NEW p \in Process PROVE Successor(p, proc[p])
BY DEF StoreInv, StoreTypeOK, TerminalIsQuiet, Successor

LEMMA RowWritten ==
  ASSUME StoreInv, NEW p, NEW row, proc' = [proc EXCEPT ![p] = row],
         p \in Process => Successor(p, row), RunsTyped', LocksTyped'
  PROVE  StoreKept
<1> DEFINE f == [proc EXCEPT ![p] = row]
<1>1. proc' = [q \in Process |-> f[q]]
  BY DEF StoreInv, StoreTypeOK
<1>2. ASSUME NEW q \in Process PROVE Successor(q, f[q])
  BY RowItself DEF StoreInv, StoreTypeOK
<1> QED BY <1>1, <1>2, RowsWritten

LEMMA ProcKept ==
  ASSUME StoreInv, UNCHANGED proc, RunsTyped', LocksTyped' PROVE StoreKept
BY DEF StoreInv, StoreTypeOK, StoreKept, StaysTerminal, DeletedStays, TerminalIsQuiet,
       RunsTyped, RunRow, LocksTyped

LEMMA TablesTyped == ASSUME StoreInv PROVE RunsTyped /\ LocksTyped
BY DEF StoreInv, StoreTypeOK, RunsTyped, RunRow, LocksTyped

LEMMA RunOverTyped ==
  ASSUME NEW row \in RunRow, NEW status \in RunStatus
  PROVE  RunOver(row, status) \in RunRow /\ RunOver(row, status).process = row.process
<1>1. 0 \in 0..Horizon
  BY LimitsArePositive
<1> QED BY <1>1 DEF RunOver, RunRow

LEMMA NoLockTyped == NoLock \in [holder : Thread \cup {NoThread}, left : 0..Lease]
BY LimitsArePositive DEF NoLock

\* A step that leaves the tables alone keeps them.
LEMMA StoreIdle == ASSUME StoreInv, UNCHANGED store PROVE StoreKept
BY TablesTyped, ProcKept DEF store, RunsTyped, LocksTyped

-----------------------------------------------------------------------------
(* The rows the methods write *)

LEMMA InitialNextTyped ==
  ASSUME StoreInv, NEW p \in Process, NEW n \in InitialNext(p)
  PROVE  n \in Nat \cup {Never}
BY SpecsAreValid DEF InitialNext, StoreInv, StoreTypeOK, ProcessRow, ScheduleSpec

LEMMA NextAfterTyped ==
  ASSUME NEW p \in Process, NEW age \in 0..Horizon, NEW matched \in BOOLEAN,
         NEW n \in NextAfter(p, age, matched)
  PROVE  n \in Nat \cup {Never}
<1>1. Lifecycle[p].cooldown \in Nat /\ Schedule[p].every \subseteq Nat
  BY SpecsAreValid, LimitsArePositive DEF ScheduleSpec, LifecycleSpec
<1> QED BY <1>1, LimitsArePositive DEF NextAfter, After, Larger, Never

LEMMA CountedTyped ==
  ASSUME StoreInv, NEW p \in Process, NEW matched \in BOOLEAN
  PROVE  /\ Counted(p, matched) \in ProcessRow
         /\ Counted(p, matched).status = proc[p].status
         /\ Counted(p, matched).next = proc[p].next
<1>1. proc[p] \in ProcessRow /\ proc[p].matches + 1 \in Nat
  BY DEF StoreInv, StoreTypeOK, ProcessRow
<1>2. [proc[p] EXCEPT !.matches = @ + 1] \in ProcessRow
  BY <1>1 DEF ProcessRow
<1> QED BY <1>1, <1>2 DEF Counted, ProcessRow

LEMMA EndedTyped ==
  ASSUME NEW p, proc[p].status # "deleted", NEW row \in ProcessRow,
         NEW status \in Terminal
  PROVE  Successor(p, Ended(row, status))
BY DEF Ended, Successor, ProcessRow, ProcessStatus, Terminal, Never

LEMMA ExpiryTyped ==
  ASSUME StoreInv, NEW p \in Process PROVE Successor(p, AfterExpiry(p))
<1>1. proc[p] \in ProcessRow
  BY DEF StoreInv, StoreTypeOK
<1> QED BY <1>1, EndedTyped, RowItself DEF AfterExpiry, Expired, Active, Terminal

-----------------------------------------------------------------------------
(* The methods *)

\* The status and the next run of a process that is not ended are changed.
LEMMA Revived ==
  ASSUME StoreInv, NEW p \in Process,
         proc[p].status \notin Terminal \cup {"deleted"},
         NEW n \in InitialNext(p),
         proc' = [proc EXCEPT ![p].status = "active", ![p].next = n],
         UNCHANGED <<run, lock>>
  PROVE  StoreKept
<1> DEFINE row == [proc[p] EXCEPT !.status = "active", !.next = n]
<1>1. proc[p] \in ProcessRow /\ n \in Nat \cup {Never}
  BY InitialNextTyped DEF StoreInv, StoreTypeOK
<1>2. Successor(p, row)
  BY <1>1 DEF Successor, ProcessRow, ProcessStatus, Terminal
<1>3. proc' = [proc EXCEPT ![p] = row]
  BY DEF StoreInv, StoreTypeOK, ProcessRow
<1> HIDE DEF row
<1> QED BY <1>2, <1>3, RowWritten, TablesTyped DEF RunsTyped, LocksTyped

LEMMA Managed ==
  ASSUME StoreInv, NEW p \in Process,
         CreateProcess(p) \/ PauseProcess(p) \/ ResumeProcess(p) \/ ArchiveProcess(p)
  PROVE  StoreKept
<1> USE DEF RunsTyped, LocksTyped
<1>1. CASE CreateProcess(p)
  BY <1>1, Revived DEF CreateProcess, Terminal
<1>2. CASE PauseProcess(p)
  <2> DEFINE row == [proc[p] EXCEPT !.status = "paused"]
  <2>1. Successor(p, row)
    BY <1>2 DEF PauseProcess, Active, Successor, StoreInv, StoreTypeOK, ProcessRow,
                ProcessStatus, Terminal
  <2>2. proc' = [proc EXCEPT ![p] = row]
    BY <1>2 DEF PauseProcess
  <2> HIDE DEF row
  <2> QED BY <1>2, <2>1, <2>2, RowWritten, TablesTyped DEF PauseProcess
<1>3. CASE ResumeProcess(p)
  BY <1>3, Revived DEF ResumeProcess, Terminal
<1>4. CASE ArchiveProcess(p)
  <2>1. proc[p] \in ProcessRow
    BY DEF StoreInv, StoreTypeOK
  <2>2. Successor(p, Ended(proc[p], "archived"))
    BY <1>4, <2>1, EndedTyped DEF ArchiveProcess, Exists, Terminal
  <2>3. proc' = [proc EXCEPT ![p] = Ended(proc[p], "archived")]
    BY <1>4 DEF ArchiveProcess
  <2> QED BY <1>4, <2>2, <2>3, RowWritten, TablesTyped DEF ArchiveProcess
<1> QED BY <1>1, <1>2, <1>3, <1>4

\* The only method that deletes.
LEMMA Deleted ==
  ASSUME StoreInv, NEW P \in SUBSET Process, DeleteArchived(P)
  PROVE  /\ StoreInv' /\ StaysTerminal
         /\ \A p \in Process : proc[p].status = "deleted" => proc'[p].status = "deleted"
<1>1. proc' = [p \in Process |-> IF p \in P THEN [proc[p] EXCEPT !.status = "deleted"]
                                            ELSE proc[p]]
  BY DEF DeleteArchived
<1>2. proc' \in [Process -> ProcessRow]
  BY ZenonT(60), <1>1 DEF StoreInv, StoreTypeOK, ProcessRow, ProcessStatus
<1>3. RunsTyped'
  <2>1. ASSUME NEW r \in Run
        PROVE  [RunOver(run[r], "none") EXCEPT !.process = NoProcess] \in RunRow
    <3>1. RunOver(run[r], "none") \in RunRow
      BY TablesTyped, RunOverTyped DEF RunsTyped, RunStatus
    <3> HIDE DEF RunOver
    <3> QED BY <3>1 DEF RunRow
  <2> QED BY <2>1, TablesTyped DEF DeleteArchived, RunsTyped, RunRow
<1>4. LocksTyped'
  BY TablesTyped, NoLockTyped DEF DeleteArchived, LocksTyped
<1>5. \A p \in Process : proc'[p] = proc[p] \/ proc'[p].status = "deleted"
  BY <1>1 DEF StoreInv, StoreTypeOK, ProcessRow
<1> QED BY <1>2, <1>3, <1>4, <1>5
        DEF StoreInv, StoreTypeOK, RunsTyped, RunRow, LocksTyped, TerminalIsQuiet,
            StaysTerminal, Terminal

\* ExpireActive, and the expiry that begins a claim.
LEMMA Expiring ==
  ASSUME StoreInv, proc' = [p \in Process |-> AfterExpiry(p)], RunsTyped', LocksTyped'
  PROVE  StoreKept
<1> DEFINE f == [p \in Process |-> AfterExpiry(p)]
<1>1. proc' = [p \in Process |-> f[p]] /\ \A p \in Process : f[p] = AfterExpiry(p)
  OBVIOUS
<1> HIDE DEF f
<1>2. ASSUME NEW p \in Process PROVE Successor(p, f[p])
  BY <1>1, ExpiryTyped
<1> QED BY <1>1, <1>2, RowsWritten

LEMMA RunStarted ==
  ASSUME StoreInv, NEW r \in Run, NEW p \in Process, NEW age \in 0..Horizon,
         RecordStarted(r, p, age)
  PROVE  StoreKept
<1>1. RunsTyped' /\ LocksTyped'
  BY TablesTyped DEF RecordStarted, RunsTyped, LocksTyped, RunRow, RunStatus
<1> QED BY <1>1, ProcKept DEF RecordStarted

LEMMA RunEnded ==
  ASSUME StoreInv, NEW r \in Run, UNCHANGED lock,
         run' = [run EXCEPT ![r] = RunOver(@, "ended")]
  PROVE  RunsTyped' /\ LocksTyped'
<1>1. RunOver(run[r], "ended") \in RunRow
  BY TablesTyped, RunOverTyped DEF RunsTyped, RunStatus
<1> HIDE DEF RunOver
<1> QED BY <1>1, TablesTyped DEF RunsTyped, LocksTyped

LEMMA RunCompleted ==
  ASSUME StoreInv, NEW r \in Run, NEW age \in 0..Horizon, NEW matched \in BOOLEAN,
         RecordCompleted(r, age, matched)
  PROVE  StoreKept
<1> DEFINE p == run[r].process
           counted == Counted(p, matched)
<1>1. p \in Process
  BY DEF RecordCompleted, StoreInv, StoreTypeOK
<1>2. RunsTyped' /\ LocksTyped'
  BY RunEnded DEF RecordCompleted
<1>3. counted \in ProcessRow /\ counted.status = proc[p].status
        /\ counted.next = proc[p].next
  BY <1>1, CountedTyped
<1>4. proc[p].status \in Terminal => proc[p].next = Never
  BY <1>1 DEF StoreInv, TerminalIsQuiet
<1>5. \E row : Successor(p, row) /\ proc' = [proc EXCEPT ![p] = row]
  <2>1. CASE ~Active(p) /\ proc' = [proc EXCEPT ![p] = counted]
    BY <2>1, <1>3, <1>4 DEF Successor
  <2>2. CASE Active(p) /\ proc' = [proc EXCEPT ![p] = Ended(counted, "completed")]
    BY <2>2, <1>3, EndedTyped DEF Active, Terminal
  <2>3. ASSUME Active(p), NEW n \in NextAfter(p, age, matched),
               proc' = [proc EXCEPT ![p] = [counted EXCEPT !.next = n]]
        PROVE  \E row : Successor(p, row) /\ proc' = [proc EXCEPT ![p] = row]
    <3>1. n \in Nat \cup {Never}
      BY <1>1, NextAfterTyped
    <3>2. Successor(p, [counted EXCEPT !.next = n])
      BY <1>3, <2>3, <3>1 DEF Successor, ProcessRow, Active, Terminal
    <3> QED BY <2>3, <3>2
  <2> QED BY <2>1, <2>2, <2>3 DEF RecordCompleted
<1> QED BY <1>2, <1>5, RowWritten

LEMMA RunUnsuccessful ==
  ASSUME StoreInv, NEW r \in Run, NEW age \in 0..Horizon,
         RecordUnsuccessful(r, age)
  PROVE  StoreKept
<1> DEFINE p == run[r].process
<1>1. p \in Process
  BY DEF RecordUnsuccessful, StoreInv, StoreTypeOK
<1>2. RunsTyped' /\ LocksTyped'
  BY RunEnded DEF RecordUnsuccessful
<1>3. PICK row \in Rescheduled(p, age, FALSE) : proc' = [proc EXCEPT ![p] = row]
  BY DEF RecordUnsuccessful
<1>4. Successor(p, row)
  <2>1. CASE ~Active(p)
    BY <1>1, <1>3, <2>1, RowItself DEF Rescheduled
  <2>2. CASE Active(p)
    <3>1. PICK n \in NextAfter(p, age, FALSE) : row = [proc[p] EXCEPT !.next = n]
      BY <1>3, <2>2 DEF Rescheduled
    <3>2. n \in Nat \cup {Never}
      BY <1>1, NextAfterTyped
    <3>3. proc[p] \in ProcessRow
      BY <1>1 DEF StoreInv, StoreTypeOK
    <3> HIDE DEF p
    <3> QED BY <2>2, <3>1, <3>2, <3>3 DEF Successor, ProcessRow, Active, Terminal
  <2> QED BY <2>1, <2>2
<1> QED BY <1>2, <1>3, <1>4, RowWritten

LEMMA Recovered == ASSUME StoreInv, RecoverStaleRuns PROVE StoreKept
<1>0. PICK rows \in OldestRuns : Recover(StaleRuns(rows))
  BY DEF RecoverStaleRuns
<1> DEFINE affected == {run[r].process : r \in StaleRuns(rows)}
<1>1. RunsTyped' /\ LocksTyped'
  <2>1. ASSUME NEW r \in Run PROVE RunOver(run[r], "ended") \in RunRow
    BY TablesTyped, RunOverTyped DEF RunsTyped, RunStatus
  <2> HIDE DEF RunOver
  <2> QED BY <1>0, <2>1, TablesTyped DEF Recover, RunsTyped, LocksTyped
<1>2. PICK choice \in [affected -> -1..Horizon] :
          /\ \A p \in affected : choice[p] \in NextAfter(p, 0, FALSE)
          /\ proc' = [p \in Process |-> IF p \in affected /\ Active(p)
                                        THEN [proc[p] EXCEPT !.next = choice[p]]
                                        ELSE proc[p]]
  BY <1>0 DEF Recover
<1> HIDE DEF affected
<1> DEFINE f == [p \in Process |-> IF p \in affected /\ Active(p)
                                   THEN [proc[p] EXCEPT !.next = choice[p]]
                                   ELSE proc[p]]
<1>3. ASSUME NEW p \in Process PROVE Successor(p, f[p])
  <2>1. CASE p \in affected /\ Active(p)
    <3>1. 0 \in 0..Horizon
      BY LimitsArePositive
    <3>2. choice[p] \in Nat \cup {Never}
      BY <1>2, <2>1, <3>1, NextAfterTyped
    <3> QED BY ZenonT(60), <2>1, <3>2
            DEF Successor, StoreInv, StoreTypeOK, ProcessRow, Active, Terminal
  <2> QED BY <2>1, RowItself
<1>4. proc' = [p \in Process |-> f[p]]
  BY <1>2
<1> HIDE DEF f
<1> QED BY <1>1, <1>3, <1>4, RowsWritten

\* Leases: claims of any set of processes, and a release.
LEMMA LeasesWritten ==
  ASSUME StoreInv, NEW t \in Thread, NEW claims,
         WriteLeases(t, claims)
  PROVE  LocksTyped'
BY TablesTyped, LimitsArePositive DEF WriteLeases, LocksTyped, Held

LEMMA LeaseReleased ==
  ASSUME StoreInv, NEW t, NEW p, ReleaseLease(t, p) PROVE StoreKept
<1>1. RunsTyped' /\ LocksTyped'
  BY TablesTyped, NoLockTyped DEF ReleaseLease, RunsTyped, LocksTyped
<1> QED BY <1>1, ProcKept DEF ReleaseLease

LEMMA TimePassed == ASSUME StoreInv, TimePasses PROVE StoreKept
<1> DEFINE f == [p \in Process |-> [proc[p] EXCEPT !.next = Closer(@),
                    !.expires = Closer(@), !.runAt = Closer(@)]]
<1>1. proc' = [p \in Process |-> f[p]]
  BY DEF TimePasses
<1>2. ASSUME NEW p \in Process PROVE Successor(p, f[p])
  <2>1. proc[p] \in ProcessRow /\ (proc[p].status \in Terminal => proc[p].next = Never)
    BY DEF StoreInv, StoreTypeOK, TerminalIsQuiet
  <2>2. \A d \in Nat \cup {Never} : Closer(d) \in Nat \cup {Never}
    BY DEF Closer, Never
  <2>3. \A d \in Nat : Closer(d) \in Nat
    BY DEF Closer
  <2>4. Closer(Never) = Never
    BY DEF Closer, Never
  <2> QED BY <2>1, <2>2, <2>3, <2>4 DEF Successor, ProcessRow
<1>3. RunsTyped'
  <2>1. \A age \in 0..Horizon : Older(age) \in 0..Horizon
    BY LimitsArePositive DEF Older
  <2> QED BY <2>1, TablesTyped DEF TimePasses, RunsTyped, RunRow
<1>4. LocksTyped'
  <2>1. \A d \in 0..Lease : Closer(d) \in 0..Lease
    BY LimitsArePositive DEF Closer
  <2> QED BY <2>1, TablesTyped DEF TimePasses, LocksTyped
<1> HIDE DEF f
<1> QED BY <1>1, <1>2, <1>3, <1>4, RowsWritten

LEMMA StoreInit == Init => StoreInv
BY SpecsAreValid, LimitsArePositive
   DEF Init, StoreInv, StoreTypeOK, TerminalIsQuiet, ProcessRow, ProcessStatus, Terminal,
       RunStatus, NoLock, ScheduleSpec, LifecycleSpec, Never

=============================================================================
