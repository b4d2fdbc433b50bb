-------------------------- MODULE NewsMonitorProofs --------------------------
(***************************************************************************)
(* Theorems about the news monitors. WatchedOnce and LiveRunsAreSpared are  *)
(* not inductive: what keeps two bots apart is the lease, and what keeps a  *)
(* run from being recovered is the lease too. The invariant says that a     *)
(* monitor which goes round its loop in time holds the lease on its         *)
(* process, with as much of it left as has not gone by since the head of    *)
(* the loop, and that no two monitors write the same run.                   *)
(***************************************************************************)
EXTENDS NewsMonitor, SchedulerProofs

Watching == InLoop \cup {"starting"}
Running == InLoop \cup {"left", "failed"}
MonitorStage == Watching \cup Running \cup {"none", "releasing", "leaving", "dead"}

MonitorEntry ==
    [pc : MonitorStage, stop : BOOLEAN, run : Run \cup {NoRun}, seen : SUBSET News,
     relevant : BOOLEAN, since : 0..Lease, late : BOOLEAN, lost : BOOLEAN]

SupervisorRow ==
    [listed : SUBSET Process, claiming : Process \cup {NoProcess}, found : BOOLEAN,
     passes : 0..Passes]

MonitorTypeOK ==
    /\ window \in [Process -> WindowSpec]
    /\ supervisor \in [Thread -> SupervisorRow]
    /\ monitor \in [Thread -> [Process -> MonitorEntry]]
    /\ failures \in 0..MaxFailures

Gone(p) == proc[p].status = "deleted"
InTime(m) == m.pc \in Watching /\ ~Unleased(m)

\* A monitor that is not late is not a lease away from the head of its loop.
SinceIsShort ==
    \A t \in Thread, p \in Process :
        ~monitor[t][p].late => monitor[t][p].since < Lease

\* A monitor in time holds the lease, and that for long enough.
LeaseIsKept ==
    \A t \in Thread, p \in Process :
        InTime(monitor[t][p]) /\ ~Gone(p)
            => /\ lock[p].holder = t
               /\ lock[p].left >= Lease - monitor[t][p].since

\* Two bots are not both in time, unless the process has been deleted, and with it
\* the lease that kept them apart; one of the two then never gets to its loop.
WatchersApart ==
    \A s, t \in Thread, p \in Process :
        s # t /\ InTime(monitor[s][p]) /\ InTime(monitor[t][p])
            => Gone(p) /\ "starting" \in {monitor[s][p].pc, monitor[t][p].pc}

\* No two monitors have the same run, and one that has a run to record has one.
RunsApart ==
    \A s, t \in Thread, p, q \in Process :
        monitor[s][p].run = monitor[t][q].run /\ monitor[s][p].run # NoRun
            => s = t /\ p = q

RunIsKnown ==
    \A t \in Thread, p \in Process :
        /\ monitor[t][p].pc \in Running => monitor[t][p].run # NoRun
        /\ monitor[t][p].pc = "starting" => monitor[t][p].run = NoRun

\* The run of a monitor in time is open, and it is a run of its process.
OpenRun(r, p) == run[r].process = p /\ run[r].status = "started"

RunIsOpen ==
    \A t \in Thread, p \in Process :
        monitor[t][p].pc \in InLoop /\ ~Unleased(monitor[t][p]) /\ ~Gone(p)
            => OpenRun(monitor[t][p].run, p)

MonitorInv ==
    /\ StoreInv /\ MonitorTypeOK
    /\ SinceIsShort /\ LeaseIsKept /\ WatchersApart
    /\ RunsApart /\ RunIsKnown /\ RunIsOpen

-----------------------------------------------------------------------------
(* Steps that start no monitor and refresh no lease *)

\* What may become of entry m: it stays in its loop, or goes on to the steps
\* after it, with the same run, or it disappears.
Onward(m, n) ==
    /\ n \in MonitorEntry
    /\ n.pc \in Watching => n.since = m.since /\ n.late = m.late /\ n.lost = m.lost
    /\ n.since < Lease \/ n.late
    /\ n.pc \in InLoop => m.pc \in InLoop
    /\ n.pc \in Running => m.pc \in Running /\ n.run = m.run
    /\ n.pc = "starting" => m.pc = "starting"
    /\ n.run = m.run \/ n.run = NoRun

\* What the step does to the store does not concern the monitors in time.
Spares(t, p) ==
    /\ InTime(monitor[t][p]) => lock'[p] = lock[p]
    /\ monitor'[t][p].pc \in InLoop /\ InTime(monitor[t][p])
          => run'[monitor[t][p].run] = run[monitor[t][p].run]

RestTyped ==
    /\ window \in [Process -> WindowSpec]
    /\ supervisor \in [Thread -> SupervisorRow]
    /\ failures \in 0..MaxFailures

GoneStays == \A p \in Process : Gone(p) => Gone(p)'

LEMMA MonitorsCarried ==
  ASSUME MonitorInv, StoreInv', RestTyped', GoneStays,
         NEW f, monitor' = [t \in Thread |-> [p \in Process |-> f[t][p]]],
         \A t \in Thread, p \in Process : Onward(monitor[t][p], f[t][p]),
         \A t \in Thread, p \in Process : ~Gone(p)' => Spares(t, p)
  PROVE  MonitorInv'
<1>1. \A t \in Thread, p \in Process : Onward(monitor[t][p], monitor'[t][p])
  OBVIOUS
<1>2. MonitorTypeOK'
  BY DEF Onward, MonitorTypeOK, RestTyped
<1>3. SinceIsShort'
  BY <1>1 DEF SinceIsShort, Onward
<1>4. LeaseIsKept'
  BY <1>1 DEF MonitorInv, LeaseIsKept, Onward, Spares, InTime, Unleased, Watching, GoneStays
<1>5. WatchersApart'
  <2>1. \A t \in Thread, p \in Process :
          InTime(monitor'[t][p]) => /\ InTime(monitor[t][p])
                                    /\ monitor[t][p].pc = "starting"
                                         => monitor'[t][p].pc = "starting"
    BY <1>1 DEF Onward, InTime, Unleased, Watching, InLoop
  <2> QED BY <2>1 DEF MonitorInv, WatchersApart, GoneStays
<1>6. RunsApart'
  BY <1>1 DEF MonitorInv, RunsApart, Onward
<1>7. RunIsKnown'
  BY <1>1 DEF MonitorInv, RunIsKnown, Onward
<1>8. RunIsOpen'
  BY <1>1 DEF MonitorInv, RunIsOpen, OpenRun, Onward, Spares, InTime, Unleased, Watching,
              Running, GoneStays
<1> QED BY <1>2, <1>3, <1>4, <1>5, <1>6, <1>7, <1>8 DEF MonitorInv

LEMMA EntryTyped ==
  ASSUME MonitorInv, NEW t \in Thread, NEW p \in Process
  PROVE  /\ monitor[t][p] \in MonitorEntry
         /\ Onward(monitor[t][p], monitor[t][p])
         /\ Onward(monitor[t][p], NoMonitor)
<1>1. monitor[t][p] \in MonitorEntry
  BY DEF MonitorInv, MonitorTypeOK
<1>2. monitor[t][p].since < Lease \/ monitor[t][p].late
  BY DEF MonitorInv, SinceIsShort
<1>3. NoMonitor \in MonitorEntry
  BY MonitorBounds, LimitsArePositive
     DEF NoMonitor, MonitorEntry, MonitorStage, Watching, Running, InLoop
<1>4. Onward(monitor[t][p], NoMonitor)
  BY <1>3, LimitsArePositive DEF Onward, NoMonitor, Watching, Running, InLoop
<1> QED BY <1>1, <1>2, <1>4 DEF Onward

\* One monitor goes on, with or without a write to the store.
LEMMA MonitorCarried ==
  ASSUME MonitorInv, StoreInv', RestTyped', GoneStays,
         NEW t \in Thread, NEW p \in Process, NEW n, Update(t, p, n),
         Onward(monitor[t][p], n),
         \A s \in Thread, q \in Process : ~Gone(q)' => Spares(s, q)
  PROVE  MonitorInv'
<1> DEFINE f == [monitor EXCEPT ![t][p] = n]
<1>1. monitor \in [Thread -> [Process -> MonitorEntry]]
  BY DEF MonitorInv, MonitorTypeOK
<1>2. monitor' = [s \in Thread |-> [q \in Process |-> f[s][q]]]
  BY <1>1 DEF Update
<1>3. ASSUME NEW s \in Thread, NEW q \in Process PROVE Onward(monitor[s][q], f[s][q])
  BY <1>1, EntryTyped
<1> HIDE DEF f
<1> QED BY <1>2, <1>3, MonitorsCarried

\* The tables stay as they are.
LEMMA StoreSpares ==
  ASSUME MonitorInv, UNCHANGED store
  PROVE  /\ StoreInv' /\ GoneStays
         /\ \A t \in Thread, p \in Process : Spares(t, p)
BY StoreIdle DEF MonitorInv, StoreKept, GoneStays, Gone, DeletedStays, store, Spares

\* A monitor takes a step of its own.
LEMMA MonitorMoved ==
  ASSUME MonitorInv, NEW t \in Thread, NEW p \in Process, NEW n, Update(t, p, n),
         Onward(monitor[t][p], n), UNCHANGED <<store, window, supervisor>>,
         NoFailure \/ Failure
  PROVE  MonitorInv'
<1>1. RestTyped'
  BY MonitorBounds DEF MonitorInv, MonitorTypeOK, RestTyped, NoFailure, Failure
<1> QED BY <1>1, StoreSpares, MonitorCarried

\* The store changes, but not for a monitor in time; no monitor changes.
LEMMA MonitorsSpared ==
  ASSUME MonitorInv, StoreInv', RestTyped', GoneStays, UNCHANGED monitor,
         \A t \in Thread, p \in Process : ~Gone(p)' => Spares(t, p)
  PROVE  MonitorInv'
<1>1. monitor \in [Thread -> [Process -> MonitorEntry]]
  BY DEF MonitorInv, MonitorTypeOK
<1>2. monitor' = [t \in Thread |-> [p \in Process |-> monitor[t][p]]]
  BY <1>1
<1> QED BY <1>2, EntryTyped, MonitorsCarried

-----------------------------------------------------------------------------
(* The supervisor *)

LEMMA ActiveListed == ASSUME MonitorInv, NEW t \in Thread, ListActive(t) PROVE MonitorInv'
<1> DEFINE active == {p \in Process : Active(p)}
           Checked(p) ==
             LET m == monitor[t][p] IN
             CASE m.pc = "none" -> m
               [] m.pc = "dead" -> NoMonitor
               [] OTHER -> [m EXCEPT !.stop = @ \/ p \notin active \/ Closed(p)]
           f == [monitor EXCEPT ![t] = [p \in Process |-> Checked(p)]]
<1>1. monitor \in [Thread -> [Process -> MonitorEntry]] /\ monitor' = f
  BY DEF MonitorInv, MonitorTypeOK, ListActive
<1>2. ASSUME NEW p \in Process PROVE Onward(monitor[t][p], Checked(p))
  <2> DEFINE m == monitor[t][p]
  <2>1. m \in MonitorEntry /\ Onward(m, m) /\ Onward(m, NoMonitor)
    BY EntryTyped
  <2>2. \A b \in BOOLEAN : Onward(m, [m EXCEPT !.stop = b])
    <3> HIDE DEF m
    <3> QED BY <2>1 DEF Onward, MonitorEntry
  <2>3. (m.stop \/ p \notin active \/ Closed(p)) \in BOOLEAN
    OBVIOUS
  <2> HIDE DEF m, active
  <2> QED BY <2>1, <2>2, <2>3 DEF m
<1>3. RestTyped'
  <2>1. active \in SUBSET Process
    OBVIOUS
  <2> HIDE DEF active
  <2>2. /\ supervisor' = [supervisor EXCEPT ![t].listed = active, ![t].passes = @ + 1]
        /\ supervisor[t].passes < Passes /\ UNCHANGED <<window, failures>>
    BY DEF ListActive, NoFailure, active
  <2>3. supervisor[t].passes + 1 \in 0..Passes
    BY <2>2, MonitorBounds DEF MonitorInv, MonitorTypeOK, SupervisorRow
  <2> QED BY <2>1, <2>2, <2>3 DEF MonitorInv, MonitorTypeOK, RestTyped, SupervisorRow
<1>4. UNCHANGED store
  BY DEF ListActive
<1>5. monitor' = [s \in Thread |-> [p \in Process |-> f[s][p]]]
  BY <1>1
<1>6. ASSUME NEW s \in Thread, NEW p \in Process PROVE Onward(monitor[s][p], f[s][p])
  BY <1>1, <1>2, EntryTyped
<1> HIDE DEF f
<1> QED BY <1>3, <1>4, <1>5, <1>6, StoreSpares, MonitorsCarried

\* What the supervisor makes of its own record.
LEMMA PassTyped ==
  ASSUME MonitorInv, NEW t \in Thread, NEW p \in Process, UNCHANGED <<window, failures>>,
         \/ Done(t, p) \/ Abort(t)
         \/ supervisor' = [supervisor EXCEPT ![t].claiming = p, ![t].found = HasRow(p)]
  PROVE  RestTyped'
<1>1. supervisor \in [Thread -> SupervisorRow] /\ supervisor[t] \in SupervisorRow
  BY DEF MonitorInv, MonitorTypeOK
<1>2. PICK row \in SupervisorRow : supervisor' = [supervisor EXCEPT ![t] = row]
  <2>1. /\ [supervisor[t] EXCEPT !.listed = @ \ {p}, !.claiming = NoProcess, !.found = FALSE]
              \in SupervisorRow
        /\ [supervisor[t] EXCEPT !.claiming = p, !.found = HasRow(p)] \in SupervisorRow
    BY <1>1 DEF SupervisorRow, HasRow
  <2>2. [NoPass EXCEPT !.passes = supervisor[t].passes] \in SupervisorRow
    BY <1>1 DEF SupervisorRow, NoPass
  <2>3. CASE Done(t, p)
    <3>1. supervisor' = [supervisor EXCEPT ![t] =
             [supervisor[t] EXCEPT !.listed = @ \ {p}, !.claiming = NoProcess,
                                   !.found = FALSE]]
      BY <1>1, <2>3 DEF Done, SupervisorRow
    <3> QED BY <2>1, <3>1
  <2>4. CASE Abort(t)
    BY <2>2, <2>4 DEF Abort
  <2>5. CASE supervisor' = [supervisor EXCEPT ![t].claiming = p, ![t].found = HasRow(p)]
    BY <2>1, <2>5
  <2> QED BY <2>3, <2>4, <2>5
<1> QED BY <1>1, <1>2 DEF MonitorInv, MonitorTypeOK, RestTyped

LEMMA PassWentOn ==
  ASSUME MonitorInv, NEW t \in Thread, NEW p \in Process,
         \/ PassOver(t, p) \/ PassAborts(t, p) \/ ReadClaim(t, p) \/ ClaimConflicts(t, p)
  PROVE  MonitorInv'
<1>1. UNCHANGED <<store, monitor>>
  BY DEF PassOver, PassAborts, ReadClaim, ClaimConflicts
<1>2. RestTyped'
  BY PassTyped DEF PassOver, PassAborts, ReadClaim, ClaimConflicts, NoFailure
<1> QED BY <1>1, <1>2, StoreSpares, MonitorsSpared

LEMMA MarkedTerminal ==
  ASSUME StoreInv, NEW p \in Process, NEW status \in Terminal, MarkTerminal(p, status)
  PROVE  StoreKept
<1>1. Successor(p, Ended(proc[p], status))
  BY EndedTyped DEF MarkTerminal, Exists, StoreInv, StoreTypeOK
<1>2. proc' = [proc EXCEPT ![p] = Ended(proc[p], status)]
  BY DEF MarkTerminal
<1> QED BY <1>1, <1>2, RowWritten, TablesTyped DEF MarkTerminal, RunsTyped, LocksTyped

LEMMA UnwatchedEnded ==
  ASSUME MonitorInv, NEW t \in Thread, NEW p \in Process, EndUnwatched(t, p)
  PROVE  MonitorInv'
<1>1. \E status \in Terminal : MarkTerminal(p, status)
  BY DEF EndUnwatched, Terminal
<1>2. StoreKept
  BY <1>1, MarkedTerminal DEF MonitorInv
<1>3. UNCHANGED <<run, lock, monitor>>
  BY <1>1 DEF EndUnwatched, MarkTerminal
<1>4. RestTyped'
  BY PassTyped DEF EndUnwatched, NoFailure
<1> QED BY <1>2, <1>3, <1>4, MonitorsSpared
        DEF StoreKept, DeletedStays, GoneStays, Gone, Spares

\* A monitor in time that is left has its lease taken, and is not in time any more;
\* except if the process has been deleted, and the lease with it.
LEMMA MonitorStarted ==
  ASSUME MonitorInv, NEW t \in Thread, NEW p \in Process, StartMonitor(t, p)
  PROVE  MonitorInv'
<1> DEFINE n == [NoMonitor EXCEPT !.pc = "starting"]
           Robbed(s) == Alive(monitor[s][p]) /\ lock[p].holder = s /\ Leased(p)
           r(s) == [monitor[s][p] EXCEPT !.lost = @ \/ Robbed(s)]
<1>1. /\ monitor \in [Thread -> [Process -> MonitorEntry]]
      /\ monitor' = [s \in Thread |-> [monitor[s] EXCEPT ![p] = IF s = t THEN n ELSE r(s)]]
  BY DEF MonitorInv, MonitorTypeOK, StartMonitor
<1>2. /\ n \in MonitorEntry /\ n.pc = "starting" /\ n.run = NoRun
      /\ n.since = 0 /\ ~n.late
  <2>1. /\ NoMonitor \in MonitorEntry /\ NoMonitor.run = NoRun
        /\ NoMonitor.since = 0 /\ ~NoMonitor.late
    BY EntryTyped DEF Onward, NoMonitor
  <2>2. "starting" \in MonitorStage
    BY DEF MonitorStage, Watching
  <2> QED BY <2>1, <2>2 DEF MonitorEntry
<1>3. ASSUME NEW s \in Thread
      PROVE  /\ r(s) \in MonitorEntry /\ r(s).pc = monitor[s][p].pc
             /\ r(s).run = monitor[s][p].run /\ r(s).since = monitor[s][p].since
             /\ r(s).late = monitor[s][p].late
             /\ InTime(r(s)) => InTime(monitor[s][p]) /\ ~Robbed(s)
  <2> DEFINE m == monitor[s][p]
             b == m.lost \/ Robbed(s)
  <2>1. m \in MonitorEntry /\ b \in BOOLEAN
    BY <1>1 DEF MonitorEntry
  <2>2. r(s) = [m EXCEPT !.lost = b] /\ (b <=> m.lost \/ Robbed(s))
    OBVIOUS
  <2> HIDE DEF m, b, r, Robbed
  <2> QED BY <2>1, <2>2 DEF MonitorEntry, InTime, Unleased, m
<1>4. /\ monitor'[t][p] = n
      /\ \A s \in Thread : s # t => monitor'[s][p] = r(s)
      /\ \A s \in Thread, q \in Process : q # p => monitor'[s][q] = monitor[s][q]
  <2> HIDE DEF n, r
  <2> QED BY <1>1
<1>5. monitor' \in [Thread -> [Process -> MonitorEntry]]
  <2> HIDE DEF n, r
  <2> QED BY <1>1, <1>2, <1>3
<1> HIDE DEF n, r
<1>6. UNCHANGED <<proc, run>> /\ WriteLeases(t, {p})
  BY DEF StartMonitor
<1>7. LocksTyped /\ RunsTyped
  BY TablesTyped DEF MonitorInv
<1>8. \A s \in Thread : s # t /\ InTime(monitor'[s][p]) => Gone(p)
  <2>1. SUFFICES ASSUME NEW s \in Thread, s # t, InTime(monitor'[s][p]), ~Gone(p) PROVE FALSE
    OBVIOUS
  <2>2. InTime(monitor[s][p]) /\ ~Robbed(s)
    BY <1>3, <1>4, <2>1
  <2>3. lock[p].holder = s /\ lock[p].left >= Lease - monitor[s][p].since
    BY <2>1, <2>2 DEF MonitorInv, LeaseIsKept
  <2>4. monitor[s][p].since \in 0..Lease /\ monitor[s][p].since < Lease
    BY <1>1, <2>2 DEF MonitorEntry, MonitorInv, SinceIsShort, InTime, Unleased
  <2>5. lock[p].left \in 0..Lease
    BY <1>7 DEF LocksTyped
  <2>6. Leased(p)
    BY <2>3, <2>4, <2>5, LimitsArePositive DEF Leased
  <2>7. Alive(monitor[s][p])
    BY <2>2 DEF InTime, Watching, InLoop, Alive
  <2> QED BY <2>2, <2>3, <2>6, <2>7
<1> HIDE DEF Robbed
<1>9. StoreInv'
  <2>1. LocksTyped' /\ RunsTyped'
    BY <1>6, <1>7, LeasesWritten DEF MonitorInv, RunsTyped
  <2> QED BY <1>6, <2>1, ProcKept DEF MonitorInv, StoreKept
<1>10. MonitorTypeOK'
  <2>1. RestTyped'
    BY PassTyped DEF StartMonitor, NoFailure
  <2> QED BY <1>5, <2>1 DEF MonitorTypeOK, RestTyped
<1>11. SinceIsShort'
  BY <1>2, <1>3, <1>4, LimitsArePositive DEF MonitorInv, SinceIsShort
<1>12. LeaseIsKept'
  <2>1. lock'[p].holder = t /\ lock'[p].left = Lease
    BY <1>6 DEF WriteLeases, Held
  <2>2. \A q \in Process : q # p => lock'[q] = lock[q]
    BY <1>6, <1>7 DEF WriteLeases, LocksTyped
  <2>3. Lease >= Lease - 0
    BY LimitsArePositive
  <2> QED BY <1>2, <1>4, <1>6, <1>8, <2>1, <2>2, <2>3
          DEF MonitorInv, LeaseIsKept, Gone
<1>13. WatchersApart'
  <2> SUFFICES ASSUME NEW s \in Thread, NEW u \in Thread, NEW q \in Process, s # u,
                      InTime(monitor'[s][q]), InTime(monitor'[u][q])
               PROVE  Gone(q) /\ "starting" \in {monitor'[s][q].pc, monitor'[u][q].pc}
    BY <1>6 DEF WatchersApart, Gone
  <2>1. CASE q # p
    BY <1>4, <2>1 DEF MonitorInv, WatchersApart
  <2>2. CASE q = p /\ (s = t \/ u = t)
    BY <1>2, <1>4, <1>8, <2>2
  <2>3. CASE q = p /\ s # t /\ u # t
    BY <1>3, <1>4, <2>3 DEF MonitorInv, WatchersApart
  <2> QED BY <2>1, <2>2, <2>3
<1>14. RunsApart'
  BY <1>2, <1>3, <1>4 DEF MonitorInv, RunsApart
<1>15. RunIsKnown'
  BY <1>2, <1>3, <1>4 DEF MonitorInv, RunIsKnown, Running, InLoop
<1>16. RunIsOpen'
  <2> SUFFICES ASSUME NEW s \in Thread, NEW q \in Process,
                      monitor'[s][q].pc \in InLoop, ~Unleased(monitor'[s][q]), ~Gone(q)
               PROVE  OpenRun(monitor'[s][q].run, q)
    BY <1>6 DEF RunIsOpen, OpenRun, Gone
  <2>1. s # t \/ q # p
    BY <1>2, <1>4 DEF InLoop
  <2>2. monitor'[s][q].run = monitor[s][q].run /\ monitor'[s][q].pc = monitor[s][q].pc
    BY <1>3, <1>4, <2>1
  <2>3. InTime(monitor'[s][q])
    BY DEF InTime, Watching
  <2>4. ~Unleased(monitor[s][q])
    BY <1>3, <1>4, <2>1, <2>3 DEF InTime
  <2> QED BY <2>2, <2>4 DEF MonitorInv, RunIsOpen
<1> QED BY <1>9, <1>10, <1>11, <1>12, <1>13, <1>14, <1>15, <1>16 DEF MonitorInv

-----------------------------------------------------------------------------
(* A monitor *)

\* The run it starts is one that no monitor has.
LEMMA MonitorRunStarted ==
  ASSUME MonitorInv, NEW t \in Thread, NEW p \in Process, RunStarts(t, p)
  PROVE  MonitorInv'
<1>1. PICK r \in Run \ InUse :
        /\ RecordStarted(r, p, 0)
        /\ monitor' = [monitor EXCEPT
              ![t][p] = [monitor[t][p] EXCEPT !.pc = "looping", !.run = r]]
  BY DEF RunStarts, Update
<1> DEFINE m == monitor[t][p]
           n == [m EXCEPT !.pc = "looping", !.run = r]
<1>2. monitor \in [Thread -> [Process -> MonitorEntry]] /\ m \in MonitorEntry
  BY DEF MonitorInv, MonitorTypeOK
<1>3. /\ n \in MonitorEntry /\ n.pc = "looping" /\ n.run = r
      /\ n.since = m.since /\ n.late = m.late /\ n.lost = m.lost /\ m.pc = "starting"
  BY <1>2 DEF RunStarts, MonitorEntry, MonitorStage, Watching, InLoop
<1>4. /\ monitor'[t][p] = n
      /\ \A s \in Thread, q \in Process :
            s # t \/ q # p => monitor'[s][q] = monitor[s][q]
  BY <1>1, <1>2
<1>5. r # NoRun /\ \A s \in Thread, q \in Process : monitor[s][q].run # r
  <2>1. m.run = NoRun
    BY <1>3 DEF MonitorInv, RunIsKnown
  <2> QED BY <1>1, <2>1 DEF InUse
<1>6. StoreInv'
  <2>1. 0 \in 0..Horizon
    BY LimitsArePositive
  <2> QED BY <1>1, <2>1, RunStarted DEF MonitorInv, StoreKept
<1>7. /\ UNCHANGED <<proc, lock>> /\ OpenRun(r, p)' /\ ~Gone(p)
      /\ \A q \in Run : q # r => run'[q] = run[q]
  BY <1>1, TablesTyped DEF RecordStarted, OpenRun, MonitorInv, RunsTyped, Exists, Gone
<1>8. monitor' \in [Thread -> [Process -> MonitorEntry]]
  BY <1>1, <1>2, <1>3
<1> HIDE DEF n, m
<1>9. MonitorTypeOK'
  BY <1>8 DEF MonitorInv, MonitorTypeOK, RunStarts, NoFailure
<1>10. SinceIsShort'
  BY <1>3, <1>4 DEF MonitorInv, SinceIsShort, m
<1>11. LeaseIsKept'
  BY <1>3, <1>4, <1>7 DEF MonitorInv, LeaseIsKept, InTime, Unleased, Watching, Gone, m
<1>12. WatchersApart'
  <2>1. InTime(n) => InTime(m)
    BY <1>3 DEF InTime, Unleased, Watching
  <2> QED BY <1>4, <1>7, <2>1 DEF MonitorInv, WatchersApart, Gone, m
<1>13. RunsApart'
  BY <1>3, <1>4, <1>5 DEF MonitorInv, RunsApart
<1>14. RunIsKnown'
  BY <1>3, <1>4, <1>5 DEF MonitorInv, RunIsKnown, Running, InLoop
<1>15. RunIsOpen'
  <2>1. \A s \in Thread, q \in Process :
          monitor[s][q].pc \in InLoop => monitor[s][q].run \in Run
    BY <1>2 DEF MonitorInv, RunIsKnown, MonitorEntry, Running
  <2> QED BY <1>3, <1>4, <1>5, <1>7, <2>1 DEF MonitorInv, RunIsOpen, OpenRun, Gone
<1> QED BY <1>6, <1>9, <1>10, <1>11, <1>12, <1>13, <1>14, <1>15 DEF MonitorInv

\* The holder of the lease, if in time, is the one whose lease is extended.
LEMMA MonitorRefreshed ==
  ASSUME MonitorInv, NEW t \in Thread, NEW p \in Process, Refresh(t, p)
  PROVE  MonitorInv'
<1> DEFINE m == monitor[t][p]
           n == [m EXCEPT !.pc = "waiting", !.since = 0]
<1>1. /\ monitor \in [Thread -> [Process -> MonitorEntry]] /\ m \in MonitorEntry
      /\ monitor' = [monitor EXCEPT ![t][p] = n]
  BY DEF MonitorInv, MonitorTypeOK, Refresh, Update
<1>2. /\ n \in MonitorEntry /\ n.pc = "waiting" /\ n.run = m.run
      /\ n.since = 0 /\ n.late = m.late /\ n.lost = m.lost /\ m.pc = "looping"
  <2>1. "waiting" \in MonitorStage /\ 0 \in 0..Lease
    BY LimitsArePositive DEF MonitorStage, Watching, InLoop
  <2>2. m.pc = "looping"
    BY DEF Refresh
  <2> HIDE DEF m
  <2> QED BY <1>1, <2>1, <2>2 DEF MonitorEntry
<1>3. /\ monitor'[t][p] = n
      /\ \A s \in Thread, q \in Process :
            s # t \/ q # p => monitor'[s][q] = monitor[s][q]
  BY <1>1
<1>4. /\ UNCHANGED <<proc, run, window, supervisor, failures>>
      /\ lock' = IF lock[p].holder = t THEN [lock EXCEPT ![p].left = Lease] ELSE lock
  BY DEF Refresh, RefreshLease, NoFailure
<1>5. LocksTyped /\ RunsTyped
  BY TablesTyped DEF MonitorInv
<1>6. StoreInv'
  <2>1. LocksTyped' /\ RunsTyped'
    BY <1>4, <1>5, LimitsArePositive DEF LocksTyped, RunsTyped
  <2> QED BY <1>4, <2>1, ProcKept DEF MonitorInv, StoreKept
<1>7. MonitorTypeOK'
  <2>1. monitor' \in [Thread -> [Process -> MonitorEntry]]
    BY <1>1, <1>2
  <2> QED BY <1>4, <2>1 DEF MonitorInv, MonitorTypeOK
<1> HIDE DEF n, m
<1>8. SinceIsShort'
  BY <1>2, <1>3, LimitsArePositive DEF MonitorInv, SinceIsShort
<1>9. LeaseIsKept'
  <2> SUFFICES ASSUME NEW s \in Thread, NEW q \in Process,
                      InTime(monitor'[s][q]), ~Gone(q)
               PROVE  lock'[q].holder = s /\ lock'[q].left >= Lease - monitor'[s][q].since
    BY <1>4 DEF LeaseIsKept, Gone
  <2>1. InTime(monitor[s][q])
    BY <1>2, <1>3 DEF InTime, Unleased, Watching, InLoop, m
  <2>2. lock[q].holder = s /\ lock[q].left >= Lease - monitor[s][q].since
    BY <2>1 DEF MonitorInv, LeaseIsKept
  <2>3. CASE s = t /\ q = p
    <3>1. lock'[p].holder = t /\ lock'[p].left = Lease /\ Lease >= Lease - 0
      BY <1>4, <1>5, <2>2, <2>3, LimitsArePositive DEF LocksTyped
    <3> QED BY <1>2, <1>3, <2>3, <3>1
  <2>4. CASE s # t \/ q # p
    <3>1. lock'[q] = lock[q]
      BY <1>4, <1>5, <2>2, <2>4 DEF LocksTyped
    <3> QED BY <1>3, <2>2, <2>4, <3>1
  <2> QED BY <2>3, <2>4
<1>10. WatchersApart'
  <2>1. InTime(n) => InTime(m) /\ m.pc # "starting"
    BY <1>2 DEF InTime, Unleased, Watching, InLoop
  <2> QED BY <1>3, <1>4, <2>1 DEF MonitorInv, WatchersApart, Gone, m
<1>11. RunsApart'
  BY <1>2, <1>3 DEF MonitorInv, RunsApart, m
<1>12. RunIsKnown'
  BY <1>2, <1>3 DEF MonitorInv, RunIsKnown, Running, InLoop, m
<1>13. RunIsOpen'
  BY <1>2, <1>3, <1>4 DEF MonitorInv, RunIsOpen, OpenRun, InLoop, Unleased, Gone, m
<1> QED BY <1>6, <1>7, <1>8, <1>9, <1>10, <1>11, <1>12, <1>13 DEF MonitorInv

\* What the steps that leave a monitor's lease and run alone make of its entry.
LEMMA OnwardMoves ==
  ASSUME NEW m \in MonitorEntry, m.since < Lease \/ m.late
  PROVE  /\ m.pc \in InLoop =>
               \A pc \in Running, seen \in SUBSET News, relevant \in BOOLEAN :
                  /\ Onward(m, [m EXCEPT !.pc = pc])
                  /\ Onward(m, [m EXCEPT !.pc = pc, !.seen = seen])
                  /\ Onward(m, [m EXCEPT !.pc = pc, !.relevant = relevant])
         /\ \A pc \in {"releasing", "leaving", "dead"} : Onward(m, [m EXCEPT !.pc = pc])
         /\ Onward(m, [m EXCEPT !.stop = TRUE])
<1>1. \A pc \in Running : pc # "starting"
  BY DEF Running, InLoop
<1>2. Running \subseteq MonitorStage /\ {"releasing", "leaving", "dead"} \subseteq MonitorStage
  BY DEF MonitorStage
<1>3. m.pc \in InLoop =>
        \A pc \in Running, seen \in SUBSET News, relevant \in BOOLEAN :
           /\ Onward(m, [m EXCEPT !.pc = pc])
           /\ Onward(m, [m EXCEPT !.pc = pc, !.seen = seen])
           /\ Onward(m, [m EXCEPT !.pc = pc, !.relevant = relevant])
  <2> SUFFICES ASSUME m.pc \in InLoop, NEW pc \in Running, NEW seen \in SUBSET News,
                      NEW relevant \in BOOLEAN
               PROVE  /\ Onward(m, [m EXCEPT !.pc = pc])
                      /\ Onward(m, [m EXCEPT !.pc = pc, !.seen = seen])
                      /\ Onward(m, [m EXCEPT !.pc = pc, !.relevant = relevant])
    OBVIOUS
  <2>1. m.pc \in Running
    BY DEF Running
  <2>2. /\ [m EXCEPT !.pc = pc] \in MonitorEntry
        /\ [m EXCEPT !.pc = pc, !.seen = seen] \in MonitorEntry
        /\ [m EXCEPT !.pc = pc, !.relevant = relevant] \in MonitorEntry
    BY <1>2 DEF MonitorEntry
  <2> QED BY <1>1, <2>1, <2>2 DEF Onward, MonitorEntry
<1>4. \A pc \in {"releasing", "leaving", "dead"} : Onward(m, [m EXCEPT !.pc = pc])
  <2> SUFFICES ASSUME NEW pc \in {"releasing", "leaving", "dead"}
               PROVE  Onward(m, [m EXCEPT !.pc = pc])
    OBVIOUS
  <2>1. pc \notin Running /\ pc \notin Watching /\ pc \notin InLoop /\ pc # "starting"
    BY DEF Running, Watching, InLoop
  <2> QED BY <1>2, <2>1 DEF Onward, MonitorEntry
<1>5. Onward(m, [m EXCEPT !.stop = TRUE])
  BY DEF Onward, MonitorEntry
<1> QED BY <1>3, <1>4, <1>5

LEMMA MonitorWentOn ==
  ASSUME MonitorInv, NEW t \in Thread, NEW p \in Process,
         \/ RunCannotStart(t, p) \/ LeaveLoop(t, p) \/ Ignore(t, p) \/ TakeEvent(t, p)
         \/ Judged(t, p) \/ RecordMisses(t, p) \/ Disappear(t, p)
         \/ LoopFails(t, p) \/ ReleaseFails(t, p)
  PROVE  MonitorInv'
<1> DEFINE m == monitor[t][p]
<1>1. m \in MonitorEntry /\ (m.since < Lease \/ m.late) /\ Onward(m, NoMonitor)
  BY EntryTyped DEF MonitorInv, SinceIsShort
<1>2. /\ m.pc \in InLoop =>
            \A pc \in Running, seen \in SUBSET News, relevant \in BOOLEAN :
               /\ Onward(m, [m EXCEPT !.pc = pc])
               /\ Onward(m, [m EXCEPT !.pc = pc, !.seen = seen])
               /\ Onward(m, [m EXCEPT !.pc = pc, !.relevant = relevant])
      /\ \A pc \in {"releasing", "leaving", "dead"} : Onward(m, [m EXCEPT !.pc = pc])
  BY <1>1, OnwardMoves
<1>3. \A n \in News : m.seen \cup {n} \in SUBSET News
  BY <1>1 DEF MonitorEntry
<1>4. /\ "looping" \in InLoop /\ "waiting" \in InLoop /\ "judging" \in InLoop
      /\ InLoop \subseteq Running /\ "left" \in Running /\ "failed" \in Running
  BY DEF InLoop, Running
<1>5. \E n : Onward(m, n) /\ Update(t, p, n)
  <2>1. CASE RunCannotStart(t, p) \/ RecordMisses(t, p) \/ ReleaseFails(t, p)
    BY <1>2, <2>1 DEF RunCannotStart, RecordMisses, ReleaseFails, Move
  <2>2. CASE LeaveLoop(t, p)
    BY <1>2, <1>4, <2>2 DEF LeaveLoop, Move
  <2>3. CASE Ignore(t, p)
    BY <1>2, <1>3, <1>4, <2>3 DEF Ignore, Move
  <2>4. CASE TakeEvent(t, p)
    BY <1>2, <1>3, <1>4, <2>4 DEF TakeEvent
  <2>5. CASE Judged(t, p)
    BY <1>2, <1>4, <2>5 DEF Judged, Move
  <2>6. CASE LoopFails(t, p)
    BY <1>2, <1>4, <2>6 DEF LoopFails, Move
  <2>7. CASE Disappear(t, p)
    BY <1>1, <2>7 DEF Disappear
  <2> QED BY <2>1, <2>2, <2>3, <2>4, <2>5, <2>6, <2>7
<1>6. UNCHANGED <<store, window, supervisor>> /\ (NoFailure \/ Failure)
  BY DEF RunCannotStart, LeaveLoop, Ignore, TakeEvent, Judged, RecordMisses, Disappear,
         LoopFails, ReleaseFails
<1> HIDE DEF m
<1> QED BY <1>5, <1>6, MonitorMoved DEF m

\* Its run is recorded; the runs of the others are not touched.
LEMMA MonitorRecorded ==
  ASSUME MonitorInv, NEW t \in Thread, NEW p \in Process, RecordRun(t, p)
  PROVE  MonitorInv'
<1> DEFINE m == monitor[t][p]
           n == [m EXCEPT !.pc = "releasing"]
<1>1. m \in MonitorEntry /\ (m.since < Lease \/ m.late)
  BY EntryTyped DEF MonitorInv, SinceIsShort
<1>2. Onward(m, n) /\ Update(t, p, n) /\ m.pc \in Running /\ m.pc \notin InLoop
  BY <1>1, OnwardMoves DEF RecordRun, Move, Running, InLoop
<1>3. m.run # NoRun /\ m.run \in Run
  BY <1>1, <1>2 DEF MonitorInv, RunIsKnown, MonitorEntry
<1>4. RecordUnsuccessful(m.run, 0) \/ RecordCompleted(m.run, 0, m.relevant)
  BY DEF RecordRun
<1>5. StoreKept
  <2>1. 0 \in 0..Horizon /\ m.relevant \in BOOLEAN
    BY <1>1, LimitsArePositive DEF MonitorEntry
  <2> QED BY <1>3, <1>4, <2>1, RunUnsuccessful, RunCompleted DEF MonitorInv
<1>6. UNCHANGED lock /\ \A r \in Run : r # m.run => run'[r] = run[r]
  BY <1>4, TablesTyped DEF RecordUnsuccessful, RecordCompleted, MonitorInv, RunsTyped
<1>7. RestTyped'
  BY DEF RecordRun, NoFailure, MonitorInv, MonitorTypeOK, RestTyped
<1>8. ASSUME NEW s \in Thread, NEW q \in Process PROVE Spares(s, q)
  <2> SUFFICES ASSUME monitor'[s][q].pc \in InLoop
               PROVE  run'[monitor[s][q].run] = run[monitor[s][q].run]
    BY <1>6 DEF Spares
  <2>1. monitor \in [Thread -> [Process -> MonitorEntry]]
    BY DEF MonitorInv, MonitorTypeOK
  <2>2. "releasing" \notin InLoop
    BY DEF InLoop
  <2>3. (s # t \/ q # p) /\ monitor[s][q].pc \in InLoop
    BY <1>2, <2>1, <2>2 DEF Update, MonitorEntry
  <2>4. monitor[s][q].run # NoRun /\ monitor[s][q].run \in Run
    BY <2>1, <2>3 DEF MonitorInv, RunIsKnown, MonitorEntry, Running
  <2>5. monitor[s][q].run # m.run
    BY <1>3, <2>3, <2>4 DEF MonitorInv, RunsApart
  <2> QED BY <1>6, <2>4, <2>5
<1> HIDE DEF n, m
<1> QED BY <1>2, <1>5, <1>7, <1>8, MonitorCarried
        DEF StoreKept, DeletedStays, GoneStays, Gone, m

\* The lease is released by its holder, who is out of the loop.
LEMMA MonitorReleased ==
  ASSUME MonitorInv, NEW t \in Thread, NEW p \in Process, Release(t, p)
  PROVE  MonitorInv'
<1> DEFINE m == monitor[t][p]
           n == [m EXCEPT !.pc = "leaving"]
<1>1. m \in MonitorEntry /\ (m.since < Lease \/ m.late)
  BY EntryTyped DEF MonitorInv, SinceIsShort
<1>2. Onward(m, n) /\ Update(t, p, n) /\ m.pc = "releasing" /\ ReleaseLease(t, p)
  BY <1>1, OnwardMoves DEF Release, Move
<1>3. StoreKept /\ UNCHANGED <<proc, run>>
  BY <1>2, LeaseReleased DEF MonitorInv, ReleaseLease
<1>4. RestTyped'
  BY DEF Release, NoFailure, MonitorInv, MonitorTypeOK, RestTyped
<1>5. ASSUME NEW s \in Thread, NEW q \in Process, ~Gone(q)' PROVE Spares(s, q)
  <2> SUFFICES ASSUME InTime(monitor[s][q]) PROVE lock'[q] = lock[q]
    BY <1>3 DEF Spares
  <2>1. lock[q].holder = s
    BY <1>3, <1>5 DEF MonitorInv, LeaseIsKept, Gone
  <2>2. s # t \/ q # p
    BY <1>2 DEF InTime, Watching, InLoop
  <2> QED BY <1>2, <2>1, <2>2, TablesTyped DEF ReleaseLease, MonitorInv, LocksTyped
<1> HIDE DEF n, m
<1> QED BY <1>2, <1>3, <1>4, <1>5, MonitorCarried
        DEF StoreKept, DeletedStays, GoneStays, Gone, m

-----------------------------------------------------------------------------
(* The bot, its scheduler thread, and time *)

LEMMA BotStopped ==
  ASSUME MonitorInv, NEW t \in Thread, Shutdown(t) \/ BotCrash(t)
  PROVE  MonitorInv'
<1>1. monitor \in [Thread -> [Process -> MonitorEntry]]
  BY DEF MonitorInv, MonitorTypeOK
<1>2. PICK g : /\ monitor' = [monitor EXCEPT ![t] = [p \in Process |-> g[p]]]
               /\ \A p \in Process : Onward(monitor[t][p], g[p])
  <2>1. CASE Shutdown(t)
    <3> DEFINE g == [p \in Process |-> IF Alive(monitor[t][p])
                                       THEN [monitor[t][p] EXCEPT !.stop = TRUE]
                                       ELSE monitor[t][p]]
    <3>1. monitor' = [monitor EXCEPT ![t] = [p \in Process |-> g[p]]]
      BY <1>1, <2>1 DEF Shutdown
    <3>2. ASSUME NEW p \in Process PROVE Onward(monitor[t][p], g[p])
      BY EntryTyped, OnwardMoves DEF MonitorInv, SinceIsShort
    <3> HIDE DEF g
    <3> QED BY <3>1, <3>2
  <2>2. CASE BotCrash(t)
    <3> DEFINE g == [p \in Process |-> NoMonitor]
    <3>1. monitor' = [monitor EXCEPT ![t] = [p \in Process |-> g[p]]]
      BY <2>2 DEF BotCrash
    <3>2. \A p \in Process : Onward(monitor[t][p], g[p])
      BY EntryTyped
    <3> HIDE DEF g
    <3> QED BY <3>1, <3>2
  <2> QED BY <2>1, <2>2
<1>3. RestTyped'
  <2>1. NoPass \in SupervisorRow
    BY MonitorBounds DEF NoPass, SupervisorRow
  <2>2. Failure /\ UNCHANGED window /\ supervisor' = [supervisor EXCEPT ![t] = NoPass]
    BY DEF Shutdown, BotCrash
  <2> QED BY <2>1, <2>2, MonitorBounds DEF Failure, MonitorInv, MonitorTypeOK, RestTyped
<1>4. UNCHANGED store
  BY DEF Shutdown, BotCrash
<1> DEFINE f == [monitor EXCEPT ![t] = [p \in Process |-> g[p]]]
<1>5. monitor' = [s \in Thread |-> [p \in Process |-> f[s][p]]]
  BY <1>1, <1>2
<1>6. ASSUME NEW s \in Thread, NEW p \in Process PROVE Onward(monitor[s][p], f[s][p])
  BY <1>1, <1>2, EntryTyped
<1> HIDE DEF f
<1> QED BY <1>3, <1>4, <1>5, <1>6, StoreSpares, MonitorsCarried

\* What the scheduler's own thread does: a run whose lease is held is not stale.
LEMMA SchedulerPassed == ASSUME MonitorInv, SchedulerPass PROVE MonitorInv'
<1>1. RestTyped' /\ UNCHANGED monitor
  BY DEF SchedulerPass, NoFailure, MonitorInv, MonitorTypeOK, RestTyped
<1>2. StoreKept /\ UNCHANGED lock
  <2>1. CASE RecoverStaleRuns
    BY <2>1, Recovered DEF MonitorInv, RecoverStaleRuns, Recover
  <2>2. CASE ExpireActive
    <3>1. RunsTyped' /\ LocksTyped'
      BY <2>2, TablesTyped DEF ExpireActive, RunsTyped, LocksTyped, MonitorInv
    <3> QED BY <2>2, <3>1, Expiring DEF MonitorInv, ExpireActive
  <2> QED BY <2>1, <2>2 DEF SchedulerPass
<1>3. ASSUME NEW t \in Thread, NEW p \in Process, ~Gone(p)' PROVE Spares(t, p)
  <2> DEFINE m == monitor[t][p]
  <2> SUFFICES ASSUME m.pc \in InLoop, InTime(m) PROVE run'[m.run] = run[m.run]
    BY <1>1, <1>2 DEF Spares
  <2>1. m \in MonitorEntry /\ m.since < Lease
    BY EntryTyped DEF MonitorInv, SinceIsShort, InTime, Unleased
  <2>2. ~Gone(p)
    BY <1>2, <1>3 DEF StoreKept, DeletedStays, Gone
  <2>3. m.run \in Run /\ run[m.run].process = p
    BY <2>1, <2>2 DEF MonitorInv, RunIsOpen, OpenRun, RunIsKnown, InTime, MonitorEntry, Running
  <2>4. lock[p].left >= Lease - m.since
    BY <2>2 DEF MonitorInv, LeaseIsKept
  <2>5. lock[p].left \in 0..Lease /\ m.since \in 0..Lease
    BY <2>1, TablesTyped DEF MonitorInv, LocksTyped, MonitorEntry
  <2>6. Leased(p)
    BY <2>1, <2>4, <2>5, LimitsArePositive DEF Leased
  <2>7. \A rows : m.run \notin StaleRuns(rows)
    BY <2>3, <2>6 DEF StaleRuns
  <2> HIDE DEF m
  <2>8. CASE RecoverStaleRuns
    BY <2>3, <2>7, <2>8 DEF RecoverStaleRuns, Recover
  <2>9. CASE ExpireActive
    BY <2>9 DEF ExpireActive
  <2> QED BY <2>8, <2>9 DEF SchedulerPass
<1> QED BY <1>1, <1>2, <1>3, MonitorsSpared
        DEF StoreKept, DeletedStays, GoneStays, Gone

\* A person's calls. A deletion takes the lease and the runs of its process with
\* it, and of no other.
LEMMA StoreManaged == ASSUME MonitorInv, Manage PROVE MonitorInv'
<1>1. RestTyped' /\ UNCHANGED monitor
  BY DEF Manage, NoFailure, MonitorInv, MonitorTypeOK, RestTyped
<1>2. CASE \E p \in Process : CreateProcess(p) \/ PauseProcess(p)
                                \/ ResumeProcess(p) \/ ArchiveProcess(p)
  <2>1. StoreKept
    BY <1>2, Managed DEF MonitorInv
  <2>2. UNCHANGED <<run, lock>>
    BY <1>2 DEF CreateProcess, PauseProcess, ResumeProcess, ArchiveProcess
  <2> QED BY <1>1, <2>1, <2>2, MonitorsSpared
          DEF StoreKept, DeletedStays, GoneStays, Gone, Spares
<1>3. CASE \E P \in SUBSET Process : DeleteArchived(P)
  <2>1. PICK P \in SUBSET Process : DeleteArchived(P)
    BY <1>3
  <2>2. StoreInv' /\ GoneStays
    BY <2>1, Deleted DEF MonitorInv, GoneStays, Gone
  <2>3. ASSUME NEW t \in Thread, NEW p \in Process, ~Gone(p)' PROVE Spares(t, p)
    <3> DEFINE m == monitor[t][p]
    <3>1. p \notin P /\ lock'[p] = lock[p]
      BY <2>1, <2>3, TablesTyped
         DEF DeleteArchived, Gone, MonitorInv, StoreInv, StoreTypeOK, ProcessRow
    <3>2. ASSUME m.pc \in InLoop, InTime(m) PROVE run'[m.run] = run[m.run]
      <4>1. m.run \in Run
        BY <3>2, EntryTyped DEF MonitorInv, RunIsKnown, MonitorEntry, Running
      <4>2. run[m.run].process = p
        BY <2>2, <2>3, <3>2 DEF MonitorInv, RunIsOpen, OpenRun, InTime, GoneStays
      <4> HIDE DEF m
      <4> QED BY <2>1, <3>1, <4>1, <4>2 DEF DeleteArchived
    <3> QED BY <1>1, <3>1, <3>2 DEF Spares
  <2> QED BY <1>1, <2>2, <2>3, MonitorsSpared
<1> QED BY <1>2, <1>3 DEF Manage

\* Nobody waits between a claim and the head of the loop, and from one head of
\* the loop to the next the lease and the monitor age alike.
LEMMA EntryAged ==
  ASSUME NEW m \in MonitorEntry, ~m.late => m.since < Lease
  PROVE  /\ Aged(m) \in MonitorEntry
         /\ Aged(m).pc = m.pc /\ Aged(m).run = m.run
         /\ Aged(m).lost = m.lost /\ (~Aged(m).late => ~m.late /\ Aged(m).since < Lease)
         /\ ~Aged(m).late /\ m.pc \in InLoop => Aged(m).since = m.since + 1
<1> DEFINE since == IF m.since < Lease THEN m.since + 1 ELSE Lease
<1>1. since \in 0..Lease /\ (m.since < Lease /\ since # Lease => since = m.since + 1 /\ since < Lease)
  BY LimitsArePositive DEF MonitorEntry
<1>2. CASE m.pc \in InLoop
  <2>1. Aged(m) = [m EXCEPT !.since = since, !.late = @ \/ since = Lease]
    BY <1>2 DEF Aged
  <2> HIDE DEF since
  <2> QED BY <1>1, <1>2, <2>1 DEF MonitorEntry
<1>3. CASE m.pc \notin InLoop
  BY <1>3 DEF Aged
<1> QED BY <1>2, <1>3

LEMMA MonitorsAged == ASSUME MonitorInv, Tick PROVE MonitorInv'
<1>1. monitor \in [Thread -> [Process -> MonitorEntry]]
  BY DEF MonitorInv, MonitorTypeOK
<1>2. \A t \in Thread, p \in Process : monitor'[t][p] = Aged(monitor[t][p])
  BY DEF Tick
<1>3. ASSUME NEW t \in Thread, NEW p \in Process
      PROVE  LET m == monitor[t][p]
             IN  /\ Aged(m) \in MonitorEntry
                 /\ Aged(m).pc = m.pc /\ Aged(m).run = m.run
                 /\ Aged(m).lost = m.lost /\ (~Aged(m).late => ~m.late /\ Aged(m).since < Lease)
                 /\ ~Aged(m).late /\ m.pc \in InLoop => Aged(m).since = m.since + 1
  BY <1>1, EntryAged DEF MonitorInv, SinceIsShort
<1>4. TimePasses /\ NoFailure
  BY DEF Tick
<1>5. StoreKept
  BY <1>4, TimePassed DEF MonitorInv
<1>6. MonitorTypeOK'
  <2>1. window' \in [Process -> WindowSpec]
    <3>1. \A p \in Process : window[p] \in WindowSpec
      BY DEF MonitorInv, MonitorTypeOK
    <3>2. ASSUME NEW w \in WindowSpec
          PROVE  [w EXCEPT !.opens = Closer(@), !.closes = Closer(@)] \in WindowSpec
      <4>1. Closer(w.opens) \in Nat /\ Closer(w.closes) \in Nat \cup {Never}
        BY DEF WindowSpec, Closer, Never
      <4> QED BY <4>1 DEF WindowSpec
    <3>3. window' = [p \in Process |-> [window[p] EXCEPT !.opens = Closer(@),
                                                       !.closes = Closer(@)]]
      BY DEF Tick
    <3> QED BY <3>1, <3>2, <3>3
  <2>2. supervisor' \in [Thread -> SupervisorRow]
    <3>1. NoPass \in SupervisorRow
      BY MonitorBounds DEF NoPass, SupervisorRow
    <3> QED BY <3>1 DEF Tick
  <2>3. monitor' \in [Thread -> [Process -> MonitorEntry]]
    BY <1>3 DEF Tick
  <2> QED BY <1>4, <2>1, <2>2, <2>3 DEF MonitorInv, MonitorTypeOK, NoFailure
<1>7. SinceIsShort'
  BY <1>2, <1>3 DEF SinceIsShort
<1>8. LeaseIsKept'
  <2> SUFFICES ASSUME NEW t \in Thread, NEW p \in Process,
                      InTime(monitor'[t][p]), ~Gone(p)'
               PROVE  lock'[p].holder = t /\ lock'[p].left >= Lease - monitor'[t][p].since
    BY DEF LeaseIsKept
  <2> DEFINE m == monitor[t][p]
  <2>1. m \in MonitorEntry /\ MayWait(m) /\ m.pc \in Watching /\ ~m.late /\ m.since < Lease
    BY <1>1, <1>2, <1>3 DEF InTime, Unleased, Tick, MonitorInv, SinceIsShort
  <2>2. m.pc \in InLoop
    BY <2>1 DEF MayWait, Watching, InLoop
  <2>3. monitor'[t][p].since = m.since + 1
    BY <1>2, <1>3, <2>2 DEF InTime, Unleased
  <2>4. ~Gone(p)
    BY <1>5 DEF StoreKept, DeletedStays, Gone
  <2>5. lock[p].holder = t /\ lock[p].left >= Lease - m.since
    BY <1>2, <1>3, <2>1, <2>4 DEF MonitorInv, LeaseIsKept, InTime, Unleased
  <2>6. lock'[p] = [lock[p] EXCEPT !.left = Closer(@)]
    BY <1>4 DEF TimePasses
  <2>7. lock[p] \in [holder : Thread \cup {NoThread}, left : 0..Lease]
    BY TablesTyped DEF MonitorInv, LocksTyped
  <2>8. lock'[p].holder = t /\ lock'[p].left = Closer(lock[p].left)
    BY <2>5, <2>6, <2>7
  <2>9. lock[p].left \in 0..Lease /\ m.since \in 0..Lease
    BY <2>1, <2>7 DEF MonitorEntry
  <2> HIDE DEF m
  <2>10. Closer(lock[p].left) >= Lease - (m.since + 1)
    BY <2>1, <2>5, <2>9, LimitsArePositive DEF Closer
  <2> QED BY <2>3, <2>8, <2>10
<1>9. WatchersApart'
  BY <1>2, <1>3, <1>5
     DEF MonitorInv, WatchersApart, InTime, Unleased, StoreKept, DeletedStays, Gone
<1>10. RunsApart'
  BY <1>2, <1>3 DEF MonitorInv, RunsApart
<1>11. RunIsKnown'
  BY <1>2, <1>3 DEF MonitorInv, RunIsKnown
<1>12. RunIsOpen'
  <2> SUFFICES ASSUME NEW t \in Thread, NEW p \in Process,
                      monitor'[t][p].pc \in InLoop, ~Unleased(monitor'[t][p]), ~Gone(p)'
               PROVE  OpenRun(monitor[t][p].run, p)'
    BY DEF RunIsOpen
  <2>1. OpenRun(monitor[t][p].run, p)
    BY <1>2, <1>3, <1>5 DEF MonitorInv, RunIsOpen, Unleased, StoreKept, DeletedStays, Gone
  <2>2. monitor[t][p].run \in Run
    BY <1>1, <1>2, <1>3 DEF MonitorInv, RunIsKnown, MonitorEntry, Running
  <2> DEFINE r == monitor[t][p].run
  <2>3. run[r] \in RunRow
    BY <2>2, TablesTyped DEF MonitorInv, RunsTyped
  <2>4. run'[r] = [run[r] EXCEPT !.age = IF run[r].status = "started" THEN Older(@) ELSE @]
    BY <1>4, <2>2 DEF TimePasses
  <2>5. monitor'[t][p].run = r
    BY <1>2, <1>3
  <2> HIDE DEF r
  <2> QED BY <2>1, <2>3, <2>4, <2>5 DEF OpenRun, RunRow, r
<1> QED BY <1>5, <1>6, <1>7, <1>8, <1>9, <1>10, <1>11, <1>12 DEF MonitorInv, StoreKept

-----------------------------------------------------------------------------
(* The theorems *)

LEMMA MonitorsInit == MonitorInit => MonitorInv
<1> SUFFICES ASSUME MonitorInit PROVE MonitorInv
  OBVIOUS
<1>1. StoreInv
  BY StoreInit DEF MonitorInit
<1>2. NoMonitor \in MonitorEntry
  BY LimitsArePositive DEF NoMonitor, MonitorEntry, MonitorStage, Watching, Running, InLoop
<1>3. MonitorTypeOK
  <2>1. window \in [Process -> WindowSpec]
    BY WindowsAreSpecs DEF MonitorInit
  <2>2. NoPass \in SupervisorRow
    BY MonitorBounds DEF NoPass, SupervisorRow
  <2> QED BY <1>2, <2>1, <2>2, MonitorBounds DEF MonitorInit, MonitorTypeOK
<1>4. \A t \in Thread, p \in Process : monitor[t][p] = NoMonitor
  BY DEF MonitorInit
<1>5. SinceIsShort /\ LeaseIsKept /\ WatchersApart /\ RunsApart /\ RunIsKnown /\ RunIsOpen
  BY <1>4, LimitsArePositive
     DEF SinceIsShort, LeaseIsKept, WatchersApart, RunsApart, RunIsKnown, RunIsOpen,
         InTime, NoMonitor, Watching, Running, InLoop
<1> QED BY <1>1, <1>3, <1>5 DEF MonitorInv

LEMMA MonitorStep == MonitorInv /\ [MonitorNext]_monitorVars => MonitorInv'
<1> SUFFICES ASSUME MonitorInv, [MonitorNext]_monitorVars PROVE MonitorInv'
  OBVIOUS
<1>1. CASE Manage
  BY <1>1, StoreManaged
<1>2. CASE SchedulerPass
  BY <1>2, SchedulerPassed
<1>3. ASSUME NEW t \in Thread, Sync(t) PROVE MonitorInv'
  BY <1>3, ActiveListed, PassWentOn, UnwatchedEnded, MonitorStarted DEF Sync
<1>4. ASSUME NEW t \in Thread, Shutdown(t) \/ BotCrash(t) PROVE MonitorInv'
  BY <1>4, BotStopped
<1>5. ASSUME NEW t \in Thread, NEW p \in Process,
             Watch(t, p) \/ LoopFails(t, p) \/ ReleaseFails(t, p)
      PROVE  MonitorInv'
  BY <1>5, MonitorRunStarted, MonitorRefreshed, MonitorWentOn, MonitorRecorded,
     MonitorReleased DEF Watch
<1>6. CASE Tick
  BY <1>6, MonitorsAged
<1>7. CASE UNCHANGED monitorVars
  <2>1. StoreInv' /\ RestTyped' /\ GoneStays /\ UNCHANGED monitor
          /\ \A t \in Thread, p \in Process : Spares(t, p)
    BY <1>7, StoreSpares DEF monitorVars, MonitorInv, MonitorTypeOK, RestTyped
  <2> QED BY <2>1, MonitorsSpared
<1> QED BY <1>1, <1>2, <1>3, <1>4, <1>5, <1>6, <1>7 DEF MonitorNext

LEMMA MonitorInvariant == MonitorSpec => []MonitorInv
BY MonitorsInit, MonitorStep, PTL DEF MonitorSpec

\* However many bots, processes and runs there are: two bots are in the loop of a
\* monitor of the same process only when one of them has been kept from the head
\* of its loop for as long as the lease lasts, or has had its lease overwritten by the
\* other, whose claim was read before its own was written.
THEOREM WatchersAreOne == MonitorSpec => []WatchedOnce
<1>1. MonitorInv => WatchedOnce
  BY DEF MonitorInv, WatchersApart, WatchedOnce, InTime, Watching, InLoop
<1> QED BY <1>1, MonitorInvariant, PTL

\* The recovery of stale runs, the deletion of processes and the steps of other
\* monitors leave the run of a monitor in time open.
THEOREM RunsAreSpared == MonitorSpec => []LiveRunsAreSpared
<1>1. MonitorInv => LiveRunsAreSpared
  BY DEF MonitorInv, RunIsOpen, OpenRun, LiveRunsAreSpared, Exists, Gone
<1> QED BY <1>1, MonitorInvariant, PTL

\* The entries of _workers and the scheduler's rows keep their types under the
\* supervisors and monitors, and a process that has ended has no next run.
THEOREM MonitorsTyped == MonitorSpec => [](MonitorTypeOK /\ StoreTypeOK /\ TerminalIsQuiet)
<1>1. MonitorInv => MonitorTypeOK /\ StoreTypeOK /\ TerminalIsQuiet
  BY DEF MonitorInv, StoreInv
<1> QED BY <1>1, MonitorInvariant, PTL

\* What a monitor relies on without looking at it: in time, and unless another bot has
\* written a claim over its own, it holds the lease on its process, with at least as
\* much of it left as has yet to go by before it is late.
THEOREM LeasesAreKept == MonitorSpec => []LeaseIsKept
<1>1. MonitorInv => LeaseIsKept
  BY DEF MonitorInv
<1> QED BY <1>1, MonitorInvariant, PTL

\* Nothing brings a process back that has ended: not the run of a monitor that is
\* recorded afterwards, nor a supervisor that listed it before.
THEOREM EndedForMonitors == MonitorSpec => TerminalIsFinal
<1>1. ASSUME MonitorInv, [MonitorNext]_monitorVars PROVE StaysTerminal \/ UNCHANGED store
  <2>1. CASE Manage
    BY <1>1, <2>1, Managed, Deleted DEF Manage, MonitorInv, StoreKept
  <2>2. CASE SchedulerPass
    <3>1. CASE RecoverStaleRuns
      BY <1>1, <3>1, Recovered DEF MonitorInv, StoreKept
    <3>2. CASE ExpireActive
      <4>1. RunsTyped' /\ LocksTyped'
        BY <1>1, <3>2, TablesTyped DEF ExpireActive, RunsTyped, LocksTyped, MonitorInv
      <4> QED BY <1>1, <3>2, <4>1, Expiring DEF MonitorInv, ExpireActive, StoreKept
    <3> QED BY <2>2, <3>1, <3>2 DEF SchedulerPass
  <2>3. CASE UNCHANGED proc
    BY <2>3 DEF StaysTerminal
  <2>4. ASSUME NEW t \in Thread, Sync(t) PROVE StaysTerminal \/ UNCHANGED store
    <3>1. ASSUME NEW p \in Process, EndUnwatched(t, p) PROVE StaysTerminal
      BY <1>1, <3>1, MarkedTerminal DEF EndUnwatched, Terminal, MonitorInv, StoreKept
    <3>2. ListActive(t) => UNCHANGED store
      BY DEF ListActive
    <3>3. \A p \in Process :
            PassOver(t, p) \/ PassAborts(t, p) \/ ReadClaim(t, p) \/ StartMonitor(t, p)
              \/ ClaimConflicts(t, p) => UNCHANGED proc
      BY DEF PassOver, PassAborts, ReadClaim, StartMonitor, ClaimConflicts, store
    <3> QED BY <2>3, <2>4, <3>1, <3>2, <3>3 DEF Sync
  <2>5. ASSUME NEW t \in Thread, NEW p \in Process, RecordRun(t, p) PROVE StaysTerminal
    <3> DEFINE m == monitor[t][p]
    <3>1. m.pc \in Running /\ m \in MonitorEntry /\ m.run # NoRun
      BY <1>1, <2>5, EntryTyped DEF RecordRun, Running, MonitorInv, RunIsKnown
    <3>2. m.run \in Run /\ m.relevant \in BOOLEAN /\ 0 \in 0..Horizon
      BY <3>1, LimitsArePositive DEF MonitorEntry
    <3> QED BY <1>1, <2>5, <3>2, RunUnsuccessful, RunCompleted
            DEF RecordRun, MonitorInv, StoreKept
  <2>6. ASSUME NEW t \in Thread, NEW p \in Process,
               Watch(t, p) \/ LoopFails(t, p) \/ ReleaseFails(t, p)
        PROVE  RecordRun(t, p) \/ UNCHANGED proc
    BY <2>6
       DEF Watch, LoopFails, ReleaseFails, RunStarts, RecordStarted, RunCannotStart, Refresh,
           RefreshLease, LeaveLoop, Ignore, TakeEvent, Judged, RecordMisses, Release,
           ReleaseLease, Disappear, store
  <2>7. ASSUME NEW t \in Thread, Shutdown(t) \/ BotCrash(t) PROVE UNCHANGED store
    BY <2>7 DEF Shutdown, BotCrash
  <2>8. CASE Tick
    BY <1>1, <2>8, TimePassed DEF Tick, MonitorInv, StoreKept
  <2>9. CASE UNCHANGED monitorVars
    BY <2>9 DEF monitorVars
  <2> QED BY <1>1, <2>1, <2>2, <2>3, <2>4, <2>5, <2>6, <2>7, <2>8, <2>9 DEF MonitorNext
<1>2. MonitorInv /\ [MonitorNext]_monitorVars
        => [\A p \in Process :
              proc[p].status \in Terminal => proc'[p].status \in Terminal \cup {"deleted"}]_store
  BY <1>1 DEF StaysTerminal
<1> QED BY <1>2, MonitorInvariant, PTL DEF MonitorSpec, TerminalIsFinal

=============================================================================
