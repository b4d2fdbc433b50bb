----------------------------- MODULE NewsMonitor -----------------------------
(***************************************************************************)
(* The news stream monitors (t212ai/app/alpaca_news_stream_supervisor.py).  *)
(* Each bot process has a supervisor thread that keeps one monitor thread   *)
(* going for every active monitor process whose window is open. A monitor   *)
(* holds the lease on its process for the whole window, refreshing it round *)
(* by round, while the model judges an event in the monitor's own thread.   *)
(* The bot's scheduler thread, which recovers stale runs and expires        *)
(* processes on the same tables, is reduced to these two calls.             *)
(***************************************************************************)
EXTENDS Scheduler

CONSTANTS
    Window,         \* [Process -> SUBSET WindowSpec]: the inputs a process may have
    News,           \* the dedupe keys of news items
    Passes,         \* the passes a supervisor makes in a unit of time
    MaxFailures     \* bound: crashes, shutdowns, failing streams and calls

\* startAt and endAt, as far from now as they are, if the inputs are valid. A
\* window that closes further ahead than an instance looks has Never for it.
WindowSpec == [valid : BOOLEAN, opens : Nat, closes : Nat \cup {Never}]

ASSUME WindowsAreSpecs ==
    \A p \in Process : Window[p] # {} /\ Window[p] \subseteq WindowSpec
ASSUME MonitorBounds ==
    /\ Passes \in Nat \ {0} /\ MaxFailures \in Nat
    /\ Lease > 1

VARIABLES
    window,         \* per process, how far its window's start and end are
    supervisor,     \* per bot: where it is in its pass
    monitor,        \* per bot and process: the entry of _workers and its thread
    failures        \* crashes, shutdowns, failing streams and calls so far

monitorVars == <<store, window, supervisor, monitor, failures>>

-----------------------------------------------------------------------------
(* Definitions *)

NoRun == "no run"

\* pc: "none" (no entry), "starting" (claimed), "looping" (head of the loop),
\* "waiting" (for an event, lease refreshed), "judging", "left" and "failed"
\* (loop over, run to record), "releasing" (the lease), "leaving" (the entry),
\* "dead" (an entry whose thread has died of an exception in its last steps).
\* since: how long ago the loop was at its head; late: whether that has ever
\* been as long as a lease; lost: whether another bot has taken the lease it had;
\* seen: the items it will not judge again.
NoMonitor == [pc |-> "none", stop |-> FALSE, run |-> NoRun, seen |-> {},
              relevant |-> FALSE, since |-> 0, late |-> FALSE, lost |-> FALSE]

\* listed: the active processes left of the pass; claiming: the one it is about to
\* claim, found: whether that has a lock row; passes: since time last moved.
NoPass == [listed |-> {}, claiming |-> NoProcess, found |-> FALSE, passes |-> 0]

InLoop == {"looping", "waiting", "judging"}
Alive(m) == m.pc \notin {"none", "dead"}
Unleased(m) == m.late \/ m.lost

Malformed(p) == ~window[p].valid
Closed(p) == window[p].closes = 0
Open(p) == ~Malformed(p) /\ window[p].opens = 0 /\ ~Closed(p)
Over(p) == ~Malformed(p) /\ window[p].opens = 0 /\ Closed(p)

InUse == {monitor[t][p].run : t \in Thread, p \in Process}

Update(t, p, m) == monitor' = [monitor EXCEPT ![t][p] = m]
Move(t, p, pc) == Update(t, p, [monitor[t][p] EXCEPT !.pc = pc])
NoFailure == UNCHANGED failures
Failure == failures < MaxFailures /\ failures' = failures + 1

MonitorInit ==
    /\ Init
    /\ window \in {f \in [Process -> UNION {Window[p] : p \in Process}] :
                     \A p \in Process : f[p] \in Window[p]}
    /\ supervisor = [t \in Thread |-> NoPass]
    /\ monitor = [t \in Thread |-> [p \in Process |-> NoMonitor]]
    /\ failures = 0

-----------------------------------------------------------------------------
(* _sync_workers *)

\* The active processes are listed, and the monitors of others told to stop.
ListActive(t) ==
    LET active == {p \in Process : Active(p)}
        Checked(p) ==
            LET m == monitor[t][p] IN
            CASE m.pc = "none" -> m
              [] m.pc = "dead" -> NoMonitor
              [] OTHER -> [m EXCEPT !.stop = @ \/ p \notin active \/ Closed(p)]
    IN  /\ supervisor[t].listed = {} /\ supervisor[t].passes < Passes
        /\ supervisor' = [supervisor EXCEPT ![t].listed = active, ![t].passes = @ + 1]
        /\ monitor' = [monitor EXCEPT ![t] = [p \in Process |-> Checked(p)]]
        /\ UNCHANGED <<store, window>> /\ NoFailure

Listed(t, p) == p \in supervisor[t].listed /\ supervisor[t].claiming = NoProcess
Done(t, p) ==
    supervisor' = [supervisor EXCEPT ![t].listed = @ \ {p}, ![t].claiming = NoProcess,
                                     ![t].found = FALSE]
Abort(t) ==
    supervisor' = [supervisor EXCEPT ![t] = [NoPass EXCEPT !.passes = supervisor[t].passes]]

\* The process has a monitor, its window has yet to open, or another bot has it,
\* or it is not active any more.
PassOver(t, p) ==
    /\ Listed(t, p)
    /\ \/ monitor[t][p].pc # "none"
       \/ ~Malformed(p) /\ window[p].opens > 0
       \/ Open(p) /\ ~Claimable(p)
    /\ Done(t, p)
    /\ UNCHANGED <<store, window, monitor>> /\ NoFailure

\* A faulty variant of EndUnwatched: a window that is over is passed over.
EndMalformed(t, p) ==
    /\ Listed(t, p)
    /\ monitor[t][p].pc = "none"
    /\ \/ Malformed(p) /\ MarkTerminal(p, "failed")
       \/ Over(p) /\ UNCHANGED store
    /\ Done(t, p)
    /\ UNCHANGED <<window, monitor>> /\ NoFailure

\* Its inputs are invalid, or its window is over already.
EndUnwatched(t, p) ==
    /\ Listed(t, p)
    /\ monitor[t][p].pc = "none"
    /\ \/ Malformed(p) /\ MarkTerminal(p, "failed")
       \/ Over(p) /\ MarkTerminal(p, "completed")
    /\ Done(t, p)
    /\ UNCHANGED <<window, monitor>> /\ NoFailure

\* The same, but the process has been deleted: the exception ends the pass.
PassAborts(t, p) ==
    /\ Listed(t, p)
    /\ monitor[t][p].pc = "none"
    /\ Malformed(p) \/ Over(p)
    /\ ~Exists(p)
    /\ Abort(t)
    /\ UNCHANGED <<store, window, monitor>> /\ NoFailure

\* claim_process finds the process active and no live lease on it.
ReadClaim(t, p) ==
    /\ Listed(t, p)
    /\ monitor[t][p].pc = "none"
    /\ Open(p) /\ Claimable(p)
    /\ supervisor' = [supervisor EXCEPT ![t].claiming = p, ![t].found = HasRow(p)]
    /\ UNCHANGED <<store, window, monitor>> /\ NoFailure

Claiming(t, p) == p = supervisor[t].claiming

\* It writes the lock row, and the monitor's thread is started. A bot that has
\* written it in between loses its lease.
StartMonitor(t, p) ==
    LET m(s) == monitor[s][p]
        Robbed(s) == Alive(m(s)) /\ lock[p].holder = s /\ Leased(p)
    IN
    /\ Claiming(t, p)
    /\ supervisor[t].found = HasRow(p)
    /\ WriteLeases(t, {p}) /\ UNCHANGED <<proc, run>>
    /\ monitor' = [s \in Thread |->
          [monitor[s] EXCEPT ![p] =
              IF s = t THEN [NoMonitor EXCEPT !.pc = "starting"]
              ELSE [m(s) EXCEPT !.lost = @ \/ Robbed(s)]]]
    /\ Done(t, p)
    /\ UNCHANGED window /\ NoFailure

\* The row to insert is there by now, or the row to update has gone: the exception
\* ends the pass.
ClaimConflicts(t, p) ==
    /\ Claiming(t, p)
    /\ supervisor[t].found # HasRow(p)
    /\ Abort(t)
    /\ UNCHANGED <<store, window, monitor>> /\ NoFailure

-----------------------------------------------------------------------------
(* _run_claimed_process: a monitor *)

RunStarts(t, p) ==
    /\ monitor[t][p].pc = "starting"
    /\ \E r \in Run \ InUse :
          /\ RecordStarted(r, p, 0)
          /\ Update(t, p, [monitor[t][p] EXCEPT !.pc = "looping", !.run = r])
    /\ UNCHANGED <<window, supervisor>> /\ NoFailure

\* The process has been deleted in between.
RunCannotStart(t, p) ==
    /\ monitor[t][p].pc = "starting"
    /\ ~Exists(p)
    /\ Move(t, p, "releasing")
    /\ UNCHANGED <<store, window, supervisor>> /\ NoFailure

\* A faulty variant of Refresh: the lease is left alone.
RefreshNothing(t, p) ==
    LET m == monitor[t][p] IN
    /\ m.pc = "looping" /\ ~m.stop /\ ~Closed(p)
    /\ Update(t, p, [m EXCEPT !.pc = "waiting", !.since = 0])
    /\ UNCHANGED <<store, window, supervisor>> /\ NoFailure

\* The head of the loop. Whether the lease was still there to refresh is not
\* looked at.
Refresh(t, p) ==
    LET m == monitor[t][p] IN
    /\ m.pc = "looping" /\ ~m.stop /\ ~Closed(p)
    /\ RefreshLease(t, p)
    /\ Update(t, p, [m EXCEPT !.pc = "waiting", !.since = 0])
    /\ UNCHANGED <<window, supervisor>> /\ NoFailure

LeaveLoop(t, p) ==
    LET m == monitor[t][p] IN
    /\ \/ m.pc = "looping" /\ (m.stop \/ Closed(p))
       \/ m.pc = "waiting"                      \* the stream has ended
    /\ Move(t, p, "left")
    /\ UNCHANGED <<store, window, supervisor>> /\ NoFailure

\* No event for half a lease, one that is no news, one for other symbols, a known
\* item, or one above the rate, which is known from then on but never judged.
Ignore(t, p) ==
    LET m == monitor[t][p] IN
    /\ m.pc = "waiting"
    /\ \/ Move(t, p, "looping")
       \/ /\ m.seen # {}
          /\ \E n \in News \ m.seen :
                Update(t, p, [m EXCEPT !.pc = "looping", !.seen = @ \cup {n}])
    /\ UNCHANGED <<store, window, supervisor>> /\ NoFailure

TakeEvent(t, p) ==
    LET m == monitor[t][p] IN
    /\ m.pc = "waiting"
    /\ \E n \in News \ m.seen :
          Update(t, p, [m EXCEPT !.pc = "judging", !.seen = @ \cup {n}])
    /\ UNCHANGED <<store, window, supervisor>> /\ NoFailure

\* The judgement is in: a relevant item is put down as an event of the process
\* and, when it is for the user, sent as a notification; nothing depends on that.
Judged(t, p) ==
    LET m == monitor[t][p]
        next == [m EXCEPT !.pc = "looping"]
    IN  /\ m.pc = "judging"
        /\ \/ Update(t, p, next)                       \* not relevant
           \/ Exists(p) /\ Update(t, p, [next EXCEPT !.relevant = TRUE])
           \/ ~Exists(p) /\ Move(t, p, "failed")    \* nothing to put it down for
        /\ UNCHANGED <<store, window, supervisor>> /\ NoFailure

\* The stream, the model or the database raises.
LoopFails(t, p) ==
    /\ monitor[t][p].pc \in InLoop
    /\ Failure
    /\ Move(t, p, "failed")
    /\ UNCHANGED <<store, window, supervisor>>

\* Stopped before the window's end, the run is skipped; otherwise, when the
\* stream has ended too, it is completed, and with it the process.
RecordRun(t, p) ==
    LET m == monitor[t][p]
        stopped == m.stop /\ ~Closed(p)
    IN  /\ m.pc \in {"left", "failed"}
        /\ IF m.pc = "failed" \/ stopped THEN RecordUnsuccessful(m.run, 0)
                                       ELSE RecordCompleted(m.run, 0, m.relevant)
        /\ Move(t, p, "releasing")
        /\ UNCHANGED <<window, supervisor>> /\ NoFailure

\* The run has been deleted with its process.
RecordMisses(t, p) ==
    /\ monitor[t][p].pc \in {"left", "failed"}
    /\ run[monitor[t][p].run].process = NoProcess
    /\ Move(t, p, "releasing")
    /\ UNCHANGED <<store, window, supervisor>> /\ NoFailure

Release(t, p) ==
    /\ monitor[t][p].pc = "releasing"
    /\ ReleaseLease(t, p)
    /\ Move(t, p, "leaving")
    /\ UNCHANGED <<window, supervisor>> /\ NoFailure

ReleaseFails(t, p) ==
    /\ monitor[t][p].pc = "releasing"
    /\ Failure
    /\ Move(t, p, "dead")
    /\ UNCHANGED <<store, window, supervisor>>

Disappear(t, p) ==
    /\ monitor[t][p].pc = "leaving"
    /\ Update(t, p, NoMonitor)
    /\ UNCHANGED <<store, window, supervisor>> /\ NoFailure

-----------------------------------------------------------------------------
(* The bot, its scheduler thread, and time *)

\* stop: the monitors are told to, and have a moment to do so.
Shutdown(t) ==
    /\ Failure
    /\ monitor' = [monitor EXCEPT ![t] =
          [p \in Process |-> IF Alive(@[p]) THEN [@[p] EXCEPT !.stop = TRUE] ELSE @[p]]]
    /\ supervisor' = [supervisor EXCEPT ![t] = NoPass]
    /\ UNCHANGED <<store, window>>

\* The bot's process ends, by itself or because it was stopped, and is started
\* again.
BotCrash(t) ==
    /\ \E p \in Process : monitor[t][p].pc # "none"
    /\ Failure
    /\ supervisor' = [supervisor EXCEPT ![t] = NoPass]
    /\ monitor' = [monitor EXCEPT ![t] = [p \in Process |-> NoMonitor]]
    /\ UNCHANGED <<store, window>>

\* A scheduler pass, as far as it matters to monitors, which are never due.
SchedulerPass ==
    /\ RecoverStaleRuns \/ ExpireActive
    /\ UNCHANGED <<window, supervisor, monitor>> /\ NoFailure

Manage ==
    /\ \/ \E p \in Process : CreateProcess(p) \/ PauseProcess(p)
                                \/ ResumeProcess(p) \/ ArchiveProcess(p)
       \/ \E P \in SUBSET Process : DeleteArchived(P)
    /\ UNCHANGED <<window, supervisor, monitor>> /\ NoFailure

\* A step of a thread takes no time to speak of, next to a lease, unless it waits
\* for an event, half a lease at the most, or for a judgement, for any time.
MayWait(m) ==
    \/ m.pc \in {"none", "dead", "judging"}
    \/ m.pc = "waiting" /\ m.since < Lease \div 2

Aged(m) ==
    IF m.pc \in InLoop
    THEN LET since == IF m.since < Lease THEN m.since + 1 ELSE Lease
         IN  [m EXCEPT !.since = since, !.late = @ \/ since = Lease]
    ELSE m

Tick ==
    /\ \A t \in Thread : supervisor[t].listed = {} /\ \A p \in Process : MayWait(monitor[t][p])
    /\ TimePasses
    /\ window' = [p \in Process |-> [window[p] EXCEPT !.opens = Closer(@),
                                                     !.closes = Closer(@)]]
    /\ monitor' = [t \in Thread |-> [p \in Process |-> Aged(monitor[t][p])]]
    /\ supervisor' = [t \in Thread |-> NoPass]
    /\ NoFailure

-----------------------------------------------------------------------------
(* Specification *)

Sync(t) ==
    \/ ListActive(t)
    \/ \E p \in Process : PassOver(t, p) \/ EndUnwatched(t, p) \/ PassAborts(t, p)
                             \/ ReadClaim(t, p) \/ StartMonitor(t, p)
                             \/ ClaimConflicts(t, p)

Watch(t, p) ==
    \/ RunStarts(t, p) \/ RunCannotStart(t, p)
    \/ Refresh(t, p) \/ LeaveLoop(t, p) \/ Ignore(t, p) \/ TakeEvent(t, p) \/ Judged(t, p)
    \/ RecordRun(t, p) \/ RecordMisses(t, p) \/ Release(t, p) \/ Disappear(t, p)

MonitorNext ==
    \/ Manage
    \/ SchedulerPass
    \/ \E t \in Thread : Sync(t) \/ Shutdown(t) \/ BotCrash(t)
    \/ \E t \in Thread, p \in Process :
          Watch(t, p) \/ LoopFails(t, p) \/ ReleaseFails(t, p)
    \/ Tick

\* Whichever of the oldest open runs a pass takes, it closes one or more.
SureToClose == \A rows \in OldestRuns : StaleRuns(rows) # {}

\* The loops of supervisors, monitors and scheduler go on, and no judgement takes
\* for ever. Time goes on: the events that a stream delivers do not stop it.
MonitorFairness ==
    /\ SF_monitorVars(Tick)
    /\ WF_monitorVars(SchedulerPass /\ SureToClose)
    /\ WF_monitorVars(SchedulerPass /\ ExpireActive)
    /\ \A t \in Thread : WF_monitorVars(Sync(t))
    /\ \A t \in Thread, p \in Process : WF_monitorVars(Watch(t, p))

MonitorSpec == MonitorInit /\ [][MonitorNext]_monitorVars
FairMonitorSpec == MonitorSpec /\ MonitorFairness

-----------------------------------------------------------------------------
(* Properties *)

\* Two bots watch the stream for the same process only when a judgement has kept
\* one of them from refreshing its lease for as long as the lease lasts, or when
\* both had found an older lease run out before either claimed it.
WatchedOnce ==
    \A s, t \in Thread, p \in Process :
        s # t /\ monitor[s][p].pc \in InLoop /\ monitor[t][p].pc \in InLoop
            => Unleased(monitor[s][p]) \/ Unleased(monitor[t][p])

\* The run of a monitor that goes round its loop in time, on a lease that has not
\* been taken from it, is not taken for a stale one, however long ago it started.
LiveRunsAreSpared ==
    \A t \in Thread, p \in Process :
        LET m == monitor[t][p] IN
        m.pc \in InLoop /\ ~Unleased(m) /\ Exists(p) => run[m.run].status = "started"

\* While a process is active and its window open, it does not stay unwatched,
\* whatever leases and monitors told to stop are left from before.
WindowIsWatched ==
    \A p \in Process :
        Active(p) /\ Open(p)
            ~> \/ ~Active(p) \/ ~Open(p)
               \/ \E t \in Thread : monitor[t][p].pc \in InLoop /\ ~monitor[t][p].stop

\* No run stays open, that of a bot that crashed while its successor holds the
\* lease on the process included; it may take as long as the window does.
Ending(p) == window[p].closes # Never
MonitorRunsAreClosed ==
    \A r \in Run, p \in Process :
        run[r].status = "started" /\ run[r].process = p /\ Ending(p)
            ~> run[r].status # "started"

\* A process does not outlive its window, and does not stay when it has none.
MonitorsEnd ==
    \A p \in Process : Active(p) /\ (Closed(p) \/ Malformed(p)) ~> ~Active(p)

=============================================================================
