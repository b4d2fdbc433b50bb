------------------------------- MODULE Monitors -------------------------------
(***************************************************************************)
(* What a worker does between record_run_started and the release of the     *)
(* lease: the adapter of the process's kind (t212ai/scheduler/*_monitor.py, *)
(* company_event_analyst.py, market_signal_capture.py), the record of its   *)
(* answer, and the notification sent afterwards (notification.py). The      *)
(* adapters call data providers, models and the broker; what the calls give *)
(* is a choice here. Two of them write to other stores in transactions of   *)
(* their own: the trade setup monitor makes a proposal and a pending action *)
(* for it, and the signal capture adds to the market signals.               *)
(*                                                                          *)
(* SchedulerWorker has the whole of it as one step, FinishRun.              *)
(***************************************************************************)
EXTENDS SchedulerWorker, AdapterAnswers, Sequences, FiniteSetsExt

CONSTANTS
    Kinds,          \* the kinds a process of the run may be of: see Kind
    Offer,          \* ids of the proposals a run may create (a bound)
    Topic,          \* what a market signal may be about
    MaxSignals,     \* signals a capture creates at most
    MaxCandidates,  \* bound: signals a capture is given to write
    MostShown,      \* signals a search returns at most
    MaxActive       \* bound: active signals at a time

ASSUME KindsAreKinds == Kinds \subseteq Kind
ASSUME SignalBounds ==
    {MaxSignals, MostShown} \subseteq Nat \ {0} /\ {MaxCandidates, MaxActive} \subseteq Nat

VARIABLES
    kind,           \* per process: its kind, fixed when it is created
    task,           \* per thread: where its adapter and notification are
    offers,         \* per id: the proposal, its pending action, its message
    signals,        \* per topic and author: the active signals
    loose           \* history: processes that may offer or signal the same again

monitorVars == <<workerVars, kind, task, offers, signals, loose>>

-----------------------------------------------------------------------------
(* Definitions *)

\* What writes signals: captures, and the others, agents and the news judge.
Author == Process \cup {NoProcess}

NoOffer == "no offer"

ASSUME NoOfferIsNoId == NoOffer \notin Offer

\* stage: "none", "evaluate", then "propose", "submit", "link" (the trade setup
\* monitor's three writes), or "search", "write" (the capture's), "answered",
\* and, once the run is recorded, "queue", "send", "sent". left: the candidates
\* not yet looked at.
NoTask == [stage |-> "none", result |-> NoMatch, offer |-> NoOffer,
           left |-> <<>>, created |-> 0]

\* proposal and action: made or not. linked: the proposal has the action's id.
\* recorded: its run is recorded as a match. shown: the request is in the chat.
\* spoiled: something failed on the way.
NewOffer == [process |-> NoProcess, action |-> FALSE, linked |-> FALSE,
             recorded |-> FALSE, shown |-> FALSE, spoiled |-> FALSE]

Used(o) == offers[o].process # NoProcess

Stage(w, stage) == task' = [task EXCEPT ![w].stage = stage]

\* The adapter is done: what it went through is told by nothing any more.
Answered(w, result) ==
    [NoTask EXCEPT !.stage = "answered", !.result = result, !.offer = task[w].offer]
Yields(w, result) ==
    task' = [task EXCEPT ![w] = Answered(w, result)]

\* The offer in hand, if there is one, with a field changed.
Marked(w, field) ==
    IF task[w].offer = NoOffer THEN offers
    ELSE [offers EXCEPT ![task[w].offer][field] = TRUE]

InAdapter(w, stage) == worker[w].pc = "running" /\ task[w].stage = stage
Notifying(w, stage) == worker[w].pc = "closing" /\ task[w].stage = stage

KindOf(w) == kind[worker[w].process]

MonitorInit ==
    /\ WorkerInit
    /\ kind \in [Process -> Kinds]
    /\ task = [w \in Thread |-> NoTask]
    /\ offers = [o \in Offer |-> NewOffer]
    /\ signals = [t \in Topic |-> [a \in Author |-> 0]]
    /\ loose = {}

-----------------------------------------------------------------------------
(* The adapters *)

\* The process a thread is executing beyond its lease: another may be at it too.
OutlivedBy(row) ==
    IF row.pc = "running" /\ row.age >= Lease THEN {row.process} ELSE {}

\* _run_process: the run is started and the adapter called.
Start(w, p) ==
    /\ StartRun(w, p)
    /\ task' = [task EXCEPT ![w] =
                   IF OverBudget(w, p) THEN NoTask
                   ELSE [NoTask EXCEPT !.stage = "evaluate"]]
    /\ loose' = loose \cup OutlivedBy(worker'[w])
    /\ UNCHANGED <<kind, offers, signals>>

\* The adapter has its answer without a write, or raises.
Evaluate(w) ==
    /\ InAdapter(w, "evaluate")
    /\ \E answer \in AnswersOf(KindOf(w)) : Yields(w, answer)
    /\ UNCHANGED <<workerVars, kind, offers, signals, loose>>

\* Trigger, analysis, policy and preparation all speak for an order.
SetupIsGood(w) ==
    /\ InAdapter(w, "evaluate")
    /\ KindOf(w).adapter = "trade_setup_monitor" /\ KindOf(w).propose
    /\ Stage(w, "propose")
    /\ UNCHANGED <<workerVars, kind, offers, signals, loose>>

\* create_submit_order_proposal.  Only with an execution service that takes the
\* arguments its protocol declares: neither of the two brokers' does.
Propose(w) ==
    /\ InAdapter(w, "propose")
    /\ \E o \in Offer :
          /\ ~Used(o)
          /\ offers' = [offers EXCEPT ![o].process = worker[w].process]
          /\ task' = [task EXCEPT ![w].stage = "submit", ![w].offer = o]
    /\ UNCHANGED <<workerVars, kind, signals, loose>>

\* create_submit_action
Submit(w) ==
    /\ InAdapter(w, "submit")
    /\ offers' = Marked(w, "action")
    /\ Stage(w, "link")
    /\ UNCHANGED <<workerVars, kind, signals, loose>>

\* A faulty variant of Link: the adapter sends the request itself, before the run
\* is recorded.
LinkAndShow(w) ==
    /\ InAdapter(w, "link")
    /\ offers' = [offers EXCEPT ![task[w].offer].linked = TRUE,
                                ![task[w].offer].shown = TRUE]
    /\ Yields(w, Approval(KindOf(w)))
    /\ UNCHANGED <<workerVars, kind, signals, loose>>

\* attach_pending_action, and the adapter's answer
Link(w) ==
    /\ InAdapter(w, "link")
    /\ offers' = Marked(w, "linked")
    /\ Yields(w, Approval(KindOf(w)))
    /\ UNCHANGED <<workerVars, kind, signals, loose>>

\* A faulty variant of ProposalFails: the link to the proposal is optional.
ProposalFailsQuietly(w) ==
    /\ \E stage \in {"propose", "submit", "link"} : InAdapter(w, stage)
    /\ offers' = Marked(w, "spoiled")
    /\ Yields(w, IF task[w].stage = "link" THEN Approval(KindOf(w)) ELSE Failed)
    /\ UNCHANGED <<workerVars, kind, signals, loose>>

\* One of the three writes fails: what the others made stays behind.
ProposalFails(w) ==
    /\ \E stage \in {"propose", "submit", "link"} : InAdapter(w, stage)
    /\ offers' = Marked(w, "spoiled")
    /\ Yields(w, Failed)
    /\ UNCHANGED <<workerVars, kind, signals, loose>>

\* A faulty variant of Captured: the memory is looked at before the first write
\* only.
CapturedOnOneSearch(w, left, created) ==
    IF left # <<>>
    THEN [task[w] EXCEPT !.stage = IF created > 0 THEN "write" ELSE "search",
                         !.left = left, !.created = created]
    ELSE Answered(w, IF created > 0 THEN Answer("completed", TRUE, Text(KindOf(w)))
                                    ELSE NoMatch)

\* The candidates before left are done with, and created of them written.
Captured(w, left, created) ==
    IF left # <<>>
    THEN [task[w] EXCEPT !.stage = "search", !.left = left, !.created = created]
    ELSE Answered(w, IF created > 0 THEN Answer("completed", TRUE, Text(KindOf(w)))
                                    ELSE NoMatch)

\* The analysis proposes signals, on a topic each, the same twice among them.
Capture(w) ==
    /\ InAdapter(w, "evaluate")
    /\ KindOf(w).adapter = "market_signal_capture"
    /\ \E n \in 0..MaxCandidates : \E candidates \in [1..n -> Topic] :
          task' = [task EXCEPT ![w] = Captured(w, candidates, 0)]
    /\ UNCHANGED <<workerVars, kind, offers, signals, loose>>

\* _duplicate_reason finds an active signal on the candidate's topic.
Known(t) == \E a \in Author : signals[t][a] > 0

\* The memory has more active signals than a search returns. It takes the newest
\* rows (250 of them, SignalMemory has the details) and the best of those that
\* share a topic, so that an older signal may be left out.
ActiveSignals ==
    MapThenSumSet(LAMBDA t : MapThenSumSet(LAMBDA a : signals[t][a], Author), Topic)
Crowded == ActiveSignals > MostShown

\* A candidate over the limit, or found to be known, is passed by.
PassBy(w) == task' = [task EXCEPT ![w] = Captured(w, Tail(task[w].left), task[w].created)]

\* _write_signals: search_signals, in a transaction that has ended when the
\* signal is written. The search finds what is there, unless there is too much.
SearchSignals(w) ==
    /\ InAdapter(w, "search")
    /\ \/ (task[w].created >= MaxSignals \/ Known(Head(task[w].left))) /\ PassBy(w)
       \/ /\ task[w].created < MaxSignals
          /\ Known(Head(task[w].left)) => Crowded
          /\ Stage(w, "write")
    /\ loose' = IF Crowded THEN loose \cup {worker[w].process} ELSE loose
    /\ UNCHANGED <<workerVars, kind, offers, signals>>

\* create_signal
WriteSignal(w) ==
    /\ InAdapter(w, "write")
    /\ ActiveSignals < MaxActive
    /\ signals' = [signals EXCEPT ![Head(task[w].left)][worker[w].process] = @ + 1]
    /\ task' = [task EXCEPT ![w] =
                   Captured(w, Tail(task[w].left), task[w].created + 1)]
    /\ UNCHANGED <<workerVars, kind, offers, loose>>

\* A write that fails costs the candidate; a search that fails ends the run,
\* whatever has been written.
CaptureFails(w) ==
    /\ \/ /\ InAdapter(w, "write")
          /\ PassBy(w)
       \/ InAdapter(w, "search") /\ Yields(w, Failed)
    /\ UNCHANGED <<workerVars, kind, offers, signals, loose>>

\* create_signal by an agent or the news judge, which do not look for others first.
\* Only captures read what they write.
OthersWrite(t) ==
    /\ \E p \in Process : kind[p].adapter = "market_signal_capture"
    /\ ActiveSignals < MaxActive
    /\ signals' = [signals EXCEPT ![t][NoProcess] = @ + 1]
    /\ UNCHANGED <<workerVars, kind, task, offers, loose>>

\* archive_signal, or the signal's end has come: it is looked up no more.
SignalEnds(t, a) ==
    /\ signals[t][a] > 0
    /\ signals' = [signals EXCEPT ![t][a] = @ - 1]
    /\ UNCHANGED <<workerVars, kind, task, offers, loose>>

-----------------------------------------------------------------------------
(* The record and the notification *)

\* _record_adapter_result. A process that is paused when its match is recorded is
\* not completed by it, and may be resumed.
RecordResult(w) ==
    LET r == worker[w].run
        age == worker[w].age
        result == task[w].result
        p == worker[w].process
    IN
    /\ InAdapter(w, "answered")
    /\ IF result.status = "completed"
       THEN RecordCompleted(r, age, result.matched)
       ELSE RecordUnsuccessful(r, age)
    /\ Set(w, [worker[w] EXCEPT !.pc = "closing"])
    /\ offers' = IF result.status = "completed" THEN Marked(w, "recorded") ELSE offers
    /\ loose' = IF Active(p) \/ Over(p) THEN loose ELSE loose \cup {p}
    /\ IF result.send = "nothing" THEN task' = [task EXCEPT ![w] = NoTask]
                                  ELSE Stage(w, "queue")
    /\ UNCHANGED <<failures, kind, signals>>

\* A faulty variant of QueueNotification: not for a process that has ended.
QueueWhileActive(w) ==
    /\ Notifying(w, "queue")
    /\ IF Active(worker[w].process) THEN Stage(w, "send")
                                    ELSE task' = [task EXCEPT ![w] = NoTask]
    /\ UNCHANGED <<workerVars, kind, offers, signals, loose>>

\* send_process_notification: the attempt is recorded first. If that fails (the
\* process has been deleted, say), nothing is sent and the exception is caught.
QueueNotification(w) ==
    /\ Notifying(w, "queue")
    /\ \/ /\ Exists(worker[w].process)
          /\ Stage(w, "send")
          /\ UNCHANGED offers
       \/ /\ offers' = Marked(w, "spoiled")
          /\ task' = [task EXCEPT ![w] = NoTask]
    /\ UNCHANGED <<workerVars, kind, signals, loose>>

\* The message is in the chat: its text, or the request with its buttons.
Delivered(w) ==
    IF task[w].result.send = "approval" THEN Marked(w, "shown") ELSE offers

\* TelegramSchedulerNotifier.send: delivered and answered, delivered with the
\* answer lost, or not delivered. Exceptions become a result.
SendNotification(w) ==
    /\ Notifying(w, "send")
    /\ \/ offers' = Delivered(w) /\ Stage(w, "sent")
       \/ offers' = Delivered(w) /\ task' = [task EXCEPT ![w] = NoTask]
       \/ offers' = Marked(w, "spoiled") /\ task' = [task EXCEPT ![w] = NoTask]
    /\ UNCHANGED <<workerVars, kind, signals, loose>>

\* _record_result and _attach_approval_message_id (TradeApproval has what it is
\* good for); either may fail.
AttachMessage(w) ==
    /\ Notifying(w, "sent")
    /\ task' = [task EXCEPT ![w] = NoTask]
    /\ UNCHANGED <<workerVars, kind, offers, signals, loose>>

\* The rest of the pass: only when no adapter or notification is under way, or
\* at its end by an exception or a crash.
ThreadGoesOn(w) ==
    /\ task[w].stage = "none"
    /\ \/ BeginPass(w) \/ ClaimAtOnce(w) \/ ReadDue(w) \/ WriteClaims(w)
       \/ ClaimConflicts(w) \/ SkipForBudget(w) \/ Release(w) \/ Leave(w)
       \/ \E p \in Process : StartMissesProcess(w, p)
    /\ loose' = loose \cup UNION {worker'[v].lost : v \in Thread}
    /\ UNCHANGED <<kind, task, offers, signals>>

\* The adapter goes on when the database fails; its record then does not work.
ThreadFails(w) ==
    /\ \/ WorkerCrash(w)
       \/ task[w].stage \in {"none", "answered"} /\ PassFails(w)
       \/ task[w].stage \in {"none", "answered"} /\ FinishMissesRun(w)
    /\ offers' = Marked(w, "spoiled")
    /\ task' = [task EXCEPT ![w] = NoTask]
    /\ UNCHANGED <<kind, signals, loose>>

-----------------------------------------------------------------------------
(* Specification *)

Adapter(w) ==
    \/ Evaluate(w) \/ SetupIsGood(w) \/ Propose(w) \/ Submit(w) \/ Link(w)
    \/ ProposalFails(w) \/ Capture(w) \/ SearchSignals(w) \/ WriteSignal(w)
    \/ CaptureFails(w)

MonitorTick ==
    /\ Tick
    /\ loose' = loose \cup UNION {OutlivedBy(worker'[w]) : w \in Thread}
    /\ UNCHANGED <<kind, task, offers, signals>>

Notify(w) == QueueNotification(w) \/ SendNotification(w) \/ AttachMessage(w)

MonitorNext ==
    \/ \E w \in Thread :
          \/ \E p \in Process : Start(w, p)
          \/ Adapter(w) \/ RecordResult(w) \/ Notify(w)
          \/ ThreadGoesOn(w) \/ ThreadFails(w)
    \/ \E t \in Topic : OthersWrite(t) \/ \E a \in Author : SignalEnds(t, a)
    \/ Manage /\ UNCHANGED <<kind, task, offers, signals, loose>>
    \/ MonitorTick

MonitorSpec == MonitorInit /\ [][MonitorNext]_monitorVars

-----------------------------------------------------------------------------
(* Properties *)

\* An approval request in the chat is for an action that was made and linked to
\* its proposal, by a run that is on record as a match: a person never decides
\* on an order the scheduler does not know it has offered.
ShownIsSound ==
    \A o \in Offer :
        offers[o].shown => offers[o].action /\ offers[o].linked /\ offers[o].recorded

\* A match on record is not kept quiet: unless something failed on the way, or
\* the process is not to notify at all, its request is in the chat once its
\* thread has done with it.
MatchIsShown ==
    \A o \in Offer :
        /\ offers[o].recorded /\ kind[offers[o].process].notify
        /\ \A w \in Thread : task[w].offer # o
        => offers[o].shown \/ offers[o].spoiled

\* A process that completes on its first match shows one request at most, through
\* all the runs that crash or fail after making an offer; unless it was paused
\* under a run, or a thread outlived its lease at it, or claimed it on what it had
\* read before another thread's claim or before it ended.
OneRequestPerMatch ==
    \A p \in Process \ loose :
        Lifecycle[p].policy = "complete_on_first_match"
            => Cardinality({o \in Offer : offers[o].process = p /\ offers[o].shown}) <= 1

\* A capture repeated after a crash, or going over the same ground again, does not
\* write a signal that is there: a process has one active signal per topic, unless
\* it was looked up among more signals than a search returns, or the process was
\* paused under a run, or a thread was at it without a lease of its own.
SignalsAreWrittenOnce ==
    \A p \in Process \ loose : \A t \in Topic :
        signals[t][p] <= 1

=============================================================================
