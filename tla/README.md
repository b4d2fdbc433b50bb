# T212AI: specifications

TLA+ models of T212AI, a Telegram bot that prepares broker orders with the help
of language models, executes them when a person presses *approve*, reconciles
what became of them, and runs scheduled processes in the background. The models
are read from the code under `src/t212ai` (all paths below are relative to that
directory unless they start with `docs/`); `PROJECT.json` maps every definition
to the lines it stands for.

1. [The system](#1-the-system)
2. [The modules](#2-the-modules)
3. [What the runs check](#3-what-the-runs-check)
4. [Fairness](#4-fairness)
5. [What is proved](#5-what-is-proved)
6. [Where code and documents disagree](#6-where-code-and-documents-disagree)
7. [What is not modelled](#7-what-is-not-modelled)
8. [Plan](#8-plan)

## 1. The system

One bot process runs three threads' worth of work: the Telegram loop, which
handles updates one after another; an embedded scheduler worker; and a
supervisor of news stream monitors with a thread for each monitor. Reconcilers
and further workers are started from the command line as processes of their
own. What they share is one SQL database (SQLite by default) and the broker.
Guidelines are in a file beside it, settings in `.env`.

| Component | State | Operations | Hard behaviour | Correct when |
| --- | --- | --- | --- | --- |
| Pending actions (`pending_actions/service.py`) | rows: state, deadline, broker result, message id | create, approve and execute, reject, lazy expiry, apply reconciliation | a session open over the broker call; answers lost; crash before the commit; a late writer | closed rows never reach the broker; a rejection is final; every call is accounted for |
| Proposals (`proposals/service.py`) | proposal status, approval events, execution attempts | create, attach action, record event and attempt, mark, synchronise | each call is its own transaction: two writers interleave, a crash leaves a part | every order has its approval event; the proposal ends as its order did |
| Telegram bridge (`telegram/bridge.py`) | the update in work | authorise, hand a message to the agent, resolve the action, journal, edit the message | presses repeated or delivered again; press before the message id is stored; a message taken up twice | every press and message is handled; only the owner brings orders about |
| Reconciliation (`reconciliation/service.py`) | the pass: batch, two broker snapshots | list, fetch, match, resolve, apply, synchronise the proposal | snapshots of different moments; a bounded page; orders known by their metadata only; exceptions end the process | it concludes what happened; no submitted action is passed over for ever |
| Order preparation (`brokers/tools/orders.py`, the order specialist, the trade-setup monitor) | none of its own | propose, create the action, link, send the message | four transactions and a message; the action can be pressed half way | an executable action has its proposal; the approval shown is the one prepared last |
| Orchestrator and specialists (`agent/`) | the dialogue, the plan, the approval so far | classify, delegate, reason, plan, execute one action after another | an exception or a compaction between the tool and the reply; a message delivered again | one approval at most, and one of this message |
| Model client (`genai/client`, `genai/context.py`) | the conversation, the tool budget, attempts | send, answer tool calls, retry, compact | a context cut in the middle of a round; a budget that runs out in a round | every tool call is answered, every request ends |
| Scheduled processes (`scheduler/service`) | processes, run rows, leases | create, pause, resume, archive, delete, record a run, claim, release, recover | results that come after the process has ended; leases run out; calendars with clock changes | an ended process stays ended and is never due; no calendar time is left out |
| Scheduler worker (`scheduler/worker.py`) | its pass: batch, budget of model runs | recover, claim, run or skip, record, release | several workers on one database; leases of a batch age together; exceptions leave leases behind | no process runs twice under a lease; due processes are served; runs get closed |
| Scheduler adapters (`scheduler/*_monitor.py`, `company_event_analyst.py`, `market_signal_capture.py`, `notification.py`) | none between runs; proposals, actions and signals elsewhere | read quotes and evidence, judge, ask a model, propose or write signals, notify | gaps in the data; calls that fail half way; writes repeated by the run after a crash | no verdict without data for it; one request per match; no signal twice |
| Scheduler management tools (`scheduler/management`) | the row they file | create, pause, resume, archive | three validators in three places; a policy used long after | what is filed can be run; a proposal stays within its form |
| News stream monitors (`app/alpaca_news_stream_supervisor.py`) | worker entries, stop flags, items seen | synchronise, watch, judge, notify, stop | judgement in the thread that must refresh the lease; takeover after a crash; clean stop against window end | a window is watched, by one monitor |
| News judge (`agent/news_judge`) | none | one answer of a model with tools | tools without what stands behind them | it is offered what works |
| Broker adapters and tools (`brokers/`, `alpaca/broker.py`) | the public references of an interaction | resolve, size, prepare, execute, cancel, list | references reused; candidates cut off; amounts rounded; orders seen in a broker's words | the order is the one asked for; a cancellation is of the order shown; its own order is known again |
| Guidelines and documents (`guidelines/`, `persistence/documents.py`) | one file | add, update, archive, delete; save through a temporary file | a crash at any point of a save; readers in other threads | a reader sees the old document or the new one |
| Market signals (`market_signals/`) | rows | write, search, archive | a search that reads a window of rows before it looks at their topics | it finds what there is; the capture adds nothing twice |
| Configuration and start (`app/config.py`, `app/bootstrap`, `app/runtime`, `cli/`, `genai/tools/tools.py`, `agent/tooling.py`) | `.env`, the draft of the wizard, the runtime so far, the toolboxes | resolve, assess, configure, preflight, build, bind tools | three readings of the same settings; an order of stacks; a component that fails | saving changes what was asked; a runtime offers what was announced |
| Calculator (`calculator/`) | none | evaluate a formula, ten sums | precedence, signs, division by nothing | the meaning of the formula; sums that agree with one another |
| Capabilities, chat history, workflows, data sources, diagnostics | see section 7 | | | not modelled |

Interactions. A message goes from the bridge to the orchestrator, which talks to
a model and delegates to specialists; the order specialist, or a scheduler run,
writes a proposal and a pending action and sends a message with two buttons. A
press is an update of the Telegram loop: the bridge authorises it, asks the
pending-action service to resolve it (which calls the broker), journals the
proposal and edits the message. A reconciler lists submitted actions, compares
them with the broker's pending and historical orders and writes both the action
and the proposal. Workers and monitors meet only in the scheduler's tables.
Before any of this the operator configures the program and starts it, and what
could be built decides what agents and adapters are given.

## 2. The modules

| Module | Models | State and its counterpart in the code |
| --- | --- | --- |
| `ApprovalLifecycle` | what the store promises of an action | `life`: none, open, live, ended, expired, rejected |
| `PendingActions` | `PendingActionService` and its three callers | `row` is the table; `bot` the one approval session; `listed` what a reconciler has read and has still to write; `contested`, a history variable: rows written by one reconciler while another had them listed |
| `ReconciliationQueue` | the limit and order of a reconciler's pass; extends `PendingActions` | `queue`: submitted rows by `updated_at`; `page`: what is left of the rows listed |
| `Reconciliation` | how an outcome is resolved and what it writes | operators only: `FromHistory`, `ResolveSubmit`, `ResolveCancel`, `AttemptFor`, `ProposalFor` |
| `TradeApproval` | the path of a trade; extends `PendingActions`, `Reconciliation` | `prep` (preparation), `updates` (button presses), `step` (journaling), `orders`, `history` (the broker), `proposal`, `linked`, `events`, `attempt` (the journal), `pass` (a reconciler) |
| `ModelCall` | one conversation with the model: `call_openai`, tool rounds, retries, compaction | `conv`: per caller the messages, attempts, calls left, calls unanswered |
| `ChatTurn` | one message from the bridge to the reply; extends `ModelCall` | `updates`, `turn` (the message in work), `task` (the order agent's plan), `actions`, `shown` |
| `Scheduler` | `SchedulerService`: tables and methods | `proc`, `run`, `lock` are the three tables |
| `SchedulerWorker` | `run_once` of any number of workers; extends `Scheduler` | `worker`: pc, what it has read of its claims (`candidates`, `found`), claims, those it has `lost`, run in work, age of the pass, budget left |
| `AdapterAnswers` | what an adapter may answer, by kind | operators only |
| `Monitors` | the adapter, the record of its answer and the notification inside a worker's run; extends `SchedulerWorker` | `kind` (the process's), `task` (a thread's place in it), `offers` (proposal, action, link, message), `signals` by topic and author; `loose`, a history variable |
| `AdapterRuns` | the five adapters call by call up to their answer | `quote`, `points`, `got` are their local variables, `phase` the place in `run` |
| `NewsMonitor` | supervisors and monitors of any number of bots; extends `Scheduler` | `supervisor`: what is left of the listed processes, the claim in progress; `monitor`: an entry of `_workers`, its thread and its local variables |
| `Calendar`, `ToolArguments` | recurring schedules on a zone's wall clock; arguments that may be missing | operators only |
| `ScheduleTools` | the scheduler specialist's tools from the form to the adapter's parser | `form`, `entry` (the row), `proposed` |
| `OrderTools` | references, resolution, sizing, preparation, execution | `references`, `shown`, `offers`; `pending`, `placed` are the broker's |
| `OrderRecords` | an order in either broker's words, and how reconciliation knows it again; extends `OrderTools` | `action`, `book` (the broker's orders), `listed`, `told` |
| `GuidelineStore` | the guideline document | `file`, `temp` (the temporary file), `writer` (the change in progress) |
| `SignalMemory` | the memory of market signals and its searches | `memory` (rows), `hour`, `found` |
| `Settings` | what `.env` resolves to, the assessment, the preflights | operators only |
| `Wizard` | the configuration wizard; extends `Settings` | `env`, `draft` (its `updates`), `section`, `asked`, `typed` |
| `Startup` | `build_runtime`, stack by stack; extends `Wizard` | `built`, `handed` (constructor arguments), `errors`, `registry` |
| `Toolboxes` | what each agent is offered and what is bound to it; extends `Startup` | operators over `Startup`'s state |
| `Calculator` | the formula parser and the sums | `formula` (tokens), `sum` |
| `AgentTools` | the desks of `ScheduleTools`, `OrderTools`, `OrderRecords`, `GuidelineStore`, `SignalMemory`, `Toolboxes`, `AdapterRuns`, `Calculator` side by side | `desk` |
| `MC...` | small instances | values of constants only |
| `...Proofs` | theorems and lemmas of the module they name; `PendingActionsProofs` has those of `ReconciliationQueue` too, `MonitorsProofs` those of `SchedulerWorker`, `DeskProofs` those of the other desks and of `AgentTools` | |

Granularity. A database transaction with no call to the network in it is one
action. `approve_and_execute` keeps its session open over the broker call, so it
is split: open (`ApproveOpens`), the call (`BrokerAccepts`, `BrokerAnswerLost`,
`BrokerRefuses`), the commit. The calls of the bridge, of a reconciliation pass
and of an adapter are a step each; so is each stage of a proposal (proposal,
action, link, record, message), each file operation of a save, each section of
the wizard and each stack of the runtime. `claim_due_processes` and
`claim_process` are two steps, what they read and what they write, for SQLite
with its default driver takes no lock before the first write and other workers and
bots come in between: a row read as expired may be held by somebody else when it
is written. Three outcomes follow (`WriteClaims` or `StartMonitor`, and
`ClaimConflicts` when the row to insert is there by now or the row to update has
gone). Only a pass that begins with a write, because a process has expired, has the
database to itself from there on (`ClaimAtOnce`). Releasing, refreshing and
recovering compare the holder and write in one step: a lock row changed under
them within these short transactions is left out.

Abstractions. Broker answers, judgements of models, the order within a batch,
and which items exceed the rate are nondeterministic. Texts and audit events are
left out. Prices, amounts and dates are small numbers where a property is about
them (`OrderTools`, `AdapterRuns`, `Calendar`, `Calculator`). A value of the
environment is absent, blank or a word; `Fragile` are the words that do not
survive being quoted and escaped when the file is written, `Reread` what each of
them is read as afterwards. A run row has ended or not: how, no guard asks. The end
of a day is that of its last unit, a second after the code's 23:59:59. The calculator's decimals are quotients
of integers, without the rounding to 28 digits, and a root or an infinity is a
value it does not work out. `Monitors` lets an adapter answer anything
`AdapterAnswers` allows for its kind, and `AdapterRuns` shows that the adapters
answer nothing else.

The desks of `AgentTools` share no state, so a behaviour belongs to one of
them: the run is a sum of eight, not a product. `OrderTools` and
`PendingActions` model the same approval from two sides; the first has what the
tools do with the broker before and after it, the second its life.

Time. `PendingActions` has a clock in minutes. `Scheduler` keeps every moment as
its distance from now, which `Tick` lowers; ages are told apart up to `Horizon`,
which is no smaller than a lease or the age of a stale run, so that nothing any
guard asks is lost, but for the order of runs stale for longer than that: which of
them `recover_stale_runs` takes first is left open (`OldestRuns`). A step of a thread takes no time unless it is a wait: an
adapter or a model may take any time, a monitor waits for an event at most half
a lease (`_stream_receive_timeout`), a worker claims right after it begins.
`Calendar` counts units of UTC, `Day` of them to a day, and a zone is an offset
before and after one change.

Definitions whose comment says *for mutation testing* or *a faulty variant* are
used by no specification. They are plausible mistakes, each of which breaks one
of the properties; they show that the properties can fail.

## 3. What the runs check

Twelve runs. Three are expected to be violated and are explained in section 6.
Deadlock is checked in `pending_actions` only: in the other instances the
bounds, or processes that have ended with nobody to create more, let the system
come to rest.

**pending_actions** (`ReconciliationQueue.cfg`, 467 thousand states). Two
actions, one of a broker that has no service, one reconciler whose pass takes
one row, one failure: a crash or a refused transaction. `FollowsLifecycle`: the store implements
`ApprovalLifecycle`. `CallsAccounted`: calls that reached the broker are the
submitted row, the open session, or one let go by a lost answer, a failure or
reconciliation. `ClosedMakesNoCall`, `ReconcilerIsCurrent`: what a late writer
could break. All but the order of the queue is said of rows that no two reconcilers
have written over each other (`contested`); here there is one reconciler, since two
do not fit the time of a run, and the proofs have any number. `NoneIsPassedOver`: with one row to a pass and two submitted, every
row has its turn, since a row found unchanged goes to the end of the queue.

**approval_pair** (`ApprovalPair.cfg`, 1.3 million). A buy order and the
cancellation of it, two presses by an owner and a stranger, no failure.
`ConclusionIsTrue`: an action that is reconciled or cancelled is so because an
order of its own was filled or cancelled. The page of history has one entry, so
that a second attempt or the cancelled order crowds the other out.
`OwnerPlacesOrders`: an order appears only while the owner's approval is in work.
Orders are told apart by their
metadata here; `OrderRecords` has the case in which they cannot be.

**approval_recovery** (`ApprovalRecovery.cfg`, 52 thousand). One buy order, a
stop of the reconciler and one failure of the bot, at any point of one press: it
crashes, or a transaction of the service or of the journal is refused, an exception
that leaves the update confirmed and the bot alive (`TransactionRefused`).
`OrdersAreTraced`: an order is without its approval event for each such failure at
most, and for nothing else. `PressesAreHandled` and `SubmittedSettles` are the
liveness. Two failures add nothing for one press: the second finds the update
confirmed or delivered again as the first.

**chat_turn** (`ChatTurn.cfg`, 236 thousand). Two messages, one of them taken
for an order outright, each handled by plans of two actions, a plan the
validators refuse and one with a tool that does not exist; two tool calls to an
answer of the model, a budget of two, two attempts at a request, a compaction
that keeps two messages, a crash of the bot. `RequestsArePaired`: whatever is
cut, refused or over budget, no request has a tool message without its call or a
call without its answer. `OffersAreOwn`, `LastPreparedIsOffered`: of several
actions prepared, in several conversations, the person is shown one, the last,
and of this message. `MessagesAreHandled`: rounds, retries and plans end.
Only the conversation of an action can outgrow its context here; the other goes
through the same code.

**scheduler_recovery** (`SchedulerRecovery.cfg`, 48 thousand). One worker, two
processes claimed in a batch under a budget of one model run, a pass that looks at
two rows, a crash or a refused transaction in any place. `RunsAreClosed`,
`DueIsServed`: the worker ends every run and lease it left behind. A limit below the
number of runs open would let leased runs crowd out the stale ones (section 6).

**monitors** (`Monitors.cfg`, 1.02 million up to symmetry). Two workers on one
process of any of four kinds, that completes on its first match; two run rows, two
proposals, one topic, two candidates; a lease, a stale age and a horizon of one
tick; one failure, which may be a crash, a refused transaction, a broker that
does not answer or a message that is not sent. `ShownIsSound`, `MatchIsShown`,
`OneRequestPerMatch`, `SignalsAreWrittenOnce`: what four transactions and a
message may leave behind, and what the next run makes of it.
`ExclusiveWhileLeased` and `TerminalIsQuiet`: double execution needs a lease
outlived, or a claim written over another's that was made after it had been looked
for, and a late result does not make an ended process due. `OneRequestPerMatch` and
`SignalsAreWrittenOnce` leave out the processes it happened to (`loose`), and the
second those whose signals were looked up among more than a search returns: agents
and news judges write signals of the same topic all the while (`OthersWrite`), two
at most here, where a search shows one. A second run is there because the first may
be abandoned; a second proposal because it may have left one.

**news_leases** (`NewsLeases.cfg`, 539 thousand up to symmetry). Two bots, one
process with a window of three ticks, one news item, one failure. `WatchedOnce`
and `LiveRunsAreSpared`: of two bots that watch the same window, or of a bot whose
run is recovered under it, one is late at the head of its loop or has had its lease
overwritten by a claim made on an older reading. A lease of two ticks is the least that has half a lease
to wait.

**news_recovery** (`NewsRecovery.cfg`, 34 thousand). One bot, a window with no
end in sight, one that ends, or invalid inputs. `WindowIsWatched`, `MonitorsEnd`,
and `MonitorRunsAreClosed` for windows that end: while the successor of a
crashed monitor refreshes the lease, the old run counts as leased and stays open
as long as the window does.

**agent_tools** (`AgentTools.cfg`, 880 thousand, the sum over eight desks).

* *scheduler* (331 thousand). Six kinds of form, each wrong in two arguments at
  most, filed a day before, the moment before and after a zone's clocks go back
  or forward, then paused, resumed, run and archived; a day has three units and
  the run ends after a week has gone by. `FormsAreRunnable`: what creator and
  service let through, the adapter's parser takes. `ProposalsAreWithinForm`: an
  order proposed later is of a symbol, side, type and size the form allows.
  `CalendarIsKept`: the next run is the first calendar time to come, apart from the
  hour after a change (section 6).
* *order* (148 thousand). Three instruments, three queries (two with a clear
  best, one with two close), of the instruments two with a ticker of an unusual form:
  looked for again before the order is prepared, the one is found and the other not.
  Two orders at the broker that come and go, two
  interactions, two actions prepared. `CancelsWhatWasShown`: a public reference is
  one order for as long as an interaction lasts, and a cancellation is of the
  order shown under it. `OffersAreAsAsked`: an ambiguous name is not resolved,
  and an amount of money buys as much as it can at the limit, no more.
* *records* (178 thousand). An order of the program's and one like it but for
  its size or limit, or in nothing, placed elsewhere, at either broker; the id
  kept or lost; filled, filled in part, cancelled, rejected or still open between
  the two lists of a pass. `OwnOrderIsTold`.
* *guidelines* (3 thousand). Two nodes, two contents, a change at a time with a
  crash at any point of the save. `GuidelinesSurvive`.
* *operator* (102 thousand). A file from before selectors and two environments,
  or one for a live account with values that do not survive being written, a switch
  and a secret; up to two sections gone through;
  then any command, with one component that fails. `SavesOnlyWhatWasAsked`:
  saving changes what the program reads in those sections only, where it does not
  come of such a value.
  `OffersWhatWasAssessed`: the runtime has what the assessment announced, each
  component was handed what there is of what it uses, and no agent is offered a
  tool that cannot do its work, unless a component it stands on is an error.
* *worker* (49 thousand). Twelve jobs of the five adapters, twelve quotes, four
  histories or none, two collaborators missing. `VerdictsAreSound`: neither a
  match nor a "no match" without the data for it, and no answer that `Monitors`
  does not have.
* *signals* (40 thousand). Three signals, a window of two, two shown at most,
  three hours, agents and captures. `SignalsAreFound`.
* *calculator* (29 thousand). All formulas of up to six tokens, ten sums over
  four amounts. `CalculationsAgree`: the parser by recursive descent gives the
  value that splitting at the operator that binds least gives, for every formula
  that has one, and refuses the others; the sums are each other's inverses. Six
  tokens have a sign, two operators of different strength and their operands; the
  proof has no bound.

**approval_retry**, **approval_journal**, **scheduler_one_shot**: one property
each, violated (section 6).

Bounds: `MaxTime` (clock), `MaxCalls` (calls for one action), `MaxFailures`
(crashes, refused transactions and what else fails), `MaxCrashes` (of the bot in a
chat), `MaxTaps` (presses), `MaxStops` (reconcilers stopped),
`MaxMessage`, `MaxActions`, `ChatHistory`, `MaxWidth` (messages, actions
prepared, messages of context, tool calls in an answer), `MaxCandidates`,
`Passes` (a supervisor's passes in a tick), `Horizon`, `LastTick`, `LastHour`,
`MaxPlaced`, `MaxInteractions`, `MaxOffers`, `MaxSaves`, `MaxAsked`,
`MaxErrors`, `MaxMissing`, `MaxSignals`, `MaxActive` (signals of others),
`MaxSignalsKept`, `MaxTokens`. `Limit` (rows of a pass), `MostShown` (signals of a
search), `HistoryLimit` are the code's own limits, made small. `Hundred` is 4 so that
percentages of small amounts are whole. Run rows are reused once closed.
`monitors` and `news_leases` check safety only and take threads, run ids and
proposals for symmetric: no definition tells one from another.

## 4. Fairness

* `ReconciliationQueue`: weak fairness of listing, a loop with a sleep, and
  strong fairness of applying a row: passes are started again, and none dies at
  the same row for ever. (One that did would keep the rows behind it waiting: a
  pass ends with its first exception.)
* `TradeApproval`: weak fairness of the bot, whose event loop takes updates as
  long as the process runs (a crash is followed by a restart), and of each
  reconciler's pass. No fairness for people, for the broker settling orders, or
  for preparation.
* `ChatTurn`: weak fairness of the bot's work on its messages. Every request to
  the model comes back, with an answer, an error or a timeout.
* `SchedulerWorker`: weak fairness of each worker, a loop with a sleep; adapters
  answer or raise in the end, all of their calls having timeouts. Time needs
  strong fairness since a pass suspends it for a moment again and again.
* `NewsMonitor`: the same for supervisors, monitors and the bot's scheduler
  thread, of which only two passes are needed: one whose rows have a stale run among
  them, and one that expires a process. Nobody has to manage processes and no stream has to deliver anything.

Crashes, failures and refusals are never fair, and bounded. `Monitors` and
`AgentTools` state safety only.

## 5. What is proved

`PendingActionsProofs`, for any set of actions, any times to live and any
bounds. Type correctness is inductive by itself. The rest rests on `IInv`, the
conjunction of the type invariant with three statements that only hold
together: rows a reconciler has listed are still submitted; the row under an
open session is one `approve_and_execute` was willing to open; calls are
accounted for. `ReconcilerIsCurrent` needs to know that no button moves a
submitted row; the account of calls needs to know that the row under a session
is not submitted, or the commit would count one call twice; and both need that
a reconciler writes only submitted rows. The number of reconcilers is free. Of two
that have listed the same row the second writes what it made of an older reading:
the row is `contested` from the first write on, and the statements are about all
other rows, so that they say what a second reconciler can break and that nothing
else does. From `IInv` follow the two action properties and
`ImplementsLifecycle`: each step is a step of `ApprovalLifecycle` or a stutter.

There too, for `ReconciliationQueue` and any limit: `QueueCorrect`: the queue holds the
submitted rows, each once, and a page is what its reconciler still has to apply;
the induction needs lemmas on what removing a row from a sequence without
repetitions leaves. Queue and path are made of the store's own steps, so what is
proved of the store holds of them (`QueueKeepsPromises`, `PathKeepsStoreSafe`).

`TradeApprovalProofs`. `OnlyOwnersApprovalPlacesOrders`: an order
appears only while the owner's approval of that action is in work.
`ConclusionsAreTrue`: what is concluded of an action is what became of an order of
its own, for any number of reconcilers, crashes and lost answers. It rests on
`SnapshotInv`: what a pass has read of the history stays settled (`Settled` is
final), an order's reference is its own, and the answer of the broker under an open
session is the last order placed. The assumption `ShapesDiffer` says that no two
submissions agree in all that orders are matched by; without it the statement is
false, and `OrderRecords` says what is true then. `OnlyFailuresLoseTheTrace` counts:
while the bot is idle there are at most as many actions with an order and no approval
event as it has crashed or had a transaction refused (`OrdersAreTraced`, which the run
checks for one failure). The invariant `TraceInv` follows the order proposal, action
and link are written in, and `FewLost` that each step that loses an order's event is
such a failure, which loses one at most.

`SchedulerProofs` has a lemma for each method of the scheduler: the tables keep
their types, a process that has ended stays ended and has no next run, and no
method but the deletion deletes. They are stated for any caller.
The first part of `MonitorsProofs` uses them for any number of workers, with any batches,
budgets, schedules, lifecycles and times. `WorkerTypeCorrect` (with the budget of
model runs), `EndedIsQuiet` and `EndedIsFinal`. `NoDoubleExecution` and
`LiveRunsAreNotRecovered` assume nothing of the database: a claim is read and then
written, and two threads may have read the same row. Then the later one overwrites
the lease of the earlier, which has lost its claim (`lost`) and, like one whose
lease has run out, is at the process without protection (`Unprotected`). That this is
the only other way to double execution is what the theorems say. Neither property is
inductive. The invariant `LInv` adds what they rest on:

* `ClaimsHeld`: within a lease's time from the start of a pass, the lock row of
  every claim not worked off and not lost is the thread's own and has as much of its
  lease left as the pass is young, unless the process has been deleted;
* `ClaimsApart`: of two threads with a claim in common one is unprotected (the lock
  row cannot say so of a deleted process);
* `RunsApart` and `OwnRun`: no two threads have the same run row, and the row in
  execution is as its thread wrote it, or deleted, or its thread is unprotected;
* `StartedExist`: open runs belong to processes not deleted, so that recovery
  finds the lease of each.

The induction: a claim takes a lease only from threads it makes lose it, and reads
others as run out, so they are none of a thread in time; a release compares the holder; recovery passes over leased processes;
time takes from a lease what it adds to the age of its pass.

`MonitorsProofs`, for any number of threads, processes, proposals and topics.
`MInv` says who holds which proposal: a thread in a stage of making one holds an
id no other thread holds (`HandsApart`), whose record is as that stage leaves it
(`Fits`, `Knows`), and a request that is shown is linked and recorded. From it
follow `ShownRequestsAreSound`, `MatchesAreShown` and `MonitorsImplementWorker`:
adapter, record and notification are the one step `SchedulerWorker` has for
them, so `NoDoubleExecution` and its like hold here (`AdaptersRunApart`).
`OneRequestIsShown` and `SignalsWrittenOnce` rest on `LooseInv`: a process some
thread was at after its lease or with a lost claim is loose, and so is one whose
signals exceed what a search returns; of a process that is not loose, a thread about
to write a signal writes one that is missing; and, if it completes on its first match,
a match on record is the only one, has ended the process, and any other claim on it is
past its lease, lost, or being closed (`MatchesEnd`, `Settled`, `Past`). The last part is what makes it inductive: the record of a match
must leave no thread behind that could record another.

`NewsMonitorProofs`, for any number of bots, processes, windows and crashes. `WatchersAreOne` and `RunsAreSpared` are not inductive: what keeps two
monitors apart, and a run from being recovered, is the lease, and neither the bot nor
the recovery looks at the monitor. `MonitorInv` says that a monitor which goes round
its loop in time, and was not overtaken at its claim, holds the lock row of its process with as much of the lease left as
has yet to go by (`LeaseIsKept`, a theorem of its own: `LeasesAreKept`), that no two
have the same run row (`RunsApart`), and that no two in time watch one process even
after its deletion took the lease along (`WatchersApart`). Every step is put under
one of two lemmas: what goes on without a lease being taken or refreshed
(`MonitorsCarried`), or the steps that do one of these. `MonitorsTyped` and
`EndedForMonitors` carry the lemmas of the scheduler's methods over to supervisors
and monitors.

`ChatTurnProofs`, for plans, contexts and rounds of any length and any number of
messages, deliveries and crashes; the invariant is `ChatInv` (`TurnsAreSound`).
`RequestsStayPaired` rests on `ConvsSound`: the messages of a conversation are headed
by the system's and every tool message stands in the block under its call, complete
unless the answers are still coming in. The lemmas on cutting are the heart of it:
what is left from an index that is not inside a block, put behind any prefix of plain
messages, is paired again. `OffersStayOwn` and `LastPreparedStaysOffered` rest on the
numbering of actions in the order of preparation: `Marks` says from which number on
they are of the run, or the plan's action, in work; `Told` that the messages of a
conversation, the records of a plan and the runs of a turn name in rising order those
whose approval was not dropped, the last of them included, so that each of the three
loops that look from the end finds the last; `Stages` which of the loops is under
way; `ShownOnce` that a delivery still to show has shown nothing.

`CalculatorProofs`, for formulas of any length, any literals and amounts. The
reference `Meaning` is given by the grammar alone: tokens i to j are read so tight by
what their parts are read as, length by length. The parser is one function of the
depth its calls may go to, `Parser(t)[depth]`, so that a call one level down is an
application and not a recursion; the depth of `evaluate` is the number of tokens and
one. `ParserAgrees` says that the two give the same value, or that neither has one:

* no method comes back to an earlier token (`ParserForward`), and from token k on the
  parser of a depth that has the remaining tokens in it no longer changes
  (`ParserIsDeepEnough`), since every call, and every round of a loop, takes a token
  first. So the parser as modelled is a fixed point of its methods, which is what
  Python's calls compute.
* Soundness (`ParserSound`), by induction on the depth: what a method returns is a
  reading of the tokens it took, as tight as the method stands for; a loop that is
  handed a reading hands back one.
* Completeness (`AllIsTaken`), by induction on the number of tokens: what can be read
  of tokens i to j, the method for that tightness takes, if the token after j is none
  it goes on with. It is the heart of the proof: a sign behind an operator, `a * -b`,
  and one before a power, `-a ^ b`, are taken as the reference reads them and in no
  other way.

Together they also show that no formula has two readings. The induction over data is by
hand: the numbers with the property are a set, and the set has no least number outside
it (`AllNaturals`), so no theorem with an operator for a parameter is needed; the
recursive functions are built up step by step for the same reason (`Iterates`).
`CalculationsAlwaysAgree` is the run's invariant: the sums come down to identities of
integers, quotients cross-multiplied, with every division by nothing refused.

`DeskProofs`. Each desk of `AgentTools` is a specification here (`GuidelineSpec`,
`OrderSpec`, `ScheduleSpec`, `RunSpec`, `SignalSpec`, `RecordSpec`, `WizardSpec`,
`StartupSpec`, and `CalculatorSpec`); a behaviour of them all is, seen from each, one
of that desk. The desks share one variable, the configured
broker, which the order desk and the records read and no step changes. So all that is
proved of a desk holds of the whole, `AgentsAreSafe` for the invariants of
**agent_tools** and `AgentsChangeWhatWasAsked` for its two action properties.

* `GuidelinesAreSafe`, for any nodes and contents. `SafelyWritten` says what each place in a
  save means for the two files: until the replacement the document is the one from
  before, and the temporary file is the new one once it is written.
* `CancellationsAreAsShown`, for any number of orders and listings. `Referred`: the
  references are a sequence without repetitions that only grows within an
  interaction, and has all that was shown or asked for in it.
* `OrdersAreAsAsked`, for any finite catalogue, scores, limit and margin. The
  candidates are the first of the catalogue by score and the limit cuts them off:
  the proof takes the smallest set of those that are ahead to show that what is
  resolved has no rival in the whole catalogue, cut off or not.
* `FormsStayRunnable` and `ProposalsStayWithinForm`, for any forms and orders of
  their types, at any time and in any zones. The process is at every moment what
  its form was made into at some instant (`FiledAs`); what the creator lets pass,
  kind by kind and field by field, is then compared with what the parser of the
  adapter asks for, and with what the policy parsed from it allows.
* `CalendarStaysKept`, for any times, weekdays and instants, in zones that satisfy
  `KeepsDate`: at most a day from UTC, and the same date on the clock before and
  after it is changed, which `MCAgentTools` assumes of the zones of the run and TLC
  checks. Where a clock is set back over midnight the second half of the property is
  false (section 6). Of each process stored the service has taken the schedule
  (`CalendarInv`). Apart from the time after a change, what is ahead on the clock is
  ahead (`ClockIsRight`) and later days come later (`LaterDaysComeLater`), so the
  first date still to come, at most seven days away (`NextDayExists`), is the first
  slot in the window of the reference: the code never runs out of dates.
* `VerdictsRestOnData`, for any jobs, quotes and finite histories. `RunInv` says of
  each place in a run what has been read by then. What the adapter computes from the
  least low and the greatest high (`Judged`) is compared with what the condition
  means of the points (`Meets`).
* `SignalsStayFound`, for a memory of any size, window and limits. The rows are typed,
  and a row of the memory that means what was searched for is in the window, or the
  window is full of newer ones; is among the first, or those rank above it.
* `OwnOrderStaysTold`, for any orders at either broker, of which the second may come
  to be placed, be told of and end at any time. It needs no history of the run: what
  a pass concludes follows from the two lists it saw. The lemmas translate what the
  brokers write: a status counts for its group alone (`GroupsAreApart`,
  `StatusTells`), an order's own words come back (`OwnMatches`), and what matches is
  alike (`MatchesAreAlike`).

* `SavesAreAsAsked`, for any .env files, any values that change in being written and
  any number of passes. `WizardInv`: while
  the wizard runs, what the program would read from the draft differs from what it
  reads from the file in the settings, sources and credentials asked about at most
  (`Differ`, which adds up over the steps). A lemma for each section says what its
  answers reach; `ManagedAlike`, that making the implied values explicit and moving
  the old keys changes no setting; `WrittenAlike`, that leaving keys out and writing
  the rest changes none but those that rest on a value that does not survive it
  (`Odd`; `SettingsFollow`, each setting follows from the values it rests on).
* `OffersAreAsAssessed`, for any .env files and any components failing. Each
  component has the step at which it is decided on (`Stage`). `Decided`: of those
  whose step is past, the ones a stack would try, seeing what is there now, are
  built or put down as errors, because whatever it looks at has an earlier step
  (`ComponentsStay`); the second binding of the capabilities finds what the first
  did. With that the order of the stacks comes down to two facts about numbers:
  what a component is handed and what a binding needs are decided before it
  (`UsesAreEarlier`, `NeededAreEarly`). What a finished runtime consists of
  (`FinishedRuntime`) is then held against the assessment, capability by
  capability, and against the toolboxes, agent by agent. The proof found a case the
  run has no file for, a model selector nobody knows; `Consistent` excludes it now
  (section 6).

The assumptions are those the modules declare on their constants: finite catalogues
and histories, numbers where numbers are compared, and that jobs of a company or a
capture have no conditions.

Proved and no run's property: `TypeOK`, `RejectedIsFinal`, `SessionRowIsOpen`,
`QueueIsSubmitted`, `TerminalIsFinal` (of workers and of monitors),
`RecoverySparesLeases`, `WorkerTypeOK`, `LeaseIsKept`, `MonitorTypeOK`,
`ChatInv`. Several reconcilers, processes that complete after several matches, and
several crashes of a bot, are in the proofs and in no run.

Only model-checked: everything under fairness (the prover has neither fairness nor
`ENABLED`), that is `NoneIsPassedOver`, `PressesAreHandled`, `SubmittedSettles`,
`RunsAreClosed`, `DueIsServed`, `WindowIsWatched`, `MonitorRunsAreClosed`,
`MonitorsEnd` and `MessagesAreHandled`. Every invariant and every action property that
a passing run checks is stated by a theorem.

## 6. Where code and documents disagree

With a run:

* **approval_retry**, `NoDuplicateOrder`. A call whose answer is lost leaves the
  row failed, and `approve_and_execute` refuses only submitted, rejected and
  expired rows, so the button places the order again.
  `docs/architecture/AGENT_DESIGN.md`, lines 12 and 375, says that an uncertain
  attempt is never retried blindly. (With Alpaca the fingerprint of what is sent
  is its `client_order_id`, which the broker refuses the second time; a second
  identical order that is meant has the same id. Trading 212 gets no such key.)
* **approval_journal**, `ProposalFollows`. `mark_submitted` writes whatever the
  proposal says by then. When reconciliation comes between the commit and this
  call, the proposal stays submitted and its action is not listed again.
* **scheduler_one_shot**, `OneShotEnds`. A failed or skipped run of a one-shot
  process clears its next run and leaves it active:
  `docs/scheduler/SCHEDULER_DESIGN_NOTES.md` ("the notes" below), line 271.

Seen while modelling, without a run of their own. Where a property would be
broken by one of these, its statement leaves the case out and says so.

Approvals and reconciliation

* A row that failed after a lost answer is never listed for reconciliation, so
  its order is unknown to the bot (`AGENT_DESIGN.md`, line 376).
* A crash between the commit and the journal leaves an order without an approval
  event (`AGENT_DESIGN.md`, line 8). So does a refused transaction, with the bot
  alive: the journal is written outside the `try` of `telegram/bridge.py`, line 148,
  so the exception consumes the press. A reconciler that dies between the action and
  its proposal leaves the proposal behind.
* Two reconcilers with the same row on their lists write it one after the other, and
  the second writes what it read first: a row that was closed, and perhaps pressed
  and submitted again since, is closed, or open again, on old evidence
  (`apply_reconciliation` does not look at the state it overwrites).
* An order that expired, or was stopped, suspended or calculated, keeps its
  action submitted (`reconciliation/service.py`, line 363); Alpaca's "held" has
  no status at all; a replaced order counts as cancelled though its successor lives.
* An order with no id kept is matched by its metadata within six hours. With an
  identical order placed elsewhere at Trading 212, two pending candidates are
  ambiguous and the pass goes on to the history, where the other order alone may
  be found if it settles between the two lists. An order by value matches any
  size; one told without its side is never matched.
* Alpaca's history has open orders as well, so an order off the page of 50 may be
  concluded filled in part while it is open.
* The approval text shows a time in force and extended hours that Trading 212
  is not sent, and reads `limitPrice`, `stopPrice` of Alpaca payloads that have
  `limit_price`, `stop_price` (`brokers/tools/output.py`, line 254).

Chat

* Actions prepared earlier in a turn stay pending unseen; compaction may drop an
  approval, or the person's own request; a message delivered again after a crash
  can have two approvals on show.
* All tools go to every planned action, so a read-only action of a parallel group
  can prepare an order; parallel groups run one action after another.
* A public reference from an earlier message may mean another order; on the direct
  path references are looked up in an empty map. With one open order a selector
  is not looked at.
* `broker_resolve_instrument` cuts the candidates off at the model's limit before
  it compares the first with the next, so a limit of 1 resolves any name
  (`docs/operations/DEV_GUIDELINES.md`, line 235); preparation uses 8.
* A holding of which nothing is free counts as wholly free
  (`_validate_sell_order_against_portfolio`).
* An explicit limit or stop price sizes an amount in another currency; a purchase
  at market is sized on the first quote found, which may be another instrument's.

Scheduler

* No shipped broker service takes the `notional_amount` that
  `TradeSetupMonitorAdapter` passes to `prepare_order`
  (`scheduler/trade_setup_monitor.py`, line 232; `brokers/trading212/service.py`,
  line 169; `alpaca/broker.py`, line 239), so each run allowed to propose is
  skipped with `broker_order_preparation_failed`. The tests use a fake that takes
  any argument. `Monitors` has the steps behind it as the protocol
  (`capabilities/protocols.py`, line 67) has them.
* The worker does not refresh its leases, so a late claim of a batch, or a run
  longer than the lease, can be executed twice (the notes, line 1295). With SQLite's
  default driver two workers, or two bots, that read a lock row as run out both claim
  it (`core.py`, lines 225 and 276), and both work on the process.
* The limit of a claim is applied before leased rows are dropped (`core.py`, line
  222), and that of a recovery too (line 342): as many long runs under a lease as the
  limit, and the stale ones behind them are not recovered.
* `maxRuns` is stored and never read; matches of runs still going on overshoot
  `maxMatches` (line 184 of the notes).
* `_next_recurring_after` compares two times of the same zone by the wall clock:
  in the hour that comes twice the next run may be in the past, and due at every
  pass until the clock has gone by; in the hour after the clocks go forward the
  slot of the day is skipped (the notes, line 272).
* The end of the day of a form without an expiry is 23:59:59 on the clock
  (`scheduler/management/utils.py`, line 200). Where the clocks go back at midnight
  (Santiago, Cairo, Beirut) that time comes twice and the first counts: a process
  filed in the hour that comes again has expired when it is made. Where they skip
  the last hour (Nuuk) it lasts an hour into the next day. The proof asks for
  `KeepsDate` because of these zones; none of them is in the run.
* A process paused during the run that matches is not completed by it, and offers
  again once resumed; a process that proposes and does not notify makes approvals
  nobody sees; a failed write leaves an orphan proposal or action.
* A capture that fails after its first write is a failed run with signals on record
  and unannounced. Two processes of overlapping scope can write the same signal.
* Empty answers of community and disclosure services count as evidence (the notes,
  line 1205), and a result with an error gives no caveat (line 1138).
* The tools accept dates in the past; `scheduler_create_process`, in no toolbox,
  takes any kind with any schedule.
* The notes (line 1009) archive a process for good; the service deletes archived
  processes with their runs.
* A restarted news monitor starts with no items seen and may notify one again
  (line 185); an item above the rate is put down as seen and never judged; a stream
  that ends without an error completes the process before its window is over.
* The news judge is offered the order specialist whatever
  `order_proposals_enabled` says; the switch reaches its prompt only
  (`agent/news_judge/agent.py`, line 237; the notes, line 549).

Signals

* An end with an offset is stored as its wall clock (`market_signals/service.py`,
  line 346), so it comes hours early or late.
* A search looks at the 250 newest rows and then at their topics, and returns 50 at
  most (`market_signals/service.py`, line 109), so a capture does not find an older
  signal and writes it again (the notes, line 1234). A candidate that has already
  expired is not compared.

Settings and start

* With a Trading 212 live account locked (`T212_LIVE_TRADING_ENABLED=false`) the
  assessment refuses execution and the order toolbox is left out, but
  `broker_execution_service` is set, so approved actions are executed
  (`app/runtime/__init__.py`, line 283;
  `docs/configuration/CLI_CONFIGURATION_WALKTHROUGH.md`, line 182).
* With no model selected, or one nobody knows, and a key still in the file, the
  client is built all the same; with OpenAI selected and `AZURE_OPENAI_ENABLED=true` it is Azure's.
  `Consistent` leaves these three out of `OffersWhatWasAssessed`.
* A key and its secret fall back independently, so a live key may go with an old
  secret; a prompt cannot clear a value; `.env` is not written atomically.
* Saving escapes `\` and `"` in a value it quotes, one with a space or a `#`
  (`cli/config_wizard.py`, line 1245), and reading takes the quotes off without undoing
  the escapes (`app/config.py`, line 83): such a secret changes at every save, with
  every section skipped. A value that was quoted within its quotes loses them, so
  that a switch that read as off reads as on.
* With no database the order toolbox is offered though its tools must fail; the
  company specialist is told it can search the web when there are market data only
  (`agent/tooling.py`, line 136).

Calculator

* A formula nested beyond Python's limit on recursion raises `RecursionError`, which
  is no result either; the model has no such limit. `-2^2` is 4; `0^-1` is "Infinity", and accepted as an amount, while `1/0` is an
  error; brackets of different kinds match; an unknown direction counts as LONG.

## 7. What is not modelled

The content of model answers, of evidence and of texts; HTTP, its retries and
rate limits; conversions of portfolios and fills; a value that is not a number
from a provider. Their effect on the components above is a free choice.

* *Chat history*: a bounded deque in memory and a journal that is only written;
  `ChatTurn` has the messages it yields as `ChatHistory`.
* *Workflows, data sources, capabilities, diagnostics*: they read, convert and
  print, and keep no state another part goes by. They are most of the code the
  map leaves out.
* *Broker tools*: those for placing and cancelling at once, in no toolbox; the
  direct path of the order specialist, taken when there is no planner, beyond its
  cancellation and sizing. One order of unknown type or status fails a whole
  Trading 212 listing.
* *Configuration*: sections nothing depends on (observability, scheduler
  defaults) and plain texts; the doctor's smoke tests.
* *Without a caller*: `mark_expired`, `mark_expired_stale`,
  `delete_archived_before`.
* *Adapters*: a price compared with a history that may have the current bar in it.
* *Agents*: the specialists that prepare nothing are one step of `ChatTurn` that
  comes back without an approval; the toolboxes for chat and research are told to
  no model.

## 8. Plan

Done: the approval path with store, queue, composition, refinement and proofs;
the scheduler with workers, adapters, management tools and proofs; news
monitors; a turn of the chat with the model's conversation; the tools of brokers,
guidelines, signals and calculator; settings, wizard, start and toolboxes; and a
proof of every invariant and action property.

1. The direct path of the order specialist in `ChatTurn`, its preparation failing
   between proposal and action.
2. A market data client with its cache and rate limits, if one of them comes to
   keep state.
