---------------------------- MODULE TradeApproval ----------------------------
(***************************************************************************)
(* The whole path of a trade: the order agent or the scheduler prepares a    *)
(* proposal and a pending action and sends an approval message, a person     *)
(* presses its buttons, the Telegram bridge resolves the action against the  *)
(* broker and journals the proposal (telegram/bridge.py,                     *)
(* proposals/service.py), and reconciliation follows the order               *)
(* (reconciliation/service.py).                                              *)
(*                                                                           *)
(* It extends PendingActions: each step is a step of that store together     *)
(* with what the caller does around it, or leaves the store alone. The       *)
(* proposal tables are in the same database but every call to them is a      *)
(* transaction of its own, so each is a step and a crash may come between.   *)
(***************************************************************************)
EXTENDS PendingActions, Reconciliation, Sequences

CONSTANTS
    Submits,        \* the actions that submit an order; the others cancel one
    Shape,          \* [Action -> ...]: the metadata orders are matched by
    User,           \* the people pressing buttons
    Owner,          \* the one the actions belong to
    Finals,         \* the final statuses the broker gives
    HistoryLimit,   \* length of the page of historical orders
    MaxTaps,        \* bound: buttons pressed
    MaxStops        \* bound: reconciliation processes stopped

ASSUME SubmitsAreActions == Submits \subseteq Action
ASSUME OwnerIsAUser == Owner \in User
ASSUME FinalsAreStatuses == Finals \subseteq FinalStatus
ASSUME ApprovalBounds ==
    HistoryLimit \in Nat /\ MaxTaps \in Nat /\ MaxStops \in Nat

VARIABLES
    prep,       \* how far the preparation of each action is
    target,     \* target_order_ref of a cancellation
    ref,        \* the order id in broker_result of a submission
    orders,     \* the broker's orders, in the order it took them
    history,    \* the broker's orders no longer pending, oldest first
    buttons,    \* whether the approval message still shows its buttons
    updates,    \* button presses Telegram has still to see handled
    taps,       \* number of presses so far
    step,       \* where the bridge is in finalizing a decision
    seen,       \* the approval message id in the bridge's copy of the row
    proposal,   \* status of each submission's proposal
    linked,     \* whether the proposal names its pending action
    events,     \* decisions in approval_events
    attempt,    \* status of the latest execution attempt
    pass,       \* per reconciler: the pass it is in
    stops       \* reconciliation processes stopped so far

callers == <<prep, buttons, updates, taps, step, seen>>
broker == <<target, ref, orders, history>>
journal == <<proposal, linked, events, attempt>>
recon == <<pass, stops>>
allVars == <<vars, callers, broker, journal, recon>>

-----------------------------------------------------------------------------
(* Definitions *)

Order == 1..Len(orders)
OrdersOf(a) == {o \in Order : orders[o].action = a}
StatusOf == [o \in Order |-> orders[o].status]
PendingOrders == {o \in Order : orders[o].status = "pending"}
Alike(a) == {o \in Order : Shape[orders[o].action] = Shape[a]}

Newest(S) == CHOOSE o \in S : \A p \in S : p <= o

\* The page list_historical_orders(limit) returns.
HistoryPage ==
    {history[i] : i \in {j \in DOMAIN history : j + HistoryLimit > Len(history)}}

PrepState == {"none", "proposed", "created", "linked", "sent", "done", "stopped"}
ProposalStatus == {"absent", "created", "awaiting_approval", "rejected",
                   "submitted", "reconciled", "cancelled", "execution_failed"}
AttemptStatus == {"none", "submitted", "pending", "filled", "partially_filled",
                  "cancelled", "rejected", "failed"}

NoPass == [phase |-> "idle", pending |-> {}, history |-> {},
           action |-> NoAction, outcome |-> NoAction]
-----------------------------------------------------------------------------
(* Initial state *)

ApprovalInit ==
    /\ Init
    /\ prep = [a \in Action |-> "none"]
    /\ target = [a \in Action |-> NoOrder]
    /\ ref = [a \in Action |-> NoOrder]
    /\ orders = <<>>
    /\ history = <<>>
    /\ buttons = [a \in Action |-> FALSE]
    /\ updates = <<>>
    /\ taps = 0
    /\ step = "event"
    /\ seen = FALSE
    /\ proposal = [a \in Action |-> "absent"]
    /\ linked = [a \in Action |-> FALSE]
    /\ events = [a \in Action |-> {}]
    /\ attempt = [a \in Action |-> "none"]
    /\ pass = [r \in Reconciler |-> NoPass]
    /\ stops = 0

-----------------------------------------------------------------------------
(* Preparing an action: the scheduler's thread, or the order agent in the   *)
(* bot's own. Each step is a transaction or a message of its own.           *)

\* create_submit_order_proposal
Propose(a) ==
    /\ a \in Submits
    /\ prep[a] = "none"
    /\ prep' = [prep EXCEPT ![a] = "proposed"]
    /\ proposal' = [proposal EXCEPT ![a] = "created"]
    /\ UNCHANGED <<vars, broker, recon, buttons, updates, taps, step, seen,
                   linked, events, attempt>>

PrepareSubmit(a) ==
    /\ prep[a] = "proposed"
    /\ Create(a)
    /\ prep' = [prep EXCEPT ![a] = "created"]
    /\ UNCHANGED <<broker, journal, recon, buttons, updates, taps, step, seen>>

\* broker_prepare_order_action refuses the order, so no action is created.
PreparationFails(a) ==
    /\ prep[a] = "proposed"
    /\ prep' = [prep EXCEPT ![a] = "stopped"]
    /\ UNCHANGED <<vars, broker, journal, recon, buttons, updates, taps, step,
                   seen>>

\* A cancellation has no proposal. Its target is an order pending when it is
\* prepared.
PrepareCancel(a, o) ==
    /\ a \notin Submits
    /\ prep[a] = "none"
    /\ o \in PendingOrders
    /\ Create(a)
    /\ target' = [target EXCEPT ![a] = o]
    /\ prep' = [prep EXCEPT ![a] = "linked"]
    /\ UNCHANGED <<journal, recon, ref, orders, history, buttons, updates, taps,
                   step, seen>>

\* attach_pending_action
LinkProposal(a) ==
    /\ prep[a] = "created"
    /\ prep' = [prep EXCEPT ![a] = "linked"]
    /\ linked' = [linked EXCEPT ![a] = TRUE]
    /\ proposal' = [proposal EXCEPT ![a] = "awaiting_approval"]
    /\ UNCHANGED <<vars, broker, recon, buttons, updates, taps, step, seen,
                   events, attempt>>

\* A faulty variant of SendApproval: sent before the proposal is linked.
SendEarly(a) ==
    /\ prep[a] \in {"created", "linked"}
    /\ prep' = [prep EXCEPT ![a] = "sent"]
    /\ buttons' = [buttons EXCEPT ![a] = TRUE]
    /\ UNCHANGED <<vars, broker, journal, recon, updates, taps, step, seen>>

SendApproval(a) ==
    /\ prep[a] = "linked"
    /\ prep' = [prep EXCEPT ![a] = "sent"]
    /\ buttons' = [buttons EXCEPT ![a] = TRUE]
    /\ UNCHANGED <<vars, broker, journal, recon, updates, taps, step, seen>>

\* The message may be pressed before its id is attached to the row.
AttachSent(a) ==
    /\ prep[a] = "sent"
    /\ AttachMessage(a)
    /\ prep' = [prep EXCEPT ![a] = "done"]
    /\ UNCHANGED <<broker, journal, recon, buttons, updates, taps, step, seen>>

\* The message came back without an id: get_action reads the row instead.
SentWithoutId(a) ==
    /\ prep[a] = "sent"
    /\ bot.pc = "idle"
    /\ \/ Get(a)
       \/ ~IsDue(a) /\ UNCHANGED vars
    /\ prep' = [prep EXCEPT ![a] = "done"]
    /\ UNCHANGED <<broker, journal, recon, buttons, updates, taps, step, seen>>

-----------------------------------------------------------------------------
(* The person, and the bridge's handler of a button press *)

Verb == {"approve", "reject"}

Tap(a, v, u) ==
    /\ buttons[a]
    /\ taps < MaxTaps
    /\ taps' = taps + 1
    /\ updates' = Append(updates, [verb |-> v, action |-> a, user |-> u])
    /\ UNCHANGED <<vars, broker, journal, recon, prep, buttons, step, seen>>

\* A faulty variant of Authorized: whoever presses is served.
AnyoneAuthorized(u) == TRUE

\* _authorization_error
Authorized(u) == u.user = Owner

\* handle_update, as far as the first transaction of the service call. The row
\* the bridge gets back is the one read here, its message id included.
HandleTap ==
    /\ updates # <<>>
    /\ LET u == Head(updates) IN
         /\ Authorized(u)
         /\ \/ u.verb = "approve" /\ Approve(u.action)
            \/ u.verb = "reject" /\ RejectAny(u.action)
         /\ seen' = row[u.action].message
    /\ step' = "event"
    /\ UNCHANGED <<broker, journal, recon, prep, buttons, updates, taps>>

\* Not the owner's press: answered, and nothing is read or written.
HandleStranger ==
    /\ bot.pc = "idle"
    /\ updates # <<>>
    /\ ~Authorized(Head(updates))
    /\ updates' = Tail(updates)
    /\ UNCHANGED <<vars, broker, journal, recon, prep, buttons, taps, step, seen>>

\* The broker takes a submission as a new order, a cancellation only for an
\* order it still has pending: it may cancel it at once or later.
PlaceOrCancel ==
    LET a == bot.action IN
    \/ /\ a \in Submits
       /\ orders' = Append(orders, [action |-> a, status |-> "pending"])
       /\ UNCHANGED history
    \/ /\ a \notin Submits
       /\ target[a] \in PendingOrders
       /\ \/ UNCHANGED <<orders, history>>
          \/ /\ orders' = [orders EXCEPT ![target[a]].status = "cancelled"]
             /\ history' = Append(history, target[a])

CallReaches ==
    /\ BrokerAccepts \/ BrokerAnswerLost
    /\ PlaceOrCancel
    /\ UNCHANGED <<callers, journal, recon, target, ref>>

CallRefused ==
    /\ BrokerRefuses
    /\ UNCHANGED <<callers, broker, journal, recon>>

\* The order id of the answer is kept in broker_result.
KeepAnswer ==
    /\ CommitSubmitted
    /\ ref' = IF bot.action \in Submits
              THEN [ref EXCEPT ![bot.action] = Newest(OrdersOf(bot.action))] ELSE ref
    /\ UNCHANGED <<callers, journal, recon, target, orders, history>>

KeepFailure ==
    /\ CommitFailed
    /\ UNCHANGED <<callers, broker, journal, recon>>
-----------------------------------------------------------------------------
(* _finalize_pending_action: journaling the decision, then the message *)

\* The decisions _journal_proposal_outcome records, for an action a proposal
\* names.
Journals ==
    bot.result \in {"submitted", "rejected", "failed"} /\ linked[bot.action]

RecordEvent ==
    /\ bot.pc = "reply"
    /\ step = "event"
    /\ IF Journals
       THEN /\ events' = [events EXCEPT ![bot.action] = @ \cup
                  {IF bot.result = "rejected" THEN "reject" ELSE "approve"}]
            /\ step' = IF bot.result = "rejected" THEN "mark" ELSE "attempt"
       ELSE /\ UNCHANGED events
            /\ step' = "edit"
    /\ UNCHANGED <<vars, broker, recon, prep, buttons, updates, taps, seen,
                   proposal, linked, attempt>>

\* record_execution_attempt: always a new attempt, hence the latest.
RecordAttempt ==
    /\ step = "attempt"
    /\ attempt' = [attempt EXCEPT ![bot.action] = bot.result]
    /\ step' = "mark"
    /\ UNCHANGED <<vars, broker, recon, prep, buttons, updates, taps, seen,
                   proposal, linked, events>>

\* mark_submitted, mark_rejected or mark_execution_failed, whatever the
\* proposal's status has become since.
MarkProposal ==
    /\ step = "mark"
    /\ proposal' = [proposal EXCEPT ![bot.action] =
                       IF bot.result = "failed" THEN "execution_failed"
                       ELSE bot.result]
    /\ step' = "edit"
    /\ UNCHANGED <<vars, broker, recon, prep, buttons, updates, taps, seen,
                   linked, events, attempt>>

\* A faulty variant of FinishUpdate: a decision waits for its message's edit.
FinishNeedsEdit ==
    /\ step = "edit"
    /\ seen
    /\ Reply
    /\ buttons' = [buttons EXCEPT ![bot.action] = FALSE]
    /\ updates' = Tail(updates)
    /\ step' = "event"
    /\ UNCHANGED <<broker, journal, recon, prep, taps, seen>>

\* Editing the message removes its buttons, if its id was known and the edit
\* does not fail. The update is done with.
FinishUpdate ==
    /\ step = "edit"
    /\ Reply
    /\ \/ UNCHANGED buttons
       \/ seen /\ buttons' = [buttons EXCEPT ![bot.action] = FALSE]
    /\ updates' = Tail(updates)
    /\ step' = "event"
    /\ UNCHANGED <<broker, journal, recon, prep, taps, seen>>

\* What the bot was doing ends where it is.
Interrupted ==
    /\ RollBack
    /\ step' = "event"
    /\ UNCHANGED <<broker, journal, recon, buttons, taps, seen>>

\* The process dies with all its threads. Telegram may or may not have the
\* update in work confirmed: it is lost, or delivered once more.
ProcessCrash ==
    /\ Interrupted
    /\ prep' = [a \in Action |-> IF prep[a] \in {"none", "done"} THEN prep[a]
                                 ELSE IF prep[a] = "sent" THEN "done" ELSE "stopped"]
    /\ \/ UNCHANGED updates
       \/ bot.pc # "idle" /\ updates' = Tail(updates)

\* The database refuses the decision's transaction, the first to last of it, or
\* one of the journal's. No handler is around the resolution of a press: the
\* exception ends the update, and the bot takes the next one.
TransactionRefused ==
    /\ updates # <<>>
    /\ Authorized(Head(updates))
    /\ bot.pc # "calling" /\ step # "edit"
    /\ Interrupted
    /\ updates' = Tail(updates)
    /\ UNCHANGED prep

\* A faulty variant of TransactionRefused: the update is not taken off.
RefusedAgain ==
    /\ updates # <<>>
    /\ Authorized(Head(updates))
    /\ bot.pc # "calling" /\ step # "edit"
    /\ Interrupted
    /\ UNCHANGED <<updates, prep>>

-----------------------------------------------------------------------------
(* The broker *)

OrderSettles(o, s) ==
    /\ o \in PendingOrders
    /\ orders' = [orders EXCEPT ![o].status = s]
    /\ history' = Append(history, o)
    /\ UNCHANGED <<vars, callers, journal, recon, target, ref>>

-----------------------------------------------------------------------------
(* A reconciliation pass *)

ListActions(r) ==
    /\ pass[r].phase = "idle"
    /\ ListSubmitted(r, {a \in Action : row[a].state = "submitted"})
    /\ pass' = [pass EXCEPT ![r].phase = "listed"]
    /\ UNCHANGED <<callers, broker, journal, stops>>

FetchPending(r) ==
    /\ pass[r].phase = "listed"
    /\ pass' = [pass EXCEPT ![r].phase = "pending", ![r].pending = PendingOrders]
    /\ UNCHANGED <<vars, callers, broker, journal, stops>>

FetchHistory(r) ==
    /\ pass[r].phase = "pending"
    /\ pass' = [pass EXCEPT ![r].phase = "apply", ![r].history = HistoryPage]
    /\ UNCHANGED <<vars, callers, broker, journal, stops>>

\* _resolve_action
Resolve(r, a) ==
    IF a \in Submits
    THEN ResolveSubmit(ref[a], pass[r].pending, pass[r].history, Alike(a), StatusOf)
    ELSE ResolveCancel(target[a], pass[r].pending, pass[r].history, StatusOf)

\* One action of the batch. The proposal is synchronised afterwards, unless the
\* action is a cancellation, has no proposal, or was not resolved.
ApplyResolution(r, a) ==
    /\ pass[r].phase = "apply"
    /\ LET resolution == Resolve(r, a)
           syncs == a \in Submits /\ linked[a] /\ resolution.outcome # "unresolved"
       IN  /\ ApplyReconciliation(r, a, resolution.state)
           /\ pass' = [pass EXCEPT
                         ![r].phase = IF syncs THEN "sync" ELSE "apply",
                         ![r].action = IF syncs THEN a ELSE NoAction,
                         ![r].outcome = IF syncs THEN resolution.outcome
                                                 ELSE NoAction]
    /\ UNCHANGED <<callers, broker, journal, stops>>

\* sync_execution_attempt: the latest attempt is overwritten, or created.
SyncAttempt(r) ==
    /\ pass[r].phase = "sync"
    /\ attempt' = [attempt EXCEPT ![pass[r].action] = AttemptFor(pass[r].outcome)]
    /\ pass' = [pass EXCEPT ![r].phase = "mark"]
    /\ UNCHANGED <<vars, callers, broker, stops, proposal, linked, events>>

SyncProposal(r) ==
    /\ pass[r].phase = "mark"
    /\ proposal' = [proposal EXCEPT ![pass[r].action] = ProposalFor(pass[r].outcome)]
    /\ pass' = [pass EXCEPT ![r].phase = "apply", ![r].action = NoAction,
                            ![r].outcome = NoAction]
    /\ UNCHANGED <<vars, callers, broker, stops, linked, events, attempt>>

PassEnds(r) ==
    /\ pass[r].phase = "apply"
    /\ listed[r] = {}
    /\ pass' = [pass EXCEPT ![r] = NoPass]
    /\ UNCHANGED <<vars, callers, broker, journal, stops>>

\* An exception, from the broker's listings or the database, ends the process:
\* run_reconcile_worker has no handler. It may be started again.
PassAborts(r) ==
    /\ pass[r].phase # "idle"
    /\ stops < MaxStops
    /\ ReconcilerStops(r) \/ (listed[r] = {} /\ UNCHANGED vars)
    /\ pass' = [pass EXCEPT ![r] = NoPass]
    /\ stops' = stops + 1
    /\ UNCHANGED <<callers, broker, journal>>

-----------------------------------------------------------------------------
(* Specification *)

Prepare ==
    \E a \in Action :
        \/ Propose(a) \/ PrepareSubmit(a) \/ PreparationFails(a)
        \/ \E o \in Order : PrepareCancel(a, o)
        \/ LinkProposal(a) \/ SendApproval(a) \/ AttachSent(a) \/ SentWithoutId(a)

Bot ==
    \/ HandleTap \/ HandleStranger
    \/ CallReaches \/ CallRefused \/ KeepAnswer \/ KeepFailure
    \/ RecordEvent \/ RecordAttempt \/ MarkProposal \/ FinishUpdate

Pass(r) ==
    \/ ListActions(r) \/ FetchPending(r) \/ FetchHistory(r)
    \/ \E a \in Action : ApplyResolution(r, a)
    \/ SyncAttempt(r) \/ SyncProposal(r) \/ PassEnds(r)

Person == \E a \in Action, v \in Verb, u \in User : Tap(a, v, u)

Settle == \E o \in Order, s \in Finals : OrderSettles(o, s)

Time == Tick /\ UNCHANGED <<callers, broker, journal, recon>>

ApprovalNext ==
    \/ Prepare
    \/ Person
    \/ Bot
    \/ ProcessCrash \/ TransactionRefused
    \/ Settle
    \/ \E r \in Reconciler : Pass(r) \/ PassAborts(r)
    \/ Time

\* The bot's event loop works its updates off, and a reconciliation process
\* that is running goes on with its pass. Nobody has to press a button, and the
\* broker has to settle nothing.
Fairness == WF_allVars(Bot) /\ \A r \in Reconciler : WF_allVars(Pass(r))

ApprovalSpec == ApprovalInit /\ [][ApprovalNext]_allVars
FairApprovalSpec == ApprovalSpec /\ Fairness

-----------------------------------------------------------------------------
(* Properties *)

\* What reconciliation concludes of an action is what became of an order of its
\* own, although it looks at two snapshots taken at different times and at a page
\* that other orders, or a second attempt of the same action, crowd orders out of.
Became(a, finals) == \E o \in OrdersOf(a) : orders[o].status \in finals
ConclusionIsTrue ==
    \A a \in Action :
        /\ a \in Submits /\ row[a].state = "reconciled"
              => Became(a, {"filled", "partially_filled"})
        /\ a \in Submits /\ row[a].state = "cancelled"
              => Became(a, {"cancelled"})
        /\ a \notin Submits /\ row[a].state = "reconciled"
              => orders[target[a]].status = "cancelled"

\* An order exists only if its owner pressed approve on that very action: no
\* stranger's press, and no other action's, leads to one.
OwnerPlacesOrders ==
    [][Len(orders') > Len(orders) =>
          /\ updates # <<>>
          /\ Head(updates) = [verb |-> "approve",
                              action |-> orders'[Len(orders')].action,
                              user |-> Owner]]_allVars

\* The actions with an order at the broker and no approval event.
Untraced ==
    {a \in Action : "approve" \notin events[a] /\ \E o \in Order : orders[o].action = a}

\* AGENT_DESIGN.md, line 8: every trade is traceable to an approval event. While
\* the bot works on nothing, no more actions have an order without one than the
\* bot has crashed or had a transaction refused: each of these costs one trace at
\* most, and an order escapes the journal in no other way.
OrdersAreTraced == bot.pc = "idle" => Cardinality(Untraced) <= failures

\* AGENT_DESIGN.md, lines 12 and 375: an uncertain attempt is not repeated, so
\* no action has two orders at the broker that may both be filled.
NoDuplicateOrder ==
    \A o, p \in Order :
        /\ orders[o].action = orders[p].action
        /\ {orders[o].status, orders[p].status}
              \subseteq {"pending", "filled", "partially_filled"}
        => o = p

\* README.md, line 25: reconciliation keeps proposals in line with the broker.
\* With nothing in work, the proposal of a reconciled action is reconciled.
ProposalFollows ==
    bot.pc = "idle" /\ (\A r \in Reconciler : pass[r].phase = "idle") =>
        \A a \in Submits :
            row[a].state = "reconciled" /\ linked[a] => proposal[a] = "reconciled"

\* Every press of a button is handled in the end, crashes included.
PressesAreHandled == updates # <<>> ~> updates = <<>>

\* A submitted action whose order reached a final status is closed in the end.
SubmittedSettles ==
    \A a \in Submits :
        (row[a].state = "submitted" /\ orders[ref[a]].status \in FinalStatus)
            ~> row[a].state # "submitted"

=============================================================================
