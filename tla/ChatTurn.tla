------------------------------- MODULE ChatTurn -------------------------------
(***************************************************************************)
(* A message of the person and what becomes of it: the Telegram bridge hands *)
(* it to the main agent (telegram/bridge.py, agent/orchestrator/main.py),    *)
(* which delegates to specialists in a conversation with the model, or, for  *)
(* what the classifier takes for an order, to the order agent at once. The   *)
(* order agent reasons, plans and executes the plan one action after         *)
(* another, each in a conversation of its own, in which the model may call   *)
(* the tools that prepare pending actions (agent/execution.py,               *)
(* agent/specialists/order/agent.py). One approval request at most comes     *)
(* back to the person. The bot works on one message at a time.               *)
(***************************************************************************)
EXTENDS ModelCall

CONSTANTS
    MaxMessage,     \* bound: messages the person sends, numbered in order
    Forced,         \* those that classify_message takes for an order
    Plans,          \* the plans that the model comes up with
    ChatHistory,    \* bound: messages of context before a request
    MaxActions,     \* bound: pending actions prepared
    MaxCrashes      \* bound: crashes of the bot

ASSUME ChatBounds ==
    /\ MaxMessage \in Nat /\ Forced \subseteq 1..MaxMessage
    /\ ChatHistory \in Nat /\ MaxActions \in Nat /\ MaxCrashes \in Nat

Main == "main"
Action == "action"
ASSUME Callers == Caller = {Main, Action}

VARIABLES
    updates,        \* messages Telegram has still to see handled
    turn,           \* the message in work
    task,           \* the order agent at work for it
    actions,        \* pending actions prepared: the delivery that did
    shown,          \* approval requests sent: the delivery and its action
    deliveries,     \* how often a message was taken up
    crashes         \* crashes so far

vars == <<conv, updates, turn, task, actions, shown, deliveries, crashes>>

-----------------------------------------------------------------------------
(* Definitions *)

NoAction == 0

\* A tool of the toolbox, as far as a plan's action names one.
Tool == {"none", "missing", "data", "broker_read", "broker_prepare"}
PlanAction == [mode : {"sequential", "parallel"}, tool : Tool,
               readOnly : BOOLEAN, synthesis : BOOLEAN]

\* _is_state_changing_broker_action
StateChanging(a) == ~a.readOnly \/ a.tool = "broker_prepare"

\* PlanActionGroup.validate_parallel_group
ValidPlan(p) == \A i \in DOMAIN p : p[i].mode = "parallel" => ~StateChanging(p[i])

ASSUME PlansArePlans == \A p \in Plans : p \in Seq(PlanAction)

\* _parallel_tool_calls_for: how many calls the model may make at a time.
Width(a) == IF a.tool = "none" THEN 0
            ELSE IF a.mode = "parallel" /\ a.readOnly /\ a.tool = "data"
                 THEN MaxWidth ELSE 1

\* _plan_has_final_synthesis
HasFinalSynthesis(p) ==
    p # <<>> /\ p[Len(p)].tool = "none" /\ p[Len(p)].synthesis

\* The last offer of a sequence, as the three loops over reversed lists find it.
IsLastOffer(s, o) ==
    \/ o = NoAction /\ \A i \in DOMAIN s : s[i] = NoAction
    \/ \E i \in DOMAIN s : /\ s[i] = o /\ o # NoAction
                           /\ \A j \in i + 1 .. Len(s) : s[j] = NoAction

\* _summarize_tool_messages: what the tool messages still there offer.
OffersIn(m) == [i \in DOMAIN m |-> m[i].offer]

\* pc: "idle", "main" (the model manages), "forced" (the order agent does),
\* "concluded" (it has), "reply", "attach" (the approval is sent, its message
\* id is to be kept), "error" (an exception is reported). runs: the
\* offer of each specialist run. lost: actions prepared whose approval has been
\* dropped on the way, by compaction or by an exception.
NoTurn == [pc |-> "idle", message |-> 0, runs |-> <<>>, offer |-> NoAction,
           lost |-> {}]

\* A faulty variant of TurnOver: the list of runs outlives the turn.
TurnOverWithRuns == [NoTurn EXCEPT !.runs = turn.runs]

\* Nothing of a turn is there in the next: the list of runs is made anew.
TurnOver == NoTurn

\* stage: "off", "reason", "plan", "act". done: actions executed. records: the
\* offer of each. since: actions there when the run began. before: when the
\* action in work began.
NoTask == [stage |-> "off", plan |-> <<>>, done |-> 0, records |-> <<>>,
           since |-> 0, before |-> 0]

PreparedBy(d) == {a \in DOMAIN actions : actions[a] = d}

ChatInit ==
    /\ conv = [c \in Caller |-> NoConversation]
    /\ updates = 1..MaxMessage
    /\ turn = NoTurn
    /\ task = NoTask
    /\ actions = <<>>
    /\ shown = {}
    /\ deliveries = 0
    /\ crashes = 0

store == <<actions, shown>>
queue == <<updates, deliveries, crashes>>

-----------------------------------------------------------------------------
(* The main agent *)

Reasoning == [NoTask EXCEPT !.stage = "reason", !.since = Len(actions)]

\* handle_update up to the main agent's handle. The main agent starts a
\* conversation, or delegates a forced order at once.
TakeMessage ==
    /\ turn.pc = "idle"
    /\ \E m \in updates :
          /\ \A n \in updates : m <= n
          /\ deliveries' = deliveries + 1
          /\ IF m \in Forced
             THEN /\ turn' = [turn EXCEPT !.pc = "forced", !.message = m]
                  /\ task' = Reasoning
                  /\ UNCHANGED conv
             ELSE /\ turn' = [turn EXCEPT !.pc = "main", !.message = m]
                  /\ SetConv(Main, Started(ChatHistory, 1))
                  /\ UNCHANGED task
    /\ UNCHANGED <<store, updates, crashes>>

\* /help and the commands about proposals are answered without an agent.
TakeCommand ==
    /\ turn.pc = "idle"
    /\ \E m \in updates :
          /\ \A n \in updates : m <= n
          /\ m \notin Forced
          /\ updates' = updates \ {m}
          /\ deliveries' = deliveries + 1
    /\ UNCHANGED <<conv, turn, task, store, crashes>>

\* _delegate to the order agent, which runs before the call is answered.
DelegateOrder ==
    /\ turn.pc = "main"
    /\ conv[Main].pc = "tools"
    /\ task.stage = "off"
    /\ task' = Reasoning
    /\ UNCHANGED <<conv, turn, store, queue>>

\* _delegate to any other specialist, whose run is listed if it returns, or a
\* delegation that is refused.
DelegateOther ==
    /\ turn.pc = "main"
    /\ conv[Main].pc = "tools"
    /\ task.stage = "off"
    /\ \E runs \in {turn.runs, Append(turn.runs, NoAction)} :
          turn' = [turn EXCEPT !.runs = runs]
    /\ SetConv(Main, ToolAnswered(conv[Main], NoAction))
    /\ UNCHANGED <<task, store, queue>>

\* The order agent's handle returns to _delegate, always: an exception becomes
\* an answer without an approval.
RunEnds(offer, dropped) ==
    /\ task' = NoTask
    /\ turn' = [turn EXCEPT !.runs = Append(@, offer), !.lost = @ \cup dropped,
                            !.pc = IF @ = "forced" THEN "concluded" ELSE @]
    /\ IF turn.pc = "main"
       THEN SetConv(Main, ToolAnswered(conv[Main], NoAction))
       ELSE UNCHANGED conv
    /\ UNCHANGED <<store, queue>>

\* _approval_payload and _build_response_package, or an exception on the way.
Conclude ==
    \/ /\ turn.pc = "concluded" \/ (turn.pc = "main" /\ conv[Main].pc = "answered")
       /\ \E o \in 0..Len(actions) :
             /\ IsLastOffer(turn.runs, o)
             /\ turn' = [turn EXCEPT !.pc = "reply", !.offer = o]
       /\ SetConv(Main, NoConversation)
       /\ UNCHANGED <<task, store, queue>>
    \/ /\ turn.pc = "main"
       /\ conv[Main].pc = "failed"
       /\ turn' = [turn EXCEPT !.pc = "error"]
       /\ SetConv(Main, NoConversation)
       /\ UNCHANGED <<task, store, queue>>

-----------------------------------------------------------------------------
(* The order agent *)

\* An exception anywhere in it drops the approvals of what was prepared.
TaskRaises == RunEnds(NoAction, task.since + 1 .. Len(actions))

\* reason: go on, or come back with a question.
Reason ==
    /\ task.stage = "reason"
    /\ \/ /\ task' = [task EXCEPT !.stage = "plan"]
          /\ UNCHANGED <<conv, turn, store, queue>>
       \/ RunEnds(NoAction, {})

Plan ==
    /\ task.stage = "plan"
    /\ \/ \E p \in Plans :
             /\ ValidPlan(p)
             /\ task' = [task EXCEPT !.stage = "act", !.plan = p]
             /\ UNCHANGED <<conv, turn, store, queue>>
       \/ TaskRaises

\* The result of one planned action is recorded.
Recorded(offer) ==
    task' = [task EXCEPT !.done = @ + 1, !.records = Append(@, offer)]

\* _execute_action: a tool that does not exist is an error and nothing more.
StartAction ==
    /\ task.stage = "act"
    /\ task.done < Len(task.plan)
    /\ conv[Action].pc = "idle"
    /\ LET a == task.plan[task.done + 1] IN
          IF a.tool = "missing"
          THEN Recorded(NoAction) /\ UNCHANGED conv
          ELSE /\ SetConv(Action, Started(ChatHistory, Width(a)))
               /\ task' = [task EXCEPT !.before = Len(actions)]
    /\ UNCHANGED <<turn, store, queue>>

\* A tool call of the model, to any tool of the toolbox, whichever the plan
\* names. Preparing creates the pending action and returns its approval.
BrokerTool ==
    /\ conv[Action].pc = "tools"
    /\ \/ /\ Len(actions) < MaxActions
          /\ actions' = Append(actions, deliveries)
          /\ SetConv(Action, ToolAnswered(conv[Action], Len(actions) + 1))
       \/ /\ SetConv(Action, ToolAnswered(conv[Action], NoAction))
          /\ UNCHANGED actions
    /\ UNCHANGED <<turn, task, shown, queue>>

\* A faulty variant of FinishAction: an exception is recorded without the tool
\* calls made before it.
FinishForgets ==
    /\ conv[Action].pc \in {"answered", "failed"}
    /\ LET offers == OffersIn(conv[Action].messages) IN
          /\ \E o \in 0..Len(actions) :
                /\ IF conv[Action].pc = "failed" THEN o = NoAction
                                                 ELSE IsLastOffer(offers, o)
                /\ Recorded(o)
          /\ turn' = [turn EXCEPT !.lost = @ \cup
                         {a \in task.before + 1 .. Len(actions) :
                             \A i \in DOMAIN offers : offers[i] # a}]
    /\ SetConv(Action, NoConversation)
    /\ UNCHANGED <<store, queue>>

\* The answer, or the exception, is recorded with what the messages still offer.
FinishAction ==
    /\ conv[Action].pc \in {"answered", "failed"}
    /\ LET offers == OffersIn(conv[Action].messages) IN
          /\ \E o \in 0..Len(actions) : IsLastOffer(offers, o) /\ Recorded(o)
          /\ turn' = [turn EXCEPT !.lost = @ \cup
                         {a \in task.before + 1 .. Len(actions) :
                             \A i \in DOMAIN offers : offers[i] # a}]
    /\ SetConv(Action, NoConversation)
    /\ UNCHANGED <<store, queue>>

\* The plan is done: its last action was the synthesis, or one more request is.
Synthesise ==
    /\ task.stage = "act"
    /\ task.done = Len(task.plan)
    /\ \/ \E o \in 0..Len(actions) : IsLastOffer(task.records, o) /\ RunEnds(o, {})
       \/ ~HasFinalSynthesis(task.plan) /\ TaskRaises

-----------------------------------------------------------------------------
(* The bridge, once the main agent has returned *)

Handled == updates' = updates \ {turn.message}

SendApproval ==
    /\ turn.pc = "reply"
    /\ turn.offer # NoAction
    /\ shown' = shown \cup {[delivery |-> deliveries, action |-> turn.offer]}
    /\ turn' = [turn EXCEPT !.pc = "attach"]
    /\ UNCHANGED <<conv, task, actions, queue>>

\* attach_approval_message_id, whether it raises or not: what it does to the
\* row is AttachMessage of PendingActions.
Attach ==
    /\ turn.pc = "attach"
    /\ turn' = TurnOver
    /\ Handled
    /\ UNCHANGED <<conv, task, store, deliveries, crashes>>

\* The answer or the error is sent; or sending, of an approval too, fails.
SendAnswer ==
    /\ turn.pc \in {"reply", "error"}
    /\ turn' = TurnOver
    /\ Handled
    /\ UNCHANGED <<conv, task, store, deliveries, crashes>>

\* The bot is killed. The update in work comes again if Telegram has not been
\* told that it was received.
Crash ==
    /\ crashes < MaxCrashes
    /\ turn.pc # "idle"
    /\ crashes' = crashes + 1
    /\ conv' = [c \in Caller |-> NoConversation]
    /\ turn' = NoTurn
    /\ task' = NoTask
    /\ updates' \in {updates, updates \ {turn.message}}
    /\ UNCHANGED <<store, deliveries>>

ModelStep ==
    /\ \E c \in Caller : ConvStep(c)
    /\ UNCHANGED <<turn, task, store, queue>>

Work ==
    \/ TakeMessage \/ TakeCommand \/ DelegateOrder \/ DelegateOther \/ Conclude
    \/ Reason \/ Plan \/ StartAction \/ BrokerTool \/ FinishAction \/ Synthesise
    \/ SendApproval \/ Attach \/ SendAnswer \/ ModelStep

ChatNext == Work \/ Crash

\* Every request comes back, with an answer, an error or a timeout.
ChatSpec == ChatInit /\ [][ChatNext]_vars /\ WF_vars(Work)

-----------------------------------------------------------------------------
(* Properties *)

\* Whatever compaction, retries and a budget overrun in the middle of a round
\* do to a conversation, the provider never gets a tool message without its
\* call or a call without its answer (context.py: _recent_start and the skip
\* in truncate_messages; _append_tool_budget_exceeded_messages).
RequestsArePaired ==
    \A c \in Caller : conv[c].pc = "asked" => Paired(conv[c].sent)

\* The person is asked to approve only what the bot prepared while it worked on
\* that very delivery of a message, and never two things for one delivery.
OffersAreOwn ==
    \A s \in shown :
        /\ s.action \in PreparedBy(s.delivery)
        /\ \A t \in shown : t.delivery = s.delivery => t = s

\* Of all that the runs of a turn prepared, the approval in the reply is for
\* the action prepared last, those apart whose approval was dropped by an
\* exception or a compaction; without any there is no approval.
LastPreparedIsOffered ==
    turn.pc \in {"reply", "attach"} =>
        LET kept == PreparedBy(deliveries) \ turn.lost IN
        IF kept = {} THEN turn.offer = NoAction
        ELSE turn.offer \in kept /\ \A a \in kept : a <= turn.offer

\* No message keeps the bot for ever: the tool rounds, the retries and the plan
\* all end, and the messages behind it get their turn.
MessagesAreHandled ==
    \A m \in 1..MaxMessage : m \in updates ~> m \notin updates

=============================================================================
