---------------------------- MODULE PendingActions ----------------------------
(***************************************************************************)
(* The pending-action store (t212ai/pending_actions/service.py): the rows   *)
(* that hold a prepared order or cancellation until a person approves it,   *)
(* the one bot process that resolves approval buttons, and the              *)
(* reconciliation processes that close submitted rows.                      *)
(*                                                                          *)
(* A database transaction with no network call inside is one step.          *)
(* approve_and_execute is the exception: it reads the row, calls the broker *)
(* and writes the row back inside one open session, so it is four kinds of  *)
(* step with a crash possible between any two of them, and its commit may be *)
(* refused.                                                                  *)
(***************************************************************************)
EXTENDS Naturals, FiniteSets

CONSTANTS
    Action,         \* ids of the pending actions a run may create
    Reconciler,     \* the reconciliation processes
    TTL,            \* [Action -> Nat]: approval_ttl_minutes of each action
    Unconfigured,   \* the actions whose broker provider may have no service
    MaxTime,        \* bound: last value of the clock
    MaxCalls,       \* bound: broker calls made for one action
    MaxFailures     \* bound: crashes of the bot, transactions refused to it

ASSUME ActionIsFinite == IsFiniteSet(Action)
ASSUME TTLIsPositive == TTL \in [Action -> Nat \ {0}]
ASSUME UnconfiguredAreActions == Unconfigured \subseteq Action
ASSUME BoundsAreNaturals ==
    MaxTime \in Nat /\ MaxCalls \in Nat /\ MaxFailures \in Nat

VARIABLES
    row,        \* the committed rows of pending_actions
    now,        \* the wall clock, in minutes
    bot,        \* the handler of the update the bot process is working on
    listed,     \* per reconciler: the actions it listed and has still to apply
    calls,      \* history: broker calls that reached the broker, per action
    reopened,   \* history: events that let a further call happen, per action
    failures,   \* crashes of the bot, and transactions refused to it, so far
    contested   \* history: the actions one reconciler wrote while another had
                \* them in its list

vars == <<row, now, bot, listed, calls, reopened, failures, contested>>

-----------------------------------------------------------------------------
(* Definitions *)

\* PendingActionState, with "absent" for a row not yet created. "prepared" is
\* never assigned, and "approved" is only held inside an uncommitted session.
State == {"absent", "awaiting_approval", "submitted", "rejected", "expired",
          "failed", "cancelled", "reconciled"}

\* What apply_reconciliation is asked to write.
Resolved == {"submitted", "reconciled", "cancelled", "failed"}

Row == [state : State, expires : Nat, message : BOOLEAN]

\* PendingActionDecisionStatus, as far as the bridge tells results apart.
Decision == {"submitted", "rejected", "failed", "expired", "already_finalized"}

NoAction == "none"
Idle == [pc |-> "idle", action |-> NoAction, result |-> NoAction]

Answer(a, d) == [pc |-> "reply", action |-> a, result |-> d]

Exists(a) == row[a].state # "absent"

\* A faulty variant of IsDue: the deadline alone, whatever the row's state.
DueByTime(a) == Exists(a) /\ row[a].expires <= now

\* _expire_row_if_needed: the test it makes on the row.
IsDue(a) == row[a].state = "awaiting_approval" /\ row[a].expires <= now

-----------------------------------------------------------------------------
(* Creating and reading rows *)

Init ==
    /\ row = [a \in Action |-> [state |-> "absent", expires |-> 0, message |-> FALSE]]
    /\ now = 0
    /\ bot = Idle
    /\ listed = [r \in Reconciler |-> {}]
    /\ calls = [a \in Action |-> 0]
    /\ reopened = [a \in Action |-> 0]
    /\ failures = 0
    /\ contested = {}

\* create_submit_action and create_cancel_action, with expires_at from
\* approval_expiry. The caller is the order agent or the scheduler's thread.
Create(a) ==
    /\ ~Exists(a)
    /\ row' = [row EXCEPT ![a] = [state |-> "awaiting_approval",
                                  expires |-> now + TTL[a],
                                  message |-> FALSE]]
    /\ UNCHANGED <<now, bot, listed, calls, reopened, failures, contested>>

\* attach_approval_message_id, once the approval message has an id. It writes
\* that one column: the state column of a session open elsewhere survives.
AttachMessage(a) ==
    /\ Exists(a)
    /\ row' = [row EXCEPT ![a].message = TRUE]
    /\ UNCHANGED <<now, bot, listed, calls, reopened, failures, contested>>

\* get_action: reached when the message came back without an id, so from the
\* bot's own thread. It expires the row it reads.
Get(a) ==
    /\ bot.pc = "idle"
    /\ IsDue(a)
    /\ row' = [row EXCEPT ![a].state = "expired"]
    /\ UNCHANGED <<now, bot, listed, calls, reopened, failures, contested>>

-----------------------------------------------------------------------------
(* approve_and_execute *)

\* A faulty variant of the next definition: a closed state forgotten.
SubmittedForgotten(a) == row[a].state \in {"rejected", "expired"}

\* The states approve_and_execute answers without a broker call.
ApproveIsClosed(a) == row[a].state \in {"submitted", "rejected", "expired"}

\* The row is due: the approval comes too late and expires it.
ApproveExpires(a) ==
    /\ bot.pc = "idle"
    /\ IsDue(a)
    /\ row' = [row EXCEPT ![a].state = "expired"]
    /\ bot' = Answer(a, "expired")
    /\ UNCHANGED <<now, listed, calls, reopened, failures, contested>>

ApproveAlreadyClosed(a) ==
    /\ bot.pc = "idle"
    /\ Exists(a)
    /\ ApproveIsClosed(a)
    /\ bot' = Answer(a, IF row[a].state = "expired" THEN "expired"
                        ELSE "already_finalized")
    /\ UNCHANGED <<row, now, listed, calls, reopened, failures, contested>>

\* The bot of the moment has no service for the provider (its configuration may
\* have changed since).
ApproveWithoutBroker(a) ==
    /\ bot.pc = "idle"
    /\ Exists(a)
    /\ ~IsDue(a)
    /\ ~ApproveIsClosed(a)
    /\ a \in Unconfigured
    /\ row' = [row EXCEPT ![a].state = "failed"]
    /\ bot' = Answer(a, "failed")
    /\ UNCHANGED <<now, listed, calls, reopened, failures, contested>>

\* A faulty variant of ApproveOpens: only the lazy expiry is checked.
OpensUnguarded(a) ==
    /\ bot.pc = "idle"
    /\ Exists(a)
    /\ ~IsDue(a)
    /\ calls[a] < MaxCalls
    /\ bot' = [Idle EXCEPT !.pc = "calling", !.action = a]
    /\ UNCHANGED <<row, now, listed, calls, reopened, failures, contested>>

\* Every other state goes on to the broker: a waiting row, and also one that
\* failed or that reconciliation closed. The row is approved in the open
\* session only.
ApproveOpens(a) ==
    /\ bot.pc = "idle"
    /\ Exists(a)
    /\ ~IsDue(a)
    /\ ~ApproveIsClosed(a)
    /\ calls[a] < MaxCalls
    /\ bot' = [Idle EXCEPT !.pc = "calling", !.action = a]
    /\ UNCHANGED <<row, now, listed, calls, reopened, failures, contested>>

\* _execute_row: the broker takes the call and its answer arrives.
BrokerAccepts ==
    /\ bot.pc = "calling"
    /\ bot' = [bot EXCEPT !.pc = "answered"]
    /\ calls' = [calls EXCEPT ![bot.action] = @ + 1]
    /\ UNCHANGED <<row, now, listed, reopened, failures, contested>>

\* The broker takes the call and its answer is lost: an exception here.
BrokerAnswerLost ==
    /\ bot.pc = "calling"
    /\ bot' = [bot EXCEPT !.pc = "lost"]
    /\ calls' = [calls EXCEPT ![bot.action] = @ + 1]
    /\ UNCHANGED <<row, now, listed, reopened, failures, contested>>

\* The broker refuses the call, or it never leaves: the same exception.
BrokerRefuses ==
    /\ bot.pc = "calling"
    /\ bot' = [bot EXCEPT !.pc = "refused"]
    /\ UNCHANGED <<row, now, listed, calls, reopened, failures, contested>>

CommitSubmitted ==
    /\ bot.pc = "answered"
    /\ row' = [row EXCEPT ![bot.action].state = "submitted"]
    /\ bot' = Answer(bot.action, "submitted")
    /\ UNCHANGED <<now, listed, calls, reopened, failures, contested>>

CommitFailed ==
    /\ bot.pc \in {"lost", "refused"}
    /\ row' = [row EXCEPT ![bot.action].state = "failed"]
    /\ bot' = Answer(bot.action, "failed")
    /\ reopened' = IF bot.pc = "lost"
                   THEN [reopened EXCEPT ![bot.action] = @ + 1] ELSE reopened
    /\ UNCHANGED <<now, listed, calls, failures, contested>>

-----------------------------------------------------------------------------
(* reject *)

RejectExpires(a) ==
    /\ bot.pc = "idle"
    /\ IsDue(a)
    /\ row' = [row EXCEPT ![a].state = "expired"]
    /\ bot' = Answer(a, "expired")
    /\ UNCHANGED <<now, listed, calls, reopened, failures, contested>>

RejectAlreadyClosed(a) ==
    /\ bot.pc = "idle"
    /\ row[a].state \in {"rejected", "submitted"}
    /\ bot' = Answer(a, "already_finalized")
    /\ UNCHANGED <<row, now, listed, calls, reopened, failures, contested>>

\* A faulty variant of Reject: a submitted row can be rejected.
RejectUnguarded(a) ==
    /\ bot.pc = "idle"
    /\ Exists(a)
    /\ ~IsDue(a)
    /\ row' = [row EXCEPT ![a].state = "rejected"]
    /\ bot' = Answer(a, "rejected")
    /\ UNCHANGED <<now, listed, calls, reopened, failures, contested>>

\* Any other row becomes rejected, the expired, failed and reconciled included.
Reject(a) ==
    /\ bot.pc = "idle"
    /\ Exists(a)
    /\ ~IsDue(a)
    /\ row[a].state \notin {"rejected", "submitted"}
    /\ row' = [row EXCEPT ![a].state = "rejected"]
    /\ bot' = Answer(a, "rejected")
    /\ UNCHANGED <<now, listed, calls, reopened, failures, contested>>

\* The bridge has done with the decision and the bot takes the next update.
Reply ==
    /\ bot.pc = "reply"
    /\ bot' = Idle
    /\ UNCHANGED <<row, now, listed, calls, reopened, failures, contested>>

\* The bot process stops, or the database refuses the transaction it is in. An
\* open session rolls back: what the broker was told is not in the row.
RollBack ==
    /\ failures < MaxFailures
    /\ failures' = failures + 1
    /\ reopened' = IF bot.pc \in {"answered", "lost"}
                   THEN [reopened EXCEPT ![bot.action] = @ + 1] ELSE reopened
    /\ bot' = Idle
    /\ UNCHANGED <<row, now, listed, calls, contested>>

-----------------------------------------------------------------------------
(* Reconciliation, as this store sees it *)

\* list_actions_for_reconciliation: some of the submitted rows (the limit and
\* the order it takes them in are in Reconciliation).
ListSubmitted(r, batch) ==
    /\ listed[r] = {}
    /\ batch # {}
    /\ \A a \in batch : row[a].state = "submitted"
    /\ listed' = [listed EXCEPT ![r] = batch]
    /\ UNCHANGED <<row, now, bot, calls, reopened, failures, contested>>

\* apply_reconciliation: the state is written whatever the row now says.
ApplyReconciliation(r, a, s) ==
    /\ a \in listed[r]
    /\ row' = [row EXCEPT ![a].state = s]
    /\ listed' = [listed EXCEPT ![r] = @ \ {a}]
    /\ reopened' = IF row[a].state = "submitted" /\ s # "submitted"
                   THEN [reopened EXCEPT ![a] = @ + 1] ELSE reopened
    /\ contested' = IF \E q \in Reconciler \ {r} : a \in listed[q]
                    THEN contested \cup {a} ELSE contested
    /\ UNCHANGED <<now, bot, calls, failures>>

\* A reconciliation process that stops, or that an exception ends.
ReconcilerStops(r) ==
    /\ listed[r] # {}
    /\ listed' = [listed EXCEPT ![r] = {}]
    /\ UNCHANGED <<row, now, bot, calls, reopened, failures, contested>>

Tick ==
    /\ now < MaxTime
    /\ now' = now + 1
    /\ UNCHANGED <<row, bot, listed, calls, reopened, failures, contested>>

-----------------------------------------------------------------------------
(* Specification *)

Approve(a) ==
    \/ ApproveExpires(a)
    \/ ApproveAlreadyClosed(a)
    \/ ApproveWithoutBroker(a)
    \/ ApproveOpens(a)

RejectAny(a) == RejectExpires(a) \/ RejectAlreadyClosed(a) \/ Reject(a)

Execute ==
    BrokerAccepts \/ BrokerAnswerLost \/ BrokerRefuses
        \/ CommitSubmitted \/ CommitFailed

Reconcile(r) ==
    \/ \E batch \in SUBSET Action : ListSubmitted(r, batch)
    \/ \E a \in Action, s \in Resolved : ApplyReconciliation(r, a, s)
    \/ ReconcilerStops(r)

Next ==
    \/ \E a \in Action :
          Create(a) \/ AttachMessage(a) \/ Get(a) \/ Approve(a) \/ RejectAny(a)
    \/ Execute
    \/ Reply
    \/ RollBack
    \/ \E r \in Reconciler : Reconcile(r)
    \/ Tick

Spec == Init /\ [][Next]_vars

-----------------------------------------------------------------------------
(* What the store promises: see ApprovalLifecycle *)

Life(s) == CASE s = "absent" -> "none"
             [] s = "awaiting_approval" -> "open"
             [] s = "submitted" -> "live"
             [] s \in {"failed", "cancelled", "reconciled"} -> "ended"
             [] s = "expired" -> "expired"
             [] s = "rejected" -> "rejected"

LifeOf(a) == IF a \in contested THEN "contested" ELSE Life(row[a].state)

Lifecycle == INSTANCE ApprovalLifecycle
                 WITH life <- [a \in Action |-> LifeOf(a)]

\* Whatever the interleaving of buttons, broker answers, crashes and
\* reconcilers, a row moves only along the edges of the life cycle, until two
\* reconcilers have it in hand at once.
FollowsLifecycle == Lifecycle!Spec

-----------------------------------------------------------------------------
(* Properties *)

TypeOK ==
    /\ row \in [Action -> Row]
    /\ now \in Nat
    /\ bot \in [pc : {"idle", "calling", "answered", "lost", "refused", "reply"},
                action : Action \cup {NoAction},
                result : Decision \cup {NoAction}]
    /\ bot.pc # "idle" => bot.action \in Action
    /\ listed \in [Reconciler -> SUBSET Action]
    /\ calls \in [Action -> Nat]
    /\ reopened \in [Action -> Nat]
    /\ failures \in Nat
    /\ contested \subseteq Action

\* A reconciler applies what it worked out from a row it read earlier. That row
\* is still the submitted one when the write comes, unless another reconciler
\* has written it meanwhile: neither button, nor expiry, nor a session that comes
\* to its end moves it.
ReconcilerIsCurrent ==
    \A r \in Reconciler : \A a \in listed[r] \ contested : row[a].state = "submitted"

\* Under an open approval session the row stays as approve_and_execute read it:
\* still waiting, or in one of the states it is willing to execute again.
InSession == bot.pc \in {"calling", "answered", "lost", "refused"}
SessionRowIsOpen ==
    InSession /\ bot.action \notin contested
        => row[bot.action].state \in
               {"awaiting_approval", "failed", "cancelled", "reconciled"}

\* The call the bot has in flight, or has just had answered, for action a.
InFlight(a) == bot.action = a /\ bot.pc \in {"answered", "lost"}

\* Every call to the broker is accounted for: beyond the calls whose answer was
\* lost to a crash, an exception or a refused commit, or that reconciliation has
\* closed, one call at most is outstanding, and it is the submitted row or the
\* open session.
CallsAccounted ==
    \A a \in Action \ contested :
        calls[a] = reopened[a]
                   + (IF row[a].state = "submitted" THEN 1 ELSE 0)
                   + (IF InFlight(a) THEN 1 ELSE 0)

\* While the row says submitted, rejected or expired no step reaches the broker
\* for it: not the button pressed again, not the session already open.
ClosedMakesNoCall ==
    [][\A a \in Action \ contested :
          row[a].state \in {"submitted", "rejected", "expired"}
              => calls'[a] = calls[a]]_vars

\* A rejection is final: no approval, expiry or reconciliation moves the row.
RejectedIsFinal ==
    [][\A a \in Action \ contested :
          row[a].state = "rejected" => row'[a].state = "rejected"]_vars

=============================================================================
