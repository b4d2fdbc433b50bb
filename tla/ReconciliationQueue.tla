------------------------- MODULE ReconciliationQueue -------------------------
(***************************************************************************)
(* The order in which reconciliation takes the submitted rows: a pass lists *)
(* the rows longest without an update, at most Limit of them, and works     *)
(* through that page in the order it was listed. PendingActions leaves the  *)
(* page open; here it is the head of the queue that updated_at orders, and  *)
(* the promise is that no submitted row is passed over for ever.            *)
(*                                                                          *)
(* Every step here is one of PendingActions' steps with its effect on the   *)
(* queue, so what is proved of that module holds of this one (see           *)
(* PendingActionsProofs).                                                   *)
(***************************************************************************)
EXTENDS PendingActions, SequencesExt

CONSTANT Limit      \* rows a pass lists at most

ASSUME LimitIsPositive == Limit \in Nat \ {0}

VARIABLES
    queue,      \* the submitted actions, by updated_at, oldest first
    page        \* per reconciler: what is left of the page it listed

queueVars == <<vars, queue, page>>

-----------------------------------------------------------------------------

Members(s) == {s[i] : i \in 1..Len(s)}

\* The queue without row a, if it is there.
Others(a) ==
    IF a \in Members(queue)
    THEN RemoveAt(queue, CHOOSE i \in 1..Len(queue) : queue[i] = a) ELSE queue

\* A faulty variant of Renewed: a row found unchanged keeps its updated_at.
KeptInPlace(a) ==
    IF row'[a].state # "submitted" THEN Others(a)
    ELSE IF row[a].state = "submitted" THEN queue ELSE Append(queue, a)

\* What updated_at does to the order once a step has written row a: the row
\* goes to the end, or leaves if it is no longer submitted.
Renewed(a) ==
    IF row'[a].state = "submitted" THEN Append(Others(a), a) ELSE Others(a)

QueueInit == Init /\ queue = <<>> /\ page = [r \in Reconciler |-> <<>>]

\* list_actions_for_reconciliation: the head of the queue.
NextPage == SubSeq(queue, 1, IF Len(queue) < Limit THEN Len(queue) ELSE Limit)

\* reconcile_once takes its page.
ListOldest(r) ==
    /\ ListSubmitted(r, Members(NextPage))
    /\ page' = [page EXCEPT ![r] = NextPage]
    /\ UNCHANGED queue

\* The next row of the page gets its resolution: its state and updated_at.
ApplyNext(r) ==
    /\ page[r] # <<>>
    /\ \E s \in Resolved : ApplyReconciliation(r, Head(page[r]), s)
    /\ queue' = Renewed(Head(page[r]))
    /\ page' = [page EXCEPT ![r] = Tail(@)]

\* The rest of the page is left for a later pass.
PageEnds(r) ==
    /\ ReconcilerStops(r)
    /\ page' = [page EXCEPT ![r] = <<>>]
    /\ UNCHANGED queue

\* approve_and_execute ends: the row joins the queue or, if another reconciler
\* wrote it submitted again meanwhile, leaves it.
SessionEnds ==
    /\ CommitSubmitted \/ CommitFailed
    /\ queue' = Renewed(bot.action)
    /\ UNCHANGED page

\* A message's id reaches the row once (an action is offered in one message),
\* and it can come after the button: a submitted row is then renewed too.
MessageRenews(a) ==
    /\ ~row[a].message
    /\ AttachMessage(a)
    /\ queue' = Renewed(a)
    /\ UNCHANGED page

\* Every other step: no row becomes or stops being submitted.
Elsewhere ==
    /\ \/ \E a \in Action : Create(a) \/ Get(a) \/ Approve(a) \/ RejectAny(a)
       \/ BrokerAccepts \/ BrokerAnswerLost \/ BrokerRefuses
       \/ Reply \/ RollBack \/ Tick
    /\ UNCHANGED <<queue, page>>

QueueNext ==
    \/ \E r \in Reconciler : ListOldest(r) \/ ApplyNext(r) \/ PageEnds(r)
    \/ SessionEnds
    \/ \E a \in Action : MessageRenews(a)
    \/ Elsewhere

\* Passes are started again and again (the command, or the process that wraps
\* it), and a pass does not always die before its first row is written.
QueueFairness ==
    \A r \in Reconciler :
        WF_queueVars(ListOldest(r)) /\ SF_queueVars(ApplyNext(r))

QueueSafety == QueueInit /\ [][QueueNext]_queueVars
QueueSpec == QueueSafety /\ QueueFairness

-----------------------------------------------------------------------------
(* Properties *)

\* The queue holds the submitted rows, each once, and a page is what the
\* reconciler of PendingActions still has to apply: the order by updated_at
\* neither loses a row nor lists a closed one.
QueueIsSubmitted ==
    /\ Members(queue) = {a \in Action : row[a].state = "submitted"}
    /\ IsInjective(queue)
    /\ \A r \in Reconciler : Members(page[r]) = listed[r]

\* However many rows are submitted and however few a pass may list, a row is
\* listed sooner or later or is submitted no more: rows whose orders stay open
\* at the broker do not keep the others from being looked up.
NoneIsPassedOver ==
    \A a \in Action :
        row[a].state = "submitted"
            ~> (row[a].state # "submitted" \/ \E r \in Reconciler : a \in listed[r])

=============================================================================
