------------------------- MODULE TradeApprovalProofs -------------------------
(***************************************************************************)
(* Proofs about TradeApproval: the bridge, the preparation of actions, the   *)
(* reconciliation pass, crashes and refused transactions use the store only  *)
(* as PendingActions allows, so that what is proved of the store holds on    *)
(* the whole path of a trade; only the owner's approval reaches the broker;  *)
(* and a failure costs the trace of one order at most.                       *)
(***************************************************************************)
EXTENDS TradeApproval, PendingActionsProofs, FiniteSetTheorems

Update == [verb : Verb, action : Action, user : User]

-----------------------------------------------------------------------------
(* The queue of updates and the update in work *)

\* The strengthening: updates are well formed, the bot works on the first of
\* them, and while an approval session is open it is an approval by the owner.
BInv ==
    /\ updates \in Seq(Update)
    /\ bot.pc # "idle" => updates # <<>>
    /\ InSession =>
          /\ Head(updates).verb = "approve"
          /\ Head(updates).action = bot.action
          /\ Head(updates).user = Owner

LEMMA BInvInit == ApprovalInit => BInv
BY DEF ApprovalInit, Init, BInv, Idle, InSession

\* A step that leaves the bot and the queue alone keeps the invariant.
LEMMA BInvFrame ==
  ASSUME BInv, UNCHANGED <<bot, updates>> PROVE BInv'
BY DEF BInv, InSession

LEMMA HeadTyped ==
  ASSUME NEW S, NEW s \in Seq(S), s # <<>> PROVE Head(s) \in S
OBVIOUS

LEMMA HeadOfAppend ==
  ASSUME NEW S, NEW s \in Seq(S), s # <<>>, NEW e \in S
  PROVE  Append(s, e) # <<>> /\ Head(Append(s, e)) = Head(s)
OBVIOUS

LEMMA BInvNext == TypeOK /\ BInv /\ [ApprovalNext]_allVars => BInv'
<1> SUFFICES ASSUME TypeOK, BInv, [ApprovalNext]_allVars PROVE BInv'
  OBVIOUS
<1>1. CASE Prepare
  BY <1>1, BInvFrame DEF Prepare, Propose, PrepareSubmit, PreparationFails,
     PrepareCancel, LinkProposal, SendApproval, AttachSent, SentWithoutId,
     Create, AttachMessage, Get, vars
<1>2. CASE Person
  <2> PICK a \in Action, v \in Verb, u \in User : Tap(a, v, u)
    BY <1>2 DEF Person
  <2> DEFINE e == [verb |-> v, action |-> a, user |-> u]
  <2>1. e \in Update /\ updates' = Append(updates, e) /\ bot' = bot
    BY DEF Tap, Update, vars
  <2>2. updates' \in Seq(Update)
    BY <2>1 DEF BInv
  <2>3. updates # <<>> => updates' # <<>> /\ Head(updates') = Head(updates)
    BY <2>1, HeadOfAppend DEF BInv
  <2> QED BY <2>1, <2>2, <2>3 DEF BInv, InSession
<1>3. CASE HandleTap
  <2> DEFINE u == Head(updates)
  <2>1. updates # <<>> /\ updates' = updates /\ u.user = Owner
    BY <1>3 DEF HandleTap, Authorized
  <2>2. CASE u.verb = "approve" /\ Approve(u.action)
    <3>1. CASE ApproveOpens(u.action)
      <4>1. bot' = [pc |-> "calling", action |-> u.action, result |-> NoAction]
        BY <3>1 DEF ApproveOpens, Idle
      <4> QED BY <2>1, <2>2, <4>1 DEF BInv
    <3>2. CASE bot' \in {Answer(u.action, d) : d \in Decision}
      BY <2>1, <3>2 DEF BInv, InSession, Answer
    <3> QED
      BY <2>2, <3>1, <3>2 DEF Approve, ApproveExpires, ApproveAlreadyClosed,
         ApproveWithoutBroker, Decision
  <2>3. CASE u.verb = "reject" /\ RejectAny(u.action)
    BY <2>1, <2>3 DEF BInv, InSession, RejectAny, RejectExpires,
       RejectAlreadyClosed, Reject, Answer
  <2> QED BY <1>3, <2>2, <2>3 DEF HandleTap
<1>4. CASE HandleStranger
  <2>1. updates' \in Seq(Update)
    BY <1>4 DEF HandleStranger, BInv
  <2> QED BY <1>4, <2>1 DEF HandleStranger, BInv, InSession, vars
<1>5. CASE CallReaches \/ CallRefused \/ KeepAnswer \/ KeepFailure
  <2>1. updates' = updates
    BY <1>5 DEF callers, CallReaches, CallRefused, KeepAnswer, KeepFailure
  <2>2. CASE CallReaches \/ CallRefused
    <3>1. bot.pc = "calling" /\ bot' \in {[bot EXCEPT !.pc = q] :
                                          q \in {"answered", "lost", "refused"}}
      BY <2>2 DEF CallReaches, CallRefused, BrokerAccepts, BrokerAnswerLost,
         BrokerRefuses
    <3>2. bot'.action = bot.action
      BY <3>1 DEF TypeOK
    <3> QED BY <2>1, <3>1, <3>2 DEF BInv, InSession
  <2>3. CASE KeepAnswer \/ KeepFailure
    BY <2>1, <2>3 DEF BInv, InSession, Answer, KeepAnswer, KeepFailure,
       CommitSubmitted, CommitFailed
  <2> QED BY <1>5, <2>2, <2>3
<1>6. CASE RecordEvent \/ RecordAttempt \/ MarkProposal
  BY <1>6, BInvFrame DEF RecordEvent, RecordAttempt, MarkProposal, vars
<1>7. CASE FinishUpdate
  <2>1. bot' = Idle /\ updates' = Tail(updates)
    BY <1>7 DEF FinishUpdate, Reply
  <2>2. CASE updates = <<>>
    BY <2>1, <2>2 DEF BInv, InSession, Idle
  <2>3. CASE updates # <<>>
    BY <2>1, <2>3 DEF BInv, InSession, Idle
  <2> QED BY <2>2, <2>3
<1>8. CASE ProcessCrash \/ TransactionRefused
  BY <1>8 DEF ProcessCrash, TransactionRefused, Interrupted, RollBack, BInv, InSession, Idle
<1>9. CASE Settle
  BY <1>9, BInvFrame DEF Settle, OrderSettles, callers, vars
<1>10. ASSUME NEW r \in Reconciler, Pass(r) \/ PassAborts(r) PROVE BInv'
  BY <1>10, BInvFrame DEF Pass, PassAborts, ListActions, FetchPending,
     FetchHistory, ApplyResolution, SyncAttempt, SyncProposal, PassEnds,
     ListSubmitted, ApplyReconciliation, ReconcilerStops, callers, vars
<1>11. CASE Time
  BY <1>11, BInvFrame DEF Time, Tick, callers
<1>12. CASE UNCHANGED allVars
  BY <1>12, BInvFrame DEF allVars, callers, vars
<1> QED
  BY <1>1, <1>2, <1>3, <1>4, <1>5, <1>6, <1>7, <1>8, <1>9, <1>10, <1>11, <1>12
     DEF ApprovalNext, Bot

-----------------------------------------------------------------------------
(* Every step is a step of the store *)

\* Whatever the snapshots hold, a resolution writes a state that
\* apply_reconciliation knows.
LEMMA ResolveInRange ==
  ASSUME NEW r \in Reconciler, NEW a \in Action
  PROVE  Resolve(r, a).state \in Resolved
<1>1. \A s : FromHistory(s).state \in Resolved
  BY DEF FromHistory, Resolution, Pending, Unresolved, Resolved
<1>2. \A x, pending, past, alike, status :
         ResolveSubmit(x, pending, past, alike, status).state \in Resolved
  BY <1>1 DEF ResolveSubmit, Resolution, Pending, Unresolved, Resolved
<1>3. \A x, pending, past, status :
         ResolveCancel(x, pending, past, status).state \in Resolved
  BY DEF ResolveCancel, Resolution, Pending, Unresolved, Resolved
<1> QED BY <1>2, <1>3 DEF Resolve

LEMMA StepOfStore == BInv /\ [ApprovalNext]_allVars => [Next]_vars
<1> SUFFICES ASSUME BInv, [ApprovalNext]_allVars PROVE [Next]_vars
  OBVIOUS
<1>1. CASE Prepare
  BY <1>1 DEF Prepare, Propose, PrepareSubmit, PreparationFails, PrepareCancel,
     LinkProposal, SendApproval, AttachSent, SentWithoutId, Next
<1>2. CASE Person
  BY <1>2 DEF Person, Tap
<1>3. CASE HandleTap
  <2>1. Head(updates).action \in Action
    <3>1. updates # <<>> /\ updates \in Seq(Update)
      BY <1>3 DEF HandleTap, BInv
    <3>2. Head(updates) \in Update
      BY <3>1, HeadTyped
    <3> QED BY <3>2 DEF Update
  <2> QED BY <1>3, <2>1 DEF HandleTap, Next
<1>4. CASE CallReaches \/ CallRefused \/ KeepAnswer \/ KeepFailure
  BY <1>4 DEF CallReaches, CallRefused, KeepAnswer, KeepFailure, Execute, Next
<1>5. CASE HandleStranger \/ RecordEvent \/ RecordAttempt \/ MarkProposal
  BY <1>5 DEF HandleStranger, RecordEvent, RecordAttempt, MarkProposal
<1>6. CASE FinishUpdate \/ ProcessCrash \/ TransactionRefused
  BY <1>6 DEF FinishUpdate, ProcessCrash, TransactionRefused, Interrupted, Next
<1>7. CASE Settle
  BY <1>7 DEF Settle, OrderSettles
<1>8. ASSUME NEW r \in Reconciler, Pass(r) \/ PassAborts(r) PROVE [Next]_vars
  <2>1. CASE ListActions(r)
    BY <2>1 DEF ListActions, Reconcile, Next
  <2>2. CASE \E a \in Action : ApplyResolution(r, a)
    BY <2>2, ResolveInRange DEF ApplyResolution, Reconcile, Next
  <2>3. CASE PassAborts(r)
    BY <2>3 DEF PassAborts, Reconcile, Next
  <2>4. CASE \/ FetchPending(r) \/ FetchHistory(r) \/ SyncAttempt(r)
             \/ SyncProposal(r) \/ PassEnds(r)
    BY <2>4 DEF FetchPending, FetchHistory, SyncAttempt, SyncProposal, PassEnds
  <2> QED BY <1>8, <2>1, <2>2, <2>3, <2>4 DEF Pass
<1>9. CASE Time
  BY <1>9 DEF Time, Next
<1>10. CASE UNCHANGED allVars
  BY <1>10 DEF allVars
<1> QED
  BY <1>1, <1>2, <1>3, <1>4, <1>5, <1>6, <1>7, <1>8, <1>9, <1>10
     DEF ApprovalNext, Bot

LEMMA StoreAndQueue == ApprovalSpec => [](TypeOK /\ BInv)
<1>1. ApprovalInit => TypeOK /\ BInv
  BY TypeInit, BInvInit DEF ApprovalInit
<1>2. TypeOK /\ BInv /\ [ApprovalNext]_allVars => TypeOK' /\ BInv'
  BY TypeNext, BInvNext, StepOfStore
<1> QED BY <1>1, <1>2, PTL DEF ApprovalSpec

\* By its definition each step of the path takes a step of the store or leaves it
\* alone: what is proved of the store can be cited for the path.
LEMMA PathImplementsStore == ApprovalSpec => Spec
<1>1. ApprovalInit => Init
  BY DEF ApprovalInit
<1> QED
  BY <1>1, StoreAndQueue, StepOfStore, PTL DEF ApprovalSpec, Spec

\* What is proved of the store therefore holds with the bridge, the broker, crashes,
\* refused transactions and redelivered updates around it.
THEOREM PathKeepsStoreSafe ==
  ApprovalSpec => /\ [](ReconcilerIsCurrent /\ CallsAccounted)
                  /\ ClosedMakesNoCall /\ RejectedIsFinal /\ FollowsLifecycle
BY PathImplementsStore, ReconcilerCurrent, CallsAreAccounted, NoCallWhenClosed,
   RejectionIsFinal, ImplementsLifecycle, PTL

-----------------------------------------------------------------------------
(* Who an order comes from *)

Placement == [action : Action, status : RemoteStatus]

LEMMA UpdatedOrder ==
  ASSUME orders \in Seq(Placement), NEW o \in Order, NEW s \in RemoteStatus
  PROVE  [orders[o] EXCEPT !.status = s] \in Placement
<1>1. orders[o] \in Placement
  BY DEF Order
<1> QED BY <1>1 DEF Placement

OrdersIdle == UNCHANGED <<orders, history>>
OrderPlaced ==
    /\ CallReaches /\ bot.pc = "calling" /\ bot.action \in Submits
    /\ orders' = Append(orders, [action |-> bot.action, status |-> "pending"])
    /\ UNCHANGED history
OrderSettled(o, s) ==
    /\ o \in PendingOrders /\ s \in FinalStatus
    /\ orders' = [orders EXCEPT ![o].status = s]
    /\ history' = Append(history, o)

\* What a step does to the broker's orders: it leaves them alone, or is the call
\* of a submission and appends that submission's order, or one that was pending
\* gets its final status and goes into the history.
LEMMA OrdersStep ==
  ASSUME TypeOK, [ApprovalNext]_allVars
  PROVE  OrdersIdle \/ OrderPlaced \/ \E o \in Order, s \in FinalStatus : OrderSettled(o, s)
<1> USE DEF OrdersIdle
<1>1. CASE Prepare
  BY <1>1 DEF Prepare, Propose, PrepareSubmit, PreparationFails, PrepareCancel,
     LinkProposal, SendApproval, AttachSent, SentWithoutId, broker
<1>2. CASE Person
  BY <1>2 DEF Person, Tap, broker
<1>3. CASE Bot /\ ~CallReaches
  BY <1>3 DEF Bot, HandleTap, HandleStranger, CallRefused, KeepAnswer, KeepFailure,
     RecordEvent, RecordAttempt, MarkProposal, FinishUpdate, broker
<1>4. CASE CallReaches
  <2> DEFINE a == bot.action
  <2>1. bot.pc = "calling"
    BY <1>4 DEF CallReaches, BrokerAccepts, BrokerAnswerLost
  <2>2. CASE a \in Submits
    BY <1>4, <2>1, <2>2 DEF CallReaches, PlaceOrCancel, OrderPlaced
  <2>3. CASE /\ target[a] \in PendingOrders
             /\ orders' = [orders EXCEPT ![target[a]].status = "cancelled"]
             /\ history' = Append(history, target[a])
    BY <2>3 DEF OrderSettled, PendingOrders, FinalStatus
  <2> QED BY <1>4, <2>2, <2>3 DEF CallReaches, PlaceOrCancel
<1>5. CASE ProcessCrash \/ TransactionRefused
  BY <1>5 DEF ProcessCrash, TransactionRefused, Interrupted, broker
<1>6. CASE Settle
  BY <1>6, FinalsAreStatuses DEF Settle, OrderSettles, OrderSettled
<1>7. ASSUME NEW r \in Reconciler, Pass(r) \/ PassAborts(r) PROVE OrdersIdle
  BY <1>7 DEF Pass, PassAborts, ListActions, FetchPending, FetchHistory,
     ApplyResolution, SyncAttempt, SyncProposal, PassEnds, broker
<1>8. CASE Time \/ UNCHANGED allVars
  BY <1>8 DEF Time, allVars, broker
<1> QED
  BY <1>1, <1>2, <1>3, <1>4, <1>5, <1>6, <1>7, <1>8 DEF ApprovalNext, Bot

\* The number of orders never falls, and only a submission's call raises it.
LEMMA OrdersGrow ==
  ASSUME orders \in Seq(Placement), TypeOK, [ApprovalNext]_allVars
  PROVE  /\ orders' \in Seq(Placement)
         /\ Len(orders') = Len(orders) \/ OrderPlaced
<1>1. CASE OrdersIdle
  BY <1>1 DEF OrdersIdle
<1>2. CASE OrderPlaced
  <2>1. [action |-> bot.action, status |-> "pending"] \in Placement
    BY <1>2, SubmitsAreActions DEF OrderPlaced, Placement, RemoteStatus
  <2> QED BY <1>2, <2>1 DEF OrderPlaced
<1>3. ASSUME NEW o \in Order, NEW s \in FinalStatus, OrderSettled(o, s)
      PROVE  orders' \in Seq(Placement) /\ Len(orders') = Len(orders)
  <2>1. [orders[o] EXCEPT !.status = s] \in Placement
    BY UpdatedOrder DEF RemoteStatus
  <2> QED BY <1>3, <2>1 DEF OrderSettled, Order
<1> QED BY <1>1, <1>2, <1>3, OrdersStep

\* An order appears at the broker only while the bot handles an approval of that
\* very action by its owner, however presses, crashes and redelivery interleave.
THEOREM OnlyOwnersApprovalPlacesOrders == ApprovalSpec => OwnerPlacesOrders
<1> DEFINE Seqs == orders \in Seq(Placement)
           Placed == Len(orders') > Len(orders) =>
              /\ updates # <<>>
              /\ Head(updates) = [verb |-> "approve",
                                  action |-> orders'[Len(orders')].action,
                                  user |-> Owner]
<1>1. ApprovalInit => Seqs
  BY DEF ApprovalInit
<1>2. TypeOK /\ Seqs /\ [ApprovalNext]_allVars => Seqs'
  BY OrdersGrow
<1>3. ASSUME TypeOK, BInv, Seqs, [ApprovalNext]_allVars PROVE Placed
  <2> SUFFICES ASSUME Len(orders') > Len(orders)
               PROVE  /\ updates # <<>>
                      /\ Head(updates) = [verb |-> "approve",
                                          action |-> orders'[Len(orders')].action,
                                          user |-> Owner]
    OBVIOUS
  <2> DEFINE e == [action |-> bot.action, status |-> "pending"]
  <2>1. bot.pc = "calling" /\ orders' = Append(orders, e)
    BY <1>3, OrdersGrow DEF OrderPlaced
  <2>2. orders'[Len(orders')].action = bot.action
    BY <1>3, <2>1
  <2>3. updates # <<>> /\ Head(updates) \in Update
    BY <1>3, <2>1, HeadTyped DEF BInv
  <2>4. /\ Head(updates).verb = "approve"
        /\ Head(updates).action = bot.action
        /\ Head(updates).user = Owner
    BY <1>3, <2>1 DEF BInv, InSession
  <2> QED BY <2>2, <2>3, <2>4 DEF Update
<1> QED
  BY <1>1, <1>2, <1>3, StoreAndQueue, PTL DEF ApprovalSpec, OwnerPlacesOrders

-----------------------------------------------------------------------------
(* What became of an order *)

Settled(o) == o \in Order /\ orders[o].status \in FinalStatus

PassRow ==
    [phase : {"idle", "listed", "pending", "apply", "sync", "mark"},
     pending : SUBSET Nat, history : SUBSET Nat,
     action : Action \cup {NoAction}, outcome : Outcome \cup {NoAction}]

BrokerTyped ==
    /\ orders \in Seq(Placement) /\ history \in Seq(Nat)
    /\ ref \in [Action -> Nat] /\ target \in [Action -> Nat]
    /\ pass \in [Reconciler -> PassRow]

\* Cancellations place no orders. What the broker lists as history, and what a
\* pass has fetched of it, has its final status.
OrdersAreSubmissions == \A o \in Order : orders[o].action \in Submits
HistoryIsSettled == \A i \in DOMAIN history : Settled(history[i])
SnapshotsAreSettled == \A r \in Reconciler : \A o \in pass[r].history : Settled(o)

\* The id kept in broker_result is one of an order of that action: the last one
\* placed when the answer arrives.
RefsAreOwn == \A a \in Submits : ref[a] # NoOrder => ref[a] \in OrdersOf(a)
AnswerIsLast ==
    bot.pc = "answered" /\ bot.action \in Submits => Len(orders) \in OrdersOf(bot.action)

\* ConclusionIsTrue, with the target of a reconciled cancellation an order.
Concluded(a) ==
    /\ a \in Submits /\ row[a].state = "reconciled"
          => Became(a, {"filled", "partially_filled"})
    /\ a \in Submits /\ row[a].state = "cancelled" => Became(a, {"cancelled"})
    /\ a \notin Submits /\ row[a].state = "reconciled"
          => target[a] \in Order /\ orders[target[a]].status = "cancelled"

SnapshotInv ==
    /\ BrokerTyped /\ OrdersAreSubmissions /\ HistoryIsSettled /\ SnapshotsAreSettled
    /\ RefsAreOwn /\ AnswerIsLast

\* An order stays an order of its action, and keeps its final status.
OrdersStay ==
    \A o \in Order :
        /\ o \in Order' /\ orders'[o].action = orders[o].action
        /\ orders[o].status \in FinalStatus => orders'[o] = orders[o]

LEMMA OrdersKept ==
  ASSUME TypeOK, orders \in Seq(Placement), [ApprovalNext]_allVars PROVE OrdersStay
<1>1. CASE OrdersIdle
  BY <1>1 DEF OrdersIdle, OrdersStay, Order
<1>2. CASE OrderPlaced
  BY <1>2 DEF OrderPlaced, OrdersStay, Order
<1>3. ASSUME NEW o \in Order, NEW s \in FinalStatus, OrderSettled(o, s) PROVE OrdersStay
  <2>1. \A p \in Order : orders[p] \in Placement
    BY DEF Order
  <2>2. orders[o].status = "pending" /\ orders' = [orders EXCEPT ![o].status = s]
    BY <1>3 DEF OrderSettled, PendingOrders
  <2>3. Len(orders') = Len(orders) /\ "pending" \notin FinalStatus
    BY <2>2 DEF FinalStatus
  <2> QED BY <2>1, <2>2, <2>3 DEF OrdersStay, Order, Placement
<1> QED BY <1>1, <1>2, <1>3, OrdersStep

\* Hence what was true of settled orders stays true.
LEMMA SettledStays ==
  ASSUME OrdersStay
  PROVE  /\ \A o : Settled(o) => Settled(o)'
         /\ \A o, a : o \in OrdersOf(a) => o \in OrdersOf(a)'
         /\ \A a, F : F \subseteq FinalStatus /\ Became(a, F) => Became(a, F)'
BY DEF OrdersStay, Settled, OrdersOf, Became

LEMMA OutcomeInRange ==
  ASSUME NEW r \in Reconciler, NEW a \in Action
  PROVE  Resolve(r, a).outcome \in Outcome
<1>1. \A s : FromHistory(s).outcome \in Outcome
  BY DEF FromHistory, Resolution, Pending, Unresolved, Outcome
<1>2. \A x, pending, past, alike, status :
         ResolveSubmit(x, pending, past, alike, status).outcome \in Outcome
  BY <1>1 DEF ResolveSubmit, Resolution, Pending, Unresolved, Outcome
<1>3. \A x, pending, past, status :
         ResolveCancel(x, pending, past, status).outcome \in Outcome
  BY DEF ResolveCancel, Resolution, Pending, Unresolved, Outcome
<1> QED BY <1>2, <1>3 DEF Resolve

\* The id of the newest of an action's orders, when the last order is one of them.
LEMMA NewestIsLast ==
  ASSUME orders \in Seq(Placement), NEW a \in Action, Len(orders) \in OrdersOf(a)
  PROVE  Newest(OrdersOf(a)) \in OrdersOf(a)
<1>1. \A o \in OrdersOf(a) : o <= Len(orders)
  BY DEF OrdersOf, Order
<1> QED BY <1>1 DEF Newest

\* Which steps write ref, target and pass, and what.
LEMMA RefStep ==
  ASSUME [ApprovalNext]_allVars
  PROVE  ref' = ref \/ KeepAnswer
<1>1. CASE Prepare \/ Person \/ ProcessCrash \/ TransactionRefused \/ Settle \/ Time
           \/ UNCHANGED allVars
  BY <1>1 DEF Prepare, Propose, PrepareSubmit, PreparationFails, PrepareCancel,
     LinkProposal, SendApproval, AttachSent, SentWithoutId, Person, Tap, ProcessCrash,
     TransactionRefused, Interrupted,
     Settle, OrderSettles, Time, allVars, broker
<1>2. CASE Bot
  BY <1>2 DEF Bot, HandleTap, HandleStranger, CallReaches, CallRefused, KeepFailure,
     RecordEvent, RecordAttempt, MarkProposal, FinishUpdate, broker
<1>3. ASSUME NEW r \in Reconciler, Pass(r) \/ PassAborts(r) PROVE ref' = ref
  BY <1>3 DEF Pass, PassAborts, ListActions, FetchPending, FetchHistory,
     ApplyResolution, SyncAttempt, SyncProposal, PassEnds, broker
<1> QED BY <1>1, <1>2, <1>3 DEF ApprovalNext

LEMMA TargetStep ==
  ASSUME [ApprovalNext]_allVars
  PROVE  target' = target \/ \E a \in Action, o \in Order : PrepareCancel(a, o)
<1>1. CASE Prepare
  BY <1>1 DEF Prepare, Propose, PrepareSubmit, PreparationFails, LinkProposal,
     SendApproval, AttachSent, SentWithoutId, broker
<1>2. CASE Person \/ ProcessCrash \/ TransactionRefused \/ Settle \/ Time
           \/ UNCHANGED allVars
  BY <1>2 DEF Person, Tap, ProcessCrash, TransactionRefused, Interrupted, Settle,
     OrderSettles, Time, allVars, broker
<1>3. CASE Bot
  BY <1>3 DEF Bot, HandleTap, HandleStranger, CallReaches, CallRefused, KeepAnswer,
     KeepFailure, RecordEvent, RecordAttempt, MarkProposal, FinishUpdate, broker
<1>4. ASSUME NEW r \in Reconciler, Pass(r) \/ PassAborts(r) PROVE target' = target
  BY <1>4 DEF Pass, PassAborts, ListActions, FetchPending, FetchHistory,
     ApplyResolution, SyncAttempt, SyncProposal, PassEnds, broker
<1> QED BY <1>1, <1>2, <1>3, <1>4 DEF ApprovalNext

LEMMA PassStep ==
  ASSUME [ApprovalNext]_allVars
  PROVE  pass' = pass \/ \E r \in Reconciler : Pass(r) \/ PassAborts(r)
<1>1. CASE Prepare
  BY <1>1 DEF Prepare, Propose, PrepareSubmit, PreparationFails, PrepareCancel,
     LinkProposal, SendApproval, AttachSent, SentWithoutId, recon
<1>2. CASE Person \/ ProcessCrash \/ TransactionRefused \/ Settle \/ Time
           \/ UNCHANGED allVars
  BY <1>2 DEF Person, Tap, ProcessCrash, TransactionRefused, Interrupted, Settle,
     OrderSettles, Time, allVars, recon
<1>3. CASE Bot
  BY <1>3 DEF Bot, HandleTap, HandleStranger, CallReaches, CallRefused, KeepAnswer,
     KeepFailure, RecordEvent, RecordAttempt, MarkProposal, FinishUpdate, recon
<1> QED BY <1>1, <1>2, <1>3 DEF ApprovalNext

LEMMA HistoryPageSettled ==
  ASSUME BrokerTyped, HistoryIsSettled
  PROVE  HistoryPage \in SUBSET Nat /\ \A o \in HistoryPage : Settled(o)
BY DEF BrokerTyped, HistoryIsSettled, HistoryPage

\* A pass only ever holds what the broker had listed as settled.
LEMMA PassTyped ==
  ASSUME TypeOK, SnapshotInv, [ApprovalNext]_allVars
  PROVE  /\ pass' \in [Reconciler -> PassRow]
         /\ \A r \in Reconciler : \A o \in pass'[r].history : Settled(o)
<1> USE DEF SnapshotInv
<1>1. pass \in [Reconciler -> PassRow]
  BY DEF BrokerTyped
<1>2. NoPass \in PassRow /\ NoPass.history = {}
  BY DEF NoPass, PassRow
<1>3. ASSUME NEW r \in Reconciler, Pass(r) \/ PassAborts(r)
      PROVE  \E row2 \in PassRow :
                /\ pass' = [pass EXCEPT ![r] = row2]
                /\ \A o \in row2.history : Settled(o)
  <2> DEFINE q == pass[r]
  <2>1. q \in PassRow /\ \A o \in q.history : Settled(o)
    BY <1>1 DEF SnapshotsAreSettled
  <2>2. CASE ListActions(r)
    <3>1. [q EXCEPT !.phase = "listed"] \in PassRow
      BY <2>1 DEF PassRow
    <3> QED BY <1>1, <2>1, <2>2, <3>1 DEF ListActions, PassRow
  <2>3. CASE FetchPending(r)
    <3>1. PendingOrders \in SUBSET Nat
      BY DEF PendingOrders, Order
    <3>2. [q EXCEPT !.phase = "pending", !.pending = PendingOrders] \in PassRow
      BY <2>1, <3>1 DEF PassRow
    <3> QED BY <1>1, <2>1, <2>3, <3>2 DEF FetchPending, PassRow
  <2>4. CASE FetchHistory(r)
    <3>1. [q EXCEPT !.phase = "apply", !.history = HistoryPage] \in PassRow
      BY <2>1, HistoryPageSettled DEF PassRow
    <3> QED BY <1>1, <2>1, <2>4, <3>1, HistoryPageSettled DEF FetchHistory, PassRow
  <2>5. ASSUME NEW a \in Action, ApplyResolution(r, a)
        PROVE  \E row2 \in PassRow :
                  /\ pass' = [pass EXCEPT ![r] = row2]
                  /\ \A o \in row2.history : Settled(o)
    <3>1. PICK phase \in {"sync", "apply"}, act \in {a, NoAction},
               outcome \in {Resolve(r, a).outcome, NoAction} :
            pass' = [pass EXCEPT ![r].phase = phase, ![r].action = act, ![r].outcome = outcome]
      <4> DEFINE syncs == a \in Submits /\ linked[a] /\ Resolve(r, a).outcome # "unresolved"
      <4>1. pass' = [pass EXCEPT ![r].phase = IF syncs THEN "sync" ELSE "apply",
                                 ![r].action = IF syncs THEN a ELSE NoAction,
                                 ![r].outcome = IF syncs THEN Resolve(r, a).outcome
                                                         ELSE NoAction]
        BY <2>5 DEF ApplyResolution
      <4> HIDE DEF syncs
      <4> QED BY <4>1
    <3>2. outcome \in Outcome \cup {NoAction}
      BY OutcomeInRange
    <3>3. [q EXCEPT !.phase = phase, !.action = act, !.outcome = outcome] \in PassRow
      BY <2>1, <3>2 DEF PassRow
    <3> QED BY <1>1, <2>1, <3>1, <3>3 DEF PassRow
  <2>6. CASE SyncAttempt(r)
    <3>1. [q EXCEPT !.phase = "mark"] \in PassRow
      BY <2>1 DEF PassRow
    <3> QED BY <1>1, <2>1, <2>6, <3>1 DEF SyncAttempt, PassRow
  <2>7. CASE SyncProposal(r)
    <3>1. [q EXCEPT !.phase = "apply", !.action = NoAction, !.outcome = NoAction] \in PassRow
      BY <2>1 DEF PassRow
    <3> QED BY <1>1, <2>1, <2>7, <3>1 DEF SyncProposal, PassRow
  <2>8. CASE PassEnds(r) \/ PassAborts(r)
    BY <1>2, <2>8 DEF PassEnds, PassAborts
  <2> QED BY <1>3, <2>2, <2>3, <2>4, <2>5, <2>6, <2>7, <2>8 DEF Pass
<1>4. CASE pass' = pass
  BY <1>1, <1>4 DEF SnapshotsAreSettled
<1>5. ASSUME NEW r \in Reconciler, NEW row2 \in PassRow, pass' = [pass EXCEPT ![r] = row2],
             \A o \in row2.history : Settled(o)
      PROVE  /\ pass' \in [Reconciler -> PassRow]
             /\ \A q \in Reconciler : \A o \in pass'[q].history : Settled(o)
  BY <1>1, <1>5 DEF SnapshotsAreSettled
<1> QED BY <1>3, <1>4, <1>5, PassStep

\* The bot has an answer when the call has just reached the broker, or had it.
LEMMA AnswerStep ==
  ASSUME BInv, TypeOK, [ApprovalNext]_allVars, bot'.pc = "answered"
  PROVE  \/ bot' = bot /\ ~OrderPlaced
         \/ bot'.action = bot.action /\ (bot.action \in Submits => OrderPlaced)
<1>1. CASE CallReaches
  <2>1. bot.pc = "calling" /\ bot'.action = bot.action
    BY <1>1 DEF CallReaches, BrokerAccepts, BrokerAnswerLost, TypeOK
  <2> QED BY <1>1, <2>1, SubmitsAreActions DEF CallReaches, PlaceOrCancel, OrderPlaced
<1>2. CASE ~CallReaches
  <2>1. ~OrderPlaced
    BY <1>2 DEF OrderPlaced
  <2>2. CASE bot' = bot
    BY <2>1, <2>2
  <2>3. CASE Prepare \/ Person \/ Settle \/ Time \/ UNCHANGED allVars
    <3>1. bot' = bot
      BY <2>3 DEF Prepare, Propose, PrepareSubmit, PreparationFails, PrepareCancel,
         LinkProposal, SendApproval, AttachSent, SentWithoutId, Create, AttachMessage, Get,
         Person, Tap, Settle, OrderSettles, Time, Tick, allVars, vars
    <3> QED BY <2>1, <3>1
  <2>4. CASE ProcessCrash \/ TransactionRefused
    BY <2>4 DEF ProcessCrash, TransactionRefused, Interrupted, RollBack, Idle
  <2>5. CASE HandleTap
    <3>1. ASSUME NEW a, Approve(a) PROVE bot'.pc \in {"reply", "calling"}
      <4>1. CASE ApproveOpens(a)
        <5>1. bot' = [pc |-> "calling", action |-> a, result |-> NoAction]
          BY <4>1 DEF ApproveOpens, Idle
        <5> QED BY <5>1
      <4>2. CASE ApproveExpires(a) \/ ApproveAlreadyClosed(a) \/ ApproveWithoutBroker(a)
        BY <4>2 DEF ApproveExpires, ApproveAlreadyClosed, ApproveWithoutBroker, Answer
      <4> QED BY <3>1, <4>1, <4>2 DEF Approve
    <3>2. \A a : RejectAny(a) => bot'.pc = "reply"
      BY DEF RejectAny, RejectExpires, RejectAlreadyClosed, Reject, Answer
    <3> QED BY <2>5, <3>1, <3>2 DEF HandleTap
  <2>6. CASE CallRefused \/ KeepAnswer \/ KeepFailure \/ FinishUpdate
    <3>1. bot' = [bot EXCEPT !.pc = "refused"] => bot'.pc = "refused"
      BY DEF TypeOK
    <3> QED BY <2>6, <3>1 DEF CallRefused, BrokerRefuses, KeepAnswer, CommitSubmitted,
               KeepFailure, CommitFailed, FinishUpdate, Reply, Answer, Idle
  <2>7. CASE HandleStranger \/ RecordEvent \/ RecordAttempt \/ MarkProposal
    BY <2>1, <2>7 DEF HandleStranger, RecordEvent, RecordAttempt, MarkProposal, vars
  <2>8. ASSUME NEW r \in Reconciler, Pass(r) \/ PassAborts(r) PROVE bot' = bot
    BY <2>8 DEF Pass, PassAborts, ListActions, FetchPending, FetchHistory,
       ApplyResolution, SyncAttempt, SyncProposal, PassEnds, ListSubmitted,
       ApplyReconciliation, ReconcilerStops, vars
  <2> QED BY <1>2, <2>2, <2>3, <2>4, <2>5, <2>6, <2>7, <2>8 DEF ApprovalNext, Bot
<1> QED BY <1>1, <1>2

LEMMA SnapshotInit == ApprovalInit => SnapshotInv
BY SubmitsAreActions
   DEF ApprovalInit, Init, SnapshotInv, BrokerTyped, PassRow, NoPass, NoOrder, Idle, Order,
       OrdersAreSubmissions, HistoryIsSettled, SnapshotsAreSettled, RefsAreOwn, AnswerIsLast

LEMMA SnapshotNext ==
  TypeOK /\ BInv /\ SnapshotInv /\ [ApprovalNext]_allVars => SnapshotInv'
<1> SUFFICES ASSUME TypeOK, BInv, SnapshotInv, [ApprovalNext]_allVars PROVE SnapshotInv'
  OBVIOUS
<1> USE DEF SnapshotInv
<1>1. orders \in Seq(Placement) /\ orders' \in Seq(Placement) /\ OrdersStay
  BY OrdersGrow, OrdersKept DEF BrokerTyped
<1>2. OrdersAreSubmissions'
  <2>1. CASE OrdersIdle
    BY <2>1 DEF OrdersIdle, OrdersAreSubmissions, Order
  <2>2. CASE OrderPlaced
    BY <1>1, <2>2 DEF OrderPlaced, OrdersAreSubmissions, Order
  <2>3. ASSUME NEW o \in Order, NEW s \in FinalStatus, OrderSettled(o, s)
        PROVE  OrdersAreSubmissions'
    <3>1. Len(orders') = Len(orders)
      BY <1>1, <2>3 DEF OrderSettled
    <3> QED BY <1>1, <3>1 DEF OrdersAreSubmissions, OrdersStay, Order
  <2> QED BY <2>1, <2>2, <2>3, OrdersStep
<1>3. history' \in Seq(Nat) /\ HistoryIsSettled'
  <2>1. CASE history' = history
    BY <1>1, <2>1, SettledStays DEF BrokerTyped, HistoryIsSettled
  <2>2. ASSUME NEW o \in Order, NEW s \in FinalStatus, OrderSettled(o, s)
        PROVE  history' \in Seq(Nat) /\ HistoryIsSettled'
    <3>1. history' = Append(history, o) /\ o \in Nat /\ history \in Seq(Nat)
      BY <2>2 DEF OrderSettled, Order, BrokerTyped
    <3>2. Settled(o)'
      <4>1. orders[o] \in Placement
        BY <1>1 DEF Order
      <4>2. orders' = [orders EXCEPT ![o].status = s]
        BY <2>2 DEF OrderSettled
      <4>3. orders'[o].status = s
        BY <1>1, <4>1, <4>2 DEF Order, Placement
      <4> QED BY <1>1, <2>2, <4>3 DEF Settled, OrdersStay
    <3>3. \A i \in DOMAIN history : Settled(history[i])'
      <4>1. \A i \in DOMAIN history : Settled(history[i])
        BY DEF HistoryIsSettled
      <4>2. \A i \in DOMAIN history : history'[i] = history[i]
        BY <3>1
      <4> QED BY <1>1, <4>1, <4>2, SettledStays
    <3> QED BY <3>1, <3>2, <3>3 DEF HistoryIsSettled
  <2> QED BY <2>1, <2>2, OrdersStep DEF OrdersIdle, OrderPlaced
<1>4. pass' \in [Reconciler -> PassRow] /\ SnapshotsAreSettled'
  BY <1>1, PassTyped, SettledStays DEF SnapshotsAreSettled
<1>5. ref' \in [Action -> Nat] /\ RefsAreOwn'
  <2>1. CASE ref' = ref
    BY <1>1, <2>1, SettledStays DEF BrokerTyped, RefsAreOwn
  <2>2. CASE KeepAnswer /\ bot.action \in Submits
    <3> DEFINE a == bot.action
    <3>1. bot.pc = "answered" /\ a \in Action /\ orders' = orders
      BY <2>2, SubmitsAreActions DEF KeepAnswer, CommitSubmitted
    <3>2. Newest(OrdersOf(a)) \in OrdersOf(a)
      BY <1>1, <2>2, <3>1, NewestIsLast DEF AnswerIsLast
    <3>3. ref' = [ref EXCEPT ![a] = Newest(OrdersOf(a))]
      BY <2>2 DEF KeepAnswer
    <3> HIDE DEF a
    <3>4. Newest(OrdersOf(a)) \in Nat
      BY <3>2 DEF OrdersOf, Order
    <3>5. ref' \in [Action -> Nat]
      BY <3>3, <3>4 DEF BrokerTyped
    <3>6. \A b \in Submits : OrdersOf(b)' = OrdersOf(b)
      BY <3>1 DEF OrdersOf, Order
    <3> QED BY <3>2, <3>3, <3>5, <3>6, SubmitsAreActions DEF BrokerTyped, RefsAreOwn
  <2> QED BY <2>1, <2>2, RefStep DEF KeepAnswer
<1>6. target' \in [Action -> Nat]
  BY SMTT(30), TargetStep DEF BrokerTyped, PrepareCancel, Order
<1>7. AnswerIsLast'
  <2> SUFFICES ASSUME bot'.pc = "answered", bot'.action \in Submits
               PROVE  Len(orders') \in OrdersOf(bot.action)'
    BY DEF AnswerIsLast
  <2>1. CASE bot' = bot /\ ~OrderPlaced
    <3>1. Len(orders') = Len(orders)
      BY <1>1, <2>1, OrdersGrow
    <3>2. Len(orders) \in OrdersOf(bot.action)
      BY <2>1 DEF AnswerIsLast
    <3> QED BY <1>1, <2>1, <3>1, <3>2 DEF OrdersStay, OrdersOf
  <2>2. CASE bot'.action = bot.action /\ OrderPlaced
    BY <1>1, <2>2 DEF OrderPlaced, OrdersOf, Order
  <2> QED BY <2>1, <2>2, AnswerStep
<1> QED BY <1>1, <1>2, <1>3, <1>4, <1>5, <1>6, <1>7 DEF BrokerTyped

\* A row becomes reconciled or cancelled by a resolution and by nothing else.
LEMMA RowStep ==
  ASSUME TypeOK, [ApprovalNext]_allVars, NEW a \in Action,
         row'[a].state \in {"reconciled", "cancelled"}
  PROVE  \/ row'[a].state = row[a].state
         \/ \E r \in Reconciler :
               ApplyResolution(r, a) /\ row'[a].state = Resolve(r, a).state
<1>1. row \in [Action -> Row]
  BY DEF TypeOK
<1>2. \A b : Create(b) \/ AttachMessage(b) \/ Get(b) => row'[a].state = row[a].state
  BY <1>1 DEF Create, AttachMessage, Get, Row
<1>3. \A b : Approve(b) \/ RejectAny(b) => row'[a].state = row[a].state
  BY <1>1 DEF Approve, ApproveExpires, ApproveAlreadyClosed, ApproveWithoutBroker,
     ApproveOpens, RejectAny, RejectExpires, RejectAlreadyClosed, Reject, Row
<1>4. CASE Prepare
  BY <1>2, <1>4 DEF Prepare, Propose, PrepareSubmit, PreparationFails, PrepareCancel,
     LinkProposal, SendApproval, AttachSent, SentWithoutId, vars
<1>5. CASE HandleTap
  BY <1>3, <1>5 DEF HandleTap
<1>6. CASE CallReaches \/ CallRefused \/ FinishUpdate \/ ProcessCrash \/ TransactionRefused
  BY <1>6 DEF CallReaches, BrokerAccepts, BrokerAnswerLost, CallRefused, BrokerRefuses,
     FinishUpdate, Reply, ProcessCrash, TransactionRefused, Interrupted, RollBack
<1>7. CASE KeepAnswer \/ KeepFailure
  BY <1>1, <1>7 DEF KeepAnswer, CommitSubmitted, KeepFailure, CommitFailed, Row
<1>8. CASE \/ Person \/ HandleStranger \/ RecordEvent \/ RecordAttempt \/ MarkProposal
           \/ Settle \/ Time \/ UNCHANGED allVars
  BY <1>8 DEF Person, Tap, HandleStranger, RecordEvent, RecordAttempt, MarkProposal, Settle,
     OrderSettles, Time, Tick, allVars, vars
<1>9. ASSUME NEW r \in Reconciler, NEW b \in Action, ApplyResolution(r, b)
      PROVE  \/ row'[a].state = row[a].state
             \/ b = a /\ row'[a].state = Resolve(r, a).state
  <2>1. row' = [row EXCEPT ![b].state = Resolve(r, b).state]
    BY <1>9 DEF ApplyResolution, ApplyReconciliation
  <2> QED BY <1>1, <2>1 DEF Row
<1>10. ASSUME NEW r \in Reconciler, Pass(r) \/ PassAborts(r)
       PROVE  row' = row \/ \E b \in Action : ApplyResolution(r, b)
  BY <1>10 DEF Pass, PassAborts, ListActions, FetchPending, FetchHistory, SyncAttempt,
     SyncProposal, PassEnds, ListSubmitted, ReconcilerStops, vars
<1>11. ASSUME NEW r \in Reconciler, Pass(r) \/ PassAborts(r)
       PROVE  \/ row'[a].state = row[a].state
              \/ ApplyResolution(r, a) /\ row'[a].state = Resolve(r, a).state
  BY <1>9, <1>10, <1>11
<1> QED BY <1>4, <1>5, <1>6, <1>7, <1>8, <1>11 DEF ApprovalNext, Bot

\* Any two submissions differ in something that _order_matches_action compares:
\* ticker, type, side, quantity or prices. The order of one is not taken for the
\* order of another.
ShapesDiffer == \A a, b \in Submits : Shape[a] = Shape[b] => a = b

\* What a resolution says of a settled order in its snapshots.
LEMMA ResolvedFrom ==
  ASSUME ShapesDiffer, SnapshotInv, NEW r \in Reconciler, NEW a \in Submits,
         Resolve(r, a).state # "submitted"
  PROVE  \E o \in OrdersOf(a) : Resolve(r, a) = FromHistory(orders[o].status)
<1> DEFINE x == ref[a]
           H == pass[r].history
           S == H \cap Alike(a)
           only == CHOOSE o \in S : TRUE
<1>1. \A o \in H : o \in Order /\ StatusOf[o] = orders[o].status
  BY DEF SnapshotInv, SnapshotsAreSettled, Settled, StatusOf
<1>2. Resolve(r, a) = ResolveSubmit(x, pass[r].pending, H, Alike(a), StatusOf)
  BY DEF Resolve
<1>3. Pending.state = "submitted" /\ Unresolved.state = "submitted"
  BY DEF Pending, Unresolved, Resolution
<1>4. \/ x \in H /\ Resolve(r, a) = FromHistory(StatusOf[x])
      \/ Cardinality(S) = 1 /\ Resolve(r, a) = FromHistory(StatusOf[only])
  <2> HIDE DEF x, H
  <2> QED BY <1>2, <1>3 DEF ResolveSubmit
<1>5. CASE x \in H /\ Resolve(r, a) = FromHistory(StatusOf[x])
  <2>1. x \in Order /\ x # NoOrder
    BY <1>1, <1>5 DEF Order, NoOrder
  <2>2. x \in OrdersOf(a)
    BY <2>1 DEF SnapshotInv, RefsAreOwn
  <2> QED BY <1>1, <1>5, <2>2
<1>6. CASE Cardinality(S) = 1 /\ Resolve(r, a) = FromHistory(StatusOf[only])
  <2>1. S # {}
    BY <1>6, FS_EmptySet
  <2>2. only \in S
    BY <2>1
  <2>3. only \in Order /\ Shape[orders[only].action] = Shape[a]
    BY <2>2, <1>1 DEF Alike
  <2>4. orders[only].action = a
    BY <2>3, SubmitsAreActions DEF ShapesDiffer, SnapshotInv, OrdersAreSubmissions
  <2> QED BY <1>1, <1>6, <2>2, <2>3, <2>4 DEF OrdersOf
<1> QED BY <1>4, <1>5, <1>6

LEMMA ResolutionIsTrue ==
  ASSUME ShapesDiffer, SnapshotInv, NEW r \in Reconciler, NEW a \in Action
  PROVE  /\ a \in Submits /\ Resolve(r, a).state = "reconciled"
               => Became(a, {"filled", "partially_filled"})
         /\ a \in Submits /\ Resolve(r, a).state = "cancelled" => Became(a, {"cancelled"})
         /\ a \notin Submits /\ Resolve(r, a).state = "reconciled"
               => target[a] \in Order /\ orders[target[a]].status = "cancelled"
<1>1. CASE a \in Submits /\ Resolve(r, a).state \in {"reconciled", "cancelled"}
  <2>1. PICK o \in OrdersOf(a) : Resolve(r, a) = FromHistory(orders[o].status)
    BY <1>1, ResolvedFrom
  <2>2. PICK s : s = orders[o].status /\ Resolve(r, a) = FromHistory(s)
    BY <2>1
  <2>3. CASE Resolve(r, a).state = "reconciled"
    <3>1. s \in {"filled", "partially_filled"}
      BY <2>2, <2>3 DEF FromHistory, Resolution, Pending, Unresolved
    <3> QED BY <1>1, <2>2, <2>3, <3>1 DEF Became
  <2>4. CASE Resolve(r, a).state = "cancelled"
    <3>1. s = "cancelled"
      BY <2>2, <2>4 DEF FromHistory, Resolution, Pending, Unresolved
    <3> QED BY <1>1, <2>2, <2>4, <3>1 DEF Became
  <2> QED BY <1>1, <2>3, <2>4
<1>2. CASE a \notin Submits /\ Resolve(r, a).state = "reconciled"
  <2> DEFINE x == target[a]
             H == pass[r].history
  <2>1. Resolve(r, a) = ResolveCancel(x, pass[r].pending, H, StatusOf)
    BY <1>2 DEF Resolve
  <2>2. x \in H /\ StatusOf[x] = "cancelled"
    <3> HIDE DEF x, H
    <3> QED BY <1>2, <2>1 DEF ResolveCancel, Resolution, Pending, Unresolved
  <2>3. x \in Order
    BY <2>2 DEF SnapshotInv, SnapshotsAreSettled, Settled
  <2> QED BY <1>2, <2>2, <2>3 DEF StatusOf
<1> QED BY <1>1, <1>2

LEMMA ConclusionNext ==
  ASSUME ShapesDiffer, TypeOK, SnapshotInv, \A a \in Action : Concluded(a),
         [ApprovalNext]_allVars, NEW a \in Action
  PROVE  Concluded(a)'
<1>1. OrdersStay
  BY OrdersKept DEF SnapshotInv, BrokerTyped
<1>2. SUFFICES ASSUME row'[a].state \in {"reconciled", "cancelled"} PROVE Concluded(a)'
  BY DEF Concluded
<1>3. CASE row'[a].state = row[a].state
  <2>1. target'[a] = target[a]
    <3>1. ASSUME NEW b \in Action, NEW o \in Order, PrepareCancel(b, o)
          PROVE  target'[a] = target[a]
      <4>1. b # a
        BY <1>2, <1>3, <3>1 DEF PrepareCancel, Create, Exists
      <4> QED BY <3>1, <4>1 DEF PrepareCancel, SnapshotInv, BrokerTyped
    <3> QED BY <3>1, TargetStep
  <2>2. {"filled", "partially_filled"} \subseteq FinalStatus /\ {"cancelled"} \subseteq FinalStatus
    BY DEF FinalStatus
  <2>3. a \notin Submits /\ row[a].state = "reconciled"
          => target'[a] \in Order' /\ orders'[target'[a]].status = "cancelled"
    BY <1>1, <2>1, <2>2 DEF Concluded, OrdersStay
  <2> QED BY <1>1, <1>3, <2>2, <2>3, SettledStays DEF Concluded
<1>4. CASE \E r \in Reconciler : ApplyResolution(r, a) /\ row'[a].state = Resolve(r, a).state
  <2> PICK r \in Reconciler : ApplyResolution(r, a) /\ row'[a].state = Resolve(r, a).state
    BY <1>4
  <2>1. UNCHANGED <<orders, target>>
    BY DEF ApplyResolution, broker
  <2>2. Order' = Order /\ \A F : Became(a, F)' <=> Became(a, F)
    BY <2>1 DEF Order, Became, OrdersOf
  <2>3. SnapshotInv /\ ShapesDiffer
    OBVIOUS
  <2> QED BY <2>1, <2>2, <2>3, ResolutionIsTrue DEF Concluded
<1> QED BY <1>2, <1>3, <1>4, RowStep

\* Whatever the snapshots of a pass have missed, however often the bot crashes, an
\* action is approved again or reconcilers overtake each other: what is concluded
\* of an action is what became of an order of its own.
THEOREM ConclusionsAreTrue ==
  ASSUME ShapesDiffer PROVE ApprovalSpec => []ConclusionIsTrue
<1> DEFINE All == \A a \in Action : Concluded(a)
<1>1. ApprovalInit => SnapshotInv /\ All
  BY SnapshotInit DEF ApprovalInit, Init, Concluded
<1>2. TypeOK /\ BInv /\ SnapshotInv /\ All /\ [ApprovalNext]_allVars => SnapshotInv' /\ All'
  BY SnapshotNext, ConclusionNext
<1>3. All => ConclusionIsTrue
  BY DEF Concluded, ConclusionIsTrue
<1> QED BY <1>1, <1>2, <1>3, StoreAndQueue, PTL DEF ApprovalSpec

-----------------------------------------------------------------------------
(* Which orders have their approval event *)

\* What the bot is working on is still to be recorded, and does not count as lost.
ToRecord ==
    \/ InSession
    \/ bot.pc = "reply" /\ step = "event" /\ bot.result \in {"submitted", "failed"}
Lost == {a \in Untraced : ~(ToRecord /\ bot.action = a)}

CallersTyped ==
    /\ prep \in [Action -> PrepState] /\ buttons \in [Action -> BOOLEAN]
    /\ linked \in [Action -> BOOLEAN] /\ events \in [Action -> SUBSET {"approve", "reject"}]

\* The proposal of a submission names its action before anybody can press a button.
LinkedFirst ==
    \A a \in Submits :
        /\ prep[a] \in {"linked", "sent"} => linked[a]
        /\ buttons[a] => linked[a]
        /\ \A i \in DOMAIN updates : updates[i].action = a => linked[a]
        /\ bot.pc # "idle" /\ bot.action = a => linked[a]

FinalizesReply == step # "event" => bot.pc = "reply"

TraceInv == CallersTyped /\ LinkedFirst /\ FinalizesReply

LEMMA TraceInit == ApprovalInit => TraceInv /\ Lost = {}
BY SubmitsAreActions
   DEF ApprovalInit, Init, TraceInv, CallersTyped, LinkedFirst, FinalizesReply, Lost,
       Untraced, Order, PrepState, Idle

\* The bot takes up the first update, goes on with its action, or is idle.
LEMMA BotStep ==
  ASSUME TypeOK, BInv, [ApprovalNext]_allVars
  PROVE  \/ bot' = bot
         \/ /\ HandleTap /\ bot'.action = Head(updates).action
            /\ updates # <<>> /\ bot.pc = "idle" /\ step' = "event" /\ updates' = updates
         \/ /\ bot'.action = bot.action /\ InSession /\ step' = step /\ updates' = updates
            /\ \/ InSession'
               \/ bot'.pc = "reply" /\ bot'.result \in {"submitted", "failed"}
         \/ /\ bot' = Idle /\ step' = "event"
            /\ \/ failures' = failures + 1 /\ (ProcessCrash \/ TransactionRefused)
               \/ failures' = failures /\ FinishUpdate
<1>1. CASE Prepare \/ Person \/ Settle \/ Time \/ UNCHANGED allVars
  BY <1>1 DEF Prepare, Propose, PrepareSubmit, PreparationFails, PrepareCancel,
     LinkProposal, SendApproval, AttachSent, SentWithoutId, Create, AttachMessage, Get,
     Person, Tap, Settle, OrderSettles, Time, Tick, allVars, vars
<1>2. CASE HandleTap
  <2>1. ASSUME NEW a, Approve(a) \/ RejectAny(a) PROVE bot'.action = a /\ bot.pc = "idle"
    <3>1. CASE ApproveOpens(a)
      <4>1. bot' = [pc |-> "calling", action |-> a, result |-> NoAction]
        BY <3>1 DEF ApproveOpens, Idle
      <4> QED BY <3>1, <4>1 DEF ApproveOpens
    <3>2. CASE ApproveExpires(a) \/ ApproveAlreadyClosed(a) \/ ApproveWithoutBroker(a)
      BY <3>2 DEF ApproveExpires, ApproveAlreadyClosed, ApproveWithoutBroker, Answer
    <3>3. CASE RejectAny(a)
      BY <3>3 DEF RejectAny, RejectExpires, RejectAlreadyClosed, Reject, Answer
    <3> QED BY <2>1, <3>1, <3>2, <3>3 DEF Approve
  <2> QED BY <1>2, <2>1 DEF HandleTap
<1>3. CASE CallReaches \/ CallRefused
  <2>1. PICK pc \in {"answered", "lost", "refused"} : bot' = [bot EXCEPT !.pc = pc]
    BY <1>3 DEF CallReaches, BrokerAccepts, BrokerAnswerLost, CallRefused, BrokerRefuses
  <2>2. bot.pc = "calling" /\ step' = step /\ updates' = updates
    BY <1>3 DEF CallReaches, BrokerAccepts, BrokerAnswerLost, CallRefused, BrokerRefuses,
       callers
  <2>3. bot'.action = bot.action /\ bot'.pc = pc
    BY <2>1 DEF TypeOK
  <2> QED BY <2>2, <2>3 DEF InSession
<1>4. CASE KeepAnswer \/ KeepFailure
  BY <1>4 DEF KeepAnswer, CommitSubmitted, KeepFailure, CommitFailed, InSession, Answer,
     callers
<1>5. CASE HandleStranger \/ RecordEvent \/ RecordAttempt \/ MarkProposal
  BY <1>5 DEF HandleStranger, RecordEvent, RecordAttempt, MarkProposal, vars
<1>6. CASE FinishUpdate \/ ProcessCrash \/ TransactionRefused
  BY <1>6 DEF FinishUpdate, Reply, ProcessCrash, TransactionRefused, Interrupted, RollBack
<1>7. ASSUME NEW r \in Reconciler, Pass(r) \/ PassAborts(r) PROVE bot' = bot
  BY <1>7 DEF Pass, PassAborts, ListActions, FetchPending, FetchHistory,
     ApplyResolution, SyncAttempt, SyncProposal, PassEnds, ListSubmitted,
     ApplyReconciliation, ReconcilerStops, vars
<1> QED BY <1>1, <1>2, <1>3, <1>4, <1>5, <1>6, <1>7 DEF ApprovalNext, Bot

\* The links of proposals and the decisions journaled are never taken back.
LEMMA JournalGrows ==
  ASSUME CallersTyped, [ApprovalNext]_allVars
  PROVE  /\ CallersTyped'
         /\ \A a \in Action : (linked[a] => linked'[a]) /\ events[a] \subseteq events'[a]
<1>1. CASE Prepare
  <2>1. ASSUME NEW a \in Action, Propose(a) \/ PrepareSubmit(a) \/ PreparationFails(a)
                                 \/ SendApproval(a) \/ AttachSent(a) \/ SentWithoutId(a)
                                 \/ LinkProposal(a) \/ \E o \in Order : PrepareCancel(a, o)
        PROVE  /\ \E s \in PrepState : prep' = [prep EXCEPT ![a] = s]
               /\ buttons' = buttons \/ buttons' = [buttons EXCEPT ![a] = TRUE]
               /\ linked' = linked \/ linked' = [linked EXCEPT ![a] = TRUE]
               /\ events' = events
    BY <2>1 DEF Propose, PrepareSubmit, PreparationFails, PrepareCancel, LinkProposal,
       SendApproval, AttachSent, SentWithoutId, PrepState, journal
  <2>2. PICK a \in Action :
               /\ \E s \in PrepState : prep' = [prep EXCEPT ![a] = s]
               /\ buttons' = buttons \/ buttons' = [buttons EXCEPT ![a] = TRUE]
               /\ linked' = linked \/ linked' = [linked EXCEPT ![a] = TRUE]
               /\ events' = events
    BY <1>1, <2>1 DEF Prepare
  <2> QED BY <2>2 DEF CallersTyped
<1>2. CASE RecordEvent
  <2>1. /\ UNCHANGED <<prep, buttons, linked>>
        /\ \/ events' = events
           \/ \E v \in {"approve", "reject"} :
                 events' = [events EXCEPT ![bot.action] = @ \cup {v}]
    BY <1>2 DEF RecordEvent
  <2> QED BY <2>1 DEF CallersTyped
<1>3. CASE FinishUpdate
  <2>1. /\ UNCHANGED <<prep, linked, events>>
        /\ buttons' = buttons \/ buttons' = [buttons EXCEPT ![bot.action] = FALSE]
    BY <1>3 DEF FinishUpdate, journal
  <2> QED BY <2>1 DEF CallersTyped
<1>4. CASE ProcessCrash \/ TransactionRefused
  <2>1. /\ UNCHANGED <<buttons, linked, events>>
        /\ \/ prep' = [a \in Action |-> IF prep[a] \in {"none", "done"} THEN prep[a]
                                     ELSE IF prep[a] = "sent" THEN "done" ELSE "stopped"]
           \/ prep' = prep
    BY <1>4 DEF ProcessCrash, TransactionRefused, Interrupted, journal
  <2> QED BY <2>1 DEF CallersTyped, PrepState
<1>5. ASSUME UNCHANGED <<prep, buttons, linked, events>>
      PROVE  /\ CallersTyped'
             /\ \A a \in Action : (linked[a] => linked'[a]) /\ events[a] \subseteq events'[a]
  BY <1>5 DEF CallersTyped
<1>6. CASE HandleTap \/ HandleStranger \/ RecordAttempt \/ MarkProposal
           \/ CallReaches \/ CallRefused \/ KeepAnswer \/ KeepFailure
  BY <1>5, <1>6 DEF HandleTap, HandleStranger, RecordAttempt, MarkProposal, CallReaches,
     CallRefused, KeepAnswer, KeepFailure, callers, journal
<1>7. CASE Person \/ Settle \/ Time \/ UNCHANGED allVars
  BY <1>5, <1>7 DEF Person, Tap, Settle, OrderSettles, Time, allVars, callers, journal
<1>8. ASSUME NEW r \in Reconciler, Pass(r) \/ PassAborts(r)
      PROVE  UNCHANGED <<prep, buttons, linked, events>>
  BY <1>8 DEF Pass, PassAborts, ListActions, FetchPending, FetchHistory, ApplyResolution,
     SyncAttempt, SyncProposal, PassEnds, callers, journal
<1> QED
  BY <1>1, <1>2, <1>3, <1>4, <1>5, <1>6, <1>7, <1>8 DEF ApprovalNext, Bot

\* How far a preparation gets in a step, and which message shows its buttons.
LEMMA PreparationStep ==
  ASSUME CallersTyped, [ApprovalNext]_allVars, NEW a \in Submits
  PROVE  /\ prep'[a] \in {"linked", "sent"} =>
               prep[a] \in {"linked", "sent"} \/ LinkProposal(a)
         /\ buttons'[a] => buttons[a] \/ prep[a] = "linked"
<1>0. a \in Action
  BY SubmitsAreActions
<1>1. CASE Prepare
  <2>1. ASSUME NEW b \in Action,
               \/ Propose(b) \/ PrepareSubmit(b) \/ PreparationFails(b)
               \/ AttachSent(b) \/ SentWithoutId(b)
        PROVE  /\ \E s \in PrepState \ {"linked", "sent"} : prep' = [prep EXCEPT ![b] = s]
               /\ buttons' = buttons
    BY <2>1 DEF Propose, PrepareSubmit, PreparationFails, AttachSent, SentWithoutId, PrepState
  <2>2. ASSUME NEW b \in Action, LinkProposal(b)
        PROVE  prep' = [prep EXCEPT ![b] = "linked"] /\ buttons' = buttons
    BY <2>2 DEF LinkProposal
  <2>3. ASSUME NEW b \in Action, SendApproval(b)
        PROVE  /\ prep[b] = "linked" /\ prep' = [prep EXCEPT ![b] = "sent"]
               /\ buttons' = [buttons EXCEPT ![b] = TRUE]
    BY <2>3 DEF SendApproval
  <2>4. ASSUME NEW b \in Action, NEW o \in Order, PrepareCancel(b, o)
        PROVE  b # a /\ prep' = [prep EXCEPT ![b] = "linked"] /\ buttons' = buttons
    BY <2>4 DEF PrepareCancel
  <2>5. PICK b \in Action :
          \/ Propose(b) \/ PrepareSubmit(b) \/ PreparationFails(b)
          \/ \E o \in Order : PrepareCancel(b, o)
          \/ LinkProposal(b) \/ SendApproval(b) \/ AttachSent(b) \/ SentWithoutId(b)
    BY <1>1 DEF Prepare
  <2>6. CASE Propose(b) \/ PrepareSubmit(b) \/ PreparationFails(b)
             \/ AttachSent(b) \/ SentWithoutId(b)
    BY <1>0, <2>1, <2>6 DEF CallersTyped
  <2>7. CASE LinkProposal(b)
    BY <1>0, <2>2, <2>7 DEF CallersTyped
  <2>8. CASE SendApproval(b)
    BY <1>0, <2>3, <2>8 DEF CallersTyped
  <2>9. CASE \E o \in Order : PrepareCancel(b, o)
    BY <1>0, <2>4, <2>9 DEF CallersTyped
  <2> QED BY <2>5, <2>6, <2>7, <2>8, <2>9
<1>2. CASE FinishUpdate
  BY <1>0, <1>2 DEF FinishUpdate, CallersTyped
<1>3. CASE ProcessCrash \/ TransactionRefused
  BY <1>0, <1>3 DEF ProcessCrash, TransactionRefused, Interrupted
<1>4. CASE HandleTap \/ HandleStranger \/ RecordEvent \/ RecordAttempt \/ MarkProposal
           \/ CallReaches \/ CallRefused \/ KeepAnswer \/ KeepFailure
  BY <1>4 DEF HandleTap, HandleStranger, RecordEvent, RecordAttempt, MarkProposal,
     CallReaches, CallRefused, KeepAnswer, KeepFailure, callers
<1>5. CASE Person \/ Settle \/ Time \/ UNCHANGED allVars
  BY <1>5 DEF Person, Tap, Settle, OrderSettles, Time, allVars, callers
<1>6. ASSUME NEW r \in Reconciler, Pass(r) \/ PassAborts(r) PROVE UNCHANGED <<prep, buttons>>
  BY <1>6 DEF Pass, PassAborts, ListActions, FetchPending, FetchHistory, ApplyResolution,
     SyncAttempt, SyncProposal, PassEnds, callers
<1> QED BY <1>1, <1>2, <1>3, <1>4, <1>5, <1>6 DEF ApprovalNext, Bot

\* An update is a press of buttons that are shown, and is handled from the front.
LEMMA UpdatesStep ==
  ASSUME BInv, [ApprovalNext]_allVars
  PROVE  \/ updates' = updates
         \/ updates # <<>> /\ updates' = Tail(updates)
         \/ \E u \in Update : buttons[u.action] /\ updates' = Append(updates, u)
<1>1. CASE Person
  <2> PICK a \in Action, v \in Verb, w \in User : Tap(a, v, w)
    BY <1>1 DEF Person
  <2> DEFINE u == [verb |-> v, action |-> a, user |-> w]
  <2>1. u \in Update /\ u.action = a /\ buttons[a] /\ updates' = Append(updates, u)
    BY DEF Tap, Update
  <2> QED BY <2>1
<1>2. CASE HandleStranger \/ FinishUpdate
  BY <1>2 DEF HandleStranger, FinishUpdate, Reply, BInv
<1>3. CASE ProcessCrash \/ TransactionRefused
  BY <1>3 DEF ProcessCrash, TransactionRefused, Interrupted, BInv
<1>4. CASE HandleTap \/ RecordEvent \/ RecordAttempt \/ MarkProposal
           \/ CallReaches \/ CallRefused \/ KeepAnswer \/ KeepFailure
  BY <1>4 DEF HandleTap, RecordEvent, RecordAttempt, MarkProposal,
     CallReaches, CallRefused, KeepAnswer, KeepFailure, callers
<1>5. CASE Prepare \/ Settle \/ Time \/ UNCHANGED allVars
  BY <1>5 DEF Prepare, Propose, PrepareSubmit, PreparationFails, PrepareCancel,
     LinkProposal, SendApproval, AttachSent, SentWithoutId, Settle, OrderSettles, Time,
     allVars, callers
<1>6. ASSUME NEW r \in Reconciler, Pass(r) \/ PassAborts(r) PROVE updates' = updates
  BY <1>6 DEF Pass, PassAborts, ListActions, FetchPending, FetchHistory, ApplyResolution,
     SyncAttempt, SyncProposal, PassEnds, callers
<1> QED BY <1>1, <1>2, <1>3, <1>4, <1>5, <1>6 DEF ApprovalNext, Bot

LEMMA InTail ==
  ASSUME NEW S, NEW s \in Seq(S), s # <<>>, NEW i \in DOMAIN Tail(s)
  PROVE  i + 1 \in DOMAIN s /\ Tail(s)[i] = s[i + 1]
OBVIOUS

LEMMA InAppend ==
  ASSUME NEW S, NEW s \in Seq(S), NEW e \in S, NEW i \in DOMAIN Append(s, e)
  PROVE  Append(s, e)[i] = e \/ (i \in DOMAIN s /\ Append(s, e)[i] = s[i])
OBVIOUS

LEMMA TraceNext ==
  ASSUME TypeOK, BInv, TraceInv, [ApprovalNext]_allVars
  PROVE  TraceInv'
<1>1. CallersTyped' /\ \A a \in Action : linked[a] => linked'[a]
  BY JournalGrows DEF TraceInv
<1>2. ASSUME NEW a \in Submits
      PROVE  /\ prep'[a] \in {"linked", "sent"} => linked'[a]
             /\ buttons'[a] => linked'[a]
  <2>1. LinkProposal(a) => linked'[a]
    BY SubmitsAreActions DEF LinkProposal, TraceInv, CallersTyped
  <2> QED BY <1>1, <2>1, PreparationStep, SubmitsAreActions DEF TraceInv, LinkedFirst
<1>3. ASSUME NEW a \in Submits, NEW i \in DOMAIN updates', updates'[i].action = a
      PROVE  linked'[a]
  <2>1. SUFFICES linked[a]
    BY <1>1, SubmitsAreActions
  <2>2. CASE updates' = updates
    BY <1>3, <2>2 DEF TraceInv, LinkedFirst
  <2>3. CASE updates # <<>> /\ updates' = Tail(updates)
    BY <1>3, <2>3, InTail DEF TraceInv, LinkedFirst, BInv
  <2>4. ASSUME NEW u \in Update, buttons[u.action], updates' = Append(updates, u)
        PROVE  linked[a]
    <3>1. \/ updates'[i] = u
          \/ i \in DOMAIN updates /\ updates'[i] = updates[i]
      BY <1>3, <2>4, InAppend DEF BInv
    <3> QED BY <1>3, <2>4, <3>1 DEF TraceInv, LinkedFirst
  <2> QED BY <2>2, <2>3, <2>4, UpdatesStep
<1>4. ASSUME NEW a \in Submits, bot'.pc # "idle", bot'.action = a
      PROVE  linked'[a]
  <2>1. SUFFICES linked[a]
    BY <1>1, SubmitsAreActions
  <2>2. CASE bot' = bot
    BY <1>4, <2>2 DEF TraceInv, LinkedFirst
  <2>3. CASE bot'.action = Head(updates).action /\ updates # <<>>
    <3>1. 1 \in DOMAIN updates /\ Head(updates) = updates[1]
      BY <2>3 DEF BInv
    <3> QED BY <1>4, <2>3, <3>1 DEF TraceInv, LinkedFirst
  <2>4. CASE bot'.action = bot.action /\ InSession
    BY <1>4, <2>4 DEF TraceInv, LinkedFirst, InSession
  <2>5. CASE bot' = Idle
    BY <1>4, <2>5 DEF Idle
  <2> QED BY <2>2, <2>3, <2>4, <2>5, BotStep
<1>5. FinalizesReply'
  <2>1. CASE RecordEvent \/ RecordAttempt \/ MarkProposal
    BY <2>1 DEF RecordEvent, RecordAttempt, MarkProposal, vars, TraceInv, FinalizesReply
  <2>2. CASE Prepare \/ Person \/ Settle \/ Time \/ UNCHANGED allVars
    BY <2>2 DEF Prepare, Propose, PrepareSubmit, PreparationFails, PrepareCancel,
       LinkProposal, SendApproval, AttachSent, SentWithoutId, Person, Tap, Settle,
       OrderSettles, Time, Tick, Create, AttachMessage, Get, allVars, callers, vars,
       TraceInv, FinalizesReply
  <2>3. CASE HandleTap \/ FinishUpdate \/ ProcessCrash \/ TransactionRefused
    BY <2>3 DEF HandleTap, FinishUpdate, ProcessCrash, TransactionRefused, Interrupted,
       FinalizesReply
  <2>4. CASE CallReaches \/ CallRefused \/ KeepAnswer \/ KeepFailure
    <3>1. step' = step /\ bot.pc # "reply"
      BY <2>4 DEF CallReaches, CallRefused, KeepAnswer, KeepFailure, callers, BrokerAccepts,
         BrokerAnswerLost, BrokerRefuses, CommitSubmitted, CommitFailed
    <3> QED BY <3>1 DEF TraceInv, FinalizesReply
  <2>5. CASE HandleStranger
    BY <2>5 DEF HandleStranger, vars, TraceInv, FinalizesReply
  <2>6. ASSUME NEW r \in Reconciler, Pass(r) \/ PassAborts(r) PROVE UNCHANGED <<step, bot>>
    BY <2>6 DEF Pass, PassAborts, ListActions, FetchPending, FetchHistory, ApplyResolution,
       SyncAttempt, SyncProposal, PassEnds, ListSubmitted, ApplyReconciliation,
       ReconcilerStops, callers, vars
  <2>7. UNCHANGED <<step, bot>> => FinalizesReply'
    BY DEF TraceInv, FinalizesReply
  <2> QED BY <2>1, <2>2, <2>3, <2>4, <2>5, <2>6, <2>7 DEF ApprovalNext, Bot
<1> QED BY <1>1, <1>2, <1>3, <1>4, <1>5 DEF TraceInv, LinkedFirst

LEMMA UntracedStep ==
  ASSUME TypeOK, SnapshotInv, TraceInv, [ApprovalNext]_allVars, NEW a \in Untraced'
  PROVE  a \in Untraced \/ (OrderPlaced /\ a = bot.action)
<1>1. a \in Action /\ "approve" \notin events[a]
  BY JournalGrows DEF Untraced, TraceInv
<1>2. PICK o \in Order' : orders'[o].action = a
  BY DEF Untraced
<1>3. CASE o \in Order
  <2>1. orders[o].action = a
    BY <1>2, <1>3, OrdersKept DEF OrdersStay, SnapshotInv, BrokerTyped
  <2> QED BY <1>1, <1>3, <2>1 DEF Untraced
<1>4. CASE o \notin Order
  <2>1. orders \in Seq(Placement) /\ OrderPlaced
    BY <1>4, OrdersGrow DEF Order, SnapshotInv, BrokerTyped
  <2>2. o = Len(orders) + 1
    BY <1>4, <2>1 DEF OrderPlaced, Order
  <2> QED BY <1>2, <2>1, <2>2 DEF OrderPlaced
<1> QED BY <1>3, <1>4

\* Only a failure loses the approval event of an order, and of one action's alone: the
\* one in work. In every other step the action in work stays to be recorded, or is.
LEMMA LostStep ==
  ASSUME TypeOK, BInv, SnapshotInv, TraceInv, [ApprovalNext]_allVars
  PROVE  \/ Lost' \subseteq Lost
         \/ failures' = failures + 1 /\ Lost' \subseteq Lost \cup {bot.action}
<1>1. SUFFICES ASSUME NEW a \in Lost', a \notin Lost, NEW b \in Lost', b \notin Lost
               PROVE  failures' = failures + 1 /\ a = bot.action
  OBVIOUS
<1>2. ASSUME NEW c \in Lost', c \notin Lost
      PROVE  /\ OrderPlaced \/ ToRecord
             /\ c = bot.action /\ "approve" \notin events'[c]
  <2>1. c \in Untraced' /\ "approve" \notin events'[c]
    BY <1>2 DEF Lost, Untraced
  <2> QED BY <1>2, <2>1, UntracedStep DEF Lost
<1>3. a = bot.action /\ (OrderPlaced \/ ToRecord) /\ a \in Untraced'
      /\ "approve" \notin events'[a]
  BY <1>1, <1>2 DEF Lost
<1>4. OrderPlaced => InSession
  BY DEF OrderPlaced, InSession
<1>5. ~(ToRecord' /\ bot'.action = a)
  BY DEF Lost
<1>6. a \in Submits
  <2>1. OrdersAreSubmissions'
    BY SnapshotNext DEF SnapshotInv
  <2> QED BY <1>3, <2>1 DEF Untraced, OrdersAreSubmissions
<1>7. CASE ProcessCrash \/ TransactionRefused
  BY <1>3, <1>7 DEF ProcessCrash, TransactionRefused, Interrupted, RollBack
<1>8. CASE RecordEvent
  <2>1. bot.pc = "reply" /\ bot.result \in {"submitted", "failed"}
    BY <1>3, <1>4, <1>8 DEF RecordEvent, ToRecord, InSession
  <2>2. linked[a]
    BY <1>3, <1>6, <2>1 DEF TraceInv, LinkedFirst
  <2>3. events' = [events EXCEPT ![a] = @ \cup {"approve"}]
    BY <1>3, <1>8, <2>1, <2>2 DEF RecordEvent, Journals
  <2> QED BY <1>3, <1>6, <2>3, SubmitsAreActions DEF TraceInv, CallersTyped
<1>9. CASE bot' = bot /\ step' = step
  BY <1>3, <1>4, <1>5, <1>9 DEF ToRecord, InSession
<1>10. CASE HandleTap
  <2>1. bot.pc = "idle"
    BY <1>10 DEF HandleTap, Approve, RejectAny, ApproveExpires, ApproveAlreadyClosed,
       ApproveWithoutBroker, ApproveOpens, RejectExpires, RejectAlreadyClosed, Reject
  <2> QED BY <1>3, <1>4, <2>1 DEF ToRecord, InSession
<1>11. CASE bot'.action = bot.action /\ InSession /\ step' = step
            /\ (InSession' \/ (bot'.pc = "reply" /\ bot'.result \in {"submitted", "failed"}))
  <2>1. step = "event"
    BY <1>11 DEF TraceInv, FinalizesReply, InSession
  <2> QED BY <1>3, <1>5, <1>11, <2>1 DEF ToRecord, InSession
<1>12. CASE RecordAttempt \/ MarkProposal \/ FinishUpdate
  <2>1. step # "event" /\ bot.pc = "reply"
    BY <1>12 DEF RecordAttempt, MarkProposal, FinishUpdate, TraceInv, FinalizesReply
  <2> QED BY <1>3, <1>4, <2>1 DEF ToRecord, InSession
<1>13. CASE bot' = bot
  <2>1. step' = step \/ RecordEvent \/ RecordAttempt \/ MarkProposal
        \/ HandleTap \/ FinishUpdate \/ ProcessCrash \/ TransactionRefused
    <3>1. CASE Prepare \/ Person \/ Settle \/ Time \/ UNCHANGED allVars
      BY <3>1 DEF Prepare, Propose, PrepareSubmit, PreparationFails, PrepareCancel,
         LinkProposal, SendApproval, AttachSent, SentWithoutId, Person, Tap, Settle,
         OrderSettles, Time, allVars, callers
    <3>2. CASE HandleStranger \/ CallReaches \/ CallRefused \/ KeepAnswer \/ KeepFailure
      BY <3>2 DEF HandleStranger, CallReaches, CallRefused, KeepAnswer, KeepFailure, callers
    <3>3. ASSUME NEW r \in Reconciler, Pass(r) \/ PassAborts(r) PROVE step' = step
      BY <3>3 DEF Pass, PassAborts, ListActions, FetchPending, FetchHistory,
         ApplyResolution, SyncAttempt, SyncProposal, PassEnds, callers
    <3> QED BY <3>1, <3>2, <3>3 DEF ApprovalNext, Bot
  <2> QED BY <1>7, <1>8, <1>9, <1>10, <1>12, <1>13, <2>1
<1> QED BY <1>7, <1>10, <1>11, <1>12, <1>13, BotStep

LEMMA FailuresStep ==
  ASSUME TypeOK, BInv, [ApprovalNext]_allVars
  PROVE  failures' = failures \/ failures' = failures + 1
<1>1. [Next]_vars
  BY StepOfStore
<1> QED
  BY <1>1 DEF Next, vars, Create, AttachMessage, Get, Approve, RejectAny, ApproveExpires,
     ApproveAlreadyClosed, ApproveWithoutBroker, ApproveOpens, RejectExpires,
     RejectAlreadyClosed, Reject, Execute, BrokerAccepts, BrokerAnswerLost, BrokerRefuses,
     CommitSubmitted, CommitFailed, Reply, RollBack, Reconcile, ListSubmitted,
     ApplyReconciliation, ReconcilerStops, Tick

FewLost == Cardinality(Lost) <= failures

LEMMA FewLostNext ==
  ASSUME TypeOK, BInv, SnapshotInv, TraceInv, FewLost, [ApprovalNext]_allVars
  PROVE  FewLost'
<1>1. Lost \subseteq Action /\ Lost' \subseteq Action
  BY DEF Lost, Untraced
<1>2. IsFiniteSet(Lost) /\ IsFiniteSet(Lost') /\ Cardinality(Lost) \in Nat
      /\ Cardinality(Lost') \in Nat /\ failures \in Nat
  BY <1>1, ActionIsFinite, FS_Subset, FS_CardinalityType DEF TypeOK
<1>3. CASE Lost' \subseteq Lost
  <2>1. Cardinality(Lost') <= Cardinality(Lost)
    BY <1>2, <1>3, FS_Subset
  <2> QED BY <1>2, <2>1, FailuresStep DEF FewLost
<1>4. CASE failures' = failures + 1 /\ Lost' \subseteq Lost \cup {bot.action}
  <2> DEFINE S == Lost \cup {bot.action}
  <2>1. IsFiniteSet(S) /\ Cardinality(S) <= Cardinality(Lost) + 1 /\ Cardinality(S) \in Nat
    <3>1. IsFiniteSet(S) /\ Cardinality(S) = IF bot.action \in Lost THEN Cardinality(Lost)
                                             ELSE Cardinality(Lost) + 1
      BY <1>2, FS_AddElement
    <3> QED BY <1>2, <3>1
  <2>2. Lost' \in SUBSET S
    BY <1>4
  <2> HIDE DEF S
  <2>3. Cardinality(Lost') <= Cardinality(S)
    BY <2>1, <2>2, FS_Subset
  <2> QED BY <1>2, <1>4, <2>1, <2>3 DEF FewLost
<1> QED BY <1>3, <1>4, LostStep

LEMMA LossIsCounted == ApprovalSpec => [](TypeOK /\ TraceInv /\ SnapshotInv /\ FewLost)
<1>1. ApprovalInit => SnapshotInv /\ TraceInv /\ FewLost
  <2>1. ApprovalInit => failures = 0
    BY DEF ApprovalInit, Init
  <2> QED BY <2>1, SnapshotInit, TraceInit, FS_EmptySet DEF FewLost
<1>2. TypeOK /\ BInv /\ SnapshotInv /\ TraceInv /\ FewLost /\ [ApprovalNext]_allVars
        => SnapshotInv' /\ TraceInv' /\ FewLost'
  BY SnapshotNext, TraceNext, FewLostNext
<1> QED BY <1>1, <1>2, StoreAndQueue, PTL DEF ApprovalSpec

\* While the bot works on nothing, no more actions have an order without an approval
\* event than the bot has crashed or had a transaction refused: whatever people press
\* and reconcilers, deadlines and the broker do, an order escapes the journal in no
\* other way.
THEOREM OnlyFailuresLoseTheTrace == ApprovalSpec => []OrdersAreTraced
<1>1. TraceInv /\ FewLost => OrdersAreTraced
  <2> SUFFICES ASSUME TraceInv, FewLost, bot.pc = "idle"
               PROVE  Cardinality(Untraced) <= failures
    BY DEF OrdersAreTraced
  <2>1. Lost = Untraced
    BY DEF Lost, ToRecord, InSession
  <2> QED BY <2>1 DEF FewLost
<1> QED BY <1>1, LossIsCounted, PTL

=============================================================================
