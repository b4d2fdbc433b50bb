------------------------ MODULE PendingActionsProofs ------------------------
(***************************************************************************)
(* Proofs about PendingActions, for any set of actions, any approval times, *)
(* any bounds and any number of reconciliation processes. Two of them can   *)
(* apply each other's stale resolutions, so what is proved is proved of the *)
(* actions no two of them wrote over each other: "contested" holds the rest.*)
(* ReconciliationQueue, which adds the order in which rows are listed,      *)
(* keeps every submitted row in its queue once: that is proved last.        *)
(***************************************************************************)
EXTENDS ReconciliationQueue, SequenceTheorems, TLAPS

\* Every row, the bot, the lists and the histories keep their types whatever
\* the service, the broker and the reconcilers do.
LEMMA TypeInit == Init => TypeOK
BY TTLIsPositive DEF Init, TypeOK, Row, State, Idle, NoAction

LEMMA TypeNext == TypeOK /\ [Next]_vars => TypeOK'
<1> SUFFICES ASSUME TypeOK, [Next]_vars PROVE TypeOK'
  OBVIOUS
<1> USE TTLIsPositive DEF TypeOK, Row, State, Decision, NoAction, Idle, Answer,
        Resolved
<1>1. ASSUME NEW a \in Action, Create(a) PROVE TypeOK'
  BY <1>1 DEF Create
<1>2. ASSUME NEW a \in Action, AttachMessage(a) PROVE TypeOK'
  BY <1>2 DEF AttachMessage
<1>3. ASSUME NEW a \in Action, Get(a) PROVE TypeOK'
  BY <1>3 DEF Get
<1>4. ASSUME NEW a \in Action, Approve(a) PROVE TypeOK'
  <2>1. CASE ApproveExpires(a)
    BY <2>1 DEF ApproveExpires
  <2>2. CASE ApproveAlreadyClosed(a)
    BY <2>2 DEF ApproveAlreadyClosed
  <2>3. CASE ApproveWithoutBroker(a)
    BY <2>3 DEF ApproveWithoutBroker
  <2>4. CASE ApproveOpens(a)
    BY <2>4 DEF ApproveOpens
  <2> QED BY <1>4, <2>1, <2>2, <2>3, <2>4 DEF Approve
<1>5. ASSUME NEW a \in Action, RejectAny(a) PROVE TypeOK'
  <2>1. CASE RejectExpires(a)
    BY <2>1 DEF RejectExpires
  <2>2. CASE RejectAlreadyClosed(a)
    BY <2>2 DEF RejectAlreadyClosed
  <2>3. CASE Reject(a)
    BY <2>3 DEF Reject
  <2> QED BY <1>5, <2>1, <2>2, <2>3 DEF RejectAny
<1>6. CASE Execute
  BY SMTT(30), <1>6 DEF Execute, BrokerAccepts, BrokerAnswerLost, BrokerRefuses,
              CommitSubmitted, CommitFailed
<1>7. CASE Reply
  BY <1>7 DEF Reply
<1>8. CASE RollBack
  BY <1>8 DEF RollBack
<1>9. ASSUME NEW r \in Reconciler, Reconcile(r) PROVE TypeOK'
  BY SMTT(30), <1>9 DEF Reconcile, ListSubmitted, ApplyReconciliation, ReconcilerStops
<1>10. CASE Tick
  BY <1>10 DEF Tick
<1>11. CASE UNCHANGED vars
  BY <1>11 DEF vars
<1> QED
  BY <1>1, <1>2, <1>3, <1>4, <1>5, <1>6, <1>7, <1>8, <1>9, <1>10, <1>11 DEF Next

\* Type correctness of the pending-action store.
THEOREM TypeCorrect == Spec => []TypeOK
BY TypeInit, TypeNext, PTL DEF Spec
-----------------------------------------------------------------------------
(* The inductive invariant. Neither the account of the calls nor the          *)
(* reconciler's currency is inductive alone: a session that commits submitted *)
(* would break the first if its row were already submitted, and a session or  *)
(* a rejection that moves a submitted row would break the second.             *)

IInv == TypeOK /\ ReconcilerIsCurrent /\ SessionRowIsOpen /\ CallsAccounted

\* The initial states satisfy it: no row, no session, no call.
LEMMA IInvInit == Init => IInv
BY TypeInit DEF Init, IInv, ReconcilerIsCurrent, SessionRowIsOpen, InSession,
   CallsAccounted, InFlight, Idle

\* Every step but a reconciler's, for any number of reconcilers: the row a
\* session works on is not submitted, and nothing else leaves submitted.
LEMMA ServiceStep ==
  ASSUME IInv, TypeOK',
         \/ \E a \in Action : Create(a) \/ AttachMessage(a) \/ Get(a)
                                  \/ Approve(a) \/ RejectAny(a)
         \/ Execute \/ Reply \/ RollBack \/ Tick
  PROVE  IInv'
<1> USE DEF IInv, TypeOK, ReconcilerIsCurrent, SessionRowIsOpen, InSession,
            CallsAccounted, InFlight, Idle, Answer, Exists, IsDue, Row, State
<1>1. ASSUME NEW a \in Action, Create(a) PROVE IInv'
  BY <1>1 DEF Create
<1>2. ASSUME NEW a \in Action, AttachMessage(a) PROVE IInv'
  BY <1>2 DEF AttachMessage
<1>3. ASSUME NEW a \in Action, Get(a) PROVE IInv'
  BY <1>3 DEF Get
<1>4. ASSUME NEW a \in Action, Approve(a) PROVE IInv'
  <2>1. CASE ApproveExpires(a)
    BY <2>1 DEF ApproveExpires
  <2>2. CASE ApproveAlreadyClosed(a)
    BY <2>2 DEF ApproveAlreadyClosed
  <2>3. CASE ApproveWithoutBroker(a)
    BY <2>3 DEF ApproveWithoutBroker, ApproveIsClosed
  <2>4. CASE ApproveOpens(a)
    BY <2>4 DEF ApproveOpens, ApproveIsClosed
  <2> QED BY <1>4, <2>1, <2>2, <2>3, <2>4 DEF Approve
<1>5. ASSUME NEW a \in Action, RejectAny(a) PROVE IInv'
  <2>1. CASE RejectExpires(a)
    BY <2>1 DEF RejectExpires
  <2>2. CASE RejectAlreadyClosed(a)
    BY <2>2 DEF RejectAlreadyClosed
  <2>3. CASE Reject(a)
    BY <2>3 DEF Reject
  <2> QED BY <1>5, <2>1, <2>2, <2>3 DEF RejectAny
<1>6. CASE Execute
  <2>1. CASE BrokerAccepts
    BY <2>1 DEF BrokerAccepts
  <2>2. CASE BrokerAnswerLost
    BY <2>2 DEF BrokerAnswerLost
  <2>3. CASE BrokerRefuses
    BY <2>3 DEF BrokerRefuses
  <2>4. CASE CommitSubmitted
    BY <2>4 DEF CommitSubmitted
  <2>5. CASE CommitFailed
    BY <2>5 DEF CommitFailed
  <2> QED BY <1>6, <2>1, <2>2, <2>3, <2>4, <2>5 DEF Execute
<1>7. CASE Reply
  BY <1>7 DEF Reply
<1>8. CASE RollBack
  BY <1>8 DEF RollBack
<1>9. CASE Tick
  BY <1>9 DEF Tick
<1> QED BY <1>1, <1>2, <1>3, <1>4, <1>5, <1>6, <1>7, <1>8, <1>9

\* A reconciler's step. It writes to a submitted row, which no session works
\* on. If another reconciler holds that row in its list, the row is contested
\* from then on; if the row was contested already, nothing is claimed of it.
LEMMA ReconcilerStep ==
  ASSUME IInv, TypeOK', NEW r \in Reconciler, Reconcile(r)
  PROVE  IInv'
<1> USE DEF IInv, TypeOK, ReconcilerIsCurrent, SessionRowIsOpen, InSession,
            CallsAccounted, InFlight, Row, State
<1>1. ASSUME NEW batch \in SUBSET Action, ListSubmitted(r, batch) PROVE IInv'
  BY <1>1 DEF ListSubmitted
<1>2. ASSUME NEW a \in Action, NEW s \in Resolved, ApplyReconciliation(r, a, s)
      PROVE  IInv'
  <2>1. a \notin contested => row[a].state = "submitted"
    BY <1>2 DEF ApplyReconciliation
  <2>2. ReconcilerIsCurrent'
    <3>1. contested \subseteq contested'
      BY <1>2 DEF ApplyReconciliation
    <3>2. ASSUME NEW q \in Reconciler, NEW b \in listed'[q] \ contested'
          PROVE  row'[b].state = "submitted"
      <4>1. b \in listed[q] \ contested /\ b \in Action
        BY <3>1, <3>2, <1>2 DEF ApplyReconciliation
      <4>2. b # a
        BY <3>2, <1>2 DEF ApplyReconciliation
      <4> QED BY <4>1, <4>2, <1>2 DEF ApplyReconciliation
    <3> QED BY <3>2
  <2>3. SessionRowIsOpen'
    BY <1>2, <2>1 DEF ApplyReconciliation
  <2>4. CallsAccounted'
    BY <1>2, <2>1 DEF ApplyReconciliation, Resolved
  <2> QED BY <2>2, <2>3, <2>4
<1>3. CASE ReconcilerStops(r)
  BY <1>3 DEF ReconcilerStops
<1> QED BY <1>1, <1>2, <1>3 DEF Reconcile

LEMMA IInvNext == IInv /\ [Next]_vars => IInv'
<1> SUFFICES ASSUME IInv, [Next]_vars PROVE IInv'
  OBVIOUS
<1>1. TypeOK'
  BY TypeNext DEF IInv
<1>2. CASE UNCHANGED vars
  BY <1>2 DEF vars, IInv, TypeOK, ReconcilerIsCurrent, SessionRowIsOpen,
              InSession, CallsAccounted, InFlight
<1>3. CASE \E r \in Reconciler : Reconcile(r)
  BY <1>1, <1>3, ReconcilerStep
<1> QED BY <1>1, <1>2, <1>3, ServiceStep DEF Next

THEOREM IInvHolds == Spec => []IInv
BY IInvInit, IInvNext, PTL DEF Spec

-----------------------------------------------------------------------------
(* What follows from it *)

\* A reconciler's resolution is stale when it is written only if another
\* reconciler's was written in between: however many of them run, no button,
\* deadline, open session or crash makes it so.
THEOREM ReconcilerCurrent == Spec => []ReconcilerIsCurrent
<1>1. IInv => ReconcilerIsCurrent
  BY DEF IInv
<1> QED BY <1>1, IInvHolds, PTL

\* Nothing closes a row under an open approval session.
THEOREM SessionSafe == Spec => []SessionRowIsOpen
<1>1. IInv => SessionRowIsOpen
  BY DEF IInv
<1> QED BY <1>1, IInvHolds, PTL

\* Every broker call is accounted for.
THEOREM CallsAreAccounted == Spec => []CallsAccounted
<1>1. IInv => CallsAccounted
  BY DEF IInv
<1> QED BY <1>1, IInvHolds, PTL

\* No call reaches the broker for a submitted, rejected or expired row. Only
\* the session's broker steps change calls, and their row is open.
THEOREM NoCallWhenClosed == Spec => ClosedMakesNoCall
<1> DEFINE Quiet == \A a \in Action \ contested :
                      row[a].state \in {"submitted", "rejected", "expired"}
                          => calls'[a] = calls[a]
<1>1. IInv /\ [Next]_vars => [Quiet]_vars
  <2> SUFFICES ASSUME IInv, Next PROVE Quiet
    OBVIOUS
  <2> USE DEF IInv, TypeOK, SessionRowIsOpen, InSession
  <2>1. CASE \E a \in Action : Create(a) \/ AttachMessage(a) \/ Get(a)
                                  \/ Approve(a) \/ RejectAny(a)
    BY <2>1 DEF Create, AttachMessage, Get, Approve, ApproveExpires,
         ApproveAlreadyClosed, ApproveWithoutBroker, ApproveOpens, RejectAny,
         RejectExpires, RejectAlreadyClosed, Reject
  <2>2. CASE Execute
    BY <2>2 DEF Execute, BrokerAccepts, BrokerAnswerLost, BrokerRefuses,
         CommitSubmitted, CommitFailed
  <2>3. CASE Reply \/ RollBack \/ Tick
    BY <2>3 DEF Reply, RollBack, Tick
  <2>4. CASE \E r \in Reconciler : Reconcile(r)
    BY <2>4 DEF Reconcile, ListSubmitted, ApplyReconciliation, ReconcilerStops
  <2> QED BY <2>1, <2>2, <2>3, <2>4 DEF Next
<1> QED BY <1>1, IInvHolds, PTL DEF Spec, ClosedMakesNoCall

\* A rejected row stays rejected: a session never has it, a reconciler never
\* lists it, and a second rejection leaves it alone.
THEOREM RejectionIsFinal == Spec => RejectedIsFinal
<1> DEFINE Final == \A a \in Action \ contested :
                      row[a].state = "rejected" => row'[a].state = "rejected"
<1>1. IInv /\ [Next]_vars => [Final]_vars
  <2> SUFFICES ASSUME IInv, Next, NEW a \in Action \ contested,
                      row[a].state = "rejected"
               PROVE  row'[a].state = "rejected"
    OBVIOUS
  <2> USE DEF IInv, TypeOK, Row, State, SessionRowIsOpen, InSession
  <2>1. ASSUME NEW b \in Action, Create(b) \/ AttachMessage(b) \/ Get(b)
        PROVE  row'[a].state = "rejected"
    BY <2>1 DEF Create, AttachMessage, Get, Exists, IsDue
  <2>2. ASSUME NEW b \in Action, Approve(b) PROVE row'[a].state = "rejected"
    BY <2>2 DEF Approve, ApproveExpires, ApproveAlreadyClosed,
         ApproveWithoutBroker, ApproveOpens, ApproveIsClosed, IsDue
  <2>3. ASSUME NEW b \in Action, RejectAny(b) PROVE row'[a].state = "rejected"
    BY <2>3 DEF RejectAny, RejectExpires, RejectAlreadyClosed, Reject, IsDue
  <2>4. CASE Execute
    BY <2>4 DEF Execute, BrokerAccepts, BrokerAnswerLost, BrokerRefuses,
         CommitSubmitted, CommitFailed
  <2>5. CASE Reply \/ RollBack \/ Tick
    BY <2>5 DEF Reply, RollBack, Tick
  <2>6. ASSUME NEW r \in Reconciler, Reconcile(r)
        PROVE  row'[a].state = "rejected"
    BY <2>6 DEF Reconcile, ListSubmitted, ApplyReconciliation, ReconcilerStops,
         ReconcilerIsCurrent
  <2> QED BY <2>1, <2>2, <2>3, <2>4, <2>5, <2>6 DEF Next
<1> QED BY <1>1, IInvHolds, PTL DEF Spec, RejectedIsFinal
-----------------------------------------------------------------------------
(* Refinement *)

lifeOf == [a \in Action |-> LifeOf(a)]

\* A step that writes one row, and what it does to the life of that action.
LEMMA LifeOfStates ==
  ASSUME NEW b \in Action, NEW s, contested' = contested,
         \A a \in Action : row'[a].state = IF a = b THEN s ELSE row[a].state
  PROVE  lifeOf' = IF b \in contested THEN lifeOf
                   ELSE [lifeOf EXCEPT ![b] = Life(s)]
<1>1. CASE b \in contested
  <2>1. \A a \in Action : LifeOf(a)' = LifeOf(a)
    BY <1>1 DEF LifeOf
  <2> QED BY <1>1, <2>1 DEF lifeOf
<1>2. CASE b \notin contested
  <2>1. \A a \in Action : LifeOf(a)' = IF a = b THEN Life(s) ELSE LifeOf(a)
    BY <1>2 DEF LifeOf
  <2>2. lifeOf' = [a \in Action |-> IF a = b THEN Life(s) ELSE LifeOf(a)]
    BY <2>1 DEF lifeOf
  <2>3. [lifeOf EXCEPT ![b] = Life(s)]
          = [a \in Action |-> IF a = b THEN Life(s) ELSE LifeOf(a)]
    BY DEF lifeOf
  <2> QED BY <1>2, <2>2, <2>3
<1> QED BY <1>1, <1>2

LEMMA LifeOfWrite ==
  ASSUME TypeOK, NEW b \in Action, NEW s \in State, contested' = contested,
         row' = [row EXCEPT ![b].state = s]
  PROVE  lifeOf' = IF b \in contested THEN lifeOf
                   ELSE [lifeOf EXCEPT ![b] = Life(s)]
<1>1. \A a \in Action : row'[a].state = IF a = b THEN s ELSE row[a].state
  BY DEF TypeOK, Row
<1> QED BY <1>1, LifeOfStates

\* The moves of the life cycle a step of the store can be.
LEMMA LifecycleMove ==
  ASSUME NEW b \in Action, NEW from, NEW to,
         lifeOf' = IF b \in contested THEN lifeOf
                   ELSE [lifeOf EXCEPT ![b] = to],
         b \notin contested => lifeOf[b] \in from,
         \/ from = {"none"} /\ to = "open"
         \/ from = {"open"} /\ to = "expired"
         \/ from = {"open", "ended"} /\ to \in {"live", "ended"}
         \/ from = {"live"} /\ to \in {"ended", "contested"}
         \/ from = {"open", "expired", "ended"} /\ to = "rejected"
  PROVE  [Lifecycle!Next]_lifeOf
<1>1. CASE b \in contested
  BY <1>1
<1>2. CASE b \notin contested /\ lifeOf[b] = to
  <2>1. [lifeOf EXCEPT ![b] = lifeOf[b]] = lifeOf
    BY DEF lifeOf
  <2> QED BY <1>2, <2>1
<1>3. CASE b \notin contested /\ lifeOf[b] # to
  BY <1>3 DEF Lifecycle!Next, Lifecycle!Open, Lifecycle!Expire,
     Lifecycle!GoLive, Lifecycle!End, Lifecycle!Discard, Lifecycle!Contest,
     Lifecycle!Move, lifeOf
<1> QED BY <1>1, <1>2, <1>3

\* A step of the store is a step of the life cycle or leaves it alone.
LEMMA LifecycleStep ==
  ASSUME IInv, Next PROVE [Lifecycle!Next]_lifeOf
<1> USE DEF IInv, TypeOK, Row
<1> DEFINE Writes(b, to) == lifeOf' = IF b \in contested THEN lifeOf
                                      ELSE [lifeOf EXCEPT ![b] = to]
<1>1. UNCHANGED <<row, contested>> => lifeOf' = lifeOf
  BY DEF lifeOf, LifeOf
<1>2. \A b \in Action : b \notin contested => lifeOf[b] = Life(row[b].state)
  BY DEF lifeOf, LifeOf
<1>3. ASSUME NEW b \in Action, IsDue(b), contested' = contested,
             row' = [row EXCEPT ![b].state = "expired"]
      PROVE  [Lifecycle!Next]_lifeOf
  <2>1. Writes(b, "expired")
    BY <1>3, LifeOfWrite DEF Life, State
  <2>2. b \notin contested => lifeOf[b] \in {"open"}
    BY <1>2, <1>3 DEF IsDue, Life
  <2> QED BY <2>1, <2>2, LifecycleMove
<1>4. ASSUME NEW b \in Action, Create(b) PROVE [Lifecycle!Next]_lifeOf
  <2>1. Writes(b, "open")
    <3>1. \A a \in Action :
             row'[a].state = IF a = b THEN "awaiting_approval" ELSE row[a].state
      BY <1>4 DEF Create
    <3> QED BY <1>4, <3>1, LifeOfStates DEF Life, Create
  <2>2. b \notin contested => lifeOf[b] \in {"none"}
    BY <1>2, <1>4 DEF Create, Exists, Life
  <2> QED BY <2>1, <2>2, LifecycleMove
<1>5. ASSUME NEW b \in Action, AttachMessage(b) PROVE lifeOf' = lifeOf
  <2>1. \A a \in Action : row'[a].state = row[a].state
    BY <1>5 DEF AttachMessage
  <2>2. contested' = contested
    BY <1>5 DEF AttachMessage
  <2>3. \A a \in Action : LifeOf(a)' = LifeOf(a)
    BY <2>1, <2>2 DEF LifeOf
  <2> QED BY <2>3 DEF lifeOf
<1>6. ASSUME NEW b \in Action, Get(b) PROVE [Lifecycle!Next]_lifeOf
  BY <1>3, <1>6 DEF Get
<1>7. ASSUME NEW b \in Action, Approve(b) PROVE [Lifecycle!Next]_lifeOf
  <2>1. CASE ApproveExpires(b)
    BY <1>3, <2>1 DEF ApproveExpires
  <2>2. CASE ApproveAlreadyClosed(b) \/ ApproveOpens(b)
    BY <1>1, <2>2 DEF ApproveAlreadyClosed, ApproveOpens
  <2>3. CASE ApproveWithoutBroker(b)
    <3>1. Writes(b, "ended")
      BY <2>3, LifeOfWrite DEF ApproveWithoutBroker, Life, State
    <3>2. b \notin contested => lifeOf[b] \in {"open", "ended"}
      BY <2>3, <1>2 DEF ApproveWithoutBroker, ApproveIsClosed, Exists, Life,
           State
    <3> QED BY <3>1, <3>2, LifecycleMove
  <2> QED BY <1>7, <2>1, <2>2, <2>3 DEF Approve
<1>8. ASSUME NEW b \in Action, RejectAny(b) PROVE [Lifecycle!Next]_lifeOf
  <2>1. CASE RejectExpires(b)
    BY <1>3, <2>1 DEF RejectExpires
  <2>2. CASE RejectAlreadyClosed(b)
    BY <1>1, <2>2 DEF RejectAlreadyClosed
  <2>3. CASE Reject(b)
    <3>1. Writes(b, "rejected")
      BY <2>3, LifeOfWrite DEF Reject, Life, State
    <3>2. b \notin contested => lifeOf[b] \in {"open", "expired", "ended"}
      BY <2>3, <1>2 DEF Reject, Exists, Life, State
    <3> QED BY <3>1, <3>2, LifecycleMove
  <2> QED BY <1>8, <2>1, <2>2, <2>3 DEF RejectAny
<1>9. ASSUME Execute PROVE [Lifecycle!Next]_lifeOf
  <2>1. CASE BrokerAccepts \/ BrokerAnswerLost \/ BrokerRefuses
    BY <1>1, <2>1 DEF BrokerAccepts, BrokerAnswerLost, BrokerRefuses
  <2> DEFINE b == bot.action
  <2>2. ASSUME InSession
        PROVE  /\ b \in Action
               /\ b \notin contested => lifeOf[b] \in {"open", "ended"}
    BY <2>2, <1>2 DEF InSession, SessionRowIsOpen, Life
  <2>3. CASE CommitSubmitted
    <3>1. InSession
      BY <2>3 DEF CommitSubmitted, InSession
    <3>2. Writes(b, "live")
      BY <2>2, <2>3, <3>1, LifeOfWrite DEF CommitSubmitted, Life, State
    <3> QED BY <2>2, <3>1, <3>2, LifecycleMove
  <2>4. CASE CommitFailed
    <3>1. InSession
      BY <2>4 DEF CommitFailed, InSession
    <3>2. Writes(b, "ended")
      BY <2>2, <2>4, <3>1, LifeOfWrite DEF CommitFailed, Life, State
    <3> QED BY <2>2, <3>1, <3>2, LifecycleMove
  <2> QED BY <1>9, <2>1, <2>3, <2>4 DEF Execute
<1>10. ASSUME Reply \/ RollBack \/ Tick PROVE lifeOf' = lifeOf
  BY <1>1, <1>10 DEF Reply, RollBack, Tick
<1>11. ASSUME NEW r \in Reconciler, Reconcile(r) PROVE [Lifecycle!Next]_lifeOf
  <2>1. CASE \E batch \in SUBSET Action : ListSubmitted(r, batch)
    BY <1>1, <2>1 DEF ListSubmitted
  <2>2. ASSUME NEW b \in Action, NEW s \in Resolved, ApplyReconciliation(r, b, s)
        PROVE  [Lifecycle!Next]_lifeOf
    <3>1. b \notin contested => lifeOf[b] \in {"live"}
      BY <2>2, <1>2 DEF ApplyReconciliation, ReconcilerIsCurrent, Life
    <3>2. CASE contested' = contested
      <4>1. Writes(b, Life(s))
        BY <2>2, <3>2, LifeOfWrite DEF ApplyReconciliation, Resolved, State
      <4>2. CASE s = "submitted"
        <5>1. [lifeOf EXCEPT ![b] = lifeOf[b]] = lifeOf
          BY DEF lifeOf
        <5> QED BY <4>1, <4>2, <3>1, <5>1 DEF Life
      <4>3. CASE s # "submitted"
        <5>1. Writes(b, "ended")
          BY <2>2, <4>1, <4>3 DEF Resolved, Life
        <5> QED BY <3>1, <5>1, LifecycleMove
      <4> QED BY <4>2, <4>3
    <3>3. CASE contested' # contested
      <4>1. contested' = contested \cup {b} /\ b \notin contested
        BY <2>2, <3>3 DEF ApplyReconciliation
      <4>2. \A a \in Action \ {b} : row'[a].state = row[a].state
        BY <2>2 DEF ApplyReconciliation
      <4>3. \A a \in Action : LifeOf(a)' = IF a = b THEN "contested" ELSE LifeOf(a)
        BY <4>1, <4>2 DEF LifeOf
      <4>4. lifeOf' = [a \in Action |-> IF a = b THEN "contested" ELSE LifeOf(a)]
        BY <4>3 DEF lifeOf
      <4>5. [lifeOf EXCEPT ![b] = "contested"]
              = [a \in Action |-> IF a = b THEN "contested" ELSE LifeOf(a)]
        BY DEF lifeOf
      <4>6. Writes(b, "contested")
        BY <4>1, <4>4, <4>5
      <4> QED BY <3>1, <4>6, LifecycleMove
    <3> QED BY <3>2, <3>3
  <2>3. CASE ReconcilerStops(r)
    BY <1>1, <2>3 DEF ReconcilerStops
  <2> QED BY <1>11, <2>1, <2>2, <2>3 DEF Reconcile
<1> QED
  BY <1>4, <1>5, <1>6, <1>7, <1>8, <1>9, <1>10, <1>11 DEF Next

\* The pending-action store implements the life cycle of an approval.
THEOREM ImplementsLifecycle == Spec => FollowsLifecycle
<1>1. Init => Lifecycle!Init
  BY DEF Init, Lifecycle!Init, Life, LifeOf
<1>2. IInv /\ [Next]_vars => [Lifecycle!Next]_lifeOf
  <2>1. UNCHANGED vars => lifeOf' = lifeOf
    BY DEF vars, lifeOf, LifeOf
  <2> QED BY <2>1, LifecycleStep
<1>3. IInv /\ [Next]_vars
        => [Lifecycle!Next]_([a \in Action |-> LifeOf(a)])
  BY <1>2 DEF lifeOf
<1> QED
  BY <1>1, <1>3, IInvHolds, PTL DEF Spec, FollowsLifecycle, Lifecycle!Spec

-----------------------------------------------------------------------------
(* Sequences without repetition *)

\* A list of actions without repetition, as updated_at orders rows.
Ranking(s) == s \in Seq(Action) /\ IsInjective(s)

\* Taking the one place of an element out of such a list leaves the others.
LEMMA WithoutOne ==
  ASSUME NEW s, Ranking(s), NEW k \in 1..Len(s)
  PROVE  /\ Ranking(RemoveAt(s, k))
         /\ Members(RemoveAt(s, k)) = Members(s) \ {s[k]}
<1> DEFINE t == RemoveAt(s, k)
<1>1. /\ t \in Seq(Action)
      /\ Len(t) = Len(s) - 1
      /\ \A i \in 1..Len(t) : t[i] = IF i < k THEN s[i] ELSE s[i + 1]
  <2> DEFINE u == SubSeq(s, 1, k - 1)
             v == SubSeq(s, k + 1, Len(s))
  <2>1. /\ u \in Seq(Action) /\ Len(u) = k - 1
        /\ \A i \in 1..Len(u) : u[i] = s[i]
    BY DEF Ranking
  <2>2. /\ v \in Seq(Action) /\ Len(v) = Len(s) - k
        /\ \A i \in 1..Len(v) : v[i] = s[k + i]
    BY DEF Ranking
  <2>3. t = u \o v
    BY DEF RemoveAt
  <2> HIDE DEF u, v, t
  <2>4. /\ u \o v \in Seq(Action) /\ Len(u \o v) = Len(u) + Len(v)
        /\ \A i \in 1..Len(u) + Len(v) :
              (u \o v)[i] = IF i <= Len(u) THEN u[i] ELSE v[i - Len(u)]
    <3>1. u \in Seq(Action) /\ v \in Seq(Action)
      BY <2>1, <2>2
    <3> QED BY <3>1, ConcatProperties
  <2>5. Len(s) \in Nat /\ k \in 1..Len(s)
    BY DEF Ranking
  <2>6. ASSUME NEW i \in 1..Len(u) + Len(v)
        PROVE  t[i] = IF i < k THEN s[i] ELSE s[i + 1]
    <3>1. CASE i < k
      <4>1. i \in 1..Len(u)
        BY <3>1, <2>1, <2>5
      <4> QED BY <4>1, <3>1, <2>1, <2>3, <2>4
    <3>2. CASE ~(i < k)
      <4>1. ~(i <= Len(u)) /\ i - Len(u) \in 1..Len(v) /\ k + (i - Len(u)) = i + 1
        BY <3>2, <2>1, <2>2, <2>5
      <4>2. t[i] = v[i - Len(u)]
        BY <4>1, <2>3, <2>4
      <4>3. v[i - Len(u)] = s[k + (i - Len(u))]
        BY <4>1, <2>2
      <4> QED BY <4>1, <4>2, <4>3, <3>2
    <3> QED BY <3>1, <3>2
  <2>7. Len(u) + Len(v) = Len(s) - 1
    BY <2>1, <2>2, <2>5
  <2> QED BY <2>3, <2>4, <2>6, <2>7
<1>2. \A i, j \in 1..Len(s) : s[i] = s[j] => i = j
  BY DEF Ranking, IsInjective
<1>3. IsInjective(t)
  BY SMTT(30), <1>1, <1>2 DEF IsInjective, Ranking
<1>4. Members(t) \subseteq Members(s) \ {s[k]}
  BY <1>1, <1>2 DEF Members, Ranking
<1>5. ASSUME NEW i \in 1..Len(s), i # k PROVE s[i] \in Members(t)
  <2>1. CASE i < k
    BY <2>1, <1>1, <1>5 DEF Members, Ranking
  <2>2. CASE i > k
    <3>1. i - 1 \in 1..Len(t) /\ t[i - 1] = s[i]
      BY <2>2, <1>1, <1>5 DEF Ranking
    <3> QED BY <3>1 DEF Members
  <2> QED BY <2>1, <2>2, <1>5
<1> QED BY <1>1, <1>3, <1>4, <1>5 DEF Ranking, Members

\* Putting a new element at the end of such a list adds it.
LEMMA WithOneMore ==
  ASSUME NEW s, Ranking(s), NEW a \in Action, a \notin Members(s)
  PROVE  Ranking(Append(s, a)) /\ Members(Append(s, a)) = Members(s) \cup {a}
<1> DEFINE t == Append(s, a)
<1>1. /\ t \in Seq(Action) /\ Len(t) = Len(s) + 1
      /\ t[Len(s) + 1] = a /\ \A i \in 1..Len(s) : t[i] = s[i]
  BY DEF Ranking
<1>2. IsInjective(t)
  BY <1>1 DEF IsInjective, Ranking, Members
<1>3. Members(t) = Members(s) \cup {a}
  BY <1>1 DEF Members, Ranking
<1> QED BY <1>1, <1>2, <1>3 DEF Ranking

\* The first elements of such a list, as many as a page takes.
LEMMA FirstOnes ==
  ASSUME NEW s, Ranking(s), NEW n \in 0..Len(s)
  PROVE  Ranking(SubSeq(s, 1, n)) /\ Members(SubSeq(s, 1, n)) \subseteq Members(s)
BY DEF Ranking, IsInjective, Members

\* The rest of such a list, once its head has been dealt with.
LEMMA AllButHead ==
  ASSUME NEW s, Ranking(s), s # <<>>
  PROVE  /\ Head(s) \in Members(s) /\ Ranking(Tail(s))
         /\ Members(Tail(s)) = Members(s) \ {Head(s)}
<1> DEFINE t == Tail(s)
<1>1. /\ t \in Seq(Action) /\ Len(t) = Len(s) - 1 /\ Len(s) > 0
      /\ Head(s) = s[1] /\ \A i \in 1..Len(t) : t[i] = s[i + 1]
  BY DEF Ranking
<1>2. \A i, j \in 1..Len(s) : s[i] = s[j] => i = j
  BY DEF Ranking, IsInjective
<1>3. IsInjective(t)
  BY <1>1, <1>2 DEF IsInjective, Ranking
<1>4. Members(t) \subseteq Members(s) \ {s[1]}
  BY <1>1, <1>2 DEF Members, Ranking
<1>5. ASSUME NEW i \in 1..Len(s), i # 1 PROVE s[i] \in Members(t)
  <2>1. i - 1 \in 1..Len(t) /\ t[i - 1] = s[i]
    BY <1>1, <1>5 DEF Ranking
  <2> QED BY <2>1 DEF Members
<1> QED BY SMTT(30), <1>1, <1>3, <1>4, <1>5 DEF Ranking, Members

-----------------------------------------------------------------------------
(* The invariant *)

Submitted == {a \in Action : row[a].state = "submitted"}

\* QueueIsSubmitted with the shape of the two lists, and the types that the
\* steps of PendingActions need.
QInv ==
    /\ TypeOK
    /\ Ranking(queue) /\ Members(queue) = Submitted
    /\ page \in [Reconciler -> Seq(Action)]
    /\ \A r \in Reconciler : Ranking(page[r]) /\ Members(page[r]) = listed[r]

LEMMA QInvInit == QueueInit => QInv
<1> SUFFICES ASSUME QueueInit PROVE QInv
  OBVIOUS
<1>1. TypeOK
  BY TypeInit DEF QueueInit
<1>2. Ranking(<<>>) /\ Members(<<>>) = {}
  BY DEF Ranking, IsInjective, Members
<1> QED BY <1>1, <1>2 DEF QueueInit, Init, QInv, Submitted

\* What a write to one row does to the queue: the row is at its end if it is
\* submitted now, gone if it is not.
LEMMA RenewedQueue ==
  ASSUME Ranking(queue), Members(queue) = Submitted,
         NEW a \in Action, queue' = Renewed(a),
         \A b \in Action \ {a} : row'[b].state = row[b].state
  PROVE  Ranking(queue)' /\ Members(queue') = Submitted'
<1>1. Ranking(Others(a)) /\ Members(Others(a)) = Submitted \ {a}
  <2>1. CASE a \in Members(queue)
    <3> DEFINE k == CHOOSE i \in 1..Len(queue) : queue[i] = a
    <3>1. k \in 1..Len(queue) /\ queue[k] = a
      BY <2>1 DEF Members
    <3> HIDE DEF k
    <3>2. Ranking(RemoveAt(queue, k))
          /\ Members(RemoveAt(queue, k)) = Members(queue) \ {a}
      BY <3>1, WithoutOne
    <3> QED BY <3>2, <2>1 DEF Others, k
  <2>2. CASE a \notin Members(queue)
    BY <2>2 DEF Others
  <2> QED BY <2>1, <2>2
<1>2. CASE row'[a].state = "submitted"
  <2>1. queue' = Append(Others(a), a)
    BY <1>2 DEF Renewed
  <2>2. Ranking(Append(Others(a), a))
        /\ Members(Append(Others(a), a)) = Members(Others(a)) \cup {a}
    BY <1>1, WithOneMore
  <2>3. Submitted' = (Submitted \ {a}) \cup {a}
    BY <1>2 DEF Submitted
  <2> QED BY <1>1, <2>1, <2>2, <2>3 DEF Ranking
<1>3. CASE row'[a].state # "submitted"
  <2>1. queue' = Others(a)
    BY <1>3 DEF Renewed
  <2>2. Submitted' = Submitted \ {a}
    BY <1>3 DEF Submitted
  <2> QED BY <1>1, <2>1, <2>2 DEF Ranking
<1> QED BY <1>2, <1>3

\* Under the invariant every step of the queue is one of PendingActions' steps.
LEMMA QueueStep == QInv /\ QueueNext => Next
<1> SUFFICES ASSUME QInv, QueueNext PROVE Next
  OBVIOUS
<1>1. ASSUME NEW r \in Reconciler, ListOldest(r) PROVE Next
  <2>1. Members(NextPage) \subseteq Members(queue)
    <3> DEFINE n == IF Len(queue) < Limit THEN Len(queue) ELSE Limit
    <3>1. n \in 0..Len(queue)
      BY LimitIsPositive DEF QInv, Ranking
    <3> HIDE DEF n
    <3> QED BY <3>1, FirstOnes DEF QInv, NextPage, n
  <2>2. Members(NextPage) \in SUBSET Action
    BY <2>1 DEF QInv, Submitted
  <2> QED BY <1>1, <2>2 DEF ListOldest, Next, Reconcile
<1>2. ASSUME NEW r \in Reconciler, ApplyNext(r) PROVE Next
  <2>1. Head(page[r]) \in Action
    BY <1>2, AllButHead DEF ApplyNext, QInv, TypeOK
  <2> QED BY <1>2, <2>1 DEF ApplyNext, Next, Reconcile
<1>3. ASSUME NEW r \in Reconciler, PageEnds(r) PROVE Next
  BY <1>3 DEF PageEnds, Next, Reconcile
<1>4. CASE SessionEnds
  BY <1>4 DEF SessionEnds, Next, Execute
<1>5. ASSUME NEW a \in Action, MessageRenews(a) PROVE Next
  BY <1>5 DEF MessageRenews, Next
<1>6. CASE Elsewhere
  BY <1>6 DEF Elsewhere, Next, Execute
<1> QED BY <1>1, <1>2, <1>3, <1>4, <1>5, <1>6 DEF QueueNext

\* A step that writes one row and leaves the reconcilers alone.
LEMMA OneRowWritten ==
  ASSUME QInv, TypeOK', NEW a \in Action, queue' = Renewed(a),
         \A b \in Action \ {a} : row'[b].state = row[b].state,
         UNCHANGED <<page, listed>>
  PROVE  QInv'
<1>1. Ranking(queue)' /\ Members(queue') = Submitted'
  BY RenewedQueue DEF QInv
<1> QED BY <1>1 DEF QInv, Ranking

LEMMA QInvNext == QInv /\ [QueueNext]_queueVars => QInv'
<1> SUFFICES ASSUME QInv, [QueueNext]_queueVars PROVE QInv'
  OBVIOUS
<1>1. [Next]_vars
  BY QueueStep DEF queueVars
<1>2. TypeOK'
  BY <1>1, TypeNext DEF QInv
<1>3. ASSUME NEW r \in Reconciler, ListOldest(r) PROVE QInv'
  <2> DEFINE n == IF Len(queue) < Limit THEN Len(queue) ELSE Limit
  <2>1. n \in 0..Len(queue)
    BY LimitIsPositive DEF QInv, Ranking
  <2>2. Ranking(NextPage)
    <3> HIDE DEF n
    <3> QED BY <2>1, FirstOnes DEF QInv, NextPage, n
  <2>3. /\ page' = [page EXCEPT ![r] = NextPage]
        /\ listed' = [listed EXCEPT ![r] = Members(NextPage)]
        /\ UNCHANGED <<row, queue>>
    BY <1>3 DEF ListOldest, ListSubmitted
  <2>4. Submitted' = Submitted
    BY <2>3 DEF Submitted
  <2>5. NextPage \in Seq(Action)
    BY <2>2 DEF Ranking
  <2> QED BY <1>2, <2>2, <2>3, <2>4, <2>5 DEF QInv, Ranking, TypeOK
<1>4. ASSUME NEW r \in Reconciler, ApplyNext(r) PROVE QInv'
  <2> DEFINE a == Head(page[r])
  <2>1. /\ a \in Members(page[r]) /\ Ranking(Tail(page[r]))
        /\ Members(Tail(page[r])) = Members(page[r]) \ {a}
    BY <1>4, AllButHead DEF ApplyNext, QInv
  <2>2. a \in Action
    BY <2>1 DEF QInv, TypeOK
  <2>3. PICK s \in Resolved : ApplyReconciliation(r, a, s)
    BY <1>4 DEF ApplyNext
  <2>4. /\ queue' = Renewed(a) /\ page' = [page EXCEPT ![r] = Tail(page[r])]
        /\ listed' = [listed EXCEPT ![r] = listed[r] \ {a}]
        /\ \A b \in Action \ {a} : row'[b].state = row[b].state
    BY <1>4, <2>2, <2>3 DEF ApplyNext, ApplyReconciliation, QInv, TypeOK
  <2> HIDE DEF a
  <2>5. Ranking(queue)' /\ Members(queue') = Submitted'
    BY <2>2, <2>4, RenewedQueue DEF QInv
  <2>6. Tail(page[r]) \in Seq(Action)
    BY <2>1 DEF Ranking
  <2>7. page' \in [Reconciler -> Seq(Action)]
    BY <2>4, <2>6 DEF QInv
  <2>8. ASSUME NEW q \in Reconciler
        PROVE  Ranking(page'[q]) /\ Members(page'[q]) = listed'[q]
    BY <2>1, <2>4 DEF QInv, TypeOK
  <2> QED BY <1>2, <2>5, <2>7, <2>8 DEF QInv, Ranking
<1>5. ASSUME NEW r \in Reconciler, PageEnds(r) PROVE QInv'
  <2>1. /\ page' = [page EXCEPT ![r] = <<>>]
        /\ listed' = [listed EXCEPT ![r] = {}]
        /\ UNCHANGED <<row, queue>>
    BY <1>5 DEF PageEnds, ReconcilerStops
  <2>2. Ranking(<<>>) /\ Members(<<>>) = {}
    BY DEF Ranking, IsInjective, Members
  <2>3. Submitted' = Submitted
    BY <2>1 DEF Submitted
  <2> QED BY <1>2, <2>1, <2>2, <2>3 DEF QInv, Ranking, TypeOK
<1>6. CASE SessionEnds
  <2>1. bot.action \in Action
    BY <1>6 DEF SessionEnds, CommitSubmitted, CommitFailed, QInv, TypeOK
  <2>2. \A b \in Action \ {bot.action} : row'[b].state = row[b].state
    BY <1>6 DEF SessionEnds, CommitSubmitted, CommitFailed, QInv, TypeOK
  <2>3. queue' = Renewed(bot.action) /\ UNCHANGED <<page, listed>>
    BY <1>6 DEF SessionEnds, CommitSubmitted, CommitFailed
  <2> QED BY <1>2, <2>1, <2>2, <2>3, OneRowWritten
<1>7. ASSUME NEW a \in Action, MessageRenews(a) PROVE QInv'
  <2>1. \A b \in Action \ {a} : row'[b].state = row[b].state
    BY <1>7 DEF MessageRenews, AttachMessage, QInv, TypeOK
  <2>2. queue' = Renewed(a) /\ UNCHANGED <<page, listed>>
    BY <1>7 DEF MessageRenews, AttachMessage
  <2> QED BY <1>2, <2>1, <2>2, OneRowWritten
<1>8. CASE Elsewhere
  <2>1. UNCHANGED <<queue, page, listed>>
    BY <1>8 DEF Elsewhere, Create, Get, Approve, ApproveExpires,
       ApproveAlreadyClosed, ApproveWithoutBroker, ApproveOpens, RejectAny,
       RejectExpires, RejectAlreadyClosed, Reject, BrokerAccepts,
       BrokerAnswerLost, BrokerRefuses, Reply, RollBack, Tick
  <2>2. ASSUME NEW b \in Action
        PROVE  row'[b].state = "submitted" <=> row[b].state = "submitted"
    <3>1. ASSUME NEW a \in Action, Create(a) \/ Get(a) \/ Approve(a) \/ RejectAny(a)
          PROVE  row'[b].state = "submitted" <=> row[b].state = "submitted"
      <4> USE DEF QInv, TypeOK, Row
      <4>1. CASE Create(a)
        BY <4>1 DEF Create, Exists
      <4>2. CASE Get(a)
        BY <4>2 DEF Get, IsDue
      <4>3. CASE Approve(a)
        BY ZenonT(60), <4>3 DEF Approve, ApproveExpires, ApproveAlreadyClosed, IsDue,
           ApproveWithoutBroker, ApproveIsClosed, ApproveOpens
      <4>4. CASE RejectAny(a)
        BY ZenonT(60), <4>4 DEF RejectAny, RejectExpires, RejectAlreadyClosed, Reject, IsDue
      <4> QED BY <3>1, <4>1, <4>2, <4>3, <4>4
    <3>2. CASE BrokerAccepts \/ BrokerAnswerLost \/ BrokerRefuses \/ Reply \/ RollBack
                   \/ Tick
      BY <3>2 DEF BrokerAccepts, BrokerAnswerLost, BrokerRefuses, Reply, RollBack, Tick
    <3> QED BY <3>1, <3>2, <1>8 DEF Elsewhere
  <2>3. Submitted' = Submitted
    BY <2>2 DEF Submitted
  <2> QED BY <1>2, <2>1, <2>3 DEF QInv, Ranking
<1>9. CASE UNCHANGED queueVars
  BY <1>2, <1>9 DEF queueVars, vars, QInv, Ranking, Submitted
<1> QED BY <1>3, <1>4, <1>5, <1>6, <1>7, <1>8, <1>9 DEF QueueNext

\* QueueIsSubmitted: no submitted row is missing from the queue and none is in it
\* twice, whatever passes, buttons and messages write.
THEOREM QueueCorrect == QueueSafety => []QueueIsSubmitted
<1>1. QInv => QueueIsSubmitted
  BY DEF QInv, QueueIsSubmitted, Submitted, Ranking
<1> QED BY <1>1, QInvInit, QInvNext, PTL DEF QueueSafety

-----------------------------------------------------------------------------
(* The passes of PendingActions, in order *)

\* By its definition each step of the queue takes a step of PendingActions: what
\* is proved of that one can be cited for this one.
LEMMA QueueImplementsStore == QueueSafety => Spec
<1>1. QueueInit => Init
  BY DEF QueueInit
<1>2. QInv /\ [QueueNext]_queueVars => [Next]_vars
  BY QueueStep DEF queueVars
<1> QED BY <1>1, <1>2, QInvInit, QInvNext, PTL DEF QueueSafety, Spec

\* So the life cycle is kept and the calls are accounted for in queue order too.
THEOREM QueueKeepsPromises ==
  QueueSafety =>
      /\ []ReconcilerIsCurrent /\ []CallsAccounted
      /\ ClosedMakesNoCall /\ RejectedIsFinal /\ FollowsLifecycle
BY QueueImplementsStore, ReconcilerCurrent, CallsAreAccounted, NoCallWhenClosed,
   RejectionIsFinal, ImplementsLifecycle, PTL

=============================================================================
