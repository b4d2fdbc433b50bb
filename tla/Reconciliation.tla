---------------------------- MODULE Reconciliation ----------------------------
(***************************************************************************)
(* How one reconciliation pass decides what became of a submitted action    *)
(* (t212ai/reconciliation/service.py), as operators on the two snapshots it *)
(* takes: the set of pending orders, then the recent page of historical     *)
(* orders. TradeApproval runs the pass as a process.                        *)
(***************************************************************************)
EXTENDS Naturals, FiniteSets

\* BrokerOrderStatus, one member for each group the code treats alike:
\* "pending" for _ACTIVE_REMOTE_STATUSES, "cancelled" also for REPLACED, and
\* "expired" for the statuses no branch names (EXPIRED, STOPPED, SUSPENDED,
\* CALCULATED).
FinalStatus == {"filled", "partially_filled", "cancelled", "rejected", "expired"}
RemoteStatus == {"pending"} \cup FinalStatus

\* ReconciliationOutcome
Outcome == {"pending", "filled", "partially_filled", "cancelled", "rejected",
            "failed", "unresolved"}

NoOrder == 0

Resolution(outcome, state) == [outcome |-> outcome, state |-> state]
Pending == Resolution("pending", "submitted")
Unresolved == Resolution("unresolved", "submitted")

\* A faulty variant of FromHistory: a cancelled order is not recognised as final.
CancelledUnknown(status) ==
    CASE status \in {"filled", "partially_filled"}
                                -> Resolution(status, "reconciled")
      [] status = "rejected"    -> Resolution("rejected", "failed")
      [] OTHER                  -> Unresolved

\* _resolution_from_historical_order
FromHistory(status) ==
    CASE status \in {"filled", "partially_filled"}
                                -> Resolution(status, "reconciled")
      [] status = "cancelled"   -> Resolution("cancelled", "cancelled")
      [] status = "rejected"    -> Resolution("rejected", "failed")
      [] status = "pending"     -> Pending
      [] OTHER                  -> Unresolved

\* _resolve_submit_action, for the order ref kept from the broker's answer and,
\* when neither list shows it, the only order alike in its metadata
\* (_match_submit_order_by_metadata).
ResolveSubmit(ref, pending, history, alike, status) ==
    LET likePending == pending \cap alike
        likeHistory == history \cap alike
        Only(S) == CHOOSE o \in S : TRUE
    IN  CASE ref \in pending                 -> Pending
          [] ref \in history \ pending       -> FromHistory(status[ref])
          [] ref \notin pending \cup history ->
                CASE Cardinality(likePending) = 1 -> Pending
                  [] Cardinality(likePending) # 1 /\ Cardinality(likeHistory) = 1
                        -> FromHistory(status[Only(likeHistory)])
                  [] OTHER -> Unresolved

\* A faulty variant of ResolveCancel: a target that is gone counts as cancelled.
GoneIsCancelled(target, pending, history, status) ==
    IF target \in pending THEN Pending
                          ELSE Resolution("cancelled", "reconciled")

\* _resolve_cancel_action: a cancellation is reconciled when its target is
\* cancelled, and fails when the target was filled or rejected first.
ResolveCancel(target, pending, history, status) ==
    CASE target \in pending                    -> Pending
      [] target \notin pending \cup history    -> Unresolved
      [] target \in history \ pending ->
            CASE status[target] = "cancelled"  -> Resolution("cancelled", "reconciled")
              [] status[target] \in {"filled", "partially_filled"}
                                               -> Resolution("failed", "failed")
              [] status[target] = "rejected"   -> Resolution("rejected", "failed")
              [] OTHER                         -> Pending

-----------------------------------------------------------------------------
(* What _sync_proposal writes for an outcome *)

\* ExecutionAttemptStatus
AttemptFor(outcome) == outcome

\* ProposalStatus
ProposalFor(outcome) ==
    CASE outcome = "pending"                         -> "submitted"
      [] outcome \in {"filled", "partially_filled"}  -> "reconciled"
      [] outcome = "cancelled"                       -> "cancelled"
      [] outcome \in {"rejected", "failed"}          -> "execution_failed"

=============================================================================
