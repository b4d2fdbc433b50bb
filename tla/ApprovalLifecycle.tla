-------------------------- MODULE ApprovalLifecycle --------------------------
(***************************************************************************)
(* What the pending-action store promises of each action, whoever writes to *)
(* its row: it reaches the broker only while it is open, or again once it   *)
(* has ended; one the broker has leaves that state only by ending; one that *)
(* expired can only be discarded; a discarded one never moves again. All of *)
(* it up to where two reconcilers write the row of one the broker has.      *)
(***************************************************************************)
CONSTANT Action
VARIABLE life

Init == life = [a \in Action |-> "none"]

Move(a, from, to) == life[a] \in from /\ life' = [life EXCEPT ![a] = to]

Open(a) == Move(a, {"none"}, "open")
Expire(a) == Move(a, {"open"}, "expired")

\* The broker took the call. An ended action may be executed once more.
GoLive(a) == Move(a, {"open", "ended"}, "live")

\* The call failed, or reconciliation closed the action.
End(a) == Move(a, {"open", "live"}, "ended")

Discard(a) == Move(a, {"open", "expired", "ended"}, "rejected")

\* One reconciler writes what another has still to write.
Contest(a) == Move(a, {"live"}, "contested")

Next == \E a \in Action :
            Open(a) \/ Expire(a) \/ GoLive(a) \/ End(a) \/ Discard(a)
                \/ Contest(a)

Spec == Init /\ [][Next]_life

=============================================================================
