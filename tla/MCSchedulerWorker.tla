-------------------------- MODULE MCSchedulerWorker --------------------------
(* Small instances of SchedulerWorker for TLC. *)
EXTENDS SchedulerWorker

CONSTANTS p1, p2, w1, r1, r2

Spec(type, at, every) == [type |-> type, at |-> at, every |-> every]
Policy(policy, expires, maxMatches, cooldown) ==
    [policy |-> policy, expires |-> expires, maxMatches |-> maxMatches,
     cooldown |-> cooldown]

\* Polled every period.
MCPollSchedule == [p \in Process |-> Spec("polling", 0, {1})]

\* One that expires and one that stays.
MCServed ==
    [p \in Process |->
        IF p = p1 THEN Policy("complete_on_first_match", 1, Never, 1)
        ELSE Policy("keep_running", Never, Never, 0)]

\* A one-shot process as the company event analyst creates it.
MCOnceSchedule == [p \in Process |-> Spec("one_shot", 1, {})]
MCFirstRun == [p \in Process |-> Policy("complete_on_first_run", Never, Never, 0)]

=============================================================================
