------------------------------ MODULE MCMonitors ------------------------------
(* Small instances of Monitors for TLC. *)
EXTENDS Monitors, TLC

CONSTANTS p1, p2, w1, w2, r1, r2, o1, o2, t1, t2

\* Ids are all alike.
MCSymmetry ==
    Permutations(Thread) \cup Permutations(Run) \cup Permutations(Offer)

\* Polled every period, until the first match.
MCSchedule ==
    [p \in Process |-> [type |-> "polling", at |-> 0, every |-> {1}]]
MCLifecycle ==
    [p \in Process |-> [policy |-> "complete_on_first_match", expires |-> Never,
                        maxMatches |-> Never, cooldown |-> 0]]

K(adapter, notify, propose) ==
    [adapter |-> adapter, notify |-> notify, propose |-> propose]

\* One of each kind that differs here: the answers of the others are among theirs.
MCKinds ==
    {K("instrument_monitor", TRUE, FALSE), K("company_event_analyst", FALSE, FALSE),
     K("trade_setup_monitor", TRUE, TRUE), K("market_signal_capture", TRUE, FALSE)}

=============================================================================
