--------------------------- MODULE MCNewsMonitor ---------------------------
(* Small instances of NewsMonitor for TLC. *)
EXTENDS NewsMonitor, TLC

CONSTANTS p1, b1, b2, r1, r2, n1

\* Bots are all alike, and so are the ids of runs.
MCSymmetry == Permutations(Thread) \cup Permutations(Run)

\* As scheduler_alpaca_news_monitor_create sets them: a manual schedule, one run,
\* and a process that expires with its window. The general creation tool allows
\* one that does not.
MCManual == [p \in Process |-> [type |-> "manual", at |-> 0, every |-> {}]]
Lasting(closes) ==
    [p \in Process |->
        [policy |-> "complete_on_first_run", expires |-> closes,
         maxMatches |-> Never, cooldown |-> 0]]

ValidWindow(opens, closes) == [valid |-> TRUE, opens |-> opens, closes |-> closes]
NoWindow == [valid |-> FALSE, opens |-> 0, closes |-> Never]

MCWindow == [p \in Process |-> {ValidWindow(0, 3)}]
MCExpiring == Lasting(3)

\* A window whose end is not in sight, one that ends soon, and none.
MCWindows == [p \in Process |-> {ValidWindow(1, Never), ValidWindow(1, 3), NoWindow}]
MCUnlimited == Lasting(Never)

=============================================================================
