----------------------------- MODULE MCChatTurn -----------------------------
EXTENDS ChatTurn

Callers2 == {"main", "action"}

Step(mode, tool) ==
    [mode |-> mode, tool |-> tool, readOnly |-> TRUE, synthesis |-> FALSE]

\* Two prepared orders; data read in parallel, then an order and a synthesis;
\* a tool that does not exist; and a plan the validators refuse.
SomePlans ==
    {<<Step("sequential", "broker_prepare"), Step("sequential", "broker_prepare")>>,
     <<Step("parallel", "data"),
       [Step("sequential", "none") EXCEPT !.synthesis = TRUE]>>,
     <<Step("sequential", "missing")>>,
     <<Step("parallel", "broker_prepare")>>}

=============================================================================
