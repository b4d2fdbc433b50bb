----------------------------- MODULE AgentTools -----------------------------
(***************************************************************************)
(* The specialists' desks (agent/tooling.py): the scheduler's, the order's *)
(* and the guideline specialist each have a toolbox of their own, and no   *)
(* two of these share any state, the process, the broker's orders and the  *)
(* guideline document being in three places; the memory of signals is a    *)
(* fourth, the broker's lists of orders a fifth, and the calculator keeps  *)
(* none.  Before any of them can be used the operator configures and       *)
(* starts the program; and what was filed at the scheduler's is run by a   *)
(* worker, whose adapters only read here.                                  *)
(* A behaviour is one of a single desk: interleaving them adds nothing to  *)
(* what each does.                                                         *)
(***************************************************************************)
EXTENDS ScheduleTools, OrderRecords, GuidelineStore, Toolboxes, AdapterRuns,
        SignalMemory, Calculator

VARIABLE desk   \* the specialist whose tools are used, or the operator

agentVars == <<desk, scheduleVars, orderVars, guidelineVars, setupVars, runVars,
               signalVars, recordVars, calculatorVars>>

\* Where a desk that is not used starts makes no difference, so one start will do.
AgentInit ==
    /\ desk \in {"scheduler", "order", "guidelines", "operator", "worker", "signals",
               "records", "calculator"}
    /\ ScheduleInit /\ OrderInit /\ GuidelineInit /\ SetupInit /\ RunInit
    /\ SignalInit /\ RecordInit /\ CalculatorInit
    /\ desk # "scheduler" => clock = Min(Opening)
    /\ desk # "order" => placed = 0
    /\ desk \notin {"order", "records"} => provider = "alpaca"
    /\ desk # "records" =>
          action = [bid |-> CHOOSE b \in Bids : TRUE, kept |-> TRUE] /\ book[1].reported
    /\ desk # "operator" => env = CHOOSE f \in EnvFiles : TRUE
    /\ desk # "worker" => job = (CHOOSE j \in Jobs : TRUE) /\ missing = {}

AtScheduler ==
    /\ desk = "scheduler" /\ ScheduleNext
    /\ UNCHANGED <<desk, orderVars, guidelineVars, setupVars, runVars, signalVars,
                   recordVars, calculatorVars>>

AtOrder ==
    /\ desk = "order" /\ OrderNext
    /\ UNCHANGED <<desk, scheduleVars, guidelineVars, setupVars, runVars, signalVars,
                   recordVars, calculatorVars>>

AtGuidelines ==
    /\ desk = "guidelines" /\ GuidelineNext
    /\ UNCHANGED <<desk, scheduleVars, orderVars, setupVars, runVars, signalVars,
                   recordVars, calculatorVars>>

AtOperator ==
    /\ desk = "operator" /\ SetupNext
    /\ UNCHANGED <<desk, scheduleVars, orderVars, guidelineVars, runVars,
                   signalVars, recordVars, calculatorVars>>

AtWorker ==
    /\ desk = "worker" /\ RunNext
    /\ UNCHANGED <<desk, scheduleVars, orderVars, guidelineVars, setupVars,
                   signalVars, recordVars, calculatorVars>>

AtSignals ==
    /\ desk = "signals" /\ SignalNext
    /\ UNCHANGED <<desk, scheduleVars, orderVars, guidelineVars, setupVars, runVars,
                   recordVars, calculatorVars>>

AtRecords ==
    /\ desk = "records" /\ RecordNext
    /\ UNCHANGED <<desk, scheduleVars, orderVars, guidelineVars, setupVars, runVars,
                   signalVars, calculatorVars>>

AtCalculator ==
    /\ desk = "calculator" /\ CalculatorNext
    /\ UNCHANGED <<desk, scheduleVars, orderVars, guidelineVars, setupVars, runVars,
                   signalVars, recordVars>>

AgentNext ==
    \/ AtScheduler \/ AtOrder \/ AtGuidelines \/ AtOperator \/ AtWorker
    \/ AtSignals \/ AtRecords \/ AtCalculator

AgentSpec == AgentInit /\ [][AgentNext]_agentVars

=============================================================================
