------------------------------ MODULE Startup ------------------------------
(***************************************************************************)
(* The start of the program (cli/run.py, app/runtime): a command looks at  *)
(* the settings it reads from the file, and if they allow it builds the    *)
(* runtime, stack after stack in a fixed order, every component being      *)
(* handed those it uses that are there by then.  A component that cannot   *)
(* be built is put down as an error, and the start goes on without it.     *)
(***************************************************************************)
EXTENDS Wizard, Sequences, SequencesExt

CONSTANT MaxErrors   \* components that fail for a reason outside the settings

VARIABLES step,       \* the stack being built, 0 before a command is started
          built,      \* the components the runtime holds
          handed,     \* what each of them was handed when it was built
          errors,     \* component_errors
          registry    \* capability_registry: the bindings that are ready

runtimeVars == <<step, built, handed, errors, registry>>
setupVars == <<wizardVars, runtimeVars>>

Command == {"bot", "reconciler", "scheduler"}

\* For mutation testing: the capabilities are bound once.
StepsInOnePass ==
    <<"genai", "database", "market_signal", "scheduler", "broker", "data_source",
      "capability", "workflow", "notification", "toolbox", "calculator",
      "reconciliation", "agent", "news_supervisor">>

\* The workflows, which the notifications need, need the broker's services: the
\* capabilities are bound before them and again after.
Steps ==
    <<"genai", "database", "market_signal", "scheduler", "broker", "data_source",
      "capability", "workflow", "notification", "capability", "toolbox", "calculator",
      "reconciliation", "agent", "news_supervisor">>

SetupInit ==
    /\ WizardInit
    /\ step = 0 /\ built = {} /\ handed = <<>>
    /\ errors = {} /\ registry = {}

settings == ResolvedSettings(env)

\* The broker provider's client, and that of each source that is enabled; alpaca's
\* stream has no selector of its own.
SourceClient == [yahoo |-> "yahoo", alpaca |-> "alpaca_data",
                 alpha_vantage |-> "alpha_vantage", eodhd |-> "eodhd",
                 reddit |-> "reddit", sec_edgar |-> "sec_edgar"]
SelectedClients ==
    {SourceClient[settings.source[x]] :
        x \in {y \in Sources \ {"search"} : settings.source[y] \in DOMAIN SourceClient}}

\* What a stack has to build, given what it finds.
Components(stack) ==
    CASE stack = "genai" -> {"reasoner"}
      [] stack = "database" -> {"sessions"}
      [] stack = "market_signal" -> {c \in {"market_signals"} : "sessions" \in built}
      [] stack = "scheduler" -> {c \in {"processes"} : "sessions" \in built}
      [] stack = "broker" -> {settings.broker} \cap Broker
      [] stack = "data_source" ->
            SelectedClients
            \cup {c \in {"alpaca_stream"} : Complete(settings, "alpaca")}
      [] stack = "workflow" ->
            {c \in {"portfolio_summary"} : "broker_read" \in built}
            \cup {c \in {"pending_actions", "proposals"} : "sessions" \in built}
      [] stack = "notification" ->
            {c \in {"notifications"} :
               "processes" \in built /\ Available(settings, "scheduler_notifications")}
      [] stack = "calculator" -> {c \in {"calculator_agent"} : "reasoner" \in built}
      [] stack = "reconciliation" ->
            {c \in {"reconciliation"} : {"broker_read", "pending_actions"} \subseteq built}
      [] stack = "toolbox" ->
            {c \in {"order_toolbox"} : ExecutionAvailable(settings)}
      [] stack = "agent" -> {c \in {"agents"} : "reasoner" \in built}
      [] stack = "news_supervisor" ->
            {c \in {"news_supervisor"} :
               {"processes", "alpaca_stream", "agents"} \subseteq built}
      [] OTHER -> {}

\* Clients refuse to be built without their key.
CanBeBuilt(c) ==
    CASE c = "reasoner" ->
            IF settings.azure THEN settings.azureAccess # "" ELSE settings.openaiKey # ""
      [] c = "sessions" -> settings.database
      [] c \in Broker -> Complete(settings, c)
      [] c = "alpaca_data" -> Complete(settings, "alpaca")
      [] c = "alpha_vantage" -> settings.access["market_intelligence"] # ""
      [] c = "eodhd" -> settings.access["symbol_reference"] # ""
      [] OTHER -> TRUE

\* Stacks with an exception handler, whose components fail on their own.
Guarded == {"genai", "database", "broker", "data_source", "notification", "agent"}

\* The components each one is handed.
Uses(c) ==
    CASE c = "portfolio_summary" -> {"broker_read"}
      [] c = "pending_actions" -> {"broker_execution"}
      [] c = "notifications" -> {"processes", "pending_actions"}
      [] c = "reconciliation" -> {"broker_read", "pending_actions", "proposals"}
      [] c = "agents" ->
            {"reasoner", "calculator_agent", "portfolio_summary", "broker_read",
             "broker_execution", "market_data", "symbol_reference", "community",
             "market_signals", "pending_actions", "proposals", "processes",
             "order_toolbox"}
      [] c = "news_supervisor" ->
            {"processes", "alpaca_stream", "agents", "notifications"}
      [] OTHER -> {}

\* _build_capability_stack: the services, each from the client of its provider.
Services ==
    {c \in {"broker_read", "broker_execution"} :
       BrokerReady(settings) /\ built \cap Broker # {}}
    \cup {x \in Sources \ {"search"} :
            /\ SourceReady(settings, x)
            /\ SourceClient[settings.source[x]] \in built}
    \cup {x \in {"search"} : SourceReady(settings, x)}

\* and whether each capability has what it takes.
Needed(c) ==
    CASE c \in Sources \cup {"broker_read", "broker_execution"} -> {c}
      [] c = "market_signal_memory" -> {"market_signals"}
      [] c = "scheduled_processes" -> {"processes"}
      [] c = "scheduler_notifications" -> {"notifications"}
      [] c = "scheduler_instrument_monitor" -> {"processes", "market_data"}
      [] c \in {"scheduler_delegate", "scheduler_company_event_analyst"} ->
            {"reasoner", "processes"}
      [] c = "scheduler_market_regime_monitor" -> {"reasoner", "processes", "market_data"}
      [] c = "scheduler_market_signal_capture" -> {"reasoner", "processes", "market_signals"}
      [] c = "scheduler_trade_setup_monitor" ->
            {"reasoner", "processes", "market_data", "broker_read", "broker_execution",
             "pending_actions", "proposals", "notifications"}
      [] c = "scheduler_alpaca_news_monitor" -> {"reasoner", "processes", "alpaca_stream"}

Bindings(there) ==
    {c \in Capabilities :
       /\ Needed(c) \subseteq there
       /\ c = "scheduler_market_signal_capture" => Researched \cap there # {}}

-----------------------------------------------------------------------------
Start ==
    /\ section = "" /\ step = 0
    /\ \E c \in Command : Preflight(settings, c)
    /\ step' = 1
    /\ UNCHANGED <<wizardVars, built, handed, errors, registry>>

BindCapabilities ==
    /\ Steps[step] = "capability"
    /\ built' = built \cup Services
    /\ registry' = Bindings(built')
    /\ UNCHANGED <<handed, errors>>

BuildComponents ==
    /\ Steps[step] # "capability"
    /\ \E failing \in SUBSET (Components(Steps[step])) :
          LET tried == Components(Steps[step])
              broken == failing \cup {c \in tried : ~CanBeBuilt(c)}
              made == tried \ broken
          IN  /\ \A c \in failing : CanBeBuilt(c) /\ Steps[step] \in Guarded
              /\ Cardinality(errors \cup failing) <= MaxErrors
              /\ built' = built \cup made
              /\ handed' = [c \in DOMAIN handed \cup made |->
                              IF c \in made THEN Uses(c) \cap built' ELSE handed[c]]
              /\ errors' = errors \cup broken
    /\ UNCHANGED registry

Build ==
    /\ step \in DOMAIN Steps
    /\ step' = step + 1
    /\ BindCapabilities \/ BuildComponents
    /\ UNCHANGED wizardVars

StartupNext == Start \/ Build
SetupNext == (step = 0 /\ WizardNext /\ UNCHANGED runtimeVars) \/ StartupNext

StartupSpec == SetupInit /\ [][SetupNext]_setupVars

-----------------------------------------------------------------------------
Up == step > Len(Steps)

\* What each command cannot do without.
RunsOn == [bot |-> {"agents", "notifications"}, reconciler |-> {"reconciliation"},
           scheduler |-> {"processes"}]

\* The selector of the model is one there is and agrees with the keys there are, and a
\* live account is not locked: the two cases in which the runtime goes by other things
\* than the assessment does (_build_genai_stack, _build_capability_stack).
Consistent ==
    /\ settings.azure = (settings.llm = "azure_openai")
    /\ settings.llm \notin {"openai", "azure_openai"} => settings.openaiKey = ""
    /\ BrokerReady(settings) => ExecutionAvailable(settings)

=============================================================================
