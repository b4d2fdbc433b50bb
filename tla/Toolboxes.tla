----------------------------- MODULE Toolboxes -----------------------------
(***************************************************************************)
(* What the agents of a runtime are offered, and what they get             *)
(* (genai/tools/tools.py, agent/tooling.py, brokers/tools/toolboxes.py,    *)
(* agent/news_judge/toolbox.py, agent/orchestrator).  A toolbox, the tools *)
(* a model is told of, is put together from the settings and their         *)
(* assessment; the functions that are run when it asks for one are bound   *)
(* to the services the agent was handed, to clients made anew, or to a     *)
(* refusal.  The tools of one service count as one here.  The toolboxes    *)
(* for chat and research are left out: no model is told of them.           *)
(***************************************************************************)
EXTENDS Startup

\* The tools that stand on a source have its name.  "signals" is the memory of market
\* signals, "orders" the broker's orders, and the others hand over to an agent.
If(condition, tools) == IF condition THEN tools ELSE {}

\* For mutation testing: the tools of every provider that is selected.
OfSelected(sources) == {x \in sources : settings.source[x] # "none"}

\* _provider_ready, of the provider that is selected.
OfReady(sources) == {x \in sources : SourceReady(settings, x)}

MarketAnalystToolbox ==
    OfReady({"market_data", "market_intelligence", "disclosure", "search",
             "symbol_reference"})
    \cup If(Available(settings, "market_signal_memory"), {"signals"})
OrderToolbox ==
    If(ExecutionAvailable(settings), {"orders"} \cup OfReady({"symbol_reference"}))

\* The agents there are, of those that something depends on.
Specialists ==
    {"order", "market"} \cup If("community" \in handed["agents"], {"reddit_research"})
    \cup If("processes" \in handed["agents"], {"scheduler"})
NewsJudgeToolbox ==
    {"market", "order"} \cup If("market_signals" \in handed["agents"], {"signals"})
RoutingToolbox ==
    Specialists \cup If({"processes", "scheduler_alpaca_news_monitor"}
                           \subseteq handed["agents"] \cup registry, {"news_monitor"})

\* The tools each agent can ask for; the market analyst may ask the one for the
\* community if there is one.
ToolsOf(agent) ==
    CASE agent = "market" ->
            MarketAnalystToolbox \cup ({"reddit_research"} \cap Specialists)
      [] agent = "order" -> If("order_toolbox" \in handed["agents"], OrderToolbox)
      [] agent = "reddit_research" -> {"community"}
      [] agent = "news_judge" -> NewsJudgeToolbox
      [] agent = "orchestrator" -> RoutingToolbox
Agents == {"market", "order", "news_judge", "orchestrator"}
          \cup ({"reddit_research"} \cap Specialists)

-----------------------------------------------------------------------------
\* A service that was not handed over is made anew if its provider is ready.
ServiceFor(x) == x \in handed["agents"] \/ SourceReady(settings, x)

\* build_tool_mapping: whether the function behind a tool does its work.
FunctionWorks(tool) ==
    CASE tool \in {"market_data", "symbol_reference"} -> ServiceFor(tool)
      [] tool \in {"market_intelligence", "search"} -> settings.access[tool] # ""
      [] tool = "signals" -> "market_signals" \in handed["agents"]
      [] OTHER -> TRUE

\* The order agent, the one for the community and those that hand over work with
\* what they were handed alone.
OrderFunctionWorks(tool) ==
    CASE tool = "orders" ->
            {"broker_read", "broker_execution", "pending_actions"}
               \subseteq handed["agents"]
      [] OTHER -> tool \in handed["agents"]
Works(agent, tool) ==
    CASE agent = "order" -> OrderFunctionWorks(tool)
      [] agent = "reddit_research" -> tool \in handed["agents"]
      [] tool \in {"order", "market", "reddit_research", "scheduler"} ->
            tool \in Specialists
      [] tool = "news_monitor" -> "processes" \in handed["agents"]
      [] OTHER -> FunctionWorks(tool)

\* The components a tool is offered without when they could not be built.
MayBeMissing ==
    [orders |-> {"trading212", "alpaca", "sessions"}, signals |-> {"sessions"},
     symbol_reference |-> {"eodhd"}]

-----------------------------------------------------------------------------
\* Whatever fails, no component of a finished runtime was built before one that it
\* uses, which it would then do without for good, and no binding was decided before
\* its component was there: the order of the stacks is right (build_runtime). And if
\* nothing failed the runtime offers what the assessment had announced, no capability
\* more and none less, and what any command let through relies on, although the two
\* are worked out independently, one from settings and one from components
\* (assess_settings, _build_capability_stack, preflight_run_bot).  An agent is offered
\* no tool that cannot do its work, unless a component that it stands on is put down
\* as an error; and the analyst is offered every source there is a service for.
OffersWhatWasAssessed ==
    Up =>
       /\ \A c \in DOMAIN handed : handed[c] = Uses(c) \cap built
       /\ registry = Bindings(built)
       /\ errors = {} /\ Consistent =>
             /\ registry = {c \in Capabilities : Available(settings, c)}
             /\ \A c \in Command : Preflight(settings, c) => RunsOn[c] \subseteq built
       /\ "agents" \in built =>
             /\ \A agent \in Agents : \A tool \in ToolsOf(agent) :
                   \/ Works(agent, tool)
                   \/ /\ tool \in DOMAIN MayBeMissing
                      /\ errors \cap MayBeMissing[tool] # {}
             /\ built \cap (Sources \ {"community"}) \subseteq ToolsOf("market")

=============================================================================
