------------------------------ MODULE Settings ------------------------------
(***************************************************************************)
(* What the program reads from its .env file (app/config.py) and what it   *)
(* concludes about itself from it (app/bootstrap/core.py): which providers *)
(* are selected, under which credentials, which of them are ready, and     *)
(* which capabilities that gives.  A file gives each key no value (absent),*)
(* an empty one, or a word; texts, urls and numbers nothing depends on are *)
(* left out.                                                               *)
(***************************************************************************)
absent == "absent"
Blank(v) == v \in {absent, ""}
On(v) == v \in {"1", "true", "yes", "y", "on"}
FirstNonEmpty(v, w) == IF ~Blank(v) THEN v ELSE IF ~Blank(w) THEN w ELSE ""

\* The sources of data that a selector of their own chooses a provider for.
Sources == {"market_data", "market_intelligence", "symbol_reference",
            "disclosure", "community", "search"}
Broker == {"trading212", "alpaca"}
Part == {"key", "secret"}

\* Each broker has an account to practise with (demo at Trading 212, paper at
\* Alpaca) and a live one, each with a key and a secret of its own, and the key and
\* the secret written before there were two.
Environments == {"practice", "live"}
Accounts == Environments \cup {"legacy"}

\* The provider a source has besides "none", and alpaca for market data.
Provider == [market_data |-> "yahoo", market_intelligence |-> "alpha_vantage",
             symbol_reference |-> "eodhd", disclosure |-> "sec_edgar",
             community |-> "reddit", search |-> "searxng"]
ValidProviders(s) ==
    {Provider[s], "none"} \cup (IF s = "market_data" THEN {"alpaca"} ELSE {})

-----------------------------------------------------------------------------
\* Sources have a selector, most an older switch, and some a credential or an
\* address.
ResolveLlm(file) ==
    IF ~Blank(file.llm) THEN file.llm
    ELSE IF On(file.azure) \/ ~Blank(file.azureAccess) THEN "azure_openai"
    ELSE IF ~Blank(file.openaiKey) THEN "openai"
    ELSE "none"

ResolveBroker(file) ==
    IF ~Blank(file.broker) THEN file.broker
    ELSE IF \E a \in Accounts, k \in Part : ~Blank(file.own["trading212"][a][k])
         THEN "trading212"
    ELSE "none"

\* Without a selector market data come from Yahoo unless the old switch says no,
\* disclosure is on, the community off, and the rest follow their old switch or,
\* without one, their credential.
ResolveSource(file, s) ==
    LET switch == file.enabled[s]
        implied ==
           CASE s = "market_data" -> switch = absent \/ On(switch)
             [] s = "disclosure" -> TRUE
             [] s = "community" -> FALSE
             [] OTHER -> IF switch # absent THEN On(switch) ELSE ~Blank(file.access[s])
    IN  IF ~Blank(file.provider[s]) THEN file.provider[s]
        ELSE IF implied THEN Provider[s] ELSE "none"

Environment(file, b) ==
    IF file.environment[b] = "live" THEN "live" ELSE "practice"

\* The key and the secret fall back to the old ones independently.
ResolveCredential(file, b, e, k) ==
    FirstNonEmpty(file.own[b][e][k], file.own[b]["legacy"][k])

ResolvedSettings(file) ==
    [llm         |-> ResolveLlm(file),
     azure       |-> ResolveLlm(file) = "azure_openai" \/ On(file.azure),
     openaiKey   |-> FirstNonEmpty(file.openaiKey, ""),
     azureAccess |-> FirstNonEmpty(file.azureAccess, ""),
     broker      |-> ResolveBroker(file),
     environment |-> [b \in Broker |-> Environment(file, b)],
     credential  |-> [b \in Broker |->
                        [k \in Part |->
                           ResolveCredential(file, b, Environment(file, b), k)]],
     live        |-> On(file.live),
     token       |-> ~Blank(file.token),
     chat        |-> ~Blank(file.chat),
     source      |-> [s \in Sources |-> ResolveSource(file, s)],
     access      |-> [s \in Sources |-> FirstNonEmpty(file.access[s], "")],
     database    |-> file.database # ""]

-----------------------------------------------------------------------------
\* Assessment: a provider is enabled when it is selected, and ready when it is
\* enabled and has what it needs.
Complete(s, b) == \A k \in Part : s.credential[b][k] # ""
LlmReady(s) ==
    \/ s.llm = "openai" /\ s.openaiKey # ""
    \/ s.llm = "azure_openai" /\ s.azureAccess # ""
BrokerReady(s) == s.broker \in Broker /\ Complete(s, s.broker)
TelegramReady(s) == s.token /\ s.chat
SourceReady(s, x) ==
    CASE s.source[x] = "alpaca" -> x = "market_data" /\ Complete(s, "alpaca")
      [] s.source[x] = Provider[x] ->
            x \in {"market_intelligence", "symbol_reference", "search"}
               => s.access[x] # ""
      [] OTHER -> FALSE

\* A live account at Trading 212 executes only when the switch says so.
ExecutionAvailable(s) ==
    BrokerReady(s) /\ (s.broker = "alpaca" \/ s.environment["trading212"] # "live"
                       \/ s.live)

Capabilities ==
    {"broker_read", "broker_execution", "market_signal_memory", "scheduled_processes",
     "scheduler_notifications", "scheduler_instrument_monitor", "scheduler_delegate",
     "scheduler_company_event_analyst", "scheduler_market_regime_monitor",
     "scheduler_market_signal_capture", "scheduler_trade_setup_monitor",
     "scheduler_alpaca_news_monitor"} \cup Sources

Researched == {"disclosure", "community", "search"}

Available(s, c) ==
    CASE c \in Sources -> SourceReady(s, c)
      [] c = "broker_read" -> BrokerReady(s)
      [] c = "broker_execution" -> ExecutionAvailable(s)
      [] c \in {"market_signal_memory", "scheduled_processes"} -> s.database
      [] c = "scheduler_notifications" -> s.database /\ TelegramReady(s)
      [] c = "scheduler_instrument_monitor" ->
            s.database /\ SourceReady(s, "market_data")
      [] c \in {"scheduler_delegate", "scheduler_company_event_analyst"} ->
            LlmReady(s) /\ s.database
      [] c = "scheduler_market_regime_monitor" ->
            LlmReady(s) /\ s.database /\ SourceReady(s, "market_data")
      [] c = "scheduler_market_signal_capture" ->
            LlmReady(s) /\ s.database /\ \E x \in Researched : SourceReady(s, x)
      [] c = "scheduler_trade_setup_monitor" ->
            /\ LlmReady(s) /\ s.database /\ SourceReady(s, "market_data")
            /\ BrokerReady(s) /\ ExecutionAvailable(s) /\ TelegramReady(s)
      [] c = "scheduler_alpaca_news_monitor" ->
            LlmReady(s) /\ s.database /\ Complete(s, "alpaca")

\* A selector nobody knows, or a provider selected without what it needs.
BrokerIsWrong(s) == s.broker # "none" /\ ~BrokerReady(s)
ConfigurationErrors(s) ==
    \/ s.llm # "none" /\ ~LlmReady(s)
    \/ BrokerIsWrong(s)
    \/ s.token # s.chat
    \/ \E x \in Sources : s.source[x] # "none" /\ ~SourceReady(s, x)

\* For mutation testing: the reconciler is let go without a broker.
PreflightOfDatabase(s, command) ==
    CASE command = "bot" -> ~ConfigurationErrors(s) /\ LlmReady(s) /\ TelegramReady(s)
      [] OTHER -> s.database

\* What must hold before each of the program's commands is started.
Preflight(s, command) ==
    CASE command = "bot" -> ~ConfigurationErrors(s) /\ LlmReady(s) /\ TelegramReady(s)
      [] command = "reconciler" -> BrokerReady(s) /\ s.database
      [] command = "scheduler" -> s.database

=============================================================================
