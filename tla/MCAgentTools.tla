--------------------------- MODULE MCAgentTools ---------------------------
(* Small instances of AgentTools for TLC. *)
EXTENDS AgentTools, TLC

CONSTANTS aaa, bbb

\* One zone whose clocks go back one unit, one behind UTC whose clocks go
\* forward, at midday, and one that never changes.
Z(before, after, moment) == [before |-> before, after |-> after, change |-> moment]
MCZones == [rome |-> Z(1, 0, 13), boston |-> Z(-2, -1, 14), tokyo |-> Z(2, 2, 0)]
ASSUME MCZonesKeepDates == \A name \in DOMAIN MCZones : KeepsDate(MCZones[name])

\* All forms that differ from a good one in two arguments at most.
Around(good, other) ==
    {good} \cup
    UNION {{[good EXCEPT ![x] = v, ![y] = w] : v \in other[x], w \in other[y]} :
              x \in DOMAIN other, y \in DOMAIN other}

Filled == [timezone |-> "", broker |-> FALSE]
OtherFilled == [timezone |-> {"boston", "nowhere"}, broker |-> {TRUE}]
Polled == Filled @@ [poll |-> {}, expires |-> {}]
OtherPolled == OtherFilled @@ [poll |-> {{0}, {5}}, expires |-> {{-1}, {6}}]

Alert == Polled @@ [symbol |-> {aaa}, trigger |-> "price", value |-> {1}]
OtherAlert == OtherPolled @@
    [symbol |-> {{}}, trigger |-> {"period"}, value |-> {{}}]

Regular == Filled @@
    [schedule |-> "recurring", frequency |-> {"daily"}, time |-> {1}, days |-> {}]
OtherRegular == OtherFilled @@
    [frequency |-> {{}, {"weekdays"}, {"weekly"}}, time |-> {{}, {2}, {Day}},
     days |-> {{1, 4}, {7}}]

MCForms ==
    UNION {
       Around(Alert @@ [tool |-> "instrument_monitor"], OtherAlert),
       Around(Regular @@ [tool |-> "company_event_analyst", symbol |-> {aaa},
                            runAt |-> {}],
              OtherRegular @@ [symbol |-> {{}}, runAt |-> {{-1}, {3}},
                                schedule |-> {"one_shot"}]),
       Around(Polled @@ [tool |-> "market_regime_monitor", label |-> "known",
                         proxy |-> {}, percent |-> {}, drawdown |-> {}],
              OtherPolled @@ [label |-> {"none", "unknown"}, proxy |-> {{bbb}},
                              percent |-> {{0}, {-1}}, drawdown |-> {{0}, {1}}]),
       Around(Regular @@ [tool |-> "market_signal_capture", scope |-> {"tags"},
                            signals |-> 3, poll |-> {}],
              OtherRegular @@ [scope |-> {{}}, signals |-> {0, 4},
                                schedule |-> {"polling"}, poll |-> {{1}, {5}}]),
       Around(Filled @@ [tool |-> "alpaca_news_monitor", start |-> {}, end |-> {},
                      duration |-> {2}, events |-> 1],
              OtherFilled @@ [start |-> {{-1}, {3}}, end |-> {{-1}, {2}, {5}},
                           duration |-> {{}, {0}}, events |-> {0, 2}]),
       Around(Alert @@ [tool |-> "trade_setup_monitor", propose |-> TRUE,
                        symbols |-> {}, sides |-> {"BUY"}, types |-> {"LIMIT"},
                        notional |-> {}, currency |-> {}, quantity |-> {2},
                        extended |-> FALSE, chats |-> {"invoking"}],
              OtherAlert @@
                 [propose |-> {FALSE}, symbols |-> {{bbb}}, sides |-> {{}, Sides},
                  types |-> {{}}, notional |-> {{0}, {3}}, currency |-> {{"EUR"}},
                  quantity |-> {{}, {0}}, extended |-> {TRUE},
                  chats |-> {{}, {"given"}}]) }

MCOrders ==
    Around([ticker |-> aaa, side |-> "BUY", type |-> "LIMIT", quantity |-> {2},
            notional |-> {}, currency |-> {}, extended |-> FALSE],
           [ticker |-> {bbb}, side |-> {"SELL"}, type |-> {"STOP"},
            quantity |-> {{}, {3}}, notional |-> {{0}, {3}, {4}},
            currency |-> {{"EUR"}, {"USD"}}, extended |-> {TRUE}])

-----------------------------------------------------------------------------
\* All requests that differ from a good one in one argument at most.
Near(good, other) ==
    {good} \cup UNION {{[good EXCEPT ![x] = v] : v \in other[x]} : x \in DOMAIN other}

\* The first and the third query have a clear best, the second two that are close.
MCScore == << <<90, 70, 0>>, <<80, 83, 85>>, <<60, 0, 100>> >>

\* The tickers of two instruments look like another broker's: the one finds its
\* instrument again, the other finds two.
MCUnusual == [i \in {1, 3} |-> IF i = 1 THEN 1 ELSE 2]

Limited ==
    [query |-> 1, type |-> "LIMIT", side |-> "BUY", quantity |-> {}, amount |-> {7},
     currency |-> {"USD"}, limit |-> {3}, stop |-> {2}, extended |-> FALSE,
     lasting |-> FALSE]
AtMarket ==
    [Limited EXCEPT !.type = "MARKET", !.limit = {}, !.stop = {}, !.side = "SELL",
                    !.lasting = TRUE]
MCRequests ==
    Near(Limited,
         [query |-> {2, 3}, type |-> {"STOP_LIMIT"}, quantity |-> {{3}},
          amount |-> {{0}, {2}}, limit |-> {{}, {-1}}, extended |-> {TRUE}])
    \cup Near(AtMarket, [amount |-> {{}}, extended |-> {TRUE}])
    \cup {[Limited EXCEPT !.side = "SELL", !.quantity = {3}, !.amount = {}]}

Bid(type, limit, stop) ==
    [ticker |-> "aaa", type |-> type, side |-> "SELL", quantity |-> 2,
     limit |-> limit, stop |-> stop, lasting |-> FALSE, extended |-> FALSE]
MCBids ==
    Near(Bid("STOP_LIMIT", {3}, {4}),
         [quantity |-> {3}, limit |-> {{4}}])

MCQuotes == {[price |-> 2, currency |-> {"USD"}], [price |-> 3, currency |-> {"EUR"}]}
MCHoldings == {[all |-> 3, free |-> 0], [all |-> 3, free |-> 2]}

-----------------------------------------------------------------------------
Account(practice, live, legacy) ==
    [practice |-> [k \in Part |-> practice], live |-> [k \in Part |-> live],
     legacy |-> [k \in Part |-> legacy]]
NoAccount == Account(absent, absent, absent)
MCEmpty ==
    [llm |-> absent, openaiKey |-> absent, azure |-> absent, azureAccess |-> absent,
     broker |-> absent, environment |-> [b \in Broker |-> absent],
     own |-> [b \in Broker |-> NoAccount], live |-> absent, token |-> absent,
     chat |-> absent, provider |-> [s \in Sources |-> absent],
     enabled |-> [s \in Sources |-> absent], access |-> [s \in Sources |-> absent],
     database |-> absent]
\* A file from before there were selectors and two environments.
MCOld ==
    [MCEmpty EXCEPT !.openaiKey = "old", !.own["trading212"] = Account(absent, absent, "old"),
        !.enabled["market_data"] = "false", !.access["symbol_reference"] = "old",
        !.token = "old", !.chat = "old", !.database = "default",
        !.enabled["market_intelligence"] = "false", !.access["disclosure"] = ""]
\* One for a live account with everything on, after the wizard and a change by hand.
MCNew ==
    [llm |-> "azure_openai", openaiKey |-> "", azure |-> "true", azureAccess |-> "old",
     broker |-> "alpaca", environment |-> [b \in Broker |-> "live"],
     own |-> [trading212 |-> Account(absent, "old", absent),
              alpaca |-> Account("", "odder", "older")],
     live |-> "odd", token |-> "old", chat |-> "old",
     provider |-> [Provider EXCEPT !["market_data"] = "alpaca", !["community"] = "reddit"],
     enabled |-> [s \in Sources |-> IF s \in {"disclosure", "community"} THEN absent ELSE "true"],
     access |-> [s \in Sources |-> IF s \in {"market_data", "community"} THEN absent ELSE "old"],
     database |-> "default"]
MCEnvFiles == {MCOld, MCNew}
\* A value in quotes of its own loses them, one with a space and a \ gets another \.
MCReread == "odd" :> "true" @@ "odder" :> "oddest"
MCFragile == DOMAIN MCReread

-----------------------------------------------------------------------------
J(adapter, notify, propose, watches) ==
    [kind |-> [adapter |-> adapter, notify |-> notify, propose |-> propose],
     valid |-> TRUE, context |-> FALSE, symbols |-> 0, watches |-> watches]
When(on, value) == [on |-> on, value |-> value]

MCJobs ==
    {J("instrument_monitor", TRUE, FALSE, {When("below_price", 50)}),
     J("instrument_monitor", FALSE, FALSE, {When("above_price", 80)}),
     J("instrument_monitor", TRUE, FALSE, {When("percent_change_above", 3)}),
     J("instrument_monitor", TRUE, FALSE, {When("period_high_breakout", 0)}),
     [J("instrument_monitor", TRUE, FALSE, {}) EXCEPT !.valid = FALSE],
     J("market_regime_monitor", TRUE, FALSE,
       {When("percent_change_below", -3), When("drawdown_from_high_pct", 20)}),
     J("market_regime_monitor", TRUE, FALSE, {When("drawdown_from_high_pct", 50)}),
     [J("company_event_analyst", TRUE, FALSE, {}) EXCEPT !.context = TRUE],
     J("trade_setup_monitor", TRUE, TRUE, {When("period_low_breakdown", 0)}),
     J("trade_setup_monitor", TRUE, FALSE, {When("percent_change_below", -3)}),
     J("market_signal_capture", TRUE, FALSE, {}),
     [J("market_signal_capture", FALSE, FALSE, {}) EXCEPT !.symbols = 2]}

MCSnapshots ==
    [price : {{}, {50}, {64}, {80}}, change : {{}, {-3}, {3}}]
Point(low, high) == [low |-> low, high |-> high]
MCHistories ==
    {{Point({}, {})}, {Point({64}, {80}), Point({70}, {})},
     {Point({51}, {0})}, {Point({}, {100}), Point({50}, {128})}}

-----------------------------------------------------------------------------
\* On one symbol, one sector and one tag; an end in UTC, or three hours behind it.
N(title, symbols, sectors, tags, nature, end) ==
    [title |-> title, symbols |-> symbols, sectors |-> sectors, tags |-> tags,
     nature |-> nature, end |-> end]
At(wall, offset) == {[wall |-> wall, offset |-> offset]}

MCSignalNotes ==
    {N("capex", {"nvda"}, {}, {"ai"}, "news", {}),
     N("capex", {}, {"chips"}, {"ai"}, "risk", At(2, 0)),
     N("rates", {}, {"chips"}, {}, "news", At(1, -3)),
     N("rates", {}, {}, {}, "news", {}), N("", {"nvda"}, {}, {}, "news", {}),
     N("rates", {"nvda"}, {}, {}, "news", At(-1, 0))}

Q(symbols, sectors, tags, limit) ==
    [symbols |-> symbols, sectors |-> sectors, tags |-> tags, nature |-> {},
     active |-> TRUE, expired |-> FALSE, limit |-> limit]
MCSearches ==
    {Q({"nvda"}, {}, {}, 5), Q({"nvda"}, {"chips"}, {"ai"}, 1), Q({}, {"chips"}, {}, 0),
     [Q({}, {}, {}, 9) EXCEPT !.active = FALSE, !.expired = TRUE],
     [Q({}, {}, {"ai"}, 2) EXCEPT !.nature = {"risk"}, !.expired = TRUE]}

-----------------------------------------------------------------------------
MCLiterals == "1" :> 1 @@ "2" :> 2
MCAmounts == {-1, 0, 2, 4}

=============================================================================
