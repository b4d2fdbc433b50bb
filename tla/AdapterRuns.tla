----------------------------- MODULE AdapterRuns -----------------------------
(***************************************************************************)
(* One run of an adapter of the scheduler, call by call: what it reads     *)
(* before it judges its conditions, the sources it goes to once they hold, *)
(* the model it asks, and its answer.  Every call may fail, or give        *)
(* nothing, and what is read earlier is used later: the price of the quote *)
(* with the history, all of it with the analysis.  The run of a capture    *)
(* ends here where it begins to write signals, that of a trade setup where *)
(* it makes a proposal; Monitors has those writes, and the lease around it.*)
(*                                                                         *)
(* A value a provider may leave out is a set of at most one number, and no *)
(* quote, an error and an exception are one: each ends the run alike.      *)
(***************************************************************************)
EXTENDS AdapterAnswers, ToolArguments, FiniteSetsExt, Sequences

CONSTANTS
    Jobs,       \* the processes, as the adapters parse their specs: see Job
    Snapshots,  \* the quotes a provider may give: [price, change]
    Histories,  \* the histories: sets of points [low, high]
    MaxMissing  \* bound on the collaborators a program may be without

OnPrice == {"below_price", "above_price"}
OnChange == {"percent_change_below", "percent_change_above"}
OnHistory == {"period_low_breakdown", "period_high_breakout"}
Watched == OnPrice \cup OnChange \cup OnHistory \cup {"drawdown_from_high_pct"}

\* watches: the conditions; an instrument has one, a market regime one or both
\* of its two. context: the market analyst is asked too. symbols: how many the
\* scope of a capture names.
Job == [kind : Kind, valid : BOOLEAN, context : BOOLEAN, symbols : Nat,
        watches : SUBSET [on : Watched, value : Int]]

\* What triggers the other two adapters is their schedule.
ASSUME JobsAreJobs ==
    /\ Jobs \subseteq Job /\ MaxMissing \in Nat
    /\ \A j \in Jobs :
          j.kind.adapter \in {"company_event_analyst", "market_signal_capture"}
             => j.watches = {}
ASSUME DataAreNumbers ==
    /\ Snapshots \subseteq [price : Maybe(Int), change : Maybe(Int)]
    /\ \A h \in Histories :
          IsFiniteSet(h) /\ h \subseteq [low : Maybe(Int), high : Maybe(Int)]

\* The collaborators an adapter may have been built without.
Collaborators ==
    {"market_data", "analyst", "market_analyst", "disclosure", "signals",
     "search", "community", "portfolio", "execution", "proposals"}

VARIABLES
    job,        \* the process
    missing,    \* the collaborators that are not configured
    phase,      \* what the run does next
    quote,      \* the quote read, if one was
    points,     \* the history read; none if it could not be
    left,       \* the sources not yet looked at
    got,        \* those with something in them to go by
    answer      \* the answer, once there is one

runVars == <<job, missing, phase, quote, points, left, got, answer>>

-----------------------------------------------------------------------------
(* Definitions *)

Adapts(adapter) == job.kind.adapter = adapter
Watches(conditions) == \E c \in job.watches : c.on \in conditions
Has(collaborator) == collaborator \notin missing

Goes(next) == phase' = next /\ UNCHANGED answer
Answers(result) == phase' = "answered" /\ answer' = {result}

Matched == Answer("completed", TRUE, Text(job.kind))

Lows(h) == UNION {p.low : p \in h}
Highs(h) == UNION {p.high : p \in h}
PositiveHighs(h) == {x \in Highs(h) : x > 0}

\* A condition judged on what was read: true, false, or neither if it takes a
\* number that is not there.
JudgedOnPrice(c, price) ==
    {IF c.on = "below_price" THEN x <= c.value ELSE x >= c.value : x \in price}

JudgedOnChange(c, change) ==
    {IF c.on = "percent_change_below" THEN x <= c.value ELSE x >= c.value : x \in change}

JudgedOnHistory(c, price) ==
    IF c.on = "period_low_breakdown"
    THEN {x <= Min(Lows(points)) : x \in IF Lows(points) = {} THEN {} ELSE price}
    ELSE {x >= Max(Highs(points)) : x \in IF Highs(points) = {} THEN {} ELSE price}

JudgedOnDrawdown(c, price) ==
    LET high == Max(PositiveHighs(points))
    IN  {(high - x) * 100 >= c.value * high :
            x \in IF PositiveHighs(points) = {} THEN {} ELSE price}

Judged(c) ==
    LET price == UNION {q.price : q \in quote}
        change == UNION {q.change : q \in quote}
    IN
    CASE c.on \in OnPrice -> JudgedOnPrice(c, price)
      [] c.on \in OnChange -> JudgedOnChange(c, change)
      [] c.on \in OnHistory -> JudgedOnHistory(c, price)
      [] OTHER -> JudgedOnDrawdown(c, price)

\* The sources an adapter goes to for its analysis, in order.
CompanySources == <<"market_data", "disclosure", "signals", "search">>
RegimeSources == <<"search">>
SetupSources == <<"portfolio", "signals">>
CaptureSources == <<"search", "community", "disclosure", "market_data">>

SourcesInOrder ==
    CASE Adapts("company_event_analyst") -> CompanySources
      [] Adapts("market_regime_monitor") -> RegimeSources
      [] Adapts("trade_setup_monitor") -> SetupSources
      [] Adapts("market_signal_capture") -> CaptureSources

\* A capture asks for disclosures and market data by symbol, for disclosures one
\* symbol after the other: an answer to one of them will do.
CaptureMayHave(source) ==
    source \in {"disclosure", "market_data"} => job.symbols > 0

Gathers == Goes("gather") /\ left' = SourcesInOrder

RunInit ==
    /\ job \in Jobs
    /\ missing \in {m \in SUBSET Collaborators : Cardinality(m) <= MaxMissing}
    /\ phase = "begin" /\ quote = {} /\ points = {} /\ left = <<>>
    /\ got = {} /\ answer = {}

-----------------------------------------------------------------------------
(* The trigger *)

\* The spec is parsed and the adapter looks at what it cannot do without.
BeginRun ==
    LET needed == CASE Adapts("company_event_analyst") -> {"analyst"}
                    [] Adapts("market_signal_capture") -> {"signals", "analyst"}
                    [] OTHER -> {"market_data"}
    IN
    /\ phase = "begin"
    /\ IF ~job.valid THEN Answers(Failed) /\ UNCHANGED left
       ELSE IF needed \cap missing # {} THEN Answers(Skipped) /\ UNCHANGED left
       ELSE IF "market_data" \in needed THEN Goes("quote") /\ UNCHANGED left
       ELSE Gathers
    /\ UNCHANGED <<job, missing, quote, points, got>>

\* get_quote_snapshot. A quote without a price is of no use to any condition.
ReadQuote ==
    /\ phase = "quote"
    /\ \E q \in {{}} \cup {{s} : s \in Snapshots} :
          /\ quote' = q
          /\ IF \A x \in q : x.price = {} THEN Answers(Skipped)
             ELSE IF Watches(OnHistory \cup {"drawdown_from_high_pct"})
             THEN Goes("history") ELSE Goes("judge")
    /\ UNCHANGED <<job, missing, points, left, got>>

\* get_price_history: a failure and an empty history are one.
ReadHistory ==
    /\ phase = "history"
    /\ points' \in {{}} \cup Histories
    /\ Goes("judge")
    /\ UNCHANGED <<job, missing, quote, left, got>>

\* What the trade setup and the market regime monitor need once they match.
GoesOn ==
    IF \/ "analyst" \in missing
       \/ /\ Adapts("trade_setup_monitor") /\ job.kind.propose
          /\ {"portfolio", "execution", "proposals"} \cap missing # {}
    THEN Answers(Skipped) /\ UNCHANGED left
    ELSE Gathers

\* A faulty variant of JudgeTrigger: a condition that cannot be judged is taken
\* for one that does not hold.
JudgeWhatCanBe ==
    /\ phase = "judge"
    /\ IF \E c \in job.watches : Judged(c) = {TRUE}
       THEN IF Adapts("instrument_monitor") THEN Answers(Matched) /\ UNCHANGED left
            ELSE GoesOn
       ELSE Answers(NoMatch) /\ UNCHANGED left
    /\ UNCHANGED <<job, missing, quote, points, got>>

\* One condition that holds is enough; one that cannot be judged, where none
\* holds, leaves the run without a verdict.
JudgeTrigger ==
    /\ phase = "judge"
    /\ IF \E c \in job.watches : Judged(c) = {TRUE}
       THEN IF Adapts("instrument_monitor") THEN Answers(Matched) /\ UNCHANGED left
            ELSE GoesOn
       ELSE /\ Answers(IF \E c \in job.watches : Judged(c) = {} THEN Skipped ELSE NoMatch)
            /\ UNCHANGED left
    /\ UNCHANGED <<job, missing, quote, points, got>>

-----------------------------------------------------------------------------
(* The analysis *)

\* A source that is not configured, or raises, leaves a caveat and no more; one
\* may answer with a refusal or with nothing.
GatherSource ==
    /\ phase = "gather" /\ left # <<>>
    /\ \/ /\ Has(Head(left))
          /\ Adapts("market_signal_capture") => CaptureMayHave(Head(left))
          /\ got' = got \cup {Head(left)}
       \/ UNCHANGED got
    /\ left' = Tail(left)
    /\ UNCHANGED <<job, missing, phase, quote, points, answer>>

\* A capture does not ask the model on market data alone.
EndGathering ==
    /\ phase = "gather" /\ left = <<>>
    /\ IF Adapts("market_signal_capture") /\ got \subseteq {"market_data"}
       THEN Answers(Skipped)
       ELSE IF Adapts("company_event_analyst") /\ job.context /\ Has("market_analyst")
       THEN Goes("context") ELSE Goes("ask")
    /\ UNCHANGED <<job, missing, quote, points, left, got>>

\* handle of an analyst: the market's for context, then the adapter's own. An
\* exception goes through the adapter to the worker, which records a failure.
AskAnalyst ==
    /\ \/ phase = "context" /\ (Goes("ask") \/ Answers(Failed))
       \/ phase = "ask" /\ (Goes("analyse") \/ Answers(Failed))
    /\ UNCHANGED <<job, missing, quote, points, left, got>>

\* synthesize fails, or gives an analysis; an event or a regime's is the answer.
AnalyseEvent ==
    /\ phase = "analyse" /\ Adapts("company_event_analyst")
    /\ Answers(Failed) \/ Answers(Matched)
    /\ UNCHANGED <<job, missing, quote, points, left, got>>

AnalyseRegime ==
    /\ phase = "analyse" /\ Adapts("market_regime_monitor")
    /\ Answers(Failed) \/ Answers(Matched)
    /\ UNCHANGED <<job, missing, quote, points, left, got>>

\* Its signals are written next.
AnalyseCapture ==
    /\ phase = "analyse" /\ Adapts("market_signal_capture")
    /\ Answers(Failed) \/ Goes("write")
    /\ UNCHANGED <<job, missing, quote, points, left, got>>

\* A faulty variant of AnalyseSetup: a setup that is good but proposes nothing
\* counts as the match, whoever may propose.
AnalyseSetupAsMatch ==
    /\ phase = "analyse" /\ Adapts("trade_setup_monitor")
    /\ \/ Answers(Failed)
       \/ \E quality \in {"reject", "other"}, order \in BOOLEAN :
             IF order /\ job.kind.propose THEN Goes("policy")
             ELSE Answers(Answer("completed", order \/ quality # "reject",
                                 Text(job.kind)))
    /\ UNCHANGED <<job, missing, quote, points, left, got>>

\* An analysis of a setup may or may not speak for an order. Without one a
\* process that could propose goes on watching; one that could not is done,
\* unless the setup is rejected.
AnalyseSetup ==
    /\ phase = "analyse" /\ Adapts("trade_setup_monitor")
    /\ \/ Answers(Failed)
       \/ \E quality \in {"reject", "other"}, order \in BOOLEAN :
             IF order /\ job.kind.propose THEN Goes("policy")
             ELSE Answers(Answer("completed",
                                 ~job.kind.propose /\ (order \/ quality # "reject"),
                                 Text(job.kind)))
    /\ UNCHANGED <<job, missing, quote, points, left, got>>

\* The order against the policy (ScheduleTools!PolicyRejects), and prepare_order.
PrepareProposal ==
    /\ phase = "policy"
    /\ Answers(NoMatch) \/ Answers(Skipped) \/ Goes("propose")
    /\ UNCHANGED <<job, missing, quote, points, left, got>>

-----------------------------------------------------------------------------
(* Specification *)

RunNext ==
    \/ BeginRun \/ ReadQuote \/ ReadHistory \/ JudgeTrigger
    \/ GatherSource \/ EndGathering \/ AskAnalyst \/ AnalyseEvent
    \/ AnalyseRegime \/ AnalyseCapture \/ AnalyseSetup \/ PrepareProposal

RunSpec == RunInit /\ [][RunNext]_runVars

-----------------------------------------------------------------------------
(* Properties *)

\* Whether a condition is met, said of the data and not of the way the code
\* looks at it: no low under the price, no high over it, a fall from a high.
Meets(c, price, change) ==
    CASE c.on = "below_price" -> price <= c.value
      [] c.on = "above_price" -> price >= c.value
      [] c.on = "percent_change_below" -> \E x \in change : x <= c.value
      [] c.on = "percent_change_above" -> \E x \in change : x >= c.value
      [] c.on = "period_low_breakdown" ->
            Lows(points) # {} /\ \A x \in Lows(points) : price <= x
      [] c.on = "period_high_breakout" ->
            Highs(points) # {} /\ \A x \in Highs(points) : price >= x
      [] c.on = "drawdown_from_high_pct" ->
            \E x \in Highs(points) : x > 0 /\ 100 * price <= (100 - c.value) * x

\* The number a condition takes was there.
CanBeTold(c) ==
    CASE c.on \in {"percent_change_below", "percent_change_above"} ->
            \A q \in quote : q.change # {}
      [] c.on = "period_low_breakdown" -> Lows(points) # {}
      [] c.on \in {"period_high_breakout", "drawdown_from_high_pct"} ->
            \E x \in Highs(points) : x > 0 \/ c.on = "period_high_breakout"
      [] OTHER -> TRUE

\* A watching process that spends a model, matches or proposes has read data on
\* which one of its conditions holds; one that says "no match" before a model
\* was asked has read enough to tell that none of them does. A gap in the data
\* is neither: a match is not made up, and none is passed over as quiet.  And
\* however a run goes, it answers what Monitors lets an adapter of its kind
\* answer, and begins to write only where Monitors lets it: what is shown of the
\* worker and its records there holds of these adapters.
VerdictsAreSound ==
    /\ job.watches # {} =>
       LET met == \E c \in job.watches : \E q \in quote : \E x \in q.price :
                     Meets(c, x, q.change)
       IN
       /\ \/ phase \in {"gather", "ask", "analyse", "policy", "propose"}
          \/ answer = {Matched}
          => met
       /\ answer = {NoMatch} /\ ~met
          => \A c \in job.watches : CanBeTold(c)
    /\ phase \in {"ask", "analyse", "write"} /\ Adapts("market_signal_capture")
          => got \cap {"search", "community", "disclosure"} # {}
    /\ answer \subseteq AnswersOf(job.kind)
    /\ phase = "propose" => Adapts("trade_setup_monitor") /\ job.kind.propose
    /\ phase = "write" => Adapts("market_signal_capture")

=============================================================================
