---------------------------- MODULE AdapterAnswers ----------------------------
(****************************************************************************)
(* What an adapter of the scheduler may answer, by the kind of its process. *)
(* Monitors lets an adapter answer any of these; AdapterRuns has the steps  *)
(* by which each comes to one.                                              *)
(****************************************************************************)

\* A process's kind with the two switches of its spec that matter here:
\* notification.enabled and action.proposalCreationAllowed.
Kind ==
    [adapter : {"instrument_monitor", "market_regime_monitor",
                "company_event_analyst", "trade_setup_monitor",
                "market_signal_capture"},
     notify : BOOLEAN, propose : BOOLEAN]

\* ScheduledAdapterResult: status, matched, and what to send: nothing, a text,
\* or an approval request.
Result == [status : {"completed", "failed", "skipped"}, matched : BOOLEAN,
           send : {"nothing", "text", "approval"}]

Answer(status, matched, send) ==
    [status |-> status, matched |-> matched, send |-> send]

\* An invalid spec, an exception; a service, a quote or a model not available.
Failed == Answer("failed", FALSE, "nothing")
Skipped == Answer("skipped", FALSE, "nothing")
NoMatch == Answer("completed", FALSE, "nothing")

Text(k) == IF k.notify THEN "text" ELSE "nothing"

\* The answers of the adapters that only read. The conditions of an instrument
\* or a market regime are judged anew in each run, on the quotes of the moment.
InstrumentAnswers(k) ==
    {Failed, Skipped, NoMatch, Answer("completed", TRUE, Text(k))}

MarketRegimeAnswers(k) ==
    {Failed, Skipped, NoMatch, Answer("completed", TRUE, Text(k))}

CompanyEventAnswers(k) ==
    {Failed, Skipped, Answer("completed", TRUE, Text(k))}

\* The trade setup monitor's answers without a proposal: the trigger's own when
\* it does not match; an analysis that advises against an order, which counts as
\* a match only if none could have been proposed; an order the policy rejects or
\* the broker cannot prepare.
TradeSetupAnswers(k) ==
    {Failed, Skipped, NoMatch, Answer("completed", FALSE, Text(k))}
        \cup (IF k.propose THEN {} ELSE {Answer("completed", TRUE, Text(k))})

\* The signal capture's answers before it has written anything.
CaptureAnswers == {Failed, Skipped}

AnswersOf(k) ==
    CASE k.adapter = "instrument_monitor"    -> InstrumentAnswers(k)
      [] k.adapter = "market_regime_monitor" -> MarketRegimeAnswers(k)
      [] k.adapter = "company_event_analyst" -> CompanyEventAnswers(k)
      [] k.adapter = "trade_setup_monitor"   -> TradeSetupAnswers(k)
      [] k.adapter = "market_signal_capture" -> CaptureAnswers

\* The answer after the three writes of a proposal.
Approval(k) == Answer("completed", TRUE, IF k.notify THEN "approval" ELSE "nothing")

=============================================================================
