---------------------------- MODULE ScheduleTools ----------------------------
(***************************************************************************)
(* The tools by which the scheduler's specialist creates, pauses, resumes  *)
(* and archives a scheduled process (scheduler/management), from the form  *)
(* a model fills in to the run that reads the stored specification: the    *)
(* typed creator, the validation by the service, the row, and the parser   *)
(* of the adapter.  Scheduler and Monitors have the life of a process and  *)
(* the work of an adapter; here it is what the form becomes.               *)
(*                                                                         *)
(* A negative date or time stands for text that cannot be read as one.     *)
(***************************************************************************)
EXTENDS Calendar, ToolArguments

CONSTANTS
    Symbol,         \* market symbols
    Zones,          \* the known time zones, by name
    DefaultZone,    \* the configured one
    DefaultPoll,    \* polling interval of a form that names none
    CapturePoll,    \* and of a capture
    MinCapturePoll, \* the shortest interval of a capture
    MaxEvents,      \* the highest rate of news a monitor may ask for
    Forms,          \* the forms a model may file
    Orders,         \* the orders an analysis may propose
    Opening,        \* the instants at which a form may be filed
    LastTick        \* bound on the clock

Frequency == {"daily", "weekdays", "weekly"}

-----------------------------------------------------------------------------
(* The forms: what the schemas of the six typed tools let a model send. *)

\* Local dates and times; "" leaves the time zone out or names the default one
\* by an abbreviation of its own.
InstrumentForm ==
    [tool : {"instrument_monitor"}, symbol : Maybe(Symbol),
     trigger : {"price", "period"}, value : Maybe(Int), poll : Maybe(Int),
     timezone : STRING, expires : Maybe(Int), broker : BOOLEAN]

CompanyForm ==
    [tool : {"company_event_analyst"}, symbol : Maybe(Symbol),
     schedule : {"one_shot", "recurring"}, runAt : Maybe(Int),
     frequency : Maybe(Frequency), time : Maybe(Int), days : SUBSET Int,
     timezone : STRING, broker : BOOLEAN]

RegimeForm ==
    [tool : {"market_regime_monitor"}, label : {"none", "known", "unknown"},
     proxy : Maybe(Symbol), percent : Maybe(Int), drawdown : Maybe(Int),
     poll : Maybe(Int), timezone : STRING, expires : Maybe(Int), broker : BOOLEAN]

CaptureForm ==
    [tool : {"market_signal_capture"},
     scope : SUBSET {"query", "symbols", "sectors", "tags"}, signals : Int,
     schedule : {"polling", "recurring"}, poll : Maybe(Int),
     frequency : Maybe(Frequency), time : Maybe(Int), days : SUBSET Int,
     timezone : STRING, broker : BOOLEAN]

NewsForm ==
    [tool : {"alpaca_news_monitor"}, start : Maybe(Int), end : Maybe(Int),
     duration : Maybe(Int), events : Int, timezone : STRING, broker : BOOLEAN]

SetupForm ==
    [tool : {"trade_setup_monitor"}, symbol : Maybe(Symbol),
     trigger : {"price", "period"}, value : Maybe(Int), poll : Maybe(Int),
     timezone : STRING, expires : Maybe(Int), broker : BOOLEAN,
     propose : BOOLEAN, symbols : SUBSET Symbol, sides : SUBSET Sides,
     types : SUBSET OrderTypes, notional : Maybe(Int), currency : Maybe(STRING),
     quantity : Maybe(Int), extended : BOOLEAN,
     chats : SUBSET {"given", "invoking"}]

IsForm(f) ==
    \/ f \in InstrumentForm \/ f \in CompanyForm \/ f \in RegimeForm
    \/ f \in CaptureForm \/ f \in NewsForm \/ f \in SetupForm

\* What a model may make of an order to propose, whatever it was told.
ProposedOrder ==
    [ticker : Symbol, side : Sides, type : OrderTypes, quantity : Maybe(Int),
     notional : Maybe(Int), currency : Maybe(STRING), extended : BOOLEAN]

ASSUME FormsAssumption ==
    /\ \A f \in Forms : IsForm(f)
    /\ \A o \in Orders : o \in ProposedOrder
    /\ DefaultZone \in DOMAIN Zones
    /\ \A name \in DOMAIN Zones : Zones[name] \in TimeZone
    /\ {DefaultPoll, CapturePoll, MinCapturePoll, MaxEvents} \subseteq Nat \ {0}
    /\ Opening \subseteq Int

-----------------------------------------------------------------------------
(* The creators: what a form is refused for. *)

Unreadable(x) == \E t \in x : t < 0

ZoneRefused(f) == f.timezone # "" /\ f.timezone \notin DOMAIN Zones
ZoneName(f) ==
    IF f.timezone = "" \/ ZoneRefused(f) THEN DefaultZone ELSE f.timezone
ZoneOf(f) == Zones[ZoneName(f)]

TriggerRefused(f) == f.symbol = {} \/ (f.trigger = "price" /\ f.value = {})
RecurrenceRefused(f) == f.frequency = {} \/ f.time = {}

InstrumentRefused(f) ==
    \/ TriggerRefused(f)
    \/ NotPositive(f.poll)
    \/ ZoneRefused(f)
    \/ Unreadable(f.expires)

CompanyRefused(f) ==
    \/ f.symbol = {}
    \/ ZoneRefused(f)
    \/ f.schedule = "one_shot" /\ (f.runAt = {} \/ Unreadable(f.runAt))
    \/ f.schedule = "recurring" /\ RecurrenceRefused(f)

RegimeRefused(f) ==
    \/ f.label # "known" /\ f.proxy = {}
    \/ \E n \in f.percent : n >= 0
    \/ NotPositive(f.drawdown)
    \/ NotPositive(f.poll)
    \/ ZoneRefused(f)
    \/ Unreadable(f.expires)

CaptureRefused(f) ==
    \/ f.scope = {}
    \/ f.signals \notin 1..3
    \/ ZoneRefused(f)
    \/ f.schedule = "polling" /\ \E n \in f.poll : n < MinCapturePoll
    \/ f.schedule = "recurring" /\ RecurrenceRefused(f)

\* A window without local times does not need its time zone.
StartOf(f, t) == IF f.start = {} THEN t ELSE Instant(ZoneOf(f), OneOf(f.start, 0))
EndOf(f, t) == IF f.end = {} THEN StartOf(f, t) + OneOf(f.duration, 0)
                             ELSE Instant(ZoneOf(f), OneOf(f.end, 0))
NewsRefused(f, t) ==
    \/ f.start \cup f.end # {} /\ ZoneRefused(f)
    \/ Unreadable(f.start) \/ Unreadable(f.end)
    \/ f.end = {} /\ (f.duration = {} \/ NotPositive(f.duration))
    \/ EndOf(f, t) <= StartOf(f, t)
    \/ f.events \notin 1..MaxEvents

PolicyRefused(f) ==
    \/ f.sides = {} \/ f.types = {}
    \/ f.notional = {} /\ f.quantity = {}
    \/ f.notional # {} /\ (NotPositive(f.notional) \/ f.currency = {})
    \/ NotPositive(f.quantity)
    \/ f.chats = {}

SetupRefused(f) ==
    \/ TriggerRefused(f)
    \/ NotPositive(f.poll)
    \/ ZoneRefused(f)
    \/ Unreadable(f.expires)
    \/ f.propose /\ PolicyRefused(f)

CreatorRefuses(f, t) ==
    \/ f.broker
    \/ f.tool = "instrument_monitor"    /\ InstrumentRefused(f)
    \/ f.tool = "company_event_analyst" /\ CompanyRefused(f)
    \/ f.tool = "market_regime_monitor" /\ RegimeRefused(f)
    \/ f.tool = "market_signal_capture" /\ CaptureRefused(f)
    \/ f.tool = "alpaca_news_monitor"   /\ NewsRefused(f, t)
    \/ f.tool = "trade_setup_monitor"   /\ SetupRefused(f)

-----------------------------------------------------------------------------
(* The creators: the specification a form becomes. *)

Polling(f, default) == [type |-> "polling", every |-> OneOf(f.poll, default)]
Recurring(f) ==
    [type |-> "recurring", frequency |-> OneOf(f.frequency, ""),
     time |-> OneOf(f.time, -1), days |-> f.days, zone |-> ZoneName(f)]
OneShot(f) ==
    [type |-> "one_shot", at |-> Instant(ZoneOf(f), OneOf(f.runAt, 0))]
Manual == [type |-> "manual"]

ExpiresAt(f, t) == IF f.expires = {} THEN {EndOfDay(ZoneOf(f), t)}
                                     ELSE {Instant(ZoneOf(f), OneOf(f.expires, 0))}

\* What the adapter of the process will read.
Trigger(f) == [type |-> f.trigger, symbol |-> f.symbol,
               value |-> IF f.trigger = "price" THEN f.value ELSE {}]
\* Defaults for both thresholds when neither is given.
Thresholds(f) ==
    IF f.percent \cup f.drawdown = {} THEN [percent |-> {-3}, drawdown |-> {5}]
    ELSE [percent |-> f.percent, drawdown |-> f.drawdown]
\* For mutation testing: the monitored symbol is not added.
PolicySymbolsAsGiven(f) == f.symbols

PolicySymbols(f) == f.symbols \cup f.symbol
OrderPolicy(f) ==
    [symbols |-> PolicySymbols(f), sides |-> f.sides, types |-> f.types,
     notional |-> f.notional, currency |-> f.currency, quantity |-> f.quantity,
     extended |-> f.extended]

Spec(f, mode, schedule, completion, expires, target) ==
    [kind |-> f.tool, mode |-> mode, schedule |-> schedule,
     completion |-> completion, expires |-> expires, target |-> target]

SpecOf(f, t) ==
    CASE f.tool = "instrument_monitor" ->
            Spec(f, "deterministic", Polling(f, DefaultPoll),
                 "complete_on_first_match", ExpiresAt(f, t), Trigger(f))
      [] f.tool = "company_event_analyst" /\ f.schedule = "one_shot" ->
            Spec(f, "llm_assisted", OneShot(f), "complete_on_first_run", {},
                 [symbol |-> f.symbol])
      [] f.tool = "company_event_analyst" /\ f.schedule = "recurring" ->
            Spec(f, "llm_assisted", Recurring(f), "keep_running", {},
                 [symbol |-> f.symbol])
      [] f.tool = "market_regime_monitor" ->
            Spec(f, "llm_assisted", Polling(f, DefaultPoll),
                 "complete_on_first_match", ExpiresAt(f, t), Thresholds(f))
      [] f.tool = "market_signal_capture" ->
            Spec(f, "llm_assisted",
                 IF f.schedule = "polling" THEN Polling(f, CapturePoll)
                                           ELSE Recurring(f),
                 "keep_running", {}, [scope |-> f.scope, signals |-> f.signals])
      [] f.tool = "alpaca_news_monitor" ->
            Spec(f, "llm_assisted", Manual, "complete_on_first_run",
                 {EndOf(f, t)}, [start |-> StartOf(f, t), end |-> EndOf(f, t)])
      [] f.tool = "trade_setup_monitor" ->
            Spec(f, "llm_assisted", Polling(f, DefaultPoll),
                 "complete_on_first_match", ExpiresAt(f, t),
                 [trigger |-> Trigger(f), propose |-> f.propose,
                  policy |-> IF f.propose THEN {OrderPolicy(f)} ELSE {},
                  chats |-> IF f.propose THEN f.chats ELSE {}])

-----------------------------------------------------------------------------
(* The service: what a specification is refused for, whoever made it. *)

ScheduleRefused(schedule) ==
    \/ /\ schedule.type = "recurring"
       /\ \/ schedule.frequency \notin Frequency
          \/ schedule.time \notin 0..(Day - 1)
          \/ schedule.zone \notin DOMAIN Zones
          \/ schedule.frequency = "weekly" /\ schedule.days = {}
          \/ ~ schedule.days \subseteq 0..6
    \/ schedule.type = "polling" /\ schedule.every <= 0

NextRecurring(schedule, t) ==
    NextRecurringAfter(Zones[schedule.zone], schedule.time,
                       AllowedWeekdays(schedule.frequency, schedule.days), t)

InitialNextRun(schedule, t) ==
    CASE schedule.type = "one_shot"  -> {schedule.at}
      [] schedule.type = "recurring" -> {NextRecurring(schedule, t)}
      [] schedule.type = "polling"   -> {t}
      [] schedule.type = "manual"    -> {}

NextRunAfter(schedule, t) ==
    CASE schedule.type = "recurring" -> {NextRecurring(schedule, t)}
      [] schedule.type = "polling"   -> {t + schedule.every}
      [] schedule.type \in {"one_shot", "manual"} -> {}

-----------------------------------------------------------------------------
(* The adapters: what a stored specification is refused for when it is due. *)

TriggerIsInvalid(trigger) ==
    trigger.symbol = {} \/ (trigger.type = "price" /\ trigger.value = {})

PolicyIsInvalid(policy) ==
    \/ {} \in {policy.symbols, policy.sides, policy.types}
    \/ policy.quantity \cup policy.notional = {}
    \/ NotPositive(policy.quantity) \/ NotPositive(policy.notional)
    \/ policy.notional # {} /\ policy.currency = {}

SetupIsInvalid(target) ==
    \/ TriggerIsInvalid(target.trigger)
    \/ /\ target.propose
       /\ \/ target.chats = {}
          \/ \E policy \in target.policy :
                \/ PolicyIsInvalid(policy)
                \/ ~ target.trigger.symbol \subseteq policy.symbols

NotAsScheduled(spec, types) ==
    spec.mode # "llm_assisted" \/ spec.schedule.type \notin types

CompanyIsInvalid(spec) ==
    NotAsScheduled(spec, {"one_shot", "recurring"}) \/ spec.target.symbol = {}

RegimeIsInvalid(spec) ==
    \/ NotAsScheduled(spec, {"polling"})
    \/ spec.target.percent \cup spec.target.drawdown = {}
    \/ \E n \in spec.target.percent : n >= 0
    \/ NotPositive(spec.target.drawdown)

CaptureIsInvalid(spec) ==
    \/ NotAsScheduled(spec, {"recurring", "polling"})
    \/ spec.target.scope = {}
    \/ spec.target.signals \notin 1..3

AdapterRefuses(spec) ==
    CASE spec.kind = "instrument_monitor"    -> TriggerIsInvalid(spec.target)
      [] spec.kind = "company_event_analyst" -> CompanyIsInvalid(spec)
      [] spec.kind = "market_regime_monitor" -> RegimeIsInvalid(spec)
      [] spec.kind = "market_signal_capture" -> CaptureIsInvalid(spec)
      [] spec.kind = "alpaca_news_monitor"   -> spec.mode # "llm_assisted"
      [] spec.kind = "trade_setup_monitor"   ->
            NotAsScheduled(spec, {"polling"}) \/ SetupIsInvalid(spec.target)

\* For mutation testing: a cap is looked at only where one was given.
RejectsOverCap(policy, o) ==
    \/ o.ticker \notin policy.symbols \/ o.side \notin policy.sides
    \/ o.type \notin policy.types
    \/ o.extended /\ ~ policy.extended
    \/ (o.quantity = {}) = (o.notional = {})
    \/ NotPositive(o.quantity) \/ NotPositive(o.notional)
    \/ \E q \in o.quantity, m \in policy.quantity : q > m
    \/ \E n \in o.notional, m \in policy.notional : n > m

\* _policy_rejection
PolicyRejects(policy, o) ==
    \/ o.ticker \notin policy.symbols
    \/ o.side \notin policy.sides
    \/ o.type \notin policy.types
    \/ o.extended /\ ~ policy.extended
    \/ (o.quantity = {}) = (o.notional = {})
    \/ NotPositive(o.quantity) \/ NotPositive(o.notional)
    \/ o.quantity # {} /\ policy.quantity = {}
    \/ \E q \in o.quantity, m \in policy.quantity : q > m
    \/ o.notional # {} /\ policy.notional = {}
    \/ \E n \in o.notional, m \in policy.notional : n > m
    \/ o.notional # {} /\ policy.currency # {} /\ o.currency # policy.currency

-----------------------------------------------------------------------------
VARIABLES
    clock,      \* the instant
    form,       \* the form the process was made of
    entry,      \* the process: its row
    proposed    \* the order last handed to the broker on behalf of it, if any

scheduleVars == <<clock, form, entry, proposed>>

NoForm == [tool |-> "none"]
NoEntry == [status |-> "absent"]

Active == entry.status = "active"
Expired == \E t \in entry.spec.expires : t <= clock
Due == \E t \in entry.next : t <= clock

ScheduleInit ==
    /\ clock \in Opening
    /\ form = NoForm
    /\ entry = NoEntry
    /\ proposed = {}

\* One of the six typed tools. A form that is refused leaves nothing behind: the
\* model is told why and may file another.
FileForm ==
    /\ entry = NoEntry
    /\ \E f \in {g \in Forms : ~ CreatorRefuses(g, clock)} :
          LET spec == SpecOf(f, clock)
          IN  /\ ~ ScheduleRefused(spec.schedule)
              /\ entry' = [status |-> "active", spec |-> spec,
                           next |-> InitialNextRun(spec.schedule, clock)]
              /\ form' = f
    /\ UNCHANGED <<clock, proposed>>

\* The lifecycle tools, on an exact id.
PauseProcess ==
    /\ entry.status = "active"
    /\ entry' = [entry EXCEPT !.status = "paused"]
    /\ UNCHANGED <<clock, form, proposed>>

ResumeProcess ==
    /\ entry.status = "paused"
    /\ entry' = [entry EXCEPT !.status = "active",
                              !.next = InitialNextRun(entry.spec.schedule, clock)]
    /\ UNCHANGED <<clock, form, proposed>>

ArchiveProcess ==
    /\ entry # NoEntry
    /\ entry' = [entry EXCEPT !.status = "archived", !.next = {}]
    /\ UNCHANGED <<clock, form, proposed>>

\* A run is recorded: it completes the process or the process is put off.
PutOff == [entry EXCEPT !.next = NextRunAfter(entry.spec.schedule, clock)]
Recorded(matched) ==
    IF \/ entry.spec.completion = "complete_on_first_run"
       \/ entry.spec.completion = "complete_on_first_match" /\ matched
    THEN [entry EXCEPT !.status = "completed", !.next = {}] ELSE PutOff

\* A pass of the worker comes to the process. The adapter reads the stored
\* specification first, and a run that fails there, or for want of data, is
\* unsuccessful; then it answers whatever its data say.
MayPropose == entry.spec.kind = "trade_setup_monitor" /\ entry.spec.target.propose
RunDue ==
    /\ Active /\ Due /\ ~ Expired
    /\ \/ entry' = PutOff
       \/ /\ ~ AdapterRefuses(entry.spec)
          /\ \E matched \in {FALSE, ~ MayPropose} : entry' = Recorded(matched)
    /\ UNCHANGED <<clock, form, proposed>>

\* The setup of a process that may propose has matched, the analysis proposes
\* an order and the policy lets it pass to the broker. The run is unsuccessful
\* if the order, its proposal or its action cannot be made.
RunProposes ==
    /\ Active /\ Due /\ ~ Expired
    /\ MayPropose /\ ~ AdapterRefuses(entry.spec)
    /\ \E o \in Orders :
          /\ \A policy \in entry.spec.target.policy : ~ PolicyRejects(policy, o)
          /\ proposed' = {o}
    /\ \/ entry' = PutOff
       \/ entry' = Recorded(TRUE)
    /\ UNCHANGED <<clock, form>>

\* The supervisor of the news stream watches the window of an active monitor,
\* and ends a process whose window is over.
WatchNews ==
    /\ Active /\ entry.spec.kind = "alpaca_news_monitor"
    /\ LET target == entry.spec.target
       IN  \/ /\ target.start <= clock /\ clock < target.end
              /\ entry' = Recorded(FALSE)
           \/ /\ target.end <= clock
              /\ entry' = [entry EXCEPT !.status = "expired"]
    /\ UNCHANGED <<clock, form, proposed>>

\* A pass expires what has outlived its expiry before it lists what is due.
ExpireProcess ==
    /\ Active /\ Expired
    /\ entry' = [entry EXCEPT !.status = "expired", !.next = {}]
    /\ UNCHANGED <<clock, form, proposed>>

Ticking ==
    /\ clock < LastTick
    /\ entry.status \in {"active", "paused"}
    /\ clock' = clock + 1
    /\ UNCHANGED <<form, entry, proposed>>

ScheduleNext ==
    \/ FileForm \/ PauseProcess \/ ResumeProcess \/ ArchiveProcess
    \/ RunDue \/ RunProposes \/ WatchNews \/ ExpireProcess \/ Ticking

ScheduleSpec == ScheduleInit /\ [][ScheduleNext]_scheduleVars

-----------------------------------------------------------------------------
(* Properties *)

\* A process made by a typed tool is one its adapter can run: the checks of the
\* creator and of the service, two modules away, leave nothing for the parser
\* of the adapter to refuse when the process is due, long after the model that
\* filed the form could have put it right.
FormsAreRunnable ==
    entry # NoEntry => ~ AdapterRefuses(entry.spec)

\* Whatever order the analysis of a scheduled setup comes up with, one that
\* reaches the broker is of a symbol, a side and a type the form allowed, has
\* one measure of its size, and that below the cap the form set for it in the
\* same unit.
ProposalsAreWithinForm ==
    \A o \in proposed :
       /\ o.ticker \in form.symbols \cup form.symbol
       /\ o.side \in form.sides /\ o.type \in form.types
       /\ o.extended => form.extended
       /\ Cardinality(o.quantity) + Cardinality(o.notional) = 1
       /\ \A q \in o.quantity : q > 0 /\ \E m \in form.quantity : q <= m
       /\ \A n \in o.notional : n > 0 /\ \E m \in form.notional : n <= m
       /\ o.notional # {} => o.currency = form.currency

\* Whenever a recurring process is put off, it is to the first of its calendar
\* times from then on, in its own time zone and across a change of the clocks:
\* none is left out and none is in the past. In the hour after such a change
\* the code, which compares times on the clock, does not keep to this, as the
\* README says. And a form without an expiry is good for the rest of its local
\* day, no more and no less, as long as clocks are not set over midnight.
NextSlot(schedule, t) ==
    FirstSlotAfter(Zones[schedule.zone], schedule.time,
                   AllowedWeekdays(schedule.frequency, schedule.days), t)
LastsItsDay(z, t, expires) ==
    LET date(u) == DateOf(Local(z, u))
    IN  t < expires /\ date(expires - 1) = date(t) /\ date(expires) = date(t) + 1
CalendarIsKept ==
    [][/\ entry' # entry /\ entry'.status = "active"
            => LET schedule == entry'.spec.schedule
               IN  schedule.type = "recurring"
                     => \/ ClocksJustChanged(Zones[schedule.zone], clock)
                        \/ entry'.next = {NextSlot(schedule, clock)}
       /\ form' # form /\ "expires" \in DOMAIN form' /\ form'.expires = {}
            => \A t \in entry'.spec.expires : LastsItsDay(ZoneOf(form'), clock, t)
      ]_scheduleVars

=============================================================================
