------------------------------ MODULE Calendar ------------------------------
(***************************************************************************)
(* The calendar of recurring schedules (scheduler/service/helpers.py) and  *)
(* of the times a person gives a tool (scheduler/management/utils.py).     *)
(* An instant is a number of units of UTC; a local time is a number of     *)
(* units on the clock of a time zone.                                      *)
(***************************************************************************)
EXTENDS Integers, FiniteSetsExt

CONSTANT Day    \* units of a day, at least one for each local time told apart

ASSUME DayAssumption == Day \in Nat \ {0}

\* A time zone whose clocks change once: `before` units ahead of UTC up to the
\* instant `change`, `after` units from it on.
TimeZone == [before : Int, after : Int, change : Int]

Local(z, t) == t + (IF t < z.change THEN z.before ELSE z.after)
DateOf(local) == local \div Day
Weekday(date) == date % 7

\* The instant of a local time with fold 0: the first of two when the clocks go
\* back, the old offset for a time the clocks skip when they go forward.
Instant(z, local) ==
    IF local - z.before < z.change \/ local - z.after < z.change
    THEN local - z.before ELSE local - z.after

AllowedWeekdays(frequency, days) ==
    CASE frequency = "daily"    -> 0..6
      [] frequency = "weekdays" -> 0..4
      [] frequency = "weekly"   -> days

\* For mutation testing: a slot at this very moment is still to come.
NextRecurringOrNow(z, time, weekdays, t) ==
    LET today == DateOf(Local(z, t))
        candidates == {(today + offset) * Day + time :
                          offset \in {n \in 0..14 : Weekday(today + n) \in weekdays}}
    IN  Instant(z, Min({c \in candidates : c >= Local(z, t)}))

\* _next_recurring_after. Both sides of the comparison carry the same tzinfo,
\* so what is compared is the time on the clock.
NextRecurringAfter(z, time, weekdays, t) ==
    LET today == DateOf(Local(z, t))
        candidates == {(today + offset) * Day + time :
                          offset \in {n \in 0..14 : Weekday(today + n) \in weekdays}}
    IN  Instant(z, Min({c \in candidates : c > Local(z, t)}))

\* The end of the local day: 23:59:59 in the code, the end of the last unit of the day
\* here, a second later.
EndOfDay(z, t) ==
    Instant(z, (DateOf(Local(z, t)) + 1) * Day - 1) + 1

-----------------------------------------------------------------------------
(* Reference: the schedule as a set of instants. *)

Slots(z, time, weekdays, from, to) ==
    {Instant(z, date * Day + time) :
        date \in {d \in DateOf(from)..DateOf(to) : Weekday(d) \in weekdays}}

\* The next slot after t lies within eight days, and offsets within one.
FirstSlotAfter(z, time, weekdays, t) ==
    Min({s \in Slots(z, time, weekdays, t - 2 * Day, t + 10 * Day) : s > t})

\* The units after a change of the clocks in which the clock shows times that
\* come a second time, or in which it has skipped some.
ClocksJustChanged(z, t) ==
    LET shift == IF z.after > z.before THEN z.after - z.before ELSE z.before - z.after
    IN  t \in z.change..(z.change + shift - 1)

\* A time zone at most a day from UTC whose clocks show the same date before and
\* after they are changed: none is set over midnight.
KeepsDate(z) ==
    /\ z \in TimeZone
    /\ z.before \in (-Day)..Day /\ z.after \in (-Day)..Day
    /\ DateOf(z.change + z.before) = DateOf(z.change + z.after)

=============================================================================
