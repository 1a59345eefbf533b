------------------------------- MODULE Periods -------------------------------
(***************************************************************************)
(* The shop's days and months as instants (modules/reports/period.ts).  An *)
(* instant is an hour of universal time, a local day runs over the hours   *)
(* the zone's clock reads it, and the zone moves its clock at most once.   *)
(* Minutes and seconds are left out; months are as long as DaysInMonth.    *)
(***************************************************************************)
EXTENDS Integers, FiniteSets, FiniteSetsExt, SequencesExt

CONSTANTS
  DayHours,    \* hours in a day of the clock
  DaysInMonth, \* of each month, from the first on
  Zones        \* each with its offset before and after, and the instant it moves at

\* Day n of month m, which may run over into the next: Date.UTC carries.
DayOf(m, n) == SumFunctionOnSet(DaysInMonth, 1..(m - 1)) + n - 1

CalendarDays == SumFunction(DaysInMonth)

\* No zone is a day or more from universal time, and none skips or repeats more than a day.
ASSUME PeriodsAssumption ==
  /\ DayHours \in Nat \ {0} /\ DaysInMonth \in Seq(Nat \ {0}) /\ CalendarDays > 1
  /\ Zones \subseteq [before : Int, after : Int, moves : Int]
  /\ \A z \in Zones : /\ \A n \in {z.before, z.after} : -DayHours < n /\ n < DayHours
                      /\ z.after - z.before \in -DayHours..DayHours

VARIABLES
  zone,        \* of the business
  instant      \* now

periodsVars == <<zone, instant>>

\* The instants of the calendar, less a day at either end.
Instants == DayHours..((CalendarDays - 1) * DayHours)

PeriodsTypeOK == zone \in Zones /\ instant \in Instants

PeriodsInit == zone \in Zones /\ instant = DayHours

Offset(t) == IF t < zone.moves THEN zone.before ELSE zone.after

\* zonedFields: the clock's reading, its day and its hour.
Reading(t) == t + Offset(t)
LocalDay(t) == Reading(t) \div DayHours
LocalHour(t) == Reading(t) % DayHours

\* Bug: the offset is looked up once, at what would be midnight were it universal time.
StartOnePass(d) == d * DayHours - Offset(d * DayHours)

\* zonedStartOfDay, in two passes.
StartOfLocalDay(d) ==
  LET guess == d * DayHours - Offset(d * DayHours)
  IN  d * DayHours - Offset(guess)

MonthOf(d) == Max({m \in DOMAIN DaysInMonth : DayOf(m, 1) <= d})
DayOfMonth(d) == d - DayOf(MonthOf(d), 1) + 1

Today == LocalDay(instant)
ThisMonth == MonthOf(Today)

Period(from, to) == [from |-> StartOfLocalDay(from), to |-> StartOfLocalDay(to)]

\* resolvePeriod.
Resolved(name) ==
  CASE name = "today" -> Period(Today, Today + 1)
    [] name = "yesterday" -> Period(Today - 1, Today)
    [] name = "last-7-days" -> Period(Today - 6, Today + 1)
    [] name = "month" -> Period(DayOf(ThisMonth, 1), Today + 1)
    [] name = "last-month" -> Period(DayOf(ThisMonth - 1, 1), DayOf(ThisMonth, 1))

\* Bug: the last day of a range typed in is left out.
CustomUpTo(f, t) == Period(LocalDay(f * DayHours), LocalDay(t * DayHours))

\* customPeriod, given dates, which the controller parses as midnights of universal time.
CustomPeriod(f, t) == Period(LocalDay(f * DayHours), LocalDay(t * DayHours) + 1)

\* Bug: a day last month did not have runs on into this one.
SameSpanRunsOn ==
  [from |-> StartOfLocalDay(DayOf(ThisMonth - 1, 1)),
   to |-> StartOfLocalDay(DayOf(ThisMonth - 1, DayOfMonth(Today))) + LocalHour(instant)]

\* sameSpanLastMonth.
SameSpanLastMonth ==
  LET start == StartOfLocalDay(DayOf(ThisMonth, 1))
      to == IF DayOfMonth(Today) > DaysInMonth[ThisMonth - 1] THEN start
            ELSE StartOfLocalDay(DayOf(ThisMonth - 1, DayOfMonth(Today))) + LocalHour(instant)
  IN  [from |-> StartOfLocalDay(DayOf(ThisMonth - 1, 1)), to |-> IF to < start THEN to ELSE start]

\* Bug: the next day is a day's length on.
CursorDayLengthOn(t) == t + DayHours

\* eachDayKey: the day of each cursor, a local day on from the one before.
CursorAfter(t) == StartOfLocalDay(LocalDay(t) + 1)

CursorsFrom(t) ==
  LET cursor[n \in 0..CalendarDays] == IF n = 0 THEN t ELSE CursorAfter(cursor[n - 1])
  IN  cursor

EachDay(p) ==
  LET cursor == CursorsFrom(p.from)
      steps == {n \in 0..CalendarDays : cursor[n] < p.to}
  IN  [n \in 1..Cardinality(steps) |-> LocalDay(cursor[n - 1])]

Hour == instant + 1 \in Instants /\ instant' = instant + 1 /\ UNCHANGED zone

PeriodsNext == Hour

PeriodsSpec == PeriodsInit /\ [][PeriodsNext]_periodsVars

-----------------------------------------------------------------------------
(* Properties. *)

\* A day whose midnight comes exactly once.
PlainMidnight(d) ==
  Cardinality({t \in (d * DayHours - DayHours)..(d * DayHours + DayHours) : Reading(t) = d * DayHours}) = 1

\* "Today" holds now and nothing of another day, whichever side of a change of the
\* clock the day, its midnight or the hour fall on: but where the clock is moved over
\* midnight itself, and the day has none or two.
TodayIsNow ==
  PlainMidnight(Today) /\ PlainMidnight(Today + 1) =>
    LET p == Resolved("today")
    IN  /\ p.from <= instant /\ instant < p.to
        /\ \A t \in p.from..(p.to - 1) : LocalDay(t) = Today

\* The trend has every day of its window once, in order, on days that are longer or
\* shorter too.
TrendHasEachDay ==
  (Today >= 7 /\ \A d \in (Today - 6)..(Today + 1) : PlainMidnight(d)) =>
    EachDay(Resolved("last-7-days")) = [n \in 1..7 |-> Today - 7 + n]

\* A range typed in as dates holds the days named, from the first to the last one's end,
\* where the clock is never behind universal time; where it is, the dates are read as
\* the days before them.
CustomIsTheDaysNamed ==
  (zone.before >= 0 /\ zone.after >= 0) => \A f, t \in {Today - 1, Today} :
    (f <= t /\ 0 <= f /\ PlainMidnight(f) /\ PlainMidnight(t + 1)) =>
      \A i \in Instants : LocalDay(i) \in f..t <=> (CustomPeriod(f, t).from <= i /\ i < CustomPeriod(f, t).to)

\* This month so far is set against a stretch of last month that stays in it, all of it
\* when it has no such day, and that is as far into its day and month as now is unless
\* the clock is moved on that day.
SameSpanIsAsFar ==
  ThisMonth > 1 =>
    LET p == SameSpanLastMonth  whole == Resolved("last-month")
        day == DayOf(ThisMonth - 1, DayOfMonth(Today))
    IN  /\ whole.from = p.from /\ p.to <= whole.to /\ whole.to = Resolved("month").from
        /\ DayOfMonth(Today) > DaysInMonth[ThisMonth - 1] => p.to = whole.to
        /\ (/\ DayOfMonth(Today) <= DaysInMonth[ThisMonth - 1]
            /\ \A d \in {day, day + 1, DayOf(ThisMonth, 1)} : PlainMidnight(d)
            /\ StartOfLocalDay(day + 1) - StartOfLocalDay(day) = DayHours)
           => LocalDay(p.to) = day /\ LocalHour(p.to) = LocalHour(instant)

\* A period is whole days of the organisation's own zone.
DaysAreWhole == TodayIsNow /\ TrendHasEachDay /\ CustomIsTheDaysNamed /\ SameSpanIsAsFar
=============================================================================
