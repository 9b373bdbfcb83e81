----------------------------- MODULE ScheduleDates -----------------------------
(***************************************************************************)
(* The run dates of a schedule (app/services/schedules.py).  A date is a   *)
(* number of days, a month its number in the calendar: day 0 and month 1   *)
(* begin on 1 January of the first year.                                   *)
(***************************************************************************)
EXTENDS Integers, FiniteSetsExt

CONSTANTS
  FirstYear,  \* the first year of the calendar
  NoDate      \* a date that is not set

ASSUME CalendarAssumption == FirstYear \in Nat \ {0} /\ NoDate \notin Int

Days == Nat
Months == Nat \ {0}

-----------------------------------------------------------------------------
(* The Gregorian calendar. *)

\* The days before a year, from 1 January of the year 1, a Monday.
BeforeYear(y) == 365 * (y - 1) + (y - 1) \div 4 - (y - 1) \div 100 + (y - 1) \div 400
Epoch == BeforeYear(FirstYear)
Leap(y) == y % 4 = 0 /\ (y % 100 # 0 \/ y % 400 = 0)

\* The days before a month in its year.
BeforeMonth == <<0, 31, 59, 90, 120, 151, 181, 212, 243, 273, 304, 334>>

\* The years begun before a month, and its number in its year.
YearOf(m) == (m - 1) \div 12
MonthInYear(m) == ((m - 1) % 12) + 1

FirstOf(m) ==
  LET y == FirstYear + YearOf(m)
  IN  BeforeYear(y) - Epoch + BeforeMonth[MonthInYear(m)]
        + (IF MonthInYear(m) > 2 /\ Leap(y) THEN 1 ELSE 0)

\* The month of a day; months have 28 to 31 days.
MonthOf(d) == CHOOSE m \in d \div 31 + 1..d \div 28 + 1 : FirstOf(m) <= d /\ d < FirstOf(m + 1)
DayOfMonth(d) == d - FirstOf(MonthOf(d)) + 1
DaysOf(m) == FirstOf(m)..FirstOf(m + 1) - 1
\* Monday is 0.
Weekday(d) == (d + Epoch) % 7
Workday(d) == Weekday(d) < 5
-----------------------------------------------------------------------------
(* Schedules. *)

MonthsPerStep == [monthly |-> 1, quarterly |-> 3, yearly |-> 12]

\* The rules that name a weekday of a month.
FirstNamedWeekday ==
  [first_monday_of_month |-> 0, first_tuesday_of_month |-> 1, first_wednesday_of_month |-> 2,
   first_thursday_of_month |-> 3, first_friday_of_month |-> 4]

Recurrences == {"once", "weekly"} \cup DOMAIN MonthsPerStep
DateRules == {"exact", "first_weekday_of_month"} \cup DOMAIN FirstNamedWeekday

\* What people enter of a schedule, as the schema and the clean_ functions
\* let it pass.
Entries == [start : Days, recurrence : Recurrences, interval : 1..120, rule : DateRules,
            anchor : 1..12, until : Days \cup {NoDate}]

\* A weekend moves to the Friday before it, or to the Monday after when that
\* Friday is in another month.
WeekdayWithinMonth(d) ==
  LET friday == d - (Weekday(d) - 4)
  IN  IF Workday(d) THEN d
      ELSE IF friday \in DaysOf(MonthOf(d)) THEN friday
      ELSE d + 7 - Weekday(d)

\* The day of the month that exact runs keep.
AnchorDrifts(s, current) == DayOfMonth(current)
AnchorDay(s, current) == DayOfMonth(s.start)

AnchoredMonthDate(m, day) ==
  WeekdayWithinMonth(FirstOf(m) + Min({day, FirstOf(m + 1) - FirstOf(m)}) - 1)

FirstMatchingWeekday(m, rule) ==
  Min({d \in DaysOf(m) : IF rule \in DOMAIN FirstNamedWeekday
                         THEN Weekday(d) = FirstNamedWeekday[rule] ELSE Workday(d)})

ScheduleStartForRule(start, rule, anchor) ==
  IF rule = "exact" THEN start
  ELSE FirstMatchingWeekday(YearOf(MonthOf(start)) * 12 + anchor, rule)

\* The month of a monthly, quarterly or yearly schedule's run after one in
\* the month of current.  A yearly rule names its month.
NextMonth(s, current) ==
  IF s.recurrence = "yearly" /\ s.rule # "exact"
  THEN (YearOf(MonthOf(current)) + s.interval) * 12 + s.anchor
  ELSE MonthOf(current) + MonthsPerStep[s.recurrence] * s.interval

Unended(s, current) ==
  IF s.recurrence = "once" THEN NoDate
  ELSE IF s.recurrence = "weekly" THEN current + 7 * s.interval
  ELSE IF s.rule = "exact" THEN AnchoredMonthDate(NextMonth(s, current), AnchorDay(s, current))
  ELSE FirstMatchingWeekday(NextMonth(s, current), s.rule)

Before(d, e) == d # NoDate /\ e # NoDate /\ d < e

NextOccurrence(s, current) ==
  LET next == Unended(s, current)
  IN  IF Before(s.until, next) THEN NoDate ELSE next

\* Stepping from a run to the first on the day or later, in at most so many
\* steps; no date when they do not suffice.
FirstRun(s, day, max) ==
  LET run[k \in 0..max] ==
        [d \in Days |->
           IF d >= day THEN d
           ELSE IF k = 0 \/ NextOccurrence(s, d) = NoDate THEN NoDate
           ELSE run[k - 1][NextOccurrence(s, d)]]
  IN  run

AfterToday(s, day, max) == FirstRun(s, day + 1, max)[max][s.next]
AfterMissedRuns(s, day, max) == FirstRun(s, day, max)[max][s.next]
-----------------------------------------------------------------------------
(***************************************************************************)
(* What a schedule promises, without stepping from run to run: the dates   *)
(* on which a schedule planned from the run on base has its runs.          *)
(***************************************************************************)

\* A day with the weekday a rule asks for.
Fits(s, d) ==
  Workday(d) /\ (s.rule \in DOMAIN FirstNamedWeekday => Weekday(d) = FirstNamedWeekday[s.rule])

\* The day a schedule keeps in month m: the last workday up to the day of the
\* month it started on, or else the first, or the first day of the rule.
Keeps(s, m, d) ==
  LET upTo == FirstOf(m) + DayOfMonth(s.start) - 1
  IN  /\ Fits(s, d)
      /\ IF s.rule = "exact" /\ d <= upTo
         THEN \A e \in d + 1..upTo : e \in DaysOf(m) => ~Fits(s, e)
         ELSE \A e \in DaysOf(m) : e < d => ~Fits(s, e)

\* The month of the k-th run after one in month m.  A yearly rule has its run
\* in the month it names, whatever the month of the first.
PlannedMonth(s, m, k) ==
  IF s.recurrence = "yearly" /\ s.rule # "exact"
  THEN (YearOf(m) + k * s.interval) * 12 + s.anchor
  ELSE m + k * (MonthsPerStep[s.recurrence] * s.interval)

InPlan(s, base, d) ==
  \/ d = base
  \/ /\ d > base /\ s.recurrence = "weekly"
     /\ \E k \in 1..d - base : d = base + k * (7 * s.interval)
  \/ /\ d > base /\ s.recurrence \in DOMAIN MonthsPerStep
     /\ Fits(s, d)
     /\ LET m == MonthOf(d)
             b == MonthOf(base)
        IN  (\E k \in 1..m : m = PlannedMonth(s, b, k)) /\ Keeps(s, m, d)

Planned(s, base, d) == InPlan(s, base, d) /\ ~Before(s.until, d)
=============================================================================
