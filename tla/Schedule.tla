------------------------------ MODULE Schedule ------------------------------
(***************************************************************************)
(* Recurrence windows (package schedule): when a scheduled hook may run.   *)
(* The calendar is a parameter, so that TLC can walk whole years of it:    *)
(* months of any length, weeks of any length, days of any number of        *)
(* minutes.  Time zones shift the calendar and daylight saving is left     *)
(* out.                                                                    *)
(***************************************************************************)
EXTENDS Integers, Sequences, FiniteSets, FiniteSetsExt, Functions

CONSTANTS
  MonthLengths,  \* days of each month of the year
  WeekLength,    \* days of a week
  DayMinutes,    \* minutes of a day
  ScanDays,      \* how far NextWindowStart looks
  MaxSteps,      \* how many minutes continuousOpen walks
  Horizon,       \* last minute of the model
  Settings       \* the window sequences an operator may write

VARIABLES sched, now, lastFire, firedHere

schedVars == <<sched, now, lastFire, firedHere>>

Never == -1

(* Monthday{Last: true}; the other monthdays are numbers from 1. *)
LastDay == 0

-----------------------------------------------------------------------------
(* The calendar. *)

DaysIn(months) == FoldFunctionOnSet(+, 0, MonthLengths, months)

YearDays == DaysIn(DOMAIN MonthLengths)

DayOf(t) == t \div DayMinutes

MinuteOf(t) == t % DayMinutes

WeekdayOf(d) == d % WeekLength

(* Days of the year before month m. *)
DaysBefore(m) == DaysIn(1..(m - 1))

MonthOf(d) == Cardinality({m \in DOMAIN MonthLengths : DaysBefore(m) <= d % YearDays})

MonthdayOf(d) == (d % YearDays) - DaysBefore(MonthOf(d)) + 1

FirstOfMonth(d) == d - MonthdayOf(d) + 1

-----------------------------------------------------------------------------
(* Windows. *)

(* What build accepts; days, months and monthdays are the sets written. *)
NormalizeWindow(w) ==
  /\ w.recurrence \in {"daily", "weekly", "monthly", "yearly"}
  /\ w.start \in 0..(DayMinutes - 1) /\ w.end \in 0..(DayMinutes - 1)
  /\ w.days \subseteq 0..(WeekLength - 1)
  /\ w.months \subseteq DOMAIN MonthLengths
  /\ w.recurrence = "weekly" => w.days # {}
  /\ w.recurrence \in {"monthly", "yearly"} =>
       /\ w.by \in {"day", "weekday"}
       /\ w.by = "day" => w.monthdays # {} /\ w.monthdays \subseteq 0..31
       /\ w.by = "weekday" => w.week \in {"first", "second", "last"}
                              /\ w.weekday \in 0..(WeekLength - 1)
  /\ w.recurrence = "yearly" => w.months # {}

Normalize(s) == s # <<>> /\ \A i \in DOMAIN s : NormalizeWindow(s[i])

MonthAllowed(months, d) == months = {} \/ MonthOf(d) \in months

(* The n-th, or the last, given weekday of the month of day d. *)
NthWeekdayOfMonth(d, week, weekday) ==
  LET first == FirstOfMonth(d)
      days  == {x \in first..(first + MonthLengths[MonthOf(d)] - 1) : WeekdayOf(x) = weekday}
      rank(x) == Cardinality({y \in days : y < x})
  IN  {x \in days : CASE week = "first"  -> rank(x) = 0
                      [] week = "second" -> rank(x) = 1
                      [] week = "last"   -> rank(x) = Cardinality(days) - 1}

DateMatchesWindow(w, d) ==
  /\ MonthAllowed(w.months, d)
  /\ CASE w.recurrence = "daily"  -> TRUE
       [] w.recurrence = "weekly" -> WeekdayOf(d) \in w.days
       [] w.recurrence \in {"monthly", "yearly"} ->
            IF w.by = "day"
            THEN LET day == MonthdayOf(d)
                 IN  \/ day \in w.monthdays
                     \/ LastDay \in w.monthdays /\ day = MonthLengths[MonthOf(d)]
            ELSE d \in NthWeekdayOfMonth(d, w.week, w.weekday)

(* A window that ends before it starts runs past midnight, and what comes   *)
(* after midnight belongs to the day it opened on.                          *)
WindowAllowsInstant(w, t) ==
  IF w.end <= w.start
  THEN \/ DateMatchesWindow(w, DayOf(t)) /\ MinuteOf(t) >= w.start
       \/ DateMatchesWindow(w, DayOf(t) - 1) /\ MinuteOf(t) <= w.end
  ELSE DateMatchesWindow(w, DayOf(t)) /\ MinuteOf(t) \in w.start..w.end

Allows(s, t) == s = <<>> \/ \E i \in DOMAIN s : WindowAllowsInstant(s[i], t)

Lesser(a, b) == IF a < b THEN a ELSE b

(* Walk the minutes from the last fire to now; after MaxSteps of them the   *)
(* answer is yes.                                                           *)
ContinuousOpen(s, from, to) ==
  from <= to /\ \A t \in from..Lesser(to, from + MaxSteps) : Allows(s, t)

(* Mutant: only the endpoints are compared. *)
DueIfClosedBetweenEnds(s, t, last) == Allows(s, t) /\ (last = Never \/ ~Allows(s, last))

DueOncePerOpening(s, t, last) ==
  Allows(s, t) /\ (last = Never \/ ~ContinuousOpen(s, last, t))

(* Where the windows of the schedule open on day d. *)
WindowOpenOnDay(s, d) ==
  {d * DayMinutes + s[i].start : i \in {k \in DOMAIN s : DateMatchesWindow(s[k], d)}}

(* Never when the schedule is open, or opens on no day of the scan. *)
NextWindowStart(s, t) ==
  LET starts == {x \in UNION {WindowOpenOnDay(s, d) : d \in DayOf(t)..(DayOf(t) + ScanDays)} :
                   x >= t}
  IN  IF s = <<>> \/ Allows(s, t) \/ starts = {} THEN Never ELSE Min(starts)

-----------------------------------------------------------------------------
(* A caller that polls the schedule and remembers when it last fired. *)

SchedInit ==
  /\ sched \in {s \in Settings : Normalize(s)}
  /\ now = WeekLength * DayMinutes
  /\ lastFire = Never /\ firedHere = FALSE

Tick ==
  /\ now < Horizon
  /\ now' = now + 1
  /\ firedHere' = (firedHere /\ Allows(sched, now + 1))
  /\ UNCHANGED <<sched, lastFire>>

Fire ==
  /\ DueOncePerOpening(sched, now, lastFire)
  /\ lastFire' = now /\ firedHere' = TRUE
  /\ UNCHANGED <<sched, now>>

SchedNext == Tick \/ Fire

SchedSpec == SchedInit /\ [][SchedNext]_schedVars

-----------------------------------------------------------------------------
(* Properties. *)

(* How long the opening of the last fire lasted, from that fire on. *)
OpeningWithinWalk == lastFire # Never => ~\A t \in lastFire..(lastFire + MaxSteps) : Allows(sched, t)

(* An action that runs "once per opening" is due exactly when the schedule  *)
(* is open and it has not run since the schedule last opened, however       *)
(* irregularly the caller polls, as long as no opening outlasts the walk of *)
(* continuousOpen.                                                          *)
DueExactlyOncePerOpening ==
  OpeningWithinWalk =>
    (DueOncePerOpening(sched, now, lastFire) <=> Allows(sched, now) /\ ~firedHere)

(* NextWindowStart names the first open minute: the schedule is closed all  *)
(* the way up to it, and open there.  Overlapping and overnight windows do  *)
(* not make it skip one.                                                    *)
NextStartIsFirstOpening ==
  ~Allows(sched, now) =>
    LET next == NextWindowStart(sched, now)
        scanned == (DayOf(now) + ScanDays + 1) * DayMinutes - 1
    IN  \A t \in now..(IF next = Never THEN scanned ELSE next) : Allows(sched, t) <=> t = next

=============================================================================
