---------------------------- MODULE PulseCalendar ----------------------------
(***************************************************************************)
(* When an intention of PULSE.yaml is due (src/src/pulse/definition.rs):   *)
(* the due check of the scheduler and the calendar estimate of the views.  *)
(*                                                                         *)
(* Time is a number of slots, SlotsPerDay to a day of the configured       *)
(* timezone.  A schedule's `at` is a slot of the day; its `arg` is the     *)
(* weekday, the number of days or the date, whichever its kind has.        *)
(***************************************************************************)
EXTENDS Integers, FiniteSets, FiniteSetsExt

CONSTANTS
  SlotsPerDay,
  WeekLen,     \* days of a week (7)
  Gaps         \* <<day, slot>> pairs that do not exist: the clock jumps over them

ASSUME CalendarAssumption ==
  /\ SlotsPerDay \in Nat \ {0} /\ WeekLen \in Nat \ {0}
  /\ Gaps \subseteq Nat \X (0..(SlotsPerDay - 1))

Day(t) == t \div SlotsPerDay
Slot(t) == t % SlotsPerDay
Weekday(d) == d % WeekLen
Instant(d, at) == d * SlotsPerDay + at

\* local_datetime: the instant as a set, empty when the local time falls in a gap.
LocalDatetime(d, at) == IF <<d, at>> \in Gaps THEN {} ELSE {Instant(d, at)}

\* Daily, interval and once periods are dates; a weekly period is a week.
GenerateDueKey(s, t) ==
  CASE s.kind \in {"daily", "interval"} -> <<"day", Day(t)>>
    [] s.kind = "weekly" -> <<"week", Day(t) \div WeekLen>>
    [] s.kind = "once" -> <<"day", s.arg>>

IsDailyDue(at, t) == \E target \in LocalDatetime(Day(t), at) : t >= target
IsWeeklyDue(s, t) == Weekday(Day(t)) = s.arg /\ IsDailyDue(s.at, t)
\* last: the start of the last successful run, as a set of at most one instant.
IsIntervalDue(s, t, last) ==
  /\ \A l \in last : Day(t) >= Day(l) + s.arg
  /\ IsDailyDue(s.at, t)
IsOnceDue(s, t) == Day(t) = s.arg /\ \E target \in LocalDatetime(s.arg, s.at) : t >= target

CheckDue(s, t, last) ==
  \/ s.kind = "daily" /\ IsDailyDue(s.at, t)
  \/ s.kind = "weekly" /\ IsWeeklyDue(s, t)
  \/ s.kind = "interval" /\ IsIntervalDue(s, t, last)
  \/ s.kind = "once" /\ IsOnceDue(s, t)

-----------------------------------------------------------------------------
(* The estimate: the next due instant as a set of at most one.             *)

NextDaily(at, t) == LocalDatetime(IF Slot(t) < at THEN Day(t) ELSE Day(t) + 1, at)

NextWeekly(s, t) ==
  LET day == Day(t) + ((s.arg + WeekLen - Weekday(Day(t))) % WeekLen)
  IN UNION {IF c <= t THEN LocalDatetime(day + WeekLen, s.at) ELSE {c} : c \in LocalDatetime(day, s.at)}

NextInterval(s, t, last) ==
  LET day == Max({Day(t)} \cup {Day(l) + s.arg : l \in last})
  IN {IF c <= t THEN t ELSE c : c \in LocalDatetime(day, s.at)}

EstimateNextDue(s, t, last) ==
  CASE s.kind = "daily" -> NextDaily(s.at, t)
    [] s.kind = "weekly" -> NextWeekly(s, t)
    [] s.kind = "interval" -> NextInterval(s, t, last)
    [] s.kind = "once" -> {c \in LocalDatetime(s.arg, s.at) : c > t}

EstimateNextDayAt(at, t) == LocalDatetime(Day(t) + 1, at)
=============================================================================
