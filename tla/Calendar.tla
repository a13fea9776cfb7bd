------------------------------ MODULE Calendar ------------------------------
(***************************************************************************)
(* The delivery instants of summaryschedule/schedule.go and the periods of *)
(* insight/periods.go.  An instant is an hour of UTC counted from a Monday *)
(* midnight; a wall reading is an hour of local time counted from the same *)
(* Monday, so its day is the quotient by 24.  Deliveries are at full hours.*)
(***************************************************************************)
EXTENDS Integers, FiniteSetsExt

CONSTANTS
  Zones,  \* time zones: offset base, changed by shift at the instant at
  Firsts  \* the days that are the first of a month

ASSUME ZoneType ==
  \A z \in Zones : z.base \in Int /\ z.shift \in -23 .. 23 /\ z.at \in Int
ASSUME FirstsType == Firsts \subseteq Int

Freqs == {"daily", "weekly", "monthly"}

(* now.In(loc) *)
Local(z, t) == t + z.base + IF t >= z.at THEN z.shift ELSE 0

(* time.Date of the Go library: the offset is looked up at the wall reading   *)
(* taken for an instant, and once more at the instant that gives.             *)
Date(z, wall) ==
  LET guess == wall - (Local(z, wall) - wall)
  IN  wall - (Local(z, guess) - guess)

DayOf(z, t) == Local(z, t) \div 24

(* t.AddDate(0, 0, n): the same wall clock n days on. *)
AddDays(z, t, n) == Date(z, Local(z, t) + 24 * n)

MonthFirst(day) == Max({x \in Firsts : x <= day})
NextFirst(day) == Min({x \in Firsts : x > day})
PrevFirst(day) == Max({x \in Firsts : x < MonthFirst(day)})

(* t.AddDate(0, 1, 0) and t.AddDate(0, -1, 0) *)
NextMonth(z, t) ==
  LET d == DayOf(z, t) IN AddDays(z, t, NextFirst(d) - MonthFirst(d))
PrevMonth(z, t) ==
  LET d == DayOf(z, t) IN AddDays(z, t, PrevFirst(d) - MonthFirst(d))

NextDelivery(t, z, f, hour) ==
  LET today == DayOf(z, t)
      c == Date(z, 24 * today + hour)
      monday == AddDays(z, c, (7 - (DayOf(z, c) % 7)) % 7)
      first == Date(z, 24 * MonthFirst(today) + hour)
  IN  CASE f = "daily"   -> IF c > t THEN c ELSE AddDays(z, c, 1)
        [] f = "weekly"  -> IF monday > t THEN monday ELSE AddDays(z, monday, 7)
        [] f = "monthly" -> IF first > t THEN first ELSE NextMonth(z, first)

(* Mutant: the day of the pass, whether or not its delivery has come. *)
LatestDeliveryToday(t, z, f, hour) == Date(z, 24 * DayOf(z, t) + hour)

LatestDelivery(t, z, f, hour) ==
  LET today == DayOf(z, t)
      c == Date(z, 24 * today + hour)
      monday == AddDays(z, c, -(DayOf(z, c) % 7))
      first == Date(z, 24 * MonthFirst(today) + hour)
  IN  CASE f = "daily"   -> IF c <= t THEN c ELSE AddDays(z, c, -1)
        [] f = "weekly"  -> IF monday <= t THEN monday ELSE AddDays(z, monday, -7)
        [] f = "monthly" -> IF first <= t THEN first ELSE PrevMonth(z, first)

-----------------------------------------------------------------------------
localMidnight(z, t) == Date(z, 24 * DayOf(z, t))
weekStartLocal(z, t) ==
  LET start == localMidnight(z, t) IN AddDays(z, start, -(DayOf(z, start) % 7))
monthStartLocal(z, t) == Date(z, 24 * MonthFirst(DayOf(z, t)))

Yesterday(z, t) ==
  LET end == localMidnight(z, t) IN [start |-> AddDays(z, end, -1), end |-> end]
LastWeek(z, t) ==
  LET start == AddDays(z, weekStartLocal(z, t), -7)
  IN  [start |-> start, end |-> AddDays(z, start, 7)]
LastMonth(z, t) ==
  LET start == PrevMonth(z, monthStartLocal(z, t))
  IN  [start |-> start, end |-> NextMonth(z, start)]

(* The period a delivery reports on. *)
PeriodOf(z, f, t) ==
  CASE f = "daily" -> Yesterday(z, t) [] f = "weekly" -> LastWeek(z, t)
    [] f = "monthly" -> LastMonth(z, t)

-----------------------------------------------------------------------------
(* Reference: the wall clock shows the hour on a day, a Monday or a first.    *)
Deliveries(z, f, hour, from, to) ==
  {Date(z, 24 * d + hour) : d \in
     {d \in DayOf(z, from) - 1 .. DayOf(z, to) + 1 :
        /\ (f = "weekly" => d % 7 = 0) /\ (f = "monthly" => d \in Firsts)
        /\ Date(z, 24 * d + hour) \in from .. to}}

(* The instants at which the wall clock shows a reading. *)
Showing(z, wall) == {t \in {wall - z.base, wall - z.base - z.shift} : Local(z, t) = wall}

(* The change of the clock does not skip or repeat the hour.                  *)
Regular(z, hour) ==
  LET d == DayOf(z, z.at)
  IN  \A k \in -1 .. 1 : Cardinality(Showing(z, 24 * (d + k) + hour)) = 1
=============================================================================
