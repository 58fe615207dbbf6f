----------------------------- MODULE BoardView -----------------------------
(***************************************************************************)
(* What the board shows (BoardView.cpp): the loads picked up today, or the *)
(* week from Sunday to Saturday, a row per driver.                         *)
(*                                                                         *)
(* Time is counted in hours from the Sunday's midnight; days are numbered  *)
(* from that Sunday, 0.  In a week in which the clocks change, Sunday has  *)
(* 23 hours or 25.                                                         *)
(***************************************************************************)
EXTENDS Integers

CONSTANTS
  Loads,
  Driver,   \* Driver[l]: who drives load l, or None
  Drivers,
  Pickup,   \* Pickup[l]: the day of its pickup_date
  None

Weeks == {"even", "spring", "autumn"}

Midnight(week, day) ==
  24 * day + (IF day < 1 \/ week = "even" THEN 0 ELSE IF week = "spring" THEN -1 ELSE 1)

\* Every hour of a week.
Hours(week) == 0 .. Midnight(week, 7) - 1

\* isoDate: the local date of a time.
IsoDate(week, hour) ==
  CHOOSE day \in -1..7 : Midnight(week, day) <= hour /\ hour < Midnight(week, day + 1)

\* currentWeekDays: steps of 24 hours, from now.
CurrentWeekDays(week, now) ==
  LET sunday == now - 24 * IsoDate(week, now)
  IN  [c \in 0..6 |-> IsoDate(week, sunday + 24 * c)]

\* renderToday: whoever drives them.
TodayCells(loads, week, now) ==
  {<<l, 0>> : l \in {l \in loads : Pickup[l] = IsoDate(week, now)}}

\* renderWeek: loads of known drivers.
WeekCells(loads, week, now) ==
  {cell \in loads \X (0..6) :
     Driver[cell[1]] \in Drivers /\ Pickup[cell[1]] = CurrentWeekDays(week, now)[cell[2]]}

Cells(mode, loads, week, now) ==
  IF mode = "today" THEN TodayCells(loads, week, now) ELSE WeekCells(loads, week, now)

\* What the board should show.
RightCells(mode, loads, week, now) ==
  IF mode = "today"
  THEN {l \in loads : Pickup[l] = IsoDate(week, now)} \X {0}
  ELSE {<<l, Pickup[l]>> : l \in {l \in loads : Driver[l] \in Drivers /\ Pickup[l] \in 0..6}}

\* The first hour of a day after a Sunday of 23 hours, or that of one of 25.
ClockTrouble(week, now) ==
  /\ now = Midnight(week, IsoDate(week, now))
  /\ IF now = 0 THEN week = "autumn" ELSE week = "spring"
=============================================================================
