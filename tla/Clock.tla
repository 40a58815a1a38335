------------------------------- MODULE Clock -------------------------------
(***************************************************************************)
(* struct Clock (src/item/train.cpp): a date of the season of sale, June   *)
(* to August, or a stretch of time of month 0, and the arithmetic that the *)
(* commands do on them.  TrainSystem counts days instead; the properties   *)
(* below are what makes that right.  The behaviour walks the season day by *)
(* day, as the loop of ReleaseTrain does, and an offset from midnight, as  *)
(* the leave_time and arrive_time of a train are, from minute to minute.   *)
(***************************************************************************)
EXTENDS Integers

CONSTANTS
  Step,     \* minutes by which the offset grows
  Longest   \* bound on the offset, in minutes

ASSUME StepAssumption == Step \in Nat \ {0} /\ Longest \in Nat
\* "The time should not be longer than a month", says operator=(int).
ASSUME MonthAssumption == Longest + Step <= 31 * 24 * 60

VARIABLES today, offset

vars == <<today, offset>>

Clock(month, day, hour, minute) ==
  [month |-> month, day |-> day, hour |-> hour, minute |-> minute]

\* operator=(int)
FromMinutes(minutes) ==
  LET hour == minutes \div 60
      day == hour \div 24
  IN Clock(0, day, hour - day * 24, minutes - hour * 60)

\* A mistake: the last day of a month counts as the next month's day 0.
CarryEarly(clock, month, length) ==
  IF clock.month = month /\ clock.day >= length
  THEN [clock EXCEPT !.month = @ + 1, !.day = @ - length]
  ELSE clock

\* The three ifs of Addit, one after another.
Carry(clock, month, length) ==
  IF clock.month = month /\ clock.day > length
  THEN [clock EXCEPT !.month = @ + 1, !.day = @ - length]
  ELSE clock

\* Addit, and Add on a copy.
Add(clock, other) ==
  LET minute == clock.minute + other.minute
      hour == clock.hour + other.hour + minute \div 60
      sum == Clock(clock.month + other.month,
                   clock.day + other.day + hour \div 24, hour % 24, minute % 60)
  IN Carry(Carry(Carry(sum, 6, 30), 7, 31), 8, 31)

\* Mistakes: every month that is borrowed has 30 days; no hour is borrowed for
\* the minutes.
Minus30(clock, other) ==
  LET minute == clock.minute - other.minute
      hour == clock.hour - other.hour - (IF minute < 0 THEN 1 ELSE 0)
      day == clock.day - other.day - (IF hour < 0 THEN 1 ELSE 0)
      month == clock.month - other.month
      borrow == day <= 0 /\ month # 0
  IN Clock(IF borrow THEN month - 1 ELSE month, IF borrow THEN day + 30 ELSE day,
           IF hour < 0 THEN hour + 24 ELSE hour,
           IF minute < 0 THEN minute + 60 ELSE minute)
MinusNoBorrow(clock, other) ==
  LET day == clock.day - other.day
      borrow == day <= 0 /\ clock.month # other.month
  IN Clock(clock.month - other.month - (IF borrow THEN 1 ELSE 0),
           IF borrow THEN day + (IF clock.month \in {8, 9} THEN 31 ELSE 30) ELSE day,
           (clock.hour - other.hour) % 24, (clock.minute - other.minute) % 60)

\* Minus borrows minutes, hours and one month.
Minus(clock, other) ==
  LET minute == clock.minute - other.minute
      hour == clock.hour - other.hour - (IF minute < 0 THEN 1 ELSE 0)
      day == clock.day - other.day - (IF hour < 0 THEN 1 ELSE 0)
      month == clock.month - other.month
      borrow == day <= 0 /\ month # 0
  IN Clock(IF borrow THEN month - 1 ELSE month,
           IF borrow THEN day + (IF clock.month \in {8, 9} THEN 31 ELSE 30) ELSE day,
           IF hour < 0 THEN hour + 24 ELSE hour,
           IF minute < 0 THEN minute + 60 ELSE minute)

CutDate(clock) == Clock(clock.month, clock.day, 0, 0)
CutTime(clock) == Clock(0, 0, clock.hour, clock.minute)

Compare(clock, other) ==
  IF clock.month # other.month THEN clock.month - other.month
  ELSE IF clock.day # other.day THEN clock.day - other.day
  ELSE IF clock.hour # other.hour THEN clock.hour - other.hour
  ELSE clock.minute - other.minute

\* TrainTotal::DeltaDay
DeltaDay(leave_time) == Clock(0, leave_time.day, 0, 0)

-----------------------------------------------------------------------------
OneDay == Clock(0, 1, 0, 0)
FirstDay == Clock(6, 1, 0, 0)
LastDay == Clock(8, 31, 0, 0)

Init == today = FirstDay /\ offset = FromMinutes(0)

\* date.Addit(one_day) in ReleaseTrain
NextDay ==
  /\ Compare(today, LastDay) < 0
  /\ today' = Add(today, OneDay)
  /\ UNCHANGED offset

\* leave_time[i].Addit(arrive_time[i]) in add_train: a stop later on the way.
NextStop ==
  /\ Compare(offset, FromMinutes(Longest)) < 0
  /\ offset' = Add(FromMinutes(Step), offset)
  /\ UNCHANGED today

Next == NextDay \/ NextStop

Spec == Init /\ [][Next]_vars

-----------------------------------------------------------------------------
\* The calendar, counted in minutes from the first of June; September is as
\* far as a journey goes.
DaysBefore(month) == CASE month = 6 -> 0 [] month = 7 -> 30 [] month = 8 -> 61 [] OTHER -> 92
InMonth(month) == IF month \in {6, 9} THEN 30 ELSE 31
IsDate(clock) == clock.month \in 6 .. 9 /\ clock.day \in 1 .. InMonth(clock.month)
Length(time) == (time.day * 24 + time.hour) * 60 + time.minute
Count(clock) == Length(clock) + (DaysBefore(clock.month) - 1) * 24 * 60

\* Times of day to leave at: the first and last minute, and one in between.
LeaveTimes == {0, 755, 1439}

\* today is a date of the season, offset a time of day and some days.
TypeOK ==
  /\ IsDate(today) /\ today.month # 9 /\ today = CutDate(today)
  /\ offset.month = 0 /\ offset.day \in Nat
  /\ offset.hour \in 0 .. 23 /\ offset.minute \in 0 .. 59

\* Adding an offset to a day of the season arrives at the date and time that
\* the calendar says, over the ends of the months (Addit).
AddFollowsCalendar ==
  /\ IsDate(Add(offset, today))
  /\ Count(Add(offset, today)) = Count(today) + Length(offset)

\* buy_ticket and query_ticket find the day the train leaves its first station
\* from the day it leaves the passenger's: taking the days of leave_time off
\* leads back to the departure from every station (Minus, DeltaDay).
BoardingDayLeadsBack ==
  Minus(CutDate(Add(offset, today)), DeltaDay(offset)) = today

\* The time between a departure and an arrival is measured in days, hours and
\* minutes when it is shorter than a month, whether the two are dates of the
\* season (QueryTransfer compares journeys by it) or offsets from the train's
\* first midnight (CompleteRoute).
JourneysAreMeasured ==
  \A minutes \in LeaveTimes :
    LET leave == FromMinutes(minutes)
        arrive == Add(offset, leave)
    IN offset.day < 30 =>
         /\ Minus(arrive, leave) = offset
         /\ Minus(Add(arrive, today), Add(leave, today)) = offset
=============================================================================
