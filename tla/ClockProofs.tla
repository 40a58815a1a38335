---------------------------- MODULE ClockProofs ----------------------------
(***************************************************************************)
(* Proofs about the clock: on every day of the season, and for every time  *)
(* of less than a month, its arithmetic is that of the calendar, counted   *)
(* in minutes.                                                             *)
(***************************************************************************)
EXTENDS Clock, TLAPS

-----------------------------------------------------------------------------
\* The values of struct Clock: any, stretches of time of less than a
\* month and some, dates of the season.
AnyClock == [month : Int, day : Int, hour : Int, minute : Int]
Stretch == [month : {0}, day : 0 .. 30, hour : 0 .. 23, minute : 0 .. 59]
Date == {date \in [month : 6 .. 8, day : 1 .. 31, hour : {0}, minute : {0}] :
           date.day <= InMonth(date.month)}

LEMMA ClockFields ==
  ASSUME NEW month, NEW day, NEW hour, NEW minute
  PROVE  /\ Clock(month, day, hour, minute).month = month
         /\ Clock(month, day, hour, minute).day = day
         /\ Clock(month, day, hour, minute).hour = hour
         /\ Clock(month, day, hour, minute).minute = minute
BY DEF Clock

LEMMA IsClock ==
  ASSUME NEW month \in Int, NEW day \in Int, NEW hour \in Int, NEW minute \in Int
  PROVE  Clock(month, day, hour, minute) \in AnyClock
BY DEF Clock, AnyClock

\* Two clocks with the same fields are the same.
LEMMA SameClock ==
  ASSUME NEW clock \in AnyClock, NEW other \in AnyClock,
         clock.month = other.month, clock.day = other.day,
         clock.hour = other.hour, clock.minute = other.minute
  PROVE  clock = other
BY DEF AnyClock

\* One of the three ifs of Addit.
LEMMA CarryFacts ==
  ASSUME NEW clock \in AnyClock, NEW month \in Int, NEW length \in Int
  PROVE  Carry(clock, month, length) =
           IF clock.month = month /\ clock.day > length
           THEN Clock(month + 1, clock.day - length, clock.hour, clock.minute)
           ELSE clock
<1>1. CASE clock.month = month /\ clock.day > length
  <2> DEFINE carried == [clock EXCEPT !.month = @ + 1, !.day = @ - length]
             expected == Clock(month + 1, clock.day - length, clock.hour, clock.minute)
  <2>2. /\ clock.day \in Int /\ clock.hour \in Int /\ clock.minute \in Int
        /\ clock.month + 1 \in Int /\ clock.day - length \in Int
    BY DEF AnyClock
  <2>0. PICK n \in Int, e \in Int : n = clock.month + 1 /\ e = clock.day - length
    BY <2>2
  <2>1. /\ carried \in AnyClock /\ carried.month = month + 1
        /\ carried.day = clock.day - length
        /\ carried.hour = clock.hour /\ carried.minute = clock.minute
    <3>1. carried = [clock EXCEPT !.month = n, !.day = e]
      BY <2>0
    <3>2. /\ [clock EXCEPT !.month = n, !.day = e] \in AnyClock
          /\ [clock EXCEPT !.month = n, !.day = e].month = n
          /\ [clock EXCEPT !.month = n, !.day = e].day = e
          /\ [clock EXCEPT !.month = n, !.day = e].hour = clock.hour
          /\ [clock EXCEPT !.month = n, !.day = e].minute = clock.minute
      BY DEF AnyClock
    <3>3. QED
      BY <1>1, <2>0, <3>1, <3>2
  <2>3. expected \in AnyClock
    BY <2>2, IsClock
  <2>4. /\ expected.month = month + 1 /\ expected.day = clock.day - length
        /\ expected.hour = clock.hour /\ expected.minute = clock.minute
    BY ClockFields
  <2> HIDE DEF carried, expected
  <2>5. carried = expected
    BY <2>1, <2>3, <2>4, SameClock
  <2>6. QED
    BY <1>1, <2>5 DEF Carry, carried, expected
<1>2. CASE ~(clock.month = month /\ clock.day > length)
  BY <1>2 DEF Carry
<1>3. QED
  BY <1>1, <1>2

\* Whole hours and days in a number of minutes and hours.
LEMMA Whole ==
  ASSUME NEW n \in Nat
  PROVE  /\ n \div 60 \in Nat /\ n % 60 \in 0 .. 59 /\ n = (n \div 60) * 60 + (n % 60)
         /\ n \div 24 \in Nat /\ n % 24 \in 0 .. 23 /\ n = (n \div 24) * 24 + (n % 24)
OBVIOUS

\* The sum before the months are carried over.
Minutes(clock, other) == clock.minute + other.minute
Hours(clock, other) == clock.hour + other.hour + Minutes(clock, other) \div 60
Sum(clock, other) ==
  Clock(clock.month + other.month, clock.day + other.day + Hours(clock, other) \div 24,
        Hours(clock, other) % 24, Minutes(clock, other) % 60)

LEMMA SumFacts ==
  ASSUME NEW clock \in AnyClock, NEW other \in AnyClock,
         clock.hour \in 0 .. 23, clock.minute \in 0 .. 59,
         other.hour \in 0 .. 23, other.minute \in 0 .. 59
  PROVE  /\ Sum(clock, other) \in AnyClock
         /\ Sum(clock, other).month = clock.month + other.month
         /\ Sum(clock, other).hour \in 0 .. 23 /\ Sum(clock, other).minute \in 0 .. 59
         /\ Sum(clock, other).day - clock.day - other.day \in 0 .. 1
         /\ Length(Sum(clock, other)) = Length(clock) + Length(other)
         /\ Add(clock, other) =
              Carry(Carry(Carry(Sum(clock, other), 6, 30), 7, 31), 8, 31)
<1>1. /\ clock.month \in Int /\ clock.day \in Int /\ other.month \in Int
      /\ other.day \in Int
  BY DEF AnyClock
<1>2. PICK minute \in 0 .. 118 : minute = Minutes(clock, other)
  BY DEF Minutes
<1>3. minute \div 60 \in 0 .. 1 /\ minute % 60 \in 0 .. 59
      /\ minute = (minute \div 60) * 60 + (minute % 60)
  BY Whole
<1>4. PICK over \in 0 .. 1, rest \in 0 .. 59 :
        over = minute \div 60 /\ rest = minute % 60 /\ minute = over * 60 + rest
  BY <1>3
<1>5. Hours(clock, other) = clock.hour + other.hour + over
  BY <1>2, <1>4 DEF Hours
<1>6. PICK hour \in 0 .. 47 : hour = Hours(clock, other)
  BY <1>5
<1>16. hour \div 24 \in 0 .. 1 /\ hour % 24 \in 0 .. 23
      /\ hour = (hour \div 24) * 24 + (hour % 24)
  BY Whole
<1>17. PICK carried \in 0 .. 1, left \in 0 .. 23 :
        carried = hour \div 24 /\ left = hour % 24 /\ hour = carried * 24 + left
  BY <1>16
<1>7. Sum(clock, other) = Clock(clock.month + other.month, clock.day + other.day + carried,
                                left, rest)
  BY <1>2, <1>4, <1>6, <1>17 DEF Sum
<1>8. clock.month + other.month \in Int /\ clock.day + other.day + carried \in Int
  BY <1>1
<1>9. Sum(clock, other) \in AnyClock
  BY <1>7, <1>8, IsClock
<1>10. /\ Sum(clock, other).month = clock.month + other.month
       /\ Sum(clock, other).day = clock.day + other.day + carried
       /\ Sum(clock, other).hour = left /\ Sum(clock, other).minute = rest
  BY <1>7, ClockFields
<1>11. Add(clock, other) = Carry(Carry(Carry(Sum(clock, other), 6, 30), 7, 31), 8, 31)
  BY DEF Add, Sum, Hours, Minutes
<1>12. minute = clock.minute + other.minute
  BY <1>2 DEF Minutes
<1>13. PICK m \in Int, d \in Int, n \in Int, e \in Int :
         m = clock.month /\ d = clock.day /\ n = other.month /\ e = other.day
  BY <1>1
<1>14. Length(Sum(clock, other)) = Length(clock) + Length(other)
  <2>1. PICK h \in Int, i \in Int, j \in Int, k \in Int :
          h = clock.hour /\ i = clock.minute /\ j = other.hour /\ k = other.minute
    BY DEF AnyClock
  <2>2. hour = h + j + over /\ minute = i + k
    BY <1>5, <1>6, <1>12, <2>1
  <2>3. Length(clock) = (d * 24 + h) * 60 + i /\ Length(other) = (e * 24 + j) * 60 + k
    BY <1>13, <2>1 DEF Length
  <2>4. Length(Sum(clock, other)) = ((d + e + carried) * 24 + left) * 60 + rest
    BY <1>10, <1>13 DEF Length
  <2>5. over * 60 + rest = i + k /\ carried * 24 + left = h + j + over
    BY <1>4, <1>17, <2>2
  <2>6. ((d + e + carried) * 24 + left) * 60 + rest =
          ((d * 24 + h) * 60 + i) + ((e * 24 + j) * 60 + k)
    BY <2>5
  <2>7. QED
    BY <2>3, <2>4, <2>6
<1>15. QED
  BY <1>1, <1>9, <1>10, <1>11, <1>14

\* Two clocks of the same month and length are the same, when hours and minutes
\* are in their ranges.
LEMMA SameLength ==
  ASSUME NEW clock \in AnyClock, NEW other \in AnyClock,
         clock.hour \in 0 .. 23, clock.minute \in 0 .. 59,
         other.hour \in 0 .. 23, other.minute \in 0 .. 59,
         clock.month = other.month, Length(clock) = Length(other)
  PROVE  clock = other
<1>1. PICK d \in Int, h \in 0 .. 23, i \in 0 .. 59, e \in Int, j \in 0 .. 23, k \in 0 .. 59 :
        /\ d = clock.day /\ h = clock.hour /\ i = clock.minute
        /\ e = other.day /\ j = other.hour /\ k = other.minute
  BY DEF AnyClock
<1>2. (d * 24 + h) * 60 + i = (e * 24 + j) * 60 + k
  BY <1>1 DEF Length
<1>3. d = e /\ h = j /\ i = k
  BY <1>2
<1>4. QED
  BY <1>1, <1>3, SameClock

\* It does not matter which of the two is added to which.
LEMMA AddCommutes ==
  ASSUME NEW clock \in AnyClock, NEW other \in AnyClock
  PROVE  Add(clock, other) = Add(other, clock)
<1>1. /\ clock.month + other.month = other.month + clock.month
      /\ clock.day + other.day = other.day + clock.day
      /\ clock.hour + other.hour = other.hour + clock.hour
      /\ clock.minute + other.minute = other.minute + clock.minute
  BY DEF AnyClock
<1>2. QED
  BY <1>1 DEF Add

\* Stretches of time add up, as long as they stay shorter than a month and a day.
LEMMA AddStretches ==
  ASSUME NEW time \in Stretch, NEW more \in Stretch,
         Length(time) + Length(more) < 31 * 24 * 60
  PROVE  /\ Add(time, more) \in Stretch
         /\ Length(Add(time, more)) = Length(time) + Length(more)
<1>1. /\ time \in AnyClock /\ time.month = 0 /\ time.day \in Nat
      /\ time.hour \in 0 .. 23 /\ time.minute \in 0 .. 59
      /\ more \in AnyClock /\ more.month = 0 /\ more.day \in Nat
      /\ more.hour \in 0 .. 23 /\ more.minute \in 0 .. 59
  BY DEF Stretch, AnyClock
<1>2. PICK sum \in AnyClock : sum = Sum(time, more)
  BY <1>1, SumFacts
<1>3. /\ sum.month = 0 /\ sum.hour \in 0 .. 23 /\ sum.minute \in 0 .. 59
      /\ sum.day \in Nat
      /\ Length(sum) = Length(time) + Length(more)
      /\ Add(time, more) = Carry(Carry(Carry(sum, 6, 30), 7, 31), 8, 31)
  <2>1. /\ Sum(time, more).month = time.month + more.month
        /\ Sum(time, more).day - time.day - more.day \in 0 .. 1
    BY <1>1, SumFacts
  <2>2. sum.month = 0 /\ sum.day \in Nat
    BY <1>1, <1>2, <2>1 DEF AnyClock
  <2>3. QED
    BY <1>1, <1>2, <2>2, SumFacts
<1>4. Add(time, more) = sum
  BY <1>3 DEF Carry
<1>5. sum.day \in 0 .. 30
  <2>1. PICK d \in Nat, h \in 0 .. 23, i \in 0 .. 59 :
          d = sum.day /\ h = sum.hour /\ i = sum.minute
    BY <1>3
  <2>2. (d * 24 + h) * 60 + i < 31 * 24 * 60
    BY <1>3, <2>1 DEF Length
  <2>3. QED
    BY <2>1, <2>2
<1>6. sum \in Stretch
  BY <1>3, <1>5 DEF AnyClock, Stretch
<1>7. QED
  BY <1>3, <1>4, <1>6

\* A time later than a date is of the same month or of the next.
LEMMA AddToDate ==
  ASSUME NEW time \in Stretch, NEW date \in Date
  PROVE  Add(time, date) =
           IF time.day + date.day <= InMonth(date.month)
           THEN Clock(date.month, time.day + date.day, time.hour, time.minute)
           ELSE Clock(date.month + 1, (time.day + date.day) - InMonth(date.month),
                      time.hour, time.minute)
<1>1. /\ time \in AnyClock /\ time.month = 0 /\ time.day \in 0 .. 30
      /\ time.hour \in 0 .. 23 /\ time.minute \in 0 .. 59
  BY DEF Stretch, AnyClock
<1>2. /\ date \in AnyClock /\ date.month \in 6 .. 8 /\ date.day \in 1 .. 31
      /\ date.hour = 0 /\ date.minute = 0 /\ date.day <= InMonth(date.month)
  BY DEF Date, AnyClock
<1>3. PICK sum \in AnyClock : sum = Sum(time, date)
  BY <1>1, <1>2, SumFacts
<1>4. /\ sum.month = time.month + date.month
      /\ sum.hour \in 0 .. 23 /\ sum.minute \in 0 .. 59
      /\ Length(sum) = Length(time) + Length(date)
      /\ Add(time, date) = Carry(Carry(Carry(sum, 6, 30), 7, 31), 8, 31)
  BY <1>1, <1>2, <1>3, SumFacts
<1> DEFINE days == time.day + date.day
           plain == Clock(date.month, days, time.hour, time.minute)
<1>5. days \in 1 .. 61
  BY <1>1, <1>2
<1>6. /\ plain \in AnyClock /\ plain.month = date.month /\ plain.day = days
      /\ plain.hour = time.hour /\ plain.minute = time.minute
  <2> HIDE DEF days
  <2>1. date.month \in Int /\ days \in Int /\ time.hour \in Int /\ time.minute \in Int
    BY <1>1, <1>2, <1>5
  <2>2. plain \in AnyClock
    BY <2>1, IsClock
  <2>3. QED
    BY <2>2, ClockFields
<1>7. Length(plain) = Length(time) + Length(date)
  <2>1. PICK d \in 0 .. 30, h \in 0 .. 23, i \in 0 .. 59, e \in 1 .. 31 :
          d = time.day /\ h = time.hour /\ i = time.minute /\ e = date.day
    BY <1>1, <1>2
  <2>2. Length(time) = (d * 24 + h) * 60 + i
    BY <2>1 DEF Length
  <2>3. Length(date) = (e * 24 + 0) * 60 + 0
    BY <1>2, <2>1 DEF Length
  <2>4. Length(plain) = ((d + e) * 24 + h) * 60 + i
    BY <1>6, <2>1 DEF Length
  <2>5. QED
    BY <2>2, <2>3, <2>4
<1>8. sum = plain
  <2>1. sum.month = date.month
    BY <1>1, <1>2, <1>4
  <2> HIDE DEF plain
  <2>2. QED
    BY <1>1, <1>4, <1>6, <1>7, <2>1, SameLength
<1> DEFINE next == Clock(date.month + 1, days - InMonth(date.month), time.hour, time.minute)
<1>9. /\ InMonth(date.month) \in 30 .. 31
      /\ InMonth(6) = 30 /\ InMonth(7) = 31 /\ InMonth(8) = 31
  BY DEF InMonth
<1>10. /\ next \in AnyClock /\ next.month = date.month + 1
       /\ next.day = days - InMonth(date.month)
  <2> HIDE DEF days
  <2>1. /\ date.month + 1 \in Int /\ days - InMonth(date.month) \in Int
        /\ time.hour \in Int /\ time.minute \in Int
    BY <1>1, <1>2, <1>5, <1>9
  <2>2. next \in AnyClock
    BY <2>1, IsClock
  <2>3. QED
    BY <2>2, ClockFields
<1>11. \A month \in 6 .. 8 : Carry(plain, month, InMonth(month)) =
         IF date.month = month /\ days > InMonth(month) THEN next ELSE plain
  <2> TAKE month \in 6 .. 8
  <2>1. InMonth(month) \in Int
    BY DEF InMonth
  <2>2. Carry(plain, month, InMonth(month)) =
          IF plain.month = month /\ plain.day > InMonth(month)
          THEN Clock(month + 1, plain.day - InMonth(month), plain.hour, plain.minute)
          ELSE plain
    BY <1>6, <2>1, CarryFacts
  <2>3. QED
    BY <1>6, <2>2
<1>12. \A month \in 6 .. 8 : date.month < month => Carry(next, month, InMonth(month)) = next
  <2> TAKE month \in 6 .. 8
  <2> HAVE date.month < month
  <2>1. InMonth(month) \in 30 .. 31
    BY DEF InMonth
  <2>2. ~(next.day > InMonth(month))
    <3>1. days - InMonth(date.month) <= 31
      BY <1>5, <1>9
    <3>2. date.month = 6 => days <= 60
      BY <1>1, <1>2, <1>9
    <3>3. CASE date.month = 6
      BY <1>5, <1>9, <1>10, <2>1, <3>2, <3>3
    <3>4. CASE date.month # 6
      <4>1. date.month = 7 /\ month = 8
        BY <1>2, <3>4
      <4>2. QED
        BY <1>5, <1>9, <1>10, <4>1
    <3>5. QED
      BY <3>3, <3>4
  <2>3. QED
    BY <2>2 DEF Carry
<1> HIDE DEF plain, next, days
<1>13. Add(time, date) = IF days > InMonth(date.month) THEN next ELSE plain
  <2>1. Add(time, date) = Carry(Carry(Carry(plain, 6, InMonth(6)), 7, InMonth(7)), 8, InMonth(8))
    BY <1>4, <1>8, <1>9
  <2>2. CASE days > InMonth(date.month)
    BY <1>2, <1>11, <1>12, <2>1, <2>2
  <2>3. CASE ~(days > InMonth(date.month))
    BY <1>2, <1>11, <2>1, <2>3
  <2>4. QED
    BY <2>2, <2>3
<1>14. days > InMonth(date.month) <=> ~(time.day + date.day <= InMonth(date.month))
  BY <1>1, <1>2, <1>9 DEF days
<1>15. CASE days > InMonth(date.month)
  <2>1. Add(time, date) = next
    BY <1>13, <1>15
  <2>2. ~(time.day + date.day <= InMonth(date.month))
    BY <1>14, <1>15
  <2>3. next = Clock(date.month + 1, (time.day + date.day) - InMonth(date.month),
                     time.hour, time.minute)
    BY DEF next, days
  <2>4. QED
    BY <2>1, <2>2, <2>3, Zenon
<1>16. CASE ~(days > InMonth(date.month))
  BY <1>13, <1>14, <1>16 DEF plain, days
<1>17. QED
  BY <1>15, <1>16

\* It is a date, as many minutes later as the time is long.
LEMMA DateAndTime ==
  ASSUME NEW time \in Stretch, NEW date \in Date
  PROVE  LET sum == Add(time, date) IN
         /\ sum \in AnyClock /\ IsDate(sum)
         /\ sum.hour = time.hour /\ sum.minute = time.minute
         /\ Count(sum) = Count(date) + Length(time)
         /\ \/ /\ sum.month = date.month /\ sum.day = time.day + date.day
            \/ /\ sum.month = date.month + 1
               /\ sum.day = (time.day + date.day) - InMonth(date.month)
<1> DEFINE sum == Add(time, date)
           days == time.day + date.day
<1>1. PICK d \in 0 .. 30, h \in 0 .. 23, i \in 0 .. 59 :
        d = time.day /\ h = time.hour /\ i = time.minute
  BY DEF Stretch
<1>2. PICK m \in 6 .. 8, e \in 1 .. 31 :
        /\ m = date.month /\ e = date.day /\ e <= InMonth(m)
        /\ date.hour = 0 /\ date.minute = 0
  BY DEF Date
<1>3. InMonth(m) = (IF m = 6 THEN 30 ELSE 31)
  BY DEF InMonth
<1>4. Length(time) = (d * 24 + h) * 60 + i
  BY <1>1 DEF Length
<1>5. Count(date) = (e * 24 + 0) * 60 + 0 + (DaysBefore(m) - 1) * 24 * 60
  BY <1>2 DEF Count, Length
<1>6. CASE d + e <= InMonth(m)
  <2>1. sum = Clock(m, d + e, h, i)
    BY <1>1, <1>2, <1>6, AddToDate
  <2>2. sum.month = m /\ sum.day = d + e /\ sum.hour = h /\ sum.minute = i
    BY <2>1, ClockFields
  <2>3. sum \in AnyClock
    BY <2>1, IsClock
  <2>4. Count(sum) = ((d + e) * 24 + h) * 60 + i + (DaysBefore(m) - 1) * 24 * 60
    BY <2>2 DEF Count, Length
  <2>5. IsDate(sum)
    BY <1>6, <2>2, <1>3 DEF IsDate
  <2>6. DaysBefore(m) \in Int
    BY DEF DaysBefore
  <2>7. Count(sum) = Count(date) + Length(time)
    BY <1>4, <1>5, <2>4, <2>6
  <2>8. QED
    BY <1>1, <1>2, <2>2, <2>3, <2>5, <2>7
<1>7. CASE ~(d + e <= InMonth(m))
  <2>1. sum = Clock(m + 1, (d + e) - InMonth(m), h, i)
    BY <1>1, <1>2, <1>7, AddToDate
  <2>2. /\ sum.month = m + 1 /\ sum.day = (d + e) - InMonth(m)
        /\ sum.hour = h /\ sum.minute = i
    BY <2>1, ClockFields
  <2>3. sum \in AnyClock
    BY <1>3, <2>1, IsClock
  <2>4. Count(sum) = (((d + e) - InMonth(m)) * 24 + h) * 60 + i + (DaysBefore(m + 1) - 1) * 24 * 60
    BY <2>2 DEF Count, Length
  <2>5. m + 1 \in 6 .. 9 /\ (d + e) - InMonth(m) \in 1 .. 30 /\ InMonth(m + 1) \in 30 .. 31
    <3>1. m + 1 \in 6 .. 9
      OBVIOUS
    <3>2. (d + e) - InMonth(m) \in 1 .. 30
      <4>1. CASE m = 6
        BY <1>2, <1>3, <1>7, <4>1
      <4>2. CASE m # 6
        BY <1>2, <1>3, <1>7, <4>2
      <4>3. QED
        BY <4>1, <4>2
    <3>3. InMonth(m + 1) \in 30 .. 31
      BY DEF InMonth
    <3>4. QED
      BY <3>1, <3>2, <3>3
  <2>6. IsDate(sum)
    BY <2>2, <2>5 DEF IsDate
  <2>7. DaysBefore(m) \in Int /\ DaysBefore(m + 1) = DaysBefore(m) + InMonth(m)
    <3>1. m = 6 \/ m = 7 \/ m = 8
      OBVIOUS
    <3>2. /\ DaysBefore(6) = 0 /\ DaysBefore(7) = 30 /\ DaysBefore(8) = 61
          /\ DaysBefore(9) = 92
      BY DEF DaysBefore
    <3>3. QED
      BY <3>1, <3>2, <1>3
  <2>8. Count(sum) = Count(date) + Length(time)
    BY <1>3, <1>4, <1>5, <2>4, <2>7
  <2>9. QED
    BY <1>1, <1>2, <2>2, <2>3, <2>6, <2>8
<1>8. QED
  BY <1>6, <1>7

-----------------------------------------------------------------------------
\* Taking one clock off another.
Under(clock, other) == IF clock.minute < other.minute THEN 1 ELSE 0
Short(clock, other) == IF clock.hour - other.hour - Under(clock, other) < 0 THEN 1 ELSE 0
Days(clock, other) == clock.day - other.day - Short(clock, other)
Borrowed(clock, other) ==
  IF Days(clock, other) <= 0 /\ clock.month # other.month
  THEN IF clock.month \in {8, 9} THEN 31 ELSE 30 ELSE 0

\* Hours and minutes come out in their ranges, and the length is the difference
\* of the lengths, with the days of the month that was borrowed.
LEMMA MinusFacts ==
  ASSUME NEW clock \in AnyClock, NEW other \in AnyClock,
         clock.hour \in 0 .. 23, clock.minute \in 0 .. 59,
         other.hour \in 0 .. 23, other.minute \in 0 .. 59
  PROVE  LET rest == Minus(clock, other) IN
         /\ rest \in AnyClock /\ rest.hour \in 0 .. 23 /\ rest.minute \in 0 .. 59
         /\ rest.month = clock.month - other.month
                           - (IF Borrowed(clock, other) = 0 THEN 0 ELSE 1)
         /\ rest.day = Days(clock, other) + Borrowed(clock, other)
         /\ Length(rest) =
              Length(clock) - Length(other) + Borrowed(clock, other) * 24 * 60
<1> DEFINE rest == Minus(clock, other)
           hour == clock.hour - other.hour - Under(clock, other)
           minute == clock.minute - other.minute
           month == clock.month - other.month
           borrow == Days(clock, other) <= 0 /\ month # 0
<1>1. /\ clock.month \in Int /\ clock.day \in Int /\ other.month \in Int
      /\ other.day \in Int
  BY DEF AnyClock
<1>2. /\ Under(clock, other) = (IF minute < 0 THEN 1 ELSE 0)
      /\ Short(clock, other) = (IF hour < 0 THEN 1 ELSE 0)
      /\ month \in Int /\ (month # 0 <=> clock.month # other.month)
  BY <1>1 DEF Under, Short
<1>3. rest = Clock(IF borrow THEN month - 1 ELSE month,
                   IF borrow THEN Days(clock, other) + (IF clock.month \in {8, 9} THEN 31 ELSE 30)
                             ELSE Days(clock, other),
                   IF hour < 0 THEN hour + 24 ELSE hour,
                   IF minute < 0 THEN minute + 60 ELSE minute)
  BY <1>2 DEF Minus, Days
<1>4. /\ minute \in -59 .. 59 /\ hour \in -24 .. 23 /\ Under(clock, other) \in 0 .. 1
      /\ Short(clock, other) \in 0 .. 1
  BY <1>1 DEF Under, Short
<1>5. Days(clock, other) = clock.day - other.day - Short(clock, other)
      /\ Days(clock, other) \in Int
  BY <1>1, <1>4 DEF Days
<1>6. /\ rest.month = IF borrow THEN month - 1 ELSE month
      /\ rest.day = IF borrow THEN Days(clock, other) + (IF clock.month \in {8, 9} THEN 31 ELSE 30)
                              ELSE Days(clock, other)
      /\ rest.hour = IF hour < 0 THEN hour + 24 ELSE hour
      /\ rest.minute = IF minute < 0 THEN minute + 60 ELSE minute
  BY <1>3, ClockFields
<1>7. /\ Borrowed(clock, other) = IF borrow THEN IF clock.month \in {8, 9} THEN 31 ELSE 30 ELSE 0
      /\ Borrowed(clock, other) \in {0, 30, 31}
  BY <1>2 DEF Borrowed
<1> HIDE DEF rest, hour, minute, month
<1>8. /\ rest.hour \in 0 .. 23 /\ rest.minute \in 0 .. 59
      /\ rest.hour = hour + Short(clock, other) * 24
      /\ rest.minute = minute + Under(clock, other) * 60
  BY <1>2, <1>4, <1>6
<1>9. /\ rest.day = Days(clock, other) + Borrowed(clock, other)
      /\ rest.month = month - (IF Borrowed(clock, other) = 0 THEN 0 ELSE 1)
  <2>1. CASE borrow
    BY <1>2, <1>5, <1>6, <1>7, <2>1
  <2>2. CASE ~borrow
    BY <1>2, <1>5, <1>6, <1>7, <2>2
  <2>3. QED
    BY <2>1, <2>2
<1>10. rest.month \in Int /\ rest.day \in Int
  BY <1>2, <1>5, <1>7, <1>9
<1>11. rest \in AnyClock
  <2>1. \E a, b, c, d : rest = Clock(a, b, c, d)
    BY <1>3 DEF rest
  <2>2. PICK a, b, c, d : rest = Clock(a, b, c, d)
    BY <2>1
  <2>3. a \in Int /\ b \in Int /\ c \in Int /\ d \in Int
    BY <1>8, <1>10, <2>2, ClockFields
  <2>4. QED
    BY <2>2, <2>3, IsClock
<1>12. Length(rest) = Length(clock) - Length(other) + Borrowed(clock, other) * 24 * 60
  <2>1. PICK d \in Int, h \in Int, i \in Int :
          d = clock.day /\ h = clock.hour /\ i = clock.minute
    BY <1>1
  <2>2. PICK e \in Int, j \in Int, k \in Int :
          e = other.day /\ j = other.hour /\ k = other.minute
    BY <1>1
  <2>3. PICK u \in Int, t \in Int, b \in Int :
          u = Under(clock, other) /\ t = Short(clock, other) /\ b = Borrowed(clock, other)
    BY <1>4, <1>7
  <2>4. /\ rest.day = d - e - t + b /\ rest.hour = h - j - u + t * 24
        /\ rest.minute = i - k + u * 60
    BY <1>5, <1>8, <1>9, <2>1, <2>2, <2>3 DEF hour, minute
  <2>5. Length(rest) = ((d - e - t + b) * 24 + (h - j - u + t * 24)) * 60 + (i - k + u * 60)
    BY <2>4 DEF Length
  <2>6. Length(clock) = (d * 24 + h) * 60 + i /\ Length(other) = (e * 24 + j) * 60 + k
    BY <2>1, <2>2 DEF Length
  <2>7. QED
    BY <2>3, <2>5, <2>6
<1>13. QED
  BY <1>8, <1>9, <1>11, <1>12 DEF rest, month

-----------------------------------------------------------------------------
\* Taking off what was added leads back.

\* The days of a stretch, taken off the date that it leads to.
LEMMA DaysLeadBack ==
  ASSUME NEW time \in Stretch, NEW date \in Date
  PROVE  Minus(CutDate(Add(time, date)), DeltaDay(time)) = date
<1> DEFINE sum == Add(time, date)
           there == CutDate(sum)
           delta == DeltaDay(time)
<1>1. PICK d \in 0 .. 30 : d = time.day
  BY DEF Stretch
<1>2. PICK m \in 6 .. 8, e \in 1 .. 31 :
        /\ m = date.month /\ e = date.day /\ e <= InMonth(m)
        /\ date.hour = 0 /\ date.minute = 0 /\ date \in AnyClock
  BY DEF Date, AnyClock
<1>3. InMonth(m) = (IF m = 6 THEN 30 ELSE 31)
  BY DEF InMonth
<1>4. sum \in AnyClock /\ \/ sum.month = m /\ sum.day = d + e
                          \/ sum.month = m + 1 /\ sum.day = (d + e) - InMonth(m)
  BY <1>1, <1>2, DateAndTime
<1>5. /\ there \in AnyClock /\ there.month = sum.month /\ there.day = sum.day
      /\ there.hour = 0 /\ there.minute = 0
  <2>1. sum.month \in Int /\ sum.day \in Int
    BY <1>4 DEF AnyClock
  <2>2. Clock(sum.month, sum.day, 0, 0) \in AnyClock
    BY <2>1, IsClock
  <2>3. QED
    BY <2>2, ClockFields DEF CutDate
<1>6. /\ delta \in AnyClock /\ delta.month = 0 /\ delta.day = d
      /\ delta.hour = 0 /\ delta.minute = 0
  BY <1>1, IsClock, ClockFields DEF DeltaDay
<1> HIDE DEF sum, there, delta
<1>7. PICK rest : rest = Minus(there, delta)
  OBVIOUS
<1>8. /\ rest \in AnyClock /\ rest.hour \in 0 .. 23 /\ rest.minute \in 0 .. 59
      /\ rest.month = there.month - delta.month
                        - (IF Borrowed(there, delta) = 0 THEN 0 ELSE 1)
      /\ rest.day = Days(there, delta) + Borrowed(there, delta)
      /\ Length(rest) = Length(there) - Length(delta) + Borrowed(there, delta) * 24 * 60
  BY <1>5, <1>6, <1>7, MinusFacts
<1>9. Days(there, delta) = sum.day - d
  BY <1>4, <1>5, <1>6 DEF Days, Short, Under, AnyClock
<1>10. rest.day = e /\ rest.month = m
  <2>1. CASE sum.month = m /\ sum.day = d + e
    <3>1. Days(there, delta) = e
      BY <1>1, <1>2, <1>9, <2>1
    <3>2. Borrowed(there, delta) = 0
      BY <3>1 DEF Borrowed
    <3>3. QED
      BY <1>5, <1>6, <1>8, <2>1, <3>1, <3>2
  <2>2. CASE sum.month = m + 1 /\ sum.day = (d + e) - InMonth(m)
    <3>1. Days(there, delta) = e - InMonth(m)
      BY <1>1, <1>2, <1>3, <1>9, <2>2
    <3>2. e - InMonth(m) <= 0 /\ there.month = m + 1 /\ there.month # delta.month
      BY <1>2, <1>3, <1>5, <1>6, <2>2
    <3>3. Borrowed(there, delta) = InMonth(m)
      BY <1>3, <3>1, <3>2 DEF Borrowed
    <3>4. InMonth(m) \in {30, 31}
      BY <1>3
    <3>5. QED
      BY <1>2, <1>6, <1>8, <3>1, <3>2, <3>3, <3>4
  <2>3. QED
    BY <1>4, <2>1, <2>2
<1>11. Length(rest) = Length(date)
  <2>1. PICK n \in Int, b \in Int : n = sum.day /\ b = Borrowed(there, delta)
    BY <1>4 DEF AnyClock, Borrowed
  <2>2. Length(there) = (n * 24 + 0) * 60 + 0 /\ Length(delta) = (d * 24 + 0) * 60 + 0
    BY <1>5, <1>6, <2>1 DEF Length
  <2>3. n - d + b = e
    BY <1>8, <1>9, <1>10, <2>1
  <2>4. Length(date) = (e * 24 + 0) * 60 + 0
    BY <1>2 DEF Length
  <2>5. QED
    BY <1>8, <2>1, <2>2, <2>3, <2>4
<1>12. rest = date
  BY <1>2, <1>8, <1>10, <1>11, SameLength
<1>13. QED
  BY <1>7, <1>12 DEF there, delta, sum

\* Minutes of less than a day are a stretch, as long as they are.
LEMMA FromMinutesFacts ==
  ASSUME NEW minutes \in Nat
  PROVE  /\ FromMinutes(minutes) \in AnyClock
         /\ FromMinutes(minutes).month = 0 /\ FromMinutes(minutes).day \in Nat
         /\ FromMinutes(minutes).hour \in 0 .. 23 /\ FromMinutes(minutes).minute \in 0 .. 59
         /\ Length(FromMinutes(minutes)) = minutes
         /\ minutes < 31 * 24 * 60 => FromMinutes(minutes) \in Stretch
<1>1. PICK hour \in Nat, minute \in 0 .. 59 :
        hour = minutes \div 60 /\ minutes = hour * 60 + minute
  BY Whole
<1>2. PICK day \in Nat, left \in 0 .. 23 :
        day = hour \div 24 /\ hour = day * 24 + left
  BY Whole
<1>3. FromMinutes(minutes) = Clock(0, day, hour - day * 24, minutes - hour * 60)
  BY <1>1, <1>2 DEF FromMinutes
<1>4. hour - day * 24 = left /\ minutes - hour * 60 = minute
  BY <1>1, <1>2
<1>5. FromMinutes(minutes) = Clock(0, day, left, minute)
  BY <1>3, <1>4
<1>6. /\ FromMinutes(minutes) \in AnyClock /\ FromMinutes(minutes).month = 0
      /\ FromMinutes(minutes).day = day /\ FromMinutes(minutes).hour = left
      /\ FromMinutes(minutes).minute = minute
  BY <1>5, IsClock, ClockFields
<1>7. Length(FromMinutes(minutes)) = minutes
  <2>1. Length(FromMinutes(minutes)) = (day * 24 + left) * 60 + minute
    BY <1>6 DEF Length
  <2>2. QED
    BY <1>1, <1>2, <2>1
<1>8. minutes < 31 * 24 * 60 => day \in 0 .. 30
  BY <1>1, <1>2
<1>9. minutes < 31 * 24 * 60 => FromMinutes(minutes) \in Stretch
  BY <1>6, <1>8 DEF AnyClock, Stretch
<1>10. QED
  BY <1>6, <1>7, <1>9

\* What is left of a later time, when the earlier one is taken off, is the time
\* in between, also over the end of a month.
LEMMA TimeBetween ==
  ASSUME NEW time \in Stretch, NEW leave \in Stretch, NEW date \in Date,
         time.day < 30, leave.day = 0
  PROVE  LET arrive == Add(time, leave) IN
         /\ Minus(arrive, leave) = time
         /\ Minus(Add(arrive, date), Add(leave, date)) = time
<1> DEFINE arrive == Add(time, leave)
<1>1. PICK d \in 0 .. 29, h \in 0 .. 23, i \in 0 .. 59 :
        d = time.day /\ h = time.hour /\ i = time.minute
  <2>1. time.day \in 0 .. 30 /\ time.hour \in 0 .. 23 /\ time.minute \in 0 .. 59
    BY DEF Stretch
  <2>2. time.day \in 0 .. 29
    BY <2>1
  <2>3. QED
    BY <2>1, <2>2
<1>2. PICK j \in 0 .. 23, k \in 0 .. 59 : j = leave.hour /\ k = leave.minute
  BY DEF Stretch
<1>3. time \in AnyClock /\ leave \in AnyClock /\ time.month = 0 /\ leave.month = 0
  BY DEF Stretch, AnyClock
<1>4. /\ Length(time) = (d * 24 + h) * 60 + i /\ Length(leave) = (0 * 24 + j) * 60 + k
  BY <1>1, <1>2 DEF Length
<1>5. Length(time) + Length(leave) < 31 * 24 * 60
  BY <1>4
<1>6. arrive \in Stretch /\ Length(arrive) = Length(time) + Length(leave)
  BY <1>5, AddStretches
<1> HIDE DEF arrive
<1>7. PICK a \in 0 .. 30, b \in 0 .. 23, c \in 0 .. 59 :
        a = arrive.day /\ b = arrive.hour /\ c = arrive.minute
  BY <1>6 DEF Stretch
<1>8. arrive \in AnyClock /\ arrive.month = 0 /\ Length(arrive) = (a * 24 + b) * 60 + c
  <2>1. arrive \in AnyClock /\ arrive.month = 0
    BY <1>6 DEF Stretch, AnyClock
  <2>2. Length(arrive) = (a * 24 + b) * 60 + c
    BY <1>7 DEF Length
  <2>3. QED
    BY <2>1, <2>2
<1>9. (a * 24 + b) * 60 + c = ((d * 24 + h) * 60 + i) + ((0 * 24 + j) * 60 + k)
  BY <1>4, <1>6, <1>8
<1>10. Minus(arrive, leave) = time
  <2>1. PICK rest : rest = Minus(arrive, leave)
    OBVIOUS
  <2>2. Borrowed(arrive, leave) = 0
    BY <1>3, <1>8 DEF Borrowed
  <2>3. /\ rest \in AnyClock /\ rest.hour \in 0 .. 23 /\ rest.minute \in 0 .. 59
        /\ rest.month = arrive.month - leave.month - 0
        /\ Length(rest) = Length(arrive) - Length(leave) + 0 * 24 * 60
    BY <1>2, <1>3, <1>7, <1>8, <2>1, <2>2, MinusFacts
  <2>4. rest.month = time.month /\ Length(rest) = Length(time)
    BY <1>3, <1>4, <1>6, <1>8, <2>3
  <2>5. QED
    BY <1>1, <1>3, <2>1, <2>3, <2>4, SameLength
<1>11. Minus(Add(arrive, date), Add(leave, date)) = time
  <2>1. PICK to, from : to = Add(arrive, date) /\ from = Add(leave, date)
    OBVIOUS
  <2>2. PICK m \in 6 .. 8, e \in 1 .. 31 :
          /\ m = date.month /\ e = date.day /\ e <= InMonth(m)
          /\ date.hour = 0 /\ date.minute = 0
    BY DEF Date
  <2>3. InMonth(m) = (IF m = 6 THEN 30 ELSE 31)
    BY DEF InMonth
  <2>4. from = Clock(m, e, j, k)
    <3>1. leave.day + date.day = e
      BY <2>2
    <3>2. QED
      BY <1>2, <2>1, <2>2, <3>1, AddToDate
  <2>5. from \in AnyClock /\ from.month = m /\ from.day = e /\ from.hour = j /\ from.minute = k
    BY <2>4, IsClock, ClockFields
  <2>6. /\ to \in AnyClock /\ to.hour = b /\ to.minute = c
        /\ \/ to.month = m /\ to.day = a + e
           \/ to.month = m + 1 /\ to.day = (a + e) - InMonth(m)
    BY <1>6, <1>7, <2>1, <2>2, DateAndTime
  <2>7. PICK rest : rest = Minus(to, from)
    OBVIOUS
  <2>8. /\ rest \in AnyClock /\ rest.hour \in 0 .. 23 /\ rest.minute \in 0 .. 59
        /\ rest.month = to.month - from.month - (IF Borrowed(to, from) = 0 THEN 0 ELSE 1)
        /\ rest.day = Days(to, from) + Borrowed(to, from)
        /\ Length(rest) = Length(to) - Length(from) + Borrowed(to, from) * 24 * 60
    BY <1>2, <1>7, <2>5, <2>6, <2>7, MinusFacts
  <2>9. PICK s \in 0 .. 1 : s = Short(to, from) /\ a - s = d
    <3>1. Under(to, from) = (IF c < k THEN 1 ELSE 0)
      BY <2>5, <2>6 DEF Under
    <3>2. Short(to, from) = (IF b - j - (IF c < k THEN 1 ELSE 0) < 0 THEN 1 ELSE 0)
      BY <2>5, <2>6, <3>1 DEF Short
    <3>3. a - (IF b - j - (IF c < k THEN 1 ELSE 0) < 0 THEN 1 ELSE 0) = d
      BY <1>9
    <3>4. QED
      BY <3>2, <3>3
  <2>10. Length(from) = (e * 24 + j) * 60 + k
    BY <2>5 DEF Length
  <2>11. CASE to.month = m /\ to.day = a + e
    <3>1. Borrowed(to, from) = 0
      BY <2>5, <2>11 DEF Borrowed
    <3>2. rest.month = 0
      BY <2>5, <2>8, <2>11, <3>1
    <3>3. Length(to) = ((a + e) * 24 + b) * 60 + c
      BY <2>6, <2>11 DEF Length
    <3>4. Length(rest) = Length(time)
      BY <1>4, <1>9, <2>8, <2>10, <3>1, <3>3
    <3>5. QED
      BY <1>1, <1>3, <2>1, <2>7, <2>8, <3>2, <3>4, SameLength
  <2>12. CASE to.month = m + 1 /\ to.day = (a + e) - InMonth(m)
    <3>1. Days(to, from) = d - InMonth(m)
      BY <2>3, <2>5, <2>9, <2>12 DEF Days
    <3>2. Borrowed(to, from) = InMonth(m) /\ InMonth(m) \in 30 .. 31
      BY <2>3, <2>5, <2>12, <3>1 DEF Borrowed
    <3>3. rest.month = 0
      BY <2>5, <2>8, <2>12, <3>2
    <3>4. Length(to) = (((a + e) - InMonth(m)) * 24 + b) * 60 + c
      BY <2>6, <2>12 DEF Length
    <3>5. Length(rest) = Length(time)
      BY <1>4, <1>9, <2>8, <2>10, <3>2, <3>4
    <3>6. QED
      BY <1>1, <1>3, <2>1, <2>7, <2>8, <3>3, <3>5, SameLength
  <2>13. QED
    BY <2>6, <2>11, <2>12
<1>12. QED
  BY <1>10, <1>11 DEF arrive

-----------------------------------------------------------------------------
\* The order of clocks is the order of the minutes they count.
LEMMA StretchesInOrder ==
  ASSUME NEW clock \in AnyClock, NEW other \in AnyClock,
         clock.hour \in 0 .. 23, clock.minute \in 0 .. 59,
         other.hour \in 0 .. 23, other.minute \in 0 .. 59,
         clock.month = other.month
  PROVE  /\ Compare(clock, other) < 0 <=> Length(clock) < Length(other)
         /\ Compare(clock, other) = 0 <=> clock = other
<1>1. PICK d \in Int, h \in 0 .. 23, i \in 0 .. 59 :
        d = clock.day /\ h = clock.hour /\ i = clock.minute
  BY DEF AnyClock
<1>2. PICK e \in Int, j \in 0 .. 23, k \in 0 .. 59 :
        e = other.day /\ j = other.hour /\ k = other.minute
  BY DEF AnyClock
<1>3. Compare(clock, other) = (IF d # e THEN d - e ELSE IF h # j THEN h - j ELSE i - k)
  BY <1>1, <1>2 DEF Compare
<1>4. Length(clock) = (d * 24 + h) * 60 + i /\ Length(other) = (e * 24 + j) * 60 + k
  BY <1>1, <1>2 DEF Length
<1>5. Compare(clock, other) < 0 <=> Length(clock) < Length(other)
  BY <1>3, <1>4
<1>6. Compare(clock, other) = 0 => d = e /\ h = j /\ i = k
  BY <1>3
<1>7. clock = other => Compare(clock, other) = 0
  BY <1>1, <1>2, <1>3
<1>8. QED
  BY <1>1, <1>2, <1>5, <1>6, <1>7, SameClock

\* Compare orders the dates as the days are counted: the tests of ReleaseTrain,
\* buy_ticket and query_ticket against the season of sale are those that
\* TrainSystem makes on day numbers.
THEOREM DatesInOrder ==
  ASSUME NEW clock \in AnyClock, NEW other \in AnyClock,
         IsDate(clock), IsDate(other),
         clock.hour \in 0 .. 23, clock.minute \in 0 .. 59,
         other.hour \in 0 .. 23, other.minute \in 0 .. 59
  PROVE  /\ Compare(clock, other) < 0 <=> Count(clock) < Count(other)
         /\ Compare(clock, other) = 0 <=> Count(clock) = Count(other)
<1>1. PICK m \in 6 .. 9, d \in 1 .. 31, h \in 0 .. 23, i \in 0 .. 59 :
        /\ m = clock.month /\ d = clock.day /\ h = clock.hour /\ i = clock.minute
        /\ d <= InMonth(m)
  <2>1. clock.month \in 6 .. 9 /\ clock.day \in 1 .. InMonth(clock.month)
    BY DEF IsDate
  <2>2. clock.day \in 1 .. 31 /\ clock.day <= InMonth(clock.month)
    BY <2>1 DEF InMonth
  <2>3. QED
    BY <2>1, <2>2
<1>2. PICK n \in 6 .. 9, e \in 1 .. 31, j \in 0 .. 23, k \in 0 .. 59 :
        /\ n = other.month /\ e = other.day /\ j = other.hour /\ k = other.minute
        /\ e <= InMonth(n)
  <2>1. other.month \in 6 .. 9 /\ other.day \in 1 .. InMonth(other.month)
    BY DEF IsDate
  <2>2. other.day \in 1 .. 31 /\ other.day <= InMonth(other.month)
    BY <2>1 DEF InMonth
  <2>3. QED
    BY <2>1, <2>2
<1>3. Compare(clock, other) =
        IF m # n THEN m - n ELSE IF d # e THEN d - e ELSE IF h # j THEN h - j ELSE i - k
  BY <1>1, <1>2 DEF Compare
<1> DEFINE p == DaysBefore(m) - 1
           q == DaysBefore(n) - 1
<1>4. /\ Count(clock) = (d * 24 + h) * 60 + i + p * 24 * 60
      /\ Count(other) = (e * 24 + j) * 60 + k + q * 24 * 60
  BY <1>1, <1>2 DEF Count, Length
<1>5. p \in Int /\ q \in Int /\ (m = n => p = q) /\ (m < n => p + d <= q) /\ (n < m => q + e <= p)
  <2>1. /\ DaysBefore(6) = 0 /\ DaysBefore(7) = 30 /\ DaysBefore(8) = 61
        /\ DaysBefore(9) = 92
    BY DEF DaysBefore
  <2>2. InMonth(6) = 30 /\ InMonth(7) = 31 /\ InMonth(8) = 31 /\ InMonth(9) = 30
    BY DEF InMonth
  <2>3. (m = 6 \/ m = 7 \/ m = 8 \/ m = 9) /\ (n = 6 \/ n = 7 \/ n = 8 \/ n = 9)
    OBVIOUS
  <2>4. d <= InMonth(m) /\ e <= InMonth(n)
    BY <1>1, <1>2
  <2>5. QED
    BY <2>1, <2>2, <2>3, <2>4
<1> HIDE DEF p, q
<1>6. CASE m = n
  BY <1>3, <1>4, <1>5, <1>6
<1>7. CASE m < n
  <2>1. Compare(clock, other) < 0
    BY <1>3, <1>7
  <2>2. Count(clock) < Count(other)
    BY <1>4, <1>5, <1>7
  <2>3. QED
    BY <1>3, <1>4, <1>5, <1>7, <2>1, <2>2
<1>8. CASE n < m
  <2>1. Compare(clock, other) > 0
    BY <1>3, <1>8
  <2>2. Count(clock) > Count(other)
    BY <1>4, <1>5, <1>8
  <2>3. QED
    BY <1>3, <1>4, <1>5, <1>8, <2>1, <2>2
<1>9. QED
  BY <1>6, <1>7, <1>8

-----------------------------------------------------------------------------
\* The invariant: today is a date of the season, offset is a stretch of time
\* within the bound.
IInv ==
  /\ today \in Date
  /\ offset \in Stretch /\ Length(offset) < Longest + Step

LEMMA OneDayFacts == OneDay \in Stretch /\ OneDay.day = 1 /\ OneDay.hour = 0 /\ OneDay.minute = 0
<1>1. /\ OneDay \in AnyClock /\ OneDay.month = 0 /\ OneDay.day = 1 /\ OneDay.hour = 0
      /\ OneDay.minute = 0
  BY IsClock, ClockFields DEF OneDay
<1>2. QED
  BY <1>1 DEF AnyClock, Stretch

\* The day after a date before the last of the season is another.
LEMMA DayAfter ==
  ASSUME NEW date \in Date, Compare(date, LastDay) < 0
  PROVE  Add(date, OneDay) \in Date /\ Count(Add(date, OneDay)) = Count(date) + 24 * 60
<1>1. PICK m \in 6 .. 8, e \in 1 .. 31 :
        /\ m = date.month /\ e = date.day /\ e <= InMonth(m)
        /\ date.hour = 0 /\ date.minute = 0 /\ date \in AnyClock
  BY DEF Date, AnyClock
<1>2. InMonth(m) = (IF m = 6 THEN 30 ELSE 31)
  BY DEF InMonth
<1>3. OneDay \in AnyClock
  BY OneDayFacts DEF Stretch, AnyClock
<1>4. PICK next : next = Add(OneDay, date)
  OBVIOUS
<1>5. Add(date, OneDay) = next
  BY <1>1, <1>3, <1>4, AddCommutes
<1>6. /\ next \in AnyClock /\ next.hour = 0 /\ next.minute = 0
      /\ Count(next) = Count(date) + Length(OneDay)
      /\ \/ next.month = m /\ next.day = 1 + e
         \/ next.month = m + 1 /\ next.day = (1 + e) - InMonth(m)
      /\ IsDate(next)
  BY <1>1, <1>4, OneDayFacts, DateAndTime
<1>7. ~(m = 8 /\ e = 31)
  <2>1. SUFFICES ASSUME m = 8, e = 31 PROVE FALSE
    OBVIOUS
  <2>2. LastDay.month = 8 /\ LastDay.day = 31 /\ LastDay.hour = 0 /\ LastDay.minute = 0
    BY ClockFields DEF LastDay
  <2>3. Compare(date, LastDay) = 0
    BY <1>1, <2>1, <2>2 DEF Compare
  <2>4. QED
    BY <2>3
<1>8. /\ next.month \in 6 .. 8 /\ next.day \in 1 .. 31 /\ next.day <= InMonth(next.month)
  <2>1. next.month \in 6 .. 9 /\ next.day \in 1 .. InMonth(next.month)
    BY <1>6 DEF IsDate
  <2>2. next.day \in 1 .. 31 /\ next.day <= InMonth(next.month)
    BY <2>1 DEF InMonth
  <2>3. next.month # 9
    <3>1. SUFFICES ASSUME next.month = 9 PROVE FALSE
      OBVIOUS
    <3>2. m = 8 /\ next.day = (1 + e) - InMonth(m)
      BY <1>6, <3>1
    <3>3. e <= 30 /\ InMonth(m) = 31
      BY <1>1, <1>2, <1>7, <3>2
    <3>4. QED
      BY <2>1, <2>2, <3>2, <3>3
  <2>4. QED
    BY <2>1, <2>2, <2>3
<1>9. next \in Date
  BY <1>6, <1>8 DEF Date, AnyClock
<1>10. Length(OneDay) = 24 * 60
  BY OneDayFacts DEF Length
<1>11. QED
  BY <1>5, <1>6, <1>9, <1>10

LEMMA InitIInv == Init => IInv
<1> SUFFICES ASSUME Init PROVE IInv
  OBVIOUS
<1>1. today \in Date
  <2>1. /\ FirstDay \in AnyClock /\ FirstDay.month = 6 /\ FirstDay.day = 1
        /\ FirstDay.hour = 0 /\ FirstDay.minute = 0
    BY IsClock, ClockFields DEF FirstDay
  <2>2. QED
    BY <2>1 DEF Init, Date, AnyClock, InMonth
<1>2. FromMinutes(0) \in Stretch /\ Length(FromMinutes(0)) = 0
  BY FromMinutesFacts
<1>3. 0 < Longest + Step
  BY StepAssumption
<1>4. QED
  BY <1>1, <1>2, <1>3 DEF Init, IInv

LEMMA NextIInv == IInv /\ [Next]_vars => IInv'
<1> SUFFICES ASSUME IInv, [Next]_vars PROVE IInv'
  OBVIOUS
<1>1. CASE NextDay
  <2>1. today' \in Date
    BY <1>1, DayAfter DEF NextDay, IInv
  <2>2. QED
    BY <1>1, <2>1 DEF NextDay, IInv
<1>2. CASE NextStop
  <2>1. PICK time : time = offset
    OBVIOUS
  <2>2. time \in Stretch /\ Compare(time, FromMinutes(Longest)) < 0
    BY <1>2, <2>1 DEF IInv, NextStop
  <2>3. /\ time \in AnyClock /\ time.month = 0 /\ time.hour \in 0 .. 23
        /\ time.minute \in 0 .. 59
    BY <2>2 DEF Stretch, AnyClock
  <2>4. Length(time) < Longest
    BY <2>2, <2>3, StepAssumption, FromMinutesFacts, StretchesInOrder
  <2>5. Length(time) \in Nat
    <3>1. PICK d \in 0 .. 30, h \in 0 .. 23, i \in 0 .. 59 :
            d = time.day /\ h = time.hour /\ i = time.minute
      BY <2>2 DEF Stretch
    <3>2. Length(time) = (d * 24 + h) * 60 + i
      BY <3>1 DEF Length
    <3>3. QED
      BY <3>2
  <2>6. Step \in Nat /\ Step < 31 * 24 * 60 /\ Step + Length(time) < Longest + Step
        /\ Step + Length(time) < 31 * 24 * 60
    BY <2>4, <2>5, StepAssumption, MonthAssumption
  <2>7. FromMinutes(Step) \in Stretch /\ Length(FromMinutes(Step)) = Step
    BY <2>6, FromMinutesFacts
  <2>8. /\ Add(FromMinutes(Step), time) \in Stretch
        /\ Length(Add(FromMinutes(Step), time)) = Step + Length(time)
    BY <2>2, <2>6, <2>7, AddStretches
  <2>9. offset' = Add(FromMinutes(Step), time) /\ today' = today
    BY <1>2, <2>1 DEF NextStop
  <2>10. QED
    BY <2>6, <2>8, <2>9 DEF IInv
<1>3. CASE UNCHANGED vars
  BY <1>3 DEF vars, IInv
<1>4. QED
  BY <1>1, <1>2, <1>3 DEF Next

LEMMA Invariance == Spec => []IInv
<1>1. QED
  BY InitIInv, NextIInv, PTL DEF Spec

\* In every run of the clock today is a date of the season and offset a
\* stretch of time (Addit keeps them so).
THEOREM TypeCorrect == Spec => []TypeOK
<1>1. IInv => TypeOK
  <2> SUFFICES ASSUME IInv PROVE TypeOK
    OBVIOUS
  <2>1. /\ today \in AnyClock /\ today.month \in 6 .. 8 /\ today.day \in 1 .. 31
        /\ today.hour = 0 /\ today.minute = 0 /\ today.day <= InMonth(today.month)
    BY DEF IInv, Date, AnyClock
  <2>2. IsDate(today) /\ today.month # 9
    <3>1. InMonth(today.month) \in Int
      BY DEF InMonth
    <3>2. QED
      BY <2>1, <3>1 DEF IsDate
  <2>3. today = CutDate(today)
    <3>1. today.month \in Int /\ today.day \in Int
      BY <2>1
    <3>2. Clock(today.month, today.day, 0, 0) \in AnyClock
      BY <3>1, IsClock
    <3>3. QED
      BY <2>1, <3>2, ClockFields, SameClock DEF CutDate
  <2>4. /\ offset.month = 0 /\ offset.day \in Nat
        /\ offset.hour \in 0 .. 23 /\ offset.minute \in 0 .. 59
    BY DEF IInv, Stretch
  <2>5. QED
    BY <2>2, <2>3, <2>4 DEF TypeOK
<1>2. QED
  BY <1>1, Invariance, PTL

\* Adding an offset to a day of the season arrives at the date and time that
\* the calendar says (Addit and its three carries).
THEOREM ClockFollowsCalendar == Spec => []AddFollowsCalendar
<1>1. IInv => AddFollowsCalendar
  BY DateAndTime DEF IInv, AddFollowsCalendar
<1>2. QED
  BY <1>1, Invariance, PTL

\* From the day a train leaves a station back to the day it left its first one
\* (Minus of DeltaDay in buy_ticket and query_ticket).
THEOREM StationDayLeadsBack == Spec => []BoardingDayLeadsBack
<1>1. IInv => BoardingDayLeadsBack
  BY DaysLeadBack DEF IInv, BoardingDayLeadsBack
<1>2. QED
  BY <1>1, Invariance, PTL

\* The time between a departure and an arrival comes out right, also when the
\* month ends in between (Minus and its borrowing).
THEOREM JourneysTakeTheirTime == Spec => []JourneysAreMeasured
<1>1. IInv => JourneysAreMeasured
  <2> SUFFICES ASSUME IInv, NEW minutes \in LeaveTimes, offset.day < 30
               PROVE  LET leave == FromMinutes(minutes)
                          arrive == Add(offset, leave)
                      IN /\ Minus(arrive, leave) = offset
                         /\ Minus(Add(arrive, today), Add(leave, today)) = offset
    BY DEF JourneysAreMeasured
  <2>1. minutes \in Nat /\ minutes < 24 * 60
    BY DEF LeaveTimes
  <2>2. PICK leave \in Stretch : leave = FromMinutes(minutes) /\ Length(leave) = minutes
    BY <2>1, FromMinutesFacts
  <2>3. leave.day = 0
    <3>1. PICK d \in 0 .. 30, h \in 0 .. 23, i \in 0 .. 59 :
            d = leave.day /\ h = leave.hour /\ i = leave.minute
      BY DEF Stretch
    <3>2. (d * 24 + h) * 60 + i = minutes
      BY <2>2, <3>1 DEF Length
    <3>3. QED
      BY <2>1, <3>1, <3>2
  <2>4. offset \in Stretch /\ today \in Date
    BY DEF IInv
  <2>5. QED
    BY <2>2, <2>3, <2>4, TimeBetween
<1>2. QED
  BY <1>1, Invariance, PTL

\* The loop of ReleaseTrain opens every day of the season, each once: a date is
\* followed by that of the next day (Addit of one_day).
DayByDay == today' # today => Count(today') = Count(today) + 24 * 60

THEOREM SeasonGoesDayByDay == Spec => [][DayByDay]_vars
<1>1. IInv /\ [Next]_vars => [DayByDay]_vars
  <2> SUFFICES ASSUME IInv, Next PROVE DayByDay
    BY DEF vars, DayByDay
  <2>1. CASE NextDay
    <3>1. PICK date \in Date : date = today
      BY DEF IInv
    <3>2. Compare(date, LastDay) < 0 /\ today' = Add(date, OneDay)
      BY <2>1, <3>1 DEF NextDay
    <3>3. Count(Add(date, OneDay)) = Count(date) + 24 * 60
      BY <3>2, DayAfter
    <3>4. QED
      BY <3>1, <3>2, <3>3 DEF DayByDay
  <2>2. CASE NextStop
    BY <2>2 DEF NextStop, DayByDay
  <2>3. QED
    BY <2>1, <2>2 DEF Next
<1>2. QED
  BY <1>1, Invariance, PTL DEF Spec
=============================================================================
