-------------------------- MODULE TimeSequenceProofs --------------------------
(***************************************************************************)
(* Proofs about time sequences: the calendar of std::chrono, the counts of *)
(* steps, the ends of the object, and what cutting, growing, seeking and   *)
(* pushing leave.                                                          *)
(*                                                                         *)
(* Every argument goes through two numbers of an instant: the number of    *)
(* its month, whose first day is First, and the seconds of its day         *)
(* (Parts).  AddMonths moves the first and keeps the second; that          *)
(* year_month_day inverts sys_days (DateIs) and that months begin in order *)
(* (MonthsInOrder) is all the calendar that the rest uses.                 *)
(***************************************************************************)
EXTENDS TimeText, TLAPS

-----------------------------------------------------------------------------
(* The calendar *)

(* Days before a year of the era, but for those of the 400th. *)
G(y) == 365 * y + y \div 4 - y \div 100

(* A century: its years begin where the days say. *)
LEMMA CenturyYear ==
  ASSUME NEW c \in Int, 0 <= c, c <= 3, NEW r \in Int, 0 <= r, r <= 36523,
         NEW s \in Int, s = (24 * c + r) \div 1460,
         NEW x \in Int, x = (r - s) \div 365
  PROVE  /\ 0 <= x /\ x <= 99 /\ 365 * x + x \div 4 <= r
         /\ r < 365 * (x + 1) + (x + 1) \div 4
  <1>1. 1460 * s <= 24 * c + r /\ 24 * c + r < 1460 * s + 1460
    OBVIOUS
  <1>2. 365 * x <= r - s /\ r - s < 365 * x + 365
    OBVIOUS
  <1>3. 0 <= s /\ s <= 25
    BY <1>1
  <1>4. 0 <= x /\ x <= 100
    BY <1>2, <1>3, <1>1
  <1>5. PICK w \in Int : w = x \div 4 /\ 4 * w <= x /\ x < 4 * w + 4
    BY <1>4
  <1>6. PICK v \in Int : v = (x + 1) \div 4 /\ 4 * v <= x + 1 /\ x + 1 < 4 * v + 4
    BY <1>4
  <1>7. w <= s
    BY <1>1, <1>2, <1>3, <1>5
  <1>8. s <= v
    BY <1>1, <1>2, <1>3, <1>6
  <1>9. x <= 99
    BY <1>1, <1>2, <1>3
  <1>. QED BY <1>2, <1>4, <1>5, <1>6, <1>7, <1>8, <1>9

YearOf(doe) == (doe - doe \div 1460 + doe \div 36524 - doe \div 146096) \div 365

(* std::chrono's year of a day of the era: the day is in it. *)
LEMMA YearOfEra ==
  ASSUME NEW doe \in Int, 0 <= doe, doe <= 146096, NEW yoe, yoe = YearOf(doe)
  PROVE  /\ yoe \in Int /\ 0 <= yoe /\ yoe <= 399 /\ G(yoe) <= doe
         /\ yoe < 399 => doe < G(yoe + 1)
  <1>1. PICK c \in Int : c = doe \div 36524 /\ 36524 * c <= doe /\ doe < 36524 * c + 36524
    OBVIOUS
  <1>2. 0 <= c /\ c <= 4
    BY <1>1
  <1>3. CASE c = 4
    <2>1. doe = 146096
      BY <1>1, <1>3
    <2>2. yoe = 399
      BY <2>1 DEF YearOf
    <2>. QED BY <2>1, <2>2 DEF G
  <1>4. CASE c <= 3
    <2>1. PICK r \in Int : doe = 36524 * c + r /\ 0 <= r /\ r <= 36523
      BY <1>1
    <2>2. PICK s \in Int : s = (24 * c + r) \div 1460
      OBVIOUS
    <2>3. doe \div 1460 = 25 * c + s
      BY <2>1, <2>2
    <2>4. doe \div 146096 = 0
      BY <1>1, <1>4, <2>1
    <2>5. PICK x \in Int : x = (r - s) \div 365
      OBVIOUS
    <2>6. /\ 0 <= x /\ x <= 99 /\ 365 * x + x \div 4 <= r
          /\ r < 365 * (x + 1) + (x + 1) \div 4
      BY <1>2, <1>4, <2>1, <2>2, <2>5, CenturyYear
    <2>7. yoe = 100 * c + x
      <3>1. yoe = (doe - (25 * c + s) + c - 0) \div 365
        BY <1>1, <2>3, <2>4 DEF YearOf
      <3>2. yoe = (36500 * c + (r - s)) \div 365
        BY <2>1, <3>1
      <3>3. 365 * x <= r - s /\ r - s < 365 * x + 365
        BY <2>5
      <3>. QED BY <3>2, <3>3
    <2>8. G(yoe) = 36524 * c + 365 * x + x \div 4
      BY <2>6, <2>7 DEF G
    <2>9. CASE x < 99
      <3>1. G(yoe + 1) = 36524 * c + 365 * (x + 1) + (x + 1) \div 4
        BY <2>6, <2>7, <2>9 DEF G
      <3>. QED BY <1>2, <1>4, <2>1, <2>6, <2>7, <2>8, <3>1
    <2>10. CASE x = 99
      <3>1. yoe + 1 = 100 * (c + 1)
        BY <2>7, <2>10
      <3>2. G(yoe + 1) = 36524 * (c + 1)
        BY <3>1 DEF G
      <3>. QED BY <1>2, <1>4, <2>1, <2>6, <2>7, <2>8, <3>1, <3>2
    <2>. QED BY <2>6, <2>9, <2>10
  <1>. QED BY <1>2, <1>3, <1>4

(* The first day of month i, counted from January of the year 0. *)
First(i) == sys_days(i \div 12, (i % 12) + 1, 1)

MonthOf(c) == c.y * 12 + c.m - 1

LEMMA MonthsInOrder ==
  ASSUME NEW i \in Int
  PROVE  First(i) \in Int /\ First(i) + 28 <= First(i + 1)
  <1>1. First(i) \in Int
    BY DEF First, sys_days
  <1>2. First(i + 1) - First(i) >= 28
    BY DEF First, sys_days
  <1>3. First(i + 1) \in Int
    BY DEF First, sys_days
  <1>. QED BY <1>1, <1>2, <1>3

LEMMA MonthBefore ==
  ASSUME NEW i \in Int, NEW j \in Int, i < j
  PROVE  First(i + 1) <= First(j)
  BY DEF First, sys_days

(* A day of a month is that many days after the first. *)
LEMMA DayOfIs ==
  ASSUME NEW y \in Int, NEW m \in Int, 1 <= m, m <= 12, NEW d \in Int
  PROVE  sys_days(y, m, d) = First(y * 12 + m - 1) + d - 1
  <1>1. (y * 12 + m - 1) \div 12 = y /\ ((y * 12 + m - 1) % 12) + 1 = m
    OBVIOUS
  <1>2. First(y * 12 + m - 1) = sys_days(y, m, 1)
    BY <1>1 DEF First
  <1>3. sys_days(y, m, d) = sys_days(y, m, 1) + d - 1
    BY DEF sys_days
  <1>. QED BY <1>2, <1>3

MarchYear(y, m) == IF m <= 2 THEN y - 1 ELSE y

LEMMA SysDaysIs ==
  ASSUME NEW y \in Int, NEW m \in Int, NEW d \in Int
  PROVE  sys_days(y, m, d) = (MarchYear(y, m) \div 400) * 146097 + G(MarchYear(y, m) % 400)
                             + (153 * ((m + 9) % 12) + 2) \div 5 + d - 1 - 719468
  BY DEF sys_days, G, MarchYear

(* year_month_day, with its parts named. *)
FromMarch(y, mp, doy) ==
  [y |-> IF mp < 10 THEN y ELSE y + 1, m |-> IF mp < 10 THEN mp + 3 ELSE mp - 9,
   d |-> doy - (153 * mp + 2) \div 5 + 1]

OfYear(y, doy) == FromMarch(y, (5 * doy + 2) \div 153, doy)

OfDayOfEra(era, doe) ==
  OfYear(era * 400 + YearOf(doe),
         doe - (365 * YearOf(doe) + YearOf(doe) \div 4 - YearOf(doe) \div 100))

LEMMA DateParts ==
  ASSUME NEW z \in Int
  PROVE  year_month_day(z) = OfDayOfEra((z + 719468) \div 146097, (z + 719468) % 146097)
  BY DEF year_month_day, OfDayOfEra, OfYear, FromMarch, YearOf

(* A date is a day of its month, and the day it was made of. *)
LEMMA DateIs ==
  ASSUME NEW z \in Int, NEW c, c = year_month_day(z)
  PROVE  /\ c.y \in Int /\ c.m \in Int /\ 1 <= c.m /\ c.m <= 12 /\ c.d \in Int /\ 1 <= c.d
         /\ DayOf(c) = z /\ z = First(MonthOf(c)) + c.d - 1 /\ z < First(MonthOf(c) + 1)
  <1>1. PICK era \in Int, doe \in Int :
          /\ era = (z + 719468) \div 146097 /\ doe = (z + 719468) % 146097
          /\ z + 719468 = era * 146097 + doe /\ 0 <= doe /\ doe <= 146096
    OBVIOUS
  <1>2. PICK yoe : yoe = YearOf(doe)
    OBVIOUS
  <1>3. /\ yoe \in Int /\ 0 <= yoe /\ yoe <= 399 /\ G(yoe) <= doe
        /\ yoe < 399 => doe < G(yoe + 1)
    BY <1>1, <1>2, YearOfEra
  <1>4. PICK doy \in Int : /\ doy = doe - (365 * yoe + yoe \div 4 - yoe \div 100)
                           /\ 0 <= doy /\ doy <= 365
    <2>1. 0 <= doe - G(yoe) /\ doe - G(yoe) <= 365
      <3>1. CASE yoe < 399
        <4>1. G(yoe + 1) - G(yoe) <= 366
          BY <1>3 DEF G
        <4>. QED BY <1>3, <3>1, <4>1 DEF G
      <3>2. CASE yoe = 399
        <4>1. G(yoe) = 145731
          BY <3>2 DEF G
        <4>. QED BY <1>1, <1>3, <4>1
      <3>. QED BY <1>3, <3>1, <3>2
    <2>. QED BY <1>3, <2>1 DEF G
  <1>5. PICK mp \in Int : mp = (5 * doy + 2) \div 153 /\ 0 <= mp /\ mp <= 11
    BY <1>4
  <1>6. PICK e \in Int : e = (153 * mp + 2) \div 5 /\ e <= doy
    BY <1>4, <1>5
  <1>7. PICK Y \in Int : Y = era * 400 + yoe
    BY <1>3
  <1>8. c = [y |-> IF mp < 10 THEN Y ELSE Y + 1, m |-> IF mp < 10 THEN mp + 3 ELSE mp - 9,
             d |-> doy - e + 1]
    <2>1. c = OfDayOfEra(era, doe)
      BY <1>1, DateParts
    <2>2. c = OfYear(Y, doy)
      BY <1>2, <1>4, <1>7, <2>1 DEF OfDayOfEra
    <2>3. c = FromMarch(Y, mp, doy)
      BY <1>5, <2>2 DEF OfYear
    <2>. QED BY <1>6, <2>3 DEF FromMarch
  <1>9. /\ c.y = (IF mp < 10 THEN Y ELSE Y + 1) /\ c.m = (IF mp < 10 THEN mp + 3 ELSE mp - 9)
        /\ c.d = doy - e + 1
    BY <1>8
  <1>10. c.y \in Int /\ c.m \in Int /\ 1 <= c.m /\ c.m <= 12 /\ c.d \in Int /\ 1 <= c.d
    BY <1>5, <1>6, <1>9
  <1>11. Y \div 400 = era /\ Y % 400 = yoe
    BY <1>3, <1>7
  <1>12. DayOf(c) = z
    <2>1. MarchYear(c.y, c.m) = Y /\ (c.m + 9) % 12 = mp
      BY <1>5, <1>9 DEF MarchYear
    <2>2. DayOf(c) = (Y \div 400) * 146097 + G(Y % 400) + (153 * ((c.m + 9) % 12) + 2) \div 5
                     + c.d - 1 - 719468
      <3>1. sys_days(c.y, c.m, c.d)
              = (MarchYear(c.y, c.m) \div 400) * 146097 + G(MarchYear(c.y, c.m) % 400)
                + (153 * ((c.m + 9) % 12) + 2) \div 5 + c.d - 1 - 719468
        <4>1. PICK y \in Int, m \in Int, d \in Int : y = c.y /\ m = c.m /\ d = c.d
          BY <1>10
        <4>2. sys_days(y, m, d) = (MarchYear(y, m) \div 400) * 146097 + G(MarchYear(y, m) % 400)
                                  + (153 * ((m + 9) % 12) + 2) \div 5 + d - 1 - 719468
          BY SysDaysIs
        <4>. QED BY <4>1, <4>2
      <3>. QED BY <2>1, <3>1 DEF DayOf
    <2>3. DayOf(c) = era * 146097 + G(yoe) + e + c.d - 1 - 719468
      BY <1>6, <1>11, <2>1, <2>2
    <2>. QED BY <1>1, <1>3, <1>4, <1>6, <1>9, <2>3 DEF G
  <1>13. z = First(MonthOf(c)) + c.d - 1
    <2>1. DayOf(c) = First(c.y * 12 + c.m - 1) + c.d - 1
      <3>1. sys_days(c.y, c.m, c.d) = First(c.y * 12 + c.m - 1) + c.d - 1
        <4>1. PICK y \in Int, m \in Int, d \in Int : y = c.y /\ m = c.m /\ d = c.d /\ 1 <= m /\ m <= 12
          BY <1>10
        <4>2. sys_days(y, m, d) = First(y * 12 + m - 1) + d - 1
          <5>1. 1 <= m /\ m <= 12
            BY <4>1
          <5>. QED BY <5>1, DayOfIs
        <4>. QED BY <4>1, <4>2
      <3>. QED BY <3>1 DEF DayOf
    <2>. QED BY <1>12, <2>1 DEF MonthOf
  <1>14. z < First(MonthOf(c) + 1)
    <2>1. CASE mp < 11
      <3>1. doy < (153 * (mp + 1) + 2) \div 5
        BY <1>4, <1>5
      <3>2. PICK y \in Int, m \in Int : /\ y = (IF mp + 1 < 10 THEN Y ELSE Y + 1)
                                        /\ m = (IF mp + 1 < 10 THEN mp + 4 ELSE mp - 8)
        OBVIOUS
      <3>3. /\ 1 <= m /\ m <= 12 /\ MarchYear(y, m) = Y /\ (m + 9) % 12 = mp + 1
            /\ MonthOf(c) + 1 = y * 12 + m - 1
        BY <1>5, <1>9, <2>1, <3>2 DEF MonthOf, MarchYear
      <3>4. First(MonthOf(c) + 1) = sys_days(y, m, 1)
        <4>1. sys_days(y, m, 1) = First(y * 12 + m - 1) + 1 - 1
          BY <3>3, DayOfIs
        <4>2. First(y * 12 + m - 1) \in Int
          BY MonthsInOrder, y * 12 + m - 1 \in Int
        <4>. QED BY <3>3, <4>1, <4>2
      <3>5. sys_days(y, m, 1) = (Y \div 400) * 146097 + G(Y % 400) + (153 * ((m + 9) % 12) + 2) \div 5
                                + 1 - 1 - 719468
        <4>1. sys_days(y, m, 1) = (MarchYear(y, m) \div 400) * 146097 + G(MarchYear(y, m) % 400)
                                  + (153 * ((m + 9) % 12) + 2) \div 5 + 1 - 1 - 719468
          BY SysDaysIs, 1 \in Int
        <4>. QED BY <3>3, <4>1
      <3>6. sys_days(y, m, 1) = era * 146097 + G(yoe) + (153 * (mp + 1) + 2) \div 5 - 719468
        <4>1. G(yoe) \in Int
          BY <1>3 DEF G
        <4>. QED BY <1>11, <3>3, <3>5, <4>1
      <3>. QED BY <1>1, <1>3, <1>4, <3>1, <3>4, <3>6 DEF G
    <2>2. CASE mp = 11
      <3>1. MonthOf(c) + 1 = (Y + 1) * 12 + 3 - 1
        BY <1>9, <2>2 DEF MonthOf
      <3>2. First(MonthOf(c) + 1) = sys_days(Y + 1, 3, 1)
        <4>1. sys_days(Y + 1, 3, 1) = First((Y + 1) * 12 + 3 - 1) + 1 - 1
          BY Y + 1 \in Int, DayOfIs
        <4>2. First((Y + 1) * 12 + 3 - 1) \in Int
          BY MonthsInOrder, (Y + 1) * 12 + 3 - 1 \in Int
        <4>. QED BY <3>1, <4>1, <4>2
      <3>3. sys_days(Y + 1, 3, 1) = ((Y + 1) \div 400) * 146097 + G((Y + 1) % 400) - 719468
        BY DEF sys_days, G
      <3>4. CASE yoe < 399
        <4>1. (Y + 1) \div 400 = era /\ (Y + 1) % 400 = yoe + 1
          BY <1>3, <1>7, <3>4
        <4>2. G(yoe + 1) \in Int
          BY <1>3 DEF G
        <4>. QED BY <1>1, <1>3, <3>2, <3>3, <3>4, <4>1, <4>2
      <3>5. CASE yoe = 399
        <4>1. (Y + 1) \div 400 = era + 1 /\ (Y + 1) % 400 = 0
          BY <1>7, <3>5
        <4>2. G(0) = 0
          BY DEF G
        <4>. QED BY <1>1, <3>2, <3>3, <4>1, <4>2
      <3>. QED BY <1>3, <3>4, <3>5
    <2>. QED BY <1>5, <2>1, <2>2
  <1>. QED BY <1>10, <1>12, <1>13, <1>14

-----------------------------------------------------------------------------
(* Counting *)

LEMMA QuotIs ==
  ASSUME NEW p \in Int, 0 <= p, NEW q \in Int, 0 < q
  PROVE  /\ Quot(p, q) \in Int /\ 0 <= Quot(p, q)
         /\ Quot(p, q) * q <= p /\ p < (Quot(p, q) + 1) * q
  <1>1. p \div q \in Int /\ 0 <= p \div q /\ (p \div q) * q <= p /\ p < ((p \div q) + 1) * q
    OBVIOUS
  <1>2. Quot(p, q) = p \div q
    BY <1>1 DEF Quot, Trunc
  <1>. QED BY <1>1, <1>2

(* A month later or earlier, the day of the month stays. *)
LEMMA AddMonthsIs ==
  ASSUME NEW c, c.y \in Int, c.m \in Int, c.d \in Int, NEW k \in Int
  PROVE  DayOf(AddMonths(c, k)) = First(MonthOf(c) + k) + c.d - 1
  <1>1. PICK i \in Int : i = c.y * 12 + c.m - 1 + k
    OBVIOUS
  <1>2. PICK y \in Int, m \in Int, d \in Int : y = i \div 12 /\ m = (i % 12) + 1 /\ d = c.d
    OBVIOUS
  <1>3. 1 <= m /\ m <= 12 /\ y * 12 + m - 1 = i
    BY <1>2
  <1>4. sys_days(y, m, d) = First(y * 12 + m - 1) + d - 1
    <2>1. 1 <= m /\ m <= 12
      BY <1>3
    <2>. QED BY <2>1, DayOfIs
  <1>5. AddMonths(c, k) = [y |-> y, m |-> m, d |-> d]
    BY <1>1, <1>2 DEF AddMonths
  <1>6. DayOf(AddMonths(c, k)) = sys_days(y, m, d)
    BY <1>5 DEF DayOf
  <1>7. MonthOf(c) + k = i
    BY <1>1 DEF MonthOf
  <1>. QED BY <1>2, <1>3, <1>4, <1>6, <1>7

(* The parts of an instant: its date, the month of the date, the time of day. *)
Parts(t, c, i, s) ==
  /\ c = Date(t) /\ i = MonthOf(c) /\ s = TimeOfDay(t)
  /\ c.y \in Int /\ c.m \in Int /\ 1 <= c.m /\ c.m <= 12 /\ c.d \in Int /\ 1 <= c.d
  /\ i \in Int /\ First(i) \in Int /\ s \in Int /\ 0 <= s /\ s < Day
  /\ t = (First(i) + c.d - 1) * Day + s
  /\ First(i) + c.d - 1 < First(i + 1)

LEMMA InstantIs ==
  ASSUME NEW t \in Int
  PROVE  \E c, i, s : Parts(t, c, i, s)
  <1>1. PICK z \in Int : z = t \div Day
    BY DEF Day
  <1>2. PICK c : c = year_month_day(z)
    OBVIOUS
  <1>3. /\ c.y \in Int /\ c.m \in Int /\ 1 <= c.m /\ c.m <= 12 /\ c.d \in Int /\ 1 <= c.d
        /\ z = First(MonthOf(c)) + c.d - 1 /\ z < First(MonthOf(c) + 1)
    BY <1>2, DateIs
  <1>4. c = Date(t)
    BY <1>1, <1>2 DEF Date
  <1>5. PICK i \in Int : i = MonthOf(c)
    BY <1>3 DEF MonthOf
  <1>6. First(i) \in Int
    BY MonthsInOrder
  <1>7. PICK s \in Int : s = TimeOfDay(t) /\ 0 <= s /\ s < Day /\ t = z * Day + s
    BY <1>1 DEF TimeOfDay, Day
  <1>8. Parts(t, c, i, s)
    BY <1>3, <1>4, <1>5, <1>6, <1>7 DEF Parts
  <1>. QED BY <1>8

(* k months after the first instant. *)
LEMMA MonthsAfter ==
  ASSUME NEW t \in Int, NEW c, NEW i, NEW s, Parts(t, c, i, s), NEW k \in Int
  PROVE  DayOf(AddMonths(Date(t), k)) = First(i + k) + c.d - 1
  <1>1. c = Date(t) /\ i = MonthOf(c) /\ c.y \in Int /\ c.m \in Int /\ c.d \in Int
    BY DEF Parts
  <1>2. DayOf(AddMonths(c, k)) = First(MonthOf(c) + k) + c.d - 1
    BY <1>1, AddMonthsIs
  <1>. QED BY <1>1, <1>2

(* The instant k months after a first one, which is not in the last days of *)
(* a month, is not after a later one exactly when k whole months fit.       *)
LEMMA MonthsFit ==
  ASSUME NEW from \in Int, NEW to \in Int, Date(from).d <= 28, NEW k \in Int
  PROVE  /\ MonthsBetween(from, to) \in Int
         /\ DayOf(AddMonths(Date(from), k)) * Day + TimeOfDay(from) <= to <=> k <= MonthsBetween(from, to)
  <1>1. PICK a, i, f : Parts(from, a, i, f)
    BY InstantIs
  <1>2. PICK b, j, g : Parts(to, b, j, g)
    BY InstantIs
  <1>3. /\ a.d \in Int /\ b.d \in Int /\ 1 <= a.d /\ a.d <= 28 /\ 1 <= b.d
        /\ f \in Int /\ g \in Int /\ 0 <= f /\ f < Day /\ 0 <= g /\ g < Day
        /\ i \in Int /\ j \in Int
    BY <1>1, <1>2 DEF Parts
  <1>4. PICK q \in Int, m \in Int : /\ q = IF b.d < a.d \/ (b.d = a.d /\ g < f) THEN 1 ELSE 0
                                    /\ m = j - i - q
    <2>1. PICK q \in Int : q = IF b.d < a.d \/ (b.d = a.d /\ g < f) THEN 1 ELSE 0
      OBVIOUS
    <2>. QED BY <1>3, <2>1
  <1>5. MonthsBetween(from, to) = m
    <2>1. a.y \in Int /\ b.y \in Int /\ a.m \in Int /\ b.m \in Int /\ i = MonthOf(a) /\ j = MonthOf(b)
      BY <1>1, <1>2 DEF Parts
    <2>2. (b.y - a.y) * 12 + b.m - a.m = j - i
      <3>1. PICK p \in Int, w \in Int, u \in Int, v \in Int : p = a.y /\ w = b.y /\ u = a.m /\ v = b.m
        BY <2>1
      <3>2. i = p * 12 + u - 1 /\ j = w * 12 + v - 1
        BY <2>1, <3>1 DEF MonthOf
      <3>3. (w - p) * 12 + v - u = j - i
        BY <3>2
      <3>. QED BY <3>1, <3>3
    <2>3. a = Date(from) /\ b = Date(to) /\ f = TimeOfDay(from) /\ g = TimeOfDay(to)
      BY <1>1, <1>2 DEF Parts
    <2>. QED BY <1>3, <1>4, <2>1, <2>2, <2>3 DEF MonthsBetween
  <1>6. PICK n \in Int, x \in Int, d \in Int : n = i + k /\ x = First(n) /\ d = a.d
    <2>1. PICK n \in Int : n = i + k
      BY <1>3
    <2>2. First(n) \in Int
      BY MonthsInOrder
    <2>. QED BY <1>3, <2>1, <2>2
  <1>7. x + 28 <= First(n + 1) /\ First(n + 1) \in Int
    <2>1. First(n + 1) \in Int
      BY MonthsInOrder, n + 1 \in Int
    <2>. QED BY <1>6, <2>1, MonthsInOrder
  <1>8. PICK y \in Int, e \in Int : y = First(j) /\ e = b.d /\ to = (y + e - 1) * Day + g /\ y + e - 1 < First(j + 1)
    BY <1>2 DEF Parts
  <1>9. DayOf(AddMonths(Date(from), k)) = x + d - 1 /\ TimeOfDay(from) = f
    <2>1. DayOf(AddMonths(Date(from), k)) = First(i + k) + a.d - 1
      BY <1>1, MonthsAfter
    <2>2. TimeOfDay(from) = f
      BY <1>1 DEF Parts
    <2>. QED BY <1>6, <2>1, <2>2
  <1>10. CASE n < j
    <2>1. First(n + 1) <= y
      BY <1>3, <1>8, <1>10, MonthBefore
    <2>2. (x + d - 1) * Day + f <= to
      BY <1>3, <1>6, <1>7, <1>8, <2>1 DEF Day
    <2>3. k <= m
      BY <1>3, <1>4, <1>6, <1>10
    <2>. QED BY <1>5, <1>9, <2>2, <2>3
  <1>11. CASE n = j
    <2>1. x = y
      BY <1>6, <1>8, <1>11
    <2>2. (x + d - 1) * Day + f <= to <=> ~(e < d \/ (e = d /\ g < f))
      <3>1. PICK u \in Int : u = x - 1
        OBVIOUS
      <3>2. to = (u + e) * 86400 + g /\ (x + d - 1) * Day + f = (u + d) * 86400 + f
        BY <1>3, <1>8, <2>1, <3>1 DEF Day
      <3>3. 0 <= f /\ f < 86400 /\ 0 <= g /\ g < 86400
        BY <1>3 DEF Day
      <3>. QED BY <1>3, <3>2, <3>3
    <2>3. k <= m <=> ~(e < d \/ (e = d /\ g < f))
      BY <1>3, <1>4, <1>6, <1>8, <1>11
    <2>. QED BY <1>5, <1>9, <2>2, <2>3
  <1>12. CASE j < n
    <2>1. First(j + 1) <= x
      BY <1>3, <1>6, <1>12, MonthBefore
    <2>2. First(j + 1) \in Int
      BY <1>3, MonthsInOrder, j + 1 \in Int
    <2>3. ~((x + d - 1) * Day + f <= to)
      BY <1>3, <1>6, <1>8, <2>1, <2>2 DEF Day
    <2>4. ~(k <= m)
      BY <1>3, <1>4, <1>6, <1>12
    <2>. QED BY <1>5, <1>9, <2>3, <2>4
  <1>. QED BY <1>3, <1>5, <1>6, <1>10, <1>11, <1>12

-----------------------------------------------------------------------------
(* The greatest number of steps *)

Diffs == [years_ : Int, months_ : Int, days_ : Int, hours_ : Int, minutes_ : Int, seconds_ : Int]

LEMMA DiffNumbers ==
  ASSUME NEW d \in Diffs
  PROVE  /\ Months(d) \in Int /\ TimePart(d) \in Int /\ Seconds(d) \in Int /\ d.days_ \in Int
         /\ ~HasMonths(d) => Months(d) = 0
         /\ ~HasTime(d) => Seconds(d) = 0 /\ d.days_ = 0 /\ TimePart(d) = 0
         /\ Seconds(d) = d.days_ * Day + TimePart(d)
         /\ d # NoDiff => HasMonths(d) \/ HasTime(d)
  <1>1. /\ d.years_ \in Int /\ d.months_ \in Int /\ d.days_ \in Int /\ d.hours_ \in Int
        /\ d.minutes_ \in Int /\ d.seconds_ \in Int
    BY DEF Diffs
  <1>2. Months(d) \in Int /\ (~HasMonths(d) => Months(d) = 0)
    BY <1>1 DEF Months, HasMonths
  <1>3. TimePart(d) \in Int /\ Seconds(d) \in Int
    BY <1>1 DEF TimePart, Seconds, Day
  <1>4. ~HasTime(d) => Seconds(d) = 0 /\ d.days_ = 0 /\ TimePart(d) = 0
    BY <1>1 DEF HasTime, Seconds, TimePart, Day
  <1>5. d # NoDiff => HasMonths(d) \/ HasTime(d)
    BY DEF HasMonths, HasTime, NoDiff, Diff, Diffs
  <1>. QED BY <1>1, <1>2, <1>3, <1>4, <1>5 DEF Seconds

LEMMA SameInstant ==
  ASSUME NEW t \in Int
  PROVE  DayOf(AddMonths(Date(t), 0)) * Day + TimeOfDay(t) = t
  <1>1. PICK c, i, s : Parts(t, c, i, s)
    BY InstantIs
  <1>2. DayOf(AddMonths(Date(t), 0)) = First(i + 0) + c.d - 1
    BY <1>1, MonthsAfter
  <1>3. i + 0 = i /\ TimeOfDay(t) = s /\ t = (First(i) + c.d - 1) * Day + s
    BY <1>1 DEF Parts
  <1>. QED BY <1>2, <1>3

(* Dates keep their day of the month over k months, and stay whole numbers. *)
LEMMA Numbers ==
  ASSUME NEW t \in Int, NEW k \in Int
  PROVE  DayOf(AddMonths(Date(t), k)) \in Int /\ TimeOfDay(t) \in Int
  <1>1. PICK c, i, s : Parts(t, c, i, s)
    BY InstantIs
  <1>2. DayOf(AddMonths(Date(t), k)) = First(i + k) + c.d - 1
    BY <1>1, MonthsAfter
  <1>3. i \in Int /\ s \in Int /\ s = TimeOfDay(t) /\ c.d \in Int
    BY <1>1 DEF Parts
  <1>4. PICK j \in Int : j = i + k
    BY <1>3
  <1>5. First(j) \in Int
    BY MonthsInOrder
  <1>. QED BY <1>2, <1>3, <1>4, <1>5

LEMMA NoMonthsBack ==
  ASSUME NEW a \in Int, NEW b \in Int
  PROVE  SecondsBetween(a, b, 0) = b - a
  <1>1. DayOf(AddMonths(Date(b), 0)) * Day + TimeOfDay(b) = b
    BY SameInstant
  <1>2. PICK z \in Int : z = 0
    OBVIOUS
  <1>3. SecondsBetween(a, b, 0) = DayOf(AddMonths(Date(b), 0)) * Day + TimeOfDay(b) - a
    <2>1. -z = 0
      <3>1. \A x \in Int : -x = 0 - x
        OBVIOUS
      <3>2. PICK w \in Int : w = 0 - z
        OBVIOUS
      <3>3. w = 0
        BY <1>2, <3>2
      <3>4. -z = w
        BY <3>1, <3>2, Zenon
      <3>. QED BY <3>3, <3>4, Zenon
    <2>2. SecondsBetween(a, b, z) = DayOf(AddMonths(Date(b), 0)) * Day + TimeOfDay(b) - a
      BY <2>1 DEF SecondsBetween
    <2>. QED BY <1>2, <2>2
  <1>4. PICK u \in Int, v \in Int : u = DayOf(AddMonths(Date(b), 0)) /\ v = TimeOfDay(b)
    BY Numbers, 0 \in Int, Zenon
  <1>5. u * Day + v = b
    BY <1>1, <1>4
  <1>6. SecondsBetween(a, b, 0) = u * Day + v - a
    BY <1>3, <1>4
  <1>. QED BY <1>5, <1>6 DEF Day

(* operator[] with steps of a fixed length, and of months. *)
LEMMA IndexOfTime ==
  ASSUME NEW s, s.from_ \in Int, s.time_duration_ \in Diffs, ~HasMonths(s.time_duration_), NEW k \in Int
  PROVE  Index(s, k) = s.from_ + k * Seconds(s.time_duration_)
  <1>1. PICK d \in Diffs, t \in Int : d = s.time_duration_ /\ t = s.from_
    OBVIOUS
  <1>2. PICK a \in Int, b \in Int : a = d.days_ /\ b = TimePart(d) /\ Seconds(d) = a * 86400 + b
    <2>1. d.days_ \in Int /\ TimePart(d) \in Int /\ Seconds(d) = d.days_ * Day + TimePart(d)
      BY DiffNumbers
    <2>. QED BY <2>1 DEF Day
  <1>3. k * Months(d) = 0
    <2>1. Months(d) = 0
      BY <1>1, DiffNumbers
    <2>. QED BY <2>1
  <1>4. Index(s, k) = (DayOf(AddMonths(Date(t), 0)) + k * a) * Day + TimeOfDay(t) + k * b
    BY <1>1, <1>2, <1>3 DEF Index
  <1>5. PICK u \in Int, v \in Int : u = DayOf(AddMonths(Date(t), 0)) /\ v = TimeOfDay(t) /\ u * 86400 + v = t
    <2>1. DayOf(AddMonths(Date(t), 0)) \in Int /\ TimeOfDay(t) \in Int
      BY Numbers, 0 \in Int, Zenon
    <2>. QED BY <2>1, SameInstant DEF Day
  <1>6. Index(s, k) = (u + k * a) * 86400 + v + k * b
    BY <1>4, <1>5 DEF Day
  <1>7. (u + k * a) * 86400 + v + k * b = (u * 86400 + v) + k * (a * 86400 + b)
    OBVIOUS
  <1>. QED BY <1>1, <1>2, <1>5, <1>6, <1>7

LEMMA IndexOfMonths ==
  ASSUME NEW s, s.from_ \in Int, s.time_duration_ \in Diffs, ~HasTime(s.time_duration_), NEW k \in Int
  PROVE  Index(s, k) = DayOf(AddMonths(Date(s.from_), k * Months(s.time_duration_))) * Day + TimeOfDay(s.from_)
  <1>1. PICK d \in Diffs, t \in Int : d = s.time_duration_ /\ t = s.from_
    OBVIOUS
  <1>2. d.days_ = 0 /\ TimePart(d) = 0 /\ Months(d) \in Int
    BY <1>1, DiffNumbers
  <1>4. PICK n \in Int : n = k * Months(d)
    BY <1>2
  <1>6. PICK u \in Int, v \in Int : u = DayOf(AddMonths(Date(t), n)) /\ v = TimeOfDay(t)
    BY Numbers, Zenon
  <1>7. Index(s, k) = (DayOf(AddMonths(Date(t), n)) + k * 0) * Day + TimeOfDay(t) + k * 0
    BY <1>1, <1>2, <1>4 DEF Index
  <1>8. (u + k * 0) * Day + v + k * 0 = u * Day + v
    BY DEF Day
  <1>. QED BY <1>1, <1>4, <1>6, <1>7, <1>8

(* What the two functions count, for a step of time or of months alone. *)
LEMMA FullCount ==
  ASSUME NEW a \in Int, NEW b \in Int, a < b, NEW d \in Diffs, d # NoDiff
  PROVE  /\ ~HasMonths(d) => full_number_of_intervals(a, b, d) = [n |-> Quot(b - a, Seconds(d)), err |-> FALSE]
         /\ ~HasTime(d) => full_number_of_intervals(a, b, d)
                             = [n |-> Quot(MonthsBetween(a, b), Months(d)), err |-> FALSE]
  <1>1. Interval(a, b) = [from_ |-> a, to_ |-> b]
    BY DEF Interval
  <1>2. ASSUME ~HasMonths(d)
        PROVE  full_number_of_intervals(a, b, d) = [n |-> Quot(b - a, Seconds(d)), err |-> FALSE]
    <2>1. HasTime(d) /\ Months(d) = 0
      BY <1>2, DiffNumbers
    <2>2. 0 * Months(d) = 0
      BY <2>1
    <2>3. full_number_of_intervals(a, b, d) = [n |-> Quot(SecondsBetween(a, b, 0), Seconds(d)), err |-> FALSE]
      BY <1>1, <1>2, <2>1, <2>2 DEF full_number_of_intervals
    <2>. QED BY <2>3, NoMonthsBack
  <1>3. ASSUME ~HasTime(d)
        PROVE  full_number_of_intervals(a, b, d)
                 = [n |-> Quot(MonthsBetween(a, b), Months(d)), err |-> FALSE]
    <2>1. HasMonths(d)
      BY <1>3, DiffNumbers
    <2>. QED BY <1>1, <1>3, <2>1 DEF full_number_of_intervals
  <1>. QED BY <1>2, <1>3

LEMMA ComputedCount ==
  ASSUME NEW a \in Int, NEW b \in Int, a < b, NEW d \in Diffs, d # NoDiff,
         ~compute_number_of_intervals(a, b, d).err
  PROVE  /\ ~HasMonths(d) => compute_number_of_intervals(a, b, d).n = Quot(b - a, Seconds(d))
         /\ ~HasTime(d) => compute_number_of_intervals(a, b, d).n = Quot(MonthsBetween(a, b), Months(d))
  <1>1. Interval(a, b) = [from_ |-> a, to_ |-> b]
    BY DEF Interval
  <1>2. ASSUME ~HasMonths(d) PROVE compute_number_of_intervals(a, b, d).n = Quot(b - a, Seconds(d))
    <2>1. HasTime(d) /\ Months(d) = 0
      BY <1>2, DiffNumbers
    <2>2. 0 * Months(d) = 0
      BY <2>1
    <2>3. compute_number_of_intervals(a, b, d).n = Quot(SecondsBetween(a, b, 0), Seconds(d))
      BY <1>1, <1>2, <2>1, <2>2 DEF compute_number_of_intervals
    <2>. QED BY <2>3, NoMonthsBack
  <1>3. ASSUME ~HasTime(d)
        PROVE  compute_number_of_intervals(a, b, d).n = Quot(MonthsBetween(a, b), Months(d))
    <2>1. HasMonths(d)
      BY <1>3, DiffNumbers
    <2>. QED BY <1>1, <1>3, <2>1 DEF compute_number_of_intervals
  <1>. QED BY <1>2, <1>3

(* A step of the constructors has a length. *)
LEMMA StepLength ==
  ASSUME NEW d \in Steps
  PROVE  /\ d \in Diffs
         /\ HasMonths(d) => Months(d) > 0
         /\ HasTime(d) => Seconds(d) > 0
  <1>1. /\ d \in Diffs /\ d.years_ \in Nat /\ d.months_ \in Nat /\ d.days_ \in Nat /\ d.hours_ \in Nat
        /\ d.minutes_ \in Nat /\ d.seconds_ \in Nat
    BY StepsAssumption DEF Diffs
  <1>2. HasMonths(d) => Months(d) > 0
    BY <1>1 DEF HasMonths, Months
  <1>3. HasTime(d) => Seconds(d) > 0
    <2>1. PICK w \in Nat, x \in Nat, y \in Nat, z \in Nat :
            w = d.days_ /\ x = d.hours_ /\ y = d.minutes_ /\ z = d.seconds_
      BY <1>1
    <2>2. Seconds(d) = w * 86400 + (x * 3600 + y * 60 + z)
      BY <2>1, SMT DEF Seconds, TimePart, Day
    <2>3. w # 0 \/ x # 0 \/ y # 0 \/ z # 0 => w * 86400 + (x * 3600 + y * 60 + z) > 0
      BY SMT
    <2>. QED BY <2>1, <2>2, <2>3, SMT DEF HasTime
  <1>. QED BY <1>1, <1>2, <1>3

(* The greatest number of steps that fits, for steps of time and of months. *)
LEMMA GreatestTime ==
  ASSUME NEW a \in Int, NEW b \in Int, a < b, NEW d \in Diffs, ~HasMonths(d), Seconds(d) > 0,
         NEW s, s.from_ = a, s.time_duration_ = d, NEW n, n = Quot(b - a, Seconds(d))
  PROVE  n \in Int /\ Index(s, n) <= b /\ b < Index(s, n + 1)
  <1>1. PICK q \in Int : q = Seconds(d) /\ 0 < q
    BY DiffNumbers
  <1>2. PICK p \in Int : p = b - a /\ 0 <= p
    OBVIOUS
  <1>3. n = Quot(p, q)
    BY <1>1, <1>2
  <1>4. n \in Int /\ n * q <= p /\ p < (n + 1) * q
    <2>1. 0 <= p /\ 0 < q
      BY <1>1, <1>2
    <2>2. Quot(p, q) \in Int /\ Quot(p, q) * q <= p /\ p < (Quot(p, q) + 1) * q
      BY <2>1, QuotIs
    <2>. QED BY <1>3, <2>2
  <1>5. \A k \in Int : Index(s, k) = a + k * q
    <2>1. \A k \in Int : Index(s, k) = s.from_ + k * Seconds(s.time_duration_)
      BY IndexOfTime
    <2>. QED BY <1>1, <2>1
  <1>6. PICK m \in Int, x \in Int, y \in Int : m = n + 1 /\ x = n * q /\ y = m * q
    BY <1>4
  <1>7. Index(s, n) = a + x /\ Index(s, n + 1) = a + y
    BY <1>4, <1>5, <1>6
  <1>8. x <= p /\ p < y
    BY <1>4, <1>6
  <1>. QED BY <1>2, <1>4, <1>7, <1>8

LEMMA GreatestMonths ==
  ASSUME NEW a \in Int, NEW b \in Int, a < b, NEW d \in Diffs, ~HasTime(d), Months(d) > 0, Date(a).d <= 28,
         NEW s, s.from_ = a, s.time_duration_ = d, NEW n, n = Quot(MonthsBetween(a, b), Months(d))
  PROVE  n \in Int /\ Index(s, n) <= b /\ b < Index(s, n + 1)
  <1>1. PICK q \in Int : q = Months(d) /\ 0 < q
    BY DiffNumbers
  <1>2. \A k \in Int : /\ MonthsBetween(a, b) \in Int
                       /\ DayOf(AddMonths(Date(a), k)) * Day + TimeOfDay(a) <= b <=> k <= MonthsBetween(a, b)
    BY MonthsFit
  <1>3. PICK p \in Int : p = MonthsBetween(a, b)
    BY <1>2, 0 \in Int
  <1>4. \A k \in Int : DayOf(AddMonths(Date(a), k)) * Day + TimeOfDay(a) <= b <=> k <= p
    BY <1>2, <1>3
  <1>5. 0 <= p
    <2>1. DayOf(AddMonths(Date(a), 0)) * Day + TimeOfDay(a) = a
      BY SameInstant
    <2>. QED BY <1>4, <2>1, 0 \in Int
  <1>6. n \in Int /\ n * q <= p /\ p < (n + 1) * q
    <2>1. Quot(p, q) \in Int /\ Quot(p, q) * q <= p /\ p < (Quot(p, q) + 1) * q
      BY <1>1, <1>5, QuotIs
    <2>. QED BY <1>1, <1>3, <2>1
  <1>7. PICK m \in Int, x \in Int, y \in Int : m = n + 1 /\ x = n * q /\ y = m * q
    BY <1>6
  <1>8. x <= p /\ ~(y <= p)
    BY <1>6, <1>7
  <1>9. \A k \in Int : Index(s, k) = DayOf(AddMonths(Date(a), k * q)) * Day + TimeOfDay(a)
    <2>1. \A k \in Int :
            Index(s, k) = DayOf(AddMonths(Date(s.from_), k * Months(s.time_duration_))) * Day + TimeOfDay(s.from_)
      BY IndexOfMonths
    <2>. QED BY <1>1, <2>1
  <1>10. Index(s, n) = DayOf(AddMonths(Date(a), x)) * Day + TimeOfDay(a)
    BY <1>6, <1>7, <1>9
  <1>11. Index(s, n + 1) = DayOf(AddMonths(Date(a), y)) * Day + TimeOfDay(a)
    BY <1>7, <1>9
  <1>12. Index(s, n) <= b
    BY <1>4, <1>8, <1>10
  <1>13. ~(Index(s, n + 1) <= b)
    BY <1>4, <1>8, <1>11
  <1>14. Index(s, n + 1) \in Int
    <2>1. PICK u \in Int, v \in Int : u = DayOf(AddMonths(Date(a), y)) /\ v = TimeOfDay(a)
      BY Numbers, Zenon
    <2>2. u * Day + v \in Int
      BY DEF Day
    <2>. QED BY <1>11, <2>1, <2>2
  <1>. QED BY <1>6, <1>12, <1>13, <1>14

(* full_number_of_intervals is the greatest number of steps that fits, and  *)
(* compute_number_of_intervals, when it succeeds, agrees.                   *)
LEMMA Greatest ==
  ASSUME NEW a \in Int, NEW b \in Int, a < b, NEW d \in Steps, d # NoDiff,
         ~(HasMonths(d) /\ HasTime(d)), HasMonths(d) => Date(a).d <= 28,
         NEW s, s.from_ = a, s.time_duration_ = d,
         NEW f, f = full_number_of_intervals(a, b, d), NEW c, c = compute_number_of_intervals(a, b, d)
  PROVE  Index(s, f.n) <= b /\ b < Index(s, f.n + 1) /\ (~c.err => c.n = f.n)
  <1>1. d \in Diffs /\ (HasMonths(d) => Months(d) > 0) /\ (HasTime(d) => Seconds(d) > 0)
    BY StepLength
  <1>2. HasMonths(d) \/ HasTime(d)
    BY <1>1, DiffNumbers
  <1>3. CASE ~HasMonths(d)
    <2>1. Seconds(d) > 0
      BY <1>1, <1>2, <1>3
    <2>2. full_number_of_intervals(a, b, d) = [n |-> Quot(b - a, Seconds(d)), err |-> FALSE]
      BY <1>1, <1>3, FullCount
    <2>3. f.n = Quot(b - a, Seconds(d))
      BY <2>2
    <2>4. ~c.err => c.n = Quot(b - a, Seconds(d))
      BY <1>1, <1>3, ComputedCount
    <2>5. Index(s, f.n) <= b /\ b < Index(s, f.n + 1)
      BY <1>1, <1>3, <2>1, <2>3, GreatestTime
    <2>. QED BY <2>3, <2>4, <2>5
  <1>4. CASE ~HasTime(d)
    <2>1. Months(d) > 0 /\ Date(a).d <= 28
      BY <1>1, <1>2, <1>4
    <2>2. full_number_of_intervals(a, b, d) = [n |-> Quot(MonthsBetween(a, b), Months(d)), err |-> FALSE]
      BY <1>1, <1>4, FullCount
    <2>3. f.n = Quot(MonthsBetween(a, b), Months(d))
      BY <2>2
    <2>4. ~c.err => c.n = Quot(MonthsBetween(a, b), Months(d))
      BY <1>1, <1>4, ComputedCount
    <2>5. Index(s, f.n) <= b /\ b < Index(s, f.n + 1)
      BY <1>1, <1>4, <2>1, <2>3, GreatestMonths
    <2>. QED BY <2>3, <2>4, <2>5
  <1>. QED BY <1>3, <1>4

-----------------------------------------------------------------------------
(* Every operation on whole numbers returns whole numbers *)

LEMMA TruncInt ==
  ASSUME NEW k \in Int, NEW p \in Int, NEW q \in Int, q > 0
  PROVE  Trunc(k, p, q) \in Int
  <1>1. p \div q \in Int
    BY SMT
  <1>. QED BY <1>1, SMT DEF Trunc

LEMMA QuotInt ==
  ASSUME NEW p \in Int, NEW q \in Int, q # 0
  PROVE  Quot(p, q) \in Int
  <1>1. CASE q > 0
    <2>1. Trunc(0, p, q) \in Int
      BY <1>1, TruncInt, SMT
    <2>. QED BY <1>1, <2>1, SMT DEF Quot
  <1>2. CASE ~(q > 0)
    <2>1. PICK u \in Int, v \in Int : u = -p /\ v = -q /\ v > 0
      BY <1>2, SMT
    <2>2. Trunc(0, u, v) \in Int
      BY <2>1, TruncInt, SMT
    <2>. QED BY <1>2, <2>1, <2>2, SMT DEF Quot
  <1>. QED BY <1>1, <1>2

LEMMA FieldInt ==
  ASSUME NEW x \in Int
  PROVE  Int8(x) \in Int /\ Int16(x) \in Int
  BY SMT DEF Int8, Int16

LEMMA DateInt ==
  ASSUME NEW t \in Int
  PROVE  Date(t).y \in Int /\ Date(t).m \in Int /\ Date(t).d \in Int /\ DayOf(Date(t)) \in Int
  <1>1. PICK c, i, s : Parts(t, c, i, s)
    BY InstantIs
  <1>2. c = Date(t) /\ c.y \in Int /\ c.m \in Int /\ 1 <= c.m /\ c.m <= 12 /\ c.d \in Int
    BY <1>1 DEF Parts
  <1>3. PICK y \in Int, m \in Int, d \in Int : y = c.y /\ m = c.m /\ d = c.d /\ 1 <= m /\ m <= 12
    BY <1>2
  <1>4. sys_days(y, m, d) = First(y * 12 + m - 1) + d - 1
    <2>1. 1 <= m /\ m <= 12
      BY <1>3
    <2>. QED BY <2>1, DayOfIs
  <1>5. PICK j \in Int : j = y * 12 + m - 1
    BY SMT
  <1>6. First(j) \in Int
    BY MonthsInOrder
  <1>. QED BY <1>2, <1>3, <1>4, <1>5, <1>6, SMT DEF DayOf

LEMMA DaysInMonthInt ==
  ASSUME NEW y, NEW m
  PROVE  getDaysInMonth(y, m) \in Int
  <1>1. CASE m = 2
    BY <1>1, SMT DEF getDaysInMonth
  <1>2. CASE m # 2
    BY <1>2, SMT DEF getDaysInMonth
  <1>. QED BY <1>1, <1>2

LEMMA DaysBetweenInt ==
  ASSUME NEW from \in Int, NEW to \in Int
  PROVE  days_between_dates(Date(from), Date(to)) \in Int
  <1>1. PICK u \in Int, v \in Int : u = DayOf(Date(from)) /\ v = DayOf(Date(to))
    <2>1. DayOf(Date(from)) \in Int
      BY DateInt
    <2>2. DayOf(Date(to)) \in Int
      BY DateInt
    <2>. QED BY <2>1, <2>2
  <1>. QED BY <1>1, SMT DEF days_between_dates

LEMMA MonthsInt ==
  ASSUME NEW from \in Int, NEW to \in Int
  PROVE  MonthsBetween(from, to) \in Int
  <1>1. PICK u \in Int, v \in Int, x \in Int, y \in Int :
          u = Date(from).y /\ v = Date(from).m /\ x = Date(to).y /\ y = Date(to).m
    <2>1. Date(from).y \in Int /\ Date(from).m \in Int
      BY DateInt
    <2>2. Date(to).y \in Int /\ Date(to).m \in Int
      BY DateInt
    <2>. QED BY <2>1, <2>2
  <1>. QED BY <1>1, SMT DEF MonthsBetween

LEMMA SecondsBetweenInt ==
  ASSUME NEW from \in Int, NEW to \in Int, NEW k \in Int
  PROVE  SecondsBetween(from, to, k) \in Int
  <1>1. PICK j \in Int : j = -k
    BY SMT
  <1>2. PICK u \in Int, v \in Int : u = DayOf(AddMonths(Date(to), j)) /\ v = TimeOfDay(to)
    BY Numbers, Zenon
  <1>3. SecondsBetween(from, to, k) = u * Day + v - from
    BY <1>1, <1>2, SMT DEF SecondsBetween
  <1>. QED BY <1>3, SMT DEF Day

LEMMA DiffInt ==
  ASSUME NEW y \in Int, NEW mo \in Int, NEW d \in Int, NEW h \in Int, NEW mi \in Int, NEW s \in Int
  PROVE  Diff(y, mo, d, h, mi, s) \in Diffs
  BY DEF Diff, Diffs

LEMMA SplitInt ==
  ASSUME NEW p \in Int, NEW q \in Int, q > 0
  PROVE  Split(p, q).h \in Int /\ Split(p, q).m \in Int /\ Split(p, q).s \in Int
  <1>1. PICK x \in Int, y \in Int : x = 3600 * q /\ y = 60 * q /\ x # 0 /\ y # 0
    BY SMT
  <1>2. PICK h \in Int : h = Int8(Quot(p, x))
    <2>1. Quot(p, x) \in Int
      BY <1>1, QuotInt
    <2>. QED BY <2>1, FieldInt
  <1>3. PICK r \in Int : r = p - h * 3600 * q
    BY SMT
  <1>4. PICK m \in Int : m = Int8(Quot(r, y))
    <2>1. Quot(r, y) \in Int
      BY <1>1, QuotInt
    <2>. QED BY <2>1, FieldInt
  <1>5. PICK s \in Int : s = Int8(Quot(r - m * 60 * q, q))
    <2>1. PICK e \in Int : e = r - m * 60 * q
      BY SMT
    <2>2. Quot(e, q) \in Int
      BY QuotInt, SMT
    <2>. QED BY <2>1, <2>2, FieldInt
  <1>6. Split(p, q) = [h |-> h, m |-> m, s |-> s]
    BY <1>1, <1>2, <1>3, <1>4, <1>5, SMT DEF Split
  <1>. QED BY <1>6

LEMMA WithinMonthType ==
  ASSUME NEW from \in Int, NEW to \in Int, NEW n \in Int, n > 0
  PROVE  WithinMonth(from, to, n, Date(from), Date(to)) \in Diffs
  <1>1. PICK k \in Int : k = days_between_dates(Date(from), Date(to))
    BY DaysBetweenInt
  <1>2. PICK e \in Int : e = k \div n
    BY SMT
  <1>3. PICK d \in Int : d = Int8(e)
    BY FieldInt
  <1>4. PICK x \in Int : x = Quot(to - from, n) - d * Day
    <2>1. PICK u \in Int : u = to - from
      BY SMT
    <2>2. Quot(u, n) \in Int
      BY QuotInt, SMT
    <2>. QED BY <2>1, <2>2, SMT DEF Day
  <1>5. PICK h \in Int : h = Int8(Quot(x, 3600))
    <2>1. Quot(x, 3600) \in Int
      BY QuotInt, SMT
    <2>. QED BY <2>1, FieldInt
  <1>6. PICK m \in Int : m = Int8(Trunc(-60 * h, x, 216000))
    <2>1. PICK u \in Int, w \in Int : u = -60 * h /\ w = 216000 /\ w > 0
      BY SMT
    <2>2. Trunc(u, x, w) \in Int
      BY <2>1, TruncInt
    <2>3. Int8(Trunc(u, x, w)) \in Int
      BY <2>2, FieldInt
    <2>. QED BY <2>1, <2>3, SMT
  <1>7. PICK s \in Int : s = Int8(Trunc(-60 * (h + m), x, 216000))
    <2>1. PICK u \in Int, w \in Int : u = -60 * (h + m) /\ w = 216000 /\ w > 0
      BY SMT
    <2>2. Trunc(u, x, w) \in Int
      BY <2>1, TruncInt
    <2>3. Int8(Trunc(u, x, w)) \in Int
      BY <2>2, FieldInt
    <2>. QED BY <2>1, <2>3, SMT
  <1>8. WithinMonth(from, to, n, Date(from), Date(to)) = Diff(0, 0, d, h, m, s)
    BY <1>1, <1>2, <1>3, <1>4, <1>5, <1>6, <1>7, SMT DEF WithinMonth
  <1>9. Diff(0, 0, d, h, m, s) \in Diffs
    BY DiffInt, SMT
  <1>. QED BY <1>8, <1>9

LEMMA RestInt ==
  ASSUME NEW x \in Int, NEW n \in Int, n > 0
  PROVE  (IF x > 0 THEN Rem(x, n) ELSE 0) \in Int
  <1>1. Quot(x, n) \in Int
    BY QuotInt, SMT
  <1>. QED BY <1>1, SMT DEF Rem

LEMMA BeyondMonthType ==
  ASSUME NEW from \in Int, NEW to \in Int, NEW n \in Int, n > 0
  PROVE  BeyondMonth(from, to, n, Date(from), Date(to)) \in Diffs
  <1>. DEFINE a == Date(from)
              b == Date(to)
              late == TimeOfDay(from) > TimeOfDay(to)
              time == TimeOfDay(to) - TimeOfDay(from) + (IF late THEN Day ELSE 0)
              years == b.y - a.y - (IF b.m < a.m THEN 1 ELSE 0)
              months == ((b.m - a.m) % 12) - (IF b.d < a.d THEN 1 ELSE 0)
              dim == getDaysInMonth(a.y, a.m)
              days == b.d - a.d + (IF b.d < a.d THEN dim ELSE 0) - (IF late THEN 1 ELSE 0)
              ry == IF years > 0 THEN Rem(years, n) ELSE 0
              rm == IF months > 0 THEN Rem(months, n) ELSE 0
              rd == IF days > 0 THEN Rem(days, n) ELSE 0
              sm == IF rm # 0 THEN (rm - n) * dim * Day ELSE 0
              x == Split(time, n)
              y == Split(rd * Day, n)
              z == Split(sm, n)
  <1>1. a.y \in Int /\ a.m \in Int /\ a.d \in Int /\ b.y \in Int /\ b.m \in Int /\ b.d \in Int
    BY DateInt
  <1>2. BeyondMonth(from, to, n, a, b)
          = Diff(Int16(Quot(years, n)), Int8(Quot(months, n) + (ry * 12) \div n), Int8(Quot(days, n)),
                 Int8(x.h + y.h + z.h), Int8(x.m + y.m + z.m), Int8(x.s + y.s + z.s))
    BY DEF BeyondMonth
  <1>. HIDE DEF a, b, late
  <1>3. time \in Int /\ years \in Int /\ months \in Int
    BY <1>1, SMT DEF TimeOfDay, Day
  <1>4. dim \in Int
    BY DaysInMonthInt
  <1>. HIDE DEF time, years, months, dim
  <1>5. days \in Int
    BY <1>1, <1>4, SMT
  <1>. HIDE DEF days
  <1>6. ry \in Int /\ rm \in Int /\ rd \in Int
    <2>1. ry \in Int
      BY <1>3, RestInt
    <2>2. rm \in Int
      BY <1>3, RestInt
    <2>3. rd \in Int
      BY <1>5, RestInt
    <2>. QED BY <2>1, <2>2, <2>3
  <1>. HIDE DEF ry, rm, rd
  <1>7. sm \in Int /\ rd * Day \in Int
    BY <1>4, <1>6, SMT DEF Day
  <1>. HIDE DEF sm
  <1>8. x.h \in Int /\ x.m \in Int /\ x.s \in Int
    BY <1>3, SplitInt
  <1>9. y.h \in Int /\ y.m \in Int /\ y.s \in Int
    BY <1>7, SplitInt
  <1>10. z.h \in Int /\ z.m \in Int /\ z.s \in Int
    BY <1>7, SplitInt
  <1>. HIDE DEF x, y, z
  <1>11. Quot(years, n) \in Int /\ Quot(months, n) \in Int /\ Quot(days, n) \in Int
    <2>1. n # 0
      BY SMT
    <2>. QED BY <1>3, <1>5, <2>1, QuotInt
  <1>12. PICK qm \in Int : qm = Quot(months, n) + (ry * 12) \div n
    <2>1. (ry * 12) \div n \in Int
      BY <1>6, SMT
    <2>. QED BY <1>11, <2>1, SMT
  <1>13. PICK h \in Int, m \in Int, s \in Int : h = x.h + y.h + z.h /\ m = x.m + y.m + z.m /\ s = x.s + y.s + z.s
    BY <1>8, <1>9, <1>10, SMT
  <1>14. Int16(Quot(years, n)) \in Int /\ Int8(qm) \in Int /\ Int8(Quot(days, n)) \in Int
    BY <1>11, FieldInt
  <1>15. Int8(h) \in Int /\ Int8(m) \in Int /\ Int8(s) \in Int
    BY FieldInt
  <1>16. Diff(Int16(Quot(years, n)), Int8(qm), Int8(Quot(days, n)), Int8(h), Int8(m), Int8(s)) \in Diffs
    BY <1>14, <1>15, DiffInt
  <1>17. BeyondMonth(from, to, n, a, b) \in Diffs
    BY <1>2, <1>12, <1>13, <1>16
  <1>. QED BY <1>17 DEF a, b

LEMMA NoDiffType == NoDiff \in Diffs
  BY DiffInt, 0 \in Int DEF NoDiff

LEMMA DiffOfType ==
  ASSUME NEW from \in Int, NEW to \in Int, NEW n \in Int, n >= 0
  PROVE  DiffOf(from, to, n).diff \in Diffs
  <1>. DEFINE a == Date(from)
              b == Date(to)
  <1>1. CASE from = to
    BY <1>1, NoDiffType, SMT DEF DiffOf
  <1>2. CASE from # to /\ n = 0
    BY <1>2, NoDiffType, SMT DEF DiffOf
  <1>3. CASE from # to /\ n # 0
    <2>1. WithinMonth(from, to, n, a, b) \in Diffs /\ BeyondMonth(from, to, n, a, b) \in Diffs
      BY <1>3, WithinMonthType, BeyondMonthType
    <2>. HIDE DEF a, b
    <2>2. \/ DiffOf(from, to, n).diff = NoDiff
          \/ DiffOf(from, to, n).diff = WithinMonth(from, to, n, a, b)
          \/ DiffOf(from, to, n).diff = BeyondMonth(from, to, n, a, b)
      BY <1>3, SMT DEF DiffOf, a, b
    <2>. QED BY <2>1, <2>2, NoDiffType
  <1>. QED BY <1>1, <1>2, <1>3

LEMMA DiffBetweenType ==
  ASSUME NEW from \in Int, NEW to \in Int
  PROVE  DiffBetween(from, to) \in Diffs
  <1>. DEFINE a == Date(from)
              b == Date(to)
  <1>1. a.y \in Int /\ a.m \in Int /\ a.d \in Int
    BY DateInt
  <1>2. b.y \in Int /\ b.m \in Int /\ b.d \in Int
    BY DateInt
  <1>3. PICK dim \in Int : dim = getDaysInMonth(a.y, a.m)
    BY DaysInMonthInt
  <1>4. PICK y \in Int : y = b.y - a.y + (IF b.m < a.m THEN -1 ELSE 0)
    BY <1>1, <1>2, SMT
  <1>5. PICK mo \in Int : mo = IF b.m < a.m THEN (IF b.d < a.d THEN -1 ELSE 0) + b.m - a.m + 12 ELSE b.m - a.m
    BY <1>1, <1>2, SMT
  <1>6. PICK d \in Int : d = IF b.d < a.d THEN Int8(b.d - a.d + dim) ELSE b.d - a.d
    <2>1. PICK e \in Int : e = b.d - a.d + dim
      BY <1>1, <1>2, SMT
    <2>2. Int8(e) \in Int
      BY FieldInt
    <2>. QED BY <1>1, <1>2, <2>1, <2>2, SMT
  <1>7. PICK h \in Int, mi \in Int, s \in Int :
          /\ h = Quot((to % Day) - (from % Day), 3600)
          /\ mi = Quot((to % 3600) - (from % 3600), 60)
          /\ s = Quot((to % 60) - (from % 60), 1)
    <2>1. PICK u \in Int, v \in Int, w \in Int :
            u = (to % Day) - (from % Day) /\ v = (to % 3600) - (from % 3600) /\ w = (to % 60) - (from % 60)
      BY SMT DEF Day
    <2>2. Quot(u, 3600) \in Int
      BY QuotInt, SMT
    <2>3. Quot(v, 60) \in Int
      BY QuotInt, SMT
    <2>4. Quot(w, 1) \in Int
      BY QuotInt, SMT
    <2>. QED BY <2>1, <2>2, <2>3, <2>4
  <1>8. DiffBetween(from, to) = Diff(y, mo, d, h, mi, s)
    BY <1>3, <1>4, <1>5, <1>6, <1>7, SMT DEF DiffBetween
  <1>9. Diff(y, mo, d, h, mi, s) \in Diffs
    BY DiffInt
  <1>. QED BY <1>8, <1>9

-----------------------------------------------------------------------------
(* Every sequence keeps its ends in order *)

(* A step by which an interval can be divided. *)
Divisible(d) == (HasMonths(d) => Months(d) # 0) /\ (HasTime(d) => Seconds(d) # 0)

LEMMA FullInt ==
  ASSUME NEW a \in Int, NEW b \in Int, NEW d \in Diffs, Divisible(d)
  PROVE  full_number_of_intervals(a, b, d).n \in Int
  <1>1. PICK x \in Int, y \in Int : x = Interval(a, b).from_ /\ y = Interval(a, b).to_
    BY SMT DEF Interval
  <1>2. Months(d) \in Int /\ Seconds(d) \in Int
    BY DiffNumbers
  <1>3. PICK N \in Int : N = IF HasMonths(d) THEN Quot(MonthsBetween(x, y), Months(d)) ELSE 0
    <2>1. CASE HasMonths(d)
      <3>1. MonthsBetween(x, y) \in Int /\ Months(d) # 0
        BY <2>1, MonthsInt DEF Divisible
      <3>2. Quot(MonthsBetween(x, y), Months(d)) \in Int
        BY <1>2, <3>1, QuotInt
      <3>. QED BY <2>1, <3>2
    <2>2. CASE ~HasMonths(d)
      BY <2>2, SMT
    <2>. QED BY <2>1, <2>2
  <1>4. PICK k : k = Quot(SecondsBetween(x, y, N * Months(d)), Seconds(d)) /\ (HasTime(d) => k \in Int)
    <2>1. PICK e \in Int : e = N * Months(d)
      BY <1>2, SMT
    <2>2. SecondsBetween(x, y, e) \in Int
      BY SecondsBetweenInt
    <2>3. ASSUME HasTime(d) PROVE Quot(SecondsBetween(x, y, e), Seconds(d)) \in Int
      <3>1. Seconds(d) # 0
        BY <2>3 DEF Divisible
      <3>. QED BY <1>2, <2>2, <3>1, QuotInt
    <2>. QED BY <2>1, <2>3
  <1>5. full_number_of_intervals(a, b, d).n \in {-1, 0, N, k} /\ (full_number_of_intervals(a, b, d).n = k => HasTime(d) \/ k \in Int)
    <2>1. full_number_of_intervals(a, b, d).n
            = IF (a = b) # (d = NoDiff) THEN -1
              ELSE IF a = b THEN 0
              ELSE IF ~HasTime(d) THEN N ELSE IF HasMonths(d) /\ N < k THEN N ELSE k
      BY <1>1, <1>3, <1>4, SMT DEF full_number_of_intervals
    <2>. QED BY <1>3, <2>1, SMT
  <1>. QED BY <1>3, <1>4, <1>5, SMT

LEMMA ComputedInt ==
  ASSUME NEW a \in Int, NEW b \in Int, NEW d \in Diffs, Divisible(d)
  PROVE  compute_number_of_intervals(a, b, d).n \in Int
  <1>1. PICK x \in Int, y \in Int : x = Interval(a, b).from_ /\ y = Interval(a, b).to_
    BY SMT DEF Interval
  <1>2. Months(d) \in Int /\ Seconds(d) \in Int
    BY DiffNumbers
  <1>3. PICK N \in Int : N = IF HasMonths(d) THEN Quot(MonthsBetween(x, y), Months(d)) ELSE 0
    <2>1. CASE HasMonths(d)
      <3>1. MonthsBetween(x, y) \in Int /\ Months(d) # 0
        BY <2>1, MonthsInt DEF Divisible
      <3>2. Quot(MonthsBetween(x, y), Months(d)) \in Int
        BY <1>2, <3>1, QuotInt
      <3>. QED BY <2>1, <3>2
    <2>2. CASE ~HasMonths(d)
      BY <2>2, SMT
    <2>. QED BY <2>1, <2>2
  <1>4. PICK k : k = Quot(SecondsBetween(x, y, N * Months(d)), Seconds(d)) /\ (HasTime(d) => k \in Int)
    <2>1. PICK e \in Int : e = N * Months(d)
      BY <1>2, SMT
    <2>2. SecondsBetween(x, y, e) \in Int
      BY SecondsBetweenInt
    <2>3. ASSUME HasTime(d) PROVE Quot(SecondsBetween(x, y, e), Seconds(d)) \in Int
      <3>1. Seconds(d) # 0
        BY <2>3 DEF Divisible
      <3>. QED BY <1>2, <2>2, <3>1, QuotInt
    <2>. QED BY <2>1, <2>3
  <1>5. CASE HasTime(d)
    <2>1. compute_number_of_intervals(a, b, d).n \in {-1, 0, k}
      BY <1>1, <1>3, <1>4, <1>5, SMT DEF compute_number_of_intervals
    <2>. QED BY <1>4, <1>5, <2>1, SMT
  <1>6. CASE ~HasTime(d)
    <2>1. compute_number_of_intervals(a, b, d).n \in {-1, 0, N}
      BY <1>1, <1>3, <1>6, SMT DEF compute_number_of_intervals
    <2>. QED BY <1>3, <2>1, SMT
  <1>. QED BY <1>5, <1>6

(* A sequence whose ends are in order. *)
Ordered(s) ==
  /\ s \in [from_ : Int, to_ : Int, time_duration_ : Diffs, intervals_ : Int]
  /\ s.from_ <= s.to_

LEMMA SeqOrdered ==
  ASSUME NEW a \in Int, NEW b \in Int, NEW d \in Diffs, NEW n \in Int
  PROVE  Ordered(Seq0(Interval(a, b), d, n))
  BY SMT DEF Ordered, Seq0, Interval

LEMMA IntervalOrdered ==
  ASSUME NEW a \in Int, NEW b \in Int
  PROVE  /\ Interval(a, b).from_ \in Int /\ Interval(a, b).to_ \in Int
         /\ Interval(a, b).from_ <= Interval(a, b).to_
         /\ Interval(Interval(a, b).from_, Interval(a, b).to_) = Interval(a, b)
  BY SMT DEF Interval

LEMMA CountOrdered ==
  ASSUME NEW a \in Int, NEW b \in Int, NEW n \in Int, n >= 0
  PROVE  Ordered(OfCount(a, b, n).seq)
  <1>1. PICK d \in Diffs : d = DiffOf(a, b, n).diff
    BY DiffOfType
  <1>2. OfCount(a, b, n).seq = Seq0(Interval(a, b), d, n)
    BY <1>1 DEF OfCount
  <1>. QED BY <1>2, SeqOrdered

LEMMA InstantOrdered ==
  ASSUME NEW t \in Int
  PROVE  Ordered(OfInstant(t))
  BY SeqOrdered, NoDiffType, 0 \in Int DEF OfInstant

LEMMA OfIntervalOrdered ==
  ASSUME NEW a \in Int, NEW b \in Int
  PROVE  Ordered(OfInterval(Interval(a, b)))
  <1>1. PICK d \in Diffs : d = DiffBetween(Interval(a, b).from_, Interval(a, b).to_)
    BY IntervalOrdered, DiffBetweenType
  <1>2. OfInterval(Interval(a, b)) = Seq0(Interval(a, b), d, 1)
    BY <1>1 DEF OfInterval
  <1>. QED BY <1>2, SeqOrdered, 1 \in Int

(* Only a negative number changes when it is kept. *)
LEMMA KeptInt ==
  ASSUME NEW n \in Int
  PROVE  Kept(n) \in Int /\ (n >= 0 => Kept(n) = n)
  BY LimitAssumption, SMT DEF Kept

LEMMA OfDiffOrdered ==
  ASSUME NEW a \in Int, NEW b \in Int, NEW d \in Steps
  PROVE  Ordered(OfDiff(a, b, d).seq)
  <1>1. /\ d.years_ \in Nat /\ d.months_ \in Nat /\ d.days_ \in Nat /\ d.hours_ \in Nat
        /\ d.minutes_ \in Nat /\ d.seconds_ \in Nat
    BY StepsAssumption
  <1>2. PICK e : e = DateTimeDiff(d.years_, d.months_, d.days_, d.hours_, d.minutes_, d.seconds_).diff
    OBVIOUS
  <1>3. PICK y \in Nat, mo \in Nat, dd \in Nat, h \in Nat, mi \in Nat, s \in Nat : e = Diff(y, mo, dd, h, mi, s)
    <2>. DEFINE Fit(x) == IF x = Int8(x) THEN x ELSE 0
    <2>1. PICK y \in Nat : y = IF d.years_ = Int16(d.years_) THEN d.years_ ELSE 0
      BY <1>1, SMT
    <2>2. \A x \in Nat : Fit(x) \in Nat
      BY SMT
    <2>3. DateTimeDiff(d.years_, d.months_, d.days_, d.hours_, d.minutes_, d.seconds_).diff
            = Diff(y, Fit(d.months_), Fit(d.days_), Fit(d.hours_), Fit(d.minutes_), Fit(d.seconds_))
      BY <2>1 DEF DateTimeDiff
    <2>. HIDE DEF Fit
    <2>. QED BY <1>1, <1>2, <2>2, <2>3
  <1>4. e \in Diffs
    BY <1>3, DiffInt
  <1>5. HasMonths(e) => Months(e) # 0
    <2>1. e.years_ = y /\ e.months_ = mo
      BY <1>3 DEF Diff
    <2>. QED BY <2>1, SMT DEF HasMonths, Months
  <1>6. HasTime(e) => Seconds(e) # 0
    <2>1. e.days_ = dd /\ e.hours_ = h /\ e.minutes_ = mi /\ e.seconds_ = s
      BY <1>3 DEF Diff
    <2>2. Seconds(e) = dd * 86400 + (h * 3600 + mi * 60 + s)
      BY <2>1, SMT DEF Seconds, TimePart, Day
    <2>3. dd # 0 \/ h # 0 \/ mi # 0 \/ s # 0 => dd * 86400 + (h * 3600 + mi * 60 + s) > 0
      BY SMT
    <2>. QED BY <2>1, <2>2, <2>3, SMT DEF HasTime
  <1>7. PICK n \in Int : n = compute_number_of_intervals(a, b, e).n
    BY <1>4, <1>5, <1>6, ComputedInt DEF Divisible
  <1>8. \/ OfDiff(a, b, d).seq = Seq0(Interval(a, b), NoDiff, Kept(-1))
        \/ OfDiff(a, b, d).seq = OfCount(a, b, 0).seq
        \/ n >= 0 /\ OfDiff(a, b, d).seq = OfCount(a, b, n).seq
    <2>1. PICK c : c = IF a = b THEN [n |-> 0, err |-> FALSE] ELSE compute_number_of_intervals(a, b, e)
      OBVIOUS
    <2>2. OfDiff(a, b, d)
            = IF c.err \/ c.n < 0 THEN Failed(Seq0(Interval(a, b), NoDiff, Kept(-1))) ELSE OfCount(a, b, c.n)
      BY <1>2, <2>1 DEF OfDiff
    <2>3. c.n = 0 \/ c.n = n
      BY <1>7, <2>1
    <2>. QED BY <2>2, <2>3, SMT DEF Failed
  <1>9. Ordered(Seq0(Interval(a, b), NoDiff, Kept(-1)))
    BY SeqOrdered, NoDiffType, KeptInt, -1 \in Int
  <1>10. Ordered(OfCount(a, b, 0).seq)
    BY CountOrdered, SMT
  <1>11. n >= 0 => Ordered(OfCount(a, b, n).seq)
    BY CountOrdered
  <1>. QED BY <1>8, <1>9, <1>10, <1>11

LEMMA OfStepOrdered ==
  ASSUME NEW t \in Int, NEW d \in Steps, NEW n \in Int
  PROVE  Ordered(OfStep(t, d, n))
  <1>1. d \in Diffs
    BY StepLength
  <1>2. Months(d) \in Int /\ Seconds(d) \in Int
    BY <1>1, DiffNumbers
  <1>3. PICK k \in Int : k = n * Months(d)
    BY <1>2, SMT
  <1>4. PICK u \in Int : u = DayOf(AddMonths(Date(t), k))
    BY Numbers
  <1>5. PICK e \in Int : e = u * Day + n * Seconds(d)
    BY <1>2, SMT DEF Day
  <1>6. OfStep(t, d, n) = Seq0(Interval(t, e), d, n)
    BY <1>3, <1>4, <1>5 DEF OfStep
  <1>. QED BY <1>1, <1>6, SeqOrdered

LEMMA IndexInt ==
  ASSUME NEW s, Ordered(s), NEW k \in Int
  PROVE  Index(s, k) \in Int
  <1>1. PICK t \in Int, d \in Diffs : t = s.from_ /\ d = s.time_duration_
    BY DEF Ordered
  <1>2. PICK m \in Int, e \in Int, p \in Int : m = Months(d) /\ e = d.days_ /\ p = TimePart(d)
    BY DiffNumbers
  <1>3. PICK n \in Int : n = k * m
    BY SMT
  <1>4. PICK u \in Int, v \in Int : u = DayOf(AddMonths(Date(t), n)) /\ v = TimeOfDay(t)
    BY Numbers, Zenon
  <1>5. Index(s, k) = (u + k * e) * Day + v + k * p
    BY <1>1, <1>2, <1>3, <1>4 DEF Index
  <1>. QED BY <1>5, SMT DEF Day

LEMMA SysDaysInt ==
  ASSUME NEW y \in Int, NEW m \in Int, NEW d \in Int
  PROVE  sys_days(y, m, d) \in Int
  <1>1. PICK z \in Int : z = MarchYear(y, m)
    BY SMT DEF MarchYear
  <1>2. G(z % 400) \in Int
    BY SMT DEF G
  <1>3. sys_days(y, m, d) = (z \div 400) * 146097 + G(z % 400) + (153 * ((m + 9) % 12) + 2) \div 5 + d - 1 - 719468
    BY <1>1, SysDaysIs
  <1>. QED BY <1>2, <1>3, SMT

LEMMA PlusInt ==
  ASSUME NEW t \in Int, NEW d \in Diffs
  PROVE  Plus(t, d) \in Int
  <1>1. PICK c : c = Date(t) /\ c.y \in Int /\ c.m \in Int /\ c.d \in Int
    BY DateInt
  <1>2. d.years_ \in Int /\ d.months_ \in Int /\ d.days_ \in Int /\ d.hours_ \in Int /\ d.minutes_ \in Int
        /\ d.seconds_ \in Int
    BY DEF Diffs
  <1>3. PICK y \in Int, m \in Int, e \in Int, s \in Int :
          /\ y = c.y + 1 * d.years_ /\ m = ((c.m - 1 + 1 * d.months_) % 12) + 1
          /\ e = (c.d + 1 * d.days_) % 256 /\ s = 1 * (d.hours_ * 3600 + d.minutes_ * 60 + d.seconds_)
    <2>1. PICK cy \in Int, cm \in Int, cd \in Int : cy = c.y /\ cm = c.m /\ cd = c.d
      BY <1>1
    <2>2. PICK dy \in Int, dm \in Int, dd \in Int, h \in Int, mi \in Int, r \in Int :
            /\ dy = d.years_ /\ dm = d.months_ /\ dd = d.days_
            /\ h = d.hours_ /\ mi = d.minutes_ /\ r = d.seconds_
      BY <1>2
    <2>3. /\ cy + 1 * dy \in Int /\ ((cm - 1 + 1 * dm) % 12) + 1 \in Int
          /\ (cd + 1 * dd) % 256 \in Int /\ 1 * (h * 3600 + mi * 60 + r) \in Int
      BY SMT
    <2>. QED BY <2>1, <2>2, <2>3
  <1>4. Plus(t, d) = At(y, m, e, s)
    BY <1>1, <1>3 DEF Plus, Shift
  <1>5. sys_days(y, m, e) \in Int
    BY SysDaysInt
  <1>. QED BY <1>4, <1>5, SMT DEF At, Day

LEMMA EmptyOrdered == Ordered(Empty)
  BY SeqOrdered, NoDiffType, 0 \in Int DEF Empty

(* What cuts a sequence keeps the ends in order. *)
LEMMA CutOrdered ==
  ASSUME NEW s, Ordered(s), NEW a \in Int, NEW b \in Int, NEW n \in Int
  PROVE  Ordered(Cut(s, a, b, n).seq)
  <1>1. s.time_duration_ \in Diffs
    BY DEF Ordered
  <1>2. Cut(s, a, b, n).seq = Seq0(Interval(a, b), s.time_duration_, n)
    BY DEF Cut, Made
  <1>. QED BY <1>1, <1>2, SeqOrdered

LEMMA FullFromInt ==
  ASSUME NEW s, Ordered(s), Divisible(s.time_duration_), NEW t \in Int
  PROVE  FullFrom(s, t).n \in Int
  <1>1. s.from_ \in Int /\ s.time_duration_ \in Diffs
    BY DEF Ordered
  <1>. QED BY <1>1, FullInt DEF FullFrom

LEMMA BoundOrdered ==
  ASSUME NEW s, Ordered(s), Divisible(s.time_duration_), NEW a \in Int, NEW b \in Int
  PROVE  Ordered(bound_by_interval(s, Interval(a, b)).seq)
  <1>1. PICK i : i = Interval(a, b) /\ i.from_ \in Int /\ i.to_ \in Int
    BY IntervalOrdered
  <1>2. s.from_ \in Int /\ s.to_ \in Int /\ s.intervals_ \in Int /\ s.time_duration_ \in Diffs
    BY DEF Ordered
  <1>3. PICK f : f = FullFrom(s, i.from_) /\ f.n \in Int
    BY <1>1, FullFromInt
  <1>4. PICK g : g = FullFrom(s, i.to_) /\ g.n \in Int
    BY <1>1, FullFromInt
  <1>5. Ordered(Failed(Empty).seq)
    BY EmptyOrdered DEF Failed
  <1>6. Ordered(BoundRight(s, i).seq)
    <2>1. Index(s, g.n) \in Int
      BY <1>4, IndexInt
    <2>2. Ordered(Cut(s, s.from_, Index(s, g.n), g.n).seq)
      BY <1>2, <1>4, <2>1, CutOrdered
    <2>3. Ordered(Made(OfInterval(Interval(s.from_, s.from_))).seq)
      BY <1>2, OfIntervalOrdered DEF Made
    <2>. QED BY <1>4, <1>5, <2>2, <2>3, Zenon DEF BoundRight
  <1>7. Ordered(BoundLeft(s, i).seq)
    <2>1. Index(s, f.n) \in Int
      BY <1>3, IndexInt
    <2>2. Ordered(Cut(s, s.from_, Index(s, f.n), f.n).seq)
      BY <1>2, <1>3, <2>1, CutOrdered
    <2>3. Plus(s.from_, s.time_duration_) \in Int
      BY <1>2, PlusInt
    <2>4. s.intervals_ - 1 \in Int
      BY <1>2, SMT
    <2>5. Ordered(Cut(s, Plus(s.from_, s.time_duration_), s.to_, s.intervals_ - 1).seq)
      BY <1>2, <2>3, <2>4, CutOrdered
    <2>. QED BY <1>3, <1>5, <2>2, <2>5, Zenon DEF BoundLeft
  <1>8. Ordered(BoundInside(s, i).seq)
    <2>1. f.n + 1 \in Int /\ g.n - (f.n + 1) \in Int
      BY <1>3, <1>4, SMT
    <2>2. Index(s, f.n + 1) \in Int /\ Index(s, g.n) \in Int
      BY <1>4, <2>1, IndexInt
    <2>3. Ordered(Cut(s, Index(s, f.n + 1), Index(s, g.n), Kept(g.n - (f.n + 1))).seq)
      BY <2>1, <2>2, CutOrdered, KeptInt
    <2>. QED BY <1>3, <1>4, <1>5, <2>3, Zenon DEF BoundInside
  <1>9. Ordered(Made(s).seq)
    BY DEF Made
  <1>. QED BY <1>1, <1>5, <1>6, <1>7, <1>8, <1>9, SMT DEF bound_by_interval

(* What grows a sequence keeps the ends in order. *)
LEMMA BeforeOrdered ==
  ASSUME NEW s, Ordered(s), NEW t \in Int
  PROVE  Ordered(push_time_before(s, t).seq)
  <1>1. s.from_ \in Int /\ s.to_ \in Int /\ s.intervals_ \in Int /\ s.time_duration_ \in Diffs /\ s.from_ <= s.to_
        /\ s \in [from_ : Int, to_ : Int, time_duration_ : Diffs, intervals_ : Int]
    BY DEF Ordered
  <1>2. Ordered(OfCount(t, s.to_, 1).seq)
    BY <1>1, CountOrdered, SMT
  <1>3. ASSUME t < s.from_ PROVE Ordered([s EXCEPT !.from_ = t, !.intervals_ = @ + 1])
    <2>1. PICK k \in Int : k = s.intervals_ + 1
      BY <1>1, SMT
    <2>2. PICK r : r = [s EXCEPT !.from_ = t, !.intervals_ = @ + 1]
      OBVIOUS
    <2>3. r \in [from_ : Int, to_ : Int, time_duration_ : Diffs, intervals_ : Int]
      <3>1. r = [[s EXCEPT !.from_ = t] EXCEPT !.intervals_ = k]
        BY <2>1, <2>2
      <3>2. [s EXCEPT !.from_ = t] \in [from_ : Int, to_ : Int, time_duration_ : Diffs, intervals_ : Int]
        BY <1>1
      <3>. QED BY <3>1, <3>2
    <2>4. r.from_ = t /\ r.to_ = s.to_
      BY <1>1, <2>2
    <2>5. t <= s.to_
      BY <1>1, <1>3, SMT
    <2>. QED BY <2>2, <2>3, <2>4, <2>5 DEF Ordered
  <1>4. \/ push_time_before(s, t).seq = s
        \/ push_time_before(s, t).seq = OfCount(t, s.to_, 1).seq
        \/ t < s.from_ /\ push_time_before(s, t).seq = [s EXCEPT !.from_ = t, !.intervals_ = @ + 1]
    BY <1>1, SMT DEF push_time_before, FirstStep, Refused, Accepted
  <1>. QED BY <1>2, <1>3, <1>4

LEMMA AfterOrdered ==
  ASSUME NEW s, Ordered(s), NEW t \in Int
  PROVE  Ordered(push_time_after(s, t).seq)
  <1>1. s.from_ \in Int /\ s.to_ \in Int /\ s.intervals_ \in Int /\ s.time_duration_ \in Diffs /\ s.from_ <= s.to_
        /\ s \in [from_ : Int, to_ : Int, time_duration_ : Diffs, intervals_ : Int]
    BY DEF Ordered
  <1>2. Ordered(OfCount(s.from_, t, 1).seq)
    BY <1>1, CountOrdered, SMT
  <1>3. ASSUME t > s.to_ PROVE Ordered([s EXCEPT !.to_ = t, !.intervals_ = @ + 1])
    <2>1. PICK k \in Int : k = s.intervals_ + 1
      BY <1>1, SMT
    <2>2. PICK r : r = [s EXCEPT !.to_ = t, !.intervals_ = @ + 1]
      OBVIOUS
    <2>3. r \in [from_ : Int, to_ : Int, time_duration_ : Diffs, intervals_ : Int]
      <3>1. r = [[s EXCEPT !.to_ = t] EXCEPT !.intervals_ = k]
        BY <2>1, <2>2
      <3>2. [s EXCEPT !.to_ = t] \in [from_ : Int, to_ : Int, time_duration_ : Diffs, intervals_ : Int]
        BY <1>1
      <3>. QED BY <3>1, <3>2
    <2>4. r.from_ = s.from_ /\ r.to_ = t
      BY <1>1, <2>2
    <2>5. s.from_ <= t
      BY <1>1, <1>3, SMT
    <2>. QED BY <2>2, <2>3, <2>4, <2>5 DEF Ordered
  <1>4. \/ push_time_after(s, t).seq = s
        \/ push_time_after(s, t).seq = OfCount(s.from_, t, 1).seq
        \/ t > s.to_ /\ push_time_after(s, t).seq = [s EXCEPT !.to_ = t, !.intervals_ = @ + 1]
    BY <1>1, SMT DEF push_time_after, FirstStep, Refused, Accepted
  <1>. QED BY <1>2, <1>3, <1>4

LEMMA PushOrdered ==
  ASSUME NEW s, Ordered(s), NEW t \in Int
  PROVE  Ordered(push_time(s, t).seq)
  <1>1. push_time(s, t) = push_time_before(s, t) \/ push_time(s, t) = push_time_after(s, t)
    BY DEF push_time
  <1>. QED BY <1>1, BeforeOrdered, AfterOrdered

(* One more instant of make_from_range's series. *)
OneMore(before, p, k) ==
  IF before.going /\ p.ok THEN [seq |-> p.seq, used |-> k, going |-> TRUE] ELSE [before EXCEPT !.going = FALSE]

Partly(t) == [seq |-> OfInstant(t), used |-> 1, going |-> TRUE]

LEMMA OneMoreOrdered ==
  ASSUME NEW p, DOMAIN p = {"seq", "used", "going"}, Ordered(p.seq), NEW t \in Int, NEW k
  PROVE  LET r == OneMore(p, push_time_after(p.seq, t), k)
         IN  DOMAIN r = {"seq", "used", "going"} /\ Ordered(r.seq)
  <1>1. Ordered(push_time_after(p.seq, t).seq)
    BY AfterOrdered
  <1>. QED BY <1>1 DEF OneMore

(* make_from_range of three instants. *)
LEMMA RangeIs ==
  ASSUME NEW a \in Int, NEW b \in Int, NEW c \in Int
  PROVE  \E p, q : /\ p = OneMore(Partly(a), push_time_after(Partly(a).seq, b), 2)
                   /\ q = OneMore(p, push_time_after(p.seq, c), 3)
                   /\ make_from_range(<<a, b, c>>) = q
  <1>. DEFINE series == <<a, b, c>>
              F(q) == [k \in 1 .. Len(series) |->
                        IF k = 1 THEN Partly(series[1])
                        ELSE OneMore(q[k - 1], push_time_after(q[k - 1].seq, series[k]), k)]
              More(p, k) == OneMore(p, push_time_after(p.seq, series[k]), k)
              second == More(Partly(a), 2)
              third == More(second, 3)
              given == [k \in 1 .. 3 |-> IF k = 1 THEN Partly(a) ELSE IF k = 2 THEN second ELSE third]
  <1>1. Len(series) = 3 /\ series[1] = a /\ series[2] = b /\ series[3] = c
    OBVIOUS
  <1>2. given = F(given)
    <2>1. given[1] = Partly(a) /\ given[2] = second /\ given[3] = third
      <3>. HIDE DEF second, third, series
      <3>. QED BY SMT
    <2>2. \A k \in 1 .. 3 : given[k] = IF k = 1 THEN Partly(series[1])
                                       ELSE OneMore(given[k - 1], push_time_after(given[k - 1].seq, series[k]), k)
      <3>1. \A k \in 1 .. 3 : k = 1 \/ (k = 2 /\ k - 1 = 1) \/ (k = 3 /\ k - 1 = 2)
        <4>. HIDE DEF series, second, third, given, More, F
        <4>. TAKE k \in 1 .. 3
        <4>1. k = 1 \/ k = 2 \/ k = 3
          BY SMT
        <4>2. k \in Int
          OBVIOUS
        <4>3. k = 2 => k - 1 = 1
          BY <4>2, SMT
        <4>4. k = 3 => k - 1 = 2
          BY <4>2, SMT
        <4>. QED BY <4>1, <4>3, <4>4
      <3>2. \A k \in 1 .. 3 : k = 1 \/ given[k] = More(given[k - 1], k)
        <4>. HIDE DEF given
        <4>1. second = More(Partly(a), 2) /\ third = More(second, 3)
          OBVIOUS
        <4>. HIDE DEF second, third, More
        <4>. QED BY <2>1, <3>1, <4>1
      <3>. HIDE DEF given
      <3>. QED BY <1>1, <2>1, <3>2
    <2>3. given = [k \in 1 .. 3 |-> given[k]]
      OBVIOUS
    <2>. HIDE DEF given
    <2>. QED BY <1>1, <2>2, <2>3
  <1>3. (CHOOSE q : q = F(q)) = F(CHOOSE q : q = F(q))
    <2>. HIDE DEF F, given
    <2>. QED BY <1>2, Zenon
  <1>4. make_from_range(series) = (CHOOSE q : q = F(q))[Len(series)]
    BY Zenon DEF make_from_range, OneMore, Partly
  <1>5. PICK q : q = F(q) /\ make_from_range(series) = q[3]
    BY <1>1, <1>3, <1>4, Zenon
  <1>6. q[1] = Partly(a) /\ q[2] = OneMore(q[1], push_time_after(q[1].seq, b), 2)
        /\ q[3] = OneMore(q[2], push_time_after(q[2].seq, c), 3)
    <2>1. \A k \in 1 .. 3 : q[k] = IF k = 1 THEN Partly(series[1])
                                   ELSE OneMore(q[k - 1], push_time_after(q[k - 1].seq, series[k]), k)
      BY <1>1, <1>5
    <2>. HIDE DEF series, F
    <2>. QED BY <1>1, <2>1, SMT
  <1>. HIDE DEF F, More, second, third, given
  <1>. QED BY <1>5, <1>6, Zenon

LEMMA RangeOrdered ==
  ASSUME NEW a \in Int, NEW b \in Int, NEW c \in Int
  PROVE  Ordered(make_from_range(<<a, b, c>>).seq)
  <1>1. PICK p, q : /\ p = OneMore(Partly(a), push_time_after(Partly(a).seq, b), 2)
                    /\ q = OneMore(p, push_time_after(p.seq, c), 3)
                    /\ make_from_range(<<a, b, c>>) = q
    BY RangeIs
  <1>2. DOMAIN Partly(a) = {"seq", "used", "going"} /\ Ordered(Partly(a).seq)
    BY InstantOrdered DEF Partly
  <1>3. DOMAIN p = {"seq", "used", "going"} /\ Ordered(p.seq)
    BY <1>1, <1>2, OneMoreOrdered
  <1>4. Ordered(q.seq)
    BY <1>1, <1>3, OneMoreOrdered
  <1>. QED BY <1>1, <1>4

LEMMA ExtendedOrdered ==
  ASSUME NEW s, Ordered(s), Divisible(s.time_duration_), NEW i, i.from_ \in Int, i.to_ \in Int
  PROVE  Ordered(Extended(s, i).seq)
  <1>1. s.from_ \in Int /\ s.to_ \in Int /\ s.time_duration_ \in Diffs
    BY DEF Ordered
  <1>2. PICK x \in Int, y \in Int : /\ x = IF i.from_ < s.from_ THEN i.from_ ELSE s.from_
                                    /\ y = IF i.to_ > s.to_ THEN i.to_ ELSE s.to_
    BY <1>1
  <1>3. PICK u \in Int, v \in Int : u = Interval(x, y).from_ /\ v = Interval(x, y).to_
    BY IntervalOrdered
  <1>4. PICK n \in Int : n = compute_number_of_intervals(u, v, s.time_duration_).n
    BY <1>1, ComputedInt
  <1>5. Extended(s, i).seq = Seq0(Interval(x, y), s.time_duration_, Kept(n))
    BY <1>2, <1>3, <1>4 DEF Extended
  <1>. QED BY <1>1, <1>5, KeptInt, SeqOrdered

LEMMA BoundsDivide ==
  ASSUME Ordered(ts), InBounds
  PROVE  Divisible(ts.time_duration_)
  <1>1. PICK d \in Diffs : d = ts.time_duration_
    BY DEF Ordered
  <1>2. d.hours_ = 0 /\ d.minutes_ = 0 /\ d.seconds_ = 0 /\ (HasMonths(d) => Months(d) # 0)
    BY <1>1 DEF InBounds, Plain
  <1>3. PICK e \in Int : e = d.days_
    BY DEF Diffs
  <1>4. Seconds(d) = e * 86400
    BY <1>2, <1>3, SMT DEF Seconds, TimePart, Day
  <1>5. HasTime(d) => e # 0
    BY <1>2, <1>3 DEF HasTime
  <1>6. HasTime(d) => Seconds(d) # 0
    BY <1>4, <1>5, SMT
  <1>. QED BY <1>1, <1>2, <1>6 DEF Divisible

LEMMA InstantInt == \A t \in Instants : t \in Int
  BY InstantsAssumption

LEMMA CountInt == \A n \in Counts \cup {0} : n \in Int /\ n >= 0
  BY CountsAssumption

-----------------------------------------------------------------------------
(* The inductive invariant: the object is a sequence whose ends are in      *)
(* order.                                                                   *)
InOrder == Ordered(ts)

LEMMA InitInOrder == Init => InOrder
  BY EmptyOrdered DEF Init, InOrder

LEMMA NextInOrder ==
  ASSUME InOrder, [Next]_vars
  PROVE  InOrder'
  <1>. USE DEF InOrder
  <1>0. ASSUME NEW s, Ordered(s), ts' = s PROVE InOrder'
    <2>1. Ordered(ts')
      BY <1>0
    <2>. QED BY <2>1 DEF Ordered, Diffs
  <1>. HIDE DEF InOrder
  <1>o. Ordered(ts)
    BY DEF InOrder
  <1>1. CASE ConstructInstant
    <2>1. PICK t \in Instants : ts' = OfInstant(t)
      BY <1>1 DEF ConstructInstant
    <2>. QED BY <1>0, <2>1, InstantInt, InstantOrdered
  <1>2. CASE ConstructCount
    <2>1. PICK a \in Instants, b \in Instants, n \in Counts \cup {0} : ts' = OfCount(a, b, n).seq
      BY <1>2 DEF ConstructCount, Becomes
    <2>2. Ordered(OfCount(a, b, n).seq)
      BY InstantInt, CountInt, CountOrdered
    <2>. QED BY <1>0, <2>1, <2>2
  <1>3. CASE ConstructDiff
    <2>1. PICK a \in Instants, b \in Instants, d \in Steps : ts' = OfDiff(a, b, d).seq
      BY <1>3 DEF ConstructDiff, Becomes
    <2>2. Ordered(OfDiff(a, b, d).seq)
      BY InstantInt, OfDiffOrdered
    <2>. QED BY <1>0, <2>1, <2>2
  <1>4. CASE ConstructInterval
    <2>1. PICK a \in Instants, b \in Instants : ts' = OfInterval(Interval(a, b))
      BY <1>4 DEF ConstructInterval, Becomes
    <2>2. Ordered(OfInterval(Interval(a, b)))
      BY InstantInt, OfIntervalOrdered
    <2>. QED BY <1>0, <2>1, <2>2
  <1>5. CASE ConstructStep
    <2>1. PICK a \in Instants, d \in Steps, n \in Counts : ts' = OfStep(a, d, n)
      BY <1>5 DEF ConstructStep, Becomes
    <2>2. Ordered(OfStep(a, d, n))
      BY InstantInt, CountInt, OfStepOrdered
    <2>. QED BY <1>0, <2>1, <2>2
  <1>6. CASE MakeFromRange
    <2>1. PICK a \in Instants, b \in Instants, c \in Instants : ts' = make_from_range(<<a, b, c>>).seq
      BY <1>6 DEF MakeFromRange
    <2>2. Ordered(make_from_range(<<a, b, c>>).seq)
      BY InstantInt, RangeOrdered
    <2>. QED BY <1>0, <2>1, <2>2
  <1>7. CASE Reset
    <2>1. PICK t \in Int : ts' = [ts EXCEPT !.from_ = t, !.to_ = t, !.time_duration_ = NoDiff]
      BY <1>7, InstantInt DEF Reset
    <2>2. PICK s : s = [ts EXCEPT !.from_ = t, !.to_ = t, !.time_duration_ = NoDiff]
      OBVIOUS
    <2>3. s \in [from_ : Int, to_ : Int, time_duration_ : Diffs, intervals_ : Int]
      BY <1>o, <2>2, NoDiffType DEF Ordered
    <2>4. s.from_ = t /\ s.to_ = t
      BY <1>o, <2>2 DEF Ordered
    <2>5. Ordered(s)
      BY <2>3, <2>4 DEF Ordered
    <2>. QED BY <1>0, <2>1, <2>2, <2>5
  <1>8. CASE Push
    <2>1. PICK t \in Instants : ts' = push_time(ts, t).seq
      BY <1>8 DEF Push
    <2>2. Ordered(push_time(ts, t).seq)
      BY <1>o, InstantInt, PushOrdered
    <2>. QED BY <1>0, <2>1, <2>2
  <1>9. CASE ExtendByInterval
    <2>1. PICK a \in Instants, b \in Instants : InBounds /\ ts' = extend_by_interval(ts, Interval(a, b)).seq
      BY <1>9 DEF ExtendByInterval, Grows
    <2>2. PICK i : i = Interval(a, b) /\ i.from_ \in Int /\ i.to_ \in Int
      BY InstantInt, IntervalOrdered
    <2>3. extend_by_interval(ts, i).seq = ts \/ extend_by_interval(ts, i) = Extended(ts, i)
      BY DEF extend_by_interval, Refused
    <2>4. Ordered(Extended(ts, i).seq)
      BY <1>o, <2>1, <2>2, BoundsDivide, ExtendedOrdered
    <2>. QED BY <1>0, <1>o, <2>1, <2>2, <2>3, <2>4
  <1>10. CASE ExtendBySequence
    <2>1. PICK a \in Instants, b \in Instants, n \in Counts :
            InBounds /\ ts' = extend_by_sequence(ts, OfCount(a, b, n).seq).seq
      BY <1>10 DEF ExtendBySequence, Grows
    <2>2. PICK i : i = OfCount(a, b, n).seq /\ i.from_ \in Int /\ i.to_ \in Int
      <3>1. Ordered(OfCount(a, b, n).seq)
        BY InstantInt, CountInt, CountOrdered
      <3>. QED BY <3>1 DEF Ordered
    <2>3. extend_by_sequence(ts, i).seq = ts \/ extend_by_sequence(ts, i) = Extended(ts, i)
      BY DEF extend_by_sequence, Refused
    <2>4. Ordered(Extended(ts, i).seq)
      BY <1>o, <2>1, <2>2, BoundsDivide, ExtendedOrdered
    <2>. QED BY <1>0, <1>o, <2>1, <2>2, <2>3, <2>4
  <1>11. CASE Bound
    <2>1. PICK a \in Instants, b \in Instants :
            InBounds /\ (ts' = ts \/ ts' = bound_by_interval(ts, Interval(a, b)).seq)
      BY <1>11 DEF Bound, BoundBy
    <2>2. Ordered(bound_by_interval(ts, Interval(a, b)).seq)
      BY <1>o, <2>1, InstantInt, BoundsDivide, BoundOrdered
    <2>. QED BY <1>0, <1>o, <2>1, <2>2
  <1>12. CASE UNCHANGED vars
    BY <1>0, <1>o, <1>12 DEF vars
  <1>. QED BY <1>1, <1>2, <1>3, <1>4, <1>5, <1>6, <1>7, <1>8, <1>9, <1>10, <1>11, <1>12 DEF Next

(* TimeSequence never holds an interval that ends before it begins: every   *)
(* constructor, push_time, extend_by_interval, bound_by_interval and reset  *)
(* leaves its ends in order and its step and count whole numbers.           *)
THEOREM EndsInOrder == Spec => []InOrder
  BY InitInOrder, NextInOrder, PTL DEF Spec

(* full_number_of_intervals counts the greatest number of steps that fits   *)
(* into the interval the object holds, and compute_number_of_intervals      *)
(* agrees with it, for steps of months or of a fixed length, for all        *)
(* instants: no number of days, length of a month or leap year matters.     *)
THEOREM CountsAreGreatest == Spec => []CountIsGreatest
  <1>1. ASSUME InOrder PROVE CountIsGreatest
    <2>1. ts.from_ \in Int /\ ts.to_ \in Int /\ ts.from_ <= ts.to_
      BY <1>1 DEF InOrder, Ordered
    <2>2. SUFFICES ASSUME NEW d \in Steps \ {NoDiff},
                          ~(HasMonths(d) /\ HasTime(d)), HasMonths(d) => Date(ts.from_).d <= 28,
                          ts.from_ # ts.to_
                   PROVE  LET s == Seq0(Interval(ts.from_, ts.to_), d, 0)
                              f == full_number_of_intervals(ts.from_, ts.to_, d)
                              c == compute_number_of_intervals(ts.from_, ts.to_, d)
                          IN  Index(s, f.n) <= ts.to_ /\ ts.to_ < Index(s, f.n + 1) /\ (~c.err => c.n = f.n)
      BY DEF CountIsGreatest
    <2>3. PICK a \in Int, b \in Int : a = ts.from_ /\ b = ts.to_ /\ a < b
      BY <2>1, <2>2
    <2>4. PICK s : s = Seq0(Interval(a, b), d, 0)
      OBVIOUS
    <2>5. s.from_ = a /\ s.time_duration_ = d
      BY <2>3, <2>4 DEF Seq0, Interval
    <2>6. PICK f, c : f = full_number_of_intervals(a, b, d) /\ c = compute_number_of_intervals(a, b, d)
      OBVIOUS
    <2>7. Index(s, f.n) <= b /\ b < Index(s, f.n + 1) /\ (~c.err => c.n = f.n)
      BY <2>2, <2>3, <2>5, <2>6, Greatest
    <2>. QED BY <2>3, <2>4, <2>6, <2>7
  <1>. QED BY <1>1, EndsInOrder, PTL

-----------------------------------------------------------------------------
(* A sound sequence is a grid *)

MonthsLater(t, k) == DayOf(AddMonths(Date(t), k)) * Day + TimeOfDay(t)

(* The instant k months after another that is not in the last days of its   *)
(* month is on the same day of its month, at the same time.                 *)
LEMMA MonthsCompose ==
  ASSUME NEW t \in Int, Date(t).d <= 28, NEW k \in Int, NEW j \in Int
  PROVE  /\ MonthsLater(t, k) \in Int /\ Date(MonthsLater(t, k)).d = Date(t).d
         /\ TimeOfDay(MonthsLater(t, k)) = TimeOfDay(t)
         /\ MonthsLater(MonthsLater(t, k), j) = MonthsLater(t, k + j)
  <1>0. PICK u : u = DayOf(AddMonths(Date(t), k)) * Day + TimeOfDay(t)
    OBVIOUS
  <1>1. PICK c, i, s : Parts(t, c, i, s)
    BY InstantIs
  <1>2. /\ i \in Int /\ c.d \in Int /\ 1 <= c.d /\ c.d <= 28 /\ s \in Int /\ 0 <= s /\ s < Day
        /\ c = Date(t) /\ s = TimeOfDay(t)
    BY <1>1 DEF Parts
  <1>3. PICK n \in Int, x \in Int, y \in Int, d \in Int :
          n = i + k /\ x = First(n) /\ y = First(n + 1) /\ x + 28 <= y /\ d = c.d
    <2>1. PICK n \in Int : n = i + k
      BY <1>2
    <2>2. First(n) \in Int /\ First(n) + 28 <= First(n + 1)
      BY MonthsInOrder
    <2>3. First(n + 1) \in Int
      BY MonthsInOrder, n + 1 \in Int
    <2>. QED BY <1>2, <2>1, <2>2, <2>3
  <1>4. DayOf(AddMonths(Date(t), k)) = x + d - 1
    BY <1>1, <1>3, MonthsAfter
  <1>5. u = (x + d - 1) * Day + s
    BY <1>0, <1>2, <1>4
  <1>6. u \in Int
    BY <1>2, <1>5 DEF Day
  <1>7. PICK e, m, r : Parts(u, e, m, r)
    BY <1>6, InstantIs
  <1>8. /\ m \in Int /\ e.d \in Int /\ 1 <= e.d /\ r \in Int /\ 0 <= r /\ r < Day
        /\ e = Date(u) /\ r = TimeOfDay(u)
    BY <1>7 DEF Parts
  <1>9. PICK v \in Int, w \in Int, f \in Int :
          v = First(m) /\ w = First(m + 1) /\ f = e.d /\ u = (v + f - 1) * Day + r /\ v + f - 1 < w
    <2>1. First(m + 1) \in Int
      BY <1>8, MonthsInOrder, m + 1 \in Int
    <2>2. First(m) \in Int
      BY <1>8, MonthsInOrder
    <2>3. u = (First(m) + e.d - 1) * Day + r /\ First(m) + e.d - 1 < First(m + 1)
      BY <1>7 DEF Parts
    <2>. QED BY <1>8, <2>1, <2>2, <2>3
  <1>10. x + d - 1 = v + f - 1 /\ s = r
    <2>1. PICK p \in Int, q \in Int : p = x + d - 1 /\ q = v + f - 1
      OBVIOUS
    <2>2. p * 86400 + s = q * 86400 + r /\ 0 <= s /\ s < 86400 /\ 0 <= r /\ r < 86400
      BY <1>2, <1>5, <1>8, <1>9, <2>1 DEF Day
    <2>3. p = q /\ s = r
      <3>1. ~(p < q)
        BY <1>2, <1>8, <2>2, SMT
      <3>2. ~(q < p)
        BY <1>2, <1>8, <2>2, SMT
      <3>. QED BY <1>2, <1>8, <2>2, <3>1, <3>2, SMT
    <2>. QED BY <2>1, <2>3
  <1>11. ~(m < n)
    <2>1. m < n => w <= x
      BY <1>3, <1>8, <1>9, MonthBefore
    <2>. QED BY <1>2, <1>3, <1>9, <1>10, <2>1
  <1>12. ~(n < m)
    <2>1. n < m => y <= v
      BY <1>3, <1>8, <1>9, MonthBefore
    <2>. QED BY <1>2, <1>3, <1>8, <1>9, <1>10, <2>1
  <1>13. m = n /\ f = d
    <2>1. m = n
      BY <1>3, <1>8, <1>11, <1>12
    <2>. QED BY <1>3, <1>9, <1>10, <2>1
  <1>14. DayOf(AddMonths(Date(u), j)) = First(m + j) + e.d - 1
    BY <1>6, <1>7, MonthsAfter
  <1>15. DayOf(AddMonths(Date(t), k + j)) = First(i + (k + j)) + c.d - 1
    BY <1>1, MonthsAfter, k + j \in Int
  <1>16. i + (k + j) = m + j
    BY <1>2, <1>3, <1>13
  <1>17. c.d = e.d
    BY <1>3, <1>9, <1>13
  <1>18. DayOf(AddMonths(Date(u), j)) = DayOf(AddMonths(Date(t), k + j))
    BY <1>14, <1>15, <1>16, <1>17
  <1>19. MonthsLater(t, k) = u
    BY <1>0 DEF MonthsLater
  <1>20. MonthsLater(u, j) = MonthsLater(t, k + j)
    BY <1>2, <1>8, <1>10, <1>18 DEF MonthsLater
  <1>. QED BY <1>2, <1>6, <1>8, <1>10, <1>17, <1>19, <1>20

LEMMA MonthsComposed ==
  \A t \in Int : Date(t).d <= 28 =>
     \A k, j \in Int : MonthsLater(MonthsLater(t, k), j) = MonthsLater(t, k + j)
  <1>. SUFFICES ASSUME NEW t \in Int, Date(t).d <= 28, NEW k \in Int, NEW j \in Int
                PROVE  MonthsLater(MonthsLater(t, k), j) = MonthsLater(t, k + j)
    OBVIOUS
  <1>. QED BY MonthsCompose

LEMMA MonthsGrow ==
  ASSUME NEW t \in Int, NEW k \in Int, NEW l \in Int, k < l
  PROVE  MonthsLater(t, k) < MonthsLater(t, l)
  <1>1. PICK c, i, s : Parts(t, c, i, s)
    BY InstantIs
  <1>2. i \in Int /\ c.d \in Int /\ s \in Int /\ s = TimeOfDay(t)
    BY <1>1 DEF Parts
  <1>3. PICK m \in Int, n \in Int : m = i + k /\ n = i + l /\ m < n
    BY <1>2
  <1>4. PICK x \in Int, y \in Int, z \in Int : x = First(m) /\ y = First(m + 1) /\ z = First(n) /\ x + 28 <= y
    <2>1. First(m) \in Int /\ First(m) + 28 <= First(m + 1)
      BY MonthsInOrder
    <2>2. First(m + 1) \in Int
      BY MonthsInOrder, m + 1 \in Int
    <2>3. First(n) \in Int
      BY MonthsInOrder
    <2>. QED BY <2>1, <2>2, <2>3
  <1>5. y <= z
    BY <1>3, <1>4, MonthBefore
  <1>6. DayOf(AddMonths(Date(t), k)) = x + c.d - 1
    BY <1>1, <1>3, <1>4, MonthsAfter
  <1>7. DayOf(AddMonths(Date(t), l)) = z + c.d - 1
    BY <1>1, <1>3, <1>4, MonthsAfter
  <1>8. PICK d \in Int : d = c.d
    BY <1>2
  <1>9. (x + d - 1) * 86400 + s < (z + d - 1) * 86400 + s
    BY <1>2, <1>4, <1>5
  <1>. QED BY <1>2, <1>6, <1>7, <1>8, <1>9 DEF Day, MonthsLater

(* The instants of a sequence, numbered by its steps. *)
Regular(s) ==
  /\ Index(s, 0) = s.from_
  /\ \A k \in Int : Index(s, k) \in Int
  /\ \A k, l \in Int : k < l => Index(s, k) < Index(s, l)
  /\ \A t \in Int : s.from_ < t =>
       LET f == FullFrom(s, t) IN ~f.err /\ f.n \in Int /\ Index(s, f.n) <= t /\ t < Index(s, f.n + 1)
  /\ \A k, j \in Int : \A r :
       r.from_ = Index(s, k) /\ r.time_duration_ = s.time_duration_ => Index(r, j) = Index(s, k + j)

(* A step of some length that leads forward makes a regular sequence. *)
LEMMA RegularTime ==
  ASSUME NEW s, Ordered(s), NEW d \in Diffs, d = s.time_duration_, d # NoDiff, ~HasMonths(d), Seconds(d) > 0
  PROVE  Regular(s)
  <1>1. PICK a \in Int : a = s.from_
    BY DEF Ordered
  <1>2. PICK q \in Int : q = Seconds(d) /\ 0 < q
    BY DiffNumbers
  <1>3. \A k \in Int : Index(s, k) = a + k * q
    <2>1. \A k \in Int : Index(s, k) = s.from_ + k * Seconds(s.time_duration_)
      BY <1>1, IndexOfTime
    <2>. QED BY <1>1, <1>2, <2>1
  <1>4. Index(s, 0) = s.from_
    BY <1>1, <1>3, 0 * q = 0, 0 \in Int
  <1>5. \A k \in Int : Index(s, k) \in Int
    BY <1>3
  <1>6. \A k, l \in Int : k < l => Index(s, k) < Index(s, l)
    <2>. SUFFICES ASSUME NEW k \in Int, NEW l \in Int, k < l PROVE Index(s, k) < Index(s, l)
      OBVIOUS
    <2>1. k * q < l * q
      BY <1>2
    <2>2. PICK x \in Int, y \in Int : x = k * q /\ y = l * q
      OBVIOUS
    <2>. QED BY <1>3, <2>1, <2>2
  <1>7. ASSUME NEW t \in Int, s.from_ < t
        PROVE  LET f == FullFrom(s, t) IN ~f.err /\ f.n \in Int /\ Index(s, f.n) <= t /\ t < Index(s, f.n + 1)
    <2>1. full_number_of_intervals(a, t, d) = [n |-> Quot(t - a, Seconds(d)), err |-> FALSE]
      BY <1>1, <1>7, FullCount
    <2>2. PICK n : n = Quot(t - a, Seconds(d))
      OBVIOUS
    <2>3. n \in Int /\ Index(s, n) <= t /\ t < Index(s, n + 1)
      BY <1>1, <1>7, <2>2, GreatestTime
    <2>4. FullFrom(s, t) = [n |-> n, err |-> FALSE]
      BY <1>1, <2>1, <2>2 DEF FullFrom
    <2>. QED BY <2>3, <2>4
  <1>8. ASSUME NEW k \in Int, NEW j \in Int, NEW r, r.from_ = Index(s, k), r.time_duration_ = s.time_duration_
        PROVE  Index(r, j) = Index(s, k + j)
    <2>1. PICK u \in Int : u = r.from_ /\ u = a + k * q
      BY <1>3, <1>8
    <2>2. Index(r, j) = r.from_ + j * Seconds(r.time_duration_)
      BY <1>8, <2>1, IndexOfTime
    <2>3. Index(s, k + j) = a + (k + j) * q
      BY <1>3, k + j \in Int
    <2>4. (a + k * q) + j * q = a + (k + j) * q
      BY <1>2
    <2>. QED BY <1>2, <1>8, <2>1, <2>2, <2>3, <2>4
  <1>. QED BY <1>4, <1>5, <1>6, <1>7, <1>8 DEF Regular

LEMMA RegularMonths ==
  ASSUME NEW s, Ordered(s), NEW d \in Diffs, d = s.time_duration_, d # NoDiff, ~HasTime(d), Months(d) > 0,
         Date(s.from_).d <= 28
  PROVE  Regular(s)
  <1>1. PICK a \in Int : a = s.from_
    BY DEF Ordered
  <1>2. PICK q \in Int : q = Months(d) /\ 0 < q
    BY DiffNumbers
  <1>3. \A k \in Int : Index(s, k) = MonthsLater(a, k * q)
    <2>1. \A k \in Int :
            Index(s, k) = DayOf(AddMonths(Date(s.from_), k * Months(s.time_duration_))) * Day + TimeOfDay(s.from_)
      BY <1>1, IndexOfMonths
    <2>. QED BY <1>1, <1>2, <2>1 DEF MonthsLater
  <1>4. Index(s, 0) = s.from_
    <2>1. MonthsLater(a, 0) = a
      BY SameInstant DEF MonthsLater
    <2>2. Index(s, 0) = MonthsLater(a, 0 * q) /\ 0 * q = 0
      BY <1>3, 0 \in Int
    <2>. QED BY <1>1, <2>1, <2>2
  <1>5. \A k \in Int : Index(s, k) \in Int
    BY IndexInt
  <1>6. \A k, l \in Int : k < l => Index(s, k) < Index(s, l)
    <2>. SUFFICES ASSUME NEW k \in Int, NEW l \in Int, k < l PROVE Index(s, k) < Index(s, l)
      OBVIOUS
    <2>1. k * q < l * q
      BY <1>2
    <2>2. PICK x \in Int, y \in Int : x = k * q /\ y = l * q
      OBVIOUS
    <2>3. MonthsLater(a, x) < MonthsLater(a, y)
      BY <2>1, <2>2, MonthsGrow
    <2>. QED BY <1>3, <2>2, <2>3
  <1>7. ASSUME NEW t \in Int, s.from_ < t
        PROVE  LET f == FullFrom(s, t) IN ~f.err /\ f.n \in Int /\ Index(s, f.n) <= t /\ t < Index(s, f.n + 1)
    <2>1. full_number_of_intervals(a, t, d) = [n |-> Quot(MonthsBetween(a, t), Months(d)), err |-> FALSE]
      BY <1>1, <1>7, FullCount
    <2>2. PICK n : n = Quot(MonthsBetween(a, t), Months(d))
      OBVIOUS
    <2>3. n \in Int /\ Index(s, n) <= t /\ t < Index(s, n + 1)
      BY <1>1, <1>7, <2>2, GreatestMonths
    <2>4. FullFrom(s, t) = [n |-> n, err |-> FALSE]
      BY <1>1, <2>1, <2>2 DEF FullFrom
    <2>. QED BY <2>3, <2>4
  <1>8. ASSUME NEW k \in Int, NEW j \in Int, NEW r, r.from_ = Index(s, k), r.time_duration_ = s.time_duration_
        PROVE  Index(r, j) = Index(s, k + j)
    <2>1. PICK x \in Int, y \in Int : x = k * q /\ y = j * q
      OBVIOUS
    <2>2. PICK u : u = MonthsLater(a, x) /\ u = r.from_
      BY <1>3, <1>8, <2>1
    <2>3. u \in Int /\ MonthsLater(u, y) = MonthsLater(a, x + y)
      <3>1. Date(a).d <= 28
        BY <1>1
      <3>2. MonthsLater(a, x) \in Int
        BY <3>1, MonthsCompose
      <3>3. MonthsLater(MonthsLater(a, x), y) = MonthsLater(a, x + y)
        <4>1. \A m, n \in Int : MonthsLater(MonthsLater(a, m), n) = MonthsLater(a, m + n)
          BY <3>1, MonthsComposed, Zenon
        <4>. QED BY <4>1, Zenon
      <3>. QED BY <2>2, <3>2, <3>3, Zenon
    <2>4. Index(r, j) = DayOf(AddMonths(Date(r.from_), j * Months(r.time_duration_))) * Day + TimeOfDay(r.from_)
      BY <1>8, <2>2, <2>3, IndexOfMonths
    <2>5. Index(r, j) = MonthsLater(a, x + y)
      BY <1>2, <1>8, <2>1, <2>2, <2>3, <2>4 DEF MonthsLater
    <2>6. Index(s, k + j) = MonthsLater(a, (k + j) * q)
      BY <1>3, k + j \in Int
    <2>7. (k + j) * q = x + y
      BY <2>1
    <2>. QED BY <2>5, <2>6, <2>7
  <1>. QED BY <1>4, <1>5, <1>6, <1>7, <1>8 DEF Regular

LEMMA SoundRegular ==
  ASSUME NEW s, Ordered(s), Sound(s), Divisible(s.time_duration_)
  PROVE  /\ Regular(s)
         /\ \/ ~HasMonths(s.time_duration_) /\ HasTime(s.time_duration_) /\ Seconds(s.time_duration_) > 0
            \/ HasMonths(s.time_duration_) /\ ~HasTime(s.time_duration_) /\ Months(s.time_duration_) > 0
               /\ Date(s.from_).d <= 28
  <1>1. PICK d \in Diffs, a \in Int, b \in Int, n \in Int :
          d = s.time_duration_ /\ a = s.from_ /\ b = s.to_ /\ n = s.intervals_ /\ a <= b
    BY DEF Ordered
  <1>2. d # NoDiff /\ ~(HasMonths(d) /\ HasTime(d)) /\ (HasMonths(d) => Date(a).d <= 28) /\ n > 0 /\ Index(s, n) = b
    BY <1>1 DEF Sound, Plain, OnGrid
  <1>3. HasMonths(d) \/ HasTime(d)
    BY <1>2, DiffNumbers
  <1>4. CASE ~HasMonths(d)
    <2>1. PICK q \in Int : q = Seconds(d) /\ q # 0
      BY <1>1, <1>3, <1>4, DiffNumbers DEF Divisible
    <2>2. Index(s, n) = s.from_ + n * Seconds(s.time_duration_)
      BY <1>1, <1>4, IndexOfTime
    <2>3. a + n * q = b
      BY <1>1, <1>2, <2>1, <2>2
    <2>4. ~(q < 0)
      <3>1. q < 0 => n * q < 0
        BY <1>2
      <3>2. PICK x \in Int : x = n * q
        OBVIOUS
      <3>. QED BY <1>1, <2>3, <3>1, <3>2
    <2>5. Seconds(d) > 0
      BY <2>1, <2>4
    <2>. QED BY <1>1, <1>2, <1>3, <1>4, <2>5, RegularTime
  <1>5. CASE HasMonths(d)
    <2>1. PICK q \in Int : q = Months(d) /\ q # 0
      BY <1>1, <1>5, DiffNumbers DEF Divisible
    <2>2. Index(s, n) = DayOf(AddMonths(Date(s.from_), n * Months(s.time_duration_))) * Day + TimeOfDay(s.from_)
      BY <1>1, <1>2, <1>5, IndexOfMonths
    <2>3. PICK x \in Int : x = n * q /\ MonthsLater(a, x) = b
      BY <1>1, <1>2, <2>1, <2>2 DEF MonthsLater
    <2>4. ~(q < 0)
      <3>1. q < 0 => x < 0
        BY <1>2, <2>3
      <3>2. MonthsLater(a, 0) = a
        BY SameInstant DEF MonthsLater
      <3>3. x < 0 => MonthsLater(a, x) < MonthsLater(a, 0)
        BY MonthsGrow, 0 \in Int
      <3>. QED BY <1>1, <2>3, <3>1, <3>2, <3>3
    <2>5. Months(d) > 0
      BY <2>1, <2>4
    <2>. QED BY <1>1, <1>2, <1>5, <2>5, RegularMonths
  <1>. QED BY <1>4, <1>5

(* The points of a sequence from the k-th to the l-th. *)
Span(s, k, l) == {Index(s, j) : j \in k .. l}

(* A sequence that is cut at its k-th and its l-th point has the points between. *)
LEMMA CutPoints ==
  ASSUME NEW s, Ordered(s), Regular(s), s.time_duration_ # NoDiff, NEW k \in Int, NEW l \in Int, k <= l,
         NEW r, r = Cut(s, Index(s, k), Index(s, l), l - k).seq
  PROVE  Points(r) = Span(s, k, l)
  <1>1. PICK x \in Int, y \in Int : x = Index(s, k) /\ y = Index(s, l)
    BY DEF Regular
  <1>2. x <= y
    <2>1. k = l => x = y
      BY <1>1
    <2>2. k < l => x < y
      BY <1>1 DEF Regular
    <2>. QED BY <2>1, <2>2
  <1>3. r = [from_ |-> x, to_ |-> y, time_duration_ |-> s.time_duration_, intervals_ |-> l - k]
    BY <1>1, <1>2 DEF Cut, Made, Seq0, Interval
  <1>4. Points(r) = {Index(r, j) : j \in 0 .. l - k}
    BY <1>3 DEF Points
  <1>5. \A j \in Int : Index(r, j) = Index(s, k + j)
    BY <1>1, <1>3 DEF Regular
  <1>6. ASSUME NEW t PROVE t \in Points(r) <=> t \in Span(s, k, l)
    <2>1. ASSUME t \in Points(r) PROVE t \in Span(s, k, l)
      <3>1. PICK j \in 0 .. l - k : t = Index(r, j)
        BY <1>4, <2>1
      <3>2. j \in Int /\ k + j \in k .. l
        OBVIOUS
      <3>. QED BY <1>5, <3>1, <3>2 DEF Span
    <2>2. ASSUME t \in Span(s, k, l) PROVE t \in Points(r)
      <3>1. PICK j \in k .. l : t = Index(s, j)
        BY <2>2 DEF Span
      <3>2. PICK h \in 0 .. l - k : k + h = j
        BY j - k \in 0 .. l - k
      <3>3. t = Index(r, h)
        BY <1>5, <3>1, <3>2
      <3>. QED BY <1>4, <3>3
    <2>. QED BY <2>1, <2>2
  <1>. QED BY <1>6

(* The points that are not later than an instant: those up to the number of *)
(* steps that fit before it.                                                *)
LEMMA PointsUpTo ==
  ASSUME NEW s, Regular(s), NEW t \in Int, NEW n \in Int, Index(s, n) <= t, t < Index(s, n + 1), NEW j \in Int
  PROVE  Index(s, j) \in Int /\ (Index(s, j) <= t <=> j <= n)
  <1>1. PICK x \in Int, y \in Int, z \in Int : x = Index(s, n) /\ y = Index(s, n + 1) /\ z = Index(s, j)
    BY n + 1 \in Int DEF Regular
  <1>2. j < n => z < x
    BY <1>1 DEF Regular
  <1>3. j > n + 1 => y < z
    BY <1>1, n + 1 \in Int DEF Regular
  <1>4. (j = n => z = x) /\ (j = n + 1 => z = y)
    BY <1>1
  <1>. QED BY <1>1, <1>2, <1>3, <1>4

(* An instant before the end has its step before the last. *)
LEMMA StepInside ==
  ASSUME NEW s, Ordered(s), Regular(s), OnGrid(s), NEW t \in Int, s.from_ < t, t <= s.to_
  PROVE  LET n == FullFrom(s, t).n
         IN  /\ ~FullFrom(s, t).err /\ n \in 0 .. s.intervals_
             /\ t < s.to_ => n < s.intervals_
  <1>1. PICK f : f = FullFrom(s, t)
    OBVIOUS
  <1>2. ~f.err /\ f.n \in Int /\ Index(s, f.n) <= t /\ t < Index(s, f.n + 1)
    BY <1>1 DEF Regular
  <1>3. PICK n \in Int, p \in Int, e \in Int, a \in Int : n = f.n /\ p = s.intervals_ /\ e = s.to_ /\ a = s.from_
    BY <1>2 DEF Ordered
  <1>4. Index(s, 0) = a /\ Index(s, p) = e /\ a < t /\ t <= e
    BY <1>3 DEF OnGrid, Regular
  <1>5. PICK x \in Int, y \in Int : x = Index(s, n) /\ y = Index(s, n + 1) /\ x <= t /\ t < y
    <2>1. n + 1 \in Int
      OBVIOUS
    <2>. QED BY <1>2, <1>3, <2>1 DEF Regular
  <1>6. ~(n < 0)
    <2>1. n < 0 => n + 1 = 0 \/ n + 1 < 0
      OBVIOUS
    <2>2. n + 1 < 0 => y < a
      BY <1>4, <1>5, 0 \in Int, n + 1 \in Int DEF Regular
    <2>3. n + 1 = 0 => y = a
      BY <1>4, <1>5
    <2>. QED BY <1>4, <1>5, <2>1, <2>2, <2>3
  <1>7. ~(p < n)
    <2>1. p < n => e < x
      BY <1>4, <1>5 DEF Regular
    <2>. QED BY <1>4, <1>5, <2>1
  <1>8. t < e => n # p
    <2>1. n = p => x = e
      BY <1>4, <1>5
    <2>. QED BY <1>5, <2>1
  <1>. QED BY <1>1, <1>2, <1>3, <1>6, <1>7, <1>8

LEMMA NoTimeBetween ==
  ASSUME NEW t \in Int
  PROVE  DiffBetween(t, t) = NoDiff
  <1>1. PICK y \in Int, m \in Int, d \in Int : y = Date(t).y /\ m = Date(t).m /\ d = Date(t).d
    BY DateInt
  <1>2. y - y = 0 /\ m - m = 0 /\ d - d = 0
    OBVIOUS
  <1>3. Quot((t % Day) - (t % Day), 3600) = 0 /\ Quot((t % 3600) - (t % 3600), 60) = 0
        /\ Quot((t % 60) - (t % 60), 1) = 0
    <2>1. \A q \in Int : q > 0 => Quot(0, q) = 0
      BY SMT DEF Quot, Trunc
    <2>2. (t % Day) - (t % Day) = 0 /\ (t % 3600) - (t % 3600) = 0 /\ (t % 60) - (t % 60) = 0
      BY SMT DEF Day
    <2>3. Quot(0, 3600) = 0 /\ Quot(0, 60) = 0 /\ Quot(0, 1) = 0
      BY <2>1, SMT
    <2>. QED BY <2>2, <2>3, SMT
  <1>4. DiffBetween(t, t) = Diff(0, 0, 0, 0, 0, 0)
    BY <1>1, <1>2, <1>3, SMT DEF DiffBetween
  <1>. QED BY <1>4 DEF NoDiff

(* Every way of cutting a sequence with an interval: the points it returns are *)
(* given as a span first, and compared with those inside the interval then.    *)
LEMMA BoundCuts ==
  ASSUME NEW s, Ordered(s), Sound(s), Divisible(s.time_duration_),
         Plus(s.from_, s.time_duration_) = Index(s, 1),
         NEW i, i.from_ \in Int, i.to_ \in Int, i.from_ <= i.to_,
         NEW r, r = bound_by_interval(s, i), NEW q, ~r.err => q = r.seq
  PROVE  BoundReturns(s, i, q, r.err)
  <1>1. Regular(s) /\ OnGrid(s) /\ s.time_duration_ # NoDiff
    BY SoundRegular DEF Sound
  <1>2. PICK a \in Int, b \in Int, n \in Int :
          a = s.from_ /\ b = s.to_ /\ n = s.intervals_ /\ n > 0 /\ Index(s, 0) = a /\ Index(s, n) = b /\ a < b
    <2>1. PICK n \in Int : n = s.intervals_ /\ n > 0
      BY <1>1 DEF Ordered, OnGrid
    <2>2. Index(s, 0) < Index(s, n)
      BY <1>1, <2>1, 0 \in Int DEF Regular
    <2>. QED BY <1>1, <2>1, <2>2 DEF Ordered, OnGrid, Regular
  <1>3. PICK x \in Int, y \in Int : x = i.from_ /\ y = i.to_ /\ x <= y
    OBVIOUS
  <1>4. PICK c \in Int : c = Index(s, 1) /\ a < c
    <2>1. 1 \in Int /\ 0 \in Int /\ 0 < 1
      OBVIOUS
    <2>. QED BY <1>1, <1>2, <2>1 DEF Regular
  <1>5. Points(s) = Span(s, 0, n)
    BY <1>1, <1>2 DEF Points, Span
  <1>6. \A j \in 0 .. n : Index(s, j) \in Int /\ a <= Index(s, j) /\ Index(s, j) <= b
    <2>. SUFFICES ASSUME NEW j \in 0 .. n PROVE Index(s, j) \in Int /\ a <= Index(s, j) /\ Index(s, j) <= b
      OBVIOUS
    <2>1. j \in Int /\ (j = 0 \/ 0 < j) /\ (j = n \/ j < n)
      OBVIOUS
    <2>2. Index(s, j) \in Int /\ (0 < j => a < Index(s, j)) /\ (j < n => Index(s, j) < b)
      BY <1>1, <1>2, <2>1, 0 \in Int DEF Regular
    <2>. QED BY <1>2, <2>1, <2>2
  <1>7. ASSUME NEW t \in Int, a < t, t <= b, NEW f, f = FullFrom(s, t)
        PROVE  /\ ~f.err /\ f.n \in 0 .. n /\ (t < b => f.n < n)
               /\ Index(s, f.n) <= t /\ t < Index(s, f.n + 1)
               /\ \A j \in Int : Index(s, j) <= t <=> j <= f.n
    <2>1. f.n \in 0 .. n /\ ~f.err /\ (t < b => f.n < n)
      BY <1>1, <1>2, <1>7, StepInside
    <2>2. Index(s, f.n) <= t /\ t < Index(s, f.n + 1)
      BY <1>1, <1>2, <1>7 DEF Regular
    <2>3. PICK m \in Int : m = f.n
      BY <2>1
    <2>4. \A j \in Int : Index(s, j) <= t <=> j <= m
      BY <1>1, <1>7, <2>2, <2>3, PointsUpTo
    <2>. QED BY <2>1, <2>2, <2>3, <2>4
  <1>8. ASSUME NEW k \in Int, NEW l \in Int, 0 <= k, k <= l, l <= n
        PROVE  /\ Span(s, k, l) # {}
               /\ \A t : t \in Span(s, k, l) => t \in Points(s)
    <2>1. k \in k .. l /\ \A j \in k .. l : j \in 0 .. n
      BY <1>8
    <2>. QED BY <1>5, <2>1 DEF Span
  <1>9. Late(s, i) <=> c <= x /\ b <= y
    BY <1>2, <1>3, <1>4 DEF Late
  <1>10. intervals_intersect(s, i) <=> a <= y /\ x <= b
    BY <1>2, <1>3 DEF intervals_intersect
  <1>11. ASSUME a < y, x <= b, ~(c <= x /\ b <= y), NEW k \in Int, NEW l \in Int, 0 <= k, k <= l, l <= n,
                \A j \in 0 .. n : Index(s, j) \in Within(s, i) <=> k <= j /\ j <= l,
                ~r.err, Points(q) = Span(s, k, l)
         PROVE  BoundReturns(s, i, q, r.err)
    <2>1. ASSUME NEW t PROVE t \in Within(s, i) <=> t \in Span(s, k, l)
      <3>1. ASSUME t \in Within(s, i) PROVE t \in Span(s, k, l)
        <4>1. PICK j \in 0 .. n : t = Index(s, j)
          BY <1>5, <3>1 DEF Within, Span
        <4>2. j \in k .. l
          BY <1>11, <3>1, <4>1
        <4>. QED BY <4>1, <4>2 DEF Span
      <3>2. ASSUME t \in Span(s, k, l) PROVE t \in Within(s, i)
        <4>1. PICK j \in k .. l : t = Index(s, j)
          BY <3>2 DEF Span
        <4>2. j \in 0 .. n /\ k <= j /\ j <= l
          BY <1>11
        <4>. QED BY <1>11, <4>1, <4>2
      <3>. QED BY <3>1, <3>2
    <2>2. Within(s, i) = Span(s, k, l)
      BY <2>1
    <2>3. Within(s, i) # {}
      BY <1>8, <1>11, <2>2
    <2>4. intervals_intersect(s, i) /\ i.to_ # s.from_ /\ ~Late(s, i)
      BY <1>2, <1>3, <1>9, <1>10, <1>11
    <2>. QED BY <1>11, <2>2, <2>3, <2>4 DEF BoundReturns
  <1>12. \A j \in 0 .. n : Index(s, j) \in Within(s, i)
            <=> x <= Index(s, j) /\ Index(s, j) <= y /\ (Index(s, j) = x => Index(s, j) = a)
    <2>1. \A j \in 0 .. n : Index(s, j) \in Points(s)
      BY <1>5 DEF Span
    <2>. QED BY <1>2, <1>3, <2>1 DEF Within
  <1>13. CASE ~(a <= y /\ x <= b)
    <2>1. ~intervals_intersect(s, i) /\ ~contains(i, s)
      BY <1>2, <1>3, <1>10, <1>13 DEF contains
    <2>2. ~(i.from_ <= s.from_ /\ i.to_ >= s.from_ /\ i.to_ < s.to_)
          /\ ~(i.from_ > s.from_ /\ i.from_ <= s.to_ /\ i.to_ >= s.to_)
      BY <1>2, <1>3, <1>13
    <2>3. r = Failed(Empty)
      BY <2>1, <2>2 DEF bound_by_interval
    <2>4. r.err
      BY <2>3 DEF Failed
    <2>. QED BY <2>1, <2>4 DEF BoundReturns
  <1>14. CASE a <= y /\ x <= b /\ x <= a /\ b <= y
    <2>1. r = Made(s)
      <3>1. intervals_intersect(s, i) /\ contains(i, s)
        BY <1>2, <1>3, <1>10, <1>14 DEF contains
      <3>2. ~(i.from_ <= s.from_ /\ i.to_ >= s.from_ /\ i.to_ < s.to_)
            /\ ~(i.from_ > s.from_ /\ i.from_ <= s.to_ /\ i.to_ >= s.to_)
        BY <1>2, <1>3, <1>14
      <3>. QED BY <3>1, <3>2 DEF bound_by_interval
    <2>2. ~r.err /\ q = s
      BY <2>1 DEF Made
    <2>3. \A j \in 0 .. n : Index(s, j) \in Within(s, i) <=> 0 <= j /\ j <= n
      BY <1>6, <1>12, <1>14
    <2>4. a < y /\ ~(c <= x /\ b <= y)
      BY <1>2, <1>4, <1>14
    <2>5. 0 \in Int /\ 0 <= 0 /\ 0 <= n /\ n <= n
      BY <1>2
    <2>. QED BY <1>2, <1>5, <1>11, <1>14, <2>2, <2>3, <2>4, <2>5
  <1>15. CASE a <= y /\ x <= a /\ y < b
    <2>1. r = BoundRight(s, i)
      <3>1. intervals_intersect(s, i) /\ ~contains(i, s)
        BY <1>2, <1>3, <1>10, <1>15 DEF contains
      <3>2. i.from_ <= s.from_ /\ i.to_ >= s.from_ /\ i.to_ < s.to_
            /\ ~(i.from_ > s.from_ /\ i.from_ <= s.to_ /\ i.to_ >= s.to_)
        BY <1>2, <1>3, <1>15
      <3>. QED BY <3>1, <3>2 DEF bound_by_interval
    <2>2. PICK f : f = FullFrom(s, y)
      OBVIOUS
    <2>3. r = IF f.err THEN Failed(Empty)
              ELSE IF f.n = 0 THEN Made(OfInterval(Interval(a, a)))
              ELSE Cut(s, a, Index(s, f.n), f.n)
      BY <1>2, <1>3, <2>1, <2>2 DEF BoundRight
    <2>4. CASE y = a
      <3>1. f.err
        BY <1>1, <1>2, <2>2, <2>4 DEF FullFrom, full_number_of_intervals
      <3>2. r.err
        BY <2>3, <3>1 DEF Failed
      <3>. QED BY <1>2, <1>3, <2>4, <3>2 DEF BoundReturns
    <2>5. CASE y # a
      <3>1. /\ ~f.err /\ f.n \in 0 .. n
            /\ \A j \in Int : Index(s, j) <= y <=> j <= f.n
        BY <1>7, <1>15, <2>2, <2>5
      <3>2. PICK m \in Int : m = f.n /\ 0 <= m /\ m <= n
        BY <3>1
      <3>3. \A j \in 0 .. n : Index(s, j) \in Within(s, i) <=> 0 <= j /\ j <= m
        BY <1>6, <1>12, <1>15, <3>1, <3>2
      <3>4. ~r.err /\ Points(r.seq) = Span(s, 0, m)
        <4>1. CASE m = 0
          <5>1. Interval(a, a) = [from_ |-> a, to_ |-> a]
            BY DEF Interval
          <5>2. r = Made(Seq0([from_ |-> a, to_ |-> a], DiffBetween(a, a), 1))
            BY <2>3, <3>1, <3>2, <4>1, <5>1 DEF OfInterval
          <5>3. r.seq.from_ = a /\ r.seq.time_duration_ = NoDiff /\ ~r.err
            BY <5>2, NoTimeBetween DEF Seq0, Made
          <5>4. Points(r.seq) = {a}
            BY <5>3 DEF Points
          <5>5. \A t : t \in Span(s, 0, m) <=> t = a
            <6>1. \A j : j \in 0 .. m <=> j = 0
              BY <4>1
            <6>. QED BY <1>2, <6>1 DEF Span
          <5>. QED BY <5>3, <5>4, <5>5
        <4>2. CASE m # 0
          <5>1. r = Cut(s, Index(s, 0), Index(s, m), m - 0)
            BY <1>2, <2>3, <3>1, <3>2, <4>2
          <5>2. ~r.err
            BY <5>1 DEF Cut, Made
          <5>3. Points(r.seq) = Span(s, 0, m)
            BY <1>1, <3>2, <5>1, 0 \in Int, CutPoints
          <5>. QED BY <5>2, <5>3
        <4>. QED BY <4>1, <4>2
      <3>5. a < y /\ x <= b /\ ~(c <= x /\ b <= y) /\ q = r.seq
        BY <1>2, <1>15, <2>5, <3>4
      <3>6. 0 \in Int /\ 0 <= 0
        OBVIOUS
      <3>. QED BY <1>11, <3>2, <3>3, <3>4, <3>5, <3>6
    <2>. QED BY <2>4, <2>5
  <1>16. CASE a < x /\ x <= b /\ b <= y
    <2>1. r = BoundLeft(s, i)
      <3>1. intervals_intersect(s, i) /\ ~contains(i, s)
        BY <1>2, <1>3, <1>10, <1>16 DEF contains
      <3>2. i.from_ > s.from_ /\ i.from_ <= s.to_ /\ i.to_ >= s.to_
            /\ ~(i.from_ <= s.from_ /\ i.to_ >= s.from_ /\ i.to_ < s.to_)
        BY <1>2, <1>3, <1>16
      <3>. QED BY <3>1, <3>2 DEF bound_by_interval
    <2>2. PICK f : f = FullFrom(s, x)
      OBVIOUS
    <2>3. r = IF f.err THEN Failed(Empty)
              ELSE IF f.n = 0 THEN Cut(s, Index(s, 1), b, n - 1)
              ELSE Cut(s, a, Index(s, f.n), f.n)
      BY <1>2, <1>3, <2>1, <2>2 DEF BoundLeft
    <2>4. /\ ~f.err /\ f.n \in 0 .. n
          /\ \A j \in Int : Index(s, j) <= x <=> j <= f.n
      BY <1>7, <1>16, <2>2
    <2>5. PICK m \in Int : m = f.n /\ 0 <= m /\ m <= n
      BY <2>4
    <2>6. c <= x <=> 1 <= m
      BY <1>4, <2>4, <2>5, 1 \in Int
    <2>7. CASE m = 0
      <3>1. r = Cut(s, Index(s, 1), Index(s, n), n - 1)
        BY <1>2, <2>3, <2>4, <2>5, <2>7
      <3>2. ~r.err
        BY <3>1 DEF Cut, Made
      <3>3. 1 \in Int /\ 0 <= 1 /\ 1 <= n /\ n <= n
        BY <1>2
      <3>4. Points(r.seq) = Span(s, 1, n)
        BY <1>1, <1>2, <3>1, <3>3, CutPoints
      <3>5. \A j \in 0 .. n : Index(s, j) \in Within(s, i) <=> 1 <= j /\ j <= n
        <4>. SUFFICES ASSUME NEW j \in 0 .. n PROVE Index(s, j) \in Within(s, i) <=> 1 <= j /\ j <= n
          OBVIOUS
        <4>1. j \in Int /\ j <= n /\ (Index(s, j) <= x <=> j <= 0)
          BY <2>4, <2>5, <2>7
        <4>2. Index(s, j) \in Int /\ Index(s, j) <= y
          BY <1>6, <1>16
        <4>3. (j <= 0 => Index(s, j) = a) /\ a < x
          BY <1>2, <1>16
        <4>. QED BY <1>12, <4>1, <4>2, <4>3
      <3>6. a < y /\ ~(c <= x /\ b <= y) /\ q = r.seq
        BY <1>2, <1>16, <2>6, <2>7, <3>2
      <3>. QED BY <1>2, <1>11, <1>16, <3>2, <3>3, <3>4, <3>5, <3>6
    <2>8. CASE m # 0
      <3>1. r = Cut(s, Index(s, 0), Index(s, m), m - 0)
        BY <1>2, <2>3, <2>4, <2>5, <2>8
      <3>2. ~r.err
        BY <3>1 DEF Cut, Made
      <3>3. Points(r.seq) = Span(s, 0, m)
        BY <1>1, <2>5, <3>1, 0 \in Int, CutPoints
      <3>4. Before(s, i) = Span(s, 0, m)
        <4>1. ASSUME NEW t PROVE t \in Before(s, i) <=> t \in Span(s, 0, m)
          <5>1. ASSUME t \in Before(s, i) PROVE t \in Span(s, 0, m)
            <6>1. PICK j \in 0 .. n : t = Index(s, j) /\ t <= x
              BY <1>3, <1>5, <5>1 DEF Before, Span
            <6>2. j \in 0 .. m
              BY <2>4, <2>5, <6>1
            <6>. QED BY <6>1, <6>2 DEF Span
          <5>2. ASSUME t \in Span(s, 0, m) PROVE t \in Before(s, i)
            <6>1. PICK j \in 0 .. m : t = Index(s, j)
              BY <5>2 DEF Span
            <6>2. t <= x
              BY <2>4, <2>5, <6>1
            <6>3. t \in Points(s)
              BY <1>8, <2>5, <5>2, 0 \in Int
            <6>. QED BY <1>3, <6>2, <6>3 DEF Before
          <5>. QED BY <5>1, <5>2
        <4>. QED BY <4>1
      <3>5. intervals_intersect(s, i) /\ i.to_ # s.from_ /\ Late(s, i)
        BY <1>2, <1>3, <1>9, <1>10, <1>16, <2>5, <2>6, <2>8
      <3>. QED BY <3>2, <3>3, <3>4, <3>5 DEF BoundReturns
    <2>. QED BY <2>7, <2>8
  <1>17. CASE a < x /\ y < b
    <2>1. r = BoundInside(s, i)
      <3>1. intervals_intersect(s, i) /\ ~contains(i, s)
        BY <1>2, <1>3, <1>10, <1>17 DEF contains
      <3>2. ~(i.from_ <= s.from_ /\ i.to_ >= s.from_ /\ i.to_ < s.to_)
            /\ ~(i.from_ > s.from_ /\ i.from_ <= s.to_ /\ i.to_ >= s.to_)
        BY <1>2, <1>3, <1>17
      <3>. QED BY <3>1, <3>2 DEF bound_by_interval
    <2>2. PICK f, g : f = FullFrom(s, x) /\ g = FullFrom(s, y)
      OBVIOUS
    <2>3. a < x /\ x < b /\ x <= b /\ a < y /\ y < b /\ y <= b
      BY <1>3, <1>17
    <2>4. /\ ~f.err /\ f.n \in 0 .. n /\ f.n < n
          /\ Index(s, f.n) <= x /\ x < Index(s, f.n + 1)
          /\ \A j \in Int : Index(s, j) <= x <=> j <= f.n
      BY <1>7, <2>2, <2>3
    <2>5. /\ ~g.err /\ g.n \in 0 .. n
          /\ y < Index(s, g.n + 1)
          /\ \A j \in Int : Index(s, j) <= y <=> j <= g.n
      BY <1>7, <2>2, <2>3
    <2>6. PICK k \in Int, l \in Int : k = f.n /\ l = g.n /\ 0 <= k /\ k < n /\ 0 <= l /\ l <= n
      BY <2>4, <2>5
    <2>7. r = Cut(s, Index(s, k + 1), Index(s, l), Kept(l - (k + 1)))
      BY <1>3, <2>1, <2>2, <2>4, <2>5, <2>6 DEF BoundInside
    <2>8. k <= l
      <3>1. Index(s, k) <= y /\ Index(s, k) \in Int
        BY <1>3, <1>6, <2>4, <2>6
      <3>. QED BY <2>5, <2>6, <3>1
    <2>9. \A j \in 0 .. n : Index(s, j) \in Within(s, i) <=> k + 1 <= j /\ j <= l
      <3>. SUFFICES ASSUME NEW j \in 0 .. n PROVE Index(s, j) \in Within(s, i) <=> k + 1 <= j /\ j <= l
        OBVIOUS
      <3>1. j \in Int /\ (Index(s, j) <= x <=> j <= k) /\ (Index(s, j) <= y <=> j <= l)
        BY <2>4, <2>5, <2>6
      <3>2. PICK t \in Int : t = Index(s, j)
        BY <1>6
      <3>3. Index(s, j) \in Within(s, i) <=> x <= t /\ t <= y /\ (t = x => t = a)
        BY <1>12, <3>2
      <3>4. Index(s, j) \in Within(s, i) <=> ~(t <= x) /\ t <= y
        BY <2>3, <3>2, <3>3
      <3>. QED BY <2>6, <3>1, <3>2, <3>4
    <2>10. ~r.err /\ q = r.seq
      BY <2>7 DEF Cut, Made
    <2>11. CASE k < l
      <3>1. k + 1 \in Int /\ 0 <= k + 1 /\ k + 1 <= l /\ l <= n
        BY <2>6, <2>11
      <3>2. Kept(l - (k + 1)) = l - (k + 1)
        BY <2>6, <3>1, KeptInt
      <3>3. Points(q) = Span(s, k + 1, l)
        BY <1>1, <2>7, <2>10, <3>1, <3>2, CutPoints
      <3>4. ~(c <= x /\ b <= y)
        BY <2>3
      <3>. QED BY <1>11, <2>3, <2>9, <2>10, <3>1, <3>3, <3>4
    <2>12. CASE k = l
      <3>1. Within(s, i) = {}
        <4>1. ASSUME NEW t, t \in Within(s, i) PROVE FALSE
          <5>1. PICK j \in 0 .. n : t = Index(s, j)
            BY <1>5, <4>1 DEF Within, Span
          <5>. QED BY <2>6, <2>9, <2>12, <4>1, <5>1
        <4>. QED BY <4>1
      <3>2. k \in 0 .. n /\ k + 1 \in 0 .. n
        BY <2>6
      <3>3. PICK u \in Int, v \in Int : u = Index(s, k) /\ v = Index(s, k + 1) /\ u <= x /\ y < v
        BY <1>6, <2>4, <2>5, <2>6, <2>12, <3>2
      <3>4. q = Seq0(Interval(v, u), s.time_duration_, Kept(-1))
        <4>1. l - (k + 1) = -1
          BY <2>6, <2>12
        <4>. QED BY <2>7, <2>10, <2>12, <3>3, <4>1 DEF Cut, Made
      <3>5. Interval(v, u) = [from_ |-> u, to_ |-> v]
        BY <1>3, <3>3 DEF Interval
      <3>6. q.from_ = u /\ q.to_ = v /\ q.intervals_ = Kept(-1)
        BY <3>4, <3>5 DEF Seq0
      <3>7. u \in Points(s) /\ v \in Points(s)
        BY <1>5, <3>2, <3>3 DEF Span
      <3>8. intervals_intersect(s, i) /\ i.to_ # s.from_ /\ ~Late(s, i)
        BY <1>2, <1>3, <1>9, <1>10, <2>3
      <3>. QED BY <1>3, <2>10, <3>1, <3>3, <3>6, <3>7, <3>8 DEF BoundReturns
    <2>. QED BY <2>6, <2>8, <2>11, <2>12
  <1>. QED BY <1>2, <1>3, <1>13, <1>14, <1>15, <1>16, <1>17

(* What compute_number_of_intervals returns divides without a remainder. *)
LEMMA ComputedExact ==
  ASSUME NEW a \in Int, NEW b \in Int, a < b, NEW d \in Diffs, d # NoDiff, NEW c,
         c = compute_number_of_intervals(a, b, d), ~c.err
  PROVE  /\ ~HasMonths(d) /\ Seconds(d) # 0 => c.n \in Int /\ c.n * Seconds(d) = b - a
         /\ ~HasTime(d) /\ Months(d) # 0 => c.n \in Int /\ c.n * Months(d) = MonthsBetween(a, b)
  <1>1. Interval(a, b) = [from_ |-> a, to_ |-> b]
    BY DEF Interval
  <1>2. Months(d) \in Int /\ Seconds(d) \in Int
    BY DiffNumbers
  <1>3. \A p, q \in Int : q # 0 /\ Rem(p, q) = 0 => Quot(p, q) \in Int /\ Quot(p, q) * q = p
    <2>. SUFFICES ASSUME NEW p \in Int, NEW q \in Int, q # 0, Rem(p, q) = 0
                  PROVE  Quot(p, q) \in Int /\ Quot(p, q) * q = p
      OBVIOUS
    <2>1. PICK k \in Int : k = Quot(p, q)
      BY QuotInt
    <2>2. PICK x \in Int : x = q * k
      OBVIOUS
    <2>3. p - x = 0
      BY <2>1, <2>2 DEF Rem
    <2>4. p = x
      BY <2>3
    <2>5. k * q = x
      BY <2>2
    <2>. QED BY <2>1, <2>4, <2>5
  <1>4. ASSUME ~HasMonths(d), Seconds(d) # 0
        PROVE  c.n \in Int /\ c.n * Seconds(d) = b - a
    <2>1. HasTime(d) /\ Months(d) = 0
      BY <1>4, DiffNumbers
    <2>2. 0 * Months(d) = 0
      BY <2>1
    <2>3. Rem(SecondsBetween(a, b, 0), Seconds(d)) = 0 /\ c.n = Quot(SecondsBetween(a, b, 0), Seconds(d))
      BY <1>1, <1>4, <2>1, <2>2 DEF compute_number_of_intervals
    <2>4. PICK p \in Int : p = b - a
      OBVIOUS
    <2>5. Rem(p, Seconds(d)) = 0 /\ c.n = Quot(p, Seconds(d))
      BY <2>3, <2>4, NoMonthsBack
    <2>. QED BY <1>2, <1>3, <1>4, <2>4, <2>5
  <1>5. ASSUME ~HasTime(d), Months(d) # 0
        PROVE  c.n \in Int /\ c.n * Months(d) = MonthsBetween(a, b)
    <2>1. HasMonths(d)
      BY <1>5, DiffNumbers
    <2>2. Rem(MonthsBetween(a, b), Months(d)) = 0 /\ c.n = Quot(MonthsBetween(a, b), Months(d))
      BY <1>1, <1>5, <2>1 DEF compute_number_of_intervals
    <2>3. MonthsBetween(a, b) \in Int
      BY MonthsInt
    <2>. QED BY <1>2, <1>3, <1>5, <2>2, <2>3
  <1>. QED BY <1>4, <1>5

(* On the same day of a month at the same time, nothing is left. *)
LEMMA SameDayOfMonth ==
  ASSUME NEW a \in Int, NEW b \in Int, Date(a).d = Date(b).d, TimeOfDay(a) = TimeOfDay(b)
  PROVE  MonthsBetween(a, b) \in Int /\ MonthsLater(a, MonthsBetween(a, b)) = b
  <1>1. PICK c, i, f : Parts(a, c, i, f)
    BY InstantIs
  <1>2. PICK e, j, g : Parts(b, e, j, g)
    BY InstantIs
  <1>3. /\ c = Date(a) /\ e = Date(b) /\ f = TimeOfDay(a) /\ g = TimeOfDay(b) /\ c.d = e.d /\ f = g
        /\ i \in Int /\ j \in Int /\ f \in Int /\ c.d \in Int /\ i = MonthOf(c) /\ j = MonthOf(e)
        /\ c.y \in Int /\ c.m \in Int /\ e.y \in Int /\ e.m \in Int
    BY <1>1, <1>2 DEF Parts
  <1>4. PICK p \in Int, q \in Int, u \in Int, v \in Int, d \in Int :
          p = c.y /\ q = e.y /\ u = c.m /\ v = e.m /\ d = c.d
    BY <1>3
  <1>5. i = p * 12 + u - 1 /\ j = q * 12 + v - 1
    BY <1>3, <1>4 DEF MonthOf
  <1>6. MonthsBetween(a, b) = (q - p) * 12 + v - u - 0
    <2>1. ~(d < d) /\ ~(f < f)
      BY <1>3
    <2>2. MonthsBetween(a, b)
            = (e.y - c.y) * 12 + e.m - c.m
              - (IF e.d < c.d \/ (e.d = c.d /\ TimeOfDay(b) < TimeOfDay(a)) THEN 1 ELSE 0)
      BY <1>3, Zenon DEF MonthsBetween
    <2>. QED BY <1>3, <1>4, <2>1, <2>2
  <1>7. PICK k \in Int : k = MonthsBetween(a, b) /\ i + k = j
    BY <1>3, <1>5, <1>6
  <1>8. DayOf(AddMonths(Date(a), k)) = First(j) + c.d - 1
    BY <1>1, <1>7, MonthsAfter, SMTT(30)
  <1>9. b = (First(j) + c.d - 1) * Day + f
    BY <1>2, <1>3 DEF Parts
  <1>. QED BY <1>3, <1>7, <1>8, <1>9 DEF MonthsLater

(* The hull of a sound sequence and an interval, when it is counted again. *)
LEMMA ExtendedGrid ==
  ASSUME NEW s, Ordered(s), Sound(s), Divisible(s.time_duration_),
         NEW i, i.from_ \in Int, i.to_ \in Int, NEW r, r = Extended(s, i), ~r.err,
         HasMonths(s.time_duration_) => /\ Date(r.seq.from_).d = Date(r.seq.to_).d
                                        /\ TimeOfDay(r.seq.from_) = TimeOfDay(r.seq.to_)
  PROVE  /\ OnGrid(r.seq) /\ Ordered(r.seq) /\ r.seq.time_duration_ = s.time_duration_
         /\ r.seq.from_ = (IF i.from_ < s.from_ THEN i.from_ ELSE s.from_)
         /\ r.seq.to_ = (IF i.to_ > s.to_ THEN i.to_ ELSE s.to_)
  <1>1. PICK a \in Int, b \in Int, m \in Int, d \in Diffs :
          /\ a = s.from_ /\ b = s.to_ /\ m = s.intervals_ /\ d = s.time_duration_
          /\ Index(s, 0) = a /\ Index(s, m) = b /\ m > 0 /\ d # NoDiff
    BY SoundRegular DEF Ordered, Regular, Sound, OnGrid
  <1>2. a < b
    BY <1>1, 0 \in Int, SoundRegular DEF Regular
  <1>3. PICK x \in Int, y \in Int : /\ x = IF i.from_ < a THEN i.from_ ELSE a
                                    /\ y = IF i.to_ > b THEN i.to_ ELSE b
    OBVIOUS
  <1>4. x < y
    BY <1>2, <1>3
  <1>5. PICK c : c = compute_number_of_intervals(x, y, d)
    OBVIOUS
  <1>6. Interval(x, y) = [from_ |-> x, to_ |-> y]
    BY <1>4 DEF Interval
  <1>7. r = [seq |-> Seq0([from_ |-> x, to_ |-> y], d, Kept(c.n)), ok |-> TRUE, err |-> c.err]
    <2>1. PICK h : h = Interval(x, y) /\ h.from_ = x /\ h.to_ = y
      BY <1>6
    <2>2. r = [seq |-> Seq0(h, d, Kept(compute_number_of_intervals(h.from_, h.to_, d).n)), ok |-> TRUE,
               err |-> compute_number_of_intervals(h.from_, h.to_, d).err]
      BY <1>1, <1>3, <2>1 DEF Extended
    <2>. QED BY <1>5, <1>6, <2>1, <2>2
  <1>8. r.seq = [from_ |-> x, to_ |-> y, time_duration_ |-> d, intervals_ |-> Kept(c.n)] /\ ~c.err
    BY <1>7 DEF Seq0
  <1>9. c.n \in Int /\ Kept(c.n) \in Int
    BY <1>1, <1>5, ComputedInt, KeptInt
  <1>10. Ordered(r.seq)
    BY <1>4, <1>8, <1>9 DEF Ordered
  <1>11. \/ ~HasMonths(d) /\ HasTime(d) /\ Seconds(d) > 0
         \/ HasMonths(d) /\ ~HasTime(d) /\ Months(d) > 0
    BY <1>1, SoundRegular
  <1>12. CASE ~HasMonths(d) /\ HasTime(d) /\ Seconds(d) > 0
    <2>1. PICK q \in Int : q = Seconds(d) /\ q > 0
      BY <1>12, DiffNumbers
    <2>2. c.n * Seconds(d) = y - x
      BY <1>4, <1>5, <1>8, <1>12, <1>1, <2>1, ComputedExact
    <2>3. PICK n \in Int : n = c.n /\ n * q = y - x
      BY <1>9, <2>1, <2>2
    <2>4. n > 0
      <3>1. n <= 0 => n * q <= 0
        BY <2>1
      <3>2. PICK z \in Int : z = n * q
        OBVIOUS
      <3>. QED BY <1>4, <2>3, <3>1, <3>2
    <2>5. Index(r.seq, n) = r.seq.from_ + n * Seconds(r.seq.time_duration_)
      BY <1>8, <1>12, IndexOfTime
    <2>6. Index(r.seq, n) = x + n * q
      BY <1>8, <2>1, <2>5
    <2>7. Index(r.seq, n) = y
      <3>1. PICK z \in Int : z = n * q
        OBVIOUS
      <3>. QED BY <2>3, <2>6, <3>1
    <2>8. OnGrid(r.seq)
      <3>1. Kept(n) = n
        BY <2>4, KeptInt
      <3>. QED BY <1>8, <2>3, <2>4, <2>7, <3>1 DEF OnGrid
    <2>. QED BY <1>1, <1>3, <1>8, <1>10, <2>8
  <1>13. CASE HasMonths(d) /\ ~HasTime(d) /\ Months(d) > 0
    <2>1. PICK q \in Int : q = Months(d) /\ q > 0
      BY <1>13, DiffNumbers
    <2>2. c.n * Months(d) = MonthsBetween(x, y)
      BY <1>4, <1>5, <1>8, <1>13, <1>1, <2>1, ComputedExact
    <2>3. PICK n \in Int, z \in Int : n = c.n /\ z = n * q /\ z = MonthsBetween(x, y)
      BY <1>9, <2>1, <2>2
    <2>4. MonthsLater(x, z) = y
      <3>1. Date(x).d = Date(y).d /\ TimeOfDay(x) = TimeOfDay(y)
        BY <1>1, <1>8, <1>13
      <3>. QED BY <2>3, <3>1, SameDayOfMonth
    <2>5. n > 0
      <3>1. n <= 0 => z <= 0
        BY <2>1, <2>3
      <3>2. MonthsLater(x, 0) = x
        BY SameInstant DEF MonthsLater
      <3>3. z < 0 => MonthsLater(x, z) < MonthsLater(x, 0)
        BY MonthsGrow, 0 \in Int
      <3>4. z = 0 => MonthsLater(x, z) = x
        BY <3>2
      <3>. QED BY <1>4, <2>4, <3>1, <3>2, <3>3, <3>4
    <2>6. Index(r.seq, n)
            = DayOf(AddMonths(Date(r.seq.from_), n * Months(r.seq.time_duration_))) * Day + TimeOfDay(r.seq.from_)
      BY <1>8, <1>13, IndexOfMonths
    <2>7. Index(r.seq, n) = y
      BY <1>8, <2>1, <2>3, <2>4, <2>6 DEF MonthsLater
    <2>8. OnGrid(r.seq)
      <3>1. Kept(n) = n
        BY <2>5, KeptInt
      <3>. QED BY <1>8, <2>3, <2>5, <2>7, <3>1 DEF OnGrid
    <2>. QED BY <1>1, <1>3, <1>8, <1>10, <2>8
  <1>. QED BY <1>11, <1>12, <1>13

(* An extension by a sequence of days keeps every point. *)
LEMMA ExtendedKeeps ==
  ASSUME NEW s, Ordered(s), Sound(s), Divisible(s.time_duration_), ~HasMonths(s.time_duration_),
         NEW o, Ordered(o), extendable_by(s, o), NEW r, r = Extended(s, o), ~r.err
  PROVE  Points(s) \subseteq Points(r.seq)
  <1>1. PICK a \in Int, b \in Int, m \in Int, d \in Diffs, u \in Int, v \in Int :
          /\ a = s.from_ /\ b = s.to_ /\ m = s.intervals_ /\ d = s.time_duration_ /\ u = o.from_ /\ v = o.to_
          /\ m > 0 /\ d # NoDiff
    BY DEF Ordered, Sound, OnGrid
  <1>2. Regular(s) /\ ~HasMonths(d) /\ Seconds(d) > 0 /\ Index(s, m) = b
    BY <1>1, SoundRegular DEF Sound, OnGrid
  <1>3. PICK q \in Int : q = Seconds(d) /\ q > 0
    BY <1>2, DiffNumbers
  <1>4. PICK x \in Int, y \in Int, n \in Int :
          /\ x = (IF u < a THEN u ELSE a) /\ y = (IF v > b THEN v ELSE b)
          /\ r.seq.from_ = x /\ r.seq.to_ = y /\ n = r.seq.intervals_
          /\ r.seq.time_duration_ = d /\ Index(r.seq, n) = y
    <2>1. /\ OnGrid(r.seq) /\ Ordered(r.seq) /\ r.seq.time_duration_ = s.time_duration_
          /\ r.seq.from_ = (IF o.from_ < s.from_ THEN o.from_ ELSE s.from_)
          /\ r.seq.to_ = (IF o.to_ > s.to_ THEN o.to_ ELSE s.to_)
      BY <1>1, ExtendedGrid
    <2>. QED BY <1>1, <2>1 DEF OnGrid, Ordered
  <1>5. PICK c : c = compute_number_of_intervals(u, a, d)
    OBVIOUS
  <1>6. ~c.err
    BY <1>1, <1>5 DEF extendable_by
  <1>7. u # a
    BY <1>1, <1>5, <1>6 DEF compute_number_of_intervals
  <1>8. PICK k \in Int : k >= 0 /\ a = x + k * q
    <2>1. CASE u < a
      <3>1. c.n \in Int /\ c.n * Seconds(d) = a - u
        BY <1>1, <1>2, <1>3, <1>5, <1>6, <2>1, ComputedExact
      <3>2. PICK k \in Int, z \in Int : z = k * q /\ z = a - u
        BY <1>3, <3>1
      <3>3. k >= 0
        <4>1. k < 0 => z < 0
          BY <1>3, <3>2
        <4>. QED BY <2>1, <3>2, <4>1
      <3>4. a = x + k * q
        BY <1>4, <2>1, <3>2
      <3>. QED BY <3>3, <3>4
    <2>2. CASE ~(u < a)
      <3>1. 0 * q = 0 /\ x = a
        BY <1>4, <2>2
      <3>. QED BY <3>1, 0 \in Int
    <2>. QED BY <2>1, <2>2
  <1>9. \A j \in Int : Index(s, j) = a + j * q
    <2>1. \A j \in Int : Index(s, j) = s.from_ + j * Seconds(s.time_duration_)
      BY <1>1, <1>2, IndexOfTime
    <2>. QED BY <1>1, <1>3, <2>1
  <1>10. \A j \in Int : Index(r.seq, j) = x + j * q
    <2>1. \A j \in Int : Index(r.seq, j) = r.seq.from_ + j * Seconds(r.seq.time_duration_)
      BY <1>2, <1>4, IndexOfTime
    <2>. QED BY <1>3, <1>4, <2>1
  <1>11. ASSUME NEW j \in 0 .. m PROVE \E l \in 0 .. n : Index(s, j) = Index(r.seq, l)
    <2>1. PICK l \in Int : l = k + j
      OBVIOUS
    <2>2. Index(s, j) = a + j * q /\ Index(r.seq, l) = x + l * q
      BY <1>9, <1>10
    <2>3. (x + k * q) + j * q = x + (k + j) * q
      OBVIOUS
    <2>4. Index(s, j) = Index(r.seq, l)
      BY <1>8, <2>1, <2>2, <2>3
    <2>5. j * q <= m * q
      BY <1>3
    <2>6. l * q <= n * q
      <3>1. PICK e \in Int, f \in Int, g \in Int, h \in Int : e = j * q /\ f = m * q /\ g = l * q /\ h = n * q
        OBVIOUS
      <3>2. a + e = x + g
        BY <2>2, <2>4, <3>1
      <3>3. a + f = b
        BY <1>2, <1>9, <3>1
      <3>4. x + h = y
        BY <1>4, <1>10, <3>1
      <3>5. b <= y
        BY <1>4
      <3>. QED BY <2>5, <3>1, <3>2, <3>3, <3>4, <3>5
    <2>7. l <= n
      <3>1. n < l => n * q < l * q
        BY <1>3
      <3>2. PICK g \in Int, h \in Int : g = l * q /\ h = n * q
        OBVIOUS
      <3>. QED BY <2>6, <3>1, <3>2
    <2>8. 0 <= l
      BY <1>8, <2>1
    <2>. QED BY <2>4, <2>7, <2>8
  <1>12. Points(s) = {Index(s, j) : j \in 0 .. m}
    BY <1>1 DEF Points
  <1>13. Points(r.seq) = {Index(r.seq, j) : j \in 0 .. n}
    BY <1>1, <1>4 DEF Points
  <1>. QED BY <1>11, <1>12, <1>13

-----------------------------------------------------------------------------
LEMMA Operations ==
  ASSUME Next
  PROVE  /\ last'.op = "bound" => Bound
         /\ last'.op \in {"interval", "sequence"} => ExtendByInterval \/ ExtendBySequence
  <1>1. ConstructInstant => last'.op = "make"
    BY DEF ConstructInstant
  <1>2. ConstructCount => last'.op = "make"
    BY DEF ConstructCount, Becomes
  <1>3. ConstructDiff => last'.op = "make"
    BY DEF ConstructDiff, Becomes
  <1>4. ConstructInterval => last'.op = "make"
    BY DEF ConstructInterval, Becomes
  <1>5. ConstructStep => last'.op = "make"
    BY DEF ConstructStep, Becomes
  <1>6. MakeFromRange => last'.op = "make"
    BY DEF MakeFromRange
  <1>7. Reset => last'.op = "reset"
    BY DEF Reset
  <1>8. Push => last'.op = "push"
    BY DEF Push
  <1>9. ExtendByInterval => last'.op = "interval"
    BY DEF ExtendByInterval, Grows
  <1>10. ExtendBySequence => last'.op = "sequence"
    BY DEF ExtendBySequence, Grows
  <1>11. Bound => last'.op = "bound"
    BY DEF Bound, BoundBy
  <1>. QED BY <1>1, <1>2, <1>3, <1>4, <1>5, <1>6, <1>7, <1>8, <1>9, <1>10, <1>11 DEF Next

(* bound_by_interval keeps, of any sound sequence, the points inside the     *)
(* interval and no other, wherever the interval begins and ends, except in   *)
(* the three cases that BoundReturns names.                                  *)
THEOREM BoundsOnGrid == Spec => BoundOnGrid
  <1>1. ASSUME InOrder, Sound(ts), Plus(ts.from_, ts.time_duration_) = Index(ts, 1),
               NEW a \in Instants, NEW b \in Instants, BoundBy(Interval(a, b))
        PROVE  BoundReturns(ts, Interval(a, b), ts', last'.err)
    <2>1. PICK r : InBounds /\ r = bound_by_interval(ts, Interval(a, b))
                   /\ ts' = (IF r.err THEN ts ELSE r.seq) /\ last' = [op |-> "bound", err |-> r.err]
      BY <1>1 DEF BoundBy
    <2>2. Ordered(ts) /\ Divisible(ts.time_duration_)
      BY <1>1, <2>1, BoundsDivide DEF InOrder
    <2>3. PICK i : i = Interval(a, b) /\ i.from_ \in Int /\ i.to_ \in Int /\ i.from_ <= i.to_
      BY InstantInt, IntervalOrdered
    <2>4. (~r.err => ts' = r.seq) /\ last'.err = r.err
      BY <2>1
    <2>5. BoundReturns(ts, i, ts', r.err)
      BY <1>1, <2>1, <2>2, <2>3, <2>4, BoundCuts
    <2>. QED BY <2>3, <2>4, <2>5
  <1>2. InOrder /\ [Next]_vars
          => [last'.op = "bound" /\ Sound(ts) /\ Plus(ts.from_, ts.time_duration_) = Index(ts, 1) =>
                \A a, b \in Instants :
                    BoundBy(Interval(a, b)) => BoundReturns(ts, Interval(a, b), ts', last'.err)]_vars
    BY <1>1
  <1>. QED BY <1>2, EndsInOrder, PTL DEF Spec, BoundOnGrid

(* An extension that reports neither refusal nor error leaves a sequence    *)
(* that ends where its steps lead, and extending days by a sequence loses   *)
(* none of the points.                                                      *)
THEOREM GrowthOnGrid == Spec => GrowsOnGrid
  <1>. DEFINE months == HasMonths(ts.time_duration_)
  <1>1. ASSUME InOrder, Next, last'.op \in {"interval", "sequence"}, last'.ok, ~last'.err, Sound(ts),
               months => Date(ts'.from_).d = Date(ts'.to_).d /\ TimeOfDay(ts'.from_) = TimeOfDay(ts'.to_)
        PROVE  OnGrid(ts') /\ (last'.op = "sequence" /\ ~months => Points(ts) \subseteq Points(ts'))
    <2>1. ExtendByInterval \/ ExtendBySequence
      BY <1>1, Operations
    <2>2. Ordered(ts)
      BY <1>1 DEF InOrder
    <2>3. CASE ExtendByInterval
      <3>0. PICK a \in Instants, b \in Instants :
              \E r : /\ InBounds /\ r = extend_by_interval(ts, Interval(a, b))
                     /\ ts' = r.seq /\ r.ok /\ ~r.err /\ last'.op = "interval"
        BY <1>1, <2>3 DEF ExtendByInterval, Grows
      <3>1. PICK r : /\ InBounds /\ r = extend_by_interval(ts, Interval(a, b))
                     /\ ts' = r.seq /\ r.ok /\ ~r.err /\ last'.op = "interval"
        BY <3>0
      <3>2. PICK i : i = Interval(a, b) /\ i.from_ \in Int /\ i.to_ \in Int
        BY InstantInt, IntervalOrdered
      <3>3. r = Extended(ts, i)
        BY <3>1, <3>2 DEF extend_by_interval, Refused
      <3>4. Divisible(ts.time_duration_)
        BY <2>2, <3>1, BoundsDivide
      <3>5. OnGrid(r.seq)
        BY <1>1, <2>2, <3>1, <3>2, <3>3, <3>4, ExtendedGrid
      <3>. QED BY <3>1, <3>5
    <2>4. CASE ExtendBySequence
      <3>0. PICK a \in Instants, b \in Instants, n \in Counts :
              \E r : /\ InBounds /\ r = extend_by_sequence(ts, OfCount(a, b, n).seq)
                     /\ ts' = r.seq /\ r.ok /\ ~r.err
        BY <1>1, <2>4 DEF ExtendBySequence, Grows
      <3>1. PICK r : /\ InBounds /\ r = extend_by_sequence(ts, OfCount(a, b, n).seq)
                     /\ ts' = r.seq /\ r.ok /\ ~r.err
        BY <3>0
      <3>2. PICK o : o = OfCount(a, b, n).seq /\ Ordered(o)
        BY InstantInt, CountInt, CountOrdered
      <3>3. r = Extended(ts, o) /\ extendable_by(ts, o)
        BY <3>1, <3>2 DEF extend_by_sequence, Refused
      <3>4. Divisible(ts.time_duration_) /\ o.from_ \in Int /\ o.to_ \in Int
        BY <2>2, <3>1, <3>2, BoundsDivide DEF Ordered
      <3>5. OnGrid(r.seq)
        BY <1>1, <2>2, <3>1, <3>3, <3>4, ExtendedGrid
      <3>6. ~months => Points(ts) \subseteq Points(r.seq)
        BY <1>1, <2>2, <3>1, <3>2, <3>3, <3>4, ExtendedKeeps
      <3>. QED BY <3>1, <3>5, <3>6
    <2>. QED BY <2>1, <2>3, <2>4
  <1>2. InOrder /\ [Next]_vars
          => [LET m == HasMonths(ts.time_duration_)
              IN  /\ last'.op \in {"interval", "sequence"} /\ last'.ok /\ ~last'.err /\ Sound(ts)
                  /\ m => Date(ts'.from_).d = Date(ts'.to_).d /\ TimeOfDay(ts'.from_) = TimeOfDay(ts'.to_)
                  => OnGrid(ts') /\ (last'.op = "sequence" /\ ~m => Points(ts) \subseteq Points(ts'))]_vars
    BY <1>1
  <1>. QED BY <1>2, EndsInOrder, PTL DEF Spec, GrowsOnGrid

-----------------------------------------------------------------------------
(* Positions of an interval *)

LEMMA SoundDivisible ==
  ASSUME NEW s, Ordered(s), Sound(s)
  PROVE  Divisible(s.time_duration_)
  <1>1. PICK d \in Diffs : d = s.time_duration_
    BY DEF Ordered
  <1>2. d.hours_ = 0 /\ d.minutes_ = 0 /\ d.seconds_ = 0 /\ (HasMonths(d) => Months(d) # 0)
    BY <1>1 DEF Sound, Plain
  <1>3. PICK e \in Int : e = d.days_
    BY DEF Diffs
  <1>4. Seconds(d) = e * 86400
    BY <1>2, <1>3, SMT DEF Seconds, TimePart, Day
  <1>5. HasTime(d) => e # 0
    BY <1>2, <1>3 DEF HasTime
  <1>6. HasTime(d) => Seconds(d) # 0
    BY <1>4, <1>5, SMT
  <1>. QED BY <1>1, <1>2, <1>6 DEF Divisible

(* The same day of the month and time of day as the points of a sequence. *)
OnDay(s, t) == Date(t).d = Date(s.from_).d /\ TimeOfDay(t) = TimeOfDay(s.from_)

LEMMA StepsOfMonths ==
  ASSUME NEW s, Ordered(s), Sound(s), HasMonths(s.time_duration_), NEW k \in Int
  PROVE  Index(s, k) = MonthsLater(s.from_, k * Months(s.time_duration_))
  <1>1. ~HasTime(s.time_duration_) /\ s.from_ \in Int /\ s.time_duration_ \in Diffs
    BY DEF Sound, Plain, Ordered
  <1>2. Index(s, k)
          = DayOf(AddMonths(Date(s.from_), k * Months(s.time_duration_))) * Day + TimeOfDay(s.from_)
    BY <1>1, IndexOfMonths
  <1>. QED BY <1>2 DEF MonthsLater

LEMMA PositionFromStart ==
  ASSUME NEW s, Ordered(s), Sound(s), NEW t \in Int, s.from_ < t, HasMonths(s.time_duration_) => OnDay(s, t),
         NEW c, c = compute_number_of_intervals(s.from_, t, s.time_duration_), ~c.err
  PROVE  c.n \in Int /\ Index(s, c.n) = t
  <1>1. PICK d \in Diffs, a \in Int : d = s.time_duration_ /\ a = s.from_ /\ d # NoDiff
    BY DEF Ordered, Sound
  <1>2. \/ ~HasMonths(d) /\ Seconds(d) > 0
        \/ HasMonths(d) /\ ~HasTime(d) /\ Months(d) > 0
    BY <1>1, SoundDivisible, SoundRegular
  <1>3. Months(d) \in Int /\ Seconds(d) \in Int
    BY DiffNumbers
  <1>4. CASE ~HasMonths(d) /\ Seconds(d) > 0
    <2>1. PICK n \in Int, q \in Int : n = c.n /\ q = Seconds(d) /\ n * q = t - a
      BY <1>1, <1>3, <1>4, ComputedExact
    <2>2. Index(s, n) = s.from_ + n * Seconds(s.time_duration_)
      BY <1>1, <1>4, IndexOfTime
    <2>3. PICK x \in Int : x = n * q
      OBVIOUS
    <2>. QED BY <1>1, <2>1, <2>2, <2>3
  <1>5. CASE HasMonths(d) /\ ~HasTime(d) /\ Months(d) > 0
    <2>1. PICK n \in Int, q \in Int : n = c.n /\ q = Months(d) /\ n * q = MonthsBetween(a, t)
      BY <1>1, <1>3, <1>5, ComputedExact
    <2>2. Index(s, n) = MonthsLater(s.from_, n * Months(s.time_duration_))
      BY <1>1, <1>5, StepsOfMonths
    <2>3. MonthsLater(a, MonthsBetween(a, t)) = t
      BY <1>1, <1>5, SameDayOfMonth DEF OnDay
    <2>. QED BY <1>1, <2>1, <2>2, <2>3
  <1>. QED BY <1>2, <1>4, <1>5

LEMMA PositionFromEnd ==
  ASSUME NEW s, Ordered(s), Sound(s), NEW t \in Int, t < s.to_, HasMonths(s.time_duration_) => OnDay(s, t),
         NEW c, c = compute_number_of_intervals(t, s.to_, s.time_duration_), ~c.err
  PROVE  c.n \in Int /\ Index(s, s.intervals_ - c.n) = t
  <1>1. PICK d \in Diffs, a \in Int, b \in Int, p \in Int :
          /\ d = s.time_duration_ /\ a = s.from_ /\ b = s.to_ /\ p = s.intervals_
          /\ d # NoDiff /\ Index(s, p) = b
    BY DEF Ordered, Sound, OnGrid
  <1>2. \/ ~HasMonths(d) /\ Seconds(d) > 0
        \/ HasMonths(d) /\ ~HasTime(d) /\ Months(d) > 0 /\ Date(a).d <= 28
    BY <1>1, SoundDivisible, SoundRegular
  <1>3. Months(d) \in Int /\ Seconds(d) \in Int
    BY DiffNumbers
  <1>4. CASE ~HasMonths(d) /\ Seconds(d) > 0
    <2>1. PICK n \in Int, q \in Int : n = c.n /\ q = Seconds(d) /\ n * q = b - t
      BY <1>1, <1>3, <1>4, ComputedExact
    <2>2. \A k \in Int : Index(s, k) = a + k * q
      <3>1. \A k \in Int : Index(s, k) = s.from_ + k * Seconds(s.time_duration_)
        BY <1>1, <1>4, IndexOfTime
      <3>. QED BY <1>1, <2>1, <3>1
    <2>3. PICK m \in Int, x \in Int, y \in Int, z \in Int : m = p - n /\ x = n * q /\ y = p * q /\ z = m * q
      OBVIOUS
    <2>4. z = y - x
      BY <2>3
    <2>5. Index(s, m) = a + z /\ a + y = b
      BY <1>1, <2>2, <2>3
    <2>6. x = b - t
      BY <2>1, <2>3
    <2>. QED BY <1>1, <2>1, <2>3, <2>4, <2>5, <2>6
  <1>5. CASE HasMonths(d) /\ ~HasTime(d) /\ Months(d) > 0 /\ Date(a).d <= 28
    <2>1. PICK n \in Int, q \in Int : n = c.n /\ q = Months(d) /\ n * q = MonthsBetween(t, b)
      BY <1>1, <1>3, <1>5, ComputedExact
    <2>2. \A k \in Int : Index(s, k) = MonthsLater(a, k * q)
      <3>1. \A k \in Int : Index(s, k) = MonthsLater(s.from_, k * Months(s.time_duration_))
        BY <1>1, <1>5, StepsOfMonths
      <3>. QED BY <1>1, <2>1, <3>1
    <2>3. PICK m \in Int, x \in Int, y \in Int, z \in Int : m = p - n /\ x = n * q /\ y = p * q /\ z = m * q
      OBVIOUS
    <2>4. z = y - x
      BY <2>3
    <2>5. b = MonthsLater(a, y) /\ Index(s, m) = MonthsLater(a, z)
      BY <1>1, <2>2, <2>3
    <2>6. Date(b).d = Date(a).d /\ TimeOfDay(b) = TimeOfDay(a)
      <3>1. Date(a).d <= 28
        BY <1>5
      <3>. QED BY <2>5, <3>1, MonthsCompose
    <2>7. Date(t).d = Date(a).d /\ TimeOfDay(t) = TimeOfDay(a)
      BY <1>1, <1>5 DEF OnDay
    <2>8. PICK w \in Int : w = MonthsBetween(a, t) /\ MonthsLater(a, w) = t
      BY <2>7, SameDayOfMonth
    <2>9. MonthsLater(t, x) = b
      <3>1. Date(t).d = Date(b).d /\ TimeOfDay(t) = TimeOfDay(b)
        BY <2>6, <2>7
      <3>2. MonthsLater(t, MonthsBetween(t, b)) = b
        BY <3>1, SameDayOfMonth
      <3>. QED BY <2>1, <2>3, <3>2
    <2>10. MonthsLater(a, w + x) = b
      <3>1. Date(a).d <= 28
        BY <1>5
      <3>2. \A i, j \in Int : MonthsLater(MonthsLater(a, i), j) = MonthsLater(a, i + j)
        <4>. SUFFICES ASSUME NEW i \in Int, NEW j \in Int
                      PROVE  MonthsLater(MonthsLater(a, i), j) = MonthsLater(a, i + j)
          OBVIOUS
        <4>. QED BY <3>1, MonthsComposed
      <3>3. MonthsLater(MonthsLater(a, w), x) = MonthsLater(a, w + x)
        BY <3>2
      <3>. QED BY <2>8, <2>9, <3>3
    <2>11. w + x = y
      <3>1. PICK v \in Int : v = w + x
        OBVIOUS
      <3>2. MonthsLater(a, v) = MonthsLater(a, y) /\ MonthsLater(a, v) \in Int
        BY <2>5, <2>10, <3>1, <1>1
      <3>3. v < y => MonthsLater(a, v) < MonthsLater(a, y)
        BY MonthsGrow
      <3>4. y < v => MonthsLater(a, y) < MonthsLater(a, v)
        BY MonthsGrow
      <3>. QED BY <3>1, <3>2, <3>3, <3>4
    <2>12. w = z
      BY <2>4, <2>11
    <2>. QED BY <1>1, <2>1, <2>3, <2>5, <2>8, <2>12
  <1>. QED BY <1>2, <1>4, <1>5

(* The points from the k-th to the l-th are those from the one instant to   *)
(* the other.                                                               *)
LEMMA PointsBetween ==
  ASSUME NEW s, Ordered(s), Sound(s), NEW k \in Int, NEW l \in Int, NEW x \in Int, NEW y \in Int,
         Index(s, k) = x, Index(s, l) = y, s.from_ <= x, y <= s.to_
  PROVE  {Index(s, j) : j \in k .. l} = {z \in Points(s) : x <= z /\ z <= y}
  <1>1. PICK p \in Int, a \in Int, b \in Int : p = s.intervals_ /\ a = s.from_ /\ b = s.to_
    BY DEF Ordered
  <1>2. Regular(s) /\ Index(s, p) = b /\ Index(s, 0) = a
    BY <1>1, SoundDivisible, SoundRegular DEF Sound, OnGrid, Regular
  <1>3. Points(s) = {Index(s, j) : j \in 0 .. p}
    BY <1>1 DEF Points, Sound
  <1>4. \A i, j \in Int : /\ Index(s, i) \in Int /\ Index(s, j) \in Int
                          /\ i < j => Index(s, i) < Index(s, j)
    BY <1>2 DEF Regular
  <1>5. \A i, j \in Int : Index(s, i) <= Index(s, j) <=> i <= j
    <2>. SUFFICES ASSUME NEW i \in Int, NEW j \in Int PROVE Index(s, i) <= Index(s, j) <=> i <= j
      OBVIOUS
    <2>1. PICK u \in Int, v \in Int : u = Index(s, i) /\ v = Index(s, j)
      BY <1>4
    <2>2. (i < j => u < v) /\ (j < i => v < u) /\ (i = j => u = v)
      BY <1>4, <2>1
    <2>3. u <= v <=> i <= j
      BY <2>2
    <2>. QED BY <2>1, <2>3
  <1>6. 0 <= k
    <2>1. Index(s, 0) <= Index(s, k)
      BY <1>1, <1>2
    <2>. QED BY <1>5, <2>1, 0 \in Int
  <1>7. l <= p
    <2>1. Index(s, l) <= Index(s, p)
      BY <1>1, <1>2
    <2>. QED BY <1>5, <2>1
  <1>8. ASSUME NEW j \in k .. l PROVE j \in 0 .. p /\ x <= Index(s, j) /\ Index(s, j) <= y
    <2>1. j \in Int /\ k <= j /\ j <= l
      OBVIOUS
    <2>2. Index(s, k) <= Index(s, j) /\ Index(s, j) <= Index(s, l)
      BY <1>5, <2>1
    <2>. QED BY <1>6, <1>7, <2>1, <2>2
  <1>9. ASSUME NEW j \in 0 .. p, x <= Index(s, j), Index(s, j) <= y PROVE j \in k .. l
    <2>1. j \in Int
      OBVIOUS
    <2>2. k <= j /\ j <= l
      BY <1>5, <1>9, <2>1
    <2>. QED BY <2>1, <2>2
  <1>. QED BY <1>3, <1>8, <1>9

LEMMA PositionsCorrect ==
  ASSUME NEW s, Ordered(s), Sound(s), NEW seek, seek.from_ \in Int, seek.to_ \in Int, seek.from_ <= seek.to_,
         NEW pos, pos = interval_intersection_pos(seek, s), pos.found,
         NEW common, common = interval_intersection(seek, s),
         HasMonths(s.time_duration_) => OnDay(s, common.at.from_) /\ OnDay(s, common.at.to_)
  PROVE  {Index(s, k) : k \in pos.first .. pos.second}
           = {x \in Points(s) : common.at.from_ <= x /\ x <= common.at.to_}
  <1>a. PICK a \in Int, b \in Int, p \in Int : a = s.from_ /\ b = s.to_ /\ p = s.intervals_ /\ a <= b
    BY DEF Ordered
  <1>b. PICK u \in Int, v \in Int : u = seek.from_ /\ v = seek.to_ /\ u <= v
    OBVIOUS
  <1>c. PICK d : d = s.time_duration_
    OBVIOUS
  <1>1. /\ a = s.from_ /\ b = s.to_ /\ p = s.intervals_ /\ d = s.time_duration_ /\ a <= b
        /\ u = seek.from_ /\ v = seek.to_ /\ u <= v
    BY <1>a, <1>b, <1>c
  <1>2. PICK f, g :
          /\ f = (IF u <= a THEN [n |-> 0, err |-> FALSE] ELSE compute_number_of_intervals(a, u, d))
          /\ g = (IF v >= b THEN [n |-> 0, err |-> FALSE] ELSE compute_number_of_intervals(v, b, d))
    OBVIOUS
  <1>3. /\ intervals_intersect(seek, s) /\ ~f.err /\ ~g.err
        /\ pos = [found |-> TRUE, first |-> f.n, second |-> p - g.n]
    <2>1. pos = IF ~intervals_intersect(seek, s) \/ d = NoDiff \/ f.err \/ g.err THEN None
                ELSE [found |-> TRUE, first |-> f.n, second |-> p - g.n]
      BY <1>1, <1>2 DEF interval_intersection_pos
    <2>2. ~None.found
      BY DEF None
    <2>. QED BY <2>1, <2>2
  <1>4. PICK x \in Int, y \in Int : x = (IF u < a THEN a ELSE u) /\ y = (IF v < b THEN v ELSE b)
    OBVIOUS
  <1>5. x <= y /\ a <= x /\ y <= b
    BY <1>1, <1>3, <1>4 DEF intervals_intersect
  <1>6. common.at = [from_ |-> x, to_ |-> y]
    <2>1. Interval(x, y) = [from_ |-> x, to_ |-> y]
      BY <1>5 DEF Interval
    <2>2. common = [found |-> TRUE, at |-> Interval(x, y)]
      BY <1>1, <1>3, <1>4 DEF interval_intersection
    <2>. QED BY <2>1, <2>2
  <1>7. Index(s, 0) = a /\ Index(s, p) = b
    BY <1>1, SoundDivisible, SoundRegular DEF Sound, OnGrid, Regular
  <1>8. f.n \in Int /\ Index(s, f.n) = x
    <2>1. CASE u <= a
      <3>1. f.n = 0 /\ x = a
        BY <1>2, <1>4, <2>1
      <3>. QED BY <1>7, <3>1
    <2>2. CASE ~(u <= a)
      <3>1. x = u /\ a < u /\ f = compute_number_of_intervals(a, u, d)
        BY <1>2, <1>4, <2>2
      <3>2. HasMonths(d) => OnDay(s, u)
        BY <1>1, <1>6, <3>1
      <3>. QED BY <1>1, <1>3, <3>1, <3>2, PositionFromStart
    <2>. QED BY <2>1, <2>2
  <1>9. g.n \in Int /\ Index(s, p - g.n) = y
    <2>1. CASE v >= b
      <3>1. g.n = 0 /\ y = b /\ p - 0 = p
        BY <1>2, <1>4, <2>1
      <3>. QED BY <1>7, <3>1
    <2>2. CASE ~(v >= b)
      <3>1. y = v /\ v < b /\ g = compute_number_of_intervals(v, b, d)
        BY <1>2, <1>4, <2>2
      <3>2. HasMonths(d) => OnDay(s, v)
        BY <1>1, <1>6, <3>1
      <3>. QED BY <1>1, <1>3, <3>1, <3>2, PositionFromEnd
    <2>. QED BY <2>1, <2>2
  <1>10. PICK k \in Int, l \in Int : k = f.n /\ l = p - g.n
    BY <1>8, <1>9
  <1>11. {Index(s, j) : j \in k .. l} = {z \in Points(s) : x <= z /\ z <= y}
    <2>1. Index(s, k) = x /\ Index(s, l) = y /\ s.from_ <= x /\ y <= s.to_
      BY <1>1, <1>5, <1>8, <1>9, <1>10
    <2>. QED BY <2>1, PointsBetween
  <1>. QED BY <1>3, <1>6, <1>10, <1>11

(* When interval_intersection_pos finds positions in a sound sequence, they *)
(* name exactly the points that lie in the intersection.                    *)
THEOREM PositionsAreInside == Spec => []PositionsInside
  <1>1. ASSUME InOrder PROVE PositionsInside
    <2>1. SUFFICES ASSUME NEW a \in Instants, NEW b \in Instants, NEW seek, seek = Interval(a, b),
                          NEW pos, pos = interval_intersection_pos(seek, ts),
                          NEW common, common = interval_intersection(seek, ts), Sound(ts), pos.found,
                          HasMonths(ts.time_duration_) => OnDay(ts, common.at.from_) /\ OnDay(ts, common.at.to_)
                   PROVE  {Index(ts, k) : k \in pos.first .. pos.second}
                            = {x \in Points(ts) : common.at.from_ <= x /\ x <= common.at.to_}
      BY DEF PositionsInside, OnDay
    <2>2. seek.from_ \in Int /\ seek.to_ \in Int /\ seek.from_ <= seek.to_
      BY <2>1, InstantInt, IntervalOrdered
    <2>3. Ordered(ts)
      BY <1>1 DEF InOrder
    <2>. QED BY <2>1, <2>2, <2>3, PositionsCorrect
  <1>. QED BY <1>1, EndsInOrder, PTL

-----------------------------------------------------------------------------
(* Periods *)

LEMMA PeriodFields ==
  ASSUME NEW y, NEW mo, NEW d, NEW h, NEW mi, NEW s
  PROVE  /\ Period(y, mo, d, h, mi, s).years = y /\ Period(y, mo, d, h, mi, s).months = mo
         /\ Period(y, mo, d, h, mi, s).days = d /\ Period(y, mo, d, h, mi, s).hours = h
         /\ Period(y, mo, d, h, mi, s).minutes = mi /\ Period(y, mo, d, h, mi, s).seconds = s
  BY DEF Period

SetTime(p, a, b, c, e) == [p EXCEPT !.days = a, !.hours = b, !.minutes = c, !.seconds = e]
SetMinutes(p, a, b, c) == [p EXCEPT !.days = a, !.hours = b, !.minutes = c]
SetHours(p, a, b) == [p EXCEPT !.days = a, !.hours = b]

LEMMA PeriodCarried ==
  ASSUME NEW y, NEW mo, NEW d, NEW h, NEW mi, NEW s, NEW a, NEW b, NEW c, NEW e
  PROVE  /\ SetTime(Period(y, mo, d, h, mi, s), a, b, c, e) = Period(y, mo, a, b, c, e)
         /\ SetMinutes(Period(y, mo, d, h, mi, s), a, b, c) = Period(y, mo, a, b, c, s)
         /\ SetHours(Period(y, mo, d, h, mi, s), a, b) = Period(y, mo, a, b, mi, s)
  <1>. DEFINE p == Period(y, mo, d, h, mi, s)
  <1>1. [p EXCEPT !.days = a, !.hours = b] = [[p EXCEPT !.days = a] EXCEPT !.hours = b]
    OBVIOUS
  <1>2. [p EXCEPT !.days = a, !.hours = b, !.minutes = c]
          = [[[p EXCEPT !.days = a] EXCEPT !.hours = b] EXCEPT !.minutes = c]
    OBVIOUS
  <1>3. [p EXCEPT !.days = a, !.hours = b, !.minutes = c, !.seconds = e]
          = [[[[p EXCEPT !.days = a] EXCEPT !.hours = b] EXCEPT !.minutes = c] EXCEPT !.seconds = e]
    OBVIOUS
  <1>4. [p EXCEPT !.days = a] = Period(y, mo, a, h, mi, s)
    BY SMT DEF Period
  <1>5. [Period(y, mo, a, h, mi, s) EXCEPT !.hours = b] = Period(y, mo, a, b, mi, s)
    BY SMT DEF Period
  <1>6. [Period(y, mo, a, b, mi, s) EXCEPT !.minutes = c] = Period(y, mo, a, b, c, s)
    BY SMT DEF Period
  <1>7. [Period(y, mo, a, b, c, s) EXCEPT !.seconds = e] = Period(y, mo, a, b, c, e)
    BY SMT DEF Period
  <1>. HIDE DEF p
  <1>8. [p EXCEPT !.days = a, !.hours = b] = Period(y, mo, a, b, mi, s)
    BY <1>1, <1>4, <1>5, Zenon
  <1>9. [p EXCEPT !.days = a, !.hours = b, !.minutes = c] = Period(y, mo, a, b, c, s)
    BY <1>2, <1>4, <1>5, <1>6, Zenon
  <1>10. [p EXCEPT !.days = a, !.hours = b, !.minutes = c, !.seconds = e] = Period(y, mo, a, b, c, e)
    BY <1>3, <1>4, <1>5, <1>6, <1>7, Zenon
  <1>. QED BY <1>8, <1>9, <1>10, Zenon DEF p, SetTime, SetMinutes, SetHours

(* What the constructor does to hours, minutes and seconds alone. *)
LEMMA CarriedSeconds ==
  ASSUME NEW n \in Int, 0 <= n
  PROVE  TimePeriodOf(0, 0, 0, 0, 0, n)
           = IF n <= 59 THEN Period(0, 0, 0, 0, 0, n)
             ELSE Period(0, 0, n \div Day, (n % Day) \div 3600, (n % 3600) \div 60, n % 60)
  <1>1. CarrySeconds(Period(0, 0, 0, 0, 0, n))
          = IF n <= 59 THEN Period(0, 0, 0, 0, 0, n)
            ELSE Period(0, 0, n \div Day, (n % Day) \div 3600, (n % 3600) \div 60, n % 60)
    <2>1. n <= 59 => CarrySeconds(Period(0, 0, 0, 0, 0, n)) = Period(0, 0, 0, 0, 0, n)
      BY PeriodFields, SMT DEF CarrySeconds
    <2>2. ASSUME ~(n <= 59)
          PROVE  CarrySeconds(Period(0, 0, 0, 0, 0, n))
                   = Period(0, 0, n \div Day, (n % Day) \div 3600, (n % 3600) \div 60, n % 60)
      <3>1. PICK a, b, c, e : a = n \div Day /\ b = (n % Day) \div 3600 /\ c = (n % 3600) \div 60 /\ e = n % 60
        OBVIOUS
      <3>2. PICK p : p = Period(0, 0, 0, 0, 0, n)
        OBVIOUS
      <3>3. p.seconds = n
        BY <3>2, PeriodFields
      <3>4. CarrySeconds(p) = SetTime(p, a, b, c, e)
        BY <2>2, <3>1, <3>3, SMT DEF CarrySeconds, SetTime
      <3>5. SetTime(Period(0, 0, 0, 0, 0, n), a, b, c, e)
              = Period(0, 0, a, b, c, e)
        BY PeriodCarried, SMT
      <3>. QED BY <3>1, <3>2, <3>4, <3>5
    <2>. QED BY <2>1, <2>2
  <1>2. PICK d \in Int, h \in Int, m \in Int, s \in Int : d = n \div Day /\ h = (n % Day) \div 3600 /\ m = (n % 3600) \div 60 /\ s = n % 60
    BY SMT DEF Day
  <1>3. m < 60 /\ h < 24
    BY <1>2, SMT DEF Day
  <1>4. CASE n <= 59
    <2>1. CarryMinutes(Period(0, 0, 0, 0, 0, n)) = Period(0, 0, 0, 0, 0, n)
      BY PeriodFields DEF CarryMinutes
    <2>2. CarryHours(Period(0, 0, 0, 0, 0, n)) = Period(0, 0, 0, 0, 0, n)
      BY PeriodFields DEF CarryHours
    <2>. QED BY <1>1, <1>4, <2>1, <2>2, SMT DEF TimePeriodOf
  <1>5. CASE ~(n <= 59)
    <2>1. CarryMinutes(Period(0, 0, d, h, m, s)) = Period(0, 0, d, h, m, s)
      BY <1>3, PeriodFields, SMT DEF CarryMinutes
    <2>2. CarryHours(Period(0, 0, d, h, m, s)) = Period(0, 0, d, h, m, s)
      BY <1>3, PeriodFields, SMT DEF CarryHours
    <2>. QED BY <1>1, <1>2, <1>5, <2>1, <2>2, SMT DEF TimePeriodOf
  <1>. QED BY <1>4, <1>5

LEMMA CarriedMinutes ==
  ASSUME NEW m \in Int, 0 <= m, NEW s \in Int, 0 <= s, s <= 59
  PROVE  TimePeriodOf(0, 0, 0, 0, m, s)
           = IF m < 60 THEN Period(0, 0, 0, 0, m, s)
             ELSE Period(0, 0, m \div 1440, (m % 1440) \div 60, m % 60, s)
  <1>1. CarrySeconds(Period(0, 0, 0, 0, m, s)) = Period(0, 0, 0, 0, m, s)
    BY PeriodFields DEF CarrySeconds
  <1>2. CarryMinutes(Period(0, 0, 0, 0, m, s))
          = IF m < 60 THEN Period(0, 0, 0, 0, m, s)
            ELSE Period(0, 0, m \div 1440, (m % 1440) \div 60, m % 60, s)
    <2>1. m < 60 => CarryMinutes(Period(0, 0, 0, 0, m, s)) = Period(0, 0, 0, 0, m, s)
      BY PeriodFields, SMT DEF CarryMinutes
    <2>2. ASSUME ~(m < 60)
          PROVE  CarryMinutes(Period(0, 0, 0, 0, m, s)) = Period(0, 0, m \div 1440, (m % 1440) \div 60, m % 60, s)
      <3>1. PICK a, b, c : a = m \div 1440 /\ b = (m % 1440) \div 60 /\ c = m % 60
        OBVIOUS
      <3>2. PICK p : p = Period(0, 0, 0, 0, m, s)
        OBVIOUS
      <3>3. p.minutes = m
        BY <3>2, PeriodFields
      <3>4. CarryMinutes(p) = SetMinutes(p, a, b, c)
        BY <2>2, <3>1, <3>3, SMT DEF CarryMinutes, SetMinutes
      <3>5. SetMinutes(Period(0, 0, 0, 0, m, s), a, b, c) = Period(0, 0, a, b, c, s)
        BY PeriodCarried, SMT
      <3>. QED BY <3>1, <3>2, <3>4, <3>5
    <2>. QED BY <2>1, <2>2
  <1>3. PICK h \in Int : h = (m % 1440) \div 60 /\ h < 24
    BY SMT
  <1>4. CarryHours(Period(0, 0, 0, 0, m, s)) = Period(0, 0, 0, 0, m, s)
    BY PeriodFields DEF CarryHours
  <1>5. CarryHours(Period(0, 0, m \div 1440, h, m % 60, s)) = Period(0, 0, m \div 1440, h, m % 60, s)
    BY <1>3, PeriodFields, SMT DEF CarryHours
  <1>. QED BY <1>1, <1>2, <1>3, <1>4, <1>5, SMT DEF TimePeriodOf

LEMMA CarriedHours ==
  ASSUME NEW h \in Int, 0 <= h, NEW m \in Int, 0 <= m, m <= 59, NEW s \in Int, 0 <= s, s <= 59
  PROVE  TimePeriodOf(0, 0, 0, h, m, s)
           = IF h < 24 THEN Period(0, 0, 0, h, m, s) ELSE Period(0, 0, h \div 24, h % 24, m, s)
  <1>1. CarrySeconds(Period(0, 0, 0, h, m, s)) = Period(0, 0, 0, h, m, s)
    BY PeriodFields DEF CarrySeconds
  <1>2. CarryMinutes(Period(0, 0, 0, h, m, s)) = Period(0, 0, 0, h, m, s)
    BY PeriodFields DEF CarryMinutes
  <1>3. CarryHours(Period(0, 0, 0, h, m, s))
          = IF h < 24 THEN Period(0, 0, 0, h, m, s) ELSE Period(0, 0, h \div 24, h % 24, m, s)
    <2>1. h < 24 => CarryHours(Period(0, 0, 0, h, m, s)) = Period(0, 0, 0, h, m, s)
      BY PeriodFields, SMT DEF CarryHours
    <2>2. ASSUME ~(h < 24)
          PROVE  CarryHours(Period(0, 0, 0, h, m, s)) = Period(0, 0, h \div 24, h % 24, m, s)
      <3>1. PICK a, b : a = h \div 24 /\ b = h % 24
        OBVIOUS
      <3>2. PICK p : p = Period(0, 0, 0, h, m, s)
        OBVIOUS
      <3>3. p.hours = h
        BY <3>2, PeriodFields
      <3>4. CarryHours(p) = SetHours(p, a, b)
        BY <2>2, <3>1, <3>3, SMT DEF CarryHours, SetHours
      <3>5. SetHours(Period(0, 0, 0, h, m, s), a, b) = Period(0, 0, a, b, m, s)
        BY PeriodCarried, SMT
      <3>. QED BY <3>1, <3>2, <3>4, <3>5
    <2>. QED BY <2>1, <2>2
  <1>. QED BY <1>1, <1>2, <1>3, SMT DEF TimePeriodOf

(* A period of days and time that lasts n seconds, no part of it negative. *)
Lasts(p, n) ==
  /\ p.years = 0 /\ p.months = 0
  /\ p.days \in Nat /\ p.hours \in Nat /\ p.minutes \in Nat /\ p.seconds \in Nat
  /\ p.days * Day + p.hours * 3600 + p.minutes * 60 + p.seconds = n

LEMMA PeriodLasts ==
  ASSUME NEW d \in Int, NEW h \in Int, NEW m \in Int, NEW s \in Int, d >= 0, h >= 0, m >= 0, s >= 0,
         NEW n, d * Day + h * 3600 + m * 60 + s = n
  PROVE  Lasts(Period(0, 0, d, h, m, s), n)
  <1>1. d \in Nat /\ h \in Nat /\ m \in Nat /\ s \in Nat
    BY SMT
  <1>. QED BY <1>1, PeriodFields, SMT DEF Lasts

LEMMA SecondsLast ==
  ASSUME NEW n \in Int, 0 <= n
  PROVE  Lasts(TimePeriodOf(0, 0, 0, 0, 0, n), n)
  <1>1. CASE n <= 59
    <2>1. TimePeriodOf(0, 0, 0, 0, 0, n) = Period(0, 0, 0, 0, 0, n)
      BY <1>1, CarriedSeconds, SMT
    <2>2. 0 * Day + 0 * 3600 + 0 * 60 + n = n
      BY SMT DEF Day
    <2>3. Lasts(Period(0, 0, 0, 0, 0, n), n)
      BY <2>2, PeriodLasts, 0 \in Int, 0 >= 0, SMT
    <2>. QED BY <2>1, <2>3, SMT
  <1>2. CASE ~(n <= 59)
    <2>1. PICK d \in Int, h \in Int, m \in Int, s \in Int :
            d = n \div Day /\ h = (n % Day) \div 3600 /\ m = (n % 3600) \div 60 /\ s = n % 60
      BY SMT DEF Day
    <2>2. TimePeriodOf(0, 0, 0, 0, 0, n) = Period(0, 0, d, h, m, s)
      BY <1>2, <2>1, CarriedSeconds, SMT
    <2>3. d >= 0 /\ h >= 0 /\ m >= 0 /\ s >= 0 /\ d * Day + h * 3600 + m * 60 + s = n
      BY <2>1, SMT DEF Day
    <2>4. Lasts(Period(0, 0, d, h, m, s), n)
      BY <2>3, PeriodLasts, SMT
    <2>. QED BY <2>2, <2>4, SMT
  <1>. QED BY <1>1, <1>2

LEMMA MinutesLast ==
  ASSUME NEW n \in Int, 0 <= n
  PROVE  Lasts(TimePeriodOf(0, 0, 0, 0, n \div 60, n % 60), n)
  <1>1. PICK m \in Int, s \in Int : m = n \div 60 /\ s = n % 60 /\ 0 <= m /\ 0 <= s /\ s <= 59 /\ m * 60 + s = n
    BY SMT
  <1>2. CASE m < 60
    <2>1. TimePeriodOf(0, 0, 0, 0, m, s) = Period(0, 0, 0, 0, m, s)
      BY <1>1, <1>2, CarriedMinutes, SMT
    <2>2. 0 * Day + 0 * 3600 + m * 60 + s = n
      BY <1>1, SMT DEF Day
    <2>3. Lasts(Period(0, 0, 0, 0, m, s), n)
      BY <1>1, <2>2, PeriodLasts, SMT
    <2>. QED BY <1>1, <2>1, <2>3, SMT
  <1>3. CASE ~(m < 60)
    <2>1. PICK d \in Int, h \in Int, r \in Int : d = m \div 1440 /\ h = (m % 1440) \div 60 /\ r = m % 60
      BY SMT
    <2>2. TimePeriodOf(0, 0, 0, 0, m, s) = Period(0, 0, d, h, r, s)
      BY <1>1, <1>3, <2>1, CarriedMinutes, SMT
    <2>3. d >= 0 /\ h >= 0 /\ r >= 0 /\ d * Day + h * 3600 + r * 60 + s = n
      BY <1>1, <2>1, SMT DEF Day
    <2>4. Lasts(Period(0, 0, d, h, r, s), n)
      BY <1>1, <2>3, PeriodLasts, SMT
    <2>. QED BY <1>1, <2>2, <2>4, SMT
  <1>. QED BY <1>2, <1>3

LEMMA HoursLast ==
  ASSUME NEW n \in Int, 0 <= n
  PROVE  Lasts(TimePeriodOf(0, 0, 0, n \div 3600, (n % 3600) \div 60, n % 60), n)
  <1>1. PICK h \in Int, m \in Int, s \in Int :
          h = n \div 3600 /\ m = (n % 3600) \div 60 /\ s = n % 60
    BY SMT
  <1>2. 0 <= h /\ 0 <= m /\ m <= 59 /\ 0 <= s /\ s <= 59 /\ h * 3600 + m * 60 + s = n
    BY <1>1, SMT
  <1>3. CASE h < 24
    <2>1. TimePeriodOf(0, 0, 0, h, m, s) = Period(0, 0, 0, h, m, s)
      BY <1>2, <1>3, CarriedHours, SMT
    <2>2. 0 * Day + h * 3600 + m * 60 + s = n
      BY <1>2, SMT DEF Day
    <2>3. Lasts(Period(0, 0, 0, h, m, s), n)
      BY <1>2, <2>2, PeriodLasts, SMT
    <2>. QED BY <1>1, <2>1, <2>3, SMT
  <1>4. CASE ~(h < 24)
    <2>1. PICK d \in Int, r \in Int : d = h \div 24 /\ r = h % 24
      BY SMT
    <2>2. TimePeriodOf(0, 0, 0, h, m, s) = Period(0, 0, d, r, m, s)
      BY <1>2, <1>4, <2>1, CarriedHours, SMT
    <2>3. d >= 0 /\ r >= 0 /\ d * Day + r * 3600 + m * 60 + s = n
      BY <1>2, <2>1, SMT DEF Day
    <2>4. Lasts(Period(0, 0, d, r, m, s), n)
      BY <1>2, <2>3, PeriodLasts, SMT
    <2>. QED BY <1>1, <2>2, <2>4, SMT
  <1>. QED BY <1>3, <1>4

LEMMA TwiceMonths ==
  ASSUME NEW t \in Int, NEW j \in Int, NEW k \in Int
  PROVE  AddMonths(AddMonths(Date(t), j), k) = AddMonths(Date(t), j + k)
  <1>1. PICK c : c = Date(t) /\ c.y \in Int /\ c.m \in Int
    BY DateInt
  <1>2. PICK i \in Int : i = c.y * 12 + c.m - 1 + j
    BY <1>1
  <1>3. AddMonths(c, j) = [y |-> i \div 12, m |-> (i % 12) + 1, d |-> c.d]
    BY <1>2 DEF AddMonths
  <1>4. (i \div 12) * 12 + ((i % 12) + 1) - 1 + k = i + k
    BY <1>2, SMT
  <1>5. AddMonths(AddMonths(c, j), k) = [y |-> (i + k) \div 12, m |-> ((i + k) % 12) + 1, d |-> c.d]
    BY <1>3, <1>4 DEF AddMonths
  <1>6. c.y * 12 + c.m - 1 + (j + k) = i + k
    BY <1>1, <1>2
  <1>7. AddMonths(c, j + k) = [y |-> (i + k) \div 12, m |-> ((i + k) % 12) + 1, d |-> c.d]
    BY <1>6 DEF AddMonths
  <1>. QED BY <1>1, <1>5, <1>7

LEMMA NoMonths ==
  ASSUME NEW t \in Int
  PROVE  DayOf(AddMonths(AddMonths(Date(t), 12 * 0), 0)) * Day + TimeOfDay(t) = t
  <1>1. AddMonths(AddMonths(Date(t), 0), 0) = AddMonths(Date(t), 0 + 0)
    BY TwiceMonths, 0 \in Int
  <1>2. 12 * 0 = 0 /\ 0 + 0 = 0
    OBVIOUS
  <1>. QED BY <1>1, <1>2, SameInstant

(* A period of n seconds leads n seconds on and back. *)
LEMMA LastsLeads ==
  ASSUME NEW a \in Int, NEW n \in Int, NEW p, Lasts(p, n)
  PROVE  /\ PlusPeriod(a, p) = a + n /\ MinusPeriod(a + n, p) = a
         /\ min_valuable(p) \notin {"seconds", "minutes"} => get_next_tp(p, a) + TimeOfDay(a) = a + n
  <1>1. PICK d \in Nat, h \in Nat, m \in Nat, s \in Nat :
          d = p.days /\ h = p.hours /\ m = p.minutes /\ s = p.seconds
    BY DEF Lasts
  <1>2. p.years = 0 /\ p.months = 0 /\ d * 86400 + h * 3600 + m * 60 + s = n
    BY <1>1, SMT DEF Lasts, Day
  <1>3. InSeconds(p) = n
    <2>1. p.years * 31556952 = 0 /\ p.months * 2629746 = 0
      BY <1>2, SMT
    <2>. QED BY <1>1, <1>2, <2>1, SMT DEF InSeconds, Day
  <1>4. PlusPeriod(a, p) = a + n /\ MinusPeriod(a + n, p) = a
    BY <1>3, SMT DEF PlusPeriod, MinusPeriod
  <1>5. ASSUME min_valuable(p) \notin {"seconds", "minutes"}
        PROVE  get_next_tp(p, a) + TimeOfDay(a) = a + n
    <2>1. s = 0 /\ m = 0
      <3>1. s > 0 => min_valuable(p) = "seconds"
        BY <1>1, SMT DEF min_valuable
      <3>2. s <= 0 /\ m > 0 => min_valuable(p) = "minutes"
        BY <1>1, SMT DEF min_valuable
      <3>. QED BY <1>5, <3>1, <3>2, SMT
    <2>2. PICK x \in Int, y \in Int : x = DayOf(AddMonths(AddMonths(Date(a), 12 * 0), 0)) /\ y = TimeOfDay(a)
      <3>1. AddMonths(AddMonths(Date(a), 12 * 0), 0) = AddMonths(Date(a), 0)
        <4>1. AddMonths(AddMonths(Date(a), 0), 0) = AddMonths(Date(a), 0 + 0)
          BY TwiceMonths, 0 \in Int
        <4>. QED BY <4>1, SMT
      <3>2. DayOf(AddMonths(Date(a), 0)) \in Int /\ TimeOfDay(a) \in Int
        BY Numbers, 0 \in Int
      <3>. QED BY <3>1, <3>2
    <2>3. x * 86400 + y = a
      BY <2>2, NoMonths, SMT DEF Day
    <2>4. get_next_tp(p, a) = x * Day + d * Day + h * 3600
      BY <1>1, <1>2, <2>2, SMT DEF get_next_tp
    <2>. QED BY <1>2, <2>1, <2>2, <2>3, <2>4, SMT DEF Day
  <1>. QED BY <1>4, <1>5

(* A step of days or of months, as a period. *)
LEMMA StepPeriod ==
  ASSUME NEW d \in Diffs, Plain(d),
         NEW p, p = TimePeriodOf(d.years_, d.months_, d.days_, d.hours_, d.minutes_, d.seconds_)
  PROVE  p = Period(d.years_, d.months_, d.days_, 0, 0, 0)
  <1>1. PICK y \in Int, mo \in Int, e \in Int : y = d.years_ /\ mo = d.months_ /\ e = d.days_
    BY DEF Diffs
  <1>2. d.hours_ = 0 /\ d.minutes_ = 0 /\ d.seconds_ = 0
    BY DEF Plain
  <1>3. PICK q : q = Period(y, mo, e, 0, 0, 0)
    OBVIOUS
  <1>4. q.seconds = 0 /\ q.minutes = 0 /\ q.hours = 0
    BY <1>3, PeriodFields
  <1>5. CarrySeconds(q) = q /\ CarryMinutes(q) = q /\ CarryHours(q) = q
    BY <1>4, SMT DEF CarrySeconds, CarryMinutes, CarryHours
  <1>. QED BY <1>1, <1>2, <1>3, <1>5 DEF TimePeriodOf

LEMMA PeriodStored ==
  ASSUME NEW y, NEW mo, NEW d, NEW h, NEW mi, NEW s
  PROVE  PeriodFromJson(PeriodToJson(Period(y, mo, d, h, mi, s))) = Period(y, mo, d, h, mi, s)
  <1>1. PICK p, o : p = Period(y, mo, d, h, mi, s) /\ o = PeriodToJson(p)
    OBVIOUS
  <1>2. /\ o["years"] = p["years"] /\ o["months"] = p["months"] /\ o["days"] = p["days"]
        /\ o["hours"] = p["hours"] /\ o["minutes"] = p["minutes"] /\ o["seconds"] = p["seconds"]
    BY <1>1 DEF PeriodToJson
  <1>3. /\ p["years"] = y /\ p["months"] = mo /\ p["days"] = d
        /\ p["hours"] = h /\ p["minutes"] = mi /\ p["seconds"] = s
    BY <1>1 DEF Period
  <1>. QED BY <1>1, <1>2, <1>3 DEF PeriodFromJson

(* The words of a text. *)
Word(n, u) == IF n > 0 THEN <<<<n, u>>>> ELSE <<>>
Words == Seq(Int \X {"y", "m", "d", "h"})

LEMMA WordIs ==
  ASSUME NEW n \in Int, NEW u \in {"y", "m", "d", "h"}
  PROVE  Word(n, u) \in Words /\ (n > 0 => Len(Word(n, u)) = 1)
  BY DEF Word, Words

LEMMA JoinWords ==
  ASSUME NEW v \in Words, NEW w \in Words
  PROVE  v \o w \in Words /\ Len(v \o w) = Len(v) + Len(w) /\ v \o <<>> = v /\ Len(v) \in Nat
  BY DEF Words

(* A step of days or months that leads forward has the same text as a step  *)
(* and as a period.                                                         *)
LEMMA SameText ==
  ASSUME NEW d \in Diffs, Plain(d), d.years_ > 0 \/ d.months_ > 0 \/ d.days_ > 0
  PROVE  PeriodText(Period(d.years_, d.months_, d.days_, 0, 0, 0)) = DiffText(d)
  <1>1. PICK y \in Int, mo \in Int, e \in Int : y = d.years_ /\ mo = d.months_ /\ e = d.days_
    BY DEF Diffs
  <1>2. d.hours_ = 0 /\ d.minutes_ = 0 /\ d.seconds_ = 0
    BY DEF Plain
  <1>3. PICK a, b, c, w, v : a = Word(y, "y") /\ b = Word(mo, "m") /\ c = Word(e, "d") /\ w = a \o b /\ v = w \o c
    OBVIOUS
  <1>4. a \in Words /\ b \in Words /\ c \in Words
    BY <1>3, WordIs
  <1>5. w \in Words /\ v \in Words
    BY <1>3, <1>4, JoinWords
  <1>6. v # <<>>
    <2>1. Len(w) = Len(a) + Len(b) /\ Len(v) = Len(w) + Len(c)
      BY <1>3, <1>4, <1>5, JoinWords
    <2>2. Len(a) \in Nat /\ Len(b) \in Nat /\ Len(c) \in Nat
      BY <1>4, JoinWords
    <2>3. Len(a) = 1 \/ Len(b) = 1 \/ Len(c) = 1
      BY <1>1, <1>3, WordIs
    <2>4. Len(v) # 0
      BY <2>1, <2>2, <2>3
    <2>. QED BY <2>4
  <1>7. Word(0, "h") = <<>> /\ ~(0 > 0)
    BY DEF Word
  <1>8. PeriodText(Period(y, mo, e, 0, 0, 0)) = v
    <2>1. PICK p : p = Period(y, mo, e, 0, 0, 0)
      OBVIOUS
    <2>2. p.years = y /\ p.months = mo /\ p.days = e /\ p.hours = 0
      BY <2>1, PeriodFields
    <2>3. PeriodText(p) = a \o b \o c \o Word(0, "h")
      BY <1>3, <2>2, Zenon DEF PeriodText, Word
    <2>4. PeriodText(p) = v \o <<>>
      BY <1>3, <1>7, <2>3, Zenon
    <2>5. v \o <<>> = v
      BY <1>5, JoinWords
    <2>. QED BY <2>1, <2>4, <2>5
  <1>9. DiffText(d) = v
    <2>1. PICK x : x = a \o b \o c \o <<>> \o <<>> \o <<>>
      OBVIOUS
    <2>2. DiffText(d) = IF x = <<>> THEN <<<<0, "s">>>> ELSE x
      BY <1>1, <1>2, <1>3, <1>7, <2>1, Zenon DEF DiffText, Word
    <2>3. v \o <<>> = v
      BY <1>5, JoinWords
    <2>4. x = v
      BY <1>3, <2>1, <2>3, Zenon
    <2>. QED BY <1>6, <2>2, <2>4
  <1>. QED BY <1>1, <1>8, <1>9

LEMMA SoundForward ==
  ASSUME NEW s, Ordered(s), Sound(s)
  PROVE  LET d == s.time_duration_ IN d.years_ > 0 \/ d.months_ > 0 \/ d.days_ > 0
  <1>1. PICK d \in Diffs : d = s.time_duration_
    BY DEF Ordered
  <1>2. PICK y \in Int, mo \in Int, e \in Int : y = d.years_ /\ mo = d.months_ /\ e = d.days_
    BY DEF Diffs
  <1>3. d.hours_ = 0 /\ d.minutes_ = 0 /\ d.seconds_ = 0
    BY <1>1 DEF Sound, Plain
  <1>4. \/ ~HasMonths(d) /\ Seconds(d) > 0
        \/ HasMonths(d) /\ Months(d) > 0
    BY <1>1, SoundDivisible, SoundRegular
  <1>5. Seconds(d) = e * 86400 /\ Months(d) = y * 12 + mo
    BY <1>2, <1>3, SMT DEF Seconds, TimePart, Months, Day
  <1>6. y > 0 \/ mo > 0 \/ e > 0
    BY <1>4, <1>5, SMT
  <1>. QED BY <1>1, <1>2, <1>6

LEMMA PeriodStep ==
  ASSUME NEW s, Ordered(s), Sound(s), NEW d, d = s.time_duration_,
         NEW q, q = PeriodFromJson(PeriodToJson(TimePeriodOf(d.years_, d.months_, d.days_, d.hours_, d.minutes_, d.seconds_)))
  PROVE  /\ get_next_tp(q, s.from_) + TimeOfDay(s.from_) = Index(s, 1)
         /\ PeriodText(q) = DiffText(d)
  <1>1. d \in Diffs /\ Plain(d) /\ s.from_ \in Int
    BY DEF Ordered, Sound
  <1>2. PICK y \in Int, mo \in Int, e \in Int : y = d.years_ /\ mo = d.months_ /\ e = d.days_
    BY <1>1 DEF Diffs
  <1>3. q = Period(y, mo, e, 0, 0, 0)
    BY <1>1, <1>2, StepPeriod, PeriodStored
  <1>4. PeriodText(q) = DiffText(d)
    BY <1>1, <1>2, <1>3, SoundForward, SameText
  <1>5. PICK t \in Int, x \in Int, z \in Int :
          t = s.from_ /\ x = DayOf(AddMonths(Date(t), y * 12 + mo)) /\ z = TimeOfDay(t)
    <2>1. y * 12 + mo \in Int
      OBVIOUS
    <2>. QED BY <1>1, <2>1, Numbers
  <1>6. get_next_tp(q, t) = x * Day + e * Day
    <2>1. q.years = y /\ q.months = mo /\ q.days = e /\ q.hours = 0
      BY <1>3, PeriodFields
    <2>2. AddMonths(AddMonths(Date(t), 12 * y), mo) = AddMonths(Date(t), 12 * y + mo)
      BY TwiceMonths, 12 * y \in Int
    <2>3. 12 * y + mo = y * 12 + mo
      OBVIOUS
    <2>4. get_next_tp(q, t) = x * Day + e * Day + 0 * 3600
      BY <1>5, <2>1, <2>2, <2>3, SMT DEF get_next_tp
    <2>5. x * Day + e * Day + 0 * 3600 = x * Day + e * Day
      BY SMT DEF Day
    <2>. QED BY <2>4, <2>5
  <1>7. Index(s, 1) = (x + e) * Day + z
    <2>1. TimePart(d) = 0 /\ Months(d) = y * 12 + mo
      BY <1>1, <1>2, SMT DEF TimePart, Months, Plain
    <2>2. 1 * Months(d) = y * 12 + mo /\ 1 * e = e /\ 1 * TimePart(d) = 0
      BY <2>1
    <2>3. Index(s, 1) = (DayOf(AddMonths(Date(t), 1 * Months(d))) + 1 * e) * Day + z + 1 * TimePart(d)
      BY <1>2, <1>5, Zenon DEF Index
    <2>4. Index(s, 1) = (x + e) * Day + z + 0
      BY <1>5, <2>2, <2>3, Zenon
    <2>5. (x + e) * Day + z + 0 = (x + e) * Day + z
      BY SMT DEF Day
    <2>. QED BY <2>4, <2>5
  <1>8. x * Day + e * Day + z = (x + e) * Day + z
    BY SMT DEF Day
  <1>. QED BY <1>4, <1>5, <1>6, <1>7, <1>8, Zenon

(* A TimePeriod of the time between the ends leads from one to the other    *)
(* and back, as does get_next_tp when its smallest unit is an hour; one of  *)
(* the fields of a step, stored and loaded, takes that step and has its     *)
(* text.                                                                    *)
THEOREM PeriodsAgree == Spec => []PeriodAgrees
  <1>1. ASSUME InOrder PROVE PeriodAgrees
    <2>1. Ordered(ts)
      BY <1>1 DEF InOrder
    <2>2. PICK a \in Int, b \in Int, n \in Int : a = ts.from_ /\ b = ts.to_ /\ n = ts.to_ - ts.from_ /\ 0 <= n /\ a + n = b
      <3>1. ts.from_ \in Int /\ ts.to_ \in Int /\ ts.from_ <= ts.to_
        BY <2>1 DEF Ordered
      <3>2. PICK n \in Int : n = ts.to_ - ts.from_ /\ 0 <= n /\ ts.from_ + n = ts.to_
        BY <3>1, SMT
      <3>. QED BY <3>1, <3>2
    <2>3. ASSUME NEW p \in {TimePeriodOf(0, 0, 0, 0, 0, n), TimePeriodOf(0, 0, 0, 0, n \div 60, n % 60),
                            TimePeriodOf(0, 0, 0, n \div 3600, (n % 3600) \div 60, n % 60)}
          PROVE  /\ PlusPeriod(a, p) = b /\ MinusPeriod(b, p) = a
                 /\ is_set(p) /\ min_valuable(p) \notin {"seconds", "minutes"} =>
                        get_next_tp(p, a) + TimeOfDay(a) = b
      <3>1. Lasts(p, n)
        BY <2>2, <2>3, SecondsLast, MinutesLast, HoursLast, SMT
      <3>2. /\ PlusPeriod(a, p) = a + n /\ MinusPeriod(a + n, p) = a
            /\ min_valuable(p) \notin {"seconds", "minutes"} => get_next_tp(p, a) + TimeOfDay(a) = a + n
        BY <3>1, LastsLeads
      <3>. QED BY <2>2, <3>2
    <2>4. PICK d, q : /\ d = ts.time_duration_
                      /\ q = PeriodFromJson(PeriodToJson(TimePeriodOf(d.years_, d.months_, d.days_,
                                                                     d.hours_, d.minutes_, d.seconds_)))
      OBVIOUS
    <2>5. Sound(ts) => /\ get_next_tp(q, ts.from_) + TimeOfDay(ts.from_) = Index(ts, 1)
                       /\ PeriodText(q) = DiffText(d)
      BY <2>1, <2>4, PeriodStep
    <2>6. ts.to_ - ts.from_ = n /\ ts.from_ = a /\ ts.to_ = b
      BY <2>2
    <2>. QED BY <2>3, <2>4, <2>5, <2>6, SMT DEF PeriodAgrees
  <1>. QED BY <1>1, EndsInOrder, PTL

-----------------------------------------------------------------------------
(* Pushing *)

LEMMA FirstOf ==
  ASSUME NEW y \in Int, NEW m \in Int, 1 <= m, m <= 12
  PROVE  First(y * 12 + m - 1) = sys_days(y, m, 1)
  <1>1. (y * 12 + m - 1) \div 12 = y /\ ((y * 12 + m - 1) % 12) + 1 = m
    BY SMT
  <1>. QED BY <1>1, SMT DEF First

LEMMA LeapFebruary ==
  ASSUME NEW y \in Int
  PROVE  sys_days(y, 3, 1) - sys_days(y, 2, 1) = IF isLeapYear(y) THEN 29 ELSE 28
  <1>1. PICK e \in Int, r \in Int : e = y \div 400 /\ r = y % 400 /\ y = 400 * e + r /\ 0 <= r /\ r < 400
    BY SMT
  <1>2. sys_days(y, 3, 1) = e * 146097 + r * 365 + r \div 4 - r \div 100 + 0 + 1 - 1 - 719468
    BY <1>1, SMT DEF sys_days
  <1>3. isLeapYear(y) <=> (r % 4 = 0 /\ r % 100 # 0) \/ r = 0
    <2>1. y % 4 = r % 4 /\ y % 100 = r % 100
      BY <1>1, SMT
    <2>. QED BY <1>1, <2>1, SMT DEF isLeapYear
  <1>4. CASE r = 0
    <2>1. (y - 1) \div 400 = e - 1 /\ (y - 1) % 400 = 399
      BY <1>1, <1>4, SMT
    <2>2. sys_days(y, 2, 1) = (e - 1) * 146097 + 399 * 365 + 99 - 3 + 337 + 1 - 1 - 719468
      BY <2>1, SMT DEF sys_days
    <2>. QED BY <1>2, <1>3, <1>4, <2>2, SMT
  <1>5. CASE r # 0
    <2>1. (y - 1) \div 400 = e /\ (y - 1) % 400 = r - 1
      BY <1>1, <1>5, SMT
    <2>2. sys_days(y, 2, 1) = e * 146097 + (r - 1) * 365 + (r - 1) \div 4 - (r - 1) \div 100 + 337 + 1 - 1 - 719468
      BY <2>1, SMT DEF sys_days
    <2>3. r \div 4 - (r - 1) \div 4 = IF r % 4 = 0 THEN 1 ELSE 0
      BY <1>1, SMT
    <2>4. r \div 100 - (r - 1) \div 100 = IF r % 100 = 0 THEN 1 ELSE 0
      BY <1>1, SMT
    <2>5. r % 100 = 0 => r % 4 = 0
      BY <1>1, SMT
    <2>. QED BY <1>1, <1>2, <1>3, <1>5, <2>2, <2>3, <2>4, <2>5, SMT
  <1>. QED BY <1>1, <1>4, <1>5

LEMMA OtherMonths ==
  ASSUME NEW y \in Int, NEW m \in Int, 1 <= m, m <= 11, m # 2
  PROVE  sys_days(y, m + 1, 1) - sys_days(y, m, 1) = IF m \in {4, 6, 9, 11} THEN 30 ELSE 31
  <1>1. (m <= 2) <=> (m + 1 <= 2)
    BY SMT
  <1>2. sys_days(y, m + 1, 1) - sys_days(y, m, 1)
          = (153 * ((m + 1 + 9) % 12) + 2) \div 5 - (153 * ((m + 9) % 12) + 2) \div 5
    BY <1>1, SMT DEF sys_days
  <1>3. (153 * ((m + 1 + 9) % 12) + 2) \div 5 - (153 * ((m + 9) % 12) + 2) \div 5
          = IF m \in {4, 6, 9, 11} THEN 30 ELSE 31
    <2>1. m \in {1, 3, 4, 5, 6, 7, 8, 9, 10, 11}
      BY SMT
    <2>. QED BY <2>1, SMT
  <1>. QED BY <1>2, <1>3, SMT

(* A month is as long as getDaysInMonth says: the next one begins after it. *)
LEMMA MonthLength ==
  ASSUME NEW y \in Int, NEW m \in Int, 1 <= m, m <= 12
  PROVE  /\ First(y * 12 + m) - First(y * 12 + m - 1) = getDaysInMonth(y, m)
         /\ getDaysInMonth(y, m) \in 28 .. 31
  <1>1. First(y * 12 + m - 1) = sys_days(y, m, 1)
    BY FirstOf
  <1>2. getDaysInMonth(y, m) = IF m = 2 THEN IF isLeapYear(y) THEN 29 ELSE 28
                               ELSE IF m \in {4, 6, 9, 11} THEN 30 ELSE 31
    BY SMT DEF getDaysInMonth
  <1>3. getDaysInMonth(y, m) \in 28 .. 31
    BY <1>2, SMT
  <1>4. CASE m = 12
    <2>1. First((y + 1) * 12 + 1 - 1) = sys_days(y + 1, 1, 1)
      BY FirstOf, y + 1 \in Int, 1 \in Int, 1 <= 1, 1 <= 12
    <2>2. (y + 1) * 12 + 1 - 1 = y * 12 + m
      BY <1>4, SMT
    <2>3. sys_days(y + 1, 1, 1) - sys_days(y, 12, 1) = 31
      BY SMT DEF sys_days
    <2>4. getDaysInMonth(y, m) = 31
      BY <1>2, <1>4, SMT
    <2>. QED BY <1>1, <1>3, <1>4, <2>1, <2>2, <2>3, <2>4
  <1>5. CASE m # 12
    <2>1. First(y * 12 + (m + 1) - 1) = sys_days(y, m + 1, 1)
      <3>1. m + 1 \in Int /\ 1 <= m + 1 /\ m + 1 <= 12
        BY <1>5, SMT
      <3>. QED BY <3>1, FirstOf
    <2>2. y * 12 + (m + 1) - 1 = y * 12 + m
      BY SMT
    <2>3. sys_days(y, m + 1, 1) - sys_days(y, m, 1) = getDaysInMonth(y, m)
      <3>1. CASE m = 2
        <4>1. m + 1 = 3
          BY <3>1
        <4>. QED BY <1>2, <3>1, <4>1, LeapFebruary
      <3>2. CASE m # 2
        <4>1. m <= 11
          BY <1>5, SMT
        <4>2. sys_days(y, m + 1, 1) - sys_days(y, m, 1) = IF m \in {4, 6, 9, 11} THEN 30 ELSE 31
          BY <3>2, <4>1, OtherMonths
        <4>. QED BY <1>2, <3>2, <4>2
      <3>. QED BY <3>1, <3>2
    <2>. QED BY <1>1, <1>3, <2>1, <2>2, <2>3
  <1>. QED BY <1>4, <1>5

(* Two instants at one time of day, by the numbers of their dates.          *)
Apart(a, b, y, m, d, u, v, w, L) ==
  /\ y = Date(a).y /\ m = Date(a).m /\ d = Date(a).d /\ u = Date(b).y /\ v = Date(b).m /\ w = Date(b).d
  /\ L = getDaysInMonth(y, m) /\ 28 <= L /\ L <= 31
  /\ 1 <= m /\ m <= 12 /\ 1 <= v /\ v <= 12 /\ 1 <= d /\ d <= L /\ 1 <= w /\ w <= 31
  /\ y * 12 + m <= u * 12 + v
  /\ u * 12 + v = y * 12 + m => d < w /\ b = a + (w - d) * Day
  /\ u * 12 + v = y * 12 + m + 1 => b = a + (L - d + w) * Day

LEMMA ApartIs ==
  ASSUME NEW a \in Int, NEW b \in Int, a < b, TimeOfDay(a) = TimeOfDay(b)
  PROVE  \E y, m, d, u, v, w, L \in Int : Apart(a, b, y, m, d, u, v, w, L)
  <1>1. PICK c, i, s : Parts(a, c, i, s)
    BY InstantIs
  <1>2. PICK e, j, r : Parts(b, e, j, r)
    BY InstantIs
  <1>3. PICK y \in Int, m \in Int, d \in Int : y = c.y /\ m = c.m /\ d = c.d /\ 1 <= m /\ m <= 12 /\ 1 <= d
    BY <1>1 DEF Parts
  <1>4. PICK u \in Int, v \in Int, w \in Int : u = e.y /\ v = e.m /\ w = e.d /\ 1 <= v /\ v <= 12 /\ 1 <= w
    BY <1>2, SMTT(30) DEF Parts
  <1>5. c = Date(a) /\ e = Date(b) /\ s = r /\ s \in Int /\ i = y * 12 + m - 1 /\ j = u * 12 + v - 1
    BY <1>1, <1>2, <1>3, <1>4 DEF Parts, MonthOf
  <1>6. PICK L \in Int : L = getDaysInMonth(y, m) /\ 28 <= L /\ L <= 31 /\ First(y * 12 + m) - First(y * 12 + m - 1) = L
    <2>1. 1 <= m /\ m <= 12
      BY <1>3
    <2>2. /\ First(y * 12 + m) - First(y * 12 + m - 1) = getDaysInMonth(y, m)
          /\ getDaysInMonth(y, m) \in 28 .. 31
      BY <2>1, MonthLength
    <2>. QED BY <2>2
  <1>7. PICK K \in Int : K <= 31 /\ First(u * 12 + v) - First(u * 12 + v - 1) = K
    <2>1. 1 <= v /\ v <= 12
      BY <1>4
    <2>2. /\ First(u * 12 + v) - First(u * 12 + v - 1) = getDaysInMonth(u, v)
          /\ getDaysInMonth(u, v) \in 28 .. 31
      BY <2>1, MonthLength
    <2>. QED BY <2>2
  <1>8. PICK A \in Int, B \in Int, C \in Int, D \in Int :
          A = First(i) /\ B = First(i + 1) /\ C = First(j) /\ D = First(j + 1)
    <2>1. i \in Int /\ j \in Int /\ i + 1 \in Int /\ j + 1 \in Int
      BY <1>5
    <2>. QED BY <2>1, MonthsInOrder
  <1>9. B - A = L /\ D - C = K
    <2>1. i + 1 = y * 12 + m /\ j + 1 = u * 12 + v
      BY <1>5
    <2>. QED BY <1>5, <1>6, <1>7, <1>8, <2>1
  <1>10. a = (A + d - 1) * 86400 + s /\ A + d - 1 < B
    <2>1. a = (First(i) + c.d - 1) * Day + s /\ First(i) + c.d - 1 < First(i + 1)
      BY <1>1 DEF Parts
    <2>. QED BY <1>3, <1>8, <2>1 DEF Day
  <1>11. b = (C + w - 1) * 86400 + s /\ C + w - 1 < D
    <2>1. b = (First(j) + e.d - 1) * Day + r /\ First(j) + e.d - 1 < First(j + 1)
      BY <1>2 DEF Parts
    <2>. QED BY <1>4, <1>5, <1>8, <2>1 DEF Day
  <1>12. A + d < C + w
    BY <1>5, <1>10, <1>11, SMT
  <1>13. d <= L /\ w <= 31
    BY <1>7, <1>9, <1>10, <1>11, SMT
  <1>14. y * 12 + m <= u * 12 + v
    <2>1. j < i => D <= A
      <3>1. i \in Int /\ j \in Int
        BY <1>5
      <3>2. j < i => First(j + 1) <= First(i)
        BY <3>1, MonthBefore
      <3>. QED BY <1>8, <3>2
    <2>2. ~(j < i)
      BY <1>3, <1>11, <1>12, <2>1, SMT
    <2>. QED BY <1>5, <2>2, SMT
  <1>15. u * 12 + v = y * 12 + m => d < w /\ b = a + (w - d) * 86400
    <2>1. ASSUME u * 12 + v = y * 12 + m PROVE C = A
      <3>1. i = j
        BY <1>5, <2>1
      <3>. QED BY <1>8, <3>1
    <2>. QED BY <1>5, <1>10, <1>11, <1>12, <2>1, SMT
  <1>16. u * 12 + v = y * 12 + m + 1 => b = a + (L - d + w) * 86400
    <2>1. ASSUME u * 12 + v = y * 12 + m + 1 PROVE C = A + L
      <3>1. i + 1 = j
        BY <1>5, <2>1
      <3>. QED BY <1>8, <1>9, <3>1
    <2>. QED BY <1>5, <1>10, <1>11, <2>1, SMT
  <1>17. Apart(a, b, y, m, d, u, v, w, L)
    BY <1>3, <1>4, <1>5, <1>6, <1>13, <1>14, <1>15, <1>16, SMT DEF Apart, Day
  <1>. QED BY <1>17

(* b is one step d, of days or of months, after a. *)
OneStep(a, b, d) ==
  /\ TimeOfDay(a) = TimeOfDay(b)
  /\ IF HasMonths(d) THEN Date(b).d = Date(a).d /\ MonthOf(Date(b)) = MonthOf(Date(a)) + Months(d)
     ELSE b = a + Seconds(d)

(* The fields of such a step. *)
NumbersOf(d, y, mo, e) ==
  /\ d \in Diffs /\ (HasMonths(d) <=> y # 0 \/ mo # 0) /\ (HasTime(d) <=> e # 0)
  /\ Months(d) = y * 12 + mo /\ Seconds(d) = e * Day
  /\ d = NoDiff <=> y = 0 /\ mo = 0 /\ e = 0
  /\ Plain(d) => ~HasMonths(d) \/ ~HasTime(d)

LEMMA StepFields ==
  ASSUME NEW y \in Int, NEW mo \in Int, NEW e \in Int
  PROVE  NumbersOf(Diff(y, mo, e, 0, 0, 0), y, mo, e)
  <1>0. PICK d : d = Diff(y, mo, e, 0, 0, 0)
    OBVIOUS
  <1>1. d.years_ = y /\ d.months_ = mo /\ d.days_ = e /\ d.hours_ = 0 /\ d.minutes_ = 0 /\ d.seconds_ = 0
    BY <1>0 DEF Diff
  <1>2. d \in Diffs
    BY <1>0, DiffInt, 0 \in Int
  <1>3. (HasMonths(d) <=> y # 0 \/ mo # 0) /\ (HasTime(d) <=> e # 0)
    BY <1>1 DEF HasMonths, HasTime
  <1>4. Months(d) = y * 12 + mo /\ Seconds(d) = e * Day
    BY <1>1, SMT DEF Months, Seconds, TimePart, Day
  <1>5. d = NoDiff <=> y = 0 /\ mo = 0 /\ e = 0
    <2>1. d = NoDiff => y = 0 /\ mo = 0 /\ e = 0
      <3>1. NoDiff.years_ = 0 /\ NoDiff.months_ = 0 /\ NoDiff.days_ = 0
        BY DEF NoDiff, Diff
      <3>. QED BY <1>1, <3>1
    <2>2. y = 0 /\ mo = 0 /\ e = 0 => d = NoDiff
      BY <1>0 DEF NoDiff
    <2>. QED BY <2>1, <2>2
  <1>6. Plain(d) => ~HasMonths(d) \/ ~HasTime(d)
    BY Zenon DEF Plain
  <1>. QED BY <1>0, <1>2, <1>3, <1>4, <1>5, <1>6 DEF NumbersOf

(* A step of e days, or of years and months to the same day of a month. *)
LEMMA StepOfNumbers ==
  ASSUME NEW a \in Int, NEW b \in Int, TimeOfDay(a) = TimeOfDay(b),
         NEW y \in Int, NEW m \in Int, NEW d \in Int, NEW u \in Int, NEW v \in Int, NEW w \in Int, NEW L \in Int,
         Apart(a, b, y, m, d, u, v, w, L),
         NEW p \in Int, NEW q \in Int, NEW e \in Int, Plain(Diff(p, q, e, 0, 0, 0)),
         e = 0 => w = d /\ p * 12 + q = (u * 12 + v) - (y * 12 + m),
         p = 0 /\ q = 0 => e # 0 /\ b = a + e * Day
  PROVE  Diff(p, q, e, 0, 0, 0) # NoDiff /\ OneStep(a, b, Diff(p, q, e, 0, 0, 0))
  <1>0. PICK step : step = Diff(p, q, e, 0, 0, 0)
    OBVIOUS
  <1>1. /\ (HasMonths(step) <=> p # 0 \/ q # 0) /\ (HasTime(step) <=> e # 0)
        /\ Months(step) = p * 12 + q /\ Seconds(step) = e * Day
        /\ step = NoDiff <=> p = 0 /\ q = 0 /\ e = 0
        /\ ~HasMonths(step) \/ ~HasTime(step)
    <2>1. NumbersOf(step, p, q, e) /\ Plain(step)
      BY <1>0, StepFields
    <2>. QED BY <2>1 DEF NumbersOf
  <1>2. step # NoDiff
    BY <1>1
  <1>3. CASE HasMonths(step)
    <2>1. e = 0
      BY <1>1, <1>3
    <2>2. Date(a).d = d /\ Date(b).d = w /\ MonthOf(Date(a)) = y * 12 + m - 1 /\ MonthOf(Date(b)) = u * 12 + v - 1
      BY DEF Apart, MonthOf
    <2>3. MonthOf(Date(b)) = MonthOf(Date(a)) + Months(step)
      BY <1>1, <2>1, <2>2, SMT
    <2>4. OneStep(a, b, step)
      BY <1>3, <2>1, <2>2, <2>3 DEF OneStep
    <2>. QED BY <1>0, <1>2, <2>4
  <1>4. CASE ~HasMonths(step)
    <2>1. b = a + Seconds(step)
      BY <1>1, <1>4
    <2>2. OneStep(a, b, step)
      BY <1>4, <2>1 DEF OneStep
    <2>. QED BY <1>0, <1>2, <2>2
  <1>. QED BY <1>0, <1>2, <1>3, <1>4

LEMMA PlainTime ==
  ASSUME NEW y, NEW mo, NEW e, NEW h, NEW mi, NEW s, Plain(Diff(y, mo, e, h, mi, s))
  PROVE  h = 0 /\ mi = 0 /\ s = 0
  BY DEF Plain, Diff

LEMMA SmallFields ==
  ASSUME NEW x \in Int
  PROVE  /\ -128 <= x /\ x <= 127 => Int8(x) = x
         /\ -32768 <= x /\ x <= 32767 => Int16(x) = x
  BY SMT DEF Int8, Int16

(* The difference of two instants at one time of day, when it is one of     *)
(* days or of months, leads from the first to the second.                   *)
LEMMA DifferenceIsStep ==
  ASSUME NEW a \in Int, NEW b \in Int, a < b, TimeOfDay(a) = TimeOfDay(b), Plain(DiffBetween(a, b))
  PROVE  OneStep(a, b, DiffBetween(a, b))
  <1>1. PICK y \in Int, m \in Int, d \in Int, u \in Int, v \in Int, w \in Int, L \in Int :
          Apart(a, b, y, m, d, u, v, w, L)
    BY ApartIs
  <1>2. PICK p \in Int : p = u - y + (IF v < m THEN -1 ELSE 0)
    OBVIOUS
  <1>3. PICK q \in Int : q = IF v < m THEN (IF w < d THEN -1 ELSE 0) + v - m + 12 ELSE v - m
    <2>1. (IF w < d THEN -1 ELSE 0) \in Int
      BY SMT
    <2>2. (IF w < d THEN -1 ELSE 0) + v - m + 12 \in Int /\ v - m \in Int
      BY <2>1, SMT
    <2>. QED BY <2>2, Zenon
  <1>4. PICK e \in Int : e = IF w < d THEN w - d + L ELSE w - d
    <2>1. w - d + L \in Int /\ w - d \in Int
      BY SMT
    <2>. QED BY <2>1, Zenon
  <1>5. /\ y = Date(a).y /\ m = Date(a).m /\ d = Date(a).d /\ u = Date(b).y /\ v = Date(b).m /\ w = Date(b).d
        /\ L = getDaysInMonth(y, m)
    BY <1>1 DEF Apart
  <1>6. /\ 28 <= L /\ L <= 31 /\ 1 <= m /\ m <= 12 /\ 1 <= v /\ v <= 12 /\ 1 <= d /\ d <= L /\ 1 <= w /\ w <= 31
        /\ y * 12 + m <= u * 12 + v
        /\ u * 12 + v = y * 12 + m => d < w /\ b = a + (w - d) * Day
        /\ u * 12 + v = y * 12 + m + 1 => b = a + (L - d + w) * Day
    BY <1>1 DEF Apart
  <1>7. e = IF w < d THEN Int8(w - d + L) ELSE w - d
    <2>1. PICK x \in Int : x = w - d + L
      OBVIOUS
    <2>2. w < d => 0 <= x /\ x <= 127
      BY <1>6, <2>1
    <2>3. w < d => Int8(x) = x
      BY <2>2, SmallFields, SMT
    <2>. QED BY <1>4, <2>1, <2>3
  <1>8. PICK h, mi, s : DiffBetween(a, b) = Diff(p, q, e, h, mi, s)
    <2>1. PICK h, mi, s : /\ h = Quot((b % Day) - (a % Day), 3600)
                          /\ mi = Quot((b % 3600) - (a % 3600), 60)
                          /\ s = Quot((b % 60) - (a % 60), 1)
      OBVIOUS
    <2>2. DiffBetween(a, b) = Diff(p, q, e, h, mi, s)
      BY <1>2, <1>3, <1>5, <1>7, <2>1, SMT DEF DiffBetween
    <2>. QED BY <2>2
  <1>9. DiffBetween(a, b) = Diff(p, q, e, 0, 0, 0)
    <2>1. Plain(Diff(p, q, e, h, mi, s))
      BY <1>8
    <2>2. h = 0 /\ mi = 0 /\ s = 0
      BY <2>1, PlainTime
    <2>. QED BY <1>8, <2>2
  <1>10. e = 0 => w = d /\ p * 12 + q = (u * 12 + v) - (y * 12 + m)
    BY <1>2, <1>3, <1>4, <1>6, SMT
  <1>11. p = 0 /\ q = 0 => e # 0 /\ b = a + e * Day
    <2>1. CASE v < m
      <3>1. ASSUME p = 0, q = 0 PROVE w < d /\ u * 12 + v = y * 12 + m + 1
        BY <1>2, <1>3, <1>6, <2>1, <3>1, SMT
      <3>2. w < d => e = L - d + w /\ e # 0
        BY <1>4, <1>6, SMT
      <3>. QED BY <1>6, <3>1, <3>2
    <2>2. CASE ~(v < m)
      <3>1. ASSUME p = 0, q = 0 PROVE u * 12 + v = y * 12 + m
        BY <1>2, <1>3, <1>6, <2>2, <3>1, SMT
      <3>2. d < w => e = w - d /\ e # 0
        BY <1>4, SMT
      <3>. QED BY <1>6, <3>1, <3>2
    <2>. QED BY <2>1, <2>2
  <1>12. Plain(Diff(p, q, e, 0, 0, 0))
    BY <1>9
  <1>13. OneStep(a, b, Diff(p, q, e, 0, 0, 0))
    BY <1>1, <1>10, <1>11, <1>12, StepOfNumbers
  <1>. QED BY <1>9, <1>13

LEMMA NothingSplit == Split(0, 1).h = 0 /\ Split(0, 1).m = 0 /\ Split(0, 1).s = 0
  <1>1. Quot(0, 3600 * 1) = 0 /\ Quot(0, 60 * 1) = 0 /\ Quot(0, 1) = 0
    BY SMT DEF Quot, Trunc
  <1>2. Int8(0) = 0
    BY SMT DEF Int8
  <1>3. 0 - 0 * 3600 * 1 = 0 /\ 0 - 0 * 60 * 1 = 0
    BY SMT
  <1>4. Split(0, 1) = [h |-> 0, m |-> 0, s |-> 0]
    BY <1>1, <1>2, <1>3, SMT DEF Split
  <1>. QED BY <1>4

LEMMA WholeQuot ==
  ASSUME NEW x \in Int
  PROVE  Quot(x, 1) = x /\ Rem(x, 1) = 0
  <1>1. x \div 1 = x /\ x % 1 = 0
    BY SMT
  <1>2. Quot(x, 1) = x
    BY <1>1, SMT DEF Quot, Trunc
  <1>. QED BY <1>2, SMT DEF Rem

(* The step made of one interval of days within a month. *)
LEMMA WithinIsStep ==
  ASSUME NEW a \in Int, NEW b \in Int, NEW n \in Int, n = days_between_dates(Date(a), Date(b)),
         0 <= n, n <= 31, b - a = n * Day
  PROVE  WithinMonth(a, b, 1, Date(a), Date(b)) = Diff(0, 0, n, 0, 0, 0)
  <1>1. n \div 1 = n /\ Int8(n) = n
    <2>1. n \div 1 = n
      BY SMT
    <2>. QED BY <2>1, SmallFields, SMT
  <1>2. Quot(b - a, 1) - n * Day = 0
    <2>1. PICK x \in Int : x = b - a
      OBVIOUS
    <2>2. Quot(x, 1) = x
      BY WholeQuot
    <2>. QED BY <2>1, <2>2
  <1>3. Quot(0, 3600) = 0 /\ Trunc(-60 * 0, 0, 216000) = 0 /\ Trunc(-60 * (0 + 0), 0, 216000) = 0 /\ Int8(0) = 0
    BY SMT DEF Quot, Trunc, Int8
  <1>. QED BY <1>1, <1>2, <1>3, SMT DEF WithinMonth

(* The years between two instants fit in 16 bits. *)
YearsFit(a, b) == Date(b).y - Date(a).y <= 32767

(* Years, months and days between two dates. *)
Between(p, q, e, y, m, d, u, v, w, L) ==
  /\ p = u - y - (IF v < m THEN 1 ELSE 0)
  /\ q = ((v - m) % 12) - (IF w < d THEN 1 ELSE 0)
  /\ e = w - d + (IF w < d THEN L ELSE 0) - 0

(* The step made of one interval beyond a month. *)
BeyondGives(a, b, p, q, e) == BeyondMonth(a, b, 1, Date(a), Date(b)) = Diff(p, q, e, 0, 0, 0)

LEMMA BeyondIs ==
  ASSUME NEW a \in Int, NEW b \in Int, TimeOfDay(a) = TimeOfDay(b),
         NEW y \in Int, NEW m \in Int, NEW d \in Int, NEW u \in Int, NEW v \in Int, NEW w \in Int, NEW L \in Int,
         Apart(a, b, y, m, d, u, v, w, L), YearsFit(a, b),
         NEW p \in Int, NEW q \in Int, NEW e \in Int, Between(p, q, e, y, m, d, u, v, w, L)
  PROVE  BeyondGives(a, b, p, q, e)
  <1>. DEFINE from == Date(a)
              to == Date(b)
              late == TimeOfDay(a) > TimeOfDay(b)
              time == TimeOfDay(b) - TimeOfDay(a) + (IF late THEN Day ELSE 0)
              years == to.y - from.y - (IF to.m < from.m THEN 1 ELSE 0)
              months == ((to.m - from.m) % 12) - (IF to.d < from.d THEN 1 ELSE 0)
              dim == getDaysInMonth(from.y, from.m)
              days == to.d - from.d + (IF to.d < from.d THEN dim ELSE 0) - (IF late THEN 1 ELSE 0)
              ry == IF years > 0 THEN Rem(years, 1) ELSE 0
              rm == IF months > 0 THEN Rem(months, 1) ELSE 0
              rd == IF days > 0 THEN Rem(days, 1) ELSE 0
              sm == IF rm # 0 THEN (rm - 1) * dim * Day ELSE 0
              x == Split(time, 1)
              yy == Split(rd * Day, 1)
              z == Split(sm, 1)
  <1>1. BeyondMonth(a, b, 1, from, to)
          = Diff(Int16(Quot(years, 1)), Int8(Quot(months, 1) + (ry * 12) \div 1), Int8(Quot(days, 1)),
                 Int8(x.h + yy.h + z.h), Int8(x.m + yy.m + z.m), Int8(x.s + yy.s + z.s))
    BY DEF BeyondMonth
  <1>0. /\ p = u - y - (IF v < m THEN 1 ELSE 0)
        /\ q = ((v - m) % 12) - (IF w < d THEN 1 ELSE 0)
        /\ e = w - d + (IF w < d THEN L ELSE 0) - 0
    BY DEF Between
  <1>2. /\ 28 <= L /\ L <= 31 /\ 1 <= m /\ m <= 12 /\ 1 <= v /\ v <= 12 /\ 1 <= d /\ d <= L /\ 1 <= w /\ w <= 31
        /\ y * 12 + m <= u * 12 + v
    BY DEF Apart
  <1>3. /\ y = from.y /\ m = from.m /\ d = from.d /\ u = to.y /\ v = to.m /\ w = to.d
        /\ L = getDaysInMonth(y, m)
    BY DEF Apart
  <1>4. ~late /\ time = 0
    <2>1. PICK s \in Int : s = TimeOfDay(a) /\ s = TimeOfDay(b)
      BY Numbers, 0 \in Int
    <2>. QED BY <2>1
  <1>. HIDE DEF from, to, late, time
  <1>5. dim = L /\ years = p /\ months = q
    BY <1>0, <1>3
  <1>6. days = e
    BY <1>0, <1>3, <1>4, <1>5
  <1>. HIDE DEF dim, years, months, days
  <1>7. 0 <= p /\ p <= 32767 /\ -1 <= q /\ q <= 11 /\ 0 <= e /\ e <= 31
    <2>1. u - y <= 32767
      BY DEF YearsFit, Apart
    <2>. QED BY <1>0, <1>2, <2>1, SMT
  <1>8. ry = 0 /\ rm = 0 /\ rd = 0
    BY <1>5, <1>6, WholeQuot
  <1>. HIDE DEF ry, rm, rd
  <1>9. sm = 0 /\ rd * Day = 0
    BY <1>8, SMT DEF Day
  <1>. HIDE DEF sm
  <1>10. x = Split(0, 1) /\ yy = Split(0, 1) /\ z = Split(0, 1)
    BY <1>4, <1>9
  <1>. HIDE DEF x, yy, z
  <1>11. x.h + yy.h + z.h = 0 /\ x.m + yy.m + z.m = 0 /\ x.s + yy.s + z.s = 0
    BY <1>10, NothingSplit, SMT
  <1>12. Quot(p, 1) = p /\ Quot(q, 1) = q /\ Quot(e, 1) = e
    BY WholeQuot
  <1>13. (ry * 12) \div 1 = 0 /\ q + 0 = q
    BY <1>8, SMT
  <1>14. Int16(p) = p /\ Int8(q) = q /\ Int8(e) = e /\ Int8(0) = 0
    <2>1. Int16(p) = p
      BY <1>7, SmallFields, SMT
    <2>2. Int8(q) = q
      BY <1>7, SmallFields, SMT
    <2>3. Int8(e) = e
      BY <1>7, SmallFields, SMT
    <2>. QED BY <2>1, <2>2, <2>3, SMT DEF Int8
  <1>15. BeyondMonth(a, b, 1, from, to) = Diff(p, q, e, 0, 0, 0)
    <2>1. Int16(Quot(years, 1)) = p
      BY <1>5, <1>12, <1>14
    <2>2. Int8(Quot(months, 1) + (ry * 12) \div 1) = q
      BY <1>5, <1>12, <1>13, <1>14
    <2>3. Int8(Quot(days, 1)) = e
      BY <1>6, <1>12, <1>14
    <2>4. Int8(x.h + yy.h + z.h) = 0 /\ Int8(x.m + yy.m + z.m) = 0 /\ Int8(x.s + yy.s + z.s) = 0
      BY <1>11, <1>14
    <2>. QED BY <1>1, <2>1, <2>2, <2>3, <2>4
  <1>. QED BY <1>15 DEF from, to, BeyondGives

LEMMA LeapDaysInt ==
  ASSUME NEW a \in Int, NEW b \in Int
  PROVE  number_leap_days(Date(a), Date(b)) \in Int
  <1>1. PICK y \in Int, u \in Int : y = Date(a).y /\ u = Date(b).y
    BY DateInt
  <1>2. \A x \in Int : (x - 1) \div 4 - (x - 1) \div 100 + (x - 1) \div 400 \in Int
    BY SMT
  <1>3. PICK h \in Int, k \in Int : /\ h = (y - 1) \div 4 - (y - 1) \div 100 + (y - 1) \div 400
                                    /\ k = (u - 1) \div 4 - (u - 1) \div 100 + (u - 1) \div 400
    BY <1>2
  <1>4. PICK i \in Int, j \in Int :
          /\ i = (IF isLeapYear(y) /\ Date(a).m < 3 THEN 1 ELSE 0)
          /\ j = (IF isLeapYear(u) /\ (Date(b).m > 2 \/ (Date(b).m = 2 /\ Date(b).d = 29)) THEN 1 ELSE 0)
    OBVIOUS
  <1>5. number_leap_days(Date(a), Date(b)) = k - h + i + j
    BY <1>1, <1>3, <1>4, SMT DEF number_leap_days
  <1>. QED BY <1>5, SMT

LEMMA DaysApart ==
  ASSUME NEW a \in Int, NEW b \in Int, a < b, TimeOfDay(a) = TimeOfDay(b)
  PROVE  LET n == days_between_dates(Date(a), Date(b)) IN n \in Int /\ 0 < n /\ b - a = n * Day
  <1>1. PICK x \in Int, z \in Int : x = a \div Day /\ z = b \div Day
    BY SMT DEF Day
  <1>2. DayOf(Date(a)) = x /\ DayOf(Date(b)) = z
    <2>1. DayOf(year_month_day(x)) = x
      BY DateIs
    <2>2. DayOf(year_month_day(z)) = z
      BY DateIs
    <2>. QED BY <1>1, <2>1, <2>2 DEF Date
  <1>3. b - a = (z - x) * 86400 /\ x < z
    BY <1>1, SMT DEF TimeOfDay, Day
  <1>4. days_between_dates(Date(a), Date(b)) = z - x
    BY <1>2, <1>3, SMT DEF days_between_dates
  <1>. QED BY <1>3, <1>4, SMT DEF Day

(* So does the step that the first push makes.                              *)
LEMMA FirstIsStep ==
  ASSUME NEW a \in Int, NEW b \in Int, a < b, TimeOfDay(a) = TimeOfDay(b), YearsFit(a, b),
         Plain(DiffOf(a, b, 1).diff)
  PROVE  DiffOf(a, b, 1).diff # NoDiff /\ OneStep(a, b, DiffOf(a, b, 1).diff)
  <1>1. PICK y \in Int, m \in Int, d \in Int, u \in Int, v \in Int, w \in Int, L \in Int :
          Apart(a, b, y, m, d, u, v, w, L)
    BY ApartIs, Zenon
  <1>2. /\ y = Date(a).y /\ m = Date(a).m /\ d = Date(a).d /\ u = Date(b).y /\ v = Date(b).m /\ w = Date(b).d
        /\ L = getDaysInMonth(y, m)
    BY <1>1 DEF Apart
  <1>3. /\ 28 <= L /\ L <= 31 /\ 1 <= m /\ m <= 12 /\ 1 <= v /\ v <= 12 /\ 1 <= d /\ d <= L /\ 1 <= w /\ w <= 31
        /\ y * 12 + m <= u * 12 + v
        /\ u * 12 + v = y * 12 + m => d < w /\ b = a + (w - d) * Day
        /\ u * 12 + v = y * 12 + m + 1 => b = a + (L - d + w) * Day
    BY <1>1 DEF Apart
  <1>4. PICK n \in Int : n = days_between_dates(Date(a), Date(b)) /\ 0 < n /\ b - a = n * Day
    BY DaysApart
  <1>5. DiffOf(a, b, 1).diff = IF n < L THEN WithinMonth(a, b, 1, Date(a), Date(b))
                               ELSE BeyondMonth(a, b, 1, Date(a), Date(b))
    <2>1. PICK k \in Int : k = number_leap_days(Date(a), Date(b))
      BY LeapDaysInt
    <2>2. Rem(b - a - k * Day, 1) = 0
      <3>1. PICK x \in Int : x = b - a - k * Day
        BY SMT DEF Day
      <3>. QED BY <3>1, WholeQuot
    <2>3. a # b /\ ~(1 = 0)
      BY SMT
    <2>. QED BY <1>2, <1>4, <2>1, <2>2, <2>3, SMT DEF DiffOf
  <1>6. CASE n < L
    <2>1. DiffOf(a, b, 1).diff = Diff(0, 0, n, 0, 0, 0)
      <3>1. n <= 31
        BY <1>3, <1>6
      <3>2. WithinMonth(a, b, 1, Date(a), Date(b)) = Diff(0, 0, n, 0, 0, 0)
        BY <1>4, <3>1, WithinIsStep
      <3>. QED BY <1>5, <1>6, <3>2
    <2>2. PICK step : step = Diff(0, 0, n, 0, 0, 0) /\ NumbersOf(step, 0, 0, n)
      BY StepFields, 0 \in Int
    <2>3. ~HasMonths(step) /\ Seconds(step) = n * Day /\ step # NoDiff
      BY <1>4, <2>2 DEF NumbersOf
    <2>4. b = a + n * Day
      <3>1. PICK x \in Int : x = n * Day
        BY SMT DEF Day
      <3>. QED BY <1>4, <3>1
    <2>5. OneStep(a, b, step)
      BY <2>3, <2>4 DEF OneStep
    <2>. QED BY <2>1, <2>2, <2>3, <2>5
  <1>7. CASE ~(n < L)
    <2>1. PICK p \in Int : p = u - y - (IF v < m THEN 1 ELSE 0)
      <3>1. u - y - (IF v < m THEN 1 ELSE 0) \in Int
        BY SMT
      <3>. QED BY <3>1
    <2>2. PICK q \in Int : q = ((v - m) % 12) - (IF w < d THEN 1 ELSE 0)
      <3>1. (v - m) % 12 \in Int
        BY SMT
      <3>2. ((v - m) % 12) - (IF w < d THEN 1 ELSE 0) \in Int
        BY <3>1, SMT
      <3>. QED BY <3>2
    <2>3. PICK e \in Int : e = w - d + (IF w < d THEN L ELSE 0) - 0
      <3>1. w - d + (IF w < d THEN L ELSE 0) - 0 \in Int
        BY SMT
      <3>. QED BY <3>1
    <2>4. BeyondMonth(a, b, 1, Date(a), Date(b)) = Diff(p, q, e, 0, 0, 0)
      <3>1. Between(p, q, e, y, m, d, u, v, w, L)
        BY <2>1, <2>2, <2>3, Zenon DEF Between
      <3>2. BeyondGives(a, b, p, q, e)
        BY <1>1, <3>1, BeyondIs, Zenon
      <3>. QED BY <3>2 DEF BeyondGives
    <2>5. DiffOf(a, b, 1).diff = Diff(p, q, e, 0, 0, 0)
      BY <1>5, <1>7, <2>4
    <2>6. e = 0 => w = d /\ p * 12 + q = (u * 12 + v) - (y * 12 + m)
      <3>1. e = 0 => w = d
        BY <1>3, <2>3, SMT
      <3>2. w = d => q = (v - m) % 12
        BY <2>2, SMT
      <3>3. (v - m) % 12 = IF v < m THEN v - m + 12 ELSE v - m
        BY <1>3, SMT
      <3>4. w = d => p * 12 + q = (u * 12 + v) - (y * 12 + m)
        BY <2>1, <3>2, <3>3, SMT
      <3>. QED BY <3>1, <3>4
    <2>7. p = 0 /\ q = 0 => e # 0 /\ b = a + e * Day
      <3>0. (v - m) % 12 = IF v < m THEN v - m + 12 ELSE v - m
        BY <1>3, SMT
      <3>1. CASE w < d
        <4>1. ASSUME p = 0, q = 0 PROVE u * 12 + v = y * 12 + m + 1
          <5>1. (v - m) % 12 = 1
            BY <2>2, <3>1, <4>1, SMT
          <5>. QED BY <1>3, <2>1, <3>0, <4>1, <5>1, SMT
        <4>2. e = L - d + w /\ e # 0
          BY <1>3, <2>3, <3>1, SMT
        <4>. QED BY <1>3, <4>1, <4>2
      <3>2. CASE ~(w < d)
        <4>1. ASSUME p = 0, q = 0 PROVE u * 12 + v = y * 12 + m
          <5>1. (v - m) % 12 = 0
            BY <2>2, <3>2, <4>1, SMT
          <5>. QED BY <1>3, <2>1, <3>0, <4>1, <5>1, SMT
        <4>2. d < w => e = w - d /\ e # 0
          BY <2>3, <3>2, SMT
        <4>. QED BY <1>3, <4>1, <4>2
      <3>. QED BY <3>1, <3>2
    <2>8. Plain(Diff(p, q, e, 0, 0, 0))
      BY <2>5
    <2>9. Diff(p, q, e, 0, 0, 0) # NoDiff /\ OneStep(a, b, Diff(p, q, e, 0, 0, 0))
      BY <1>1, <2>6, <2>7, <2>8, StepOfNumbers, Zenon
    <2>. QED BY <2>5, <2>9
  <1>. QED BY <1>6, <1>7

(* b is n steps d, of days or of months, after a. *)
Reach(a, b, d, n) ==
  /\ TimeOfDay(a) = TimeOfDay(b)
  /\ IF HasMonths(d) THEN Date(b).d = Date(a).d /\ MonthOf(Date(b)) = MonthOf(Date(a)) + n * Months(d)
     ELSE b = a + n * Seconds(d)

LEMMA StepReaches ==
  ASSUME NEW a \in Int, NEW b \in Int, NEW d \in Diffs, OneStep(a, b, d)
  PROVE  Reach(a, b, d, 1)
  <1>1. PICK M \in Int, S \in Int : M = Months(d) /\ S = Seconds(d)
    BY DiffNumbers
  <1>2. 1 * M = M /\ 1 * S = S
    BY SMT
  <1>. QED BY <1>1, <1>2 DEF OneStep, Reach

LEMMA ReachHere ==
  ASSUME NEW a \in Int, NEW d \in Diffs
  PROVE  Reach(a, a, d, 0)
  <1>1. PICK M \in Int, S \in Int : M = Months(d) /\ S = Seconds(d)
    BY DiffNumbers
  <1>2. PICK i \in Int : i = MonthOf(Date(a))
    BY DateInt DEF MonthOf
  <1>3. i = i + 0 * M /\ a = a + 0 * S
    BY SMT
  <1>. QED BY <1>1, <1>2, <1>3 DEF Reach

LEMMA ReachTwice ==
  ASSUME NEW a \in Int, NEW b \in Int, NEW c \in Int, NEW d \in Diffs, NEW n \in Int, NEW k \in Int,
         Reach(a, b, d, n), Reach(b, c, d, k)
  PROVE  Reach(a, c, d, n + k)
  <1>1. PICK M \in Int, S \in Int : M = Months(d) /\ S = Seconds(d)
    BY DiffNumbers
  <1>2. PICK i \in Int, j \in Int, l \in Int : i = MonthOf(Date(a)) /\ j = MonthOf(Date(b)) /\ l = MonthOf(Date(c))
    <2>1. \A t \in Int : MonthOf(Date(t)) \in Int
      BY DateInt DEF MonthOf
    <2>. QED BY <2>1
  <1>3. n * M \in Int /\ k * M \in Int /\ n * S \in Int /\ k * S \in Int
        /\ (n + k) * M = n * M + k * M /\ (n + k) * S = n * S + k * S
    BY SMT
  <1>4. TimeOfDay(a) = TimeOfDay(c)
    BY DEF Reach
  <1>5. CASE HasMonths(d)
    <2>1. Date(c).d = Date(a).d /\ j = i + n * M /\ l = j + k * M
      BY <1>1, <1>2, <1>5 DEF Reach
    <2>2. l = i + (n + k) * M
      BY <1>3, <2>1
    <2>. QED BY <1>1, <1>2, <1>4, <1>5, <2>1, <2>2 DEF Reach
  <1>6. CASE ~HasMonths(d)
    <2>1. b = a + n * S /\ c = b + k * S
      BY <1>1, <1>6 DEF Reach
    <2>2. c = a + (n + k) * S
      BY <1>3, <2>1
    <2>. QED BY <1>1, <1>4, <1>6, <2>2 DEF Reach
  <1>. QED BY <1>5, <1>6

(* operator[] returns the instant that many steps after the first. *)
LEMMA ReachIsIndex ==
  ASSUME NEW s, s.from_ \in Int, s.time_duration_ \in Diffs,
         ~(HasMonths(s.time_duration_) /\ HasTime(s.time_duration_)),
         NEW x \in Int, NEW k \in Int, Reach(s.from_, x, s.time_duration_, k)
  PROVE  Index(s, k) = x
  <1>1. PICK a \in Int, d \in Diffs : a = s.from_ /\ d = s.time_duration_
    OBVIOUS
  <1>2. CASE ~HasMonths(d)
    <2>1. Index(s, k) = a + k * Seconds(d)
      BY <1>1, <1>2, IndexOfTime
    <2>. QED BY <1>1, <1>2, <2>1 DEF Reach
  <1>3. CASE HasMonths(d)
    <2>1. PICK n \in Int : n = k * Months(d)
      <3>1. PICK M \in Int : M = Months(d)
        BY DiffNumbers
      <3>. QED BY <3>1, SMT
    <2>2. Index(s, k) = DayOf(AddMonths(Date(a), n)) * Day + TimeOfDay(a)
      BY <1>1, <1>3, <2>1, IndexOfMonths
    <2>3. PICK c, i, u : Parts(a, c, i, u)
      BY InstantIs
    <2>4. PICK e, j, v : Parts(x, e, j, v)
      BY InstantIs
    <2>5. DayOf(AddMonths(Date(a), n)) = First(i + n) + c.d - 1
      BY <2>3, MonthsAfter
    <2>6. e.d = c.d /\ j = i + n /\ u = v /\ u = TimeOfDay(a)
      BY <1>1, <1>3, <2>1, <2>3, <2>4 DEF Reach, Parts
    <2>7. x = (First(j) + e.d - 1) * Day + v
      BY <2>4 DEF Parts
    <2>. QED BY <2>2, <2>5, <2>6, <2>7
  <1>. QED BY <1>1, <1>2, <1>3

(* The points of s, as far as they were pushed, are the instants of P. *)
Grid(s, P) ==
  /\ s.intervals_ >= 1
  /\ Reach(s.from_, s.to_, s.time_duration_, s.intervals_)
  /\ \A x \in P : \E k \in 0 .. s.intervals_ : Reach(s.from_, x, s.time_duration_, k)
  /\ \A k \in 0 .. s.intervals_ : \E x \in P : Reach(s.from_, x, s.time_duration_, k)

Tracks(s, P) ==
  /\ Ordered(s) /\ P \subseteq Instants /\ s.from_ \in P /\ s.to_ \in P
  /\ Plain(s.time_duration_) /\ SameTime(P) =>
       IF s.time_duration_ = NoDiff THEN s.from_ = s.to_ /\ P = {s.from_} ELSE Grid(s, P)

LEMMA GridPoints ==
  ASSUME NEW s, NEW P, Tracks(s, P), Plain(s.time_duration_), SameTime(P)
  PROVE  Points(s) = P
  <1>1. CASE s.time_duration_ = NoDiff
    BY <1>1 DEF Tracks, Points
  <1>2. CASE s.time_duration_ # NoDiff
    <2>1. Grid(s, P)
      BY <1>2 DEF Tracks
    <2>2. P \subseteq Int
      BY InstantInt DEF Tracks
    <2>3. s.from_ \in Int /\ s.time_duration_ \in Diffs /\ s.intervals_ \in Int
      BY DEF Tracks, Ordered
    <2>4. ~(HasMonths(s.time_duration_) /\ HasTime(s.time_duration_))
      BY Zenon DEF Plain
    <2>5. \A x \in P, k \in 0 .. s.intervals_ : Reach(s.from_, x, s.time_duration_, k) => Index(s, k) = x
      BY <2>2, <2>3, <2>4, ReachIsIndex
    <2>6. \A x \in P : \E k \in 0 .. s.intervals_ : Index(s, k) = x
      BY <2>1, <2>5 DEF Grid
    <2>7. \A k \in 0 .. s.intervals_ : Index(s, k) \in P
      BY <2>1, <2>5 DEF Grid
    <2>. QED BY <1>2, <2>6, <2>7 DEF Points
  <1>. QED BY <1>1, <1>2

(* One step more after the last point. *)
LEMMA GridAfter ==
  ASSUME NEW s, Ordered(s), NEW P, P \subseteq Int, Grid(s, P), NEW t \in Int, OneStep(s.to_, t, s.time_duration_),
         NEW r, r.from_ = s.from_, r.to_ = t, r.time_duration_ = s.time_duration_, r.intervals_ = s.intervals_ + 1
  PROVE  Grid(r, P \cup {t})
  <1>1. PICK a \in Int, b \in Int, d \in Diffs, n \in Int :
          a = s.from_ /\ b = s.to_ /\ d = s.time_duration_ /\ n = s.intervals_
    BY DEF Ordered
  <1>2. n >= 1 /\ Reach(a, b, d, n)
    BY <1>1 DEF Grid
  <1>3. Reach(a, t, d, n + 1)
    <2>1. Reach(b, t, d, 1)
      BY <1>1, StepReaches
    <2>. QED BY <1>2, <2>1, ReachTwice, 1 \in Int
  <1>4. \A k \in 0 .. n + 1 : k \in 0 .. n \/ k = n + 1
    BY SMT
  <1>5. \A k \in 0 .. n : k \in 0 .. n + 1
    BY SMT
  <1>6. n + 1 \in 0 .. n + 1 /\ n + 1 >= 1
    BY <1>2, SMT
  <1>7. \A x \in P \cup {t} : \E k \in 0 .. n + 1 : Reach(a, x, d, k)
    <2>1. \A x \in P : \E k \in 0 .. n : Reach(a, x, d, k)
      BY <1>1 DEF Grid
    <2>. QED BY <1>3, <1>5, <1>6, <2>1
  <1>8. \A k \in 0 .. n + 1 : \E x \in P \cup {t} : Reach(a, x, d, k)
    <2>1. \A k \in 0 .. n : \E x \in P : Reach(a, x, d, k)
      BY <1>1 DEF Grid
    <2>. QED BY <1>3, <1>4, <2>1
  <1>9. r.intervals_ = n + 1 /\ r.from_ = a /\ r.time_duration_ = d
    BY <1>1
  <1>. QED BY <1>3, <1>6, <1>7, <1>8, <1>9 DEF Grid

(* One step more before the first point. *)
LEMMA GridBefore ==
  ASSUME NEW s, Ordered(s), NEW P, P \subseteq Int, Grid(s, P), NEW t \in Int, OneStep(t, s.from_, s.time_duration_),
         NEW r, r.from_ = t, r.to_ = s.to_, r.time_duration_ = s.time_duration_, r.intervals_ = s.intervals_ + 1
  PROVE  Grid(r, P \cup {t})
  <1>1. PICK a \in Int, b \in Int, d \in Diffs, n \in Int :
          a = s.from_ /\ b = s.to_ /\ d = s.time_duration_ /\ n = s.intervals_
    BY DEF Ordered
  <1>2. n >= 1 /\ Reach(a, b, d, n)
    BY <1>1 DEF Grid
  <1>3. Reach(t, a, d, 1)
    BY <1>1, StepReaches
  <1>4. \A x \in Int, k \in Int : Reach(a, x, d, k) => Reach(t, x, d, 1 + k)
    BY <1>3, ReachTwice, 1 \in Int
  <1>5. Reach(t, t, d, 0)
    BY ReachHere
  <1>6. 0 \in 0 .. n + 1 /\ n + 1 >= 1 /\ 1 + n = n + 1
    BY <1>2, SMT
  <1>7. \A k \in 0 .. n : k \in Int /\ 1 + k \in 0 .. n + 1
    BY SMT
  <1>8. \A k \in 0 .. n + 1 : k = 0 \/ (k - 1 \in 0 .. n /\ 1 + (k - 1) = k)
    BY SMT
  <1>9. \A x \in P \cup {t} : \E k \in 0 .. n + 1 : Reach(t, x, d, k)
    <2>1. \A x \in P : \E k \in 0 .. n : Reach(a, x, d, k)
      BY <1>1 DEF Grid
    <2>2. \A x \in P : \E k \in 0 .. n + 1 : Reach(t, x, d, k)
      BY <1>4, <1>7, <2>1
    <2>. QED BY <1>5, <1>6, <2>2
  <1>10. \A k \in 0 .. n + 1 : \E x \in P \cup {t} : Reach(t, x, d, k)
    <2>1. \A k \in 0 .. n : \E x \in P : Reach(a, x, d, k)
      BY <1>1 DEF Grid
    <2>2. \A k \in 0 .. n : \E x \in P : Reach(t, x, d, 1 + k)
      BY <1>4, <1>7, <2>1
    <2>. QED BY <1>5, <1>8, <2>2
  <1>11. Reach(t, b, d, n + 1)
    BY <1>2, <1>4, <1>6
  <1>12. r.intervals_ = n + 1 /\ r.from_ = t /\ r.to_ = b /\ r.time_duration_ = d
    BY <1>1
  <1>. QED BY <1>6, <1>9, <1>10, <1>11, <1>12 DEF Grid

(* The step of the first push is one step long. *)
LEMMA GridOfTwo ==
  ASSUME NEW a \in Int, NEW b \in Int, NEW d \in Diffs, OneStep(a, b, d),
         NEW r, r.from_ = a, r.to_ = b, r.time_duration_ = d, r.intervals_ = 1
  PROVE  Grid(r, {a, b})
  <1>1. Reach(a, b, d, 1) /\ Reach(a, a, d, 0)
    BY StepReaches, ReachHere
  <1>2. 0 \in 0 .. 1 /\ 1 \in 0 .. 1 /\ (\A k \in 0 .. 1 : k = 0 \/ k = 1) /\ 1 >= 1
    BY SMT
  <1>3. \A x \in {a, b} : \E k \in 0 .. 1 : Reach(a, x, d, k)
    BY <1>1, <1>2
  <1>4. \A k \in 0 .. 1 : \E x \in {a, b} : Reach(a, x, d, k)
    BY <1>1, <1>2
  <1>. QED BY <1>1, <1>2, <1>3, <1>4 DEF Grid

LEMMA InstantsFit ==
  ASSUME NEW a \in Instants, NEW b \in Instants
  PROVE  YearsFit(a, b)
  <1>1. 1970 <= Date(a).y /\ Date(b).y <= 32767
    BY InstantsAssumption
  <1>2. PICK y \in Int, u \in Int : y = Date(a).y /\ u = Date(b).y
    BY InstantInt, DateInt
  <1>3. u - y <= 32767
    BY <1>1, <1>2, SMT
  <1>. QED BY <1>2, <1>3 DEF YearsFit

LEMMA SameTimeIn ==
  ASSUME NEW P, NEW Q, P \subseteq Q, SameTime(Q)
  PROVE  SameTime(P)
  BY DEF SameTime

LEMMA InstantTracks ==
  ASSUME NEW t \in Instants
  PROVE  Tracks(OfInstant(t), {t})
  <1>1. Ordered(OfInstant(t))
    BY InstantInt, InstantOrdered
  <1>2. OfInstant(t).from_ = t /\ OfInstant(t).to_ = t /\ OfInstant(t).time_duration_ = NoDiff
    BY DEF OfInstant, Seq0, Interval
  <1>. QED BY <1>1, <1>2 DEF Tracks

(* The sequence of the first push holds the two instants. *)
LEMMA FirstTracks ==
  ASSUME NEW a \in Instants, NEW b \in Instants, a < b, NEW P, P \subseteq Instants, a \in P, b \in P,
         SameTime(P) => P = {a, b}
  PROVE  Tracks(OfCount(a, b, 1).seq, P)
  <1>0. a \in Int /\ b \in Int
    BY InstantInt
  <1>1. PICK r : r = OfCount(a, b, 1).seq
    OBVIOUS
  <1>2. PICK d : d = DiffOf(a, b, 1).diff
    OBVIOUS
  <1>3. r.from_ = a /\ r.to_ = b /\ r.time_duration_ = d /\ r.intervals_ = 1
    BY <1>0, <1>1, <1>2 DEF OfCount, Seq0, Interval
  <1>4. Ordered(r)
    BY <1>0, <1>1, CountOrdered, SMT
  <1>5. ASSUME Plain(d), SameTime(P) PROVE d # NoDiff /\ Grid(r, P)
    <2>1. TimeOfDay(a) = TimeOfDay(b)
      BY <1>5 DEF SameTime
    <2>2. YearsFit(a, b)
      BY InstantsFit
    <2>3. d # NoDiff /\ OneStep(a, b, d)
      <3>1. Plain(DiffOf(a, b, 1).diff)
        BY <1>2, <1>5
      <3>2. DiffOf(a, b, 1).diff # NoDiff /\ OneStep(a, b, DiffOf(a, b, 1).diff)
        BY <1>0, <2>1, <2>2, <3>1, FirstIsStep
      <3>. QED BY <1>2, <3>2
    <2>4. d \in Diffs
      BY <1>3, <1>4 DEF Ordered
    <2>5. Grid(r, {a, b})
      BY <1>0, <1>3, <2>3, <2>4, GridOfTwo
    <2>. QED BY <1>5, <2>3, <2>5
  <1>6. Tracks(r, P)
    BY <1>3, <1>4, <1>5 DEF Tracks
  <1>. QED BY <1>1, <1>6

LEMMA AfterTracks ==
  ASSUME NEW s, NEW P, Tracks(s, P), NEW t \in Instants
  PROVE  LET r == push_time_after(s, t)
         IN  /\ r.ok => Tracks(r.seq, P \cup {t})
             /\ ~r.ok => r.seq = s
  <1>0. PICK a \in Instants, b \in Instants, d \in Diffs : a = s.from_ /\ b = s.to_ /\ d = s.time_duration_
    BY DEF Tracks, Ordered
  <1>1. PICK n \in Int : n = s.intervals_
    BY DEF Tracks, Ordered
  <1>2. a \in Int /\ b \in Int /\ t \in Int /\ a <= b
    BY <1>0, InstantInt DEF Tracks, Ordered
  <1>3. PICK r : r = push_time_after(s, t)
    OBVIOUS
  <1>4. P \cup {t} \subseteq Instants /\ a \in P \cup {t} /\ t \in P \cup {t}
    BY <1>0 DEF Tracks
  <1>5. CASE t <= b
    <2>1. t <= s.to_ /\ ~(t > s.to_)
      BY <1>0, <1>2, <1>5, SMT
    <2>2. r = Refused(s, FALSE)
      BY <1>3, <2>1 DEF push_time_after
    <2>. QED BY <1>3, <2>2 DEF Refused
  <1>6. CASE t > b /\ d = NoDiff
    <2>1. r = FirstStep(s, OfCount(a, t, 1))
      <3>1. t > s.to_ /\ ~(t <= s.to_) /\ s.time_duration_ = NoDiff
        BY <1>0, <1>2, <1>6, SMT
      <3>. QED BY <1>0, <1>3, <3>1 DEF push_time_after
    <2>2. a < t
      BY <1>2, <1>6, SMT
    <2>3. SameTime(P \cup {t}) => P \cup {t} = {a, t}
      <3>1. ASSUME SameTime(P \cup {t}) PROVE P = {a}
        <4>1. SameTime(P)
          BY <3>1, SameTimeIn
        <4>2. Plain(NoDiff)
          BY DEF Plain, NoDiff, Diff, HasMonths, HasTime
        <4>. QED BY <1>0, <1>6, <4>1, <4>2 DEF Tracks
      <3>. QED BY <3>1
    <2>4. Tracks(OfCount(a, t, 1).seq, P \cup {t})
      BY <1>4, <2>2, <2>3, FirstTracks
    <2>. QED BY <1>3, <2>1, <2>4 DEF FirstStep, Refused, Accepted
  <1>7. CASE t > b /\ d # NoDiff
    <2>1. PICK q : q = [s EXCEPT !.to_ = t, !.intervals_ = @ + 1]
      OBVIOUS
    <2>2. r = IF DiffBetween(b, t) = d THEN Accepted(q) ELSE Refused(s, FALSE)
      <3>1. t > s.to_ /\ ~(t <= s.to_) /\ s.time_duration_ # NoDiff
        BY <1>0, <1>2, <1>7, SMT
      <3>. QED BY <1>0, <1>3, <2>1, <3>1 DEF push_time_after
    <2>3. CASE DiffBetween(b, t) = d
      <3>1. r.ok /\ r.seq = q
        BY <2>2, <2>3 DEF Accepted
      <3>2. Ordered(q)
        BY <1>2, <1>3, <3>1, AfterOrdered DEF Tracks
      <3>3. q.from_ = a /\ q.to_ = t /\ q.time_duration_ = d /\ q.intervals_ = s.intervals_ + 1
        BY <1>0, <2>1 DEF Tracks, Ordered
      <3>4. ASSUME Plain(d), SameTime(P \cup {t}) PROVE Grid(q, P \cup {t})
        <4>1. SameTime(P) /\ TimeOfDay(b) = TimeOfDay(t)
          <5>1. SameTime(P)
            BY <3>4, SameTimeIn
          <5>2. TimeOfDay(b) = TimeOfDay(t)
            BY <1>0, <3>4 DEF SameTime, Tracks
          <5>. QED BY <5>1, <5>2
        <4>2. Grid(s, P)
          BY <1>0, <1>7, <3>4, <4>1 DEF Tracks
        <4>3. OneStep(b, t, d)
          <5>1. OneStep(b, t, DiffBetween(b, t))
            BY <1>2, <1>7, <2>3, <3>4, <4>1, DifferenceIsStep
          <5>. QED BY <2>3, <5>1
        <4>4. P \subseteq Int /\ Ordered(s)
          BY InstantInt DEF Tracks
        <4>. QED BY <1>0, <1>2, <3>3, <4>2, <4>3, <4>4, GridAfter
      <3>5. Tracks(q, P \cup {t})
        BY <1>4, <1>7, <3>2, <3>3, <3>4 DEF Tracks
      <3>. QED BY <1>3, <3>1, <3>5
    <2>4. CASE DiffBetween(b, t) # d
      BY <1>3, <2>2, <2>4 DEF Refused
    <2>. QED BY <2>3, <2>4
  <1>. QED BY <1>2, <1>5, <1>6, <1>7, SMT

LEMMA BeforeTracks ==
  ASSUME NEW s, NEW P, Tracks(s, P), NEW t \in Instants
  PROVE  LET r == push_time_before(s, t)
         IN  /\ r.ok => Tracks(r.seq, P \cup {t})
             /\ ~r.ok => r.seq = s
  <1>0. PICK a \in Instants, b \in Instants, d \in Diffs : a = s.from_ /\ b = s.to_ /\ d = s.time_duration_
    BY DEF Tracks, Ordered
  <1>1. PICK n \in Int : n = s.intervals_
    BY DEF Tracks, Ordered
  <1>2. a \in Int /\ b \in Int /\ t \in Int /\ a <= b
    BY <1>0, InstantInt DEF Tracks, Ordered
  <1>3. PICK r : r = push_time_before(s, t)
    OBVIOUS
  <1>4. P \cup {t} \subseteq Instants /\ b \in P \cup {t} /\ t \in P \cup {t}
    BY <1>0 DEF Tracks
  <1>5. CASE t >= a
    <2>1. t >= s.from_ /\ ~(t < s.from_)
      BY <1>0, <1>2, <1>5, SMT
    <2>2. r = Refused(s, FALSE)
      BY <1>3, <2>1 DEF push_time_before
    <2>. QED BY <1>3, <2>2 DEF Refused
  <1>6. CASE t < a /\ d = NoDiff
    <2>1. r = FirstStep(s, OfCount(t, b, 1))
      <3>1. t < s.from_ /\ ~(t >= s.from_) /\ s.time_duration_ = NoDiff
        BY <1>0, <1>2, <1>6, SMT
      <3>. QED BY <1>0, <1>3, <3>1 DEF push_time_before
    <2>2. t < b
      BY <1>2, <1>6, SMT
    <2>3. SameTime(P \cup {t}) => P \cup {t} = {t, b}
      <3>1. ASSUME SameTime(P \cup {t}) PROVE P = {b}
        <4>1. SameTime(P)
          BY <3>1, SameTimeIn
        <4>2. Plain(NoDiff)
          BY DEF Plain, NoDiff, Diff, HasMonths, HasTime
        <4>. QED BY <1>0, <1>6, <4>1, <4>2 DEF Tracks
      <3>. QED BY <3>1
    <2>4. Tracks(OfCount(t, b, 1).seq, P \cup {t})
      BY <1>4, <2>2, <2>3, FirstTracks
    <2>. QED BY <1>3, <2>1, <2>4 DEF FirstStep, Refused, Accepted
  <1>7. CASE t < a /\ d # NoDiff
    <2>1. PICK q : q = [s EXCEPT !.from_ = t, !.intervals_ = @ + 1]
      OBVIOUS
    <2>2. r = IF DiffBetween(t, a) = d THEN Accepted(q) ELSE Refused(s, FALSE)
      <3>1. t < s.from_ /\ ~(t >= s.from_) /\ s.time_duration_ # NoDiff
        BY <1>0, <1>2, <1>7, SMT
      <3>. QED BY <1>0, <1>3, <2>1, <3>1 DEF push_time_before
    <2>3. CASE DiffBetween(t, a) = d
      <3>1. r.ok /\ r.seq = q
        BY <2>2, <2>3 DEF Accepted
      <3>2. Ordered(q)
        BY <1>2, <1>3, <3>1, BeforeOrdered DEF Tracks
      <3>3. q.from_ = t /\ q.to_ = b /\ q.time_duration_ = d /\ q.intervals_ = s.intervals_ + 1
        BY <1>0, <2>1 DEF Tracks, Ordered
      <3>4. ASSUME Plain(d), SameTime(P \cup {t}) PROVE Grid(q, P \cup {t})
        <4>1. SameTime(P) /\ TimeOfDay(t) = TimeOfDay(a)
          <5>1. SameTime(P)
            BY <3>4, SameTimeIn
          <5>2. TimeOfDay(t) = TimeOfDay(a)
            BY <1>0, <3>4 DEF SameTime, Tracks
          <5>. QED BY <5>1, <5>2
        <4>2. Grid(s, P)
          BY <1>0, <1>7, <3>4, <4>1 DEF Tracks
        <4>3. OneStep(t, a, d)
          <5>1. OneStep(t, a, DiffBetween(t, a))
            BY <1>2, <1>7, <2>3, <3>4, <4>1, DifferenceIsStep
          <5>. QED BY <2>3, <5>1
        <4>4. P \subseteq Int /\ Ordered(s)
          BY InstantInt DEF Tracks
        <4>. QED BY <1>0, <1>2, <3>3, <4>2, <4>3, <4>4, GridBefore
      <3>5. Tracks(q, P \cup {t})
        BY <1>4, <1>7, <3>2, <3>3, <3>4 DEF Tracks
      <3>. QED BY <1>3, <3>1, <3>5
    <2>4. CASE DiffBetween(t, a) # d
      BY <1>3, <2>2, <2>4 DEF Refused
    <2>. QED BY <2>3, <2>4
  <1>. QED BY <1>2, <1>5, <1>6, <1>7, SMT

LEMMA PushTracks ==
  ASSUME NEW s, NEW P, Tracks(s, P), NEW t \in Instants
  PROVE  LET r == push_time(s, t)
         IN  /\ r.ok => Tracks(r.seq, P \cup {t})
             /\ ~r.ok => r.seq = s
  <1>1. push_time(s, t) = push_time_before(s, t) \/ push_time(s, t) = push_time_after(s, t)
    BY DEF push_time
  <1>. QED BY <1>1, BeforeTracks, AfterTracks

(* make_from_range after k of the instants. *)
Upto(p, k, a, b, c) ==
  /\ DOMAIN p = {"seq", "used", "going"} /\ p.used \in 1 .. k /\ (p.going => p.used = k)
  /\ Tracks(p.seq, {<<a, b, c>>[j] : j \in 1 .. p.used})

LEMMA OneMoreTracks ==
  ASSUME NEW a \in Instants, NEW b \in Instants, NEW c \in Instants, NEW k \in 1 .. 2, NEW p, Upto(p, k, a, b, c)
  PROVE  Upto(OneMore(p, push_time_after(p.seq, <<a, b, c>>[k + 1]), k + 1), k + 1, a, b, c)
  <1>1. PICK t \in Instants : t = <<a, b, c>>[k + 1]
    <2>1. k + 1 = 2 \/ k + 1 = 3
      BY SMT
    <2>2. <<a, b, c>>[2] = b /\ <<a, b, c>>[3] = c
      OBVIOUS
    <2>. QED BY <2>1, <2>2
  <1>2. PICK x : x = push_time_after(p.seq, t)
    OBVIOUS
  <1>3. PICK q : q = OneMore(p, x, k + 1)
    OBVIOUS
  <1>4. CASE p.going /\ x.ok
    <2>1. q.seq = x.seq /\ q.used = k + 1 /\ q.going /\ DOMAIN q = {"seq", "used", "going"}
      BY <1>3, <1>4 DEF OneMore
    <2>2. Tracks(x.seq, {<<a, b, c>>[j] : j \in 1 .. k} \cup {t})
      <3>1. Tracks(p.seq, {<<a, b, c>>[j] : j \in 1 .. k})
        BY <1>4 DEF Upto
      <3>. QED BY <1>2, <1>4, <3>1, AfterTracks
    <2>3. {<<a, b, c>>[j] : j \in 1 .. k} \cup {t} = {<<a, b, c>>[j] : j \in 1 .. k + 1}
      <3>1. \A j : j \in 1 .. k + 1 <=> j \in 1 .. k \/ j = k + 1
        BY SMT
      <3>. QED BY <1>1, <3>1, Zenon
    <2>4. k + 1 \in 1 .. k + 1
      BY SMT
    <2>5. Upto(q, k + 1, a, b, c)
      BY <2>1, <2>2, <2>3, <2>4 DEF Upto
    <2>. QED BY <1>1, <1>2, <1>3, <2>5
  <1>5. CASE ~(p.going /\ x.ok)
    <2>1. q = [p EXCEPT !.going = FALSE]
      BY <1>3, <1>5 DEF OneMore
    <2>2. q.seq = p.seq /\ q.used = p.used /\ ~q.going /\ DOMAIN q = {"seq", "used", "going"}
      BY <2>1 DEF Upto
    <2>3. p.used \in 1 .. k + 1
      <3>1. p.used \in 1 .. k
        BY DEF Upto
      <3>. QED BY <3>1, SMT
    <2>4. Upto(q, k + 1, a, b, c)
      BY <2>2, <2>3 DEF Upto
    <2>. QED BY <1>1, <1>2, <1>3, <2>4
  <1>. QED BY <1>4, <1>5

LEMMA RangeTracks ==
  ASSUME NEW a \in Instants, NEW b \in Instants, NEW c \in Instants
  PROVE  LET r == make_from_range(<<a, b, c>>) IN Tracks(r.seq, {<<a, b, c>>[k] : k \in 1 .. r.used})
  <1>1. PICK p, q : /\ p = OneMore(Partly(a), push_time_after(Partly(a).seq, b), 2)
                    /\ q = OneMore(p, push_time_after(p.seq, c), 3)
                    /\ make_from_range(<<a, b, c>>) = q
    BY InstantInt, RangeIs
  <1>2. Upto(Partly(a), 1, a, b, c)
    <2>1. DOMAIN Partly(a) = {"seq", "used", "going"} /\ Partly(a).used = 1 /\ Partly(a).seq = OfInstant(a)
      BY DEF Partly
    <2>2. {<<a, b, c>>[j] : j \in 1 .. 1} = {a} /\ 1 \in 1 .. 1
      <3>1. \A j : j \in 1 .. 1 <=> j = 1
        BY SMT
      <3>2. <<a, b, c>>[1] = a
        OBVIOUS
      <3>3. 1 \in 1 .. 1
        OBVIOUS
      <3>4. \A x : x \in {<<a, b, c>>[j] : j \in 1 .. 1} <=> \E j \in 1 .. 1 : x = <<a, b, c>>[j]
        BY Zenon
      <3>5. \A x : x \in {<<a, b, c>>[j] : j \in 1 .. 1} <=> x = a
        BY <3>1, <3>2, <3>4, Zenon
      <3>. QED BY <3>3, <3>5, Zenon
    <2>3. Tracks(OfInstant(a), {a})
      BY InstantTracks
    <2>. QED BY <2>1, <2>2, <2>3 DEF Upto
  <1>3. <<a, b, c>>[2] = b /\ <<a, b, c>>[3] = c /\ 1 + 1 = 2 /\ 2 + 1 = 3 /\ 1 \in 1 .. 2 /\ 2 \in 1 .. 2
    OBVIOUS
  <1>4. Upto(p, 2, a, b, c)
    <2>1. Upto(OneMore(Partly(a), push_time_after(Partly(a).seq, <<a, b, c>>[1 + 1]), 1 + 1), 1 + 1, a, b, c)
      BY <1>2, <1>3, OneMoreTracks
    <2>. QED BY <1>1, <1>3, <2>1
  <1>5. Upto(q, 3, a, b, c)
    <2>1. Upto(OneMore(p, push_time_after(p.seq, <<a, b, c>>[2 + 1]), 2 + 1), 2 + 1, a, b, c)
      BY <1>3, <1>4, OneMoreTracks
    <2>. QED BY <1>1, <1>3, <2>1
  <1>. QED BY <1>1, <1>5 DEF Upto

(* The inductive invariant of a sequence that is only pushed to: its ends   *)
(* are instants given to it, and of whole days or months it is a grid       *)
(* through exactly these.                                                   *)
Tracking == tracked => Tracks(ts, pushed)

LEMMA InitTracking == Init => Tracking
  BY DEF Init, Tracking

LEMMA NextTracking ==
  ASSUME InOrder, Tracking, [Next]_vars
  PROVE  Tracking'
  <1>0. ASSUME NEW s, NEW P, Tracks(s, P), ts' = s, pushed' = P PROVE Tracking'
    <2>1. Tracks(ts', pushed')
      BY <1>0
    <2>. QED BY <2>1 DEF Tracking, Tracks, Ordered, Diffs, Grid, Reach, SameTime
  <1>1. CASE ~tracked'
    BY <1>1 DEF Tracking
  <1>2. CASE ConstructInstant
    <2>1. PICK t \in Instants : ts' = OfInstant(t) /\ pushed' = {t}
      BY <1>2 DEF ConstructInstant
    <2>. QED BY <1>0, <2>1, InstantTracks
  <1>3. CASE MakeFromRange
    <2>1. PICK a \in Instants, b \in Instants, c \in Instants :
            \E r \in {make_from_range(<<a, b, c>>)} : ts' = r.seq /\ pushed' = {<<a, b, c>>[k] : k \in 1 .. r.used}
      BY <1>3 DEF MakeFromRange
    <2>2. PICK r : r = make_from_range(<<a, b, c>>) /\ ts' = r.seq /\ pushed' = {<<a, b, c>>[k] : k \in 1 .. r.used}
      BY <2>1
    <2>3. Tracks(r.seq, {<<a, b, c>>[k] : k \in 1 .. r.used})
      BY <2>2, RangeTracks
    <2>. QED BY <1>0, <2>2, <2>3
  <1>4. CASE Reset
    <2>1. PICK t \in Instants : ts' = [ts EXCEPT !.from_ = t, !.to_ = t, !.time_duration_ = NoDiff] /\ pushed' = {t}
      BY <1>4 DEF Reset
    <2>2. PICK s : s = [ts EXCEPT !.from_ = t, !.to_ = t, !.time_duration_ = NoDiff]
      OBVIOUS
    <2>3. Ordered(ts) /\ t \in Int
      BY InstantInt DEF InOrder
    <2>4. s \in [from_ : Int, to_ : Int, time_duration_ : Diffs, intervals_ : Int]
      BY <2>2, <2>3, NoDiffType DEF Ordered
    <2>5. s.from_ = t /\ s.to_ = t /\ s.time_duration_ = NoDiff
      BY <2>2, <2>3 DEF Ordered
    <2>6. Ordered(s)
      BY <2>3, <2>4, <2>5 DEF Ordered
    <2>7. Tracks(s, {t})
      BY <2>5, <2>6 DEF Tracks
    <2>. QED BY <1>0, <2>1, <2>2, <2>7
  <1>5. CASE Push /\ tracked'
    <2>1. PICK t \in Instants : \E r \in {push_time(ts, t)} :
            ts' = r.seq /\ pushed' = IF tracked /\ r.ok THEN pushed \cup {t} ELSE pushed
      BY <1>5 DEF Push
    <2>2. PICK r : r = push_time(ts, t) /\ ts' = r.seq /\ pushed' = IF tracked /\ r.ok THEN pushed \cup {t} ELSE pushed
      BY <2>1
    <2>3. tracked /\ Tracks(ts, pushed)
      BY <1>5 DEF Push, Tracking
    <2>4. (r.ok => Tracks(r.seq, pushed \cup {t})) /\ (~r.ok => r.seq = ts)
      BY <2>2, <2>3, PushTracks
    <2>. QED BY <1>0, <2>2, <2>3, <2>4
  <1>6. CASE UNCHANGED vars
    <2>1. ts' = ts /\ pushed' = pushed /\ (tracked' => Tracks(ts, pushed))
      BY <1>6 DEF vars, Tracking
    <2>. QED BY <1>0, <1>1, <2>1
  <1>7. ConstructCount \/ ConstructDiff \/ ConstructInterval \/ ConstructStep \/ ExtendByInterval
        \/ ExtendBySequence \/ Bound => ~tracked'
    BY DEF ConstructCount, ConstructDiff, ConstructInterval, ConstructStep, Becomes, ExtendByInterval,
           ExtendBySequence, Grows, Bound, BoundBy
  <1>. QED BY <1>1, <1>2, <1>3, <1>4, <1>5, <1>6, <1>7 DEF Next

(* A sequence made by pushing denotes exactly the instants that push_time   *)
(* and make_from_range accepted, whether they came before or after the      *)
(* others, for steps of whole days or months and one time of day.           *)
THEOREM PushesMakeGrid == Spec => []PushedIsGrid
  <1>1. Init => InOrder /\ Tracking
    BY InitInOrder, InitTracking
  <1>2. InOrder /\ Tracking /\ [Next]_vars => InOrder' /\ Tracking'
    BY NextInOrder, NextTracking
  <1>3. Tracking => PushedIsGrid
    BY GridPoints DEF Tracking, PushedIsGrid
  <1>. QED BY <1>1, <1>2, <1>3, PTL DEF Spec
=============================================================================
