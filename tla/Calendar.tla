------------------------------ MODULE Calendar ------------------------------
(***************************************************************************)
(* Instants are seconds since 1970-01-01, as in utc_tp_t<seconds>.  The    *)
(* civil calendar is std::chrono's; the rest is DateTimeDiff of            *)
(* types/time_interval.h: a step of years, months, days and a time of day  *)
(* in fields of 8 and 16 bits.                                             *)
(*                                                                         *)
(* The code computes in double what is here computed with exact fractions  *)
(* p/q: the two agree while the divisor (a number of intervals) is a power *)
(* of two, see Counts in TimeSequence.  A double outside the range of the  *)
(* field it is cast to is undefined in C++; the build keeps the low byte.  *)
(***************************************************************************)
EXTENDS Integers

Day == 86400

\* k + p/q and p/q cut off towards zero, as C++ casts and divides (q > 0), and the remainder.
Trunc(k, p, q) == k + p \div q + (IF k + p \div q < 0 /\ p % q # 0 THEN 1 ELSE 0)
Quot(p, q) == IF q > 0 THEN Trunc(0, p, q) ELSE Trunc(0, -p, -q)
Rem(p, q) == p - q * Quot(p, q)
Int8(x) == ((x + 128) % 256) - 128
Int16(x) == ((x + 32768) % 65536) - 32768

\* std::chrono::sys_days of year/month/day; a day past the end of the month
\* counts on into the next one.
sys_days(y, m, d) ==
    LET OfEra(era, yoe) == era * 146097 + yoe * 365 + yoe \div 4 - yoe \div 100
        OfMarchYear(yy) == OfEra(yy \div 400, yy % 400)
    IN  OfMarchYear(IF m <= 2 THEN y - 1 ELSE y) + (153 * ((m + 9) % 12) + 2) \div 5 + d - 1 - 719468

\* std::chrono::year_month_day of a number of days.
year_month_day(z) ==
    LET FromMarch(y, mp, doy) == [y |-> IF mp < 10 THEN y ELSE y + 1, m |-> IF mp < 10 THEN mp + 3 ELSE mp - 9,
                                  d |-> doy - (153 * mp + 2) \div 5 + 1]
        OfYear(y, doy) == FromMarch(y, (5 * doy + 2) \div 153, doy)
        OfEra(era, doe, yoe) == OfYear(era * 400 + yoe, doe - (365 * yoe + yoe \div 4 - yoe \div 100))
        Within(era, doe) == OfEra(era, doe, (doe - doe \div 1460 + doe \div 36524 - doe \div 146096) \div 365)
    IN  Within((z + 719468) \div 146097, (z + 719468) % 146097)

Date(t) == year_month_day(t \div Day)
TimeOfDay(t) == t % Day
At(y, m, d, s) == sys_days(y, m, d) * Day + s

\* ymd + years + months: the day is kept, valid or not.
AddMonths(c, k) ==
    LET OfMonth(i) == [y |-> i \div 12, m |-> (i % 12) + 1, d |-> c.d] IN OfMonth(c.y * 12 + c.m - 1 + k)
DayOf(c) == sys_days(c.y, c.m, c.d)

isLeapYear(y) == (y % 4 = 0 /\ y % 100 # 0) \/ y % 400 = 0
getDaysInMonth(y, m) == CASE m = 2 -> IF isLeapYear(y) THEN 29 ELSE 28
                          [] m \in {4, 6, 9, 11} -> 30
                          [] OTHER -> 31
days_between_dates(a, b) == LET Abs(n) == IF n < 0 THEN -n ELSE n IN Abs(DayOf(b) - DayOf(a))
number_leap_days(a, b) ==
    LET LeapCount(y) == y \div 4 - y \div 100 + y \div 400
    IN  LeapCount(b.y - 1) - LeapCount(a.y - 1)
        + (IF isLeapYear(a.y) /\ a.m < 3 THEN 1 ELSE 0)
        + (IF isLeapYear(b.y) /\ (b.m > 2 \/ (b.m = 2 /\ b.d = 29)) THEN 1 ELSE 0)

-----------------------------------------------------------------------------
\* The fields of a DateTimeDiff.
Diff(y, mo, d, h, mi, s) ==
    [years_ |-> y, months_ |-> mo, days_ |-> d, hours_ |-> h, minutes_ |-> mi, seconds_ |-> s]
NoDiff == Diff(0, 0, 0, 0, 0, 0)

\* The constructor from durations: a field out of range is an error and stays 0.
DateTimeDiff(y, mo, d, h, mi, s) ==
    LET Fit(x) == IF x = Int8(x) THEN x ELSE 0
    IN  [diff |-> Diff(IF y = Int16(y) THEN y ELSE 0, Fit(mo), Fit(d), Fit(h), Fit(mi), Fit(s)),
         err |-> y # Int16(y) \/ \E x \in {mo, d, h, mi, s} : x # Int8(x)]

\* The constructor from two instants.  A negative difference of days borrows
\* a month, which the assignment of the months then overwrites unless the
\* months are negative too.
DiffBetween(from, to) ==
    LET Part(unit, part) == Quot((to % unit) - (from % unit), part)
        Between(a, b) ==
            Diff(b.y - a.y + (IF b.m < a.m THEN -1 ELSE 0),
                 IF b.m < a.m THEN (IF b.d < a.d THEN -1 ELSE 0) + b.m - a.m + 12 ELSE b.m - a.m,
                 IF b.d < a.d THEN Int8(b.d - a.d + getDaysInMonth(a.y, a.m)) ELSE b.d - a.d,
                 Part(Day, 3600), Part(3600, 60), Part(60, 1))
    IN  Between(Date(from), Date(to))

\* A fraction p/q of seconds split into hours, minutes and seconds.
Split(p, q) ==
    LET OfMinutes(h, m, r) == [h |-> h, m |-> m, s |-> Int8(Quot(r - m * 60 * q, q))]
        OfHours(h, r) == OfMinutes(h, Int8(Quot(r, 60 * q)), r)
        Of(h) == OfHours(h, p - h * 3600 * q)
    IN  Of(Int8(Quot(p, 3600 * q)))

\* The constructor from two instants and a number of intervals, within the
\* month of from: the hours are taken off a value that is already in hours.
WithinMonth(from, to, n, a, b) ==
    LET OfMinutes(d, x, h, m) == Diff(0, 0, d, h, m, Int8(Trunc(-60 * (h + m), x, 216000)))
        OfHours(d, x, h) == OfMinutes(d, x, h, Int8(Trunc(-60 * h, x, 216000)))
        OfSeconds(d, x) == OfHours(d, x, Int8(Quot(x, 3600)))
        OfDays(d) == OfSeconds(d, Quot(to - from, n) - d * Day)
    IN  OfDays(Int8(days_between_dates(a, b) \div n))

\* The same beyond a month: each field divided by n, what remains of the days
\* and of the years carried into the fields below (with n a power of two up to
\* 4 a remainder of years is a whole number of months); what remains of the
\* months is taken from a whole month before it is split.
BeyondMonth(from, to, n, a, b) ==
    LET late == TimeOfDay(from) > TimeOfDay(to)
        time == TimeOfDay(to) - TimeOfDay(from) + (IF late THEN Day ELSE 0)
        years == b.y - a.y - (IF b.m < a.m THEN 1 ELSE 0)
        months == ((b.m - a.m) % 12) - (IF b.d < a.d THEN 1 ELSE 0)
        dim == getDaysInMonth(a.y, a.m)
        days == b.d - a.d + (IF b.d < a.d THEN dim ELSE 0) - (IF late THEN 1 ELSE 0)
        Rest(x) == IF x > 0 THEN Rem(x, n) ELSE 0
        SecondsOfMonths(rest) == IF rest # 0 THEN (rest - n) * dim * Day ELSE 0
        Sum(x, y, z) == Diff(Int16(Quot(years, n)), Int8(Quot(months, n) + (Rest(years) * 12) \div n), Int8(Quot(days, n)),
                             Int8(x.h + y.h + z.h), Int8(x.m + y.m + z.m), Int8(x.s + y.s + z.s))
    IN  Sum(Split(time, n), Split(Rest(days) * Day, n), Split(SecondsOfMonths(Rest(months)), n))

\* A whole number of seconds per interval, or an error.
DiffOf(from, to, n) ==
    LET bad == [diff |-> NoDiff, err |-> TRUE]
        Between(a, b) ==
            IF Rem(to - from - number_leap_days(a, b) * Day, n) # 0 THEN bad
            ELSE [err |-> FALSE,
                  diff |-> IF days_between_dates(a, b) < getDaysInMonth(a.y, a.m)
                           THEN WithinMonth(from, to, n, a, b) ELSE BeyondMonth(from, to, n, a, b)]
    IN  CASE from = to -> [diff |-> NoDiff, err |-> n > 0]
          [] from # to /\ n = 0 -> bad
          [] OTHER -> Between(Date(from), Date(to))

\* An instant plus or minus a DateTimeDiff: the time of day is dropped, and the month
\* wraps around without touching the year.
Shift(t, d, sign) ==
    LET From(c) == At(c.y + sign * d.years_, ((c.m - 1 + sign * d.months_) % 12) + 1, (c.d + sign * d.days_) % 256,
                      sign * (d.hours_ * 3600 + d.minutes_ * 60 + d.seconds_))
    IN  From(Date(t))
Plus(t, d) == Shift(t, d, 1)
Minus(t, d) == Shift(t, d, -1)
=============================================================================
