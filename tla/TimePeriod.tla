----------------------------- MODULE TimePeriod -----------------------------
(***************************************************************************)
(* TimePeriod of types/time_period.h: an offset of years, months, days,    *)
(* hours, minutes and seconds, with its own constructor, its own way to    *)
(* the next instant and its own JSON form, beside DateTimeDiff.            *)
(*                                                                         *)
(* get_null_aligned_tp reads years and months it has not set, and reading  *)
(* a period from text refuses every text with a unit: neither is here.     *)
(***************************************************************************)
EXTENDS Calendar, Sequences

Period(y, mo, d, h, mi, s) ==
    [years |-> y, months |-> mo, days |-> d, hours |-> h, minutes |-> mi, seconds |-> s]

\* Fault: the hours are not taken off the minutes.
CarryMinutes_Keeps(p) ==
    IF p.minutes < 60 THEN p
    ELSE [p EXCEPT !.days = p.minutes \div 1440, !.hours = (p.minutes % 1440) \div 60, !.minutes = p.minutes % 1440]

\* The constructor: a unit that overflows is split into the ones above it,
\* and what those held is overwritten.
CarrySeconds(p) ==
    IF p.seconds <= 59 THEN p
    ELSE [p EXCEPT !.days = p.seconds \div Day, !.hours = (p.seconds % Day) \div 3600,
                   !.minutes = (p.seconds % 3600) \div 60, !.seconds = p.seconds % 60]
CarryMinutes(p) ==
    IF p.minutes < 60 THEN p
    ELSE [p EXCEPT !.days = p.minutes \div 1440, !.hours = (p.minutes % 1440) \div 60, !.minutes = p.minutes % 60]
CarryHours(p) ==
    IF p.hours < 24 THEN p ELSE [p EXCEPT !.days = p.hours \div 24, !.hours = p.hours % 24]
TimePeriodOf(y, mo, d, h, mi, s) == CarryHours(CarryMinutes(CarrySeconds(Period(y, mo, d, h, mi, s))))

is_set(p) == \E f \in DOMAIN p : p[f] # 0

\* The smallest unit in use.
min_valuable(p) ==
    CASE p.seconds > 0 -> "seconds"
      [] p.seconds <= 0 /\ p.minutes > 0 -> "minutes"
      [] p.seconds <= 0 /\ p.minutes <= 0 /\ p.hours > 0 -> "hours"
      [] p.seconds <= 0 /\ p.minutes <= 0 /\ p.hours <= 0 /\ p.days > 0 -> "days"
      [] OTHER -> IF p.months > 0 THEN "months" ELSE IF p.years > 0 THEN "years" ELSE "seconds"

\* operator+ and operator-: years and months are std::chrono's average ones.
InSeconds(p) ==
    p.years * 31556952 + p.months * 2629746 + p.days * Day + p.hours * 3600 + p.minutes * 60 + p.seconds
PlusPeriod(t, p) == t + InSeconds(p)
MinusPeriod(t, p) == t - InSeconds(p)

\* The time of day, the minutes and the seconds do not enter.
get_next_tp(p, t) ==
    DayOf(AddMonths(AddMonths(Date(t), 12 * p.years), p.months)) * Day + p.days * Day + p.hours * 3600

\* An object with a number under the name of every unit; reading it sets the
\* fields as they are, without the constructor.
PeriodToJson(p) == [u \in {"years", "months", "days", "hours", "minutes", "seconds"} |-> p[u]]
PeriodFromJson(o) == Period(o["years"], o["months"], o["days"], o["hours"], o["minutes"], o["seconds"])

\* The text names the units above the minutes only.
PeriodText(p) ==
    LET Part(n, u) == IF n > 0 THEN <<<<n, u>>>> ELSE <<>>
    IN  Part(p.years, "y") \o Part(p.months, "m") \o Part(p.days, "d") \o Part(p.hours, "h")
=============================================================================
