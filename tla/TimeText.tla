------------------------------ MODULE TimeText ------------------------------
(***************************************************************************)
(* What is done with a TimeSequence besides changing it: the positions of  *)
(* an interval in it, its JSON form and its reading back, the text and     *)
(* JSON forms of its step and its instants, and the same steps taken with  *)
(* a TimePeriod.  Pure functions, compared with each other on every        *)
(* sequence the operations of TimeSequence reach.                          *)
(*                                                                         *)
(* A text is the sequence of its numbers and units.                        *)
(***************************************************************************)
EXTENDS TimeSequence, TimePeriod

LOCAL INSTANCE SequencesExt

None == [found |-> FALSE]

-----------------------------------------------------------------------------
\* Two sequences are equal when their intervals are; the step does not count.
SameInterval(s, o) == s.from_ = o.from_ /\ s.to_ = o.to_

interval_intersection(i, j) ==
    IF ~intervals_intersect(i, j) THEN None
    ELSE [found |-> TRUE,
          at |-> Interval(IF i.from_ < j.from_ THEN j.from_ ELSE i.from_, IF i.to_ < j.to_ THEN i.to_ ELSE j.to_)]

\* Fault: the positions after the interval are not taken off the number of all.
interval_intersection_pos_Tail(seek, s) ==
    LET Found(f, g) ==
            IF ~intervals_intersect(seek, s) \/ s.time_duration_ = NoDiff \/ f.err \/ g.err THEN None
            ELSE [found |-> TRUE, first |-> f.n, second |-> g.n]
    IN  Found(IF seek.from_ <= s.from_ THEN [n |-> 0, err |-> FALSE]
              ELSE compute_number_of_intervals(s.from_, seek.from_, s.time_duration_),
              IF seek.to_ >= s.to_ THEN [n |-> s.intervals_, err |-> FALSE]
              ELSE compute_number_of_intervals(seek.to_, s.to_, s.time_duration_))

\* The first and the last position of an interval in a sequence.
interval_intersection_pos(seek, s) ==
    LET Found(f, g) ==
            IF ~intervals_intersect(seek, s) \/ s.time_duration_ = NoDiff \/ f.err \/ g.err THEN None
            ELSE [found |-> TRUE, first |-> f.n, second |-> s.intervals_ - g.n]
    IN  Found(IF seek.from_ <= s.from_ THEN [n |-> 0, err |-> FALSE]
              ELSE compute_number_of_intervals(s.from_, seek.from_, s.time_duration_),
              IF seek.to_ >= s.to_ THEN [n |-> 0, err |-> FALSE]
              ELSE compute_number_of_intervals(seek.to_, s.to_, s.time_duration_))

-----------------------------------------------------------------------------
\* Instants as text: JSON has the year in full, lexical_cast its last two
\* digits, read as 1969 to 2068.
TextOf(t) ==
    LET Of(c, s) == [y |-> c.y, m |-> c.m, d |-> c.d, H |-> s \div 3600, M |-> (s % 3600) \div 60, S |-> s % 60]
    IN  Of(Date(t), TimeOfDay(t))
ReadText(x) == At(x.y, x.m, x.d, x.H * 3600 + x.M * 60 + x.S)
ShortText(x) == [x EXCEPT !.y = @ % 100]
ReadShortText(x) == [x EXCEPT !.y = IF @ < 69 THEN 2000 + @ ELSE 1900 + @]

\* A DateTimeDiff in JSON: the six fields, read back with the constructor
\* that refuses what does not fit; its error is not looked at.
DiffToJson(d) == <<d.years_, d.months_, d.days_, d.hours_, d.minutes_, d.seconds_>>
DiffFromJson(x) == DateTimeDiff(x[1], x[2], x[3], x[4], x[5], x[6]).diff

\* A sequence in JSON: the step is not stored but computed again.  An object
\* without one of the three fields is refused, null is the empty sequence.
SequenceToJson(s) == [start |-> TextOf(s.from_), end |-> TextOf(s.to_), intervals |-> s.intervals_]
SequenceFromJson(o) ==
    CASE o = <<>> -> [found |-> TRUE, at |-> Empty]
      [] o # <<>> /\ ~({"start", "end", "intervals"} \subseteq DOMAIN o) -> None
      [] OTHER -> LET Loaded(r) == IF r.err THEN None ELSE [found |-> TRUE, at |-> r.seq]
                  IN  Loaded(OfCount(ReadText(o.start), ReadText(o.end), o.intervals))

\* A DateTimeDiff as text.  What is printed of minutes and seconds is the hours.
DiffText(d) ==
    LET Part(test, n, u) == IF test > 0 THEN <<<<n, u>>>> ELSE <<>>
        OrZero(text) == IF text = <<>> THEN <<<<0, "s">>>> ELSE text
    IN  OrZero(Part(d.years_, d.years_, "y") \o Part(d.months_, d.months_, "m") \o Part(d.days_, d.days_, "d")
               \o Part(d.hours_, d.hours_, "h") \o Part(d.minutes_, d.hours_, "min") \o Part(d.seconds_, d.hours_, "s"))

\* Fault: months are stored as days.
ReadUnit_Days(r, part) ==
    LET n == part[1]
    IN  CASE r.err -> r
          [] ~r.err /\ part[2] = "h" /\ n = Int8(n) -> [r EXCEPT !.diff.hours_ = n]
          [] ~r.err /\ part[2] = "y" /\ n = Int16(n) -> [r EXCEPT !.diff.years_ = n]
          [] ~r.err /\ part[2] \in {"d", "s", "m"} /\ n = Int8(n) -> [r EXCEPT !.diff.days_ = n]
          [] OTHER -> [r EXCEPT !.err = TRUE]

\* Reading one number and its unit.  The m of min is taken for months and the
\* rest of it refused; seconds are stored as days.
ReadUnit(r, part) ==
    LET n == part[1]
    IN  CASE r.err -> r
          [] ~r.err /\ part[2] = "h" /\ n = Int8(n) -> [r EXCEPT !.diff.hours_ = n]
          [] ~r.err /\ part[2] = "y" /\ n = Int16(n) -> [r EXCEPT !.diff.years_ = n]
          [] ~r.err /\ part[2] = "m" /\ n = Int8(n) -> [r EXCEPT !.diff.months_ = n]
          [] ~r.err /\ part[2] \in {"d", "s"} /\ n = Int8(n) -> [r EXCEPT !.diff.days_ = n]
          [] OTHER -> [r EXCEPT !.err = TRUE]
ReadDiffText(text) == FoldLeft(ReadUnit, [diff |-> NoDiff, err |-> FALSE], text)

-----------------------------------------------------------------------------
\* interval_intersection_pos names, when it finds positions, exactly the
\* points of the sequence that lie in the intersection; with steps of months
\* the interval has to begin and end at the day and time of the points, as a
\* remainder of days is not noticed.
PositionsInside == \A a, b \in Instants :
    LET seek == Interval(a, b)
        OnDay(t) == Date(t).d = Date(ts.from_).d /\ TimeOfDay(t) = TimeOfDay(ts.from_)
        Inside(pos, common) ==
            /\ Sound(ts) /\ pos.found
            /\ HasMonths(ts.time_duration_) => OnDay(common.at.from_) /\ OnDay(common.at.to_)
            => {Index(ts, k) : k \in pos.first .. pos.second}
                   = {x \in Points(ts) : common.at.from_ <= x /\ x <= common.at.to_}
    IN  Inside(interval_intersection_pos(seek, ts), interval_intersection(seek, ts))

\* What is written is read back: a sequence that JSON accepts has the ends and
\* the count of the one that was stored, and its step too although that is
\* computed again (but for days over more than a month, which may come back as
\* months); instants and steps survive both forms, as text as far as two digits
\* of a year and the units down to the hour carry.
ReadsBack ==
    LET d == ts.time_duration_
        x == TextOf(ts.from_)
        short == WithinAMonth(Date(ts.from_), Date(ts.to_))
        Restored(loaded) ==
            loaded.found => /\ SameInterval(ts, loaded.at) /\ loaded.at.intervals_ = ts.intervals_
                            /\ short \/ HasMonths(d) => loaded.at = ts
    IN  /\ Sound(ts) /\ Exact(ts.from_, ts.to_, ts.intervals_) => Restored(SequenceFromJson(SequenceToJson(ts)))
        /\ DiffFromJson(DiffToJson(d)) = d
        /\ \A y \in {1968, 1969, 2000, 2068, 2069} :
               ReadShortText(ShortText([x EXCEPT !.y = y])) = [x EXCEPT !.y = y] <=> y \in 1969 .. 2068
        /\ d.minutes_ = 0 /\ d.seconds_ = 0 /\ (\A f \in DOMAIN d : d[f] >= 0) =>
               ReadDiffText(DiffText(d)) = [diff |-> d, err |-> FALSE]

\* A TimePeriod of the time between two instants, given in seconds, in minutes
\* or in hours with what remains below, leads from one to the other with
\* operator+ and back with operator-, and with get_next_tp as far as its
\* smallest unit is an hour; one with the fields of a step, stored and loaded,
\* takes the same step as operator[] and has the step's text.
PeriodAgrees ==
    LET n == ts.to_ - ts.from_
        d == ts.time_duration_
        q == PeriodFromJson(PeriodToJson(TimePeriodOf(d.years_, d.months_, d.days_, d.hours_, d.minutes_, d.seconds_)))
    IN  /\ \A p \in {TimePeriodOf(0, 0, 0, 0, 0, n), TimePeriodOf(0, 0, 0, 0, n \div 60, n % 60),
                     TimePeriodOf(0, 0, 0, n \div 3600, (n % 3600) \div 60, n % 60)} :
            /\ PlusPeriod(ts.from_, p) = ts.to_ /\ MinusPeriod(ts.to_, p) = ts.from_
            /\ is_set(p) /\ min_valuable(p) \notin {"seconds", "minutes"} =>
                   get_next_tp(p, ts.from_) + TimeOfDay(ts.from_) = ts.to_
        /\ Sound(ts) => /\ get_next_tp(q, ts.from_) + TimeOfDay(ts.from_) = Index(ts, 1)
                        /\ PeriodText(q) = DiffText(d)
=============================================================================
