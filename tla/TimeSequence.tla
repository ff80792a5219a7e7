---------------------------- MODULE TimeSequence ----------------------------
(***************************************************************************)
(* TimeSequence of types/time_interval.h: the instants from, from + step,  *)
(* from + 2 step, ..., to, kept as an interval, a DateTimeDiff and a       *)
(* number of intervals that every operation has to keep consistent.        *)
(*                                                                         *)
(* One object, and every public operation that makes or changes it as an   *)
(* action.  Each call gets a fresh error_code, as the callers do.          *)
(***************************************************************************)
EXTENDS Calendar, FiniteSets, Sequences

CONSTANTS
    Instants,   \* the instants offered to the operations
    Steps,      \* the DateTimeDiffs offered to the constructors
    Counts,     \* the numbers of intervals for which double is exact
    MaxPoints,  \* bound on the number of intervals of the object
    CountLimit  \* the values of a uint32_t: 2^32 in the code

\* std::chrono::year is a short.
ASSUME InstantsAssumption == Instants \subseteq Nat /\ \A t \in Instants : 1970 <= Date(t).y /\ Date(t).y <= 32767
ASSUME StepsAssumption ==
    Steps \subseteq [years_ : Nat, months_ : Nat, days_ : Nat, hours_ : Nat, minutes_ : Nat, seconds_ : Nat]
ASSUME CountsAssumption == Counts \subseteq {1, 2, 4}
ASSUME LimitAssumption == CountLimit \in Nat /\ MaxPoints \in 1 .. CountLimit - 2

VARIABLES
    ts,         \* the object: from, to, step and number of intervals
    pushed,     \* the instants given to a sequence that was only pushed to
    tracked,    \* the object was only pushed to since it held one instant
    last        \* what the last call returned

vars == <<ts, pushed, tracked, last>>

-----------------------------------------------------------------------------
\* __time_interval__: the constructor orders its ends.
Interval(a, b) == IF a <= b THEN [from_ |-> a, to_ |-> b] ELSE [from_ |-> b, to_ |-> a]
intervals_intersect(i, j) == ~(i.from_ > j.to_ \/ i.to_ < j.from_)
contains(i, j) == i.from_ <= j.from_ /\ i.to_ >= j.to_

Seq0(i, step, n) == [from_ |-> i.from_, to_ |-> i.to_, time_duration_ |-> step, intervals_ |-> n]
Empty == Seq0(Interval(0, 0), NoDiff, 0)
Failed(s) == [seq |-> s, err |-> TRUE]
Made(s) == [seq |-> s, err |-> FALSE]

\* A number of intervals is an int32_t where it is computed and a uint32_t where it is
\* kept: -1, the number of an error, becomes the greatest.
Kept(n) == IF n < 0 THEN CountLimit + n ELSE n

HasMonths(d) == d.years_ # 0 \/ d.months_ # 0
HasTime(d) == d.days_ # 0 \/ d.hours_ # 0 \/ d.minutes_ # 0 \/ d.seconds_ # 0
Months(d) == d.years_ * 12 + d.months_
TimePart(d) == d.hours_ * 3600 + d.minutes_ * 60 + d.seconds_
Seconds(d) == d.days_ * Day + TimePart(d)

\* Fault: an incomplete month counts.
MonthsBetween_Incomplete(from, to) == (Date(to).y - Date(from).y) * 12 + Date(to).m - Date(from).m

\* Whole months from one instant to a later one.
MonthsBetween(from, to) ==
    LET Between(a, b) ==
            (b.y - a.y) * 12 + b.m - a.m
            - (IF b.d < a.d \/ (b.d = a.d /\ TimeOfDay(to) < TimeOfDay(from)) THEN 1 ELSE 0)
    IN  Between(Date(from), Date(to))

\* Seconds left between them when k months are taken back from the later one.
SecondsBetween(from, to, k) == DayOf(AddMonths(Date(to), -k)) * Day + TimeOfDay(to) - from

full_number_of_intervals(a, b, d) ==
    LET Least(N, k) == IF ~HasTime(d) THEN N ELSE IF HasMonths(d) /\ N < k THEN N ELSE k
        Rest(i, N) == Least(N, Quot(SecondsBetween(i.from_, i.to_, N * Months(d)), Seconds(d)))
        Whole(i) == Rest(i, IF HasMonths(d) THEN Quot(MonthsBetween(i.from_, i.to_), Months(d)) ELSE 0)
    IN  CASE (a = b) # (d = NoDiff) -> [n |-> -1, err |-> TRUE]
          [] a = b /\ d = NoDiff -> [n |-> 0, err |-> FALSE]
          [] OTHER -> [n |-> Whole(Interval(a, b)), err |-> FALSE]

\* The steps of months in m months, those of days and time in what they leave,
\* and an error when something remains or the two differ.
compute_number_of_intervals(a, b, d) ==
    LET bad == [n |-> -1, err |-> TRUE]
        Agree(N, k, left) ==
            IF Rem(left, Seconds(d)) # 0 \/ (N # 0 /\ N # k) THEN bad ELSE [n |-> k, err |-> FALSE]
        OfTime(N, left) == Agree(N, Quot(left, Seconds(d)), left)
        Rest(i, m, N) ==
            IF HasTime(d) THEN OfTime(N, SecondsBetween(i.from_, i.to_, N * Months(d)))
            ELSE IF Rem(m, Months(d)) # 0 THEN bad ELSE [n |-> N, err |-> FALSE]
        OfMonths(i, m) == Rest(i, m, IF HasMonths(d) THEN Quot(m, Months(d)) ELSE 0)
        Whole(i) == OfMonths(i, MonthsBetween(i.from_, i.to_))
    IN  CASE (a = b) # (d = NoDiff) -> bad
          [] a = b /\ d = NoDiff -> [n |-> 0, err |-> FALSE]
          [] OTHER -> Whole(Interval(a, b))

\* operator[]: the instant k steps after the first.
Index(s, k) ==
    (DayOf(AddMonths(Date(s.from_), k * Months(s.time_duration_))) + k * s.time_duration_.days_) * Day
    + TimeOfDay(s.from_) + k * TimePart(s.time_duration_)

Points(s) == IF s.time_duration_ = NoDiff THEN {s.from_} ELSE {Index(s, k) : k \in 0 .. s.intervals_}

-----------------------------------------------------------------------------
\* The constructors.
OfInstant(t) == Seq0(Interval(t, t), NoDiff, 0)

OfCount(a, b, n) ==
    LET With(d) == [seq |-> Seq0(Interval(a, b), d.diff, n), err |-> d.err \/ (n = 0) # (a = b)]
    IN  With(DiffOf(a, b, n))

\* The step is computed again from the number of intervals it divides into.
OfDiff(a, b, d) ==
    LET step == DateTimeDiff(d.years_, d.months_, d.days_, d.hours_, d.minutes_, d.seconds_).diff
        Divided(c) ==
            IF c.err \/ c.n < 0 THEN Failed(Seq0(Interval(a, b), NoDiff, Kept(-1))) ELSE OfCount(a, b, c.n)
    IN  Divided(IF a = b THEN [n |-> 0, err |-> FALSE] ELSE compute_number_of_intervals(a, b, step))

OfInterval(i) == Seq0(i, DiffBetween(i.from_, i.to_), 1)

\* The time of day of the first instant does not enter the end.
OfStep(t, d, n) ==
    Seq0(Interval(t, DayOf(AddMonths(Date(t), n * Months(d))) * Day + n * Seconds(d)), d, n)

-----------------------------------------------------------------------------
\* bound_by_interval, by where the interval begins and ends.  With no point inside,
\* BoundInside returns the two points around the interval, ordered, and -1 as it is kept.
FullFrom(s, t) == full_number_of_intervals(s.from_, t, s.time_duration_)
Cut(s, a, b, n) == Made(Seq0(Interval(a, b), s.time_duration_, n))

BoundRight(s, i) ==
    LET End(f) ==
            IF f.err THEN Failed(Empty)
            ELSE IF f.n = 0 THEN Made(OfInterval(Interval(s.from_, s.from_)))
            ELSE Cut(s, s.from_, Index(s, f.n), f.n)
    IN  End(FullFrom(s, i.to_))

\* Past the first step the half before the interval is returned.
BoundLeft(s, i) ==
    LET Begin(f) ==
            IF f.err THEN Failed(Empty)
            ELSE IF f.n = 0 THEN Cut(s, Plus(s.from_, s.time_duration_), s.to_, s.intervals_ - 1)
            ELSE Cut(s, s.from_, Index(s, f.n), f.n)
    IN  Begin(FullFrom(s, i.from_))

\* Fault: the step before the first point inside is counted.
BoundInside_Count(s, i) ==
    LET Ends(f, g) == IF f.err \/ g.err THEN Failed(Empty)
                      ELSE Cut(s, Index(s, f.n + 1), Index(s, g.n), Kept(g.n - f.n))
    IN  Ends(FullFrom(s, i.from_), FullFrom(s, i.to_))

BoundInside(s, i) ==
    LET Ends(f, g) == IF f.err \/ g.err THEN Failed(Empty)
                      ELSE Cut(s, Index(s, f.n + 1), Index(s, g.n), Kept(g.n - (f.n + 1)))
    IN  Ends(FullFrom(s, i.from_), FullFrom(s, i.to_))

bound_by_interval(s, i) ==
    CASE ~intervals_intersect(s, i) -> Failed(Empty)
      [] contains(i, s) -> Made(s)
      [] i.from_ <= s.from_ /\ i.to_ >= s.from_ /\ i.to_ < s.to_ -> BoundRight(s, i)
      [] i.from_ > s.from_ /\ i.from_ <= s.to_ /\ i.to_ >= s.to_ -> BoundLeft(s, i)
      [] OTHER -> BoundInside(s, i)

Refused(s, err) == [seq |-> s, ok |-> FALSE, err |-> err]
Accepted(s) == [seq |-> s, ok |-> TRUE, err |-> FALSE]

\* The first push to a single instant makes the step.
FirstStep(s, tmp) == IF tmp.err THEN Refused(s, TRUE) ELSE Accepted(tmp.seq)

push_time_before(s, t) ==
    CASE t >= s.from_ -> Refused(s, FALSE)
      [] t < s.from_ /\ s.time_duration_ = NoDiff -> FirstStep(s, OfCount(t, s.to_, 1))
      [] t < s.from_ /\ s.time_duration_ # NoDiff ->
           IF DiffBetween(t, s.from_) = s.time_duration_
           THEN Accepted([s EXCEPT !.from_ = t, !.intervals_ = @ + 1]) ELSE Refused(s, FALSE)

\* Fault: any later instant is taken.
push_time_after_Any(s, t) ==
    CASE t <= s.to_ -> Refused(s, FALSE)
      [] t > s.to_ /\ s.time_duration_ = NoDiff -> FirstStep(s, OfCount(s.from_, t, 1))
      [] t > s.to_ /\ s.time_duration_ # NoDiff -> Accepted([s EXCEPT !.to_ = t, !.intervals_ = @ + 1])

push_time_after(s, t) ==
    CASE t <= s.to_ -> Refused(s, FALSE)
      [] t > s.to_ /\ s.time_duration_ = NoDiff -> FirstStep(s, OfCount(s.from_, t, 1))
      [] t > s.to_ /\ s.time_duration_ # NoDiff ->
           IF DiffBetween(s.to_, t) = s.time_duration_
           THEN Accepted([s EXCEPT !.to_ = t, !.intervals_ = @ + 1]) ELSE Refused(s, FALSE)

push_time(s, t) ==
    LET OrAfter(b) == IF b.ok \/ b.err THEN b ELSE push_time_after(s, t) IN OrAfter(push_time_before(s, t))

\* The longest prefix of a series that makes one sequence.
make_from_range(series) ==
    LET upto[k \in 1 .. Len(series)] ==
            IF k = 1 THEN [seq |-> OfInstant(series[1]), used |-> 1, going |-> TRUE]
            ELSE LET Then(before, p) == IF before.going /\ p.ok THEN [seq |-> p.seq, used |-> k, going |-> TRUE]
                                        ELSE [before EXCEPT !.going = FALSE]
                 IN  Then(upto[k - 1], push_time_after(upto[k - 1].seq, series[k]))
    IN  upto[Len(series)]

extendable_by(s, o) ==
    LET Halves(t, d) == \/ Plus(Plus(t, d), d) = Plus(t, s.time_duration_)
                        \/ Minus(Minus(t, d), d) = Minus(t, s.time_duration_)
        Twice(d) == ~d.err /\ Halves(s.from_, d.diff) /\ Halves(s.to_, d.diff)
    IN  \/ o.time_duration_ = NoDiff /\ s.time_duration_ = NoDiff
        \/ /\ s.time_duration_ = o.time_duration_
           /\ Interval(s.from_, s.to_) # Interval(o.from_, o.to_)
           /\ ~compute_number_of_intervals(o.from_, s.from_, s.time_duration_).err
           /\ \/ o.from_ <= Plus(s.to_, s.time_duration_) /\ o.to_ >= Plus(s.to_, s.time_duration_)
              \/ o.to_ >= Minus(s.from_, s.time_duration_) /\ o.from_ <= Minus(s.from_, s.time_duration_)
              \/ Twice(DiffOf(o.from_, s.from_, 2))

\* Fault: the number of intervals is not computed again.
Extended_Count(s, i) ==
    LET hull == Interval(IF i.from_ < s.from_ THEN i.from_ ELSE s.from_, IF i.to_ > s.to_ THEN i.to_ ELSE s.to_)
    IN  Accepted(Seq0(hull, s.time_duration_, s.intervals_))

Extended(s, i) ==
    LET Counted(hull, c) == [seq |-> Seq0(hull, s.time_duration_, Kept(c.n)), ok |-> TRUE, err |-> c.err]
        Over(hull) == Counted(hull, compute_number_of_intervals(hull.from_, hull.to_, s.time_duration_))
    IN  Over(Interval(IF i.from_ < s.from_ THEN i.from_ ELSE s.from_, IF i.to_ > s.to_ THEN i.to_ ELSE s.to_))

\* Refused only when the interval neither divides into steps nor extends.
extend_by_interval(s, i) ==
    LET With(tmp) == IF tmp.err /\ ~extendable_by(s, tmp.seq) THEN Refused(s, TRUE) ELSE Extended(s, i)
    IN  With(OfDiff(i.from_, i.to_, s.time_duration_))

extend_by_sequence(s, o) == IF extendable_by(s, o) THEN Extended(s, o) ELSE Refused(s, FALSE)

-----------------------------------------------------------------------------
Init ==
    /\ ts = Empty
    /\ pushed = {}
    /\ tracked = FALSE
    /\ last = [op |-> "none", err |-> FALSE]

WithinAMonth(c, e) == days_between_dates(c, e) < getDaysInMonth(c.y, c.m)

\* Numbers of intervals the doubles divide by without rounding.
Exact(a, b, n) ==
    \/ n \in Counts \cup {0, Kept(-1)}
    \/ WithinAMonth(Date(a), Date(b))

\* Whole days or whole months; years that the months take back would be a step of no
\* length, by which nothing can be divided.
Plain(d) ==
    /\ d.hours_ = 0 /\ d.minutes_ = 0 /\ d.seconds_ = 0
    /\ ~(HasMonths(d) /\ HasTime(d))
    /\ HasMonths(d) => Months(d) # 0

\* Bound: only such sequences, of 1 to MaxPoints intervals, are cut and grown; the steps that
\* dividing a time of day leaves reach dates beyond TLC's integers.
InBounds == Plain(ts.time_duration_) /\ ts.intervals_ \in 1 .. MaxPoints

Becomes(s, err) ==
    /\ last.op = "none"
    /\ ts' = s
    /\ last' = [op |-> "make", err |-> err]
    /\ pushed' = {}
    /\ tracked' = FALSE

ConstructInstant == \E t \in Instants :
    /\ last.op = "none"
    /\ ts' = OfInstant(t)
    /\ pushed' = {t}
    /\ tracked' = TRUE
    /\ last' = [op |-> "make", err |-> FALSE]

ConstructCount == \E a, b \in Instants, n \in Counts \cup {0} :
    \E r \in {OfCount(a, b, n)} : Becomes(r.seq, r.err)

ConstructDiff == \E a, b \in Instants, d \in Steps :
    \E r \in {OfDiff(a, b, d)} :
        /\ Exact(a, b, r.seq.intervals_)
        /\ Becomes(r.seq, r.err)

ConstructInterval == \E a, b \in Instants : Becomes(OfInterval(Interval(a, b)), FALSE)

ConstructStep == \E a \in Instants, d \in Steps, n \in Counts : Becomes(OfStep(a, d, n), FALSE)

MakeFromRange == \E a, b, c \in Instants :
    \E r \in {make_from_range(<<a, b, c>>)} :
        /\ last.op = "none"
        /\ ts' = r.seq
        /\ pushed' = {<<a, b, c>>[k] : k \in 1 .. r.used}
        /\ tracked' = TRUE
        /\ last' = [op |-> "make", err |-> FALSE]

Reset == \E t \in Instants :
    /\ ts' = [ts EXCEPT !.from_ = t, !.to_ = t, !.time_duration_ = NoDiff]
    /\ pushed' = {t}
    /\ tracked' = TRUE
    /\ last' = [op |-> "reset", err |-> FALSE]

Push == \E t \in Instants :
    /\ ts.intervals_ < MaxPoints
    /\ \E r \in {push_time(ts, t)} :
           /\ ts' = r.seq
           /\ pushed' = IF tracked /\ r.ok THEN pushed \cup {t} ELSE pushed
           /\ last' = [op |-> "push", ok |-> r.ok, err |-> r.err]
    /\ UNCHANGED tracked

Grows(op, r) ==
    /\ ts' = r.seq
    /\ pushed' = {}
    /\ tracked' = FALSE
    /\ last' = [op |-> op, ok |-> r.ok, err |-> r.err]

ExtendByInterval == \E a, b \in Instants :
    InBounds /\ Grows("interval", extend_by_interval(ts, Interval(a, b)))

ExtendBySequence == \E a, b \in Instants, n \in Counts :
    \E o \in {OfCount(a, b, n)} : ~o.err /\ InBounds /\ Grows("sequence", extend_by_sequence(ts, o.seq))

BoundBy(i) ==
    /\ InBounds
    /\ \E r \in {bound_by_interval(ts, i)} :
           /\ ts' = IF r.err THEN ts ELSE r.seq
           /\ last' = [op |-> "bound", err |-> r.err]
    /\ pushed' = {}
    /\ tracked' = FALSE

Bound == \E a, b \in Instants : BoundBy(Interval(a, b))

Next ==
    \/ ConstructInstant \/ ConstructCount \/ ConstructDiff \/ ConstructInterval \/ ConstructStep \/ MakeFromRange
    \/ Reset \/ Push \/ ExtendByInterval \/ ExtendBySequence \/ Bound

Spec == Init /\ [][Next]_vars

-----------------------------------------------------------------------------
\* A sequence ends where its steps lead; one of whole days or months, whose number of
\* intervals does not come from a negative one.
OnGrid(s) == s.intervals_ > 0 /\ Index(s, s.intervals_) = s.to_

Sound(s) ==
    /\ Plain(s.time_duration_) /\ s.time_duration_ # NoDiff
    /\ HasMonths(s.time_duration_) => Date(s.from_).d <= 28
    /\ s.intervals_ < CountLimit \div 2 /\ OnGrid(s)

\* A sequence that was made by pushing instants, one at a time or from a
\* range, before or after the others, denotes exactly the instants that
\* push_time accepted: the interval, the step of the first push, the later
\* comparisons and the count agree, for steps of whole days or months between
\* instants at one time of day: of a difference below an hour the first push
\* keeps nothing, as the hours are taken off a value that is in hours.
SameTime(P) == \A t, u \in P : TimeOfDay(t) = TimeOfDay(u)
PushedIsGrid == tracked /\ Plain(ts.time_duration_) /\ SameTime(pushed) => Points(ts) = pushed

\* bound_by_interval returns exactly the points of the sequence that lie inside the
\* interval, wherever it begins and ends, and an error when the interval misses the
\* sequence or ends at its first instant.  The code does otherwise in three cases, which
\* are stated as what it does there: a point after the first at which the interval begins
\* is left out; when that leaves no point, those before and after come back, and 2^32 - 1
\* as their count; and an interval that begins at or after the second point and reaches
\* the end returns the points before its beginning, not those after.
\* (Where operator+, which BoundLeft uses, agrees with operator[].)
Within(s, i) == {t \in Points(s) : i.from_ <= t /\ t <= i.to_ /\ (t = i.from_ => t = s.from_)}
Before(s, i) == {t \in Points(s) : t <= i.from_}
Late(s, i) == Index(s, 1) <= i.from_ /\ s.to_ <= i.to_

BoundReturns(s, i, r, err) ==
    IF ~intervals_intersect(s, i) \/ i.to_ = s.from_ THEN err
    ELSE IF Late(s, i) THEN ~err /\ Points(r) = Before(s, i)
    ELSE IF Within(s, i) # {} THEN ~err /\ Points(r) = Within(s, i)
    ELSE /\ ~err /\ {r.from_, r.to_} \subseteq Points(s) /\ r.intervals_ = Kept(-1)
         /\ r.from_ <= i.from_ /\ i.to_ < r.to_

BoundOnGrid == [][
    last'.op = "bound" /\ Sound(ts) /\ Plus(ts.from_, ts.time_duration_) = Index(ts, 1) =>
        \A a, b \in Instants : BoundBy(Interval(a, b)) => BoundReturns(ts, Interval(a, b), ts', last'.err)]_vars

\* full_number_of_intervals is the greatest number of steps that fits between
\* two instants, time of day and lengths of months included, and
\* compute_number_of_intervals, when it succeeds, returns the same number.
CountIsGreatest == \A d \in Steps \ {NoDiff} :
    LET s == Seq0(Interval(ts.from_, ts.to_), d, 0)
        pure == ~(HasMonths(d) /\ HasTime(d)) /\ (HasMonths(d) => Date(ts.from_).d <= 28)
        Fit(f, c) == /\ Index(s, f.n) <= ts.to_ /\ ts.to_ < Index(s, f.n + 1)
                     /\ ~c.err => c.n = f.n
    IN  pure /\ ts.from_ # ts.to_ =>
            Fit(full_number_of_intervals(ts.from_, ts.to_, d), compute_number_of_intervals(ts.from_, ts.to_, d))

\* An extension that reports neither refusal nor error leaves a sequence that
\* ends where its steps lead; an extension by a sequence of days also keeps
\* every point.  With steps of months the days of the month and the times of
\* day must agree: a remainder below a month is not noticed.
GrowsOnGrid == [][
    LET months == HasMonths(ts.time_duration_)
    IN  /\ last'.op \in {"interval", "sequence"} /\ last'.ok /\ ~last'.err /\ Sound(ts)
        /\ months => Date(ts'.from_).d = Date(ts'.to_).d /\ TimeOfDay(ts'.from_) = TimeOfDay(ts'.to_)
        => OnGrid(ts') /\ (last'.op = "sequence" /\ ~months => Points(ts) \subseteq Points(ts'))]_vars

=============================================================================
