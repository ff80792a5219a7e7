--------------------------- MODULE MCTimeSequence ---------------------------
(* Instance of TimeSequence for TLC: days that follow one another, the end of
   a month at noon, a leap day and a new year in between; steps of days,
   months, a year, half a day, and of a month and a day. *)
EXTENDS TimeText, TLC

Midnight(y, m, d) == At(y, m, d, 0)
MCInstants == {Midnight(1996, 1, 1), Midnight(1996, 1, 2), Midnight(1996, 1, 3),
               Midnight(1996, 1, 31) + 43200, Midnight(1996, 3, 1), Midnight(1997, 1, 1)}
MCSteps == {Diff(0, 0, 1, 0, 0, 0), Diff(0, 1, 0, 0, 0, 0), Diff(1, 0, 0, 0, 0, 0),
            Diff(0, 0, 0, 12, 0, 0), Diff(0, 1, 1, 0, 0, 0)}
=============================================================================
