----------------------------- MODULE MCLineEdit -----------------------------
(***************************************************************************)
(* The line editor with lines of at most four characters on a terminal of   *)
(* three columns: a line fills a row, runs over two rows and reaches the    *)
(* length linenoise allows; the history has room for two entries.           *)
(***************************************************************************)
EXTENDS LineEdit

MCCompletions(l) == IF l = <<"a">> THEN <<<<"a", "a">>, <<" ">>>> ELSE <<>>

MCHint(l) == IF l = <<"a">> THEN <<"x", "x">> ELSE <<>>

Mode(ml, mask, hints, completion, n, chars, typed) ==
  [mlmode |-> ml, maskmode |-> mask, hints |-> hints, completion |-> completion,
   inputs |-> n, chars |-> chars, typed |-> typed]

\* One line with all the keys in the ways it can be drawn, one with control
\* characters, masked and not, and three lines of up to two characters with the
\* history they leave.
MCModes ==
  {Mode(FALSE, FALSE, FALSE, TRUE,  1, Chars, 5),
   Mode(TRUE,  FALSE, FALSE, TRUE,  1, Chars, 5),
   Mode(FALSE, TRUE,  TRUE,  FALSE, 1, Chars, 5),
   Mode(TRUE,  FALSE, TRUE,  TRUE,  1, Chars, 5),
   Mode(FALSE, FALSE, FALSE, TRUE,  1, {"a", "tab"}, 5),
   Mode(TRUE,  TRUE,  FALSE, FALSE, 1, Controls, 3),
   Mode(FALSE, FALSE, FALSE, FALSE, 3, {"a"}, 2)}

MCPlainLines == {<<"a", "a", "a", "a">>, <<"a", CR>>}
=============================================================================
