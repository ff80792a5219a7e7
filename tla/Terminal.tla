------------------------------ MODULE Terminal ------------------------------
(***************************************************************************)
(* The terminal linenoise draws on, reduced to the control sequences that   *)
(* linenoise.c sends (it lists them at its top).  External code: the model  *)
(* is that of a VT100 with a deferred wrap, where a character written in    *)
(* the last column leaves the cursor there with a wrap pending.             *)
(*                                                                         *)
(* A screen is a record: the cells that hold a character, as triples of     *)
(* row, column and character, and the cursor.  Rows and columns count from  *)
(* zero; row zero is the top of the screen, there is no bottom (a terminal  *)
(* that scrolls moves all the rows alike).                                  *)
(***************************************************************************)
EXTENDS Integers, Sequences, SequencesExt

CONSTANT Cols                       \* linenoiseState::cols, getColumns()

ASSUME ColsAssumption == Cols \in Nat \ {0}

Screen(row, cells) ==
  [cells |-> cells, row |-> row, col |-> 0, pending |-> FALSE]

\* The top row of cells that are on the screen when the line is started.
At(t, row, col) == {x \in t.cells : x[1] = row /\ x[2] = col}

PrintChar(t, c) ==
  LET row == IF t.pending THEN t.row + 1 ELSE t.row
      col == IF t.pending THEN 0 ELSE t.col
      atMargin == col = Cols - 1
  IN  [cells   |-> (t.cells \ At(t, row, col)) \cup {<<row, col, c>>},
       row     |-> row,
       col     |-> IF atMargin THEN col ELSE col + 1,
       pending |-> atMargin]

CarriageReturn(t) == [t EXCEPT !.col = 0, !.pending = FALSE]

LineFeed(t) == [t EXCEPT !.row = @ + 1, !.pending = FALSE]

\* To the next of the stops, eight columns apart, or to the last column; the
\* cells in between stay as they are.
TabStop(t) ==
  LET stop == 8 * (t.col \div 8 + 1)
  IN  [t EXCEPT !.col = IF stop < Cols THEN stop ELSE Cols - 1]

\* Control characters move the cursor, or ring, and leave no mark.
PutChar(t, c) ==
  CASE c = "tab"  -> TabStop(t)
    [] c = "lf"   -> LineFeed(t)
    [] c = "bell" -> t
    [] OTHER      -> PrintChar(t, c)

\* write(fd, s, len)
Put(t, s) == FoldLeft(PutChar, t, s)

\* ESC [ 0 K: from the cursor to the right edge, the cursor's cell included.
EraseRight(t) ==
  [t EXCEPT !.cells = {x \in @ : ~(x[1] = t.row /\ x[2] >= t.col)}]

\* ESC [ n C, n A, n B: the cursor stops at the edges; a zero counts as one.
Steps(n) == IF n = 0 THEN 1 ELSE n

Forward(t, n) ==
  [t EXCEPT !.pending = FALSE,
            !.col = IF @ + Steps(n) < Cols THEN @ + Steps(n) ELSE Cols - 1]

Up(t, n) ==
  [t EXCEPT !.pending = FALSE, !.row = IF @ > Steps(n) THEN @ - Steps(n) ELSE 0]

Down(t, n) == [t EXCEPT !.pending = FALSE, !.row = @ + Steps(n)]

\* ESC [ H ESC [ 2 J
HomeAndClear(t) == Screen(0, {})
=============================================================================
