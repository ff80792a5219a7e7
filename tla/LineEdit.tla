------------------------------ MODULE LineEdit ------------------------------
(***************************************************************************)
(* The line editor behind CLIHandler (CLI/CLInavig.cpp, linenoise.c): the   *)
(* edited line and its cursor, the history and its file, completion, and    *)
(* what is drawn on the terminal, in single-line and in multi-line mode.    *)
(*                                                                         *)
(* ls is struct linenoiseState, with the screen its ofd writes to as the    *)
(* field tty.  ls.buf is the text in front of the terminating zero, so that *)
(* l->len is Len(ls.buf).  One action is one call of linenoiseEditFeed, or  *)
(* one call of the API.  mode holds what the global settings select.        *)
(***************************************************************************)
EXTENDS Terminal, LineHistory

CONSTANTS
  Chars,                \* printing characters
  HighChars,            \* characters above 127, negative as a char: they are
                        \* inserted like the others, and typed in the model
                        \* only where they differ, during a completion
  Space,                \* the character ' '
  PLen,                 \* strlen(prompt)
  Completions(_),       \* completionCallback: the proposals for a line
  Hint(_),              \* hintsCallback: the hint for a line, <<>> for none
  Modes,                \* settings: [mlmode, maskmode, hints, completion], and
                        \* three bounds: inputs, the calls of CLIHandler::input,
                        \* chars, the characters that are typed, and typed, the
                        \* length up to which they are
  DefaultMaxLen,        \* LINENOISE_DEFAULT_HISTORY_MAX_LEN
  Lengths,              \* arguments of set_history_length
  PlainLines,           \* lines read when there is no terminal to edit on
  NoLine                \* the null pointer

VARIABLES
  ls, history, history_max_len, file, mode,
  stage,                \* idle | edit | hidden | returned | saving | writing
  line,                 \* CLIHandler::line
  inputs,               \* calls of input so far
  cleared,              \* observer: the screen was cleared during this line
  before,               \* observer: the history when the line was started,
                        \* NoLine once a history key was used
  control,              \* observer: a control character was drawn in this line
  entered,              \* observer: the line added to the history last
  saved,                \* observer: entered when the file was last closed in
                        \* full, NoLine since it was opened again
  excuse                \* observer: why entered is not saved: "none" |
                        \* "refused" | "short" | "ended"

vars == <<ls, history, history_max_len, file, mode, stage, line, inputs,
          cleared, before, control, entered, saved, excuse>>

ASSUME PromptAssumption == PLen \in 1 .. Cols - 1
\* Control characters linenoiseEditFeed has no case for: Tab when there is
\* nothing to complete, Ctrl-J and one that stands for those that draw
\* nothing.  They are inserted like any character.
Controls == {"tab", LF, "bell"}

Characters == Chars \cup HighChars \cup Controls \cup {CR}

ASSUME CharsAssumption ==
  /\ Space \in Chars
  /\ HighChars \cap Chars = {} /\ (HighChars \cup Chars) \cap (Controls \cup {CR}) = {}
ASSUME HistoryAssumption == DefaultMaxLen \in Nat \ {0, 1} /\ Lengths \subseteq Int

buflen == LINENOISE_MAX_LINE - 1   \* room is kept for the terminating zero

Text == Seq(Characters)                           \* lines of any length
Lines == SeqOf(Characters, buflen)                \* those that fit the buffer

\* A completion longer than the buffer is not modelled.
ASSUME CompletionsAssumption == \A l \in Lines : Completions(l) \in Seq(Lines)
ASSUME InputAssumption ==
  /\ PlainLines \subseteq Text
  /\ \A m \in Modes : m.chars \subseteq Chars \cup Controls

MoveKeys == {"left", "right", "home", "end"}
KillKeys == {"delete", "backspace", "ctrl_t", "ctrl_u", "ctrl_k", "ctrl_w"}
HistoryKeys == {"prev", "next"}

-----------------------------------------------------------------------------
(* Drawing *)

Prompt == [i \in 1 .. PLen |-> "prompt"]

Masked(s) == IF mode.maskmode THEN [i \in DOMAIN s |-> "*"] ELSE s

refreshShowHints(t, l, hints) ==
  IF hints /\ PLen + Len(l.buf) < Cols
  THEN Put(t, [i \in 1 .. Min({Len(Hint(l.buf)), Cols - (PLen + Len(l.buf))})
                 |-> "hint"])
  ELSE t

\* The part of the line that is shown when it is longer than the row: the
\* cursor's column has to be on the screen.
refreshSingleLine(l, clean, write, hints) ==
  LET Row(t, off) ==
        Forward(CarriageReturn(EraseRight(refreshShowHints(
                  Put(t, Prompt \o Masked(SubSeq(l.buf, off + 1,
                                                 Min({Len(l.buf), off + Cols - PLen})))),
                  l, hints))),
                l.pos - off + PLen)
  IN  [l EXCEPT !.tty = IF write THEN Row(CarriageReturn(@), Max({0, PLen + l.pos - Cols + 1}))
                                 ELSE EraseRight(CarriageReturn(@))]

ClearAndUp(t, j) == Up(EraseRight(CarriageReturn(t)), 1)

\* The rows the last refresh drew are erased from the bottom up.
EraseRows(l, clean) ==
  LET rpos == (PLen + l.oldpos + Cols) \div Cols
      below == IF l.oldrows - rpos > 0 THEN Down(l.tty, l.oldrows - rpos) ELSE l.tty
  IN  EraseRight(CarriageReturn(
        IF clean THEN FoldLeft(ClearAndUp, below, [j \in 1 .. l.oldrows - 1 |-> j])
                 ELSE l.tty))

\* The text ends with the row: a newline makes room for the cursor.
NeedsNewRow(l) == l.pos # 0 /\ l.pos = Len(l.buf) /\ (l.pos + PLen) % Cols = 0

RowsOf(l) == (PLen + Len(l.buf) + Cols - 1) \div Cols

\* Prompt and line, then the cursor up to its row and on to its column.
WriteRows(t, l, hints) ==
  LET drawn == refreshShowHints(Put(t, Prompt \o Masked(l.buf)), l, hints)
      Raised(u, n) == IF n > 0 THEN Up(u, n) ELSE u
      Column(u, col) == IF col # 0 THEN Forward(u, col) ELSE u
      Placed(u, rows) ==
        Column(CarriageReturn(Raised(u, rows - (PLen + l.pos + Cols) \div Cols)),
               (PLen + l.pos) % Cols)
  IN  IF NeedsNewRow(l) THEN Placed(CarriageReturn(LineFeed(drawn)), RowsOf(l) + 1)
                        ELSE Placed(drawn, RowsOf(l))

\* As refreshMultiLine, with the row that the newline adds not counted.
refreshMultiLine_ForgetsNewRow(l, clean, write, hints) ==
  [l EXCEPT !.oldrows = RowsOf(l),
            !.oldpos  = l.pos,
            !.tty     = IF write THEN WriteRows(EraseRows(l, clean), l, hints)
                                 ELSE EraseRows(l, clean)]

refreshMultiLine(l, clean, write, hints) ==
  [l EXCEPT !.oldrows = IF write /\ NeedsNewRow(l) THEN RowsOf(l) + 1 ELSE RowsOf(l),
            !.oldpos  = l.pos,
            !.tty     = IF write THEN WriteRows(EraseRows(l, clean), l, hints)
                                 ELSE EraseRows(l, clean)]

refreshLineWithFlags(l, clean, write) ==
  IF mode.mlmode THEN refreshMultiLine(l, clean, write, mode.hints)
                 ELSE refreshSingleLine(l, clean, write, mode.hints)

refreshLine(l) == refreshLineWithFlags(l, TRUE, TRUE)

\* The proposal is drawn in the place of the line, which is kept.
refreshLineWithCompletion(l, clean, write) ==
  LET lc == Completions(l.buf)
      Shows(proposal) == [l EXCEPT !.buf = proposal, !.pos = Len(proposal)]
      drawn == refreshLineWithFlags(IF l.completion_idx < Len(lc) THEN Shows(lc[l.completion_idx + 1]) ELSE l,
                                    clean, write)
  IN  [drawn EXCEPT !.buf = l.buf, !.pos = l.pos]

linenoiseHide(l) == refreshLineWithFlags(l, TRUE, FALSE)

linenoiseShow(l) == IF l.in_completion THEN refreshLineWithCompletion(l, FALSE, TRUE)
                                       ELSE refreshLineWithFlags(l, FALSE, TRUE)

-----------------------------------------------------------------------------
(* Editing *)

\* At the end of a line that still fits, only the character is written.
linenoiseEditInsert(l, c) ==
  LET typed == [l EXCEPT !.buf = InsertAt(l.buf, l.pos + 1, c), !.pos = @ + 1]
  IN  IF Len(l.buf) >= buflen THEN l
      ELSE IF Len(l.buf) = l.pos /\ ~mode.mlmode
              /\ PLen + Len(typed.buf) < Cols /\ ~mode.hints
           THEN [typed EXCEPT !.tty = Put(@, Masked(<<c>>))]
           ELSE refreshLine(typed)

MoveTo(l, pos) == IF l.pos = pos THEN l ELSE refreshLine([l EXCEPT !.pos = pos])

linenoiseEditMove(l, key) ==
  CASE key = "left"  -> MoveTo(l, Max({0, l.pos - 1}))
    [] key = "right" -> MoveTo(l, Min({Len(l.buf), l.pos + 1}))
    [] key = "home"  -> MoveTo(l, 0)
    [] key = "end"   -> MoveTo(l, Len(l.buf))

linenoiseEditDelete(l) ==
  IF l.pos < Len(l.buf) THEN refreshLine([l EXCEPT !.buf = RemoveAt(@, l.pos + 1)])
                        ELSE l

linenoiseEditBackspace(l) ==
  IF l.pos > 0 THEN refreshLine([l EXCEPT !.buf = RemoveAt(@, l.pos), !.pos = @ - 1])
               ELSE l

\* The spaces in front of the cursor and the word in front of them.
linenoiseEditDeletePrevWord(l) ==
  LET wordEnd   == Max({0} \cup {i \in 1 .. l.pos : l.buf[i] # Space})
      wordStart == Max({0} \cup {i \in 1 .. wordEnd : l.buf[i] = Space})
  IN  refreshLine([l EXCEPT !.buf = SubSeq(@, 1, wordStart)
                                    \o SubSeq(@, l.pos + 1, Len(@)),
                            !.pos = wordStart])

SwapChars(l) ==
  IF l.pos > 0 /\ l.pos < Len(l.buf)
  THEN refreshLine(
         [l EXCEPT !.buf = [@ EXCEPT ![l.pos] = l.buf[l.pos + 1],
                                     ![l.pos + 1] = l.buf[l.pos]],
                   !.pos = IF @ # Len(l.buf) - 1 THEN @ + 1 ELSE @])
  ELSE l

linenoiseEditKill(l, key) ==
  CASE key = "delete"    -> linenoiseEditDelete(l)
    [] key = "backspace" -> linenoiseEditBackspace(l)
    [] key = "ctrl_t"    -> SwapChars(l)
    [] key = "ctrl_u"    -> refreshLine([l EXCEPT !.buf = <<>>, !.pos = 0])
    [] key = "ctrl_k"    -> refreshLine([l EXCEPT !.buf = SubSeq(@, 1, l.pos)])
    [] key = "ctrl_w"    -> linenoiseEditDeletePrevWord(l)

\* The entry that is left takes the edited text; the one that is shown is
\* cut to what strncpy and the zero behind it leave.
linenoiseEditHistoryNext(l, key) ==
  LET stored == [history EXCEPT ![Len(history) - l.history_index] = l.buf]
      index  == IF key = "prev" THEN l.history_index + 1 ELSE l.history_index - 1
      entry  == stored[Len(history) - index]
      text   == SubSeq(entry, 1, Min({Len(entry), buflen - 1}))
  IN  IF Len(history) <= 1 THEN [ls |-> l, history |-> history]
      ELSE IF index < 0 THEN [ls |-> [l EXCEPT !.history_index = 0],
                              history |-> stored]
      ELSE IF index >= Len(history)
           THEN [ls |-> [l EXCEPT !.history_index = Len(history) - 1],
                 history |-> stored]
      ELSE [ls |-> refreshLine([l EXCEPT !.history_index = index,
                                         !.buf = text, !.pos = Len(text)]),
            history |-> stored]

-----------------------------------------------------------------------------
(* Completion *)

\* The state after the key, and the key that is left to be handled: "more"
\* when it was used up, "null" when its code is negative.
completeLine(l, key) ==
  LET lc == Completions(l.buf)
      next == IF l.in_completion THEN (l.completion_idx + 1) % (Len(lc) + 1) ELSE 0
      proposed == [l EXCEPT !.in_completion = TRUE, !.completion_idx = next]
      left == [l EXCEPT !.in_completion = FALSE]
      taken == IF l.completion_idx < Len(lc)
               THEN [left EXCEPT !.buf = lc[l.completion_idx + 1],
                                 !.pos = Len(lc[l.completion_idx + 1])]
               ELSE left
      reshown == IF l.completion_idx < Len(lc) THEN refreshLine(left) ELSE left
      unused == IF key \in HighChars THEN "null" ELSE key
  IN  IF lc = <<>> THEN [ls |-> left, key |-> unused]
      ELSE CASE key = "tab" ->
                  [ls |-> refreshLineWithCompletion(proposed, TRUE, TRUE),
                   key |-> "more"]
             [] key = "escape" -> [ls |-> refreshLine(reshown), key |-> "more"]
             [] OTHER -> [ls |-> refreshLine(taken), key |-> unused]

\* linenoiseEditFeed up to its switch.
Fed(key) ==
  IF (ls.in_completion \/ key = "tab") /\ mode.completion
  THEN completeLine(ls, key)
  ELSE [ls |-> ls, key |-> key]
-----------------------------------------------------------------------------
(* The API *)

NewState ==
  [buf |-> <<>>, pos |-> 0, oldpos |-> 0, oldrows |-> 0, history_index |-> 0,
   in_completion |-> FALSE, completion_idx |-> 0,
   tty |-> Put(Screen(1, {<<0, 0, "output">>}), Prompt)]

Init ==
  /\ mode \in Modes
  /\ ls = NewState
  /\ history = <<>> /\ history_max_len = DefaultMaxLen
  /\ file = NoText /\ line = NoLine
  /\ stage = "idle" /\ inputs = 0
  /\ cleared = FALSE /\ before = NoLine /\ control = FALSE
  /\ entered = NoLine /\ saved = NoLine /\ excuse = "none"

\* The file, and what its observers say of it, stay as they are.
FileUntouched == UNCHANGED <<file, entered, saved, excuse>>

\* CLIHandler::input up to the first key: linenoise and linenoiseEditStart,
\* which puts an empty entry for the edited line at the end of the history.
EditStart ==
  /\ stage = "idle" /\ inputs < mode.inputs
  /\ stage' = "edit" /\ inputs' = inputs + 1
  /\ ls' = NewState
  /\ history' = HistoryAdd(history, history_max_len, <<>>)
  /\ line' = NoLine /\ cleared' = FALSE /\ before' = history /\ control' = FALSE
  /\ FileUntouched /\ UNCHANGED <<history_max_len, mode>>

\* linenoiseEditFeed returns linenoiseEditMore.
More(l) ==
  /\ ls' = l
  /\ control' = (control \/ (~mode.maskmode /\ \E i \in DOMAIN l.buf : l.buf[i] \in Controls \cup {CR}))
  /\ FileUntouched /\ UNCHANGED <<history_max_len, mode, stage, line, inputs>>

\* linenoiseEditFeed returns a line, or NULL with the history as it is.
Returns(l, result) ==
  /\ ls' = l /\ line' = result /\ stage' = "returned"
  /\ FileUntouched
  /\ UNCHANGED <<history_max_len, mode, inputs, cleared, before, control>>

\* The key is used up by the completion, or ends the edit as an error.
FeedCompletion(key) ==
  /\ stage = "edit"
  /\ \E fed \in {Fed(key)} :
       \/ /\ fed.key = "more"
          /\ More(fed.ls) /\ UNCHANGED <<history, cleared, before>>
       \/ /\ fed.key = "null"
          /\ Returns(fed.ls, NoLine) /\ UNCHANGED history

FeedInsert(c) ==
  /\ stage = "edit" /\ Fed(c).key = c /\ Len(ls.buf) < mode.typed
  /\ More(linenoiseEditInsert(Fed(c).ls, c))
  /\ UNCHANGED <<history, cleared, before>>

FeedMove(key) ==
  /\ stage = "edit"
  /\ More(linenoiseEditMove(Fed(key).ls, key))
  /\ UNCHANGED <<history, cleared, before>>

\* The delete key is an escape sequence, which a completion would cut.
FeedKill(key) ==
  /\ stage = "edit" /\ (key = "delete" => ~ls.in_completion)
  /\ More(linenoiseEditKill(Fed(key).ls, key))
  /\ UNCHANGED <<history, cleared, before>>

FeedHistory(key) ==
  /\ stage = "edit"
  /\ \E next \in {linenoiseEditHistoryNext(Fed(key).ls, key)} :
       More(next.ls) /\ history' = next.history
  /\ before' = NoLine
  /\ UNCHANGED cleared

\* Ctrl-L
FeedClearScreen ==
  /\ stage = "edit"
  /\ LET l == Fed("ctrl_l").ls
     IN  More(refreshLine([l EXCEPT !.tty = HomeAndClear(@)]))
  /\ cleared' = TRUE
  /\ UNCHANGED <<history, before>>

\* What is left on the screen of a line that was entered: in multi-line
\* mode the cursor is at its end, and there are no hints.
Finish(l) ==
  LET WithoutHints(k) ==
        IF ~mode.hints THEN k
        ELSE IF mode.mlmode THEN refreshMultiLine(k, TRUE, TRUE, FALSE)
        ELSE refreshSingleLine(k, TRUE, TRUE, FALSE)
  IN  WithoutHints(IF mode.mlmode THEN linenoiseEditMove(l, "end") ELSE l)

\* As FeedEnter, with the entry of the edited line left in the history.
FeedEnter_KeepsEntry ==
  /\ stage = "edit"
  /\ \E l \in {Fed("enter").ls} : Returns(Finish(l), l.buf)
  /\ UNCHANGED history

\* The entry of the edited line is taken off the history.
FeedEnter ==
  /\ stage = "edit"
  /\ \E l \in {Fed("enter").ls} : Returns(Finish(l), l.buf)
  /\ history' = Front(history)

\* Ctrl-C, and a read that fails: the history keeps the entry.
FeedInterrupt ==
  /\ stage = "edit"
  /\ Returns(Fed("ctrl_c").ls, NoLine) /\ UNCHANGED history

\* Ctrl-D deletes a character, on an empty line it ends the input.
FeedEof ==
  /\ stage = "edit"
  /\ \E l \in {Fed("ctrl_d").ls} :
       IF l.buf # <<>>
       THEN More(linenoiseEditDelete(l)) /\ UNCHANGED <<history, cleared, before>>
       ELSE Returns(l, NoLine) /\ history' = Front(history)

\* The asynchronous API: the line is taken off the screen to print something.
Hide ==
  /\ stage = "edit" /\ stage' = "hidden"
  /\ ls' = linenoiseHide(ls)
  /\ FileUntouched
  /\ UNCHANGED <<history, history_max_len, mode, line, inputs, cleared, before,
                 control>>

Show ==
  /\ stage = "hidden" /\ stage' = "edit"
  /\ ls' = linenoiseShow(ls)
  /\ FileUntouched
  /\ UNCHANGED <<history, history_max_len, mode, line, inputs, cleared, before,
                 control>>

\* CLIHandler::input behind linenoise: the line is added to the history,
\* which is to be saved next.
add_to_history(l) ==
  /\ history' = HistoryAdd(history, history_max_len, l)
  /\ entered' = l /\ stage' = "saving"
  /\ UNCHANGED <<file, saved, excuse>>

EditStop ==
  /\ stage = "returned"
  /\ IF line = NoLine THEN stage' = "idle" /\ FileUntouched /\ UNCHANGED history
                       ELSE add_to_history(line)
  /\ ls' = NewState /\ cleared' = FALSE /\ control' = FALSE
  /\ UNCHANGED <<history_max_len, mode, line, inputs, before>>

\* CLIHandler::input without a terminal, or on one linenoise does not know:
\* the line is read as it is.
InputPlain(l) ==
  /\ stage = "idle" /\ inputs < mode.inputs /\ inputs' = inputs + 1
  /\ line' = l /\ before' = NoLine /\ stage' = "returned"
  /\ FileUntouched
  /\ UNCHANGED <<ls, history, history_max_len, mode, cleared, control>>

\* linenoiseHistorySave opens the file, which empties it, or is refused.  The
\* caller does not look at what it returns.
HistoryOpen ==
  /\ stage = "saving"
  /\ \/ /\ stage' = "writing" /\ file' = NoText
        /\ saved' = NoLine /\ UNCHANGED excuse
     \/ /\ stage' = "idle" /\ excuse' = "refused"
        /\ UNCHANGED <<file, saved>>
  /\ UNCHANGED <<ls, history, history_max_len, mode, line, inputs, cleared, before,
                 control, entered>>

\* The stream passes on what it has buffered so far; the model takes all that
\* reaches the file before the writing is cut short as one flush.
HistoryFlush ==
  /\ stage = "writing" /\ file = NoText
  /\ file' \in HistoryCuts(history)
  /\ UNCHANGED <<ls, history, history_max_len, mode, stage, line, inputs, cleared,
                 before, control, entered, saved, excuse>>

\* fclose writes the rest, or what it can: neither it nor fprintf is asked
\* whether it could.
HistoryClose ==
  /\ stage = "writing" /\ stage' = "idle"
  /\ \/ /\ file' = HistorySave(history)
        /\ saved' = entered /\ excuse' = "none"
     \/ /\ excuse' = "short" /\ UNCHANGED <<file, saved>>
  /\ UNCHANGED <<ls, history, history_max_len, mode, line, inputs, cleared, before,
                 control, entered>>

set_history_length(len) ==
  LET set == HistorySetMaxLen(history, history_max_len, len)
  IN  /\ stage = "idle"
      /\ history' = set.history /\ history_max_len' = set.max
      /\ before' = NoLine
      /\ FileUntouched
      /\ UNCHANGED <<ls, mode, stage, line, inputs, cleared, control>>

\* The process ends at any point, between the steps of a save as well, and is
\* started again: the constructor of CLIHandler loads the file.
Restart ==
  /\ history' = HistoryLoad(<<>>, DefaultMaxLen, file)
  /\ history_max_len' = DefaultMaxLen
  /\ ls' = NewState /\ stage' = "idle" /\ line' = NoLine
  /\ cleared' = FALSE /\ before' = NoLine /\ control' = FALSE
  /\ excuse' = IF stage \in {"saving", "writing"} THEN "ended" ELSE excuse
  /\ UNCHANGED <<file, mode, inputs, entered, saved>>

Next ==
  \/ EditStart \/ EditStop \/ Restart \/ Hide \/ Show
  \/ HistoryOpen \/ HistoryFlush \/ HistoryClose
  \/ FeedEnter \/ FeedInterrupt \/ FeedEof \/ FeedClearScreen
  \/ \E c \in mode.chars : FeedInsert(c)
  \/ \E key \in HighChars \cup {"tab", "escape"} : FeedCompletion(key)
  \/ \E key \in MoveKeys : FeedMove(key)
  \/ \E key \in KillKeys : FeedKill(key)
  \/ \E key \in HistoryKeys : FeedHistory(key)
  \/ \E l \in PlainLines : InputPlain(l)
  \/ \E len \in Lengths : set_history_length(len)

Spec == Init /\ [][Next]_vars

-----------------------------------------------------------------------------
(* Properties *)

\* What the user is to see: the line, or the proposal in its place.
Shown ==
  LET lc == Completions(ls.buf)
  IN  IF ls.in_completion /\ ls.completion_idx < Len(lc)
      THEN [text |-> lc[ls.completion_idx + 1],
            pos |-> Len(lc[ls.completion_idx + 1])]
      ELSE [text |-> ls.buf, pos |-> ls.pos]

FirstRow == IF cleared THEN 0 ELSE 1
OtherCells == IF cleared THEN {} ELSE {<<0, 0, "output">>}

\* The cells of a text that runs on from row to row, n columns to a row.
Cells(text, n) ==
  {<<FirstRow + (i - 1) \div n, (i - 1) % n, text[i]>> : i \in DOMAIN text}

Hints(cells) == {x \in cells : x[3] = "hint"}

\* refreshMultiLine: prompt and line run over as many rows as they need, the
\* cursor stands on the column of the next character, and nothing is left of
\* what was drawn before.
MultiLineShown(text, pos) ==
  /\ ls.tty.cells \ Hints(ls.tty.cells) = OtherCells \cup Cells(Prompt \o text, Cols)
  /\ ls.tty.row = FirstRow + (PLen + pos) \div Cols
  /\ ls.tty.col = (PLen + pos) % Cols

\* refreshSingleLine: one row shows the prompt and a part of the line with
\* the cursor in it, from its start if that is possible.  The last column is
\* left out: what ESC [ 0 K does to it when a wrap is pending is the
\* terminal's affair.
SingleLineShown(text, pos) ==
  \E off \in 0 .. Len(text) :
    LET part == SubSeq(text, off + 1, Min({Len(text), off + Cols - PLen}))
        BeforeLast(cells) == {x \in cells : x[2] < Cols - 1}
    IN  /\ off <= pos /\ PLen + pos - off < Cols
        /\ off > 0 => PLen + pos >= Cols
        /\ BeforeLast(ls.tty.cells \ Hints(ls.tty.cells))
             = BeforeLast(OtherCells \cup Cells(Prompt \o part, Cols))
        /\ ls.tty.row = FirstRow
        /\ ls.tty.col = PLen + pos - off

\* The screen shows the edited line after every key, however it was drawn:
\* in full by a refresh, by the one character linenoiseEditInsert writes, as
\* a proposal, after a clear or after output in between.  A hidden line
\* leaves nothing on the screen and the cursor where it began.  A control
\* character that was drawn ends this for the line: linenoise counts one
\* column for it, a terminal moves its cursor.  Masked lines draw none.
ScreenShowsLine ==
  /\ stage = "edit" /\ ~control =>
       LET text == IF mode.maskmode THEN [i \in DOMAIN Shown.text |-> "*"]
                                    ELSE Shown.text
       IN  IF mode.mlmode THEN MultiLineShown(text, Shown.pos)
                          ELSE SingleLineShown(text, Shown.pos)
  /\ stage = "hidden" /\ ~control =>
       /\ ls.tty.cells = OtherCells
       /\ ls.tty.row = FirstRow /\ ls.tty.col = 0

\* An input in which no history key was pressed leaves the history as it was
\* when the line was started with the line behind it: the entry
\* linenoiseEditStart made for the edited line is gone.  It costs the oldest
\* entry of a full history, and an empty entry at the end is used in its place.
UntouchedHistory ==
  stage \in {"saving", "writing", "idle"} /\ before # NoLine /\ line # NoLine =>
    LET kept == IF before # <<>> /\ Last(before) = <<>> THEN Front(before)
                ELSE IF Len(before) = history_max_len THEN Tail(before)
                ELSE before
    IN  history = HistoryAdd(kept, history_max_len, line)

\* A line of text that one fgets returns: Ctrl-J puts a line end into an edited
\* line, a reader without a terminal returns longer lines and carriage returns.
OneLine(l) ==
  Len(l) < LINENOISE_MAX_LINE /\ \A i \in DOMAIN l : l[i] \notin {LF, CR}

\* Whenever the process ends, what the next one loads holds the line that was
\* entered last before the file was closed in full, and that is the line that
\* was entered last of all, but for four cases: its save is under way, the
\* file could not be opened (the file before it is still there), the writing
\* was cut short, or the process ended before the close.  From when the file
\* is opened to its close nothing is promised: it was emptied, and an end of
\* the process in between leaves the history cut or gone.  The next save that
\* goes through makes up for each of them.
EnteredSurvives ==
  /\ saved # NoLine /\ OneLine(saved) =>
       Contains(HistoryLoad(<<>>, DefaultMaxLen, file), saved)
  /\ stage \notin {"saving", "writing"} /\ excuse = "none" => saved = entered
=============================================================================
