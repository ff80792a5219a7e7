---------------------------- MODULE LineHistory ----------------------------
(***************************************************************************)
(* The history of linenoise: an array of lines, the oldest first, with a    *)
(* greatest length, and the file it is saved to.                           *)
(*                                                                         *)
(* A file is the entries that were written of it, a line end behind each,   *)
(* and the cut: the text behind the last line end, which is empty unless    *)
(* the writing was cut short.  An entry may hold the characters LF and CR   *)
(* themselves, which the reader takes for the end of a line.               *)
(***************************************************************************)
EXTENDS Integers, Sequences, SequencesExt, FiniteSetsExt

CONSTANT LINENOISE_MAX_LINE         \* 4096 in the code

LF == "lf"
CR == "cr"

ASSUME MaxLineAssumption == LINENOISE_MAX_LINE \in Nat /\ LINENOISE_MAX_LINE > 2

HistoryAdd(history, max, line) ==
  IF max = 0 \/ (history # <<>> /\ Last(history) = line)
  THEN history
  ELSE Append(IF Len(history) = max THEN Tail(history) ELSE history, line)

\* The latest len entries are kept; a length below one is refused.
HistorySetMaxLen(history, max, len) ==
  IF len < 1 THEN [history |-> history, max |-> max]
  ELSE [history |-> IF len < Len(history)
                    THEN SubSeq(history, Len(history) - len + 1, Len(history))
                    ELSE history,
        max |-> len]

NoText == [entries |-> <<>>, cut |-> <<>>]

\* As HistorySave, with the loop over the entries ending one too early.
HistorySave_Early(history) ==
  [entries |-> IF history = <<>> THEN history ELSE Front(history), cut |-> <<>>]

\* What linenoiseHistorySave writes: one line of text for every entry.
HistorySave(history) == [entries |-> history, cut |-> <<>>]

\* What is in the file when the writing was cut short: the first entries,
\* and the next one up to any of its characters.
HistoryCuts(history) ==
  UNION {{[entries |-> SubSeq(history, 1, n - 1), cut |-> SubSeq(history[n], 1, k)] :
            k \in 0 .. Len(history[n])} : n \in DOMAIN history}

\* fgets takes LINENOISE_MAX_LINE - 1 characters at a time, the line end
\* included: the parts of a text that are complete, and what is left open.
FgetsChar(read, c) ==
  IF c = LF THEN [parts |-> Append(read.parts, read.open), open |-> <<>>]
  ELSE IF Len(read.open) + 2 = LINENOISE_MAX_LINE
       THEN [parts |-> Append(read.parts, Append(read.open, c)), open |-> <<>>]
  ELSE [parts |-> read.parts, open |-> Append(read.open, c)]

Fgets(text) ==
  LET read[i \in 0 .. Len(text)] ==
        IF i = 0 THEN [parts |-> <<>>, open |-> <<>>]
                 ELSE FgetsChar(read[i - 1], text[i])
  IN  read[Len(text)]

\* A line with its end, which closes what is open.
LineParts(line) == Append(Fgets(line).parts, Fgets(line).open)

\* The text behind the last line end: nothing is read where nothing is left.
CutParts(cut) ==
  IF Fgets(cut).open = <<>> THEN Fgets(cut).parts ELSE LineParts(cut)

\* A part is kept up to the first carriage return.
UpToReturn(part) ==
  LET returns == {i \in DOMAIN part : part[i] = CR}
  IN  IF returns = {} THEN part ELSE SubSeq(part, 1, Min(returns) - 1)

HistoryLoadParts(history, max, parts) ==
  LET read[i \in 0 .. Len(parts)] ==
        IF i = 0 THEN history ELSE HistoryAdd(read[i - 1], max, UpToReturn(parts[i]))
  IN  read[Len(parts)]

HistoryLoadLines(history, max, entries) ==
  LET loaded[i \in 0 .. Len(entries)] ==
        IF i = 0 THEN history
        ELSE HistoryLoadParts(loaded[i - 1], max, LineParts(entries[i]))
  IN  loaded[Len(entries)]

\* The lines of the file are added to the history from the start.
HistoryLoad(history, max, file) ==
  HistoryLoadParts(HistoryLoadLines(history, max, file.entries), max, CutParts(file.cut))
=============================================================================
