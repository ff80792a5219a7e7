SPECIFICATION Spec
CONSTANTS
  Cols = 3
  LINENOISE_MAX_LINE = 5
  Chars = {"a", " "}
  HighChars = {"high"}
  Space = " "
  PLen = 1
  Completions <- MCCompletions
  Hint <- MCHint
  Modes <- MCModes
  DefaultMaxLen = 2
  Lengths = {0, 1}
  PlainLines <- MCPlainLines
  NoLine = NoLine
INVARIANTS
  ScreenShowsLine
  UntouchedHistory
  EnteredSurvives
