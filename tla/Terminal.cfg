CONSTANTS
  VGA_WIDTH = 5
  VGA_HEIGHT = 2
  Printable = {"ue", " "}
  Extended = {"ue"}
  Space = " "
  MaxText = 6
  MaxLen = 3
  MaxKeys = 3
SPECIFICATION TerminalSpec
INVARIANTS CursorOnScreen ShowsLastRows LineIsWhatSurvives EchoShowsLine
CHECK_DEADLOCK FALSE
