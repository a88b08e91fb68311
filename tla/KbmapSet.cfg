CONSTANTS
  MAX_LAYOUTS = 2
  Codes = {"en_US", "de_DE"}
  DefaultCode = "en_US"
  Scancodes = {30}
  Escapes = {"a", "\\x41"}
  LayoutDirs <- MCLayoutDirs
SPECIFICATION LayoutsSpec
PROPERTY SetTakesEffect
CHECK_DEADLOCK FALSE
