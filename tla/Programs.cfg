CONSTANTS
  MAX_LINES = 3
  MAX_LINE_LEN = 3
  BUFFER = 6
  Documents <- MCDocuments
  DISK = 8192
  DEFAULT_SIZE = 8192
  DEFAULT_START = 1
  BOOT_SIZE = 256
  WORD = 2097152
  REQUIRED = 2
  FILES = 3
  Numbers = {0, 2, 3}
  MaxInputs = 5
  MAX_ARGS = 4
  Letters = {"exit", "cd", "x"}
  Directories = {"x"}
  MaxLine = 6
  HALF = 256
  MAX_LAYOUTS = 2
  Codes = {"en_US", "de_DE"}
  DefaultCode = "en_US"
  Scancodes = {30}
  Escapes = {"a", "\\x41"}
  LayoutDirs <- MCLayoutDirs
  Executable = Executable
  Root = Root
  NULL = NULL
  Names <- MCNames
  Files <- MCFiles
  Length <- MCLength
  Slots = {}
  MAX_FILE_DESCRIPTORS = 3
  FIRST_FD = 1
  ReadSizes = {}
  Offsets = {}
  MaxPosition = 0
  HEADER = 1
  PHENT = 1
  Addresses = {0, 1, 2, 3}
  Images <- MCImages
SPECIFICATION ProgramsSpec
INVARIANTS
   SaveAndLoadAgree
  CompleteIsFormatted
  DisplayIsTheFormula ArgsAreTheWords NumbersReadBack
   ParsersAgree
  LoadedIsTheFile LoadReturnsDescriptor
PROPERTY ErasedOnlyWhenConfirmed
CHECK_DEADLOCK FALSE
