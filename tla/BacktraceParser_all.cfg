SPECIFICATION Spec
CONSTANTS
  Debuggers = {"gdb", "lldb", "null"}
  GdbLines = {"thread", "handler", "info", "half", "tail", "first", "stripped", "nowhere", "libc", "abort", "wayland", "main", "exit"}
  MaxLines = 5
  MaxQuestions = 1
  SimplifiedMax = 2
  Word = 64
INVARIANTS
  ShowsTheCrash
  VerdictIsOfTheTrace
