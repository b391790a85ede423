SPECIFICATION Spec
CONSTANTS
  Debuggers = {"lldb"}
  GdbLines = {"thread"}
  MaxLines = 2
  MaxQuestions = 1
  SimplifiedMax = 16
  Word = 64
INVARIANTS
  LldbIsTrusted
