SPECIFICATION Spec
CONSTANTS
  Letters = {"E", "X"}
  LineMax = 3
  ExitWord <- MCExit
  ExecWord <- MCExec
INVARIANTS
  LineTerminated
  WordsOfThisLine
PROPERTIES
  ActsOnCommand
CHECK_DEADLOCK FALSE
