SPECIFICATION MCSpec
CONSTANTS
  Procs = {p1, p2}
  PIPESIZE = 2
  Width = 4
  Sizes = {1, 3}
  MaxN = 3
  MayKill = TRUE
  MayFault = TRUE
  NL = NL CR = CR EOF = EOF CtrlU = CtrlU CtrlH = CtrlH CtrlP = CtrlP NUL = NUL a = a
SYMMETRY Sym
INVARIANTS SleepersHaveReason TerminalRight SleepsAsAsked
PROPERTIES PipeImplements ConsoleImplements
CHECK_DEADLOCK FALSE
