--------------------------------- MODULE MCPipe ---------------------------------
(***************************************************************************)
(* Pipes, the console and the clock: a state belongs to the part chosen at *)
(* the start, the variables of the others stay as they are.                *)
(***************************************************************************)
EXTENDS Pipe, TLC
CONSTANTS NL, CR, EOF, CtrlU, CtrlH, CtrlP, NUL, a
VARIABLES part,
  buf, r, w, e, cst, cleft, got, ckilled, shown, mixed,
  ticks, tst, ticks0, n, tkilled, elapsed

C == INSTANCE Console WITH Readers <- Procs, INPUT_BUF <- 3, Width <- 6, Letters <- {a}, Reads <- {2},
  st <- cst, left <- cleft, killed <- ckilled
T == INSTANCE Ticks WITH Sleepers <- Procs, Width <- 6, Times <- {-2, 2}, MaxLate <- 1, st <- tst, killed <- tkilled

cvars == <<buf, r, w, e, cst, cleft, got, ckilled, shown, mixed>>
tvars == <<ticks, tst, ticks0, n, tkilled, elapsed>>
allvars == <<part, vars, cvars, tvars>>
MCInit ==
  /\ part \in {"pipe", "console", "clock"} /\ Init /\ C!Init /\ T!Init
  /\ part # "pipe" => rend = Procs /\ wend = Procs
  /\ part # "clock" => ticks = 0
PipeNext == part = "pipe" /\ Next /\ UNCHANGED <<part, cvars, tvars>>
ConsoleNext == part = "console" /\ C!Next /\ UNCHANGED <<part, vars, tvars>>
ClockNext == part = "clock" /\ T!Next /\ UNCHANGED <<part, vars, cvars>>
MCNext == PipeNext \/ ConsoleNext \/ ClockNext
MCSpec == MCInit /\ [][MCNext]_allvars

ConsoleImplements == C!ConsoleImplements
TerminalRight == part = "console" => C!TerminalRight
SleepsAsAsked == part = "clock" => T!SleepsAsAsked

\* Processes are interchangeable.
Sym == Permutations(Procs)
================================================================================
