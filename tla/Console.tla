--------------------------------- MODULE Console ---------------------------------
(***************************************************************************)
(* kernel/dev/console.c and uart.c: the input ring with its read, write    *)
(* and edit indexes.  cons.lock is released only by sleep() and on return, *)
(* so a step of a reader goes from acquire() (or from waking up) to the    *)
(* next sleep() or return.                                                 *)
(***************************************************************************)
EXTENDS Integers, Sequences, FiniteSetsExt, SequencesExt

CONSTANTS
  Readers,
  INPUT_BUF,
  Width,     \* r, w and e wrap at Width (2^32 in the code)
  Letters, NL, CR, EOF, CtrlU, CtrlH, CtrlP, NUL,
  Reads      \* bytes asked for by a read()

VARIABLES
  buf, r, w, e,    \* cons
  st, left, got,   \* each reader: control point, n, bytes copied (target - n of them)
  killed,
  shown,           \* what the terminal shows of the line being edited
  mixed            \* it shows output of a program in the middle of it
cons == <<buf, r, w, e>>
reader == <<st, left, got, killed>>
vars == <<cons, reader, shown, mixed>>

Init ==
  /\ buf = [i \in 0 .. INPUT_BUF - 1 |-> NUL] /\ r = 0 /\ w = 0 /\ e = 0
  /\ shown = <<>> /\ mixed = FALSE
  /\ st = [p \in Readers |-> "idle"] /\ left = [p \in Readers |-> 0]
  /\ got = [p \in Readers |-> <<>>] /\ killed = [p \in Readers |-> FALSE]

Ring(a, b) == [i \in 1 .. (b - a) % Width |-> buf[(a + i - 1) % INPUT_BUF]]
Ready == Ring(r, w)
Edit == Ring(w, e)

--------------------------------------------------------------------------------
(* consoleread() *)

Read(p, n) ==
  /\ st[p] = "idle" /\ ~killed[p]
  /\ st' = [st EXCEPT ![p] = "read"] /\ left' = [left EXCEPT ![p] = n]
  /\ UNCHANGED <<cons, got, killed, shown, mixed>>

\* How many characters the loop copies: up to n, to a line's end, to before an end-of-file mark.
Copied(n) == Max({i \in 0 .. Min({n, Len(Ready)}) : \A h \in 1 .. i : Ready[h] # EOF /\ (h < i => Ready[h] # NL)})

\* Faulty variant: the mark is not kept for the next read().
EofTakenAlways(copied) == 1
\* An end-of-file mark is consumed by a read() that has copied nothing, and kept by the others.
EofTaken(copied) == IF copied = 0 THEN 1 ELSE 0

\* The loop ends with the bytes asked for, a line's end or an end-of-file mark.
ReadEnds(p) ==
  LET j == Copied(left[p])
      eof == j < left[p] /\ j < Len(Ready) /\ Ready[j + 1] = EOF /\ (j > 0 => Ready[j] # NL)
  IN /\ st[p] = "read"
     /\ j = left[p] \/ eof \/ (j > 0 /\ Ready[j] = NL)
     /\ r' = (r + j + (IF eof THEN EofTaken(Len(got[p]) + j) ELSE 0)) % Width
     /\ got' = [got EXCEPT ![p] = @ \o SubSeq(Ready, 1, j)]
     /\ st' = [st EXCEPT ![p] = "returns"]
     /\ UNCHANGED <<buf, w, e, left, killed, shown, mixed>>

\* either_copyout() fails for a character, which is lost.
ReadFaults(p) ==
  /\ st[p] = "read"
  /\ \E j \in 1 .. Copied(left[p]) :
       /\ r' = (r + j) % Width
       /\ got' = [got EXCEPT ![p] = @ \o SubSeq(Ready, 1, j - 1)]
  /\ st' = [st EXCEPT ![p] = "returns"]
  /\ UNCHANGED <<buf, w, e, left, killed, shown, mixed>>

\* All there is was copied, and more is wanted: a killed process gives up, the others sleep.
ReadWaits(p) ==
  LET j == Len(Ready) IN
  /\ st[p] = "read" /\ j < left[p] /\ Copied(left[p]) = j /\ (j > 0 => Ready[j] # NL)
  /\ r' = w
  /\ got' = [got EXCEPT ![p] = @ \o Ready]
  /\ left' = [left EXCEPT ![p] = @ - j]
  /\ st' = [st EXCEPT ![p] = IF killed[p] THEN "returns" ELSE "sleep"]
  /\ UNCHANGED <<buf, w, e, killed, shown, mixed>>

Return(p) ==
  /\ st[p] = "returns"
  /\ st' = [st EXCEPT ![p] = "idle"] /\ left' = [left EXCEPT ![p] = 0] /\ got' = [got EXCEPT ![p] = <<>>]
  /\ UNCHANGED <<cons, killed, shown, mixed>>

\* kill(): a sleeping victim runs again.
Kill(p) ==
  /\ ~killed[p] /\ killed' = [killed EXCEPT ![p] = TRUE]
  /\ st' = [st EXCEPT ![p] = IF @ = "sleep" THEN "read" ELSE @]
  /\ UNCHANGED <<cons, left, got, shown, mixed>>

--------------------------------------------------------------------------------
(* Output: consputc() *)

\* Output that is no echo.
Output ==
  /\ mixed' = (mixed \/ Edit # <<>>)
  /\ shown' = <<>>

\* consolewrite(): the whole of it under cons.lock.
Write(p) ==
  /\ st[p] = "idle" /\ ~killed[p]
  /\ Output /\ UNCHANGED <<cons, reader>>

--------------------------------------------------------------------------------
(* uartintr(): one character after the other; between two, cons.lock is free *)

\* Faulty variant: one BACKSPACE for all of it.
EchoedOnce(k) == 1
\* BACKSPACEs sent for k characters.
Echoed(k) == k

\* The last k characters of the line are erased.
Erase(k) ==
  /\ e' = (e - k) % Width
  /\ shown' = SubSeq(shown, 1, Len(shown) - (IF k = 0 THEN 0 ELSE Echoed(k)))
  /\ mixed' = (mixed /\ k < Len(Edit))
  /\ UNCHANGED <<buf, r, w, reader>>

\* The length of the line for ^U.
LineLen == Max({i \in 0 .. Len(Edit) : \A h \in Len(Edit) - i + 1 .. Len(Edit) : Edit[h] # NL})

\* Readers get the line: it is whole, or the ring is full.
Finishes(c, next) == c \in {NL, EOF} \/ next = (r + INPUT_BUF) % Width

\* wakeup(&cons.r)
WakeReaders(c) == [p \in Readers |-> IF st[p] = "sleep" THEN "read" ELSE st[p]]

HasRoom == (e - r) % Width < INPUT_BUF

\* Any other character is echoed and stored; the end of a line wakes the readers.
Store(c) ==
  LET next == (e + 1) % Width IN
  IF c = NUL \/ ~HasRoom THEN UNCHANGED <<cons, reader, shown, mixed>>
  ELSE /\ buf' = [buf EXCEPT ![e % INPUT_BUF] = c] /\ e' = next
       /\ IF Finishes(c, next)
          THEN /\ w' = next /\ shown' = <<>> /\ mixed' = FALSE
               /\ st' = WakeReaders(c)
          ELSE shown' = (IF mixed THEN <<>> ELSE Append(shown, c)) /\ UNCHANGED <<w, st, mixed>>
       /\ UNCHANGED <<r, left, got, killed>>

\* consoleintr() of the next character uartgetc() has
ConsoleIntr(c) ==
  \/ c = CtrlP /\ Output /\ UNCHANGED <<cons, reader>>
  \/ c = CtrlU /\ Erase(LineLen)
  \/ c = CtrlH /\ Erase(IF e = w THEN 0 ELSE 1)
  \/ c \notin {CtrlP, CtrlU, CtrlH} /\ Store(IF c = CR THEN NL ELSE c)

\* uartintr(), uartgetc(): whatever was typed.
UartIntr == \E c \in Letters \cup {NL, CR, EOF, CtrlU, CtrlH, CtrlP, NUL} : ConsoleIntr(c)

Next ==
  \/ \E p \in Readers : \/ \E n \in Reads : Read(p, n)
                        \/ ReadEnds(p) \/ ReadFaults(p) \/ ReadWaits(p) \/ Return(p) \/ Kill(p) \/ Write(p)
  \/ UartIntr

Spec == Init /\ [][Next]_vars

--------------------------------------------------------------------------------
(* Properties *)

\* The ring is a line-editing terminal, through every wrap of its three indexes: what is finished is
\* not edited or overwritten any more, is read once and in order, a line at a time, and ^D ends a
\* read() without being lost for the next one.
Abstract == INSTANCE Tty WITH Cap <- INPUT_BUF, ready <- Ready, edit <- Edit
ConsoleImplements == Abstract!Spec

\* A process sleeps in consoleread() only if there is nothing to read: a finished line, also one that
\* another reader has left a part of, finds it awake.
ReadersHaveReason == \A p \in Readers : st[p] = "sleep" => r = w

\* The terminal shows the line as read() will get it, if no program writes in the middle of it: each
\* character consoleintr() takes back from the ring is wiped out by one BACKSPACE.
EditShown == ~mixed => shown = Edit

\* What the person at the terminal counts on: the line shown is the line read, and a finished line
\* finds the readers of consoleread() awake.
TerminalRight == ReadersHaveReason /\ EditShown
================================================================================
