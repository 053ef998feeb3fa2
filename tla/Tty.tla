----------------------------------- MODULE Tty -----------------------------------
(***************************************************************************)
(* What the console promises its readers: a line can be edited until it is *)
(* finished, finished input is read once and in order, a read() gets at    *)
(* most one line, and an end-of-file mark gives a read() of no bytes.      *)
(***************************************************************************)
EXTENDS Integers, Sequences, SequencesExt

CONSTANTS Readers, Cap, NL, EOF, Letters
VARIABLES
  ready,   \* finished input
  edit,    \* the line being typed
  got      \* what the current read() of each process has

Init == ready = <<>> /\ edit = <<>> /\ got = [p \in Readers |-> <<>>]

\* A character is added.  It finishes the line if it is a line's end or if there is no more room.
Type(c) ==
  /\ Len(ready) + Len(edit) < Cap
  /\ IF c \in {NL, EOF} \/ Len(ready) + Len(edit) + 1 = Cap
     THEN ready' = ready \o Append(edit, c) /\ edit' = <<>>
     ELSE edit' = Append(edit, c) /\ UNCHANGED ready
  /\ UNCHANGED got

\* The end of the line, or all of it, is erased.
Erase == edit # <<>> /\ edit' \in {Front(edit), <<>>} /\ UNCHANGED <<ready, got>>

\* Characters are read up to the end of a line, never past one; the last may be lost at a bad address.
Read(p) == \E j \in 1 .. Len(ready) :
  /\ \A i \in 1 .. j : ready[i] # EOF /\ (i < j => ready[i] # NL)
  /\ ready' = SubSeq(ready, j + 1, Len(ready))
  /\ got' \in {[got EXCEPT ![p] = @ \o SubSeq(ready, 1, k)] : k \in {j, j - 1}}
  /\ UNCHANGED edit

\* An end-of-file mark is taken by a read() that has nothing else.
ReadEof(p) ==
  /\ ready # <<>> /\ Head(ready) = EOF /\ got[p] = <<>>
  /\ ready' = Tail(ready) /\ UNCHANGED <<edit, got>>

Return(p) == got' = [got EXCEPT ![p] = <<>>] /\ UNCHANGED <<ready, edit>>

Next ==
  \/ \E c \in Letters \cup {NL, EOF} : Type(c)
  \/ Erase
  \/ \E p \in Readers : Read(p) \/ ReadEof(p) \/ Return(p)
Spec == Init /\ [][Next]_<<ready, edit, got>>
================================================================================
