--------------------------------- MODULE Paper ---------------------------------
(***************************************************************************)
(* What a terminal without scrolling would do: a roll of paper, fed by a   *)
(* blank line when the text comes to its end, and a print head.            *)
(***************************************************************************)
EXTENDS Integers, Sequences

CONSTANTS Cols, Rows, TabStop, Glyphs

VARIABLES paper, row, col       \* the lines, and where the head is

vars == <<paper, row, col>>

BlankLine == [x \in 0 .. Cols - 1 |-> "blank"]

Init ==
  /\ paper = [y \in 1 .. Rows |-> BlankLine]
  /\ row = 0
  /\ col = 0

\* The head is at column x of row y, and the paper fed if it ended before.
MoveTo(text, x, y) ==
  LET wraps == x >= Cols
      y2 == IF wraps THEN y + 1 ELSE y
  IN  /\ col' = IF wraps THEN 0 ELSE x
      /\ row' = y2
      /\ paper' = IF y2 < Len(text) THEN text ELSE Append(text, BlankLine)

Next ==
  \/ col > 0 /\ MoveTo(paper, col - 1, row)
  \/ MoveTo(paper, (col \div TabStop + 1) * TabStop, row)
  \/ MoveTo(paper, 0, row)
  \/ MoveTo(paper, 0, row + 1)
  \/ \E c \in Glyphs : MoveTo([paper EXCEPT ![row + 1][col] = c], col + 1, row)

Spec == Init /\ [][Next]_vars

=============================================================================
