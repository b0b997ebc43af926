-------------------------------- MODULE Screen --------------------------------
(***************************************************************************)
(* The text screen of kernel/monitor.c: a flat video memory, a cursor, and *)
(* scrolling by one row.  One putchar() is one step: it runs under the     *)
(* monitor lock (module Kernel).                                           *)
(*                                                                         *)
(* gone records the rows that left the top of the screen; the program does *)
(* not keep them.  MaxRows bounds their number.                            *)
(***************************************************************************)
EXTENDS Integers, Sequences

CONSTANTS
  Cols, Rows,     \* 80 and 25
  TabStop,        \* 8
  Glyphs,         \* printable characters, those >= ' '
  MaxRows         \* bound on the rows that scroll off

Blank == "blank"

ASSUME SizeAssumption ==
  Cols \in Nat /\ Cols >= 1 /\ Rows \in Nat /\ Rows >= 1 /\ TabStop \in Nat /\ TabStop >= 1

VARIABLES
  video_memory,   \* static video_memory, without the attribute bytes
  cursor_x,       \* static cursor_x
  cursor_y,       \* static cursor_y
  gone            \* the rows scrolled off, oldest first

vars == <<video_memory, cursor_x, cursor_y, gone>>

Chars == Glyphs \union {Blank}
Cells == 0 .. Rows * Cols - 1
Lines == [0 .. Cols - 1 -> Chars]

\* The cells from the y-th row on, as a line of text.
Line(vm, y) == [x \in 0 .. Cols - 1 |-> vm[y * Cols + x]]
Text(vm) == [k \in 1 .. Rows |-> Line(vm, k - 1)]

\* clear_screen(), the first thing kernel_entry does.
Init ==
  /\ video_memory = [i \in Cells |-> Blank]
  /\ cursor_x = 0
  /\ cursor_y = 0
  /\ gone = <<>>

-----------------------------------------------------------------------------

\* Mutant: the last row keeps its text.
ScrollKeeping(vm, y) ==
  IF y >= Rows
  THEN /\ video_memory' = [i \in Cells |-> IF i < Cols * (Rows - 1) THEN vm[i + Cols] ELSE vm[i]]
       /\ cursor_y' = Rows - 1
       /\ gone' = Append(gone, Line(vm, 0))
  ELSE video_memory' = vm /\ cursor_y' = y /\ UNCHANGED gone

\* scroll(), with what putchar() has left in video memory and in cursor_y.
Scroll(vm, y) ==
  IF y >= Rows
  THEN /\ video_memory' = [i \in Cells |-> IF i < Cols * (Rows - 1) THEN vm[i + Cols] ELSE Blank]
       /\ cursor_y' = Rows - 1
       /\ gone' = Append(gone, Line(vm, 0))
  ELSE video_memory' = vm /\ cursor_y' = y /\ UNCHANGED gone

\* Mutant: the row is full one character later.
FinishLate(vm, x, y) ==
  IF x > Cols THEN cursor_x' = 0 /\ Scroll(vm, y + 1)
              ELSE cursor_x' = x /\ Scroll(vm, y)

\* The end of putchar(), at column x of row y: a full row starts the next one.
Finish(vm, x, y) ==
  IF x >= Cols THEN cursor_x' = 0 /\ Scroll(vm, y + 1)
               ELSE cursor_x' = x /\ Scroll(vm, y)

\* MaxRows rows at most scroll off.
Bounded == Len(gone) < MaxRows

\* putchar(c)
Backspace == cursor_x # 0 /\ Finish(video_memory, cursor_x - 1, cursor_y)
Tab == Bounded /\ Finish(video_memory, ((cursor_x + TabStop) \div TabStop) * TabStop, cursor_y)
CarriageReturn == Finish(video_memory, 0, cursor_y)
Newline == Bounded /\ Finish(video_memory, 0, cursor_y + 1)
Printable(c) ==
  /\ Bounded
  /\ Finish([video_memory EXCEPT ![cursor_y * Cols + cursor_x] = c], cursor_x + 1, cursor_y)

Next ==
  \/ Backspace \/ Tab \/ CarriageReturn \/ Newline
  \/ \E c \in Glyphs : Printable(c)

Spec == Init /\ [][Next]_vars

-----------------------------------------------------------------------------
(* Properties *)

\* The screen holds characters, the cursor numbers, and what scrolled off was
\* on the screen.
TypeOK ==
  /\ video_memory \in [Cells -> Chars]
  /\ cursor_x \in Nat /\ cursor_y \in Nat
  /\ gone \in Seq(Lines)

\* putchar() computes the cell to write from the cursor without a check: the
\* cursor is on the screen before every call, whatever was printed, so
\* nothing past the 80 x 25 cells is written.
CursorOnScreen ==
  /\ cursor_x \in 0 .. Cols - 1
  /\ cursor_y \in 0 .. Rows - 1
  /\ cursor_y * Cols + cursor_x \in Cells

\* Scrolling loses nothing but the top row: with the rows that scrolled off
\* put back above it, the screen is a roll of paper that is only written to.
Roll == INSTANCE Paper WITH paper <- gone \o Text(video_memory),
                            row <- Len(gone) + cursor_y, col <- cursor_x
ScreenIsPaper == Roll!Spec

=============================================================================
