--------------------------------- MODULE Itoa ---------------------------------
(***************************************************************************)
(* itoa() of kernel/monitor.c, as putint (decimal, signed) and puthex      *)
(* (hexadecimal, unsigned) call it: digits are collected in tbuf, the      *)
(* lowest first, and copied to the caller's buffer in reverse.  Characters *)
(* are the digits 0 to 15 and the minus sign.                              *)
(***************************************************************************)
EXTENDS Integers, Sequences

CONSTANT Half       \* half of the values of an integer (2^63)

ASSUME HalfAssumption == Half \in Nat \ {0}

Minus == -1
Unsigned == 0 .. 2 * Half - 1
Signed == -Half .. Half - 1

VARIABLES
  arg,            \* the number to print
  base,
  i,              \* what is left of it
  tbuf,           \* static tbuf, up to pos
  buf,            \* the caller's buffer
  done            \* itoa() has returned

vars == <<arg, base, i, tbuf, buf, done>>

\* Mutant: the number is passed on with its sign.
ItoaSKeepingSign(n) ==
  IF n < 0 THEN i = n % (2 * Half) /\ buf = <<Minus>> ELSE i = n /\ buf = <<>>

\* itoa_s(): the sign, and the magnitude as an unsigned number.  i *= -1
\* wraps for the smallest number; itoa() takes the result as unsigned.
ItoaS(n) ==
  IF n < 0 THEN i = (-n) % (2 * Half) /\ buf = <<Minus>> ELSE i = n /\ buf = <<>>

\* putint()
Putint == base = 10 /\ arg \in Signed /\ ItoaS(arg)

\* puthex(), through uitoa_s(); its 0x is left out.
Puthex == base = 16 /\ arg \in Unsigned /\ i = arg /\ buf = <<>>

Init == (Putint \/ Puthex) /\ tbuf = <<>> /\ done = FALSE

\* The early return of itoa() for 0.
Zero ==
  /\ ~done /\ i = 0 /\ tbuf = <<>>
  /\ buf' = Append(buf, 0)
  /\ done' = TRUE
  /\ UNCHANGED <<arg, base, i, tbuf>>

\* One turn of the first loop.
Digit ==
  /\ ~done /\ i # 0
  /\ tbuf' = Append(tbuf, i % base)
  /\ i' = i \div base
  /\ UNCHANGED <<arg, base, buf, done>>

\* The second loop, and the terminator.
Reverse ==
  /\ ~done /\ i = 0 /\ tbuf # <<>>
  /\ buf' = buf \o [k \in 1 .. Len(tbuf) |-> tbuf[Len(tbuf) + 1 - k]]
  /\ done' = TRUE
  /\ UNCHANGED <<arg, base, i, tbuf>>

Next == Zero \/ Digit \/ Reverse

Spec == Init /\ [][Next]_vars

-----------------------------------------------------------------------------
(* Properties *)

\* The number that a string of digits denotes.
Value(s) ==
  LET v[n \in 0 .. Len(s)] == IF n = 0 THEN 0 ELSE v[n - 1] * base + s[n]
  IN  v[Len(s)]

Denotes(s) == IF s[1] = Minus THEN -Value(Tail(s)) ELSE Value(s)

\* What itoa() leaves in the buffer denotes the argument of putint or puthex,
\* the smallest number included, and has no leading zeros.
PrintsArgument ==
  done => /\ Denotes(buf) = arg
          /\ arg # 0 => buf[IF arg < 0 THEN 2 ELSE 1] # 0

=============================================================================
