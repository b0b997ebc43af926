------------------------------ MODULE ItoaProofs ------------------------------
(***************************************************************************)
(* What itoa() prints reads back as its argument, for integers of every    *)
(* size.                                                                   *)
(***************************************************************************)
EXTENDS Itoa, WellFoundedInduction, SequenceTheorems, TLAPS

Magnitude == IF arg < 0 THEN -arg ELSE arg
Sign == IF arg < 0 THEN <<Minus>> ELSE <<>>
Reversed == [k \in 1 .. Len(tbuf) |-> tbuf[Len(tbuf) + 1 - k]]

\* What i was before each turn of the first loop: every digit in tbuf takes one
\* of these numbers to the one after it.
Trail ==
  \E w \in [0 .. Len(tbuf) -> Nat] :
    /\ w[0] = Magnitude /\ w[Len(tbuf)] = i
    /\ \A k \in 1 .. Len(tbuf) : w[k - 1] = w[k] * base + tbuf[k]

ItoaInv ==
  /\ arg \in Int /\ base \in {10, 16} /\ i \in Nat /\ tbuf \in Seq(0 .. base - 1) /\ done \in BOOLEAN
  /\ Trail
  /\ tbuf # <<>> /\ i = 0 => tbuf[Len(tbuf)] # 0
  /\ buf = IF ~done THEN Sign ELSE Sign \o IF tbuf = <<>> THEN <<0>> ELSE Reversed
  /\ done => i = 0

-----------------------------------------------------------------------------
(* Numbers and digits *)

LEMMA LeastIn ==
  ASSUME NEW S \in SUBSET Nat, S # {}
  PROVE  \E x \in S : \A y \in S : x <= y
<1> DEFINE R == OpToRel(<, Nat)
<1>1. \E x \in S : \A y \in S : ~(<<y, x>> \in R)
  BY NatLessThanWellFounded, WFMin
<1>2. \A x, y \in Nat : x < y => <<x, y>> \in R
  BY DEF OpToRel
<1> HIDE DEF R
<1>3. PICK x \in S : \A y \in S : ~(<<y, x>> \in R)
  BY <1>1
<1>4. ASSUME NEW y \in S PROVE x <= y
  <2>1. ~(y < x)
    BY <1>2, <1>3
  <2> QED BY <2>1
<1> QED BY <1>4

\* Value() is where a sequence of numbers ends that takes in one digit after another.
LEMMA ValueOf ==
  ASSUME base \in {10, 16}, NEW s \in Seq(Nat), NEW w \in [0 .. Len(s) -> Nat], w[0] = 0,
         \A k \in 1 .. Len(s) : w[k] = w[k - 1] * base + s[k]
  PROVE  Value(s) = w[Len(s)]
<1>1. w = [n \in 0 .. Len(s) |-> IF n = 0 THEN 0 ELSE w[n - 1] * base + s[n]]
  OBVIOUS
<1>2. PICK v : /\ v = [n \in 0 .. Len(s) |-> IF n = 0 THEN 0 ELSE v[n - 1] * base + s[n]]
               /\ Value(s) = v[Len(s)]
  BY <1>1 DEF Value
<1> DEFINE Differ == {n \in 0 .. Len(s) : v[n] # w[n]}
<1>3. ASSUME Differ # {} PROVE FALSE
  <2>1. Differ \in SUBSET Nat
    OBVIOUS
  <2>2. PICK n \in Differ : \A m \in Differ : n <= m
    <3> HIDE DEF Differ
    <3> QED BY <1>3, <2>1, LeastIn
  <2>3. CASE n = 0
    BY <1>2, <2>2, <2>3
  <2>4. CASE n # 0
    <3>1. n \in 1 .. Len(s) /\ n - 1 \in 0 .. Len(s) /\ n - 1 \notin Differ
      BY <2>2, <2>4
    <3>2. v[n - 1] = w[n - 1]
      BY <3>1
    <3>3. v[n] = v[n - 1] * base + s[n]
      BY <1>2, <3>1
    <3> QED BY <2>2, <3>1, <3>2, <3>3
  <2> QED BY <2>3, <2>4
<1>4. Len(s) \in 0 .. Len(s) /\ Len(s) \notin Differ
  BY <1>3
<1>5. v[Len(s)] = w[Len(s)]
  BY <1>4
<1> QED BY <1>2, <1>5

LEMMA DigitFacts ==
  ASSUME NEW n \in Nat, base \in {10, 16}
  PROVE  /\ n \div base \in Nat /\ n % base \in 0 .. base - 1
         /\ n = (n \div base) * base + (n % base)
         /\ n # 0 /\ n \div base = 0 => n % base # 0
<1>1. CASE base = 10  BY <1>1
<1>2. CASE base = 16  BY <1>2
<1> QED BY <1>1, <1>2

-----------------------------------------------------------------------------
(* The invariant *)

LEMMA InitInv == Init => ItoaInv
<1> SUFFICES ASSUME Init PROVE ItoaInv
  OBVIOUS
<1>1. tbuf = <<>> /\ done = FALSE /\ Len(tbuf) = 0
  BY DEF Init
<1>2. arg \in Int /\ base \in {10, 16} /\ i = Magnitude /\ i \in Nat /\ buf = Sign
  <2>1. CASE Putint
    <3>1. arg \in -Half .. Half - 1 /\ base = 10
      BY <2>1 DEF Putint, Signed
    <3>2. CASE arg < 0
      <4>1. -arg \in 1 .. Half /\ (-arg) % (2 * Half) = -arg
        BY <3>1, <3>2, HalfAssumption
      <4> QED BY <2>1, <3>1, <3>2, <4>1 DEF Putint, ItoaS, Magnitude, Sign
    <3>3. CASE ~(arg < 0)
      BY <2>1, <3>1, <3>3, HalfAssumption DEF Putint, ItoaS, Magnitude, Sign
    <3> QED BY <3>2, <3>3
  <2>2. CASE Puthex
    BY <2>2, HalfAssumption DEF Puthex, Unsigned, Magnitude, Sign
  <2> QED BY <2>1, <2>2 DEF Init
<1>3. Trail
  <2> DEFINE w == [k \in 0 .. 0 |-> i]
  <2>1. w \in [0 .. Len(tbuf) -> Nat] /\ w[0] = Magnitude /\ w[Len(tbuf)] = i
        /\ \A k \in 1 .. Len(tbuf) : w[k - 1] = w[k] * base + tbuf[k]
    BY <1>1, <1>2
  <2> HIDE DEF w
  <2> QED BY <2>1 DEF Trail
<1>4. tbuf \in Seq(0 .. base - 1)
  BY <1>1
<1> QED BY <1>1, <1>2, <1>3, <1>4 DEF ItoaInv

\* A turn of the first loop adds a digit, and a number to the trail.
LEMMA DigitInv == ItoaInv /\ Digit => ItoaInv'
<1> SUFFICES ASSUME ItoaInv, Digit PROVE ItoaInv'
  OBVIOUS
<1> DEFINE n == Len(tbuf)
<1>1. /\ ~done /\ i # 0 /\ i \in Nat /\ base \in {10, 16}
      /\ tbuf \in Seq(0 .. base - 1) /\ n \in Nat
      /\ tbuf' = Append(tbuf, i % base) /\ i' = i \div base
      /\ UNCHANGED <<arg, base, buf, done>>
  BY DEF ItoaInv, Digit
<1>2. /\ i \div base \in Nat /\ i % base \in 0 .. base - 1
      /\ i = (i \div base) * base + (i % base)
      /\ i \div base = 0 => i % base # 0
  BY <1>1, DigitFacts
<1>3. /\ tbuf' \in Seq(0 .. base - 1) /\ Len(tbuf') = n + 1 /\ tbuf'[n + 1] = i % base
      /\ \A k \in 1 .. n : tbuf'[k] = tbuf[k]
  BY <1>1, <1>2
<1>4. Trail'
  <2>1. PICK w \in [0 .. n -> Nat] :
          /\ w[0] = Magnitude /\ w[n] = i
          /\ \A k \in 1 .. n : w[k - 1] = w[k] * base + tbuf[k]
    BY DEF ItoaInv, Trail
  <2> DEFINE u == [k \in 0 .. n + 1 |-> IF k = n + 1 THEN i \div base ELSE w[k]]
  <2> HIDE DEF n
  <2>2. u \in [0 .. n + 1 -> Nat] /\ u[0] = Magnitude /\ u[n + 1] = i \div base
    BY <1>1, <1>2, <2>1
  <2>3. ASSUME NEW k \in 1 .. n + 1 PROVE u[k - 1] = u[k] * base + tbuf'[k]
    <3>1. CASE k = n + 1
      <4>1. u[k - 1] = i /\ u[k] = i \div base /\ tbuf'[k] = i % base
        BY <1>1, <1>3, <2>1, <3>1
      <4> QED BY <1>2, <4>1
    <3>2. CASE k # n + 1
      <4>1. k \in 1 .. n /\ u[k - 1] = w[k - 1] /\ u[k] = w[k] /\ tbuf'[k] = tbuf[k]
        BY <1>1, <1>3, <3>2
      <4> QED BY <2>1, <4>1
    <3> QED BY <3>1, <3>2
  <2>4. Magnitude' = Magnitude
    BY <1>1 DEF Magnitude
  <2>5. u \in [0 .. Len(tbuf') -> Nat] /\ u[0] = Magnitude' /\ u[Len(tbuf')] = i'
    BY <1>1, <1>3, <2>2, <2>4
  <2>6. \A k \in 1 .. Len(tbuf') : u[k - 1] = u[k] * base' + tbuf'[k]
    BY <1>1, <1>3, <2>3
  <2> HIDE DEF u
  <2> QED BY <2>5, <2>6 DEF Trail
<1> HIDE DEF n
<1>5. Sign' = Sign
  BY <1>1 DEF Sign
<1>6. tbuf' # <<>> /\ i' = 0 => tbuf'[Len(tbuf')] # 0
  BY <1>1, <1>2, <1>3
<1>7. buf = Sign /\ arg \in Int
  BY <1>1 DEF ItoaInv
<1> QED BY <1>1, <1>2, <1>3, <1>4, <1>5, <1>6, <1>7 DEF ItoaInv

LEMMA ReturnInv == ItoaInv /\ (Zero \/ Reverse) => ItoaInv'
<1> SUFFICES ASSUME ItoaInv, Zero \/ Reverse PROVE ItoaInv'
  OBVIOUS
<1>1. ~done /\ i = 0 /\ done' = TRUE /\ UNCHANGED <<arg, base, i, tbuf>> /\ buf = Sign
  BY DEF ItoaInv, Zero, Reverse
<1>2. buf' = Sign \o IF tbuf = <<>> THEN <<0>> ELSE Reversed
  <2>1. CASE Zero
    BY <1>1, <2>1 DEF Zero, Sign
  <2>2. CASE Reverse
    BY <1>1, <2>2 DEF Reverse, Reversed
  <2> QED BY <2>1, <2>2
<1>3. Trail' /\ Sign' = Sign /\ Reversed' = Reversed
  BY <1>1 DEF ItoaInv, Trail, Magnitude, Sign, Reversed
<1> QED BY <1>1, <1>2, <1>3 DEF ItoaInv

\* What is printed is the sign and the digits of the magnitude.
LEMMA InvPrints == ItoaInv => PrintsArgument
<1> SUFFICES ASSUME ItoaInv, done PROVE PrintsArgument
  BY DEF PrintsArgument
<1> DEFINE n == Len(tbuf)
           s == IF tbuf = <<>> THEN <<0>> ELSE Reversed
<1>1. /\ arg \in Int /\ base \in {10, 16} /\ i = 0 /\ tbuf \in Seq(0 .. base - 1) /\ n \in Nat
      /\ buf = Sign \o s /\ Magnitude \in Nat /\ (tbuf = <<>> <=> n = 0)
      /\ tbuf # <<>> => tbuf[n] # 0
  BY DEF ItoaInv, Magnitude
<1>2. PICK w \in [0 .. n -> Nat] :
        /\ w[0] = Magnitude /\ w[n] = 0
        /\ \A k \in 1 .. n : w[k - 1] = w[k] * base + tbuf[k]
  BY <1>1 DEF ItoaInv, Trail
<1>3. s \in Seq(Nat) /\ Len(s) >= 1 /\ Value(s) = Magnitude /\ (Magnitude # 0 => s[1] # 0)
  <2>1. CASE n = 0
    <3>1. s = <<0>> /\ Magnitude = 0
      BY <1>1, <1>2, <2>1
    <3> DEFINE u == [k \in 0 .. 1 |-> 0]
    <3> HIDE DEF s
    <3>2. s \in Seq(Nat) /\ Len(s) = 1 /\ s[1] = 0
      BY <3>1
    <3>3. u \in [0 .. Len(s) -> Nat] /\ u[0] = 0 /\ u[Len(s)] = 0
          /\ \A k \in 1 .. Len(s) : u[k] = u[k - 1] * base + s[k]
      BY <1>1, <3>2
    <3> HIDE DEF u
    <3>4. Value(s) = 0
      BY <1>1, <3>2, <3>3, ValueOf
    <3> QED BY <3>1, <3>2, <3>4
  <2>2. CASE n # 0
    <3>1. s = [k \in 1 .. n |-> tbuf[n + 1 - k]]
      BY <1>1, <2>2 DEF Reversed
    <3> DEFINE u == [k \in 0 .. n |-> w[n - k]]
    <3> HIDE DEF s, n
    <3>2. \A k \in 1 .. n : n + 1 - k \in 1 .. n
      BY <1>1
    <3>3. \A k \in 1 .. n : tbuf[k] \in Nat
      BY <1>1 DEF n
    <3>4. s \in Seq(Nat) /\ Len(s) = n /\ s[1] = tbuf[n] /\ \A k \in 1 .. n : s[k] = tbuf[n + 1 - k]
      BY <1>1, <2>2, <3>1, <3>2, <3>3
    <3>5. u \in [0 .. n -> Nat] /\ u[0] = 0 /\ u[n] = Magnitude
      BY <1>1, <1>2
    <3>6. ASSUME NEW k \in 1 .. n PROVE u[k] = u[k - 1] * base + s[k]
      <4>1. n + 1 - k \in 1 .. n /\ (n + 1 - k) - 1 = n - k /\ n - (k - 1) = n + 1 - k
        BY <1>1
      <4>2. u[k] = w[n - k] /\ u[k - 1] = w[n + 1 - k]
        BY <1>1, <4>1
      <4>3. w[(n + 1 - k) - 1] = w[n + 1 - k] * base + tbuf[n + 1 - k]
        BY <1>2, <4>1, Zenon
      <4>4. s[k] = tbuf[n + 1 - k]
        BY <3>4
      <4> QED BY <4>1, <4>2, <4>3, <4>4
    <3> HIDE DEF u
    <3>7. Value(s) = Magnitude
      BY <1>1, <3>4, <3>5, <3>6, ValueOf
    <3> QED BY <1>1, <2>2, <3>4, <3>7
  <2> QED BY <2>1, <2>2
<1> HIDE DEF s, n
<1>4. CASE arg < 0
  <2>1. buf = <<Minus>> \o s /\ Magnitude = -arg
    BY <1>1, <1>4 DEF Sign, Magnitude
  <2>2. buf[1] = Minus /\ Tail(buf) = s /\ buf[2] = s[1]
    <3>1. <<Minus>> \in Seq(Int) /\ s \in Seq(Int) /\ Len(<<Minus>>) = 1 /\ <<Minus>>[1] = Minus
      BY <1>3 DEF Minus
    <3>2. buf \in Seq(Int) /\ Len(buf) = 1 + Len(s)
          /\ \A k \in 1 .. 1 + Len(s) : buf[k] = IF k <= 1 THEN <<Minus>>[k] ELSE s[k - 1]
      BY <2>1, <3>1, ConcatProperties
    <3>3. buf # <<>> /\ buf[1] = Minus /\ buf[2] = s[1]
      BY <1>3, <3>1, <3>2
    <3>4. Tail(buf) \in Seq(Int) /\ Len(Tail(buf)) = Len(s) /\ \A k \in 1 .. Len(s) : Tail(buf)[k] = buf[k + 1]
      BY <1>3, <3>2, <3>3, HeadTailProperties
    <3>5. ASSUME NEW k \in 1 .. Len(s) PROVE Tail(buf)[k] = s[k]
      <4>1. k + 1 \in 1 .. 1 + Len(s) /\ ~(k + 1 <= 1) /\ (k + 1) - 1 = k
        BY <1>3
      <4>2. buf[k + 1] = s[(k + 1) - 1]
        BY <3>2, <4>1, Zenon
      <4> QED BY <3>4, <4>1, <4>2
    <3> QED BY <3>1, <3>3, <3>4, <3>5, SeqEqual
  <2>3. Denotes(buf) = -Value(s)
    BY <2>2 DEF Denotes
  <2>4. Denotes(buf) = arg
    <3>1. Value(s) = -arg /\ arg \in Int
      BY <1>1, <1>3, <2>1
    <3>2. -(-arg) = arg
      BY <3>1
    <3> QED BY <2>3, <3>1, <3>2, Zenon
  <2>5. arg # 0 => buf[2] # 0
    BY <1>1, <1>3, <2>1, <2>2
  <2> QED BY <1>4, <2>4, <2>5 DEF PrintsArgument
<1>5. CASE ~(arg < 0)
  <2>1. buf = s /\ Magnitude = arg
    BY <1>1, <1>3, <1>5 DEF Sign, Magnitude
  <2>2. buf[1] # Minus
    BY <1>3, <2>1 DEF Minus
  <2> QED BY <1>1, <1>3, <1>5, <2>1, <2>2 DEF PrintsArgument, Denotes
<1> QED BY <1>4, <1>5

\* The string that putint and puthex pass to puts denotes their argument and has no
\* leading zeros, for integers of any size and the smallest of them, whose sign
\* itoa_s() cannot change.
THEOREM ItoaPrintsArgument == Spec => []PrintsArgument
<1>1. Init => ItoaInv
  BY InitInv
<1>2. ItoaInv /\ [Next]_vars => ItoaInv'
  <2>1. ASSUME ItoaInv, UNCHANGED vars PROVE ItoaInv'
    <3>1. UNCHANGED <<arg, base, i, tbuf, buf, done>>
      BY <2>1 DEF vars
    <3>2. Trail' /\ Sign' = Sign /\ Reversed' = Reversed
      BY <2>1, <3>1 DEF ItoaInv, Trail, Magnitude, Sign, Reversed
    <3> QED BY <2>1, <3>1, <3>2 DEF ItoaInv
  <2> QED BY <2>1, DigitInv, ReturnInv DEF Next
<1> QED BY <1>1, <1>2, InvPrints, PTL DEF Spec
=============================================================================
