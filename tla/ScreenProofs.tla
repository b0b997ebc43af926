----------------------------- MODULE ScreenProofs -----------------------------
(***************************************************************************)
(* The cursor stays on the screen, and the screen is the end of a roll of  *)
(* paper, for every size of the screen and every tab stop.                 *)
(***************************************************************************)
EXTENDS Screen, TLAPS

-----------------------------------------------------------------------------
(* Cells *)

\* Multiplication by the width of a row keeps the order of rows.
LEMMA ProductMonotone == \A a, b, c \in Nat : a <= b => a * c \in Nat /\ a * c <= b * c
<1> SUFFICES ASSUME NEW a \in Nat, NEW b \in Nat, NEW c \in Nat, a <= b
             PROVE  a * c \in Nat /\ a * c <= b * c
  OBVIOUS
<1>1. PICK d \in Nat : b = a + d  BY b - a \in Nat
<1>2. b * c = a * c + d * c /\ a * c \in Nat /\ d * c \in Nat  BY <1>1
<1> QED  BY <1>2

\* The cell of a column and a row of the screen; below the last row there is
\* another cell in the same column.
LEMMA CellIndex ==
  ASSUME NEW x \in 0 .. Cols - 1, NEW y \in 0 .. Rows - 1
  PROVE  /\ y * Cols + x \in Cells
         /\ y < Rows - 1 => y * Cols + x < Cols * (Rows - 1) /\ (y * Cols + x) + Cols = (y + 1) * Cols + x
         /\ y = Rows - 1 => ~(y * Cols + x < Cols * (Rows - 1))
<1>1. y \in Nat /\ x \in Nat /\ x < Cols /\ Cols \in Nat /\ Rows \in Nat /\ Rows - 1 \in Nat
  BY SizeAssumption
<1>2. y * Cols \in Nat /\ (y + 1) * Cols = y * Cols + Cols /\ Rows * Cols \in Nat
  BY <1>1
<1>3. (y + 1) * Cols <= Rows * Cols
  BY <1>1, y + 1 <= Rows, ProductMonotone
<1>4. Cols * (Rows - 1) = (Rows - 1) * Cols  BY <1>1
<1>5. ASSUME y < Rows - 1 PROVE (y + 1) * Cols <= (Rows - 1) * Cols
  BY <1>1, <1>5, y + 1 <= Rows - 1, ProductMonotone
<1>6. y * Cols + x \in Cells  BY <1>1, <1>2, <1>3 DEF Cells
<1>7. (Rows - 1) * Cols \in Nat  BY <1>1
<1> QED  BY <1>1, <1>2, <1>4, <1>5, <1>6, <1>7

\* The text of a screen is a sequence of Rows lines.
LEMMA TextType ==
  ASSUME NEW vm \in [Cells -> Chars]
  PROVE  /\ \A y \in 0 .. Rows - 1 : Line(vm, y) \in Lines
         /\ Text(vm) \in Seq(Lines) /\ Len(Text(vm)) = Rows
<1>1. \A y \in 0 .. Rows - 1 : Line(vm, y) \in Lines
  BY CellIndex DEF Line, Lines
<1>2. \A k \in 1 .. Rows : k - 1 \in 0 .. Rows - 1  BY SizeAssumption
<1>3. Text(vm) \in [1 .. Rows -> Lines]  BY <1>1, <1>2 DEF Text
<1> QED  BY <1>1, <1>3, SizeAssumption DEF Text

-----------------------------------------------------------------------------
(* Scrolling *)

\* What an appended sequence holds at each index.
LEMMA AppendIndex ==
  ASSUME NEW L, NEW s \in Seq(L), NEW b \in L
  PROVE  /\ Append(s, b) \in Seq(L) /\ Len(Append(s, b)) = Len(s) + 1
         /\ Append(s, b)[Len(s) + 1] = b
         /\ \A k \in 1 .. Len(s) : Append(s, b)[k] = s[k]
  OBVIOUS

\* What a concatenation holds at each index.
LEMMA ConcatIndex ==
  ASSUME NEW L, NEW s \in Seq(L), NEW t \in Seq(L)
  PROVE  /\ s \o t \in Seq(L) /\ Len(s \o t) = Len(s) + Len(t)
         /\ \A k \in 1 .. Len(s) : (s \o t)[k] = s[k]
         /\ \A k \in 1 .. Len(t) : (s \o t)[Len(s) + k] = t[k]
  OBVIOUS

\* Moving the first of the lines t to the end of g, and a line b to the end of
\* the rest, is appending b to all of them.
LEMMA ShiftLines ==
  ASSUME NEW L, NEW g \in Seq(L), NEW t \in Seq(L), NEW u \in Seq(L), NEW b \in L,
         Len(t) >= 1, Len(u) = Len(t), u[Len(t)] = b,
         \A k \in 1 .. Len(t) - 1 : u[k] = t[k + 1]
  PROVE  Append(g, t[1]) \o u = Append(g \o t, b)
<1> DEFINE a == Append(g, t[1])
           c == g \o t
           l == a \o u
           r == Append(c, b)
<1>1. /\ a \in Seq(L) /\ Len(a) = Len(g) + 1 /\ a[Len(g) + 1] = t[1]
      /\ \A k \in 1 .. Len(g) : a[k] = g[k]
  OBVIOUS
<1>2. /\ c \in Seq(L) /\ Len(c) = Len(g) + Len(t)
      /\ \A k \in 1 .. Len(g) : c[k] = g[k]
      /\ \A k \in 1 .. Len(t) : c[Len(g) + k] = t[k]
  OBVIOUS
<1> HIDE DEF a, c
<1>3. /\ l \in Seq(L) /\ Len(l) = Len(a) + Len(u)
      /\ \A k \in 1 .. Len(a) : l[k] = a[k]
      /\ \A k \in 1 .. Len(u) : l[Len(a) + k] = u[k]
  <2>1. a \in Seq(L) /\ u \in Seq(L)  BY <1>1
  <2>2. l \in Seq(L) /\ Len(l) = Len(a) + Len(u)  BY <2>1, ConcatIndex
  <2>3. \A k \in 1 .. Len(a) : l[k] = a[k]  BY <2>1
  <2>4. \A k \in 1 .. Len(u) : l[Len(a) + k] = u[k]  BY <2>1, ConcatIndex
  <2> QED  BY <2>2, <2>3, <2>4
<1>4. /\ r \in Seq(L) /\ Len(r) = Len(c) + 1 /\ r[Len(c) + 1] = b
      /\ \A k \in 1 .. Len(c) : r[k] = c[k]
  <2>1. c \in Seq(L) /\ b \in L  BY <1>2
  <2> QED  BY <2>1, AppendIndex
<1> HIDE DEF l, r
<1>5. Len(g) \in Nat /\ Len(t) \in Nat /\ Len(l) = Len(r) /\ Len(l) = Len(g) + 1 + Len(t)
  BY <1>1, <1>2, <1>3, <1>4
<1>6. ASSUME NEW k \in 1 .. Len(l) PROVE l[k] = r[k]
  <2>1. CASE k <= Len(g)
    BY <1>1, <1>2, <1>3, <1>4, <1>5, <2>1
  <2>2. CASE k = Len(g) + 1
    <3>1. l[k] = t[1]  BY <1>1, <1>3, <1>5, <2>2
    <3>2. r[k] = c[Len(g) + 1]  BY <1>2, <1>4, <1>5, <2>2
    <3> QED  BY <3>1, <3>2, <1>2, <1>5
  <2>3. CASE k > Len(g) + 1 /\ k <= Len(g) + Len(t)
    <3> DEFINE n == k - (Len(g) + 1)
    <3>1. n \in 1 .. Len(t) - 1 /\ n + 1 \in 1 .. Len(t) /\ k = Len(g) + (n + 1) /\ k = (Len(g) + 1) + n
      BY <1>5, <2>3
    <3> HIDE DEF n
    <3>2. l[k] = u[n]  BY <1>1, <1>3, <1>5, <3>1
    <3>3. r[k] = t[n + 1]  BY <1>2, <1>4, <1>5, <3>1
    <3> QED  BY <3>1, <3>2, <3>3
  <2>4. CASE k = Len(g) + Len(t) + 1
    <3>1. k = Len(a) + Len(t) /\ Len(t) \in 1 .. Len(u)  BY <1>1, <1>5, <2>4
    <3>3. l[k] = u[Len(t)]  BY <1>3, <3>1, Zenon
    <3>2. r[k] = b  BY <1>2, <1>4, <1>5, <2>4
    <3> QED  BY <3>3, <3>2
  <2> QED  BY <1>5, <2>1, <2>2, <2>3, <2>4
<1>7. l = r
  <2>1. l \in Seq(L) /\ r \in Seq(L) /\ Len(l) = Len(r)  BY <1>3, <1>4, <1>5
  <2> QED  BY <2>1, <1>6
<1> QED  BY <1>7 DEF l, r, a, c

-----------------------------------------------------------------------------
(* One character *)

\* What scroll() leaves is the text it was given, followed by a blank line if
\* the cursor had left the screen.
LEMMA ScrollFeeds ==
  ASSUME TypeOK, NEW vm \in [Cells -> Chars], NEW y \in 0 .. Rows, Scroll(vm, y)
  PROVE  /\ video_memory' \in [Cells -> Chars] /\ gone' \in Seq(Lines)
         /\ cursor_y' \in 0 .. Rows - 1
         /\ Len(gone)' + cursor_y' = Len(gone) + y
         /\ y < Rows => gone' \o Text(video_memory') = gone \o Text(vm)
         /\ y = Rows => gone' \o Text(video_memory') = Append(gone \o Text(vm), Roll!BlankLine)
<1>0. gone \in Seq(Lines) /\ Rows \in Nat /\ Rows >= 1  BY SizeAssumption DEF TypeOK
<1>1. CASE y < Rows
  BY <1>0, <1>1 DEF Scroll
<1>2. CASE y = Rows
  <2> DEFINE nvm == [i \in Cells |-> IF i < Cols * (Rows - 1) THEN vm[i + Cols] ELSE Blank]
             t == Text(vm)
             u == Text(nvm)
  <2>1. video_memory' = nvm /\ cursor_y' = Rows - 1 /\ gone' = Append(gone, Line(vm, 0))
    BY <1>0, <1>2 DEF Scroll
  <2>2. ASSUME NEW i \in Cells, i < Cols * (Rows - 1) PROVE i + Cols \in Cells
    <3>1. Cols \in Nat /\ Cols * (Rows - 1) \in Nat /\ Cols * (Rows - 1) + Cols = Rows * Cols
      BY SizeAssumption
    <3> QED  BY <2>2, <3>1 DEF Cells
  <2>3. nvm \in [Cells -> Chars]  BY <2>2 DEF Chars
  <2>4. t \in Seq(Lines) /\ u \in Seq(Lines) /\ Len(t) = Rows /\ Len(u) = Rows
    BY <2>3, TextType
  <2>5. Line(vm, 0) = t[1] /\ Line(vm, 0) \in Lines
    BY <1>0, TextType DEF Text
  <2>6. ASSUME NEW k \in 1 .. Rows - 1 PROVE u[k] = t[k + 1]
    <3>1. k - 1 \in 0 .. Rows - 1 /\ k - 1 < Rows - 1 /\ k \in 1 .. Rows /\ k + 1 \in 1 .. Rows
          /\ (k - 1) + 1 = k /\ (k + 1) - 1 = k /\ k \in 0 .. Rows - 1
      BY <1>0
    <3>2. u[k] = Line(nvm, k - 1) /\ t[k + 1] = Line(vm, k)  BY <3>1 DEF Text
    <3>3. \A x \in 0 .. Cols - 1 : nvm[(k - 1) * Cols + x] = vm[k * Cols + x]
      BY <3>1, CellIndex
    <3> QED  BY <3>2, <3>3, ZenonT(40) DEF Line
  <2>7. u[Rows] = Roll!BlankLine
    <3>1. u[Rows] = Line(nvm, Rows - 1)  BY <1>0 DEF Text
    <3>2. Rows - 1 \in 0 .. Rows - 1  BY <1>0
    <3>3. \A x \in 0 .. Cols - 1 : nvm[(Rows - 1) * Cols + x] = "blank"
      BY <3>2, CellIndex DEF Blank
    <3> QED  BY <3>1, <3>3 DEF Line, Roll!BlankLine
  <2>8. Roll!BlankLine \in Lines  BY DEF Roll!BlankLine, Lines, Chars, Blank
  <2> HIDE DEF t, u
  <2>9. Append(gone, t[1]) \o u = Append(gone \o t, Roll!BlankLine)
    <3>1. Len(t) >= 1 /\ Len(u) = Len(t) /\ u[Len(t)] = Roll!BlankLine  BY <1>0, <2>4, <2>7
    <3>2. \A k \in 1 .. Len(t) - 1 : u[k] = t[k + 1]  BY <2>4, <2>6
    <3> QED  BY <1>0, <2>4, <2>8, <3>1, <3>2, ShiftLines, Zenon
  <2>10. gone' \in Seq(Lines) /\ Len(gone') = Len(gone) + 1 /\ Len(gone) \in Nat
    BY <1>0, <2>1, <2>5
  <2>11. Len(gone)' + cursor_y' = Len(gone) + y  BY <1>0, <1>2, <2>1, <2>10
  <2>12. cursor_y' \in 0 .. Rows - 1  BY <1>0, <2>1
  <2>13. gone' \o Text(video_memory') = Append(gone \o t, Roll!BlankLine)
    BY <2>1, <2>5, <2>9, Zenon DEF u
  <2>14. ~(y < Rows)  BY <1>0, <1>2
  <2>15. video_memory' \in [Cells -> Chars]  BY <2>1, <2>3, Zenon
  <2> QED  BY <2>10, <2>11, <2>12, <2>13, <2>14, <2>15, Zenon DEF t
<1>3. y < Rows \/ y = Rows  BY <1>0
<1> QED  BY <1>1, <1>2, <1>3, Zenon

\* The end of putchar() moves the print head.
LEMMA FinishMoves ==
  ASSUME TypeOK, NEW vm \in [Cells -> Chars], NEW x \in Nat, NEW y \in 0 .. Rows,
         x >= Cols => y < Rows, Finish(vm, x, y)
  PROVE  TypeOK' /\ CursorOnScreen' /\ Roll!MoveTo(gone \o Text(vm), x, Len(gone) + y)
<1> DEFINE z == IF x >= Cols THEN y + 1 ELSE y
<1>0. gone \in Seq(Lines) /\ Rows \in Nat /\ Cols \in Nat /\ Cols >= 1 /\ Len(gone) \in Nat
  BY SizeAssumption DEF TypeOK
<1>1. z \in 0 .. Rows /\ Scroll(vm, z) /\ cursor_x' = (IF x >= Cols THEN 0 ELSE x)
  BY <1>0 DEF Finish
<1> HIDE DEF z
<1>2. /\ video_memory' \in [Cells -> Chars] /\ gone' \in Seq(Lines)
      /\ cursor_y' \in 0 .. Rows - 1
      /\ Len(gone)' + cursor_y' = Len(gone) + z
      /\ z < Rows => gone' \o Text(video_memory') = gone \o Text(vm)
      /\ z = Rows => gone' \o Text(video_memory') = Append(gone \o Text(vm), Roll!BlankLine)
  BY <1>1, ScrollFeeds, Zenon
<1>3. cursor_x' \in 0 .. Cols - 1  BY <1>0, <1>1
<1>4. TypeOK'  BY <1>2, <1>3, <1>0 DEF TypeOK
<1>5. CursorOnScreen'  BY <1>2, <1>3, CellIndex DEF CursorOnScreen
<1>6. Len(gone \o Text(vm)) = Len(gone) + Rows
  BY <1>0, TextType
<1>7. Len(gone) + z < Len(gone) + Rows <=> z < Rows  BY <1>0, <1>1
<1>8. z < Rows \/ z = Rows  BY <1>0, <1>1
<1>9. Len(gone) + z = IF x >= Cols THEN (Len(gone) + y) + 1 ELSE Len(gone) + y
  BY <1>0 DEF z
<1>10. gone' \o Text(video_memory') =
         IF Len(gone) + z < Len(gone \o Text(vm)) THEN gone \o Text(vm)
                                                  ELSE Append(gone \o Text(vm), Roll!BlankLine)
  <2>1. CASE z < Rows  BY <1>2, <1>6, <1>7, <2>1, Zenon
  <2>2. CASE ~(z < Rows)  BY <1>2, <1>6, <1>7, <1>8, <2>2, Zenon
  <2> QED  BY <2>1, <2>2
<1>11. Roll!MoveTo(gone \o Text(vm), x, Len(gone) + y)
  BY <1>1, <1>2, <1>9, <1>10, Zenon DEF Roll!MoveTo
<1> QED  BY <1>4, <1>5, <1>11

-----------------------------------------------------------------------------
(* Writing a cell *)

\* A cell belongs to one column and one row.
LEMMA CellUnique ==
  ASSUME NEW x \in 0 .. Cols - 1, NEW a \in 0 .. Cols - 1,
         NEW y \in 0 .. Rows - 1, NEW b \in 0 .. Rows - 1, y * Cols + x = b * Cols + a
  PROVE  x = a /\ y = b
<1>0. x \in Nat /\ a \in Nat /\ x < Cols /\ a < Cols /\ y \in Nat /\ b \in Nat /\ Cols \in Nat
  BY SizeAssumption
<1>1. /\ y * Cols \in Nat /\ (y + 1) * Cols = y * Cols + Cols
      /\ b * Cols \in Nat /\ (b + 1) * Cols = b * Cols + Cols
  BY <1>0
<1>2. ASSUME y < b PROVE FALSE
  <2>1. (y + 1) * Cols <= b * Cols  BY <1>0, <1>2, y + 1 <= b, ProductMonotone
  <2> QED  BY <1>0, <1>1, <2>1
<1>3. ASSUME b < y PROVE FALSE
  <2>1. (b + 1) * Cols <= y * Cols  BY <1>0, <1>3, b + 1 <= y, ProductMonotone
  <2> QED  BY <1>0, <1>1, <2>1
<1>4. y = b  BY <1>0, <1>2, <1>3
<1> QED  BY <1>0, <1>1, <1>4

Put(f, i, v) == [f EXCEPT ![i] = v]

\* A write to a cell changes one character of one line.
LEMMA WriteLine ==
  ASSUME NEW vm \in [Cells -> Chars], NEW x \in 0 .. Cols - 1, NEW y \in 0 .. Rows - 1, NEW c \in Chars
  PROVE  Text(Put(vm, y * Cols + x, c)) = Put(Text(vm), y + 1, Put(Line(vm, y), x, c))
<1> DEFINE nvm == [vm EXCEPT ![y * Cols + x] = c]
<1>1. ASSUME NEW k \in 1 .. Rows
      PROVE  Line(nvm, k - 1) = IF k = y + 1 THEN [Line(vm, y) EXCEPT ![x] = c] ELSE Line(vm, k - 1)
  <2>0. k - 1 \in 0 .. Rows - 1 /\ (k = y + 1 <=> k - 1 = y)  BY SizeAssumption
  <2>1. ASSUME NEW z \in 0 .. Cols - 1
        PROVE  nvm[(k - 1) * Cols + z] = IF k = y + 1 /\ z = x THEN c ELSE vm[(k - 1) * Cols + z]
    <3>1. (k - 1) * Cols + z \in Cells /\ y * Cols + x \in Cells  BY <2>0, CellIndex
    <3>2. (k - 1) * Cols + z = y * Cols + x => z = x /\ k - 1 = y  BY <2>0, CellUnique
    <3>3. k - 1 = y /\ z = x => (k - 1) * Cols + z = y * Cols + x  OBVIOUS
    <3> HIDE DEF nvm
    <3>4. \A i \in Cells : nvm[i] = IF i = y * Cols + x THEN c ELSE vm[i]  BY DEF nvm
    <3> QED  BY <2>0, <3>1, <3>2, <3>3, <3>4
  <2> HIDE DEF nvm
  <2>2. CASE k = y + 1
    <3>1. k - 1 = y  BY <2>0, <2>2
    <3> QED  BY <2>1, <2>2, <3>1 DEF Line
  <2>3. CASE k # y + 1  BY <2>1, <2>3 DEF Line
  <2> QED  BY <2>2, <2>3
<1> HIDE DEF nvm
<1>2. Text(nvm) = [Text(vm) EXCEPT ![y + 1] = [Line(vm, y) EXCEPT ![x] = c]]
  BY <1>1 DEF Text
<1> QED  BY <1>2, Zenon DEF nvm, Put

\* Changing an entry of t changes one entry of g \o t.
LEMMA ConcatPut ==
  ASSUME NEW L, NEW g \in Seq(L), NEW t \in Seq(L), NEW b \in L, NEW n \in 1 .. Len(t)
  PROVE  /\ g \o Put(t, n, b) = Put(g \o t, Len(g) + n, b)
         /\ (g \o t)[Len(g) + n] = t[n]
<1> DEFINE u == [t EXCEPT ![n] = b]
           w == g \o t
           l == g \o u
           r == [w EXCEPT ![Len(g) + n] = b]
<1>1. u \in Seq(L) /\ Len(u) = Len(t)
      /\ \A k \in 1 .. Len(t) : u[k] = IF k = n THEN b ELSE t[k]
  OBVIOUS
<1>2. w \in Seq(L) /\ Len(w) = Len(g) + Len(t) /\ Len(g) \in Nat /\ Len(t) \in Nat
      /\ (\A k \in 1 .. Len(g) : w[k] = g[k])
      /\ \A k \in 1 .. Len(t) : w[Len(g) + k] = t[k]
  OBVIOUS
<1> HIDE DEF u, w
<1>3. l \in Seq(L) /\ Len(l) = Len(g) + Len(u)
  <2>1. u \in Seq(L)  BY <1>1
  <2> QED  BY <2>1, ConcatIndex
<1>4. /\ \A k \in 1 .. Len(g) : l[k] = g[k]
      /\ \A k \in 1 .. Len(u) : l[Len(g) + k] = u[k]
  <2>1. u \in Seq(L)  BY <1>1
  <2> QED  BY <2>1, ConcatIndex
<1>5. r \in Seq(L) /\ Len(r) = Len(w)
      /\ \A k \in 1 .. Len(w) : r[k] = IF k = Len(g) + n THEN b ELSE w[k]
  BY <1>2
<1> HIDE DEF l, r
<1>6. Len(l) = Len(r) /\ Len(l) = Len(g) + Len(t)  BY <1>1, <1>2, <1>3, <1>5
<1>7. ASSUME NEW k \in 1 .. Len(l) PROVE l[k] = r[k]
  <2>1. CASE k <= Len(g)  BY <1>2, <1>4, <1>5, <1>6, <2>1
  <2>2. CASE k > Len(g)
    <3> DEFINE m == k - Len(g)
    <3>1. m \in 1 .. Len(t) /\ k = Len(g) + m /\ (k = Len(g) + n <=> m = n)  BY <1>2, <1>6, <2>2
    <3> HIDE DEF m
    <3>2. l[k] = IF m = n THEN b ELSE t[m]  BY <1>1, <1>4, <3>1
    <3>3. k \in 1 .. Len(w) /\ w[k] = t[m]  BY <1>2, <1>6, <3>1
    <3>4. r[k] = IF m = n THEN b ELSE t[m]  BY <1>5, <3>1, <3>3
    <3> QED  BY <3>2, <3>4
  <2> QED  BY <1>2, <2>1, <2>2
<1>8. l = r
  <2>1. l \in Seq(L) /\ r \in Seq(L) /\ Len(l) = Len(r)  BY <1>3, <1>5, <1>6
  <2> QED  BY <2>1, <1>7
<1>9. g \o Put(t, n, b) = Put(g \o t, Len(g) + n, b)  BY <1>8, Zenon DEF l, r, u, w, Put
<1> QED  BY <1>2, <1>9 DEF w

-----------------------------------------------------------------------------
(* Theorems *)

SafeScreen == TypeOK /\ CursorOnScreen

\* What a safe screen says of each variable.
LEMMA CursorRanges ==
  ASSUME SafeScreen
  PROVE  /\ video_memory \in [Cells -> Chars] /\ gone \in Seq(Lines) /\ Len(gone) \in Nat
         /\ cursor_x \in Nat /\ cursor_x < Cols /\ cursor_y \in Nat /\ cursor_y < Rows
         /\ cursor_y \in 0 .. Rows /\ cursor_y + 1 \in 0 .. Rows
         /\ Cols \in Nat /\ Cols >= 1 /\ Rows \in Nat /\ Rows >= 1 /\ TabStop \in Nat /\ TabStop >= 1
  BY SizeAssumption DEF SafeScreen, TypeOK, CursorOnScreen

\* putchar() keeps the screen safe, and is a step of the roll of paper.
LEMMA PutcharMoves ==
  ASSUME SafeScreen, Next
  PROVE  SafeScreen' /\ Roll!Next
<1> DEFINE text == gone \o Text(video_memory)
<1>0. /\ video_memory \in [Cells -> Chars] /\ gone \in Seq(Lines) /\ Len(gone) \in Nat
      /\ cursor_x \in Nat /\ cursor_x < Cols /\ cursor_y \in Nat /\ cursor_y < Rows
      /\ cursor_y \in 0 .. Rows /\ cursor_y + 1 \in 0 .. Rows
      /\ Cols \in Nat /\ Cols >= 1 /\ Rows \in Nat /\ Rows >= 1 /\ TabStop \in Nat /\ TabStop >= 1
  BY CursorRanges
<1>00. TypeOK  BY DEF SafeScreen
<1>1. CASE Backspace
  <2>1. cursor_x - 1 \in Nat /\ ~(cursor_x - 1 >= Cols) /\ cursor_x > 0
        /\ Finish(video_memory, cursor_x - 1, cursor_y)
    BY <1>0, <1>1 DEF Backspace
  <2>2. TypeOK' /\ CursorOnScreen' /\ Roll!MoveTo(text, cursor_x - 1, Len(gone) + cursor_y)
    BY <1>0, <1>00, <2>1, FinishMoves, Zenon
  <2> QED  BY <2>1, <2>2, Zenon DEF SafeScreen, Roll!Next
<1>2. CASE Tab
  <2> DEFINE x == ((cursor_x + TabStop) \div TabStop) * TabStop
  <2>1. \A m, w \in Nat : w >= 1 => (m + w) \div w = m \div w + 1 /\ m \div w + 1 \in Nat
    OBVIOUS
  <2>2. x = (cursor_x \div TabStop + 1) * TabStop /\ cursor_x \div TabStop + 1 \in Nat
    BY <1>0, <2>1
  <2>3. x \in Nat  BY <1>0, <2>2
  <2>4. Finish(video_memory, x, cursor_y)  BY <1>2, Zenon DEF Tab
  <2> HIDE DEF x
  <2>5. TypeOK' /\ CursorOnScreen' /\ Roll!MoveTo(text, x, Len(gone) + cursor_y)
    BY <1>0, <1>00, <2>3, <2>4, FinishMoves, Zenon
  <2>6. Roll!MoveTo(text, (cursor_x \div TabStop + 1) * TabStop, Len(gone) + cursor_y)
    BY <2>2, <2>5, Zenon
  <2> QED  BY <2>5, <2>6, Zenon DEF SafeScreen, Roll!Next
<1>3. CASE CarriageReturn
  <2>1. 0 \in Nat /\ ~(0 >= Cols) /\ Finish(video_memory, 0, cursor_y)
    BY <1>0, <1>3 DEF CarriageReturn
  <2>2. TypeOK' /\ CursorOnScreen' /\ Roll!MoveTo(text, 0, Len(gone) + cursor_y)
    BY <1>0, <1>00, <2>1, FinishMoves, Zenon
  <2> QED  BY <2>2, Zenon DEF SafeScreen, Roll!Next
<1>4. CASE Newline
  <2>1. 0 \in Nat /\ ~(0 >= Cols) /\ Finish(video_memory, 0, cursor_y + 1)
        /\ Len(gone) + (cursor_y + 1) = (Len(gone) + cursor_y) + 1
    BY <1>0, <1>4 DEF Newline
  <2>2. TypeOK' /\ CursorOnScreen' /\ Roll!MoveTo(text, 0, Len(gone) + (cursor_y + 1))
    BY <1>0, <1>00, <2>1, FinishMoves, Zenon
  <2>3. Roll!MoveTo(text, 0, (Len(gone) + cursor_y) + 1)  BY <2>1, <2>2, Zenon
  <2> QED  BY <2>2, <2>3, Zenon DEF SafeScreen, Roll!Next
<1>5. ASSUME NEW c \in Glyphs, Printable(c) PROVE SafeScreen' /\ Roll!Next
  <2> DEFINE vm == [video_memory EXCEPT ![cursor_y * Cols + cursor_x] = c]
  <2>1. vm \in [Cells -> Chars] /\ Finish(vm, cursor_x + 1, cursor_y)
    BY <1>0, <1>5 DEF Printable, Chars
  <2>2. cursor_x + 1 \in Nat  BY <1>0
  <2>3. gone \o Text(vm) = [text EXCEPT ![(Len(gone) + cursor_y) + 1][cursor_x] = c]
    <3> DEFINE b == Put(Line(video_memory, cursor_y), cursor_x, c)
               t == Text(video_memory)
               n == cursor_y + 1
    <3>1. cursor_x \in 0 .. Cols - 1 /\ cursor_y \in 0 .. Rows - 1 /\ c \in Chars /\ n \in 1 .. Rows
      BY <1>0, <1>5 DEF Chars
    <3>2. Text(vm) = Put(t, n, b)
      <4>1. Text(Put(video_memory, cursor_y * Cols + cursor_x, c)) = Put(t, n, b)
        BY <1>0, <3>1, WriteLine, Zenon
      <4> QED  BY <4>1, Zenon DEF Put
    <3>3. t \in Seq(Lines) /\ Len(t) = Rows /\ Line(video_memory, cursor_y) \in Lines /\ t[n] = Line(video_memory, cursor_y)
      BY <1>0, <3>1, TextType DEF Text
    <3>4. b \in Lines  BY <3>1, <3>3 DEF Lines, Put
    <3> HIDE DEF b, t, vm
    <3>5. n \in 1 .. Len(t)  BY <3>1, <3>3
    <3> HIDE DEF n
    <3>6. gone \o Put(t, n, b) = Put(gone \o t, Len(gone) + n, b)
          /\ (gone \o t)[Len(gone) + n] = t[n]
      BY <1>0, <3>3, <3>4, <3>5, ConcatPut, ZenonT(40)
    <3>7. Len(gone) + n = (Len(gone) + cursor_y) + 1  BY <1>0 DEF n
    <3>8. b = [text[(Len(gone) + cursor_y) + 1] EXCEPT ![cursor_x] = c]
      BY <3>3, <3>6, <3>7, Zenon DEF b, t, Put
    <3>9. gone \o Text(vm) = [text EXCEPT ![(Len(gone) + cursor_y) + 1] = b]
      BY <3>2, <3>6, <3>7, Zenon DEF t, Put
    <3> QED  BY <3>8, <3>9
  <2> HIDE DEF vm
  <2>4. TypeOK' /\ CursorOnScreen' /\ Roll!MoveTo(gone \o Text(vm), cursor_x + 1, Len(gone) + cursor_y)
    BY <1>0, <1>00, <2>1, <2>2, FinishMoves, Zenon
  <2> QED  BY <1>5, <2>3, <2>4, Zenon DEF SafeScreen, Roll!Next
<1> QED  BY <1>1, <1>2, <1>3, <1>4, <1>5 DEF Next

\* clear_screen() leaves a safe screen, and an empty roll of paper.
LEMMA ScreenStart == ASSUME Init PROVE SafeScreen /\ Roll!Init
<1>0. Cols \in Nat /\ Cols >= 1 /\ Rows \in Nat /\ Rows >= 1  BY SizeAssumption
<1>1. TypeOK  BY DEF Init, TypeOK, Chars
<1>2. cursor_x \in 0 .. Cols - 1 /\ cursor_y \in 0 .. Rows - 1  BY <1>0 DEF Init
<1>3. CursorOnScreen  BY <1>2, CellIndex DEF CursorOnScreen
<1>4. Text(video_memory) = [y \in 1 .. Rows |-> Roll!BlankLine]
  <2>1. \A k \in 1 .. Rows : k - 1 \in 0 .. Rows - 1  BY <1>0
  <2>2. \A k \in 1 .. Rows : \A x \in 0 .. Cols - 1 : video_memory[(k - 1) * Cols + x] = "blank"
    BY <2>1, CellIndex DEF Init, Blank
  <2> QED  BY <2>2 DEF Text, Line, Roll!BlankLine
<1>5. Text(video_memory) \in Seq(Lines)  BY <1>1, TextType DEF TypeOK
<1>6. <<>> \o Text(video_memory) = Text(video_memory)
  <2> DEFINE t == Text(video_memory)
  <2> HIDE DEF t
  <2>1. t \in Seq(Lines)  BY <1>5 DEF t
  <2>2. <<>> \o t = t  BY <2>1
  <2> QED  BY <2>2 DEF t
<1>7. Len(gone) + cursor_y = 0 /\ gone = <<>> /\ cursor_x = 0  BY DEF Init
<1>8. Roll!Init  BY <1>4, <1>6, <1>7 DEF Roll!Init
<1> QED  BY <1>1, <1>3, <1>8 DEF SafeScreen

\* However much is printed, the cursor stays on the screen: putchar() never
\* writes outside video memory.
THEOREM CursorStaysOnScreen == Spec => []CursorOnScreen
<1>1. Init => SafeScreen  BY ScreenStart
<1>2. SafeScreen /\ [Next]_vars => SafeScreen'
  <2>1. CASE Next  BY <2>1, PutcharMoves
  <2>2. CASE UNCHANGED vars
    BY <2>2 DEF vars, SafeScreen, TypeOK, CursorOnScreen
  <2> QED  BY <2>1, <2>2
<1>3. SafeScreen => CursorOnScreen  BY DEF SafeScreen
<1> QED  BY <1>1, <1>2, <1>3, PTL DEF Spec

\* Scrolling loses nothing but the top row: the screen below the rows that
\* scrolled off is a roll of paper.
THEOREM ScreenImplementsPaper == Spec => ScreenIsPaper
<1>1. Init => SafeScreen /\ Roll!Init  BY ScreenStart
<1>2. SafeScreen /\ [Next]_vars => SafeScreen' /\ [Roll!Next]_(Roll!vars)
  <2>1. CASE Next  BY <2>1, PutcharMoves
  <2>2. CASE UNCHANGED vars
    <3>1. SafeScreen => SafeScreen'  BY <2>2 DEF vars, SafeScreen, TypeOK, CursorOnScreen
    <3>2. UNCHANGED Roll!vars  BY <2>2 DEF vars, Roll!vars, Text, Line
    <3> QED  BY <3>1, <3>2
  <2> QED  BY <2>1, <2>2
<1> QED  BY <1>1, <1>2, PTL DEF Spec, ScreenIsPaper, Roll!Spec

=============================================================================
