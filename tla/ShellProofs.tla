------------------------------ MODULE ShellProofs ------------------------------
(***************************************************************************)
(* The shell acts on the words of the line that was typed, for lines of    *)
(* every length and whatever earlier lines left in its buffers.            *)
(***************************************************************************)
EXTENDS Shell, FiniteSetTheorems, WellFoundedInduction, SequenceTheorems, TLAPS

Chars == Letters \cup {Space}
Buffer == [0 .. Size - 1 -> Chars \cup {NL, NUL}]

\* The buffer holds that line, ended by readline() or by a key without a character.
Holds(b, line) ==
  /\ b \in Buffer /\ line \in Seq(Chars) /\ Len(line) <= LineMax
  /\ \A k \in 0 .. Len(line) - 1 : b[k] = line[k + 1]
  /\ b[Len(line)] = NUL \/ (b[Len(line)] = NL /\ b[Len(line) + 1] = NUL)

ShellInv ==
  /\ buffer \in Buffer /\ DOMAIN command = 0 .. Size - 1 /\ DOMAIN args = 0 .. Size - 1
  /\ pc \in {"parse", "act"} => Holds(buffer, Seen(keys))
  /\ pc = "act" => /\ command = Stored(Word(Seen(keys), 1), Size)
                   /\ args = Stored(Word(Seen(keys), 2), Size)

-----------------------------------------------------------------------------
(* Numbers and strings *)

LEMMA LeastIn ==
  ASSUME NEW S \in SUBSET Nat, S # {}
  PROVE  \E x \in S : \A y \in S : x <= y
<1> DEFINE R == OpToRel(<, Nat)
<1>1. \E x \in S : \A y \in S : ~(<<y, x>> \in R)
  BY NatLessThanWellFounded, WFMin
<1>2. \A x, y \in Nat : x < y => <<x, y>> \in R
  BY DEF OpToRel
<1> HIDE DEF R
<1>3. PICK x \in S : \A y \in S : ~(<<y, x>> \in R)
  BY <1>1
<1>4. ASSUME NEW y \in S PROVE x <= y
  <2>1. ~(y < x)
    BY <1>2, <1>3
  <2> QED BY <2>1
<1> QED BY <1>4

LEMMA MinIs ==
  ASSUME NEW S \in SUBSET Nat, NEW x \in S, \A y \in S : x <= y
  PROVE  Min(S) = x
<1>1. PICK z : z = Min(S)
  OBVIOUS
<1>2. z \in S /\ \A y \in S : z <= y
  BY <1>1 DEF Min
<1>3. x <= z /\ z <= x
  BY <1>2
<1> QED BY <1>1, <1>2, <1>3

LEMMA MaxIs ==
  ASSUME NEW S \in SUBSET Nat, NEW x \in S, \A y \in S : y <= x
  PROVE  Max(S) = x
<1>1. PICK z : z = Max(S)
  OBVIOUS
<1>2. z \in S /\ \A y \in S : z >= y
  BY <1>1 DEF Max
<1>3. x <= z /\ z <= x
  BY <1>2
<1> QED BY <1>1, <1>2, <1>3

LEMMA Sizes == LineMax \in Nat /\ Size = LineMax + 2 /\ Size \in Nat
  BY ShellAssumption DEF Size

LEMMA Characters ==
  /\ NUL \notin Chars /\ NL \notin Chars /\ Space \in Chars /\ Letters \subseteq Chars
  /\ Space \notin Letters /\ NUL # NL
BY ShellAssumption DEF Chars, NUL, NL, Space

\* An array that holds a short text ends where the text does.
LEMMA StoredFacts ==
  ASSUME NEW w \in Seq(Chars), Len(w) < Size
  PROVE  /\ DOMAIN Stored(w, Size) = 0 .. Size - 1
         /\ \A i \in 0 .. Size - 1 : Stored(w, Size)[i] = IF i < Len(w) THEN w[i + 1] ELSE NUL
         /\ Min({i \in DOMAIN Stored(w, Size) : Stored(w, Size)[i] = NUL}) = Len(w)
<1> DEFINE a == Stored(w, Size)
           S == {i \in DOMAIN a : a[i] = NUL}
<1>1. /\ DOMAIN a = 0 .. Size - 1
      /\ \A i \in 0 .. Size - 1 : a[i] = IF i < Len(w) THEN w[i + 1] ELSE NUL
  BY DEF Stored
<1> HIDE DEF a
<1>2. S \in SUBSET Nat /\ Len(w) \in S
  BY <1>1, Sizes
<1>3. ASSUME NEW y \in S PROVE Len(w) <= y
  <2>1. y \in 0 .. Size - 1 /\ a[y] = NUL
    BY <1>1
  <2>2. y < Len(w) => y + 1 \in 1 .. Len(w) /\ w[y + 1] \in Chars
    BY <2>1, Sizes
  <2> QED BY <1>1, <2>1, <2>2, Sizes, Characters
<1> HIDE DEF S
<1>4. Min(S) = Len(w)
  BY <1>2, <1>3, MinIs
<1> QED BY <1>1, <1>4 DEF a, S

LEMMA TextStored ==
  ASSUME NEW w \in Seq(Chars), Len(w) < Size
  PROVE  Text(Stored(w, Size)) = w
<1> DEFINE a == Stored(w, Size)
<1>1. /\ \A i \in 0 .. Size - 1 : a[i] = IF i < Len(w) THEN w[i + 1] ELSE NUL
      /\ Min({i \in DOMAIN a : a[i] = NUL}) = Len(w)
  BY StoredFacts
<1> HIDE DEF a
<1>2. Text(a) = [k \in 1 .. Len(w) |-> a[k - 1]]
  BY <1>1 DEF Text
<1>3. ASSUME NEW k \in 1 .. Len(w) PROVE a[k - 1] = w[k]
  <2>1. k - 1 \in 0 .. Size - 1 /\ k - 1 < Len(w) /\ (k - 1) + 1 = k
    BY Sizes
  <2> QED BY <1>1, <2>1
<1>4. w = [k \in 1 .. Len(w) |-> w[k]]
  OBVIOUS
<1> QED BY <1>2, <1>3, <1>4 DEF a

\* strncmp() over the length of the first string, terminator included, says whether
\* two texts are the same.
LEMMA CompareStored ==
  ASSUME NEW w \in Seq(Chars), Len(w) < Size, NEW word \in Seq(Chars), Len(word) < Size
  PROVE  strncmp(Stored(w, Size), Stored(word, Size), strlen(Stored(w, Size))) = 1 <=> w = word
<1> DEFINE s == Stored(w, Size)
           t == Stored(word, Size)
           stops == {i \in DOMAIN s \cap DOMAIN t \cap 0 .. strlen(s) - 1 :
                       s[i] = NUL \/ t[i] = NUL \/ s[i] # t[i]}
<1>1. /\ DOMAIN s = 0 .. Size - 1 /\ strlen(s) = Len(w) + 1
      /\ \A i \in 0 .. Size - 1 : s[i] = IF i < Len(w) THEN w[i + 1] ELSE NUL
  BY StoredFacts DEF strlen
<1>2. /\ DOMAIN t = 0 .. Size - 1
      /\ \A i \in 0 .. Size - 1 : t[i] = IF i < Len(word) THEN word[i + 1] ELSE NUL
  BY StoredFacts
<1>3. strncmp(s, t, strlen(s)) = 1
        <=> stops = {} \/ (s[Min(stops)] = NUL /\ t[Min(stops)] = NUL)
  BY DEF strncmp
<1> HIDE DEF s, t
<1>4. \A i \in 0 .. Len(w) - 1 : w[i + 1] \in Chars /\ w[i + 1] # NUL
  BY Characters
<1>5. \A i \in 0 .. Len(word) - 1 : word[i + 1] \in Chars /\ word[i + 1] # NUL
  BY Characters
<1>6. stops \in SUBSET Nat /\ Len(w) \in stops /\ \A i \in stops : i <= Len(w)
  BY <1>1, <1>2, Sizes
<1>7. PICK x \in stops : (\A y \in stops : x <= y) /\ x = Min(stops)
  <2> HIDE DEF stops
  <2>1. PICK x \in stops : \A y \in stops : x <= y
    BY <1>6, LeastIn
  <2> QED BY <1>6, <2>1, MinIs
<1>8. ASSUME w = word PROVE s[x] = NUL /\ t[x] = NUL
  <2>1. x \in 0 .. Size - 1 /\ s[x] = t[x]
    BY <1>1, <1>2, <1>7, <1>8
  <2> QED BY <1>7, <2>1
<1>9. ASSUME s[x] = NUL, t[x] = NUL PROVE w = word
  <2>1. x = Len(w)
    <3>1. x \in 0 .. Size - 1 /\ x <= Len(w) /\ x \in Nat
      BY <1>1, <1>6, <1>7
    <3> QED BY <1>1, <1>4, <1>9, <3>1
  <2>2. ASSUME NEW i \in 0 .. Len(w) - 1 PROVE i < Len(word) /\ w[i + 1] = word[i + 1]
    <3>1. i \in 0 .. Size - 1 /\ i \notin stops
      <4> HIDE DEF stops
      <4>1. i \in 0 .. Size - 1 /\ ~(x <= i)
        BY <2>1, Sizes
      <4> QED BY <1>7, <4>1
    <3>2. s[i] = w[i + 1] /\ t[i] # NUL /\ s[i] = t[i]
      BY <1>1, <1>2, <3>1
    <3> QED BY <1>2, <3>1, <3>2
  <2>3. Len(word) = Len(w)
    <3>1. ~(Len(w) < Len(word))
      BY <1>2, <1>5, <1>9, <2>1, Sizes
    <3>2. Len(w) > 0 => Len(w) - 1 < Len(word)
      BY <2>2
    <3> QED BY <3>1, <3>2
  <2>4. \A k \in 1 .. Len(w) : w[k] = word[k]
    <3>1. ASSUME NEW k \in 1 .. Len(w) PROVE w[k] = word[k]
      <4>1. k - 1 \in 0 .. Len(w) - 1 /\ (k - 1) + 1 = k
        OBVIOUS
      <4> QED BY <2>2, <4>1
    <3> QED BY <3>1
  <2> QED BY <2>3, <2>4, SeqEqual
<1> HIDE DEF stops
<1> QED BY <1>3, <1>7, <1>8, <1>9 DEF s, t

-----------------------------------------------------------------------------
(* Words *)

\* How many words start in the first k characters of a line.
Count(line, k) == Cardinality({j \in Starts(line) : j <= k})

LEMMA CountFacts ==
  ASSUME NEW line \in Seq(Chars), NEW k \in 0 .. Len(line)
  PROVE  /\ Count(line, k) \in Nat /\ Count(line, 0) = 0
         /\ k > 0 => Count(line, k) = Count(line, k - 1) + IF k \in Starts(line) THEN 1 ELSE 0
<1> DEFINE T(n) == {j \in Starts(line) : j <= n}
<1>1. Starts(line) \subseteq 1 .. Len(line) /\ Len(line) \in Nat
  BY DEF Starts
<1>2. \A n \in Int : IsFiniteSet(T(n))
  <2>1. IsFiniteSet(1 .. Len(line))
    BY <1>1, FS_Interval
  <2>2. \A n \in Int : T(n) \in SUBSET (1 .. Len(line))
    BY <1>1
  <2> HIDE DEF T
  <2> QED BY <2>1, <2>2, FS_Subset
<1>3. Count(line, k) \in Nat
  <2>1. IsFiniteSet(T(k))
    BY <1>2
  <2> QED BY <2>1, FS_CardinalityType DEF Count
<1>4. Count(line, 0) = 0
  <2>1. T(0) = {}
    BY <1>1
  <2>2. Cardinality(T(0)) = 0
    <3> HIDE DEF T
    <3> QED BY <2>1, FS_EmptySet
  <2> QED BY <2>2 DEF Count
<1>5. ASSUME k > 0 PROVE Count(line, k) = Count(line, k - 1) + IF k \in Starts(line) THEN 1 ELSE 0
  <2>1. IsFiniteSet(T(k - 1)) /\ k \notin T(k - 1)
    BY <1>2
  <2>2. CASE k \in Starts(line)
    <3>1. T(k) = T(k - 1) \cup {k}
      BY <1>1, <2>2
    <3>2. Cardinality(T(k)) = Cardinality(T(k - 1)) + 1
      <4> HIDE DEF T
      <4> QED BY <2>1, <3>1, FS_AddElement
    <3> QED BY <2>2, <3>2 DEF Count
  <2>3. CASE k \notin Starts(line)
    <3>1. T(k) = T(k - 1)
      BY <1>1, <2>3
    <3>2. Cardinality(T(k - 1)) \in Nat
      <4> HIDE DEF T
      <4> QED BY <2>1, FS_CardinalityType
    <3>3. Count(line, k) = Cardinality(T(k)) /\ Count(line, k - 1) = Cardinality(T(k - 1))
      BY DEF Count
    <3> HIDE DEF T
    <3> QED BY <2>3, <3>1, <3>2, <3>3
  <2> QED BY <2>2, <2>3
<1> QED BY <1>3, <1>4, <1>5

\* Later starts have higher numbers.
LEMMA CountGrows ==
  ASSUME NEW line \in Seq(Chars), NEW a \in 0 .. Len(line), NEW b \in a .. Len(line)
  PROVE  /\ Count(line, a) <= Count(line, b)
         /\ b \in Starts(line) /\ a < b => Count(line, a) < Count(line, b)
<1> DEFINE Wrong == {k \in a .. Len(line) : ~(Count(line, a) <= Count(line, k))}
<1>1. ASSUME Wrong # {} PROVE FALSE
  <2>1. Wrong \in SUBSET Nat
    OBVIOUS
  <2>2. PICK k \in Wrong : \A m \in Wrong : k <= m
    <3> HIDE DEF Wrong
    <3> QED BY <1>1, <2>1, LeastIn
  <2>3. Count(line, a) \in Nat /\ k # a
    BY <2>2, CountFacts
  <2>4. k \in 0 .. Len(line) /\ k - 1 \in 0 .. Len(line) /\ k > 0 /\ k - 1 \in a .. Len(line)
        /\ k - 1 \notin Wrong
    BY <2>2, <2>3
  <2>5. Count(line, a) <= Count(line, k - 1)
    BY <2>4
  <2>6. Count(line, k) \in Nat /\ Count(line, k - 1) \in Nat
        /\ Count(line, k) = Count(line, k - 1) + IF k \in Starts(line) THEN 1 ELSE 0
    BY <2>4, CountFacts
  <2>7. Count(line, a) <= Count(line, k)
    BY <2>3, <2>5, <2>6
  <2> QED BY <2>2, <2>7
<1>2. \A k \in a .. Len(line) : Count(line, a) <= Count(line, k)
  BY <1>1
<1>3. ASSUME b \in Starts(line), a < b PROVE Count(line, a) < Count(line, b)
  <2>1. b - 1 \in a .. Len(line) /\ b \in 0 .. Len(line) /\ b > 0 /\ b - 1 \in 0 .. Len(line)
    BY <1>3
  <2>2. Count(line, b) = Count(line, b - 1) + 1 /\ Count(line, b - 1) \in Nat /\ Count(line, a) \in Nat
    BY <1>3, <2>1, CountFacts
  <2> QED BY <1>2, <2>1, <2>2
<1> QED BY <1>2, <1>3

\* The word of that number starts at i and ends at e.
IsWord(line, num, i, e) ==
  /\ i \in Starts(line) /\ Count(line, i) = num
  /\ e \in i .. Len(line) /\ \A k \in i .. e : line[k] # Space
  /\ e = Len(line) \/ line[e + 1] = Space

LEMMA WordIs ==
  ASSUME NEW line \in Seq(Chars), NEW num \in Nat
  PROVE  /\ \A i, e : IsWord(line, num, i, e) => Word(line, num) = SubSeq(line, i, e)
         /\ num > Count(line, Len(line)) => Word(line, num) = <<>>
<1> DEFINE S == {i \in Starts(line) : Cardinality({j \in Starts(line) : j <= i}) = num}
<1>1. S = {i \in Starts(line) : Count(line, i) = num}
  BY DEF Count
<1>2. Starts(line) \subseteq 1 .. Len(line) /\ Len(line) \in Nat
  BY DEF Starts
<1>3. ASSUME NEW i, NEW e, IsWord(line, num, i, e) PROVE Word(line, num) = SubSeq(line, i, e)
  <2> DEFINE E == {j \in i .. Len(line) : \A k \in i .. j : line[k] # Space}
  <2>1. i \in S /\ i \in Nat
    BY <1>1, <1>2, <1>3 DEF IsWord
  <2>2. ASSUME NEW y \in S PROVE i <= y
    <3>1. y \in Starts(line) /\ Count(line, y) = num /\ i \in Starts(line) /\ Count(line, i) = num
      BY <1>1, <1>3, <2>2 DEF IsWord
    <3>2. y < i => Count(line, y) < Count(line, i)
      <4> SUFFICES ASSUME y < i PROVE Count(line, y) < Count(line, i)
        OBVIOUS
      <4>1. y \in 0 .. Len(line) /\ i \in y .. Len(line)
        BY <1>2, <3>1
      <4> QED BY <3>1, <4>1, CountGrows
    <3> QED BY <1>2, <2>1, <3>1, <3>2
  <2>3. S \in SUBSET Nat
    BY <1>2
  <2>4. Min(S) = i
    <3> HIDE DEF S
    <3> QED BY <2>1, <2>2, <2>3, MinIs
  <2>5. e \in E /\ E \in SUBSET Nat
    BY <1>2, <1>3, <2>1 DEF IsWord
  <2>6. ASSUME NEW y \in E PROVE y <= e
    <3>1. e \in Nat /\ i <= e /\ (e = Len(line) \/ line[e + 1] = Space) /\ y \in i .. Len(line)
      BY <1>2, <1>3, <2>1 DEF IsWord
    <3>2. e < y => e + 1 \in i .. y
      BY <2>1, <3>1
    <3> QED BY <1>2, <2>1, <3>1, <3>2
  <2>7. Max(E) = e
    <3> HIDE DEF E
    <3> QED BY <2>5, <2>6, MaxIs
  <2> HIDE DEF S
  <2>8. Word(line, num) = SubSeq(line, Min(S), Max({j \in Min(S) .. Len(line) : \A k \in Min(S) .. j : line[k] # Space}))
    BY <2>1 DEF Word, S
  <2> QED BY <2>4, <2>7, <2>8
<1>4. ASSUME num > Count(line, Len(line)) PROVE Word(line, num) = <<>>
  <2>1. ASSUME NEW i \in S PROVE FALSE
    <3>1. i \in 0 .. Len(line) /\ Len(line) \in i .. Len(line) /\ Count(line, i) = num
      BY <1>1, <1>2, <2>1
    <3>2. Count(line, i) <= Count(line, Len(line)) /\ Count(line, Len(line)) \in Nat
      BY <1>2, <3>1, CountGrows, CountFacts
    <3> QED BY <1>4, <3>1, <3>2
  <2>2. S = {}
    BY <2>1
  <2> QED BY <2>2 DEF Word
<1> QED BY <1>3, <1>4

-----------------------------------------------------------------------------
(* token() *)

Unstarted == [in_word |-> FALSE, start |-> 0, end |-> 0, words |-> 0, stop |-> FALSE]

\* What the loop makes of the first k characters when f is what it makes of fewer.
Scan(f, str, num, k) ==
  IF k = 0 THEN Unstarted
  ELSE IF f[k - 1].stop THEN f[k - 1] ELSE Turn(f[k - 1], str[k - 1], k - 1, num)

\* The loop has gone over k characters of the line and has not found the word: it
\* is between words, or inside the word that started last.
Between(line, num, k, st) ==
  /\ st.in_word = FALSE /\ (k = 0 \/ line[k] = Space)
  /\ Count(line, k) = st.words

Inside(line, num, k, st) ==
  /\ st.in_word = TRUE /\ k > 0 /\ line[k] # Space
  /\ Count(line, k) = st.words + 1
  /\ st.start \in Nat /\ st.start + 1 \in Starts(line) /\ st.start + 1 <= k
  /\ Count(line, st.start + 1) = Count(line, k)
  /\ \A j \in st.start + 1 .. k : line[j] # Space

Open(line, num, k, st) ==
  /\ k \in 0 .. Len(line) /\ st.stop = FALSE
  /\ st.words \in Nat /\ st.words < num
  /\ Between(line, num, k, st) \/ Inside(line, num, k, st)

\* The loop has stopped: it has found the word, or there is none.
Closed(line, num, st) ==
  /\ st.stop = TRUE
  /\ \/ st.words = num /\ st.start \in Nat /\ IsWord(line, num, st.start + 1, st.end)
     \/ st.words # num /\ num > Count(line, Len(line))

LEMMA TurnInside ==
  ASSUME NEW line \in Seq(Chars), NEW num \in Nat, NEW k \in 0 .. Len(line) - 1, NEW st,
         Open(line, num, k, st)
  PROVE  LET after == Turn(st, line[k + 1], k, num)
         IN  Open(line, num, k + 1, after) \/ Closed(line, num, after)
<1> DEFINE c == line[k + 1]
           t == Turn(st, c, k, num)
<1>0. k \in Nat /\ k + 1 \in 1 .. Len(line) /\ Len(line) \in Nat /\ c \in Chars /\ c # NUL /\ c # NL
  BY Characters
<1>1. Count(line, k + 1) = Count(line, k) + IF k + 1 \in Starts(line) THEN 1 ELSE 0
  <2>1. k + 1 \in 0 .. Len(line) /\ k + 1 > 0 /\ (k + 1) - 1 = k
    BY <1>0
  <2> QED BY <2>1, CountFacts
<1>2. k + 1 \in Starts(line) <=> c # Space /\ (k = 0 \/ line[k] = Space)
  BY <1>0 DEF Starts
<1>3. st.words \in Nat /\ st.words < num /\ Count(line, k) \in Nat
  <2>1. k \in 0 .. Len(line)
    BY <1>0
  <2> QED BY <2>1, CountFacts DEF Open
<1>9. st.words # num
  BY <1>3
<1> HIDE DEF c
<1>4. CASE Between(line, num, k, st) /\ c # Space
  <2>1. t.in_word = TRUE /\ t.start = k /\ t.words = st.words
    BY <1>0, <1>4 DEF Turn, Between
  <2>2. t.stop = FALSE
    BY <1>0, <1>9, <1>4 DEF Turn, Between
  <2> HIDE DEF t
  <2>3. k + 1 \in Starts(line) /\ Count(line, k + 1) = Count(line, k) + 1
    BY <1>1, <1>2, <1>4 DEF Between
  <2>4. \A j \in k + 1 .. k + 1 : line[j] # Space
    BY <1>0, <1>4 DEF c
  <2>5. Inside(line, num, k + 1, t)
    BY <1>0, <1>4, <2>1, <2>3, <2>4 DEF Between, Inside, c
  <2>6. Open(line, num, k + 1, t)
    BY <1>0, <1>3, <2>1, <2>2, <2>5 DEF Open
  <2> QED BY <2>6 DEF t, c
<1>5. CASE Between(line, num, k, st) /\ c = Space
  <2>1. t.in_word = FALSE /\ t.words = st.words
    BY <1>5 DEF Turn, Between
  <2>2. t.stop = FALSE
    BY <1>0, <1>9, <1>5 DEF Turn, Between
  <2> HIDE DEF t
  <2>3. Count(line, k + 1) = Count(line, k)
    BY <1>1, <1>2, <1>3, <1>5
  <2>4. Between(line, num, k + 1, t)
    BY <1>5, <2>1, <2>3 DEF Between, c
  <2>5. Open(line, num, k + 1, t)
    BY <1>0, <1>3, <2>1, <2>2, <2>4 DEF Open
  <2> QED BY <2>5 DEF t, c
<1>6. CASE Inside(line, num, k, st) /\ c # Space
  <2>1. t.in_word = TRUE /\ t.start = st.start /\ t.words = st.words
    BY <1>0, <1>6 DEF Turn, Inside
  <2>2. t.stop = FALSE
    BY <1>0, <1>9, <1>6 DEF Turn, Inside
  <2> HIDE DEF t
  <2>3. Count(line, k + 1) = Count(line, k)
    BY <1>0, <1>1, <1>2, <1>3, <1>6 DEF Inside
  <2>4. \A j \in st.start + 1 .. k + 1 : line[j] # Space
    BY <1>0, <1>6 DEF c, Inside
  <2>5. Inside(line, num, k + 1, t)
    BY <1>0, <1>6, <2>1, <2>3, <2>4 DEF Inside, c
  <2>6. Open(line, num, k + 1, t)
    BY <1>0, <1>3, <2>1, <2>2, <2>5 DEF Open
  <2> QED BY <2>6 DEF t, c
<1>7. CASE Inside(line, num, k, st) /\ c = Space
  <2>1. t.in_word = FALSE /\ t.start = st.start /\ t.end = k /\ t.words = st.words + 1
    BY <1>7 DEF Turn, Inside
  <2>2. Count(line, k + 1) = Count(line, k)
    BY <1>1, <1>2, <1>3, <1>7
  <2>3. CASE st.words + 1 = num
    <3>1. t.stop = TRUE
      BY <1>7, <2>3 DEF Turn, Inside
    <3> HIDE DEF t
    <3>2. IsWord(line, num, st.start + 1, k)
      BY <1>0, <1>7, <2>3 DEF IsWord, Inside, c
    <3>3. Closed(line, num, t)
      BY <1>7, <2>1, <2>3, <3>1, <3>2 DEF Closed, Inside
    <3> QED BY <3>3 DEF t, c
  <2>4. CASE st.words + 1 # num
    <3>1. t.stop = FALSE
      BY <1>0, <1>7, <2>4 DEF Turn, Inside
    <3> HIDE DEF t
    <3>2. Between(line, num, k + 1, t)
      BY <1>7, <2>1, <2>2 DEF Between, Inside, c
    <3>3. Open(line, num, k + 1, t)
      BY <1>0, <1>3, <2>1, <2>4, <3>1, <3>2 DEF Open
    <3> QED BY <3>3 DEF t, c
  <2> QED BY <2>3, <2>4
<1> QED BY <1>4, <1>5, <1>6, <1>7 DEF Open

LEMMA TurnAtEnd ==
  ASSUME NEW line \in Seq(Chars), NEW num \in Nat, NEW st, Open(line, num, Len(line), st),
         NEW c \in {NUL, NL}
  PROVE  Closed(line, num, Turn(st, c, Len(line), num))
<1> DEFINE n == Len(line)
           t == Turn(st, c, n, num)
<1>1. t.start = st.start /\ t.stop = TRUE
  BY DEF Turn
<1>2. n \in Nat /\ st.words \in Nat /\ st.words < num
  BY DEF Open
<1>3. CASE Between(line, num, n, st)
  <2>1. t.words = st.words
    BY <1>3 DEF Turn, Between
  <2> HIDE DEF t
  <2>2. Closed(line, num, t)
    BY <1>1, <1>2, <1>3, <2>1 DEF Closed, Between
  <2> QED BY <2>2 DEF t
<1>4. CASE Inside(line, num, n, st)
  <2>1. t.end = n /\ t.words = st.words + 1
    BY <1>4 DEF Turn, Inside
  <2> HIDE DEF t
  <2>2. CASE t.words = num
    <3>1. IsWord(line, num, st.start + 1, n)
      BY <1>2, <1>4, <2>1, <2>2 DEF IsWord, Inside
    <3>2. Closed(line, num, t)
      BY <1>1, <1>4, <2>1, <2>2, <3>1 DEF Closed, Inside
    <3> QED BY <3>2 DEF t
  <2>3. CASE t.words # num
    <3>1. num > Count(line, n)
      BY <1>2, <1>4, <2>1, <2>3 DEF Inside
    <3>2. Closed(line, num, t)
      BY <1>1, <2>3, <3>1 DEF Closed
    <3> QED BY <3>2 DEF t
  <2> QED BY <2>2, <2>3
<1> QED BY <1>3, <1>4 DEF Open

IsScan(f, str, num, N) == f = [k \in 0 .. N |-> Scan(f, str, num, k)]

\* The loop of token() is defined, whatever the array.
LEMMA ScanDefined ==
  ASSUME NEW N \in Nat, NEW str, NEW num
  PROVE  \E f : IsScan(f, str, num, N)
<1> DEFINE Wrong == {m \in Nat : ~\E f : f = [k \in 0 .. m |-> Scan(f, str, num, k)]}
<1>1. ASSUME Wrong # {} PROVE FALSE
  <2>1. PICK m \in Wrong : \A n \in Wrong : m <= n
    <3>1. Wrong \in SUBSET Nat
      OBVIOUS
    <3> HIDE DEF Wrong
    <3> QED BY <1>1, <3>1, LeastIn
  <2>2. CASE m = 0
    <3> DEFINE g == [k \in 0 .. 0 |-> Unstarted]
    <3>1. g = [k \in 0 .. 0 |-> Scan(g, str, num, k)]
      BY DEF Scan
    <3> QED BY <2>1, <2>2, <3>1
  <2>3. CASE m # 0
    <3>1. m - 1 \in Nat /\ m - 1 \notin Wrong
      BY <2>1, <2>3
    <3>2. PICK f : f = [k \in 0 .. m - 1 |-> Scan(f, str, num, k)]
      BY <3>1
    <3> DEFINE g == [k \in 0 .. m |-> IF k = m THEN Scan(f, str, num, m) ELSE f[k]]
    <3>3. ASSUME NEW k \in 0 .. m PROVE g[k] = Scan(g, str, num, k)
      <4>1. k # 0 => k - 1 \in 0 .. m - 1 /\ g[k - 1] = f[k - 1]
        BY <2>1, <2>3
      <4>2. Scan(g, str, num, k) = Scan(f, str, num, k)
        <5> HIDE DEF g
        <5> QED BY <4>1 DEF Scan
      <4>3. CASE k = m
        BY <4>2, <4>3
      <4>4. CASE k # m
        <5>1. k \in 0 .. m - 1
          BY <2>1, <4>4
        <5>2. f[k] = Scan(f, str, num, k)
          BY <3>2, <5>1
        <5> QED BY <4>2, <4>4, <5>2
      <4> QED BY <4>3, <4>4
    <3>4. g = [k \in 0 .. m |-> Scan(g, str, num, k)]
      <4>1. g = [k \in 0 .. m |-> g[k]]
        OBVIOUS
      <4> HIDE DEF g
      <4> QED BY <3>3, <4>1
    <3> HIDE DEF g
    <3> QED BY <2>1, <3>4
  <2> QED BY <2>2, <2>3
<1> QED BY <1>1 DEF IsScan

\* The line goes up to the newline or to the NUL after it.
LEMMA LengthHeld ==
  ASSUME NEW b, NEW line, Holds(b, line)
  PROVE  strlen(b) \in {Len(line) + 1, Len(line) + 2}
<1> DEFINE n == Len(line)
           S == {i \in DOMAIN b : b[i] = NUL}
<1>1. DOMAIN b = 0 .. Size - 1 /\ line \in Seq(Chars) /\ n \in Nat /\ n <= LineMax
  BY DEF Holds, Buffer
<1>2. \A k \in 0 .. n - 1 : b[k] \in Chars /\ b[k] # NUL
  <2>1. ASSUME NEW k \in 0 .. n - 1 PROVE b[k] \in Chars
    <3>1. k + 1 \in 1 .. n
      BY <1>1
    <3>2. line[k + 1] \in Chars
      BY <1>1, <3>1
    <3> QED BY <3>2 DEF Holds
  <2> QED BY <2>1, Characters
<1>3. S \in SUBSET Nat /\ \A y \in S : n <= y
  BY <1>1, <1>2, Sizes
<1>4. CASE b[n] = NUL
  <2>1. n \in S
    BY <1>1, <1>4, Sizes
  <2> HIDE DEF S
  <2>2. Min(S) = n
    BY <1>3, <2>1, MinIs
  <2> QED BY <2>2 DEF strlen, S
<1>5. CASE b[n] = NL /\ b[n + 1] = NUL
  <2>1. n + 1 \in S /\ n \notin S
    BY <1>1, <1>5, Sizes, Characters
  <2> HIDE DEF S
  <2>2. \A y \in S : n + 1 <= y
    BY <1>1, <1>3, <2>1
  <2>3. Min(S) = n + 1
    BY <1>3, <2>1, <2>2, MinIs
  <2>4. strlen(b) = (n + 1) + 1
    BY <2>3 DEF strlen, S
  <2> QED BY <1>1, <2>4
<1> QED BY <1>4, <1>5 DEF Holds

\* The loop ends with the word found, or with the line at its end.
LEMMA ScanHeld ==
  ASSUME NEW b, NEW line, Holds(b, line), NEW num \in Nat, num > 0, NEW f,
         f = [k \in 0 .. strlen(b) |-> Scan(f, b, num, k)]
  PROVE  Closed(line, num, f[strlen(b)])
<1> DEFINE n == Len(line)
           Good(k) == Open(line, num, k, f[k]) \/ Closed(line, num, f[k])
           Wrong == {k \in 0 .. strlen(b) : ~Good(k)}
<1>1. /\ line \in Seq(Chars) /\ n \in Nat /\ strlen(b) \in Nat /\ strlen(b) > n
      /\ \A k \in 0 .. n - 1 : b[k] = line[k + 1]
      /\ b[n] \in {NUL, NL}
  BY LengthHeld DEF Holds
<1>2. \A k \in 0 .. strlen(b) : f[k] = Scan(f, b, num, k)
  OBVIOUS
<1>3. Good(0)
  <2>1. 0 \in 0 .. strlen(b) /\ 0 \in 0 .. n
    BY <1>1
  <2>2. f[0] = Unstarted
    BY <1>2, <2>1 DEF Scan
  <2>3. Count(line, 0) = 0
    BY <1>1, <2>1, CountFacts
  <2>4. Between(line, num, 0, Unstarted)
    BY <2>3 DEF Between, Unstarted
  <2>5. Unstarted.words = 0 /\ Unstarted.stop = FALSE
    BY DEF Unstarted
  <2>6. Open(line, num, 0, Unstarted)
    BY <2>1, <2>4, <2>5 DEF Open
  <2> QED BY <2>2, <2>6
<1>4. ASSUME NEW k \in 1 .. strlen(b), Good(k - 1) PROVE Good(k)
  <2>1. k \in 0 .. strlen(b) /\ k # 0 /\ k - 1 \in Nat /\ (k - 1) + 1 = k
    BY <1>1
  <2>2. f[k] = IF f[k - 1].stop THEN f[k - 1] ELSE Turn(f[k - 1], b[k - 1], k - 1, num)
    <3>1. f[k] = Scan(f, b, num, k)
      BY <1>2, <2>1
    <3> QED BY <2>1, <3>1 DEF Scan
  <2>3. CASE Closed(line, num, f[k - 1])
    <3>1. f[k] = f[k - 1]
      BY <2>2, <2>3 DEF Closed
    <3> QED BY <2>3, <3>1
  <2>4. CASE Open(line, num, k - 1, f[k - 1])
    <3>1. k - 1 <= n /\ f[k] = Turn(f[k - 1], b[k - 1], k - 1, num)
      BY <2>2, <2>4 DEF Open
    <3>2. CASE k - 1 < n
      <4>1. k - 1 \in 0 .. n - 1 /\ b[k - 1] = line[(k - 1) + 1]
        BY <1>1, <2>1, <3>2
      <4>2. f[k] = Turn(f[k - 1], line[(k - 1) + 1], k - 1, num)
        BY <3>1, <4>1
      <4>3. Open(line, num, (k - 1) + 1, f[k]) \/ Closed(line, num, f[k])
        BY <1>1, <2>4, <4>1, <4>2, TurnInside
      <4> QED BY <2>1, <4>3
    <3>3. CASE k - 1 = n
      <4>1. Closed(line, num, Turn(f[k - 1], b[n], n, num))
        BY <1>1, <2>4, <3>3, TurnAtEnd
      <4> QED BY <3>1, <3>3, <4>1
    <3> QED BY <1>1, <2>1, <3>1, <3>2, <3>3
  <2> QED BY <1>4, <2>3, <2>4
<1> HIDE DEF Good
<1>5. ASSUME Wrong # {} PROVE FALSE
  <2>1. Wrong \in SUBSET Nat
    BY <1>1
  <2>2. PICK k \in Wrong : \A m \in Wrong : k <= m
    <3> HIDE DEF Wrong
    <3> QED BY <1>5, <2>1, LeastIn
  <2>3. k # 0
    BY <1>3, <2>2
  <2>4. k \in 1 .. strlen(b) /\ k - 1 \in 0 .. strlen(b) /\ ~(k <= k - 1)
    BY <1>1, <2>2, <2>3
  <2>5. Good(k - 1)
    BY <2>2, <2>4
  <2> QED BY <1>4, <2>2, <2>4, <2>5
<1>6. Good(strlen(b))
  BY <1>1, <1>5
<1>7. ~Open(line, num, strlen(b), f[strlen(b)])
  BY <1>1 DEF Open
<1> QED BY <1>6, <1>7 DEF Good

\* memset() over the whole of a buffer of the shell empties it.
LEMMA Emptied ==
  ASSUME NEW x, DOMAIN x = 0 .. Size - 1
  PROVE  memset(x, NUL, Size) = Stored(<<>>, Size)
BY Sizes DEF memset, Stored

\* token() gives the word of that number of the line, and nothing when there is none.
LEMMA TokenHeld ==
  ASSUME NEW b, NEW line, Holds(b, line), NEW num \in Nat, num > 0
  PROVE  /\ Word(line, num) \in Seq(Chars) /\ Len(Word(line, num)) <= LineMax
         /\ token(b, num, Stored(<<>>, Size)) = Stored(Word(line, num), Size)
<1> DEFINE n == Len(line)
           tok == Stored(<<>>, Size)
<1>1. line \in Seq(Chars) /\ n \in Nat /\ n <= LineMax /\ strlen(b) \in Nat
  BY LengthHeld DEF Holds
<1>2. tok = [i \in 0 .. Size - 1 |-> NUL]
  BY Sizes DEF Stored
<1>3. PICK f : /\ f = [k \in 0 .. strlen(b) |-> Scan(f, b, num, k)]
               /\ token(b, num, tok) =
                    IF f[strlen(b)].words # num THEN memset(tok, NUL, 8)
                    ELSE [strncpy(tok, b, f[strlen(b)].start, f[strlen(b)].end - f[strlen(b)].start)
                            EXCEPT ![f[strlen(b)].end - f[strlen(b)].start] = NUL]
  <2>1. \E f : f = [k \in 0 .. strlen(b) |-> Scan(f, b, num, k)]
    <3>1. \E f : IsScan(f, b, num, strlen(b))
      BY <1>1, ScanDefined
    <3> QED BY <3>1 DEF IsScan
  <2> HIDE DEF tok
  <2> QED BY <2>1 DEF token, Scan, Unstarted
<1> DEFINE last == f[strlen(b)]
<1>4. Closed(line, num, last)
  BY <1>3, ScanHeld
<1> HIDE DEF tok, last
<1>5. CASE last.words # num
  <2>1. token(b, num, tok) = memset(tok, NUL, 8)
    BY <1>3, <1>5 DEF last
  <2>2. memset(tok, NUL, 8) = tok
    BY <1>2 DEF memset
  <2>3. Word(line, num) = <<>>
    BY <1>1, <1>4, <1>5, WordIs DEF Closed
  <2>4. <<>> \in Seq(Chars) /\ Len(<<>>) <= LineMax
    BY Sizes
  <2> QED BY <2>1, <2>2, <2>3, <2>4 DEF tok
<1>6. CASE last.words = num
  <2> DEFINE s == last.start
             e == last.end
             len == e - s
             w == SubSeq(line, s + 1, e)
  <2>1. s \in Nat /\ IsWord(line, num, s + 1, e)
    BY <1>4, <1>6 DEF Closed
  <2>2. Word(line, num) = w
    BY <1>1, <2>1, WordIs
  <2>3. e \in Nat /\ s + 1 <= e /\ e <= n /\ len \in Nat /\ len <= n
    BY <1>1, <2>1 DEF IsWord
  <2>4. token(b, num, tok) = [strncpy(tok, b, s, len) EXCEPT ![len] = NUL]
    BY <1>3, <1>6 DEF last
  <2> HIDE DEF s, e
  <2>5. /\ w \in Seq(Chars) /\ Len(w) = len /\ Len(w) <= LineMax
        /\ \A i \in 0 .. len - 1 : w[i + 1] = line[s + i + 1]
    <3>1. w \in Seq(Chars) /\ Len(w) = (e - (s + 1)) + 1 /\ \A i \in 1 .. Len(w) : w[i] = line[(s + 1) + i - 1]
      BY <1>1, <2>1, <2>3
    <3>2. Len(w) = len
      BY <2>1, <2>3, <3>1
    <3>3. ASSUME NEW i \in 0 .. len - 1 PROVE w[i + 1] = line[s + i + 1]
      <4>1. i + 1 \in 1 .. Len(w) /\ (s + 1) + (i + 1) - 1 = s + i + 1
        BY <2>1, <2>3, <3>2
      <4> HIDE DEF w
      <4> QED BY <3>1, <4>1
    <3> HIDE DEF w
    <3> QED BY <1>1, <2>3, <3>1, <3>2, <3>3, Sizes
  <2> HIDE DEF w
  <2>6. \A i \in 0 .. len - 1 : b[s + i] = line[s + i + 1] /\ b[s + i] # NUL
    <3> SUFFICES ASSUME NEW i \in 0 .. len - 1
                 PROVE  b[s + i] = line[s + i + 1] /\ b[s + i] # NUL
      OBVIOUS
    <3>1. s + i \in 0 .. n - 1 /\ s + i + 1 \in 1 .. n
      BY <1>1, <2>1, <2>3
    <3>2. b[s + i] = line[s + i + 1]
      BY <3>1 DEF Holds
    <3>3. line[s + i + 1] \in Chars
      BY <1>1, <3>1
    <3> QED BY <3>2, <3>3, Characters
  <2>7. len \in 0 .. Size - 1
    BY <1>1, <2>3, Sizes
  <2> HIDE DEF len
  <2>8. ASSUME NEW i \in 0 .. Size - 1
        PROVE  strncpy(tok, b, s, len)[i] = IF i < len THEN w[i + 1] ELSE NUL
    <3>1. DOMAIN tok = 0 .. Size - 1 /\ tok[i] = NUL
      BY <1>2
    <3>2. i < len => b[s + i] = w[i + 1] /\ ~\E j \in 0 .. i : b[s + j] = NUL
      <4> SUFFICES ASSUME i < len PROVE b[s + i] = w[i + 1] /\ ~\E j \in 0 .. i : b[s + j] = NUL
        OBVIOUS
      <4>1. i \in 0 .. len - 1 /\ \A j \in 0 .. i : j \in 0 .. len - 1
        BY <2>7, Sizes
      <4> QED BY <2>5, <2>6, <4>1
    <3>3. strncpy(tok, b, s, len)[i] =
            IF i >= len THEN tok[i]
            ELSE IF \E j \in 0 .. i : b[s + j] = NUL THEN NUL ELSE b[s + i]
      BY <3>1 DEF strncpy
    <3> QED BY <2>7, <3>1, <3>2, <3>3, Sizes
  <2>9. [strncpy(tok, b, s, len) EXCEPT ![len] = NUL] = Stored(w, Size)
    <3> DEFINE g == strncpy(tok, b, s, len)
    <3>1. g = [i \in 0 .. Size - 1 |-> g[i]]
      BY <1>2 DEF strncpy
    <3> HIDE DEF g
    <3>2. [g EXCEPT ![len] = NUL] = [i \in 0 .. Size - 1 |-> IF i = len THEN NUL ELSE g[i]]
      BY <2>7, <3>1
    <3>3. ASSUME NEW i \in 0 .. Size - 1
          PROVE  (IF i = len THEN NUL ELSE g[i]) = IF i < Len(w) THEN w[i + 1] ELSE NUL
      BY <2>5, <2>7, <2>8, Sizes DEF g
    <3> QED BY <3>2, <3>3 DEF g, Stored
  <2> QED BY <2>2, <2>4, <2>5, <2>9 DEF tok
<1> QED BY <1>5, <1>6

-----------------------------------------------------------------------------
(* The loop of the shell *)

\* What is seen of a line is all of it, or ends before its first NUL.
LEMMA SeenFacts ==
  ASSUME NEW typed \in Keys
  PROVE  /\ Len(typed) \in Nat /\ Len(typed) <= LineMax /\ typed \in Seq(Chars \cup {NUL})
         /\ Seen(typed) \in Seq(Chars) /\ Len(Seen(typed)) <= Len(typed)
         /\ \A k \in 1 .. Len(Seen(typed)) : Seen(typed)[k] = typed[k]
         /\ Seen(typed) = typed \/ (typed[Len(Seen(typed)) + 1] = NUL /\ Len(Seen(typed)) < Len(typed))
<1> DEFINE nuls == {i \in DOMAIN typed : typed[i] = NUL}
<1>1. typed \in Seq(Chars \cup {NUL}) /\ Len(typed) \in Nat /\ Len(typed) <= LineMax
  BY Sizes DEF Keys, Chars
<1>2. CASE nuls = {}
  <2>1. Seen(typed) = typed
    BY <1>2 DEF Seen
  <2>2. \A k \in 1 .. Len(typed) : typed[k] \in Chars
    BY <1>1, <1>2
  <2>3. typed \in Seq(Chars)
    BY <1>1, <2>2
  <2> QED BY <1>1, <2>1, <2>3
<1>3. CASE nuls # {}
  <2>1. nuls \in SUBSET Nat
    BY <1>1
  <2>2. PICK x \in nuls : \A y \in nuls : x <= y
    <3> HIDE DEF nuls
    <3> QED BY <1>3, <2>1, LeastIn
  <2>3. Min(nuls) = x
    <3> HIDE DEF nuls
    <3> QED BY <2>1, <2>2, MinIs
  <2>4. Seen(typed) = SubSeq(typed, 1, x - 1)
    BY <1>3, <2>3 DEF Seen
  <2>5. x \in 1 .. Len(typed) /\ typed[x] = NUL
    BY <1>1, <2>2
  <2>6. Len(Seen(typed)) = x - 1 /\ \A k \in 1 .. x - 1 : Seen(typed)[k] = typed[k]
    BY <1>1, <2>4, <2>5
  <2>7. ASSUME NEW k \in 1 .. x - 1 PROVE typed[k] \in Chars
    <3>1. k \in 1 .. Len(typed) /\ ~(x <= k)
      BY <1>1, <2>5
    <3>2. k \notin nuls
      BY <2>2, <3>1
    <3> QED BY <1>1, <3>1, <3>2
  <2>8. Seen(typed) = [k \in 1 .. x - 1 |-> typed[k]]
    BY <1>1, <2>4, <2>5
  <2>9. Seen(typed) \in Seq(Chars)
    BY <2>5, <2>7, <2>8
  <2> QED BY <1>1, <2>5, <2>6, <2>9
<1> QED BY <1>2, <1>3

\* readline() leaves in its buffer the line that was typed, also where an earlier
\* line left a newline.
LEMMA ReadlineHolds ==
  ASSUME buffer \in Buffer, NEW typed \in Keys, Readline(typed)
  PROVE  buffer' \in Buffer /\ Holds(buffer', Seen(typed))
<1> DEFINE n == Len(typed)
           m == Len(Seen(typed))
           b == [i \in 0 .. Size - 1 |-> IF i < n THEN typed[i + 1] ELSE buffer[i]]
<1>1. typed \in Seq(Chars \cup {NUL}) /\ n \in Nat /\ n <= LineMax
  BY SeenFacts
<1>2. b \in Buffer
  <2>1. ASSUME NEW i \in 0 .. Size - 1
        PROVE  (IF i < n THEN typed[i + 1] ELSE buffer[i]) \in Chars \cup {NL, NUL}
    <3>1. i < n => i + 1 \in 1 .. n /\ typed[i + 1] \in Chars \cup {NUL}
      BY <1>1, Sizes
    <3> QED BY <3>1 DEF Buffer
  <2> QED BY <2>1 DEF Buffer
<1>3. \A k \in 0 .. n - 1 : b[k] = typed[k + 1]
  BY <1>1, Sizes
<1>4. buffer' = EndLine(b, n)
  BY DEF Readline
<1>5. n \in 0 .. Size - 1 /\ n + 1 \in 0 .. Size - 1 /\ n # n + 1
  BY <1>1, Sizes
<1> HIDE DEF b
<1>6. /\ buffer' \in Buffer /\ \A k \in 0 .. n - 1 : buffer'[k] = typed[k + 1]
      /\ buffer'[n] = NUL \/ (buffer'[n] = NL /\ buffer'[n + 1] = NUL)
  <2>1. CASE b[n] # NL
    <3>1. buffer' = [[b EXCEPT ![n] = NL] EXCEPT ![n + 1] = NUL]
      BY <1>4, <2>1 DEF EndLine
    <3>2. buffer' \in Buffer /\ buffer'[n] = NL /\ buffer'[n + 1] = NUL
          /\ \A k \in 0 .. n - 1 : buffer'[k] = b[k]
      BY <1>1, <1>2, <1>5, <3>1, Sizes DEF Buffer
    <3> QED BY <1>3, <3>2
  <2>2. CASE b[n] = NL
    <3>1. buffer' = [b EXCEPT ![n] = NUL]
      BY <1>4, <2>2 DEF EndLine
    <3>2. buffer' \in Buffer /\ buffer'[n] = NUL /\ \A k \in 0 .. n - 1 : buffer'[k] = b[k]
      BY <1>1, <1>2, <1>5, <3>1, Sizes DEF Buffer
    <3> QED BY <1>3, <3>2
  <2> QED BY <2>1, <2>2
<1>7. /\ Seen(typed) \in Seq(Chars) /\ m \in Nat /\ m <= n
      /\ \A k \in 1 .. m : Seen(typed)[k] = typed[k]
      /\ Seen(typed) = typed \/ (typed[m + 1] = NUL /\ m < n)
  BY SeenFacts
<1> HIDE DEF n, m
<1>8. \A k \in 0 .. m - 1 : buffer'[k] = Seen(typed)[k + 1]
  <2> SUFFICES ASSUME NEW k \in 0 .. m - 1 PROVE buffer'[k] = Seen(typed)[k + 1]
    OBVIOUS
  <2>1. k \in 0 .. n - 1 /\ k + 1 \in 1 .. m
    BY <1>1, <1>7
  <2> QED BY <1>6, <1>7, <2>1
<1>9. buffer'[m] = NUL \/ (buffer'[m] = NL /\ buffer'[m + 1] = NUL)
  <2>1. CASE Seen(typed) = typed
    BY <1>6, <2>1 DEF m, n
  <2>2. CASE typed[m + 1] = NUL /\ m < n
    <3>1. m \in 0 .. n - 1
      BY <1>1, <1>7, <2>2
    <3> QED BY <1>6, <2>2, <3>1
  <2> QED BY <1>7, <2>1, <2>2
<1>10. m <= LineMax
  BY <1>1, <1>7, Sizes
<1> QED BY <1>6, <1>7, <1>8, <1>9, <1>10 DEF Holds, m

LEMMA ShellInitially == Init => ShellInv
<1> SUFFICES ASSUME Init PROVE ShellInv
  OBVIOUS
<1>1. buffer \in Buffer
  BY DEF Init, Buffer, Chars
<1>2. DOMAIN command = 0 .. Size - 1 /\ DOMAIN args = 0 .. Size - 1
  BY Sizes DEF Init
<1> QED BY <1>1, <1>2 DEF ShellInv, Init

LEMMA ShellStep ==
  ASSUME ShellInv, [Next]_vars
  PROVE  ShellInv'
<1>1. CASE \E typed \in Keys : Readline(typed)
  <2>1. PICK typed \in Keys : Readline(typed)
    BY <1>1
  <2>2. buffer' \in Buffer /\ Holds(buffer', Seen(typed))
    BY <2>1, ReadlineHolds DEF ShellInv
  <2> QED BY <2>1, <2>2 DEF ShellInv, Readline
<1>2. CASE Parse
  <2>1. Holds(buffer, Seen(keys)) /\ DOMAIN command = 0 .. Size - 1 /\ DOMAIN args = 0 .. Size - 1
        /\ buffer \in Buffer
    BY <1>2 DEF ShellInv, Parse
  <2>2. command' = Stored(Word(Seen(keys), 1), Size)
    <3>1. command' = token(buffer, 1, Stored(<<>>, Size))
      BY <1>2, <2>1, Emptied DEF Parse
    <3> QED BY <2>1, <3>1, TokenHeld
  <2>3. args' = Stored(Word(Seen(keys), 2), Size)
    <3>1. args' = token(buffer, 2, Stored(<<>>, Size))
      BY <1>2, <2>1, Emptied DEF Parse
    <3> QED BY <2>1, <3>1, TokenHeld
  <2>4. DOMAIN command' = 0 .. Size - 1 /\ DOMAIN args' = 0 .. Size - 1
    BY <2>2, <2>3 DEF Stored
  <2>5. buffer' = buffer /\ keys' = keys /\ pc' = "act"
    BY <1>2 DEF Parse
  <2> QED BY <2>1, <2>2, <2>3, <2>4, <2>5 DEF ShellInv
<1>3. CASE Act
  BY <1>3 DEF ShellInv, Act
<1>4. CASE UNCHANGED vars
  BY <1>4 DEF ShellInv, vars
<1> QED BY <1>1, <1>2, <1>3, <1>4 DEF Next

LEMMA ShellInvariant == Spec => []ShellInv
<1>1. Init => ShellInv
  BY ShellInitially
<1>2. ShellInv /\ [Next]_vars => ShellInv'
  BY ShellStep
<1> QED BY <1>1, <1>2, PTL DEF Spec

\* readline() ends every line inside its buffer: the newline and the NUL fit also
\* after the longest line, and the NUL is there when an old newline is kept.
THEOREM ShellLineTerminated == Spec => []LineTerminated
<1>1. ShellInv => LineTerminated
  <2> SUFFICES ASSUME ShellInv, pc = "parse" PROVE \E i \in 0 .. Size - 1 : buffer[i] = NUL
    BY DEF LineTerminated
  <2>1. Holds(buffer, Seen(keys))
    BY DEF ShellInv
  <2>2. Len(Seen(keys)) \in 0 .. Size - 1 /\ Len(Seen(keys)) + 1 \in 0 .. Size - 1
    BY <2>1, Sizes DEF Holds
  <2> QED BY <2>1, <2>2 DEF Holds
<1> QED BY <1>1, ShellInvariant, PTL

\* While the shell acts, its two texts are the first two words of the line.
LEMMA WordsHeld ==
  ASSUME ShellInv, pc = "act"
  PROVE  /\ command = Stored(Word(Seen(keys), 1), Size) /\ args = Stored(Word(Seen(keys), 2), Size)
         /\ Word(Seen(keys), 1) \in Seq(Chars) /\ Len(Word(Seen(keys), 1)) < Size
         /\ Word(Seen(keys), 2) \in Seq(Chars) /\ Len(Word(Seen(keys), 2)) < Size
<1>1. Holds(buffer, Seen(keys)) /\ command = Stored(Word(Seen(keys), 1), Size) /\ args = Stored(Word(Seen(keys), 2), Size)
  BY DEF ShellInv
<1>2. Word(Seen(keys), 1) \in Seq(Chars) /\ Len(Word(Seen(keys), 1)) <= LineMax
  BY <1>1, TokenHeld
<1>3. Word(Seen(keys), 2) \in Seq(Chars) /\ Len(Word(Seen(keys), 2)) <= LineMax
  BY <1>1, TokenHeld
<1>4. \A w \in Seq(Chars) : Len(w) <= LineMax => Len(w) < Size
  BY Sizes
<1> QED BY <1>1, <1>2, <1>3, <1>4

\* token() finds in the buffer the first two words of what was typed for this line up
\* to the first key without a character, whatever earlier lines left behind its end
\* and in the buffers of the words.
THEOREM ShellWordsOfThisLine == Spec => []WordsOfThisLine
<1>1. ShellInv => WordsOfThisLine
  BY WordsHeld, TextStored DEF WordsOfThisLine
<1> QED BY <1>1, ShellInvariant, PTL

\* The comparison with EXIT and EXEC includes the terminator: the shell ends and
\* executes for these words alone, when they come before a key without a character,
\* and executes the second word of the line.
THEOREM ShellActsOnCommand == Spec => ActsOnCommand
<1> DEFINE Right ==
             Act => /\ (pc' = "exited") <=> (Word(Seen(keys), 1) = ExitWord)
                    /\ started' = IF Word(Seen(keys), 1) = ExecWord THEN Word(Seen(keys), 2) ELSE started
<1>1. ASSUME ShellInv, Act PROVE Right
  <2>1. pc = "act"
    BY <1>1 DEF Act
  <2>2. /\ command = Stored(Word(Seen(keys), 1), Size) /\ args = Stored(Word(Seen(keys), 2), Size)
        /\ Word(Seen(keys), 1) \in Seq(Chars) /\ Len(Word(Seen(keys), 1)) < Size
        /\ Word(Seen(keys), 2) \in Seq(Chars) /\ Len(Word(Seen(keys), 2)) < Size
    BY <1>1, <2>1, WordsHeld
  <2>3. ASSUME NEW word \in {ExitWord, ExecWord} PROVE Is(word) <=> Word(Seen(keys), 1) = word
    <3>1. word \in Seq(Letters) /\ Len(word) <= LineMax
      BY ShellAssumption
    <3>2. word \in Seq(Chars)
      BY <3>1, Characters
    <3>3. Len(word) < Size
      BY <3>1, Sizes
    <3> QED BY <2>2, <3>2, <3>3, CompareStored DEF Is
  <2>4. Text(args) = Word(Seen(keys), 2)
    BY <2>2, TextStored
  <2>5. pc' = "exited" <=> Is(ExitWord)
    BY <1>1 DEF Act
  <2>6. started' = IF Is(ExecWord) THEN Text(args) ELSE started
    BY <1>1 DEF Act
  <2>7. started' = IF Word(Seen(keys), 1) = ExecWord THEN Word(Seen(keys), 2) ELSE started
    BY <2>3, <2>4, <2>6
  <2> QED BY <2>3, <2>5, <2>7
<1>2. ShellInv /\ [Next]_vars => [Right]_vars
  BY <1>1
<1>3. ShellInv /\ [Next]_vars => [Act => /\ (pc' = "exited") <=> (Word(Seen(keys), 1) = ExitWord)
                                         /\ started' = IF Word(Seen(keys), 1) = ExecWord THEN Word(Seen(keys), 2)
                                                       ELSE started]_vars
  BY <1>2
<1> QED BY <1>3, ShellInvariant, PTL DEF Spec, ActsOnCommand
=============================================================================
