--------------------------------- MODULE CLib ---------------------------------
(***************************************************************************)
(* The functions of lib/string.c and lib/stdlib.c that the kernel and the  *)
(* shell use.  An array is a function on 0 .. n - 1, as in C; a string ends*)
(* with NUL, which is in the array.  strncmp() returns 1 for equal.        *)
(***************************************************************************)
EXTENDS Integers, Sequences, FiniteSetsExt

NUL == "0"

\* while (str[len++]); counts the terminator.
strlen(s) == Min({i \in DOMAIN s : s[i] = NUL}) + 1

\* The loop ends at the first i where a string ends or the two differ.
strncmp(s, t, n) ==
  LET stops == {i \in DOMAIN s \cap DOMAIN t \cap 0 .. n - 1 :
                  s[i] = NUL \/ t[i] = NUL \/ s[i] # t[i]}
  IN  IF stops = {} \/ (s[Min(stops)] = NUL /\ t[Min(stops)] = NUL) THEN 1 ELSE 0

\* strncpy(dest, src + at, n): what follows the end of src is NUL.
strncpy(dest, src, at, n) ==
  [i \in DOMAIN dest |->
     IF i >= n THEN dest[i]
     ELSE IF \E j \in 0 .. i : src[at + j] = NUL THEN NUL ELSE src[at + i]]

memset(dest, c, n) == [i \in DOMAIN dest |-> IF i < n THEN c ELSE dest[i]]

\* The characters before the terminator, and an array that holds them.
Text(s) == [k \in 1 .. Min({i \in DOMAIN s : s[i] = NUL}) |-> s[k - 1]]
Stored(text, size) == [i \in 0 .. size - 1 |-> IF i < Len(text) THEN text[i + 1] ELSE NUL]
=============================================================================
