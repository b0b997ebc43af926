--------------------------------- MODULE Shell ---------------------------------
(***************************************************************************)
(* The loop of user/shell.c: a line from readline() (kernel/keyboard.c),   *)
(* its first two words, and what is done with them.  The buffers are those *)
(* of main_loop(): readline() finds in its buffer what earlier lines left. *)
(***************************************************************************)
EXTENDS CLib, FiniteSets

CONSTANTS
  Letters,       \* characters of words
  LineMax,       \* characters of a line (79)
  ExitWord, ExecWord

Space == " "
NL == "newline"
\* A key that has no character, such as the menu key, gives a NUL.
Keys == UNION {[1 .. n -> Letters \cup {Space, NUL}] : n \in 0 .. LineMax}
Size == LineMax + 2

ASSUME ShellAssumption ==
  /\ LineMax \in Nat /\ {NUL, NL, Space} \cap Letters = {}
  /\ \A word \in {ExitWord, ExecWord} : word \in Seq(Letters) /\ Len(word) <= LineMax

VARIABLES
  pc,            \* "read", "parse", "act" or "exited"
  running,
  buffer, command, args,
  keys,          \* what was typed for this line
  started        \* the argument of the last exec()

vars == <<pc, running, buffer, command, args, keys, started>>

Init ==
  /\ pc = "read" /\ running = TRUE
  /\ buffer \in [0 .. Size - 1 -> Letters \cup {Space, NL, NUL}]
  /\ command = buffer /\ args = buffer
  /\ keys = <<>> /\ started = <<>>

\* Mutant: the end of the line is not marked.
EndLineOpen(b, i) == [b EXCEPT ![i] = NL]

\* After i characters: a newline, unless one is there by accident, and the NUL.
EndLine(b, i) ==
  LET ended == [b EXCEPT ![i] = NL]
  IN  IF b[i] # NL THEN [ended EXCEPT ![i + 1] = NUL] ELSE [b EXCEPT ![i] = NUL]

\* readline(): a line ends with Enter or with the key after the last that fits; a NUL
\* is stored like any other character.
Readline(typed) ==
  /\ pc = "read" /\ running
  /\ buffer' = EndLine([i \in 0 .. Size - 1 |-> IF i < Len(typed) THEN typed[i + 1] ELSE buffer[i]],
                       Len(typed))
  /\ keys' = typed
  /\ pc' = "parse"
  /\ UNCHANGED <<running, command, args, started>>

\* Mutant: the newline of readline() does not end a word.
TurnNewline(st, c, i, num) ==
  LET ends == c \in {NUL, Space}
      words == IF ends /\ st.in_word THEN st.words + 1 ELSE st.words
  IN  [in_word |-> ~ends,
       start |-> IF ~ends /\ ~st.in_word THEN i ELSE st.start,
       end |-> IF ends /\ st.in_word THEN i ELSE st.end,
       words |-> words,
       stop |-> c = NUL \/ words = num]

\* One turn of the loop of token(), at character c in place i.
Turn(st, c, i, num) ==
  LET ends == c \in {NUL, NL, Space}
      words == IF ends /\ st.in_word THEN st.words + 1 ELSE st.words
  IN  [in_word |-> ~ends,
       start |-> IF ~ends /\ ~st.in_word THEN i ELSE st.start,
       end |-> IF ends /\ st.in_word THEN i ELSE st.end,
       words |-> words,
       stop |-> c \in {NUL, NL} \/ words = num]

\* token(str, num, tok): the word of that number, or nothing; sizeof(token) is
\* that of a pointer, enough to make it empty.
token(str, num, tok) ==
  LET after[k \in 0 .. strlen(str)] ==
        IF k = 0 THEN [in_word |-> FALSE, start |-> 0, end |-> 0, words |-> 0, stop |-> FALSE]
        ELSE IF after[k - 1].stop THEN after[k - 1] ELSE Turn(after[k - 1], str[k - 1], k - 1, num)
      last == after[strlen(str)]
      len == last.end - last.start
  IN  IF last.words # num THEN memset(tok, NUL, 8)
      ELSE [strncpy(tok, str, last.start, len) EXCEPT ![len] = NUL]

Parse ==
  /\ pc = "parse"
  /\ command' = token(buffer, 1, memset(command, NUL, Size))
  /\ args' = token(buffer, 2, memset(args, NUL, Size))
  /\ pc' = "act"
  /\ UNCHANGED <<running, buffer, keys, started>>

\* Mutant: leaves out the terminator, as find_file() does.
IsStart(word) == strncmp(command, Stored(word, Size), strlen(command) - 1) = 1

Is(word) == strncmp(command, Stored(word, Size), strlen(command)) = 1

\* EXIT ends the loop; EXEC forks, and the child executes the argument.
Act ==
  /\ pc = "act"
  /\ running' = ~Is(ExitWord)
  /\ started' = IF Is(ExecWord) THEN Text(args) ELSE started
  /\ pc' = IF Is(ExitWord) THEN "exited" ELSE "read"
  /\ UNCHANGED <<buffer, command, args, keys>>

Next == (\E typed \in Keys : Readline(typed)) \/ Parse \/ Act

Spec == Init /\ [][Next]_vars

-----------------------------------------------------------------------------
\* Properties

\* readline() ends the line inside the buffer of 81 bytes, also when the line is
\* as long as it can be and when an old newline is found there.
LineTerminated == pc = "parse" => \E i \in 0 .. Size - 1 : buffer[i] = NUL

Starts(line) == {i \in DOMAIN line : line[i] # Space /\ (i = 1 \/ line[i - 1] = Space)}

Word(line, num) ==
  LET starts == {i \in Starts(line) : Cardinality({j \in Starts(line) : j <= i}) = num}
  IN  IF starts = {} THEN <<>>
      ELSE LET i == Min(starts)
               e == Max({j \in i .. Len(line) : \A k \in i .. j : line[k] # Space})
           IN  SubSeq(line, i, e)

\* What the shell sees of a line: the keys before the first that has no character.
Seen(line) ==
  LET nuls == {i \in DOMAIN line : line[i] = NUL}
  IN  IF nuls = {} THEN line ELSE SubSeq(line, 1, Min(nuls) - 1)

\* The command and its argument are the first two words of what was typed for this
\* line, up to the first key without a character: nothing of earlier, longer lines in
\* the same buffers shows, and nothing that was typed behind such a key.
WordsOfThisLine ==
  pc = "act" => Text(command) = Word(Seen(keys), 1) /\ Text(args) = Word(Seen(keys), 2)

\* The shell ends with a line whose first word is EXIT and with no other, and
\* executes the second word of a line whose first is EXEC: a word that only starts
\* like a command, or goes on after one, is none.  A command behind a key without a
\* character is not acted on; one that such a key ends, is.
ActsOnCommand ==
  [][Act =>
       /\ (pc' = "exited") <=> (Word(Seen(keys), 1) = ExitWord)
       /\ started' = IF Word(Seen(keys), 1) = ExecWord THEN Word(Seen(keys), 2) ELSE started]_vars
=============================================================================
