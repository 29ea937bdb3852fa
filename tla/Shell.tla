------------------------------- MODULE Shell -------------------------------
(***************************************************************************)
(* The loop of the shell (src/gluKe/ktasks/work.c): a line is read, mtok   *)
(* (src/mylib/mtok.c) takes three words out of it, and the first one says  *)
(* what is done with the second: start looks it up among the programs,     *)
(* kill converts it with stoi (src/gluKe/utils.c) to the id of a task.     *)
(*                                                                         *)
(* A symbol is a string of one letter.  The words of a line are copied to  *)
(* buffers of MAX_NAME_LENGTH bytes; all calls of mtok share the variable  *)
(* that tells the size and, for a word too long, returns the size needed.  *)
(* Between the line and the command other tasks run, and may end.          *)
(***************************************************************************)
EXTENDS Integers, SequencesExt, FiniteSetsExt

CONSTANTS Lines,           \* the lines the user may enter
          Separators,      \* the symbols of the string " \r\n"
          Names,           \* the names of ktask_infos
          MAX_NAME_LENGTH,
          Width,           \* bits of an int
          MaxId            \* bound on task ids

First == 1    \* the boot code
Work == 4     \* the shell
SystemTasks == 1 .. 4

ASSUME ShellAssumption ==
  /\ Lines \subseteq Seq(STRING)
  /\ MAX_NAME_LENGTH \in Nat /\ MAX_NAME_LENGTH >= 2
  /\ Width \in Nat \ {0}
  /\ MaxId \in Nat /\ MaxId >= Work

VARIABLES pc,         \* the next step of the loop: "read" or "command"
          line,       \* buf
          words,
          word_size,
          written,    \* history: the bytes the words took, at most, of a buffer
          tasks       \* the ids in the list of tasks

vars == <<pc, line, words, word_size, written, tasks>>

-----------------------------------------------------------------------------
(***************************************************************************)
(* Words.  mtok skips separators from cur_pos on and takes the symbols up  *)
(* to the next one.  Those that do not fit are counted only.  The single   *)
(* symbol tokens of usep have no caller.                                   *)
(***************************************************************************)
Mtok(l, cur_pos, buf_size) ==
  LET Letters == {i \in cur_pos .. Len(l) : l[i] \notin Separators}
      begin   == Min(Letters)
      end     == Min({i \in begin .. Len(l) : l[i] \in Separators}
                     \cup {Len(l) + 1})
      size    == end - begin
  IN  CASE Letters = {} ->
             [ret |-> "end", cur_pos |-> cur_pos, size |-> buf_size,
              written |-> 0, word |-> <<>>]
        [] Letters # {} /\ size < buf_size ->
             [ret |-> "success", cur_pos |-> end, size |-> buf_size,
              written |-> size + 1, word |-> SubSeq(l, begin, end - 1)]
        [] OTHER ->
             [ret |-> "too small", cur_pos |-> end, size |-> size + 1,
              written |-> buf_size - 1, word |-> <<>>]

\* Faulty variant: only the word is reset.
NextWordKeepsSize(l, cur_pos, size) == Mtok(l, cur_pos, size)

\* A call of mtok by the shell, and what it resets when there is no word.
NextWord(l, cur_pos, size) ==
  LET w == Mtok(l, cur_pos, size)
  IN  IF w.ret = "success" THEN w
      ELSE [w EXCEPT !.word = <<>>, !.size = MAX_NAME_LENGTH]

-----------------------------------------------------------------------------
(***************************************************************************)
(* Numbers.                                                                *)
(***************************************************************************)
Upper == <<"0", "1", "2", "3", "4", "5", "6", "7", "8", "9",
           "A", "B", "C", "D", "E", "F">>
Lower == <<"0", "1", "2", "3", "4", "5", "6", "7", "8", "9",
           "a", "b", "c", "d", "e", "f">>

\* The digit a symbol stands for: 16, no digit of any base, for other symbols.
Digit(c) == IF \E d \in 1 .. 16 : c \in {Upper[d], Lower[d]}
              THEN CHOOSE d \in 0 .. 15 : c \in {Upper[d + 1], Lower[d + 1]}
              ELSE 16

Prefixed(s) == Len(s) > 2 /\ s[1] = "0" /\ s[2] \in {"x", "X"}

\* Faulty variant: a leading 0 alone does not make a number octal.
RadixNoOctal(s) == IF Prefixed(s) THEN [base |-> 16, first |-> 3]
                                  ELSE [base |-> 10, first |-> 1]

\* The base of a number and the place of its first digit.
Radix(s) ==
  CASE Prefixed(s) -> [base |-> 16, first |-> 3]
    [] Len(s) > 1 /\ s[1] = "0" /\ ~Prefixed(s) -> [base |-> 8, first |-> 2]
    [] OTHER -> [base |-> 10, first |-> 1]

IsNumber(s) == /\ s # <<>>
               /\ \A i \in Radix(s).first .. Len(s) : Digit(s[i]) < Radix(s).base

\* stoi, of a number.  Of one with more bits than an int it keeps the lowest.
Stoi(s) == FoldLeft(LAMBDA v, c : (v * Radix(s).base + Digit(c)) % 2 ^ Width,
                    0, SubSeq(s, Radix(s).first, Len(s)))

\* Faulty variant: the digits are left in the order they were computed in.
DecimalReversed(x) ==
  LET digits[n \in Nat] ==
        IF n < 10 THEN <<Upper[n + 1]>>
                  ELSE <<Upper[(n % 10) + 1]>> \o digits[n \div 10]
  IN  digits[x]

Decimal(x) ==
  LET digits[n \in Nat] ==
        IF n < 10 THEN <<Upper[n + 1]>>
                  ELSE digits[n \div 10] \o <<Upper[(n % 10) + 1]>>
  IN  digits[x]

\* itos_ud: itos takes x for a signed number, and prints its distance from 0.
ItosUd(x) == Decimal(IF x < 2 ^ (Width - 1) THEN x ELSE 2 ^ Width - x)

-----------------------------------------------------------------------------
Init == /\ pc = "read"
        /\ line = <<>>
        /\ words = <<<<>>, <<>>, <<>>>>
        /\ word_size = MAX_NAME_LENGTH
        /\ written = 0
        /\ tasks = SystemTasks

\* read_line, and the three words.
Read(l) ==
  LET w1 == NextWord(l, 1, word_size)
      w2 == NextWord(l, w1.cur_pos, w1.size)
      w3 == NextWord(l, w2.cur_pos, w2.size)
  IN  /\ pc = "read"
      /\ pc' = "command"
      /\ line' = l
      /\ words' = <<w1.word, w2.word, w3.word>>
      /\ word_size' = w3.size
      /\ written' = Max({written, w1.written, w2.written, w3.written})
      /\ UNCHANGED tasks

StartWords == {<<"s">>, <<"s", "t", "a", "r", "t">>}
KillWords == {<<"k">>, <<"k", "i", "l", "l">>}

IsStart == words[1] \in StartWords
IsKill == words[1] \in KillWords

Done == pc' = "read" /\ UNCHANGED <<line, words, word_size, written>>

\* start_ktask: task_newk gives the new task the id after the largest.
StartKtask ==
  /\ pc = "command"
  /\ IsStart
  /\ words[2] \in Names
  /\ Max(tasks) < MaxId
  /\ tasks' = tasks \cup {Max(tasks) + 1}
  /\ Done

\* What kill_task and task_kill refuse.
Refused(id) == id \in {First, Work} \/ id \notin tasks

\* kill_task.
KillTask ==
  /\ pc = "command"
  /\ IsKill
  /\ IsNumber(words[2])
  /\ ~Refused(Stoi(words[2]))
  /\ tasks' = tasks \ {Stoi(words[2])}
  /\ Done

\* The commands that only print, and those that fail.
Other ==
  /\ pc = "command"
  /\ \/ ~IsStart /\ ~IsKill
     \/ IsStart       \* no such program, or task_newk failed
     \/ IsKill /\ (IsNumber(words[2]) => Refused(Stoi(words[2])))
  /\ UNCHANGED tasks
  /\ Done

\* A program ends, at any moment.
TaskEnds(t) ==
  /\ t \in tasks \ SystemTasks
  /\ tasks' = tasks \ {t}
  /\ UNCHANGED <<pc, line, words, word_size, written>>

Next == \/ \E l \in Lines : Read(l)
        \/ StartKtask \/ KillTask \/ Other
        \/ \E t \in tasks : TaskEnds(t)

Spec == Init /\ [][Next]_vars
-----------------------------------------------------------------------------
\* No word is written past its buffer, whatever the user enters: the size that
\* mtok returns for a word too long is not used for the next one.
WordsFit == written <= MAX_NAME_LENGTH

\* The n-th word of a line, as one would point at it: the n-th of its longest
\* parts without a separator.
Parts(l) == {p \in (1 .. Len(l)) \X (1 .. Len(l)) :
               /\ p[1] <= p[2]
               /\ \A i \in p[1] .. p[2] : l[i] \notin Separators
               /\ p[1] = 1 \/ l[p[1] - 1] \in Separators
               /\ p[2] = Len(l) \/ l[p[2] + 1] \in Separators}

WordOf(l, n) ==
  {SubSeq(l, p[1], p[2]) : p \in {p \in Parts(l) :
     /\ Cardinality({q \in Parts(l) : q[1] <= p[1]}) = n
     /\ p[2] - p[1] + 1 < MAX_NAME_LENGTH}}

SaysKill(l) == WordOf(l, 1) \cap KillWords # {}

\* The number that digits write in base b, the first one first: none, if one of
\* them is no digit of that base.
Written(digits, b) ==
  LET power[k \in Nat] == IF k = 0 THEN 1 ELSE b * power[k - 1]
      Weight(i) == Digit(digits[i]) * power[Len(digits) - i]
  IN  {n \in {MapThenSumSet(Weight, 1 .. Len(digits))} :
         \A i \in 1 .. Len(digits) : Digit(digits[i]) < b}

\* The number that a word means, if it means one.
Meaning(w) ==
  CASE Prefixed(w) -> Written(SubSeq(w, 3, Len(w)), 16)
    [] Len(w) > 1 /\ w[1] = "0" /\ ~Prefixed(w) -> Written(Tail(w), 8)
    [] OTHER -> Written(w, 10)

\* The tasks that the second word of a line means.
Named(l) == UNION {Meaning(w) : w \in WordOf(l, 2)}

\* Its number is no larger than an int can be.
FitsInt(l) == \A n \in Named(l) : n < 2 ^ Width

\* A command removes a task exactly if the line says so: its first word is kill,
\* its second the id of the task in decimal, octal or hexadecimal digits.  No word
\* of an earlier line counts, nor one that did not fit.  So it is as long as the
\* number has no more bits than an int.  Of a larger one stoi keeps the lowest bits,
\* and kill ends a task that the line does not name.
KillsTheNamed ==
  [][pc = "command" /\ pc' = "read" /\ FitsInt(line) =>
       \A t \in tasks \ {First, Work} :
         t \notin tasks' <=> SaysKill(line) /\ t \in Named(line)]_vars

\* What the list of tasks shows as the id of a task, kill takes for it, as long as
\* the ids are positive as int.
KillsTheListed ==
  [][pc = "command" /\ pc' = "read" =>
       \A t \in tasks \ {First, Work} :
         t < 2 ^ (Width - 1) /\ SaysKill(line) /\ ItosUd(t) \in WordOf(line, 2)
           => t \notin tasks']_vars
=============================================================================
