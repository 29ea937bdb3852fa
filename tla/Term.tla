-------------------------------- MODULE Term --------------------------------
(***************************************************************************)
(* The terminals of the kernel (src/gluKe/drivers/term.c): their table, the *)
(* input line a keyboard interrupt fills and a task reads, and the output   *)
(* position.                                                               *)
(*                                                                         *)
(* The keyboard handler runs whenever interrupts are on, so between any two *)
(* steps of a task that reads.  term_read holds interrupts off only while   *)
(* it looks for the end of the line: taking the line out of the buffer is a *)
(* copy, a move and a subtraction, each a step of its own here, and the     *)
(* echo of the line goes symbol by symbol.  Work done between one() and     *)
(* all() is one step, and so is an ioctl, whose few assignments no key can  *)
(* tell apart.                                                              *)
(***************************************************************************)
EXTENDS Integers, Sequences, SequencesExt

CONSTANTS NofTerms,    \* MAX_NOF_TERMS
          InputSize,   \* TERM_INPUT_BSIZE
          Columns,     \* VIDMEM_COLUMNS
          Rows,        \* VIDMEM_LINES
          Shell,       \* the work task, which reads the kernel's terminal
          Programs,    \* the tasks that open a terminal of their own
          Users,       \* the tasks that use the terminal they have open
          Newline, Backspace, Carriage, Nul, Plain, \* what input and output are made of
          Keys,        \* the keys that are pressed
          EraseRead,   \* does the user erase what a task may be reading?
          Texts,       \* what tasks write
          Ioctls,      \* the ioctls they use
          Sizes        \* the sizes of the buffers they read into

Terms == 0 .. NofTerms - 1
Tasks == Programs \cup {Shell}
Symbols == {Newline, Backspace, Carriage, Nul, Plain}
Typable == {Newline, Backspace, Plain}  \* what the maps of scan codes give
NoTerm == -1
Commands == {"CLEAR_INPUT", "READ_BLOCK", "READ_NOBLOCK", "READ_LINE", "READ_RAW",
             "OMODE_TEXT", "OMODE_PIXEL", "SHOW_ON", "SHOW_OFF", "SHOW",
             "MODE_TERMINAL", "MODE_PICTURE"}

ASSUME TermAssumption ==
  /\ NofTerms \in Nat \ {0} /\ InputSize \in Nat \ {0}
  /\ Columns \in Nat \ {0} /\ Rows \in Nat \ {0}
  /\ Shell \notin Programs
  /\ Users \subseteq Tasks
  /\ Newline # Backspace /\ Newline # Plain /\ Backspace # Plain
  /\ Carriage \notin Typable /\ Nul \notin Typable \cup {Carriage}
  /\ Keys \subseteq Typable
  /\ Ioctls \subseteq Commands
  /\ EraseRead \in BOOLEAN
  /\ Texts \subseteq Seq(Symbols)
  /\ Sizes \subseteq Nat \ {0}

VARIABLES terms,   \* the table of struct term_data
          active,  \* active_term_index
          file,    \* the terminal each task has open (fl->idata)
          pc,      \* where in term_read a task is
          size,    \* its argument bytes
          got,     \* bytes (raw mode) or i (line mode) of term_read
          buf,     \* what it has copied to its caller, and not echoed yet
          died,    \* has the kernel died?
          overrun, \* has it written past an array on its stack?
          typed,   \* history: the symbols typed and not read yet
          fresh    \* history: has nothing been read since the input was cleared?

fate == <<died, overrun>>
vars == <<terms, active, file, pc, size, got, buf, fate, typed, fresh>>
readVars == <<pc, size, got, buf>>
history == <<typed, fresh>>

(***************************************************************************)
(* append_to_buffer: the output position after a symbol, in characters.  A *)
(* position past the screen scrolls it by one line.                        *)
(***************************************************************************)
Screen == Columns * Rows

\* Faulty variant: a backspace at the top left goes before the screen.
AdvanceBelowZero(pos, s) == CASE s = Newline   -> (pos + Columns) - (pos % Columns)
                              [] s = Carriage  -> pos - (pos % Columns)
                              [] s = Backspace -> pos - 1
                              [] OTHER         -> pos + 1

Advance(pos, s) == CASE s = Newline   -> (pos + Columns) - (pos % Columns)
                     [] s = Carriage  -> pos - (pos % Columns)
                     [] s = Backspace -> IF pos > 0 THEN pos - 1 ELSE 0
                     [] OTHER         -> pos + 1

\* Faulty variant: scrolls one symbol too late.
PastScreenLate(pos) == pos > Screen

PastScreen(pos) == pos >= Screen

Scroll(pos) == IF PastScreen(pos) THEN pos - Columns ELSE pos

Append1(pos, s) == Scroll(Advance(pos, s))

Output(pos, text) == FoldLeft(Append1, pos, text)

(***************************************************************************)
(* st_show_no_check copies the output to an array as large as the screen   *)
(* and appends the input to it.  The count td->iend is passed as an        *)
(* unsigned number: were it negative the copy would run through all the    *)
(* memory, to a page fault and die().  And when a key comes in the middle  *)
(* of an echo, td->osize may be past the screen: there newlines and        *)
(* scrolls leave it, and the first plain symbol is written.  What happens  *)
(* after either is not modelled.                                           *)
(***************************************************************************)
Alive == ~died /\ ~overrun

ShowKills(td) == ~td.pixel /\ td.iend < 0
ShowOverruns(td) == /\ ~td.pixel /\ td.osize >= Screen
                    /\ \E i \in 0 .. td.iend - 1 : td.input[i] # Newline

\* st_show does nothing while the terminal's show flag is off.
Show(td) == /\ died' = (died \/ (td.show /\ ShowKills(td)))
            /\ overrun' = (overrun \/ (td.show /\ ShowOverruns(td)))
ShowNoCheck(td) == /\ died' = (died \/ ShowKills(td))
                   /\ overrun' = (overrun \/ ShowOverruns(td))
ShowIfActive(k, td) == IF k = active THEN Show(td) ELSE UNCHANGED fate

(***************************************************************************)
(* The table of terminals.                                                 *)
(***************************************************************************)
Cleared(td) == [td EXCEPT !.osize = 0, !.iend = 0]

NewTerm == [used |-> FALSE, iend |-> 0, input |-> [i \in 0 .. InputSize - 1 |-> Plain],
            osize |-> 0, pixel |-> FALSE, show |-> FALSE,
            block |-> FALSE, line |-> FALSE]

\* term_open leaves read_line as the terminal's last user set it.
Opened(td) == [Cleared(td) EXCEPT !.used = TRUE, !.block = TRUE,
                                  !.pixel = FALSE, !.show = TRUE]

IsFirst(k, S) == k \in S /\ \A j \in S : k <= j
Unused == {k \in Terms : ~terms[k].used}

\* The kernel has opened its terminal, and the shell uses it.
Init == /\ terms = [k \in Terms |-> IF k = 0 THEN Opened(NewTerm) ELSE NewTerm]
        /\ active = 0
        /\ file = [t \in Tasks |-> IF t = Shell THEN 0 ELSE NoTerm]
        /\ pc = [t \in Tasks |-> "idle"]
        /\ size = [t \in Tasks |-> 0]
        /\ got = [t \in Tasks |-> 0]
        /\ buf = [t \in Tasks |-> <<>>]
        /\ died = FALSE /\ overrun = FALSE
        /\ typed = [k \in Terms |-> <<>>]
        /\ fresh = [k \in Terms |-> TRUE]

HasTerm(t) == Alive /\ pc[t] = "idle" /\ file[t] # NoTerm

Forget(k) == /\ typed' = [typed EXCEPT ![k] = <<>>]
             /\ fresh' = [fresh EXCEPT ![k] = TRUE]

TermOpen(t) ==
  /\ Alive
  /\ file[t] = NoTerm
  /\ \E k \in Terms : /\ IsFirst(k, Unused)
                      /\ terms' = [terms EXCEPT ![k] = Opened(@)]
                      /\ file' = [file EXCEPT ![t] = k]
                      /\ active' = IF active < 0 THEN k ELSE active
                      /\ Forget(k)
  /\ UNCHANGED <<readVars, fate>>

(***************************************************************************)
(* switch_to_term, and term_close, which goes to the first terminal in use *)
(* whichever one was active.  A killed task's terminal is closed wherever  *)
(* in term_read the task is.                                               *)
(***************************************************************************)
SwitchToTerm(index, table) ==
  IF index \in Terms /\ table[index].used
    THEN active' = index /\ Show(table[index])
    ELSE UNCHANGED <<active, fate>>

UsedIn(table) == {k \in Terms : table[k].used}

\* Back to the caller; the locals of term_read are gone.
Return(t) == /\ pc' = [pc EXCEPT ![t] = "idle"]
             /\ size' = [size EXCEPT ![t] = 0]
             /\ got' = [got EXCEPT ![t] = 0]
             /\ buf' = [buf EXCEPT ![t] = <<>>]

\* Faulty variant: the keyboard stays with the closed terminal.
TermCloseStays(t) ==
  /\ Alive
  /\ file[t] # NoTerm
  /\ terms' = [terms EXCEPT ![file[t]].used = FALSE]
  /\ file' = [file EXCEPT ![t] = NoTerm]
  /\ Return(t)
  /\ UNCHANGED <<active, fate, history>>

TermClose(t) ==
  LET table == [terms EXCEPT ![file[t]].used = FALSE]
  IN  /\ Alive
      /\ file[t] # NoTerm
      /\ terms' = table
      /\ \/ \E k \in Terms : IsFirst(k, UsedIn(table)) /\ SwitchToTerm(k, table)
         \/ UsedIn(table) = {} /\ UNCHANGED <<active, fate>>
      /\ file' = [file EXCEPT ![t] = NoTerm]
      /\ Return(t)
      /\ UNCHANGED history

(***************************************************************************)
(* term_ioctl.  Five commands clear the input, and two show the terminal    *)
(* whatever its show flag says.                                            *)
(***************************************************************************)
Set(t, td) == terms' = [terms EXCEPT ![file[t]] = td]

Clearing == {"CLEAR_INPUT", "OMODE_TEXT", "OMODE_PIXEL", "MODE_TERMINAL", "MODE_PICTURE"}
Showing == {"SHOW", "MODE_TERMINAL", "MODE_PICTURE"}

Commanded(td, cmd) ==
  CASE cmd = "CLEAR_INPUT"   -> [td EXCEPT !.iend = 0]
    [] cmd = "READ_BLOCK"    -> [td EXCEPT !.block = TRUE]
    [] cmd = "READ_NOBLOCK"  -> [td EXCEPT !.block = FALSE]
    [] cmd = "READ_LINE"     -> [td EXCEPT !.line = TRUE]
    [] cmd = "READ_RAW"      -> [td EXCEPT !.line = FALSE]
    [] cmd = "OMODE_TEXT"    -> [Cleared(td) EXCEPT !.pixel = FALSE]
    [] cmd = "OMODE_PIXEL"   -> [Cleared(td) EXCEPT !.pixel = TRUE]
    [] cmd = "SHOW_ON"       -> [td EXCEPT !.show = TRUE]
    [] cmd = "SHOW_OFF"      -> [td EXCEPT !.show = FALSE]
    [] cmd = "SHOW"          -> td
    [] cmd = "MODE_TERMINAL" -> [Cleared(td) EXCEPT !.pixel = FALSE, !.show = TRUE,
                                                    !.block = TRUE, !.line = TRUE]
    [] cmd = "MODE_PICTURE"  -> [Cleared(td) EXCEPT !.pixel = TRUE, !.show = FALSE,
                                                    !.block = FALSE, !.line = FALSE]

TermIoctl(t, cmd) ==
  LET td == Commanded(terms[file[t]], cmd)
  IN  /\ HasTerm(t)
      /\ Set(t, td)
      /\ IF cmd \in Showing /\ file[t] = active THEN ShowNoCheck(td) ELSE UNCHANGED fate
      /\ IF cmd \in Clearing THEN Forget(file[t]) ELSE UNCHANGED history
      /\ UNCHANGED <<active, file, readVars>>

(***************************************************************************)
(* term_write; in pixel mode it moves nothing but the picture.             *)
(***************************************************************************)
Written(td, text) ==
  IF td.pixel THEN td ELSE [td EXCEPT !.osize = Output(@, text)]

TermWrite(t, text) ==
  LET td == Written(terms[file[t]], text)
  IN  /\ HasTerm(t)
      /\ Set(t, td)
      /\ ShowIfActive(file[t], td)
      /\ UNCHANGED <<active, file, readVars, history>>

(***************************************************************************)
(* term_read.                                                              *)
(***************************************************************************)
ReadBegin(t, n) ==
  /\ HasTerm(t)
  /\ pc' = [pc EXCEPT ![t] = IF terms[file[t]].line THEN "scan" ELSE "wait"]
  /\ size' = [size EXCEPT ![t] = n]
  /\ UNCHANGED <<terms, active, file, got, buf, fate, history>>

At(t, label) == Alive /\ pc[t] = label

\* How many bytes of the buffer make a line, the newline included.
LineEnds(td) == {i \in 1 .. td.iend : td.input[i - 1] = Newline}

Take(t, n) == /\ pc' = [pc EXCEPT ![t] = "copy"]
              /\ got' = [got EXCEPT ![t] = n]
              /\ UNCHANGED <<size, buf>>

\* Faulty variant: looks for the newline only at the end of the input.
ScanLast(t) ==
  LET td == terms[file[t]]
  IN  /\ At(t, "scan")
      /\ td.iend \in LineEnds(td)
      /\ IF td.iend > size[t] THEN Return(t) ELSE Take(t, td.iend)
      /\ UNCHANGED <<terms, active, file, fate, history>>

\* One round of the loop that looks for the end of a line; a line that does
\* not fit the caller's buffer stays where it is.
Scan(t) ==
  LET td == terms[file[t]]
  IN  /\ At(t, "scan")
      /\ \/ /\ LineEnds(td) = {}
            /\ ~td.block
            /\ Return(t)
         \/ \E i \in LineEnds(td) :
              /\ IsFirst(i, LineEnds(td))
              /\ IF i > size[t] THEN Return(t) ELSE Take(t, i)
      /\ UNCHANGED <<terms, active, file, fate, history>>

\* The raw mode: wait for all the bytes asked for, or take what is there.
Wait(t) ==
  LET td == terms[file[t]]
  IN  /\ At(t, "wait")
      /\ \/ td.iend >= size[t] /\ Take(t, size[t])
         \/ /\ td.iend < size[t]
            /\ ~td.block
            /\ IF td.iend = 0 THEN Return(t) ELSE Take(t, td.iend)
      /\ UNCHANGED <<terms, active, file, fate, history>>

\* input[i]; beyond the buffer there is some other byte of the struct.
Byte(td, i) == IF i < InputSize THEN td.input[i] ELSE Plain

\* A line gets a 0 at its end, for which no place in the buffer is kept.
Terminated(td, bytes) == IF td.line THEN Append(bytes, Nul) ELSE bytes

\* Faulty variant: copies the line after the rest of the input has moved down.
CopyMoved(t) ==
  /\ At(t, "copy")
  /\ LET td == terms[file[t]]
     IN  buf' = [buf EXCEPT ![t] =
                   Terminated(td, [i \in 1 .. got[t] |-> Byte(td, i - 1 + got[t])])]
  /\ pc' = [pc EXCEPT ![t] = "move"]
  /\ UNCHANGED <<terms, active, file, size, got, fate, history>>

Copy(t) ==
  /\ At(t, "copy")
  /\ LET td == terms[file[t]]
     IN  buf' = [buf EXCEPT ![t] =
                   Terminated(td, [i \in 1 .. got[t] |-> Byte(td, i - 1)])]
  /\ pc' = [pc EXCEPT ![t] = "move"]
  /\ UNCHANGED <<terms, active, file, size, got, fate, history>>

\* kmemcpy(td->input,td->input+i,i): as many bytes as were read move down, not
\* as many as are left.
Move(t) ==
  /\ At(t, "move")
  /\ LET k == file[t]
     IN  terms' = [terms EXCEPT ![k].input =
                     [i \in DOMAIN @ |-> IF i < got[t]
                                           THEN Byte(terms[k], i + got[t]) ELSE @[i]]]
  /\ pc' = [pc EXCEPT ![t] = "sub"]
  /\ UNCHANGED <<active, file, size, got, buf, fate, history>>

\* Faulty variant: takes off the bytes asked for, not those read.
SubSize(t) ==
  /\ At(t, "sub")
  /\ terms' = [terms EXCEPT ![file[t]].iend = @ - size[t]]
  /\ pc' = [pc EXCEPT ![t] = "echo"]
  /\ typed' = [typed EXCEPT ![file[t]] = SubSeq(@, got[t] + 1, Len(@))]
  /\ fresh' = [fresh EXCEPT ![file[t]] = FALSE]
  /\ UNCHANGED <<active, file, size, got, buf, fate>>

Sub(t) ==
  /\ At(t, "sub")
  /\ terms' = [terms EXCEPT ![file[t]].iend = @ - got[t]]
  /\ pc' = [pc EXCEPT ![t] = "echo"]
  /\ typed' = [typed EXCEPT ![file[t]] = SubSeq(@, got[t] + 1, Len(@))]
  /\ fresh' = [fresh EXCEPT ![file[t]] = FALSE]
  /\ UNCHANGED <<active, file, size, got, buf, fate>>

(***************************************************************************)
(* st_add_to_output, with the line just read and interrupts on.  Nothing   *)
(* is echoed symbol by symbol in pixel mode.                               *)
(***************************************************************************)
Echoing(t) == At(t, "echo") /\ got[t] > 0 /\ ~terms[file[t]].pixel

\* One symbol; past the screen, the output is to be scrolled.
EchoSymbol(t) ==
  LET pos == Advance(terms[file[t]].osize, Head(buf[t]))
  IN  /\ Echoing(t)
      /\ terms' = [terms EXCEPT ![file[t]].osize = pos]
      /\ pc' = [pc EXCEPT ![t] = IF PastScreen(pos) THEN "scroll" ELSE "echo"]
      /\ got' = [got EXCEPT ![t] = @ - 1]
      /\ buf' = [buf EXCEPT ![t] = Tail(@)]
      /\ UNCHANGED <<active, file, size, fate, history>>

\* The scroll copies the whole screen before it moves the position back.
EchoScroll(t) ==
  /\ At(t, "scroll")
  /\ terms' = [terms EXCEPT ![file[t]].osize = @ - Columns]
  /\ pc' = [pc EXCEPT ![t] = "echo"]
  /\ UNCHANGED <<active, file, size, got, buf, fate, history>>

\* The echo is shown if the terminal was active when that was tested.
EchoTest(t) ==
  /\ At(t, "echo") /\ ~Echoing(t)
  /\ IF file[t] = active
       THEN pc' = [pc EXCEPT ![t] = "show"] /\ UNCHANGED <<size, got, buf>>
       ELSE Return(t)
  /\ UNCHANGED <<terms, active, file, fate, history>>

EchoShow(t) ==
  /\ At(t, "show")
  /\ Show(terms[file[t]])
  /\ Return(t)
  /\ UNCHANGED <<terms, active, file, history>>

(***************************************************************************)
(* The keyboard interrupt: key_pressed, and switch_to_term for CTRL+Fx.    *)
(* The last place of the buffer is kept for a newline.  Backspace erases   *)
(* whatever symbol is last, also the Enter of a line, or a symbol of a raw *)
(* read, that a task is taking out of the buffer; without EraseRead the    *)
(* user erases only in a line begun after the input was cleared.           *)
(***************************************************************************)
\* Faulty variant: no place is kept for the newline.
AcceptsToTheEnd(td, s) == IF s = Backspace THEN td.iend > 0 ELSE td.iend < InputSize

\* Faulty variant: the end of the buffer is not checked.
AcceptsAll(td, s) == s = Backspace => td.iend > 0

Accepts(td, s) ==
  IF s = Backspace THEN td.iend > 0
  ELSE td.iend < InputSize /\ (td.iend = InputSize - 1 => s = Newline)

\* A byte written before the buffer lands in the show flag, which is not 0 after.
Typed(td, s) ==
  IF s = Backspace THEN [td EXCEPT !.iend = @ - 1]
  ELSE IF td.iend < 0 THEN [td EXCEPT !.iend = @ + 1, !.show = TRUE]
  ELSE [td EXCEPT !.input[td.iend] = s, !.iend = @ + 1]

KeyPressed(s) ==
  /\ Alive
  /\ active >= 0
  /\ Accepts(terms[active], s)
  /\ s = Backspace /\ ~EraseRead =>
       terms[active].line /\ fresh[active] /\ Last(typed[active]) # Newline
  /\ LET td == Typed(terms[active], s)
     IN  terms' = [terms EXCEPT ![active] = td] /\ Show(td)
  /\ typed' = [typed EXCEPT ![active] = IF s = Backspace THEN Front(@) ELSE Append(@, s)]
  /\ UNCHANGED <<active, file, readVars, fresh>>

KeySwitch(index) ==
  /\ Alive
  /\ SwitchToTerm(index, terms)
  /\ UNCHANGED <<terms, file, readVars, history>>

ReadStep(t) == \/ Scan(t) \/ Wait(t) \/ Copy(t) \/ Move(t) \/ Sub(t)
               \/ EchoSymbol(t) \/ EchoScroll(t) \/ EchoTest(t) \/ EchoShow(t)

\* The kernel is dead, or about to run with what it overwrote.
Ended == ~Alive /\ UNCHANGED vars

Next ==
  \/ \E t \in Programs : TermOpen(t) \/ TermClose(t)
  \/ \E t \in Users, cmd \in Ioctls : TermIoctl(t, cmd)
  \/ \E t \in Users, text \in Texts : TermWrite(t, text)
  \/ \E t \in Users, n \in Sizes : ReadBegin(t, n)
  \/ \E t \in Users : ReadStep(t)
  \/ \E s \in Keys : KeyPressed(s)
  \/ \E k \in Terms : KeySwitch(k)
  \/ Ended

Spec == Init /\ [][Next]_vars

\* A task that runs gets on with its read; nothing is assumed of the user.
FairSpec == Spec /\ \A t \in Users : WF_vars(ReadStep(t))
-----------------------------------------------------------------------------
\* The types of the variables.
TypeOK ==
  /\ \A k \in Terms : /\ terms[k].iend \in Int
                      /\ terms[k].input \in [0 .. InputSize - 1 -> Symbols]
                      /\ terms[k].osize \in Nat
                      /\ terms[k].used \in BOOLEAN
  /\ active \in Terms
  /\ file \in [Tasks -> Terms \cup {NoTerm}]
  /\ \A t \in Tasks : pc[t] \in {"idle", "scan", "wait", "copy", "move", "sub",
                                "echo", "scroll", "show"}
  /\ died \in BOOLEAN /\ overrun \in BOOLEAN

\* The input count stays within the buffer: the keys that come while a line is
\* being taken out of it never make it negative or too large.
InputBounds == \A k \in Terms : terms[k].iend \in 0 .. InputSize

\* The next symbol of output is written on the screen, after any mixture of
\* newlines, backspaces and echoed lines, except that a task which scrolls its
\* echo is past the screen until it is done.  Showing a terminal then, and at no
\* other time, writes past the array that the output is copied to.
OutputInside ==
  /\ \A k \in UsedIn(terms) : terms[k].osize < Screen \/ \E t \in Tasks : file[t] = k /\ pc[t] = "scroll"
  /\ overrun => \E t \in Tasks : file[t] = active /\ pc[t] = "scroll"

\* Keys go to a terminal that a task has open, and no terminal is open twice:
\* closing one, also by killing its task in the middle of a read, moves the
\* keyboard to another that is in use.
ActiveOpen ==
  /\ \E t \in Tasks : file[t] = active
  /\ \A t, u \in Tasks : t # u /\ file[t] # NoTerm => file[t] # file[u]

\* The first line read after the input was cleared is what the user typed, to
\* the last symbol, whatever was typed while it was being copied and moved.
LineIntact ==
  \A t \in Tasks : pc[t] \in {"move", "sub"} /\ fresh[file[t]] =>
                     IsPrefix(SubSeq(buf[t], 1, got[t]), typed[file[t]])

\* Typing never kills the kernel.
NeverDies == ~died

\* A terminal never fills up without a newline in it, which would leave its
\* reader waiting for a key that the handler refuses.
RoomForEnter ==
  \A k \in UsedIn(terms) :
    (\A t \in Tasks : file[t] = k => pc[t] \notin {"copy", "move", "sub"}) =>
      LineEnds(terms[k]) # {} \/ Accepts(terms[k], Newline)

\* A read in line mode returns once the line is complete, whatever is typed
\* after the newline, unless what was typed overruns the array of the screen (OutputInside).
LineReadReturns ==
  \A t \in Tasks : (pc[t] = "scan" /\ LineEnds(terms[file[t]]) # {}) ~> (pc[t] = "idle" \/ overrun)
=============================================================================
