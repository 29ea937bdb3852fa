----------------------------- MODULE TermProofs -----------------------------
(***************************************************************************)
(* Proofs about Term, for any number of terminals and tasks and any size   *)
(* of the input buffer, the screen and the reads.                          *)
(*                                                                         *)
(* Terminals and tasks belong to each other one to one (Owned), whatever   *)
(* the user types.  All else is said of a task and its terminal, by        *)
(* ReaderOK: what the task has counted, copied and moved agrees with the   *)
(* input line, although keys change that at every step.  It needs that the *)
(* user erases nothing that a task may be reading, so ~EraseRead.          *)
(*                                                                         *)
(* The output position needs neither, but an induction over the text that  *)
(* Output folds, and that a position past the screen is that of a task     *)
(* with an echo to scroll (Echoers).  Induction is used for sets of numbers *)
(* in place of predicates, which is first-order.                           *)
(***************************************************************************)
EXTENDS Term, SequenceTheorems, FiniteSetTheorems, WellFoundedInduction, TLAPS

USE TermAssumption DEF NoTerm

Fields == {"used", "iend", "input", "osize", "pixel", "show", "block", "line"}
Labels == {"idle", "scan", "wait", "copy", "move", "sub", "echo", "scroll", "show"}
-----------------------------------------------------------------------------
(***************************************************************************)
(* Terminals and their owners.                                             *)
(***************************************************************************)
Placed == /\ DOMAIN terms = Terms
          /\ \A k \in Terms : DOMAIN terms[k] = Fields /\ terms[k].used \in BOOLEAN
          /\ active \in Terms
          /\ file \in [Tasks -> Terms \cup {NoTerm}]
          /\ pc \in [Tasks -> Labels]

Owned == /\ file[Shell] = 0
         /\ \A t \in Tasks : file[t] # NoTerm => terms[file[t]].used
         /\ \A k \in Terms : terms[k].used => \E t \in Tasks : file[t] = k
         /\ \A t, u \in Tasks : t # u /\ file[t] # NoTerm => file[t] # file[u]
         /\ \A t \in Tasks : pc[t] # "idle" => file[t] # NoTerm
         /\ terms[active].used

OwnedInv == Placed /\ Owned

\* What the constants are small enough for.
LEMMA Small == /\ 0 \in Terms /\ -1 \notin Terms /\ Shell \in Tasks
               /\ \A k \in Terms : k \in Int /\ k >= 0
               /\ \A t \in Users : t \in Tasks
               /\ \A t \in Programs : t \in Tasks /\ t # Shell
BY DEF Terms, Tasks

\* A command keeps a terminal in use, or not.
LEMMA CommandedKeeps ==
  ASSUME NEW td, DOMAIN td = Fields, NEW cmd \in Commands
  PROVE  /\ DOMAIN Commanded(td, cmd) = Fields
         /\ Commanded(td, cmd).used = td.used
BY DEF Commanded, Commands, Cleared, Fields

\* term_open leaves the terminal in use, with nothing typed.
LEMMA OpenedIsUsed ==
  ASSUME NEW td, DOMAIN td = Fields
  PROVE  DOMAIN Opened(td) = Fields /\ Opened(td).used = TRUE
BY DEF Opened, Cleared, Fields

\* A key leaves a terminal in use, or not.
LEMMA TypedKeeps ==
  ASSUME NEW td, DOMAIN td = Fields, NEW s
  PROVE  DOMAIN Typed(td, s) = Fields /\ Typed(td, s).used = td.used
BY DEF Typed, Fields

\* Output leaves a terminal in use, or not.
LEMMA WrittenKeeps ==
  ASSUME NEW td, DOMAIN td = Fields, NEW text
  PROVE  DOMAIN Written(td, text) = Fields /\ Written(td, text).used = td.used
BY DEF Written, Fields

\* At start every terminal is free and no task has one.
LEMMA OwnedInit == Init => OwnedInv
<1> SUFFICES ASSUME Init PROVE OwnedInv
  OBVIOUS
<1>1. DOMAIN NewTerm = Fields /\ NewTerm.used = FALSE
  BY DEF NewTerm, Fields
<1>2. DOMAIN Opened(NewTerm) = Fields /\ Opened(NewTerm).used = TRUE
  BY <1>1, OpenedIsUsed
<1>3. QED
  BY <1>1, <1>2, Small DEF Init, OwnedInv, Placed, Owned, Labels

\* A step that changes one terminal in use and leaves it in use.
LEMMA OwnedFrame ==
  ASSUME OwnedInv, NEW k \in Terms, NEW td,
         terms' = [terms EXCEPT ![k] = td], DOMAIN td = Fields, td.used = terms[k].used,
         active' = active, file' = file, pc' \in [Tasks -> Labels],
         \A t \in Tasks : pc'[t] # "idle" => file[t] # NoTerm
  PROVE  OwnedInv'
<1>1. /\ DOMAIN terms' = Terms
      /\ \A j \in Terms : DOMAIN terms'[j] = Fields /\ terms'[j].used = terms[j].used
  BY DEF OwnedInv, Placed
<1>2. Placed'
  BY <1>1 DEF OwnedInv, Placed
<1>3. Owned'
  BY <1>1, Small DEF OwnedInv, Placed, Owned
<1>4. QED
  BY <1>2, <1>3 DEF OwnedInv

\* A step that leaves the table as it is.
LEMMA OwnedSame ==
  ASSUME OwnedInv, UNCHANGED <<terms, active, file>>, pc' \in [Tasks -> Labels],
         \A t \in Tasks : pc'[t] # "idle" => file[t] # NoTerm
  PROVE  OwnedInv'
BY DEF OwnedInv, Placed, Owned

\* Where a task may be in term_read after one of its steps.
LEMMA ReadPlaces ==
  ASSUME OwnedInv, NEW t \in Tasks, file[t] # NoTerm,
         NEW l \in Labels, pc' = [pc EXCEPT ![t] = l]
  PROVE  /\ pc' \in [Tasks -> Labels]
         /\ \A u \in Tasks : pc'[u] # "idle" => file[u] # NoTerm
BY DEF OwnedInv, Placed, Owned

\* Returning from term_read leaves the task outside it, with its terminal.
LEMMA ReturnPlaces ==
  ASSUME OwnedInv, NEW t \in Tasks, Return(t)
  PROVE  /\ pc' \in [Tasks -> Labels]
         /\ \A u \in Tasks : pc'[u] # "idle" => file[u] # NoTerm
BY DEF OwnedInv, Placed, Owned, Return, Labels

\* Terminals in use and tasks stay one to one in every step.
LEMMA OwnedStep == OwnedInv /\ [Next]_vars => OwnedInv'
<1> SUFFICES ASSUME OwnedInv, [Next]_vars PROVE OwnedInv'
  OBVIOUS
<1> USE Small
<1> DEFINE Own == \A t \in Tasks : file[t] # NoTerm => file[t] \in Terms /\ DOMAIN terms[file[t]] = Fields
<1>0. Own /\ \A t \in Tasks : pc[t] # "idle" => file[t] # NoTerm
  BY DEF OwnedInv, Placed, Owned
<1> HIDE DEF Own
<1>1. ASSUME NEW t \in Programs, TermOpen(t) PROVE OwnedInv'
  <2>1. PICK k \in Terms : /\ k \in Unused
                           /\ terms' = [terms EXCEPT ![k] = Opened(@)]
                           /\ file' = [file EXCEPT ![t] = k]
                           /\ active' = active
    <3>1. ~(active < 0)
      BY DEF OwnedInv, Placed
    <3>2. PICK k \in Terms : /\ IsFirst(k, Unused)
                             /\ terms' = [terms EXCEPT ![k] = Opened(@)]
                             /\ file' = [file EXCEPT ![t] = k]
                             /\ active' = IF active < 0 THEN k ELSE active
      BY <1>1 DEF TermOpen
    <3>3. QED
      BY <3>1, <3>2 DEF IsFirst
  <2>2. ~terms[k].used /\ file[t] = NoTerm /\ pc' = pc
    BY <1>1, <2>1 DEF TermOpen, Unused, readVars
  <2>3. DOMAIN Opened(terms[k]) = Fields /\ Opened(terms[k]).used = TRUE
    BY OpenedIsUsed DEF OwnedInv, Placed
  <2>4. /\ DOMAIN terms' = Terms
        /\ DOMAIN terms'[k] = Fields /\ terms'[k].used = TRUE
        /\ \A j \in Terms \ {k} : terms'[j] = terms[j]
    BY <2>1, <2>3 DEF OwnedInv, Placed
  <2>5. Placed'
    BY <2>1, <2>2, <2>4 DEF OwnedInv, Placed
  <2>6. /\ \A u \in Tasks : file[u] # k /\ file[u] \in Terms \cup {NoTerm}
        /\ \A u \in Tasks : file'[u] = IF u = t THEN k ELSE file[u]
    BY <2>1, <2>2 DEF OwnedInv, Placed, Owned, Unused
  <2>7. Owned'
    <3>1. file'[Shell] = 0 /\ terms'[active'].used
      BY <2>1, <2>4, <2>6 DEF OwnedInv, Placed, Owned
    <3>2. \A u \in Tasks : file'[u] # NoTerm => terms'[file'[u]].used
      BY <2>4, <2>6 DEF OwnedInv, Placed, Owned
    <3>3. \A j \in Terms : terms'[j].used => \E u \in Tasks : file'[u] = j
      <4>1. file'[t] = k
        BY <2>6
      <4>2. ASSUME NEW j \in Terms \ {k}, terms[j].used PROVE \E u \in Tasks : file'[u] = j
        <5>1. PICK u \in Tasks : file[u] = j
          BY <4>2 DEF OwnedInv, Owned
        <5>2. u # t
          BY <5>1, <2>2, <4>2
        <5>3. QED
          BY <5>1, <5>2, <2>6
      <4>3. QED
        BY <4>1, <4>2, <2>4
    <3>4. \A u, v \in Tasks : u # v /\ file'[u] # NoTerm => file'[u] # file'[v]
      BY <2>6 DEF OwnedInv, Placed, Owned
    <3>5. \A u \in Tasks : pc'[u] # "idle" => file'[u] # NoTerm
      BY <2>2, <2>6 DEF OwnedInv, Placed, Owned
    <3>6. QED
      BY <3>1, <3>2, <3>3, <3>4, <3>5 DEF Owned
  <2>8. QED
    BY <2>5, <2>7 DEF OwnedInv
<1>2. ASSUME NEW t \in Programs, TermClose(t) PROVE OwnedInv'
  <2> DEFINE k == file[t]
             table == [terms EXCEPT ![k].used = FALSE]
  <2>1. k \in Terms /\ file[t] # NoTerm
    BY <1>2 DEF TermClose, OwnedInv, Placed
  <2>2. /\ DOMAIN table = Terms
        /\ DOMAIN table[k] = Fields /\ table[k].used = FALSE
        /\ \A j \in Terms \ {k} : table[j] = terms[j]
    BY <2>1 DEF OwnedInv, Placed, Fields
  <2>3. terms' = table /\ file' = [file EXCEPT ![t] = NoTerm]
    BY <1>2 DEF TermClose
  <2>4. pc' = [pc EXCEPT ![t] = "idle"]
    BY <1>2 DEF TermClose, Return
  <2>5. 0 \in UsedIn(table)
    <3>1. k # 0 /\ terms[0].used
      BY <2>1 DEF OwnedInv, Placed, Owned
    <3>2. QED
      BY <3>1, <2>2 DEF UsedIn
  <2>6. \E j \in Terms : IsFirst(j, UsedIn(table)) /\ SwitchToTerm(j, table)
    BY <1>2, <2>5 DEF TermClose
  <2>7. active' \in UsedIn(table)
    BY <2>6 DEF IsFirst, SwitchToTerm, UsedIn
  <2> HIDE DEF table
  <2>8. Placed'
    BY <2>1, <2>2, <2>3, <2>4, <2>7 DEF OwnedInv, Placed, UsedIn, Labels
  <2>9. /\ \A u \in Tasks : file'[u] = IF u = t THEN NoTerm ELSE file[u]
        /\ \A u \in Tasks : u # t /\ file[u] # NoTerm => file[u] \in Terms \ {k}
        /\ \A u \in Tasks : pc'[u] = IF u = t THEN "idle" ELSE pc[u]
    BY <2>1, <2>3, <2>4 DEF OwnedInv, Placed, Owned
  <2>10. Owned'
    <3>1. file'[Shell] = 0 /\ terms'[active'].used
      BY <2>3, <2>7, <2>9 DEF OwnedInv, Placed, Owned, UsedIn
    <3>2. \A u \in Tasks : file'[u] # NoTerm => terms'[file'[u]].used
      BY <2>2, <2>3, <2>9 DEF OwnedInv, Placed, Owned
    <3>3. \A j \in Terms : terms'[j].used => \E u \in Tasks : file'[u] = j
      <4>1. ASSUME NEW j \in Terms \ {k}, terms[j].used PROVE \E u \in Tasks : file'[u] = j
        <5>1. PICK u \in Tasks : file[u] = j
          BY <4>1 DEF OwnedInv, Owned
        <5>2. u # t
          BY <5>1, <4>1
        <5>3. QED
          BY <5>1, <5>2, <2>9
      <4>2. QED
        BY <4>1, <2>2, <2>3
    <3>4. \A u, v \in Tasks : u # v /\ file'[u] # NoTerm => file'[u] # file'[v]
      BY <2>9 DEF OwnedInv, Placed, Owned
    <3>5. \A u \in Tasks : pc'[u] # "idle" => file'[u] # NoTerm
      BY <2>9 DEF OwnedInv, Placed, Owned
    <3>6. QED
      BY <3>1, <3>2, <3>3, <3>4, <3>5 DEF Owned
  <2>11. QED
    BY <2>8, <2>10 DEF OwnedInv
<1>3. ASSUME NEW t \in Users, NEW cmd \in Ioctls, TermIoctl(t, cmd) PROVE OwnedInv'
  <2>1. file[t] # NoTerm /\ file[t] \in Terms /\ DOMAIN terms[file[t]] = Fields /\ cmd \in Commands
    BY <1>0, <1>3 DEF TermIoctl, HasTerm, Own
  <2>2. pc' = pc /\ UNCHANGED <<active, file>> /\ terms' = [terms EXCEPT ![file[t]] = Commanded(terms[file[t]], cmd)]
    BY <1>3 DEF TermIoctl, Set, readVars
  <2>3. QED
    BY <1>0, <2>1, <2>2, CommandedKeeps, OwnedFrame DEF OwnedInv, Placed
<1>4. ASSUME NEW t \in Users, NEW text \in Texts, TermWrite(t, text) PROVE OwnedInv'
  <2>1. file[t] # NoTerm /\ file[t] \in Terms /\ DOMAIN terms[file[t]] = Fields
    BY <1>0, <1>4 DEF TermWrite, HasTerm, Own
  <2>2. pc' = pc /\ UNCHANGED <<active, file>> /\ terms' = [terms EXCEPT ![file[t]] = Written(terms[file[t]], text)]
    BY <1>4 DEF TermWrite, Set, readVars
  <2>3. QED
    BY <1>0, <2>1, <2>2, WrittenKeeps, OwnedFrame DEF OwnedInv, Placed
<1>5. ASSUME NEW t \in Users, NEW n \in Sizes, ReadBegin(t, n) PROVE OwnedInv'
  <2>1. PICK l \in Labels : pc' = [pc EXCEPT ![t] = l]
    BY <1>5 DEF ReadBegin, Labels
  <2>2. QED
    BY <1>5, <2>1, ReadPlaces, OwnedSame DEF ReadBegin, HasTerm
<1>6. ASSUME NEW t \in Users, Scan(t) \/ Wait(t) \/ Copy(t) PROVE OwnedInv'
  <2>1. pc[t] # "idle" /\ UNCHANGED <<terms, active, file>>
    BY <1>6 DEF Scan, Wait, Copy, At
  <2>2. Return(t) \/ \E l \in Labels : pc' = [pc EXCEPT ![t] = l]
    BY <1>6 DEF Scan, Wait, Copy, Take, Labels
  <2>3. QED
    BY <1>0, <2>1, <2>2, ReadPlaces, ReturnPlaces, OwnedSame
<1>7. ASSUME NEW t \in Users, Move(t) \/ Sub(t) PROVE OwnedInv'
  <2> DEFINE k == file[t]
  <2>1. pc[t] # "idle" /\ UNCHANGED <<active, file>>
    BY <1>7 DEF Move, Sub, At
  <2>2. k \in Terms /\ DOMAIN terms[k] = Fields /\ file[t] # NoTerm
    BY <1>0, <2>1 DEF Own
  <2>3. PICK l \in Labels : pc' = [pc EXCEPT ![t] = l]
    BY <1>7 DEF Move, Sub, Labels
  <2>4. PICK td : terms' = [terms EXCEPT ![k] = td] /\ DOMAIN td = Fields /\ td.used = terms[k].used
    <3>1. CASE Move(t)
      <4> DEFINE td == [terms[k] EXCEPT !.input =
                          [i \in DOMAIN @ |-> IF i < got[t] THEN Byte(terms[k], i + got[t]) ELSE @[i]]]
      <4>1. terms' = [terms EXCEPT ![k] = td]
        BY <3>1 DEF Move
      <4>2. DOMAIN td = Fields /\ td.used = terms[k].used
        BY <2>2 DEF Fields
      <4>3. QED
        BY <4>1, <4>2
    <3>2. CASE Sub(t)
      <4> DEFINE td == [terms[k] EXCEPT !.iend = @ - got[t]]
      <4>1. terms' = [terms EXCEPT ![k] = td]
        BY <3>2 DEF Sub
      <4>2. DOMAIN td = Fields /\ td.used = terms[k].used
        BY <2>2 DEF Fields
      <4>3. QED
        BY <4>1, <4>2
    <3>3. QED
      BY <1>7, <3>1, <3>2
  <2>5. QED
    BY <2>1, <2>2, <2>3, <2>4, ReadPlaces, OwnedFrame
<1>8. ASSUME NEW t \in Users, EchoSymbol(t) \/ EchoScroll(t) PROVE OwnedInv'
  <2>1. pc[t] # "idle" /\ UNCHANGED <<active, file>>
    BY <1>8 DEF EchoSymbol, Echoing, EchoScroll, At
  <2>2. file[t] \in Terms /\ DOMAIN terms[file[t]] = Fields /\ file[t] # NoTerm
    BY <1>0, <2>1 DEF Own
  <2>3. PICK l \in Labels : pc' = [pc EXCEPT ![t] = l]
    BY <1>8 DEF EchoSymbol, EchoScroll, Labels
  <2>4. PICK pos : terms' = [terms EXCEPT ![file[t]].osize = pos]
    <3>1. CASE EchoSymbol(t)
      BY <3>1 DEF EchoSymbol
    <3>2. CASE EchoScroll(t)
      BY <3>2 DEF EchoScroll
    <3>3. QED
      BY <1>8, <3>1, <3>2
  <2> DEFINE td == [terms[file[t]] EXCEPT !.osize = pos]
  <2>5. terms' = [terms EXCEPT ![file[t]] = td] /\ DOMAIN td = Fields /\ td.used = terms[file[t]].used
    BY <2>2, <2>4 DEF Fields
  <2> HIDE DEF td
  <2>6. QED
    BY <2>1, <2>2, <2>3, <2>5, ReadPlaces, OwnedFrame
<1>13. ASSUME NEW t \in Users, EchoTest(t) \/ EchoShow(t) PROVE OwnedInv'
  <2>1. pc[t] # "idle" /\ UNCHANGED <<terms, active, file>>
    BY <1>13 DEF EchoTest, EchoShow, At
  <2>2. Return(t) \/ \E l \in Labels : pc' = [pc EXCEPT ![t] = l]
    BY <1>13 DEF EchoTest, EchoShow, Labels
  <2>3. QED
    BY <1>0, <2>1, <2>2, ReadPlaces, ReturnPlaces, OwnedSame
<1>9. ASSUME NEW s \in Keys, KeyPressed(s) PROVE OwnedInv'
  <2>1. active \in Terms /\ DOMAIN terms[active] = Fields
    BY DEF OwnedInv, Placed
  <2>2. pc' = pc /\ UNCHANGED <<active, file>> /\ terms' = [terms EXCEPT ![active] = Typed(terms[active], s)]
    BY <1>9 DEF KeyPressed, readVars
  <2>3. QED
    BY <1>0, <2>1, <2>2, TypedKeeps, OwnedFrame DEF OwnedInv, Placed
<1>10. ASSUME NEW k \in Terms, KeySwitch(k) PROVE OwnedInv'
  BY <1>10 DEF KeySwitch, SwitchToTerm, readVars, OwnedInv, Placed, Owned
<1>11. CASE UNCHANGED vars
  BY <1>11 DEF vars, readVars, OwnedInv, Placed, Owned
<1>12. CASE Ended
  BY <1>11, <1>12 DEF Ended
<1>14. QED
  BY <1>1, <1>2, <1>3, <1>4, <1>5, <1>6, <1>7, <1>8, <1>9, <1>10, <1>11, <1>12, <1>13
     DEF Next, ReadStep

\* Terminals in use and tasks are one to one in every reachable state.
LEMMA AlwaysOwned == Spec => []OwnedInv
BY OwnedInit, OwnedStep, PTL DEF Spec

\* ActiveOpen: keys go to a terminal that a task has open, and no terminal is open
\* twice, though terminals are closed in the middle of reads.
THEOREM KeyboardOpen == Spec => []ActiveOpen
<1>1. OwnedInv => ActiveOpen
  BY DEF OwnedInv, Placed, Owned, ActiveOpen
<1>2. QED
  BY <1>1, AlwaysOwned, PTL
-----------------------------------------------------------------------------
(***************************************************************************)
(* A task in term_read and the input of its terminal.  p to b are its pc,  *)
(* size, got and buf, w and f are typed and fresh of the terminal td.      *)
(***************************************************************************)
TermTyped(td) == /\ DOMAIN td = Fields
                 /\ td.iend \in 0 .. InputSize
                 /\ td.input \in [0 .. InputSize - 1 -> Symbols]
                 /\ td.line \in BOOLEAN

Taking == {"copy", "move", "sub"}

\* What a task takes out of the buffer is there, and in line mode ends in a newline,
\* which keeps backspaces away from it.
Counted(td, p, n, g, w, f) ==
  /\ p = "scan" => td.line
  /\ p = "wait" => ~td.line /\ n > 0
  /\ p \in Taking => g \in 1 .. td.iend /\ (f /\ td.line => w[g] = Newline)

\* The buffer holds what was typed, but for the time between move and subtraction.
Matches(td, p, w, f) ==
  f => /\ Len(w) = td.iend
       /\ p # "sub" => \A i \in 1 .. td.iend : td.input[i - 1] = w[i]

\* What was copied is what was typed first, and is there until it is echoed.
Copied(p, g, b, w, f) ==
  /\ p \in {"move", "sub", "echo", "scroll"} => g <= Len(b)
  /\ f /\ p \in {"move", "sub"} => \A i \in 1 .. g : b[i] = w[i]

\* A full buffer ends in a newline.
FullEnds(td, p) ==
  p # "sub" /\ td.iend = InputSize => td.input[InputSize - 1] = Newline

ReaderOK(td, p, n, g, b, w, f) ==
  Counted(td, p, n, g, w, f) /\ Matches(td, p, w, f) /\ Copied(p, g, b, w, f) /\ FullEnds(td, p)

Reader(t) == ReaderOK(terms[file[t]], pc[t], size[t], got[t], buf[t],
                      typed[file[t]], fresh[file[t]])

LocalsTyped == /\ size \in [Tasks -> Nat]
               /\ got \in [Tasks -> Nat]
               /\ buf \in [Tasks -> Seq(Symbols)]
               /\ typed \in [Terms -> Seq(Symbols)]
               /\ fresh \in [Terms -> BOOLEAN]

ReadInv == /\ OwnedInv
           /\ LocalsTyped
           /\ ~died
           /\ \A k \in Terms : TermTyped(terms[k])
           /\ \A t \in Tasks : file[t] # NoTerm => Reader(t)

\* Showing a terminal whose count is not negative does not kill the kernel.
LEMMA ShowAlive ==
  ASSUME ~died, NEW td, TermTyped(td), Show(td) \/ ShowNoCheck(td) \/ UNCHANGED fate
  PROVE  ~died'
<1>1. ~(td.iend < 0)
  BY DEF TermTyped
<1>2. ~ShowKills(td)
  BY <1>1, Zenon DEF ShowKills
<1>3. QED
  BY <1>2, Zenon DEF Show, ShowNoCheck, fate

\* term_open gives a terminal its type.
LEMMA OpenedTyped ==
  ASSUME NEW td, TermTyped(td) PROVE TermTyped(Opened(td)) /\ Opened(td).iend = 0
BY DEF TermTyped, Opened, Cleared, Fields

\* Output keeps the type of a terminal.
LEMMA WrittenTyped ==
  ASSUME NEW td, TermTyped(td), NEW text
  PROVE  /\ TermTyped(Written(td, text))
         /\ Written(td, text).iend = td.iend
         /\ Written(td, text).input = td.input
         /\ Written(td, text).line = td.line
BY DEF TermTyped, Written, Fields

\* Every command of term_ioctl keeps the type of a terminal.
LEMMA CommandedTyped ==
  ASSUME NEW td, TermTyped(td), NEW cmd \in Commands
  PROVE  /\ TermTyped(Commanded(td, cmd))
         /\ cmd \in Clearing => Commanded(td, cmd).iend = 0
         /\ cmd \notin Clearing => /\ Commanded(td, cmd).iend = td.iend
                                   /\ Commanded(td, cmd).input = td.input
<1> DEFINE c == Commanded(td, cmd)
<1>1. TermTyped(Cleared(td)) /\ Cleared(td).iend = 0
  BY DEF TermTyped, Cleared, Fields
<1>2. CASE cmd \in {"OMODE_TEXT", "OMODE_PIXEL"}
  <2>1. cmd \in Clearing /\ c = [Cleared(td) EXCEPT !.pixel = (cmd = "OMODE_PIXEL")]
    BY <1>2 DEF Commanded, Clearing
  <2>2. QED
    BY <1>1, <2>1 DEF TermTyped, Fields
<1>3. CASE cmd \in {"MODE_TERMINAL", "MODE_PICTURE"}
  <2>1. cmd \in Clearing
    BY <1>3 DEF Clearing
  <2>2. PICK pixel, show, block \in BOOLEAN, line \in BOOLEAN :
          c = [Cleared(td) EXCEPT !.pixel = pixel, !.show = show, !.block = block, !.line = line]
    BY <1>3 DEF Commanded
  <2>3. QED
    BY <1>1, <2>1, <2>2 DEF TermTyped, Fields
<1>4. CASE cmd = "CLEAR_INPUT"
  BY <1>4 DEF TermTyped, Commanded, Clearing, Fields
<1>5. CASE cmd \in {"READ_BLOCK", "READ_NOBLOCK", "READ_LINE", "READ_RAW"}
  BY <1>5 DEF TermTyped, Commanded, Clearing, Fields
<1>6. CASE cmd \in {"SHOW_ON", "SHOW_OFF", "SHOW"}
  BY <1>6 DEF TermTyped, Commanded, Clearing, Fields
<1>7. QED
  BY <1>2, <1>3, <1>4, <1>5, <1>6 DEF Commands

\* At start no task is in term_read and every line is empty.
LEMMA ReadInit == Init => ReadInv
<1> SUFFICES ASSUME Init PROVE ReadInv
  OBVIOUS
<1>1. TermTyped(NewTerm) /\ NewTerm.iend = 0
  BY DEF NewTerm, TermTyped, Fields, Symbols
<1>2. TermTyped(Opened(NewTerm)) /\ Opened(NewTerm).iend = 0
  BY <1>1, OpenedTyped
<1>3. \A k \in Terms : TermTyped(terms[k]) /\ terms[k].iend = 0
  BY <1>1, <1>2 DEF Init
<1>4. LocalsTyped
  BY DEF Init, LocalsTyped
<1>5. ASSUME NEW t \in Tasks, file[t] # NoTerm PROVE Reader(t)
  <2>1. file[t] \in Terms
    BY <1>5, Small DEF Init
  <2>2. /\ terms[file[t]].iend = 0 /\ pc[t] = "idle"
        /\ typed[file[t]] = <<>>
    BY <2>1, <1>3 DEF Init
  <2>3. QED
    BY <2>2 DEF Reader, ReaderOK, Counted, Matches, Copied, FullEnds, Taking
<1>6. QED
  BY <1>3, <1>4, <1>5, OwnedInit DEF Init, ReadInv

\* A step of one terminal and the task it belongs to.
LEMMA ReadFrame ==
  ASSUME ReadInv, OwnedInv', LocalsTyped', ~died', file' = file,
         NEW t \in Tasks, file[t] # NoTerm,
         \A j \in Terms \ {file[t]} : /\ terms'[j] = terms[j]
                                      /\ typed'[j] = typed[j] /\ fresh'[j] = fresh[j],
         \A u \in Tasks \ {t} : /\ pc'[u] = pc[u] /\ size'[u] = size[u]
                                /\ got'[u] = got[u] /\ buf'[u] = buf[u],
         TermTyped(terms'[file[t]]), Reader(t)'
  PROVE  ReadInv'
<1>1. \A k \in Terms : TermTyped(terms'[k])
  <2>1. ASSUME NEW k \in Terms PROVE TermTyped(terms'[k])
    <3>1. CASE k = file[t]
      BY <3>1
    <3>2. CASE k # file[t]
      <4>1. terms'[k] = terms[k] /\ TermTyped(terms[k])
        BY <3>2 DEF ReadInv
      <4>2. QED
        BY <4>1
    <3>3. QED
      BY <3>1, <3>2
  <2>2. QED
    BY <2>1
<1>2. ASSUME NEW u \in Tasks, file'[u] # NoTerm PROVE Reader(u)'
  <2>1. CASE u = t
    BY <2>1
  <2>2. CASE u # t
    <3>1. file[u] \in Terms \ {file[t]}
      BY <1>2, <2>2 DEF ReadInv, OwnedInv, Placed, Owned
    <3>2. Reader(u)
      BY <1>2 DEF ReadInv
    <3>3. QED
      BY <2>2, <3>1, <3>2 DEF Reader
  <2>3. QED
    BY <2>1, <2>2
<1>3. QED
  BY <1>1, <1>2 DEF ReadInv

\* The front of a line that is not empty is a line one shorter.
LEMMA FrontShorter ==
  ASSUME NEW w \in Seq(Symbols), Len(w) > 0
  PROVE  /\ Front(w) \in Seq(Symbols) /\ Len(Front(w)) = Len(w) - 1
         /\ \A i \in 1 .. Len(w) - 1 : Front(w)[i] = w[i]
<1>1. Len(w) \in Nat /\ Len(w) - 1 \in 0 .. Len(w)
  OBVIOUS
<1>2. Front(w) = [i \in 1 .. Len(w) - 1 |-> w[i]]
  BY <1>1 DEF Front
<1>3. \A i \in 1 .. Len(w) - 1 : w[i] \in Symbols
  OBVIOUS
<1>4. QED
  BY <1>1, <1>2, <1>3

\* A key, as the handler accepts it, against a reader at any point.
LEMMA TypedReader ==
  ASSUME NEW td, TermTyped(td), NEW s \in Symbols, Accepts(td, s),
         NEW p \in Labels, NEW n \in Nat, NEW g \in Nat, NEW b \in Seq(Symbols),
         NEW w \in Seq(Symbols), NEW f \in BOOLEAN,
         ReaderOK(td, p, n, g, b, w, f),
         s = Backspace => td.line /\ f /\ Last(w) # Newline
  PROVE  /\ TermTyped(Typed(td, s))
         /\ ReaderOK(Typed(td, s), p, n, g, b, IF s = Backspace THEN Front(w) ELSE Append(w, s), f)
<1> DEFINE td1 == Typed(td, s)
<1>0. Counted(td, p, n, g, w, f) /\ Matches(td, p, w, f) /\ Copied(p, g, b, w, f) /\ FullEnds(td, p)
  BY DEF ReaderOK
<1>1. CASE s = Backspace
  <2> DEFINE w1 == Front(w)
  <2>1. /\ td.iend > 0 /\ f /\ td.line
        /\ td1 = [td EXCEPT !.iend = @ - 1]
    BY <1>1 DEF Accepts, Typed
  <2>2. /\ TermTyped(td1) /\ td1.iend = td.iend - 1
        /\ td1.input = td.input /\ td1.line = td.line
    <3>1. /\ DOMAIN td1 = Fields /\ td1.iend = td.iend - 1
          /\ td1.input = td.input /\ td1.line = td.line
      BY <2>1 DEF TermTyped, Fields
    <3>2. td.iend - 1 \in 0 .. InputSize
      BY <2>1 DEF TermTyped
    <3>3. QED
      BY <3>1, <3>2 DEF TermTyped
  <2>3. Len(w) = td.iend /\ Last(w) = w[td.iend]
    BY <1>0, <2>1 DEF Matches, Last
  <2>4. /\ w1 \in Seq(Symbols) /\ Len(w1) = td.iend - 1
        /\ \A i \in 1 .. td.iend - 1 : w1[i] = w[i]
    BY <2>1, <2>3, FrontShorter
  <2>5. p \in Taking => g \in 1 .. td.iend - 1 /\ w[g] = Newline
    BY <1>0, <1>1, <2>1, <2>3 DEF Counted, TermTyped
  <2> HIDE DEF td1, w1
  <2>6. Counted(td1, p, n, g, w1, f)
    BY <1>0, <2>1, <2>2, <2>4, <2>5 DEF Counted, TermTyped
  <2>7. Matches(td1, p, w1, f)
    BY <1>0, <2>1, <2>2, <2>4 DEF Matches, TermTyped
  <2>8. Copied(p, g, b, w1, f)
    <3>1. p \in {"move", "sub"} => p \in Taking
      BY DEF Taking
    <3>2. QED
      BY <1>0, <2>1, <2>4, <2>5, <3>1 DEF Copied, TermTyped
  <2>9. FullEnds(td1, p)
    BY <2>2 DEF FullEnds, TermTyped
  <2>10. QED
    BY <1>1, <2>2, <2>6, <2>7, <2>8, <2>9 DEF ReaderOK, td1, w1
<1>2. CASE s # Backspace
  <2> DEFINE w1 == Append(w, s)
  <2>1. /\ td.iend \in 0 .. InputSize - 1
        /\ td.iend = InputSize - 1 => s = Newline
        /\ td1 = [td EXCEPT !.input[td.iend] = s, !.iend = @ + 1]
    BY <1>2 DEF Accepts, Typed, TermTyped
  <2>2. /\ DOMAIN td1 = Fields /\ td1.iend = td.iend + 1
        /\ td1.input = [td.input EXCEPT ![td.iend] = s] /\ td1.line = td.line
    BY <2>1 DEF TermTyped, Fields
  <2>3. TermTyped(td1)
    BY <2>1, <2>2 DEF TermTyped
  <2>4. /\ Len(w1) = Len(w) + 1 /\ w1[Len(w) + 1] = s
        /\ \A i \in 1 .. Len(w) : w1[i] = w[i]
    OBVIOUS
  <2>5. /\ td1.input[td.iend] = s
        /\ \A i \in 1 .. td.iend : td1.input[i - 1] = td.input[i - 1]
    BY <2>1, <2>2 DEF TermTyped
  <2> HIDE DEF td1, w1
  <2>6. Counted(td1, p, n, g, w1, f)
    BY <1>0, <2>1, <2>2, <2>4 DEF Counted, Matches
  <2>7. Matches(td1, p, w1, f)
    <3>1. SUFFICES ASSUME f PROVE /\ Len(w1) = td1.iend
                                  /\ p # "sub" => \A i \in 1 .. td1.iend : td1.input[i - 1] = w1[i]
      BY DEF Matches
    <3>2. Len(w) = td.iend
      BY <1>0, <3>1 DEF Matches
    <3>3. ASSUME p # "sub", NEW i \in 1 .. td1.iend PROVE td1.input[i - 1] = w1[i]
      <4>1. CASE i = td.iend + 1
        BY <4>1, <2>1, <2>4, <2>5, <3>2
      <4>2. CASE i # td.iend + 1
        <5>1. i \in 1 .. td.iend
          BY <4>2, <3>3, <2>1, <2>2
        <5>2. QED
          BY <5>1, <3>1, <3>2, <3>3, <1>0, <2>4, <2>5 DEF Matches
      <4>3. QED
        BY <4>1, <4>2
    <3>4. QED
      BY <2>2, <2>4, <3>2, <3>3
  <2>8. Copied(p, g, b, w1, f)
    <3>1. SUFFICES ASSUME f, p \in {"move", "sub"} PROVE \A i \in 1 .. g : b[i] = w1[i]
      BY <1>0 DEF Copied
    <3>2. g <= Len(w)
      BY <1>0, <3>1, <2>1 DEF Counted, Matches, Taking
    <3>3. QED
      BY <1>0, <2>4, <3>1, <3>2 DEF Copied
  <2>9. FullEnds(td1, p)
    BY <2>1, <2>2, <2>5 DEF FullEnds
  <2>10. QED
    BY <1>2, <2>3, <2>6, <2>7, <2>8, <2>9 DEF ReaderOK, td1, w1
<1>3. QED
  BY <1>1, <1>2

\* What ReadInv says of a task with a terminal.
LEMMA ReaderTyped ==
  ASSUME ReadInv, NEW t \in Tasks, file[t] # NoTerm
  PROVE  /\ file[t] \in Terms /\ TermTyped(terms[file[t]]) /\ Reader(t)
         /\ pc[t] \in Labels /\ size[t] \in Nat /\ got[t] \in Nat /\ buf[t] \in Seq(Symbols)
         /\ typed[file[t]] \in Seq(Symbols) /\ fresh[file[t]] \in BOOLEAN
BY DEF ReadInv, OwnedInv, Placed, LocalsTyped

\* Returning keeps the type of the locals.
LEMMA ReturnTyped ==
  ASSUME LocalsTyped, NEW t \in Tasks, Return(t), UNCHANGED <<typed, fresh>>
  PROVE  LocalsTyped'
<1>1. <<>> \in Seq(Symbols)
  OBVIOUS
<1>2. QED
  BY <1>1 DEF Return, LocalsTyped

\* The locals of a task that leaves keep their type.
LEMMA ForgetTyped ==
  ASSUME LocalsTyped, NEW k \in Terms, Forget(k)
  PROVE  typed' \in [Terms -> Seq(Symbols)] /\ fresh' \in [Terms -> BOOLEAN]
<1>1. <<>> \in Seq(Symbols)
  OBVIOUS
<1>2. QED
  BY <1>1 DEF Forget, LocalsTyped

\* One lemma for each action: a key.
LEMMA KeyReads ==
  ASSUME ReadInv, OwnedInv', ~EraseRead, NEW s \in Keys, KeyPressed(s) PROVE ReadInv'
<1>1. PICK t \in Tasks : file[t] = active /\ file[t] # NoTerm
  BY Small DEF ReadInv, OwnedInv, Placed, Owned
<1> DEFINE td == terms[active]
           w == typed[active]
           w1 == IF s = Backspace THEN Front(w) ELSE Append(w, s)
<1>2. /\ s \in Symbols /\ Accepts(td, s)
      /\ s = Backspace => td.line /\ fresh[active] /\ Last(w) # Newline
  BY DEF KeyPressed, Symbols, Typable
<1>3. /\ TermTyped(Typed(td, s))
      /\ ReaderOK(Typed(td, s), pc[t], size[t], got[t], buf[t], w1, fresh[active])
  BY <1>1, <1>2, ReaderTyped, TypedReader DEF Reader
<1>4. /\ terms' = [terms EXCEPT ![active] = Typed(td, s)] /\ typed' = [typed EXCEPT ![active] = w1]
      /\ UNCHANGED <<active, file, pc, size, got, buf, fresh>> /\ Show(Typed(td, s))
  BY DEF KeyPressed, readVars
<1>5. ~died'
  BY <1>3, <1>4, ShowAlive DEF ReadInv
<1>6. w1 \in Seq(Symbols)
  <2>1. CASE s = Backspace
    <3>1. Len(w) > 0
      BY <1>1, <1>2, <2>1, ReaderTyped DEF Reader, ReaderOK, Matches, Accepts
    <3>2. QED
      BY <1>1, <2>1, <3>1, ReaderTyped, FrontShorter
  <2>2. CASE s # Backspace
    BY <1>1, <1>2, <2>2, ReaderTyped
  <2>3. QED
    BY <2>1, <2>2
<1> HIDE DEF w1
<1>7. LocalsTyped'
  BY <1>4, <1>6 DEF ReadInv, LocalsTyped
<1>8. /\ active \in Terms /\ DOMAIN terms = Terms /\ DOMAIN typed = Terms
  BY DEF ReadInv, OwnedInv, Placed, LocalsTyped
<1>9. Reader(t)' /\ TermTyped(terms'[file[t]])
  BY <1>1, <1>3, <1>4, <1>8 DEF Reader
<1>10. QED
  BY <1>1, <1>4, <1>5, <1>7, <1>8, <1>9, ReadFrame

\* term_open, by a task that has no terminal.
LEMMA OpenReads ==
  ASSUME ReadInv, OwnedInv', NEW t \in Programs, TermOpen(t) PROVE ReadInv'
<1>1. PICK k \in Terms : /\ k \in Unused
                         /\ terms' = [terms EXCEPT ![k] = Opened(@)]
                         /\ file' = [file EXCEPT ![t] = k]
                         /\ Forget(k)
  BY DEF TermOpen, IsFirst
<1>2. ~terms[k].used /\ file[t] = NoTerm /\ UNCHANGED <<pc, size, got, buf, died>>
  BY <1>1 DEF TermOpen, Unused, readVars, fate
<1>3. /\ TermTyped(terms'[k]) /\ terms'[k].iend = 0 /\ typed'[k] = <<>>
      /\ \A j \in Terms \ {k} : terms'[j] = terms[j] /\ typed'[j] = typed[j] /\ fresh'[j] = fresh[j]
  BY <1>1, OpenedTyped DEF Forget, ReadInv, OwnedInv, Placed, LocalsTyped
<1>4. LocalsTyped'
  BY <1>1, <1>2 DEF Forget, ReadInv, LocalsTyped
<1>5. ASSUME NEW u \in Tasks, file'[u] # NoTerm PROVE Reader(u)'
  <2>1. CASE u = t
    <3>1. file'[u] = k /\ pc'[u] = "idle"
      BY <1>1, <1>2, <2>1, Small DEF ReadInv, OwnedInv, Placed, Owned
    <3>2. QED
      BY <1>3, <3>1 DEF Reader, ReaderOK, Counted, Matches, Copied, FullEnds, Taking
  <2>2. CASE u # t
    <3>1. file'[u] = file[u]
      BY <1>1, <2>2 DEF ReadInv, OwnedInv, Placed
    <3>2. file[u] \in Terms \ {k} /\ Reader(u)
      BY <1>2, <1>5, <3>1 DEF ReadInv, OwnedInv, Placed, Owned
    <3>3. QED
      BY <1>2, <1>3, <3>1, <3>2 DEF Reader
  <2>3. QED
    BY <2>1, <2>2
<1>6. \A j \in Terms : TermTyped(terms'[j])
  BY <1>3 DEF ReadInv
<1>7. QED
  BY <1>2, <1>4, <1>5, <1>6 DEF ReadInv

\* term_close, at any point of a read of that task.
LEMMA CloseReads ==
  ASSUME ReadInv, OwnedInv', NEW t \in Programs, TermClose(t) PROVE ReadInv'
<1> DEFINE k == file[t]
           table == [terms EXCEPT ![k].used = FALSE]
<1>1. k \in Terms /\ file[t] # NoTerm
  BY Small DEF TermClose, ReadInv, OwnedInv, Placed
<1>2. /\ terms' = table /\ file' = [file EXCEPT ![t] = NoTerm]
      /\ Return(t) /\ UNCHANGED <<typed, fresh>>
  BY DEF TermClose, history
<1>3. /\ DOMAIN table = Terms /\ TermTyped(table[k])
      /\ \A j \in Terms \ {k} : table[j] = terms[j]
  BY <1>1 DEF ReadInv, OwnedInv, Placed, TermTyped, Fields
<1>4. \A j \in Terms : TermTyped(table[j])
  BY <1>3 DEF ReadInv
<1>5. ~died'
  <2>1. (\E j \in Terms : SwitchToTerm(j, table)) \/ UNCHANGED fate
    BY DEF TermClose
  <2>2. UNCHANGED fate \/ \E j \in Terms : Show(table[j])
    BY <2>1 DEF SwitchToTerm
  <2>3. QED
    BY <1>4, <2>2, ShowAlive DEF ReadInv, fate
<1>6. LocalsTyped'
  BY <1>2, ReturnTyped, Small DEF ReadInv
<1>7. ASSUME NEW u \in Tasks, file'[u] # NoTerm PROVE Reader(u)'
  <2>1. u # t /\ file'[u] = file[u]
    BY <1>2, <1>7, Small DEF ReadInv, OwnedInv, Placed
  <2>2. file[u] \in Terms \ {k} /\ Reader(u)
    BY <1>1, <1>7, <2>1, Small DEF ReadInv, OwnedInv, Placed, Owned
  <2>3. pc'[u] = pc[u] /\ size'[u] = size[u] /\ got'[u] = got[u] /\ buf'[u] = buf[u]
    BY <1>2, <2>1 DEF Return, ReadInv, OwnedInv, Placed, LocalsTyped
  <2>4. QED
    BY <1>2, <1>3, <2>1, <2>2, <2>3 DEF Reader
<1>8. QED
  BY <1>2, <1>4, <1>5, <1>6, <1>7 DEF ReadInv

\* A task that is not in term_read, against its terminal.
LEMMA IdleReader ==
  ASSUME NEW td, TermTyped(td), NEW n, NEW g, NEW b, NEW w,
         NEW f \in BOOLEAN, Matches(td, "idle", w, f), FullEnds(td, "idle")
  PROVE  ReaderOK(td, "idle", n, g, b, w, f)
BY DEF ReaderOK, Counted, Copied, Taking

\* term_ioctl: its task is not in term_read then.
LEMMA IoctlReads ==
  ASSUME ReadInv, OwnedInv', NEW t \in Users, NEW cmd \in Ioctls, TermIoctl(t, cmd)
  PROVE  ReadInv'
<1> DEFINE k == file[t]
           td == Commanded(terms[k], cmd)
<1>1. t \in Tasks /\ k # NoTerm /\ pc[t] = "idle" /\ cmd \in Commands
  BY Small DEF TermIoctl, HasTerm
<1>2. k \in Terms /\ TermTyped(terms[k]) /\ Reader(t)
  BY <1>1, ReaderTyped
<1>3. /\ terms' = [terms EXCEPT ![k] = td]
      /\ UNCHANGED <<active, file, pc, size, got, buf>>
      /\ IF cmd \in Clearing THEN Forget(k) ELSE UNCHANGED <<typed, fresh>>
      /\ ShowNoCheck(td) \/ UNCHANGED fate
  BY DEF TermIoctl, Set, readVars, history
<1>4. /\ TermTyped(td)
      /\ cmd \in Clearing => td.iend = 0
      /\ cmd \notin Clearing => td.iend = terms[k].iend /\ td.input = terms[k].input
  BY <1>1, <1>2, CommandedTyped
<1> HIDE DEF td
<1>5. ~died'
  BY <1>3, <1>4, ShowAlive DEF ReadInv
<1>6. LocalsTyped'
  <2>1. CASE cmd \in Clearing
    <3>1. typed' \in [Terms -> Seq(Symbols)] /\ fresh' \in [Terms -> BOOLEAN]
      BY <1>2, <1>3, <2>1, ForgetTyped DEF ReadInv
    <3>2. QED
      BY <1>3, <3>1 DEF ReadInv, LocalsTyped
  <2>2. CASE cmd \notin Clearing
    BY <1>3, <2>2 DEF ReadInv, LocalsTyped
  <2>3. QED
    BY <2>1, <2>2
<1>7. \A j \in Terms \ {k} : terms'[j] = terms[j] /\ typed'[j] = typed[j] /\ fresh'[j] = fresh[j]
  BY <1>2, <1>3 DEF Forget, ReadInv, OwnedInv, Placed, LocalsTyped
<1>8. terms'[k] = td
  BY <1>2, <1>3 DEF ReadInv, OwnedInv, Placed
<1>9. ReaderOK(td, "idle", size[t], got[t], buf[t], typed'[k], fresh'[k])
  <2>1. fresh'[k] \in BOOLEAN
    BY <1>2, <1>6 DEF LocalsTyped
  <2>2. CASE cmd \in Clearing
    <3>1. td.iend = 0 /\ typed'[k] = <<>>
      BY <1>2, <1>3, <1>4, <2>2 DEF Forget, ReadInv, LocalsTyped
    <3>2. Matches(td, "idle", typed'[k], fresh'[k]) /\ FullEnds(td, "idle")
      BY <3>1 DEF Matches, FullEnds
    <3>3. QED
      BY <1>4, <2>1, <3>2, IdleReader
  <2>3. CASE cmd \notin Clearing
    <3>1. Matches(td, "idle", typed'[k], fresh'[k]) /\ FullEnds(td, "idle")
      BY <1>1, <1>2, <1>3, <1>4, <2>3 DEF Reader, ReaderOK, Matches, FullEnds
    <3>2. QED
      BY <1>4, <2>1, <3>1, IdleReader
  <2>4. QED
    BY <2>2, <2>3
<1>10. Reader(t)'
  BY <1>1, <1>3, <1>8, <1>9 DEF Reader
<1>11. QED
  BY <1>1, <1>3, <1>4, <1>5, <1>6, <1>7, <1>8, <1>10, ReadFrame

\* Output of a task that is, or will be, out of term_read.
LEMMA OutputReads ==
  ASSUME ReadInv, OwnedInv', NEW t \in Tasks, file[t] # NoTerm, NEW text,
         terms' = [terms EXCEPT ![file[t]] = Written(@, text)],
         ShowIfActive(file[t], Written(terms[file[t]], text)),
         UNCHANGED <<file, typed, fresh>>, LocalsTyped', pc[t] # "sub", pc'[t] = "idle",
         \A u \in Tasks \ {t} : /\ pc'[u] = pc[u] /\ size'[u] = size[u]
                                /\ got'[u] = got[u] /\ buf'[u] = buf[u]
  PROVE  ReadInv'
<1> DEFINE k == file[t]
           td == Written(terms[k], text)
<1>1. k \in Terms /\ TermTyped(terms[k]) /\ Reader(t) /\ fresh[k] \in BOOLEAN
  BY ReaderTyped
<1>2. /\ TermTyped(td) /\ td.iend = terms[k].iend
      /\ td.input = terms[k].input
  BY <1>1, WrittenTyped
<1> HIDE DEF td
<1>3. terms'[k] = td /\ \A j \in Terms \ {k} : terms'[j] = terms[j]
  BY <1>1 DEF td, ReadInv, OwnedInv, Placed
<1>4. ~died'
  BY <1>2, ShowAlive DEF td, ShowIfActive, ReadInv
<1>5. Matches(td, "idle", typed[k], fresh[k]) /\ FullEnds(td, "idle")
  BY <1>1, <1>2 DEF Reader, ReaderOK, Matches, FullEnds
<1>6. Reader(t)'
  BY <1>1, <1>2, <1>3, <1>5, IdleReader DEF Reader
<1>7. QED
  BY <1>2, <1>3, <1>4, <1>6, ReadFrame

\* A step in term_read that changes neither the terminal nor what was typed.
LEMMA LocalReads ==
  ASSUME ReadInv, OwnedInv', NEW t \in Tasks, file[t] # NoTerm,
         UNCHANGED <<terms, file, died, typed, fresh>>, LocalsTyped',
         \A u \in Tasks \ {t} : /\ pc'[u] = pc[u] /\ size'[u] = size[u]
                                /\ got'[u] = got[u] /\ buf'[u] = buf[u],
         Reader(t)'
  PROVE  ReadInv'
<1>1. TermTyped(terms'[file[t]])
  BY ReaderTyped
<1>2. QED
  BY <1>1, ReadFrame DEF ReadInv

\* term_read ends.
LEMMA ReturnReads ==
  ASSUME ReadInv, OwnedInv', NEW t \in Tasks, file[t] # NoTerm, pc[t] # "sub",
         UNCHANGED <<terms, file, died, typed, fresh>>, Return(t)
  PROVE  ReadInv'
<1>1. LocalsTyped'
  BY ReturnTyped DEF ReadInv
<1>2. /\ pc'[t] = "idle"
      /\ \A u \in Tasks \ {t} : /\ pc'[u] = pc[u] /\ size'[u] = size[u]
                                /\ got'[u] = got[u] /\ buf'[u] = buf[u]
  BY DEF Return, ReadInv, OwnedInv, Placed, LocalsTyped
<1>3. TermTyped(terms[file[t]]) /\ Reader(t) /\ fresh[file[t]] \in BOOLEAN
  BY ReaderTyped
<1>4. Matches(terms[file[t]], "idle", typed[file[t]], fresh[file[t]]) /\ FullEnds(terms[file[t]], "idle")
  BY <1>3 DEF Reader, ReaderOK, Matches, FullEnds
<1>5. Reader(t)'
  BY <1>2, <1>3, <1>4, IdleReader DEF Reader
<1>6. QED
  BY <1>1, <1>2, <1>5, LocalReads

\* term_read begins.
LEMMA BeginReads ==
  ASSUME ReadInv, OwnedInv', NEW t \in Users, NEW n \in Sizes, ReadBegin(t, n)
  PROVE  ReadInv'
<1>1. t \in Tasks /\ file[t] # NoTerm /\ pc[t] = "idle"
  BY Small DEF ReadBegin, HasTerm
<1>2. TermTyped(terms[file[t]]) /\ Reader(t)
  BY <1>1, ReaderTyped
<1>3. LocalsTyped'
  BY DEF ReadBegin, history, ReadInv, LocalsTyped
<1>4. /\ UNCHANGED <<terms, file, died, typed, fresh>>
      /\ \A u \in Tasks \ {t} : /\ pc'[u] = pc[u] /\ size'[u] = size[u]
                                /\ got'[u] = got[u] /\ buf'[u] = buf[u]
      /\ pc'[t] = IF terms[file[t]].line THEN "scan" ELSE "wait"
      /\ size'[t] = n /\ n > 0
  BY <1>1 DEF ReadBegin, history, fate, ReadInv, OwnedInv, Placed, LocalsTyped
<1>5. Reader(t)'
  BY <1>1, <1>2, <1>4 DEF Reader, ReaderOK, Counted, Matches, Copied, FullEnds, Taking
<1>6. QED
  BY <1>1, <1>3, <1>4, <1>5, LocalReads

\* Scan and Wait: what is taken is there, and a line ends in its newline.
LEMMA TakeReads ==
  ASSUME ReadInv, OwnedInv', NEW t \in Tasks, file[t] # NoTerm,
         pc[t] \in {"scan", "wait"}, UNCHANGED <<terms, file, died, typed, fresh>>,
         NEW g \in 1 .. terms[file[t]].iend, Take(t, g),
         terms[file[t]].line => terms[file[t]].input[g - 1] = Newline
  PROVE  ReadInv'
<1>1. TermTyped(terms[file[t]]) /\ Reader(t)
  BY ReaderTyped
<1>2. LocalsTyped'
  BY <1>1 DEF Take, ReadInv, LocalsTyped
<1>3. /\ \A u \in Tasks \ {t} : /\ pc'[u] = pc[u] /\ size'[u] = size[u]
                                /\ got'[u] = got[u] /\ buf'[u] = buf[u]
      /\ pc'[t] = "copy" /\ got'[t] = g
  BY DEF Take, ReadInv, OwnedInv, Placed, LocalsTyped
<1>4. fresh[file[t]] /\ terms[file[t]].line => typed[file[t]][g] = Newline
  BY <1>1 DEF Reader, ReaderOK, Matches
<1>5. Reader(t)'
  BY <1>1, <1>3, <1>4 DEF Reader, ReaderOK, Counted, Matches, Copied, FullEnds
<1>6. QED
  BY <1>2, <1>3, <1>5, LocalReads

\* The line is scanned for a newline or for enough symbols.
LEMMA ScanReads ==
  ASSUME ReadInv, OwnedInv', NEW t \in Tasks, Scan(t) PROVE ReadInv'
<1>1. pc[t] = "scan" /\ UNCHANGED <<terms, file, died, typed, fresh>>
  BY DEF Scan, At, history, fate
<1>2. file[t] # NoTerm
  BY <1>1 DEF ReadInv, OwnedInv, Owned
<1>3. TermTyped(terms[file[t]])
  BY <1>2, ReaderTyped
<1>4. Return(t) \/ \E i \in LineEnds(terms[file[t]]) : Take(t, i)
  BY DEF Scan
<1>5. CASE Return(t)
  BY <1>1, <1>2, <1>5, ReturnReads
<1>6. ASSUME NEW i \in LineEnds(terms[file[t]]), Take(t, i) PROVE ReadInv'
  BY <1>1, <1>2, <1>6, TakeReads DEF LineEnds
<1>7. QED
  BY <1>4, <1>5, <1>6

\* The task waits for iend to move.
LEMMA WaitReads ==
  ASSUME ReadInv, OwnedInv', NEW t \in Tasks, Wait(t) PROVE ReadInv'
<1>1. pc[t] = "wait" /\ UNCHANGED <<terms, file, died, typed, fresh>>
  BY DEF Wait, At, history, fate
<1>2. file[t] # NoTerm
  BY <1>1 DEF ReadInv, OwnedInv, Owned
<1>3. /\ terms[file[t]].iend \in Nat /\ size[t] \in Nat
      /\ ~terms[file[t]].line /\ size[t] > 0
  BY <1>1, <1>2, ReaderTyped DEF TermTyped, Reader, ReaderOK, Counted
<1>4. Return(t) \/ \E i \in 1 .. terms[file[t]].iend : Take(t, i)
  BY <1>3 DEF Wait
<1>5. CASE Return(t)
  BY <1>1, <1>2, <1>5, ReturnReads
<1>6. ASSUME NEW i \in 1 .. terms[file[t]].iend, Take(t, i) PROVE ReadInv'
  BY <1>1, <1>2, <1>3, <1>6, TakeReads
<1>7. QED
  BY <1>4, <1>5, <1>6

\* A line is copied to the caller, and ended.
LEMMA CopyReads ==
  ASSUME ReadInv, OwnedInv', NEW t \in Tasks, Copy(t) PROVE ReadInv'
<1> DEFINE td == terms[file[t]]
           w == typed[file[t]]
           f == fresh[file[t]]
           c == [i \in 1 .. got[t] |-> Byte(td, i - 1)]
           b == Terminated(td, c)
<1>1. /\ pc[t] = "copy" /\ UNCHANGED <<terms, file, size, got, died, typed, fresh>>
      /\ buf' = [buf EXCEPT ![t] = b] /\ pc' = [pc EXCEPT ![t] = "move"]
  BY DEF Copy, At, history, fate
<1>2. file[t] # NoTerm
  BY <1>1 DEF ReadInv, OwnedInv, Owned
<1>3. /\ TermTyped(td) /\ ReaderOK(td, "copy", size[t], got[t], buf[t], w, f)
      /\ got[t] \in 1 .. td.iend
  BY <1>1, <1>2, ReaderTyped DEF Reader, ReaderOK, Counted, Taking
<1>4. \A i \in 1 .. got[t] : c[i] = td.input[i - 1] /\ c[i] \in Symbols
  BY <1>3 DEF TermTyped, Byte
<1>a. c \in Seq(Symbols) /\ Len(c) = got[t]
  <2>1. got[t] \in Nat
    BY <1>3 DEF TermTyped
  <2>2. \A i \in 1 .. got[t] : Byte(td, i - 1) \in Symbols
    BY <1>4
  <2> HIDE DEF td
  <2>3. QED
    BY <2>1, <2>2
<1> HIDE DEF c
<1>5. b \in Seq(Symbols) /\ got[t] <= Len(b) /\ \A i \in 1 .. got[t] : b[i] = c[i]
  <2>1. CASE td.line
    <3>1. b = Append(c, Nul) /\ Nul \in Symbols
      BY <2>1 DEF Terminated, Symbols
    <3>2. QED
      BY <1>3, <1>a, <3>1 DEF TermTyped
  <2>2. CASE ~td.line
    <3>1. b = c
      BY <2>2 DEF Terminated
    <3>2. QED
      BY <1>3, <1>a, <3>1 DEF TermTyped
  <2>3. QED
    BY <2>1, <2>2
<1> HIDE DEF b
<1>6. LocalsTyped'
  BY <1>1, <1>5 DEF ReadInv, LocalsTyped
<1>7. /\ \A u \in Tasks \ {t} : /\ pc'[u] = pc[u] /\ size'[u] = size[u]
                                /\ got'[u] = got[u] /\ buf'[u] = buf[u]
      /\ pc'[t] = "move" /\ buf'[t] = b
  BY <1>1 DEF ReadInv, OwnedInv, Placed, LocalsTyped
<1>8. Copied("move", got[t], b, w, f)
  BY <1>3, <1>4, <1>5 DEF ReaderOK, Matches, Copied, TermTyped
<1>9. Reader(t)'
  BY <1>1, <1>3, <1>7, <1>8 DEF Reader, ReaderOK, Counted, Matches, FullEnds, Taking
<1>10. QED
  BY <1>1, <1>2, <1>6, <1>7, <1>9, LocalReads

\* The rest of the line is moved to the front.
LEMMA MoveReads ==
  ASSUME ReadInv, OwnedInv', NEW t \in Tasks, Move(t) PROVE ReadInv'
<1> DEFINE k == file[t]
           input == [i \in DOMAIN terms[k].input |->
                       IF i < got[t] THEN Byte(terms[k], i + got[t]) ELSE terms[k].input[i]]
           td == [terms[k] EXCEPT !.input = input]
<1>1. /\ pc[t] = "move" /\ UNCHANGED <<file, size, got, buf, died, typed, fresh>>
      /\ terms' = [terms EXCEPT ![k] = td] /\ pc' = [pc EXCEPT ![t] = "sub"]
  BY DEF Move, At, history, fate
<1>2. k # NoTerm
  BY <1>1 DEF ReadInv, OwnedInv, Owned
<1>3. /\ k \in Terms /\ TermTyped(terms[k]) /\ got[t] \in Nat
      /\ ReaderOK(terms[k], "move", size[t], got[t], buf[t], typed[k], fresh[k])
  BY <1>1, <1>2, ReaderTyped DEF Reader
<1>4. input \in [0 .. InputSize - 1 -> Symbols]
  <2>1. ASSUME NEW i \in 0 .. InputSize - 1, i < got[t] PROVE Byte(terms[k], i + got[t]) \in Symbols
    BY <1>3, <2>1 DEF Byte, TermTyped, Symbols
  <2>2. QED
    BY <1>3, <2>1 DEF TermTyped
<1> HIDE DEF input
<1>5. /\ TermTyped(td) /\ td.iend = terms[k].iend /\ td.line = terms[k].line
  BY <1>3, <1>4 DEF TermTyped, Fields
<1> HIDE DEF td
<1>6. LocalsTyped'
  BY <1>1 DEF ReadInv, LocalsTyped
<1>7. /\ \A u \in Tasks \ {t} : pc'[u] = pc[u]
      /\ pc'[t] = "sub"
      /\ terms'[k] = td /\ \A j \in Terms \ {k} : terms'[j] = terms[j]
  BY <1>1, <1>3 DEF ReadInv, OwnedInv, Placed
<1>8. Reader(t)'
  BY <1>1, <1>3, <1>5, <1>7 DEF Reader, ReaderOK, Counted, Matches, Copied, FullEnds, Taking
<1>9. ~died'
  BY <1>1 DEF ReadInv
<1>10. QED
  BY <1>1, <1>2, <1>5, <1>6, <1>7, <1>8, <1>9, ReadFrame

\* iend is lowered by what was taken.
LEMMA SubReads ==
  ASSUME ReadInv, OwnedInv', NEW t \in Tasks, Sub(t) PROVE ReadInv'
<1> DEFINE k == file[t]
           td == [terms[k] EXCEPT !.iend = @ - got[t]]
           w == SubSeq(typed[k], got[t] + 1, Len(typed[k]))
<1>1. /\ pc[t] = "sub" /\ UNCHANGED <<file, size, got, buf, died>>
      /\ terms' = [terms EXCEPT ![k] = td] /\ pc' = [pc EXCEPT ![t] = "echo"]
      /\ typed' = [typed EXCEPT ![k] = w] /\ fresh' = [fresh EXCEPT ![k] = FALSE]
  BY DEF Sub, At, fate
<1>2. k # NoTerm
  BY <1>1 DEF ReadInv, OwnedInv, Owned
<1>3. /\ k \in Terms /\ TermTyped(terms[k]) /\ got[t] \in 1 .. terms[k].iend
      /\ typed[k] \in Seq(Symbols) /\ got[t] <= Len(buf[t])
  BY <1>1, <1>2, ReaderTyped DEF Reader, ReaderOK, Counted, Copied, Taking
<1>4. w \in Seq(Symbols)
  BY <1>3, SubSeqProperties DEF TermTyped
<1> HIDE DEF w
<1>5. TermTyped(td) /\ td.iend < InputSize
  <2>1. terms[k].iend - got[t] \in 0 .. InputSize /\ terms[k].iend - got[t] < InputSize
    BY <1>3 DEF TermTyped
  <2>2. DOMAIN td = Fields /\ td.iend = terms[k].iend - got[t]
        /\ td.input = terms[k].input /\ td.line = terms[k].line
    BY <1>3 DEF TermTyped, Fields
  <2>3. QED
    BY <1>3, <2>1, <2>2 DEF TermTyped
<1> HIDE DEF td
<1>6. LocalsTyped'
  BY <1>1, <1>4 DEF ReadInv, LocalsTyped
<1>7. /\ \A u \in Tasks \ {t} : pc'[u] = pc[u]
      /\ pc'[t] = "echo" /\ fresh'[k] = FALSE
      /\ terms'[k] = td
      /\ \A j \in Terms \ {k} : terms'[j] = terms[j] /\ typed'[j] = typed[j] /\ fresh'[j] = fresh[j]
  BY <1>1, <1>3 DEF ReadInv, OwnedInv, Placed, LocalsTyped
<1>8. Reader(t)'
  BY <1>1, <1>3, <1>5, <1>7 DEF Reader, ReaderOK, Counted, Matches, Copied, FullEnds, Taking
<1>9. ~died'
  BY <1>1 DEF ReadInv
<1>10. QED
  BY <1>1, <1>2, <1>5, <1>6, <1>7, <1>8, <1>9, ReadFrame

\* One symbol of the line is echoed.
LEMMA EchoSymbolReads ==
  ASSUME ReadInv, OwnedInv', NEW t \in Tasks, EchoSymbol(t) PROVE ReadInv'
<1> DEFINE k == file[t]
           pos == Advance(terms[k].osize, Head(buf[t]))
           td == [terms[k] EXCEPT !.osize = pos]
<1>1. /\ pc[t] = "echo" /\ got[t] > 0 /\ UNCHANGED <<file, size, died, typed, fresh>>
      /\ terms' = [terms EXCEPT ![k].osize = pos]
      /\ pc' = [pc EXCEPT ![t] = IF PastScreen(pos) THEN "scroll" ELSE "echo"]
      /\ got' = [got EXCEPT ![t] = @ - 1] /\ buf' = [buf EXCEPT ![t] = Tail(@)]
  BY DEF EchoSymbol, Echoing, At, history, fate
<1> HIDE DEF pos
<1>2. k # NoTerm
  BY <1>1 DEF ReadInv, OwnedInv, Owned
<1>3. /\ k \in Terms /\ TermTyped(terms[k]) /\ got[t] \in Nat /\ buf[t] \in Seq(Symbols)
      /\ ReaderOK(terms[k], "echo", size[t], got[t], buf[t], typed[k], fresh[k])
      /\ got[t] <= Len(buf[t])
  BY <1>1, <1>2, ReaderTyped DEF Reader, ReaderOK, Copied
<1>4. Tail(buf[t]) \in Seq(Symbols) /\ got[t] - 1 \in Nat /\ got[t] - 1 <= Len(Tail(buf[t]))
  <2>1. buf[t] # <<>>
    BY <1>1, <1>3
  <2>2. QED
    BY <1>1, <1>3, <2>1, HeadTailProperties
<1>5. /\ TermTyped(td) /\ td.iend = terms[k].iend /\ td.input = terms[k].input
      /\ td.line = terms[k].line
  BY <1>3 DEF TermTyped, Fields
<1>6. LocalsTyped'
  BY <1>1, <1>4 DEF ReadInv, LocalsTyped
<1>7. /\ pc'[t] \in {"echo", "scroll"} /\ got'[t] = got[t] - 1 /\ buf'[t] = Tail(buf[t])
      /\ \A u \in Tasks \ {t} : /\ pc'[u] = pc[u] /\ size'[u] = size[u]
                                /\ got'[u] = got[u] /\ buf'[u] = buf[u]
      /\ terms'[k] = td /\ \A j \in Terms \ {k} : terms'[j] = terms[j]
  BY <1>1, <1>3 DEF ReadInv, OwnedInv, Placed, LocalsTyped
<1> HIDE DEF td
<1>8. Reader(t)'
  BY <1>1, <1>3, <1>4, <1>5, <1>7 DEF Reader, ReaderOK, Counted, Matches, Copied, FullEnds, Taking
<1>9. ~died'
  BY <1>1 DEF ReadInv
<1>10. QED
  BY <1>1, <1>2, <1>5, <1>6, <1>7, <1>8, <1>9, ReadFrame

\* The echo is scrolled.
LEMMA EchoScrollReads ==
  ASSUME ReadInv, OwnedInv', NEW t \in Tasks, EchoScroll(t) PROVE ReadInv'
<1> DEFINE k == file[t]
           td == [terms[k] EXCEPT !.osize = @ - Columns]
<1>1. /\ pc[t] = "scroll" /\ UNCHANGED <<file, size, got, buf, died, typed, fresh>>
      /\ terms' = [terms EXCEPT ![k].osize = @ - Columns]
      /\ pc' = [pc EXCEPT ![t] = "echo"]
  BY DEF EchoScroll, At, history, fate
<1>2. k # NoTerm
  BY <1>1 DEF ReadInv, OwnedInv, Owned
<1>3. /\ k \in Terms /\ TermTyped(terms[k])
      /\ ReaderOK(terms[k], "scroll", size[t], got[t], buf[t], typed[k], fresh[k])
  BY <1>1, <1>2, ReaderTyped DEF Reader
<1>4. /\ TermTyped(td) /\ td.iend = terms[k].iend /\ td.input = terms[k].input
      /\ td.line = terms[k].line
  BY <1>3 DEF TermTyped, Fields
<1>5. LocalsTyped'
  BY <1>1 DEF ReadInv, LocalsTyped
<1>6. /\ pc'[t] = "echo" /\ \A u \in Tasks \ {t} : pc'[u] = pc[u]
      /\ terms'[k] = td /\ \A j \in Terms \ {k} : terms'[j] = terms[j]
  BY <1>1, <1>3 DEF ReadInv, OwnedInv, Placed
<1> HIDE DEF td
<1>7. Reader(t)'
  BY <1>1, <1>3, <1>4, <1>6 DEF Reader, ReaderOK, Counted, Matches, Copied, FullEnds, Taking
<1>8. ~died'
  BY <1>1 DEF ReadInv
<1>9. QED
  BY <1>1, <1>2, <1>4, <1>5, <1>6, <1>7, <1>8, ReadFrame

\* The echo is shown, or not, and term_read ends.
LEMMA EchoShowReads ==
  ASSUME ReadInv, OwnedInv', NEW t \in Tasks, EchoTest(t) \/ EchoShow(t) PROVE ReadInv'
<1>1. /\ pc[t] \in {"echo", "show"} /\ UNCHANGED <<terms, file, typed, fresh>>
  BY DEF EchoTest, EchoShow, At, history
<1>2. file[t] # NoTerm
  BY <1>1 DEF ReadInv, OwnedInv, Owned
<1>3. /\ file[t] \in Terms /\ TermTyped(terms[file[t]])
      /\ ReaderOK(terms[file[t]], pc[t], size[t], got[t], buf[t], typed[file[t]], fresh[file[t]])
  BY <1>2, ReaderTyped DEF Reader
<1>4. ~died'
  <2>1. Show(terms[file[t]]) \/ UNCHANGED fate
    BY DEF EchoTest, EchoShow
  <2>2. QED
    BY <1>3, <2>1, ShowAlive DEF ReadInv
<1>5. CASE Return(t)
  <2>1. LocalsTyped'
    BY <1>1, <1>5, ReturnTyped DEF ReadInv
  <2>2. /\ pc'[t] = "idle"
        /\ \A u \in Tasks \ {t} : /\ pc'[u] = pc[u] /\ size'[u] = size[u]
                                  /\ got'[u] = got[u] /\ buf'[u] = buf[u]
    BY <1>5 DEF Return, ReadInv, OwnedInv, Placed, LocalsTyped
  <2>3. Reader(t)'
    BY <1>1, <1>3, <2>2 DEF Reader, ReaderOK, Counted, Matches, Copied, FullEnds, Taking
  <2>4. QED
    BY <1>1, <1>2, <1>3, <1>4, <2>1, <2>2, <2>3, ReadFrame
<1>6. CASE pc' = [pc EXCEPT ![t] = "show"] /\ UNCHANGED <<size, got, buf>>
  <2>1. LocalsTyped'
    BY <1>1, <1>6 DEF ReadInv, LocalsTyped
  <2>2. pc'[t] = "show" /\ \A u \in Tasks \ {t} : pc'[u] = pc[u]
    BY <1>6 DEF ReadInv, OwnedInv, Placed
  <2>3. Reader(t)'
    BY <1>1, <1>3, <1>6, <2>2 DEF Reader, ReaderOK, Counted, Matches, Copied, FullEnds, Taking
  <2>4. QED
    BY <1>1, <1>2, <1>3, <1>4, <1>6, <2>1, <2>2, <2>3, ReadFrame
<1>7. QED
  BY <1>5, <1>6 DEF EchoTest, EchoShow

\* term_write.
LEMMA WriteReads ==
  ASSUME ReadInv, OwnedInv', NEW t \in Users, NEW text \in Texts, TermWrite(t, text)
  PROVE  ReadInv'
<1>1. t \in Tasks /\ file[t] # NoTerm /\ pc[t] = "idle"
  BY Small DEF TermWrite, HasTerm
<1>2. /\ UNCHANGED <<file, pc, size, got, buf, typed, fresh>>
      /\ terms' = [terms EXCEPT ![file[t]] = Written(@, text)]
      /\ ShowIfActive(file[t], Written(terms[file[t]], text))
  BY DEF TermWrite, Set, readVars, history
<1>3. LocalsTyped'
  BY <1>2 DEF ReadInv, LocalsTyped
<1>4. QED
  BY <1>1, <1>2, <1>3, OutputReads
-----------------------------------------------------------------------------
\* Every step keeps the invariant, unless the user erases what a task may be reading.
LEMMA ReadStepInv == ~EraseRead => (ReadInv /\ [Next]_vars => ReadInv')
<1> SUFFICES ASSUME ~EraseRead, ReadInv, [Next]_vars PROVE ReadInv'
  OBVIOUS
<1>0. OwnedInv'
  BY OwnedStep DEF ReadInv
<1>1. ASSUME NEW t \in Programs, TermOpen(t) \/ TermClose(t) PROVE ReadInv'
  BY <1>0, <1>1, OpenReads, CloseReads
<1>2. ASSUME NEW t \in Users, NEW cmd \in Ioctls, TermIoctl(t, cmd) PROVE ReadInv'
  BY <1>0, <1>2, IoctlReads
<1>3. ASSUME NEW t \in Users, NEW text \in Texts, TermWrite(t, text) PROVE ReadInv'
  BY <1>0, <1>3, WriteReads
<1>4. ASSUME NEW t \in Users, NEW n \in Sizes, ReadBegin(t, n) PROVE ReadInv'
  BY <1>0, <1>4, BeginReads
<1>5. ASSUME NEW t \in Users, ReadStep(t) PROVE ReadInv'
  BY <1>0, <1>5, Small, ScanReads, WaitReads, CopyReads, MoveReads, SubReads,
     EchoSymbolReads, EchoScrollReads, EchoShowReads DEF ReadStep
<1>6. ASSUME NEW s \in Keys, KeyPressed(s) PROVE ReadInv'
  BY <1>0, <1>6, KeyReads
<1>7. ASSUME NEW k \in Terms, KeySwitch(k) PROVE ReadInv'
  <2>1. UNCHANGED <<terms, file, readVars, history>>
    BY <1>7 DEF KeySwitch
  <2>2. TermTyped(terms[k]) /\ (Show(terms[k]) \/ UNCHANGED fate)
    BY <1>7 DEF KeySwitch, SwitchToTerm, ReadInv
  <2>3. ~died'
    BY <2>2, ShowAlive DEF ReadInv
  <2>4. QED
    BY <1>0, <2>1, <2>3 DEF ReadInv, LocalsTyped, Reader, readVars, history
<1>8. CASE UNCHANGED vars
  BY <1>0, <1>8 DEF vars, readVars, history, fate, ReadInv, LocalsTyped, Reader
<1>9. CASE Ended
  BY <1>8, <1>9 DEF Ended
<1>10. QED
  BY <1>1, <1>2, <1>3, <1>4, <1>5, <1>6, <1>7, <1>8, <1>9 DEF Next

\* The invariant holds in every reachable state.
LEMMA AlwaysReads == ASSUME ~EraseRead PROVE Spec => []ReadInv
<1>1. ReadInv /\ [Next]_vars => ReadInv'
  BY ReadStepInv
<1>2. QED
  BY <1>1, ReadInit, PTL DEF Spec

\* InputBounds: keys, typed in the middle of reads or not, keep the count of the
\* input within the buffer.
THEOREM InputCounted == ASSUME ~EraseRead PROVE Spec => []InputBounds
<1>1. ReadInv => InputBounds
  BY DEF ReadInv, TermTyped, InputBounds
<1>2. QED
  BY <1>1, AlwaysReads, PTL

\* NeverDies: the kernel survives whatever is typed, as long as nothing is erased
\* that a task may be reading.
THEOREM Survives == ASSUME ~EraseRead PROVE Spec => []NeverDies
<1>1. ReadInv => NeverDies
  BY DEF ReadInv, NeverDies
<1>2. QED
  BY <1>1, AlwaysReads, PTL

\* LineIntact: the first line is copied as it was typed.
THEOREM FirstLineIntact == ASSUME ~EraseRead PROVE Spec => []LineIntact
<1>1. ReadInv => LineIntact
  <2>1. SUFFICES ASSUME ReadInv, NEW t \in Tasks, pc[t] \in {"move", "sub"}, fresh[file[t]]
                 PROVE  IsPrefix(SubSeq(buf[t], 1, got[t]), typed[file[t]])
    BY DEF LineIntact
  <2>2. file[t] # NoTerm
    BY <2>1 DEF ReadInv, OwnedInv, Owned
  <2>3. /\ buf[t] \in Seq(Symbols) /\ typed[file[t]] \in Seq(Symbols)
        /\ got[t] <= Len(buf[t]) /\ got[t] \in 1 .. Len(typed[file[t]])
        /\ \A i \in 1 .. got[t] : buf[t][i] = typed[file[t]][i]
    BY <2>1, <2>2, ReaderTyped DEF Reader, ReaderOK, Counted, Matches, Copied, Taking
  <2>4. SubSeq(buf[t], 1, got[t]) = SubSeq(typed[file[t]], 1, got[t])
    BY <2>3
  <2>5. Len(SubSeq(buf[t], 1, got[t])) = got[t]
    BY <2>3
  <2>6. QED
    BY <2>3, <2>4, <2>5 DEF IsPrefix
<1>2. QED
  BY <1>1, AlwaysReads, PTL

\* RoomForEnter: a terminal does not fill up without a newline in it.
THEOREM EnterFits == ASSUME ~EraseRead PROVE Spec => []RoomForEnter
<1>1. ReadInv => RoomForEnter
  <2>1. SUFFICES ASSUME ReadInv, NEW k \in Terms, terms[k].used,
                        \A t \in Tasks : file[t] = k => pc[t] \notin {"copy", "move", "sub"}
                 PROVE  LineEnds(terms[k]) # {} \/ Accepts(terms[k], Newline)
    BY DEF RoomForEnter, UsedIn
  <2>2. PICK t \in Tasks : file[t] = k
    BY <2>1 DEF ReadInv, OwnedInv, Owned
  <2>3. TermTyped(terms[k]) /\ FullEnds(terms[k], pc[t])
    BY <2>1, <2>2, Small, ReaderTyped DEF Reader, ReaderOK
  <2>4. CASE terms[k].iend = InputSize
    <3>1. terms[k].input[InputSize - 1] = Newline
      BY <2>1, <2>2, <2>3, <2>4 DEF FullEnds
    <3>2. InputSize \in LineEnds(terms[k])
      BY <2>4, <3>1 DEF LineEnds
    <3>3. QED
      BY <3>2
  <2>5. CASE terms[k].iend # InputSize
    BY <2>3, <2>5 DEF Accepts, TermTyped
  <2>6. QED
    BY <2>4, <2>5
<1>2. QED
  BY <1>1, AlwaysReads, PTL
-----------------------------------------------------------------------------
(***************************************************************************)
(* The output of a text.  FoldLeft takes the symbols by a function on sets *)
(* of places, defined by recursion; that there is one, and what its values *)
(* are, is an induction over the sizes of the sets.                        *)
(***************************************************************************)
\* Induction over the natural numbers, for a set in place of a predicate.
LEMMA NatSetInduction ==
  ASSUME NEW T, 0 \in T, \A n \in Nat : n \in T => n + 1 \in T
  PROVE  Nat \subseteq T
<1> DEFINE R == OpToRel(<, Nat)
           U == Nat \ T
<1>1. IsWellFoundedOn(R, Nat)
  BY NatLessThanWellFounded
<1>2. \A m, n \in Nat : m < n => <<m, n>> \in R
  BY DEF OpToRel
<1>3. U \subseteq Nat
  OBVIOUS
<1> HIDE DEF R, U
<1>4. CASE U # {}
  <2>1. PICK m \in U : \A n \in U : <<n, m>> \notin R
    BY <1>1, <1>3, <1>4, WFMin
  <2>2. m \in Nat /\ m \notin T /\ m # 0
    BY <2>1 DEF U
  <2>3. m - 1 \in Nat /\ (m - 1) + 1 = m /\ m - 1 < m
    BY <2>2
  <2>4. m - 1 \notin U
    BY <1>2, <2>1, <2>2, <2>3
  <2>5. m - 1 \in T
    BY <2>3, <2>4 DEF U
  <2> QED
    BY <2>2, <2>3, <2>5
<1> QED
  BY <1>4 DEF U

\* A set of numbers up to n that is not empty has a largest one.
LEMMA MaxIsIn ==
  ASSUME NEW n \in Nat, NEW s \in SUBSET (1 .. n), s # {}
  PROVE  Max(s) \in s /\ \A i \in s : i <= Max(s)
<1> DEFINE T == {k \in Nat : k <= n /\ s \cap (n - k + 1 .. n) # {} =>
                     \E m \in s : \A i \in s : i <= m}
<1>1. 0 \in T
  OBVIOUS
<1>2. ASSUME NEW k \in Nat, k \in T PROVE k + 1 \in T
  <2> SUFFICES ASSUME k + 1 <= n, s \cap (n - (k + 1) + 1 .. n) # {}
               PROVE  \E m \in s : \A i \in s : i <= m
    OBVIOUS
  <2>a. CASE s \cap (n - k + 1 .. n) # {}
    BY <1>2, <2>a
  <2> SUFFICES ASSUME s \cap (n - k + 1 .. n) = {}
               PROVE  \E m \in s : \A i \in s : i <= m
    BY <2>a
  <2>1. n - k \in s
    OBVIOUS
  <2>2. \A i \in s : i <= n - k
    OBVIOUS
  <2> QED
    BY <2>1, <2>2
<1>3. n \in T
  <2> HIDE DEF T
  <2> QED
    BY <1>1, <1>2, NatSetInduction
<1>4. s \cap (n - n + 1 .. n) # {}
  <2>1. n - n + 1 = 1
    OBVIOUS
  <2> QED
    BY <2>1
<1>5. \E m \in s : \A i \in s : i <= m
  BY <1>3, <1>4
<1> QED
  BY <1>5 DEF Max

\* iter folds every subset of S: pick takes a member out, G applies it to the
\* fold of the rest.
Iterates(iter, S, V, base, pick, G) ==
  /\ DOMAIN iter = SUBSET S
  /\ iter[{}] = base
  /\ \A s \in (SUBSET S) \ {{}} : iter[s] = G[<<iter[s \ {pick[s]}], pick[s]>>]

\* A finite set has such a fold.
LEMMA FoldExists ==
  ASSUME NEW S, IsFiniteSet(S), NEW V, NEW base \in V,
         NEW pick \in [(SUBSET S) \ {{}} -> S], \A s \in (SUBSET S) \ {{}} : pick[s] \in s,
         NEW G \in [V \X S -> V]
  PROVE  \E iter \in [SUBSET S -> V] : Iterates(iter, S, V, base, pick, G)
<1> DEFINE Upto(k) == {s \in SUBSET S : Cardinality(s) <= k}
           Good(f, k) == /\ f[{}] = base
                         /\ \A s \in Upto(k) \ {{}} :
                              f[s] = G[<<f[s \ {pick[s]}], pick[s]>>]
           T == {k \in Nat : \E f \in [SUBSET S -> V] : Good(f, k)}
<1>0. \A s \in SUBSET S : /\ IsFiniteSet(s) /\ Cardinality(s) \in Nat
                          /\ Cardinality(s) <= Cardinality(S)
                          /\ Cardinality(s) = 0 <=> s = {}
  BY FS_Subset, FS_CardinalityType, FS_EmptySet
<1>a. \A s \in (SUBSET S) \ {{}} : Cardinality(s \ {pick[s]}) = Cardinality(s) - 1
  BY <1>0, FS_RemoveElement
<1>1. 0 \in T
  <2> DEFINE f == [s \in SUBSET S |-> base]
  <2>1. Good(f, 0)
    BY <1>0
  <2> QED
    BY <2>1
<1>2. ASSUME NEW k \in Nat, k \in T PROVE k + 1 \in T
  <2>1. PICK f \in [SUBSET S -> V] : Good(f, k)
    BY <1>2
  <2> DEFINE g == [s \in SUBSET S |->
                     IF s \in Upto(k) THEN f[s] ELSE G[<<f[s \ {pick[s]}], pick[s]>>]]
  <2>2. \A s \in Upto(k) : g[s] = f[s]
    OBVIOUS
  <2>3. \A s \in (SUBSET S) \ Upto(k) : s # {}
    BY <1>0
  <2>4. g \in [SUBSET S -> V]
    BY <2>3
  <2>5. \A s \in Upto(k + 1) \ {{}} : s \ {pick[s]} \in Upto(k)
    BY <1>0, <1>a
  <2>6. g[{}] = base
    BY <1>0, <2>1
  <2>7. ASSUME NEW s \in Upto(k + 1) \ {{}} PROVE g[s] = G[<<g[s \ {pick[s]}], pick[s]>>]
    <3>1. g[s \ {pick[s]}] = f[s \ {pick[s]}]
      BY <2>2, <2>5
    <3>2. g[s] = G[<<f[s \ {pick[s]}], pick[s]>>]
      BY <2>1
    <3> QED
      BY <3>1, <3>2
  <2>8. Good(g, k + 1)
    BY <2>6, <2>7
  <2> HIDE DEF g, Good
  <2> QED
    BY <2>4, <2>8
<1>3. Cardinality(S) \in T
  <2> HIDE DEF T
  <2> QED
    BY <1>0, <1>1, <1>2, NatSetInduction
<1>4. PICK f \in [SUBSET S -> V] : Good(f, Cardinality(S))
  BY <1>3
<1>5. Upto(Cardinality(S)) = SUBSET S
  BY <1>0
<1> QED
  BY <1>4, <1>5 DEF Iterates

\* The same where the fold of the rest is in V, of iter whose values may be
\* anything.
Steps(iter, S, V, base, pick, G) ==
  /\ iter[{}] = base
  /\ \A s \in (SUBSET S) \ {{}} : iter[s \ {pick[s]}] \in V =>
                                    iter[s] = G[<<iter[s \ {pick[s]}], pick[s]>>]

\* Then all the folds are in V.
LEMMA FoldTyped ==
  ASSUME NEW S, IsFiniteSet(S), NEW V, NEW base \in V,
         NEW pick \in [(SUBSET S) \ {{}} -> S], \A s \in (SUBSET S) \ {{}} : pick[s] \in s,
         NEW G \in [V \X S -> V],
         NEW iter, Steps(iter, S, V, base, pick, G)
  PROVE  \A s \in SUBSET S : iter[s] \in V
<1> DEFINE Below(k) == \A s \in SUBSET S : Cardinality(s) <= k => iter[s] \in V
           T == {k \in Nat : Below(k)}
<1> USE DEF Steps
<1>0. \A s \in SUBSET S : /\ IsFiniteSet(s) /\ Cardinality(s) \in Nat
                          /\ Cardinality(s) <= Cardinality(S)
                          /\ Cardinality(s) = 0 <=> s = {}
  BY FS_Subset, FS_CardinalityType, FS_EmptySet
<1>a. \A s \in (SUBSET S) \ {{}} : Cardinality(s \ {pick[s]}) = Cardinality(s) - 1
  BY <1>0, FS_RemoveElement
<1>1. 0 \in T
  <2>1. \A s \in SUBSET S : Cardinality(s) <= 0 => s = {}
    BY <1>0
  <2> QED
    BY <2>1
<1>2. ASSUME NEW k \in Nat, k \in T PROVE k + 1 \in T
  <2>1. ASSUME NEW s \in SUBSET S, Cardinality(s) <= k + 1, s # {}
        PROVE  iter[s] \in V
    <3>1. Cardinality(s \ {pick[s]}) <= k
      BY <1>0, <1>a, <2>1
    <3>2. iter[s \ {pick[s]}] \in V
      BY <1>2, <3>1
    <3>3. iter[s] = G[<<iter[s \ {pick[s]}], pick[s]>>]
      BY <2>1, <3>2
    <3> QED
      BY <2>1, <3>2, <3>3
  <2>2. Below(k + 1)
    BY <2>1
  <2> HIDE DEF Below
  <2> QED
    BY <2>2
<1>3. Cardinality(S) \in T
  <2> HIDE DEF T
  <2> QED
    BY <1>0, <1>1, <1>2, NatSetInduction
<1> QED
  BY <1>0, <1>3

\* An empty screen has its position on it.
LEMMA ScreenNotEmpty == Screen \in Nat /\ Screen > 0
BY DEF Screen

\* One symbol leaves the position on the screen, or just past it.
LEMMA AdvanceInside ==
  ASSUME NEW pos \in 0 .. Screen - 1, NEW s \in Symbols
  PROVE  Advance(pos, s) \in 0 .. Screen
<1>1. Columns \in Nat /\ Columns > 0 /\ Rows \in Nat /\ Rows > 0 /\ Columns * Rows \in Nat /\ Columns * Rows >= Columns
  BY TermAssumption
<1>2. pos \in Nat /\ pos < Columns * Rows /\ Screen = Columns * Rows
  BY <1>1 DEF Screen
<1> DEFINE q == pos \div Columns
           r == pos % Columns
<1>3. q \in Nat /\ r \in 0 .. Columns - 1 /\ pos = q * Columns + r
  BY <1>1, <1>2
<1>4. q < Rows
  BY <1>1, <1>2, <1>3
<1>5. (q + 1) * Columns <= Rows * Columns
  BY <1>1, <1>3, <1>4
<1>6. pos + Columns - r = (q + 1) * Columns
  BY <1>1, <1>3
<1>7. pos + Columns - r <= Columns * Rows
  BY <1>1, <1>3, <1>5, <1>6
<1>a. Advance(pos, s) \in {pos + Columns - r, pos - r, pos + 1, IF pos > 0 THEN pos - 1 ELSE 0}
  BY DEF Advance
<1> HIDE DEF r, q
<1>b. pos + Columns - r \in 0 .. Columns * Rows
  BY <1>1, <1>3, <1>7
<1>c. pos - r \in 0 .. Columns * Rows
  <2>1. q * Columns \in Nat
    BY <1>1, <1>3
  <2> QED
    BY <1>1, <1>2, <1>3, <2>1
<1> QED
  BY <1>1, <1>2, <1>a, <1>b, <1>c

\* A line less than the screen is on it.
LEMMA ScrollInside == Screen - Columns \in 0 .. Screen - 1
<1>1. Columns \in Nat /\ Columns > 0 /\ Rows \in Nat /\ Rows > 0 /\ Columns * Rows \in Nat /\ Columns * Rows >= Columns
  BY TermAssumption
<1>2. QED
  BY <1>1 DEF Screen

\* One symbol, and the scroll after it, keep the position on the screen.
LEMMA Append1Inside ==
  ASSUME NEW pos \in 0 .. Screen - 1, NEW s \in Symbols
  PROVE  Append1(pos, s) \in 0 .. Screen - 1
<1> DEFINE q == Advance(pos, s)
<1>1. q \in 0 .. Screen
  BY AdvanceInside
<1>2. q = Screen => Scroll(q) = Screen - Columns
  BY ScreenNotEmpty DEF Scroll, PastScreen
<1>3. q # Screen => Scroll(q) = q
  BY <1>1, ScreenNotEmpty DEF Scroll, PastScreen
<1> HIDE DEF q
<1>4. Scroll(q) \in 0 .. Screen - 1
  BY <1>1, <1>2, <1>3, ScrollInside, ScreenNotEmpty
<1>5. QED
  BY <1>4 DEF Append1, q

\* A text of any length keeps the position on the screen.
LEMMA OutputStays ==
  ASSUME NEW pos \in 0 .. Screen - 1, NEW text \in Seq(Symbols)
  PROVE  Output(pos, text) \in 0 .. Screen - 1
<1> DEFINE n == Len(text)
           S == 1 .. n
           V == 0 .. Screen - 1
           pick == [s \in (SUBSET S) \ {{}} |-> Max(s)]
           G == [p \in V \X S |-> Append1(p[1], text[p[2]])]
           Body(f, s) == IF s = {} THEN pos ELSE Append1(f[s \ {Max(s)}], text[Max(s)])
           iter == CHOOSE f : f = [s \in SUBSET S |-> Body(f, s)]
<1>1. n \in Nat /\ DOMAIN text = S /\ \A i \in S : text[i] \in Symbols
  OBVIOUS
<1>2. Output(pos, text) = iter[S]
  BY <1>1 DEF Output, FoldLeft, MapThenFoldSet
<1>3. IsFiniteSet(S)
  BY <1>1, FS_Interval
<1>4. pick \in [(SUBSET S) \ {{}} -> S] /\ \A s \in (SUBSET S) \ {{}} : pick[s] \in s
  BY <1>1, MaxIsIn
<1>5. G \in [V \X S -> V]
  BY <1>1, Append1Inside
<1>6. \A v \in V, s \in (SUBSET S) \ {{}} : G[<<v, pick[s]>>] = Append1(v, text[Max(s)])
  BY <1>4
<1>7. \A s \in (SUBSET S) \ {{}} : pick[s] = Max(s)
  OBVIOUS
<1> HIDE DEF pick, G, V, S
<1>8. \E f : f = [s \in SUBSET S |-> Body(f, s)]
  <2>1. PICK f \in [SUBSET S -> V] : Iterates(f, S, V, pos, pick, G)
    BY <1>3, <1>4, <1>5, FoldExists DEF V
  <2>2. ASSUME NEW s \in SUBSET S PROVE f[s] = Body(f, s)
    BY <1>6, <1>7, <2>1 DEF Iterates
  <2> HIDE DEF Body
  <2>3. f = [s \in SUBSET S |-> Body(f, s)]
    BY <2>2
  <2> QED
    BY <2>3
<1>9. iter = [s \in SUBSET S |-> Body(iter, s)]
  <2> HIDE DEF Body
  <2> QED
    BY <1>8
<1> HIDE DEF iter
<1>10. iter[S] \in V
  <2>0. pos \in V
    BY DEF V
  <2>1. iter[{}] = pos
    BY <1>9
  <2>2. Steps(iter, S, V, pos, pick, G)
    <3> HIDE DEF n
    <3>1. ASSUME NEW s \in (SUBSET S) \ {{}}, iter[s \ {pick[s]}] \in V
          PROVE  iter[s] = G[<<iter[s \ {pick[s]}], pick[s]>>]
      <4>1. iter[s] = Append1(iter[s \ {Max(s)}], text[Max(s)])
        BY <1>9, <3>1
      <4>2. G[<<iter[s \ {pick[s]}], pick[s]>>] = Append1(iter[s \ {pick[s]}], text[Max(s)])
        BY <1>6, <3>1
      <4>3. QED
        BY <1>7, <4>1, <4>2
    <3>2. QED
      BY <2>1, <3>1 DEF Steps
  <2> HIDE DEF n, Body
  <2>3. \A s \in SUBSET S : iter[s] \in V
    BY <1>3, <1>4, <1>5, <2>0, <2>2, FoldTyped
  <2> QED
    BY <2>3
<1> QED
  BY <1>2, <1>10 DEF V

-----------------------------------------------------------------------------
(***************************************************************************)
(* The output position and the types, whatever the user does.  The         *)
(* position is past the screen, by one symbol, exactly while the task of   *)
(* the terminal has an echo to scroll.                                     *)
(***************************************************************************)
\* A terminal's output position and the types of its fields.
Shape(td) == /\ DOMAIN td = Fields
             /\ td.iend \in Int
             /\ td.input \in [0 .. InputSize - 1 -> Symbols]
             /\ td.osize \in 0 .. Screen

Buffers == /\ size \in [Tasks -> Nat]
           /\ got \in [Tasks -> Int]
           /\ buf \in [Tasks -> Seq(Symbols)]

Copying == {"move", "sub", "echo", "scroll"}

\* A task and the output of its terminal: td, p, g, b as for ReaderOK.
EchoOK(td, p, g, b) == /\ IF p = "scroll" THEN td.osize = Screen ELSE td.osize < Screen
                       /\ p \in Copying => g <= Len(b)

Echoer(t) == EchoOK(terms[file[t]], pc[t], got[t], buf[t])

Echoers == \A t \in Tasks : file[t] # NoTerm => Echoer(t)

ScreenInv == /\ OwnedInv
             /\ Buffers
             /\ died \in BOOLEAN /\ overrun \in BOOLEAN
             /\ \A k \in Terms : Shape(terms[k])
             /\ Echoers

\* What is shown kills the kernel or does not.
LEMMA ShowFate ==
  ASSUME died \in BOOLEAN, overrun \in BOOLEAN, NEW td,
         Show(td) \/ ShowNoCheck(td) \/ UNCHANGED fate
  PROVE  died' \in BOOLEAN /\ overrun' \in BOOLEAN
BY Zenon DEF Show, ShowNoCheck, fate

\* term_open keeps the shape of a terminal, and clears its output.
LEMMA OpenedShape ==
  ASSUME NEW td, Shape(td)
  PROVE  /\ Shape(Opened(td)) /\ Shape(Cleared(td))
         /\ Opened(td).osize = 0 /\ Cleared(td).osize = 0
BY ScreenNotEmpty DEF Shape, Opened, Cleared, Fields

\* Every command of term_ioctl keeps the shape of a terminal, and its output or clears it.
LEMMA CommandedShape ==
  ASSUME NEW td, Shape(td), NEW cmd \in Commands
  PROVE  Shape(Commanded(td, cmd)) /\ Commanded(td, cmd).osize \in {0, td.osize}
<1>1. Shape(Cleared(td)) /\ Cleared(td).osize = 0
  BY OpenedShape
<1>2. CASE cmd \in {"OMODE_TEXT", "OMODE_PIXEL"}
  <2>1. PICK pixel : Commanded(td, cmd) = [Cleared(td) EXCEPT !.pixel = pixel]
    BY <1>2 DEF Commanded
  <2>2. QED
    BY <1>1, <2>1 DEF Shape, Fields
<1>3. CASE cmd \in {"MODE_TERMINAL", "MODE_PICTURE"}
  <2>1. PICK pixel, show, block, line :
          Commanded(td, cmd) = [Cleared(td) EXCEPT !.pixel = pixel, !.show = show,
                                                   !.block = block, !.line = line]
    BY <1>3 DEF Commanded
  <2>2. QED
    BY <1>1, <2>1 DEF Shape, Fields
<1>4. CASE cmd \in {"CLEAR_INPUT", "READ_BLOCK", "READ_NOBLOCK", "READ_LINE", "READ_RAW"}
  <2>1. PICK block, line :
          Commanded(td, cmd) \in {[td EXCEPT !.iend = 0], [td EXCEPT !.block = block],
                                  [td EXCEPT !.line = line]}
    BY <1>4 DEF Commanded
  <2>2. QED
    BY <2>1 DEF Shape, Fields
<1>5. CASE cmd \in {"SHOW_ON", "SHOW_OFF", "SHOW"}
  <2>1. PICK show : Commanded(td, cmd) \in {td, [td EXCEPT !.show = show]}
    BY <1>5 DEF Commanded
  <2>2. QED
    BY <2>1 DEF Shape, Fields
<1>6. QED
  BY <1>2, <1>3, <1>4, <1>5 DEF Commands

\* Output that begins on the screen ends there.
LEMMA WrittenShape ==
  ASSUME NEW td, Shape(td), td.osize < Screen, NEW text \in Seq(Symbols)
  PROVE  Shape(Written(td, text)) /\ Written(td, text).osize < Screen
<1>1. Output(td.osize, text) \in 0 .. Screen - 1
  BY OutputStays, ScreenNotEmpty DEF Shape
<1>2. QED
  BY <1>1, ScreenNotEmpty DEF Shape, Written, Fields

\* A key keeps the shape of a terminal, also one it writes before the buffer.
LEMMA TypedShape ==
  ASSUME NEW td, Shape(td), NEW s \in Symbols
  PROVE  Shape(Typed(td, s)) /\ Typed(td, s).osize = td.osize
<1>1. CASE s = Backspace
  BY <1>1 DEF Shape, Typed, Fields
<1>2. CASE s # Backspace /\ td.iend < 0
  BY <1>2 DEF Shape, Typed, Fields
<1>3. CASE s # Backspace /\ ~(td.iend < 0)
  <2>1. Typed(td, s) = [td EXCEPT !.input[td.iend] = s, !.iend = @ + 1]
    BY <1>3 DEF Typed
  <2>2. [td.input EXCEPT ![td.iend] = s] \in [0 .. InputSize - 1 -> Symbols]
    BY DEF Shape
  <2>3. QED
    BY <2>1, <2>2 DEF Shape, Fields
<1>4. QED
  BY <1>1, <1>2, <1>3

\* A step that changes one terminal to another of its shape.
LEMMA ShapeFrame ==
  ASSUME ScreenInv, NEW k, NEW td, terms' = [terms EXCEPT ![k] = td],
         k \in Terms => Shape(td)
  PROVE  \A j \in Terms : Shape(terms'[j])
BY DEF ScreenInv, OwnedInv, Placed

\* A step of one terminal and of the task it belongs to.
LEMMA EchoFrame ==
  ASSUME ScreenInv, NEW t \in Tasks, file[t] # NoTerm, file' = file,
         \A j \in Terms \ {file[t]} : terms'[j] = terms[j],
         \A u \in Tasks \ {t} : pc'[u] = pc[u] /\ got'[u] = got[u] /\ buf'[u] = buf[u],
         Echoer(t)'
  PROVE  Echoers'
<1>1. ASSUME NEW u \in Tasks, file[u] # NoTerm, u # t PROVE Echoer(u)'
  <2>1. file[u] \in Terms \ {file[t]} /\ Echoer(u)
    BY <1>1 DEF ScreenInv, Echoers, OwnedInv, Placed, Owned
  <2>2. QED
    BY <1>1, <2>1 DEF Echoer
<1>2. QED
  BY <1>1 DEF Echoers

\* The locals of the other tasks, when one returns.
LEMMA ReturnLocals ==
  ASSUME ScreenInv, NEW t \in Tasks, Return(t)
  PROVE  /\ pc'[t] = "idle" /\ Buffers'
         /\ \A u \in Tasks \ {t} : pc'[u] = pc[u] /\ got'[u] = got[u] /\ buf'[u] = buf[u]
<1>1. <<>> \in Seq(Symbols) /\ 0 \in Nat /\ 0 \in Int
  OBVIOUS
<1>2. QED
  BY <1>1 DEF Return, ScreenInv, OwnedInv, Placed, Buffers

\* A step in term_read, or into it, that is not about the output.
LEMMA LocalEchoes ==
  ASSUME ScreenInv, NEW t \in Tasks, file[t] # NoTerm, pc[t] # "scroll",
         UNCHANGED <<terms, file>>, Buffers', NEW l, l # "scroll",
         pc' = [pc EXCEPT ![t] = l],
         \A u \in Tasks \ {t} : got'[u] = got[u] /\ buf'[u] = buf[u],
         l \in Copying => got'[t] <= Len(buf'[t])
  PROVE  Echoers'
<1>1. pc'[t] = l /\ \A u \in Tasks \ {t} : pc'[u] = pc[u]
  BY DEF ScreenInv, OwnedInv, Placed
<1>2. Echoer(t)
  BY DEF ScreenInv, Echoers
<1>3. Echoer(t)'
  BY <1>1, <1>2 DEF Echoer, EchoOK
<1>4. QED
  BY <1>1, <1>3, EchoFrame

\* term_read ends.
LEMMA ReturnEchoes ==
  ASSUME ScreenInv, NEW t \in Tasks, file[t] # NoTerm, pc[t] # "scroll",
         UNCHANGED <<terms, file>>, Return(t)
  PROVE  Echoers'
BY ReturnLocals, LocalEchoes DEF Return, Copying

\* At start the screens are empty.
LEMMA ScreenInit == Init => ScreenInv
<1> SUFFICES ASSUME Init PROVE ScreenInv
  OBVIOUS
<1>1. Shape(NewTerm) /\ NewTerm.osize = 0
  BY ScreenNotEmpty DEF Shape, NewTerm, Fields, Symbols
<1>2. Shape(Opened(NewTerm)) /\ Opened(NewTerm).osize = 0
  BY <1>1, OpenedShape
<1>3. \A k \in Terms : Shape(terms[k]) /\ terms[k].osize = 0
  BY <1>1, <1>2 DEF Init
<1>4. Buffers
  BY DEF Init, Buffers
<1>5. Echoers
  <2>1. \A t \in Tasks : pc[t] = "idle" /\ (file[t] # NoTerm => file[t] \in Terms)
    BY Small DEF Init
  <2>2. QED
    BY <1>3, <2>1, ScreenNotEmpty DEF Echoers, Echoer, EchoOK, Copying
<1>6. QED
  BY <1>3, <1>4, <1>5, OwnedInit DEF Init, ScreenInv

\* The steps of term_read keep it.
LEMMA ScreenRead == ASSUME ScreenInv, OwnedInv', NEW t \in Users, ReadStep(t) PROVE ScreenInv'
<1> DEFINE k == file[t]
<1>0. t \in Tasks /\ pc[t] # "idle"
  BY Small DEF ReadStep, Scan, Wait, Copy, Move, Sub, EchoSymbol, Echoing, EchoScroll,
               EchoTest, EchoShow, At
<1>1. /\ k \in Terms /\ k # NoTerm /\ DOMAIN terms = Terms
      /\ Shape(terms[k]) /\ size[t] \in Nat /\ got[t] \in Int /\ buf[t] \in Seq(Symbols)
      /\ EchoOK(terms[k], pc[t], got[t], buf[t])
      /\ Buffers /\ died \in BOOLEAN /\ overrun \in BOOLEAN
      /\ \A j \in Terms : Shape(terms[j])
  BY <1>0 DEF ScreenInv, Buffers, OwnedInv, Placed, Owned, Echoers, Echoer
<1>2. \A l : pc' = [pc EXCEPT ![t] = l] => pc'[t] = l /\ \A u \in Tasks \ {t} : pc'[u] = pc[u]
  BY <1>0 DEF ScreenInv, OwnedInv, Placed
<1>a. ASSUME UNCHANGED terms, Buffers', Echoers', Show(terms[k]) \/ UNCHANGED fate
      PROVE  ScreenInv'
  <2>1. died' \in BOOLEAN /\ overrun' \in BOOLEAN
    BY <1>1, <1>a, ShowFate
  <2>2. QED
    BY <1>1, <1>a, <2>1 DEF ScreenInv
<1>b. ASSUME NEW td, terms' = [terms EXCEPT ![k] = td], Shape(td), UNCHANGED <<file, fate>>,
             \A u \in Tasks \ {t} : pc'[u] = pc[u] /\ got'[u] = got[u] /\ buf'[u] = buf[u],
             Buffers', EchoOK(td, pc'[t], got'[t], buf'[t])
      PROVE  ScreenInv'
  <2>1. terms'[k] = td /\ \A j \in Terms \ {k} : terms'[j] = terms[j]
    BY <1>1, <1>b
  <2>2. Echoer(t)'
    BY <1>b, <2>1 DEF Echoer
  <2>3. Echoers'
    BY <1>0, <1>1, <1>b, <2>1, <2>2, EchoFrame
  <2>4. \A j \in Terms : Shape(terms'[j])
    BY <1>b, ShapeFrame
  <2>5. died' \in BOOLEAN /\ overrun' \in BOOLEAN
    BY <1>1, <1>b DEF fate
  <2>6. QED
    BY <1>b, <2>3, <2>4, <2>5 DEF ScreenInv
<1>c. ASSUME pc[t] # "scroll", UNCHANGED <<terms, file, fate>>, NEW n \in Int, Take(t, n)
      PROVE  ScreenInv'
  <2>1. Buffers' /\ \A u \in Tasks \ {t} : got'[u] = got[u] /\ buf'[u] = buf[u]
    BY <1>1, <1>c DEF Take, Buffers
  <2>2. Echoers'
    BY <1>0, <1>1, <1>c, <2>1, LocalEchoes DEF Take, Copying
  <2>3. QED
    BY <1>a, <1>c, <2>1, <2>2
<1>d. ASSUME pc[t] # "scroll", UNCHANGED <<terms, file>>, Show(terms[k]) \/ UNCHANGED fate, Return(t)
      PROVE  ScreenInv'
  BY <1>0, <1>1, <1>a, <1>d, ReturnLocals, ReturnEchoes
<1>3. CASE Scan(t)
  <2>1. pc[t] = "scan" /\ UNCHANGED <<terms, file, fate>>
    BY <1>3 DEF Scan, At
  <2>2. Return(t) \/ \E n \in LineEnds(terms[k]) : Take(t, n)
    BY <1>3 DEF Scan
  <2>3. LineEnds(terms[k]) \subseteq Int
    BY DEF LineEnds
  <2>4. QED
    BY <1>c, <1>d, <2>1, <2>2, <2>3
<1>4. CASE Wait(t)
  <2>1. pc[t] = "wait" /\ UNCHANGED <<terms, file, fate>>
    BY <1>4 DEF Wait, At
  <2>2. Return(t) \/ Take(t, size[t]) \/ Take(t, terms[k].iend)
    BY <1>4 DEF Wait
  <2>3. size[t] \in Int /\ terms[k].iend \in Int
    BY <1>1 DEF Shape
  <2>4. QED
    BY <1>c, <1>d, <2>1, <2>2, <2>3
<1>5. CASE Copy(t)
  <2> DEFINE c == [i \in 1 .. got[t] |-> Byte(terms[k], i - 1)]
             b == Terminated(terms[k], c)
  <2>1. /\ pc[t] = "copy" /\ UNCHANGED <<terms, file, size, got, fate>>
        /\ buf' = [buf EXCEPT ![t] = b] /\ pc' = [pc EXCEPT ![t] = "move"]
    BY <1>5 DEF Copy, At
  <2>2. \A i \in 1 .. got[t] : Byte(terms[k], i - 1) \in Symbols
    BY <1>1 DEF Shape, Byte, Symbols
  <2>3. c \in Seq(Symbols) /\ got[t] <= Len(c)
    <3>1. c \in [1 .. got[t] -> Symbols]
      BY <2>2
    <3> HIDE DEF c
    <3>2. CASE got[t] \in Nat
      BY <3>1, <3>2
    <3>3. CASE got[t] \notin Nat
      <4>1. c \in [1 .. 0 -> Symbols]
        BY <1>1, <3>1, <3>3
      <4>2. c \in Seq(Symbols) /\ Len(c) = 0
        BY <4>1
      <4>3. QED
        BY <1>1, <3>3, <4>2
    <3>4. QED
      BY <3>2, <3>3
  <2> HIDE DEF c
  <2>4. b \in Seq(Symbols) /\ got[t] <= Len(b)
    <3>1. b = c \/ b = Append(c, Nul)
      BY DEF Terminated
    <3>2. Nul \in Symbols
      BY DEF Symbols
    <3>3. QED
      BY <1>1, <2>3, <3>1, <3>2
  <2> HIDE DEF b
  <2>5. Buffers' /\ got'[t] <= Len(buf'[t]) /\ \A u \in Tasks \ {t} : got'[u] = got[u] /\ buf'[u] = buf[u]
    BY <1>0, <1>1, <2>1, <2>4 DEF Buffers
  <2>6. Echoers'
    BY <1>0, <1>1, <2>1, <2>5, LocalEchoes
  <2>7. QED
    BY <1>a, <2>1, <2>5, <2>6
<1>6. CASE Move(t)
  <2> DEFINE in == [i \in DOMAIN terms[k].input |->
                      IF i < got[t] THEN Byte(terms[k], i + got[t]) ELSE terms[k].input[i]]
             td == [terms[k] EXCEPT !.input = in]
  <2>1. in \in [0 .. InputSize - 1 -> Symbols]
    <3>1. ASSUME NEW i \in 0 .. InputSize - 1
          PROVE  in[i] \in Symbols
      <4>1. CASE i < got[t]
        <5>1. i + got[t] \in Nat
          BY <1>1, <4>1
        <5>2. QED
          BY <1>1, <4>1, <5>1 DEF Shape, Byte, Symbols
      <4>2. CASE ~(i < got[t])
        BY <1>1, <4>2 DEF Shape
      <4>3. QED
        BY <4>1, <4>2
    <3>2. QED
      BY <1>1, <3>1 DEF Shape
  <2>2. /\ pc[t] = "move" /\ terms' = [terms EXCEPT ![k] = td]
        /\ UNCHANGED <<file, size, got, buf, fate>> /\ pc' = [pc EXCEPT ![t] = "sub"]
    BY <1>1, <1>6 DEF Move, At
  <2> HIDE DEF in
  <2>3. Shape(td) /\ td.osize = terms[k].osize
    BY <1>1, <2>1 DEF Shape, Fields
  <2> HIDE DEF td
  <2>4. Buffers'
    BY <1>1, <2>2 DEF Buffers
  <2>5. EchoOK(td, pc'[t], got'[t], buf'[t])
    BY <1>1, <1>2, <2>2, <2>3 DEF EchoOK, Copying
  <2>6. QED
    BY <1>2, <1>b, <2>2, <2>3, <2>4, <2>5
<1>7. CASE Sub(t)
  <2> DEFINE td == [terms[k] EXCEPT !.iend = @ - got[t]]
  <2>1. /\ pc[t] = "sub" /\ terms' = [terms EXCEPT ![k] = td]
        /\ UNCHANGED <<file, size, got, buf, fate>> /\ pc' = [pc EXCEPT ![t] = "echo"]
    BY <1>7 DEF Sub, At
  <2>2. Shape(td) /\ td.osize = terms[k].osize
    BY <1>1 DEF Shape, Fields
  <2> HIDE DEF td
  <2>3. Buffers'
    BY <1>1, <2>1 DEF Buffers
  <2>4. EchoOK(td, pc'[t], got'[t], buf'[t])
    BY <1>1, <1>2, <2>1, <2>2 DEF EchoOK, Copying
  <2>5. QED
    BY <1>2, <1>b, <2>1, <2>2, <2>3, <2>4
<1>8. CASE EchoSymbol(t)
  <2> DEFINE pos == Advance(terms[k].osize, Head(buf[t]))
             td == [terms[k] EXCEPT !.osize = pos]
  <2>1. /\ pc[t] = "echo" /\ got[t] > 0 /\ terms' = [terms EXCEPT ![k] = td]
        /\ UNCHANGED <<file, size, fate>>
        /\ pc' = [pc EXCEPT ![t] = IF PastScreen(pos) THEN "scroll" ELSE "echo"]
        /\ got' = [got EXCEPT ![t] = @ - 1] /\ buf' = [buf EXCEPT ![t] = Tail(@)]
    BY <1>8 DEF EchoSymbol, Echoing, At
  <2>2. got[t] <= Len(buf[t]) /\ terms[k].osize \in 0 .. Screen - 1
    BY <1>1, <2>1, ScreenNotEmpty DEF EchoOK, Copying, Shape
  <2>3. /\ Head(buf[t]) \in Symbols /\ Tail(buf[t]) \in Seq(Symbols)
        /\ Len(Tail(buf[t])) = Len(buf[t]) - 1
    <3>1. buf[t] # <<>>
      BY <1>1, <2>1, <2>2
    <3>2. QED
      BY <1>1, <3>1, HeadTailProperties
  <2>4. pos \in 0 .. Screen
    BY <2>2, <2>3, AdvanceInside
  <2> HIDE DEF pos
  <2>5. Shape(td) /\ td.osize = pos
    BY <1>1, <2>4 DEF Shape, Fields
  <2> HIDE DEF td
  <2>6. Buffers' /\ got'[t] = got[t] - 1 /\ buf'[t] = Tail(buf[t])
        /\ \A u \in Tasks \ {t} : got'[u] = got[u] /\ buf'[u] = buf[u]
    BY <1>0, <1>1, <2>1, <2>3 DEF Buffers
  <2>7. EchoOK(td, pc'[t], got'[t], buf'[t])
    <3>1. pc'[t] = IF pos >= Screen THEN "scroll" ELSE "echo"
      BY <1>2, <2>1 DEF PastScreen
    <3>2. got'[t] <= Len(buf'[t])
      BY <1>1, <2>2, <2>3, <2>6
    <3>3. QED
      BY <2>4, <2>5, <3>1, <3>2, ScreenNotEmpty DEF EchoOK
  <2>8. \A u \in Tasks \ {t} : pc'[u] = pc[u]
    BY <1>2, <2>1
  <2>9. QED
    BY <1>b, <2>1, <2>5, <2>6, <2>7, <2>8
<1>9. CASE EchoScroll(t)
  <2> DEFINE td == [terms[k] EXCEPT !.osize = @ - Columns]
  <2>1. /\ pc[t] = "scroll" /\ terms' = [terms EXCEPT ![k] = td]
        /\ UNCHANGED <<file, size, got, buf, fate>> /\ pc' = [pc EXCEPT ![t] = "echo"]
    BY <1>9 DEF EchoScroll, At
  <2>2. terms[k].osize = Screen /\ got[t] <= Len(buf[t])
    BY <1>1, <2>1 DEF EchoOK, Copying
  <2>3. Shape(td) /\ td.osize < Screen
    <3>1. /\ td.osize = Screen - Columns /\ DOMAIN td = Fields
          /\ td.iend = terms[k].iend /\ td.input = terms[k].input
      BY <1>1, <2>2 DEF Shape, Fields
    <3>2. td.osize \in 0 .. Screen /\ td.osize < Screen
      BY <3>1, ScrollInside, ScreenNotEmpty
    <3> HIDE DEF td
    <3>3. QED
      BY <1>1, <3>1, <3>2 DEF Shape
  <2> HIDE DEF td
  <2>4. Buffers'
    BY <1>1, <2>1 DEF Buffers
  <2>5. EchoOK(td, pc'[t], got'[t], buf'[t])
    <3>1. pc'[t] = "echo"
      BY <1>2, <2>1
    <3>2. got'[t] <= Len(buf'[t])
      BY <2>1, <2>2
    <3>3. td.osize < Screen
      BY <2>3
    <3>4. QED
      BY <3>1, <3>2, <3>3 DEF EchoOK
  <2>6. QED
    BY <1>2, <1>b, <2>1, <2>3, <2>4, <2>5
<1>10. CASE EchoTest(t)
  <2>1. pc[t] = "echo" /\ UNCHANGED <<terms, file, fate>>
    BY <1>10 DEF EchoTest, At
  <2>2. CASE Return(t)
    BY <1>d, <2>1, <2>2
  <2>3. CASE pc' = [pc EXCEPT ![t] = "show"] /\ UNCHANGED <<size, got, buf>>
    <3>1. Buffers'
      BY <1>1, <2>3 DEF Buffers
    <3>2. Echoers'
      BY <1>0, <1>1, <2>1, <2>3, <3>1, LocalEchoes DEF Copying
    <3>3. QED
      BY <1>a, <2>1, <3>1, <3>2
  <2>4. QED
    BY <1>10, <2>2, <2>3 DEF EchoTest
<1>11. CASE EchoShow(t)
  BY <1>d, <1>11 DEF EchoShow, At
<1>12. QED
  BY <1>3, <1>4, <1>5, <1>6, <1>7, <1>8, <1>9, <1>10, <1>11 DEF ReadStep

\* Every step keeps the types and the output position.
LEMMA ScreenStep == ScreenInv /\ [Next]_vars => ScreenInv'
<1> SUFFICES ASSUME ScreenInv, [Next]_vars PROVE ScreenInv'
  OBVIOUS
<1>0. OwnedInv' /\ OwnedInv
  BY OwnedStep DEF ScreenInv
<1>a. /\ Buffers /\ died \in BOOLEAN /\ overrun \in BOOLEAN /\ DOMAIN terms = Terms
      /\ \A k \in Terms : Shape(terms[k])
      /\ file \in [Tasks -> Terms \cup {NoTerm}] /\ active \in Terms
      /\ \A t \in Tasks : pc[t] # "idle" => file[t] \in Terms
      /\ Echoers
  BY DEF ScreenInv, OwnedInv, Placed, Owned
<1>b. ASSUME UNCHANGED <<pc, got, buf, file>>, NEW k \in Terms, NEW td,
             terms' = [terms EXCEPT ![k] = td], td.osize = terms[k].osize
      PROVE  Echoers'
  <2>1. \A j \in Terms : terms'[j].osize = terms[j].osize
    BY <1>a, <1>b
  <2>2. \A t \in Tasks : file[t] # NoTerm => file[t] \in Terms
    BY <1>a
  <2>3. QED
    BY <1>a, <1>b, <2>1, <2>2 DEF Echoers, Echoer, EchoOK
<1>1. ASSUME NEW t \in Programs, TermOpen(t) PROVE ScreenInv'
  <2>1. PICK k \in Terms : /\ k \in Unused
                           /\ terms' = [terms EXCEPT ![k] = Opened(@)]
                           /\ file' = [file EXCEPT ![t] = k]
    BY <1>1 DEF TermOpen, IsFirst
  <2>2. ~terms[k].used /\ file[t] = NoTerm /\ UNCHANGED <<pc, size, got, buf, fate>>
    BY <1>1, <2>1 DEF TermOpen, Unused, readVars, fate
  <2>3. Shape(Opened(terms[k])) /\ Opened(terms[k]).osize = 0
    BY <1>a, OpenedShape
  <2>4. \A j \in Terms : Shape(terms'[j])
    BY <2>1, <2>3, ShapeFrame
  <2>5. ASSUME NEW u \in Tasks, file'[u] # NoTerm PROVE Echoer(u)'
    <3>1. CASE u = t
      <4>1. file'[u] = k /\ pc[u] = "idle"
        BY <1>0, <1>a, <2>1, <2>2, <3>1 DEF OwnedInv, Owned
      <4>2. terms'[k].osize = 0
        BY <1>a, <2>1, <2>3
      <4>3. QED
        BY <2>2, <4>1, <4>2, ScreenNotEmpty DEF Echoer, EchoOK, Copying
    <3>2. CASE u # t
      <4>1. file'[u] = file[u]
        BY <1>a, <2>1, <3>2
      <4>2. file[u] \in Terms \ {k} /\ Echoer(u)
        BY <1>0, <1>a, <2>2, <2>5, <4>1 DEF Echoers, OwnedInv, Owned
      <4>3. terms'[file[u]] = terms[file[u]]
        BY <1>a, <2>1, <4>2
      <4>4. QED
        BY <2>2, <4>1, <4>2, <4>3 DEF Echoer
    <3>3. QED
      BY <3>1, <3>2
  <2>6. Echoers'
    BY <2>5 DEF Echoers
  <2>7. Buffers'
    BY <1>a, <2>2 DEF Buffers
  <2>8. died' \in BOOLEAN /\ overrun' \in BOOLEAN
    BY <1>a, <2>2 DEF fate
  <2>9. QED
    BY <1>0, <2>4, <2>6, <2>7, <2>8 DEF ScreenInv
<1>2. ASSUME NEW t \in Programs, TermClose(t) PROVE ScreenInv'
  <2> DEFINE k == file[t]
             table == [terms EXCEPT ![k].used = FALSE]
  <2>1. terms' = table /\ Return(t) /\ k # NoTerm /\ file' = [file EXCEPT ![t] = NoTerm] /\ t \in Tasks
    BY <1>2, Small DEF TermClose
  <2>2. k \in Terms
    BY <1>a, <2>1
  <2>3. \A j \in Terms : Shape(terms'[j])
    <3>1. Shape([terms[k] EXCEPT !.used = FALSE])
      BY <1>a, <2>2 DEF Shape, Fields
    <3>2. QED
      BY <2>1, <3>1, ShapeFrame
  <2>4. died' \in BOOLEAN /\ overrun' \in BOOLEAN
    <3>1. UNCHANGED fate \/ \E j \in Terms : Show(table[j])
      BY <1>2 DEF TermClose, SwitchToTerm
    <3>2. QED
      BY <1>a, <3>1, ShowFate
  <2>5. Buffers' /\ \A u \in Tasks \ {t} : pc'[u] = pc[u] /\ got'[u] = got[u] /\ buf'[u] = buf[u]
    BY <2>1, ReturnLocals
  <2>6. ASSUME NEW u \in Tasks, file'[u] # NoTerm PROVE Echoer(u)'
    <3>1. u # t /\ file'[u] = file[u]
      BY <1>a, <2>1, <2>6
    <3>2. file[u] \in Terms \ {k} /\ Echoer(u)
      BY <1>0, <1>a, <2>1, <2>6, <3>1 DEF Echoers, OwnedInv, Owned
    <3>3. terms'[file[u]] = terms[file[u]]
      BY <1>a, <2>1, <3>2
    <3>4. QED
      BY <2>5, <3>1, <3>2, <3>3 DEF Echoer
  <2>7. Echoers'
    BY <2>6 DEF Echoers
  <2>8. QED
    BY <1>0, <2>3, <2>4, <2>5, <2>7 DEF ScreenInv
<1>c. ASSUME NEW t \in Tasks, HasTerm(t), NEW td, Set(t, td), Shape(td), td.osize < Screen,
             Show(td) \/ ShowNoCheck(td) \/ UNCHANGED fate, UNCHANGED <<file, pc, size, got, buf>>
      PROVE  ScreenInv'
  <2>1. file[t] \in Terms /\ file[t] # NoTerm /\ pc[t] = "idle"
    BY <1>a, <1>c DEF HasTerm
  <2>2. terms' = [terms EXCEPT ![file[t]] = td]
    BY <1>c DEF Set
  <2>3. terms'[file[t]] = td /\ \A j \in Terms \ {file[t]} : terms'[j] = terms[j]
    BY <1>a, <2>1, <2>2
  <2>4. Echoer(t)'
    BY <1>c, <2>1, <2>3 DEF Echoer, EchoOK, Copying
  <2>5. Echoers'
    BY <1>c, <2>1, <2>3, <2>4, EchoFrame
  <2>6. \A j \in Terms : Shape(terms'[j])
    BY <1>c, <2>2, ShapeFrame
  <2>7. died' \in BOOLEAN /\ overrun' \in BOOLEAN
    BY <1>a, <1>c, ShowFate
  <2>8. Buffers'
    BY <1>a, <1>c DEF Buffers
  <2>9. QED
    BY <1>0, <2>5, <2>6, <2>7, <2>8 DEF ScreenInv
<1>d. ASSUME NEW t \in Tasks, HasTerm(t)
      PROVE  Shape(terms[file[t]]) /\ terms[file[t]].osize < Screen
  BY <1>a, <1>d DEF HasTerm, Echoers, Echoer, EchoOK
<1>3. ASSUME NEW t \in Users, NEW cmd \in Ioctls, TermIoctl(t, cmd) PROVE ScreenInv'
  <2> DEFINE td == Commanded(terms[file[t]], cmd)
  <2>1. /\ t \in Tasks /\ HasTerm(t) /\ Set(t, td) /\ cmd \in Commands
        /\ ShowNoCheck(td) \/ UNCHANGED fate
        /\ UNCHANGED <<file, pc, size, got, buf>>
    BY <1>3, Small DEF TermIoctl, readVars
  <2>2. Shape(td) /\ td.osize < Screen
    BY <1>d, <2>1, CommandedShape, ScreenNotEmpty
  <2> HIDE DEF td
  <2>3. QED
    BY <1>c, <2>1, <2>2
<1>5. ASSUME NEW t \in Users, NEW text \in Texts, TermWrite(t, text) PROVE ScreenInv'
  <2> DEFINE td == Written(terms[file[t]], text)
  <2>1. /\ t \in Tasks /\ HasTerm(t) /\ Set(t, td) /\ text \in Seq(Symbols)
        /\ Show(td) \/ UNCHANGED fate
        /\ UNCHANGED <<file, pc, size, got, buf>>
    BY <1>5, Small DEF TermWrite, ShowIfActive, readVars
  <2>2. Shape(td) /\ td.osize < Screen
    BY <1>d, <2>1, WrittenShape
  <2> HIDE DEF td
  <2>3. QED
    BY <1>c, <2>1, <2>2
<1>6. ASSUME NEW t \in Users, NEW n \in Sizes, ReadBegin(t, n) PROVE ScreenInv'
  <2>1. /\ t \in Tasks /\ file[t] # NoTerm /\ pc[t] = "idle"
        /\ UNCHANGED <<terms, file, got, buf, fate>> /\ size' = [size EXCEPT ![t] = n]
    BY <1>6, Small DEF ReadBegin, HasTerm
  <2>2. Buffers'
    BY <1>a, <2>1 DEF Buffers
  <2>3. PICK l \in {"scan", "wait"} : pc' = [pc EXCEPT ![t] = l]
    BY <1>6 DEF ReadBegin
  <2>4. Echoers'
    BY <2>1, <2>2, <2>3, LocalEchoes DEF Copying
  <2>5. QED
    BY <1>0, <1>a, <2>1, <2>2, <2>4 DEF ScreenInv, fate
<1>7. ASSUME NEW t \in Users, ReadStep(t) PROVE ScreenInv'
  BY <1>0, <1>7, ScreenRead
<1>8. ASSUME NEW s \in Keys, KeyPressed(s) PROVE ScreenInv'
  <2> DEFINE td == Typed(terms[active], s)
  <2>1. /\ terms' = [terms EXCEPT ![active] = td] /\ Show(td)
        /\ UNCHANGED <<file, pc, size, got, buf>>
    BY <1>8 DEF KeyPressed, readVars
  <2>2. Shape(td) /\ td.osize = terms[active].osize
    BY <1>a, TypedShape DEF Symbols, Typable
  <2> HIDE DEF td
  <2>3. \A j \in Terms : Shape(terms'[j])
    BY <2>1, <2>2, ShapeFrame
  <2>4. died' \in BOOLEAN /\ overrun' \in BOOLEAN
    BY <1>a, <2>1, ShowFate
  <2>5. Echoers'
    BY <1>a, <1>b, <2>1, <2>2
  <2>6. Buffers'
    BY <1>a, <2>1 DEF Buffers
  <2>7. QED
    BY <1>0, <2>3, <2>4, <2>5, <2>6 DEF ScreenInv
<1>9. ASSUME NEW k \in Terms, KeySwitch(k) PROVE ScreenInv'
  <2>1. UNCHANGED <<terms, file, pc, size, got, buf>> /\ (Show(terms[k]) \/ UNCHANGED fate)
    BY <1>9 DEF KeySwitch, SwitchToTerm, readVars
  <2>2. died' \in BOOLEAN /\ overrun' \in BOOLEAN
    BY <1>a, <2>1, ShowFate
  <2>3. Buffers' /\ Echoers'
    BY <1>a, <2>1 DEF Buffers, Echoers, Echoer
  <2>4. QED
    BY <1>0, <1>a, <2>1, <2>2, <2>3 DEF ScreenInv
<1>10. CASE UNCHANGED vars
  <2>1. Buffers' /\ Echoers'
    BY <1>a, <1>10 DEF vars, Buffers, Echoers, Echoer
  <2>2. QED
    BY <1>0, <1>a, <1>10, <2>1 DEF vars, fate, ScreenInv
<1>11. CASE Ended
  BY <1>10, <1>11 DEF Ended
<1>12. QED
  BY <1>1, <1>2, <1>3, <1>5, <1>6, <1>7, <1>8, <1>9, <1>10, <1>11 DEF Next

\* They hold in every reachable state.
LEMMA AlwaysScreen == Spec => []ScreenInv
BY ScreenInit, ScreenStep, PTL DEF Spec

\* A terminal in use is past the screen only while its task scrolls the echo on it.
PastScrolls == \A k \in UsedIn(terms) :
                 terms[k].osize < Screen \/ \E t \in Tasks : file[t] = k /\ pc[t] = "scroll"

LEMMA ScreenScrolls == ScreenInv => PastScrolls
<1>1. SUFFICES ASSUME ScreenInv, NEW k \in Terms, terms[k].used
               PROVE  terms[k].osize < Screen \/ \E t \in Tasks : file[t] = k /\ pc[t] = "scroll"
  BY DEF PastScrolls, UsedIn
<1>2. PICK t \in Tasks : file[t] = k
  BY <1>1 DEF ScreenInv, OwnedInv, Owned
<1>3. Echoer(t)
  BY <1>1, <1>2, Small DEF ScreenInv, Echoers
<1>4. QED
  BY <1>2, <1>3 DEF Echoer, EchoOK

\* Showing a terminal overruns the array only if its position is past the screen.
LEMMA ShowPast ==
  ASSUME NEW td, Show(td) \/ ShowNoCheck(td), ~overrun, overrun'
  PROVE  td.osize >= Screen
BY DEF Show, ShowNoCheck, ShowOverruns

\* The step that overruns the array leaves the terminal it shows active, and past
\* the screen.
LEMMA OverrunStep ==
  ASSUME ScreenInv, [Next]_vars, ~overrun, overrun'
  PROVE  terms'[active'].osize >= Screen
<1>0. /\ DOMAIN terms = Terms /\ active \in Terms
      /\ \A t \in Tasks : pc[t] # "idle" => file[t] # NoTerm
      /\ \A t \in Tasks : file[t] # NoTerm => Echoer(t) /\ file[t] \in Terms
  BY DEF ScreenInv, OwnedInv, Placed, Owned, Echoers
<1>1. ~UNCHANGED fate
  BY DEF fate
<1>2. ASSUME NEW t \in Programs, TermClose(t) PROVE terms'[active'].osize >= Screen
  <2> DEFINE table == [terms EXCEPT ![file[t]].used = FALSE]
  <2>1. terms' = table /\ \E k \in Terms : SwitchToTerm(k, table)
    BY <1>1, <1>2 DEF TermClose
  <2> HIDE DEF table
  <2>2. Show(table[active'])
    BY <1>1, <2>1 DEF SwitchToTerm
  <2>3. QED
    BY <2>1, <2>2, ShowPast
<1>3. ASSUME NEW k \in Terms, KeySwitch(k) PROVE terms'[active'].osize >= Screen
  <2>1. terms' = terms /\ Show(terms[active'])
    BY <1>1, <1>3 DEF KeySwitch, SwitchToTerm
  <2>2. QED
    BY <2>1, ShowPast
<1>4. ASSUME NEW td, terms' = [terms EXCEPT ![active] = td], active' = active,
             Show(td) \/ ShowNoCheck(td)
      PROVE  terms'[active'].osize >= Screen
  <2>1. terms'[active'] = td
    BY <1>0, <1>4
  <2>2. QED
    BY <1>4, <2>1, ShowPast
<1>5. ASSUME NEW t \in Users, NEW cmd \in Ioctls, TermIoctl(t, cmd)
      PROVE  terms'[active'].osize >= Screen
  <2> DEFINE td == Commanded(terms[file[t]], cmd)
  <2>1. terms' = [terms EXCEPT ![active] = td] /\ active' = active /\ ShowNoCheck(td)
    BY <1>1, <1>5 DEF TermIoctl, Set
  <2> HIDE DEF td
  <2>2. QED
    BY <1>4, <2>1
<1>6. ASSUME NEW t \in Users, NEW text \in Texts, TermWrite(t, text)
      PROVE  terms'[active'].osize >= Screen
  <2> DEFINE td == Written(terms[file[t]], text)
  <2>1. terms' = [terms EXCEPT ![active] = td] /\ active' = active /\ Show(td)
    BY <1>1, <1>6 DEF TermWrite, Set, ShowIfActive
  <2> HIDE DEF td
  <2>2. QED
    BY <1>4, <2>1
<1>7. ASSUME NEW s \in Keys, KeyPressed(s) PROVE terms'[active'].osize >= Screen
  <2> DEFINE td == Typed(terms[active], s)
  <2>1. terms' = [terms EXCEPT ![active] = td] /\ active' = active /\ Show(td)
    BY <1>7 DEF KeyPressed
  <2> HIDE DEF td
  <2>2. QED
    BY <1>4, <2>1
<1>8. ASSUME NEW t \in Users, EchoShow(t) PROVE FALSE
  <2>1. t \in Tasks /\ pc[t] = "show" /\ Show(terms[file[t]])
    BY <1>8, Small DEF EchoShow, At
  <2>2. Echoer(t) /\ Shape(terms[file[t]])
    BY <1>0, <2>1 DEF ScreenInv
  <2>3. terms[file[t]].osize >= Screen
    BY <2>1, ShowPast
  <2>4. terms[file[t]].osize < Screen
    BY <2>1, <2>2 DEF Echoer, EchoOK
  <2>5. QED
    BY <2>2, <2>3, <2>4, ScreenNotEmpty DEF Shape
<1>9. ASSUME NEW t \in Users, ReadStep(t) PROVE FALSE
  BY <1>1, <1>8, <1>9 DEF ReadStep, Scan, Wait, Copy, Move, Sub, EchoSymbol, EchoScroll, EchoTest
<1>10. ASSUME NEW t \in Programs, TermOpen(t) PROVE FALSE
  BY <1>1, <1>10 DEF TermOpen
<1>11. ASSUME NEW t \in Users, NEW n \in Sizes, ReadBegin(t, n) PROVE FALSE
  BY <1>1, <1>11 DEF ReadBegin
<1>12. ~(Ended \/ UNCHANGED vars)
  BY <1>1 DEF Ended, vars
<1>13. QED
  BY <1>2, <1>3, <1>5, <1>6, <1>7, <1>9, <1>10, <1>11, <1>12 DEF Next

\* The array is overrun only while a task scrolls the echo on the active terminal.
Overruns == overrun => \E t \in Tasks : file[t] = active /\ pc[t] = "scroll"

LEMMA OverrunsStep == ScreenInv /\ Overruns /\ [Next]_vars => Overruns'
<1> SUFFICES ASSUME ScreenInv, Overruns, [Next]_vars, overrun' PROVE Overruns'
  BY DEF Overruns
<1>1. CASE overrun
  <2>1. ~Alive
    BY <1>1 DEF Alive
  <2>2. UNCHANGED vars
    BY <2>1 DEF Next, TermOpen, TermClose, TermIoctl, TermWrite, ReadBegin, HasTerm, ReadStep,
                Scan, Wait, Copy, Move, Sub, EchoSymbol, Echoing, EchoScroll, EchoTest, EchoShow, At,
                KeyPressed, KeySwitch, Ended
  <2>3. QED
    BY <2>2 DEF vars, readVars, fate, Overruns
<1>2. CASE ~overrun
  <2>1. ScreenInv'
    BY ScreenStep
  <2>2. PastScrolls'
    BY <2>1, ScreenScrolls, PTL
  <2>3. active' \in UsedIn(terms)' /\ Shape(terms[active])'
    BY <2>1 DEF ScreenInv, OwnedInv, Placed, Owned, UsedIn
  <2>4. terms'[active'].osize >= Screen
    BY <1>2, OverrunStep
  <2>5. ~(terms'[active'].osize < Screen)
    BY <2>3, <2>4, ScreenNotEmpty DEF Shape
  <2>6. QED
    BY <2>2, <2>3, <2>5 DEF PastScrolls, Overruns
<1>3. QED
  BY <1>1, <1>2

\* OutputInside: after any text and in any echo of a line, of any length, the
\* position append_to_buffer writes to next is on the screen, past it only while the
\* task of the terminal scrolls the echo, and only a terminal shown meanwhile
\* overruns the array its output is copied to.
THEOREM OutputOnScreen == Spec => []OutputInside
<1>1. Init => Overruns
  BY DEF Init, Overruns
<1>2. ScreenInv /\ Overruns => OutputInside
  BY ScreenScrolls DEF PastScrolls, Overruns, OutputInside
<1>3. QED
  BY <1>1, <1>2, OverrunsStep, AlwaysScreen, PTL DEF Spec

\* TypeOK, whatever is typed and erased.
THEOREM TypeCorrect == Spec => []TypeOK
<1>1. ScreenInv => TypeOK
  BY ScreenNotEmpty DEF ScreenInv, Shape, OwnedInv, Placed, Labels, TypeOK
<1>2. QED
  BY <1>1, AlwaysScreen, PTL

=============================================================================
