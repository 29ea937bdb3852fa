-------------------------------- MODULE Life --------------------------------
(***************************************************************************)
(* The game of life, the program of one of the terminals: mylib/life.c on  *)
(* top of the drawing loop of ktasks/ktask_life.c.                         *)
(*                                                                         *)
(* The arena is an array of Width * Height characters, row after row; here *)
(* it is the set of the indices that hold 1.  The array of counts is the   *)
(* function from the indices counted at least once to their counts, so an  *)
(* index outside of the array shows in its domain instead of being lost.   *)
(* One task owns both arrays, so the two passes of a generation are steps  *)
(* of their own whatever task switches happen between them.                *)
(*                                                                         *)
(* Left out: the pixels and the prompt; an input that is no sample and no  *)
(* "exit" prints a message and changes nothing.  ALLOC is taken to succeed *)
(* (the code does not test it).                                            *)
(***************************************************************************)
EXTENDS Integers, FiniteSets, Sequences, Functions

CONSTANTS
  Width, Height,      \* the size of the arena, 80 and 25 in start_life
  MaxGenerations      \* bound: generations of one show

ASSUME SizeAssumption == Width \in Nat \ 0 .. 2 /\ Height \in Nat \ 0 .. 2
ASSUME BoundAssumption == MaxGenerations \in Nat

VARIABLES
  pc,           \* "input", "show", "count", "update" or "ended"
  sample,       \* the sample on show
  mode,         \* the mode of the terminal, "TERMINAL" or "PICTURE"
  arena,        \* the live cells
  count_arena,  \* the counts that are not zero
  generation    \* generations since the start of the show

vars == <<pc, sample, mode, arena, count_arena, generation>>

Cells == 0 .. Width * Height - 1
Samples == {"R_PENTOMINO", "GLIDERS", "OSCILLATORS", "QUEEN_BEE"}

-----------------------------------------------------------------------------
(***************************************************************************)
(* The objects.  A shape is its rows from the top one, each the set of its *)
(* columns, with the offset of the top row.                                *)
(***************************************************************************)

BeeRows == <<{3, 5}, {1, 5}, {1}, {0, 5}, {1}, {1, 5}, {3, 5}>>

\* Faulty variant: one of the blocks is placed a column too far from the bee.
BlocksShifted == {-7, -6, 14, 15}

\* The blocks that turn the bee around, on both sides of it.
Blocks == {-6, -5, 14, 15}

Shape(type) ==
  CASE type = "PENT_R"    -> [top |-> -1, rows |-> <<{0, 1}, {-1, 0}, {0}>>]
    [] type = "GLIDER"    -> [top |-> 0, rows |-> <<{1}, {2}, {0, 1, 2}>>]
    [] type = "TUMBLER"   ->
         [top |-> 0, rows |-> <<{1, 2, 4, 5}, {1, 2, 4, 5}, {2, 4},
                                {0, 2, 4, 6}, {0, 2, 4, 6}, {0, 1, 5, 6}>>]
    [] type = "LINE_OSC"  ->
         [top |-> 0, rows |-> <<{0, 3, 5, 6, 8, 11}, 0 .. 11 \ {4, 7},
                                {0, 3, 5, 6, 8, 11}>>]
    [] type = "QUEEN_BEE" -> [top |-> 0, rows |-> BeeRows]
    [] type = "QUEEN_BEE_OSC" ->
         [top |-> 0, rows |-> [i \in 1 .. 7 |->
            BeeRows[i] \union IF i \in {4, 5} THEN Blocks ELSE {}]]

\* The indices that placing the object writes.
Placed(object) ==
  LET shape == Shape(object.type) IN
  UNION {{(object.y + shape.top + i - 1) * Width + object.x + column
            : column \in shape.rows[i]} : i \in DOMAIN shape.rows}

Object(type, x, y) == [type |-> type, x |-> x, y |-> y]

\* The objects of a sample, as life lists them.
Objects(name) ==
  CASE name = "R_PENTOMINO" ->
         {Object("PENT_R", Width \div 2 - 1, Height \div 2 - 1)}
    [] name = "GLIDERS" ->
         {Object("GLIDER", 5 * i, 10) : i \in 0 .. 15}
    [] name = "OSCILLATORS" ->
         {Object("QUEEN_BEE_OSC", 12, Height \div 2 - 2),
          Object("LINE_OSC", 40, Height \div 2),
          Object("TUMBLER", 65, Height \div 2 - 2)}
    [] name = "QUEEN_BEE" ->
         {Object("QUEEN_BEE", Width \div 2, Height \div 2 - 2)}

Start(name) == UNION {Placed(object) : object \in Objects(name)}

-----------------------------------------------------------------------------
(***************************************************************************)
(* One generation of st_life.                                              *)
(***************************************************************************)

\* The steps from a cell to its eight neighbours: x and y of the loops.
Around == (-1 .. 1) \X (0 .. 2) \ {<<0, 1>>}

\* Faulty variant: the columns do not wrap.
TargetNoColumnWrap(k, step) ==
  ((k + (step[2] - 1) * Width) % (Width * Height)) + step[1]

\* Faulty variant: the rows wrap at the top only.
TargetNoBottomWrap(k, step) ==
  LET q == k + (step[2] - 1) * Width IN
  (IF q < 0 THEN q + Width * Height ELSE q) + step[1]

\* The index counted for the step from the cell k: row and column wrap apart.
Target(k, step) ==
  LET q  == k + (step[2] - 1) * Width
      rq == IF q < 0 THEN q + Width * Height
            ELSE IF q >= Width * Height THEN q - Width * Height ELSE q
      rx == IF k % Width = 0 /\ step[1] = -1 THEN Width - 1
            ELSE IF k % Width = Width - 1 /\ step[1] = 1 THEN -(Width - 1)
            ELSE step[1]
  IN  rq + rx

\* The value of an entry of count_arena.
Count(counts, k) == IF k \in DOMAIN counts THEN counts[k] ELSE 0

\* The counts after the first pass over the live cells.
Counted(counts, live) ==
  LET target == [hit \in live \X Around |-> Target(hit[1], hit[2])]
  IN  [k \in DOMAIN counts \union Range(target) |->
         Count(counts, k) + Cardinality({hit \in DOMAIN target : target[hit] = k})]

\* The live cells after the second pass: a count of 2 leaves a cell alone.
Updated(counts, live) ==
  {k \in DOMAIN counts : counts[k] = 3 \/ (counts[k] = 2 /\ k \in live)}

\* An array of zeros, as MEMSET leaves it.
NoCounts == [k \in {} |-> 0]

\* The counts after the second pass, which clears each as it goes.
Cleared(counts) == NoCounts

-----------------------------------------------------------------------------
Init ==
  /\ pc = "input"
  /\ sample = "R_PENTOMINO"
  /\ mode = "TERMINAL"
  /\ arena = {}
  /\ count_arena = NoCounts
  /\ generation = 0

\* A number from 0 to 3 starts the show of a sample.
StartLife(name) ==
  /\ pc = "input"
  /\ pc' = "show"
  /\ sample' = name
  /\ mode' = "PICTURE"
  /\ arena' = Start(name)
  /\ count_arena' = NoCounts
  /\ generation' = 0

\* "exit" ends the program.
Exit ==
  /\ pc = "input"
  /\ pc' = "ended"
  /\ UNCHANGED <<sample, mode, arena, count_arena, generation>>

\* callback_life: without a key it draws the arena and the show goes on ...
Draw ==
  /\ pc = "show"
  /\ generation < MaxGenerations
  /\ pc' = "count"
  /\ UNCHANGED <<sample, mode, arena, count_arena, generation>>

\* ... and any key ends the show and gives both arrays back.
KeyPressed ==
  /\ pc = "show"
  /\ pc' = "input"
  /\ mode' = "TERMINAL"
  /\ arena' = {}
  /\ count_arena' = NoCounts
  /\ generation' = 0
  /\ UNCHANGED sample

\* The first pass: every live cell counts itself at its neighbours.
CountPass ==
  /\ pc = "count"
  /\ pc' = "update"
  /\ count_arena' = Counted(count_arena, arena)
  /\ UNCHANGED <<sample, mode, arena, generation>>

\* The second pass: births, deaths, and the counts back to zero.
UpdatePass ==
  /\ pc = "update"
  /\ pc' = "show"
  /\ arena' = Updated(count_arena, arena)
  /\ count_arena' = Cleared(count_arena)
  /\ generation' = generation + 1
  /\ UNCHANGED <<sample, mode>>

Next ==
  \/ \E name \in Samples : StartLife(name)
  \/ Exit
  \/ Draw
  \/ KeyPressed
  \/ CountPass
  \/ UpdatePass

Spec == Init /\ [][Next]_vars

-----------------------------------------------------------------------------
\* Every variable has its type.  A count is at most 8, so it never leaves the
\* character that st_life keeps it in.
TypeOK ==
  /\ pc \in {"input", "show", "count", "update", "ended"}
  /\ sample \in Samples
  /\ mode \in {"TERMINAL", "PICTURE"}
  /\ arena \subseteq Int
  /\ Range(count_arena) \subseteq 1 .. 8
  /\ generation \in 0 .. MaxGenerations

\* No object and no step to a neighbour leaves the two arrays: st_life checks
\* no index, neither where it places the objects of a sample nor where it
\* counts across the edges.
InsideArena == arena \union DOMAIN count_arena \subseteq Cells

(***************************************************************************)
(* The rules of the game on a torus, from rows and columns.                *)
(***************************************************************************)
At(row, column) == (row % Height) * Width + (column % Width)

Neighbours == [k \in Cells |->
  {At((k \div Width) + dy, (k % Width) + dx) : dx, dy \in -1 .. 1} \ {k}]

ConwayNext(live) ==
  {k \in Cells : LET n == Cardinality(Neighbours[k] \intersect live)
                 IN  n = 3 \/ (n = 2 /\ k \in live)}

\* The two passes, with their wrapping of single rows and columns and with
\* counts that must be back at zero from the generation before, compute the
\* rules of Conway's game on a torus.
NextIsConway == [][pc = "update" => arena' = ConwayNext(arena)]_vars

(***************************************************************************)
(* The oscillators: each keeps to a band of columns of its own, and has    *)
(* the period this object is known by.                                     *)
(***************************************************************************)
Period == [QUEEN_BEE_OSC |-> 30, LINE_OSC |-> 15, TUMBLER |-> 14]

Band == [QUEEN_BEE_OSC |-> 0 .. 33, LINE_OSC |-> 34 .. 59, TUMBLER |-> 60 .. 79]

\* The three oscillators of their sample do oscillate and never touch: each is
\* back at its first picture whenever its own period has passed, although they
\* share one arena.
OscillatorsRepeat ==
  (pc = "show" /\ sample = "OSCILLATORS") =>
    \A object \in Objects("OSCILLATORS") :
      generation % Period[object.type] = 0 =>
        {k \in arena : k % Width \in Band[object.type]} = Placed(object)

=============================================================================
