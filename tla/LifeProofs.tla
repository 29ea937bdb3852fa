----------------------------- MODULE LifeProofs -----------------------------
(***************************************************************************)
(* The game of life, for every arena that is large enough for the samples: *)
(* the wrapping of the indices (mylib/life.c, st_life) is a torus, nothing *)
(* leaves the arrays, and a generation follows the rules of the game.      *)
(*                                                                         *)
(* The argument: an index is a row and a column (Split, Join), and the     *)
(* wrapping of each is a step around a ring (TargetIsAt).  Steps around a  *)
(* ring of three places or more can be taken back and differ (Ring), so    *)
(* the cells that count themselves at k are, each once, its neighbours     *)
(* (Mutual, HitsAreNeighbours).                                            *)
(***************************************************************************)
EXTENDS Life, FiniteSetTheorems, TLAPS

\* A remainder of a number next to 0 .. n - 1.
LEMMA Wrap ==
  ASSUME NEW n \in Nat, n >= 3, NEW a \in 0 .. n - 1, NEW d \in -1 .. 1
  PROVE  (a + d) % n = IF a + d < 0 THEN n - 1 ELSE IF a + d = n THEN 0 ELSE a + d
OBVIOUS

\* The places of a ring are their own remainders.
LEMMA Remainder ==
  ASSUME NEW n \in Nat, NEW a \in 0 .. n - 1
  PROVE  a % n = a /\ a + 0 = a
OBVIOUS

\* A step of -1, 0 or 1 around a ring of three places or more can be taken
\* back, and different steps end at different places.
LEMMA Ring ==
  ASSUME NEW n \in Nat, n >= 3, NEW a \in 0 .. n - 1, NEW d \in -1 .. 1
  PROVE  /\ (a + d) % n \in 0 .. n - 1
         /\ (((a + d) % n) - d) % n = a
         /\ ((a + d) % n) % n = (a + d) % n
         /\ a % n = a
         /\ \A e \in -1 .. 1 : (a + d) % n = (a + e) % n => d = e
<1>1. /\ (a + d) % n \in 0 .. n - 1
      /\ \A b \in 0 .. n - 1 : b % n = b
  BY Wrap
<1>2. (((a + d) % n) - d) % n = a
  <2> DEFINE b == (a + d) % n
             e == -d
  <2>1. b \in 0 .. n - 1 /\ e \in -1 .. 1 /\ b - d = b + e
    BY <1>1
  <2>2. b = IF a + d < 0 THEN n - 1 ELSE IF a + d = n THEN 0 ELSE a + d
    BY Wrap
  <2> HIDE DEF b
  <2>3. (b + e) % n = IF b + e < 0 THEN n - 1 ELSE IF b + e = n THEN 0 ELSE b + e
    BY <2>1, Wrap
  <2> QED
    BY <2>1, <2>2, <2>3
<1>3. \A e \in -1 .. 1 : (a + d) % n = (a + e) % n => d = e
  BY Wrap
<1> QED
  BY <1>1, <1>2, <1>3

-----------------------------------------------------------------------------
Row(k) == k \div Width
Column(k) == k % Width

\* Every index is in one row and one column ...
LEMMA Split ==
  ASSUME NEW k \in Cells
  PROVE  /\ Row(k) \in 0 .. Height - 1
         /\ Column(k) \in 0 .. Width - 1
         /\ k = Row(k) * Width + Column(k)
<1>1. k = Row(k) * Width + Column(k) /\ Column(k) \in 0 .. Width - 1 /\ Row(k) \in Int
  BY SizeAssumption DEF Cells, Row, Column
<1>2. Row(k) >= 0
  BY SizeAssumption, <1>1 DEF Cells
<1>3. Row(k) < Height
  BY SizeAssumption, <1>1 DEF Cells
<1> QED
  BY <1>1, <1>2, <1>3, SizeAssumption

\* ... and every row and column have an index.
LEMMA Join ==
  ASSUME NEW r \in 0 .. Height - 1, NEW c \in 0 .. Width - 1
  PROVE  /\ r * Width + c \in Cells
         /\ Row(r * Width + c) = r
         /\ Column(r * Width + c) = c
<1>1. r * Width + c \in Cells
  BY SizeAssumption DEF Cells
<1>2. /\ Row(r * Width + c) = r
      /\ Column(r * Width + c) = c
  BY SizeAssumption DEF Row, Column
<1> QED
  BY <1>1, <1>2

\* st_life wraps the index by two comparisons, with the row and the column
\* apart; what it gets is the next cell on a torus.
LEMMA TargetIsAt ==
  ASSUME NEW k \in Cells, NEW step \in Around
  PROVE  /\ Target(k, step) = At(Row(k) + (step[2] - 1), Column(k) + step[1])
         /\ Target(k, step) \in Cells
         /\ Row(Target(k, step)) = (Row(k) + (step[2] - 1)) % Height
         /\ Column(Target(k, step)) = (Column(k) + step[1]) % Width
<1> DEFINE r == Row(k)
           c == Column(k)
           dy == step[2] - 1
           dx == step[1]
           y == (r + dy) % Height
           x == (c + dx) % Width
           q == k + dy * Width
           rq == IF q < 0 THEN q + Width * Height
                 ELSE IF q >= Width * Height THEN q - Width * Height ELSE q
           rx == IF c = 0 /\ dx = -1 THEN Width - 1
                 ELSE IF c = Width - 1 /\ dx = 1 THEN -(Width - 1) ELSE dx
<1>1. /\ Width \in Nat /\ Height \in Nat /\ Width >= 3 /\ Height >= 3
      /\ dx \in -1 .. 1 /\ dy \in -1 .. 1
  BY SizeAssumption DEF Around
<1>2. r \in 0 .. Height - 1 /\ c \in 0 .. Width - 1 /\ k = r * Width + c
  BY Split
<1>3. y = IF r + dy < 0 THEN Height - 1 ELSE IF r + dy = Height THEN 0 ELSE r + dy
  BY <1>1, <1>2, Wrap
<1>4. x = IF c + dx < 0 THEN Width - 1 ELSE IF c + dx = Width THEN 0 ELSE c + dx
  BY <1>1, <1>2, Wrap
<1>5. Target(k, step) = rq + rx
  BY DEF Target, Column
<1> HIDE DEF r, c, dx, dy, y, x
<1>6. rx = x - c
  BY <1>1, <1>2, <1>4
<1>7. rq = y * Width + c
  <2>1. CASE dy = -1
    <3>1. CASE r = 0
      BY <1>1, <1>2, <1>3, <2>1, <3>1
    <3>2. CASE r > 0
      <4>1. y = r - 1 /\ q = (r - 1) * Width + c
        BY <1>1, <1>2, <1>3, <2>1, <3>2
      <4>2. y \in 0 .. Height - 1
        BY <1>1, <1>2, <3>2, <4>1
      <4>3. y * Width + c >= 0 /\ y * Width + c < Width * Height
        BY <1>1, <1>2, <4>2, Join DEF Cells
      <4>4. q = y * Width + c
        BY <4>1
      <4> HIDE DEF q
      <4> QED
        BY <1>1, <1>2, <4>2, <4>3, <4>4
    <3> QED
      BY <1>2, <3>1, <3>2
  <2>2. CASE dy = 0
    BY <1>1, <1>2, <1>3, <2>2 DEF Cells
  <2>3. CASE dy = 1
    <3>1. CASE r = Height - 1
      BY <1>1, <1>2, <1>3, <2>3, <3>1
    <3>2. CASE r < Height - 1
      <4>1. y = r + 1 /\ q = (r + 1) * Width + c
        BY <1>1, <1>2, <1>3, <2>3, <3>2
      <4>2. y \in 0 .. Height - 1
        BY <1>1, <1>2, <3>2, <4>1
      <4>3. y * Width + c >= 0 /\ y * Width + c < Width * Height
        BY <1>1, <1>2, <4>2, Join DEF Cells
      <4>4. q = y * Width + c
        BY <4>1
      <4> HIDE DEF q
      <4> QED
        BY <1>1, <1>2, <4>2, <4>3, <4>4
    <3> QED
      BY <1>1, <1>2, <3>1, <3>2
  <2> QED
    BY <1>1, <2>1, <2>2, <2>3
<1>8. y \in 0 .. Height - 1 /\ x \in 0 .. Width - 1
  BY <1>1, <1>2, <1>3, <1>4
<1>9. Target(k, step) = y * Width + x
  <2>1. y * Width \in Int
    BY <1>1, <1>8
  <2> QED
    BY <1>1, <1>2, <1>5, <1>6, <1>7, <1>8, <2>1
<1>10. Target(k, step) = At(r + dy, c + dx)
  BY <1>9 DEF At, y, x
<1> QED
  BY <1>8, <1>9, <1>10, Join DEF r, c, dx, dy, y, x

-----------------------------------------------------------------------------
\* An object whose rows and columns are on the arena is inside the array.
LEMMA PlacedFits ==
  ASSUME NEW object, NEW shape, shape = Shape(object.type),
         \A i \in DOMAIN shape.rows :
           /\ object.y + shape.top + i - 1 \in 0 .. Height - 1
           /\ \A column \in shape.rows[i] : /\ object.x + column \in 0 .. Width - 1
                                            /\ object.x \in Int /\ column \in Int
  PROVE  Placed(object) \subseteq Cells
<1> SUFFICES ASSUME NEW i \in DOMAIN shape.rows, NEW column \in shape.rows[i]
             PROVE  (object.y + shape.top + i - 1) * Width + object.x + column \in Cells
  BY DEF Placed
<1> DEFINE r == object.y + shape.top + i - 1
           c == object.x + column
<1>1. r \in 0 .. Height - 1 /\ c \in 0 .. Width - 1 /\ object.x \in Int /\ column \in Int
  OBVIOUS
<1> HIDE DEF r
<1>2. r * Width + object.x + column = r * Width + c
  BY <1>1, SizeAssumption
<1>3. r * Width + c \in Cells
  BY <1>1, Join
<1> QED
  BY <1>2, <1>3 DEF r

\* The samples, placed at fixed columns and rows and around the middle, need an
\* arena of 80 by 25 and fit on every larger one.
LEMMA SamplesFit ==
  ASSUME Width >= 80, Height >= 25, NEW name \in Samples
  PROVE  Start(name) \subseteq Cells
<1> SUFFICES ASSUME NEW object \in Objects(name) PROVE Placed(object) \subseteq Cells
  BY DEF Start
<1>0. /\ Width \in Nat /\ Width \div 2 \in 40 .. Width - 40
      /\ Height \in Nat /\ Height \div 2 \in 12 .. Height - 13
  BY SizeAssumption
<1>1. CASE name = "R_PENTOMINO"
  <2>1. object = Object("PENT_R", Width \div 2 - 1, Height \div 2 - 1)
    BY <1>1 DEF Objects
  <2>2. Shape("PENT_R") = [top |-> -1, rows |-> <<{0, 1}, {-1, 0}, {0}>>]
    BY DEF Shape
  <2> QED
    BY <1>0, <2>1, <2>2, PlacedFits DEF Object
<1>2. CASE name = "GLIDERS"
  <2>1. PICK i \in 0 .. 15 : object = Object("GLIDER", 5 * i, 10)
    BY <1>2 DEF Objects
  <2>2. Shape("GLIDER") = [top |-> 0, rows |-> <<{1}, {2}, {0, 1, 2}>>]
    BY DEF Shape
  <2> QED
    BY <1>0, <2>1, <2>2, PlacedFits DEF Object
<1>3. CASE name = "QUEEN_BEE"
  <2>1. object = Object("QUEEN_BEE", Width \div 2, Height \div 2 - 2)
    BY <1>3 DEF Objects
  <2>2. Shape("QUEEN_BEE") = [top |-> 0, rows |-> BeeRows]
    BY DEF Shape
  <2> QED
    BY <1>0, <2>1, <2>2, PlacedFits DEF Object, BeeRows
<1>4. CASE name = "OSCILLATORS"
  <2>1. CASE object = Object("QUEEN_BEE_OSC", 12, Height \div 2 - 2)
    <3> DEFINE rows == [i \in 1 .. 7 |->
                          BeeRows[i] \union IF i \in {4, 5} THEN Blocks ELSE {}]
    <3>1. Shape("QUEEN_BEE_OSC") = [top |-> 0, rows |-> rows]
      BY DEF Shape
    <3>2. \A i \in 1 .. 7 : BeeRows[i] \subseteq 0 .. 5
      BY DEF BeeRows
    <3>3. \A i \in 1 .. 7 : rows[i] \subseteq -6 .. 15
      BY <3>2 DEF Blocks
    <3> HIDE DEF rows
    <3>4. DOMAIN rows = 1 .. 7
      BY DEF rows
    <3> QED
      BY <1>0, <2>1, <3>1, <3>3, <3>4, PlacedFits DEF Object
  <2>2. CASE object = Object("LINE_OSC", 40, Height \div 2)
    <3>1. Shape("LINE_OSC") = [top |-> 0, rows |->
                 <<{0, 3, 5, 6, 8, 11}, 0 .. 11 \ {4, 7}, {0, 3, 5, 6, 8, 11}>>]
      BY DEF Shape
    <3> QED
      BY <1>0, <2>2, <3>1, PlacedFits DEF Object
  <2>3. CASE object = Object("TUMBLER", 65, Height \div 2 - 2)
    <3>1. Shape("TUMBLER") = [top |-> 0, rows |->
                 <<{1, 2, 4, 5}, {1, 2, 4, 5}, {2, 4},
                   {0, 2, 4, 6}, {0, 2, 4, 6}, {0, 1, 5, 6}>>]
      BY DEF Shape
    <3> QED
      BY <1>0, <2>3, <3>1, PlacedFits DEF Object
  <2> QED
    BY <1>4, <2>1, <2>2, <2>3 DEF Objects
<1> QED
  BY <1>1, <1>2, <1>3, <1>4 DEF Samples

-----------------------------------------------------------------------------
\* What a step to a neighbour is on one axis.
LEMMA Steps ==
  /\ \A step \in Around : /\ step[1] \in -1 .. 1 /\ step[2] \in 0 .. 2
                          /\ step[2] - 1 \in -1 .. 1
                          /\ ~(step[1] = 0 /\ step[2] = 1)
                          /\ step = <<step[1], step[2]>>
  /\ \A dx, dy \in -1 .. 1 : (dx # 0 \/ dy # 0) => <<dx, dy + 1>> \in Around
BY DEF Around

\* Two cells of one row and column are one.
LEMMA SamePlace ==
  ASSUME NEW j \in Cells, NEW k \in Cells, Row(j) = Row(k), Column(j) = Column(k)
  PROVE  j = k
BY Split

\* The eight steps from a cell end at different places.
LEMMA StepsDiffer ==
  ASSUME NEW j \in Cells, NEW s \in Around, NEW t \in Around, Target(j, s) = Target(j, t)
  PROVE  s = t
<1> DEFINE r == Row(j)
           c == Column(j)
<1>1. (r + (s[2] - 1)) % Height = (r + (t[2] - 1)) % Height
  BY TargetIsAt
<1>2. (c + s[1]) % Width = (c + t[1]) % Width
  BY TargetIsAt
<1>3. r \in 0 .. Height - 1 /\ c \in 0 .. Width - 1
  BY Split
<1> HIDE DEF r, c
<1>4. s[2] - 1 = t[2] - 1
  BY <1>1, <1>3, Steps, Ring, SizeAssumption
<1>5. s[1] = t[1]
  BY <1>2, <1>3, Steps, Ring, SizeAssumption
<1> QED
  BY <1>4, <1>5, Steps

\* A cell is a neighbour of those it counts itself at.
LEMMA Mutual ==
  ASSUME NEW j \in Cells, NEW k \in Cells
  PROVE  (\E s \in Around : Target(j, s) = k) <=> j \in Neighbours[k]
<1> DEFINE around == {At((k \div Width) + dy, (k % Width) + dx) : dx, dy \in -1 .. 1}
<1>0. Neighbours[k] = around \ {k}
  BY DEF Neighbours
<1>1. /\ Width \in Nat /\ Width >= 3 /\ Height \in Nat /\ Height >= 3
  BY SizeAssumption
<1>2. /\ Row(j) \in 0 .. Height - 1 /\ Column(j) \in 0 .. Width - 1
      /\ Row(k) \in 0 .. Height - 1 /\ Column(k) \in 0 .. Width - 1
      /\ j = Row(j) * Width + Column(j) /\ k = Row(k) * Width + Column(k)
  BY Split
<1>3. ASSUME NEW s \in Around, Target(j, s) = k PROVE j \in Neighbours[k]
  <2> DEFINE dx == -s[1]
             dy == -(s[2] - 1)
  <2>1. Row(k) = (Row(j) + (s[2] - 1)) % Height /\ Column(k) = (Column(j) + s[1]) % Width
    BY <1>3, TargetIsAt
  <2>2. dx \in -1 .. 1 /\ dy \in -1 .. 1
    BY Steps
  <2>3. (Row(k) - (s[2] - 1)) % Height = Row(j) /\ (Column(k) - s[1]) % Width = Column(j)
    BY <1>1, <1>2, <2>1, Steps, Ring
  <2>4. Row(k) + dy = Row(k) - (s[2] - 1) /\ Column(k) + dx = Column(k) - s[1]
    BY <1>2, Steps
  <2>5. j = At(Row(k) + dy, Column(k) + dx)
    BY <1>2, <2>3, <2>4 DEF At
  <2>6. j # k
    <3>1. s[1] # 0 \/ s[2] - 1 # 0
      BY Steps
    <3>2. /\ Row(j) % Height = Row(j) /\ Row(j) + 0 = Row(j)
          /\ Column(j) % Width = Column(j) /\ Column(j) + 0 = Column(j)
      BY <1>1, <1>2, Remainder
    <3>3. CASE s[1] # 0
      <4>1. (Column(j) + s[1]) % Width # (Column(j) + 0) % Width
        BY <1>1, <1>2, <3>3, Steps, Ring
      <4> QED
        BY <2>1, <3>2, <4>1
    <3>4. CASE s[2] - 1 # 0
      <4>1. (Row(j) + (s[2] - 1)) % Height # (Row(j) + 0) % Height
        BY <1>1, <1>2, <3>4, Steps, Ring
      <4> QED
        BY <2>1, <3>2, <4>1
    <3> QED
      BY <3>1, <3>3, <3>4
  <2>7. j \in around
    BY <2>2, <2>5 DEF Row, Column
  <2> QED
    BY <1>0, <2>6, <2>7
<1>4. ASSUME j \in Neighbours[k] PROVE \E s \in Around : Target(j, s) = k
  <2>1. PICK dx \in -1 .. 1, dy \in -1 .. 1 : j = At(Row(k) + dy, Column(k) + dx)
    BY <1>0, <1>4 DEF Row, Column
  <2> DEFINE y == (Row(k) + dy) % Height
             x == (Column(k) + dx) % Width
             s == <<-dx, (-dy) + 1>>
  <2>2. y \in 0 .. Height - 1 /\ x \in 0 .. Width - 1
    BY <1>1, <1>2, Ring
  <2>3. Row(j) = y /\ Column(j) = x
    BY <2>1, <2>2, Join DEF At
  <2>4. dx # 0 \/ dy # 0
    <3> SUFFICES ASSUME dx = 0, dy = 0 PROVE FALSE
      OBVIOUS
    <3>1. y = Row(k) /\ x = Column(k)
      BY <1>1, <1>2, Remainder
    <3> QED
      BY <1>0, <1>4, <2>3, <3>1, SamePlace
  <2>5. s \in Around
    BY <2>4, Steps
  <2>6. (y - dy) % Height = Row(k) /\ (x - dx) % Width = Column(k)
    BY <1>1, <1>2, Ring
  <2>7. y + (s[2] - 1) = y - dy /\ x + s[1] = x - dx
    BY <2>2
  <2>8. Row(Target(j, s)) = Row(k) /\ Column(Target(j, s)) = Column(k)
    BY <2>3, <2>5, <2>6, <2>7, TargetIsAt
  <2> QED
    BY <2>5, <2>8, TargetIsAt, SamePlace
<1> QED
  BY <1>3, <1>4

-----------------------------------------------------------------------------
\* Cardinalities of sets of cells are numbers.
LEMMA CellsFinite == IsFiniteSet(Cells)
BY SizeAssumption, FS_Interval DEF Cells

\* The cells that count themselves at k are its live neighbours, each once.
LEMMA HitsAreNeighbours ==
  ASSUME NEW live \in SUBSET Cells, NEW k \in Cells
  PROVE  LET hits == {hit \in live \X Around : Target(hit[1], hit[2]) = k}
         IN  /\ IsFiniteSet(hits)
             /\ Cardinality(hits) = Cardinality(Neighbours[k] \intersect live)
<1> DEFINE hits == {hit \in live \X Around : Target(hit[1], hit[2]) = k}
           near == Neighbours[k] \intersect live
           from == [hit \in hits |-> hit[1]]
<1>1. IsFiniteSet(near)
  BY CellsFinite, FS_Subset
<1>2. from \in [hits -> near]
  <2> SUFFICES ASSUME NEW hit \in hits PROVE hit[1] \in near
    OBVIOUS
  <2> QED
    BY Mutual
<1>3. from \in Injection(hits, near)
  <2>1. ASSUME NEW g \in hits, NEW h \in hits, from[g] = from[h] PROVE g = h
    <3>1. g[1] = h[1] /\ g[1] \in Cells /\ g[2] \in Around /\ h[2] \in Around
      BY <2>1
    <3>2. Target(g[1], g[2]) = Target(g[1], h[2])
      BY <3>1
    <3>3. g[2] = h[2]
      BY <3>1, <3>2, StepsDiffer
    <3> QED
      BY <3>1, <3>3
  <2> QED
    BY <1>2, <2>1 DEF Injection, IsInjective
<1>4. from \in Surjection(hits, near)
  <2>1. ASSUME NEW j \in near PROVE \E hit \in hits : from[hit] = j
    <3>1. PICK s \in Around : Target(j, s) = k
      BY Mutual
    <3>2. <<j, s>> \in hits
      BY <3>1
    <3> QED
      BY <3>2
  <2> QED
    BY <1>2, <2>1 DEF Surjection
<1> QED
  BY <1>1, <1>3, <1>4, FS_Injection

\* The counts of one pass over zeros.
LEMMA CountedIs ==
  ASSUME NEW live \in SUBSET Cells
  PROVE  LET counts == Counted(NoCounts, live)
         IN  /\ DOMAIN counts \subseteq Cells
             /\ \A k \in DOMAIN counts :
                  counts[k] = Cardinality(Neighbours[k] \intersect live)
             /\ \A k \in Cells \ DOMAIN counts : Neighbours[k] \intersect live = {}
<1> DEFINE target == [hit \in live \X Around |-> Target(hit[1], hit[2])]
           counts == Counted(NoCounts, live)
           hits(k) == {hit \in live \X Around : Target(hit[1], hit[2]) = k}
<1>1. Range(target) = {k \in Cells : hits(k) # {}}
  <2>1. \A hit \in live \X Around : Target(hit[1], hit[2]) \in Cells
    BY TargetIsAt
  <2> QED
    BY <2>1 DEF Range
<1>2. counts = [k \in Range(target) |->
                   0 + Cardinality({hit \in DOMAIN target : target[hit] = k})]
  BY DEF Counted, NoCounts, Count
<1>3. \A k : {hit \in DOMAIN target : target[hit] = k} = hits(k)
  OBVIOUS
<1>4. \A k \in DOMAIN counts : counts[k] = 0 + Cardinality(hits(k))
  BY <1>2, <1>3
<1>5. DOMAIN counts = {k \in Cells : hits(k) # {}}
  BY <1>1, <1>2
<1>6. ASSUME NEW k \in DOMAIN counts
      PROVE  counts[k] = Cardinality(Neighbours[k] \intersect live)
  <2>1. /\ k \in Cells /\ IsFiniteSet(hits(k))
        /\ Cardinality(hits(k)) = Cardinality(Neighbours[k] \intersect live)
    BY <1>5, HitsAreNeighbours
  <2>2. Cardinality(hits(k)) \in Nat
    BY <2>1, FS_CardinalityType
  <2> HIDE DEF hits, counts
  <2> QED
    BY <1>4, <2>1, <2>2
<1>7. ASSUME NEW k \in Cells \ DOMAIN counts
      PROVE  Neighbours[k] \intersect live = {}
  <2>1. hits(k) = {}
    BY <1>5
  <2>2. ASSUME NEW j \in Neighbours[k] \intersect live PROVE FALSE
    <3>1. PICK s \in Around : Target(j, s) = k
      BY Mutual
    <3>2. <<j, s>> \in hits(k)
      BY <3>1
    <3> QED
      BY <2>1, <3>2
  <2> QED
    BY <2>2
<1> QED
  BY <1>5, <1>6, <1>7

-----------------------------------------------------------------------------
\* Both arrays stay inside themselves, and a pass begins with counts of zero.
LifeInv ==
  /\ arena \subseteq Cells
  /\ pc \in {"input", "show", "count", "ended"} => count_arena = NoCounts
  /\ pc = "update" => count_arena = Counted(NoCounts, arena)
  /\ pc \in {"input", "show", "count", "update", "ended"}

\* Every step keeps the invariant.
LEMMA LifeStep ==
  ASSUME Width >= 80, Height >= 25
  PROVE  LifeInv /\ [Next]_vars => LifeInv'
<1> SUFFICES ASSUME LifeInv, [Next]_vars PROVE LifeInv'
  OBVIOUS
<1> USE DEF LifeInv
<1>1. ASSUME NEW name \in Samples, StartLife(name) PROVE LifeInv'
  BY <1>1, SamplesFit DEF StartLife
<1>2. CASE Exit
  BY <1>2 DEF Exit
<1>3. CASE Draw
  BY <1>3 DEF Draw
<1>4. CASE KeyPressed
  BY <1>4 DEF KeyPressed
<1>5. CASE CountPass
  BY <1>5 DEF CountPass
<1>6. CASE UpdatePass
  <2>1. arena' \subseteq DOMAIN count_arena
    BY <1>6 DEF UpdatePass, Updated
  <2>2. DOMAIN count_arena \subseteq Cells
    BY <1>6, CountedIs DEF UpdatePass
  <2> QED
    BY <1>6, <2>1, <2>2 DEF UpdatePass, Cleared
<1>7. CASE UNCHANGED vars
  BY <1>7 DEF vars
<1> QED
  BY <1>1, <1>2, <1>3, <1>4, <1>5, <1>6, <1>7 DEF Next

\* The invariant holds in every reachable state.
LEMMA LifeAlways ==
  ASSUME Width >= 80, Height >= 25
  PROVE  Spec => []LifeInv
<1>1. Init => LifeInv
  BY DEF Init, LifeInv
<1>2. LifeInv /\ [Next]_vars => LifeInv'
  BY LifeStep
<1> QED
  BY <1>1, <1>2, PTL DEF Spec

\* InsideArena: st_life writes and counts inside its two arrays only, though it
\* checks no index, in every generation of every sample.
THEOREM NeverOutside ==
  ASSUME Width >= 80, Height >= 25
  PROVE  Spec => []InsideArena
<1>1. LifeInv => InsideArena
  <2> SUFFICES ASSUME LifeInv PROVE InsideArena
    OBVIOUS
  <2>1. DOMAIN NoCounts = {}
    BY DEF NoCounts
  <2>2. arena \in SUBSET Cells
    BY DEF LifeInv
  <2> QED
    BY <2>1, <2>2, CountedIs DEF LifeInv, InsideArena
<1> QED
  BY <1>1, LifeAlways, PTL

\* NextIsConway: the two passes of st_life compute, from any picture a sample may
\* come to, the picture that the rules of the game ask for.
THEOREM LifeIsConway ==
  ASSUME Width >= 80, Height >= 25
  PROVE  Spec => NextIsConway
<1>1. LifeInv /\ [Next]_vars => [pc = "update" => arena' = ConwayNext(arena)]_vars
  <2> SUFFICES ASSUME LifeInv, Next, pc = "update" PROVE arena' = ConwayNext(arena)
    OBVIOUS
  <2> DEFINE n(k) == Cardinality(Neighbours[k] \intersect arena)
             counts == Counted(NoCounts, arena)
  <2>1. arena' = Updated(counts, arena)
    BY DEF Next, StartLife, Exit, Draw, KeyPressed, CountPass, UpdatePass, LifeInv
  <2>2. arena \in SUBSET Cells
    BY DEF LifeInv
  <2>3. /\ DOMAIN counts \subseteq Cells
        /\ \A k \in DOMAIN counts : counts[k] = n(k)
        /\ \A k \in Cells \ DOMAIN counts : Neighbours[k] \intersect arena = {}
    BY <2>2, CountedIs
  <2>4. \A k \in Cells \ DOMAIN counts : n(k) = 0
    BY <2>3, FS_EmptySet
  <2>5. Updated(counts, arena) =
          {k \in DOMAIN counts : n(k) = 3 \/ (n(k) = 2 /\ k \in arena)}
    BY <2>3 DEF Updated
  <2>6. ConwayNext(arena) = {k \in Cells : n(k) = 3 \/ (n(k) = 2 /\ k \in arena)}
    BY DEF ConwayNext
  <2> HIDE DEF n, counts
  <2> QED
    BY <2>1, <2>3, <2>4, <2>5, <2>6
<1> QED
  BY <1>1, LifeAlways, PTL DEF Spec, NextIsConway

-----------------------------------------------------------------------------
\* There are eight steps to a neighbour.
LEMMA EightSteps == IsFiniteSet(Around) /\ Cardinality(Around) <= 8
<1> DEFINE f == [i \in 1 .. 8 |->
                   CASE i = 1 -> <<-1, 0>> [] i = 2 -> <<-1, 1>> [] i = 3 -> <<-1, 2>>
                     [] i = 4 -> <<0, 0>> [] i = 5 -> <<0, 2>>
                     [] i = 6 -> <<1, 0>> [] i = 7 -> <<1, 1>> [] OTHER -> <<1, 2>>]
<1>1. f \in [1 .. 8 -> Around]
  BY DEF Around
<1>2. ASSUME NEW s \in Around PROVE \E i \in 1 .. 8 : f[i] = s
  <2>1. PICK x \in -1 .. 1, y \in 0 .. 2 : s = <<x, y>> /\ ~(x = 0 /\ y = 1)
    BY DEF Around
  <2>2. /\ f[1] = <<-1, 0>> /\ f[2] = <<-1, 1>> /\ f[3] = <<-1, 2>> /\ f[4] = <<0, 0>>
        /\ f[5] = <<0, 2>> /\ f[6] = <<1, 0>> /\ f[7] = <<1, 1>> /\ f[8] = <<1, 2>>
    OBVIOUS
  <2>3. /\ x = -1 \/ x = 0 \/ x = 1
        /\ y = 0 \/ y = 1 \/ y = 2
    OBVIOUS
  <2> HIDE DEF f
  <2> QED
    BY <2>1, <2>2, <2>3
<1>3. f \in Surjection(1 .. 8, Around)
  BY <1>1, <1>2 DEF Surjection
<1>4. IsFiniteSet(1 .. 8) /\ Cardinality(1 .. 8) = 8
  <2>1. 1 \in Int /\ 8 \in Int /\ ~(1 > 8) /\ 8 - 1 + 1 = 8
    OBVIOUS
  <2>2. /\ IsFiniteSet(1 .. 8)
        /\ Cardinality(1 .. 8) = IF 1 > 8 THEN 0 ELSE 8 - 1 + 1
    BY <2>1, FS_Interval, Zenon
  <2> QED
    BY <2>1, <2>2
<1> QED
  BY <1>3, <1>4, FS_Surjection

\* A cell has eight neighbours at most.
LEMMA EightNeighbours ==
  ASSUME NEW k \in Cells, NEW live
  PROVE  Cardinality(Neighbours[k] \intersect live) \in 0 .. 8
<1> DEFINE around == {Target(k, s) : s \in Around}
           f == [s \in Around |-> Target(k, s)]
<1>1. f \in Surjection(Around, around)
  BY DEF Surjection
<1>2. IsFiniteSet(around) /\ Cardinality(around) <= 8 /\ Cardinality(around) \in Nat
  <2> HIDE DEF f, around
  <2>1. IsFiniteSet(around) /\ Cardinality(around) <= Cardinality(Around)
    BY <1>1, EightSteps, FS_Surjection
  <2>2. Cardinality(around) \in Nat /\ Cardinality(Around) \in Nat
    BY <2>1, EightSteps, FS_CardinalityType
  <2> QED
    BY <2>1, <2>2, EightSteps
<1>3. Neighbours[k] \subseteq around
  <2> SUFFICES ASSUME NEW j \in Neighbours[k] PROVE j \in around
    OBVIOUS
  <2>1. PICK dx \in -1 .. 1, dy \in -1 .. 1 :
          j = At((k \div Width) + dy, (k % Width) + dx) /\ j # k
    BY DEF Neighbours
  <2>2. dx # 0 \/ dy # 0
    <3> SUFFICES ASSUME dx = 0, dy = 0 PROVE FALSE
      OBVIOUS
    <3>1. /\ Row(k) \in 0 .. Height - 1 /\ Column(k) \in 0 .. Width - 1
          /\ k = Row(k) * Width + Column(k)
      BY Split
    <3>2. /\ Row(k) % Height = Row(k) /\ Row(k) + 0 = Row(k)
          /\ Column(k) % Width = Column(k) /\ Column(k) + 0 = Column(k)
      BY <3>1, SizeAssumption, Remainder
    <3>3. At(Row(k) + dy, Column(k) + dx) = k
      BY <3>1, <3>2 DEF At
    <3> QED
      BY <2>1, <3>3 DEF Row, Column
  <2> DEFINE s == <<dx, dy + 1>>
  <2>3. s \in Around /\ s[1] = dx /\ s[2] - 1 = dy
    BY <2>2, Steps
  <2>4. Target(k, s) = At(Row(k) + dy, Column(k) + dx)
    BY <2>3, TargetIsAt
  <2> QED
    BY <2>1, <2>3, <2>4 DEF Row, Column
<1>4. Neighbours[k] \intersect live \in SUBSET around
  BY <1>3
<1> HIDE DEF around
<1>5. IsFiniteSet(Neighbours[k] \intersect live)
      /\ Cardinality(Neighbours[k] \intersect live) <= Cardinality(around)
  BY <1>2, <1>4, FS_Subset
<1>6. Cardinality(Neighbours[k] \intersect live) \in Nat
  BY <1>5, FS_CardinalityType
<1> QED
  BY <1>2, <1>5, <1>6

\* A cell that is counted is counted once to eight times.
LEMMA CountsFit ==
  ASSUME NEW live \in SUBSET Cells
  PROVE  Range(Counted(NoCounts, live)) \subseteq 1 .. 8
<1> DEFINE counts == Counted(NoCounts, live)
           target == [hit \in live \X Around |-> Target(hit[1], hit[2])]
<1> SUFFICES ASSUME NEW k \in DOMAIN counts PROVE counts[k] \in 1 .. 8
  BY DEF Range
<1>1. k \in Cells /\ counts[k] = Cardinality(Neighbours[k] \intersect live)
  BY CountedIs
<1>2. counts[k] \in 0 .. 8
  BY <1>1, EightNeighbours
<1>3. Neighbours[k] \intersect live # {}
  <2>1. k \in Range(target)
    BY DEF Counted, NoCounts
  <2>2. PICK j \in live, s \in Around : Target(j, s) = k
    BY <2>1 DEF Range
  <2>3. j \in Neighbours[k]
    BY <1>1, <2>2, Mutual
  <2> QED
    BY <2>3
<1>4. counts[k] # 0
  <2>1. IsFiniteSet(Neighbours[k] \intersect live)
    BY CellsFinite, FS_Subset
  <2> HIDE DEF counts
  <2> QED
    BY <1>1, <1>3, <2>1, FS_EmptySet
<1> HIDE DEF counts
<1> QED
  BY <1>2, <1>4

\* The other variables; a generation that is begun is within the bound.
ShowInv == /\ sample \in Samples
           /\ mode \in {"TERMINAL", "PICTURE"}
           /\ generation \in 0 .. MaxGenerations
           /\ pc \in {"count", "update"} => generation < MaxGenerations

\* TypeOK: no count is above eight, so none runs over in the character that
\* st_life keeps it in, and the other variables have their types.
THEOREM TypeCorrect ==
  ASSUME Width >= 80, Height >= 25
  PROVE  Spec => []TypeOK
<1>1. Init => ShowInv
  BY BoundAssumption DEF Init, ShowInv, Samples
<1>2. ShowInv /\ [Next]_vars => ShowInv'
  BY BoundAssumption
     DEF ShowInv, Next, vars, StartLife, Exit, Draw, KeyPressed, CountPass, UpdatePass
<1>3. LifeInv /\ ShowInv => TypeOK
  <2> SUFFICES ASSUME LifeInv, ShowInv PROVE TypeOK
    OBVIOUS
  <2>1. Range(NoCounts) = {}
    BY DEF Range, NoCounts
  <2>2. Range(count_arena) \subseteq 1 .. 8
    BY <2>1, CountsFit DEF LifeInv
  <2>3. arena \subseteq Int
    BY SizeAssumption DEF LifeInv, Cells
  <2> QED
    BY <2>2, <2>3 DEF TypeOK, LifeInv, ShowInv
<1> QED
  BY <1>1, <1>2, <1>3, LifeAlways, PTL DEF Spec
=============================================================================
