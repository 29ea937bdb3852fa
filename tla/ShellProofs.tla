---------------------------- MODULE ShellProofs ----------------------------
(***************************************************************************)
(* Proofs about Shell, for lines of any length, buffers and numbers of any *)
(* size.                                                                   *)
(***************************************************************************)
EXTENDS Shell, SequenceTheorems, FiniteSetTheorems, WellFoundedInduction, TLAPS

-----------------------------------------------------------------------------
(***************************************************************************)
(* Numbers.                                                                *)
(***************************************************************************)
\* Induction over the natural numbers, for a set in place of a predicate.
LEMMA NatSetInduction ==
  ASSUME NEW T, 0 \in T, \A n \in Nat : n \in T => n + 1 \in T
  PROVE  Nat \subseteq T
<1> DEFINE R == OpToRel(<, Nat)
           U == Nat \ T
<1>1. IsWellFoundedOn(R, Nat)
  BY NatLessThanWellFounded
<1>2. \A m, n \in Nat : m < n => <<m, n>> \in R
  BY DEF OpToRel
<1>3. U \subseteq Nat
  OBVIOUS
<1> HIDE DEF R, U
<1>4. CASE U # {}
  <2>1. PICK m \in U : \A n \in U : <<n, m>> \notin R
    BY <1>1, <1>3, <1>4, WFMin
  <2>2. m \in Nat /\ m \notin T /\ m # 0
    BY <2>1 DEF U
  <2>3. m - 1 \in Nat /\ (m - 1) + 1 = m /\ m - 1 < m
    BY <2>2
  <2>4. m - 1 \notin U
    BY <1>2, <2>1, <2>2, <2>3
  <2>5. m - 1 \in T
    BY <2>3, <2>4 DEF U
  <2> QED
    BY <2>2, <2>3, <2>5
<1> QED
  BY <1>4 DEF U

\* A set of natural numbers that is not empty has a smallest one.
LEMMA MinIsIn ==
  ASSUME NEW S \in SUBSET Nat, S # {}
  PROVE  Min(S) \in S /\ \A i \in S : Min(S) <= i
<1> DEFINE R == OpToRel(<, Nat)
<1>1. IsWellFoundedOn(R, Nat)
  BY NatLessThanWellFounded
<1>2. \A m, n \in Nat : m < n => <<m, n>> \in R
  BY DEF OpToRel
<1> HIDE DEF R
<1>3. PICK m \in S : \A n \in S : <<n, m>> \notin R
  BY <1>1, WFMin
<1>4. ASSUME NEW n \in S PROVE m <= n
  <2>1. m \in Nat /\ n \in Nat
    OBVIOUS
  <2>2. n < m => <<n, m>> \in R
    BY <1>2, <2>1
  <2>3. ~(n < m)
    BY <1>3, <2>2, Zenon
  <2>4. QED
    BY <2>1, <2>3
<1>5. QED
  BY <1>4 DEF Min

\* A set of numbers up to n that is not empty has a largest one.
LEMMA MaxIsIn ==
  ASSUME NEW n \in Nat, NEW S \in SUBSET (0 .. n), S # {}
  PROVE  Max(S) \in S /\ \A i \in S : i <= Max(S)
<1> DEFINE B == {k \in 0 .. n : \A i \in S : i <= k}
<1>1. n \in B /\ B \in SUBSET Nat
  OBVIOUS
<1> HIDE DEF B
<1>2. Min(B) \in B /\ \A k \in B : Min(B) <= k
  BY <1>1, MinIsIn
<1>3. PICK m : m = Min(B)
  OBVIOUS
<1>4. m \in 0 .. n /\ \A i \in S : i <= m
  BY <1>2, <1>3 DEF B
<1>5. m \in S
  <2> SUFFICES ASSUME m \notin S PROVE FALSE
    OBVIOUS
  <2>1. m # 0
    <3>1. PICK i \in S : TRUE
      OBVIOUS
    <3>2. i \in Nat /\ i <= m /\ i # m
      BY <1>4
    <3>3. QED
      BY <1>4, <3>2
  <2>2. m - 1 \in B
    BY <1>4, <2>1 DEF B
  <2>3. QED
    BY <1>2, <1>3, <1>4, <2>2
<1>6. QED
  BY <1>4, <1>5 DEF Max

-----------------------------------------------------------------------------
(***************************************************************************)
(* Words.                                                                  *)
(***************************************************************************)
\* No letter from pos on.
Blank(l, pos) == \A i \in pos .. Len(l) : l[i] \in Separators

\* The first letters from pos on are those from b up to, not including, e.
Found(l, pos, b, e) ==
  /\ b \in pos .. Len(l) /\ e \in b + 1 .. Len(l) + 1
  /\ \A i \in pos .. b - 1 : l[i] \in Separators
  /\ \A i \in b .. e - 1 : l[i] \notin Separators
  /\ e = Len(l) + 1 \/ l[e] \in Separators

\* What mtok returns: nothing, the word at b up to e, or the size it needs.
Ended(m, pos, size) == m = [ret |-> "end", cur_pos |-> pos, size |-> size,
                            written |-> 0, word |-> <<>>]
Taken(m, l, b, e, size) ==
  /\ e - b < size
  /\ m = [ret |-> "success", cur_pos |-> e, size |-> size,
          written |-> e - b + 1, word |-> SubSeq(l, b, e - 1)]
TooSmall(m, b, e, size) ==
  /\ ~(e - b < size)
  /\ m = [ret |-> "too small", cur_pos |-> e, size |-> e - b + 1,
          written |-> size - 1, word |-> <<>>]

\* mtok returns one of them.
LEMMA MtokReads ==
  ASSUME NEW l \in Seq(STRING), NEW pos \in Nat, pos > 0, NEW size \in Nat
  PROVE  LET m == Mtok(l, pos, size)
         IN  \/ Blank(l, pos) /\ Ended(m, pos, size)
             \/ \E b, e : /\ Found(l, pos, b, e)
                          /\ Taken(m, l, b, e, size) \/ TooSmall(m, b, e, size)
<1> DEFINE Letters == {i \in pos .. Len(l) : l[i] \notin Separators}
           b == Min(Letters)
           Ends == {i \in b .. Len(l) : l[i] \in Separators} \cup {Len(l) + 1}
           e == Min(Ends)
<1>1. CASE Letters = {}
  BY <1>1 DEF Mtok, Blank, Ended
<1>2. CASE Letters # {}
  <2>1. Letters \in SUBSET Nat
    OBVIOUS
  <2>2. b \in Letters /\ \A i \in Letters : b <= i
    <3> HIDE DEF Letters
    <3>1. QED
      BY <1>2, <2>1, MinIsIn
  <2>3. Ends \in SUBSET Nat /\ Ends # {}
    <3>1. b \in Nat /\ Len(l) \in Nat
      BY <2>1, <2>2
    <3> HIDE DEF b
    <3>2. QED
      BY <3>1
  <2>4. e \in Ends /\ \A i \in Ends : e <= i
    <3> HIDE DEF Ends
    <3>1. QED
      BY <2>3, MinIsIn
  <2>5. \/ Taken(Mtok(l, pos, size), l, b, e, size)
        \/ TooSmall(Mtok(l, pos, size), b, e, size)
    BY <1>2 DEF Mtok, Taken, TooSmall
  <2> HIDE DEF b, e
  <2>6. b \in pos .. Len(l) /\ l[b] \notin Separators /\ Len(l) \in Nat
    BY <2>2
  <2>7. e \in b .. Len(l) + 1 /\ (e = Len(l) + 1 \/ l[e] \in Separators)
    BY <2>4, <2>6
  <2>8. \A i \in pos .. b - 1 : l[i] \in Separators
    BY <2>2, <2>6
  <2>9. \A i \in b .. e - 1 : l[i] \notin Separators
    BY <2>4, <2>6, <2>7
  <2>10. Found(l, pos, b, e)
    BY <2>6, <2>7, <2>8, <2>9 DEF Found
  <2>11. QED
    BY <2>5, <2>10
<1>3. QED
  BY <1>1, <1>2

\* The word from b up to e, if it fits.
Spelled(word, l, b, e) ==
  word = IF e - b < MAX_NAME_LENGTH THEN SubSeq(l, b, e - 1) ELSE <<>>

\* What a word of the shell is: the size it leaves is that of a buffer again.
LEMMA NextWordReads ==
  ASSUME NEW l \in Seq(STRING), NEW pos \in Nat, pos > 0
  PROVE  LET w == NextWord(l, pos, MAX_NAME_LENGTH)
         IN  /\ w.size = MAX_NAME_LENGTH
             /\ w.written \in 0 .. MAX_NAME_LENGTH
             /\ \/ Blank(l, pos) /\ w.cur_pos = pos /\ w.word = <<>>
                \/ \E b, e : /\ Found(l, pos, b, e)
                             /\ w.cur_pos = e
                             /\ Spelled(w.word, l, b, e)
<1> DEFINE N == MAX_NAME_LENGTH
           m == Mtok(l, pos, N)
           w == NextWord(l, pos, N)
<1>1. N \in Nat /\ N >= 2
  BY ShellAssumption
<1>2. w = IF m.ret = "success" THEN m ELSE [m EXCEPT !.word = <<>>, !.size = N]
  BY DEF NextWord
<1>3. \/ Blank(l, pos) /\ Ended(m, pos, N)
      \/ \E b, e : Found(l, pos, b, e) /\ (Taken(m, l, b, e, N) \/ TooSmall(m, b, e, N))
  BY <1>1, MtokReads
<1> DEFINE Word(b, e) == /\ w.size = N
                         /\ w.written \in 0 .. N
                         /\ w.cur_pos = e
                         /\ Spelled(w.word, l, b, e)
           NoWord == /\ w.size = N
                     /\ w.written \in 0 .. N
                     /\ w.cur_pos = pos
                     /\ w.word = <<>>
<1> SUFFICES \/ Blank(l, pos) /\ NoWord
             \/ \E b, e : Found(l, pos, b, e) /\ Word(b, e)
  OBVIOUS
<1> HIDE DEF m, w, N
<1>4. ASSUME Ended(m, pos, N) PROVE NoWord
  <2>1. w = [ret |-> "end", cur_pos |-> pos, size |-> N, written |-> 0, word |-> <<>>]
    BY <1>2, <1>4 DEF Ended
  <2>2. QED
    BY <1>1, <2>1
<1>5. ASSUME NEW b, NEW e, Found(l, pos, b, e), Taken(m, l, b, e, N) PROVE Word(b, e)
  <2>1. w = [ret |-> "success", cur_pos |-> e, size |-> N,
             written |-> e - b + 1, word |-> SubSeq(l, b, e - 1)]
    BY <1>2, <1>5 DEF Taken
  <2>2. b \in Nat /\ e \in Nat /\ b < e /\ e - b < N
    BY <1>5 DEF Found, Taken
  <2>3. QED
    BY <1>1, <2>1, <2>2 DEF Spelled, N
<1>6. ASSUME NEW b, NEW e, TooSmall(m, b, e, N) PROVE Word(b, e)
  <2>1. w = [ret |-> "too small", cur_pos |-> e, size |-> N,
             written |-> N - 1, word |-> <<>>]
    BY <1>2, <1>6 DEF TooSmall
  <2>2. N - 1 \in 0 .. N
    BY <1>1
  <2>3. ~(e - b < N)
    BY <1>6 DEF TooSmall
  <2>4. QED
    BY <2>1, <2>2, <2>3 DEF Spelled, N
<1>7. QED
  <2> HIDE DEF Word, NoWord
  <2>1. QED
    BY <1>3, <1>4, <1>5, <1>6

\* The first part from pos on, where no part goes on over pos.
LEMMA NextPart ==
  ASSUME NEW l \in Seq(STRING), NEW pos \in Nat, NEW b, NEW e, Found(l, pos, b, e),
         pos > 0, pos = 1 \/ pos = Len(l) + 1 \/ l[pos] \in Separators
  PROVE  /\ <<b, e - 1>> \in Parts(l)
         /\ \A q \in Parts(l) : q[1] >= pos /\ q # <<b, e - 1>> => q[1] >= e
<1>1. /\ Len(l) \in Nat /\ b \in Nat /\ e \in Nat
      /\ pos <= b /\ b < e /\ e <= Len(l) + 1
      /\ \A i \in pos .. b - 1 : l[i] \in Separators
      /\ \A i \in b .. e - 1 : l[i] \notin Separators
      /\ e = Len(l) + 1 \/ l[e] \in Separators
  BY DEF Found
<1>2. /\ <<b, e - 1>> \in (1 .. Len(l)) \X (1 .. Len(l)) /\ b <= e - 1
      /\ e - 1 + 1 = e
      /\ e = Len(l) + 1 => e - 1 = Len(l)
  BY <1>1
<1>a. b = 1 \/ l[b - 1] \in Separators
  <2>1. CASE b = pos
    BY <1>1, <2>1
  <2>2. CASE b > pos
    BY <1>1, <2>2
  <2>3. QED
    BY <1>1, <2>1, <2>2
<1>3. <<b, e - 1>> \in Parts(l)
  BY <1>1, <1>2, <1>a DEF Parts
<1>4. ASSUME NEW q \in Parts(l), q[1] < e, q[1] >= pos PROVE q = <<b, e - 1>>
  <2> DEFINE c == q[1]
             f == q[2]
  <2>1. /\ q = <<c, f>> /\ c \in 1 .. Len(l) /\ f \in 1 .. Len(l) /\ c <= f
        /\ \A i \in c .. f : l[i] \notin Separators
        /\ c = 1 \/ l[c - 1] \in Separators
        /\ f = Len(l) \/ l[f + 1] \in Separators
        /\ c < e /\ pos <= c
    BY <1>4 DEF Parts
  <2> HIDE DEF c, f
  <2>2. ~(c < b)
    BY <1>1, <2>1
  <2>3. ~(c > b)
    BY <1>1, <2>1
  <2>4. c = b
    BY <1>1, <2>1, <2>2, <2>3
  <2>5. ~(f < e - 1)
    BY <1>1, <2>1, <2>4
  <2>6. ~(f > e - 1)
    BY <1>1, <2>1, <2>4
  <2>7. f = e - 1
    BY <1>1, <2>1, <2>5, <2>6
  <2>8. QED
    BY <2>1, <2>4, <2>7
<1>5. \A q \in Parts(l) : q[1] \in Nat
  BY DEF Parts
<1>6. QED
  BY <1>1, <1>3, <1>4, <1>5

\* The parts that begin where p does or before.
Upto(l, p) == {q \in Parts(l) : q[1] <= p[1]}

\* A line has finitely many parts.
LEMMA PartsFinite ==
  ASSUME NEW l \in Seq(STRING), NEW p
  PROVE  IsFiniteSet(Upto(l, p)) /\ Cardinality(Upto(l, p)) \in Nat
<1>1. IsFiniteSet((1 .. Len(l)) \X (1 .. Len(l)))
  <2>1. Len(l) \in Int /\ 1 \in Int
    OBVIOUS
  <2>2. IsFiniteSet(1 .. Len(l))
    BY <2>1, FS_Interval
  <2>3. QED
    BY <2>2, FS_Product
<1>2. Upto(l, p) \subseteq (1 .. Len(l)) \X (1 .. Len(l))
  BY DEF Upto, Parts
<1>3. QED
  BY <1>1, <1>2, FS_Subset, FS_CardinalityType

\* f alone is the n-th part, from b up to, not including, e.
IsNth(l, n, f, b, e) ==
  /\ b \in Nat /\ e \in Nat /\ 1 <= b /\ b < e /\ e <= Len(l) + 1
  /\ f \in Parts(l) /\ f = <<b, e - 1>> /\ Cardinality(Upto(l, f)) = n
  /\ \A p \in Parts(l) : Cardinality(Upto(l, p)) = n => p = f

\* Then the n-th word is what f spans.
LEMMA SpannedWord ==
  ASSUME NEW l \in Seq(STRING), NEW n, NEW f, NEW b, NEW e, IsNth(l, n, f, b, e),
         NEW word, Spelled(word, l, b, e)
  PROVE  WordOf(l, n) = IF word = <<>> THEN {} ELSE {word}
<1> DEFINE Q == {p \in Parts(l) : /\ Cardinality(Upto(l, p)) = n
                                  /\ p[2] - p[1] + 1 < MAX_NAME_LENGTH}
<1>1. WordOf(l, n) = {SubSeq(l, p[1], p[2]) : p \in Q}
  BY DEF WordOf, Upto
<1>2. f[2] - f[1] + 1 = e - b
  BY DEF IsNth
<1>3. Q = IF e - b < MAX_NAME_LENGTH THEN {f} ELSE {}
  BY <1>2 DEF IsNth
<1>4. SubSeq(l, f[1], f[2]) = SubSeq(l, b, e - 1)
  BY DEF IsNth
<1>5. SubSeq(l, b, e - 1) # <<>>
  <2>1. b < e /\ b \in Nat /\ e \in Nat /\ 1 <= b /\ e <= Len(l) + 1
    BY DEF IsNth
  <2>2. Len(SubSeq(l, b, e - 1)) = e - b
    BY <2>1
  <2>3. QED
    BY <2>1, <2>2
<1> HIDE DEF Q
<1>6. QED
  BY <1>1, <1>3, <1>4, <1>5 DEF Spelled

\* The first word of a line is the first the shell takes from it, if it fits.
LEMMA FirstWord ==
  ASSUME NEW l \in Seq(STRING), NEW w, w = NextWord(l, 1, MAX_NAME_LENGTH)
  PROVE  WordOf(l, 1) = IF w.word = <<>> THEN {} ELSE {w.word}
<1>1. CASE Blank(l, 1) /\ w.word = <<>>
  <2>1. Parts(l) = {}
    BY <1>1 DEF Blank, Parts
  <2>2. QED
    BY <1>1, <2>1 DEF WordOf
<1>2. ASSUME NEW b, NEW e, Found(l, 1, b, e),
             Spelled(w.word, l, b, e)
      PROVE  WordOf(l, 1) = IF w.word = <<>> THEN {} ELSE {w.word}
  <2> DEFINE f == <<b, e - 1>>
  <2>1. b \in Nat /\ e \in Nat /\ 1 <= b /\ b < e /\ e <= Len(l) + 1
    BY <1>2 DEF Found
  <2>2. f \in Parts(l) /\ \A q \in Parts(l) : q # f => q[1] >= e
    BY <1>2, NextPart DEF Parts
  <2>3. f[1] = b /\ \A q \in Parts(l) : q[1] \in Nat
    BY DEF Parts
  <2> HIDE DEF f
  <2>4. Upto(l, f) = {f}
    BY <2>1, <2>2, <2>3 DEF Upto
  <2>5. Cardinality(Upto(l, f)) = 1
    BY <2>4, FS_Singleton
  <2>6. ASSUME NEW p \in Parts(l), p # f, Cardinality(Upto(l, p)) = 1 PROVE FALSE
    <3>1. f \in Upto(l, p) /\ p \in Upto(l, p)
      BY <2>1, <2>2, <2>3, <2>6 DEF Upto
    <3>2. PICK x : Upto(l, p) = {x}
      BY <2>6, PartsFinite, FS_Singleton
    <3>3. p = x /\ f = x
      BY <3>1, <3>2
    <3>4. QED
      BY <2>6, <3>3
  <2>7. \A p \in Parts(l) : Cardinality(Upto(l, p)) = 1 => p = f
    BY <2>6
  <2>8. QED
    <3>1. f = <<b, e - 1>>
      BY DEF f
    <3>2. IsNth(l, 1, f, b, e)
      BY <2>1, <2>2, <2>5, <2>7, <3>1 DEF IsNth
    <3>3. QED
      BY <1>2, <3>2, SpannedWord
<1>3. \/ Blank(l, 1) /\ w.word = <<>>
      \/ \E b, e : /\ Found(l, 1, b, e)
                   /\ Spelled(w.word, l, b, e)
  BY NextWordReads
<1>4. QED
  BY <1>1, <1>2, <1>3

\* So is the second word, the first that is found after the end of the first.
LEMMA SecondWord ==
  ASSUME NEW l \in Seq(STRING), NEW v, v = NextWord(l, 1, MAX_NAME_LENGTH),
         NEW w, w = NextWord(l, v.cur_pos, MAX_NAME_LENGTH)
  PROVE  WordOf(l, 2) = IF w.word = <<>> THEN {} ELSE {w.word}
<1>1. CASE Blank(l, 1) /\ v.cur_pos = 1
  <2>1. Parts(l) = {}
    BY <1>1 DEF Blank, Parts
  <2>2. WordOf(l, 2) = {}
    BY <2>1 DEF WordOf
  <2>3. w.word = <<>>
    <3>1. ~\E b, e : Found(l, 1, b, e)
      BY <1>1 DEF Blank, Found
    <3>2. QED
      BY <1>1, <3>1, NextWordReads
  <2>4. QED
    BY <2>2, <2>3
<1>2. ASSUME NEW b, NEW e, Found(l, 1, b, e), v.cur_pos = e
      PROVE  WordOf(l, 2) = IF w.word = <<>> THEN {} ELSE {w.word}
  <2> DEFINE f == <<b, e - 1>>
  <2>1. /\ Len(l) \in Nat /\ b \in Nat /\ e \in Nat
        /\ 1 <= b /\ b < e /\ e <= Len(l) + 1
        /\ e = Len(l) + 1 \/ l[e] \in Separators
    BY <1>2 DEF Found
  <2>2. f \in Parts(l) /\ \A q \in Parts(l) : q # f => q[1] >= e
    BY <1>2, NextPart DEF Parts
  <2>3. f[1] = b /\ \A q \in Parts(l) : q[1] \in Nat
    BY DEF Parts
  <2> HIDE DEF f
  <2>4. Upto(l, f) = {f}
    BY <2>1, <2>2, <2>3 DEF Upto
  <2>5. Cardinality(Upto(l, f)) = 1
    BY <2>4, FS_Singleton
  <2>6. CASE Blank(l, e) /\ w.word = <<>>
    <3>1. \A q \in Parts(l) : q[1] <= Len(l) /\ l[q[1]] \notin Separators
      BY DEF Parts
    <3>2. \A q \in Parts(l) : q = f
      BY <2>1, <2>2, <2>3, <2>6, <3>1 DEF Blank
    <3>3. \A q \in Parts(l) : Cardinality(Upto(l, q)) # 2
      BY <2>5, <3>2
    <3>4. WordOf(l, 2) = {}
      BY <3>3 DEF WordOf, Upto
    <3>5. QED
      BY <2>6, <3>4
  <2>7. ASSUME NEW c, NEW d, Found(l, e, c, d),
               Spelled(w.word, l, c, d)
        PROVE  WordOf(l, 2) = IF w.word = <<>> THEN {} ELSE {w.word}
    <3> DEFINE g == <<c, d - 1>>
    <3>1. c \in Nat /\ d \in Nat /\ e <= c /\ c < d /\ d <= Len(l) + 1
      BY <2>1, <2>7 DEF Found
    <3>2. g \in Parts(l) /\ \A q \in Parts(l) : q[1] >= e /\ q # g => q[1] >= d
      BY <2>1, <2>7, NextPart
    <3>3. g[1] = c
      OBVIOUS
    <3> HIDE DEF g
    <3>4. f # g
      BY <2>1, <2>3, <3>1, <3>3
    <3>5. Upto(l, g) = {f, g}
      BY <2>1, <2>2, <2>3, <3>1, <3>2, <3>3 DEF Upto
    <3>6. Cardinality(Upto(l, g)) = 2
      <4>1. IsFiniteSet({f}) /\ Cardinality({f}) = 1
        BY FS_Singleton
      <4>2. Upto(l, g) = {f} \cup {g} /\ g \notin {f}
        BY <3>4, <3>5
      <4>3. Cardinality({f} \cup {g}) = Cardinality({f}) + 1
        BY <4>1, <4>2, FS_AddElement
      <4>4. Cardinality(Upto(l, g)) = Cardinality({f}) + 1
        BY <4>2, <4>3, Zenon
      <4>5. QED
        BY <4>1, <4>4
    <3>7. ASSUME NEW p \in Parts(l), Cardinality(Upto(l, p)) = 2, p # g PROVE FALSE
      <4>1. p # f
        BY <2>5, <3>7
      <4>2. p[1] >= d /\ p[1] \in Nat
        BY <2>2, <2>3, <3>2, <3>7, <4>1
      <4>3. f \in Upto(l, p) /\ g \in Upto(l, p) /\ p \in Upto(l, p)
        BY <2>1, <2>2, <2>3, <3>1, <3>2, <3>3, <4>2 DEF Upto
      <4>4. Cardinality(Upto(l, p) \ {p}) = 1 /\ IsFiniteSet(Upto(l, p) \ {p})
        BY <3>7, <4>3, PartsFinite, FS_RemoveElement
      <4>5. \E x : Upto(l, p) \ {p} = {x}
        BY <4>4, FS_Singleton
      <4>6. f \in Upto(l, p) \ {p} /\ g \in Upto(l, p) \ {p}
        BY <3>7, <4>1, <4>3
      <4>7. QED
        BY <3>4, <4>5, <4>6, Zenon
    <3>8. \A p \in Parts(l) : Cardinality(Upto(l, p)) = 2 => p = g
      BY <3>7
    <3>9. QED
      <4>1. g = <<c, d - 1>>
        BY DEF g
      <4>2. IsNth(l, 2, g, c, d)
        BY <2>1, <3>1, <3>2, <3>6, <3>8, <4>1 DEF IsNth
      <4>3. QED
        BY <2>7, <4>2, SpannedWord
  <2>8. \/ Blank(l, e) /\ w.word = <<>>
        \/ \E c, d : /\ Found(l, e, c, d)
                     /\ Spelled(w.word, l, c, d)
    BY <1>2, <2>1, NextWordReads
  <2>9. QED
    BY <2>6, <2>7, <2>8
<1>3. \/ Blank(l, 1) /\ v.cur_pos = 1
      \/ \E b, e : Found(l, 1, b, e) /\ v.cur_pos = e
  BY NextWordReads
<1>4. QED
  BY <1>1, <1>2, <1>3
-----------------------------------------------------------------------------
(***************************************************************************)
(* The inductive invariant: the size of a buffer is what every line begins *)
(* with, and between the line and the command the words are those of the   *)
(* line.                                                                   *)
(***************************************************************************)
TypesOK == /\ pc \in {"read", "command"}
           /\ line \in Seq(STRING)
           /\ written \in 0 .. MAX_NAME_LENGTH
           /\ tasks \subseteq 1 .. MaxId /\ Work \in tasks

WordsOK == pc = "command" =>
             \A n \in 1 .. 2 :
               WordOf(line, n) = IF words[n] = <<>> THEN {} ELSE {words[n]}

ShellInv == TypesOK /\ word_size = MAX_NAME_LENGTH /\ WordsOK

\* A word is taken from within the line.
LEMMA NextPlace ==
  ASSUME NEW l \in Seq(STRING), NEW pos \in Nat, pos > 0,
         NEW w, w = NextWord(l, pos, MAX_NAME_LENGTH)
  PROVE  /\ w.cur_pos \in Nat /\ w.cur_pos > 0 /\ w.size = MAX_NAME_LENGTH
         /\ w.written \in 0 .. MAX_NAME_LENGTH
<1>1. \A b, e : Found(l, pos, b, e) => e \in Nat /\ e > 0
  BY DEF Found
<1>2. /\ w.size = MAX_NAME_LENGTH
      /\ w.written \in 0 .. MAX_NAME_LENGTH
      /\ w.cur_pos = pos \/ \E b, e : Found(l, pos, b, e) /\ w.cur_pos = e
  BY NextWordReads
<1>3. QED
  BY <1>1, <1>2

\* It holds at start.
LEMMA ShellInit == Init => ShellInv
<1> SUFFICES ASSUME Init PROVE ShellInv
  OBVIOUS
<1>1. <<>> \in Seq(STRING)
  OBVIOUS
<1>2. QED
  BY <1>1, ShellAssumption
     DEF Init, ShellInv, TypesOK, WordsOK, SystemTasks, Work

\* A line keeps it.
LEMMA ReadStep ==
  ASSUME ShellInv, NEW l \in Lines, Read(l) PROVE ShellInv'
<1> DEFINE w1 == NextWord(l, 1, MAX_NAME_LENGTH)
           w2 == NextWord(l, w1.cur_pos, MAX_NAME_LENGTH)
           w3 == NextWord(l, w2.cur_pos, MAX_NAME_LENGTH)
<1>1. l \in Seq(STRING) /\ MAX_NAME_LENGTH \in Nat
  BY ShellAssumption
<1>2. /\ w1.cur_pos \in Nat /\ w1.cur_pos > 0 /\ w1.size = MAX_NAME_LENGTH
      /\ w1.written \in 0 .. MAX_NAME_LENGTH
  BY <1>1, NextPlace
<1>3. /\ w2.cur_pos \in Nat /\ w2.cur_pos > 0 /\ w2.size = MAX_NAME_LENGTH
      /\ w2.written \in 0 .. MAX_NAME_LENGTH
  <2> HIDE DEF w1
  <2>1. QED
    BY <1>1, <1>2, NextPlace
<1>4. w3.size = MAX_NAME_LENGTH /\ w3.written \in 0 .. MAX_NAME_LENGTH
  <2> HIDE DEF w1, w2
  <2>1. QED
    BY <1>1, <1>3, NextPlace
<1>5. /\ pc' = "command" /\ line' = l /\ tasks' = tasks
      /\ words' = <<w1.word, w2.word, w3.word>> /\ word_size' = w3.size
      /\ written' = Max({written, w1.written, w2.written, w3.written})
  <2>1. w1.size = MAX_NAME_LENGTH /\ w2.size = MAX_NAME_LENGTH
    BY <1>2, <1>3
  <2>2. word_size = MAX_NAME_LENGTH
    BY DEF ShellInv
  <2>3. QED
    BY <2>1, <2>2 DEF Read
<1>6. WordOf(l, 1) = IF w1.word = <<>> THEN {} ELSE {w1.word}
  BY <1>1, FirstWord
<1>7. WordOf(l, 2) = IF w2.word = <<>> THEN {} ELSE {w2.word}
  <2> DEFINE x == w1
             y == w2
  <2>1. x = NextWord(l, 1, MAX_NAME_LENGTH) /\ y = NextWord(l, x.cur_pos, MAX_NAME_LENGTH)
    OBVIOUS
  <2> HIDE DEF x, y
  <2>2. WordOf(l, 2) = IF y.word = <<>> THEN {} ELSE {y.word}
    BY <1>1, <2>1, SecondWord
  <2>3. QED
    BY <2>2 DEF y
<1> HIDE DEF w1, w2, w3
<1>8. written' \in 0 .. MAX_NAME_LENGTH
  <2> DEFINE S == {written, w1.written, w2.written, w3.written}
  <2>1. S \in SUBSET (0 .. MAX_NAME_LENGTH) /\ S # {}
    BY <1>2, <1>3, <1>4 DEF ShellInv, TypesOK
  <2> HIDE DEF S
  <2>2. Max(S) \in 0 .. MAX_NAME_LENGTH
    BY <1>1, <2>1, MaxIsIn
  <2>3. QED
    BY <1>5, <2>2 DEF S
<1>9. TypesOK'
  BY <1>1, <1>5, <1>8 DEF ShellInv, TypesOK
<1>10. WordsOK'
  <2>1. words'[1] = w1.word /\ words'[2] = w2.word
    BY <1>5
  <2>2. \A n \in 1 .. 2 : n = 1 \/ n = 2
    OBVIOUS
  <2>3. QED
    BY <1>5, <1>6, <1>7, <2>1, <2>2 DEF WordsOK
<1>11. QED
  BY <1>4, <1>5, <1>9, <1>10 DEF ShellInv

\* Every step keeps it.
LEMMA ShellStep == ShellInv /\ [Next]_vars => ShellInv'
<1> SUFFICES ASSUME ShellInv, [Next]_vars PROVE ShellInv'
  OBVIOUS
<1>1. ASSUME NEW l \in Lines, Read(l) PROVE ShellInv'
  BY <1>1, ReadStep
<1>a. ASSUME Done, tasks' \subseteq 1 .. MaxId, Work \in tasks' PROVE ShellInv'
  BY <1>a DEF Done, ShellInv, TypesOK, WordsOK
<1>2. CASE StartKtask
  <2>1. MaxId \in Nat
    BY ShellAssumption
  <2>2. tasks \in SUBSET (0 .. MaxId) /\ tasks # {} /\ \A t \in tasks : t > 0
    BY <2>1 DEF ShellInv, TypesOK
  <2>3. Max(tasks) \in tasks
    BY <2>1, <2>2, MaxIsIn
  <2>4. Max(tasks) + 1 \in 1 .. MaxId
    <3>1. Max(tasks) \in 1 .. MaxId
      BY <2>3 DEF ShellInv, TypesOK
    <3>2. Max(tasks) < MaxId
      BY <1>2 DEF StartKtask
    <3>3. QED
      BY <2>1, <3>1, <3>2
  <2>5. QED
    BY <1>2, <1>a, <2>4 DEF StartKtask, ShellInv, TypesOK
<1>3. CASE KillTask
  BY <1>3, <1>a DEF KillTask, Refused, ShellInv, TypesOK
<1>4. CASE Other
  BY <1>4, <1>a DEF Other, ShellInv, TypesOK
<1>5. ASSUME NEW t \in tasks, TaskEnds(t) PROVE ShellInv'
  BY <1>5 DEF TaskEnds, SystemTasks, Work, ShellInv, TypesOK, WordsOK
<1>6. CASE UNCHANGED vars
  BY <1>6 DEF vars, ShellInv, TypesOK, WordsOK
<1>7. QED
  BY <1>1, <1>2, <1>3, <1>4, <1>5, <1>6 DEF Next

\* It holds in every reachable state.
LEMMA AlwaysShell == Spec => []ShellInv
BY ShellInit, ShellStep, PTL DEF Spec

\* WordsFit: whatever the user enters, no word of it is written past its buffer.
THEOREM NoOverrun == Spec => []WordsFit
<1>1. ShellInv => WordsFit
  BY ShellAssumption DEF ShellInv, TypesOK, WordsFit
<1>2. QED
  BY <1>1, AlwaysShell, PTL

-----------------------------------------------------------------------------
(***************************************************************************)
(* Recursive definitions: a function that is defined by its value at 0 and by *)
(* a step exists and is the only one.  The values of a text of digits, and the *)
(* folds over finite sets, are such functions.                             *)
(***************************************************************************)
\* f is computed from the value at 0 by G, up to n.
Computes(f, base, G, n) ==
  /\ f[0] = base
  /\ \A k \in 0 .. n - 1 : f[k + 1] = G[<<k, f[k]>>]

\* Two such functions agree.
LEMMA ComputesUnique ==
  ASSUME NEW base, NEW G, NEW n \in Nat, NEW f, NEW g, Computes(f, base, G, n),
         Computes(g, base, G, n)
  PROVE  \A k \in 0 .. n : f[k] = g[k]
<1> DEFINE T == {k \in Nat : k <= n => f[k] = g[k]}
<1>1. 0 \in T
  BY DEF Computes
<1>2. ASSUME NEW k \in Nat, k \in T PROVE k + 1 \in T
  <2>1. CASE k + 1 <= n
    <3>1. k \in 0 .. n - 1 /\ f[k] = g[k]
      BY <1>2, <2>1
    <3>2. f[k + 1] = G[<<k, f[k]>>] /\ g[k + 1] = G[<<k, g[k]>>]
      BY <3>1 DEF Computes
    <3>3. f[k + 1] = g[k + 1]
      BY <3>1, <3>2
    <3>4. QED
      BY <3>3
  <2>2. QED
    BY <2>1
<1>3. Nat \subseteq T
  <2> HIDE DEF T
  <2>1. QED
    BY <1>1, <1>2, NatSetInduction
<1>4. QED
  BY <1>3

\* There is one on all natural numbers.
LEMMA ComputesExists ==
  ASSUME NEW V, NEW base \in V, NEW G \in [Nat \X V -> V]
  PROVE  \E f \in [Nat -> V] : \A n \in Nat : Computes(f, base, G, n)
<1> DEFINE T == {n \in Nat : \E f \in [Nat -> V] : Computes(f, base, G, n)}
<1>1. 0 \in T
  <2> DEFINE f == [k \in Nat |-> base]
  <2>1. f \in [Nat -> V] /\ f[0] = base /\ 0 .. 0 - 1 = {}
    OBVIOUS
  <2> HIDE DEF f
  <2>2. QED
    BY <2>1 DEF Computes
<1>2. ASSUME NEW n \in Nat, n \in T PROVE n + 1 \in T
  <2>1. PICK f \in [Nat -> V] : Computes(f, base, G, n)
    BY <1>2
  <2> DEFINE g == [k \in Nat |-> IF k = n + 1 THEN G[<<n, f[n]>>] ELSE f[k]]
  <2>2. g \in [Nat -> V]
    OBVIOUS
  <2>3. Computes(g, base, G, n + 1)
    <3>1. g[0] = base
      BY <2>1 DEF Computes
    <3>2. ASSUME NEW k \in 0 .. n PROVE g[k + 1] = G[<<k, g[k]>>]
      <4>1. CASE k = n
        BY <4>1
      <4>2. CASE k # n
        BY <2>1, <4>2 DEF Computes
      <4>3. QED
        BY <4>1, <4>2
    <3>3. (n + 1) - 1 = n
      OBVIOUS
    <3> HIDE DEF g
    <3>4. QED
      BY <3>1, <3>2, <3>3 DEF Computes
  <2> HIDE DEF g
  <2>4. QED
    BY <2>2, <2>3
<1>3. Nat \subseteq T
  <2> HIDE DEF T
  <2>1. QED
    BY <1>1, <1>2, NatSetInduction
<1> DEFINE h(n) == CHOOSE f \in [Nat -> V] : Computes(f, base, G, n)
           f == [n \in Nat |-> h(n)[n]]
<1>4. ASSUME NEW n \in Nat PROVE h(n) \in [Nat -> V] /\ Computes(h(n), base, G, n)
  BY <1>3
<1> HIDE DEF h
<1>5. f \in [Nat -> V]
  BY <1>4
<1>6. f[0] = base
  BY <1>4 DEF Computes
<1>7. ASSUME NEW k \in Nat PROVE f[k + 1] = G[<<k, f[k]>>]
  <2>1. Computes(h(k), base, G, k) /\ Computes(h(k + 1), base, G, k + 1)
    BY <1>4
  <2>2. Computes(h(k + 1), base, G, k)
    BY <2>1 DEF Computes
  <2>3. h(k)[k] = h(k + 1)[k]
    BY <2>1, <2>2, ComputesUnique
  <2>4. h(k + 1)[k + 1] = G[<<k, h(k + 1)[k]>>]
    BY <2>1 DEF Computes
  <2>5. QED
    BY <2>3, <2>4
<1> HIDE DEF f
<1>8. \A n \in Nat : Computes(f, base, G, n)
  BY <1>6, <1>7 DEF Computes
<1>9. QED
  BY <1>5, <1>8

\* V has the values of the first digits of s in base b: of none, one, two, ...
Values(V, s, b) ==
  /\ V \in [0 .. Len(s) -> Nat]
  /\ V[0] = 0
  /\ \A k \in 0 .. Len(s) - 1 : V[k + 1] = V[k] * b + Digit(s[k + 1])

\* Digits are numbers.
LEMMA DigitType == ASSUME NEW c PROVE Digit(c) \in 0 .. 16 /\ Digit(c) \in Nat
<1>1. ASSUME \E d \in 1 .. 16 : c \in {Upper[d], Lower[d]} PROVE Digit(c) \in 0 .. 16
  <2>1. PICK d \in 1 .. 16 : c \in {Upper[d], Lower[d]}
    BY <1>1
  <2>2. d - 1 \in 0 .. 15 /\ (d - 1) + 1 = d
    OBVIOUS
  <2>3. \E e \in 0 .. 15 : c \in {Upper[e + 1], Lower[e + 1]}
    BY <2>1, <2>2
  <2>4. (CHOOSE e \in 0 .. 15 : c \in {Upper[e + 1], Lower[e + 1]}) \in 0 .. 15
    BY <2>3
  <2>5. QED
    BY <1>1, <2>4 DEF Digit
<1>2. ASSUME ~\E d \in 1 .. 16 : c \in {Upper[d], Lower[d]} PROVE Digit(c) \in 0 .. 16
  BY <1>2 DEF Digit
<1>3. Digit(c) \in 0 .. 16
  BY <1>1, <1>2
<1>4. QED
  BY <1>3

\* Every text has values.
LEMMA ValuesExist ==
  ASSUME NEW s, Len(s) \in Nat, NEW b \in Nat
  PROVE  \E V : Values(V, s, b)
<1> DEFINE G == [p \in Nat \X Nat |-> p[2] * b + Digit(s[p[1] + 1])]
<1>1. G \in [Nat \X Nat -> Nat]
  <2>1. \A k, v \in Nat : v * b + Digit(s[k + 1]) \in Nat
    BY DigitType
  <2>2. QED
    BY <2>1
<1>2. \A k, v \in Nat : G[<<k, v>>] = v * b + Digit(s[k + 1])
  OBVIOUS
<1> HIDE DEF G
<1>3. PICK f \in [Nat -> Nat] : \A n \in Nat : Computes(f, 0, G, n)
  BY <1>1, ComputesExists
<1> DEFINE V == [k \in 0 .. Len(s) |-> f[k]]
<1>4. f[0] = 0
  BY <1>3 DEF Computes
<1>5. ASSUME NEW k \in 0 .. Len(s) - 1 PROVE V[k + 1] = V[k] * b + Digit(s[k + 1])
  <2>1. f[k + 1] = G[<<k, f[k]>>]
    BY <1>3 DEF Computes
  <2>2. QED
    BY <1>2, <2>1
<1>6. V \in [0 .. Len(s) -> Nat] /\ V[0] = 0
  BY <1>4
<1> HIDE DEF V
<1>7. QED
  BY <1>5, <1>6 DEF Values
\* iter folds every subset of S: pick takes a member out, G applies it to the
\* fold of the rest.
Iterates(iter, S, V, base, pick, G) ==
  /\ DOMAIN iter = SUBSET S
  /\ iter[{}] = base
  /\ \A s \in (SUBSET S) \ {{}} : iter[s] = G[<<iter[s \ {pick[s]}], pick[s]>>]

\* A finite set has such a fold.
LEMMA FoldExists ==
  ASSUME NEW S, IsFiniteSet(S), NEW V, NEW base \in V,
         NEW pick \in [(SUBSET S) \ {{}} -> S], \A s \in (SUBSET S) \ {{}} : pick[s] \in s,
         NEW G \in [V \X S -> V]
  PROVE  \E iter \in [SUBSET S -> V] : Iterates(iter, S, V, base, pick, G)
<1> DEFINE Small(k) == {s \in SUBSET S : Cardinality(s) <= k}
           Good(f, k) == /\ f[{}] = base
                         /\ \A s \in Small(k) \ {{}} :
                              f[s] = G[<<f[s \ {pick[s]}], pick[s]>>]
           T == {k \in Nat : \E f \in [SUBSET S -> V] : Good(f, k)}
<1>0. \A s \in SUBSET S : /\ IsFiniteSet(s) /\ Cardinality(s) \in Nat
                          /\ Cardinality(s) <= Cardinality(S)
                          /\ Cardinality(s) = 0 <=> s = {}
  BY FS_Subset, FS_CardinalityType, FS_EmptySet
<1>a. \A s \in (SUBSET S) \ {{}} : Cardinality(s \ {pick[s]}) = Cardinality(s) - 1
  BY <1>0, FS_RemoveElement
<1>1. 0 \in T
  <2> DEFINE f == [s \in SUBSET S |-> base]
  <2>1. Good(f, 0)
    BY <1>0
  <2> QED
    BY <2>1
<1>2. ASSUME NEW k \in Nat, k \in T PROVE k + 1 \in T
  <2>1. PICK f \in [SUBSET S -> V] : Good(f, k)
    BY <1>2
  <2> DEFINE g == [s \in SUBSET S |->
                     IF s \in Small(k) THEN f[s] ELSE G[<<f[s \ {pick[s]}], pick[s]>>]]
  <2>2. \A s \in Small(k) : g[s] = f[s]
    OBVIOUS
  <2>3. \A s \in (SUBSET S) \ Small(k) : s # {}
    BY <1>0
  <2>4. g \in [SUBSET S -> V]
    BY <2>3
  <2>5. \A s \in Small(k + 1) \ {{}} : s \ {pick[s]} \in Small(k)
    BY <1>0, <1>a
  <2>6. g[{}] = base
    BY <1>0, <2>1
  <2>7. ASSUME NEW s \in Small(k + 1) \ {{}} PROVE g[s] = G[<<g[s \ {pick[s]}], pick[s]>>]
    <3>1. g[s \ {pick[s]}] = f[s \ {pick[s]}]
      BY <2>2, <2>5
    <3>2. g[s] = G[<<f[s \ {pick[s]}], pick[s]>>]
      BY <2>1
    <3> QED
      BY <3>1, <3>2
  <2>8. Good(g, k + 1)
    BY <2>6, <2>7
  <2> HIDE DEF g, Good
  <2> QED
    BY <2>4, <2>8
<1>3. Cardinality(S) \in T
  <2> HIDE DEF T
  <2> QED
    BY <1>0, <1>1, <1>2, NatSetInduction
<1>4. PICK f \in [SUBSET S -> V] : Good(f, Cardinality(S))
  BY <1>3
<1>5. Small(Cardinality(S)) = SUBSET S
  BY <1>0
<1> QED
  BY <1>4, <1>5 DEF Iterates

-----------------------------------------------------------------------------
(***************************************************************************)
(* stoi, which takes the remainder after every digit, gets the remainder of *)
(* the value of all digits.                                                *)
(***************************************************************************)
\* The largest of the numbers up to k + 1, and the others.
LEMMA MaxUpto ==
  ASSUME NEW k \in Nat
  PROVE  Max(1 .. k + 1) = k + 1 /\ (1 .. k + 1) \ {k + 1} = 1 .. k
<1>1. 1 .. k + 1 \in SUBSET (0 .. k + 1) /\ 1 .. k + 1 # {} /\ k + 1 \in Nat
  OBVIOUS
<1>2. Max(1 .. k + 1) \in 1 .. k + 1 /\ \A i \in 1 .. k + 1 : i <= Max(1 .. k + 1)
  BY <1>1, MaxIsIn
<1>3. QED
  BY <1>2

\* Division has one remainder.
LEMMA Remainder ==
  ASSUME NEW n \in Nat, NEW r \in Nat, NEW m \in Nat, r < m
  PROVE  (m * n + r) % m = r
OBVIOUS

\* The remainder, by a name.
Mod(x, m) == x % m

\* Numbers computed modulo m from numbers computed modulo m.
LEMMA ModStep ==
  ASSUME NEW v \in Nat, NEW b \in Nat, NEW d \in Nat, NEW m \in Nat, m > 0
  PROVE  Mod(Mod(v, m) * b + d, m) = Mod(v * b + d, m)
<1> DEFINE q == v \div m
           r == v % m
           x == r * b + d
           p == x \div m
           y == x % m
<1>1. q \in Nat /\ r \in Nat /\ v = m * q + r
  OBVIOUS
<1> HIDE DEF q, r
<1>2. x \in Nat
  BY <1>1
<1> HIDE DEF x
<1>3. p \in Nat /\ y \in Nat /\ y < m /\ x = m * p + y
  BY <1>2
<1> HIDE DEF p, y
<1>4. v * b + d = m * (q * b + p) + y
  <2>1. v * b = m * (q * b) + r * b
    BY <1>1
  <2>2. m * (q * b + p) = m * (q * b) + m * p
    BY <1>1, <1>3
  <2>3. v * b \in Nat /\ m * (q * b) \in Nat /\ r * b \in Nat /\ m * p \in Nat
    BY <1>1, <1>3
  <2>4. r * b + d = m * p + y
    BY <1>3 DEF x
  <2>a. y \in Nat
    BY <1>3
  <2> DEFINE i == v * b
             j == m * (q * b)
             k == r * b
             n == m * p
  <2>5. i \in Nat /\ j \in Nat /\ k \in Nat /\ n \in Nat /\ i = j + k /\ k + d = n + y
    BY <2>1, <2>3, <2>4
  <2> HIDE DEF i, j, k, n
  <2>6. i + d = (j + n) + y
    BY <2>a, <2>5
  <2>7. QED
    BY <2>2, <2>6 DEF i, j, n
<1>5. q * b + p \in Nat
  BY <1>1, <1>3
<1>6. (m * (q * b + p) + y) % m = y
  BY <1>3, <1>5, Remainder
<1>7. QED
  BY <1>4, <1>6 DEF Mod, y, x, r

\* A power of 2 is a number above 0.
LEMMA TwoPower == ASSUME NEW n \in Nat PROVE 2 ^ n \in Nat /\ 2 ^ n > 0
<1>1. IsFiniteSet(1 .. n) /\ Cardinality(1 .. n) = n
  BY FS_Interval
<1>2. /\ IsFiniteSet(SUBSET (1 .. n))
      /\ Cardinality(SUBSET (1 .. n)) = 2 ^ Cardinality(1 .. n)
  BY <1>1, FS_SUBSET
<1>3. Cardinality(SUBSET (1 .. n)) \in Nat /\ Cardinality(SUBSET (1 .. n)) # 0
  BY <1>2, FS_CardinalityType, FS_EmptySet
<1>4. 2 ^ n = Cardinality(SUBSET (1 .. n))
  BY <1>1, <1>2
<1>5. QED
  BY <1>3, <1>4

\* They grow.
LEMMA TwoPowerGrows == ASSUME NEW n \in Nat, n > 0 PROVE 2 ^ (n - 1) <= 2 ^ n
<1>1. n - 1 \in Nat
  OBVIOUS
<1>2. /\ IsFiniteSet(1 .. n) /\ Cardinality(1 .. n) = n
      /\ IsFiniteSet(1 .. n - 1) /\ Cardinality(1 .. n - 1) = n - 1
  BY <1>1, FS_Interval
<1>3. /\ IsFiniteSet(SUBSET (1 .. n))
      /\ Cardinality(SUBSET (1 .. n)) = 2 ^ n
      /\ Cardinality(SUBSET (1 .. n - 1)) = 2 ^ (n - 1)
  BY <1>2, FS_SUBSET
<1>4. SUBSET (1 .. n - 1) \subseteq SUBSET (1 .. n)
  OBVIOUS
<1>5. QED
  BY <1>3, <1>4, FS_Subset

\* The text s is a number of the digits D in base b.
HasDigits(s, D, b) == Radix(s).base = b /\ SubSeq(s, Radix(s).first, Len(s)) = D

\* What stoi computes is the value of the digits, as far as an int has bits for it.
LEMMA StoiIs ==
  ASSUME NEW s, NEW X, NEW D \in Seq(X), NEW b \in Nat,
         HasDigits(s, D, b), NEW V, Values(V, D, b)
  PROVE  Stoi(s) = V[Len(D)] % 2 ^ Width
<1> DEFINE m == 2 ^ Width
           n == Len(D)
           S == 1 .. n
           pick == [t \in (SUBSET S) \ {{}} |-> Max(t)]
           G == [p \in Nat \X S |-> (p[1] * b + Digit(D[p[2]])) % m]
           Body(f, t) == IF t = {} THEN 0 ELSE (f[t \ {Max(t)}] * b + Digit(D[Max(t)])) % m
           iter == CHOOSE f : f = [t \in SUBSET S |-> Body(f, t)]
<1>1. n \in Nat /\ DOMAIN D = S /\ m \in Nat /\ m > 0
  BY TwoPower, ShellAssumption
<1>2. Stoi(s) = iter[S]
  BY <1>1 DEF Stoi, HasDigits, FoldLeft, MapThenFoldSet
<1>3. IsFiniteSet(S)
  BY <1>1, FS_Interval
<1>4. pick \in [(SUBSET S) \ {{}} -> S] /\ \A t \in (SUBSET S) \ {{}} : pick[t] \in t
  <2>1. ASSUME NEW t \in (SUBSET S) \ {{}} PROVE Max(t) \in t
    <3>1. t \in SUBSET (0 .. n) /\ t # {}
      OBVIOUS
    <3> HIDE DEF n, S
    <3>2. QED
      BY <1>1, <3>1, MaxIsIn
  <2>2. QED
    BY <2>1
<1> HIDE DEF m
<1>5. G \in [Nat \X S -> Nat]
  <2>1. \A v \in Nat, i \in S : (v * b + Digit(D[i])) % m \in Nat
    <3>1. ASSUME NEW v \in Nat, NEW i \in S PROVE v * b + Digit(D[i]) \in Nat
      <4>1. Digit(D[i]) \in Nat /\ v * b \in Nat
        BY DigitType
      <4>2. QED
        BY <4>1
    <3>2. QED
      BY <1>1, <3>1
  <2>2. QED
    BY <2>1
<1>6. \A v \in Nat, t \in (SUBSET S) \ {{}} :
        G[<<v, pick[t]>>] = (v * b + Digit(D[Max(t)])) % m
  BY <1>4
<1>7. \A t \in (SUBSET S) \ {{}} : pick[t] = Max(t)
  OBVIOUS
<1> HIDE DEF pick, G, S
<1>8. \E f : f = [t \in SUBSET S |-> Body(f, t)]
  <2>1. PICK f \in [SUBSET S -> Nat] : Iterates(f, S, Nat, 0, pick, G)
    BY <1>3, <1>4, <1>5, FoldExists
  <2>2. ASSUME NEW t \in SUBSET S PROVE f[t] = Body(f, t)
    <3>1. CASE t = {}
      BY <2>1, <3>1 DEF Iterates
    <3>2. CASE t # {}
      <4>1. t \in (SUBSET S) \ {{}} /\ t \ {Max(t)} \in SUBSET S
        BY <3>2
      <4>2. f[t] = G[<<f[t \ {pick[t]}], pick[t]>>]
        BY <2>1, <4>1 DEF Iterates
      <4>3. pick[t] = Max(t) /\ f[t \ {Max(t)}] \in Nat
        BY <1>7, <4>1
      <4>4. f[t] = G[<<f[t \ {Max(t)}], pick[t]>>]
        BY <4>2, <4>3
      <4>5. f[t] = (f[t \ {Max(t)}] * b + Digit(D[Max(t)])) % m
        BY <1>6, <4>1, <4>3, <4>4
      <4>6. QED
        BY <3>2, <4>5
    <3>3. QED
      BY <3>1, <3>2
  <2> HIDE DEF Body
  <2>3. f = [t \in SUBSET S |-> Body(f, t)]
    BY <2>2
  <2>4. QED
    BY <2>3
<1>9. iter = [t \in SUBSET S |-> Body(iter, t)]
  <2> HIDE DEF Body
  <2>1. QED
    BY <1>8
<1> HIDE DEF iter
<1> DEFINE T == {k \in Nat : k <= n => iter[1 .. k] = V[k] % m}
<1>10. 0 \in T
  <2>1. 1 .. 0 = {}
    OBVIOUS
  <2>2. iter[{}] = 0
    BY <1>9
  <2>3. V[0] = 0 /\ 0 % m = 0
    BY <1>1 DEF Values
  <2>4. QED
    BY <2>1, <2>2, <2>3
<1>11. ASSUME NEW k \in Nat, k \in T PROVE k + 1 \in T
  <2> SUFFICES ASSUME k + 1 <= n PROVE iter[1 .. k + 1] = V[k + 1] % m
    OBVIOUS
  <2>1. k \in 0 .. n - 1 /\ iter[1 .. k] = V[k] % m /\ k \in 0 .. n
    BY <1>1, <1>11
  <2>2. V[k] \in Nat /\ V[k + 1] = V[k] * b + Digit(D[k + 1])
    BY <2>1 DEF Values
  <2>3. 1 .. k + 1 \in (SUBSET S) \ {{}}
    BY <1>1 DEF S
  <2>4. Max(1 .. k + 1) = k + 1 /\ (1 .. k + 1) \ {k + 1} = 1 .. k
    BY MaxUpto
  <2>6. iter[1 .. k + 1] = (iter[1 .. k] * b + Digit(D[k + 1])) % m
    BY <1>9, <2>3, <2>4
  <2>7. Digit(D[k + 1]) \in Nat
    BY DigitType
  <2>8. Mod(Mod(V[k], m) * b + Digit(D[k + 1]), m) = Mod(V[k] * b + Digit(D[k + 1]), m)
    <3>1. V[k] \in Nat /\ m \in Nat /\ m > 0
      BY <1>1, <2>2
    <3>2. PICK v, d : v = V[k] /\ d = Digit(D[k + 1])
      OBVIOUS
    <3>3. v \in Nat /\ d \in Nat
      BY <2>7, <3>1, <3>2
    <3> HIDE DEF T, n, Body
    <3>4. Mod(Mod(v, m) * b + d, m) = Mod(v * b + d, m)
      BY <3>1, <3>3, ModStep
    <3>5. QED
      BY <3>2, <3>4
  <2>9. QED
    BY <2>1, <2>2, <2>6, <2>8 DEF Mod
<1>12. Nat \subseteq T
  <2> HIDE DEF T
  <2>1. QED
    BY <1>10, <1>11, NatSetInduction
<1>13. QED
  BY <1>1, <1>2, <1>12 DEF S, m

-----------------------------------------------------------------------------
(***************************************************************************)
(* What digits write, by the weights of their places, is their value too.  *)
(***************************************************************************)
\* iter adds the weights of every subset of S, which pick takes apart.
Sums(iter, S, W, pick) ==
  /\ iter[{}] = 0
  /\ \A t \in (SUBSET S) \ {{}} : /\ pick[t] \in t
                                 /\ iter[t] = W[pick[t]] + iter[t \ {pick[t]}]

\* Whichever element is taken out of a set, its sum is the same.
LEMMA SumAnyOrder ==
  ASSUME NEW S, IsFiniteSet(S), NEW W \in [S -> Nat], NEW pick, NEW iter,
         Sums(iter, S, W, pick)
  PROVE  \A t \in SUBSET S : /\ iter[t] \in Nat
                            /\ \A x \in t : iter[t] = W[x] + iter[t \ {x}]
<1> DEFINE P(t) == iter[t] \in Nat /\ \A x \in t : iter[t] = W[x] + iter[t \ {x}]
           T == {k \in Nat : \A t \in SUBSET S : Cardinality(t) <= k => P(t)}
<1>0. \A t \in SUBSET S : /\ IsFiniteSet(t) /\ Cardinality(t) \in Nat
                          /\ Cardinality(t) <= Cardinality(S)
                          /\ Cardinality(t) = 0 <=> t = {}
  BY FS_Subset, FS_CardinalityType, FS_EmptySet
<1>a. \A t \in SUBSET S : \A x \in t : Cardinality(t \ {x}) = Cardinality(t) - 1
  BY <1>0, FS_RemoveElement
<1>b. P({})
  BY DEF Sums
<1>1. 0 \in T
  <2> HIDE DEF P
  <2>1. QED
    BY <1>0, <1>b
<1>2. ASSUME NEW k \in Nat, k \in T PROVE k + 1 \in T
  <2> SUFFICES ASSUME NEW t \in SUBSET S, Cardinality(t) <= k + 1 PROVE P(t)
    OBVIOUS
  <2>1. CASE t = {}
    BY <1>b, <2>1
  <2>2. CASE t # {}
    <3> DEFINE y == pick[t]
    <3>1. y \in t /\ iter[t] = W[y] + iter[t \ {y}]
      BY <2>2 DEF Sums
    <3> HIDE DEF y
    <3>a. \A x \in t : Cardinality(t \ {x}) <= k /\ t \ {x} \in SUBSET S
      BY <1>0, <1>a
    <3>b. \A x \in t : P(t \ {x})
      <4> HIDE DEF P
      <4>1. QED
        BY <1>2, <3>a
    <3>2. \A x \in t : W[x] \in Nat
      OBVIOUS
    <3>3. iter[t] \in Nat
      <4>1. iter[t \ {y}] \in Nat
        BY <3>1, <3>b
      <4>2. QED
        BY <3>1, <3>2, <4>1
    <3>4. ASSUME NEW x \in t PROVE iter[t] = W[x] + iter[t \ {x}]
      <4>1. CASE x = y
        BY <3>1, <4>1
      <4>2. CASE x # y
        <5> DEFINE u == t \ {x, y}
        <5>1. (t \ {y}) \ {x} = u /\ (t \ {x}) \ {y} = u
          OBVIOUS
        <5>2. x \in t \ {y} /\ y \in t \ {x}
          BY <3>1, <4>2
        <5>3. iter[t \ {y}] = W[x] + iter[u]
          BY <3>1, <3>b, <5>1, <5>2
        <5>4. iter[t \ {x}] = W[y] + iter[u]
          BY <3>b, <5>1, <5>2
        <5>5. u \in SUBSET S /\ Cardinality(u) <= k
          <6>1. t \ {y} \in SUBSET S /\ Cardinality(t \ {y}) <= k
            BY <3>1, <3>a
          <6>2. Cardinality((t \ {y}) \ {x}) = Cardinality(t \ {y}) - 1
            BY <1>a, <5>2, <6>1
          <6>3. Cardinality(t \ {y}) \in Nat
            BY <1>0, <6>1
          <6>4. QED
            BY <5>1, <6>1, <6>2, <6>3
        <5> HIDE DEF u
        <5>6. iter[u] \in Nat
          BY <1>2, <5>5
        <5>7. QED
          BY <3>1, <3>2, <5>3, <5>4, <5>6
      <4>3. QED
        BY <4>1, <4>2
    <3>5. QED
      BY <3>3, <3>4
  <2>3. QED
    BY <2>1, <2>2
<1>3. Nat \subseteq T
  <2> HIDE DEF T
  <2>1. QED
    BY <1>1, <1>2, NatSetInduction
<1>4. Cardinality(S) \in Nat
  BY FS_CardinalityType
<1>5. QED
  BY <1>0, <1>3, <1>4

\* The powers of a number.
IsPower(power, b) == /\ power \in [Nat -> Nat]
                     /\ power[0] = 1
                     /\ \A k \in Nat : power[k + 1] = b * power[k]

\* What defines the powers of b in Written.
Powers(b) == CHOOSE f : f = [k \in Nat |-> IF k = 0 THEN 1 ELSE b * f[k - 1]]

\* They are the powers of b.
LEMMA PowersAre == ASSUME NEW b \in Nat PROVE IsPower(Powers(b), b)
<1> DEFINE G == [p \in Nat \X Nat |-> b * p[2]]
<1>1. G \in [Nat \X Nat -> Nat] /\ \A k, v \in Nat : G[<<k, v>>] = b * v
  OBVIOUS
<1> HIDE DEF G
<1>2. PICK f \in [Nat -> Nat] : \A n \in Nat : Computes(f, 1, G, n)
  <2>1. 1 \in Nat
    OBVIOUS
  <2>2. QED
    BY <1>1, <2>1, ComputesExists
<1>3. f[0] = 1 /\ \A k \in Nat : f[k + 1] = b * f[k]
  <2>1. f[0] = 1
    BY <1>2 DEF Computes
  <2>2. ASSUME NEW k \in Nat PROVE f[k + 1] = b * f[k]
    <3>1. f[k + 1] = G[<<k, f[k]>>]
      BY <1>2 DEF Computes
    <3>2. QED
      BY <1>1, <3>1
  <2>3. QED
    BY <2>1, <2>2
<1>4. ASSUME NEW k \in Nat PROVE f[k] = IF k = 0 THEN 1 ELSE b * f[k - 1]
  <2>1. CASE k = 0
    BY <1>3, <2>1
  <2>2. CASE k # 0
    <3>1. k - 1 \in Nat /\ (k - 1) + 1 = k
      BY <2>2
    <3>2. QED
      BY <1>3, <2>2, <3>1
  <2>3. QED
    BY <2>1, <2>2
<1> DEFINE Body(g, k) == IF k = 0 THEN 1 ELSE b * g[k - 1]
<1>5. \A k \in Nat : f[k] = Body(f, k)
  BY <1>4
<1>6. Powers(b) = CHOOSE g : g = [k \in Nat |-> Body(g, k)]
  BY DEF Powers
<1> HIDE DEF Body
<1>7. f = [k \in Nat |-> Body(f, k)]
  BY <1>5
<1>8. Powers(b) = [k \in Nat |-> Body(Powers(b), k)]
  BY <1>6, <1>7
<1> DEFINE p == Powers(b)
<1>9. p = [k \in Nat |-> Body(p, k)]
  BY <1>8
<1> HIDE DEF p
<1>10. \A k \in Nat : p[k] = Body(p, k)
  BY <1>9
<1>11. DOMAIN p = Nat /\ p = [k \in Nat |-> p[k]]
  BY <1>9
<1>12. p[0] = 1 /\ \A k \in Nat : p[k + 1] = b * p[k]
  BY <1>10 DEF Body
<1> DEFINE T == {k \in Nat : p[k] \in Nat}
<1>13. 0 \in T /\ \A k \in Nat : k \in T => k + 1 \in T
  BY <1>12
<1>14. Nat \subseteq T
  <2> HIDE DEF T
  <2>1. QED
    BY <1>13, NatSetInduction
<1>15. p \in [Nat -> Nat]
  BY <1>11, <1>14
<1>16. QED
  BY <1>12, <1>15 DEF IsPower, p

\* The sum of the weighted digits is their value.
LEMMA WrittenIs ==
  ASSUME NEW X, NEW s \in Seq(X), NEW b \in Nat, NEW V, Values(V, s, b)
  PROVE  Written(s, b) = {x \in {V[Len(s)]} : \A i \in 1 .. Len(s) : Digit(s[i]) < b}
<1> DEFINE n == Len(s)
           S == 1 .. n
           p == Powers(b)
           pick == [u \in (SUBSET S) \ {{}} |-> CHOOSE x \in u : TRUE]
           W == [i \in S |-> Digit(s[i]) * p[n - i]]
           Weight(i) == Digit(s[i]) * p[n - i]
           Body(f, u) == IF u = {} THEN 0
                         ELSE LET x == CHOOSE x \in u : TRUE
                              IN  Weight(x) + f[u \ {x}]
           iter == CHOOSE f : f = [u \in SUBSET S |-> Body(f, u)]
<1>1. Written(s, b) = {x \in {iter[S]} : \A i \in 1 .. n : Digit(s[i]) < b}
  BY DEF Written, MapThenSumSet, MapThenFoldSet, Powers
<1>2. n \in Nat /\ IsFiniteSet(S)
  BY FS_Interval
<1>3. pick \in [(SUBSET S) \ {{}} -> S] /\ \A u \in (SUBSET S) \ {{}} : pick[u] \in u
  OBVIOUS
<1>4. IsPower(p, b)
  BY PowersAre
<1> HIDE DEF p
<1>5. W \in [S -> Nat] /\ \A i \in S : W[i] = Weight(i)
  <2>1. ASSUME NEW i \in S PROVE Digit(s[i]) * p[n - i] \in Nat
    <3>1. n - i \in Nat
      BY <1>2
    <3>2. p[n - i] \in Nat
      BY <1>4, <3>1 DEF IsPower
    <3>3. Digit(s[i]) \in Nat
      BY DigitType, Zenon
    <3>4. QED
      BY <3>2, <3>3
  <2>2. QED
    BY <2>1
<1> DEFINE G == [q \in Nat \X S |-> W[q[2]] + q[1]]
<1>6. G \in [Nat \X S -> Nat] /\ \A v \in Nat, i \in S : G[<<v, i>>] = W[i] + v
  <2> HIDE DEF W
  <2>1. \A v \in Nat, i \in S : W[i] + v \in Nat
    BY <1>5
  <2>2. QED
    BY <2>1
<1>7. \A u \in (SUBSET S) \ {{}} : pick[u] = CHOOSE x \in u : TRUE
  OBVIOUS
<1> HIDE DEF pick, W, G, S, Weight
<1>8. \E f : f = [u \in SUBSET S |-> Body(f, u)]
  <2>1. PICK f \in [SUBSET S -> Nat] : Iterates(f, S, Nat, 0, pick, G)
    BY <1>2, <1>3, <1>6, FoldExists
  <2>2. ASSUME NEW u \in SUBSET S PROVE f[u] = Body(f, u)
    <3>1. CASE u = {}
      BY <2>1, <3>1 DEF Iterates
    <3>2. CASE u # {}
      <4>1. u \in (SUBSET S) \ {{}} /\ u \ {pick[u]} \in SUBSET S /\ pick[u] \in S
        BY <1>3, <3>2
      <4>2. f[u] = G[<<f[u \ {pick[u]}], pick[u]>>]
        BY <2>1, <4>1 DEF Iterates
      <4>3. f[u \ {pick[u]}] \in Nat
        BY <4>1
      <4>4. f[u] = Weight(pick[u]) + f[u \ {pick[u]}]
        BY <1>5, <1>6, <4>1, <4>2, <4>3
      <4>5. QED
        BY <1>7, <3>2, <4>1, <4>4
    <3>3. QED
      BY <3>1, <3>2
  <2> HIDE DEF Body
  <2>3. f = [u \in SUBSET S |-> Body(f, u)]
    BY <2>2
  <2>4. QED
    BY <2>3
<1>9. iter = [u \in SUBSET S |-> Body(iter, u)]
  <2> HIDE DEF Body
  <2>1. QED
    BY <1>8
<1> HIDE DEF iter
<1>10. Sums(iter, S, W, pick)
  <2>1. iter[{}] = 0
    BY <1>9
  <2>2. ASSUME NEW u \in (SUBSET S) \ {{}}
        PROVE  pick[u] \in u /\ iter[u] = W[pick[u]] + iter[u \ {pick[u]}]
    <3>1. pick[u] \in u /\ pick[u] \in S
      BY <1>3
    <3>2. iter[u] = Body(iter, u)
      <4> HIDE DEF Body
      <4>1. QED
        BY <1>9
    <3>3. iter[u] = Weight(pick[u]) + iter[u \ {pick[u]}]
      BY <1>7, <3>2
    <3>4. QED
      BY <1>5, <3>1, <3>3
  <2>3. QED
    BY <2>1, <2>2 DEF Sums
<1>11. \A u \in SUBSET S : /\ iter[u] \in Nat
                          /\ \A x \in u : iter[u] = W[x] + iter[u \ {x}]
  <2>1. IsFiniteSet(S) /\ W \in [S -> Nat]
    BY <1>2, <1>5
  <2> HIDE DEF n, Body
  <2>2. QED
    BY <1>10, <2>1, SumAnyOrder
<1> HIDE DEF Body
<1> DEFINE T == {k \in Nat : k <= n => iter[1 .. k] = V[k] * p[n - k]}
<1>12. 0 \in T
  <2>1. 1 .. 0 = {} /\ n - 0 = n
    BY <1>2
  <2>2. iter[{}] = 0
    BY <1>10 DEF Sums
  <2>3. V[0] = 0 /\ p[n] \in Nat
    BY <1>2, <1>4 DEF Values, IsPower
  <2>4. V[0] * p[n] = 0
    BY <2>3
  <2>5. QED
    BY <2>1, <2>2, <2>4
<1>13. ASSUME NEW k \in Nat, k \in T PROVE k + 1 \in T
  <2> SUFFICES ASSUME k + 1 <= n PROVE iter[1 .. k + 1] = V[k + 1] * p[n - (k + 1)]
    OBVIOUS
  <2>1. k \in 0 .. n - 1 /\ iter[1 .. k] = V[k] * p[n - k] /\ k \in 0 .. n
    BY <1>2, <1>13
  <2>2. V[k] \in Nat /\ V[k + 1] = V[k] * b + Digit(s[k + 1])
    BY <2>1 DEF Values
  <2>3. 1 .. k + 1 \in SUBSET S /\ k + 1 \in 1 .. k + 1 /\ k + 1 \in S
    BY <1>2 DEF S
  <2>4. (1 .. k + 1) \ {k + 1} = 1 .. k
    BY MaxUpto
  <2>5. iter[1 .. k + 1] = Weight(k + 1) + iter[1 .. k]
    BY <1>5, <1>11, <2>3, <2>4
  <2>6. n - (k + 1) \in Nat /\ (n - (k + 1)) + 1 = n - k
    BY <1>2, <2>1
  <2>7. p[n - (k + 1)] \in Nat /\ p[n - k] = b * p[n - (k + 1)]
    BY <1>4, <2>6 DEF IsPower
  <2>8. Digit(s[k + 1]) \in Nat
    BY DigitType
  <2>9. Weight(k + 1) = Digit(s[k + 1]) * p[n - (k + 1)]
    BY DEF Weight
  <2>10. PICK v, d, x : v = V[k] /\ d = Digit(s[k + 1]) /\ x = p[n - (k + 1)]
    OBVIOUS
  <2>11. v \in Nat /\ d \in Nat /\ x \in Nat
    BY <2>2, <2>7, <2>8, <2>10
  <2>12. iter[1 .. k + 1] = d * x + v * (b * x) /\ V[k + 1] * p[n - (k + 1)] = (v * b + d) * x
    BY <2>1, <2>2, <2>5, <2>7, <2>9, <2>10
  <2> HIDE DEF n, T
  <2>13. d * x + v * (b * x) = (v * b + d) * x
    BY <2>11
  <2>14. QED
    BY <2>12, <2>13
<1>14. Nat \subseteq T
  <2> HIDE DEF T
  <2>1. QED
    BY <1>12, <1>13, NatSetInduction
<1>15. iter[S] = V[n]
  <2>1. iter[1 .. n] = V[n] * p[n - n]
    BY <1>2, <1>14
  <2>2. n - n = 0 /\ n \in 0 .. n
    BY <1>2
  <2>3. p[0] = 1 /\ V[n] \in Nat
    BY <1>4, <2>2 DEF IsPower, Values
  <2>4. V[n] * 1 = V[n]
    BY <2>3
  <2>5. QED
    BY <2>1, <2>2, <2>3, <2>4 DEF S
<1>16. QED
  BY <1>1, <1>15

-----------------------------------------------------------------------------
(***************************************************************************)
(* Decimal spells a number: a text of digits with that value.              *)
(***************************************************************************)
\* The symbols of the decimal digits.
LEMMA UpperIs ==
  ASSUME NEW i \in 1 .. 10, NEW j \in 1 .. 16
  PROVE  Upper[i] \in {Upper[j], Lower[j]} <=> i = j
<1>1. CASE i = 1
  BY <1>1 DEF Upper, Lower
<1>2. CASE i = 2
  BY <1>2 DEF Upper, Lower
<1>3. CASE i = 3
  BY <1>3 DEF Upper, Lower
<1>4. CASE i = 4
  BY <1>4 DEF Upper, Lower
<1>5. CASE i = 5
  BY <1>5 DEF Upper, Lower
<1>6. CASE i = 6
  BY <1>6 DEF Upper, Lower
<1>7. CASE i = 7
  BY <1>7 DEF Upper, Lower
<1>8. CASE i = 8
  BY <1>8 DEF Upper, Lower
<1>9. CASE i = 9
  BY <1>9 DEF Upper, Lower
<1>10. CASE i = 10
  BY <1>10 DEF Upper, Lower
<1>11. QED
  BY <1>1, <1>2, <1>3, <1>4, <1>5, <1>6, <1>7, <1>8, <1>9, <1>10

\* The symbols that stand for digits.
Figures == {Upper[i] : i \in 1 .. 16}

\* A decimal digit is written as the symbol that stands for it.
LEMMA DigitIs ==
  ASSUME NEW d \in 0 .. 9
  PROVE  /\ Digit(Upper[d + 1]) = d
         /\ Upper[d + 1] \in Figures
         /\ Upper[d + 1] = "0" <=> d = 0
<1>1. d + 1 \in 1 .. 10 /\ d + 1 \in 1 .. 16
  OBVIOUS
<1>2. \A j \in 1 .. 16 : Upper[d + 1] \in {Upper[j], Lower[j]} <=> d + 1 = j
  BY <1>1, UpperIs
<1>3. \A e \in 0 .. 15 : Upper[d + 1] \in {Upper[e + 1], Lower[e + 1]} <=> e = d
  <2>1. \A e \in 0 .. 15 : e + 1 \in 1 .. 16
    OBVIOUS
  <2> DEFINE c == Upper[d + 1]
  <2> HIDE DEF c
  <2>2. ASSUME NEW e \in 0 .. 15 PROVE c \in {Upper[e + 1], Lower[e + 1]} <=> e = d
    <3>1. e + 1 \in 1 .. 16
      OBVIOUS
    <3>2. c \in {Upper[e + 1], Lower[e + 1]} <=> d + 1 = e + 1
      BY <1>2, <3>1 DEF c
    <3>3. QED
      BY <3>2
  <2>3. QED
    BY <2>2 DEF c
<1>4. Digit(Upper[d + 1]) = d
  <2> DEFINE c == Upper[d + 1]
  <2>1. \E j \in 1 .. 16 : c \in {Upper[j], Lower[j]}
    BY <1>1
  <2>2. d \in 0 .. 15
    OBVIOUS
  <2>3. \A e \in 0 .. 15 : c \in {Upper[e + 1], Lower[e + 1]} <=> e = d
    BY <1>3
  <2> HIDE DEF c
  <2>4. (CHOOSE e \in 0 .. 15 : c \in {Upper[e + 1], Lower[e + 1]}) = d
    BY <2>2, <2>3
  <2>5. Digit(c) = d
    BY <2>1, <2>4 DEF Digit
  <2>6. QED
    BY <2>5 DEF c
<1>5. Upper[1] = "0"
  BY DEF Upper
<1>6. Upper[d + 1] = "0" <=> d = 0
  BY <1>1, <1>2, <1>5
<1>7. \A i \in 1 .. 16 : Upper[i] \in Figures
  BY DEF Figures
<1>8. QED
  BY <1>1, <1>4, <1>6, <1>7

\* The quotient and the remainder by ten.
LEMMA ByTen ==
  ASSUME NEW n \in Nat
  PROVE  /\ n \div 10 \in Nat /\ n % 10 \in 0 .. 9
         /\ n = (n \div 10) * 10 + (n % 10)
         /\ n >= 10 => n \div 10 < n /\ n \div 10 > 0
OBVIOUS

\* What the decimal digits of n are, if f says it for smaller numbers.
Tens(f, n) == IF n < 10 THEN <<Upper[n + 1]>>
              ELSE f[n \div 10] \o <<Upper[(n % 10) + 1]>>

\* Decimal(n), for all n.
Decimals == CHOOSE f : f = [n \in Nat |-> Tens(f, n)]

\* Tens defines it: stage k + 1 is right for the numbers up to k.
LEMMA DecimalsAre ==
  /\ DOMAIN Decimals = Nat
  /\ \A n \in Nat : Decimals[n] = Tens(Decimals, n) /\ Decimals[n] \in Seq(Figures)
<1> DEFINE X == Seq(Figures)
           Y == [Nat -> X]
           base == [n \in Nat |-> <<>>]
           G == [p \in Nat \X Y |-> [n \in Nat |-> Tens(p[2], n)]]
<1>1. \A d \in 0 .. 9 : Upper[d + 1] \in Figures
  BY DigitIs
<1>2. ASSUME NEW h, NEW n \in Nat, n >= 10 => h[n \div 10] \in X PROVE Tens(h, n) \in X
  <2>1. CASE n < 10
    <3>1. Upper[n + 1] \in Figures
      BY <1>1, <2>1
    <3>2. QED
      BY <2>1, <3>1 DEF Tens
  <2>2. CASE ~(n < 10)
    <3>1. h[n \div 10] \in Seq(Figures)
      BY <1>2, <2>2
    <3>2. <<Upper[(n % 10) + 1]>> \in Seq(Figures)
      <4>1. Upper[(n % 10) + 1] \in Figures
        BY <1>1, ByTen
      <4>2. QED
        BY <4>1
    <3>3. QED
      BY <2>2, <3>1, <3>2 DEF Tens
  <2>3. QED
    BY <2>1, <2>2
<1>3. base \in Y
  OBVIOUS
<1>4. \A k \in Nat, h \in Y : G[<<k, h>>] = [n \in Nat |-> Tens(h, n)]
  OBVIOUS
<1> HIDE DEF X
<1>5. G \in [Nat \X Y -> Y]
  <2>1. ASSUME NEW h \in Y, NEW n \in Nat PROVE Tens(h, n) \in X
    BY <1>2, ByTen
  <2>2. QED
    BY <2>1
<1> HIDE DEF G, base, Y
<1>6. PICK H \in [Nat -> Y] : \A n \in Nat : Computes(H, base, G, n)
  BY <1>3, <1>5, ComputesExists
<1>7. ASSUME NEW k \in Nat PROVE H[k + 1] = [n \in Nat |-> Tens(H[k], n)] /\ H[k] \in Y
  <2>1. H[k + 1] = G[<<k, H[k]>>]
    BY <1>6 DEF Computes
  <2>2. QED
    BY <1>4, <2>1
<1>8. \A k, n \in Nat : H[k + 1][n] = Tens(H[k], n)
  BY <1>7
<1> DEFINE T == {k \in Nat : \A n \in Nat : n <= k => H[(k + 1) + 1][n] = H[k + 1][n]}
<1>9. 0 \in T
  <2> SUFFICES ASSUME NEW n \in Nat, n <= 0 PROVE H[(0 + 1) + 1][n] = H[0 + 1][n]
    OBVIOUS
  <2>1. H[(0 + 1) + 1][n] = Tens(H[0 + 1], n) /\ H[0 + 1][n] = Tens(H[0], n)
    BY <1>8
  <2>2. n < 10
    OBVIOUS
  <2>3. QED
    BY <2>1, <2>2 DEF Tens
<1>10. ASSUME NEW k \in Nat, k \in T PROVE k + 1 \in T
  <2> SUFFICES ASSUME NEW n \in Nat, n <= k + 1
               PROVE  H[((k + 1) + 1) + 1][n] = H[(k + 1) + 1][n]
    OBVIOUS
  <2>1. H[((k + 1) + 1) + 1][n] = Tens(H[(k + 1) + 1], n) /\ H[(k + 1) + 1][n] = Tens(H[k + 1], n)
    BY <1>8
  <2>2. CASE n < 10
    BY <2>1, <2>2 DEF Tens
  <2>3. CASE ~(n < 10)
    <3>1. n \div 10 \in Nat /\ n \div 10 <= k
      BY <2>3, ByTen
    <3>2. H[(k + 1) + 1][n \div 10] = H[k + 1][n \div 10]
      BY <1>10, <3>1
    <3>3. QED
      BY <2>1, <2>3, <3>2 DEF Tens
  <2>4. QED
    BY <2>2, <2>3
<1>11. Nat \subseteq T
  <2> HIDE DEF T
  <2>1. QED
    BY <1>9, <1>10, NatSetInduction
<1>12. \A k, n \in Nat : n <= k => H[(k + 1) + 1][n] = H[k + 1][n]
  BY <1>11
<1> HIDE DEF T
<1>13. ASSUME NEW n \in Nat PROVE \A j \in Nat : H[(n + j) + 1][n] = H[n + 1][n]
  <2> DEFINE U == {j \in Nat : H[(n + j) + 1][n] = H[n + 1][n]}
  <2>1. 0 \in U
    OBVIOUS
  <2>2. ASSUME NEW j \in Nat, j \in U PROVE j + 1 \in U
    <3>1. n + j \in Nat /\ n <= n + j /\ n + (j + 1) = (n + j) + 1
      OBVIOUS
    <3>2. H[((n + j) + 1) + 1][n] = H[(n + j) + 1][n]
      BY <1>12, <3>1
    <3>3. QED
      BY <2>2, <3>1, <3>2
  <2>3. Nat \subseteq U
    <3> HIDE DEF U
    <3>1. QED
      BY <2>1, <2>2, NatSetInduction
  <2>4. QED
    BY <2>3
<1> DEFINE f == [n \in Nat |-> H[n + 1][n]]
<1>14. ASSUME NEW n \in Nat PROVE f[n] = Tens(f, n)
  <2>1. f[n] = Tens(H[n], n)
    BY <1>8
  <2>2. CASE n < 10
    BY <2>1, <2>2 DEF Tens
  <2>3. CASE ~(n < 10)
    <3> DEFINE m == n \div 10
    <3>1. m \in Nat /\ n - m - 1 \in Nat /\ (m + (n - m - 1)) + 1 = n
      BY <2>3, ByTen
    <3> HIDE DEF m
    <3>2. H[n][m] = f[m]
      BY <1>13, <3>1
    <3>3. QED
      BY <2>1, <2>3, <3>2 DEF Tens, m
  <2>4. QED
    BY <2>2, <2>3
<1>15. \A n \in Nat : f[n] \in X
  <2>1. \A n \in Nat : H[n + 1] \in Y
    OBVIOUS
  <2>2. QED
    BY <2>1 DEF Y
<1>16. f = [n \in Nat |-> Tens(f, n)]
  <2>1. f = [n \in Nat |-> f[n]]
    OBVIOUS
  <2> HIDE DEF f
  <2>2. QED
    BY <1>14, <2>1
<1> HIDE DEF f
<1>17. Decimals = [n \in Nat |-> Tens(Decimals, n)]
  BY <1>16 DEF Decimals
<1> DEFINE D == Decimals
<1>18. DOMAIN D = Nat /\ \A n \in Nat : D[n] = Tens(D, n)
  <2> HIDE DEF D
  <2>1. D = [n \in Nat |-> Tens(D, n)]
    BY <1>17 DEF D
  <2>2. QED
    BY <2>1
<1> DEFINE Z == {k \in Nat : \A n \in Nat : n <= k => D[n] \in X}
<1> HIDE DEF D
<1>19. 0 \in Z
  <2>1. ASSUME NEW n \in Nat, n <= 0 PROVE D[n] \in X
    <3>1. Tens(D, n) \in X
      BY <1>2, <2>1
    <3>2. QED
      BY <1>18, <3>1
  <2>2. QED
    BY <2>1
<1>20. ASSUME NEW k \in Nat, k \in Z PROVE k + 1 \in Z
  <2>1. ASSUME NEW n \in Nat, n <= k + 1 PROVE D[n] \in X
    <3>1. n >= 10 => n \div 10 \in Nat /\ n \div 10 <= k
      BY <2>1, ByTen
    <3>2. n >= 10 => D[n \div 10] \in X
      BY <1>20, <3>1
    <3>3. Tens(D, n) \in X
      BY <1>2, <3>2
    <3>4. QED
      BY <1>18, <3>3
  <2>2. QED
    BY <2>1
<1>21. Nat \subseteq Z
  <2> HIDE DEF Z
  <2>1. QED
    BY <1>19, <1>20, NatSetInduction
<1>22. \A n \in Nat : D[n] \in X
  BY <1>21
<1>23. QED
  BY <1>18, <1>22 DEF D, X

\* The text D has the value t, written in digits below b.
Worth(D, b, t) == /\ \A i \in 1 .. Len(D) : Digit(D[i]) < b
                  /\ \E V : Values(V, D, b) /\ V[Len(D)] = t

\* One more digit.
LEMMA WorthNext ==
  ASSUME NEW D \in Seq(Figures), NEW b \in Nat, NEW t \in Nat, Worth(D, b, t),
         NEW c \in Figures, Digit(c) < b
  PROVE  Worth(D \o <<c>>, b, t * b + Digit(c))
<1> DEFINE E == D \o <<c>>
<1>1. PICK V : Values(V, D, b) /\ V[Len(D)] = t
  BY DEF Worth
<1>2. Len(E) = Len(D) + 1 /\ Len(D) \in Nat
  OBVIOUS
<1>3. E[Len(D) + 1] = c /\ \A i \in 1 .. Len(D) : E[i] = D[i]
  OBVIOUS
<1> HIDE DEF E
<1> DEFINE W == [k \in 0 .. Len(E) |-> IF k <= Len(D) THEN V[k] ELSE t * b + Digit(c)]
<1>4. \A i \in 1 .. Len(E) : Digit(E[i]) < b
  <2>1. \A i \in 1 .. Len(E) : i \in 1 .. Len(D) \/ i = Len(D) + 1
    BY <1>2
  <2>2. QED
    BY <1>3, <2>1 DEF Worth
<1>5. W \in [0 .. Len(E) -> Nat]
  <2>1. V \in [0 .. Len(D) -> Nat]
    BY <1>1 DEF Values
  <2>2. t * b + Digit(c) \in Nat
    <3>1. t * b \in Nat
      OBVIOUS
    <3>2. Digit(c) \in Nat
      BY DigitType
    <3> DEFINE p == t * b
               q == Digit(c)
    <3> HIDE DEF p, q
    <3>3. p + q \in Nat
      BY <3>1, <3>2 DEF p, q
    <3>4. QED
      BY <3>3 DEF p, q
  <2>3. \A k \in 0 .. Len(E) : k <= Len(D) => k \in 0 .. Len(D)
    BY <1>2
  <2> DEFINE x == t * b + Digit(c)
  <2> HIDE DEF x
  <2>4. QED
    BY <2>1, <2>2, <2>3 DEF x
<1>6. W[0] = 0
  BY <1>1, <1>2 DEF Values
<1>7. ASSUME NEW k \in 0 .. Len(E) - 1 PROVE W[k + 1] = W[k] * b + Digit(E[k + 1])
  <2>1. CASE k < Len(D)
    <3>1. k \in 0 .. Len(D) - 1 /\ k + 1 \in 1 .. Len(D) /\ k \in 0 .. Len(E)
          /\ k + 1 \in 0 .. Len(E)
      BY <1>2, <2>1
    <3>2. V[k + 1] = V[k] * b + Digit(D[k + 1])
      BY <1>1, <3>1 DEF Values
    <3>3. W[k + 1] = V[k + 1] /\ W[k] = V[k] /\ E[k + 1] = D[k + 1]
      BY <1>2, <1>3, <3>1
    <3>4. QED
      BY <3>2, <3>3
  <2>2. CASE ~(k < Len(D))
    <3>1. k = Len(D)
      BY <1>2, <2>2
    <3>2. W[k] = t
      BY <1>1, <1>2, <3>1
    <3>3. W[k + 1] = t * b + Digit(c)
      BY <1>2, <3>1
    <3>4. QED
      BY <1>3, <3>1, <3>2, <3>3
  <2>3. QED
    BY <2>1, <2>2
<1>8. W[Len(E)] = t * b + Digit(c)
  BY <1>2
<1> HIDE DEF W
<1>9. Values(W, E, b)
  BY <1>5, <1>6, <1>7 DEF Values
<1>10. QED
  BY <1>4, <1>8, <1>9 DEF Worth, E

\* One digit.
LEMMA WorthOne ==
  ASSUME NEW c \in Figures, NEW b \in Nat, Digit(c) < b
  PROVE  Worth(<<c>>, b, Digit(c))
<1>1. <<>> \in Seq(Figures) /\ <<>> \o <<c>> = <<c>>
  OBVIOUS
<1>2. Worth(<<>>, b, 0)
  <2>1. Values([k \in 0 .. 0 |-> 0], <<>>, b)
    BY DEF Values
  <2>2. QED
    BY <2>1 DEF Worth
<1>3. Worth(<<>> \o <<c>>, b, 0 * b + Digit(c))
  BY <1>1, <1>2, WorthNext
<1>4. 0 * b + Digit(c) = Digit(c)
  BY DigitType
<1>5. QED
  BY <1>1, <1>3, <1>4

\* The digits of t: they have the value t, and the first is not 0, except for 0.
Spells(D, t) == /\ D # <<>> /\ D \in Seq(Figures)
                /\ Worth(D, 10, t)
                /\ D[1] = "0" => t = 0 /\ D = <<"0">>

\* Decimal has them.
LEMMA DecimalIs == \A t \in Nat : Spells(Decimal(t), t)
<1> DEFINE D == Decimals
           T == {k \in Nat : \A n \in Nat : n <= k => Spells(D[n], n)}
<1>1. \A n \in Nat : D[n] = Tens(D, n) /\ D[n] \in Seq(Figures)
  BY DecimalsAre
<1> HIDE DEF D
<1>2. ASSUME NEW n \in Nat, n < 10 PROVE Spells(D[n], n)
  <2>1. D[n] = <<Upper[n + 1]>>
    BY <1>1, <1>2 DEF Tens
  <2>2. /\ Digit(Upper[n + 1]) = n /\ Upper[n + 1] \in Figures
        /\ Upper[n + 1] = "0" <=> n = 0
    BY <1>2, DigitIs
  <2> DEFINE c == Upper[n + 1]
  <2> HIDE DEF c
  <2>3. Worth(<<c>>, 10, n)
    BY <1>2, <2>2, WorthOne DEF c
  <2>4. <<c>> # <<>> /\ <<c>>[1] = c /\ (c = "0" => <<c>> = <<"0">>)
    OBVIOUS
  <2>5. QED
    BY <1>1, <2>1, <2>2, <2>3, <2>4 DEF Spells, c
<1>3. ASSUME NEW n \in Nat, n >= 10, Spells(D[n \div 10], n \div 10) PROVE Spells(D[n], n)
  <2> DEFINE m == n \div 10
             d == n % 10
             c == Upper[d + 1]
  <2>1. m \in Nat /\ d \in 0 .. 9 /\ n = m * 10 + d /\ m > 0
    BY <1>3, ByTen
  <2>2. D[n] = D[m] \o <<c>>
    <3>1. D[n] = Tens(D, n)
      BY <1>1
    <3>2. ~(n < 10)
      BY <1>3
    <3>3. QED
      BY <3>1, <3>2, Zenon DEF Tens
  <2>3. Spells(D[m], m)
    BY <1>3
  <2> HIDE DEF m, d
  <2>4. Digit(c) = d /\ c \in Figures
    BY <2>1, DigitIs
  <2> HIDE DEF c
  <2>5. Digit(c) < 10 /\ n = m * 10 + Digit(c)
    BY <2>1, <2>4
  <2>6. Worth(D[m], 10, m) /\ D[m] \in Seq(Figures) /\ D[m] # <<>> /\ D[m][1] # "0"
    BY <2>1, <2>3 DEF Spells
  <2>7. Worth(D[m] \o <<c>>, 10, n)
    BY <2>1, <2>4, <2>5, <2>6, WorthNext
  <2>8. (D[m] \o <<c>>)[1] = D[m][1] /\ D[m] \o <<c>> # <<>>
    BY <2>6
  <2>9. QED
    BY <1>1, <2>2, <2>6, <2>7, <2>8 DEF Spells
<1>4. 0 \in T
  <2>1. \A n \in Nat : n <= 0 => n < 10
    OBVIOUS
  <2>2. QED
    BY <1>2, <2>1
<1>5. ASSUME NEW k \in Nat, k \in T PROVE k + 1 \in T
  <2> SUFFICES ASSUME NEW n \in Nat, n <= k + 1 PROVE Spells(D[n], n)
    OBVIOUS
  <2>1. CASE n < 10
    BY <1>2, <2>1
  <2>2. CASE n >= 10
    <3>1. n \div 10 \in Nat /\ n \div 10 <= k
      BY <2>2, ByTen
    <3>2. Spells(D[n \div 10], n \div 10)
      BY <1>5, <3>1
    <3>3. QED
      BY <1>3, <2>2, <3>2
  <2>3. QED
    BY <2>1, <2>2
<1>6. Nat \subseteq T
  <2> HIDE DEF T
  <2>1. QED
    BY <1>4, <1>5, NatSetInduction
<1>7. \A n \in Nat : Spells(D[n], n)
  BY <1>6
<1>8. \A x : Decimal(x) = D[x]
  BY DEF Decimal, Decimals, Tens, D
<1>9. QED
  BY <1>7, <1>8

-----------------------------------------------------------------------------
(***************************************************************************)
(* The kill command: what the line means is what is done.                  *)
(***************************************************************************)
\* The digits of the number w begin at first.
HasRadix(w, base, first) == Radix(w) = [base |-> base, first |-> first]

\* stoi takes w for what an int holds of the number in N, if there is one.
TakenFor(w, N) ==
  /\ N \subseteq Nat
  /\ \A t : IsNumber(w) /\ Stoi(w) = t <=> \E n \in N : n % 2 ^ Width = t

\* It takes w for the number its digits write.
LEMMA StoiReads ==
  ASSUME NEW X, NEW w \in Seq(X), w # <<>>, NEW b \in Nat, NEW f \in 1 .. Len(w),
         HasRadix(w, b, f)
  PROVE  TakenFor(w, Written(SubSeq(w, f, Len(w)), b))
<1> DEFINE D == SubSeq(w, f, Len(w))
<1>1. /\ D \in Seq(X) /\ Len(D) = Len(w) - f + 1 /\ Len(w) \in Nat
      /\ \A i \in 1 .. Len(D) : D[i] = w[f + i - 1]
  OBVIOUS
<1>2. Radix(w).base = b /\ Radix(w).first = f
  BY DEF HasRadix
<1>3. HasDigits(w, D, b)
  BY <1>2 DEF HasDigits
<1> HIDE DEF D
<1>4. IsNumber(w) <=> \A i \in 1 .. Len(D) : Digit(D[i]) < b
  <2>1. IsNumber(w) <=> \A i \in f .. Len(w) : Digit(w[i]) < b
    BY <1>2, Zenon DEF IsNumber
  <2>2. ASSUME NEW i \in f .. Len(w) PROVE i - f + 1 \in 1 .. Len(D) /\ D[i - f + 1] = w[i]
    <3>1. i - f + 1 \in 1 .. Len(D) /\ f + (i - f + 1) - 1 = i
      BY <1>1
    <3>2. QED
      BY <1>1, <3>1
  <2>3. ASSUME NEW i \in 1 .. Len(D) PROVE f + i - 1 \in f .. Len(w) /\ D[i] = w[f + i - 1]
    BY <1>1
  <2>4. QED
    BY <2>1, <2>2, <2>3
<1>5. PICK V : Values(V, D, b)
  BY <1>1, ValuesExist
<1>6. Stoi(w) = V[Len(D)] % 2 ^ Width
  BY <1>1, <1>3, <1>5, StoiIs
<1>7. Written(D, b) = {n \in {V[Len(D)]} : IsNumber(w)}
  <2>1. Written(D, b) = {n \in {V[Len(D)]} : \A i \in 1 .. Len(D) : Digit(D[i]) < b}
    BY <1>1, <1>5, WrittenIs
  <2>2. QED
    BY <1>4, <2>1, Zenon
<1>8. V[Len(D)] \in Nat
  <2>1. Len(D) \in 0 .. Len(D)
    BY <1>1
  <2>2. QED
    BY <1>5, <2>1 DEF Values
<1> HIDE DEF IsNumber
<1>9. Written(D, b) \subseteq Nat
  BY <1>7, <1>8, Zenon
<1>10. \A t : IsNumber(w) /\ Stoi(w) = t <=> \E n \in Written(D, b) : n % 2 ^ Width = t
  BY <1>6, <1>7, Zenon
<1>11. QED
  BY <1>9, <1>10, Zenon DEF D, TakenFor

\* So it is with what a word means.
LEMMA MeaningIs ==
  ASSUME NEW X, NEW w \in Seq(X), w # <<>>
  PROVE  TakenFor(w, Meaning(w))
<1> DEFINE Octal == Len(w) > 1 /\ w[1] = "0" /\ ~Prefixed(w)
<1>1. Len(w) \in Nat /\ Len(w) >= 1
  OBVIOUS
<1>2. CASE Prefixed(w)
  <2>1. HasRadix(w, 16, 3)
    BY <1>2 DEF Radix, HasRadix
  <2>2. 3 \in 1 .. Len(w) /\ 16 \in Nat
    BY <1>1, <1>2 DEF Prefixed
  <2>3. Meaning(w) = Written(SubSeq(w, 3, Len(w)), 16)
    BY <1>2 DEF Meaning
  <2>4. QED
    BY <2>1, <2>2, <2>3, StoiReads
<1>3. CASE Octal
  <2>1. HasRadix(w, 8, 2)
    BY <1>3 DEF Radix, HasRadix
  <2>2. 2 \in 1 .. Len(w) /\ 8 \in Nat /\ Tail(w) = SubSeq(w, 2, Len(w))
    BY <1>1, <1>3
  <2>3. Meaning(w) = Written(SubSeq(w, 2, Len(w)), 8)
    BY <1>3, <2>2 DEF Meaning
  <2>4. QED
    BY <2>1, <2>2, <2>3, StoiReads
<1>4. CASE ~Prefixed(w) /\ ~Octal
  <2>1. HasRadix(w, 10, 1)
    BY <1>4 DEF Radix, HasRadix
  <2>2. 1 \in 1 .. Len(w) /\ 10 \in Nat /\ SubSeq(w, 1, Len(w)) = w
    BY <1>1
  <2>3. Meaning(w) = Written(SubSeq(w, 1, Len(w)), 10)
    BY <1>4, <2>2 DEF Meaning
  <2>4. QED
    BY <2>1, <2>2, <2>3, StoiReads
<1>5. QED
  BY <1>2, <1>3, <1>4

\* An int holds the numbers below 2 ^ Width.
LEMMA IntHolds == ASSUME NEW t \in Nat, t < 2 ^ Width PROVE t % 2 ^ Width = t
<1> DEFINE m == 2 ^ Width
<1>1. m \in Nat /\ t < m
  BY ShellAssumption, TwoPower
<1> HIDE DEF m
<1>2. (m * 0 + t) % m = t
  BY <1>1, Remainder
<1>3. m * 0 + t = t
  BY <1>1
<1>4. QED
  BY <1>2, <1>3 DEF m

\* The list of tasks shows the decimal digits of an id that is positive as int.
LEMMA ListedMeans ==
  ASSUME NEW t \in Nat, t < 2 ^ (Width - 1)
  PROVE  ItosUd(t) # <<>> /\ Meaning(ItosUd(t)) = {t} /\ t < 2 ^ Width
<1> DEFINE D == Decimal(t)
<1>1. ItosUd(t) = D
  BY DEF ItosUd
<1>2. Spells(D, t)
  BY DecimalIs
<1> HIDE DEF D
<1>3. PICK V : Values(V, D, 10) /\ V[Len(D)] = t
  BY <1>2 DEF Spells, Worth
<1>4. t < 2 ^ Width
  <2> DEFINE m == 2 ^ Width
             h == 2 ^ (Width - 1)
  <2>1. m \in Nat /\ h \in Nat /\ h <= m
    BY ShellAssumption, TwoPower, TwoPowerGrows
  <2>2. t < h
    OBVIOUS
  <2> HIDE DEF m, h
  <2>3. t < m
    BY <2>1, <2>2
  <2>4. QED
    BY <2>3 DEF m
<1>5. Written(D, 10) = {t}
  <2>1. Written(D, 10) = {x \in {V[Len(D)]} : \A i \in 1 .. Len(D) : Digit(D[i]) < 10}
    BY <1>2, <1>3, WrittenIs DEF Spells
  <2>2. \A i \in 1 .. Len(D) : Digit(D[i]) < 10
    BY <1>2, Zenon DEF Spells, Worth
  <2>3. QED
    BY <1>3, <2>1, <2>2, Zenon
<1>6. D # <<>> /\ Len(D) \in Nat /\ (D[1] = "0" => Len(D) = 1)
  BY <1>2 DEF Spells
<1>7. Meaning(D) = Written(D, 10)
  BY <1>6 DEF Meaning, Prefixed
<1>8. QED
  BY <1>1, <1>4, <1>5, <1>6, <1>7

\* The command words differ, and none is empty.
LEMMA CommandWords == StartWords \cap KillWords = {} /\ <<>> \notin KillWords
<1>1. \A a, b \in Seq(STRING) : a[1] # b[1] => a # b
  OBVIOUS
<1>2. QED
  BY DEF StartWords, KillWords

\* Where the words of the shell are those of the line, kill is meant if it is read.
LEMMA KillIsSaid == ASSUME ShellInv, pc = "command" PROVE SaysKill(line) <=> IsKill
<1>1. 1 \in 1 .. 2
  OBVIOUS
<1>2. WordOf(line, 1) = IF words[1] = <<>> THEN {} ELSE {words[1]}
  BY <1>1 DEF ShellInv, WordsOK
<1>3. CASE words[1] = <<>>
  <2>1. WordOf(line, 1) = {}
    BY <1>2, <1>3
  <2>2. QED
    BY <1>3, <2>1, CommandWords, Zenon DEF SaysKill, IsKill
<1>4. CASE words[1] # <<>>
  <2>1. WordOf(line, 1) = {words[1]}
    BY <1>2, <1>4
  <2>2. QED
    BY <2>1, Zenon DEF SaysKill, IsKill
<1>5. QED
  BY <1>3, <1>4

\* And what the second word means is what stoi makes of it.
LEMMA TaskIsSaid ==
  ASSUME ShellInv, pc = "command"
  PROVE  TakenFor(words[2], Named(line))
<1>1. 2 \in 1 .. 2
  OBVIOUS
<1>2. WordOf(line, 2) = IF words[2] = <<>> THEN {} ELSE {words[2]}
  BY <1>1 DEF ShellInv, WordsOK
<1>3. CASE words[2] = <<>>
  <2>1. WordOf(line, 2) = {}
    BY <1>2, <1>3
  <2>2. QED
    BY <1>3, <2>1, Zenon DEF IsNumber, Named, TakenFor
<1>4. CASE words[2] # <<>>
  <2>1. WordOf(line, 2) = {words[2]}
    BY <1>2, <1>4
  <2>2. words[2] \in Seq(STRING)
    <3>1. words[2] \in WordOf(line, 2)
      BY <2>1
    <3>2. PICK p \in Parts(line) : words[2] = SubSeq(line, p[1], p[2])
      BY <3>1 DEF WordOf
    <3>3. line \in Seq(STRING) /\ p[1] \in 1 .. Len(line) /\ p[2] \in 1 .. Len(line)
      BY DEF Parts, ShellInv, TypesOK
    <3>4. QED
      BY <3>2, <3>3
  <2>3. Named(line) = Meaning(words[2])
    BY <2>1, Zenon DEF Named
  <2>4. QED
    BY <1>4, <2>2, <2>3, MeaningIs
<1>5. QED
  BY <1>3, <1>4

\* The step of a command.
LEMMA CommandStep ==
  ASSUME ShellInv, [Next]_vars, pc = "command", pc' = "read",
         NEW t \in tasks \ {First, Work}
  PROVE  t \notin tasks' <=> SaysKill(line) /\ \E n \in Named(line) : n % 2 ^ Width = t
<1>1. SaysKill(line) /\ (\E n \in Named(line) : n % 2 ^ Width = t)
        <=> IsKill /\ IsNumber(words[2]) /\ Stoi(words[2]) = t
  BY KillIsSaid, TaskIsSaid, Zenon DEF TakenFor
<1>2. IsStart => ~IsKill
  BY CommandWords DEF IsStart, IsKill
<1>3. CASE StartKtask
  <2>1. IsStart /\ t \in tasks'
    BY <1>3 DEF StartKtask
  <2>2. QED
    BY <1>1, <1>2, <2>1, Zenon
<1>4. CASE KillTask
  <2>1. IsKill /\ IsNumber(words[2]) /\ tasks' = tasks \ {Stoi(words[2])}
    BY <1>4, Zenon DEF KillTask
  <2>2. QED
    BY <1>1, <2>1, Zenon
<1>5. CASE Other
  <2>1. tasks' = tasks
    BY <1>5 DEF Other
  <2>2. IsKill /\ IsNumber(words[2]) => Refused(Stoi(words[2]))
    BY <1>2, <1>5, Zenon DEF Other
  <2>3. ~Refused(t)
    BY Zenon DEF Refused
  <2>4. QED
    BY <1>1, <2>1, <2>2, <2>3, Zenon
<1>6. ~(\E l \in Lines : Read(l))
  BY DEF Read
<1>7. ~(\E u \in tasks : TaskEnds(u)) /\ ~(UNCHANGED vars)
  BY DEF TaskEnds, vars
<1>8. QED
  BY <1>3, <1>4, <1>5, <1>6, <1>7 DEF Next

\* KillsTheNamed: as long as the number of a line fits an int, a command removes the
\* task that the line names and no other, for lines of any length, ints of any size
\* and numbers in any base.
THEOREM KillAsNamed == Spec => KillsTheNamed
<1>1. ASSUME ShellInv, [Next]_vars
      PROVE  [pc = "command" /\ pc' = "read" /\ FitsInt(line) =>
                \A t \in tasks \ {First, Work} :
                  t \notin tasks' <=> SaysKill(line) /\ t \in Named(line)]_vars
  <2> SUFFICES ASSUME pc = "command", pc' = "read", FitsInt(line),
                      NEW t \in tasks \ {First, Work}
               PROVE  t \notin tasks' <=> SaysKill(line) /\ t \in Named(line)
    OBVIOUS
  <2>1. t \notin tasks' <=> SaysKill(line) /\ \E n \in Named(line) : n % 2 ^ Width = t
    BY <1>1, CommandStep
  <2>2. Named(line) \subseteq Nat
    BY <1>1, TaskIsSaid DEF TakenFor
  <2>3. \A n \in Named(line) : n % 2 ^ Width = n
    BY <2>2, IntHolds DEF FitsInt
  <2>4. QED
    BY <2>1, <2>3, Zenon
<1>2. QED
  BY <1>1, AlwaysShell, PTL DEF Spec, KillsTheNamed

\* KillsTheListed: the id as the list of tasks shows it ends that task.
THEOREM KillAsListed == Spec => KillsTheListed
<1>1. ASSUME ShellInv, [Next]_vars
      PROVE  [pc = "command" /\ pc' = "read" =>
                \A t \in tasks \ {First, Work} :
                  t < 2 ^ (Width - 1) /\ SaysKill(line) /\ ItosUd(t) \in WordOf(line, 2)
                    => t \notin tasks']_vars
  <2> SUFFICES ASSUME pc = "command", pc' = "read", NEW t \in tasks \ {First, Work},
                      t < 2 ^ (Width - 1), SaysKill(line), ItosUd(t) \in WordOf(line, 2)
               PROVE  t \notin tasks'
    OBVIOUS
  <2>1. t \in Nat
    BY <1>1 DEF ShellInv, TypesOK
  <2>2. Meaning(ItosUd(t)) = {t} /\ t % 2 ^ Width = t
    BY <2>1, ListedMeans, IntHolds
  <2>3. t \in Named(line)
    BY <2>2, Zenon DEF Named
  <2>4. t \notin tasks' <=> SaysKill(line) /\ \E n \in Named(line) : n % 2 ^ Width = t
    BY <1>1, CommandStep
  <2>5. QED
    BY <2>2, <2>3, <2>4, Zenon
<1>2. QED
  BY <1>1, AlwaysShell, PTL DEF Spec, KillsTheListed
=============================================================================
