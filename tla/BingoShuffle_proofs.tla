------------------------- MODULE BingoShuffle_proofs -------------------------
(***************************************************************************)
(* Theorems about BingoShuffle, for a board of any size with the free      *)
(* space in any cell of it.                                                *)
(***************************************************************************)
EXTENDS BingoShuffle, FiniteSetTheorems, TLAPS

\* Swapping two cells of a layout gives a layout.
LEMMA SwapOfLayout ==
    ASSUME NEW p \in Layouts, NEW a \in Cells, NEW b \in Cells
    PROVE  Swap(p, a, b) \in Layouts
<1> DEFINE q == Swap(p, a, b)
<1>1. /\ p \in [Cells -> Cells]
      /\ \A c, d \in Cells : p[c] = p[d] => c = d
      /\ \A d \in Cells : \E c \in Cells : p[c] = d
  BY DEF Layouts
<1>2. /\ q \in [Cells -> Cells]
      /\ \A c \in Cells : q[c] = IF c = b THEN p[a] ELSE IF c = a THEN p[b] ELSE p[c]
  BY <1>1 DEF Swap
<1>3. \A c, d \in Cells : q[c] = q[d] => c = d
  BY <1>1, <1>2
<1>4. ASSUME NEW d \in Cells
      PROVE  \E c \in Cells : q[c] = d
  <2>1. PICK c \in Cells : p[c] = d
    BY <1>1
  <2>2. CASE c = a
    BY <1>2, <2>1, <2>2
  <2>3. CASE c = b /\ c # a
    BY <1>2, <2>1, <2>3
  <2>4. CASE c # a /\ c # b
    BY <1>2, <2>1, <2>4
  <2> QED
    BY <2>2, <2>3, <2>4
<1> QED
  BY <1>2, <1>3, <1>4 DEF Layouts

\* So swapping two cells of a rearrangement gives a rearrangement.
LEMMA SwapRearranges ==
    ASSUME TypeOK, IsRearrangement, NEW a \in Cells, NEW b \in Cells,
           out' = Swap(out, a, b), source' = source
    PROVE  IsRearrangement'
<1>1. PICK p \in Layouts : out = [c \in Cells |-> source[p[c]]]
  BY DEF IsRearrangement
<1>2. Swap(p, a, b) \in Layouts
  BY SwapOfLayout
<1>3. p \in [Cells -> Cells]
  BY DEF Layouts
<1>4. out' = [c \in Cells |-> source[Swap(p, a, b)[c]]]
  BY <1>1, <1>3 DEF Swap
<1> QED
  BY <1>2, <1>4 DEF IsRearrangement

\* Swapping two cells of a board keeps its type.
LEMMA SwapTyped ==
    ASSUME TypeOK, NEW a \in Cells, NEW b \in Cells
    PROVE  Swap(out, a, b) \in [Cells -> Texts]
BY DEF TypeOK, Swap

\* The entries as stored are a rearrangement of themselves.
LEMMA SourceIsLayout ==
    ASSUME source' \in [Cells -> Texts], out' = source'
    PROVE  IsRearrangement'
<1> DEFINE p == [c \in Cells |-> c]
<1>1. p \in Layouts
  BY DEF Layouts
<1>2. out' = [c \in Cells |-> source'[p[c]]]
  OBVIOUS
<1> QED
  BY <1>1, <1>2 DEF IsRearrangement

\* The stored entries, before the first draw, satisfy the invariant.
LEMMA InitBoardInv == Init => BoardInv
<1> SUFFICES ASSUME Init PROVE BoardInv
  OBVIOUS
<1>1. PICK entries \in [Cells -> Texts] :
        source = Normalized(entries) /\ hasFreeSpace = \E c \in Cells : entries[c] \in Spellings
  BY DEF Init
<1>2. TypeOK
  <2>1. source \in [Cells -> Texts]
    BY <1>1, ShuffleAssumption DEF Normalized
  <2>2. i \in Cells /\ 0 \in Cells
    BY ShuffleAssumption DEF Init, Cells
  <2>3. hasFreeSpace \in BOOLEAN
    BY <1>1
  <2> QED
    BY <2>1, <2>2, <2>3 DEF Init, TypeOK
<1>3. IsRearrangement
  <2> DEFINE p == [c \in Cells |-> c]
  <2>1. p \in Layouts
    BY DEF Layouts
  <2>2. out = [c \in Cells |-> source[p[c]]]
    BY <1>2 DEF Init, TypeOK
  <2> QED
    BY <2>1, <2>2 DEF IsRearrangement
<1>4. FlagIsTrue
  BY <1>1, ShuffleAssumption DEF Normalized, FlagIsTrue
<1>5. FreeSpaceCentred
  BY DEF Init, FreeSpaceCentred
<1> QED
  BY <1>2, <1>3, <1>4, <1>5 DEF BoardInv

\* Every iteration of the shuffle and the move to the centre keep it.
LEMMA NextBoardInv == BoardInv /\ [Next]_vars => BoardInv'
<1> SUFFICES ASSUME BoardInv, [Next]_vars PROVE BoardInv'
  OBVIOUS
<1> USE DEF BoardInv
<1>1. CASE Draw
  <2>1. PICK j \in Choices(i) : out' = Swap(out, i, j) /\ drawn' = [drawn EXCEPT ![i] = j]
    BY <1>1 DEF Draw
  <2>2. i \in Cells /\ j \in Cells /\ i' \in Cells
    BY <1>1, <2>1, ShuffleAssumption DEF Draw, TypeOK, Cells, Choices
  <2>3. TypeOK'
    BY <1>1, <2>1, <2>2, SwapTyped DEF Draw, TypeOK
  <2>4. IsRearrangement'
    BY <1>1, <2>1, <2>2, SwapRearranges DEF Draw
  <2> QED
    BY <1>1, <2>3, <2>4 DEF Draw, FlagIsTrue, FreeSpaceCentred
<1>2. CASE DrawFails \/ Shuffled \/ UNCHANGED vars
  <2>1. UNCHANGED <<source, hasFreeSpace, out, i, drawn, marks>>
    BY <1>2 DEF DrawFails, Shuffled, vars
  <2>2. pc' \in {"shuffle", "centre", "minted", "failed"} /\ (pc' = "minted" => pc = "minted")
    BY <1>2 DEF DrawFails, Shuffled, vars, TypeOK
  <2>3. TypeOK'
    BY <2>1, <2>2 DEF TypeOK
  <2> QED
    BY <2>1, <2>2, <2>3 DEF IsRearrangement, FlagIsTrue, FreeSpaceCentred
<1>3. CASE Centre
  <2>1. CASE ~hasFreeSpace
    <3>1. TypeOK' /\ FreeSpaceCentred'
      BY <1>3, <2>1 DEF Centre, TypeOK, FreeSpaceCentred
    <3> QED
      BY <1>3, <2>1, <3>1 DEF Centre, IsRearrangement, FlagIsTrue
  <2>2. CASE hasFreeSpace
    <3>1. \E c \in Cells : out[c] = Sentinel
      <4>1. PICK p \in Layouts : out = [c \in Cells |-> source[p[c]]]
        BY DEF IsRearrangement
      <4>2. PICK d \in Cells : source[d] = Sentinel
        BY <2>2 DEF FlagIsTrue
      <4>3. PICK c \in Cells : p[c] = d
        BY DEF Layouts
      <4> QED
        BY <4>1, <4>2, <4>3
    <3>2. PICK c \in Cells : IsFirstFree(c) /\ out' = IF c # FreeSpace THEN Centred(c) ELSE out
      BY <1>3, <2>2, <3>1 DEF Centre
    <3>3. FreeSpace \in Cells /\ out \in [Cells -> Texts]
      BY ShuffleAssumption DEF TypeOK
    <3>4. out' \in [Cells -> Texts] /\ out'[FreeSpace] = Sentinel
      <4>1. CASE c = FreeSpace
        BY <3>2, <3>3, <4>1 DEF IsFirstFree
      <4>2. CASE c # FreeSpace
        BY <3>2, <3>3, <4>2, SwapTyped DEF IsFirstFree, Centred, Swap
      <4> QED
        BY <4>1, <4>2
    <3>5. TypeOK' /\ FreeSpaceCentred'
      BY <1>3, <2>2, <3>3, <3>4 DEF Centre, TypeOK, FreeSpaceCentred
    <3>6. IsRearrangement'
      <4>1. CASE c = FreeSpace
        BY <1>3, <3>2, <4>1 DEF Centre, IsRearrangement
      <4>2. CASE c # FreeSpace
        BY <1>3, <3>2, <3>3, <4>2, SwapRearranges DEF Centre, Centred
      <4> QED
        BY <4>1, <4>2
    <3> QED
      BY <1>3, <3>5, <3>6 DEF Centre, FlagIsTrue
  <2> QED
    BY <2>1, <2>2
<1>4. CASE MintUserBoard
  <2>1. i' \in Cells /\ 0 \in Cells
    BY <1>4, ShuffleAssumption DEF MintUserBoard, Cells
  <2>2. TypeOK' /\ FreeSpaceCentred'
    BY <1>4, <2>1 DEF MintUserBoard, TypeOK, FreeSpaceCentred
  <2>3. IsRearrangement'
    BY <1>4, <2>2, SourceIsLayout DEF MintUserBoard, TypeOK
  <2> QED
    BY <1>4, <2>2, <2>3 DEF MintUserBoard, FlagIsTrue
<1> QED
  BY <1>1, <1>2, <1>3, <1>4 DEF Next

\* The invariant, and with it type correctness, holds of every execution.
LEMMA BoardInductive == Spec => []BoardInv
BY InitBoardInv, NextBoardInv, PTL DEF Spec

\* No shuffle and no move to the centre ever loses or doubles an entry.
THEOREM BoardsAreRearranged == Spec => []IsRearrangement
<1>1. BoardInv => IsRearrangement
  BY DEF BoardInv
<1> QED
  BY <1>1, BoardInductive, PTL

\* Every minted board has its free space at the centre, and only that marked.
THEOREM FreeSpaceIsCentred == Spec => []FreeSpaceCentred
<1>1. BoardInv => FreeSpaceCentred
  BY DEF BoardInv
<1> QED
  BY <1>1, BoardInductive, PTL

-----------------------------------------------------------------------------
(* Induction.  The provers cannot take an induction principle for a          *)
(* predicate, so it is derived for a set, from the pigeonhole principle: a   *)
(* set closed under a step downwards that misses a number would be mapped by *)
(* that step one to one into itself without its highest element.             *)

\* What holds of Size, and of k - 1 whenever of k, holds of every number from
\* 1 to Size.
LEMMA Downwards ==
    ASSUME NEW S, Size \in S, \A k \in 2..Size : k \in S => k - 1 \in S
    PROVE  1..Size \subseteq S
<1> SUFFICES ASSUME NEW m \in 1..Size, m \notin S PROVE FALSE
  OBVIOUS
<1> DEFINE T == {k \in 1..Size : k \in S /\ k > m}
           U == T \ {Size}
           step == [k \in T |-> k - 1]
<1>1. Size \in Nat \ {0}
  BY ShuffleAssumption
<1>2. Size \in T
  BY <1>1
<1>3. IsFiniteSet(T)
  <2>1. IsFiniteSet(1..Size)
    BY <1>1, FS_Interval
  <2> QED
    BY <2>1, FS_Subset
<1>4. IsFiniteSet(U) /\ Cardinality(U) = Cardinality(T) - 1
  BY <1>2, <1>3, FS_RemoveElement
<1>5. Cardinality(T) \in Nat
  BY <1>3, FS_CardinalityType
<1>6. step \in [T -> U]
  <2> SUFFICES ASSUME NEW k \in T PROVE k - 1 \in U
    OBVIOUS
  <2>1. k \in 2..Size /\ k - 1 \in S
    BY <1>1
  <2>2. k - 1 # m
    BY <2>1
  <2> QED
    BY <1>1, <2>1, <2>2
<1>7. \A x, y \in T : x # y => step[x] # step[y]
  BY <1>1
<1> HIDE DEF T, U, step
<1>8. Cardinality(U) < Cardinality(T)
  BY <1>4, <1>5
<1>9. \E x, y \in T : x # y /\ step[x] = step[y]
  BY <1>3, <1>4, <1>6, <1>8, FS_PigeonHole
<1> QED
  BY <1>7, <1>9

\* After satisfies the equation it is defined by.
LEMMA AfterUnfolds ==
    ASSUME NEW d
    PROVE  After(d) = [k \in 1..Size |->
                          IF k = Size THEN [c \in Cells |-> c]
                                      ELSE Swap(After(d)[k + 1], k, d[k])]
<1> DEFINE Body(g, k) == IF k = Size THEN [c \in Cells |-> c] ELSE Swap(g[k + 1], k, d[k])
           S == {m \in 1..Size : \E g : \A k \in m..Size : g[k] = Body(g, k)}
<1>1. Size \in Nat \ {0}
  BY ShuffleAssumption
<1>2. Size \in S
  <2> DEFINE g == [k \in {Size} |-> [c \in Cells |-> c]]
  <2>1. \A k \in Size..Size : k = Size
    BY <1>1
  <2>2. g[Size] = Body(g, Size)
    OBVIOUS
  <2> HIDE DEF g, Body
  <2>3. \A k \in Size..Size : g[k] = Body(g, k)
    BY <2>1, <2>2
  <2> QED
    BY <1>1, <2>3
<1>3. ASSUME NEW m \in 2..Size, m \in S
      PROVE  m - 1 \in S
  <2>1. PICK g : \A k \in m..Size : g[k] = Body(g, k)
    BY <1>3
  <2> DEFINE h == [k \in 1..Size |-> IF k = m - 1 THEN Body(g, k) ELSE g[k]]
  <2>2. ASSUME NEW k \in (m - 1)..Size
        PROVE  h[k] = Body(h, k)
    <3>1. k \in 1..Size
      BY <1>1
    <3>2. k # Size => k + 1 \in 1..Size /\ k + 1 # m - 1 /\ h[k + 1] = g[k + 1]
      BY <1>1
    <3>3. Body(h, k) = Body(g, k)
      BY <3>2
    <3>4. h[k] = Body(g, k)
      BY <1>1, <2>1, <3>1
    <3> QED
      BY <3>3, <3>4
  <2> HIDE DEF h, Body
  <2> QED
    BY <1>1, <2>2
<1>4. 1 \in S
  <2> HIDE DEF S
  <2> QED
    BY <1>1, <1>2, <1>3, Downwards
<1>5. PICK g : \A k \in 1..Size : g[k] = Body(g, k)
  BY <1>4
<1> DEFINE h == [k \in 1..Size |-> g[k]]
<1>6. ASSUME NEW k \in 1..Size
      PROVE  h[k] = Body(h, k)
  <2>1. k # Size => k + 1 \in 1..Size
    BY <1>1
  <2> QED
    BY <1>5, <2>1
<1>7. \E f : f = [k \in 1..Size |-> Body(f, k)]
  <2> HIDE DEF Body
  <2>1. h = [k \in 1..Size |-> Body(h, k)]
    BY <1>6
  <2> QED
    BY <2>1
<1> QED
  BY <1>7 DEF After

\* One draw is one swap of what the draws before it led to.
LEMMA AfterStep ==
    ASSUME NEW d
    PROVE  /\ After(d)[Size] = [c \in Cells |-> c]
           /\ \A k \in 1..(Size - 1) : After(d)[k] = Swap(After(d)[k + 1], k, d[k])
<1>1. Size \in 1..Size /\ \A k \in 1..(Size - 1) : k \in 1..Size /\ k # Size
  BY ShuffleAssumption
<1> HIDE DEF After, Swap
<1> QED
  BY <1>1, AfterUnfolds

\* What a swap does, cell by cell.
LEMMA SwapCells ==
    ASSUME NEW f \in [Cells -> Cells], NEW a \in Cells, NEW b \in Cells
    PROVE  /\ Swap(f, a, b)[a] = f[b] /\ Swap(f, a, b)[b] = f[a]
           /\ \A c \in Cells \ {a, b} : Swap(f, a, b)[c] = f[c]
BY DEF Swap

\* Every layout on the way is one.
LEMMA AfterIsLayout ==
    ASSUME NEW d \in [Cells -> Cells]
    PROVE  \A k \in 1..Size : After(d)[k] \in Layouts
<1> DEFINE S == {k \in 1..Size : After(d)[k] \in Layouts}
<1>1. Size \in Nat \ {0}
  BY ShuffleAssumption
<1>2. Size \in S
  <2>1. [c \in Cells |-> c] \in Layouts
    BY DEF Layouts
  <2> QED
    BY <1>1, <2>1, AfterStep
<1>3. ASSUME NEW k \in 2..Size, k \in S
      PROVE  k - 1 \in S
  <2>1. k - 1 \in 1..(Size - 1) /\ k - 1 \in 1..Size /\ (k - 1) + 1 = k
    BY <1>1
  <2>2. k - 1 \in Cells /\ d[k - 1] \in Cells
    BY <2>1 DEF Cells
  <2>3. After(d)[k - 1] = Swap(After(d)[k], k - 1, d[k - 1])
    BY <2>1, AfterStep
  <2> QED
    BY <1>3, <2>1, <2>2, <2>3, SwapOfLayout
<1> HIDE DEF S
<1>4. 1..Size \subseteq S
  BY <1>2, <1>3, Downwards
<1> QED
  BY <1>4 DEF S

\* Only the draws that have been made count.
LEMMA AfterLooksAhead ==
    ASSUME NEW d, NEW e, NEW m \in 1..Size, \A k \in m..(Size - 1) : d[k] = e[k]
    PROVE  After(d)[m] = After(e)[m]
<1> DEFINE S == {k \in 1..Size : k >= m => After(d)[k] = After(e)[k]}
<1>1. Size \in Nat \ {0}
  BY ShuffleAssumption
<1>2. Size \in S
  <2>1. After(d)[Size] = After(e)[Size]
    BY AfterStep
  <2> QED
    BY <1>1, <2>1
<1>3. ASSUME NEW k \in 2..Size, k \in S
      PROVE  k - 1 \in S
  <2>1. k - 1 \in 1..(Size - 1) /\ k - 1 \in 1..Size /\ (k - 1) + 1 = k
    BY <1>1
  <2>2. After(d)[k - 1] = Swap(After(d)[k], k - 1, d[k - 1])
    BY <2>1, AfterStep
  <2>3. After(e)[k - 1] = Swap(After(e)[k], k - 1, e[k - 1])
    BY <2>1, AfterStep
  <2>4. ASSUME k - 1 >= m
        PROVE  After(d)[k - 1] = After(e)[k - 1]
    <3>1. k >= m /\ k - 1 \in m..(Size - 1)
      BY <2>1, <2>4
    <3>2. After(d)[k] = After(e)[k] /\ d[k - 1] = e[k - 1]
      BY <1>3, <3>1
    <3> QED
      BY <2>2, <2>3, <3>2
  <2> QED
    BY <2>1, <2>4
<1> HIDE DEF S
<1>4. 1..Size \subseteq S
  BY <1>2, <1>3, Downwards
<1>5. m \in S /\ m >= m
  BY <1>4
<1> QED
  BY <1>5 DEF S

\* A cell that has been drawn for is not moved again.
LEMMA StaysPut ==
    ASSUME NEW d \in Draws, NEW m \in 1..Size, NEW c \in Cells, c >= m
    PROVE  After(d)[1][c] = After(d)[m][c]
<1> DEFINE S == {k \in 1..Size : k <= m => After(d)[k][c] = After(d)[m][c]}
<1>1. Size \in Nat \ {0} /\ d \in [Cells -> Cells]
  BY ShuffleAssumption DEF Draws
<1>2. Size \in S
  <2>1. Size <= m => Size = m
    BY <1>1
  <2> QED
    BY <1>1, <2>1
<1>3. ASSUME NEW k \in 2..Size, k \in S
      PROVE  k - 1 \in S
  <2>1. k - 1 \in 1..(Size - 1) /\ k - 1 \in 1..Size /\ (k - 1) + 1 = k
    BY <1>1
  <2>2. k - 1 \in Cells /\ d[k - 1] \in Cells /\ d[k - 1] <= k - 1
    BY <2>1 DEF Cells, Draws, Choices
  <2>3. After(d)[k - 1] = Swap(After(d)[k], k - 1, d[k - 1])
    BY <2>1, AfterStep
  <2>4. After(d)[k] \in [Cells -> Cells]
    BY <1>1, AfterIsLayout DEF Layouts
  <2>5. ASSUME k - 1 <= m
        PROVE  After(d)[k - 1][c] = After(d)[m][c]
    <3>1. CASE k - 1 = m
      BY <3>1
    <3>2. CASE k - 1 # m
      <4>1. k <= m /\ c \in Cells \ {k - 1, d[k - 1]}
        BY <2>1, <2>2, <2>5, <3>2 DEF Cells
      <4>2. After(d)[k - 1][c] = After(d)[k][c]
        BY <2>2, <2>3, <2>4, <4>1, SwapCells
      <4> QED
        BY <1>3, <4>1, <4>2
    <3> QED
      BY <3>1, <3>2
  <2> QED
    BY <2>1, <2>5
<1> HIDE DEF S
<1>4. 1..Size \subseteq S
  BY <1>2, <1>3, Downwards
<1>5. 1 \in S /\ 1 <= m
  BY <1>1, <1>4
<1> QED
  BY <1>5 DEF S

\* What a draw puts into its cell stays there.
LEMMA DrawnCell ==
    ASSUME NEW d \in Draws, NEW m \in 1..(Size - 1)
    PROVE  LayoutFor(d)[m] = After(d)[m + 1][d[m]]
<1>1. /\ m \in 1..Size /\ m + 1 \in 1..Size /\ m \in Cells /\ m >= m
      /\ d \in [Cells -> Cells] /\ d[m] \in Cells
  BY ShuffleAssumption DEF Cells, Draws
<1>2. After(d)[m + 1] \in [Cells -> Cells]
  BY <1>1, AfterIsLayout DEF Layouts
<1>3. After(d)[m] = Swap(After(d)[m + 1], m, d[m])
  BY AfterStep
<1>4. Swap(After(d)[m + 1], m, d[m])[m] = After(d)[m + 1][d[m]]
  <2> HIDE DEF After
  <2> QED
    BY <1>1, <1>2, SwapCells
<1> QED
  BY <1>1, <1>3, <1>4, StaysPut DEF LayoutFor

\* Two runs of draws that lead to the same layout are the same: from the last
\* cell down, the layout tells what was drawn.
LEMMA DrawsDetermined ==
    ASSUME NEW d \in Draws, NEW e \in Draws, LayoutFor(d) = LayoutFor(e)
    PROVE  d = e
<1> DEFINE S == {m \in 1..Size : \A k \in m..(Size - 1) : d[k] = e[k]}
<1>1. /\ Size \in Nat \ {0} /\ d \in [Cells -> Cells] /\ e \in [Cells -> Cells]
      /\ d[0] = 0 /\ e[0] = 0
  BY ShuffleAssumption DEF Draws
<1>2. Size \in S
  BY <1>1
<1>3. ASSUME NEW m \in 2..Size, m \in S
      PROVE  m - 1 \in S
  <2> DEFINE n == m - 1
  <2>1. n \in 1..(Size - 1) /\ n \in 1..Size /\ n + 1 = m /\ n \in Cells
    BY <1>1 DEF Cells
  <2> HIDE DEF n
  <2>2. LayoutFor(d)[n] = After(d)[m][d[n]] /\ LayoutFor(e)[n] = After(e)[m][e[n]]
    BY <2>1, DrawnCell
  <2>3. After(d)[m] = After(e)[m]
    BY <1>3, AfterLooksAhead
  <2>4. After(d)[m] \in Layouts
    BY <1>1, AfterIsLayout
  <2>5. d[n] \in Cells /\ e[n] \in Cells /\ After(d)[m][d[n]] = After(d)[m][e[n]]
    BY <1>1, <2>1, <2>2, <2>3
  <2>6. d[n] = e[n]
    BY <2>4, <2>5 DEF Layouts
  <2>7. ASSUME NEW k \in n..(Size - 1)
        PROVE  d[k] = e[k]
    <3>1. k = n \/ k \in m..(Size - 1)
      BY <2>1
    <3> QED
      BY <1>3, <2>6, <3>1
  <2> QED
    BY <2>1, <2>7 DEF n
<1> HIDE DEF S
<1>4. 1 \in S
  BY <1>1, <1>2, <1>3, Downwards
<1>5. ASSUME NEW k \in Cells
      PROVE  d[k] = e[k]
  <2>1. k = 0 \/ k \in 1..(Size - 1)
    BY <1>1 DEF Cells
  <2> QED
    BY <1>1, <1>4, <2>1 DEF S
<1> QED
  BY <1>1, <1>5

\* Every layout is what some run of draws leads to: it is drawn cell by cell
\* from the last one down.
LEMMA LayoutReached ==
    ASSUME NEW p \in Layouts
    PROVE  \E d \in Draws : LayoutFor(d) = p
<1> DEFINE Agrees(d, m) == \A c \in Cells : c >= m => After(d)[m][c] = p[c]
           S == {m \in 1..Size : \E d \in Draws : Agrees(d, m)}
<1>1. Size \in Nat \ {0}
  BY ShuffleAssumption
<1>2. /\ p \in [Cells -> Cells]
      /\ \A a, b \in Cells : p[a] = p[b] => a = b
      /\ \A b \in Cells : \E a \in Cells : p[a] = b
  BY DEF Layouts
<1>3. Size \in S
  <2> DEFINE d == [c \in Cells |-> 0]
  <2>1. d \in Draws
    BY <1>1 DEF Draws, Choices, Cells
  <2>2. \A c \in Cells : ~(c >= Size)
    BY <1>1 DEF Cells
  <2> QED
    BY <1>1, <2>1, <2>2
<1>4. ASSUME NEW m \in 2..Size, m \in S
      PROVE  m - 1 \in S
  <2>1. PICK d \in Draws : Agrees(d, m)
    BY <1>4
  <2> DEFINE n == m - 1
             q == After(d)[m]
  <2>2. n \in 1..(Size - 1) /\ n \in 1..Size /\ n + 1 = m /\ n \in Cells /\ n # 0
    BY <1>1 DEF Cells
  <2>3. d \in [Cells -> Cells] /\ d[0] = 0 /\ \A k \in Cells \ {0} : d[k] \in Choices(k)
    BY DEF Draws
  <2>4. /\ q \in [Cells -> Cells]
        /\ \A a, b \in Cells : q[a] = q[b] => a = b
        /\ \A b \in Cells : \E a \in Cells : q[a] = b
    <3>1. After(d)[m] \in Layouts
      BY <2>3, AfterIsLayout
    <3> QED
      BY <3>1 DEF Layouts
  <2>5. PICK j \in Cells : q[j] = p[n]
    BY <1>2, <2>2, <2>4
  <2>6. j <= n
    <3> SUFFICES ASSUME j >= m PROVE FALSE
      BY <2>2 DEF Cells
    <3>1. q[j] = p[j]
      BY <2>1
    <3>2. j = n
      BY <1>2, <2>2, <2>5, <3>1
    <3> QED
      BY <2>2, <3>2
  <2> DEFINE e == [d EXCEPT ![n] = j]
  <2>7. e \in Draws
    <3>1. e \in [Cells -> Cells] /\ e[0] = 0 /\ e[n] = j
      BY <2>2, <2>3
    <3>2. \A k \in Cells \ {0, n} : e[k] = d[k]
      BY <2>3
    <3>3. j \in Choices(n)
      BY <2>2, <2>6 DEF Choices, Cells
    <3> HIDE DEF e, n
    <3>4. \A k \in Cells \ {0} : e[k] \in Choices(k)
      BY <2>3, <3>1, <3>2, <3>3
    <3> QED
      BY <3>1, <3>4 DEF Draws
  <2>8. After(e)[m] = q
    <3>1. \A k \in m..(Size - 1) : e[k] = d[k]
      BY <1>1, <2>2, <2>3 DEF Cells
    <3> HIDE DEF e
    <3> QED
      BY <3>1, AfterLooksAhead
  <2>9. After(e)[n] = Swap(q, n, j)
    <3>1. e[n] = j
      BY <2>2, <2>3
    <3>2. After(e)[n] = Swap(After(e)[n + 1], n, e[n])
      BY <2>2, AfterStep
    <3> QED
      BY <2>2, <2>8, <3>1, <3>2
  <2> HIDE DEF e, n, q
  <2>10. ASSUME NEW c \in Cells, c >= n
         PROVE  After(e)[n][c] = p[c]
    <3>1. CASE c = n
      BY <2>2, <2>4, <2>5, <2>9, <3>1, SwapCells
    <3>2. CASE c # n
      <4>1. c >= m /\ c \in Cells \ {n, j}
        BY <2>2, <2>6, <2>10, <3>2 DEF Cells
      <4>2. q[c] = p[c]
        BY <2>1, <4>1 DEF q
      <4>3. Swap(q, n, j)[c] = q[c]
        <5>1. q \in [Cells -> Cells] /\ n \in Cells
          BY <2>2, <2>4
        <5>2. \A x \in Cells \ {n, j} : Swap(q, n, j)[x] = q[x]
          BY <5>1, SwapCells
        <5> QED
          BY <4>1, <5>2
      <4> QED
        BY <2>9, <4>2, <4>3
    <3> QED
      BY <3>1, <3>2
  <2> QED
    BY <2>2, <2>7, <2>10 DEF n
<1> HIDE DEF S
<1>5. 1 \in S
  BY <1>1, <1>3, <1>4, Downwards
<1>6. PICK d \in Draws : Agrees(d, 1)
  BY <1>5 DEF S
<1> DEFINE q == After(d)[1]
<1>7. /\ q \in [Cells -> Cells]
      /\ \A a, b \in Cells : q[a] = q[b] => a = b
  <2>1. d \in [Cells -> Cells] /\ 1 \in 1..Size
    BY <1>1 DEF Draws
  <2> QED
    BY <2>1, AfterIsLayout DEF Layouts
<1>8. \A c \in Cells : c # 0 => q[c] = p[c]
  BY <1>6 DEF Cells
<1>9. q[0] = p[0]
  <2>1. 0 \in Cells
    BY <1>1 DEF Cells
  <2> HIDE DEF q
  <2>2. PICK a \in Cells : p[a] = q[0]
    BY <1>2, <1>7, <2>1
  <2>3. a = 0
    BY <1>7, <1>8, <2>1, <2>2
  <2> QED
    BY <2>2, <2>3
<1>10. q = p
  <2> HIDE DEF q
  <2> QED
    BY <1>2, <1>7, <1>8, <1>9
<1> QED
  BY <1>6, <1>10 DEF LayoutFor

\* Exactly one run of draws leads to a layout.
LEMMA LayoutDrawnOnce ==
    ASSUME NEW p \in Layouts
    PROVE  Cardinality({d \in Draws : LayoutFor(d) = p}) = 1
<1>1. PICK d \in Draws : LayoutFor(d) = p
  BY LayoutReached
<1>2. {e \in Draws : LayoutFor(e) = p} = {d}
  BY <1>1, DrawsDetermined
<1> QED
  BY <1>2, FS_Singleton

-----------------------------------------------------------------------------
(* The board under way. *)

\* Before the first draw the board is as stored.
LEMMA Undrawn ==
    ASSUME NEW d, d = [c \in Cells |-> 0], NEW k, k = Size - 1, NEW f \in [Cells -> Texts]
    PROVE  d \in Draws /\ f = [c \in Cells |-> f[After(d)[k + 1][c]]]
<1>1. d \in Draws
  BY ShuffleAssumption DEF Draws, Choices, Cells
<1>2. k + 1 = Size
  BY ShuffleAssumption
<1>3. After(d)[k + 1] = [c \in Cells |-> c]
  BY <1>2, AfterStep
<1> QED
  BY <1>1, <1>3

\* A draw takes the board to the next layout of its run.
LEMMA DrawDrawnSoFar == BoardInv /\ DrawnSoFar /\ Draw => DrawnSoFar'
<1> SUFFICES ASSUME BoardInv, DrawnSoFar, Draw PROVE DrawnSoFar'
  OBVIOUS
<1>1. PICK j \in Choices(i) : out' = Swap(out, i, j) /\ drawn' = [drawn EXCEPT ![i] = j]
  BY DEF Draw
<1>2. /\ i \in 1..(Size - 1) /\ i \in 1..Size /\ i + 1 \in 1..Size /\ i \in Cells
      /\ i' = i - 1 /\ i' + 1 = i /\ j \in Cells /\ i # 0
  BY ShuffleAssumption DEF Draw, BoardInv, TypeOK, Cells, Choices
<1>3. drawn \in [Cells -> Cells] /\ drawn[0] = 0
      /\ \A k \in Cells \ {0} : drawn[k] \in Choices(k)
  BY DEF DrawnSoFar, Draws
<1>4. drawn' \in [Cells -> Cells] /\ drawn'[i] = j /\ \A k \in Cells \ {i} : drawn'[k] = drawn[k]
  BY <1>1, <1>2, <1>3
<1>5. drawn' \in Draws
  <2>1. \A k \in Cells \ {0} : drawn'[k] \in Choices(k)
    BY <1>1, <1>3, <1>4
  <2>2. 0 \in Cells \ {i}
    BY <1>2, ShuffleAssumption DEF Cells
  <2>3. drawn'[0] = 0
    BY <1>3, <1>4, <2>2
  <2> QED
    BY <1>4, <2>1, <2>3 DEF Draws
<1> DEFINE q == After(drawn)[i + 1]
<1>6. After(drawn')[i + 1] = q
  <2>1. \A k \in (i + 1)..(Size - 1) : drawn'[k] = drawn[k]
    BY <1>2, <1>4 DEF Cells
  <2> QED
    BY <1>2, <2>1, AfterLooksAhead
<1>7. After(drawn')[i] = Swap(q, i, j)
  <2>1. After(drawn')[i] = Swap(After(drawn')[i + 1], i, drawn'[i])
    BY <1>2, AfterStep
  <2> QED
    BY <1>4, <1>6, <2>1
<1>8. q \in [Cells -> Cells]
  <2>1. q \in Layouts
    BY <1>2, <1>3, AfterIsLayout
  <2> QED
    BY <2>1 DEF Layouts
<1>9. out = [c \in Cells |-> source[q[c]]]
  BY DEF Draw, DrawnSoFar
<1> HIDE DEF q
<1>10. out' = [c \in Cells |-> source[Swap(q, i, j)[c]]]
  BY <1>1, <1>2, <1>8, <1>9 DEF Swap
<1>11. out' = [c \in Cells |-> source'[After(drawn')[i' + 1][c]]]
  BY <1>2, <1>7, <1>10 DEF Draw
<1> QED
  BY <1>5, <1>11 DEF Draw, DrawnSoFar

\* Every step of Next keeps it.
LEMMA NextDrawnSoFar == BoardInv /\ DrawnSoFar /\ [Next]_vars => DrawnSoFar'
<1> SUFFICES ASSUME BoardInv, DrawnSoFar, [Next]_vars PROVE DrawnSoFar'
  OBVIOUS
<1>1. CASE Draw
  BY <1>1, DrawDrawnSoFar
<1>2. CASE DrawFails
  BY <1>2 DEF DrawFails, DrawnSoFar
<1>3. CASE Shuffled
  BY <1>3 DEF Shuffled, DrawnSoFar
<1>4. CASE Centre
  BY <1>4 DEF Centre, DrawnSoFar
<1>5. CASE MintUserBoard
  <2>1. /\ source' \in [Cells -> Texts] /\ out' = source'
        /\ i' = Size - 1 /\ drawn' = [c \in Cells |-> 0] /\ pc' = "shuffle"
    BY <1>5 DEF MintUserBoard, BoardInv, TypeOK
  <2>2. drawn' \in Draws /\ source' = [c \in Cells |-> source'[After(drawn')[i' + 1][c]]]
    BY <2>1, Undrawn
  <2> QED
    BY <2>1, <2>2 DEF DrawnSoFar
<1>6. CASE UNCHANGED vars
  BY <1>6 DEF vars, DrawnSoFar
<1> QED
  BY <1>1, <1>2, <1>3, <1>4, <1>5, <1>6 DEF Next

-----------------------------------------------------------------------------
(* The move to the centre. *)

\* An entry is in one cell of a layout.
LEMMA WhereIs ==
    ASSUME NEW p \in Layouts, NEW c \in Cells, NEW s, p[c] = s
    PROVE  MovedToCentre(p, s) = Swap(p, c, FreeSpace)
<1>1. \A x \in Cells : p[x] = s => x = c
  BY DEF Layouts
<1>2. (CHOOSE x \in Cells : p[x] = s) = c
  BY <1>1
<1> QED
  BY <1>2 DEF MovedToCentre

\* A swap undoes itself.
LEMMA SwapTwice ==
    ASSUME NEW p \in [Cells -> Cells], NEW a \in Cells, NEW b \in Cells
    PROVE  Swap(Swap(p, a, b), a, b) = p
BY DEF Swap

\* The board is centred by moving the free space of its layout.
LEMMA CentreFollowsDraws == BoardInv /\ DrawnSoFar /\ Centre => CentredFollowsDraws'
<1> SUFFICES ASSUME BoardInv, DrawnSoFar, Centre, NEW s \in Cells, OneFree(s)'
             PROVE  out' = [c \in Cells |-> source[MovedToCentre(LayoutFor(drawn), s)[c]]]
  BY DEF Centre, CentredFollowsDraws
<1> DEFINE q == LayoutFor(drawn)
<1>1. q \in Layouts
  <2>1. drawn \in [Cells -> Cells] /\ 1 \in 1..Size
    BY ShuffleAssumption DEF DrawnSoFar, Draws
  <2> QED
    BY <2>1, AfterIsLayout DEF LayoutFor
<1>2. out = [c \in Cells |-> source[q[c]]]
  <2>1. i = 0 /\ i + 1 = 1
    BY DEF DrawnSoFar, Centre
  <2> QED
    BY <2>1 DEF DrawnSoFar, Centre, LayoutFor
<1> HIDE DEF q
<1>3. q \in [Cells -> Cells] /\ \E c \in Cells : q[c] = s
  BY <1>1 DEF Layouts
<1>4. \A c \in Cells : source[c] = Sentinel <=> c = s
  BY DEF OneFree, Centre
<1>5. \A c \in Cells : out[c] = Sentinel <=> q[c] = s
  BY <1>2, <1>3, <1>4
<1>6. hasFreeSpace
  BY <1>4 DEF BoardInv, FlagIsTrue
<1>7. PICK c \in Cells : IsFirstFree(c) /\ out' = IF c # FreeSpace THEN Centred(c) ELSE out
  BY <1>3, <1>5, <1>6 DEF Centre
<1>8. q[c] = s /\ FreeSpace \in Cells
  BY <1>5, <1>7, ShuffleAssumption DEF IsFirstFree
<1>9. MovedToCentre(q, s) = Swap(q, c, FreeSpace)
  BY <1>1, <1>8, WhereIs
<1>10. out' = [x \in Cells |-> source[Swap(q, c, FreeSpace)[x]]]
  <2>1. CASE c = FreeSpace
    <3>1. Swap(q, c, FreeSpace) = q
      BY <1>3, <1>8, <2>1 DEF Swap
    <3> QED
      BY <1>2, <1>7, <2>1, <3>1
  <2>2. CASE c # FreeSpace
    BY <1>2, <1>3, <1>7, <1>8, <2>2 DEF Centred, Swap
  <2> QED
    BY <2>1, <2>2
<1> QED
  BY <1>9, <1>10 DEF q

\* The other steps leave a minted board alone or begin the next one.
LEMMA NextCentredFollowsDraws ==
    BoardInv /\ DrawnSoFar /\ CentredFollowsDraws /\ [Next]_vars => CentredFollowsDraws'
<1> SUFFICES ASSUME BoardInv, DrawnSoFar, CentredFollowsDraws, [Next]_vars
             PROVE  CentredFollowsDraws'
  OBVIOUS
<1>1. CASE Draw \/ DrawFails \/ Shuffled \/ MintUserBoard
  BY <1>1 DEF Draw, DrawFails, Shuffled, MintUserBoard, CentredFollowsDraws
<1>2. CASE Centre
  BY <1>2, CentreFollowsDraws
<1>3. CASE UNCHANGED vars
  BY <1>3 DEF vars, CentredFollowsDraws, OneFree
<1> QED
  BY <1>1, <1>2, <1>3 DEF Next

\* The layouts whose free space is moved to make p are one for each cell.
LEMMA CentredFrom ==
    ASSUME NEW p \in Layouts, NEW q \in Layouts, NEW c \in Cells, q[c] = p[FreeSpace],
           MovedToCentre(q, p[FreeSpace]) = p
    PROVE  q = Swap(p, c, FreeSpace)
<1>1. MovedToCentre(q, p[FreeSpace]) = Swap(q, c, FreeSpace)
  BY WhereIs
<1>2. q \in [Cells -> Cells] /\ FreeSpace \in Cells
  BY ShuffleAssumption DEF Layouts
<1> QED
  BY <1>1, <1>2, SwapTwice

\* And every centred layout is reached from each of its cells.
LEMMA CentredTo ==
    ASSUME NEW p \in Layouts, NEW c \in Cells
    PROVE  /\ Swap(p, c, FreeSpace) \in Layouts
           /\ Swap(p, c, FreeSpace)[c] = p[FreeSpace]
           /\ MovedToCentre(Swap(p, c, FreeSpace), p[FreeSpace]) = p
<1>1. p \in [Cells -> Cells] /\ FreeSpace \in Cells
  BY ShuffleAssumption DEF Layouts
<1>2. Swap(p, c, FreeSpace) \in Layouts
  BY <1>1, SwapOfLayout
<1>3. Swap(p, c, FreeSpace)[c] = p[FreeSpace]
  BY <1>1, SwapCells
<1>4. MovedToCentre(Swap(p, c, FreeSpace), p[FreeSpace])
        = Swap(Swap(p, c, FreeSpace), c, FreeSpace)
  BY <1>2, <1>3, WhereIs
<1> QED
  BY <1>1, <1>2, <1>3, <1>4, SwapTwice

\* So a layout with the entry s in its centre is reached once for every cell.
LEMMA CentredSizeTimes ==
    ASSUME NEW p \in Layouts, NEW s, p[FreeSpace] = s
    PROVE  Cardinality({d \in Draws : MovedToCentre(LayoutFor(d), s) = p}) = Size
<1> DEFINE D == {d \in Draws : MovedToCentre(LayoutFor(d), s) = p}
           from == [c \in Cells |-> CHOOSE d \in Draws : LayoutFor(d) = Swap(p, c, FreeSpace)]
<1>1. ASSUME NEW c \in Cells
      PROVE  from[c] \in Draws /\ LayoutFor(from[c]) = Swap(p, c, FreeSpace)
  <2>1. \E d \in Draws : LayoutFor(d) = Swap(p, c, FreeSpace)
    BY CentredTo, LayoutReached
  <2> QED
    BY <2>1
<1>2. from \in [Cells -> D]
  BY <1>1, CentredTo
<1>3. ASSUME NEW a \in Cells, NEW b \in Cells, from[a] = from[b]
      PROVE  a = b
  <2>1. Swap(p, a, FreeSpace) = Swap(p, b, FreeSpace)
    BY <1>1, <1>3
  <2>2. Swap(p, a, FreeSpace)[a] = Swap(p, a, FreeSpace)[b]
    BY <2>1, CentredTo
  <2>3. Swap(p, a, FreeSpace) \in Layouts
    BY CentredTo
  <2> QED
    BY <2>2, <2>3 DEF Layouts
<1>4. ASSUME NEW d \in D
      PROVE  \E c \in Cells : from[c] = d
  <2>1. d \in [Cells -> Cells] /\ 1 \in 1..Size
    BY ShuffleAssumption DEF Draws
  <2>2. LayoutFor(d) \in Layouts
    BY <2>1, AfterIsLayout DEF LayoutFor
  <2>3. FreeSpace \in Cells /\ s \in Cells
    BY ShuffleAssumption DEF Layouts
  <2>4. PICK c \in Cells : LayoutFor(d)[c] = s
    BY <2>2, <2>3 DEF Layouts
  <2>5. LayoutFor(d) = Swap(p, c, FreeSpace)
    BY <2>2, <2>4, CentredFrom
  <2> QED
    BY <1>1, <2>5, DrawsDetermined
<1> HIDE DEF D, from
<1>5. from \in Bijection(Cells, D)
  <2>1. DOMAIN from = Cells
    BY <1>2
  <2>2. from \in Injection(Cells, D)
    BY <1>2, <1>3, <2>1 DEF Injection, IsInjective
  <2>3. from \in Surjection(Cells, D)
    BY <1>2, <1>4 DEF Surjection
  <2> QED
    BY <2>2, <2>3 DEF Bijection
<1>6. ExistsBijection(Cells, D)
  BY <1>5 DEF ExistsBijection
<1>7. IsFiniteSet(Cells) /\ Cardinality(Cells) = Size
  BY ShuffleAssumption, FS_Interval DEF Cells
<1>8. Cardinality(D) = Cardinality(Cells)
  BY <1>6, <1>7, FS_Bijection
<1> QED
  BY <1>7, <1>8 DEF D

-----------------------------------------------------------------------------
(* The theorems. *)

\* The entries of a board are shuffled to the layout its draws lead to, whatever
\* its size, and kept together on the way.
THEOREM Inductive == Spec => []IInv
<1>1. Init => DrawnSoFar
  <2> SUFFICES ASSUME Init PROVE DrawnSoFar
    OBVIOUS
  <2>1. source \in [Cells -> Texts]
    BY InitBoardInv DEF BoardInv, TypeOK
  <2>2. drawn \in Draws /\ source = [c \in Cells |-> source[After(drawn)[i + 1][c]]]
    BY <2>1, Undrawn DEF Init
  <2> QED
    BY <2>2 DEF Init, DrawnSoFar
<1>2. Init => CentredFollowsDraws
  BY DEF Init, CentredFollowsDraws
<1>3. Init => IInv
  BY <1>1, <1>2, InitBoardInv DEF IInv
<1>4. IInv /\ [Next]_vars => IInv'
  BY NextBoardInv, NextDrawnSoFar, NextCentredFollowsDraws DEF IInv
<1> QED
  BY <1>3, <1>4, PTL DEF Spec

\* The shuffle reaches every layout by exactly one run of draws: it is as fair
\* as its random source.
THEOREM ShuffleIsFair == Spec => []EveryLayoutOnce
<1>1. DrawnSoFar => EveryLayoutOnce
  <2> SUFFICES ASSUME DrawnSoFar, pc = "centre" PROVE EveryLayoutOnce
    BY DEF EveryLayoutOnce
  <2>1. out = [c \in Cells |-> source[After(drawn)[i + 1][c]]] /\ i + 1 = 1
    BY DEF DrawnSoFar
  <2>2. out = [c \in Cells |-> source[LayoutFor(drawn)[c]]]
    BY <2>1 DEF LayoutFor
  <2> QED
    BY <2>2, LayoutDrawnOnce DEF EveryLayoutOnce
<1>2. IInv => DrawnSoFar
  BY DEF IInv
<1> QED
  BY <1>1, <1>2, Inductive, PTL

\* The move to the centre keeps it fair: of a board with one free space, every
\* layout with that at the centre is reached by as many runs of draws.
THEOREM CentringIsFair == Spec => []CentredAsOften
<1>1. IInv => CentredAsOften
  BY CentredSizeTimes DEF IInv, CentredAsOften
<1> QED
  BY <1>1, Inductive, PTL
=============================================================================
