-------------------------- MODULE KernelCellProofs --------------------------
(***************************************************************************)
(* Theorems about KernelCell, for cells of any length with any markers:    *)
(* do_execute executes every line as often as the markers around it say,   *)
(* in pieces that are runs of the cell, in the order of the cell.          *)
(***************************************************************************)
EXTENDS KernelCell, SequenceTheorems, FiniteSetTheorems, TLAPS

---------------------------------------------------------------------------
(***************************************************************************)
(* The inductive invariant.                                                *)
(***************************************************************************)
CellTypes ==
    /\ lines \in Seq(Lines) /\ ln_num \in 0 .. Len(lines)
    /\ current_lines \in Seq(Nat) /\ in_block \in BOOLEAN /\ repetitions \in Nat
    /\ executed \in Seq(Seq(Nat))

\* The lines that are dealt with: all but the gathered ones.
Upto == IF ln_num < Len(lines) THEN ln_num - Len(current_lines) ELSE Len(lines)

\* What is gathered: a run that ends at the line handled last.  In a block the line
\* before it is the marker, which is in no block itself, and no !EndRepeat follows;
\* outside there is no marker at all.
Gathering ==
    ln_num < Len(lines) =>
        /\ Len(current_lines) <= ln_num
        /\ \A q \in 1 .. Len(current_lines) : current_lines[q] = Upto + q
        /\ in_block => /\ Upto >= 1 /\ lines[Upto][1] = "repeat"
                       /\ lines[Upto][2] = repetitions /\ Openers(Upto) = {}
                       /\ \A k \in Upto + 1 .. ln_num : lines[k][1] # "end"
        /\ ~in_block => /\ \A k \in Upto + 1 .. ln_num + 1 : Openers(k) = {}
                        /\ \A k \in Upto + 1 .. ln_num : lines[k][1] # "repeat"

\* The pieces of e that line i is in.
With(e, i) == {p \in 1 .. Len(e) : \E q \in 1 .. Len(e[p]) : e[p][q] = i}

\* What is dealt with has been executed as often as it should, the rest not at all.
Counted ==
    \A i \in 1 .. Len(lines) :
        Cardinality(With(executed, i)) = IF i <= Upto THEN Multiplicity(i) ELSE 0

\* The pieces hold lines that are dealt with.
Bounded ==
    \A p \in 1 .. Len(executed) : \A q \in 1 .. Len(executed[p]) :
        executed[p][q] \in 1 .. Upto

CellInv == CellTypes /\ Gathering /\ Counted /\ Bounded /\ PiecesAreRuns

---------------------------------------------------------------------------
(***************************************************************************)
(* What a line means.                                                      *)
(***************************************************************************)
LEMMA LineType ==
    ASSUME NEW l \in Lines
    PROVE  l[1] \in {"code", "end", "repeat"} /\ l[2] \in Nat
  BY KernelCellAssumption DEF Lines, Code, EndRepeat, RepeatBlock

\* From one line to the next: !EndRepeat forgets the markers, !RepeatBlock is one more.
LEMMA OpenersNext ==
    ASSUME NEW i \in Nat \ {0}
    PROVE  Openers(i + 1) = IF lines[i][1] = "end" THEN {}
                            ELSE Openers(i) \cup (IF lines[i][1] = "repeat" THEN {i} ELSE {})
  <1>1. 1 .. (i + 1) - 1 = 1 .. i /\ i \in 1 .. i /\ (1 .. i - 1) \cup {i} = 1 .. i
    OBVIOUS
  <1>2. i + 1 .. (i + 1) - 1 = {}
    OBVIOUS
  <1>3. \A j \in 1 .. i - 1 : j + 1 .. (i + 1) - 1 = (j + 1 .. i - 1) \cup {i}
    OBVIOUS
  <1>4. \A j \in 1 .. i - 1 : j \in Openers(i + 1) <=> j \in Openers(i) /\ lines[i][1] # "end"
    BY <1>1, <1>3 DEF Openers
  <1>5. i \in Openers(i + 1) <=> lines[i][1] = "repeat"
    BY <1>1, <1>2 DEF Openers
  <1>6. Openers(i + 1) \subseteq 1 .. i /\ Openers(i) \subseteq 1 .. i - 1
    BY <1>1 DEF Openers
  <1>7. \A j : j \in Openers(i + 1) <=>
               j \in IF lines[i][1] = "end" THEN {}
                     ELSE Openers(i) \cup (IF lines[i][1] = "repeat" THEN {i} ELSE {})
    <2>1. i \notin 1 .. i - 1
      OBVIOUS
    <2> QED
      BY <1>1, <1>4, <1>5, <1>6, <2>1
  <1> QED
    BY <1>7

\* The lines that follow a marker f which is in no block itself, up to !EndRepeat: f is
\* the first of their markers.
LEMMA MultiplicityInBlock ==
    ASSUME NEW f \in Nat \ {0}, NEW i \in Nat, f < i,
           lines[f][1] = "repeat", Openers(f) = {},
           \A k \in f + 1 .. i - 1 : lines[k][1] # "end"
    PROVE  /\ Openers(i) # {}
           /\ Multiplicity(i) = IF lines[i][1] = "end" THEN 0 ELSE lines[f][2]
  <1>1. f \in Openers(i)
    BY DEF Openers
  <1>2. ASSUME NEW j \in Openers(i) PROVE f <= j
    <2>1. j \in Nat /\ j >= 1
      BY <1>2 DEF Openers
    <2>2. SUFFICES ASSUME j < f PROVE FALSE
      BY <2>1
    <2>3. j \in 1 .. f - 1 /\ \A k \in j + 1 .. f - 1 : k \in j + 1 .. i - 1
      BY <2>1, <2>2
    <2>4. j \in Openers(f)
      BY <1>2, <2>3 DEF Openers
    <2> QED
      BY <2>4
  <1> DEFINE least == CHOOSE j \in Openers(i) : \A k \in Openers(i) : j <= k
  <1>3. least \in Openers(i) /\ \A k \in Openers(i) : least <= k
    BY <1>1, <1>2
  <1>4. least = f
    <2> HIDE DEF least
    <2>1. least \in Nat
      BY <1>3 DEF Openers
    <2> QED
      BY <1>1, <1>2, <1>3, <2>1
  <1>5. Repeated(i)
    BY <1>1 DEF Repeated
  <1>6. IsCode(i) <=> lines[i][1] # "end"
    BY <1>5 DEF IsCode
  <1>7. Multiplicity(i) = IF ~IsCode(i) THEN 0 ELSE lines[least][2]
    <2>1. CASE IsCode(i)
      BY <1>5, <2>1 DEF Multiplicity
    <2>2. CASE ~IsCode(i)
      BY <2>2 DEF Multiplicity
    <2> QED
      BY <2>1, <2>2
  <1> HIDE DEF least
  <1>8. Multiplicity(i) = IF lines[i][1] = "end" THEN 0 ELSE lines[f][2]
    BY <1>4, <1>6, <1>7
  <1> QED
    BY <1>1, <1>8

LEMMA MultiplicityOutside ==
    ASSUME NEW i, Openers(i) = {}
    PROVE  Multiplicity(i) = IF lines[i][1] = "repeat" THEN 0 ELSE 1
  BY DEF Multiplicity, IsCode, Repeated

\* What a line means depends on the cell alone.
LEMMA SameMeaning ==
    ASSUME lines' = lines
    PROVE  \A i : Multiplicity(i)' = Multiplicity(i) /\ Openers(i)' = Openers(i)
  <1> SUFFICES ASSUME NEW i
               PROVE  Multiplicity(i)' = Multiplicity(i) /\ Openers(i)' = Openers(i)
    OBVIOUS
  <1>1. Openers(i)' = Openers(i)
    BY DEF Openers
  <1>2. Repeated(i)' <=> Repeated(i)
    BY <1>1 DEF Repeated
  <1>3. IsCode(i)' <=> IsCode(i)
    BY <1>2 DEF IsCode
  <1>4. Multiplicity(i)' = Multiplicity(i)
    BY <1>1, <1>2, <1>3 DEF Multiplicity
  <1> QED
    BY <1>1, <1>4

---------------------------------------------------------------------------
(***************************************************************************)
(* Executing a piece k times.                                              *)
(***************************************************************************)
LEMMA TimesType ==
    ASSUME NEW k \in Nat, NEW piece \in Seq(Nat), NEW e \in Seq(Seq(Nat))
    PROVE  LET f == e \o Times(k, piece) IN
           /\ f \in Seq(Seq(Nat)) /\ Len(f) = Len(e) + k
           /\ \A p \in 1 .. Len(e) + k : f[p] = IF p <= Len(e) THEN e[p] ELSE piece
  <1> DEFINE t == Times(k, piece)
             f == e \o t
  <1>1. t \in [1 .. k -> Seq(Nat)]
    BY DEF Times
  <1>2. \A p \in 1 .. k : t[p] = piece
    BY DEF Times
  <1> HIDE DEF t
  <1>3. t \in Seq(Seq(Nat)) /\ Len(t) = k
    BY <1>1, SeqDef, LenProperties
  <1>4. /\ f \in Seq(Seq(Nat)) /\ Len(f) = Len(e) + Len(t)
        /\ \A p \in 1 .. Len(e) + Len(t) : f[p] = IF p <= Len(e) THEN e[p] ELSE t[p - Len(e)]
    BY <1>3, ConcatProperties
  <1> HIDE DEF f
  <1>5. ASSUME NEW p \in 1 .. Len(e) + k PROVE f[p] = IF p <= Len(e) THEN e[p] ELSE piece
    <2>1. Len(e) \in Nat
      BY LenProperties
    <2>2. CASE p <= Len(e)
      BY <1>3, <1>4, <1>5, <2>2
    <2>3. CASE ~(p <= Len(e))
      <3>1. p - Len(e) \in 1 .. k
        BY <1>5, <2>1, <2>3
      <3> QED
        BY <1>2, <1>3, <1>4, <1>5, <2>3, <3>1
    <2> QED
      BY <2>2, <2>3
  <1> QED
    BY <1>3, <1>4, <1>5 DEF f, t

\* Appending is executing once.
LEMMA AppendIsOnce ==
    ASSUME NEW piece \in Seq(Nat), NEW e \in Seq(Seq(Nat))
    PROVE  Append(e, piece) = e \o Times(1, piece)
  <1> DEFINE a == Append(e, piece)
             b == e \o Times(1, piece)
  <1>1. /\ a \in Seq(Seq(Nat)) /\ Len(a) = Len(e) + 1
        /\ \A p \in 1 .. Len(e) : a[p] = e[p]
        /\ a[Len(e) + 1] = piece
    BY AppendProperties
  <1>2. /\ b \in Seq(Seq(Nat)) /\ Len(b) = Len(e) + 1
        /\ \A p \in 1 .. Len(e) + 1 : b[p] = IF p <= Len(e) THEN e[p] ELSE piece
    BY TimesType
  <1>3. Len(e) \in Nat
    BY LenProperties
  <1> HIDE DEF a, b
  <1>4. \A p \in 1 .. Len(a) : a[p] = b[p]
    <2> SUFFICES ASSUME NEW p \in 1 .. Len(e) + 1 PROVE a[p] = b[p]
      BY <1>1
    <2>1. p \in 1 .. Len(e) \/ (p = Len(e) + 1 /\ ~(p <= Len(e)))
      BY <1>3
    <2>2. CASE p \in 1 .. Len(e)
      <3>1. p <= Len(e)
        BY <1>3, <2>2
      <3> QED
        BY <1>1, <1>2, <2>2, <3>1
    <2>3. CASE p = Len(e) + 1 /\ ~(p <= Len(e))
      BY <1>1, <1>2, <2>3
    <2> QED
      BY <2>1, <2>2, <2>3
  <1>5. a = b
    BY <1>1, <1>2, <1>4, SeqEqual
  <1> QED
    BY <1>5 DEF a, b

\* Executing a piece no times is doing nothing.
LEMMA NoTimes ==
    ASSUME NEW e \in Seq(Seq(Nat)), NEW piece
    PROVE  e \o Times(0, piece) = e
  <1>1. Times(0, piece) = <<>>
    BY DEF Times
  <1> QED
    BY <1>1, ConcatEmptySeq

\* How the count of a line grows.
LEMMA WithTimes ==
    ASSUME NEW k \in Nat, NEW piece \in Seq(Nat), NEW e \in Seq(Seq(Nat)), NEW i
    PROVE  LET f == e \o Times(k, piece) IN
           /\ Cardinality(With(e, i)) \in Nat
           /\ Cardinality(With(f, i)) = Cardinality(With(e, i))
                 + (IF \E q \in 1 .. Len(piece) : piece[q] = i THEN k ELSE 0)
  <1> DEFINE f == e \o Times(k, piece)
             l == Len(e)
             S == With(e, i)
             T == With(f, i)
             I == l + 1 .. l + k
  <1>1. /\ Len(f) = l + k /\ l \in Nat
        /\ \A p \in 1 .. l + k : f[p] = IF p <= l THEN e[p] ELSE piece
    BY TimesType, LenProperties
  <1>2. IsFiniteSet(S) /\ Cardinality(S) \in Nat
    <2>1. S \subseteq 1 .. l /\ IsFiniteSet(1 .. l)
      BY <1>1, FS_Interval DEF With
    <2> QED
      BY <2>1, FS_Subset, FS_CardinalityType
  <1>3. IsFiniteSet(I) /\ Cardinality(I) = k
    <2>1. l + 1 \in Int /\ l + k \in Int
      BY <1>1
    <2>2. IsFiniteSet(I) /\ Cardinality(I) = IF l + 1 > l + k THEN 0 ELSE (l + k) - (l + 1) + 1
      BY <2>1, FS_Interval
    <2> QED
      BY <1>1, <2>2
  <1> HIDE DEF f, l
  <1>4. (1 .. l) \cup I = 1 .. l + k /\ (1 .. l) \cap I = {}
    BY <1>1
  <1>5. T = IF \E q \in 1 .. Len(piece) : piece[q] = i THEN S \cup I ELSE S
    <2>1. \A p \in 1 .. l : p <= l /\ p \in 1 .. l + k
      BY <1>1
    <2>2. \A p \in I : ~(p <= l) /\ p \in 1 .. l + k
      BY <1>1
    <2>3. S \subseteq 1 .. l /\ T \subseteq 1 .. l + k
      BY <1>1 DEF With, l
    <2>4. \A p \in 1 .. l : p \in T <=> p \in S
      BY <1>1, <2>1 DEF With, l
    <2>5. \A p \in I : p \in T <=> \E q \in 1 .. Len(piece) : piece[q] = i
      BY <1>1, <2>2 DEF With
    <2> HIDE DEF S, T, I
    <2> QED
      BY <1>4, <2>3, <2>4, <2>5
  <1>6. CASE \E q \in 1 .. Len(piece) : piece[q] = i
    <2>1. S \cap I = {}
      BY <1>1, <1>4 DEF With, l
    <2>2. T = S \cup I
      BY <1>5, <1>6
    <2> HIDE DEF S, T, I
    <2>3. Cardinality(T) = Cardinality(S) + Cardinality(I) - Cardinality(S \cap I)
      BY <1>2, <1>3, <2>2, FS_Union
    <2>4. Cardinality(S \cap I) = 0
      BY <2>1, FS_EmptySet
    <2>5. Cardinality(T) = Cardinality(S) + k
      BY <1>2, <1>3, <2>3, <2>4
    <2> QED
      BY <1>2, <1>6, <2>5 DEF S, T, f
  <1>7. CASE ~(\E q \in 1 .. Len(piece) : piece[q] = i)
    <2>1. T = S
      BY <1>5, <1>7
    <2> QED
      BY <1>2, <1>7, <2>1 DEF f
  <1> QED
    BY <1>6, <1>7

---------------------------------------------------------------------------
(***************************************************************************)
(* The invariant is kept.                                                  *)
(***************************************************************************)
LEMMA UptoType ==
    ASSUME CellTypes, Gathering
    PROVE  /\ Len(lines) \in Nat /\ Len(current_lines) \in Nat /\ ln_num \in Nat
           /\ ln_num <= Len(lines) /\ Upto \in 0 .. Len(lines)
           /\ ln_num < Len(lines) => Upto + Len(current_lines) = ln_num
  <1> DEFINE n == Len(lines)
             c == Len(current_lines)
  <1>1. n \in Nat /\ c \in Nat /\ ln_num \in 0 .. n
    BY LenProperties DEF CellTypes
  <1>2. ln_num < n => c <= ln_num
    BY DEF Gathering
  <1>3. Upto = IF ln_num < n THEN ln_num - c ELSE n
    BY DEF Upto
  <1> HIDE DEF n, c
  <1>4. /\ n \in Nat /\ c \in Nat /\ ln_num \in Nat
        /\ ln_num <= n /\ Upto \in 0 .. n
        /\ ln_num < n => Upto + c = ln_num
    BY <1>1, <1>2, <1>3
  <1> QED
    BY <1>4 DEF n, c

\* The piece that is to be executed k times: the run of lines that follows what is
\* dealt with.  After it, the lines up to u are dealt with.
IsNext(piece, k, u) ==
    /\ piece \in Seq(Nat) /\ k \in Nat /\ u \in Nat /\ u <= Len(lines)
    /\ Upto + Len(piece) <= u
    /\ \A q \in 1 .. Len(piece) : piece[q] = Upto + q
    /\ \A i \in Upto + 1 .. Upto + Len(piece) - 1 : Openers(i) \subseteq Openers(i + 1)
    /\ \A i \in Upto + 1 .. u : Multiplicity(i) = IF i <= Upto + Len(piece) THEN k ELSE 0

LEMMA PieceExecuted ==
    ASSUME CellInv, NEW piece, NEW k, NEW u, IsNext(piece, k, u),
           lines' = lines, executed' = executed \o Times(k, piece), Upto' = u
    PROVE  executed' \in Seq(Seq(Nat)) /\ Counted' /\ Bounded' /\ PiecesAreRuns'
  <1> DEFINE e == executed
             f == executed \o Times(k, piece)
             m == Upto
             n == Len(lines)
             l == Len(piece)
             z == Len(executed)
  <1>1. /\ piece \in Seq(Nat) /\ k \in Nat /\ u \in Nat /\ u <= n /\ m + l <= u
        /\ \A q \in 1 .. l : piece[q] = m + q
        /\ \A i \in m + 1 .. m + l - 1 : Openers(i) \subseteq Openers(i + 1)
        /\ \A i \in m + 1 .. u : Multiplicity(i) = IF i <= m + l THEN k ELSE 0
    BY DEF IsNext
  <1>2. n \in Nat /\ m \in Nat /\ l \in Nat /\ e \in Seq(Seq(Nat)) /\ z \in Nat
    BY <1>1, UptoType, LenProperties DEF CellInv, CellTypes
  <1>3. /\ f \in Seq(Seq(Nat)) /\ Len(f) = z + k
        /\ \A p \in 1 .. z + k : f[p] = IF p <= z THEN e[p] ELSE piece
    <2>1. k \in Nat /\ piece \in Seq(Nat) /\ e \in Seq(Seq(Nat))
      BY <1>1, <1>2
    <2> QED
      BY ONLY <2>1, TimesType DEF e, f, z
  <1>4. executed' = f
    OBVIOUS
  <1>5. /\ \A i : Multiplicity(i)' = Multiplicity(i)
        /\ \A i : Openers(i)' = Openers(i)
    BY SameMeaning
  <1>6. \A i \in 1 .. n :
           /\ Cardinality(With(e, i)) \in Nat
           /\ Cardinality(With(f, i)) = Cardinality(With(e, i))
                 + (IF \E q \in 1 .. l : piece[q] = i THEN k ELSE 0)
    BY <1>1, <1>2, WithTimes
  <1>7. \A i \in 1 .. n : Cardinality(With(e, i)) = IF i <= m THEN Multiplicity(i) ELSE 0
    BY DEF CellInv, Counted
  <1>8. \A p \in 1 .. z : \A q \in 1 .. Len(e[p]) : e[p][q] \in 1 .. m
    BY DEF CellInv, Bounded
  <1> HIDE DEF e, f, m, n, l, z
  <1>9. \A i \in 1 .. n : (\E q \in 1 .. l : piece[q] = i) <=> i \in m + 1 .. m + l
    <2> SUFFICES ASSUME NEW i \in 1 .. n
                 PROVE  (\E q \in 1 .. l : piece[q] = i) <=> i \in m + 1 .. m + l
      OBVIOUS
    <2>1. ASSUME NEW q \in 1 .. l, piece[q] = i PROVE i \in m + 1 .. m + l
      <3>1. i = m + q
        BY <1>1, <2>1
      <3> QED
        BY <1>2, <2>1, <3>1
    <2>2. ASSUME i \in m + 1 .. m + l PROVE \E q \in 1 .. l : piece[q] = i
      <3>1. i - m \in 1 .. l /\ m + (i - m) = i
        BY <1>2, <2>2
      <3> QED
        BY <1>1, <3>1
    <2> QED
      BY <2>1, <2>2
  <1>10. Counted'
    <2>1. ASSUME NEW i \in 1 .. n
          PROVE  Cardinality(With(f, i)) = IF i <= u THEN Multiplicity(i) ELSE 0
      <3>1. CASE i <= m
        <4>1. i \notin m + 1 .. m + l /\ i <= u
          BY <1>1, <1>2, <3>1
        <4> QED
          BY <1>6, <1>7, <1>9, <2>1, <3>1, <4>1
      <3>2. CASE i \in m + 1 .. m + l
        <4>1. ~(i <= m) /\ i <= u /\ i \in m + 1 .. u /\ i <= m + l
          BY <1>1, <1>2, <3>2
        <4> QED
          BY <1>1, <1>6, <1>7, <1>9, <2>1, <3>2, <4>1
      <3>3. CASE ~(i <= m) /\ i \notin m + 1 .. m + l
        <4>1. ~(i <= m) /\ ~(i <= m + l) /\ (i <= u => i \in m + 1 .. u)
          BY <1>1, <1>2, <2>1, <3>3
        <4>2. Cardinality(With(f, i)) = 0
          BY <1>6, <1>7, <1>9, <2>1, <3>3
        <4> QED
          BY <1>1, <4>1, <4>2
      <3> QED
        BY <3>1, <3>2, <3>3
    <2> QED
      BY <1>4, <1>5, <2>1 DEF Counted, n
  <1>11. \A p \in 1 .. z + k : p <= z => p \in 1 .. z
    BY <1>1, <1>2
  <1>12. Bounded'
    <2>1. ASSUME NEW p \in 1 .. z + k, NEW q \in 1 .. Len(f[p]) PROVE f[p][q] \in 1 .. u
      <3>1. CASE p <= z
        <4>1. f[p] = e[p] /\ e[p][q] \in 1 .. m
          BY <1>3, <1>8, <1>11, <2>1, <3>1
        <4> QED
          BY <1>1, <1>2, <4>1
      <3>2. CASE ~(p <= z)
        <4>1. f[p] = piece
          BY <1>3, <2>1, <3>2
        <4>2. q \in 1 .. l /\ piece[q] = m + q
          BY <1>1, <2>1, <4>1 DEF l
        <4> QED
          BY <1>1, <1>2, <4>1, <4>2
      <3> QED
        BY <3>1, <3>2
    <2> QED
      BY <1>3, <1>4, <2>1 DEF Bounded
  <1>13. PiecesAreRuns'
    <2>1. \A p \in 1 .. z :
            /\ \A i \in 1 .. Len(e[p]) - 1 :
                  /\ e[p][i + 1] = e[p][i] + 1
                  /\ Openers(e[p][i]) \subseteq Openers(e[p][i + 1])
            /\ \A q \in 1 .. p - 1 : e[p] # <<>> /\ e[q] # <<>> =>
                  e[q] = e[p] \/ e[q][Len(e[q])] < e[p][1]
      BY DEF CellInv, PiecesAreRuns, e, z
    <2>2. ASSUME NEW p \in 1 .. z + k, NEW i \in 1 .. Len(f[p]) - 1
          PROVE  f[p][i + 1] = f[p][i] + 1 /\ Openers(f[p][i]) \subseteq Openers(f[p][i + 1])
      <3>1. CASE p <= z
        <4>1. f[p] = e[p] /\ p \in 1 .. z
          BY <1>3, <1>11, <2>2, <3>1
        <4> QED
          BY <2>1, <2>2, <4>1
      <3>2. CASE ~(p <= z)
        <4>1. f[p] = piece
          BY <1>3, <2>2, <3>2
        <4>2. i \in 1 .. l - 1
          BY <2>2, <4>1 DEF l
        <4>3. /\ i \in 1 .. l /\ i + 1 \in 1 .. l /\ m + i \in m + 1 .. m + l - 1
              /\ m + (i + 1) = (m + i) + 1
          BY <1>2, <4>2
        <4>4. piece[i] = m + i /\ piece[i + 1] = (m + i) + 1
          BY <1>1, <4>3
        <4>5. Openers(m + i) \subseteq Openers((m + i) + 1)
          BY <1>1, <4>3
        <4> QED
          BY <4>1, <4>4, <4>5
      <3> QED
        BY <3>1, <3>2
    <2>3. ASSUME NEW p \in 1 .. z + k, NEW q \in 1 .. p - 1, f[p] # <<>>, f[q] # <<>>
          PROVE  f[q] = f[p] \/ f[q][Len(f[q])] < f[p][1]
      <3>1. q \in 1 .. z + k /\ q < p
        BY <1>1, <1>2, <2>3
      <3>2. CASE p <= z
        <4>1. p \in 1 .. z /\ q <= z
          BY <1>2, <2>3, <3>1, <3>2
        <4>2. f[p] = e[p] /\ f[q] = e[q]
          BY <1>3, <2>3, <3>1, <3>2, <4>1
        <4> QED
          BY <2>1, <2>3, <4>1, <4>2
      <3>3. CASE ~(p <= z) /\ q <= z
        <4>1. f[p] = piece /\ f[q] = e[q] /\ q \in 1 .. z
          BY <1>3, <1>11, <2>3, <3>1, <3>3
        <4> DEFINE w == Len(e[q])
        <4>2. e[q] \in Seq(Nat)
          BY <1>2, <4>1, ElementOfSeq DEF e, z
        <4>3. w \in 1 .. w
          <5>1. w \in Nat /\ w # 0
            BY <2>3, <4>1, <4>2, LenProperties, EmptySeq
          <5> HIDE DEF w
          <5> QED
            BY <5>1
        <4>4. e[q][w] \in 1 .. m
          BY <1>8, <4>1, <4>3
        <4>5. 1 \in 1 .. l
          <5>1. l # 0
            BY <1>1, <2>3, <4>1, EmptySeq DEF l
          <5> QED
            BY <1>2, <5>1
        <4>6. piece[1] = m + 1
          BY <1>1, <4>5
        <4> QED
          BY <1>2, <4>1, <4>4, <4>6
      <3>4. CASE ~(p <= z) /\ ~(q <= z)
        BY <1>3, <2>3, <3>1, <3>4
      <3> QED
        BY <3>2, <3>3, <3>4
    <2> QED
      BY <1>3, <1>4, <1>5, <2>2, <2>3 DEF PiecesAreRuns
  <1> QED
    BY <1>3, <1>4, <1>10, <1>12, <1>13

LEMMA NothingExecuted ==
    ASSUME Counted, Bounded, PiecesAreRuns,
           lines' = lines, executed' = executed, Upto' = Upto
    PROVE  Counted' /\ Bounded' /\ PiecesAreRuns'
  <1>1. \A i : Multiplicity(i)' = Multiplicity(i) /\ Openers(i)' = Openers(i)
    BY SameMeaning
  <1>2. Counted'
    BY <1>1 DEF Counted
  <1>3. Bounded'
    BY DEF Bounded
  <1>4. PiecesAreRuns'
    BY <1>1 DEF PiecesAreRuns
  <1> QED
    BY <1>2, <1>3, <1>4

\* The line at hand, and what it makes of the gathered ones.
LEMMA GatheredRun ==
    ASSUME CellTypes, Gathering, ln_num < Len(lines)
    PROVE  /\ Line \in Lines /\ ln_num + 1 \in Nat /\ ln_num + 1 <= Len(lines)
           /\ Gathered \in Seq(Nat) /\ Len(Gathered) = Len(current_lines) + 1
           /\ Upto + Len(Gathered) = ln_num + 1
           /\ \A q \in 1 .. Len(Gathered) : Gathered[q] = Upto + q
  <1> DEFINE c == Len(current_lines)
             m == Upto
             n == Len(lines)
             g == Gathered
  <1>1. n \in Nat /\ c \in Nat /\ ln_num \in Nat /\ m \in Nat /\ ln_num < n /\ m + c = ln_num
    BY UptoType
  <1>2. lines \in Seq(Lines) /\ current_lines \in Seq(Nat)
    BY DEF CellTypes
  <1>3. \A q \in 1 .. c : current_lines[q] = m + q
    BY DEF Gathering
  <1> HIDE DEF m, n
  <1>4. ln_num + 1 \in 1 .. n /\ ln_num + 1 \in Nat /\ ln_num + 1 <= n
    BY <1>1
  <1>5. Line \in Lines
    BY <1>2, <1>4, ElementOfSeq DEF Line, n
  <1>6. /\ g \in Seq(Nat) /\ Len(g) = c + 1
        /\ \A q \in 1 .. c : g[q] = current_lines[q]
        /\ g[c + 1] = ln_num + 1
    BY <1>2, <1>4, AppendProperties DEF Gathered
  <1> HIDE DEF c, g
  <1>7. ASSUME NEW q \in 1 .. c + 1 PROVE g[q] = m + q
    <2>1. q \in 1 .. c \/ q = c + 1
      BY <1>1
    <2>2. CASE q \in 1 .. c
      BY <1>3, <1>6, <2>2
    <2>3. CASE q = c + 1
      <3>1. m + q = ln_num + 1
        BY <1>1, <2>3
      <3> QED
        BY <1>6, <2>3, <3>1
    <2> QED
      BY <2>1, <2>2, <2>3
  <1>8. m + (c + 1) = ln_num + 1
    BY <1>1
  <1> QED
    BY <1>4, <1>5, <1>6, <1>7, <1>8 DEF c, g, m, n

\* In a block, a line is executed as often as the marker before the gathered lines says,
\* and the markers of a line are markers of the next one.
LEMMA InsideBlock ==
    ASSUME CellTypes, Gathering, ln_num < Len(lines), in_block
    PROVE  /\ \A i \in Upto + 1 .. ln_num + 1 :
                 Multiplicity(i) = IF lines[i][1] = "end" THEN 0 ELSE repetitions
           /\ \A i \in Upto + 1 .. ln_num : lines[i][1] # "end"
           /\ \A i \in Upto + 1 .. ln_num : Openers(i) \subseteq Openers(i + 1)
  <1> DEFINE m == Upto
  <1>1. m \in Nat /\ ln_num \in Nat /\ m >= 1
    BY UptoType DEF Gathering
  <1>2. /\ lines[m][1] = "repeat" /\ lines[m][2] = repetitions /\ Openers(m) = {}
        /\ \A k \in m + 1 .. ln_num : lines[k][1] # "end"
    BY DEF Gathering
  <1> HIDE DEF m
  <1>3. ASSUME NEW i \in m + 1 .. ln_num + 1
        PROVE  Multiplicity(i) = IF lines[i][1] = "end" THEN 0 ELSE repetitions
    <2>1. m \in Nat \ {0} /\ i \in Nat /\ m < i
      BY <1>1, <1>3
    <2>2. \A k \in m + 1 .. i - 1 : k \in m + 1 .. ln_num
      BY <1>1, <1>3
    <2> QED
      BY <1>2, <2>1, <2>2, MultiplicityInBlock
  <1>4. ASSUME NEW i \in m + 1 .. ln_num PROVE Openers(i) \subseteq Openers(i + 1)
    <2>1. i \in Nat \ {0}
      BY <1>1, <1>4
    <2>2. lines[i][1] # "end"
      BY <1>2, <1>4
    <2>3. Openers(i + 1) = Openers(i) \cup (IF lines[i][1] = "repeat" THEN {i} ELSE {})
      BY <2>1, <2>2, OpenersNext
    <2> QED
      BY <2>3
  <1> QED
    BY <1>2, <1>3, <1>4 DEF m

\* Outside a block a line is executed once.
LEMMA OutsideBlock ==
    ASSUME CellTypes, Gathering, ln_num < Len(lines), ~in_block
    PROVE  /\ \A i \in Upto + 1 .. ln_num + 1 : Openers(i) = {}
           /\ \A i \in Upto + 1 .. ln_num + 1 :
                 Multiplicity(i) = IF lines[i][1] = "repeat" THEN 0 ELSE 1
           /\ \A i \in Upto + 1 .. ln_num : lines[i][1] # "repeat"
           /\ \A i \in Upto + 1 .. ln_num : Openers(i) \subseteq Openers(i + 1)
  <1>1. /\ \A i \in Upto + 1 .. ln_num + 1 : Openers(i) = {}
        /\ \A i \in Upto + 1 .. ln_num : lines[i][1] # "repeat"
    BY DEF Gathering
  <1>2. \A i \in Upto + 1 .. ln_num + 1 :
           Multiplicity(i) = IF lines[i][1] = "repeat" THEN 0 ELSE 1
    BY <1>1, MultiplicityOutside
  <1>3. \A i \in Upto + 1 .. ln_num : i \in Upto + 1 .. ln_num + 1
    BY UptoType
  <1> QED
    BY <1>1, <1>2, <1>3

---------------------------------------------------------------------------
(***************************************************************************)
(* One lemma per action.                                                   *)
(***************************************************************************)
\* A line that is gathered, while the cell goes on.
LEMMA GatherKeeps ==
    ASSUME CellInv, ln_num + 1 < Len(lines),
           lines' = lines, ln_num' = ln_num + 1, current_lines' = Gathered,
           in_block' = in_block, repetitions' = repetitions, executed' = executed,
           IF in_block THEN Line[1] # "end" ELSE Line[1] # "repeat"
    PROVE  CellInv'
  <1> DEFINE n == Len(lines)
             m == Upto
             c == Len(current_lines)
  <1>1. /\ CellTypes /\ Gathering /\ Counted /\ Bounded /\ PiecesAreRuns
    BY DEF CellInv
  <1>2. n \in Nat /\ ln_num \in Nat /\ m \in Nat /\ c \in Nat /\ ln_num + 1 < n
    BY <1>1, UptoType
  <1>3. ln_num < n /\ ln_num + 1 \in 0 .. n
    BY <1>2
  <1>4. /\ Gathered \in Seq(Nat) /\ Len(Gathered) = c + 1 /\ m + (c + 1) = ln_num + 1
        /\ \A q \in 1 .. c + 1 : Gathered[q] = m + q
    BY <1>1, <1>3, GatheredRun
  <1>5. Upto' = m
    <2>1. Upto' = IF ln_num + 1 < n THEN (ln_num + 1) - (c + 1) ELSE n
      BY <1>4 DEF Upto
    <2> QED
      BY <1>2, <1>4, <2>1
  <1>6. CellTypes'
    BY <1>1, <1>3, <1>4 DEF CellTypes
  <1>7. Counted' /\ Bounded' /\ PiecesAreRuns'
    BY <1>1, <1>5, NothingExecuted
  <1>8. \A i : Openers(i)' = Openers(i)
    BY SameMeaning
  <1>9. Len(current_lines)' <= ln_num' /\ \A q \in 1 .. Len(current_lines)' : current_lines'[q] = Upto' + q
    <2>1. c + 1 <= ln_num + 1
      BY <1>2, <1>4
    <2> QED
      BY <1>4, <1>5, <2>1
  <1>10. CASE in_block
    <2>1. /\ m >= 1 /\ lines[m][1] = "repeat"
          /\ lines[m][2] = repetitions /\ Openers(m) = {}
          /\ \A k \in m + 1 .. ln_num : lines[k][1] # "end"
      BY <1>1, <1>3, <1>10 DEF Gathering
    <2>2. \A k \in m + 1 .. ln_num + 1 : k \in m + 1 .. ln_num \/ k = ln_num + 1
      BY <1>2
    <2>3. \A k \in m + 1 .. ln_num + 1 : lines[k][1] # "end"
      BY <1>10, <2>1, <2>2 DEF Line
    <2> HIDE DEF m, n, c
    <2>4. Gathering'
      BY <1>5, <1>8, <1>9, <1>10, <2>1, <2>3 DEF Gathering
    <2> QED
      BY <1>6, <1>7, <2>4 DEF CellInv
  <1>11. CASE ~in_block
    <2>1. /\ \A k \in m + 1 .. ln_num + 1 : Openers(k) = {}
          /\ \A k \in m + 1 .. ln_num : lines[k][1] # "repeat"
      BY <1>1, <1>3, <1>11 DEF Gathering
    <2>2. \A k \in m + 1 .. ln_num + 1 : k \in m + 1 .. ln_num \/ k = ln_num + 1
      BY <1>2
    <2>3. \A k \in m + 1 .. ln_num + 1 : lines[k][1] # "repeat"
      BY <1>11, <2>1, <2>2 DEF Line
    <2>4. Openers((ln_num + 1) + 1) = {}
      <3>1. ln_num + 1 \in Nat \ {0} /\ ln_num + 1 \in m + 1 .. ln_num + 1
        BY <1>2, <1>4
      <3>2. Openers(ln_num + 1) = {} /\ lines[ln_num + 1][1] # "repeat"
        BY <2>1, <2>3, <3>1
      <3> QED
        BY <3>1, <3>2, OpenersNext
    <2>5. \A k \in m + 1 .. (ln_num + 1) + 1 : k \in m + 1 .. ln_num + 1 \/ k = (ln_num + 1) + 1
      BY <1>2
    <2>6. \A k \in m + 1 .. (ln_num + 1) + 1 : Openers(k) = {}
      BY <2>1, <2>4, <2>5
    <2> HIDE DEF m, n, c
    <2>7. Gathering'
      BY <1>5, <1>8, <1>9, <1>11, <2>6, <2>3 DEF Gathering
    <2> QED
      BY <1>6, <1>7, <2>7 DEF CellInv
  <1> QED
    BY <1>10, <1>11

LEMMA OutsideCodeKeeps ==
    ASSUME CellInv, OutsideCode
    PROVE  CellInv'
  <1>1. /\ ln_num < Len(lines) /\ ln_num' = ln_num + 1 /\ lines' = lines
        /\ ~in_block /\ Line[1] # "repeat" /\ current_lines' = Gathered
        /\ executed' = IF LastLine THEN Append(executed, Gathered) ELSE executed
        /\ in_block' = in_block /\ repetitions' = repetitions
    BY DEF OutsideCode, NextLine
  <1> DEFINE n == Len(lines)
             m == Upto
             g == Gathered
  <1>2. CellTypes /\ Gathering
    BY DEF CellInv
  <1>3. n \in Nat /\ ln_num \in Nat /\ m \in Nat /\ ln_num < n
    BY <1>1, <1>2, UptoType
  <1>4. CASE LastLine
    <2>1. ln_num + 1 = n
      BY <1>4 DEF LastLine
    <2>2. /\ g \in Seq(Nat) /\ m + Len(g) = ln_num + 1
          /\ \A q \in 1 .. Len(g) : g[q] = m + q
      BY <1>1, <1>2, GatheredRun
    <2>3. executed \in Seq(Seq(Nat))
      BY <1>2 DEF CellTypes
    <2>4. executed' = executed \o Times(1, g)
      BY <1>1, <1>4, <2>2, <2>3, AppendIsOnce
    <2>5. Upto' = n
      <3>1. Upto' = IF ln_num' < n THEN ln_num' - Len(current_lines)' ELSE n
        BY <1>1 DEF Upto
      <3> QED
        BY <1>1, <1>3, <2>1, <3>1
    <2>6. IsNext(g, 1, n)
      <3>1. /\ \A i \in m + 1 .. ln_num + 1 : Multiplicity(i) = IF lines[i][1] = "repeat" THEN 0 ELSE 1
            /\ \A i \in m + 1 .. ln_num : lines[i][1] # "repeat"
            /\ \A i \in m + 1 .. ln_num : Openers(i) \subseteq Openers(i + 1)
        BY <1>1, <1>2, OutsideBlock
      <3>2. lines[ln_num + 1][1] # "repeat"
        BY <1>1 DEF Line
      <3> HIDE DEF m, g
      <3>3. m + Len(g) - 1 = ln_num
        <4>1. Len(g) \in Nat
          BY <2>2, LenProperties
        <4> QED
          BY <1>3, <2>2, <4>1
      <3>4. \A i \in m + 1 .. ln_num + 1 : i \in m + 1 .. ln_num \/ i = ln_num + 1
        BY <1>3
      <3>5. \A i \in m + 1 .. ln_num + 1 : Multiplicity(i) = 1
        BY <3>1, <3>2, <3>4
      <3>6. n <= n /\ m + Len(g) <= n /\ \A i \in m + 1 .. n : i <= m + Len(g)
        BY <1>3, <2>1, <2>2
      <3> QED
        BY <1>3, <2>1, <2>2, <3>1, <3>3, <3>5, <3>6 DEF IsNext, m, n
    <2>7. executed' \in Seq(Seq(Nat)) /\ Counted' /\ Bounded' /\ PiecesAreRuns'
      BY <1>1, <2>4, <2>5, <2>6, PieceExecuted
    <2>8. ln_num' = Len(lines)' /\ ln_num' \in 0 .. Len(lines)' /\ ~(ln_num' < Len(lines)')
      BY <1>1, <1>3, <2>1
    <2>9. CellTypes'
      BY <1>1, <1>2, <2>2, <2>7, <2>8 DEF CellTypes
    <2>10. Gathering'
      BY <2>8 DEF Gathering
    <2> QED
      BY <2>7, <2>9, <2>10 DEF CellInv
  <1>5. CASE ~LastLine
    <2>1. ln_num + 1 < n
      BY <1>3, <1>5 DEF LastLine
    <2>2. executed' = executed
      BY <1>1, <1>5
    <2> QED
      BY <1>1, <2>1, <2>2, GatherKeeps
  <1> QED
    BY <1>4, <1>5

LEMMA InsideCodeKeeps ==
    ASSUME CellInv, InsideCode
    PROVE  CellInv'
  <1>1. /\ ln_num < Len(lines) /\ ln_num' = ln_num + 1 /\ lines' = lines
        /\ in_block /\ Line[1] # "end" /\ ~LastLine /\ current_lines' = Gathered
        /\ executed' = executed /\ in_block' = in_block /\ repetitions' = repetitions
    BY DEF InsideCode, NextLine
  <1>2. Len(lines) \in Nat /\ ln_num \in Nat
    BY UptoType DEF CellInv
  <1>3. ln_num + 1 < Len(lines)
    BY <1>1, <1>2 DEF LastLine
  <1> QED
    BY <1>1, <1>3, GatherKeeps

\* Nothing stays gathered: the line at hand is dealt with.
LEMMA UptoHere ==
    ASSUME CellTypes, Gathering, ln_num < Len(lines),
           lines' = lines, ln_num' = ln_num + 1, current_lines' = <<>>
    PROVE  Upto' = ln_num + 1 /\ ln_num' \in 0 .. Len(lines)'
  <1> DEFINE n == Len(lines)
  <1>1. n \in Nat /\ ln_num \in Nat /\ ln_num < n
    BY UptoType
  <1>2. Upto' = IF ln_num + 1 < n THEN (ln_num + 1) - 0 ELSE n
    <2>1. Len(current_lines)' = 0
      OBVIOUS
    <2> QED
      BY <2>1 DEF Upto
  <1> QED
    BY <1>1, <1>2

LEMMA OpenBlockKeeps ==
    ASSUME CellInv, OpenBlock
    PROVE  CellInv'
  <1>1. /\ ln_num < Len(lines) /\ ln_num' = ln_num + 1 /\ lines' = lines
        /\ ~in_block /\ Line[1] = "repeat"
        /\ executed' = IF current_lines # <<>> THEN Append(executed, current_lines) ELSE executed
        /\ current_lines' = <<>> /\ repetitions' = Line[2] /\ in_block' = TRUE
    BY DEF OpenBlock, NextLine
  <1> DEFINE n == Len(lines)
             m == Upto
             c == Len(current_lines)
             k == IF current_lines # <<>> THEN 1 ELSE 0
  <1>2. CellTypes /\ Gathering
    BY DEF CellInv
  <1>3. n \in Nat /\ ln_num \in Nat /\ m \in Nat /\ c \in Nat /\ ln_num < n /\ m + c = ln_num
    BY <1>1, <1>2, UptoType
  <1>4. Upto' = ln_num + 1 /\ ln_num' \in 0 .. Len(lines)'
    BY <1>1, <1>2, UptoHere
  <1>5. executed \in Seq(Seq(Nat)) /\ current_lines \in Seq(Nat)
    BY <1>2 DEF CellTypes
  <1>6. executed' = executed \o Times(k, current_lines)
    <2>1. CASE current_lines # <<>>
      BY <1>1, <1>5, <2>1, AppendIsOnce
    <2>2. CASE current_lines = <<>>
      BY <1>1, <1>5, <2>2, NoTimes
    <2> QED
      BY <2>1, <2>2
  <1>7. /\ \A i \in m + 1 .. ln_num + 1 : Openers(i) = {}
        /\ \A i \in m + 1 .. ln_num + 1 : Multiplicity(i) = IF lines[i][1] = "repeat" THEN 0 ELSE 1
        /\ \A i \in m + 1 .. ln_num : lines[i][1] # "repeat"
        /\ \A i \in m + 1 .. ln_num : Openers(i) \subseteq Openers(i + 1)
    BY <1>1, <1>2, OutsideBlock
  <1>8. \A q \in 1 .. c : current_lines[q] = m + q
    BY <1>1, <1>2 DEF Gathering
  <1>9. k \in Nat /\ (c > 0 => k = 1)
    <2>1. c > 0 => current_lines # <<>>
      OBVIOUS
    <2> QED
      BY <2>1
  <1>10. lines[ln_num + 1][1] = "repeat" /\ lines[ln_num + 1][2] = repetitions'
    BY <1>1 DEF Line
  <1> HIDE DEF k
  <1>11. IsNext(current_lines, k, ln_num + 1)
    <2> HIDE DEF n, m, c
    <2>1. ASSUME NEW i \in m + 1 .. ln_num + 1
          PROVE  Multiplicity(i) = IF i <= m + c THEN k ELSE 0
      <3>1. CASE i <= m + c
        <4>1. i \in m + 1 .. ln_num /\ c > 0
          BY <1>3, <2>1, <3>1
        <4> QED
          BY <1>7, <1>9, <2>1, <3>1, <4>1
      <3>2. CASE ~(i <= m + c)
        <4>1. i = ln_num + 1
          BY <1>3, <2>1, <3>2
        <4> QED
          BY <1>7, <1>10, <2>1, <3>2, <4>1
      <3> QED
        BY <3>1, <3>2
    <2>2. /\ ln_num + 1 \in Nat /\ ln_num + 1 <= n /\ m + c <= ln_num + 1
          /\ \A i \in m + 1 .. m + c - 1 : i \in m + 1 .. ln_num
      BY <1>3
    <2>3. \A i \in m + 1 .. m + c - 1 : Openers(i) \subseteq Openers(i + 1)
      BY <1>7, <2>2
    <2> QED
      BY <1>5, <1>8, <1>9, <2>1, <2>2, <2>3 DEF IsNext, m, n, c
  <1>12. executed' \in Seq(Seq(Nat)) /\ Counted' /\ Bounded' /\ PiecesAreRuns'
    BY <1>1, <1>4, <1>6, <1>11, PieceExecuted
  <1>13. CellTypes'
    <2>1. Line[2] \in Nat
      BY <1>1, <1>2, GatheredRun, LineType
    <2>2. current_lines' \in Seq(Nat)
      BY <1>1, EmptySeq
    <2> QED
      BY <1>1, <1>2, <1>4, <1>12, <2>1, <2>2 DEF CellTypes
  <1>14. Gathering'
    <2>1. Len(current_lines)' = 0
      BY <1>1
    <2>2. ln_num + 1 >= 1 /\ ln_num + 1 \in m + 1 .. ln_num + 1 /\ 0 <= ln_num + 1
      BY <1>3
    <2>3. \A i : i = ln_num + 1 => Openers(i)' = {}
      BY <1>1, <1>7, <2>2, SameMeaning
    <2>4. (ln_num + 1) + 1 .. ln_num + 1 = {} /\ 1 .. 0 = {}
      BY <1>3
    <2> HIDE DEF n, m, c
    <2> QED
      BY <1>1, <1>4, <1>10, <2>1, <2>2, <2>3, <2>4 DEF Gathering
  <1> QED
    BY <1>12, <1>13, <1>14 DEF CellInv

LEMMA CloseBlockKeeps ==
    ASSUME CellInv, CloseBlock
    PROVE  CellInv'
  <1> DEFINE n == Len(lines)
             m == Upto
             piece == IF Line[1] = "end" THEN current_lines ELSE Gathered
             l == Len(piece)
  <1>1. /\ ln_num < Len(lines) /\ ln_num' = ln_num + 1 /\ lines' = lines
        /\ in_block /\ (Line[1] = "end" \/ ln_num + 1 = n)
        /\ executed' = executed \o Times(repetitions, piece)
        /\ current_lines' = <<>> /\ repetitions' = repetitions /\ in_block' = FALSE
    BY DEF CloseBlock, NextLine, LastLine
  <1>2. CellTypes /\ Gathering
    BY DEF CellInv
  <1>3. /\ n \in Nat /\ ln_num \in Nat /\ m \in Nat /\ ln_num < n
        /\ Len(current_lines) \in Nat /\ m + Len(current_lines) = ln_num
    BY <1>1, <1>2, UptoType
  <1>4. Upto' = ln_num + 1 /\ ln_num' \in 0 .. Len(lines)'
    BY <1>1, <1>2, UptoHere
  <1>5. /\ current_lines \in Seq(Nat) /\ repetitions \in Nat
        /\ \A q \in 1 .. Len(current_lines) : current_lines[q] = m + q
    BY <1>1, <1>2 DEF CellTypes, Gathering
  <1>6. /\ Gathered \in Seq(Nat) /\ m + Len(Gathered) = ln_num + 1
        /\ Len(Gathered) = Len(current_lines) + 1
        /\ \A q \in 1 .. Len(Gathered) : Gathered[q] = m + q
    BY <1>1, <1>2, GatheredRun
  <1>7. /\ \A i \in m + 1 .. ln_num + 1 : Multiplicity(i) = IF lines[i][1] = "end" THEN 0 ELSE repetitions
        /\ \A i \in m + 1 .. ln_num : lines[i][1] # "end"
        /\ \A i \in m + 1 .. ln_num : Openers(i) \subseteq Openers(i + 1)
    BY <1>1, <1>2, InsideBlock
  <1>8. /\ piece \in Seq(Nat) /\ l \in Nat
        /\ m + l = IF lines[ln_num + 1][1] = "end" THEN ln_num ELSE ln_num + 1
        /\ \A q \in 1 .. l : piece[q] = m + q
    <2>1. CASE Line[1] = "end"
      BY <1>3, <1>5, <2>1 DEF Line
    <2>2. CASE Line[1] # "end"
      BY <1>3, <1>6, <2>2 DEF Line
    <2> QED
      BY <2>1, <2>2
  <1> HIDE DEF piece
  <1>9. IsNext(piece, repetitions, ln_num + 1)
    <2> HIDE DEF n, m, l
    <2>1. ASSUME NEW i \in m + 1 .. ln_num + 1
          PROVE  Multiplicity(i) = IF i <= m + l THEN repetitions ELSE 0
      <3>1. CASE i \in m + 1 .. ln_num
        <4>1. i <= m + l
          <5>1. ln_num <= m + l
            BY <1>3, <1>8
          <5> QED
            BY <1>3, <1>8, <3>1, <5>1
        <4> QED
          BY <1>7, <2>1, <3>1, <4>1
      <3>2. CASE i = ln_num + 1
        <4>1. i <= m + l <=> lines[i][1] # "end"
          BY <1>3, <1>8, <3>2
        <4> QED
          BY <1>7, <2>1, <4>1
      <3>3. i \in m + 1 .. ln_num \/ i = ln_num + 1
        BY <1>3, <2>1
      <3> QED
        BY <3>1, <3>2, <3>3
    <2>2. m + l <= ln_num + 1
      BY <1>3, <1>8
    <2>3. /\ ln_num + 1 \in Nat /\ ln_num + 1 <= n
          /\ \A i \in m + 1 .. m + l - 1 : i \in m + 1 .. ln_num
      BY <1>3, <1>8, <2>2
    <2>4. \A i \in m + 1 .. m + l - 1 : Openers(i) \subseteq Openers(i + 1)
      BY <1>7, <2>3
    <2> QED
      BY <1>5, <1>8, <2>1, <2>2, <2>3, <2>4 DEF IsNext, m, n, l
  <1>10. executed' \in Seq(Seq(Nat)) /\ Counted' /\ Bounded' /\ PiecesAreRuns'
    BY <1>1, <1>4, <1>9, PieceExecuted
  <1>11. CellTypes'
    <2>1. current_lines' \in Seq(Nat)
      BY <1>1, EmptySeq
    <2> QED
      BY <1>1, <1>2, <1>4, <1>10, <2>1 DEF CellTypes
  <1>12. Gathering'
    <2>1. SUFFICES ASSUME ln_num' < Len(lines)' PROVE Gathering'
      BY DEF Gathering
    <2>2. lines[ln_num + 1][1] = "end"
      BY <1>1, <1>3, <2>1 DEF Line
    <2>3. Openers((ln_num + 1) + 1) = {}
      <3>1. ln_num + 1 \in Nat \ {0}
        BY <1>3
      <3> QED
        BY <2>2, <3>1, OpenersNext
    <2>4. \A i : i = (ln_num + 1) + 1 => Openers(i)' = {}
      BY <1>1, <2>3, SameMeaning
    <2>5. Len(current_lines)' = 0
      BY <1>1
    <2>6. /\ (ln_num + 1) + 1 .. ln_num + 1 = {} /\ 1 .. 0 = {} /\ 0 <= ln_num + 1
          /\ \A i \in (ln_num + 1) + 1 .. (ln_num + 1) + 1 : i = (ln_num + 1) + 1
      BY <1>3
    <2> HIDE DEF n, m, l
    <2> QED
      BY <1>1, <1>4, <2>4, <2>5, <2>6 DEF Gathering
  <1> QED
    BY <1>10, <1>11, <1>12 DEF CellInv

---------------------------------------------------------------------------
(***************************************************************************)
(* The theorems.                                                           *)
(***************************************************************************)
\* The inductive invariant of do_execute's loop over the lines of a cell.
THEOREM CellInvariant == Spec => []CellInv
  <1>1. Init => CellInv
    <2> SUFFICES ASSUME Init PROVE CellInv
      OBVIOUS
    <2>1. /\ ln_num = 0 /\ current_lines = <<>> /\ in_block = FALSE
          /\ repetitions = 0 /\ executed = <<>>
      BY DEF Init
    <2>2. lines \in Seq(Lines)
      <3>1. PICK n \in 0 .. MaxLines : lines \in [1 .. n -> Lines]
        BY DEF Init
      <3>2. n \in Nat
        BY <3>1, KernelCellAssumption
      <3> QED
        BY <3>1, <3>2, SeqDef
    <2>3. Len(lines) \in Nat /\ Len(current_lines) = 0 /\ Len(executed) = 0
      BY <2>1, <2>2, LenProperties
    <2>4. Upto = 0
      <3>1. CASE 0 < Len(lines)
        <4>1. Upto = 0 - 0
          BY <2>1, <2>3, <3>1 DEF Upto
        <4> QED
          BY <4>1
      <3>2. CASE Len(lines) = 0
        BY <2>1, <2>3, <3>2 DEF Upto
      <3> QED
        BY <2>3, <3>1, <3>2
    <2>5. CellTypes
      <3>1. <<>> \in Seq(Nat) /\ <<>> \in Seq(Seq(Nat))
        BY EmptySeq
      <3>2. 0 \in 0 .. Len(lines)
        BY <2>3
      <3> QED
        BY <2>1, <2>2, <3>1, <3>2 DEF CellTypes
    <2>6. Gathering
      <3>1. Openers(1) = {}
        BY DEF Openers
      <3>2. (0 + 1) .. 0 = {} /\ 1 .. 0 = {} /\ \A i \in 0 + 1 .. 0 + 1 : i = 1
        OBVIOUS
      <3> QED
        BY <2>1, <2>3, <2>4, <3>1, <3>2 DEF Gathering
    <2>7. Counted
      <3>1. \A i : With(executed, i) = {}
        BY <2>3 DEF With
      <3>2. \A i \in 1 .. Len(lines) : ~(i <= Upto)
        BY <2>3, <2>4
      <3> QED
        BY <3>1, <3>2, FS_EmptySet DEF Counted
    <2>8. Bounded /\ PiecesAreRuns
      BY <2>3 DEF Bounded, PiecesAreRuns
    <2> QED
      BY <2>5, <2>6, <2>7, <2>8 DEF CellInv
  <1>2. CellInv /\ [Next]_vars => CellInv'
    <2> SUFFICES ASSUME CellInv, [Next]_vars PROVE CellInv'
      OBVIOUS
    <2>1. CASE OutsideCode
      BY <2>1, OutsideCodeKeeps
    <2>2. CASE OpenBlock
      BY <2>2, OpenBlockKeeps
    <2>3. CASE InsideCode
      BY <2>3, InsideCodeKeeps
    <2>4. CASE CloseBlock
      BY <2>4, CloseBlockKeeps
    <2>5. CASE UNCHANGED vars
      <3>1. /\ lines' = lines /\ ln_num' = ln_num /\ current_lines' = current_lines
            /\ in_block' = in_block /\ repetitions' = repetitions /\ executed' = executed
        BY <2>5 DEF vars
      <3>2. Upto' = Upto
        BY <3>1 DEF Upto
      <3>3. CellTypes' /\ Gathering'
        <4>1. \A i : Openers(i)' = Openers(i)
          BY <3>1, SameMeaning
        <4> QED
          BY <3>1, <3>2, <4>1 DEF CellInv, CellTypes, Gathering
      <3>4. Counted' /\ Bounded' /\ PiecesAreRuns'
        BY <3>1, <3>2, NothingExecuted DEF CellInv
      <3> QED
        BY <3>3, <3>4 DEF CellInv
    <2> QED
      BY <2>1, <2>2, <2>3, <2>4, <2>5 DEF Next, Done
  <1> QED
    BY <1>1, <1>2, PTL DEF Spec

\* When do_execute is over, every line of the cell has been executed as often as the
\* markers around it say, whatever the cell: nothing is dropped, repeated or left over.
THEOREM EachLineExecuted == Spec => []EveryLineExecuted
  <1>1. CellInv => EveryLineExecuted
    <2> SUFFICES ASSUME CellInv, ln_num = Len(lines), NEW i \in 1 .. Len(lines)
                 PROVE  Cardinality(With(executed, i)) = Multiplicity(i)
      BY DEF EveryLineExecuted, With
    <2>1. Len(lines) \in Nat
      BY UptoType DEF CellInv
    <2>2. Upto = Len(lines)
      BY <2>1 DEF Upto
    <2>3. i <= Upto
      BY <2>1, <2>2
    <2> QED
      BY <2>3 DEF CellInv, Counted
  <1> QED
    BY <1>1, CellInvariant, PTL

\* The pieces do_execute sends to the device are runs of the cell, each within one
\* block or outside all of them, and they are sent in the order of the cell.
THEOREM PiecesInOrder == Spec => []PiecesAreRuns
  <1>1. CellInv => PiecesAreRuns
    BY DEF CellInv
  <1> QED
    BY <1>1, CellInvariant, PTL
=============================================================================
