------------------------- MODULE MultikernelProofs -------------------------
(***************************************************************************)
(* Theorems about the Jupyter kernel over many interpreters, for every     *)
(* number of tiles, yields, texts and results shown: types, how often a    *)
(* piece is executed, and that the text and the picture sent to the        *)
(* notebook are those of the piece just executed.                          *)
(***************************************************************************)
EXTENDS Multikernel, TLAPS, FiniteSetTheorems, SequenceTheorems

-----------------------------------------------------------------------------
(***************************************************************************)
(* The inductive invariant.                                                *)
(***************************************************************************)
ResultType == [count : 1 .. NUMREPLS, data : Texts, runs : SUBSET {0, 1}]

KernelTypes ==
    /\ TypeOK
    /\ resultQueue \in Seq(ResultType)
    /\ results \in Seq(ResultType)

\* Tile t has started the piece in this run of the device's program.
Begun(t) == pc \in {"rt", "copy"} \/ (pc = "first" /\ t \in ran)

\* The pixel of tile t at the end of its latest execution.
Made(t) == IF work[t].pixel THEN run ELSE Off

\* coroutineFlag and the checkpoint agree, except for what Any writes to tile 0.
Flags ==
    \A t \in Tiles :
        /\ checkpoint_is_live[t] => coroutineFlag[t]
        /\ coroutineFlag[t] =>
            \/ checkpoint_is_live[t]
            \/ pc = "init" /\ t \notin ran
            \/ pc = "rt" /\ t = 0 /\ t \notin ran /\ ~Alike
        /\ checkpoint_is_live[t] => pc \in {"first", "rt"} /\ Begun(t)

\* A tile but tile 0 has completed the piece unless it is suspended in it.
Executions ==
    \A t \in Tiles :
        /\ pc = "first" /\ ~Begun(t) => executions[t] = 0
        /\ Begun(t) /\ (t # 0 \/ Alike) =>
               executions[t] = IF checkpoint_is_live[t] THEN 0 ELSE 1

\* The latest execution of a tile but tile 0 is its first.
OnlyExecution ==
    \A t \in Tiles :
        /\ Begun(t) \/ (success = 1 /\ pc \in {"drain", "overflow", "display"})
        /\ t # 0 \/ Alike
        => work[t] = piece[t]

\* Passes of the device's program in which tile t has worked on the piece.
Passes(t) ==
    IF checkpoint_is_live[t] THEN step[t] ELSE IF Begun(t) THEN work[t].yields + 1 ELSE 0

\* The passes before this one.
PassesBefore(t) == IF t \in ran THEN Passes(t) - 1 ELSE Passes(t)

\* Tiles that yield equally often go through the piece together.
Together ==
    /\ \A t \in Tiles : checkpoint_is_live[t] => step[t] \in 1 .. work[t].yields
    /\ pc \in {"first", "rt"} /\ Alike => \A t, u \in Tiles : PassesBefore(t) = PassesBefore(u)
    /\ pc = "rt" /\ Alike => \A t \in Tiles : t \in ran \/ checkpoint_is_live[t]

\* What a tile that has started the piece has made of it so far.
Products ==
    \A t \in Tiles : Begun(t) =>
        /\ displayBuf[t] = IF checkpoint_is_live[t] THEN Off ELSE Made(t)
        /\ Alike /\ ~checkpoint_is_live[t] =>
               printBuf[t] = [run |-> run, text |-> piece[t].text]

\* The picture on its way to the notebook.
Picture ==
    /\ pc \in {"first", "rt", "copy"} => success = 1
    /\ pc = "init" => success = 0
    /\ pc \in {"drain", "overflow", "display"} /\ success = 1 =>
           \A t \in Tiles : displayBuf_h[t] = Made(t)

\* An entry of the report that counts the tiles that made this text in this run.
IsTrue(r) ==
    /\ r.count = Cardinality({t \in Tiles : piece[t].text = r.data})
    /\ r.runs = {run}

Data(queue) == {queue[i].data : i \in DOMAIN queue}

Ascending(queue) == \A i, j \in DOMAIN queue : i < j => queue[i].data < queue[j].data

\* The text on its way to the notebook: what has been fetched and what is left in
\* the queue account for every text but the empty one, which comes first.
Report ==
    /\ pc = "init" => resultQueue = <<>> /\ \A t \in Tiles : printBuf[t].text = 0
    /\ pc \in {"init", "first", "rt", "copy"} => results = <<>> /\ hidden = 0
    /\ pc = "idle" => \A i \in DOMAIN resultQueue : resultQueue[i].data = 0
    /\ pc = "display" => resultQueue = <<>>
    /\ pc = "drain" => Len(results) < MaxResults /\ hidden = 0
    /\ pc = "overflow" => Len(results) = MaxResults
    /\ pc \in {"idle", "drain", "overflow"} => Ascending(resultQueue)
    /\ pc \in {"drain", "overflow"} /\ results # <<>> =>
           \A i \in DOMAIN resultQueue : resultQueue[i].data > 0
    /\ pc \in {"drain", "overflow", "display"} /\ Alike =>
           /\ \A i \in DOMAIN resultQueue : resultQueue[i].data = 0 \/ IsTrue(resultQueue[i])
           /\ \A i \in DOMAIN results : IsTrue(results[i])
           /\ Len(results) + hidden + Cardinality(Data(resultQueue) \ {0})
                  = Cardinality(Nonempty)

KernelInv ==
    /\ KernelTypes /\ Flags /\ Executions /\ OnlyExecution /\ Together /\ Products
    /\ Picture /\ Report
    /\ ExecutedOnce /\ PictureIsOfThisRun

-----------------------------------------------------------------------------
(***************************************************************************)
(* Putting a finite set of numbers in order.                               *)
(***************************************************************************)
\* A set of numbers that is not empty has a least element.
LEMMA LeastExists ==
    ASSUME NEW T, T \subseteq Nat, T # {}
    PROVE  \E x \in T : \A y \in T : x <= y
  <1>1. PICK x \in T : \A y \in T : ~(<<y, x>> \in OpToRel(<, Nat))
    BY WFMin, NatLessThanWellFounded
  <1>2. \A y \in T : ~(y < x)
    BY <1>1 DEF OpToRel
  <1> QED
    BY <1>2

\* q lists the elements of T in ascending order.
Lists(q, T) ==
    /\ q \in [1 .. Cardinality(T) -> T]
    /\ \A i, j \in 1 .. Cardinality(T) : i < j => q[i] < q[j]

\* A listing of a set without its least element becomes one of the whole set.
LEMMA OneMore ==
    ASSUME NEW T, T \subseteq Nat, IsFiniteSet(T), NEW m \in T, \A y \in T : m <= y,
           NEW p, Lists(p, T \ {m})
    PROVE  \E q : Lists(q, T)
  <1> DEFINE n == Cardinality(T)
             q == [i \in 1 .. n |-> IF i = 1 THEN m ELSE p[i - 1]]
  <1>1. n \in Nat
    BY FS_CardinalityType
  <1>2. Cardinality(T \ {m}) = n - 1
    BY FS_RemoveElement
  <1> HIDE DEF n
  <1>3. p \in [1 .. n - 1 -> T \ {m}]
    BY <1>2 DEF Lists
  <1>4. \A i \in 2 .. n : i - 1 \in 1 .. n - 1
    BY <1>1
  <1>5. \A i \in 2 .. n : q[i] = p[i - 1] /\ p[i - 1] \in T \ {m}
    BY <1>1, <1>3, <1>4
  <1>6. \A i \in 1 .. n : i = 1 \/ i \in 2 .. n
    BY <1>1
  <1>7. \A i \in 1 .. n : q[i] \in T /\ (i = 1 => q[i] = m)
    BY <1>5, <1>6
  <1>8. q \in [1 .. n -> T]
    BY <1>7
  <1> HIDE DEF q
  <1>9. ASSUME NEW i \in 1 .. n, NEW j \in 1 .. n, i < j PROVE q[i] < q[j]
    <2>1. j \in 2 .. n
      BY <1>1, <1>9
    <2>2. q[j] = p[j - 1] /\ q[j] \in T \ {m} /\ q[j] \in Nat /\ m \in Nat
      BY <1>5, <2>1
    <2>3. CASE i = 1
      <3>1. m <= q[j] /\ m # q[j] /\ q[i] = m
        BY <1>7, <2>2, <2>3
      <3> QED
        BY <2>2, <3>1
    <2>4. CASE i # 1
      <3>1. i \in 2 .. n /\ q[i] = p[i - 1]
        BY <1>5, <1>6, <2>4
      <3>2. i - 1 \in 1 .. n - 1 /\ j - 1 \in 1 .. n - 1 /\ i - 1 < j - 1
        BY <1>1, <1>4, <1>9, <2>1, <3>1
      <3>3. p[i - 1] < p[j - 1]
        BY <1>2, <3>2 DEF Lists
      <3> QED
        BY <2>2, <3>1, <3>3
    <2> QED
      BY <2>3, <2>4
  <1>10. Lists(q, T)
    BY <1>8, <1>9 DEF Lists, n
  <1> QED
    BY <1>10

\* Every finite set of numbers can be listed: a smallest one that could not would
\* become a smaller one by losing its least element.
LEMMA ListExists ==
    ASSUME NEW S, S \subseteq Nat, IsFiniteSet(S)
    PROVE  \E q : Lists(q, S)
  <1> DEFINE Bad == {T \in SUBSET Nat : IsFiniteSet(T) /\ ~\E q : Lists(q, T)}
             Sizes == {Cardinality(T) : T \in Bad}
  <1> SUFFICES ASSUME S \in Bad PROVE FALSE
    OBVIOUS
  <1>1. Sizes \subseteq Nat /\ Cardinality(S) \in Sizes
    BY FS_CardinalityType
  <1>2. PICK n \in Sizes : \A k \in Sizes : n <= k
    <2> HIDE DEF Sizes
    <2> QED
      BY <1>1, LeastExists
  <1>3. PICK T \in Bad : n = Cardinality(T)
    BY <1>2
  <1>4. T \subseteq Nat /\ IsFiniteSet(T) /\ ~\E q : Lists(q, T)
    BY <1>3
  <1> HIDE DEF Bad
  <1>5. CASE T = {}
    <2>1. Cardinality(T) = 0
      BY <1>5, FS_EmptySet
    <2>2. Lists([i \in 1 .. 0 |-> 0], T)
      BY <2>1 DEF Lists
    <2> QED
      BY <1>4, <2>2
  <1>6. CASE T # {}
    <2>1. PICK m \in T : \A y \in T : m <= y
      BY <1>4, <1>6, LeastExists
    <2>2. IsFiniteSet(T \ {m}) /\ Cardinality(T \ {m}) = n - 1
      BY <1>3, <1>4, FS_RemoveElement
    <2>3. n \in Nat
      BY <1>1, <1>2
    <2>4. T \ {m} \notin Bad
      <3>1. T \ {m} \in Bad => Cardinality(T \ {m}) \in Sizes
        OBVIOUS
      <3> HIDE DEF Sizes
      <3> QED
        BY <1>2, <2>2, <2>3, <3>1
    <2>5. \E p : Lists(p, T \ {m})
      BY <1>4, <2>2, <2>4 DEF Bad
    <2> QED
      BY <1>4, <2>1, <2>5, OneMore
  <1> QED
    BY <1>5, <1>6

\* The order of std::map: every key once, in ascending order.
LEMMA InOrderLists ==
    ASSUME NEW T, T \subseteq Nat, IsFiniteSet(T)
    PROVE  /\ Lists(InOrder(T), T)
           /\ \A x \in T : \E i \in 1 .. Cardinality(T) : InOrder(T)[i] = x
  <1>1. \E q \in [1 .. Cardinality(T) -> T] :
            \A i, j \in 1 .. Cardinality(T) : i < j => q[i] < q[j]
    BY ListExists, Zenon DEF Lists
  <1>2. Lists(InOrder(T), T)
    BY <1>1, Zenon DEF Lists, InOrder
  <1> DEFINE q == InOrder(T)
             n == Cardinality(T)
  <1>3. n \in Nat
    BY FS_CardinalityType
  <1>4. q \in [1 .. n -> T] /\ \A i, j \in 1 .. n : i < j => q[i] < q[j]
    BY <1>2 DEF Lists
  <1>5. IsFiniteSet(1 .. n) /\ Cardinality(1 .. n) = n
    BY <1>3, FS_Interval
  <1> HIDE DEF q
  <1>6. \A i, j \in 1 .. n : q[i] = q[j] => i = j
    <2> SUFFICES ASSUME NEW i \in 1 .. n, NEW j \in 1 .. n, q[i] = q[j], i # j PROVE FALSE
      OBVIOUS
    <2>1. q[i] \in Nat /\ q[j] \in Nat
      BY <1>4
    <2>2. i < j \/ j < i
      BY <1>3
    <2> QED
      BY <1>4, <2>1, <2>2
  <1>7. q \in Injection(1 .. n, T)
    BY <1>4, <1>6, Zenon DEF Injection, IsInjective
  <1>8. q \in Surjection(1 .. n, T)
    BY <1>5, <1>7, FS_Injection
  <1>9. \A x \in T : \E i \in 1 .. n : q[i] = x
    BY <1>8 DEF Surjection
  <1> QED
    BY <1>2, <1>9 DEF q

-----------------------------------------------------------------------------
(***************************************************************************)
(* What the callback makes of the print buffers.                           *)
(***************************************************************************)
Printed == {printBuf[t].text : t \in Tiles}
PrintedBy(x) == {t \in Tiles : printBuf[t].text = x}

LEMMA TilesFinite ==
    /\ IsFiniteSet(Tiles) /\ Cardinality(Tiles) = NUMREPLS /\ 0 \in Tiles
    /\ \A S \in SUBSET Tiles : IsFiniteSet(S) /\ Cardinality(S) \in 0 .. NUMREPLS
    /\ \A S \in SUBSET Tiles : S # {} => Cardinality(S) \in 1 .. NUMREPLS
  <1>1. IsFiniteSet(Tiles) /\ Cardinality(Tiles) = NUMREPLS /\ 0 \in Tiles
    BY MultikernelAssumption, FS_Interval DEF Tiles
  <1>2. ASSUME NEW S \in SUBSET Tiles
        PROVE  /\ IsFiniteSet(S) /\ Cardinality(S) \in 0 .. NUMREPLS
               /\ S # {} => Cardinality(S) \in 1 .. NUMREPLS
    <2>1. IsFiniteSet(S) /\ Cardinality(S) <= Cardinality(Tiles)
      BY <1>1, FS_Subset
    <2>2. Cardinality(S) \in Nat /\ (Cardinality(S) = 0 <=> S = {})
      BY <2>1, FS_CardinalityType, FS_EmptySet
    <2> QED
      BY <1>1, <2>1, <2>2, MultikernelAssumption
  <1> QED
    BY <1>1, <1>2

LEMMA DeduplicatedIsReport ==
    ASSUME printBuf \in [Tiles -> [run : {0, 1}, text : Texts]]
    PROVE  /\ Deduplicated \in Seq(ResultType)
           /\ Ascending(Deduplicated)
           /\ Data(Deduplicated) = Printed
           /\ \A i \in DOMAIN Deduplicated :
                  /\ Deduplicated[i].count = Cardinality(PrintedBy(Deduplicated[i].data))
                  /\ Deduplicated[i].runs =
                         {printBuf[t].run : t \in PrintedBy(Deduplicated[i].data)}
                  /\ PrintedBy(Deduplicated[i].data) # {}
  <1> DEFINE n == Cardinality(Printed)
             q == InOrder(Printed)
             Entry(x) == [count |-> Cardinality(PrintedBy(x)), data |-> x,
                          runs |-> {printBuf[t].run : t \in PrintedBy(x)}]
  <1>1. Printed \subseteq Texts /\ Texts \subseteq Nat
    BY MultikernelAssumption DEF Printed, Texts
  <1>2. IsFiniteSet(Printed)
    <2>1. IsFiniteSet(Texts)
      BY MultikernelAssumption, FS_Interval DEF Texts
    <2> QED
      BY <1>1, <2>1, FS_Subset
  <1>3. n \in Nat
    BY <1>2, FS_CardinalityType
  <1>4. Lists(q, Printed) /\ \A x \in Printed : \E i \in 1 .. n : q[i] = x
    BY <1>1, <1>2, InOrderLists
  <1>5. Deduplicated = [i \in 1 .. n |-> Entry(q[i])]
    BY DEF Deduplicated, Printed, PrintedBy
  <1>6. \A i \in 1 .. n : q[i] \in Printed
    BY <1>4 DEF Lists
  <1>7. ASSUME NEW x \in Printed PROVE PrintedBy(x) # {} /\ Entry(x) \in ResultType
    <2>1. PICK t \in Tiles : printBuf[t].text = x
      BY DEF Printed
    <2>2. PrintedBy(x) # {} /\ PrintedBy(x) \in SUBSET Tiles
      BY <2>1 DEF PrintedBy
    <2>3. Cardinality(PrintedBy(x)) \in 1 .. NUMREPLS
      BY <2>2, TilesFinite
    <2>4. \A u \in PrintedBy(x) : printBuf[u].run \in {0, 1}
      BY DEF PrintedBy
    <2>5. {printBuf[u].run : u \in PrintedBy(x)} \in SUBSET {0, 1}
      BY <2>4
    <2>6. x \in Texts
      BY <1>1
    <2> QED
      BY <2>2, <2>3, <2>5, <2>6 DEF ResultType
  <1> HIDE DEF n, q
  <1>8. DOMAIN Deduplicated = 1 .. n /\ \A i \in 1 .. n : Deduplicated[i] = Entry(q[i])
    BY <1>5
  <1>9. \A i \in 1 .. n : Deduplicated[i] \in ResultType
    BY <1>6, <1>7, <1>8
  <1>10. Deduplicated \in Seq(ResultType)
    <2>1. Deduplicated \in [1 .. n -> ResultType]
      BY <1>5, <1>6, <1>7
    <2> QED
      BY <1>3, <2>1, SeqDef
  <1>11. \A i \in 1 .. n : Deduplicated[i].data = q[i]
    BY <1>8
  <1>12. Ascending(Deduplicated)
    BY <1>4, <1>8, <1>11 DEF Ascending, Lists, n
  <1>13. Data(Deduplicated) = Printed
    BY <1>4, <1>6, <1>8, <1>11 DEF Data
  <1>14. \A i \in 1 .. n :
            /\ Deduplicated[i].count = Cardinality(PrintedBy(q[i]))
            /\ Deduplicated[i].runs = {printBuf[t].run : t \in PrintedBy(q[i])}
            /\ PrintedBy(q[i]) # {}
    BY <1>6, <1>7, <1>8
  <1> QED
    BY <1>8, <1>10, <1>11, <1>12, <1>13, <1>14

-----------------------------------------------------------------------------
LEMMA InitEstablishes == Init => KernelInv
  <1> SUFFICES ASSUME Init PROVE KernelInv
    OBVIOUS
  <1> USE MultikernelAssumption
  <1>1. TypeOK
    <2>1. /\ NoPiece \in [Tiles -> Work]
      BY DEF NoPiece, Work, Silent, Texts
    <2>2. printBuf \in [Tiles -> [run : {0, 1}, text : Texts]]
      BY DEF Init, Blank, Texts
    <2>3. Len(results) <= MaxResults /\ DOMAIN resultQueue = {}
      BY DEF Init
    <2> QED
      BY <2>1, <2>2, <2>3 DEF Init, TypeOK, Off, Variants
  <1>2. KernelTypes
    BY <1>1, EmptySeq DEF KernelTypes, Init
  <1>3. Flags /\ Executions /\ OnlyExecution /\ Together /\ Products /\ Picture
    BY DEF Init, Flags, Executions, OnlyExecution, Together, Products, Picture, Begun
  <1>4. Report
    BY DEF Init, Report, Blank
  <1>5. ExecutedOnce /\ PictureIsOfThisRun
    BY DEF Init, ExecutedOnce, PictureIsOfThisRun
  <1> QED
    BY <1>2, <1>3, <1>4, <1>5 DEF KernelInv

-----------------------------------------------------------------------------
(***************************************************************************)
(* The device.                                                             *)
(***************************************************************************)
\* What a step leaves alone: the host and the front end, and the piece.
Elsewhere == UNCHANGED <<pc, host, front, piece, run>>

LEMMA ElsewhereKeeps ==
    ASSUME KernelInv, Elsewhere
    PROVE  /\ Alike' <=> Alike
           /\ \A t : work'[t] = work[t] => Made(t)' = Made(t)
           /\ Nonempty' = Nonempty
  BY DEF Elsewhere, Alike, Made, Nonempty

LEMMA InitVertexPreserves ==
    ASSUME KernelInv, NEW t \in Tiles, InitVertex(t)
    PROVE  KernelInv'
  <1>1. /\ pc = "init" /\ t \notin ran /\ ran' = ran \cup {t} /\ Elsewhere
        /\ printBuf' = [printBuf EXCEPT ![t] = Blank(run)]
        /\ coroutineFlag' = [coroutineFlag EXCEPT ![t] = FALSE]
        /\ checkpoint_is_live' = checkpoint_is_live /\ exit_env' = exit_env
        /\ displayBuf' = displayBuf /\ work' = work /\ step' = step
        /\ executions' = executions
    BY DEF InitVertex, Runs, Elsewhere
  <1>2. /\ pc' = "init" /\ resultQueue' = resultQueue /\ displayBuf_h' = displayBuf_h
        /\ success' = success /\ first_display' = first_display /\ results' = results
        /\ hidden' = hidden /\ image' = image /\ piece' = piece /\ run' = run
    BY <1>1 DEF Elsewhere, host, front
  <1>3. Blank(run) \in [run : {0, 1}, text : Texts] /\ Blank(run).text = 0
    BY MultikernelAssumption DEF Blank, Texts, KernelInv, KernelTypes, TypeOK
  <1>4. KernelTypes'
    BY <1>1, <1>2, <1>3 DEF KernelInv, KernelTypes, TypeOK
  <1>5. /\ \A u \in Tiles : coroutineFlag'[u] => u # t /\ coroutineFlag[u]
        /\ \A u \in Tiles : printBuf'[u].text = 0
    <2>1. \A u \in Tiles : coroutineFlag'[u] => u # t /\ coroutineFlag[u]
      BY <1>1 DEF KernelInv, KernelTypes, TypeOK
    <2>2. \A u \in Tiles : printBuf'[u].text = 0
      BY <1>1, <1>3 DEF KernelInv, KernelTypes, TypeOK, Report
    <2> QED
      BY <2>1, <2>2
  <1>6. Flags'
    BY <1>1, <1>2, <1>5 DEF KernelInv, Flags, Begun
  <1>7. Executions' /\ OnlyExecution' /\ Together' /\ Products' /\ Picture' /\ Report'
    BY <1>1, <1>2, <1>5
    DEF KernelInv, Executions, OnlyExecution, Together, Products, Picture, Report, Begun
  <1>8. ExecutedOnce' /\ PictureIsOfThisRun'
    BY <1>1, <1>2 DEF KernelInv, ExecutedOnce, PictureIsOfThisRun, Alike
  <1> QED
    BY <1>4, <1>6, <1>7, <1>8 DEF KernelInv

(***************************************************************************)
(* A pass of RuntimeVertex on tile t has one of three outcomes: the        *)
(* interpreter is suspended, has come to the end of the piece, or had      *)
(* nothing to do.                                                          *)
(***************************************************************************)
\* Yields of the piece behind tile t.
Behind(t) == IF checkpoint_is_live[t] THEN step[t] ELSE 0

\* The vertex does not return at once.
Works(t) == pc = "first" \/ checkpoint_is_live[t] \/ coroutineFlag[t]

\* The execution it is in: the first one, the one resumed, or any other.
Takes(t) ==
    /\ Works(t)
    /\ pc = "first" => work'[t] = piece[t]
    /\ checkpoint_is_live[t] => work'[t] = work[t]

Suspended(t) ==
    /\ Takes(t) /\ Behind(t) < work'[t].yields
    /\ step'[t] = Behind(t) + 1 /\ checkpoint_is_live'[t] /\ coroutineFlag'[t]
    /\ executions'[t] = executions[t]
    /\ displayBuf'[t] = Off

Ended(t) ==
    /\ Takes(t) /\ Behind(t) = work'[t].yields
    /\ ~checkpoint_is_live'[t] /\ ~coroutineFlag'[t]
    /\ executions'[t] = IF executions[t] = 0 THEN 1 ELSE 2
    /\ printBuf'[t] = [run |-> run, text |-> work'[t].text]
    /\ displayBuf'[t] = Made(t)'

Slept(t) ==
    /\ pc = "rt" /\ ~checkpoint_is_live[t] /\ ~coroutineFlag[t]
    /\ ~checkpoint_is_live'[t] /\ ~coroutineFlag'[t]
    /\ executions'[t] = executions[t] /\ displayBuf'[t] = displayBuf[t]
    /\ work'[t] = work[t]

\* The other tiles are not touched.
Others(t) ==
    \A u \in Tiles \ {t} :
        /\ work'[u] = work[u] /\ step'[u] = step[u] /\ executions'[u] = executions[u]
        /\ (checkpoint_is_live'[u] <=> checkpoint_is_live[u])
        /\ (coroutineFlag'[u] <=> coroutineFlag[u])
        /\ printBuf'[u] = printBuf[u] /\ displayBuf'[u] = displayBuf[u]

Pass(t) ==
    /\ pc \in {"first", "rt"} /\ t \notin ran /\ ran' = ran \cup {t} /\ Elsewhere
    /\ Others(t)
    /\ Suspended(t) \/ Ended(t) \/ Slept(t)

LEMMA PieceTypes ==
    ASSUME KernelInv, NEW t \in Tiles
    PROVE  /\ piece[t] \in Work /\ work[t] \in Work
           /\ step[t] \in 0 .. MaxYields /\ run \in {0, 1}
           /\ Behind(t) \in 0 .. MaxYields
           /\ Blank(run) \in [run : {0, 1}, text : Texts]
  <1>1. piece[t] \in Work /\ work[t] \in Work /\ step[t] \in 0 .. MaxYields /\ run \in {0, 1}
    BY DEF KernelInv, KernelTypes, TypeOK
  <1> QED
    BY <1>1, MultikernelAssumption DEF Behind, Blank, Texts

LEMMA WorkTypes ==
    ASSUME NEW w \in Work, NEW r \in {0, 1}
    PROVE  /\ w.yields \in 0 .. MaxYields /\ w.yields \in Nat
           /\ w.text \in Texts /\ w.pixel \in BOOLEAN
           /\ [run |-> r, text |-> w.text] \in [run : {0, 1}, text : Texts]
           /\ (IF w.pixel THEN r ELSE Off) \in {0, 1, Off}
  <1>1. w.yields \in 0 .. MaxYields /\ w.text \in Texts /\ w.pixel \in BOOLEAN
    BY DEF Work
  <1> QED
    BY <1>1, MultikernelAssumption DEF Texts

\* The execution the tile at work is in, taken up or begun.
LEMMA WorkTaken ==
    ASSUME KernelInv, NEW t \in Tiles, NEW w \in Work, Works(t),
           pc = "first" => w = piece[t] /\ ~checkpoint_is_live[t],
           \/ work' = work /\ w = work[t]
           \/ work' = [work EXCEPT ![t] = w] /\ ~checkpoint_is_live[t]
    PROVE  /\ work' \in [Tiles -> Work] /\ work'[t] = w /\ Takes(t)
           /\ \A u \in Tiles \ {t} : work'[u] = work[u]
  <1>1. work \in [Tiles -> Work]
    BY DEF KernelInv, KernelTypes, TypeOK
  <1>2. /\ work' \in [Tiles -> Work] /\ work'[t] = w
        /\ \A u \in Tiles \ {t} : work'[u] = work[u]
    BY <1>1
  <1> QED
    BY <1>2 DEF Takes

\* The tile at work is entered or resumed, and yields.
LEMMA YieldIsPass ==
    ASSUME KernelInv, NEW t \in Tiles, NEW v \in Variants, NEW w \in Work, NEW n, NEW env,
           Runs(v, t), n = Behind(t), LongYield(t, w, n, env), Works(t),
           pc = "first" => w = piece[t] /\ ~checkpoint_is_live[t],
           \/ work' = work /\ w = work[t]
           \/ work' = [work EXCEPT ![t] = w] /\ ~checkpoint_is_live[t],
           env = "first" \/ coroutineFlag[t],
           exit_env' \in [Tiles -> Variants],
           displayBuf' = displayBuf \/ displayBuf' = [displayBuf EXCEPT ![t] = Off],
           displayBuf'[t] = Off,
           printBuf' = printBuf \/ printBuf' = [printBuf EXCEPT ![t] = Blank(run)]
    PROVE  Pass(t) /\ KernelTypes'
  <1>1. /\ pc = v /\ t \notin ran /\ ran' = ran \cup {t} /\ Elsewhere
        /\ n < w.yields
        /\ step' = [step EXCEPT ![t] = n + 1]
        /\ checkpoint_is_live' = [checkpoint_is_live EXCEPT ![t] = TRUE]
        /\ coroutineFlag' = [coroutineFlag EXCEPT ![t] = @ \/ env = "first"]
        /\ executions' = executions
    BY DEF Runs, LongYield, Elsewhere
  <1>2. /\ pc' = pc /\ resultQueue' = resultQueue /\ displayBuf_h' = displayBuf_h
        /\ success' = success /\ first_display' = first_display /\ results' = results
        /\ hidden' = hidden /\ image' = image /\ piece' = piece /\ run' = run
    BY <1>1 DEF Elsewhere, host, front
  <1>3. n + 1 \in 0 .. MaxYields
    <2>1. w.yields \in 0 .. MaxYields /\ n \in 0 .. MaxYields
      BY PieceTypes, WorkTypes
    <2> QED
      BY <1>1, <2>1, MultikernelAssumption
  <1>4. /\ coroutineFlag' \in [Tiles -> BOOLEAN] /\ coroutineFlag'[t]
        /\ \A u \in Tiles \ {t} : coroutineFlag'[u] <=> coroutineFlag[u]
    BY <1>1 DEF KernelInv, KernelTypes, TypeOK
  <1>5. /\ checkpoint_is_live' \in [Tiles -> BOOLEAN] /\ checkpoint_is_live'[t]
        /\ \A u \in Tiles \ {t} : checkpoint_is_live'[u] <=> checkpoint_is_live[u]
    BY <1>1 DEF KernelInv, KernelTypes, TypeOK
  <1>6. /\ step' \in [Tiles -> 0 .. MaxYields] /\ step'[t] = n + 1
        /\ \A u \in Tiles \ {t} : step'[u] = step[u]
    BY <1>1, <1>3 DEF KernelInv, KernelTypes, TypeOK
  <1>7. /\ displayBuf' \in [Tiles -> {0, 1, Off}]
        /\ \A u \in Tiles \ {t} : displayBuf'[u] = displayBuf[u]
    BY DEF KernelInv, KernelTypes, TypeOK
  <1>8. /\ printBuf' \in [Tiles -> [run : {0, 1}, text : Texts]]
        /\ \A u \in Tiles \ {t} : printBuf'[u] = printBuf[u]
    <2> DEFINE P == [run : {0, 1}, text : Texts]
    <2>1. Blank(run) \in P /\ printBuf \in [Tiles -> P]
      BY PieceTypes DEF KernelInv, KernelTypes, TypeOK
    <2>2. printBuf' = printBuf \/ printBuf' = [printBuf EXCEPT ![t] = Blank(run)]
      OBVIOUS
    <2> HIDE DEF P
    <2>3. /\ printBuf' \in [Tiles -> P]
          /\ \A u \in Tiles \ {t} : printBuf'[u] = printBuf[u]
      BY ONLY <2>1, <2>2, t \in Tiles
    <2> QED
      BY <2>3 DEF P
  <1>9. /\ work' \in [Tiles -> Work] /\ work'[t] = w /\ Takes(t)
        /\ \A u \in Tiles \ {t} : work'[u] = work[u]
    BY WorkTaken
  <1>10. KernelTypes'
    BY <1>1, <1>2, <1>4, <1>5, <1>6, <1>7, <1>8, <1>9 DEF KernelInv, KernelTypes, TypeOK
  <1>11. Suspended(t)
    BY <1>1, <1>4, <1>5, <1>6, <1>9 DEF Suspended
  <1>12. Others(t)
    BY <1>1, <1>4, <1>5, <1>6, <1>7, <1>8, <1>9 DEF Others
  <1> QED
    BY <1>1, <1>10, <1>11, <1>12 DEF Pass, Variants

\* ... and comes to the end.
LEMMA CompletionIsPass ==
    ASSUME KernelInv, NEW t \in Tiles, NEW v \in Variants, NEW w \in Work, NEW n,
           Runs(v, t), n = Behind(t), Completes(t, w, n), Works(t),
           pc = "first" => w = piece[t] /\ ~checkpoint_is_live[t],
           \/ work' = work /\ w = work[t]
           \/ work' = [work EXCEPT ![t] = w] /\ ~checkpoint_is_live[t],
           exit_env' \in [Tiles -> Variants],
           displayBuf' = [displayBuf EXCEPT ![t] = IF w.pixel THEN run ELSE Off]
    PROVE  Pass(t) /\ KernelTypes'
  <1>1. /\ pc = v /\ t \notin ran /\ ran' = ran \cup {t} /\ Elsewhere
        /\ n = w.yields
        /\ printBuf' = [printBuf EXCEPT ![t] = [run |-> run, text |-> w.text]]
        /\ executions' = [executions EXCEPT ![t] = IF @ = 0 THEN 1 ELSE 2]
        /\ checkpoint_is_live' = [checkpoint_is_live EXCEPT ![t] = FALSE]
        /\ coroutineFlag' = [coroutineFlag EXCEPT ![t] = FALSE]
        /\ step' = step
    BY DEF Runs, Completes, Elsewhere
  <1>2. /\ pc' = pc /\ resultQueue' = resultQueue /\ displayBuf_h' = displayBuf_h
        /\ success' = success /\ first_display' = first_display /\ results' = results
        /\ hidden' = hidden /\ image' = image /\ piece' = piece /\ run' = run
    BY <1>1 DEF Elsewhere, host, front
  <1>3. /\ coroutineFlag' \in [Tiles -> BOOLEAN] /\ ~coroutineFlag'[t]
        /\ \A u \in Tiles \ {t} : coroutineFlag'[u] <=> coroutineFlag[u]
    BY <1>1 DEF KernelInv, KernelTypes, TypeOK
  <1>4. /\ checkpoint_is_live' \in [Tiles -> BOOLEAN] /\ ~checkpoint_is_live'[t]
        /\ \A u \in Tiles \ {t} : checkpoint_is_live'[u] <=> checkpoint_is_live[u]
    BY <1>1 DEF KernelInv, KernelTypes, TypeOK
  <1>5. /\ executions' \in [Tiles -> 0 .. 2]
        /\ executions'[t] = IF executions[t] = 0 THEN 1 ELSE 2
        /\ \A u \in Tiles \ {t} : executions'[u] = executions[u]
    BY <1>1 DEF KernelInv, KernelTypes, TypeOK
  <1>6. /\ work' \in [Tiles -> Work] /\ work'[t] = w /\ Takes(t)
        /\ \A u \in Tiles \ {t} : work'[u] = work[u]
    BY WorkTaken
  <1>7. /\ displayBuf' \in [Tiles -> {0, 1, Off}] /\ displayBuf'[t] = Made(t)'
        /\ \A u \in Tiles \ {t} : displayBuf'[u] = displayBuf[u]
    <2>1. (IF w.pixel THEN run ELSE Off) \in {0, 1, Off}
      BY PieceTypes, WorkTypes
    <2>2. Made(t)' = IF w.pixel THEN run ELSE Off
      BY <1>2, <1>6 DEF Made
    <2> QED
      BY <2>1, <2>2 DEF KernelInv, KernelTypes, TypeOK
  <1>8. /\ printBuf' \in [Tiles -> [run : {0, 1}, text : Texts]]
        /\ printBuf'[t] = [run |-> run, text |-> w.text]
        /\ \A u \in Tiles \ {t} : printBuf'[u] = printBuf[u]
    <2>1. [run |-> run, text |-> w.text] \in [run : {0, 1}, text : Texts]
      BY PieceTypes, WorkTypes
    <2> QED
      BY <1>1, <2>1 DEF KernelInv, KernelTypes, TypeOK
  <1>9. KernelTypes'
    BY <1>1, <1>2, <1>3, <1>4, <1>5, <1>6, <1>7, <1>8 DEF KernelInv, KernelTypes, TypeOK
  <1>10. Ended(t)
    BY <1>1, <1>3, <1>4, <1>5, <1>6, <1>7, <1>8 DEF Ended
  <1>11. Others(t)
    BY <1>1, <1>3, <1>4, <1>5, <1>6, <1>7, <1>8 DEF Others
  <1> QED
    BY <1>1, <1>9, <1>10, <1>11 DEF Pass, Variants

LEMMA RuntimeVertexIsPass ==
    ASSUME KernelInv, NEW t \in Tiles, NEW v \in Variants, RuntimeVertex(v, t)
    PROVE  Pass(t) /\ KernelTypes'
  <1>1. exit_env \in [Tiles -> Variants] /\ [exit_env EXCEPT ![t] = v] \in [Tiles -> Variants]
    BY DEF KernelInv, KernelTypes, TypeOK
  <1>2. CASE v = "rt" /\ ResumeAndYield(t)
    <2>1. /\ Runs("rt", t) /\ checkpoint_is_live[t] /\ LongYield(t, work[t], step[t], exit_env[t])
          /\ exit_env' = exit_env /\ displayBuf' = displayBuf /\ printBuf' = printBuf
          /\ work' = work
      BY <1>2 DEF ResumeAndYield
    <2>2. step[t] = Behind(t) /\ Works(t) /\ pc = "rt" /\ work[t] \in Work
      BY <2>1, PieceTypes DEF Behind, Works, Runs
    <2>3. coroutineFlag[t] /\ displayBuf[t] = Off
      BY <2>1 DEF KernelInv, Flags, Products
    <2> QED
      BY <1>1, <1>2, <2>1, <2>2, <2>3, YieldIsPass
  <1>3. CASE v = "rt" /\ ResumeAndFinish(t)
    <2>1. /\ Runs("rt", t) /\ checkpoint_is_live[t] /\ Completes(t, work[t], step[t])
          /\ displayBuf' = [displayBuf EXCEPT ![t] = IF work[t].pixel THEN run ELSE @]
          /\ exit_env' = exit_env /\ work' = work
      BY <1>3 DEF ResumeAndFinish
    <2>2. step[t] = Behind(t) /\ Works(t) /\ pc = "rt" /\ work[t] \in Work
      BY <2>1, PieceTypes DEF Behind, Works, Runs
    <2>3. displayBuf[t] = Off
      BY <2>1 DEF KernelInv, Flags, Products
    <2>4. displayBuf' = [displayBuf EXCEPT ![t] = IF work[t].pixel THEN run ELSE Off]
      BY <2>1, <2>3
    <2> QED
      BY <1>1, <1>3, <2>1, <2>2, <2>4, CompletionIsPass
  <1>4. CASE Idle(v, t)
    <2>1. /\ pc = "rt" /\ ~checkpoint_is_live[t] /\ ~coroutineFlag[t]
          /\ t \notin ran /\ ran' = ran \cup {t} /\ Elsewhere
          /\ exit_env' = [exit_env EXCEPT ![t] = v]
          /\ printBuf' = [printBuf EXCEPT ![t] = Blank(run)]
          /\ checkpoint_is_live' = [checkpoint_is_live EXCEPT ![t] = FALSE]
          /\ coroutineFlag' = coroutineFlag /\ displayBuf' = displayBuf
          /\ work' = work /\ step' = step /\ executions' = executions
      BY <1>4 DEF Idle, Enters, ReturnsEarly, Runs, Elsewhere
    <2>2. /\ pc' = pc /\ resultQueue' = resultQueue /\ displayBuf_h' = displayBuf_h
          /\ success' = success /\ first_display' = first_display /\ results' = results
          /\ hidden' = hidden /\ image' = image /\ piece' = piece /\ run' = run
      BY <2>1 DEF Elsewhere, host, front
    <2>3. /\ checkpoint_is_live' \in [Tiles -> BOOLEAN] /\ ~checkpoint_is_live'[t]
          /\ \A u \in Tiles \ {t} : checkpoint_is_live'[u] <=> checkpoint_is_live[u]
      BY <2>1 DEF KernelInv, KernelTypes, TypeOK
    <2>4. /\ printBuf' \in [Tiles -> [run : {0, 1}, text : Texts]]
          /\ \A u \in Tiles \ {t} : printBuf'[u] = printBuf[u]
      <3>1. Blank(run) \in [run : {0, 1}, text : Texts]
        BY PieceTypes
      <3> QED
        BY <2>1, <3>1 DEF KernelInv, KernelTypes, TypeOK
    <2>5. KernelTypes'
      BY <1>1, <2>1, <2>2, <2>3, <2>4 DEF KernelInv, KernelTypes, TypeOK
    <2>6. Slept(t) /\ Others(t)
      BY <2>1, <2>3, <2>4 DEF Slept, Others
    <2> QED
      BY <2>1, <2>5, <2>6 DEF Pass
  <1>5. ASSUME Enters(v, t), ~ReturnsEarly(v, t)
        PROVE  /\ Runs(v, t) /\ Behind(t) = 0 /\ Works(t) /\ (v = "first" \/ coroutineFlag[t])
               /\ ~checkpoint_is_live[t] /\ pc = v
    <2>1. Runs(v, t) /\ pc = v /\ t \notin ran
      BY <1>5 DEF Enters, Runs
    <2>2. ~checkpoint_is_live[t]
      BY <1>5, <2>1 DEF Enters, KernelInv, Flags, Begun
    <2> QED
      BY <1>5, <2>1, <2>2 DEF ReturnsEarly, Behind, Works, Variants
  <1>6. CASE ExecuteAndFinish(v, t)
    <2>1. /\ Enters(v, t) /\ ~ReturnsEarly(v, t)
          /\ exit_env' = [exit_env EXCEPT ![t] = v]
      BY <1>6 DEF ExecuteAndFinish, Enters
    <2>2. PICK w \in Plan(v, t) :
            /\ Completes(t, w, 0) /\ work' = [work EXCEPT ![t] = w]
            /\ displayBuf' = [displayBuf EXCEPT ![t] = IF w.pixel THEN run ELSE Off]
      BY <1>6 DEF ExecuteAndFinish
    <2>3. w \in Work /\ (v = "first" => w = piece[t])
      BY PieceTypes DEF Plan
    <2> QED
      BY <1>1, <1>5, <2>1, <2>2, <2>3, CompletionIsPass
  <1>7. CASE ExecuteAndYield(v, t)
    <2>1. /\ Enters(v, t) /\ ~ReturnsEarly(v, t)
          /\ exit_env' = [exit_env EXCEPT ![t] = v]
          /\ displayBuf' = [displayBuf EXCEPT ![t] = Off]
          /\ printBuf' = [printBuf EXCEPT ![t] = Blank(run)]
      BY <1>7 DEF ExecuteAndYield, Enters
    <2>2. displayBuf'[t] = Off
      BY <2>1 DEF KernelInv, KernelTypes, TypeOK
    <2>3. PICK w \in Plan(v, t) : LongYield(t, w, 0, v) /\ work' = [work EXCEPT ![t] = w]
      BY <1>7 DEF ExecuteAndYield
    <2>4. w \in Work /\ (v = "first" => w = piece[t])
      BY PieceTypes DEF Plan
    <2> QED
      BY <1>1, <1>5, <2>1, <2>2, <2>3, <2>4, YieldIsPass
  <1> QED
    BY <1>2, <1>3, <1>4, <1>6, <1>7 DEF RuntimeVertex

LEMMA PassPreserves ==
    ASSUME KernelInv, NEW t \in Tiles, Pass(t), KernelTypes'
    PROVE  KernelInv'
  <1>1. /\ pc \in {"first", "rt"} /\ t \notin ran /\ ran' = ran \cup {t} /\ Others(t)
        /\ Suspended(t) \/ Ended(t) \/ Slept(t)
        /\ Elsewhere
    BY DEF Pass
  <1>2. /\ pc' = pc /\ resultQueue' = resultQueue /\ displayBuf_h' = displayBuf_h
        /\ success' = success /\ first_display' = first_display /\ results' = results
        /\ hidden' = hidden /\ image' = image /\ piece' = piece /\ run' = run
    BY <1>1 DEF Elsewhere, host, front
  <1>3. (Alike' <=> Alike) /\ PictureIsOfThisRun'
    BY <1>1, <1>2, ElsewhereKeeps DEF PictureIsOfThisRun
  <1>4. \A u \in Tiles : Begun(u)' <=> Begun(u) \/ u = t
    BY <1>1, <1>2 DEF Begun
  <1>5. Begun(t) <=> pc = "rt"
    BY <1>1 DEF Begun
  \* Who is at work: a tile in its first pass, or one that is suspended, or tile 0.
  <1>6. Works(t) /\ ~checkpoint_is_live[t] => pc = "first" \/ (t = 0 /\ ~Alike)
    BY <1>1 DEF Works, KernelInv, Flags
  <1>7. OnlyExecution'
    <2> SUFFICES ASSUME NEW u \in Tiles, Begun(u)', u # 0 \/ Alike
                 PROVE  work'[u] = piece[u]
      BY <1>1, <1>2, <1>3 DEF OnlyExecution
    <2>1. CASE u # t
      BY <1>1, <1>4, <2>1 DEF Others, KernelInv, OnlyExecution
    <2>2. CASE u = t /\ pc = "rt"
      <3>1. Begun(t) /\ work[t] = piece[t]
        BY <1>5, <2>2 DEF KernelInv, OnlyExecution
      <3>2. work'[t] = work[t]
        BY <1>1, <1>6, <2>2 DEF Suspended, Ended, Slept, Takes
      <3> QED
        BY <2>2, <3>1, <3>2
    <2>3. CASE u = t /\ pc = "first"
      BY <1>1, <2>3 DEF Suspended, Ended, Slept, Takes
    <2> QED
      BY <1>1, <2>1, <2>2, <2>3
  <1>8. Flags'
    <2> SUFFICES ASSUME NEW u \in Tiles
                 PROVE  /\ checkpoint_is_live'[u] => coroutineFlag'[u]
                        /\ coroutineFlag'[u] =>
                            \/ checkpoint_is_live'[u]
                            \/ pc' = "init" /\ u \notin ran'
                            \/ pc' = "rt" /\ u = 0 /\ u \notin ran' /\ ~Alike'
                        /\ checkpoint_is_live'[u] => pc' \in {"first", "rt"} /\ Begun(u)'
      BY Zenon DEF Flags
    <2>1. CASE u = t
      BY <1>1, <1>2, <1>4, <2>1 DEF Suspended, Ended, Slept
    <2>2. CASE u # t
      BY <1>1, <1>2, <1>3, <1>4, <2>2 DEF Others, KernelInv, Flags
    <2> QED
      BY <2>1, <2>2
  <1>9. Executions' /\ ExecutedOnce'
    <2>1. Works(t) /\ (t # 0 \/ Alike) => executions[t] = 0
      BY <1>1, <1>5, <1>6 DEF KernelInv, Executions
    <2>2. Slept(t) /\ (t # 0 \/ Alike) => executions[t] = 1
      BY <1>5 DEF Slept, KernelInv, Executions
    <2>3. ASSUME NEW u \in Tiles, u # 0 \/ Alike
          PROVE  /\ Begun(u)' => executions'[u] = IF checkpoint_is_live'[u] THEN 0 ELSE 1
                 /\ ~(executions'[u] > 1)
      <3>1. CASE u = t
        BY <1>1, <2>1, <2>2, <2>3, <3>1 DEF Suspended, Ended, Slept, Takes
      <3>2. CASE u # t
        <4>1. executions'[u] = executions[u] /\ (checkpoint_is_live'[u] <=> checkpoint_is_live[u])
          BY <1>1, <3>2 DEF Others
        <4>2. (Begun(u)' <=> Begun(u)) /\ ~(executions[u] > 1)
          BY <1>4, <2>3, <3>2 DEF KernelInv, ExecutedOnce
        <4> QED
          BY <2>3, <4>1, <4>2 DEF KernelInv, Executions
      <3> QED
        BY <3>1, <3>2
    <2>4. ASSUME NEW u \in Tiles, pc' = "first", ~Begun(u)' PROVE executions'[u] = 0
      BY <1>1, <1>2, <1>4, <2>4 DEF Others, KernelInv, Executions
    <2>5. Executions'
      BY <1>3, <2>3, <2>4 DEF Executions
    <2>6. ExecutedOnce'
      BY <1>3, <2>3 DEF ExecutedOnce
    <2> QED
      BY <2>5, <2>6
  <1>10. Products'
    <2> SUFFICES ASSUME NEW u \in Tiles, Begun(u)'
                 PROVE  /\ displayBuf'[u] = IF checkpoint_is_live'[u] THEN Off ELSE Made(u)'
                        /\ Alike' /\ ~checkpoint_is_live'[u] =>
                               printBuf'[u] = [run |-> run, text |-> piece[u].text]
      BY <1>2, Zenon DEF Products
    <2>1. CASE u # t
      <3>1. /\ Begun(u) /\ displayBuf'[u] = displayBuf[u] /\ printBuf'[u] = printBuf[u]
            /\ (checkpoint_is_live'[u] <=> checkpoint_is_live[u])
            /\ work'[u] = work[u]
        BY <1>1, <1>4, <2>1 DEF Others
      <3>2. Made(u)' = Made(u)
        BY <1>1, <3>1, ElsewhereKeeps
      <3> QED
        BY <1>3, <3>1, <3>2 DEF KernelInv, Products
    <2>2. CASE u = t /\ ~Slept(t)
      <3>1. Alike => work'[t] = piece[t]
        BY <1>2, <1>3, <1>4, <1>7 DEF OnlyExecution
      <3> QED
        BY <1>1, <1>3, <2>2, <3>1 DEF Suspended, Ended
    <2>3. CASE u = t /\ Slept(t)
      <3>1. pc = "rt" /\ ~checkpoint_is_live[t] /\ Begun(t) /\ displayBuf'[t] = displayBuf[t]
            /\ ~checkpoint_is_live'[t]
        BY <1>5, <2>3 DEF Slept
      <3>2. ~Alike
        BY <1>1, <3>1 DEF KernelInv, Together
      <3>3. Made(t)' = Made(t)
        BY <1>1, <2>3, ElsewhereKeeps DEF Slept
      <3> QED
        BY <1>3, <2>3, <3>1, <3>2, <3>3 DEF KernelInv, Products
    <2> QED
      BY <2>1, <2>2, <2>3
  <1>11. Picture'
    BY <1>1, <1>2 DEF KernelInv, Picture
  <1>12. Report'
    BY <1>1, <1>2 DEF KernelInv, Report
  <1>13. Together'
    <2>1. ASSUME NEW u \in Tiles, checkpoint_is_live'[u] PROVE step'[u] \in 1 .. work'[u].yields
      <3>1. CASE u = t
        <4>1. Behind(t) < work'[t].yields /\ step'[t] = Behind(t) + 1
          BY <1>1, <2>1, <3>1 DEF Suspended, Ended, Slept
        <4>2. Behind(t) \in Nat /\ work'[t] \in Work /\ run \in {0, 1}
          BY PieceTypes, MultikernelAssumption DEF KernelTypes, TypeOK
        <4>3. work'[t].yields \in Nat
          BY <4>2, WorkTypes
        <4> QED
          BY <3>1, <4>1, <4>2, <4>3
      <3>2. CASE u # t
        BY <1>1, <1>2, <2>1, <3>2 DEF Others, KernelInv, Together
      <3> QED
        BY <3>1, <3>2
    <2>2. ASSUME NEW u \in Tiles \ {t}
          PROVE  PassesBefore(u)' = PassesBefore(u)
      <3>1. /\ (checkpoint_is_live'[u] <=> checkpoint_is_live[u]) /\ step'[u] = step[u]
            /\ (u \in ran' <=> u \in ran) /\ work'[u] = work[u]
        BY <1>1 DEF Others
      <3>2. Begun(u)' <=> Begun(u)
        BY <1>4
      <3> QED
        BY <1>2, <3>1, <3>2 DEF PassesBefore, Passes
    <2>3. Alike => PassesBefore(t)' = PassesBefore(t)
      <3> SUFFICES ASSUME Alike PROVE PassesBefore(t)' = PassesBefore(t)
        OBVIOUS
      <3>1. ~Slept(t)
        BY <1>1 DEF Slept, KernelInv, Together
      <3>2. Works(t) /\ (Suspended(t) \/ Ended(t))
        BY <1>1, <3>1 DEF Suspended, Ended, Takes
      <3>3. checkpoint_is_live[t] <=> pc = "rt"
        BY <1>1, <1>5, <1>6, <3>2 DEF KernelInv, Flags
      <3>4. PassesBefore(t) = Behind(t)
        BY <1>1, <1>5, <3>3 DEF PassesBefore, Passes, Behind
      <3>5. PassesBefore(t)' = Passes(t)' - 1
        BY <1>1 DEF PassesBefore
      <3>6. Passes(t)' = Behind(t) + 1
        BY <1>2, <1>4, <3>2 DEF Passes, Suspended, Ended
      <3>7. Behind(t) \in Nat
        BY PieceTypes, MultikernelAssumption
      <3> QED
        BY <3>4, <3>5, <3>6, <3>7
    <2>4. ASSUME NEW u \in Tiles, pc' = "rt", Alike' PROVE u \in ran' \/ checkpoint_is_live'[u]
      BY <1>1, <1>2, <1>3, <2>4 DEF KernelInv, Together, Others
    <2>5. pc' \in {"first", "rt"} /\ Alike' =>
             \A u, w \in Tiles : PassesBefore(u)' = PassesBefore(w)'
      BY <1>1, <1>3, <2>2, <2>3 DEF KernelInv, Together
    <2> QED
      BY <2>1, <2>4, <2>5, Zenon DEF Together
  <1> QED
    BY <1>3, <1>7, <1>8, <1>9, <1>10, <1>11, <1>12, <1>13, Zenon DEF KernelInv

LEMMA AnyPreserves ==
    ASSUME KernelInv, Any
    PROVE  KernelInv'
  <1> DEFINE any == \E t \in Tiles : coroutineFlag[t]
  <1>1. /\ pc \in {"first", "rt"} /\ ran = Tiles
        /\ coroutineFlag' = [coroutineFlag EXCEPT ![0] = any]
        /\ pc' = IF any THEN "rt" ELSE "copy"
        /\ ran' = IF any THEN {} ELSE ran
        /\ checkpoint_is_live' = checkpoint_is_live /\ exit_env' = exit_env
        /\ printBuf' = printBuf /\ displayBuf' = displayBuf /\ work' = work
        /\ step' = step /\ executions' = executions
        /\ resultQueue' = resultQueue /\ displayBuf_h' = displayBuf_h
        /\ success' = success /\ first_display' = first_display /\ results' = results
        /\ hidden' = hidden /\ image' = image /\ piece' = piece /\ run' = run
    BY DEF Any, Finished, host, front
  <1>2. any \in BOOLEAN
    OBVIOUS
  <1>3. /\ \A t \in Tiles : any <=> (\E u \in Tiles : coroutineFlag[u])
        /\ any \/ \A u \in Tiles : ~coroutineFlag[u]
    OBVIOUS
  <1> HIDE DEF any
  <1>4. 0 \in Tiles
    BY TilesFinite
  <1>5. /\ coroutineFlag' \in [Tiles -> BOOLEAN] /\ (coroutineFlag'[0] <=> any)
        /\ \A u \in Tiles \ {0} : coroutineFlag'[u] <=> coroutineFlag[u]
    BY <1>1, <1>2, <1>4 DEF KernelInv, KernelTypes, TypeOK
  <1>6. /\ (Alike' <=> Alike) /\ \A u : Made(u)' = Made(u)
        /\ \A u \in Tiles : Begun(u) /\ Begun(u)'
    BY <1>1 DEF Alike, Made, Begun
  <1>7. \A u \in Tiles : coroutineFlag[u] <=> checkpoint_is_live[u]
    BY <1>1 DEF KernelInv, Flags
  <1>8. any /\ Alike => \A u \in Tiles : checkpoint_is_live[u]
    <2> SUFFICES ASSUME any, Alike, NEW u \in Tiles, ~checkpoint_is_live[u] PROVE FALSE
      OBVIOUS
    <2>1. PICK w \in Tiles : checkpoint_is_live[w]
      BY <1>3, <1>7
    <2>2. step[w] \in 1 .. work[w].yields /\ PassesBefore(w) = PassesBefore(u)
      BY <1>1, <2>1 DEF KernelInv, Together
    <2>3. Passes(w) = step[w] /\ Passes(u) = work[u].yields + 1
      BY <1>6, <2>1 DEF Passes
    <2>4. Passes(w) - 1 = Passes(u) - 1
      BY <1>1, <2>2 DEF PassesBefore
    <2>5. work[w].yields = work[u].yields
      BY <1>6 DEF Alike, KernelInv, OnlyExecution
    <2>6. work[u].yields \in Nat
      BY PieceTypes, WorkTypes
    <2> QED
      BY <2>2, <2>3, <2>4, <2>5, <2>6
  <1>9. KernelTypes'
    BY <1>1, <1>5 DEF KernelInv, KernelTypes, TypeOK
  <1>10. Flags'
    <2> SUFFICES ASSUME NEW u \in Tiles
                 PROVE  /\ checkpoint_is_live'[u] => coroutineFlag'[u]
                        /\ coroutineFlag'[u] =>
                            \/ checkpoint_is_live'[u]
                            \/ pc' = "init" /\ u \notin ran'
                            \/ pc' = "rt" /\ u = 0 /\ u \notin ran' /\ ~Alike'
                        /\ checkpoint_is_live'[u] => pc' \in {"first", "rt"} /\ Begun(u)'
      BY Zenon DEF Flags
    <2>1. CASE any
      BY <1>1, <1>5, <1>6, <1>7, <1>8, <2>1
    <2>2. CASE ~any
      BY <1>1, <1>3, <1>5, <1>7, <2>2
    <2> QED
      BY <2>1, <2>2
  <1>11. Executions' /\ OnlyExecution' /\ ExecutedOnce'
    BY <1>1, <1>6 DEF KernelInv, Executions, OnlyExecution, ExecutedOnce
  <1>12. Together'
    <2>1. ASSUME any, Alike, NEW u \in Tiles, NEW w \in Tiles
          PROVE  PassesBefore(u)' = PassesBefore(w)'
      <3>1. PassesBefore(u)' = Passes(u) /\ PassesBefore(w)' = Passes(w)
        BY <1>1, <1>6, <2>1 DEF PassesBefore, Passes
      <3>2. Passes(u) - 1 = Passes(w) - 1
        BY <1>1, <2>1 DEF PassesBefore, KernelInv, Together
      <3>3. Passes(u) \in Int /\ Passes(w) \in Int
        BY PieceTypes, WorkTypes DEF Passes
      <3> QED
        BY <3>1, <3>2, <3>3
    <2>2. \A u \in Tiles : checkpoint_is_live'[u] => step'[u] \in 1 .. work'[u].yields
      BY <1>1 DEF KernelInv, Together
    <2>3. pc' = "rt" /\ Alike' => \A u \in Tiles : u \in ran' \/ checkpoint_is_live'[u]
      BY <1>1, <1>6, <1>8
    <2>4. pc' \in {"first", "rt"} => any
      BY <1>1
    <2> QED
      BY <1>6, <2>1, <2>2, <2>3, <2>4, Zenon DEF Together
  <1>13. Products'
    BY <1>1, <1>6 DEF KernelInv, Products
  <1>14. Picture' /\ Report' /\ PictureIsOfThisRun'
    BY <1>1 DEF KernelInv, Picture, Report, PictureIsOfThisRun
  <1> QED
    BY <1>9, <1>10, <1>11, <1>12, <1>13, <1>14, Zenon DEF KernelInv

-----------------------------------------------------------------------------
(***************************************************************************)
(* The host library and the front end.                                     *)
(***************************************************************************)
\* Nothing is left suspended when the device's program has ended.
LEMMA AtRest ==
    ASSUME KernelInv, pc \notin {"init", "first", "rt"}, NEW t \in Tiles
    PROVE  ~checkpoint_is_live[t] /\ ~coroutineFlag[t]
  BY DEF KernelInv, Flags

LEMMA EntryTypes ==
    ASSUME NEW q \in Seq(ResultType)
    PROVE  /\ DOMAIN q = 1 .. Len(q) /\ Len(q) \in Nat
           /\ \A i \in DOMAIN q : q[i] \in ResultType /\ q[i].count \in 1 .. NUMREPLS
                                  /\ q[i].data \in Texts /\ q[i].data \in Nat
  <1>1. DOMAIN q = 1 .. Len(q) /\ Len(q) \in Nat /\ \A i \in 1 .. Len(q) : q[i] \in ResultType
    BY ElementOfSeq, LenProperties
  <1>2. Texts \subseteq Nat
    BY MultikernelAssumption DEF Texts
  <1> QED
    BY <1>1, <1>2 DEF ResultType

LEMMA NonemptyFinite ==
    ASSUME KernelInv
    PROVE  IsFiniteSet(Nonempty) /\ Cardinality(Nonempty) \in Nat
  <1>1. Nonempty \subseteq Texts
    <2>1. \A t \in Tiles : piece[t].text \in Texts
      BY PieceTypes, WorkTypes
    <2> QED
      BY <2>1 DEF Nonempty
  <1>2. IsFiniteSet(Texts)
    BY MultikernelAssumption, FS_Interval DEF Texts
  <1> QED
    BY <1>1, <1>2, FS_Subset, FS_CardinalityType

LEMMA CopyInitPreserves ==
    ASSUME KernelInv, CopyInit
    PROVE  KernelInv'
  <1>1. /\ pc = "init" /\ ran = Tiles /\ resultQueue' = Deduplicated /\ pc' = "idle"
        /\ ran' = ran /\ coroutineFlag' = coroutineFlag
        /\ checkpoint_is_live' = checkpoint_is_live /\ exit_env' = exit_env
        /\ printBuf' = printBuf /\ displayBuf' = displayBuf /\ step' = step
        /\ work' = work
        /\ executions' = executions /\ displayBuf_h' = displayBuf_h
        /\ success' = success /\ first_display' = first_display /\ results' = results
        /\ hidden' = hidden /\ image' = image /\ piece' = piece /\ run' = run
    BY DEF CopyInit, Finished, device, front
  <1>2. printBuf \in [Tiles -> [run : {0, 1}, text : Texts]]
    BY DEF KernelInv, KernelTypes, TypeOK
  <1>3. /\ Deduplicated \in Seq(ResultType) /\ Ascending(Deduplicated)
        /\ Data(Deduplicated) = Printed
    BY <1>2, DeduplicatedIsReport
  <1>4. \A i \in DOMAIN Deduplicated : Deduplicated[i].data = 0
    <2>1. Printed \subseteq {0}
      BY <1>1 DEF Printed, KernelInv, Report
    <2> QED
      BY <1>3, <2>1 DEF Data
  <1>5. \A i \in DOMAIN Deduplicated : Deduplicated[i].count \in 1 .. NUMREPLS
    BY <1>3, EntryTypes
  <1>6. KernelTypes'
    BY <1>1, <1>3, <1>5 DEF KernelInv, KernelTypes, TypeOK
  <1>7. success = 0 /\ \A t \in Tiles : ~checkpoint_is_live[t] /\ ~coroutineFlag[t]
    BY <1>1 DEF KernelInv, Picture, Flags
  <1>8. /\ Flags' /\ Executions' /\ OnlyExecution' /\ Together' /\ Products' /\ Picture'
        /\ PictureIsOfThisRun'
    BY <1>1, <1>7
    DEF Flags, Executions, OnlyExecution, Together, Products, Picture, PictureIsOfThisRun,
        Begun
  <1>9. ExecutedOnce'
    BY <1>1 DEF KernelInv, ExecutedOnce, Alike
  <1>10. Report'
    BY <1>1, <1>3, <1>4 DEF Report
  <1> QED
    BY <1>6, <1>8, <1>9, <1>10 DEF KernelInv

LEMMA CopyOutPreserves ==
    ASSUME KernelInv, CopyOut
    PROVE  KernelInv'
  <1>1. /\ pc = "copy" /\ resultQueue' = Deduplicated /\ pc' = "drain"
        /\ displayBuf_h' = displayBuf
        /\ ran' = ran /\ coroutineFlag' = coroutineFlag
        /\ checkpoint_is_live' = checkpoint_is_live /\ exit_env' = exit_env
        /\ printBuf' = printBuf /\ displayBuf' = displayBuf /\ step' = step
        /\ work' = work
        /\ executions' = executions
        /\ success' = success /\ first_display' = first_display /\ results' = results
        /\ hidden' = hidden /\ image' = image /\ piece' = piece /\ run' = run
    BY DEF CopyOut, device, front
  <1>2. printBuf \in [Tiles -> [run : {0, 1}, text : Texts]]
    BY DEF KernelInv, KernelTypes, TypeOK
  <1>3. /\ Deduplicated \in Seq(ResultType) /\ Ascending(Deduplicated)
        /\ Data(Deduplicated) = Printed
        /\ \A i \in DOMAIN Deduplicated :
               /\ Deduplicated[i].count = Cardinality(PrintedBy(Deduplicated[i].data))
               /\ Deduplicated[i].runs =
                      {printBuf[t].run : t \in PrintedBy(Deduplicated[i].data)}
               /\ PrintedBy(Deduplicated[i].data) # {}
    BY <1>2, DeduplicatedIsReport
  <1>4. \A t \in Tiles : ~checkpoint_is_live[t] /\ ~coroutineFlag[t] /\ Begun(t)
    BY <1>1, AtRest DEF Begun
  <1>5. /\ \A t \in Tiles : displayBuf[t] = Made(t)
        /\ Alike => \A t \in Tiles : printBuf[t] = [run |-> run, text |-> piece[t].text]
        /\ \A t \in Tiles : t # 0 \/ Alike => work[t] = piece[t]
    BY <1>4 DEF KernelInv, Products, OnlyExecution
  <1>6. \A i \in DOMAIN Deduplicated : Deduplicated[i].count \in 1 .. NUMREPLS
    BY <1>3, EntryTypes
  <1>7. KernelTypes'
    BY <1>1, <1>3, <1>6 DEF KernelInv, KernelTypes, TypeOK
  <1>8. Flags' /\ Executions' /\ Together' /\ Products' /\ PictureIsOfThisRun'
    BY <1>1, <1>4
    DEF Flags, Executions, Together, Products, PictureIsOfThisRun, Begun
  <1>9. ExecutedOnce' /\ OnlyExecution'
    BY <1>1, <1>5 DEF KernelInv, ExecutedOnce, OnlyExecution, Alike
  <1>10. Picture'
    BY <1>1, <1>5 DEF Picture, Made
  <1>11. ASSUME Alike
         PROVE  /\ \A i \in DOMAIN Deduplicated : IsTrue(Deduplicated[i])
                /\ Data(Deduplicated) \ {0} = Nonempty
    <2>1. \A t \in Tiles : printBuf[t].text = piece[t].text /\ printBuf[t].run = run
      <3>1. \A t \in Tiles : printBuf[t] = [run |-> run, text |-> piece[t].text]
        BY <1>5, <1>11, Zenon
      <3>2. ASSUME NEW t \in Tiles
            PROVE  printBuf[t].text = piece[t].text /\ printBuf[t].run = run
        <4> DEFINE p == printBuf[t]
                   x == piece[t].text
        <4>1. p = [run |-> run, text |-> x]
          BY <3>1
        <4> HIDE DEF p, x
        <4>2. p.text = x /\ p.run = run
          BY <4>1
        <4> QED
          BY <4>2 DEF p, x
      <3> QED
        BY <3>2
    <2>2. \A x : PrintedBy(x) = {t \in Tiles : piece[t].text = x}
      BY <2>1 DEF PrintedBy
    <2>3. \A x : PrintedBy(x) # {} => {printBuf[t].run : t \in PrintedBy(x)} = {run}
      BY <2>1 DEF PrintedBy
    <2>4. Printed = {piece[t].text : t \in Tiles}
      BY <2>1 DEF Printed
    <2> QED
      BY <1>3, <2>2, <2>3, <2>4 DEF IsTrue, Nonempty
  <1>12. Report'
    <2>1. results = <<>> /\ hidden = 0
      BY <1>1 DEF KernelInv, Report
    <2>2. Len(<<>>) = 0 /\ 0 < MaxResults /\ DOMAIN (<<>>) = {}
      BY MultikernelAssumption
    <2>3. (Alike' <=> Alike) /\ Nonempty' = Nonempty /\ \A r : IsTrue(r)' <=> IsTrue(r)
      BY <1>1 DEF Alike, Nonempty, IsTrue
    <2>4. Cardinality(Nonempty) \in Nat
      BY NonemptyFinite
    <2>5. Alike => 0 + 0 + Cardinality(Data(Deduplicated) \ {0}) = Cardinality(Nonempty)
      BY <1>11, <2>4
    <2>6. Ascending(resultQueue)' /\ Data(resultQueue)' = Data(Deduplicated)
      BY <1>1, <1>3 DEF Ascending, Data
    <2>7. Alike' => \A i \in DOMAIN resultQueue' : IsTrue(resultQueue[i])'
      BY <1>1, <1>11, <2>3 DEF IsTrue
    <2>8. results' = <<>> /\ hidden' = 0 /\ pc' = "drain" /\ Len(results') = 0
      BY <1>1, <2>1, <2>2
    <2> QED
      BY <2>2, <2>3, <2>5, <2>6, <2>7, <2>8 DEF Report
  <1> QED
    BY <1>7, <1>8, <1>9, <1>10, <1>12 DEF KernelInv

\* Taking the first entry of an ascending queue takes its text.
LEMMA TailOfQueue ==
    ASSUME NEW q \in Seq(ResultType), q # <<>>, Ascending(q)
    PROVE  /\ Head(q) \in ResultType /\ Tail(q) \in Seq(ResultType)
           /\ Head(q) = q[1] /\ 1 \in DOMAIN q
           /\ \A i \in DOMAIN Tail(q) : \E j \in DOMAIN q : Tail(q)[i] = q[j]
           /\ Ascending(Tail(q))
           /\ \A i \in DOMAIN Tail(q) : Head(q).data < Tail(q)[i].data
           /\ Head(q).data \in Nat
           /\ Cardinality(Data(q) \ {0}) \in Nat /\ Cardinality(Data(Tail(q)) \ {0}) \in Nat
           /\ Head(q).data = 0 =>
                  Cardinality(Data(Tail(q)) \ {0}) = Cardinality(Data(q) \ {0})
           /\ Head(q).data # 0 =>
                  Cardinality(Data(Tail(q)) \ {0}) = Cardinality(Data(q) \ {0}) - 1
  <1> DEFINE r == Tail(q)
  <1>1. Len(q) \in Nat /\ Len(q) > 0 /\ DOMAIN q = 1 .. Len(q)
    BY LenProperties, EmptySeq
  <1>2. Head(q) = q[1] /\ 1 \in DOMAIN q /\ Head(q) \in ResultType
    BY <1>1, HeadTailProperties
  <1>3. r \in Seq(ResultType) /\ Len(r) = Len(q) - 1
    BY HeadTailProperties
  <1>4. DOMAIN r = 1 .. Len(q) - 1
    BY <1>3, LenProperties
  <1>5. \A i \in DOMAIN r : i \in 1 .. Len(q) - 1 /\ i + 1 \in DOMAIN q /\ r[i] = q[i + 1]
    BY <1>1, <1>4, HeadTailProperties
  <1> HIDE DEF r
  <1>6. \A i \in DOMAIN r : \E j \in DOMAIN q : r[i] = q[j]
    BY <1>5
  <1>7. Ascending(r)
    <2> SUFFICES ASSUME NEW i \in DOMAIN r, NEW j \in DOMAIN r, i < j PROVE r[i].data < r[j].data
      BY DEF Ascending
    <2>1. i + 1 < j + 1
      BY <1>1, <1>4
    <2> QED
      BY <1>5, <2>1 DEF Ascending
  <1>8. \A i \in DOMAIN r : Head(q).data < r[i].data
    <2> SUFFICES ASSUME NEW i \in DOMAIN r PROVE Head(q).data < r[i].data
      OBVIOUS
    <2>1. 1 < i + 1
      BY <1>1, <1>5
    <2> QED
      BY <1>2, <1>5, <2>1 DEF Ascending
  <1>9. \A i \in DOMAIN q : q[i].data \in Nat /\ q[i].data \in Texts
    BY EntryTypes
  <1>10. Data(r) = Data(q) \ {Head(q).data}
    <2>1. \A i \in DOMAIN q : i = 1 \/ (i - 1 \in DOMAIN r /\ r[i - 1] = q[i])
      <3> SUFFICES ASSUME NEW i \in DOMAIN q, i # 1 PROVE i - 1 \in DOMAIN r /\ r[i - 1] = q[i]
        OBVIOUS
      <3>1. i - 1 \in DOMAIN r /\ (i - 1) + 1 = i
        BY <1>1, <1>4
      <3> QED
        BY <1>5, <3>1
    <2>2. \A i \in DOMAIN r : r[i].data \in Data(q) /\ r[i].data # Head(q).data
      <3> SUFFICES ASSUME NEW i \in DOMAIN r
                   PROVE  r[i].data \in Data(q) /\ r[i].data # Head(q).data
        OBVIOUS
      <3>1. r[i].data \in Data(q) /\ r[i].data \in Nat
        BY <1>5, <1>9 DEF Data
      <3>2. Head(q).data < r[i].data /\ Head(q).data \in Nat
        BY <1>2, <1>8, <1>9
      <3> QED
        BY <3>1, <3>2
    <2>3. Data(r) \subseteq Data(q) \ {Head(q).data}
      BY <2>2 DEF Data
    <2>4. ASSUME NEW x \in Data(q), x # Head(q).data PROVE x \in Data(r)
      <3>1. PICK i \in DOMAIN q : x = q[i].data
        BY DEF Data
      <3>2. i # 1
        BY <1>2, <2>4, <3>1
      <3> QED
        BY <2>1, <3>1, <3>2 DEF Data
    <2> QED
      BY <2>3, <2>4
  <1>11. Head(q).data \in Data(q) /\ Head(q).data \in Nat
    BY <1>2, <1>9 DEF Data
  <1>12. IsFiniteSet(Data(q) \ {0}) /\ IsFiniteSet(Data(r) \ {0})
    <2>1. Data(q) \ {0} \subseteq Texts /\ Data(r) \ {0} \subseteq Data(q) \ {0}
      BY <1>9, <1>10 DEF Data
    <2>2. IsFiniteSet(Texts)
      BY MultikernelAssumption, FS_Interval DEF Texts
    <2> QED
      BY <2>1, <2>2, FS_Subset
  <1>13. Head(q).data = 0 => Cardinality(Data(r) \ {0}) = Cardinality(Data(q) \ {0})
    <2>1. Head(q).data = 0 => Data(r) \ {0} = Data(q) \ {0}
      BY <1>10
    <2> QED
      BY <2>1
  <1>14. Head(q).data # 0 => Cardinality(Data(r) \ {0}) = Cardinality(Data(q) \ {0}) - 1
    <2> SUFFICES ASSUME Head(q).data # 0
                 PROVE  Cardinality(Data(r) \ {0}) = Cardinality(Data(q) \ {0}) - 1
      OBVIOUS
    <2>1. Data(r) \ {0} = (Data(q) \ {0}) \ {Head(q).data}
      BY <1>10
    <2>2. Head(q).data \in Data(q) \ {0}
      BY <1>11
    <2> QED
      BY <1>12, <2>1, <2>2, FS_RemoveElement
  <1>15. Cardinality(Data(q) \ {0}) \in Nat /\ Cardinality(Data(r) \ {0}) \in Nat
    BY <1>12, FS_CardinalityType
  <1> QED
    BY <1>2, <1>3, <1>6, <1>7, <1>8, <1>11, <1>13, <1>14, <1>15 DEF r

\* What the parts of the invariant that are about the device say once its program
\* has ended.
LEMMA RestPreserves ==
    ASSUME KernelInv, pc \in {"idle", "drain", "overflow", "display"},
           pc' \in {"idle", "drain", "overflow", "display"},
           coroutineFlag' = coroutineFlag, checkpoint_is_live' = checkpoint_is_live
    PROVE  Flags' /\ Executions' /\ Together' /\ Products'
  <1>1. \A t \in Tiles : ~checkpoint_is_live[t] /\ ~coroutineFlag[t]
    BY AtRest
  <1> QED
    BY <1>1 DEF Flags, Executions, Together, Products, Begun

LEMMA FetchPreserves ==
    ASSUME KernelInv, FetchResult
    PROVE  KernelInv'
  <1>1. /\ pc = "drain" /\ resultQueue # <<>> /\ resultQueue' = Tail(resultQueue)
        /\ results' = IF Head(resultQueue).data = 0 THEN results
                      ELSE Append(results, Head(resultQueue))
        /\ pc' = IF Len(results') = MaxResults THEN "overflow" ELSE "drain"
        /\ ran' = ran /\ coroutineFlag' = coroutineFlag
        /\ checkpoint_is_live' = checkpoint_is_live /\ exit_env' = exit_env
        /\ printBuf' = printBuf /\ displayBuf' = displayBuf /\ step' = step
        /\ work' = work
        /\ executions' = executions /\ displayBuf_h' = displayBuf_h
        /\ success' = success /\ first_display' = first_display
        /\ hidden' = hidden /\ image' = image /\ piece' = piece /\ run' = run
    BY DEF FetchResult, device
  <1> DEFINE q == resultQueue
             h == Head(q)
             r == Tail(q)
  <1>2. q \in Seq(ResultType) /\ results \in Seq(ResultType) /\ Ascending(q)
    BY <1>1 DEF KernelInv, KernelTypes, Report
  <1>3. /\ h \in ResultType /\ r \in Seq(ResultType) /\ h = q[1] /\ 1 \in DOMAIN q
        /\ \A i \in DOMAIN r : \E j \in DOMAIN q : r[i] = q[j]
        /\ Ascending(r) /\ \A i \in DOMAIN r : h.data < r[i].data
        /\ h.data \in Nat
        /\ Cardinality(Data(q) \ {0}) \in Nat /\ Cardinality(Data(r) \ {0}) \in Nat
        /\ h.data = 0 => Cardinality(Data(r) \ {0}) = Cardinality(Data(q) \ {0})
        /\ h.data # 0 => Cardinality(Data(r) \ {0}) = Cardinality(Data(q) \ {0}) - 1
    BY <1>1, <1>2, TailOfQueue
  <1>4. resultQueue' = r
    BY <1>1
  <1>5. results' = IF h.data = 0 THEN results ELSE Append(results, h)
    BY <1>1
  <1>6. /\ \A i \in DOMAIN r : r[i] \in ResultType /\ r[i].count \in 1 .. NUMREPLS
        /\ \A i \in DOMAIN r : r[i].data \in Nat
    BY <1>3, EntryTypes
  <1>7. Len(results) \in Nat /\ Len(results) < MaxResults /\ hidden = 0
    BY <1>1, <1>2, EntryTypes DEF KernelInv, Report
  <1>8. /\ results' \in Seq(ResultType)
        /\ Len(results') = IF h.data = 0 THEN Len(results) ELSE Len(results) + 1
        /\ Len(results') <= MaxResults /\ (Len(results') # MaxResults => Len(results') < MaxResults)
        /\ \A i \in DOMAIN results' : (i \in DOMAIN results /\ results'[i] = results[i])
                                      \/ (h.data # 0 /\ results'[i] = h)
    <2> HIDE DEF h
    <2>1. CASE h.data = 0
      BY <1>5, <1>2, <1>7, <2>1, MultikernelAssumption
    <2>2. CASE h.data # 0
      <3>1. /\ results' = Append(results, h) /\ results' \in Seq(ResultType)
            /\ Len(results') = Len(results) + 1
        BY <1>2, <1>3, <1>5, <2>2, AppendProperties
      <3>2. \A i \in DOMAIN results' : (i \in DOMAIN results /\ results'[i] = results[i])
                                       \/ results'[i] = h
        BY <1>2, <1>3, <3>1, AppendProperties, LenProperties
      <3> QED
        BY <1>7, <2>2, <3>1, <3>2, MultikernelAssumption
    <2> QED
      BY <2>1, <2>2
  <1> HIDE DEF q, h, r
  <1>9. KernelTypes'
    BY <1>1, <1>3, <1>4, <1>6, <1>8 DEF KernelInv, KernelTypes, TypeOK
  <1>10. Flags' /\ Executions' /\ Together' /\ Products'
    BY <1>1, RestPreserves
  <1>11. Picture' /\ ExecutedOnce' /\ OnlyExecution' /\ PictureIsOfThisRun'
    BY <1>1
    DEF KernelInv, Picture, Made, ExecutedOnce, OnlyExecution, Begun, Alike,
        PictureIsOfThisRun
  <1>12. results' # <<>> => \A i \in DOMAIN r : r[i].data > 0
    <2>1. CASE h.data = 0
      <3>1. results # <<>> => q[1].data > 0
        BY <1>1, <1>3 DEF KernelInv, Report, q
      <3>2. results' = results /\ ~(h.data > 0)
        BY <1>5, <2>1
      <3> QED
        BY <1>3, <3>1, <3>2
    <2>2. CASE h.data # 0
      BY <1>3, <1>6, <2>2
    <2> QED
      BY <2>1, <2>2
  <1>13. (Alike' <=> Alike) /\ Nonempty' = Nonempty /\ \A x : IsTrue(x)' <=> IsTrue(x)
    BY <1>1 DEF Alike, Nonempty, IsTrue
  <1>14. ASSUME Alike
         PROVE  /\ \A i \in DOMAIN r : r[i].data = 0 \/ IsTrue(r[i])
                /\ \A i \in DOMAIN results' : IsTrue(results'[i])
                /\ Len(results') + hidden + Cardinality(Data(r) \ {0}) = Cardinality(Nonempty)
    <2>1. /\ \A i \in DOMAIN q : q[i].data = 0 \/ IsTrue(q[i])
          /\ \A i \in DOMAIN results : IsTrue(results[i])
          /\ Len(results) + hidden + Cardinality(Data(q) \ {0}) = Cardinality(Nonempty)
      BY <1>1, <1>14 DEF KernelInv, Report, q
    <2>2. \A i \in DOMAIN r : r[i].data = 0 \/ IsTrue(r[i])
      <3> SUFFICES ASSUME NEW i \in DOMAIN r PROVE r[i].data = 0 \/ IsTrue(r[i])
        OBVIOUS
      <3>1. PICK j \in DOMAIN q : r[i] = q[j]
        BY <1>3
      <3>2. q[j].data = 0 \/ IsTrue(q[j])
        BY <2>1
      <3> QED
        BY <3>1, <3>2 DEF IsTrue
    <2>3. \A i \in DOMAIN results' : IsTrue(results'[i])
      <3> SUFFICES ASSUME NEW i \in DOMAIN results' PROVE IsTrue(results'[i])
        OBVIOUS
      <3>1. CASE i \in DOMAIN results /\ results'[i] = results[i]
        BY <2>1, <3>1
      <3>2. CASE h.data # 0 /\ results'[i] = h
        <4>1. IsTrue(q[1])
          BY <1>3, <2>1, <3>2
        <4> QED
          BY <1>3, <3>2, <4>1
      <3> QED
        BY <1>8, <3>1, <3>2
    <2>4. Len(results') + hidden + Cardinality(Data(r) \ {0})
            = Len(results) + hidden + Cardinality(Data(q) \ {0})
      <3> DEFINE c == Cardinality(Data(q) \ {0})
                 d == Cardinality(Data(r) \ {0})
                 l == Len(results)
                 m == Len(results')
      <3>1. /\ c \in Nat /\ d \in Nat /\ l \in Nat /\ hidden = 0
            /\ h.data = 0 => d = c /\ m = l
            /\ h.data # 0 => d = c - 1 /\ m = l + 1
        BY <1>3, <1>7, <1>8
      <3> HIDE DEF c, d, l, m
      <3>2. m + hidden + d = l + hidden + c
        BY <3>1
      <3> QED
        BY <3>2 DEF c, d, l, m
    <2> QED
      BY <2>1, <2>2, <2>3, <2>4
  <1>15. Report'
    <2>1. pc' \in {"drain", "overflow"} /\ hidden' = 0
      BY <1>1, <1>7
    <2>2. /\ pc' = "drain" => Len(results') < MaxResults
          /\ pc' = "overflow" => Len(results') = MaxResults
      BY <1>1, <1>8
    <2>3. Ascending(resultQueue)'
      BY <1>3, <1>4 DEF Ascending
    <2>4. Alike' => /\ \A i \in DOMAIN resultQueue' : (resultQueue[i].data = 0)' \/ IsTrue(resultQueue[i])'
                    /\ \A i \in DOMAIN results' : IsTrue(results[i])'
                    /\ (Len(results) + hidden + Cardinality(Data(resultQueue) \ {0})
                           = Cardinality(Nonempty))'
      <3>1. Data(resultQueue)' = Data(r)
        BY <1>4 DEF Data
      <3>2. Alike' => \A i \in DOMAIN resultQueue' :
                         (resultQueue[i].data = 0)' \/ IsTrue(resultQueue[i])'
        <4>1. Alike => \A i \in DOMAIN r : r[i].data = 0 \/ IsTrue(r[i])
          BY <1>14
        <4>2. piece' = piece /\ run' = run /\ resultQueue' = r /\ (Alike' <=> Alike)
          BY <1>1, <1>4, <1>13
        <4> QED
          BY <4>1, <4>2, Zenon DEF IsTrue
      <3>3. Alike' => \A i \in DOMAIN results' : IsTrue(results[i])'
        <4>1. Alike => \A i \in DOMAIN results' : IsTrue(results'[i])
          BY <1>14
        <4>2. piece' = piece /\ run' = run /\ (Alike' <=> Alike)
          BY <1>1, <1>13
        <4> QED
          BY <4>1, <4>2, Zenon DEF IsTrue
      <3>4. Alike' => Len(results') + hidden' + Cardinality(Data(resultQueue)' \ {0})
                        = Cardinality(Nonempty')
        BY <1>1, <1>13, <1>14, <3>1
      <3> QED
        BY <3>2, <3>3, <3>4
    <2> QED
      BY <1>4, <1>12, <2>1, <2>2, <2>3, <2>4 DEF Report
  <1> QED
    BY <1>9, <1>10, <1>11, <1>15 DEF KernelInv

LEMMA CountPreserves ==
    ASSUME KernelInv, CountHidden
    PROVE  KernelInv'
  <1>1. /\ pc = "overflow" /\ resultQueue # <<>> /\ resultQueue' = Tail(resultQueue)
        /\ hidden' = hidden + 1 /\ pc' = "overflow"
        /\ ran' = ran /\ coroutineFlag' = coroutineFlag
        /\ checkpoint_is_live' = checkpoint_is_live /\ exit_env' = exit_env
        /\ printBuf' = printBuf /\ displayBuf' = displayBuf /\ step' = step
        /\ work' = work
        /\ executions' = executions /\ displayBuf_h' = displayBuf_h
        /\ success' = success /\ first_display' = first_display /\ results' = results
        /\ image' = image /\ piece' = piece /\ run' = run
    BY DEF CountHidden, device
  <1> DEFINE q == resultQueue
             h == Head(q)
             r == Tail(q)
  <1>2. /\ q \in Seq(ResultType) /\ results \in Seq(ResultType) /\ Ascending(q)
        /\ hidden \in Nat /\ Len(results) = MaxResults
    BY <1>1 DEF KernelInv, KernelTypes, TypeOK, Report
  <1>3. /\ h \in ResultType /\ r \in Seq(ResultType) /\ h = q[1] /\ 1 \in DOMAIN q
        /\ \A i \in DOMAIN r : \E j \in DOMAIN q : r[i] = q[j]
        /\ Ascending(r)
        /\ h.data \in Nat
        /\ Cardinality(Data(q) \ {0}) \in Nat /\ Cardinality(Data(r) \ {0}) \in Nat
        /\ h.data # 0 => Cardinality(Data(r) \ {0}) = Cardinality(Data(q) \ {0}) - 1
    BY <1>1, <1>2, TailOfQueue
  <1>4. resultQueue' = r
    BY <1>1
  <1>5. \A i \in DOMAIN r : r[i].count \in 1 .. NUMREPLS
    BY <1>3, EntryTypes
  <1> HIDE DEF q, h, r
  \* Something has been shown, so the empty text is gone.
  <1>6. results # <<>>
    BY <1>2, MultikernelAssumption, EmptySeq
  <1>7. (\A i \in DOMAIN q : q[i].data > 0) /\ h.data # 0
    BY <1>1, <1>3, <1>6 DEF KernelInv, Report, q
  <1>8. KernelTypes'
    BY <1>1, <1>2, <1>3, <1>4, <1>5 DEF KernelInv, KernelTypes, TypeOK
  <1>9. Flags' /\ Executions' /\ Together' /\ Products'
    BY <1>1, RestPreserves
  <1>10. Picture' /\ ExecutedOnce' /\ OnlyExecution' /\ PictureIsOfThisRun'
    BY <1>1
    DEF KernelInv, Picture, Made, ExecutedOnce, OnlyExecution, Begun, Alike,
        PictureIsOfThisRun
  <1>11. (Alike' <=> Alike) /\ Nonempty' = Nonempty
    BY <1>1 DEF Alike, Nonempty
  <1>12. ASSUME Alike
         PROVE  /\ \A i \in DOMAIN r : r[i].data = 0 \/ IsTrue(r[i])
                /\ \A i \in DOMAIN results : IsTrue(results[i])
                /\ Len(results) + (hidden + 1) + Cardinality(Data(r) \ {0}) = Cardinality(Nonempty)
    <2>1. /\ \A i \in DOMAIN q : q[i].data = 0 \/ IsTrue(q[i])
          /\ \A i \in DOMAIN results : IsTrue(results[i])
          /\ Len(results) + hidden + Cardinality(Data(q) \ {0}) = Cardinality(Nonempty)
      BY <1>1, <1>12 DEF KernelInv, Report, q
    <2>2. \A i \in DOMAIN r : r[i].data = 0 \/ IsTrue(r[i])
      BY <1>3, <2>1, Zenon
    <2>3. Len(results) + (hidden + 1) + Cardinality(Data(r) \ {0})
            = Len(results) + hidden + Cardinality(Data(q) \ {0})
      <3> DEFINE c == Cardinality(Data(q) \ {0})
                 d == Cardinality(Data(r) \ {0})
                 l == Len(results)
      <3>1. c \in Nat /\ d \in Nat /\ l \in Nat /\ hidden \in Nat /\ d = c - 1
        BY <1>2, <1>3, <1>7, EntryTypes
      <3> HIDE DEF c, d, l
      <3>2. l + (hidden + 1) + d = l + hidden + c
        BY <3>1
      <3> QED
        BY <3>2 DEF c, d, l
    <2> QED
      BY <2>1, <2>2, <2>3
  <1>13. Report'
    <2>1. Ascending(resultQueue)' /\ Data(resultQueue)' = Data(r)
      BY <1>3, <1>4 DEF Ascending, Data
    <2>2. \A i \in DOMAIN resultQueue' : resultQueue'[i].data > 0
      BY <1>3, <1>4, <1>7
    <2>3. Alike' => \A i \in DOMAIN resultQueue' :
                       (resultQueue[i].data = 0)' \/ IsTrue(resultQueue[i])'
      <3>1. Alike => \A i \in DOMAIN r : r[i].data = 0 \/ IsTrue(r[i])
        BY <1>12
      <3>2. piece' = piece /\ run' = run /\ resultQueue' = r /\ (Alike' <=> Alike)
        BY <1>1, <1>4, <1>11
      <3> QED
        BY <3>1, <3>2, Zenon DEF IsTrue
    <2>4. Alike' => \A i \in DOMAIN results' : IsTrue(results[i])'
      <3>1. Alike => \A i \in DOMAIN results : IsTrue(results[i])
        BY <1>12
      <3>2. piece' = piece /\ run' = run /\ results' = results /\ (Alike' <=> Alike)
        BY <1>1, <1>11
      <3> QED
        BY <3>1, <3>2, Zenon DEF IsTrue
    <2>5. Alike' => Len(results') + hidden' + Cardinality(Data(resultQueue)' \ {0})
                      = Cardinality(Nonempty')
      BY <1>1, <1>11, <1>12, <2>1
    <2>6. pc' = "overflow" /\ Len(results') = MaxResults
      BY <1>1, <1>2
    <2> QED
      BY <2>1, <2>2, <2>3, <2>4, <2>5, <2>6 DEF Report
  <1> QED
    BY <1>8, <1>9, <1>10, <1>13 DEF KernelInv

LEMMA NoMorePreserves ==
    ASSUME KernelInv, NoMoreResults
    PROVE  KernelInv'
  <1>1. /\ pc \in {"drain", "overflow"} /\ resultQueue = <<>> /\ pc' = "display"
        /\ resultQueue' = resultQueue /\ hidden' = hidden
        /\ ran' = ran /\ coroutineFlag' = coroutineFlag
        /\ checkpoint_is_live' = checkpoint_is_live /\ exit_env' = exit_env
        /\ printBuf' = printBuf /\ displayBuf' = displayBuf /\ step' = step
        /\ work' = work
        /\ executions' = executions /\ displayBuf_h' = displayBuf_h
        /\ success' = success /\ first_display' = first_display /\ results' = results
        /\ image' = image /\ piece' = piece /\ run' = run
    BY DEF NoMoreResults, device, host, front
  <1>2. KernelTypes'
    BY <1>1 DEF KernelInv, KernelTypes, TypeOK
  <1>3. Flags' /\ Executions' /\ Together' /\ Products'
    BY <1>1, RestPreserves
  <1>4. Picture' /\ ExecutedOnce' /\ OnlyExecution' /\ PictureIsOfThisRun'
    BY <1>1
    DEF KernelInv, Picture, Made, ExecutedOnce, OnlyExecution, Begun, Alike,
        PictureIsOfThisRun
  <1>5. Report'
    BY <1>1 DEF KernelInv, Report, Alike, IsTrue, Nonempty, Data
  <1> QED
    BY <1>2, <1>3, <1>4, <1>5 DEF KernelInv

LEMMA DisplayPreserves ==
    ASSUME KernelInv, Display
    PROVE  KernelInv'
  <1> DEFINE any == \E t \in Tiles : displayBuf_h[t] # Off
  <1>1. /\ pc = "display" /\ pc' = "idle"
        /\ image' = IF any THEN displayBuf_h ELSE <<>>
        /\ first_display' = (first_display /\ ~any)
        /\ resultQueue' = resultQueue /\ hidden' = hidden
        /\ ran' = ran /\ coroutineFlag' = coroutineFlag
        /\ checkpoint_is_live' = checkpoint_is_live /\ exit_env' = exit_env
        /\ printBuf' = printBuf /\ displayBuf' = displayBuf /\ step' = step
        /\ work' = work
        /\ executions' = executions /\ displayBuf_h' = displayBuf_h
        /\ success' = success /\ results' = results
        /\ piece' = piece /\ run' = run
    BY DEF Display, device, host
  <1>2. first_display' \in BOOLEAN
    BY <1>1 DEF KernelInv, KernelTypes, TypeOK
  <1>3. KernelTypes'
    BY <1>1, <1>2 DEF KernelInv, KernelTypes, TypeOK
  <1>4. Flags' /\ Executions' /\ Together' /\ Products'
    BY <1>1, RestPreserves
  <1>5. Picture' /\ ExecutedOnce' /\ OnlyExecution'
    BY <1>1 DEF KernelInv, Picture, ExecutedOnce, OnlyExecution, Begun, Alike
  <1>6. PictureIsOfThisRun'
    <2> SUFFICES ASSUME success = 1
                 PROVE  /\ image' = IF \E t \in Tiles : work[t].pixel
                                    THEN [t \in Tiles |-> IF work[t].pixel THEN run ELSE Off]
                                    ELSE <<>>
                        /\ \A t \in Tiles : t # 0 \/ Alike => work[t] = piece[t]
      BY <1>1 DEF PictureIsOfThisRun, Alike
    <2>1. /\ \A t \in Tiles : displayBuf_h[t] = Made(t)
          /\ \A t \in Tiles : t # 0 \/ Alike => work[t] = piece[t]
      BY <1>1 DEF KernelInv, Picture, OnlyExecution
    <2>2. run # Off /\ displayBuf_h \in [Tiles -> {0, 1, Off}]
      BY DEF KernelInv, KernelTypes, TypeOK, Off
    <2>3. displayBuf_h = [t \in Tiles |-> IF work[t].pixel THEN run ELSE Off]
      BY <2>1, <2>2 DEF Made
    <2>4. any <=> \E t \in Tiles : work[t].pixel
      BY <2>1, <2>2 DEF Made
    <2> QED
      BY <1>1, <2>1, <2>3, <2>4
  <1>7. Report'
    <2>1. resultQueue' = <<>>
      BY <1>1 DEF KernelInv, Report
    <2> QED
      BY <1>1, <2>1 DEF Report, Ascending
  <1> QED
    BY <1>3, <1>4, <1>5, <1>6, <1>7 DEF KernelInv

LEMMA NotExecutedPreserves ==
    ASSUME KernelInv, NEW newCell \in BOOLEAN, NEW answer \in {0, -1},
           NotExecuted(newCell, answer)
    PROVE  KernelInv'
  <1>1. /\ pc = "idle" /\ pc' = "drain" /\ success' = answer /\ piece' = NoPiece
        /\ first_display' = (newCell \/ first_display)
        /\ results' = <<>> /\ hidden' = 0 /\ image' = <<>>
        /\ executions' = [t \in Tiles |-> 0]
        /\ resultQueue' = resultQueue
        /\ ran' = ran /\ coroutineFlag' = coroutineFlag
        /\ checkpoint_is_live' = checkpoint_is_live /\ exit_env' = exit_env
        /\ printBuf' = printBuf /\ displayBuf' = displayBuf /\ step' = step
        /\ work' = NoPiece /\ displayBuf_h' = displayBuf_h /\ run' = run
    BY DEF NotExecuted, NewMessages
  <1>2. NoPiece \in [Tiles -> Work]
    BY MultikernelAssumption DEF NoPiece, Work, Silent, Texts
  <1>3. first_display' \in BOOLEAN /\ executions' \in [Tiles -> 0 .. 2]
    <2>1. first_display' \in BOOLEAN
      BY <1>1 DEF KernelInv, KernelTypes, TypeOK
    <2>2. executions' \in [Tiles -> 0 .. 2]
      BY <1>1
    <2> QED
      BY <2>1, <2>2
  <1>4. results' \in Seq(ResultType) /\ Len(results') = 0 /\ 0 < MaxResults /\ DOMAIN results' = {}
    BY <1>1, EmptySeq, MultikernelAssumption
  <1>5. KernelTypes'
    BY <1>1, <1>2, <1>3, <1>4, MultikernelAssumption DEF KernelInv, KernelTypes, TypeOK
  <1>6. Flags' /\ Executions' /\ Together' /\ Products'
    BY <1>1, RestPreserves
  <1>7. Picture' /\ OnlyExecution' /\ PictureIsOfThisRun'
    BY <1>1 DEF Picture, OnlyExecution, Begun, PictureIsOfThisRun
  <1>8. ExecutedOnce'
    BY <1>1 DEF ExecutedOnce
  <1>9. Report'
    <2>1. (\A i \in DOMAIN resultQueue : resultQueue[i].data = 0) /\ Ascending(resultQueue)
      BY <1>1 DEF KernelInv, Report
    <2>2. Data(resultQueue)' = Data(resultQueue) /\ (Ascending(resultQueue)' <=> Ascending(resultQueue))
      BY <1>1 DEF Data, Ascending
    <2>3. Data(resultQueue) \ {0} = {}
      BY <2>1 DEF Data
    <2>4. Nonempty' = {}
      BY <1>1 DEF Nonempty, NoPiece, Silent
    <2>5. Len(results') + hidden' + Cardinality(Data(resultQueue)' \ {0}) = Cardinality(Nonempty')
      <3>1. Cardinality(Data(resultQueue)' \ {0}) = 0 /\ Cardinality(Nonempty') = 0
        BY <2>2, <2>3, <2>4, FS_EmptySet
      <3> QED
        BY <1>1, <1>4, <3>1
    <2> QED
      BY <1>1, <1>4, <2>1, <2>2, <2>5 DEF Report
  <1> QED
    BY <1>5, <1>6, <1>7, <1>8, <1>9 DEF KernelInv

LEMMA ExecutePreserves ==
    ASSUME KernelInv, NEW newCell \in BOOLEAN, Execute(newCell)
    PROVE  KernelInv'
  <1>1. /\ pc = "idle" /\ pc' = "first" /\ ran' = {} /\ success' = 1
        /\ piece' \in [Tiles -> Work] /\ run' = 1 - run
        /\ step' = [t \in Tiles |-> 0]
        /\ first_display' = (newCell \/ first_display)
        /\ results' = <<>> /\ hidden' = 0 /\ image' = <<>>
        /\ executions' = [t \in Tiles |-> 0]
        /\ resultQueue' = resultQueue /\ coroutineFlag' = coroutineFlag
        /\ checkpoint_is_live' = checkpoint_is_live /\ exit_env' = exit_env
        /\ printBuf' = printBuf /\ displayBuf' = displayBuf /\ work' = NoPiece
        /\ displayBuf_h' = displayBuf_h
    BY DEF Execute, NewMessages
  <1>2. \A t \in Tiles : ~checkpoint_is_live[t] /\ ~coroutineFlag[t]
    BY <1>1, AtRest
  <1>3. /\ run' \in {0, 1} /\ step' \in [Tiles -> 0 .. MaxYields]
        /\ executions' \in [Tiles -> 0 .. 2] /\ work' \in [Tiles -> Work]
    BY <1>1, MultikernelAssumption
    DEF KernelInv, KernelTypes, TypeOK, NoPiece, Work, Silent, Texts
  <1>4. first_display' \in BOOLEAN
    BY <1>1 DEF KernelInv, KernelTypes, TypeOK
  <1>5. results' \in Seq(ResultType) /\ Len(results') <= MaxResults
    BY <1>1, EmptySeq, MultikernelAssumption
  <1>6. KernelTypes'
    BY <1>1, <1>3, <1>4, <1>5 DEF KernelInv, KernelTypes, TypeOK
  <1>7. \A t \in Tiles : ~Begun(t)' /\ PassesBefore(t)' = 0
    BY <1>1, <1>2 DEF Begun, PassesBefore, Passes
  <1>8. Flags' /\ Executions' /\ OnlyExecution' /\ Products' /\ Picture' /\ PictureIsOfThisRun'
    BY <1>1, <1>2, <1>7
    DEF Flags, Executions, OnlyExecution, Products, Picture, PictureIsOfThisRun
  <1>9. Together'
    BY <1>1, <1>2, <1>7 DEF Together
  <1>10. ExecutedOnce' /\ Report'
    BY <1>1 DEF ExecutedOnce, Report
  <1> QED
    BY <1>6, <1>8, <1>9, <1>10 DEF KernelInv

-----------------------------------------------------------------------------
LEMMA StutterPreserves == KernelInv /\ UNCHANGED vars => KernelInv'
  <1> SUFFICES ASSUME KernelInv, UNCHANGED vars PROVE KernelInv'
    OBVIOUS
  <1>1. /\ pc' = pc /\ ran' = ran /\ coroutineFlag' = coroutineFlag
        /\ checkpoint_is_live' = checkpoint_is_live /\ exit_env' = exit_env
        /\ printBuf' = printBuf /\ displayBuf' = displayBuf /\ step' = step
        /\ work' = work
        /\ executions' = executions /\ displayBuf_h' = displayBuf_h
        /\ success' = success /\ first_display' = first_display /\ results' = results
        /\ hidden' = hidden /\ image' = image /\ piece' = piece /\ run' = run
        /\ resultQueue' = resultQueue
    BY DEF vars, device, host, front
  <1>2. KernelTypes' /\ ExecutedOnce' /\ PictureIsOfThisRun'
    BY <1>1 DEF KernelInv, KernelTypes, TypeOK, ExecutedOnce, Alike, PictureIsOfThisRun
  <1>3. Flags' /\ Executions' /\ OnlyExecution' /\ Together'
    BY <1>1
    DEF KernelInv, Flags, Executions, OnlyExecution, Together, Begun, Alike, PassesBefore, Passes
  <1>4. Products' /\ Picture' /\ Report'
    BY <1>1
    DEF KernelInv, Products, Picture, Report, Begun, Made, Alike, IsTrue, Nonempty, Data,
        Ascending
  <1> QED
    BY <1>2, <1>3, <1>4 DEF KernelInv

LEMMA NextPreserves == KernelInv /\ [Next]_vars => KernelInv'
  <1> SUFFICES ASSUME KernelInv, [Next]_vars PROVE KernelInv'
    OBVIOUS
  <1>1. CASE \E t \in Tiles : InitVertex(t)
    BY <1>1, InitVertexPreserves
  <1>2. CASE \E t \in Tiles, v \in Variants : RuntimeVertex(v, t)
    BY <1>2, RuntimeVertexIsPass, PassPreserves
  <1>3. CASE Any \/ CopyInit \/ CopyOut
    BY <1>3, AnyPreserves, CopyInitPreserves, CopyOutPreserves
  <1>4. CASE FetchResult \/ CountHidden \/ NoMoreResults \/ Display
    BY <1>4, FetchPreserves, CountPreserves, NoMorePreserves, DisplayPreserves
  <1>5. CASE User
    BY <1>5, ExecutePreserves, NotExecutedPreserves DEF User
  <1>6. CASE UNCHANGED vars
    BY <1>6, StutterPreserves
  <1> QED
    BY <1>1, <1>2, <1>3, <1>4, <1>5, <1>6 DEF Next, System

\* KernelInv holds of the kernel in every state, however many tiles there are and
\* however they yield.
THEOREM KernelInvariant == Spec => []KernelInv
  BY InitEstablishes, NextPreserves, PTL DEF Spec

\* The device's tensors, the host library's queue and the front end's counters keep
\* their types; in particular no more than MaxResults results are shown and every
\* result queued was made by at least one tile.
THEOREM KernelTypeCorrect == Spec => []TypeOK
  <1>1. KernelInv => TypeOK
    BY DEF KernelInv, KernelTypes
  <1> QED
    BY <1>1, KernelInvariant, PTL

\* RuntimeVertex executes a piece once on every tile but tile 0, whose flag Any
\* overwrites, and there too if the tiles yield equally often.
THEOREM PieceExecutedOnce == Spec => []ExecutedOnce
  <1>1. KernelInv => ExecutedOnce
    BY DEF KernelInv
  <1> QED
    BY <1>1, KernelInvariant, PTL

\* The picture the front end sends is made of the pixels the tiles' last executions
\* in this run set, and of no older ones, whatever a repeated execution does; on
\* every tile but tile 0, and there too if the tiles yield equally often, that
\* execution is the only one.
THEOREM PictureIsCurrent == Spec => []PictureIsOfThisRun
  <1>1. KernelInv => PictureIsOfThisRun
    BY DEF KernelInv
  <1> QED
    BY <1>1, KernelInvariant, PTL

\* The text the front end sends accounts for the output of every tile, in this run
\* and no other, if the tiles yield equally often: the callback's counts are right
\* and no text is lost or counted twice on its way through getResult.
THEOREM ReportIsComplete == Spec => []ReportAddsUp
  <1>1. KernelInv => ReportAddsUp
    <2> SUFFICES ASSUME KernelInv, pc = "display", Alike
                 PROVE  /\ Len(results) + hidden = Cardinality(Nonempty)
                        /\ \A i \in DOMAIN results : IsTrue(results[i])
      BY Zenon DEF ReportAddsUp, IsTrue
    <2>1. /\ resultQueue = <<>> /\ \A i \in DOMAIN results : IsTrue(results[i])
          /\ Len(results) + hidden + Cardinality(Data(resultQueue) \ {0})
                 = Cardinality(Nonempty)
      BY DEF KernelInv, Report
    <2>2. Data(resultQueue) \ {0} = {}
      BY <2>1 DEF Data
    <2>3. Cardinality(Data(resultQueue) \ {0}) = 0
      BY <2>2, FS_EmptySet
    <2>4. Len(results) \in Nat /\ hidden \in Nat
      BY EntryTypes DEF KernelInv, KernelTypes, TypeOK
    <2> QED
      BY <2>1, <2>3, <2>4
  <1> QED
    BY <1>1, KernelInvariant, PTL
=============================================================================
