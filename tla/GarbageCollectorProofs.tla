---------------------- MODULE GarbageCollectorProofs ----------------------
(***************************************************************************)
(* Theorems about GarbageCollector, for every size of the pool, of the     *)
(* mark stack and of the set of roots.                                     *)
(***************************************************************************)
EXTENDS GarbageCollector, SequenceTheorems, TLAPS

\* A block is traced when none of its words points to an unmarked head.
Traced(b) == \A w \in ChainWords(b) : ~IsUnmarked(Word(b, w))
RootsTraced == \A r \in RootSlots : ~IsUnmarked(root[r])

\* Where gc_mark_subtree will come by without another round over the table.
OnStack(b) == \E i \in 1 .. Len(stack) : stack[i] = b
Rescanning == pc = "rescan" \/ (pc = "mark" /\ back = "rescan")
StillToTrace(b) == OnStack(b) \/ (pc = "mark" /\ b = cur) \/ (Rescanning /\ b >= pos)

\* The parts of the state the marking phase rests on.
MarkTypes ==
    /\ at \in [0 .. NumBlocks -> Kinds]
    /\ stack \in Seq(Blocks)
    /\ overflow \in BOOLEAN
    /\ pos \in Nat
    /\ pc = "mark" => back \in {"roots", "rescan"} /\ cur \in Blocks
    /\ pc # "mark" => stack = <<>>

\* Marks exist only during a collection, and what is to be traced is marked.
MarksBelong ==
    /\ pc \in {"run", "retry"} => \A b \in Blocks : at[b] # "MARK"
    /\ pc = "mark" => at[cur] = "MARK"
    /\ \A i \in 1 .. Len(stack) : at[stack[i]] = "MARK"

\* A marked block is traced, or will be; unless the stack has overflowed, which the flag
\* tells.
MarkedIsTraced ==
    /\ pc \in {"roots", "mark", "rescan"} =>
        overflow \/ \A b \in Blocks : at[b] = "MARK" => Traced(b) \/ StillToTrace(b)
    /\ pc = "sweep" => \A b \in Blocks : at[b] = "MARK" => Traced(b)
    /\ Rescanning \/ pc = "sweep" => RootsTraced

MarkInv == MarkTypes /\ MarksBelong /\ MarkedIsTraced

---------------------------------------------------------------------------
\* ATB_HEAD_TO_MARK changes one entry, from head to mark.
MarksOne(p) == p \in Blocks /\ at[p] = "HEAD" /\ at' = [at EXCEPT ![p] = "MARK"]

\* Marking a block moves no end of a chain: ChainLen, the children loop of
\* gc_mark_subtree, looks for tails only.
LEMMA MarkKeepsChains ==
    ASSUME MarkTypes, NEW p, MarksOne(p), NEW b \in Blocks
    PROVE  ChainLen(b)' = ChainLen(b)
  <1>1. \A x \in 0 .. NumBlocks : at'[x] = "TAIL" <=> at[x] = "TAIL"
    BY DEF MarkTypes, MarksOne
  <1> DEFINE P(n) == /\ \A k \in 1 .. n - 1 : at[b + k] = "TAIL"
                     /\ b + n <= NumBlocks => at[b + n] # "TAIL"
             Q(n) == /\ \A k \in 1 .. n - 1 : at'[b + k] = "TAIL"
                     /\ b + n <= NumBlocks => at'[b + n] # "TAIL"
  <1>2. ASSUME NEW n \in 1 .. NumBlocks + 1 - b PROVE P(n) <=> Q(n)
    <2>1. \A k \in 1 .. n - 1 : b + k \in 0 .. NumBlocks
      BY HeapAssumption DEF Blocks
    <2>2. b + n <= NumBlocks => b + n \in 0 .. NumBlocks
      BY HeapAssumption DEF Blocks
    <2> QED
      BY <1>1, <2>1, <2>2
  <1>3. (CHOOSE n \in 1 .. NumBlocks + 1 - b : P(n)) = (CHOOSE n \in 1 .. NumBlocks + 1 - b : Q(n))
    <2> HIDE DEF P, Q
    <2> QED
      BY <1>2, Zenon
  <1> QED
    BY <1>3 DEF ChainLen

\* Marking a block leaves the others as they were, and traced blocks traced.
LEMMA MarkKeepsTraced ==
    ASSUME MarkTypes, NEW p, MarksOne(p), mem' = mem
    PROVE  /\ at' \in [0 .. NumBlocks -> Kinds]
           /\ \A b \in Blocks : at'[b] = "MARK" <=> b = p \/ at[b] = "MARK"
           /\ \A x : IsUnmarked(x)' => IsUnmarked(x)
           /\ \A b \in Blocks : Traced(b) => Traced(b)'
  <1>1. at' \in [0 .. NumBlocks -> Kinds]
    BY DEF MarkTypes, MarksOne, Kinds
  <1>2. \A b \in Blocks : at'[b] = "MARK" <=> b = p \/ at[b] = "MARK"
    BY HeapAssumption DEF MarkTypes, MarksOne, Blocks
  <1>3. ASSUME NEW x, IsUnmarked(x)' PROVE IsUnmarked(x)
    BY <1>3, HeapAssumption DEF MarkTypes, MarksOne, IsUnmarked, Blocks
  <1>4. ASSUME NEW b \in Blocks, Traced(b) PROVE Traced(b)'
    <2>1. ChainWords(b)' = ChainWords(b)
      BY MarkKeepsChains DEF ChainWords
    <2>2. \A w : Word(b, w)' = Word(b, w)
      BY DEF Word
    <2> QED
      BY <1>3, <1>4, <2>1, <2>2, Zenon DEF Traced
  <1> QED
    BY <1>1, <1>2, <1>3, <1>4

\* Between collections nothing is marked.
Quiet(t) == t \in [0 .. NumBlocks -> Kinds] /\ \A b \in Blocks : t[b] # "MARK"

LEMMA ClaimIsQuiet ==
    ASSUME Quiet(at), NEW n, NEW i
    PROVE  Quiet(Claim(n, i))
  BY HeapAssumption DEF Quiet, Claim, Kinds, Blocks

LEMMA AllocIsQuiet ==
    ASSUME Quiet(at), NEW n, AllocFound(n)
    PROVE  Quiet(at')
  BY ClaimIsQuiet DEF AllocFound

LEMMA MoveIsQuiet ==
    ASSUME Quiet(at), NEW n, MoveFound(n)
    PROVE  Quiet(at')
  <1> DEFINE i == Min(RunEnds(n, last))
             old == root[Value] .. root[Value] + ChainLen(root[Value]) - 1
  <1>1. at' = [b \in 0 .. NumBlocks |-> IF b \in old THEN "FREE" ELSE Claim(n, i)[b]]
    BY DEF MoveFound
  <1>2. Quiet(Claim(n, i))
    BY ClaimIsQuiet
  <1> QED
    BY <1>1, <1>2, HeapAssumption DEF Quiet, Kinds, Blocks

\* A step that leaves the collector alone, or starts it.
LEMMA QuietStep ==
    ASSUME MarkInv, pc \in {"run", "retry"}, Quiet(at'),
           stack' = stack, overflow' \in BOOLEAN, pos' = pos,
           \/ pc' \in {"run", "retry"}
           \/ pc' = "roots"
    PROVE  MarkInv'
  <1>1. MarkTypes'
    BY DEF MarkInv, MarkTypes, Quiet
  <1>2. stack' = <<>>
    BY DEF MarkInv, MarkTypes
  <1>3. MarksBelong'
    BY <1>2 DEF MarksBelong, Quiet
  <1>4. MarkedIsTraced'
    BY DEF MarkedIsTraced, Rescanning, Quiet
  <1> QED
    BY <1>1, <1>3, <1>4 DEF MarkInv

LEMMA MutatorKeepsMarkInv ==
    ASSUME MarkInv, Mutator
    PROVE  MarkInv'
  <1>0. pc = "run" /\ Quiet(at) /\ overflow \in BOOLEAN
    BY DEF MarkInv, MarkTypes, MarksBelong, Quiet, Mutator, gc_alloc, gc_realloc, gc_free,
           Copy, Drop, Store
  <1>1. ASSUME NEW op, NEW n, CollectStart(op, n) PROVE MarkInv'
    BY <1>0, <1>1, QuietStep DEF CollectStart
  <1>2. ASSUME Quiet(at'), UNCHANGED collector PROVE MarkInv'
    BY <1>0, <1>2, QuietStep DEF collector
  <1>3. ASSUME NEW n \in 1 .. MaxRequest, gc_alloc(n) PROVE MarkInv'
    BY <1>0, <1>1, <1>2, <1>3, AllocIsQuiet DEF gc_alloc
  <1>4. ASSUME NEW n \in 1 .. MaxRequest, gc_realloc(n) PROVE MarkInv'
    <2> DEFINE b == root[Value]
    <2>1. CASE ReallocShrink(b, n) /\ UNCHANGED collector
      <3>1. Quiet(at')
        BY <1>0, <2>1, HeapAssumption DEF ReallocShrink, Quiet, Kinds, Blocks
      <3> QED
        BY <1>2, <2>1, <3>1
    <2>2. CASE ReallocInPlace(b, n) /\ UNCHANGED collector
      <3>1. Quiet(at')
        BY <1>0, <2>2, HeapAssumption DEF ReallocInPlace, Quiet, Kinds, Blocks
      <3> QED
        BY <1>2, <2>2, <3>1
    <2>3. CASE MoveFound(n) /\ UNCHANGED collector
      BY <1>0, <1>2, <2>3, MoveIsQuiet
    <2>4. CASE CollectStart("move", n)
      BY <1>1, <2>4
    <2> QED
      BY <1>4, <2>1, <2>2, <2>3, <2>4 DEF gc_realloc
  <1>5. CASE gc_free
    <2>1. Quiet(at')
      BY <1>0, <1>5, HeapAssumption DEF gc_free, Quiet, Kinds, Blocks
    <2> QED
      BY <1>2, <1>5, <2>1 DEF gc_free
  <1>6. ASSUME NEW r \in RootSlots, Copy(r) \/ Drop(r) PROVE MarkInv'
    BY <1>0, <1>2, <1>6 DEF Copy, Drop
  <1>7. ASSUME NEW r, NEW q, Store(r, q) PROVE MarkInv'
    BY <1>0, <1>2, <1>7 DEF Store
  <1> QED
    BY <1>3, <1>4, <1>5, <1>6, <1>7 DEF Mutator

---------------------------------------------------------------------------
\* A root is marked and becomes the block being traced (gc_collect_root).
LEMMA CollectRootKeepsMarkInv ==
    ASSUME MarkInv, CollectRoot
    PROVE  MarkInv'
  <1>1. PICK r \in RootSlots : IsUnmarked(root[r]) /\ cur' = root[r] /\ MarksOne(root[r])
    BY DEF CollectRoot, MarksOne, IsUnmarked
  <1>2. /\ pc = "roots" /\ pc' = "mark" /\ back' = "roots" /\ mem' = mem
        /\ stack' = stack /\ overflow' = overflow /\ pos' = pos /\ stack = <<>>
    BY DEF CollectRoot, MarkInv, MarkTypes
  <1>3. /\ at' \in [0 .. NumBlocks -> Kinds]
        /\ \A b \in Blocks : at'[b] = "MARK" <=> b = cur' \/ at[b] = "MARK"
        /\ \A b \in Blocks : Traced(b) => Traced(b)'
    BY <1>1, <1>2, MarkKeepsTraced DEF MarkInv
  <1>4. cur' \in Blocks
    BY <1>1 DEF MarksOne
  <1>5. MarkTypes'
    BY <1>2, <1>3, <1>4 DEF MarkInv, MarkTypes
  <1>6. MarksBelong'
    BY <1>2, <1>3, <1>4 DEF MarksBelong
  <1>7. MarkedIsTraced'
    <2>1. SUFFICES ASSUME ~overflow, NEW b \in Blocks, at'[b] = "MARK"
                   PROVE  Traced(b)' \/ StillToTrace(b)'
      BY <1>2 DEF MarkedIsTraced, Rescanning
    <2>2. CASE b = cur'
      BY <1>2, <2>2 DEF StillToTrace
    <2>3. CASE at[b] = "MARK"
      <3>1. ~StillToTrace(b)
        BY <1>2 DEF StillToTrace, OnStack, Rescanning
      <3> QED
        BY <1>2, <1>3, <2>1, <2>3, <3>1 DEF MarkInv, MarkedIsTraced
    <2> QED
      BY <1>3, <2>1, <2>2, <2>3
  <1> QED
    BY <1>5, <1>6, <1>7 DEF MarkInv

\* A child is marked and pushed, or marked and left for another round.
LEMMA MarkChildKeepsMarkInv ==
    ASSUME MarkInv, MarkChild
    PROVE  MarkInv'
  <1>1. PICK w \in ChainWords(cur) :
            /\ IsUnmarked(Word(cur, w))
            /\ at' = [at EXCEPT ![Word(cur, w)] = "MARK"]
            /\ \/ /\ Len(stack) < StackSize
                  /\ stack' = Append(stack, Word(cur, w))
                  /\ UNCHANGED overflow
               \/ /\ Len(stack) >= StackSize
                  /\ overflow' = TRUE
                  /\ UNCHANGED stack
    BY DEF MarkChild
  <1> DEFINE p == Word(cur, w)
  <1>2. MarksOne(p)
    BY <1>1 DEF MarksOne, IsUnmarked
  <1>3. /\ pc = "mark" /\ pc' = "mark" /\ back' = back /\ cur' = cur /\ pos' = pos
        /\ mem' = mem /\ root' = root
    BY DEF MarkChild
  <1>4. /\ at' \in [0 .. NumBlocks -> Kinds]
        /\ \A b \in Blocks : at'[b] = "MARK" <=> b = p \/ at[b] = "MARK"
        /\ \A x : IsUnmarked(x)' => IsUnmarked(x)
        /\ \A b \in Blocks : Traced(b) => Traced(b)'
    BY <1>2, <1>3, MarkKeepsTraced DEF MarkInv
  <1>5. p \in Blocks
    BY <1>2 DEF MarksOne
  <1> HIDE DEF p
  <1>6. CASE stack' = Append(stack, p) /\ overflow' = overflow
    <2>1. stack \in Seq(Blocks) /\ stack' \in Seq(Blocks)
      BY <1>5, <1>6 DEF MarkInv, MarkTypes
    <2>2. /\ Len(stack') = Len(stack) + 1
          /\ stack'[Len(stack) + 1] = p
          /\ \A i \in 1 .. Len(stack) : stack'[i] = stack[i] /\ stack[i] \in Blocks
      BY <1>5, <1>6, <2>1
    <2>3. MarkTypes'
      BY <1>3, <1>4, <1>6, <2>1 DEF MarkInv, MarkTypes
    <2>4. \A i \in 1 .. Len(stack') : at'[stack'[i]] = "MARK"
      <3> SUFFICES ASSUME NEW i \in 1 .. Len(stack') PROVE at'[stack'[i]] = "MARK"
        OBVIOUS
      <3>1. i \in 1 .. Len(stack) \/ i = Len(stack) + 1
        BY <2>1, <2>2
      <3> QED
        BY <1>4, <1>5, <2>2, <3>1 DEF MarkInv, MarksBelong
    <2>5. MarksBelong'
      BY <1>3, <1>4, <2>4 DEF MarkInv, MarksBelong, MarkTypes
    <2>6. MarkedIsTraced'
      <3>1. \A b : OnStack(b) => OnStack(b)'
        BY <2>1, <2>2 DEF OnStack
      <3>2. \A b : b = p => OnStack(b)'
        BY <2>1, <2>2 DEF OnStack
      <3>3. \A b : StillToTrace(b) => StillToTrace(b)'
        BY <1>3, <3>1 DEF StillToTrace, Rescanning
      <3>4. RootsTraced => RootsTraced'
        BY <1>3, <1>4 DEF RootsTraced
      <3>5. \A b : b = p => StillToTrace(b)'
        BY <3>2 DEF StillToTrace
      <3>6. overflow' \/ \A b \in Blocks : at'[b] = "MARK" => Traced(b)' \/ StillToTrace(b)'
        BY <1>3, <1>4, <1>6, <3>3, <3>5 DEF MarkInv, MarkedIsTraced
      <3> QED
        BY <1>3, <3>4, <3>6 DEF MarkInv, MarkedIsTraced, Rescanning
    <2> QED
      BY <2>3, <2>5, <2>6 DEF MarkInv
  <1>7. CASE overflow' = TRUE /\ stack' = stack
    <2>1. MarkTypes'
      BY <1>3, <1>4, <1>7 DEF MarkInv, MarkTypes
    <2>2. stack \in Seq(Blocks)
      BY DEF MarkInv, MarkTypes
    <2>3. MarksBelong'
      BY <1>3, <1>4, <1>7, <2>2 DEF MarkInv, MarksBelong, MarkTypes
    <2>4. RootsTraced => RootsTraced'
      BY <1>3, <1>4 DEF RootsTraced
    <2>5. MarkedIsTraced'
      BY <1>3, <1>7, <2>4 DEF MarkInv, MarkedIsTraced, Rescanning
    <2> QED
      BY <2>1, <2>3, <2>5 DEF MarkInv
  <1> QED
    BY <1>1, <1>6, <1>7 DEF p

\* The block being traced has no unmarked child left: the next one comes off the stack,
\* or gc_mark_subtree returns.
LEMMA MarkPopKeepsMarkInv ==
    ASSUME MarkInv, MarkPop
    PROVE  MarkInv'
  <1>1. /\ pc = "mark" /\ at' = at /\ mem' = mem /\ root' = root /\ overflow' = overflow
        /\ pos' = pos /\ Traced(cur)
    BY DEF MarkPop, Traced
  <1>2. /\ at \in [0 .. NumBlocks -> Kinds] /\ stack \in Seq(Blocks) /\ pos \in Nat
        /\ back \in {"roots", "rescan"} /\ cur \in Blocks /\ overflow \in BOOLEAN
    BY <1>1 DEF MarkInv, MarkTypes
  <1>3. /\ \A b : Traced(b)' <=> Traced(b)
        /\ RootsTraced' <=> RootsTraced
    BY <1>1 DEF Traced, RootsTraced, ChainWords, ChainLen, Word, IsUnmarked
  <1>4. CASE stack # <<>> /\ cur' = stack[Len(stack)]
               /\ stack' = SubSeq(stack, 1, Len(stack) - 1) /\ UNCHANGED <<pc, back>>
    <2>1. /\ Len(stack) \in Nat \ {0} /\ cur' \in Blocks /\ stack' \in Seq(Blocks)
          /\ Len(stack') = Len(stack) - 1
          /\ \A i \in 1 .. Len(stack) - 1 : stack'[i] = stack[i]
      <3>1. Len(stack) \in Nat \ {0}
        BY <1>2, <1>4, EmptySeq
      <3>2. cur' \in Blocks
        BY <1>2, <1>4, <3>1, ElementOfSeq
      <3>3. /\ stack' \in Seq(Blocks) /\ Len(stack') = Len(stack) - 1
            /\ \A i \in 1 .. Len(stack) - 1 : stack'[i] = stack[i]
        <4>1. \A i \in 1 .. Len(stack) - 1 : stack[i] \in Blocks
          BY <1>2, <3>1, ElementOfSeq
        <4> DEFINE n == Len(stack) - 1
        <4>2. n \in Int /\ 1 \in Int /\ n \in Nat
          BY <3>1
        <4>3. /\ SubSeq(stack, 1, n) \in Seq(Blocks)
              /\ Len(SubSeq(stack, 1, n)) = IF 1 <= n THEN n - 1 + 1 ELSE 0
              /\ \A i \in 1 .. n - 1 + 1 : SubSeq(stack, 1, n)[i] = stack[1 + i - 1]
          <5> HIDE DEF n
          <5> QED
            BY ONLY <4>1, <4>2, SubSeqProperties DEF n
        <4>4. \A i \in 1 .. n : SubSeq(stack, 1, n)[i] = stack[i]
          <5> HIDE DEF n
          <5> QED
            BY ONLY <4>2, <4>3
        <4>5. Len(SubSeq(stack, 1, n)) = n
          <5> HIDE DEF n
          <5> QED
            BY ONLY <4>2, <4>3
        <4> QED
          BY <1>4, <4>3, <4>4, <4>5
      <3> QED
        BY <3>1, <3>2, <3>3
    <2>2. MarkTypes'
      BY <1>1, <1>2, <1>4, <2>1 DEF MarkTypes
    <2>3. MarksBelong'
      BY <1>1, <1>4, <2>1 DEF MarkInv, MarksBelong
    <2>4. \A b : OnStack(b) => OnStack(b)' \/ b = cur'
      BY <1>4, <2>1 DEF OnStack
    <2>5. \A b : StillToTrace(b) => StillToTrace(b)' \/ b = cur
      BY <1>1, <1>4, <2>4 DEF StillToTrace, Rescanning
    <2>6. MarkedIsTraced'
      BY <1>1, <1>3, <1>4, <2>5 DEF MarkInv, MarkedIsTraced, Rescanning
    <2> QED
      BY <2>2, <2>3, <2>6 DEF MarkInv
  <1>5. CASE stack = <<>> /\ pc' = back /\ stack' = stack
    <2>1. MarkTypes'
      BY <1>1, <1>2, <1>5 DEF MarkTypes
    <2>2. MarksBelong'
      BY <1>1, <1>2, <1>5 DEF MarksBelong
    <2>3. \A b : StillToTrace(b) => StillToTrace(b)' \/ b = cur
      BY <1>1, <1>2, <1>5 DEF StillToTrace, Rescanning, OnStack
    <2>4. MarkedIsTraced'
      BY <1>1, <1>2, <1>3, <1>5, <2>3 DEF MarkInv, MarkedIsTraced, Rescanning
    <2> QED
      BY <2>1, <2>2, <2>4 DEF MarkInv
  <1> QED
    BY <1>4, <1>5 DEF MarkPop

\* The steps between two calls of gc_mark_subtree: the table does not change.
LEMMA RescanKeepsMarkInv ==
    ASSUME MarkInv, RootsDone \/ RescanBlock \/ RescanRound \/ RescanDone
    PROVE  MarkInv'
  <1>1. /\ pc # "mark" /\ at' = at /\ mem' = mem /\ root' = root /\ stack' = stack
    BY DEF RootsDone, RescanBlock, RescanRound, RescanDone
  <1>2. /\ at \in [0 .. NumBlocks -> Kinds] /\ stack = <<>> /\ pos \in Nat
        /\ overflow \in BOOLEAN /\ stack \in Seq(Blocks)
    BY <1>1 DEF MarkInv, MarkTypes
  <1>3. /\ \A b : Traced(b)' <=> Traced(b)
        /\ RootsTraced' <=> RootsTraced
    BY <1>1 DEF Traced, RootsTraced, ChainWords, ChainLen, Word, IsUnmarked
  <1>4. \A b : ~OnStack(b) /\ ~OnStack(b)'
    BY <1>1, <1>2 DEF OnStack
  <1>5. CASE RootsDone
    <2>1. pc = "roots" /\ pc' = "rescan" /\ pos' = NumBlocks /\ overflow' = overflow /\ RootsTraced
      BY <1>5 DEF RootsDone, RootsTraced
    <2>2. MarkTypes' /\ MarksBelong'
      BY <1>1, <1>2, <2>1, HeapAssumption DEF MarkTypes, MarksBelong
    <2>3. MarkedIsTraced'
      BY <1>1, <1>3, <1>4, <2>1 DEF MarkInv, MarkedIsTraced, Rescanning, StillToTrace
    <2> QED
      BY <2>2, <2>3 DEF MarkInv
  <1>6. CASE RescanBlock
    <2>1. PICK b \in pos .. NumBlocks - 1 :
            /\ at[b] = "MARK"
            /\ \A c \in pos .. b - 1 : at[c] # "MARK"
            /\ cur' = b /\ pos' = b + 1
      BY <1>6 DEF RescanBlock
    <2>2. pc = "rescan" /\ pc' = "mark" /\ back' = "rescan" /\ overflow' = overflow
      BY <1>6 DEF RescanBlock
    <2>3. b \in Blocks
      BY <1>2, <2>1, HeapAssumption DEF Blocks
    <2>4. MarkTypes' /\ MarksBelong'
      BY <1>1, <1>2, <2>1, <2>2, <2>3 DEF MarkTypes, MarksBelong, Blocks
    <2>5. ASSUME NEW c \in Blocks, at[c] = "MARK", StillToTrace(c) PROVE StillToTrace(c)'
      <3>1. c >= pos
        BY <1>4, <2>2, <2>5 DEF StillToTrace
      <3>2. c \notin pos .. b - 1
        BY <2>1, <2>5
      <3>3. c = b \/ c >= b + 1
        BY <1>2, <2>3, <3>1, <3>2, HeapAssumption DEF Blocks
      <3> QED
        BY <2>1, <2>2, <3>3 DEF StillToTrace, Rescanning
    <2>6. MarkedIsTraced'
      BY <1>1, <1>3, <2>2, <2>5 DEF MarkInv, MarkedIsTraced, Rescanning
    <2> QED
      BY <2>4, <2>6 DEF MarkInv
  <1>7. CASE RescanRound
    <2>1. pc = "rescan" /\ pc' = "rescan" /\ pos' = 0 /\ overflow' = FALSE
      BY <1>7 DEF RescanRound
    <2>2. overflow' \in BOOLEAN
      BY <2>1
    <2>3. MarkTypes' /\ MarksBelong'
      BY <1>1, <1>2, <2>1, <2>2 DEF MarkTypes, MarksBelong
    <2>4. \A b \in Blocks : StillToTrace(b)'
      BY <2>1 DEF StillToTrace, Rescanning, Blocks
    <2>5. MarkedIsTraced'
      BY <1>3, <2>1, <2>4 DEF MarkInv, MarkedIsTraced, Rescanning
    <2> QED
      BY <2>3, <2>5 DEF MarkInv
  <1>8. CASE RescanDone
    <2>1. /\ pc = "rescan" /\ pc' = "sweep" /\ pos' = 0 /\ ~overflow /\ overflow' = overflow
          /\ \A b \in pos .. NumBlocks - 1 : at[b] # "MARK"
      BY <1>8 DEF RescanDone
    <2>2. MarkTypes' /\ MarksBelong'
      BY <1>1, <1>2, <2>1 DEF MarkTypes, MarksBelong
    <2>3. \A b \in Blocks : at[b] = "MARK" => ~StillToTrace(b)
      BY <1>2, <1>4, <2>1, HeapAssumption DEF StillToTrace, Rescanning, Blocks
    <2>4. MarkedIsTraced'
      BY <1>1, <1>3, <2>1, <2>3 DEF MarkInv, MarkedIsTraced, Rescanning
    <2> QED
      BY <2>2, <2>4 DEF MarkInv
  <1> QED
    BY <1>5, <1>6, <1>7, <1>8

\* The sweep removes every mark, and the retry of the allocation makes none.
LEMMA SweepKeepsMarkInv ==
    ASSUME MarkInv, Sweep \/ Retry
    PROVE  MarkInv'
  <1>1. CASE Sweep
    <2>1. \A b \in Blocks : Swept(b) \in Kinds \ {"MARK"}
      BY HeapAssumption DEF MarkInv, MarkTypes, Swept, Kinds, Blocks
    <2>2. Quiet(at')
      BY <1>1, <2>1, HeapAssumption DEF Sweep, Quiet, MarkInv, MarkTypes, Blocks
    <2>3. stack = <<>>
      BY <1>1 DEF Sweep, MarkInv, MarkTypes
    <2> QED
      BY <1>1, <2>2, <2>3
      DEF Sweep, MarkInv, MarkTypes, MarksBelong, MarkedIsTraced, Rescanning, Quiet
  <1>2. CASE Retry
    <2>1. Quiet(at) /\ overflow \in BOOLEAN
      BY <1>2 DEF Retry, MarkInv, MarkTypes, MarksBelong, Quiet
    <2>2. Quiet(at')
      BY <1>2, <2>1, AllocIsQuiet, MoveIsQuiet DEF Retry
    <2> QED
      BY <1>2, <2>1, <2>2, QuietStep DEF Retry
  <1> QED
    BY <1>1, <1>2

---------------------------------------------------------------------------
\* The marking phase is sound: MarkInv holds throughout.
THEOREM MarkingInvariant == Spec => []MarkInv
  <1>1. Init => MarkInv
    <2> SUFFICES ASSUME Init PROVE MarkInv
      OBVIOUS
    <2>1. overflow \in BOOLEAN
      BY DEF Init
    <2>2. /\ pc = "run" /\ pos = 0 /\ stack = <<>> /\ stack \in Seq(Blocks) /\ Len(stack) = 0
          /\ at = [b \in 0 .. NumBlocks |-> "FREE"]
      BY DEF Init, gc_init
    <2>3. MarkTypes
      BY <2>1, <2>2 DEF MarkTypes, Kinds
    <2>4. MarksBelong
      BY <2>2, HeapAssumption DEF MarksBelong, Blocks
    <2>5. MarkedIsTraced
      BY <2>2 DEF MarkedIsTraced, Rescanning
    <2> QED
      BY <2>3, <2>4, <2>5 DEF MarkInv
  <1>2. MarkInv /\ [Next]_vars => MarkInv'
    <2> SUFFICES ASSUME MarkInv, [Next]_vars PROVE MarkInv'
      OBVIOUS
    <2>1. CASE Mutator
      BY <2>1, MutatorKeepsMarkInv
    <2>2. CASE Collector
      BY <2>2, CollectRootKeepsMarkInv, MarkChildKeepsMarkInv, MarkPopKeepsMarkInv,
         RescanKeepsMarkInv, SweepKeepsMarkInv DEF Collector
    <2>3. CASE UNCHANGED vars
      BY <2>3 DEF vars, MarkInv, MarkTypes, MarksBelong, MarkedIsTraced, Rescanning, Traced,
         StillToTrace, OnStack, RootsTraced, ChainWords, ChainLen, Word, IsUnmarked
    <2> QED
      BY <2>1, <2>2, <2>3 DEF Next
  <1> QED
    BY <1>1, <1>2, PTL DEF Spec

\* No reachable object is unmarked when gc_sweep starts, for every size of the pool and of
\* the mark stack and however often the stack overflowed.  The marked blocks contain the
\* roots' targets and, being traced, are closed under pointers, so they contain the
\* smallest such set.
THEOREM MarkingIsComplete == Spec => []ReachableIsMarked
  <1>1. MarkInv => ReachableIsMarked
    <2> SUFFICES ASSUME MarkInv, pc = "sweep", NEW b \in Reachable PROVE at[b] = "MARK"
      BY DEF ReachableIsMarked
    <2> DEFINE M == {x \in Blocks : at[x] = "MARK"}
    <2>1. M \subseteq Heads
      BY DEF Heads, IsHead
    <2>2. RootTargets \subseteq M
      BY DEF MarkInv, MarkedIsTraced, RootsTraced, RootTargets, IsHead, IsUnmarked
    <2>3. ClosedUnderPointers(M)
      BY DEF MarkInv, MarkedIsTraced, Traced, ClosedUnderPointers, IsHead, IsUnmarked
    <2>4. CASE b \notin M
      <3>1. M \in SUBSET (Heads \ {b})
        BY <2>1, <2>4
      <3> QED
        BY <2>2, <2>3, <3>1 DEF Reachable
    <2> QED
      BY <2>4
  <1> QED
    BY <1>1, MarkingInvariant, PTL
===========================================================================
