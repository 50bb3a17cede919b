--------------------- MODULE GarbageCollectorHeapProofs ---------------------
(***************************************************************************)
(* Theorems about the heap of GarbageCollector, for every size of the pool *)
(* and every sequence of requests: the table stays well formed, the hint   *)
(* skips nothing, no object loses a block, nothing reachable is freed and  *)
(* nothing unreachable survives a collection.                              *)
(*                                                                         *)
(* The lemmas about chains and reachability speak of an arbitrary table t, *)
(* memory m and set of roots r, so that they can be used of the state      *)
(* before and of the state after a step.                                   *)
(***************************************************************************)
EXTENDS GarbageCollectorProofs, WellFoundedInduction

\* A set of numbers that is not empty has a least element.
LEMMA LeastExists ==
    ASSUME NEW T, T \subseteq Nat, T # {}
    PROVE  \E x \in T : \A y \in T : x <= y
  <1>1. PICK x \in T : \A y \in T : ~(<<y, x>> \in OpToRel(<, Nat))
    BY WFMin, NatLessThanWellFounded
  <1>2. \A y \in T : ~(y < x)
    BY <1>1 DEF OpToRel
  <1> QED
    BY <1>2

\* ... and a greatest one when it is bounded.
LEMMA GreatestExists ==
    ASSUME NEW T, NEW n \in Nat, T \subseteq 0 .. n, T # {}
    PROVE  \E x \in T : \A y \in T : x >= y
  <1> DEFINE D == {n - x : x \in T}
  <1>1. D \subseteq Nat /\ D # {}
    <2>1. \A x \in T : n - x \in Nat
      OBVIOUS
    <2>2. PICK x \in T : TRUE
      OBVIOUS
    <2>3. n - x \in D
      OBVIOUS
    <2> QED
      BY <2>1, <2>3, Zenon
  <1>2. PICK d \in D : \A e \in D : d <= e
    <2> HIDE DEF D
    <2> QED
      BY <1>1, LeastExists
  <1>3. PICK x \in T : d = n - x
    BY <1>2
  <1>4. ASSUME NEW y \in T PROVE x >= y
    <2>1. n - y \in D
      OBVIOUS
    <2>2. n - x <= n - y
      BY <1>2, <1>3, <2>1
    <2> QED
      BY <2>2
  <1> QED
    BY <1>4

\* What Min and Max give.
LEMMA MinIsLeast ==
    ASSUME NEW T, T \subseteq Nat, T # {}
    PROVE  Min(T) \in T /\ \A y \in T : Min(T) <= y
  BY LeastExists, Zenon DEF Min

LEMMA MaxIsGreatest ==
    ASSUME NEW T, NEW n \in Nat, T \subseteq 0 .. n, T # {}
    PROVE  Max(T) \in T /\ \A y \in T : Max(T) >= y
  <1>1. \E x \in T : \A y \in T : x >= y
    BY GreatestExists
  <1> QED
    BY <1>1, Zenon DEF Max

\* The table byte of a block, and the block and slot of a word.
LEMMA DivBounds ==
    ASSUME NEW a \in Nat, NEW d \in Nat \ {0}
    PROVE  /\ a \div d \in Nat
           /\ (a \div d) * d <= a
           /\ a < (a \div d) * d + d
           /\ a % d \in 0 .. d - 1
  OBVIOUS

LEMMA DivLess ==
    ASSUME NEW a \in Nat, NEW d \in Nat \ {0}, NEW n \in Nat, a < n * d
    PROVE  a \div d \in 0 .. n - 1
  <1>1. a \div d \in Nat /\ (a \div d) * d <= a
    BY DivBounds
  <1> DEFINE q == a \div d
  <1>2. q * d < n * d
    BY <1>1
  <1>3. q < n
    <2> HIDE DEF q
    <2> QED
      BY <1>1, <1>2 DEF q
  <1> QED
    BY <1>1, <1>3

LEMMA DivGrows ==
    ASSUME NEW a \in Nat, NEW n \in Nat, NEW d \in Nat \ {0}, a <= n
    PROVE  a \div d <= n \div d
  <1> DEFINE q == a \div d
             p == n \div d
  <1>1. q \in Nat /\ p \in Nat /\ q * d <= a /\ n < p * d + d
    BY DivBounds
  <1> HIDE DEF q, p
  <1>2. q * d < (p + 1) * d
    BY <1>1
  <1>3. q < p + 1
    BY <1>1, <1>2
  <1> QED
    BY <1>1, <1>3 DEF q, p

LEMMA DivOfSum ==
    ASSUME NEW q \in Nat, NEW d \in Nat \ {0}, NEW s \in 0 .. d - 1
    PROVE  (q * d + s) \div d = q /\ (q * d + s) % d = s
  <1> DEFINE a == q * d + s
             p == a \div d
  <1>1. a \in Nat
    OBVIOUS
  <1>2. p \in Nat /\ p * d <= a /\ a < p * d + d
    <2> HIDE DEF a
    <2> QED
      BY <1>1, DivBounds
  <1>3. q * d < (p + 1) * d /\ p * d < (q + 1) * d
    <2> HIDE DEF p
    <2> QED
      BY <1>2
  <1>4. q < p + 1 /\ p < q + 1
    <2> HIDE DEF p, a
    <2> QED
      BY <1>2, <1>3
  <1>5. p = q
    <2> HIDE DEF p, a
    <2> QED
      BY <1>2, <1>4
  <1>6. (q * d + s) % d = s
    OBVIOUS
  <1> QED
    BY <1>5, <1>6

---------------------------------------------------------------------------
(***************************************************************************)
(* Chains.                                                                 *)
(***************************************************************************)
Table(t) == t \in [0 .. NumBlocks -> Kinds] /\ t[NumBlocks] = "FREE"

\* n blocks from b: tails up to an entry that is none.
Chain(t, b, n) ==
    /\ \A k \in 1 .. n - 1 : t[b + k] = "TAIL"
    /\ b + n <= NumBlocks => t[b + n] # "TAIL"

LenIn(t, b) == CHOOSE n \in 1 .. NumBlocks + 1 - b : Chain(t, b, n)

\* The loops over a chain end inside the table.
LEMMA ChainExists ==
    ASSUME NEW t, Table(t), NEW b \in Blocks
    PROVE  LenIn(t, b) \in 1 .. NumBlocks - b /\ Chain(t, b, LenIn(t, b))
  <1> USE HeapAssumption DEF Blocks
  <1> DEFINE T == {n \in 1 .. NumBlocks - b : t[b + n] # "TAIL"}
  <1>1. T \subseteq Nat /\ NumBlocks - b \in T
    BY DEF Table
  <1>2. PICK n \in T : \A m \in T : n <= m
    <2> HIDE DEF T
    <2> QED
      BY <1>1, LeastExists
  <1>3. n \in 1 .. NumBlocks - b /\ n \in 1 .. NumBlocks + 1 - b
    OBVIOUS
  <1>4. \A k \in 1 .. n - 1 : t[b + k] = "TAIL"
    BY <1>2
  <1>5. Chain(t, b, n)
    BY <1>4 DEF Chain
  <1>6. LenIn(t, b) \in 1 .. NumBlocks + 1 - b /\ Chain(t, b, LenIn(t, b))
    BY <1>3, <1>5, Zenon DEF LenIn
  <1>7. LenIn(t, b) # NumBlocks + 1 - b
    <2> SUFFICES ASSUME LenIn(t, b) = NumBlocks + 1 - b PROVE FALSE
      OBVIOUS
    <2>1. NumBlocks - b \in 1 .. LenIn(t, b) - 1
      OBVIOUS
    <2>2. t[b + (NumBlocks - b)] = "TAIL"
      BY <1>6, <2>1 DEF Chain
    <2> QED
      BY <2>2 DEF Table
  <1> QED
    BY <1>6, <1>7

LEMMA ChainUnique ==
    ASSUME NEW t, Table(t), NEW b \in Blocks, NEW n \in 1 .. NumBlocks - b, Chain(t, b, n)
    PROVE  LenIn(t, b) = n
  <1> DEFINE len == LenIn(t, b)
  <1>1. len \in 1 .. NumBlocks - b /\ Chain(t, b, len)
    BY ChainExists
  <1> HIDE DEF len
  <1>2. ~(n < len)
    BY <1>1, HeapAssumption DEF Chain, Blocks
  <1>3. ~(len < n)
    BY <1>1, HeapAssumption DEF Chain, Blocks
  <1> QED
    BY <1>1, <1>2, <1>3, HeapAssumption DEF len, Blocks

\* A chain is what its own entries and the one behind it make it.
LEMMA ChainKept ==
    ASSUME NEW t, Table(t), NEW u, Table(u), NEW b \in Blocks,
           \A k \in 1 .. LenIn(t, b) : u[b + k] = "TAIL" <=> t[b + k] = "TAIL"
    PROVE  LenIn(u, b) = LenIn(t, b)
  <1> DEFINE len == LenIn(t, b)
  <1>1. len \in 1 .. NumBlocks - b /\ Chain(t, b, len)
    BY ChainExists
  <1>2. Chain(u, b, len)
    <2> HIDE DEF len
    <2> QED
      BY <1>1, HeapAssumption DEF Chain, Blocks, len
  <1> QED
    BY <1>1, <1>2, ChainUnique

\* The blocks of a chain.
BlocksOf(t, b) == b .. b + LenIn(t, b) - 1

LEMMA ChainBlocks ==
    ASSUME NEW t, Table(t), NEW b \in Blocks
    PROVE  /\ LenIn(t, b) \in 1 .. NumBlocks - b
           /\ BlocksOf(t, b) \subseteq Blocks /\ b \in BlocksOf(t, b)
           /\ \A x \in BlocksOf(t, b) : x # b => t[x] = "TAIL"
           /\ t[b + LenIn(t, b)] # "TAIL"
           /\ b + LenIn(t, b) \in 0 .. NumBlocks
  <1> DEFINE len == LenIn(t, b)
  <1>1. len \in 1 .. NumBlocks - b /\ Chain(t, b, len)
    BY ChainExists
  <1> HIDE DEF len
  <1>2. \A x \in b .. b + len - 1 : x # b => x - b \in 1 .. len - 1 /\ b + (x - b) = x
    BY <1>1, HeapAssumption DEF Blocks
  <1>3. \A x \in b .. b + len - 1 : x # b => t[x] = "TAIL"
    BY <1>1, <1>2 DEF Chain
  <1>4. b .. b + len - 1 \subseteq Blocks /\ b \in b .. b + len - 1
    BY <1>1, HeapAssumption DEF Blocks
  <1>5. t[b + len] # "TAIL" /\ b + len \in 0 .. NumBlocks
    BY <1>1, HeapAssumption DEF Chain, Blocks
  <1> QED
    BY <1>1, <1>3, <1>4, <1>5 DEF len, BlocksOf

\* Two objects share no block.
LEMMA ChainsDisjoint ==
    ASSUME NEW t, Table(t), NEW b \in Blocks, NEW c \in Blocks,
           t[b] # "TAIL", t[c] # "TAIL", b # c
    PROVE  BlocksOf(t, b) \cap BlocksOf(t, c) = {}
  <1> SUFFICES ASSUME NEW x \in BlocksOf(t, b), x \in BlocksOf(t, c) PROVE FALSE
    OBVIOUS
  <1>1. LenIn(t, b) \in Nat /\ LenIn(t, c) \in Nat /\ b \in Nat /\ c \in Nat
    BY ChainBlocks, HeapAssumption DEF Blocks
  <1>2. CASE b < c
    <2>1. c \in BlocksOf(t, b)
      BY <1>1, <1>2 DEF BlocksOf
    <2> QED
      BY <2>1, ChainBlocks
  <1>3. CASE c < b
    <2>1. b \in BlocksOf(t, c)
      BY <1>1, <1>3 DEF BlocksOf
    <2> QED
      BY <2>1, ChainBlocks
  <1> QED
    BY <1>1, <1>2, <1>3

---------------------------------------------------------------------------
(***************************************************************************)
(* What a chain holds, and what can be reached.                            *)
(***************************************************************************)
HeadIn(t, p) == p \in Blocks /\ t[p] \in {"HEAD", "MARK"}
HeadsIn(t) == {b \in Blocks : HeadIn(t, b)}
WordsIn(t, b) == 0 .. LenIn(t, b) * WordsPerBlock - 1
WordIn(m, b, w) == m[b + w \div WordsPerBlock][w % WordsPerBlock]

\* The words of a chain are the slots of its blocks.
LEMMA WordsAreSlots ==
    ASSUME NEW t, Table(t), NEW b \in Blocks
    PROVE  /\ \A w \in WordsIn(t, b) :
                b + w \div WordsPerBlock \in BlocksOf(t, b) /\ w % WordsPerBlock \in WordSlots
           /\ \A x \in BlocksOf(t, b), s \in WordSlots :
                \E w \in WordsIn(t, b) :
                    b + w \div WordsPerBlock = x /\ w % WordsPerBlock = s
  <1> DEFINE len == LenIn(t, b)
             d == WordsPerBlock
  <1>1. len \in Nat \ {0} /\ d \in Nat \ {0} /\ b \in Nat
    BY ChainBlocks, HeapAssumption DEF Blocks
  <1> HIDE DEF len, d
  <1>2. ASSUME NEW w \in 0 .. len * d - 1
        PROVE  b + w \div d \in b .. b + len - 1 /\ w % d \in 0 .. d - 1
    <2>1. len * d \in Nat /\ w \in Nat /\ w < len * d
      BY <1>1, <1>2
    <2>2. w \div d \in 0 .. len - 1
      BY <1>1, <2>1, DivLess
    <2>3. w % d \in 0 .. d - 1
      BY <1>1, <2>1, DivBounds
    <2> QED
      BY <1>1, <2>2, <2>3
  <1>3. ASSUME NEW x \in b .. b + len - 1, NEW s \in 0 .. d - 1
        PROVE  \E w \in 0 .. len * d - 1 : b + w \div d = x /\ w % d = s
    <2> DEFINE q == x - b
               w == q * d + s
    <2>1. q \in Nat /\ q <= len - 1 /\ b + q = x
      BY <1>1
    <2> HIDE DEF q
    <2>2. q * d <= (len - 1) * d
      BY <1>1, <2>1
    <2>3. w \in 0 .. len * d - 1
      BY <1>1, <2>1, <2>2
    <2>4. w \div d = q /\ w % d = s
      BY <1>1, <2>1, DivOfSum
    <2> QED
      BY <2>1, <2>3, <2>4
  <1> QED
    BY <1>2, <1>3 DEF len, d, WordsIn, BlocksOf, WordSlots

\* What Reachable is in the state with table t, memory m and roots rt.
ClosedIn(t, m, S) ==
    \A b \in S : \A w \in WordsIn(t, b) :
        HeadIn(t, WordIn(m, b, w)) => WordIn(m, b, w) \in S
TargetsIn(t, rt) == {rt[r] : r \in {q \in RootSlots : HeadIn(t, rt[q])}}
ReachIn(t, m, rt) ==
    {b \in HeadsIn(t) : \A S \in SUBSET (HeadsIn(t) \ {b}) :
        TargetsIn(t, rt) \subseteq S => ~ClosedIn(t, m, S)}

LEMMA LenIsChainLen ==
    /\ \A b : ChainLen(b) = LenIn(at, b)
    /\ \A b : ChainLen(b)' = LenIn(at', b)
  BY DEF ChainLen, LenIn, Chain

LEMMA ReachIsReachable ==
    /\ Reachable = ReachIn(at, mem, root)
    /\ Reachable' = ReachIn(at', mem', root')
  BY DEF Reachable, ReachIn, TargetsIn, RootTargets, ClosedIn, ClosedUnderPointers, HeadsIn,
         Heads, HeadIn, IsHead, WordsIn, ChainWords, WordIn, Word, ChainLen, LenIn, Chain

\* It is the smallest closed set with the roots' targets.
LEMMA ReachIsLeast ==
    ASSUME NEW t, NEW m, NEW rt
    PROVE  /\ ReachIn(t, m, rt) \subseteq HeadsIn(t)
           /\ TargetsIn(t, rt) \subseteq ReachIn(t, m, rt)
           /\ ClosedIn(t, m, ReachIn(t, m, rt))
           /\ \A S \in SUBSET HeadsIn(t) :
                TargetsIn(t, rt) \subseteq S /\ ClosedIn(t, m, S) => ReachIn(t, m, rt) \subseteq S
  <1> DEFINE R == ReachIn(t, m, rt)
             H == HeadsIn(t)
             T == TargetsIn(t, rt)
  <1>1. R \subseteq H
    BY DEF ReachIn
  <1>2. T \subseteq H
    BY DEF TargetsIn, HeadsIn, HeadIn
  <1>3. ASSUME NEW S \in SUBSET H, T \subseteq S, ClosedIn(t, m, S), NEW b \in R PROVE b \in S
    <2>1. CASE b \notin S
      <3>1. S \in SUBSET (H \ {b})
        BY <2>1
      <3> QED
        BY <1>3, <3>1 DEF ReachIn
    <2> QED
      BY <2>1
  <1>4. T \subseteq R
    BY <1>2 DEF ReachIn
  <1>5. ASSUME NEW b \in R, NEW w \in WordsIn(t, b), HeadIn(t, WordIn(m, b, w))
        PROVE  WordIn(m, b, w) \in R
    <2> DEFINE p == WordIn(m, b, w)
    <2>1. p \in H
      BY <1>5 DEF HeadsIn, HeadIn
    <2>2. ASSUME NEW S \in SUBSET (H \ {p}), T \subseteq S, ClosedIn(t, m, S) PROVE FALSE
      <3>1. b \in S
        BY <1>3, <2>2
      <3> QED
        BY <1>5, <2>2, <3>1 DEF ClosedIn
    <2> QED
      BY <2>1, <2>2 DEF ReachIn
  <1> QED
    BY <1>1, <1>3, <1>4, <1>5 DEF ClosedIn

\* A set of objects that holds every object its roots and its own words point to: no
\* pointer of the interpreter leads to a block that is no object.
SafeIn(t, m, rt, S) ==
    /\ S \subseteq HeadsIn(t)
    /\ \A r \in RootSlots : rt[r] \in Blocks => rt[r] \in S
    /\ \A b \in S : \A x \in BlocksOf(t, b), s \in WordSlots : m[x][s] \in Blocks => m[x][s] \in S

\* If there is such a set, the reachable objects are one, and part of it.
LEMMA ReachIsSafe ==
    ASSUME NEW t, Table(t), NEW m, NEW rt, NEW S, SafeIn(t, m, rt, S)
    PROVE  /\ SafeIn(t, m, rt, ReachIn(t, m, rt))
           /\ ReachIn(t, m, rt) \subseteq S
  <1> DEFINE R == ReachIn(t, m, rt)
  <1>1. S \subseteq HeadsIn(t) /\ TargetsIn(t, rt) \subseteq S
    BY DEF SafeIn, TargetsIn, HeadIn
  <1>2. ClosedIn(t, m, S)
    <2> SUFFICES ASSUME NEW b \in S, NEW w \in WordsIn(t, b), HeadIn(t, WordIn(m, b, w))
                 PROVE  WordIn(m, b, w) \in S
      BY DEF ClosedIn
    <2>1. b \in Blocks
      BY <1>1 DEF HeadsIn
    <2>2. b + w \div WordsPerBlock \in BlocksOf(t, b) /\ w % WordsPerBlock \in WordSlots
      BY <2>1, WordsAreSlots
    <2> QED
      BY <2>2 DEF SafeIn, WordIn, HeadIn
  <1>3. R \subseteq S
    BY <1>1, <1>2, ReachIsLeast
  <1>4. R \subseteq HeadsIn(t) /\ TargetsIn(t, rt) \subseteq R /\ ClosedIn(t, m, R)
    BY ReachIsLeast
  <1>5. \A r \in RootSlots : rt[r] \in Blocks => rt[r] \in R
    BY <1>1, <1>4 DEF SafeIn, TargetsIn, HeadsIn
  <1>6. ASSUME NEW b \in R, NEW x \in BlocksOf(t, b), NEW s \in WordSlots, m[x][s] \in Blocks
        PROVE  m[x][s] \in R
    <2>1. b \in S /\ b \in Blocks
      BY <1>1, <1>3 DEF HeadsIn
    <2>2. PICK w \in WordsIn(t, b) : b + w \div WordsPerBlock = x /\ w % WordsPerBlock = s
      BY <2>1, WordsAreSlots
    <2>3. WordIn(m, b, w) = m[x][s]
      BY <2>2 DEF WordIn
    <2>4. HeadIn(t, m[x][s])
      BY <1>1, <1>6, <2>1 DEF SafeIn, HeadsIn
    <2> QED
      BY <1>4, <2>3, <2>4 DEF ClosedIn
  <1> QED
    BY <1>3, <1>4, <1>5, <1>6 DEF SafeIn

---------------------------------------------------------------------------
(***************************************************************************)
(* What the operations do to the table.                                    *)
(***************************************************************************)
WellTable(t) == Table(t) /\ \A b \in Blocks : t[b] = "TAIL" => b > 0 /\ t[b - 1] # "FREE"

\* An object's chain is the same in both tables.
SameObject(t, u, c) == u[c] = t[c] /\ LenIn(u, c) = LenIn(t, c)

\* An object has none of the free blocks.
LEMMA ObjectIsNotFree ==
    ASSUME NEW t, Table(t), NEW c, HeadIn(t, c), NEW x \in BlocksOf(t, c)
    PROVE  x \in Blocks /\ t[x] # "FREE"
  <1>1. c \in Blocks /\ t[c] # "FREE"
    BY DEF HeadIn
  <1>2. x \in Blocks /\ (x # c => t[x] = "TAIL")
    BY <1>1, ChainBlocks
  <1> QED
    BY <1>1, <1>2

\* A step that leaves an object's entries alone, and puts no tail behind it, keeps it.
LEMMA ObjectKept ==
    ASSUME NEW t, Table(t), NEW u, Table(u), NEW c \in Blocks,
           \A x \in BlocksOf(t, c) : u[x] = t[x],
           u[c + LenIn(t, c)] # "TAIL"
    PROVE  SameObject(t, u, c)
  <1> DEFINE len == LenIn(t, c)
  <1>1. /\ len \in 1 .. NumBlocks - c /\ c \in BlocksOf(t, c)
        /\ t[c + len] # "TAIL" /\ BlocksOf(t, c) = c .. c + len - 1
    BY ChainBlocks DEF BlocksOf
  <1>2. ASSUME NEW k \in 1 .. len PROVE u[c + k] = "TAIL" <=> t[c + k] = "TAIL"
    <2> HIDE DEF len
    <2>1. CASE k = len
      BY <1>1, <2>1 DEF len
    <2>2. CASE k # len
      <3>1. c + k \in c .. c + len - 1
        BY <1>1, <2>2, HeapAssumption DEF Blocks
      <3> QED
        BY <1>1, <3>1
    <2> QED
      BY <2>1, <2>2
  <1>3. LenIn(u, c) = LenIn(t, c)
    BY <1>2, ChainKept
  <1> QED
    BY <1>1, <1>3 DEF SameObject

\* gc_alloc's claim of a free run of n blocks that ends at i.
ClaimedIn(t, n, i) ==
    [b \in 0 .. NumBlocks |->
        IF b = i + 1 - n THEN "HEAD" ELSE IF b \in i + 2 - n .. i THEN "TAIL" ELSE t[b]]

LEMMA Claiming ==
    ASSUME NEW t, WellTable(t), NEW n \in Nat \ {0}, NEW i \in Blocks, i + 1 - n >= 0,
           \A b \in i + 1 - n .. i : t[b] = "FREE"
    PROVE  /\ WellTable(ClaimedIn(t, n, i))
           /\ i + 1 - n \in Blocks
           /\ LenIn(ClaimedIn(t, n, i), i + 1 - n) = n
           /\ \A c : HeadIn(t, c) => SameObject(t, ClaimedIn(t, n, i), c)
  <1> DEFINE u == ClaimedIn(t, n, i)
             new == i + 1 - n
  <1>1. /\ new \in Blocks /\ new \in Nat /\ i \in Nat /\ NumBlocks \in Nat /\ i < NumBlocks
        /\ new <= i /\ n = i + 1 - new
    BY HeapAssumption DEF Blocks
  <1>2. u \in [0 .. NumBlocks -> Kinds]
    BY DEF ClaimedIn, WellTable, Table, Kinds
  <1>3. /\ u[new] = "HEAD"
        /\ \A b \in new + 1 .. i : u[b] = "TAIL"
        /\ \A b \in 0 .. NumBlocks : b \notin new .. i => u[b] = t[b]
    <2>1. new \in 0 .. NumBlocks /\ \A b \in new + 1 .. i : b \in 0 .. NumBlocks /\ b # new
      BY <1>1
    <2>2. \A b \in 0 .. NumBlocks : b \notin new .. i => b # new /\ b \notin new + 1 .. i
      BY <1>1
    <2>3. i + 2 - n = new + 1
      BY <1>1
    <2> QED
      BY <2>1, <2>2, <2>3 DEF ClaimedIn
  <1> HIDE DEF u
  <1>4. Table(u)
    BY <1>1, <1>2, <1>3 DEF Table, WellTable
  <1>5. ASSUME NEW b \in Blocks, u[b] = "TAIL" PROVE b > 0 /\ u[b - 1] # "FREE"
    <2>1. CASE b \in new + 1 .. i
      <3>1. b - 1 = new \/ b - 1 \in new + 1 .. i
        BY <1>1, <2>1
      <3> QED
        BY <1>1, <1>3, <2>1, <3>1
    <2>2. CASE b \notin new .. i
      <3>1. t[b] = "TAIL"
        BY <1>1, <1>3, <1>5, <2>2 DEF Blocks
      <3>2. b > 0 /\ t[b - 1] # "FREE"
        BY <3>1 DEF WellTable
      <3>3. b - 1 \notin new .. i
        BY <3>2
      <3>4. b - 1 \in 0 .. NumBlocks
        BY <1>1, <3>2 DEF Blocks
      <3> QED
        BY <1>3, <3>2, <3>3, <3>4
    <2>3. b # new
      BY <1>3, <1>5
    <2> QED
      BY <1>1, <2>1, <2>2, <2>3 DEF Blocks
  <1>6. i \in new .. i /\ t[i] = "FREE"
    BY <1>1
  <1>7. u[i + 1] # "TAIL"
    <2>1. i + 1 \in 0 .. NumBlocks /\ i + 1 \notin new .. i
      BY <1>1
    <2>2. CASE i + 1 = NumBlocks
      BY <1>3, <2>1, <2>2 DEF WellTable, Table
    <2>3. CASE i + 1 # NumBlocks
      <3>1. i + 1 \in Blocks /\ (i + 1) - 1 = i
        BY <1>1, <2>3 DEF Blocks
      <3>2. t[i + 1] # "TAIL"
        BY <1>6, <3>1 DEF WellTable
      <3> QED
        BY <1>3, <2>1, <3>2
    <2> QED
      BY <2>2, <2>3
  <1>8. LenIn(u, new) = n
    <2>1. n \in 1 .. NumBlocks - new
      BY <1>1
    <2>2. new + n = i + 1
      BY <1>1
    <2>3. \A k \in 1 .. n - 1 : new + k \in new + 1 .. i
      BY <1>1
    <2>4. \A k \in 1 .. n - 1 : u[new + k] = "TAIL"
      BY <1>3, <2>3
    <2>5. Chain(u, new, n)
      BY <1>7, <2>2, <2>4 DEF Chain
    <2> HIDE DEF new
    <2> QED
      BY <1>1, <1>4, <2>1, <2>5, ChainUnique
  <1>9. ASSUME NEW c, HeadIn(t, c) PROVE SameObject(t, u, c)
    <2>1. Table(t) /\ c \in Blocks
      BY <1>9 DEF WellTable, HeadIn
    <2>2. \A x \in BlocksOf(t, c) : x \in Blocks /\ t[x] # "FREE"
      BY <1>9, <2>1, ObjectIsNotFree
    <2>3. \A x \in BlocksOf(t, c) : u[x] = t[x]
      <3>1. \A x \in BlocksOf(t, c) : x \notin new .. i
        BY <2>2
      <3>2. \A x \in Blocks : x \in 0 .. NumBlocks
        BY <1>1 DEF Blocks
      <3> QED
        BY <1>3, <2>2, <3>1, <3>2
    <2> DEFINE e == c + LenIn(t, c)
    <2>4. /\ e \in 0 .. NumBlocks /\ t[e] # "TAIL" /\ e - 1 \in BlocksOf(t, c)
      <3>1. LenIn(t, c) \in 1 .. NumBlocks - c /\ t[e] # "TAIL" /\ e \in 0 .. NumBlocks
        BY <2>1, ChainBlocks
      <3>2. e - 1 \in c .. c + LenIn(t, c) - 1
        BY <2>1, <3>1, HeapAssumption DEF Blocks
      <3> QED
        BY <3>1, <3>2 DEF BlocksOf
    <2> HIDE DEF e
    <2>5. e - 1 \notin new .. i
      BY <2>2, <2>4
    <2>6. e \notin new + 1 .. i
      BY <1>1, <2>4, <2>5
    <2>7. u[e] # "TAIL"
      <3>1. CASE e = new
        BY <1>3, <3>1
      <3>2. CASE e # new
        <4>1. e \notin new .. i
          BY <1>1, <2>4, <2>6, <3>2
        <4> QED
          BY <1>3, <2>4, <4>1
      <3> QED
        BY <3>1, <3>2
    <2> QED
      BY <1>4, <2>1, <2>3, <2>7, ObjectKept DEF e
  <1> QED
    BY <1>1, <1>4, <1>5, <1>8, <1>9 DEF WellTable, u

\* gc_free's loop over a chain, and gc_realloc's over its end: the n first blocks stay.
FreedIn(t, b, n) ==
    [k \in 0 .. NumBlocks |-> IF k \in b + n .. b + LenIn(t, b) - 1 THEN "FREE" ELSE t[k]]

LEMMA Freeing ==
    ASSUME NEW t, WellTable(t), NEW b, HeadIn(t, b), NEW n \in Nat, n < LenIn(t, b)
    PROVE  /\ WellTable(FreedIn(t, b, n))
           /\ \A c : HeadIn(t, c) /\ c # b => SameObject(t, FreedIn(t, b, n), c)
           /\ n > 0 => FreedIn(t, b, n)[b] = t[b] /\ LenIn(FreedIn(t, b, n), b) = n
  <1> DEFINE u == FreedIn(t, b, n)
             len == LenIn(t, b)
             e == b + len
  <1>1. /\ Table(t) /\ b \in Blocks /\ b \in Nat /\ NumBlocks \in Nat /\ b < NumBlocks
        /\ t[b] # "TAIL" /\ t[b] # "FREE"
    BY HeapAssumption DEF WellTable, HeadIn, Blocks
  <1>2. /\ len \in 1 .. NumBlocks - b /\ t[e] # "TAIL" /\ e \in 0 .. NumBlocks
        /\ BlocksOf(t, b) = b .. e - 1
        /\ \A x \in b .. e - 1 : x # b => t[x] = "TAIL"
    BY <1>1, ChainBlocks DEF BlocksOf
  <1>3. /\ \A k \in b + n .. e - 1 : u[k] = "FREE"
        /\ \A k \in 0 .. NumBlocks : k \notin b + n .. e - 1 => u[k] = t[k]
        /\ u \in [0 .. NumBlocks -> Kinds]
    <2>1. \A k \in b + n .. e - 1 : k \in 0 .. NumBlocks
      BY <1>1, <1>2
    <2>2. \A k \in b + n .. e - 1 : u[k] = "FREE"
      BY <1>1, <1>2, <2>1 DEF FreedIn
    <2>3. \A k \in 0 .. NumBlocks : k \notin b + n .. e - 1 => u[k] = t[k]
      BY <1>1, <1>2 DEF FreedIn
    <2>4. u \in [0 .. NumBlocks -> Kinds]
      BY <1>1 DEF FreedIn, Table, Kinds
    <2> QED
      BY <2>2, <2>3, <2>4
  <1> HIDE DEF u, len, e
  <1>4. e = b + len /\ n < len /\ len \in Nat
    BY <1>2, <1>1 DEF e, len
  <1>5. Table(u)
    BY <1>1, <1>2, <1>3, <1>4 DEF Table
  <1>6. ASSUME NEW x \in Blocks, u[x] = "TAIL" PROVE x > 0 /\ u[x - 1] # "FREE"
    <2>1. x \notin b + n .. e - 1 /\ t[x] = "TAIL" /\ x \in Nat /\ x < NumBlocks
      BY <1>1, <1>3, <1>6 DEF Blocks
    <2>2. x > 0 /\ t[x - 1] # "FREE" /\ x - 1 \in 0 .. NumBlocks
      BY <1>1, <2>1 DEF WellTable, Blocks
    <2>3. x # e
      BY <1>2, <2>1
    <2>4. x - 1 \notin b + n .. e - 1
      BY <1>1, <1>4, <2>1, <2>3
    <2> QED
      BY <1>3, <2>2, <2>4
  <1>7. ASSUME NEW c, HeadIn(t, c), c # b PROVE SameObject(t, u, c)
    <2>1. c \in Blocks /\ t[c] # "TAIL"
      BY <1>7 DEF HeadIn
    <2>2. BlocksOf(t, b) \cap BlocksOf(t, c) = {}
      BY <1>1, <1>7, <2>1, ChainsDisjoint
    <2>3. /\ BlocksOf(t, c) \subseteq Blocks
          /\ t[c + LenIn(t, c)] # "TAIL" /\ c + LenIn(t, c) \in 0 .. NumBlocks
      BY <1>1, <2>1, ChainBlocks
    <2>4. \A x \in BlocksOf(t, c) : u[x] = t[x]
      <3>1. \A x \in b + n .. e - 1 : x \in BlocksOf(t, b)
        BY <1>1, <1>2, <1>4
      <3>2. \A x \in BlocksOf(t, c) : x \in 0 .. NumBlocks
        BY <1>1, <2>3 DEF Blocks
      <3> QED
        BY <1>3, <2>2, <3>1, <3>2
    <2>5. u[c + LenIn(t, c)] # "TAIL"
      BY <1>3, <2>3
    <2> QED
      BY <1>1, <1>5, <2>1, <2>4, <2>5, ObjectKept
  <1>8. ASSUME n > 0 PROVE u[b] = t[b] /\ LenIn(u, b) = n
    <2>1. u[b] = t[b]
      BY <1>1, <1>3, <1>8
    <2>2. n \in 1 .. NumBlocks - b
      BY <1>1, <1>2, <1>4, <1>8
    <2>3. u[b + n] # "TAIL"
      BY <1>1, <1>3, <1>4
    <2>4. ASSUME NEW k \in 1 .. n - 1 PROVE u[b + k] = "TAIL"
      <3>1. /\ b + k \in b .. e - 1 /\ b + k # b /\ b + k \notin b + n .. e - 1
            /\ b + k \in 0 .. NumBlocks
        BY <1>1, <1>2, <1>4
      <3> QED
        BY <1>2, <1>3, <3>1
    <2>5. Chain(u, b, n)
      BY <2>3, <2>4 DEF Chain
    <2> QED
      BY <1>1, <1>5, <2>1, <2>2, <2>5, ChainUnique
  <1> QED
    BY <1>5, <1>6, <1>7, <1>8 DEF WellTable, u

\* gc_realloc takes the free blocks behind a chain.
GrownIn(t, b, n) ==
    [k \in 0 .. NumBlocks |-> IF k \in b + LenIn(t, b) .. b + n - 1 THEN "TAIL" ELSE t[k]]

LEMMA Growing ==
    ASSUME NEW t, WellTable(t), NEW b, HeadIn(t, b), NEW n \in Nat, LenIn(t, b) < n,
           b + n <= NumBlocks, \A k \in b + LenIn(t, b) .. b + n - 1 : t[k] = "FREE"
    PROVE  /\ WellTable(GrownIn(t, b, n))
           /\ \A c : HeadIn(t, c) /\ c # b => SameObject(t, GrownIn(t, b, n), c)
           /\ GrownIn(t, b, n)[b] = t[b] /\ LenIn(GrownIn(t, b, n), b) = n
  <1> DEFINE u == GrownIn(t, b, n)
             len == LenIn(t, b)
             e == b + len
  <1>1. /\ Table(t) /\ b \in Blocks /\ b \in Nat /\ NumBlocks \in Nat /\ b < NumBlocks
        /\ t[b] # "TAIL" /\ t[b] # "FREE"
    BY HeapAssumption DEF WellTable, HeadIn, Blocks
  <1>2. /\ len \in 1 .. NumBlocks - b /\ t[e] # "TAIL" /\ e \in 0 .. NumBlocks
        /\ BlocksOf(t, b) = b .. e - 1
        /\ \A x \in b .. e - 1 : x # b => t[x] = "TAIL"
    BY <1>1, ChainBlocks DEF BlocksOf
  <1>3. /\ \A k \in e .. b + n - 1 : u[k] = "TAIL" /\ t[k] = "FREE"
        /\ \A k \in 0 .. NumBlocks : k \notin e .. b + n - 1 => u[k] = t[k]
        /\ u \in [0 .. NumBlocks -> Kinds]
    <2>1. \A k \in e .. b + n - 1 : k \in 0 .. NumBlocks
      BY <1>1, <1>2
    <2> QED
      BY <1>1, <2>1 DEF GrownIn, Table, Kinds
  <1> HIDE DEF u, len, e
  <1>4. e = b + len /\ len < n /\ len \in Nat \ {0}
    BY <1>2, <1>1 DEF e, len
  <1>5. Table(u)
    BY <1>1, <1>2, <1>3, <1>4 DEF Table
  <1>6. ASSUME NEW x \in Blocks, u[x] = "TAIL" PROVE x > 0 /\ u[x - 1] # "FREE"
    <2>1. x \in Nat /\ x < NumBlocks
      BY <1>1 DEF Blocks
    <2>2. CASE x \in e .. b + n - 1
      <3>1. x > 0 /\ (x - 1 \in e .. b + n - 1 \/ x - 1 = e - 1)
        BY <1>1, <1>4, <2>1, <2>2
      <3>2. e - 1 \in b .. e - 1 /\ e - 1 \in 0 .. NumBlocks /\ e - 1 \notin e .. b + n - 1
        BY <1>1, <1>2, <1>4
      <3>3. u[e - 1] # "FREE"
        BY <1>1, <1>2, <1>3, <3>2
      <3> QED
        BY <1>3, <3>1, <3>3
    <2>3. CASE x \notin e .. b + n - 1
      <3>1. t[x] = "TAIL"
        BY <1>1, <1>3, <1>6, <2>1, <2>3
      <3>2. x > 0 /\ t[x - 1] # "FREE"
        BY <3>1 DEF WellTable
      <3>3. x - 1 \in 0 .. NumBlocks
        BY <1>1, <2>1, <3>2
      <3>4. u[x - 1] = "TAIL" \/ u[x - 1] = t[x - 1]
        BY <1>3, <3>3
      <3> QED
        BY <3>2, <3>4
    <2> QED
      BY <2>2, <2>3
  <1>7. ASSUME NEW c, HeadIn(t, c), c # b PROVE SameObject(t, u, c)
    <2>1. c \in Blocks /\ t[c] # "TAIL" /\ c \in Nat
      BY <1>1, <1>7 DEF HeadIn, Blocks
    <2>2. \A x \in BlocksOf(t, c) : x \in Blocks /\ t[x] # "FREE"
      BY <1>1, <1>7, ObjectIsNotFree
    <2>3. \A x \in BlocksOf(t, c) : u[x] = t[x]
      <3>1. \A x \in BlocksOf(t, c) : x \in 0 .. NumBlocks
        BY <1>1, <2>2 DEF Blocks
      <3> QED
        BY <1>3, <2>2, <3>1
    <2> DEFINE f == c + LenIn(t, c)
    <2>4. /\ LenIn(t, c) \in 1 .. NumBlocks - c /\ t[f] # "TAIL" /\ f \in 0 .. NumBlocks
          /\ f - 1 \in BlocksOf(t, c)
      <3>1. LenIn(t, c) \in 1 .. NumBlocks - c /\ t[f] # "TAIL" /\ f \in 0 .. NumBlocks
        BY <1>1, <2>1, ChainBlocks
      <3>2. f - 1 \in c .. c + LenIn(t, c) - 1
        BY <1>1, <2>1, <3>1
      <3> QED
        BY <3>1, <3>2 DEF BlocksOf
    <2> HIDE DEF f
    <2>5. f # e
      <3>1. BlocksOf(t, b) \cap BlocksOf(t, c) = {}
        BY <1>1, <1>7, <2>1, ChainsDisjoint
      <3>2. e - 1 \in BlocksOf(t, b)
        BY <1>1, <1>2, <1>4
      <3> QED
        BY <2>4, <3>1, <3>2
    <2>6. f \notin e .. b + n - 1
      <3>1. f - 1 \notin e .. b + n - 1
        BY <1>3, <2>2, <2>4
      <3> QED
        BY <1>1, <1>4, <2>4, <2>5, <3>1
    <2>7. u[f] # "TAIL"
      BY <1>3, <2>4, <2>6
    <2> QED
      BY <1>1, <1>5, <2>1, <2>3, <2>7, ObjectKept DEF f
  <1>8. u[b] = t[b]
    BY <1>1, <1>3, <1>4
  <1>9. LenIn(u, b) = n
    <2>1. n \in 1 .. NumBlocks - b
      BY <1>1, <1>4
    <2>2. ASSUME NEW k \in 1 .. n - 1 PROVE u[b + k] = "TAIL"
      <3>1. CASE k < len
        <4>1. b + k \in b .. e - 1 /\ b + k # b /\ b + k \notin e .. b + n - 1
          BY <1>1, <1>4, <3>1
        <4>2. b + k \in 0 .. NumBlocks
          BY <1>1, <2>1
        <4> QED
          BY <1>2, <1>3, <4>1, <4>2
      <3>2. CASE k >= len
        <4>1. b + k \in e .. b + n - 1
          BY <1>1, <1>4, <3>2
        <4> QED
          BY <1>3, <4>1
      <3> QED
        BY <1>4, <3>1, <3>2
    <2>3. u[b + n] # "TAIL"
      <3>1. b + n \in 0 .. NumBlocks /\ b + n \notin e .. b + n - 1
        BY <1>1, <1>4
      <3>2. b + n - 1 \in e .. b + n - 1
        BY <1>1, <1>4
      <3>3. CASE b + n = NumBlocks
        BY <1>1, <1>3, <3>1, <3>3 DEF Table
      <3>4. CASE b + n # NumBlocks
        <4>1. b + n \in Blocks
          BY <1>1, <3>1, <3>4 DEF Blocks
        <4>2. t[b + n - 1] = "FREE"
          BY <1>3, <3>2
        <4>3. t[b + n] # "TAIL"
          BY <1>1, <4>1, <4>2 DEF WellTable
        <4> QED
          BY <1>3, <3>1, <4>3
      <3> QED
        BY <3>3, <3>4
    <2>4. Chain(u, b, n)
      BY <2>2, <2>3 DEF Chain
    <2> QED
      BY <1>1, <1>5, <2>1, <2>4, ChainUnique
  <1> QED
    BY <1>5, <1>6, <1>7, <1>8, <1>9 DEF WellTable, u

\* gc_sweep: what is marked stays with all its blocks, the other objects go with theirs.
LEMMA Sweeping ==
    ASSUME WellTable(at), Sweep
    PROVE  /\ WellTable(at')
           /\ \A b \in Blocks : at'[b] \in {"HEAD", "MARK"} <=> at[b] = "MARK"
           /\ \A b \in Blocks : at'[b] # "FREE" => at[b] # "FREE" /\ mem'[b] = mem[b]
           /\ \A c \in Blocks : at[c] = "MARK" =>
                /\ LenIn(at', c) = LenIn(at, c)
                /\ \A x \in BlocksOf(at, c) : at'[x] # "FREE"
  <1>1. /\ Table(at) /\ at \in [0 .. NumBlocks -> Kinds] /\ at[NumBlocks] = "FREE"
        /\ NumBlocks \in Nat /\ Blocks = 0 .. NumBlocks - 1
    BY HeapAssumption DEF WellTable, Table, Blocks
  <1>2. /\ at' = [b \in 0 .. NumBlocks |-> IF b \in Blocks THEN Swept(b) ELSE at[b]]
        /\ mem' = [b \in Blocks |-> IF Swept(b) = "FREE" THEN Leftover ELSE mem[b]]
    BY DEF Sweep
  <1>3. \A b \in Blocks : at'[b] = Swept(b) /\ b \in 0 .. NumBlocks
    BY <1>1, <1>2
  <1>4. ASSUME NEW b \in Blocks
        PROVE  /\ at'[b] \in Kinds
               /\ at[b] = "HEAD" => at'[b] = "FREE"
               /\ at[b] = "FREE" => at'[b] = "FREE"
               /\ at[b] = "MARK" => at'[b] = "HEAD"
               /\ at[b] = "TAIL" /\ FreeTail(b) => at'[b] = "FREE"
               /\ at[b] = "TAIL" /\ ~FreeTail(b) => at'[b] = "TAIL"
               /\ at[b] \in Kinds
    <2>1. at[b] \in Kinds /\ at'[b] = Swept(b)
      BY <1>1, <1>3
    <2> QED
      BY <2>1 DEF Swept, Kinds
  <1>5. Table(at')
    <2>1. at'[NumBlocks] = "FREE"
      BY <1>1, <1>2
    <2>2. \A b \in 0 .. NumBlocks : b \in Blocks \/ b = NumBlocks
      BY <1>1
    <2>3. at' = [b \in 0 .. NumBlocks |-> at'[b]]
      BY <1>2
    <2>4. \A b \in 0 .. NumBlocks : at'[b] \in Kinds
      BY <1>4, <2>1, <2>2 DEF Kinds
    <2>5. at' \in [0 .. NumBlocks -> Kinds]
      BY <2>3, <2>4
    <2> QED
      BY <2>1, <2>5 DEF Table
  <1>6. ASSUME NEW x \in Blocks, at'[x] = "TAIL" PROVE x > 0 /\ at'[x - 1] # "FREE"
    <2>1. at[x] = "TAIL" /\ ~FreeTail(x)
      BY <1>4, <1>6 DEF Kinds
    <2>2. x > 0 /\ at[x - 1] # "FREE"
      BY <2>1 DEF WellTable
    <2>3. x - 1 \in Blocks /\ x - 1 \in 0 .. x - 1 /\ x \in Nat
      BY <1>1, <2>2
    <2>4. at[x - 1] # "HEAD"
      <3> SUFFICES ASSUME at[x - 1] = "HEAD" PROVE FALSE
        OBVIOUS
      <3>1. \A k \in (x - 1) + 1 .. x - 1 : FALSE
        BY <2>3
      <3> QED
        BY <2>1, <2>3, <3>1 DEF FreeTail
    <2>5. CASE at[x - 1] = "TAIL"
      <3>1. ASSUME FreeTail(x - 1) PROVE FreeTail(x)
        <4>1. PICK h \in 0 .. (x - 1) - 1 : /\ at[h] = "HEAD"
                 /\ \A k \in h + 1 .. (x - 1) - 1 : at[k] \notin {"HEAD", "MARK"}
          BY <3>1 DEF FreeTail
        <4>2. h \in 0 .. x - 1
          BY <2>3, <4>1
        <4>3. \A k \in h + 1 .. x - 1 : k = x - 1 \/ k \in h + 1 .. (x - 1) - 1
          BY <2>3, <4>1
        <4>4. \A k \in h + 1 .. x - 1 : at[k] \notin {"HEAD", "MARK"}
          BY <2>5, <4>1, <4>3
        <4> QED
          BY <4>1, <4>2, <4>4 DEF FreeTail
      <3> QED
        BY <1>4, <2>1, <2>3, <2>5, <3>1
    <2>6. CASE at[x - 1] = "MARK"
      BY <1>4, <2>2, <2>3, <2>6
    <2> QED
      BY <1>4, <2>2, <2>3, <2>4, <2>5, <2>6 DEF Kinds
  <1>7. \A b \in Blocks : at'[b] \in {"HEAD", "MARK"} <=> at[b] = "MARK"
    BY <1>4 DEF Kinds
  <1>8. \A b \in Blocks : at'[b] # "FREE" => at[b] # "FREE" /\ mem'[b] = mem[b]
    BY <1>2, <1>3, <1>4
  <1>9. ASSUME NEW c \in Blocks, at[c] = "MARK"
        PROVE  LenIn(at', c) = LenIn(at, c) /\ \A x \in BlocksOf(at, c) : at'[x] # "FREE"
    <2> DEFINE len == LenIn(at, c)
    <2>1. /\ len \in 1 .. NumBlocks - c /\ c \in Nat
          /\ BlocksOf(at, c) = c .. c + len - 1
          /\ \A x \in BlocksOf(at, c) : x \in Blocks /\ (x # c => at[x] = "TAIL")
          /\ at[c + len] # "TAIL" /\ c + len \in 0 .. NumBlocks
      <3>1. c \in Nat
        BY <1>1
      <3>2. BlocksOf(at, c) = c .. c + len - 1
        BY DEF BlocksOf
      <3> QED
        BY <1>1, <3>1, <3>2, ChainBlocks
    <2> HIDE DEF len
    <2>2. ASSUME NEW x \in BlocksOf(at, c), x # c, FreeTail(x) PROVE FALSE
      <3>1. PICK h \in 0 .. x - 1 : /\ at[h] = "HEAD"
               /\ \A k \in h + 1 .. x - 1 : at[k] \notin {"HEAD", "MARK"}
        BY <2>2 DEF FreeTail
      <3>2. h # c
        BY <1>9, <3>1
      <3>3. ~(h < c)
        <4> SUFFICES ASSUME h < c PROVE FALSE
          OBVIOUS
        <4>1. c \in h + 1 .. x - 1
          BY <2>1, <2>2, <3>1
        <4> QED
          BY <1>9, <3>1, <4>1
      <3>4. h \in BlocksOf(at, c)
        BY <2>1, <2>2, <3>1, <3>2, <3>3
      <3> QED
        BY <2>1, <3>1, <3>2, <3>4
    <2>3. \A x \in BlocksOf(at, c) : x # c => at'[x] = "TAIL"
      BY <1>4, <2>1, <2>2
    <2>4. at'[c] = "HEAD"
      BY <1>4, <1>9
    <2>5. at'[c + len] # "TAIL"
      <3>1. CASE c + len = NumBlocks
        BY <1>5, <3>1 DEF Table
      <3>2. CASE c + len # NumBlocks
        <4>1. c + len \in Blocks
          BY <1>1, <2>1, <3>2
        <4> QED
          BY <1>4, <2>1, <4>1 DEF Kinds
      <3> QED
        BY <3>1, <3>2
    <2>6. ASSUME NEW k \in 1 .. len PROVE at'[c + k] = "TAIL" <=> at[c + k] = "TAIL"
      <3>1. CASE k = len
        BY <2>1, <2>5, <3>1
      <3>2. CASE k # len
        <4>1. c + k \in BlocksOf(at, c) /\ c + k # c
          BY <2>1, <3>2
        <4> QED
          BY <2>1, <2>3, <4>1
      <3> QED
        BY <3>1, <3>2
    <2>7. LenIn(at', c) = LenIn(at, c)
      BY <1>1, <1>5, <2>6, ChainKept DEF len
    <2> QED
      BY <2>3, <2>4, <2>7
  <1> QED
    BY <1>5, <1>6, <1>7, <1>8, <1>9 DEF WellTable

---------------------------------------------------------------------------
(***************************************************************************)
(* The search and its hint.                                                *)
(***************************************************************************)
Hints == 0 .. NumBlocks \div BlocksPerAtb
HintIn(t, h) == \A b \in Blocks : b < h * BlocksPerAtb => t[b] # "FREE"

\* The search ends at the first run that is long enough, behind the hint.
LEMMA RunFound ==
    ASSUME NEW n \in Nat \ {0}, last \in Nat, RunEnds(n, last) # {},
           NEW i, i = Min(RunEnds(n, last))
    PROVE  /\ i \in Blocks /\ i + 1 - n >= 0 /\ i + 1 - n >= last * BlocksPerAtb
           /\ \A b \in i + 1 - n .. i : at[b] = "FREE"
           /\ n = 1 => \A b \in Blocks :
                b >= last * BlocksPerAtb /\ b < i => at[b] # "FREE"
  <1> DEFINE f == last * BlocksPerAtb
             E == RunEnds(n, last)
  <1>1. f \in Nat /\ NumBlocks \in Nat
    BY HeapAssumption
  <1> HIDE DEF f
  <1>2. E = {k \in f + n - 1 .. NumBlocks - 1 : \A b \in k + 1 - n .. k : at[b] = "FREE"}
    BY DEF RunEnds, f
  <1> HIDE DEF E
  <1>3. E \subseteq Nat
    BY <1>1, <1>2
  <1>4. i \in E /\ \A k \in E : i <= k
    BY <1>3, MinIsLeast DEF E
  <1>5. i \in f + n - 1 .. NumBlocks - 1 /\ \A b \in i + 1 - n .. i : at[b] = "FREE"
    BY <1>2, <1>4
  <1>6. i \in Blocks /\ i + 1 - n >= 0 /\ i + 1 - n >= f
    BY <1>1, <1>5 DEF Blocks
  <1>7. ASSUME n = 1, NEW b \in Blocks, b >= f, b < i PROVE at[b] # "FREE"
    <2>1. b \in f + n - 1 .. NumBlocks - 1 /\ b + 1 - n = b /\ b .. b = {b}
      BY <1>1, <1>7 DEF Blocks
    <2>2. b \notin E
      BY <1>3, <1>4, <1>7 DEF Blocks
    <2> QED
      BY <1>2, <2>1, <2>2
  <1> QED
    BY <1>5, <1>6, <1>7 DEF f

\* gc_alloc moves the hint forward only over blocks that are taken.
LEMMA HintAfterAlloc ==
    ASSUME NEW n \in Nat \ {0}, last \in Hints, HintIn(at, last), NEW i \in Blocks,
           \A b \in i + 1 - n .. i : at[b] = "FREE",
           n = 1 => \A b \in Blocks : b >= last * BlocksPerAtb /\ b < i => at[b] # "FREE"
    PROVE  /\ LastAfterAlloc(n, i) \in Hints
           /\ HintIn(ClaimedIn(at, n, i), LastAfterAlloc(n, i))
  <1> DEFINE d == BlocksPerAtb
             u == ClaimedIn(at, n, i)
             h == (i + 1) \div d
  <1>1. /\ d \in Nat \ {0} /\ NumBlocks \in Nat /\ i \in Nat /\ i + 1 \in Nat /\ i < NumBlocks
        /\ i + 1 <= NumBlocks
    BY HeapAssumption DEF Blocks
  <1>2. /\ h \in Nat /\ h * d <= i + 1 /\ h <= NumBlocks \div d /\ NumBlocks \div d \in Nat
    <2> HIDE DEF d
    <2>1. h \in Nat /\ h * d <= i + 1
      BY <1>1, DivBounds
    <2>2. h <= NumBlocks \div d
      BY <1>1, DivGrows
    <2>3. NumBlocks \div d \in Nat
      BY <1>1, DivBounds
    <2> QED
      BY <2>1, <2>2, <2>3
  <1>3. \A b \in Blocks : at[b] # "FREE" => u[b] # "FREE"
    BY <1>1 DEF ClaimedIn, Blocks
  <1>4. CASE n = 1
    <2>1. LastAfterAlloc(n, i) = h
      BY <1>4 DEF LastAfterAlloc
    <2>2. h \in Hints
      BY <1>2 DEF Hints
    <2>3. u[i] # "FREE"
      BY <1>1, <1>4 DEF ClaimedIn
    <2>4. last * d \in Nat
      BY <1>1, <1>2 DEF Hints
    <2>5. ASSUME NEW b \in Blocks, b < h * d PROVE u[b] # "FREE"
      <3>1. b \in Nat /\ b <= i
        <4> HIDE DEF h, d
        <4>1. h * d \in Nat
          BY <1>1, <1>2
        <4> QED
          BY <1>1, <1>2, <2>5, <4>1 DEF Blocks
      <3>2. CASE b < last * d
        BY <1>3, <3>2 DEF HintIn
      <3>3. CASE b >= last * d /\ b < i
        BY <1>3, <1>4, <3>3
      <3> QED
        BY <1>1, <2>3, <2>4, <3>1, <3>2, <3>3
    <2> QED
      BY <2>1, <2>2, <2>5 DEF HintIn
  <1>5. CASE n # 1
    BY <1>3, <1>5 DEF LastAfterAlloc, HintIn
  <1> QED
    BY <1>4, <1>5

\* gc_free moves the hint back to the first block it frees, or leaves it before it.
LEMMA HintAfterFree ==
    ASSUME NEW b \in Blocks, NEW h \in Hints, NEW t, HintIn(t, h), NEW u,
           \A x \in Blocks : x < b => (t[x] # "FREE" => u[x] # "FREE")
    PROVE  LastAfterFree(b, h) \in Hints /\ HintIn(u, LastAfterFree(b, h))
  <1> DEFINE d == BlocksPerAtb
             q == b \div d
             g == LastAfterFree(b, h)
  <1>1. d \in Nat \ {0} /\ NumBlocks \in Nat /\ b \in Nat /\ b < NumBlocks /\ b <= NumBlocks
    BY HeapAssumption DEF Blocks
  <1>2. q \in Nat /\ q * d <= b /\ q <= NumBlocks \div d /\ NumBlocks \div d \in Nat
    <2> HIDE DEF d
    <2>1. q \in Nat /\ q * d <= b
      BY <1>1, DivBounds
    <2>2. q <= NumBlocks \div d /\ NumBlocks \div d \in Nat
      BY <1>1, DivGrows, DivBounds
    <2> QED
      BY <2>1, <2>2
  <1>3. h \in Nat
    BY <1>2 DEF Hints
  <1>4. g \in Nat /\ g <= h /\ g <= q /\ g \in Hints
    BY <1>2, <1>3 DEF LastAfterFree, Hints
  <1>5. ASSUME NEW x \in Blocks, x < g * d PROVE u[x] # "FREE"
    <2> HIDE DEF g, q, d
    <2>1. g * d <= q * d /\ g * d <= h * d /\ g * d \in Nat /\ q * d \in Nat /\ h * d \in Nat
      BY <1>1, <1>2, <1>3, <1>4
    <2>2. x < b /\ x < h * d
      <3> DEFINE gd == g * d
                 qd == q * d
                 hd == h * d
      <3>1. gd <= qd /\ gd <= hd /\ qd <= b /\ x < gd /\ gd \in Nat /\ qd \in Nat /\ hd \in Nat
        BY <1>2, <1>5, <2>1
      <3>2. x \in Nat
        BY DEF Blocks
      <3> HIDE DEF gd, qd, hd
      <3>3. x < b /\ x < hd
        BY <1>1, <3>1, <3>2
      <3> QED
        BY <3>3 DEF hd
    <2> QED
      BY <2>2 DEF HintIn, d
  <1> QED
    BY <1>4, <1>5 DEF HintIn

---------------------------------------------------------------------------
(***************************************************************************)
(* The heap between two steps.                                             *)
(***************************************************************************)
Sound(t, m, rt, h) ==
    /\ WellTable(t)
    /\ m \in [Blocks -> [WordSlots -> Blocks \cup {None, Stale}]]
    /\ rt \in [RootSlots -> Blocks \cup {None}]
    /\ h \in Hints /\ HintIn(t, h)
    /\ \A b \in Blocks : t[b] # "FREE" => \A s \in WordSlots : m[b][s] # Stale
    /\ SafeIn(t, m, rt, ReachIn(t, m, rt))

HeapSound == Sound(at, mem, root, last)

\* Every object but the one the interpreter works on is what it was.
OthersKept == \A c : HeadIn(at, c) /\ c # root[Value] => SameObject(at, at', c)

LEMMA NoneIsNoBlock ==
    /\ None \notin Blocks /\ Stale \notin Blocks /\ None # Stale
    /\ Value \in RootSlots
    /\ Cleared \in [WordSlots -> Blocks \cup {None, Stale}]
    /\ Leftover \in [WordSlots -> Blocks \cup {None, Stale}]
    /\ \A s \in WordSlots : Cleared[s] = None
  BY HeapAssumption DEF Blocks, Value, RootSlots, Cleared, Leftover

\* A step leaves the objects K as they are, and N are the new or changed ones: every
\* pointer of theirs, and every root, leads to one of them.
KeepsAndAdds(K, N) ==
    /\ Table(at) /\ Table(at')
    /\ SafeIn(at, mem, root, ReachIn(at, mem, root))
    /\ K \subseteq ReachIn(at, mem, root) /\ N \subseteq HeadsIn(at')
    /\ \A c \in K : HeadIn(at', c) /\ LenIn(at', c) = LenIn(at, c)
    /\ \A c \in K : \A x \in BlocksOf(at, c) : mem'[x] = mem[x]
    /\ \A c \in K : \A x \in BlocksOf(at, c), s \in WordSlots :
         mem[x][s] \in ReachIn(at, mem, root) => mem[x][s] \in K \cup N
    /\ \A c \in N : \A x \in BlocksOf(at', c), s \in WordSlots :
         mem'[x][s] \in Blocks => mem'[x][s] \in K \cup N
    /\ \A r \in RootSlots : root'[r] \in Blocks => root'[r] \in K \cup N

LEMMA SafeStep ==
    ASSUME NEW K, NEW N, KeepsAndAdds(K, N)
    PROVE  /\ SafeIn(at', mem', root', ReachIn(at', mem', root'))
           /\ ReachIn(at', mem', root') \subseteq K \cup N
  <1> DEFINE S == ReachIn(at, mem, root)
  <1>1. K \cup N \subseteq HeadsIn(at')
    BY DEF KeepsAndAdds, HeadsIn, HeadIn
  <1>2. ASSUME NEW c \in K, NEW x \in BlocksOf(at', c), NEW s \in WordSlots, mem'[x][s] \in Blocks
        PROVE  mem'[x][s] \in K \cup N
    <2>1. x \in BlocksOf(at, c)
      BY DEF BlocksOf, KeepsAndAdds
    <2>2. mem'[x][s] = mem[x][s]
      BY <2>1 DEF KeepsAndAdds
    <2>3. c \in S /\ mem[x][s] \in S
      BY <1>2, <2>1, <2>2 DEF SafeIn, KeepsAndAdds
    <2> QED
      BY <2>1, <2>2, <2>3 DEF KeepsAndAdds
  <1>3. SafeIn(at', mem', root', K \cup N)
    BY <1>1, <1>2 DEF SafeIn, KeepsAndAdds
  <1> QED
    BY <1>3, ReachIsSafe DEF KeepsAndAdds

\* Nobody but the interpreter's own root refers to the object it resizes or frees.
LEMMA SoleSlots ==
    ASSUME Table(at), SoleReference
    PROVE  /\ \A r \in RootSlots : r # Value => root[r] # root[Value]
           /\ \A b \in ReachIn(at, mem, root) : \A x \in BlocksOf(at, b), s \in WordSlots :
                mem[x][s] # root[Value]
  <1>1. \A r \in RootSlots : r # Value => root[r] # root[Value]
    BY DEF SoleReference
  <1>2. ASSUME NEW b \in ReachIn(at, mem, root), NEW x \in BlocksOf(at, b), NEW s \in WordSlots
        PROVE  mem[x][s] # root[Value]
    <2>1. b \in Blocks /\ b \in Reachable
      BY ReachIsReachable, ReachIsLeast DEF HeadsIn
    <2>2. PICK w \in WordsIn(at, b) : b + w \div WordsPerBlock = x /\ w % WordsPerBlock = s
      BY <2>1, WordsAreSlots
    <2>3. w \in ChainWords(b) /\ Word(b, w) = mem[x][s]
      BY <2>2, LenIsChainLen DEF WordsIn, ChainWords, Word
    <2> QED
      BY <2>1, <2>3 DEF SoleReference
  <1> QED
    BY <1>1, <1>2

\* gc_alloc finds room.
LEMMA AllocIsSound ==
    ASSUME HeapSound, NEW n \in Nat \ {0}, AllocFound(n)
    PROVE  Sound(at', mem', root', last') /\ \A c : HeadIn(at, c) => SameObject(at, at', c)
  <1> DEFINE i == Min(RunEnds(n, last))
             new == i + 1 - n
             R == ReachIn(at, mem, root)
  <1>1. /\ RunEnds(n, last) # {}
        /\ at' = Claim(n, i)
        /\ mem' = [b \in Blocks |-> IF b \in i + 1 - n .. i THEN Cleared ELSE mem[b]]
        /\ root' = [root EXCEPT ![Value] = i + 1 - n]
        /\ last' = LastAfterAlloc(n, i)
    BY DEF AllocFound
  <1>2. /\ WellTable(at) /\ Table(at)
        /\ mem \in [Blocks -> [WordSlots -> Blocks \cup {None, Stale}]]
        /\ root \in [RootSlots -> Blocks \cup {None}]
        /\ last \in Hints /\ last \in Nat /\ HintIn(at, last)
        /\ SafeIn(at, mem, root, R) /\ R \subseteq HeadsIn(at)
    <2>1. last \in Hints => last \in Nat
      BY DEF Hints
    <2> QED
      BY <2>1 DEF HeapSound, Sound, WellTable, SafeIn
  <1>3. at' = ClaimedIn(at, n, i)
    BY <1>1 DEF Claim, ClaimedIn
  <1>4. /\ i \in Blocks /\ i + 1 - n >= 0
        /\ \A b \in i + 1 - n .. i : at[b] = "FREE"
        /\ n = 1 => \A b \in Blocks : b >= last * BlocksPerAtb /\ b < i => at[b] # "FREE"
    <2> HIDE DEF i
    <2> QED
      BY <1>1, <1>2, RunFound DEF i
  <1> HIDE DEF i, R
  <1>5. /\ WellTable(at') /\ Table(at') /\ new \in Blocks /\ LenIn(at', new) = n
        /\ \A c : HeadIn(at, c) => SameObject(at, at', c)
    BY <1>2, <1>3, <1>4, Claiming DEF WellTable
  <1>6. last' \in Hints /\ HintIn(at', last')
    BY <1>1, <1>2, <1>3, <1>4, HintAfterAlloc
  <1>7. mem' \in [Blocks -> [WordSlots -> Blocks \cup {None, Stale}]]
    BY <1>1, <1>2, NoneIsNoBlock
  <1>8. /\ root' \in [RootSlots -> Blocks \cup {None}]
        /\ \A r \in RootSlots : root'[r] = IF r = Value THEN new ELSE root[r]
    BY <1>1, <1>2, <1>5, NoneIsNoBlock
  <1>9. /\ \A x \in new .. i : x \in Blocks
        /\ \A b \in Blocks : mem'[b] = IF b \in new .. i THEN Cleared ELSE mem[b]
        /\ \A b \in Blocks : b \notin new .. i => at'[b] = at[b]
    <2>1. new \in Nat /\ i \in Nat /\ NumBlocks \in Nat /\ i < NumBlocks /\ n = i + 1 - new
      BY <1>4, <1>5, HeapAssumption DEF Blocks
    <2>2. \A x \in new .. i : x \in Blocks
      BY <2>1 DEF Blocks
    <2>3. \A b \in Blocks : b \notin new .. i => b # new /\ b \notin i + 2 - n .. i /\ b \in 0 .. NumBlocks
      BY <2>1 DEF Blocks
    <2> QED
      BY <1>1, <1>3, <2>2, <2>3 DEF ClaimedIn
  <1>10. \A b \in Blocks : at'[b] # "FREE" => \A s \in WordSlots : mem'[b][s] # Stale
    BY <1>9, NoneIsNoBlock DEF HeapSound, Sound
  <1>11. SafeIn(at', mem', root', ReachIn(at', mem', root'))
    <2>1. \A c \in R : HeadIn(at', c) /\ LenIn(at', c) = LenIn(at, c)
      BY <1>2, <1>5 DEF HeadsIn, HeadIn, SameObject
    <2>2. \A c \in R : \A x \in BlocksOf(at, c) : mem'[x] = mem[x]
      <3> SUFFICES ASSUME NEW c \in R, NEW x \in BlocksOf(at, c) PROVE mem'[x] = mem[x]
        OBVIOUS
      <3>1. x \in Blocks /\ at[x] # "FREE"
        BY <1>2, ObjectIsNotFree DEF HeadsIn
      <3> QED
        BY <1>4, <1>9, <3>1
    <2>3. {new} \in SUBSET HeadsIn(at')
      <3>1. at'[new] = "HEAD"
        <4>1. new \in 0 .. NumBlocks
          BY <1>5, HeapAssumption DEF Blocks
        <4> QED
          BY <1>3, <4>1 DEF ClaimedIn
      <3> QED
        BY <1>5, <3>1 DEF HeadsIn, HeadIn
    <2>4. BlocksOf(at', new) = new .. i
      <3>1. new + n - 1 = i
        BY <1>4, <1>5 DEF Blocks
      <3> QED
        BY <1>5, <3>1 DEF BlocksOf
    <2>5. \A x \in BlocksOf(at', new), s \in WordSlots : mem'[x][s] \notin Blocks
      BY <1>9, <2>4, NoneIsNoBlock
    <2>6. \A r \in RootSlots : root'[r] \in Blocks => root'[r] \in R \cup {new}
      BY <1>2, <1>8 DEF SafeIn
    <2>7. \A c \in {new} : \A x \in BlocksOf(at', c), s \in WordSlots :
                mem'[x][s] \in Blocks => mem'[x][s] \in R \cup {new}
      BY <2>5
    <2>8. KeepsAndAdds(R, {new})
      BY <1>2, <1>5, <2>1, <2>2, <2>3, <2>6, <2>7 DEF KeepsAndAdds, R
    <2> QED
      BY <2>8, SafeStep
  <1> QED
    BY <1>5, <1>6, <1>7, <1>8, <1>10, <1>11 DEF Sound

\* What is known of the object that is freed or resized.
LEMMA OwnedObject ==
    ASSUME HeapSound, root[Value] \in Blocks, SoleReference
    PROVE  /\ root[Value] \in ReachIn(at, mem, root) /\ HeadIn(at, root[Value])
           /\ LenIn(at, root[Value]) \in 1 .. NumBlocks - root[Value]
           /\ BlocksOf(at, root[Value]) \subseteq Blocks
           /\ \A r \in RootSlots : r # Value /\ root[r] \in Blocks =>
                root[r] \in ReachIn(at, mem, root) \ {root[Value]}
           /\ \A c \in ReachIn(at, mem, root) : \A x \in BlocksOf(at, c), s \in WordSlots :
                mem[x][s] \in Blocks => mem[x][s] \in ReachIn(at, mem, root) \ {root[Value]}
           /\ \A c \in ReachIn(at, mem, root) : c # root[Value] =>
                BlocksOf(at, c) \cap BlocksOf(at, root[Value]) = {}
  <1> DEFINE R == ReachIn(at, mem, root)
             b == root[Value]
  <1>1. Table(at) /\ SafeIn(at, mem, root, R) /\ Value \in RootSlots
    BY NoneIsNoBlock DEF HeapSound, Sound, WellTable
  <1>2. b \in R /\ HeadIn(at, b) /\ R \subseteq HeadsIn(at)
    BY <1>1 DEF SafeIn, HeadsIn
  <1>3. LenIn(at, b) \in 1 .. NumBlocks - b /\ BlocksOf(at, b) \subseteq Blocks
    BY <1>1, ChainBlocks
  <1>4. \A r \in RootSlots : r # Value /\ root[r] \in Blocks => root[r] \in R \ {b}
    BY <1>1, SoleSlots DEF SafeIn
  <1>5. \A c \in R : \A x \in BlocksOf(at, c), s \in WordSlots :
            mem[x][s] \in Blocks => mem[x][s] \in R \ {b}
    BY <1>1, SoleSlots DEF SafeIn
  <1>6. \A c \in R : c # b => BlocksOf(at, c) \cap BlocksOf(at, b) = {}
    <2> SUFFICES ASSUME NEW c \in R, c # b PROVE BlocksOf(at, c) \cap BlocksOf(at, b) = {}
      OBVIOUS
    <2>1. c \in Blocks /\ at[c] # "TAIL" /\ at[b] # "TAIL"
      BY <1>2 DEF HeadsIn, HeadIn
    <2> QED
      BY <1>1, <2>1, ChainsDisjoint
  <1> QED
    BY <1>2, <1>3, <1>4, <1>5, <1>6

\* gc_free, and gc_realloc when the object shrinks to its n first blocks.
LEMMA ShrinkIsSound ==
    ASSUME HeapSound, root[Value] \in Blocks, SoleReference,
           NEW n \in Nat, n < LenIn(at, root[Value]),
           at' = FreedIn(at, root[Value], n),
           mem' = [k \in Blocks |->
                     IF k \in root[Value] + n .. root[Value] + LenIn(at, root[Value]) - 1
                     THEN Leftover ELSE mem[k]],
           last' = LastAfterFree(root[Value] + n, last),
           root' = IF n = 0 THEN [root EXCEPT ![Value] = None] ELSE root
    PROVE  Sound(at', mem', root', last') /\ OthersKept
  <1> DEFINE R == ReachIn(at, mem, root)
             b == root[Value]
             len == LenIn(at, b)
             Gone == b + n .. b + len - 1
  <1>1. /\ WellTable(at) /\ Table(at)
        /\ mem \in [Blocks -> [WordSlots -> Blocks \cup {None, Stale}]]
        /\ root \in [RootSlots -> Blocks \cup {None}]
        /\ last \in Hints /\ HintIn(at, last)
        /\ SafeIn(at, mem, root, R) /\ R \subseteq HeadsIn(at)
        /\ \A k \in Blocks : at[k] # "FREE" => \A s \in WordSlots : mem[k][s] # Stale
    BY DEF HeapSound, Sound, WellTable, SafeIn
  <1>2. /\ b \in R /\ HeadIn(at, b) /\ b \in Blocks
        /\ len \in 1 .. NumBlocks - b
        /\ \A r \in RootSlots : r # Value /\ root[r] \in Blocks => root[r] \in R \ {b}
        /\ \A c \in R : \A x \in BlocksOf(at, c), s \in WordSlots :
              mem[x][s] \in Blocks => mem[x][s] \in R \ {b}
        /\ \A c \in R : c # b => BlocksOf(at, c) \cap BlocksOf(at, b) = {}
    BY OwnedObject
  <1>3. /\ WellTable(at') /\ Table(at')
        /\ \A c : HeadIn(at, c) /\ c # b => SameObject(at, at', c)
        /\ n > 0 => at'[b] = at[b] /\ LenIn(at', b) = n
    BY <1>1, <1>2, Freeing DEF WellTable
  <1>4. b \in Nat /\ NumBlocks \in Nat /\ b < NumBlocks /\ len \in Nat /\ n < len
    BY <1>2, HeapAssumption DEF Blocks
  <1>5. /\ \A k \in Blocks : mem'[k] = IF k \in Gone THEN Leftover ELSE mem[k]
        /\ \A k \in Blocks : at'[k] = IF k \in Gone THEN "FREE" ELSE at[k]
    <2>1. \A k \in Blocks : k \in 0 .. NumBlocks
      BY <1>4 DEF Blocks
    <2> QED
      BY <2>1 DEF FreedIn
  <1>6. mem' \in [Blocks -> [WordSlots -> Blocks \cup {None, Stale}]]
    BY <1>1, NoneIsNoBlock
  <1>7. /\ root' \in [RootSlots -> Blocks \cup {None}]
        /\ \A r \in RootSlots : root'[r] = IF n = 0 /\ r = Value THEN None ELSE root[r]
    <2>1. CASE n = 0
      BY <1>1, <2>1
    <2>2. CASE n # 0
      BY <1>1, <2>2
    <2> QED
      BY <2>1, <2>2
  <1>8. last' \in Hints /\ HintIn(at', last')
    <2>1. b + n \in Blocks
      BY <1>2, <1>4 DEF Blocks
    <2>2. \A x \in Blocks : x < b + n => (at[x] # "FREE" => at'[x] # "FREE")
      <3>1. \A x \in Blocks : x < b + n => x \notin Gone
        BY <1>4 DEF Blocks
      <3> QED
        BY <1>5, <3>1
    <2> QED
      BY <1>1, <2>1, <2>2, HintAfterFree
  <1>9. \A k \in Blocks : at'[k] # "FREE" => \A s \in WordSlots : mem'[k][s] # Stale
    BY <1>1, <1>5
  <1>10. SafeIn(at', mem', root', ReachIn(at', mem', root'))
    <2> DEFINE K == R \ {b}
               N == IF n = 0 THEN {} ELSE {b}
    <2>1. N \subseteq HeadsIn(at')
      BY <1>2, <1>3 DEF HeadsIn, HeadIn
    <2>2. \A c \in K : HeadIn(at', c) /\ LenIn(at', c) = LenIn(at, c)
      BY <1>1, <1>3 DEF HeadsIn, HeadIn, SameObject
    <2>3. \A c \in K : \A x \in BlocksOf(at, c) : mem'[x] = mem[x]
      <3> SUFFICES ASSUME NEW c \in K, NEW x \in BlocksOf(at, c) PROVE mem'[x] = mem[x]
        OBVIOUS
      <3>1. x \in Blocks /\ x \notin BlocksOf(at, b)
        BY <1>1, <1>2, ObjectIsNotFree DEF HeadsIn
      <3>2. x \notin Gone
        <4>1. Gone \subseteq b .. b + len - 1
          BY <1>4
        <4> QED
          BY <3>1, <4>1 DEF BlocksOf
      <3> QED
        BY <1>5, <3>1, <3>2
    <2>4. \A c \in N : \A x \in BlocksOf(at', c), s \in WordSlots :
              mem'[x][s] \in Blocks => mem'[x][s] \in K \cup N
      <3> SUFFICES ASSUME n # 0, NEW x \in BlocksOf(at', b), NEW s \in WordSlots,
                          mem'[x][s] \in Blocks
                   PROVE  mem'[x][s] \in K
        OBVIOUS
      <3>1. BlocksOf(at', b) = b .. b + n - 1
        BY <1>3, <1>4 DEF BlocksOf
      <3>2. x \in b .. b + len - 1 /\ x \in Blocks /\ x \notin Gone
        BY <1>2, <1>4, <3>1 DEF Blocks
      <3>3. x \in BlocksOf(at, b) /\ mem'[x] = mem[x]
        BY <1>5, <3>2 DEF BlocksOf
      <3> QED
        BY <1>2, <3>3
    <2>5. \A r \in RootSlots : root'[r] \in Blocks => root'[r] \in K \cup N
      BY <1>2, <1>7, NoneIsNoBlock
    <2>6. \A c \in K : \A x \in BlocksOf(at, c), s \in WordSlots :
              mem[x][s] \in R => mem[x][s] \in K \cup N
      BY <1>1, <1>2 DEF HeadsIn
    <2> HIDE DEF N
    <2>7. KeepsAndAdds(K, N)
      BY <1>1, <1>3, <2>1, <2>2, <2>3, <2>4, <2>5, <2>6 DEF KeepsAndAdds
    <2> QED
      BY <2>7, SafeStep
  <1> QED
    BY <1>3, <1>6, <1>7, <1>8, <1>9, <1>10 DEF Sound, OthersKept

\* gc_realloc counts free blocks, all inside the table.
LEMMA FreeBehindIsFree ==
    ASSUME Table(at), NEW b \in Blocks, NEW n \in Nat
    PROVE  /\ FreeBehind(b, n) \in Nat /\ b + LenIn(at, b) + FreeBehind(b, n) <= NumBlocks
           /\ \A k \in b + LenIn(at, b) .. b + LenIn(at, b) + FreeBehind(b, n) - 1 : at[k] = "FREE"
  <1> DEFINE len == LenIn(at, b)
             T == {k \in 0 .. NumBlocks - b - len :
                     /\ k = 0 \/ k + len <= n
                     /\ \A j \in 0 .. k - 1 : at[b + len + j] = "FREE"}
             f == FreeBehind(b, n)
  <1>1. len \in Nat /\ b \in Nat /\ NumBlocks \in Nat /\ NumBlocks - b - len \in Nat
    <2>1. len \in 1 .. NumBlocks - b
      BY ChainBlocks
    <2> QED
      BY <2>1, HeapAssumption DEF Blocks
  <1>2. f = Max(T)
    BY LenIsChainLen DEF FreeBehind
  <1> HIDE DEF len, f
  <1>3. T \subseteq 0 .. NumBlocks - b - len /\ 0 \in T
    BY <1>1
  <1>4. Max(T) \in T
    <2> HIDE DEF T
    <2>1. T # {}
      BY <1>3
    <2> QED
      BY <1>1, <1>3, <2>1, MaxIsGreatest
  <1>5. f \in 0 .. NumBlocks - b - len /\ \A j \in 0 .. f - 1 : at[b + len + j] = "FREE"
    BY <1>2, <1>4
  <1>6. ASSUME NEW k \in b + len .. b + len + f - 1 PROVE at[k] = "FREE"
    <2>1. k - (b + len) \in 0 .. f - 1 /\ b + len + (k - (b + len)) = k
      BY <1>1, <1>5
    <2> QED
      BY <1>5, <2>1
  <1>7. f \in Nat /\ b + len + f <= NumBlocks
    BY <1>1, <1>5
  <1> QED
    BY <1>6, <1>7 DEF f, len

\* gc_realloc takes the free blocks behind the object.
LEMMA GrowIsSound ==
    ASSUME HeapSound, root[Value] \in Blocks, SoleReference,
           NEW n \in Nat, ChainLen(root[Value]) < n,
           n <= ChainLen(root[Value]) + FreeBehind(root[Value], n),
           ReallocInPlace(root[Value], n)
    PROVE  Sound(at', mem', root', last') /\ OthersKept
  <1> DEFINE R == ReachIn(at, mem, root)
             b == root[Value]
             len == LenIn(at, b)
             Added == b + len .. b + n - 1
  <1>1. /\ WellTable(at) /\ Table(at)
        /\ mem \in [Blocks -> [WordSlots -> Blocks \cup {None, Stale}]]
        /\ root \in [RootSlots -> Blocks \cup {None}]
        /\ last \in Hints /\ HintIn(at, last)
        /\ SafeIn(at, mem, root, R) /\ R \subseteq HeadsIn(at)
        /\ \A k \in Blocks : at[k] # "FREE" => \A s \in WordSlots : mem[k][s] # Stale
    BY DEF HeapSound, Sound, WellTable, SafeIn
  <1>2. /\ b \in R /\ HeadIn(at, b) /\ b \in Blocks
        /\ len \in 1 .. NumBlocks - b
        /\ \A r \in RootSlots : r # Value /\ root[r] \in Blocks => root[r] \in R \ {b}
        /\ \A c \in R : \A x \in BlocksOf(at, c), s \in WordSlots :
              mem[x][s] \in Blocks => mem[x][s] \in R \ {b}
    BY OwnedObject
  <1>3. /\ at' = GrownIn(at, b, n)
        /\ mem' = [k \in Blocks |-> IF k \in Added THEN Cleared ELSE mem[k]]
        /\ root' = root /\ last' = last /\ ChainLen(b) = len
    BY LenIsChainLen DEF ReallocInPlace, GrownIn
  <1>4. b \in Nat /\ NumBlocks \in Nat /\ b < NumBlocks /\ len \in Nat /\ len < n
    BY <1>2, <1>3, HeapAssumption DEF Blocks
  <1>5. b + n <= NumBlocks /\ \A k \in Added : at[k] = "FREE"
    <2> DEFINE f == FreeBehind(b, n)
    <2>1. /\ f \in Nat /\ b + len + f <= NumBlocks /\ n <= len + f
          /\ \A k \in b + len .. b + len + f - 1 : at[k] = "FREE"
      BY <1>1, <1>3, FreeBehindIsFree
    <2> HIDE DEF f, len
    <2>2. Added \subseteq b + len .. b + len + f - 1 /\ b + n <= NumBlocks
      BY <1>4, <2>1
    <2> QED
      BY <2>1, <2>2
  <1>6. /\ WellTable(at') /\ Table(at')
        /\ \A c : HeadIn(at, c) /\ c # b => SameObject(at, at', c)
        /\ at'[b] = at[b] /\ LenIn(at', b) = n
    BY <1>1, <1>2, <1>3, <1>4, <1>5, Growing DEF WellTable
  <1>7. /\ \A k \in Blocks : mem'[k] = IF k \in Added THEN Cleared ELSE mem[k]
        /\ \A k \in Blocks : at'[k] = IF k \in Added THEN "TAIL" ELSE at[k]
    <2>1. \A k \in Blocks : k \in 0 .. NumBlocks
      BY <1>4 DEF Blocks
    <2> QED
      BY <1>3, <2>1 DEF GrownIn
  <1>8. mem' \in [Blocks -> [WordSlots -> Blocks \cup {None, Stale}]]
    BY <1>1, <1>3, NoneIsNoBlock
  <1>9. HintIn(at', last')
    BY <1>1, <1>3, <1>7 DEF HintIn
  <1>10. \A k \in Blocks : at'[k] # "FREE" => \A s \in WordSlots : mem'[k][s] # Stale
    BY <1>1, <1>7, NoneIsNoBlock
  <1>11. SafeIn(at', mem', root', ReachIn(at', mem', root'))
    <2> DEFINE K == R \ {b}
    <2>1. {b} \subseteq HeadsIn(at')
      BY <1>2, <1>6 DEF HeadsIn, HeadIn
    <2>2. \A c \in K : HeadIn(at', c) /\ LenIn(at', c) = LenIn(at, c)
      BY <1>1, <1>6 DEF HeadsIn, HeadIn, SameObject
    <2>3. \A c \in R : \A x \in BlocksOf(at, c) : mem'[x] = mem[x]
      <3> SUFFICES ASSUME NEW c \in R, NEW x \in BlocksOf(at, c) PROVE mem'[x] = mem[x]
        OBVIOUS
      <3>1. x \in Blocks /\ at[x] # "FREE"
        BY <1>1, ObjectIsNotFree DEF HeadsIn
      <3> QED
        BY <1>5, <1>7, <3>1
    <2>4. ASSUME NEW x \in BlocksOf(at', b), NEW s \in WordSlots, mem'[x][s] \in Blocks
          PROVE  mem'[x][s] \in K
      <3>1. BlocksOf(at', b) = b .. b + n - 1
        BY <1>6 DEF BlocksOf
      <3>2. x \in Blocks /\ (x \in Added \/ x \in b .. b + len - 1)
        BY <1>4, <1>5, <3>1 DEF Blocks
      <3>3. x \notin Added
        BY <1>7, <2>4, <3>2, NoneIsNoBlock
      <3>4. x \in BlocksOf(at, b) /\ mem'[x] = mem[x]
        BY <1>7, <3>2, <3>3 DEF BlocksOf
      <3> QED
        BY <1>2, <2>4, <3>4
    <2>5. \A r \in RootSlots : root'[r] \in Blocks => root'[r] \in K \cup {b}
      BY <1>2, <1>3
    <2>6. \A c \in K : \A x \in BlocksOf(at, c), s \in WordSlots :
              mem[x][s] \in R => mem[x][s] \in K \cup {b}
      OBVIOUS
    <2>7. KeepsAndAdds(K, {b})
      BY <1>1, <1>6, <2>1, <2>2, <2>3, <2>4, <2>5, <2>6 DEF KeepsAndAdds
    <2> QED
      BY <2>7, SafeStep
  <1> QED
    BY <1>1, <1>3, <1>6, <1>8, <1>9, <1>10, <1>11 DEF Sound, OthersKept

\* gc_realloc moves the object: a new one, a copy, and the old one freed.
LEMMA MoveIsSound ==
    ASSUME HeapSound, root[Value] \in Blocks, SoleReference,
           NEW n \in Nat \ {0}, ChainLen(root[Value]) < n, MoveFound(n)
    PROVE  Sound(at', mem', root', last') /\ OthersKept
  <1> DEFINE R == ReachIn(at, mem, root)
             i == Min(RunEnds(n, last))
             new == i + 1 - n
             old == root[Value]
             len == LenIn(at, old)
             u == ClaimedIn(at, n, i)
             h == LastAfterAlloc(n, i)
  <1>1. /\ WellTable(at) /\ Table(at)
        /\ mem \in [Blocks -> [WordSlots -> Blocks \cup {None, Stale}]]
        /\ root \in [RootSlots -> Blocks \cup {None}]
        /\ last \in Hints /\ last \in Nat /\ HintIn(at, last)
        /\ SafeIn(at, mem, root, R) /\ R \subseteq HeadsIn(at)
        /\ \A k \in Blocks : at[k] # "FREE" => \A s \in WordSlots : mem[k][s] # Stale
    <2>1. last \in Hints => last \in Nat
      BY DEF Hints
    <2> QED
      BY <2>1 DEF HeapSound, Sound, WellTable, SafeIn
  <1>2. /\ old \in R /\ HeadIn(at, old) /\ old \in Blocks
        /\ len \in 1 .. NumBlocks - old
        /\ \A r \in RootSlots : r # Value /\ root[r] \in Blocks => root[r] \in R \ {old}
        /\ \A c \in R : \A x \in BlocksOf(at, c), s \in WordSlots :
              mem[x][s] \in Blocks => mem[x][s] \in R \ {old}
        /\ \A c \in R : c # old => BlocksOf(at, c) \cap BlocksOf(at, old) = {}
    BY OwnedObject
  <1>3. /\ RunEnds(n, last) # {}
        /\ at' = [b \in 0 .. NumBlocks |-> IF b \in old .. old + len - 1 THEN "FREE" ELSE u[b]]
        /\ mem' = [b \in Blocks |->
                     IF b \in old .. old + len - 1 THEN Leftover
                     ELSE IF b \in new .. new + len - 1 THEN mem[old + (b - new)]
                     ELSE IF b \in new + len .. i THEN Cleared
                     ELSE mem[b]]
        /\ root' = [root EXCEPT ![Value] = new]
        /\ last' = LastAfterFree(old, h)
        /\ len < n
    <2>1. ChainLen(old) = len
      BY LenIsChainLen
    <2> QED
      BY <2>1 DEF MoveFound, Claim, ClaimedIn
  <1>4. /\ i \in Blocks /\ i + 1 - n >= 0
        /\ \A b \in i + 1 - n .. i : at[b] = "FREE"
        /\ n = 1 => \A b \in Blocks : b >= last * BlocksPerAtb /\ b < i => at[b] # "FREE"
    <2> HIDE DEF i
    <2> QED
      BY <1>1, <1>3, RunFound DEF i
  <1> HIDE DEF i, h
  <1>5. /\ WellTable(u) /\ Table(u) /\ new \in Blocks /\ LenIn(u, new) = n
        /\ \A c : HeadIn(at, c) => SameObject(at, u, c)
    BY <1>1, <1>4, Claiming DEF WellTable
  <1>6. h \in Hints /\ HintIn(u, h)
    BY <1>1, <1>4, HintAfterAlloc DEF h
  <1>7. /\ new \in Nat /\ i \in Nat /\ NumBlocks \in Nat /\ i < NumBlocks /\ n = i + 1 - new
        /\ old \in Nat /\ len \in Nat \ {0} /\ old + len <= NumBlocks /\ new <= i
        /\ new + len - 1 < i
    <2>1. i \in Nat /\ NumBlocks \in Nat /\ i < NumBlocks /\ new \in Nat /\ n = i + 1 - new
      BY <1>4, <1>5, HeapAssumption DEF Blocks
    <2>2. old \in Nat
      BY <1>2 DEF Blocks
    <2>3. len < n
      BY <1>3
    <2>4. len \in Nat \ {0} /\ old + len <= NumBlocks
      BY <1>2, <2>1, <2>2
    <2> HIDE DEF new, len, old
    <2> QED
      BY <2>1, <2>2, <2>3, <2>4
  <1>8. /\ u[new] = "HEAD"
        /\ \A b \in Blocks : b \notin new .. i => u[b] = at[b]
    <2>1. new \in 0 .. NumBlocks
      BY <1>7
    <2>2. \A b \in Blocks : b \notin new .. i => b # new /\ b \notin i + 2 - n .. i /\ b \in 0 .. NumBlocks
      BY <1>7 DEF Blocks
    <2> QED
      BY <2>1, <2>2 DEF ClaimedIn
  <1> HIDE DEF u
  <1>9. LenIn(u, old) = len /\ HeadIn(u, old)
    BY <1>2, <1>5 DEF SameObject, HeadIn
  <1>10. at' = FreedIn(u, old, 0)
    <2>1. old + 0 = old
      BY <1>7
    <2> QED
      BY <1>3, <1>9, <2>1 DEF FreedIn
  <1>11. /\ WellTable(at') /\ Table(at')
         /\ \A c : HeadIn(u, c) /\ c # old => SameObject(u, at', c)
    BY <1>5, <1>7, <1>9, <1>10, Freeing DEF WellTable
  <1>12. \A c : HeadIn(at, c) /\ c # old => SameObject(at, at', c)
    BY <1>5, <1>11 DEF SameObject, HeadIn
  <1>13. new # old /\ at'[new] = "HEAD" /\ LenIn(at', new) = n
    <2>1. new \in new .. i
      BY <1>7
    <2>2. new # old
      BY <1>2, <1>4, <2>1 DEF HeadIn
    <2> QED
      BY <1>5, <1>8, <1>11, <2>2 DEF SameObject, HeadIn
  <1>14. last' \in Hints /\ HintIn(at', last')
    <2>1. \A x \in Blocks : x < old => (u[x] # "FREE" => at'[x] # "FREE")
      <3>1. \A x \in Blocks : x < old => x \in 0 .. NumBlocks /\ x \notin old .. old + len - 1
        BY <1>7 DEF Blocks
      <3> QED
        BY <1>3, <3>1
    <2> QED
      BY <1>2, <1>3, <1>6, <2>1, HintAfterFree
  <1>15. /\ root' \in [RootSlots -> Blocks \cup {None}]
         /\ \A r \in RootSlots : root'[r] = IF r = Value THEN new ELSE root[r]
    BY <1>1, <1>3, <1>5, NoneIsNoBlock
  <1>16. \A b \in new .. new + len - 1 : old + (b - new) \in BlocksOf(at, old) /\ old + (b - new) \in Blocks
    BY <1>7 DEF BlocksOf, Blocks
  <1>17. \A b \in Blocks : b \in BlocksOf(at, old) => at'[b] = "FREE"
    BY <1>3, <1>7 DEF BlocksOf, Blocks
  <1>18. ASSUME NEW b \in Blocks, b \notin BlocksOf(at, old)
         PROVE  /\ b \in new .. new + len - 1 => mem'[b] = mem[old + (b - new)]
                /\ b \in new + len .. i => mem'[b] = Cleared
                /\ b \notin new .. i => mem'[b] = mem[b] /\ at'[b] = at[b]
    <2>1. b \notin old .. old + len - 1 /\ b \in 0 .. NumBlocks
      BY <1>7, <1>18 DEF BlocksOf, Blocks
    <2>2. b \in new + len .. i => b \notin new .. new + len - 1
      BY <1>7
    <2>3. b \notin new .. i => b \notin new .. new + len - 1 /\ b \notin new + len .. i
      BY <1>7
    <2> QED
      BY <1>3, <1>8, <2>1, <2>2, <2>3
  <1>19. mem' \in [Blocks -> [WordSlots -> Blocks \cup {None, Stale}]]
    BY <1>1, <1>3, <1>16, NoneIsNoBlock
  <1>20. \A b \in Blocks : b \in new .. i => b \in new .. new + len - 1 \/ b \in new + len .. i
    BY <1>7
  <1>21. ASSUME NEW b \in Blocks, at'[b] # "FREE", NEW s \in WordSlots PROVE mem'[b][s] # Stale
    <2>1. b \notin BlocksOf(at, old)
      BY <1>17, <1>21
    <2>2. CASE b \in new .. new + len - 1
      <3>1. at[old + (b - new)] # "FREE"
        BY <1>1, <1>2, <1>16, <2>2, ObjectIsNotFree
      <3> QED
        BY <1>1, <1>16, <1>18, <2>1, <2>2, <3>1
    <2>3. CASE b \in new + len .. i
      BY <1>18, <2>1, <2>3, NoneIsNoBlock
    <2>4. CASE b \notin new .. i
      BY <1>1, <1>18, <1>21, <2>1, <2>4
    <2> QED
      BY <1>20, <2>2, <2>3, <2>4
  <1>22. SafeIn(at', mem', root', ReachIn(at', mem', root'))
    <2> DEFINE K == R \ {old}
    <2>1. {new} \subseteq HeadsIn(at')
      BY <1>5, <1>13 DEF HeadsIn, HeadIn
    <2>2. \A c \in K : HeadIn(at', c) /\ LenIn(at', c) = LenIn(at, c)
      BY <1>1, <1>12 DEF HeadsIn, HeadIn, SameObject
    <2>3. \A c \in K : \A x \in BlocksOf(at, c) : mem'[x] = mem[x]
      <3> SUFFICES ASSUME NEW c \in K, NEW x \in BlocksOf(at, c) PROVE mem'[x] = mem[x]
        OBVIOUS
      <3>1. x \in Blocks /\ at[x] # "FREE" /\ x \notin BlocksOf(at, old)
        BY <1>1, <1>2, ObjectIsNotFree DEF HeadsIn
      <3>2. x \notin new .. i
        BY <1>4, <3>1
      <3> QED
        BY <1>18, <3>1, <3>2
    <2>4. ASSUME NEW x \in BlocksOf(at', new), NEW s \in WordSlots, mem'[x][s] \in Blocks
          PROVE  mem'[x][s] \in K
      <3>1. x \in new .. i /\ x \in Blocks
        BY <1>7, <1>13 DEF BlocksOf, Blocks
      <3>2. x \notin BlocksOf(at, old)
        BY <1>1, <1>2, <1>4, <3>1, ObjectIsNotFree
      <3>3. x \in new .. new + len - 1
        BY <1>18, <1>20, <2>4, <3>1, <3>2, NoneIsNoBlock
      <3> QED
        BY <1>2, <1>16, <1>18, <2>4, <3>1, <3>2, <3>3
    <2>5. \A r \in RootSlots : root'[r] \in Blocks => root'[r] \in K \cup {new}
      BY <1>2, <1>15
    <2>6. \A c \in K : \A x \in BlocksOf(at, c), s \in WordSlots :
              mem[x][s] \in R => mem[x][s] \in K \cup {new}
      BY <1>1, <1>2 DEF HeadsIn
    <2> HIDE DEF new
    <2>7. KeepsAndAdds(K, {new})
      BY <1>1, <1>11, <2>1, <2>2, <2>3, <2>4, <2>5, <2>6 DEF KeepsAndAdds
    <2> QED
      BY <2>7, SafeStep
  <1> QED
    BY <1>11, <1>12, <1>14, <1>15, <1>19, <1>21, <1>22 DEF Sound, OthersKept

---------------------------------------------------------------------------
(***************************************************************************)
(* The invariant: a sound heap at every step, of a collection too; the     *)
(* collector marks reachable objects only; and the resizing that a         *)
(* collection interrupts finds its object as it left it.                   *)
(***************************************************************************)
CollectorTypes ==
    /\ Len(stack) <= StackSize
    /\ pc \in {"run", "roots", "mark", "rescan", "sweep", "retry"}
    /\ back \in {"run", "roots", "rescan"}
    /\ cur \in Blocks /\ pos \in 0 .. NumBlocks
    /\ req \in {None} \cup [op : {"alloc", "move"}, n : 1 .. MaxRequest]

PendingMove ==
    pc # "run" =>
        /\ req \in [op : {"alloc", "move"}, n : 1 .. MaxRequest]
        /\ req.op = "move" =>
            root[Value] \in Blocks /\ SoleReference /\ ChainLen(root[Value]) < req.n

MarksReach == \A b \in Blocks : at[b] = "MARK" => b \in Reachable

HeapInv == HeapSound /\ CollectorTypes /\ PendingMove /\ MarksReach /\ GarbageIsFreed

\* Whatever happens to the others, the reference stays the only one when the reachable
\* objects stay as they are or become fewer.
LEMMA SoleKept ==
    ASSUME Table(at), Table(at'), root' = root, SoleReference,
           Reachable' \subseteq Reachable,
           \A c \in Reachable : c \in Blocks /\ LenIn(at', c) = LenIn(at, c),
           \A c \in Reachable : \A x \in BlocksOf(at, c) : mem'[x] = mem[x]
    PROVE  SoleReference'
  <1>1. ASSUME NEW b \in Reachable', NEW w \in ChainWords(b)' PROVE Word(b, w)' # root[Value]
    <2>1. b \in Reachable /\ b \in Blocks
      OBVIOUS
    <2>2. w \in WordsIn(at, b) /\ w \in ChainWords(b)
      BY <1>1, <2>1, LenIsChainLen DEF ChainWords, WordsIn
    <2>3. b + w \div WordsPerBlock \in BlocksOf(at, b)
      BY <2>1, <2>2, WordsAreSlots
    <2>4. Word(b, w)' = Word(b, w)
      BY <2>1, <2>3 DEF Word
    <2> QED
      BY <2>1, <2>2, <2>4 DEF SoleReference
  <1>2. \A r \in RootSlots \ {Value} : root'[r] # root'[Value]
    BY DEF SoleReference
  <1> QED
    BY <1>1, <1>2 DEF SoleReference

\* A step that changes neither the heap nor the roots.
LEMMA HeapUnchanged ==
    ASSUME at' = at, mem' = mem, root' = root
    PROVE  /\ Reachable' = Reachable
           /\ SoleReference' <=> SoleReference
           /\ \A b : ChainLen(b)' = ChainLen(b)
           /\ \A c : SameObject(at, at', c)
           /\ last' = last => (HeapSound' <=> HeapSound)
  <1>1. Reachable' = Reachable
    BY ReachIsReachable
  <1>2. \A b : ChainLen(b)' = ChainLen(b)
    BY LenIsChainLen
  <1>3. SoleReference' <=> SoleReference
    BY <1>1, <1>2 DEF SoleReference, ChainWords, Word
  <1>4. \A c : SameObject(at, at', c)
    BY DEF SameObject
  <1>5. last' = last => (HeapSound' <=> HeapSound)
    BY DEF HeapSound
  <1> QED
    BY <1>1, <1>2, <1>3, <1>4, <1>5

\* A step that ends in the interpreter.
LEMMA RunStep ==
    ASSUME MarkInv', pc' = "run", CollectorTypes', Sound(at', mem', root', last')
    PROVE  HeapInv'
  <1>1. HeapSound'
    BY DEF HeapSound
  <1>2. MarksReach'
    BY DEF MarkInv, MarksBelong, MarksReach
  <1>3. PendingMove' /\ GarbageIsFreed'
    BY DEF PendingMove, GarbageIsFreed
  <1> QED
    BY <1>1, <1>2, <1>3 DEF HeapInv

\* The interpreter copies, drops and stores pointers.
LEMMA PointerSteps ==
    ASSUME HeapSound, NEW r \in RootSlots, NEW q \in RootSlots, Copy(r) \/ Drop(r) \/ Store(r, q)
    PROVE  Sound(at', mem', root', last') /\ OthersKept
  <1> DEFINE R == ReachIn(at, mem, root)
  <1>1. /\ WellTable(at) /\ Table(at)
        /\ mem \in [Blocks -> [WordSlots -> Blocks \cup {None, Stale}]]
        /\ root \in [RootSlots -> Blocks \cup {None}]
        /\ last \in Hints /\ HintIn(at, last)
        /\ SafeIn(at, mem, root, R) /\ R \subseteq HeadsIn(at)
        /\ \A k \in Blocks : at[k] # "FREE" => \A s \in WordSlots : mem[k][s] # Stale
    BY DEF HeapSound, Sound, WellTable, SafeIn
  <1>2. at' = at /\ last' = last
    BY DEF Copy, Drop, Store
  <1>3. OthersKept
    BY <1>2 DEF OthersKept, SameObject
  <1>4. CASE Copy(r) \/ Drop(r)
    <2>1. mem' = mem /\ \E v \in {root[Value], None} : root' = [root EXCEPT ![r] = v]
      BY <1>4 DEF Copy, Drop
    <2>2. PICK v \in {root[Value], None} : root' = [root EXCEPT ![r] = v]
      BY <2>1
    <2>3. root' \in [RootSlots -> Blocks \cup {None}]
      BY <1>1, <2>2, NoneIsNoBlock
    <2>4. \A k \in RootSlots : root'[k] \in Blocks => root'[k] \in R
      BY <1>1, <2>2, NoneIsNoBlock DEF SafeIn
    <2>5. SafeIn(at', mem', root', R)
      BY <1>1, <1>2, <2>1, <2>4 DEF SafeIn
    <2>6. SafeIn(at', mem', root', ReachIn(at', mem', root'))
      BY <1>1, <1>2, <2>5, ReachIsSafe
    <2> QED
      BY <1>1, <1>2, <1>3, <2>1, <2>3, <2>6 DEF Sound
  <1>5. CASE Store(r, q)
    <2>1. root' = root /\ root[r] \in Blocks /\ root[r] \in R
      BY <1>1, <1>5 DEF Store, SafeIn
    <2>2. PICK w \in ChainWords(root[r]) :
            mem' = [mem EXCEPT ![root[r] + w \div WordsPerBlock][w % WordsPerBlock] = root[q]]
      BY <1>5 DEF Store
    <2> DEFINE y == root[r] + w \div WordsPerBlock
               z == w % WordsPerBlock
    <2>3. w \in WordsIn(at, root[r])
      BY LenIsChainLen DEF ChainWords, WordsIn
    <2>4. y \in BlocksOf(at, root[r]) /\ z \in WordSlots
      BY <1>1, <2>1, <2>3, WordsAreSlots
    <2>5. y \in Blocks
      BY <1>1, <2>1, <2>4, ChainBlocks
    <2>6. mem' = [mem EXCEPT ![y][z] = root[q]]
      BY <2>2
    <2> HIDE DEF y, z
    <2>7. mem' \in [Blocks -> [WordSlots -> Blocks \cup {None, Stale}]]
      BY <1>1, <2>4, <2>5, <2>6
    <2>8. \A x \in Blocks, s \in WordSlots : mem'[x][s] = mem[x][s] \/ mem'[x][s] = root[q]
      BY <1>1, <2>4, <2>5, <2>6
    <2>9. root[q] # Stale /\ (root[q] \in Blocks => root[q] \in R)
      BY <1>1, NoneIsNoBlock DEF SafeIn
    <2>10. \A k \in Blocks : at'[k] # "FREE" => \A s \in WordSlots : mem'[k][s] # Stale
      BY <1>1, <1>2, <2>8, <2>9
    <2>11. SafeIn(at', mem', root', R)
      <3>1. ASSUME NEW c \in R, NEW x \in BlocksOf(at, c), NEW s \in WordSlots, mem'[x][s] \in Blocks
            PROVE  mem'[x][s] \in R
        <4>1. x \in Blocks
          BY <1>1, ObjectIsNotFree DEF HeadsIn
        <4> QED
          BY <1>1, <2>8, <2>9, <3>1, <4>1 DEF SafeIn
      <3> QED
        BY <1>1, <1>2, <2>1, <3>1 DEF SafeIn
    <2>12. SafeIn(at', mem', root', ReachIn(at', mem', root'))
      BY <1>1, <1>2, <2>11, ReachIsSafe
    <2> QED
      BY <1>1, <1>2, <1>3, <2>1, <2>7, <2>10, <2>12 DEF Sound
  <1> QED
    BY <1>4, <1>5

\* A collection is started: nothing has moved, and the request is put down.
LEMMA CollectStarts ==
    ASSUME HeapInv, MarkInv, pc = "run", NEW op \in {"alloc", "move"}, NEW n \in 1 .. MaxRequest,
           CollectStart(op, n),
           op = "move" => root[Value] \in Blocks /\ SoleReference /\ ChainLen(root[Value]) < n
    PROVE  HeapInv' /\ OthersKept
  <1>1. /\ at' = at /\ mem' = mem /\ root' = root /\ last' = last /\ stack' = stack
        /\ back' = back /\ cur' = cur /\ pos' = pos /\ pc' = "roots"
        /\ req' = [op |-> op, n |-> n]
    BY DEF CollectStart
  <1>2. HeapSound' /\ Reachable' = Reachable /\ (SoleReference' <=> SoleReference)
        /\ \A b : ChainLen(b)' = ChainLen(b)
    BY <1>1, HeapUnchanged DEF HeapInv
  <1>3. req' \in [op : {"alloc", "move"}, n : 1 .. MaxRequest] /\ req'.op = op /\ req'.n = n
    BY <1>1
  <1>4. CollectorTypes'
    BY <1>1, <1>3 DEF HeapInv, CollectorTypes
  <1>5. PendingMove'
    BY <1>1, <1>2, <1>3 DEF PendingMove
  <1>6. MarksReach' /\ GarbageIsFreed'
    BY <1>1, <1>2 DEF HeapInv, MarksReach, GarbageIsFreed
  <1>7. OthersKept
    BY <1>1 DEF OthersKept, SameObject
  <1> QED
    BY <1>2, <1>4, <1>5, <1>6, <1>7 DEF HeapInv

LEMMA MutatorKeepsHeap ==
    ASSUME HeapInv, MarkInv, MarkInv', Mutator
    PROVE  HeapInv' /\ OthersKept
  <1>0. pc = "run" /\ HeapSound /\ CollectorTypes
    BY DEF HeapInv, Mutator, gc_alloc, gc_realloc, gc_free, Copy, Drop, Store
  <1>1. ASSUME UNCHANGED collector, Sound(at', mem', root', last') PROVE HeapInv'
    <2>1. pc' = "run" /\ CollectorTypes'
      BY <1>0, <1>1 DEF collector, CollectorTypes
    <2> QED
      BY <1>1, <2>1, RunStep
  <1>2. \A n \in 1 .. MaxRequest : n \in Nat \ {0}
    BY HeapAssumption
  <1>3. ASSUME NEW n \in 1 .. MaxRequest, gc_alloc(n) PROVE HeapInv' /\ OthersKept
    <2>1. CASE AllocFound(n) /\ UNCHANGED collector
      <3>1. Sound(at', mem', root', last') /\ \A c : HeadIn(at, c) => SameObject(at, at', c)
        BY <1>0, <1>2, <2>1, AllocIsSound
      <3> QED
        BY <1>1, <2>1, <3>1 DEF OthersKept
    <2>2. CASE CollectStart("alloc", n)
      BY <1>0, <2>2, CollectStarts
    <2> QED
      BY <1>3, <2>1, <2>2 DEF gc_alloc
  <1>4. ASSUME NEW n \in 1 .. MaxRequest, gc_realloc(n) PROVE HeapInv' /\ OthersKept
    <2> DEFINE b == root[Value]
    <2>1. b \in Blocks /\ SoleReference /\ n \in Nat /\ n \in Nat \ {0}
      BY <1>2, <1>4 DEF gc_realloc
    <2>2. Table(at) /\ ChainLen(b) = LenIn(at, b) /\ LenIn(at, b) \in Nat
      <3>1. Table(at)
        BY <1>0 DEF HeapSound, Sound, WellTable
      <3>2. LenIn(at, b) \in 1 .. NumBlocks - b
        BY <2>1, <3>1, ChainBlocks
      <3> QED
        BY <3>1, <3>2, LenIsChainLen
    <2>3. FreeBehind(b, n) \in Nat
      BY <2>1, <2>2, FreeBehindIsFree
    <2>4. CASE n < ChainLen(b) /\ ReallocShrink(b, n) /\ UNCHANGED collector
      <3>1. /\ n < LenIn(at, b)
            /\ at' = FreedIn(at, b, n)
            /\ mem' = [k \in Blocks |-> IF k \in b + n .. b + LenIn(at, b) - 1
                                        THEN Leftover ELSE mem[k]]
            /\ last' = LastAfterFree(b + n, last)
            /\ root' = IF n = 0 THEN [root EXCEPT ![Value] = None] ELSE root
        BY <2>1, <2>2, <2>4 DEF ReallocShrink, FreedIn
      <3>2. Sound(at', mem', root', last') /\ OthersKept
        BY <1>0, <2>1, <3>1, ShrinkIsSound
      <3> QED
        BY <1>1, <2>4, <3>2
    <2>5. CASE /\ ChainLen(b) < n /\ n <= ChainLen(b) + FreeBehind(b, n)
               /\ ReallocInPlace(b, n) /\ UNCHANGED collector
      <3>1. Sound(at', mem', root', last') /\ OthersKept
        BY <1>0, <2>1, <2>5, GrowIsSound
      <3> QED
        BY <1>1, <2>5, <3>1
    <2>6. CASE n > ChainLen(b) + FreeBehind(b, n) /\ MoveFound(n) /\ UNCHANGED collector
      <3>1. ChainLen(b) < n
        BY <2>1, <2>2, <2>3, <2>6
      <3>2. Sound(at', mem', root', last') /\ OthersKept
        BY <1>0, <2>1, <2>6, <3>1, MoveIsSound
      <3> QED
        BY <1>1, <2>6, <3>2
    <2>7. CASE n > ChainLen(b) + FreeBehind(b, n) /\ CollectStart("move", n)
      <3>1. ChainLen(b) < n
        BY <2>1, <2>2, <2>3, <2>7
      <3> QED
        BY <1>0, <2>1, <2>7, <3>1, CollectStarts
    <2> QED
      BY <1>4, <2>4, <2>5, <2>6, <2>7 DEF gc_realloc
  <1>5. CASE gc_free
    <2> DEFINE b == root[Value]
    <2>1. b \in Blocks /\ SoleReference /\ UNCHANGED collector
      BY <1>5 DEF gc_free
    <2>2. Table(at) /\ ChainLen(b) = LenIn(at, b) /\ LenIn(at, b) \in Nat \ {0} /\ b + 0 = b
      <3>1. Table(at)
        BY <1>0 DEF HeapSound, Sound, WellTable
      <3>2. LenIn(at, b) \in 1 .. NumBlocks - b
        BY <2>1, <3>1, ChainBlocks
      <3> QED
        BY <2>1, <3>1, <3>2, LenIsChainLen DEF Blocks
    <2>3. /\ 0 < LenIn(at, b)
          /\ at' = FreedIn(at, b, 0)
          /\ mem' = [k \in Blocks |-> IF k \in b + 0 .. b + LenIn(at, b) - 1
                                      THEN Leftover ELSE mem[k]]
          /\ last' = LastAfterFree(b + 0, last)
          /\ root' = IF 0 = 0 THEN [root EXCEPT ![Value] = None] ELSE root
      BY <1>5, <2>2 DEF gc_free, FreedIn
    <2>4. Sound(at', mem', root', last') /\ OthersKept
      BY <1>0, <2>1, <2>3, ShrinkIsSound
    <2> QED
      BY <1>1, <2>1, <2>4
  <1>6. ASSUME NEW r \in RootSlots, Copy(r) \/ Drop(r) PROVE HeapInv' /\ OthersKept
    <2>1. Sound(at', mem', root', last') /\ OthersKept
      BY <1>0, <1>6, PointerSteps
    <2>2. UNCHANGED collector
      BY <1>6 DEF Copy, Drop, collector
    <2> QED
      BY <1>1, <2>1, <2>2
  <1>7. ASSUME NEW r \in RootSlots, NEW q \in RootSlots, Store(r, q) PROVE HeapInv' /\ OthersKept
    <2>1. Sound(at', mem', root', last') /\ OthersKept
      BY <1>0, <1>7, PointerSteps
    <2>2. UNCHANGED collector
      BY <1>7 DEF Store, collector
    <2> QED
      BY <1>1, <2>1, <2>2
  <1> QED
    BY <1>3, <1>4, <1>5, <1>6, <1>7 DEF Mutator

---------------------------------------------------------------------------
\* Marking an object changes neither what is reachable nor any chain.
LEMMA MarkStep ==
    ASSUME HeapSound, MarkInv, NEW p, MarksOne(p), mem' = mem, root' = root, last' = last
    PROVE  /\ HeapSound' /\ Reachable' = Reachable
           /\ \A c \in Blocks : LenIn(at', c) = LenIn(at, c)
           /\ \A c \in Blocks : HeadIn(at', c) <=> HeadIn(at, c)
           /\ SoleReference => SoleReference'
  <1> DEFINE R == ReachIn(at, mem, root)
  <1>1. /\ WellTable(at) /\ Table(at)
        /\ last \in Hints /\ HintIn(at, last)
        /\ SafeIn(at, mem, root, R) /\ R \subseteq HeadsIn(at)
        /\ \A k \in Blocks : at[k] # "FREE" => \A s \in WordSlots : mem[k][s] # Stale
    BY DEF HeapSound, Sound, WellTable, SafeIn
  <1>2. /\ p \in Blocks /\ at[p] = "HEAD"
        /\ \A b \in 0 .. NumBlocks : at'[b] = IF b = p THEN "MARK" ELSE at[b]
        /\ at' \in [0 .. NumBlocks -> Kinds] /\ p \in 0 .. NumBlocks /\ p # NumBlocks
        /\ NumBlocks \in Nat
    BY <1>1, HeapAssumption DEF MarksOne, Table, Kinds, Blocks
  <1>3. Table(at') /\ \A b \in Blocks : b \in 0 .. NumBlocks
    BY <1>1, <1>2 DEF Table, Blocks
  <1>4. WellTable(at')
    <2> SUFFICES ASSUME NEW b \in Blocks, at'[b] = "TAIL" PROVE b > 0 /\ at'[b - 1] # "FREE"
      BY <1>3 DEF WellTable
    <2>1. at[b] = "TAIL"
      BY <1>2, <1>3
    <2>2. b > 0 /\ at[b - 1] # "FREE"
      BY <1>1, <2>1 DEF WellTable
    <2>3. b - 1 \in 0 .. NumBlocks
      BY <1>2, <2>2 DEF Blocks
    <2> QED
      BY <1>2, <2>2, <2>3
  <1>5. \A c \in Blocks : LenIn(at', c) = LenIn(at, c)
    BY MarkKeepsChains, LenIsChainLen DEF MarkInv
  <1>6. \A c : HeadIn(at', c) <=> HeadIn(at, c)
    BY <1>2, <1>3 DEF HeadIn
  <1>7. HeadsIn(at') = HeadsIn(at) /\ TargetsIn(at', root) = TargetsIn(at, root)
    BY <1>6 DEF HeadsIn, TargetsIn
  <1>8. ASSUME NEW S \in SUBSET HeadsIn(at) PROVE ClosedIn(at', mem, S) <=> ClosedIn(at, mem, S)
    <2>1. \A b \in S : WordsIn(at', b) = WordsIn(at, b)
      BY <1>5 DEF WordsIn, HeadsIn
    <2> QED
      BY <1>6, <2>1 DEF ClosedIn
  <1>9. ReachIn(at', mem, root) = R
    <2>1. \A b : \A S \in SUBSET (HeadsIn(at) \ {b}) : ClosedIn(at', mem, S) <=> ClosedIn(at, mem, S)
      BY <1>8
    <2> QED
      BY <1>7, <2>1 DEF ReachIn
  <1>10. SafeIn(at', mem', root', R)
    <2>1. \A c \in R : BlocksOf(at', c) = BlocksOf(at, c)
      BY <1>1, <1>5 DEF BlocksOf, HeadsIn
    <2> QED
      BY <1>1, <1>7, <2>1 DEF SafeIn
  <1>11. HintIn(at', last')
    BY <1>1, <1>2, <1>3 DEF HintIn
  <1>12. \A k \in Blocks : at'[k] # "FREE" => \A s \in WordSlots : mem'[k][s] # Stale
    BY <1>1, <1>2, <1>3
  <1>13. HeapSound'
    BY <1>1, <1>4, <1>9, <1>10, <1>11, <1>12 DEF HeapSound, Sound
  <1>14. Reachable' = Reachable
    BY <1>9, ReachIsReachable
  <1>15. SoleReference => SoleReference'
    <2>1. \A c \in Reachable : c \in Blocks /\ LenIn(at', c) = LenIn(at, c)
      BY <1>1, <1>5, ReachIsReachable DEF HeadsIn
    <2> QED
      BY <1>1, <1>3, <1>14, <2>1, SoleKept
  <1> QED
    BY <1>5, <1>6, <1>13, <1>14, <1>15

\* gc_collect_root and gc_mark_subtree mark objects that are reachable.
LEMMA MarkingKeepsHeap ==
    ASSUME HeapInv, MarkInv, CollectRoot \/ MarkChild
    PROVE  /\ HeapInv'
           /\ \A c \in Blocks : HeadIn(at, c) => HeadIn(at', c) /\ LenIn(at', c) = LenIn(at, c)
  <1> DEFINE R == ReachIn(at, mem, root)
  <1>1. /\ HeapSound /\ CollectorTypes /\ PendingMove /\ MarksReach
        /\ Table(at) /\ SafeIn(at, mem, root, R) /\ Reachable = R
    BY ReachIsReachable DEF HeapInv, HeapSound, Sound, WellTable
  <1>2. /\ mem' = mem /\ root' = root /\ last' = last /\ pos' = pos /\ req' = req
        /\ pc \in {"roots", "mark"} /\ pc' = "mark"
    BY DEF CollectRoot, MarkChild
  <1>3. \E p : MarksOne(p) /\ p \in R
    <2>1. CASE CollectRoot
      <3>1. PICK r \in RootSlots : IsUnmarked(root[r]) /\ at' = [at EXCEPT ![root[r]] = "MARK"]
        BY <2>1 DEF CollectRoot
      <3> QED
        BY <1>1, <3>1 DEF MarksOne, IsUnmarked, SafeIn
    <2>2. CASE MarkChild
      <3>1. PICK w \in ChainWords(cur) :
               IsUnmarked(Word(cur, w)) /\ at' = [at EXCEPT ![Word(cur, w)] = "MARK"]
        BY <2>2 DEF MarkChild
      <3>2. cur \in Blocks /\ cur \in R
        BY <1>1, <2>2 DEF MarkChild, MarkInv, MarksBelong, CollectorTypes, MarksReach
      <3>3. w \in WordsIn(at, cur)
        BY LenIsChainLen DEF ChainWords, WordsIn
      <3>4. cur + w \div WordsPerBlock \in BlocksOf(at, cur) /\ w % WordsPerBlock \in WordSlots
        BY <1>1, <3>2, <3>3, WordsAreSlots
      <3>5. Word(cur, w) \in R
        BY <1>1, <3>1, <3>2, <3>4 DEF SafeIn, IsUnmarked, Word
      <3> QED
        BY <3>1, <3>5 DEF MarksOne, IsUnmarked
    <2> QED
      BY <2>1, <2>2
  <1>4. PICK p \in R : MarksOne(p)
    BY <1>3
  <1>5. /\ HeapSound' /\ Reachable' = Reachable
        /\ \A c \in Blocks : LenIn(at', c) = LenIn(at, c)
        /\ \A c \in Blocks : HeadIn(at', c) <=> HeadIn(at, c)
        /\ SoleReference => SoleReference'
    BY <1>1, <1>2, <1>4, MarkStep
  <1>6. MarksReach'
    <2>1. \A b \in Blocks : at'[b] = "MARK" <=> b = p \/ at[b] = "MARK"
      BY <1>2, <1>4, MarkKeepsTraced DEF MarkInv
    <2> QED
      BY <1>1, <1>5, <2>1 DEF MarksReach
  <1>7. PendingMove'
    <2>1. \A b \in Blocks : ChainLen(b)' = ChainLen(b)
      BY <1>5, LenIsChainLen
    <2> QED
      BY <1>1, <1>2, <1>5, <2>1 DEF PendingMove
  <1>8. CollectorTypes'
    <2>1. CASE CollectRoot
      <3>1. cur' \in Blocks /\ back' = "roots" /\ stack' = stack
        BY <2>1 DEF CollectRoot, IsUnmarked
      <3> QED
        BY <1>1, <1>2, <3>1 DEF CollectorTypes
    <2>2. CASE MarkChild
      <3>1. cur' = cur /\ back' = back
        BY <2>2 DEF MarkChild
      <3>2. PICK w \in ChainWords(cur) :
               /\ IsUnmarked(Word(cur, w))
               /\ \/ Len(stack) < StackSize /\ stack' = Append(stack, Word(cur, w))
                  \/ stack' = stack
        BY <2>2 DEF MarkChild
      <3>3. stack \in Seq(Blocks) /\ Word(cur, w) \in Blocks
        BY <3>2 DEF MarkInv, MarkTypes, IsUnmarked
      <3>4. Len(stack') <= StackSize
        BY <1>1, <3>2, <3>3, HeapAssumption DEF CollectorTypes
      <3> QED
        BY <1>1, <1>2, <3>1, <3>4 DEF CollectorTypes
    <2> QED
      BY <2>1, <2>2
  <1>9. GarbageIsFreed'
    BY <1>2 DEF GarbageIsFreed
  <1> QED
    BY <1>5, <1>6, <1>7, <1>8, <1>9 DEF HeapInv

\* The steps of a collection between two marks.
LEMMA WalkingKeepsHeap ==
    ASSUME HeapInv, MarkInv, MarkPop \/ RootsDone \/ RescanBlock \/ RescanRound \/ RescanDone
    PROVE  HeapInv' /\ at' = at
  <1>1. /\ at' = at /\ mem' = mem /\ root' = root /\ last' = last /\ req' = req
        /\ pc \in {"roots", "mark", "rescan"}
    BY DEF MarkPop, RootsDone, RescanBlock, RescanRound, RescanDone
  <1>2. HeapSound' /\ Reachable' = Reachable /\ (SoleReference' <=> SoleReference)
        /\ \A b : ChainLen(b)' = ChainLen(b)
    BY <1>1, HeapUnchanged DEF HeapInv
  <1>3. PendingMove'
    BY <1>1, <1>2 DEF HeapInv, PendingMove
  <1>4. MarksReach'
    BY <1>1, <1>2 DEF HeapInv, MarksReach
  <1>5. pc' \in {"roots", "mark", "rescan", "sweep"}
    BY DEF MarkPop, RootsDone, RescanBlock, RescanRound, RescanDone, MarkInv, MarkTypes
  <1>6. GarbageIsFreed'
    BY <1>5 DEF GarbageIsFreed
  <1>7. CollectorTypes'
    <2>1. CASE MarkPop
      <3>1. stack \in Seq(Blocks) /\ pos' = pos /\ pc = "mark"
        BY <2>1 DEF MarkPop, MarkInv, MarkTypes
      <3>2. CASE stack # <<>> /\ cur' = stack[Len(stack)]
                  /\ stack' = SubSeq(stack, 1, Len(stack) - 1) /\ UNCHANGED <<pc, back>>
        <4>1. Len(stack) \in Nat \ {0}
          BY <3>1, <3>2, EmptySeq
        <4>2. cur' \in Blocks
          BY <3>1, <3>2, <4>1, ElementOfSeq
        <4>3. Len(stack') = Len(stack) - 1
          <5> DEFINE n == Len(stack) - 1
          <5>1. n \in Nat /\ n <= Len(stack)
            BY <4>1
          <5>2. Len(SubSeq(stack, 1, n)) = n
            <6> HIDE DEF n
            <6> QED
              BY ONLY <3>1, <5>1
          <5> QED
            BY <3>2, <5>2
        <4>4. Len(stack') <= StackSize
          BY <4>1, <4>3, HeapAssumption DEF HeapInv, CollectorTypes
        <4> QED
          BY <1>1, <3>1, <3>2, <4>2, <4>4 DEF HeapInv, CollectorTypes
      <3>3. CASE stack = <<>> /\ pc' = back /\ back' = "run" /\ cur' = 0 /\ UNCHANGED stack
        <4>1. 0 \in Blocks
          BY HeapAssumption DEF Blocks
        <4> QED
          BY <1>1, <1>5, <3>1, <3>3, <4>1 DEF HeapInv, CollectorTypes
      <3> QED
        BY <2>1, <3>2, <3>3 DEF MarkPop
    <2>2. CASE RootsDone
      BY <1>1, <2>2, HeapAssumption DEF RootsDone, HeapInv, CollectorTypes
    <2>3. CASE RescanBlock
      <3>1. PICK b \in pos .. NumBlocks - 1 : cur' = b /\ pos' = b + 1
        BY <2>3 DEF RescanBlock
      <3>2. cur' \in Blocks /\ pos' \in 0 .. NumBlocks
        BY <3>1, HeapAssumption DEF HeapInv, CollectorTypes, Blocks
      <3> QED
        BY <1>1, <2>3, <3>2 DEF RescanBlock, HeapInv, CollectorTypes
    <2>4. CASE RescanRound \/ RescanDone
      BY <1>1, <2>4, HeapAssumption DEF RescanRound, RescanDone, HeapInv, CollectorTypes
    <2> QED
      BY <2>1, <2>2, <2>3, <2>4
  <1> QED
    BY <1>1, <1>2, <1>3, <1>4, <1>6, <1>7 DEF HeapInv

\* gc_sweep frees what is not marked, and that is what is not reachable.
LEMMA SweepKeepsHeap ==
    ASSUME HeapInv, MarkInv, ReachableIsMarked, Sweep
    PROVE  HeapInv'
  <1> DEFINE R == ReachIn(at, mem, root)
             Q == ReachIn(at', mem', root')
  <1>1. /\ WellTable(at) /\ Table(at)
        /\ mem \in [Blocks -> [WordSlots -> Blocks \cup {None, Stale}]]
        /\ root \in [RootSlots -> Blocks \cup {None}]
        /\ SafeIn(at, mem, root, R) /\ R \subseteq HeadsIn(at)
        /\ \A k \in Blocks : at[k] # "FREE" => \A s \in WordSlots : mem[k][s] # Stale
        /\ Reachable = R /\ Reachable' = Q
    BY ReachIsReachable DEF HeapInv, HeapSound, Sound, WellTable, SafeIn
  <1>2. /\ pc = "sweep" /\ pc' = "retry" /\ root' = root /\ last' = 0 /\ stack' = stack
        /\ back' = back /\ cur' = cur /\ pos' = pos /\ req' = req
        /\ mem' = [b \in Blocks |-> IF Swept(b) = "FREE" THEN Leftover ELSE mem[b]]
    BY DEF Sweep
  <1>3. /\ WellTable(at') /\ Table(at')
        /\ \A b \in Blocks : at'[b] \in {"HEAD", "MARK"} <=> at[b] = "MARK"
        /\ \A b \in Blocks : at'[b] # "FREE" => at[b] # "FREE" /\ mem'[b] = mem[b]
        /\ \A c \in Blocks : at[c] = "MARK" =>
             /\ LenIn(at', c) = LenIn(at, c)
             /\ \A x \in BlocksOf(at, c) : at'[x] # "FREE"
    BY <1>1, Sweeping DEF WellTable
  <1>4. \A c \in R : at[c] = "MARK" /\ c \in Blocks
    BY <1>1, <1>2 DEF ReachableIsMarked, HeadsIn
  <1>5. \A c \in R : HeadIn(at', c) /\ LenIn(at', c) = LenIn(at, c) /\ c \in Blocks
    BY <1>3, <1>4 DEF HeadIn
  <1>6. ASSUME NEW c \in R, NEW x \in BlocksOf(at, c) PROVE mem'[x] = mem[x]
    <2>1. x \in Blocks
      BY <1>1, <1>4, ChainBlocks
    <2> QED
      BY <1>3, <1>4, <2>1
  <1>7. SafeIn(at', mem', root', Q) /\ Q \subseteq R
    <2>1. KeepsAndAdds(R, {})
      BY <1>1, <1>2, <1>3, <1>5, <1>6 DEF KeepsAndAdds, SafeIn
    <2> QED
      BY <2>1, SafeStep
  <1>8. R \subseteq Q
    <2>1. Q \subseteq HeadsIn(at)
      BY <1>1, <1>7
    <2>2. \A c \in Q : BlocksOf(at', c) = BlocksOf(at, c)
      BY <1>5, <1>7 DEF BlocksOf
    <2>3. SafeIn(at, mem, root, Q)
      BY <1>2, <1>6, <1>7, <2>1, <2>2 DEF SafeIn
    <2> QED
      BY <1>1, <2>3, ReachIsSafe
  <1>9. HeapSound'
    <2>1. mem' \in [Blocks -> [WordSlots -> Blocks \cup {None, Stale}]]
      BY <1>1, <1>2, NoneIsNoBlock
    <2>2. last' \in Hints /\ HintIn(at', last')
      <3>1. NumBlocks \div BlocksPerAtb \in Nat /\ 0 * BlocksPerAtb = 0
        BY HeapAssumption, DivBounds
      <3> QED
        BY <1>2, <3>1 DEF Hints, HintIn, Blocks
    <2>3. \A k \in Blocks : at'[k] # "FREE" => \A s \in WordSlots : mem'[k][s] # Stale
      BY <1>1, <1>3
    <2> QED
      BY <1>1, <1>2, <1>3, <1>7, <2>1, <2>2, <2>3 DEF HeapSound, Sound
  <1>10. GarbageIsFreed'
    <2>1. \A b \in Blocks : at[b] = "MARK" => b \in R
      BY <1>1 DEF HeapInv, MarksReach
    <2> QED
      BY <1>1, <1>3, <1>8, <2>1 DEF GarbageIsFreed
  <1>11. MarksReach'
    BY <1>1, <1>3, <1>8 DEF MarksReach, HeapInv
  <1>12. PendingMove'
    <2>1. ASSUME req.op = "move" PROVE SoleReference' /\ ChainLen(root[Value])' = ChainLen(root[Value])
      <3>1. root[Value] \in Blocks /\ SoleReference
        BY <1>2, <2>1 DEF HeapInv, PendingMove
      <3>2. root[Value] \in R
        BY <1>1, <3>1, NoneIsNoBlock DEF SafeIn
      <3>3. ChainLen(root[Value])' = ChainLen(root[Value])
        BY <1>2, <1>5, <3>2, LenIsChainLen
      <3>4. SoleReference'
        BY <1>1, <1>2, <1>3, <1>5, <1>6, <1>7, <3>1, SoleKept
      <3> QED
        BY <3>3, <3>4
    <2> QED
      BY <1>2, <2>1 DEF HeapInv, PendingMove
  <1>13. CollectorTypes'
    BY <1>2 DEF HeapInv, CollectorTypes
  <1> QED
    BY <1>9, <1>10, <1>11, <1>12, <1>13 DEF HeapInv

\* The allocation or the move is tried again.
LEMMA RetryKeepsHeap ==
    ASSUME HeapInv, MarkInv, MarkInv', Retry
    PROVE  HeapInv' /\ OthersKept
  <1>1. /\ pc = "retry" /\ pc' = "run" /\ req' = None /\ stack' = stack /\ back' = back
        /\ cur' = cur /\ pos' = pos /\ HeapSound
    BY DEF Retry, HeapInv
  <1>2. CollectorTypes'
    BY <1>1 DEF HeapInv, CollectorTypes
  <1>3. /\ req.n \in Nat \ {0}
        /\ req.op = "move" =>
             root[Value] \in Blocks /\ SoleReference /\ ChainLen(root[Value]) < req.n
    BY <1>1, HeapAssumption DEF HeapInv, PendingMove
  <1>4. CASE AllocFound(req.n)
    BY <1>1, <1>2, <1>3, <1>4, AllocIsSound, RunStep DEF OthersKept
  <1>5. CASE req.op = "move" /\ MoveFound(req.n)
    BY <1>1, <1>2, <1>3, <1>5, MoveIsSound, RunStep
  <1>6. CASE UNCHANGED <<at, mem, root, last>>
    <2>1. Sound(at', mem', root', last') /\ OthersKept
      BY <1>1, <1>6 DEF HeapSound, OthersKept, SameObject
    <2> QED
      BY <1>1, <1>2, <2>1, RunStep
  <1> QED
    BY <1>4, <1>5, <1>6 DEF Retry

---------------------------------------------------------------------------
(***************************************************************************)
(* The theorems.                                                           *)
(***************************************************************************)
LEMMA HeapInitially == Init => HeapInv
  <1> SUFFICES ASSUME Init PROVE HeapInv
    OBVIOUS
  <1>1. /\ at = [b \in 0 .. NumBlocks |-> "FREE"] /\ last = 0
        /\ mem = [b \in Blocks |-> Leftover] /\ root = [r \in RootSlots |-> None]
        /\ stack = <<>> /\ pc = "run" /\ back = "run" /\ cur = 0 /\ pos = 0 /\ req = None
    BY DEF Init, gc_init
  <1>2. NumBlocks \in Nat \ {0} /\ NumBlocks \in 0 .. NumBlocks /\ \A b \in Blocks : b \in 0 .. NumBlocks
    BY HeapAssumption DEF Blocks
  <1>3. WellTable(at) /\ Table(at) /\ \A b \in Blocks : at[b] = "FREE"
    BY <1>1, <1>2 DEF WellTable, Table, Kinds
  <1>4. last \in Hints /\ HintIn(at, last)
    <2>1. NumBlocks \div BlocksPerAtb \in Nat /\ 0 * BlocksPerAtb = 0
      BY HeapAssumption, DivBounds
    <2> QED
      BY <1>1, <2>1 DEF Hints, HintIn, Blocks
  <1>5. SafeIn(at, mem, root, {})
    BY <1>1, NoneIsNoBlock DEF SafeIn
  <1>6. SafeIn(at, mem, root, ReachIn(at, mem, root))
    BY <1>3, <1>5, ReachIsSafe
  <1>7. /\ mem \in [Blocks -> [WordSlots -> Blocks \cup {None, Stale}]]
        /\ root \in [RootSlots -> Blocks \cup {None}]
    BY <1>1, NoneIsNoBlock
  <1>8. HeapSound
    BY <1>3, <1>4, <1>6, <1>7 DEF HeapSound, Sound
  <1>9. CollectorTypes
    <2>1. Len(stack) = 0 /\ 0 \in Blocks /\ 0 \in 0 .. NumBlocks /\ StackSize \in Nat
      BY <1>1, <1>2, HeapAssumption DEF Blocks
    <2> QED
      BY <1>1, <2>1 DEF CollectorTypes
  <1> QED
    BY <1>1, <1>3, <1>8, <1>9 DEF HeapInv, PendingMove, MarksReach, GarbageIsFreed

\* The heap stays sound, through every request and every collection.
THEOREM HeapInvariant == Spec => []HeapInv
  <1>1. HeapInv /\ MarkInv /\ MarkInv' /\ ReachableIsMarked /\ [Next]_vars => HeapInv'
    <2> SUFFICES ASSUME HeapInv, MarkInv, MarkInv', ReachableIsMarked, [Next]_vars PROVE HeapInv'
      OBVIOUS
    <2>1. CASE Mutator
      BY <2>1, MutatorKeepsHeap
    <2>2. CASE Collector
      BY <2>2, MarkingKeepsHeap, WalkingKeepsHeap, SweepKeepsHeap, RetryKeepsHeap DEF Collector
    <2>3. CASE UNCHANGED vars
      <3>1. /\ at' = at /\ mem' = mem /\ root' = root /\ last' = last /\ stack' = stack
            /\ pc' = pc /\ back' = back /\ cur' = cur /\ pos' = pos /\ req' = req
        BY <2>3 DEF vars
      <3>2. HeapSound' /\ Reachable' = Reachable /\ (SoleReference' <=> SoleReference)
            /\ \A b : ChainLen(b)' = ChainLen(b)
        BY <3>1, HeapUnchanged DEF HeapInv
      <3> QED
        BY <3>1, <3>2 DEF HeapInv, CollectorTypes, PendingMove, MarksReach, GarbageIsFreed
    <2> QED
      BY <2>1, <2>2, <2>3 DEF Next
  <1> QED
    BY <1>1, HeapInitially, MarkingInvariant, MarkingIsComplete, PTL DEF Spec

\* The collector's variables and the heap keep their types: the mark stack never grows
\* past MICROPY_ALLOC_GC_STACK_SIZE, and no position leaves the table.
THEOREM HeapTypeCorrect == Spec => []TypeOK
  <1>1. HeapInv /\ MarkInv => TypeOK
    BY DEF HeapInv, HeapSound, Sound, WellTable, Table, Hints, CollectorTypes, MarkInv, MarkTypes,
           TypeOK
  <1> QED
    BY <1>1, HeapInvariant, MarkingInvariant, PTL

\* The allocation table is always a sequence of chains, and the entry behind it, which the
\* loops read, is never taken (gc_alloc, gc_free, gc_realloc, gc_sweep).
THEOREM TableStaysWellFormed == Spec => []TableWellFormed
  <1>1. HeapInv /\ MarkInv => TableWellFormed
    BY DEF HeapInv, HeapSound, Sound, WellTable, Table, MarkInv, MarksBelong, TableWellFormed
  <1> QED
    BY <1>1, HeapInvariant, MarkingInvariant, PTL

\* gc_last_free_atb_index never lies behind a free block, for every number of blocks in a
\* byte of the table.
THEOREM HintIsSafe == Spec => []HintSkipsNothing
  <1>1. HeapInv => HintSkipsNothing
    BY DEF HeapInv, HeapSound, Sound, HintIn, HintSkipsNothing
  <1> QED
    BY <1>1, HeapInvariant, PTL

\* No allocated block shows what a former owner left in it (gc_alloc's and gc_realloc's
\* memset).
THEOREM MemoryIsCleared == Spec => []NothingStale
  <1>1. HeapInv => NothingStale
    BY DEF HeapInv, HeapSound, Sound, NothingStale
  <1> QED
    BY <1>1, HeapInvariant, PTL

\* No object that the interpreter can reach is ever taken away, by a collection or by the
\* resizing or freeing of another one.
THEOREM NothingReachableIsFreed == Spec => []ReachableIsAllocated
  <1>1. HeapInv /\ MarkInv => ReachableIsAllocated
    <2> SUFFICES ASSUME HeapInv, MarkInv, pc \in {"run", "retry"}
                 PROVE  /\ \A r \in RootSlots : root[r] \in Blocks => at[root[r]] = "HEAD"
                        /\ \A b \in Reachable : \A w \in ChainWords(b) :
                              Word(b, w) \in Blocks => at[Word(b, w)] = "HEAD"
      BY DEF ReachableIsAllocated
    <2> DEFINE R == ReachIn(at, mem, root)
    <2>1. Table(at) /\ SafeIn(at, mem, root, R) /\ Reachable = R
      BY ReachIsReachable DEF HeapInv, HeapSound, Sound, WellTable
    <2>2. \A b \in R : b \in Blocks /\ at[b] = "HEAD"
      BY <2>1 DEF SafeIn, HeadsIn, HeadIn, MarkInv, MarksBelong
    <2>3. \A r \in RootSlots : root[r] \in Blocks => at[root[r]] = "HEAD"
      BY <2>1, <2>2 DEF SafeIn
    <2>4. ASSUME NEW b \in Reachable, NEW w \in ChainWords(b), Word(b, w) \in Blocks
          PROVE  at[Word(b, w)] = "HEAD"
      <3>1. b \in R /\ b \in Blocks /\ w \in WordsIn(at, b)
        BY <2>1, <2>2, LenIsChainLen DEF ChainWords, WordsIn
      <3>2. b + w \div WordsPerBlock \in BlocksOf(at, b) /\ w % WordsPerBlock \in WordSlots
        BY <2>1, <3>1, WordsAreSlots
      <3>3. Word(b, w) \in R
        BY <2>1, <2>4, <3>1, <3>2 DEF SafeIn, Word
      <3> QED
        BY <2>2, <3>3
    <2> QED
      BY <2>3, <2>4
  <1> QED
    BY <1>1, HeapInvariant, MarkingInvariant, PTL

\* A collection leaves no object that the interpreter cannot reach, however often the mark
\* stack overflowed (gc_collect_root and gc_mark_subtree mark reachable objects only).
THEOREM NoGarbageSurvives == Spec => []GarbageIsFreed
  <1>1. HeapInv => GarbageIsFreed
    BY DEF HeapInv
  <1> QED
    BY <1>1, HeapInvariant, PTL

\* An object keeps every one of its blocks until it is freed or resized itself.
THEOREM ObjectsAreKept == Spec => ObjectsKeepTheirBlocks
  <1> DEFINE Kept == \A b \in Blocks :
                \/ at[b] = "MARK"
                \/ at[b] = "HEAD" /\ pc # "sweep" /\ b # root[Value]
                => at'[b] \in {"HEAD", "MARK"} /\ ChainLen(b)' = ChainLen(b)
  <1>1. HeapInv /\ MarkInv /\ MarkInv' /\ [Next]_vars => [Kept]_vars
    <2> SUFFICES ASSUME HeapInv, MarkInv, MarkInv', Next, NEW b \in Blocks,
                        \/ at[b] = "MARK"
                        \/ at[b] = "HEAD" /\ pc # "sweep" /\ b # root[Value]
                 PROVE  at'[b] \in {"HEAD", "MARK"} /\ ChainLen(b)' = ChainLen(b)
      OBVIOUS
    <2>1. HeadIn(at, b)
      BY DEF HeadIn
    <2>2. ASSUME OthersKept, pc \in {"run", "retry"}
          PROVE  at'[b] \in {"HEAD", "MARK"} /\ ChainLen(b)' = ChainLen(b)
      <3>1. at[b] # "MARK"
        BY <2>2 DEF MarkInv, MarksBelong
      <3> QED
        BY <2>1, <2>2, <3>1, LenIsChainLen DEF OthersKept, SameObject, HeadIn
    <2>3. CASE Mutator
      <3>1. pc = "run"
        BY <2>3 DEF Mutator, gc_alloc, gc_realloc, gc_free, Copy, Drop, Store
      <3> QED
        BY <2>2, <2>3, <3>1, MutatorKeepsHeap
    <2>4. CASE CollectRoot \/ MarkChild
      BY <2>1, <2>4, MarkingKeepsHeap, LenIsChainLen DEF HeadIn
    <2>5. CASE MarkPop \/ RootsDone \/ RescanBlock \/ RescanRound \/ RescanDone
      <3>1. at' = at
        BY <2>5, WalkingKeepsHeap
      <3> QED
        BY <2>1, <3>1, LenIsChainLen DEF HeadIn
    <2>6. CASE Sweep
      <3>1. at[b] = "MARK" /\ WellTable(at)
        BY <2>6 DEF Sweep, HeapInv, HeapSound, Sound
      <3>2. at'[b] \in {"HEAD", "MARK"} /\ LenIn(at', b) = LenIn(at, b)
        BY <2>6, <3>1, Sweeping
      <3> QED
        BY <3>2, LenIsChainLen
    <2>7. CASE Retry
      <3>1. pc = "retry"
        BY <2>7 DEF Retry
      <3> QED
        BY <2>2, <2>7, <3>1, RetryKeepsHeap
    <2> QED
      BY <2>3, <2>4, <2>5, <2>6, <2>7 DEF Next, Collector
  <1>2. ObjectsKeepTheirBlocks <=> [][Kept]_vars
    BY PTL DEF ObjectsKeepTheirBlocks
  <1> HIDE DEF Kept
  <1> QED
    BY <1>1, <1>2, HeapInvariant, MarkingInvariant, PTL DEF Spec

\* Every step of a collection makes the measure smaller that Closer describes: a
\* collection cannot go on for ever, whatever the size of the mark stack.
THEOREM CollectionsComeCloser == Spec => CollectionProgresses
  <1> DEFINE Comes == pc \notin {"run", "sweep", "retry"} => Closer
  <1>1. HeapInv /\ MarkInv /\ [Next]_vars => [Comes]_vars
    <2> SUFFICES ASSUME HeapInv, MarkInv, Next, pc \notin {"run", "sweep", "retry"} PROVE Closer
      OBVIOUS
    <2>1. /\ pos \in Nat /\ NumBlocks \in Nat /\ overflow \in BOOLEAN
          /\ stack \in Seq(Blocks) /\ (pc = "mark" => back \in {"roots", "rescan"})
          /\ (pc # "mark" => stack = <<>>)
      BY HeapAssumption DEF HeapInv, CollectorTypes, MarkInv, MarkTypes
    <2>2. ~Mutator /\ ~Sweep /\ ~Retry
      BY DEF Mutator, gc_alloc, gc_realloc, gc_free, Copy, Drop, Store, Sweep, Retry
    <2>3. CASE CollectRoot \/ MarkChild
      <3>1. \E p : MarksOne(p)
        BY <2>3 DEF CollectRoot, MarkChild, MarksOne, IsUnmarked
      <3>2. PICK p : MarksOne(p)
        BY <3>1
      <3>3. /\ p \in Unmarked
            /\ \A b \in Blocks : at'[b] = "HEAD" <=> b # p /\ at[b] = "HEAD"
        BY <3>2, HeapAssumption DEF MarksOne, Unmarked, MarkInv, MarkTypes, Blocks
      <3>4. Unmarked' \subseteq Unmarked /\ p \notin Unmarked'
        BY <3>3 DEF Unmarked
      <3> QED
        BY <3>3, <3>4 DEF Closer
    <2>4. CASE RootsDone
      <3>1. pc = "roots" /\ pc' = "rescan" /\ at' = at /\ overflow' = overflow
        BY <2>4 DEF RootsDone
      <3>2. Phase = 3 /\ Phase' = 2 /\ Unmarked' = Unmarked
        BY <3>1 DEF Phase, Unmarked
      <3> QED
        BY <3>1, <3>2 DEF Closer
    <2>5. CASE RescanBlock
      <3>1. /\ pc = "rescan" /\ pc' = "mark" /\ back' = "rescan" /\ at' = at
            /\ overflow' = overflow /\ \E b \in pos .. NumBlocks - 1 : pos' = b + 1
        BY <2>5 DEF RescanBlock
      <3>2. Phase = 2 /\ Phase' = 2 /\ Unmarked' = Unmarked
        BY <3>1 DEF Phase, Unmarked
      <3>3. pos' > pos
        BY <2>1, <3>1
      <3> QED
        BY <3>1, <3>2, <3>3 DEF Closer
    <2>6. CASE RescanRound
      <3>1. overflow /\ ~overflow' /\ at' = at
        BY <2>6 DEF RescanRound
      <3> QED
        BY <3>1 DEF Closer, Unmarked
    <2>7. CASE RescanDone
      <3>1. pc = "rescan" /\ pc' = "sweep" /\ at' = at /\ overflow' = overflow
        BY <2>7 DEF RescanDone
      <3>2. Phase = 2 /\ Phase' = 1 /\ Unmarked' = Unmarked
        BY <3>1 DEF Phase, Unmarked
      <3> QED
        BY <3>1, <3>2 DEF Closer
    <2>8. CASE MarkPop
      <3>1. pc = "mark" /\ at' = at /\ overflow' = overflow /\ pos' = pos
        BY <2>8 DEF MarkPop
      <3>2. Unmarked' = Unmarked
        BY <3>1 DEF Unmarked
      <3>3. CASE stack # <<>> /\ stack' = SubSeq(stack, 1, Len(stack) - 1) /\ UNCHANGED <<pc, back>>
        <4>1. Len(stack) \in Nat \ {0}
          BY <2>1, <3>3, EmptySeq
        <4> DEFINE n == Len(stack) - 1
        <4>2. n \in Nat /\ n <= Len(stack) /\ Len(stack) = n + 1
          BY <4>1
        <4>3. Len(SubSeq(stack, 1, n)) = n
          <5> HIDE DEF n
          <5> QED
            BY ONLY <2>1, <4>2
        <4>4. Len(stack') = n
          BY <3>3, <4>3
        <4>5. Phase' = Phase
          BY <3>3 DEF Phase
        <4>6. Pending' < Pending
          <5> HIDE DEF n
          <5> QED
            BY <3>1, <3>3, <4>2, <4>4 DEF Pending
        <4> QED
          BY <3>1, <3>2, <4>5, <4>6 DEF Closer
      <3>4. CASE stack = <<>> /\ pc' = back /\ UNCHANGED stack
        <4>1. pc' \in {"roots", "rescan"} /\ pc' = back
          BY <2>1, <3>1, <3>4
        <4>2. Phase' = Phase
          BY <3>1, <4>1 DEF Phase
        <4>3. Pending = 1 /\ Pending' = 0
          BY <3>1, <3>4, <4>1 DEF Pending
        <4> QED
          BY <3>1, <3>2, <4>2, <4>3 DEF Closer
      <3> QED
        BY <2>8, <3>3, <3>4 DEF MarkPop
    <2> QED
      BY <2>2, <2>3, <2>4, <2>5, <2>6, <2>7, <2>8 DEF Next, Collector
  <1>2. CollectionProgresses <=> [][Comes]_vars
    BY PTL DEF CollectionProgresses
  <1> HIDE DEF Comes
  <1> QED
    BY <1>1, <1>2, HeapInvariant, MarkingInvariant, PTL DEF Spec
=============================================================================
