------------------------- MODULE GarbageCollector -------------------------
(***************************************************************************)
(* The heap of one interpreter (libIPUpy.c 588-1365 and the port's         *)
(* gc_collect): the allocation table, first-fit allocation with the hint   *)
(* gc_last_free_atb_index, resizing in place or by moving, and the         *)
(* mark-and-sweep collector whose mark stack is bounded.                   *)
(*                                                                         *)
(* Nothing else runs during a collection, but the collection itself is a   *)
(* loop over state (stack, overflow flag, scan position) that its          *)
(* correctness rests on, so every iteration is a step.  The interpreter is *)
(* reduced to what it does to pointers: it copies, stores and drops them,   *)
(* and asks for memory.  A word of memory is a pointer to the first byte   *)
(* of a block, None (anything else), or Stale, what is left in a block     *)
(* that was freed.                                                         *)
(***************************************************************************)
EXTENDS Naturals, Sequences, FiniteSets, FiniteSetsExt

CONSTANTS
    NumBlocks,      \* blocks of the pool, gc_alloc_table_byte_len * BLOCKS_PER_ATB
    BlocksPerAtb,   \* BLOCKS_PER_ATB
    WordsPerBlock,  \* WORDS_PER_BLOCK
    StackSize,      \* MICROPY_ALLOC_GC_STACK_SIZE
    NumRoots,       \* words of mp_state_ctx, the python stack and the C stack
    MaxRequest,     \* bound: blocks asked for at once
    MaxPointers,    \* bound: words of the pool that hold a pointer at one time
    None, Stale

ASSUME HeapAssumption ==
    /\ NumBlocks \in Nat \ {0} /\ BlocksPerAtb \in Nat \ {0}
    /\ WordsPerBlock \in Nat \ {0}
    /\ StackSize \in Nat /\ NumRoots \in Nat \ {0} /\ MaxRequest \in Nat /\ MaxPointers \in Nat
    /\ NumBlocks % BlocksPerAtb = 0
    /\ None \notin Nat /\ Stale \notin Nat /\ None # Stale

VARIABLES
    at,        \* the allocation table, and the entry behind its end
    mem,       \* the words of each block
    root,      \* the words a collection starts from
    last,      \* gc_last_free_atb_index
    stack,     \* gc_stack, as far as it is filled
    overflow,  \* gc_stack_overflow
    pc,        \* "run", or the loop of the collection that is going on
    back,      \* the loop gc_mark_subtree was called from
    cur,       \* gc_mark_subtree: the block whose children are looked at
    pos,       \* gc_deal_with_stack_overflow: the block it has come to
    req        \* the gc_alloc or gc_realloc that a collection interrupts

vars == <<at, mem, root, last, stack, overflow, pc, back, cur, pos, req>>
collector == <<stack, overflow, pc, back, cur, pos, req>>

Blocks == 0 .. NumBlocks - 1
RootSlots == 0 .. NumRoots - 1
Value == 0  \* the root slot that holds what the interpreter is working on
WordSlots == 0 .. WordsPerBlock - 1
Kinds == {"FREE", "HEAD", "TAIL", "MARK"}

\* gc_init.  The table has no entry for block NumBlocks, but the loops below look
\* at it; the bytes between table and pool belong to a zeroed static array.
gc_init ==
    /\ at = [b \in 0 .. NumBlocks |-> "FREE"]
    /\ last = 0

\* The length of the chain of blocks that starts at b: the head, and the tails that
\* follow it, up to the first entry that is not a tail.
ChainLen(b) ==
    CHOOSE n \in 1 .. NumBlocks + 1 - b :
        /\ \A k \in 1 .. n - 1 : at[b + k] = "TAIL"
        /\ b + n <= NumBlocks => at[b + n] # "TAIL"

ChainWords(b) == (0 .. ChainLen(b) * WordsPerBlock - 1)
Word(b, w) == mem[b + w \div WordsPerBlock][w % WordsPerBlock]

Cleared == [w \in WordSlots |-> None]
Leftover == [w \in WordSlots |-> Stale]

---------------------------------------------------------------------------
\* gc_alloc: the ends of the runs of n free blocks that the search meets when it
\* starts at table byte `first`, and the allocation of the first such run.

RunEnds(n, first) ==
    {i \in first * BlocksPerAtb + n - 1 .. NumBlocks - 1 :
        \A b \in i + 1 - n .. i : at[b] = "FREE"}

Claim(n, i) ==
    [b \in 0 .. NumBlocks |->
        IF b = i + 1 - n THEN "HEAD" ELSE IF b \in i + 2 - n .. i THEN "TAIL" ELSE at[b]]

LastAfterAlloc(n, i) == IF n = 1 THEN (i + 1) \div BlocksPerAtb ELSE last

\* gc_free: the blocks of the chain, and the hint moved back.
\* Mutant: the hint stays where it was.
LastAfterFreeKept(b, hint) == hint
LastAfterFree(b, hint) == IF b \div BlocksPerAtb < hint THEN b \div BlocksPerAtb ELSE hint

\* gc_alloc finds room: the zeroed blocks become the value.
AllocFound(n) ==
    /\ RunEnds(n, last) # {}
    /\ LET i == Min(RunEnds(n, last))
       IN  /\ at' = Claim(n, i)
           /\ mem' = [b \in Blocks |-> IF b \in i + 1 - n .. i THEN Cleared ELSE mem[b]]
           /\ root' = [root EXCEPT ![Value] = i + 1 - n]
           /\ last' = LastAfterAlloc(n, i)

\* gc_realloc finds no room behind its block: gc_alloc, memcpy, gc_free.  The caller's
\* own reference becomes the new one.
MoveFound(n) ==
    /\ RunEnds(n, last) # {}
    /\ LET i == Min(RunEnds(n, last))
           new == i + 1 - n
           old == root[Value]
           len == ChainLen(old)
           oldBlocks == old .. old + len - 1
       IN  /\ at' = [b \in 0 .. NumBlocks |->
                        IF b \in oldBlocks THEN "FREE" ELSE Claim(n, i)[b]]
           /\ mem' = [b \in Blocks |->
                        IF b \in oldBlocks THEN Leftover
                        ELSE IF b \in new .. new + len - 1 THEN mem[old + (b - new)]
                        ELSE IF b \in new + len .. i THEN Cleared
                        ELSE mem[b]]
           /\ root' = [root EXCEPT ![Value] = new]
           /\ last' = LastAfterFree(old, LastAfterAlloc(n, i))

\* gc_collect_start: the lock is `pc`.
CollectStart(op, n) ==
    /\ RunEnds(n, last) = {}
    /\ req' = [op |-> op, n |-> n]
    /\ pc' = "roots"
    /\ overflow' = FALSE
    /\ UNCHANGED <<at, mem, root, last, stack, back, cur, pos>>

gc_alloc(n) ==
    /\ pc = "run"
    /\ \/ AllocFound(n) /\ UNCHANGED collector
       \/ CollectStart("alloc", n)

\* The second round of gc_alloc's loop, after the collection.  When it fails too, the
\* caller gets NULL and raises MemoryError: nothing has changed.
Retry ==
    /\ pc = "retry"
    /\ \/ req.op = "alloc" /\ AllocFound(req.n)
       \/ req.op = "move" /\ MoveFound(req.n)
       \/ RunEnds(req.n, last) = {} /\ UNCHANGED <<at, mem, root, last>>
    /\ pc' = "run"
    /\ req' = None
    /\ UNCHANGED <<stack, overflow, back, cur, pos>>

---------------------------------------------------------------------------
\* What a collection should keep: the smallest set of blocks that holds the roots'
\* targets and the targets of its members' words.  A pointer to a block that is no
\* head keeps nothing.

IsHead(p) == p \in Blocks /\ at[p] \in {"HEAD", "MARK"}
RootTargets == {root[r] : r \in {q \in RootSlots : IsHead(root[q])}}
ClosedUnderPointers(S) ==
    \A b \in S : \A w \in ChainWords(b) : IsHead(Word(b, w)) => Word(b, w) \in S
Heads == {b \in Blocks : IsHead(b)}
Reachable ==
    LET targets == RootTargets
    IN  {b \in Heads : \A S \in SUBSET (Heads \ {b}) :
            targets \subseteq S => ~ClosedUnderPointers(S)}

\* The owner of a buffer resizes or frees it: nobody else may point to it.
SoleReference ==
    /\ \A r \in RootSlots \ {Value} : root[r] # root[Value]
    /\ \A b \in Reachable : \A w \in ChainWords(b) : Word(b, w) # root[Value]

gc_free ==
    /\ pc = "run"
    /\ root[Value] \in Blocks
    /\ SoleReference
    /\ LET b == root[Value]
           chain == b .. b + ChainLen(b) - 1
       IN  /\ at' = [k \in 0 .. NumBlocks |-> IF k \in chain THEN "FREE" ELSE at[k]]
           /\ mem' = [k \in Blocks |-> IF k \in chain THEN Leftover ELSE mem[k]]
           /\ last' = LastAfterFree(b, last)
    /\ root' = [root EXCEPT ![Value] = None]
    /\ UNCHANGED collector

\* gc_realloc: the free blocks behind the chain, counted until there are enough or the
\* table ends.
\* Mutant: the loop also takes the entry behind the table.
FreeBehindPastEnd(b, n) ==
    LET len == ChainLen(b)
    IN  Max({k \in 0 .. NumBlocks + 1 - b - len :
                /\ k = 0 \/ k + len <= n
                /\ \A j \in 0 .. k - 1 : at[b + len + j] = "FREE"})
FreeBehind(b, n) ==
    LET len == ChainLen(b)
    IN  Max({k \in 0 .. NumBlocks - b - len :
                /\ k = 0 \/ k + len <= n
                /\ \A j \in 0 .. k - 1 : at[b + len + j] = "FREE"})

ReallocShrink(b, n) ==
    /\ at' = [k \in 0 .. NumBlocks |->
                IF k \in b + n .. b + ChainLen(b) - 1 THEN "FREE" ELSE at[k]]
    /\ mem' = [k \in Blocks |->
                IF k \in b + n .. b + ChainLen(b) - 1 THEN Leftover ELSE mem[k]]
    /\ last' = LastAfterFree(b + n, last)
    /\ UNCHANGED root

\* Mutant: the blocks added are not cleared.
ReallocInPlaceUncleared(b, n) ==
    /\ at' = [k \in 0 .. NumBlocks |->
                IF k \in b + ChainLen(b) .. b + n - 1 THEN "TAIL" ELSE at[k]]
    /\ UNCHANGED <<mem, root, last>>
ReallocInPlace(b, n) ==
    /\ at' = [k \in 0 .. NumBlocks |->
                IF k \in b + ChainLen(b) .. b + n - 1 THEN "TAIL" ELSE at[k]]
    /\ mem' = [k \in Blocks |->
                IF k \in b + ChainLen(b) .. b + n - 1 THEN Cleared ELSE mem[k]]
    /\ UNCHANGED <<root, last>>

gc_realloc(n) ==
    /\ pc = "run"
    /\ root[Value] \in Blocks
    /\ SoleReference
    /\ LET b == root[Value]
           len == ChainLen(b)
       IN  \/ n < len /\ ReallocShrink(b, n) /\ UNCHANGED collector
           \/ len < n /\ n <= len + FreeBehind(b, n)
                /\ ReallocInPlace(b, n) /\ UNCHANGED collector
           \/ n > len + FreeBehind(b, n)
                /\ \/ MoveFound(n) /\ UNCHANGED collector
                   \/ CollectStart("move", n)

---------------------------------------------------------------------------
\* The interpreter's own steps: a pointer is kept, written into an object, or dropped.
\* Reading one out of an object is left out: it refers to a block that is reachable
\* already.

Copy(r) ==
    /\ pc = "run"
    /\ root' = [root EXCEPT ![r] = root[Value]]
    /\ UNCHANGED <<at, mem, last, collector>>

PointerWords == {x \in Blocks \X WordSlots : mem[x[1]][x[2]] \in Blocks}

Store(r, q) ==
    /\ pc = "run"
    /\ root[r] \in Blocks
    /\ root[q] = None \/ Cardinality(PointerWords) < MaxPointers
    /\ \E w \in ChainWords(root[r]) :
        mem' = [mem EXCEPT ![root[r] + w \div WordsPerBlock][w % WordsPerBlock] = root[q]]
    /\ UNCHANGED <<at, root, last, collector>>

Drop(r) ==
    /\ pc = "run"
    /\ root' = [root EXCEPT ![r] = None]
    /\ UNCHANGED <<at, mem, last, collector>>

---------------------------------------------------------------------------
\* The loops of the collector pass over words and blocks that ask for nothing, and
\* marks only appear: the next word that matters is the first one that points to a
\* block which is still an unmarked head.

IsUnmarked(p) == p \in Blocks /\ at[p] = "HEAD"

\* gc_collect_root: the next root that points to an unmarked head is marked and traced.
CollectRoot ==
    /\ pc = "roots"
    /\ \E r \in RootSlots :
        /\ IsUnmarked(root[r])
        /\ \A q \in 0 .. r - 1 : ~IsUnmarked(root[q])
        /\ at' = [at EXCEPT ![root[r]] = "MARK"]
        /\ cur' = root[r]
    /\ pc' = "mark" /\ back' = "roots"
    /\ UNCHANGED <<mem, root, last, stack, overflow, pos, req>>

\* gc_mark_subtree: the next child is marked, and pushed or, when the stack is full,
\* left for another round.
\* Mutant: the stack takes one block more than it has room for.
MarkChildOverrun ==
    /\ pc = "mark"
    /\ \E w \in ChainWords(cur) :
        /\ IsUnmarked(Word(cur, w))
        /\ \A v \in 0 .. w - 1 : ~IsUnmarked(Word(cur, v))
        /\ at' = [at EXCEPT ![Word(cur, w)] = "MARK"]
        /\ \/ /\ Len(stack) <= StackSize
              /\ stack' = Append(stack, Word(cur, w))
              /\ UNCHANGED overflow
           \/ /\ Len(stack) > StackSize
              /\ overflow' = TRUE
              /\ UNCHANGED stack
    /\ UNCHANGED <<mem, root, last, pc, back, cur, pos, req>>
MarkChild ==
    /\ pc = "mark"
    /\ \E w \in ChainWords(cur) :
        /\ IsUnmarked(Word(cur, w))
        /\ \A v \in 0 .. w - 1 : ~IsUnmarked(Word(cur, v))
        /\ at' = [at EXCEPT ![Word(cur, w)] = "MARK"]
        /\ \/ /\ Len(stack) < StackSize
              /\ stack' = Append(stack, Word(cur, w))
              /\ UNCHANGED overflow
           \/ /\ Len(stack) >= StackSize
              /\ overflow' = TRUE
              /\ UNCHANGED stack
    /\ UNCHANGED <<mem, root, last, pc, back, cur, pos, req>>

\* gc_mark_subtree: the block is done; the next one comes off the stack, or it returns.
MarkPop ==
    /\ pc = "mark"
    /\ \A w \in ChainWords(cur) : ~IsUnmarked(Word(cur, w))
    /\ \/ /\ stack # <<>>
          /\ cur' = stack[Len(stack)]
          /\ stack' = SubSeq(stack, 1, Len(stack) - 1)
          /\ UNCHANGED <<pc, back>>
       \/ /\ stack = <<>>
          /\ pc' = back /\ back' = "run" /\ cur' = 0
          /\ UNCHANGED stack
    /\ UNCHANGED <<at, mem, root, last, overflow, pos, req>>

\* gc_collect calls gc_collect_end after the last root.
RootsDone ==
    /\ pc = "roots"
    /\ \A r \in RootSlots : ~IsUnmarked(root[r])
    /\ pc' = "rescan" /\ pos' = NumBlocks
    /\ UNCHANGED <<at, mem, root, last, stack, overflow, back, cur, req>>

\* gc_deal_with_stack_overflow: the next marked block of a round over the table is
\* traced again; after a round the flag is looked at.
RescanBlock ==
    /\ pc = "rescan"
    /\ \E b \in pos .. NumBlocks - 1 :
        /\ at[b] = "MARK"
        /\ \A c \in pos .. b - 1 : at[c] # "MARK"
        /\ cur' = b /\ pos' = b + 1
    /\ pc' = "mark" /\ back' = "rescan"
    /\ UNCHANGED <<at, mem, root, last, stack, overflow, req>>

\* Mutant: the flag is not cleared before the round.
RescanRoundFlagKept ==
    /\ pc = "rescan" /\ overflow
    /\ \A b \in pos .. NumBlocks - 1 : at[b] # "MARK"
    /\ pos' = 0
    /\ UNCHANGED <<at, mem, root, last, stack, overflow, pc, back, cur, req>>
RescanRound ==
    /\ pc = "rescan" /\ overflow
    /\ \A b \in pos .. NumBlocks - 1 : at[b] # "MARK"
    /\ overflow' = FALSE /\ pos' = 0
    /\ UNCHANGED <<at, mem, root, last, stack, pc, back, cur, req>>

\* Mutant: sweeps although the stack overflowed.
RescanDoneEarly ==
    /\ pc = "rescan"
    /\ \A b \in pos .. NumBlocks - 1 : at[b] # "MARK"
    /\ pc' = "sweep" /\ pos' = 0
    /\ UNCHANGED <<at, mem, root, last, stack, overflow, back, cur, req>>
RescanDone ==
    /\ pc = "rescan" /\ ~overflow
    /\ \A b \in pos .. NumBlocks - 1 : at[b] # "MARK"
    /\ pc' = "sweep" /\ pos' = 0
    /\ UNCHANGED <<at, mem, root, last, stack, overflow, back, cur, req>>

\* gc_sweep, and the end of gc_collect_end.  free_tail, at a tail, is what the last
\* entry before it that is head or mark has made of it.
\* Mutant: a marked block does not end the freeing of tails.
FreeTailOnwards(b) == \E h \in 0 .. b - 1 : at[h] = "HEAD"
FreeTail(b) ==
    \E h \in 0 .. b - 1 : at[h] = "HEAD" /\ \A k \in h + 1 .. b - 1 : at[k] \notin {"HEAD", "MARK"}
\* Mutant: the loop starts at the second block.
SweptButFirst(b) ==
    CASE at[b] = "HEAD" -> IF b = 0 THEN "HEAD" ELSE "FREE"
      [] at[b] = "TAIL" /\ FreeTail(b) -> "FREE"
      [] at[b] = "MARK" -> "HEAD"
      [] OTHER -> at[b]
Swept(b) ==
    CASE at[b] = "HEAD" -> "FREE"
      [] at[b] = "TAIL" /\ FreeTail(b) -> "FREE"
      [] at[b] = "MARK" -> "HEAD"
      [] OTHER -> at[b]

Sweep ==
    /\ pc = "sweep"
    /\ at' = [b \in 0 .. NumBlocks |-> IF b \in Blocks THEN Swept(b) ELSE at[b]]
    /\ mem' = [b \in Blocks |-> IF Swept(b) = "FREE" THEN Leftover ELSE mem[b]]
    /\ last' = 0
    /\ pc' = "retry"
    /\ UNCHANGED <<root, stack, overflow, back, cur, pos, req>>

---------------------------------------------------------------------------
Init ==
    /\ gc_init
    /\ mem = [b \in Blocks |-> Leftover]
    /\ root = [r \in RootSlots |-> None]
    /\ stack = <<>> /\ overflow = FALSE
    /\ pc = "run" /\ back = "run" /\ cur = 0 /\ pos = 0
    /\ req = None

Mutator ==
    \/ \E n \in 1 .. MaxRequest : gc_alloc(n) \/ gc_realloc(n)
    \/ gc_free
    \/ \E r \in RootSlots \ {Value} : Copy(r)
    \/ \E r \in RootSlots : Drop(r)
    \/ \E r, q \in RootSlots : Store(r, q)

Collector ==
    \/ CollectRoot \/ RootsDone
    \/ MarkChild \/ MarkPop
    \/ RescanBlock \/ RescanRound \/ RescanDone
    \/ Sweep
    \/ Retry

Next == Mutator \/ Collector

Spec == Init /\ [][Next]_vars

---------------------------------------------------------------------------
\* Properties

TypeOK ==
    /\ at \in [0 .. NumBlocks -> Kinds]
    /\ mem \in [Blocks -> [WordSlots -> Blocks \cup {None, Stale}]]
    /\ root \in [RootSlots -> Blocks \cup {None}]
    /\ last \in 0 .. NumBlocks \div BlocksPerAtb
    /\ stack \in Seq(Blocks) /\ Len(stack) <= StackSize
    /\ overflow \in BOOLEAN
    /\ pc \in {"run", "roots", "mark", "rescan", "sweep", "retry"}
    /\ back \in {"run", "roots", "rescan"}
    /\ cur \in Blocks /\ pos \in 0 .. NumBlocks
    /\ req \in {None} \cup [op : {"alloc", "move"}, n : 1 .. MaxRequest]

\* The table is a sequence of chains: a tail follows a head or another tail, no mark
\* outlives a collection, and the entry behind the table, which the loops over a chain
\* read, and gc_free would write, when the last block is part of it, stays free.
TableWellFormed ==
    /\ at[NumBlocks] = "FREE"
    /\ \A b \in Blocks : at[b] = "TAIL" => b > 0 /\ at[b - 1] # "FREE"
    /\ pc \in {"run", "retry"} => \A b \in Blocks : at[b] # "MARK"

\* Whatever the interpreter can still get at is an allocated object: no collection,
\* whichever children its mark stack had no room for, and no resize or free takes away
\* a block in use (gc_mark_subtree, gc_deal_with_stack_overflow, gc_sweep, gc_realloc).
ReachableIsAllocated ==
    pc \in {"run", "retry"} =>
        /\ \A r \in RootSlots : root[r] \in Blocks => at[root[r]] = "HEAD"
        /\ \A b \in Reachable : \A w \in ChainWords(b) :
              Word(b, w) \in Blocks => at[Word(b, w)] = "HEAD"

\* When gc_sweep starts, every reachable object is marked.
ReachableIsMarked ==
    pc = "sweep" => \A b \in Reachable : at[b] = "MARK"

\* A collection leaves no garbage: what is allocated after gc_sweep is reachable.
GarbageIsFreed ==
    pc = "retry" => \A b \in Blocks : at[b] = "HEAD" => b \in Reachable

\* gc_last_free_atb_index never makes a search skip a free block (gc_alloc's comment
\* "guarantees that there are no free blocks before this one").
HintSkipsNothing ==
    \A b \in Blocks : b < last * BlocksPerAtb => at[b] # "FREE"

\* An allocated block holds nothing of its former owner, also where gc_realloc grew it:
\* a leftover pointer would keep garbage alive.
NothingStale ==
    \A b \in Blocks : at[b] # "FREE" => \A w \in WordSlots : mem[b][w] # Stale

\* An object keeps its blocks, all of them, until it is freed or resized itself: sweeping
\* takes no tail of a marked chain, and no search, growth or move runs into a neighbour.
ObjectsKeepTheirBlocks ==
    [][\A b \in Blocks :
        \/ at[b] = "MARK"
        \/ at[b] = "HEAD" /\ pc # "sweep" /\ b # root[Value]
        => at'[b] \in {"HEAD", "MARK"} /\ ChainLen(b)' = ChainLen(b)]_vars

\* Every step of a collection brings it closer to its end, however often the mark stack
\* overflows: it marks a block; or clears the overflow flag; or leaves a phase; or goes
\* on in the table; or takes a block off the stack.
Unmarked == {b \in Blocks : at[b] = "HEAD"}
Phase == CASE pc = "retry" -> 0 [] pc = "sweep" -> 1
           [] pc = "rescan" \/ (pc = "mark" /\ back = "rescan") -> 2 [] OTHER -> 3
Pending == Len(stack) + (IF pc = "mark" THEN 1 ELSE 0)
Closer ==
    \/ Unmarked' # Unmarked /\ Unmarked' \subseteq Unmarked
    \/ /\ Unmarked' = Unmarked
       /\ \/ overflow /\ ~overflow'
          \/ /\ overflow' = overflow
             /\ \/ Phase' < Phase
                \/ Phase' = Phase /\ pos' > pos
                \/ Phase' = Phase /\ pos' = pos /\ Pending' < Pending
CollectionProgresses == [][pc \notin {"run", "sweep", "retry"} => Closer]_vars
===========================================================================
