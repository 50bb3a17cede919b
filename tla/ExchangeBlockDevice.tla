------------------------ MODULE ExchangeBlockDevice ------------------------
(***************************************************************************)
(* Example 6: a block device whose bytes live on other tiles.  Tile 0 runs *)
(* the python interpreter and holds one block, dataBlock; byte i of every  *)
(* block is kept by tile i + 1.  The control program alternates            *)
(*                                                                         *)
(*   RepeatWhileFalse doneFlag:                                            *)
(*     ReadWriteVertex on every storage tile; BodyVertex on tile 0         *)
(*                                                                         *)
(* and the python methods readblocks and writeblocks suspend themselves    *)
(* with longyield each time they want a block moved.  The caller is the    *)
(* file system, reduced to the calls it makes.  (The device of example 7   *)
(* is the same, its exchange a system call.)                               *)
(***************************************************************************)
EXTENDS Integers, Sequences

CONSTANTS
    BlockSize, NumBlocks,
    MaxByte,       \* bound: the values of a byte
    ShortHeads     \* may a write end inside the block it starts inside?

ASSUME ExchangeAssumption ==
    /\ BlockSize \in Nat \ {0}
    /\ NumBlocks \in Nat \ {0}
    /\ MaxByte \in Nat
    /\ ShortHeads \in BOOLEAN

Positions == 0 .. BlockSize - 1
Blocks == 0 .. NumBlocks - 1
Values == 0 .. MaxByte
Size == BlockSize * NumBlocks
READ == 1
WRITE == -1

-----------------------------------------------------------------------------
(***************************************************************************)
(* Python arrays (mp_obj_array_t): memory, and how much of it is in use.   *)
(***************************************************************************)
ArrayOf(s) == [items |-> s, len |-> Len(s)]

\* mp_obj_slice_indices, for a step of 1 and indices that are not negative.
Clip(i, len) == IF i < len THEN i ELSE len
Stop(from, to, len) == IF from > to THEN Clip(from, len) ELSE Clip(to, len)

\* a[from:to]
Slice(a, from, to) ==
    SubSeq(a.items, Clip(from, a.len) + 1, Stop(from, to, a.len))

(***************************************************************************)
(* a[from:to] = src (array_subscr).  A slice of another length changes the *)
(* length of the array: what follows the slice moves, and elements freed   *)
(* at the end are cleared.                                                 *)
(***************************************************************************)
SliceAssign(a, from, to, src) ==
    LET used == SubSeq(a.items, 1, Clip(from, a.len)) \o src
                    \o SubSeq(a.items, Stop(from, to, a.len) + 1, a.len)
        freed == [i \in 1 .. (a.len - Len(used)) |-> 0]
        rest == SubSeq(a.items, Len(used \o freed) + 1, Len(a.items))
    IN  [items |-> used \o freed \o rest, len |-> Len(used)]

-----------------------------------------------------------------------------
VARIABLES
    pc,          \* the control program: which compute set is being executed
    ran,         \* storage tiles whose vertex of this compute set has run
    disk,        \* disk[i][b] is byte i of block b, on tile i + 1
    dataBlock, rwFlag, diskPos, doneFlag,
    call,        \* the locals of the method being executed, and where it is
    request,     \* what the file system called
    reply        \* the caller's buffer, as the last call left it

control == <<pc, ran, doneFlag>>
vars == <<control, disk, dataBlock, rwFlag, diskPos, call, request, reply>>

NoCall == [at |-> "none", block |-> 0, offset |-> 0, head |-> 0,
           buf |-> ArrayOf(<<>>)]
Idle == [op |-> "none", addr |-> 0, len |-> 0, data |-> <<>>]

\* What the caller's buffer holds before a read fills it: not a byte of ours.
Unread == -1

TypeOK ==
    /\ pc \in {"init", "while", "rw", "body", "end"}
    /\ ran \subseteq Positions
    /\ disk \in [Positions -> [Blocks -> Values]]
    /\ dataBlock.items \in [1 .. BlockSize -> Values]
    /\ dataBlock.len \in 0 .. BlockSize
    /\ rwFlag \in {READ, 0, WRITE}
    /\ diskPos \in Blocks
    /\ doneFlag \in BOOLEAN
    /\ call.at \in {"none", "readHead", "readLoop", "readTail", "writeHead",
                    "writeHeadDone", "writeLoop", "writeTail", "writeTailDone"}
    /\ call.head \in 0 .. Size

\* The tensors are not initialised.  The block and the position may be taken
\* to be anything, because they are written before they are used.
Init ==
    /\ pc = "init" /\ ran = {}
    /\ disk \in [Positions -> [Blocks -> Values]]
    /\ dataBlock = ArrayOf([i \in 1 .. BlockSize |-> 0])
    /\ rwFlag \in {READ, 0, WRITE} /\ diskPos = 0
    /\ doneFlag \in BOOLEAN
    /\ call = NoCall /\ request = Idle /\ reply = <<>>

\* InitVertex, which assigns doneFlag to itself.
InitVertex ==
    /\ pc = "init" /\ pc' = "while"
    /\ rwFlag' = 0
    /\ UNCHANGED <<ran, doneFlag, disk, dataBlock, diskPos, call, request, reply>>

RepeatWhileFalse ==
    /\ pc = "while"
    /\ pc' = IF doneFlag THEN "end" ELSE "rw"
    /\ ran' = {}
    /\ UNCHANGED <<doneFlag, disk, dataBlock, rwFlag, diskPos, call, request, reply>>

\* Storage tile i moves its byte of block diskPos.
ReadWriteVertex(i) ==
    /\ pc = "rw" /\ i \notin ran
    /\ ran' = ran \cup {i}
    /\ dataBlock' = IF rwFlag = READ
                    THEN [dataBlock EXCEPT !.items[i + 1] = disk[i][diskPos]]
                    ELSE dataBlock
    /\ disk' = IF rwFlag = WRITE
               THEN [disk EXCEPT ![i][diskPos] = dataBlock.items[i + 1]]
               ELSE disk
    /\ UNCHANGED <<pc, doneFlag, rwFlag, diskPos, call, request, reply>>

\* BodyVertex starts the interpreter or resumes it.
BodyVertex ==
    /\ pc = "rw" /\ ran = Positions
    /\ pc' = "body"
    /\ UNCHANGED <<ran, doneFlag, disk, dataBlock, rwFlag, diskPos, call, request,
                   reply>>

-----------------------------------------------------------------------------
(***************************************************************************)
(* The python methods, in stretches from one longyield to the next.        *)
(***************************************************************************)
Python == pc = "body" /\ UNCHANGED <<ran, doneFlag, disk>>

\* __exchangeblock: BodyVertex returns; the method goes on at c.at.
ExchangeBlock(c, action, at) ==
    /\ diskPos' = c.block /\ rwFlag' = action
    /\ call' = [c EXCEPT !.at = at]
    /\ pc' = "while"
    /\ UNCHANGED <<request, reply>>

\* The method returns to the file system, which has the memory of its buffer.
Return(c) ==
    /\ reply' = c.buf.items
    /\ request' = Idle
    /\ call' = NoCall
    /\ UNCHANGED <<pc, rwFlag, diskPos>>

\* The loop of readblocks over whole blocks, and what is left after it.
ContinueRead(c) ==
    IF c.head + BlockSize <= c.buf.len THEN ExchangeBlock(c, READ, "readLoop")
    ELSE IF c.buf.len > c.head THEN ExchangeBlock(c, READ, "readTail")
    ELSE Return(c)

\* Mutant of ContinueWrite: the last block is not read before it is merged.
ContinueWriteNoRead(c) ==
    IF c.head + BlockSize <= c.buf.len
    THEN /\ dataBlock' = SliceAssign(dataBlock, 0, BlockSize,
                             Slice(c.buf, c.head, c.head + BlockSize))
         /\ ExchangeBlock(c, WRITE, "writeLoop")
    ELSE IF c.buf.len > c.head
    THEN /\ dataBlock' = SliceAssign(dataBlock, 0, c.buf.len - c.head,
                             Slice(c.buf, c.head, c.buf.len))
         /\ ExchangeBlock(c, WRITE, "writeTailDone")
    ELSE UNCHANGED dataBlock /\ Return(c)

\* The loop of writeblocks, and what is left after it.
ContinueWrite(c) ==
    IF c.head + BlockSize <= c.buf.len
    THEN /\ dataBlock' = SliceAssign(dataBlock, 0, BlockSize,
                             Slice(c.buf, c.head, c.head + BlockSize))
         /\ ExchangeBlock(c, WRITE, "writeLoop")
    ELSE /\ UNCHANGED dataBlock
         /\ IF c.buf.len > c.head THEN ExchangeBlock(c, READ, "writeTail")
                                  ELSE Return(c)

Entry(addr, data) == [at |-> "none", block |-> addr \div BlockSize,
                      offset |-> addr % BlockSize, head |-> 0,
                      buf |-> ArrayOf(data)]

\* readblocks: a first block that is not read from its start.
ReadBlocks ==
    LET c == Entry(request.addr, [i \in 1 .. request.len |-> Unread]) IN
    /\ Python /\ request.op = "read" /\ call = NoCall
    /\ IF c.offset > 0 THEN ExchangeBlock(c, READ, "readHead") ELSE ContinueRead(c)
    /\ UNCHANGED dataBlock

ReadHead ==
    LET n == IF BlockSize - call.offset < call.buf.len THEN BlockSize - call.offset
                                                       ELSE call.buf.len
    IN
    /\ Python /\ call.at = "readHead"
    /\ ContinueRead([call EXCEPT
           !.buf = SliceAssign(@, 0, n, Slice(dataBlock, call.offset, call.offset + n)),
           !.head = n, !.block = @ + 1])
    /\ UNCHANGED dataBlock

ReadLoop ==
    /\ Python /\ call.at = "readLoop"
    /\ ContinueRead([call EXCEPT
           !.buf = SliceAssign(@, call.head, call.head + BlockSize,
                               Slice(dataBlock, 0, BlockSize)),
           !.head = @ + BlockSize, !.block = @ + 1])
    /\ UNCHANGED dataBlock

ReadTail ==
    /\ Python /\ call.at = "readTail"
    /\ Return([call EXCEPT
           !.buf = SliceAssign(@, call.head, call.buf.len,
                               Slice(dataBlock, 0, call.buf.len - call.head))])
    /\ UNCHANGED dataBlock

\* writeblocks.  Erasing a block is a no-op, so that a call without offset
\* is one with offset 0.
WriteBlocks ==
    LET c == Entry(request.addr, request.data) IN
    /\ Python /\ request.op = "write" /\ call = NoCall
    /\ IF c.offset > 0
       THEN ExchangeBlock(c, READ, "writeHead") /\ UNCHANGED dataBlock
       ELSE ContinueWrite(c)

\* Mutant of WriteHead: the slice of the buffer is not bounded.
WriteHeadAll ==
    LET head == BlockSize - call.offset IN
    /\ Python /\ call.at = "writeHead"
    /\ dataBlock' = SliceAssign(dataBlock, call.offset, dataBlock.len,
                                Slice(call.buf, 0, call.buf.len))
    /\ ExchangeBlock([call EXCEPT !.head = head], WRITE, "writeHeadDone")

WriteHead ==
    LET head == BlockSize - call.offset IN
    /\ Python /\ call.at = "writeHead"
    /\ dataBlock' = SliceAssign(dataBlock, call.offset, dataBlock.len,
                                Slice(call.buf, 0, head))
    /\ ExchangeBlock([call EXCEPT !.head = head], WRITE, "writeHeadDone")

WriteHeadDone ==
    /\ Python /\ call.at = "writeHeadDone"
    /\ ContinueWrite([call EXCEPT !.block = @ + 1])

WriteLoop ==
    /\ Python /\ call.at = "writeLoop"
    /\ ContinueWrite([call EXCEPT !.head = @ + BlockSize, !.block = @ + 1])

\* Mutant of WriteTail: the slice of the block is not bounded.
WriteTailWhole ==
    /\ Python /\ call.at = "writeTail"
    /\ dataBlock' = SliceAssign(dataBlock, 0, dataBlock.len,
                                Slice(call.buf, call.head, call.buf.len))
    /\ ExchangeBlock(call, WRITE, "writeTailDone")

WriteTail ==
    /\ Python /\ call.at = "writeTail"
    /\ dataBlock' = SliceAssign(dataBlock, 0, call.buf.len - call.head,
                                Slice(call.buf, call.head, call.buf.len))
    /\ ExchangeBlock(call, WRITE, "writeTailDone")

WriteTailDone ==
    /\ Python /\ call.at = "writeTailDone"
    /\ Return(call)
    /\ UNCHANGED dataBlock

Methods ==
    \/ ReadBlocks \/ ReadHead \/ ReadLoop \/ ReadTail
    \/ WriteBlocks \/ WriteHead \/ WriteHeadDone \/ WriteLoop
    \/ WriteTail \/ WriteTailDone

-----------------------------------------------------------------------------
(***************************************************************************)
(* The python program: the file system calls the device, and in the end    *)
(* the program is over and BodyVertex sets doneFlag.                       *)
(***************************************************************************)
Contents(len) == {[i \in 1 .. len |-> (v + i) % (MaxByte + 1)] : v \in Values}

ReachesBlockEnd(addr, len) ==
    LET offset == addr % BlockSize IN offset > 0 => offset + len >= BlockSize

Calls(op, addr, len, data) ==
    /\ Python /\ request = Idle
    /\ addr + len <= Size
    /\ request' = [op |-> op, addr |-> addr, len |-> len, data |-> data]
    /\ reply' = <<>>
    /\ UNCHANGED <<pc, dataBlock, rwFlag, diskPos, call>>

FileSystem ==
    \E addr \in 0 .. Size - 1, len \in 1 .. Size :
        \/ Calls("read", addr, len, <<>>)
        \/ /\ ShortHeads \/ ReachesBlockEnd(addr, len)
           /\ \E data \in Contents(len) : Calls("write", addr, len, data)

ProgramEnds ==
    /\ pc = "body" /\ request = Idle
    /\ doneFlag' = TRUE /\ pc' = "while"
    /\ UNCHANGED <<ran, disk, dataBlock, rwFlag, diskPos, call, request, reply>>

Terminated == pc = "end" /\ UNCHANGED vars

\* Everything but the choices of the python program.
Device ==
    \/ InitVertex \/ RepeatWhileFalse \/ BodyVertex \/ Methods
    \/ \E i \in Positions : ReadWriteVertex(i)

Next == Device \/ FileSystem \/ ProgramEnds \/ Terminated

Spec == Init /\ [][Next]_vars /\ WF_vars(Device)

-----------------------------------------------------------------------------
\* What the storage tiles hold, as one array of bytes.
Bytes == [a \in 0 .. Size - 1 |-> disk[a % BlockSize][a \div BlockSize]]

\* "Only the bytes being written should be changed": a storage tile changes
\* a byte of the device only while a write covering it is being served.
OnlyWrittenBytesChange ==
    [][\A a \in 0 .. Size - 1 : Bytes'[a] # Bytes[a] =>
          request.op = "write" /\ a \in request.addr .. request.addr + request.len - 1]_vars

\* dataBlock, through which every byte passes, is whole whenever a method is
\* entered: no call before has shortened it.
BlockIsWhole == call = NoCall => dataBlock.len = BlockSize

Contract == INSTANCE BlockDevice WITH bytes <- Bytes

\* Reads answer what was written and writes change what they cover, in spite
\* of blocks that move in several exchanges and of blocks rewritten whole.
ImplementsBlockDevice == Contract!Spec
=============================================================================
