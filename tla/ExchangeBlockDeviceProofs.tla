--------------------- MODULE ExchangeBlockDeviceProofs ---------------------
(***************************************************************************)
(* Theorems about ExchangeBlockDevice, for every size and number of blocks *)
(* and every sequence of calls, under the assumption that a write which    *)
(* starts inside a block reaches its end (~ShortHeads): the device is a    *)
(* BlockDevice, step by step.                                              *)
(***************************************************************************)
EXTENDS ExchangeBlockDevice, SequenceTheorems, TLAPS

---------------------------------------------------------------------------
(***************************************************************************)
(* The inductive invariant.  A method is suspended at one of these places, *)
(* waiting for a block it reads, for one it will change, or for one it has *)
(* changed to be stored.                                                   *)
(***************************************************************************)
Reading == {"readHead", "readLoop", "readTail"}
Fetching == {"writeHead", "writeTail"}
Storing == {"writeHeadDone", "writeLoop", "writeTailDone"}
Heads == {"readHead", "writeHead", "writeHeadDone"}
Loops == {"readLoop", "writeLoop"}
Tails == {"readTail", "writeTail", "writeTailDone"}
Places == {"none", "readHead", "readLoop", "readTail", "writeHead",
           "writeHeadDone", "writeLoop", "writeTail", "writeTailDone"}

BufferBytes == Values \cup {Unread}
Arrays == [items: Seq(BufferBytes), len: Nat]
CallType == [at: Places, block: Nat, offset: Nat, head: Nat, buf: Arrays]

\* Types; in particular the block is whole, also in the middle of a method.
DeviceTypes ==
    /\ pc \in {"init", "while", "rw", "body", "end"}
    /\ ran \subseteq Positions
    /\ disk \in [Positions -> [Blocks -> Values]]
    /\ dataBlock \in [items: [1 .. BlockSize -> Values], len: {BlockSize}]
    /\ rwFlag \in {1, 0, -1}
    /\ diskPos \in Blocks
    /\ doneFlag \in BOOLEAN
    /\ call \in CallType

ValidRequest(r) ==
    /\ r \in [op: {"read", "write"}, addr: 0 .. Size - 1, len: 1 .. Size,
              data: Seq(Values)]
    /\ r.addr + r.len <= Size
    /\ r.op = "write" => Len(r.data) = r.len /\ ReachesBlockEnd(r.addr, r.len)

Requested == request = Idle \/ ValidRequest(request)

\* Who waits for what.
Sequencing ==
    /\ pc = "body" => ran = Positions
    /\ pc \in {"rw", "body"} => doneFlag = FALSE
    /\ call.at = "none" => call = NoCall
    /\ call.at = "none" /\ pc # "body" => request = Idle
    /\ call.at = "none" /\ pc \in {"while", "rw"} /\ doneFlag = FALSE => rwFlag = 0
    /\ call.at # "none" => /\ pc \in {"while", "rw", "body"} /\ doneFlag = FALSE
                           /\ diskPos = call.block
    /\ call.at \in Reading => request.op = "read" /\ rwFlag = 1
    /\ call.at \in Fetching => request.op = "write" /\ rwFlag = 1
    /\ call.at \in Storing => request.op = "write" /\ rwFlag = -1

\* Where in the request a method with locals c is: the first byte of the block
\* it waits for.
Base(c) == c.block * BlockSize

PositionOf(c) ==
    /\ c.at \in Heads => /\ c.offset \in 1 .. BlockSize - 1
                         /\ Base(c) + c.offset = request.addr
    /\ c.at \in {"readHead", "writeHead"} => c.head = 0
    /\ c.at = "writeHead" => c.offset + request.len >= BlockSize
    /\ c.at = "writeHeadDone" => c.head = BlockSize - c.offset /\ c.head <= request.len
    /\ c.at \in Loops => /\ Base(c) = request.addr + c.head
                         /\ c.head + BlockSize <= request.len
    /\ c.at \in Tails => /\ Base(c) = request.addr + c.head
                         /\ c.head < request.len
                         /\ request.len < c.head + BlockSize

\* How many bytes of a write are on the device for good.
Settled(c) == IF c.at = "writeHeadDone" THEN 0 ELSE c.head

\* What has been read, or written, so far.
ProgressOf(c) ==
    /\ c.at # "none" => c.buf.len = request.len /\ Len(c.buf.items) = request.len
    /\ c.at \in Reading =>
          \A k \in 1 .. c.head : c.buf.items[k] = Bytes[request.addr + k - 1]
    /\ c.at \in Fetching \cup Storing =>
          /\ c.buf.items = request.data
          /\ \A k \in 1 .. Settled(c) : Bytes[request.addr + k - 1] = request.data[k]

\* The storage tiles that have moved their byte for the exchange being waited for.
Moved == IF pc \in {"rw", "body"} THEN ran ELSE {}

\* The block a write wants on the device: its bytes, and around them what is
\* there already.
Merged(c, items) ==
    \A i \in Positions :
        items[i + 1] = IF Base(c) + i \in request.addr .. request.addr + request.len - 1
                       THEN request.data[(Base(c) + i) - request.addr + 1]
                       ELSE Bytes[Base(c) + i]

\* What the block holds during the exchange.
Exchange ==
    /\ call.at # "none" =>
          \A i \in Moved : dataBlock.items[i + 1] = Bytes[Base(call) + i]
    /\ call.at \in Storing => Merged(call, dataBlock.items)

DeviceInv ==
    /\ DeviceTypes /\ Requested /\ Sequencing
    /\ PositionOf(call) /\ ProgressOf(call) /\ Exchange

---------------------------------------------------------------------------
(***************************************************************************)
(* Slices of python arrays.                                                *)
(***************************************************************************)
\* An array whose memory is all in use.
Full(S, a) == a \in [items: Seq(S), len: Nat] /\ a.len = Len(a.items)

\* a[from:to] inside the array: the elements from + 1 to to.
LEMMA SliceInside ==
    ASSUME NEW S, NEW a, Full(S, a),
           NEW from \in Nat, NEW to \in Nat, from <= to, to <= a.len
    PROVE  /\ Slice(a, from, to) \in Seq(S)
           /\ Len(Slice(a, from, to)) = to - from
           /\ \A k \in 1 .. to - from : Slice(a, from, to)[k] = a.items[from + k]
  <1> DEFINE s == a.items
             n == a.len
  <1>1. s \in Seq(S) /\ n \in Nat /\ Len(s) = n
    BY DEF Full
  <1>2. Clip(from, n) = from /\ Stop(from, to, n) = to
    BY <1>1 DEF Clip, Stop
  <1>3. Slice(a, from, to) = SubSeq(s, from + 1, to)
    BY <1>2 DEF Slice
  <1> HIDE DEF s, n
  <1>4. \A i \in from + 1 .. to : s[i] \in S
    <2> SUFFICES ASSUME NEW i \in from + 1 .. to PROVE s[i] \in S
      OBVIOUS
    <2>1. i \in 1 .. Len(s)
      BY <1>1 DEF n
    <2> QED
      BY <1>1, <2>1, ElementOfSeq
  <1>5. /\ SubSeq(s, from + 1, to) \in Seq(S)
        /\ Len(SubSeq(s, from + 1, to)) = IF from + 1 <= to THEN to - (from + 1) + 1 ELSE 0
        /\ \A i \in 1 .. to - (from + 1) + 1 : SubSeq(s, from + 1, to)[i] = s[from + 1 + i - 1]
    BY <1>4, SubSeqProperties
  <1>6. \A k \in 1 .. to - from : from + 1 + k - 1 = from + k
    OBVIOUS
  <1>7. \A k \in 1 .. to - from : SubSeq(s, from + 1, to)[k] = s[from + k]
    <2> SUFFICES ASSUME NEW k \in 1 .. to - from
                 PROVE  SubSeq(s, from + 1, to)[k] = s[from + k]
      OBVIOUS
    <2>1. k \in 1 .. to - (from + 1) + 1
      OBVIOUS
    <2>2. SubSeq(s, from + 1, to)[k] = s[from + 1 + k - 1]
      BY <1>5, <2>1, Zenon
    <2> QED
      BY <2>2, <1>6
  <1>8. Len(SubSeq(s, from + 1, to)) = to - from
    BY <1>5
  <1> QED
    BY <1>3, <1>5, <1>7, <1>8 DEF s

\* a[from:to] = src with as many elements as the slice has: they replace the
\* slice, and the array keeps its length.
LEMMA SliceAssignSame ==
    ASSUME NEW S, NEW a, Full(S, a),
           NEW from \in Nat, NEW to \in Nat, from <= to, to <= a.len,
           NEW src \in Seq(S), Len(src) = to - from
    PROVE  LET b == SliceAssign(a, from, to, src) IN
           /\ Full(S, b) /\ b.len = a.len
           /\ \A k \in 1 .. a.len : b.items[k] =
                 IF k > from /\ k <= to THEN src[k - from] ELSE a.items[k]
  <1> DEFINE s == a.items
             n == a.len
             front == SubSeq(s, 1, from)
             back == SubSeq(s, to + 1, n)
             part == front \o src
             used == part \o back
             freed == [i \in 1 .. (n - Len(used)) |-> 0]
             rest == SubSeq(s, Len(used \o freed) + 1, Len(s))
  <1>1. s \in Seq(S) /\ n \in Nat /\ Len(s) = n /\ from <= n
    BY DEF Full
  <1>2. Clip(from, n) = from /\ Stop(from, to, n) = to
    BY <1>1 DEF Clip, Stop
  <1>3. SliceAssign(a, from, to, src) = [items |-> used \o freed \o rest, len |-> Len(used)]
    BY <1>2 DEF SliceAssign
  <1>4. \A i \in 1 .. n : s[i] \in S
    <2> HIDE DEF s, n
    <2> QED
      BY <1>1, ElementOfSeq
  <1>5. front \in Seq(S) /\ Len(front) = from /\ \A k \in 1 .. from : front[k] = s[k]
    <2> HIDE DEF s, n
    <2>1. \A i \in 1 .. from : s[i] \in S
      BY <1>1, <1>4
    <2>2. /\ SubSeq(s, 1, from) \in Seq(S)
          /\ Len(SubSeq(s, 1, from)) = IF 1 <= from THEN from - 1 + 1 ELSE 0
          /\ \A i \in 1 .. from - 1 + 1 : SubSeq(s, 1, from)[i] = s[1 + i - 1]
      BY <2>1, SubSeqProperties
    <2>3. \A k \in 1 .. from : k \in 1 .. from - 1 + 1 /\ 1 + k - 1 = k
      OBVIOUS
    <2> QED
      BY <2>2, <2>3
  <1>6. back \in Seq(S) /\ Len(back) = n - to /\ \A k \in 1 .. n - to : back[k] = s[to + k]
    <2> HIDE DEF s, n
    <2>1. \A i \in to + 1 .. n : s[i] \in S
      BY <1>1, <1>4
    <2>2. /\ SubSeq(s, to + 1, n) \in Seq(S)
          /\ Len(SubSeq(s, to + 1, n)) = IF to + 1 <= n THEN n - (to + 1) + 1 ELSE 0
          /\ \A i \in 1 .. n - (to + 1) + 1 : SubSeq(s, to + 1, n)[i] = s[to + 1 + i - 1]
      BY <1>1, <2>1, SubSeqProperties
    <2>3. \A k \in 1 .. n - to : k \in 1 .. n - (to + 1) + 1 /\ to + 1 + k - 1 = to + k
      BY <1>1
    <2>4. to <= n
      BY DEF n
    <2> QED
      BY <1>1, <2>2, <2>3, <2>4
  <1> HIDE DEF front, back
  <1>7. /\ part \in Seq(S) /\ Len(part) = to
        /\ \A k \in 1 .. to : part[k] = IF k <= from THEN front[k] ELSE src[k - from]
    <2>1. /\ part \in Seq(S) /\ Len(part) = Len(front) + Len(src)
          /\ \A i \in 1 .. Len(front) + Len(src) : part[i] =
                IF i <= Len(front) THEN front[i] ELSE src[i - Len(front)]
      BY <1>5, ConcatProperties
    <2>2. Len(front) + Len(src) = to
      BY <1>5
    <2> QED
      BY <1>5, <2>1, <2>2, Zenon
  <1> HIDE DEF part
  <1>8. /\ used \in Seq(S) /\ Len(used) = n
        /\ \A k \in 1 .. n : used[k] = IF k <= to THEN part[k] ELSE back[k - to]
    <2>1. /\ used \in Seq(S) /\ Len(used) = Len(part) + Len(back)
          /\ \A i \in 1 .. Len(part) + Len(back) : used[i] =
                IF i <= Len(part) THEN part[i] ELSE back[i - Len(part)]
      BY <1>6, <1>7, ConcatProperties
    <2>2. Len(part) + Len(back) = n
      BY <1>1, <1>6, <1>7
    <2> QED
      BY <1>7, <2>1, <2>2, Zenon
  <1> HIDE DEF used
  <1>9. freed = <<>>
    <2>1. Len(used) = n /\ n \in Nat
      BY <1>1, <1>8
    <2>2. 1 .. (n - Len(used)) = {}
      BY <2>1
    <2>3. 1 .. 0 = {}
      OBVIOUS
    <2>4. freed = [i \in {} |-> 0]
      BY <2>2
    <2> QED
      BY <2>4
  <1> HIDE DEF freed
  <1>10. used \o freed = used
    BY <1>8, <1>9, ConcatEmptySeq
  <1>11. rest = <<>>
    <2>1. rest = SubSeq(s, n + 1, n)
      BY <1>1, <1>8, <1>10
    <2> HIDE DEF s, n, rest
    <2> QED
      BY <1>1, <2>1, SubSeqEmpty
  <1> HIDE DEF rest
  <1>12. used \o freed \o rest = used
    BY <1>8, <1>10, <1>11, ConcatEmptySeq
  <1> DEFINE b == SliceAssign(a, from, to, src)
  <1>13. b = [items |-> used, len |-> n]
    BY <1>3, <1>8, <1>12
  <1>14. Full(S, b) /\ b.len = n /\ b.items = used
    BY <1>1, <1>8, <1>13 DEF Full
  <1>15. ASSUME NEW k \in 1 .. n
         PROVE  used[k] = IF k > from /\ k <= to THEN src[k - from] ELSE s[k]
    <2> HIDE DEF s, n
    <2>1. n \in Nat /\ k \in Nat /\ from <= to /\ to <= n /\ k >= 1 /\ k <= n
      BY <1>1, <1>15 DEF n
    <2>2. CASE k <= from
      <3>1. k \in 1 .. to /\ k \in 1 .. from /\ k <= to /\ ~(k > from)
        BY <2>1, <2>2
      <3> QED
        BY <1>5, <1>7, <1>8, <1>15, <2>2, <3>1
    <2>3. CASE k > from /\ k <= to
      <3>1. k \in 1 .. to /\ ~(k <= from)
        BY <2>1, <2>3
      <3> QED
        BY <1>7, <1>8, <1>15, <2>3, <3>1
    <2>4. CASE k > to
      <3>1. k - to \in 1 .. n - to /\ ~(k <= to) /\ to + (k - to) = k
        BY <2>1, <2>4
      <3> QED
        BY <1>6, <1>8, <1>15, <2>4, <3>1
    <2> QED
      BY <2>1, <2>2, <2>3, <2>4
  <1> QED
    <2> HIDE DEF b
    <2>1. Full(S, b) /\ b.len = a.len
      BY <1>14
    <2>2. \A k \in 1 .. a.len : b.items[k] =
             IF k > from /\ k <= to THEN src[k - from] ELSE a.items[k]
      BY <1>14, <1>15 DEF s, n
    <2> QED
      BY <2>1, <2>2 DEF b
---------------------------------------------------------------------------
(***************************************************************************)
(* Addresses: byte i of block b is the byte b * BlockSize + i.             *)
(***************************************************************************)
LEMMA DivBounds ==
    ASSUME NEW a \in Nat, NEW d \in Nat \ {0}
    PROVE  /\ a \div d \in Nat
           /\ (a \div d) * d + (a % d) = a
           /\ (a \div d) * d <= a
           /\ a < (a \div d) * d + d
           /\ a % d \in 0 .. d - 1
  OBVIOUS

LEMMA FactorLess ==
    ASSUME NEW q \in Nat, NEW n \in Nat, NEW d \in Nat \ {0}, q * d < n * d
    PROVE  q < n
  OBVIOUS

LEMMA DivOfSum ==
    ASSUME NEW q \in Nat, NEW d \in Nat \ {0}, NEW s \in 0 .. d - 1
    PROVE  (q * d + s) \div d = q /\ (q * d + s) % d = s
  <1> DEFINE a == q * d + s
             p == a \div d
  <1>1. a \in Nat
    OBVIOUS
  <1>2. p \in Nat /\ p * d <= a /\ a < p * d + d
    <2> HIDE DEF a
    <2> QED
      BY <1>1, DivBounds
  <1>3. q * d < (p + 1) * d /\ p * d < (q + 1) * d
    <2> HIDE DEF p
    <2> QED
      BY <1>2
  <1>4. q < p + 1 /\ p < q + 1
    <2> HIDE DEF p, a
    <2> QED
      BY <1>2, <1>3, FactorLess
  <1>5. p = q
    <2> HIDE DEF p, a
    <2> QED
      BY <1>2, <1>4
  <1>6. (q * d + s) % d = s
    OBVIOUS
  <1> QED
    BY <1>5, <1>6

LEMMA BlockInside ==
    ASSUME NEW b \in Nat, b * BlockSize < Size
    PROVE  b \in Blocks
  <1>1. BlockSize \in Nat \ {0} /\ NumBlocks \in Nat
    BY ExchangeAssumption
  <1>2. b * BlockSize < NumBlocks * BlockSize
    BY <1>1 DEF Size
  <1>3. b < NumBlocks
    BY <1>1, <1>2, FactorLess
  <1> QED
    BY <1>1, <1>3 DEF Blocks

LEMMA AddressInside ==
    ASSUME NEW b \in Blocks, NEW i \in Positions
    PROVE  /\ Size \in Nat /\ b * BlockSize \in Nat
           /\ b * BlockSize + BlockSize <= Size
           /\ b * BlockSize + i \in 0 .. Size - 1
  <1>1. BlockSize \in Nat \ {0} /\ NumBlocks \in Nat /\ b \in Nat /\ b + 1 <= NumBlocks
    BY ExchangeAssumption DEF Blocks
  <1>2. PICK m \in Nat : NumBlocks = b + 1 + m
    <2>1. NumBlocks - (b + 1) \in Nat
      BY <1>1
    <2> QED
      BY <1>1, <2>1
  <1>3. Size = b * BlockSize + BlockSize + m * BlockSize
    BY <1>1, <1>2 DEF Size
  <1>4. m * BlockSize \in Nat /\ b * BlockSize \in Nat
    BY <1>1
  <1>5. i \in Nat /\ i < BlockSize
    BY <1>1 DEF Positions
  <1> DEFINE x == b * BlockSize
             y == m * BlockSize
  <1> HIDE DEF x, y
  <1>6. x \in Nat /\ y \in Nat /\ Size = x + BlockSize + y
    BY <1>3, <1>4 DEF x, y
  <1>7. Size \in Nat /\ x + BlockSize <= Size /\ x + i \in 0 .. Size - 1
    BY <1>1, <1>5, <1>6
  <1> QED
    BY <1>4, <1>7 DEF x

\* Where an address lies.
LEMMA AddressParts ==
    ASSUME NEW a \in 0 .. Size - 1
    PROVE  /\ a % BlockSize \in Positions /\ a \div BlockSize \in Blocks
           /\ a = (a \div BlockSize) * BlockSize + (a % BlockSize)
  <1>1. BlockSize \in Nat \ {0} /\ NumBlocks \in Nat
    BY ExchangeAssumption
  <1>2. Size \in Nat
    BY <1>1 DEF Size
  <1>3. a \in Nat /\ a < Size
    BY <1>2
  <1>4. /\ a \div BlockSize \in Nat
        /\ (a \div BlockSize) * BlockSize <= a
        /\ (a \div BlockSize) * BlockSize + (a % BlockSize) = a
        /\ a % BlockSize \in 0 .. BlockSize - 1
    BY <1>1, <1>3, DivBounds
  <1> DEFINE q == a \div BlockSize
             x == q * BlockSize
  <1>5. q * BlockSize < Size
    <2>1. x \in Nat /\ x <= a
      BY <1>1, <1>4
    <2> HIDE DEF x
    <2>2. x < Size
      BY <1>2, <1>3, <2>1
    <2> QED
      BY <2>2 DEF x
  <1>6. q \in Blocks
    BY <1>4, <1>5, BlockInside
  <1> QED
    BY <1>4, <1>6 DEF Positions

\* What the device holds, byte by byte.
LEMMA BytesAt ==
    ASSUME NEW b \in Blocks, NEW i \in Positions
    PROVE  Bytes[b * BlockSize + i] = disk[i][b]
  <1>1. BlockSize \in Nat \ {0} /\ b \in Nat /\ i \in 0 .. BlockSize - 1
    BY ExchangeAssumption DEF Blocks, Positions
  <1>2. (b * BlockSize + i) \div BlockSize = b /\ (b * BlockSize + i) % BlockSize = i
    BY <1>1, DivOfSum
  <1>3. b * BlockSize + i \in 0 .. Size - 1
    BY AddressInside
  <1> DEFINE a == b * BlockSize + i
  <1>4. Bytes[a] = disk[a % BlockSize][a \div BlockSize]
    <2> HIDE DEF a
    <2> QED
      BY <1>3 DEF Bytes, a
  <1> QED
    BY <1>2, <1>4

LEMMA BytesType ==
    ASSUME DeviceTypes
    PROVE  Bytes \in [0 .. Size - 1 -> Values]
  <1> SUFFICES ASSUME NEW a \in 0 .. Size - 1
               PROVE  disk[a % BlockSize][a \div BlockSize] \in Values
    BY DEF Bytes
  <1>1. a % BlockSize \in Positions /\ a \div BlockSize \in Blocks
    BY AddressParts
  <1>2. disk \in [Positions -> [Blocks -> Values]]
    BY DEF DeviceTypes
  <1> QED
    BY <1>1, <1>2, Zenon

\* A storage tile writes its byte of a block: one byte of the device changes.
LEMMA BytesStored ==
    ASSUME DeviceTypes, NEW b \in Blocks, NEW i \in Positions, NEW v,
           disk' = [disk EXCEPT ![i][b] = v]
    PROVE  Bytes' = [Bytes EXCEPT ![b * BlockSize + i] = v]
  <1>1. disk \in [Positions -> [Blocks -> Values]]
    BY DEF DeviceTypes
  <1>2. \A p \in Positions, q \in Blocks :
           disk'[p][q] = IF p = i /\ q = b THEN v ELSE disk[p][q]
    BY <1>1
  <1>3. ASSUME NEW a \in 0 .. Size - 1
        PROVE  disk'[a % BlockSize][a \div BlockSize] =
                  IF a = b * BlockSize + i THEN v
                  ELSE disk[a % BlockSize][a \div BlockSize]
    <2>1. /\ a % BlockSize \in Positions /\ a \div BlockSize \in Blocks
          /\ a = (a \div BlockSize) * BlockSize + (a % BlockSize)
      BY AddressParts
    <2>2. a = b * BlockSize + i => a \div BlockSize = b /\ a % BlockSize = i
      <3>1. BlockSize \in Nat \ {0} /\ b \in Nat /\ i \in 0 .. BlockSize - 1
        BY ExchangeAssumption DEF Blocks, Positions
      <3> QED
        BY <3>1, DivOfSum
    <2>3. a \div BlockSize = b /\ a % BlockSize = i => a = b * BlockSize + i
      BY <2>1
    <2> QED
      BY <1>2, <2>1, <2>2, <2>3, Zenon
  <1>4. \A a \in 0 .. Size - 1 :
           Bytes'[a] = disk'[a % BlockSize][a \div BlockSize]
    BY DEF Bytes
  <1>5. Bytes' = [a \in 0 .. Size - 1 |-> disk'[a % BlockSize][a \div BlockSize]]
    BY DEF Bytes
  <1>6. [Bytes EXCEPT ![b * BlockSize + i] = v] =
           [a \in 0 .. Size - 1 |-> IF a = b * BlockSize + i THEN v
                                    ELSE disk[a % BlockSize][a \div BlockSize]]
    BY Zenon DEF Bytes
  <1> QED
    BY <1>3, <1>5, <1>6
---------------------------------------------------------------------------
(***************************************************************************)
(* Steps of the interpreter, each kept to what it does to the invariant    *)
(* and to the abstract device.                                             *)
(***************************************************************************)
\* The safety part of ImplementsBlockDevice.
ContractSafety ==
    Contract!Init /\ [][Contract!Call \/ Contract!Serve]_(Contract!vars)

ContractStep == [Contract!Call \/ Contract!Serve]_(Contract!vars)

LEMMA ContractStutters ==
    ASSUME Bytes' = Bytes, request' = request, reply' = reply
    PROVE  ContractStep
  BY DEF ContractStep, Contract!vars

\* The locals c of a method that may wait for an exchange at a place, with the
\* block as items.
Waits(c, items, action) ==
    /\ c \in CallType /\ c.at # "none"
    /\ c.block \in Blocks
    /\ c.at \in Reading => request.op = "read" /\ action = 1
    /\ c.at \in Fetching => request.op = "write" /\ action = 1
    /\ c.at \in Storing => request.op = "write" /\ action = -1
    /\ PositionOf(c) /\ ProgressOf(c)
    /\ c.at \in Storing => Merged(c, items)

\* A method asks for an exchange.
LEMMA ExchangeStarts ==
    ASSUME DeviceInv, pc = "body", Python,
           NEW c, NEW action, NEW at, ExchangeBlock(c, action, at),
           dataBlock' \in [items: [1 .. BlockSize -> Values], len: {BlockSize}],
           Waits([c EXCEPT !.at = at], dataBlock'.items, action),
           c \in CallType
    PROVE  DeviceInv' /\ ContractStep
  <1> DEFINE d == [c EXCEPT !.at = at]
  <1>1. /\ pc' = "while" /\ ran' = ran /\ doneFlag' = doneFlag /\ disk' = disk
        /\ diskPos' = c.block /\ rwFlag' = action /\ call' = d
        /\ request' = request /\ reply' = reply
    BY DEF Python, ExchangeBlock
  <1>2. d.block = c.block
    BY DEF CallType
  <1> HIDE DEF d
  <1>3. /\ d \in CallType /\ d.at # "none" /\ d.block \in Blocks
        /\ d.at \in Reading => request.op = "read" /\ action = 1
        /\ d.at \in Fetching => request.op = "write" /\ action = 1
        /\ d.at \in Storing => request.op = "write" /\ action = -1
        /\ PositionOf(d) /\ ProgressOf(d)
        /\ d.at \in Storing => Merged(d, dataBlock'.items)
    BY DEF Waits, d
  <1>4. Bytes' = Bytes
    BY <1>1 DEF Bytes
  <1>5. d.at \in Reading \cup Fetching \cup Storing
    BY <1>3 DEF CallType, Places, Reading, Fetching, Storing
  <1>6. doneFlag = FALSE
    BY DEF DeviceInv, Sequencing
  <1>7. DeviceTypes'
    <2>1. action \in {1, 0, -1}
      BY <1>3, <1>5
    <2> QED
      BY <1>1, <1>2, <1>3, <2>1 DEF DeviceInv, DeviceTypes
  <1>8. Requested'
    BY <1>1 DEF DeviceInv, Requested, ValidRequest
  <1>9. Sequencing'
    BY <1>1, <1>2, <1>3, <1>6 DEF Sequencing
  <1>10. PositionOf(call)'
    BY <1>1, <1>3 DEF PositionOf, Base
  <1>11. ProgressOf(call)'
    BY <1>1, <1>3, <1>4 DEF ProgressOf, Settled
  <1>12. Exchange'
    <2>1. Moved' = {}
      BY <1>1 DEF Moved
    <2>2. d.at \in Storing => Merged(call, dataBlock.items)'
      BY <1>1, <1>3, <1>4 DEF Merged, Base
    <2> QED
      BY <1>1, <2>1, <2>2 DEF Exchange
  <1> QED
    BY <1>1, <1>4, <1>7, <1>8, <1>9, <1>10, <1>11, <1>12, ContractStutters DEF DeviceInv

\* What the caller's buffer holds when a method returns.
Answers(c) ==
    /\ \/ request.op = "read"
       \/ request.op = "write" /\ c.buf.items = request.data
    /\ Len(c.buf.items) = request.len
    /\ \A k \in 1 .. request.len : c.buf.items[k] = Bytes[request.addr + k - 1]

\* A method returns.
LEMMA MethodReturns ==
    ASSUME DeviceInv, Python, NEW c, c \in CallType, Answers(c), Return(c),
           dataBlock' = dataBlock
    PROVE  DeviceInv' /\ ContractStep
  <1> DEFINE s == c.buf.items
             r == request
  <1>1. /\ pc = "body" /\ pc' = "body" /\ ran' = ran /\ doneFlag' = doneFlag /\ disk' = disk
        /\ reply' = s /\ request' = Idle /\ call' = NoCall
        /\ rwFlag' = rwFlag /\ diskPos' = diskPos
    BY DEF Python, Return
  <1>2. Bytes' = Bytes
    BY <1>1 DEF Bytes
  <1>3. r.op \in {"read", "write"} /\ Len(s) = r.len /\ s \in Seq(BufferBytes)
        /\ \A k \in 1 .. r.len : s[k] = Bytes[r.addr + k - 1]
    BY DEF Answers, CallType, Arrays
  <1>4. ValidRequest(r)
    BY <1>3 DEF DeviceInv, Requested, Idle
  <1>5. r.len \in Nat /\ r.addr \in Nat
    <2>1. Size \in Nat
      BY ExchangeAssumption DEF Size
    <2> QED
      BY <1>4, <2>1 DEF ValidRequest
  <1>6. NoCall \in CallType
    <2>1. <<>> \in Seq(BufferBytes) /\ Len(<<>>) = 0
      BY EmptySeq
    <2> QED
      BY <2>1 DEF NoCall, ArrayOf, CallType, Places, Arrays
  <1>7. NoCall.at = "none"
    BY DEF NoCall
  <1>8. DeviceInv'
    <2>1. DeviceTypes'
      BY <1>1, <1>6 DEF DeviceInv, DeviceTypes
    <2>2. Requested'
      BY <1>1 DEF Requested
    <2>3. Sequencing'
      BY <1>1, <1>7 DEF DeviceInv, Sequencing, Reading, Fetching, Storing
    <2>4. PositionOf(call)' /\ ProgressOf(call)' /\ Exchange'
      BY <1>1, <1>7 DEF PositionOf, ProgressOf, Exchange, Reading, Fetching, Storing, Heads,
                        Loops, Tails
    <2> QED
      BY <2>1, <2>2, <2>3, <2>4 DEF DeviceInv
  <1>9. CASE r.op = "read"
    <2>1. s = [i \in 1 .. r.len |-> Bytes[r.addr + i - 1]]
      <3> HIDE DEF s
      <3>1. s = [i \in 1 .. Len(s) |-> s[i]]
        BY <1>3, SeqDef
      <3> QED
        BY <1>3, <3>1
    <2>2. Contract!AnswerRead
      BY <1>1, <1>2, <1>9, <2>1 DEF Contract!AnswerRead, Contract!Idle, Idle
    <2> QED
      BY <1>8, <2>2 DEF ContractStep, Contract!Serve
  <1>10. CASE r.op = "write"
    <2>1. s = r.data
      BY <1>10 DEF Answers
    <2>2. ASSUME NEW a \in Contract!Covered(r)
          PROVE  Bytes[a] = r.data[a - r.addr + 1]
      <3>1. a \in r.addr .. r.addr + r.len - 1
        BY <2>2 DEF Contract!Covered
      <3> DEFINE k == a - r.addr + 1
                 l == r.len
                 m == r.addr
      <3> HIDE DEF k, l, m, r
      <3>2. k \in 1 .. l /\ m + k - 1 = a
        BY <1>5, <3>1 DEF k, l, m
      <3> QED
        BY <1>3, <2>1, <3>2 DEF k, l, m
    <2>3. Contract!AnswerWrite
      BY <1>1, <1>2, <1>10, <2>1, <2>2 DEF Contract!AnswerWrite, Contract!Idle, Idle
    <2> QED
      BY <1>8, <2>3 DEF ContractStep, Contract!Serve
  <1> QED
    BY <1>3, <1>9, <1>10
\* Changing the place of a method changes none of its other locals.
LEMMA PlaceOnly ==
    ASSUME NEW c \in CallType, NEW at \in Places
    PROVE  LET d == [c EXCEPT !.at = at] IN
           /\ d \in CallType /\ d.at = at
           /\ d.block = c.block /\ d.offset = c.offset /\ d.head = c.head /\ d.buf = c.buf
  BY DEF CallType

\* The numbers of a request.
LEMMA RequestNumbers ==
    ASSUME DeviceInv, request.op \in {"read", "write"}
    PROVE  /\ ValidRequest(request)
           /\ request.len \in Nat \ {0} /\ request.addr \in Nat /\ Size \in Nat
           /\ request.addr + request.len <= Size
           /\ BlockSize \in Nat \ {0}
  <1>1. ValidRequest(request)
    BY DEF DeviceInv, Requested, Idle
  <1>2. Size \in Nat /\ BlockSize \in Nat \ {0}
    BY ExchangeAssumption DEF Size
  <1>3. /\ request.addr \in 0 .. Size - 1 /\ request.len \in 1 .. Size
        /\ request.addr + request.len <= Size
    BY <1>1 DEF ValidRequest
  <1> QED
    BY <1>1, <1>2, <1>3

\* readblocks between two exchanges: the locals with which it goes on.
ReadSoFar(c) ==
    /\ c \in CallType /\ request.op = "read"
    /\ c.buf.len = request.len /\ Len(c.buf.items) = request.len
    /\ c.head <= request.len
    /\ Base(c) = request.addr + c.head \/ c.head = request.len
    /\ \A k \in 1 .. c.head : c.buf.items[k] = Bytes[request.addr + k - 1]

LEMMA ReadContinues ==
    ASSUME DeviceInv, Python, dataBlock' = dataBlock, NEW c, ReadSoFar(c), ContinueRead(c)
    PROVE  DeviceInv' /\ ContractStep
  <1> DEFINE h == c.head
             l == request.len
             m == request.addr
             x == Base(c)
  <1>1. /\ c \in CallType /\ request.op = "read" /\ c.buf.len = l /\ Len(c.buf.items) = l
        /\ h <= l /\ (x = m + h \/ h = l)
        /\ \A k \in 1 .. h : c.buf.items[k] = Bytes[m + k - 1]
    BY DEF ReadSoFar
  <1>2. /\ l \in Nat \ {0} /\ m \in Nat /\ Size \in Nat /\ m + l <= Size
        /\ BlockSize \in Nat \ {0} /\ h \in Nat /\ c.block \in Nat
    BY <1>1, RequestNumbers DEF CallType
  <1>3. ASSUME h < l PROVE x = m + h /\ c.block \in Blocks
    <2>1. x = m + h
      <3> HIDE DEF x, h, l, m
      <3> QED
        BY <1>1, <1>2, <1>3
    <2>2. x < Size
      <3> HIDE DEF x, h, l, m
      <3> QED
        BY <1>2, <1>3, <2>1
    <2> QED
      BY <1>2, <2>1, <2>2, BlockInside DEF Base
  <1>4. pc = "body"
    BY DEF Python
  <1>5. dataBlock' \in [items: [1 .. BlockSize -> Values], len: {BlockSize}]
    BY DEF DeviceInv, DeviceTypes
  <1>6. CASE h + BlockSize <= l
    <2> DEFINE d == [c EXCEPT !.at = "readLoop"]
    <2>1. ExchangeBlock(c, 1, "readLoop")
      BY <1>1, <1>6 DEF ContinueRead, READ
    <2>2. h < l
      <3> HIDE DEF h, l
      <3> QED
        BY <1>2, <1>6
    <2>3. /\ d \in CallType /\ d.at = "readLoop"
          /\ d.block = c.block /\ d.head = c.head /\ d.buf = c.buf
      BY <1>1, PlaceOnly DEF Places
    <2> HIDE DEF d
    <2>4. PositionOf(d)
      BY <1>3, <1>6, <2>2, <2>3 DEF PositionOf, Base, Heads, Loops, Tails
    <2>5. ProgressOf(d)
      BY <1>1, <2>3 DEF ProgressOf, Reading, Fetching, Storing
    <2>6. Waits(d, dataBlock'.items, 1)
      BY <1>1, <1>3, <2>2, <2>3, <2>4, <2>5 DEF Waits, Reading, Fetching, Storing
    <2> QED
      BY <1>1, <1>4, <1>5, <2>1, <2>6, ExchangeStarts DEF d
  <1>7. CASE ~(h + BlockSize <= l) /\ l > h
    <2> DEFINE d == [c EXCEPT !.at = "readTail"]
    <2>1. ExchangeBlock(c, 1, "readTail")
      BY <1>1, <1>7 DEF ContinueRead, READ
    <2>2. h < l /\ l < h + BlockSize
      <3> HIDE DEF h, l
      <3> QED
        BY <1>2, <1>7
    <2>3. /\ d \in CallType /\ d.at = "readTail"
          /\ d.block = c.block /\ d.head = c.head /\ d.buf = c.buf
      BY <1>1, PlaceOnly DEF Places
    <2> HIDE DEF d
    <2>4. PositionOf(d)
      BY <1>3, <2>2, <2>3 DEF PositionOf, Base, Heads, Loops, Tails
    <2>5. ProgressOf(d)
      BY <1>1, <2>3 DEF ProgressOf, Reading, Fetching, Storing
    <2>6. Waits(d, dataBlock'.items, 1)
      BY <1>1, <1>3, <2>2, <2>3, <2>4, <2>5 DEF Waits, Reading, Fetching, Storing
    <2> QED
      BY <1>1, <1>4, <1>5, <2>1, <2>6, ExchangeStarts DEF d
  <1>8. CASE ~(h + BlockSize <= l) /\ ~(l > h)
    <2>1. Return(c)
      BY <1>1, <1>8 DEF ContinueRead
    <2>2. h = l
      <3> HIDE DEF h, l
      <3> QED
        BY <1>1, <1>2, <1>8
    <2>3. Answers(c)
      BY <1>1, <2>2 DEF Answers
    <2> QED
      BY <1>1, <2>1, <2>3, MethodReturns
  <1> QED
    BY <1>6, <1>7, <1>8

\* writeblocks between two exchanges.
WrittenSoFar(c) ==
    /\ c \in CallType /\ request.op = "write"
    /\ c.buf.len = request.len /\ c.buf.items = request.data
    /\ c.head <= request.len
    /\ Base(c) = request.addr + c.head
    /\ \A k \in 1 .. c.head : Bytes[request.addr + k - 1] = request.data[k]

\* Replacing a slice of the block leaves a whole block.
LEMMA BlockAssigned ==
    ASSUME DeviceInv, NEW from \in Nat, NEW to \in Nat, from <= to, to <= BlockSize,
           NEW src \in Seq(Values), Len(src) = to - from
    PROVE  LET b == SliceAssign(dataBlock, from, to, src) IN
           /\ b \in [items: [1 .. BlockSize -> Values], len: {BlockSize}]
           /\ \A i \in Positions : b.items[i + 1] =
                 IF i >= from /\ i < to THEN src[i + 1 - from] ELSE dataBlock.items[i + 1]
  <1> DEFINE b == SliceAssign(dataBlock, from, to, src)
  <1>1. BlockSize \in Nat
    BY ExchangeAssumption
  <1>2. dataBlock \in [items: [1 .. BlockSize -> Values], len: {BlockSize}]
    BY DEF DeviceInv, DeviceTypes
  <1>3. dataBlock.items \in Seq(Values) /\ Len(dataBlock.items) = BlockSize
    BY <1>1, <1>2, SeqDef, LenProperties
  <1>4. Full(Values, dataBlock) /\ dataBlock.len = BlockSize
    BY <1>1, <1>2, <1>3 DEF Full
  <1>5. /\ Full(Values, b) /\ b.len = BlockSize
        /\ \A k \in 1 .. BlockSize : b.items[k] =
              IF k > from /\ k <= to THEN src[k - from] ELSE dataBlock.items[k]
    <2> DEFINE a == dataBlock
    <2>1. Full(Values, a) /\ to <= a.len
      BY <1>4
    <2> HIDE DEF a, b
    <2>2. LET e == SliceAssign(a, from, to, src) IN
          /\ Full(Values, e) /\ e.len = a.len
          /\ \A k \in 1 .. a.len : e.items[k] =
                IF k > from /\ k <= to THEN src[k - from] ELSE a.items[k]
      BY <2>1, SliceAssignSame
    <2> QED
      BY <1>4, <2>2 DEF a, b
  <1> HIDE DEF b
  <1>6. b.items \in [1 .. BlockSize -> Values]
    BY <1>5, LenProperties DEF Full
  <1>7. b \in [items: [1 .. BlockSize -> Values], len: {BlockSize}]
    BY <1>5, <1>6 DEF Full
  <1>8. ASSUME NEW i \in Positions
        PROVE  b.items[i + 1] =
                 IF i >= from /\ i < to THEN src[i + 1 - from] ELSE dataBlock.items[i + 1]
    <2>1. i + 1 \in 1 .. BlockSize /\ i \in Nat
      BY <1>1, <1>8 DEF Positions
    <2>2. (i + 1 > from /\ i + 1 <= to) <=> (i >= from /\ i < to)
      BY <2>1
    <2> QED
      BY <1>5, <2>1, <2>2
  <1> QED
    BY <1>7, <1>8 DEF b

\* A slice of the data to be written.
LEMMA DataSlice ==
    ASSUME DeviceInv, request.op = "write", NEW c \in CallType,
           c.buf.len = request.len, c.buf.items = request.data,
           NEW from \in Nat, NEW to \in Nat, from <= to, to <= request.len
    PROVE  /\ Slice(c.buf, from, to) \in Seq(Values)
           /\ Len(Slice(c.buf, from, to)) = to - from
           /\ \A k \in 1 .. to - from : Slice(c.buf, from, to)[k] = request.data[from + k]
  <1>1. ValidRequest(request)
    BY RequestNumbers
  <1>2. request.data \in Seq(Values) /\ Len(request.data) = request.len
    BY <1>1 DEF ValidRequest
  <1>3. c.buf \in Arrays
    BY DEF CallType
  <1> DEFINE a == c.buf
  <1>4. Full(Values, a) /\ to <= a.len /\ a.items = request.data
    BY <1>2, <1>3 DEF Full, Arrays
  <1> HIDE DEF a
  <1>5. /\ Slice(a, from, to) \in Seq(Values)
        /\ Len(Slice(a, from, to)) = to - from
        /\ \A k \in 1 .. to - from : Slice(a, from, to)[k] = a.items[from + k]
    BY <1>4, SliceInside
  <1> QED
    BY <1>4, <1>5 DEF a
LEMMA WriteContinues ==
    ASSUME DeviceInv, Python, NEW c, WrittenSoFar(c), ContinueWrite(c)
    PROVE  DeviceInv' /\ ContractStep
  <1> DEFINE h == c.head
             l == request.len
             m == request.addr
             x == Base(c)
  <1>1. /\ c \in CallType /\ request.op = "write" /\ c.buf.len = l
        /\ c.buf.items = request.data /\ h <= l /\ x = m + h
        /\ \A k \in 1 .. h : Bytes[m + k - 1] = request.data[k]
    BY DEF WrittenSoFar
  <1>2. /\ l \in Nat \ {0} /\ m \in Nat /\ Size \in Nat /\ m + l <= Size
        /\ BlockSize \in Nat \ {0} /\ h \in Nat /\ c.block \in Nat
        /\ ValidRequest(request)
    BY <1>1, RequestNumbers DEF CallType
  <1>3. Len(c.buf.items) = l
    BY <1>1, <1>2 DEF ValidRequest
  <1>4. ASSUME h < l PROVE c.block \in Blocks
    <2>1. x < Size
      <3> HIDE DEF x, h, l, m
      <3> QED
        BY <1>1, <1>2, <1>4
    <2> QED
      BY <1>2, <2>1, BlockInside DEF Base
  <1>5. pc = "body"
    BY DEF Python
  <1>6. dataBlock \in [items: [1 .. BlockSize -> Values], len: {BlockSize}]
    BY DEF DeviceInv, DeviceTypes
  <1>7. CASE h + BlockSize <= l
    <2> DEFINE d == [c EXCEPT !.at = "writeLoop"]
               src == Slice(c.buf, h, h + BlockSize)
    <2>1. /\ ExchangeBlock(c, -1, "writeLoop")
          /\ dataBlock' = SliceAssign(dataBlock, 0, BlockSize, src)
      BY <1>1, <1>7 DEF ContinueWrite, WRITE
    <2>2. h < l /\ h <= h + BlockSize /\ h + BlockSize \in Nat /\ h + BlockSize - h = BlockSize
      <3> HIDE DEF h, l
      <3> QED
        BY <1>2, <1>7
    <2>3. /\ src \in Seq(Values) /\ Len(src) = BlockSize
          /\ \A k \in 1 .. BlockSize : src[k] = request.data[h + k]
      <3> DEFINE e == h + BlockSize
      <3>1. h \in Nat /\ e \in Nat /\ h <= e /\ e <= request.len /\ e - h = BlockSize
        BY <1>2, <1>7, <2>2
      <3>2. c \in CallType /\ c.buf.len = request.len
        BY <1>1
      <3> HIDE DEF h, src, e, l
      <3>3. /\ Slice(c.buf, h, e) \in Seq(Values)
            /\ Len(Slice(c.buf, h, e)) = e - h
            /\ \A k \in 1 .. e - h : Slice(c.buf, h, e)[k] = request.data[h + k]
        BY <1>1, <3>1, <3>2, DataSlice
      <3> QED
        BY <3>1, <3>3 DEF src, e
    <2>4. /\ d \in CallType /\ d.at = "writeLoop"
          /\ d.block = c.block /\ d.head = c.head /\ d.buf = c.buf
      BY <1>1, PlaceOnly DEF Places
    <2> HIDE DEF d, src
    <2>5. /\ dataBlock' \in [items: [1 .. BlockSize -> Values], len: {BlockSize}]
          /\ \A i \in Positions : dataBlock'.items[i + 1] =
                IF i >= 0 /\ i < BlockSize THEN src[i + 1 - 0] ELSE dataBlock.items[i + 1]
      <3>1. 0 \in Nat /\ BlockSize \in Nat /\ 0 <= BlockSize /\ BlockSize <= BlockSize
            /\ Len(src) = BlockSize - 0
        BY <1>2, <2>3
      <3> QED
        BY <2>1, <2>3, <3>1, BlockAssigned
    <2>6. Merged(d, dataBlock'.items)
      <3> SUFFICES ASSUME NEW i \in Positions
                   PROVE  /\ Base(d) + i \in m .. m + l - 1
                          /\ dataBlock'.items[i + 1] = request.data[(Base(d) + i) - m + 1]
        BY Zenon DEF Merged
      <3>1. i \in Nat /\ i < BlockSize /\ i + 1 \in 1 .. BlockSize /\ i + 1 - 0 = i + 1
        BY <1>2 DEF Positions
      <3>2. Base(d) = m + h
        BY <1>1, <2>4 DEF Base
      <3>3. dataBlock'.items[i + 1] = request.data[h + (i + 1)]
        BY <2>3, <2>5, <3>1
      <3>4. m + h + i \in m .. m + l - 1 /\ h + (i + 1) = (m + h + i) - m + 1
        <4> HIDE DEF h, l, m
        <4> QED
          BY <1>2, <1>7, <3>1
      <3> QED
        BY <3>2, <3>3, <3>4
    <2>7. PositionOf(d)
      BY <1>1, <1>7, <2>4 DEF PositionOf, Base, Heads, Loops, Tails
    <2>8. ProgressOf(d)
      BY <1>1, <1>3, <2>4 DEF ProgressOf, Settled, Reading, Fetching, Storing
    <2>9. Waits(d, dataBlock'.items, -1)
      BY <1>1, <1>4, <2>2, <2>4, <2>6, <2>7, <2>8 DEF Waits, Reading, Fetching, Storing
    <2> QED
      BY <1>1, <1>5, <2>1, <2>5, <2>9, ExchangeStarts DEF d
  <1>8. CASE ~(h + BlockSize <= l) /\ l > h
    <2> DEFINE d == [c EXCEPT !.at = "writeTail"]
    <2>1. ExchangeBlock(c, 1, "writeTail") /\ dataBlock' = dataBlock
      BY <1>1, <1>8 DEF ContinueWrite, READ
    <2>2. h < l /\ l < h + BlockSize
      <3> HIDE DEF h, l
      <3> QED
        BY <1>2, <1>8
    <2>3. /\ d \in CallType /\ d.at = "writeTail"
          /\ d.block = c.block /\ d.head = c.head /\ d.buf = c.buf
      BY <1>1, PlaceOnly DEF Places
    <2> HIDE DEF d
    <2>4. PositionOf(d)
      BY <1>1, <2>2, <2>3 DEF PositionOf, Base, Heads, Loops, Tails
    <2>5. ProgressOf(d)
      BY <1>1, <1>3, <2>3 DEF ProgressOf, Settled, Reading, Fetching, Storing
    <2>6. Waits(d, dataBlock'.items, 1)
      BY <1>1, <1>4, <2>2, <2>3, <2>4, <2>5 DEF Waits, Reading, Fetching, Storing
    <2> QED
      BY <1>1, <1>5, <1>6, <2>1, <2>6, ExchangeStarts DEF d
  <1>9. CASE ~(h + BlockSize <= l) /\ ~(l > h)
    <2>1. Return(c) /\ dataBlock' = dataBlock
      BY <1>1, <1>9 DEF ContinueWrite
    <2>2. h = l
      <3> HIDE DEF h, l
      <3> QED
        BY <1>1, <1>2, <1>9
    <2>3. Answers(c)
      BY <1>1, <1>3, <2>2 DEF Answers
    <2> QED
      BY <1>1, <2>1, <2>3, MethodReturns
  <1> QED
    BY <1>7, <1>8, <1>9
\* When the interpreter is resumed, the whole block has been moved.
LEMMA BlockArrived ==
    ASSUME DeviceInv, pc = "body", call.at # "none"
    PROVE  \A i \in Positions : dataBlock.items[i + 1] = Bytes[Base(call) + i]
  <1>1. Moved = Positions
    BY DEF DeviceInv, Sequencing, Moved
  <1> QED
    BY <1>1 DEF DeviceInv, Exchange

\* A read takes n bytes of the block, from f on, into its buffer after the first h.
LEMMA BufferFilled ==
    ASSUME DeviceInv, pc = "body", call.at \in Reading,
           NEW h \in Nat, NEW n \in Nat, NEW f \in Nat,
           h = call.head, h + n <= request.len, f + n <= BlockSize,
           Base(call) + f = request.addr + h
    PROVE  LET b == SliceAssign(call.buf, h, h + n, Slice(dataBlock, f, f + n)) IN
           /\ b \in Arrays /\ b.len = request.len /\ Len(b.items) = request.len
           /\ \A k \in 1 .. h + n : b.items[k] = Bytes[request.addr + k - 1]
  <1> DEFINE a == dataBlock
             src == Slice(dataBlock, f, f + n)
             buf == call.buf
             b == SliceAssign(call.buf, h, h + n, Slice(dataBlock, f, f + n))
             l == request.len
             m == request.addr
  <1>1. call.at # "none" /\ request.op = "read" /\ call \in CallType
    BY DEF DeviceInv, DeviceTypes, Sequencing, Reading
  <1>2. l \in Nat /\ m \in Nat /\ BlockSize \in Nat
    BY <1>1, RequestNumbers
  <1>3. a.len = BlockSize /\ Full(BufferBytes, a)
    <2>1. /\ a \in [items: [1 .. BlockSize -> Values], len: {BlockSize}]
      BY DEF DeviceInv, DeviceTypes
    <2>2. a.items \in [1 .. BlockSize -> BufferBytes]
      BY <2>1 DEF BufferBytes
    <2>3. a.items \in Seq(BufferBytes) /\ Len(a.items) = BlockSize
      BY <1>2, <2>2, SeqDef, LenProperties
    <2> QED
      BY <1>2, <2>1, <2>3 DEF Full
  <1>4. Full(BufferBytes, buf) /\ buf.len = l
    BY <1>1 DEF DeviceInv, ProgressOf, CallType, Arrays, Full
  <1>5. /\ src \in Seq(BufferBytes) /\ Len(src) = n
        /\ \A k \in 1 .. n : src[k] = a.items[f + k]
    <2> DEFINE e == f + n
    <2>1. /\ Full(BufferBytes, a) /\ f \in Nat /\ e \in Nat /\ f <= e /\ e <= a.len
      BY <1>2, <1>3
    <2>3. e - f = n
      OBVIOUS
    <2> HIDE DEF a, e
    <2>2. /\ Slice(a, f, e) \in Seq(BufferBytes)
          /\ Len(Slice(a, f, e)) = e - f
          /\ \A k \in 1 .. e - f : Slice(a, f, e)[k] = a.items[f + k]
      <3>1. Slice(a, f, e) \in Seq(BufferBytes)
        BY <2>1, SliceInside
      <3>2. Len(Slice(a, f, e)) = e - f
        BY <2>1, SliceInside
      <3>3. \A k \in 1 .. e - f : Slice(a, f, e)[k] = a.items[f + k]
        BY <2>1, SliceInside
      <3> QED
        BY <3>1, <3>2, <3>3
    <2> QED
      BY <2>2, <2>3 DEF a, e
  <1>6. /\ Full(BufferBytes, b) /\ b.len = l
        /\ \A k \in 1 .. l : b.items[k] =
              IF k > h /\ k <= h + n THEN src[k - h] ELSE buf.items[k]
    <2> DEFINE e == h + n
    <2>1. h \in Nat /\ e \in Nat /\ h <= e /\ e <= buf.len /\ Len(src) = e - h
      BY <1>2, <1>4, <1>5
    <2> HIDE DEF a, e, src, buf
    <2>2. LET w == SliceAssign(buf, h, e, src) IN
          /\ Full(BufferBytes, w) /\ w.len = buf.len
          /\ \A k \in 1 .. buf.len : w.items[k] =
                IF k > h /\ k <= e THEN src[k - h] ELSE buf.items[k]
      BY ONLY <1>4, <1>5, <2>1, SliceAssignSame
    <2> QED
      BY <1>4, <2>2 DEF e, src, buf
  <1>7. \A i \in Positions : a.items[i + 1] = Bytes[Base(call) + i]
    BY <1>1, BlockArrived
  <1>8. \A k \in 1 .. h : buf.items[k] = Bytes[m + k - 1]
    BY DEF DeviceInv, ProgressOf
  <1>9. Base(call) \in Nat
    BY <1>1, <1>2 DEF Base, CallType
  <1> HIDE DEF a, src, buf, b, l, m
  <1>10. ASSUME NEW k \in 1 .. h + n
         PROVE  b.items[k] = Bytes[m + k - 1]
    <2>1. k \in 1 .. l /\ k \in Nat /\ k >= 1
      BY <1>2, <1>10 DEF l
    <2>2. CASE k <= h
      <3>1. k \in 1 .. h /\ ~(k > h)
        BY <2>1, <2>2
      <3> QED
        BY <1>6, <1>8, <2>1, <3>1
    <2>3. CASE k > h
      <3> DEFINE i == f + (k - h) - 1
                 x == Base(call)
      <3>1. k - h \in 1 .. n /\ i \in Positions /\ i + 1 = f + (k - h)
        BY <1>2, <1>10, <2>1, <2>3 DEF Positions
      <3>2. b.items[k] = a.items[i + 1]
        BY <1>5, <1>6, <1>10, <2>1, <2>3, <3>1
      <3>3. x + i = m + k - 1
        <4> HIDE DEF x
        <4>1. x \in Nat /\ x + f = m + h
          BY <1>9 DEF x, m
        <4> QED
          BY <1>2, <2>1, <4>1
      <3> HIDE DEF i
      <3> QED
        BY <1>7, <3>1, <3>2, <3>3
    <2> QED
      BY <2>1, <2>2, <2>3
  <1>11. b \in Arrays /\ Len(b.items) = l
    BY <1>6 DEF Full, Arrays
  <1> QED
    BY <1>6, <1>10, <1>11 DEF b, l, m

---------------------------------------------------------------------------
(***************************************************************************)
(* The methods.                                                            *)
(***************************************************************************)
\* A method is entered: the block and the offset its request starts at.
LEMMA EntryFacts ==
    ASSUME DeviceInv, request.op \in {"read", "write"},
           NEW s \in Seq(BufferBytes), Len(s) = request.len
    PROVE  LET c == Entry(request.addr, s) IN
           /\ c \in CallType /\ c.head = 0 /\ c.buf.items = s /\ c.buf.len = request.len
           /\ c.offset \in 0 .. BlockSize - 1 /\ c.offset = request.addr % BlockSize
           /\ c.block \in Blocks
           /\ Base(c) + c.offset = request.addr
  <1> DEFINE c == Entry(request.addr, s)
             m == request.addr
  <1>1. /\ m \in Nat /\ BlockSize \in Nat \ {0} /\ request.len \in Nat
        /\ m \in 0 .. Size - 1
    BY RequestNumbers DEF ValidRequest
  <1>2. /\ m \div BlockSize \in Nat /\ (m \div BlockSize) * BlockSize + (m % BlockSize) = m
        /\ m % BlockSize \in 0 .. BlockSize - 1
    BY <1>1, DivBounds
  <1>3. m \div BlockSize \in Blocks
    BY <1>1, AddressParts
  <1>4. /\ c.at = "none" /\ c.block = m \div BlockSize /\ c.offset = m % BlockSize
        /\ c.head = 0 /\ c.buf = [items |-> s, len |-> Len(s)]
    BY DEF Entry, ArrayOf
  <1>5. c.buf \in Arrays /\ c.buf.items = s /\ c.buf.len = request.len
    BY <1>1, <1>4 DEF Arrays
  <1>6. c \in CallType
    <2>1. c = [at |-> "none", block |-> m \div BlockSize, offset |-> m % BlockSize,
               head |-> 0, buf |-> c.buf]
      BY DEF Entry
    <2>2. m % BlockSize \in Nat /\ "none" \in Places
      BY <1>1, <1>2 DEF Places
    <2> HIDE DEF c, m
    <2> QED
      BY <1>2, <1>5, <2>1, <2>2 DEF CallType
  <1> HIDE DEF c
  <1>7. Base(c) + c.offset = m
    BY <1>2, <1>4 DEF Base
  <1> QED
    BY <1>2, <1>3, <1>4, <1>5, <1>6, <1>7 DEF c
LEMMA ReadBlocksStep ==
    ASSUME DeviceInv, ReadBlocks
    PROVE  DeviceInv' /\ ContractStep
  <1> DEFINE s == [i \in 1 .. request.len |-> Unread]
             c == Entry(request.addr, s)
  <1>1. /\ Python /\ request.op = "read" /\ dataBlock' = dataBlock
        /\ IF c.offset > 0 THEN ExchangeBlock(c, READ, "readHead") ELSE ContinueRead(c)
    BY DEF ReadBlocks
  <1>2. request.len \in Nat /\ request.addr \in Nat /\ BlockSize \in Nat
    BY <1>1, RequestNumbers
  <1>3. s \in Seq(BufferBytes) /\ Len(s) = request.len
    <2>1. s \in [1 .. request.len -> BufferBytes]
      BY DEF BufferBytes
    <2> HIDE DEF s
    <2> QED
      BY <1>2, <2>1, SeqDef, LenProperties
  <1> HIDE DEF s
  <1>4. /\ c \in CallType /\ c.head = 0 /\ c.buf.items = s /\ c.buf.len = request.len
        /\ c.offset \in 0 .. BlockSize - 1 /\ c.block \in Blocks
        /\ Base(c) + c.offset = request.addr
    BY <1>1, <1>3, EntryFacts
  <1> HIDE DEF c
  <1>5. pc = "body" /\ dataBlock' \in [items: [1 .. BlockSize -> Values], len: {BlockSize}]
    BY <1>1 DEF Python, DeviceInv, DeviceTypes
  <1>6. CASE c.offset > 0
    <2> DEFINE d == [c EXCEPT !.at = "readHead"]
    <2>1. ExchangeBlock(c, 1, "readHead")
      BY <1>1, <1>6 DEF READ
    <2>2. /\ d \in CallType /\ d.at = "readHead" /\ d.offset = c.offset
          /\ d.block = c.block /\ d.head = c.head /\ d.buf = c.buf
      BY <1>4, PlaceOnly DEF Places
    <2> HIDE DEF d
    <2>3. PositionOf(d)
      <3>1. c.offset \in 1 .. BlockSize - 1
        BY <1>2, <1>4, <1>6
      <3> QED
        BY <1>4, <2>2, <3>1 DEF PositionOf, Base, Heads, Loops, Tails
    <2>4. ProgressOf(d)
      BY <1>3, <1>4, <2>2 DEF ProgressOf, Reading, Fetching, Storing
    <2>5. Waits(d, dataBlock'.items, 1)
      BY <1>1, <1>4, <2>2, <2>3, <2>4 DEF Waits, Reading, Fetching, Storing
    <2> QED
      BY <1>1, <1>4, <1>5, <2>1, <2>5, ExchangeStarts DEF d
  <1>7. CASE ~(c.offset > 0)
    <2>1. c.offset = 0
      BY <1>2, <1>4, <1>7
    <2>2. Base(c) \in Nat
      BY <1>2, <1>4 DEF Base, CallType
    <2>3. Base(c) = request.addr + c.head
      <3> DEFINE x == Base(c)
      <3> HIDE DEF x
      <3>1. x \in Nat /\ x + 0 = request.addr
        BY <1>4, <2>1, <2>2 DEF x
      <3>2. x = request.addr + 0
        BY <1>2, <3>1
      <3> QED
        BY <1>4, <3>2 DEF x
    <2>4. ReadSoFar(c)
      BY <1>1, <1>2, <1>3, <1>4, <2>3 DEF ReadSoFar
    <2> QED
      BY <1>1, <1>7, <2>4, ReadContinues
  <1> QED
    BY <1>6, <1>7

\* The locals after a block has been dealt with.
LEMMA NextBlock ==
    ASSUME DeviceInv, NEW b \in Arrays, NEW n \in Nat
    PROVE  LET c == [call EXCEPT !.buf = b, !.head = n, !.block = call.block + 1] IN
           /\ c \in CallType /\ c.buf = b /\ c.head = n
           /\ Base(c) = Base(call) + BlockSize
           /\ Base(call) \in Nat
  <1> DEFINE c == [call EXCEPT !.buf = b, !.head = n, !.block = call.block + 1]
  <1>1. call \in CallType
    BY DEF DeviceInv, DeviceTypes
  <1>2. c \in CallType /\ c.buf = b /\ c.head = n /\ c.block = call.block + 1
    <2> DEFINE c1 == [call EXCEPT !.buf = b]
               c2 == [c1 EXCEPT !.head = n]
    <2>1. c1 \in CallType /\ c1.buf = b /\ c1.block = call.block
      BY <1>1 DEF CallType
    <2>2. c = [c2 EXCEPT !.block = call.block + 1]
      OBVIOUS
    <2> HIDE DEF c1, c
    <2>3. c2 \in CallType /\ c2.buf = b /\ c2.block = call.block /\ c2.head = n
      BY <2>1 DEF CallType
    <2>4. call.block + 1 \in Nat
      BY <1>1 DEF CallType
    <2> HIDE DEF c2
    <2> QED
      BY <2>2, <2>3, <2>4 DEF CallType
  <1> HIDE DEF c
  <1>3. BlockSize \in Nat /\ call.block \in Nat
    BY <1>1, ExchangeAssumption DEF CallType
  <1>4. Base(c) = Base(call) + BlockSize /\ Base(call) \in Nat
    BY <1>2, <1>3 DEF Base
  <1> QED
    BY <1>2, <1>4 DEF c

LEMMA ReadHeadStep ==
    ASSUME DeviceInv, ReadHead
    PROVE  DeviceInv' /\ ContractStep
  <1> DEFINE f == call.offset
             l == request.len
             m == request.addr
             x == Base(call)
             n == IF BlockSize - f < l THEN BlockSize - f ELSE l
             b == SliceAssign(call.buf, 0, n, Slice(dataBlock, f, f + n))
             c == [call EXCEPT !.buf = b, !.head = n, !.block = call.block + 1]
  <1>1. Python /\ call.at = "readHead" /\ pc = "body" /\ dataBlock' = dataBlock
    BY DEF ReadHead, Python
  <1>2. request.op = "read" /\ call.buf.len = l /\ call.at \in Reading
    BY <1>1 DEF DeviceInv, Sequencing, ProgressOf, Reading
  <1>3. ContinueRead(c)
    BY <1>2 DEF ReadHead
  <1>4. l \in Nat /\ m \in Nat /\ BlockSize \in Nat
    BY <1>2, RequestNumbers
  <1>5. f \in 1 .. BlockSize - 1 /\ x + f = m /\ call.head = 0
    BY <1>1 DEF DeviceInv, PositionOf, Heads
  <1>6. n \in Nat /\ n <= l /\ f + n <= BlockSize /\ (n = BlockSize - f \/ n = l) /\ f \in Nat
    <2> HIDE DEF f, l
    <2> QED
      BY <1>4, <1>5
  <1>7. /\ b \in Arrays /\ b.len = l /\ Len(b.items) = l
        /\ \A k \in 1 .. n : b.items[k] = Bytes[m + k - 1]
    <2> HIDE DEF n, f, b
    <2>1. 0 + n = n /\ 0 + n <= l /\ m + 0 = m /\ 0 \in Nat
      BY <1>4, <1>6
    <2>2. x + f = m + 0
      BY <1>5, <2>1
    <2>3. LET w == SliceAssign(call.buf, 0, 0 + n, Slice(dataBlock, f, f + n)) IN
          /\ w \in Arrays /\ w.len = request.len /\ Len(w.items) = request.len
          /\ \A k \in 1 .. 0 + n : w.items[k] = Bytes[request.addr + k - 1]
      BY <1>1, <1>2, <1>5, <1>6, <2>1, <2>2, BufferFilled
    <2> QED
      BY <2>1, <2>3 DEF b
  <1> HIDE DEF b, n
  <1>8. c \in CallType /\ c.buf = b /\ c.head = n /\ Base(c) = x + BlockSize /\ x \in Nat
    BY <1>6, <1>7, NextBlock
  <1> HIDE DEF c
  <1>9. Base(c) = m + n \/ n = l
    <2> HIDE DEF x, f, l, m
    <2> QED
      BY <1>4, <1>5, <1>6, <1>8
  <1>10. ReadSoFar(c)
    BY <1>2, <1>6, <1>7, <1>8, <1>9 DEF ReadSoFar
  <1> QED
    BY <1>1, <1>3, <1>10, ReadContinues

LEMMA ReadLoopStep ==
    ASSUME DeviceInv, ReadLoop
    PROVE  DeviceInv' /\ ContractStep
  <1> DEFINE h == call.head
             l == request.len
             m == request.addr
             x == Base(call)
             n == h + BlockSize
             b == SliceAssign(call.buf, h, n, Slice(dataBlock, 0, BlockSize))
             c == [call EXCEPT !.buf = b, !.head = n, !.block = call.block + 1]
  <1>1. Python /\ call.at = "readLoop" /\ pc = "body" /\ dataBlock' = dataBlock
    BY DEF ReadLoop, Python
  <1>2. request.op = "read" /\ call.at \in Reading
    BY <1>1 DEF DeviceInv, Sequencing, Reading
  <1>3. ContinueRead(c)
    BY DEF ReadLoop
  <1>4. l \in Nat /\ m \in Nat /\ BlockSize \in Nat /\ h \in Nat
    BY <1>2, RequestNumbers DEF DeviceInv, DeviceTypes, CallType
  <1>5. x = m + h /\ n <= l
    BY <1>1 DEF DeviceInv, PositionOf, Loops
  <1>6. n \in Nat
    BY <1>4
  <1>7. /\ b \in Arrays /\ b.len = l /\ Len(b.items) = l
        /\ \A k \in 1 .. n : b.items[k] = Bytes[m + k - 1]
    <2>1. 0 + BlockSize = BlockSize /\ 0 + BlockSize <= BlockSize /\ 0 \in Nat
      BY <1>4
    <2>2. x + 0 = m + h
      <3> HIDE DEF x, m, h
      <3> QED
        BY <1>4, <1>5
    <2> HIDE DEF h, b
    <2>3. LET w == SliceAssign(call.buf, h, h + BlockSize, Slice(dataBlock, 0, 0 + BlockSize)) IN
          /\ w \in Arrays /\ w.len = request.len /\ Len(w.items) = request.len
          /\ \A k \in 1 .. h + BlockSize : w.items[k] = Bytes[request.addr + k - 1]
      BY <1>1, <1>2, <1>4, <1>5, <2>1, <2>2, BufferFilled DEF h
    <2> QED
      BY <2>1, <2>3 DEF b
  <1> HIDE DEF b
  <1>8. c \in CallType /\ c.buf = b /\ c.head = n /\ Base(c) = x + BlockSize /\ x \in Nat
    <2> HIDE DEF n
    <2> QED
      BY <1>6, <1>7, NextBlock
  <1> HIDE DEF c
  <1>9. Base(c) = m + n
    <2> HIDE DEF x, h, l, m
    <2> QED
      BY <1>4, <1>5, <1>8
  <1>10. ReadSoFar(c)
    <2> HIDE DEF n
    <2> QED
      BY <1>2, <1>5, <1>7, <1>8, <1>9 DEF ReadSoFar
  <1> QED
    BY <1>1, <1>3, <1>10, ReadContinues
LEMMA ReadTailStep ==
    ASSUME DeviceInv, ReadTail
    PROVE  DeviceInv' /\ ContractStep
  <1> DEFINE h == call.head
             l == request.len
             m == request.addr
             x == Base(call)
             n == l - h
             b == SliceAssign(call.buf, h, l, Slice(dataBlock, 0, n))
             c == [call EXCEPT !.buf = b]
  <1>1. Python /\ call.at = "readTail" /\ pc = "body" /\ dataBlock' = dataBlock
    BY DEF ReadTail, Python
  <1>2. request.op = "read" /\ call.buf.len = l /\ call.at \in Reading
    BY <1>1 DEF DeviceInv, Sequencing, ProgressOf, Reading
  <1>3. Return(c)
    BY <1>2 DEF ReadTail
  <1>4. /\ l \in Nat /\ m \in Nat /\ BlockSize \in Nat /\ h \in Nat /\ call \in CallType
    BY <1>2, RequestNumbers DEF DeviceInv, DeviceTypes, CallType
  <1>5. x = m + h /\ h < l /\ l < h + BlockSize
    BY <1>1 DEF DeviceInv, PositionOf, Tails
  <1>6. /\ n \in Nat /\ h + n = l /\ h + n <= l /\ 0 + n = n /\ 0 + n <= BlockSize
        /\ x + 0 = m + h /\ 0 \in Nat
    <2> HIDE DEF x, h, l, m
    <2> QED
      BY <1>4, <1>5
  <1>7. /\ b \in Arrays /\ b.len = l /\ Len(b.items) = l
        /\ \A k \in 1 .. l : b.items[k] = Bytes[m + k - 1]
    <2> HIDE DEF h, b, n
    <2>1. LET w == SliceAssign(call.buf, h, h + n, Slice(dataBlock, 0, 0 + n)) IN
          /\ w \in Arrays /\ w.len = request.len /\ Len(w.items) = request.len
          /\ \A k \in 1 .. h + n : w.items[k] = Bytes[request.addr + k - 1]
      BY <1>1, <1>2, <1>4, <1>6, BufferFilled DEF h
    <2> QED
      BY <1>6, <2>1 DEF b
  <1> HIDE DEF b
  <1>8. c \in CallType /\ c.buf = b
    BY <1>4, <1>7 DEF CallType
  <1> HIDE DEF c
  <1>9. Answers(c)
    BY <1>2, <1>7, <1>8 DEF Answers
  <1> QED
    BY <1>1, <1>3, <1>8, <1>9, MethodReturns

LEMMA WriteBlocksStep ==
    ASSUME DeviceInv, WriteBlocks
    PROVE  DeviceInv' /\ ContractStep
  <1> DEFINE s == request.data
             c == Entry(request.addr, s)
  <1>1. /\ Python /\ request.op = "write"
        /\ IF c.offset > 0
           THEN ExchangeBlock(c, READ, "writeHead") /\ dataBlock' = dataBlock
           ELSE ContinueWrite(c)
    BY DEF WriteBlocks
  <1>2. /\ request.len \in Nat /\ request.addr \in Nat /\ BlockSize \in Nat
        /\ ValidRequest(request)
    BY <1>1, RequestNumbers
  <1>3. s \in Seq(BufferBytes) /\ Len(s) = request.len
    <2>1. s \in Seq(Values) /\ Len(s) = request.len
      BY <1>1, <1>2 DEF ValidRequest
    <2>2. s \in [1 .. request.len -> Values]
      BY <2>1, LenProperties
    <2>3. s \in [1 .. request.len -> BufferBytes]
      BY <2>2 DEF BufferBytes
    <2> HIDE DEF s
    <2> QED
      BY <1>2, <2>1, <2>3, SeqDef
  <1>4. /\ c \in CallType /\ c.head = 0 /\ c.buf.items = s /\ c.buf.len = request.len
        /\ c.offset \in 0 .. BlockSize - 1 /\ c.block \in Blocks
        /\ Base(c) + c.offset = request.addr /\ c.offset = request.addr % BlockSize
    <2> HIDE DEF s
    <2> QED
      BY <1>1, <1>3, EntryFacts
  <1> HIDE DEF c
  <1>5. pc = "body" /\ dataBlock \in [items: [1 .. BlockSize -> Values], len: {BlockSize}]
    BY <1>1 DEF Python, DeviceInv, DeviceTypes
  <1>6. CASE c.offset > 0
    <2> DEFINE d == [c EXCEPT !.at = "writeHead"]
    <2>1. ExchangeBlock(c, 1, "writeHead") /\ dataBlock' = dataBlock
      BY <1>1, <1>6 DEF READ
    <2>2. /\ d \in CallType /\ d.at = "writeHead" /\ d.offset = c.offset
          /\ d.block = c.block /\ d.head = c.head /\ d.buf = c.buf
      BY <1>4, PlaceOnly DEF Places
    <2> HIDE DEF d
    <2>3. PositionOf(d)
      <3>1. c.offset \in 1 .. BlockSize - 1
        BY <1>2, <1>4, <1>6
      <3>2. c.offset + request.len >= BlockSize
        BY <1>1, <1>2, <1>4, <1>6 DEF ValidRequest, ReachesBlockEnd
      <3> QED
        BY <1>4, <2>2, <3>1, <3>2 DEF PositionOf, Base, Heads, Loops, Tails
    <2>4. ProgressOf(d)
      BY <1>3, <1>4, <2>2 DEF ProgressOf, Settled, Reading, Fetching, Storing
    <2>5. Waits(d, dataBlock'.items, 1)
      BY <1>1, <1>4, <2>2, <2>3, <2>4 DEF Waits, Reading, Fetching, Storing
    <2> QED
      BY <1>1, <1>4, <1>5, <2>1, <2>5, ExchangeStarts DEF d
  <1>7. CASE ~(c.offset > 0)
    <2>1. c.offset = 0
      BY <1>2, <1>4, <1>7
    <2>2. Base(c) \in Nat
      BY <1>2, <1>4 DEF Base, CallType
    <2>3. Base(c) = request.addr + c.head
      <3> DEFINE x == Base(c)
      <3> HIDE DEF x
      <3>1. x \in Nat /\ x + 0 = request.addr
        BY <1>4, <2>1, <2>2 DEF x
      <3>2. x = request.addr + 0
        BY <1>2, <3>1
      <3> QED
        BY <1>4, <3>2 DEF x
    <2>4. WrittenSoFar(c)
      BY <1>1, <1>2, <1>4, <2>3 DEF WrittenSoFar
    <2> QED
      BY <1>1, <1>7, <2>4, WriteContinues
  <1> QED
    BY <1>6, <1>7

\* What is known in the middle of a write.
LEMMA WriteFacts ==
    ASSUME DeviceInv, pc = "body", call.at \in Fetching \cup Storing
    PROVE  /\ request.op = "write" /\ call \in CallType /\ call.at # "none"
           /\ call.buf.len = request.len /\ call.buf.items = request.data
           /\ Len(request.data) = request.len
           /\ request.len \in Nat /\ request.addr \in Nat
           /\ call.head \in Nat /\ call.offset \in Nat /\ BlockSize \in Nat \ {0}
           /\ Base(call) \in Nat /\ call.block \in Blocks
           /\ dataBlock.len = BlockSize
  <1>1. /\ request.op = "write" /\ call \in CallType /\ call.at # "none"
        /\ call.buf.len = request.len /\ call.buf.items = request.data
        /\ Len(request.data) = request.len
    BY DEF DeviceInv, DeviceTypes, Sequencing, ProgressOf, Fetching, Storing
  <1>2. request.len \in Nat /\ request.addr \in Nat /\ BlockSize \in Nat \ {0}
    BY <1>1, RequestNumbers
  <1>3. call.head \in Nat /\ call.offset \in Nat /\ call.block \in Nat
    BY <1>1 DEF CallType
  <1>4. Base(call) \in Nat
    BY <1>2, <1>3 DEF Base
  <1>5. call.block \in Blocks /\ dataBlock.len = BlockSize
    BY <1>1 DEF DeviceInv, DeviceTypes, Sequencing
  <1> QED
    BY <1>1, <1>2, <1>3, <1>4, <1>5

LEMMA WriteHeadStep ==
    ASSUME DeviceInv, WriteHead
    PROVE  DeviceInv' /\ ContractStep
  <1> DEFINE f == call.offset
             l == request.len
             m == request.addr
             x == Base(call)
             n == BlockSize - f
             src == Slice(call.buf, 0, n)
             c == [call EXCEPT !.head = n]
             d == [c EXCEPT !.at = "writeHeadDone"]
  <1>1. Python /\ call.at = "writeHead" /\ pc = "body"
    BY DEF WriteHead, Python
  <1>2. /\ request.op = "write" /\ call \in CallType /\ call.at # "none"
        /\ call.buf.len = l /\ call.buf.items = request.data /\ Len(request.data) = l
        /\ l \in Nat /\ m \in Nat /\ f \in Nat /\ BlockSize \in Nat \ {0} /\ x \in Nat
        /\ call.block \in Blocks /\ dataBlock.len = BlockSize
    BY <1>1, WriteFacts DEF Fetching
  <1>3. /\ dataBlock' = SliceAssign(dataBlock, f, BlockSize, src)
        /\ ExchangeBlock(c, -1, "writeHeadDone")
    BY <1>2 DEF WriteHead, WRITE
  <1>4. f \in 1 .. BlockSize - 1 /\ x + f = m /\ f + l >= BlockSize
    BY <1>1 DEF DeviceInv, PositionOf, Heads
  <1>5. n \in Nat /\ 0 <= n /\ n <= l /\ n - 0 = n /\ f <= BlockSize /\ 0 \in Nat
    <2> HIDE DEF f, l
    <2> QED
      BY <1>2, <1>4
  <1>6. /\ src \in Seq(Values) /\ Len(src) = n
        /\ \A k \in 1 .. n : src[k] = request.data[k]
    <2> HIDE DEF n, src
    <2>1. /\ Slice(call.buf, 0, n) \in Seq(Values)
          /\ Len(Slice(call.buf, 0, n)) = n - 0
          /\ \A k \in 1 .. n - 0 : Slice(call.buf, 0, n)[k] = request.data[0 + k]
      BY <1>2, <1>5, DataSlice
    <2>2. \A k \in 1 .. n : 0 + k = k
      BY <1>5
    <2> QED
      BY <1>5, <2>1, <2>2 DEF src
  <1> HIDE DEF src
  <1>7. /\ dataBlock' \in [items: [1 .. BlockSize -> Values], len: {BlockSize}]
        /\ \A i \in Positions : dataBlock'.items[i + 1] =
              IF i >= f /\ i < BlockSize THEN src[i + 1 - f] ELSE dataBlock.items[i + 1]
    <2> HIDE DEF f
    <2> QED
      BY <1>2, <1>3, <1>5, <1>6, BlockAssigned
  <1>8. /\ c \in CallType /\ d \in CallType /\ d.at = "writeHeadDone" /\ d.block = call.block
        /\ d.offset = f /\ d.head = n /\ d.buf = call.buf
    <2> HIDE DEF n
    <2>1. /\ c \in CallType /\ c.block = call.block /\ c.offset = f /\ c.head = n
          /\ c.buf = call.buf
      BY <1>2, <1>5 DEF CallType
    <2> HIDE DEF c
    <2>2. /\ d \in CallType /\ d.at = "writeHeadDone" /\ d.block = c.block
          /\ d.offset = c.offset /\ d.head = c.head /\ d.buf = c.buf
      BY <2>1, PlaceOnly DEF Places
    <2> QED
      BY <2>1, <2>2
  <1>9. \A i \in Positions : dataBlock.items[i + 1] = Bytes[x + i]
    BY <1>1, <1>2, BlockArrived
  <1> HIDE DEF d, c
  <1>10. Base(d) = x
    BY <1>8 DEF Base
  <1>11. Merged(d, dataBlock'.items)
    <2> SUFFICES ASSUME NEW i \in Positions
                 PROVE  dataBlock'.items[i + 1] =
                          IF x + i \in m .. m + l - 1 THEN request.data[(x + i) - m + 1]
                          ELSE Bytes[x + i]
      BY <1>10 DEF Merged
    <2>1. i \in Nat /\ i < BlockSize
      BY <1>2 DEF Positions
    <2> HIDE DEF x, f, l, m
    <2>2. CASE i >= f
      <3>1. /\ x + i \in m .. m + l - 1 /\ i + 1 - f \in 1 .. n
            /\ i + 1 - f = (x + i) - m + 1
        BY <1>2, <1>4, <2>1, <2>2
      <3>2. dataBlock'.items[i + 1] = src[i + 1 - f]
        BY <1>7, <2>1, <2>2
      <3>3. src[i + 1 - f] = request.data[i + 1 - f]
        BY <1>6, <3>1, Zenon
      <3> QED
        BY <3>1, <3>2, <3>3
    <2>3. CASE i < f
      <3>1. x + i \notin m .. m + l - 1 /\ ~(i >= f)
        BY <1>2, <1>4, <2>1, <2>3
      <3> QED
        BY <1>7, <1>9, <3>1
    <2> QED
      BY <1>2, <2>1, <2>2, <2>3
  <1>12. PositionOf(d)
    <2> HIDE DEF n
    <2> QED
      BY <1>4, <1>5, <1>8, <1>10 DEF PositionOf, Heads, Loops, Tails, n
  <1>13. ProgressOf(d)
    BY <1>2, <1>8 DEF ProgressOf, Settled, Reading, Fetching, Storing
  <1>14. Waits(d, dataBlock'.items, -1)
    BY <1>2, <1>8, <1>11, <1>12, <1>13 DEF Waits, Reading, Fetching, Storing
  <1> QED
    BY <1>1, <1>3, <1>7, <1>8, <1>14, ExchangeStarts DEF d
\* When an exchange that stores a block is over, the bytes of the request that
\* lie in this block are on the device.
LEMMA BlockStored ==
    ASSUME DeviceInv, pc = "body", call.at \in Storing,
           NEW k \in 1 .. request.len,
           Base(call) <= request.addr + k - 1,
           request.addr + k - 1 < Base(call) + BlockSize
    PROVE  Bytes[request.addr + k - 1] = request.data[k]
  <1> DEFINE l == request.len
             m == request.addr
             x == Base(call)
             i == m + k - 1 - x
  <1>1. call.at # "none" /\ l \in Nat /\ m \in Nat /\ x \in Nat /\ BlockSize \in Nat
    BY WriteFacts
  <1>2. i \in Positions /\ x + i = m + k - 1 /\ m + k - 1 \in m .. m + l - 1
        /\ m + k - 1 - m + 1 = k
    <2>1. k \in 1 .. l /\ x <= m + k - 1 /\ m + k - 1 < x + BlockSize
      OBVIOUS
    <2> HIDE DEF l, m, x
    <2> QED
      BY <1>1, <2>1 DEF Positions
  <1>3. dataBlock.items[i + 1] = Bytes[x + i]
    <2> HIDE DEF i
    <2> QED
      BY <1>1, <1>2, BlockArrived
  <1>4. Merged(call, dataBlock.items)
    BY DEF DeviceInv, Exchange
  <1>5. dataBlock.items[i + 1] = request.data[(x + i) - m + 1]
    <2>1. x + i \in m .. m + l - 1
      <3> HIDE DEF i, l, m, x
      <3> QED
        BY <1>2
    <2> HIDE DEF i
    <2> QED
      BY <1>2, <1>4, <2>1 DEF Merged
  <1> HIDE DEF i, l, m, x
  <1>6. (x + i) - m + 1 = k
    BY <1>1, <1>2 DEF Positions
  <1>7. Bytes[m + k - 1] = request.data[k]
    BY <1>2, <1>3, <1>5, <1>6
  <1> QED
    BY <1>7 DEF m

LEMMA WriteHeadDoneStep ==
    ASSUME DeviceInv, WriteHeadDone
    PROVE  DeviceInv' /\ ContractStep
  <1> DEFINE h == call.head
             l == request.len
             m == request.addr
             x == Base(call)
             c == [call EXCEPT !.block = call.block + 1]
  <1>1. Python /\ call.at = "writeHeadDone" /\ pc = "body" /\ call.at \in Storing
    BY DEF WriteHeadDone, Python, Storing
  <1>2. /\ request.op = "write" /\ call \in CallType
        /\ call.buf.len = l /\ call.buf.items = request.data
        /\ l \in Nat /\ m \in Nat /\ h \in Nat /\ BlockSize \in Nat \ {0} /\ x \in Nat
        /\ call.offset \in Nat
    BY <1>1, WriteFacts
  <1>3. ContinueWrite(c)
    BY DEF WriteHeadDone
  <1>4. h = BlockSize - call.offset /\ h <= l /\ x + call.offset = m
    BY <1>1 DEF DeviceInv, PositionOf, Heads
  <1>5. c \in CallType /\ c.block = call.block + 1 /\ c.head = h /\ c.buf = call.buf
    BY <1>2 DEF CallType
  <1> HIDE DEF c
  <1>6. Base(c) = x + BlockSize
    <2>1. call.block \in Nat
      BY <1>2 DEF CallType
    <2> QED
      BY <1>2, <1>5, <2>1 DEF Base
  <1>7. Base(c) = m + h
    <2> DEFINE f == call.offset
    <2>1. f \in Nat /\ h = BlockSize - f /\ x + f = m
      BY <1>2, <1>4
    <2> HIDE DEF f, h, x, m
    <2> QED
      BY <1>2, <1>6, <2>1
  <1>8. ASSUME NEW k \in 1 .. h PROVE Bytes[m + k - 1] = request.data[k]
    <2>1. k \in 1 .. l /\ x <= m + k - 1 /\ m + k - 1 < x + BlockSize
      <3> DEFINE f == call.offset
      <3>1. f \in Nat /\ h = BlockSize - f /\ x + f = m
        BY <1>2, <1>4
      <3> HIDE DEF f, h, x, m, l
      <3> QED
        BY <1>2, <1>4, <1>8, <3>1
    <2> QED
      BY <1>1, <2>1, BlockStored
  <1>9. WrittenSoFar(c)
    BY <1>2, <1>4, <1>5, <1>7, <1>8 DEF WrittenSoFar
  <1> QED
    BY <1>1, <1>3, <1>9, WriteContinues

LEMMA WriteLoopStep ==
    ASSUME DeviceInv, WriteLoop
    PROVE  DeviceInv' /\ ContractStep
  <1> DEFINE h == call.head
             l == request.len
             m == request.addr
             x == Base(call)
             c == [call EXCEPT !.head = h + BlockSize, !.block = call.block + 1]
  <1>1. Python /\ call.at = "writeLoop" /\ pc = "body" /\ call.at \in Storing
    BY DEF WriteLoop, Python, Storing
  <1>2. /\ request.op = "write" /\ call \in CallType
        /\ call.buf.len = l /\ call.buf.items = request.data
        /\ l \in Nat /\ m \in Nat /\ h \in Nat /\ BlockSize \in Nat \ {0} /\ x \in Nat
    BY <1>1, WriteFacts
  <1>3. ContinueWrite(c)
    BY DEF WriteLoop
  <1>4. x = m + h /\ h + BlockSize <= l
    BY <1>1 DEF DeviceInv, PositionOf, Loops
  <1>5. /\ c \in CallType /\ c.block = call.block + 1 /\ c.head = h + BlockSize
        /\ c.buf = call.buf
    <2> DEFINE e == [call EXCEPT !.head = h + BlockSize]
    <2>1. e \in CallType /\ e.block = call.block /\ e.head = h + BlockSize /\ e.buf = call.buf
      BY <1>2 DEF CallType
    <2>2. c = [e EXCEPT !.block = call.block + 1]
      OBVIOUS
    <2>3. call.block + 1 \in Nat
      BY <1>2 DEF CallType
    <2> HIDE DEF e, c
    <2> QED
      BY <2>1, <2>2, <2>3 DEF CallType
  <1> HIDE DEF c
  <1>6. Base(c) = x + BlockSize
    <2>1. call.block \in Nat
      BY <1>2 DEF CallType
    <2> QED
      BY <1>2, <1>5, <2>1 DEF Base
  <1>7. Base(c) = m + c.head
    <2>1. c.head = h + BlockSize
      BY <1>5
    <2> HIDE DEF h, x, m
    <2> QED
      BY <1>2, <1>4, <1>6, <2>1
  <1>8. ASSUME NEW k \in 1 .. h + BlockSize PROVE Bytes[m + k - 1] = request.data[k]
    <2>1. CASE k \in 1 .. h
      BY <1>1, <2>1 DEF DeviceInv, ProgressOf, Settled
    <2>2. CASE k \notin 1 .. h
      <3>1. k \in 1 .. l /\ x <= m + k - 1 /\ m + k - 1 < x + BlockSize
        <4> HIDE DEF h, x, m, l
        <4> QED
          BY <1>2, <1>4, <1>8, <2>2
      <3> QED
        BY <1>1, <3>1, BlockStored
    <2> QED
      BY <2>1, <2>2
  <1>9. WrittenSoFar(c)
    BY <1>2, <1>4, <1>5, <1>7, <1>8 DEF WrittenSoFar
  <1> QED
    BY <1>1, <1>3, <1>9, WriteContinues

LEMMA WriteTailStep ==
    ASSUME DeviceInv, WriteTail
    PROVE  DeviceInv' /\ ContractStep
  <1> DEFINE h == call.head
             l == request.len
             m == request.addr
             x == Base(call)
             n == l - h
             src == Slice(call.buf, h, l)
             d == [call EXCEPT !.at = "writeTailDone"]
  <1>1. Python /\ call.at = "writeTail" /\ pc = "body"
    BY DEF WriteTail, Python
  <1>2. /\ request.op = "write" /\ call \in CallType /\ call.at # "none"
        /\ call.buf.len = l /\ call.buf.items = request.data /\ Len(request.data) = l
        /\ l \in Nat /\ m \in Nat /\ h \in Nat /\ BlockSize \in Nat \ {0} /\ x \in Nat
        /\ call.block \in Blocks
    BY <1>1, WriteFacts DEF Fetching
  <1>3. /\ dataBlock' = SliceAssign(dataBlock, 0, n, src)
        /\ ExchangeBlock(call, -1, "writeTailDone")
    BY <1>2 DEF WriteTail, WRITE
  <1>4. x = m + h /\ h < l /\ l < h + BlockSize
    BY <1>1 DEF DeviceInv, PositionOf, Tails
  <1>5. n \in Nat /\ 0 <= n /\ n <= BlockSize /\ n - 0 = n /\ h <= l /\ 0 \in Nat
    <2> HIDE DEF h, l
    <2> QED
      BY <1>2, <1>4
  <1>6. /\ src \in Seq(Values) /\ Len(src) = n
        /\ \A k \in 1 .. n : src[k] = request.data[h + k]
    <2> HIDE DEF h
    <2>1. /\ Slice(call.buf, h, request.len) \in Seq(Values)
          /\ Len(Slice(call.buf, h, request.len)) = request.len - h
          /\ \A k \in 1 .. request.len - h :
                Slice(call.buf, h, request.len)[k] = request.data[h + k]
      <3>1. h \in Nat /\ request.len \in Nat /\ h <= request.len /\ request.len <= request.len
        BY <1>2, <1>5
      <3> QED
        BY <1>2, <3>1, DataSlice
    <2> QED
      BY <2>1
  <1> HIDE DEF src
  <1>7. /\ dataBlock' \in [items: [1 .. BlockSize -> Values], len: {BlockSize}]
        /\ \A i \in Positions : dataBlock'.items[i + 1] =
              IF i >= 0 /\ i < n THEN src[i + 1 - 0] ELSE dataBlock.items[i + 1]
    <2> HIDE DEF n
    <2> QED
      BY <1>2, <1>3, <1>5, <1>6, BlockAssigned
  <1>8. /\ d \in CallType /\ d.at = "writeTailDone" /\ d.block = call.block
        /\ d.head = h /\ d.buf = call.buf
    BY <1>2, PlaceOnly DEF Places
  <1>9. \A i \in Positions : dataBlock.items[i + 1] = Bytes[x + i]
    BY <1>1, <1>2, BlockArrived
  <1> HIDE DEF d
  <1>10. Base(d) = x
    BY <1>8 DEF Base
  <1>11. Merged(d, dataBlock'.items)
    <2> SUFFICES ASSUME NEW i \in Positions
                 PROVE  dataBlock'.items[i + 1] =
                          IF x + i \in m .. m + l - 1 THEN request.data[(x + i) - m + 1]
                          ELSE Bytes[x + i]
      BY <1>10 DEF Merged
    <2>1. i \in Nat /\ i >= 0 /\ i + 1 - 0 = i + 1
      BY <1>2 DEF Positions
    <2> HIDE DEF x, h, l, m
    <2>2. CASE i < n
      <3>1. /\ x + i \in m .. m + l - 1 /\ i + 1 \in 1 .. n
            /\ h + (i + 1) = (x + i) - m + 1
        BY <1>2, <1>4, <2>1, <2>2
      <3>2. dataBlock'.items[i + 1] = src[i + 1]
        BY <1>7, <2>1, <2>2
      <3>3. src[i + 1] = request.data[h + (i + 1)]
        BY <1>6, <3>1, Zenon
      <3> QED
        BY <3>1, <3>2, <3>3
    <2>3. CASE ~(i < n)
      <3>1. x + i \notin m .. m + l - 1
        BY <1>2, <1>4, <2>1, <2>3
      <3> QED
        BY <1>7, <1>9, <2>3, <3>1
    <2> QED
      BY <2>2, <2>3
  <1>12. PositionOf(d)
    BY <1>4, <1>8, <1>10 DEF PositionOf, Heads, Loops, Tails
  <1>13. ProgressOf(d)
    <2>1. \A k \in 1 .. h : Bytes[m + k - 1] = request.data[k]
      BY <1>1 DEF DeviceInv, ProgressOf, Settled, Fetching
    <2> QED
      BY <1>2, <1>8, <2>1 DEF ProgressOf, Settled, Reading, Fetching, Storing
  <1>14. Waits(d, dataBlock'.items, -1)
    BY <1>2, <1>8, <1>11, <1>12, <1>13 DEF Waits, Reading, Fetching, Storing
  <1> QED
    BY <1>1, <1>2, <1>3, <1>7, <1>14, ExchangeStarts DEF d

LEMMA WriteTailDoneStep ==
    ASSUME DeviceInv, WriteTailDone
    PROVE  DeviceInv' /\ ContractStep
  <1> DEFINE h == call.head
             l == request.len
             m == request.addr
             x == Base(call)
  <1>1. /\ Python /\ call.at = "writeTailDone" /\ pc = "body" /\ call.at \in Storing
        /\ Return(call) /\ dataBlock' = dataBlock
    BY DEF WriteTailDone, Python, Storing
  <1>2. /\ request.op = "write" /\ call \in CallType
        /\ call.buf.items = request.data /\ Len(request.data) = l
        /\ l \in Nat /\ m \in Nat /\ h \in Nat /\ BlockSize \in Nat \ {0} /\ x \in Nat
    BY <1>1, WriteFacts
  <1>3. x = m + h /\ h < l /\ l < h + BlockSize
    BY <1>1 DEF DeviceInv, PositionOf, Tails
  <1>4. ASSUME NEW k \in 1 .. l PROVE Bytes[m + k - 1] = request.data[k]
    <2>1. CASE k \in 1 .. h
      BY <1>1, <2>1 DEF DeviceInv, ProgressOf, Settled
    <2>2. CASE k \notin 1 .. h
      <3>1. k \in 1 .. l /\ x <= m + k - 1 /\ m + k - 1 < x + BlockSize
        <4> HIDE DEF h, x, m, l
        <4> QED
          BY <1>2, <1>3, <1>4, <2>2
      <3> QED
        BY <1>1, <3>1, BlockStored
    <2> QED
      BY <2>1, <2>2
  <1>5. Answers(call)
    BY <1>2, <1>4 DEF Answers
  <1> QED
    BY <1>1, <1>2, <1>5, MethodReturns
---------------------------------------------------------------------------
(***************************************************************************)
(* The storage tiles, the control program and the file system.             *)
(***************************************************************************)
\* A storage tile moves its byte.  In a write this is a step of the abstract
\* device when the byte belongs to the request, and none otherwise.
LEMMA ReadWriteVertexStep ==
    ASSUME DeviceInv, NEW i \in Positions, ReadWriteVertex(i)
    PROVE  DeviceInv' /\ ContractStep
  <1> DEFINE v == dataBlock.items[i + 1]
             x == Base(call)
             l == request.len
             m == request.addr
  <1>1. /\ pc = "rw" /\ pc' = "rw" /\ ran' = ran \cup {i} /\ doneFlag' = doneFlag
        /\ rwFlag' = rwFlag /\ diskPos' = diskPos /\ call' = call /\ request' = request
        /\ reply' = reply
    BY DEF ReadWriteVertex
  <1>2. /\ dataBlock' = IF rwFlag = 1
                        THEN [dataBlock EXCEPT !.items[i + 1] = disk[i][diskPos]]
                        ELSE dataBlock
        /\ disk' = IF rwFlag = -1 THEN [disk EXCEPT ![i][diskPos] = v] ELSE disk
    BY DEF ReadWriteVertex, READ, WRITE
  <1>3. /\ DeviceTypes /\ Requested /\ Sequencing /\ PositionOf(call) /\ ProgressOf(call)
        /\ Exchange
    BY DEF DeviceInv
  <1>4. Requested'
    BY <1>1, <1>3 DEF Requested, ValidRequest
  <1>5. Sequencing'
    BY <1>1, <1>3 DEF Sequencing
  <1>6. PositionOf(call)'
    BY <1>1, <1>3 DEF PositionOf, Base
  <1>7. Moved = ran /\ Moved' = ran \cup {i}
    BY <1>1 DEF Moved
  <1>8. BlockSize \in Nat /\ i \in Nat /\ i + 1 \in 1 .. BlockSize
    BY ExchangeAssumption DEF Positions
  <1>9. dataBlock \in [items: [1 .. BlockSize -> Values], len: {BlockSize}] /\ v \in Values
    BY <1>3, <1>8 DEF DeviceTypes
  <1>10. /\ disk \in [Positions -> [Blocks -> Values]] /\ diskPos \in Blocks
         /\ disk[i][diskPos] \in Values
    BY <1>3 DEF DeviceTypes
  <1> HIDE DEF v
  <1>11. CASE call.at = "none"
    <2>1. rwFlag = 0
      BY <1>1, <1>3, <1>11 DEF Sequencing
    <2>2. dataBlock' = dataBlock /\ disk' = disk
      BY <1>2, <2>1
    <2>3. Bytes' = Bytes
      BY <2>2 DEF Bytes
    <2>4. DeviceTypes'
      BY <1>1, <1>3, <2>2 DEF DeviceTypes
    <2>5. ProgressOf(call)' /\ Exchange'
      BY <1>1, <1>11 DEF ProgressOf, Exchange, Reading, Fetching, Storing
    <2> QED
      BY <1>1, <1>4, <1>5, <1>6, <2>3, <2>4, <2>5, ContractStutters DEF DeviceInv
  <1>12. CASE call.at \in Reading \cup Fetching
    <2>1. rwFlag = 1 /\ diskPos = call.block /\ call.at # "none" /\ call.at \notin Storing
      BY <1>3, <1>12 DEF Sequencing, Reading, Fetching, Storing
    <2>2. /\ disk' = disk /\ dataBlock' = [dataBlock EXCEPT !.items[i + 1] = disk[i][diskPos]]
      BY <1>2, <2>1
    <2>3. Bytes' = Bytes
      BY <2>2 DEF Bytes
    <2>4. /\ dataBlock' \in [items: [1 .. BlockSize -> Values], len: {BlockSize}]
          /\ dataBlock'.items = [dataBlock.items EXCEPT ![i + 1] = disk[i][diskPos]]
      BY <1>8, <1>9, <1>10, <2>2
    <2>5. DeviceTypes'
      BY <1>1, <1>3, <2>2, <2>4 DEF DeviceTypes
    <2>6. ProgressOf(call)'
      BY <1>1, <1>3, <2>3 DEF ProgressOf, Settled
    <2>7. Exchange'
      <3>1. ASSUME NEW j \in ran \cup {i} PROVE dataBlock'.items[j + 1] = Bytes[x + j]
        <4>1. j \in Positions /\ j + 1 \in 1 .. BlockSize
          BY <1>3, <1>8 DEF DeviceTypes, Positions
        <4>2. CASE j = i
          <5>1. dataBlock'.items[i + 1] = disk[i][diskPos]
            BY <1>8, <1>9, <2>4
          <5>2. Bytes[x + i] = disk[i][diskPos]
            BY <1>10, <2>1, BytesAt DEF Base
          <5> QED
            BY <4>2, <5>1, <5>2
        <4>3. CASE j # i
          <5>1. j + 1 # i + 1
            BY <1>8, <4>1, <4>3 DEF Positions
          <5>2. dataBlock'.items[j + 1] = dataBlock.items[j + 1]
            BY <1>9, <2>4, <4>1, <5>1
          <5>3. dataBlock.items[j + 1] = Bytes[x + j]
            BY <1>3, <1>7, <2>1, <3>1, <4>3 DEF Exchange
          <5> QED
            BY <5>2, <5>3
        <4> QED
          BY <4>2, <4>3
      <3>2. x = Base(call)'
        BY <1>1 DEF Base
      <3> QED
        BY <1>1, <1>7, <2>1, <2>3, <3>1, <3>2 DEF Exchange
    <2> QED
      BY <1>1, <1>4, <1>5, <1>6, <2>3, <2>5, <2>6, <2>7, ContractStutters DEF DeviceInv
  <1>13. CASE call.at \in Storing
    <2>1. /\ rwFlag = -1 /\ diskPos = call.block /\ call.at # "none" /\ request.op = "write"
          /\ call.at \notin Reading
      BY <1>3, <1>13 DEF Sequencing, Reading, Storing
    <2>2. dataBlock' = dataBlock /\ disk' = [disk EXCEPT ![i][diskPos] = v]
      BY <1>2, <2>1
    <2>3. Bytes' = [Bytes EXCEPT ![x + i] = v]
      BY <1>3, <1>10, <2>1, <2>2, BytesStored DEF Base
    <2>4. Bytes \in [0 .. Size - 1 -> Values]
      BY <1>3, BytesType
    <2>5. \A j \in Positions : x + j \in 0 .. Size - 1
      BY <1>10, <2>1, AddressInside DEF Base
    <2>6. l \in Nat /\ m \in Nat /\ Size \in Nat /\ m + l <= Size /\ x \in Nat
      BY <1>8, <1>10, <2>1, RequestNumbers, AddressInside DEF Base
    <2>7. v = IF x + i \in m .. m + l - 1 THEN request.data[(x + i) - m + 1] ELSE Bytes[x + i]
      BY <1>3, <1>13 DEF Exchange, Merged, v
    <2>8. DeviceTypes'
      <3>1. disk' \in [Positions -> [Blocks -> Values]]
        BY <1>9, <1>10, <2>2
      <3> QED
        BY <1>1, <1>3, <2>2, <3>1 DEF DeviceTypes
    <2>9. \A j \in Positions : Bytes'[x + j] = IF j = i THEN v ELSE Bytes[x + j]
      <3> SUFFICES ASSUME NEW j \in Positions
                   PROVE  Bytes'[x + j] = IF j = i THEN v ELSE Bytes[x + j]
        OBVIOUS
      <3>1. x + j = x + i <=> j = i
        <4> HIDE DEF x
        <4>1. j \in Nat
          BY <1>8 DEF Positions
        <4> QED
          BY <1>8, <2>6, <4>1
      <3> QED
        BY <2>3, <2>4, <2>5, <3>1
    <2>10. ProgressOf(call)'
      <3>1. Settled(call) \in Nat /\ Settled(call) <= l
        <4>1. call.head \in Nat /\ (call.at # "writeHeadDone" => call.head <= l)
          BY <1>3, <1>8, <1>13, <2>6 DEF PositionOf, Loops, Tails, Storing, DeviceTypes, CallType
        <4> QED
          BY <2>6, <4>1 DEF Settled
      <3>2. ASSUME NEW k \in 1 .. Settled(call) PROVE Bytes'[m + k - 1] = request.data[k]
        <4> DEFINE a == m + k - 1
        <4>1. k \in 1 .. l /\ k \in Nat /\ a \in 0 .. Size - 1 /\ a \in m .. m + l - 1
              /\ a - m + 1 = k
          <5> HIDE DEF l, m
          <5> QED
            BY <2>6, <3>1, <3>2
        <4>2. Bytes[a] = request.data[k]
          BY <1>3, <1>13, <3>2 DEF ProgressOf
        <4> HIDE DEF a
        <4>3. CASE a = x + i
          <5> DEFINE y == x + i
          <5>2. v = IF y \in m .. m + l - 1 THEN request.data[y - m + 1] ELSE Bytes[y]
            BY <2>7
          <5>3. a = y
            BY <4>3
          <5> HIDE DEF y
          <5>1. v = request.data[k]
            BY <4>1, <5>2, <5>3
          <5> QED
            BY <2>3, <2>4, <4>1, <4>3, <5>1 DEF a
        <4>4. CASE a # x + i
          BY <2>3, <2>4, <4>1, <4>2, <4>4 DEF a
        <4> QED
          BY <4>3, <4>4
      <3>3. Settled(call)' = Settled(call)
        BY <1>1 DEF Settled
      <3> QED
        BY <1>1, <1>3, <1>13, <2>1, <3>2, <3>3 DEF ProgressOf
    <2>11. Exchange'
      <3>1. x = Base(call)'
        BY <1>1 DEF Base
      <3>2. ASSUME NEW j \in ran \cup {i} PROVE dataBlock.items[j + 1] = Bytes'[x + j]
        <4>1. j \in Positions
          BY <1>3 DEF DeviceTypes
        <4>2. CASE j = i
          BY <2>9, <4>1, <4>2 DEF v
        <4>3. CASE j # i
          <5>1. dataBlock.items[j + 1] = Bytes[x + j]
            BY <1>3, <1>7, <2>1, <3>2, <4>3 DEF Exchange
          <5> QED
            BY <2>9, <4>1, <4>3, <5>1
        <4> QED
          BY <4>2, <4>3
      <3>3. ASSUME NEW j \in Positions
            PROVE  dataBlock.items[j + 1] =
                     IF x + j \in m .. m + l - 1 THEN request.data[(x + j) - m + 1]
                     ELSE Bytes'[x + j]
        <4>1. dataBlock.items[j + 1] =
                IF x + j \in m .. m + l - 1 THEN request.data[(x + j) - m + 1]
                ELSE Bytes[x + j]
          BY <1>3, <1>13, <3>3 DEF Exchange, Merged
        <4>2. j = i => dataBlock.items[j + 1] = Bytes'[x + j]
          BY <2>9, <3>3 DEF v
        <4>3. j # i => Bytes'[x + j] = Bytes[x + j]
          BY <2>9, <3>3
        <4> QED
          BY <4>1, <4>2, <4>3, Zenon
      <3>4. Merged(call, dataBlock.items)'
        BY <1>1, <2>2, <3>1, <3>3 DEF Merged
      <3> QED
        BY <1>1, <1>7, <2>2, <3>1, <3>2, <3>4 DEF Exchange
    <2>12. ContractStep
      <3>1. CASE x + i \in m .. m + l - 1
        <4> DEFINE a == x + i
        <4>4. /\ v = IF a \in m .. m + l - 1 THEN request.data[a - m + 1] ELSE Bytes[a]
              /\ Bytes' = [Bytes EXCEPT ![a] = v] /\ a \in m .. m + l - 1
          BY <2>3, <2>7, <3>1
        <4>1. Bytes' = [Bytes EXCEPT ![a] = request.data[a - request.addr + 1]]
          <5> HIDE DEF a
          <5> QED
            BY <4>4
        <4>2. a \in Contract!Covered(request) /\ a \in Contract!Addresses
          BY <2>5, <3>1 DEF Contract!Covered, Contract!Addresses
        <4> HIDE DEF a
        <4>3. Contract!Store(a)
          BY <1>1, <2>1, <4>1, <4>2, Zenon DEF Contract!Store
        <4> QED
          BY <4>2, <4>3 DEF ContractStep, Contract!Serve
      <3>2. CASE x + i \notin m .. m + l - 1
        <4>1. v = Bytes[x + i]
          BY <2>7, <3>2
        <4>2. Bytes' = Bytes
          BY <2>3, <2>4, <4>1
        <4> QED
          BY <1>1, <4>2, ContractStutters
      <3> QED
        BY <3>1, <3>2
    <2> QED
      BY <1>4, <1>5, <1>6, <2>8, <2>10, <2>11, <2>12 DEF DeviceInv
  <1>14. call.at \in {"none"} \cup Reading \cup Fetching \cup Storing
    BY <1>3 DEF DeviceTypes, CallType, Places, Reading, Fetching, Storing
  <1> QED
    BY <1>11, <1>12, <1>13, <1>14
\* The steps of the control program, which move no byte.
LEMMA ControlStep ==
    ASSUME DeviceInv, InitVertex \/ RepeatWhileFalse \/ BodyVertex \/ ProgramEnds
    PROVE  DeviceInv' /\ ContractStep
  <1>1. /\ disk' = disk /\ dataBlock' = dataBlock /\ diskPos' = diskPos /\ call' = call
        /\ request' = request /\ reply' = reply
    BY DEF InitVertex, RepeatWhileFalse, BodyVertex, ProgramEnds
  <1>2. Bytes' = Bytes
    BY <1>1 DEF Bytes
  <1>3. /\ DeviceTypes /\ Requested /\ Sequencing /\ PositionOf(call) /\ ProgressOf(call)
        /\ Exchange
    BY DEF DeviceInv
  <1>4. Requested' /\ PositionOf(call)' /\ ProgressOf(call)'
    BY <1>1, <1>2, <1>3 DEF Requested, ValidRequest, PositionOf, ProgressOf, Base, Settled
  <1>5. DeviceTypes' /\ Sequencing' /\ Exchange'
    <2>1. CASE InitVertex
      <3>1. /\ pc = "init" /\ pc' = "while" /\ rwFlag' = 0 /\ ran' = ran
            /\ doneFlag' = doneFlag
        BY <2>1 DEF InitVertex
      <3>2. call.at = "none"
        BY <1>3, <3>1 DEF Sequencing
      <3>3. DeviceTypes'
        BY <1>1, <1>3, <3>1 DEF DeviceTypes
      <3>4. Sequencing'
        BY <1>1, <1>3, <3>1, <3>2 DEF Sequencing, Reading, Fetching, Storing
      <3> QED
        BY <1>1, <3>2, <3>3, <3>4 DEF Exchange, Storing
    <2>2. CASE RepeatWhileFalse
      <3>1. /\ pc = "while" /\ pc' = (IF doneFlag THEN "end" ELSE "rw") /\ ran' = {}
            /\ rwFlag' = rwFlag /\ doneFlag' = doneFlag
        BY <2>2 DEF RepeatWhileFalse
      <3>2. doneFlag \in BOOLEAN
        BY <1>3 DEF DeviceTypes
      <3>3. DeviceTypes'
        BY <1>1, <1>3, <3>1 DEF DeviceTypes
      <3>4. Sequencing'
        BY <1>1, <1>3, <3>1, <3>2 DEF Sequencing
      <3>5. Moved' = {}
        BY <3>1 DEF Moved
      <3>6. call.at \in Storing => Merged(call, dataBlock.items)'
        BY <1>1, <1>2, <1>3 DEF Exchange, Merged, Base
      <3> QED
        BY <1>1, <3>3, <3>4, <3>5, <3>6 DEF Exchange
    <2>3. CASE BodyVertex
      <3>1. /\ pc = "rw" /\ ran = Positions /\ pc' = "body" /\ ran' = ran
            /\ rwFlag' = rwFlag /\ doneFlag' = doneFlag
        BY <2>3 DEF BodyVertex
      <3>2. DeviceTypes'
        BY <1>1, <1>3, <3>1 DEF DeviceTypes
      <3>3. Sequencing'
        BY <1>1, <1>3, <3>1 DEF Sequencing
      <3>4. Moved' = Moved
        BY <3>1 DEF Moved
      <3>5. call.at \in Storing => Merged(call, dataBlock.items)'
        BY <1>1, <1>2, <1>3 DEF Exchange, Merged, Base
      <3>6. Base(call)' = Base(call)
        BY <1>1 DEF Base
      <3> QED
        BY <1>1, <1>2, <1>3, <3>2, <3>3, <3>4, <3>5, <3>6 DEF Exchange
    <2>4. CASE ProgramEnds
      <3>1. /\ pc = "body" /\ request = Idle /\ pc' = "while" /\ doneFlag' = TRUE
            /\ ran' = ran /\ rwFlag' = rwFlag
        BY <2>4 DEF ProgramEnds
      <3>2. call.at = "none"
        BY <1>3, <3>1 DEF Sequencing, DeviceTypes, CallType, Places, Reading, Fetching,
                          Storing, Idle
      <3>3. DeviceTypes'
        BY <1>1, <1>3, <3>1 DEF DeviceTypes
      <3>4. Sequencing'
        BY <1>1, <1>3, <3>1, <3>2 DEF Sequencing, Reading, Fetching, Storing
      <3> QED
        BY <1>1, <3>2, <3>3, <3>4 DEF Exchange, Storing
    <2> QED
      BY <2>1, <2>2, <2>3, <2>4
  <1> QED
    BY <1>1, <1>2, <1>4, <1>5, ContractStutters DEF DeviceInv

\* The file system calls.  The assumption is needed of writes.
LEMMA FileSystemStep ==
    ASSUME ~ShortHeads, DeviceInv, FileSystem
    PROVE  DeviceInv' /\ ContractStep
  <1>1. PICK addr \in 0 .. Size - 1, len \in 1 .. Size :
           \/ Calls("read", addr, len, <<>>)
           \/ /\ ReachesBlockEnd(addr, len)
              /\ \E data \in Contents(len) : Calls("write", addr, len, data)
    BY DEF FileSystem
  <1>2. Size \in Nat /\ MaxByte \in Nat
    BY ExchangeAssumption DEF Size
  <1>3. len \in Nat
    BY <1>2
  <1>4. PICK op \in {"read", "write"}, data \in Seq(Values) :
           /\ Calls(op, addr, len, data)
           /\ op = "write" => Len(data) = len /\ ReachesBlockEnd(addr, len)
    <2>1. CASE Calls("read", addr, len, <<>>)
      <3>1. <<>> \in Seq(Values)
        BY EmptySeq
      <3> QED
        BY <2>1, <3>1
    <2>2. CASE ReachesBlockEnd(addr, len) /\ \E data \in Contents(len) :
                  Calls("write", addr, len, data)
      <3>1. PICK data \in Contents(len) : Calls("write", addr, len, data)
        BY <2>2
      <3>2. PICK v \in Values : data = [i \in 1 .. len |-> (v + i) % (MaxByte + 1)]
        BY <3>1 DEF Contents
      <3>3. ASSUME NEW i \in 1 .. len PROVE (v + i) % (MaxByte + 1) \in Values
        <4>1. v + i \in Nat /\ MaxByte + 1 \in Nat \ {0}
          BY <1>2, <1>3, <3>3 DEF Values
        <4>2. (v + i) % (MaxByte + 1) \in 0 .. (MaxByte + 1) - 1
          BY <4>1, DivBounds
        <4> QED
          BY <1>2, <4>2 DEF Values
      <3>4. data \in [1 .. len -> Values]
        BY <3>2, <3>3
      <3>5. data \in Seq(Values) /\ Len(data) = len
        BY <1>3, <3>4, SeqDef, LenProperties
      <3> QED
        BY <2>2, <3>1, <3>5
    <2> QED
      BY <1>1, <2>1, <2>2
  <1> DEFINE r == [op |-> op, addr |-> addr, len |-> len, data |-> data]
  <1>5. /\ pc = "body" /\ pc' = "body" /\ request = Idle /\ addr + len <= Size
        /\ request' = r /\ reply' = <<>> /\ ran' = ran /\ doneFlag' = doneFlag
        /\ disk' = disk /\ dataBlock' = dataBlock /\ rwFlag' = rwFlag /\ diskPos' = diskPos
        /\ call' = call
    BY <1>4 DEF Calls, Python
  <1>6. /\ r \in [op: {"read", "write"}, addr: 0 .. Size - 1, len: 1 .. Size,
                  data: Seq(Values)]
        /\ r.op = op /\ r.addr = addr /\ r.len = len /\ r.data = data
    OBVIOUS
  <1> HIDE DEF r
  <1>7. ValidRequest(r)
    BY <1>4, <1>5, <1>6 DEF ValidRequest
  <1>8. call.at = "none"
    BY <1>5 DEF DeviceInv, Sequencing, DeviceTypes, CallType, Places, Reading, Fetching,
                Storing, Idle
  <1>9. DeviceTypes' /\ Requested'
    BY <1>5, <1>7 DEF DeviceInv, DeviceTypes, Requested
  <1>10. Sequencing'
    BY <1>5, <1>8 DEF DeviceInv, Sequencing, Reading, Fetching, Storing
  <1>11. PositionOf(call)' /\ ProgressOf(call)' /\ Exchange'
    BY <1>5, <1>8 DEF PositionOf, ProgressOf, Exchange, Reading, Fetching, Storing, Heads,
                      Loops, Tails
  <1>12. Bytes' = Bytes
    BY <1>5 DEF Bytes
  <1>13. r \in Contract!Requests
    BY <1>5, <1>6 DEF Contract!Requests, Contract!Addresses
  <1>14. Contract!Call
    BY <1>5, <1>12, <1>13 DEF Contract!Call, Contract!Idle, Idle
  <1> QED
    BY <1>9, <1>10, <1>11, <1>14 DEF DeviceInv, ContractStep

LEMMA InitDevice == Init => DeviceInv /\ Contract!Init
  <1> SUFFICES ASSUME Init PROVE DeviceInv /\ Contract!Init
    OBVIOUS
  <1>1. /\ pc = "init" /\ ran = {} /\ disk \in [Positions -> [Blocks -> Values]]
        /\ rwFlag \in {1, 0, -1} /\ diskPos = 0 /\ doneFlag \in BOOLEAN
        /\ call = NoCall /\ request = Idle /\ reply = <<>>
    BY DEF Init, READ, WRITE
  <1>2. BlockSize \in Nat \ {0} /\ NumBlocks \in Nat \ {0} /\ MaxByte \in Nat
    BY ExchangeAssumption
  <1>3. dataBlock \in [items: [1 .. BlockSize -> Values], len: {BlockSize}]
    <2> DEFINE s == [i \in 1 .. BlockSize |-> 0]
    <2>1. s \in [1 .. BlockSize -> Values]
      BY <1>2 DEF Values
    <2>2. Len(s) = BlockSize
      <3> HIDE DEF s
      <3>1. s \in Seq(Values)
        BY <1>2, <2>1, SeqDef
      <3> QED
        BY <1>2, <2>1, <3>1, LenProperties
    <2>3. dataBlock = [items |-> s, len |-> Len(s)]
      BY DEF Init, ArrayOf
    <2> HIDE DEF s
    <2> QED
      BY <2>1, <2>2, <2>3
  <1>4. NoCall \in CallType /\ NoCall.at = "none"
    <2>1. <<>> \in Seq(BufferBytes) /\ Len(<<>>) = 0
      BY EmptySeq
    <2> QED
      BY <2>1 DEF NoCall, ArrayOf, CallType, Places, Arrays
  <1>5. DeviceTypes
    BY <1>1, <1>2, <1>3, <1>4 DEF DeviceTypes, Blocks
  <1>6. Requested /\ Sequencing
    BY <1>1, <1>4 DEF Requested, Sequencing, Reading, Fetching, Storing
  <1>7. PositionOf(call) /\ ProgressOf(call) /\ Exchange
    BY <1>1, <1>4 DEF PositionOf, ProgressOf, Exchange, Reading, Fetching, Storing, Heads,
                      Loops, Tails
  <1>8. Contract!Init
    BY <1>1, <1>5, BytesType DEF Contract!Init, Contract!Addresses, Contract!Idle, Idle
  <1> QED
    BY <1>5, <1>6, <1>7, <1>8 DEF DeviceInv

\* A step keeps the invariant and is a step of the abstract device or none.
LEMMA DeviceStep ==
    ASSUME ~ShortHeads, DeviceInv, [Next]_vars
    PROVE  DeviceInv' /\ ContractStep
  <1>1. CASE UNCHANGED vars
    <2>1. /\ pc' = pc /\ ran' = ran /\ doneFlag' = doneFlag /\ disk' = disk
          /\ dataBlock' = dataBlock /\ rwFlag' = rwFlag /\ diskPos' = diskPos
          /\ call' = call /\ request' = request /\ reply' = reply
      BY <1>1 DEF vars, control
    <2>2. Bytes' = Bytes
      BY <2>1 DEF Bytes
    <2>3. DeviceTypes' /\ Requested' /\ Sequencing'
      BY <2>1 DEF DeviceInv, DeviceTypes, Requested, ValidRequest, Sequencing
    <2>4. PositionOf(call)' /\ ProgressOf(call)'
      BY <2>1, <2>2 DEF DeviceInv, PositionOf, ProgressOf, Base, Settled
    <2>5. Exchange'
      BY <2>1, <2>2 DEF DeviceInv, Exchange, Merged, Moved, Base
    <2> QED
      BY <2>1, <2>2, <2>3, <2>4, <2>5, ContractStutters DEF DeviceInv
  <1>2. CASE Methods
    BY <1>2, ReadBlocksStep, ReadHeadStep, ReadLoopStep, ReadTailStep, WriteBlocksStep,
       WriteHeadStep, WriteHeadDoneStep, WriteLoopStep, WriteTailStep, WriteTailDoneStep
       DEF Methods
  <1>3. CASE \E i \in Positions : ReadWriteVertex(i)
    BY <1>3, ReadWriteVertexStep
  <1>4. CASE InitVertex \/ RepeatWhileFalse \/ BodyVertex \/ ProgramEnds
    BY <1>4, ControlStep
  <1>5. CASE FileSystem
    BY <1>5, FileSystemStep
  <1> QED
    BY <1>1, <1>2, <1>3, <1>4, <1>5 DEF Next, Device, Terminated
---------------------------------------------------------------------------
(***************************************************************************)
(* The theorems.                                                           *)
(***************************************************************************)
\* DeviceInv holds in every state: whatever block is being moved, the block on
\* tile 0, the storage tiles and the caller's buffer agree on the bytes that have
\* been moved so far.
THEOREM DeviceInvariant ==
    ASSUME ~ShortHeads
    PROVE  Spec => []DeviceInv
  <1>1. DeviceInv /\ [Next]_vars => DeviceInv'
    BY DeviceStep
  <1> QED
    BY <1>1, InitDevice, PTL DEF Spec

\* Tensors and locals of readblocks and writeblocks keep their types: no position
\* outside the disk is ever exchanged, and no slice leaves the block or the buffer.
THEOREM DeviceTypeCorrect ==
    ASSUME ~ShortHeads
    PROVE  Spec => []TypeOK
  <1>1. ASSUME DeviceInv PROVE TypeOK
    <2>1. /\ pc \in {"init", "while", "rw", "body", "end"} /\ ran \subseteq Positions
          /\ disk \in [Positions -> [Blocks -> Values]]
          /\ dataBlock \in [items: [1 .. BlockSize -> Values], len: {BlockSize}]
          /\ rwFlag \in {1, 0, -1} /\ diskPos \in Blocks /\ doneFlag \in BOOLEAN
          /\ call \in CallType
      BY <1>1 DEF DeviceInv, DeviceTypes
    <2>2. dataBlock.items \in [1 .. BlockSize -> Values] /\ dataBlock.len \in 0 .. BlockSize
      BY <2>1, ExchangeAssumption
    <2>3. Size \in Nat /\ BlockSize \in Nat \ {0}
      BY ExchangeAssumption DEF Size
    <2>4. call.head \in 0 .. Size
      <3>1. call.head \in Nat
        BY <2>1 DEF CallType
      <3>2. CASE call.at = "none"
        <4>1. call.head = 0
          BY <1>1, <3>2 DEF DeviceInv, Sequencing, NoCall
        <4> QED
          BY <2>3, <4>1
      <3>3. CASE call.at # "none"
        <4>1. call.at \in Reading \cup Fetching \cup Storing
          BY <2>1, <3>3 DEF CallType, Places, Reading, Fetching, Storing
        <4>2. request.op \in {"read", "write"}
          BY <1>1, <4>1 DEF DeviceInv, Sequencing
        <4>3. request.len \in Nat /\ request.addr \in Nat /\ request.addr + request.len <= Size
          BY <1>1, <4>2, RequestNumbers
        <4>4. call.head <= request.len
          <5>1. PositionOf(call)
            BY <1>1 DEF DeviceInv
          <5>2. call.at \in {"readHead", "writeHead"} => call.head = 0
            BY <5>1 DEF PositionOf
          <5>3. call.at = "writeHeadDone" => call.head <= request.len
            BY <5>1 DEF PositionOf
          <5>4. call.at \in Loops => call.head + BlockSize <= request.len
            BY <5>1 DEF PositionOf
          <5>5. call.at \in Tails => call.head < request.len
            BY <5>1 DEF PositionOf
          <5> QED
            BY <2>3, <3>1, <4>1, <4>3, <5>2, <5>3, <5>4, <5>5
            DEF Reading, Fetching, Storing, Loops, Tails
        <4> QED
          BY <2>3, <3>1, <4>3, <4>4
      <3> QED
        BY <3>2, <3>3
    <2>5. call.at \in Places
      BY <2>1 DEF CallType
    <2> QED
      BY <2>1, <2>2, <2>4, <2>5 DEF TypeOK, READ, WRITE, Places
  <1> QED
    BY <1>1, DeviceInvariant, PTL

\* No call leaves dataBlock shortened for the next one: the slices assigned to it
\* have the length of what they replace.
THEOREM BlockStaysWhole ==
    ASSUME ~ShortHeads
    PROVE  Spec => []BlockIsWhole
  <1>1. DeviceInv => BlockIsWhole
    BY DEF DeviceInv, DeviceTypes, BlockIsWhole
  <1> QED
    BY <1>1, DeviceInvariant, PTL

\* The device of example 6 takes only the steps of BlockDevice: a read answers what
\* the device holds, a write changes the bytes it covers and returns when all of them
\* are there, although every block takes an exchange with all the storage tiles and
\* the first and the last block are read before they are rewritten whole.
THEOREM RefinesBlockDevice ==
    ASSUME ~ShortHeads
    PROVE  Spec => ContractSafety
  <1>1. Init => Contract!Init
    BY InitDevice
  <1>2. DeviceInv /\ [Next]_vars => [Contract!Call \/ Contract!Serve]_(Contract!vars)
    BY DeviceStep DEF ContractStep
  <1> QED
    BY <1>1, <1>2, DeviceInvariant, PTL DEF Spec, ContractSafety

\* "Only the bytes being written should be changed" (MicroPython's documentation of
\* writeblocks): true when every write reaches the end of the block it starts inside.
THEOREM OthersAreUntouched ==
    ASSUME ~ShortHeads
    PROVE  Spec => OnlyWrittenBytesChange
  <1> DEFINE Untouched == \A a \in 0 .. Size - 1 : Bytes'[a] # Bytes[a] =>
                 request.op = "write" /\ a \in request.addr .. request.addr + request.len - 1
  <1>1. ASSUME DeviceInv, [Next]_vars PROVE Untouched
    <2>1. ContractStep
      BY <1>1, DeviceStep
    <2>2. CASE Bytes' = Bytes
      BY <2>2
    <2>3. CASE \E a \in Contract!Addresses : Contract!Store(a)
      <3>1. PICK b \in Contract!Addresses : Contract!Store(b)
        BY <2>3
      <3>2. /\ request.op = "write" /\ b \in request.addr .. request.addr + request.len - 1
            /\ Bytes' = [Bytes EXCEPT ![b] = request.data[b - request.addr + 1]]
        BY <3>1 DEF Contract!Store, Contract!Covered
      <3>3. Bytes \in [0 .. Size - 1 -> Values]
        BY <1>1, BytesType DEF DeviceInv
      <3>4. \A a \in 0 .. Size - 1 : a # b => Bytes'[a] = Bytes[a]
        BY <3>2, <3>3
      <3> QED
        BY <3>2, <3>4
    <2> QED
      BY <2>1, <2>2, <2>3 DEF ContractStep, Contract!vars, Contract!Call, Contract!Serve,
                              Contract!AnswerRead, Contract!AnswerWrite
  <1>2. DeviceInv /\ [Next]_vars => [Untouched]_vars
    BY <1>1
  <1> QED
    BY <1>2, DeviceInvariant, PTL DEF Spec, OnlyWrittenBytesChange
=============================================================================
