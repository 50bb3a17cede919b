---------------------------- MODULE BlockDevice ----------------------------
(***************************************************************************)
(* A block device as its user, a file system, sees it: an array of bytes   *)
(* read and written at any place and in any length.  A read answers what   *)
(* the device holds; a write changes the bytes it covers, in any order,    *)
(* and no other.  TensorBlockDevice, the RAM disk of example 4, does just  *)
(* this, byte by byte.                                                     *)
(***************************************************************************)
EXTENDS Naturals, Sequences

CONSTANTS
    Size,      \* bytes of the device
    Values     \* what a byte can be

VARIABLES
    bytes,     \* what the device holds
    request,   \* the call being served
    reply      \* the caller's buffer, as the last call left it

vars == <<bytes, request, reply>>

Addresses == 0 .. Size - 1
Idle == [op |-> "none", addr |-> 0, len |-> 0, data |-> <<>>]

Covered(r) == r.addr .. r.addr + r.len - 1

Init == bytes \in [Addresses -> Values] /\ request = Idle /\ reply = <<>>

Requests ==
    {r \in [op: {"read", "write"}, addr: Addresses, len: 1 .. Size, data: Seq(Values)] :
        r.addr + r.len <= Size}

\* readblocks or writeblocks is called.
Call ==
    /\ request = Idle
    /\ request' \in Requests
    /\ reply' = <<>>
    /\ UNCHANGED bytes

Store(a) ==
    /\ request.op = "write" /\ a \in Covered(request)
    /\ bytes' = [bytes EXCEPT ![a] = request.data[a - request.addr + 1]]
    /\ UNCHANGED <<request, reply>>

AnswerRead ==
    /\ request.op = "read"
    /\ reply' = [i \in 1 .. request.len |-> bytes[request.addr + i - 1]]
    /\ request' = Idle
    /\ UNCHANGED bytes

AnswerWrite ==
    /\ request.op = "write"
    /\ \A a \in Covered(request) : bytes[a] = request.data[a - request.addr + 1]
    /\ reply' = request.data
    /\ request' = Idle
    /\ UNCHANGED bytes

Serve == AnswerRead \/ AnswerWrite \/ \E a \in Addresses : Store(a)

\* A call does not stay unanswered.
Spec == Init /\ [][Call \/ Serve]_vars /\ WF_vars(Serve)
=============================================================================
