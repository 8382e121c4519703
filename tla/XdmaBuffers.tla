---------------------------- MODULE XdmaBuffers ----------------------------
(***************************************************************************)
(* The buffers between the program and the XDMA character devices: the     *)
(* pool, the claim of the next buffer, a read and the search for a header  *)
(* in it, the write at the release.  Sources:                              *)
(* src/core/xdma_zero_copy.cpp (xdma_zero_copy_mrb, _msb, construction),   *)
(* include/sdr/core/zero_copy.hpp (managed_buffer, simple_claimer),        *)
(* src/core/zero_copy.cpp (buffer_pool).                                   *)
(*                                                                         *)
(* Data is counted in slots of 16 bytes; slot k of packet p is [p, k], its *)
(* header is k = 0 and names its length n.  Samples never look like a      *)
(* header.  Receiving and sending share nothing: a behaviour does one.     *)
(***************************************************************************)
EXTENDS Integers, Sequences, SequencesExt

CONSTANTS
    NumFrames,         \* buffers of a pool
    MaxSlots,       \* packet_bytes / 16, the longest packet
    Stride,         \* packet_stride / 16, what a read asks for
    Lengths,        \* lengths of packets on the wire, also impossible ones
    MaxTransfers    \* bound: reads, buffers sent

BuffersParameters ==
    /\ NumFrames \in Nat \ {0} /\ MaxSlots \in Nat \ {0} /\ Stride \in Nat
    /\ Stride >= MaxSlots /\ Lengths \subseteq Nat \ {0} /\ MaxTransfers \in Nat

VARIABLES
    memory,         \* the slots of every receive buffer
    claimed,        \* simple_claimer::_locked of every buffer
    next,           \* _next_recv_buff_index or _next_send_buff_index
    held,           \* received buffers the program has: buffer, length, what it was given
    reads,          \* bound: reads so far
    queue,          \* filled send buffers, oldest first: number and length
    writing,        \* slots of the oldest that are written
    onWire,         \* what the device has been given
    sends           \* sends so far: what was committed, how much of it was written

bufferVars == <<memory, claimed, next, held, reads, queue, writing, onWire, sends>>
recvOnly == <<queue, writing, onWire, sends>>
sendOnly == <<memory, held, reads>>

Slot(p, k, n) == [p |-> p, k |-> k, n |-> n]
Packet(p, n) == [k \in 1..n |-> Slot(p, k - 1, n)]
Unused == Slot(0, 1, 1)

BuffersInit ==
    /\ memory = [b \in 1..NumFrames |-> [k \in 1..Stride |-> Unused]]
    /\ claimed = [b \in 1..NumFrames |-> FALSE]
    /\ next = 1 /\ held = {} /\ reads = 0
    /\ queue = <<>> /\ writing = 0 /\ onWire = <<>> /\ sends = <<>>

\* The index starts over when it is used again.
NextIndex == IF next > NumFrames THEN 1 ELSE next

\* Mutant: the flag is set whatever it is.
ClaimAnyway(b) == TRUE
\* claim_with_wait: the flag is seen clear before the timeout.
Claimable(b) == ~claimed[b]

\* Mutant: nobody checks the length.
MagicOnly(s) == s.p > 0 /\ s.k = 0
\* header_is_valid: a known magic, a length that a packet can have.
HeaderValid(s) == s.p > 0 /\ s.k = 0 /\ s.n <= MaxSlots

\* find_valid_header: the first slot that is one, or Len(data).
FindHeader(data) ==
    LET valid == {k \in DOMAIN data: HeaderValid(data[k])}
    IN  IF valid = {} THEN Len(data) ELSE (CHOOSE k \in valid: \A j \in valid: k <= j) - 1

\* Mutant: the length is the header's, however much was read.
HeadersLength(n, total) == n
\* Not more than what was read.
DeliveredLength(n, total) == IF n < total THEN n ELSE total

\* The data of a read: slots of the packets on the wire; it may begin inside a packet,
\* end before one does, hold more than one, or be too short for a header.
WireData ==
    LET Wire(n1, n2) == Packet(2 * reads + 1, n1) \o Packet(2 * reads + 2, n2) IN
    UNION {{SubSeq(Wire(n[1], n[2]), from, to): from \in 1..n[1], to \in 0..n[1] + n[2]}: n \in Lengths \X Lengths}

\* Mutant: a read without a header keeps the buffer.
StaysClaimed(data) == TRUE
\* make_filled: without a header there is no packet, and the buffer is released.
Delivers(data) == FindHeader(data) < Len(data)

\* get_new of the next buffer: the claim, the read, the search, the move.
RecvBuff(data) ==
    LET b == NextIndex
        offset == FindHeader(data)
        total == Len(data) - offset
        filled == [k \in 1..Stride |-> IF k <= Len(data) THEN data[k] ELSE memory[b][k]]
        moved == [k \in 1..Stride |-> IF k <= total THEN filled[k + offset] ELSE filled[k]]
        length == DeliveredLength(moved[1].n, total)
    IN  /\ sends = <<>> /\ reads < MaxTransfers /\ Claimable(b) /\ Len(data) <= Stride
        /\ reads' = reads + 1 /\ next' = b + 1
        /\ memory' = [memory EXCEPT ![b] = IF Delivers(data) THEN moved ELSE filled]
        /\ claimed' = [claimed EXCEPT ![b] = Delivers(data)]
        /\ held' = IF FindHeader(data) = Len(data) THEN held
                   ELSE held \cup {[buff |-> b, given |-> SubSeq(moved, 1, length)]}
        /\ UNCHANGED recvOnly

\* The read or the ring's ioctl fails: the buffer is released, the index has moved.
RecvFails ==
    /\ sends = <<>> /\ reads < MaxTransfers /\ Claimable(NextIndex)
    /\ reads' = reads + 1 /\ next' = NextIndex + 1
    /\ UNCHANGED <<memory, claimed, held, recvOnly>>

\* The last reference goes: release_ref.
ReleaseRecv(h) ==
    /\ held' = held \ {h} /\ claimed' = [claimed EXCEPT ![h.buff] = FALSE]
    /\ UNCHANGED <<memory, next, reads, recvOnly>>

\* get_send_buff, the program's packet, commit; the buffer is queued for the worker.
SendBuff(n) ==
    /\ reads = 0 /\ Len(sends) < MaxTransfers /\ Claimable(NextIndex)
    /\ claimed' = [claimed EXCEPT ![NextIndex] = TRUE] /\ next' = NextIndex + 1
    /\ sends' = Append(sends, [data |-> Packet(Len(sends) + 1, n), written |-> n])
    /\ queue' = Append(queue, [buff |-> NextIndex, send |-> Len(sends) + 1])
    /\ UNCHANGED <<writing, onWire, sendOnly>>

\* Mutant: a short write is taken for the whole.
OneWrite(n, total) == TRUE
\* write_retry goes on until all is written.
AllWritten(n, total) == n = total

Oldest == sends[Head(queue).send]
\* release(): write() takes some of the rest.
WriteSome(n) ==
    /\ queue # <<>> /\ writing < Len(Oldest.data) /\ writing + n <= Len(Oldest.data)
    /\ onWire' = onWire \o SubSeq(Oldest.data, writing + 1, writing + n)
    /\ IF AllWritten(writing + n, Len(Oldest.data))
       THEN /\ writing' = 0 /\ queue' = Tail(queue)
            /\ claimed' = [claimed EXCEPT ![Head(queue).buff] = FALSE]
       ELSE writing' = writing + n /\ UNCHANGED <<queue, claimed>>
    /\ UNCHANGED <<next, sends, sendOnly>>
\* It fails or takes nothing: the rest is lost, the buffer is free, nobody is told.
WriteFails ==
    /\ queue # <<>>
    /\ sends' = [sends EXCEPT ![Head(queue).send].written = writing]
    /\ writing' = 0 /\ queue' = Tail(queue)
    /\ claimed' = [claimed EXCEPT ![Head(queue).buff] = FALSE]
    /\ UNCHANGED <<next, onWire, sendOnly>>

BuffersNext ==
    \/ \E data \in WireData: RecvBuff(data)
    \/ RecvFails
    \/ \E h \in held: ReleaseRecv(h)
    \/ \E n \in Lengths: n <= MaxSlots /\ SendBuff(n)
    \/ \E n \in 1..MaxSlots: WriteSome(n)
    \/ WriteFails

-----------------------------------------------------------------------------
(* properties *)

BuffersTypeOK ==
    /\ DOMAIN memory = 1..NumFrames /\ claimed \in [1..NumFrames -> BOOLEAN]
    /\ next \in 1..NumFrames + 1 /\ reads \in 0..MaxTransfers /\ writing \in 0..MaxSlots
    /\ \A h \in held: h.buff \in 1..NumFrames
    /\ Len(queue) <= NumFrames /\ Len(sends) <= MaxTransfers

\* A received buffer holds one packet from its header on, or the beginning of it, and
\* keeps it until it is released, whatever is read meanwhile
\* (xdma_zero_copy.cpp:238, 259; zero_copy.hpp:192).
HeldArePackets ==
    \A h \in held:
        /\ h.given = SubSeq(memory[h.buff], 1, Len(h.given))
        /\ h.given = SubSeq(Packet(h.given[1].p, h.given[1].n), 1, Len(h.given))
        /\ h.given[1].n <= MaxSlots

\* Every buffer the program does not have, or that is not on its way to the device, can
\* be claimed: no way out of a read keeps one (xdma_zero_copy.cpp:231, 253, 301).
OnlyHeldAreClaimed ==
    \A b \in 1..NumFrames:
        claimed[b] <=> \/ \E h \in held: h.buff = b
                       \/ \E k \in DOMAIN queue: queue[k].buff = b

\* The device gets what was committed, send after send; what a failed write leaves out
\* is the end of one send (xdma_zero_copy.cpp:107, 339).
WireIsCommitted ==
    LET Done(k) == IF \E j \in DOMAIN queue: queue[j].send = k
                   THEN IF Head(queue).send = k THEN writing ELSE 0 ELSE sends[k].written
    IN  onWire = FlattenSeq([k \in DOMAIN sends |-> SubSeq(sends[k].data, 1, Done(k))])

\* The buffers of a pool are aligned, do not overlap and lie in its memory, wherever
\* that begins; a read fits its buffer (zero_copy.cpp:9, 33; xdma_zero_copy.cpp:370).
Width == 64
\* Mutant: the boundary before.
PadBack(bytes, alignment) == bytes - (bytes % alignment)
\* pad_to_boundary, in the width of size_t
PadToBoundary(bytes, alignment) ==
    bytes + (((alignment - bytes) % Width) % alignment)
PoolFits ==
    \A alignment \in {2, 4}, buffs \in 1..3, size \in 1..6, mem \in 0..8:
        LET padded == PadToBoundary(size, alignment)
            ptr(i) == PadToBoundary(mem, alignment) + padded * i
        IN  \A i \in 0..buffs - 1:
              /\ ptr(i) % alignment = 0
              /\ ptr(i) + size <= mem + padded * buffs + alignment - 1
              /\ \A j \in 0..buffs - 1: i < j => ptr(i) + size <= ptr(j)
=============================================================================
