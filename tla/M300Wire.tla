------------------------------ MODULE M300Wire ------------------------------
(***************************************************************************)
(* What goes over the PCIe channels of an M300: headers, command and       *)
(* response packets, and the samples, packed and unpacked four at a time   *)
(* by a CPU with AVX2 and one at a time for the rest.  Sources:            *)
(* src/driver/M300/m300_xdma_protocol.hpp,                                 *)
(* src/driver/M300/m300_tx_streamer.cpp (pack_iq, fill_packet),            *)
(* src/driver/M300/m300_rx_streamer.cpp (copy_samples, its dual form), and for*)
(* the E-series copy_standard_iq_to_e100_qi_cs16 of                        *)
(* src/driver/transport/super_send_packet_handler.hpp.                     *)
(*                                                                         *)
(* A byte has few values; a 32-bit word of samples is its two signed       *)
(* halves; the float v / FullScale is the integer v, never a NaN.          *)
(***************************************************************************)
EXTENDS Integers, Sequences, SequencesExt

CONSTANTS
    Byte,           \* values of a byte (2^8)
    FullScale,      \* the float 1.0
    Room,           \* samples per channel that fit a packet, a multiple of four
    MaxPackets,     \* bound: packets filled or received
    MaxPieces       \* bound: pieces taken of a packet

WireParameters ==
    /\ Byte \in Nat \ {0, 1} /\ FullScale \in Nat \ {0}
    /\ Room \in Nat /\ Room % 4 = 0 /\ 16 + 8 * Room < Byte ^ 3 /\ MaxPackets \in Nat /\ MaxPieces \in Nat

VARIABLES
    avx2,           \* the CPU has AVX2
    outgoing,       \* the words of a send buffer, used again and again
    packet,         \* what fill_packet was asked for last
    arrived,        \* the received payload and how much of it is taken
    taken,          \* the samples given to the caller, for each of its buffers
    turn            \* bound: packets so far

wireVars == <<avx2, outgoing, packet, arrived, taken, turn>>

Formats == {"FLOAT32", "INT16"}

-----------------------------------------------------------------------------
(* headers and control packets, little endian *)

LoadLe(bytes) == FoldRight(LAMBDA b, rest: b + Byte * rest, bytes, 0)
StoreLe(value, size) == [k \in 1..size |-> (value \div Byte ^ (k - 1)) % Byte]
\* The size bytes at an offset.
At(bytes, offset, size) == SubSeq(bytes, offset + 1, offset + size)

\* Mutant: sid has no byte of its own.
HeaderWithoutSid(h) ==
    StoreLe(h.magic * Byte ^ 6 + h.seq * Byte ^ 4 + (h.length % Byte ^ 4), 8)
\* magic, seq and sid above the low 24 bits of length, in one 64-bit word.
WriteHeader(h) ==
    StoreLe(h.magic * Byte ^ 6 + h.seq * Byte ^ 4 + h.sid * Byte ^ 3 + (h.length % Byte ^ 3), 8)
ParseHeader(bytes) ==
    LET raw == LoadLe(At(bytes, 0, 8)) IN
    [length |-> raw % Byte ^ 3, sid |-> (raw \div Byte ^ 3) % Byte,
     seq |-> (raw \div Byte ^ 4) % Byte ^ 2, magic |-> (raw \div Byte ^ 6) % Byte ^ 2]

WriteCtrl(p) ==
    WriteHeader(p.hdr) \o StoreLe(p.timestamp, 8) \o StoreLe(p.cmd, 2)
        \o <<p.flags, p.target>> \o StoreLe(p.arg0, 4) \o StoreLe(p.arg1, 4) \o StoreLe(p.arg2, 4)
ParseCtrl(bytes) ==
    [hdr |-> ParseHeader(bytes), timestamp |-> LoadLe(At(bytes, 8, 8)),
     cmd |-> LoadLe(At(bytes, 16, 2)), flags |-> bytes[19], target |-> bytes[20],
     arg0 |-> LoadLe(At(bytes, 20, 4)), arg1 |-> LoadLe(At(bytes, 24, 4)),
     arg2 |-> LoadLe(At(bytes, 28, 4))]
WriteResp(p) ==
    WriteHeader(p.hdr) \o StoreLe(p.timestamp, 8) \o StoreLe(p.cmd, 2) \o StoreLe(p.status, 2)
        \o StoreLe(p.value0, 4) \o StoreLe(p.value1, 4) \o StoreLe(p.value2, 4)
ParseResp(bytes) ==
    [hdr |-> ParseHeader(bytes), timestamp |-> LoadLe(At(bytes, 8, 8)),
     cmd |-> LoadLe(At(bytes, 16, 2)), status |-> LoadLe(At(bytes, 18, 2)),
     value0 |-> LoadLe(At(bytes, 20, 4)), value1 |-> LoadLe(At(bytes, 24, 4)),
     value2 |-> LoadLe(At(bytes, 28, 4))]

-----------------------------------------------------------------------------
(* one sample: floats to 16 bits, I and Q to their halves of the word *)

\* Division as the code's conversions do it: towards zero, and to the nearest.
Truncated(a, b) == IF a >= 0 THEN a \div b ELSE -((-a) \div b)
Rounded(a, b) == IF a >= 0 THEN (2 * a + b) \div (2 * b) ELSE -((2 * (-a) + b) \div (2 * b))
Clamp(v) == IF v > FullScale THEN FullScale ELSE IF v < -FullScale THEN -FullScale ELSE v

FloatToI16(v) ==
    IF v >= FullScale THEN 32767
    ELSE IF v <= -FullScale THEN -32767 ELSE Truncated(32767 * v, FullScale)
\* Mutant: the vector conversion does not clamp, its saturation is -32768.
Unclamped(v) ==
    LET n == Truncated(32767 * v, FullScale) IN
    IF n > 32767 THEN 32767 ELSE IF n < -32768 THEN -32768 ELSE n
\* The vector conversion clamps first.
VectorToI16(v) == Truncated(32767 * Clamp(v), FullScale)
\* The E-series streams round.
UdpToI16(v) == Rounded(32767 * Clamp(v), FullScale)

Convert(format, v) == IF format = "FLOAT32" THEN FloatToI16(v) ELSE v
\* custom_tx_upack takes I from the high half.
PackIq(i, q) == [low |-> q, high |-> i]
\* copy_standard_iq_to_e100_qi_cs16: Q goes out first.
UdpPair(format, s) ==
    IF format = "FLOAT32" THEN <<UdpToI16(s.q), UdpToI16(s.i)>> ELSE <<s.q, s.i>>

-----------------------------------------------------------------------------
(* four samples at once: 128-bit registers of four words *)

UnpackLo32(a, b) == <<a[1], b[1], a[2], b[2]>>
UnpackHi32(a, b) == <<a[3], b[3], a[4], b[4]>>
UnpackLo64(a, b) == <<a[1], a[2], b[1], b[2]>>
Shuffle(a, lanes) == [k \in 1..4 |-> a[lanes[k] + 1]]

\* Mutant: the halves stay in the order of the input.
NotSwapped(s) ==
    [k \in 1..4 |-> [low |-> VectorToI16(s[k].i), high |-> VectorToI16(s[k].q)]]
\* pack_four_cf32: convert, narrow, swap the halves of every word.
PackFour(s) == [k \in 1..4 |-> [low |-> VectorToI16(s[k].q), high |-> VectorToI16(s[k].i)]]

\* The words of samples first .. first + 3 of the caller's buffers.
PackGroup(buffs, first) ==
    LET packed == [c \in DOMAIN buffs |-> PackFour(SubSeq(buffs[c], first, first + 3))] IN
    IF Len(buffs) = 2
    THEN UnpackLo32(packed[1], packed[2]) \o UnpackHi32(packed[1], packed[2])
    ELSE packed[1]

\* Of the eight words of four samples of two channels, those of each channel.
DemuxGroup(words) ==
    LET input01 == SubSeq(words, 1, 4)
        input23 == SubSeq(words, 5, 8)
    IN  <<UnpackLo64(Shuffle(input01, <<0, 2, 0, 2>>), Shuffle(input23, <<0, 2, 0, 2>>)),
          UnpackLo64(Shuffle(input01, <<1, 3, 1, 3>>), Shuffle(input23, <<1, 3, 1, 3>>))>>

\* The samples the vector code takes: whole groups of four.
VectorSamples(count) == IF avx2 THEN count - (count % 4) ELSE 0

-----------------------------------------------------------------------------
(* the caller's samples and the FPGA's words: a different one at each place *)

Value(format, k) ==
    LET level == ((7 * turn + k) % (2 * FullScale + 3)) - FullScale - 1
    IN  IF format = "FLOAT32" THEN level ELSE 700 * level
CallersBuffers(channels, format) ==
    [c \in 1..channels |-> [s \in 1..2 * Room |->
        [i |-> Value(format, 4 * s + 2 * c), q |-> Value(format, 4 * s + 2 * c + 1)]]]
FpgasWords == [k \in 1..2 * Room |-> [low |-> Value("INT16", 2 * k), high |-> Value("INT16", 2 * k + 1)]]

WireInit ==
    /\ avx2 \in BOOLEAN
    /\ outgoing = [k \in 1..2 * Room |-> [low |-> 1, high |-> 1]]
    /\ packet = [hdr |-> <<>>, channels |-> 1, count |-> 0, words |-> 0, expected |-> <<>>]
    /\ arrived = [words |-> <<>>, offset |-> 0, pieces |-> 0]
    /\ taken = <<<<>>, <<>>>>
    /\ turn = 0

\* Samples fill whole AXI words of four.
AlignUp(value, alignment) == ((value + alignment - 1) \div alignment) * alignment

\* Mutant: the padding is taken to be clear already.
PaddingKept(k) == outgoing[k]
\* Only the padding is cleared, not the packet.
Padding(k) == [low |-> 0, high |-> 0]

\* fill_packet: the groups of four, the rest sample by sample, the padding.  Sending
\* and receiving share nothing: a behaviour does one of them.
FillPacket(channels, format, offset, count) ==
    LET padded == AlignUp(count, 4 \div channels)
        buffs == CallersBuffers(channels, format)
        vector == IF format = "FLOAT32" THEN VectorSamples(count) ELSE 0
        Of(k) == buffs[((k - 1) % channels) + 1][offset + (k - 1) \div channels + 1]
        Grouped(k) ==
            LET group == (k - 1) \div (4 * channels)
            IN  PackGroup(buffs, offset + 4 * group + 1)[((k - 1) % (4 * channels)) + 1]
        Single(k) == PackIq(Convert(format, Of(k).i), Convert(format, Of(k).q))
    IN  /\ arrived.words = <<>> /\ turn < MaxPackets /\ turn' = turn + 1
        /\ outgoing' = [k \in DOMAIN outgoing |->
             IF k <= vector * channels THEN Grouped(k)
             ELSE IF k <= count * channels THEN Single(k)
             ELSE IF k <= padded * channels THEN Padding(k) ELSE outgoing[k]]
        /\ packet' = [hdr |-> WriteHeader([magic |-> 4, seq |-> turn, sid |-> 0,
                                           length |-> 16 + 4 * padded * channels]),
                      channels |-> channels, count |-> count, words |-> padded * channels,
                      expected |-> [c \in 1..channels |->
                        [s \in 1..count |-> [i |-> Convert(format, buffs[c][offset + s].i),
                                             q |-> Convert(format, buffs[c][offset + s].q)]]]]
        /\ UNCHANGED <<avx2, arrived, taken>>

\* load_next_packet: a payload, nothing of it taken.
LoadPacket ==
    /\ packet.words = 0 /\ turn < MaxPackets /\ turn' = turn + 1
    /\ arrived' = [words |-> FpgasWords, offset |-> 0, pieces |-> 0]
    /\ taken' = <<<<>>, <<>>>>
    /\ UNCHANGED <<avx2, outgoing, packet>>

\* A received word: I in the low half; a float is a fraction of 32768.
Received(format, w) ==
    [i |-> w.low, q |-> w.high, of |-> IF format = "FLOAT32" THEN 32768 ELSE 1]

\* Mutant: the vector part is not aligned to the caller's position.
FromTheStart(count) ==
    LET w == arrived.words IN
    [c \in 1..2 |-> [s \in 1..count |->
        IF s <= VectorSamples(count)
        THEN DemuxGroup(SubSeq(w, 8 * ((s - 1) \div 4) + 1, 8 * ((s - 1) \div 4) + 8))[c][((s - 1) % 4) + 1]
        ELSE w[arrived.offset + 2 * (s - 1) + c]]]
\* demux_dual_channel_samples from the offset on: groups of four, then the rest.
Demux(count) ==
    LET w == SubSeq(arrived.words, arrived.offset + 1, Len(arrived.words)) IN
    [c \in 1..2 |-> [s \in 1..count |->
        IF s <= VectorSamples(count)
        THEN DemuxGroup(SubSeq(w, 8 * ((s - 1) \div 4) + 1, 8 * ((s - 1) \div 4) + 8))[c][((s - 1) % 4) + 1]
        ELSE w[2 * (s - 1) + c]]]

\* copy_dual_channel_samples: frames of both channels for two buffers; the caller of
\* recv keeps the number of its buffers while a payload lasts.
TakeDual(format, count) ==
    /\ arrived.pieces < MaxPieces /\ Len(taken[1]) = Len(taken[2])
    /\ arrived.offset + 2 * count <= Len(arrived.words)
    /\ taken' = [c \in 1..2 |-> taken[c] \o [s \in 1..count |-> Received(format, Demux(count)[c][s])]]
    /\ arrived' = [arrived EXCEPT !.offset = @ + 2 * count, !.pieces = @ + 1]
    /\ UNCHANGED <<avx2, outgoing, packet, turn>>

\* copy_samples: one buffer; memcpy for 16 bits, word by word for floats.
TakeWords(format, count) ==
    /\ arrived.pieces < MaxPieces /\ taken[2] = <<>>
    /\ arrived.offset + count <= Len(arrived.words)
    /\ taken' = [taken EXCEPT ![1] = @ \o
         [s \in 1..count |-> Received(format, arrived.words[arrived.offset + s])]]
    /\ arrived' = [arrived EXCEPT !.offset = @ + count, !.pieces = @ + 1]
    /\ UNCHANGED <<avx2, outgoing, packet, turn>>

WireNext ==
    \/ \E c \in {1, 2}, f \in Formats, o \in {0, Room - 1}, n \in 1..Room: FillPacket(c, f, o, n)
    \/ LoadPacket
    \/ \E f \in Formats, n \in 1..Room: TakeDual(f, n)
    \/ \E f \in Formats, n \in 1..Room: TakeWords(f, n)

-----------------------------------------------------------------------------
(* properties *)

WireTypeOK ==
    /\ avx2 \in BOOLEAN /\ turn \in 0..MaxPackets
    /\ DOMAIN outgoing = 1..2 * Room /\ arrived.offset \in 0..Len(arrived.words)
    /\ \A k \in DOMAIN outgoing: {outgoing[k].low, outgoing[k].high} \subseteq -32768..32767

\* A packet holds the caller's samples, channel after channel, I in the high half, then
\* zeros up to the length its header names, whatever the CPU and whatever the buffer
\* held before (m300_tx_streamer.cpp:425, 480).
PacketExact ==
    packet.words > 0 =>
        /\ ParseHeader(packet.hdr).length = 16 + 4 * packet.words
        /\ packet.words % 4 = 0
        /\ \A k \in 1..packet.words:
             LET s == (k - 1) \div packet.channels + 1
                 c == ((k - 1) % packet.channels) + 1
             IN  outgoing[k] = IF s <= packet.count
                               THEN [low |-> packet.expected[c][s].q, high |-> packet.expected[c][s].i]
                               ELSE [low |-> 0, high |-> 0]

\* What the pieces of a payload put in the caller's buffers is the payload so far, in
\* order, each channel in its buffer, whatever the CPU and the sizes of the pieces
\* (m300_rx_streamer.cpp:634, 712).
PiecesInOrder ==
    LET Is(sample, w) == sample.i = w.low /\ sample.q = w.high IN
    IF taken[2] = <<>>
    THEN /\ Len(taken[1]) = arrived.offset
         /\ \A k \in 1..arrived.offset: Is(taken[1][k], arrived.words[k])
    ELSE \A c \in 1..2:
           /\ Len(taken[c]) = arrived.offset \div 2
           /\ \A s \in 1..Len(taken[c]): Is(taken[c][s], arrived.words[2 * (s - 1) + c])

\* Command and response packets are read as they were written, at the limits of every
\* field, and only a length of more than 24 bits is cut (m300_xdma_protocol.hpp:155).
Headers ==
    {[magic |-> g, seq |-> q, sid |-> s, length |-> l]:
        g \in {0, 4, Byte ^ 2 - 1}, q \in {0, 1, Byte ^ 2 - 1}, s \in {0, Byte - 1},
        l \in {0, 32, Byte ^ 3 - 1, Byte ^ 3}}
Cut(h) == [h EXCEPT !.length = @ % Byte ^ 3]
PacketsSurvive ==
    /\ \A h \in Headers: ParseHeader(WriteHeader(h)) = Cut(h)
    /\ \A h \in Headers, t \in {0, Byte ^ 8 - 1}, c \in {1, Byte ^ 2 - 1}, b \in {0, Byte - 1},
          v \in [1..3 -> {0, 1, Byte ^ 4 - 1}]:
        /\ LET p == [hdr |-> h, timestamp |-> t, cmd |-> c, flags |-> b, target |-> Byte - 1 - b,
                     arg0 |-> v[1], arg1 |-> v[2], arg2 |-> v[3]]
           IN  ParseCtrl(WriteCtrl(p)) = [p EXCEPT !.hdr = Cut(h)]
        /\ LET r == [hdr |-> h, timestamp |-> t, cmd |-> c, status |-> b,
                     value0 |-> v[1], value1 |-> v[2], value2 |-> v[3]]
           IN  ParseResp(WriteResp(r)) = [r EXCEPT !.hdr = Cut(h)]

\* The conversions to 16 bits never reach -32768, are odd and monotone; the vector one
\* is the scalar one, and the truncation that replaced rounding is within one step of
\* it, as its comment says (m300_tx_streamer.cpp:54); both series put Q first.
ConversionsAgree ==
    LET Levels == -(2 * FullScale)..2 * FullScale IN
    \A v \in Levels:
        /\ FloatToI16(v) \in -32767..32767 /\ FloatToI16(-v) = -FloatToI16(v)
        /\ VectorToI16(v) = FloatToI16(v)
        /\ UdpToI16(v) - FloatToI16(v) \in -1..1
        /\ \A u \in Levels: u <= v => FloatToI16(u) <= FloatToI16(v) /\ UdpToI16(u) <= UdpToI16(v)
        /\ UdpPair("INT16", [i |-> v, q |-> v + 1])
             = <<PackIq(v, v + 1).low, PackIq(v, v + 1).high>>
=============================================================================
