------------------------------- MODULE TxProbe -------------------------------
(***************************************************************************)
(* The program that sends packets of a test signal to an M300: its         *)
(* command line, its set-up, the layout of its packets and its two ways to *)
(* write them.  Source: src/example/m300/m300_tx_iq_probe.cpp.             *)
(*                                                                         *)
(* A sample is its number in the signal and its channel; a packet on the   *)
(* wire is its sequence number, the length it claims and its samples.      *)
(***************************************************************************)
EXTENDS Integers, Sequences, SequencesExt

CONSTANTS
    Packets,        \* --packets
    SeqValues,      \* values of the sequence number
    MaxTxTroubles   \* bound: commands and writes that fail

TxProbeParameters ==
    /\ {Packets, SeqValues} \subseteq Nat \ {0} /\ MaxTxTroubles \in Nat

VARIABLES
    order,          \* the command line
    sender,         \* where the program is, its packet and its next sequence number
    fpga,           \* registers of the centre, and the chip
    air,            \* the packets that reached the device, and whether the last is cut
    slips           \* history: failures, and one the transport told nobody of

txProbeVars == <<order, sender, fpga, air, slips>>

-----------------------------------------------------------------------------
(* the command line; sizes in samples per channel, or in words of 16 bytes *)

Slots == 4
Channels(o) == IF o.channels = 3 THEN 2 ELSE 1
PerWord(o) == Slots \div Channels(o)
\* parse_args: what it throws at once.
Refused(o) == o.channels \notin {1, 3} \/ o.samples = 0 \/ o.bulk = 0
\* --packet-bytes, when given, decides the samples; without a header's worth it is refused.
Samples(o) == IF o.bytes # 0 THEN ((o.bytes - 16) \div 16) * PerWord(o) ELSE o.samples
Unaligned(o) ==
    \/ o.bytes # 0 /\ (o.bytes <= 16 \/ (o.bytes - 16) % 16 # 0)
    \/ Samples(o) % PerWord(o) # 0
BodyWords(o) == Samples(o) \div PerWord(o)
PacketBytes(o) == 16 + BodyWords(o) * 16
\* Mutant: the FPGA is told the samples of one channel.
OneChannel(o) == Samples(o)
SamplesPerPacket(o) == Samples(o) * Channels(o)

-----------------------------------------------------------------------------
(* a packet *)

\* Mutant: a word of two channels has its samples channel by channel.
ChannelByChannel(o, base) ==
    IF o.channels = 3 THEN <<<<base, 0>>, <<base + 1, 0>>, <<base, 1>>, <<base + 1, 1>>>>
    ELSE [i \in 1..Slots |-> <<base + i - 1, 0>>]
\* fill_body_word: two samples of two channels, or four of one.
BodyWord(o, base) ==
    [i \in 1..Slots |-> IF o.channels = 3 THEN <<base + (i - 1) \div 2, (i - 1) % 2>>
                        ELSE <<base + i - 1, 0>>]
Body(o, index) ==
    FlattenSeq([w \in 1..BodyWords(o) |->
        BodyWord(o, index * Samples(o) + (w - 1) * PerWord(o))])
\* fill_packet
Filled(o, seq, index) == [seq |-> seq, length |-> PacketBytes(o), body |-> Body(o, index)]
\* Mutant: a batch counts its packets from its own beginning.
InBatch(o, first, i) == i
\* With --reuse-payload a packet keeps what its place in the buffer was filled with and
\* gets a new header.
Index(o, first, i) == IF o.direct /\ o.reuse THEN i ELSE first + i
Smaller(a, b) == IF a < b THEN a ELSE b
Batch(o) == IF o.direct THEN Smaller(o.bulk, Packets - sender.packet) ELSE 1
\* Mutant: the batch has one number.
SameNumber(seq, i) == seq % SeqValues
Numbers(seq, i) == (seq + i) % SeqValues
Next(o) == [i \in 1..Batch(o) |->
    Filled(o, Numbers(sender.seq, i - 1), Index(o, sender.packet, i - 1))]

-----------------------------------------------------------------------------
(* the program *)

Trouble == slips.count < MaxTxTroubles
Fails == Trouble /\ sender' = [sender EXCEPT !.at = "failed"] /\ slips' = [slips EXCEPT !.count = @ + 1]
At(place) == sender' = [sender EXCEPT !.at = place]

Orders == [channels: {1, 2, 3}, samples: {0, 2, 4}, bytes: {0, 16, 24, 48},
           bulk: 0..2, direct: BOOLEAN, reuse: BOOLEAN, init: {"auto", "force", "skip"}]
TxProbeInit ==
    /\ order \in Orders
    /\ sender = [at |-> IF Refused(order) THEN "failed" ELSE "chip", packet |-> 0, seq |-> 0]
    /\ fpga \in [chip: {"good", "bad"}, told: {0}]
    /\ air = [packets |-> <<>>, cut |-> FALSE] /\ slips = [count |-> 0, silent |-> FALSE]

\* Mutant: a check that fails says that the chip is all right.
CheckTrusted(answered) ==
    order.init = "force" \/ (order.init = "auto" /\ answered /\ fpga.chip # "good")
\* The chip is set up if it does not look so, or always, or never; a read that throws
\* means it does not.
Configures(answered) ==
    order.init = "force" \/ (order.init = "auto" /\ ~(answered /\ fpga.chip = "good"))
Chip ==
    /\ sender.at = "chip" /\ UNCHANGED <<order, air>>
    /\ \/ \E answered \in BOOLEAN:
             /\ ~answered => Trouble /\ order.init # "skip"
             /\ slips' = [slips EXCEPT !.count = @ + IF answered THEN 0 ELSE 1]
             /\ fpga' = [fpga EXCEPT !.chip = IF Configures(answered) THEN "good" ELSE @]
             /\ At(IF Unaligned(order) THEN "failed" ELSE "centre")
       \/ /\ Configures(TRUE) /\ Fails
          /\ fpga' \in {fpga, [fpga EXCEPT !.chip = "bad"]}

\* The packet layout into the registers of the centre; then the device is opened.
Centre ==
    /\ sender.at = "centre" /\ UNCHANGED <<order, air>>
    /\ fpga' = [fpga EXCEPT !.told = SamplesPerPacket(order)]
    /\ (At("write") /\ UNCHANGED slips) \/ Fails

Sent(packets) ==
    sender' = [sender EXCEPT !.packet = @ + Len(packets), !.seq = (@ + Len(packets)) % SeqValues]
\* A batch written whole: one write, or several of which each takes what is left.
Write ==
    /\ sender.at = "write" /\ sender.packet < Packets
    /\ air' = [air EXCEPT !.packets = @ \o Next(order)] /\ Sent(Next(order))
    /\ UNCHANGED <<order, fpga, slips>>
\* Mutant: a short write is a write.
ShortIsWrite == Sent(Next(order)) /\ slips' = [slips EXCEPT !.count = @ + 1]
ShortThrows == Fails
\* A direct write that fails or takes no more ends the program, after some packets of
\* the batch or in the middle of one.
WriteFails ==
    /\ sender.at = "write" /\ sender.packet < Packets /\ order.direct /\ Trouble /\ ShortThrows
    /\ \E whole \in 0..Len(Next(order)) - 1, cut \in BOOLEAN:
          air' = [packets |-> air.packets \o SubSeq(Next(order), 1, whole), cut |-> cut]
    /\ UNCHANGED <<order, fpga>>
\* The transport has no buffer, or loses the packet when it writes it and says nothing.
CommitFails ==
    /\ sender.at = "write" /\ sender.packet < Packets /\ ~order.direct /\ Trouble
    /\ \/ Fails
       \/ Sent(Next(order)) /\ slips' = [count |-> slips.count + 1, silent |-> TRUE]
    /\ UNCHANGED <<order, fpga, air>>
Pass ==
    /\ sender.at = "write" /\ sender.packet = Packets /\ At("passed")
    /\ UNCHANGED <<order, fpga, air, slips>>

TxProbeNext == Chip \/ Centre \/ Write \/ WriteFails \/ CommitFails \/ Pass

-----------------------------------------------------------------------------
(* properties *)

TxProbeTypeOK ==
    /\ sender.at \in {"chip", "centre", "write", "passed", "failed"}
    /\ sender.packet \in 0..Packets /\ sender.seq \in 0..SeqValues - 1
    /\ slips.count \in 0..MaxTxTroubles /\ fpga.chip \in {"good", "bad"}

\* The channels' samples as they follow each other on the wire, packet after packet.
Signal == FlattenSeq([p \in DOMAIN air.packets |-> air.packets[p].body])
\* The samples on the wire are the signal from its beginning, sample by sample and in
\* it channel by channel, across words, packets and batches; a reused buffer repeats,
\* and a transport that lost a packet leaves a hole (m300_tx_iq_probe.cpp:262, 472).
SignalWhole ==
    ~slips.silent /\ ~(order.direct /\ order.reuse) =>
        Signal = [k \in DOMAIN Signal |-> <<(k - 1) \div Channels(order), (k - 1) % Channels(order)>>]
\* Packets are numbered one after the other, and each is as long as it claims and as the
\* FPGA was told.
PacketsFit ==
    \A p \in DOMAIN air.packets:
        /\ ~slips.silent => air.packets[p].seq = (p - 1) % SeqValues
        /\ Len(air.packets[p].body) = fpga.told
        /\ air.packets[p].length = 16 + 4 * fpga.told
\* PASS means that the device has every packet whole, and a chip that is set up unless that
\* was skipped; but the transport may lose a packet and say nothing
\* (m300_tx_iq_probe.cpp:525).
PassIsTrue ==
    sender.at = "passed" =>
        /\ ~slips.silent => Len(air.packets) = Packets /\ ~air.cut
        /\ order.init # "skip" => fpga.chip = "good"
SenderHonest == SignalWhole /\ PacketsFit /\ PassIsTrue
=============================================================================
