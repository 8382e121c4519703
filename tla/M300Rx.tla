------------------------------- MODULE M300Rx -------------------------------
(***************************************************************************)
(* The receive stream of one M300.  Source:                                *)
(* src/driver/M300/m300_rx_streamer.cpp (start, stop, recv), with          *)
(* M300XdmaImpl::set_channel_enable, which writes the same register from   *)
(* another thread; the FPGA's packet framer and the driver's ring are      *)
(* modelled from the order the code keeps and the comments explain.        *)
(*                                                                         *)
(* Start and stop are sequences of control commands, each of which may     *)
(* fail, executed or not.  A restart clears the framer, which then has to  *)
(* be armed again before the stream-start pulse makes it send packets.     *)
(***************************************************************************)
EXTENDS Integers, Sequences

CONSTANTS
    Full,           \* words of a full packet (_payload_bytes / 4)
    Channels,       \* channels enabled (1 or 2): words of a sample time
    Sizes,          \* words a packet may have
    Requests,       \* samples asked for by a recv
    Separate,       \* one buffer per channel, or one buffer of words
    RingDepth,      \* packets the driver's ring holds
    SeqMod,         \* values of the packet counter (2^16)
    MaxPkts,        \* bound: packets of a run
    MaxCalls,       \* bound: calls of start, stop and set_channel_enable
    MaxFaults       \* bound: commands and ioctls that fail

\* What the instances have to satisfy.
RxParameters ==
    /\ Full \in Nat \ {0} /\ Channels \in {1, 2} /\ Full % Channels = 0
    /\ Sizes \subseteq 1..Full /\ (\A w \in Sizes: w % Channels = 0)
    /\ Requests \subseteq Nat \ {0}
    /\ Separate \in BOOLEAN /\ (Separate => Channels = 2)
    /\ RingDepth \in Nat \ {0} /\ SeqMod \in Nat \ {0}
    /\ MaxPkts \in Nat /\ MaxCalls \in Nat /\ MaxFaults \in Nat
ASSUME RxAssumption == RxParameters

VARIABLES
    job,        \* the call that holds _mutex: start, catch, stop, recv, with the
                \* commands it has still to send and whether it will throw
    fpga,       \* the device: stream enabled, framer state, run, clock, packets
    ringOn,     \* _driver_ring_started
    ringQ,      \* packets in the driver's ring
    pend,       \* _pending_buff: at most one packet, and the offset in it
    stats,      \* _continuity, with _have_seq and _expected_seq
    call,       \* the recv: samples left, format, time stamp, its first word
    seen,       \* history: the first and last packet taken since a start
    began,      \* history: the last start returned; set_channel_enable came
                \* since; the ring was on already; the last start or stop threw
    count       \* bounds: calls, failures

rxVars == <<job, fpga, ringOn, ringQ, pend, stats, call, seen, began, count>>

Idle == [op |-> "none", todo |-> <<>>, err |-> FALSE]
NoStats == [packets |-> 0, jumps |-> 0, lost |-> 0, have |-> FALSE, next |-> 0]
NoCall == [left |-> 0, bulk |-> FALSE, stamp |-> -1, first |-> -1]
NoSeen == [first |-> -1, last |-> -1, n |-> 0, burst |-> FALSE, run |-> 0]

Init ==
    /\ job = Idle
    /\ fpga = [enabled |-> FALSE, framer |-> "idle", run |-> 0, word |-> 0, pkt |-> 0]
    /\ ringOn = FALSE /\ ringQ = <<>> /\ pend = <<>>
    /\ stats = NoStats /\ call = NoCall /\ seen = NoSeen
    /\ began = [ok |-> FALSE, disturbed |-> FALSE, dirty |-> FALSE, threw |-> FALSE]
    /\ count = [ops |-> 0, bad |-> 0]

Producing == fpga.enabled /\ fpga.framer = "running"
Samples(words) == IF Separate THEN words \div 2 ELSE words
RxOp == count.ops < MaxCalls /\ count' = [count EXCEPT !.ops = @ + 1]
RxBad == count.bad < MaxFaults /\ count' = [count EXCEPT !.bad = @ + 1]

-----------------------------------------------------------------------------
(* start and stop *)

\* What a command does to the FPGA.  The stream-enable, source and packet-size
\* registers assert rx_restart, which clears the framer.
Effect(cmd) ==
    CASE cmd = "stop_rx" -> [fpga EXCEPT !.enabled = FALSE, !.framer = "idle"]
      [] cmd = "start_rx" -> [fpga EXCEPT !.enabled = TRUE, !.framer = "idle"]
      [] cmd \in {"source", "packet_bytes", "mode_exit"} -> [fpga EXCEPT !.framer = "idle"]
      [] cmd = "mode_strobe" -> [fpga EXCEPT !.framer = "armed"]
      [] cmd = "stream_start" /\ fpga.framer = "armed" ->
            [fpga EXCEPT !.framer = "running", !.run = @ + 1, !.word = 0, !.pkt = 0]
      [] OTHER -> fpga

\* Mutant: the framer is prepared before the stream is enabled.
PrepareFirst == <<"stop_rx", "source", "packet_bytes", "counters",
                  "mode_exit", "params", "mode_strobe", "start_rx",
                  "clear", "start_recv", "stream_start">>
\* start_stream_locked, with prepare_framer_locked.
StartSteps == <<"stop_rx", "source", "packet_bytes", "counters", "start_rx",
                "mode_exit", "params", "mode_strobe",
                "clear", "start_recv", "stream_start">>
\* Mutant: the ring goes first.
RingFirst == <<"stop_recv", "mode_exit", "stop_rx">>
\* Its catch block, and stop_stream_locked.
UndoSteps == <<"mode_exit", "stop_rx", "stop_recv">>

StartStream ==
    /\ job = Idle /\ RxOp
    /\ job' = [op |-> "start", todo |-> StartSteps, err |-> FALSE]
    /\ began' = [began EXCEPT !.ok = FALSE, !.disturbed = FALSE]
    /\ UNCHANGED <<fpga, ringOn, ringQ, pend, stats, call, seen>>

StopStream ==
    /\ job = Idle /\ RxOp
    /\ job' = [op |-> "stop", todo |-> UndoSteps \o <<"clear_pending">>, err |-> FALSE]
    /\ began' = [began EXCEPT !.ok = FALSE]
    /\ UNCHANGED <<fpga, ringOn, ringQ, pend, stats, call, seen>>

Doing(step) == job.op \in {"start", "catch", "stop"} /\ job.todo # <<>> /\ Head(job.todo) = step
Done == job' = [job EXCEPT !.todo = Tail(@)]

\* A command failed: in the try block of start everything is undone, before it
\* the call throws at once, and stop and the catch block go on.
AfterFailure ==
    IF job.op # "start" THEN [job EXCEPT !.todo = Tail(@), !.err = TRUE]
    ELSE IF Head(job.todo) \in {"start_recv", "stream_start"}
    THEN [op |-> "catch", todo |-> UndoSteps, err |-> TRUE]
    ELSE [job EXCEPT !.todo = <<>>, !.err = TRUE]

\* A control command: answered, or not answered and executed or lost.
Command ==
    /\ \E s \in {"stop_rx", "start_rx", "source", "packet_bytes", "counters", "mode_exit",
                 "params", "mode_strobe", "stream_start"}: Doing(s)
    /\ \/ fpga' = Effect(Head(job.todo)) /\ Done /\ UNCHANGED count
       \/ fpga' \in {fpga, Effect(Head(job.todo))} /\ job' = AfterFailure /\ RxBad
    /\ UNCHANGED <<ringOn, ringQ, pend, stats, call, seen, began>>

\* Mutant: the packet half read survives.
KeepPending == UNCHANGED pend
\* clear_pending_locked
DropPending == pend' = <<>>

\* clear_pending_locked and reset_continuity_stats, and the former at the end
\* of a stop.
Clear ==
    /\ Doing("clear") /\ Done
    /\ DropPending /\ stats' = NoStats /\ seen' = NoSeen
    /\ UNCHANGED <<fpga, ringOn, ringQ, call, began, count>>
ClearPending ==
    /\ Doing("clear_pending") /\ Done /\ DropPending
    /\ UNCHANGED <<fpga, ringOn, ringQ, stats, call, seen, began, count>>

\* The transport starts an empty ring, unless it is started already.
StartRing ==
    /\ Doing("start_recv")
    /\ \/ ringOn /\ Done /\ began' = [began EXCEPT !.dirty = TRUE]
          /\ UNCHANGED <<ringOn, ringQ, count>>
       \/ ~ringOn /\ Done /\ ringOn' = TRUE /\ ringQ' = <<>>
          /\ began' = [began EXCEPT !.dirty = FALSE] /\ UNCHANGED count
       \/ ~ringOn /\ job' = AfterFailure /\ RxBad /\ UNCHANGED <<ringOn, ringQ, began>>
    /\ UNCHANGED <<fpga, pend, stats, call, seen>>

StopRing ==
    /\ Doing("stop_recv") /\ Done /\ ringOn' = FALSE /\ ringQ' = <<>>
    /\ UNCHANGED <<fpga, pend, stats, call, seen, began, count>>

\* Mutant: stop does not rethrow.
Swallowed == FALSE
Thrown == job.err
\* The call returns, or throws what it could not send.
Finish ==
    /\ job.op \in {"start", "catch", "stop"} /\ job.todo = <<>>
    /\ job' = Idle
    /\ began' = [began EXCEPT !.ok = job.op = "start" /\ ~job.err, !.threw = Thrown]
    /\ UNCHANGED <<fpga, ringOn, ringQ, pend, stats, call, seen, count>>

\* M300XdmaImpl::set_channel_enable: start_rx or stop_rx, under another mutex.
SetChannelEnable ==
    /\ RxOp /\ \E cmd \in {"start_rx", "stop_rx"}: fpga' = Effect(cmd)
    /\ began' = [began EXCEPT !.disturbed = TRUE]
    /\ UNCHANGED <<job, ringOn, ringQ, pend, stats, call, seen>>

-----------------------------------------------------------------------------
(* recv *)

\* bulk: int16 samples, which a burst may copy straight into a single buffer.
Recv(n, bulk) ==
    /\ job = Idle /\ job' = [Idle EXCEPT !.op = "recv"]
    /\ call' = [NoCall EXCEPT !.left = n, !.bulk = bulk \/ Separate]
    /\ UNCHANGED <<fpga, ringOn, ringQ, pend, stats, seen, began, count>>

\* Mutant: every jump counts as one packet.
JumpIsOne(seq) == [stats EXCEPT !.jumps = @ + 1, !.lost = @ + 1]
Jumped(seq) ==
    [stats EXCEPT !.jumps = @ + 1, !.lost = @ + ((seq - stats.next) % SeqMod)]

\* note_packet_sequence: n packets from number p.pkt on.
Note(p, n) ==
    LET s == IF stats.have /\ p.seq # stats.next THEN Jumped(p.seq) ELSE stats
    IN  stats' = [s EXCEPT !.packets = @ + n, !.have = TRUE, !.next = (p.seq + n) % SeqMod]

Saw(p, q, n) ==
    seen' = [first |-> IF seen.first = -1 THEN p.pkt ELSE seen.first, last |-> q.pkt,
             n |-> seen.n + n, burst |-> n > 1, run |-> q.run]

\* The first samples of the call give it its time stamp.
Stamped(stamp, word, n) ==
    call' = [call EXCEPT !.left = @ - n,
                         !.stamp = IF call.stamp = -1 THEN stamp ELSE @,
                         !.first = IF call.first = -1 THEN word ELSE @]

\* recv_payload_burst: whole packets, straight to the caller.
Burst(n) ==
    /\ job.op = "recv" /\ pend = <<>> /\ call.bulk
    /\ n \in 1..Len(ringQ) /\ n * Samples(Full) <= call.left
    /\ \A i \in 1..n: ringQ[i].words = Full
    /\ ringQ' = SubSeq(ringQ, n + 1, Len(ringQ))
    /\ Note(ringQ[1], n) /\ Saw(ringQ[1], ringQ[n], n)
    /\ Stamped(ringQ[1].word \div Channels, ringQ[1].word, n * Samples(Full))
    /\ UNCHANGED <<job, fpga, ringOn, pend, began, count>>

\* load_next_packet, after a burst that brought nothing or was not tried.  A packet
\* without payload, which it would keep and return false, is not among the Sizes.
LoadNext ==
    /\ job.op = "recv" /\ pend = <<>> /\ call.left > 0 /\ ringQ # <<>>
    /\ ringQ' = Tail(ringQ)
    /\ pend' = <<[pkt |-> Head(ringQ), off |-> 0]>>
    /\ Note(Head(ringQ), 1) /\ Saw(Head(ringQ), Head(ringQ), 1)
    /\ UNCHANGED <<job, fpga, ringOn, call, began, count>>

\* Mutant: the time stamp of the packet, not of the samples left of it.
PacketStamp(b) == b.pkt.word \div Channels
PendStamp(b) == b.pkt.word \div Channels + b.off \div Channels

\* What is left of the packet, as far as the caller has room.
Copy ==
    /\ job.op = "recv" /\ pend # <<>> /\ call.left > 0
    /\ LET b == pend[1]
           avail == Samples(b.pkt.words - b.off)
           n == IF call.left < avail THEN call.left ELSE avail
           off == b.off + (IF Separate THEN 2 * n ELSE n)
       IN  /\ Stamped(PendStamp(b), b.pkt.word + b.off, n)
           /\ pend' = IF off >= b.pkt.words THEN <<>> ELSE <<[b EXCEPT !.off = off]>>
    /\ UNCHANGED <<job, fpga, ringOn, ringQ, stats, seen, began, count>>

\* Everything copied, or nothing came within the timeout.
RecvReturn ==
    /\ job.op = "recv" /\ (call.left = 0 \/ (pend = <<>> /\ ringQ = <<>>))
    /\ job' = Idle /\ call' = NoCall
    /\ UNCHANGED <<fpga, ringOn, ringQ, pend, stats, seen, began, count>>

\* The FPGA completes a packet; a ring that is off or full loses it.
FpgaPacket(words) ==
    /\ Producing /\ fpga.pkt < MaxPkts
    /\ fpga' = [fpga EXCEPT !.pkt = @ + 1, !.word = @ + words]
    /\ ringQ' = IF ringOn /\ Len(ringQ) < RingDepth
                THEN Append(ringQ, [run |-> fpga.run, pkt |-> fpga.pkt,
                                    seq |-> fpga.pkt % SeqMod,
                                    word |-> fpga.word, words |-> words])
                ELSE ringQ
    /\ UNCHANGED <<job, ringOn, pend, stats, call, seen, began, count>>

Next ==
    \/ StartStream \/ StopStream \/ Command \/ Clear \/ ClearPending \/ StartRing \/ StopRing
    \/ Finish \/ SetChannelEnable
    \/ \E n \in Requests, bulk \in BOOLEAN: Recv(n, bulk)
    \/ \E n \in 1..RingDepth: Burst(n)
    \/ LoadNext \/ Copy \/ RecvReturn
    \/ \E w \in Sizes: FpgaPacket(w)

Spec == Init /\ [][Next]_rxVars

-----------------------------------------------------------------------------
(* properties *)

RxTypeOK ==
    /\ job.op \in {"none", "start", "catch", "stop", "recv"} /\ job.err \in BOOLEAN
    /\ fpga.framer \in {"idle", "armed", "running"} /\ fpga.enabled \in BOOLEAN
    /\ fpga.pkt \in 0..MaxPkts /\ fpga.run \in 0..MaxCalls
    /\ ringOn \in BOOLEAN /\ Len(ringQ) <= RingDepth /\ Len(pend) <= 1
    /\ pend # <<>> => pend[1].off < pend[1].pkt.words
    /\ stats.packets \in Nat /\ stats.next \in 0..(SeqMod - 1)
    /\ call.left \in Nat /\ began.ok \in BOOLEAN
    /\ count.ops <= MaxCalls /\ count.bad <= MaxFaults

\* The comment of start_stream_locked: a later clear would return the framer to
\* idle and the stream-start pulse would produce nothing.  After a start that
\* returned, the FPGA sends into a ring that is on, unless another thread
\* called set_channel_enable.
StartedStreams == began.ok /\ ~began.disturbed => Producing /\ ringOn

\* The comments of start and stop: the FPGA sends only while the ring is on.
\* If commands failed it may go on, but then the caller was told.
QuietUnlessReported == Producing /\ ~ringOn => began.threw \/ job.err

\* Both: what the stream's active flag tells the caller is true.
ActiveIsTrue == StartedStreams /\ QuietUnlessReported

\* The time stamp of a recv is that of its first sample, wherever in a packet
\* or a burst that one was.
StampHonest == call.stamp # -1 => call.stamp = call.first \div Channels

\* Packets counted and packets reported lost make up the whole span of packets
\* seen since the start, across the wrap of the counter; a loss inside a burst
\* may be reported with the next packet, and no loss is invented.  (A start on a
\* ring that is on already finds packets of the earlier run in it.)
LossCounted ==
    LET missing == seen.last - seen.first + 1 - seen.n
    IN  ~began.dirty =>
        /\ stats.packets = seen.n
        /\ stats.lost <= missing
        /\ ~seen.burst /\ seen.n > 0 => (missing - stats.lost) % SeqMod = 0

\* After a start that found the ring stopped no sample of an earlier run is
\* delivered, neither from the ring nor from the packet half read.
NoStaleSamples ==
    began.ok /\ ~began.dirty =>
        /\ seen.n > 0 => seen.run = fpga.run
        /\ pend # <<>> => pend[1].pkt.run = fpga.run
=============================================================================
