------------------------------ MODULE RxStream ------------------------------
(***************************************************************************)
(* The receive path of one E-series device, from the socket to the caller: *)
(*                                                                         *)
(*   device -> network -> kernel socket -> frame pool -> worker thread     *)
(*          -> FIFO -> pending packet -> recv() of the application         *)
(*                                                                         *)
(* with the control calls that restart it: START, STOP and the RF epoch    *)
(* change around a retune.  Source:                                        *)
(* src/driver/transport/super_recv_packet_handler.hpp                      *)
(* (recv_packet_streamer), src/core/udp_zero_copy.cpp (the frame pool),    *)
(* src/driver/transport/FIFO.hpp (TSQueue) and with_rx_epoch_restart in    *)
(* src/driver/IQTAXI/iqtaxi_udp_impl.cpp.                                  *)
(*                                                                         *)
(* A sample is represented by its position in the device's sample clock,   *)
(* the RF setting it was taken with and the START that was in force.       *)
(***************************************************************************)
EXTENDS Naturals, Sequences, FiniteSets

CONSTANTS
    NumFrames,          \* receive frames of the pool (kRxStreamRecvFrames)
    FifoCap,            \* capacity of _rx_fifo (kRxQueuedPackets)
    SockCap,            \* datagrams the kernel socket buffer holds
    Spp,                \* samples per packet
    Requests,           \* sample counts the application asks for
    Modes,              \* "fifo": recv_from_fifo_ticks, "plain": recv
    Formats,            \* "known": FLOAT32 or INT16, "other": neither
    Ops,                \* control calls the application makes
    PokeOutcomes,       \* "ok", "noack": applied but unanswered, "lost"
    NetFaults,          \* what the network may do: "lost", "late", "bad"
    StreamingAtOpen,    \* the device already streams when it is opened
    StopBeforeStart,    \* the caller issues STOP before every START
    ConcurrentControl,  \* control calls may overlap a recv() call
    MaxPkts,            \* bound: packets the device sends
    MaxOps,             \* bound: control calls
    MaxErrors,          \* bound: recv(2) failures that throw
    MaxDrain,           \* kMaxDrainPackets
    Free, Claimed,      \* a frame in the pool, and one being received into
    None                \* no packet, no position

ASSUME SizesAssumption ==
    /\ NumFrames \in Nat \ {0}
    /\ FifoCap \in Nat \ {0}
    /\ SockCap \in Nat \ {0}
    /\ Spp \in Nat \ {0}
    /\ Requests \subseteq Nat \ {0}
    /\ MaxPkts \in Nat /\ MaxOps \in Nat /\ MaxErrors \in Nat /\ MaxDrain \in Nat

ASSUME ChoicesAssumption ==
    /\ Modes \subseteq {"fifo", "plain"}
    /\ Formats \subseteq {"known", "other"}
    /\ Ops \subseteq {"start", "stop", "retune"}
    /\ PokeOutcomes \subseteq {"ok", "noack", "lost"}
    /\ NetFaults \subseteq {"lost", "late", "bad"}
    /\ StreamingAtOpen \in BOOLEAN
    /\ StopBeforeStart \in BOOLEAN
    /\ ConcurrentControl \in BOOLEAN

VARIABLES
    device,     \* streaming, rf setting, number of STARTs, next packet
    sock,       \* datagrams waiting in the kernel socket buffer
    late,       \* a datagram the network still holds, or NoPacket
    frame,      \* per frame: Free, Claimed, or the packet received into it
    nextBuff,   \* _next_recv_buff_index
    wpc,        \* where rx_thread is; "none" when it is not joinable
    stopFlag,   \* _rx_thread_stop
    wbuf,       \* the frame the worker holds between receive and push
    fifo,       \* _rx_fifo, a sequence of frames
    pending,    \* _pending_rx_buff and the consumer's expectation
    cont,       \* _continuity: have_last, expected_timestamp, timestamp_errors
    cpc,        \* where the recv() call is
    call,       \* its arguments and the samples still to copy
    out,        \* what it has returned so far
    kpc,        \* where the control call is
    op,         \* which control call it is
    resume,     \* _resume_rx_epoch
    drained,    \* datagrams drained by the control call
    hist        \* history: last position heard, gaps met, sessions, bounds

sockVars   == <<device, sock, late>>
poolVars   == <<frame, nextBuff>>
workerVars == <<wpc, stopFlag, wbuf>>
appVars    == <<cpc, call, out>>
ctlVars    == <<kpc, op, resume, drained>>
vars == <<sockVars, poolVars, workerVars, fifo, pending, cont, appVars, ctlVars, hist>>

-----------------------------------------------------------------------------
(* Data *)

Frames == 1..NumFrames
NoFrame == 0
NoPacket == None
NoPos == None

Packets == [n : Nat, rf : Nat, run : Nat, ok : BOOLEAN]
Samples == [pos : Nat, rf : Nat, run : Nat]

ASSUME SentinelsAssumption ==
    /\ Free # Claimed
    /\ Free \notin Packets /\ Claimed \notin Packets
    /\ None \notin Packets /\ None \notin Nat

Stamp(p) == Spp * p.n
SampleOf(p, k) == [pos |-> Stamp(p) + k, rf |-> p.rf, run |-> p.run]

\* A packet carries Spp samples (sample_count); the header is in the frame.
NoPending ==
    [buf |-> NoFrame, pkt |-> NoPacket, off |-> 0,
     disc |-> FALSE, back |-> FALSE, exp |-> NoPos]

NoContinuity == [have |-> FALSE, exp |-> 0, errors |-> 0]
NoCall == [mode |-> "fifo", fmt |-> "known", left |-> 0, first |-> FALSE]
NoOut == [got |-> <<>>, ts |-> 0, disc |-> FALSE, back |-> FALSE]

FifoFrames == {fifo[i] : i \in DOMAIN fifo}
\* Mutant: the flush overlooks the packet being read.
PendingOverlooked == {}
PendingFrames == {pending.buf} \ {NoFrame}
WorkerFrames == {wbuf} \ {NoFrame}
\* Mutant: a released frame is not given back.
ReleaseForgotten(fs) == frame
Release(fs) == [f \in Frames |-> IF f \in fs THEN Free ELSE frame[f]]

\* udp_zero_copy_asio_impl::get_recv_buff: the index wraps before use.
BuffIndex == IF nextBuff = NumFrames THEN 1 ELSE nextBuff + 1
\* Mutant: the claim does not look at the lock.
ClaimUnchecked == TRUE
BuffIsFree == frame[BuffIndex] = Free

Init ==
    /\ device = [streaming |-> StreamingAtOpen, rf |-> 0, run |-> 0, n |-> 0]
    /\ sock = <<>> /\ late = NoPacket
    /\ frame = [f \in Frames |-> Free] /\ nextBuff = 0
    /\ wpc = "none" /\ stopFlag = FALSE /\ wbuf = NoFrame
    /\ fifo = <<>> /\ pending = NoPending /\ cont = NoContinuity
    /\ cpc = "idle" /\ call = NoCall /\ out = NoOut
    /\ kpc = "idle" /\ op = "none" /\ resume = FALSE /\ drained = 0
    /\ hist = [base |-> NoPos, heard |-> NoPos, gaps |-> 0, minRun |-> 0,
               ops |-> 0, errors |-> 0]

-----------------------------------------------------------------------------
(* The device and the network *)

\* A full socket buffer drops the datagram that arrives.
Offer(p) == IF Len(sock) < SockCap THEN Append(sock, p) ELSE sock

DevSend(fault) ==
    LET p == [n |-> device.n, rf |-> device.rf, run |-> device.run,
              ok |-> fault # "bad"]
    IN  /\ device.streaming /\ device.n < MaxPkts
        /\ fault = "late" => late = NoPacket
        /\ device' = [device EXCEPT !.n = @ + 1]
        /\ sock' = IF fault \in {"none", "bad"} THEN Offer(p) ELSE sock
        /\ late' = IF fault = "late" THEN p ELSE late
        /\ UNCHANGED <<poolVars, workerVars, fifo, pending, cont, appVars, ctlVars, hist>>

LateArrive ==
    /\ late # NoPacket
    /\ sock' = Offer(late) /\ late' = NoPacket
    /\ UNCHANGED <<device, poolVars, workerVars, fifo, pending, cont, appVars, ctlVars, hist>>

-----------------------------------------------------------------------------
(* rx_thread_func *)

WorkerUnchanged == UNCHANGED <<device, late, pending, appVars, ctlVars>>

WorkerLoop ==
    /\ wpc = "top"
    /\ wpc' = IF stopFlag THEN "done" ELSE "claim"
    /\ WorkerUnchanged
    /\ UNCHANGED <<sock, poolVars, stopFlag, wbuf, fifo, cont, hist>>

\* claim_with_wait: the next frame of the ring must be free.
WorkerClaim ==
    /\ wpc = "claim" /\ BuffIsFree
    /\ frame' = [frame EXCEPT ![BuffIndex] = Claimed]
    /\ wpc' = "recv"
    /\ WorkerUnchanged
    /\ UNCHANGED <<sock, nextBuff, stopFlag, wbuf, fifo, cont, hist>>

\* Mutant: the claim waits without a timeout.
ClaimWaitsForever == FALSE
\* The wait for a pinned frame times out: a null buffer, back to the loop.
WorkerClaimTimeout ==
    /\ wpc = "claim" /\ ~BuffIsFree
    /\ wpc' = "top"
    /\ WorkerUnchanged
    /\ UNCHANGED <<sock, poolVars, stopFlag, wbuf, fifo, cont, hist>>

\* Mutant: a jump ahead is not counted.
NoteBackwardGaps(p) ==
    cont' = [have |-> TRUE, exp |-> Stamp(p) + Spp,
             errors |-> cont.errors + (IF cont.have /\ Stamp(p) < cont.exp THEN 1 ELSE 0)]
\* update_rx_continuity_stats.
NoteContinuity(p) ==
    cont' = [have |-> TRUE, exp |-> Stamp(p) + Spp,
             errors |-> cont.errors + (IF cont.have /\ Stamp(p) # cont.exp THEN 1 ELSE 0)]

\* A datagram: a bad one is released at once, a valid one is accounted for
\* and goes on to the push.
WorkerRecv ==
    /\ wpc = "recv" /\ sock # <<>>
    /\ sock' = Tail(sock) /\ nextBuff' = BuffIndex
    /\ IF Head(sock).ok
       THEN /\ frame' = [frame EXCEPT ![BuffIndex] = Head(sock)]
            /\ wbuf' = BuffIndex /\ wpc' = "push"
            /\ NoteContinuity(Head(sock))
       ELSE /\ frame' = [frame EXCEPT ![BuffIndex] = Free]
            /\ wpc' = "top" /\ UNCHANGED <<wbuf, cont>>
    /\ WorkerUnchanged
    /\ UNCHANGED <<stopFlag, fifo, hist>>

\* Nothing arrived in time: get_new undoes the claim.
WorkerRecvTimeout ==
    /\ wpc = "recv" /\ sock = <<>>
    /\ frame' = [frame EXCEPT ![BuffIndex] = Free]
    /\ wpc' = "top"
    /\ WorkerUnchanged
    /\ UNCHANGED <<sock, nextBuff, stopFlag, wbuf, fifo, cont, hist>>

\* recv(2) fails for good: recv_udp_packet throws through get_new, which has
\* no chance to undo the claim; the loop catches it and goes on.
WorkerRecvError ==
    /\ wpc = "recv" /\ hist.errors < MaxErrors
    /\ hist' = [hist EXCEPT !.errors = @ + 1]
    /\ wpc' = "top"
    /\ WorkerUnchanged
    /\ UNCHANGED <<sock, poolVars, stopFlag, wbuf, fifo, cont>>

\* Mutant: the queue is a stack.
PushFront(q) == <<wbuf>> \o q
Push(q) == Append(q, wbuf)

\* TSQueue::push without blocking: the oldest entry makes room, and its
\* frame is released with it.
WorkerPush ==
    /\ wpc = "push"
    /\ IF Len(fifo) = FifoCap
       THEN fifo' = Push(Tail(fifo)) /\ frame' = Release({Head(fifo)})
       ELSE fifo' = Push(fifo) /\ frame' = frame
    /\ wbuf' = NoFrame /\ wpc' = "top"
    /\ WorkerUnchanged
    /\ UNCHANGED <<sock, nextBuff, stopFlag, cont, hist>>

Worker ==
    \/ WorkerLoop \/ WorkerClaim \/ WorkerClaimTimeout \/ WorkerRecv
    \/ WorkerRecvTimeout \/ WorkerRecvError \/ WorkerPush

\* Mutant: the flag of the last _stop is not lowered.
SpawnStopped == wpc' = (IF wpc = "none" THEN "top" ELSE wpc) /\ UNCHANGED stopFlag
\* _start: a new thread unless one is joinable.
Spawn ==
    IF wpc = "none" THEN wpc' = "top" /\ stopFlag' = FALSE
                    ELSE UNCHANGED <<wpc, stopFlag>>

-----------------------------------------------------------------------------
(* recv_with_timeout, called by recv and recv_from_fifo_ticks *)

RecvUnchanged == UNCHANGED <<sockVars, nextBuff, wbuf, cont, ctlVars>>

RecvCall(mode, fmt, want) ==
    /\ cpc = "idle" /\ (ConcurrentControl \/ kpc = "idle")
    /\ cpc' = "loop"
    /\ call' = [mode |-> mode, fmt |-> fmt, left |-> want, first |-> TRUE]
    /\ out' = NoOut
    /\ hist' = [hist EXCEPT !.base = hist.heard]
    /\ RecvUnchanged
    /\ UNCHANGED <<frame, wpc, stopFlag, fifo, pending>>

\* pop_next_packet makes sure that the worker runs before it waits.
RecvStart ==
    /\ cpc = "loop" /\ pending.buf = NoFrame
    /\ Spawn
    /\ cpc' = "wait"
    /\ RecvUnchanged
    /\ UNCHANGED <<frame, fifo, pending, call, out, hist>>

\* Mutant: only a jump ahead is a gap.
GapAhead(p) == pending.exp # NoPos /\ Stamp(p) > pending.exp
Gap(p) == pending.exp # NoPos /\ Stamp(p) # pending.exp

\* TSQueue::pop; a gap ends a call that already has samples.
RecvPop ==
    /\ cpc = "wait" /\ fifo # <<>>
    /\ LET p == frame[Head(fifo)]
           stopAt == Gap(p) /\ call.mode = "fifo"
       IN  /\ pending' = [pending EXCEPT !.buf = Head(fifo), !.pkt = p, !.off = 0,
                              !.disc = @ \/ stopAt,
                              !.back = IF stopAt THEN Stamp(p) < pending.exp ELSE @]
           /\ cpc' = IF stopAt /\ out.got # <<>> THEN "idle" ELSE "loop"
           /\ hist' = [hist EXCEPT !.gaps = @ + (IF Gap(p) THEN 1 ELSE 0)]
    /\ fifo' = Tail(fifo)
    /\ RecvUnchanged
    /\ UNCHANGED <<frame, wpc, stopFlag, call, out>>

RecvTimeout ==
    /\ cpc = "wait" /\ fifo = <<>>
    /\ cpc' = "idle"
    /\ RecvUnchanged
    /\ UNCHANGED <<frame, wpc, stopFlag, fifo, pending, call, out, hist>>

\* The first packet of a call gives it its time stamp and its flags.
Opened ==
    IF call.first
    THEN [out EXCEPT !.ts = Stamp(pending.pkt) + pending.off,
                     !.disc = pending.disc /\ call.mode = "fifo",
                     !.back = pending.disc /\ pending.back /\ call.mode = "fifo"]
    ELSE out

\* Mutant: the copy ignores what is left of the packet.
CopyRequest == call.left
NumToCopy == IF Spp - pending.off < call.left THEN Spp - pending.off ELSE call.left

\* Copy what the packet and the request allow; a used-up packet is released.
RecvCopy ==
    /\ cpc = "loop" /\ pending.buf # NoFrame /\ call.fmt = "known"
    /\ LET end == pending.off + NumToCopy
           new == [k \in 1..NumToCopy |->
                      SampleOf(frame[pending.buf], pending.off + k - 1)]
           after == Stamp(pending.pkt) + end
           clear == [pending EXCEPT !.disc = FALSE, !.back = FALSE, !.exp = after]
       IN  /\ out' = [Opened EXCEPT !.got = @ \o new]
           /\ call' = [call EXCEPT !.left = @ - NumToCopy, !.first = FALSE]
           /\ cpc' = IF call.left = NumToCopy THEN "idle" ELSE "loop"
           /\ hist' = [hist EXCEPT !.heard = after]
           /\ IF end = Spp
              THEN pending' = [NoPending EXCEPT !.exp = after] /\ frame' = Release({pending.buf})
              ELSE pending' = [clear EXCEPT !.off = end] /\ frame' = frame
    /\ RecvUnchanged
    /\ UNCHANGED <<wpc, stopFlag, fifo>>

\* A format the copy does not know: the call gives up, the packet stays.
RecvUnknownFormat ==
    /\ cpc = "loop" /\ pending.buf # NoFrame /\ call.fmt = "other"
    /\ out' = Opened
    /\ call' = [call EXCEPT !.first = FALSE]
    /\ pending' = [pending EXCEPT !.disc = FALSE, !.back = FALSE]
    /\ cpc' = "idle"
    /\ RecvUnchanged
    /\ UNCHANGED <<frame, wpc, stopFlag, fifo, hist>>

RecvStep == RecvStart \/ RecvPop \/ RecvTimeout \/ RecvCopy \/ RecvUnknownFormat

-----------------------------------------------------------------------------
(* set_recv_param, prepare_for_rx_epoch_change, finish_rx_epoch_change *)

CtlUnchanged == UNCHANGED <<late, appVars, wbuf>>

\* drain_rx_fifo, and stop_pending_packet: the frames go back to the pool
\* and the consumer expects nothing any more.
DrainFifo == fifo' = <<>>
StopPending == pending' = NoPending /\ hist' = [hist EXCEPT !.heard = NoPos]

\* _stop: raise the flag and join a joinable thread, then flush.
EnterStop ==
    IF wpc # "none" THEN kpc' = "join" /\ stopFlag' = TRUE
                    ELSE kpc' = "flush" /\ UNCHANGED stopFlag

KCall(o) ==
    /\ kpc = "idle" /\ (ConcurrentControl \/ cpc = "idle")
    /\ hist.ops < MaxOps
    /\ o = "start" /\ StopBeforeStart => ~device.streaming
    /\ op' = o /\ hist' = [hist EXCEPT !.ops = @ + 1]
    /\ CASE o = "start" /\ wpc = "none" -> kpc' = "reset" /\ UNCHANGED <<stopFlag, resume>>
         [] o = "start" /\ wpc # "none" -> EnterStop /\ UNCHANGED resume
         [] o = "stop"                  -> kpc' = "pokestop" /\ UNCHANGED <<stopFlag, resume>>
         [] o = "retune"                -> EnterStop /\ resume' = (wpc # "none")
    /\ CtlUnchanged
    /\ UNCHANGED <<device, sock, poolVars, wpc, fifo, pending, cont, drained>>

\* An unanswered STOP throws before _stop: the worker keeps running.
KPokeStop(outcome) ==
    /\ kpc = "pokestop"
    /\ device' = [device EXCEPT !.streaming = @ /\ outcome = "lost"]
    /\ IF outcome = "ok" THEN EnterStop ELSE kpc' = "idle" /\ UNCHANGED stopFlag
    /\ CtlUnchanged
    /\ UNCHANGED <<sock, poolVars, wpc, fifo, pending, cont, op, resume, drained, hist>>

\* Mutant: the worker is told to stop and not waited for.
JoinSkipped ==
    /\ kpc = "join"
    /\ kpc' = "flush"
    /\ CtlUnchanged
    /\ UNCHANGED <<device, sock, poolVars, wpc, stopFlag, fifo, pending, cont, op, resume, drained, hist>>
KJoin ==
    /\ kpc = "join" /\ wpc = "done"
    /\ wpc' = "none" /\ kpc' = "flush"
    /\ CtlUnchanged
    /\ UNCHANGED <<device, sock, poolVars, stopFlag, fifo, pending, cont, op, resume, drained, hist>>

KFlush ==
    /\ kpc = "flush"
    /\ DrainFifo /\ StopPending
    /\ frame' = Release(FifoFrames \cup PendingFrames)
    /\ kpc' = CASE op = "start" -> "reset" [] op = "stop" -> "idle" [] op = "retune" -> "tune"
    /\ CtlUnchanged
    /\ UNCHANGED <<device, sock, nextBuff, wpc, stopFlag, cont, op, resume, drained>>

\* The LO command.  Whether it fails or not, the epoch change is finished.
KTune(outcome) ==
    /\ kpc = "tune"
    /\ device' = [device EXCEPT !.rf = IF outcome = "lost" THEN @ ELSE @ + 1]
    /\ kpc' = "reset"
    /\ CtlUnchanged
    /\ UNCHANGED <<sock, poolVars, wpc, stopFlag, fifo, pending, cont, op, resume, drained, hist>>

\* reset_rx_continuity_stats: the FIFO first, then the socket.
KReset ==
    /\ kpc = "reset"
    /\ DrainFifo /\ frame' = Release(FifoFrames)
    /\ kpc' = "drain" /\ drained' = 0
    /\ CtlUnchanged
    /\ UNCHANGED <<device, sock, nextBuff, wpc, stopFlag, pending, cont, op, resume, hist>>

\* Mutants: the socket is not drained, or only one datagram is.
DrainNothing == FALSE
DrainOne == drained < 1 /\ sock # <<>> /\ BuffIsFree
CanDrain == drained < MaxDrain /\ sock # <<>> /\ BuffIsFree

KDrain ==
    /\ kpc = "drain" /\ CanDrain
    /\ sock' = Tail(sock) /\ nextBuff' = BuffIndex /\ drained' = drained + 1
    /\ CtlUnchanged
    /\ UNCHANGED <<device, frame, wpc, stopFlag, fifo, pending, cont, kpc, op, resume, hist>>

\* recv(2) throws out of the drain, and out of the control call.
KDrainError ==
    /\ kpc = "drain" /\ drained < MaxDrain /\ BuffIsFree
    /\ hist.errors < MaxErrors
    /\ hist' = [hist EXCEPT !.errors = @ + 1]
    /\ frame' = [frame EXCEPT ![BuffIndex] = Claimed]
    /\ kpc' = "idle"
    /\ CtlUnchanged
    /\ UNCHANGED <<device, sock, nextBuff, wpc, stopFlag, fifo, pending, cont, op, resume, drained>>

\* Mutant: the epoch change keeps the old expectation.
ContinuityKept == cont' = cont
ResetContinuity == cont' = NoContinuity

\* The socket is momentarily empty, or the budget is spent, or the next
\* frame is not free: the drain is over and the continuity starts afresh.
KDrainEnd ==
    /\ kpc = "drain" /\ ~CanDrain
    /\ pending' = NoPending /\ ResetContinuity
    /\ frame' = Release(PendingFrames)
    /\ hist' = [hist EXCEPT !.heard = NoPos, !.gaps = 0]
    /\ kpc' = IF op = "start" \/ resume THEN "pokestart" ELSE "idle"
    /\ resume' = (resume /\ op = "start")
    /\ drained' = 0
    /\ CtlUnchanged
    /\ UNCHANGED <<device, sock, nextBuff, wpc, stopFlag, fifo, op>>

\* START; the worker is started only after its ACK.  The sample clock ran on
\* while the stream was stopped.
KPokeStart(outcome) ==
    /\ kpc = "pokestart"
    /\ IF outcome = "lost" THEN UNCHANGED <<device, hist>>
       ELSE /\ device' = [streaming |-> TRUE, rf |-> device.rf, run |-> device.run + 1,
                          n |-> IF device.streaming THEN device.n ELSE device.n + 1]
            /\ hist' = [hist EXCEPT !.minRun = IF op = "start" THEN device.run + 1 ELSE @]
    /\ IF outcome = "ok" THEN Spawn ELSE UNCHANGED <<wpc, stopFlag>>
    /\ kpc' = "idle"
    /\ CtlUnchanged
    /\ UNCHANGED <<sock, poolVars, fifo, pending, cont, op, resume, drained>>

ControlStep ==
    \/ KJoin \/ KFlush \/ KReset \/ KDrain \/ KDrainError \/ KDrainEnd
    \/ \E o \in PokeOutcomes : KPokeStop(o) \/ KTune(o) \/ KPokeStart(o)

-----------------------------------------------------------------------------
Next ==
    \/ \E fault \in NetFaults \cup {"none"} : DevSend(fault)
    \/ LateArrive
    \/ Worker
    \/ \E mode \in Modes, fmt \in Formats, want \in Requests : RecvCall(mode, fmt, want)
    \/ RecvStep
    \/ \E o \in Ops : KCall(o)
    \/ ControlStep

Spec == Init /\ [][Next]_vars

\* Threads run, waits time out, and the application's loop calls recv()
\* again and again; the device and the control calls are free to stop.
Fairness ==
    /\ WF_vars(Worker)
    /\ WF_vars(\E want \in Requests : RecvCall("fifo", "known", want))
    /\ WF_vars(RecvStep)
    /\ WF_vars(ControlStep)

LiveSpec == Spec /\ Fairness

-----------------------------------------------------------------------------
(* Properties *)

TransportType ==
    /\ device \in [streaming : BOOLEAN, rf : Nat, run : Nat, n : Nat]
    /\ sock \in Seq(Packets)
    /\ late \in Packets \cup {NoPacket}
    /\ frame \in [Frames -> Packets \cup {Free, Claimed}]
    /\ nextBuff \in 0..NumFrames

WorkerType ==
    /\ wpc \in {"none", "top", "claim", "recv", "push", "done"}
    /\ wbuf \in Frames \cup {NoFrame}
    /\ fifo \in Seq(Frames)
    /\ cont \in [have : BOOLEAN, exp : Nat, errors : Nat]

ConsumerType ==
    /\ pending \in [buf : Frames \cup {NoFrame}, pkt : Packets \cup {NoPacket},
                    off : 0..(Spp - 1), disc : BOOLEAN, back : BOOLEAN,
                    exp : Nat \cup {NoPos}]
    /\ cpc \in {"idle", "loop", "wait"}
    /\ call \in [mode : {"fifo", "plain"}, fmt : {"known", "other"}, left : Nat,
                 first : BOOLEAN]
    /\ out \in [got : Seq(Samples), ts : Nat, disc : BOOLEAN, back : BOOLEAN]

ControlType ==
    /\ kpc \in {"idle", "pokestop", "join", "flush", "tune", "reset", "drain", "pokestart"}
    /\ op \in {"none", "start", "stop", "retune"}
    /\ drained \in Nat
    /\ hist \in [base : Nat \cup {NoPos}, heard : Nat \cup {NoPos}, gaps : Nat,
                 minRun : Nat, ops : Nat, errors : Nat]

FlagsType == stopFlag \in BOOLEAN /\ resume \in BOOLEAN

\* The type invariant.
TypeOK == TransportType /\ WorkerType /\ ConsumerType /\ ControlType /\ FlagsType

\* A frame is in one place at a time (the worker, one FIFO entry, or the
\* pending packet), never back in the pool while it is there, and the packet
\* the consumer copies from is still the one whose header it read: a slow
\* reader never sees a frame overwritten by a later datagram.
FrameOwnership ==
    /\ \A i, j \in DOMAIN fifo : fifo[i] = fifo[j] => i = j
    /\ FifoFrames \cap (PendingFrames \cup WorkerFrames) = {}
    /\ PendingFrames \cap WorkerFrames = {}
    /\ \A f \in FifoFrames \cup WorkerFrames : frame[f] \in Packets
    /\ pending.buf # NoFrame => frame[pending.buf] = pending.pkt

\* The pool loses no frame: one that is not free holds a packet on its way
\* to the application, or is the next to be received into.
FramesAccounted ==
    {f \in Frames : frame[f] # Free}
        \subseteq FifoFrames \cup WorkerFrames \cup PendingFrames \cup {BuffIndex}

\* What recv_from_fifo() promises of a call that returned samples: they are
\* contiguous, the time stamp is that of the first, and a gap before it is
\* reported, on that call and no other, as backwards exactly when it is.
SegmentContract ==
    cpc = "idle" /\ out.got # <<>> =>
        LET start == out.got[1].pos
            gap == hist.base # NoPos /\ start # hist.base
        IN  /\ out.ts = start
            /\ call.mode = "fifo" =>
                  /\ \A i \in DOMAIN out.got : out.got[i].pos = start + i - 1
                  /\ out.disc <=> gap
                  /\ out.back <=> (gap /\ start < hist.base)

\* Over a network that does not reorder, the application's position only
\* moves forward, whatever is lost, drained or dropped on the way.
OrderedDelivery ==
    [][hist.heard # NoPos /\ hist'.heard # NoPos => hist'.heard >= hist.heard]_vars

\* The samples a step delivers.
Delivered == {out'.got[i] : i \in DOMAIN out'.got \ DOMAIN out.got}

\* After a retune no sample taken with the old RF setting is delivered, not
\* even one that was waiting in the socket, the FIFO or a half-read packet.
RetuneIsolation == [][\A s \in Delivered : s.rf = device.rf]_vars

\* After a START no sample of an earlier stream is delivered.
StartIsolation == [][\A s \in Delivered : s.run >= hist.minRun]_vars

\* Every gap the application meets was counted by the worker as a timestamp
\* error: the host itself loses nothing without counting it.
GapsAccounted == hist.gaps <= cont.errors

\* Over a perfect network and an ample socket buffer, a slow application
\* loses nothing between START and STOP or retune.
LosslessHost == hist.gaps = 0 /\ cont.errors = 0

\* With the worker joined and no call in progress every frame is back in
\* the pool: STOP "drains FIFO (releases frames)".
StoppedReleasesFrames ==
    wpc = "none" /\ kpc = "idle" => \A f \in Frames : frame[f] = Free

\* "Full stop joins the UDP producer thread and drains FIFO (releases frames)":
\* after the STOP of a stream that was started, whatever its worker met.
FullStopReleasesFrames ==
    op = "stop" /\ kpc = "idle" /\ device.run > 0 /\ ~device.streaming /\ wpc = "none"
    => \A f \in Frames : frame[f] = Free

\* "Stop the RX worker so the data socket has a single consumer": while the
\* control call drains the socket no worker receives from it.
SingleSocketConsumer == kpc = "drain" => wpc = "none"

\* "... single consumer, then drain and (if it was running) re-arm START": while
\* the retune of a stream that was running drains the socket, no worker receives
\* from that socket, also when another thread is in recv() meanwhile.
RetuneDrainsAlone ==
    kpc = "drain" /\ op = "retune" /\ resume /\ device.streaming => wpc # "recv"

\* "Drop oldest when full so HDSDR backpressure does not pin stale IQ": the
\* worker never waits for a frame that a queued packet pins.
BackpressureDropsOldest == ~(wpc = "claim" /\ BuffIndex \in FifoFrames)

\* Datagrams never stay in the socket for ever while the application reads:
\* the pool, the FIFO and the worker never wait for each other in a ring.
SocketDrains == []<>(sock = <<>>)

\* A control call ends, also when the worker it joins is waiting for a frame
\* pinned by packets that nobody reads any more.
ControlReturns == []<>(kpc = "idle")
=============================================================================
