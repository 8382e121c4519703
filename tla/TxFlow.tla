------------------------------- MODULE TxFlow -------------------------------
(***************************************************************************)
(* The transmit path of one E-series device: the thread that sends, the    *)
(* flow-control thread that listens to the device, the threads that start, *)
(* stop and abort, and the reader of asynchronous events.  Source:         *)
(* src/driver/transport/super_send_packet_handler.hpp                      *)
(* (send_packet_streamer).                                                 *)
(*                                                                         *)
(* The device asks for a pause when its buffer is full enough and says     *)
(* ready when it has drained; the host learns either only later, and a     *)
(* packet is handed to the socket when its buffer is released, after it    *)
(* was counted.                                                            *)
(***************************************************************************)
EXTENDS Naturals, Sequences

CONSTANTS
    Spp,            \* samples that fit a packet
    Sizes,          \* sample counts of a send
    Modes,          \* "block": send, "try": send_nonblocking
    Flags,          \* burst flags of a call: "none", "sob", "eob", "both"
    SeqMod,         \* values of the packet counter (SDR_TX_SEQ_MASK + 1)
    High, Low,      \* the device pauses at High packets, is ready at Low
    Events,         \* asynchronous events the device may report
    ControlOps,     \* "begin", "end", "abort"
    MaxPkts,        \* bound: packets sent
    MaxOps,         \* bound: control operations
    MaxRepeats      \* bound: flow-control words repeated

ASSUME TxAssumption ==
    /\ Spp \in Nat \ {0} /\ Sizes \subseteq Nat \ {0}
    /\ Modes \subseteq {"block", "try"}
    /\ Flags \subseteq {"none", "sob", "eob", "both"}
    /\ SeqMod \in Nat \ {0}
    /\ High \in Nat /\ Low \in Nat /\ Low < High
    /\ ControlOps \subseteq {"begin", "end", "abort"}
    /\ MaxPkts \in Nat /\ MaxOps \in Nat /\ MaxRepeats \in Nat

VARIABLES
    ready,      \* _ready_to_send
    stopReq,    \* _stop_requested
    stats,      \* monitoring_active, _pause_start set, packets_sent
    spc,        \* where the sending thread is
    call,       \* the mode and the flags of its call
    left, sent, \* samples_left_to_send, total_sent_samples
    clock,      \* the caller's time_stamp, kept from call to call
    seqOut,     \* _last_seq_out
    wire,       \* packets handed to the socket
    evq,        \* _async_events
    dev,        \* the device: buffer level, paused, words and events to come
    fcs,        \* flow-control datagrams on their way to the host
    latePause, lateStop,    \* packets sent since a pause, since an abort
    base, first,            \* packets sent when monitoring, when the call began
    count       \* bounds: control operations, repeated words

hostVars == <<ready, stopReq, stats>>
callVars == <<call, left, sent>>
sendVars == <<spc, callVars, clock, seqOut, wire>>
devVars == <<dev, fcs>>
lateVars == <<latePause, lateStop>>
histVars == <<lateVars, base, first, count>>
vars == <<hostVars, sendVars, evq, devVars, histVars>>

NoStats == [active |-> FALSE, pauseStart |-> FALSE, packets |-> 0]

Init ==
    /\ ready = TRUE /\ stopReq = FALSE /\ stats = NoStats
    /\ spc = "idle" /\ clock = 0 /\ seqOut = 0 /\ wire = <<>>
    /\ call = [mode |-> "block", flags |-> "none"] /\ left = 0 /\ sent = 0
    /\ evq = <<>>
    /\ dev = [level |-> 0, paused |-> FALSE, todo |-> Events]
    /\ fcs = <<>>
    /\ latePause = 0 /\ lateStop = 0 /\ base = 0 /\ first = 0
    /\ count = [ops |-> 0, repeats |-> 0]

-----------------------------------------------------------------------------
(* send_impl, called by send, send_with_metadata and send_nonblocking *)

SendUnchanged == UNCHANGED <<evq, devVars>>

SendCall(mode, flags, n) ==
    /\ spc = "idle" /\ Len(wire) < MaxPkts
    /\ spc' = "top"
    /\ call' = [mode |-> mode, flags |-> flags] /\ left' = n /\ sent' = 0
    /\ first' = Len(wire)
    /\ SendUnchanged
    /\ UNCHANGED <<hostVars, clock, seqOut, wire, lateVars, base, count>>

\* Mutant: the caller's time stamp is advanced only by a complete call.
ForgetPartial == spc' = "idle" /\ clock' = (IF left = 0 THEN clock + sent ELSE clock)
\* The call returns what it has sent and moves the time stamp by as much.
Return == spc' = "idle" /\ clock' = clock + sent

\* The head of the loop: nothing left, or an abort, ends the call ...
SendTop ==
    /\ spc = "top"
    /\ IF left = 0 \/ stopReq THEN Return
       ELSE spc' = "check" /\ UNCHANGED clock
    /\ SendUnchanged
    /\ UNCHANGED <<hostVars, callVars, seqOut, wire, histVars>>

\* ... and a device that is not ready is waited for.
SendCheck ==
    /\ spc = "check"
    /\ spc' = IF ready THEN "fill" ELSE "wait"
    /\ SendUnchanged
    /\ UNCHANGED <<hostVars, callVars, clock, seqOut, wire, histVars>>

\* Mutant: a blocking call goes back to waiting, not to the head of the loop.
WaitsAgain ==
    IF ready /\ ~stopReq THEN spc' = "fill" /\ UNCHANGED clock
    ELSE IF call.mode = "block" THEN spc' = "wait" /\ UNCHANGED clock
    ELSE Return
\* Mutant: a wake-up is taken for readiness.
WakeSends == spc' = "fill" /\ UNCHANGED clock
\* wait_until_send_ready after the wait: woken by READY or an abort, or timed
\* out.  Not ready: a blocking call tries again, another one returns.
WakeUp ==
    IF ready /\ ~stopReq THEN spc' = "fill" /\ UNCHANGED clock
    ELSE IF call.mode = "block" THEN spc' = "top" /\ UNCHANGED clock
    ELSE Return
SendWake ==
    /\ spc = "wait"
    /\ WakeUp
    /\ SendUnchanged
    /\ UNCHANGED <<hostVars, callVars, seqOut, wire, histVars>>

\* Mutant: a packet takes whatever the call still has.
AllAtOnce == left
NumToSend == IF Spp < left THEN Spp ELSE left
\* Mutant: every packet of the call starts a burst.
EveryStarts == call.flags \in {"sob", "both"}
StartsBurst == call.flags \in {"sob", "both"} /\ sent = 0
EndsBurst == call.flags \in {"eob", "both"} /\ NumToSend = left

Packet == [ts |-> clock + sent, len |-> NumToSend, seq |-> seqOut,
           sob |-> StartsBurst, eob |-> EndsBurst]

\* note_packet_sent.
Counted ==
    IF stats.active THEN [stats EXCEPT !.packets = @ + 1] ELSE stats

\* The packet is built and counted ...
SendCount ==
    /\ spc = "fill"
    /\ stats' = Counted
    /\ spc' = "release"
    /\ SendUnchanged
    /\ UNCHANGED <<ready, stopReq, callVars, clock, seqOut, wire, histVars>>

\* ... and goes to the socket when its buffer is released.
SendRelease ==
    /\ spc = "release"
    /\ wire' = Append(wire, Packet)
    /\ left' = left - NumToSend /\ sent' = sent + NumToSend
    /\ seqOut' = (seqOut + 1) % SeqMod
    /\ dev' = [dev EXCEPT !.level = @ + 1]
    /\ latePause' = IF ready THEN 0 ELSE latePause + 1
    /\ lateStop' = IF stopReq THEN lateStop + 1 ELSE 0
    /\ spc' = "top"
    /\ UNCHANGED <<hostVars, call, clock, evq, fcs, base, first, count>>

SendStep == SendTop \/ SendCheck \/ SendWake \/ SendCount \/ SendRelease

-----------------------------------------------------------------------------
(* Control: begin and end of monitoring, abort *)

CtlUnchanged == UNCHANGED <<ready, sendVars, evq, devVars>>
CountOp == count.ops < MaxOps /\ count' = [count EXCEPT !.ops = @ + 1]

\* Mutant: a pause that is already on is not timed.
PauseUnseen == FALSE
PauseOn == ~ready
\* Mutant: the counters of the last monitoring are kept.
KeptStats == [stats EXCEPT !.active = TRUE, !.pauseStart = PauseOn]
FreshStats == [NoStats EXCEPT !.active = TRUE, !.pauseStart = PauseOn]
BeginMonitoring ==
    /\ "begin" \in ControlOps /\ CountOp
    /\ stopReq' = FALSE
    /\ stats' = FreshStats
    /\ base' = Len(wire) /\ lateStop' = 0
    /\ CtlUnchanged /\ UNCHANGED <<latePause, first>>

EndMonitoring ==
    /\ "end" \in ControlOps /\ CountOp
    /\ stopReq' = TRUE /\ stats' = NoStats
    /\ CtlUnchanged /\ UNCHANGED <<lateVars, base, first>>

RequestAbort ==
    /\ "abort" \in ControlOps /\ CountOp
    /\ stopReq' = TRUE
    /\ CtlUnchanged /\ UNCHANGED <<stats, lateVars, base, first>>

-----------------------------------------------------------------------------
(* flow_control_receiver and update_flow_control_state *)

IsEvent(w) == w \notin {"pause", "ready"}

\* Mutant: the pause clock is not stopped.
PauseKept(isReady) ==
    IF stats.active THEN [stats EXCEPT !.pauseStart = @ \/ ~isReady] ELSE stats
Noted(isReady) ==
    IF stats.active THEN [stats EXCEPT !.pauseStart = ~isReady] ELSE stats

FcState ==
    /\ fcs # <<>> /\ ~IsEvent(Head(fcs))
    /\ fcs' = Tail(fcs)
    /\ LET isReady == Head(fcs) = "ready"
       IN  /\ ready' = isReady
           /\ stats' = IF ready = isReady THEN stats ELSE Noted(isReady)
           /\ latePause' = IF isReady THEN 0 ELSE latePause
    /\ UNCHANGED <<stopReq, sendVars, evq, dev, lateStop, base, first, count>>

FcEvent ==
    /\ fcs # <<>> /\ IsEvent(Head(fcs))
    /\ fcs' = Tail(fcs)
    /\ evq' = Append(evq, Head(fcs))
    /\ UNCHANGED <<hostVars, sendVars, dev, histVars>>

\* recv_async_event.
TakeEvent ==
    /\ evq # <<>>
    /\ evq' = Tail(evq)
    /\ UNCHANGED <<hostVars, sendVars, devVars, histVars>>

FlowControl == FcState \/ FcEvent

-----------------------------------------------------------------------------
(* The device *)

DevConsume ==
    /\ dev.level > 0
    /\ dev' = [dev EXCEPT !.level = @ - 1]
    /\ UNCHANGED <<hostVars, sendVars, evq, fcs, histVars>>

\* It asks for a pause, and takes it back, when its level says so.
DevPause ==
    /\ dev.level >= High /\ ~dev.paused
    /\ dev' = [dev EXCEPT !.paused = TRUE]
    /\ fcs' = Append(fcs, "pause")
    /\ UNCHANGED <<hostVars, sendVars, evq, histVars>>
DevReady ==
    /\ dev.level <= Low /\ dev.paused
    /\ dev' = [dev EXCEPT !.paused = FALSE]
    /\ fcs' = Append(fcs, "ready")
    /\ UNCHANGED <<hostVars, sendVars, evq, histVars>>

\* It may say again what it said last.
DevRepeat ==
    /\ count.repeats < MaxRepeats
    /\ fcs' = Append(fcs, IF dev.paused THEN "pause" ELSE "ready")
    /\ count' = [count EXCEPT !.repeats = @ + 1]
    /\ UNCHANGED <<hostVars, sendVars, evq, dev, lateVars, base, first>>

DevEvent(e) ==
    /\ e \in dev.todo
    /\ dev' = [dev EXCEPT !.todo = @ \ {e}]
    /\ fcs' = Append(fcs, e)
    /\ UNCHANGED <<hostVars, sendVars, evq, histVars>>

-----------------------------------------------------------------------------
Next ==
    \/ \E mode \in Modes, flags \in Flags, n \in Sizes : SendCall(mode, flags, n)
    \/ SendStep
    \/ BeginMonitoring \/ EndMonitoring \/ RequestAbort
    \/ FlowControl \/ TakeEvent
    \/ DevConsume \/ DevPause \/ DevReady \/ DevRepeat
    \/ \E e \in Events : DevEvent(e)

Spec == Init /\ [][Next]_vars

\* The threads run, waits time out, and the device plays out its buffer and
\* reports it; no flow-control datagram is lost.
Fairness ==
    /\ WF_vars(SendStep) /\ WF_vars(FlowControl)
    /\ WF_vars(DevConsume) /\ WF_vars(DevReady)

LiveSpec == Spec /\ Fairness

-----------------------------------------------------------------------------
(* Properties *)

Packets == [ts : Nat, len : 1..Spp, seq : 0..(SeqMod - 1), sob : BOOLEAN, eob : BOOLEAN]

HostType ==
    /\ ready \in BOOLEAN /\ stopReq \in BOOLEAN
    /\ stats \in [active : BOOLEAN, pauseStart : BOOLEAN, packets : Nat]
SendType ==
    /\ spc \in {"idle", "top", "check", "wait", "fill", "release"}
    /\ call \in [mode : {"block", "try"}, flags : {"none", "sob", "eob", "both"}]
    /\ left \in Nat /\ sent \in Nat
    /\ spc \in {"check", "wait", "fill", "release"} => left > 0
    /\ clock \in Nat /\ seqOut \in 0..(SeqMod - 1)
WireType == wire \in Seq(Packets)
DeviceType ==
    /\ evq \in Seq(Events) /\ fcs \in Seq(Events \cup {"pause", "ready"})
    /\ dev \in [level : Nat, paused : BOOLEAN, todo : SUBSET Events]
HistType ==
    /\ latePause \in Nat /\ lateStop \in Nat /\ base \in Nat /\ first \in Nat
    /\ count \in [ops : Nat, repeats : Nat]

\* The type invariant.  No packet holds more samples than fit one.
TypeOK == HostType /\ SendType /\ WireType /\ DeviceType /\ HistType

\* A caller that goes on where the last call stopped sends without a hole
\* and without an overlap, whatever paused or aborted its calls; the packet
\* counter misses nothing either.
WireContiguous ==
    /\ \A i \in 1..(Len(wire) - 1) :
          /\ wire[i + 1].ts = wire[i].ts + wire[i].len
          /\ wire[i + 1].seq = (wire[i].seq + 1) % SeqMod
    /\ spc = "idle" /\ wire # <<>> =>
          clock = wire[Len(wire)].ts + wire[Len(wire)].len

\* The first packet of a call and no other starts its burst; its last sample
\* ends it, so a call cut short leaves the burst open.
BurstFraming ==
    \A i \in (first + 1)..Len(wire) :
        /\ wire[i].sob <=> (i = first + 1 /\ call.flags \in {"sob", "both"})
        /\ wire[i].eob <=> (i = Len(wire) /\ left = 0 /\ call.flags \in {"eob", "both"})

\* Once the host knows of a pause, and once more when it is told to stop, at
\* most one packet, already past the check, still goes out.
OneLatePacket == latePause <= 1 /\ lateStop <= 1

\* The pause clock runs exactly while monitoring is on and the device has
\* asked for a pause, also when monitoring begins during one.
PauseClock == stats.pauseStart <=> stats.active /\ ~ready

\* While monitoring is on the count of packets is that of the packets sent
\* since it began, but for one that was between counter and socket.
CountsAgree ==
    stats.active =>
        LET onWire == Len(wire) - base
        IN  stats.packets <= onWire + 1 /\ onWire <= stats.packets + 1

\* A send ends, also one that is waiting for a device that stays paused.
SendReturns == spc # "idle" ~> spc = "idle"
=============================================================================
