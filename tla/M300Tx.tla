------------------------------- MODULE M300Tx -------------------------------
(***************************************************************************)
(* The transmit stream of one M300: a thread that sends, a thread that     *)
(* starts, configures and stops, and the worker that writes the buffers.   *)
(* Source: src/driver/M300/m300_tx_streamer.cpp; the attenuation callback  *)
(* is m300_rf_ctrl::reapply_tx_attenuation.                                *)
(*                                                                         *)
(* send fills buffers and leaves them to the worker; after the first data  *)
(* of every start it writes the FPGA's TX controls again and then, with    *)
(* the mutex released, has the attenuation applied again.                  *)
(***************************************************************************)
EXTENDS Naturals, Sequences

CONSTANTS
    Lengths,        \* samples of a send
    PacketSizes,    \* samples per packet that configure may set
    MaxAgg,         \* _max_packets_per_write
    NumBufs,        \* send buffers of the transport
    TxSeqMod,       \* values of _sequence (2^16)
    MaxSends,       \* bound: calls of send
    MaxOps,         \* bound: calls of start, configure and stop
    MaxBad          \* bound: commands, callbacks and writes that fail

ASSUME TxStreamAssumption ==
    /\ Lengths \subseteq Nat \ {0} /\ PacketSizes \subseteq Nat \ {0}
    /\ \E s \in PacketSizes: \A t \in PacketSizes: t <= s   \* what a buffer holds
    /\ MaxAgg \in Nat \ {0} /\ NumBufs \in Nat \ {0} /\ TxSeqMod \in Nat \ {0}
    /\ MaxSends \in Nat /\ MaxOps \in Nat /\ MaxBad \in Nat

VARIABLES
    ctl,        \* the controlling thread: "idle", "drain" or "off" of a stop
    sender,     \* the sending thread: "idle", "loop", "relatch", "callback"
    active,     \* _active
    pending,    \* _tx_active_callback_pending
    nextSeq,    \* _sequence
    perPacket,  \* _samples_per_packet
    worker,     \* the thread: "none", "wait", "write", and its stop flag
    queue,      \* _send_queue: buffers, each a sequence of packets
    writing,    \* the buffer the worker is writing
    todo, done, \* samples of the send that are to be sent, that were sent
    clock,      \* the caller's time stamp, kept from call to call
    wire,       \* packets written, with the session and the writes lost before
    source,     \* the FPGA's TX source is on
    relatched,  \* history: the attenuation was applied since the last start
    session,    \* history: starts
    tally       \* bounds: sends, operations, failures; and buffers lost

txVars == <<ctl, sender, active, pending, nextSeq, perPacket, worker, queue, writing,
            todo, done, clock, wire, source, relatched, session, tally>>

TxInit ==
    /\ ctl = "idle" /\ sender = "idle" /\ active = FALSE /\ pending = FALSE
    /\ nextSeq = 0 /\ perPacket = CHOOSE s \in PacketSizes: \A t \in PacketSizes: t <= s
    /\ worker = [at |-> "none", stop |-> FALSE] /\ queue = <<>> /\ writing = <<>>
    /\ todo = 0 /\ done = 0 /\ clock = 0 /\ wire = <<>>
    /\ source = FALSE /\ relatched = FALSE /\ session = 0
    /\ tally = [sends |-> 0, ops |-> 0, bad |-> 0, lost |-> 0]

\* _mutex is free: no call is between its lock and its unlock.  The callback
\* runs without it.
Unlocked == ctl = "idle" /\ sender \in {"idle", "callback"}
Op == tally.ops < MaxOps /\ tally' = [tally EXCEPT !.ops = @ + 1]
Bad == tally.bad < MaxBad /\ tally' = [tally EXCEPT !.bad = @ + 1]
OpBad == /\ tally.ops < MaxOps /\ tally.bad < MaxBad
         /\ tally' = [tally EXCEPT !.ops = @ + 1, !.bad = @ + 1]

-----------------------------------------------------------------------------
(* set_stream_tx_start, configure, set_stream_tx_stop *)

\* configure_hardware_locked: the source is its last command; a command that
\* fails may have been executed.
Configured == source' = TRUE
ConfigureFails == source' \in {source, TRUE}

\* start_send_worker_locked, then the state of the stream, then the hardware: a
\* start that throws leaves the stream active.
Start ==
    /\ Unlocked
    /\ IF worker.at = "none"
       THEN worker' = [at |-> "wait", stop |-> FALSE] /\ queue' = <<>>
       ELSE UNCHANGED <<worker, queue>>
    /\ nextSeq' = 0 /\ active' = TRUE /\ pending' = TRUE
    /\ relatched' = FALSE /\ session' = session + 1
    /\ (Configured /\ Op) \/ (ConfigureFails /\ OpBad)
    /\ UNCHANGED <<ctl, sender, perPacket, writing, todo, done, clock, wire>>

Configure(spp) ==
    /\ Unlocked /\ perPacket' = spp
    /\ \/ active /\ ((Configured /\ Op) \/ (ConfigureFails /\ OpBad))
       \/ ~active /\ Op /\ UNCHANGED source
    /\ UNCHANGED <<ctl, sender, active, pending, nextSeq, worker, queue, writing,
                   todo, done, clock, wire, relatched, session>>

\* The worker is told to stop and joined ...
Stop ==
    /\ Unlocked /\ Op
    /\ active' = FALSE /\ pending' = FALSE
    /\ worker' = [worker EXCEPT !.stop = TRUE] /\ ctl' = "drain"
    /\ UNCHANGED <<sender, nextSeq, perPacket, queue, writing, todo, done, clock,
                   wire, source, relatched, session>>

\* Mutant: the worker is not waited for.
NotJoined == TRUE
Joined == worker.at = "none"

StopJoin ==
    /\ ctl = "drain" /\ Joined /\ ctl' = "off"
    /\ UNCHANGED <<sender, active, pending, nextSeq, perPacket, worker, queue, writing,
                   todo, done, clock, wire, source, relatched, session, tally>>

\* ... and then the FPGA's source is switched off, or the call throws.
StopSource ==
    /\ ctl = "off" /\ ctl' = "idle"
    /\ (source' = FALSE /\ UNCHANGED tally) \/ (source' \in {source, FALSE} /\ Bad)
    /\ UNCHANGED <<sender, active, pending, nextSeq, perPacket, worker, queue, writing,
                   todo, done, clock, wire, relatched, session>>

-----------------------------------------------------------------------------
(* send and send_nonblocking *)

Send(n) ==
    /\ sender = "idle" /\ ctl = "idle" /\ active
    /\ tally.sends < MaxSends /\ tally' = [tally EXCEPT !.sends = @ + 1]
    /\ sender' = "loop" /\ todo' = n /\ done' = 0
    /\ UNCHANGED <<ctl, active, pending, nextSeq, perPacket, worker, queue, writing,
                   clock, wire, source, relatched, session>>

Least(a, b) == IF a < b THEN a ELSE b

\* Mutant: every packet of a buffer carries the time stamp of the buffer.
BufferStamp(i) == clock + done
\* time_stamp + total_sent + aggregate_samples
Stamp(i) == clock + done + (i - 1) * perPacket

\* One buffer: as many packets as it holds and the call has samples for.
Buffer ==
    LET packets == (todo + perPacket - 1) \div perPacket
    IN  [i \in 1..Least(MaxAgg, packets) |->
            [seq |-> (nextSeq + i - 1) % TxSeqMod, time |-> Stamp(i),
             n |-> Least(perPacket, todo - (i - 1) * perPacket), session |-> session]]

\* Mutant: the buffer being written counts as free.
QueuedOnly == Len(queue) < NumBufs
FreeBuffer == Len(queue) + Len(writing) < NumBufs

\* fill_packet for every packet, then enqueue_send_buffer.
FillBuffer ==
    /\ sender = "loop" /\ todo > 0 /\ FreeBuffer
    /\ queue' = Append(queue, Buffer)
    /\ nextSeq' = (nextSeq + Len(Buffer)) % TxSeqMod
    /\ LET n == Least(todo, MaxAgg * perPacket) IN todo' = todo - n /\ done' = done + n
    /\ UNCHANGED <<ctl, sender, active, pending, perPacket, worker, writing, clock,
                   wire, source, relatched, session, tally>>

\* Mutant: the caller's time stamp is advanced by what it asked for.
AdvanceAll == clock' = clock + done + todo
Advance == clock' = clock + done

\* All is queued, or no buffer came free in time.
LoopEnds ==
    /\ sender = "loop" /\ (todo = 0 \/ ~FreeBuffer)
    /\ Advance /\ todo' = 0 /\ done' = 0
    /\ sender' = IF done > 0 /\ pending THEN "relatch" ELSE "idle"
    /\ UNCHANGED <<ctl, active, pending, nextSeq, perPacket, worker, queue, writing,
                   wire, source, relatched, session, tally>>

\* The controls again.  When that throws the callback stays pending.
Relatch ==
    /\ sender = "relatch"
    /\ \/ Configured /\ pending' = FALSE /\ sender' = "callback" /\ UNCHANGED tally
       \/ ConfigureFails /\ Bad /\ sender' = "idle" /\ UNCHANGED pending
    /\ UNCHANGED <<ctl, active, nextSeq, perPacket, worker, queue, writing,
                   todo, done, clock, wire, relatched, session>>

\* Mutant: a callback that fails is not tried again.
NotAgain == UNCHANGED pending
\* The failure is noted for the next send if the stream is still active.
TryAgain == pending' = (pending \/ active)

\* The callback, and after a failure the mutex again.
Callback ==
    /\ sender = "callback"
    /\ \/ relatched' = (relatched \/ ~pending) /\ UNCHANGED <<pending, tally>>
       \/ Bad /\ ctl = "idle" /\ TryAgain /\ UNCHANGED relatched
    /\ sender' = "idle"
    /\ UNCHANGED <<ctl, active, nextSeq, perPacket, worker, queue, writing,
                   todo, done, clock, wire, source, session>>

-----------------------------------------------------------------------------
(* send_worker_func *)

WorkerTake ==
    /\ worker.at = "wait" /\ queue # <<>>
    /\ worker' = [worker EXCEPT !.at = "write"]
    /\ writing' = <<Head(queue)>> /\ queue' = Tail(queue)
    /\ UNCHANGED <<ctl, sender, active, pending, nextSeq, perPacket, todo, done, clock,
                   wire, source, relatched, session, tally>>

\* Mutant: the stop flag alone ends the worker.
StopAtOnce == worker.stop
\* Mutant: the wait for a buffer does not look at the stop flag.
WaitsForData == worker.stop /\ queue # <<>>
MayExit == worker.stop /\ queue = <<>>

WorkerExit ==
    /\ worker.at = "wait" /\ MayExit
    /\ worker' = [worker EXCEPT !.at = "none"]
    /\ UNCHANGED <<ctl, sender, active, pending, nextSeq, perPacket, queue, writing,
                   todo, done, clock, wire, source, relatched, session, tally>>

\* The buffer is released, which writes it; a failed write is not noticed.
WorkerWrite ==
    /\ worker.at = "write" /\ worker' = [worker EXCEPT !.at = "wait"]
    /\ writing' = <<>>
    /\ \/ /\ wire' = wire \o [i \in 1..Len(Head(writing)) |->
                                [p |-> Head(writing)[i], lost |-> tally.lost]]
          /\ UNCHANGED tally
       \/ /\ tally.bad < MaxBad /\ UNCHANGED wire
          /\ tally' = [tally EXCEPT !.bad = @ + 1, !.lost = @ + 1]
    /\ UNCHANGED <<ctl, sender, active, pending, nextSeq, perPacket, queue, todo, done,
                   clock, source, relatched, session>>

Control == Start \/ Stop \/ StopJoin \/ StopSource \/ \E spp \in PacketSizes: Configure(spp)
Sender == FillBuffer \/ LoopEnds \/ Relatch \/ Callback
Worker == WorkerTake \/ WorkerExit \/ WorkerWrite

TxNext == Control \/ Sender \/ Worker \/ \E n \in Lengths: Send(n)

TxFairness == WF_txVars(StopJoin \/ StopSource) /\ WF_txVars(Sender) /\ WF_txVars(Worker)

TxSpec == TxInit /\ [][TxNext]_txVars /\ TxFairness

-----------------------------------------------------------------------------
(* properties *)

TxTypeOK ==
    /\ ctl \in {"idle", "drain", "off"}
    /\ sender \in {"idle", "loop", "relatch", "callback"}
    /\ active \in BOOLEAN /\ pending \in BOOLEAN /\ source \in BOOLEAN
    /\ nextSeq \in 0..(TxSeqMod - 1) /\ perPacket \in PacketSizes
    /\ worker \in [at: {"none", "wait", "write"}, stop: BOOLEAN]
    /\ Len(queue) + Len(writing) <= NumBufs
    /\ todo \in Nat /\ done \in Nat /\ clock \in Nat
    /\ session <= MaxOps /\ tally.bad <= MaxBad

\* What the device receives in one session has consecutive numbers and
\* contiguous time stamps, over buffers, calls, timeouts and failed relatches,
\* except where a write failed.
WireInOrder ==
    \A i \in 1..(Len(wire) - 1):
        LET a == wire[i]
            b == wire[i + 1]
        IN  a.p.session = b.p.session /\ a.lost = b.lost =>
                /\ b.p.seq = (a.p.seq + 1) % TxSeqMod
                /\ b.p.time = a.p.time + a.p.n

\* The comment of set_stream_tx_stop: all queued buffers are drained before the
\* FPGA's source is disconnected.  Nothing that send accepted is left behind
\* when the source is switched off.
DrainedBeforeOff ==
    ctl = "off" => queue = <<>> /\ writing = <<>> /\ worker.at = "none"

\* The comment of send_impl: once for every start, after its first data, the
\* controls and the attenuation are applied.  A stream whose callback is no
\* longer pending has had it done, whatever failed in between.
RelatchedOrPending ==
    active /\ ~pending => relatched \/ sender = "callback"

\* A stop returns: the worker drains its queue and ends.
StopReturns == ctl = "drain" ~> ctl = "idle"
=============================================================================
