-------------------------- MODULE RxDeliveryProofs --------------------------
(***************************************************************************)
(* Proofs about what RxStream delivers: nothing out of order, nothing of an *)
(* RF setting or of a stream that is over, contiguous segments with honest  *)
(* flags, no gap that is not counted, no packet lost by the host itself,    *)
(* and a pool that is whole after a STOP.                                   *)
(*                                                                          *)
(* The frames are abstracted away first: the FIFO and the worker are seen   *)
(* as the packets they hold, and each action as what it does to these.      *)
(***************************************************************************)
EXTENDS RxStreamProofs, FiniteSetTheorems, SequenceTheorems

-----------------------------------------------------------------------------
(* What the theorems assume of the constants. *)

NoOvertaking == "late" \notin NetFaults
NoReceiveErrors == MaxErrors = 0
\* The drain's budget covers what the socket buffer can hold.
DrainCoversSocket == SockCap <= MaxDrain
\* As deployed (2048 and 4096): the pool is empty before the FIFO is full.
PoolBeforeFifo == NumFrames <= FifoCap
PerfectNetwork == NetFaults = {} /\ MaxPkts <= SockCap

-----------------------------------------------------------------------------
(* The packets on their way. *)

Contents(fr, q) == [i \in DOMAIN q |-> fr[q[i]]]
Queued == Contents(frame, fifo)
InHand == IF wbuf = NoFrame THEN NoPacket ELSE frame[wbuf]
After(p) == Stamp(p) + Spp
Clock == Spp * device.n

From(s, x) == \A i \in 1..Len(s) : x <= Stamp(s[i])
Ascending(s) == \A i, j \in 1..Len(s) : i < j => After(s[i]) <= Stamp(s[j])
Upto(s, x) == \A i \in 1..Len(s) : After(s[i]) <= x

\* Position x is not past anything that is still to come.
Beyond(x) ==
    /\ x <= Clock /\ From(sock, x) /\ From(Queued, x)
    /\ InHand # NoPacket => x <= Stamp(InHand)

-----------------------------------------------------------------------------
(* The invariants. *)

\* Without its thread and out of a flush the stream is empty; a frame that is
\* not free is held, unless the worker is receiving into it.
Still == wpc = "none" /\ kpc # "flush" => fifo = <<>> /\ pending = NoPending
Held == FifoFrames \cup WorkerFrames \cup PendingFrames
NoLeak ==
    hist.errors = 0 /\ wpc # "recv" => {f \in Frames : frame[f] # Free} \subseteq Held
HeardIsExpected == hist.heard = pending.exp
QuietInv == Still /\ NoLeak /\ HeardIsExpected /\ hist.errors <= MaxErrors

\* Packets are on their way in the order of their stamps.
SockOrder == late = NoPacket /\ Ascending(sock) /\ Upto(sock, Clock)
HandOrder == InHand # NoPacket => After(InHand) <= Clock /\ From(sock, After(InHand))
QueueOrder ==
    /\ Ascending(Queued) /\ Upto(Queued, Clock)
    /\ \A i \in 1..Len(Queued) :
          /\ From(sock, After(Queued[i]))
          /\ InHand # NoPacket => After(Queued[i]) <= Stamp(InHand)
ReaderOrder ==
    /\ pending.buf # NoFrame =>
          /\ Beyond(After(pending.pkt))
          /\ pending.exp # NoPos => pending.exp <= Stamp(pending.pkt) + pending.off
    /\ pending.buf = NoFrame /\ pending.exp # NoPos => Beyond(pending.exp)
OrderInv == SockOrder /\ HandOrder /\ QueueOrder /\ ReaderOrder

\* What the socket holds while a control call drains it.
DrainInv ==
    /\ late = NoPacket
    /\ Len(sock) <= SockCap
    /\ kpc = "drain" /\ ~device.streaming => drained + Len(sock) <= SockCap
    /\ kpc = "pokestart" /\ ~device.streaming => sock = <<>>

\* All that the stream holds past the socket is in S.
Inside(S) ==
    /\ InHand # NoPacket => InHand \in S
    /\ Queued \in Seq(S)
    /\ pending.buf # NoFrame => pending.pkt \in S

\* Only the socket, and only until it is drained, holds samples of an RF
\* setting that is over.
Tuned == {p \in Packets : p.rf = device.rf}
TuneInv ==
    /\ Inside(Tuned)
    /\ kpc \notin {"reset", "drain"} => sock \in Seq(Tuned)
    /\ kpc = "drain" => \A i \in 1..Len(sock) : drained + i > SockCap => sock[i] \in Tuned

\* The same for the streams before a START.
Started == {p \in Packets : p.run >= hist.minRun}
StartInv ==
    /\ Inside(Started) /\ sock \in Seq(Started)
    /\ hist.minRun <= device.run
    /\ op = "start" /\ kpc # "idle" => ~device.streaming

\* The consumer is inside its call: what it has so far, and what comes next.
Segment ==
    LET start == out.got[1].pos
        gap == hist.base # NoPos /\ start # hist.base
    IN  /\ out.ts = start
        /\ call.mode = "fifo" =>
              /\ \A i \in DOMAIN out.got : out.got[i].pos = start + i - 1
              /\ out.disc <=> gap
              /\ out.back <=> (gap /\ start < hist.base)
NextPos == Stamp(pending.pkt) + pending.off
InCall ==
    /\ call.fmt \in Formats /\ call.left # 0
    /\ call.first <=> out.got = <<>>
    /\ call.first => hist.base = hist.heard
    /\ out.got # <<>> /\ call.mode = "fifo" =>
          /\ pending.exp = out.got[1].pos + Len(out.got)
          /\ pending.buf # NoFrame => NextPos = pending.exp
FlagsHonest ==
    /\ pending.disc <=> (pending.exp # NoPos /\ NextPos # pending.exp)
    /\ pending.back <=> (pending.disc /\ NextPos < pending.exp)
SegmentInv ==
    /\ out.got # <<>> => Segment
    /\ cpc # "idle" => InCall
    /\ pending.buf = NoFrame => ~pending.disc /\ ~pending.back
    /\ pending.buf # NoFrame /\ (cpc = "idle" \/ call.mode = "fifo") => FlagsHonest

\* The books on gaps.  The reader has met g gaps and is at e, the FIFO holds
\* q and the worker h: m[i] bounds the gaps met with packet i, and the
\* worker's statistics c cover them all.
Tick(e, p) == IF e # NoPos /\ Stamp(p) # e THEN 1 ELSE 0
MarkOf(q, m, g) == IF q = <<>> THEN g ELSE m[Len(q)]
EndOf(q, e) == IF q = <<>> THEN e ELSE After(q[Len(q)])
Booked(q, m, g, e) ==
    /\ \A i \in 1..Len(q) : g <= m[i]
    /\ \A i, j \in 1..Len(q) : i <= j => m[i] <= m[j]
    /\ q # <<>> => g + Tick(e, q[1]) <= m[1]
    /\ \A i \in 1..Len(q) : i > 1 => m[i - 1] + Tick(After(q[i - 1]), q[i]) <= m[i]
Counted(k, e, h, c) ==
    /\ h # NoPacket => k + Tick(e, h) <= c.errors /\ c.have /\ c.exp = After(h)
    /\ h = NoPacket => k <= c.errors /\ (e # NoPos => c.have /\ c.exp = e)
Books(q, g, e, h, c) ==
    \E m \in Seq(Nat) :
        Len(m) = Len(q) /\ Booked(q, m, g, e) /\ Counted(MarkOf(q, m, g), EndOf(q, e), h, c)
ReaderEnd == IF pending.buf # NoFrame THEN After(pending.pkt) ELSE pending.exp
LedgerInv == Books(Queued, hist.gaps, ReaderEnd, InHand, cont)

\* Over a perfect network the socket holds the packets before the next one.
Newest(s, n) == \A i \in 1..Len(s) : s[i].ok /\ s[i].n + Len(s) + 1 = n + i
PerfectInv ==
    /\ Newest(sock, device.n) /\ Len(sock) <= device.n /\ Len(sock) <= MaxPkts
    /\ cont.errors = 0
    /\ cont.have /\ kpc # "drain" => cont.exp = Spp * (device.n - Len(sock))
    /\ kpc = "pokestart" => ~cont.have

-----------------------------------------------------------------------------
(* A STOP gives every frame back. *)

LEMMA StepKeepsIInv == ASSUME IInv, ~ConcurrentControl, [Next]_vars PROVE IInv'
  BY DeviceStep, WorkerStep, RecvCallStep, ConsumerStep, ControlCallStep,
     ControlProgress, Stutter DEF Next

LEMMA InitQuiet == Init => QuietInv
  BY SizesAssumption DEF Init, QuietInv, Still, NoLeak, HeardIsExpected, NoPending, Held

\* A step that leaves the frames and their holders alone.
LEMMA QuietUntouched ==
  ASSUME QuietInv, IInv, IInv',
         UNCHANGED <<frame, fifo, pending, wbuf>>,
         hist'.heard = hist.heard, hist.errors <= hist'.errors, hist'.errors <= MaxErrors,
         wpc' = "none" /\ kpc' # "flush" => wpc = "none" /\ kpc # "flush",
         hist'.errors = 0 /\ wpc' # "recv" => wpc # "recv"
  PROVE  QuietInv'
  <1>1. hist.errors \in Nat /\ hist'.errors \in Nat
    BY DEF IInv, TypeOK, ControlType
  <1>2. UNCHANGED Held
    BY DEF Held, FifoFrames, WorkerFrames, PendingFrames
  <1>3. NoLeak'
    BY <1>1, <1>2 DEF QuietInv, NoLeak
  <1> QED
    BY <1>3 DEF QuietInv, Still, HeardIsExpected

\* Frames enter the hands of a holder, or are freed by the one that lets go.
LEMMA LeakMoved ==
  ASSUME QuietInv, wpc # "recv", hist'.errors = hist.errors,
         \A f \in Frames : frame'[f] # Free => frame[f] # Free,
         \A f \in Held : frame'[f] = Free \/ f \in Held'
  PROVE  NoLeak'
  BY DEF QuietInv, NoLeak

LEMMA QuietWorker ==
  ASSUME IInv, IInv', QuietInv, Worker
  PROVE  QuietInv'
  <1> USE DEF IInv, TypeOK
  <1>0. /\ UNCHANGED <<pending, kpc>> /\ hist'.heard = hist.heard /\ hist.errors \in Nat
        /\ wpc # "none" /\ wpc' # "none" /\ hist.errors <= MaxErrors
    BY DEF Worker, WorkerLoop, WorkerClaim, WorkerClaimTimeout, WorkerRecv, WorkerRecvTimeout,
           WorkerRecvError, WorkerPush, WorkerUnchanged, ctlVars, ControlType, QuietInv
  <1>1. CASE WorkerLoop \/ WorkerClaimTimeout
    <2>1. UNCHANGED <<frame, fifo, wbuf, hist>> /\ wpc # "recv"
      BY <1>1 DEF WorkerLoop, WorkerClaimTimeout, poolVars
    <2> QED
      BY <1>0, <2>1, QuietUntouched
  <1>2. CASE WorkerClaim
    <2>1. UNCHANGED fifo /\ wpc' = "recv"
      BY <1>2 DEF WorkerClaim
    <2> QED
      BY <1>0, <1>2, <2>1 DEF WorkerClaim, QuietInv, Still, NoLeak, HeardIsExpected
  <1>3. CASE WorkerRecv
    <2>1. UNCHANGED <<fifo, hist>> /\ wbuf = NoFrame /\ BuffIndex \in Frames
      BY <1>3, BuffIndexType DEF WorkerRecv, ProtocolInv
    <2>2. \/ wbuf' = BuffIndex
          \/ wbuf' = wbuf /\ frame' = [frame EXCEPT ![BuffIndex] = Free]
      BY <1>3 DEF WorkerRecv
    <2>3. \A f \in Frames : f # BuffIndex => frame'[f] = frame[f]
      BY <1>3 DEF WorkerRecv, TransportType
    <2>4. \A f \in Frames : frame[f] # Free => f \in Held \/ f = BuffIndex
      BY DEF FramesAccounted, Held
    <2>5. Held \subseteq Held'
      BY <1>0, <2>1 DEF Held, FifoFrames, WorkerFrames, PendingFrames
    <2>6. wbuf' = BuffIndex => BuffIndex \in Held'
      BY <2>1 DEF Held, WorkerFrames, Frames, NoFrame
    <2>7. wbuf' # BuffIndex => frame'[BuffIndex] = Free
      BY <2>1, <2>2 DEF TransportType
    <2>8. NoLeak'
      BY <2>3, <2>4, <2>5, <2>6, <2>7 DEF NoLeak
    <2> QED
      BY <1>0, <2>1, <2>8 DEF QuietInv, Still, HeardIsExpected
  <1>4. CASE WorkerRecvTimeout
    <2>1. UNCHANGED <<fifo, hist, wbuf>> /\ frame' = [frame EXCEPT ![BuffIndex] = Free]
      BY <1>4 DEF WorkerRecvTimeout, WorkerUnchanged
    <2>2. \A f \in Frames : frame'[f] # Free => f \in Held
      BY <2>1 DEF FramesAccounted, Held, TransportType
    <2>3. UNCHANGED Held
      BY <1>0, <2>1 DEF Held, FifoFrames, WorkerFrames, PendingFrames
    <2> QED
      BY <1>0, <2>1, <2>2, <2>3 DEF QuietInv, Still, NoLeak, HeardIsExpected
  <1>5. CASE WorkerRecvError
    <2>1. UNCHANGED <<frame, fifo, wbuf>> /\ hist.errors < MaxErrors /\ hist'.errors = hist.errors + 1
      BY <1>5 DEF WorkerRecvError, poolVars, ControlType
    <2> QED
      BY <1>0, <2>1, SizesAssumption, QuietUntouched
  <1>6. CASE WorkerPush
    <2>1. /\ UNCHANGED hist /\ wpc # "recv" /\ wbuf \in Frames
          /\ fifo \in Seq(Frames) /\ Distinct(fifo) /\ wbuf \notin RangeOf(fifo)
      BY <1>6 DEF WorkerPush, ProtocolInv, WorkerType, FrameOwnership, FifoFrames,
                  WorkerFrames, RangeOf, Distinct
    <2>2. FifoFrames = RangeOf(fifo) /\ FifoFrames' = RangeOf(fifo')
      BY DEF FifoFrames, RangeOf
    <2>3. \/ frame' = frame /\ RangeOf(fifo') = RangeOf(fifo) \cup {wbuf}
          \/ frame' = Release({Head(fifo)})
             /\ RangeOf(fifo') = (RangeOf(fifo) \ {Head(fifo)}) \cup {wbuf}
      <3>1. CASE Len(fifo) = FifoCap
        <4>1. fifo # <<>>
          BY <3>1, SizesAssumption
        <4>2. /\ Tail(fifo) \in Seq(Frames) /\ Distinct(Tail(fifo))
              /\ RangeOf(Tail(fifo)) = RangeOf(fifo) \ {Head(fifo)}
          BY <2>1, <4>1, TailFrames
        <4> QED
          BY <1>6, <2>1, <3>1, <4>2, AppendFrames DEF WorkerPush, Push
      <3>2. CASE Len(fifo) # FifoCap
        BY <1>6, <2>1, <3>2, AppendFrames DEF WorkerPush, Push
      <3> QED
        BY <3>1, <3>2
    <2>4. \A f \in Frames : frame'[f] # Free => frame[f] # Free
      BY <2>3 DEF Release
    <2>5. \A f \in Held : frame'[f] = Free \/ f \in Held'
      <3>1. PendingFrames' = PendingFrames /\ WorkerFrames \subseteq {wbuf}
        BY <1>0 DEF PendingFrames, WorkerFrames
      <3>2. RangeOf(fifo) \subseteq Frames
        BY <2>1 DEF RangeOf
      <3> QED
        BY <2>2, <2>3, <3>1, <3>2 DEF Held, Release
    <2>6. NoLeak'
      BY <2>1, <2>4, <2>5, LeakMoved
    <2> QED
      BY <1>0, <2>1, <2>6 DEF QuietInv, Still, HeardIsExpected
  <1> QED
    BY <1>1, <1>2, <1>3, <1>4, <1>5, <1>6 DEF Worker

LEMMA QuietConsumer ==
  ASSUME IInv, IInv', QuietInv, RecvStep
  PROVE  QuietInv'
  <1> USE DEF IInv, TypeOK
  <1>0. /\ UNCHANGED <<wbuf, kpc>> /\ kpc = "idle" /\ hist'.errors = hist.errors
        /\ hist.errors \in Nat /\ hist.errors <= MaxErrors
        /\ wpc' = wpc \/ (wpc = "none" /\ wpc' = "top")
    BY DEF RecvStep, RecvStart, RecvPop, RecvTimeout, RecvCopy, RecvUnknownFormat, Spawn,
           RecvUnchanged, ctlVars, ControlType, QuietInv, ProtocolInv
  <1>1. CASE RecvStart \/ RecvTimeout
    <2>1. UNCHANGED <<frame, fifo, pending, hist>>
      BY <1>1 DEF RecvStart, RecvTimeout
    <2> QED
      BY <1>0, <2>1, QuietUntouched
  <1>2. CASE RecvPop
    <2>1. /\ UNCHANGED <<frame, wpc>> /\ pending'.buf = Head(fifo) /\ pending'.exp = pending.exp
          /\ pending.buf = NoFrame /\ fifo' = Tail(fifo) /\ fifo # <<>>
          /\ hist'.heard = hist.heard /\ fifo \in Seq(Frames) /\ Distinct(fifo)
      BY <1>2 DEF RecvPop, ConsumerType, ControlType, ProtocolInv, WorkerType, FrameOwnership, Distinct
    <2>2. /\ RangeOf(fifo') = RangeOf(fifo) \ {Head(fifo)}
          /\ Head(fifo) \in Frames /\ Head(fifo) \in RangeOf(fifo)
      BY <2>1, TailFrames
    <2>3. Held' = Held
      <3>1. FifoFrames = RangeOf(fifo) /\ FifoFrames' = RangeOf(fifo')
        BY DEF FifoFrames, RangeOf
      <3>2. PendingFrames = {} /\ PendingFrames' = {Head(fifo)} /\ UNCHANGED WorkerFrames
        BY <1>0, <2>1, <2>2 DEF PendingFrames, WorkerFrames, Frames, NoFrame
      <3> QED
        BY <2>2, <3>1, <3>2 DEF Held
    <2> QED
      BY <1>0, <2>1, <2>3 DEF QuietInv, Still, NoLeak, HeardIsExpected
  <1>3. CASE RecvUnknownFormat
    <2>1. /\ UNCHANGED <<frame, fifo, wpc, hist>> /\ pending.buf # NoFrame
          /\ pending'.buf = pending.buf /\ pending'.exp = pending.exp
      BY <1>3 DEF RecvUnknownFormat, ConsumerType
    <2>2. UNCHANGED Held
      BY <1>0, <2>1 DEF Held, FifoFrames, WorkerFrames, PendingFrames
    <2> QED
      BY <1>0, <2>1, <2>2 DEF QuietInv, Still, NoLeak, HeardIsExpected, NoPending
  <1>4. CASE RecvCopy
    <2> DEFINE after == Stamp(pending.pkt) + (pending.off + NumToCopy)
    <2>1. UNCHANGED <<fifo, wpc>> /\ pending.buf # NoFrame /\ hist' = [hist EXCEPT !.heard = after]
      BY <1>4 DEF RecvCopy
    <2>2. \/ pending' = [NoPending EXCEPT !.exp = after] /\ frame' = Release({pending.buf})
          \/ /\ frame' = frame
             /\ pending' = [pending EXCEPT !.disc = FALSE, !.back = FALSE, !.exp = after,
                                           !.off = pending.off + NumToCopy]
      BY <1>4 DEF RecvCopy
    <2> HIDE DEF after
    <2>3. pending'.exp = after /\ hist'.heard = after
      BY <2>1, <2>2 DEF ConsumerType, ControlType, NoPending
    <2>4. FifoFrames' = FifoFrames /\ WorkerFrames' = WorkerFrames
      BY <1>0, <2>1 DEF FifoFrames, WorkerFrames
    <2>5. NoLeak'
      <3>1. CASE frame' = Release({pending.buf})
        BY <1>0, <2>1, <2>4, <3>1 DEF QuietInv, NoLeak, Held, PendingFrames, Release
      <3>2. CASE frame' = frame /\ pending'.buf = pending.buf
        BY <1>0, <2>1, <2>4, <3>2 DEF QuietInv, NoLeak, Held, PendingFrames
      <3> QED
        BY <2>2, <3>1, <3>2 DEF ConsumerType
    <2> QED
      BY <1>0, <2>1, <2>3, <2>5 DEF QuietInv, Still, HeardIsExpected, NoPending
  <1> QED
    BY <1>1, <1>2, <1>3, <1>4 DEF RecvStep

LEMMA QuietControl ==
  ASSUME IInv, IInv', QuietInv, ControlStep
  PROVE  QuietInv'
  <1> USE DEF IInv, TypeOK
  <1>0. /\ UNCHANGED wbuf /\ hist.errors \in Nat /\ hist.errors <= MaxErrors
    BY DEF ControlStep, KJoin, KFlush, KReset, KDrain, KDrainError, KDrainEnd, KPokeStop,
           KTune, KPokeStart, CtlUnchanged, ControlType, QuietInv
  <1>1. CASE KJoin
    BY <1>0, <1>1, QuietUntouched DEF KJoin, poolVars
  <1>2. CASE KFlush
    <2>1. /\ wpc = "none" /\ wpc' = "none" /\ fifo' = <<>> /\ pending' = NoPending
          /\ hist' = [hist EXCEPT !.heard = NoPos] /\ wbuf = NoFrame
          /\ frame' = Release(FifoFrames \cup PendingFrames)
      BY <1>2 DEF KFlush, DrainFifo, StopPending, ProtocolInv
    <2>2. hist'.heard = NoPos /\ hist'.errors = hist.errors
      BY <2>1 DEF ControlType
    <2>3. NoLeak'
      BY <2>1, <2>2 DEF QuietInv, NoLeak, Held, Release, WorkerFrames
    <2> QED
      BY <1>0, <2>1, <2>2, <2>3 DEF QuietInv, Still, HeardIsExpected, NoPending
  <1>3. CASE KReset
    <2>1. /\ wpc = "none" /\ wpc' = "none" /\ kpc = "reset" /\ fifo' = <<>>
          /\ UNCHANGED <<pending, hist>> /\ frame' = Release(FifoFrames)
      BY <1>3 DEF KReset, DrainFifo, ProtocolInv
    <2>2. NoLeak'
      BY <1>0, <2>1 DEF QuietInv, NoLeak, Held, Release, WorkerFrames, PendingFrames
    <2> QED
      BY <1>0, <2>1, <2>2 DEF QuietInv, Still, HeardIsExpected
  <1>4. CASE KDrain
    BY <1>0, <1>4, QuietUntouched DEF KDrain
  <1>5. CASE KDrainError
    <2>1. /\ UNCHANGED <<wpc, fifo, pending>> /\ wpc = "none" /\ kpc = "drain"
          /\ hist'.errors = hist.errors + 1 /\ hist.errors < MaxErrors /\ hist'.heard = hist.heard
      BY <1>5 DEF KDrainError, ControlType, ProtocolInv
    <2> QED
      BY <1>0, <2>1, SizesAssumption DEF QuietInv, Still, NoLeak, HeardIsExpected
  <1>6. CASE KDrainEnd
    <2>1. /\ wpc = "none" /\ kpc = "drain" /\ UNCHANGED <<wpc, fifo>> /\ pending' = NoPending
          /\ hist' = [hist EXCEPT !.heard = NoPos, !.gaps = 0] /\ wbuf = NoFrame
          /\ frame' = Release(PendingFrames)
      BY <1>6 DEF KDrainEnd, ProtocolInv
    <2>2. hist'.heard = NoPos /\ hist'.errors = hist.errors
      BY <2>1 DEF ControlType
    <2>3. FifoFrames' = FifoFrames
      BY <2>1 DEF FifoFrames
    <2>4. NoLeak'
      BY <2>1, <2>2, <2>3 DEF QuietInv, NoLeak, Held, Release, WorkerFrames
    <2> QED
      BY <1>0, <2>1, <2>2, <2>4 DEF QuietInv, Still, HeardIsExpected, NoPending
  <1>7. ASSUME NEW o \in PokeOutcomes, KPokeStop(o) \/ KTune(o) PROVE QuietInv'
    <2>1. /\ UNCHANGED <<frame, fifo, pending, hist, wpc>> /\ kpc # "flush"
      BY <1>7 DEF KPokeStop, KTune, poolVars
    <2> QED
      BY <1>0, <2>1, QuietUntouched
  <1>8. ASSUME NEW o \in PokeOutcomes, KPokeStart(o) PROVE QuietInv'
    <2>1. /\ UNCHANGED <<frame, fifo, pending>> /\ kpc = "pokestart"
          /\ hist'.heard = hist.heard /\ hist'.errors = hist.errors
          /\ wpc' = wpc \/ (wpc = "none" /\ wpc' = "top")
      BY <1>8 DEF KPokeStart, poolVars, ControlType, Spawn
    <2> QED
      BY <1>0, <2>1, QuietUntouched
  <1> QED
    BY <1>1, <1>2, <1>3, <1>4, <1>5, <1>6, <1>7, <1>8 DEF ControlStep

LEMMA QuietStep ==
  ASSUME IInv, IInv', ~ConcurrentControl, QuietInv, [Next]_vars
  PROVE  QuietInv'
  <1> USE DEF IInv, TypeOK
  <1>0. hist.errors \in Nat /\ hist.errors <= MaxErrors
    BY DEF ControlType, QuietInv
  <1>1. ASSUME NEW fault \in NetFaults \cup {"none"}, DevSend(fault) PROVE QuietInv'
    BY <1>0, <1>1, QuietUntouched DEF DevSend, poolVars, workerVars, ctlVars
  <1>2. CASE LateArrive
    BY <1>0, <1>2, QuietUntouched DEF LateArrive, poolVars, workerVars, ctlVars
  <1>3. ASSUME NEW mode \in Modes, NEW fmt \in Formats, NEW want \in Requests,
               RecvCall(mode, fmt, want)
        PROVE  QuietInv'
    <2>1. /\ UNCHANGED <<frame, fifo, pending, wbuf, wpc, kpc>>
          /\ hist'.heard = hist.heard /\ hist'.errors = hist.errors
      BY <1>3 DEF RecvCall, RecvUnchanged, ctlVars, ControlType
    <2> QED
      BY <1>0, <2>1, QuietUntouched
  <1>4. ASSUME NEW o \in Ops, KCall(o) PROVE QuietInv'
    <2>1. /\ UNCHANGED <<frame, fifo, pending, wbuf, wpc>> /\ kpc = "idle"
          /\ hist'.heard = hist.heard /\ hist'.errors = hist.errors
      BY <1>4 DEF KCall, CtlUnchanged, poolVars, ControlType
    <2> QED
      BY <1>0, <2>1, QuietUntouched
  <1>5. CASE UNCHANGED vars
    BY <1>0, <1>5, QuietUntouched DEF vars, poolVars, workerVars, ctlVars
  <1> QED
    BY <1>1, <1>2, <1>3, <1>4, <1>5, QuietWorker, QuietConsumer, QuietControl DEF Next

LEMMA QuietHolds == ~ConcurrentControl /\ Spec => []QuietInv
  <1> SUFFICES ASSUME ~ConcurrentControl PROVE Spec => []QuietInv
    OBVIOUS
  <1>1. QuietInv /\ IInv /\ [Next]_vars => (QuietInv /\ IInv)'
    BY StepKeepsIInv, QuietStep
  <1> QED
    BY <1>1, InitIInv, InitQuiet, PTL DEF Spec

\* STOP "drains FIFO (releases frames)": with the worker joined and no call
\* in progress the pool is whole, unless recv(2) itself failed on a frame.
THEOREM StopReleasesPool ==
  ~ConcurrentControl /\ NoReceiveErrors /\ Spec => []StoppedReleasesFrames
  <1> SUFFICES ASSUME ~ConcurrentControl, NoReceiveErrors PROVE Spec => []StoppedReleasesFrames
    OBVIOUS
  <1>1. QuietInv /\ IInv => StoppedReleasesFrames
    <2> SUFFICES ASSUME QuietInv, IInv, wpc = "none", kpc = "idle", NEW f \in Frames
                 PROVE  frame[f] = Free
      BY DEF StoppedReleasesFrames
    <2>1. hist.errors = 0
      BY DEF QuietInv, NoReceiveErrors, IInv, TypeOK, ControlType
    <2>2. fifo = <<>> /\ pending.buf = NoFrame /\ wbuf = NoFrame
      BY DEF QuietInv, Still, IInv, ProtocolInv, NoPending
    <2>3. Held = {}
      BY <2>2 DEF Held, FifoFrames, WorkerFrames, PendingFrames
    <2> QED
      BY <2>1, <2>3 DEF QuietInv, NoLeak
  <1> QED
    BY <1>1, QuietHolds, InductiveInvariant, PTL

-----------------------------------------------------------------------------
(* The steps as the packets see them. *)

Same == UNCHANGED <<Queued, InHand>>

\* A step of a thread that moves no packet.
Bystander ==
    /\ UNCHANGED <<device, sock, late, pending, cont, call, out, op, drained, resume>>
    /\ hist'.base = hist.base /\ hist'.heard = hist.heard
    /\ hist'.gaps = hist.gaps /\ hist'.minRun = hist.minRun
    /\ \/ UNCHANGED <<kpc, cpc>>
       \/ UNCHANGED kpc /\ cpc = "loop" /\ cpc' = "wait"
       \/ UNCHANGED kpc /\ cpc = "wait" /\ cpc' = "idle"
       \/ UNCHANGED cpc /\ kpc = "join" /\ kpc' = "flush"
       \/ UNCHANGED cpc /\ kpc = "drain" /\ kpc' = "idle" /\ MaxErrors # 0

\* The worker takes a packet from the socket, and pushes it into the FIFO.
Take ==
    /\ wpc = "recv" /\ sock # <<>> /\ sock' = Tail(sock)
    /\ InHand = NoPacket /\ UNCHANGED Queued
    /\ IF Head(sock).ok THEN InHand' = Head(sock) /\ NoteContinuity(Head(sock))
                        ELSE InHand' = NoPacket /\ UNCHANGED cont
    /\ UNCHANGED <<device, late, pending, cpc, call, out, kpc, op, resume, drained, hist>>
Pushed == IF Len(fifo) = FifoCap THEN Tail(Queued) ELSE Queued
Put ==
    /\ InHand \in Packets /\ InHand' = NoPacket
    /\ Len(fifo) = FifoCap => Queued # <<>>
    /\ Queued' = Append(Pushed, InHand)
    /\ UNCHANGED <<device, sock, late, pending, cont, cpc, call, out, kpc, op, resume, drained, hist>>

\* The reader takes the oldest packet of the FIFO.
Opens(p) == Gap(p) /\ call.mode = "fifo"
Pop ==
    /\ cpc = "wait" /\ pending.buf = NoFrame
    /\ Queued # <<>> /\ Queued' = Tail(Queued) /\ UNCHANGED InHand
    /\ LET p == Head(Queued)
       IN  /\ pending'.buf # NoFrame /\ pending'.pkt = p /\ pending'.off = 0
           /\ pending'.exp = pending.exp
           /\ pending'.disc = (pending.disc \/ Opens(p))
           /\ pending'.back = (IF Opens(p) THEN Stamp(p) < pending.exp ELSE pending.back)
           /\ cpc' = IF Opens(p) /\ out.got # <<>> THEN "idle" ELSE "loop"
           /\ hist' = [hist EXCEPT !.gaps = @ + (IF Gap(p) THEN 1 ELSE 0)]
    /\ UNCHANGED <<device, sock, late, cont, call, out, kpc, op, resume, drained>>

LEMMA ElementsInRange ==
  ASSUME NEW T, NEW s \in Seq(T)
  PROVE  \A i \in 1..Len(s) : s[i] \in RangeOf(s)
  BY DEF RangeOf

LEMMA ContentsSeq ==
  ASSUME NEW q \in Seq(Frames), NEW fr, \A i \in 1..Len(q) : fr[q[i]] \in Packets
  PROVE  /\ Contents(fr, q) \in Seq(Packets) /\ Len(Contents(fr, q)) = Len(q)
         /\ \A i \in 1..Len(q) : Contents(fr, q)[i] = fr[q[i]]
  BY DEF Contents

LEMMA ContentsTail ==
  ASSUME NEW q \in Seq(Frames), NEW fr, \A i \in 1..Len(q) : fr[q[i]] \in Packets, q # <<>>
  PROVE  Contents(fr, Tail(q)) = Tail(Contents(fr, q))
  <1> DEFINE c == Contents(fr, q)
             t == Contents(fr, Tail(q))
  <1>1. c \in Seq(Packets) /\ Len(c) = Len(q) /\ \A i \in 1..Len(q) : c[i] = fr[q[i]]
    BY ContentsSeq
  <1>2. /\ Tail(q) \in Seq(Frames) /\ Len(Tail(q)) = Len(q) - 1 /\ Len(q) \in Nat \ {0}
        /\ \A i \in 1..(Len(q) - 1) : Tail(q)[i] = q[i + 1] /\ i + 1 \in 1..Len(q)
    OBVIOUS
  <1>3. \A i \in 1..Len(Tail(q)) : fr[Tail(q)[i]] \in Packets
    BY <1>2
  <1>4. t \in Seq(Packets) /\ Len(t) = Len(q) - 1 /\ \A i \in 1..(Len(q) - 1) : t[i] = fr[q[i + 1]]
    <2> DEFINE r == Tail(q)
    <2> HIDE DEF r
    <2>1. r \in Seq(Frames) /\ \A i \in 1..Len(r) : fr[r[i]] \in Packets
      BY <1>2, <1>3 DEF r
    <2>2. /\ Contents(fr, r) \in Seq(Packets) /\ Len(Contents(fr, r)) = Len(r)
          /\ \A i \in 1..Len(r) : Contents(fr, r)[i] = fr[r[i]]
      BY <2>1, ContentsSeq
    <2> QED
      BY <1>2, <2>2 DEF r
  <1> HIDE DEF c, t
  <1>5. /\ Tail(c) \in Seq(Packets) /\ Len(Tail(c)) = Len(q) - 1
        /\ \A i \in 1..(Len(q) - 1) : Tail(c)[i] = c[i + 1]
    BY <1>1, <1>2
  <1>6. \A i \in 1..Len(t) : t[i] = Tail(c)[i]
    BY <1>1, <1>2, <1>4, <1>5
  <1>7. t = Tail(c)
    BY <1>4, <1>5, <1>6, SeqEqual
  <1> QED
    BY <1>7 DEF c, t

LEMMA ContentsAppend ==
  ASSUME NEW q \in Seq(Frames), NEW fr, \A i \in 1..Len(q) : fr[q[i]] \in Packets,
         NEW f \in Frames, fr[f] \in Packets
  PROVE  Contents(fr, Append(q, f)) = Append(Contents(fr, q), fr[f])
  <1> DEFINE c == Contents(fr, q)
             a == Contents(fr, Append(q, f))
  <1>1. c \in Seq(Packets) /\ Len(c) = Len(q) /\ \A i \in 1..Len(q) : c[i] = fr[q[i]]
    BY ContentsSeq
  <1>2. /\ Append(q, f) \in Seq(Frames) /\ Len(Append(q, f)) = Len(q) + 1
        /\ \A i \in 1..Len(q) : Append(q, f)[i] = q[i]
        /\ Append(q, f)[Len(q) + 1] = f
    OBVIOUS
  <1>3. \A i \in 1..(Len(q) + 1) : fr[Append(q, f)[i]] \in Packets
    BY <1>2
  <1>4. a \in Seq(Packets) /\ Len(a) = Len(q) + 1
        /\ \A i \in 1..(Len(q) + 1) : a[i] = fr[Append(q, f)[i]]
    <2> DEFINE r == Append(q, f)
    <2> HIDE DEF r
    <2>1. r \in Seq(Frames) /\ \A i \in 1..Len(r) : fr[r[i]] \in Packets
      BY <1>2, <1>3 DEF r
    <2>2. /\ Contents(fr, r) \in Seq(Packets) /\ Len(Contents(fr, r)) = Len(r)
          /\ \A i \in 1..Len(r) : Contents(fr, r)[i] = fr[r[i]]
      BY <2>1, ContentsSeq
    <2> QED
      BY <1>2, <2>2 DEF r
  <1> HIDE DEF c, a
  <1>5. /\ Append(c, fr[f]) \in Seq(Packets) /\ Len(Append(c, fr[f])) = Len(q) + 1
        /\ \A i \in 1..Len(q) : Append(c, fr[f])[i] = c[i]
        /\ Append(c, fr[f])[Len(q) + 1] = fr[f]
    BY <1>1
  <1>6. \A i \in 1..Len(a) : a[i] = Append(c, fr[f])[i]
    BY <1>1, <1>2, <1>4, <1>5
  <1>7. a = Append(c, fr[f])
    BY <1>4, <1>5, <1>6, SeqEqual
  <1> QED
    BY <1>7 DEF c, a

LEMMA ContentsKept ==
  ASSUME NEW q, NEW fr, NEW gr, \A f \in RangeOf(q) : gr[f] = fr[f]
  PROVE  Contents(gr, q) = Contents(fr, q)
  BY DEF Contents, RangeOf

LEMMA ViewTypes ==
  ASSUME IInv
  PROVE  /\ Queued \in Seq(Packets) /\ Len(Queued) = Len(fifo)
         /\ InHand \in Packets \cup {NoPacket}
         /\ InHand # NoPacket <=> wbuf # NoFrame
         /\ wpc = "none" => InHand = NoPacket
  <1> USE DEF IInv, TypeOK
  <1>1. fifo \in Seq(Frames) /\ \A i \in 1..Len(fifo) : frame[fifo[i]] \in Packets
    BY DEF WorkerType, FrameOwnership, FifoFrames
  <1>2. Queued \in Seq(Packets) /\ Len(Queued) = Len(fifo)
    BY <1>1, ContentsSeq DEF Queued
  <1>3. wbuf # NoFrame => frame[wbuf] \in Packets
    BY DEF FrameOwnership, WorkerFrames
  <1> QED
    BY <1>2, <1>3, SentinelsAssumption DEF InHand, ProtocolInv, NoPacket

LEMMA SameViews ==
  ASSUME IInv, UNCHANGED <<fifo, wbuf>>,
         \A f \in FifoFrames \cup WorkerFrames : frame'[f] = frame[f]
  PROVE  Same
  <1>1. FifoFrames = RangeOf(fifo) /\ (wbuf # NoFrame => wbuf \in WorkerFrames)
    BY DEF FifoFrames, RangeOf, WorkerFrames
  <1> QED
    BY <1>1, ContentsKept DEF Same, Queued, InHand

LEMMA TakeView == ASSUME IInv, WorkerRecv PROVE Take
  <1> USE DEF IInv, TypeOK
  <1>1. /\ wpc = "recv" /\ sock # <<>> /\ sock' = Tail(sock) /\ UNCHANGED fifo
        /\ UNCHANGED <<device, late, pending, cpc, call, out, kpc, op, resume, drained, hist>>
    BY DEF WorkerRecv, WorkerUnchanged, appVars, ctlVars
  <1>2. wbuf = NoFrame /\ frame[BuffIndex] \notin Packets /\ BuffIndex \in Frames /\ BuffIndex # NoFrame
    BY <1>1, BuffIndexType, SentinelsAssumption DEF ProtocolInv, Frames, NoFrame
  <1>3. \A f \in Frames : f # BuffIndex => frame'[f] = frame[f]
    BY DEF WorkerRecv, TransportType
  <1>4. \A f \in RangeOf(fifo) : f \in Frames /\ f # BuffIndex
    BY <1>2 DEF FrameOwnership, FifoFrames, WorkerType, RangeOf
  <1>5. UNCHANGED Queued
    BY <1>1, <1>3, <1>4, ContentsKept DEF Queued
  <1>6. InHand = NoPacket
    BY <1>2 DEF InHand
  <1>7. CASE Head(sock).ok
    BY <1>1, <1>2, <1>5, <1>6, <1>7 DEF WorkerRecv, Take, InHand, TransportType
  <1>8. CASE ~Head(sock).ok
    BY <1>1, <1>2, <1>5, <1>6, <1>8 DEF WorkerRecv, Take, InHand
  <1> QED
    BY <1>7, <1>8

LEMMA PutView == ASSUME IInv, WorkerPush PROVE Put
  <1> USE DEF IInv, TypeOK
  <1>1. /\ UNCHANGED <<device, sock, late, pending, cont, cpc, call, out, kpc, op, resume,
                       drained, hist>>
        /\ wbuf \in Frames /\ wbuf # NoFrame /\ wbuf' = NoFrame
    BY DEF WorkerPush, WorkerUnchanged, appVars, ctlVars, ProtocolInv, WorkerType
  <1>2. InHand = frame[wbuf] /\ InHand \in Packets /\ InHand' = NoPacket
    BY <1>1 DEF InHand, FrameOwnership, WorkerFrames
  <1>3. /\ fifo \in Seq(Frames) /\ Distinct(fifo) /\ wbuf \notin RangeOf(fifo)
        /\ \A i \in 1..Len(fifo) : frame[fifo[i]] \in Packets
    BY <1>1 DEF FrameOwnership, WorkerType, FifoFrames, WorkerFrames, RangeOf, Distinct
  <1>4. Queued \in Seq(Packets) /\ Len(Queued) = Len(fifo)
    BY ViewTypes
  <1>5. CASE Len(fifo) = FifoCap
    <2>1. fifo # <<>> /\ Queued # <<>>
      BY <1>3, <1>4, <1>5, SizesAssumption
    <2>2. fifo' = Append(Tail(fifo), wbuf) /\ frame' = Release({Head(fifo)})
      BY <1>5 DEF WorkerPush, Push
    <2>3. /\ Tail(fifo) \in Seq(Frames) /\ Head(fifo) \in RangeOf(fifo)
          /\ RangeOf(Tail(fifo)) = RangeOf(fifo) \ {Head(fifo)}
      BY <1>3, <2>1, TailFrames
    <2>4. \A f \in RangeOf(Tail(fifo)) \cup {wbuf} : frame'[f] = frame[f]
      <3>1. RangeOf(fifo) \subseteq Frames
        BY <1>3 DEF RangeOf
      <3>2. \A f \in Frames : f # Head(fifo) => frame'[f] = frame[f]
        BY <2>2 DEF Release
      <3>3. Head(fifo) \notin RangeOf(Tail(fifo)) \cup {wbuf}
        BY <1>3, <2>3
      <3> QED
        BY <1>1, <2>3, <3>1, <3>2, <3>3
    <2>5. \A f \in RangeOf(fifo) : frame[f] \in Packets
      BY <1>3 DEF RangeOf
    <2>6. Contents(frame', Tail(fifo)) = Contents(frame, Tail(fifo))
      BY <2>4, ContentsKept
    <2>7. Contents(frame, Tail(fifo)) = Tail(Queued)
      BY <1>3, <2>1, ContentsTail DEF Queued
    <2>8. \A i \in 1..Len(Tail(fifo)) : frame'[Tail(fifo)[i]] \in Packets
      <3>1. \A i \in 1..Len(Tail(fifo)) : Tail(fifo)[i] \in RangeOf(Tail(fifo))
        BY <2>3, ElementsInRange
      <3>2. \A f \in RangeOf(Tail(fifo)) : frame'[f] \in Packets
        BY <2>3, <2>4, <2>5
      <3> QED
        BY <3>1, <3>2
    <2>9. frame'[wbuf] = InHand /\ frame'[wbuf] \in Packets
      BY <1>2, <2>4
    <2>10. Queued' = Append(Contents(frame', Tail(fifo)), frame'[wbuf])
      BY <1>1, <2>2, <2>3, <2>8, <2>9, ContentsAppend DEF Queued
    <2> QED
      BY <1>1, <1>2, <1>5, <2>1, <2>6, <2>7, <2>9, <2>10 DEF Put, Pushed
  <1>6. CASE Len(fifo) # FifoCap
    <2>1. fifo' = Append(fifo, wbuf) /\ frame' = frame
      BY <1>6 DEF WorkerPush, Push
    <2>2. Queued' = Append(Queued, InHand)
      BY <1>1, <1>2, <1>3, <2>1, ContentsAppend DEF Queued
    <2> QED
      BY <1>1, <1>2, <1>6, <2>2 DEF Put, Pushed
  <1> QED
    BY <1>5, <1>6

LEMMA PopView == ASSUME IInv, RecvPop PROVE Pop
  <1> USE DEF IInv, TypeOK
  <1> DEFINE p == frame[Head(fifo)]
  <1>1. /\ cpc = "wait" /\ fifo # <<>> /\ fifo' = Tail(fifo) /\ pending.buf = NoFrame
        /\ UNCHANGED <<device, sock, late, frame, wbuf, cont, call, out, kpc, op, resume, drained>>
    BY DEF RecvPop, RecvUnchanged, ProtocolInv, sockVars, ctlVars
  <1>2. /\ fifo \in Seq(Frames) /\ \A i \in 1..Len(fifo) : frame[fifo[i]] \in Packets
        /\ Head(fifo) = fifo[1] /\ 1 \in 1..Len(fifo) /\ Head(fifo) # NoFrame
    <2>1. fifo \in Seq(Frames) /\ Head(fifo) = fifo[1] /\ 1 \in 1..Len(fifo)
      BY <1>1 DEF WorkerType
    <2>2. \A i \in 1..Len(fifo) : fifo[i] \in FifoFrames /\ fifo[i] \in Frames
      BY <2>1 DEF FifoFrames
    <2> QED
      BY <2>1, <2>2 DEF FrameOwnership, Frames, NoFrame
  <1>3. Queued' = Tail(Queued)
    BY <1>1, <1>2, ContentsTail DEF Queued
  <1>4. Queued # <<>> /\ Head(Queued) = p
    BY <1>2, ContentsSeq DEF Queued
  <1>5. InHand' = InHand
    BY <1>1 DEF InHand
  <1>6. /\ pending' = [pending EXCEPT !.buf = Head(fifo), !.pkt = p, !.off = 0,
                           !.disc = @ \/ Opens(p),
                           !.back = IF Opens(p) THEN Stamp(p) < pending.exp ELSE @]
        /\ cpc' = (IF Opens(p) /\ out.got # <<>> THEN "idle" ELSE "loop")
        /\ hist' = [hist EXCEPT !.gaps = @ + (IF Gap(p) THEN 1 ELSE 0)]
    BY DEF RecvPop, Opens
  <1> HIDE DEF p
  <1>7. /\ pending'.buf # NoFrame /\ pending'.pkt = p /\ pending'.off = 0
        /\ pending'.exp = pending.exp
        /\ pending'.disc = (pending.disc \/ Opens(p))
        /\ pending'.back = (IF Opens(p) THEN Stamp(p) < pending.exp ELSE pending.back)
    BY <1>2, <1>6 DEF ConsumerType
  <1> QED
    BY <1>1, <1>3, <1>4, <1>5, <1>6, <1>7 DEF Pop

\* Every other step leaves the FIFO and the worker's packet as they are, or
\* empties the FIFO.
LEMMA EmptyView ==
  ASSUME IInv, KFlush \/ KReset
  PROVE  Queued' = <<>> /\ InHand = NoPacket /\ InHand' = NoPacket
  <1>1. fifo' = <<>> /\ wpc = "none" /\ wbuf' = wbuf /\ wbuf = NoFrame
    BY DEF KFlush, KReset, DrainFifo, CtlUnchanged, IInv, ProtocolInv
  <1> QED
    BY <1>1 DEF Queued, Contents, InHand

LEMMA DeviceViews ==
  ASSUME IInv, (\E fault \in NetFaults \cup {"none"} : DevSend(fault)) \/ LateArrive
  PROVE  Same
  BY SameViews DEF DevSend, LateArrive, poolVars, workerVars

LEMMA WorkerViews ==
  ASSUME IInv, Worker
  PROVE  Take \/ Put \/ (Bystander /\ Same)
  <1> USE DEF IInv, TypeOK
  <1>1. CASE WorkerRecv
    BY <1>1, TakeView
  <1>2. CASE WorkerPush
    BY <1>2, PutView
  <1>3. CASE WorkerLoop \/ WorkerClaim \/ WorkerClaimTimeout \/ WorkerRecvTimeout \/ WorkerRecvError
    <2>1. /\ UNCHANGED <<device, sock, late, pending, cont, cpc, call, out, kpc, op, resume, drained>>
          /\ UNCHANGED <<fifo, wbuf>>
          /\ hist' = hist \/ hist' = [hist EXCEPT !.errors = @ + 1]
      BY <1>3 DEF WorkerLoop, WorkerClaim, WorkerClaimTimeout, WorkerRecvTimeout,
                  WorkerRecvError, WorkerUnchanged, appVars, ctlVars
    <2>2. Bystander
      BY <2>1 DEF Bystander, ControlType
    <2>3. \A f \in FifoFrames \cup WorkerFrames : frame'[f] = frame[f]
      <3>1. CASE WorkerLoop \/ WorkerClaimTimeout \/ WorkerRecvError
        BY <3>1 DEF WorkerLoop, WorkerClaimTimeout, WorkerRecvError, poolVars
      <3>2. CASE WorkerClaim \/ WorkerRecvTimeout
        <4>1. frame[BuffIndex] \notin Packets /\ \A f \in Frames : f # BuffIndex => frame'[f] = frame[f]
          BY <3>2, SentinelsAssumption DEF WorkerClaim, WorkerRecvTimeout, BuffIsFree, ProtocolInv,
                                           TransportType
        <4>2. FifoFrames \cup WorkerFrames \subseteq Frames \ {BuffIndex}
          BY <4>1 DEF FrameOwnership, WorkerType, FifoFrames, WorkerFrames
        <4> QED
          BY <4>1, <4>2
      <3> QED
        BY <1>3, <3>1, <3>2
    <2> QED
      BY <2>1, <2>2, <2>3, SameViews
  <1> QED
    BY <1>1, <1>2, <1>3 DEF Worker

LEMMA ConsumerViews ==
  ASSUME IInv, RecvStep
  PROVE  Pop \/ (RecvCopy /\ Same) \/ (RecvUnknownFormat /\ Same) \/ (Bystander /\ Same)
  <1> USE DEF IInv, TypeOK
  <1>1. CASE RecvPop
    BY <1>1, PopView
  <1>2. CASE RecvStart \/ RecvTimeout
    <2>1. UNCHANGED <<device, sock, late, frame, fifo, wbuf, pending, cont, call, out, kpc, op,
                      resume, drained, hist>>
      BY <1>2 DEF RecvStart, RecvTimeout, RecvUnchanged, sockVars, ctlVars
    <2>2. Bystander
      BY <1>2, <2>1 DEF Bystander, RecvStart, RecvTimeout
    <2> QED
      BY <2>1, <2>2, SameViews
  <1>3. CASE RecvUnknownFormat
    BY <1>3, SameViews DEF RecvUnknownFormat, RecvUnchanged
  <1>4. CASE RecvCopy
    <2>1. UNCHANGED <<fifo, wbuf>> /\ pending.buf # NoFrame
          /\ (frame' = frame \/ frame' = Release({pending.buf}))
      BY <1>4 DEF RecvCopy, RecvUnchanged
    <2>2. pending.buf \notin FifoFrames \cup WorkerFrames /\ FifoFrames \cup WorkerFrames \subseteq Frames
      BY <2>1 DEF FrameOwnership, PendingFrames, FifoFrames, WorkerFrames, WorkerType
    <2>3. \A f \in FifoFrames \cup WorkerFrames : frame'[f] = frame[f]
      BY <2>1, <2>2 DEF Release
    <2> QED
      BY <1>4, <2>1, <2>3, SameViews
  <1> QED
    BY <1>1, <1>2, <1>3, <1>4 DEF RecvStep

LEMMA ControlViews ==
  ASSUME IInv, ControlStep, QuietInv
  PROVE  \/ KFlush \/ KReset \/ (Bystander /\ Same) \/ (KDrain /\ Same) \/ (KDrainEnd /\ Same)
         \/ \E o \in PokeOutcomes : (KPokeStop(o) \/ KTune(o) \/ KPokeStart(o)) /\ Same
  <1> USE DEF IInv, TypeOK
  <1>1. CASE KJoin
    <2>1. Bystander
      BY <1>1 DEF Bystander, KJoin, CtlUnchanged, appVars
    <2> QED
      BY <1>1, <2>1, SameViews DEF KJoin, poolVars, CtlUnchanged
  <1>2. CASE KDrain
    BY <1>2, SameViews DEF KDrain, CtlUnchanged
  <1>3. CASE KDrainError
    <2>1. Bystander
      <3>1. hist.errors \in Nat /\ hist.errors < MaxErrors
        BY <1>3 DEF KDrainError, ControlType
      <3>2. MaxErrors # 0
        BY <3>1
      <3> QED
        BY <1>3, <3>2 DEF Bystander, KDrainError, CtlUnchanged, appVars, ControlType
    <2>2. /\ frame[BuffIndex] \notin Packets /\ UNCHANGED <<fifo, wbuf>>
          /\ \A f \in Frames : f # BuffIndex => frame'[f] = frame[f]
      BY <1>3, SentinelsAssumption DEF KDrainError, BuffIsFree, CtlUnchanged, TransportType
    <2>3. FifoFrames \cup WorkerFrames \subseteq Frames \ {BuffIndex}
      BY <2>2 DEF FrameOwnership, WorkerType, FifoFrames, WorkerFrames
    <2> QED
      BY <2>1, <2>2, <2>3, SameViews
  <1>4. CASE KDrainEnd
    <2>1. UNCHANGED <<fifo, wbuf>> /\ frame' = Release(PendingFrames)
      BY <1>4 DEF KDrainEnd, CtlUnchanged
    <2>2. \A f \in FifoFrames \cup WorkerFrames : f \in Frames /\ f \notin PendingFrames
      BY DEF FrameOwnership, WorkerType, FifoFrames, WorkerFrames
    <2>3. \A f \in FifoFrames \cup WorkerFrames : frame'[f] = frame[f]
      BY <2>1, <2>2 DEF Release
    <2> QED
      BY <1>4, <2>1, <2>3, SameViews
  <1>5. ASSUME NEW o \in PokeOutcomes, KPokeStop(o) \/ KTune(o) \/ KPokeStart(o) PROVE Same
    BY <1>5, SameViews DEF KPokeStop, KTune, KPokeStart, poolVars, CtlUnchanged
  <1> QED
    BY <1>1, <1>2, <1>3, <1>4, <1>5 DEF ControlStep

-----------------------------------------------------------------------------
(* Delivery in the order of the sample clock. *)

LEMMA ClockNat == ASSUME IInv PROVE Clock \in Nat
  BY SizesAssumption DEF IInv, TypeOK, TransportType, Clock

LEMMA ClockTicks ==
  ASSUME NEW m \in Nat, NEW n \in Nat, m <= n
  PROVE  Spp * m <= Spp * n
  BY SizesAssumption

LEMMA ClockTick == ASSUME NEW n \in Nat PROVE Spp * (n + 1) = Spp * n + Spp
  BY SizesAssumption

LEMMA AfterNat ==
  ASSUME NEW p \in Packets
  PROVE  Stamp(p) \in Nat /\ After(p) \in Nat /\ Stamp(p) <= After(p)
  BY StampNat, SizesAssumption DEF After

LEMMA AfterNats ==
  ASSUME NEW s \in Seq(Packets)
  PROVE  \A i \in 1..Len(s) : s[i] \in Packets /\ Stamp(s[i]) \in Nat /\ After(s[i]) \in Nat
  <1>1. \A i \in 1..Len(s) : s[i] \in Packets
    OBVIOUS
  <1> QED
    BY <1>1, AfterNat

\* The orders above survive the loss of the oldest element and a newest one.
LEMMA TailOrder ==
  ASSUME NEW s \in Seq(Packets), s # <<>>, NEW x \in Nat
  PROVE  /\ Ascending(s) => Ascending(Tail(s)) /\ From(Tail(s), After(Head(s)))
         /\ From(s, x) => From(Tail(s), x)
         /\ Upto(s, x) => Upto(Tail(s), x)
  BY DEF Ascending, From, Upto

LEMMA AppendOrder ==
  ASSUME NEW s \in Seq(Packets), NEW p \in Packets, NEW x \in Nat
  PROVE  /\ Ascending(s) /\ Upto(s, Stamp(p)) => Ascending(Append(s, p))
         /\ From(s, x) /\ x <= Stamp(p) => From(Append(s, p), x)
         /\ Upto(s, x) /\ After(p) <= x => Upto(Append(s, p), x)
  BY DEF Ascending, From, Upto

LEMMA AppendElements ==
  ASSUME NEW s \in Seq(Packets), NEW p \in Packets
  PROVE  /\ Append(s, p) \in Seq(Packets) /\ Len(Append(s, p)) = Len(s) + 1 /\ Len(s) \in Nat
         /\ Append(s, p)[Len(s) + 1] = p
         /\ \A i \in 1..Len(Append(s, p)) :
               \/ i = Len(s) + 1 /\ Append(s, p)[i] = p
               \/ i \in 1..Len(s) /\ Append(s, p)[i] = s[i]
  <1>1. /\ Append(s, p) \in Seq(Packets) /\ Len(Append(s, p)) = Len(s) + 1 /\ Len(s) \in Nat
        /\ Append(s, p)[Len(s) + 1] = p /\ \A i \in 1..Len(s) : Append(s, p)[i] = s[i]
    OBVIOUS
  <1>2. \A i \in 1..(Len(s) + 1) : i = Len(s) + 1 \/ i \in 1..Len(s)
    BY <1>1
  <1> QED
    BY <1>1, <1>2

LEMMA UptoFrom ==
  ASSUME NEW s \in Seq(Packets), NEW x \in Nat, NEW y \in Nat, x <= y
  PROVE  /\ From(s, y) => From(s, x)
         /\ Upto(s, x) => Upto(s, y)
  <1>1. \A i \in 1..Len(s) : Stamp(s[i]) \in Nat /\ After(s[i]) \in Nat
    BY StampNat, SizesAssumption DEF After
  <1> QED
    BY <1>1 DEF From, Upto

LEMMA FlowTypes ==
  ASSUME IInv
  PROVE  /\ sock \in Seq(Packets) /\ Queued \in Seq(Packets) /\ Clock \in Nat
         /\ InHand \in Packets \cup {NoPacket}
         /\ pending.buf # NoFrame => pending.pkt \in Packets
         /\ pending.exp \in Nat \cup {NoPos} /\ pending.off \in 0..(Spp - 1)
         /\ NoPos \notin Nat /\ Spp \in Nat \ {0} /\ device.n \in Nat
  BY ViewTypes, ClockNat, SizesAssumption, SentinelsAssumption
  DEF IInv, TypeOK, TransportType, ConsumerType, ProtocolInv, NoPos

LEMMA InitOrder == Init => OrderInv
  BY SizesAssumption
  DEF Init, OrderInv, SockOrder, HandOrder, QueueOrder, ReaderOrder, Queued, Contents, InHand, Ascending, Upto, From, NoPending

\* Nothing moves and the clock does not go back.
LEMMA OrderKept ==
  ASSUME IInv, OrderInv, Same, UNCHANGED <<sock, late>>, Clock <= Clock', Clock' \in Nat,
         UNCHANGED <<pending.buf, pending.pkt, pending.off, pending.exp>>
  PROVE  OrderInv'
  <1>1. \A x \in Nat : Beyond(x) => Beyond(x)'
    BY FlowTypes DEF Beyond, Same
  <1>2. Upto(sock, Clock') /\ Upto(Queued, Clock')
    BY FlowTypes, UptoFrom DEF OrderInv, SockOrder, QueueOrder
  <1>3. InHand # NoPacket => After(InHand) \in Nat
    BY FlowTypes, AfterNat
  <1>4. pending.buf # NoFrame => After(pending.pkt) \in Nat
    BY FlowTypes, AfterNat
  <1> QED
    BY <1>1, <1>2, <1>3, <1>4, FlowTypes
    DEF OrderInv, SockOrder, HandOrder, QueueOrder, ReaderOrder, Same

\* The device sends: its packet is the newest.
LEMMA OrderSend ==
  ASSUME IInv, OrderInv, Same, NEW fault \in NetFaults \cup {"none"}, DevSend(fault), NoOvertaking
  PROVE  OrderInv'
  <1> DEFINE p == [n |-> device.n, rf |-> device.rf, run |-> device.run, ok |-> fault # "bad"]
  <1>1. p \in Packets /\ Stamp(p) = Clock
    BY DEF IInv, TypeOK, TransportType, Packets, Stamp, Clock
  <1>2. fault # "late"
    BY DEF NoOvertaking
  <1>3. /\ sock' = sock \/ sock' = Append(sock, p)
        /\ late' = late /\ device'.n = device.n + 1 /\ pending' = pending
    BY <1>2 DEF DevSend, Offer, IInv, TypeOK, TransportType
  <1>4. Clock' = Clock + Spp
    <2>1. Clock' = Spp * (device.n + 1)
      BY <1>3 DEF Clock
    <2> QED
      BY <2>1, ClockTick, FlowTypes DEF Clock
  <1> HIDE DEF p
  <1>5. CASE sock' = sock
    BY <1>3, <1>4, <1>5, FlowTypes, OrderKept
  <1>6. CASE sock' = Append(sock, p)
    <2>1. After(p) = Clock' /\ Clock' \in Nat /\ Clock <= Clock'
      BY <1>1, <1>4, FlowTypes DEF After
    <2>2. Ascending(sock') /\ Upto(sock', Clock')
      <3>1. Ascending(sock) /\ Upto(sock, Stamp(p)) /\ Upto(sock, Clock')
        BY <1>1, <2>1, FlowTypes, UptoFrom DEF OrderInv, SockOrder
      <3> QED
        BY <1>1, <1>6, <2>1, <3>1, FlowTypes, AppendOrder
    <2>3. Upto(Queued, Clock')
      BY <2>1, FlowTypes, UptoFrom DEF OrderInv, QueueOrder
    <2>4. \A x \in Nat : x <= Clock /\ From(sock, x) => From(sock', x)
      BY <1>1, <1>6, FlowTypes, AppendOrder
    <2>5. \A x \in Nat : Beyond(x) => Beyond(x)'
      BY <2>1, <2>4, FlowTypes DEF Beyond, Same
    <2>6. InHand # NoPacket => After(InHand) \in Nat
      BY FlowTypes, AfterNat
    <2>7. pending.buf # NoFrame => After(pending.pkt) \in Nat
      BY FlowTypes, AfterNat
    <2>8. \A i \in 1..Len(Queued) : After(Queued[i]) \in Nat /\ After(Queued[i]) <= Clock
      BY FlowTypes, AfterNats DEF OrderInv, QueueOrder, Upto
    <2>9. SockOrder'
      BY <1>3, <2>2 DEF SockOrder, OrderInv
    <2>10. HandOrder'
      BY <2>1, <2>4, <2>6, FlowTypes DEF HandOrder, OrderInv, Same
    <2>11. QueueOrder'
      BY <2>3, <2>4, <2>8 DEF QueueOrder, OrderInv, Same
    <2>12. ReaderOrder'
      BY <1>3, <2>5, <2>7, FlowTypes DEF ReaderOrder, OrderInv
    <2> QED
      BY <2>9, <2>10, <2>11, <2>12 DEF OrderInv
  <1> QED
    BY <1>3, <1>5, <1>6

\* The oldest datagram of the socket is drained, or thrown away as bad.
LEMMA OrderSkip ==
  ASSUME IInv, OrderInv, Same, UNCHANGED <<late, pending, device>>, sock # <<>>, sock' = Tail(sock)
  PROVE  OrderInv'
  <1>1. Clock' = Clock
    BY DEF Clock
  <1>2. Ascending(sock') /\ Upto(sock', Clock) /\ \A x \in Nat : From(sock, x) => From(sock', x)
    BY FlowTypes, TailOrder DEF OrderInv, SockOrder
  <1>3. \A x \in Nat : Beyond(x) => Beyond(x)'
    BY <1>1, <1>2 DEF Beyond, Same
  <1>4. InHand # NoPacket => After(InHand) \in Nat
    BY FlowTypes, AfterNat
  <1>5. pending.buf # NoFrame => After(pending.pkt) \in Nat
    BY FlowTypes, AfterNat
  <1>6. \A i \in 1..Len(Queued) : After(Queued[i]) \in Nat
    BY FlowTypes, AfterNats
  <1> QED
    BY <1>1, <1>2, <1>3, <1>4, <1>5, <1>6, FlowTypes
    DEF OrderInv, SockOrder, HandOrder, QueueOrder, ReaderOrder, Same

LEMMA OrderTake ==
  ASSUME IInv, OrderInv, Take
  PROVE  OrderInv'
  <1> DEFINE p == Head(sock)
  <1>1. /\ sock # <<>> /\ sock' = Tail(sock) /\ InHand = NoPacket /\ Queued' = Queued
        /\ UNCHANGED <<late, pending, device>>
    BY DEF Take
  <1>2. CASE ~p.ok
    <2>1. Same
      BY <1>1, <1>2 DEF Take, Same
    <2> QED
      BY <1>1, <2>1, OrderSkip
  <1>3. CASE p.ok
    <2>1. InHand' = p /\ p = sock[1] /\ 1 \in 1..Len(sock) /\ p \in Packets
      BY <1>1, <1>3, FlowTypes DEF Take
    <2> HIDE DEF p
    <2>2. Stamp(p) \in Nat /\ After(p) \in Nat /\ Stamp(p) <= After(p)
      BY <2>1, FlowTypes, StampNat DEF After
    <2>3. Clock' = Clock
      BY <1>1 DEF Clock
    <2>4. Ascending(sock') /\ Upto(sock', Clock) /\ \A x \in Nat : From(sock, x) => From(sock', x)
      BY <1>1, FlowTypes, TailOrder DEF OrderInv, SockOrder
    <2>5. After(p) <= Clock /\ From(sock', After(p))
      BY <1>1, <2>1, FlowTypes, TailOrder DEF OrderInv, SockOrder, Upto, p
    <2>6. \A x \in Nat : From(sock, x) => x <= Stamp(p)
      BY <2>1 DEF From
    <2>7. \A x \in Nat : Beyond(x) => Beyond(x)'
      BY <1>1, <2>1, <2>3, <2>4, <2>6 DEF Beyond
    <2>8. pending.buf # NoFrame => After(pending.pkt) \in Nat
      BY FlowTypes, AfterNat
    <2>9. \A i \in 1..Len(Queued) : After(Queued[i]) \in Nat
      BY FlowTypes, AfterNats
    <2>10. SockOrder' /\ HandOrder'
      BY <1>1, <2>1, <2>3, <2>4, <2>5 DEF SockOrder, HandOrder, OrderInv
    <2>11. QueueOrder'
      BY <1>1, <2>1, <2>3, <2>4, <2>6, <2>9 DEF QueueOrder, OrderInv
    <2>12. ReaderOrder'
      BY <1>1, <2>7, <2>8, FlowTypes DEF ReaderOrder, OrderInv
    <2> QED
      BY <2>10, <2>11, <2>12 DEF OrderInv
  <1> QED
    BY <1>2, <1>3

LEMMA PushedTypes ==
  ASSUME IInv, Put
  PROVE  /\ Pushed \in Seq(Packets) /\ InHand \in Packets
         /\ Len(fifo) = FifoCap => Queued # <<>>
         /\ Pushed = Queued \/ (Queued # <<>> /\ Pushed = Tail(Queued))
         /\ \A i \in 1..Len(Pushed) : \E j \in 1..Len(Queued) : Pushed[i] = Queued[j]
  <1>1. Queued \in Seq(Packets) /\ InHand \in Packets /\ (Len(fifo) = FifoCap => Queued # <<>>)
    BY FlowTypes DEF Put
  <1>2. CASE Len(fifo) = FifoCap
    <2>1. Pushed = Tail(Queued) /\ Queued # <<>>
      BY <1>1, <1>2 DEF Pushed
    <2>2. \A i \in 1..Len(Tail(Queued)) : i + 1 \in 1..Len(Queued) /\ Tail(Queued)[i] = Queued[i + 1]
      BY <1>1, <2>1
    <2> QED
      BY <1>1, <2>1, <2>2
  <1>3. CASE Len(fifo) # FifoCap
    BY <1>1, <1>3 DEF Pushed
  <1> QED
    BY <1>2, <1>3

\* The worker's packet is newer than all that is queued, and older than all
\* in the socket.
LEMMA OrderPut ==
  ASSUME IInv, OrderInv, Put
  PROVE  OrderInv'
  <1> DEFINE p == InHand
             s == Pushed
  <1>1. /\ UNCHANGED <<sock, late, pending, device>> /\ InHand' = NoPacket
        /\ Queued' = Append(s, p) /\ p # NoPacket /\ p \in Packets
    BY SentinelsAssumption DEF Put, NoPacket
  <1>2. s \in Seq(Packets) /\ \A i \in 1..Len(s) : \E j \in 1..Len(Queued) : s[i] = Queued[j]
    BY PushedTypes
  <1>3. Clock' = Clock /\ After(p) <= Clock /\ From(sock, After(p))
    BY <1>1 DEF Clock, OrderInv, HandOrder
  <1>4. Ascending(s) /\ Upto(s, Clock) /\ \A x \in Nat : From(Queued, x) => From(s, x)
    BY PushedTypes, TailOrder, FlowTypes DEF OrderInv, QueueOrder
  <1>5. Upto(Queued, Stamp(p)) /\ \A i \in 1..Len(Queued) : From(sock, After(Queued[i]))
    BY <1>1 DEF OrderInv, QueueOrder, Upto
  <1>6. Upto(s, Stamp(p)) /\ \A i \in 1..Len(s) : From(sock, After(s[i]))
    BY <1>2, <1>5 DEF Upto
  <1>7. Stamp(p) \in Nat /\ After(p) \in Nat
    BY <1>1, AfterNat
  <1> HIDE DEF p, s
  <1>8. QueueOrder'
    <2>1. Ascending(Queued') /\ Upto(Queued', Clock)
      BY <1>1, <1>2, <1>3, <1>4, <1>6, AppendOrder, FlowTypes
    <2>2. \A i \in 1..Len(Queued') : From(sock, After(Queued'[i]))
      <3>1. \A i \in 1..Len(Queued') : Queued'[i] = p \/ (i \in 1..Len(s) /\ Queued'[i] = s[i])
        BY <1>1, <1>2, AppendElements
      <3> QED
        BY <1>3, <1>6, <3>1
    <2> QED
      BY <1>1, <1>3, <2>1, <2>2 DEF QueueOrder
  <1>9. \A x \in Nat : Beyond(x) => Beyond(x)'
    <2> SUFFICES ASSUME NEW x \in Nat, Beyond(x) PROVE Beyond(x)'
      OBVIOUS
    <2>1. x <= Stamp(p) /\ From(s, x)
      BY <1>1, <1>4 DEF Beyond, p
    <2>2. From(Queued', x)
      BY <1>1, <1>2, <2>1, AppendOrder
    <2> QED
      BY <1>1, <1>3, <2>2 DEF Beyond
  <1>10. pending.buf # NoFrame => After(pending.pkt) \in Nat
    BY FlowTypes, AfterNat
  <1>11. ReaderOrder'
    BY <1>1, <1>9, <1>10, FlowTypes DEF OrderInv, ReaderOrder
  <1> QED
    BY <1>1, <1>3, <1>8, <1>11 DEF OrderInv, SockOrder, HandOrder

\* The oldest packet of the FIFO becomes the reader's.
LEMMA OrderPop ==
  ASSUME IInv, OrderInv, Pop
  PROVE  OrderInv'
  <1> DEFINE p == Head(Queued)
  <1>1. /\ UNCHANGED <<sock, late, device, InHand>> /\ Queued # <<>> /\ Queued' = Tail(Queued)
        /\ pending.buf = NoFrame /\ pending'.buf # NoFrame /\ pending'.pkt = p
        /\ pending'.off = 0 /\ pending'.exp = pending.exp
    BY DEF Pop
  <1>2. p = Queued[1] /\ 1 \in 1..Len(Queued) /\ p \in Packets
    BY <1>1, FlowTypes
  <1> HIDE DEF p
  <1>3. Stamp(p) \in Nat /\ After(p) \in Nat
    BY <1>2, AfterNat
  <1>4. Clock' = Clock
    BY <1>1 DEF Clock
  <1>5. /\ Ascending(Queued') /\ From(Queued', After(p)) /\ Upto(Queued', Clock)
    BY <1>1, <1>2, FlowTypes, TailOrder DEF OrderInv, QueueOrder, p
  <1>6. After(p) <= Clock /\ From(sock, After(p)) /\ (InHand # NoPacket => After(p) <= Stamp(InHand))
    BY <1>2 DEF OrderInv, QueueOrder, Upto
  <1>7. \A x \in Nat : x = After(p) => Beyond(x)'
    BY <1>1, <1>4, <1>5, <1>6 DEF Beyond
  <1>8. pending.exp # NoPos => pending.exp <= Stamp(p)
    BY <1>1, <1>2 DEF OrderInv, ReaderOrder, Beyond, From
  <1>9. ReaderOrder'
    BY <1>1, <1>3, <1>7, <1>8, FlowTypes DEF ReaderOrder
  <1>10. QueueOrder'
    <2>1. \A i \in 1..Len(Queued') : i + 1 \in 1..Len(Queued) /\ Queued'[i] = Queued[i + 1]
      BY <1>1, FlowTypes
    <2> QED
      BY <1>1, <1>4, <1>5, <2>1 DEF OrderInv, QueueOrder
  <1> QED
    BY <1>1, <1>4, <1>9, <1>10 DEF OrderInv, SockOrder, HandOrder

\* The reader moves on within its packet, or past it.
LEMMA OrderCopy ==
  ASSUME IInv, OrderInv, RecvCopy, Same
  PROVE  /\ OrderInv'
         /\ pending.exp # NoPos => pending.exp <= pending'.exp
         /\ pending'.exp \in Nat /\ hist'.heard = pending'.exp
  <1> DEFINE after == Stamp(pending.pkt) + (pending.off + NumToCopy)
  <1>1. /\ UNCHANGED <<sock, late, device>> /\ pending.buf # NoFrame /\ hist'.heard = after
    BY DEF RecvCopy, RecvUnchanged, sockVars, IInv, TypeOK, ControlType
  <1>2. \/ pending' = [NoPending EXCEPT !.exp = after] /\ pending.off + NumToCopy = Spp
        \/ pending' = [pending EXCEPT !.disc = FALSE, !.back = FALSE, !.exp = after,
                                      !.off = pending.off + NumToCopy]
    BY DEF RecvCopy
  <1>3. /\ NumToCopy \in Nat /\ pending.off \in Nat /\ pending.off + NumToCopy <= Spp
        /\ pending.pkt \in Packets
    BY <1>1, CopyBounds, FlowTypes DEF IInv, TypeOK
  <1>4. Stamp(pending.pkt) \in Nat /\ After(pending.pkt) \in Nat /\ after \in Nat
        /\ (pending.off + NumToCopy = Spp => after = After(pending.pkt))
        /\ Stamp(pending.pkt) + pending.off <= after
    BY <1>3, AfterNat, SizesAssumption DEF After
  <1>5. Clock' = Clock
    BY <1>1 DEF Clock
  <1>6. /\ Beyond(After(pending.pkt))
        /\ pending.exp # NoPos => pending.exp <= Stamp(pending.pkt) + pending.off
    BY <1>1 DEF OrderInv, ReaderOrder
  <1>7. \A x \in Nat : Beyond(x) => Beyond(x)'
    BY <1>1, <1>5 DEF Beyond, Same
  <1> HIDE DEF after
  <1>8. pending'.exp = after
    BY <1>2 DEF NoPending, IInv, TypeOK, ConsumerType
  <1>9. pending.exp # NoPos => pending.exp <= after
    BY <1>3, <1>4, <1>6, FlowTypes
  <1>10. ReaderOrder'
    <2>1. CASE pending' = [NoPending EXCEPT !.exp = after] /\ pending.off + NumToCopy = Spp
      <3>1. pending'.buf = NoFrame
        BY <2>1 DEF NoPending
      <3>2. Beyond(after)
        BY <1>4, <1>6, <2>1
      <3>3. \A x \in Nat : x = after => Beyond(x)'
        BY <1>7, <3>2
      <3> QED
        BY <1>4, <1>8, <3>1, <3>3 DEF ReaderOrder
    <2>2. CASE pending' = [pending EXCEPT !.disc = FALSE, !.back = FALSE, !.exp = after,
                                          !.off = pending.off + NumToCopy]
      <3>1. /\ pending'.buf = pending.buf /\ pending'.pkt = pending.pkt
            /\ pending'.off = pending.off + NumToCopy
        BY <2>2 DEF IInv, TypeOK, ConsumerType
      <3>2. after = Stamp(pending'.pkt) + pending'.off
        BY <3>1 DEF after
      <3>3. after <= Stamp(pending'.pkt) + pending'.off
        BY <1>4, <3>2
      <3> QED
        BY <1>1, <1>4, <1>6, <1>7, <1>8, <3>1, <3>3 DEF ReaderOrder
    <2> QED
      BY <1>2, <2>1, <2>2
  <1> QED
    BY <1>1, <1>4, <1>5, <1>8, <1>9, <1>10
    DEF OrderInv, SockOrder, HandOrder, QueueOrder, Same

\* A flush: what is left is in order, and nothing is expected or in hand.
LEMMA OrderFlush ==
  ASSUME IInv, OrderInv, UNCHANGED <<sock, late, device>>,
         Same \/ (Queued' = <<>> /\ InHand' = InHand),
         pending' = NoPending \/ pending' = pending
  PROVE  OrderInv'
  <1>1. Clock' = Clock /\ InHand' = InHand
    BY DEF Clock, Same
  <1>2. Queued' = <<>> => QueueOrder'
    BY DEF QueueOrder, Ascending, Upto
  <1>3. \A x \in Nat : Beyond(x) => Beyond(x)'
    <2>1. CASE Same
      BY <1>1, <2>1 DEF Beyond, Same
    <2>2. CASE Queued' = <<>>
      BY <1>1, <2>2 DEF Beyond, From
    <2> QED
      BY <2>1, <2>2
  <1>4. pending.buf # NoFrame => After(pending.pkt) \in Nat
    BY FlowTypes, AfterNat
  <1>5. ReaderOrder'
    <2>1. CASE pending' = NoPending
      BY <2>1 DEF ReaderOrder, NoPending
    <2>2. CASE pending' = pending
      BY <1>3, <1>4, <2>2, FlowTypes DEF ReaderOrder, OrderInv
    <2> QED
      BY <2>1, <2>2
  <1> QED
    BY <1>1, <1>2, <1>5 DEF OrderInv, SockOrder, HandOrder, QueueOrder, Same

LEMMA OrderStep ==
  ASSUME IInv, IInv', ~ConcurrentControl, NoOvertaking, QuietInv, OrderInv, [Next]_vars
  PROVE  OrderInv'
  <1> USE DEF IInv, TypeOK
  <1>0. Clock \in Nat /\ device.n \in Nat
    BY FlowTypes
  <1>1. ASSUME NEW fault \in NetFaults \cup {"none"}, DevSend(fault) PROVE OrderInv'
    BY <1>1, DeviceViews, OrderSend
  <1>2. CASE LateArrive
    BY <1>2 DEF LateArrive, OrderInv, SockOrder
  <1>3. ASSUME Bystander, Same PROVE OrderInv'
    BY <1>0, <1>3, OrderKept DEF Bystander, Clock
  <1>4. CASE Worker
    BY <1>3, <1>4, WorkerViews, OrderTake, OrderPut
  <1>5. ASSUME NEW mode \in Modes, NEW fmt \in Formats, NEW want \in Requests,
               RecvCall(mode, fmt, want)
        PROVE  OrderInv'
    <2>1. UNCHANGED <<sock, late, device, pending, fifo, wbuf, frame>>
      BY <1>5 DEF RecvCall, RecvUnchanged, sockVars
    <2> QED
      BY <1>0, <2>1, SameViews, OrderKept DEF Clock
  <1>6. CASE RecvUnknownFormat /\ Same
    <2>1. /\ UNCHANGED <<sock, late, device>>
          /\ UNCHANGED <<pending.buf, pending.pkt, pending.off, pending.exp>>
      BY <1>6 DEF RecvUnknownFormat, RecvUnchanged, sockVars, ConsumerType
    <2> QED
      BY <1>0, <1>6, <2>1, OrderKept DEF Clock
  <1>7. CASE RecvStep
    BY <1>3, <1>6, <1>7, ConsumerViews, OrderPop, OrderCopy
  <1>8. ASSUME NEW o \in Ops, KCall(o) PROVE OrderInv'
    <2>1. UNCHANGED <<sock, late, device, pending, fifo, wbuf, frame>>
      BY <1>8 DEF KCall, CtlUnchanged, poolVars
    <2> QED
      BY <1>0, <2>1, SameViews, OrderKept DEF Clock
  <1>9. CASE KFlush \/ KReset
    BY <1>9, EmptyView, OrderFlush DEF KFlush, KReset, StopPending, CtlUnchanged
  <1>10. CASE KDrainEnd /\ Same
    BY <1>10, OrderFlush DEF KDrainEnd, CtlUnchanged
  <1>11. CASE KDrain /\ Same
    BY <1>11, OrderSkip DEF KDrain, CanDrain, CtlUnchanged
  <1>12. ASSUME NEW o \in PokeOutcomes, KPokeStop(o) \/ KTune(o) \/ KPokeStart(o), Same
         PROVE  OrderInv'
    <2>1. UNCHANGED <<sock, late, pending>>
      BY <1>12 DEF KPokeStop, KTune, KPokeStart, CtlUnchanged
    <2>2. device'.n \in Nat /\ device.n <= device'.n
      <3>1. CASE KPokeStop(o) \/ KTune(o)
        BY <1>0, <3>1 DEF KPokeStop, KTune, TransportType
      <3>2. CASE KPokeStart(o)
        BY <1>0, <3>2 DEF KPokeStart
      <3> QED
        BY <1>12, <3>1, <3>2
    <2>3. Clock <= Clock' /\ Clock' \in Nat
      BY <1>0, <2>2, ClockTicks, SizesAssumption DEF Clock
    <2> QED
      BY <1>12, <2>1, <2>3, OrderKept
  <1>13. CASE ControlStep
    BY <1>3, <1>9, <1>10, <1>11, <1>12, <1>13, ControlViews
  <1>14. CASE UNCHANGED vars
    BY <1>0, <1>14, SameViews, OrderKept DEF vars, sockVars, poolVars, workerVars, Clock
  <1> QED
    BY <1>1, <1>2, <1>4, <1>5, <1>7, <1>8, <1>13, <1>14 DEF Next

LEMMA OrderHolds == ~ConcurrentControl /\ NoOvertaking /\ Spec => []OrderInv
  <1> SUFFICES ASSUME ~ConcurrentControl, NoOvertaking PROVE Spec => []OrderInv
    OBVIOUS
  <1>1. OrderInv /\ QuietInv /\ IInv /\ [Next]_vars => (OrderInv /\ QuietInv /\ IInv)'
    BY StepKeepsIInv, QuietStep, OrderStep
  <1> QED
    BY <1>1, InitIInv, InitQuiet, InitOrder, PTL DEF Spec

\* What the caller reads only moves forward in the device's sample clock,
\* whatever the network loses, the pool pins or the FIFO drops on the way.
THEOREM DeliveredInOrder ==
  ~ConcurrentControl /\ NoOvertaking /\ Spec => OrderedDelivery
  <1> SUFFICES ASSUME ~ConcurrentControl, NoOvertaking PROVE Spec => OrderedDelivery
    OBVIOUS
  <1> DEFINE Forward == hist.heard # NoPos /\ hist'.heard # NoPos => hist'.heard >= hist.heard
  <1>1. OrderInv /\ QuietInv /\ IInv /\ [Next]_vars => [Forward]_vars
    <2> SUFFICES ASSUME OrderInv, QuietInv, IInv, [Next]_vars, hist.heard # NoPos,
                        hist'.heard # NoPos
                 PROVE  hist'.heard >= hist.heard
      OBVIOUS
    <2>1. hist.heard = pending.exp /\ hist.heard \in Nat
      BY FlowTypes DEF QuietInv, HeardIsExpected
    <2>2. CASE RecvCopy
      <3>1. Same
        BY <2>2, ConsumerViews DEF RecvStep, RecvCopy, Pop
      <3> QED
        BY <2>1, <2>2, <3>1, OrderCopy
    <2>3. CASE ~RecvCopy
      <3>1. hist'.heard = hist.heard \/ hist'.heard = NoPos
        BY <2>3 DEF Next, DevSend, LateArrive, Worker, WorkerLoop, WorkerClaim, WorkerClaimTimeout,
           WorkerRecv, WorkerRecvTimeout, WorkerRecvError, WorkerPush, RecvCall, RecvStep, RecvStart,
           RecvPop, RecvTimeout, RecvUnknownFormat, KCall, ControlStep, KJoin, KFlush, StopPending,
           KReset, KDrain, KDrainError, KDrainEnd, KPokeStop, KTune, KPokeStart, vars,
           IInv, TypeOK, ControlType
      <3> QED
        BY <2>1, <3>1
    <2> QED
      BY <2>2, <2>3
  <1> QED
    BY <1>1, OrderHolds, QuietHolds, InductiveInvariant, PTL DEF OrderedDelivery, Spec

-----------------------------------------------------------------------------
(* What a retune and a START leave behind. *)

LEMMA SeqOfSet ==
  ASSUME NEW S \in SUBSET Packets, NEW s \in Seq(S)
  PROVE  /\ s # <<>> => Head(s) \in S /\ Tail(s) \in Seq(S)
         /\ \A p \in S : Append(s, p) \in Seq(S)
         /\ \A i \in 1..Len(s) : s[i] \in S
  OBVIOUS

\* A packet enters the stream through the worker, and by no other way.
LEMMA InsideKept ==
  ASSUME IInv, IInv', ~ConcurrentControl, QuietInv, [Next]_vars,
         NEW S \in SUBSET Packets, Inside(S), Take => Head(sock) \in S
  PROVE  Inside(S)'
  <1> USE DEF IInv, TypeOK
  <1>1. ASSUME Same, UNCHANGED <<pending.buf, pending.pkt>> \/ pending'.buf = NoFrame
        PROVE  Inside(S)'
    BY <1>1 DEF Inside, Same
  <1>2. CASE Take
    <2>1. UNCHANGED <<pending, Queued>> /\ (InHand' = NoPacket \/ InHand' = Head(sock))
      BY <1>2 DEF Take
    <2> QED
      BY <1>2, <2>1 DEF Inside
  <1>3. CASE Put
    <2>1. InHand \in S
      BY <1>3, SentinelsAssumption DEF Put, Inside, NoPacket
    <2>2. Pushed \in Seq(S)
      BY <1>3, PushedTypes, SeqOfSet DEF Inside
    <2>3. Append(Pushed, InHand) \in Seq(S)
      BY <2>1, <2>2, SeqOfSet
    <2> QED
      BY <1>3, <2>3 DEF Put, Inside
  <1>4. CASE Pop
    <2>1. /\ Queued # <<>> /\ Queued' = Tail(Queued) /\ pending'.pkt = Head(Queued)
          /\ InHand' = InHand
      BY <1>4 DEF Pop
    <2>2. Tail(Queued) \in Seq(S) /\ Head(Queued) \in S
      BY <2>1, SeqOfSet DEF Inside
    <2> QED
      BY <2>1, <2>2 DEF Inside
  <1>5. CASE (RecvUnknownFormat \/ RecvCopy) /\ Same
    <2>1. UNCHANGED <<pending.buf, pending.pkt>> \/ pending'.buf = NoFrame
      <3>1. CASE RecvUnknownFormat
        BY <3>1 DEF RecvUnknownFormat, ConsumerType
      <3>2. ASSUME NEW x, pending' = [NoPending EXCEPT !.exp = x] PROVE pending'.buf = NoFrame
        BY <3>2 DEF NoPending
      <3>3. ASSUME NEW x, NEW y,
                   pending' = [pending EXCEPT !.disc = FALSE, !.back = FALSE, !.exp = x, !.off = y]
            PROVE  UNCHANGED <<pending.buf, pending.pkt>>
        BY <3>3 DEF ConsumerType
      <3> QED
        BY <1>5, <3>1, <3>2, <3>3 DEF RecvCopy
    <2> QED
      BY <1>1, <1>5, <2>1
  <1>6. ASSUME Bystander, Same PROVE Inside(S)'
    BY <1>1, <1>6 DEF Bystander
  <1>7. CASE KFlush \/ KReset
    <2>1. Queued' = <<>> /\ InHand' = NoPacket /\ (pending' = pending \/ pending' = NoPending)
      BY <1>7, EmptyView DEF KFlush, KReset, StopPending
    <2> QED
      BY <2>1 DEF Inside, NoPending
  <1>8. CASE (KDrain \/ KDrainEnd) /\ Same
    <2>1. pending' = pending \/ pending' = NoPending
      BY <1>8 DEF KDrain, KDrainEnd
    <2> QED
      BY <1>1, <1>8, <2>1 DEF NoPending
  <1>9. ASSUME NEW o \in PokeOutcomes, KPokeStop(o) \/ KTune(o) \/ KPokeStart(o), Same
        PROVE  Inside(S)'
    BY <1>1, <1>9 DEF KPokeStop, KTune, KPokeStart
  <1>10. ASSUME UNCHANGED <<fifo, wbuf, frame, pending>> PROVE Inside(S)'
    BY <1>1, <1>10, SameViews
  <1>11. ASSUME NEW fault \in NetFaults \cup {"none"}, DevSend(fault) PROVE Inside(S)'
    BY <1>10, <1>11 DEF DevSend, poolVars, workerVars
  <1>12. CASE LateArrive
    BY <1>10, <1>12 DEF LateArrive, poolVars, workerVars
  <1>13. ASSUME NEW mode \in Modes, NEW fmt \in Formats, NEW want \in Requests,
                RecvCall(mode, fmt, want)
         PROVE  Inside(S)'
    BY <1>10, <1>13 DEF RecvCall, RecvUnchanged
  <1>14. ASSUME NEW o \in Ops, KCall(o) PROVE Inside(S)'
    BY <1>10, <1>14 DEF KCall, CtlUnchanged, poolVars
  <1>15. CASE UNCHANGED vars
    BY <1>10, <1>15 DEF vars, poolVars, workerVars
  <1>16. CASE Worker
    BY <1>2, <1>3, <1>6, <1>16, WorkerViews
  <1>17. CASE RecvStep
    BY <1>4, <1>5, <1>6, <1>17, ConsumerViews
  <1>18. CASE ControlStep
    BY <1>6, <1>7, <1>8, <1>9, <1>18, ControlViews
  <1> QED
    BY <1>11, <1>12, <1>13, <1>14, <1>15, <1>16, <1>17, <1>18 DEF Next

\* While a control call is past its flush the stream is empty, and no recv(2)
\* having failed every frame is free.
LEMMA EmptyStream ==
  ASSUME IInv, QuietInv, kpc \in {"tune", "reset", "drain", "pokestart"}
  PROVE  /\ wpc = "none" /\ fifo = <<>> /\ pending = NoPending /\ Queued = <<>> /\ InHand = NoPacket
         /\ NoReceiveErrors => BuffIsFree
  <1>1. wpc = "none" /\ fifo = <<>> /\ pending = NoPending /\ wbuf = NoFrame
    BY DEF IInv, ProtocolInv, QuietInv, Still
  <1>2. Queued = <<>> /\ InHand = NoPacket
    BY <1>1 DEF Queued, Contents, InHand
  <1>3. Held = {}
    BY <1>1 DEF Held, FifoFrames, WorkerFrames, PendingFrames, NoPending
  <1>4. ASSUME NoReceiveErrors PROVE BuffIsFree
    <2>1. hist.errors = 0
      BY <1>4 DEF QuietInv, NoReceiveErrors, IInv, TypeOK, ControlType
    <2> QED
      BY <1>1, <1>3, <2>1, BuffIndexType DEF QuietInv, NoLeak, BuffIsFree, IInv, TypeOK
  <1> QED
    BY <1>1, <1>2, <1>4

LEMMA InitDrain == Init => DrainInv
  BY SizesAssumption DEF Init, DrainInv

\* The socket never holds more than its buffer, and while the device is
\* silent a drain makes steady progress towards an empty one.
LEMMA DrainStep ==
  ASSUME IInv, IInv', ~ConcurrentControl, NoOvertaking, NoReceiveErrors, DrainCoversSocket,
         QuietInv, DrainInv, [Next]_vars
  PROVE  DrainInv'
  <1> USE DEF IInv, TypeOK
  <1>0. sock \in Seq(Packets) /\ SockCap \in Nat \ {0} /\ MaxDrain \in Nat /\ drained \in Nat
        /\ device.streaming \in BOOLEAN
    BY SizesAssumption DEF TransportType, ControlType
  <1>1. ASSUME UNCHANGED <<sock, late, drained>>,
               device'.streaming = device.streaming,
               kpc' = "drain" => kpc = "drain", kpc' # "pokestart"
        PROVE  DrainInv'
    BY <1>1 DEF DrainInv
  <1>2. ASSUME UNCHANGED <<sock, late, drained, kpc>>, device'.streaming = device.streaming
        PROVE  DrainInv'
    BY <1>2 DEF DrainInv
  <1>3. ASSUME NEW fault \in NetFaults \cup {"none"}, DevSend(fault) PROVE DrainInv'
    <2> DEFINE p == [n |-> device.n, rf |-> device.rf, run |-> device.run, ok |-> fault # "bad"]
    <2>1. fault # "late" /\ UNCHANGED <<kpc, drained>> /\ device.streaming
      BY <1>3 DEF NoOvertaking, DevSend, ctlVars
    <2>2. late' = late /\ device'.streaming
      BY <1>3, <2>1 DEF DevSend, TransportType
    <2>3. sock' = sock \/ (sock' = Append(sock, p) /\ Len(sock) < SockCap)
      BY <1>3 DEF DevSend, Offer
    <2>4. p \in Packets
      BY DEF TransportType, Packets
    <2> HIDE DEF p
    <2>5. Len(sock') <= SockCap
      BY <1>0, <2>3, <2>4 DEF DrainInv
    <2> QED
      BY <2>1, <2>2, <2>5 DEF DrainInv
  <1>4. CASE LateArrive
    BY <1>4 DEF LateArrive, DrainInv
  <1>5. ASSUME Bystander PROVE DrainInv'
    BY <1>1, <1>2, <1>5 DEF Bystander
  <1>6. CASE Take
    <2>1. /\ sock' = Tail(sock) /\ sock # <<>> /\ wpc = "recv" /\ UNCHANGED <<late, device, kpc, drained>>
      BY <1>6 DEF Take
    <2>2. Len(sock') <= SockCap /\ kpc \notin {"drain", "pokestart"}
      BY <1>0, <2>1 DEF DrainInv, ProtocolInv
    <2> QED
      BY <2>1, <2>2 DEF DrainInv
  <1>7. CASE Put
    BY <1>2, <1>7 DEF Put
  <1>8. CASE Worker
    BY <1>5, <1>6, <1>7, <1>8, WorkerViews
  <1>9. ASSUME NEW mode \in Modes, NEW fmt \in Formats, NEW want \in Requests,
               RecvCall(mode, fmt, want)
        PROVE  DrainInv'
    BY <1>2, <1>9 DEF RecvCall, RecvUnchanged, sockVars, ctlVars
  <1>10. CASE RecvStep
    BY <1>2, <1>10 DEF RecvStep, RecvStart, RecvPop, RecvTimeout, RecvCopy, RecvUnknownFormat,
                       RecvUnchanged, sockVars, ctlVars
  <1>11. ASSUME NEW o \in Ops, KCall(o) PROVE DrainInv'
    <2>1. UNCHANGED <<sock, late, drained, device>>
      BY <1>11 DEF KCall, CtlUnchanged
    <2>2. kpc' \in {"reset", "join", "flush", "pokestop"}
      BY <1>11, ChoicesAssumption DEF KCall, EnterStop
    <2> QED
      BY <1>1, <2>1, <2>2
  <1>12. CASE KFlush
    <2>1. UNCHANGED <<sock, late, drained, device>>
      BY <1>12 DEF KFlush, CtlUnchanged
    <2>2. kpc' \in {"reset", "idle", "tune"}
      BY <1>12 DEF KFlush, ProtocolInv, ControlType
    <2> QED
      BY <1>1, <2>1, <2>2
  <1>13. CASE KReset
    BY <1>0, <1>13 DEF KReset, CtlUnchanged, DrainInv
  <1>14. CASE KDrain
    <2>1. /\ sock' = Tail(sock) /\ sock # <<>> /\ drained' = drained + 1
          /\ UNCHANGED <<late, device, kpc>> /\ kpc = "drain"
      BY <1>14 DEF KDrain, CanDrain, CtlUnchanged
    <2>2. Len(sock') = Len(sock) - 1 /\ Len(sock) \in Nat
      BY <1>0, <2>1
    <2> QED
      BY <1>0, <2>1, <2>2 DEF DrainInv
  <1>15. CASE KDrainEnd
    <2>1. /\ kpc = "drain" /\ ~CanDrain /\ UNCHANGED <<sock, late, device>>
          /\ kpc' \in {"pokestart", "idle"}
      BY <1>15 DEF KDrainEnd, CtlUnchanged
    <2>2. BuffIsFree
      BY <2>1, EmptyStream
    <2>3. drained >= MaxDrain \/ sock = <<>>
      BY <1>0, <2>1, <2>2 DEF CanDrain
    <2>4. ~device.streaming => sock = <<>>
      BY <1>0, <2>1, <2>3 DEF DrainInv, DrainCoversSocket
    <2> QED
      BY <2>1, <2>4 DEF DrainInv
  <1>16. ASSUME NEW o \in PokeOutcomes, KPokeStop(o) \/ KTune(o) PROVE DrainInv'
    <2>1. UNCHANGED <<sock, late>>
      BY <1>16 DEF KPokeStop, KTune, CtlUnchanged
    <2>2. kpc' \in {"idle", "join", "flush", "reset"}
      BY <1>16 DEF KPokeStop, KTune, EnterStop
    <2> QED
      BY <2>1, <2>2 DEF DrainInv
  <1>17. ASSUME NEW o \in PokeOutcomes, KPokeStart(o) PROVE DrainInv'
    BY <1>17 DEF KPokeStart, CtlUnchanged, DrainInv
  <1>18. CASE KJoin \/ KDrainError
    BY <1>1, <1>18 DEF KJoin, KDrainError, CtlUnchanged
  <1>19. CASE UNCHANGED vars
    BY <1>2, <1>19 DEF vars, sockVars, ctlVars
  <1> QED
    BY <1>3, <1>4, <1>8, <1>9, <1>10, <1>11, <1>12, <1>13, <1>14, <1>15, <1>16, <1>17, <1>18, <1>19
    DEF Next, ControlStep

LEMMA DrainHolds ==
  ~ConcurrentControl /\ NoOvertaking /\ NoReceiveErrors /\ DrainCoversSocket /\ Spec => []DrainInv
  <1> SUFFICES ASSUME ~ConcurrentControl, NoOvertaking, NoReceiveErrors, DrainCoversSocket
               PROVE  Spec => []DrainInv
    OBVIOUS
  <1>1. DrainInv /\ QuietInv /\ IInv /\ [Next]_vars => (DrainInv /\ QuietInv /\ IInv)'
    BY StepKeepsIInv, QuietStep, DrainStep
  <1> QED
    BY <1>1, InitIInv, InitQuiet, InitDrain, PTL DEF Spec

\* Where the samples of a step come from.
LEMMA DeliveredFrom ==
  ASSUME IInv, [Next]_vars, NEW s \in Delivered
  PROVE  pending.buf # NoFrame /\ s.rf = pending.pkt.rf /\ s.run = pending.pkt.run
  <1> USE DEF IInv, TypeOK
  <1>1. CASE RecvCopy
    <2> DEFINE new == [k \in 1..NumToCopy |-> SampleOf(frame[pending.buf], pending.off + k - 1)]
    <2>1. pending.buf # NoFrame /\ out' = [Opened EXCEPT !.got = @ \o new]
      BY <1>1 DEF RecvCopy
    <2>2. frame[pending.buf] = pending.pkt /\ pending.pkt \in Packets /\ NumToCopy \in Nat
      BY <2>1, CopyBounds DEF FrameOwnership, ProtocolInv
    <2>3. Opened.got = out.got /\ out.got \in Seq(Samples)
      BY DEF Opened, ConsumerType
    <2>4. \A k \in 1..NumToCopy : new[k].rf = pending.pkt.rf /\ new[k].run = pending.pkt.run
      BY <2>2 DEF SampleOf
    <2>5. new \in Seq(Samples) /\ Len(new) = NumToCopy
      <3>1. \A k \in 1..NumToCopy : pending.off + k - 1 \in Nat
        BY <2>2 DEF ConsumerType
      <3>2. \A k \in 1..NumToCopy : SampleOf(frame[pending.buf], pending.off + k - 1) \in Samples
        BY <2>2, <3>1, SampleType
      <3> QED
        BY <2>2, <3>2
    <2> HIDE DEF new
    <2>6. out'.got = out.got \o new
      <3>1. Opened \in [got : Seq(Samples), ts : Nat, disc : BOOLEAN, back : BOOLEAN]
        BY <2>2, OpenedType
      <3> QED
        BY <2>1, <2>3, <3>1
    <2>7. \A i \in DOMAIN out'.got \ DOMAIN out.got : \E k \in 1..NumToCopy : out'.got[i] = new[k]
      <3>1. /\ DOMAIN out.got = 1..Len(out.got) /\ Len(out.got) \in Nat
            /\ DOMAIN out'.got = 1..(Len(out.got) + NumToCopy)
            /\ \A i \in 1..(Len(out.got) + NumToCopy) :
                  i > Len(out.got) => out'.got[i] = new[i - Len(out.got)]
        <4>1. out'.got \in Seq(Samples) /\ Len(out'.got) = Len(out.got) + NumToCopy
          BY <2>2, <2>3, <2>5, <2>6, ConcatProperties
        <4>2. \A i \in 1..(Len(out.got) + NumToCopy) :
                 out'.got[i] = IF i <= Len(out.got) THEN out.got[i] ELSE new[i - Len(out.got)]
          BY <2>2, <2>3, <2>5, <2>6, ConcatProperties
        <4> QED
          BY <2>2, <2>3, <4>1, <4>2
      <3>2. \A i \in 1..(Len(out.got) + NumToCopy) :
               i \notin 1..Len(out.got) => i > Len(out.got) /\ i - Len(out.got) \in 1..NumToCopy
        BY <2>2, <3>1
      <3> QED
        BY <3>1, <3>2
    <2> QED
      BY <2>1, <2>4, <2>7 DEF Delivered
  <1>2. CASE ~RecvCopy
    <2>1. out'.got = out.got \/ out'.got = <<>>
      <3>1. out' = out \/ out' = NoOut \/ out' = Opened
        <4>1. Worker => UNCHANGED out
          BY DEF Worker, WorkerLoop, WorkerClaim, WorkerClaimTimeout, WorkerRecv, WorkerRecvTimeout,
                 WorkerRecvError, WorkerPush, appVars, WorkerUnchanged
        <4>2. ControlStep => UNCHANGED out
          BY DEF ControlStep, KJoin, KFlush, KReset, KDrain, KDrainError, KDrainEnd, KPokeStop,
                 KTune, KPokeStart, appVars, CtlUnchanged
        <4>3. RecvStep => UNCHANGED out \/ out' = Opened
          BY <1>2 DEF RecvStep, RecvStart, RecvPop, RecvTimeout, RecvUnknownFormat
        <4> QED
          BY <4>1, <4>2, <4>3 DEF Next, DevSend, LateArrive, RecvCall, KCall, CtlUnchanged, appVars, vars
      <3>2. Opened.got = out.got
        BY DEF Opened, ConsumerType
      <3>3. NoOut.got = <<>>
        BY DEF NoOut
      <3> QED
        BY <3>1, <3>2, <3>3
    <2> QED
      BY <2>1 DEF Delivered
  <1> QED
    BY <1>1, <1>2

LEMMA InitTune == Init => TuneInv
  BY DEF Init, TuneInv, Inside, Queued, Contents, InHand, NoPending

LEMMA TuneStep ==
  ASSUME IInv, IInv', ~ConcurrentControl, NoOvertaking, NoReceiveErrors, DrainCoversSocket,
         QuietInv, DrainInv, TuneInv, [Next]_vars
  PROVE  TuneInv'
  <1> USE DEF IInv, TypeOK
  <1>0. /\ sock \in Seq(Packets) /\ SockCap \in Nat \ {0} /\ MaxDrain \in Nat /\ drained \in Nat
        /\ Tuned \in SUBSET Packets
    BY SizesAssumption DEF TransportType, ControlType, Tuned
  <1>1. ASSUME device'.rf = device.rf PROVE Tuned' = Tuned
    BY <1>1 DEF Tuned
  <1>2. ASSUME device'.rf = device.rf, Take => Head(sock) \in Tuned PROVE Inside(Tuned)'
    <2>1. \A S \in SUBSET Packets : S = Tuned => Inside(S)'
      BY <1>2, InsideKept DEF TuneInv
    <2>2. Inside(Tuned)' <=> \A S \in SUBSET Packets : S = Tuned => Inside(S)'
      BY <1>0, <1>1, <1>2, <2>1 DEF Inside
    <2> QED
      BY <2>1, <2>2
  <1>3. ASSUME ~Take, UNCHANGED <<sock, drained>>, device'.rf = device.rf,
               kpc' = kpc \/ (kpc \notin {"reset", "drain"} /\ kpc' # "drain")
        PROVE  TuneInv'
    <2>1. Inside(Tuned)' /\ Tuned' = Tuned
      BY <1>1, <1>2, <1>3
    <2> QED
      BY <1>3, <2>1 DEF TuneInv
  <1>4. ASSUME NEW fault \in NetFaults \cup {"none"}, DevSend(fault) PROVE TuneInv'
    <2> DEFINE p == [n |-> device.n, rf |-> device.rf, run |-> device.run, ok |-> fault # "bad"]
    <2>1. UNCHANGED <<kpc, drained, wpc>> /\ device'.rf = device.rf /\ (sock' = sock \/ sock' = Append(sock, p))
      BY <1>4 DEF DevSend, Offer, ctlVars, workerVars, TransportType
    <2>2. p \in Tuned
      BY DEF TransportType, Packets, Tuned
    <2>3. sock' # Tail(sock) \/ sock = <<>>
      <3>1. p \in Packets
        BY <1>0, <2>2
      <3> HIDE DEF p
      <3>2. sock # <<>> => Len(Tail(sock)) = Len(sock) - 1 /\ Len(sock) \in Nat
        BY <1>0
      <3>3. Len(sock') = Len(sock) \/ Len(sock') = Len(sock) + 1
        BY <1>0, <2>1, <3>1, AppendElements
      <3> QED
        BY <3>2, <3>3
    <2>4. Inside(Tuned)' /\ Tuned' = Tuned
      BY <1>1, <1>2, <2>1, <2>3 DEF Take
    <2> HIDE DEF p
    <2>5. sock \in Seq(Tuned) => sock' \in Seq(Tuned)
      BY <1>0, <2>1, <2>2, SeqOfSet
    <2>6. (\A i \in 1..Len(sock) : drained + i > SockCap => sock[i] \in Tuned)
           => \A i \in 1..Len(sock') : drained + i > SockCap => sock'[i] \in Tuned
      BY <1>0, <2>1, <2>2, AppendElements
    <2> QED
      BY <2>1, <2>4, <2>5, <2>6 DEF TuneInv
  <1>5. CASE LateArrive
    BY <1>5 DEF LateArrive, DrainInv
  <1>6. CASE Take
    <2>1. /\ sock' = Tail(sock) /\ sock # <<>> /\ wpc = "recv" /\ UNCHANGED <<device, kpc, drained>>
      BY <1>6 DEF Take
    <2>2. kpc \notin {"reset", "drain"}
      BY <2>1 DEF ProtocolInv
    <2>3. Head(sock) \in Tuned /\ Tail(sock) \in Seq(Tuned)
      BY <1>0, <2>1, <2>2, SeqOfSet DEF TuneInv
    <2>4. Inside(Tuned)' /\ Tuned' = Tuned
      BY <1>1, <1>2, <2>1, <2>3
    <2> QED
      BY <2>1, <2>2, <2>3, <2>4 DEF TuneInv
  <1>7. CASE Worker /\ ~Take
    <2>1. Put \/ Bystander
      BY <1>7, WorkerViews
    <2>2. UNCHANGED <<sock, drained, device, kpc>>
      BY <1>7, <2>1 DEF Put, Worker, WorkerLoop, WorkerClaim, WorkerClaimTimeout, WorkerRecv,
         WorkerRecvTimeout, WorkerRecvError, WorkerPush, WorkerUnchanged, ctlVars, Bystander
    <2> QED
      BY <1>3, <1>7, <2>2
  <1>8. ASSUME NEW mode \in Modes, NEW fmt \in Formats, NEW want \in Requests,
               RecvCall(mode, fmt, want)
        PROVE  TuneInv'
    BY <1>3, <1>6, <1>8 DEF RecvCall, RecvUnchanged, sockVars, ctlVars
  <1>9. CASE RecvStep
    BY <1>3, <1>6, <1>9 DEF RecvStep, RecvStart, RecvPop, RecvTimeout, RecvCopy, RecvUnknownFormat,
                       RecvUnchanged, sockVars, ctlVars
  <1>10. ASSUME NEW o \in Ops, KCall(o) PROVE TuneInv'
    <2>1. UNCHANGED <<sock, drained, device>> /\ kpc = "idle"
      BY <1>10 DEF KCall, CtlUnchanged
    <2>2. kpc' # "drain"
      BY <1>10, ChoicesAssumption DEF KCall, EnterStop
    <2> QED
      BY <1>3, <1>6, <2>1, <2>2
  <1>11. CASE KJoin \/ KFlush
    <2>1. UNCHANGED <<sock, drained, device>> /\ kpc \notin {"reset", "drain"} /\ kpc' # "drain"
      BY <1>11 DEF KJoin, KFlush, CtlUnchanged, ProtocolInv, ControlType
    <2> QED
      BY <1>3, <1>6, <2>1
  <1>12. CASE KReset
    <2>1. UNCHANGED <<sock, device>> /\ kpc' = "drain" /\ drained' = 0 /\ wpc = "none"
      BY <1>12 DEF KReset, CtlUnchanged, ProtocolInv
    <2>2. Inside(Tuned)' /\ Tuned' = Tuned
      BY <1>1, <1>2, <2>1 DEF Take
    <2>3. Len(sock) <= SockCap
      BY DEF DrainInv
    <2> QED
      BY <1>0, <2>1, <2>2, <2>3 DEF TuneInv
  <1>13. CASE KDrain
    <2>1. /\ sock' = Tail(sock) /\ sock # <<>> /\ drained' = drained + 1 /\ UNCHANGED <<device, kpc>>
          /\ kpc = "drain" /\ wpc = "none"
      BY <1>13 DEF KDrain, CanDrain, ProtocolInv
    <2>2. Inside(Tuned)' /\ Tuned' = Tuned
      BY <1>1, <1>2, <2>1 DEF Take
    <2>3. \A i \in 1..Len(sock') : i + 1 \in 1..Len(sock) /\ sock'[i] = sock[i + 1]
      BY <1>0, <2>1
    <2>4. \A i \in 1..Len(sock') : drained' + i > SockCap => sock'[i] \in Tuned
      BY <1>0, <2>1, <2>3 DEF TuneInv
    <2> QED
      BY <2>1, <2>2, <2>4 DEF TuneInv
  <1>14. CASE KDrainEnd
    <2>1. /\ kpc = "drain" /\ ~CanDrain /\ UNCHANGED <<sock, device>>
          /\ kpc' \in {"pokestart", "idle"}
      BY <1>14 DEF KDrainEnd, CtlUnchanged
    <2>2. BuffIsFree /\ wpc = "none"
      BY <2>1, EmptyStream
    <2>3. drained >= MaxDrain \/ sock = <<>>
      BY <1>0, <2>1, <2>2 DEF CanDrain
    <2>4. \A i \in 1..Len(sock) : sock[i] \in Tuned
      BY <1>0, <2>1, <2>3 DEF TuneInv, DrainCoversSocket
    <2>5. sock \in Seq(Tuned)
      BY <1>0, <2>4
    <2>6. Inside(Tuned)' /\ Tuned' = Tuned
      BY <1>1, <1>2, <2>1, <2>2 DEF Take
    <2> QED
      BY <2>1, <2>5, <2>6 DEF TuneInv
  <1>15. CASE KDrainError
    BY <1>15, SizesAssumption DEF KDrainError, NoReceiveErrors, ControlType
  <1>16. ASSUME NEW o \in PokeOutcomes, KTune(o) PROVE TuneInv'
    <2>1. kpc = "tune" /\ kpc' = "reset"
      BY <1>16 DEF KTune
    <2>2. Queued = <<>> /\ InHand = NoPacket /\ pending = NoPending /\ UNCHANGED <<fifo, wbuf, frame, pending>>
      BY <1>16, <2>1, EmptyStream DEF KTune, poolVars, CtlUnchanged
    <2>3. Queued' = <<>> /\ InHand' = NoPacket
      BY <2>2, SameViews DEF Same
    <2> QED
      BY <2>1, <2>2, <2>3 DEF TuneInv, Inside, NoPending
  <1>17. ASSUME NEW o \in PokeOutcomes, KPokeStop(o) \/ KPokeStart(o) PROVE TuneInv'
    <2>1. /\ UNCHANGED <<sock, drained>> /\ device'.rf = device.rf /\ ~Take
          /\ kpc \notin {"reset", "drain"} /\ kpc' # "drain"
      <3>1. CASE KPokeStop(o)
        BY <3>1 DEF KPokeStop, EnterStop, CtlUnchanged, TransportType, Take
      <3>2. CASE KPokeStart(o)
        BY <3>2 DEF KPokeStart, CtlUnchanged, TransportType, Take
      <3> QED
        BY <1>17, <3>1, <3>2
    <2> QED
      BY <1>3, <2>1
  <1>18. CASE UNCHANGED vars
    BY <1>3, <1>6, <1>18 DEF vars, sockVars, ctlVars
  <1> QED
    BY <1>4, <1>5, <1>6, <1>7, <1>8, <1>9, <1>10, <1>11, <1>12, <1>13, <1>14, <1>15, <1>16,
       <1>17, <1>18 DEF Next, ControlStep

\* After a retune no sample taken with the old RF setting is delivered: the
\* worker is joined, the FIFO and the pending packet are flushed, and the
\* drain's budget covers all that the socket held at the change.
THEOREM RetuneIsolated ==
  ~ConcurrentControl /\ NoOvertaking /\ NoReceiveErrors /\ DrainCoversSocket /\ Spec
    => RetuneIsolation
  <1> SUFFICES ASSUME ~ConcurrentControl, NoOvertaking, NoReceiveErrors, DrainCoversSocket
               PROVE  Spec => RetuneIsolation
    OBVIOUS
  <1> DEFINE Isolated == \A s \in Delivered : s.rf = device.rf
  <1>1. TuneInv /\ DrainInv /\ QuietInv /\ IInv /\ [Next]_vars
          => (TuneInv /\ DrainInv /\ QuietInv /\ IInv)'
    BY StepKeepsIInv, QuietStep, DrainStep, TuneStep
  <1>2. TuneInv /\ IInv /\ [Next]_vars => [Isolated]_vars
    BY DeliveredFrom DEF TuneInv, Inside, Tuned
  <1> QED
    BY <1>1, <1>2, InitIInv, InitQuiet, InitDrain, InitTune, PTL DEF RetuneIsolation, Spec

LEMMA InitStart == Init => StartInv
  BY DEF Init, StartInv, Inside, Queued, Contents, InHand, NoPending

LEMMA StartStep ==
  ASSUME IInv, IInv', ~ConcurrentControl, NoOvertaking, NoReceiveErrors, StopBeforeStart,
         QuietInv, DrainInv, StartInv, [Next]_vars
  PROVE  StartInv'
  <1> USE DEF IInv, TypeOK
  <1>0. /\ sock \in Seq(Packets) /\ Started \in SUBSET Packets /\ hist.minRun \in Nat
        /\ device.run \in Nat /\ device.streaming \in BOOLEAN
    BY DEF TransportType, ControlType, Started
  <1>1. ASSUME hist'.minRun = hist.minRun PROVE Started' = Started
    BY <1>1 DEF Started
  <1>2. ASSUME hist'.minRun = hist.minRun PROVE Inside(Started)'
    <2>1. Take => Head(sock) \in Started
      BY <1>0, SeqOfSet DEF Take, StartInv
    <2>2. \A S \in SUBSET Packets : S = Started => Inside(S)'
      BY <2>1, InsideKept DEF StartInv
    <2>3. Inside(Started)' <=> \A S \in SUBSET Packets : S = Started => Inside(S)'
      BY <1>0, <1>1, <1>2, <2>2 DEF Inside
    <2> QED
      BY <2>2, <2>3
  <1>3. ASSUME sock' = sock \/ (sock # <<>> /\ sock' = Tail(sock)), hist'.minRun = hist.minRun,
               device'.run = device.run, device'.streaming => device.streaming,
               kpc' = "idle" \/ (op' = op /\ kpc # "idle") \/ (op' = "start" => ~device.streaming)
        PROVE  StartInv'
    <2>1. Inside(Started)' /\ Started' = Started
      BY <1>1, <1>2, <1>3
    <2>2. sock' \in Seq(Started)
      BY <1>0, <1>3, SeqOfSet DEF StartInv
    <2> QED
      BY <1>3, <2>1, <2>2 DEF StartInv
  <1>4. ASSUME NEW fault \in NetFaults \cup {"none"}, DevSend(fault) PROVE StartInv'
    <2> DEFINE p == [n |-> device.n, rf |-> device.rf, run |-> device.run, ok |-> fault # "bad"]
    <2>1. /\ UNCHANGED <<kpc, op, hist>> /\ device'.run = device.run
          /\ device'.streaming = device.streaming /\ (sock' = sock \/ sock' = Append(sock, p))
      BY <1>4 DEF DevSend, Offer, ctlVars, TransportType
    <2>2. p \in Started
      BY <1>0 DEF TransportType, Packets, Started, StartInv
    <2> HIDE DEF p
    <2>3. Inside(Started)' /\ Started' = Started
      BY <1>1, <1>2, <2>1
    <2>4. sock' \in Seq(Started)
      BY <1>0, <2>1, <2>2, SeqOfSet DEF StartInv
    <2> QED
      BY <2>1, <2>3, <2>4 DEF StartInv
  <1>5. CASE LateArrive
    BY <1>5 DEF LateArrive, DrainInv
  <1>6. CASE Worker
    <2>1. UNCHANGED <<device, kpc, op>> /\ hist'.minRun = hist.minRun
          /\ (sock' = sock \/ (sock # <<>> /\ sock' = Tail(sock)))
      BY <1>6 DEF Worker, WorkerLoop, WorkerClaim, WorkerClaimTimeout, WorkerRecv,
         WorkerRecvTimeout, WorkerRecvError, WorkerPush, WorkerUnchanged, ctlVars, ControlType
    <2> QED
      BY <1>3, <2>1 DEF StartInv
  <1>7. ASSUME NEW mode \in Modes, NEW fmt \in Formats, NEW want \in Requests,
               RecvCall(mode, fmt, want)
        PROVE  StartInv'
    <2>1. UNCHANGED <<device, kpc, op, sock>> /\ hist'.minRun = hist.minRun
      BY <1>7 DEF RecvCall, RecvUnchanged, sockVars, ctlVars, ControlType
    <2> QED
      BY <1>3, <2>1 DEF StartInv
  <1>8. CASE RecvStep
    <2>1. UNCHANGED <<device, kpc, op, sock>> /\ hist'.minRun = hist.minRun
      BY <1>8 DEF RecvStep, RecvStart, RecvPop, RecvTimeout, RecvCopy, RecvUnknownFormat,
                  RecvUnchanged, sockVars, ctlVars, ControlType
    <2> QED
      BY <1>3, <2>1 DEF StartInv
  <1>9. ASSUME NEW o \in Ops, KCall(o) PROVE StartInv'
    <2>1. /\ UNCHANGED <<device, sock>> /\ hist'.minRun = hist.minRun
          /\ (op' = "start" => ~device.streaming)
      BY <1>9 DEF KCall, CtlUnchanged, ControlType
    <2> QED
      BY <1>3, <2>1
  <1>10. CASE KJoin \/ KFlush \/ KReset \/ KDrain \/ KDrainError \/ KDrainEnd
    <2>1. UNCHANGED <<device, op>> /\ kpc # "idle" /\ (sock' = sock \/ (sock # <<>> /\ sock' = Tail(sock)))
      BY <1>10 DEF KJoin, KFlush, KReset, KDrain, CanDrain, KDrainError, KDrainEnd, CtlUnchanged
    <2>2. hist'.minRun = hist.minRun
      BY <1>10 DEF KJoin, KFlush, StopPending, KReset, KDrain, KDrainError, KDrainEnd, ControlType
    <2> QED
      BY <1>3, <2>1, <2>2
  <1>11. ASSUME NEW o \in PokeOutcomes, KPokeStop(o) \/ KTune(o) PROVE StartInv'
    <2>1. /\ UNCHANGED <<sock, op, hist>> /\ kpc # "idle" /\ device'.run = device.run
          /\ (device'.streaming => device.streaming)
      BY <1>11 DEF KPokeStop, KTune, CtlUnchanged, TransportType
    <2> QED
      BY <1>3, <2>1
  <1>12. ASSUME NEW o \in PokeOutcomes, KPokeStart(o) PROVE StartInv'
    <2>1. kpc = "pokestart" /\ kpc' = "idle" /\ UNCHANGED <<sock, op, pending, fifo, wbuf, frame>>
      BY <1>12 DEF KPokeStart, CtlUnchanged, poolVars
    <2>2. CASE o = "lost"
      BY <1>3, <1>12, <2>1, <2>2 DEF KPokeStart
    <2>3. CASE o # "lost" /\ op = "start"
      <3>1. sock = <<>>
        BY <2>1, <2>3 DEF StartInv, DrainInv
      <3>2. Queued' = <<>> /\ InHand' = NoPacket /\ pending' = NoPending
        BY <2>1, EmptyStream, SameViews DEF Same
      <3>3. device'.run = device.run + 1 /\ hist'.minRun = device.run + 1
        BY <1>12, <2>3 DEF KPokeStart, ControlType
      <3> QED
        BY <1>0, <2>1, <3>1, <3>2, <3>3 DEF StartInv, Inside, NoPending
    <2>4. CASE o # "lost" /\ op # "start"
      <3>1. device'.run = device.run + 1 /\ hist'.minRun = hist.minRun
        BY <1>12, <2>4 DEF KPokeStart, ControlType
      <3>2. Inside(Started)' /\ Started' = Started
        BY <1>1, <1>2, <3>1
      <3> QED
        BY <1>0, <2>1, <2>4, <3>1, <3>2 DEF StartInv
    <2> QED
      BY <2>2, <2>3, <2>4
  <1>13. CASE UNCHANGED vars
    BY <1>3, <1>13 DEF vars, sockVars, ctlVars, StartInv
  <1> QED
    BY <1>4, <1>5, <1>6, <1>7, <1>8, <1>9, <1>10, <1>11, <1>12, <1>13 DEF Next, ControlStep

\* After a START that followed a STOP no sample of an earlier stream is
\* delivered: nothing of it is left in the socket when START is sent.
THEOREM StartIsolated ==
  ~ConcurrentControl /\ NoOvertaking /\ NoReceiveErrors /\ DrainCoversSocket /\ StopBeforeStart /\ Spec
    => StartIsolation
  <1> SUFFICES ASSUME ~ConcurrentControl, NoOvertaking, NoReceiveErrors, DrainCoversSocket,
                      StopBeforeStart
               PROVE  Spec => StartIsolation
    OBVIOUS
  <1> DEFINE Isolated == \A s \in Delivered : s.run >= hist.minRun
  <1>1. StartInv /\ DrainInv /\ QuietInv /\ IInv /\ [Next]_vars
          => (StartInv /\ DrainInv /\ QuietInv /\ IInv)'
    BY StepKeepsIInv, QuietStep, DrainStep, StartStep
  <1>2. StartInv /\ IInv /\ [Next]_vars => [Isolated]_vars
    BY DeliveredFrom DEF StartInv, Inside, Started
  <1> QED
    BY <1>1, <1>2, InitIInv, InitQuiet, InitDrain, InitStart, PTL DEF StartIsolation, Spec

-----------------------------------------------------------------------------
(* Contiguous segments with honest flags. *)

LEMMA InitSegment == Init => SegmentInv
  BY DEF Init, SegmentInv, NoOut, NoPending

\* n samples from position x on: what a copy is, and adds to a segment.
Run(s, n, x) == Len(s) = n /\ \A k \in 1..n : s[k].pos = x + k - 1

LEMMA Copied ==
  ASSUME NEW n \in Nat, NEW p \in Packets, NEW o \in Nat
  PROVE  LET new == [k \in 1..n |-> SampleOf(p, o + k - 1)]
         IN  new \in Seq(Samples) /\ Run(new, n, Stamp(p) + o)
  <1>1. \A k \in 1..n : o + k - 1 \in Nat
    OBVIOUS
  <1>2. \A k \in 1..n : SampleOf(p, o + k - 1) \in Samples
    BY <1>1, SampleType
  <1>3. Stamp(p) \in Nat
    BY StampNat
  <1>4. \A k \in 1..n : SampleOf(p, o + k - 1).pos = Stamp(p) + o + k - 1
    BY <1>1, <1>3 DEF SampleOf
  <1> DEFINE new == [k \in 1..n |-> SampleOf(p, o + k - 1)]
  <1>5. new \in Seq(Samples) /\ Len(new) = n
    BY <1>2
  <1>6. \A k \in 1..n : new[k].pos = Stamp(p) + o + k - 1
    BY <1>4
  <1> HIDE DEF new
  <1>7. Run(new, n, Stamp(p) + o)
    BY <1>5, <1>6 DEF Run
  <1> QED
    BY <1>5, <1>7 DEF new

LEMMA Grown ==
  ASSUME NEW got \in Seq(Samples), NEW n \in Nat \ {0}, NEW x \in Nat,
         NEW new \in Seq(Samples), Run(new, n, x)
  PROVE  /\ got \o new # <<>> /\ Len(got \o new) = Len(got) + n
         /\ DOMAIN (got \o new) = 1..(Len(got) + n)
         /\ got # <<>> => (got \o new)[1] = got[1] /\ got[1].pos \in Nat
         /\ got = <<>> => (got \o new)[1].pos = x
         /\ \A i \in 1..Len(got) : (got \o new)[i] = got[i]
         /\ \A i \in 1..(Len(got) + n) :
               i > Len(got) => (got \o new)[i].pos = x + (i - Len(got)) - 1
  <1> DEFINE all == got \o new
  <1>0. Len(new) = n /\ \A k \in 1..n : new[k].pos = x + k - 1
    BY DEF Run
  <1>1. /\ all \in Seq(Samples) /\ Len(all) = Len(got) + n /\ Len(got) \in Nat
        /\ \A i \in 1..(Len(got) + n) : all[i] = IF i <= Len(got) THEN got[i] ELSE new[i - Len(got)]
    <2>1. all \in Seq(Samples) /\ Len(all) = Len(got) + n
      BY <1>0, ConcatProperties
    <2>2. \A i \in 1..(Len(got) + n) :
             all[i] = IF i <= Len(got) THEN got[i] ELSE new[i - Len(got)]
      BY <1>0, ConcatProperties
    <2> QED
      BY <2>1, <2>2
  <1> HIDE DEF all
  <1>2. \A i \in 1..(Len(got) + n) : i > Len(got) => all[i].pos = x + (i - Len(got)) - 1
    <2> SUFFICES ASSUME NEW i \in 1..(Len(got) + n), i > Len(got)
                 PROVE  all[i].pos = x + (i - Len(got)) - 1
      OBVIOUS
    <2>1. i - Len(got) \in 1..n
      BY <1>1
    <2>2. all[i] = new[i - Len(got)]
      BY <1>1
    <2>3. new[i - Len(got)].pos = x + (i - Len(got)) - 1
      BY <1>0, <2>1
    <2> QED
      BY <2>2, <2>3
  <1>3. \A i \in 1..Len(got) : all[i] = got[i]
    BY <1>1
  <1>4. got # <<>> => all[1] = got[1] /\ got[1].pos \in Nat
    <2>1. got # <<>> => 1 \in 1..Len(got)
      OBVIOUS
    <2>2. \A i \in 1..Len(got) : got[i].pos \in Nat
      <3>1. \A i \in 1..Len(got) : got[i] \in Samples
        OBVIOUS
      <3> QED
        BY <3>1 DEF Samples
    <2> QED
      BY <1>3, <2>1, <2>2
  <1>5. got = <<>> => all[1].pos = x
    <2> SUFFICES ASSUME got = <<>> PROVE all[1].pos = x
      OBVIOUS
    <2>1. Len(got) = 0 /\ 1 \in 1..n
      OBVIOUS
    <2>2. all[1].pos = x + (1 - 0) - 1
      BY <1>2, <2>1
    <2> QED
      BY <2>2
  <1>6. all # <<>> /\ DOMAIN all = 1..(Len(got) + n)
    BY <1>1
  <1> QED
    BY <1>1, <1>2, <1>3, <1>4, <1>5, <1>6 DEF all

\* The reader copies: the segment grows by what its packet holds next.
LEMMA SegmentCopy ==
  ASSUME IInv, QuietInv, SegmentInv, RecvCopy
  PROVE  SegmentInv'
  <1> USE DEF IInv, TypeOK
  <1> DEFINE n == NumToCopy
             p == pending.pkt
             new == [k \in 1..n |-> SampleOf(frame[pending.buf], pending.off + k - 1)]
             after == Stamp(p) + (pending.off + n)
  <1>1. /\ cpc = "loop" /\ pending.buf # NoFrame /\ p \in Packets /\ frame[pending.buf] = p
        /\ InCall /\ (call.mode = "fifo" => FlagsHonest)
    BY DEF RecvCopy, ProtocolInv, FrameOwnership, SegmentInv
  <1>2. /\ n \in Nat \ {0} /\ pending.off \in Nat /\ pending.off + n <= Spp
    <2>1. call.left \in Nat \ {0} /\ pending.off \in 0..(Spp - 1)
      BY <1>1 DEF InCall, ConsumerType
    <2>2. n \in Nat /\ pending.off + n \in 0..Spp
      BY CopyBounds
    <2>3. n # 0
      BY <2>1, SizesAssumption DEF NumToCopy
    <2> QED
      BY <2>1, <2>2, <2>3
  <1>3. Stamp(p) \in Nat /\ after = NextPos + n /\ NextPos \in Nat /\ NoPos \notin Nat
    BY <1>1, <1>2, StampNat, SentinelsAssumption DEF NextPos, NoPos
  <1>4. /\ out' = [Opened EXCEPT !.got = @ \o new]
        /\ call' = [call EXCEPT !.left = @ - n, !.first = FALSE]
        /\ cpc' = IF call.left = n THEN "idle" ELSE "loop"
        /\ hist'.base = hist.base
        /\ \/ pending' = [NoPending EXCEPT !.exp = after]
           \/ pending' = [pending EXCEPT !.disc = FALSE, !.back = FALSE, !.exp = after,
                                         !.off = pending.off + n]
    BY DEF RecvCopy, ControlType
  <1> DEFINE got == out.got
             all == got \o new
  <1>5. got \in Seq(Samples)
    BY DEF ConsumerType
  <1>6. /\ all # <<>> /\ Len(all) = Len(got) + n /\ DOMAIN all = 1..(Len(got) + n)
        /\ got # <<>> => all[1] = got[1] /\ got[1].pos \in Nat
        /\ got = <<>> => all[1].pos = NextPos
        /\ \A i \in 1..Len(got) : all[i] = got[i]
        /\ \A i \in 1..(Len(got) + n) :
              i > Len(got) => all[i].pos = NextPos + (i - Len(got)) - 1
    <2>1. new \in Seq(Samples) /\ Run(new, n, Stamp(p) + pending.off)
      <3> HIDE DEF n, p
      <3>1. new = [k \in 1..n |-> SampleOf(p, pending.off + k - 1)]
        BY <1>1
      <3> QED
        BY <1>1, <1>2, <3>1, Copied
    <2> HIDE DEF new, n, got
    <2>2. Run(new, n, NextPos)
      BY <2>1 DEF NextPos
    <2> QED
      BY <1>2, <1>3, <1>5, <2>1, <2>2, Grown
  <1>7. /\ out'.got = all /\ call'.mode = call.mode /\ call'.fmt = call.fmt /\ call'.first = FALSE
        /\ call'.left = call.left - n /\ call.left \in Nat
        /\ call.first => /\ out'.ts = NextPos
                         /\ out'.disc = (pending.disc /\ call.mode = "fifo")
                         /\ out'.back = (pending.disc /\ pending.back /\ call.mode = "fifo")
        /\ ~call.first => out'.ts = out.ts /\ out'.disc = out.disc /\ out'.back = out.back
    <2> HIDE DEF new, n
    <2>1. Opened.got = got /\ Opened \in [got : Seq(Samples), ts : Nat, disc : BOOLEAN, back : BOOLEAN]
      BY <1>1, OpenedType DEF Opened, ConsumerType
    <2>2. /\ call.first => /\ Opened.ts = NextPos
                           /\ Opened.disc = (pending.disc /\ call.mode = "fifo")
                           /\ Opened.back = (pending.disc /\ pending.back /\ call.mode = "fifo")
          /\ ~call.first => Opened = out
      BY DEF Opened, ConsumerType, NextPos
    <2> HIDE DEF got
    <2>3. out'.got = all /\ out'.ts = Opened.ts /\ out'.disc = Opened.disc /\ out'.back = Opened.back
      BY <1>4, <2>1
    <2>4. /\ call'.mode = call.mode /\ call'.fmt = call.fmt /\ call'.first = FALSE
          /\ call'.left = call.left - n /\ call.left \in Nat
      BY <1>4 DEF ConsumerType
    <2> QED
      BY <2>2, <2>3, <2>4
  <1>8. /\ pending'.exp = after /\ pending'.disc = FALSE /\ pending'.back = FALSE
        /\ pending'.buf # NoFrame => Stamp(pending'.pkt) + pending'.off = after
    <2> HIDE DEF n
    <2>1. CASE pending' = [NoPending EXCEPT !.exp = after]
      BY <2>1 DEF NoPending
    <2>2. CASE pending' = [pending EXCEPT !.disc = FALSE, !.back = FALSE, !.exp = after,
                                         !.off = pending.off + n]
      BY <2>2 DEF ConsumerType
    <2> QED
      BY <1>4, <2>1, <2>2
  <1> HIDE DEF n, p, new, after, got, all
  <1>9. ASSUME out'.ts = all[1].pos,
               call.mode = "fifo" =>
                  /\ after = all[1].pos + Len(all)
                  /\ \A i \in 1..(Len(got) + n) : all[i].pos = all[1].pos + i - 1
                  /\ LET gap == hist.base # NoPos /\ all[1].pos # hist.base
                     IN  (out'.disc <=> gap) /\ (out'.back <=> (gap /\ all[1].pos < hist.base))
        PROVE  SegmentInv'
    <2>1. Segment'
      <3>1. hist'.base = hist.base
        BY <1>4
      <3>2. out'.got = all /\ call'.mode = call.mode /\ DOMAIN all = 1..(Len(got) + n)
        BY <1>6, <1>7
      <3>3. call'.mode = "fifo" => \A i \in DOMAIN out'.got : out'.got[i].pos = out'.got[1].pos + i - 1
        BY <1>9, <3>2
      <3>4. call'.mode = "fifo" =>
              LET gap == hist'.base # NoPos /\ out'.got[1].pos # hist'.base
              IN  (out'.disc <=> gap) /\ (out'.back <=> (gap /\ out'.got[1].pos < hist'.base))
        BY <1>9, <3>1, <3>2
      <3> QED
        BY <1>9, <3>2, <3>3, <3>4 DEF Segment
    <2>2. cpc' # "idle" => InCall'
      <3> SUFFICES ASSUME cpc' # "idle" PROVE InCall'
        OBVIOUS
      <3>1. call'.left # 0
        BY <1>2, <1>4, <1>7
      <3>2. call'.mode = "fifo" =>
              /\ pending'.exp = out'.got[1].pos + Len(out'.got)
              /\ pending'.buf # NoFrame => NextPos' = pending'.exp
        BY <1>7, <1>8, <1>9 DEF NextPos
      <3> QED
        BY <1>1, <1>6, <1>7, <3>1, <3>2 DEF InCall
    <2>3. pending'.buf # NoFrame => FlagsHonest'
      BY <1>8 DEF FlagsHonest, NextPos
    <2> QED
      BY <1>8, <2>1, <2>2, <2>3 DEF SegmentInv
  <1>10. CASE got = <<>>
    <2>1. call.first /\ hist.base = pending.exp
      BY <1>1, <1>10 DEF InCall, QuietInv, HeardIsExpected, got
    <2>2. /\ all[1].pos = NextPos /\ Len(got) = 0 /\ Len(all) = n
          /\ \A i \in 1..n : all[i].pos = NextPos + i - 1
      <3>1. all[1].pos = NextPos /\ Len(got) = 0 /\ Len(all) = 0 + n
        BY <1>6, <1>10
      <3>2. \A i \in 1..(0 + n) : i > 0 => all[i].pos = NextPos + (i - 0) - 1
        BY <1>6, <3>1
      <3> QED
        BY <1>2, <1>3, <3>1, <3>2
    <2>3. out'.ts = all[1].pos
      BY <1>7, <2>1, <2>2
    <2>4. call.mode = "fifo" =>
            LET gap == hist.base # NoPos /\ all[1].pos # hist.base
            IN  (out'.disc <=> gap) /\ (out'.back <=> (gap /\ all[1].pos < hist.base))
      BY <1>1, <1>7, <2>1, <2>2 DEF FlagsHonest
    <2>5. after = all[1].pos + Len(all) /\ 1..(Len(got) + n) = 1..n
      BY <1>2, <1>3, <2>2
    <2> QED
      BY <1>9, <2>2, <2>3, <2>4, <2>5
  <1>11. CASE got # <<>>
    <2>1. ~call.first /\ Segment
      BY <1>1, <1>11 DEF InCall, SegmentInv, got
    <2>2. all[1] = got[1] /\ all[1].pos \in Nat /\ out'.ts = all[1].pos /\ Len(got) \in Nat
      BY <1>5, <1>6, <1>7, <1>11, <2>1 DEF Segment, got
    <2>3. ASSUME call.mode = "fifo"
          PROVE  /\ NextPos = all[1].pos + Len(got)
                 /\ \A i \in 1..(Len(got) + n) : all[i].pos = all[1].pos + i - 1
      <3>1. NextPos = all[1].pos + Len(got)
        <4>1. pending.buf # NoFrame => NextPos = got[1].pos + Len(got)
          BY <1>1, <1>11, <2>3 DEF InCall, got
        <4> QED
          BY <1>1, <2>2, <4>1
      <3>2. \A i \in 1..Len(got) : all[i].pos = all[1].pos + i - 1
        <4>1. \A i \in 1..Len(got) : got[i].pos = got[1].pos + i - 1
          BY <1>5, <2>1, <2>3 DEF Segment, got
        <4> QED
          BY <1>6, <2>2, <4>1
      <3>3. ASSUME NEW i \in 1..(Len(got) + n), i > Len(got) PROVE all[i].pos = all[1].pos + i - 1
        <4>1. all[i].pos = all[1].pos + Len(got) + (i - Len(got)) - 1
          BY <1>6, <3>1, <3>3
        <4> QED
          BY <1>2, <2>2, <4>1
      <3>4. \A i \in 1..(Len(got) + n) : i \in 1..Len(got) \/ i > Len(got)
        BY <1>2, <2>2
      <3> QED
        BY <3>1, <3>2, <3>3, <3>4
    <2>4. call.mode = "fifo" =>
            LET gap == hist.base # NoPos /\ all[1].pos # hist.base
            IN  (out'.disc <=> gap) /\ (out'.back <=> (gap /\ all[1].pos < hist.base))
      BY <1>7, <2>1, <2>2 DEF Segment, got
    <2>5. call.mode = "fifo" => after = all[1].pos + Len(all)
      <3>1. Len(all) = Len(got) + n /\ after = NextPos + n
        BY <1>3, <1>6
      <3>2. call.mode = "fifo" => NextPos = all[1].pos + Len(got)
        BY <2>3
      <3> QED
        BY <1>2, <2>2, <3>1, <3>2
    <2> QED
      BY <1>9, <2>2, <2>3, <2>4, <2>5
  <1> QED
    BY <1>10, <1>11

LEMMA SegmentStep ==
  ASSUME IInv, IInv', ~ConcurrentControl, Formats \subseteq {"known"}, QuietInv, SegmentInv,
         [Next]_vars
  PROVE  SegmentInv'
  <1> USE DEF IInv, TypeOK
  <1>1. ASSUME UNCHANGED <<pending, call, out>>, hist'.base = hist.base, hist'.heard = hist.heard,
               \/ UNCHANGED cpc
               \/ cpc = "loop" /\ cpc' = "wait"
               \/ cpc = "wait" /\ cpc' = "idle"
        PROVE  SegmentInv'
    <2>1. Segment' <=> Segment
      BY <1>1 DEF Segment
    <2>2. (InCall' <=> InCall) /\ (FlagsHonest' <=> FlagsHonest)
      BY <1>1 DEF InCall, FlagsHonest, NextPos
    <2>3. cpc = "wait" => pending.buf = NoFrame
      BY DEF ProtocolInv
    <2> QED
      BY <1>1, <2>1, <2>2, <2>3 DEF SegmentInv
  \* The consumer lets go of its packet: no call is in progress.
  <1>2. ASSUME pending' = NoPending, UNCHANGED <<call, out, cpc>>, cpc = "idle", hist'.base = hist.base
        PROVE  SegmentInv'
    <2>1. Segment' <=> Segment
      BY <1>2 DEF Segment
    <2>2. pending'.buf = NoFrame /\ ~pending'.disc /\ ~pending'.back
      BY <1>2 DEF NoPending
    <2> QED
      BY <1>2, <2>1, <2>2 DEF SegmentInv
  <1>3. ASSUME Bystander PROVE SegmentInv'
    BY <1>1, <1>3 DEF Bystander
  <1>4. CASE (\E fault \in NetFaults \cup {"none"} : DevSend(fault)) \/ LateArrive
    BY <1>1, <1>4 DEF DevSend, LateArrive, appVars
  <1>5. CASE Worker
    BY <1>1, <1>3, <1>5, WorkerViews DEF Take, Put
  <1>6. ASSUME NEW mode \in Modes, NEW fmt \in Formats, NEW want \in Requests,
               RecvCall(mode, fmt, want)
        PROVE  SegmentInv'
    <2>1. /\ cpc = "idle" /\ UNCHANGED pending /\ out'.got = <<>>
          /\ call' = [mode |-> mode, fmt |-> fmt, left |-> want, first |-> TRUE]
          /\ hist'.base = hist.heard /\ hist'.heard = hist.heard
      BY <1>6 DEF RecvCall, NoOut, ControlType
    <2>2. want # 0
      BY SizesAssumption
    <2>3. InCall'
      BY <2>1, <2>2 DEF InCall
    <2>4. FlagsHonest' <=> FlagsHonest
      BY <2>1 DEF FlagsHonest, NextPos
    <2> QED
      BY <2>1, <2>3, <2>4 DEF SegmentInv
  <1>7. CASE Pop
    <2> DEFINE q == Head(Queued)
    <2>1. /\ cpc = "wait" /\ pending.buf = NoFrame /\ UNCHANGED <<call, out>>
          /\ pending'.buf # NoFrame /\ pending'.pkt = q /\ pending'.off = 0
          /\ pending'.exp = pending.exp
          /\ pending'.disc = (pending.disc \/ Opens(q))
          /\ pending'.back = (IF Opens(q) THEN Stamp(q) < pending.exp ELSE pending.back)
          /\ cpc' = (IF Opens(q) /\ out.got # <<>> THEN "idle" ELSE "loop")
          /\ hist'.base = hist.base /\ hist'.heard = hist.heard
      BY <1>7 DEF Pop, ControlType
    <2>2. q \in Packets /\ Stamp(q) \in Nat /\ Stamp(q) + 0 = Stamp(q)
      BY <1>7, ViewTypes, StampNat DEF Pop
    <2> HIDE DEF q
    <2>3. InCall /\ pending.disc = FALSE /\ pending.back = FALSE
      BY <2>1 DEF SegmentInv, ConsumerType
    <2>4. NextPos' = Stamp(q)
      BY <2>1, <2>2 DEF NextPos
    <2>5. call.mode = "fifo" => FlagsHonest'
      <3> SUFFICES ASSUME call.mode = "fifo" PROVE FlagsHonest'
        OBVIOUS
      <3>1. Opens(q) <=> (pending.exp # NoPos /\ Stamp(q) # pending.exp)
        BY DEF Opens, Gap
      <3> QED
        BY <2>1, <2>3, <2>4, <3>1 DEF FlagsHonest
    <2>6. Segment' <=> Segment
      BY <2>1 DEF Segment
    <2>7. cpc' # "idle" => InCall'
      <3> SUFFICES ASSUME cpc' # "idle" PROVE InCall'
        OBVIOUS
      <3>1. out.got # <<>> /\ call.mode = "fifo" => Stamp(q) = pending.exp
        <4>1. out.got # <<>> => ~Opens(q)
          BY <2>1
        <4>2. out.got # <<>> /\ call.mode = "fifo" => pending.exp # NoPos
          <5>1. out.got # <<>> => out.got[1] \in Samples /\ Len(out.got) \in Nat
            BY DEF ConsumerType
          <5>2. out.got # <<>> => out.got[1].pos + Len(out.got) \in Nat
            BY <5>1 DEF Samples
          <5> QED
            BY <2>3, <5>2, SentinelsAssumption DEF InCall, NoPos
        <4> QED
          BY <4>1, <4>2 DEF Opens, Gap
      <3> QED
        BY <2>1, <2>3, <2>4, <3>1 DEF InCall
    <2>8. cpc' = "idle" => call.mode = "fifo"
      BY <2>1 DEF Opens
    <2> QED
      BY <2>1, <2>5, <2>6, <2>7, <2>8 DEF SegmentInv
  <1>8. CASE RecvUnknownFormat
    BY <1>8 DEF RecvUnknownFormat, SegmentInv, InCall
  <1>9. CASE RecvStep
    BY <1>3, <1>7, <1>8, <1>9, ConsumerViews, SegmentCopy
  <1>10. ASSUME NEW o \in Ops, KCall(o) PROVE SegmentInv'
    BY <1>1, <1>10 DEF KCall, CtlUnchanged, appVars, ControlType
  <1>11. CASE KFlush \/ KDrainEnd
    BY <1>2, <1>11 DEF KFlush, StopPending, KDrainEnd, CtlUnchanged, appVars, ControlType, ProtocolInv
  <1>12. CASE KReset \/ KDrain \/ \E o \in PokeOutcomes : KPokeStop(o) \/ KTune(o) \/ KPokeStart(o)
    <2>1. UNCHANGED <<pending, call, out, cpc>>
      BY <1>12 DEF KReset, KDrain, KPokeStop, KTune, KPokeStart, CtlUnchanged, appVars
    <2>2. hist'.base = hist.base /\ hist'.heard = hist.heard
      BY <1>12 DEF KReset, KDrain, KPokeStop, KTune, KPokeStart, ControlType
    <2> QED
      BY <1>1, <2>1, <2>2
  <1>13. CASE ControlStep
    BY <1>3, <1>11, <1>12, <1>13, ControlViews
  <1>14. CASE UNCHANGED vars
    BY <1>1, <1>14 DEF vars, appVars
  <1> QED
    BY <1>4, <1>5, <1>6, <1>9, <1>10, <1>13, <1>14 DEF Next

\* What a recv() call returns: contiguous samples, the stamp of the first,
\* and a gap before them reported on that call and no other, as backwards
\* exactly when it is; formats are those the copy knows.
THEOREM SegmentsHonest ==
  ~ConcurrentControl /\ Formats \subseteq {"known"} /\ Spec => []SegmentContract
  <1> SUFFICES ASSUME ~ConcurrentControl, Formats \subseteq {"known"}
               PROVE  Spec => []SegmentContract
    OBVIOUS
  <1>1. SegmentInv /\ QuietInv /\ IInv /\ [Next]_vars => (SegmentInv /\ QuietInv /\ IInv)'
    BY StepKeepsIInv, QuietStep, SegmentStep
  <1>2. SegmentInv => SegmentContract
    BY DEF SegmentInv, Segment, SegmentContract
  <1> QED
    BY <1>1, <1>2, InitIInv, InitQuiet, InitSegment, PTL DEF Spec

-----------------------------------------------------------------------------
(* Every gap is counted. *)

LEMMA TailParts ==
  ASSUME NEW T, NEW s \in Seq(T), s # <<>>
  PROVE  /\ Len(s) \in Nat \ {0} /\ Head(s) = s[1] /\ s[1] \in T
         /\ Tail(s) \in Seq(T) /\ Len(Tail(s)) = Len(s) - 1
         /\ \A i \in 1..(Len(s) - 1) :
               Tail(s)[i] = s[i + 1] /\ i + 1 \in 1..Len(s) /\ Tail(s)[i] \in T
         /\ Tail(s) = <<>> => Len(s) = 1
         /\ Tail(s) # <<>> => Len(s) > 1
  <1>1. Len(s) \in Nat \ {0} /\ Head(s) = s[1] /\ s[1] \in T
    OBVIOUS
  <1>2. Tail(s) \in Seq(T) /\ Len(Tail(s)) = Len(s) - 1
    OBVIOUS
  <1>3. \A i \in 1..(Len(s) - 1) : Tail(s)[i] = s[i + 1] /\ i + 1 \in 1..Len(s)
    OBVIOUS
  <1>4. \A i \in 1..(Len(s) - 1) : Tail(s)[i] \in T
    BY <1>3
  <1>5. Tail(s) = <<>> => Len(s) = 1
    BY <1>1, <1>2
  <1>6. Tail(s) # <<>> => Len(s) > 1
    <2>1. Tail(s) # <<>> => Len(Tail(s)) # 0
      BY <1>2
    <2> QED
      BY <1>1, <1>2, <2>1
  <1> QED
    BY <1>1, <1>2, <1>3, <1>4, <1>5, <1>6

LEMMA AppendParts ==
  ASSUME NEW T, NEW s \in Seq(T), NEW x \in T
  PROVE  /\ Len(s) \in Nat /\ Append(s, x) \in Seq(T) /\ Len(Append(s, x)) = Len(s) + 1
         /\ Append(s, x)[Len(s) + 1] = x /\ Append(s, x) # <<>>
         /\ \A i \in 1..Len(s) : Append(s, x)[i] = s[i] /\ Append(s, x)[i] \in T
         /\ (s # <<>> <=> Len(s) # 0)
  <1>1. /\ Len(s) \in Nat /\ Append(s, x) \in Seq(T) /\ Len(Append(s, x)) = Len(s) + 1
        /\ Append(s, x)[Len(s) + 1] = x
    OBVIOUS
  <1>2. \A i \in 1..Len(s) : Append(s, x)[i] = s[i] /\ Append(s, x)[i] \in T
    OBVIOUS
  <1>3. s # <<>> <=> Len(s) # 0
    OBVIOUS
  <1>4. Append(s, x) # <<>>
    BY <1>1
  <1> QED
    BY <1>1, <1>2, <1>3, <1>4

LEMMA TickNat ==
  ASSUME NEW e \in Nat \cup {NoPos}, NEW p \in Packets
  PROVE  Tick(e, p) \in {0, 1} /\ Tick(NoPos, p) = 0
  BY DEF Tick

LEMMA EndType ==
  ASSUME NEW q \in Seq(Packets), NEW e \in Nat \cup {NoPos}
  PROVE  EndOf(q, e) \in Nat \cup {NoPos}
  <1>1. q # <<>> => q[Len(q)] \in Packets
    OBVIOUS
  <1> QED
    BY <1>1, AfterNat DEF EndOf

LEMMA MarkType ==
  ASSUME NEW q, NEW m \in Seq(Nat), NEW g \in Nat, q \in Seq(Packets), Len(m) = Len(q)
  PROVE  MarkOf(q, m, g) \in Nat
  <1>1. q # <<>> => m[Len(q)] \in Nat
    OBVIOUS
  <1> QED
    BY <1>1 DEF MarkOf

LEMMA BooksEmpty ==
  ASSUME NEW g \in Nat, NEW c, g <= c.errors
  PROVE  Books(<<>>, g, NoPos, NoPacket, c)
  <1>1. /\ <<>> \in Seq(Nat) /\ Len(<<>>) = 0 /\ Booked(<<>>, <<>>, g, NoPos)
        /\ MarkOf(<<>>, <<>>, g) = g /\ EndOf(<<>>, NoPos) = NoPos
    BY DEF Booked, MarkOf, EndOf
  <1>2. Counted(g, NoPos, NoPacket, c)
    BY DEF Counted
  <1> QED
    BY <1>1, <1>2 DEF Books

\* The gaps met are counted, now and after a flush.
LEMMA BooksCover ==
  ASSUME NEW q \in Seq(Packets), NEW g \in Nat, NEW e, NEW h,
         NEW c \in [have : BOOLEAN, exp : Nat, errors : Nat], Books(q, g, e, h, c), h = NoPacket \/ h \in Packets,
         e \in Nat \cup {NoPos}
  PROVE  g <= c.errors /\ Books(<<>>, g, NoPos, NoPacket, c)
  <1>1. PICK m \in Seq(Nat) : /\ Len(m) = Len(q) /\ Booked(q, m, g, e)
                              /\ Counted(MarkOf(q, m, g), EndOf(q, e), h, c)
    BY DEF Books
  <1>2. MarkOf(q, m, g) \in Nat /\ g <= MarkOf(q, m, g)
    <2>1. CASE q = <<>>
      BY <2>1 DEF MarkOf
    <2>2. CASE q # <<>>
      <3>1. Len(q) \in 1..Len(q)
        BY <2>2
      <3> QED
        BY <1>1, <2>2, <3>1, MarkType DEF MarkOf, Booked
    <2> QED
      BY <2>1, <2>2
  <1>3. MarkOf(q, m, g) <= c.errors
    <2>1. CASE h = NoPacket
      BY <1>1, <2>1 DEF Counted
    <2>2. CASE h # NoPacket
      <3>1. MarkOf(q, m, g) + Tick(EndOf(q, e), h) <= c.errors /\ h \in Packets
        BY <1>1, <2>2 DEF Counted
      <3>2. Tick(EndOf(q, e), h) \in {0, 1}
        BY <3>1, EndType, TickNat
      <3> QED
        BY <1>2, <3>1, <3>2
    <2> QED
      BY <2>1, <2>2
  <1>4. g <= c.errors
    BY <1>2, <1>3
  <1> QED
    BY <1>4, BooksEmpty

\* The worker takes a packet, and counts a gap before it.
LEMMA BooksTake ==
  ASSUME NEW q \in Seq(Packets), NEW g \in Nat, NEW e \in Nat \cup {NoPos}, NEW p \in Packets,
         NEW c \in [have : BOOLEAN, exp : Nat, errors : Nat], Books(q, g, e, NoPacket, c), NEW d,
         d = [have |-> TRUE, exp |-> After(p),
              errors |-> c.errors + (IF c.have /\ Stamp(p) # c.exp THEN 1 ELSE 0)]
  PROVE  Books(q, g, e, p, d)
  <1>1. PICK m \in Seq(Nat) : /\ Len(m) = Len(q) /\ Booked(q, m, g, e)
                              /\ Counted(MarkOf(q, m, g), EndOf(q, e), NoPacket, c)
    BY DEF Books
  <1> DEFINE k == MarkOf(q, m, g)
             x == EndOf(q, e)
  <1>2. k \in Nat /\ x \in Nat \cup {NoPos} /\ p # NoPacket
    BY <1>1, MarkType, EndType, SentinelsAssumption DEF NoPacket
  <1>3. k <= c.errors /\ (x # NoPos => c.have /\ c.exp = x)
    BY <1>1 DEF Counted
  <1> HIDE DEF k, x
  <1>4. k + Tick(x, p) <= d.errors
    BY <1>2, <1>3 DEF Tick
  <1>5. Counted(k, x, p, d)
    BY <1>2, <1>4 DEF Counted
  <1> QED
    BY <1>1, <1>5 DEF Books, k, x

\* It pushes the packet: what was charged to the worker is charged to it.
LEMMA BooksPut ==
  ASSUME NEW q \in Seq(Packets), NEW g \in Nat, NEW e \in Nat \cup {NoPos}, NEW p \in Packets,
         NEW c \in [have : BOOLEAN, exp : Nat, errors : Nat], Books(q, g, e, p, c)
  PROVE  Books(Append(q, p), g, e, NoPacket, c)
  <1>1. PICK m \in Seq(Nat) : /\ Len(m) = Len(q) /\ Booked(q, m, g, e)
                              /\ Counted(MarkOf(q, m, g), EndOf(q, e), p, c)
    BY DEF Books
  <1> DEFINE k == MarkOf(q, m, g) + Tick(EndOf(q, e), p)
             r == Append(q, p)
             l == Append(m, k)
             n == Len(q)
  <1>2. /\ MarkOf(q, m, g) \in Nat /\ Tick(EndOf(q, e), p) \in {0, 1} /\ p # NoPacket
        /\ k \in Nat /\ MarkOf(q, m, g) <= k
    <2>1. MarkOf(q, m, g) \in Nat /\ Tick(EndOf(q, e), p) \in {0, 1}
      BY <1>1, MarkType, EndType, TickNat
    <2>2. p # NoPacket
      BY SentinelsAssumption DEF NoPacket
    <2> QED
      BY <2>1, <2>2
  <1>3. k <= c.errors /\ c.have /\ c.exp = After(p)
    BY <1>1, <1>2 DEF Counted
  <1>4. /\ n \in Nat /\ Len(r) = n + 1 /\ r \in Seq(Packets) /\ r[n + 1] = p /\ r # <<>>
        /\ \A i \in 1..n : r[i] = q[i] /\ r[i] \in Packets
        /\ (q # <<>> <=> n # 0)
    BY AppendParts
  <1>5. /\ Len(l) = n + 1 /\ l \in Seq(Nat) /\ l[n + 1] = k
        /\ \A i \in 1..n : l[i] = m[i] /\ l[i] \in Nat
    <2> HIDE DEF k
    <2> QED
      BY <1>1, <1>2, AppendParts
  <1>6. n # 0 => MarkOf(q, m, g) = l[n] /\ EndOf(q, e) = After(r[n])
    BY <1>4, <1>5 DEF MarkOf, EndOf
  <1>7. n = 0 => MarkOf(q, m, g) = g /\ EndOf(q, e) = e
    BY <1>4 DEF MarkOf, EndOf
  <1>8. /\ \A i \in 1..n : g <= l[i] /\ l[i] <= k
        /\ \A i, j \in 1..n : i <= j => l[i] <= l[j]
        /\ g <= k
    <2>1. /\ \A i \in 1..n : g <= l[i]
          /\ \A i, j \in 1..n : i <= j => l[i] <= l[j]
      BY <1>1, <1>5 DEF Booked
    <2> HIDE DEF k, l, r, n
    <2>2. \A i \in 1..n : l[i] <= l[n] /\ n \in 1..n
      BY <1>4, <2>1
    <2>3. \A i \in 1..n : l[i] <= k
      BY <1>2, <1>4, <1>5, <1>6, <2>2
    <2>4. g <= k
      <3>1. n = 0 => g <= k
        BY <1>2, <1>7
      <3>2. n # 0 => n \in 1..n /\ g <= l[n] /\ l[n] <= k /\ l[n] \in Nat
        BY <1>4, <1>5, <2>1, <2>3
      <3> QED
        BY <1>2, <3>1, <3>2
    <2> QED
      BY <2>1, <2>3, <2>4
  <1>9. g + Tick(e, r[1]) <= l[1]
    <2>1. n # 0 => g + Tick(e, q[1]) <= m[1] /\ r[1] = q[1] /\ l[1] = m[1]
      BY <1>1, <1>4, <1>5 DEF Booked
    <2>2. n = 0 => k = g + Tick(e, p) /\ r[1] = p /\ l[1] = k
      BY <1>4, <1>5, <1>7
    <2> HIDE DEF k, l, r, n
    <2>3. n = 0 => g + Tick(e, r[1]) <= l[1]
      BY <1>2, <2>2
    <2> QED
      BY <2>1, <2>3
  <1>10. \A i \in 1..(n + 1) : i > 1 => l[i - 1] + Tick(After(r[i - 1]), r[i]) <= l[i]
    <2> SUFFICES ASSUME NEW i \in 1..(n + 1), i > 1
                 PROVE  l[i - 1] + Tick(After(r[i - 1]), r[i]) <= l[i]
      OBVIOUS
    <2>1. CASE i \in 1..n
      <3>1. m[i - 1] + Tick(After(q[i - 1]), q[i]) <= m[i]
        BY <1>1, <2>1 DEF Booked
      <3>2. i - 1 \in 1..n
        BY <2>1
      <3> HIDE DEF k, l, r, n
      <3>3. r[i - 1] = q[i - 1] /\ l[i - 1] = m[i - 1]
        BY <1>4, <1>5, <3>2
      <3>4. r[i] = q[i] /\ l[i] = m[i]
        BY <1>4, <1>5, <2>1
      <3> QED
        BY <3>1, <3>3, <3>4, Zenon
    <2>2. CASE i = n + 1
      <3>1. n # 0 /\ i - 1 = n
        BY <1>4, <2>2
      <3>2. k = l[n] + Tick(After(r[n]), p)
        BY <1>6, <3>1
      <3> HIDE DEF k, l, r, n
      <3> QED
        BY <1>2, <1>4, <1>5, <2>2, <3>1, <3>2
    <2> HIDE DEF k, l, r, n
    <2>3. i \in 1..n \/ i = n + 1
      BY <1>4
    <2> QED
      BY <2>1, <2>2, <2>3
  <1> HIDE DEF k, l, r, n
  <1>11. Booked(r, l, g, e)
    <2>1. \A i \in 1..(n + 1) : i \in 1..n \/ i = n + 1
      BY <1>4
    <2>2. \A i \in 1..(n + 1) : g <= l[i]
      BY <1>5, <1>8, <2>1
    <2>3. \A i, j \in 1..(n + 1) : i <= j => l[i] <= l[j]
      <3> SUFFICES ASSUME NEW i \in 1..(n + 1), NEW j \in 1..(n + 1), i <= j PROVE l[i] <= l[j]
        OBVIOUS
      <3>1. CASE j \in 1..n
        <4>1. i \in 1..n
          BY <1>4, <3>1
        <4> QED
          BY <1>8, <3>1, <4>1
      <3>2. CASE j = n + 1
        BY <1>2, <1>5, <1>8, <2>1, <3>2
      <3> QED
        BY <2>1, <3>1, <3>2
    <2> QED
      BY <1>4, <1>9, <1>10, <2>2, <2>3 DEF Booked
  <1>12. MarkOf(r, l, g) = k /\ EndOf(r, e) = After(p)
    BY <1>4, <1>5 DEF MarkOf, EndOf
  <1>13. Counted(k, After(p), NoPacket, c)
    BY <1>3 DEF Counted
  <1>14. Books(r, g, e, NoPacket, c)
    BY <1>4, <1>5, <1>11, <1>12, <1>13 DEF Books
  <1> QED
    BY <1>14 DEF r

\* The reader takes the oldest packet, and meets the gap before it.
LEMMA BooksPop ==
  ASSUME NEW q \in Seq(Packets), q # <<>>, NEW g \in Nat, NEW e \in Nat \cup {NoPos},
         NEW h \in Packets \cup {NoPacket}, NEW c \in [have : BOOLEAN, exp : Nat, errors : Nat],
         Books(q, g, e, h, c)
  PROVE  Books(Tail(q), g + Tick(e, Head(q)), After(Head(q)), h, c)
  <1>1. PICK m \in Seq(Nat) : /\ Len(m) = Len(q) /\ Booked(q, m, g, e)
                              /\ Counted(MarkOf(q, m, g), EndOf(q, e), h, c)
    BY DEF Books
  <1> DEFINE n == Len(q)
             r == Tail(q)
             l == Tail(m)
             f == g + Tick(e, q[1])
  <1>2. /\ n \in Nat \ {0} /\ Len(r) = n - 1 /\ r \in Seq(Packets) /\ Head(q) = q[1] /\ q[1] \in Packets
        /\ \A i \in 1..(n - 1) : r[i] = q[i + 1] /\ i + 1 \in 1..n /\ r[i] \in Packets
        /\ (r = <<>> => n = 1) /\ (r # <<>> => n > 1)
    BY TailParts
  <1>3. /\ Len(l) = n - 1 /\ l \in Seq(Nat)
        /\ \A i \in 1..(n - 1) : l[i] = m[i + 1] /\ l[i] \in Nat
        /\ m[1] \in Nat
    <2>1. m # <<>> /\ Len(m) = n
      BY <1>1, <1>2
    <2> QED
      BY <2>1, TailParts
  <1>4. f \in Nat /\ f <= m[1]
    <2>1. Tick(e, q[1]) \in {0, 1} /\ g + Tick(e, q[1]) <= m[1]
      BY <1>1, <1>2, TickNat DEF Booked
    <2> QED
      BY <2>1
  <1>5. /\ \A i, j \in 1..n : i <= j => m[i] <= m[j]
        /\ \A i \in 1..n : i > 1 => m[i - 1] + Tick(After(q[i - 1]), q[i]) <= m[i]
    BY <1>1 DEF Booked
  <1> HIDE DEF n, r, l, f
  <1>6. \A i \in 1..(n - 1) : f <= l[i]
    <2> SUFFICES ASSUME NEW i \in 1..(n - 1) PROVE f <= l[i]
      OBVIOUS
    <2>1. 1 \in 1..n /\ i + 1 \in 1..n /\ 1 <= i + 1
      BY <1>2
    <2>2. m[1] <= m[i + 1]
      BY <1>5, <2>1
    <2>3. l[i] = m[i + 1] /\ l[i] \in Nat
      BY <1>3
    <2>4. m[1] <= l[i]
      BY <2>2, <2>3, Zenon
    <2>5. m[1] \in Nat
      BY <1>3
    <2> QED
      BY <1>4, <2>3, <2>4, <2>5
  <1>7. \A i, j \in 1..(n - 1) : i <= j => l[i] <= l[j]
    <2> SUFFICES ASSUME NEW i \in 1..(n - 1), NEW j \in 1..(n - 1), i <= j PROVE l[i] <= l[j]
      OBVIOUS
    <2>1. i + 1 \in 1..n /\ j + 1 \in 1..n /\ i + 1 <= j + 1
      BY <1>2
    <2> QED
      BY <1>3, <1>5, <2>1
  <1>8. r # <<>> => f + Tick(After(q[1]), r[1]) <= l[1]
    <2> SUFFICES ASSUME r # <<>> PROVE f + Tick(After(q[1]), r[1]) <= l[1]
      OBVIOUS
    <2>1. 2 \in 1..n /\ 1 \in 1..(n - 1)
      BY <1>2
    <2>2. m[2 - 1] + Tick(After(q[2 - 1]), q[2]) <= m[2]
      BY <1>5, <2>1
    <2>3. r[1] = q[1 + 1] /\ l[1] = m[1 + 1] /\ l[1] \in Nat /\ r[1] \in Packets
      BY <1>2, <1>3, <2>1
    <2>4. Tick(After(q[1]), r[1]) \in {0, 1}
      BY <1>2, <2>3, AfterNat, TickNat
    <2>5. m[1] + Tick(After(q[1]), r[1]) <= l[1]
      <3>1. 2 - 1 = 1 /\ 1 + 1 = 2
        OBVIOUS
      <3> QED
        BY <2>2, <2>3, <3>1
    <2> QED
      BY <1>3, <1>4, <2>3, <2>4, <2>5
  <1>9. \A i \in 1..(n - 1) : i > 1 => l[i - 1] + Tick(After(r[i - 1]), r[i]) <= l[i]
    <2> SUFFICES ASSUME NEW i \in 1..(n - 1), i > 1
                 PROVE  l[i - 1] + Tick(After(r[i - 1]), r[i]) <= l[i]
      OBVIOUS
    <2>1. i + 1 \in 1..n /\ i + 1 > 1 /\ i - 1 \in 1..(n - 1) /\ (i + 1) - 1 = i /\ (i - 1) + 1 = i
      BY <1>2
    <2>2. m[(i + 1) - 1] + Tick(After(q[(i + 1) - 1]), q[i + 1]) <= m[i + 1]
      BY <1>5, <2>1
    <2>3. l[i - 1] = m[i] /\ r[i - 1] = q[i] /\ l[i] = m[i + 1] /\ r[i] = q[i + 1]
      BY <1>2, <1>3, <2>1
    <2> QED
      BY <2>1, <2>2, <2>3
  <1>10. Booked(r, l, f, After(q[1]))
    BY <1>2, <1>6, <1>7, <1>8, <1>9 DEF Booked
  <1>11. EndOf(r, After(q[1])) = EndOf(q, e)
    <2>1. r # <<>> => r[Len(r)] = q[n]
      <3>1. r # <<>> => n - 1 \in 1..(n - 1) /\ (n - 1) + 1 = n
        BY <1>2
      <3> QED
        BY <1>2, <3>1
    <2>2. r = <<>> => n = 1
      BY <1>2
    <2> QED
      BY <2>1, <2>2 DEF EndOf, n
  <1>12. MarkOf(r, l, f) \in Nat /\ MarkOf(q, m, g) \in Nat /\ MarkOf(r, l, f) <= MarkOf(q, m, g)
    <2>1. MarkOf(q, m, g) = m[n]
      BY DEF MarkOf, n
    <2>2. CASE r = <<>>
      BY <1>2, <1>3, <1>4, <2>1, <2>2 DEF MarkOf
    <2>3. CASE r # <<>>
      <3>1. n - 1 \in 1..(n - 1) /\ (n - 1) + 1 = n
        BY <1>2, <2>3
      <3>2. MarkOf(r, l, f) = l[n - 1]
        BY <1>2, <2>3 DEF MarkOf
      <3>3. l[n - 1] = m[n] /\ l[n - 1] \in Nat
        BY <1>3, <3>1
      <3> QED
        BY <2>1, <3>2, <3>3
    <2> QED
      BY <2>2, <2>3
  <1>13. Counted(MarkOf(r, l, f), EndOf(r, After(q[1])), h, c)
    <2> DEFINE x == EndOf(q, e)
    <2>1. x \in Nat \cup {NoPos}
      BY EndType
    <2> HIDE DEF x
    <2>2. Counted(MarkOf(q, m, g), x, h, c)
      BY <1>1 DEF x
    <2>3. h # NoPacket => Tick(x, h) \in {0, 1}
      BY <2>1, TickNat
    <2>4. Counted(MarkOf(r, l, f), x, h, c)
      BY <1>12, <2>2, <2>3 DEF Counted
    <2> QED
      BY <1>11, <2>4 DEF x
  <1>14. Books(r, f, After(q[1]), h, c)
    BY <1>2, <1>3, <1>10, <1>13 DEF Books
  <1> QED
    BY <1>2, <1>14 DEF r, f

\* Frames are in one place at a time: one in the worker's hands is not queued.
LEMMA RoomToPush ==
  ASSUME IInv, PoolBeforeFifo, wbuf # NoFrame
  PROVE  Len(fifo) < FifoCap
  <1> USE DEF IInv, TypeOK
  <1>1. /\ fifo \in Seq(Frames) /\ wbuf \in Frames /\ Len(fifo) \in Nat
        /\ \A i, j \in 1..Len(fifo) : fifo[i] = fifo[j] => i = j
        /\ \A i \in 1..Len(fifo) : fifo[i] # wbuf
    BY DEF WorkerType, FrameOwnership, FifoFrames, WorkerFrames
  <1> DEFINE L == Len(fifo)
             r == Append(fifo, wbuf)
             S == 1..(L + 1)
  <1>2. r \in Seq(Frames) /\ Len(r) = L + 1 /\ r[L + 1] = wbuf /\ \A i \in 1..L : r[i] = fifo[i]
    BY <1>1, AppendParts
  <1>3. NumFrames \in Nat \ {0} /\ FifoCap \in Nat \ {0} /\ NumFrames <= FifoCap
    BY SizesAssumption DEF PoolBeforeFifo
  <1> HIDE DEF r
  <1>4. r \in [S -> Frames]
    BY <1>2
  <1>5. \A i, j \in S : i # j => r[i] # r[j]
    <2>1. \A i \in S : i \in 1..L \/ i = L + 1
      BY <1>1
    <2> QED
      BY <1>1, <1>2, <2>1
  <1>6. /\ IsFiniteSet(S) /\ Cardinality(S) = L + 1
        /\ IsFiniteSet(Frames) /\ Cardinality(Frames) = NumFrames
    BY <1>1, <1>3, FS_Interval DEF Frames
  <1> HIDE DEF S, L
  <1>7. ~(NumFrames < L + 1)
    BY <1>4, <1>5, <1>6, FS_PigeonHole
  <1> QED
    BY <1>1, <1>3, <1>7 DEF L

LEMMA LedgerTypes ==
  ASSUME IInv
  PROVE  /\ Queued \in Seq(Packets) /\ InHand \in Packets \cup {NoPacket}
         /\ hist.gaps \in Nat /\ ReaderEnd \in Nat \cup {NoPos}
         /\ cont \in [have : BOOLEAN, exp : Nat, errors : Nat]
  <1>1. pending.buf # NoFrame => After(pending.pkt) \in Nat
    BY FlowTypes, AfterNat
  <1> QED
    BY <1>1, FlowTypes DEF ReaderEnd, IInv, TypeOK, ControlType, WorkerType

LEMMA InitLedger == Init => LedgerInv
  <1> SUFFICES ASSUME Init PROVE LedgerInv
    OBVIOUS
  <1>1. Queued = <<>> /\ hist.gaps = 0 /\ ReaderEnd = NoPos /\ InHand = NoPacket /\ cont.errors = 0
    BY DEF Init, Queued, Contents, InHand, ReaderEnd, NoPending, NoContinuity
  <1> QED
    BY <1>1, BooksEmpty DEF LedgerInv

LEMMA LedgerStep ==
  ASSUME IInv, IInv', ~ConcurrentControl, PoolBeforeFifo, QuietInv, LedgerInv, [Next]_vars
  PROVE  LedgerInv'
  <1> USE DEF IInv, TypeOK
  <1>0. /\ Queued \in Seq(Packets) /\ InHand \in Packets \cup {NoPacket} /\ hist.gaps \in Nat
        /\ ReaderEnd \in Nat \cup {NoPos} /\ cont \in [have : BOOLEAN, exp : Nat, errors : Nat]
        /\ Books(Queued, hist.gaps, ReaderEnd, InHand, cont)
    BY LedgerTypes DEF LedgerInv
  <1>1. ASSUME Same, hist'.gaps = hist.gaps, ReaderEnd' = ReaderEnd, UNCHANGED cont
        PROVE  LedgerInv'
    BY <1>1 DEF LedgerInv, Same
  <1>2. ASSUME Bystander, Same PROVE LedgerInv'
    BY <1>1, <1>2 DEF Bystander, ReaderEnd
  <1>3. CASE (\E fault \in NetFaults \cup {"none"} : DevSend(fault)) \/ LateArrive
    BY <1>1, <1>3, DeviceViews DEF DevSend, LateArrive, ReaderEnd
  <1>4. CASE Take
    <2>1. /\ InHand = NoPacket /\ UNCHANGED <<Queued, pending, hist>> /\ sock # <<>>
          /\ IF Head(sock).ok THEN InHand' = Head(sock) /\ NoteContinuity(Head(sock))
                              ELSE InHand' = NoPacket /\ UNCHANGED cont
      BY <1>4 DEF Take
    <2>2. ReaderEnd' = ReaderEnd
      BY <2>1 DEF ReaderEnd
    <2>3. CASE Head(sock).ok
      <3> DEFINE p == Head(sock)
      <3>1. p \in Packets
        BY <2>1 DEF TransportType
      <3>2. InHand' = p /\ cont' = [have |-> TRUE, exp |-> After(p),
               errors |-> cont.errors + (IF cont.have /\ Stamp(p) # cont.exp THEN 1 ELSE 0)]
        BY <2>1, <2>3 DEF NoteContinuity, After
      <3> HIDE DEF p
      <3>3. Books(Queued, hist.gaps, ReaderEnd, p, cont')
        BY <1>0, <2>1, <3>1, <3>2, BooksTake
      <3> QED
        BY <2>1, <2>2, <3>2, <3>3 DEF LedgerInv
    <2>4. CASE ~Head(sock).ok
      BY <1>1, <2>1, <2>2, <2>4 DEF Same
    <2> QED
      BY <2>3, <2>4
  <1>5. CASE Put
    <2>1. /\ InHand \in Packets /\ InHand' = NoPacket /\ Queued' = Append(Pushed, InHand)
          /\ UNCHANGED <<pending, cont, hist>>
      BY <1>5 DEF Put
    <2>2. Len(fifo) < FifoCap
      BY <2>1, RoomToPush, SentinelsAssumption DEF InHand, NoPacket
    <2>3. Pushed = Queued
      <3>1. Len(fifo) \in Nat /\ FifoCap \in Nat
        BY SizesAssumption DEF WorkerType
      <3> QED
        BY <2>2, <3>1 DEF Pushed
    <2>4. Books(Append(Queued, InHand), hist.gaps, ReaderEnd, NoPacket, cont)
      BY <1>0, <2>1, BooksPut
    <2>5. ReaderEnd' = ReaderEnd
      BY <2>1 DEF ReaderEnd
    <2> QED
      BY <2>1, <2>3, <2>4, <2>5 DEF LedgerInv
  <1>6. CASE Worker
    BY <1>2, <1>4, <1>5, <1>6, WorkerViews
  <1>7. ASSUME NEW mode \in Modes, NEW fmt \in Formats, NEW want \in Requests,
               RecvCall(mode, fmt, want)
        PROVE  LedgerInv'
    <2>1. UNCHANGED <<fifo, wbuf, frame, pending, cont>> /\ hist'.gaps = hist.gaps
      BY <1>7 DEF RecvCall, RecvUnchanged, ControlType
    <2> QED
      BY <1>1, <2>1, SameViews DEF ReaderEnd
  <1>8. CASE Pop
    <2> DEFINE p == Head(Queued)
    <2>1. /\ pending.buf = NoFrame /\ Queued # <<>> /\ Queued' = Tail(Queued) /\ UNCHANGED <<InHand, cont>>
          /\ pending'.buf # NoFrame /\ pending'.pkt = p
          /\ hist' = [hist EXCEPT !.gaps = @ + (IF Gap(p) THEN 1 ELSE 0)]
      BY <1>8 DEF Pop
    <2>2. Books(Tail(Queued), hist.gaps + Tick(ReaderEnd, p), After(p), InHand, cont)
      BY <1>0, <2>1, BooksPop
    <2> HIDE DEF p
    <2>3. ReaderEnd' = After(p)
      BY <2>1 DEF ReaderEnd, After
    <2>4. hist'.gaps = hist.gaps + Tick(ReaderEnd, p)
      BY <2>1 DEF ControlType, ReaderEnd, Tick, Gap
    <2> QED
      BY <2>1, <2>2, <2>3, <2>4 DEF LedgerInv
  <1>9. CASE RecvCopy /\ Same
    <2> DEFINE after == Stamp(pending.pkt) + (pending.off + NumToCopy)
    <2>1. /\ UNCHANGED cont /\ pending.buf # NoFrame /\ hist'.gaps = hist.gaps
      BY <1>9 DEF RecvCopy, RecvUnchanged, ControlType
    <2>2. \/ pending' = [NoPending EXCEPT !.exp = after] /\ pending.off + NumToCopy = Spp
          \/ pending' = [pending EXCEPT !.disc = FALSE, !.back = FALSE, !.exp = after,
                                        !.off = pending.off + NumToCopy]
      BY <1>9 DEF RecvCopy
    <2>3. pending.off + NumToCopy = Spp => after = After(pending.pkt)
      BY DEF After
    <2> HIDE DEF after
    <2>4. ReaderEnd' = ReaderEnd
      <3>1. CASE pending' = [NoPending EXCEPT !.exp = after] /\ pending.off + NumToCopy = Spp
        BY <2>1, <2>3, <3>1 DEF ReaderEnd, NoPending
      <3>2. CASE pending' = [pending EXCEPT !.disc = FALSE, !.back = FALSE, !.exp = after,
                                        !.off = pending.off + NumToCopy]
        <4>1. pending'.buf = pending.buf /\ pending'.pkt = pending.pkt
          BY <3>2 DEF ConsumerType
        <4> QED
          BY <2>1, <4>1 DEF ReaderEnd, After
      <3> QED
        BY <2>2, <3>1, <3>2
    <2> QED
      BY <1>1, <1>9, <2>1, <2>4
  <1>10. CASE RecvUnknownFormat /\ Same
    <2>1. /\ UNCHANGED <<cont, hist>> /\ pending'.buf = pending.buf /\ pending'.pkt = pending.pkt
          /\ pending'.exp = pending.exp
      BY <1>10 DEF RecvUnknownFormat, RecvUnchanged, ConsumerType
    <2> QED
      BY <1>1, <1>10, <2>1 DEF ReaderEnd, After
  <1>11. CASE RecvStep
    BY <1>2, <1>8, <1>9, <1>10, <1>11, ConsumerViews
  <1>12. ASSUME NEW o \in Ops, KCall(o) PROVE LedgerInv'
    <2>1. UNCHANGED <<fifo, wbuf, frame, pending, cont>> /\ hist'.gaps = hist.gaps
      BY <1>12 DEF KCall, CtlUnchanged, poolVars, ControlType
    <2> QED
      BY <1>1, <2>1, SameViews DEF ReaderEnd
  <1>13. CASE KFlush
    <2>1. Queued' = <<>> /\ InHand' = NoPacket
      BY <1>13, EmptyView
    <2>2. pending' = NoPending /\ hist'.gaps = hist.gaps /\ UNCHANGED cont
      BY <1>13 DEF KFlush, StopPending, ControlType
    <2>3. ReaderEnd' = NoPos
      BY <2>2 DEF ReaderEnd, NoPending
    <2>4. Books(<<>>, hist.gaps, NoPos, NoPacket, cont)
      BY <1>0, BooksCover
    <2> QED
      BY <2>1, <2>2, <2>3, <2>4 DEF LedgerInv
  <1>14. CASE KReset
    <2>1. Queued' = <<>> /\ InHand' = NoPacket /\ InHand = NoPacket
      BY <1>14, EmptyView
    <2>2. UNCHANGED <<pending, hist, cont>> /\ fifo = <<>>
      BY <1>14 DEF KReset, ProtocolInv, QuietInv, Still
    <2>3. Queued = <<>>
      BY <2>2 DEF Queued, Contents
    <2> QED
      BY <1>1, <2>1, <2>2, <2>3 DEF Same, ReaderEnd
  <1>15. CASE KDrainEnd /\ Same
    <2>1. kpc = "drain" /\ wpc = "none" /\ fifo = <<>>
      BY <1>15 DEF KDrainEnd, ProtocolInv, QuietInv, Still
    <2>2. Queued' = <<>> /\ InHand' = NoPacket
      BY <1>15, <2>1, ViewTypes DEF Queued, Contents, Same
    <2>3. ReaderEnd' = NoPos /\ hist'.gaps = 0 /\ cont'.errors = 0
      BY <1>15 DEF KDrainEnd, ResetContinuity, NoContinuity, NoPending, ReaderEnd, ControlType
    <2>4. Books(<<>>, 0, NoPos, NoPacket, cont')
      BY <2>3, BooksEmpty
    <2> QED
      BY <2>2, <2>3, <2>4 DEF LedgerInv
  <1>16. CASE KDrain /\ Same
    BY <1>1, <1>16 DEF KDrain, CtlUnchanged, ReaderEnd
  <1>17. ASSUME NEW o \in PokeOutcomes, KPokeStop(o) \/ KTune(o) \/ KPokeStart(o), Same
         PROVE  LedgerInv'
    <2>1. UNCHANGED <<pending, cont>> /\ hist'.gaps = hist.gaps
      BY <1>17 DEF KPokeStop, KTune, KPokeStart, ControlType
    <2> QED
      BY <1>1, <1>17, <2>1 DEF ReaderEnd
  <1>18. CASE ControlStep
    BY <1>2, <1>13, <1>14, <1>15, <1>16, <1>17, <1>18, ControlViews
  <1>19. CASE UNCHANGED vars
    BY <1>1, <1>19, SameViews DEF vars, poolVars, workerVars, ReaderEnd
  <1> QED
    BY <1>3, <1>6, <1>7, <1>11, <1>12, <1>18, <1>19 DEF Next

LEMMA LedgerHolds == ~ConcurrentControl /\ PoolBeforeFifo /\ Spec => []LedgerInv
  <1> SUFFICES ASSUME ~ConcurrentControl, PoolBeforeFifo PROVE Spec => []LedgerInv
    OBVIOUS
  <1>1. LedgerInv /\ QuietInv /\ IInv /\ [Next]_vars => (LedgerInv /\ QuietInv /\ IInv)'
    BY StepKeepsIInv, QuietStep, LedgerStep
  <1> QED
    BY <1>1, InitIInv, InitQuiet, InitLedger, PTL DEF Spec

\* With the pool empty before the FIFO is full, as deployed, the host loses
\* nothing between the worker and the reader: each gap the reader meets is a
\* timestamp error of the worker.
THEOREM GapsCounted ==
  ~ConcurrentControl /\ PoolBeforeFifo /\ Spec => []GapsAccounted
  <1> SUFFICES ASSUME ~ConcurrentControl, PoolBeforeFifo PROVE Spec => []GapsAccounted
    OBVIOUS
  <1>1. LedgerInv /\ IInv => GapsAccounted
    BY LedgerTypes, BooksCover DEF LedgerInv, GapsAccounted
  <1> QED
    BY <1>1, LedgerHolds, InductiveInvariant, PTL

-----------------------------------------------------------------------------
(* Nothing is lost over a perfect network. *)

LEMMA NewestTail ==
  ASSUME NEW s \in Seq(Packets), s # <<>>, NEW n \in Nat, Newest(s, n), Len(s) <= n
  PROVE  /\ Newest(Tail(s), n) /\ Len(Tail(s)) = Len(s) - 1 /\ Len(s) \in Nat \ {0}
         /\ Head(s) \in Packets /\ Head(s).ok /\ Head(s).n = n - Len(s)
  <1>1. /\ Len(s) \in Nat \ {0} /\ Head(s) = s[1] /\ s[1] \in Packets
        /\ Len(Tail(s)) = Len(s) - 1
        /\ \A i \in 1..(Len(s) - 1) : Tail(s)[i] = s[i + 1] /\ i + 1 \in 1..Len(s)
    BY TailParts
  <1>2. \A i \in 1..Len(s) : s[i].ok /\ s[i].n + Len(s) + 1 = n + i /\ s[i].n \in Nat
    <2>1. \A i \in 1..Len(s) : s[i] \in Packets
      OBVIOUS
    <2> QED
      BY <2>1 DEF Newest, Packets
  <1>3. s[1].ok /\ s[1].n + Len(s) + 1 = n + 1 /\ s[1].n \in Nat
    BY <1>1, <1>2
  <1>4. \A i \in 1..(Len(s) - 1) : Tail(s)[i].ok /\ Tail(s)[i].n + (Len(s) - 1) + 1 = n + i
    <2> SUFFICES ASSUME NEW i \in 1..(Len(s) - 1)
                 PROVE  Tail(s)[i].ok /\ Tail(s)[i].n + (Len(s) - 1) + 1 = n + i
      OBVIOUS
    <2>1. i + 1 \in 1..Len(s) /\ Tail(s)[i] = s[i + 1]
      BY <1>1
    <2>2. s[i + 1].ok /\ s[i + 1].n + Len(s) + 1 = n + (i + 1) /\ s[i + 1].n \in Nat
      BY <1>2, <2>1
    <2>3. s[i + 1].n + (Len(s) - 1) + 1 = n + i
      BY <1>1, <2>2
    <2> QED
      BY <2>1, <2>2, <2>3, Zenon
  <1>5. Newest(Tail(s), n)
    BY <1>1, <1>4 DEF Newest
  <1> QED
    BY <1>1, <1>3, <1>5

LEMMA NewestAppend ==
  ASSUME NEW s \in Seq(Packets), NEW n \in Nat, NEW p \in Packets, p.ok, p.n = n, Newest(s, n)
  PROVE  Newest(Append(s, p), n + 1) /\ Len(Append(s, p)) = Len(s) + 1 /\ Len(s) \in Nat
  <1> DEFINE r == Append(s, p)
  <1>1. /\ Len(s) \in Nat /\ Len(r) = Len(s) + 1 /\ r[Len(s) + 1] = p
        /\ \A i \in 1..Len(s) : r[i] = s[i]
    BY AppendParts
  <1>2. \A i \in 1..Len(s) : s[i].ok /\ s[i].n + Len(s) + 1 = n + i /\ s[i].n \in Nat
    <2>1. \A i \in 1..Len(s) : s[i] \in Packets
      OBVIOUS
    <2> QED
      BY <2>1 DEF Newest, Packets
  <1> HIDE DEF r
  <1>3. \A i \in 1..(Len(s) + 1) : r[i].ok /\ r[i].n + (Len(s) + 1) + 1 = (n + 1) + i
    <2> SUFFICES ASSUME NEW i \in 1..(Len(s) + 1)
                 PROVE  r[i].ok /\ r[i].n + (Len(s) + 1) + 1 = (n + 1) + i
      OBVIOUS
    <2>1. CASE i \in 1..Len(s)
      <3>1. s[i].n + Len(s) + 1 = n + i /\ s[i].n \in Nat /\ Len(s) \in Nat
        BY <1>2, <2>1
      <3>2. s[i].n + (Len(s) + 1) + 1 = (n + 1) + i
        <4>1. \A a, b, j \in Nat : a + b + 1 = n + j => a + (b + 1) + 1 = (n + 1) + j
          OBVIOUS
        <4>2. i \in Nat
          BY <1>1
        <4> QED
          BY <3>1, <4>1, <4>2, Zenon
      <3>3. s[i].ok /\ r[i] = s[i]
        BY <1>1, <1>2, <2>1
      <3> QED
        BY <3>2, <3>3, Zenon
    <2>2. CASE i = Len(s) + 1
      BY <1>1, <2>2
    <2> QED
      BY <1>1, <2>1, <2>2
  <1>4. Newest(r, n + 1)
    BY <1>1, <1>3 DEF Newest
  <1> QED
    BY <1>1, <1>4 DEF r

LEMMA InitPerfect == Init => PerfectInv
  BY SizesAssumption DEF Init, PerfectInv, Newest, NoContinuity

LEMMA PerfectStep ==
  ASSUME IInv, IInv', ~ConcurrentControl, PerfectNetwork, NoReceiveErrors,
         QuietInv, DrainInv, PerfectInv, [Next]_vars
  PROVE  PerfectInv'
  <1> USE DEF IInv, TypeOK
  <1>0. /\ sock \in Seq(Packets) /\ device.n \in Nat /\ Len(sock) \in Nat /\ Spp \in Nat \ {0}
        /\ SockCap \in Nat /\ MaxPkts \in Nat /\ MaxPkts <= SockCap
        /\ cont \in [have : BOOLEAN, exp : Nat, errors : Nat]
    BY SizesAssumption DEF TransportType, WorkerType, PerfectNetwork
  <1>1. ASSUME UNCHANGED <<sock, cont>>, device'.n = device.n,
               kpc = "drain" => kpc' = "drain", kpc' = "pokestart" => kpc = "pokestart"
        PROVE  PerfectInv'
    BY <1>1 DEF PerfectInv
  <1>2. ASSUME Bystander PROVE PerfectInv'
    BY <1>1, <1>2 DEF Bystander, NoReceiveErrors
  <1>3. ASSUME NEW fault \in NetFaults \cup {"none"}, DevSend(fault) PROVE PerfectInv'
    <2> DEFINE p == [n |-> device.n, rf |-> device.rf, run |-> device.run, ok |-> fault # "bad"]
    <2>1. fault = "none" /\ device.n < MaxPkts /\ UNCHANGED <<kpc, cont>>
      BY <1>3 DEF PerfectNetwork, DevSend, ctlVars
    <2>2. p \in Packets /\ p.ok /\ p.n = device.n
      BY <2>1 DEF TransportType, Packets
    <2>3. device'.n = device.n + 1
      BY <1>3 DEF DevSend, TransportType
    <2>4. Len(sock) < SockCap
      BY <1>0, <2>1 DEF PerfectInv
    <2>5. sock' = Append(sock, p)
      BY <1>3, <2>1, <2>4 DEF DevSend, Offer
    <2> HIDE DEF p
    <2>6. Newest(sock', device.n + 1) /\ Len(sock') = Len(sock) + 1
      BY <1>0, <2>2, <2>5, NewestAppend DEF PerfectInv
    <2>7. Len(sock') <= device'.n /\ Len(sock') <= MaxPkts /\ device'.n - Len(sock') = device.n - Len(sock)
      BY <1>0, <2>1, <2>3, <2>6 DEF PerfectInv
    <2> QED
      BY <2>1, <2>3, <2>6, <2>7 DEF PerfectInv
  <1>4. CASE LateArrive
    BY <1>4 DEF LateArrive, DrainInv
  <1>5. ASSUME sock # <<>>, sock' = Tail(sock), device' = device
        PROVE  /\ Newest(sock', device'.n) /\ Len(sock') <= device'.n /\ Len(sock') <= MaxPkts
               /\ Head(sock) \in Packets /\ Head(sock).ok /\ Head(sock).n = device.n - Len(sock)
               /\ Len(sock') = Len(sock) - 1
    <2>1. /\ Newest(Tail(sock), device.n) /\ Len(Tail(sock)) = Len(sock) - 1
          /\ Head(sock) \in Packets /\ Head(sock).ok /\ Head(sock).n = device.n - Len(sock)
      BY <1>0, <1>5, NewestTail DEF PerfectInv
    <2>2. Len(sock) - 1 <= device.n /\ Len(sock) - 1 <= MaxPkts
      BY <1>0 DEF PerfectInv
    <2> QED
      BY <1>5, <2>1, <2>2
  <1>6. CASE Take
    <2>1. /\ sock # <<>> /\ sock' = Tail(sock) /\ wpc = "recv" /\ UNCHANGED <<device, kpc>>
      BY <1>6 DEF Take
    <2>2. kpc # "drain" /\ kpc # "pokestart"
      BY <2>1 DEF ProtocolInv
    <2>3. NoteContinuity(Head(sock))
      BY <1>5, <1>6, <2>1 DEF Take
    <2>4. Stamp(Head(sock)) = Spp * (device.n - Len(sock))
      BY <1>5, <2>1 DEF Stamp
    <2>5. cont'.errors = 0
      <3>1. cont.have => Stamp(Head(sock)) = cont.exp
        BY <2>2, <2>4 DEF PerfectInv
      <3> QED
        BY <2>3, <3>1 DEF NoteContinuity, PerfectInv
    <2>6. cont'.exp = Spp * (device.n - Len(sock')) 
      <3>1. device.n - Len(sock) \in Nat /\ device.n - Len(sock') = (device.n - Len(sock)) + 1
        BY <1>0, <1>5, <2>1 DEF PerfectInv
      <3>2. Spp * ((device.n - Len(sock)) + 1) = Spp * (device.n - Len(sock)) + Spp
        BY <3>1, ClockTick
      <3> QED
        BY <2>3, <2>4, <3>1, <3>2 DEF NoteContinuity
    <2> QED
      BY <1>5, <2>1, <2>2, <2>5, <2>6 DEF PerfectInv
  <1>7. CASE Worker
    <2>1. CASE Put
      BY <1>1, <2>1 DEF Put
    <2> QED
      BY <1>2, <1>6, <1>7, <2>1, WorkerViews
  <1>8. ASSUME NEW mode \in Modes, NEW fmt \in Formats, NEW want \in Requests,
               RecvCall(mode, fmt, want)
        PROVE  PerfectInv'
    BY <1>1, <1>8 DEF RecvCall, RecvUnchanged, sockVars, ctlVars
  <1>9. CASE RecvStep
    BY <1>1, <1>9 DEF RecvStep, RecvStart, RecvPop, RecvTimeout, RecvCopy, RecvUnknownFormat,
                      RecvUnchanged, sockVars, ctlVars
  <1>10. ASSUME NEW o \in Ops, KCall(o) PROVE PerfectInv'
    <2>1. UNCHANGED <<sock, cont, device>> /\ kpc = "idle"
      BY <1>10 DEF KCall, CtlUnchanged
    <2>2. kpc' # "pokestart"
      BY <1>10, ChoicesAssumption DEF KCall, EnterStop
    <2> QED
      BY <1>1, <2>1, <2>2
  <1>11. CASE KFlush
    <2>1. UNCHANGED <<sock, cont, device>> /\ kpc = "flush"
      BY <1>11 DEF KFlush, CtlUnchanged
    <2>2. kpc' # "pokestart"
      BY <1>11 DEF KFlush, ProtocolInv, ControlType
    <2> QED
      BY <1>1, <2>1, <2>2
  <1>12. CASE KReset
    BY <1>12 DEF KReset, CtlUnchanged, PerfectInv
  <1>13. CASE KDrain
    <2>1. sock # <<>> /\ sock' = Tail(sock) /\ UNCHANGED <<device, cont, kpc>> /\ kpc = "drain"
      BY <1>13 DEF KDrain, CanDrain, CtlUnchanged
    <2> QED
      BY <1>5, <2>1 DEF PerfectInv
  <1>14. CASE KDrainEnd
    <2>1. UNCHANGED <<sock, device>> /\ cont' = NoContinuity
      BY <1>14 DEF KDrainEnd, CtlUnchanged, ResetContinuity
    <2> QED
      BY <2>1 DEF PerfectInv, NoContinuity
  <1>15. ASSUME NEW o \in PokeOutcomes, KPokeStop(o) \/ KTune(o) PROVE PerfectInv'
    <2>1. UNCHANGED <<sock, cont>> /\ device'.n = device.n /\ kpc \in {"pokestop", "tune"}
      BY <1>15 DEF KPokeStop, KTune, CtlUnchanged, TransportType
    <2>2. kpc' # "pokestart"
      BY <1>15 DEF KPokeStop, KTune, EnterStop
    <2> QED
      BY <1>1, <2>1, <2>2
  <1>16. ASSUME NEW o \in PokeOutcomes, KPokeStart(o) PROVE PerfectInv'
    <2>1. UNCHANGED <<sock, cont>> /\ kpc = "pokestart" /\ kpc' = "idle"
      BY <1>16 DEF KPokeStart, CtlUnchanged
    <2>2. ~cont'.have
      BY <2>1 DEF PerfectInv
    <2>3. CASE device'.n = device.n
      BY <2>1, <2>2, <2>3 DEF PerfectInv
    <2>4. CASE device'.n # device.n
      <3>1. ~device.streaming /\ device'.n = device.n + 1
        BY <1>16, <2>4 DEF KPokeStart
      <3>2. sock = <<>>
        BY <2>1, <3>1 DEF DrainInv
      <3>3. Newest(sock', device'.n) /\ Len(sock') = 0
        BY <2>1, <3>2 DEF Newest
      <3> QED
        BY <1>0, <2>1, <2>2, <3>1, <3>3 DEF PerfectInv
    <2> QED
      BY <2>3, <2>4
  <1>17. CASE KJoin
    BY <1>1, <1>17 DEF KJoin, CtlUnchanged
  <1>18. CASE KDrainError
    <2>1. hist.errors < MaxErrors /\ hist.errors \in Nat
      BY <1>18 DEF KDrainError, ControlType
    <2> QED
      BY <2>1 DEF NoReceiveErrors
  <1>19. CASE UNCHANGED vars
    BY <1>1, <1>19 DEF vars, sockVars, ctlVars
  <1> QED
    BY <1>3, <1>4, <1>7, <1>8, <1>9, <1>10, <1>11, <1>12, <1>13, <1>14, <1>15, <1>16, <1>17, <1>18,
       <1>19 DEF Next, ControlStep

\* Over a perfect network and an ample socket buffer a slow application loses
\* nothing: no gap is met or counted between START and STOP or retune.
THEOREM HostLosesNothing ==
  ~ConcurrentControl /\ PerfectNetwork /\ NoReceiveErrors /\ DrainCoversSocket /\ PoolBeforeFifo /\ Spec
    => []LosslessHost
  <1> SUFFICES ASSUME ~ConcurrentControl, PerfectNetwork, NoReceiveErrors, DrainCoversSocket,
                      PoolBeforeFifo
               PROVE  Spec => []LosslessHost
    OBVIOUS
  <1>0. NoOvertaking
    BY DEF PerfectNetwork, NoOvertaking
  <1>1. PerfectInv /\ DrainInv /\ QuietInv /\ IInv /\ [Next]_vars
        => (PerfectInv /\ DrainInv /\ QuietInv /\ IInv)'
    BY <1>0, StepKeepsIInv, QuietStep, DrainStep, PerfectStep
  <1>2. PerfectInv /\ GapsAccounted /\ IInv => LosslessHost
    BY LedgerTypes DEF PerfectInv, GapsAccounted, LosslessHost
  <1> QED
    BY <1>1, <1>2, InitIInv, InitQuiet, InitDrain, InitPerfect, GapsCounted, InductiveInvariant, PTL DEF Spec

=============================================================================
