---------------------------- MODULE RxStreamProofs ----------------------------
(***************************************************************************)
(* Proofs about RxStream: type correctness and the ownership of frames, for *)
(* every number of frames, FIFO capacity, packet size and bound, when the   *)
(* control calls and recv() are made by one thread at a time.               *)
(***************************************************************************)
EXTENDS RxStream, TLAPS

\* How the three threads of control keep out of each other's way.
ProtocolInv ==
    /\ kpc # "idle" => cpc = "idle" /\ op # "none"
    /\ kpc \in {"flush", "tune", "reset", "drain", "pokestart"} => wpc = "none"
    /\ wpc = "push" <=> wbuf # NoFrame
    /\ wpc = "recv" => frame[BuffIndex] = Claimed
    /\ pending.buf # NoFrame => pending.pkt \in Packets
    /\ cpc = "wait" => pending.buf = NoFrame

IInv == TypeOK /\ ProtocolInv /\ FrameOwnership /\ FramesAccounted

-----------------------------------------------------------------------------
(* The operators of the model *)

LEMMA StampNat == ASSUME NEW p \in Packets PROVE Stamp(p) \in Nat
  BY SizesAssumption DEF Stamp, Packets

LEMMA SampleType ==
  ASSUME NEW p \in Packets, NEW k \in Nat
  PROVE  SampleOf(p, k) \in Samples
  BY StampNat DEF SampleOf, Samples, Packets

LEMMA BuffIndexType == TransportType => BuffIndex \in Frames
  BY SizesAssumption DEF TransportType, BuffIndex, Frames

LEMMA ReleaseType ==
  ASSUME TransportType, NEW fs
  PROVE  Release(fs) \in [Frames -> Packets \cup {Free, Claimed}]
  BY DEF TransportType, Release

LEMMA CopyBounds ==
  ASSUME ConsumerType
  PROVE  /\ NumToCopy \in Nat
         /\ call.left - NumToCopy \in Nat
         /\ pending.off + NumToCopy \in 0..Spp
  <1>1. call.left \in Nat /\ pending.off \in 0..(Spp - 1)
    BY DEF ConsumerType
  <1>2. Spp - pending.off \in Nat
    BY <1>1, SizesAssumption
  <1> QED
    BY <1>1, <1>2, SizesAssumption DEF NumToCopy

LEMMA OpenedType ==
  ASSUME ConsumerType, pending.pkt \in Packets
  PROVE  Opened \in [got : Seq(Samples), ts : Nat, disc : BOOLEAN, back : BOOLEAN]
  <1>1. Stamp(pending.pkt) + pending.off \in Nat
    BY StampNat DEF ConsumerType
  <1>2. /\ (pending.disc /\ call.mode = "fifo") \in BOOLEAN
        /\ (pending.disc /\ pending.back /\ call.mode = "fifo") \in BOOLEAN
    OBVIOUS
  <1> QED
    BY <1>1, <1>2 DEF ConsumerType, Opened

LEMMA InitIInv == Init => IInv
  <1> SUFFICES ASSUME Init PROVE IInv
    OBVIOUS
  <1>1. TypeOK
    <2>1. TransportType
      <3>1. StreamingAtOpen \in BOOLEAN
        BY ChoicesAssumption
      <3>2. device \in [streaming : BOOLEAN, rf : Nat, run : Nat, n : Nat]
        BY <3>1 DEF Init
      <3> QED
        BY <3>2, SizesAssumption DEF TransportType, Init
    <2>2. WorkerType
      BY DEF WorkerType, NoContinuity, Init
    <2>3. ConsumerType
      BY SizesAssumption DEF ConsumerType, NoPending, NoCall, NoOut, Init
    <2>4. ControlType
      BY DEF ControlType, Init
    <2>5. FlagsType
      BY DEF FlagsType, Init
    <2> QED
      BY <2>1, <2>2, <2>3, <2>4, <2>5 DEF TypeOK
  <1>2. ProtocolInv
    BY DEF ProtocolInv, NoPending, Init
  <1>3. FrameOwnership
    BY DEF FrameOwnership, FifoFrames, WorkerFrames, PendingFrames, NoPending, Init
  <1>4. FramesAccounted
    BY DEF FramesAccounted, Init
  <1> QED
    BY <1>1, <1>2, <1>3, <1>4 DEF IInv

-----------------------------------------------------------------------------
(* One step *)

\* A step that leaves the pool and the holders of frames alone.
LEMMA PoolUntouched ==
  ASSUME FrameOwnership, FramesAccounted,
         UNCHANGED <<frame, nextBuff, fifo, pending, wbuf>>
  PROVE  FrameOwnership' /\ FramesAccounted'
  BY DEF FrameOwnership, FramesAccounted, FifoFrames, WorkerFrames, PendingFrames, BuffIndex

LEMMA DeviceStep ==
  ASSUME IInv, (\E fault \in NetFaults \cup {"none"} : DevSend(fault)) \/ LateArrive
  PROVE  IInv'
  <1> USE DEF IInv, TypeOK
  <1>1. ASSUME NEW fault \in NetFaults \cup {"none"}, DevSend(fault) PROVE IInv'
    <2> DEFINE p == [n |-> device.n, rf |-> device.rf, run |-> device.run,
                     ok |-> fault # "bad"]
    <2>1. device \in [streaming : BOOLEAN, rf : Nat, run : Nat, n : Nat]
      BY DEF TransportType
    <2>2. p \in Packets
      BY <2>1 DEF Packets
    <2>3. device' \in [streaming : BOOLEAN, rf : Nat, run : Nat, n : Nat]
      BY <1>1, <2>1 DEF DevSend
    <2>4. sock' \in Seq(Packets)
      BY <1>1, <2>2 DEF DevSend, Offer, TransportType
    <2>5. late' \in Packets \cup {NoPacket}
      BY <1>1, <2>2 DEF DevSend, TransportType
    <2>6. UNCHANGED <<poolVars, workerVars, fifo, pending, cont, appVars, ctlVars, hist>>
      BY <1>1 DEF DevSend
    <2>7. TransportType'
      BY <2>3, <2>4, <2>5, <2>6 DEF TransportType, poolVars
    <2>8. TypeOK'
      BY <2>6, <2>7 DEF WorkerType, ConsumerType, ControlType, FlagsType,
                        workerVars, appVars, ctlVars
    <2>9. ProtocolInv'
      BY <2>6 DEF ProtocolInv, BuffIndex, workerVars, appVars, ctlVars, poolVars
    <2> QED
      BY <2>6, <2>8, <2>9, PoolUntouched DEF poolVars, workerVars
  <1>2. ASSUME LateArrive PROVE IInv'
    <2>1. sock' \in Seq(Packets)
      BY <1>2 DEF LateArrive, Offer, TransportType
    <2>2. late' = NoPacket /\ UNCHANGED <<device, poolVars, workerVars, fifo, pending, cont,
                                         appVars, ctlVars, hist>>
      BY <1>2 DEF LateArrive
    <2>3. TransportType'
      BY <2>1, <2>2 DEF TransportType, poolVars
    <2>4. TypeOK'
      BY <2>2, <2>3 DEF WorkerType, ConsumerType, ControlType, FlagsType,
                        workerVars, appVars, ctlVars
    <2>5. ProtocolInv'
      BY <2>2 DEF ProtocolInv, BuffIndex, workerVars, appVars, ctlVars, poolVars
    <2> QED
      BY <2>2, <2>4, <2>5, PoolUntouched DEF poolVars, workerVars
  <1> QED
    BY <1>1, <1>2

\* Only a frame that nobody holds changes: its holders see no difference.
LEMMA UnheldUpdate ==
  ASSUME IInv, NEW v, frame[BuffIndex] \notin Packets,
         frame' = [frame EXCEPT ![BuffIndex] = v],
         UNCHANGED <<fifo, pending, wbuf>>
  PROVE  FrameOwnership'
  <1> USE DEF IInv, TypeOK
  <1>1. \A f \in Frames : f # BuffIndex => frame'[f] = frame[f]
    BY DEF TransportType
  <1>2. FifoFrames \subseteq Frames /\ WorkerFrames \subseteq Frames
    BY DEF WorkerType, FifoFrames, WorkerFrames
  <1>3. \A f \in FifoFrames \cup WorkerFrames : f # BuffIndex
    BY DEF FrameOwnership
  <1>4. pending.buf # NoFrame => pending.buf \in Frames /\ pending.buf # BuffIndex
    BY DEF FrameOwnership, ProtocolInv, ConsumerType
  <1>5. UNCHANGED <<FifoFrames, WorkerFrames, PendingFrames>>
    BY DEF FifoFrames, WorkerFrames, PendingFrames
  <1> QED
    BY <1>1, <1>2, <1>3, <1>4, <1>5 DEF FrameOwnership

\* The next frame may be in any state without being lost.
LEMMA NextFrameUpdate ==
  ASSUME IInv, NEW v, frame' = [frame EXCEPT ![BuffIndex] = v],
         UNCHANGED <<nextBuff, fifo, pending, wbuf>>
  PROVE  FramesAccounted'
  BY DEF IInv, TypeOK, TransportType, FramesAccounted, FifoFrames, WorkerFrames,
         PendingFrames, BuffIndex

RangeOf(s) == {s[i] : i \in DOMAIN s}
Distinct(s) == \A i, j \in DOMAIN s : s[i] = s[j] => i = j

\* A frame that is not in the queue enters it, and the oldest leaves it.
LEMMA AppendFrames ==
  ASSUME NEW s \in Seq(Frames), NEW f \in Frames, f \notin RangeOf(s), Distinct(s)
  PROVE  /\ Append(s, f) \in Seq(Frames)
         /\ RangeOf(Append(s, f)) = RangeOf(s) \cup {f}
         /\ Distinct(Append(s, f))
  BY DEF RangeOf, Distinct

LEMMA TailFrames ==
  ASSUME NEW s \in Seq(Frames), s # <<>>, Distinct(s)
  PROVE  /\ Tail(s) \in Seq(Frames) /\ Head(s) \in Frames
         /\ RangeOf(Tail(s)) = RangeOf(s) \ {Head(s)}
         /\ Head(s) \in RangeOf(s)
         /\ Distinct(Tail(s))
  <1>1. Tail(s) \in Seq(Frames) /\ Head(s) \in Frames /\ Len(s) \in Nat \ {0}
        /\ Head(s) = s[1] /\ 1 \in DOMAIN s
    OBVIOUS
  <1>2. \A i \in DOMAIN Tail(s) : i + 1 \in DOMAIN s /\ Tail(s)[i] = s[i + 1]
    OBVIOUS
  <1>3. \A i \in DOMAIN s : i # 1 => i - 1 \in DOMAIN Tail(s) /\ Tail(s)[i - 1] = s[i]
    OBVIOUS
  <1>4. Distinct(Tail(s))
    BY <1>2 DEF Distinct
  <1>5. RangeOf(Tail(s)) \subseteq RangeOf(s) \ {Head(s)}
    BY <1>1, <1>2 DEF RangeOf, Distinct
  <1>6. RangeOf(s) \ {Head(s)} \subseteq RangeOf(Tail(s))
    <2> SUFFICES ASSUME NEW i \in DOMAIN s, s[i] # Head(s)
                 PROVE  s[i] \in RangeOf(Tail(s))
      BY DEF RangeOf
    <2>1. i # 1
      BY <1>1
    <2> QED
      BY <2>1, <1>3 DEF RangeOf
  <1> QED
    BY <1>1, <1>4, <1>5, <1>6 DEF RangeOf

LEMMA WorkerStep == ASSUME IInv, Worker PROVE IInv'
  <1> USE DEF IInv, TypeOK
  <1>0. BuffIndex \in Frames /\ NumFrames \in Nat \ {0}
    BY BuffIndexType, SizesAssumption
  <1>1. CASE WorkerLoop
    <2>1. WorkerType' /\ ProtocolInv'
      BY <1>1 DEF WorkerLoop, WorkerType, ProtocolInv, poolVars, appVars, ctlVars,
                  WorkerUnchanged, BuffIndex
    <2>2. TransportType' /\ ConsumerType' /\ ControlType' /\ FlagsType'
      BY <1>1 DEF WorkerLoop, WorkerUnchanged, TransportType, ConsumerType, ControlType,
                  FlagsType, poolVars, appVars, ctlVars
    <2> QED
      BY <1>1, <2>1, <2>2, PoolUntouched DEF WorkerLoop, WorkerUnchanged, poolVars
  <1>2. CASE WorkerClaim
    <2>1. frame[BuffIndex] \notin Packets
      BY <1>2, SentinelsAssumption DEF WorkerClaim, BuffIsFree
    <2>2. WorkerType' /\ ProtocolInv'
      BY <1>0, <1>2 DEF WorkerClaim, WorkerType, ProtocolInv, appVars, ctlVars, TransportType,
                  WorkerUnchanged, BuffIndex
    <2>3. TransportType'
      BY <1>2 DEF WorkerClaim, WorkerUnchanged, TransportType
    <2>4. ConsumerType' /\ ControlType' /\ FlagsType'
      BY <1>2 DEF WorkerClaim, WorkerUnchanged, ConsumerType, ControlType,
                  FlagsType, appVars, ctlVars
    <2> QED
      BY <1>2, <2>1, <2>2, <2>3, <2>4, UnheldUpdate, NextFrameUpdate DEF WorkerClaim, WorkerUnchanged
  <1>3. CASE WorkerClaimTimeout
    <2>1. WorkerType' /\ ProtocolInv'
      BY <1>3 DEF WorkerClaimTimeout, WorkerType, ProtocolInv, poolVars, appVars, ctlVars,
                  WorkerUnchanged, BuffIndex
    <2>2. TransportType' /\ ConsumerType' /\ ControlType' /\ FlagsType'
      BY <1>3 DEF WorkerClaimTimeout, WorkerUnchanged, TransportType, ConsumerType,
                  ControlType, FlagsType, poolVars, appVars, ctlVars
    <2> QED
      BY <1>3, <2>1, <2>2, PoolUntouched DEF WorkerClaimTimeout, WorkerUnchanged, poolVars
  <1>4. CASE WorkerRecv
    <2> DEFINE p == Head(sock)
    <2>1. p \in Packets /\ Tail(sock) \in Seq(Packets)
      BY <1>4 DEF WorkerRecv, TransportType
    <2>2. Stamp(p) \in Nat /\ Spp \in Nat
      BY <2>1, StampNat, SizesAssumption
    <2>3. wbuf = NoFrame /\ frame[BuffIndex] = Claimed /\ BuffIndex # NoFrame
      BY <1>0, <1>4 DEF WorkerRecv, ProtocolInv, Frames, NoFrame
    <2>4. \A f \in FifoFrames : f # BuffIndex /\ f \in Frames
      BY <2>3, SentinelsAssumption DEF FrameOwnership, WorkerType, FifoFrames
    <2>5. pending.buf # BuffIndex
      BY <2>3, SentinelsAssumption DEF FrameOwnership, ProtocolInv
    <2>6. sock' = Tail(sock) /\ nextBuff' = BuffIndex /\ UNCHANGED <<device, late>>
      BY <1>4 DEF WorkerRecv, WorkerUnchanged
    <2>7. UNCHANGED <<stopFlag, fifo, hist, pending, cpc, call, out, kpc, op, resume, drained>>
      BY <1>4 DEF WorkerRecv, WorkerUnchanged, appVars, ctlVars
    <2>8. ConsumerType' /\ ControlType' /\ FlagsType'
      BY <2>7 DEF ConsumerType, ControlType, FlagsType
    <2>9. UNCHANGED <<FifoFrames, PendingFrames>>
      BY <2>7 DEF FifoFrames, PendingFrames
    <2>10. CASE p.ok
      <3>1. /\ frame' = [frame EXCEPT ![BuffIndex] = p]
            /\ wbuf' = BuffIndex /\ wpc' = "push" /\ NoteContinuity(p)
        BY <1>4, <2>10 DEF WorkerRecv
      <3>2. TransportType'
        BY <1>0, <2>1, <2>6, <3>1 DEF TransportType, Frames
      <3>3. cont' \in [have : BOOLEAN, exp : Nat, errors : Nat]
        BY <2>2, <3>1 DEF NoteContinuity, WorkerType
      <3>4. WorkerType'
        BY <1>0, <2>7, <3>1, <3>3 DEF WorkerType
      <3>5. ProtocolInv'
        BY <1>4, <2>3, <2>7, <3>1 DEF ProtocolInv, WorkerRecv
      <3>6. WorkerFrames' = {BuffIndex}
        BY <2>3, <3>1 DEF WorkerFrames
      <3>7. \A f \in Frames : frame'[f] = IF f = BuffIndex THEN p ELSE frame[f]
        BY <3>1 DEF TransportType
      <3>8. FrameOwnership'
        BY <1>0, <2>1, <2>4, <2>5, <2>7, <2>9, <3>6, <3>7
        DEF FrameOwnership, PendingFrames, ConsumerType
      <3>9. FramesAccounted'
        BY <2>3, <2>9, <3>6, <3>7 DEF FramesAccounted, WorkerFrames
      <3> QED
        BY <2>8, <3>2, <3>4, <3>5, <3>8, <3>9
    <2>11. CASE ~p.ok
      <3>1. frame' = [frame EXCEPT ![BuffIndex] = Free] /\ wpc' = "top" /\ UNCHANGED <<wbuf, cont>>
        BY <1>4, <2>11 DEF WorkerRecv
      <3>2. TransportType'
        BY <1>0, <2>1, <2>6, <3>1 DEF TransportType, Frames
      <3>3. WorkerType' /\ ProtocolInv'
        BY <1>4, <2>3, <2>7, <3>1 DEF WorkerType, ProtocolInv, WorkerRecv
      <3>4. frame[BuffIndex] \notin Packets
        BY <2>3, SentinelsAssumption
      <3>5. FrameOwnership'
        BY <2>7, <3>1, <3>4, UnheldUpdate
      <3>6. \A f \in Frames : frame'[f] = IF f = BuffIndex THEN Free ELSE frame[f]
        BY <3>1 DEF TransportType
      <3>7. FramesAccounted'
        BY <2>9, <3>1, <3>6 DEF FramesAccounted, WorkerFrames
      <3> QED
        BY <2>8, <3>2, <3>3, <3>5, <3>7
    <2> QED
      BY <2>10, <2>11
  <1>5. CASE WorkerRecvTimeout
    <2>1. frame[BuffIndex] \notin Packets
      BY <1>5, SentinelsAssumption DEF WorkerRecvTimeout, ProtocolInv
    <2>2. WorkerType' /\ ProtocolInv'
      BY <1>5 DEF WorkerRecvTimeout, WorkerType, ProtocolInv, appVars, ctlVars,
                  WorkerUnchanged
    <2>3. TransportType'
      BY <1>5 DEF WorkerRecvTimeout, WorkerUnchanged, TransportType
    <2>4. ConsumerType' /\ ControlType' /\ FlagsType'
      BY <1>5 DEF WorkerRecvTimeout, WorkerUnchanged, ConsumerType, ControlType,
                  FlagsType, appVars, ctlVars
    <2> QED
      BY <1>5, <2>1, <2>2, <2>3, <2>4, UnheldUpdate, NextFrameUpdate
      DEF WorkerRecvTimeout, WorkerUnchanged
  <1>6. CASE WorkerRecvError
    <2>1. ControlType'
      BY <1>6 DEF WorkerRecvError, WorkerUnchanged, ControlType, ctlVars
    <2>2. WorkerType' /\ ProtocolInv'
      BY <1>6 DEF WorkerRecvError, WorkerType, ProtocolInv, poolVars, appVars, ctlVars,
                  WorkerUnchanged, BuffIndex
    <2>3. TransportType' /\ ConsumerType' /\ FlagsType'
      BY <1>6 DEF WorkerRecvError, WorkerUnchanged, TransportType, ConsumerType,
                  FlagsType, poolVars, appVars, ctlVars
    <2> QED
      BY <1>6, <2>1, <2>2, <2>3, PoolUntouched DEF WorkerRecvError, WorkerUnchanged, poolVars
  <1>7. CASE WorkerPush
    <2>1. wbuf \in Frames /\ wbuf # NoFrame /\ frame[wbuf] \in Packets
      BY <1>7 DEF WorkerPush, ProtocolInv, FrameOwnership, WorkerType, WorkerFrames
    <2>2. fifo \in Seq(Frames) /\ wbuf \notin RangeOf(fifo) /\ Distinct(fifo)
      BY <2>1 DEF FrameOwnership, WorkerType, FifoFrames, WorkerFrames, RangeOf, Distinct
    <2>3. UNCHANGED <<device, sock, late, nextBuff, stopFlag, cont, hist, pending, cpc, call,
                      out, kpc, op, resume, drained>>
      BY <1>7 DEF WorkerPush, WorkerUnchanged, appVars, ctlVars
    <2>4. wbuf' = NoFrame /\ wpc' = "top"
      BY <1>7 DEF WorkerPush
    <2>5. ConsumerType' /\ ControlType' /\ FlagsType'
      BY <2>3 DEF ConsumerType, ControlType, FlagsType
    <2>6. ProtocolInv'
      BY <1>7, <2>3, <2>4 DEF ProtocolInv, WorkerPush
    <2>7. UNCHANGED PendingFrames /\ WorkerFrames' = {} /\ UNCHANGED BuffIndex
      BY <2>3, <2>4 DEF PendingFrames, WorkerFrames, BuffIndex
    <2>8. pending.buf # wbuf
      BY <2>1 DEF FrameOwnership, PendingFrames, WorkerFrames
    <2>9. CASE Len(fifo) = FifoCap
      <3>1. fifo' = Append(Tail(fifo), wbuf) /\ frame' = Release({Head(fifo)})
        BY <1>7, <2>9 DEF WorkerPush, Push
      <3>2. fifo # <<>>
        BY <2>9, SizesAssumption
      <3>3. /\ Tail(fifo) \in Seq(Frames) /\ Head(fifo) \in RangeOf(fifo)
            /\ RangeOf(Tail(fifo)) = RangeOf(fifo) \ {Head(fifo)} /\ Distinct(Tail(fifo))
        BY <2>2, <3>2, TailFrames
      <3>4. /\ fifo' \in Seq(Frames) /\ Distinct(fifo')
            /\ RangeOf(fifo') = (RangeOf(fifo) \ {Head(fifo)}) \cup {wbuf}
        BY <2>1, <2>2, <3>1, <3>3, AppendFrames
      <3>5. TransportType' /\ WorkerType'
        BY <2>3, <2>4, <3>1, <3>4, ReleaseType DEF TransportType, WorkerType
      <3>6. \A f \in Frames : frame'[f] = IF f = Head(fifo) THEN Free ELSE frame[f]
        BY <3>1 DEF Release
      <3>7. FifoFrames = RangeOf(fifo) /\ FifoFrames' = RangeOf(fifo')
        BY DEF FifoFrames, RangeOf
      <3>8. pending.buf # NoFrame => pending.buf # Head(fifo) /\ pending.buf \in Frames
        BY <3>3, <3>7 DEF FrameOwnership, PendingFrames, ConsumerType
      <3>9. FifoFrames \subseteq Frames
        BY DEF WorkerType, FifoFrames
      <3>10. FrameOwnership'
        <4>1. \A i, j \in DOMAIN fifo' : fifo'[i] = fifo'[j] => i = j
          BY <3>4 DEF Distinct
        <4>2. FifoFrames' \cap PendingFrames' = {}
          BY <2>7, <2>8, <3>4, <3>7 DEF FrameOwnership, PendingFrames
        <4>3. \A f \in FifoFrames' : frame'[f] \in Packets
          BY <2>1, <2>2, <3>3, <3>4, <3>6, <3>7, <3>9 DEF FrameOwnership
        <4>4. pending'.buf # NoFrame => frame'[pending'.buf] = pending'.pkt
          BY <2>3, <3>6, <3>8 DEF FrameOwnership
        <4> QED
          BY <2>7, <4>1, <4>2, <4>3, <4>4 DEF FrameOwnership
      <3>11. FramesAccounted'
        BY <2>1, <2>7, <3>4, <3>6, <3>7 DEF FramesAccounted, WorkerFrames
      <3> QED
        BY <2>5, <2>6, <3>5, <3>10, <3>11
    <2>10. CASE Len(fifo) # FifoCap
      <3>1. fifo' = Append(fifo, wbuf) /\ frame' = frame
        BY <1>7, <2>10 DEF WorkerPush, Push
      <3>2. /\ fifo' \in Seq(Frames) /\ Distinct(fifo')
            /\ RangeOf(fifo') = RangeOf(fifo) \cup {wbuf}
        BY <2>1, <2>2, <3>1, AppendFrames
      <3>3. TransportType' /\ WorkerType'
        BY <2>3, <2>4, <3>1, <3>2 DEF TransportType, WorkerType
      <3>4. FifoFrames = RangeOf(fifo) /\ FifoFrames' = RangeOf(fifo')
        BY DEF FifoFrames, RangeOf
      <3>5. FrameOwnership'
        BY <2>1, <2>3, <2>7, <2>8, <3>1, <3>2, <3>4
        DEF FrameOwnership, Distinct, PendingFrames
      <3>6. FramesAccounted'
        BY <2>1, <2>7, <3>1, <3>2, <3>4 DEF FramesAccounted, WorkerFrames
      <3> QED
        BY <2>5, <2>6, <3>3, <3>5, <3>6
    <2> QED
      BY <2>9, <2>10
  <1> QED
    BY <1>1, <1>2, <1>3, <1>4, <1>5, <1>6, <1>7 DEF Worker

LEMMA RecvCallStep ==
  ASSUME IInv, ~ConcurrentControl,
         NEW mode \in Modes, NEW fmt \in Formats, NEW want \in Requests,
         RecvCall(mode, fmt, want)
  PROVE  IInv'
  <1> USE DEF IInv, TypeOK
  <1>1. /\ kpc = "idle" /\ cpc' = "loop" /\ out' = NoOut
        /\ call' = [mode |-> mode, fmt |-> fmt, left |-> want, first |-> TRUE]
        /\ hist' = [hist EXCEPT !.base = hist.heard]
        /\ UNCHANGED <<sockVars, nextBuff, wbuf, cont, ctlVars, frame, wpc, stopFlag, fifo, pending>>
    BY DEF RecvCall, RecvUnchanged
  <1>2. mode \in {"fifo", "plain"} /\ fmt \in {"known", "other"} /\ want \in Nat
    BY ChoicesAssumption, SizesAssumption
  <1>3. call' \in [mode : {"fifo", "plain"}, fmt : {"known", "other"}, left : Nat,
                   first : BOOLEAN]
    BY <1>1, <1>2
  <1>4. out' \in [got : Seq(Samples), ts : Nat, disc : BOOLEAN, back : BOOLEAN]
    BY <1>1 DEF NoOut
  <1>5. ConsumerType'
    BY <1>1, <1>3, <1>4 DEF ConsumerType
  <1>6. ControlType'
    BY <1>1 DEF ControlType, ctlVars
  <1>7. TransportType' /\ WorkerType'
    BY <1>1 DEF TransportType, WorkerType, sockVars
  <1>8. FlagsType'
    BY <1>1 DEF FlagsType, ctlVars
  <1>9. ProtocolInv'
    BY <1>1 DEF ProtocolInv, ctlVars, BuffIndex
  <1> QED
    BY <1>1, <1>5, <1>6, <1>7, <1>8, <1>9, PoolUntouched

LEMMA ConsumerStep == ASSUME IInv, RecvStep PROVE IInv'
  <1> USE DEF IInv, TypeOK
  <1>0. kpc = "idle" /\ UNCHANGED <<device, sock, late, nextBuff, wbuf, cont, kpc, op, resume, drained>>
    BY DEF RecvStep, RecvStart, RecvPop, RecvTimeout, RecvCopy, RecvUnknownFormat,
           RecvUnchanged, ProtocolInv, sockVars, ctlVars
  <1>1. CASE RecvStart
    <2>1. UNCHANGED <<frame, fifo, pending, call, out, hist>> /\ cpc' = "wait" /\ pending.buf = NoFrame
      BY <1>1 DEF RecvStart
    <2>2. wpc' = (IF wpc = "none" THEN "top" ELSE wpc)
      BY <1>1 DEF RecvStart, Spawn
    <2>3. stopFlag' \in BOOLEAN
      BY <1>1 DEF RecvStart, Spawn, FlagsType
    <2>4. TransportType' /\ WorkerType' /\ ConsumerType' /\ ControlType'
      BY <1>0, <2>1, <2>2 DEF TransportType, WorkerType, ConsumerType, ControlType
    <2>5. FlagsType'
      BY <1>0, <2>3 DEF FlagsType
    <2>6. ProtocolInv'
      BY <1>0, <2>1, <2>2 DEF ProtocolInv, BuffIndex
    <2> QED
      BY <1>0, <2>1, <2>4, <2>5, <2>6, PoolUntouched
  <1>2. CASE RecvPop
    <2> DEFINE p == frame[Head(fifo)]
               stopAt == Gap(p) /\ call.mode = "fifo"
    <2>1. fifo # <<>> /\ pending.buf = NoFrame /\ fifo \in Seq(Frames) /\ Distinct(fifo)
      BY <1>2 DEF RecvPop, ProtocolInv, FrameOwnership, Distinct, WorkerType
    <2>2. /\ Tail(fifo) \in Seq(Frames) /\ Head(fifo) \in Frames /\ Head(fifo) \in RangeOf(fifo)
          /\ RangeOf(Tail(fifo)) = RangeOf(fifo) \ {Head(fifo)} /\ Distinct(Tail(fifo))
      BY <2>1, TailFrames
    <2>3. FifoFrames = RangeOf(fifo) /\ FifoFrames' = RangeOf(fifo')
      BY DEF FifoFrames, RangeOf
    <2>4. p \in Packets /\ Head(fifo) # NoFrame
      BY <2>2, <2>3 DEF FrameOwnership, Frames, NoFrame
    <2>5. /\ pending' = [pending EXCEPT !.buf = Head(fifo), !.pkt = p, !.off = 0,
                              !.disc = @ \/ stopAt,
                              !.back = IF stopAt THEN Stamp(p) < pending.exp ELSE @]
          /\ cpc' = (IF stopAt /\ out.got # <<>> THEN "idle" ELSE "loop")
          /\ hist' = [hist EXCEPT !.gaps = @ + (IF Gap(p) THEN 1 ELSE 0)]
          /\ fifo' = Tail(fifo)
          /\ UNCHANGED <<frame, wpc, stopFlag, call, out>>
      BY <1>2 DEF RecvPop
    <2>6. stopAt \in BOOLEAN /\ (Stamp(p) < pending.exp) \in BOOLEAN
      OBVIOUS
    <2>7. pending' \in [buf : Frames \cup {NoFrame}, pkt : Packets \cup {NoPacket},
                        off : 0..(Spp - 1), disc : BOOLEAN, back : BOOLEAN,
                        exp : Nat \cup {NoPos}]
      <3> HIDE DEF p, stopAt
      <3>1. 0 \in 0..(Spp - 1)
        BY SizesAssumption
      <3> QED
        BY <2>2, <2>4, <2>5, <2>6, <3>1 DEF ConsumerType
    <2>8. hist' \in [base : Nat \cup {NoPos}, heard : Nat \cup {NoPos}, gaps : Nat,
                     minRun : Nat, ops : Nat, errors : Nat]
      BY <2>5 DEF ControlType
    <2>9. ConsumerType'
      BY <2>5, <2>7 DEF ConsumerType
    <2>10. ControlType'
      BY <1>0, <2>8 DEF ControlType
    <2>11. TransportType' /\ WorkerType'
      BY <1>0, <2>2, <2>5 DEF TransportType, WorkerType
    <2>12. FlagsType'
      BY <1>0, <2>5 DEF FlagsType
    <2>13. pending'.buf = Head(fifo) /\ pending'.pkt = p
      BY <2>5 DEF ConsumerType
    <2>14. ProtocolInv'
      <3> HIDE DEF p, stopAt
      <3> QED
        BY <1>0, <2>4, <2>5, <2>13 DEF ProtocolInv, BuffIndex
    <2>15. PendingFrames = {} /\ PendingFrames' = {Head(fifo)}
           /\ UNCHANGED <<WorkerFrames, BuffIndex>>
      BY <1>0, <2>1, <2>4, <2>13 DEF PendingFrames, WorkerFrames, BuffIndex
    <2>16. FrameOwnership'
      BY <1>0, <2>2, <2>3, <2>5, <2>13, <2>15 DEF FrameOwnership, Distinct
    <2>17. FramesAccounted'
      BY <2>2, <2>3, <2>5, <2>15 DEF FramesAccounted
    <2> QED
      BY <2>9, <2>10, <2>11, <2>12, <2>14, <2>16, <2>17
  <1>3. CASE RecvTimeout
    <2>1. UNCHANGED <<frame, wpc, stopFlag, fifo, pending, call, out, hist>> /\ cpc' = "idle"
      BY <1>3 DEF RecvTimeout
    <2>2. TransportType' /\ WorkerType' /\ ConsumerType' /\ ControlType'
      BY <1>0, <2>1 DEF TransportType, WorkerType, ConsumerType, ControlType
    <2>3. FlagsType'
      BY <1>0, <2>1 DEF FlagsType
    <2>4. ProtocolInv'
      BY <1>0, <2>1 DEF ProtocolInv, BuffIndex
    <2> QED
      BY <1>0, <2>1, <2>2, <2>3, <2>4, PoolUntouched
  <1>4. CASE RecvUnknownFormat
    <2>1. /\ pending.buf # NoFrame /\ out' = Opened /\ cpc' = "idle"
          /\ call' = [call EXCEPT !.first = FALSE]
          /\ pending' = [pending EXCEPT !.disc = FALSE, !.back = FALSE]
          /\ UNCHANGED <<frame, wpc, stopFlag, fifo, hist>>
      BY <1>4 DEF RecvUnknownFormat
    <2>2. out' \in [got : Seq(Samples), ts : Nat, disc : BOOLEAN, back : BOOLEAN]
      BY <2>1, OpenedType DEF ProtocolInv
    <2>3. pending' \in [buf : Frames \cup {NoFrame}, pkt : Packets \cup {NoPacket},
                        off : 0..(Spp - 1), disc : BOOLEAN, back : BOOLEAN,
                        exp : Nat \cup {NoPos}]
      BY <2>1 DEF ConsumerType
    <2>4. call' \in [mode : {"fifo", "plain"}, fmt : {"known", "other"}, left : Nat,
                     first : BOOLEAN]
      BY <2>1 DEF ConsumerType
    <2>5. ConsumerType'
      BY <2>1, <2>2, <2>3, <2>4 DEF ConsumerType
    <2>6. TransportType' /\ WorkerType' /\ ControlType'
      BY <1>0, <2>1 DEF TransportType, WorkerType, ControlType
    <2>7. FlagsType'
      BY <1>0, <2>1 DEF FlagsType
    <2>8. pending'.buf = pending.buf /\ pending'.pkt = pending.pkt
      BY <2>1 DEF ConsumerType
    <2>9. ProtocolInv'
      BY <1>0, <2>1, <2>8 DEF ProtocolInv, BuffIndex
    <2>10. FrameOwnership' /\ FramesAccounted'
      BY <1>0, <2>1, <2>8 DEF FrameOwnership, FramesAccounted, FifoFrames, WorkerFrames,
                              PendingFrames, BuffIndex
    <2> QED
      BY <2>5, <2>6, <2>7, <2>9, <2>10
  <1>5. CASE RecvCopy
    <2> DEFINE end == pending.off + NumToCopy
               new == [k \in 1..NumToCopy |-> SampleOf(frame[pending.buf], pending.off + k - 1)]
               after == Stamp(pending.pkt) + end
    <2>1. /\ pending.buf # NoFrame
          /\ out' = [Opened EXCEPT !.got = @ \o new]
          /\ call' = [call EXCEPT !.left = @ - NumToCopy, !.first = FALSE]
          /\ cpc' = (IF call.left = NumToCopy THEN "idle" ELSE "loop")
          /\ hist' = [hist EXCEPT !.heard = after]
          /\ UNCHANGED <<wpc, stopFlag, fifo>>
      BY <1>5 DEF RecvCopy
    <2>2. \/ pending' = [NoPending EXCEPT !.exp = after] /\ frame' = Release({pending.buf})
          \/ /\ end # Spp /\ frame' = frame
             /\ pending' = [pending EXCEPT !.disc = FALSE, !.back = FALSE, !.exp = after,
                                           !.off = end]
      BY <1>5 DEF RecvCopy
    <2>3. /\ NumToCopy \in Nat /\ call.left - NumToCopy \in Nat /\ end \in 0..Spp
          /\ pending.off \in Nat /\ pending.buf \in Frames
      BY <2>1, CopyBounds DEF ConsumerType
    <2>4. frame[pending.buf] = pending.pkt /\ pending.pkt \in Packets
      BY <2>1 DEF ProtocolInv, FrameOwnership
    <2>5. after \in Nat
      BY <2>3, <2>4, StampNat
    <2>6. new \in Seq(Samples)
      <3>1. \A k \in 1..NumToCopy : pending.off + k - 1 \in Nat
        BY <2>3
      <3>2. \A k \in 1..NumToCopy : SampleOf(frame[pending.buf], pending.off + k - 1) \in Samples
        BY <2>4, <3>1, SampleType
      <3> QED
        BY <2>3, <3>2
    <2> HIDE DEF end, new, after
    <2>7. out' \in [got : Seq(Samples), ts : Nat, disc : BOOLEAN, back : BOOLEAN]
      <3>1. Opened \in [got : Seq(Samples), ts : Nat, disc : BOOLEAN, back : BOOLEAN]
        BY <2>4, OpenedType
      <3>2. Opened.got \o new \in Seq(Samples)
        BY <2>6, <3>1
      <3> QED
        BY <2>1, <3>1, <3>2
    <2>8. call' \in [mode : {"fifo", "plain"}, fmt : {"known", "other"}, left : Nat,
                     first : BOOLEAN]
      BY <2>1, <2>3 DEF ConsumerType
    <2>9. cpc' \in {"idle", "loop"}
      BY <2>1
    <2>10. ControlType'
      <3>1. hist' \in [base : Nat \cup {NoPos}, heard : Nat \cup {NoPos}, gaps : Nat,
                       minRun : Nat, ops : Nat, errors : Nat]
        BY <2>1, <2>5 DEF ControlType
      <3> QED
        BY <1>0, <3>1 DEF ControlType
    <2>11. WorkerType'
      BY <1>0, <2>1 DEF WorkerType
    <2>12. FlagsType'
      BY <1>0, <2>1 DEF FlagsType
    <2>13. CASE pending' = [NoPending EXCEPT !.exp = after] /\ frame' = Release({pending.buf})
      <3>1. pending' \in [buf : Frames \cup {NoFrame}, pkt : Packets \cup {NoPacket},
                          off : 0..(Spp - 1), disc : BOOLEAN, back : BOOLEAN,
                          exp : Nat \cup {NoPos}]
        <4>1. pending' = [buf |-> NoFrame, pkt |-> NoPacket, off |-> 0, disc |-> FALSE,
                          back |-> FALSE, exp |-> after]
          BY <2>13 DEF NoPending
        <4>2. 0 \in 0..(Spp - 1)
          BY SizesAssumption
        <4> QED
          BY <2>5, <4>1, <4>2
      <3>2. ConsumerType'
        BY <2>7, <2>8, <2>9, <3>1 DEF ConsumerType
      <3>3. TransportType'
        BY <1>0, <2>13, ReleaseType DEF TransportType
      <3>4. pending'.buf = NoFrame /\ PendingFrames' = {}
        BY <2>13 DEF NoPending, PendingFrames
      <3>5. \A f \in Frames : frame'[f] = IF f = pending.buf THEN Free ELSE frame[f]
        BY <2>13 DEF Release
      <3>6. UNCHANGED <<FifoFrames, WorkerFrames, BuffIndex>> /\ FifoFrames \cup WorkerFrames \subseteq Frames
        BY <1>0, <2>1 DEF FifoFrames, WorkerFrames, BuffIndex, WorkerType
      <3>7. pending.buf \notin FifoFrames \cup WorkerFrames /\ PendingFrames = {pending.buf}
        BY <2>1 DEF FrameOwnership, PendingFrames
      <3>8. frame[pending.buf] # Claimed
        BY <2>4, SentinelsAssumption
      <3>9. ProtocolInv'
        BY <1>0, <2>1, <2>3, <2>9, <3>4, <3>5, <3>6, <3>8, BuffIndexType DEF ProtocolInv
      <3>10. FrameOwnership'
        BY <2>1, <3>4, <3>5, <3>6, <3>7 DEF FrameOwnership
      <3>11. FramesAccounted'
        BY <3>4, <3>5, <3>6, <3>7 DEF FramesAccounted
      <3> QED
        BY <2>10, <2>11, <2>12, <3>2, <3>3, <3>9, <3>10, <3>11
    <2>14. CASE /\ end # Spp /\ frame' = frame
                /\ pending' = [pending EXCEPT !.disc = FALSE, !.back = FALSE, !.exp = after,
                                              !.off = end]
      <3>1. end \in 0..(Spp - 1)
        BY <2>3, <2>14, SizesAssumption
      <3>2. pending' \in [buf : Frames \cup {NoFrame}, pkt : Packets \cup {NoPacket},
                          off : 0..(Spp - 1), disc : BOOLEAN, back : BOOLEAN,
                          exp : Nat \cup {NoPos}]
        BY <2>5, <2>14, <3>1 DEF ConsumerType
      <3>3. ConsumerType'
        BY <2>7, <2>8, <2>9, <3>2 DEF ConsumerType
      <3>4. TransportType'
        BY <1>0, <2>14 DEF TransportType
      <3>5. pending'.buf = pending.buf /\ pending'.pkt = pending.pkt
        BY <2>14 DEF ConsumerType
      <3>6. ProtocolInv'
        BY <1>0, <2>1, <2>9, <2>14, <3>5 DEF ProtocolInv, BuffIndex
      <3>7. FrameOwnership' /\ FramesAccounted'
        BY <1>0, <2>1, <2>14, <3>5 DEF FrameOwnership, FramesAccounted, FifoFrames,
                                       WorkerFrames, PendingFrames, BuffIndex
      <3> QED
        BY <2>10, <2>11, <2>12, <3>3, <3>4, <3>6, <3>7
    <2> QED
      BY <2>2, <2>13, <2>14
  <1> QED
    BY <1>1, <1>2, <1>3, <1>4, <1>5 DEF RecvStep

LEMMA ControlCallStep ==
  ASSUME IInv, ~ConcurrentControl, NEW o \in Ops, KCall(o)
  PROVE  IInv'
  <1> USE DEF IInv, TypeOK
  <1>1. /\ kpc = "idle" /\ cpc = "idle" /\ op' = o
        /\ hist' = [hist EXCEPT !.ops = @ + 1]
        /\ UNCHANGED <<late, appVars, wbuf, device, sock, poolVars, wpc, fifo, pending, cont, drained>>
    BY DEF KCall, CtlUnchanged
  <1>2. o \in {"start", "stop", "retune"}
    BY ChoicesAssumption
  <1>3. kpc' \in {"reset", "join", "flush", "pokestop"}
        /\ (kpc' \in {"reset", "flush"} => wpc = "none")
    BY <1>2 DEF KCall, EnterStop
  <1>4. stopFlag' \in BOOLEAN
    BY <1>2 DEF KCall, EnterStop, FlagsType
  <1>5. resume' \in BOOLEAN
    BY <1>2 DEF KCall, FlagsType
  <1>6. hist' \in [base : Nat \cup {NoPos}, heard : Nat \cup {NoPos}, gaps : Nat,
                   minRun : Nat, ops : Nat, errors : Nat]
    BY <1>1 DEF ControlType
  <1>7. ControlType'
    BY <1>1, <1>2, <1>3, <1>6 DEF ControlType
  <1>8. TransportType' /\ WorkerType' /\ ConsumerType'
    BY <1>1 DEF TransportType, WorkerType, ConsumerType, poolVars, appVars
  <1>9. FlagsType'
    BY <1>4, <1>5 DEF FlagsType
  <1>10. ProtocolInv'
    BY <1>1, <1>2, <1>3 DEF ProtocolInv, appVars, poolVars, BuffIndex
  <1> QED
    BY <1>1, <1>7, <1>8, <1>9, <1>10, PoolUntouched DEF poolVars

\* A step that empties the FIFO, the pending packet or both, and gives their
\* frames back.
LEMMA FlushStep ==
  ASSUME IInv, NEW fs, frame' = Release(fs), UNCHANGED <<nextBuff, wbuf>>,
         \/ fifo' = <<>> /\ FifoFrames \subseteq fs
         \/ fifo' = fifo /\ fs \cap FifoFrames = {},
         \/ pending'.buf = NoFrame /\ PendingFrames \subseteq fs
         \/ pending' = pending /\ fs \cap PendingFrames = {},
         fs \cap WorkerFrames = {}
  PROVE  FrameOwnership' /\ FramesAccounted'
  <1> USE DEF IInv, TypeOK
  <1>1. \A f \in Frames : frame'[f] = IF f \in fs THEN Free ELSE frame[f]
    BY DEF Release
  <1>2. /\ FifoFrames \subseteq Frames /\ WorkerFrames \subseteq Frames
        /\ PendingFrames \subseteq Frames
    BY DEF FifoFrames, WorkerFrames, PendingFrames, WorkerType, ConsumerType
  <1>3. UNCHANGED <<WorkerFrames, BuffIndex>>
    BY DEF WorkerFrames, BuffIndex
  <1>4. FifoFrames' = {} \/ (fifo' = fifo /\ FifoFrames' = FifoFrames /\ fs \cap FifoFrames = {})
    BY DEF FifoFrames
  <1>5. \/ PendingFrames' = {} /\ pending'.buf = NoFrame
        \/ pending' = pending /\ PendingFrames' = PendingFrames /\ fs \cap PendingFrames = {}
    BY DEF PendingFrames
  <1>6. \A i, j \in DOMAIN fifo' : fifo'[i] = fifo'[j] => i = j
    BY DEF FrameOwnership
  <1>7. \A f \in FifoFrames' \cup WorkerFrames' : frame'[f] \in Packets
    BY <1>1, <1>2, <1>3, <1>4 DEF FrameOwnership
  <1>8. pending'.buf # NoFrame => frame'[pending'.buf] = pending'.pkt
    <2> SUFFICES ASSUME pending'.buf # NoFrame PROVE frame'[pending'.buf] = pending'.pkt
      OBVIOUS
    <2>1. pending' = pending /\ pending.buf \in PendingFrames /\ pending.buf \notin fs
      BY <1>5 DEF PendingFrames
    <2> QED
      BY <1>1, <1>2, <2>1 DEF FrameOwnership
  <1>9. FrameOwnership'
    BY <1>3, <1>4, <1>5, <1>6, <1>7, <1>8 DEF FrameOwnership
  <1>10. FramesAccounted'
    <2>1. FifoFrames \subseteq fs \/ FifoFrames' = FifoFrames
      BY DEF FifoFrames
    <2>2. PendingFrames \subseteq fs \/ PendingFrames' = PendingFrames
      BY DEF PendingFrames
    <2> QED
      BY <1>1, <1>3, <2>1, <2>2 DEF FramesAccounted
  <1> QED
    BY <1>9, <1>10

LEMMA StopPendingType ==
  ASSUME TypeOK, pending' = NoPending, UNCHANGED <<cpc, call, out>>
  PROVE  ConsumerType' /\ pending'.buf = NoFrame
  <1>1. pending' = [buf |-> NoFrame, pkt |-> NoPacket, off |-> 0, disc |-> FALSE,
                    back |-> FALSE, exp |-> NoPos]
    BY DEF NoPending
  <1>2. 0 \in 0..(Spp - 1)
    BY SizesAssumption
  <1> QED
    BY <1>1, <1>2 DEF ConsumerType, TypeOK

LEMMA ControlProgress == ASSUME IInv, ControlStep PROVE IInv'
  <1> USE DEF IInv, TypeOK
  <1>0. /\ kpc # "idle" /\ cpc = "idle"
        /\ UNCHANGED <<late, cpc, call, out, wbuf, op>>
    BY DEF ControlStep, KJoin, KFlush, KReset, KDrain, KDrainError, KDrainEnd, ResetContinuity, KPokeStop,
           KTune, KPokeStart, CtlUnchanged, ProtocolInv, appVars
  <1>1. CASE KJoin
    <2>1. /\ wpc = "done" /\ wpc' = "none" /\ kpc' = "flush"
          /\ UNCHANGED <<device, sock, frame, nextBuff, stopFlag, fifo, pending, cont, resume,
                         drained, hist>>
      BY <1>1 DEF KJoin, poolVars
    <2>2. TransportType' /\ WorkerType' /\ ConsumerType' /\ ControlType'
      BY <1>0, <2>1 DEF TransportType, WorkerType, ConsumerType, ControlType
    <2>3. FlagsType'
      BY <2>1 DEF FlagsType
    <2>4. ProtocolInv'
      BY <1>0, <2>1 DEF ProtocolInv
    <2> QED
      BY <1>0, <2>1, <2>2, <2>3, <2>4, PoolUntouched
  <1>2. CASE KFlush
    <2>1. /\ kpc = "flush" /\ wpc = "none" /\ fifo' = <<>> /\ pending' = NoPending
          /\ hist' = [hist EXCEPT !.heard = NoPos]
          /\ frame' = Release(FifoFrames \cup PendingFrames)
          /\ UNCHANGED <<device, sock, nextBuff, wpc, stopFlag, cont, resume, drained>>
      BY <1>2 DEF KFlush, DrainFifo, StopPending, ProtocolInv
    <2>2. kpc' \in {"reset", "idle", "tune"}
      BY <1>2, <2>1 DEF KFlush, ProtocolInv, ControlType
    <2>3. ConsumerType' /\ pending'.buf = NoFrame
      BY <1>0, <2>1, StopPendingType
    <2>4. TransportType'
      BY <1>0, <2>1, ReleaseType DEF TransportType
    <2>5. WorkerType'
      BY <1>0, <2>1 DEF WorkerType
    <2>6. hist' \in [base : Nat \cup {NoPos}, heard : Nat \cup {NoPos}, gaps : Nat,
                     minRun : Nat, ops : Nat, errors : Nat]
      BY <2>1 DEF ControlType
    <2>7. ControlType'
      BY <1>0, <2>1, <2>2, <2>6 DEF ControlType
    <2>8. FlagsType'
      BY <2>1 DEF FlagsType
    <2>9. ProtocolInv'
      BY <1>0, <2>1, <2>2, <2>3 DEF ProtocolInv
    <2>10. (FifoFrames \cup PendingFrames) \cap WorkerFrames = {}
      BY DEF FrameOwnership
    <2>11. FrameOwnership' /\ FramesAccounted'
      BY <1>0, <2>1, <2>3, <2>10, FlushStep
    <2> QED
      BY <2>3, <2>4, <2>5, <2>7, <2>8, <2>9, <2>11
  <1>3. CASE KReset
    <2>1. /\ kpc = "reset" /\ wpc = "none" /\ fifo' = <<>> /\ frame' = Release(FifoFrames)
          /\ kpc' = "drain" /\ drained' = 0
          /\ UNCHANGED <<device, sock, nextBuff, wpc, stopFlag, pending, cont, resume, hist>>
      BY <1>3 DEF KReset, DrainFifo, ProtocolInv
    <2>2. TransportType'
      BY <1>0, <2>1, ReleaseType DEF TransportType
    <2>3. WorkerType' /\ ConsumerType' /\ ControlType'
      BY <1>0, <2>1 DEF WorkerType, ConsumerType, ControlType
    <2>4. FlagsType'
      BY <2>1 DEF FlagsType
    <2>5. ProtocolInv'
      BY <1>0, <2>1 DEF ProtocolInv
    <2>6. FifoFrames \cap WorkerFrames = {} /\ FifoFrames \cap PendingFrames = {}
      BY DEF FrameOwnership
    <2>7. FrameOwnership' /\ FramesAccounted'
      BY <1>0, <2>1, <2>6, FlushStep
    <2> QED
      BY <2>2, <2>3, <2>4, <2>5, <2>7
  <1>4. CASE KDrain
    <2>1. /\ kpc = "drain" /\ wpc = "none" /\ sock # <<>> /\ frame[BuffIndex] = Free
          /\ sock' = Tail(sock) /\ nextBuff' = BuffIndex /\ drained' = drained + 1
          /\ UNCHANGED <<device, frame, wpc, stopFlag, fifo, pending, cont, kpc, resume, hist>>
      BY <1>4 DEF KDrain, CanDrain, BuffIsFree, ProtocolInv
    <2>2. BuffIndex \in 0..NumFrames
      BY BuffIndexType, SizesAssumption DEF Frames
    <2>3. TransportType'
      BY <1>0, <2>1, <2>2 DEF TransportType
    <2>4. WorkerType' /\ ConsumerType' /\ ControlType'
      BY <1>0, <2>1 DEF WorkerType, ConsumerType, ControlType
    <2>5. FlagsType'
      BY <2>1 DEF FlagsType
    <2>6. ProtocolInv'
      BY <1>0, <2>1 DEF ProtocolInv
    <2>7. UNCHANGED <<FifoFrames, WorkerFrames, PendingFrames>>
      BY <1>0, <2>1 DEF FifoFrames, WorkerFrames, PendingFrames
    <2>8. FrameOwnership' /\ FramesAccounted'
      BY <2>1, <2>7 DEF FrameOwnership, FramesAccounted
    <2> QED
      BY <2>3, <2>4, <2>5, <2>6, <2>8
  <1>5. CASE KDrainError
    <2>1. /\ kpc = "drain" /\ wpc = "none" /\ frame[BuffIndex] = Free
          /\ hist' = [hist EXCEPT !.errors = @ + 1]
          /\ frame' = [frame EXCEPT ![BuffIndex] = Claimed] /\ kpc' = "idle"
          /\ UNCHANGED <<device, sock, nextBuff, wpc, stopFlag, fifo, pending, cont, resume, drained>>
      BY <1>5 DEF KDrainError, BuffIsFree, ProtocolInv
    <2>2. TransportType'
      BY <1>0, <2>1 DEF TransportType
    <2>3. hist' \in [base : Nat \cup {NoPos}, heard : Nat \cup {NoPos}, gaps : Nat,
                     minRun : Nat, ops : Nat, errors : Nat]
      BY <2>1 DEF ControlType
    <2>4. WorkerType' /\ ConsumerType' /\ ControlType'
      BY <1>0, <2>1, <2>3 DEF WorkerType, ConsumerType, ControlType
    <2>5. FlagsType'
      BY <2>1 DEF FlagsType
    <2>6. ProtocolInv'
      BY <1>0, <2>1 DEF ProtocolInv
    <2>7. frame[BuffIndex] \notin Packets
      BY <2>1, SentinelsAssumption
    <2>8. FrameOwnership' /\ FramesAccounted'
      BY <1>0, <2>1, <2>7, UnheldUpdate, NextFrameUpdate
    <2> QED
      BY <2>2, <2>4, <2>5, <2>6, <2>8
  <1>6. CASE KDrainEnd
    <2>1. /\ kpc = "drain" /\ wpc = "none" /\ pending' = NoPending /\ cont' = NoContinuity
          /\ frame' = Release(PendingFrames)
          /\ hist' = [hist EXCEPT !.heard = NoPos, !.gaps = 0]
          /\ kpc' \in {"pokestart", "idle"} /\ drained' = 0
          /\ UNCHANGED <<device, sock, nextBuff, wpc, stopFlag, fifo>>
      BY <1>6 DEF KDrainEnd, ResetContinuity, ProtocolInv
    <2>2. resume' \in BOOLEAN
      BY <1>6 DEF KDrainEnd, ResetContinuity
    <2>3. ConsumerType' /\ pending'.buf = NoFrame
      BY <1>0, <2>1, StopPendingType
    <2>4. TransportType'
      BY <1>0, <2>1, ReleaseType DEF TransportType
    <2>5. WorkerType'
      BY <1>0, <2>1 DEF WorkerType, NoContinuity
    <2>6. hist' \in [base : Nat \cup {NoPos}, heard : Nat \cup {NoPos}, gaps : Nat,
                     minRun : Nat, ops : Nat, errors : Nat]
      BY <2>1 DEF ControlType
    <2>7. ControlType'
      BY <1>0, <2>1, <2>6 DEF ControlType
    <2>8. FlagsType'
      BY <2>1, <2>2 DEF FlagsType
    <2>9. ProtocolInv'
      BY <1>0, <2>1, <2>3 DEF ProtocolInv
    <2>10. PendingFrames \cap WorkerFrames = {} /\ FifoFrames \cap PendingFrames = {}
      BY DEF FrameOwnership
    <2>11. FrameOwnership' /\ FramesAccounted'
      BY <1>0, <2>1, <2>3, <2>10, FlushStep
    <2> QED
      BY <2>3, <2>4, <2>5, <2>7, <2>8, <2>9, <2>11
  <1>7. ASSUME NEW o \in PokeOutcomes, KPokeStop(o) PROVE IInv'
    <2>1. UNCHANGED <<sock, frame, nextBuff, wpc, fifo, pending, cont, resume, drained, hist>>
      BY <1>7 DEF KPokeStop, poolVars
    <2>2. kpc' \in {"idle", "join", "flush"} /\ (kpc' = "flush" => wpc = "none")
      BY <1>7 DEF KPokeStop, EnterStop
    <2>3. stopFlag' \in BOOLEAN
      BY <1>7 DEF KPokeStop, EnterStop, FlagsType
    <2>4. device' \in [streaming : BOOLEAN, rf : Nat, run : Nat, n : Nat]
      BY <1>7 DEF KPokeStop, TransportType
    <2>5. TransportType' /\ WorkerType' /\ ConsumerType' /\ ControlType'
      <3>1. TransportType'
        BY <1>0, <2>1, <2>4 DEF TransportType
      <3>2. WorkerType' /\ ConsumerType'
        BY <1>0, <2>1 DEF WorkerType, ConsumerType
      <3>3. ControlType'
        BY <1>0, <2>1, <2>2 DEF ControlType
      <3> QED
        BY <3>1, <3>2, <3>3
    <2>6. FlagsType'
      BY <2>1, <2>3 DEF FlagsType
    <2>7. ProtocolInv'
      BY <1>0, <2>1, <2>2 DEF ProtocolInv, BuffIndex
    <2> QED
      BY <1>0, <2>1, <2>5, <2>6, <2>7, PoolUntouched
  <1>8. ASSUME NEW o \in PokeOutcomes, KTune(o) PROVE IInv'
    <2>1. /\ UNCHANGED <<sock, frame, nextBuff, wpc, stopFlag, fifo, pending, cont, resume,
                         drained, hist>>
          /\ device' = [device EXCEPT !.rf = IF o = "lost" THEN @ ELSE @ + 1]
          /\ kpc' = "reset" /\ wpc = "none"
      BY <1>8 DEF KTune, poolVars, ProtocolInv
    <2>2. device' \in [streaming : BOOLEAN, rf : Nat, run : Nat, n : Nat]
      BY <2>1 DEF TransportType
    <2>3. TransportType' /\ WorkerType' /\ ConsumerType' /\ ControlType'
      BY <1>0, <2>1, <2>2 DEF TransportType, WorkerType, ConsumerType, ControlType
    <2>4. FlagsType'
      BY <2>1 DEF FlagsType
    <2>5. ProtocolInv'
      BY <1>0, <2>1 DEF ProtocolInv, BuffIndex
    <2> QED
      BY <1>0, <2>1, <2>3, <2>4, <2>5, PoolUntouched
  <1>9. ASSUME NEW o \in PokeOutcomes, KPokeStart(o) PROVE IInv'
    <2>1. /\ UNCHANGED <<sock, frame, nextBuff, fifo, pending, cont, resume, drained>>
          /\ kpc' = "idle" /\ wpc = "none" /\ wpc' \in {"none", "top"}
      BY <1>9 DEF KPokeStart, poolVars, ProtocolInv, Spawn
    <2>2. stopFlag' \in BOOLEAN
      BY <1>9 DEF KPokeStart, Spawn, FlagsType
    <2>3. device' \in [streaming : BOOLEAN, rf : Nat, run : Nat, n : Nat]
      <3>1. CASE o = "lost"
        BY <1>9, <3>1 DEF KPokeStart, TransportType
      <3>2. CASE o # "lost"
        <4> DEFINE m == IF device.streaming THEN device.n ELSE device.n + 1
        <4>1. device' = [streaming |-> TRUE, rf |-> device.rf, run |-> device.run + 1, n |-> m]
          BY <1>9, <3>2 DEF KPokeStart
        <4>2. m \in Nat
          BY DEF TransportType
        <4>3. device \in [streaming : BOOLEAN, rf : Nat, run : Nat, n : Nat]
          BY DEF TransportType
        <4> HIDE DEF m
        <4> QED
          BY <4>1, <4>2, <4>3
      <3> QED
        BY <3>1, <3>2
    <2>4. hist' \in [base : Nat \cup {NoPos}, heard : Nat \cup {NoPos}, gaps : Nat,
                     minRun : Nat, ops : Nat, errors : Nat]
      BY <1>9 DEF KPokeStart, ControlType, TransportType
    <2>5. TransportType' /\ WorkerType' /\ ConsumerType' /\ ControlType'
      <3>1. TransportType'
        BY <1>0, <2>1, <2>3 DEF TransportType
      <3>2. WorkerType' /\ ConsumerType'
        BY <1>0, <2>1 DEF WorkerType, ConsumerType
      <3>3. ControlType'
        BY <1>0, <2>1, <2>4 DEF ControlType
      <3> QED
        BY <3>1, <3>2, <3>3
    <2>6. FlagsType'
      BY <2>1, <2>2 DEF FlagsType
    <2>7. ProtocolInv'
      BY <1>0, <2>1 DEF ProtocolInv, BuffIndex
    <2> QED
      BY <1>0, <2>1, <2>5, <2>6, <2>7, PoolUntouched
  <1> QED
    BY <1>1, <1>2, <1>3, <1>4, <1>5, <1>6, <1>7, <1>8, <1>9 DEF ControlStep

LEMMA Stutter == ASSUME IInv, UNCHANGED vars PROVE IInv'
  <1> USE DEF IInv, TypeOK
  <1>1. UNCHANGED <<device, sock, late, frame, nextBuff, wpc, stopFlag, wbuf, fifo, pending,
                    cont, cpc, call, out, kpc, op, resume, drained, hist>>
    BY DEF vars, sockVars, poolVars, workerVars, appVars, ctlVars
  <1>2. TransportType' /\ WorkerType' /\ ConsumerType' /\ ControlType'
    BY <1>1 DEF TransportType, WorkerType, ConsumerType, ControlType
  <1>3. FlagsType'
    BY <1>1 DEF FlagsType
  <1>4. ProtocolInv'
    BY <1>1 DEF ProtocolInv, BuffIndex
  <1> QED
    BY <1>1, <1>2, <1>3, <1>4, PoolUntouched

-----------------------------------------------------------------------------
(* Theorems *)

\* The inductive invariant: types, ownership of the frames and the protocol
\* of the three threads hold in every reachable state, provided that control
\* calls and recv() do not overlap.
THEOREM InductiveInvariant == ~ConcurrentControl /\ Spec => []IInv
  <1> SUFFICES ASSUME ~ConcurrentControl PROVE Spec => []IInv
    OBVIOUS
  <1>1. IInv /\ [Next]_vars => IInv'
    BY DeviceStep, WorkerStep, RecvCallStep, ConsumerStep, ControlCallStep,
       ControlProgress, Stutter DEF Next
  <1> QED
    BY <1>1, InitIInv, PTL DEF Spec

\* Every variable keeps its type, in the worker, the consumer and the control
\* calls of recv_packet_streamer alike.
THEOREM TypeCorrect == ~ConcurrentControl /\ Spec => []TypeOK
  BY InductiveInvariant, PTL DEF IInv

\* No frame of the pool is ever in two places, or overwritten while the
\* worker, the FIFO or the reader of a pending packet holds it.
THEOREM FramesOwnedOnce == ~ConcurrentControl /\ Spec => []FrameOwnership
  BY InductiveInvariant, PTL DEF IInv

\* Whatever errors recv(2) throws, at most the next frame of the pool is out
\* of use: every other frame is free or holds a packet on its way.
THEOREM NoFrameLost == ~ConcurrentControl /\ Spec => []FramesAccounted
  BY InductiveInvariant, PTL DEF IInv

\* The promise of rx_streamer::prepare_for_rx_epoch_change: the worker and a
\* draining control call never receive from the socket at the same time.
THEOREM OneSocketReader == ~ConcurrentControl /\ Spec => []SingleSocketConsumer
  <1>1. IInv => SingleSocketConsumer
    BY DEF IInv, ProtocolInv, SingleSocketConsumer
  <1> QED
    BY <1>1, InductiveInvariant, PTL
=============================================================================
