---------------------------- MODULE TxFlowProofs ----------------------------
(***************************************************************************)
(* Proofs about TxFlow, for every packet size, every set of requests and   *)
(* every flow-control threshold.  Each invariant is strengthened by what   *)
(* the sending thread knows at each place of its loop: SendInv.            *)
(***************************************************************************)
EXTENDS TxFlow, TLAPS

\* The time stamp of the next sample to go out.
NextTs == IF spc = "idle" THEN clock ELSE clock + sent

\* The last packet ends where the next one begins, and the counter is ready
\* for it.
WireInv ==
    /\ \A i \in 1..(Len(wire) - 1) :
          /\ wire[i + 1].ts = wire[i].ts + wire[i].len
          /\ wire[i + 1].seq = (wire[i].seq + 1) % SeqMod
    /\ wire # <<>> =>
          /\ NextTs = wire[Len(wire)].ts + wire[Len(wire)].len
          /\ seqOut = (wire[Len(wire)].seq + 1) % SeqMod

\* A call has sent nothing exactly when its first packet is still to come.
BurstInv ==
    /\ first <= Len(wire)
    /\ spc # "idle" => (sent = 0 <=> first = Len(wire))
    /\ BurstFraming

\* A thread past the check has seen the device ready, and one past the head
\* of the loop has seen no abort, since the last packet.
LateInv ==
    /\ OneLatePacket
    /\ ready => latePause = 0
    /\ ~stopReq => lateStop = 0
    /\ spc \in {"fill", "release"} => latePause = 0
    /\ spc \in {"check", "wait", "fill", "release"} => lateStop = 0

\* The count is ahead of the wire only between counting and release, and
\* behind it only for a packet counted before monitoring began.
CountInv ==
    /\ base <= Len(wire)
    /\ stats.active =>
         LET onWire == Len(wire) - base
         IN  IF spc = "release" THEN stats.packets \in {onWire, onWire + 1}
             ELSE onWire \in {stats.packets, stats.packets + 1}

SendInv == TypeOK /\ WireInv /\ BurstInv /\ LateInv /\ CountInv /\ PauseClock

-----------------------------------------------------------------------------
\* What a packet of the sending thread is.
LEMMA PacketType ==
    ASSUME TypeOK, spc = "release"
    PROVE  /\ Packet \in Packets /\ NumToSend \in 1..Spp /\ NumToSend <= left
           /\ NumToSend \in Nat
  <1>1. left \in Nat \ {0} /\ sent \in Nat /\ clock \in Nat
    BY DEF TypeOK, SendType
  <1>2. NumToSend \in 1..Spp /\ NumToSend <= left /\ NumToSend \in Nat
    BY <1>1, TxAssumption DEF NumToSend
  <1> QED
    BY <1>1, <1>2 DEF Packet, Packets, StartsBurst, EndsBurst, TypeOK, SendType

LEMMA InitType == Init => TypeOK
  <1> SUFFICES ASSUME Init PROVE TypeOK
    OBVIOUS
  <1> USE TxAssumption DEF Init, NoStats
  <1>1. HostType /\ HistType
    BY DEF HostType, HistType
  <1>2. SendType
    BY DEF SendType
  <1>3. WireType /\ DeviceType
    BY DEF WireType, DeviceType
  <1> QED
    BY <1>1, <1>2, <1>3 DEF TypeOK

LEMMA NextType == TypeOK /\ [Next]_vars => TypeOK'
  <1> SUFFICES ASSUME TypeOK, [Next]_vars PROVE TypeOK'
    OBVIOUS
  <1> USE DEF TypeOK
  <1>1. ASSUME NEW mode \in Modes, NEW flags \in Flags, NEW n \in Sizes, SendCall(mode, flags, n)
        PROVE  TypeOK'
    <2>1. SendType'
      BY <1>1, TxAssumption DEF SendCall, SendUnchanged, hostVars, callVars, devVars, histVars, lateVars, SendType
    <2>2. HistType'
      BY <1>1, TxAssumption DEF SendCall, SendUnchanged, hostVars, callVars, devVars, histVars, lateVars, HistType
    <2>3. HostType' /\ WireType' /\ DeviceType'
      BY <1>1 DEF SendCall, SendUnchanged, hostVars, callVars, devVars, histVars, lateVars, HostType, WireType, DeviceType
    <2> QED
      BY <2>1, <2>2, <2>3
  <1>2. CASE SendTop
    <2>1. SendType'
      BY <1>2 DEF SendTop, Return, SendUnchanged, hostVars, callVars, devVars, histVars, lateVars, SendType
    <2>2. HostType' /\ WireType' /\ DeviceType' /\ HistType'
      BY <1>2 DEF SendTop, Return, SendUnchanged, hostVars, callVars, devVars, histVars, lateVars, HostType, WireType, DeviceType, HistType
    <2> QED
      BY <2>1, <2>2
  <1>3. CASE SendCheck
    <2>1. SendType'
      BY <1>3 DEF SendCheck, SendUnchanged, hostVars, callVars, devVars, histVars, lateVars, SendType
    <2>2. HostType' /\ WireType' /\ DeviceType' /\ HistType'
      BY <1>3 DEF SendCheck, SendUnchanged, hostVars, callVars, devVars, histVars, lateVars, HostType, WireType, DeviceType, HistType
    <2> QED
      BY <2>1, <2>2
  <1>4. CASE SendWake
    <2>1. SendType'
      BY <1>4 DEF SendWake, WakeUp, Return, SendUnchanged, hostVars, callVars, devVars, histVars, lateVars, SendType
    <2>2. HostType' /\ WireType' /\ DeviceType' /\ HistType'
      BY <1>4 DEF SendWake, WakeUp, Return, SendUnchanged, hostVars, callVars, devVars, histVars, lateVars, HostType, WireType, DeviceType, HistType
    <2> QED
      BY <2>1, <2>2
  <1>5. CASE SendCount
    <2>1. HostType'
      BY <1>5 DEF SendCount, Counted, SendUnchanged, hostVars, callVars, devVars, histVars, lateVars, HostType
    <2>2. SendType'
      BY <1>5 DEF SendCount, Counted, SendUnchanged, hostVars, callVars, devVars, histVars, lateVars, SendType
    <2>3. WireType' /\ DeviceType' /\ HistType'
      BY <1>5 DEF SendCount, Counted, SendUnchanged, hostVars, callVars, devVars, histVars, lateVars, WireType, DeviceType, HistType
    <2> QED
      BY <2>1, <2>2, <2>3
  <1>6. CASE SendRelease
    <2>1. Packet \in Packets /\ NumToSend \in Nat /\ NumToSend <= left
      BY <1>6, PacketType DEF SendRelease
    <2>2. WireType'
      BY <1>6, <2>1 DEF SendRelease, WireType
    <2>3. seqOut' \in 0..(SeqMod - 1)
      BY <1>6, TxAssumption DEF SendRelease, SendType
    <2>4. SendType'
      BY <1>6, <2>1, <2>3 DEF SendRelease, SendType
    <2>5. DeviceType'
      <3>1. dev.level + 1 \in Nat
        BY DEF DeviceType
      <3>2. dev' \in [level : Nat, paused : BOOLEAN, todo : SUBSET Events]
        BY <1>6, <3>1 DEF SendRelease, DeviceType
      <3> QED
        BY <1>6, <3>2 DEF SendRelease, DeviceType
    <2>6. HistType'
      BY <1>6 DEF SendRelease, HistType
    <2>7. HostType'
      BY <1>6 DEF SendRelease, hostVars, HostType
    <2> QED
      BY <2>2, <2>4, <2>5, <2>6, <2>7
  <1>7. CASE BeginMonitoring
    <2>1. HostType'
      BY <1>7 DEF BeginMonitoring, FreshStats, NoStats, PauseOn, CountOp, CtlUnchanged, sendVars, callVars, devVars, histVars, lateVars, HostType
    <2>2. HistType'
      BY <1>7 DEF BeginMonitoring, FreshStats, NoStats, PauseOn, CountOp, CtlUnchanged, sendVars, callVars, devVars, histVars, lateVars, HistType
    <2>3. SendType' /\ WireType' /\ DeviceType'
      BY <1>7 DEF BeginMonitoring, FreshStats, NoStats, PauseOn, CountOp, CtlUnchanged, sendVars, callVars, devVars, histVars, lateVars, SendType, WireType, DeviceType
    <2> QED
      BY <2>1, <2>2, <2>3
  <1>8. CASE EndMonitoring
    <2>1. HostType'
      BY <1>8 DEF EndMonitoring, NoStats, CountOp, CtlUnchanged, sendVars, callVars, devVars, histVars, lateVars, HostType
    <2>2. HistType'
      BY <1>8 DEF EndMonitoring, NoStats, CountOp, CtlUnchanged, sendVars, callVars, devVars, histVars, lateVars, HistType
    <2>3. SendType' /\ WireType' /\ DeviceType'
      BY <1>8 DEF EndMonitoring, NoStats, CountOp, CtlUnchanged, sendVars, callVars, devVars, histVars, lateVars, SendType, WireType, DeviceType
    <2> QED
      BY <2>1, <2>2, <2>3
  <1>9. CASE RequestAbort
    <2>1. HostType'
      BY <1>9 DEF RequestAbort, CountOp, CtlUnchanged, sendVars, callVars, devVars, histVars, lateVars, HostType
    <2>2. HistType'
      BY <1>9 DEF RequestAbort, CountOp, CtlUnchanged, sendVars, callVars, devVars, histVars, lateVars, HistType
    <2>3. SendType' /\ WireType' /\ DeviceType'
      BY <1>9 DEF RequestAbort, CountOp, CtlUnchanged, sendVars, callVars, devVars, histVars, lateVars, SendType, WireType, DeviceType
    <2> QED
      BY <2>1, <2>2, <2>3
  <1>10. CASE FcState
    <2>1. HostType'
      BY <1>10 DEF FcState, Noted, IsEvent, sendVars, callVars, lateVars, HostType
    <2>2. DeviceType'
      BY <1>10 DEF FcState, Noted, IsEvent, sendVars, callVars, lateVars, DeviceType
    <2>3. HistType'
      BY <1>10 DEF FcState, Noted, IsEvent, sendVars, callVars, lateVars, HistType
    <2>4. SendType' /\ WireType'
      BY <1>10 DEF FcState, Noted, IsEvent, sendVars, callVars, lateVars, SendType, WireType
    <2> QED
      BY <2>1, <2>2, <2>3, <2>4
  <1>11. CASE FcEvent
    <2>1. DeviceType'
      BY <1>11 DEF FcEvent, IsEvent, hostVars, sendVars, callVars, histVars, lateVars, DeviceType
    <2>2. HostType' /\ SendType' /\ WireType' /\ HistType'
      BY <1>11 DEF FcEvent, IsEvent, hostVars, sendVars, callVars, histVars, lateVars, HostType, SendType, WireType, HistType
    <2> QED
      BY <2>1, <2>2
  <1>12. CASE TakeEvent
    <2>1. DeviceType'
      BY <1>12 DEF TakeEvent, hostVars, sendVars, callVars, devVars, histVars, lateVars, DeviceType
    <2>2. HostType' /\ SendType' /\ WireType' /\ HistType'
      BY <1>12 DEF TakeEvent, hostVars, sendVars, callVars, devVars, histVars, lateVars, HostType, SendType, WireType, HistType
    <2> QED
      BY <2>1, <2>2
  <1>13. CASE DevConsume
    <2>1. DeviceType'
      BY <1>13 DEF DevConsume, hostVars, sendVars, callVars, histVars, lateVars, DeviceType
    <2>2. HostType' /\ SendType' /\ WireType' /\ HistType'
      BY <1>13 DEF DevConsume, hostVars, sendVars, callVars, histVars, lateVars, HostType, SendType, WireType, HistType
    <2> QED
      BY <2>1, <2>2
  <1>14. CASE DevPause
    <2>1. DeviceType'
      <3>1. dev' \in [level : Nat, paused : BOOLEAN, todo : SUBSET Events]
        BY <1>14 DEF DevPause, DeviceType
      <3>2. fcs' \in Seq(Events \cup {"pause", "ready"})
        BY <1>14 DEF DevPause, DeviceType
      <3> QED
        BY <1>14, <3>1, <3>2 DEF DevPause, DeviceType
    <2>2. HostType' /\ SendType' /\ WireType' /\ HistType'
      BY <1>14 DEF DevPause, hostVars, sendVars, callVars, histVars, lateVars, HostType,
         SendType, WireType, HistType
    <2> QED
      BY <2>1, <2>2
  <1>15. CASE DevReady
    <2>1. DeviceType'
      <3>1. dev' \in [level : Nat, paused : BOOLEAN, todo : SUBSET Events]
        BY <1>15 DEF DevReady, DeviceType
      <3>2. fcs' \in Seq(Events \cup {"pause", "ready"})
        BY <1>15 DEF DevReady, DeviceType
      <3> QED
        BY <1>15, <3>1, <3>2 DEF DevReady, DeviceType
    <2>2. HostType' /\ SendType' /\ WireType' /\ HistType'
      BY <1>15 DEF DevReady, hostVars, sendVars, callVars, histVars, lateVars, HostType,
         SendType, WireType, HistType
    <2> QED
      BY <2>1, <2>2
  <1>16. CASE DevRepeat
    <2>1. DeviceType'
      BY <1>16 DEF DevRepeat, hostVars, sendVars, callVars, histVars, lateVars, DeviceType
    <2>2. HistType'
      BY <1>16 DEF DevRepeat, hostVars, sendVars, callVars, histVars, lateVars, HistType
    <2>3. HostType' /\ SendType' /\ WireType'
      BY <1>16 DEF DevRepeat, hostVars, sendVars, callVars, histVars, lateVars, HostType, SendType, WireType
    <2> QED
      BY <2>1, <2>2, <2>3
  <1>17. CASE UNCHANGED vars
    BY <1>17 DEF vars, hostVars, sendVars, callVars, devVars, histVars, lateVars, HostType, SendType, WireType, DeviceType, HistType
  <1>18. ASSUME NEW e \in Events, DevEvent(e)
         PROVE  TypeOK'
    <2>1. DeviceType'
      BY <1>18 DEF DevEvent, hostVars, sendVars, callVars, histVars, lateVars, DeviceType
    <2>2. HostType' /\ SendType' /\ WireType' /\ HistType'
      BY <1>18 DEF DevEvent, hostVars, sendVars, callVars, histVars, lateVars, HostType, SendType, WireType, HistType
    <2> QED
      BY <2>1, <2>2
  <1> QED
    BY <1>1, <1>2, <1>3, <1>4, <1>5, <1>6, <1>7, <1>8, <1>9, <1>10,
       <1>11, <1>12, <1>13, <1>14, <1>15, <1>16, <1>17, <1>18
       DEF Next, SendStep, FlowControl

\* TypeOK: every variable keeps its type; in particular no packet holds more
\* samples than fit one, and a call past the head of its loop has samples left.
THEOREM TypeCorrect == Spec => []TypeOK
  BY InitType, NextType, PTL DEF Spec

-----------------------------------------------------------------------------
\* Only the sending thread moves what is its own.
Called == \E mode \in Modes, flags \in Flags, n \in Sizes : SendCall(mode, flags, n)
LEMMA SenderOwns == [Next]_vars => Called \/ SendStep \/ UNCHANGED <<sendVars, first>>
  <1> SUFFICES ASSUME [Next]_vars, ~Called, ~SendStep
               PROVE  UNCHANGED <<sendVars, first>>
    OBVIOUS
  <1>1. CASE BeginMonitoring \/ EndMonitoring \/ RequestAbort
    BY <1>1 DEF BeginMonitoring, EndMonitoring, RequestAbort, CtlUnchanged
  <1>2. CASE FlowControl \/ TakeEvent
    BY <1>2 DEF FlowControl, FcState, FcEvent, TakeEvent, histVars
  <1>3. CASE DevConsume \/ DevPause \/ DevReady \/ DevRepeat \/ \E e \in Events : DevEvent(e)
    BY <1>3 DEF DevConsume, DevPause, DevReady, DevRepeat, DevEvent, histVars
  <1> QED
    BY <1>1, <1>2, <1>3 DEF Next, Called, vars, histVars

\* What a step of the sending thread that is no release does to the wire.
LEMMA QuietSend ==
    ASSUME TypeOK, SendStep, ~SendRelease
    PROVE  /\ UNCHANGED <<callVars, seqOut, wire>> /\ UNCHANGED <<histVars>>
           /\ spc # "idle" /\ NextTs' = NextTs
  <1>1. left \in Nat /\ sent \in Nat /\ clock \in Nat
    BY DEF TypeOK, SendType
  <1>2. CASE SendTop
    BY <1>1, <1>2 DEF SendTop, Return, NextTs, callVars
  <1>3. CASE SendCheck
    BY <1>1, <1>3 DEF SendCheck, NextTs, callVars
  <1>4. CASE SendWake
    BY <1>1, <1>4 DEF SendWake, WakeUp, Return, NextTs, callVars
  <1>5. CASE SendCount
    BY <1>1, <1>5 DEF SendCount, NextTs, callVars
  <1> QED
    BY <1>2, <1>3, <1>4, <1>5 DEF SendStep

\* What a release does.
LEMMA ReleaseStep ==
    ASSUME TypeOK, SendRelease
    PROVE  /\ spc = "release" /\ spc' = "top" /\ wire' = Append(wire, Packet)
           /\ Len(wire') = Len(wire) + 1 /\ wire'[Len(wire) + 1] = Packet
           /\ \A i \in 1..Len(wire) : wire'[i] = wire[i]
           /\ left' = left - NumToSend /\ sent' = sent + NumToSend /\ clock' = clock
           /\ NumToSend \in 1..Spp /\ NumToSend \in Nat /\ NumToSend <= left
           /\ left \in Nat /\ sent \in Nat /\ clock \in Nat
           /\ seqOut' = (seqOut + 1) % SeqMod
           /\ UNCHANGED <<call, first, base, stats>>
           /\ Len(wire) \in Nat /\ wire \in Seq(Packets) /\ Packet \in Packets
  <1>1. /\ spc = "release" /\ spc' = "top" /\ wire' = Append(wire, Packet)
        /\ left' = left - NumToSend /\ sent' = sent + NumToSend /\ clock' = clock
        /\ seqOut' = (seqOut + 1) % SeqMod
        /\ UNCHANGED <<call, first, base, stats>>
    BY DEF SendRelease, hostVars
  <1>2. NumToSend \in 1..Spp /\ NumToSend \in Nat /\ NumToSend <= left /\ Packet \in Packets
    BY <1>1, PacketType
  <1>3. wire \in Seq(Packets)
    BY DEF TypeOK, WireType
  <1>4. left \in Nat /\ sent \in Nat /\ clock \in Nat
    BY DEF TypeOK, SendType
  <1> QED
    BY <1>1, <1>2, <1>3, <1>4

LEMMA NextWire ==
    ASSUME TypeOK, WireInv, [Next]_vars
    PROVE  WireInv'
  <1>1. CASE Called
    BY <1>1 DEF Called, SendCall, WireInv, NextTs, TypeOK, SendType
  <1>2. CASE SendStep /\ ~SendRelease
    <2>1. UNCHANGED <<seqOut, wire>> /\ NextTs' = NextTs
      BY <1>2, QuietSend
    <2> QED
      BY <2>1 DEF WireInv
  <1>3. CASE SendRelease
    <2> DEFINE n == Len(wire)
    <2>1. /\ n \in Nat /\ Len(wire') = n + 1 /\ wire'[n + 1] = Packet
          /\ \A i \in 1..n : wire'[i] = wire[i]
          /\ NextTs = clock + sent /\ NextTs' = clock + (sent + NumToSend)
          /\ clock \in Nat /\ sent \in Nat /\ NumToSend \in Nat
          /\ seqOut' = (seqOut + 1) % SeqMod
      BY <1>3, ReleaseStep DEF NextTs
    <2>2. Packet.ts = clock + sent /\ Packet.len = NumToSend /\ Packet.seq = seqOut
      BY DEF Packet
    <2>3. ASSUME NEW i \in 1..n
          PROVE  /\ wire'[i + 1].ts = wire'[i].ts + wire'[i].len
                 /\ wire'[i + 1].seq = (wire'[i].seq + 1) % SeqMod
      <3>1. wire'[i] = wire[i] /\ i \in Nat
        BY <2>1
      <3>2. CASE i = n
        <4>1. wire # <<>>
          BY <2>1, <3>2
        <4> QED
          BY <2>1, <2>2, <3>1, <3>2, <4>1 DEF WireInv
      <3>3. CASE i # n
        <4>1. i \in 1..(n - 1) /\ i + 1 \in 1..n
          BY <2>1, <3>3
        <4>2. wire'[i + 1] = wire[i + 1]
          BY <2>1, <4>1
        <4> QED
          BY <3>1, <4>1, <4>2 DEF WireInv
      <3> QED
        BY <3>2, <3>3
    <2>4. /\ NextTs' = wire'[Len(wire')].ts + wire'[Len(wire')].len
          /\ seqOut' = (wire'[Len(wire')].seq + 1) % SeqMod
      BY <2>1, <2>2
    <2>5. Len(wire') - 1 = n
      BY <2>1
    <2> QED
      BY <2>3, <2>4, <2>5 DEF WireInv
  <1>4. CASE UNCHANGED <<sendVars, first>>
    BY <1>4 DEF sendVars, callVars, WireInv, NextTs
  <1> QED
    BY <1>1, <1>2, <1>3, <1>4, SenderOwns

LEMMA WireLen == TypeOK => Len(wire) \in Nat
  BY DEF TypeOK, WireType

LEMMA NextBurst ==
    ASSUME TypeOK, BurstInv, [Next]_vars
    PROVE  BurstInv'
  <1>1. CASE Called
    <2>1. spc' = "top" /\ sent' = 0 /\ first' = Len(wire) /\ wire' = wire /\ Len(wire) \in Nat
      BY <1>1, WireLen DEF Called, SendCall
    <2> QED
      BY <2>1 DEF BurstInv, BurstFraming
  <1>2. CASE SendStep /\ ~SendRelease
    <2>1. UNCHANGED <<call, left, sent, wire, first>> /\ spc # "idle"
      BY <1>2, QuietSend DEF callVars, histVars
    <2> QED
      BY <2>1 DEF BurstInv, BurstFraming
  <1>3. CASE SendRelease
    <2> DEFINE n == Len(wire)
    <2>1. /\ n \in Nat /\ Len(wire') = n + 1 /\ wire'[n + 1] = Packet
          /\ \A i \in 1..n : wire'[i] = wire[i]
          /\ spc # "idle" /\ left' = left - NumToSend /\ sent' = sent + NumToSend
          /\ left \in Nat /\ sent \in Nat /\ NumToSend \in 1..Spp /\ NumToSend <= left
          /\ UNCHANGED <<call, first>>
      BY <1>3, ReleaseStep
    <2>2. first \in Nat /\ first <= n /\ (sent = 0 <=> first = n)
      BY <2>1 DEF BurstInv, TypeOK, HistType
    <2>3. /\ Packet.sob <=> (call.flags \in {"sob", "both"} /\ sent = 0)
          /\ Packet.eob <=> (call.flags \in {"eob", "both"} /\ NumToSend = left)
      BY DEF Packet, StartsBurst, EndsBurst
    <2>4. left > 0 /\ left # 0 /\ sent' # 0 /\ (left' = 0 <=> NumToSend = left)
      BY <2>1, TxAssumption
    <2>5. ASSUME NEW i \in (first + 1)..n
          PROVE  /\ wire'[i].sob <=> (i = first + 1 /\ call.flags \in {"sob", "both"})
                 /\ ~wire'[i].eob /\ i # n + 1
      <3>1. i \in 1..n
        BY <2>1, <2>2
      <3>2. wire'[i] = wire[i]
        BY <2>1, <3>1
      <3> QED
        BY <2>1, <2>4, <3>1, <3>2 DEF BurstInv, BurstFraming
    <2>6. BurstFraming'
      <3> SUFFICES ASSUME NEW i \in (first + 1)..(n + 1)
                   PROVE  /\ wire'[i].sob <=> (i = first + 1 /\ call.flags \in {"sob", "both"})
                          /\ wire'[i].eob <=> (i = n + 1 /\ left' = 0
                                                /\ call.flags \in {"eob", "both"})
        BY <2>1 DEF BurstFraming
      <3>1. CASE i \in (first + 1)..n
        BY <2>5, <3>1
      <3>2. CASE i = n + 1
        <4>1. i = first + 1 <=> sent = 0
          BY <2>1, <2>2, <3>2
        <4> QED
          BY <2>1, <2>3, <2>4, <3>2, <4>1
      <3> QED
        BY <2>1, <2>2, <3>1, <3>2
    <2>7. first' <= Len(wire') /\ first' # Len(wire')
      BY <2>1, <2>2
    <2> QED
      BY <2>4, <2>6, <2>7 DEF BurstInv
  <1>4. CASE UNCHANGED <<sendVars, first>>
    BY <1>4 DEF sendVars, callVars, BurstInv, BurstFraming
  <1> QED
    BY <1>1, <1>2, <1>3, <1>4, SenderOwns

\* What the steps of the other threads and of the device do to what the
\* sending thread relies on.
LEMMA DeviceSteps ==
    ASSUME TakeEvent \/ FcEvent \/ DevConsume \/ DevPause \/ DevReady \/ DevRepeat
           \/ (\E e \in Events : DevEvent(e)) \/ UNCHANGED vars
    PROVE  UNCHANGED <<ready, stopReq, stats, spc, wire, lateVars, base>>
  BY DEF TakeEvent, FcEvent, DevConsume, DevPause, DevReady, DevRepeat, DevEvent, vars,
     hostVars, sendVars, histVars, lateVars

LEMMA NextLate ==
    ASSUME TypeOK, LateInv, [Next]_vars
    PROVE  LateInv'
  <1> USE DEF LateInv, OneLatePacket
  <1>0. latePause \in Nat /\ lateStop \in Nat
    BY DEF TypeOK, HistType
  <1>1. CASE Called
    BY <1>1 DEF Called, SendCall, hostVars, lateVars
  <1>2. CASE SendTop
    BY <1>2 DEF SendTop, Return, hostVars, histVars, lateVars
  <1>3. CASE SendCheck
    BY <1>3 DEF SendCheck, hostVars, histVars, lateVars
  <1>4. CASE SendWake
    BY <1>4 DEF SendWake, WakeUp, Return, hostVars, histVars, lateVars
  <1>5. CASE SendCount
    BY <1>5 DEF SendCount, hostVars, histVars, lateVars
  <1>6. CASE SendRelease
    BY <1>0, <1>6 DEF SendRelease, hostVars
  <1>7. CASE BeginMonitoring
    BY <1>7 DEF BeginMonitoring, CtlUnchanged, sendVars
  <1>8. CASE EndMonitoring
    BY <1>8 DEF EndMonitoring, CtlUnchanged, sendVars, lateVars
  <1>9. CASE RequestAbort
    BY <1>9 DEF RequestAbort, CtlUnchanged, sendVars, lateVars
  <1>10. CASE FcState
    <2>1. /\ ready' => latePause' = 0
          /\ latePause' \in {0, latePause} /\ UNCHANGED <<stopReq, spc, lateStop>>
      BY <1>10 DEF FcState, sendVars
    <2> QED
      BY <1>0, <2>1
  <1>11. CASE UNCHANGED <<ready, stopReq, stats, spc, wire, lateVars, base>>
    BY <1>11 DEF lateVars
  <1> QED
    BY <1>1, <1>2, <1>3, <1>4, <1>5, <1>6, <1>7, <1>8, <1>9, <1>10, <1>11, DeviceSteps
    DEF Next, Called, SendStep, FlowControl

LEMMA NextCount ==
    ASSUME TypeOK, CountInv, [Next]_vars
    PROVE  CountInv'
  <1> USE DEF CountInv
  <1>0. /\ base \in Nat /\ Len(wire) \in Nat /\ stats.packets \in Nat
        /\ stats \in [active : BOOLEAN, pauseStart : BOOLEAN, packets : Nat]
    BY DEF TypeOK, HistType, WireType, HostType
  <1>1. CASE Called
    BY <1>0, <1>1 DEF Called, SendCall, hostVars
  <1>2. CASE SendTop
    BY <1>0, <1>2 DEF SendTop, Return, hostVars, histVars
  <1>3. CASE SendCheck
    BY <1>0, <1>3 DEF SendCheck, hostVars, histVars
  <1>4. CASE SendWake
    BY <1>0, <1>4 DEF SendWake, WakeUp, Return, hostVars, histVars
  <1>5. CASE SendCount
    <2>1. /\ spc = "fill" /\ spc' = "release" /\ UNCHANGED <<wire, base>>
          /\ stats'.active = stats.active
          /\ stats.active => stats'.packets = stats.packets + 1
      BY <1>0, <1>5 DEF SendCount, Counted, histVars
    <2> QED
      BY <1>0, <2>1
  <1>6. CASE SendRelease
    <2>1. /\ spc = "release" /\ spc' = "top" /\ Len(wire') = Len(wire) + 1
          /\ UNCHANGED <<stats, base>>
      BY <1>6, ReleaseStep
    <2> QED
      BY <1>0, <2>1
  <1>7. CASE BeginMonitoring
    <2>1. base' = Len(wire) /\ wire' = wire /\ stats'.packets = 0
      BY <1>7 DEF BeginMonitoring, FreshStats, NoStats, CtlUnchanged, sendVars
    <2> QED
      BY <1>0, <2>1
  <1>8. CASE EndMonitoring
    BY <1>0, <1>8 DEF EndMonitoring, NoStats, CtlUnchanged, sendVars
  <1>9. CASE RequestAbort
    BY <1>0, <1>9 DEF RequestAbort, CtlUnchanged, sendVars
  <1>10. CASE FcState
    <2>1. /\ UNCHANGED <<spc, wire, base>> /\ stats'.active = stats.active
          /\ stats'.packets = stats.packets
      BY <1>0, <1>10 DEF FcState, Noted, sendVars
    <2> QED
      BY <1>0, <2>1
  <1>11. CASE UNCHANGED <<ready, stopReq, stats, spc, wire, lateVars, base>>
    BY <1>11
  <1> QED
    BY <1>1, <1>2, <1>3, <1>4, <1>5, <1>6, <1>7, <1>8, <1>9, <1>10, <1>11, DeviceSteps
    DEF Next, Called, SendStep, FlowControl

LEMMA NextPause ==
    ASSUME TypeOK, PauseClock, [Next]_vars
    PROVE  PauseClock'
  <1> USE DEF PauseClock
  <1>0. /\ stats \in [active : BOOLEAN, pauseStart : BOOLEAN, packets : Nat]
        /\ ready \in BOOLEAN
    BY DEF TypeOK, HostType
  <1>1. CASE Called \/ (SendStep /\ ~SendCount)
    BY <1>1 DEF Called, SendCall, SendStep, SendTop, SendCheck, SendWake, SendRelease, hostVars
  <1>2. CASE SendCount
    BY <1>0, <1>2 DEF SendCount, Counted
  <1>3. CASE BeginMonitoring
    BY <1>3 DEF BeginMonitoring, FreshStats, NoStats, PauseOn, CtlUnchanged
  <1>4. CASE EndMonitoring
    BY <1>4 DEF EndMonitoring, NoStats, CtlUnchanged
  <1>5. CASE RequestAbort
    BY <1>5 DEF RequestAbort, CtlUnchanged
  <1>6. CASE FcState
    BY <1>0, <1>6 DEF FcState, Noted
  <1>7. CASE UNCHANGED <<ready, stopReq, stats, spc, wire, lateVars, base>>
    BY <1>7
  <1> QED
    BY <1>1, <1>2, <1>3, <1>4, <1>5, <1>6, <1>7, DeviceSteps
    DEF Next, Called, SendStep, FlowControl

-----------------------------------------------------------------------------
LEMMA InitSend == Init => SendInv
  <1> SUFFICES ASSUME Init PROVE SendInv
    OBVIOUS
  <1>1. TypeOK
    BY InitType
  <1>2. /\ wire = <<>> /\ first = 0 /\ base = 0 /\ spc = "idle" /\ ready = TRUE
        /\ stopReq = FALSE /\ latePause = 0 /\ lateStop = 0
        /\ stats.active = FALSE /\ stats.pauseStart = FALSE
    BY DEF Init, NoStats
  <1>3. Len(wire) = 0 /\ 1..(Len(wire) - 1) = {} /\ (first + 1)..Len(wire) = {}
    BY <1>2
  <1>4. WireInv
    BY <1>2, <1>3 DEF WireInv
  <1>5. BurstInv
    BY <1>2, <1>3 DEF BurstInv, BurstFraming
  <1>6. LateInv /\ CountInv /\ PauseClock
    BY <1>2, <1>3 DEF LateInv, OneLatePacket, CountInv, PauseClock
  <1> QED
    BY <1>1, <1>4, <1>5, <1>6 DEF SendInv

LEMMA NextSend == SendInv /\ [Next]_vars => SendInv'
  BY NextType, NextWire, NextBurst, NextLate, NextCount, NextPause DEF SendInv

\* The strengthening of all safety properties of the transmit path is inductive.
THEOREM InductiveInvariant == Spec => []SendInv
  BY InitSend, NextSend, PTL DEF Spec

\* WireContiguous: callers that go on from the time stamp the last call left
\* behind send without a hole and without an overlap, however calls end, and
\* the packet counter follows.
THEOREM SamplesContiguous == Spec => []WireContiguous
  <1>1. SendInv => WireContiguous
    BY DEF SendInv, WireInv, WireContiguous, NextTs
  <1> QED
    BY <1>1, InductiveInvariant, PTL

\* BurstFraming: only the first packet of a call starts its burst and only its
\* last sample ends it, for any call and any packet size.
THEOREM BurstsFramed == Spec => []BurstFraming
  <1>1. SendInv => BurstFraming
    BY DEF SendInv, BurstInv
  <1> QED
    BY <1>1, InductiveInvariant, PTL

\* OneLatePacket: at most one packet goes out after the host knows of a pause,
\* and at most one after it is told to stop.
THEOREM AtMostOneLate == Spec => []OneLatePacket
  <1>1. SendInv => OneLatePacket
    BY DEF SendInv, LateInv
  <1> QED
    BY <1>1, InductiveInvariant, PTL

\* CountsAgree: the statistics a monitoring session reports agree with the
\* packets sent since it began (note_packet_sent, begin_tx_flow_control_monitoring).
THEOREM StatisticsAgree == Spec => []CountsAgree
  <1>1. SendInv => CountsAgree
    BY DEF SendInv, CountInv, CountsAgree, TypeOK, HostType, HistType, WireType
  <1> QED
    BY <1>1, InductiveInvariant, PTL

\* PauseClock: the pause clock runs exactly while monitoring is on and the device
\* has asked for a pause (update_flow_control_state).
THEOREM PauseClockTrue == Spec => []PauseClock
  <1>1. SendInv => PauseClock
    BY DEF SendInv
  <1> QED
    BY <1>1, InductiveInvariant, PTL
=============================================================================
