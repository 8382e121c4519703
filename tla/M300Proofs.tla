----------------------------- MODULE M300Proofs -----------------------------
(* Proofs about the M300 driver: the ring of XdmaRing, the lease of           *)
(* M300Control and the transmitting stream of M300Tx, for every number of     *)
(* transports, processes, buffers, crashes, losses and failures.  Then about  *)
(* its tools, for every image: what FlashUpdate calls a success is in the     *)
(* flash, and the window of UpdateTool closes without waiting for the board.  *)
EXTENDS XdmaRing, M300Control, M300Tx, SequenceTheorems, TLAPS

CONSTANTS
    NumChunks, PerBlock, MaxRuns, MaxFlashFaults,   \* as in FlashUpdate
    NumBlocks, MaxTasks, MaxLines, MaxBreaks        \* as in UpdateTool

VARIABLES
    tool, readback, chip, flash, fifo, pipe, luck,  \* FlashUpdate
    ui, task, socket, lines, service, breaks        \* UpdateTool

Flash == INSTANCE FlashUpdate WITH got <- readback, MaxFaults <- MaxFlashFaults
Update == INSTANCE UpdateTool WITH trouble <- breaks

-----------------------------------------------------------------------------
(* XdmaRing.  Types, one group of variables at a time. *)

ControlTypes ==
    /\ at \in [Clients -> Places] /\ flock \in Clients \cup {None}
    /\ held \in [Clients -> BOOLEAN] /\ started \in [Clients -> BOOLEAN]
RingTypes ==
    ring \in {"idle", "active", "draining"} /\ user \in Clients \cup {None}
RecordTypes ==
    /\ taken \in [by: Clients \cup {None}, of: Clients \cup {None},
                  call: {"none", "burst", "buff"}]
    /\ trouble \in [crashes: 0..MaxCrashes, failures: 0..MaxFailures]

LEMMA RingTypeParts == RingTypeOK <=> ControlTypes /\ RingTypes /\ RecordTypes
BY DEF RingTypeOK, ControlTypes, RingTypes, RecordTypes

LEMMA InitRingTypes == RingInit => RingTypeOK
BY RingAssumption DEF RingInit, RingTypeOK, Untaken, Calm, Places

LEMMA ControlTypesKept ==
    ASSUME ControlTypes, RingNext
    PROVE  ControlTypes'
<1>1. CASE KernelQuiet BY <1>1 DEF KernelQuiet, ControlTypes
<1>2. ASSUME NEW c \in Clients, RingStep(c) PROVE ControlTypes'
  <2>1. CASE StartRecv(c) BY <2>1 DEF StartRecv, ControlTypes, Places
  <2>2. CASE FirstStart(c)
    BY <2>2 DEF FirstStart, StartIoctl, Fail, StartThrows, Unlock, ControlTypes, Places
  <2>3. CASE StopStale(c)
    BY <2>3 DEF StopStale, StopIoctl, Fail, StartThrows, Unlock, ControlTypes, Places
  <2>4. CASE RetryStart(c)
    BY <2>4 DEF RetryStart, StartIoctl, Fail, StartThrows, Unlock, ControlTypes, Places
  <2>5. CASE StopRecv(c)
    BY <2>5 DEF StopRecv, StopIoctl, Fail, Stopped, ControlTypes, Places
  <2>6. CASE StopUnlock(c) BY <2>6 DEF StopUnlock, Unlock, ControlTypes, Places
  <2>7. CASE PayloadBurst(c) BY <2>7 DEF PayloadBurst, ControlTypes
  <2>8. CASE RecvBuff(c) BY <2>8 DEF RecvBuff, ControlTypes
  <2>9. CASE Crash(c) BY <2>9 DEF Crash, ControlTypes, Places
  <2> QED BY <1>2, <2>1, <2>2, <2>3, <2>4, <2>5, <2>6, <2>7, <2>8, <2>9 DEF RingStep
<1> QED BY <1>1, <1>2 DEF RingNext

LEMMA RingTypesKept ==
    ASSUME RingTypes, RingNext
    PROVE  RingTypes'
<1>1. CASE KernelQuiet BY <1>1 DEF KernelQuiet, RingTypes
<1>2. ASSUME NEW c \in Clients, RingStep(c) PROVE RingTypes'
  BY <1>2 DEF RingStep, StartRecv, FirstStart, StopStale, RetryStart, StopRecv, StopUnlock,
     PayloadBurst, RecvBuff, Crash, StartIoctl, StopIoctl, StartThrows, RingTypes
<1> QED BY <1>1, <1>2 DEF RingNext

LEMMA RecordTypesKept ==
    ASSUME RecordTypes, RingTypes, RingNext
    PROVE  RecordTypes'
<1>1. ASSUME Fail PROVE trouble' \in [crashes: 0..MaxCrashes, failures: 0..MaxFailures]
  BY <1>1, RingAssumption DEF Fail, RecordTypes
<1>2. CASE KernelQuiet BY <1>2 DEF KernelQuiet, RecordTypes
<1>3. ASSUME NEW c \in Clients, RingStep(c) PROVE RecordTypes'
  <2>1. CASE FirstStart(c) \/ StopStale(c) \/ RetryStart(c) \/ StopRecv(c)
    BY <2>1, <1>1 DEF FirstStart, StopStale, RetryStart, StopRecv, RecordTypes
  <2>2. CASE StartRecv(c) \/ StopUnlock(c)
    BY <2>2 DEF StartRecv, StopUnlock, RecordTypes
  <2>3. CASE PayloadBurst(c) \/ RecvBuff(c)
    BY <2>3 DEF PayloadBurst, RecvBuff, RecordTypes, RingTypes
  <2>4. CASE Crash(c) BY <2>4, RingAssumption DEF Crash, RecordTypes
  <2> QED BY <1>3, <2>1, <2>2, <2>3, <2>4 DEF RingStep
<1> QED BY <1>2, <1>3 DEF RingNext

\* Every variable keeps its type.
THEOREM RingTypeCorrect == RingSpec => []RingTypeOK
<1>1. RingTypeOK /\ [RingNext]_ringVars => RingTypeOK'
  <2>1. ASSUME RingTypeOK, RingNext PROVE RingTypeOK'
    BY <2>1, RingTypeParts, ControlTypesKept, RingTypesKept, RecordTypesKept
       DEF RingTypeOK, ControlTypes, RingTypes, RecordTypes
  <2>2. ASSUME RingTypeOK, UNCHANGED ringVars PROVE RingTypeOK'
    BY <2>2 DEF RingTypeOK, ringVars
  <2> QED BY <2>1, <2>2
<1> QED BY InitRingTypes, <1>1, PTL DEF RingSpec

-----------------------------------------------------------------------------
(* The lock holder is alone.  Inductive with the place of a client that has   *)
(* started the ring: it is the one place from which the flag is cleared.      *)

StartedIsOn == \A c \in Clients: started[c] <=> at[c] = "on"
RingInv == ControlTypes /\ StartedIsOn /\ StartedHasRing /\ LockOnlyInUse /\ BurstIsOwn

LEMMA InitRingInv == RingInit => RingInv
BY InitRingTypes, RingTypeParts, RingAssumption
   DEF RingInit, RingInv, StartedIsOn, StartedHasRing, LockOnlyInUse, BurstIsOwn, Untaken

\* While a client is on its way or on the ring, no other one is.
LEMMA Alone ==
    ASSUME RingInv, NEW c \in Clients, at[c] # "off", NEW d \in Clients, d # c
    PROVE  at[d] = "off" /\ ~started[d] /\ ~held[d]
BY RingAssumption DEF RingInv, ControlTypes, StartedIsOn, LockOnlyInUse

LEMMA StartIoctlKeeps ==
    ASSUME RingInv, NEW c \in Clients, at[c] \in {"first", "retry"}, StartIoctl(c),
           UNCHANGED taken
    PROVE  StartedIsOn' /\ StartedHasRing' /\ LockOnlyInUse' /\ BurstIsOwn'
BY Alone DEF RingInv, StartIoctl, ControlTypes, StartedIsOn, StartedHasRing, LockOnlyInUse,
   BurstIsOwn

LEMMA StartThrowsKeeps ==
    ASSUME RingInv, NEW c \in Clients, at[c] \in {"first", "busy", "retry"}, StartThrows(c),
           UNCHANGED taken
    PROVE  StartedIsOn' /\ StartedHasRing' /\ LockOnlyInUse' /\ BurstIsOwn'
BY Alone, RingAssumption DEF RingInv, StartThrows, Unlock, ControlTypes, StartedIsOn,
   StartedHasRing, LockOnlyInUse, BurstIsOwn

LEMMA RingStepKeeps ==
    ASSUME RingInv, NEW c \in Clients, RingStep(c)
    PROVE  StartedIsOn' /\ StartedHasRing' /\ LockOnlyInUse' /\ BurstIsOwn'
<1> USE DEF StartedIsOn, StartedHasRing, LockOnlyInUse, BurstIsOwn
<1>1. CASE StartRecv(c)
  BY <1>1, RingAssumption DEF StartRecv, Lockable, RingInv, ControlTypes
<1>2. CASE FirstStart(c)
  <2>1. CASE ring # "idle" /\ at' = [at EXCEPT ![c] = "busy"]
             /\ UNCHANGED <<flock, held, started, ring, user, trouble>>
    BY <1>2, <2>1, Alone DEF FirstStart, RingInv, ControlTypes
  <2> QED BY <1>2, <2>1, StartIoctlKeeps, StartThrowsKeeps DEF FirstStart
<1>3. CASE StopStale(c)
  <2>1. CASE StopIoctl /\ at' = [at EXCEPT ![c] = "retry"]
             /\ UNCHANGED <<flock, held, started, trouble>>
    BY <1>3, <2>1, Alone DEF StopStale, StopIoctl, RingInv, ControlTypes
  <2> QED BY <1>3, <2>1, StartThrowsKeeps DEF StopStale
<1>4. CASE RetryStart(c)
  BY <1>4, StartIoctlKeeps, StartThrowsKeeps DEF RetryStart
<1>5. CASE StopRecv(c)
  BY <1>5, Alone DEF StopRecv, StopIoctl, Fail, Stopped, RingInv, ControlTypes
<1>6. CASE StopUnlock(c)
  BY <1>6, Alone, RingAssumption DEF StopUnlock, Unlock, RingInv, ControlTypes
<1>7. CASE PayloadBurst(c)
  BY <1>7 DEF PayloadBurst, BurstAllowed, RingInv, ControlTypes
<1>8. CASE RecvBuff(c)
  BY <1>8 DEF RecvBuff, RingInv, ControlTypes
<1>9. CASE Crash(c)
  BY <1>9, Alone, RingAssumption DEF Crash, RingInv, ControlTypes
<1> QED BY <1>1, <1>2, <1>3, <1>4, <1>5, <1>6, <1>7, <1>8, <1>9 DEF RingStep

LEMMA RingInvKept == RingInv /\ [RingNext]_ringVars => RingInv'
<1>1. ASSUME RingInv, KernelQuiet PROVE RingInv'
  BY <1>1 DEF RingInv, KernelQuiet, ControlTypes, StartedIsOn, StartedHasRing, LockOnlyInUse,
     BurstIsOwn
<1>2. ASSUME RingInv, NEW c \in Clients, RingStep(c) PROVE RingInv'
  <2>1. ControlTypes' BY <1>2, ControlTypesKept DEF RingInv, RingNext
  <2> QED BY <1>2, <2>1, RingStepKeeps DEF RingInv
<1>3. ASSUME RingInv, UNCHANGED ringVars PROVE RingInv'
  BY <1>3 DEF RingInv, ringVars, ControlTypes, StartedIsOn, StartedHasRing, LockOnlyInUse,
     BurstIsOwn
<1> QED BY <1>1, <1>2, <1>3 DEF RingNext

\* A transport that started the ring has it to itself until it stops it; the
\* lock is held exactly while a transport is on its way to the ring or on it;
\* and a burst is read from the transport's own ring (start_recv, stop_recv,
\* recv_payload_burst).
THEOREM LockHolderIsAlone == RingSpec => []RingExclusive
<1>1. RingInv => RingExclusive BY DEF RingInv, RingExclusive
<1> QED BY InitRingInv, RingInvKept, <1>1, PTL DEF RingSpec

-----------------------------------------------------------------------------
(* M300Control: who has the device open holds the lock, and nobody else. *)


LeaseTypes ==
    ppc \in [Procs -> Inside \cup {"out", "probing", "probed"}] /\ lease \in Procs \cup {Nobody}

LeaseInv == LeaseTypes /\ OneOwner

LEMMA InitLease == ControlInit => LeaseInv
BY ControlAssumption DEF ControlInit, LeaseInv, LeaseTypes, OneOwner, Inside

\* A process that moves within, or outside, and leaves the lock alone.
LEMMA MoveKeepsLease ==
    ASSUME LeaseInv, NEW p \in Procs, UNCHANGED lease,
           NEW place \in Inside \cup {"out", "probing", "probed"}, Move(p, place),
           ppc[p] \in Inside <=> place \in Inside
    PROVE  LeaseInv'
BY DEF Move, LeaseInv, LeaseTypes, OneOwner

\* A process that leaves, and gives up what lock it has.
LEMMA LeaveKeepsLease ==
    ASSUME LeaseInv, NEW p \in Procs, Move(p, "out"), Freed(p)
    PROVE  LeaseInv'
BY ControlAssumption DEF Move, Freed, LeaseInv, LeaseTypes, OneOwner, Inside

LEMMA LeaseStepKeeps ==
    ASSUME LeaseInv, NEW p \in Procs, ControlStep(p)
    PROVE  LeaseInv'
<1>1. CASE Probe(p) BY <1>1, MoveKeepsLease DEF Probe, Inside
<1>2. CASE ProbeRead(p) BY <1>2, MoveKeepsLease DEF ProbeRead, Inside
<1>3. CASE ProbeTimeout(p) BY <1>3, MoveKeepsLease DEF ProbeTimeout, Inside
<1>4. CASE Construct(p)
  BY <1>4, ControlAssumption
     DEF Construct, LeaseFree, Move, LeaseInv, LeaseTypes, OneOwner, Inside
<1>5. CASE Rejected(p) BY <1>5, MoveKeepsLease DEF Rejected, Inside
<1>6. CASE Close(p) BY <1>6, LeaveKeepsLease DEF Close
<1>7. CASE Die(p) BY <1>7, LeaveKeepsLease DEF Die
<1>8. CASE SendCommand(p) BY <1>8, MoveKeepsLease DEF SendCommand, Inside
<1>9. ASSUME Throws(p), ppc[p] = "waiting" PROVE LeaseInv'
  BY <1>9, MoveKeepsLease, LeaveKeepsLease DEF Throws, Inside
<1>10. CASE TakeAnswer(p)
  <2>1. CASE UNCHANGED <<ppc, lease>> BY <2>1 DEF LeaseInv, LeaseTypes, OneOwner
  <2>2. CASE Move(p, "idle") /\ UNCHANGED lease
    BY <1>10, <2>2, MoveKeepsLease DEF TakeAnswer, Inside
  <2> QED BY <1>9, <1>10, <2>1, <2>2 DEF TakeAnswer
<1>11. CASE CommandTimeout(p) BY <1>9, <1>11 DEF CommandTimeout
<1> QED
  BY <1>1, <1>2, <1>3, <1>4, <1>5, <1>6, <1>7, <1>8, <1>10, <1>11 DEF ControlStep

\* At any time the device is open in one process at most, the one that holds the
\* lock, through rejections, failed constructions and processes that die
\* (acquire_device_access, the constructor of M300XdmaImpl).
THEOREM OwnerHoldsLease == ControlSpec => []OneOwner
<1>1. LeaseInv /\ [ControlNext]_controlVars => LeaseInv'
  <2>1. ASSUME LeaseInv, Answer PROVE LeaseInv'
    BY <2>1 DEF Answer, LeaseInv, LeaseTypes, OneOwner
  <2>2. ASSUME LeaseInv, UNCHANGED controlVars PROVE LeaseInv'
    BY <2>2 DEF controlVars, LeaseInv, LeaseTypes, OneOwner
  <2> QED BY <2>1, <2>2, LeaseStepKeeps DEF ControlNext
<1>2. LeaseInv => OneOwner BY DEF LeaseInv
<1> QED BY InitLease, <1>1, <1>2, PTL DEF ControlSpec

-----------------------------------------------------------------------------
(* M300Tx: nothing is left behind when the source is switched off, and the    *)
(* attenuation callback of a start is never lost.                             *)


FlagTypes ==
    /\ ctl \in {"idle", "drain", "off"} /\ sender \in {"idle", "loop", "relatch", "callback"}
    /\ active \in BOOLEAN /\ pending \in BOOLEAN /\ relatched \in BOOLEAN
    /\ worker \in [at: {"none", "wait", "write"}, stop: BOOLEAN]

\* The stream is active only with a worker that is not told to stop; a send
\* between its lock and its unlock, or a stop, excludes the other; and what the
\* worker has left when it is gone is nothing.
Exclusion ==
    /\ active => worker.at # "none" /\ ~worker.stop
    /\ sender \in {"loop", "relatch"} => active
    /\ ctl # "idle" => ~active
    /\ worker.at # "none" /\ worker.stop => ctl = "drain"
WorkerEmpty ==
    /\ worker.at # "write" => writing = <<>>
    /\ worker.at = "none" => queue = <<>>
    /\ ctl = "off" => worker.at = "none"

TxInv == FlagTypes /\ Exclusion /\ WorkerEmpty /\ RelatchedOrPending

LEMMA InitTxInv == TxInit => TxInv
<1> SUFFICES ASSUME TxInit PROVE TxInv
  OBVIOUS
<1>1. /\ ctl = "idle" /\ sender = "idle" /\ active = FALSE /\ pending = FALSE
      /\ relatched = FALSE /\ worker = [at |-> "none", stop |-> FALSE]
      /\ queue = <<>> /\ writing = <<>>
  BY DEF TxInit
<1>2. FlagTypes BY <1>1 DEF FlagTypes
<1>3. Exclusion /\ WorkerEmpty /\ RelatchedOrPending
  BY <1>1 DEF Exclusion, WorkerEmpty, RelatchedOrPending
<1> QED BY <1>2, <1>3 DEF TxInv

LEMMA ControlKeeps ==
    ASSUME TxInv, Control
    PROVE  TxInv'
<1> USE DEF TxInv, FlagTypes, Exclusion, WorkerEmpty, RelatchedOrPending, Unlocked
<1>1. CASE Start
  <2>1. /\ worker'.at # "none" /\ worker'.stop = FALSE
        /\ worker' \in [at: {"none", "wait", "write"}, stop: BOOLEAN]
        /\ worker'.at # "write" => writing' = <<>>
    <3>1. CASE worker.at = "none"
      <4>1. worker' = [at |-> "wait", stop |-> FALSE] /\ writing' = writing
        BY <1>1, <3>1 DEF Start
      <4> QED BY <3>1, <4>1
    <3>2. CASE worker.at # "none"
      <4>1. worker' = worker /\ writing' = writing BY <1>1, <3>2 DEF Start
      <4>2. worker.stop = FALSE BY <1>1, <3>2 DEF Start
      <4> QED BY <3>2, <4>1, <4>2
    <3> QED BY <3>1, <3>2
  <2>2. /\ active' = TRUE /\ pending' = TRUE /\ relatched' = FALSE
        /\ ctl = "idle" /\ UNCHANGED <<ctl, sender>>
    BY <1>1 DEF Start
  <2> QED BY <2>1, <2>2
<1>2. CASE \E spp \in PacketSizes: Configure(spp) BY <1>2 DEF Configure
<1>3. CASE Stop BY <1>3 DEF Stop
<1>4. CASE StopJoin BY <1>4 DEF StopJoin, Joined
<1>5. CASE StopSource BY <1>5 DEF StopSource
<1> QED BY <1>1, <1>2, <1>3, <1>4, <1>5 DEF Control

LEMMA SenderKeeps ==
    ASSUME TxInv, Sender \/ \E n \in Lengths: Send(n)
    PROVE  TxInv'
<1> USE DEF TxInv, FlagTypes, Exclusion, WorkerEmpty, RelatchedOrPending
<1>1. CASE \E n \in Lengths: Send(n) BY <1>1 DEF Send
<1>2. CASE FillBuffer BY <1>2 DEF FillBuffer
<1>3. CASE LoopEnds BY <1>3 DEF LoopEnds
<1>4. CASE Relatch BY <1>4 DEF Relatch
<1>5. CASE Callback BY <1>5 DEF Callback, TryAgain
<1> QED BY <1>1, <1>2, <1>3, <1>4, <1>5 DEF Sender

LEMMA WorkerKeeps ==
    ASSUME TxInv, Worker
    PROVE  TxInv'
<1> USE DEF TxInv, FlagTypes, Exclusion, WorkerEmpty, RelatchedOrPending
<1>1. CASE WorkerTake BY <1>1 DEF WorkerTake
<1>2. CASE WorkerExit BY <1>2 DEF WorkerExit, MayExit
<1>3. CASE WorkerWrite BY <1>3 DEF WorkerWrite
<1> QED BY <1>1, <1>2, <1>3 DEF Worker

LEMMA TxInvHolds == TxSpec => []TxInv
<1>1. TxInv /\ [TxNext]_txVars => TxInv'
  <2>1. ASSUME TxInv, UNCHANGED txVars PROVE TxInv'
    BY <2>1 DEF txVars, TxInv, FlagTypes, Exclusion, WorkerEmpty, RelatchedOrPending
  <2> QED BY <2>1, ControlKeeps, SenderKeeps, WorkerKeeps DEF TxNext
<1> QED BY InitTxInv, <1>1, PTL DEF TxSpec

\* When set_stream_tx_stop switches the FPGA's source off, every buffer that a
\* send was told is accepted has been taken by the worker and the worker is gone.
THEOREM StopDrains == TxSpec => []DrainedBeforeOff
<1>1. TxInv => DrainedBeforeOff BY DEF TxInv, WorkerEmpty, DrainedBeforeOff
<1> QED BY TxInvHolds, <1>1, PTL

\* After every start the controls and the attenuation are applied again, or will
\* be by the next send, whatever relatch or callback fails and whatever start or
\* stop comes while the callback runs (send_impl).
THEOREM CallbackNeverLost == TxSpec => []RelatchedOrPending
<1>1. TxInv => RelatchedOrPending BY DEF TxInv
<1> QED BY TxInvHolds, <1>1, PTL

-----------------------------------------------------------------------------
(* M300Tx: what is written, what is queued and what comes next are one        *)
(* sequence of packets with consecutive numbers and contiguous time stamps.   *)

Packet == [seq: Nat, time: Nat, n: Nat, session: Nat]
Entry == [p: Packet, lost: Nat]

Last(s) == s[Len(s)]
Follows(p, q) ==
    p.session = q.session => q.seq = (p.seq + 1) % TxSeqMod /\ q.time = p.time + p.n
Chained(s) == \A i \in 1..(Len(s) - 1) : Follows(s[i], s[i + 1])

\* The buffers on their way to the device, and the packet that send would add.
Line == writing \o queue
NextUp == [seq |-> nextSeq, time |-> clock + done, session |-> session]
Upcoming(line, next) == IF line = <<>> THEN next ELSE line[1][1]

FilledInv(line, next) ==
    \A i \in 1..Len(line) :
        line[i] # <<>> /\ Chained(line[i]) /\ Last(line[i]).session <= next.session
JoinedInv(line, next) ==
    /\ \A i \in 1..(Len(line) - 1) : Follows(Last(line[i]), line[i + 1][1])
    /\ line # <<>> => Follows(Last(Last(line)), next)
LineInv(line, next) == FilledInv(line, next) /\ JoinedInv(line, next)

EntriesInv(w, gone, next) ==
    /\ \A i \in 1..Len(w) : w[i].lost <= gone
    /\ w # <<>> => Last(w).p.session <= next.session
SeamInv(w, gone, q) == w # <<>> /\ Last(w).lost = gone => Follows(Last(w).p, q)
WrittenInv(w) ==
    \A i \in 1..(Len(w) - 1) : w[i].lost = w[i + 1].lost => Follows(w[i].p, w[i + 1].p)
WireInv(w, gone, line, next) ==
    EntriesInv(w, gone, next) /\ SeamInv(w, gone, Upcoming(line, next)) /\ WrittenInv(w)

SendTypes ==
    /\ nextSeq \in 0..(TxSeqMod - 1) /\ perPacket \in PacketSizes
    /\ todo \in Nat /\ done \in Nat /\ clock \in Nat /\ session \in Nat
    /\ tally \in [sends: Nat, ops: Nat, bad: Nat, lost: Nat]
    /\ sender # "loop" => done = 0
LineTypes ==
    /\ queue \in Seq(Seq(Packet)) /\ writing \in Seq(Seq(Packet)) /\ wire \in Seq(Entry)
    /\ Len(writing) = IF worker.at = "write" THEN 1 ELSE 0

OrderInv ==
    SendTypes /\ LineTypes /\ LineInv(Line, NextUp) /\ WireInv(wire, tally.lost, Line, NextUp)

LEMMA LargestSize ==
    (CHOOSE s \in PacketSizes: \A t \in PacketSizes: t <= s) \in PacketSizes
BY TxStreamAssumption

LEMMA InitOrder == TxInit => OrderInv
<1> SUFFICES ASSUME TxInit PROVE OrderInv
  OBVIOUS
<1>1. /\ perPacket \in PacketSizes /\ nextSeq = 0 /\ TxSeqMod \in Nat \ {0}
  BY TxStreamAssumption, LargestSize DEF TxInit
<1>2. /\ queue = <<>> /\ writing = <<>> /\ wire = <<>> /\ done = 0 /\ clock = 0 /\ session = 0
      /\ todo = 0 /\ worker.at = "none" /\ tally = [sends |-> 0, ops |-> 0, bad |-> 0, lost |-> 0]
  BY DEF TxInit
<1>3. SendTypes BY <1>1, <1>2 DEF SendTypes
<1>4. LineTypes BY <1>2 DEF LineTypes
<1>5. Line = <<>> BY <1>2 DEF Line
<1>6. LineInv(Line, NextUp) BY <1>5 DEF LineInv, FilledInv, JoinedInv
<1>7. WireInv(wire, tally.lost, Line, NextUp)
  BY <1>2 DEF WireInv, EntriesInv, SeamInv, WrittenInv
<1> QED BY <1>3, <1>4, <1>6, <1>7 DEF OrderInv

-----------------------------------------------------------------------------
(* A buffer: its packets follow one another, and what comes next follows it.  *)

LEMMA Remainder ==
    ASSUME NEW m \in Nat \ {0}, NEW q \in Nat, NEW r \in 0..(m - 1)
    PROVE  (q * m + r) % m = r
<1> DEFINE x == q * m + r
           d == x \div m
           e == x % m
<1>1. x \in Nat
  OBVIOUS
<1>2. d \in Nat /\ e \in 0..(m - 1) /\ x = m * d + e
  BY <1>1
<1>3. ASSUME NEW a \in Nat, NEW b \in Nat, a < b PROVE m * a + m <= m * b
  <2>1. a + 1 <= b
    BY <1>3
  <2> QED BY <2>1
<1>4. d = q
  <2>1. ~(d < q) BY <1>2, <1>3
  <2>2. ~(q < d) BY <1>2, <1>3
  <2> QED BY <1>2, <2>1, <2>2
<1> QED BY <1>2, <1>4

LEMMA ModSucc ==
    ASSUME NEW a \in Nat, NEW m \in Nat \ {0}
    PROVE  ((a % m) + 1) % m = (a + 1) % m /\ a % m \in 0..(m - 1)
<1> DEFINE q == a \div m
           r == a % m
<1>1. q \in Nat /\ r \in 0..(m - 1) /\ a = q * m + r
  OBVIOUS
<1>2. CASE r + 1 < m
  <2>1. a + 1 = q * m + (r + 1) /\ r + 1 \in 0..(m - 1)
    BY <1>1, <1>2
  <2>2. (q * m + (r + 1)) % m = r + 1
    BY <1>1, <2>1, Remainder
  <2>3. (0 * m + (r + 1)) % m = r + 1
    BY <2>1, Remainder
  <2>4. 0 * m + (r + 1) = r + 1
    BY <1>1
  <2> HIDE DEF q, r
  <2> QED BY <1>1, <2>1, <2>2, <2>3, <2>4 DEF r
<1>3. CASE r + 1 = m
  <2>1. a + 1 = (q + 1) * m + 0 /\ q + 1 \in Nat
    BY <1>1, <1>3
  <2>2. ((q + 1) * m + 0) % m = 0
    BY <2>1, Remainder
  <2>3. (1 * m + 0) % m = 0
    BY Remainder
  <2>4. 1 * m + 0 = r + 1
    BY <1>3
  <2> HIDE DEF q, r
  <2> QED BY <1>1, <2>1, <2>2, <2>3, <2>4 DEF r
<1> QED BY <1>1, <1>2, <1>3

LEMMA Ceiling ==
    ASSUME NEW t \in Nat \ {0}, NEW s \in Nat \ {0}
    PROVE  LET k == (t + s - 1) \div s IN k \in Nat \ {0} /\ (k - 1) * s < t /\ t <= k * s
OBVIOUS

\* What Buffer builds, with the state it reads as parameters.
Filled(first, time, size, left, s) ==
    [i \in 1..Least(MaxAgg, (left + size - 1) \div size) |->
        [seq |-> (first + i - 1) % TxSeqMod, time |-> time + (i - 1) * size,
         n |-> Least(size, left - (i - 1) * size), session |-> s]]

LEMMA FilledLength ==
    ASSUME NEW left \in Nat \ {0}, NEW size \in Nat \ {0}
    PROVE  LET k == (left + size - 1) \div size
               m == Least(MaxAgg, k)
           IN  /\ m \in Nat \ {0}
               /\ \A i \in 1..m : (i - 1) * size < left /\ (i < m => i * size <= left)
               /\ (m - 1) * size + Least(size, left - (m - 1) * size) = Least(left, MaxAgg * size)
<1> DEFINE k == (left + size - 1) \div size
           m == Least(MaxAgg, k)
<1>1. k \in Nat \ {0} /\ (k - 1) * size < left /\ left <= k * size
  BY Ceiling
<1>2. MaxAgg \in Nat \ {0}
  BY TxStreamAssumption
<1> HIDE DEF k
<1>3. m \in Nat \ {0} /\ m <= k /\ m <= MaxAgg /\ (m = k \/ (m = MaxAgg /\ m < k))
  BY <1>1, <1>2 DEF Least
<1> HIDE DEF m
<1>4. ASSUME NEW a \in Nat, NEW b \in Nat, a <= b PROVE a * size <= b * size
  BY <1>4
<1>5. ASSUME NEW i \in 1..m PROVE (i - 1) * size < left /\ (i < m => i * size <= left)
  <2>1. (i - 1) * size <= (k - 1) * size
    BY <1>1, <1>3, <1>4
  <2>2. i < m => i * size <= (k - 1) * size
    BY <1>1, <1>3, <1>4
  <2> QED BY <1>1, <2>1, <2>2
<1>6. (m - 1) * size + Least(size, left - (m - 1) * size) = Least(left, MaxAgg * size)
  <2>1. (m - 1) * size + size = m * size
    BY <1>3
  <2>2. CASE m = k
    <3>1. left <= m * size /\ m * size <= MaxAgg * size
      BY <1>1, <1>2, <1>3, <1>4, <2>2
    <3> QED BY <1>2, <1>3, <2>1, <3>1 DEF Least
  <2>3. CASE m = MaxAgg /\ m < k
    <3>1. m * size <= (k - 1) * size
      BY <1>1, <1>3, <1>4, <2>3
    <3>2. m * size < left
      BY <1>1, <1>3, <3>1
    <3> QED BY <1>3, <2>1, <2>3, <3>2 DEF Least
  <2> QED BY <1>3, <2>2, <2>3
<1>7. m \in Nat \ {0} /\ (\A i \in 1..m : (i - 1) * size < left /\ (i < m => i * size <= left))
  BY <1>3, <1>5
<1> QED BY <1>6, <1>7 DEF k, m

LEMMA FilledChain ==
    ASSUME NEW first \in 0..(TxSeqMod - 1), NEW time \in Nat, NEW s \in Nat,
           NEW left \in Nat \ {0}, NEW size \in Nat \ {0}
    PROVE  LET b == Filled(first, time, size, left, s)
               next == [seq |-> (first + Len(b)) % TxSeqMod,
                        time |-> time + Least(left, MaxAgg * size), session |-> s]
           IN  /\ b \in Seq(Packet) /\ Len(b) \in Nat \ {0} /\ Chained(b)
               /\ b[1].seq = first /\ b[1].time = time /\ b[1].session = s
               /\ Last(b).session = s /\ Follows(Last(b), next)
<1> DEFINE m == Least(MaxAgg, (left + size - 1) \div size)
           b == Filled(first, time, size, left, s)
           next == [seq |-> (first + Len(b)) % TxSeqMod,
                    time |-> time + Least(left, MaxAgg * size), session |-> s]
<1>1. /\ m \in Nat \ {0}
      /\ \A i \in 1..m : (i - 1) * size < left /\ (i < m => i * size <= left)
      /\ (m - 1) * size + Least(size, left - (m - 1) * size) = Least(left, MaxAgg * size)
  BY FilledLength
<1>2. b = [i \in 1..m |-> [seq |-> (first + i - 1) % TxSeqMod, time |-> time + (i - 1) * size,
                           n |-> Least(size, left - (i - 1) * size), session |-> s]]
  BY DEF Filled
<1>3. TxSeqMod \in Nat \ {0} BY TxStreamAssumption
<1> HIDE DEF m, b
<1>4. ASSUME NEW i \in 1..m
      PROVE  /\ (i - 1) * size \in Nat /\ Least(size, left - (i - 1) * size) \in Nat
             /\ i < m => Least(size, left - (i - 1) * size) = size
  <2>1. (i - 1) * size \in Nat /\ i * size = (i - 1) * size + size
    BY <1>1
  <2>2. (i - 1) * size < left /\ (i < m => i * size <= left)
    BY <1>1
  <2> QED BY <2>1, <2>2 DEF Least
<1>5. ASSUME NEW i \in 1..m
      PROVE  /\ (first + i - 1) % TxSeqMod \in Nat
             /\ (((first + i - 1) % TxSeqMod) + 1) % TxSeqMod = (first + i) % TxSeqMod
  <2> DEFINE j == first + i - 1
  <2>1. j \in Nat /\ j + 1 = first + i
    BY <1>1, <1>3
  <2> HIDE DEF j
  <2>2. ((j % TxSeqMod) + 1) % TxSeqMod = (j + 1) % TxSeqMod /\ j % TxSeqMod \in 0..(TxSeqMod - 1)
    BY <1>3, <2>1, ModSucc
  <2>3. j % TxSeqMod \in Nat
    BY <1>3, <2>2
  <2> QED BY <2>1, <2>2, <2>3 DEF j
<1>6. b \in Seq(Packet) /\ Len(b) = m
  <2>1. ASSUME NEW i \in 1..m
        PROVE  [seq |-> (first + i - 1) % TxSeqMod, time |-> time + (i - 1) * size,
                n |-> Least(size, left - (i - 1) * size), session |-> s] \in Packet
    <3>1. time + (i - 1) * size \in Nat BY <1>4
    <3> QED BY <1>4, <1>5, <3>1 DEF Packet
  <2>2. b \in [1..m -> Packet] BY <1>2, <2>1
  <2>3. m \in Nat BY <1>1
  <2> QED BY <2>2, <2>3
<1>7. \A i \in 1..m : /\ b[i].seq = (first + i - 1) % TxSeqMod /\ b[i].time = time + (i - 1) * size
                      /\ b[i].n = Least(size, left - (i - 1) * size) /\ b[i].session = s
  BY <1>2
<1>8. Chained(b)
  <2> SUFFICES ASSUME NEW i \in 1..(m - 1) PROVE Follows(b[i], b[i + 1])
    BY <1>6 DEF Chained
  <2>1. i \in 1..m /\ i + 1 \in 1..m /\ i < m /\ first + (i + 1) - 1 = first + i
        /\ ((i + 1) - 1) * size = (i - 1) * size + size
    BY <1>1, <1>3
  <2>2. b[i + 1].seq = (b[i].seq + 1) % TxSeqMod
    BY <1>5, <1>7, <2>1
  <2>3. b[i + 1].time = b[i].time + b[i].n
    BY <1>4, <1>7, <2>1
  <2> QED BY <2>2, <2>3 DEF Follows
<1>9. b[1].seq = first /\ b[1].time = time /\ b[1].session = s
  <2>1. first % TxSeqMod = first BY <1>3
  <2>2. 1 \in 1..m /\ first + 1 - 1 = first /\ time + (1 - 1) * size = time BY <1>1, <1>3
  <2> QED BY <1>7, <2>1, <2>2
<1>10. Last(b).session = s /\ Follows(Last(b), next)
  <2>1. m \in 1..m BY <1>1
  <2>2. next.seq = (b[m].seq + 1) % TxSeqMod
    BY <1>5, <1>6, <1>7, <2>1
  <2>3. next.time = b[m].time + b[m].n
    <3> DEFINE x == (m - 1) * size
               y == Least(size, left - (m - 1) * size)
    <3>1. x \in Nat /\ y \in Nat BY <1>4, <2>1
    <3>2. b[m].time = time + x /\ b[m].n = y BY <1>7, <2>1
    <3>3. next.time = time + Least(left, MaxAgg * size) /\ x + y = Least(left, MaxAgg * size)
      BY <1>1
    <3> HIDE DEF x, y, next
    <3>4. next.time = time + (x + y) BY <3>3
    <3> QED BY <3>1, <3>2, <3>4
  <2> QED BY <1>6, <1>7, <2>1, <2>2, <2>3 DEF Follows, Last
<1> QED BY <1>1, <1>6, <1>8, <1>9, <1>10 DEF b

-----------------------------------------------------------------------------
(* The line: a buffer is appended, or its first one is written or lost.       *)

LEMMA LastPacket ==
    ASSUME NEW s \in Seq(Packet), s # <<>>
    PROVE  Last(s) \in Packet /\ Last(s).session \in Nat
<1>1. Len(s) \in 1..Len(s) OBVIOUS
<1>2. s[Len(s)] \in Packet BY <1>1
<1> QED BY <1>2 DEF Last, Packet

LEMMA EntryParts ==
    ASSUME NEW w \in Seq(Entry), NEW i \in 1..Len(w)
    PROVE  w[i].lost \in Nat /\ w[i].p \in Packet /\ w[i].p.session \in Nat
<1>1. w[i] \in Entry OBVIOUS
<1> QED BY <1>1 DEF Entry, Packet

LEMMA TailOfLine ==
    ASSUME NEW line \in Seq(Seq(Packet)), line # <<>>
    PROVE  /\ Len(line) \in Nat \ {0} /\ Tail(line) \in Seq(Seq(Packet))
           /\ Len(line) = 1 => Tail(line) = <<>>
           /\ Len(line) > 1 => Tail(line) # <<>> /\ Tail(line)[1] = line[2]
<1>1. /\ Len(line) \in Nat \ {0} /\ Tail(line) \in Seq(Seq(Packet)) /\ Len(Tail(line)) = Len(line) - 1
      /\ \A i \in 1..(Len(line) - 1) : Tail(line)[i] = line[i + 1]
  OBVIOUS
<1>2. ASSUME Len(line) = 1 PROVE Tail(line) = <<>>
  <2>1. Len(Tail(line)) = 0 BY <1>1, <1>2
  <2> QED BY <1>1, <2>1, EmptySeq
<1>3. ASSUME Len(line) > 1 PROVE Tail(line) # <<>> /\ Tail(line)[1] = line[2]
  <2>1. 1 \in 1..(Len(line) - 1) /\ 1 + 1 = 2 BY <1>1, <1>3
  <2>2. Len(Tail(line)) # 0
    <3> DEFINE n == Len(line)
               t == Len(Tail(line))
    <3>1. n \in Nat /\ t = n - 1 /\ n > 1 BY <1>1, <1>3
    <3> HIDE DEF n, t
    <3>2. t # 0 BY <3>1
    <3> QED BY <3>2 DEF t
  <2>3. Tail(line) # <<>>
    <3>1. Len(<<>>) = 0 OBVIOUS
    <3> QED BY <2>2, <3>1
  <2>4. Tail(line)[1] = line[2] BY <1>1, <2>1
  <2> QED BY <2>3, <2>4
<1> QED BY <1>1, <1>2, <1>3

LEMMA LineGrows ==
    ASSUME NEW line \in Seq(Seq(Packet)), NEW b \in Seq(Packet), NEW a, NEW c,
           LineInv(line, a), b # <<>>, Chained(b), Last(b).session <= c.session,
           a.session \in Nat, c.session \in Nat, a.session <= c.session,
           b[1].seq = a.seq, b[1].time = a.time, b[1].session = a.session, Follows(Last(b), c)
    PROVE  LineInv(Append(line, b), c)
<1> DEFINE new == Append(line, b)
           n == Len(line)
<1>1. /\ n \in Nat /\ new \in Seq(Seq(Packet)) /\ Len(new) = n + 1 /\ new[n + 1] = b
      /\ \A i \in 1..n : new[i] = line[i]
  OBVIOUS
<1> HIDE DEF new, n
<1>2. ASSUME NEW i \in 1..n PROVE line[i] # <<>> /\ Chained(line[i]) /\ Last(line[i]).session <= c.session
  <2>1. line[i] # <<>> /\ Chained(line[i]) /\ Last(line[i]).session <= a.session
    BY DEF LineInv, FilledInv, n
  <2>2. Last(line[i]).session \in Nat
    BY <2>1, LastPacket DEF n
  <2> QED BY <2>1, <2>2
<1>3. FilledInv(new, c)
  <2> SUFFICES ASSUME NEW i \in 1..(n + 1)
               PROVE  new[i] # <<>> /\ Chained(new[i]) /\ Last(new[i]).session <= c.session
    BY <1>1 DEF FilledInv
  <2>1. CASE i \in 1..n BY <1>1, <1>2, <2>1
  <2>2. CASE i = n + 1 BY <1>1, <2>2
  <2> QED BY <1>1, <2>1, <2>2
<1>4. \A i \in 1..((n + 1) - 1) : Follows(Last(new[i]), new[i + 1][1])
  <2> SUFFICES ASSUME NEW i \in 1..n PROVE Follows(Last(new[i]), new[i + 1][1])
    BY <1>1
  <2>1. CASE i < n
    <3>1. i \in 1..(n - 1) /\ i + 1 \in 1..n BY <1>1, <2>1
    <3> QED BY <1>1, <3>1 DEF LineInv, JoinedInv, n
  <2>2. CASE i = n
    <3>1. line # <<>> /\ Last(line) = line[n] BY <1>1, <2>2 DEF n, Last
    <3>2. Follows(Last(line[n]), a) BY <3>1 DEF LineInv, JoinedInv
    <3> QED BY <1>1, <2>2, <3>2 DEF Follows
  <2> QED BY <1>1, <2>1, <2>2
<1>5. Last(new) = b BY <1>1 DEF Last
<1>6. JoinedInv(new, c)
  BY <1>1, <1>4, <1>5 DEF JoinedInv
<1> QED BY <1>3, <1>6 DEF LineInv, new

LEMMA LineShrinks ==
    ASSUME NEW line \in Seq(Seq(Packet)), NEW a, LineInv(line, a), line # <<>>
    PROVE  LineInv(Tail(line), a)
<1> DEFINE new == Tail(line)
           n == Len(line)
<1>1. /\ n \in Nat \ {0} /\ Len(new) = n - 1 /\ new \in Seq(Seq(Packet))
      /\ \A i \in 1..(n - 1) : new[i] = line[i + 1]
  OBVIOUS
<1> HIDE DEF new, n
<1>2. FilledInv(new, a)
  BY <1>1 DEF LineInv, FilledInv, n
<1>3. \A i \in 1..((n - 1) - 1) : Follows(Last(new[i]), new[i + 1][1])
  <2> SUFFICES ASSUME NEW i \in 1..((n - 1) - 1) PROVE Follows(Last(new[i]), new[i + 1][1])
    OBVIOUS
  <2>1. i + 1 \in 1..(n - 1) /\ i \in 1..(n - 1) BY <1>1
  <2>2. Follows(Last(line[i + 1]), line[(i + 1) + 1][1]) BY <2>1 DEF LineInv, JoinedInv, n
  <2> QED BY <1>1, <2>1, <2>2
<1>4. new # <<>> => Last(new) = Last(line)
  BY <1>1 DEF Last, n
<1> QED BY <1>1, <1>2, <1>3, <1>4 DEF LineInv, JoinedInv, new

\* Without a next packet of the same session only the sessions matter.
LEMMA LineRestarts ==
    ASSUME NEW line \in Seq(Seq(Packet)), NEW a, NEW c, LineInv(line, a),
           a.session \in Nat, c.session = a.session + 1
    PROVE  LineInv(line, c)
<1>1. ASSUME NEW i \in 1..Len(line)
      PROVE  Last(line[i]).session \in Nat /\ Last(line[i]).session <= a.session
  <2>1. line[i] \in Seq(Packet) /\ line[i] # <<>> /\ Last(line[i]).session <= a.session
    BY DEF LineInv, FilledInv
  <2> QED BY <2>1, LastPacket
<1>2. FilledInv(line, c)
  BY <1>1 DEF LineInv, FilledInv
<1>3. ASSUME line # <<>> PROVE Follows(Last(Last(line)), c)
  <2>1. Len(line) \in 1..Len(line) BY <1>3
  <2>2. Last(Last(line)).session # c.session BY <1>1, <2>1 DEF Last
  <2> QED BY <2>2 DEF Follows
<1> QED BY <1>2, <1>3 DEF LineInv, JoinedInv

-----------------------------------------------------------------------------
(* The wire: a buffer is written or lost, the line grows, a session begins.   *)

LEMMA WireWrites ==
    ASSUME NEW w \in Seq(Entry), NEW gone \in Nat, NEW line \in Seq(Seq(Packet)), NEW next,
           WireInv(w, gone, line, next), LineInv(line, next), line # <<>>
    PROVE  LET new == w \o [i \in 1..Len(line[1]) |-> [p |-> line[1][i], lost |-> gone]]
           IN  new \in Seq(Entry) /\ WireInv(new, gone, Tail(line), next)
<1> DEFINE b == line[1]
           m == Len(b)
           n == Len(w)
           add == [i \in 1..m |-> [p |-> b[i], lost |-> gone]]
           new == w \o add
<1>1. b \in Seq(Packet) /\ b # <<>> /\ Chained(b) /\ Last(b).session <= next.session
  BY DEF LineInv, FilledInv
<1>2. m \in Nat \ {0} /\ n \in Nat
  BY <1>1
<1> HIDE DEF b
<1>3. \A i \in 1..m : b[i] \in Packet /\ [p |-> b[i], lost |-> gone] \in Entry
  BY <1>1 DEF Entry
<1>4. add \in Seq(Entry) /\ Len(add) = m
  BY <1>2, <1>3
<1>5. \A i \in 1..m : add[i].p = b[i] /\ add[i].lost = gone
  OBVIOUS
<1> HIDE DEF add, m, n
<1>6. /\ new \in Seq(Entry) /\ Len(new) = n + m
      /\ \A i \in 1..n : new[i] = w[i]
      /\ \A i \in (n + 1)..(n + m) : new[i] = add[i - n]
  <2>1. /\ new \in Seq(Entry) /\ Len(new) = n + m
        /\ \A i \in 1..(n + m) : new[i] = IF i <= n THEN w[i] ELSE add[i - n]
    BY <1>4, ConcatProperties DEF n
  <2> HIDE DEF new
  <2> QED BY <1>2, <2>1
<1> HIDE DEF new
<1>7. \A i \in (n + 1)..(n + m) : i - n \in 1..m /\ new[i].p = b[i - n] /\ new[i].lost = gone
  <2> SUFFICES ASSUME NEW i \in (n + 1)..(n + m)
               PROVE  i - n \in 1..m /\ new[i].p = b[i - n] /\ new[i].lost = gone
    OBVIOUS
  <2>1. i - n \in 1..m BY <1>2
  <2>2. new[i] = add[i - n] BY <1>6
  <2> QED BY <1>5, <2>1, <2>2
<1>8. \A i \in 1..n : w[i].lost <= gone /\ w[i].lost \in Nat
  BY EntryParts DEF WireInv, EntriesInv, n
<1>9. Last(new) = new[n + m] /\ n + m \in (n + 1)..(n + m) /\ (n + m) - n = m
  BY <1>2, <1>6 DEF Last
<1>10. Last(new).p = Last(b)
  BY <1>7, <1>9 DEF Last, m
<1>11. EntriesInv(new, gone, next)
  <2>1. ASSUME NEW i \in 1..(n + m) PROVE new[i].lost <= gone
    <3>1. CASE i \in 1..n BY <1>6, <1>8, <3>1
    <3>2. CASE i \in (n + 1)..(n + m) BY <1>7, <3>2
    <3> QED BY <1>2, <3>1, <3>2
  <2> QED BY <1>1, <1>6, <1>10, <2>1 DEF EntriesInv
<1>12. Follows(Last(b), Upcoming(Tail(line), next))
  <2>1. CASE Len(line) = 1
    <3>1. Tail(line) = <<>> /\ Last(line) = b BY <2>1, TailOfLine DEF Last, b
    <3> QED BY <3>1 DEF LineInv, JoinedInv, Upcoming
  <2>2. CASE Len(line) > 1
    <3>1. Tail(line) # <<>> /\ Tail(line)[1] = line[2]
      BY <2>2, TailOfLine
    <3>2. 1 \in 1..(Len(line) - 1) /\ 1 + 1 = 2
      BY <2>2
    <3>3. Follows(Last(line[1]), line[2][1])
      BY <3>2 DEF LineInv, JoinedInv
    <3> QED BY <3>1, <3>3 DEF Upcoming, b
  <2>3. Len(line) \in Nat \ {0} BY TailOfLine
  <2> HIDE DEF b, new, add
  <2>4. \A k \in Nat \ {0} : k = 1 \/ k > 1 OBVIOUS
  <2> QED BY <2>1, <2>2, <2>3, <2>4
<1>13. SeamInv(new, gone, Upcoming(Tail(line), next))
  BY <1>10, <1>12 DEF SeamInv
<1>14. WrittenInv(new)
  <2>1. Len(new) = n + m BY <1>6
  <2>2. ASSUME NEW i \in 1..(Len(new) - 1), new[i].lost = new[i + 1].lost
        PROVE  Follows(new[i].p, new[i + 1].p)
    <3>0. i \in 1..(n + m - 1) BY <1>2, <2>1, <2>2
    <3>1. CASE i < n
      <4>1. i \in 1..(n - 1) /\ i \in 1..n /\ i + 1 \in 1..n BY <1>2, <3>0, <3>1
      <4> QED BY <1>6, <2>2, <4>1 DEF WireInv, WrittenInv, n
    <3>2. CASE i = n
      <4>1. i \in 1..n /\ i + 1 \in (n + 1)..(n + m) /\ (i + 1) - n = 1 BY <1>2, <3>0, <3>2
      <4>2. new[i] = w[n] /\ new[i + 1].p = b[1] /\ new[i + 1].lost = gone
        BY <1>6, <1>7, <3>2, <4>1
      <4>3. w # <<>> /\ Last(w) = w[n] BY <4>1 DEF n, Last
      <4> QED BY <2>2, <4>2, <4>3 DEF WireInv, SeamInv, Upcoming, b
    <3>3. CASE i > n
      <4>1. /\ i \in (n + 1)..(n + m) /\ i + 1 \in (n + 1)..(n + m)
            /\ (i + 1) - n = (i - n) + 1 /\ i - n \in 1..(m - 1)
        BY <1>2, <3>0, <3>3
      <4>2. Follows(b[i - n], b[(i - n) + 1])
        BY <1>1, <4>1 DEF Chained, m
      <4> QED BY <1>7, <4>1, <4>2
    <3> QED BY <1>2, <3>0, <3>1, <3>2, <3>3
  <2> QED BY <2>2 DEF WrittenInv
<1> QED BY <1>6, <1>11, <1>13, <1>14 DEF WireInv, new, add, m, b

LEMMA WireLoses ==
    ASSUME NEW w \in Seq(Entry), NEW gone \in Nat, NEW line, NEW other, NEW next,
           WireInv(w, gone, line, next)
    PROVE  WireInv(w, gone + 1, other, next)
<1>1. \A i \in 1..Len(w) : w[i].lost \in Nat /\ w[i].lost <= gone
  BY EntryParts DEF WireInv, EntriesInv
<1>2. EntriesInv(w, gone + 1, next)
  BY <1>1 DEF WireInv, EntriesInv
<1>3. w # <<>> => Last(w).lost # gone + 1
  <2>1. w # <<>> => Len(w) \in 1..Len(w) OBVIOUS
  <2> QED BY <1>1, <2>1 DEF Last
<1> QED BY <1>2, <1>3 DEF WireInv, SeamInv

LEMMA WireWaits ==
    ASSUME NEW w \in Seq(Entry), NEW gone \in Nat, NEW line \in Seq(Seq(Packet)),
           NEW b \in Seq(Packet), NEW a, NEW c, WireInv(w, gone, line, a),
           a.session = c.session, b[1].seq = a.seq, b[1].time = a.time, b[1].session = a.session
    PROVE  WireInv(w, gone, Append(line, b), c)
<1>1. EntriesInv(w, gone, c) BY DEF WireInv, EntriesInv
<1>2. SeamInv(w, gone, Upcoming(line, a)) BY DEF WireInv
<1>3. Append(line, b) # <<>> /\ Append(line, b)[1] = IF line = <<>> THEN b ELSE line[1]
  <2>1. /\ Append(line, b) # <<>> /\ Append(line, b)[Len(line) + 1] = b
        /\ \A i \in 1..Len(line) : Append(line, b)[i] = line[i]
    BY AppendProperties
  <2>2. CASE line = <<>>
    <3>1. Len(line) = 0 BY <2>2, EmptySeq
    <3> QED BY <2>1, <2>2, <3>1
  <2>3. CASE line # <<>>
    <3>1. 1 \in 1..Len(line) BY <2>3, EmptySeq
    <3> QED BY <2>1, <2>3, <3>1
  <2> QED BY <2>2, <2>3
<1>4. SeamInv(w, gone, Upcoming(Append(line, b), c))
  BY <1>2, <1>3 DEF SeamInv, Upcoming, Follows
<1> QED BY <1>1, <1>4 DEF WireInv

LEMMA WireRestarts ==
    ASSUME NEW w \in Seq(Entry), NEW gone \in Nat, NEW line, NEW a, NEW c,
           WireInv(w, gone, line, a), a.session \in Nat, c.session = a.session + 1
    PROVE  WireInv(w, gone, line, c)
<1>1. w # <<>> => Last(w).p.session \in Nat /\ Last(w).p.session <= a.session
  <2>1. w # <<>> => Len(w) \in 1..Len(w) OBVIOUS
  <2> QED BY <2>1, EntryParts DEF WireInv, EntriesInv, Last
<1>2. EntriesInv(w, gone, c) BY <1>1 DEF WireInv, EntriesInv
<1>3. SeamInv(w, gone, Upcoming(line, c))
  BY <1>1 DEF WireInv, SeamInv, Upcoming, Follows
<1> QED BY <1>2, <1>3 DEF WireInv

-----------------------------------------------------------------------------
(* The steps. *)

LEMMA LineTyped ==
    ASSUME LineTypes
    PROVE  /\ Line \in Seq(Seq(Packet)) /\ (writing = <<>> => Line = queue)
           /\ (writing # <<>> => worker.at = "write" /\ Line # <<>> /\ Line[1] = Head(writing)
                                 /\ Tail(Line) = queue)
<1>1. /\ queue \in Seq(Seq(Packet)) /\ writing \in Seq(Seq(Packet))
      /\ Len(writing) = IF worker.at = "write" THEN 1 ELSE 0
  BY DEF LineTypes
<1>2. Line \in Seq(Seq(Packet)) BY <1>1 DEF Line
<1>3. writing = <<>> => Line = queue BY <1>1 DEF Line
<1>4. ASSUME writing # <<>>
      PROVE  /\ worker.at = "write" /\ Line # <<>> /\ Line[1] = Head(writing)
             /\ Tail(Line) = queue
  <2>1. Len(writing) # 0 BY <1>1, <1>4, EmptySeq
  <2>2. worker.at = "write" /\ Len(writing) = 1 BY <1>1, <2>1
  <2>3. /\ Len(Line) = 1 + Len(queue) /\ Line[1] = writing[1]
        /\ \A i \in 1..Len(queue) : Line[i + 1] = queue[i]
    <3>1. /\ Len(Line) = 1 + Len(queue)
          /\ \A i \in 1..(1 + Len(queue)) : Line[i] = IF i <= 1 THEN writing[i] ELSE queue[i - 1]
      <4>1. /\ Len(Line) = Len(writing) + Len(queue)
            /\ \A i \in 1..(Len(writing) + Len(queue)) :
                  Line[i] = IF i <= Len(writing) THEN writing[i] ELSE queue[i - Len(writing)]
        BY <1>1, ConcatProperties DEF Line
      <4> QED BY <2>2, <4>1
    <3>2. Len(queue) \in Nat BY <1>1
    <3>3. \A i \in 1..Len(queue) : i + 1 \in 1..(1 + Len(queue)) /\ ~(i + 1 <= 1) /\ (i + 1) - 1 = i
      BY <3>2
    <3> QED BY <3>1, <3>2, <3>3
  <2>4. Head(writing) = writing[1] /\ Line # <<>>
    BY <1>1, <1>2, <2>2, <2>3
  <2>5. Tail(Line) = queue
    <3>1. /\ Len(Tail(Line)) = Len(queue) /\ Tail(Line) \in Seq(Seq(Packet))
          /\ \A i \in 1..Len(queue) : Tail(Line)[i] = queue[i]
      BY <1>1, <1>2, <2>3, <2>4
    <3> QED BY <1>1, <3>1, SeqEqual
  <2> QED BY <2>2, <2>3, <2>4, <2>5
<1> QED BY <1>2, <1>3, <1>4

LEMMA ConcatAppend ==
    ASSUME NEW s \in Seq(Seq(Packet)), NEW t \in Seq(Seq(Packet)), NEW x \in Seq(Packet)
    PROVE  s \o Append(t, x) = Append(s \o t, x)
<1>1. <<x>> \in Seq(Seq(Packet)) /\ s \o t \in Seq(Seq(Packet))
  BY ConcatProperties
<1>2. Append(t, x) = t \o <<x>> /\ Append(s \o t, x) = (s \o t) \o <<x>>
  BY <1>1, AppendIsConcat
<1> QED BY <1>1, <1>2, ConcatAssociative

LEMMA HeadFirst ==
    ASSUME NEW T, NEW s \in Seq(T), s # <<>>
    PROVE  <<Head(s)>> \o Tail(s) = s
<1>1. /\ Head(s) \in T /\ Tail(s) \in Seq(T) /\ <<Head(s)>> \in Seq(T)
      /\ Len(<<Head(s)>>) = 1 /\ Len(Tail(s)) = Len(s) - 1 /\ Head(s) = s[1]
      /\ \A i \in 1..(Len(s) - 1) : Tail(s)[i] = s[i + 1]
      /\ Len(s) \in Nat \ {0}
  BY EmptySeq
<1>2. /\ <<Head(s)>> \o Tail(s) \in Seq(T) /\ Len(<<Head(s)>> \o Tail(s)) = Len(s)
      /\ \A i \in 1..Len(s) :
            (<<Head(s)>> \o Tail(s))[i] = IF i <= 1 THEN <<Head(s)>>[i] ELSE Tail(s)[i - 1]
  <2>1. 1 + Len(Tail(s)) = Len(s) BY <1>1
  <2> QED BY <1>1, <2>1, ConcatProperties
<1>3. ASSUME NEW i \in 1..Len(s) PROVE (<<Head(s)>> \o Tail(s))[i] = s[i]
  <2>1. CASE i = 1 BY <1>1, <1>2, <2>1
  <2>2. CASE i > 1
    <3>1. i - 1 \in 1..(Len(s) - 1) /\ (i - 1) + 1 = i /\ ~(i <= 1) BY <1>1, <2>2
    <3> QED BY <1>1, <1>2, <3>1
  <2> QED BY <1>1, <2>1, <2>2
<1> QED BY <1>2, <1>3, SeqEqual

\* A step that moves neither buffers nor time stamps.
LEMMA NothingMoves ==
    ASSUME OrderInv, SendTypes', LineTypes',
           UNCHANGED <<queue, writing, nextSeq, session, wire>>,
           tally'.lost = tally.lost, clock' + done' = clock + done
    PROVE  OrderInv'
<1>1. Line' = Line /\ NextUp' = NextUp BY DEF Line, NextUp
<1>2. wire' = wire OBVIOUS
<1> QED BY <1>1, <1>2 DEF OrderInv

TallyTypes == tally \in [sends: Nat, ops: Nat, bad: Nat, lost: Nat]

LEMMA BoundsKeepTypes ==
    ASSUME SendTypes, Op \/ Bad \/ OpBad
    PROVE  TallyTypes' /\ tally'.lost = tally.lost
<1>1. TallyTypes BY DEF SendTypes, TallyTypes
<1>2. CASE Op BY <1>1, <1>2 DEF Op, TallyTypes
<1>3. CASE Bad BY <1>1, <1>3 DEF Bad, TallyTypes
<1>4. CASE OpBad
  <2>1. tally.ops + 1 \in Nat /\ tally.bad + 1 \in Nat BY <1>1 DEF TallyTypes
  <2>2. tally' = [tally EXCEPT !.ops = tally.ops + 1, !.bad = tally.bad + 1]
    BY <1>4 DEF OpBad
  <2> QED BY <1>1, <2>1, <2>2 DEF TallyTypes
<1> QED BY <1>2, <1>3, <1>4

LEMMA ControlOrder ==
    ASSUME TxInv, OrderInv, Control
    PROVE  OrderInv'
<1>1. SendTypes /\ LineTypes BY DEF OrderInv
<1>2. CASE Start
  <2>1. /\ sender \in {"idle", "callback"} /\ sender' = sender /\ nextSeq' = 0 /\ session' = session + 1
        /\ UNCHANGED <<perPacket, writing, todo, done, clock, wire>> /\ (Op \/ OpBad)
    BY <1>2 DEF Start, Unlocked
  <2>2. queue' = queue /\ (worker'.at = "write" <=> worker.at = "write")
    <3>1. CASE worker.at = "none"
      <4>1. queue = <<>> BY <3>1 DEF TxInv, WorkerEmpty
      <4>2. worker' = [at |-> "wait", stop |-> FALSE] /\ queue' = <<>> BY <1>2, <3>1 DEF Start
      <4> QED BY <3>1, <4>1, <4>2
    <3>2. CASE worker.at # "none" BY <1>2, <3>2 DEF Start
    <3> QED BY <3>1, <3>2
  <2>3. SendTypes' /\ tally'.lost = tally.lost
    <3>1. 0 \in 0..(TxSeqMod - 1) BY TxStreamAssumption
    <3> QED BY <1>1, <2>1, <3>1, BoundsKeepTypes DEF SendTypes, TallyTypes
  <2>4. LineTypes' BY <1>1, <2>1, <2>2 DEF LineTypes
  <2>5. Line' = Line BY <2>1, <2>2 DEF Line
  <2>6. NextUp.session \in Nat /\ NextUp'.session = NextUp.session + 1
    BY <1>1, <2>1 DEF NextUp, SendTypes
  <2>7. tally.lost \in Nat /\ wire \in Seq(Entry) /\ Line \in Seq(Seq(Packet))
    BY <1>1, LineTyped DEF SendTypes, LineTypes
  <2>8. LineInv(Line, NextUp') BY <2>6, <2>7, LineRestarts DEF OrderInv
  <2>9. WireInv(wire, tally.lost, Line, NextUp') BY <2>6, <2>7, WireRestarts DEF OrderInv
  <2> QED BY <2>1, <2>3, <2>4, <2>5, <2>8, <2>9 DEF OrderInv
<1>3. ASSUME NEW spp \in PacketSizes, Configure(spp) PROVE OrderInv'
  <2>1. /\ perPacket' = spp /\ (Op \/ OpBad)
        /\ UNCHANGED <<sender, nextSeq, worker, queue, writing, todo, done, clock, wire, session>>
    BY <1>3 DEF Configure
  <2>2. SendTypes' /\ tally'.lost = tally.lost BY <1>1, <2>1, BoundsKeepTypes DEF SendTypes, TallyTypes
  <2>3. LineTypes' BY <1>1, <2>1 DEF LineTypes
  <2> QED BY <2>1, <2>2, <2>3, NothingMoves
<1>4. CASE Stop
  <2>1. /\ worker'.at = worker.at /\ Op
        /\ UNCHANGED <<sender, nextSeq, perPacket, queue, writing, todo, done, clock, wire, session>>
    BY <1>4 DEF Stop, TxInv, FlagTypes
  <2>2. SendTypes' /\ tally'.lost = tally.lost BY <1>1, <2>1, BoundsKeepTypes DEF SendTypes, TallyTypes
  <2>3. LineTypes' BY <1>1, <2>1 DEF LineTypes
  <2> QED BY <2>1, <2>2, <2>3, NothingMoves
<1>5. CASE StopJoin
  <2>1. UNCHANGED <<sender, nextSeq, perPacket, worker, queue, writing, todo, done, clock, wire, session, tally>>
    BY <1>5 DEF StopJoin
  <2>2. SendTypes' /\ LineTypes' BY <1>1, <2>1 DEF SendTypes, LineTypes
  <2> QED BY <2>1, <2>2, NothingMoves
<1>6. CASE StopSource
  <2>1. /\ UNCHANGED <<sender, nextSeq, perPacket, worker, queue, writing, todo, done, clock, wire, session>>
        /\ (UNCHANGED tally \/ Bad)
    BY <1>6 DEF StopSource
  <2>2. SendTypes' /\ tally'.lost = tally.lost BY <1>1, <2>1, BoundsKeepTypes DEF SendTypes, TallyTypes
  <2>3. LineTypes' BY <1>1, <2>1 DEF LineTypes
  <2> QED BY <2>1, <2>2, <2>3, NothingMoves
<1> QED BY <1>2, <1>3, <1>4, <1>5, <1>6 DEF Control

LEMMA SenderOrder ==
    ASSUME TxInv, OrderInv, Sender \/ \E n \in Lengths : Send(n)
    PROVE  OrderInv'
<1>1. SendTypes /\ LineTypes BY DEF OrderInv
<1>2. ASSUME NEW n \in Lengths, Send(n) PROVE OrderInv'
  <2>1. /\ sender = "idle" /\ sender' = "loop" /\ todo' = n /\ done' = 0 /\ n \in Nat
        /\ tally' = [tally EXCEPT !.sends = @ + 1]
        /\ UNCHANGED <<nextSeq, perPacket, worker, queue, writing, clock, wire, session>>
    BY <1>2, TxStreamAssumption DEF Send
  <2>2. SendTypes' /\ tally'.lost = tally.lost BY <1>1, <2>1 DEF SendTypes
  <2>3. LineTypes' BY <1>1, <2>1 DEF LineTypes
  <2>4. done = 0 BY <1>1, <2>1 DEF SendTypes
  <2> QED BY <2>1, <2>2, <2>3, <2>4, NothingMoves
<1>3. CASE FillBuffer
  <2> DEFINE n == Least(todo, MaxAgg * perPacket)
  <2>1. /\ sender = "loop" /\ sender' = "loop" /\ todo > 0 /\ queue' = Append(queue, Buffer)
        /\ nextSeq' = (nextSeq + Len(Buffer)) % TxSeqMod /\ todo' = todo - n /\ done' = done + n
        /\ UNCHANGED <<perPacket, worker, writing, clock, wire, session, tally>>
    BY <1>3 DEF FillBuffer
  <2>2. /\ todo \in Nat \ {0} /\ perPacket \in Nat \ {0} /\ MaxAgg \in Nat \ {0} /\ TxSeqMod \in Nat \ {0}
        /\ clock \in Nat /\ done \in Nat /\ session \in Nat /\ nextSeq \in 0..(TxSeqMod - 1)
        /\ tally.lost \in Nat
    BY <1>1, <2>1, TxStreamAssumption DEF SendTypes
  <2>3. n \in Nat /\ n <= todo
    <3>1. MaxAgg * perPacket \in Nat BY <2>2
    <3> QED BY <2>2, <3>1 DEF Least
  <2> HIDE DEF n
  <2>4. Buffer = Filled(nextSeq, clock + done, perPacket, todo, session)
    BY DEF Buffer, Filled, Stamp
  <2>5. NextUp' = [seq |-> (nextSeq + Len(Buffer)) % TxSeqMod, time |-> (clock + done) + n,
                   session |-> session]
    <3>1. clock + (done + n) = (clock + done) + n BY <2>2, <2>3
    <3> QED BY <2>1, <3>1 DEF NextUp
  <2>6. /\ Buffer \in Seq(Packet) /\ Len(Buffer) \in Nat \ {0} /\ Chained(Buffer)
        /\ Buffer[1].seq = nextSeq /\ Buffer[1].time = clock + done /\ Buffer[1].session = session
        /\ Last(Buffer).session = session /\ Follows(Last(Buffer), NextUp')
    <3>1. clock + done \in Nat BY <2>2
    <3> QED BY <2>2, <2>4, <2>5, <3>1, FilledChain DEF n
  <2>7. NextUp.seq = nextSeq /\ NextUp.time = clock + done /\ NextUp.session = session /\ NextUp'.session = session
    BY <2>1 DEF NextUp
  <2>8. Line \in Seq(Seq(Packet)) /\ wire \in Seq(Entry) /\ Buffer # <<>>
    BY <1>1, <2>6, LineTyped DEF LineTypes
  <2>9. Line' = Append(Line, Buffer)
    BY <1>1, <2>1, <2>6, ConcatAppend DEF Line, LineTypes
  <2>10. LineInv(Append(Line, Buffer), NextUp')
    <3>1. session <= session BY <2>2
    <3> QED BY <2>2, <2>6, <2>7, <2>8, <3>1, LineGrows DEF OrderInv
  <2>11. WireInv(wire, tally.lost, Append(Line, Buffer), NextUp')
    BY <2>2, <2>6, <2>7, <2>8, WireWaits DEF OrderInv
  <2>12. SendTypes'
    <3>1. nextSeq' \in 0..(TxSeqMod - 1)
      <4>1. nextSeq + Len(Buffer) \in Nat BY <2>2, <2>6
      <4> QED BY <2>1, <2>2, <4>1, ModSucc
    <3>2. todo' \in Nat /\ done' \in Nat BY <2>1, <2>2, <2>3
    <3> QED BY <1>1, <2>1, <3>1, <3>2 DEF SendTypes
  <2>13. LineTypes' BY <1>1, <2>1, <2>6 DEF LineTypes
  <2> QED BY <2>1, <2>9, <2>10, <2>11, <2>12, <2>13 DEF OrderInv
<1>4. CASE LoopEnds
  <2>1. /\ clock' = clock + done /\ todo' = 0 /\ done' = 0
        /\ UNCHANGED <<nextSeq, perPacket, worker, queue, writing, wire, session, tally>>
    BY <1>4 DEF LoopEnds, Advance
  <2>2. SendTypes' /\ clock' + done' = clock + done BY <1>1, <2>1 DEF SendTypes
  <2>3. LineTypes' BY <1>1, <2>1 DEF LineTypes
  <2> QED BY <2>1, <2>2, <2>3, NothingMoves
<1>5. CASE Relatch \/ Callback
  <2>1. /\ sender # "loop" /\ (UNCHANGED tally \/ Bad)
        /\ UNCHANGED <<nextSeq, perPacket, worker, queue, writing, todo, done, clock, wire, session>>
    BY <1>5 DEF Relatch, Callback
  <2>2. SendTypes' /\ tally'.lost = tally.lost BY <1>1, <2>1, BoundsKeepTypes DEF SendTypes, TallyTypes
  <2>3. LineTypes' BY <1>1, <2>1 DEF LineTypes
  <2> QED BY <2>1, <2>2, <2>3, NothingMoves
<1> QED BY <1>2, <1>3, <1>4, <1>5 DEF Sender

LEMMA WorkerOrder ==
    ASSUME TxInv, OrderInv, Worker
    PROVE  OrderInv'
<1>1. SendTypes /\ LineTypes /\ worker \in [at: {"none", "wait", "write"}, stop: BOOLEAN]
  BY DEF OrderInv, TxInv, FlagTypes
<1>2. CASE WorkerTake
  <2>1. /\ worker.at = "wait" /\ worker'.at = "write" /\ queue # <<>>
        /\ writing' = <<Head(queue)>> /\ queue' = Tail(queue)
        /\ UNCHANGED <<sender, nextSeq, perPacket, todo, done, clock, wire, session, tally>>
    BY <1>1, <1>2 DEF WorkerTake
  <2>2. writing = <<>> BY <2>1 DEF TxInv, WorkerEmpty
  <2>3. queue \in Seq(Seq(Packet)) BY <1>1 DEF LineTypes
  <2>4. Head(queue) \in Seq(Packet) /\ Tail(queue) \in Seq(Seq(Packet))
    BY <2>1, <2>3, EmptySeq
  <2>5. LineTypes'
    BY <1>1, <2>1, <2>4 DEF LineTypes
  <2>6. SendTypes' BY <1>1, <2>1 DEF SendTypes
  <2>7. Line' = Line
    <3>1. Line = queue BY <1>1, <2>2, LineTyped
    <3>2. writing' # <<>> BY <2>1
    <3>3. Line' = <<Head(queue)>> \o Tail(queue) BY <2>1 DEF Line
    <3>4. <<Head(queue)>> \o Tail(queue) = queue BY <2>1, <2>3, HeadFirst
    <3> QED BY <3>1, <3>3, <3>4
  <2>8. NextUp' = NextUp BY <2>1 DEF NextUp
  <2> QED BY <2>1, <2>5, <2>6, <2>7, <2>8 DEF OrderInv
<1>3. CASE WorkerExit
  <2>1. /\ worker.at = "wait" /\ worker'.at = "none"
        /\ UNCHANGED <<sender, nextSeq, perPacket, queue, writing, todo, done, clock, wire, session, tally>>
    BY <1>1, <1>3 DEF WorkerExit
  <2>2. SendTypes' /\ LineTypes' BY <1>1, <2>1 DEF SendTypes, LineTypes
  <2> QED BY <2>1, <2>2, NothingMoves
<1>4. CASE WorkerWrite
  <2> DEFINE b == Head(writing)
             w == wire \o [i \in 1..Len(b) |-> [p |-> b[i], lost |-> tally.lost]]
  <2>1. /\ worker.at = "write" /\ worker'.at = "wait" /\ writing' = <<>>
        /\ UNCHANGED <<sender, nextSeq, perPacket, queue, todo, done, clock, session>>
    BY <1>1, <1>4 DEF WorkerWrite
  <2>2. writing # <<>>
    <3>1. Len(writing) = 1 BY <1>1, <2>1 DEF LineTypes
    <3> QED BY <3>1
  <2>3. /\ Line \in Seq(Seq(Packet)) /\ Line # <<>> /\ Line[1] = b /\ Tail(Line) = queue
    BY <1>1, <2>2, LineTyped
  <2>4. tally.lost \in Nat /\ wire \in Seq(Entry) BY <1>1 DEF SendTypes, LineTypes
  <2>5. NextUp' = NextUp BY <2>1 DEF NextUp
  <2>6. Line' = Tail(Line)
    <3>1. Line' = <<>> \o queue BY <2>1 DEF Line
    <3>2. queue \in Seq(Seq(Packet)) BY <1>1 DEF LineTypes
    <3> QED BY <2>3, <3>1, <3>2, ConcatEmptySeq
  <2>7. LineInv(Tail(Line), NextUp) BY <2>3, LineShrinks DEF OrderInv
  <2>8. CASE wire' = w /\ UNCHANGED tally
    <3>1. w \in Seq(Entry) /\ WireInv(w, tally.lost, Tail(Line), NextUp)
      BY <2>3, <2>4, WireWrites DEF OrderInv
    <3> HIDE DEF w
    <3>2. SendTypes' BY <1>1, <2>1, <2>8 DEF SendTypes
    <3>3. LineTypes' BY <1>1, <2>1, <2>8, <3>1, EmptySeq DEF LineTypes
    <3>4. wire' = w /\ tally' = tally BY <2>8
    <3> QED BY <2>5, <2>6, <2>7, <3>1, <3>2, <3>3, <3>4 DEF OrderInv
  <2>9. CASE UNCHANGED wire /\ tally' = [tally EXCEPT !.bad = @ + 1, !.lost = @ + 1]
    <3>1. tally'.lost = tally.lost + 1 /\ TallyTypes'
      <4>1. TallyTypes BY <1>1 DEF SendTypes, TallyTypes
      <4>2. tally.bad + 1 \in Nat /\ tally.lost + 1 \in Nat BY <4>1 DEF TallyTypes
      <4>3. tally' = [tally EXCEPT !.bad = tally.bad + 1, !.lost = tally.lost + 1] BY <2>9
      <4> QED BY <4>1, <4>2, <4>3 DEF TallyTypes
    <3>2. WireInv(wire, tally.lost + 1, Tail(Line), NextUp)
      BY <2>4, WireLoses DEF OrderInv
    <3>3. SendTypes' BY <1>1, <2>1, <2>9, <3>1 DEF SendTypes, TallyTypes
    <3>4. LineTypes' BY <1>1, <2>1, <2>9, EmptySeq DEF LineTypes
    <3>5. wire' = wire BY <2>9
    <3> QED BY <2>5, <2>6, <2>7, <3>1, <3>2, <3>3, <3>4, <3>5 DEF OrderInv
  <2> QED BY <1>4, <2>8, <2>9 DEF WorkerWrite
<1> QED BY <1>2, <1>3, <1>4 DEF Worker

\* What the device receives of a session is one stretch of numbers and time
\* stamps, over buffers, sends, timeouts, failed relatches and changes of the
\* packet size, except where a write failed (send_impl, fill_packet).
THEOREM WrittenInOrder == TxSpec => []WireInOrder
<1>1. TxInv /\ OrderInv /\ [TxNext]_txVars => OrderInv'
  <2>1. ASSUME OrderInv, UNCHANGED txVars PROVE OrderInv'
    <3>1. SendTypes' /\ LineTypes' BY <2>1 DEF txVars, OrderInv, SendTypes, LineTypes
    <3> QED BY <2>1, <3>1, NothingMoves DEF txVars
  <2> QED BY <2>1, ControlOrder, SenderOrder, WorkerOrder DEF TxNext
<1>2. OrderInv => WireInOrder
  BY DEF OrderInv, WireInv, WrittenInv, Follows, WireInOrder
<1> QED BY InitOrder, TxInvHolds, <1>1, <1>2, PTL DEF TxSpec

-----------------------------------------------------------------------------
(* M300Control: which command an answer is given to.                          *)

\* The control device never holds more packets than there are numbers.
FewerThanNumbers == Len(requests) + Len(answers) <= SeqValues

LogEntry == [by: Procs, kind: {"discover", "version", "command"}, seq: Nat, session: Nat, answer: Nat]
Arrived == [of: Nat, ok: BOOLEAN]
RequestTypes ==
    /\ log \in Seq(LogEntry) /\ requests \in Seq(Nat) /\ answers \in Seq(Arrived)
    /\ mine \in [Procs -> Nat] /\ seq \in [Procs -> 0..(SeqValues - 1)] /\ sessions \in Nat

\* The requests whose answers are still to be read, the next one first.
Of(a) == [i \in 1..Len(a) |-> a[i].of]
Way == Of(answers) \o requests

\* The commands of session s, and how many of the session have returned: t of
\* them before each command, n by now.
Commands(l, s) == {d \in 1..Len(l) : l[d].kind # "discover" /\ l[d].session = s}
Counts(l, s, t, n) ==
    /\ \A d \in Commands(l, s) :
          /\ t[d] \in Nat /\ t[d] <= n /\ l[d].seq = t[d] % SeqValues
          /\ l[d].answer # 0 => t[d] + 1 <= n
    /\ \A d, e \in Commands(l, s) :
          d < e => t[d] <= t[e] /\ (l[d].answer # 0 => t[d] + 1 <= t[e])
\* Each that returned since a command was sent took an answer ahead of its own.
Ahead(l, s, w, t, n) ==
    \A j \in 1..Len(w) : w[j] \in Commands(l, s) => n + j <= SeqValues + t[w[j]]
Turns(l, s, q, w, t, n) ==
    n \in Nat /\ q = n % SeqValues /\ Counts(l, s, t, n) /\ Ahead(l, s, w, t, n)

WayInv(w, l) ==
    /\ \A i \in 1..Len(w) : w[i] \in 1..Len(l)
    /\ \A i, j \in 1..Len(w) : i < j => w[i] < w[j]
    /\ \A e \in 1..Len(l), j \in 1..Len(w) : l[e].answer < w[j]
LogInv(l, s) ==
    /\ \A i, j \in 1..Len(l) : i < j => l[i].session <= l[j].session
    /\ \A i \in 1..Len(l) :
          /\ l[i].session <= s /\ l[i].answer <= Len(l)
          /\ l[i].kind = "discover" => l[i].answer = 0

Before(l, c) == {e \in 1..(c - 1) : l[e].answer # 0 /\ l[e].session = l[c].session}
Excused(l, c, d) ==
    /\ d < c
    /\ l[d].session = l[c].session => l[d].answer = 0 /\ \A e \in Before(l, c) : e < d
    /\ l[d].session # l[c].session =>
          \A e \in Before(l, c) : l[l[e].answer].session # l[c].session
AnswersInv(l) ==
    \A c \in 1..Len(l) : l[c].answer # 0 /\ l[c].answer # c => Excused(l, c, l[c].answer)

\* A process waits for the last command there is.
Newest(l, s, q, c) ==
    /\ c \in Commands(l, s) /\ l[c].seq = q /\ l[c].answer = 0
    /\ \A e \in 1..Len(l) : e > c => l[e].kind = "discover"
WaitInv == \A p \in Procs : ppc[p] = "waiting" => Newest(log, sessions, seq[p], mine[p])

PipeInv ==
    WayInv(Way, log) /\ LogInv(log, sessions) /\ AnswersInv(log)
TurnsInv ==
    lease # Nobody => \E t, n : Turns(log, sessions, seq[lease], Way, t, n)
AnswerInv == RequestTypes /\ LeaseInv /\ WaitInv /\ PipeInv /\ TurnsInv

LEMMA ModEqual ==
    ASSUME NEW m \in Nat \ {0}, NEW a \in Nat, NEW b \in Nat, a <= b, b < a + m, a % m = b % m
    PROVE  a = b
<1> DEFINE q == a \div m
           r == b \div m
<1>1. q \in Nat /\ r \in Nat /\ a = m * q + (a % m) /\ b = m * r + (b % m) /\ a % m \in Nat
  OBVIOUS
<1>2. ASSUME NEW x \in Nat, NEW y \in Nat, x < y PROVE m * x + m <= m * y
  <2>1. x + 1 <= y BY <1>2
  <2> QED BY <2>1
<1> HIDE DEF q, r
<1>3. ~(q < r)
  <2>1. q < r => m * q + m <= m * r BY <1>1, <1>2
  <2> QED BY <1>1, <2>1
<1>4. ~(r < q)
  <2>1. r < q => m * r + m <= m * q BY <1>1, <1>2
  <2> QED BY <1>1, <2>1
<1> QED BY <1>1, <1>3, <1>4

-----------------------------------------------------------------------------
(* The head of what is on its way is read.                                    *)

LEMMA WayShrinks ==
    ASSUME NEW w \in Seq(Nat), w # <<>>, NEW l, WayInv(w, l)
    PROVE  /\ WayInv(Tail(w), l) /\ w[1] \in 1..Len(l) /\ 1 \in 1..Len(w)
           /\ Len(Tail(w)) = Len(w) - 1
           /\ \A j \in 1..Len(Tail(w)) :
                 Tail(w)[j] = w[j + 1] /\ j + 1 \in 1..Len(w) /\ w[1] < Tail(w)[j]
<1>1. /\ Len(w) \in Nat \ {0} /\ Len(Tail(w)) = Len(w) - 1
      /\ \A j \in 1..(Len(w) - 1) : Tail(w)[j] = w[j + 1]
  BY EmptySeq
<1>2. \A j \in 1..(Len(w) - 1) : j + 1 \in 1..Len(w) /\ 1 < j + 1
  BY <1>1
<1>3. 1 \in 1..Len(w) BY <1>1
<1>4. \A j \in 1..(Len(w) - 1) : w[1] < w[j + 1]
  BY <1>2, <1>3 DEF WayInv
<1>5. WayInv(Tail(w), l)
  <2>1. \A i \in 1..(Len(w) - 1) : w[i + 1] \in 1..Len(l) BY <1>2 DEF WayInv
  <2>2. \A i, j \in 1..(Len(w) - 1) : i < j => w[i + 1] < w[j + 1]
    <3>1. \A i, j \in 1..(Len(w) - 1) : i < j => i + 1 < j + 1 OBVIOUS
    <3> QED BY <1>2, <3>1 DEF WayInv
  <2>3. \A e \in 1..Len(l), j \in 1..(Len(w) - 1) : l[e].answer < w[j + 1] BY <1>2 DEF WayInv
  <2> QED BY <1>1, <2>1, <2>2, <2>3 DEF WayInv
<1>6. w[1] \in 1..Len(l) BY <1>3 DEF WayInv
<1> QED BY <1>1, <1>2, <1>3, <1>4, <1>5, <1>6

LEMMA TurnsShrink ==
    ASSUME NEW w \in Seq(Nat), w # <<>>, NEW l, NEW s, NEW q, NEW t, NEW n, WayInv(w, l),
           l \in Seq(LogEntry), Turns(l, s, q, w, t, n)
    PROVE  Turns(l, s, q, Tail(w), t, n)
<1> SUFFICES ASSUME NEW j \in 1..Len(Tail(w)), Tail(w)[j] \in Commands(l, s)
             PROVE  n + j <= SeqValues + t[Tail(w)[j]]
  BY DEF Turns, Ahead
<1>1. Tail(w)[j] = w[j + 1] /\ j + 1 \in 1..Len(w) BY WayShrinks
<1>2. n + (j + 1) <= SeqValues + t[w[j + 1]] BY <1>1 DEF Turns, Ahead
<1>3. n \in Nat /\ SeqValues \in Nat /\ j \in Nat /\ t[w[j + 1]] \in Nat
  BY <1>1, ControlAssumption DEF Turns, Counts
<1> QED BY <1>1, <1>2, <1>3

-----------------------------------------------------------------------------
(* A request is sent.                                                         *)

Sent(l, k, r) ==
    /\ Len(k) = Len(l) + 1 /\ k[Len(l) + 1] = r
    /\ \A i \in 1..Len(l) : k[i] = l[i]

LEMMA SentParts ==
    ASSUME NEW l \in Seq(LogEntry), NEW r \in LogEntry
    PROVE  LET k == Append(l, r) IN k \in Seq(LogEntry) /\ Sent(l, k, r)
BY DEF Sent

LEMMA EntryOfLog ==
    ASSUME NEW l \in Seq(LogEntry), NEW i \in 1..Len(l)
    PROVE  /\ l[i].seq \in Nat /\ l[i].session \in Nat /\ l[i].answer \in Nat /\ l[i] \in LogEntry
           /\ i \in Nat /\ Len(l) \in Nat
<1>1. l[i] \in LogEntry /\ Len(l) \in Nat OBVIOUS
<1> QED BY <1>1 DEF LogEntry

LEMMA SentLog ==
    ASSUME NEW l \in Seq(LogEntry), NEW k \in Seq(LogEntry), NEW r \in LogEntry, Sent(l, k, r),
           NEW s \in Nat, LogInv(l, s), AnswersInv(l), r.session = s, r.answer = 0
    PROVE  LogInv(k, s) /\ AnswersInv(k)
<1> DEFINE n == Len(l)
<1>1. /\ n \in Nat /\ Len(k) = n + 1 /\ k[n + 1] = r /\ \A i \in 1..n : k[i] = l[i]
      /\ \A i \in 1..(n + 1) : i \in 1..n \/ i = n + 1
  BY DEF Sent
<1>2. \A i \in 1..n : /\ l[i].session \in Nat /\ l[i].answer \in Nat /\ l[i].session <= s
                      /\ l[i].answer <= n /\ (l[i].kind = "discover" => l[i].answer = 0)
  BY EntryOfLog DEF LogInv
<1>3. \A i, j \in 1..n : i < j => l[i].session <= l[j].session
  BY DEF LogInv
<1> HIDE DEF n
<1>4. LogInv(k, s)
  <2>1. ASSUME NEW i \in 1..(n + 1), NEW j \in 1..(n + 1), i < j
        PROVE  k[i].session <= k[j].session
    <3>1. i \in 1..n BY <1>1, <2>1
    <3>2. CASE j \in 1..n BY <1>1, <1>3, <2>1, <3>1, <3>2
    <3>3. CASE j = n + 1 BY <1>1, <1>2, <3>1, <3>3
    <3> QED BY <1>1, <3>2, <3>3
  <2>2. ASSUME NEW i \in 1..(n + 1)
        PROVE  /\ k[i].session <= s /\ k[i].answer <= n + 1
               /\ k[i].kind = "discover" => k[i].answer = 0
    <3>1. CASE i \in 1..n
      <4>1. l[i].answer <= n + 1 BY <1>1, <1>2, <3>1
      <4> QED BY <1>1, <1>2, <3>1, <4>1
    <3>2. CASE i = n + 1 BY <1>1, <3>2
    <3> QED BY <1>1, <3>1, <3>2
  <2> QED BY <1>1, <2>1, <2>2 DEF LogInv
<1>5. AnswersInv(k)
  <2> SUFFICES ASSUME NEW c \in 1..(n + 1), k[c].answer # 0, k[c].answer # c
               PROVE  Excused(k, c, k[c].answer)
    BY <1>1 DEF AnswersInv
  <2>1. c \in 1..n BY <1>1
  <2> DEFINE d == l[c].answer
  <2>2. k[c] = l[c] /\ Excused(l, c, d)
    BY <1>1, <2>1 DEF AnswersInv, n
  <2>3. d \in 1..n /\ d < c BY <1>1, <1>2, <2>1, <2>2 DEF Excused
  <2>4. \A e \in 1..(c - 1) : e \in 1..n /\ k[e] = l[e] BY <1>1, <2>1
  <2>5. Before(k, c) = Before(l, c) BY <2>2, <2>4 DEF Before
  <2>6. ASSUME NEW e \in Before(l, c) PROVE k[k[e].answer] = l[l[e].answer]
    <3>1. e \in 1..n /\ k[e] = l[e] /\ l[e].answer # 0 BY <2>4 DEF Before
    <3>2. l[e].answer \in 1..n BY <1>1, <1>2, <3>1
    <3> QED BY <1>1, <3>1, <3>2
  <2>7. k[d] = l[d] BY <1>1, <2>3
  <2> QED BY <2>2, <2>5, <2>6, <2>7 DEF Excused
<1> QED BY <1>4, <1>5

LEMMA SentWay ==
    ASSUME NEW l \in Seq(LogEntry), NEW k \in Seq(LogEntry), NEW r \in LogEntry, Sent(l, k, r),
           NEW s \in Nat, LogInv(l, s), r.answer = 0, NEW w \in Seq(Nat), WayInv(w, l)
    PROVE  WayInv(w, k) /\ WayInv(Append(w, Len(l) + 1), k)
<1> DEFINE n == Len(l)
           m == Len(w)
           v == Append(w, Len(l) + 1)
<1>1. /\ n \in Nat /\ m \in Nat /\ Len(k) = n + 1 /\ k[n + 1] = r /\ \A i \in 1..n : k[i] = l[i]
      /\ \A i \in 1..(n + 1) : i \in 1..n \/ i = n + 1
  BY DEF Sent
<1>2. /\ \A i \in 1..m : w[i] \in 1..n
      /\ \A i, j \in 1..m : i < j => w[i] < w[j]
      /\ \A e \in 1..n, j \in 1..m : l[e].answer < w[j]
  BY DEF WayInv
<1>3. Len(v) = m + 1 /\ v[m + 1] = n + 1 /\ \A i \in 1..m : v[i] = w[i]
  <2>1. n + 1 \in Nat OBVIOUS
  <2> QED BY <2>1, AppendProperties
<1>4. \A i \in 1..n : l[i].answer \in Nat /\ l[i].answer <= n
  BY EntryOfLog DEF LogInv
<1> HIDE DEF n, m, v
<1>5. \A e \in 1..(n + 1) : (\A j \in 1..m : k[e].answer < w[j]) /\ k[e].answer < n + 1
  <2> SUFFICES ASSUME NEW e \in 1..(n + 1)
               PROVE  (\A j \in 1..m : k[e].answer < w[j]) /\ k[e].answer < n + 1
    OBVIOUS
  <2>1. CASE e \in 1..n
    <3>1. l[e].answer < n + 1 BY <1>1, <1>4, <2>1
    <3> QED BY <1>1, <1>2, <2>1, <3>1
  <2>2. CASE e = n + 1
    <3>1. \A j \in 1..m : 0 < w[j] BY <1>1, <1>2
    <3> QED BY <1>1, <2>2, <3>1
  <2> QED BY <1>1, <2>1, <2>2
<1>6. WayInv(w, k)
  <2>1. \A i \in 1..m : w[i] \in 1..(n + 1) BY <1>1, <1>2
  <2> QED BY <1>1, <1>2, <1>5, <2>1 DEF WayInv, m
<1>7. \A i \in 1..(m + 1) : i \in 1..m \/ i = m + 1 BY <1>1
<1>8. WayInv(v, k)
  <2>1. \A i \in 1..(m + 1) : v[i] \in 1..(n + 1) BY <1>1, <1>2, <1>3, <1>7
  <2>2. ASSUME NEW i \in 1..(m + 1), NEW j \in 1..(m + 1), i < j PROVE v[i] < v[j]
    <3>1. i \in 1..m BY <1>1, <2>2
    <3>2. CASE j \in 1..m BY <1>2, <1>3, <2>2, <3>1, <3>2
    <3>3. CASE j = m + 1
      <4>1. w[i] < n + 1 BY <1>1, <1>2, <3>1
      <4> QED BY <1>3, <3>1, <3>3, <4>1
    <3> QED BY <1>7, <3>2, <3>3
  <2>3. \A e \in 1..(n + 1), j \in 1..(m + 1) : k[e].answer < v[j] BY <1>3, <1>5, <1>7
  <2> QED BY <1>1, <1>3, <2>1, <2>2, <2>3 DEF WayInv
<1> QED BY <1>6, <1>8 DEF v

\* A probe is no command of any session.
LEMMA ProbeTurns ==
    ASSUME NEW l \in Seq(LogEntry), NEW k \in Seq(LogEntry), NEW r \in LogEntry, Sent(l, k, r),
           r.kind = "discover", NEW s, NEW q, NEW w \in Seq(Nat), NEW t, NEW n, WayInv(w, l),
           Turns(l, s, q, w, t, n)
    PROVE  Turns(k, s, q, w, t, n) /\ Turns(k, s, q, Append(w, Len(l) + 1), t, n)
<1>1. Commands(k, s) = Commands(l, s) /\ \A d \in Commands(l, s) : k[d] = l[d]
  <2>1. Len(l) \in Nat /\ \A i \in 1..(Len(l) + 1) : i \in 1..Len(l) \/ i = Len(l) + 1 OBVIOUS
  <2>2. 1..Len(l) \subseteq 1..(Len(l) + 1) OBVIOUS
  <2> QED BY <2>1, <2>2 DEF Commands, Sent
<1>2. Counts(k, s, t, n) BY <1>1 DEF Turns, Counts
<1>3. Ahead(k, s, w, t, n) BY <1>1 DEF Turns, Ahead
<1>4. Ahead(k, s, Append(w, Len(l) + 1), t, n)
  <2> DEFINE v == Append(w, Len(l) + 1)
  <2>1. /\ Len(v) = Len(w) + 1 /\ v[Len(w) + 1] = Len(l) + 1 /\ \A i \in 1..Len(w) : v[i] = w[i]
        /\ \A i \in 1..(Len(w) + 1) : i \in 1..Len(w) \/ i = Len(w) + 1
        /\ Len(l) + 1 \notin Commands(l, s)
    <3>1. Len(l) + 1 \in Nat OBVIOUS
    <3>2. Len(l) + 1 \notin Commands(l, s) BY DEF Commands
    <3> QED BY <3>1, <3>2, AppendProperties
  <2> HIDE DEF v
  <2>2. ASSUME NEW j \in 1..Len(v), v[j] \in Commands(k, s) PROVE n + j <= SeqValues + t[v[j]]
    <3>1. j \in 1..Len(w) /\ v[j] = w[j] BY <1>1, <2>1, <2>2
    <3> QED BY <1>1, <2>2, <3>1 DEF Turns, Ahead
  <2> QED BY <2>2 DEF Ahead, v
<1> QED BY <1>2, <1>3, <1>4 DEF Turns

\* A command is the last of its session; those that returned came before.
LEMMA CommandTurns ==
    ASSUME NEW l \in Seq(LogEntry), NEW k \in Seq(LogEntry), NEW r \in LogEntry, Sent(l, k, r),
           NEW s, NEW q, NEW w \in Seq(Nat), NEW t, NEW n, WayInv(w, l), Turns(l, s, q, w, t, n),
           r.kind # "discover", r.session = s, r.seq = q, r.answer = 0
    PROVE  \E u : /\ Turns(k, s, q, w, u, n)
                  /\ Len(w) + 1 <= SeqValues => Turns(k, s, q, Append(w, Len(l) + 1), u, n)
<1> DEFINE z == Len(l)
           u == [i \in 1..(z + 1) |-> IF i = z + 1 THEN n ELSE t[i]]
<1>1. /\ z \in Nat /\ Len(k) = z + 1 /\ k[z + 1] = r /\ \A i \in 1..z : k[i] = l[i]
      /\ \A i \in 1..(z + 1) : i \in 1..z \/ i = z + 1
  BY DEF Sent
<1>2. /\ u[z + 1] = n /\ \A i \in 1..z : u[i] = t[i]
  BY <1>1
<1>3. Commands(k, s) = Commands(l, s) \cup {z + 1} /\ \A d \in Commands(l, s) : d \in 1..z
  BY <1>1 DEF Commands
<1>4. n \in Nat /\ q = n % SeqValues /\ Counts(l, s, t, n) /\ Ahead(l, s, w, t, n)
  BY DEF Turns
<1>5. SeqValues \in Nat \ {0} BY ControlAssumption
<1> HIDE DEF z, u
<1>6. Counts(k, s, u, n)
  <2>1. ASSUME NEW d \in Commands(k, s)
        PROVE  /\ u[d] \in Nat /\ u[d] <= n /\ k[d].seq = u[d] % SeqValues
               /\ k[d].answer # 0 => u[d] + 1 <= n
    <3>1. CASE d \in Commands(l, s) BY <1>1, <1>2, <1>3, <1>4, <3>1 DEF Counts
    <3>2. CASE d = z + 1 BY <1>1, <1>2, <1>4, <3>2
    <3> QED BY <1>3, <3>1, <3>2
  <2>2. ASSUME NEW d \in Commands(k, s), NEW e \in Commands(k, s), d < e
        PROVE  u[d] <= u[e] /\ (k[d].answer # 0 => u[d] + 1 <= u[e])
    <3>1. d \in Commands(l, s)
      <4>1. e \in 1..(z + 1) BY <1>1, <1>3
      <4>2. d # z + 1 BY <1>1, <2>2, <4>1
      <4> QED BY <1>3, <4>2
    <3>2. CASE e \in Commands(l, s)
      <4>1. d \in 1..z /\ e \in 1..z BY <1>3, <3>1, <3>2
      <4> QED BY <1>1, <1>2, <1>4, <2>2, <3>1, <3>2, <4>1 DEF Counts
    <3>3. CASE e = z + 1 BY <1>2, <1>3, <2>1, <3>1, <3>3
    <3> QED BY <1>3, <3>2, <3>3
  <2> QED BY <2>1, <2>2 DEF Counts
<1>7. \A j \in 1..Len(w) : w[j] \in 1..z
  BY DEF WayInv, z
<1>8. Ahead(k, s, w, u, n)
  <2>1. ASSUME NEW j \in 1..Len(w), w[j] \in Commands(k, s) PROVE n + j <= SeqValues + u[w[j]]
    <3>1. w[j] \in 1..z /\ w[j] \in Commands(l, s) BY <1>1, <1>3, <1>7, <2>1
    <3>2. u[w[j]] = t[w[j]] BY <1>2, <3>1
    <3> QED BY <1>4, <3>1, <3>2 DEF Ahead
  <2> QED BY <2>1 DEF Ahead
<1>9. ASSUME Len(w) + 1 <= SeqValues PROVE Ahead(k, s, Append(w, z + 1), u, n)
  <2> DEFINE v == Append(w, z + 1)
  <2>1. /\ Len(v) = Len(w) + 1 /\ v[Len(w) + 1] = z + 1 /\ \A i \in 1..Len(w) : v[i] = w[i]
        /\ \A i \in 1..(Len(w) + 1) : i \in 1..Len(w) \/ i = Len(w) + 1
    <3>1. z + 1 \in Nat BY <1>1
    <3> QED BY <3>1, AppendProperties
  <2>2. Len(w) \in Nat OBVIOUS
  <2> HIDE DEF v
  <2>3. ASSUME NEW j \in 1..Len(v), v[j] \in Commands(k, s) PROVE n + j <= SeqValues + u[v[j]]
    <3>1. CASE j \in 1..Len(w) BY <1>8, <2>1, <2>3, <3>1 DEF Ahead
    <3>2. CASE j = Len(w) + 1
      <4>1. u[v[j]] = n BY <1>2, <2>1, <3>2
      <4>2. n + (Len(w) + 1) <= SeqValues + n BY <1>4, <1>5, <1>9, <2>2
      <4> QED BY <3>2, <4>1, <4>2
    <3> QED BY <2>1, <2>3, <3>1, <3>2
  <2> QED BY <2>3 DEF Ahead, v
<1>10. Turns(k, s, q, w, u, n) BY <1>4, <1>6, <1>8 DEF Turns
<1>11. Len(w) + 1 <= SeqValues => Turns(k, s, q, Append(w, z + 1), u, n)
  BY <1>4, <1>6, <1>9 DEF Turns
<1> QED BY <1>10, <1>11 DEF z

-----------------------------------------------------------------------------
(* An answer is accepted.                                                     *)

\* Command c returns with the answer of request d.
Answered(l, k, c, d) ==
    /\ Len(k) = Len(l)
    /\ \A i \in 1..Len(l) :
          /\ k[i].kind = l[i].kind /\ k[i].seq = l[i].seq /\ k[i].session = l[i].session
          /\ k[i].answer = IF i = c THEN d ELSE l[i].answer

LEMMA ReturnsParts ==
    ASSUME NEW l \in Seq(LogEntry), NEW c \in 1..Len(l), NEW d \in Nat
    PROVE  LET k == [l EXCEPT ![c].answer = d] IN k \in Seq(LogEntry) /\ Answered(l, k, c, d)
<1> DEFINE k == [l EXCEPT ![c].answer = d]
<1>1. l \in [1..Len(l) -> LogEntry] /\ Len(l) \in Nat OBVIOUS
<1>2. k = [i \in 1..Len(l) |-> IF i = c THEN [l[c] EXCEPT !.answer = d] ELSE l[i]] BY <1>1
<1>3. [l[c] EXCEPT !.answer = d] \in LogEntry BY <1>1 DEF LogEntry
<1>4. k \in [1..Len(l) -> LogEntry] BY <1>1, <1>2, <1>3
<1>5. k \in Seq(LogEntry) /\ Len(k) = Len(l) BY <1>1, <1>4
<1>6. \A i \in 1..Len(l) :
          /\ k[i].kind = l[i].kind /\ k[i].seq = l[i].seq /\ k[i].session = l[i].session
          /\ k[i].answer = IF i = c THEN d ELSE l[i].answer
  BY <1>1, <1>2 DEF LogEntry
<1> QED BY <1>5, <1>6 DEF Answered

Recent(l, s, c, d) ==
    /\ d <= c /\ d \in Nat \ {0}
    /\ l[d].session = s => l[d].answer = 0 /\ \A e \in Before(l, c) : e < d
    /\ l[d].session # s => \A e \in Before(l, c) : l[l[e].answer].session # s

\* The answer that is read next, if its number is right, is that of a command
\* after which none of the session has returned, or of an earlier session.
LEMMA HeadIsRecent ==
    ASSUME NEW l \in Seq(LogEntry), NEW s \in Nat, NEW q, NEW w \in Seq(Nat), w # <<>>, NEW t, NEW n,
           LogInv(l, s), WayInv(w, l), Turns(l, s, q, w, t, n), NEW c, Newest(l, s, q, c),
           l[w[1]].kind # "discover", l[w[1]].seq = q
    PROVE  Recent(l, s, c, w[1])
<1> DEFINE d == w[1]
<1>1. 1 \in 1..Len(w) /\ d \in 1..Len(l) BY WayShrinks
<1>2. c \in Commands(l, s) /\ c \in 1..Len(l) /\ l[c].session = s BY DEF Newest, Commands
<1>3. d <= c
  <2>1. ~(d > c) BY <1>1 DEF Newest
  <2> QED BY <1>1, <1>2, <2>1
<1>4. n \in Nat /\ q = n % SeqValues /\ Counts(l, s, t, n) /\ Ahead(l, s, w, t, n)
  BY DEF Turns
<1>5. SeqValues \in Nat \ {0} BY ControlAssumption
<1>6. \A e \in Before(l, c) : e \in 1..Len(l) /\ e < c /\ l[e].answer # 0 /\ e \in Commands(l, s)
  <2> SUFFICES ASSUME NEW e \in Before(l, c)
               PROVE  e \in 1..Len(l) /\ e < c /\ l[e].answer # 0 /\ e \in Commands(l, s)
    OBVIOUS
  <2>1. e \in 1..(c - 1) /\ l[e].answer # 0 /\ l[e].session = s BY <1>2 DEF Before
  <2>2. e \in 1..Len(l) /\ e < c BY <1>2, <2>1
  <2>3. l[e].kind # "discover" BY <2>1, <2>2 DEF LogInv
  <2> QED BY <2>1, <2>2, <2>3 DEF Commands
<1> HIDE DEF d
<1>7. ASSUME l[d].session = s PROVE l[d].answer = 0 /\ \A e \in Before(l, c) : e < d
  <2>1. d \in Commands(l, s) BY <1>1, <1>7 DEF Commands, d
  <2>2. t[d] \in Nat /\ t[d] <= n /\ l[d].seq = t[d] % SeqValues /\ (l[d].answer # 0 => t[d] + 1 <= n)
    BY <1>4, <2>1 DEF Counts
  <2>3. n + 1 <= SeqValues + t[d] BY <1>1, <1>4, <2>1 DEF Ahead, d
  <2>4. t[d] = n
    <3>1. t[d] % SeqValues = n % SeqValues BY <1>4, <2>2 DEF d
    <3>2. n < t[d] + SeqValues BY <1>4, <1>5, <2>2, <2>3
    <3> QED BY <1>4, <1>5, <2>2, <3>1, <3>2, ModEqual
  <2>5. l[d].answer = 0 BY <1>4, <2>2, <2>4
  <2>6. ASSUME NEW e \in Before(l, c) PROVE e < d
    <3>1. e \in 1..Len(l) /\ l[e].answer # 0 /\ e \in Commands(l, s) BY <1>6, <2>6
    <3>2. t[e] \in Nat /\ t[e] + 1 <= n BY <1>4, <3>1 DEF Counts
    <3>3. ~(d < e)
      <4>1. d < e => t[d] <= t[e] BY <1>4, <2>1, <3>1 DEF Counts
      <4> QED BY <1>4, <2>4, <3>2, <4>1
    <3>4. d # e BY <2>5, <3>1
    <3> QED BY <1>1, <3>1, <3>3, <3>4
  <2> QED BY <2>5, <2>6
<1>8. ASSUME l[d].session # s, NEW e \in Before(l, c) PROVE l[l[e].answer].session # s
  <2>1. e \in 1..Len(l) /\ l[e].answer # 0 BY <1>6, <1>8
  <2> DEFINE b == l[e].answer
  <2>2. b \in Nat /\ b <= Len(l) /\ b < d BY <1>1, <2>1, EntryOfLog DEF LogInv, WayInv, d
  <2>3. b \in 1..Len(l) BY <2>1, <2>2
  <2> HIDE DEF b
  <2>4. l[b].session <= l[d].session /\ l[d].session <= s BY <1>1, <2>2, <2>3 DEF LogInv
  <2>5. l[b].session \in Nat /\ l[d].session \in Nat BY <1>1, <2>3, EntryOfLog
  <2> QED BY <1>8, <2>4, <2>5 DEF b
<1> QED BY <1>1, <1>3, <1>7, <1>8 DEF d, Recent

LEMMA AcceptedLog ==
    ASSUME NEW l \in Seq(LogEntry), NEW k \in Seq(LogEntry), NEW s \in Nat, NEW q,
           NEW w \in Seq(Nat), w # <<>>, NEW t, NEW n, LogInv(l, s), WayInv(w, l), AnswersInv(l),
           Turns(l, s, q, w, t, n), NEW c, Newest(l, s, q, c),
           l[w[1]].kind # "discover", l[w[1]].seq = q, Answered(l, k, c, w[1])
    PROVE  LogInv(k, s) /\ AnswersInv(k) /\ WayInv(Tail(w), k)
<1> DEFINE d == w[1]
           z == Len(l)
<1>0. Recent(l, s, c, w[1])
  BY HeadIsRecent
<1>1. d \in 1..z /\ d <= c /\ z \in Nat
  <2>1. w[1] \in 1..Len(l) BY WayShrinks
  <2> QED BY <1>0, <2>1 DEF Recent
<1>2. c \in 1..z /\ l[c].session = s /\ l[c].kind # "discover" /\ l[c].answer = 0
      /\ \A e \in 1..z : e > c => l[e].answer = 0
  BY DEF Newest, Commands, LogInv
<1>3. /\ d # c /\ l[d].session = s => l[d].answer = 0 /\ \A e \in Before(l, c) : e < d
      /\ l[d].session # s => \A e \in Before(l, c) : l[l[e].answer].session # s
  BY <1>0 DEF Recent
<1>4. \A i \in 1..z : l[i].answer \in Nat /\ l[i].answer <= z /\ i \in Nat
  BY EntryOfLog DEF LogInv
<1> HIDE DEF d, z
<1>5. /\ Len(k) = z
      /\ \A i \in 1..z :
            /\ k[i].kind = l[i].kind /\ k[i].seq = l[i].seq /\ k[i].session = l[i].session
            /\ k[i].answer = IF i = c THEN d ELSE l[i].answer
  BY DEF Answered, d, z
<1>6. LogInv(k, s)
  <2>1. \A i, j \in 1..z : i < j => k[i].session <= k[j].session
    BY <1>5 DEF LogInv, z
  <2>2. ASSUME NEW i \in 1..z
        PROVE  /\ k[i].session <= s /\ k[i].answer <= z
               /\ k[i].kind = "discover" => k[i].answer = 0
    <3>1. l[i].session <= s /\ l[i].answer <= z /\ (l[i].kind = "discover" => l[i].answer = 0)
      BY DEF LogInv, z
    <3>2. d <= z BY <1>1
    <3> QED BY <1>2, <1>5, <3>1, <3>2
  <2> QED BY <1>5, <2>1, <2>2 DEF LogInv
<1>7. WayInv(Tail(w), k)
  <2>1. /\ WayInv(Tail(w), l)
        /\ \A j \in 1..Len(Tail(w)) : d < Tail(w)[j]
    BY WayShrinks DEF d
  <2>2. \A e \in 1..z, j \in 1..Len(Tail(w)) : k[e].answer < Tail(w)[j]
    BY <1>5, <2>1 DEF WayInv, z
  <2> QED BY <1>5, <2>1, <2>2 DEF WayInv, z
<1>8. ASSUME NEW x \in 1..z, x <= c PROVE Before(k, x) = Before(l, x)
  <2>1. \A e \in 1..(x - 1) : e \in 1..z /\ e # c BY <1>1, <1>2, <1>8
  <2> QED BY <1>5, <2>1 DEF Before
<1>9. ASSUME NEW x \in 1..z, x <= c, NEW e \in Before(l, x)
      PROVE  k[k[e].answer].session = l[l[e].answer].session
  <2>1. e \in 1..(x - 1) /\ l[e].answer # 0 BY DEF Before
  <2>2. e \in 1..z /\ e # c BY <1>1, <1>2, <1>9, <2>1
  <2>3. l[e].answer \in 1..z BY <1>1, <1>4, <2>1, <2>2
  <2> QED BY <1>5, <2>2, <2>3
<1>10. AnswersInv(k)
  <2> SUFFICES ASSUME NEW x \in 1..z, k[x].answer # 0, k[x].answer # x
               PROVE  Excused(k, x, k[x].answer)
    BY <1>5 DEF AnswersInv
  <2>1. CASE x = c
    <3>1. k[c].answer = d /\ d < c BY <1>1, <1>2, <1>5, <2>1
    <3>2. k[d].session = l[d].session /\ k[c].session = s BY <1>1, <1>2, <1>5
    <3>3. Before(k, c) = Before(l, c) BY <1>2, <1>8
    <3>4. ASSUME k[d].session = k[c].session
          PROVE  k[d].answer = 0 /\ \A e \in Before(k, c) : e < d
      <4>1. l[d].answer = 0 /\ \A e \in Before(l, c) : e < d
        BY <1>1, <1>2, <1>3, <3>1, <3>2, <3>4
      <4>2. k[d].answer = l[d].answer BY <1>1, <1>2, <1>5, <3>1
      <4> QED BY <3>3, <4>1, <4>2
    <3>5. ASSUME k[d].session # k[c].session, NEW e \in Before(k, c)
          PROVE  k[k[e].answer].session # k[c].session
      <4>1. l[l[e].answer].session # s BY <1>3, <3>2, <3>3, <3>5
      <4>2. c <= c BY <1>2
      <4> QED BY <1>2, <1>9, <3>2, <3>3, <3>5, <4>1, <4>2
    <3> QED BY <2>1, <3>1, <3>4, <3>5 DEF Excused
  <2>2. CASE x # c
    <3> DEFINE b == l[x].answer
    <3>1. k[x].answer = b /\ b # 0 /\ b # x BY <1>5, <2>2
    <3>2. x < c BY <1>1, <1>2, <2>2, <3>1
    <3>3. Excused(l, x, b) BY <3>1 DEF AnswersInv, z
    <3>4. b \in 1..z /\ b < x BY <1>1, <1>4, <3>1, <3>3 DEF Excused
    <3> HIDE DEF b
    <3>5. b # c /\ x <= c BY <1>1, <1>2, <3>2, <3>4
    <3>6. k[b].session = l[b].session /\ k[b].answer = l[b].answer /\ k[x].session = l[x].session
      BY <1>5, <3>4, <3>5
    <3>7. Before(k, x) = Before(l, x)
          /\ \A e \in Before(l, x) : k[k[e].answer].session = l[l[e].answer].session
      BY <1>8, <1>9, <3>5
    <3> QED BY <3>1, <3>3, <3>4, <3>6, <3>7 DEF Excused
  <2> QED BY <2>1, <2>2
<1> QED BY <1>6, <1>7, <1>10 DEF d

LEMMA AcceptedTurns ==
    ASSUME NEW l \in Seq(LogEntry), NEW k \in Seq(LogEntry), NEW s \in Nat, NEW q,
           NEW w \in Seq(Nat), w # <<>>, NEW t, NEW n, WayInv(w, l),
           Turns(l, s, q, w, t, n), NEW c, Newest(l, s, q, c), NEW d, Answered(l, k, c, d)
    PROVE  Turns(k, s, (q + 1) % SeqValues, Tail(w), t, n + 1)
<1>1. n \in Nat /\ q = n % SeqValues /\ Counts(l, s, t, n) /\ Ahead(l, s, w, t, n)
  BY DEF Turns
<1>2. SeqValues \in Nat \ {0} BY ControlAssumption
<1>3. Commands(k, s) = Commands(l, s) BY DEF Commands, Answered
<1>4. c \in Commands(l, s) /\ \A e \in Commands(l, s) : ~(e > c)
  BY DEF Newest, Commands
<1>5. \A i \in Commands(l, s) :
         k[i].seq = l[i].seq /\ k[i].answer = IF i = c THEN d ELSE l[i].answer
  BY DEF Answered, Commands
<1>6. (q + 1) % SeqValues = (n + 1) % SeqValues /\ n + 1 \in Nat
  <2>1. ((n % SeqValues) + 1) % SeqValues = (n + 1) % SeqValues BY <1>1, <1>2, ModSucc
  <2> QED BY <1>1, <2>1
<1>7. Counts(k, s, t, n + 1)
  <2>1. ASSUME NEW i \in Commands(l, s)
        PROVE  /\ t[i] \in Nat /\ t[i] <= n + 1 /\ k[i].seq = t[i] % SeqValues
               /\ k[i].answer # 0 => t[i] + 1 <= n + 1
    <3>1. t[i] \in Nat /\ t[i] <= n /\ l[i].seq = t[i] % SeqValues BY <1>1 DEF Counts
    <3>2. t[i] <= n + 1 /\ t[i] + 1 <= n + 1 BY <1>1, <3>1
    <3> QED BY <1>5, <3>1, <3>2
  <2>2. ASSUME NEW i \in Commands(l, s), NEW e \in Commands(l, s), i < e
        PROVE  t[i] <= t[e] /\ (k[i].answer # 0 => t[i] + 1 <= t[e])
    <3>1. i # c BY <1>4, <2>2
    <3> QED BY <1>1, <1>5, <2>2, <3>1 DEF Counts
  <2> QED BY <1>3, <2>1, <2>2 DEF Counts
<1>8. Ahead(k, s, Tail(w), t, n + 1)
  <2>1. ASSUME NEW j \in 1..Len(Tail(w)), Tail(w)[j] \in Commands(l, s)
        PROVE  (n + 1) + j <= SeqValues + t[Tail(w)[j]]
    <3>1. Tail(w)[j] = w[j + 1] /\ j + 1 \in 1..Len(w) BY WayShrinks
    <3>2. n + (j + 1) <= SeqValues + t[w[j + 1]] BY <1>1, <2>1, <3>1 DEF Ahead
    <3>3. (n + 1) + j = n + (j + 1) BY <1>1
    <3> QED BY <3>1, <3>2, <3>3
  <2> QED BY <1>3, <2>1 DEF Ahead
<1> QED BY <1>6, <1>7, <1>8 DEF Turns

\* A new session has no commands yet.
LEMMA NewTurns ==
    ASSUME NEW l \in Seq(LogEntry), NEW s \in Nat, LogInv(l, s), NEW w, NEW t
    PROVE  Turns(l, s + 1, 0, w, t, 0)
<1>1. Commands(l, s + 1) = {}
  <2>1. \A i \in 1..Len(l) : l[i].session # s + 1
    <3> SUFFICES ASSUME NEW i \in 1..Len(l) PROVE l[i].session # s + 1
      OBVIOUS
    <3>1. l[i].session \in Nat /\ l[i].session <= s BY EntryOfLog DEF LogInv
    <3> QED BY <3>1
  <2> QED BY <2>1 DEF Commands
<1>2. 0 % SeqValues = 0 BY ControlAssumption
<1> QED BY <1>1, <1>2 DEF Turns, Counts, Ahead

-----------------------------------------------------------------------------
(* What the steps do to the requests on their way. *)

LEMMA ConcatParts ==
    ASSUME NEW u \in Seq(Nat), NEW v \in Seq(Nat), NEW n \in Nat, Len(u) = n
    PROVE  /\ u \o v \in Seq(Nat) /\ Len(u \o v) = n + Len(v)
           /\ \A i \in 1..(n + Len(v)) : (u \o v)[i] = IF i <= n THEN u[i] ELSE v[i - n]
<1>1. /\ u \o v \in Seq(Nat) /\ Len(u \o v) = Len(u) + Len(v)
      /\ \A i \in 1..(Len(u) + Len(v)) :
            (u \o v)[i] = IF i <= Len(u) THEN u[i] ELSE v[i - Len(u)]
  BY ConcatProperties
<1> QED BY <1>1

LEMMA Regrouped ==
    ASSUME NEW u \in Seq(Nat), NEW v \in Seq(Nat), NEW y \in Seq(Nat)
    PROVE  (u \o v) \o y = u \o (v \o y)
BY ConcatAssociative

LEMMA OfParts ==
    ASSUME NEW a \in Seq(Arrived)
    PROVE  /\ Of(a) \in Seq(Nat) /\ Len(Of(a)) = Len(a)
           /\ \A i \in 1..Len(a) : Of(a)[i] = a[i].of /\ a[i].of \in Nat
<1>1. Len(a) \in Nat /\ \A i \in 1..Len(a) : a[i] \in Arrived OBVIOUS
<1>2. \A i \in 1..Len(a) : a[i].of \in Nat BY <1>1 DEF Arrived
<1>3. Of(a) \in [1..Len(a) -> Nat] BY <1>2 DEF Of
<1> QED BY <1>1, <1>2, <1>3 DEF Of

LEMMA WayLength ==
    ASSUME NEW a \in Seq(Arrived), NEW r \in Seq(Nat)
    PROVE  Of(a) \o r \in Seq(Nat) /\ Len(Of(a) \o r) = Len(r) + Len(a)
<1>1. Of(a) \in Seq(Nat) /\ Len(Of(a)) = Len(a) /\ Len(a) \in Nat /\ Len(r) \in Nat
  BY OfParts
<1>2. Of(a) \o r \in Seq(Nat) /\ Len(Of(a) \o r) = Len(a) + Len(r) BY <1>1, ConcatParts
<1> QED BY <1>1, <1>2

LEMMA WayTyped ==
    ASSUME RequestTypes
    PROVE  Way \in Seq(Nat) /\ Len(Way) = Len(requests) + Len(answers) /\ Len(Way) \in Nat
<1>1. answers \in Seq(Arrived) /\ requests \in Seq(Nat) BY DEF RequestTypes
<1>2. Way \in Seq(Nat) /\ Len(Way) = Len(requests) + Len(answers) BY <1>1, WayLength DEF Way
<1> QED BY <1>2

LEMMA ReadWay ==
    ASSUME NEW a \in Seq(Arrived), NEW r \in Seq(Nat), a # <<>>
    PROVE  LET w == Of(a) \o r IN
           /\ w # <<>> /\ w[1] = Head(a).of /\ Tail(a) \in Seq(Arrived)
           /\ Of(Tail(a)) \o r = Tail(w)
<1> DEFINE w == Of(a) \o r
           n == Len(a)
           m == Len(r)
           b == Of(Tail(a)) \o r
<1>1. /\ n \in Nat \ {0} /\ m \in Nat /\ Tail(a) \in Seq(Arrived) /\ Len(Tail(a)) = n - 1
      /\ Head(a) = a[1] /\ \A i \in 1..(n - 1) : Tail(a)[i] = a[i + 1]
  BY EmptySeq
<1>2. Of(a) \in Seq(Nat) /\ Len(Of(a)) = n /\ \A i \in 1..n : Of(a)[i] = a[i].of
  BY OfParts
<1>3. /\ Of(Tail(a)) \in Seq(Nat) /\ Len(Of(Tail(a))) = n - 1
      /\ \A i \in 1..(n - 1) : Of(Tail(a))[i] = Tail(a)[i].of
  BY <1>1, OfParts
<1>4. /\ w \in Seq(Nat) /\ Len(w) = n + m
      /\ \A i \in 1..(n + m) : w[i] = IF i <= n THEN Of(a)[i] ELSE r[i - n]
  BY <1>1, <1>2, ConcatParts
<1>5. /\ b \in Seq(Nat) /\ Len(b) = (n - 1) + m
      /\ \A i \in 1..((n - 1) + m) : b[i] = IF i <= n - 1 THEN Of(Tail(a))[i] ELSE r[i - (n - 1)]
  <2>1. n - 1 \in Nat BY <1>1
  <2> HIDE DEF w
  <2> QED BY <1>3, <2>1, ConcatParts
<1> HIDE DEF w, n, m, b
<1>6. 1 \in 1..n /\ 1 \in 1..(n + m) /\ 1 <= n /\ n + m # 0 BY <1>1
<1>7. w # <<>> /\ w[1] = Head(a).of
  <2>1. w # <<>> BY <1>4, <1>6, EmptySeq
  <2>2. w[1] = Of(a)[1] BY <1>4, <1>6
  <2> QED BY <1>1, <1>2, <1>6, <2>1, <2>2
<1>8. /\ Tail(w) \in Seq(Nat) /\ Len(Tail(w)) = (n + m) - 1
      /\ \A i \in 1..((n + m) - 1) : Tail(w)[i] = w[i + 1]
  BY <1>4, <1>7
<1>9. (n + m) - 1 = (n - 1) + m /\ n - 1 \in Nat BY <1>1
<1>10. ASSUME NEW i \in 1..((n - 1) + m) PROVE b[i] = Tail(w)[i]
  <2>1. i + 1 \in 1..(n + m) /\ i \in 1..((n + m) - 1) BY <1>1
  <2>2. Tail(w)[i] = w[i + 1] BY <1>8, <2>1
  <2>3. CASE i <= n - 1
    <3>1. i \in 1..(n - 1) /\ i + 1 <= n /\ i + 1 \in 1..n BY <1>1, <2>3
    <3>2. b[i] = a[i + 1].of BY <1>1, <1>3, <1>5, <2>3, <3>1
    <3>3. w[i + 1] = a[i + 1].of BY <1>2, <1>4, <2>1, <3>1
    <3> QED BY <2>2, <3>2, <3>3
  <2>4. CASE ~(i <= n - 1)
    <3>1. ~(i + 1 <= n) /\ (i + 1) - n = i - (n - 1) BY <1>1, <2>4
    <3>2. b[i] = r[i - (n - 1)] BY <1>5, <2>4
    <3>3. w[i + 1] = r[(i + 1) - n] BY <1>4, <2>1, <3>1
    <3> QED BY <2>2, <3>1, <3>2, <3>3
  <2> QED BY <2>3, <2>4
<1>11. b = Tail(w) BY <1>5, <1>8, <1>9, <1>10, SeqEqual
<1> QED BY <1>1, <1>7, <1>11 DEF w, b

LEMMA SendWay ==
    ASSUME NEW a \in Seq(Arrived), NEW r \in Seq(Nat), NEW x \in Nat
    PROVE  Of(a) \o Append(r, x) = Append(Of(a) \o r, x)
<1>1. Of(a) \in Seq(Nat) /\ <<x>> \in Seq(Nat) /\ Of(a) \o r \in Seq(Nat)
  BY OfParts, ConcatProperties
<1>2. Append(r, x) = r \o <<x>> /\ Append(Of(a) \o r, x) = (Of(a) \o r) \o <<x>>
  BY <1>1, AppendIsConcat
<1> QED BY <1>1, <1>2, ConcatAssociative

LEMMA AnswerWay ==
    ASSUME NEW a \in Seq(Arrived), NEW r \in Seq(Nat), r # <<>>, NEW ok \in BOOLEAN
    PROVE  LET b == Append(a, [of |-> Head(r), ok |-> ok]) IN
           b \in Seq(Arrived) /\ Tail(r) \in Seq(Nat) /\ Of(b) \o Tail(r) = Of(a) \o r
<1> DEFINE x == Head(r)
           e == [of |-> x, ok |-> ok]
           b == Append(a, e)
<1>1. x \in Nat /\ Tail(r) \in Seq(Nat) /\ e \in Arrived BY EmptySeq DEF Arrived
<1>2. b \in Seq(Arrived) /\ Len(b) = Len(a) + 1 /\ b[Len(a) + 1] = e
      /\ \A i \in 1..Len(a) : b[i] = a[i]
  BY <1>1, AppendProperties
<1>0. e.of = x OBVIOUS
<1> HIDE DEF x, e, b
<1>3. Of(b) = Append(Of(a), x)
  <2>1. /\ Of(a) \in Seq(Nat) /\ Len(Of(a)) = Len(a) /\ \A i \in 1..Len(a) : Of(a)[i] = a[i].of
    BY OfParts
  <2>2. /\ Of(b) \in Seq(Nat) /\ Len(Of(b)) = Len(a) + 1
        /\ \A i \in 1..(Len(a) + 1) : Of(b)[i] = b[i].of
    BY <1>2, OfParts
  <2>3. /\ Append(Of(a), x) \in Seq(Nat) /\ Len(Append(Of(a), x)) = Len(a) + 1
        /\ Append(Of(a), x)[Len(a) + 1] = x
        /\ \A i \in 1..Len(a) : Append(Of(a), x)[i] = Of(a)[i]
    BY <1>1, <2>1, AppendProperties
  <2>4. ASSUME NEW i \in 1..(Len(a) + 1) PROVE Of(b)[i] = Append(Of(a), x)[i]
    <3>1. i \in 1..Len(a) \/ i = Len(a) + 1 OBVIOUS
    <3>2. CASE i \in 1..Len(a) BY <1>2, <2>1, <2>2, <2>3, <3>2
    <3>3. CASE i = Len(a) + 1 BY <1>0, <1>2, <2>2, <2>3, <3>3
    <3> QED BY <3>1, <3>2, <3>3
  <2> QED BY <2>2, <2>3, <2>4, SeqEqual
<1>4. <<x>> \in Seq(Nat) /\ Of(a) \in Seq(Nat) BY <1>1, OfParts
<1>5. Append(Of(a), x) = Of(a) \o <<x>> BY <1>1, <1>4, AppendIsConcat
<1>6. <<x>> \o Tail(r) = r BY HeadFirst DEF x
<1>7. (Of(a) \o <<x>>) \o Tail(r) = Of(a) \o (<<x>> \o Tail(r)) BY <1>1, <1>4, Regrouped
<1> QED BY <1>1, <1>2, <1>3, <1>5, <1>6, <1>7 DEF b, e, x

-----------------------------------------------------------------------------
(* The steps that send nothing and accept nothing.                            *)

LEMMA NoNews ==
    ASSUME AnswerInv, LeaseInv', RequestTypes', UNCHANGED <<log, sessions, seq, mine>>,
           Way' = Way \/ (Way # <<>> /\ Way' = Tail(Way)), lease' \in {lease, Nobody},
           \A p \in Procs : ppc'[p] = "waiting" => ppc[p] = "waiting"
    PROVE  AnswerInv'
<1>1. WaitInv' BY DEF AnswerInv, WaitInv
<1>2. Way \in Seq(Nat) /\ log \in Seq(LogEntry) /\ WayInv(Way, log)
  BY WayTyped DEF AnswerInv, PipeInv, RequestTypes
<1>3. WayInv(Way', log)
  <2>1. CASE Way' = Way BY <1>2, <2>1
  <2>2. CASE Way # <<>> /\ Way' = Tail(Way) BY <1>2, <2>2, WayShrinks
  <2> QED BY <2>1, <2>2
<1>4. PipeInv' BY <1>3 DEF AnswerInv, PipeInv
<1>5. TurnsInv'
  <2> SUFFICES ASSUME lease' # Nobody
               PROVE  \E t, n : Turns(log, sessions, seq[lease], Way', t, n)
    <3>1. lease' # Nobody => lease' = lease OBVIOUS
    <3> QED BY <3>1 DEF TurnsInv
  <2>1. lease # Nobody OBVIOUS
  <2>2. PICK t, n : Turns(log, sessions, seq[lease], Way, t, n)
    BY <2>1 DEF AnswerInv, TurnsInv
  <2>3. CASE Way' = Way BY <2>2, <2>3
  <2>4. CASE Way # <<>> /\ Way' = Tail(Way)
    <3>1. Turns(log, sessions, seq[lease], Tail(Way), t, n) BY <1>2, <2>2, <2>4, TurnsShrink
    <3> QED BY <2>4, <3>1
  <2> QED BY <2>3, <2>4
<1> QED BY <1>1, <1>4, <1>5 DEF AnswerInv

\* The next answer is read, or none is.
LEMMA AnswerRead ==
    ASSUME RequestTypes, answers # <<>>, answers' = Tail(answers), UNCHANGED requests
    PROVE  /\ Way # <<>> /\ Way' = Tail(Way) /\ Way[1] = Head(answers).of
           /\ answers' \in Seq(Arrived) /\ Head(answers) \in Arrived
<1>1. answers \in Seq(Arrived) /\ requests \in Seq(Nat) BY DEF RequestTypes
<1>2. Head(answers) \in Arrived BY <1>1
<1> QED BY <1>1, <1>2, ReadWay DEF Way

LEMMA QuietKeeps ==
    ASSUME AnswerInv, LeaseInv', UNCHANGED <<log, sessions, seq, mine, requests>>,
           UNCHANGED answers \/ (answers # <<>> /\ answers' = Tail(answers)),
           lease' \in {lease, Nobody},
           \A p \in Procs : ppc'[p] = "waiting" => ppc[p] = "waiting"
    PROVE  AnswerInv'
<1>1. RequestTypes BY DEF AnswerInv
<1>2. RequestTypes' /\ (Way' = Way \/ (Way # <<>> /\ Way' = Tail(Way)))
  <2>1. CASE UNCHANGED answers BY <1>1, <2>1 DEF RequestTypes, Way
  <2>2. CASE answers # <<>> /\ answers' = Tail(answers)
    <3>1. Way # <<>> /\ Way' = Tail(Way) /\ answers' \in Seq(Arrived)
      BY <1>1, <2>2, AnswerRead
    <3> QED BY <1>1, <3>1 DEF RequestTypes
  <2> QED BY <2>1, <2>2
<1> QED BY <1>2, NoNews

LEMMA MoveWaits ==
    ASSUME LeaseInv, NEW p \in Procs, NEW place, place # "waiting", Move(p, place)
    PROVE  \A o \in Procs : ppc'[o] = "waiting" => ppc[o] = "waiting" /\ o # p
BY DEF Move, LeaseInv, LeaseTypes

LEMMA FreedLease == ASSUME NEW p, Freed(p) PROVE lease' \in {lease, Nobody}
BY DEF Freed

Accepts(p) ==
    /\ Matches(p, Head(answers)) /\ Returns(p, Head(answers).of)
    /\ NextSeq(p) /\ Move(p, "idle") /\ UNCHANGED lease

LEMMA QuietStepKeeps ==
    ASSUME AnswerInv, NEW p \in Procs,
           \/ ProbeRead(p) \/ ProbeTimeout(p) \/ Rejected(p) \/ Close(p) \/ Die(p)
           \/ CommandTimeout(p)
           \/ TakeAnswer(p) /\ ~Accepts(p)
    PROVE  AnswerInv'
<1>1. LeaseInv BY DEF AnswerInv
<1>2. LeaseInv' BY <1>1, LeaseStepKeeps DEF ControlStep
<1> DEFINE Waits == \A o \in Procs : ppc'[o] = "waiting" => ppc[o] = "waiting"
<1>3. CASE ProbeRead(p)
  <2>1. Waits BY <1>1, <1>3, MoveWaits DEF ProbeRead
  <2> QED BY <1>2, <1>3, <2>1, QuietKeeps DEF ProbeRead
<1>4. CASE ProbeTimeout(p)
  <2>1. Waits BY <1>1, <1>4, MoveWaits DEF ProbeTimeout
  <2> QED BY <1>2, <1>4, <2>1, QuietKeeps DEF ProbeTimeout
<1>5. CASE Rejected(p)
  <2>1. Waits BY <1>1, <1>5, MoveWaits DEF Rejected
  <2> QED BY <1>2, <1>5, <2>1, QuietKeeps DEF Rejected
<1>6. CASE Close(p)
  <2>1. Waits /\ lease' \in {lease, Nobody} BY <1>1, <1>6, MoveWaits, FreedLease DEF Close
  <2> QED BY <1>2, <1>6, <2>1, QuietKeeps DEF Close
<1>7. CASE Die(p)
  <2>1. Waits /\ lease' \in {lease, Nobody} BY <1>1, <1>7, MoveWaits, FreedLease DEF Die
  <2> QED BY <1>2, <1>7, <2>1, QuietKeeps DEF Die
<1>8. ASSUME Throws(p) PROVE Waits /\ lease' \in {lease, Nobody} /\ UNCHANGED <<seq, log>>
  BY <1>1, <1>8, MoveWaits, FreedLease DEF Throws
<1>9. CASE CommandTimeout(p)
  BY <1>2, <1>8, <1>9, QuietKeeps DEF CommandTimeout
<1>10. CASE TakeAnswer(p) /\ ~Accepts(p)
  <2>1. Waits /\ lease' \in {lease, Nobody} /\ UNCHANGED <<seq, log>>
    BY <1>8, <1>10 DEF TakeAnswer, Accepts
  <2> QED BY <1>2, <1>10, <2>1, QuietKeeps DEF TakeAnswer
<1> QED BY <1>3, <1>4, <1>5, <1>6, <1>7, <1>9, <1>10

LEMMA DeviceAnswerKeeps == ASSUME AnswerInv, Answer PROVE AnswerInv'
<1>1. RequestTypes /\ LeaseInv BY DEF AnswerInv
<1>2. LeaseInv' BY <1>1 DEF Answer, LeaseInv, LeaseTypes, OneOwner
<1>3. PICK ok \in BOOLEAN : answers' = Append(answers, [of |-> Head(requests), ok |-> ok])
  BY DEF Answer
<1>4. requests # <<>> /\ requests' = Tail(requests)
      /\ UNCHANGED <<ppc, lease, seq, mine, log, sessions>>
  BY DEF Answer
<1>5. answers' \in Seq(Arrived) /\ requests' \in Seq(Nat) /\ Way' = Way
  BY <1>1, <1>3, <1>4, AnswerWay DEF RequestTypes, Way
<1>6. RequestTypes' BY <1>1, <1>4, <1>5 DEF RequestTypes
<1> QED BY <1>2, <1>4, <1>5, <1>6, NoNews

-----------------------------------------------------------------------------
(* The steps that send a request.                                             *)

Request(p, k, x) == [by |-> p, kind |-> k, seq |-> x, session |-> sessions, answer |-> 0]

LEMMA RequestSent ==
    ASSUME AnswerInv, NEW p \in Procs, NEW k \in {"discover", "version", "command"},
           NEW x \in Nat, SendRequest(p, k, x), UNCHANGED <<seq, answers, sessions>>
    PROVE  /\ RequestTypes' /\ PipeInv' /\ Request(p, k, x) \in LogEntry
           /\ Sent(log, log', Request(p, k, x))
           /\ Way' \in {Way, Append(Way, Len(log) + 1)}
           /\ mine'[p] = Len(log) + 1 /\ \A o \in Procs : o # p => mine'[o] = mine[o]
<1> DEFINE r == Request(p, k, x)
           n == Len(log) + 1
<1>1. RequestTypes /\ WayInv(Way, log) /\ LogInv(log, sessions) /\ AnswersInv(log)
  BY DEF AnswerInv, PipeInv
<1>2. log \in Seq(LogEntry) /\ requests \in Seq(Nat) /\ answers \in Seq(Arrived)
      /\ mine \in [Procs -> Nat] /\ sessions \in Nat /\ n \in Nat
  BY <1>1 DEF RequestTypes
<1>3. r \in LogEntry /\ r.session = sessions /\ r.answer = 0
  BY <1>2 DEF Request, LogEntry
<1>4. log' = Append(log, r) /\ mine' = [mine EXCEPT ![p] = n]
      /\ requests' \in {requests, Append(requests, n)}
  BY DEF SendRequest, Request
<1> HIDE DEF r, n
<1>5. log' \in Seq(LogEntry) /\ Sent(log, log', r) BY <1>2, <1>3, <1>4, SentParts
<1>6. requests' \in Seq(Nat) /\ mine' \in [Procs -> Nat]
  <2>1. Append(requests, n) \in Seq(Nat) BY <1>2, AppendProperties
  <2>2. [mine EXCEPT ![p] = n] \in [Procs -> Nat] BY <1>2
  <2> QED BY <1>2, <1>4, <2>1, <2>2
<1>7. RequestTypes' BY <1>1, <1>5, <1>6 DEF RequestTypes
<1>8. Way' \in {Way, Append(Way, n)}
  <2>1. CASE requests' = requests BY <2>1 DEF Way
  <2>2. CASE requests' = Append(requests, n) BY <1>2, <2>2, SendWay DEF Way
  <2> QED BY <1>4, <2>1, <2>2
<1>9. LogInv(log', sessions) /\ AnswersInv(log')
  BY <1>1, <1>2, <1>3, <1>5, SentLog
<1>10. WayInv(Way, log') /\ WayInv(Append(Way, n), log')
  <2>1. Way \in Seq(Nat) BY <1>1, WayTyped
  <2> QED BY <1>1, <1>2, <1>3, <1>5, <2>1, SentWay DEF n
<1>11. PipeInv' BY <1>8, <1>9, <1>10 DEF PipeInv
<1>12. mine'[p] = n /\ \A o \in Procs : o # p => mine'[o] = mine[o] BY <1>2, <1>4
<1> QED BY <1>3, <1>5, <1>7, <1>8, <1>11, <1>12 DEF r, n

LEMMA NewestKept ==
    ASSUME NEW l \in Seq(LogEntry), NEW k, NEW r, Sent(l, k, r), r.kind = "discover",
           NEW s, NEW q, NEW c, Newest(l, s, q, c)
    PROVE  Newest(k, s, q, c)
<1>1. Len(l) \in Nat /\ Len(k) = Len(l) + 1 /\ k[Len(l) + 1] = r
      /\ \A i \in 1..Len(l) : k[i] = l[i]
  BY DEF Sent
<1>2. \A i \in 1..(Len(l) + 1) : i \in 1..Len(l) \/ i = Len(l) + 1 BY <1>1
<1>3. c \in 1..Len(l) /\ c \in 1..(Len(l) + 1) BY <1>1 DEF Newest, Commands
<1> QED BY <1>1, <1>2, <1>3 DEF Newest, Commands

LEMMA ProbeKeeps == ASSUME AnswerInv, NEW p \in Procs, Probe(p) PROVE AnswerInv'
<1> DEFINE r == Request(p, "discover", 0)
<1>1. LeaseInv /\ RequestTypes /\ WayInv(Way, log) BY DEF AnswerInv, PipeInv
<1>2. LeaseInv' BY <1>1, LeaseStepKeeps DEF ControlStep
<1>3. UNCHANGED <<lease, seq, answers, sessions>> /\ Move(p, "probing")
      /\ SendRequest(p, "discover", 0)
  BY DEF Probe
<1>4. /\ RequestTypes' /\ PipeInv' /\ r \in LogEntry /\ Sent(log, log', r)
      /\ Way' \in {Way, Append(Way, Len(log) + 1)}
      /\ \A o \in Procs : o # p => mine'[o] = mine[o]
  BY <1>3, RequestSent
<1>5. r.kind = "discover" BY DEF Request
<1> HIDE DEF r
<1>6. log \in Seq(LogEntry) /\ log' \in Seq(LogEntry) /\ Way \in Seq(Nat)
  BY <1>1, <1>4, WayTyped DEF RequestTypes
<1>7. WaitInv'
  <2>1. ASSUME NEW o \in Procs, ppc'[o] = "waiting"
        PROVE  Newest(log', sessions, seq[o], mine'[o])
    <3>1. ppc[o] = "waiting" /\ o # p BY <1>1, <1>3, <2>1, MoveWaits
    <3>2. Newest(log, sessions, seq[o], mine[o]) BY <3>1 DEF AnswerInv, WaitInv
    <3> QED BY <1>4, <1>5, <1>6, <3>1, <3>2, NewestKept
  <2> QED BY <1>3, <2>1 DEF WaitInv
<1>8. TurnsInv'
  <2> SUFFICES ASSUME lease # Nobody
               PROVE  \E t, n : Turns(log', sessions, seq[lease], Way', t, n)
    BY <1>3 DEF TurnsInv
  <2>1. PICK t, n : Turns(log, sessions, seq[lease], Way, t, n) BY DEF AnswerInv, TurnsInv
  <2>2. /\ Turns(log', sessions, seq[lease], Way, t, n)
        /\ Turns(log', sessions, seq[lease], Append(Way, Len(log) + 1), t, n)
    BY <1>1, <1>4, <1>5, <1>6, <2>1, ProbeTurns
  <2> QED BY <1>4, <2>2
<1> QED BY <1>2, <1>4, <1>7, <1>8 DEF AnswerInv

LEMMA SendCommandKeeps ==
    ASSUME AnswerInv, NEW p \in Procs, SendCommand(p), FewerThanNumbers'
    PROVE  AnswerInv'
<1> DEFINE k == IF ppc[p] = "opening" THEN "version" ELSE "command"
           r == Request(p, k, seq[p])
           z == Len(log)
<1>1. LeaseInv /\ RequestTypes /\ WayInv(Way, log) BY DEF AnswerInv, PipeInv
<1>2. LeaseInv' BY <1>1, LeaseStepKeeps DEF ControlStep
<1>3. /\ UNCHANGED <<lease, seq, answers, sessions>> /\ Move(p, "waiting")
      /\ SendRequest(p, k, seq[p]) /\ ppc[p] \in Inside /\ ppc[p] # "waiting"
  BY DEF SendCommand, Inside
<1>4. lease = p /\ lease # Nobody BY <1>1, <1>3, ControlAssumption DEF LeaseInv, OneOwner
<1>5. k \in {"discover", "version", "command"} /\ seq[p] \in Nat
  <2>1. seq[p] \in 0..(SeqValues - 1) BY <1>1 DEF RequestTypes
  <2> QED BY <2>1, ControlAssumption
<1>6. /\ RequestTypes' /\ PipeInv' /\ r \in LogEntry /\ Sent(log, log', r)
      /\ Way' \in {Way, Append(Way, z + 1)} /\ mine'[p] = z + 1
  BY <1>3, <1>5, RequestSent
<1>7. r.kind # "discover" /\ r.session = sessions /\ r.seq = seq[p] /\ r.answer = 0
  BY DEF Request
<1> HIDE DEF r, k
<1>8. log \in Seq(LogEntry) /\ log' \in Seq(LogEntry) /\ Way \in Seq(Nat) /\ z \in Nat
  BY <1>1, <1>6, WayTyped DEF RequestTypes
<1>9. WaitInv'
  <2>1. ASSUME NEW o \in Procs, ppc'[o] = "waiting" PROVE o = p
    <3>1. o # p => ppc'[o] = ppc[o] BY <1>1, <1>3 DEF Move, LeaseInv, LeaseTypes
    <3>2. ppc[o] = "waiting" => lease = o BY <1>1 DEF LeaseInv, OneOwner, Inside
    <3> QED BY <1>4, <2>1, <3>1, <3>2
  <2>2. Newest(log', sessions, seq[p], z + 1)
    <3>1. Len(log') = z + 1 /\ log'[z + 1] = r BY <1>6 DEF Sent
    <3>2. z + 1 \in 1..(z + 1) /\ \A e \in 1..(z + 1) : ~(e > z + 1) BY <1>8
    <3> HIDE DEF z
    <3> QED BY <1>7, <3>1, <3>2 DEF Newest, Commands
  <2> QED BY <1>3, <1>6, <2>1, <2>2 DEF WaitInv
<1>10. TurnsInv'
  <2>1. PICK t, n : Turns(log, sessions, seq[p], Way, t, n) BY <1>4 DEF AnswerInv, TurnsInv
  <2>2. PICK u : /\ Turns(log', sessions, seq[p], Way, u, n)
                 /\ Len(Way) + 1 <= SeqValues =>
                       Turns(log', sessions, seq[p], Append(Way, z + 1), u, n)
    BY <1>1, <1>6, <1>7, <1>8, <2>1, CommandTurns
  <2>3. Turns(log', sessions, seq[p], Way', u, n)
    <3>1. CASE Way' = Way BY <2>2, <3>1
    <3>2. CASE Way' = Append(Way, z + 1)
      <4>1. Len(Way') = Len(Way) + 1
        <5>1. z + 1 \in Nat BY <1>8
        <5> QED BY <1>8, <3>2, <5>1, AppendProperties
      <4>2. requests' \in Seq(Nat) /\ answers' \in Seq(Arrived) BY <1>6 DEF RequestTypes
      <4>3. Len(Way') = Len(requests') + Len(answers') BY <4>2, WayLength DEF Way
      <4>4. Len(Way') <= SeqValues BY <4>3 DEF FewerThanNumbers
      <4> QED BY <2>2, <3>2, <4>1, <4>4
    <3> QED BY <1>6, <3>1, <3>2
  <2> QED BY <1>3, <1>4, <2>3 DEF TurnsInv
<1> QED BY <1>2, <1>6, <1>9, <1>10 DEF AnswerInv

-----------------------------------------------------------------------------
(* The lock is taken, an answer is accepted.                                  *)

LEMMA ConstructKeeps == ASSUME AnswerInv, NEW p \in Procs, Construct(p) PROVE AnswerInv'
<1>1. LeaseInv /\ RequestTypes /\ PipeInv BY DEF AnswerInv
<1>2. LeaseInv' BY <1>1, LeaseStepKeeps DEF ControlStep
<1>3. /\ lease = Nobody /\ lease' = p /\ seq' = [seq EXCEPT ![p] = 0]
      /\ sessions' = sessions + 1 /\ Move(p, "opening")
      /\ UNCHANGED <<mine, log, requests, answers>>
  BY DEF Construct, LeaseFree
<1>4. log \in Seq(LogEntry) /\ sessions \in Nat /\ seq \in [Procs -> 0..(SeqValues - 1)]
      /\ LogInv(log, sessions)
  BY <1>1 DEF RequestTypes, PipeInv
<1>5. seq' \in [Procs -> 0..(SeqValues - 1)] /\ seq'[p] = 0
  <2>1. 0 \in 0..(SeqValues - 1) BY ControlAssumption
  <2> QED BY <1>3, <1>4, <2>1
<1>6. RequestTypes' BY <1>1, <1>3, <1>4, <1>5 DEF RequestTypes
<1>7. LogInv(log, sessions + 1)
  <2>1. ASSUME NEW i \in 1..Len(log) PROVE log[i].session <= sessions + 1
    <3>1. log[i].session \in Nat /\ log[i].session <= sessions BY <1>4, EntryOfLog DEF LogInv
    <3> QED BY <1>4, <3>1
  <2> QED BY <1>4, <2>1 DEF LogInv
<1>8. Way' = Way BY <1>3 DEF Way
<1>9. PipeInv' BY <1>1, <1>3, <1>7, <1>8 DEF PipeInv
<1>10. WaitInv'
  <2>1. ASSUME NEW o \in Procs, ppc'[o] = "waiting" PROVE FALSE
    <3>1. ppc[o] = "waiting" BY <1>1, <1>3, <2>1, MoveWaits
    <3>2. lease = o BY <1>1, <3>1 DEF LeaseInv, OneOwner, Inside
    <3> QED BY <1>3, <3>2, ControlAssumption
  <2> QED BY <2>1 DEF WaitInv
<1>11. TurnsInv'
  <2>1. \E t, n : Turns(log, sessions + 1, 0, Way, t, n) BY <1>4, NewTurns
  <2> QED BY <1>3, <1>5, <1>8, <2>1 DEF TurnsInv
<1> QED BY <1>2, <1>6, <1>9, <1>10, <1>11 DEF AnswerInv

LEMMA AcceptKeeps ==
    ASSUME AnswerInv, NEW p \in Procs, TakeAnswer(p), Accepts(p)
    PROVE  AnswerInv'
<1> DEFINE d == Head(answers).of
           c == mine[p]
           q == seq[p]
<1>1. LeaseInv /\ RequestTypes BY DEF AnswerInv
<1>2. LeaseInv' BY <1>1, LeaseStepKeeps DEF ControlStep
<1>3. /\ ppc[p] = "waiting" /\ answers # <<>> /\ answers' = Tail(answers)
      /\ UNCHANGED <<mine, requests, sessions>>
  BY DEF TakeAnswer
<1>4. /\ Way # <<>> /\ Way' = Tail(Way) /\ Way[1] = d
      /\ answers' \in Seq(Arrived) /\ Head(answers) \in Arrived
  BY <1>1, <1>3, AnswerRead
<1>5. /\ log \in Seq(LogEntry) /\ sessions \in Nat /\ Way \in Seq(Nat) /\ d \in Nat
      /\ seq \in [Procs -> 0..(SeqValues - 1)] /\ mine \in [Procs -> Nat]
  BY <1>1, <1>4, WayTyped DEF RequestTypes, Arrived
<1>6. Newest(log, sessions, q, c) /\ c \in 1..Len(log)
  BY <1>3 DEF AnswerInv, WaitInv, Newest, Commands
<1>7. log' = [log EXCEPT ![c].answer = d] /\ log[d].kind # "discover" /\ log[d].seq = q
      /\ NextSeq(p) /\ Move(p, "idle") /\ UNCHANGED lease
  BY DEF Accepts, Returns, Matches
<1>8. seq' = [seq EXCEPT ![p] = (q + 1) % SeqValues] BY <1>5, <1>7 DEF NextSeq
<1>9. lease = p /\ lease' = p /\ lease # Nobody
  BY <1>1, <1>3, <1>7, ControlAssumption DEF LeaseInv, OneOwner, Inside
<1>10. PICK t, n : Turns(log, sessions, q, Way, t, n) BY <1>9 DEF AnswerInv, TurnsInv
<1>11. WayInv(Way, log) /\ LogInv(log, sessions) /\ AnswersInv(log) BY DEF AnswerInv, PipeInv
<1> HIDE DEF d, c, q
<1>12. log' \in Seq(LogEntry) /\ Answered(log, log', c, d)
  BY <1>5, <1>6, <1>7, ReturnsParts
<1>13. LogInv(log', sessions) /\ AnswersInv(log') /\ WayInv(Tail(Way), log')
  <2>1. log[Way[1]].kind # "discover" /\ log[Way[1]].seq = q /\ Answered(log, log', c, Way[1])
    BY <1>4, <1>7, <1>12
  <2> QED BY <1>4, <1>5, <1>6, <1>10, <1>11, <1>12, <2>1, AcceptedLog
<1>14. Turns(log', sessions, (q + 1) % SeqValues, Tail(Way), t, n + 1)
  BY <1>4, <1>5, <1>6, <1>10, <1>11, <1>12, AcceptedTurns
<1>15. seq' \in [Procs -> 0..(SeqValues - 1)] /\ seq'[p] = (q + 1) % SeqValues
  <2>1. (q + 1) % SeqValues \in 0..(SeqValues - 1)
    <3>1. q \in Nat /\ SeqValues \in Nat \ {0} BY <1>5, ControlAssumption DEF q
    <3> QED BY <3>1
  <2> QED BY <1>5, <1>8, <2>1
<1>16. RequestTypes' BY <1>1, <1>3, <1>4, <1>12, <1>15 DEF RequestTypes
<1>17. PipeInv' BY <1>3, <1>4, <1>13 DEF PipeInv
<1>18. WaitInv'
  <2>1. ASSUME NEW o \in Procs, ppc'[o] = "waiting" PROVE FALSE
    <3>1. ppc[o] = "waiting" /\ o # p BY <1>1, <1>7, <2>1, MoveWaits
    <3>2. lease = o BY <1>1, <3>1 DEF LeaseInv, OneOwner, Inside
    <3> QED BY <1>9, <3>1, <3>2
  <2> QED BY <2>1 DEF WaitInv
<1>19. TurnsInv' BY <1>3, <1>4, <1>9, <1>14, <1>15 DEF TurnsInv
<1> QED BY <1>2, <1>16, <1>17, <1>18, <1>19 DEF AnswerInv

LEMMA InitAnswers == ControlInit => AnswerInv
<1> SUFFICES ASSUME ControlInit PROVE AnswerInv
  OBVIOUS
<1>1. /\ log = <<>> /\ requests = <<>> /\ answers = <<>> /\ sessions = 0 /\ lease = Nobody
      /\ seq = [p \in Procs |-> 0] /\ mine = [p \in Procs |-> 0]
      /\ ppc = [p \in Procs |-> "out"]
  BY DEF ControlInit
<1>2. RequestTypes
  <2>1. 0 \in 0..(SeqValues - 1) /\ 0 \in Nat BY ControlAssumption
  <2>2. <<>> \in Seq(LogEntry) /\ <<>> \in Seq(Nat) /\ <<>> \in Seq(Arrived) BY EmptySeq
  <2> QED BY <1>1, <2>1, <2>2 DEF RequestTypes
<1>3. LeaseInv BY InitLease
<1>4. WaitInv BY <1>1 DEF WaitInv
<1>5. Len(Way) = 0 /\ Len(log) = 0 BY <1>1, <1>2, WayTyped
<1>6. PipeInv BY <1>5 DEF PipeInv, WayInv, LogInv, AnswersInv
<1>7. TurnsInv BY <1>1 DEF TurnsInv
<1> QED BY <1>2, <1>3, <1>4, <1>6, <1>7 DEF AnswerInv

LEMMA AnswerInvKept ==
    AnswerInv /\ FewerThanNumbers' /\ [ControlNext]_controlVars => AnswerInv'
<1>1. ASSUME AnswerInv, UNCHANGED controlVars PROVE AnswerInv'
  BY <1>1 DEF controlVars, AnswerInv, RequestTypes, LeaseInv, LeaseTypes, OneOwner, WaitInv,
     PipeInv, TurnsInv, Way
<1>2. ASSUME AnswerInv, FewerThanNumbers', NEW p \in Procs, ControlStep(p) PROVE AnswerInv'
  <2>1. CASE Probe(p) BY <1>2, <2>1, ProbeKeeps
  <2>2. CASE Construct(p) BY <1>2, <2>2, ConstructKeeps
  <2>3. CASE SendCommand(p) BY <1>2, <2>3, SendCommandKeeps
  <2>4. CASE TakeAnswer(p) /\ Accepts(p) BY <1>2, <2>4, AcceptKeeps
  <2>5. CASE \/ ProbeRead(p) \/ ProbeTimeout(p) \/ Rejected(p) \/ Close(p) \/ Die(p)
             \/ CommandTimeout(p)
             \/ TakeAnswer(p) /\ ~Accepts(p)
    BY <1>2, <2>5, QuietStepKeeps
  <2> QED BY <1>2, <2>1, <2>2, <2>3, <2>4, <2>5 DEF ControlStep
<1> QED BY <1>1, <1>2, DeviceAnswerKeeps DEF ControlNext

\* A command returns its own answer, or that of a command that failed before it
\* and after which none of its session returned, or, as long as its session has
\* had no answer of its own, that of an earlier session: if the device holds at
\* no time more packets than _seq has numbers.
THEOREM StaleAnswersBounded == ControlSpec /\ []FewerThanNumbers => []StaleAnswerBounded
<1>1. AnswerInv => StaleAnswerBounded
  <2> SUFFICES ASSUME AnswerInv, NEW c \in 1..Len(log), log[c].answer # 0, log[c].answer # c
               PROVE  Excused(log, c, log[c].answer)
    BY DEF StaleAnswerBounded, Returned, Excused, Before
  <2> QED BY DEF AnswerInv, PipeInv, AnswersInv
<1> QED BY InitAnswers, AnswerInvKept, <1>1, PTL DEF ControlSpec

-----------------------------------------------------------------------------
(* FlashUpdate *)

\* The places by what they ask of the controller.
EnteringMode == {"mode", "settle"}
Erasing == {"erase_busy", "erase_done"}
Programming == {"send", "programmed", "ack", "drain"}
EndingProgram == {"stop", "final"}
Reading == {"ring", "read", "packet", "read_done", "verify", "leave", "success"}
Undoing == {"off", "undo_program", "undo_mode"}
Packets == [address: Flash!Chunks, data: 0..Flash!Junk]
Tools == [at: Flash!Places, only: BOOLEAN, updateMode: BOOLEAN, programming: BOOLEAN, n: 0..NumChunks]
Chips == [mode: BOOLEAN, op: {"idle", "erase", "program", "read"}, begun: BOOLEAN, arg: Nat,
          stop: BOOLEAN, eraseDone: BOOLEAN, chunkDone: BOOLEAN, readDone: BOOLEAN]
Pipes == [on: BOOLEAN, q: Seq(Packets)]
Lucks == [faults: Nat, runs: Nat, clash: BOOLEAN]

\* What the tool knows of the operation that runs: none but its own, and that one has
\* begun where the tool is past a wait that says so.
OwnOperation ==
    /\ tool.at \in EnteringMode /\ chip.op # "idle" => chip.begun
    /\ tool.at \in {"erase", "program"} => chip.op = "idle"
    /\ tool.at \in Erasing => chip.op \in {"idle", "erase"}
    /\ tool.at = "erase_done" /\ chip.op = "erase" => chip.begun
    /\ tool.at \in Programming \cup EndingProgram => chip.op \in {"idle", "program"}
    /\ tool.at \in EndingProgram /\ chip.op = "program" => chip.begun
    /\ tool.at \in Reading => chip.op = "idle" \/ (chip.op = "read" /\ tool.at = "packet")
\* A chunk that was sent to a controller which has not begun is still in the FIFO.
SentIsThere ==
    tool.at \in Programming /\ (tool.at # "send" \/ tool.n # 1) /\ chip.op = "program" /\ ~chip.begun
        => fifo # <<>>
\* The block or the chunk the tool is at.
ToolPosition ==
    /\ tool.at \in {"send", "programmed", "ack", "ring", "read", "packet", "read_done"}
       => tool.n \in Flash!Chunks
    /\ tool.at = "program" => tool.n = 1
    /\ chip.op = "read" => chip.arg \in Flash!Chunks
    /\ tool.at = "packet" /\ chip.op = "read" => chip.arg = tool.n
\* What was read is in the flash: nothing has changed it since the reading began.
ReadIsThere ==
    /\ tool.at \notin Undoing /\ tool.at \notin Reading => readback = <<>>
    /\ tool.at = "ring" => readback = <<>> /\ tool.n = 1
    /\ tool.at \in {"read", "packet"} => Len(readback) = tool.n - 1
    /\ tool.at = "read_done" => Len(readback) = tool.n
    /\ tool.at = "verify" => Len(readback) = NumChunks
    /\ tool.at \in {"read", "packet", "read_done", "verify"} =>
          \A c \in Flash!Chunks: c <= Len(readback) => readback[c] = flash[c]
    /\ tool.at \in {"leave", "success"} => \A c \in Flash!Chunks: flash[c] = c
\* The ring holds the packet of the chunk that is read, or none.
OnePacket ==
    /\ tool.at \in {"read", "read_done"} => pipe.q = <<>>
    /\ tool.at = "packet" =>
          \/ pipe.q = <<>>
          \/ chip.op = "idle" /\ pipe.q = <<[address |-> tool.n, data |-> flash[tool.n]]>>
FlashInv ==
    /\ Flash!FlashTypeOK /\ OwnOperation /\ SentIsThere /\ ToolPosition /\ ReadIsThere /\ OnePacket
    /\ luck \in Lucks /\ Flash!CommandsMeetIdleChip

-----------------------------------------------------------------------------

\* There are no more blocks than chunks.
LEMMA BlocksAreFew ==
    ASSUME NumChunks \in Nat \ {0}, PerBlock \in Nat \ {0}
    PROVE  Flash!Blocks \subseteq 0..NumChunks
<1> DEFINE q == (NumChunks + PerBlock - 1) \div PerBlock
<1>1. q \in Nat /\ PerBlock * q <= NumChunks + PerBlock - 1 BY Z3
<1>2. ASSUME q > NumChunks PROVE FALSE
  <2>1. q >= NumChunks + 1 BY <1>1, <1>2
  <2> HIDE DEF q
  <2>2. PerBlock * q >= PerBlock * (NumChunks + 1) BY <1>1, <2>1, Z3
  <2>3. PerBlock * (NumChunks + 1) = PerBlock * NumChunks + PerBlock BY Z3
  <2>4. PerBlock * NumChunks >= NumChunks BY Z3
  <2> QED BY <1>1, <2>2, <2>3, <2>4
<1>3. q <= NumChunks BY <1>1, <1>2
<1> QED BY <1>1, <1>3 DEF Flash!Blocks

\* A ring that was emptied, or stopped.
LEMMA PipesAre ==
    /\ [on |-> FALSE, q |-> <<>>] \in Pipes /\ [on |-> FALSE, q |-> <<>>].q = <<>>
    /\ \A p \in Pipes: [p EXCEPT !.q = <<>>] \in Pipes /\ [p EXCEPT !.q = <<>>].q = <<>>
<1>1. <<>> \in Seq(Packets) OBVIOUS
<1> DEFINE none == <<>>
<1> DEFINE lists == Seq(Packets)
<1>2. none \in lists BY <1>1
<1> HIDE DEF none, lists
<1>3. Pipes = [on: BOOLEAN, q: lists] BY DEF Pipes, lists
<1>4. [on |-> FALSE, q |-> none] \in Pipes /\ [on |-> FALSE, q |-> none].q = none BY <1>2, <1>3
<1>5. \A p \in Pipes: [p EXCEPT !.q = none] \in Pipes /\ [p EXCEPT !.q = none].q = none
  BY <1>2, <1>3
<1> QED BY <1>4, <1>5 DEF none

LEMMA FlashTyped ==
    Flash!FlashTypeOK <=>
       /\ tool \in Tools /\ readback \in Seq(0..Flash!Junk) /\ flash \in [Flash!Chunks -> 0..Flash!Junk]
       /\ fifo \in Seq(Flash!Chunks) /\ chip \in Chips /\ pipe \in Pipes
BY DEF Flash!FlashTypeOK, Tools, Chips, Pipes, Packets

\* A run that is given up: nothing is asked of its place.
LEMMA GivenUp ==
    ASSUME Flash!FlashTypeOK', tool'.at \in Undoing, chip'.op = "read" => chip'.arg \in Flash!Chunks,
           luck' \in Lucks, Flash!CommandsMeetIdleChip'
    PROVE  FlashInv'
BY DEF FlashInv, OwnOperation, SentIsThere, ToolPosition, ReadIsThere, OnePacket, Undoing,
    EnteringMode, Erasing, Programming, EndingProgram, Reading

LEMMA GotoIs ==
    ASSUME Flash!FlashTypeOK, NEW place \in Flash!Places, NEW n \in 0..NumChunks, Flash!Goto(place, n)
    PROVE  tool' \in Tools /\ tool'.at = place /\ tool'.n = n
BY DEF Flash!Goto, Flash!FlashTypeOK, Tools

LEMMA ThrowIs ==
    ASSUME Flash!FlashTypeOK, Flash!Throw
    PROVE  tool' \in Tools /\ tool'.at \in Undoing /\ pipe' \in Pipes
<1> DEFINE place == IF tool.programming THEN "undo_program"
                    ELSE IF tool.updateMode THEN "undo_mode" ELSE "off"
<1>1. place \in Flash!Places /\ place \in Undoing BY DEF Flash!Places, Undoing
<1>2. tool' = [tool EXCEPT !.at = place] /\ pipe' = [on |-> FALSE, q |-> <<>>] BY DEF Flash!Throw
<1>3. tool \in Tools BY FlashTyped
<1> HIDE DEF place
<1>4. tool' \in Tools /\ tool'.at = place BY <1>1, <1>2, <1>3 DEF Tools
<1>5. pipe' \in Pipes BY <1>2 DEF Pipes
<1> QED BY <1>1, <1>4, <1>5

LEMMA LuckIs ==
    ASSUME luck \in Lucks, Flash!Lucky \/ Flash!Unlucky
    PROVE  luck' \in Lucks /\ luck'.clash = luck.clash
<1> DEFINE f == luck.faults + 1
<1>1. f \in Nat BY DEF Lucks
<1>2. luck' = luck \/ luck' = [luck EXCEPT !.faults = f] BY DEF Flash!Lucky, Flash!Unlucky
<1> HIDE DEF f
<1> QED BY <1>1, <1>2 DEF Lucks

\* A step that throws, whatever it did to the controller's flags.
LEMMA ThrowKeeps ==
    ASSUME FlashInv, Flash!Throw, Flash!Lucky \/ Flash!Unlucky, chip' \in Chips,
           chip'.op = chip.op, chip'.arg = chip.arg, UNCHANGED <<readback, flash, fifo>>
    PROVE  FlashInv'
<1>1. Flash!FlashTypeOK /\ luck \in Lucks /\ Flash!CommandsMeetIdleChip /\ ToolPosition BY DEF FlashInv
<1>2. tool' \in Tools /\ tool'.at \in Undoing /\ pipe' \in Pipes BY <1>1, ThrowIs
<1>3. luck' \in Lucks /\ luck'.clash = luck.clash BY <1>1, LuckIs
<1>4. Flash!FlashTypeOK' BY <1>1, <1>2 DEF Flash!FlashTypeOK, Tools, Chips, Pipes, Packets
<1>5. Flash!CommandsMeetIdleChip' BY <1>1, <1>3 DEF Flash!CommandsMeetIdleChip
<1>6. chip'.op = "read" => chip'.arg \in Flash!Chunks BY <1>1 DEF ToolPosition
<1> QED BY <1>2, <1>3, <1>4, <1>5, <1>6, GivenUp

\* A step of the tool that only looks, at what it is told, and goes on.
LEMMA LooksKeeps ==
    ASSUME Flash!FlashParameters, FlashInv,
           Flash!Settle \/ Flash!EraseStarted \/ Flash!EraseFinished \/ Flash!ChunkProgrammed
              \/ Flash!Drained \/ Flash!ProgramFinished
    PROVE  FlashInv'
<1>1. Flash!FlashTypeOK /\ luck \in Lucks /\ Flash!CommandsMeetIdleChip BY DEF FlashInv
<1>2. tool \in Tools /\ chip \in Chips /\ NumChunks \in Nat \ {0} /\ PerBlock \in Nat \ {0}
  BY <1>1, FlashTyped DEF Flash!FlashParameters
<1>3. UNCHANGED <<readback, chip, flash, fifo, pipe, luck>>
  BY DEF Flash!Settle, Flash!EraseStarted, Flash!EraseFinished, Flash!ChunkProgrammed, Flash!Drained,
     Flash!ProgramFinished
<1>4. CASE Flash!Settle
  <2>1. \/ tool'.at = "ring" /\ tool'.n = 1 /\ tool' \in Tools
        \/ tool'.at = "erase" /\ tool'.n = 1 /\ tool' \in Tools
    BY <1>1, <1>2, <1>4, GotoIs DEF Flash!Settle, Flash!Places
  <2>2. tool.at = "settle" /\ chip.op = "idle"
    BY <1>4 DEF Flash!Settle, Flash!Settled, Flash!Busy, FlashInv, OwnOperation, EnteringMode
  <2>3. Flash!FlashTypeOK' BY <1>1, <1>3, <2>1 DEF Flash!FlashTypeOK, Tools, Chips
  <2> QED BY <1>1, <1>2, <1>3, <2>1, <2>2, <2>3
       DEF FlashInv, OwnOperation, SentIsThere, ToolPosition, ReadIsThere, OnePacket, Undoing,
           EnteringMode, Erasing, Programming, EndingProgram, Reading, Flash!CommandsMeetIdleChip,
           Flash!Chunks
<1>5. CASE Flash!EraseStarted
  <2>1. tool'.at = "erase_done" /\ tool'.n = tool.n /\ tool' \in Tools
    BY <1>1, <1>2, <1>5, GotoIs DEF Flash!EraseStarted, Flash!Places, Tools
  <2>2. tool.at = "erase_busy" /\ chip.begun BY <1>5 DEF Flash!EraseStarted, Flash!BusySeen, Flash!Busy
  <2>3. Flash!FlashTypeOK' BY <1>1, <1>3, <2>1 DEF Flash!FlashTypeOK, Tools, Chips
  <2> QED BY <1>1, <1>2, <1>3, <2>1, <2>2, <2>3
       DEF FlashInv, OwnOperation, SentIsThere, ToolPosition, ReadIsThere, OnePacket, Undoing,
           EnteringMode, Erasing, Programming, EndingProgram, Reading, Flash!CommandsMeetIdleChip,
           Flash!Chunks
<1>6. CASE Flash!EraseFinished
  <2>1. \/ tool'.at = "erase" /\ tool' \in Tools
        \/ tool'.at = "program" /\ tool'.n = 1 /\ tool' \in Tools
    <3>1. CASE tool.n + 1 \in Flash!Blocks
      <4>1. tool.n + 1 \in 0..NumChunks BY <1>2, <3>1, BlocksAreFew
      <4> QED BY <1>1, <1>6, <3>1, <4>1, GotoIs DEF Flash!EraseFinished, Flash!Places
    <3>2. CASE tool.n + 1 \notin Flash!Blocks
      BY <1>1, <1>2, <1>6, <3>2, GotoIs DEF Flash!EraseFinished, Flash!Places
    <3> QED BY <3>1, <3>2
  <2>2. tool.at = "erase_done" /\ chip.op = "idle"
    BY <1>2, <1>6 DEF Flash!EraseFinished, Flash!Busy, FlashInv, OwnOperation, Erasing, Chips
  <2>3. Flash!FlashTypeOK' BY <1>1, <1>3, <2>1 DEF Flash!FlashTypeOK, Tools, Chips
  <2> QED BY <1>1, <1>2, <1>3, <2>1, <2>2, <2>3
       DEF FlashInv, OwnOperation, SentIsThere, ToolPosition, ReadIsThere, OnePacket, Undoing,
           EnteringMode, Erasing, Programming, EndingProgram, Reading, Flash!CommandsMeetIdleChip,
           Flash!Chunks
<1>7. CASE Flash!ChunkProgrammed
  <2>1. tool'.at = "ack" /\ tool'.n = tool.n /\ tool' \in Tools
    BY <1>1, <1>2, <1>7, GotoIs DEF Flash!ChunkProgrammed, Flash!Places, Tools
  <2>2. tool.at = "programmed" BY <1>7 DEF Flash!ChunkProgrammed
  <2>3. Flash!FlashTypeOK' BY <1>1, <1>3, <2>1 DEF Flash!FlashTypeOK, Tools, Chips
  <2> QED BY <1>1, <1>2, <1>3, <2>1, <2>2, <2>3
       DEF FlashInv, OwnOperation, SentIsThere, ToolPosition, ReadIsThere, OnePacket, Undoing,
           EnteringMode, Erasing, Programming, EndingProgram, Reading, Flash!CommandsMeetIdleChip,
           Flash!Chunks
<1>8. CASE Flash!Drained
  <2>1. tool'.at = "stop" /\ tool'.n = 0 /\ tool' \in Tools
    BY <1>1, <1>2, <1>8, GotoIs DEF Flash!Drained, Flash!Places
  <2>2. tool.at = "drain" /\ fifo = <<>> BY <1>8 DEF Flash!Drained
  <2>3. Flash!FlashTypeOK' BY <1>1, <1>3, <2>1 DEF Flash!FlashTypeOK, Tools, Chips
  <2> QED BY <1>1, <1>2, <1>3, <2>1, <2>2, <2>3
       DEF FlashInv, OwnOperation, SentIsThere, ToolPosition, ReadIsThere, OnePacket, Undoing,
           EnteringMode, Erasing, Programming, EndingProgram, Reading, Flash!CommandsMeetIdleChip,
           Flash!Chunks
<1>9. CASE Flash!ProgramFinished
  <2>1. tool'.at = "ring" /\ tool'.n = 1 /\ tool' \in Tools
    <3>1. 1 \in 0..NumChunks /\ "ring" \in Flash!Places BY <1>2 DEF Flash!Places
    <3> QED BY <1>2, <1>9, <3>1 DEF Flash!ProgramFinished, Tools
  <2>2. tool.at = "final" /\ chip.op = "idle"
    BY <1>2, <1>9 DEF Flash!ProgramFinished, Flash!Busy, FlashInv, OwnOperation, EndingProgram, Chips
  <2>3. Flash!FlashTypeOK' BY <1>1, <1>3, <2>1 DEF Flash!FlashTypeOK, Tools, Chips
  <2> QED BY <1>1, <1>2, <1>3, <2>1, <2>2, <2>3
       DEF FlashInv, OwnOperation, SentIsThere, ToolPosition, ReadIsThere, OnePacket, Undoing,
           EnteringMode, Erasing, Programming, EndingProgram, Reading, Flash!CommandsMeetIdleChip,
           Flash!Chunks
<1> QED BY <1>4, <1>5, <1>6, <1>7, <1>8, <1>9

\* A process begins, with what an earlier one asked of the controller begun.
LEMMA RunToolKeeps ==
    ASSUME Flash!FlashParameters, FlashInv, NEW only \in BOOLEAN, Flash!RunTool(only)
    PROVE  FlashInv'
<1>1. Flash!FlashTypeOK /\ luck \in Lucks /\ Flash!CommandsMeetIdleChip BY DEF FlashInv
<1>2. tool' \in Tools /\ tool'.at = "mode" /\ readback' = <<>> /\ pipe' \in Pipes
  BY DEF Flash!RunTool, Tools, Flash!Places, Pipes, Flash!FlashParameters
<1>3. UNCHANGED <<chip, flash, fifo>> /\ (chip.op # "idle" => chip.begun) BY DEF Flash!RunTool
<1>4. luck' \in Lucks /\ luck'.clash = luck.clash
  <2> DEFINE r == luck.runs + 1
  <2>1. r \in Nat /\ luck' = [luck EXCEPT !.runs = r] BY <1>1 DEF Lucks, Flash!RunTool
  <2> HIDE DEF r
  <2> QED BY <1>1, <2>1 DEF Lucks
<1>5. Flash!FlashTypeOK' BY <1>1, <1>2, <1>3 DEF Flash!FlashTypeOK, Tools, Pipes, Packets
<1> QED BY <1>1, <1>2, <1>3, <1>4, <1>5
     DEF FlashInv, OwnOperation, SentIsThere, ToolPosition, ReadIsThere, OnePacket, Undoing,
           EnteringMode, Erasing, Programming, EndingProgram, Reading, Flash!CommandsMeetIdleChip,
           Flash!Chunks

\* A command of a flag, that fails or not.
LEMMA FlagsKeep ==
    ASSUME Flash!FlashParameters, FlashInv, Flash!EnterMode \/ Flash!AckChunk \/ Flash!StopProgram
            \/ Flash!LeaveMode
    PROVE  FlashInv'
<1>1. Flash!FlashTypeOK /\ luck \in Lucks /\ Flash!CommandsMeetIdleChip BY DEF FlashInv
<1>2. tool \in Tools /\ chip \in Chips /\ NumChunks \in Nat \ {0}
  BY <1>1, FlashTyped DEF Flash!FlashParameters
<1>3. UNCHANGED <<readback, flash, fifo>>
  BY DEF Flash!EnterMode, Flash!AckChunk, Flash!StopProgram, Flash!LeaveMode
<1>4. /\ chip' \in Chips /\ chip'.op = chip.op /\ chip'.arg = chip.arg /\ chip'.begun = chip.begun
  <2>1. \/ chip' = chip \/ chip' = [chip EXCEPT !.mode = TRUE] \/ chip' = [chip EXCEPT !.mode = FALSE]
        \/ chip' = [chip EXCEPT !.chunkDone = FALSE] \/ chip' = [chip EXCEPT !.stop = TRUE]
    BY DEF Flash!EnterMode, Flash!AckChunk, Flash!StopProgram, Flash!LeaveMode, Flash!Command
  <2> QED BY <1>2, <2>1 DEF Chips
<1>5. CASE Flash!Throw /\ Flash!Unlucky BY <1>3, <1>4, <1>5, ThrowKeeps
<1>6. CASE Flash!Lucky /\ UNCHANGED pipe /\ ~(Flash!Throw /\ Flash!Unlucky)
  <2>1. luck' = luck /\ pipe' = pipe BY <1>6 DEF Flash!Lucky
  <2>2. CASE Flash!EnterMode
    <3>1. tool.at = "mode" /\ tool' = [tool EXCEPT !.at = "settle", !.updateMode = TRUE]
      BY <1>6, <2>2 DEF Flash!EnterMode, Flash!Command
    <3>2. tool'.at = "settle" /\ tool' \in Tools BY <1>2, <3>1 DEF Tools, Flash!Places
    <3>3. Flash!FlashTypeOK' BY <1>1, <1>3, <1>4, <2>1, <3>2 DEF Flash!FlashTypeOK, Tools, Chips
    <3> QED BY <1>1, <1>3, <1>4, <2>1, <3>1, <3>2, <3>3
         DEF FlashInv, OwnOperation, SentIsThere, ToolPosition, ReadIsThere, OnePacket, Undoing,
           EnteringMode, Erasing, Programming, EndingProgram, Reading, Flash!CommandsMeetIdleChip,
           Flash!Chunks
  <2>3. CASE Flash!AckChunk
    <3>1. \/ tool.n < NumChunks /\ Flash!Goto("send", tool.n + 1)
          \/ ~(tool.n < NumChunks) /\ Flash!Goto("drain", 0)
      BY <1>6, <2>3 DEF Flash!AckChunk, Flash!Command
    <3>2. tool.at = "ack" /\ tool.n \in Flash!Chunks BY <2>3 DEF Flash!AckChunk, FlashInv, ToolPosition
    <3>3. \/ tool'.at = "send" /\ tool'.n = tool.n + 1 /\ tool'.n \in Flash!Chunks /\ tool' \in Tools
          \/ tool'.at = "drain" /\ tool'.n = 0 /\ tool' \in Tools
      BY <1>1, <1>2, <3>1, <3>2, GotoIs DEF Flash!Places, Flash!Chunks
    <3>4. Flash!FlashTypeOK' BY <1>1, <1>3, <1>4, <2>1, <3>3 DEF Flash!FlashTypeOK, Tools, Chips
    <3> QED BY <1>1, <1>2, <1>3, <1>4, <2>1, <3>2, <3>3, <3>4
         DEF FlashInv, OwnOperation, SentIsThere, ToolPosition, ReadIsThere, OnePacket, Undoing,
           EnteringMode, Erasing, Programming, EndingProgram, Reading, Flash!CommandsMeetIdleChip,
           Flash!Chunks
  <2>4. CASE Flash!StopProgram
    <3>1. tool.at = "stop" /\ Flash!Goto("final", 0) BY <1>6, <2>4 DEF Flash!StopProgram, Flash!Command
    <3>2. tool'.at = "final" /\ tool' \in Tools BY <1>1, <1>2, <3>1, GotoIs DEF Flash!Places
    <3>3. Flash!FlashTypeOK' BY <1>1, <1>3, <1>4, <2>1, <3>2 DEF Flash!FlashTypeOK, Tools, Chips
    <3> QED BY <1>1, <1>3, <1>4, <2>1, <3>1, <3>2, <3>3
         DEF FlashInv, OwnOperation, SentIsThere, ToolPosition, ReadIsThere, OnePacket, Undoing,
           EnteringMode, Erasing, Programming, EndingProgram, Reading, Flash!CommandsMeetIdleChip,
           Flash!Chunks
  <2>5. CASE Flash!LeaveMode
    <3>1. tool.at = "leave" /\ tool' = [tool EXCEPT !.at = "success", !.updateMode = FALSE]
      BY <1>6, <2>5 DEF Flash!LeaveMode, Flash!Command
    <3>2. tool'.at = "success" /\ tool' \in Tools BY <1>2, <3>1 DEF Tools, Flash!Places
    <3>3. Flash!FlashTypeOK' BY <1>1, <1>3, <1>4, <2>1, <3>2 DEF Flash!FlashTypeOK, Tools, Chips
    <3> QED BY <1>1, <1>3, <1>4, <2>1, <3>1, <3>2, <3>3
         DEF FlashInv, OwnOperation, SentIsThere, ToolPosition, ReadIsThere, OnePacket, Undoing,
           EnteringMode, Erasing, Programming, EndingProgram, Reading, Flash!CommandsMeetIdleChip,
           Flash!Chunks
  <2> QED BY <2>2, <2>3, <2>4, <2>5
<1> QED BY <1>5, <1>6 DEF Flash!EnterMode, Flash!AckChunk, Flash!StopProgram, Flash!LeaveMode, Flash!Command

\* An operation that is started meets an idle controller.
LEMMA StartIs ==
    ASSUME FlashInv, NEW op \in {"erase", "program", "read"}, NEW arg \in Nat, NEW ACTION goes,
           Flash!StartOperation(op, arg, goes), tool.at \in {"erase", "program", "read"}
    PROVE  /\ luck' \in Lucks /\ luck'.clash = FALSE
           /\ \/ /\ goes /\ UNCHANGED pipe /\ chip' \in Chips
                 /\ chip'.op = op /\ chip'.arg = arg /\ ~chip'.begun
              \/ /\ Flash!Throw /\ chip' \in Chips
                 /\ chip' = chip \/ (chip'.op = op /\ chip'.arg = arg)
<1>1. chip \in Chips /\ luck \in Lucks /\ luck.clash = FALSE
  BY FlashTyped DEF FlashInv, Flash!CommandsMeetIdleChip, Lucks
<1>2. chip.op = "idle" BY DEF FlashInv, OwnOperation, Reading
<1>3. Flash!Operation(op, arg) => /\ chip' \in Chips /\ chip'.op = op /\ chip'.arg = arg /\ ~chip'.begun
  BY <1>1, <1>2 DEF Flash!Operation, Chips
<1>4. luck' \in Lucks /\ luck'.clash = FALSE
  <2> DEFINE f == luck.faults + 1
  <2> DEFINE c == luck.clash \/ chip.op # "idle"
  <2>1. f \in Nat /\ c = FALSE BY <1>1, <1>2 DEF Lucks
  <2>2. luck' = [luck EXCEPT !.clash = c] \/ luck' = [luck EXCEPT !.faults = f, !.clash = c]
    BY DEF Flash!StartOperation
  <2> HIDE DEF f, c
  <2> QED BY <1>1, <2>1, <2>2 DEF Lucks
<1> QED BY <1>1, <1>3, <1>4 DEF Flash!StartOperation

\* ERASE, PROGRAM and READ are sent.
LEMMA StartsKeep ==
    ASSUME Flash!FlashParameters, FlashInv, Flash!EraseBlock \/ Flash!StartProgram \/ Flash!ReadChunk
    PROVE  FlashInv'
<1>1. Flash!FlashTypeOK /\ luck \in Lucks /\ Flash!CommandsMeetIdleChip BY DEF FlashInv
<1>2. tool \in Tools /\ chip \in Chips /\ NumChunks \in Nat \ {0} /\ tool.n \in Nat
  BY <1>1, FlashTyped DEF Flash!FlashParameters, Tools
<1>3. UNCHANGED <<readback, flash, fifo>> BY DEF Flash!EraseBlock, Flash!StartProgram, Flash!ReadChunk
<1>4. ASSUME NEW op \in {"erase", "program", "read"}, Flash!Throw, luck' \in Lucks, luck'.clash = FALSE,
             chip' \in Chips, op = "read" => tool.n \in Flash!Chunks,
             chip' = chip \/ (chip'.op = op /\ (op = "read" => chip'.arg = tool.n))
      PROVE  FlashInv'
  <2>1. tool' \in Tools /\ tool'.at \in Undoing /\ pipe' \in Pipes BY <1>1, <1>4, ThrowIs
  <2>2. Flash!FlashTypeOK' BY <1>1, <1>3, <1>4, <2>1 DEF Flash!FlashTypeOK, Tools, Chips, Pipes, Packets
  <2>3. Flash!CommandsMeetIdleChip' BY <1>4 DEF Flash!CommandsMeetIdleChip
  <2>4. chip'.op = "read" => chip'.arg \in Flash!Chunks BY <1>4 DEF FlashInv, ToolPosition
  <2> QED BY <1>4, <2>1, <2>2, <2>3, <2>4, GivenUp
<1>5. CASE Flash!EraseBlock
  <2>1. tool.at = "erase" /\ Flash!StartOperation("erase", tool.n, Flash!Goto("erase_busy", tool.n))
    BY <1>5 DEF Flash!EraseBlock
  <2>2. /\ luck' \in Lucks /\ luck'.clash = FALSE
        /\ \/ /\ Flash!Goto("erase_busy", tool.n) /\ UNCHANGED pipe /\ chip' \in Chips
              /\ chip'.op = "erase" /\ chip'.arg = tool.n /\ ~chip'.begun
           \/ /\ Flash!Throw /\ chip' \in Chips
              /\ chip' = chip \/ (chip'.op = "erase" /\ chip'.arg = tool.n)
    BY <1>2, <2>1, StartIs
  <2>3. CASE Flash!Throw BY <1>4, <2>2, <2>3
  <2>4. CASE ~Flash!Throw
    <3>1. tool'.at = "erase_busy" /\ tool' \in Tools BY <1>1, <1>2, <2>2, <2>4, GotoIs DEF Flash!Places, Tools
    <3>2. Flash!FlashTypeOK' BY <1>1, <1>3, <2>2, <2>4, <3>1 DEF Flash!FlashTypeOK, Tools, Chips
    <3> QED BY <1>1, <1>3, <2>1, <2>2, <2>4, <3>1, <3>2
         DEF FlashInv, OwnOperation, SentIsThere, ToolPosition, ReadIsThere, OnePacket, Undoing,
           EnteringMode, Erasing, Programming, EndingProgram, Reading, Flash!CommandsMeetIdleChip,
           Flash!Chunks
  <2> QED BY <2>3, <2>4
<1>6. CASE Flash!StartProgram
  <2> DEFINE goes == tool' = [tool EXCEPT !.at = "send", !.programming = TRUE]
  <2>1. tool.at = "program" /\ Flash!StartOperation("program", 1, goes) BY <1>6 DEF Flash!StartProgram
  <2> HIDE DEF goes
  <2>2. /\ luck' \in Lucks /\ luck'.clash = FALSE
        /\ \/ /\ goes /\ UNCHANGED pipe /\ chip' \in Chips
              /\ chip'.op = "program" /\ chip'.arg = 1 /\ ~chip'.begun
           \/ /\ Flash!Throw /\ chip' \in Chips
              /\ chip' = chip \/ (chip'.op = "program" /\ chip'.arg = 1)
    BY <2>1, StartIs
  <2>3. CASE Flash!Throw BY <1>4, <2>2, <2>3
  <2>4. CASE ~Flash!Throw
    <3>1. tool'.at = "send" /\ tool'.n = tool.n /\ tool' \in Tools
      BY <1>2, <2>2, <2>4 DEF goes, Flash!Places, Tools
    <3>2. Flash!FlashTypeOK' BY <1>1, <1>3, <2>2, <2>4, <3>1 DEF Flash!FlashTypeOK, Tools, Chips
    <3> QED BY <1>1, <1>2, <1>3, <2>1, <2>2, <2>4, <3>1, <3>2
         DEF FlashInv, OwnOperation, SentIsThere, ToolPosition, ReadIsThere, OnePacket, Undoing,
           EnteringMode, Erasing, Programming, EndingProgram, Reading, Flash!CommandsMeetIdleChip,
           Flash!Chunks
  <2> QED BY <2>3, <2>4
<1>7. CASE Flash!ReadChunk
  <2>1. tool.at = "read" /\ Flash!StartOperation("read", tool.n, Flash!Goto("packet", tool.n))
    BY <1>7 DEF Flash!ReadChunk
  <2>2. /\ luck' \in Lucks /\ luck'.clash = FALSE
        /\ \/ /\ Flash!Goto("packet", tool.n) /\ UNCHANGED pipe /\ chip' \in Chips
              /\ chip'.op = "read" /\ chip'.arg = tool.n /\ ~chip'.begun
           \/ /\ Flash!Throw /\ chip' \in Chips
              /\ chip' = chip \/ (chip'.op = "read" /\ chip'.arg = tool.n)
    BY <1>2, <2>1, StartIs
  <2>5. tool.n \in Flash!Chunks BY <2>1 DEF FlashInv, ToolPosition
  <2>3. CASE Flash!Throw BY <1>4, <2>2, <2>3, <2>5
  <2>4. CASE ~Flash!Throw
    <3>1. tool'.at = "packet" /\ tool'.n = tool.n /\ tool' \in Tools
      BY <1>1, <1>2, <2>2, <2>4, GotoIs DEF Flash!Places, Tools
    <3>2. Flash!FlashTypeOK' BY <1>1, <1>3, <2>2, <2>4, <3>1 DEF Flash!FlashTypeOK, Tools, Chips
    <3> QED BY <1>1, <1>2, <1>3, <2>1, <2>2, <2>4, <2>5, <3>1, <3>2
         DEF FlashInv, OwnOperation, SentIsThere, ToolPosition, ReadIsThere, OnePacket, Undoing,
           EnteringMode, Erasing, Programming, EndingProgram, Reading, Flash!CommandsMeetIdleChip,
           Flash!Chunks
  <2> QED BY <2>3, <2>4
<1> QED BY <1>5, <1>6, <1>7

LEMMA SendChunkKeeps ==
    ASSUME Flash!FlashParameters, FlashInv, Flash!SendChunk
    PROVE  FlashInv'
<1>1. Flash!FlashTypeOK /\ luck \in Lucks /\ Flash!CommandsMeetIdleChip BY DEF FlashInv
<1>2. /\ tool \in Tools /\ chip \in Chips /\ NumChunks \in Nat \ {0} /\ fifo \in Seq(Flash!Chunks)
      /\ tool.at = "send" /\ tool.n \in Flash!Chunks
  BY <1>1, FlashTyped DEF Flash!FlashParameters, Flash!SendChunk, FlashInv, ToolPosition
<1>3. UNCHANGED <<readback, chip, flash>> BY DEF Flash!SendChunk
<1>4. CASE UNCHANGED fifo /\ Flash!Throw /\ Flash!Unlucky BY <1>2, <1>3, <1>4, ThrowKeeps
<1>5. CASE fifo' = Append(fifo, tool.n) /\ Flash!Goto("programmed", tool.n) /\ Flash!Lucky /\ UNCHANGED pipe
  <2>1. tool'.at = "programmed" /\ tool'.n = tool.n /\ tool' \in Tools
    BY <1>1, <1>2, <1>5, GotoIs DEF Flash!Places, Tools
  <2>2. fifo' \in Seq(Flash!Chunks) /\ fifo' # <<>> BY <1>2, <1>5
  <2>3. luck' = luck BY <1>5 DEF Flash!Lucky
  <2>4. Flash!FlashTypeOK' BY <1>1, <1>3, <1>5, <2>1, <2>2 DEF Flash!FlashTypeOK, Tools
  <2> QED BY <1>1, <1>2, <1>3, <1>5, <2>1, <2>2, <2>3, <2>4
       DEF FlashInv, OwnOperation, SentIsThere, ToolPosition, ReadIsThere, OnePacket, Undoing,
           EnteringMode, Erasing, Programming, EndingProgram, Reading, Flash!CommandsMeetIdleChip,
           Flash!Chunks
<1> QED BY <1>4, <1>5 DEF Flash!SendChunk

LEMMA StartRingKeeps ==
    ASSUME Flash!FlashParameters, FlashInv, Flash!StartRing
    PROVE  FlashInv'
<1>1. Flash!FlashTypeOK /\ luck \in Lucks /\ Flash!CommandsMeetIdleChip BY DEF FlashInv
<1>2. /\ tool \in Tools /\ chip \in Chips /\ NumChunks \in Nat \ {0}
      /\ tool.at = "ring" /\ tool.n \in Flash!Chunks
  BY <1>1, FlashTyped DEF Flash!FlashParameters, Flash!StartRing, FlashInv, ToolPosition
<1>3. UNCHANGED <<readback, chip, flash, fifo>> BY DEF Flash!StartRing
<1>4. CASE Flash!Throw /\ Flash!Unlucky BY <1>2, <1>3, <1>4, ThrowKeeps
<1>5. CASE pipe' = [on |-> TRUE, q |-> <<>>] /\ Flash!Goto("read", tool.n) /\ Flash!Lucky
  <2>1. tool'.at = "read" /\ tool'.n = tool.n /\ tool' \in Tools
    BY <1>1, <1>2, <1>5, GotoIs DEF Flash!Places, Tools
  <2>2. pipe' \in Pipes /\ pipe'.q = <<>> BY <1>5 DEF Pipes
  <2>3. luck' = luck BY <1>5 DEF Flash!Lucky
  <2>4. Flash!FlashTypeOK' BY <1>1, <1>3, <2>1, <2>2 DEF Flash!FlashTypeOK, Tools, Pipes, Packets
  <2>5. readback = <<>> /\ tool.n = 1 BY <1>2 DEF FlashInv, ReadIsThere
  <2>6. Len(readback) = 0 BY <2>5
  <2> QED BY <1>1, <1>2, <1>3, <2>1, <2>2, <2>3, <2>4, <2>5, <2>6
       DEF FlashInv, OwnOperation, SentIsThere, ToolPosition, ReadIsThere, OnePacket, Undoing,
           EnteringMode, Erasing, Programming, EndingProgram, Reading, Flash!CommandsMeetIdleChip,
           Flash!Chunks
<1> QED BY <1>4, <1>5 DEF Flash!StartRing

LEMMA ReceivePacketKeeps ==
    ASSUME Flash!FlashParameters, FlashInv, Flash!ReceivePacket
    PROVE  FlashInv'
<1>1. Flash!FlashTypeOK /\ luck \in Lucks /\ Flash!CommandsMeetIdleChip BY DEF FlashInv
<1>2. /\ tool \in Tools /\ chip \in Chips /\ pipe \in Pipes /\ NumChunks \in Nat \ {0}
      /\ readback \in Seq(0..Flash!Junk) /\ flash \in [Flash!Chunks -> 0..Flash!Junk]
      /\ tool.at = "packet" /\ tool.n \in Flash!Chunks /\ pipe.q # <<>>
  BY <1>1, FlashTyped DEF Flash!FlashParameters, Flash!ReceivePacket, FlashInv, ToolPosition
<1>3. UNCHANGED <<chip, flash, fifo, luck>> BY DEF Flash!ReceivePacket
<1> DEFINE p == [address |-> tool.n, data |-> flash[tool.n]]
<1>4. chip.op = "idle" /\ pipe.q = <<p>> BY <1>2 DEF FlashInv, OnePacket
<1>5. Head(pipe.q) = p /\ Tail(pipe.q) = <<>>
  <2> HIDE DEF p
  <2>1. Head(<<p>>) = p OBVIOUS
  <2>2. Tail(<<p>>) = <<>> OBVIOUS
  <2> QED BY <1>4, <2>1, <2>2
<1>6. /\ readback' = Append(readback, flash[tool.n]) /\ Flash!Goto("read_done", tool.n)
      /\ pipe' = [pipe EXCEPT !.q = Tail(@)]
  BY <1>5 DEF Flash!ReceivePacket
<1>7. tool'.at = "read_done" /\ tool'.n = tool.n /\ tool' \in Tools
  BY <1>1, <1>2, <1>6, GotoIs DEF Flash!Places, Tools
<1>8. pipe' \in Pipes /\ pipe'.q = <<>>
  <2>1. pipe' = [pipe EXCEPT !.q = <<>>] BY <1>5, <1>6
  <2> QED BY <1>2, <2>1, PipesAre
<1>9. Len(readback) = tool.n - 1 /\ \A c \in Flash!Chunks: c <= Len(readback) => readback[c] = flash[c]
  BY <1>2 DEF FlashInv, ReadIsThere
<1>10. readback' \in Seq(0..Flash!Junk) /\ Len(readback') = tool.n
  BY <1>2, <1>6, <1>9 DEF Flash!Chunks
<1>11. \A c \in Flash!Chunks: c <= tool.n => readback'[c] = flash[c]
  <2> SUFFICES ASSUME NEW c \in Flash!Chunks, c <= tool.n PROVE readback'[c] = flash[c] OBVIOUS
  <2>1. CASE c = tool.n BY <1>2, <1>6, <1>9, <2>1 DEF Flash!Chunks
  <2>2. CASE c # tool.n
    <3>1. c \in 1..Len(readback) BY <1>2, <1>9, <2>2 DEF Flash!Chunks
    <3>2. readback'[c] = readback[c] BY <1>2, <1>6, <3>1
    <3> QED BY <1>9, <3>1, <3>2
  <2> QED BY <2>1, <2>2
<1>12. Flash!FlashTypeOK' BY <1>1, <1>3, <1>7, <1>8, <1>10 DEF Flash!FlashTypeOK, Tools, Pipes, Packets
<1> QED BY <1>1, <1>2, <1>3, <1>4, <1>7, <1>8, <1>10, <1>11, <1>12
     DEF FlashInv, OwnOperation, SentIsThere, ToolPosition, ReadIsThere, OnePacket, Undoing,
           EnteringMode, Erasing, Programming, EndingProgram, Reading, Flash!CommandsMeetIdleChip,
           Flash!Chunks

LEMMA ReadFinishedKeeps ==
    ASSUME Flash!FlashParameters, FlashInv, Flash!ReadFinished
    PROVE  FlashInv'
<1>1. Flash!FlashTypeOK /\ luck \in Lucks /\ Flash!CommandsMeetIdleChip BY DEF FlashInv
<1>2. /\ tool \in Tools /\ chip \in Chips /\ pipe \in Pipes /\ NumChunks \in Nat \ {0}
      /\ readback \in Seq(0..Flash!Junk) /\ tool.at = "read_done" /\ tool.n \in Flash!Chunks
  BY <1>1, FlashTyped DEF Flash!FlashParameters, Flash!ReadFinished, FlashInv, ToolPosition
<1>3. UNCHANGED <<readback, chip, flash, fifo, luck>> BY DEF Flash!ReadFinished
<1>4. /\ Len(readback) = tool.n /\ \A c \in Flash!Chunks: c <= Len(readback) => readback[c] = flash[c]
      /\ pipe.q = <<>> /\ chip.op = "idle"
  BY <1>2 DEF FlashInv, ReadIsThere, OnePacket, OwnOperation, Reading
<1>5. \/ /\ tool'.at = "read" /\ tool'.n = tool.n + 1 /\ tool'.n \in Flash!Chunks /\ tool' \in Tools
         /\ pipe' = pipe
      \/ /\ tool'.at = "verify" /\ tool' \in Tools /\ tool.n = NumChunks
         /\ pipe' = [on |-> FALSE, q |-> <<>>]
  <2>1. CASE tool.n < NumChunks
    <3>1. Flash!Goto("read", tool.n + 1) /\ pipe' = pipe BY <2>1 DEF Flash!ReadFinished
    <3>2. tool.n + 1 \in Flash!Chunks /\ tool.n + 1 \in 0..NumChunks BY <1>2, <2>1 DEF Flash!Chunks
    <3> QED BY <1>1, <3>1, <3>2, GotoIs DEF Flash!Places
  <2>2. CASE ~(tool.n < NumChunks)
    <3>1. Flash!Goto("verify", 0) /\ pipe' = [on |-> FALSE, q |-> <<>>] BY <2>2 DEF Flash!ReadFinished
    <3>2. tool.n = NumChunks BY <1>2, <2>2 DEF Flash!Chunks
    <3> QED BY <1>1, <1>2, <3>1, <3>2, GotoIs DEF Flash!Places
  <2> QED BY <2>1, <2>2
<1>6. pipe' \in Pipes /\ pipe'.q = <<>> BY <1>2, <1>4, <1>5, PipesAre
<1>7. Flash!FlashTypeOK' BY <1>1, <1>3, <1>5, <1>6 DEF Flash!FlashTypeOK, Tools, Pipes, Packets
<1>8. CASE tool'.at = "read"
  BY <1>1, <1>2, <1>3, <1>4, <1>5, <1>6, <1>7, <1>8
     DEF FlashInv, OwnOperation, SentIsThere, ToolPosition, ReadIsThere, OnePacket, Undoing,
           EnteringMode, Erasing, Programming, EndingProgram, Reading, Flash!CommandsMeetIdleChip,
           Flash!Chunks
<1>9. CASE tool'.at = "verify"
  BY <1>1, <1>2, <1>3, <1>4, <1>5, <1>6, <1>7, <1>9
     DEF FlashInv, OwnOperation, SentIsThere, ToolPosition, ReadIsThere, OnePacket, Undoing,
           EnteringMode, Erasing, Programming, EndingProgram, Reading, Flash!CommandsMeetIdleChip,
           Flash!Chunks
<1> QED BY <1>5, <1>8, <1>9

LEMMA VerifyKeeps ==
    ASSUME Flash!FlashParameters, FlashInv, Flash!Verify
    PROVE  FlashInv'
<1>1. Flash!FlashTypeOK /\ luck \in Lucks /\ Flash!CommandsMeetIdleChip BY DEF FlashInv
<1>2. tool \in Tools /\ chip \in Chips /\ tool.at = "verify" /\ NumChunks \in Nat \ {0}
  BY <1>1, FlashTyped DEF Flash!FlashParameters, Flash!Verify
<1>3. UNCHANGED <<readback, chip, flash, fifo, luck>> BY DEF Flash!Verify
<1>4. CASE Flash!SameBytes
  <2>1. Flash!Goto("leave", 0) /\ pipe' = pipe BY <1>4 DEF Flash!Verify
  <2>2. tool'.at = "leave" /\ tool' \in Tools BY <1>1, <1>2, <2>1, GotoIs DEF Flash!Places
  <2>3. \A c \in Flash!Chunks: flash[c] = c
    <3>1. Len(readback) = NumChunks /\ \A c \in Flash!Chunks: readback[c] = c BY <1>4 DEF Flash!SameBytes
    <3>2. \A c \in Flash!Chunks: c <= Len(readback) => readback[c] = flash[c]
      BY <1>2 DEF FlashInv, ReadIsThere
    <3>3. \A c \in Flash!Chunks: c <= Len(readback) BY <1>2, <3>1 DEF Flash!Chunks
    <3> QED BY <3>1, <3>2, <3>3
  <2>4. Flash!FlashTypeOK' BY <1>1, <1>3, <2>1, <2>2 DEF Flash!FlashTypeOK, Tools
  <2> QED BY <1>1, <1>2, <1>3, <2>1, <2>2, <2>3, <2>4
       DEF FlashInv, OwnOperation, SentIsThere, ToolPosition, ReadIsThere, OnePacket, Undoing,
           EnteringMode, Erasing, Programming, EndingProgram, Reading, Flash!CommandsMeetIdleChip,
           Flash!Chunks
<1>5. CASE ~Flash!SameBytes
  <2>1. Flash!Throw /\ Flash!Lucky BY <1>3, <1>5 DEF Flash!Verify, Flash!Lucky
  <2> QED BY <1>2, <1>3, <2>1, ThrowKeeps
<1> QED BY <1>4, <1>5

\* A wait ends in vain, or what was begun is undone, or the process ends.
LEMMA EndsKeep ==
    ASSUME Flash!FlashParameters, FlashInv, Flash!WaitTimeout \/ Flash!UndoProgram \/ Flash!UndoMode
            \/ Flash!ToolEnds
    PROVE  FlashInv'
<1>1. Flash!FlashTypeOK /\ luck \in Lucks /\ Flash!CommandsMeetIdleChip BY DEF FlashInv
<1>2. /\ tool \in Tools /\ chip \in Chips /\ pipe \in Pipes /\ NumChunks \in Nat \ {0}
  BY <1>1, FlashTyped DEF Flash!FlashParameters
<1>3. UNCHANGED <<readback, flash, fifo>>
  BY DEF Flash!WaitTimeout, Flash!UndoProgram, Flash!UndoMode, Flash!ToolEnds
<1>4. CASE Flash!WaitTimeout BY <1>2, <1>3, <1>4, ThrowKeeps DEF Flash!WaitTimeout
<1>5. CASE Flash!UndoProgram \/ Flash!UndoMode \/ Flash!ToolEnds
  <2>1. Flash!Goto("off", 0) \/ Flash!Goto("undo_mode", 0)
    BY <1>5 DEF Flash!UndoProgram, Flash!UndoMode, Flash!ToolEnds
  <2>2. tool'.at \in Undoing /\ tool' \in Tools
    BY <1>1, <1>2, <2>1, GotoIs DEF Flash!Places, Undoing
  <2>3. chip' \in Chips /\ chip'.op = chip.op /\ chip'.arg = chip.arg
    <3>1. \/ chip' = chip \/ chip' = [chip EXCEPT !.stop = TRUE]
          \/ chip' = [chip EXCEPT !.mode = FALSE]
      BY <1>5 DEF Flash!UndoProgram, Flash!UndoMode, Flash!ToolEnds
    <3> QED BY <1>2, <3>1 DEF Chips
  <2>4. pipe' \in Pipes
    <3>1. pipe' = pipe \/ pipe' = [on |-> FALSE, q |-> <<>>]
      BY <1>5 DEF Flash!UndoProgram, Flash!UndoMode, Flash!ToolEnds
    <3> QED BY <1>2, <3>1, PipesAre
  <2>5. luck' \in Lucks /\ luck'.clash = luck.clash
    BY <1>1, <1>5, LuckIs DEF Flash!UndoProgram, Flash!UndoMode, Flash!ToolEnds
  <2>6. Flash!FlashTypeOK' BY <1>1, <1>3, <2>2, <2>3, <2>4 DEF Flash!FlashTypeOK, Tools, Chips, Pipes, Packets
  <2>7. Flash!CommandsMeetIdleChip' BY <1>1, <2>5 DEF Flash!CommandsMeetIdleChip
  <2>8. chip'.op = "read" => chip'.arg \in Flash!Chunks BY <2>3 DEF FlashInv, ToolPosition
  <2> QED BY <2>2, <2>5, <2>6, <2>7, <2>8, GivenUp
<1> QED BY <1>4, <1>5

\* The controller begins: what it is at does not change.
LEMMA ChipBeginsKeeps ==
    ASSUME FlashInv, Flash!ChipBegins
    PROVE  FlashInv'
<1>1. Flash!FlashTypeOK /\ luck \in Lucks /\ Flash!CommandsMeetIdleChip BY DEF FlashInv
<1>2. chip \in Chips /\ fifo \in Seq(Flash!Chunks) BY <1>1, FlashTyped
<1>3. UNCHANGED <<tool, readback, flash, pipe, luck>> BY DEF Flash!ChipBegins
<1>4. chip' \in Chips /\ chip'.op = chip.op /\ chip'.arg = chip.arg /\ chip'.begun
  <2> PICK fresh \in BOOLEAN:
        chip' = [chip EXCEPT !.begun = TRUE,
                    !.eraseDone = @ /\ chip.op # "erase", !.readDone = @ /\ chip.op # "read",
                    !.chunkDone = @ /\ ~(fresh /\ chip.op = "program")]
    BY DEF Flash!ChipBegins
  <2> DEFINE e == chip.eraseDone /\ chip.op # "erase"
  <2> DEFINE r == chip.readDone /\ chip.op # "read"
  <2> DEFINE c == chip.chunkDone /\ ~(fresh /\ chip.op = "program")
  <2>1. e \in BOOLEAN /\ r \in BOOLEAN /\ c \in BOOLEAN BY <1>2 DEF Chips
  <2>2. chip' = [chip EXCEPT !.begun = TRUE, !.eraseDone = e, !.readDone = r, !.chunkDone = c]
    OBVIOUS
  <2> HIDE DEF e, r, c
  <2> QED BY <1>2, <2>1, <2>2 DEF Chips
<1>5. fifo' \in Seq(Flash!Chunks)
  <2>1. fifo' = fifo \/ fifo' = <<>> BY DEF Flash!ChipBegins
  <2>2. <<>> \in Seq(Flash!Chunks) OBVIOUS
  <2> QED BY <1>2, <2>1, <2>2, Zenon
<1>6. Flash!FlashTypeOK' BY <1>1, <1>3, <1>4, <1>5 DEF Flash!FlashTypeOK, Chips
<1> QED BY <1>1, <1>3, <1>4, <1>6
     DEF FlashInv, OwnOperation, SentIsThere, ToolPosition, ReadIsThere, OnePacket, Undoing,
           EnteringMode, Erasing, Programming, EndingProgram, Reading, Flash!CommandsMeetIdleChip,
           Flash!Chunks

\* The controller writes the flash only while the tool is before its reading.
LEMMA ChipWritesKeeps ==
    ASSUME Flash!FlashParameters, FlashInv, Flash!ChipErases \/ Flash!ChipPrograms
    PROVE  FlashInv'
<1>1. Flash!FlashTypeOK /\ luck \in Lucks /\ Flash!CommandsMeetIdleChip BY DEF FlashInv
<1>2. /\ chip \in Chips /\ fifo \in Seq(Flash!Chunks) /\ flash \in [Flash!Chunks -> 0..Flash!Junk]
      /\ tool \in Tools
      /\ NumChunks \in Nat \ {0}
  BY <1>1, FlashTyped DEF Flash!FlashParameters
<1>3. UNCHANGED <<tool, readback, pipe>> BY DEF Flash!ChipErases, Flash!ChipPrograms
<1>4. chip.op \in {"erase", "program"} /\ chip.begun BY DEF Flash!ChipErases, Flash!ChipPrograms
<1>5. /\ chip' \in Chips /\ chip'.begun = chip.begun /\ chip'.op \in {"idle", chip.op}
  <2> DEFINE a == chip.arg + 1
  <2>1. a \in Nat BY <1>2 DEF Chips
  <2>2. \/ chip' = [chip EXCEPT !.op = "idle", !.eraseDone = TRUE]
        \/ chip' = [chip EXCEPT !.chunkDone = TRUE, !.arg = a]
    BY DEF Flash!ChipErases, Flash!ChipPrograms
  <2> HIDE DEF a
  <2> QED BY <1>2, <2>1, <2>2 DEF Chips
<1>6. fifo' \in Seq(Flash!Chunks)
  <2>1. fifo' = fifo \/ (fifo # <<>> /\ fifo' = Tail(fifo)) BY DEF Flash!ChipErases, Flash!ChipPrograms
  <2> QED BY <1>2, <2>1
<1>7. flash' \in [Flash!Chunks -> 0..Flash!Junk]
  <2>1. /\ Flash!Erased \in 0..Flash!Junk /\ Flash!Junk \in 0..Flash!Junk
        /\ \A c \in Flash!Chunks: c \in 0..Flash!Junk
    BY <1>2 DEF Flash!Erased, Flash!Junk, Flash!Chunks
  <2>2. \A c \in Flash!Chunks: flash[c] \in 0..Flash!Junk BY <1>2
  <2>3. CASE Flash!ChipErases
    <3>1. flash' = [c \in Flash!Chunks |-> IF c \in Flash!InBlock(chip.arg) THEN Flash!Erased ELSE flash[c]]
      BY <2>3 DEF Flash!ChipErases
    <3> QED BY <2>1, <2>2, <3>1
  <2>4. CASE Flash!ChipPrograms
    <3> DEFINE data == IF flash[chip.arg] = Flash!Erased
          /\ Head(fifo) = chip.arg THEN chip.arg ELSE Flash!Junk
    <3>1. CASE chip.arg \in Flash!Chunks
      <4>1. PICK x \in {data, Flash!Junk}:
              flash' = [c \in Flash!Chunks |-> IF c = chip.arg THEN x ELSE flash[c]]
        BY <2>4, <3>1 DEF Flash!ChipPrograms
      <4>2. x \in 0..Flash!Junk BY <2>1, <3>1
      <4> HIDE DEF data
      <4> QED BY <2>2, <4>1, <4>2
    <3>2. CASE chip.arg \notin Flash!Chunks BY <1>2, <2>4, <3>2 DEF Flash!ChipPrograms
    <3> QED BY <3>1, <3>2
  <2> QED BY <2>3, <2>4
<1>8. luck' \in Lucks /\ luck'.clash = luck.clash
  <2>1. Flash!Lucky \/ Flash!Unlucky BY DEF Flash!ChipErases, Flash!ChipPrograms, Flash!Lucky
  <2> QED BY <1>1, <2>1, LuckIs
<1>9. Flash!FlashTypeOK' BY <1>1, <1>3, <1>5, <1>6, <1>7 DEF Flash!FlashTypeOK, Chips
<1>10. tool.at \notin Reading /\ (tool.at \in {"erase", "program"} => FALSE)
  BY <1>4 DEF FlashInv, OwnOperation
<1> QED BY <1>1, <1>3, <1>4, <1>5, <1>8, <1>9, <1>10
     DEF FlashInv, OwnOperation, SentIsThere, ToolPosition, ReadIsThere, OnePacket, Undoing,
           EnteringMode, Erasing, Programming, EndingProgram, Reading, Flash!CommandsMeetIdleChip,
           Flash!Chunks

LEMMA ChipEndsProgramKeeps ==
    ASSUME FlashInv, Flash!ChipEndsProgram
    PROVE  FlashInv'
<1>1. Flash!FlashTypeOK /\ luck \in Lucks /\ Flash!CommandsMeetIdleChip BY DEF FlashInv
<1>2. chip \in Chips BY <1>1, FlashTyped
<1>3. UNCHANGED <<tool, readback, flash, fifo, pipe, luck>> /\ chip.op = "program"
  BY DEF Flash!ChipEndsProgram
<1>4. chip' \in Chips /\ chip'.op = "idle" BY <1>2 DEF Flash!ChipEndsProgram, Chips
<1>5. Flash!FlashTypeOK' BY <1>1, <1>3, <1>4 DEF Flash!FlashTypeOK, Chips
<1> QED BY <1>1, <1>3, <1>4, <1>5
     DEF FlashInv, OwnOperation, SentIsThere, ToolPosition, ReadIsThere, OnePacket, Undoing,
           EnteringMode, Erasing, Programming, EndingProgram, Reading, Flash!CommandsMeetIdleChip,
           Flash!Chunks

LEMMA ChipReadsKeeps ==
    ASSUME Flash!FlashParameters, FlashInv, Flash!ChipReads
    PROVE  FlashInv'
<1>1. Flash!FlashTypeOK /\ luck \in Lucks /\ Flash!CommandsMeetIdleChip BY DEF FlashInv
<1>2. /\ chip \in Chips /\ pipe \in Pipes /\ flash \in [Flash!Chunks -> 0..Flash!Junk] /\ tool \in Tools
  BY <1>1, FlashTyped
<1>3. UNCHANGED <<tool, readback, flash, fifo>> /\ chip.op = "read" BY DEF Flash!ChipReads
<1>4. chip' \in Chips /\ chip'.op = "idle" BY <1>2 DEF Flash!ChipReads, Chips
<1> DEFINE p == [address |-> chip.arg, data |-> flash[chip.arg]]
<1>5. chip.arg \in Flash!Chunks /\ p \in Packets BY <1>2, <1>3 DEF FlashInv, ToolPosition, Packets
<1>6. luck' \in Lucks /\ luck'.clash = luck.clash BY <1>1, LuckIs DEF Flash!ChipReads
<1>7. pipe' \in Pipes /\ (pipe'.q = pipe.q \/ pipe'.q = Append(pipe.q, p))
  <2> DEFINE q == IF pipe.on THEN Append(pipe.q, p) ELSE pipe.q
  <2>1. pipe' = pipe \/ pipe' = [pipe EXCEPT !.q = q] BY DEF Flash!ChipReads
  <2> HIDE DEF p
  <2>2. q \in Seq(Packets) BY <1>2, <1>5 DEF Pipes
  <2>3. q = pipe.q \/ q = Append(pipe.q, p) OBVIOUS
  <2> HIDE DEF q
  <2> QED BY <1>2, <2>1, <2>2, <2>3 DEF Pipes
<1>8. tool.at = "packet" => pipe'.q = <<>> \/ (pipe'.q = <<p>> /\ chip.arg = tool.n)
  <2> SUFFICES ASSUME tool.at = "packet" PROVE pipe'.q = <<>> \/ (pipe'.q = <<p>> /\ chip.arg = tool.n)
    OBVIOUS
  <2>1. pipe.q = <<>> /\ chip.arg = tool.n BY <1>3 DEF FlashInv, OnePacket, ToolPosition
  <2> HIDE DEF p
  <2>2. Append(<<>>, p) = <<p>> OBVIOUS
  <2> QED BY <1>7, <2>1, <2>2
<1>9. Flash!FlashTypeOK' BY <1>1, <1>3, <1>4, <1>7 DEF Flash!FlashTypeOK, Chips, Pipes, Packets
<1>10. OnePacket'
  <2>1. tool.at \notin {"read", "read_done"}
    BY <1>3 DEF FlashInv, OwnOperation, Reading
  <2>2. CASE tool.at = "packet" /\ pipe'.q = <<p>> /\ chip.arg = tool.n
    BY <1>3, <1>4, <2>2 DEF OnePacket
  <2>3. CASE tool.at = "packet" /\ pipe'.q = <<>> BY <1>3, <2>3 DEF OnePacket
  <2>4. CASE tool.at # "packet" BY <1>3, <2>1, <2>4 DEF OnePacket
  <2> QED BY <1>8, <2>2, <2>3, <2>4
<1> HIDE DEF p
<1>11. OwnOperation' /\ SentIsThere' /\ ToolPosition' /\ ReadIsThere'
  BY <1>3, <1>4
     DEF FlashInv, OwnOperation, SentIsThere, ToolPosition, ReadIsThere, Undoing,
         EnteringMode, Erasing, Programming, EndingProgram, Reading
<1>12. Flash!CommandsMeetIdleChip' BY <1>1, <1>6 DEF Flash!CommandsMeetIdleChip
<1> QED BY <1>6, <1>9, <1>10, <1>11, <1>12 DEF FlashInv

LEMMA FlashStarts == ASSUME Flash!FlashParameters, Flash!FlashInit PROVE FlashInv
<1>1. NumChunks \in Nat \ {0} BY DEF Flash!FlashParameters
<1>2. tool \in Tools /\ tool.at = "off" BY <1>1 DEF Flash!FlashInit, Tools, Flash!Places
<1>3. chip \in Chips /\ chip.op = "idle" BY DEF Flash!FlashInit, Chips
<1>4. pipe \in Pipes BY PipesAre DEF Flash!FlashInit
<1>5. readback \in Seq(0..Flash!Junk) /\ fifo \in Seq(Flash!Chunks) BY DEF Flash!FlashInit
<1>6. flash \in [Flash!Chunks -> 0..Flash!Junk]
  <2>1. Flash!Junk \in 0..Flash!Junk BY <1>1 DEF Flash!Junk
  <2> QED BY <2>1 DEF Flash!FlashInit
<1>7. luck \in Lucks /\ luck.clash = FALSE BY DEF Flash!FlashInit, Lucks
<1>8. Flash!FlashTypeOK BY <1>2, <1>3, <1>4, <1>5, <1>6, FlashTyped
<1> QED BY <1>2, <1>3, <1>7, <1>8
     DEF FlashInv, OwnOperation, SentIsThere, ToolPosition, ReadIsThere, OnePacket, Undoing,
           EnteringMode, Erasing, Programming, EndingProgram, Reading, Flash!CommandsMeetIdleChip,
           Flash!Chunks

LEMMA FlashSteps == ASSUME Flash!FlashParameters, FlashInv, [Flash!FlashNext]_(Flash!flashVars)
    PROVE FlashInv'
<1>1. ASSUME UNCHANGED Flash!flashVars PROVE FlashInv'
  <2>1. /\ tool' = tool /\ readback' = readback /\ chip' = chip /\ flash' = flash /\ fifo' = fifo
        /\ pipe' = pipe /\ luck' = luck
    BY <1>1 DEF Flash!flashVars
  <2>2. Flash!FlashTypeOK' BY <2>1 DEF FlashInv, Flash!FlashTypeOK
  <2> QED BY <2>1, <2>2
       DEF FlashInv, OwnOperation, SentIsThere, ToolPosition, ReadIsThere, OnePacket, Undoing,
           EnteringMode, Erasing, Programming, EndingProgram, Reading, Flash!CommandsMeetIdleChip,
           Flash!Chunks
<1>2. ASSUME NEW only \in BOOLEAN, Flash!RunTool(only) PROVE FlashInv' BY <1>2, RunToolKeeps
<1>3. CASE Flash!EnterMode \/ Flash!AckChunk \/ Flash!StopProgram \/ Flash!LeaveMode BY <1>3, FlagsKeep
<1>4. CASE Flash!Settle \/ Flash!EraseStarted \/ Flash!EraseFinished \/ Flash!ChunkProgrammed
      \/ Flash!Drained \/ Flash!ProgramFinished
  BY <1>4, LooksKeeps
<1>5. CASE Flash!EraseBlock \/ Flash!StartProgram \/ Flash!ReadChunk BY <1>5, StartsKeep
<1>6. CASE Flash!SendChunk BY <1>6, SendChunkKeeps
<1>7. CASE Flash!StartRing BY <1>7, StartRingKeeps
<1>8. CASE Flash!ReceivePacket BY <1>8, ReceivePacketKeeps
<1>9. CASE Flash!ReadFinished BY <1>9, ReadFinishedKeeps
<1>10. CASE Flash!Verify BY <1>10, VerifyKeeps
<1>11. CASE Flash!WaitTimeout \/ Flash!UndoProgram \/ Flash!UndoMode \/ Flash!ToolEnds BY <1>11, EndsKeep
<1>12. CASE Flash!ChipBegins BY <1>12, ChipBeginsKeeps
<1>13. CASE Flash!ChipErases \/ Flash!ChipPrograms BY <1>13, ChipWritesKeeps
<1>14. CASE Flash!ChipEndsProgram BY <1>14, ChipEndsProgramKeeps
<1>15. CASE Flash!ChipReads BY <1>15, ChipReadsKeeps
<1> QED BY <1>1, <1>2, <1>3, <1>4, <1>5, <1>6, <1>7, <1>8, <1>9, <1>10, <1>11, <1>12, <1>13,
        <1>14, <1>15, Zenon
     DEF Flash!FlashNext

\* The update tool reports success only if the flash holds the image, whatever failed in this
\* run and in those before it, and wherever they were killed.
THEOREM SuccessIsInTheFlash == ASSUME Flash!FlashParameters
                           PROVE Flash!FlashSpec => []Flash!FlashVerified
<1>1. Flash!FlashInit => FlashInv BY FlashStarts
<1>2. FlashInv /\ [Flash!FlashNext]_(Flash!flashVars) => FlashInv' BY FlashSteps
<1>3. FlashInv => Flash!FlashVerified BY DEF FlashInv, ReadIsThere, Flash!FlashVerified
<1> QED BY <1>1, <1>2, <1>3, PTL DEF Flash!FlashSpec

\* No operation of the flash meets a controller that is at another.
THEOREM FlashCommandsWait == ASSUME Flash!FlashParameters
                           PROVE Flash!FlashSpec => []Flash!CommandsMeetIdleChip
<1>1. Flash!FlashInit => FlashInv BY FlashStarts
<1>2. FlashInv /\ [Flash!FlashNext]_(Flash!flashVars) => FlashInv' BY FlashSteps
<1>3. FlashInv => Flash!CommandsMeetIdleChip BY DEF FlashInv
<1> QED BY <1>1, <1>2, <1>3, PTL DEF Flash!FlashSpec

-----------------------------------------------------------------------------
(* UpdateTool *)

\* What the board says.
LineSet == {"OK", "PROGRESS", "PROGRESS 100", "LOG", "LOG complete", "DONE", "ERR", "FAIL"}
Windows == [at: {"open", "look", "join", "gone"}, cancel: BOOLEAN, active: BOOLEAN,
            status: {"idle", "connecting", "ready", "complete", "canceled", "error"}]
Workers == [kind: {"none", "request", "update"}, sent: 0..NumBlocks, reported: BOOLEAN,
            at: {"none", "connect", "announce", "check", "send", "recv", "ended"}]
Services == [got: Nat, said: Nat, over: BOOLEAN, complete: BOOLEAN]
Troubles == [tasks: Nat, breaks: Nat]
UpdateTyped ==
    /\ ui \in Windows /\ task \in Workers /\ socket \in {"none", "open", "shut", "lost"}
    /\ lines \in Seq(LineSet) /\ service \in Services /\ breaks \in Troubles

\* A task that looks at the flag has told the window its socket, and a window that closes
\* has set the flag.
FlagsMeet ==
    /\ task.at \in {"check", "send", "recv"} => ui.active
    /\ ui.at \in {"look", "join"} => ui.cancel
\* A worker may be told of a completion, by a line it will read or one it has read, only if
\* the script has completed.
ToldOnlyIfSo ==
    /\ task.at \in {"none", "connect", "announce"} => ~task.reported
    /\ task.reported => service.complete
    /\ task.at \in {"announce", "check", "send", "recv"} =>
          \A i \in 1..Len(lines): lines[i] \in {"LOG complete", "DONE"} => service.complete
BlocksLeft == task.at = "send" /\ task.kind = "update" => task.sent # NumBlocks
UpdateInv == UpdateTyped /\ BlocksLeft /\ FlagsMeet /\ Update!CloseIsPrompt /\ ToldOnlyIfSo
   /\ Update!CompleteIsTrue

-----------------------------------------------------------------------------

LEMMA IdleIs ==
    ASSUME Update!UpdateParameters
    PROVE  Update!Idle \in Workers /\ Update!Idle.kind = "none" /\ Update!Idle.at = "none"
       /\ ~Update!Idle.reported
BY DEF Update!UpdateParameters, Update!Idle, Workers

LEMMA TroubleIs ==
    ASSUME breaks \in Troubles, Update!Smooth \/ Update!Breaks
    PROVE  breaks' \in Troubles
<1> DEFINE b == breaks.breaks + 1
<1>1. b \in Nat BY DEF Troubles
<1>2. breaks' = breaks \/ breaks' = [breaks EXCEPT !.breaks = b] BY DEF Update!Smooth, Update!Breaks
<1> HIDE DEF b
<1> QED BY <1>1, <1>2 DEF Troubles

LEMMA EndsIs ==
    ASSUME UpdateTyped, Update!Ends("complete") \/ Update!Ends("ready") \/ Update!Fails
    PROVE  /\ task' \in Workers /\ task'.at = "ended" /\ task'.kind = task.kind
           /\ task'.reported = task.reported /\ socket' = "none"
           /\ ui' \in Windows /\ ui'.at = ui.at /\ ui'.cancel = ui.cancel
           /\ ui'.status = "complete" => Update!Ends("complete")
<1>1. PICK s \in {"complete", "ready", "canceled", "error"}:
        Update!Ends(s) /\ (s = "complete" => Update!Ends("complete"))
  BY DEF Update!Fails
<1>2. /\ task' = [task EXCEPT !.at = "ended"] /\ socket' = "none"
      /\ ui' = [ui EXCEPT !.status = s, !.active = FALSE]
  BY <1>1 DEF Update!Ends, Update!At
<1>3. task \in Workers /\ ui \in Windows BY DEF UpdateTyped
<1>4. /\ task' \in Workers /\ task'.at = "ended" /\ task'.kind = task.kind
      /\ task'.reported = task.reported
  BY <1>2, <1>3 DEF Workers
<1>5. ui' \in Windows /\ ui'.at = ui.at /\ ui'.cancel = ui.cancel /\ ui'.status = s
  BY <1>1, <1>2, <1>3 DEF Windows
<1> QED BY <1>1, <1>2, <1>4, <1>5

\* A task that ends without a success, or with one the board has told.
LEMMA EndsKeeps ==
    ASSUME UpdateInv, Update!Ends("complete") \/ Update!Ends("ready") \/ Update!Fails,
           Update!Ends("complete") => service.complete \/ Update!Fails,
           lines' \in Seq(LineSet), UNCHANGED service, breaks' \in Troubles,
           task.at \in {"connect", "check", "send", "recv"}
    PROVE  UpdateInv'
<1>1. UpdateTyped BY DEF UpdateInv
<1>2. /\ task' \in Workers /\ task'.at = "ended" /\ task'.kind = task.kind
      /\ task'.reported = task.reported /\ socket' = "none"
      /\ ui' \in Windows /\ ui'.at = ui.at /\ ui'.cancel = ui.cancel
  BY <1>1, EndsIs
<1>3. ui'.status = "complete" => service.complete
  <2>1. CASE Update!Fails
    <3>1. PICK s \in {"canceled", "error"}: ui' = [ui EXCEPT !.status = s, !.active = FALSE]
      BY <2>1 DEF Update!Fails, Update!Ends
    <3>2. ui \in Windows BY <1>1 DEF UpdateTyped
    <3>3. ui'.status = s BY <3>1, <3>2 DEF Windows
    <3> QED BY <3>3
  <2>2. CASE ~Update!Fails BY <1>1, <2>2, EndsIs
  <2> QED BY <2>1, <2>2
<1>4. UpdateTyped' BY <1>1, <1>2 DEF UpdateTyped
<1> QED BY <1>2, <1>3, <1>4
     DEF UpdateInv, FlagsMeet, Update!CloseIsPrompt, ToldOnlyIfSo, BlocksLeft, Update!CompleteIsTrue

\* The window.
LEMMA WindowKeeps ==
    ASSUME Update!UpdateParameters, UpdateInv, Update!CloseWindow \/ Update!ShutSocket \/ Update!JoinWorker
    PROVE  UpdateInv'
<1>1. UpdateTyped /\ ui \in Windows /\ task \in Workers BY DEF UpdateInv, UpdateTyped
<1>2. UNCHANGED <<lines, service, breaks>> BY DEF Update!CloseWindow, Update!ShutSocket, Update!JoinWorker
<1>3. CASE Update!CloseWindow
  <2> DEFINE c == ui.cancel \/ task.at # "none"
  <2> DEFINE a == IF task.at = "none" THEN "gone" ELSE "look"
  <2>1. ui' = [ui EXCEPT !.at = a, !.cancel = c] /\ UNCHANGED <<task, socket>> BY <1>3 DEF Update!CloseWindow
  <2>2. c \in BOOLEAN /\ a \in {"gone", "look"} /\ (a = "look" => c) BY <1>1 DEF Windows
  <2> HIDE DEF a, c
  <2>3. /\ ui' \in Windows /\ ui'.at = a /\ ui'.cancel = c /\ ui'.active = ui.active
        /\ ui'.status = ui.status
    BY <1>1, <2>1, <2>2 DEF Windows
  <2>4. UpdateTyped' BY <1>1, <1>2, <2>1, <2>3 DEF UpdateTyped
  <2> QED BY <1>2, <2>1, <2>2, <2>3, <2>4
       DEF UpdateInv, FlagsMeet, Update!CloseIsPrompt, ToldOnlyIfSo, BlocksLeft, Update!CompleteIsTrue
<1>4. CASE Update!ShutSocket
  <2>1. /\ ui.at = "look" /\ ui' = [ui EXCEPT !.at = "join"] /\ UNCHANGED task
        /\ socket' = IF ui.active /\ socket = "open" THEN "shut" ELSE socket
    BY <1>4 DEF Update!ShutSocket
  <2>2. /\ ui' \in Windows /\ ui'.at = "join" /\ ui'.cancel = ui.cancel /\ ui'.active = ui.active
        /\ ui'.status = ui.status
    BY <1>1, <2>1 DEF Windows
  <2>3. socket' \in {"none", "open", "shut", "lost"} /\ (ui.active => socket' # "open")
    BY <1>1, <2>1 DEF UpdateTyped
  <2>4. UpdateTyped' BY <1>1, <1>2, <2>1, <2>2, <2>3 DEF UpdateTyped
  <2> QED BY <1>2, <2>1, <2>2, <2>3, <2>4
       DEF UpdateInv, FlagsMeet, Update!CloseIsPrompt, ToldOnlyIfSo, BlocksLeft, Update!CompleteIsTrue
<1>5. CASE Update!JoinWorker
  <2>1. task' = Update!Idle /\ ui' = [ui EXCEPT !.at = "gone"] /\ UNCHANGED socket
    BY <1>5 DEF Update!JoinWorker
  <2>2. ui' \in Windows /\ ui'.at = "gone" BY <1>1, <2>1 DEF Windows
  <2>3. task' \in Workers /\ task'.at = "none" /\ task'.kind = "none" /\ ~task'.reported
    BY <2>1, IdleIs
  <2>4. UpdateTyped' BY <1>1, <1>2, <2>1, <2>2, <2>3 DEF UpdateTyped
  <2> QED BY <1>2, <2>1, <2>2, <2>3, <2>4
       DEF UpdateInv, FlagsMeet, Update!CloseIsPrompt, ToldOnlyIfSo, BlocksLeft, Update!CompleteIsTrue
<1> QED BY <1>3, <1>4, <1>5

LEMMA StartWorkerKeeps ==
    ASSUME Update!UpdateParameters, UpdateInv, NEW kind \in {"request", "update"}, Update!StartWorker(kind)
    PROVE  UpdateInv'
<1>1. UpdateTyped /\ ui \in Windows /\ breaks \in Troubles BY DEF UpdateInv, UpdateTyped
<1>2. UNCHANGED <<socket, lines, service>> BY DEF Update!StartWorker
<1>3. /\ ui' \in Windows /\ ui'.at = "open" /\ ui'.status = "connecting"
  BY <1>1 DEF Update!StartWorker, Windows
<1>4. task' \in Workers /\ task'.at = "connect" /\ task'.kind = kind /\ ~task'.reported
  <2>1. task' = [Update!Idle EXCEPT !.kind = kind, !.at = "connect"] BY DEF Update!StartWorker
  <2> QED BY <2>1, IdleIs DEF Workers
<1>5. breaks' \in Troubles
  <2> DEFINE n == breaks.tasks + 1
  <2>1. n \in Nat /\ breaks' = [breaks EXCEPT !.tasks = n] BY <1>1 DEF Update!StartWorker, Troubles
  <2> HIDE DEF n
  <2> QED BY <1>1, <2>1 DEF Troubles
<1>6. UpdateTyped' BY <1>1, <1>2, <1>3, <1>4, <1>5 DEF UpdateTyped
<1> QED BY <1>2, <1>3, <1>4, <1>6
     DEF UpdateInv, FlagsMeet, Update!CloseIsPrompt, ToldOnlyIfSo, BlocksLeft, Update!CompleteIsTrue

\* A step of the worker from one place to another, which leaves the window alone.
LEMMA AtIs ==
    ASSUME NEW place \in {"none", "connect", "announce", "check", "send", "recv", "ended"},
           task \in Workers, Update!At(place)
    PROVE  /\ task' \in Workers /\ task'.at = place /\ task'.kind = task.kind
           /\ task'.sent = task.sent /\ task'.reported = task.reported
BY DEF Update!At, Workers

LEMMA ConnectKeeps ==
    ASSUME UpdateInv, Update!Connect
    PROVE  UpdateInv'
<1>1. UpdateTyped /\ ui \in Windows /\ task \in Workers /\ breaks \in Troubles /\ task.at = "connect"
  BY DEF UpdateInv, UpdateTyped, Update!Connect
<1>2. CASE /\ Update!At("announce") /\ socket' = "open" /\ lines' = <<>> /\ Update!Smooth
           /\ service' = Update!NoSession /\ UNCHANGED ui
  <2>1. task' \in Workers /\ task'.at = "announce" /\ task'.reported = task.reported
    BY <1>1, <1>2, AtIs
  <2>2. lines' \in Seq(LineSet) /\ Len(lines') = 0 BY <1>2
  <2>3. service' \in Services BY <1>2 DEF Update!NoSession, Services
  <2>4. breaks' \in Troubles BY <1>1, <1>2 DEF Update!Smooth
  <2>5. UpdateTyped' BY <1>1, <1>2, <2>1, <2>2, <2>3, <2>4 DEF UpdateTyped
  <2>6. \A i \in 1..Len(lines'): FALSE BY <2>2
  <2> QED BY <1>1, <1>2, <2>1, <2>5, <2>6
       DEF UpdateInv, FlagsMeet, Update!CloseIsPrompt, ToldOnlyIfSo, BlocksLeft, Update!CompleteIsTrue
<1>3. CASE Update!Fails /\ Update!Breaks /\ UNCHANGED <<lines, service>>
  <2>1. breaks' \in Troubles BY <1>1, <1>3, TroubleIs
  <2> QED BY <1>1, <1>3, <2>1, EndsKeeps DEF UpdateTyped
<1> QED BY <1>2, <1>3 DEF Update!Connect

LEMMA AnnounceKeeps ==
    ASSUME UpdateInv, Update!Announce
    PROVE  UpdateInv'
<1>1. UpdateTyped /\ ui \in Windows /\ task \in Workers /\ task.at = "announce"
  BY DEF UpdateInv, UpdateTyped, Update!Announce
<1>2. UNCHANGED <<socket, lines, service, breaks>> BY DEF Update!Announce
<1>3. /\ ui' \in Windows /\ ui'.active /\ ui'.at = ui.at /\ ui'.cancel = ui.cancel
      /\ ui'.status = ui.status
  BY <1>1 DEF Update!Announce, Update!SocketKnown, Windows
<1>4. task' \in Workers /\ task'.at = "check" /\ task'.reported = task.reported
  BY <1>1, AtIs DEF Update!Announce
<1>5. UpdateTyped' BY <1>1, <1>2, <1>3, <1>4 DEF UpdateTyped
<1> QED BY <1>1, <1>2, <1>3, <1>4, <1>5
     DEF UpdateInv, FlagsMeet, Update!CloseIsPrompt, ToldOnlyIfSo, BlocksLeft, Update!CompleteIsTrue

LEMMA CheckKeeps ==
    ASSUME UpdateInv, Update!Check
    PROVE  UpdateInv'
<1>1. UpdateTyped /\ ui \in Windows /\ task \in Workers /\ breaks \in Troubles /\ task.at = "check"
  BY DEF UpdateInv, UpdateTyped, Update!Check
<1>2. UNCHANGED <<lines, service, breaks>> BY DEF Update!Check
<1>3. CASE ui.cancel
  <2>1. Update!Fails BY <1>3 DEF Update!Check
  <2> QED BY <1>1, <1>2, <2>1, EndsKeeps DEF UpdateTyped
<1>4. CASE ~ui.cancel
  <2> DEFINE place == IF task.kind = "update" /\ task.sent = NumBlocks THEN "recv" ELSE "send"
  <2>1. Update!At(place) /\ UNCHANGED <<ui, socket>> BY <1>4 DEF Update!Check
  <2>2. place \in {"recv", "send"} /\ (place = "send" /\ task.kind = "update" => task.sent # NumBlocks)
    OBVIOUS
  <2> HIDE DEF place
  <2>3. /\ task' \in Workers /\ task'.at = place /\ task'.kind = task.kind
        /\ task'.sent = task.sent /\ task'.reported = task.reported
    BY <1>1, <2>1, <2>2, AtIs
  <2>4. UpdateTyped' BY <1>1, <1>2, <2>1, <2>3 DEF UpdateTyped
  <2>5. ui.at # "join" BY <1>4 DEF UpdateInv, FlagsMeet
  <2> QED BY <1>1, <1>2, <2>1, <2>2, <2>3, <2>4, <2>5
       DEF UpdateInv, FlagsMeet, Update!CloseIsPrompt, ToldOnlyIfSo, BlocksLeft, Update!CompleteIsTrue
<1> QED BY <1>3, <1>4

LEMMA SendBlockKeeps ==
    ASSUME Update!UpdateParameters, UpdateInv, Update!SendBlock
    PROVE  UpdateInv'
<1>1. /\ UpdateTyped /\ ui \in Windows /\ task \in Workers /\ breaks \in Troubles
      /\ service \in Services /\ task.at = "send" /\ NumBlocks \in Nat /\ UNCHANGED lines
  BY DEF UpdateInv, UpdateTyped, Update!SendBlock, Update!UpdateParameters
<1>2. CASE /\ socket = "open" /\ Update!Smooth /\ UNCHANGED <<ui, socket>>
           /\ task' = IF task.kind = "update" THEN [task EXCEPT !.at = "check", !.sent = @ + 1]
                      ELSE [task EXCEPT !.at = "recv"]
           /\ service' = [service EXCEPT !.got = @ + 1]
  <2>1. service' \in Services /\ service'.complete = service.complete
    <3> DEFINE g == service.got + 1
    <3>1. g \in Nat /\ service' = [service EXCEPT !.got = g] BY <1>1, <1>2 DEF Services
    <3> HIDE DEF g
    <3> QED BY <1>1, <3>1 DEF Services
  <2>2. /\ task' \in Workers /\ task'.at \in {"check", "recv"} /\ task'.reported = task.reported
    <3>1. CASE task.kind = "update"
      <4> DEFINE n == task.sent + 1
      <4>1. task.sent # NumBlocks /\ task.sent \in 0..NumBlocks
        BY <1>1, <3>1 DEF UpdateInv, BlocksLeft, Workers
      <4>2. n \in 0..NumBlocks BY <1>1, <4>1
      <4>3. task' = [task EXCEPT !.at = "check", !.sent = n] BY <1>2, <3>1
      <4> HIDE DEF n
      <4> QED BY <1>1, <4>2, <4>3 DEF Workers
    <3>2. CASE task.kind # "update" BY <1>1, <1>2, <3>2 DEF Workers
    <3> QED BY <3>1, <3>2
  <2>3. breaks' = breaks BY <1>2 DEF Update!Smooth
  <2>4. UpdateTyped' BY <1>1, <1>2, <2>1, <2>2, <2>3 DEF UpdateTyped
  <2>5. ui.at # "join" BY <1>1, <1>2 DEF UpdateInv, Update!CloseIsPrompt
  <2> QED BY <1>1, <1>2, <2>1, <2>2, <2>4, <2>5
       DEF UpdateInv, FlagsMeet, Update!CloseIsPrompt, ToldOnlyIfSo, BlocksLeft, Update!CompleteIsTrue
<1>3. CASE Update!Fails /\ UNCHANGED service /\ IF socket = "open" THEN Update!Breaks ELSE Update!Smooth
  <2>1. breaks' \in Troubles BY <1>1, <1>3, TroubleIs
  <2> QED BY <1>1, <1>3, <2>1, EndsKeeps DEF UpdateTyped
<1>4. CASE /\ ui' = [ui EXCEPT !.at = "gone"] /\ task' = Update!Idle
           /\ socket' = "none" /\ Update!Smooth /\ UNCHANGED service
  <2>1. ui' \in Windows /\ ui'.at = "gone" BY <1>1, <1>4 DEF Windows
  <2>2. task' \in Workers /\ task'.at = "none" /\ task'.kind = "none" /\ ~task'.reported
    BY <1>4, IdleIs
  <2>3. UpdateTyped' BY <1>1, <1>4, <2>1, <2>2 DEF UpdateTyped, Update!Smooth
  <2> QED BY <1>4, <2>1, <2>2, <2>3
       DEF UpdateInv, FlagsMeet, Update!CloseIsPrompt, ToldOnlyIfSo, BlocksLeft, Update!CompleteIsTrue
<1> QED BY <1>2, <1>3, <1>4 DEF Update!SendBlock

LEMMA NoLineKeeps ==
    ASSUME UpdateInv, Update!NoLine
    PROVE  UpdateInv'
<1>1. /\ UpdateTyped /\ task \in Workers /\ breaks \in Troubles /\ task.at = "recv"
      /\ UNCHANGED <<lines, service>>
  BY DEF UpdateInv, UpdateTyped, Update!NoLine
<1>2. breaks' \in Troubles BY <1>1, TroubleIs DEF Update!NoLine
<1>3. CASE task.kind = "update" /\ Update!Reported
  <2>1. Update!Ends("complete") BY <1>3 DEF Update!NoLine
  <2>2. service.complete BY <1>3 DEF Update!Reported, UpdateInv, ToldOnlyIfSo
  <2> QED BY <1>1, <1>2, <2>1, <2>2, EndsKeeps DEF UpdateTyped
<1>4. CASE ~(task.kind = "update" /\ Update!Reported)
  <2>1. Update!Fails BY <1>4 DEF Update!NoLine
  <2> QED BY <1>1, <1>2, <2>1, EndsKeeps DEF UpdateTyped
<1> QED BY <1>3, <1>4

LEMMA TakeLineKeeps ==
    ASSUME UpdateInv, Update!TakeLine
    PROVE  UpdateInv'
<1>1. /\ UpdateTyped /\ ui \in Windows /\ task \in Workers /\ breaks \in Troubles
      /\ task.at = "recv" /\ lines \in Seq(LineSet) /\ lines # <<>>
      /\ UNCHANGED <<service, breaks>> /\ lines' = Tail(lines)
  BY DEF UpdateInv, UpdateTyped, Update!TakeLine
<1> DEFINE line == Head(lines)
<1>2. /\ lines' \in Seq(LineSet) /\ Len(lines') = Len(lines) - 1 /\ Len(lines) >= 1 /\ Len(lines) \in Nat
      /\ line = lines[1] /\ \A i \in 1..Len(lines'): lines'[i] = lines[i + 1]
  BY <1>1
<1>3. line \in {"LOG complete", "DONE"} => service.complete
  <2>1. \A i \in 1..Len(lines): lines[i] \in {"LOG complete", "DONE"} => service.complete
    BY <1>1 DEF UpdateInv, ToldOnlyIfSo
  <2>2. 1 \in 1..Len(lines) BY <1>2
  <2> HIDE DEF line
  <2> QED BY <1>2, <2>1, <2>2
<1>4. \A i \in 1..Len(lines'): lines'[i] \in {"LOG complete", "DONE"} => service.complete
  <2>1. \A i \in 1..Len(lines): lines[i] \in {"LOG complete", "DONE"} => service.complete
    BY <1>1 DEF UpdateInv, ToldOnlyIfSo
  <2>2. \A i \in 1..Len(lines'): i + 1 \in 1..Len(lines) BY <1>2
  <2> QED BY <1>2, <2>1, <2>2
<1>5. CASE Update!Fails BY <1>1, <1>2, <1>5, EndsKeeps
<1>6. CASE Update!Ends("ready") /\ ~Update!Ends("complete") BY <1>1, <1>2, <1>6, EndsKeeps
<1>7. CASE Update!Ends("complete") /\ (line = "DONE" \/ Update!Reported)
  <2>1. service.complete BY <1>3, <1>7 DEF Update!Reported, UpdateInv, ToldOnlyIfSo
  <2> QED BY <1>1, <1>2, <1>7, <2>1, EndsKeeps
<1>8. CASE /\ task' = [task EXCEPT !.at = "check", !.reported = @ \/ line = "LOG complete"]
           /\ UNCHANGED <<ui, socket>>
  <2> DEFINE r == task.reported \/ line = "LOG complete"
  <2>1. task' = [task EXCEPT !.at = "check", !.reported = r] BY <1>8
  <2>2. r \in BOOLEAN BY <1>1 DEF Workers
  <2>3. r => service.complete BY <1>3 DEF UpdateInv, ToldOnlyIfSo
  <2> HIDE DEF r, line
  <2>4. /\ task' \in Workers /\ task'.at = "check" /\ task'.kind = task.kind /\ task'.reported = r
    BY <1>1, <2>1, <2>2 DEF Workers
  <2>5. UpdateTyped' BY <1>1, <1>2, <1>8, <2>4 DEF UpdateTyped
  <2> QED BY <1>1, <1>4, <1>8, <2>3, <2>4, <2>5
       DEF UpdateInv, FlagsMeet, Update!CloseIsPrompt, ToldOnlyIfSo, BlocksLeft, Update!CompleteIsTrue
<1>9. Update!Ends("ready") => ~Update!Ends("complete")
  <2> SUFFICES ASSUME Update!Ends("ready"), Update!Ends("complete") PROVE FALSE OBVIOUS
  <2>1. ui' = [ui EXCEPT !.status = "ready", !.active = FALSE] BY DEF Update!Ends
  <2>2. ui' = [ui EXCEPT !.status = "complete", !.active = FALSE] BY DEF Update!Ends
  <2>3. ui'.status = "ready" BY <1>1, <2>1 DEF Windows
  <2>4. ui'.status = "complete" BY <1>1, <2>2 DEF Windows
  <2> QED BY <2>3, <2>4
<1> HIDE DEF line
<1> QED BY <1>5, <1>6, <1>7, <1>8, <1>9 DEF Update!TakeLine, line

\* What one line more does to a list of lines.
LEMMA OneLineMore ==
    ASSUME NEW S, NEW s \in Seq(S), NEW line \in S
    PROVE  /\ Append(s, line) \in Seq(S)
           /\ Len(s) \in Nat
           /\ Len(Append(s, line)) = Len(s) + 1
           /\ \A i \in 1..Len(s): Append(s, line)[i] = s[i]
           /\ Append(s, line)[Len(s) + 1] = line
OBVIOUS

\* The board says only what is so.
LEMMA ServiceKeeps ==
    ASSUME UpdateInv, Update!ServiceWorks \/ Update!ServiceCompletes \/ Update!ServiceEnds
    PROVE  UpdateInv'
<1>1. /\ UpdateTyped /\ ui \in Windows /\ task \in Workers /\ breaks \in Troubles
      /\ service \in Services /\ lines \in Seq(LineSet)
      /\ UNCHANGED <<ui, task>> /\ task.at \notin {"none", "connect", "ended"}
  BY DEF UpdateInv, UpdateTyped, Update!ServiceWorks, Update!ServiceCompletes, Update!ServiceEnds,
     Update!Connected
<1>2. /\ service' \in Services /\ (service.complete => service'.complete)
      /\ Update!ServiceCompletes => service'.complete
  <2> DEFINE n == service.said + 1
  <2>1. n \in Nat BY <1>1 DEF Services
  <2>2. \/ service' = [service EXCEPT !.said = n] /\ ~Update!ServiceCompletes
        \/ service' = [service EXCEPT !.complete = TRUE]
        \/ service' = [service EXCEPT !.over = TRUE] /\ ~Update!ServiceCompletes
    BY DEF Update!ServiceWorks, Update!ServiceCompletes, Update!ServiceEnds
  <2> HIDE DEF n
  <2> QED BY <1>1, <2>1, <2>2 DEF Services
<1>3. breaks' \in Troubles
  BY <1>1, TroubleIs DEF Update!ServiceWorks, Update!ServiceCompletes, Update!ServiceEnds, Update!Smooth
<1>4. /\ socket' \in {"none", "open", "shut", "lost"}
      /\ socket # "open" => socket' = socket
  BY <1>1 DEF UpdateTyped, Update!ServiceWorks, Update!ServiceCompletes, Update!ServiceEnds
<1>5. \/ lines' = lines
      \/ \E line \in LineSet: /\ lines' = Append(lines, line)
                              /\ line \in {"LOG complete", "DONE"} => service'.complete
  <2>1. CASE Update!ServiceWorks
    <3>1. PICK line \in {"PROGRESS", "LOG", "PROGRESS 100"}: Update!Says(line)
      BY <2>1 DEF Update!ServiceWorks
    <3>2. line \in LineSet /\ line \notin {"LOG complete", "DONE"} BY DEF LineSet
    <3> QED BY <3>1, <3>2 DEF Update!Says
  <2>2. CASE Update!ServiceCompletes
    <3>1. PICK line \in {"LOG complete", "OK"}: Update!Says(line) BY <2>2 DEF Update!ServiceCompletes
    <3>2. line \in LineSet /\ service'.complete BY <1>2, <2>2 DEF LineSet
    <3> QED BY <3>1, <3>2 DEF Update!Says
  <2>3. CASE Update!ServiceEnds /\ lines' # lines
    <3>1. PICK line \in {"DONE", "ERR", "FAIL"}: Update!Says(line) /\ (line = "DONE" => service.complete)
      BY <2>3 DEF Update!ServiceEnds
    <3>2. line \in LineSet /\ (line \in {"LOG complete", "DONE"} => service'.complete)
      BY <1>2, <3>1 DEF LineSet
    <3> QED BY <3>1, <3>2 DEF Update!Says
  <2> QED BY <2>1, <2>2, <2>3
<1>6. lines' \in Seq(LineSet)
  <2>1. CASE lines' = lines BY <1>1, <2>1
  <2>2. CASE \E line \in LineSet: lines' = Append(lines, line)
    <3>1. PICK line \in LineSet: lines' = Append(lines, line) BY <2>2
    <3> HIDE DEF LineSet
    <3>2. Append(lines, line) \in Seq(LineSet) BY <1>1, OneLineMore, Zenon
    <3> QED BY <3>1, <3>2
  <2> QED BY <1>5, <2>1, <2>2
<1>7. ASSUME \A i \in 1..Len(lines): lines[i] \in {"LOG complete", "DONE"} => service.complete
      PROVE  \A i \in 1..Len(lines'): lines'[i] \in {"LOG complete", "DONE"} => service'.complete
  <2>1. CASE lines' = lines BY <1>2, <1>7, <2>1
  <2>2. CASE lines' # lines
    <3>1. PICK line \in LineSet: /\ lines' = Append(lines, line)
                                 /\ line \in {"LOG complete", "DONE"} => service'.complete
      BY <1>5, <2>2
    <3>2. /\ Len(lines) \in Nat
          /\ Len(Append(lines, line)) = Len(lines) + 1
          /\ \A i \in 1..Len(lines): Append(lines, line)[i] = lines[i]
          /\ Append(lines, line)[Len(lines) + 1] = line
      <4> HIDE DEF LineSet
      <4>1. lines \in Seq(LineSet) /\ line \in LineSet BY <1>1, <3>1
      <4> QED BY <4>1, OneLineMore
    <3>3. \A i \in 1..(Len(lines) + 1): i \in 1..Len(lines) \/ i = Len(lines) + 1
      BY <3>2
    <3>4. /\ Len(lines') = Len(lines) + 1
          /\ \A i \in 1..Len(lines): lines'[i] = lines[i]
          /\ lines'[Len(lines) + 1] = line
      BY <3>1, <3>2, Zenon
    <3> QED BY <1>2, <1>7, <3>1, <3>3, <3>4
  <2> QED BY <2>1, <2>2
<1>8. UpdateTyped' BY <1>1, <1>2, <1>3, <1>4, <1>6 DEF UpdateTyped
<1>9. FlagsMeet' /\ BlocksLeft' BY <1>1 DEF UpdateInv, FlagsMeet, BlocksLeft
<1>10. Update!CloseIsPrompt' BY <1>1, <1>4 DEF UpdateInv, Update!CloseIsPrompt
<1>11. Update!CompleteIsTrue' BY <1>1 DEF Update!CompleteIsTrue
<1>12. ToldOnlyIfSo' BY <1>1, <1>2, <1>7 DEF UpdateInv, ToldOnlyIfSo
<1> QED BY <1>8, <1>9, <1>10, <1>11, <1>12 DEF UpdateInv

LEMMA UpdateStarts == ASSUME Update!UpdateParameters, Update!UpdateInit PROVE UpdateInv
<1>1. ui \in Windows /\ ui.at = "open" /\ ui.status = "idle" BY DEF Update!UpdateInit, Windows
<1>2. task \in Workers /\ task.at = "none" /\ task.kind = "none" /\ ~task.reported
  BY IdleIs DEF Update!UpdateInit
<1>3. lines \in Seq(LineSet) /\ service \in Services /\ breaks \in Troubles /\ socket = "none"
  BY DEF Update!UpdateInit, Services, Troubles, Update!NoSession
<1>4. UpdateTyped BY <1>1, <1>2, <1>3 DEF UpdateTyped
<1> QED BY <1>1, <1>2, <1>3, <1>4
     DEF UpdateInv, FlagsMeet, Update!CloseIsPrompt, ToldOnlyIfSo, BlocksLeft, Update!CompleteIsTrue

LEMMA UpdateSteps == ASSUME Update!UpdateParameters, UpdateInv, [Update!UpdateNext]_(Update!updateVars)
    PROVE UpdateInv'
<1>1. ASSUME UNCHANGED Update!updateVars PROVE UpdateInv'
  <2>1. /\ ui' = ui /\ task' = task /\ socket' = socket /\ lines' = lines /\ service' = service
        /\ breaks' = breaks
    BY <1>1 DEF Update!updateVars
  <2>2. UpdateTyped' BY <2>1 DEF UpdateInv, UpdateTyped
  <2> QED BY <2>1, <2>2
       DEF UpdateInv, FlagsMeet, Update!CloseIsPrompt, ToldOnlyIfSo, BlocksLeft, Update!CompleteIsTrue
<1>2. ASSUME NEW kind \in {"request", "update"}, Update!StartWorker(kind) PROVE UpdateInv'
  BY <1>2, StartWorkerKeeps
<1>3. CASE Update!CloseWindow \/ Update!ShutSocket \/ Update!JoinWorker BY <1>3, WindowKeeps
<1>4. CASE Update!Connect BY <1>4, ConnectKeeps
<1>5. CASE Update!Announce BY <1>5, AnnounceKeeps
<1>6. CASE Update!Check BY <1>6, CheckKeeps
<1>7. CASE Update!SendBlock BY <1>7, SendBlockKeeps
<1>8. CASE Update!NoLine BY <1>8, NoLineKeeps
<1>9. CASE Update!TakeLine BY <1>9, TakeLineKeeps
<1>10. CASE Update!ServiceWorks \/ Update!ServiceCompletes \/ Update!ServiceEnds BY <1>10, ServiceKeeps
<1> QED BY <1>1, <1>2, <1>3, <1>4, <1>5, <1>6, <1>7, <1>8, <1>9, <1>10, Zenon DEF Update!UpdateNext

\* Whoever closes the update window never waits for the board: a worker that would is
\* without a socket, or looks at the flag before it sends or waits again.
THEOREM ClosingNeverWaits == ASSUME Update!UpdateParameters
                           PROVE Update!UpdateSpec => []Update!CloseIsPrompt
<1>1. Update!UpdateInit => UpdateInv BY UpdateStarts
<1>2. UpdateInv /\ [Update!UpdateNext]_(Update!updateVars) => UpdateInv' BY UpdateSteps
<1>3. UpdateInv => Update!CloseIsPrompt BY DEF UpdateInv
<1> QED BY <1>1, <1>2, <1>3, PTL DEF Update!UpdateSpec

\* An update that is shown as complete was: the board's script has said so.
THEOREM CompleteWasSaid == ASSUME Update!UpdateParameters
                           PROVE Update!UpdateSpec => []Update!CompleteIsTrue
<1>1. Update!UpdateInit => UpdateInv BY UpdateStarts
<1>2. UpdateInv /\ [Update!UpdateNext]_(Update!updateVars) => UpdateInv' BY UpdateSteps
<1>3. UpdateInv => Update!CompleteIsTrue BY DEF UpdateInv
<1> QED BY <1>1, <1>2, <1>3, PTL DEF Update!UpdateSpec
=============================================================================
