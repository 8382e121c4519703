---------------------------- MODULE M300RxProofs ----------------------------
(***************************************************************************)
(* Proofs about M300Rx, for every packet size, ring, counter and number of *)
(* failures: what a start leaves behind, when the FPGA is quiet, the time  *)
(* stamp of a recv, the samples of a run, and the count of lost packets.   *)
(***************************************************************************)
EXTENDS M300Rx, SequenceTheorems, TLAPS

-----------------------------------------------------------------------------
(* The invariants.                                                            *)

\* Every packet carries its number, and starts at a whole sample time.
Packet ==
    {p \in [run: Nat, pkt: Nat, seq: Nat, word: Nat, words: Sizes] :
        p.seq = p.pkt % SeqMod /\ p.word % Channels = 0}

Step ==
    {"stop_rx", "source", "packet_bytes", "counters", "start_rx", "mode_exit", "params",
     "mode_strobe", "clear", "start_recv", "stream_start", "stop_recv", "clear_pending"}
JobTypes ==
    /\ job \in [op: {"none", "start", "catch", "stop", "recv"}, todo: Seq(Step), err: BOOLEAN]
    /\ began \in [ok: BOOLEAN, disturbed: BOOLEAN, dirty: BOOLEAN, threw: BOOLEAN]
    /\ count \in [ops: 0..MaxCalls, bad: 0..MaxFaults]
FpgaTypes ==
    /\ fpga \in [enabled: BOOLEAN, framer: {"idle", "armed", "running"}, run: Nat, word: Nat,
                 pkt: 0..MaxPkts]
    /\ fpga.word % Channels = 0 /\ fpga.run <= count.ops
RingTypes ==
    /\ ringOn \in BOOLEAN /\ ringQ \in Seq(Packet) /\ Len(ringQ) <= RingDepth
    /\ ~ringOn => ringQ = <<>>
PendTypes ==
    /\ pend \in Seq([pkt: Packet, off: Nat]) /\ Len(pend) <= 1
    /\ pend # <<>> => pend[1].off < pend[1].pkt.words
StatsTypes ==
    /\ stats \in [packets: Nat, jumps: Nat, lost: Nat, have: BOOLEAN, next: 0..(SeqMod - 1)]
    /\ seen \in [first: Int, last: Int, n: Nat, burst: BOOLEAN, run: Nat]
CallTypes ==
    /\ call \in [left: Nat, bulk: BOOLEAN, stamp: Int, first: Int]
    /\ call.stamp = -1 <=> call.first = -1
Types == JobTypes /\ FpgaTypes /\ RingTypes /\ PendTypes /\ StatsTypes /\ CallTypes

\* What a call has still to do is the rest of its list.
StopSteps == UndoSteps \o <<"clear_pending">>
RestOf(todo, steps) ==
    /\ Len(todo) <= Len(steps)
    /\ \A i \in 1..Len(todo) : todo[i] = steps[(Len(steps) - Len(todo)) + i]
JobInv ==
    /\ job.op = "start" => RestOf(job.todo, StartSteps) /\ (job.err => job.todo = <<>>)
    /\ job.op = "catch" => RestOf(job.todo, UndoSteps) /\ job.err
    /\ job.op = "stop" => RestOf(job.todo, StopSteps)
    /\ job.op \in {"none", "recv"} => job.todo = <<>> /\ ~job.err

\* All that the host has is of the FPGA's present run.
FreshRing == \A i \in 1..Len(ringQ) : ringQ[i].run = fpga.run
FreshHost ==
    /\ seen.n > 0 => seen.run = fpga.run
    /\ pend # <<>> => pend[1].pkt.run = fpga.run
Fresh == FreshRing /\ FreshHost

\* How far a start has come, by the number of its steps that are left.
Left == Len(job.todo)
Starting == job.op = "start" /\ ~job.err
StartFpga ==
    Starting =>
        /\ Left \in 1..10 => fpga.framer # "running"
        /\ Left > 0 => fpga.run < count.ops
        /\ ~began.disturbed =>
              /\ Left <= 6 => fpga.enabled
              /\ Left \in 1..3 => fpga.framer = "armed"
              /\ Left = 0 => fpga.framer = "running"
StartHost ==
    Starting =>
        /\ Left <= 2 => pend = <<>> /\ seen = NoSeen /\ stats = NoStats
        /\ Left <= 1 => ringOn
        /\ Left = 1 /\ ~began.dirty => ringQ = <<>>
        /\ Left = 0 /\ ~began.dirty => Fresh
StopInv == job.op = "stop" /\ ~job.err /\ Left <= 3 => fpga.framer # "running"
OkInv ==
    began.ok =>
        /\ job.op \in {"none", "recv"} /\ ringOn
        /\ ~began.disturbed => Producing
        /\ ~began.dirty => Fresh

\* Packets are numbered as the FPGA made them, whatever the ring dropped between.
Spread(q, x) ==
    /\ \A i \in 1..Len(q) : q[i].pkt + ((Len(q) + 1) - i) <= x
    /\ \A i, j \in 1..Len(q) : i < j => q[i].pkt + (j - i) <= q[j].pkt
Later(q, x) == \A i \in 1..Len(q) : x < q[i].pkt
OrderInv ==
    ~began.dirty =>
        /\ Spread(ringQ, fpga.pkt)
        /\ seen.n > 0 => seen.last < fpga.pkt /\ Later(ringQ, seen.last)

\* The counter expects packet v; what it has counted lost is short of the
\* packets before v that were not seen by k turns of the counter.
Account(first, n, lost, k) == first + n + lost + k * SeqMod
Ledger(st, sn, v, k) ==
    /\ v = Account(sn.first, sn.n, st.lost, k)
    /\ v <= sn.last + 1 /\ (~sn.burst => v = sn.last + 1)
    /\ st.have /\ st.next = v % SeqMod /\ sn.first # -1
LedgerInv ==
    /\ stats.packets = seen.n
    /\ seen.n = 0 => stats = NoStats /\ seen = NoSeen
    /\ ~began.dirty /\ seen.n > 0 => \E v, k \in Nat : Ledger(stats, seen, v, k)

HostInv == StartHost /\ OkInv /\ OrderInv /\ LedgerInv
RxInv ==
    /\ Types /\ JobInv /\ StartFpga /\ StopInv /\ QuietUnlessReported /\ HostInv
    /\ StampHonest

-----------------------------------------------------------------------------
(* The lists of steps.                                                        *)

LEMMA StartStepsAre ==
    /\ StartSteps \in Seq(Step) /\ Len(StartSteps) = 11
    /\ StartSteps[1] = "stop_rx" /\ StartSteps[2] = "source" /\ StartSteps[3] = "packet_bytes"
    /\ StartSteps[4] = "counters" /\ StartSteps[5] = "start_rx" /\ StartSteps[6] = "mode_exit"
    /\ StartSteps[7] = "params" /\ StartSteps[8] = "mode_strobe" /\ StartSteps[9] = "clear"
    /\ StartSteps[10] = "start_recv" /\ StartSteps[11] = "stream_start"
BY DEF StartSteps, Step

LEMMA UndoStepsAre ==
    /\ UndoSteps \in Seq(Step) /\ Len(UndoSteps) = 3
    /\ UndoSteps[1] = "mode_exit" /\ UndoSteps[2] = "stop_rx" /\ UndoSteps[3] = "stop_recv"
BY DEF UndoSteps, Step

LEMMA OneMore ==
    ASSUME NEW s \in Seq(Step), NEW e \in Step
    PROVE  /\ Append(s, e) \in Seq(Step) /\ Len(Append(s, e)) = Len(s) + 1
           /\ Append(s, e)[Len(s) + 1] = e /\ \A i \in 1..Len(s) : Append(s, e)[i] = s[i]
           /\ Append(s, e) = s \o <<e>>
<1> HIDE DEF Step
<1>1. Append(s, e) = s \o <<e>> BY AppendIsConcat
<1>2. Append(s, e) \in Seq(Step) BY AppendProperties
<1>3. Len(Append(s, e)) = Len(s) + 1 BY AppendProperties
<1>4. Append(s, e)[Len(s) + 1] = e BY AppendProperties
<1>5. \A i \in 1..Len(s) : Append(s, e)[i] = s[i] BY AppendProperties
<1> QED BY <1>1, <1>2, <1>3, <1>4, <1>5

LEMMA StopStepsAre ==
    /\ StopSteps \in Seq(Step) /\ Len(StopSteps) = 4
    /\ StopSteps[1] = "mode_exit" /\ StopSteps[2] = "stop_rx" /\ StopSteps[3] = "stop_recv"
    /\ StopSteps[4] = "clear_pending"
<1>1. "clear_pending" \in Step BY DEF Step
<1>2. UndoSteps \in Seq(Step) /\ Len(UndoSteps) = 3 BY UndoStepsAre
<1>3. StopSteps = Append(UndoSteps, "clear_pending") BY <1>1, <1>2, OneMore DEF StopSteps
<1>4. /\ StopSteps \in Seq(Step) /\ Len(StopSteps) = Len(UndoSteps) + 1
      /\ StopSteps[Len(UndoSteps) + 1] = "clear_pending"
      /\ \A i \in 1..Len(UndoSteps) : StopSteps[i] = UndoSteps[i]
  BY <1>1, <1>2, <1>3, OneMore
<1>5. Len(StopSteps) = 4 /\ StopSteps[4] = "clear_pending" BY <1>2, <1>4
<1>6. \A i \in 1..3 : StopSteps[i] = UndoSteps[i] BY <1>2, <1>4
<1> QED BY <1>4, <1>5, <1>6, UndoStepsAre

LEMMA WholeList == ASSUME NEW s \in Seq(Step) PROVE RestOf(s, s) /\ RestOf(<<>>, s)
<1>1. Len(s) \in Nat /\ Len(<<>>) = 0 OBVIOUS
<1> QED BY <1>1 DEF RestOf

LEMMA NextOfRest ==
    ASSUME NEW todo \in Seq(Step), NEW steps \in Seq(Step), RestOf(todo, steps), todo # <<>>
    PROVE  /\ Len(todo) \in 1..Len(steps) /\ Head(todo) = steps[(Len(steps) - Len(todo)) + 1]
           /\ Tail(todo) \in Seq(Step) /\ Len(Tail(todo)) = Len(todo) - 1
           /\ RestOf(Tail(todo), steps)
<1> DEFINE n == Len(todo)
           m == Len(steps)
<1>1. /\ n \in Nat \ {0} /\ m \in Nat /\ Tail(todo) \in Seq(Step) /\ Len(Tail(todo)) = n - 1
      /\ Head(todo) = todo[1] /\ \A i \in 1..(n - 1) : Tail(todo)[i] = todo[i + 1]
  BY EmptySeq
<1>2. n <= m /\ \A i \in 1..n : todo[i] = steps[(m - n) + i] BY DEF RestOf
<1> HIDE DEF n, m
<1>3. n \in 1..m /\ Head(todo) = steps[(m - n) + 1] BY <1>1, <1>2
<1>4. ASSUME NEW i \in 1..(n - 1) PROVE Tail(todo)[i] = steps[(m - (n - 1)) + i]
  <2>1. i + 1 \in 1..n /\ (m - (n - 1)) + i = (m - n) + (i + 1) BY <1>1
  <2> QED BY <1>1, <1>2, <2>1
<1>5. n - 1 <= m BY <1>1, <1>2
<1> QED BY <1>1, <1>3, <1>4, <1>5 DEF RestOf, n, m

\* Where a start is, by the step that comes next.
LEMMA StartPlace ==
    ASSUME JobTypes, JobInv, job.op = "start", job.todo # <<>>
    PROVE  /\ ~job.err /\ Left \in 1..11 /\ Head(job.todo) = StartSteps[12 - Left]
           /\ Tail(job.todo) \in Seq(Step) /\ Len(Tail(job.todo)) = Left - 1
           /\ RestOf(Tail(job.todo), StartSteps)
<1>1. job.todo \in Seq(Step) /\ RestOf(job.todo, StartSteps) /\ ~job.err
  BY DEF JobTypes, JobInv
<1>2. StartSteps \in Seq(Step) /\ Len(StartSteps) = 11 /\ job.todo # <<>> BY StartStepsAre
<1>3. /\ Len(job.todo) \in 1..Len(StartSteps)
      /\ Head(job.todo) = StartSteps[(Len(StartSteps) - Len(job.todo)) + 1]
      /\ Tail(job.todo) \in Seq(Step) /\ Len(Tail(job.todo)) = Len(job.todo) - 1
      /\ RestOf(Tail(job.todo), StartSteps)
  BY ONLY <1>1, <1>2, NextOfRest
<1>4. Left \in 1..11 /\ (11 - Left) + 1 = 12 - Left BY <1>2, <1>3 DEF Left
<1> QED BY <1>1, <1>2, <1>3, <1>4 DEF Left

LEMMA StopPlace ==
    ASSUME JobTypes, JobInv, job.op = "stop", job.todo # <<>>
    PROVE  /\ Left \in 1..4 /\ Head(job.todo) = StopSteps[5 - Left]
           /\ Tail(job.todo) \in Seq(Step) /\ Len(Tail(job.todo)) = Left - 1
           /\ RestOf(Tail(job.todo), StopSteps)
<1>1. job.todo \in Seq(Step) /\ RestOf(job.todo, StopSteps) BY DEF JobTypes, JobInv
<1>2. StopSteps \in Seq(Step) /\ Len(StopSteps) = 4 /\ job.todo # <<>> BY StopStepsAre
<1>3. /\ Len(job.todo) \in 1..Len(StopSteps)
      /\ Head(job.todo) = StopSteps[(Len(StopSteps) - Len(job.todo)) + 1]
      /\ Tail(job.todo) \in Seq(Step) /\ Len(Tail(job.todo)) = Len(job.todo) - 1
      /\ RestOf(Tail(job.todo), StopSteps)
  BY ONLY <1>1, <1>2, NextOfRest
<1>4. Left \in 1..4 /\ (4 - Left) + 1 = 5 - Left BY <1>2, <1>3 DEF Left
<1> QED BY <1>1, <1>2, <1>3, <1>4 DEF Left

LEMMA CatchPlace ==
    ASSUME JobTypes, JobInv, job.op = "catch", job.todo # <<>>
    PROVE  /\ job.err /\ Left \in 1..3 /\ Head(job.todo) = UndoSteps[4 - Left]
           /\ Tail(job.todo) \in Seq(Step) /\ Len(Tail(job.todo)) = Left - 1
           /\ RestOf(Tail(job.todo), UndoSteps)
<1>1. job.todo \in Seq(Step) /\ RestOf(job.todo, UndoSteps) /\ job.err BY DEF JobTypes, JobInv
<1>2. UndoSteps \in Seq(Step) /\ Len(UndoSteps) = 3 /\ job.todo # <<>> BY UndoStepsAre
<1>3. /\ Len(job.todo) \in 1..Len(UndoSteps)
      /\ Head(job.todo) = UndoSteps[(Len(UndoSteps) - Len(job.todo)) + 1]
      /\ Tail(job.todo) \in Seq(Step) /\ Len(Tail(job.todo)) = Len(job.todo) - 1
      /\ RestOf(Tail(job.todo), UndoSteps)
  BY ONLY <1>1, <1>2, NextOfRest
<1>4. Left \in 1..3 /\ (3 - Left) + 1 = 4 - Left BY <1>2, <1>3 DEF Left
<1> QED BY <1>1, <1>2, <1>3, <1>4 DEF Left

-----------------------------------------------------------------------------
(* The packet counter wraps.                                                  *)

LEMMA WholeTurns ==
    ASSUME NEW m \in Nat \ {0}, NEW q \in Int, NEW r \in 0..(m - 1)
    PROVE  (q * m + r) % m = r
<1> DEFINE x == q * m + r
           d == x \div m
           e == x % m
<1>1. x \in Int OBVIOUS
<1>2. d \in Int /\ e \in 0..(m - 1) /\ x = m * d + e BY <1>1
<1>3. ASSUME NEW a \in Int, NEW b \in Int, a < b PROVE m * a + m <= m * b
  <2>1. a + 1 <= b BY <1>3
  <2> QED BY <2>1
<1>4. m * q = q * m BY <1>1
<1>5. x = m * q + r BY <1>4
<1> HIDE DEF d, e, x
<1>6. ~(d < q)
  <2>1. d < q => m * d + m <= m * q BY <1>2, <1>3
  <2> QED BY <1>2, <1>5, <2>1
<1>7. ~(q < d)
  <2>1. q < d => m * q + m <= m * d BY <1>2, <1>3
  <2> QED BY <1>2, <1>5, <2>1
<1>8. d = q BY <1>2, <1>6, <1>7
<1>9. e = r BY <1>2, <1>5, <1>8
<1> QED BY <1>9 DEF e, x

\* The number after n packets, counted from a number or from its packet.
LEMMA NumberAfter ==
    ASSUME NEW m \in Nat \ {0}, NEW a \in Nat, NEW n \in Nat
    PROVE  ((a % m) + n) % m = (a + n) % m /\ (a + n) % m \in 0..(m - 1)
<1> DEFINE q == a \div m
           r == a % m
           p == (r + n) \div m
           s == (r + n) % m
<1>1. q \in Nat /\ r \in 0..(m - 1) /\ a = m * q + r OBVIOUS
<1>2. r + n \in Nat BY <1>1
<1>3. p \in Nat /\ s \in 0..(m - 1) /\ r + n = m * p + s BY <1>2
<1> HIDE DEF q, r, p, s
<1>4. a + n = (q + p) * m + s
  <2>1. (q + p) * m = m * q + m * p BY <1>1, <1>3
  <2> QED BY <1>1, <1>3, <2>1
<1>5. ((q + p) * m + s) % m = s
  <2>1. q + p \in Int BY <1>1, <1>3
  <2> QED BY <1>3, <2>1, WholeTurns
<1> QED BY <1>3, <1>4, <1>5 DEF r, s

\* The distance of two numbers is that of their packets, but for whole turns.
LEMMA Distance ==
    ASSUME NEW m \in Nat \ {0}, NEW a \in Nat, NEW b \in Nat, a <= b
    PROVE  /\ ((b % m) - (a % m)) % m \in 0..(m - 1)
           /\ \E j \in Nat : b = a + (((b % m) - (a % m)) % m) + j * m
<1> DEFINE qa == a \div m
           ra == a % m
           qb == b \div m
           rb == b % m
           j == (b - a) \div m
           r == (b - a) % m
<1>1. b - a \in Nat OBVIOUS
<1>2. /\ qa \in Nat /\ ra \in 0..(m - 1) /\ a = m * qa + ra
      /\ qb \in Nat /\ rb \in 0..(m - 1) /\ b = m * qb + rb
  OBVIOUS
<1>3. j \in Nat /\ r \in 0..(m - 1) /\ b - a = m * j + r BY <1>1
<1> HIDE DEF qa, ra, qb, rb, j, r
<1>4. rb - ra = ((j + qa) - qb) * m + r
  <2>1. ((j + qa) - qb) * m = (m * j + m * qa) - m * qb BY <1>2, <1>3
  <2> QED BY <1>2, <1>3, <2>1
<1>5. (((j + qa) - qb) * m + r) % m = r
  <2>1. (j + qa) - qb \in Int BY <1>2, <1>3
  <2> QED BY <1>3, <2>1, WholeTurns
<1>6. (rb - ra) % m = r BY <1>4, <1>5
<1>7. b = a + r + j * m
  <2>1. j * m = m * j BY <1>3
  <2> QED BY <1>3, <2>1
<1> QED BY <1>3, <1>6, <1>7 DEF ra, rb

\* The words of a sample time stay together.
LEMMA SampleTimes ==
    ASSUME RxParameters, NEW a \in Nat, a % Channels = 0, NEW b \in Nat
    PROVE  /\ (a + b) \div Channels = (a \div Channels) + (b \div Channels)
           /\ b % Channels = 0 => (a + b) % Channels = 0
           /\ a \div Channels \in Nat /\ b \div Channels \in Nat
<1>1. CASE Channels = 1 BY <1>1
<1>2. CASE Channels = 2 BY <1>2
<1> QED BY <1>1, <1>2 DEF RxParameters

-----------------------------------------------------------------------------
(* Calls of start, stop and set_channel_enable begin and end.                 *)

LEMMA EffectIs ==
    ASSUME RxParameters, FpgaTypes, NEW cmd
    PROVE  /\ Effect(cmd) \in [enabled: BOOLEAN, framer: {"idle", "armed", "running"},
                               run: Nat, word: Nat, pkt: 0..MaxPkts]
           /\ Effect(cmd).word % Channels = 0
           /\ \/ Effect(cmd).run = fpga.run /\ Effect(cmd).pkt = fpga.pkt
              \/ cmd = "stream_start" /\ Effect(cmd).run = fpga.run + 1 /\ Effect(cmd).pkt = 0
           /\ Effect(cmd).framer = "running" =>
                 /\ Effect(cmd).enabled = fpga.enabled
                 /\ cmd = "stream_start" \/ fpga.framer = "running"
           /\ fpga.enabled /\ cmd # "stop_rx" => Effect(cmd).enabled
           /\ cmd = "start_rx" => Effect(cmd).enabled
           /\ cmd \in {"start_rx", "stop_rx", "source", "packet_bytes", "mode_exit"} =>
                 Effect(cmd).framer = "idle"
           /\ cmd = "mode_strobe" => Effect(cmd).framer = "armed"
           /\ cmd = "stream_start" /\ fpga.framer = "armed" => Effect(cmd).framer = "running"
<1>1. 0 % Channels = 0 /\ 0 \in 0..MaxPkts BY DEF RxParameters
<1>2. CASE cmd = "stop_rx" BY <1>1, <1>2 DEF Effect, FpgaTypes
<1>3. CASE cmd = "start_rx" BY <1>1, <1>3 DEF Effect, FpgaTypes
<1>4. CASE cmd \in {"source", "packet_bytes", "mode_exit"} BY <1>1, <1>4 DEF Effect, FpgaTypes
<1>5. CASE cmd = "mode_strobe" BY <1>1, <1>5 DEF Effect, FpgaTypes
<1>6. CASE cmd = "stream_start" /\ fpga.framer = "armed"
  <2>1. Effect(cmd) = [fpga EXCEPT !.framer = "running", !.run = @ + 1, !.word = 0, !.pkt = 0]
    BY <1>6 DEF Effect
  <2>2. /\ fpga \in [enabled: BOOLEAN, framer: {"idle", "armed", "running"}, run: Nat,
                     word: Nat, pkt: 0..MaxPkts]
        /\ fpga.run + 1 \in Nat
    BY DEF FpgaTypes
  <2>3. Effect(cmd) = [enabled |-> fpga.enabled, framer |-> "running", run |-> fpga.run + 1,
                       word |-> 0, pkt |-> 0]
    BY <2>1, <2>2
  <2> QED BY <1>1, <1>6, <2>2, <2>3
<1>7. CASE cmd = "stream_start" /\ fpga.framer # "armed"
  <2>1. Effect(cmd) = fpga BY <1>7 DEF Effect
  <2> QED BY <1>1, <1>7, <2>1 DEF FpgaTypes
<1>8. CASE cmd \notin {"stop_rx", "start_rx", "source", "packet_bytes", "mode_exit",
                       "mode_strobe", "stream_start"}
  <2>1. Effect(cmd) = fpga BY <1>8 DEF Effect
  <2> QED BY <1>1, <1>8, <2>1 DEF FpgaTypes
<1> QED BY <1>2, <1>3, <1>4, <1>5, <1>6, <1>7, <1>8

LEMMA OpCounted ==
    ASSUME RxParameters, JobTypes, RxOp
    PROVE  count' \in [ops: 0..MaxCalls, bad: 0..MaxFaults] /\ count'.ops = count.ops + 1
<1>1. count \in [ops: 0..MaxCalls, bad: 0..MaxFaults] BY DEF JobTypes
<1>2. count.ops + 1 \in 0..MaxCalls BY <1>1 DEF RxOp, RxParameters
<1> QED BY <1>1, <1>2 DEF RxOp

LEMMA StartBegins == ASSUME RxParameters, RxInv, StartStream PROVE RxInv'
<1> USE DEF StartStream, RxOp
<1>1. /\ JobTypes /\ FpgaTypes /\ RingTypes /\ PendTypes /\ StatsTypes /\ CallTypes /\ JobInv
      /\ QuietUnlessReported /\ OrderInv /\ LedgerInv /\ StampHonest
  BY DEF RxInv, Types, HostInv
<1>2. StartSteps \in Seq(Step) /\ Len(StartSteps) = 11 /\ RestOf(StartSteps, StartSteps)
  BY StartStepsAre, WholeList
<1>3. job' = [op |-> "start", todo |-> StartSteps, err |-> FALSE] /\ Left' = 11
  BY <1>2 DEF Left
<1>4. JobTypes' /\ FpgaTypes' /\ fpga.run < count'.ops
  <2>1. JobTypes'
    <3>1. count' \in [ops: 0..MaxCalls, bad: 0..MaxFaults] BY <1>1, OpCounted
    <3>2. job' \in [op: {"none", "start", "catch", "stop", "recv"}, todo: Seq(Step),
                    err: BOOLEAN]
      BY <1>2, <1>3
    <3>3. began' \in [ok: BOOLEAN, disturbed: BOOLEAN, dirty: BOOLEAN, threw: BOOLEAN]
      BY <1>1 DEF JobTypes
    <3> QED BY <3>1, <3>2, <3>3 DEF JobTypes
  <2>2. count.ops \in Nat /\ fpga.run \in Nat /\ fpga.run <= count.ops
    BY <1>1 DEF JobTypes, FpgaTypes
  <2>3. count'.ops = count.ops + 1 BY <1>1, OpCounted
  <2> QED BY <1>1, <2>1, <2>2, <2>3 DEF FpgaTypes
<1>5. RingTypes' /\ PendTypes' /\ StatsTypes' /\ CallTypes'
  BY <1>1 DEF RingTypes, PendTypes, StatsTypes, CallTypes
<1>6. JobInv' BY <1>1, <1>2 DEF JobInv
<1>7. StartFpga' /\ StartHost' /\ StopInv'
  BY <1>3, <1>4 DEF StartFpga, StartHost, StopInv, Starting
<1>8. QuietUnlessReported' /\ OkInv'
  BY <1>1 DEF QuietUnlessReported, OkInv, Producing, JobInv, Idle, JobTypes
<1>9. OrderInv' /\ LedgerInv' /\ StampHonest'
  BY <1>1 DEF OrderInv, LedgerInv, StampHonest, JobTypes
<1> QED BY <1>4, <1>5, <1>6, <1>7, <1>8, <1>9 DEF RxInv, Types, HostInv

LEMMA StopBegins == ASSUME RxParameters, RxInv, StopStream PROVE RxInv'
<1>1. /\ JobTypes /\ FpgaTypes /\ RingTypes /\ PendTypes /\ StatsTypes /\ CallTypes /\ JobInv
      /\ QuietUnlessReported /\ OrderInv /\ LedgerInv /\ StampHonest
  BY DEF RxInv, Types, HostInv
<1>2. StopSteps \in Seq(Step) /\ Len(StopSteps) = 4 /\ RestOf(StopSteps, StopSteps)
  BY StopStepsAre, WholeList
<1>3. job' = [op |-> "stop", todo |-> StopSteps, err |-> FALSE] /\ Left' = 4
  BY <1>2 DEF StopStream, StopSteps, Left
<1>4. JobTypes' /\ count'.ops = count.ops + 1
  <2>1. /\ count' \in [ops: 0..MaxCalls, bad: 0..MaxFaults] /\ count'.ops = count.ops + 1
        /\ began' \in [ok: BOOLEAN, disturbed: BOOLEAN, dirty: BOOLEAN, threw: BOOLEAN]
    BY <1>1, OpCounted DEF StopStream, JobTypes
  <2>2. job' \in [op: {"none", "start", "catch", "stop", "recv"}, todo: Seq(Step), err: BOOLEAN]
    BY <1>2, <1>3
  <2> QED BY <2>1, <2>2 DEF JobTypes
<1>5. FpgaTypes'
  <2>1. count.ops \in Nat /\ fpga.run \in Nat /\ fpga.run <= count.ops
    BY <1>1 DEF JobTypes, FpgaTypes
  <2> QED BY <1>1, <1>4, <2>1 DEF FpgaTypes, StopStream
<1>6. RingTypes' /\ PendTypes' /\ StatsTypes' /\ CallTypes'
  BY <1>1 DEF StopStream, RingTypes, PendTypes, StatsTypes, CallTypes
<1>7. JobInv' BY <1>2, <1>3 DEF JobInv
<1>8. StartFpga' /\ StartHost' /\ StopInv'
  BY <1>3 DEF StartFpga, StartHost, StopInv, Starting
<1>9. QuietUnlessReported' /\ OkInv'
  BY <1>1, <1>3 DEF StopStream, QuietUnlessReported, OkInv, Producing, JobInv, Idle, JobTypes
<1>10. OrderInv' /\ LedgerInv' /\ StampHonest'
  BY <1>1 DEF StopStream, OrderInv, LedgerInv, StampHonest, JobTypes
<1> QED BY <1>4, <1>5, <1>6, <1>7, <1>8, <1>9, <1>10 DEF RxInv, Types, HostInv

LEMMA CallEnds == ASSUME RxParameters, RxInv, Finish PROVE RxInv'
<1> USE DEF Finish
<1>1. /\ JobTypes /\ FpgaTypes /\ RingTypes /\ PendTypes /\ StatsTypes /\ CallTypes /\ JobInv
      /\ QuietUnlessReported /\ OrderInv /\ LedgerInv /\ StampHonest
      /\ StartFpga /\ StartHost /\ StopInv
  BY DEF RxInv, Types, HostInv
<1>2. Left = 0 /\ <<>> \in Seq(Step) BY DEF Left
<1>3. JobTypes' BY <1>1, <1>2 DEF JobTypes, Idle, Thrown
<1>4. FpgaTypes' BY <1>1 DEF FpgaTypes
<1>5. RingTypes' /\ PendTypes' /\ StatsTypes' /\ CallTypes'
  BY <1>1 DEF RingTypes, PendTypes, StatsTypes, CallTypes
<1>6. JobInv' BY DEF JobInv, Idle
<1>7. StartFpga' /\ StartHost' /\ StopInv'
  BY DEF StartFpga, StartHost, StopInv, Starting, Idle
<1>8. /\ began' \in [ok: BOOLEAN, disturbed: BOOLEAN, dirty: BOOLEAN, threw: BOOLEAN]
      /\ began'.ok = (job.op = "start" /\ ~job.err) /\ began'.threw = job.err
      /\ began'.dirty = began.dirty /\ began'.disturbed = began.disturbed
  BY <1>1, <1>3 DEF JobTypes, Thrown
<1>9. job.op = "start" /\ ~job.err =>
        /\ ringOn /\ (~began.disturbed => Producing) /\ (~began.dirty => Fresh)
  BY <1>1, <1>2 DEF StartFpga, StartHost, Starting, Producing
<1>10. OkInv'
  BY <1>8, <1>9 DEF OkInv, Producing, Fresh, FreshRing, FreshHost, Idle
<1>11. QuietUnlessReported'
  <2>1. CASE job.err BY <1>8, <2>1 DEF QuietUnlessReported
  <2>2. CASE job.op = "start" /\ ~job.err BY <1>9, <2>2 DEF QuietUnlessReported
  <2>3. CASE job.op = "stop" /\ ~job.err
    BY <1>1, <1>2, <2>3 DEF QuietUnlessReported, StopInv, Producing
  <2>4. CASE job.op = "catch" BY <1>1, <1>8, <2>4 DEF QuietUnlessReported, JobInv
  <2> QED BY <2>1, <2>2, <2>3, <2>4
<1>12. OrderInv' /\ LedgerInv' /\ StampHonest'
  BY <1>1, <1>8 DEF OrderInv, LedgerInv, StampHonest
<1> QED BY <1>3, <1>4, <1>5, <1>6, <1>7, <1>10, <1>11, <1>12 DEF RxInv, Types, HostInv

LEMMA EnableWritten == ASSUME RxParameters, RxInv, SetChannelEnable PROVE RxInv'
<1> USE DEF SetChannelEnable, RxOp
<1>1. /\ JobTypes /\ FpgaTypes /\ RingTypes /\ PendTypes /\ StatsTypes /\ CallTypes /\ JobInv
      /\ OrderInv /\ LedgerInv /\ StampHonest /\ StartFpga /\ StartHost /\ OkInv
  BY DEF RxInv, Types, HostInv
<1>2. PICK cmd \in {"start_rx", "stop_rx"} : fpga' = Effect(cmd) OBVIOUS
<1>3. /\ fpga' \in [enabled: BOOLEAN, framer: {"idle", "armed", "running"}, run: Nat,
                    word: Nat, pkt: 0..MaxPkts]
      /\ fpga'.word % Channels = 0 /\ fpga'.run = fpga.run /\ fpga'.pkt = fpga.pkt
      /\ fpga'.framer = "idle"
  BY <1>1, <1>2, EffectIs
<1>4. JobTypes' /\ count'.ops = count.ops + 1 BY <1>1, OpCounted DEF JobTypes
<1>5. /\ began'.ok = began.ok /\ began'.disturbed /\ began'.dirty = began.dirty
      /\ job' = job /\ Left' = Left
  BY <1>1 DEF JobTypes, Left
<1>6. count.ops \in Nat /\ fpga.run \in Nat BY <1>1 DEF JobTypes, FpgaTypes
<1>7. FpgaTypes' BY <1>1, <1>3, <1>4, <1>6 DEF FpgaTypes
<1>8. RingTypes' /\ PendTypes' /\ StatsTypes' /\ CallTypes'
  BY <1>1 DEF RingTypes, PendTypes, StatsTypes, CallTypes
<1>9. JobInv' BY <1>1 DEF JobInv
<1>10. StartFpga'
  BY <1>1, <1>3, <1>4, <1>5, <1>6 DEF StartFpga, Starting
<1>11. StartHost'
  BY <1>1, <1>3, <1>5 DEF StartHost, Starting, Fresh, FreshRing, FreshHost
<1>12. StopInv' /\ QuietUnlessReported' BY <1>3 DEF StopInv, QuietUnlessReported, Producing
<1>13. OkInv' BY <1>1, <1>3, <1>5 DEF OkInv, Fresh, FreshRing, FreshHost
<1>14. OrderInv' /\ LedgerInv' /\ StampHonest'
  BY <1>1, <1>3, <1>5 DEF OrderInv, LedgerInv, StampHonest
<1> QED BY <1>4, <1>7, <1>8, <1>9, <1>10, <1>11, <1>12, <1>13, <1>14 DEF RxInv, Types, HostInv

-----------------------------------------------------------------------------
(* The commands of start and stop, answered or not.                           *)

Acting == job.op \in {"start", "catch", "stop"} /\ job.todo # <<>>

\* Which step comes next, by the number of steps that are left.
Place(op, n, step) ==
    /\ op = "start" =>
          /\ n \in 1..11
          /\ (n = 11 => step = "stop_rx") /\ (n = 10 => step = "source")
          /\ (n = 9 => step = "packet_bytes") /\ (n = 8 => step = "counters")
          /\ (n = 7 => step = "start_rx") /\ (n = 6 => step = "mode_exit")
          /\ (n = 5 => step = "params") /\ (n = 4 => step = "mode_strobe")
          /\ (n = 3 => step = "clear") /\ (n = 2 => step = "start_recv")
          /\ (n = 1 => step = "stream_start")
    /\ op = "stop" =>
          /\ n \in 1..4 /\ (n = 4 => step = "mode_exit") /\ (n = 3 => step = "stop_rx")
          /\ (n = 2 => step = "stop_recv") /\ (n = 1 => step = "clear_pending")
    /\ op = "catch" =>
          /\ n \in 1..3 /\ (n = 3 => step = "mode_exit") /\ (n = 2 => step = "stop_rx")
          /\ (n = 1 => step = "stop_recv")

LEMMA PlaceOf == ASSUME JobTypes, JobInv, Acting PROVE Place(job.op, Left, Head(job.todo))
<1> DEFINE n == Left
           step == Head(job.todo)
<1>1. job.op = "start" => n \in 1..11 /\ step = StartSteps[12 - n] BY StartPlace DEF Acting
<1>2. job.op = "stop" => n \in 1..4 /\ step = StopSteps[5 - n] BY StopPlace DEF Acting
<1>3. job.op = "catch" => n \in 1..3 /\ step = UndoSteps[4 - n] BY CatchPlace DEF Acting
<1> HIDE DEF n, step
<1>4. ASSUME job.op = "start" PROVE Place("start", n, step)
  <2>1. n \in 1..11 /\ step = StartSteps[12 - n] BY <1>1, <1>4
  <2> QED BY <2>1, StartStepsAre DEF Place
<1>5. ASSUME job.op = "stop" PROVE Place("stop", n, step)
  <2>1. n \in 1..4 /\ step = StopSteps[5 - n] BY <1>2, <1>5
  <2> QED BY <2>1, StopStepsAre DEF Place
<1>6. ASSUME job.op = "catch" PROVE Place("catch", n, step)
  <2>1. n \in 1..3 /\ step = UndoSteps[4 - n] BY <1>3, <1>6
  <2> QED BY <2>1, UndoStepsAre DEF Place
<1> QED BY <1>4, <1>5, <1>6 DEF Acting, n, step

\* The step is done: the call goes on with the rest of its list.
LEMMA OnwardIs ==
    ASSUME JobTypes, JobInv, Acting, Done
    PROVE  /\ job' \in [op: {"none", "start", "catch", "stop", "recv"}, todo: Seq(Step),
                        err: BOOLEAN]
           /\ job'.op = job.op /\ job'.err = job.err /\ Left' = Left - 1 /\ JobInv'
<1>1. /\ job \in [op: {"none", "start", "catch", "stop", "recv"}, todo: Seq(Step), err: BOOLEAN]
      /\ job.op \in {"start", "catch", "stop"}
  BY DEF JobTypes, Acting
<1>2. job' = [job EXCEPT !.todo = Tail(job.todo)] BY DEF Done
<1>3. Tail(job.todo) \in Seq(Step) /\ Len(Tail(job.todo)) = Left - 1
  BY <1>1, StartPlace, StopPlace, CatchPlace DEF Acting
<1>4. job'.op = job.op /\ job'.err = job.err /\ job'.todo = Tail(job.todo) BY <1>1, <1>2
<1>5. job.op = "start" => ~job.err /\ RestOf(job'.todo, StartSteps)
  BY <1>4, StartPlace DEF Acting
<1>6. job.op = "stop" => RestOf(job'.todo, StopSteps) BY <1>4, StopPlace DEF Acting
<1>7. job.op = "catch" => job.err /\ RestOf(job'.todo, UndoSteps)
  BY <1>4, CatchPlace DEF Acting
<1>8. JobInv' BY <1>1, <1>4, <1>5, <1>6, <1>7 DEF JobInv
<1> QED BY <1>1, <1>2, <1>3, <1>4, <1>8 DEF Left

\* A step failed: what is left to do is set, and the call will throw.
LEMMA FailedIs ==
    ASSUME JobTypes, JobInv, Acting, job' = AfterFailure
    PROVE  /\ job' \in [op: {"none", "start", "catch", "stop", "recv"}, todo: Seq(Step),
                        err: BOOLEAN]
           /\ job'.op \in {"start", "catch", "stop"} /\ job'.err /\ JobInv'
<1>1. /\ job \in [op: {"none", "start", "catch", "stop", "recv"}, todo: Seq(Step), err: BOOLEAN]
      /\ job.op \in {"start", "catch", "stop"}
  BY DEF JobTypes, Acting
<1>2. CASE job.op # "start"
  <2>1. job' = [job EXCEPT !.todo = Tail(job.todo), !.err = TRUE] BY <1>2 DEF AfterFailure
  <2>2. job'.op = job.op /\ job'.err /\ job'.todo = Tail(job.todo) BY <1>1, <2>1
  <2>3. /\ Tail(job.todo) \in Seq(Step)
        /\ job.op = "stop" => RestOf(Tail(job.todo), StopSteps)
        /\ job.op = "catch" => RestOf(Tail(job.todo), UndoSteps)
    BY <1>1, <1>2, StopPlace, CatchPlace DEF Acting
  <2>4. JobInv' BY <1>1, <1>2, <2>2, <2>3 DEF JobInv
  <2> QED BY <1>1, <1>2, <2>1, <2>2, <2>3, <2>4
<1>3. CASE job.op = "start" /\ Head(job.todo) \in {"start_recv", "stream_start"}
  <2>1. job' = [op |-> "catch", todo |-> UndoSteps, err |-> TRUE] BY <1>3 DEF AfterFailure
  <2>2. UndoSteps \in Seq(Step) /\ RestOf(UndoSteps, UndoSteps) BY UndoStepsAre, WholeList
  <2>3. JobInv' BY <2>1, <2>2 DEF JobInv
  <2> QED BY <2>1, <2>2, <2>3
<1>4. CASE job.op = "start" /\ Head(job.todo) \notin {"start_recv", "stream_start"}
  <2>1. job' = [job EXCEPT !.todo = <<>>, !.err = TRUE] BY <1>4 DEF AfterFailure
  <2>2. job'.op = "start" /\ job'.err /\ job'.todo = <<>> BY <1>1, <1>4, <2>1
  <2>3. <<>> \in Seq(Step) OBVIOUS
  <2>4. RestOf(<<>>, StartSteps) BY StartStepsAre, WholeList
  <2>5. JobInv' BY <2>2, <2>4 DEF JobInv
  <2> QED BY <1>1, <2>1, <2>2, <2>3, <2>5
<1> QED BY <1>2, <1>3, <1>4

LEMMA CommandSafe ==
    ASSUME RxParameters, RxInv, Acting, fpga' \in {fpga, Effect(Head(job.todo))},
           count'.ops = count.ops, UNCHANGED <<ringOn, ringQ, pend, stats, call, seen, began>>
    PROVE  /\ FpgaTypes' /\ RingTypes' /\ PendTypes' /\ StatsTypes' /\ CallTypes'
           /\ OrderInv' /\ LedgerInv' /\ StampHonest' /\ OkInv'
<1> DEFINE step == Head(job.todo)
<1>1. /\ JobTypes /\ FpgaTypes /\ RingTypes /\ PendTypes /\ StatsTypes /\ CallTypes /\ JobInv
      /\ OrderInv /\ LedgerInv /\ StampHonest /\ StartFpga /\ StartHost /\ OkInv
  BY DEF RxInv, Types, HostInv
<1>2. Place(job.op, Left, step) BY <1>1, PlaceOf
<1>3. /\ Effect(step) \in [enabled: BOOLEAN, framer: {"idle", "armed", "running"},
                           run: Nat, word: Nat, pkt: 0..MaxPkts]
      /\ Effect(step).word % Channels = 0
      /\ \/ Effect(step).run = fpga.run /\ Effect(step).pkt = fpga.pkt
         \/ step = "stream_start" /\ Effect(step).run = fpga.run + 1 /\ Effect(step).pkt = 0
  BY <1>1, EffectIs
<1>4. ASSUME step = "stream_start" PROVE Starting /\ Left = 1
  BY <1>1, <1>2, <1>4, StartPlace DEF Place, Acting, Starting
<1>5. count.ops \in Nat /\ fpga.run \in Nat /\ fpga.run <= count.ops
  BY <1>1 DEF JobTypes, FpgaTypes
<1>6. fpga' \in {fpga, Effect(step)} OBVIOUS
<1> HIDE DEF step
<1>7. /\ fpga' \in [enabled: BOOLEAN, framer: {"idle", "armed", "running"}, run: Nat,
                    word: Nat, pkt: 0..MaxPkts]
      /\ fpga'.word % Channels = 0
      /\ \/ fpga'.run = fpga.run /\ fpga'.pkt = fpga.pkt
         \/ step = "stream_start" /\ fpga'.run = fpga.run + 1 /\ fpga'.pkt = 0
  BY <1>1, <1>3, <1>6 DEF FpgaTypes
<1>8. FpgaTypes'
  <2>1. step = "stream_start" => fpga.run < count.ops BY <1>1, <1>4 DEF StartFpga
  <2>2. fpga'.run <= count'.ops BY <1>5, <1>7, <2>1
  <2> QED BY <1>7, <2>2 DEF FpgaTypes
<1>9. RingTypes' /\ PendTypes' /\ StatsTypes' /\ CallTypes'
  BY <1>1 DEF RingTypes, PendTypes, StatsTypes, CallTypes
<1>10. OrderInv'
  <2>1. CASE fpga'.pkt = fpga.pkt BY <1>1, <2>1 DEF OrderInv
  <2>2. CASE step = "stream_start"
    <3>1. seen.n = 0 /\ (~began.dirty => ringQ = <<>>)
      BY <1>1, <1>4, <2>2 DEF StartHost, NoSeen
    <3>2. Spread(<<>>, fpga'.pkt) BY DEF Spread
    <3> QED BY <3>1, <3>2 DEF OrderInv
  <2> QED BY <1>7, <2>1, <2>2
<1>11. LedgerInv' /\ StampHonest' BY <1>1 DEF LedgerInv, StampHonest
<1>12. ~began.ok BY <1>1 DEF OkInv, Acting
<1>13. OkInv' BY <1>12 DEF OkInv
<1> QED BY <1>8, <1>9, <1>10, <1>11, <1>13

LEMMA CommandFails ==
    ASSUME RxParameters, RxInv, Acting, fpga' \in {fpga, Effect(Head(job.todo))},
           job' = AfterFailure, RxBad, UNCHANGED <<ringOn, ringQ, pend, stats, call, seen, began>>
    PROVE  RxInv'
<1>1. JobTypes /\ JobInv BY DEF RxInv, Types
<1>2. count' \in [ops: 0..MaxCalls, bad: 0..MaxFaults] /\ count'.ops = count.ops
  <2>1. count \in [ops: 0..MaxCalls, bad: 0..MaxFaults] BY <1>1 DEF JobTypes
  <2>2. count.bad + 1 \in 0..MaxFaults BY <2>1 DEF RxBad, RxParameters
  <2> QED BY <2>1, <2>2 DEF RxBad
<1>3. /\ job' \in [op: {"none", "start", "catch", "stop", "recv"}, todo: Seq(Step),
                   err: BOOLEAN]
      /\ job'.op \in {"start", "catch", "stop"} /\ job'.err /\ JobInv'
  BY <1>1, FailedIs
<1>4. JobTypes' BY <1>1, <1>2, <1>3 DEF JobTypes
<1>5. /\ FpgaTypes' /\ RingTypes' /\ PendTypes' /\ StatsTypes' /\ CallTypes'
      /\ OrderInv' /\ LedgerInv' /\ StampHonest' /\ OkInv'
  BY <1>2, CommandSafe
<1>6. StartFpga' /\ StartHost' /\ StopInv' /\ QuietUnlessReported'
  BY <1>3 DEF StartFpga, StartHost, StopInv, Starting, QuietUnlessReported
<1> QED BY <1>3, <1>4, <1>5, <1>6 DEF RxInv, Types, HostInv

LEMMA CommandAnswered ==
    ASSUME RxParameters, RxInv, Acting, fpga' = Effect(Head(job.todo)), Done,
           Head(job.todo) \notin {"clear", "start_recv", "stop_recv", "clear_pending"},
           UNCHANGED <<ringOn, ringQ, pend, stats, call, seen, began, count>>
    PROVE  RxInv'
<1> DEFINE step == Head(job.todo)
<1>1. /\ JobTypes /\ JobInv /\ FpgaTypes /\ StartFpga /\ StartHost /\ StopInv
      /\ QuietUnlessReported
  BY DEF RxInv, Types, HostInv
<1>2. Place(job.op, Left, step) BY <1>1, PlaceOf
<1>3. /\ job' \in [op: {"none", "start", "catch", "stop", "recv"}, todo: Seq(Step),
                   err: BOOLEAN]
      /\ job'.op = job.op /\ job'.err = job.err /\ Left' = Left - 1 /\ JobInv'
  BY <1>1, OnwardIs
<1>4. JobTypes' BY <1>1, <1>3 DEF JobTypes
<1>5. /\ FpgaTypes' /\ RingTypes' /\ PendTypes' /\ StatsTypes' /\ CallTypes'
      /\ OrderInv' /\ LedgerInv' /\ StampHonest' /\ OkInv'
  BY CommandSafe
<1>6. step \notin {"clear", "start_recv", "stop_recv", "clear_pending"} /\ fpga' = Effect(step)
  OBVIOUS
<1>7. /\ fpga'.run = fpga.run \/ step = "stream_start"
      /\ fpga'.framer = "running" => /\ fpga'.enabled = fpga.enabled
                                     /\ step = "stream_start" \/ fpga.framer = "running"
      /\ fpga.enabled /\ step # "stop_rx" => fpga'.enabled
      /\ step = "start_rx" => fpga'.enabled
      /\ step \in {"start_rx", "stop_rx", "source", "packet_bytes", "mode_exit"} =>
            fpga'.framer = "idle"
      /\ step = "mode_strobe" => fpga'.framer = "armed"
      /\ step = "stream_start" /\ fpga.framer = "armed" => fpga'.framer = "running"
  BY <1>1, <1>6, EffectIs
<1> HIDE DEF step
<1>8. ASSUME Starting'
      PROVE  /\ Left \in 1..11 /\ Left' = Left - 1 /\ Starting /\ Place("start", Left, step)
  BY <1>2, <1>3, <1>8 DEF Starting, Place
<1>9. StartFpga'
  <2> SUFFICES ASSUME Starting' PROVE StartFpga' BY DEF StartFpga
  <2>1. /\ Left \in 1..11 /\ Left' = Left - 1 /\ Place("start", Left, step)
        /\ Left \in 1..10 => fpga.framer # "running"
        /\ fpga.run < count.ops
        /\ ~began.disturbed =>
              (Left <= 6 => fpga.enabled) /\ (Left \in 1..3 => fpga.framer = "armed")
    BY <1>1, <1>8 DEF StartFpga
  <2>2. Left' \in 1..10 => fpga'.framer # "running"
    <3>1. CASE Left = 11 BY <1>7, <2>1, <3>1 DEF Place
    <3>2. CASE Left \in 2..10
      <4>1. step # "stream_start" BY <2>1, <3>2 DEF Place
      <4> QED BY <1>7, <2>1, <3>2, <4>1
    <3>3. CASE Left = 1 BY <2>1, <3>3
    <3> QED BY <2>1, <3>1, <3>2, <3>3
  <2>3. Left' > 0 => fpga'.run < count'.ops
    <3>1. Left' > 0 => step # "stream_start" BY <2>1 DEF Place
    <3> QED BY <1>7, <2>1, <3>1
  <2>4. ASSUME ~began.disturbed, Left' <= 6 PROVE fpga'.enabled
    <3>1. CASE Left = 7 BY <1>7, <2>1, <3>1 DEF Place
    <3>2. CASE Left \in 1..6
      <4>1. step # "stop_rx" BY <2>1, <3>2 DEF Place
      <4> QED BY <1>7, <2>1, <2>4, <3>2, <4>1
    <3> QED BY <2>1, <2>4, <3>1, <3>2
  <2>5. ASSUME ~began.disturbed, Left' \in 1..3 PROVE fpga'.framer = "armed"
    <3>1. CASE Left = 4 BY <1>7, <2>1, <3>1 DEF Place
    <3>2. CASE Left \in 2..3 BY <1>6, <2>1, <3>2 DEF Place
    <3> QED BY <2>1, <2>5, <3>1, <3>2
  <2>6. ASSUME ~began.disturbed, Left' = 0 PROVE fpga'.framer = "running"
    <3>1. Left = 1 BY <2>1, <2>6
    <3> QED BY <1>7, <2>1, <2>6, <3>1 DEF Place
  <2>7. Left' \in Nat /\ began' = began BY <2>1
  <2> QED BY <2>2, <2>3, <2>4, <2>5, <2>6, <2>7 DEF StartFpga
<1>10. StartHost'
  <2> SUFFICES ASSUME Starting' PROVE StartHost' BY DEF StartHost
  <2>1. /\ Left \in 1..11 /\ Left' = Left - 1 /\ Place("start", Left, step)
        /\ Left <= 2 => pend = <<>> /\ seen = NoSeen /\ stats = NoStats
        /\ Left <= 1 => ringOn
        /\ Left = 1 /\ ~began.dirty => ringQ = <<>>
    BY <1>1, <1>8 DEF StartHost
  <2>2. Left # 3 /\ Left # 2 BY <1>6, <2>1 DEF Place
  <2>3. CASE Left > 3 BY <2>1, <2>3 DEF StartHost
  <2>4. CASE Left = 1
    <3>1. Left' = 0 /\ pend' = <<>> /\ seen' = NoSeen /\ stats' = NoStats /\ ringOn'
      BY <2>1, <2>4
    <3>2. ~began'.dirty => ringQ' = <<>> BY <2>1, <2>4
    <3>3. ~began'.dirty => Fresh'
      <4>1. ringQ' = <<>> => FreshRing' BY DEF FreshRing
      <4> QED BY <3>1, <3>2, <4>1 DEF Fresh, FreshHost, NoSeen
    <3> QED BY <3>1, <3>2, <3>3 DEF StartHost
  <2> QED BY <2>1, <2>2, <2>3, <2>4
<1>11. StopInv'
  <2> SUFFICES ASSUME job'.op = "stop", ~job'.err, Left' <= 3 PROVE fpga'.framer # "running"
    BY DEF StopInv
  <2>1. Left \in 1..4 /\ Left' = Left - 1 /\ Place("stop", Left, step)
    BY <1>2, <1>3 DEF Place
  <2>2. step \in {"mode_exit", "stop_rx"} BY <1>6, <2>1 DEF Place
  <2> QED BY <1>7, <2>2
<1>12. QuietUnlessReported'
  <2> SUFFICES ASSUME Producing', ~ringOn PROVE began.threw \/ job.err
    BY <1>3 DEF QuietUnlessReported
  <2>1. CASE Producing BY <1>1, <2>1 DEF QuietUnlessReported
  <2>2. CASE step = "stream_start"
    <3>1. job.op = "start" /\ Left = 1 BY <1>2, <2>2 DEF Place, Acting
    <3>2. job.err \/ ringOn BY <1>1, <3>1 DEF StartHost, Starting
    <3> QED BY <3>2
  <2>3. Producing \/ step = "stream_start" BY <1>7 DEF Producing
  <2> QED BY <2>1, <2>2, <2>3
<1> QED BY <1>3, <1>4, <1>5, <1>9, <1>10, <1>11, <1>12 DEF RxInv, Types, HostInv

LEMMA CommandSent == ASSUME RxParameters, RxInv, Command PROVE RxInv'
<1>1. Acting /\ Head(job.todo) \notin {"clear", "start_recv", "stop_recv", "clear_pending"}
  BY DEF Command, Doing, Acting
<1>2. CASE fpga' = Effect(Head(job.todo)) /\ Done /\ UNCHANGED count
  BY <1>1, <1>2, CommandAnswered DEF Command
<1>3. CASE fpga' \in {fpga, Effect(Head(job.todo))} /\ job' = AfterFailure /\ RxBad
  BY <1>1, <1>3, CommandFails DEF Command
<1> QED BY <1>2, <1>3 DEF Command

-----------------------------------------------------------------------------
(* The steps of start and stop on the host: the ring and the half read packet. *)

LEMMA StepTaken ==
    ASSUME RxInv, NEW step, Doing(step)
    PROVE  Acting /\ Place(job.op, Left, step) /\ ~began.ok
<1>1. Acting /\ Head(job.todo) = step BY DEF Doing, Acting
<1>2. JobTypes /\ JobInv /\ OkInv BY DEF RxInv, Types, HostInv
<1> QED BY <1>1, <1>2, PlaceOf DEF OkInv, Acting

LEMMA HostCleared == ASSUME RxParameters, RxInv, Clear PROVE RxInv'
<1>1. /\ JobTypes /\ JobInv /\ FpgaTypes /\ RingTypes /\ CallTypes /\ StartFpga
      /\ QuietUnlessReported /\ OrderInv /\ StampHonest
  BY DEF RxInv, Types, HostInv
<1>2. /\ Doing("clear") /\ Done /\ pend' = <<>> /\ stats' = NoStats /\ seen' = NoSeen
      /\ UNCHANGED <<fpga, ringOn, ringQ, call, began, count>>
  BY DEF Clear, DropPending
<1>3. Acting /\ Place(job.op, Left, "clear") /\ ~began.ok BY <1>2, StepTaken
<1>4. job.op = "start" /\ Left = 3 BY <1>3 DEF Place, Acting
<1>5. /\ job' \in [op: {"none", "start", "catch", "stop", "recv"}, todo: Seq(Step),
                   err: BOOLEAN]
      /\ job'.op = "start" /\ job'.err = job.err /\ Left' = 2 /\ JobInv'
  BY <1>1, <1>2, <1>3, <1>4, OnwardIs
<1>6. JobTypes' BY <1>1, <1>2, <1>5 DEF JobTypes
<1>7. FpgaTypes' /\ RingTypes' /\ CallTypes'
  BY <1>1, <1>2 DEF FpgaTypes, RingTypes, CallTypes
<1>8. PendTypes' BY <1>2 DEF PendTypes
<1>9. StatsTypes' /\ LedgerInv'
  <2>1. 0 \in 0..(SeqMod - 1) BY DEF RxParameters
  <2> QED BY <1>2, <2>1 DEF StatsTypes, LedgerInv, NoStats, NoSeen
<1>10. StartFpga'
  BY <1>1, <1>2, <1>4, <1>5 DEF StartFpga, Starting
<1>11. StartHost' BY <1>2, <1>5 DEF StartHost, Starting
<1>12. StopInv' /\ OkInv' /\ StampHonest' BY <1>1, <1>2, <1>3, <1>5 DEF StopInv, OkInv, StampHonest
<1>13. QuietUnlessReported' BY <1>1, <1>2, <1>5 DEF QuietUnlessReported, Producing
<1>14. OrderInv' BY <1>1, <1>2 DEF OrderInv, NoSeen
<1> QED BY <1>5, <1>6, <1>7, <1>8, <1>9, <1>10, <1>11, <1>12, <1>13, <1>14
        DEF RxInv, Types, HostInv

LEMMA PendCleared == ASSUME RxParameters, RxInv, ClearPending PROVE RxInv'
<1>1. /\ JobTypes /\ JobInv /\ FpgaTypes /\ RingTypes /\ StatsTypes /\ CallTypes /\ StopInv
      /\ QuietUnlessReported /\ OrderInv /\ LedgerInv /\ StampHonest
  BY DEF RxInv, Types, HostInv
<1>2. /\ Doing("clear_pending") /\ Done /\ pend' = <<>>
      /\ UNCHANGED <<fpga, ringOn, ringQ, stats, call, seen, began, count>>
  BY DEF ClearPending, DropPending
<1>3. Acting /\ Place(job.op, Left, "clear_pending") /\ ~began.ok BY <1>2, StepTaken
<1>4. job.op = "stop" /\ Left = 1 BY <1>3 DEF Place, Acting
<1>5. /\ job' \in [op: {"none", "start", "catch", "stop", "recv"}, todo: Seq(Step),
                   err: BOOLEAN]
      /\ job'.op = "stop" /\ job'.err = job.err /\ Left' = 0 /\ JobInv'
  BY <1>1, <1>2, <1>3, <1>4, OnwardIs
<1>6. JobTypes' BY <1>1, <1>2, <1>5 DEF JobTypes
<1>7. FpgaTypes' /\ RingTypes' /\ CallTypes' /\ StatsTypes'
  BY <1>1, <1>2 DEF FpgaTypes, RingTypes, CallTypes, StatsTypes
<1>8. PendTypes' BY <1>2 DEF PendTypes
<1>9. StopInv' BY <1>1, <1>2, <1>4, <1>5 DEF StopInv
<1>10. StartFpga' /\ StartHost' BY <1>5 DEF StartFpga, StartHost, Starting
<1>11. OkInv' /\ StampHonest' /\ LedgerInv' /\ OrderInv'
  BY <1>1, <1>2, <1>3 DEF OkInv, StampHonest, LedgerInv, OrderInv
<1>12. QuietUnlessReported' BY <1>1, <1>2, <1>5 DEF QuietUnlessReported, Producing
<1> QED BY <1>5, <1>6, <1>7, <1>8, <1>9, <1>10, <1>11, <1>12 DEF RxInv, Types, HostInv

LEMMA RingStarted == ASSUME RxParameters, RxInv, StartRing PROVE RxInv'
<1>1. /\ JobTypes /\ JobInv /\ FpgaTypes /\ RingTypes /\ PendTypes /\ StatsTypes /\ CallTypes
      /\ StartFpga /\ StartHost /\ QuietUnlessReported /\ OrderInv /\ LedgerInv /\ StampHonest
  BY DEF RxInv, Types, HostInv
<1>2. Doing("start_recv") /\ UNCHANGED <<fpga, pend, stats, call, seen>> BY DEF StartRing
<1>3. Acting /\ Place(job.op, Left, "start_recv") /\ ~began.ok BY <1>2, StepTaken
<1>4. job.op = "start" /\ Left = 2 /\ ~job.err
  BY <1>1, <1>3, StartPlace DEF Place, Acting
<1>5. CASE ~ringOn /\ job' = AfterFailure /\ RxBad /\ UNCHANGED <<ringOn, ringQ, began>>
  BY <1>2, <1>3, <1>5, CommandFails
<1>6. CASE Done /\ UNCHANGED count /\ ringOn' /\ ringOn' \in BOOLEAN
           /\ \/ ringOn /\ UNCHANGED <<ringOn, ringQ>> /\ began' = [began EXCEPT !.dirty = TRUE]
              \/ ringQ' = <<>> /\ began' = [began EXCEPT !.dirty = FALSE]
  <2>1. /\ job' \in [op: {"none", "start", "catch", "stop", "recv"}, todo: Seq(Step),
                     err: BOOLEAN]
        /\ job'.op = "start" /\ job'.err = job.err /\ Left' = 1 /\ JobInv'
    BY <1>1, <1>3, <1>4, <1>6, OnwardIs
  <2>2. /\ began' \in [ok: BOOLEAN, disturbed: BOOLEAN, dirty: BOOLEAN, threw: BOOLEAN]
        /\ began'.ok = began.ok /\ began'.disturbed = began.disturbed
        /\ ~began'.dirty => ringQ' = <<>>
    BY <1>1, <1>6 DEF JobTypes
  <2>3. JobTypes' BY <1>1, <1>6, <2>1, <2>2 DEF JobTypes
  <2>4. FpgaTypes' /\ CallTypes' /\ StatsTypes' /\ PendTypes'
    BY <1>1, <1>2, <1>6 DEF FpgaTypes, CallTypes, StatsTypes, PendTypes
  <2>5. RingTypes'
    <3>1. <<>> \in Seq(Packet) /\ Len(<<>>) = 0 /\ 0 <= RingDepth BY DEF RxParameters
    <3>2. CASE ringQ' = <<>> BY <1>6, <3>1, <3>2 DEF RingTypes
    <3>3. CASE ringQ' = ringQ BY <1>1, <1>6, <3>3 DEF RingTypes
    <3> QED BY <1>6, <3>2, <3>3
  <2>6. StartFpga' BY <1>1, <1>2, <1>4, <1>6, <2>1, <2>2 DEF StartFpga, Starting
  <2>7. seen' = NoSeen /\ pend' = <<>> /\ stats' = NoStats
    BY <1>1, <1>2, <1>4 DEF StartHost, Starting
  <2>8. StartHost' BY <1>6, <2>1, <2>2, <2>7 DEF StartHost, Starting
  <2>9. StopInv' /\ OkInv' /\ StampHonest' /\ QuietUnlessReported'
    BY <1>1, <1>2, <1>3, <1>6, <2>1, <2>2 DEF StopInv, OkInv, StampHonest, QuietUnlessReported
  <2>10. LedgerInv' BY <2>7 DEF LedgerInv, NoSeen, NoStats
  <2>11. OrderInv'
    <3>1. ringQ' = <<>> => Spread(ringQ', fpga'.pkt) BY DEF Spread
    <3> QED BY <2>2, <2>7, <3>1 DEF OrderInv, NoSeen
  <2> QED BY <2>1, <2>3, <2>4, <2>5, <2>6, <2>8, <2>9, <2>10, <2>11 DEF RxInv, Types, HostInv
<1> QED BY <1>1, <1>5, <1>6 DEF StartRing, RingTypes

LEMMA RingStopped == ASSUME RxParameters, RxInv, StopRing PROVE RxInv'
<1>1. /\ JobTypes /\ JobInv /\ FpgaTypes /\ PendTypes /\ StatsTypes /\ CallTypes /\ StopInv
      /\ QuietUnlessReported /\ OrderInv /\ LedgerInv /\ StampHonest
  BY DEF RxInv, Types, HostInv
<1>2. /\ Doing("stop_recv") /\ Done /\ ringOn' = FALSE /\ ringQ' = <<>>
      /\ UNCHANGED <<fpga, pend, stats, call, seen, began, count>>
  BY DEF StopRing
<1>3. Acting /\ Place(job.op, Left, "stop_recv") /\ ~began.ok BY <1>2, StepTaken
<1>4. (job.op = "stop" /\ Left = 2) \/ (job.op = "catch" /\ job.err)
  BY <1>1, <1>3 DEF Place, Acting, JobInv
<1>5. /\ job' \in [op: {"none", "start", "catch", "stop", "recv"}, todo: Seq(Step),
                   err: BOOLEAN]
      /\ job'.op = job.op /\ job'.err = job.err /\ Left' = Left - 1 /\ JobInv'
  BY <1>1, <1>2, <1>3, OnwardIs
<1>6. JobTypes' BY <1>1, <1>2, <1>5 DEF JobTypes
<1>7. FpgaTypes' /\ CallTypes' /\ StatsTypes' /\ PendTypes'
  BY <1>1, <1>2 DEF FpgaTypes, CallTypes, StatsTypes, PendTypes
<1>8. RingTypes'
  <2>1. <<>> \in Seq(Packet) /\ Len(<<>>) = 0 /\ 0 <= RingDepth BY DEF RxParameters
  <2> QED BY <1>2, <2>1 DEF RingTypes
<1>9. job.op = "stop" /\ ~job.err => fpga.framer # "running" BY <1>1, <1>4 DEF StopInv
<1>10. StopInv' BY <1>2, <1>5, <1>9 DEF StopInv
<1>11. QuietUnlessReported' BY <1>2, <1>4, <1>5, <1>9 DEF QuietUnlessReported, Producing
<1>12. StartFpga' /\ StartHost' BY <1>4, <1>5 DEF StartFpga, StartHost, Starting
<1>13. OkInv' /\ StampHonest' /\ LedgerInv'
  BY <1>1, <1>2, <1>3 DEF OkInv, StampHonest, LedgerInv
<1>14. OrderInv'
  <2>1. Spread(<<>>, fpga.pkt) /\ Later(<<>>, seen.last) BY DEF Spread, Later
  <2> QED BY <1>1, <1>2, <2>1 DEF OrderInv
<1> QED BY <1>5, <1>6, <1>7, <1>8, <1>10, <1>11, <1>12, <1>13, <1>14 DEF RxInv, Types, HostInv

-----------------------------------------------------------------------------
(* The order of the packets in the ring, as they come and go.                 *)

LEMMA PacketOf ==
    ASSUME NEW q \in Seq(Packet), NEW i \in 1..Len(q)
    PROVE  /\ q[i] \in Packet /\ q[i].run \in Nat /\ q[i].pkt \in Nat /\ q[i].word \in Nat
           /\ q[i].seq = q[i].pkt % SeqMod /\ q[i].word % Channels = 0 /\ q[i].words \in Sizes
<1>1. q[i] \in Packet OBVIOUS
<1> QED BY <1>1 DEF Packet

LEMMA SpreadMore ==
    ASSUME NEW q \in Seq(Packet), NEW x \in Nat, Spread(q, x)
    PROVE  Spread(q, x + 1)
<1>1. \A i \in 1..Len(q) : q[i].pkt \in Nat BY PacketOf
<1>2. Len(q) \in Nat /\ \A i \in 1..Len(q) : q[i].pkt + ((Len(q) + 1) - i) <= x BY DEF Spread
<1>3. ASSUME NEW i \in 1..Len(q) PROVE q[i].pkt + ((Len(q) + 1) - i) <= x + 1
  BY <1>1, <1>2
<1> QED BY <1>3 DEF Spread

LEMMA SpreadAppend ==
    ASSUME NEW q \in Seq(Packet), NEW p \in Packet, Spread(q, p.pkt)
    PROVE  Spread(Append(q, p), p.pkt + 1)
<1> DEFINE r == Append(q, p)
           m == Len(q)
<1>1. /\ m \in Nat /\ Len(r) = m + 1 /\ r[m + 1] = p /\ \A i \in 1..m : r[i] = q[i]
  BY AppendProperties
<1>2. \A i \in 1..m : q[i].pkt \in Nat BY PacketOf
<1>3. p.pkt \in Nat BY DEF Packet
<1>4. /\ \A i \in 1..m : q[i].pkt + ((m + 1) - i) <= p.pkt
      /\ \A i, j \in 1..m : i < j => q[i].pkt + (j - i) <= q[j].pkt
  BY DEF Spread
<1> HIDE DEF r, m
<1>5. ASSUME NEW i \in 1..(m + 1) PROVE r[i].pkt + (((m + 1) + 1) - i) <= p.pkt + 1
  <2>1. CASE i \in 1..m
    <3>1. r[i] = q[i] /\ q[i].pkt \in Nat /\ q[i].pkt + ((m + 1) - i) <= p.pkt
      BY <1>1, <1>2, <1>4, <2>1
    <3> QED BY <1>1, <1>3, <3>1
  <2>2. CASE i = m + 1 BY <1>1, <1>3, <2>2
  <2> QED BY <1>1, <2>1, <2>2
<1>6. ASSUME NEW i \in 1..(m + 1), NEW j \in 1..(m + 1), i < j
      PROVE  r[i].pkt + (j - i) <= r[j].pkt
  <2>1. i \in 1..m BY <1>1, <1>6
  <2>2. r[i] = q[i] /\ q[i].pkt \in Nat BY <1>1, <1>2, <2>1
  <2>3. CASE j \in 1..m BY <1>1, <1>4, <1>6, <2>1, <2>2, <2>3
  <2>4. CASE j = m + 1 BY <1>1, <1>3, <1>4, <2>1, <2>2, <2>4
  <2> QED BY <1>1, <2>3, <2>4
<1> QED BY <1>1, <1>5, <1>6 DEF Spread, r

\* What is left of the ring after its first n packets.
Rest(q, r, n) == Len(r) = Len(q) - n /\ \A i \in 1..Len(r) : r[i] = q[i + n]

LEMMA SpreadRest ==
    ASSUME NEW q \in Seq(Packet), NEW r \in Seq(Packet), NEW x \in Nat, NEW n \in 1..Len(q),
           Spread(q, x), Rest(q, r, n)
    PROVE  /\ Spread(r, x) /\ Later(r, q[n].pkt) /\ q[n].pkt < x
           /\ q[1].pkt + (n - 1) <= q[n].pkt
<1> DEFINE m == Len(q)
           l == Len(r)
<1>1. m \in Nat /\ l \in Nat /\ n \in 1..m /\ l = m - n /\ \A i \in 1..l : r[i] = q[i + n]
  BY DEF Rest
<1>2. \A i \in 1..m : q[i].pkt \in Nat BY PacketOf
<1>3. /\ \A i \in 1..m : q[i].pkt + ((m + 1) - i) <= x
      /\ \A i, j \in 1..m : i < j => q[i].pkt + (j - i) <= q[j].pkt
  BY DEF Spread
<1> HIDE DEF m, l
<1>4. \A i \in 1..l : i + n \in 1..m BY <1>1
<1>5. ASSUME NEW i \in 1..l PROVE r[i].pkt + ((l + 1) - i) <= x /\ q[n].pkt < r[i].pkt
  <2>1. i + n \in 1..m /\ n < i + n /\ r[i] = q[i + n] BY <1>1, <1>4
  <2>2. q[i + n].pkt \in Nat /\ q[n].pkt \in Nat BY <1>1, <1>2, <2>1
  <2>3. q[i + n].pkt + ((m + 1) - (i + n)) <= x BY <1>3, <2>1
  <2>4. n \in 1..m BY <1>1
  <2>5. q[n].pkt + ((i + n) - n) <= q[i + n].pkt BY <1>3, <2>1, <2>4
  <2>6. (m + 1) - (i + n) = (l + 1) - i /\ (i + n) - n = i /\ i \in Nat \ {0} BY <1>1
  <2>7. q[i + n].pkt + ((l + 1) - i) <= x BY <2>3, <2>6
  <2>8. q[n].pkt + i <= q[i + n].pkt BY <2>5, <2>6
  <2>9. q[n].pkt < q[i + n].pkt BY <2>2, <2>6, <2>8
  <2> QED BY <2>1, <2>7, <2>9
<1>6. ASSUME NEW i \in 1..l, NEW j \in 1..l, i < j PROVE r[i].pkt + (j - i) <= r[j].pkt
  <2>1. i + n \in 1..m /\ j + n \in 1..m /\ i + n < j + n BY <1>1, <1>4, <1>6
  <2>2. q[i + n].pkt + ((j + n) - (i + n)) <= q[j + n].pkt BY <1>3, <2>1
  <2>3. (j + n) - (i + n) = j - i BY <1>1
  <2> QED BY <1>1, <2>2, <2>3
<1>7. q[n].pkt < x BY <1>1, <1>2, <1>3
<1>8. q[1].pkt + (n - 1) <= q[n].pkt
  <2>1. CASE n = 1 BY <1>1, <1>2, <2>1
  <2>2. CASE n > 1 BY <1>1, <1>3, <2>2
  <2> QED BY <1>1, <2>1, <2>2
<1> QED BY <1>5, <1>6, <1>7, <1>8 DEF Spread, Later, m, l

-----------------------------------------------------------------------------
(* Packets are counted as they are taken from the ring.                       *)

\* The numbers of one step of the count: first, n and lost before it, the
\* packet that comes, and what is reported lost.
Gap(p, v) == ((p % SeqMod) - (v % SeqMod)) % SeqMod
Balanced(p, first, n, lost) == \E j \in Nat : p = Account(first, n, lost, j)
LEMMA LedgerKept ==
    ASSUME RxParameters, NEW v \in Nat, NEW k \in Nat, NEW f \in Int, NEW n \in Nat,
           NEW lost \in Nat, NEW p \in Nat, NEW d \in Nat,
           v = Account(f, n, lost, k), v <= p
    PROVE  /\ Gap(p, v) \in Nat /\ (p % SeqMod = v % SeqMod => Gap(p, v) = 0)
           /\ Balanced(p + d, f, n + d, lost + Gap(p, v))
<1> DEFINE gap == Gap(p, v)
<1>1. SeqMod \in Nat \ {0} BY DEF RxParameters
<1>2. PICK i \in Nat : p = v + gap + i * SeqMod BY <1>1, Distance DEF Gap
<1>3. gap \in 0..(SeqMod - 1) BY <1>1, Distance DEF Gap
<1>4. p % SeqMod = v % SeqMod => gap = 0
  <2>1. (0 * SeqMod + 0) % SeqMod = 0
    <3>1. 0 \in 0..(SeqMod - 1) BY <1>1
    <3> QED BY <1>1, <3>1, WholeTurns
  <2>2. 0 * SeqMod + 0 = 0 BY <1>1
  <2>3. p % SeqMod \in Int BY <1>1
  <2>4. p % SeqMod = v % SeqMod => (p % SeqMod) - (v % SeqMod) = 0 BY <2>3
  <2> QED BY <2>1, <2>2, <2>4 DEF Gap
<1> HIDE DEF gap
<1>5. (k + i) * SeqMod = k * SeqMod + i * SeqMod /\ k + i \in Nat BY <1>1
<1>6. k * SeqMod \in Nat /\ i * SeqMod \in Nat BY <1>1
<1>7. v = f + n + lost + k * SeqMod BY DEF Account
<1>8. p + d = f + (n + d) + (lost + gap) + (k + i) * SeqMod
  BY <1>1, <1>2, <1>3, <1>5, <1>6, <1>7
<1> QED BY <1>3, <1>4, <1>5, <1>8 DEF gap, Account, Balanced

LEMMA Taken ==
    ASSUME RxParameters, RxInv, NEW n \in 1..Len(ringQ), Note(ringQ[1], n),
           Saw(ringQ[1], ringQ[n], n), ringQ' \in Seq(Packet), Rest(ringQ, ringQ', n),
           UNCHANGED <<fpga, began>>
    PROVE  /\ StatsTypes' /\ OrderInv' /\ LedgerInv'
           /\ FreshRing => FreshRing' /\ seen'.run = fpga.run
<1> DEFINE p == ringQ[1]
           q == ringQ[n]
<1>1. RingTypes /\ StatsTypes /\ OrderInv /\ LedgerInv /\ FpgaTypes BY DEF RxInv, Types, HostInv
<1>2. ringQ \in Seq(Packet) /\ Len(ringQ) \in Nat /\ n \in Nat \ {0} /\ 1 \in 1..Len(ringQ)
  BY <1>1 DEF RingTypes
<1>3. /\ p.pkt \in Nat /\ p.seq = p.pkt % SeqMod /\ q.pkt \in Nat /\ q.run \in Nat
      /\ SeqMod \in Nat \ {0} /\ p.seq \in Nat
  BY <1>2, PacketOf DEF RxParameters
<1>4. seen' = [first |-> IF seen.first = -1 THEN p.pkt ELSE seen.first, last |-> q.pkt,
               n |-> seen.n + n, burst |-> n > 1, run |-> q.run]
  BY DEF Saw
<1>5. /\ stats \in [packets: Nat, jumps: Nat, lost: Nat, have: BOOLEAN, next: 0..(SeqMod - 1)]
      /\ seen \in [first: Int, last: Int, n: Nat, burst: BOOLEAN, run: Nat]
      /\ stats.packets = seen.n /\ (seen.n = 0 => stats = NoStats /\ seen = NoSeen)
  BY <1>1 DEF StatsTypes, LedgerInv
<1> DEFINE gap == (p.seq - stats.next) % SeqMod
           s == IF stats.have /\ p.seq # stats.next THEN Jumped(p.seq) ELSE stats
<1>6. gap \in Nat
  <2>1. p.seq - stats.next \in Int BY <1>3, <1>5
  <2> QED BY <1>3, <2>1
<1>7. stats' = [s EXCEPT !.packets = @ + n, !.have = TRUE, !.next = (p.seq + n) % SeqMod]
  BY DEF Note
<1> HIDE DEF p, q
<1>8. /\ stats.have /\ p.seq # stats.next =>
            s = [stats EXCEPT !.jumps = @ + 1, !.lost = @ + gap]
      /\ ~(stats.have /\ p.seq # stats.next) => s = stats
  BY DEF Jumped
<1> DEFINE next == (p.seq + n) % SeqMod
<1>9. next = (p.pkt + n) % SeqMod /\ next \in 0..(SeqMod - 1)
  <2>1. n \in Nat BY <1>2
  <2>2. /\ ((p.pkt % SeqMod) + n) % SeqMod = (p.pkt + n) % SeqMod
        /\ (p.pkt + n) % SeqMod \in 0..(SeqMod - 1)
    BY <1>3, <2>1, NumberAfter
  <2>3. p.seq = p.pkt % SeqMod BY <1>3
  <2> QED BY <2>2, <2>3
<1> HIDE DEF s, gap, next
<1>10. /\ s \in [packets: Nat, jumps: Nat, lost: Nat, have: BOOLEAN, next: 0..(SeqMod - 1)]
       /\ s.packets = stats.packets
       /\ s.lost = IF stats.have /\ p.seq # stats.next THEN stats.lost + gap ELSE stats.lost
  <2>1. stats \in [packets: Nat, jumps: Nat, lost: Nat, have: BOOLEAN, next: 0..(SeqMod - 1)]
    BY <1>5
  <2>2. stats.jumps + 1 \in Nat /\ stats.lost + gap \in Nat BY <1>6, <2>1
  <2>3. CASE stats.have /\ p.seq # stats.next BY <1>8, <2>1, <2>2, <2>3
  <2>4. CASE ~(stats.have /\ p.seq # stats.next) BY <1>8, <2>1, <2>4
  <2> QED BY <2>3, <2>4
<1>11. /\ stats' \in [packets: Nat, jumps: Nat, lost: Nat, have: BOOLEAN, next: 0..(SeqMod - 1)]
       /\ stats'.packets = stats.packets + n /\ stats'.lost = s.lost /\ stats'.have
       /\ stats'.next = (p.pkt + n) % SeqMod
  <2>1. stats' = [s EXCEPT !.packets = s.packets + n, !.have = TRUE, !.next = next]
    BY <1>7 DEF next
  <2>2. s.packets + n \in Nat BY <1>2, <1>10
  <2> QED BY <1>9, <1>10, <2>1, <2>2
<1>16. StatsTypes'
  <2>1. seen' \in [first: Int, last: Int, n: Nat, burst: BOOLEAN, run: Nat]
    <3>1. seen.n + n \in Nat BY <1>2, <1>5
    <3>2. (IF seen.first = -1 THEN p.pkt ELSE seen.first) \in Int
      <4>1. seen.first \in Int /\ p.pkt \in Int BY <1>3, <1>5
      <4> QED BY <4>1
    <3> QED BY <1>3, <1>4, <3>1, <3>2
  <2> QED BY <1>11, <2>1 DEF StatsTypes
<1>12. ASSUME ~began.dirty
       PROVE  /\ Spread(ringQ', fpga.pkt) /\ Later(ringQ', q.pkt) /\ q.pkt < fpga.pkt
              /\ p.pkt + (n - 1) <= q.pkt
  <2>1. Spread(ringQ, fpga.pkt) /\ fpga.pkt \in Nat BY <1>1, <1>12 DEF OrderInv, FpgaTypes
  <2> QED BY <1>2, <2>1, SpreadRest DEF p, q
<1>13. OrderInv' BY <1>4, <1>12 DEF OrderInv
<1>14. LedgerInv'
  <2>1. stats'.packets = seen'.n /\ seen'.n > 0 BY <1>2, <1>4, <1>5, <1>11
  <2>2. ASSUME ~began.dirty PROVE \E v, k \in Nat : Ledger(stats', seen', v, k)
    <3>1. /\ p.pkt + n <= q.pkt + 1 /\ p.pkt + n \in Nat
          /\ ~(n > 1) => n = 1 /\ q = p
      <4>1. p.pkt + (n - 1) <= q.pkt BY <1>12, <2>2
      <4>2. n = 1 => q = p BY DEF p, q
      <4> QED BY <1>2, <1>3, <4>1, <4>2
    <3>2. CASE seen.n = 0
      <4>1. seen.first = -1 /\ ~stats.have /\ stats.lost = 0
        BY <1>5, <3>2 DEF NoSeen, NoStats
      <4>2. stats'.lost = 0 /\ seen'.first = p.pkt /\ seen'.n = n
        BY <1>2, <1>4, <1>10, <1>11, <3>2, <4>1
      <4>3. p.pkt + n = Account(seen'.first, seen'.n, stats'.lost, 0)
        BY <1>2, <1>3, <4>2 DEF Account
      <4>4. Ledger(stats', seen', p.pkt + n, 0)
        <5>1. p.pkt + n <= seen'.last + 1 /\ (~seen'.burst => p.pkt + n = seen'.last + 1)
          BY <1>2, <1>3, <1>4, <3>1
        <5>2. stats'.have /\ stats'.next = (p.pkt + n) % SeqMod /\ seen'.first # -1
          BY <1>3, <1>11, <4>2
        <5> QED BY <4>3, <5>1, <5>2 DEF Ledger
      <4> QED BY <3>1, <4>4
    <3>3. CASE seen.n > 0
      <4>1. PICK v \in Nat, k \in Nat : Ledger(stats, seen, v, k)
        BY <1>1, <2>2, <3>3 DEF LedgerInv
      <4>2. /\ v = Account(seen.first, seen.n, stats.lost, k) /\ v <= seen.last + 1
            /\ stats.have /\ stats.next = v % SeqMod /\ seen.first # -1
        BY <4>1 DEF Ledger
      <4>3. v <= p.pkt
        <5>1. seen.last < p.pkt BY <1>1, <1>2, <2>2, <3>3 DEF OrderInv, Later, p
        <5>2. v <= seen.last + 1 /\ seen.last \in Int BY <1>5, <4>2
        <5> HIDE DEF p
        <5> QED BY <1>3, <5>1, <5>2
      <4>4. gap = Gap(p.pkt, v) BY <1>3, <4>2 DEF gap, Gap
      <4>5. /\ p.seq = stats.next => gap = 0
            /\ \E j \in Nat : p.pkt + n = Account(seen.first, seen.n + n, stats.lost + gap, j)
        <5>1. /\ seen.first \in Int /\ seen.n \in Nat /\ stats.lost \in Nat /\ p.pkt \in Nat
              /\ n \in Nat
          BY <1>2, <1>3, <1>5
        <5>2. v = Account(seen.first, seen.n, stats.lost, k) BY <4>2
        <5>3. p.seq = p.pkt % SeqMod /\ stats.next = v % SeqMod BY <1>3, <4>2
        <5>4. /\ p.pkt % SeqMod = v % SeqMod => Gap(p.pkt, v) = 0
              /\ Balanced(p.pkt + n, seen.first, seen.n + n, stats.lost + Gap(p.pkt, v))
          BY <4>1, <4>3, <5>1, <5>2, LedgerKept
        <5> QED BY <4>4, <5>3, <5>4 DEF Balanced
      <4>6. PICK j \in Nat :
                p.pkt + n = Account(seen.first, seen.n + n, stats.lost + gap, j)
        BY <4>5
      <4>7. stats'.lost = stats.lost + gap BY <1>5, <1>6, <1>10, <1>11, <4>2, <4>5
      <4>8. seen'.first = seen.first /\ seen'.n = seen.n + n BY <1>4, <4>2
      <4>9. Ledger(stats', seen', p.pkt + n, j)
        <5>1. p.pkt + n <= seen'.last + 1 /\ (~seen'.burst => p.pkt + n = seen'.last + 1)
          BY <1>2, <1>3, <1>4, <3>1
        <5>2. stats'.have /\ stats'.next = (p.pkt + n) % SeqMod /\ seen'.first # -1
          BY <1>11, <4>2, <4>8
        <5>3. p.pkt + n = Account(seen'.first, seen'.n, stats'.lost, j)
          BY <4>6, <4>7, <4>8
        <5> QED BY <5>1, <5>2, <5>3 DEF Ledger
      <4> QED BY <3>1, <4>9
    <3> QED BY <1>5, <3>2, <3>3
  <2> QED BY <2>1, <2>2 DEF LedgerInv
<1>15. FreshRing => FreshRing' /\ seen'.run = fpga.run
  <2>1. FreshRing => q.run = fpga.run BY DEF FreshRing, q
  <2>2. \A i \in 1..Len(ringQ') : ringQ'[i] = ringQ[i + n] /\ i + n \in 1..Len(ringQ)
    BY <1>2 DEF Rest
  <2>3. FreshRing => FreshRing' BY <2>2 DEF FreshRing
  <2> QED BY <1>4, <2>1, <2>3
<1> QED BY <1>16, <1>13, <1>14, <1>15

-----------------------------------------------------------------------------
(* recv, and the packets of the FPGA.                                         *)

LEMMA SizeOf ==
    ASSUME RxParameters, NEW w \in Sizes
    PROVE  w \in Nat /\ 0 < w /\ w % Channels = 0
<1>1. w \in 1..Full /\ Full \in Nat BY DEF RxParameters
<1> QED BY <1>1 DEF RxParameters

LEMMA RecvBegins ==
    ASSUME RxParameters, RxInv, NEW n \in Requests, NEW b \in BOOLEAN, Recv(n, b)
    PROVE  RxInv'
<1>1. /\ JobTypes /\ FpgaTypes /\ RingTypes /\ PendTypes /\ StatsTypes /\ JobInv
      /\ QuietUnlessReported /\ OkInv /\ OrderInv /\ LedgerInv
  BY DEF RxInv, Types, HostInv
<1>2. /\ job.op = "none" /\ ~job.err /\ job' = [op |-> "recv", todo |-> <<>>, err |-> FALSE]
      /\ call' = [left |-> n, bulk |-> b \/ Separate, stamp |-> -1, first |-> -1]
      /\ UNCHANGED <<fpga, ringOn, ringQ, pend, stats, seen, began, count>>
  BY DEF Recv, Idle, NoCall
<1>3. n \in Nat /\ (b \/ Separate) \in BOOLEAN /\ <<>> \in Seq(Step) BY DEF RxParameters
<1>4. JobTypes' BY <1>1, <1>2, <1>3 DEF JobTypes
<1>5. CallTypes' /\ StampHonest' BY <1>2, <1>3 DEF CallTypes, StampHonest
<1>6. FpgaTypes' /\ RingTypes' /\ PendTypes' /\ StatsTypes'
  BY <1>1, <1>2 DEF FpgaTypes, RingTypes, PendTypes, StatsTypes
<1>7. JobInv' /\ StartFpga' /\ StartHost' /\ StopInv'
  BY <1>2 DEF JobInv, StartFpga, StartHost, StopInv, Starting
<1>8. QuietUnlessReported' BY <1>1, <1>2 DEF QuietUnlessReported, Producing
<1>9. OkInv'
  BY <1>1, <1>2 DEF OkInv, Producing, Fresh, FreshRing, FreshHost
<1>10. OrderInv' /\ LedgerInv' BY <1>1, <1>2 DEF OrderInv, LedgerInv
<1> QED BY <1>4, <1>5, <1>6, <1>7, <1>8, <1>9, <1>10 DEF RxInv, Types, HostInv

LEMMA RecvEnds == ASSUME RxParameters, RxInv, RecvReturn PROVE RxInv'
<1>1. /\ JobTypes /\ FpgaTypes /\ RingTypes /\ PendTypes /\ StatsTypes /\ JobInv
      /\ QuietUnlessReported /\ OkInv /\ OrderInv /\ LedgerInv
  BY DEF RxInv, Types, HostInv
<1>2. /\ job.op = "recv" /\ job' = [op |-> "none", todo |-> <<>>, err |-> FALSE]
      /\ call' = [left |-> 0, bulk |-> FALSE, stamp |-> -1, first |-> -1]
      /\ UNCHANGED <<fpga, ringOn, ringQ, pend, stats, seen, began, count>>
  BY DEF RecvReturn, Idle, NoCall
<1>3. <<>> \in Seq(Step) OBVIOUS
<1>4. JobTypes' BY <1>1, <1>2, <1>3 DEF JobTypes
<1>5. CallTypes' /\ StampHonest' BY <1>2 DEF CallTypes, StampHonest
<1>6. FpgaTypes' /\ RingTypes' /\ PendTypes' /\ StatsTypes'
  BY <1>1, <1>2 DEF FpgaTypes, RingTypes, PendTypes, StatsTypes
<1>7. JobInv' /\ StartFpga' /\ StartHost' /\ StopInv'
  BY <1>2 DEF JobInv, StartFpga, StartHost, StopInv, Starting
<1>8. ~job.err BY <1>1, <1>2 DEF JobInv
<1>9. QuietUnlessReported' BY <1>1, <1>2, <1>8 DEF QuietUnlessReported, Producing
<1>10. OkInv'
  BY <1>1, <1>2 DEF OkInv, Producing, Fresh, FreshRing, FreshHost
<1>11. OrderInv' /\ LedgerInv' BY <1>1, <1>2 DEF OrderInv, LedgerInv
<1> QED BY <1>4, <1>5, <1>6, <1>7, <1>9, <1>10, <1>11 DEF RxInv, Types, HostInv

\* The first samples of a recv are stamped with their own time.
LEMMA StampedIs ==
    ASSUME CallTypes, StampHonest, NEW stamp \in Nat, NEW word \in Nat, NEW n \in Nat,
           stamp = word \div Channels, n <= call.left, Stamped(stamp, word, n)
    PROVE  CallTypes' /\ StampHonest'
<1>1. call \in [left: Nat, bulk: BOOLEAN, stamp: Int, first: Int]
  BY DEF CallTypes
<1>2. call' = [call EXCEPT !.left = call.left - n,
                           !.stamp = IF call.stamp = -1 THEN stamp ELSE call.stamp,
                           !.first = IF call.first = -1 THEN word ELSE call.first]
  BY DEF Stamped
<1>3. call.left - n \in Nat BY <1>1
<1>4. CASE call.stamp = -1
  <2>1. call.first = -1 BY <1>4 DEF CallTypes
  <2>2. call' = [call EXCEPT !.left = call.left - n, !.stamp = stamp, !.first = word]
    BY <1>2, <1>4, <2>1
  <2>3. stamp \in Int /\ word \in Int /\ stamp # -1 /\ word # -1 OBVIOUS
  <2> QED BY <1>1, <1>3, <2>2, <2>3 DEF CallTypes, StampHonest
<1>5. CASE call.stamp # -1
  <2>1. call.first # -1 BY <1>5 DEF CallTypes
  <2>2. call' = [call EXCEPT !.left = call.left - n, !.stamp = call.stamp,
                             !.first = call.first]
    BY <1>2, <1>5, <2>1
  <2> QED BY <1>1, <1>3, <1>5, <2>1, <2>2 DEF CallTypes, StampHonest
<1> QED BY <1>4, <1>5

\* A step of recv that takes n packets from the ring, or none of them.
LEMMA RecvKeeps ==
    ASSUME RxInv, job.op = "recv", UNCHANGED <<job, fpga, ringOn, began, count>>
    PROVE  /\ JobTypes' /\ FpgaTypes' /\ JobInv' /\ StartFpga' /\ StartHost' /\ StopInv'
           /\ QuietUnlessReported' /\ ((~began.dirty /\ began.ok => Fresh') => OkInv')
<1>1. JobTypes /\ FpgaTypes /\ JobInv /\ QuietUnlessReported /\ OkInv
  BY DEF RxInv, Types, HostInv
<1>2. JobTypes' /\ FpgaTypes' /\ JobInv' BY <1>1 DEF JobTypes, FpgaTypes, JobInv
<1>3. StartFpga' /\ StartHost' /\ StopInv' BY DEF StartFpga, StartHost, StopInv, Starting
<1>4. QuietUnlessReported' BY <1>1 DEF QuietUnlessReported, Producing
<1>5. (~began.dirty /\ began.ok => Fresh') => OkInv' BY <1>1 DEF OkInv, Producing
<1> QED BY <1>2, <1>3, <1>4, <1>5

LEMMA RestIs ==
    ASSUME NEW q \in Seq(Packet), NEW n \in 1..Len(q)
    PROVE  /\ SubSeq(q, n + 1, Len(q)) \in Seq(Packet) /\ Rest(q, SubSeq(q, n + 1, Len(q)), n)
           /\ Tail(q) \in Seq(Packet) /\ Rest(q, Tail(q), 1)
<1>1. Len(q) \in Nat /\ n \in Nat /\ 1 <= n /\ n <= Len(q) /\ q # <<>> OBVIOUS
<1>2. /\ SubSeq(q, n + 1, Len(q)) \in Seq(Packet) /\ Len(SubSeq(q, n + 1, Len(q))) = Len(q) - n
      /\ \A i \in 1..(Len(q) - n) : SubSeq(q, n + 1, Len(q))[i] = q[i + n]
  <2>1. Len(SubSeq(q, n + 1, Len(q))) = Len(q) - n BY <1>1
  <2>2. \A i \in 1..(Len(q) - n) : SubSeq(q, n + 1, Len(q))[i] = q[i + n] BY <1>1
  <2>3. SubSeq(q, n + 1, Len(q)) \in Seq(Packet) BY <1>1, SubSeqProperties
  <2> QED BY <2>1, <2>2, <2>3
<1>3. /\ Tail(q) \in Seq(Packet) /\ Len(Tail(q)) = Len(q) - 1
      /\ \A i \in 1..(Len(q) - 1) : Tail(q)[i] = q[i + 1]
  BY <1>1, EmptySeq
<1> QED BY <1>2, <1>3 DEF Rest

LEMMA BurstRead ==
    ASSUME RxParameters, RxInv, NEW n \in 1..RingDepth, Burst(n)
    PROVE  RxInv'
<1>1. /\ CallTypes /\ RingTypes /\ StampHonest /\ OkInv /\ PendTypes BY DEF RxInv, Types, HostInv
<1>2. /\ job.op = "recv" /\ pend = <<>> /\ n \in 1..Len(ringQ)
      /\ n * Samples(Full) <= call.left /\ ringQ' = SubSeq(ringQ, n + 1, Len(ringQ))
      /\ Note(ringQ[1], n) /\ Saw(ringQ[1], ringQ[n], n)
      /\ Stamped(ringQ[1].word \div Channels, ringQ[1].word, n * Samples(Full))
      /\ UNCHANGED <<job, fpga, ringOn, pend, began, count>>
  BY DEF Burst
<1>3. ringQ \in Seq(Packet) /\ 1 \in 1..Len(ringQ) /\ n \in Nat BY <1>1, <1>2 DEF RingTypes
<1>4. ringQ' \in Seq(Packet) /\ Rest(ringQ, ringQ', n) BY <1>2, <1>3, RestIs
<1>5. /\ StatsTypes' /\ OrderInv' /\ LedgerInv'
      /\ FreshRing => FreshRing' /\ seen'.run = fpga.run
  BY <1>2, <1>4, Taken
<1>6. CallTypes' /\ StampHonest'
  <2>1. n * Samples(Full) \in Nat
    <3>1. Samples(Full) \in Nat BY DEF Samples, RxParameters
    <3> QED BY <1>3, <3>1
  <2>2. ringQ[1].word \in Nat BY <1>3, PacketOf
  <2>3. ringQ[1].word \div Channels \in Nat
    <3>1. Channels \in Nat \ {0} BY DEF RxParameters
    <3> QED BY <2>2, <3>1
  <2> QED BY <1>1, <1>2, <2>1, <2>2, <2>3, StampedIs
<1>7. RingTypes'
  <2>1. Len(ringQ') <= RingDepth /\ (ringQ = <<>> => ringQ' = <<>>)
    BY <1>1, <1>2, <1>3, <1>4 DEF RingTypes, Rest, RxParameters
  <2> QED BY <1>1, <1>2, <1>4, <2>1 DEF RingTypes
<1>8. PendTypes' BY <1>1, <1>2 DEF PendTypes
<1>9. ~began.dirty /\ began.ok => Fresh'
  BY <1>1, <1>2, <1>5 DEF OkInv, Fresh, FreshHost
<1> QED BY <1>2, <1>5, <1>6, <1>7, <1>8, <1>9, RecvKeeps DEF RxInv, Types, HostInv

LEMMA PacketLoaded == ASSUME RxParameters, RxInv, LoadNext PROVE RxInv'
<1>1. /\ CallTypes /\ RingTypes /\ StampHonest /\ OkInv BY DEF RxInv, Types, HostInv
<1>2. /\ job.op = "recv" /\ ringQ # <<>> /\ ringQ' = Tail(ringQ)
      /\ pend' = <<[pkt |-> Head(ringQ), off |-> 0]>>
      /\ Note(Head(ringQ), 1) /\ Saw(Head(ringQ), Head(ringQ), 1)
      /\ UNCHANGED <<job, fpga, ringOn, call, began, count>>
  BY DEF LoadNext
<1>3. ringQ \in Seq(Packet) /\ 1 \in 1..Len(ringQ) /\ Head(ringQ) = ringQ[1]
  <2>1. ringQ \in Seq(Packet) BY <1>1 DEF RingTypes
  <2> QED BY <1>2, <2>1, EmptySeq
<1>4. ringQ' \in Seq(Packet) /\ Rest(ringQ, ringQ', 1) BY <1>2, <1>3, RestIs
<1>5. /\ StatsTypes' /\ OrderInv' /\ LedgerInv'
      /\ FreshRing => FreshRing' /\ seen'.run = fpga.run
  BY <1>2, <1>3, <1>4, Taken
<1>6. CallTypes' /\ StampHonest' BY <1>1, <1>2 DEF CallTypes, StampHonest
<1>7. RingTypes'
  <2>1. Len(ringQ') <= RingDepth
    BY <1>1, <1>3, <1>4 DEF RingTypes, Rest, RxParameters
  <2>2. ringOn BY <1>1, <1>2 DEF RingTypes
  <2> QED BY <1>1, <1>2, <1>4, <2>1, <2>2 DEF RingTypes
<1>8. PendTypes'
  <2>1. ringQ[1] \in Packet /\ ringQ[1].words \in Nat /\ 0 < ringQ[1].words
    <3>1. ringQ[1] \in Packet /\ ringQ[1].words \in Sizes BY <1>3, PacketOf
    <3> QED BY <3>1, SizeOf
  <2> DEFINE b == [pkt |-> ringQ[1], off |-> 0]
  <2>2. b \in [pkt: Packet, off: Nat] /\ b.off < b.pkt.words BY <2>1
  <2>3. pend' = <<b>> BY <1>2, <1>3
  <2> HIDE DEF b
  <2> QED BY <2>2, <2>3 DEF PendTypes
<1>9. ~began.dirty /\ began.ok => Fresh'
  <2>1. pend'[1].pkt = ringQ[1] BY <1>2, <1>3
  <2> QED BY <1>1, <1>2, <1>3, <1>5, <2>1 DEF OkInv, Fresh, FreshHost, FreshRing
<1> QED BY <1>2, <1>5, <1>6, <1>7, <1>8, <1>9, RecvKeeps DEF RxInv, Types, HostInv

LEMMA SamplesCopied == ASSUME RxParameters, RxInv, Copy PROVE RxInv'
<1> DEFINE b == pend[1]
           avail == Samples(b.pkt.words - b.off)
           n == IF call.left < avail THEN call.left ELSE avail
           off == b.off + (IF Separate THEN 2 * n ELSE n)
<1>1. /\ CallTypes /\ RingTypes /\ PendTypes /\ StatsTypes /\ StampHonest /\ OkInv /\ OrderInv
      /\ LedgerInv
  BY DEF RxInv, Types, HostInv
<1>2. /\ job.op = "recv" /\ pend # <<>> /\ Stamped(PendStamp(b), b.pkt.word + b.off, n)
      /\ pend' = IF off >= b.pkt.words THEN <<>> ELSE <<[b EXCEPT !.off = off]>>
      /\ UNCHANGED <<job, fpga, ringOn, ringQ, stats, seen, began, count>>
  BY DEF Copy
<1>3. /\ b \in [pkt: Packet, off: Nat] /\ b.off < b.pkt.words
  <2> DEFINE Half == [pkt: Packet, off: Nat]
  <2>1. pend \in Seq(Half) /\ b.off < b.pkt.words BY <1>1, <1>2 DEF PendTypes
  <2> HIDE DEF Half
  <2>2. 1 \in 1..Len(pend) BY <1>2, <2>1, EmptySeq
  <2>3. b \in Half BY <2>1, <2>2
  <2> QED BY <2>1, <2>3 DEF Half
<1>4. b.pkt.words \in Nat /\ b.pkt.word \in Nat /\ b.pkt.word % Channels = 0 /\ b.off \in Nat
  <2>1. b.pkt \in Packet /\ b.off \in Nat BY <1>3
  <2>2. b.pkt.words \in Sizes /\ b.pkt.word \in Nat /\ b.pkt.word % Channels = 0
    BY <2>1 DEF Packet
  <2> QED BY <2>1, <2>2, SizeOf
<1> HIDE DEF b
<1>5. avail \in Nat
  <2>1. b.pkt.words - b.off \in Nat BY <1>3, <1>4
  <2> QED BY <2>1 DEF Samples
<1>6. call.left \in Nat BY <1>1 DEF CallTypes
<1> HIDE DEF avail
<1>7. n \in Nat /\ n <= call.left BY <1>5, <1>6
<1> HIDE DEF n
<1>8. off \in Nat BY <1>4, <1>7
<1> HIDE DEF off
<1>9. CallTypes' /\ StampHonest'
  <2>1. PendStamp(b) = (b.pkt.word + b.off) \div Channels /\ PendStamp(b) \in Nat
    <3>1. /\ (b.pkt.word + b.off) \div Channels
                = (b.pkt.word \div Channels) + (b.off \div Channels)
          /\ b.pkt.word \div Channels \in Nat /\ b.off \div Channels \in Nat
      BY <1>4, SampleTimes
    <3> QED BY <3>1 DEF PendStamp
  <2>2. b.pkt.word + b.off \in Nat BY <1>4
  <2> QED BY <1>1, <1>2, <1>7, <2>1, <2>2, StampedIs
<1> DEFINE c == [b EXCEPT !.off = off]
<1>10. c \in [pkt: Packet, off: Nat] /\ c.pkt = b.pkt /\ c.off = off BY <1>3, <1>8
<1>11. pend' = <<>> \/ (pend' = <<c>> /\ off < b.pkt.words) BY <1>2, <1>4, <1>8
<1> HIDE DEF c
<1>12. PendTypes'
  <2>1. CASE pend' = <<>> BY <2>1 DEF PendTypes
  <2>2. CASE pend' = <<c>> /\ off < b.pkt.words BY <1>10, <2>2 DEF PendTypes
  <2> QED BY <1>11, <2>1, <2>2
<1>13. pend' # <<>> => pend'[1].pkt = pend[1].pkt BY <1>10, <1>11 DEF b
<1>14. ~began.dirty /\ began.ok => Fresh'
  BY <1>1, <1>2, <1>13 DEF OkInv, Fresh, FreshRing, FreshHost
<1>15. RingTypes' /\ StatsTypes' /\ OrderInv' /\ LedgerInv'
  BY <1>1, <1>2 DEF RingTypes, StatsTypes, OrderInv, LedgerInv
<1> QED BY <1>2, <1>9, <1>12, <1>14, <1>15, RecvKeeps DEF RxInv, Types, HostInv

LEMMA PacketSent ==
    ASSUME RxParameters, RxInv, NEW w \in Sizes, FpgaPacket(w)
    PROVE  RxInv'
<1>1. /\ JobTypes /\ FpgaTypes /\ RingTypes /\ PendTypes /\ StatsTypes /\ CallTypes /\ JobInv
      /\ StartFpga /\ StartHost /\ StopInv /\ QuietUnlessReported /\ OkInv /\ OrderInv
      /\ LedgerInv /\ StampHonest
  BY DEF RxInv, Types, HostInv
<1> DEFINE p == [run |-> fpga.run, pkt |-> fpga.pkt, seq |-> fpga.pkt % SeqMod,
                 word |-> fpga.word, words |-> w]
<1>2. /\ fpga.enabled /\ fpga.framer = "running" /\ fpga.pkt < MaxPkts
      /\ fpga' = [fpga EXCEPT !.pkt = fpga.pkt + 1, !.word = fpga.word + w]
      /\ ringQ' = (IF ringOn /\ Len(ringQ) < RingDepth THEN Append(ringQ, p) ELSE ringQ)
      /\ UNCHANGED <<job, ringOn, pend, stats, call, seen, began, count>>
  BY DEF FpgaPacket, Producing
<1>3. w \in Nat /\ w % Channels = 0 BY SizeOf
<1>4. /\ fpga \in [enabled: BOOLEAN, framer: {"idle", "armed", "running"}, run: Nat, word: Nat,
                   pkt: 0..MaxPkts]
      /\ fpga.word % Channels = 0 /\ fpga.run <= count.ops
  BY <1>1 DEF FpgaTypes
<1>5. p \in Packet
  <2>1. fpga.pkt % SeqMod \in Nat BY <1>4 DEF RxParameters
  <2> QED BY <1>4, <2>1 DEF Packet
<1>6. p.pkt = fpga.pkt /\ p.run = fpga.run OBVIOUS
<1> HIDE DEF p
<1>7. /\ fpga' \in [enabled: BOOLEAN, framer: {"idle", "armed", "running"}, run: Nat, word: Nat,
                    pkt: 0..MaxPkts]
      /\ fpga'.run = fpga.run /\ fpga'.enabled /\ fpga'.framer = "running"
      /\ fpga'.pkt = fpga.pkt + 1 /\ fpga'.word % Channels = 0
  <2>1. (fpga.word + w) % Channels = 0 BY <1>3, <1>4, SampleTimes
  <2>2. fpga.word + w \in Nat /\ fpga.pkt + 1 \in 0..MaxPkts
    BY <1>2, <1>3, <1>4 DEF RxParameters
  <2> QED BY <1>2, <1>4, <2>1, <2>2
<1>8. JobTypes' /\ FpgaTypes' /\ JobInv' BY <1>1, <1>2, <1>4, <1>7 DEF JobTypes, FpgaTypes, JobInv
<1>9. PendTypes' /\ StatsTypes' /\ CallTypes' /\ LedgerInv' /\ StampHonest'
  BY <1>1, <1>2 DEF PendTypes, StatsTypes, CallTypes, LedgerInv, StampHonest
<1>10. ringQ \in Seq(Packet) /\ Len(ringQ) \in Nat BY <1>1 DEF RingTypes
<1>11. /\ Append(ringQ, p) \in Seq(Packet) /\ Len(Append(ringQ, p)) = Len(ringQ) + 1
       /\ Append(ringQ, p)[Len(ringQ) + 1] = p
       /\ \A i \in 1..Len(ringQ) : Append(ringQ, p)[i] = ringQ[i]
  BY <1>5, <1>10, AppendProperties
<1>12. RingTypes'
  <2>1. CASE ringOn /\ Len(ringQ) < RingDepth
    <3>1. ringQ' = Append(ringQ, p) BY <1>2, <2>1
    <3>2. Len(ringQ') <= RingDepth BY <1>10, <1>11, <2>1, <3>1 DEF RxParameters
    <3> QED BY <1>1, <1>2, <1>11, <2>1, <3>1, <3>2 DEF RingTypes
  <2>2. CASE ringQ' = ringQ BY <1>1, <1>2, <2>2 DEF RingTypes
  <2> QED BY <1>2, <2>1, <2>2
<1>13. FreshRing => FreshRing'
  <2>1. CASE ringQ' = ringQ BY <1>7, <2>1 DEF FreshRing
  <2>2. CASE ringQ' = Append(ringQ, p)
    <3> SUFFICES ASSUME FreshRing, NEW i \in 1..(Len(ringQ) + 1)
                 PROVE  Append(ringQ, p)[i].run = fpga.run
      BY <1>7, <1>11, <2>2 DEF FreshRing
    <3>1. CASE i \in 1..Len(ringQ) BY <1>11, <3>1 DEF FreshRing
    <3>2. CASE i = Len(ringQ) + 1 BY <1>6, <1>11, <3>2
    <3> QED BY <1>10, <3>1, <3>2
  <2> QED BY <1>2, <2>1, <2>2
<1>14. Fresh => Fresh' BY <1>2, <1>7, <1>13 DEF Fresh, FreshHost
<1>15. StartFpga' /\ StartHost'
  <2>1. Left' = Left /\ Starting' = Starting BY <1>2 DEF Left, Starting
  <2>2. Starting => Left \notin 1..10 BY <1>1, <1>2 DEF StartFpga
  <2>3. Left \in Nat
    <3>1. job.todo \in Seq(Step) BY <1>1 DEF JobTypes
    <3> QED BY <3>1 DEF Left
  <2>4. StartFpga' BY <1>1, <1>2, <1>7, <2>1, <2>2, <2>3 DEF StartFpga
  <2>5. StartHost' BY <1>1, <1>2, <1>14, <2>1, <2>2, <2>3 DEF StartHost
  <2> QED BY <2>4, <2>5
<1>16. StopInv' /\ QuietUnlessReported'
  BY <1>1, <1>2, <1>7 DEF StopInv, Left, QuietUnlessReported, Producing
<1>17. OkInv' BY <1>1, <1>2, <1>7, <1>14 DEF OkInv, Producing
<1>18. OrderInv'
  <2> SUFFICES ASSUME ~began.dirty
               PROVE  /\ Spread(ringQ', fpga.pkt + 1)
                      /\ seen.n > 0 => seen.last < fpga.pkt + 1 /\ Later(ringQ', seen.last)
    BY <1>2, <1>7 DEF OrderInv
  <2>1. /\ Spread(ringQ, fpga.pkt)
        /\ seen.n > 0 => seen.last < fpga.pkt /\ Later(ringQ, seen.last)
    BY <1>1 DEF OrderInv
  <2>2. seen.last \in Int /\ fpga.pkt \in Nat BY <1>1, <1>4 DEF StatsTypes
  <2>3. CASE ringQ' = ringQ BY <1>10, <2>1, <2>2, <2>3, SpreadMore
  <2>4. CASE ringQ' = Append(ringQ, p)
    <3>1. Spread(Append(ringQ, p), fpga.pkt + 1) BY <1>5, <1>6, <1>10, <2>1, SpreadAppend
    <3>2. ASSUME Later(ringQ, seen.last), seen.last < fpga.pkt
          PROVE  Later(Append(ringQ, p), seen.last)
      <4> SUFFICES ASSUME NEW i \in 1..(Len(ringQ) + 1)
                   PROVE  seen.last < Append(ringQ, p)[i].pkt
        BY <1>11 DEF Later
      <4>1. CASE i \in 1..Len(ringQ) BY <1>11, <3>2, <4>1 DEF Later
      <4>2. CASE i = Len(ringQ) + 1 BY <1>6, <1>11, <3>2, <4>2
      <4> QED BY <1>10, <4>1, <4>2
    <3>3. seen.last < fpga.pkt => seen.last < fpga.pkt + 1 BY <2>2
    <3> QED BY <2>1, <2>4, <3>1, <3>2, <3>3
  <2> QED BY <1>2, <2>3, <2>4
<1> QED BY <1>8, <1>9, <1>12, <1>15, <1>16, <1>17, <1>18 DEF RxInv, Types, HostInv

-----------------------------------------------------------------------------
(* The theorems.                                                              *)

LEMMA RxInit == ASSUME RxParameters, Init PROVE RxInv
<1> USE DEF Init, Idle, NoStats, NoCall, NoSeen
<1>1. <<>> \in Seq(Step) /\ <<>> \in Seq(Packet) /\ Len(<<>>) = 0
      /\ <<>> \in Seq([pkt: Packet, off: Nat])
  OBVIOUS
<1>2. /\ 0 \in 0..MaxPkts /\ 0 \in 0..MaxCalls /\ 0 \in 0..MaxFaults /\ 0 % Channels = 0
      /\ 0 \in 0..(SeqMod - 1) /\ 0 <= RingDepth
  BY DEF RxParameters
<1>3. JobTypes BY <1>1, <1>2 DEF JobTypes
<1>4. FpgaTypes BY <1>2 DEF FpgaTypes
<1>5. RingTypes /\ PendTypes 
  <2>1. ringQ = <<>> /\ pend = <<>> /\ ringOn = FALSE OBVIOUS
  <2>2. RingTypes BY <1>1, <1>2, <2>1 DEF RingTypes
  <2> DEFINE Half == [pkt: Packet, off: Nat]
  <2>3. <<>> \in Seq(Half) OBVIOUS
  <2>4. pend \in Seq(Half) BY <2>1, <2>3
  <2> HIDE DEF Half
  <2>5. Len(pend) <= 1 /\ ~(pend # <<>>) BY <2>1
  <2> USE DEF Half
  <2>6. PendTypes BY <2>4, <2>5 DEF PendTypes
  <2> QED BY <2>2, <2>6
<1>6. StatsTypes /\ CallTypes BY <1>2 DEF StatsTypes, CallTypes
<1>7. JobInv /\ StartFpga /\ StartHost /\ StopInv
  BY DEF JobInv, StartFpga, StartHost, StopInv, Starting
<1>8. QuietUnlessReported /\ OkInv /\ LedgerInv /\ StampHonest
  BY DEF QuietUnlessReported, Producing, OkInv, LedgerInv, StampHonest
<1>9. OrderInv
  <2>1. Spread(<<>>, 0) BY DEF Spread
  <2> QED BY <2>1 DEF OrderInv
<1> QED BY <1>3, <1>4, <1>5, <1>6, <1>7, <1>8, <1>9 DEF RxInv, Types, HostInv

LEMMA RxStep == ASSUME RxParameters, RxInv, [Next]_rxVars PROVE RxInv'
<1>1. CASE StartStream BY <1>1, StartBegins
<1>2. CASE StopStream BY <1>2, StopBegins
<1>3. CASE Command BY <1>3, CommandSent
<1>4. CASE Clear BY <1>4, HostCleared
<1>5. CASE ClearPending BY <1>5, PendCleared
<1>6. CASE StartRing BY <1>6, RingStarted
<1>7. CASE StopRing BY <1>7, RingStopped
<1>8. CASE Finish BY <1>8, CallEnds
<1>9. CASE SetChannelEnable BY <1>9, EnableWritten
<1>10. CASE \E n \in Requests, bulk \in BOOLEAN : Recv(n, bulk) BY <1>10, RecvBegins
<1>11. CASE \E n \in 1..RingDepth : Burst(n) BY <1>11, BurstRead
<1>12. CASE LoadNext BY <1>12, PacketLoaded
<1>13. CASE Copy BY <1>13, SamplesCopied
<1>14. CASE RecvReturn BY <1>14, RecvEnds
<1>15. CASE \E w \in Sizes : FpgaPacket(w) BY <1>15, PacketSent
<1>16. CASE UNCHANGED rxVars
  <2>1. UNCHANGED <<job, fpga, ringOn, ringQ, pend, stats, call, seen, began, count>>
    BY <1>16 DEF rxVars
  <2>2. Types'
    BY <2>1 DEF RxInv, Types, JobTypes, FpgaTypes, RingTypes, PendTypes, StatsTypes, CallTypes
  <2>3. JobInv' /\ StartFpga' /\ StopInv' /\ QuietUnlessReported' /\ StampHonest'
    BY <2>1 DEF RxInv, JobInv, StartFpga, Starting, Left, StopInv, QuietUnlessReported, Producing,
                StampHonest
  <2>4. HostInv'
    BY <2>1 DEF RxInv, HostInv, StartHost, Starting, Left, OkInv, Producing, Fresh, FreshRing,
                FreshHost, OrderInv, LedgerInv
  <2> QED BY <2>2, <2>3, <2>4 DEF RxInv
<1> QED
  BY <1>1, <1>2, <1>3, <1>4, <1>5, <1>6, <1>7, <1>8, <1>9, <1>10, <1>11, <1>12, <1>13, <1>14,
     <1>15, <1>16 DEF Next

LEMMA RxAlways == Spec => []RxInv
<1>1. Init => RxInv BY RxAssumption, RxInit
<1>2. RxInv /\ [Next]_rxVars => RxInv' BY RxAssumption, RxStep
<1> QED BY <1>1, <1>2, PTL DEF Spec

\* The streamer's active flag is true: after a start that returned the FPGA sends
\* into a ring that is on, unless set_channel_enable came between, and while the
\* ring is off it is quiet, or the caller was told that a command failed: the order
\* of start_stream_locked and stop_stream_locked.
THEOREM ActiveFlagTrue == Spec => []ActiveIsTrue
<1>1. RxInv => ActiveIsTrue
  BY DEF RxInv, HostInv, OkInv, StartedStreams, ActiveIsTrue
<1> QED BY <1>1, RxAlways, PTL

\* The time stamp of a recv is that of its first sample.
THEOREM StampsHonest == Spec => []StampHonest
<1>1. RxInv => StampHonest BY DEF RxInv
<1> QED BY <1>1, RxAlways, PTL

\* What the count of lost packets is short of is whole turns of the counter.
THEOREM LossesCounted == Spec => []LossCounted
<1>1. ASSUME RxInv PROVE LossCounted
  <2> DEFINE missing == seen.last - seen.first + 1 - seen.n
  <2>1. StatsTypes /\ LedgerInv /\ SeqMod \in Nat \ {0}
    BY <1>1, RxAssumption DEF RxInv, Types, HostInv, RxParameters
  <2>2. /\ seen.first \in Int /\ seen.last \in Int /\ seen.n \in Nat /\ stats.lost \in Nat
        /\ stats.packets = seen.n
    BY <2>1 DEF StatsTypes, LedgerInv
  <2>3. CASE seen.n = 0
    <3>1. stats.lost = 0 /\ missing = 1
      BY <2>1, <2>2, <2>3 DEF LedgerInv, NoStats, NoSeen
    <3> HIDE DEF missing
    <3>2. stats.lost <= missing /\ ~(seen.n > 0) BY <2>3, <3>1
    <3> QED BY <2>2, <3>2 DEF LossCounted, missing
  <2>4. CASE seen.n > 0
    <3> SUFFICES ASSUME ~began.dirty
                 PROVE  stats.lost <= missing
                        /\ (~seen.burst => (missing - stats.lost) % SeqMod = 0)
      BY <2>2 DEF LossCounted
    <3>1. PICK v \in Nat, k \in Nat : Ledger(stats, seen, v, k) BY <2>1, <2>4 DEF LedgerInv
    <3>2. /\ v = seen.first + seen.n + stats.lost + k * SeqMod
          /\ v <= seen.last + 1 /\ (~seen.burst => v = seen.last + 1)
      BY <3>1 DEF Ledger, Account
    <3>3. k * SeqMod \in Nat BY <2>1
    <3>4. stats.lost <= missing BY <2>2, <3>2, <3>3
    <3>5. ASSUME ~seen.burst PROVE (missing - stats.lost) % SeqMod = 0
      <4>1. missing - stats.lost = k * SeqMod + 0 BY <2>2, <3>2, <3>3, <3>5
      <4>2. 0 \in 0..(SeqMod - 1) BY <2>1
      <4>3. (k * SeqMod + 0) % SeqMod = 0 BY <2>1, <4>2, WholeTurns
      <4> QED BY <4>1, <4>3
    <3> QED BY <3>4, <3>5
  <2> QED BY <2>2, <2>3, <2>4
<1> QED BY <1>1, RxAlways, PTL

\* After a start that found the ring stopped, no sample of an earlier run.
THEOREM NothingOfOldRuns == Spec => []NoStaleSamples
<1>1. RxInv => NoStaleSamples
  BY DEF RxInv, HostInv, OkInv, Fresh, FreshHost, NoStaleSamples
<1> QED BY <1>1, RxAlways, PTL

\* The types of the state, with the bounds of the ring, the calls and the packets.
THEOREM RxTypes == Spec => []RxTypeOK
<1>1. ASSUME RxInv PROVE RxTypeOK
  <2>1. JobTypes /\ FpgaTypes /\ RingTypes /\ PendTypes /\ StatsTypes /\ CallTypes
    BY <1>1 DEF RxInv, Types
  <2>2. fpga.run \in 0..MaxCalls
    <3>1. fpga.run \in Nat /\ fpga.run <= count.ops /\ count.ops \in 0..MaxCalls /\ MaxCalls \in Nat
      BY <1>1, <2>1, RxAssumption DEF FpgaTypes, JobTypes, RxParameters
    <3> QED BY <3>1
  <2>3. count.ops <= MaxCalls /\ count.bad <= MaxFaults BY <2>1 DEF JobTypes
  <2> QED BY <2>1, <2>2, <2>3
          DEF RxTypeOK, JobTypes, FpgaTypes, RingTypes, PendTypes, StatsTypes, CallTypes
<1> QED BY <1>1, RxAlways, PTL
=============================================================================
