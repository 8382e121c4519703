------------------------------- MODULE RxProbe -------------------------------
(***************************************************************************)
(* The program that reads packets from an M300 and reports what it lost:   *)
(* its options, its set-up of the device, four ways to read, the threads   *)
(* of one of them, and the report.                                         *)
(* Source: src/example/m300/m300_rx_iq_probe.cpp.                          *)
(*                                                                         *)
(* Packets are numbered as the device makes them, from 1; that is a        *)
(* packet's time stamp too, and modulo SeqValues its sequence number.  What   *)
(* cannot be recognised as a packet is 0.                                  *)
(***************************************************************************)
EXTENDS Integers, Sequences, FiniteSets, TLC, SequencesExt

CONSTANTS
    Reads,          \* --reads
    Warmup,         \* --warmup-packets
    Bulk,           \* --bulk-packets
    Depth,          \* kQueueDepth
    SeqValues,         \* values of the sequence number
    MaxReasonable,  \* kMaxReasonableSeqLoss
    LossSizes,      \* packets the device loses at once
    MaxSpent        \* bound: losses, bad data and failures

ProbeParameters ==
    /\ {Reads, Bulk, Depth} \subseteq Nat \ {0} /\ {Warmup, MaxSpent} \subseteq Nat
    /\ SeqValues \in Nat /\ MaxReasonable \in 0..SeqValues - 1 /\ LossSizes \subseteq Nat \ {0}

VARIABLES
    options,        \* as settled from the command line
    m300,           \* the device: as an earlier program left it, as set up, its stream
    probe,          \* the main thread
    readers,        \* the reader threads, with the block each has in hand
    queue,          \* direct_read_queue, and next_block
    tally,          \* rx_process_state, and pkt_i
    fate            \* history: packets measured in their order; what went wrong

probeVars == <<options, m300, probe, readers, queue, tally, fate>>

-----------------------------------------------------------------------------
(* the command line *)

Defaults == [direct |-> FALSE, force |-> FALSE, threads |-> FALSE, ring |-> FALSE, readers |-> 1,
             init |-> "auto", framer |-> TRUE, test |-> FALSE, keep |-> FALSE]
\* What each option sets.
Sets ==
    [bulk |-> [direct |-> TRUE], bandwidthOnly |-> [direct |-> TRUE, threads |-> TRUE],
     readerThread |-> [direct |-> TRUE, threads |-> TRUE],
     readerThreads2 |-> [direct |-> TRUE, threads |-> TRUE, readers |-> 2],
     singleThread |-> [threads |-> FALSE, ring |-> FALSE],
     driverRing |-> [direct |-> TRUE, ring |-> TRUE, threads |-> FALSE],
     directRead |-> [direct |-> TRUE, force |-> FALSE],
     rxDevice |-> [direct |-> TRUE, force |-> FALSE],
     transportRead |-> [direct |-> FALSE, force |-> TRUE, threads |-> FALSE, ring |-> FALSE],
     autoInit |-> [init |-> "auto"], forceInit |-> [init |-> "force"], skipInit |-> [init |-> "skip"],
     noFramer |-> [framer |-> FALSE], keepRunning |-> [keep |-> TRUE],
     testSource |-> [test |-> TRUE, init |-> "skip", framer |-> FALSE, direct |-> TRUE],
     iqSource |-> [test |-> FALSE]]
Parse(line) == FoldLeft(LAMBDA o, word: Sets[word] @@ o, Defaults, line)
\* Mutant: the options are taken as they came.
AsParsed(o) == o
\* The test source goes with neither chip nor framer, the transport with no way to read
\* directly, the ring with no thread.
Settled(o) ==
    LET tested == IF o.test
                  THEN [o EXCEPT !.init = "skip", !.framer = FALSE, !.direct = @ \/ ~o.force] ELSE o
        forced == IF o.force THEN Sets["transportRead"] @@ tested ELSE tested
    IN  IF forced.ring THEN [forced EXCEPT !.threads = FALSE] ELSE forced
Way(o) ==
    CASE ~o.direct -> "transport" [] o.ring -> "ring" [] o.threads -> "threads" [] OTHER -> "loop"

-----------------------------------------------------------------------------
(* measuring a packet *)

TotalReads == Warmup + Reads
NoTally == [count |-> 0, expected |-> 0, jumps |-> 0, lost |-> 0, odd |-> 0,
            last |-> 0, step |-> 0, gaps |-> 0]

\* Mutant: the number that is missing is expected next time too.
ExpectedKept(t, n) ==
    LET missing == (n - t.expected) % SeqValues
    IN  IF t.last = 0 THEN [t EXCEPT !.expected = (n + 1) % SeqValues]
        ELSE IF missing = 0 THEN [t EXCEPT !.expected = (n + 1) % SeqValues]
        ELSE [t EXCEPT !.jumps = @ + 1, !.lost = @ + missing]
\* The sequence number against the expected one.
Numbered(t, n) ==
    LET missing == (n - t.expected) % SeqValues
        next == [t EXCEPT !.expected = (n + 1) % SeqValues]
    IN  IF t.last = 0 \/ missing = 0 THEN next
        ELSE IF missing <= MaxReasonable THEN [next EXCEPT !.jumps = @ + 1, !.lost = @ + missing]
        ELSE [next EXCEPT !.jumps = @ + 1, !.odd = @ + 1]
\* Mutant: only a step that goes back is a gap.
OnlyBackwards(t, n) ==
    IF t.last # 0 /\ t.step = 0 THEN [t EXCEPT !.last = n, !.step = n - t.last]
    ELSE [t EXCEPT !.last = n, !.gaps = @ + IF n < t.last THEN 1 ELSE 0]
\* The time stamp's step against the first one.
Stamped(t, n) ==
    LET step == n - t.last
    IN  CASE t.last = 0 -> [t EXCEPT !.last = n]
          [] t.last # 0 /\ t.step = 0 -> [t EXCEPT !.last = n, !.step = step]
          [] OTHER -> [t EXCEPT !.last = n, !.gaps = @ + IF step # t.step THEN 1 ELSE 0]

\* One packet, and all of what a read gave, up to the packets wanted.  Noise is skipped
\* by a direct read; the transport's reader counts it.
Measured(s, n) ==
    IF s.tally.count >= TotalReads THEN s
    ELSE IF n = 0 THEN [s EXCEPT !.tally.count = @ + IF options.direct THEN 0 ELSE 1]
    ELSE IF s.tally.count < Warmup THEN [s EXCEPT !.tally.count = @ + 1]
    ELSE [tally |-> [Stamped(Numbered(s.tally, n), n) EXCEPT !.count = @ + 1],
          order |-> Append(s.order, n)]
Process(data, f) ==
    LET s == FoldLeft(Measured, [tally |-> tally, order |-> fate.order], data)
    IN  tally' = s.tally /\ fate' = [f EXCEPT !.order = s.order]

-----------------------------------------------------------------------------
(* the device's stream *)

Trouble == fate.spent < MaxSpent
\* What a read of k packets may give: the next k, or k after a loss, or one of them not
\* recognised, or, to a direct read, the last cut off.
Full(k, after) == [i \in 1..k |-> m300.next + after + i - 1]
Given(k) ==
    {[data |-> Full(k, 0), used |-> k, bad |-> FALSE, cost |-> 0]}
    \cup {[data |-> Full(k, l), used |-> l + k, bad |-> FALSE, cost |-> 1]: l \in LossSizes}
    \cup {[data |-> [Full(k, 0) EXCEPT ![i] = 0], used |-> k, bad |-> TRUE, cost |-> 1]: i \in 1..k}
    \cup {[data |-> Front(Full(k, 0)), used |-> k, bad |-> TRUE, cost |-> 1]: d \in {TRUE} \cap {options.direct}}
Gives(g) == g.cost = 0 \/ Trouble
Streamed(g) == m300' = [m300 EXCEPT !.next = @ + g.used]
Spent(f, g) == [f EXCEPT !.spent = @ + g.cost, !.bad = @ \/ g.bad]

CommandLines == {Settled(Parse(line)): line \in SeqOf(DOMAIN Sets, 2)}
ProbeInit ==
    /\ options \in CommandLines
    /\ m300 \in [on: BOOLEAN, source: {"iq", "test"}, bytes: {"asked", "other"},
                 framed: {"asked", "other"}, chip: {"good", "bad"}, ring: {FALSE}, next: {1}]
    /\ probe = "stop" /\ tally = NoTally
    /\ readers = [r \in 1..2 |-> [at |-> "none", block |-> 0, data |-> <<>>]]
    /\ queue = [next |-> 0, wanted |-> 0, blocks |-> <<>>, done |-> FALSE, error |-> FALSE]
    /\ fate = [order |-> <<>>, bad |-> FALSE, dropped |-> FALSE, stopFailed |-> FALSE, spent |-> 0]

-----------------------------------------------------------------------------
(* set-up: one command after the other, each of which may throw, done or not *)

\* Mutant: the check's failure is taken for a chip that is all right.
CheckTrusted(answered) ==
    options.init = "force" \/ (options.init = "auto" /\ answered /\ m300.chip # "good")
NeedsInit(answered) ==
    options.init = "force" \/ (options.init = "auto" /\ ~(answered /\ m300.chip = "good"))

SetupSteps == {"stop", "bytes", "source", "init", "start", "framer"}
SetTo(step) ==
    CASE step = "stop" -> [m300 EXCEPT !.on = FALSE]
      [] step = "source" -> [m300 EXCEPT !.source = IF options.test THEN "test" ELSE "iq"]
      [] step = "bytes" -> [m300 EXCEPT !.bytes = "asked"]
      [] step = "init" -> [m300 EXCEPT !.chip = "good"]
      [] step = "start" -> [m300 EXCEPT !.on = TRUE]
      [] step = "framer" -> [m300 EXCEPT !.framed = "asked"]
After(step) ==
    CASE step = "stop" -> "source" [] step = "source" -> "bytes" [] step = "bytes" -> "check"
      [] step = "init" -> "start" [] step = "framer" -> "data"
      [] step = "start" -> IF options.framer THEN "framer" ELSE "data"
SetUp ==
    /\ probe \in SetupSteps /\ m300' = SetTo(probe) /\ probe' = After(probe)
    /\ UNCHANGED <<options, readers, queue, tally, fate>>
SetUpThrows ==
    /\ probe \in SetupSteps \cup {"data"} /\ Trouble /\ probe' = "failed"
    /\ m300' \in {m300} \cup {SetTo(s): s \in {probe} \cap SetupSteps}
    /\ fate' = [fate EXCEPT !.spent = @ + 1] /\ UNCHANGED <<options, readers, queue, tally>>

\* ad9361_looks_initialized: a read that throws means no.
Check ==
    /\ probe = "check"
    /\ \E answered \in BOOLEAN:
          /\ ~answered => options.init = "auto" /\ Trouble
          /\ probe' = IF NeedsInit(answered) THEN "init" ELSE "start"
          /\ fate' = [fate EXCEPT !.spent = @ + IF answered THEN 0 ELSE 1]
    /\ UNCHANGED <<options, m300, readers, queue, tally>>

\* rx_iq_path_has_data, where the chip was taken on trust; then the reading begins.
HasData == m300.chip = "good"
DataThere ==
    /\ probe = "data" /\ UNCHANGED <<options, m300, tally, fate>>
    /\ IF ~options.test /\ options.init = "skip" /\ ~HasData
       THEN probe' = "failed" /\ UNCHANGED <<readers, queue>>
       ELSE /\ probe' = Way(options)
            /\ IF Way(options) = "threads"
               THEN readers' = [r \in 1..2 |->
                        [readers[r] EXCEPT !.at = IF r <= options.readers THEN "open" ELSE "none"]]
               ELSE UNCHANGED readers
            /\ UNCHANGED queue

-----------------------------------------------------------------------------
(* reading: through the transport, by a loop of reads, from the driver's ring *)

Enough == tally.count >= TotalReads
Want == IF probe = "loop" /\ Bulk < TotalReads - tally.count THEN Bulk
        ELSE IF probe = "loop" THEN TotalReads - tally.count ELSE 1
ReadsHere == probe \in {"transport", "loop"} \/ (probe = "ring" /\ m300.ring)
ReadOn ==
    /\ ReadsHere /\ ~Enough
    /\ \E g \in Given(Want):
          Gives(g) /\ Streamed(g) /\ Process(g.data, Spent(fate, g))
    /\ UNCHANGED <<options, probe, readers, queue>>

\* Mutant: a failed GET throws past the STOP.
ThrowsPast == m300' = m300
\* catch (...): the ring is stopped, whatever the ioctl says.
StopInCatch == m300' = [m300 EXCEPT !.ring = FALSE]
\* A failed read, a timeout, or a ring packet with a bad status.
ReadFails ==
    /\ ReadsHere /\ ~Enough /\ Trouble /\ StopInCatch /\ probe' = "failed"
    /\ fate' = [fate EXCEPT !.spent = @ + 1] /\ UNCHANGED <<options, readers, queue, tally>>
StartRing ==
    /\ probe = "ring" /\ ~m300.ring /\ ~Enough
    /\ \/ m300' = [m300 EXCEPT !.ring = TRUE] /\ UNCHANGED <<probe, fate>>
       \/ Trouble /\ probe' = "failed" /\ fate' = [fate EXCEPT !.spent = @ + 1] /\ UNCHANGED m300
    /\ UNCHANGED <<options, readers, queue, tally>>
StopRing ==
    /\ probe = "ring" /\ Enough
    /\ \/ m300' = [m300 EXCEPT !.ring = FALSE] /\ probe' = "finish" /\ UNCHANGED fate
       \/ /\ Trouble /\ probe' = "failed"
          /\ fate' = [fate EXCEPT !.spent = @ + 1, !.stopFailed = TRUE] /\ UNCHANGED m300
    /\ UNCHANGED <<options, readers, queue, tally>>
LoopEnds ==
    /\ probe \in {"transport", "loop"} /\ Enough /\ probe' = "finish"
    /\ UNCHANGED <<options, m300, readers, queue, tally, fate>>

-----------------------------------------------------------------------------
(* reading: by threads of its own, which take blocks in turn *)

\* Mutant: the last block, if not full, is not counted.
RoundedDown == TotalReads \div Bulk
Blocks == (TotalReads + Bulk - 1) \div Bulk
Smaller(a, b) == IF a < b THEN a ELSE b
BlockSize(b) == Smaller(Bulk, TotalReads - b * Bulk)
Goes(r, place) == readers' = [readers EXCEPT ![r].at = place]
Lost == [queue EXCEPT !.done = TRUE, !.error = TRUE]

\* The second reader opens the device again, which may not be allowed.
Open(r) ==
    /\ readers[r].at = "open"
    /\ \/ Goes(r, "claim") /\ UNCHANGED <<queue, fate>>
       \/ /\ r = 2 /\ Trouble /\ fate' = [fate EXCEPT !.spent = @ + 1]
          /\ queue' = Lost /\ Goes(r, "gone")
    /\ UNCHANGED <<options, m300, probe, tally>>

\* next_block.fetch_add(1)
Claim(r) ==
    /\ readers[r].at = "claim" /\ queue' = [queue EXCEPT !.next = @ + 1]
    /\ readers' = [readers EXCEPT ![r] =
          [at |-> IF queue.next >= Blocks THEN "last" ELSE "read", block |-> queue.next, data |-> <<>>]]
    /\ UNCHANGED <<options, m300, probe, tally, fate>>

ReadBlock(r) ==
    /\ readers[r].at = "read" /\ UNCHANGED <<options, probe, tally>>
    /\ \/ \E g \in Given(BlockSize(readers[r].block)):
             /\ Gives(g) /\ Streamed(g) /\ fate' = Spent(fate, g)
             /\ readers' = [readers EXCEPT ![r].at = "put", ![r].data = g.data]
             /\ UNCHANGED queue
       \/ /\ Trouble /\ fate' = [fate EXCEPT !.spent = @ + 1]
          /\ queue' = Lost /\ Goes(r, "gone") /\ UNCHANGED m300

\* Mutant: one place stays empty.
OneEmpty == Cardinality(DOMAIN queue.blocks) < Depth - 1
Room == Cardinality(DOMAIN queue.blocks) < Depth * options.readers
\* A block into the queue, once there is room; with the reading over it is dropped.
Put(r) ==
    /\ readers[r].at = "put" /\ UNCHANGED <<options, m300, probe, tally>>
    /\ IF queue.done
       THEN Goes(r, "gone") /\ fate' = [fate EXCEPT !.dropped = TRUE] /\ UNCHANGED queue
       ELSE /\ Room /\ Goes(r, "claim") /\ UNCHANGED fate
            /\ queue' = [queue EXCEPT !.blocks = (readers[r].block :> readers[r].data) @@ @]

\* No block is left to claim: the reading is over, whatever the other reader still has.
LastBlock(r) ==
    /\ readers[r].at = "last" /\ Goes(r, "gone") /\ queue' = [queue EXCEPT !.done = TRUE]
    /\ UNCHANGED <<options, m300, probe, tally, fate>>

Here == queue.wanted \in DOMAIN queue.blocks
\* The next block in turn, its place free and its packets measured.
Take ==
    /\ probe = "threads" /\ ~Enough /\ Here
    /\ Process(queue.blocks[queue.wanted], fate)
    /\ queue' = [queue EXCEPT !.wanted = @ + 1,
                     !.blocks = [b \in DOMAIN @ \ {queue.wanted} |-> @[b]]]
    /\ UNCHANGED <<options, m300, probe, readers>>
\* None, and none will come: an error is thrown, past a catch that ends the readers.
TakeNone ==
    /\ probe = "threads" /\ ~Enough /\ ~Here /\ (queue.done \/ queue.error)
    /\ probe' = IF queue.error THEN "joinFailed" ELSE "join"
    /\ queue' = [queue EXCEPT !.done = TRUE]
    /\ UNCHANGED <<options, m300, readers, tally, fate>>
TakenAll ==
    /\ probe = "threads" /\ Enough /\ probe' = "join"
    /\ UNCHANGED <<options, m300, readers, queue, tally, fate>>
\* Mutant: an error leaves without its threads.
NotJoined == probe = "joinFailed" \/ \A r \in 1..options.readers: readers[r].at = "gone"
Joined == \A r \in 1..options.readers: readers[r].at = "gone"
Join ==
    /\ probe \in {"join", "joinFailed"} /\ Joined
    /\ probe' = IF probe = "join" THEN "finish" ELSE "failed"
    /\ UNCHANGED <<options, m300, readers, queue, tally, fate>>

\* The report, then stop_rx unless --keep-running.
Finish ==
    /\ probe = "finish" /\ UNCHANGED <<options, readers, queue, tally>>
    /\ \/ /\ probe' = "done" /\ UNCHANGED fate
          /\ m300' = [m300 EXCEPT !.on = @ /\ options.keep]
       \/ /\ Trouble /\ probe' = "failed" /\ fate' = [fate EXCEPT !.spent = @ + 1] /\ UNCHANGED m300

ReaderStep(r) == Open(r) \/ Claim(r) \/ ReadBlock(r) \/ Put(r) \/ LastBlock(r)
ProbeNext ==
    \/ SetUp \/ SetUpThrows \/ Check \/ DataThere
    \/ ReadOn \/ ReadFails \/ StartRing \/ StopRing \/ LoopEnds
    \/ \E r \in 1..2: ReaderStep(r)
    \/ Take \/ TakeNone \/ TakenAll \/ Join \/ Finish

-----------------------------------------------------------------------------
(* properties *)

ProbeTypeOK ==
    /\ probe \in SetupSteps \cup {"check", "data", "transport", "loop", "ring", "threads",
                                  "join", "joinFailed", "finish", "done", "failed"}
    /\ \A r \in 1..2: readers[r].at \in {"none", "open", "claim", "read", "put", "last", "gone"}
    /\ tally.count \in 0..TotalReads /\ fate.spent \in 0..MaxSpent /\ Cardinality(DOMAIN queue.blocks) <= Blocks

First == fate.order[1]
Second == options.readers = 2 /\ Way(options) = "threads"
\* With one thread that reads, the packets lost and the packets measured add up to those
\* the device made meanwhile, unless a jump was past what counts as a loss or a whole
\* turn of the number (m300_rx_iq_probe.cpp:331).
LossesAddUp ==
    fate.order # <<>> /\ ~Second /\ tally.odd = 0 =>
        (tally.lost + Len(fate.order) - (tally.last - First + 1)) % SeqValues = 0
\* Without a jump or a gap all steps are alike: one packet after the other, or a whole
\* turn of the number lost at each (m300_rx_iq_probe.cpp:363).
CleanIsContiguous ==
    tally.jumps = 0 /\ tally.gaps = 0 =>
        LET step == IF Len(fate.order) > 1 THEN fate.order[2] - First ELSE 1
        IN  /\ step % SeqValues = 1
            /\ \A i \in DOMAIN fate.order: fate.order[i] = First + (i - 1) * step
\* A run that ends well has counted what it was told to read, unless its threads read
\* something that is no packet, or two of them raced for the end: the one that finds no
\* block left ends the other's, whose block, or error, nobody sees
\* (m300_rx_iq_probe.cpp:1067).
SuccessIsComplete ==
    /\ probe = "done" => Enough \/ (Way(options) = "threads" /\ (fate.bad \/ (Second /\ (fate.dropped \/ queue.error))))
    /\ fate.dropped => Second \/ queue.error
\* The readers and the one that takes do not wait for each other for ever, but for two
\* readers of which one fills the queue behind the other's block.
NobodyStuck ==
    ~Second => ~(/\ probe = "threads" /\ ~Enough /\ ~Here /\ ~queue.done
                 /\ \A r \in 1..2: readers[r].at = "none" \/ (readers[r].at = "put" /\ ~Room))
\* A program that has ended has no thread and no ring left, and a device that streams
\* only if it was told to leave it so or failed (m300_rx_iq_probe.cpp:948, 1114).
NothingLeft ==
    probe \in {"done", "failed"} =>
        /\ \A r \in 1..2: readers[r].at \in {"none", "gone"}
        /\ m300.ring => fate.stopFailed
        /\ probe = "done" /\ m300.on => options.keep
\* What is measured was sent as asked, whatever an earlier program had set: from the
\* source, in the size, framed unless that was declined, from a chip that is set up.
MeasuredAsAsked ==
    fate.order # <<>> =>
        /\ m300.on \/ probe \in {"done", "failed"}
        /\ m300.source = (IF options.test THEN "test" ELSE "iq") /\ m300.bytes = "asked"
        /\ options.framer => m300.framed = "asked"
        /\ ~options.test => m300.chip = "good"
\* Whatever the order of the options: threads and ring read directly, not both; the test
\* source touches neither chip nor framer; the last word on the transport counts.
OptionsAgree ==
    \A line \in SeqOf(DOMAIN Sets, 3):
        LET o == Settled(Parse(line))
            said == SelectSeq(line, LAMBDA w: w \in {"directRead", "rxDevice", "transportRead"})
        IN  /\ o.threads \/ o.ring => o.direct
            /\ ~(o.threads /\ o.ring)
            /\ o.test => o.init = "skip" /\ ~o.framer
            /\ said # <<>> => (o.direct <=> Last(said) # "transportRead")
ProbeHonest ==
    /\ LossesAddUp /\ CleanIsContiguous /\ SuccessIsComplete /\ NobodyStuck
    /\ NothingLeft /\ MeasuredAsAsked
    /\ probe = "stop" /\ options = Defaults => OptionsAgree
=============================================================================
