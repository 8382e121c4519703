----------------------------- MODULE RecordTools -----------------------------
(***************************************************************************)
(* Setting up, starting and ending a recording or a replay: the commands   *)
(* of the E-series classes and the programs that give them.  Sources:      *)
(* src/driver/E100/e100_impl.cpp (E100 and E206),                          *)
(* src/driver/E200/e200_impl.cpp, src/example/e100/e100_record_iq_test.cpp,*)
(* src/example/e200/e200_record_iq_test.cpp and their likes for the E206,  *)
(* src/example/e100/e100_replay_iq_test.cpp,                               *)
(* src/example/e200/e200_replay_iq_test.cpp (also built for the E206).     *)
(*                                                                         *)
(* How a chunk goes over the network is RecordReplay's: here it arrives    *)
(* whole or its call throws.  A unit is a DMA block.                       *)
(***************************************************************************)
EXTENDS Integers, Sequences

CONSTANTS
    Length,         \* blocks of the recording or the waveform
    WarmLength,     \* blocks of the recording that is thrown away first
    MaxTakes,       \* bound: recordings one program makes
    MaxTroubles     \* bound: commands and data lost, recordings cut short

ToolParameters ==
    /\ Length \in Nat \ {0} /\ WarmLength \in Nat \ {0}
    /\ MaxTakes \in Nat \ {0} /\ MaxTroubles \in Nat

VARIABLES
    unit,           \* the device: recorder, replay, amplifier, where record data goes
    program,        \* where the program is and what it was told on its command line
    files,          \* the recordings it reported saved, each a sequence of blocks
    mishap          \* troubles so far; a start without its answer; the last stop

toolVars == <<unit, program, files, mishap>>

Kinds == {"E100", "E206", "E200"}

-----------------------------------------------------------------------------
(* checks and conversions *)

\* Record and replay lengths the drivers refuse, in MiB.
MaxMiB(kind) == IF kind = "E200" THEN 256 ELSE 240
RefusedRecord(kind, mib) == mib < 4 \/ mib > MaxMiB(kind) \/ mib % 4 # 0
RefusedReplay(kind, mib) == mib = 0 \/ mib > MaxMiB(kind)
\* What the programs accept: one limit for each product they are built for.
ToolRecords(kind, mib) == mib >= 4 /\ mib <= (IF kind = "E200" THEN 256 ELSE 240) /\ mib % 4 = 0
\* Mutant: the program shared by E200 and E206 has the limit of the E200.
SharedLimit(kind, mib) == mib # 0 /\ mib <= (IF kind = "E100" THEN 240 ELSE 256)
ToolReplays(kind, mib) == mib # 0 /\ mib <= (IF kind = "E200" THEN 256 ELSE 240)

\* The rates of the E100 and the E206, in units of 0.96 MHz.
LegacyRates == <<2, 4, 6, 8, 12, 16, 24, 32, 64, 128>>
\* Mutant: a negative rate is converted as it is, to an unsigned integer.
AsUnsigned(rate) == rate % 65536
Requested(rate) == IF rate <= 0 THEN 0 ELSE rate
\* min_element: the first of the nearest.
NearestRate(rate) ==
    LET Delta(k) == IF LegacyRates[k] > Requested(rate) THEN LegacyRates[k] - Requested(rate)
                    ELSE Requested(rate) - LegacyRates[k]
    IN  LegacyRates[CHOOSE k \in DOMAIN LegacyRates: \A j \in DOMAIN LegacyRates:
            Delta(k) <= Delta(j) /\ (j < k => Delta(k) < Delta(j))]

\* Mutant: the buffer is kept while the program waits, on every product.
BufferKept(kind) == FALSE
\* E100 gives the send buffer back, which sends it, before the pause.
SendsBeforePause(kind) == kind = "E100"
\* send_replay_iq_payload: the packets and the pauses between them, in order of time.
Paced(kind, packets) ==
    LET Turn(p) == IF p = packets THEN <<p>>
                   ELSE IF SendsBeforePause(kind) THEN <<p, 0>> ELSE <<0, p>>
        f[p \in 0..packets] == IF p = 0 THEN <<>> ELSE f[p - 1] \o Turn(p)
    IN  f[packets]

-----------------------------------------------------------------------------
(* the device, as far as src/ uses it *)

ToolInit ==
    /\ \E kind \in Kinds, task \in {"record", "replay"}, warm, amp \in BOOLEAN, takes \in 1..MaxTakes:
         /\ takes > 1 => kind = "E200" /\ task = "record"
         /\ warm => task = "record"
         /\ amp => task = "replay" /\ kind = "E100"
         /\ program = [kind |-> kind, task |-> task, at |-> "open", warm |-> warm, takes |-> takes,
                       amp |-> amp, got |-> <<>>, before |-> 0, stop |-> FALSE, armed |-> FALSE]
    /\ \E amp \in BOOLEAN:
         unit = [path |-> FALSE, length |-> 0, state |-> "idle", take |-> 0, captured |-> 0,
                 readAt |-> 0, playing |-> FALSE, replay |-> 0, stored |-> 0, amp |-> amp]
    /\ files = <<>>
    /\ mishap = [troubles |-> 0, startLost |-> FALSE, lastStop |-> "none"]

Trouble == mishap.troubles < MaxTroubles
At(place) == program.at = place
To(place) == [program EXCEPT !.at = place]
\* An exception leaves main's block; a guard that is armed runs first.
Thrown == To(IF program.armed THEN "unwinding" ELSE "failed")

\* Starting with 0 takes the length set before.
Started(n) == [unit EXCEPT !.length = IF n = 0 THEN @ ELSE n, !.state = "active",
                           !.take = @ + 1, !.captured = 0, !.readAt = 0]
\* The recording goes on, ends, ends early or fails.
Capture ==
    /\ unit.state = "active"
    /\ \/ /\ unit' = [unit EXCEPT !.captured = @ + 1,
                                  !.state = IF unit.captured + 1 = unit.length THEN "done" ELSE @]
          /\ UNCHANGED mishap
       \/ /\ Trouble /\ mishap' = [mishap EXCEPT !.troubles = @ + 1]
          /\ \E s \in {"done", "error"}: unit' = [unit EXCEPT !.state = s]
    /\ UNCHANGED <<program, files>>

\* A command on the control bus: answered; or it, or its answer, is lost, or the
\* device refuses it, and the call throws.
Command(after, then) ==
    /\ UNCHANGED files
    /\ \/ unit' = after /\ program' = then /\ UNCHANGED mishap
       \/ /\ Trouble /\ program' = Thrown
          /\ unit' \in {unit, after}
          /\ mishap' = [mishap EXCEPT !.troubles = @ + 1,
                                      !.startLost = @ \/ (At("startReplay") /\ unit' = after)]

-----------------------------------------------------------------------------
(* opening the device *)

\* Mutant: the split protocol is taken for the joined one.
NeverHello(kind) == FALSE
\* Record data goes to where a packet on the record port came from.
NeedsHello(kind) == kind # "E100"
\* A hello arrives or is lost; it is not answered.
Hello ==
    IF NeedsHello(program.kind)
    THEN \/ unit' = [unit EXCEPT !.path = TRUE] /\ UNCHANGED mishap
         \/ /\ Trouble /\ UNCHANGED unit
            /\ mishap' = [mishap EXCEPT !.troubles = @ + 1]
    ELSE UNCHANGED <<unit, mishap>>

Open == At("open") /\ Hello /\ program' = To("radio") /\ UNCHANGED files
\* configure_rf, configure_tx: settings, each read back.
SetRadio ==
    /\ At("radio")
    /\ Command(unit, To(IF program.task = "record" THEN "block"
                        ELSE IF program.kind = "E100" THEN "amp" ELSE "replayLength"))

-----------------------------------------------------------------------------
(* recording *)

Wanted == IF program.warm THEN WarmLength ELSE Length
\* configure_iq_record: the block size, then the length.
SetBlock == At("block") /\ Command(unit, To("length"))
SetLength == At("length") /\ Command([unit EXCEPT !.length = Wanted], To("start"))
StartRecord == At("start") /\ Command(Started(0), [To("wait") EXCEPT !.got = <<>>])

\* Mutant: an idle or running recorder is taken for done.
NotError(state) == state # "error"
RecordDone(state) == state = "done"
\* wait_record_done: polled until done, or an error, or it takes too long.
WaitDone ==
    /\ At("wait") /\ RecordDone(unit.state)
    /\ Command(unit, To(IF program.kind = "E200" /\ ~program.warm THEN "before" ELSE "read"))
WaitFails ==
    /\ At("wait") /\ program' = Thrown /\ UNCHANGED <<unit, files>>
    /\ \/ unit.state = "error" /\ UNCHANGED mishap
       \/ unit.state = "active" /\ Trouble /\ mishap' = [mishap EXCEPT !.troubles = @ + 1]
\* E200: what has been read so far, kept until after the reading.
Before == At("before") /\ Command(unit, [To("read") EXCEPT !.before = unit.readAt])

\* read_iq_record_chunk: on an E100 the request itself shows the way for the data,
\* else a hello.  No more chunks, the data, or an exception when it does not come.
SayHello == At("read") /\ Len(program.got) < Wanted /\ Hello /\ program' = To("chunk") /\ UNCHANGED files
ReadChunk ==
    /\ At("chunk") /\ UNCHANGED files
    /\ \/ unit.readAt = unit.captured /\ program' = To("compare") /\ UNCHANGED <<unit, mishap>>
       \/ /\ unit.readAt < unit.captured /\ (program.kind = "E100" \/ unit.path)
          /\ unit' = [unit EXCEPT !.readAt = @ + 1]
          /\ program' = [To("read") EXCEPT !.got =
                            Append(@, [take |-> unit.take, place |-> unit.readAt + 1])]
          /\ UNCHANGED mishap
       \/ /\ unit.readAt < unit.captured /\ program.kind # "E100" /\ ~unit.path
          /\ unit' = [unit EXCEPT !.readAt = @ + 1] /\ program' = Thrown /\ UNCHANGED mishap
       \/ /\ Trouble /\ mishap' = [mishap EXCEPT !.troubles = @ + 1]
          /\ unit' \in {unit, [unit EXCEPT !.readAt = IF @ < unit.captured THEN @ + 1 ELSE @]}
          /\ program' = Thrown
ReadEnough == At("read") /\ Len(program.got) >= Wanted /\ program' = To("compare") /\ UNCHANGED <<unit, files, mishap>>

\* Mutant: what was read is kept, however short.
AnyLength == TRUE
LengthRight == Len(program.got) = Wanted
Compare ==
    /\ At("compare") /\ UNCHANGED <<unit, mishap>>
    /\ IF ~LengthRight THEN program' = Thrown /\ UNCHANGED files
       ELSE IF program.warm
       THEN program' = [To("block") EXCEPT !.warm = FALSE] /\ UNCHANGED files
       ELSE IF program.kind = "E200" THEN program' = To("after") /\ UNCHANGED files
       ELSE program' = To("ended") /\ files' = Append(files, program.got)
\* E200: nothing had been read before, and all of it now; then the next recording,
\* of the same length.
After ==
    /\ At("after")
    /\ IF program.before = 0 /\ unit.readAt = Length
       THEN /\ files' = Append(files, program.got) /\ UNCHANGED <<unit, mishap>>
            /\ program' = IF Len(files') < program.takes THEN To("start") ELSE To("ended")
       ELSE program' = Thrown /\ UNCHANGED <<unit, files, mishap>>
AfterLost ==
    /\ At("after") /\ Trouble /\ program' = Thrown
    /\ mishap' = [mishap EXCEPT !.troubles = @ + 1] /\ UNCHANGED <<unit, files>>

-----------------------------------------------------------------------------
(* replaying *)

\* Mutant: the amplifier's state is not read back.
NotReadBack == TRUE
ReadBack == unit'.amp = program.amp
\* set_amp_enable: a poke, whose status nobody looks at, and the readback.
SetAmp ==
    /\ At("amp") /\ UNCHANGED files
    /\ \/ /\ unit' = [unit EXCEPT !.amp = program.amp] /\ UNCHANGED mishap
          /\ program' = To("replayLength")
       \/ /\ Trouble /\ unit' = unit /\ mishap' = [mishap EXCEPT !.troubles = @ + 1]
          /\ program' = IF ReadBack THEN To("replayLength") ELSE Thrown
       \/ /\ Trouble /\ unit' \in {unit, [unit EXCEPT !.amp = program.amp]} /\ program' = Thrown
          /\ mishap' = [mishap EXCEPT !.troubles = @ + 1]

ConfigureReplay ==
    At("replayLength") /\ Command([unit EXCEPT !.replay = Length], To("startReplay"))
\* Mutant: no guard.
NoGuard(kind) == FALSE
\* ReplayStopGuard, armed once the start is answered; the E100's program has none.
Guarded(kind) == kind # "E100"
StartReplay ==
    /\ At("startReplay")
    /\ Command([unit EXCEPT !.playing = TRUE, !.stored = 0],
               [To("upload") EXCEPT !.armed = Guarded(program.kind)])
\* Mutant: the last chunk is left out.
OneShort == unit.stored >= unit.replay - 1
Uploaded == unit.stored >= unit.replay
\* write_iq_replay_chunk: the next place from the device, the data, and as many bytes
\* acknowledged; after the last one the place once more.
WriteChunk ==
    /\ At("upload") /\ ~Uploaded /\ ~program.stop
    /\ Command([unit EXCEPT !.stored = @ + 1], program)
UploadEnds == At("upload") /\ Uploaded /\ Command(unit, To("replaying"))

\* Ctrl-C: E200 and E206 set a flag, looked at before every chunk and while the
\* replay runs; the E100's program dies of it.
Interrupt ==
    /\ program.task = "replay" /\ ~program.stop
    /\ program.at \in {"radio", "amp", "replayLength", "startReplay", "upload", "replaying"}
    /\ program' = IF program.kind = "E100" THEN To("killed") ELSE [program EXCEPT !.stop = TRUE]
    /\ UNCHANGED <<unit, files, mishap>>
Interrupted == At("upload") /\ ~Uploaded /\ program.stop /\ program' = To("stop") /\ UNCHANGED <<unit, files, mishap>>
ReplayOver ==
    /\ At("replaying") /\ (program.kind = "E100" \/ program.stop)
    /\ program' = To("stop") /\ UNCHANGED <<unit, files, mishap>>
\* E100: the waveform again, as often as asked.
Repeat == At("replaying") /\ program.kind = "E100" /\ Command(unit, To("replaying"))

\* Mutant: disarmed before the stop.
DisarmedFirst == FALSE
\* The guard stays armed until the stop is answered.
StillArmed == program.armed
\* stop_iq_replay, by the program or by the guard, which swallows its exception.
StopReplay ==
    /\ program.at \in {"stop", "unwinding"} /\ UNCHANGED files
    /\ LET over == IF At("stop") THEN "ended" ELSE "failed"
           again == IF At("stop") /\ StillArmed THEN "unwinding" ELSE "failed"
       IN  \/ /\ unit' = [unit EXCEPT !.playing = FALSE]
              /\ program' = [To(over) EXCEPT !.armed = FALSE]
              /\ mishap' = [mishap EXCEPT !.lastStop = "done"]
           \/ /\ Trouble /\ \E p \in {unit.playing, FALSE}: unit' = [unit EXCEPT !.playing = p]
              /\ program' = [To(again) EXCEPT !.armed = StillArmed]
              /\ mishap' = [mishap EXCEPT !.troubles = @ + 1, !.lastStop = "lost"]

ToolNext ==
    \/ Capture \/ Open \/ SetRadio \/ SetBlock \/ SetLength \/ StartRecord
    \/ WaitDone \/ WaitFails \/ Before \/ SayHello \/ ReadChunk \/ ReadEnough
    \/ Compare \/ After \/ AfterLost
    \/ SetAmp \/ ConfigureReplay \/ StartReplay \/ WriteChunk \/ UploadEnds
    \/ Interrupt \/ Interrupted \/ ReplayOver \/ Repeat \/ StopReplay

-----------------------------------------------------------------------------
(* properties *)

ToolTypeOK ==
    /\ program.kind \in Kinds /\ program.task \in {"record", "replay"}
    /\ unit.readAt \in 0..unit.captured /\ unit.captured \in 0..(Length + WarmLength)
    /\ unit.state \in {"idle", "active", "done", "error"}
    /\ mishap.troubles \in 0..MaxTroubles /\ Len(files) \in 0..MaxTakes

\* A recording reported saved is one take, whole and in order, never the warm-up
\* or the recording before, however short the device ended it
\* (e200_record_iq_test.cpp:256, 341).
FileIsRecording ==
    /\ \A f \in DOMAIN files:
         /\ Len(files[f]) = Length
         /\ \A k \in 1..Length: files[f][k] = [take |-> files[f][1].take, place |-> k]
    /\ \A f, g \in DOMAIN files: f < g => files[f][1].take < files[g][1].take

\* A program only fails when something was lost, refused or cut short: with every
\* answer there, the commands of a product suffice (e100_impl.cpp:126, 252).
FailsOnlyOnTrouble == At("failed") => mishap.troubles > 0

\* A program that ended well leaves the transmitter quiet.  One that failed does
\* too, E200 and E206, unless the answer to its start was lost, when no guard is
\* armed yet, or a stop was lost besides something else (e200_replay_iq_test.cpp:509).
AirIsQuiet ==
    /\ At("ended") => ~unit.playing
    /\ At("failed") /\ program.kind # "E100" /\ unit.playing =>
         mishap.startLost \/ (mishap.lastStop = "lost" /\ mishap.troubles > 1)
\* What runs as "the waveform" is all of it, and the amplifier is as it was asked.
ReplaysAsAsked ==
    /\ At("replaying") => unit.stored = Length /\ unit.playing
    /\ program.kind = "E100" /\ program.at \in {"replayLength", "startReplay", "upload", "replaying"}
         => unit.amp = program.amp

\* No length the programs accept is refused by the driver behind them.
LengthsAgree ==
    \A kind \in Kinds, mib \in 0..300:
        /\ ToolRecords(kind, mib) => ~RefusedRecord(kind, mib)
        /\ ToolReplays(kind, mib) => ~RefusedReplay(kind, mib)
\* A higher rate asked for never gives a lower one, and a rate of the table is kept.
RatesInOrder ==
    /\ \A a \in -3..140: NearestRate(a) <= NearestRate(a + 1)
    /\ \A k \in DOMAIN LegacyRates: NearestRate(LegacyRates[k]) = LegacyRates[k]
\* Packets go out in order.  On an E100 a pause lies between any two, as its comment
\* asks; on the others between all but the last two (e100_impl.cpp:485).
PausesKept ==
    \A kind \in Kinds, n \in 0..5:
        LET sent == Paced(kind, n) IN
        /\ SelectSeq(sent, LAMBDA p: p # 0) = [p \in 1..n |-> p]
        /\ \A k \in 1..Len(sent) - 1:
             sent[k] # 0 /\ sent[k + 1] # 0 => kind # "E100" /\ k + 1 = Len(sent)
\* The last three do not depend on the state: the first states suffice.
RecordToolsRight ==
    /\ FileIsRecording /\ FailsOnlyOnTrouble /\ AirIsQuiet /\ ReplaysAsAsked
    /\ At("open") => LengthsAgree /\ RatesInOrder /\ PausesKept
=============================================================================
