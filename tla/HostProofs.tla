----------------------------- MODULE HostProofs -----------------------------
(* Proofs about host programs, for every set of rates, settings, threads and  *)
(* streamers and every number of calls and failures.                          *)
(* GNU Radio: no setter waits for ever, and a block whose flag is clear has   *)
(* its settings applied.  UHD: what streamers believe of the device is so,    *)
(* sends continue, rate changes keep the time and end with one rate, and the  *)
(* kept reference is the device's.  SDR++ and SDRangel: a thread is joined    *)
(* before the next, a stopped source is quiet, and what is shown is so.       *)
(* HDSDR: a buffer a start did not give out twice is in one place, no block   *)
(* is slept through, a closed source has no threads but those a start gave up *)
(* on, and the device has a frequency asked for, never an older one.          *)
(* SoapySDR: no threads wait in a circle, and a rate change keeps the streams *)
(* and the time base.                                                         *)
EXTENDS GnuRadio, UhdStreams, UhdRate, FiniteSetTheorems, FunctionTheorems,
    SequenceTheorems, WellFoundedInduction, TLAPS

CONSTANTS
    MaxClicks, MaxSdrppErrors,              \* bounds of SdrppSource
    MaxAsked, MaxExceptions,                \* bounds of SdrangelInput
    Sources, MaxSwitches, MaxTroubles,      \* as in ClockReference
    LoTunings, NumBuffers, MaxHdsdrCalls, MaxHdsdrFails,    \* those of HdsdrExtIo
    SoapyRates, MaxSoapyCalls, MaxTransfers, MaxSoapyFails  \* as in SoapyDevice

VARIABLES
    module, thread, held, rx, pipe, spent,              \* SdrppSource
    input, worker, rig, shown,                          \* SdrangelInput
    uhd, board, sensor, unsure, switched,               \* ClockReference
    window, radio, flags, tune, receiver, cb, cbNow, free, filled, asks, budget, \* HdsdrExtIo
    threads, active, rateKept, native, soapyHist        \* SoapyDevice

Sdrpp == INSTANCE SdrppSource WITH MaxErrors <- MaxSdrppErrors
Sdrangel == INSTANCE SdrangelInput
Clock == INSTANCE ClockReference WITH used <- switched
Hdsdr == INSTANCE HdsdrExtIo WITH
    gui <- window, dev <- radio, rx <- receiver, hist <- asks,
    Tunings <- LoTunings, MaxCalls <- MaxHdsdrCalls, MaxFails <- MaxHdsdrFails
Soapy == INSTANCE SoapyDevice

-----------------------------------------------------------------------------
(* GnuRadio *)


\* The rate the context remembers is the device's unless a rate command failed.
RateRemembered == context.common /\ ~hist.unsure => dev.rate = context.rate

\* Where a thread is and what its block streams; a setter under way belongs to a
\* block that does not stream and does not start.
Threads ==
    /\ \A b \in Blocks:
          /\ block[b].streaming <=> block[b].at \notin {"stopped", "start", "arm"}
          /\ block[b].at \in {"apply", "clear", "retry"} => block[b].dirty
          /\ block[b].at = "arm" => ~block[b].dirty
    /\ gui.at # "idle" => block[gui.block].at = "stopped"

\* A copy that is applied, and whose flag is about to be cleared.
CopyApplied ==
    \A b \in Blocks: block[b].at = "clear" =>
        /\ dev.freq[b] = block[b].snap.freq
        /\ hist.last = b /\ ~hist.unsure => dev.rate = block[b].snap.rate

\* A block between its configuration and the start of its stream.
ArmedIsApplied ==
    \A b \in Blocks: block[b].at = "arm" =>
        /\ dev.freq[b] = block[b].freq
        /\ hist.last = b /\ ~hist.unsure => dev.rate = block[b].rate

Shapes ==
    /\ block \in [Blocks -> BlockStates] /\ dev \in [rate: Rates, freq: [Blocks -> Tunings]]
    /\ context \in [common: BOOLEAN, rate: Rates]
    /\ gui \in [at: {"idle", "set_rate", "set_freq"}, block: Blocks]
    /\ hist \in [last: Blocks \cup {"none"}, unsure: BOOLEAN]

GnuInv == Shapes /\ RateRemembered /\ Threads /\ CopyApplied /\ ArmedIsApplied /\ CleanIsApplied

-----------------------------------------------------------------------------

\* The initial states satisfy the invariant.
LEMMA InitInv ==
    ASSUME GnuRadioParameters, GnuRadioInit
    PROVE  GnuInv
<1>1. AnyRate \in Rates /\ AnyTuning \in Tunings
  BY DEF GnuRadioParameters, AnyRate, AnyTuning
<1>2. Fresh \in BlockStates BY <1>1 DEF Fresh, NoCopy, BlockStates
<1>3. block \in [Blocks -> BlockStates] BY <1>2 DEF GnuRadioInit
<1>4. /\ dev \in [rate: Rates, freq: [Blocks -> Tunings]]
      /\ context \in [common: BOOLEAN, rate: Rates]
  BY <1>1 DEF GnuRadioInit
<1>5. gui \in [at: {"idle", "set_rate", "set_freq"}, block: Blocks]
  BY DEF GnuRadioInit, NoSetter, Blocks
<1>6. hist \in [last: Blocks \cup {"none"}, unsure: BOOLEAN] BY DEF GnuRadioInit
<1>7. \A b \in Blocks: block[b].at = "stopped" /\ block[b].streaming = FALSE
  BY DEF GnuRadioInit, Fresh
<1>8. Threads /\ CopyApplied /\ ArmedIsApplied /\ CleanIsApplied
  BY <1>7 DEF GnuRadioInit, NoSetter, Threads, CopyApplied, ArmedIsApplied, CleanIsApplied
<1>9. RateRemembered BY DEF GnuRadioInit, RateRemembered
<1> QED BY <1>3, <1>4, <1>5, <1>6, <1>8, <1>9 DEF GnuInv, Shapes

\* What a configuration that worked does to the device and to the context.
LEMMA ConfiguredDoes ==
    ASSUME GnuInv, NEW b \in Blocks, NEW r \in Rates, NEW f \in Tunings, Configured(b, r, f)
    PROVE  /\ dev' \in [rate: Rates, freq: [Blocks -> Tunings]]
           /\ context' \in [common: BOOLEAN, rate: Rates]
           /\ hist' \in [last: Blocks \cup {"none"}, unsure: BOOLEAN]
           /\ RateRemembered'
           /\ hist'.last = b /\ dev'.freq[b] = f /\ (~hist'.unsure => dev'.rate = r)
           /\ \A d \in Blocks: d # b => dev'.freq[d] = dev.freq[d]
<1>1. context' = [common |-> TRUE, rate |-> r]
      /\ hist' = [last |-> b, unsure |-> hist.unsure /\ RateSkipped(r)]
      /\ dev' = [rate |-> RateNow(r), freq |-> [dev.freq EXCEPT ![b] = f]]
  BY DEF Configured, CommonConfigured
<1>2. RateNow(r) \in Rates BY DEF RateNow, GnuInv, Shapes
<1>3. (hist.unsure /\ RateSkipped(r)) \in BOOLEAN OBVIOUS
<1>4. hist' \in [last: Blocks \cup {"none"}, unsure: BOOLEAN] BY <1>1, <1>3
<1>5. ~(hist.unsure /\ RateSkipped(r)) => RateNow(r) = r
  BY DEF RateNow, RateSkipped, GnuInv, RateRemembered
<1> QED BY <1>1, <1>2, <1>4, <1>5 DEF GnuInv, Shapes, RateRemembered

\* What one that failed may have done.
LEMMA FailedDoes ==
    ASSUME GnuInv, NEW b \in Blocks, NEW r \in Rates, NEW f \in Tunings, CommandFailed(b, r, f)
    PROVE  /\ dev' \in [rate: Rates, freq: [Blocks -> Tunings]]
           /\ context' \in [common: BOOLEAN, rate: Rates]
           /\ hist' \in [last: Blocks \cup {"none"}, unsure: BOOLEAN]
           /\ RateRemembered'
           /\ hist'.unsure \/ hist'.last = b
           /\ \A d \in Blocks: d # b => dev'.freq[d] = dev.freq[d]
<1>1. CASE /\ UNCHANGED context /\ hist' = [hist EXCEPT !.unsure = TRUE]
           /\ \E now \in {dev.rate, r}: dev' = [dev EXCEPT !.rate = now]
  BY <1>1 DEF GnuInv, Shapes, RateRemembered
<1>2. CASE /\ CommonConfigured(b, r)
           /\ \E now \in {dev.freq[b], f}:
                 dev' = [rate |-> RateNow(r), freq |-> [dev.freq EXCEPT ![b] = now]]
  <2>1. PICK now \in Tunings:
            dev' = [rate |-> RateNow(r), freq |-> [dev.freq EXCEPT ![b] = now]]
    BY <1>2 DEF GnuInv, Shapes
  <2>2. context' = [common |-> TRUE, rate |-> r]
        /\ hist' = [last |-> b, unsure |-> hist.unsure /\ RateSkipped(r)]
    BY <1>2 DEF CommonConfigured
  <2>3. RateNow(r) \in Rates BY DEF RateNow, GnuInv, Shapes
  <2>4. (hist.unsure /\ RateSkipped(r)) \in BOOLEAN OBVIOUS
  <2>5. hist' \in [last: Blocks \cup {"none"}, unsure: BOOLEAN] BY <2>2, <2>4
  <2>6. ~(hist.unsure /\ RateSkipped(r)) => RateNow(r) = r
    BY DEF RateNow, RateSkipped, GnuInv, RateRemembered
  <2> QED BY <2>1, <2>2, <2>3, <2>5, <2>6 DEF GnuInv, Shapes, RateRemembered
<1> QED BY <1>1, <1>2 DEF CommandFailed

-----------------------------------------------------------------------------
(* A step of one block: what its record must satisfy afterwards.              *)

\* For the record t of block b, with the device as it is then.
Fits(t, b) ==
    /\ t.streaming <=> t.at \notin {"stopped", "start", "arm"}
    /\ t.at \in {"apply", "clear", "retry"} => t.dirty
    /\ t.at = "arm" => ~t.dirty
    /\ gui.at # "idle" /\ gui.block = b => t.at = "stopped"
    /\ t.at = "clear" => /\ dev.freq[b] = t.snap.freq
                         /\ hist.last = b /\ ~hist.unsure => dev.rate = t.snap.rate
    /\ t.at = "arm" \/ (t.streaming /\ ~t.dirty) =>
          /\ dev.freq[b] = t.freq
          /\ hist.last = b /\ ~hist.unsure => dev.rate = t.rate

\* The four parts of the invariant about blocks, block by block.
LEMMA AllFit ==
    ASSUME Shapes
    PROVE  Threads /\ CopyApplied /\ ArmedIsApplied /\ CleanIsApplied
           <=> \A b \in Blocks: Fits(block[b], b)
BY DEF Shapes, Threads, CopyApplied, ArmedIsApplied, CleanIsApplied, Fits

\* A step that changes one block's record only.
LEMMA BlockStepKeeps ==
    ASSUME GnuInv, NEW b \in Blocks, UNCHANGED <<context, dev, gui, hist>>,
           NEW t \in BlockStates, block' = [block EXCEPT ![b] = t], Fits(t, b)
    PROVE  GnuInv'
<1>1. Shapes' BY DEF GnuInv, Shapes
<1>2. \A d \in Blocks: Fits(block[d], d) BY AllFit DEF GnuInv
<1>3. \A d \in Blocks: Fits(block[d], d)' BY <1>2 DEF Fits, GnuInv, Shapes
<1>4. RateRemembered' BY DEF GnuInv, RateRemembered
<1>5. (Threads /\ CopyApplied /\ ArmedIsApplied /\ CleanIsApplied)'
  BY <1>1, <1>3 DEF Shapes, Threads, CopyApplied, ArmedIsApplied, CleanIsApplied, Fits
<1> QED BY <1>1, <1>4, <1>5 DEF GnuInv

\* Every step of a block's thread that sends no command.
LEMMA ThreadStepKeeps ==
    ASSUME GnuRadioParameters, GnuInv, NEW b \in Blocks,
           \/ Start(b) \/ StartStream(b) \/ Stop(b) \/ StopStream(b) \/ CopySettings(b)
           \/ ClearDirty(b) \/ DelayRetry(b) \/ Transfer(b)
    PROVE  GnuInv'
<1> DEFINE old == block[b]
<1>1. UNCHANGED <<context, dev, gui, hist>>
  BY DEF Start, StartStream, Stop, StopStream, CopySettings, ClearDirty, DelayRetry, Transfer
<1>2. old \in BlockStates /\ Fits(old, b) BY AllFit DEF GnuInv, Shapes
<1>3. NoCopy \in [rate: Rates, freq: Tunings]
  BY DEF GnuRadioParameters, NoCopy, AnyRate, AnyTuning
<1>a. block \in [Blocks -> BlockStates] BY DEF GnuInv, Shapes
<1>4. CASE Start(b)
  <2> DEFINE t == [old EXCEPT !.at = "start"]
  <2>1. t \in BlockStates BY <1>2 DEF BlockStates
  <2>2. block' = [block EXCEPT ![b] = t] BY <1>4, <1>a DEF Start, ThreadTo
  <2>3. Fits(t, b) BY <1>2, <1>4 DEF Fits, Start, MutexFree, BlockStates
  <2> QED BY <1>1, <2>1, <2>2, <2>3, BlockStepKeeps
<1>5. CASE Stop(b)
  <2> DEFINE t == [old EXCEPT !.at = "stop"]
  <2>1. t \in BlockStates BY <1>2 DEF BlockStates
  <2>2. block' = [block EXCEPT ![b] = t] BY <1>5, <1>a DEF Stop, ThreadTo
  <2>3. Fits(t, b) BY <1>2, <1>5 DEF Fits, Stop, MutexFree, BlockStates
  <2> QED BY <1>1, <2>1, <2>2, <2>3, BlockStepKeeps
<1>6. CASE StopStream(b)
  <2> DEFINE t == [old EXCEPT !.at = "stopped", !.streaming = FALSE]
  <2>1. t \in BlockStates BY <1>2 DEF BlockStates
  <2>2. block' = [block EXCEPT ![b] = t] BY <1>6, <1>a DEF StopStream
  <2>3. Fits(t, b) BY <1>2, <1>6 DEF Fits, StopStream, BlockStates
  <2> QED BY <1>1, <2>1, <2>2, <2>3, BlockStepKeeps
<1>7. CASE CopySettings(b)
  <2>1. CASE old.dirty /\ block' = [block EXCEPT ![b].at = "apply", ![b].snap = Wanted(b)]
    <3> DEFINE t == [old EXCEPT !.at = "apply", !.snap = Wanted(b)]
    <3>1. t \in BlockStates BY <1>2 DEF BlockStates, Wanted
    <3>2. block' = [block EXCEPT ![b] = t] BY <2>1, <1>a
    <3>3. Fits(t, b) BY <1>2, <1>7, <2>1 DEF Fits, CopySettings, MutexFree, BlockStates
    <3> QED BY <1>1, <3>1, <3>2, <3>3, BlockStepKeeps
  <2>2. CASE ThreadTo(b, "run")
    <3> DEFINE t == [old EXCEPT !.at = "run"]
    <3>1. t \in BlockStates BY <1>2 DEF BlockStates
    <3>2. block' = [block EXCEPT ![b] = t] BY <2>2, <1>a DEF ThreadTo
    <3>3. Fits(t, b) BY <1>2, <1>7 DEF Fits, CopySettings, MutexFree, BlockStates
    <3> QED BY <1>1, <3>1, <3>2, <3>3, BlockStepKeeps
  <2> QED BY <1>7, <2>1, <2>2 DEF CopySettings
<1>8. CASE ClearDirty(b)
  <2>1. old.at = "clear" /\ old.dirty BY <1>2, <1>8 DEF ClearDirty, Fits
  <2>2. CASE CopyIsCurrent(b)
    <3> DEFINE t == [old EXCEPT !.at = "run", !.snap = NoCopy, !.dirty = FALSE,
                                !.delayed = FALSE]
    <3>1. t \in BlockStates BY <1>2, <1>3 DEF BlockStates
    <3>2. block' = [block EXCEPT ![b] = t] BY <1>8, <2>2, <1>a DEF ClearDirty
    <3>3. Fits(t, b)
      BY <1>2, <1>8, <2>1, <2>2 DEF Fits, ClearDirty, MutexFree, BlockStates, CopyIsCurrent,
         Wanted
    <3> QED BY <1>1, <3>1, <3>2, <3>3, BlockStepKeeps
  <2>3. CASE ~CopyIsCurrent(b)
    <3> DEFINE t == [old EXCEPT !.at = "run", !.snap = NoCopy]
    <3>1. t \in BlockStates BY <1>2, <1>3 DEF BlockStates
    <3>2. block[b].dirty \in BOOLEAN /\ block[b].delayed \in BOOLEAN
      BY <1>2 DEF BlockStates
    <3>3. (block[b].dirty /\ ~CopyIsCurrent(b)) = block[b].dirty
          /\ (block[b].delayed /\ ~CopyIsCurrent(b)) = block[b].delayed
      BY <2>3, <3>2
    <3>4. block' = [block EXCEPT ![b] = t]
      <4>1. block' = [block EXCEPT ![b].at = "run", ![b].snap = NoCopy,
                        ![b].dirty = block[b].dirty, ![b].delayed = block[b].delayed]
        BY <1>8, <1>a, <3>3 DEF ClearDirty
      <4> QED BY <4>1, <1>a DEF BlockStates
    <3>5. Fits(t, b) BY <1>2, <1>8, <2>1 DEF Fits, ClearDirty, MutexFree, BlockStates
    <3> QED BY <1>1, <3>1, <3>4, <3>5, BlockStepKeeps
  <2> QED BY <2>2, <2>3
<1>9. CASE DelayRetry(b)
  <2> DEFINE t == [old EXCEPT !.at = "run", !.snap = NoCopy, !.delayed = TRUE]
  <2>1. t \in BlockStates BY <1>2, <1>3 DEF BlockStates
  <2>2. block' = [block EXCEPT ![b] = t] BY <1>9, <1>a DEF DelayRetry
  <2>3. Fits(t, b) BY <1>2, <1>9 DEF Fits, DelayRetry, MutexFree, BlockStates
  <2> QED BY <1>1, <2>1, <2>2, <2>3, BlockStepKeeps
<1>10. CASE Transfer(b)
  <2> DEFINE t == [old EXCEPT !.at = "work"]
  <2>1. t \in BlockStates BY <1>2 DEF BlockStates
  <2>2. block' = [block EXCEPT ![b] = t] BY <1>10, <1>a DEF Transfer, ThreadTo
  <2>3. Fits(t, b) BY <1>2, <1>10 DEF Fits, Transfer, MutexFree, BlockStates
  <2> QED BY <1>1, <2>1, <2>2, <2>3, BlockStepKeeps
<1>11. CASE StartStream(b)
  <2>1. CASE block' = [block EXCEPT ![b].at = "work", ![b].streaming = TRUE]
    <3> DEFINE t == [old EXCEPT !.at = "work", !.streaming = TRUE]
    <3>1. t \in BlockStates BY <1>2 DEF BlockStates
    <3>2. block' = [block EXCEPT ![b] = t] BY <2>1, <1>a
    <3>3. Fits(t, b) BY <1>2, <1>11 DEF Fits, StartStream, BlockStates
    <3> QED BY <1>1, <3>1, <3>2, <3>3, BlockStepKeeps
  <2>2. CASE ThreadTo(b, "stopped")
    <3> DEFINE t == [old EXCEPT !.at = "stopped"]
    <3>1. t \in BlockStates BY <1>2 DEF BlockStates
    <3>2. block' = [block EXCEPT ![b] = t] BY <2>2, <1>a DEF ThreadTo
    <3>3. Fits(t, b) BY <1>2, <1>11 DEF Fits, StartStream, BlockStates
    <3> QED BY <1>1, <3>1, <3>2, <3>3, BlockStepKeeps
  <2> QED BY <1>11, <2>1, <2>2 DEF StartStream
<1> QED BY <1>4, <1>5, <1>6, <1>7, <1>8, <1>9, <1>10, <1>11

-----------------------------------------------------------------------------
(* The steps that configure the device: the other block's settings stay, and  *)
(* its rate is no longer vouched for.                                          *)

\* A step that configures for block b keeps the invariant if the new record of b fits.
LEMMA ConfigureKeeps ==
    ASSUME GnuInv, NEW b \in Blocks, NEW t \in BlockStates, block' = [block EXCEPT ![b] = t],
           gui' \in [at: {"idle", "set_rate", "set_freq"}, block: Blocks],
           gui'.at # "idle" => gui' = gui,
           dev' \in [rate: Rates, freq: [Blocks -> Tunings]],
           context' \in [common: BOOLEAN, rate: Rates],
           hist' \in [last: Blocks \cup {"none"}, unsure: BOOLEAN],
           RateRemembered', hist'.unsure \/ hist'.last = b,
           \A d \in Blocks: d # b => dev'.freq[d] = dev.freq[d],
           t.streaming <=> t.at \notin {"stopped", "start", "arm"},
           t.at \in {"apply", "clear", "retry"} => t.dirty,
           t.at = "arm" => ~t.dirty,
           gui'.at # "idle" /\ gui.block = b => t.at = "stopped",
           t.at = "clear" => /\ dev'.freq[b] = t.snap.freq
                             /\ ~hist'.unsure => dev'.rate = t.snap.rate,
           t.at = "arm" \/ (t.streaming /\ ~t.dirty) =>
               /\ dev'.freq[b] = t.freq
               /\ ~hist'.unsure => dev'.rate = t.rate
    PROVE  GnuInv'
<1>1. Shapes' BY DEF GnuInv, Shapes
<1>2. \A d \in Blocks: Fits(block[d], d) BY AllFit DEF GnuInv
<1>3. \A d \in Blocks: block'[d] = IF d = b THEN t ELSE block[d] BY DEF GnuInv, Shapes
<1>4. Threads'
  <2>1. ASSUME NEW d \in Blocks
        PROVE  /\ block'[d].streaming <=> block'[d].at \notin {"stopped", "start", "arm"}
               /\ block'[d].at \in {"apply", "clear", "retry"} => block'[d].dirty
               /\ block'[d].at = "arm" => ~block'[d].dirty
    BY <1>2, <1>3 DEF Fits
  <2>2. gui'.at # "idle" => block'[gui'.block].at = "stopped"
    BY <1>2, <1>3 DEF Fits, GnuInv, Shapes
  <2> QED BY <2>1, <2>2 DEF Threads
<1>5. CopyApplied'
  <2> SUFFICES ASSUME NEW d \in Blocks, block'[d].at = "clear"
               PROVE  /\ dev'.freq[d] = block'[d].snap.freq
                      /\ hist'.last = d /\ ~hist'.unsure => dev'.rate = block'[d].snap.rate
    BY DEF CopyApplied
  <2>1. CASE d = b BY <2>1, <1>3
  <2>2. CASE d # b BY <2>2, <1>2, <1>3 DEF Fits
  <2> QED BY <2>1, <2>2
<1>6. CleanIsApplied'
  <2> SUFFICES ASSUME NEW d \in Blocks, block'[d].streaming, ~block'[d].dirty
               PROVE  /\ dev'.freq[d] = block'[d].freq
                      /\ hist'.last = d /\ ~hist'.unsure => dev'.rate = block'[d].rate
    BY DEF CleanIsApplied
  <2>1. CASE d = b BY <2>1, <1>3
  <2>2. CASE d # b BY <2>2, <1>2, <1>3 DEF Fits
  <2> QED BY <2>1, <2>2
<1>7. ArmedIsApplied'
  <2> SUFFICES ASSUME NEW d \in Blocks, block'[d].at = "arm"
               PROVE  /\ dev'.freq[d] = block'[d].freq
                      /\ hist'.last = d /\ ~hist'.unsure => dev'.rate = block'[d].rate
    BY DEF ArmedIsApplied
  <2>1. CASE d = b BY <2>1, <1>3
  <2>2. CASE d # b BY <2>2, <1>2, <1>3 DEF Fits
  <2> QED BY <2>1, <2>2
<1> QED BY <1>1, <1>4, <1>5, <1>6, <1>7 DEF GnuInv

\* start() of a block configures the device with the block's own settings.
LEMMA StartKeeps ==
    ASSUME GnuInv, NEW b \in Blocks, StartApplies(b)
    PROVE  GnuInv'
<1> DEFINE old == block[b]
<1>1. old \in BlockStates /\ Fits(old, b) BY AllFit DEF GnuInv, Shapes
<1>2. old.at = "start" /\ gui' = gui /\ old.rate \in Rates /\ old.freq \in Tunings
  BY <1>1 DEF StartApplies, BlockStates
<1>3. gui.at # "idle" => gui.block # b BY <1>1, <1>2 DEF Fits
<1>4. gui' \in [at: {"idle", "set_rate", "set_freq"}, block: Blocks]
  BY <1>2 DEF GnuInv, Shapes
<1>5. CASE /\ Configured(b, old.rate, old.freq)
           /\ block' = [block EXCEPT ![b].at = "arm", ![b].dirty = FALSE,
                                     ![b].delayed = FALSE]
  <2> DEFINE t == [old EXCEPT !.at = "arm", !.dirty = FALSE, !.delayed = FALSE]
  <2>1. t \in BlockStates /\ t.rate = old.rate /\ t.freq = old.freq /\ t.at = "arm"
        /\ t.dirty = FALSE /\ ~t.streaming
    BY <1>1, <1>2 DEF BlockStates, Fits
  <2>2. block' = [block EXCEPT ![b] = t] BY <1>5 DEF GnuInv, Shapes
  <2>3. /\ dev' \in [rate: Rates, freq: [Blocks -> Tunings]]
        /\ context' \in [common: BOOLEAN, rate: Rates]
        /\ hist' \in [last: Blocks \cup {"none"}, unsure: BOOLEAN]
        /\ RateRemembered' /\ hist'.last = b
        /\ dev'.freq[b] = old.freq /\ (~hist'.unsure => dev'.rate = old.rate)
        /\ \A d \in Blocks: d # b => dev'.freq[d] = dev.freq[d]
    BY <1>2, <1>5, ConfiguredDoes
  <2>4. dev'.freq[b] = t.freq /\ (~hist'.unsure => dev'.rate = t.rate)
    BY <2>1, <2>3
  <2> HIDE DEF t, old
  <2> QED BY <1>2, <1>3, <1>4, <2>1, <2>2, <2>3, <2>4, ConfigureKeeps
<1>6. CASE CommandFailed(b, old.rate, old.freq) /\ ThreadTo(b, "stopped")
  <2> DEFINE t == [old EXCEPT !.at = "stopped"]
  <2>1. t \in BlockStates /\ t.at = "stopped" /\ ~t.streaming
    BY <1>1, <1>2 DEF BlockStates, Fits
  <2>2. block' = [block EXCEPT ![b] = t] BY <1>6 DEF GnuInv, Shapes, ThreadTo
  <2>3. /\ dev' \in [rate: Rates, freq: [Blocks -> Tunings]]
        /\ context' \in [common: BOOLEAN, rate: Rates]
        /\ hist' \in [last: Blocks \cup {"none"}, unsure: BOOLEAN]
        /\ RateRemembered' /\ (hist'.unsure \/ hist'.last = b)
        /\ \A d \in Blocks: d # b => dev'.freq[d] = dev.freq[d]
    BY <1>2, <1>6, FailedDoes
  <2> HIDE DEF t
  <2> QED BY <1>2, <1>4, <2>1, <2>2, <2>3, ConfigureKeeps
<1> QED BY <1>5, <1>6 DEF StartApplies

\* work() applies the copy it took of the settings.
LEMMA ApplyKeeps ==
    ASSUME GnuInv, NEW b \in Blocks, ApplyCopy(b)
    PROVE  GnuInv'
<1> DEFINE old == block[b]
<1>1. old \in BlockStates /\ Fits(old, b) BY AllFit DEF GnuInv, Shapes
<1>2. /\ old.at = "apply" /\ gui' = gui /\ old.snap.rate \in Rates
      /\ old.snap.freq \in Tunings
  BY <1>1 DEF ApplyCopy, BlockStates
<1>3. old.dirty /\ old.streaming /\ (gui.at # "idle" => gui.block # b)
  BY <1>1, <1>2 DEF Fits
<1>4. gui' \in [at: {"idle", "set_rate", "set_freq"}, block: Blocks]
  BY <1>2 DEF GnuInv, Shapes
<1>5. CASE Configured(b, old.snap.rate, old.snap.freq) /\ ThreadTo(b, "clear")
  <2> DEFINE t == [old EXCEPT !.at = "clear"]
  <2>1. t \in BlockStates /\ t.at = "clear" /\ t.snap = old.snap /\ t.dirty /\ t.streaming
    BY <1>1, <1>3 DEF BlockStates
  <2>2. block' = [block EXCEPT ![b] = t] BY <1>5 DEF GnuInv, Shapes, ThreadTo
  <2>3. /\ dev' \in [rate: Rates, freq: [Blocks -> Tunings]]
        /\ context' \in [common: BOOLEAN, rate: Rates]
        /\ hist' \in [last: Blocks \cup {"none"}, unsure: BOOLEAN]
        /\ RateRemembered' /\ hist'.last = b
        /\ dev'.freq[b] = old.snap.freq /\ (~hist'.unsure => dev'.rate = old.snap.rate)
        /\ \A d \in Blocks: d # b => dev'.freq[d] = dev.freq[d]
    BY <1>2, <1>5, ConfiguredDoes
  <2>4. dev'.freq[b] = t.snap.freq /\ (~hist'.unsure => dev'.rate = t.snap.rate)
    BY <2>1, <2>3
  <2> HIDE DEF t, old
  <2> QED BY <1>2, <1>3, <1>4, <2>1, <2>2, <2>3, <2>4, ConfigureKeeps
<1>6. CASE CommandFailed(b, old.snap.rate, old.snap.freq) /\ ThreadTo(b, "retry")
  <2> DEFINE t == [old EXCEPT !.at = "retry"]
  <2>1. t \in BlockStates /\ t.at = "retry" /\ t.dirty /\ t.streaming
    BY <1>1, <1>3 DEF BlockStates
  <2>2. block' = [block EXCEPT ![b] = t] BY <1>6 DEF GnuInv, Shapes, ThreadTo
  <2>3. /\ dev' \in [rate: Rates, freq: [Blocks -> Tunings]]
        /\ context' \in [common: BOOLEAN, rate: Rates]
        /\ hist' \in [last: Blocks \cup {"none"}, unsure: BOOLEAN]
        /\ RateRemembered' /\ (hist'.unsure \/ hist'.last = b)
        /\ \A d \in Blocks: d # b => dev'.freq[d] = dev.freq[d]
    BY <1>2, <1>6, FailedDoes
  <2> HIDE DEF t
  <2> QED BY <1>2, <1>3, <1>4, <2>1, <2>2, <2>3, ConfigureKeeps
<1> QED BY <1>5, <1>6 DEF ApplyCopy

\* A setter marks the block, and goes on to apply only if it does not stream.
LEMMA SetterKeeps ==
    ASSUME GnuInv, NEW b \in Blocks, NEW set \in BlockStates,
           NEW place \in {"set_rate", "set_freq"},
           set.at = block[b].at, set.streaming = block[b].streaming, set.dirty,
           set.snap = block[b].snap, Setter(b, set, place)
    PROVE  GnuInv'
<1>1. \A d \in Blocks: Fits(block[d], d) BY AllFit DEF GnuInv
<1>2. block[b].streaming \in BOOLEAN BY DEF GnuInv, Shapes, BlockStates
<1>3. ~block[b].streaming => block[b].at = "stopped"
  BY <1>1 DEF Setter, MutexFree, Fits
<1>4. block' = [block EXCEPT ![b] = set] /\ UNCHANGED <<context, dev, hist>>
  BY DEF Setter
<1>5. gui' = IF NotStreaming(b) THEN [at |-> place, block |-> b] ELSE NoSetter
  BY DEF Setter
<1>6. gui' \in [at: {"idle", "set_rate", "set_freq"}, block: Blocks]
  BY <1>5 DEF NoSetter, Blocks
<1>7. Shapes' BY <1>4, <1>6 DEF GnuInv, Shapes
<1>8. \A d \in Blocks: block'[d] = IF d = b THEN set ELSE block[d]
  BY <1>4 DEF GnuInv, Shapes
<1>9. gui'.at # "idle" => block'[gui'.block].at = "stopped"
  BY <1>3, <1>5, <1>8 DEF NoSetter, NotStreaming
<1>11. CopyApplied' BY <1>1, <1>4, <1>8 DEF CopyApplied, Fits
<1>12. CleanIsApplied' BY <1>1, <1>4, <1>8 DEF CleanIsApplied, Fits
<1>a. block[b].at # "arm" BY DEF Setter, MutexFree
<1>10. Threads' BY <1>1, <1>8, <1>9, <1>a DEF Threads, Fits
<1>14. ArmedIsApplied' BY <1>1, <1>4, <1>8, <1>a DEF ArmedIsApplied, Fits
<1>13. RateRemembered' BY <1>4 DEF GnuInv, RateRemembered
<1> QED BY <1>7, <1>10, <1>11, <1>12, <1>13, <1>14 DEF GnuInv

\* The setter that found its block stopped configures the device.
LEMMA SetterAppliesKeeps ==
    ASSUME GnuInv, SetterApplies
    PROVE  GnuInv'
<1> DEFINE b == gui.block  old == block[b]
           f == IF gui.at = "set_rate" THEN dev.freq[b] ELSE block[b].freq
<1>1. b \in Blocks BY DEF GnuInv, Shapes
<1>2. old \in BlockStates /\ Fits(old, b) /\ f \in Tunings
  BY <1>1, AllFit DEF GnuInv, Shapes, BlockStates
<1>3. old.at = "stopped" /\ ~old.streaming /\ old.rate \in Rates
  BY <1>2 DEF SetterApplies, GnuInv, Threads, Fits, BlockStates
<1>4. gui'.at = "idle" /\ gui' \in [at: {"idle", "set_rate", "set_freq"}, block: Blocks]
  BY DEF SetterApplies, NoSetter, Blocks
<1>5. CASE Configured(b, old.rate, f) /\ block' = [block EXCEPT ![b].dirty = FALSE]
  <2> DEFINE t == [old EXCEPT !.dirty = FALSE]
  <2>1. t \in BlockStates /\ t.at = "stopped" /\ ~t.streaming BY <1>2, <1>3 DEF BlockStates
  <2>2. block' = [block EXCEPT ![b] = t] BY <1>1, <1>5 DEF GnuInv, Shapes
  <2>3. /\ dev' \in [rate: Rates, freq: [Blocks -> Tunings]]
        /\ context' \in [common: BOOLEAN, rate: Rates]
        /\ hist' \in [last: Blocks \cup {"none"}, unsure: BOOLEAN]
        /\ RateRemembered' /\ hist'.last = b
        /\ \A d \in Blocks: d # b => dev'.freq[d] = dev.freq[d]
    BY <1>1, <1>2, <1>3, <1>5, ConfiguredDoes
  <2> HIDE DEF t, b
  <2> QED BY <1>1, <1>4, <2>1, <2>2, <2>3, ConfigureKeeps
<1>6. CASE CommandFailed(b, old.rate, f) /\ UNCHANGED block
  <2>1. block' = [block EXCEPT ![b] = old] BY <1>1, <1>6 DEF GnuInv, Shapes
  <2>2. /\ dev' \in [rate: Rates, freq: [Blocks -> Tunings]]
        /\ context' \in [common: BOOLEAN, rate: Rates]
        /\ hist' \in [last: Blocks \cup {"none"}, unsure: BOOLEAN]
        /\ RateRemembered' /\ (hist'.unsure \/ hist'.last = b)
        /\ \A d \in Blocks: d # b => dev'.freq[d] = dev.freq[d]
    BY <1>1, <1>2, <1>3, <1>6, FailedDoes
  <2> HIDE DEF old, b
  <2> QED BY <1>1, <1>2, <1>3, <1>4, <2>1, <2>2, ConfigureKeeps
<1> QED BY <1>5, <1>6 DEF SetterApplies

-----------------------------------------------------------------------------

\* Every step keeps the invariant.
LEMMA GnuStep ==
    ASSUME GnuRadioParameters, GnuInv, [GnuRadioNext]_gnuVars
    PROVE  GnuInv'
<1>1. CASE UNCHANGED gnuVars
  BY <1>1 DEF gnuVars, GnuInv, Shapes, RateRemembered, Threads, CopyApplied, ArmedIsApplied,
     CleanIsApplied
<1>2. ASSUME NEW b \in Blocks, Start(b) \/ Stop(b) \/ BlockSteps(b)
      PROVE  GnuInv'
  BY <1>2, ThreadStepKeeps, StartKeeps, ApplyKeeps DEF BlockSteps
<1>3. ASSUME NEW b \in Blocks, NEW r \in Rates, SetSampleRate(b, r)
      PROVE  GnuInv'
  <2> DEFINE set == [Changed(b) EXCEPT !.rate = r]
  <2>1. block[b] \in BlockStates BY DEF GnuInv, Shapes
  <2>2. set \in BlockStates /\ set.at = block[b].at /\ set.streaming = block[b].streaming
        /\ set.dirty /\ set.snap = block[b].snap
    BY <2>1 DEF Changed, BlockStates
  <2>3. Setter(b, set, "set_rate") BY <1>3 DEF SetSampleRate
  <2> HIDE DEF set
  <2> QED BY <2>2, <2>3, SetterKeeps
<1>4. ASSUME NEW b \in Blocks, NEW f \in Tunings, SetCenterFreq(b, f)
      PROVE  GnuInv'
  <2> DEFINE set == [Changed(b) EXCEPT !.freq = f]
  <2>1. block[b] \in BlockStates BY DEF GnuInv, Shapes
  <2>2. set \in BlockStates /\ set.at = block[b].at /\ set.streaming = block[b].streaming
        /\ set.dirty /\ set.snap = block[b].snap
    BY <2>1 DEF Changed, BlockStates
  <2>3. Setter(b, set, "set_freq") BY <1>4 DEF SetCenterFreq
  <2> HIDE DEF set
  <2> QED BY <2>2, <2>3, SetterKeeps
<1> QED BY <1>1, <1>2, <1>3, <1>4, SetterAppliesKeeps DEF GnuRadioNext

\* GnuInv is inductive.
LEMMA GnuInvariant ==
    ASSUME GnuRadioParameters
    PROVE  GnuRadioSpec => []GnuInv
<1>1. GnuRadioInit => GnuInv BY InitInv
<1>2. GnuInv /\ [GnuRadioNext]_gnuVars => GnuInv' BY GnuStep
<1> QED BY <1>1, <1>2, PTL DEF GnuRadioSpec

\* A block that streams with its flag clear has the device set as it asked, its
\* sample rate too when it configured last and no rate command failed: the look
\* at the copy under d_mutex (rx_source_impl.cpp, tx_sink_impl.cpp) is enough.
THEOREM CleanBlocksAreApplied ==
    ASSUME GnuRadioParameters
    PROVE  GnuRadioSpec => []CleanIsApplied
<1>1. GnuInv => CleanIsApplied BY DEF GnuInv
<1> QED BY <1>1, GnuInvariant, PTL

\* d_mutex and control_mutex are asked for in both orders, and a setter that
\* waits for control_mutex never faces a thread that holds it and waits for d_mutex.
THEOREM LocksDoNotCross ==
    ASSUME GnuRadioParameters
    PROVE  GnuRadioSpec => []NoCircularWait
<1>1. GnuInv => NoCircularWait BY DEF GnuInv, Threads, NoCircularWait
<1> QED BY <1>1, GnuInvariant, PTL

-----------------------------------------------------------------------------
(* UhdStreams *)

Lists == {<<>>, <<"burst">>, <<"stop", "exit", "start">>, <<"exit", "start">>, <<"start">>,
          <<"stop", "exit">>, <<"exit">>}
StreamerTypes == [life: {"none", "live", "dying"}, stopped: BOOLEAN, steps: Lists]
Hists == [calls: Nat, throws: Nat, failed: BOOLEAN, overlap: BOOLEAN, burst: BOOLEAN]
\* What is left to do says what the streamer believes.
StreamerShape(r) ==
    /\ r.life = "none" => r.stopped /\ r.steps = <<>>
    /\ r.life = "dying" => r.stopped /\ r.steps \in {<<>>, <<"stop", "exit">>, <<"exit">>}
    /\ r.steps # <<>> => (r.stopped <=> r.steps # <<"burst">>)
StreamerShapes ==
    /\ rxs \in [Streamers -> StreamerTypes] /\ \A s \in Streamers: StreamerShape(rxs[s])
    /\ epoch \in {"off", "on", "burst"} /\ uhdHist \in Hists
\* One streamer is the owner; beside it others may be dying, which the history knows.
OneOwner ==
    \A s, t \in Streamers: s # t /\ rxs[s].life = "live" =>
        rxs[t].life # "live" /\ (~uhdHist.overlap => rxs[t].life = "none")
BurstKnown == \A s \in Streamers: rxs[s].steps = <<"burst">> => uhdHist.burst
\* A device that streams has somebody who knows, or who is about to stop it.
Cared(r) == ~r.stopped \/ r.steps \in {<<"stop", "exit">>, <<"stop", "exit", "start">>}
SomebodyKnows == ~uhdHist.failed /\ epoch # "off" => \E s \in Streamers: Cared(rxs[s])
OwnersInv == StreamerShapes /\ OneOwner /\ BurstKnown /\ SomebodyKnows /\ StartedIsStreaming

\* The transport's stamp is where the last send ended.
StampFollows ==
    /\ txs \in [stamp: Nat, hasTime: BOOLEAN,
                sob: [kept: BOOLEAN, time: [timed: BOOLEAN, stamp: Nat]]]
    /\ sent \in [next: [known: BOOLEAN, stamp: Nat], gap: BOOLEAN, lostSob: BOOLEAN]
    /\ sent.next.known => txs.hasTime /\ txs.stamp = sent.next.stamp
    /\ SendsContinue

-----------------------------------------------------------------------------

\* What the lists begin with, and what is left of them.
LEMMA ListFacts ==
    /\ Head(<<"burst">>) = "burst" /\ Head(<<"stop", "exit", "start">>) = "stop"
    /\ Head(<<"exit", "start">>) = "exit" /\ Head(<<"start">>) = "start"
    /\ Head(<<"stop", "exit">>) = "stop" /\ Head(<<"exit">>) = "exit"
    /\ Tail(<<"burst">>) = <<>> /\ Tail(<<"stop", "exit", "start">>) = <<"exit", "start">>
    /\ Tail(<<"exit", "start">>) = <<"start">> /\ Tail(<<"start">>) = <<>>
    /\ Tail(<<"stop", "exit">>) = <<"exit">> /\ Tail(<<"exit">>) = <<>>
OBVIOUS

LEMMA ListsDiffer ==
    /\ \A l \in Lists: l # <<>> => Len(l) > 0
    /\ <<"burst">> # <<>> /\ <<"stop", "exit", "start">> # <<>> /\ <<"exit", "start">> # <<>>
    /\ <<"start">> # <<>> /\ <<"stop", "exit">> # <<>> /\ <<"exit">> # <<>>
    /\ <<"burst">> # <<"start">> /\ <<"burst">> # <<"exit">> /\ <<"exit">> # <<"start">>
    /\ <<"burst">> # <<"stop", "exit">> /\ <<"burst">> # <<"exit", "start">>
    /\ <<"burst">> # <<"stop", "exit", "start">> /\ <<"exit">> # <<"stop", "exit">>
    /\ <<"exit">> # <<"stop", "exit", "start">> /\ <<"start">> # <<"stop", "exit">>
    /\ <<"start">> # <<"stop", "exit", "start">> /\ <<"exit", "start">> # <<"stop", "exit">>
    /\ <<"exit", "start">> # <<"stop", "exit", "start">>
BY DEF Lists

\* A step of one streamer.
LEMMA StreamerChanges ==
    ASSUME OwnersInv, NEW s \in Streamers, rxs' \in [Streamers -> StreamerTypes],
           StreamerShape(rxs'[s]), \A t \in Streamers: t # s => rxs'[t] = rxs[t],
           epoch' \in {"off", "on", "burst"}, uhdHist' \in Hists,
           rxs'[s].life = "live" =>
              \/ rxs[s].life = "live"
              \/ Unowned /\ (uhdHist'.overlap \/ \A t \in Streamers: rxs[t].life # "dying"),
           rxs'[s].life = "dying" => rxs[s].life # "none",
           uhdHist.overlap => uhdHist'.overlap,
           rxs'[s].steps = <<"burst">> => uhdHist'.burst,
           uhdHist.burst => uhdHist'.burst \/ rxs[s].life = "live"
    PROVE  StreamerShapes' /\ OneOwner' /\ BurstKnown'
<1>1. StreamerShapes' BY DEF OwnersInv, StreamerShapes, StreamerShape
<1>2. \A t \in Streamers: rxs[t].life \in {"none", "live", "dying"}
  BY DEF OwnersInv, StreamerShapes, StreamerTypes
<1>3. OneOwner'
  <2> SUFFICES ASSUME NEW t \in Streamers, NEW u \in Streamers, t # u, rxs'[t].life = "live"
               PROVE  rxs'[u].life # "live" /\ (~uhdHist'.overlap => rxs'[u].life = "none")
    BY DEF OneOwner
  <2>1. CASE t = s BY <2>1, <1>2 DEF OwnersInv, OneOwner, Unowned
  <2>2. CASE u = s
    <3>1. t # s /\ rxs[t].life = "live" BY <2>2
    <3>2. ~Unowned /\ rxs[s].life # "live" BY <2>2, <3>1 DEF Unowned, OwnersInv, OneOwner
    <3>3. rxs'[s].life # "live" /\ rxs'[s].life \in {"none", "live", "dying"}
      BY <3>2 DEF StreamerTypes
    <3>4. rxs'[s].life = "dying" => rxs[s].life = "dying" BY <3>2, <1>2
    <3>5. rxs[s].life = "dying" => uhdHist.overlap BY <2>2, <3>1 DEF OwnersInv, OneOwner
    <3> QED BY <2>2, <3>3, <3>4, <3>5
  <2>3. CASE t # s /\ u # s BY <2>3 DEF OwnersInv, OneOwner
  <2> QED BY <2>1, <2>2, <2>3
<1>4. BurstKnown'
  <2> SUFFICES ASSUME NEW t \in Streamers, rxs'[t].steps = <<"burst">> PROVE uhdHist'.burst
    BY DEF BurstKnown
  <2>1. CASE t = s BY <2>1
  <2>2. CASE t # s
    <3>1. rxs[t].steps = <<"burst">> /\ uhdHist.burst BY <2>2 DEF OwnersInv, BurstKnown
    <3>2. rxs[t].life = "live"
      BY <3>1, <1>2, ListsDiffer DEF OwnersInv, StreamerShapes, StreamerShape
    <3> QED BY <2>2, <3>1, <3>2 DEF OwnersInv, OneOwner
  <2> QED BY <2>1, <2>2
<1> QED BY <1>1, <1>3, <1>4

\* What a call does to its streamer.
LEMMA CallsDo ==
    ASSUME OwnersInv, NEW s \in Streamers,
           \/ MakeStreamer(s) \/ StartContinuous(s) \/ StopContinuous(s) \/ StartBurst(s)
           \/ Release(s) \/ Gone(s)
    PROVE  /\ rxs' \in [Streamers -> StreamerTypes] /\ StreamerShape(rxs'[s])
           /\ \A t \in Streamers: t # s => rxs'[t] = rxs[t]
           /\ rxs'[s].life = "live" /\ rxs[s].life # "live" => Unowned /\ MakeStreamer(s)
           /\ rxs'[s].life = "dying" => rxs[s].life # "none"
           /\ rxs'[s].steps = <<"burst">> => StartBurst(s) \/ rxs'[s] = rxs[s]
           /\ Cared(rxs[s]) => Cared(rxs'[s])
           /\ rxs'[s].steps = <<>> => rxs'[s].stopped \/ rxs'[s] = rxs[s]
<1>1. rxs \in [Streamers -> StreamerTypes] /\ rxs[s] \in StreamerTypes /\ StreamerShape(rxs[s])
  BY DEF OwnersInv, StreamerShapes
<1>2. ASSUME NEW r \in StreamerTypes, rxs' = [rxs EXCEPT ![s] = r]
      PROVE  /\ rxs' \in [Streamers -> StreamerTypes] /\ rxs'[s] = r
             /\ \A t \in Streamers: t # s => rxs'[t] = rxs[t]
  BY <1>1, <1>2
<1>3. <<>> \in Lists /\ <<"burst">> \in Lists /\ <<"stop", "exit">> \in Lists
      /\ <<"stop", "exit", "start">> \in Lists
  BY DEF Lists
<1>4. ASSUME NEW stopped \in BOOLEAN, NEW steps \in Lists, Order(s, stopped, steps)
      PROVE  /\ rxs' \in [Streamers -> StreamerTypes]
             /\ rxs'[s].life = rxs[s].life /\ rxs'[s].stopped = stopped /\ rxs'[s].steps = steps
             /\ \A t \in Streamers: t # s => rxs'[t] = rxs[t]
  BY <1>1, <1>4 DEF Order, StreamerTypes
<1>5. CASE rxs' = rxs BY <1>1, <1>5
<1>6. CASE MakeStreamer(s)
  <2> DEFINE r == [NewStreamer EXCEPT !.life = "live"]
  <2>1. r.life = "live" /\ r.stopped = TRUE /\ r.steps = <<>> /\ r \in StreamerTypes
    BY <1>3 DEF NewStreamer, StreamerTypes
  <2>2. rxs' = [rxs EXCEPT ![s] = r] /\ rxs[s].life = "none" /\ Unowned
    BY <1>6 DEF MakeStreamer
  <2>3. ~Cared(rxs[s]) BY <1>1, <2>2, ListsDiffer DEF StreamerShape, Cared
  <2> HIDE DEF r
  <2> QED BY <1>2, <1>6, <2>1, <2>2, <2>3, ListsDiffer DEF StreamerShape
<1>7. CASE StartContinuous(s) /\ rxs' # rxs
  <2>1. rxs[s].life = "live" /\ Order(s, TRUE, <<"stop", "exit", "start">>)
    BY <1>7 DEF StartContinuous, Ready, StoppedUntilStarted
  <2> QED BY <1>3, <1>4, <2>1, ListsDiffer DEF StreamerShape, Cared
<1>8. CASE StopContinuous(s) /\ rxs' # rxs
  <2>1. rxs[s].life = "live" /\ Order(s, TRUE, <<"stop", "exit">>)
    BY <1>8 DEF StopContinuous, Ready
  <2> QED BY <1>3, <1>4, <2>1, ListsDiffer DEF StreamerShape, Cared
<1>9. CASE StartBurst(s)
  <2>1. rxs[s].life = "live" /\ Order(s, FALSE, <<"burst">>)
    BY <1>9 DEF StartBurst, Ready
  <2> QED BY <1>3, <1>4, <1>9, <2>1, ListsDiffer DEF StreamerShape, Cared
<1>10. CASE Release(s)
  <2> DEFINE steps == IF rxs[s].stopped THEN <<>> ELSE <<"stop", "exit">>
  <2> DEFINE r == [life |-> "dying", stopped |-> TRUE, steps |-> steps]
  <2>1. rxs[s].life = "live" /\ rxs[s].steps = <<>> /\ rxs' = [rxs EXCEPT ![s] = r]
    BY <1>10 DEF Release
  <2>2. steps \in {<<>>, <<"stop", "exit">>} /\ (~rxs[s].stopped => steps = <<"stop", "exit">>)
    OBVIOUS
  <2> HIDE DEF steps
  <2>3. r.life = "dying" /\ r.stopped = TRUE /\ r.steps = steps /\ r \in StreamerTypes
    BY <1>3, <2>2 DEF StreamerTypes
  <2> HIDE DEF r
  <2> QED BY <1>2, <2>1, <2>2, <2>3, ListsDiffer DEF StreamerShape, Cared
<1>11. CASE Gone(s)
  <2>1. NewStreamer.life = "none" /\ NewStreamer.stopped = TRUE /\ NewStreamer.steps = <<>>
        /\ NewStreamer \in StreamerTypes
    BY <1>3 DEF NewStreamer, StreamerTypes
  <2>2. rxs[s].life = "dying" /\ rxs[s].steps = <<>> /\ rxs' = [rxs EXCEPT ![s] = NewStreamer]
    BY <1>11 DEF Gone
  <2>3. ~Cared(rxs[s]) BY <1>1, <2>2, ListsDiffer DEF StreamerShape, Cared
  <2> QED BY <1>2, <2>1, <2>2, <2>3, ListsDiffer DEF StreamerShape
<1> QED BY <1>5, <1>6, <1>7, <1>8, <1>9, <1>10, <1>11

\* What a call does to the history.
LEMMA CallsNote ==
    ASSUME OwnersInv, NEW s \in Streamers,
           \/ MakeStreamer(s) \/ StartContinuous(s) \/ StopContinuous(s) \/ StartBurst(s)
           \/ Release(s) \/ Gone(s)
    PROVE  /\ uhdHist' \in Hists /\ uhdHist'.failed = uhdHist.failed
           /\ uhdHist.overlap => uhdHist'.overlap
           /\ uhdHist.burst => uhdHist'.burst
           /\ StartBurst(s) => uhdHist'.burst
           /\ MakeStreamer(s) =>
                uhdHist'.overlap \/ \A t \in Streamers: rxs[t].life # "dying"
<1>1. uhdHist \in Hists BY DEF OwnersInv, StreamerShapes
<1>2. ASSUME NEW h \in Hists, Count(h)
      PROVE  /\ uhdHist' \in Hists /\ uhdHist'.failed = h.failed
             /\ uhdHist'.overlap = h.overlap /\ uhdHist'.burst = h.burst
  BY <1>2 DEF Count, Hists
<1>3. CASE MakeStreamer(s)
  <2> DEFINE met == \E t \in Streamers: rxs[t].life = "dying"
  <2> DEFINE h == [uhdHist EXCEPT !.overlap = @ \/ met]
  <2>1. h \in Hists /\ h.failed = uhdHist.failed /\ (h.overlap <=> uhdHist.overlap \/ met)
        /\ h.burst = uhdHist.burst
    <3> HIDE DEF met
    <3> QED BY <1>1 DEF Hists
  <2>2. Count(h) BY <1>3 DEF MakeStreamer
  <2>3. ~StartBurst(s) \/ uhdHist'.burst
    <3>1. rxs[s].life = "none" BY <1>3 DEF MakeStreamer
    <3> QED BY <3>1 DEF StartBurst, Ready
  <2>4. ~met => \A t \in Streamers: rxs[t].life # "dying" OBVIOUS
  <2> HIDE DEF h, met
  <2> QED BY <1>1, <1>2, <2>1, <2>2, <2>3, <2>4
<1>4. CASE ~MakeStreamer(s) /\ ~StartBurst(s)
  <2>1. Count(uhdHist) \/ uhdHist' = uhdHist
    BY <1>4 DEF StartContinuous, StopContinuous, Release, Gone
  <2> QED BY <1>1, <1>2, <1>4, <2>1
<1>5. CASE StartBurst(s)
  <2> DEFINE h == [uhdHist EXCEPT !.burst = TRUE]
  <2>1. h \in Hists /\ h.failed = uhdHist.failed /\ h.overlap = uhdHist.overlap /\ h.burst
    BY <1>1 DEF Hists
  <2>2. Count(h) BY <1>5 DEF StartBurst
  <2>3. ~MakeStreamer(s) BY <1>5 DEF StartBurst, Ready, MakeStreamer
  <2> HIDE DEF h
  <2> QED BY <1>1, <1>2, <2>1, <2>2, <2>3
<1> QED BY <1>3, <1>4, <1>5

LEMMA CallsKeepOwners ==
    ASSUME OwnersInv, NEW s \in Streamers,
           \/ MakeStreamer(s) \/ StartContinuous(s) \/ StopContinuous(s) \/ StartBurst(s)
           \/ Release(s) \/ Gone(s)
    PROVE  OwnersInv'
<1>1. epoch' = epoch /\ epoch \in {"off", "on", "burst"}
  BY DEF OwnersInv, StreamerShapes, MakeStreamer, StartContinuous, StopContinuous, StartBurst,
     Release, Gone
<1>2. rxs'[s].steps = <<"burst">> => uhdHist'.burst
  BY CallsDo, CallsNote DEF OwnersInv, BurstKnown
<1>3. StreamerShapes' /\ OneOwner' /\ BurstKnown'
  BY <1>1, <1>2, CallsDo, CallsNote, StreamerChanges
<1>4. SomebodyKnows' BY <1>1, CallsDo, CallsNote DEF SomebodyKnows, OwnersInv
<1>5. StartedIsStreaming' BY <1>1, CallsDo, CallsNote DEF StartedIsStreaming, OwnersInv
<1> QED BY <1>3, <1>4, <1>5 DEF OwnersInv

\* A command: what the streamer has left, and what the device and the history become.
LEMMA CommandDoes ==
    ASSUME OwnersInv, NEW s \in Streamers, RxCommand(s)
    PROVE  /\ rxs' \in [Streamers -> StreamerTypes] /\ StreamerShape(rxs'[s])
           /\ \A t \in Streamers: t # s => rxs'[t] = rxs[t]
           /\ rxs[s].steps # <<>> /\ rxs'[s].life = rxs[s].life
           /\ epoch' \in {"off", "on", "burst"} /\ uhdHist' \in Hists
           /\ uhdHist'.overlap = uhdHist.overlap
           /\ rxs'[s].steps # <<"burst">>
           /\ uhdHist.burst => uhdHist'.burst \/ rxs[s].life = "live"
           /\ \/ /\ uhdHist'.failed /\ uhdHist'.burst = uhdHist.burst
                 /\ rxs'[s].stopped = rxs[s].stopped
              \/ epoch' = "on" /\ ~rxs'[s].stopped
              \/ epoch' = "off" /\ rxs'[s].stopped
              \/ /\ epoch' = "burst" /\ ~rxs'[s].stopped /\ rxs[s].steps = <<"burst">>
                 /\ uhdHist'.failed = uhdHist.failed /\ uhdHist'.burst = uhdHist.burst
              \/ /\ epoch' = epoch /\ rxs'[s].stopped /\ ~Cared(rxs[s])
                 /\ uhdHist'.failed = uhdHist.failed /\ uhdHist'.burst = uhdHist.burst
<1> DEFINE old == rxs[s]
           step == Head(old.steps)
<1>1. rxs \in [Streamers -> StreamerTypes] /\ old \in StreamerTypes /\ StreamerShape(old)
      /\ uhdHist \in Hists /\ epoch \in {"off", "on", "burst"} /\ old.steps # <<>>
  BY DEF OwnersInv, StreamerShapes, RxCommand
<1>2. /\ Tail(old.steps) \in Lists /\ step \in {"stop", "exit", "start", "burst"}
      /\ step = "start" => old.life = "live" /\ Tail(old.steps) = <<>> /\ old.stopped
      /\ step = "burst" => /\ old.steps = <<"burst">> /\ Tail(old.steps) = <<>>
                           /\ ~old.stopped
      /\ step \in {"stop", "exit"} => old.stopped /\ Tail(old.steps) # <<"burst">>
      /\ step = "exit" => ~Cared(old)
      /\ old.life = "dying" => Tail(old.steps) \in {<<>>, <<"stop", "exit">>, <<"exit">>}
      /\ old.life # "none"
  BY <1>1, ListFacts, ListsDiffer DEF StreamerShape, StreamerTypes, Lists, Cared
<1>3. /\ step = "start" => Executed(step) = "on"
      /\ step = "burst" => Executed(step) = "burst"
      /\ step = "stop" => Executed(step) = "off"
      /\ step = "exit" => Executed(step) = epoch
      /\ Executed(step) \in {"off", "on", "burst"}
  BY <1>1, <1>2 DEF Executed
<1>4. <<>> \in Lists /\ <<>> # <<"burst">> BY ListsDiffer DEF Lists
<1>5. CASE /\ epoch' = Executed(step)
           /\ rxs' = [rxs EXCEPT ![s].steps = Tail(@), ![s].stopped = @ /\ step # "start"]
           /\ uhdHist' = [uhdHist EXCEPT !.failed = @ /\ step # "start",
                                         !.burst = @ /\ step # "start"]
  <2> DEFINE other == step # "start"
             rest == Tail(old.steps)
  <2>1. other \in BOOLEAN /\ rest \in Lists BY <1>2
  <2>2. /\ rxs' = [rxs EXCEPT ![s].steps = rest, ![s].stopped = @ /\ other]
        /\ uhdHist' = [uhdHist EXCEPT !.failed = @ /\ other, !.burst = @ /\ other]
    BY <1>1, <1>5
  <2>3. /\ uhdHist' \in Hists /\ uhdHist'.overlap = uhdHist.overlap
        /\ uhdHist'.failed = (uhdHist.failed /\ other) /\ uhdHist'.burst = (uhdHist.burst /\ other)
    <3> HIDE DEF other
    <3> QED BY <1>1, <2>1, <2>2 DEF Hists
  <2>4. /\ rxs' \in [Streamers -> StreamerTypes] /\ \A t \in Streamers: t # s => rxs'[t] = rxs[t]
        /\ rxs'[s].life = old.life /\ rxs'[s].steps = rest
        /\ rxs'[s].stopped = (old.stopped /\ other)
    <3> HIDE DEF other, rest
    <3> QED BY <1>1, <2>1, <2>2 DEF StreamerTypes
  <2>5. StreamerShape(rxs'[s])
    BY <1>1, <1>2, <2>4, ListsDiffer DEF StreamerShape
  <2>6. rest # <<"burst">> BY <1>2, <1>4
  <2> HIDE DEF rest, step, old
  <2> QED
    BY <1>1, <1>2, <1>3, <1>5, <2>3, <2>4, <2>5, <2>6 DEF other, old, Hists
<1>6. CASE /\ epoch' \in {epoch, Executed(step)} /\ rxs' = [rxs EXCEPT ![s].steps = <<>>]
           /\ uhdHist' = [uhdHist EXCEPT !.throws = @ + 1, !.failed = TRUE]
  <2>1. /\ rxs' \in [Streamers -> StreamerTypes] /\ \A t \in Streamers: t # s => rxs'[t] = rxs[t]
        /\ rxs'[s].life = old.life /\ rxs'[s].steps = <<>> /\ rxs'[s].stopped = old.stopped
    BY <1>1, <1>4, <1>6 DEF StreamerTypes
  <2>2. /\ uhdHist' \in Hists /\ uhdHist'.overlap = uhdHist.overlap /\ uhdHist'.failed
        /\ uhdHist'.burst = uhdHist.burst
    <3> DEFINE n == uhdHist.throws + 1
    <3>1. n \in Nat BY <1>1 DEF Hists
    <3>2. uhdHist' = [uhdHist EXCEPT !.throws = n, !.failed = TRUE] BY <1>6
    <3> HIDE DEF n
    <3> QED BY <1>1, <3>1, <3>2 DEF Hists
  <2>3. StreamerShape(rxs'[s]) BY <1>1, <2>1 DEF StreamerShape
  <2> QED BY <1>1, <1>3, <1>4, <1>6, <2>1, <2>2, <2>3
<1> QED BY <1>5, <1>6 DEF RxCommand

LEMMA CommandKeepsOwners ==
    ASSUME OwnersInv, NEW s \in Streamers, RxCommand(s)
    PROVE  OwnersInv'
<1>1. StreamerShapes' /\ OneOwner' /\ BurstKnown'
  BY CommandDoes, StreamerChanges
<1>2. SomebodyKnows' BY CommandDoes DEF SomebodyKnows, OwnersInv, Cared
<1>3. StartedIsStreaming'
  <2> SUFFICES ASSUME NEW t \in Streamers, rxs'[t].life = "live", rxs'[t].steps = <<>>,
                      ~rxs'[t].stopped, ~uhdHist'.burst, ~uhdHist'.overlap
               PROVE  epoch' = "on"
    BY DEF StartedIsStreaming
  <2>1. CASE t = s BY <2>1, CommandDoes, ListsDiffer DEF OwnersInv, StreamerShapes,
     StreamerShape, BurstKnown
  <2>2. CASE t # s
    <3>1. rxs[t].life = "live" /\ ~uhdHist.overlap /\ rxs[s].steps # <<>>
      BY <2>2, CommandDoes
    <3>2. rxs[s].life = "none" BY <2>2, <3>1 DEF OwnersInv, OneOwner
    <3> QED BY <3>1, <3>2 DEF OwnersInv, StreamerShapes, StreamerShape
  <2> QED BY <2>1, <2>2
<1> QED BY <1>1, <1>2, <1>3 DEF OwnersInv

LEMMA OwnersStep ==
    ASSUME OwnersInv, [UhdNext]_uhdStreamVars
    PROVE  OwnersInv'
<1>1. CASE UNCHANGED <<rxs, epoch, uhdHist>>
  BY <1>1 DEF OwnersInv, StreamerShapes, StreamerShape, OneOwner, BurstKnown, SomebodyKnows,
     Cared, StartedIsStreaming
<1>2. CASE BurstEnds
  BY <1>2 DEF BurstEnds, OwnersInv, StreamerShapes, StreamerShape, OneOwner, BurstKnown,
     SomebodyKnows, Cared, StartedIsStreaming
<1>3. ASSUME UNCHANGED <<rxs, epoch>>, Count(uhdHist) PROVE OwnersInv'
  <2>1. /\ uhdHist' \in Hists /\ uhdHist'.failed = uhdHist.failed
        /\ uhdHist'.overlap = uhdHist.overlap /\ uhdHist'.burst = uhdHist.burst
    BY <1>3 DEF Count, Hists, OwnersInv, StreamerShapes
  <2> QED BY <1>3, <2>1 DEF OwnersInv, StreamerShapes, StreamerShape, OneOwner, BurstKnown,
     SomebodyKnows, Cared, StartedIsStreaming
<1>4. ASSUME UNCHANGED <<rxs, epoch>>, Count([uhdHist EXCEPT !.throws = @ + 1]) PROVE OwnersInv'
  <2>1. /\ uhdHist' \in Hists /\ uhdHist'.failed = uhdHist.failed
        /\ uhdHist'.overlap = uhdHist.overlap /\ uhdHist'.burst = uhdHist.burst
    <3> DEFINE h == [uhdHist EXCEPT !.throws = @ + 1]
    <3>1. h \in Hists /\ h.failed = uhdHist.failed /\ h.overlap = uhdHist.overlap
          /\ h.burst = uhdHist.burst
      BY DEF Hists, OwnersInv, StreamerShapes
    <3>2. Count(h) BY <1>4
    <3> HIDE DEF h
    <3> QED BY <3>1, <3>2 DEF Count, Hists
  <2> QED BY <1>4, <2>1 DEF OwnersInv, StreamerShapes, StreamerShape, OneOwner, BurstKnown,
     SomebodyKnows, Cared, StartedIsStreaming
<1>5. ASSUME NEW time, SendSob(time) PROVE OwnersInv' BY <1>3, <1>5 DEF SendSob
<1>6. ASSUME NEW time, NEW n, Send(n, time) PROVE OwnersInv'
  BY <1>3, <1>4, <1>6 DEF Send
<1> QED BY <1>1, <1>2, <1>5, <1>6, CallsKeepOwners, CommandKeepsOwners DEF UhdNext, uhdStreamVars

LEMMA OwnersInitially == UhdInit => OwnersInv
<1> SUFFICES ASSUME UhdInit PROVE OwnersInv OBVIOUS
<1>1. NewStreamer \in StreamerTypes /\ NewStreamer.life = "none" /\ NewStreamer.stopped = TRUE
      /\ NewStreamer.steps = <<>> /\ NewStreamer.steps # <<"burst">>
  BY ListsDiffer DEF NewStreamer, StreamerTypes, Lists
<1>2. rxs = [s \in Streamers |-> NewStreamer] /\ epoch = "off" BY DEF UhdInit
<1>3. uhdHist \in Hists BY DEF UhdInit, Hists
<1> QED BY <1>1, <1>2, <1>3 DEF OwnersInv, StreamerShapes, StreamerShape, OneOwner, BurstKnown,
     SomebodyKnows, StartedIsStreaming

\* A streamer that takes itself to be started has a device that streams, so that a START
\* it ignores is harmless, and one that nobody uses is quiet when no command failed, for
\* any number of streamers made and destroyed (get_rx_stream, issue_stream_cmd and the
\* destructor of iqtaxi_rx_streamer.hpp).
THEOREM StreamersKnowTheDevice == UhdSpec => [](StartedIsStreaming /\ StoppedIsQuiet)
<1>1. OwnersInv => StartedIsStreaming BY DEF OwnersInv
<1>2. OwnersInv => StoppedIsQuiet
  BY ListsDiffer DEF OwnersInv, SomebodyKnows, Cared, StoppedIsQuiet
<1> QED BY <1>1, <1>2, OwnersInitially, OwnersStep, PTL DEF UhdSpec

LEMMA SendFollows ==
    ASSUME UhdParameters, StampFollows, NEW n \in Sizes \cup {0},
           NEW time \in {Untimed} \cup [timed: {TRUE}, stamp: Stamps], Send(n, time)
    PROVE  StampFollows'
<1> DEFINE Times == [timed: BOOLEAN, stamp: Nat]
           with == SobAttached(n)
           eff == IF with /\ ~time.timed THEN txs.sob.time ELSE time
           padded == IF n = 0 THEN 1 ELSE n
           kept == IF with THEN NoSob ELSE txs.sob
           Begins == IF eff.timed THEN {eff.stamp}
                     ELSE IF ~eff.timed /\ ~txs.hasTime THEN Stamps ELSE {txs.stamp}
<1>1. /\ txs.stamp \in Nat /\ txs.hasTime \in BOOLEAN /\ txs.sob \in [kept: BOOLEAN, time: Times]
      /\ sent.next \in [known: BOOLEAN, stamp: Nat] /\ sent.gap = FALSE /\ sent.lostSob = FALSE
  BY DEF StampFollows, SendsContinue
<1>2. Stamps \subseteq Nat /\ Sizes \subseteq Nat \ {0} /\ n \in Nat /\ padded \in Nat
  BY DEF UhdParameters
<1>3. Untimed \in Times BY DEF Untimed
<1>4. time \in Times BY <1>2, <1>3
<1>5. txs.sob.time \in Times BY <1>1
<1>6. eff \in Times BY <1>4, <1>5
<1>7. kept \in [kept: BOOLEAN, time: Times] BY <1>1, <1>3 DEF NoSob
<1>8. Begins \subseteq Nat BY <1>1, <1>2, <1>6
<1>9. n # 0 /\ txs.sob.kept => with BY DEF SobAttached
<1>10. \E stamp \in Begins: \E k \in 0..padded:
          \/ /\ txs' = [stamp |-> stamp + k, hasTime |-> TRUE, sob |-> kept]
             /\ sent' = [next |-> [known |-> TRUE, stamp |-> stamp + k],
                         gap |-> sent.next.known /\ ~eff.timed /\ stamp # sent.next.stamp,
                         lostSob |-> n # 0 /\ txs.sob.kept /\ ~with]
          \/ /\ txs' = [txs EXCEPT !.hasTime = TRUE, !.sob = kept]
             /\ sent' = [sent EXCEPT !.next = Unknown]
  BY DEF Send, Advanced
<1>11. sent.next.known => txs.hasTime /\ txs.stamp = sent.next.stamp BY DEF StampFollows
<1>12. ~eff.timed /\ sent.next.known => Begins = {sent.next.stamp} BY <1>11
<1> HIDE DEF eff, with, kept, Begins, padded
<1>13. ASSUME NEW stamp \in Begins, NEW k \in 0..padded,
              txs' = [stamp |-> stamp + k, hasTime |-> TRUE, sob |-> kept],
              sent' = [next |-> [known |-> TRUE, stamp |-> stamp + k],
                       gap |-> sent.next.known /\ ~eff.timed /\ stamp # sent.next.stamp,
                       lostSob |-> n # 0 /\ txs.sob.kept /\ ~with]
       PROVE  StampFollows'
  <2>1. stamp + k \in Nat BY <1>2, <1>8
  <2>2. ~(sent.next.known /\ ~eff.timed /\ stamp # sent.next.stamp) BY <1>12
  <2>3. ~(n # 0 /\ txs.sob.kept /\ ~with) BY <1>9
  <2>4. sent' = [next |-> [known |-> TRUE, stamp |-> stamp + k], gap |-> FALSE, lostSob |-> FALSE]
    BY <1>13, <2>2, <2>3
  <2> QED BY <1>7, <1>13, <2>1, <2>4 DEF StampFollows, SendsContinue
<1>14. ASSUME txs' = [txs EXCEPT !.hasTime = TRUE, !.sob = kept],
              sent' = [sent EXCEPT !.next = Unknown]
       PROVE  StampFollows'
  BY <1>1, <1>7, <1>14 DEF StampFollows, SendsContinue, Unknown
<1> QED BY <1>10, <1>13, <1>14

\* A send without a time begins where the one before it ended, and a kept start of a burst
\* is on the next samples, whatever failed in between (send of iqtaxi_tx_streamer.hpp).
THEOREM BurstsContinue ==
    ASSUME UhdParameters
    PROVE  UhdSpec => []SendsContinue
<1>1. UhdInit => StampFollows
  BY DEF UhdInit, StampFollows, SendsContinue, NoSob, Untimed, Unknown
<1>2. ASSUME StampFollows, [UhdNext]_uhdStreamVars PROVE StampFollows'
  <2>1. CASE UNCHANGED <<txs, sent>> BY <2>1, <1>2 DEF StampFollows, SendsContinue
  <2>2. ASSUME NEW time \in {Untimed} \cup [timed: {TRUE}, stamp: Stamps], SendSob(time)
        PROVE  StampFollows'
    <3>4. Untimed \in [timed: BOOLEAN, stamp: Nat] BY DEF Untimed
    <3>5. Stamps \subseteq Nat BY DEF UhdParameters
    <3>1. time \in [timed: BOOLEAN, stamp: Nat] BY <3>4, <3>5
    <3>2. [kept |-> TRUE, time |-> time] \in [kept: BOOLEAN, time: [timed: BOOLEAN, stamp: Nat]]
      BY <3>1
    <3>3. txs' = [txs EXCEPT !.sob = [kept |-> TRUE, time |-> time]] /\ sent' = sent
      BY <2>2 DEF SendSob
    <3> QED BY <1>2, <3>2, <3>3 DEF StampFollows, SendsContinue
  <2>3. ASSUME UhdNext PROVE UNCHANGED <<txs, sent>>
            \/ \E time \in {Untimed} \cup [timed: {TRUE}, stamp: Stamps]:
                  SendSob(time) \/ \E n \in Sizes \cup {0}: Send(n, time)
    BY <2>3 DEF UhdNext, MakeStreamer, StartContinuous, StopContinuous, StartBurst, Release,
       Gone, RxCommand, BurstEnds
  <2> QED BY <1>2, <2>1, <2>2, <2>3, SendFollows DEF uhdStreamVars
<1>3. StampFollows => SendsContinue BY DEF StampFollows
<1> QED BY <1>1, <1>2, <1>3, PTL DEF UhdSpec

-----------------------------------------------------------------------------
(* UhdRate *)

Places == {"rest", "open", "set", "publish", "register", "look", "update", "get"}
RateShapes ==
    /\ host \in [open: BOOLEAN, tick: UhdRates] /\ clock \in [rate: UhdRates, ticks: Nat]
    /\ stream \in [made: BOOLEAN, known: BOOLEAN, rate: UhdRates]
    /\ calls \in [Users -> [at: Places, want: UhdRates, creates: BOOLEAN]]
    /\ uhdPast \in [seconds: Nat, jumped: BOOLEAN, dirty: BOOLEAN, calls: Nat, errors: Nat]
\* One thread is between its new rate and its publication, and holds the device's rate.
OnePublisher ==
    \A u \in Users: calls[u].at = "publish" =>
        host.tick = clock.rate /\ \A v \in Users: calls[v].at = "publish" => u = v
\* One thread at a time creates a streamer, which is there, and known once registered.
OneCreator ==
    \A u \in Users:
        /\ calls[u].creates => /\ calls[u].at \notin {"rest", "open"} /\ stream.made
                               /\ calls[u].at # "register" => stream.known
                               /\ \A v \in Users: calls[v].creates => u = v
        /\ calls[u].at \in {"register", "look", "update", "get"} => calls[u].creates
Quiet == \A u \in Users: calls[u].at # "publish" /\ ~calls[u].creates
TickIsRate == host.open /\ ~uhdPast.dirty => host.tick = clock.rate
StreamFollows ==
    /\ stream.made /\ ~stream.known => \E u \in Users: calls[u].creates
    /\ stream.made /\ host.open /\ ~uhdPast.dirty /\ Quiet => stream.rate = clock.rate
RateInv == RateShapes /\ OnePublisher /\ OneCreator /\ TickIsRate /\ StreamFollows

-----------------------------------------------------------------------------

LEMMA DefaultIsRate == ASSUME RateParameters PROVE Default \in UhdRates
<1> DEFINE Below == OpToRel(<, Nat)
<1>1. UhdRates \subseteq Nat /\ UhdRates # {} BY DEF RateParameters
<1>2. IsWellFoundedOn(Below, Nat) BY NatLessThanWellFounded
<1>3. \A x, y \in Nat: <<y, x>> \notin Below => x <= y BY DEF OpToRel
<1> HIDE DEF Below
<1>4. \E r \in UhdRates: \A s \in UhdRates: <<s, r>> \notin Below BY <1>1, <1>2, WFMin
<1>5. \E r \in UhdRates: \A s \in UhdRates: r <= s BY <1>1, <1>3, <1>4
<1> QED BY <1>5 DEF Default

\* A second is as many ticks as the rate, whatever the rate.
LEMMA WholeSeconds == ASSUME NEW s \in Nat, NEW r \in Nat \ {0} PROVE (s * r) \div r = s
BY SMT

LEMMA RateInitially == ASSUME RateParameters, RateInit PROVE RateInv /\ TimeKept
<1>1. Default \in UhdRates BY DefaultIsRate
<1>2. Resting \in [at: Places, want: UhdRates, creates: BOOLEAN] /\ Resting.at = "rest"
      /\ Resting.creates = FALSE
  BY <1>1 DEF Resting, Places
<1>3. stream \in [made: BOOLEAN, known: BOOLEAN, rate: UhdRates] /\ ~stream.made /\ ~stream.known
  BY <1>1 DEF RateInit, NoStream
<1>4. PICK r \in UhdRates: clock = [rate |-> r, ticks |-> 0] BY DEF RateInit
<1>5. clock \in [rate: UhdRates, ticks: Nat] /\ clock.ticks = 0 BY <1>4
<1>6. host \in [open: BOOLEAN, tick: UhdRates] /\ ~host.open BY <1>1 DEF RateInit
<1>7. uhdPast \in [seconds: Nat, jumped: BOOLEAN, dirty: BOOLEAN, calls: Nat, errors: Nat]
      /\ uhdPast.seconds = 0
  BY DEF RateInit
<1>8. calls \in [Users -> [at: Places, want: UhdRates, creates: BOOLEAN]]
      /\ \A u \in Users: calls[u].at = "rest" /\ calls[u].creates = FALSE
  BY <1>2 DEF RateInit
<1>9. TimeKept
  <2>1. clock.rate \in Nat BY <1>5 DEF RateParameters
  <2> QED BY <1>5, <1>7, <2>1 DEF TimeKept
<1> QED BY <1>3, <1>5, <1>6, <1>7, <1>8, <1>9 DEF RateInv, RateShapes, OnePublisher, OneCreator,
     TickIsRate, StreamFollows

\* What a step does to the call of its thread: nothing to those of others.
LEMMA ThreadMoves ==
    ASSUME RateShapes, NEW u \in Users, NEW c \in [at: Places, want: UhdRates, creates: BOOLEAN],
           calls' = [calls EXCEPT ![u] = c]
    PROVE  /\ calls' \in [Users -> [at: Places, want: UhdRates, creates: BOOLEAN]]
           /\ calls'[u] = c /\ \A v \in Users: v # u => calls'[v] = calls[v]
BY DEF RateShapes

Past == [seconds: Nat, jumped: BOOLEAN, dirty: BOOLEAN, calls: Nat, errors: Nat]
LEMMA BeginDoes ==
    ASSUME RateInv, NEW u \in Users,
           NEW c \in [at: Places, want: UhdRates, creates: BOOLEAN], Begin(u, c)
    PROVE  /\ uhdPast' \in Past /\ uhdPast'.dirty = uhdPast.dirty
           /\ uhdPast'.jumped = uhdPast.jumped /\ uhdPast'.seconds = uhdPast.seconds
           /\ calls' \in [Users -> [at: Places, want: UhdRates, creates: BOOLEAN]]
           /\ calls'[u] = c /\ \A v \in Users: v # u => calls'[v] = calls[v]
<1> DEFINE n == uhdPast.calls + 1
<1>1. n \in Nat /\ uhdPast' = [uhdPast EXCEPT !.calls = n] /\ calls' = [calls EXCEPT ![u] = c]
  BY DEF Begin, RateInv, RateShapes
<1> HIDE DEF n
<1>2. RateShapes BY DEF RateInv
<1> QED BY <1>1, <1>2, ThreadMoves DEF RateShapes, Past

LEMMA RestingTyped ==
    ASSUME RateParameters
    PROVE  /\ Resting \in [at: Places, want: UhdRates, creates: BOOLEAN] /\ Resting.at = "rest"
           /\ Resting.creates = FALSE
           /\ NoStream \in [made: BOOLEAN, known: BOOLEAN, rate: UhdRates]
           /\ NoStream.made = FALSE /\ NoStream.known = FALSE
BY DefaultIsRate DEF Resting, NoStream, Places

LEMMA OpenKeeps == ASSUME RateParameters, RateInv, NEW u \in Users, OpenUhd(u) PROVE RateInv'
<1> DEFINE c == [Resting EXCEPT !.at = "open"]
<1>1. c \in [at: Places, want: UhdRates, creates: BOOLEAN] /\ c.at = "open" /\ c.creates = FALSE
  BY RestingTyped DEF Places
<1>2. Begin(u, c) /\ AllRest /\ ~host.open /\ UNCHANGED <<clock, stream>>
      /\ host' = [host EXCEPT !.tick = Default]
  BY DEF OpenUhd
<1>3. host' \in [open: BOOLEAN, tick: UhdRates] /\ ~host'.open
  BY <1>2, DefaultIsRate DEF RateInv, RateShapes
<1> HIDE DEF c
<1>4. \A v \in Users: calls'[v].at \in {"rest", "open"} /\ calls'[v].creates = FALSE
  BY <1>1, <1>2, BeginDoes DEF AllRest, RateInv, OneCreator, RateShapes
<1>5. ~stream.made \/ stream.known
  BY <1>2 DEF AllRest, RateInv, OneCreator, StreamFollows
<1> QED
  BY <1>1, <1>2, <1>3, <1>4, <1>5, BeginDoes DEF RateInv, RateShapes, OnePublisher, OneCreator,
     TickIsRate, StreamFollows, Past

Callings == [at: Places, want: UhdRates, creates: BOOLEAN]

LEMMA SetRateKeeps ==
    ASSUME RateParameters, RateInv, NEW u \in Users, NEW r \in UhdRates, SetRate(u, r)
    PROVE  RateInv'
<1> DEFINE c == [Resting EXCEPT !.at = "set", !.want = r]
<1>1. c \in Callings /\ c.at = "set" /\ c.creates = FALSE
  BY RestingTyped DEF Places, Callings
<1>2. Begin(u, c) /\ calls[u].at = "rest" /\ UNCHANGED <<host, clock, stream>> BY DEF SetRate
<1> HIDE DEF c
<1>3. calls[u].creates = FALSE BY <1>2 DEF RateInv, OneCreator, RateShapes
<1>4. /\ uhdPast' \in Past /\ uhdPast'.dirty = uhdPast.dirty
      /\ calls' \in [Users -> Callings]
      /\ calls'[u] = c /\ \A v \in Users: v # u => calls'[v] = calls[v]
  BY <1>1, <1>2, BeginDoes DEF Callings
<1>5. RateShapes' BY <1>2, <1>4 DEF RateInv, RateShapes, Past, Callings
<1>6. OnePublisher' BY <1>1, <1>2, <1>4 DEF RateInv, OnePublisher
<1>7. OneCreator' BY <1>1, <1>2, <1>4 DEF RateInv, OneCreator
<1>8. TickIsRate' BY <1>2, <1>4 DEF RateInv, TickIsRate
<1>9. StreamFollows' BY <1>1, <1>2, <1>3, <1>4 DEF RateInv, StreamFollows, Quiet
<1> QED BY <1>5, <1>6, <1>7, <1>8, <1>9 DEF RateInv

LEMMA CreateKeeps ==
    ASSUME RateParameters, RateInv, NEW u \in Users, CreateStream(u)
    PROVE  RateInv'
<1> DEFINE c == [Resting EXCEPT !.at = "register", !.creates = TRUE]
<1>1. c \in Callings /\ c.at = "register" /\ c.creates = TRUE
  BY RestingTyped DEF Places, Callings
<1>2. Begin(u, c) /\ SetupFree /\ UNCHANGED <<host, clock>>
      /\ stream' = [NoStream EXCEPT !.made = TRUE, !.rate = host.tick]
  BY DEF CreateStream
<1>3. /\ stream' \in [made: BOOLEAN, known: BOOLEAN, rate: UhdRates]
      /\ stream'.made /\ ~stream'.known
  BY <1>2, RestingTyped DEF RateInv, RateShapes
<1> HIDE DEF c
<1>4. /\ uhdPast' \in Past /\ uhdPast'.dirty = uhdPast.dirty
      /\ calls' \in [Users -> Callings]
      /\ calls'[u] = c /\ \A v \in Users: v # u => calls'[v] = calls[v]
  BY <1>1, <1>2, BeginDoes DEF Callings
<1>5. RateShapes' BY <1>2, <1>3, <1>4 DEF RateInv, RateShapes, Past, Callings
<1>6. OnePublisher' BY <1>1, <1>2, <1>4 DEF RateInv, OnePublisher
<1>7. OneCreator' BY <1>1, <1>2, <1>3, <1>4 DEF RateInv, OneCreator, SetupFree
<1>8. TickIsRate' BY <1>2, <1>4 DEF RateInv, TickIsRate
<1>9. StreamFollows' BY <1>1, <1>4 DEF StreamFollows, Quiet
<1> QED BY <1>5, <1>6, <1>7, <1>8, <1>9 DEF RateInv

\* A thread that creates a streamer goes on creating it.
LEMMA CreatorKeeps ==
    ASSUME RateInv, NEW u \in Users, calls[u].creates,
           calls[u].at \in {"register", "look", "update", "get"},
           calls' \in [Users -> Callings], \A v \in Users: v # u => calls'[v] = calls[v],
           calls'[u].creates, calls'[u].at \in {"look", "update", "get", "set"},
           stream' \in [made: BOOLEAN, known: BOOLEAN, rate: UhdRates], stream'.made = stream.made,
           stream.known => stream'.known,
           calls[u].at = "register" => stream'.known, UNCHANGED <<host, clock, uhdPast>>
    PROVE  RateInv'
<1>1. RateShapes' BY DEF RateInv, RateShapes, Callings
<1>2. OnePublisher' BY DEF RateInv, OnePublisher
<1>3. OneCreator' BY DEF RateInv, OneCreator
<1>4. TickIsRate' BY DEF RateInv, TickIsRate
<1>5. StreamFollows' BY DEF StreamFollows, Quiet
<1> QED BY <1>1, <1>2, <1>3, <1>4, <1>5 DEF RateInv

LEMMA CreationKeeps ==
    ASSUME RateInv, NEW u \in Users, Register(u) \/ LookUp(u) \/ UpdateStream(u)
    PROVE  RateInv'
<1>1. /\ calls[u] \in Callings /\ calls[u].creates /\ host.tick \in UhdRates
      /\ calls[u].want \in UhdRates
      /\ calls \in [Users -> Callings]
      /\ stream \in [made: BOOLEAN, known: BOOLEAN, rate: UhdRates]
  BY DEF RateInv, RateShapes, OneCreator, Register, LookUp, UpdateStream, Callings
<1>2. CASE Register(u)
  <2>1. /\ calls' \in [Users -> Callings] /\ \A v \in Users: v # u => calls'[v] = calls[v]
        /\ calls'[u].creates /\ calls'[u].at = "look" /\ calls[u].at = "register"
    BY <1>1, <1>2 DEF Register, Move, Callings, Places
  <2>2. /\ stream' \in [made: BOOLEAN, known: BOOLEAN, rate: UhdRates] /\ stream'.made = stream.made
        /\ stream'.known
    BY <1>1, <1>2 DEF Register
  <2> QED BY <1>1, <1>2, <2>1, <2>2, CreatorKeeps DEF Register
<1>3. CASE LookUp(u)
  <2>1. /\ calls' \in [Users -> Callings] /\ \A v \in Users: v # u => calls'[v] = calls[v]
        /\ calls'[u].creates /\ calls'[u].at = "update" /\ calls[u].at = "look"
    BY <1>1, <1>3 DEF LookUp, Callings, Places
  <2> QED BY <1>1, <1>3, <2>1, CreatorKeeps DEF LookUp
<1>4. CASE UpdateStream(u)
  <2>1. /\ calls' \in [Users -> Callings] /\ \A v \in Users: v # u => calls'[v] = calls[v]
        /\ calls'[u].creates /\ calls'[u].at = "get" /\ calls[u].at = "update"
    BY <1>1, <1>4 DEF UpdateStream, Move, Callings, Places
  <2>2. /\ stream' \in [made: BOOLEAN, known: BOOLEAN, rate: UhdRates] /\ stream'.made = stream.made
        /\ stream'.known = stream.known
    BY <1>1, <1>4 DEF UpdateStream
  <2> QED BY <1>1, <1>4, <2>1, <2>2, CreatorKeeps DEF UpdateStream
<1> QED BY <1>2, <1>3, <1>4

\* A call throws: a streamer it was creating is gone.
LEMMA ThrownKeeps ==
    ASSUME RateParameters, RateInv, NEW u \in Users, Thrown(u), host' = host,
           calls[u].at \in {"open", "set", "get"},
           clock' \in [rate: UhdRates, ticks: Nat], uhdPast' \in Past,
           \/ uhdPast'.dirty /\ CtrlFree
           \/ clock' = clock /\ calls[u].creates /\ uhdPast'.dirty = uhdPast.dirty
    PROVE  RateInv'
<1>1. /\ calls \in [Users -> Callings] /\ Resting \in Callings /\ Resting.at = "rest"
      /\ Resting.creates = FALSE
      /\ NoStream \in [made: BOOLEAN, known: BOOLEAN, rate: UhdRates]
      /\ NoStream.made = FALSE /\ NoStream.known = FALSE
  BY RestingTyped DEF RateInv, RateShapes, Callings
<1>2. /\ calls' \in [Users -> Callings] /\ calls'[u] = Resting
      /\ \A v \in Users: v # u => calls'[v] = calls[v]
  BY <1>1 DEF Thrown
<1>3. stream' = IF calls[u].creates THEN NoStream ELSE stream BY DEF Thrown
<1>4. RateShapes' BY <1>1, <1>2, <1>3 DEF RateInv, RateShapes, Past, Callings
<1>5. OnePublisher'
  <2>1. CASE CtrlFree BY <1>1, <1>2, <2>1 DEF OnePublisher, CtrlFree
  <2>2. CASE clock' = clock BY <1>1, <1>2, <2>2 DEF RateInv, OnePublisher
  <2> QED BY <2>1, <2>2
<1>6. OneCreator' BY <1>1, <1>2, <1>3 DEF RateInv, OneCreator
<1>7. TickIsRate' BY DEF RateInv, TickIsRate
<1>8. StreamFollows' BY <1>1, <1>2, <1>3 DEF RateInv, StreamFollows, Quiet
<1> QED BY <1>4, <1>5, <1>6, <1>7, <1>8 DEF RateInv

LEMMA GetRateKeeps ==
    ASSUME RateParameters, RateInv, NEW u \in Users, GetRate(u)
    PROVE  RateInv'
<1>1. /\ calls[u] \in Callings /\ calls[u].creates /\ calls[u].at = "get" /\ clock.rate \in UhdRates
      /\ calls \in [Users -> Callings] /\ UNCHANGED <<host, clock>>
      /\ stream \in [made: BOOLEAN, known: BOOLEAN, rate: UhdRates]
      /\ clock \in [rate: UhdRates, ticks: Nat] /\ uhdPast \in Past
  BY DEF RateInv, RateShapes, OneCreator, GetRate, Callings, Past
<1>2. CASE calls' = [calls EXCEPT ![u].at = "set", ![u].want = clock.rate]
           /\ UNCHANGED <<stream, uhdPast>>
  <2>1. /\ calls' \in [Users -> Callings] /\ \A v \in Users: v # u => calls'[v] = calls[v]
        /\ calls'[u].creates /\ calls'[u].at = "set"
    BY <1>1, <1>2 DEF Callings, Places
  <2> QED BY <1>1, <1>2, <2>1, CreatorKeeps
<1>3. CASE Thrown(u) /\ uhdPast' = [uhdPast EXCEPT !.errors = @ + 1]
  <2> DEFINE n == uhdPast.errors + 1
  <2>1. n \in Nat /\ uhdPast' = [uhdPast EXCEPT !.errors = n] BY <1>1, <1>3 DEF Past
  <2> HIDE DEF n
  <2>2. uhdPast' \in Past /\ uhdPast'.dirty = uhdPast.dirty BY <1>1, <2>1 DEF Past
  <2> QED BY <1>1, <1>3, <2>2, ThrownKeeps
<1> QED BY <1>2, <1>3 DEF GetRate

\* The device's counter after a step, and its types.
LEMMA ClockTyped ==
    ASSUME RateParameters, RateShapes, TimeKept, NEW u \in Users, SetClock(u)
    PROVE  /\ clock' \in [rate: UhdRates, ticks: Nat] /\ uhdPast' \in Past
           /\ TimeKept'
<1> DEFINE r == calls[u].want
           seconds == clock.ticks \div OldRate
           Set == [rate |-> r, ticks |-> seconds * r]
           Halfway == [clock EXCEPT !.rate = r]
<1>1. /\ r \in UhdRates /\ clock \in [rate: UhdRates, ticks: Nat] /\ clock.rate \in Nat \ {0}
      /\ clock.ticks \in Nat /\ uhdPast \in Past /\ r \in Nat /\ uhdPast.seconds \in Nat
      /\ clock.rate \in UhdRates
  BY DEF RateShapes, RateParameters, Past
<1>2. clock.ticks \div clock.rate \in Nat BY <1>1
<1>3. seconds \in Nat BY <1>2 DEF OldRate
<1>4. ~uhdPast.jumped => seconds = uhdPast.seconds
  BY <1>1, WholeSeconds DEF TimeKept, OldRate
<1>5. seconds * r \in Nat
  <2> HIDE DEF seconds, r
  <2> QED BY <1>1, <1>3
<1>6. /\ Set \in [rate: UhdRates, ticks: Nat] /\ Set.rate = r /\ Set.ticks = seconds * r
      /\ Halfway \in [rate: UhdRates, ticks: Nat]
  <2> HIDE DEF seconds, r
  <2> QED BY <1>1, <1>5
<1>7. CASE UNCHANGED uhdPast /\ clock' = IF AlreadySet(r) THEN clock ELSE Set
  <2>1. clock' = clock \/ clock' = Set BY <1>7
  <2> HIDE DEF seconds, r, Set
  <2> QED BY <1>1, <1>4, <1>6, <1>7, <2>1 DEF TimeKept
<1>8. CASE /\ clock' \in {clock, Halfway, Set}
           /\ uhdPast' = [uhdPast EXCEPT !.errors = @ + 1, !.dirty = TRUE,
                              !.jumped = @ \/ (clock' = Halfway /\ clock' # clock)]
  <2> DEFINE n == uhdPast.errors + 1
             jumps == clock' = Halfway /\ clock' # clock
  <2>1. n \in Nat BY <1>1 DEF Past
  <2>2. uhdPast' = [uhdPast EXCEPT !.errors = n, !.dirty = TRUE, !.jumped = @ \/ jumps] BY <1>8
  <2>3. jumps \in BOOLEAN OBVIOUS
  <2>4. clock' # clock /\ ~jumps => clock' = Set BY <1>8
  <2>7. clock' \in {clock, Halfway, Set} BY <1>8
  <2> HIDE DEF n, jumps, seconds, r, Set, Halfway
  <2>5. /\ uhdPast' \in Past /\ uhdPast'.seconds = uhdPast.seconds
        /\ uhdPast'.jumped = (uhdPast.jumped \/ jumps)
    BY <1>1, <2>1, <2>2, <2>3 DEF Past
  <2>6. clock' \in [rate: UhdRates, ticks: Nat] BY <1>1, <1>6, <2>7
  <2> QED BY <1>1, <1>4, <1>6, <2>4, <2>5, <2>6 DEF TimeKept
<1> QED BY <1>7, <1>8 DEF SetClock

LEMMA SetClockKeeps ==
    ASSUME RateParameters, RateInv, TimeKept, NEW u \in Users, SetClock(u)
    PROVE  RateInv'
<1> DEFINE r == calls[u].want
<1>1. /\ calls[u] \in Callings /\ calls \in [Users -> Callings] /\ calls[u].at \in {"open", "set"}
      /\ r \in UhdRates /\ CtrlFree
      /\ clock' \in [rate: UhdRates, ticks: Nat] /\ uhdPast' \in Past
  BY ClockTyped DEF RateInv, RateShapes, SetClock, Callings
<1>2. CASE /\ Move(u, "publish") /\ UNCHANGED <<stream, uhdPast>>
           /\ host' = [host EXCEPT !.tick = r]
           /\ clock' = IF AlreadySet(r) THEN clock
                       ELSE [rate |-> r, ticks |-> (clock.ticks \div OldRate) * r]
  <2>1. /\ calls' \in [Users -> Callings] /\ \A v \in Users: v # u => calls'[v] = calls[v]
        /\ calls'[u].creates = calls[u].creates /\ calls'[u].at = "publish"
    BY <1>1, <1>2 DEF Move, Callings, Places
  <2>2. host' \in [open: BOOLEAN, tick: UhdRates] /\ host'.tick = r /\ host'.open = host.open
    BY <1>1, <1>2 DEF RateInv, RateShapes
  <2>3. clock'.rate = r
    <3> HIDE DEF r
    <3> QED BY <1>2 DEF AlreadySet
  <2>4. RateShapes' BY <1>1, <1>2, <2>1, <2>2 DEF RateInv, RateShapes, Callings
  <2>5. OnePublisher' BY <1>1, <2>1, <2>2, <2>3 DEF OnePublisher, CtrlFree
  <2>6. OneCreator' BY <1>1, <1>2, <2>1 DEF RateInv, OneCreator
  <2>7. TickIsRate' BY <2>2, <2>3 DEF TickIsRate
  <2>8. StreamFollows' BY <1>2, <2>1 DEF RateInv, StreamFollows, Quiet
  <2> QED BY <2>4, <2>5, <2>6, <2>7, <2>8 DEF RateInv
<1>3. CASE Thrown(u) /\ UNCHANGED host /\ uhdPast'.dirty
  BY <1>1, <1>3, ThrownKeeps
<1>4. ASSUME NEW b, uhdPast' = [uhdPast EXCEPT !.errors = @ + 1, !.dirty = TRUE, !.jumped = b]
      PROVE  uhdPast'.dirty
  BY <1>4 DEF RateInv, RateShapes
<1> QED BY <1>2, <1>3, <1>4 DEF SetClock

LEMMA PublishKeeps ==
    ASSUME RateParameters, RateInv, NEW u \in Users, Publish(u)
    PROVE  RateInv'
<1>1. /\ calls \in [Users -> Callings] /\ Resting \in Callings /\ Resting.at = "rest"
      /\ Resting.creates = FALSE /\ calls[u].at = "publish"
      /\ host.tick = clock.rate /\ host.tick \in UhdRates
      /\ stream \in [made: BOOLEAN, known: BOOLEAN, rate: UhdRates]
  BY RestingTyped DEF RateInv, RateShapes, Callings, Publish, OnePublisher
<1>2. /\ calls' \in [Users -> Callings] /\ calls'[u] = Resting
      /\ \A v \in Users: v # u => calls'[v] = calls[v] /\ calls[v].at # "publish"
  BY <1>1 DEF Publish, RateInv, OnePublisher
<1>3. /\ host' \in [open: BOOLEAN, tick: UhdRates] /\ host'.tick = host.tick /\ clock' = clock
      /\ uhdPast' \in Past
  BY DEF Publish, RateInv, RateShapes, Past
<1>4. /\ stream' \in [made: BOOLEAN, known: BOOLEAN, rate: UhdRates]
      /\ stream'.made = stream.made /\ stream'.known = stream.known
      /\ stream.known => stream'.rate = clock.rate
  BY <1>1 DEF Publish, Published
<1>5. calls[u].creates => stream.known BY <1>1 DEF RateInv, OneCreator
<1>6. RateShapes' BY <1>2, <1>3, <1>4 DEF RateInv, RateShapes, Callings, Past
<1>7. OnePublisher' BY <1>1, <1>2 DEF OnePublisher
<1>8. OneCreator' BY <1>1, <1>2, <1>4 DEF RateInv, OneCreator
<1>9. TickIsRate' BY <1>1, <1>3 DEF TickIsRate
<1>10. StreamFollows'
  <2>1. ASSUME stream.made, ~stream.known PROVE \E v \in Users: calls'[v].creates
    BY <1>2, <1>5, <2>1 DEF RateInv, StreamFollows
  <2>2. stream'.made /\ Quiet' => stream'.rate = clock'.rate
    BY <1>3, <1>4, <2>1 DEF Quiet
  <2> QED BY <1>4, <2>1, <2>2 DEF StreamFollows
<1> QED BY <1>6, <1>7, <1>8, <1>9, <1>10 DEF RateInv

LEMMA RestKeeps ==
    ASSUME RateParameters, RateInv, CloseUhd \/ ReleaseStream \/ Second
    PROVE  RateInv'
<1>1. NoStream \in [made: BOOLEAN, known: BOOLEAN, rate: UhdRates] /\ NoStream.made = FALSE
  BY RestingTyped
<1>2. CASE CloseUhd
  <2>1. host' \in [open: BOOLEAN, tick: UhdRates] /\ ~host'.open /\ host'.tick = host.tick
    BY <1>2 DEF CloseUhd, RateInv, RateShapes
  <2>2. stream' = NoStream /\ UNCHANGED <<clock, calls, uhdPast>> /\ AllRest BY <1>2 DEF CloseUhd
  <2>3. OneCreator' /\ OnePublisher' /\ TickIsRate'
    BY <2>1, <2>2 DEF RateInv, OneCreator, OnePublisher, TickIsRate, AllRest
  <2>4. StreamFollows' BY <1>1, <2>2 DEF StreamFollows
  <2> QED BY <1>1, <2>1, <2>2, <2>3, <2>4 DEF RateInv, RateShapes
<1>3. CASE ReleaseStream
  <2>1. stream' = NoStream /\ UNCHANGED <<host, clock, calls, uhdPast>> /\ SetupFree
    BY <1>3 DEF ReleaseStream
  <2>2. OneCreator' /\ OnePublisher' /\ TickIsRate'
    BY <2>1 DEF RateInv, OneCreator, OnePublisher, TickIsRate, SetupFree
  <2>3. StreamFollows' BY <1>1, <2>1 DEF StreamFollows
  <2> QED BY <1>1, <2>1, <2>2, <2>3 DEF RateInv, RateShapes
<1>4. CASE Second
  <2> DEFINE n == uhdPast.seconds + 1
             k == clock.ticks + clock.rate
  <2>0. /\ uhdPast.seconds \in Nat /\ clock.rate \in UhdRates /\ UhdRates \subseteq Nat
        /\ clock.ticks \in Nat
    BY DEF RateInv, RateShapes, RateParameters
  <2>5. clock.rate \in Nat BY <2>0
  <2>1. n \in Nat /\ k \in Nat
    <3> HIDE <1>4
    <3> QED BY <2>0, <2>5
  <2>2. uhdPast' = [uhdPast EXCEPT !.seconds = n] /\ clock' = [clock EXCEPT !.ticks = k]
        /\ UNCHANGED <<host, stream, calls>>
    BY <1>4 DEF Second
  <2> HIDE DEF n, k
  <2>3. /\ uhdPast' \in Past /\ uhdPast'.dirty = uhdPast.dirty
        /\ clock' \in [rate: UhdRates, ticks: Nat] /\ clock'.rate = clock.rate
    BY <2>1, <2>2 DEF RateInv, RateShapes, Past
  <2> QED BY <2>2, <2>3 DEF RateInv, RateShapes, OneCreator, OnePublisher, TickIsRate,
     StreamFollows, Quiet, Past
<1> QED BY <1>2, <1>3, <1>4

LEMMA TimeStep ==
    ASSUME RateParameters, RateInv, TimeKept, RateNext
    PROVE  TimeKept'
<1>1. CASE Second
  <2> DEFINE n == uhdPast.seconds + 1
             k == clock.ticks + clock.rate
  <2>1. /\ uhdPast.seconds \in Nat /\ clock.rate \in Nat /\ clock.ticks \in Nat
        /\ clock \in [rate: UhdRates, ticks: Nat] /\ uhdPast \in Past
    BY DEF RateInv, RateShapes, RateParameters, Past
  <2>2. uhdPast' = [uhdPast EXCEPT !.seconds = n] /\ clock' = [clock EXCEPT !.ticks = k]
    BY <1>1 DEF Second
  <2>3. (uhdPast.seconds + 1) * clock.rate = uhdPast.seconds * clock.rate + clock.rate
    BY <2>1
  <2>4. /\ uhdPast'.seconds = n /\ uhdPast'.jumped = uhdPast.jumped
        /\ clock'.ticks = k /\ clock'.rate = clock.rate
    <3> HIDE DEF n, k
    <3> QED BY <2>1, <2>2 DEF Past
  <2> QED BY <2>3, <2>4 DEF TimeKept
<1>2. ASSUME NEW u \in Users, SetClock(u) PROVE TimeKept'
  BY <1>2, ClockTyped DEF RateInv
<1>3. ASSUME uhdPast'.jumped = uhdPast.jumped, uhdPast'.seconds = uhdPast.seconds, clock' = clock
      PROVE  TimeKept'
  BY <1>3 DEF TimeKept
<1>4. ASSUME NEW u \in Users, NEW c, Begin(u, c), clock' = clock PROVE TimeKept'
  BY <1>3, <1>4 DEF Begin, RateInv, RateShapes
<1>5. ASSUME NEW u \in Users, GetRate(u) \/ Publish(u) PROVE TimeKept'
  BY <1>3, <1>5 DEF GetRate, Publish, RateInv, RateShapes
<1>6. ASSUME NEW u \in Users, Register(u) \/ LookUp(u) \/ UpdateStream(u) PROVE TimeKept'
  BY <1>3, <1>6 DEF Register, LookUp, UpdateStream
<1>7. CASE CloseUhd \/ ReleaseStream BY <1>3, <1>7 DEF CloseUhd, ReleaseStream
<1>8. ASSUME NEW u \in Users, OpenUhd(u) \/ CreateStream(u) \/ \E r \in UhdRates: SetRate(u, r)
      PROVE  TimeKept'
  BY <1>4, <1>8 DEF OpenUhd, CreateStream, SetRate
<1> QED BY <1>1, <1>2, <1>5, <1>6, <1>7, <1>8 DEF RateNext

LEMMA RateInvariant == ASSUME RateParameters PROVE RateSpec => [](RateInv /\ TimeKept)
<1>1. RateInit => RateInv /\ TimeKept BY RateInitially
<1>2. ASSUME RateInv, TimeKept, [RateNext]_rateVars PROVE RateInv' /\ TimeKept'
  <2>1. CASE UNCHANGED rateVars
    BY <1>2, <2>1 DEF rateVars, RateInv, RateShapes, OneCreator, OnePublisher, TickIsRate,
       StreamFollows, Quiet, TimeKept
  <2>2. CASE RateNext
    <3>1. TimeKept' BY <1>2, <2>2, TimeStep
    <3>2. RateInv'
      BY <1>2, <2>2, OpenKeeps, SetRateKeeps, CreateKeeps, CreationKeeps, GetRateKeeps,
         SetClockKeeps, PublishKeeps, RestKeeps
         DEF RateNext
    <3> QED BY <3>1, <3>2
  <2> QED BY <1>2, <2>1, <2>2
<1> QED BY <1>1, <1>2, PTL DEF RateSpec

\* Whoever changes the rate, and whoever makes a streamer meanwhile: when all calls have
\* returned, the device object, the streamer and the device have one rate, as long as the last
\* change succeeded (set_sample_clock_preserving_time, update_tick_rate, get_rx_stream).
THEOREM OneRateForAll == ASSUME RateParameters PROVE RateSpec => []RatesAgree
<1>1. RateInv => RatesAgree
  BY DEF RateInv, TickIsRate, StreamFollows, OneCreator, Quiet, RatesAgree, AllRest
<1> QED BY <1>1, RateInvariant, PTL

\* A rate change keeps the device's absolute time, for any rates and whatever rate another
\* program left it at (set_sample_clock_preserving_time).
THEOREM TimeSurvivesRates == ASSUME RateParameters PROVE RateSpec => []TimeKept
BY RateInvariant, PTL

-----------------------------------------------------------------------------
(* SdrppSource *)

\* What the GUI thread has still to do: what remains of a start, a tuning or a stop.
Todos == {<<>>, <<"open", "run">>, <<"run">>, <<"tune">>, Sdrpp!StopSteps,
          <<"join", "clear", "stop_rx", "cleanup">>, <<"clear", "stop_rx", "cleanup">>,
          <<"stop_rx", "cleanup">>, <<"cleanup">>}
\* The step that comes next.
FirstOf(todo) == IF todo = <<>> THEN "idle" ELSE Head(todo)
Step == FirstOf(module.todo)
Modules == [running: BOOLEAN, freq: {0, 1}, todo: Todos]
Spents == [clicks: Nat, errors: Nat, untuned: BOOLEAN, unstopped: BOOLEAN, overwritten: BOOLEAN]
SdrppShapes ==
    /\ module \in Modules
    /\ thread \in {"none", "loop", "recv", "swap", "ended"} /\ held \in BOOLEAN
    /\ rx \in [on: BOOLEAN, freq: {0, 1}] /\ pipe \in [full: BOOLEAN, stopped: BOOLEAN]
    /\ spent \in Spents
\* The thread is there from the start's last step to the stop's join, the writer is
\* stopped from the first step of the stop to the one behind the join, and the device
\* is held from the opening to the end of the stop.
ThreadWhile == thread # "none" <=> module.running \/ Step \in {"stop_writer", "join"}
WriterStopped == pipe.stopped <=> Step \in {"join", "clear"}
HeldWhile == held <=> module.running \/ Step \notin {"idle", "open"}
RunsWhile == /\ module.running => Step \in {"idle", "tune"}
             /\ Step = "tune" => module.running
\* A device that streams without a holder was not stopped because a command failed.
QuietUnheld == ~held \/ Step = "cleanup" => (rx.on => spent.unstopped)
FrequencyIsSet == held /\ ~spent.untuned /\ Step \in {"idle", "run"} => rx.freq = module.freq
SdrppInv ==
    /\ SdrppShapes /\ ThreadWhile /\ WriterStopped /\ HeldWhile /\ RunsWhile /\ QuietUnheld
    /\ FrequencyIsSet /\ ~spent.overwritten

-----------------------------------------------------------------------------

\* What remains of a call when its first step is done.
LEMMA TodoFacts ==
    /\ Sdrpp!StopSteps = <<"stop_writer", "join", "clear", "stop_rx", "cleanup">>
    /\ Head(<<"open", "run">>) = "open" /\ Tail(<<"open", "run">>) = <<"run">>
    /\ Head(<<"run">>) = "run" /\ Head(<<"tune">>) = "tune" /\ Tail(<<"tune">>) = <<>>
    /\ Head(Sdrpp!StopSteps) = "stop_writer"
    /\ Tail(Sdrpp!StopSteps) = <<"join", "clear", "stop_rx", "cleanup">>
    /\ Head(<<"join", "clear", "stop_rx", "cleanup">>) = "join"
    /\ Tail(<<"join", "clear", "stop_rx", "cleanup">>) = <<"clear", "stop_rx", "cleanup">>
    /\ Head(<<"clear", "stop_rx", "cleanup">>) = "clear"
    /\ Tail(<<"clear", "stop_rx", "cleanup">>) = <<"stop_rx", "cleanup">>
    /\ Head(<<"stop_rx", "cleanup">>) = "stop_rx"
    /\ Tail(<<"stop_rx", "cleanup">>) = <<"cleanup">>
    /\ Head(<<"cleanup">>) = "cleanup" /\ Tail(<<"cleanup">>) = <<>>
BY DEF Sdrpp!StopSteps

LEMMA TodoNotEmpty ==
    /\ <<"open", "run">> # <<>> /\ <<"run">> # <<>> /\ <<"tune">> # <<>> /\ Sdrpp!StopSteps # <<>>
    /\ <<"join", "clear", "stop_rx", "cleanup">> # <<>>
    /\ <<"clear", "stop_rx", "cleanup">> # <<>> /\ <<"stop_rx", "cleanup">> # <<>>
    /\ <<"cleanup">> # <<>>
BY DEF Sdrpp!StopSteps

\* The first step tells what remains.
LEMMA FirstTells ==
    ASSUME NEW l \in Todos
    PROVE  /\ l = <<>> <=> FirstOf(l) = "idle"
           /\ l = <<"open", "run">> <=> FirstOf(l) = "open"
           /\ l = <<"run">> <=> FirstOf(l) = "run"
           /\ l = <<"tune">> <=> FirstOf(l) = "tune"
           /\ l = Sdrpp!StopSteps <=> FirstOf(l) = "stop_writer"
           /\ l = <<"join", "clear", "stop_rx", "cleanup">> <=> FirstOf(l) = "join"
           /\ l = <<"clear", "stop_rx", "cleanup">> <=> FirstOf(l) = "clear"
           /\ l = <<"stop_rx", "cleanup">> <=> FirstOf(l) = "stop_rx"
           /\ l = <<"cleanup">> <=> FirstOf(l) = "cleanup"
BY TodoFacts, TodoNotEmpty DEF Todos, FirstOf

LEMMA DoingIsStep ==
    ASSUME NEW step, step # "idle"
    PROVE  Sdrpp!Doing(step) => Step = step
BY DEF Sdrpp!Doing, Step, FirstOf

\* What comes after a step.
After(step) == CASE step = "open" -> "run" [] step = "stop_writer" -> "join"
                 [] step = "join" -> "clear" [] step = "clear" -> "stop_rx"
                 [] step = "stop_rx" -> "cleanup" [] step \in {"tune", "cleanup"} -> "idle"

LEMMA StepDone ==
    ASSUME SdrppInv, Sdrpp!Done,
           NEW step \in {"open", "tune", "stop_writer", "join", "clear", "stop_rx", "cleanup"},
           Sdrpp!Doing(step)
    PROVE  /\ module' \in Modules /\ Step = step /\ Step' = After(step)
           /\ module'.running = module.running /\ module'.freq = module.freq
<1>1. module \in Modules /\ module.todo \in Todos BY DEF SdrppInv, SdrppShapes, Modules
<1>2. Step = step BY DoingIsStep
<1>3. Tail(module.todo) \in Todos /\ FirstOf(Tail(module.todo)) = After(step)
  BY <1>1, <1>2, FirstTells, TodoFacts, TodoNotEmpty DEF Step, FirstOf, After, Todos
<1> DEFINE left == Tail(module.todo)
<1>4. module' = [module EXCEPT !.todo = left] BY DEF Sdrpp!Done
<1> HIDE DEF left
<1>5. left \in Todos /\ FirstOf(left) = After(step) BY <1>3 DEF left
<1>6. module' \in Modules /\ module'.todo = left /\ module'.running = module.running
      /\ module'.freq = module.freq
  BY <1>1, <1>4, <1>5 DEF Modules
<1> QED BY <1>2, <1>5, <1>6 DEF Step

\* What a call and an error note.
LEMMA ClickDoes ==
    ASSUME spent \in Spents, Sdrpp!Click
    PROVE  /\ spent' \in Spents /\ spent'.untuned = spent.untuned
           /\ spent'.unstopped = spent.unstopped /\ spent'.overwritten = spent.overwritten
<1> DEFINE n == spent.clicks + 1
<1>1. spent.clicks \in Nat BY DEF Spents
<1>2. n \in Nat BY <1>1
<1>3. spent' = [spent EXCEPT !.clicks = n] BY DEF Sdrpp!Click
<1> HIDE DEF n
<1> QED BY <1>2, <1>3 DEF Spents

LEMMA ErrorDoes ==
    ASSUME NEW h \in Spents, Sdrpp!Error(h)
    PROVE  /\ spent' \in Spents /\ spent'.untuned = h.untuned
           /\ spent'.unstopped = h.unstopped /\ spent'.overwritten = h.overwritten
<1> DEFINE n == h.errors + 1
<1>1. h.errors \in Nat BY DEF Spents
<1>2. n \in Nat BY <1>1
<1>3. spent' = [h EXCEPT !.errors = n] BY DEF Sdrpp!Error
<1> HIDE DEF n
<1> QED BY <1>2, <1>3 DEF Spents

LEMMA SdrppInitially == ASSUME Sdrpp!SdrppInit PROVE SdrppInv
<1>1. module \in Modules /\ Step = "idle" /\ ~module.running
  BY DEF Sdrpp!SdrppInit, Modules, Step, FirstOf, Todos
<1>2. spent \in Spents /\ ~spent.overwritten BY DEF Sdrpp!SdrppInit, Spents
<1>3. pipe \in [full: BOOLEAN, stopped: BOOLEAN] /\ ~pipe.stopped
      /\ rx \in [on: BOOLEAN, freq: {0, 1}] /\ ~rx.on
  BY DEF Sdrpp!SdrppInit
<1>4. thread = "none" /\ held = FALSE BY DEF Sdrpp!SdrppInit
<1> QED BY <1>1, <1>2, <1>3, <1>4 DEF SdrppInv, SdrppShapes, ThreadWhile, WriterStopped, HeldWhile,
     RunsWhile, QuietUnheld, FrequencyIsSet

\* The steps of a call.
LEMMA CallStepKeeps ==
    ASSUME SdrppInv,
           \/ Sdrpp!SetFreq \/ Sdrpp!StopWriter \/ Sdrpp!Join
           \/ Sdrpp!ClearWriteStop \/ Sdrpp!StopRx \/ Sdrpp!Cleanup
    PROVE  SdrppInv'
<1>0. SdrppShapes BY DEF SdrppInv
<1>1. CASE Sdrpp!SetFreq
  <2>1. /\ module' \in Modules /\ Step = "tune" /\ Step' = "idle"
        /\ module'.running = module.running /\ module'.freq = module.freq
    BY <1>1, StepDone DEF Sdrpp!SetFreq, After
  <2>2. /\ rx' \in [on: BOOLEAN, freq: {0, 1}] /\ rx'.on = rx.on
        /\ rx' = [rx EXCEPT !.freq = module.freq] => rx'.freq = module.freq
    BY <1>0, <1>1 DEF Sdrpp!SetFreq, SdrppShapes, Modules
  <2>3. CASE spent' = [spent EXCEPT !.untuned = FALSE] /\ rx' = [rx EXCEPT !.freq = module.freq]
    <3>1. /\ spent' \in Spents /\ spent'.unstopped = spent.unstopped
          /\ spent'.overwritten = spent.overwritten
      BY <1>0, <2>3 DEF SdrppShapes, Spents
    <3> QED BY <1>0, <1>1, <2>1, <2>2, <2>3, <3>1 DEF SdrppInv, SdrppShapes, Sdrpp!SetFreq,
         ThreadWhile,
         WriterStopped, HeldWhile, RunsWhile, QuietUnheld, FrequencyIsSet
  <2>4. CASE Sdrpp!Error([spent EXCEPT !.untuned = TRUE])
    <3> DEFINE h == [spent EXCEPT !.untuned = TRUE]
    <3>1. h \in Spents /\ h.untuned /\ h.unstopped = spent.unstopped
          /\ h.overwritten = spent.overwritten
      BY <1>0 DEF SdrppShapes, Spents
    <3>2. Sdrpp!Error(h) BY <2>4
    <3> HIDE DEF h
    <3> QED BY <1>0, <1>1, <2>1, <2>2, <3>1, <3>2, ErrorDoes DEF SdrppInv, SdrppShapes,
         Sdrpp!SetFreq,
         ThreadWhile, WriterStopped, HeldWhile, RunsWhile, QuietUnheld, FrequencyIsSet
  <2> QED BY <1>1, <2>3, <2>4 DEF Sdrpp!SetFreq
<1>2. CASE Sdrpp!StopWriter
  <2>1. /\ module' \in Modules /\ Step = "stop_writer" /\ Step' = "join"
        /\ module'.running = module.running /\ module'.freq = module.freq
    BY <1>2, StepDone DEF Sdrpp!StopWriter, After
  <2>2. pipe' \in [full: BOOLEAN, stopped: BOOLEAN] /\ pipe'.stopped
    BY <1>0, <1>2 DEF Sdrpp!StopWriter, SdrppShapes
  <2> QED BY <1>0, <1>2, <2>1, <2>2 DEF SdrppInv, SdrppShapes, Sdrpp!StopWriter, ThreadWhile,
       WriterStopped,
       HeldWhile, RunsWhile, QuietUnheld, FrequencyIsSet
<1>3. CASE Sdrpp!Join
  <2>1. /\ module' \in Modules /\ Step = "join" /\ Step' = "clear"
        /\ module'.running = module.running /\ module'.freq = module.freq
    BY <1>3, StepDone DEF Sdrpp!Join, After
  <2> QED BY <1>0, <1>3, <2>1 DEF SdrppInv, SdrppShapes, Sdrpp!Join, ThreadWhile, WriterStopped,
       HeldWhile, RunsWhile, QuietUnheld, FrequencyIsSet
<1>4. CASE Sdrpp!ClearWriteStop
  <2>1. /\ module' \in Modules /\ Step = "clear" /\ Step' = "stop_rx"
        /\ module'.running = module.running /\ module'.freq = module.freq
    BY <1>4, StepDone DEF Sdrpp!ClearWriteStop, After
  <2>2. pipe' \in [full: BOOLEAN, stopped: BOOLEAN] /\ ~pipe'.stopped
    BY <1>0, <1>4 DEF Sdrpp!ClearWriteStop, SdrppShapes
  <2> QED BY <1>0, <1>4, <2>1, <2>2 DEF SdrppInv, SdrppShapes, Sdrpp!ClearWriteStop, ThreadWhile,
       WriterStopped,
       HeldWhile, RunsWhile, QuietUnheld, FrequencyIsSet
<1>5. CASE Sdrpp!StopRx
  <2>1. /\ module' \in Modules /\ Step = "stop_rx" /\ Step' = "cleanup"
        /\ module'.running = module.running /\ module'.freq = module.freq
    BY <1>5, StepDone DEF Sdrpp!StopRx, After
  <2>2. /\ rx' \in [on: BOOLEAN, freq: {0, 1}]
        /\ rx' = [rx EXCEPT !.on = FALSE] => ~rx'.on
    BY <1>0, <1>5 DEF Sdrpp!StopRx, SdrppShapes
  <2>3. CASE spent' = spent /\ rx' = [rx EXCEPT !.on = FALSE]
    BY <1>0, <1>5, <2>1, <2>2, <2>3 DEF SdrppInv, SdrppShapes, Sdrpp!StopRx, ThreadWhile,
       WriterStopped,
       HeldWhile, RunsWhile, QuietUnheld, FrequencyIsSet
  <2>4. CASE Sdrpp!Error([spent EXCEPT !.unstopped = TRUE])
    <3> DEFINE h == [spent EXCEPT !.unstopped = TRUE]
    <3>1. h \in Spents /\ h.unstopped /\ h.untuned = spent.untuned
          /\ h.overwritten = spent.overwritten
      BY <1>0 DEF SdrppShapes, Spents
    <3>2. Sdrpp!Error(h) BY <2>4
    <3> HIDE DEF h
    <3> QED BY <1>0, <1>5, <2>1, <2>2, <3>1, <3>2, ErrorDoes DEF SdrppInv, SdrppShapes,
         Sdrpp!StopRx,
         ThreadWhile, WriterStopped, HeldWhile, RunsWhile, QuietUnheld, FrequencyIsSet
  <2> QED BY <1>5, <2>3, <2>4 DEF Sdrpp!StopRx
<1>6. CASE Sdrpp!Cleanup
  <2>1. /\ module' \in Modules /\ Step = "cleanup" /\ Step' = "idle"
        /\ module'.running = module.running /\ module'.freq = module.freq
    BY <1>6, StepDone DEF Sdrpp!Cleanup, After
  <2> QED BY <1>0, <1>6, <2>1 DEF SdrppInv, SdrppShapes, Sdrpp!Cleanup, ThreadWhile, WriterStopped,
       HeldWhile, RunsWhile, QuietUnheld, FrequencyIsSet
<1> QED BY <1>1, <1>2, <1>3, <1>4, <1>5, <1>6

\* What begins, and what ends, a call.
LEMMA CallKeeps ==
    ASSUME SdrppInv, \/ Sdrpp!Start \/ Sdrpp!Stop \/ \E f \in {0, 1}: Sdrpp!Tune(f)
    PROVE  SdrppInv'
<1>0. SdrppShapes /\ Step = "idle" /\ UNCHANGED <<thread, held, rx, pipe>>
  BY DEF SdrppInv, Sdrpp!Start, Sdrpp!Stop, Sdrpp!Tune, Step, FirstOf
<1>1. /\ spent' \in Spents /\ spent'.untuned = spent.untuned
      /\ spent'.unstopped = spent.unstopped /\ spent'.overwritten = spent.overwritten
  BY <1>0, ClickDoes DEF Sdrpp!Start, Sdrpp!Stop, Sdrpp!Tune, SdrppShapes
<1>2. <<>> \in Todos /\ <<"open", "run">> \in Todos /\ Sdrpp!StopSteps \in Todos
      /\ <<"tune">> \in Todos
  BY DEF Todos
<1>3. /\ FirstOf(<<>>) = "idle" /\ FirstOf(<<"open", "run">>) = "open"
      /\ FirstOf(Sdrpp!StopSteps) = "stop_writer" /\ FirstOf(<<"tune">>) = "tune"
  BY <1>2, FirstTells
<1>4. CASE Sdrpp!Start
  <2> DEFINE todo == IF module.running THEN <<>> ELSE <<"open", "run">>
  <2>1. todo \in Todos /\ FirstOf(todo) = IF module.running THEN "idle" ELSE "open"
    BY <1>2, <1>3
  <2>2. module' = [module EXCEPT !.todo = todo] BY <1>4 DEF Sdrpp!Start
  <2> HIDE DEF todo
  <2>3. /\ module' \in Modules /\ module'.running = module.running /\ module'.freq = module.freq
        /\ Step' = IF module.running THEN "idle" ELSE "open"
    BY <1>0, <2>1, <2>2 DEF SdrppShapes, Modules, Step
  <2> QED BY <1>0, <1>1, <2>3 DEF SdrppInv, SdrppShapes, ThreadWhile, WriterStopped, HeldWhile,
       RunsWhile, QuietUnheld, FrequencyIsSet
<1>5. CASE Sdrpp!Stop
  <2> DEFINE todo == IF module.running THEN Sdrpp!StopSteps ELSE <<>>
  <2>1. todo \in Todos /\ FirstOf(todo) = IF module.running THEN "stop_writer" ELSE "idle"
    BY <1>2, <1>3
  <2>2. module' = [module EXCEPT !.running = FALSE, !.todo = todo] BY <1>5 DEF Sdrpp!Stop
  <2> HIDE DEF todo
  <2>3. /\ module' \in Modules /\ ~module'.running /\ module'.freq = module.freq
        /\ Step' = IF module.running THEN "stop_writer" ELSE "idle"
    BY <1>0, <2>1, <2>2 DEF SdrppShapes, Modules, Step
  <2> QED BY <1>0, <1>1, <2>3 DEF SdrppInv, SdrppShapes, ThreadWhile, WriterStopped, HeldWhile,
       RunsWhile, QuietUnheld, FrequencyIsSet
<1>6. ASSUME NEW f \in {0, 1}, Sdrpp!Tune(f) PROVE SdrppInv'
  <2> DEFINE todo == IF module.running THEN <<"tune">> ELSE <<>>
  <2>1. todo \in Todos /\ FirstOf(todo) = IF module.running THEN "tune" ELSE "idle"
    BY <1>2, <1>3
  <2>2. module' = [module EXCEPT !.freq = f, !.todo = todo] BY <1>6 DEF Sdrpp!Tune
  <2> HIDE DEF todo
  <2>3. /\ module' \in Modules /\ module'.running = module.running
        /\ Step' = IF module.running THEN "tune" ELSE "idle"
    BY <1>0, <2>1, <2>2 DEF SdrppShapes, Modules, Step
  <2>4. ~module.running => ~held BY <1>0 DEF SdrppInv, HeldWhile
  <2> QED BY <1>0, <1>1, <2>3, <2>4 DEF SdrppInv, SdrppShapes, ThreadWhile, WriterStopped,
       HeldWhile,
       RunsWhile, QuietUnheld, FrequencyIsSet
<1> QED BY <1>4, <1>5, <1>6

LEMMA OpenSdrppKeeps == ASSUME SdrppInv, Sdrpp!Open PROVE SdrppInv'
<1>0. SdrppShapes /\ module.freq \in {0, 1} /\ Sdrpp!Doing("open") /\ UNCHANGED <<thread, pipe>>
  BY DEF SdrppInv, SdrppShapes, Modules, Sdrpp!Open
<1>1. Step = "open" BY <1>0, DoingIsStep
<1>2. ~module.running /\ ~held BY <1>1 DEF SdrppInv, HeldWhile, RunsWhile
<1>3. CASE Sdrpp!Done /\ held' = TRUE /\ rx' = [on |-> TRUE, freq |-> module.freq]
           /\ spent' = [spent EXCEPT !.untuned = FALSE]
  <2>1. /\ module' \in Modules /\ Step' = "run"
        /\ module'.running = module.running /\ module'.freq = module.freq
    BY <1>0, <1>3, StepDone DEF After
  <2>2. spent' \in Spents /\ ~spent'.untuned /\ spent'.overwritten = spent.overwritten
    BY <1>0, <1>3 DEF SdrppShapes, Spents
  <2>3. rx' \in [on: BOOLEAN, freq: {0, 1}] /\ rx'.freq = module.freq BY <1>0, <1>3
  <2> QED BY <1>0, <1>1, <1>2, <1>3, <2>1, <2>2, <2>3 DEF SdrppInv, SdrppShapes, ThreadWhile,
       WriterStopped, HeldWhile, RunsWhile, QuietUnheld, FrequencyIsSet
<1>4. CASE /\ module' = [module EXCEPT !.todo = <<>>] /\ UNCHANGED held
           /\ rx' \in {rx, [rx EXCEPT !.freq = module.freq], [on |-> TRUE, freq |-> module.freq]}
           /\ Sdrpp!Error([spent EXCEPT !.unstopped = @ \/ rx'.on])
  <2>1. module' \in Modules /\ Step' = "idle" /\ module'.running = module.running
    BY <1>0, <1>4 DEF SdrppShapes, Modules, Step, FirstOf, Todos
  <2>2. rx' \in [on: BOOLEAN, freq: {0, 1}]
    <3>1. CASE rx' = rx BY <1>0, <3>1 DEF SdrppShapes
    <3>2. CASE rx' = [rx EXCEPT !.freq = module.freq] BY <1>0, <3>2 DEF SdrppShapes
    <3>3. CASE rx' = [on |-> TRUE, freq |-> module.freq] BY <1>0, <3>3
    <3> QED BY <1>4, <3>1, <3>2, <3>3
  <2> DEFINE on == rx'.on
  <2> DEFINE h == [spent EXCEPT !.unstopped = @ \/ on]
  <2>3. on \in BOOLEAN BY <2>2
  <2>4. Sdrpp!Error(h) BY <1>4
  <2> HIDE DEF on
  <2>5. h \in Spents /\ (on => h.unstopped) /\ h.overwritten = spent.overwritten
    BY <1>0, <2>3 DEF SdrppShapes, Spents
  <2> HIDE DEF h
  <2>6. spent' \in Spents /\ (on => spent'.unstopped) /\ spent'.overwritten = spent.overwritten
    BY <2>4, <2>5, ErrorDoes
  <2>7. rx'.on => spent'.unstopped BY <2>6 DEF on
  <2> QED BY <1>0, <1>1, <1>2, <1>4, <2>1, <2>2, <2>6, <2>7 DEF SdrppInv, SdrppShapes, ThreadWhile,
       WriterStopped, HeldWhile, RunsWhile, QuietUnheld, FrequencyIsSet
<1> QED BY <1>3, <1>4 DEF Sdrpp!Open

LEMMA RunKeeps == ASSUME SdrppInv, Sdrpp!Run PROVE SdrppInv'
<1>0. SdrppShapes /\ Step = "run" BY DoingIsStep DEF SdrppInv, Sdrpp!Run
<1>1. ~module.running /\ held /\ thread = "none" /\ ~pipe.stopped
  BY <1>0 DEF SdrppInv, HeldWhile, RunsWhile, ThreadWhile, WriterStopped
<1>2. /\ module' \in Modules /\ Step' = "idle" /\ module'.running /\ module'.freq = module.freq
  BY <1>0 DEF Sdrpp!Run, SdrppShapes, Modules, Step, FirstOf, Todos
<1>3. /\ spent' \in Spents /\ spent'.untuned = spent.untuned
      /\ spent'.unstopped = spent.unstopped /\ ~spent'.overwritten
  <2> DEFINE o == spent.overwritten \/ thread # "none"
  <2>1. spent' = [spent EXCEPT !.overwritten = o] BY DEF Sdrpp!Run
  <2>2. o = FALSE BY <1>1 DEF SdrppInv, SdrppShapes, Spents
  <2> HIDE DEF o
  <2> QED BY <1>0, <2>1, <2>2 DEF SdrppShapes, Spents
<1> QED BY <1>0, <1>1, <1>2, <1>3 DEF Sdrpp!Run, SdrppInv, SdrppShapes, ThreadWhile, WriterStopped,
     HeldWhile,
     RunsWhile, QuietUnheld, FrequencyIsSet

\* The worker and the reader.
LEMMA WorkerKeeps == ASSUME SdrppInv, Sdrpp!Loop \/ Sdrpp!Receive \/ Sdrpp!Swap \/ Sdrpp!Read
    PROVE SdrppInv'
<1>0. /\ SdrppShapes /\ UNCHANGED <<module, held, rx>> /\ Step' = Step
  BY DEF SdrppInv, Sdrpp!Loop, Sdrpp!Receive, Sdrpp!Swap, Sdrpp!Read, Step
<1>1. /\ thread' \in {"none", "loop", "recv", "swap", "ended"}
      /\ thread' = "none" <=> thread = "none"
  BY <1>0 DEF Sdrpp!Loop, Sdrpp!Receive, Sdrpp!Swap, Sdrpp!Read, SdrppShapes
<1>2. pipe' \in [full: BOOLEAN, stopped: BOOLEAN] /\ pipe'.stopped = pipe.stopped
  <2>1. CASE UNCHANGED pipe BY <1>0, <2>1 DEF SdrppShapes
  <2>2. CASE Sdrpp!Swap \/ Sdrpp!Read
    <3>1. PICK full \in BOOLEAN: pipe' = [pipe EXCEPT !.full = full]
      <4>1. CASE Sdrpp!Read BY <4>1 DEF Sdrpp!Read
      <4>2. CASE Sdrpp!Swap
        <5> DEFINE full == pipe.full \/ ~pipe.stopped
        <5>1. full \in BOOLEAN OBVIOUS
        <5>2. pipe' = [pipe EXCEPT !.full = full] BY <4>2 DEF Sdrpp!Swap
        <5> QED BY <5>1, <5>2
      <4> QED BY <2>2, <4>1, <4>2
    <3> QED BY <1>0, <3>1 DEF SdrppShapes
  <2> QED BY <2>1, <2>2 DEF Sdrpp!Loop, Sdrpp!Receive
<1>3. /\ spent' \in Spents /\ spent'.untuned = spent.untuned
      /\ spent'.unstopped = spent.unstopped /\ spent'.overwritten = spent.overwritten
  BY <1>0, ErrorDoes DEF SdrppShapes, Sdrpp!Loop, Sdrpp!Receive, Sdrpp!Swap, Sdrpp!Read
<1> QED BY <1>0, <1>1, <1>2, <1>3 DEF SdrppInv, SdrppShapes, ThreadWhile, WriterStopped, HeldWhile,
     RunsWhile, QuietUnheld, FrequencyIsSet

\* SdrppInv is inductive.
LEMMA SdrppInvariant == Sdrpp!SdrppSpec => []SdrppInv
<1>1. Sdrpp!SdrppInit => SdrppInv BY SdrppInitially
<1>2. SdrppInv /\ [Sdrpp!SdrppNext]_(Sdrpp!sdrppVars) => SdrppInv'
  <2> SUFFICES ASSUME SdrppInv, [Sdrpp!SdrppNext]_(Sdrpp!sdrppVars) PROVE SdrppInv'
    OBVIOUS
  <2>1. CASE UNCHANGED Sdrpp!sdrppVars
    BY <2>1 DEF Sdrpp!sdrppVars, SdrppInv, SdrppShapes, Step, ThreadWhile, WriterStopped, HeldWhile,
       RunsWhile, QuietUnheld, FrequencyIsSet
  <2>2. CASE Sdrpp!SdrppNext
    BY <2>2, CallStepKeeps, CallKeeps, OpenSdrppKeeps, RunKeeps, WorkerKeeps DEF Sdrpp!SdrppNext
  <2> QED BY <2>1, <2>2
<1> QED BY <1>1, <1>2, PTL DEF Sdrpp!SdrppSpec

\* The join of stop meets a worker that does not wait for a reader, a thread is joined before
\* the next begins, and a stopped source holds no thread and no device, which is quiet unless
\* a command failed, for any number of starts, stops and errors (start, stop and worker of
\* src/sdr++/main.cpp).
THEOREM StoppedSourceIsGone == Sdrpp!SdrppSpec => [](Sdrpp!JoinEnds /\ Sdrpp!SourceStopped)
<1>1. SdrppInv => Sdrpp!JoinEnds
  BY DoingIsStep DEF SdrppInv, WriterStopped, Sdrpp!JoinEnds
<1>2. SdrppInv => Sdrpp!SourceStopped
  <2> SUFFICES ASSUME SdrppInv PROVE Sdrpp!SourceStopped OBVIOUS
  <2>1. module.todo = <<>> => Step = "idle" BY DEF Step, FirstOf
  <2> QED BY <2>1 DEF SdrppInv, SdrppShapes, ThreadWhile, WriterStopped, HeldWhile, QuietUnheld,
       Sdrpp!SourceStopped
<1> QED BY <1>1, <1>2, SdrppInvariant, PTL

\* A running source is tuned to the frequency that is shown, whenever it was chosen, unless
\* the last command failed (tune and start of src/sdr++/main.cpp).
THEOREM ShownIsTuned == Sdrpp!SdrppSpec => []Sdrpp!Tuned
<1>1. SdrppInv => Sdrpp!Tuned
  <2> SUFFICES ASSUME SdrppInv PROVE Sdrpp!Tuned OBVIOUS
  <2>1. module.todo = <<>> => Step = "idle" BY DEF Step, FirstOf
  <2> QED BY <2>1 DEF SdrppInv, HeldWhile, FrequencyIsSet, Sdrpp!Tuned
<1> QED BY <1>1, SdrppInvariant, PTL

-----------------------------------------------------------------------------
(* SdrangelInput *)

Spots == {"idle", "open", "join", "drop", "close", "reopen", "configure", "stream", "hot"}
Inputs == [running: BOOLEAN, settings: Sdrangel!Settings, starting: BOOLEAN, at: Spots,
           next: {"idle", "close", "reopen", "configure"}]
WorkerStates ==
    [running: BOOLEAN, settings: Sdrangel!Settings, device: {0, 1, Sdrangel!NoDevice},
     stream: BOOLEAN, thread: {"none", "loop", "recv", "ending", "ended"}]
Histories == [asked: Nat, thrown: Nat, told: BOOLEAN, unsure: BOOLEAN, overwritten: BOOLEAN,
              unstopped: BOOLEAN]
AngelShapes ==
    /\ input \in Inputs /\ worker \in WorkerStates /\ shown \in Histories
    /\ rig \in [on: BOOLEAN, settings: Sdrangel!Settings]
\* A call of the input that works on what runs was made on an input that runs.
CallsOfRunning ==
    /\ input.at \in {"join", "drop"} => input.next # "idle"
    /\ input.at \in {"join", "drop"} /\ input.next # "close" => input.running
    /\ input.at \in {"reopen", "configure", "hot"} => input.running
    /\ input.starting <=> input.at \in {"open", "stream"} /\ ~input.running
\* The worker's flag is there as long as its thread is, but for the join.
FlagMeansThread ==
    /\ worker.running => worker.thread # "none" /\ input.at \in {"idle", "hot"}
    /\ ~worker.running /\ input.at # "join" => worker.thread = "none"
    /\ worker.running /\ input.at = "idle" => input.running
\* A thread that receives has the stream, one that has ended has not; a device that
\* streams for no one was not stopped because a command failed.
StreamIsHeld ==
    /\ worker.thread \in {"loop", "recv"} => worker.stream
    /\ worker.stream => worker.thread \in {"loop", "recv", "ending"}
    /\ rig.on /\ ~worker.stream => shown.unstopped
\* The GUI of an input that runs was told, or its thread is at work.
FlagIsTold ==
    input.running /\ input.at \in {"idle", "hot"} => worker.thread \in {"loop", "recv"}
       \/ shown.told
\* What the worker takes to be set, and what is, on the way to a stream and while it runs.
SettingsKept ==
    /\ input.at \in {"open", "stream"} => worker.settings = input.settings
    /\ ~shown.unsure /\ (input.at = "stream" \/ (input.at = "idle" /\ worker.running)) =>
            worker.settings = input.settings /\ rig.settings = input.settings
AngelInv ==
    /\ AngelShapes /\ CallsOfRunning /\ FlagMeansThread /\ StreamIsHeld /\ FlagIsTold
    /\ SettingsKept /\ ~shown.overwritten

-----------------------------------------------------------------------------

\* What a call notes.
LEMMA AskDoes ==
    ASSUME NEW h \in Histories, Sdrangel!Ask(h)
    PROVE  /\ shown' \in Histories /\ shown'.told = h.told /\ shown'.unsure = h.unsure
           /\ shown'.overwritten = h.overwritten /\ shown'.unstopped = h.unstopped
<1> DEFINE n == h.asked + 1
<1>1. h.asked \in Nat BY DEF Histories
<1>2. n \in Nat BY <1>1
<1>3. shown' = [h EXCEPT !.asked = n] BY DEF Sdrangel!Ask
<1> HIDE DEF n
<1> QED BY <1>2, <1>3 DEF Histories

\* What an exception notes.
LEMMA ThrowsDoes ==
    ASSUME NEW h \in Histories, Sdrangel!Throws(h)
    PROVE  /\ shown' \in Histories /\ shown'.told = h.told /\ shown'.unsure = h.unsure
           /\ shown'.overwritten = h.overwritten /\ shown'.unstopped = h.unstopped
<1> DEFINE n == h.thrown + 1
<1>1. h.thrown \in Nat BY DEF Histories
<1>2. n \in Nat BY <1>1
<1>3. shown' = [h EXCEPT !.thrown = n] BY DEF Sdrangel!Throws
<1> HIDE DEF n
<1> QED BY <1>2, <1>3 DEF Histories

LEMMA GoDoes ==
    ASSUME input \in Inputs, NEW place \in Spots, Sdrangel!Go(place)
    PROVE  /\ input' \in Inputs /\ input'.at = place /\ input'.running = input.running
           /\ input'.settings = input.settings /\ input'.starting = input.starting
           /\ input'.next = input.next
BY DEF Sdrangel!Go, Inputs

LEMMA ReturnDoes ==
    ASSUME input \in Inputs, NEW ok \in BOOLEAN, Sdrangel!Return(ok)
    PROVE  /\ input' \in Inputs /\ input'.at = "idle" /\ input'.settings = input.settings
           /\ input'.starting = FALSE /\ input'.next = input.next
           /\ input'.running = IF input.starting THEN ok ELSE input.running
<1> DEFINE runs == IF input.starting THEN ok ELSE input.running
<1>1. runs \in BOOLEAN BY DEF Inputs
<1>2. input' = [input EXCEPT !.at = "idle", !.starting = FALSE, !.running = runs]
  BY DEF Sdrangel!Return
<1> HIDE DEF runs
<1>3. "idle" \in Spots BY DEF Spots
<1>4. input' \in Inputs /\ input'.at = "idle" /\ input'.settings = input.settings
      /\ input'.starting = FALSE /\ input'.next = input.next /\ input'.running = runs
  BY <1>1, <1>2, <1>3 DEF Inputs
<1> QED BY <1>4 DEF runs

LEMMA FailsDoes ==
    ASSUME input \in Inputs, NEW h \in Histories, Sdrangel!Fails(h)
    PROVE  /\ shown' \in Histories /\ shown'.told /\ shown'.unsure = h.unsure
           /\ shown'.overwritten = h.overwritten /\ shown'.unstopped = h.unstopped
           /\ input' \in Inputs /\ input'.at = "idle" /\ input'.settings = input.settings
           /\ input'.starting = FALSE
           /\ input'.running = IF input.starting THEN FALSE ELSE input.running
<1> DEFINE g == Sdrangel!Tells(h)
<1>1. g \in Histories /\ g.told /\ g.unsure = h.unsure /\ g.overwritten = h.overwritten
      /\ g.unstopped = h.unstopped
  BY DEF Sdrangel!Tells, Histories
<1>2. Sdrangel!Throws(g) /\ Sdrangel!Return(FALSE) BY DEF Sdrangel!Fails
<1> HIDE DEF g
<1> QED BY <1>1, <1>2, ThrowsDoes, ReturnDoes

LEMMA AngelInitially == ASSUME Sdrangel!SdrangelInit PROVE AngelInv
<1>1. Sdrangel!AtFirst \in Sdrangel!Settings BY DEF Sdrangel!AtFirst, Sdrangel!Settings
<1>2. input \in Inputs /\ input.at = "idle" /\ input.running = FALSE /\ input.starting = FALSE
  BY <1>1 DEF Sdrangel!SdrangelInit, Inputs, Spots
<1>3. worker \in WorkerStates /\ worker.running = FALSE /\ worker.thread = "none"
      /\ worker.stream = FALSE
  BY <1>1 DEF Sdrangel!SdrangelInit, WorkerStates
<1>4. rig \in [on: BOOLEAN, settings: Sdrangel!Settings] /\ rig.on = FALSE
  BY <1>1 DEF Sdrangel!SdrangelInit
<1>5. shown \in Histories /\ ~shown.overwritten BY DEF Sdrangel!SdrangelInit, Histories
<1> QED BY <1>2, <1>3, <1>4, <1>5 DEF AngelInv, AngelShapes, CallsOfRunning, FlagMeansThread,
     StreamIsHeld,
     FlagIsTold, SettingsKept

\* The worker is told to stop; the input waits for its thread if there is one.
LEMMA StopStreamKeeps ==
    ASSUME AngelInv, input.at = "idle", UNCHANGED rig, Sdrangel!Ask(shown),
           NEW next \in {"close", "reopen", "configure"}, NEW s \in Sdrangel!Settings,
           next # "close" => worker.running,
           Sdrangel!StopStream([input EXCEPT !.settings = s, !.next = next])
    PROVE  AngelInv'
<1> DEFINE place == IF worker.running THEN "join" ELSE "drop"
<1> DEFINE call == [input EXCEPT !.settings = s, !.next = next]
<1>1. input \in Inputs /\ worker \in WorkerStates /\ shown \in Histories
  BY DEF AngelInv, AngelShapes
<1>2. call \in Inputs /\ call.running = input.running /\ call.starting = input.starting
      /\ call.next = next /\ input' = [call EXCEPT !.at = place]
  BY <1>1 DEF Inputs, Sdrangel!StopStream
<1> HIDE DEF call
<1>3. place \in Spots /\ (worker.running => place = "join") /\ (~worker.running => place = "drop")
  BY DEF Spots
<1> HIDE DEF place
<1>4. /\ input' \in Inputs /\ input'.at = place /\ input'.running = input.running
      /\ input'.starting = input.starting /\ input'.next = next
  BY <1>2, <1>3 DEF Inputs
<1>5. /\ worker' \in WorkerStates /\ ~worker'.running /\ worker'.thread = worker.thread
      /\ worker'.stream = worker.stream
  BY <1>1 DEF Sdrangel!StopStream, WorkerStates
<1>6. /\ shown' \in Histories /\ shown'.told = shown.told /\ shown'.unsure = shown.unsure
      /\ shown'.overwritten = shown.overwritten /\ shown'.unstopped = shown.unstopped
  BY <1>1, AskDoes
<1> QED BY <1>1, <1>3, <1>4, <1>5, <1>6 DEF AngelInv, AngelShapes, CallsOfRunning, FlagMeansThread,
     StreamIsHeld, FlagIsTold, SettingsKept

LEMMA StartKeepsAngel == ASSUME AngelInv, Sdrangel!Start PROVE AngelInv'
<1>1. input \in Inputs /\ worker \in WorkerStates /\ shown \in Histories /\ input.at = "idle"
      /\ UNCHANGED rig
  BY DEF AngelInv, AngelShapes, Sdrangel!Start
<1>2. CASE input.running
  <2>1. /\ shown' \in Histories /\ shown'.told = shown.told /\ shown'.unsure = shown.unsure
        /\ shown'.overwritten = shown.overwritten /\ shown'.unstopped = shown.unstopped
        /\ UNCHANGED <<input, worker>>
    BY <1>1, <1>2, AskDoes DEF Sdrangel!Start
  <2> QED BY <1>1, <2>1 DEF AngelInv, AngelShapes, CallsOfRunning, FlagMeansThread, StreamIsHeld,
       FlagIsTold, SettingsKept
<1>3. CASE ~input.running
  <2> DEFINE h == [shown EXCEPT !.told = FALSE]
  <2>1. /\ Sdrangel!Ask(h) /\ input' = [input EXCEPT !.at = "open", !.starting = TRUE]
        /\ worker' = [worker EXCEPT !.settings = input.settings]
    BY <1>3 DEF Sdrangel!Start
  <2>2. h \in Histories /\ h.unsure = shown.unsure /\ h.overwritten = shown.overwritten
        /\ h.unstopped = shown.unstopped
    BY <1>1 DEF Histories
  <2> HIDE DEF h
  <2>3. /\ shown' \in Histories /\ shown'.unsure = shown.unsure
        /\ shown'.overwritten = shown.overwritten /\ shown'.unstopped = shown.unstopped
    BY <2>1, <2>2, AskDoes
  <2>4. /\ input' \in Inputs /\ input'.at = "open" /\ input'.starting = TRUE
        /\ input'.running = FALSE /\ input'.settings = input.settings
    BY <1>1, <1>3, <2>1 DEF Inputs, Spots
  <2>5. /\ worker' \in WorkerStates /\ worker'.settings = input.settings
        /\ worker'.running = worker.running /\ worker'.thread = worker.thread
        /\ worker'.stream = worker.stream
    BY <1>1, <2>1 DEF WorkerStates, Inputs
  <2> QED BY <1>1, <1>3, <2>3, <2>4, <2>5 DEF AngelInv, AngelShapes, CallsOfRunning,
       FlagMeansThread,
       StreamIsHeld, FlagIsTold, SettingsKept
<1> QED BY <1>2, <1>3

LEMMA StopKeepsAngel == ASSUME AngelInv, Sdrangel!Stop PROVE AngelInv'
<1>1. input \in Inputs /\ input.settings \in Sdrangel!Settings BY DEF AngelInv, AngelShapes, Inputs
<1>2. [input EXCEPT !.next = "close"] = [input EXCEPT !.settings = input.settings, !.next = "close"]
  BY <1>1 DEF Inputs
<1> QED BY <1>1, <1>2, StopStreamKeeps DEF Sdrangel!Stop

LEMMA ApplyKeepsAngel ==
    ASSUME AngelInv, NEW s \in Sdrangel!Settings, Sdrangel!Apply(s)
    PROVE  AngelInv'
<1> DEFINE call == [input EXCEPT !.settings = s]
<1>1. /\ input \in Inputs /\ worker \in WorkerStates /\ shown \in Histories /\ input.at = "idle"
      /\ UNCHANGED rig /\ Sdrangel!Ask(shown) /\ s # input.settings
  BY DEF AngelInv, AngelShapes, Sdrangel!Apply
<1>2. /\ shown' \in Histories /\ shown'.told = shown.told /\ shown'.unsure = shown.unsure
      /\ shown'.overwritten = shown.overwritten /\ shown'.unstopped = shown.unstopped
  BY <1>1, AskDoes
<1>3. /\ call \in Inputs /\ call.settings = s /\ call.at = "idle" /\ call.running = input.running
      /\ call.starting = input.starting /\ call.next = input.next
  BY <1>1 DEF Inputs
<1>4. [call EXCEPT !.next = "reopen"] = [input EXCEPT !.settings = s, !.next = "reopen"]
      /\ [call EXCEPT !.next = "configure"] = [input EXCEPT !.settings = s, !.next = "configure"]
  OBVIOUS
<1>5. CASE ~worker.running
  <2>1. input' = call /\ worker' = worker BY <1>5 DEF Sdrangel!Apply
  <2> HIDE DEF call
  <2> QED BY <1>1, <1>2, <1>3, <1>5, <2>1 DEF AngelInv, AngelShapes, CallsOfRunning,
       FlagMeansThread,
       StreamIsHeld, FlagIsTold, SettingsKept
<1>6. CASE worker.running /\ Sdrangel!StopStream([call EXCEPT !.next = "reopen"])
  BY <1>1, <1>4, <1>6, StopStreamKeeps
<1>7. CASE worker.running /\ Sdrangel!StopStream([call EXCEPT !.next = "configure"])
  BY <1>1, <1>4, <1>7, StopStreamKeeps
<1>8. CASE /\ worker.running /\ UNCHANGED worker
           /\ input' = [call EXCEPT !.at = IF s = worker.settings THEN "idle" ELSE "hot"]
  <2> DEFINE place == IF s = worker.settings THEN "idle" ELSE "hot"
  <2> HIDE DEF call
  <2>1. place \in {"idle", "hot"} /\ place \in Spots /\ (place = "idle" => s = worker.settings)
    BY DEF Spots
  <2>2. input' = [call EXCEPT !.at = place] BY <1>8
  <2> HIDE DEF place
  <2>3. /\ input' \in Inputs /\ input'.at = place /\ input'.running = input.running
        /\ input'.starting = input.starting /\ input'.settings = s
    BY <1>3, <2>1, <2>2 DEF Inputs
  <2>4. input.running BY <1>1, <1>8 DEF AngelInv, FlagMeansThread
  <2>5. ~shown.unsure => worker.settings = input.settings
    BY <1>1, <1>8 DEF AngelInv, SettingsKept
  <2> QED BY <1>1, <1>2, <1>8, <2>1, <2>3, <2>4, <2>5 DEF AngelInv, AngelShapes, CallsOfRunning,
       FlagMeansThread, StreamIsHeld, FlagIsTold, SettingsKept
<1>9. \/ ~worker.running
      \/ worker.running /\ Sdrangel!StopStream([call EXCEPT !.next = "reopen"])
      \/ worker.running /\ Sdrangel!StopStream([call EXCEPT !.next = "configure"])
      \/ /\ worker.running /\ UNCHANGED worker
         /\ input' = [call EXCEPT !.at = IF s = worker.settings THEN "idle" ELSE "hot"]
  BY DEF Sdrangel!Apply
<1> QED BY <1>5, <1>6, <1>7, <1>8, <1>9

\* The way from the stop of one stream to the next.
LEMMA BetweenStreams ==
    ASSUME AngelInv, Sdrangel!Join \/ Sdrangel!Drop \/ Sdrangel!Close \/ Sdrangel!Reopen
    PROVE  AngelInv'
<1>1. /\ input \in Inputs /\ worker \in WorkerStates /\ UNCHANGED shown
      /\ input.at \in {"join", "drop", "close", "reopen"} /\ input.next \in Spots
      /\ ~worker.running /\ ~input.starting
  BY DEF AngelInv, AngelShapes, FlagMeansThread, CallsOfRunning, Sdrangel!Join, Sdrangel!Drop,
     Sdrangel!Close, Sdrangel!Reopen, Inputs,
     Spots
<1>2. CASE Sdrangel!Join
  <2>1. /\ worker' \in WorkerStates /\ worker'.thread = "none" /\ ~worker'.running
        /\ worker'.stream = worker.stream
    BY <1>1, <1>2 DEF Sdrangel!Join, WorkerStates
  <2>2. /\ input' \in Inputs /\ input'.at = input.next /\ input'.running = input.running
        /\ input'.starting = input.starting
    BY <1>1, <1>2, GoDoes DEF Sdrangel!Join
  <2>3. input.at = "join" /\ input.next \in {"close", "reopen", "configure"}
    BY <1>1, <1>2 DEF Sdrangel!Join, AngelInv, CallsOfRunning, Inputs
  <2>4. ~worker.stream BY <1>2 DEF Sdrangel!Join, AngelInv, StreamIsHeld
  <2> QED BY <1>1, <1>2, <2>1, <2>2, <2>3, <2>4 DEF Sdrangel!Join, AngelInv, AngelShapes,
       CallsOfRunning,
       FlagMeansThread, StreamIsHeld, FlagIsTold, SettingsKept
<1>3. CASE Sdrangel!Drop
  <2>1. worker.thread = "none" /\ ~worker.stream
    BY <1>1, <1>3 DEF Sdrangel!Drop, AngelInv, FlagMeansThread, StreamIsHeld
  <2>2. /\ worker' \in WorkerStates /\ worker'.thread = "none" /\ ~worker'.running
        /\ ~worker'.stream
    BY <1>1, <1>3, <2>1 DEF Sdrangel!Drop, WorkerStates
  <2>3. /\ input' \in Inputs /\ input'.at = input.next /\ input'.running = input.running
        /\ input'.starting = input.starting
    BY <1>1, <1>3, GoDoes DEF Sdrangel!Drop
  <2>4. input.next \in {"close", "reopen", "configure"} /\ input.at = "drop"
    BY <1>1, <1>3 DEF Sdrangel!Drop, AngelInv, CallsOfRunning, Inputs
  <2> DEFINE on == rig.on /\ ~worker.stream
  <2>5. on \in BOOLEAN /\ (on => rig.on) OBVIOUS
  <2>6. rig' = [rig EXCEPT !.on = on] BY <1>3 DEF Sdrangel!Drop
  <2> HIDE DEF on
  <2>7. rig' \in [on: BOOLEAN, settings: Sdrangel!Settings] /\ (rig'.on => rig.on)
    BY <2>5, <2>6 DEF AngelInv, AngelShapes
  <2> QED BY <1>1, <2>1, <2>2, <2>3, <2>4, <2>7 DEF AngelInv, AngelShapes, CallsOfRunning,
       FlagMeansThread, StreamIsHeld, FlagIsTold, SettingsKept
<1>4. CASE Sdrangel!Close
  <2>1. /\ input' \in Inputs /\ input'.at = "idle" /\ input'.running = FALSE
        /\ input'.starting = input.starting
    BY <1>1, <1>4 DEF Sdrangel!Close, Inputs, Spots
  <2>2. /\ worker' \in WorkerStates /\ worker'.thread = worker.thread /\ ~worker'.running
        /\ ~worker'.stream
    BY <1>1, <1>4 DEF Sdrangel!Close, WorkerStates
  <2>3. worker.thread = "none" /\ ~worker.stream
    BY <1>1, <1>4 DEF Sdrangel!Close, AngelInv, FlagMeansThread, StreamIsHeld
  <2>4. UNCHANGED rig BY <1>4 DEF Sdrangel!Close
  <2> QED BY <1>1, <2>1, <2>2, <2>3, <2>4 DEF AngelInv, AngelShapes, CallsOfRunning,
       FlagMeansThread,
       StreamIsHeld, FlagIsTold, SettingsKept
<1>5. CASE Sdrangel!Reopen
  <2>1. /\ input' \in Inputs /\ input'.at = "open" /\ input'.running = input.running
        /\ input'.starting = input.starting /\ input'.settings = input.settings
    BY <1>1, <1>5, GoDoes DEF Sdrangel!Reopen, Spots
  <2>2. /\ worker' \in WorkerStates /\ worker'.thread = worker.thread /\ ~worker'.running
        /\ ~worker'.stream /\ worker'.settings = input.settings
    BY <1>1, <1>5 DEF Sdrangel!Reopen, WorkerStates, Inputs
  <2>3. worker.thread = "none" /\ ~worker.stream /\ input.running
    BY <1>1, <1>5 DEF Sdrangel!Reopen, AngelInv, FlagMeansThread, StreamIsHeld, CallsOfRunning
  <2>4. UNCHANGED rig BY <1>5 DEF Sdrangel!Reopen
  <2> QED BY <1>1, <2>1, <2>2, <2>3, <2>4 DEF AngelInv, AngelShapes, CallsOfRunning,
       FlagMeansThread,
       StreamIsHeld, FlagIsTold, SettingsKept
<1> QED BY <1>2, <1>3, <1>4, <1>5

LEMMA OpenDeviceKeeps == ASSUME AngelInv, Sdrangel!OpenDevice PROVE AngelInv'
<1>1. /\ input \in Inputs /\ worker \in WorkerStates /\ shown \in Histories /\ input.at = "open"
      /\ input.settings \in Sdrangel!Settings /\ input.settings.addr \in {0, 1}
      /\ rig \in [on: BOOLEAN, settings: Sdrangel!Settings]
  BY DEF AngelInv, AngelShapes, Sdrangel!OpenDevice, Inputs, Sdrangel!Settings
<1>2. /\ ~worker.running /\ worker.thread = "none" /\ ~worker.stream
      /\ worker.settings = input.settings
  BY <1>1 DEF AngelInv, FlagMeansThread, StreamIsHeld, SettingsKept
<1>3. ASSUME NEW d \in {0, 1, Sdrangel!NoDevice}, worker' = [worker EXCEPT !.device = d]
      PROVE  /\ worker' \in WorkerStates /\ ~worker'.running /\ worker'.thread = "none"
             /\ ~worker'.stream /\ worker'.settings = input.settings
  BY <1>1, <1>2, <1>3 DEF WorkerStates
\* The lease of an earlier start is met.
<1>4. CASE /\ worker' = [worker EXCEPT !.device = Sdrangel!NoDevice] /\ UNCHANGED rig
           /\ shown' = Sdrangel!Tells(shown) /\ Sdrangel!Return(FALSE)
  <2>1. /\ input' \in Inputs /\ input'.at = "idle" /\ input'.starting = FALSE
    BY <1>1, <1>4, ReturnDoes
  <2>2. /\ shown' \in Histories /\ shown'.told /\ shown'.overwritten = shown.overwritten
        /\ shown'.unstopped = shown.unstopped
    BY <1>1, <1>4 DEF Sdrangel!Tells, Histories
  <2> QED BY <1>1, <1>2, <1>3, <1>4, <2>1, <2>2 DEF AngelInv, AngelShapes, CallsOfRunning,
       FlagMeansThread, StreamIsHeld, FlagIsTold, SettingsKept
<1>5. CASE /\ worker' = [worker EXCEPT !.device = input.settings.addr]
           /\ rig' = [rig EXCEPT !.settings = input.settings]
           /\ shown' = [shown EXCEPT !.unsure = FALSE] /\ Sdrangel!Go("stream")
  <2>1. /\ input' \in Inputs /\ input'.at = "stream" /\ input'.running = input.running
        /\ input'.settings = input.settings /\ input'.starting = input.starting
    BY <1>1, <1>5, GoDoes DEF Spots
  <2>2. /\ shown' \in Histories /\ shown'.overwritten = shown.overwritten
        /\ shown'.unstopped = shown.unstopped
    BY <1>1, <1>5 DEF Histories
  <2>3. /\ rig' \in [on: BOOLEAN, settings: Sdrangel!Settings] /\ rig'.on = rig.on
        /\ rig'.settings = input.settings
    BY <1>1, <1>5
  <2>4. /\ worker' \in WorkerStates /\ ~worker'.running /\ worker'.thread = "none"
        /\ ~worker'.stream /\ worker'.settings = input.settings
    BY <1>1, <1>3, <1>5
  <2> QED BY <1>1, <1>2, <2>1, <2>2, <2>3, <2>4 DEF AngelInv, AngelShapes, CallsOfRunning,
       FlagMeansThread, StreamIsHeld, FlagIsTold, SettingsKept
<1>6. CASE /\ worker' = [worker EXCEPT !.device = Sdrangel!NoDevice] /\ Sdrangel!Fails(shown)
           /\ \E s \in {rig.settings, input.settings}: rig' = [rig EXCEPT !.settings = s]
  <2>1. /\ shown' \in Histories /\ shown'.told /\ shown'.overwritten = shown.overwritten
        /\ shown'.unstopped = shown.unstopped
        /\ input' \in Inputs /\ input'.at = "idle" /\ input'.starting = FALSE
    BY <1>1, <1>6, FailsDoes
  <2>2. rig' \in [on: BOOLEAN, settings: Sdrangel!Settings] /\ rig'.on = rig.on BY <1>1, <1>6
  <2>3. /\ worker' \in WorkerStates /\ ~worker'.running /\ worker'.thread = "none"
        /\ ~worker'.stream
    BY <1>3, <1>6
  <2> QED BY <1>1, <1>2, <2>1, <2>2, <2>3 DEF AngelInv, AngelShapes, CallsOfRunning,
       FlagMeansThread, StreamIsHeld, FlagIsTold, SettingsKept
<1> QED BY <1>4, <1>5, <1>6 DEF Sdrangel!OpenDevice

LEMMA ConfigureDeviceKeeps == ASSUME AngelInv, Sdrangel!ConfigureDevice PROVE AngelInv'
<1>1. /\ input \in Inputs /\ worker \in WorkerStates /\ shown \in Histories
      /\ input.at = "configure" /\ input.settings \in Sdrangel!Settings
      /\ rig \in [on: BOOLEAN, settings: Sdrangel!Settings]
  BY DEF AngelInv, AngelShapes, Sdrangel!ConfigureDevice, Inputs
<1>2. /\ ~worker.running /\ worker.thread = "none" /\ ~worker.stream
      /\ input.running /\ ~input.starting
  BY <1>1 DEF AngelInv, FlagMeansThread, StreamIsHeld, CallsOfRunning
<1>3. /\ worker' \in WorkerStates /\ ~worker'.running /\ worker'.thread = "none"
      /\ ~worker'.stream /\ worker'.settings = input.settings
  BY <1>1, <1>2 DEF Sdrangel!ConfigureDevice, WorkerStates
<1>4. CASE /\ rig' = [rig EXCEPT !.settings = Sdrangel!Configured]
           /\ shown' = [shown EXCEPT !.unsure = FALSE] /\ Sdrangel!Go("stream")
  <2>1. /\ input' \in Inputs /\ input'.at = "stream" /\ input'.running = input.running
        /\ input'.settings = input.settings /\ input'.starting = input.starting
    BY <1>1, <1>4, GoDoes DEF Spots
  <2>2. /\ shown' \in Histories /\ shown'.overwritten = shown.overwritten
        /\ shown'.unstopped = shown.unstopped
    BY <1>1, <1>4 DEF Histories
  <2>3. /\ rig' \in [on: BOOLEAN, settings: Sdrangel!Settings] /\ rig'.on = rig.on
        /\ rig'.settings = input.settings
    BY <1>1, <1>4 DEF Sdrangel!Configured
  <2> QED BY <1>1, <1>2, <1>3, <2>1, <2>2, <2>3 DEF AngelInv, AngelShapes, CallsOfRunning,
       FlagMeansThread, StreamIsHeld, FlagIsTold, SettingsKept
<1>5. CASE /\ \E s \in {rig.settings, Sdrangel!Configured}: rig' = [rig EXCEPT !.settings = s]
           /\ Sdrangel!Fails([shown EXCEPT !.unsure = TRUE])
  <2> DEFINE h == [shown EXCEPT !.unsure = TRUE]
  <2>1. h \in Histories /\ h.overwritten = shown.overwritten /\ h.unstopped = shown.unstopped
    BY <1>1 DEF Histories
  <2>2. Sdrangel!Fails(h) BY <1>5
  <2> HIDE DEF h
  <2>3. /\ shown' \in Histories /\ shown'.told /\ shown'.overwritten = shown.overwritten
        /\ shown'.unstopped = shown.unstopped
        /\ input' \in Inputs /\ input'.at = "idle" /\ input'.starting = FALSE
    BY <1>1, <2>1, <2>2, FailsDoes
  <2>4. rig' \in [on: BOOLEAN, settings: Sdrangel!Settings] /\ rig'.on = rig.on
    BY <1>1, <1>5 DEF Sdrangel!Configured
  <2> QED BY <1>1, <1>2, <1>3, <2>3, <2>4 DEF AngelInv, AngelShapes, CallsOfRunning,
       FlagMeansThread, StreamIsHeld, FlagIsTold, SettingsKept
<1> QED BY <1>4, <1>5 DEF Sdrangel!ConfigureDevice

LEMMA StartStreamKeeps == ASSUME AngelInv, Sdrangel!StartStream PROVE AngelInv'
<1>1. /\ input \in Inputs /\ worker \in WorkerStates /\ shown \in Histories
      /\ input.at = "stream" /\ rig \in [on: BOOLEAN, settings: Sdrangel!Settings]
  BY DEF AngelInv, AngelShapes, Sdrangel!StartStream
<1>2. /\ ~worker.running /\ worker.thread = "none" /\ ~worker.stream
      /\ worker.settings = input.settings
  BY <1>1 DEF AngelInv, FlagMeansThread, StreamIsHeld, SettingsKept
<1>3. CASE /\ rig' = [rig EXCEPT !.on = TRUE] /\ Sdrangel!Return(TRUE)
           /\ worker' = [worker EXCEPT !.running = TRUE, !.stream = TRUE, !.thread = "loop"]
           /\ shown' = [shown EXCEPT !.overwritten = @ \/ worker.thread # "none"]
  <2>1. /\ input' \in Inputs /\ input'.at = "idle" /\ input'.settings = input.settings
        /\ input'.starting = FALSE
        /\ input'.running = IF input.starting THEN TRUE ELSE input.running
    BY <1>1, <1>3, ReturnDoes
  <2>2. input'.running BY <1>1, <2>1 DEF AngelInv, CallsOfRunning, Inputs
  <2>3. /\ worker' \in WorkerStates /\ worker'.running /\ worker'.thread = "loop"
        /\ worker'.stream /\ worker'.settings = input.settings
    BY <1>1, <1>2, <1>3 DEF WorkerStates
  <2>4. rig' \in [on: BOOLEAN, settings: Sdrangel!Settings] /\ rig'.settings = rig.settings
    BY <1>1, <1>3
  <2> DEFINE o == shown.overwritten \/ worker.thread # "none"
  <2>5. o = FALSE BY <1>1, <1>2 DEF AngelInv, Histories
  <2>6. shown' = [shown EXCEPT !.overwritten = o] BY <1>3
  <2> HIDE DEF o
  <2>7. /\ shown' \in Histories /\ ~shown'.overwritten /\ shown'.unsure = shown.unsure
    BY <1>1, <2>5, <2>6 DEF Histories
  <2> QED BY <1>1, <1>2, <2>1, <2>2, <2>3, <2>4, <2>7 DEF AngelInv, AngelShapes, CallsOfRunning,
       FlagMeansThread, StreamIsHeld, FlagIsTold, SettingsKept
<1>4. CASE /\ \E on \in {rig.on, TRUE}: rig' = [rig EXCEPT !.on = on]
           /\ worker' = [worker EXCEPT !.stream = FALSE]
           /\ Sdrangel!Fails([shown EXCEPT !.unstopped = TRUE])
  <2> DEFINE h == [shown EXCEPT !.unstopped = TRUE]
  <2>1. h \in Histories /\ h.overwritten = shown.overwritten /\ h.unstopped
    BY <1>1 DEF Histories
  <2>2. Sdrangel!Fails(h) BY <1>4
  <2> HIDE DEF h
  <2>3. /\ shown' \in Histories /\ shown'.told /\ shown'.overwritten = shown.overwritten
        /\ shown'.unstopped
        /\ input' \in Inputs /\ input'.at = "idle" /\ input'.starting = FALSE
    BY <1>1, <2>1, <2>2, FailsDoes
  <2>4. rig' \in [on: BOOLEAN, settings: Sdrangel!Settings] BY <1>1, <1>4
  <2>5. /\ worker' \in WorkerStates /\ ~worker'.running /\ worker'.thread = "none"
        /\ ~worker'.stream
    BY <1>1, <1>2, <1>4 DEF WorkerStates
  <2> QED BY <1>1, <1>2, <2>3, <2>4, <2>5 DEF AngelInv, AngelShapes, CallsOfRunning,
       FlagMeansThread, StreamIsHeld, FlagIsTold, SettingsKept
<1> QED BY <1>3, <1>4 DEF Sdrangel!StartStream

LEMMA HotApplyKeeps == ASSUME AngelInv, Sdrangel!HotApply PROVE AngelInv'
<1>1. /\ input \in Inputs /\ worker \in WorkerStates /\ shown \in Histories
      /\ input.at = "hot" /\ rig \in [on: BOOLEAN, settings: Sdrangel!Settings]
      /\ input.settings \in Sdrangel!Settings /\ input.running /\ ~input.starting
  BY DEF AngelInv, AngelShapes, Sdrangel!HotApply, CallsOfRunning, Inputs
<1>2. CASE /\ rig' = [rig EXCEPT !.settings = input.settings]
           /\ worker' = [worker EXCEPT !.settings = input.settings] /\ UNCHANGED shown
           /\ Sdrangel!Go("idle")
  <2>1. /\ input' \in Inputs /\ input'.at = "idle" /\ input'.running = input.running
        /\ input'.settings = input.settings /\ input'.starting = input.starting
    BY <1>1, <1>2, GoDoes DEF Spots
  <2>2. /\ worker' \in WorkerStates /\ worker'.running = worker.running
        /\ worker'.thread = worker.thread /\ worker'.stream = worker.stream
        /\ worker'.settings = input.settings
    BY <1>1, <1>2 DEF WorkerStates
  <2>3. /\ rig' \in [on: BOOLEAN, settings: Sdrangel!Settings] /\ rig'.on = rig.on
        /\ rig'.settings = input.settings
    BY <1>1, <1>2
  <2> QED BY <1>1, <1>2, <2>1, <2>2, <2>3 DEF AngelInv, AngelShapes, CallsOfRunning,
       FlagMeansThread, StreamIsHeld, FlagIsTold, SettingsKept
<1>3. CASE /\ \E s \in {rig.settings, input.settings}: rig' = [rig EXCEPT !.settings = s]
           /\ UNCHANGED worker /\ Sdrangel!Fails([shown EXCEPT !.unsure = TRUE])
  <2> DEFINE h == [shown EXCEPT !.unsure = TRUE]
  <2>1. /\ h \in Histories /\ h.overwritten = shown.overwritten /\ h.unsure
        /\ h.unstopped = shown.unstopped
    BY <1>1 DEF Histories
  <2>2. Sdrangel!Fails(h) BY <1>3
  <2> HIDE DEF h
  <2>3. /\ shown' \in Histories /\ shown'.told /\ shown'.overwritten = shown.overwritten
        /\ shown'.unstopped = shown.unstopped /\ shown'.unsure
        /\ input' \in Inputs /\ input'.at = "idle" /\ input'.starting = FALSE /\ input'.running
    BY <1>1, <2>1, <2>2, FailsDoes
  <2>4. rig' \in [on: BOOLEAN, settings: Sdrangel!Settings] /\ rig'.on = rig.on BY <1>1, <1>3
  <2> QED BY <1>1, <1>3, <2>3, <2>4 DEF AngelInv, AngelShapes, CallsOfRunning,
       FlagMeansThread, StreamIsHeld, FlagIsTold, SettingsKept
<1> QED BY <1>2, <1>3 DEF Sdrangel!HotApply

LEMMA WorkerThreadKeeps ==
    ASSUME AngelInv, Sdrangel!Loop \/ Sdrangel!Receive \/ Sdrangel!ThreadEnds
    PROVE  AngelInv'
<1>1. /\ worker \in WorkerStates /\ shown \in Histories /\ UNCHANGED input
      /\ worker.thread \in {"loop", "recv", "ending"}
      /\ rig \in [on: BOOLEAN, settings: Sdrangel!Settings]
  BY DEF AngelInv, AngelShapes, Sdrangel!Loop, Sdrangel!Receive, Sdrangel!ThreadEnds
<1>2. ASSUME NEW t \in {"loop", "recv", "ending"}, worker' = [worker EXCEPT !.thread = t]
      PROVE  /\ worker' \in WorkerStates /\ worker'.thread = t /\ worker'.stream = worker.stream
             /\ worker'.running = worker.running /\ worker'.settings = worker.settings
  BY <1>1, <1>2 DEF WorkerStates
<1>3. CASE Sdrangel!Loop
  <2> DEFINE t == IF worker.running THEN "recv" ELSE "ending"
  <2>1. /\ t \in {"loop", "recv", "ending"} /\ t # "loop" /\ (worker.running <=> t = "recv")
        /\ worker' = [worker EXCEPT !.thread = t]
    BY <1>3 DEF Sdrangel!Loop
  <2> HIDE DEF t
  <2>2. /\ worker' \in WorkerStates /\ worker'.thread = t /\ worker'.stream = worker.stream
        /\ worker'.running = worker.running /\ worker'.settings = worker.settings
    BY <1>2, <2>1
  <2>3. worker.thread = "loop" /\ UNCHANGED <<rig, shown>> BY <1>3 DEF Sdrangel!Loop
  <2> QED BY <1>1, <2>1, <2>2, <2>3 DEF AngelInv, AngelShapes, CallsOfRunning, FlagMeansThread,
       StreamIsHeld, FlagIsTold, SettingsKept
<1>4. CASE Sdrangel!Receive
  <2>1. worker.thread = "recv" /\ UNCHANGED rig BY <1>4 DEF Sdrangel!Receive
  <2>2. CASE worker' = [worker EXCEPT !.thread = "loop"] /\ UNCHANGED shown
    <3>1. /\ worker' \in WorkerStates /\ worker'.thread = "loop"
          /\ worker'.stream = worker.stream
          /\ worker'.running = worker.running /\ worker'.settings = worker.settings
      BY <1>2, <2>2
    <3> QED BY <1>1, <2>1, <2>2, <3>1 DEF AngelInv, AngelShapes, CallsOfRunning, FlagMeansThread,
         StreamIsHeld, FlagIsTold, SettingsKept
  <2>3. CASE worker' = [worker EXCEPT !.thread = "ending"]
        /\ Sdrangel!Throws(Sdrangel!Report(shown))
    <3>1. /\ worker' \in WorkerStates /\ worker'.thread = "ending"
          /\ worker'.stream = worker.stream
          /\ worker'.running = worker.running /\ worker'.settings = worker.settings
      BY <1>2, <2>3
    <3> DEFINE h == Sdrangel!Report(shown)
    <3>2. /\ h \in Histories /\ h.told /\ h.unsure = shown.unsure
          /\ h.overwritten = shown.overwritten /\ h.unstopped = shown.unstopped
      BY <1>1 DEF Sdrangel!Report, Sdrangel!Tells, Histories
    <3>3. Sdrangel!Throws(h) BY <2>3
    <3> HIDE DEF h
    <3>4. /\ shown' \in Histories /\ shown'.told /\ shown'.unsure = shown.unsure
          /\ shown'.overwritten = shown.overwritten /\ shown'.unstopped = shown.unstopped
      BY <3>2, <3>3, ThrowsDoes
    <3> QED BY <1>1, <2>1, <3>1, <3>4 DEF AngelInv, AngelShapes, CallsOfRunning, FlagMeansThread,
         StreamIsHeld, FlagIsTold, SettingsKept
  <2> QED BY <1>4, <2>2, <2>3 DEF Sdrangel!Receive
<1>5. CASE Sdrangel!ThreadEnds
  <2>1. /\ worker' \in WorkerStates /\ worker'.thread = "ended" /\ ~worker'.stream
        /\ worker'.running = worker.running /\ worker'.settings = worker.settings
        /\ worker.thread = "ending"
    BY <1>1, <1>5 DEF Sdrangel!ThreadEnds, WorkerStates, Sdrangel!FlagKept
  <2>2. CASE rig' = [rig EXCEPT !.on = FALSE] /\ UNCHANGED shown
    <3>1. /\ rig' \in [on: BOOLEAN, settings: Sdrangel!Settings] /\ ~rig'.on
          /\ rig'.settings = rig.settings
      BY <1>1, <2>2
    <3> QED BY <1>1, <2>1, <2>2, <3>1 DEF AngelInv, AngelShapes, CallsOfRunning, FlagMeansThread,
         StreamIsHeld, FlagIsTold, SettingsKept
  <2>3. CASE /\ \E on \in BOOLEAN: rig' = [rig EXCEPT !.on = on]
             /\ Sdrangel!Throws([shown EXCEPT !.unstopped = TRUE])
    <3>1. /\ rig' \in [on: BOOLEAN, settings: Sdrangel!Settings] /\ rig'.settings = rig.settings
      BY <1>1, <2>3
    <3> DEFINE h == [shown EXCEPT !.unstopped = TRUE]
    <3>2. /\ h \in Histories /\ h.told = shown.told /\ h.unsure = shown.unsure
          /\ h.overwritten = shown.overwritten /\ h.unstopped
      BY <1>1 DEF Histories
    <3>3. Sdrangel!Throws(h) BY <2>3
    <3> HIDE DEF h
    <3>4. /\ shown' \in Histories /\ shown'.told = shown.told /\ shown'.unsure = shown.unsure
          /\ shown'.overwritten = shown.overwritten /\ shown'.unstopped
      BY <3>2, <3>3, ThrowsDoes
    <3> QED BY <1>1, <2>1, <3>1, <3>4 DEF AngelInv, AngelShapes, CallsOfRunning, FlagMeansThread,
         StreamIsHeld, FlagIsTold, SettingsKept
  <2> QED BY <1>5, <2>2, <2>3 DEF Sdrangel!ThreadEnds
<1> QED BY <1>3, <1>4, <1>5

\* AngelInv is inductive.
LEMMA AngelInvariant == Sdrangel!SdrangelSpec => []AngelInv
<1>1. Sdrangel!SdrangelInit => AngelInv BY AngelInitially
<1>2. AngelInv /\ [Sdrangel!SdrangelNext]_(Sdrangel!sdrangelVars) => AngelInv'
  <2> SUFFICES ASSUME AngelInv, [Sdrangel!SdrangelNext]_(Sdrangel!sdrangelVars) PROVE AngelInv'
    OBVIOUS
  <2>1. CASE UNCHANGED Sdrangel!sdrangelVars
    BY <2>1 DEF Sdrangel!sdrangelVars, AngelInv, AngelShapes, CallsOfRunning, FlagMeansThread,
       StreamIsHeld,
       FlagIsTold, SettingsKept
  <2>2. CASE Sdrangel!SdrangelNext
    BY <2>2, StartKeepsAngel, StopKeepsAngel, ApplyKeepsAngel, BetweenStreams, OpenDeviceKeeps,
       ConfigureDeviceKeeps, StartStreamKeeps, HotApplyKeeps,
       WorkerThreadKeeps DEF Sdrangel!SdrangelNext
  <2> QED BY <2>1, <2>2
<1> QED BY <1>1, <1>2, PTL DEF Sdrangel!SdrangelSpec

\* A worker thread is joined before the next one begins, and a stopped input has no thread, no
\* stream and a quiet device unless the command itself failed, for any number of calls and
\* exceptions (start and stop of iqtaxiinput.cpp, stop_stream and worker_loop of
\* iqtaxi_worker.cpp).
THEOREM StoppedInputIsQuiet == Sdrangel!SdrangelSpec => []Sdrangel!WorkerJoined
<1>1. AngelInv => Sdrangel!WorkerJoined
  BY DEF AngelInv, FlagMeansThread, StreamIsHeld, Sdrangel!WorkerJoined
<1> QED BY <1>1, AngelInvariant, PTL

\* An input that says it runs has a thread that receives or has told the GUI, and what runs has
\* the settings that are shown, unless a command of them failed and no reconfiguration has
\* succeeded since (apply_settings and worker_loop of iqtaxi_worker.cpp).
THEOREM ShownIsSo == Sdrangel!SdrangelSpec => [](Sdrangel!RunningOrTold /\ Sdrangel!SettingsShown)
<1>1. AngelInv => Sdrangel!RunningOrTold BY DEF AngelInv, FlagIsTold, Sdrangel!RunningOrTold
<1>2. AngelInv => Sdrangel!SettingsShown BY DEF AngelInv, SettingsKept, Sdrangel!SettingsShown
<1> QED BY <1>1, <1>2, AngelInvariant, PTL

-----------------------------------------------------------------------------
(* ClockReference *)

References == {"internal", "external"}
Selections == [source: References, want: References, ready: BOOLEAN,
               at: {"idle", "dac", "command", "wait"}]
Boards == [source: References, locked: BOOLEAN, valid: BOOLEAN, tenMHz: BOOLEAN]
\* While a switch waits for readiness the device has what is wanted, before that and
\* afterwards what is kept.
ClockInv ==
    /\ uhd \in Selections /\ board \in Boards /\ unsure \in BOOLEAN
    /\ ~unsure => board.source = IF uhd.at = "wait" THEN uhd.want ELSE uhd.source
    /\ sensor.said => sensor.was

-----------------------------------------------------------------------------

LEMMA ClockInitially == ASSUME Clock!ClockInit PROVE ClockInv
<1>1. uhd \in Selections /\ uhd.at = "idle" /\ uhd.source = "internal"
  BY DEF Clock!ClockInit, Selections, References
<1>2. board \in Boards /\ board.source = "internal" BY DEF Clock!ClockInit, Boards, References
<1>3. unsure = FALSE /\ sensor.said = FALSE BY DEF Clock!ClockInit
<1> QED BY <1>1, <1>2, <1>3 DEF ClockInv

LEMMA SwitchFails ==
    ASSUME uhd \in Selections, Clock!Fails
    PROVE  uhd' \in Selections /\ uhd'.at = "idle" /\ uhd'.source = uhd.source
BY DEF Clock!Fails, Selections

\* The calls of update_clock_source.
LEMMA SwitchKeeps ==
    ASSUME Clock!ClockParameters, ClockInv,
           \/ Clock!PreserveDac \/ Clock!SelectSource \/ Clock!Confirmed \/ Clock!NotConfirmed
           \/ \E s \in Sources: Clock!UpdateSource(s)
    PROVE  ClockInv'
<1>0. uhd \in Selections /\ board \in Boards /\ unsure \in BOOLEAN /\ UNCHANGED sensor
  BY DEF ClockInv, Clock!PreserveDac, Clock!SelectSource, Clock!Confirmed, Clock!NotConfirmed,
     Clock!UpdateSource
<1>1. ASSUME NEW s \in Sources, Clock!UpdateSource(s) PROVE ClockInv'
  <2> DEFINE place == IF s = "internal" THEN "dac" ELSE "command"
  <2>1. uhd' = [uhd EXCEPT !.at = place, !.want = s] BY <1>1 DEF Clock!UpdateSource
  <2>2. s \in References BY DEF Clock!ClockParameters, References
  <2>3. place \in {"dac", "command"} OBVIOUS
  <2> HIDE DEF place
  <2>4. uhd' \in Selections /\ uhd'.at = place /\ uhd'.source = uhd.source
    BY <1>0, <2>1, <2>2, <2>3 DEF Selections
  <2>5. uhd.at = "idle" /\ UNCHANGED <<board, sensor, unsure>> BY <1>1 DEF Clock!UpdateSource
  <2> QED BY <1>0, <2>3, <2>4, <2>5 DEF ClockInv
<1>2. CASE Clock!PreserveDac
  <2>1. uhd.at = "dac" /\ UNCHANGED <<board, sensor, unsure>> BY <1>2 DEF Clock!PreserveDac
  <2>2. uhd' \in Selections /\ uhd'.at \in {"idle", "command"} /\ uhd'.source = uhd.source
    <3>1. CASE uhd' = [uhd EXCEPT !.at = "command"] BY <1>0, <3>1 DEF Selections
    <3> QED BY <1>0, <1>2, <3>1, SwitchFails DEF Clock!PreserveDac
  <2> QED BY <1>0, <2>1, <2>2 DEF ClockInv
<1>3. CASE Clock!SelectSource
  <2>1. uhd.at = "command" /\ uhd.want \in References
    BY <1>0, <1>3 DEF Clock!SelectSource, Selections
  <2>2. Clock!Selected => board' \in Boards /\ board'.source = uhd.want
    <3> SUFFICES ASSUME Clock!Selected PROVE board' \in Boards /\ board'.source = uhd.want OBVIOUS
    <3> DEFINE l == board.locked /\ board.source = uhd.want
    <3>1. l \in BOOLEAN OBVIOUS
    <3>2. board' = [board EXCEPT !.source = uhd.want, !.locked = l] BY DEF Clock!Selected
    <3> HIDE DEF l
    <3> QED BY <1>0, <2>1, <3>1, <3>2 DEF Boards
  <2>3. CASE Clock!Selected /\ uhd' = [uhd EXCEPT !.at = "wait"] /\ unsure' = FALSE
    <3>1. uhd' \in Selections /\ uhd'.at = "wait" /\ uhd'.want = uhd.want
      BY <1>0, <2>3 DEF Selections
    <3> QED BY <1>0, <2>2, <2>3, <3>1 DEF ClockInv
  <2>4. CASE Clock!Fails /\ UNCHANGED <<board, unsure>>
    BY <1>0, <2>1, <2>4, SwitchFails DEF ClockInv
  <2>5. CASE Clock!Fails /\ Clock!Selected /\ unsure' = TRUE
    BY <1>0, <2>2, <2>5, SwitchFails DEF ClockInv
  <2> QED BY <1>3, <2>3, <2>4, <2>5 DEF Clock!SelectSource
<1>4. CASE Clock!Confirmed
  <2>1. board.source = uhd.want /\ uhd.want \in References /\ UNCHANGED <<board, unsure>>
    BY <1>0, <1>4 DEF Clock!Confirmed, Clock!Ready, Selections
  <2>2. uhd' \in Selections /\ uhd'.at = "idle" /\ uhd'.source = uhd.want
    BY <1>0, <1>4, <2>1 DEF Clock!Confirmed, Selections
  <2> QED BY <1>0, <2>1, <2>2 DEF ClockInv
<1>5. CASE Clock!NotConfirmed
  <2>1. uhd.at = "wait" /\ uhd.want \in References /\ UNCHANGED <<board, unsure>>
    BY <1>0, <1>5 DEF Clock!NotConfirmed, Selections
  <2>2. uhd' \in Selections /\ uhd'.at = "idle" /\ uhd'.source = uhd.want
    BY <1>0, <1>5, <2>1 DEF Clock!NotConfirmed, Clock!NotReady, Selections
  <2> QED BY <1>0, <2>1, <2>2 DEF ClockInv
<1> QED BY <1>1, <1>2, <1>3, <1>4, <1>5

LEMMA BoardKeeps == ASSUME ClockInv, Clock!RefLocked \/ Clock!Signal \/ Clock!Lock PROVE ClockInv'
<1>0. uhd \in Selections /\ board \in Boards /\ unsure \in BOOLEAN /\ UNCHANGED <<uhd, unsure>>
  BY DEF ClockInv, Clock!RefLocked, Clock!Signal, Clock!Lock
<1>1. CASE Clock!RefLocked
  <2> DEFINE said == Clock!Ready(board, uhd.source)
  <2> DEFINE was == /\ board.source = uhd.source
                    /\ uhd.source = "internal" \/ (board.locked /\ board.valid)
  <2>1. said => was BY DEF Clock!Ready
  <2>2. sensor' = [said |-> said, was |-> was] /\ UNCHANGED board BY <1>1 DEF Clock!RefLocked
  <2> HIDE DEF said, was
  <2>3. sensor'.said => sensor'.was BY <2>1, <2>2
  <2>4. UNCHANGED board BY <2>2
  <2> QED BY <1>0, <2>3, <2>4 DEF ClockInv
<1>2. CASE Clock!Signal
  <2>1. PICK here \in BOOLEAN, lock \in BOOLEAN:
            board' = [board EXCEPT !.valid = here, !.tenMHz = here,
                                   !.locked = here /\ lock /\ board.source = "external"]
    BY <1>2 DEF Clock!Signal
  <2> DEFINE l == here /\ lock /\ board.source = "external"
  <2>2. l \in BOOLEAN OBVIOUS
  <2>3. board' = [board EXCEPT !.valid = here, !.tenMHz = here, !.locked = l] BY <2>1
  <2> HIDE DEF l
  <2>4. board' \in Boards /\ board'.source = board.source BY <1>0, <2>2, <2>3 DEF Boards
  <2>5. UNCHANGED <<uhd, sensor, unsure>> BY <1>2 DEF Clock!Signal
  <2> QED BY <1>0, <2>4, <2>5 DEF ClockInv
<1>3. CASE Clock!Lock
  <2>1. board' \in Boards /\ board'.source = board.source BY <1>0, <1>3 DEF Clock!Lock, Boards
  <2> QED BY <1>0, <1>3, <2>1 DEF Clock!Lock, ClockInv
<1> QED BY <1>1, <1>2, <1>3

\* After every switch, refused, unanswered or not ready, the kept source is the one the device
\* has, and ref_locked is true only of it, unless a command was executed without an answer
\* (clock_reference.hpp, update_clock_source and get_ref_locked of iqtaxi_impl.cpp).
THEOREM KeptSourceIsSelected == ASSUME Clock!ClockParameters PROVE Clock!ClockSpec
   => []Clock!ClockTruthful
<1>1. Clock!ClockInit => ClockInv BY ClockInitially
<1>2. ClockInv /\ [Clock!ClockNext]_(Clock!clockVars) => ClockInv'
  <2> SUFFICES ASSUME ClockInv, [Clock!ClockNext]_(Clock!clockVars) PROVE ClockInv'
    OBVIOUS
  <2>1. CASE UNCHANGED Clock!clockVars BY <2>1 DEF Clock!clockVars, ClockInv
  <2> QED BY <2>1, SwitchKeeps, BoardKeeps DEF Clock!ClockNext
<1>3. ClockInv => Clock!ClockTruthful BY DEF ClockInv, Clock!ClockTruthful
<1> QED BY <1>1, <1>2, <1>3, PTL DEF Clock!ClockSpec

-----------------------------------------------------------------------------
(* HdsdrExtIo *)

GuiPlaces == {"idle", "start_rx", "start_cb", "start_fail", "stop_rx", "stop_cb", "join_cb",
              "stop_end", "rate_rx", "rate_set", "rate_go", "lo_depth", "lo_defer", "lo_set"}
SettingLo == {"lo_depth", "lo_defer", "lo_set"}
Frequencies == LoTunings \cup {0}
GuiStates == [at: GuiPlaces, lo: Frequencies, close: BOOLEAN]
RxStates == [at: {"none", "setup", "loop", "apply", "fetch", "recv", "block", "fill"},
             lo: Frequencies, buf: Nat]
CbStates == [at: {"none", "check", "doze", "asleep", "look", "deliver", "give"}, buf: Nat,
             call: {"none", "defer", "stop_rx", "stop_end"}]
FlagSet == [running: BOOLEAN, stream: BOOLEAN, stopRx: BOOLEAN, stopCb: BOOLEAN]
LoHistories == [asked: SUBSET Frequencies, twice: SUBSET Nat, orphans: SUBSET Hdsdr!Workers,
              loose: BOOLEAN]
HdsdrShapes ==
    /\ window \in GuiStates /\ radio \in [open: BOOLEAN, lo: Frequencies] /\ flags \in FlagSet
    /\ tune \in [lo: LoTunings, pending: BOOLEAN] /\ receiver \in RxStates
    /\ cb \in [Hdsdr!Workers -> CbStates] /\ cbNow \in {0} \cup Hdsdr!Workers
    /\ free \in Seq(Nat) /\ filled \in Seq(Nat) /\ asks \in LoHistories
    /\ budget \in [calls: Nat, fails: Nat]

\* Calls are made in the callback only; a thread that fills or delivers has a buffer.
InItsPlace ==
    /\ receiver.at # "fill" => receiver.buf = 0
    /\ \A k \in Hdsdr!Workers:
          /\ cb[k].call # "none" => cb[k].at = "deliver"
          /\ cb[k].at \notin {"look", "deliver", "give"} => cb[k].buf = 0
\* Whoever stops has joined the threads it says, and a closed device has none.
RxJoined ==
    /\ window.at \in {"stop_cb", "join_cb", "stop_end", "rate_set"} => receiver.at = "none"
    /\ window.at \in {"stop_end", "start_fail"} => cbNow = 0
    /\ ~radio.open =>
          /\ ~flags.running /\ receiver.at = "none" /\ cbNow = 0
          /\ window.at \in SettingLo \cup {"idle"}
\* Every frequency that may still be set is one that was asked for.
Defers == \E k \in Hdsdr!Workers: cb[k].call = "defer"
LoFollows ==
    /\ tune.lo \in asks.asked
    /\ window.at \in SettingLo => window.lo \in asks.asked
    /\ receiver.at = "apply" => receiver.lo \in asks.asked
    /\ radio.open /\ ~Hdsdr!LoUnderWay => radio.lo \in asks.asked

\* A stop by the callback meets no start and no change of the rate.
Waiting == SettingLo \cup {"idle", "stop_rx", "stop_cb", "join_cb"}
StopsInCallback ==
    \A k \in Hdsdr!Workers:
        /\ cb[k].call \in {"stop_rx", "stop_end"} =>
              k = cbNow /\ flags.running /\ window.at \in Waiting
        /\ cb[k].call = "stop_end" => receiver.at = "none" /\ flags.stopCb
\* A source that does not run has no thread but a callback thread told to end.
NothingRuns ==
    /\ window.at \in {"start_rx", "start_cb", "rate_go"} => flags.running
    /\ window.at \in SettingLo \cup {"idle"} /\ ~flags.running =>
          receiver.at = "none" /\ (cbNow # 0 => flags.stopCb)
Tamed == ~asks.loose => StopsInCallback /\ NothingRuns
\* No callback thread that is about to sleep, or sleeps with the others, overlooks a block.
Dozing == (\E k \in Hdsdr!Workers: cb[k].at = "doze") => filled = <<>>
Noticed == Dozing /\ Hdsdr!BlocksNoticed
HdsdrInv ==
    /\ HdsdrShapes /\ InItsPlace /\ RxJoined /\ LoFollows /\ Hdsdr!OneCaller /\ Tamed
    /\ Hdsdr!BuffersOnce /\ Noticed

-----------------------------------------------------------------------------

\* The instance counts as FiniteSets does.
LEMMA CountsAlike == \A S: Hdsdr!Cardinality(S) = Cardinality(S)
BY DEF Hdsdr!Cardinality, Cardinality

\* What the bounds' counters, the call of HDSDR's thread and the receiving thread become.
LEMMA BudgetTyped ==
    ASSUME budget \in [calls: Nat, fails: Nat], Hdsdr!Called \/ Hdsdr!Failing \/ Hdsdr!CalledFailing
    PROVE  budget' \in [calls: Nat, fails: Nat]
<1> DEFINE c == budget.calls + 1
<1> DEFINE f == budget.fails + 1
<1>1. budget.calls \in Nat /\ budget.fails \in Nat OBVIOUS
<1>2. c \in Nat /\ f \in Nat BY <1>1
<1>3. \/ budget' = [budget EXCEPT !.calls = c] \/ budget' = [budget EXCEPT !.fails = f]
      \/ budget' = [budget EXCEPT !.calls = c, !.fails = f]
  BY DEF Hdsdr!Called, Hdsdr!Failing, Hdsdr!CalledFailing
<1> HIDE DEF c, f
<1> QED BY <1>2, <1>3

LEMMA GoToDoes ==
    ASSUME window \in GuiStates, NEW place \in GuiPlaces, Hdsdr!GoTo(place)
    PROVE  window' \in GuiStates /\ window'.at = place /\ window'.lo = window.lo
BY DEF Hdsdr!GoTo, GuiStates

LEMMA AtIs ==
    ASSUME NEW place \in GuiPlaces
    PROVE  Hdsdr!At(place) \in GuiStates /\ Hdsdr!At(place).at = place
BY DEF Hdsdr!At, GuiStates, Frequencies

LEMMA RxToDoes ==
    ASSUME NEW place \in {"none", "setup", "loop", "fetch", "recv", "block"},
           Hdsdr!RxTo(place) \/ (place = "none" /\ Hdsdr!RxExit)
              \/ receiver' = [Hdsdr!NoRx EXCEPT !.at = place]
    PROVE  receiver' \in RxStates /\ receiver'.at = place /\ receiver'.buf = 0
BY DEF Hdsdr!RxTo, Hdsdr!RxExit, Hdsdr!NoRx, RxStates, Frequencies

LEMMA HdsdrInitially == ASSUME Hdsdr!HdsdrParameters, Hdsdr!HdsdrInit PROVE HdsdrInv
<1>1. window \in GuiStates /\ window.at = "idle" BY AtIs DEF Hdsdr!HdsdrInit, GuiPlaces
<1>2. radio \in [open: BOOLEAN, lo: Frequencies] /\ ~radio.open BY DEF Hdsdr!HdsdrInit, Frequencies
<1>3. flags \in FlagSet /\ ~flags.running BY DEF Hdsdr!HdsdrInit, FlagSet
<1>4. tune \in [lo: LoTunings, pending: BOOLEAN] /\ tune.lo = Hdsdr!FirstLo
  BY DEF Hdsdr!HdsdrInit, Hdsdr!HdsdrParameters, Hdsdr!FirstLo
<1>5. receiver \in RxStates /\ receiver.at = "none" /\ receiver.buf = 0
  BY DEF Hdsdr!HdsdrInit, Hdsdr!NoRx, RxStates, Frequencies
<1>6. /\ cb \in [Hdsdr!Workers -> CbStates]
      /\ \A k \in Hdsdr!Workers: cb[k].at = "none" /\ cb[k].buf = 0 /\ cb[k].call = "none"
  BY DEF Hdsdr!HdsdrInit, Hdsdr!NoCb, CbStates
<1>7. free = <<>> /\ filled = <<>> /\ free \in Seq(Nat) /\ filled \in Seq(Nat) /\ cbNow = 0
  BY DEF Hdsdr!HdsdrInit
<1>8. /\ Hdsdr!FirstLo \in LoTunings /\ asks \in LoHistories /\ asks.asked = {Hdsdr!FirstLo}
      /\ budget \in [calls: Nat, fails: Nat]
  BY DEF Hdsdr!HdsdrInit, Hdsdr!FirstLo, Hdsdr!HdsdrParameters, LoHistories, Frequencies
<1>9. HdsdrShapes BY <1>1, <1>2, <1>3, <1>4, <1>5, <1>6, <1>7, <1>8 DEF HdsdrShapes
<1>10. InItsPlace /\ RxJoined /\ Hdsdr!OneCaller /\ Noticed
  BY <1>1, <1>2, <1>3, <1>5, <1>6, <1>7
  DEF InItsPlace, RxJoined, Hdsdr!OneCaller, Noticed, Dozing, Hdsdr!BlocksNoticed
<1>12. LoFollows BY <1>1, <1>2, <1>4, <1>5, <1>8 DEF LoFollows, SettingLo
<1>13. Tamed BY <1>1, <1>3, <1>5, <1>6, <1>7 DEF Tamed, StopsInCallback, NothingRuns
<1>11. Hdsdr!BuffersOnce
  <2> SUFFICES ASSUME NEW i \in 1..NumBuffers PROVE Hdsdr!Places(i) <= 1
    BY DEF Hdsdr!BuffersOnce
  <2>1. i # 0 BY DEF Hdsdr!HdsdrParameters
  <2>2. {n \in DOMAIN free: free[n] = i} = {} /\ {n \in DOMAIN filled: filled[n] = i} = {}
    BY <1>7
  <2>3. {k \in Hdsdr!Workers: cb[k].buf = i} = {} BY <1>6, <2>1
  <2>4. Hdsdr!Places(i) = 0 + 0 + 0 + 0
    BY <1>5, <2>1, <2>2, <2>3, FS_EmptySet, CountsAlike DEF Hdsdr!Places, Hdsdr!Used
  <2> QED BY <2>4
<1> QED BY <1>9, <1>10, <1>11, <1>12, <1>13 DEF HdsdrInv

\* A step that moves no buffer.
LEMMA NoBufferMoves ==
    ASSUME HdsdrInv, UNCHANGED <<free, filled>>, receiver'.buf = receiver.buf,
           \A k \in Hdsdr!Workers: cb'[k].buf = cb[k].buf, asks'.twice = asks.twice
    PROVE  Hdsdr!BuffersOnce'
<1>1. ASSUME NEW i PROVE Hdsdr!Places(i)' = Hdsdr!Places(i)
  <2>1. {k \in Hdsdr!Workers: cb'[k].buf = i} = {k \in Hdsdr!Workers: cb[k].buf = i} OBVIOUS
  <2> QED BY <2>1, CountsAlike DEF Hdsdr!Places, Hdsdr!Used
<1> QED BY <1>1 DEF HdsdrInv, Hdsdr!BuffersOnce

\* A step after which the callback threads that sleep, or are about to, are the same.
LEMMA NoticedKept ==
    ASSUME HdsdrInv, UNCHANGED filled,
           \A k \in Hdsdr!Workers:
              \/ cb'[k].at = cb[k].at
              \/ cb[k].at # "none" /\ cb'[k].at \notin {"none", "doze", "asleep"}
    PROVE  Noticed'
<1>1. Dozing /\ Hdsdr!BlocksNoticed BY DEF HdsdrInv, Noticed
<1>2. Dozing' BY <1>1 DEF Dozing
<1>3. Hdsdr!BlocksNoticed' BY <1>1 DEF Hdsdr!BlocksNoticed
<1> QED BY <1>2, <1>3 DEF Noticed

\* No callback thread is started and none given up.
LEMMA CallersKept ==
    ASSUME HdsdrInv, UNCHANGED cbNow, asks'.orphans = asks.orphans,
           \A k \in Hdsdr!Workers: cb'[k].at # "none" => cb[k].at # "none"
    PROVE  Hdsdr!OneCaller'
BY DEF HdsdrInv, Hdsdr!OneCaller

\* No frequency is asked for and none set.
LEMMA LoKept ==
    ASSUME HdsdrInv, tune'.lo = tune.lo, asks'.asked = asks.asked,
           window'.at \in SettingLo => window.at \in SettingLo /\ window'.lo = window.lo,
           receiver'.at = "apply" => receiver.at = "apply" /\ receiver'.lo = receiver.lo,
           radio'.open => radio.open, radio'.lo = radio.lo, Hdsdr!LoUnderWay => Hdsdr!LoUnderWay'
    PROVE  LoFollows'
BY DEF HdsdrInv, LoFollows

\* A step of HDSDR's own thread alone.
LEMMA GuiAlone ==
    ASSUME HdsdrInv, UNCHANGED <<receiver, cb, free, filled>>, asks'.twice = asks.twice
    PROVE  InItsPlace' /\ Hdsdr!BuffersOnce' /\ Noticed' /\ (Defers' <=> Defers)
<1>1. InItsPlace' /\ (Defers' <=> Defers) BY DEF HdsdrInv, InItsPlace, Defers
<1>2. Hdsdr!BuffersOnce' BY NoBufferMoves
<1>3. Noticed' BY NoticedKept
<1> QED BY <1>1, <1>2, <1>3

\* ... that starts, ends or leaves no change of the frequency.
LEMMA GuiLo ==
    ASSUME HdsdrInv, UNCHANGED <<receiver, cb, tune>>, asks'.asked = asks.asked,
           window.at \notin SettingLo, window'.at \notin SettingLo,
           radio'.open => radio.open, radio'.lo = radio.lo
    PROVE  LoFollows'
<1>1. Hdsdr!LoUnderWay => Hdsdr!LoUnderWay' BY DEF Hdsdr!LoUnderWay, SettingLo
<1> QED BY <1>1, LoKept

\* Buffers in a queue: one more at the end, one less at the front.
LEMMA UsedFinite ==
    ASSUME NEW q \in Seq(Nat), NEW i
    PROVE  IsFiniteSet({n \in DOMAIN q: q[n] = i}) /\ Hdsdr!Used(q, i) \in Nat
<1>1. DOMAIN q = 1..Len(q) /\ Len(q) \in Nat OBVIOUS
<1>2. IsFiniteSet(1..Len(q)) BY <1>1, FS_Interval
<1>3. IsFiniteSet({n \in DOMAIN q: q[n] = i}) BY <1>1, <1>2, FS_Subset
<1> QED BY <1>3, FS_CardinalityType, CountsAlike DEF Hdsdr!Used

LEMMA UsedAppend ==
    ASSUME NEW q \in Seq(Nat), NEW v \in Nat, NEW i
    PROVE  Hdsdr!Used(Append(q, v), i) = Hdsdr!Used(q, i) + (IF v = i THEN 1 ELSE 0)
<1> DEFINE S == {n \in DOMAIN q: q[n] = i}
<1> DEFINE p == Append(q, v)
<1> DEFINE T == {n \in DOMAIN p: p[n] = i}
<1>1. DOMAIN q = 1..Len(q) /\ Len(q) \in Nat /\ DOMAIN p = 1..(Len(q) + 1)
  OBVIOUS
<1>2. p[Len(q) + 1] = v /\ \A n \in 1..Len(q): p[n] = q[n] OBVIOUS
<1>3. IsFiniteSet(S) /\ Cardinality(S) \in Nat BY UsedFinite, CountsAlike DEF Hdsdr!Used
<1>7. Hdsdr!Used(q, i) = Cardinality(S) /\ Hdsdr!Used(p, i) = Cardinality(T)
  BY CountsAlike DEF Hdsdr!Used
<1>4. ASSUME v = i PROVE Hdsdr!Used(p, i) = Hdsdr!Used(q, i) + 1
  <2>1. T = S \cup {Len(q) + 1} /\ Len(q) + 1 \notin S BY <1>1, <1>2, <1>4
  <2>2. Cardinality(T) = Cardinality(S) + 1 BY <2>1, <1>3, FS_AddElement
  <2> HIDE DEF S, T, p
  <2> QED BY <2>2, <1>4, <1>7
<1>5. ASSUME v # i PROVE Hdsdr!Used(p, i) = Hdsdr!Used(q, i)
  <2>1. T = S BY <1>1, <1>2, <1>5
  <2> HIDE DEF S, T, p
  <2> QED BY <2>1, <1>3, <1>5, <1>7
<1>6. Hdsdr!Used(p, i) \in Nat /\ Hdsdr!Used(q, i) \in Nat
  <2>1. p \in Seq(Nat) OBVIOUS
  <2> QED BY <2>1, UsedFinite
<1> HIDE DEF S, T
<1> QED BY <1>4, <1>5, <1>6

LEMMA UsedTail ==
    ASSUME NEW q \in Seq(Nat), q # <<>>, NEW i
    PROVE  Hdsdr!Used(q, i) = Hdsdr!Used(Tail(q), i) + (IF Head(q) = i THEN 1 ELSE 0)
<1> DEFINE p == Tail(q)
<1> DEFINE S == {n \in DOMAIN p: p[n] = i}
<1> DEFINE T == {n \in DOMAIN q: q[n] = i}
<1> DEFINE later == {n \in T: n # 1}
<1> DEFINE shift == [n \in S |-> n + 1]
<1>1. /\ DOMAIN q = 1..Len(q) /\ Len(q) \in Nat \ {0} /\ p \in Seq(Nat)
      /\ DOMAIN p = 1..(Len(q) - 1)
  OBVIOUS
<1>2. Head(q) = q[1] /\ \A n \in 1..(Len(q) - 1): p[n] = q[n + 1] OBVIOUS
<1>3. IsFiniteSet(S) /\ Cardinality(S) \in Nat /\ IsFiniteSet(T)
  BY <1>1, UsedFinite, CountsAlike DEF Hdsdr!Used
<1>4. shift \in Bijection(S, later)
  <2>1. \A n \in S: n \in Nat /\ shift[n] \in later BY <1>1, <1>2
  <2>2. \A n, m \in S: shift[n] = shift[m] => n = m BY <2>1
  <2>3. \A m \in later: m - 1 \in S /\ shift[m - 1] = m BY <1>1, <1>2
  <2>4. shift \in [S -> later] BY <2>1
  <2> HIDE DEF S, later, shift
  <2> QED BY <2>2, <2>3, <2>4, Fun_IsBij
<1>5. IsFiniteSet(later) /\ Cardinality(later) = Cardinality(S)
  BY <1>3, <1>4, FS_Bijection DEF ExistsBijection
<1>9. Hdsdr!Used(q, i) = Cardinality(T) /\ Hdsdr!Used(p, i) = Cardinality(S)
  BY CountsAlike DEF Hdsdr!Used
<1>6. ASSUME Head(q) = i PROVE Hdsdr!Used(q, i) = Hdsdr!Used(p, i) + 1
  <2>1. T = later \cup {1} /\ 1 \notin later BY <1>1, <1>2, <1>6
  <2>2. Cardinality(T) = Cardinality(S) + 1 BY <2>1, <1>5, FS_AddElement
  <2> HIDE DEF S, T, p, later
  <2> QED BY <2>2, <1>9
<1>7. ASSUME Head(q) # i PROVE Hdsdr!Used(q, i) = Hdsdr!Used(p, i)
  <2>1. T = later BY <1>1, <1>2, <1>7
  <2> HIDE DEF S, T, p, later
  <2> QED BY <2>1, <1>5, <1>9
<1>8. Hdsdr!Used(p, i) \in Nat /\ Hdsdr!Used(q, i) \in Nat BY <1>1, UsedFinite
<1> HIDE DEF S, T, later, shift
<1> QED BY <1>6, <1>7, <1>8

LEMMA WorkersFinite == IsFiniteSet(Hdsdr!Workers)
<1>1. Hdsdr!Workers = 1..2 BY DEF Hdsdr!Workers
<1>2. IsFiniteSet(1..2)
  <2>1. 1 \in Int /\ 2 \in Int OBVIOUS
  <2> QED BY <2>1, FS_Interval, Zenon
<1> QED BY <1>1, <1>2

\* How many callback threads hold a buffer, when one takes or returns one.
LEMMA HoldersChange ==
    ASSUME NEW S \in SUBSET Hdsdr!Workers, NEW T \in SUBSET Hdsdr!Workers, NEW k \in Hdsdr!Workers,
            k \notin S,
           \A w \in Hdsdr!Workers: w # k => (w \in T <=> w \in S)
    PROVE  /\ Cardinality(S) \in Nat
           /\ Cardinality(T) = Cardinality(S) + (IF k \in T THEN 1 ELSE 0)
<1>1. IsFiniteSet(S) /\ Cardinality(S) \in Nat BY WorkersFinite, FS_Subset, FS_CardinalityType
<1>2. CASE k \in T
  <2>1. T = S \cup {k} BY <1>2
  <2> QED BY <2>1, <1>1, <1>2, FS_AddElement
<1>3. CASE k \notin T
  <2>1. T = S BY <1>3
  <2> QED BY <2>1, <1>1, <1>3
<1> QED BY <1>2, <1>3

\* What the flags and the history become.
LEMMA StoppedDoes ==
    ASSUME flags \in FlagSet, flags' = Hdsdr!Stopped(flags)
    PROVE  flags' \in FlagSet /\ ~flags'.running /\ flags'.stopCb = flags.stopCb
BY DEF Hdsdr!Stopped, FlagSet

LEMMA RequestStopDoes ==
    ASSUME flags \in FlagSet, Hdsdr!RequestStop
    PROVE  flags' \in FlagSet /\ flags'.running = flags.running /\ flags'.stopCb = flags.stopCb
BY DEF Hdsdr!RequestStop, FlagSet

\* Frequencies are asked for, with those of the changes under way or without.
LEMMA AskedDoes ==
    ASSUME asks \in LoHistories, NEW fs \in SUBSET Frequencies, Hdsdr!Asked(fs)
    PROVE  /\ asks' \in LoHistories /\ asks'.twice = asks.twice
           /\ asks'.orphans = asks.orphans /\ asks'.loose = asks.loose
           /\ fs \subseteq asks'.asked
           /\ Hdsdr!LoUnderWay => asks.asked \subseteq asks'.asked
<1> DEFINE a == (IF Hdsdr!LoUnderWay THEN asks.asked ELSE {}) \cup fs
<1>1. a \in SUBSET Frequencies /\ fs \subseteq a /\ (Hdsdr!LoUnderWay => asks.asked \subseteq a)
  BY DEF LoHistories
<1>2. asks' = [asks EXCEPT !.asked = a] BY DEF Hdsdr!Asked
<1> HIDE DEF a
<1>3. asks' \in LoHistories /\ asks'.asked = a /\ asks'.twice = asks.twice
      /\ asks'.orphans = asks.orphans /\ asks'.loose = asks.loose
  BY <1>1, <1>2 DEF LoHistories
<1> QED BY <1>1, <1>3

LEMMA LoFailedDoes ==
    ASSUME asks \in LoHistories, radio.lo \in Frequencies, Hdsdr!LoFailed
    PROVE  /\ asks' \in LoHistories /\ asks'.twice = asks.twice
           /\ asks'.orphans = asks.orphans /\ asks'.loose = asks.loose
           /\ asks.asked \subseteq asks'.asked /\ radio.lo \in asks'.asked
BY DEF Hdsdr!LoFailed, LoHistories

LEMMA LooseDoes ==
    ASSUME asks \in LoHistories, NEW b \in BOOLEAN, asks' = [asks EXCEPT !.loose = b]
    PROVE  /\ asks' \in LoHistories /\ asks'.loose = b /\ asks'.twice = asks.twice
           /\ asks'.orphans = asks.orphans /\ asks'.asked = asks.asked
BY DEF LoHistories

LEMMA SetOrNotDoes ==
    ASSUME radio \in [open: BOOLEAN, lo: Frequencies], NEW f \in Frequencies, Hdsdr!SetOrNot(f)
    PROVE  /\ radio' \in [open: BOOLEAN, lo: Frequencies]
           /\ radio'.open = radio.open /\ radio'.lo \in {radio.lo, f}
BY DEF Hdsdr!SetOrNot

\* A step that changes no thread, and the flags not at all.
LEMMA ThreadsUnmoved ==
    ASSUME HdsdrInv, UNCHANGED <<receiver, cb, cbNow, flags>>, asks'.loose = asks.loose,
           \/ window'.at = window.at
           \/ window.at \in SettingLo \cup {"idle"} /\ window'.at \in SettingLo \cup {"idle"}
    PROVE  Tamed'
<1>1. Tamed BY DEF HdsdrInv
<1>2. StopsInCallback => StopsInCallback' BY DEF StopsInCallback, Waiting, SettingLo
<1>3. NothingRuns => NothingRuns' BY DEF NothingRuns, SettingLo
<1> QED BY <1>1, <1>2, <1>3 DEF Tamed

LEMMA OpenHWKeeps == ASSUME HdsdrInv, Hdsdr!OpenHW PROVE HdsdrInv'
<1>1. HdsdrShapes /\ RxJoined BY DEF HdsdrInv
<1>2. /\ radio' \in [open: BOOLEAN, lo: Frequencies] /\ radio'.open /\ radio'.lo = tune.lo
      /\ UNCHANGED <<window, flags, tune, receiver, cb, cbNow, free, filled, budget>>
      /\ receiver.at = "none" /\ window.at = "idle"
  BY <1>1 DEF Hdsdr!OpenHW, HdsdrShapes, Frequencies, RxJoined
<1>3. /\ asks' \in LoHistories /\ asks'.twice = asks.twice /\ asks'.loose = asks.loose
      /\ asks'.orphans = asks.orphans /\ tune.lo \in asks'.asked
  <2>1. {tune.lo} \in SUBSET Frequencies /\ asks \in LoHistories
    BY <1>1 DEF HdsdrShapes, Frequencies
  <2>2. Hdsdr!Asked({tune.lo}) BY DEF Hdsdr!OpenHW
  <2> QED BY <2>1, <2>2, AskedDoes
<1>4. HdsdrShapes' BY <1>1, <1>2, <1>3 DEF HdsdrShapes
<1>5. RxJoined' BY <1>2 DEF RxJoined
<1>6. LoFollows' BY <1>2, <1>3 DEF LoFollows, SettingLo
<1>7. Tamed' BY <1>2, <1>3, ThreadsUnmoved
<1>8. Hdsdr!OneCaller' BY <1>2, <1>3, CallersKept
<1> QED BY <1>2, <1>3, <1>4, <1>5, <1>6, <1>7, <1>8, GuiAlone DEF HdsdrInv

LEMMA ConfigureDoes ==
    ASSUME HdsdrShapes, NEW f \in LoTunings, Hdsdr!Configure(f)
    PROVE  /\ radio' \in [open: BOOLEAN, lo: Frequencies] /\ radio'.open = radio.open
       /\ radio'.lo = f
           /\ tune' \in [lo: LoTunings, pending: BOOLEAN] /\ tune'.lo = f /\ ~tune'.pending
BY DEF HdsdrShapes, Hdsdr!Configure, Frequencies

LEMMA StartHWKeeps == ASSUME HdsdrInv, NEW f \in LoTunings, Hdsdr!StartHW(f) PROVE HdsdrInv'
<1>1. HdsdrShapes /\ RxJoined /\ LoFollows /\ Tamed /\ asks \in LoHistories
  BY DEF HdsdrInv, HdsdrShapes
<1>2. /\ window.at = "idle" /\ radio.open /\ ~flags.running
      /\ UNCHANGED <<receiver, cb, cbNow, free, filled>>
  BY DEF Hdsdr!StartHW
<1>5. receiver.at = "apply" => Hdsdr!LoUnderWay BY DEF Hdsdr!LoUnderWay
<1>3. CASE Hdsdr!Called /\ Hdsdr!Configure(f)
      /\ flags' = [flags EXCEPT !.stream = TRUE, !.running = TRUE]
           /\ Hdsdr!Asked({f}) /\ Hdsdr!GoTo("start_rx")
  <2>1. window' \in GuiStates /\ window'.at = "start_rx"
    BY <1>1, <1>3, GoToDoes DEF HdsdrShapes, GuiPlaces
  <2>2. flags' \in FlagSet /\ flags'.running BY <1>1, <1>3 DEF HdsdrShapes, FlagSet
  <2>3. /\ asks' \in LoHistories /\ asks'.twice = asks.twice /\ asks'.loose = asks.loose
        /\ asks'.orphans = asks.orphans /\ f \in asks'.asked
        /\ Hdsdr!LoUnderWay => asks.asked \subseteq asks'.asked
    <3>1. {f} \in SUBSET Frequencies BY DEF Frequencies
    <3> QED BY <1>1, <1>3, <3>1, AskedDoes
  <2>4. budget' \in [calls: Nat, fails: Nat] BY <1>1, <1>3, BudgetTyped DEF HdsdrShapes
  <2>5. HdsdrShapes' BY <1>1, <1>2, <1>3, <2>1, <2>2, <2>3, <2>4, ConfigureDoes DEF HdsdrShapes
  <2>6. RxJoined' BY <1>1, <1>2, <1>3, <2>1, ConfigureDoes DEF RxJoined
  <2>7. LoFollows'
    BY <1>1, <1>2, <1>3, <1>5, <2>1, <2>3, ConfigureDoes DEF LoFollows, SettingLo
  <2>8. StopsInCallback => StopsInCallback' BY <1>2 DEF StopsInCallback
  <2>9. NothingRuns' BY <2>1, <2>2 DEF NothingRuns, SettingLo
  <2>10. Tamed' BY <1>1, <2>3, <2>8, <2>9 DEF Tamed
  <2>11. Hdsdr!OneCaller' BY <1>2, <2>3, CallersKept
  <2> QED BY <1>2, <2>3, <2>5, <2>6, <2>7, <2>10, <2>11, GuiAlone DEF HdsdrInv
<1>4. CASE Hdsdr!CalledFailing /\ tune' = [tune EXCEPT !.lo = f] /\ flags' = Hdsdr!Stopped(flags)
           /\ Hdsdr!SetOrNot(f) /\ Hdsdr!Asked({f, radio.lo}) /\ UNCHANGED window
  <2>1. flags' \in FlagSet /\ ~flags'.running /\ flags'.stopCb = flags.stopCb
    BY <1>1, <1>4, StoppedDoes DEF HdsdrShapes
  <2>2. radio \in [open: BOOLEAN, lo: Frequencies] /\ f \in Frequencies /\ radio.lo \in Frequencies
    BY <1>1 DEF HdsdrShapes, Frequencies
  <2>3. /\ asks' \in LoHistories /\ asks'.twice = asks.twice /\ asks'.loose = asks.loose
        /\ asks'.orphans = asks.orphans /\ f \in asks'.asked /\ radio.lo \in asks'.asked
        /\ Hdsdr!LoUnderWay => asks.asked \subseteq asks'.asked
    <3>1. {f, radio.lo} \in SUBSET Frequencies BY <2>2
    <3> QED BY <1>1, <1>4, <3>1, AskedDoes
  <2>4. budget' \in [calls: Nat, fails: Nat] BY <1>1, <1>4, BudgetTyped DEF HdsdrShapes
  <2>5. tune' \in [lo: LoTunings, pending: BOOLEAN] /\ tune'.lo = f
    BY <1>1, <1>4 DEF HdsdrShapes
  <2>6. /\ radio' \in [open: BOOLEAN, lo: Frequencies] /\ radio'.open = radio.open
        /\ radio'.lo \in {radio.lo, f}
    BY <1>4, <2>2, SetOrNotDoes
  <2>7. HdsdrShapes' BY <1>1, <1>2, <1>4, <2>1, <2>3, <2>4, <2>5, <2>6 DEF HdsdrShapes
  <2>8. RxJoined' BY <1>1, <1>2, <1>4, <2>6 DEF RxJoined
  <2>9. LoFollows' BY <1>1, <1>2, <1>4, <1>5, <2>3, <2>5, <2>6 DEF LoFollows, SettingLo
  <2>10. StopsInCallback => StopsInCallback' BY <1>2 DEF StopsInCallback
  <2>11. NothingRuns => NothingRuns' BY <1>2, <1>4, <2>1 DEF NothingRuns, SettingLo
  <2>12. Tamed' BY <1>1, <2>3, <2>10, <2>11 DEF Tamed
  <2>13. Hdsdr!OneCaller' BY <1>2, <2>3, CallersKept
  <2> QED BY <1>2, <2>3, <2>7, <2>8, <2>9, <2>12, <2>13, GuiAlone DEF HdsdrInv
<1> QED BY <1>3, <1>4 DEF Hdsdr!StartHW

\* A call of HDSDR's thread that asks the receiving thread to stop.
LEMMA AskKeeps ==
    ASSUME HdsdrInv, window.at = "idle", radio.open, Hdsdr!RequestStop, Hdsdr!Called, NEW place,
           window' \in GuiStates, window'.at = place,
           place = "stop_rx" \/ (place = "rate_rx" /\ ~Hdsdr!InCallback),
           UNCHANGED <<radio, tune, receiver, cb, cbNow, free, filled, asks>>
    PROVE  HdsdrInv'
<1>1. HdsdrShapes /\ InItsPlace /\ RxJoined /\ Tamed BY DEF HdsdrInv
<1>2. /\ flags' \in FlagSet /\ flags'.running = flags.running
      /\ flags'.stopCb = flags.stopCb
  BY <1>1, RequestStopDoes DEF HdsdrShapes
<1>3. budget' \in [calls: Nat, fails: Nat] BY <1>1, BudgetTyped DEF HdsdrShapes
<1>4. HdsdrShapes' BY <1>1, <1>2, <1>3 DEF HdsdrShapes
<1>5. RxJoined' BY <1>1 DEF RxJoined
<1>6. LoFollows' BY GuiLo DEF SettingLo
<1>8. StopsInCallback => StopsInCallback'
  <2>1. CASE place = "stop_rx" BY <1>2, <2>1 DEF StopsInCallback, Waiting
  <2>2. CASE ~Hdsdr!InCallback BY <1>1, <2>2 DEF StopsInCallback, InItsPlace, Hdsdr!InCallback
  <2> QED BY <2>1, <2>2
<1>9. NothingRuns' BY DEF NothingRuns, SettingLo
<1>10. Tamed' BY <1>1, <1>8, <1>9 DEF Tamed
<1>11. Hdsdr!OneCaller' BY CallersKept
<1> QED BY <1>4, <1>5, <1>6, <1>10, <1>11, GuiAlone DEF HdsdrInv

LEMMA AsksKeep == ASSUME HdsdrInv, Hdsdr!StopHW \/ Hdsdr!CloseHW \/ Hdsdr!SetSrate PROVE HdsdrInv'
<1>1. HdsdrShapes /\ RxJoined BY DEF HdsdrInv
<1>2. CASE Hdsdr!StopHW
  <2>1. window' \in GuiStates /\ window'.at = "stop_rx" BY <1>2, AtIs DEF Hdsdr!StopHW, GuiPlaces
  <2>2. radio.open BY <1>1, <1>2 DEF Hdsdr!StopHW, RxJoined, HdsdrShapes
  <2> QED BY <1>2, <2>1, <2>2, AskKeeps DEF Hdsdr!StopHW
<1>3. CASE Hdsdr!CloseHW
  <2>1. window' \in GuiStates /\ window'.at = "stop_rx"
    BY <1>3 DEF Hdsdr!CloseHW, Hdsdr!CloseInSteps, Hdsdr!At, GuiStates, GuiPlaces, Frequencies
  <2> QED BY <1>3, <2>1, AskKeeps DEF Hdsdr!CloseHW
<1>4. CASE Hdsdr!SetSrate
  <2>1. window' \in GuiStates /\ window'.at = "rate_rx" BY <1>4, AtIs DEF Hdsdr!SetSrate, GuiPlaces
  <2>2. radio.open BY <1>1, <1>4 DEF Hdsdr!SetSrate, RxJoined, HdsdrShapes
  <2> QED BY <1>4, <2>1, <2>2, AskKeeps DEF Hdsdr!SetSrate
<1> QED BY <1>2, <1>3, <1>4

LEMMA JoinRxKeeps == ASSUME HdsdrInv, Hdsdr!JoinRx PROVE HdsdrInv'
<1>1. HdsdrShapes /\ RxJoined /\ Tamed BY DEF HdsdrInv
<1>2. /\ receiver.at = "none" /\ window' \in GuiStates
      /\ \/ window.at = "stop_rx" /\ window'.at = "stop_cb"
         \/ window.at = "rate_rx" /\ window'.at = "rate_set"
      /\ UNCHANGED <<radio, flags, tune, receiver, cb, cbNow, free, filled, asks, budget>>
  BY <1>1, GoToDoes DEF Hdsdr!JoinRx, HdsdrShapes, GuiPlaces
<1>3. HdsdrShapes' BY <1>1, <1>2 DEF HdsdrShapes
<1>4. RxJoined' BY <1>1, <1>2 DEF RxJoined, SettingLo
<1>5. LoFollows' BY <1>2, GuiLo DEF SettingLo
<1>7. StopsInCallback => StopsInCallback' BY <1>2 DEF StopsInCallback, Waiting, SettingLo
<1>8. NothingRuns' BY <1>2 DEF NothingRuns, SettingLo
<1>9. Tamed' BY <1>1, <1>2, <1>7, <1>8 DEF Tamed
<1>10. Hdsdr!OneCaller' BY <1>2, CallersKept
<1> QED BY <1>2, <1>3, <1>4, <1>5, <1>9, <1>10, GuiAlone DEF HdsdrInv

LEMMA JoinCbKeeps == ASSUME HdsdrInv, Hdsdr!JoinCb PROVE HdsdrInv'
<1> DEFINE b == asks.loose /\ \E k \in Hdsdr!Workers: cb[k].at # "none"
<1>1. HdsdrShapes /\ InItsPlace /\ RxJoined /\ Hdsdr!OneCaller /\ Tamed BY DEF HdsdrInv
<1>2. /\ window.at = "join_cb" /\ window' \in GuiStates /\ window'.at = "stop_end" /\ cbNow' = 0
      /\ UNCHANGED <<radio, flags, tune, receiver, cb, free, filled, budget>>
  BY <1>1, GoToDoes DEF Hdsdr!JoinCb, HdsdrShapes, GuiPlaces
<1>3. /\ asks' \in LoHistories /\ asks'.loose = b /\ asks'.twice = asks.twice
      /\ asks'.orphans = asks.orphans /\ asks'.asked = asks.asked
  <2>1. b \in BOOLEAN BY <1>1 DEF HdsdrShapes, LoHistories
  <2>2. asks' = [asks EXCEPT !.loose = b] BY DEF Hdsdr!JoinCb
  <2> HIDE DEF b
  <2> QED BY <1>1, <2>1, <2>2, LooseDoes DEF HdsdrShapes
<1>4. HdsdrShapes' BY <1>1, <1>2, <1>3 DEF HdsdrShapes
<1>5. RxJoined' BY <1>1, <1>2 DEF RxJoined, SettingLo
<1>6. LoFollows' BY <1>2, <1>3, GuiLo DEF SettingLo
<1>7. cbNow # 0 => cb[cbNow].at = "none" BY DEF Hdsdr!JoinCb, Hdsdr!CbGone, Hdsdr!Reaped
<1>8. Hdsdr!OneCaller' BY <1>1, <1>2, <1>3, <1>7 DEF Hdsdr!OneCaller, Hdsdr!Workers
<1>9. ASSUME ~b, NEW k \in Hdsdr!Workers PROVE cb[k].call \notin {"stop_rx", "stop_end"}
  <2>1. CASE cb[k].at = "none" BY <1>1, <2>1 DEF InItsPlace
  <2>2. CASE cb[k].at # "none"
    <3>1. StopsInCallback BY <1>1, <1>9, <2>2 DEF Tamed
    <3>2. k = cbNow => cb[k].at = "none" BY <1>7 DEF Hdsdr!Workers
    <3> QED BY <2>2, <3>1, <3>2 DEF StopsInCallback
  <2> QED BY <2>1, <2>2
<1>10. ~b => StopsInCallback' BY <1>2, <1>9 DEF StopsInCallback
<1>11. NothingRuns' BY <1>2 DEF NothingRuns, SettingLo
<1>12. Tamed' BY <1>3, <1>10, <1>11 DEF Tamed
<1> QED BY <1>2, <1>3, <1>4, <1>5, <1>6, <1>8, <1>12, GuiAlone DEF HdsdrInv

LEMMA StopEndKeeps == ASSUME HdsdrInv, Hdsdr!StopEnd PROVE HdsdrInv'
<1>1. HdsdrShapes /\ RxJoined /\ Tamed BY DEF HdsdrInv
<1>2. /\ window.at = "stop_end" /\ window' \in GuiStates /\ window'.at = "idle"
      /\ UNCHANGED <<tune, receiver, cb, cbNow, free, filled, asks, budget>>
      /\ receiver.at = "none" /\ cbNow = 0
  BY <1>1, AtIs DEF Hdsdr!StopEnd, GuiPlaces, RxJoined
<1>3. flags' \in FlagSet /\ ~flags'.running BY <1>1, StoppedDoes DEF Hdsdr!StopEnd, HdsdrShapes
<1>4. /\ radio' \in [open: BOOLEAN, lo: Frequencies] /\ radio'.lo = radio.lo
      /\ radio'.open => radio.open
  BY <1>1 DEF Hdsdr!StopEnd, HdsdrShapes, GuiStates
<1>5. HdsdrShapes' BY <1>1, <1>2, <1>3, <1>4 DEF HdsdrShapes
<1>6. RxJoined' BY <1>2, <1>3 DEF RxJoined
<1>7. LoFollows' BY <1>2, <1>4, GuiLo DEF SettingLo
<1>8. StopsInCallback => StopsInCallback' BY <1>2 DEF StopsInCallback, Hdsdr!Workers
<1>9. NothingRuns' BY <1>2 DEF NothingRuns
<1>10. Tamed' BY <1>1, <1>2, <1>8, <1>9 DEF Tamed
<1>11. Hdsdr!OneCaller' BY <1>2, CallersKept
<1> QED BY <1>2, <1>5, <1>6, <1>7, <1>10, <1>11, GuiAlone DEF HdsdrInv

LEMMA StartFailedKeeps == ASSUME HdsdrInv, Hdsdr!StartFailed PROVE HdsdrInv'
<1>1. HdsdrShapes /\ RxJoined /\ Tamed BY DEF HdsdrInv
<1>2. /\ window.at = "start_fail" /\ window' \in GuiStates /\ window'.at = "idle"
      /\ UNCHANGED <<radio, tune, receiver, cb, cbNow, free, filled, asks, budget>>
      /\ receiver.at = "none" /\ cbNow = 0
  BY <1>1, AtIs DEF Hdsdr!StartFailed, GuiPlaces, RxJoined
<1>3. flags' \in FlagSet /\ ~flags'.running BY <1>1, StoppedDoes DEF Hdsdr!StartFailed, HdsdrShapes
<1>4. HdsdrShapes' BY <1>1, <1>2, <1>3 DEF HdsdrShapes
<1>5. RxJoined' BY <1>2, <1>3 DEF RxJoined
<1>6. LoFollows' BY <1>2, GuiLo DEF SettingLo
<1>7. StopsInCallback => StopsInCallback' BY <1>2 DEF StopsInCallback, Hdsdr!Workers
<1>8. NothingRuns' BY <1>2 DEF NothingRuns
<1>9. Tamed' BY <1>1, <1>2, <1>7, <1>8 DEF Tamed
<1>10. Hdsdr!OneCaller' BY <1>2, CallersKept
<1> QED BY <1>2, <1>4, <1>5, <1>6, <1>9, <1>10, GuiAlone DEF HdsdrInv

LEMMA SetHWLOKeeps == ASSUME HdsdrInv, NEW f \in LoTunings, Hdsdr!SetHWLO(f) PROVE HdsdrInv'
<1>1. HdsdrShapes /\ RxJoined /\ LoFollows BY DEF HdsdrInv
<1>2. /\ window.at = "idle" /\ window'.at = "lo_depth" /\ window'.lo = f /\ window' \in GuiStates
      /\ tune' \in [lo: LoTunings, pending: BOOLEAN] /\ tune'.lo = f
      /\ UNCHANGED <<radio, flags, receiver, cb, cbNow, free, filled>>
  BY <1>1 DEF Hdsdr!SetHWLO, Hdsdr!At, GuiStates, GuiPlaces, Frequencies, HdsdrShapes
<1>3. /\ asks' \in LoHistories /\ asks'.twice = asks.twice /\ asks'.loose = asks.loose
      /\ asks'.orphans = asks.orphans /\ f \in asks'.asked
      /\ Hdsdr!LoUnderWay => asks.asked \subseteq asks'.asked
  <2>1. {f} \in SUBSET Frequencies /\ asks \in LoHistories
    BY <1>1 DEF HdsdrShapes, Frequencies
  <2>2. Hdsdr!Asked({f}) BY DEF Hdsdr!SetHWLO
  <2> QED BY <2>1, <2>2, AskedDoes
<1>4. budget' \in [calls: Nat, fails: Nat] BY <1>1, BudgetTyped DEF HdsdrShapes, Hdsdr!SetHWLO
<1>5. HdsdrShapes' BY <1>1, <1>2, <1>3, <1>4 DEF HdsdrShapes
<1>6. RxJoined' BY <1>1, <1>2 DEF RxJoined, SettingLo
<1>7. Hdsdr!LoUnderWay' /\ (receiver.at = "apply" => Hdsdr!LoUnderWay) BY <1>2 DEF Hdsdr!LoUnderWay
<1>8. LoFollows' BY <1>1, <1>2, <1>3, <1>7 DEF LoFollows
<1>9. Tamed' BY <1>2, <1>3, ThreadsUnmoved DEF SettingLo
<1>10. Hdsdr!OneCaller' BY <1>2, <1>3, CallersKept
<1> QED BY <1>2, <1>3, <1>5, <1>6, <1>8, <1>9, <1>10, GuiAlone DEF HdsdrInv

LEMMA LookDepthKeeps == ASSUME HdsdrInv, Hdsdr!LookDepth PROVE HdsdrInv'
<1>1. HdsdrShapes /\ RxJoined BY DEF HdsdrInv
<1>2. /\ window.at = "lo_depth" /\ window' \in GuiStates /\ window'.at \in {"lo_defer", "lo_set"}
      /\ window'.lo = window.lo
      /\ UNCHANGED <<radio, flags, tune, receiver, cb, cbNow, free, filled, asks, budget>>
  <2>1. PICK place \in {"lo_defer", "lo_set"}: Hdsdr!GoTo(place) BY DEF Hdsdr!LookDepth
  <2>2. place \in GuiPlaces BY DEF GuiPlaces
  <2> QED BY <1>1, <2>1, <2>2, GoToDoes DEF Hdsdr!LookDepth, HdsdrShapes
<1>3. HdsdrShapes' BY <1>1, <1>2 DEF HdsdrShapes
<1>4. RxJoined' BY <1>1, <1>2 DEF RxJoined, SettingLo
<1>5. Hdsdr!LoUnderWay' BY <1>2 DEF Hdsdr!LoUnderWay
<1>6. LoFollows' BY <1>2, <1>5, LoKept DEF SettingLo
<1>7. Tamed' BY <1>2, ThreadsUnmoved DEF SettingLo
<1>8. Hdsdr!OneCaller' BY <1>2, CallersKept
<1> QED BY <1>2, <1>3, <1>4, <1>6, <1>7, <1>8, GuiAlone DEF HdsdrInv

LEMMA DeferLoKeeps == ASSUME HdsdrInv, Hdsdr!DeferLo PROVE HdsdrInv'
<1>1. HdsdrShapes /\ RxJoined BY DEF HdsdrInv
<1>2. /\ window.at = "lo_defer" /\ window' \in GuiStates /\ window'.at = "idle"
      /\ tune' \in [lo: LoTunings, pending: BOOLEAN] /\ tune'.pending /\ tune'.lo = tune.lo
      /\ UNCHANGED <<radio, flags, receiver, cb, cbNow, free, filled, asks, budget>>
  BY <1>1, AtIs DEF Hdsdr!DeferLo, GuiPlaces, HdsdrShapes
<1>3. HdsdrShapes' BY <1>1, <1>2 DEF HdsdrShapes
<1>4. RxJoined' BY <1>1, <1>2 DEF RxJoined, SettingLo
<1>5. Hdsdr!LoUnderWay' BY <1>2 DEF Hdsdr!LoUnderWay
<1>6. LoFollows' BY <1>2, <1>5, LoKept DEF SettingLo
<1>7. Tamed' BY <1>2, ThreadsUnmoved DEF SettingLo
<1>8. Hdsdr!OneCaller' BY <1>2, CallersKept
<1> QED BY <1>2, <1>3, <1>4, <1>6, <1>7, <1>8, GuiAlone DEF HdsdrInv

LEMMA SetLoKeeps == ASSUME HdsdrInv, Hdsdr!SetLo PROVE HdsdrInv'
<1>1. HdsdrShapes /\ RxJoined /\ LoFollows BY DEF HdsdrInv
<1>2. /\ window.at = "lo_set" /\ window' \in GuiStates /\ window'.at = "idle"
      /\ UNCHANGED <<flags, receiver, cb, cbNow, free, filled>> /\ window.lo \in Frequencies
      /\ window.lo \in asks.asked
  BY <1>1, AtIs DEF Hdsdr!SetLo, GuiPlaces, HdsdrShapes, GuiStates, LoFollows, SettingLo
<1>3. CASE /\ radio' = [radio EXCEPT !.lo = IF radio.open THEN window.lo ELSE @]
           /\ tune' = [tune EXCEPT !.pending = FALSE] /\ UNCHANGED <<asks, budget>>
  <2>1. /\ radio' \in [open: BOOLEAN, lo: Frequencies] /\ radio'.open = radio.open
        /\ radio.open => radio'.lo = window.lo
    BY <1>1, <1>2, <1>3 DEF HdsdrShapes
  <2>2. tune' \in [lo: LoTunings, pending: BOOLEAN] /\ tune'.lo = tune.lo
    BY <1>1, <1>3 DEF HdsdrShapes
  <2>3. HdsdrShapes' BY <1>1, <1>2, <1>3, <2>1, <2>2 DEF HdsdrShapes
  <2>4. RxJoined' BY <1>1, <1>2, <2>1 DEF RxJoined, SettingLo
  <2>5. LoFollows' BY <1>1, <1>2, <1>3, <2>1, <2>2 DEF LoFollows, SettingLo
  <2>6. Tamed' BY <1>2, <1>3, ThreadsUnmoved DEF SettingLo
  <2>7. Hdsdr!OneCaller' BY <1>2, <1>3, CallersKept
  <2> QED BY <1>2, <1>3, <2>3, <2>4, <2>5, <2>6, <2>7, GuiAlone DEF HdsdrInv
<1>4. CASE radio.open /\ Hdsdr!Failing /\ Hdsdr!SetOrNot(window.lo) /\ Hdsdr!LoFailed
      /\ UNCHANGED tune
  <2>1. /\ asks' \in LoHistories /\ asks'.twice = asks.twice /\ asks'.loose = asks.loose
        /\ asks'.orphans = asks.orphans
        /\ asks.asked \subseteq asks'.asked /\ radio.lo \in asks'.asked
    BY <1>1, <1>4, LoFailedDoes DEF HdsdrShapes
  <2>2. budget' \in [calls: Nat, fails: Nat] BY <1>1, <1>4, BudgetTyped DEF HdsdrShapes
  <2>3. /\ radio' \in [open: BOOLEAN, lo: Frequencies] /\ radio'.open = radio.open
        /\ radio'.lo \in {radio.lo, window.lo}
    BY <1>1, <1>2, <1>4, SetOrNotDoes DEF HdsdrShapes
  <2>4. HdsdrShapes' BY <1>1, <1>2, <1>4, <2>1, <2>2, <2>3 DEF HdsdrShapes
  <2>5. RxJoined' BY <1>1, <1>2, <1>4, <2>3 DEF RxJoined, SettingLo
  <2>6. LoFollows' BY <1>1, <1>2, <1>4, <2>1, <2>3 DEF LoFollows, SettingLo
  <2>7. Tamed' BY <1>2, <2>1, ThreadsUnmoved DEF SettingLo
  <2>8. Hdsdr!OneCaller' BY <1>2, <2>1, CallersKept
  <2> QED BY <1>2, <2>1, <2>4, <2>5, <2>6, <2>7, <2>8, GuiAlone DEF HdsdrInv
<1> QED BY <1>3, <1>4 DEF Hdsdr!SetLo

\* Waking wakes, and changes neither a buffer nor a call.
LEMMA WakeDoes ==
    ASSUME cb \in [Hdsdr!Workers -> CbStates], NEW ws
    PROVE  /\ Hdsdr!Wake(ws) \in [Hdsdr!Workers -> CbStates]
           /\ \A k \in Hdsdr!Workers:
                 /\ Hdsdr!Wake(ws)[k].buf = cb[k].buf /\ Hdsdr!Wake(ws)[k].call = cb[k].call
                 /\ Hdsdr!Wake(ws)[k].at = cb[k].at
                    \/ (cb[k].at = "asleep" /\ Hdsdr!Wake(ws)[k].at = "check")
<1>1. ASSUME NEW k \in Hdsdr!Workers
      PROVE  LET s == IF cb[k].at = "asleep" /\ k \in ws THEN [cb[k] EXCEPT !.at = "check"]
                                                         ELSE cb[k]
             IN  /\ s \in CbStates /\ s.buf = cb[k].buf /\ s.call = cb[k].call
                 /\ s.at = cb[k].at \/ (cb[k].at = "asleep" /\ s.at = "check")
  BY DEF CbStates
<1> QED BY <1>1 DEF Hdsdr!Wake

\* A step that only wakes callback threads.
LEMMA WokenKeep ==
    ASSUME HdsdrInv, receiver'.at = "fill" \/ receiver'.buf = 0, UNCHANGED cbNow,
           asks'.orphans = asks.orphans,
           \A k \in Hdsdr!Workers:
              /\ cb'[k].buf = cb[k].buf /\ cb'[k].call = cb[k].call
              /\ cb'[k].at = cb[k].at \/ (cb[k].at = "asleep" /\ cb'[k].at = "check")
    PROVE  InItsPlace' /\ Hdsdr!OneCaller' /\ (Defers' <=> Defers)
<1>1. InItsPlace' /\ (Defers' <=> Defers) BY DEF HdsdrInv, InItsPlace, Defers
<1>2. Hdsdr!OneCaller' BY CallersKept
<1> QED BY <1>1, <1>2

LEMMA SignalCbKeeps == ASSUME HdsdrInv, Hdsdr!SignalCb PROVE HdsdrInv'
<1>1. HdsdrShapes /\ InItsPlace /\ RxJoined /\ Tamed BY DEF HdsdrInv
<1>2. /\ window.at = "stop_cb" /\ window' \in GuiStates /\ window'.at = "join_cb"
      /\ receiver.at = "none"
      /\ UNCHANGED <<radio, tune, receiver, cbNow, free, filled, asks, budget>>
  BY <1>1, GoToDoes DEF Hdsdr!SignalCb, HdsdrShapes, GuiPlaces, RxJoined
<1>3. flags' \in FlagSet /\ flags'.running = flags.running /\ flags'.stopCb
  BY <1>1 DEF Hdsdr!SignalCb, HdsdrShapes, FlagSet
<1>4. /\ cb' \in [Hdsdr!Workers -> CbStates]
      /\ \A k \in Hdsdr!Workers:
            /\ cb'[k].buf = cb[k].buf /\ cb'[k].call = cb[k].call
            /\ cb'[k].at = cb[k].at \/ (cb[k].at = "asleep" /\ cb'[k].at = "check")
  BY <1>1, WakeDoes DEF Hdsdr!SignalCb, HdsdrShapes
<1>5. InItsPlace' /\ Hdsdr!OneCaller' /\ (Defers' <=> Defers)
  BY <1>1, <1>2, <1>4, WokenKeep DEF InItsPlace
<1>6. HdsdrShapes' BY <1>1, <1>2, <1>3, <1>4 DEF HdsdrShapes
<1>7. RxJoined' BY <1>1, <1>2, <1>3 DEF RxJoined, SettingLo
<1>8. Hdsdr!LoUnderWay => Hdsdr!LoUnderWay' BY <1>2, <1>4 DEF Hdsdr!LoUnderWay
<1>9. LoFollows' BY <1>2, <1>8, LoKept DEF SettingLo
<1>10. StopsInCallback => StopsInCallback' BY <1>2, <1>3, <1>4 DEF StopsInCallback, Waiting
<1>11. NothingRuns' BY <1>2 DEF NothingRuns, SettingLo
<1>12. Tamed' BY <1>1, <1>2, <1>10, <1>11 DEF Tamed
<1>13. Hdsdr!BuffersOnce' BY <1>2, <1>4, NoBufferMoves
<1>14. Noticed' BY <1>2, <1>4, NoticedKept
<1> QED BY <1>5, <1>6, <1>7, <1>9, <1>12, <1>13, <1>14 DEF HdsdrInv

\* A call that fails, with the receiving thread gone: a callback thread that was not
\* told to end is loose.
LEMMA FailureKeeps ==
    ASSUME HdsdrInv, receiver.at = "none", window.at \in {"start_rx", "rate_go", "rate_set"},
           window' \in GuiStates, window'.at = "idle", Hdsdr!Failing,
           flags' \in FlagSet, ~flags'.running, flags'.stopCb = flags.stopCb,
           asks' = [asks EXCEPT !.loose = @ \/ Hdsdr!NotTold],
           UNCHANGED <<radio, tune, receiver, cb, cbNow, free, filled>>
    PROVE  HdsdrInv'
<1> DEFINE b == asks.loose \/ Hdsdr!NotTold
<1>1. HdsdrShapes /\ RxJoined /\ Tamed BY DEF HdsdrInv
<1>2. /\ asks' \in LoHistories /\ asks'.loose = b /\ asks'.twice = asks.twice
      /\ asks'.orphans = asks.orphans /\ asks'.asked = asks.asked
  <2>1. b \in BOOLEAN BY <1>1 DEF HdsdrShapes, LoHistories, Hdsdr!NotTold
  <2> HIDE DEF b
  <2>2. asks' = [asks EXCEPT !.loose = b] BY DEF b
  <2> QED BY <1>1, <2>1, <2>2, LooseDoes DEF HdsdrShapes
<1>3. budget' \in [calls: Nat, fails: Nat] BY <1>1, BudgetTyped DEF HdsdrShapes
<1>4. HdsdrShapes' BY <1>1, <1>2, <1>3 DEF HdsdrShapes
<1>5. RxJoined' BY <1>1 DEF RxJoined
<1>6. LoFollows' BY <1>2, GuiLo DEF SettingLo
<1>7. StopsInCallback => StopsInCallback' BY DEF StopsInCallback, Waiting, SettingLo
<1>8. ~b => NothingRuns' BY DEF NothingRuns, Hdsdr!NotTold
<1>9. Tamed' BY <1>1, <1>2, <1>7, <1>8 DEF Tamed
<1>10. Hdsdr!OneCaller' BY <1>2, CallersKept
<1> QED BY <1>2, <1>4, <1>5, <1>6, <1>9, <1>10, GuiAlone DEF HdsdrInv

LEMMA StartRxKeeps ==
    ASSUME HdsdrInv, NEW place, NEW next, Hdsdr!StartRxThread(place, next),
           (place = "start_rx" /\ next = "start_cb") \/ (place = "rate_go" /\ next = "idle")
    PROVE  HdsdrInv'
<1>1. HdsdrShapes /\ InItsPlace /\ RxJoined /\ Tamed BY DEF HdsdrInv
<1>2. window.at = place /\ receiver.at = "none"
      /\ UNCHANGED <<radio, tune, cb, cbNow, free, filled>>
  BY DEF Hdsdr!StartRxThread
<1>3. CASE /\ flags' = [flags EXCEPT !.stopRx = FALSE]
           /\ receiver' = [Hdsdr!NoRx EXCEPT !.at = "setup"] /\ Hdsdr!GoTo(next)
              /\ UNCHANGED <<budget, asks>>
  <2>1. window' \in GuiStates /\ window'.at = next
    BY <1>1, <1>3, GoToDoes DEF HdsdrShapes, GuiPlaces
  <2>2. receiver' \in RxStates /\ receiver'.at = "setup" /\ receiver'.buf = 0 BY <1>3, RxToDoes
  <2>3. /\ flags' \in FlagSet /\ flags'.running = flags.running
        /\ flags'.stopCb = flags.stopCb
    BY <1>1, <1>3 DEF HdsdrShapes, FlagSet
  <2>4. HdsdrShapes' BY <1>1, <1>2, <1>3, <2>1, <2>2, <2>3 DEF HdsdrShapes
  <2>5. RxJoined' BY <1>1, <1>2, <2>1 DEF RxJoined, SettingLo
  <2>6. Hdsdr!LoUnderWay => Hdsdr!LoUnderWay' BY <1>2, <2>1 DEF Hdsdr!LoUnderWay
  <2>7. LoFollows' BY <1>2, <1>3, <2>1, <2>2, <2>6, LoKept DEF SettingLo
  <2>8. StopsInCallback => StopsInCallback'
    BY <1>2 DEF StopsInCallback, Waiting, SettingLo
  <2>9. NothingRuns => NothingRuns' BY <1>2, <2>1, <2>3 DEF NothingRuns, SettingLo
  <2>10. Tamed' BY <1>1, <1>3, <2>8, <2>9 DEF Tamed
  <2>11. InItsPlace' BY <1>1, <1>2, <2>2 DEF InItsPlace
  <2>12. Hdsdr!BuffersOnce' BY <1>1, <1>2, <1>3, <2>2, NoBufferMoves DEF InItsPlace
  <2>13. Hdsdr!OneCaller' /\ Noticed' BY <1>2, <1>3, CallersKept, NoticedKept
  <2> QED BY <2>4, <2>5, <2>7, <2>10, <2>11, <2>12, <2>13 DEF HdsdrInv
<1>4. CASE /\ Hdsdr!Failing /\ flags' = [Hdsdr!Stopped(flags) EXCEPT !.stopRx = FALSE]
           /\ window' = Hdsdr!At("idle") /\ UNCHANGED receiver
           /\ asks' = [asks EXCEPT !.loose = @ \/ Hdsdr!NotTold]
  <2>1. flags' \in FlagSet /\ ~flags'.running /\ flags'.stopCb = flags.stopCb
    BY <1>1, <1>4 DEF HdsdrShapes, FlagSet, Hdsdr!Stopped
  <2>2. window' \in GuiStates /\ window'.at = "idle" BY <1>4, AtIs DEF GuiPlaces
  <2> QED BY <1>2, <1>4, <2>1, <2>2, FailureKeeps
<1> QED BY <1>3, <1>4 DEF Hdsdr!StartRxThread

LEMMA SetSrateKeeps == ASSUME HdsdrInv, Hdsdr!SetRate PROVE HdsdrInv'
<1>1. HdsdrShapes /\ RxJoined /\ Tamed BY DEF HdsdrInv
<1>2. /\ window.at = "rate_set" /\ receiver.at = "none"
      /\ UNCHANGED <<radio, tune, receiver, cb, cbNow, free, filled>>
  BY <1>1 DEF Hdsdr!SetRate, RxJoined
<1>3. CASE /\ flags' = [flags EXCEPT !.stream = TRUE, !.running = TRUE]
           /\ Hdsdr!GoTo("rate_go") /\ UNCHANGED <<asks, budget>>
  <2>1. window' \in GuiStates /\ window'.at = "rate_go"
    BY <1>1, <1>3, GoToDoes DEF HdsdrShapes, GuiPlaces
  <2>2. flags' \in FlagSet /\ flags'.running BY <1>1, <1>3 DEF HdsdrShapes, FlagSet
  <2>3. HdsdrShapes' BY <1>1, <1>2, <1>3, <2>1, <2>2 DEF HdsdrShapes
  <2>4. RxJoined' BY <1>1, <1>2, <2>1 DEF RxJoined, SettingLo
  <2>5. LoFollows' BY <1>2, <1>3, <2>1, GuiLo DEF SettingLo
  <2>6. StopsInCallback => StopsInCallback'
    BY <1>2 DEF StopsInCallback, Waiting, SettingLo
  <2>7. NothingRuns' BY <2>1, <2>2 DEF NothingRuns, SettingLo
  <2>8. Tamed' BY <1>1, <1>3, <2>6, <2>7 DEF Tamed
  <2>9. Hdsdr!OneCaller' BY <1>2, <1>3, CallersKept
  <2> QED BY <1>2, <1>3, <2>3, <2>4, <2>5, <2>8, <2>9, GuiAlone DEF HdsdrInv
<1>4. CASE Hdsdr!Failing /\ flags' = Hdsdr!Stopped(flags) /\ window' = Hdsdr!At("idle")
           /\ asks' = [asks EXCEPT !.loose = @ \/ Hdsdr!NotTold]
  <2>1. flags' \in FlagSet /\ ~flags'.running /\ flags'.stopCb = flags.stopCb
    BY <1>1, <1>4, StoppedDoes DEF HdsdrShapes
  <2>2. window' \in GuiStates /\ window'.at = "idle" BY <1>4, AtIs DEF GuiPlaces
  <2> QED BY <1>2, <1>4, <2>1, <2>2, FailureKeeps
<1> QED BY <1>3, <1>4 DEF Hdsdr!SetRate

\* The receiving thread alone goes on.
LEMMA RxAlone ==
    ASSUME HdsdrInv, receiver.at # "none", receiver' \in RxStates,
           UNCHANGED <<window, flags, cb, cbNow>>, radio'.open = radio.open,
           asks'.loose = asks.loose, asks'.orphans = asks.orphans
    PROVE  RxJoined' /\ Tamed' /\ Hdsdr!OneCaller' /\ (UNCHANGED filled => Noticed')
<1>1. RxJoined /\ Tamed BY DEF HdsdrInv
<1>2. RxJoined' BY <1>1 DEF RxJoined
<1>3. StopsInCallback => StopsInCallback' BY DEF StopsInCallback
<1>4. NothingRuns => NothingRuns' BY DEF NothingRuns
<1>5. Tamed' BY <1>1, <1>3, <1>4 DEF Tamed
<1> QED BY <1>2, <1>5, CallersKept, NoticedKept

\* ... with no buffer and nothing to apply.
LEMMA RxMoves ==
    ASSUME HdsdrInv, receiver.at \notin {"none", "apply", "fill"}, receiver' \in RxStates,
            receiver'.buf = 0,
           receiver'.at # "apply",
           UNCHANGED <<window, radio, flags, tune, cb, cbNow, free, filled, asks, budget>>
    PROVE  HdsdrInv'
<1>1. HdsdrShapes /\ InItsPlace BY DEF HdsdrInv
<1>2. HdsdrShapes' BY <1>1 DEF HdsdrShapes
<1>3. InItsPlace' BY <1>1 DEF InItsPlace
<1>4. RxJoined' /\ Tamed' /\ Hdsdr!OneCaller' /\ Noticed' BY RxAlone
<1>5. Hdsdr!LoUnderWay => Hdsdr!LoUnderWay' BY DEF Hdsdr!LoUnderWay
<1>6. LoFollows' BY <1>5, LoKept
<1>7. Hdsdr!BuffersOnce' BY <1>1, NoBufferMoves DEF InItsPlace
<1> QED BY <1>2, <1>3, <1>4, <1>6, <1>7 DEF HdsdrInv

LEMMA RxSetupKeeps == ASSUME HdsdrInv, Hdsdr!RxSetup \/ Hdsdr!FetchStream \/ Hdsdr!RxRecv
    PROVE HdsdrInv'
<1>1. PICK place \in {"loop", "recv", "block", "none"}: Hdsdr!RxTo(place) \/ (place = "none"
      /\ Hdsdr!RxExit)
  BY DEF Hdsdr!RxSetup, Hdsdr!FetchStream, Hdsdr!RxRecv
<1>2. receiver' \in RxStates /\ receiver'.at = place /\ receiver'.buf = 0 BY <1>1, RxToDoes
<1>3. /\ receiver.at \notin {"none", "apply", "fill"}
      /\ UNCHANGED <<window, radio, flags, tune, cb, cbNow, free, filled, asks, budget>>
  BY DEF Hdsdr!RxSetup, Hdsdr!FetchStream, Hdsdr!RxRecv
<1> QED BY <1>2, <1>3, RxMoves

LEMMA RxLoopKeeps == ASSUME HdsdrInv, Hdsdr!RxLoop PROVE HdsdrInv'
<1>1. HdsdrShapes /\ InItsPlace /\ LoFollows BY DEF HdsdrInv
<1>2. receiver.at = "loop"
      /\ UNCHANGED <<window, radio, flags, cb, cbNow, free, filled, asks, budget>>
  BY DEF Hdsdr!RxLoop
<1>3. CASE ~Hdsdr!TakePending
  <2>1. PICK place \in {"none", "fetch"}: Hdsdr!RxTo(place) \/ (place = "none" /\ Hdsdr!RxExit)
    BY <1>3 DEF Hdsdr!RxLoop
  <2>2. receiver' \in RxStates /\ receiver'.at = place /\ receiver'.buf = 0 BY <2>1, RxToDoes
  <2>3. UNCHANGED tune BY <1>3 DEF Hdsdr!RxLoop
  <2> QED BY <1>2, <2>2, <2>3, RxMoves
<1>4. CASE Hdsdr!TakePending
  <2>1. receiver' \in RxStates /\ receiver'.at = "apply" /\ receiver'.lo = tune.lo
        /\ receiver'.buf = receiver.buf
    BY <1>1, <1>4 DEF Hdsdr!TakePending, HdsdrShapes, RxStates, Frequencies
  <2>2. tune' \in [lo: LoTunings, pending: BOOLEAN] /\ tune'.lo = tune.lo
    BY <1>1, <1>4 DEF Hdsdr!TakePending, HdsdrShapes
  <2>3. HdsdrShapes' BY <1>1, <1>2, <2>1, <2>2 DEF HdsdrShapes
  <2>4. InItsPlace' BY <1>1, <1>2, <2>1 DEF InItsPlace
  <2>5. RxJoined' /\ Tamed' /\ Hdsdr!OneCaller' /\ Noticed' BY <1>2, <2>1, RxAlone
  <2>6. Hdsdr!LoUnderWay' BY <2>1 DEF Hdsdr!LoUnderWay
  <2>7. LoFollows' BY <1>1, <1>2, <2>1, <2>2, <2>6 DEF LoFollows
  <2>8. Hdsdr!BuffersOnce' BY <1>2, <2>1, NoBufferMoves
  <2> QED BY <2>3, <2>4, <2>5, <2>7, <2>8 DEF HdsdrInv
<1> QED BY <1>3, <1>4

LEMMA ApplyPendingKeeps == ASSUME HdsdrInv, Hdsdr!ApplyPending PROVE HdsdrInv'
<1>1. HdsdrShapes /\ InItsPlace /\ LoFollows BY DEF HdsdrInv
<1>2. /\ receiver.at = "apply" /\ receiver' \in RxStates /\ receiver'.at = "fetch"
      /\ receiver'.buf = 0
      /\ UNCHANGED <<window, flags, tune, cb, cbNow, free, filled>>
      /\ receiver.lo \in Frequencies /\ receiver.lo \in asks.asked
  BY <1>1, RxToDoes DEF Hdsdr!ApplyPending, HdsdrShapes, RxStates, LoFollows
<1>3. InItsPlace' BY <1>1, <1>2 DEF InItsPlace
<1>4. CASE radio' = [radio EXCEPT !.lo = receiver.lo] /\ UNCHANGED <<asks, budget>>
  <2>1. /\ radio' \in [open: BOOLEAN, lo: Frequencies] /\ radio'.open = radio.open
        /\ radio'.lo = receiver.lo
    BY <1>1, <1>2, <1>4 DEF HdsdrShapes
  <2>2. HdsdrShapes' BY <1>1, <1>2, <1>4, <2>1 DEF HdsdrShapes
  <2>3. RxJoined' /\ Tamed' /\ Hdsdr!OneCaller' /\ Noticed' BY <1>2, <1>4, <2>1, RxAlone
  <2>4. LoFollows' BY <1>1, <1>2, <1>4, <2>1 DEF LoFollows
  <2>5. Hdsdr!BuffersOnce' BY <1>1, <1>2, <1>4, NoBufferMoves DEF InItsPlace
  <2> QED BY <1>3, <2>2, <2>3, <2>4, <2>5 DEF HdsdrInv
<1>5. CASE Hdsdr!Failing /\ Hdsdr!SetOrNot(receiver.lo) /\ Hdsdr!LoFailed
  <2>1. /\ asks' \in LoHistories /\ asks'.twice = asks.twice /\ asks'.loose = asks.loose
        /\ asks'.orphans = asks.orphans
        /\ asks.asked \subseteq asks'.asked /\ radio.lo \in asks'.asked
    BY <1>1, <1>5, LoFailedDoes DEF HdsdrShapes
  <2>2. budget' \in [calls: Nat, fails: Nat] BY <1>1, <1>5, BudgetTyped DEF HdsdrShapes
  <2>3. /\ radio' \in [open: BOOLEAN, lo: Frequencies] /\ radio'.open = radio.open
        /\ radio'.lo \in {radio.lo, receiver.lo}
    BY <1>1, <1>2, <1>5, SetOrNotDoes DEF HdsdrShapes
  <2>4. HdsdrShapes' BY <1>1, <1>2, <2>1, <2>2, <2>3 DEF HdsdrShapes
  <2>5. RxJoined' /\ Tamed' /\ Hdsdr!OneCaller' /\ Noticed' BY <1>2, <2>1, <2>3, RxAlone
  <2>6. LoFollows' BY <1>1, <1>2, <2>1, <2>3 DEF LoFollows
  <2>7. Hdsdr!BuffersOnce' BY <1>1, <1>2, <2>1, NoBufferMoves DEF InItsPlace
  <2> QED BY <1>3, <2>4, <2>5, <2>6, <2>7 DEF HdsdrInv
<1> QED BY <1>4, <1>5 DEF Hdsdr!ApplyPending

\* A step that takes no buffer from its place but to another one.
LEMMA PlacesKept ==
    ASSUME HdsdrInv, asks'.twice = asks.twice,
           \A i \in 1..NumBuffers: Hdsdr!Places(i)' = Hdsdr!Places(i)
    PROVE  Hdsdr!BuffersOnce'
BY DEF HdsdrInv, Hdsdr!BuffersOnce

LEMMA HoldersTyped ==
    ASSUME NEW S \in SUBSET Hdsdr!Workers PROVE Cardinality(S) \in Nat
<1> QED BY WorkersFinite, FS_Subset, FS_CardinalityType

LEMMA TakeFreeKeeps == ASSUME HdsdrInv, Hdsdr!TakeFree PROVE HdsdrInv'
<1>1. HdsdrShapes /\ InItsPlace BY DEF HdsdrInv
<1>2. /\ receiver.at = "block" /\ receiver.buf = 0
      /\ UNCHANGED <<window, radio, flags, tune, cb, cbNow, filled, asks, budget>>
  BY <1>1 DEF Hdsdr!TakeFree, InItsPlace
<1>3. CASE free = <<>>
  <2>1. Hdsdr!RxTo("loop") /\ UNCHANGED free BY <1>3 DEF Hdsdr!TakeFree
  <2>2. receiver' \in RxStates /\ receiver'.at = "loop" /\ receiver'.buf = 0 BY <2>1, RxToDoes
  <2> QED BY <1>2, <2>1, <2>2, RxMoves
<1>4. CASE free # <<>>
  <2>1. receiver' = [receiver EXCEPT !.at = "fill", !.buf = Head(free)] /\ free' = Tail(free)
    BY <1>4 DEF Hdsdr!TakeFree
  <2>2. Head(free) \in Nat /\ free' \in Seq(Nat) BY <1>1, <1>4, <2>1 DEF HdsdrShapes
  <2>3. receiver' \in RxStates /\ receiver'.at = "fill" /\ receiver'.buf = Head(free)
    BY <1>1, <2>1, <2>2 DEF HdsdrShapes, RxStates
  <2>4. HdsdrShapes' BY <1>1, <1>2, <2>2, <2>3 DEF HdsdrShapes
  <2>5. InItsPlace' BY <1>1, <1>2, <2>3 DEF InItsPlace
  <2>6. RxJoined' /\ Tamed' /\ Hdsdr!OneCaller' /\ Noticed' BY <1>2, <2>3, RxAlone
  <2>7. Hdsdr!LoUnderWay => Hdsdr!LoUnderWay' BY <1>2 DEF Hdsdr!LoUnderWay
  <2>8. LoFollows' BY <1>2, <2>3, <2>7, LoKept
  <2>9. ASSUME NEW i \in 1..NumBuffers PROVE Hdsdr!Places(i)' = Hdsdr!Places(i)
    <3> DEFINE holders == Cardinality({k \in Hdsdr!Workers: cb[k].buf = i})
    <3>1. Hdsdr!Used(free, i) = Hdsdr!Used(free', i) + (IF receiver'.buf = i THEN 1 ELSE 0)
      BY <1>1, <1>4, <2>1, <2>3, UsedTail DEF HdsdrShapes
    <3>2. i # 0 OBVIOUS
    <3>3. Hdsdr!Used(free', i) \in Nat /\ Hdsdr!Used(filled, i) \in Nat
      BY <1>1, <2>2, UsedFinite DEF HdsdrShapes
    <3>4. holders \in Nat BY HoldersTyped
    <3>5. /\ Hdsdr!Places(i) = Hdsdr!Used(free, i) + Hdsdr!Used(filled, i) + 0 + holders
          /\ Hdsdr!Places(i)' = Hdsdr!Used(free', i) + Hdsdr!Used(filled, i)
                          + (IF receiver'.buf = i THEN 1 ELSE 0) + holders
      BY <1>2, <3>2, CountsAlike DEF Hdsdr!Places, Hdsdr!Used
    <3> HIDE DEF holders
    <3> QED BY <3>1, <3>3, <3>4, <3>5
  <2>10. Hdsdr!BuffersOnce' BY <1>2, <2>9, PlacesKept
  <2> QED BY <2>4, <2>5, <2>6, <2>8, <2>10 DEF HdsdrInv
<1> QED BY <1>3, <1>4

LEMMA PushFilledKeeps == ASSUME HdsdrInv, Hdsdr!PushFilled PROVE HdsdrInv'
<1>1. HdsdrShapes /\ InItsPlace /\ RxJoined /\ Tamed BY DEF HdsdrInv
<1>2. /\ receiver.at = "fill" /\ filled' = Append(filled, receiver.buf)
      /\ receiver' \in RxStates /\ receiver'.at = "loop" /\ receiver'.buf = 0
      /\ UNCHANGED <<window, radio, flags, tune, cbNow, free, asks, budget>>
  BY RxToDoes DEF Hdsdr!PushFilled
<1>3. receiver.buf \in Nat /\ filled' \in Seq(Nat) BY <1>1, <1>2 DEF HdsdrShapes, RxStates
<1>4. /\ cb' \in [Hdsdr!Workers -> CbStates]
      /\ \A k \in Hdsdr!Workers:
            /\ cb'[k].buf = cb[k].buf /\ cb'[k].call = cb[k].call
            /\ cb'[k].at = cb[k].at \/ (cb[k].at = "asleep" /\ cb'[k].at = "check")
  <2>1. cb' = cb \/ \E k \in Hdsdr!Workers: cb' = Hdsdr!Wake({k}) BY DEF Hdsdr!PushFilled
  <2>2. cb \in [Hdsdr!Workers -> CbStates] BY <1>1 DEF HdsdrShapes
  <2>3. CASE cb' = cb BY <2>2, <2>3
  <2>4. ASSUME NEW w \in Hdsdr!Workers, cb' = Hdsdr!Wake({w})
        PROVE  /\ cb' \in [Hdsdr!Workers -> CbStates]
               /\ \A k \in Hdsdr!Workers:
                     /\ cb'[k].buf = cb[k].buf /\ cb'[k].call = cb[k].call
                     /\ cb'[k].at = cb[k].at \/ (cb[k].at = "asleep" /\ cb'[k].at = "check")
    <3> HIDE DEF Hdsdr!Wake
    <3> QED BY <2>2, <2>4, WakeDoes
  <2> QED BY <2>1, <2>3, <2>4
<1>5. InItsPlace' /\ Hdsdr!OneCaller' /\ (Defers' <=> Defers) BY <1>2, <1>4, WokenKeep
<1>6. HdsdrShapes' BY <1>1, <1>2, <1>3, <1>4 DEF HdsdrShapes
<1>7. RxJoined' BY <1>1, <1>2 DEF RxJoined
<1>8. Hdsdr!LoUnderWay => Hdsdr!LoUnderWay' BY <1>2, <1>4 DEF Hdsdr!LoUnderWay
<1>9. LoFollows' BY <1>2, <1>8, LoKept
<1>10. StopsInCallback => StopsInCallback' BY <1>2, <1>4 DEF StopsInCallback
<1>11. NothingRuns => NothingRuns' BY <1>2 DEF NothingRuns
<1>12. Tamed' BY <1>1, <1>2, <1>10, <1>11 DEF Tamed
<1>13. ASSUME NEW i \in 1..NumBuffers PROVE Hdsdr!Places(i)' = Hdsdr!Places(i)
  <2> DEFINE holders == Cardinality({k \in Hdsdr!Workers: cb[k].buf = i})
  <2> DEFINE mine == IF receiver.buf = i THEN 1 ELSE 0
  <2>1. Hdsdr!Used(filled', i) = Hdsdr!Used(filled, i) + mine
    BY <1>1, <1>2, <1>3, UsedAppend DEF HdsdrShapes
  <2>2. i # 0 OBVIOUS
  <2>3. Hdsdr!Used(free, i) \in Nat /\ Hdsdr!Used(filled, i) \in Nat
    BY <1>1, UsedFinite DEF HdsdrShapes
  <2>4. holders \in Nat BY HoldersTyped
  <2>5. {k \in Hdsdr!Workers: cb'[k].buf = i} = {k \in Hdsdr!Workers: cb[k].buf = i} BY <1>4
  <2>6. /\ Hdsdr!Places(i) = Hdsdr!Used(free, i) + Hdsdr!Used(filled, i) + mine + holders
        /\ Hdsdr!Places(i)' = Hdsdr!Used(free, i) + Hdsdr!Used(filled', i) + 0 + holders
    BY <1>2, <2>2, <2>5, CountsAlike DEF Hdsdr!Places, Hdsdr!Used
  <2>7. mine \in Nat OBVIOUS
  <2> HIDE DEF holders, mine
  <2> QED BY <2>1, <2>3, <2>4, <2>6, <2>7
<1>14. Hdsdr!BuffersOnce' BY <1>2, <1>13, PlacesKept
<1>15. \A k \in Hdsdr!Workers: cb'[k].at # "doze"
  BY <1>4 DEF Hdsdr!PushFilled, Hdsdr!PushLocked, Hdsdr!BuffersFree
<1>16. Hdsdr!BlocksNoticed'
  <2>1. CASE (\A k \in Hdsdr!Workers: cb[k].at # "asleep") /\ UNCHANGED cb
    BY <2>1 DEF Hdsdr!BlocksNoticed
  <2>2. ASSUME NEW w \in Hdsdr!Workers, cb[w].at = "asleep", cb' = Hdsdr!Wake({w})
        PROVE  Hdsdr!BlocksNoticed'
    <3>1. cb'[w] = [cb[w] EXCEPT !.at = "check"] /\ cb[w] \in CbStates
      BY <1>1, <2>2 DEF Hdsdr!Wake, HdsdrShapes
    <3>2. cb'[w].at = "check" BY <3>1 DEF CbStates
    <3> QED BY <3>2 DEF Hdsdr!BlocksNoticed
  <2> QED BY <2>1, <2>2 DEF Hdsdr!PushFilled
<1>17. Noticed' BY <1>15, <1>16 DEF Noticed, Dozing
<1> QED BY <1>5, <1>6, <1>7, <1>9, <1>12, <1>14, <1>17 DEF HdsdrInv

\* A callback thread alone goes on.
LEMMA CbShape ==
    ASSUME cb \in [Hdsdr!Workers -> CbStates], NEW k \in Hdsdr!Workers, NEW s \in CbStates,
           cb' = [cb EXCEPT ![k] = s]
    PROVE  /\ cb' \in [Hdsdr!Workers -> CbStates] /\ cb'[k] = s
           /\ \A w \in Hdsdr!Workers: w # k => cb'[w] = cb[w]
OBVIOUS

\* ... outside the calls that stop the source: what it does to the threads.
LEMMA CbAlone ==
    ASSUME HdsdrInv, NEW k \in Hdsdr!Workers, cb[k].at # "none",
            cb' \in [Hdsdr!Workers -> CbStates],
           \A w \in Hdsdr!Workers: w # k => cb'[w] = cb[w],
           cb'[k].call \in {cb[k].call, "none", "defer"},
           UNCHANGED <<window, flags, receiver, cbNow>>, asks'.loose = asks.loose,
           asks'.orphans = asks.orphans
    PROVE  Tamed' /\ Hdsdr!OneCaller'
<1>1. Tamed BY DEF HdsdrInv
<1>2. Hdsdr!OneCaller' BY CallersKept
<1>3. StopsInCallback => StopsInCallback' BY DEF StopsInCallback
<1>4. NothingRuns => NothingRuns' BY DEF NothingRuns
<1> QED BY <1>1, <1>2, <1>3, <1>4 DEF Tamed

\* ... and changes no call: what it does to the frequencies.
LEMMA CbLo ==
    ASSUME HdsdrInv, NEW k \in Hdsdr!Workers, cb'[k].call = cb[k].call,
           \A w \in Hdsdr!Workers: w # k => cb'[w] = cb[w],
           UNCHANGED <<window, radio, tune, receiver, asks>>
    PROVE  LoFollows'
<1>1. Hdsdr!LoUnderWay => Hdsdr!LoUnderWay' BY DEF Hdsdr!LoUnderWay
<1> QED BY <1>1, LoKept

\* ... and moves no buffer.
LEMMA CbMoves ==
    ASSUME HdsdrInv, NEW k \in Hdsdr!Workers, NEW place, cb[k].call = "none", Hdsdr!CbTo(k, place),
           \/ cb[k].at \in {"look", "deliver"} /\ place \in {"deliver", "give"}
           \/ /\ cb[k].at \in {"check", "doze"} /\ place \in {"none", "doze", "asleep"}
              /\ filled = <<>>,
           UNCHANGED <<window, radio, flags, tune, receiver, cbNow, free, filled, asks, budget>>
    PROVE  HdsdrInv'
<1>1. HdsdrShapes /\ InItsPlace /\ RxJoined BY DEF HdsdrInv
<1> DEFINE s == [cb[k] EXCEPT !.at = place]
<1>2. cb[k] \in CbStates BY <1>1 DEF HdsdrShapes
<1>3. s \in CbStates /\ s.at = place /\ s.buf = cb[k].buf /\ s.call = "none"
  BY <1>2 DEF CbStates
<1>4. cb' = [cb EXCEPT ![k] = s] BY DEF Hdsdr!CbTo
<1> HIDE DEF s
<1>5. /\ cb' \in [Hdsdr!Workers -> CbStates] /\ cb'[k] = s
      /\ \A w \in Hdsdr!Workers: w # k => cb'[w] = cb[w]
  BY <1>1, <1>3, <1>4, CbShape DEF HdsdrShapes
<1>6. HdsdrShapes' BY <1>1, <1>5 DEF HdsdrShapes
<1>7. InItsPlace' BY <1>1, <1>3, <1>5 DEF InItsPlace
<1>8. RxJoined' BY <1>1 DEF RxJoined
<1>9. LoFollows' BY <1>3, <1>5, CbLo
<1>10. Tamed' /\ Hdsdr!OneCaller' BY <1>3, <1>5, CbAlone
<1>11. Hdsdr!BuffersOnce' BY <1>3, <1>5, NoBufferMoves
<1>12. Noticed'
  <2>1. CASE cb[k].at \in {"look", "deliver"} /\ place \in {"deliver", "give"}
    BY <1>3, <1>5, <2>1, NoticedKept
  <2>2. CASE filled = <<>> BY <2>2 DEF Noticed, Dozing, Hdsdr!BlocksNoticed
  <2> QED BY <2>1, <2>2
<1> QED BY <1>6, <1>7, <1>8, <1>9, <1>10, <1>11, <1>12 DEF HdsdrInv

LEMMA CbRestsKeep ==
    ASSUME HdsdrInv, NEW k \in Hdsdr!Workers, Hdsdr!CbSleep(k) \/ Hdsdr!CbLook(k)
            \/ Hdsdr!CbReturns(k)
    PROVE  HdsdrInv'
<1>1. InItsPlace /\ Noticed BY DEF HdsdrInv
<1>2. CASE Hdsdr!CbSleep(k)
  <2>1. cb[k].at = "doze" /\ cb[k].call = "none" /\ filled = <<>>
    BY <1>1, <1>2 DEF Hdsdr!CbSleep, InItsPlace, Noticed, Dozing
  <2> QED BY <1>2, <2>1, CbMoves DEF Hdsdr!CbSleep
<1>3. CASE Hdsdr!CbLook(k)
  <2>1. cb[k].at = "look" /\ cb[k].call = "none" BY <1>1, <1>3 DEF Hdsdr!CbLook, InItsPlace
  <2> QED BY <1>3, <2>1, CbMoves DEF Hdsdr!CbLook
<1>4. CASE Hdsdr!CbReturns(k) BY <1>4, CbMoves DEF Hdsdr!CbReturns
<1> QED BY <1>2, <1>3, <1>4

\* A buffer that a callback thread takes from or gives to a queue.
LEMMA HoldersMove ==
    ASSUME NEW k \in Hdsdr!Workers, NEW i \in 1..NumBuffers,
           \A w \in Hdsdr!Workers: w # k => cb'[w] = cb[w]
    PROVE  LET now == Cardinality({w \in Hdsdr!Workers: cb[w].buf = i})
               next == Cardinality({w \in Hdsdr!Workers: cb'[w].buf = i})
           IN  /\ now \in Nat /\ next \in Nat
               /\ cb[k].buf = 0 => next = now + (IF cb'[k].buf = i THEN 1 ELSE 0)
               /\ cb'[k].buf = 0 => now = next + (IF cb[k].buf = i THEN 1 ELSE 0)
<1> DEFINE S == {w \in Hdsdr!Workers: cb[w].buf = i}
<1> DEFINE T == {w \in Hdsdr!Workers: cb'[w].buf = i}
<1>1. S \in SUBSET Hdsdr!Workers /\ T \in SUBSET Hdsdr!Workers OBVIOUS
<1>2. (k \in S <=> cb[k].buf = i) /\ (k \in T <=> cb'[k].buf = i) /\ i # 0 OBVIOUS
<1>3. \A w \in Hdsdr!Workers: w # k => (w \in T <=> w \in S) OBVIOUS
<1>4. Cardinality(S) \in Nat /\ Cardinality(T) \in Nat
  BY WorkersFinite, FS_Subset, FS_CardinalityType
<1> HIDE DEF S, T
<1>5. k \notin S => Cardinality(T) = Cardinality(S) + (IF k \in T THEN 1 ELSE 0)
  BY <1>1, <1>3, HoldersChange
<1>6. k \notin T => Cardinality(S) = Cardinality(T) + (IF k \in S THEN 1 ELSE 0)
  <2>1. \A w \in Hdsdr!Workers: w # k => (w \in S <=> w \in T) BY <1>3
  <2> QED BY <1>1, <2>1, HoldersChange
<1> QED BY <1>2, <1>4, <1>5, <1>6 DEF S, T

LEMMA CbCheckKeeps == ASSUME HdsdrInv, NEW k \in Hdsdr!Workers, Hdsdr!CbCheck(k) PROVE HdsdrInv'
<1>1. HdsdrShapes /\ InItsPlace /\ RxJoined /\ Noticed BY DEF HdsdrInv
<1>2. /\ cb[k].at = "check" /\ cb[k].call = "none" /\ cb[k].buf = 0 /\ cb[k] \in CbStates
      /\ UNCHANGED <<window, radio, flags, tune, receiver, cbNow, free, asks, budget>>
  BY <1>1 DEF Hdsdr!CbCheck, InItsPlace, HdsdrShapes
<1>3. CASE filled = <<>>
  <2>1. PICK place \in {"none", "doze"}: Hdsdr!CbTo(k, place) BY <1>3 DEF Hdsdr!CbCheck
  <2>2. UNCHANGED filled BY <1>3 DEF Hdsdr!CbCheck
  <2> QED BY <1>2, <1>3, <2>1, <2>2, CbMoves
<1>4. CASE filled # <<>>
  <2> DEFINE s == [cb[k] EXCEPT !.at = "look", !.buf = Head(filled)]
  <2>1. cb' = [cb EXCEPT ![k] = s] /\ filled' = Tail(filled) BY <1>4 DEF Hdsdr!CbCheck
  <2>2. Head(filled) \in Nat /\ filled' \in Seq(Nat) BY <1>1, <1>4, <2>1 DEF HdsdrShapes
  <2>3. s \in CbStates /\ s.at = "look" /\ s.buf = Head(filled) /\ s.call = "none"
    BY <1>2, <2>2 DEF CbStates
  <2> HIDE DEF s
  <2>4. /\ cb' \in [Hdsdr!Workers -> CbStates] /\ cb'[k] = s
        /\ \A w \in Hdsdr!Workers: w # k => cb'[w] = cb[w]
    BY <1>1, <2>1, <2>3, CbShape DEF HdsdrShapes
  <2>5. HdsdrShapes' BY <1>1, <1>2, <2>2, <2>4 DEF HdsdrShapes
  <2>6. InItsPlace' BY <1>1, <1>2, <2>3, <2>4 DEF InItsPlace
  <2>7. RxJoined' BY <1>1, <1>2 DEF RxJoined
  <2>8. Noticed'
    <3>1. \A w \in Hdsdr!Workers: cb[w].at # "doze" BY DEF Hdsdr!CbCheck, Hdsdr!BuffersFree
    <3>2. \A w \in Hdsdr!Workers: cb'[w].at # "doze" BY <2>3, <2>4, <3>1
    <3> QED BY <2>3, <2>4, <3>2 DEF Noticed, Dozing, Hdsdr!BlocksNoticed
  <2>9. LoFollows' BY <1>2, <2>3, <2>4, CbLo
  <2>10. Tamed' /\ Hdsdr!OneCaller' BY <1>2, <2>3, <2>4, CbAlone
  <2>11. ASSUME NEW i \in 1..NumBuffers PROVE Hdsdr!Places(i)' = Hdsdr!Places(i)
    <3> DEFINE now == Cardinality({w \in Hdsdr!Workers: cb[w].buf = i})
    <3> DEFINE next == Cardinality({w \in Hdsdr!Workers: cb'[w].buf = i})
    <3> DEFINE mine == IF receiver.buf = i THEN 1 ELSE 0
    <3>1. Hdsdr!Used(filled, i) = Hdsdr!Used(filled', i) + (IF Head(filled) = i THEN 1 ELSE 0)
      BY <1>1, <1>4, <2>1, UsedTail DEF HdsdrShapes
    <3>2. now \in Nat /\ next = now + (IF Head(filled) = i THEN 1 ELSE 0)
      BY <1>2, <2>3, <2>4, HoldersMove
    <3>3. Hdsdr!Used(free, i) \in Nat /\ Hdsdr!Used(filled', i) \in Nat
      BY <1>1, <2>2, UsedFinite DEF HdsdrShapes
    <3>4. mine \in Nat OBVIOUS
    <3>5. /\ Hdsdr!Places(i) = Hdsdr!Used(free, i) + Hdsdr!Used(filled, i) + mine + now
          /\ Hdsdr!Places(i)' = Hdsdr!Used(free, i) + Hdsdr!Used(filled', i) + mine + next
      BY <1>2, CountsAlike DEF Hdsdr!Places, Hdsdr!Used
    <3> HIDE DEF now, next, mine
    <3> QED BY <3>1, <3>2, <3>3, <3>4, <3>5
  <2>12. Hdsdr!BuffersOnce' BY <1>2, <2>11, PlacesKept
  <2> QED BY <2>5, <2>6, <2>7, <2>8, <2>9, <2>10, <2>12 DEF HdsdrInv
<1> QED BY <1>3, <1>4

LEMMA CbGiveKeeps == ASSUME HdsdrInv, NEW k \in Hdsdr!Workers, Hdsdr!CbGive(k) PROVE HdsdrInv'
<1>1. HdsdrShapes /\ InItsPlace /\ RxJoined /\ Noticed BY DEF HdsdrInv
<1>2. /\ cb[k].at = "give" /\ cb[k].call = "none" /\ cb[k] \in CbStates
      /\ free' = Append(free, cb[k].buf)
      /\ UNCHANGED <<window, radio, flags, tune, receiver, cbNow, filled, asks, budget>>
  BY <1>1 DEF Hdsdr!CbGive, InItsPlace, HdsdrShapes
<1> DEFINE s == [cb[k] EXCEPT !.at = "check", !.buf = 0]
<1>3. cb' = [cb EXCEPT ![k] = s] BY DEF Hdsdr!CbGive
<1>4. s \in CbStates /\ s.at = "check" /\ s.buf = 0 /\ s.call = "none" BY <1>2 DEF CbStates
<1>5. cb[k].buf \in Nat /\ free' \in Seq(Nat) BY <1>1, <1>2 DEF HdsdrShapes, CbStates
<1> HIDE DEF s
<1>6. /\ cb' \in [Hdsdr!Workers -> CbStates] /\ cb'[k] = s
      /\ \A w \in Hdsdr!Workers: w # k => cb'[w] = cb[w]
  BY <1>1, <1>3, <1>4, CbShape DEF HdsdrShapes
<1>7. HdsdrShapes' BY <1>1, <1>2, <1>5, <1>6 DEF HdsdrShapes
<1>8. InItsPlace' BY <1>1, <1>2, <1>4, <1>6 DEF InItsPlace
<1>9. RxJoined' BY <1>1, <1>2 DEF RxJoined
<1>10. Noticed' BY <1>2, <1>4, <1>6, NoticedKept
<1>11. LoFollows' BY <1>2, <1>4, <1>6, CbLo
<1>12. Tamed' /\ Hdsdr!OneCaller' BY <1>2, <1>4, <1>6, CbAlone
<1>13. ASSUME NEW i \in 1..NumBuffers PROVE Hdsdr!Places(i)' = Hdsdr!Places(i)
  <2> DEFINE now == Cardinality({w \in Hdsdr!Workers: cb[w].buf = i})
  <2> DEFINE next == Cardinality({w \in Hdsdr!Workers: cb'[w].buf = i})
  <2> DEFINE mine == IF receiver.buf = i THEN 1 ELSE 0
  <2>1. Hdsdr!Used(free', i) = Hdsdr!Used(free, i) + (IF cb[k].buf = i THEN 1 ELSE 0)
    BY <1>1, <1>2, <1>5, UsedAppend DEF HdsdrShapes
  <2>2. next \in Nat /\ now = next + (IF cb[k].buf = i THEN 1 ELSE 0)
    BY <1>4, <1>6, HoldersMove
  <2>3. Hdsdr!Used(free, i) \in Nat /\ Hdsdr!Used(filled, i) \in Nat
    BY <1>1, UsedFinite DEF HdsdrShapes
  <2>4. mine \in Nat OBVIOUS
  <2>5. /\ Hdsdr!Places(i) = Hdsdr!Used(free, i) + Hdsdr!Used(filled, i) + mine + now
        /\ Hdsdr!Places(i)' = Hdsdr!Used(free', i) + Hdsdr!Used(filled, i) + mine + next
    BY <1>2, CountsAlike DEF Hdsdr!Places, Hdsdr!Used
  <2> HIDE DEF now, next, mine
  <2> QED BY <2>1, <2>2, <2>3, <2>4, <2>5
<1>14. Hdsdr!BuffersOnce' BY <1>2, <1>13, PlacesKept
<1> QED BY <1>7, <1>8, <1>9, <1>10, <1>11, <1>12, <1>14 DEF HdsdrInv

LEMMA CallbackLoKeeps ==
    ASSUME HdsdrInv, NEW k \in Hdsdr!Workers, NEW f \in LoTunings, Hdsdr!CallbackLo(k, f)
            PROVE HdsdrInv'
<1>1. HdsdrShapes /\ InItsPlace /\ RxJoined /\ LoFollows BY DEF HdsdrInv
<1>2. /\ cb[k].at = "deliver" /\ cb[k] \in CbStates
      /\ tune' \in [lo: LoTunings, pending: BOOLEAN] /\ tune'.lo = f
      /\ UNCHANGED <<window, radio, flags, receiver, cbNow, free, filled>>
  BY <1>1 DEF Hdsdr!CallbackLo, HdsdrShapes
<1> DEFINE s == [cb[k] EXCEPT !.call = "defer"]
<1>3. cb' = [cb EXCEPT ![k] = s] BY DEF Hdsdr!CallbackLo
<1>4. s \in CbStates /\ s.at = "deliver" /\ s.buf = cb[k].buf /\ s.call = "defer"
  BY <1>2 DEF CbStates
<1> HIDE DEF s
<1>5. /\ cb' \in [Hdsdr!Workers -> CbStates] /\ cb'[k] = s
      /\ \A w \in Hdsdr!Workers: w # k => cb'[w] = cb[w]
  BY <1>1, <1>3, <1>4, CbShape DEF HdsdrShapes
<1>6. /\ asks' \in LoHistories /\ asks'.twice = asks.twice /\ asks'.loose = asks.loose
      /\ asks'.orphans = asks.orphans /\ f \in asks'.asked
      /\ Hdsdr!LoUnderWay => asks.asked \subseteq asks'.asked
  <2>1. {f} \in SUBSET Frequencies /\ asks \in LoHistories
    BY <1>1 DEF HdsdrShapes, Frequencies
  <2>2. Hdsdr!Asked({f}) BY DEF Hdsdr!CallbackLo
  <2> QED BY <2>1, <2>2, AskedDoes
<1>7. budget' \in [calls: Nat, fails: Nat] BY <1>1, BudgetTyped DEF HdsdrShapes, Hdsdr!CallbackLo
<1>8. HdsdrShapes' BY <1>1, <1>2, <1>5, <1>6, <1>7 DEF HdsdrShapes
<1>9. InItsPlace' BY <1>1, <1>2, <1>4, <1>5 DEF InItsPlace
<1>10. RxJoined' BY <1>1, <1>2 DEF RxJoined
<1>11. Hdsdr!LoUnderWay' BY <1>4, <1>5 DEF Hdsdr!LoUnderWay
<1>12. window.at \in SettingLo \/ receiver.at = "apply" => Hdsdr!LoUnderWay
  BY DEF Hdsdr!LoUnderWay, SettingLo
<1>13. LoFollows' BY <1>1, <1>2, <1>6, <1>11, <1>12 DEF LoFollows
<1>14. Tamed' /\ Hdsdr!OneCaller' BY <1>2, <1>4, <1>5, <1>6, CbAlone
<1>15. Hdsdr!BuffersOnce' BY <1>2, <1>4, <1>5, <1>6, NoBufferMoves
<1>16. Noticed' BY <1>2, <1>4, <1>5, NoticedKept
<1> QED BY <1>8, <1>9, <1>10, <1>13, <1>14, <1>15, <1>16 DEF HdsdrInv

LEMMA CallbackDefersKeeps ==
    ASSUME HdsdrInv, NEW k \in Hdsdr!Workers, Hdsdr!CallbackDefers(k) PROVE HdsdrInv'
<1>1. HdsdrShapes /\ InItsPlace /\ RxJoined BY DEF HdsdrInv
<1>2. /\ cb[k].at = "deliver" /\ cb[k] \in CbStates
      /\ tune' \in [lo: LoTunings, pending: BOOLEAN] /\ tune'.pending /\ tune'.lo = tune.lo
      /\ UNCHANGED <<window, radio, flags, receiver, cbNow, free, filled, asks, budget>>
  BY <1>1 DEF Hdsdr!CallbackDefers, HdsdrShapes, InItsPlace
<1> DEFINE s == [cb[k] EXCEPT !.call = "none"]
<1>3. cb' = [cb EXCEPT ![k] = s] BY DEF Hdsdr!CallbackDefers
<1>4. s \in CbStates /\ s.at = "deliver" /\ s.buf = cb[k].buf /\ s.call = "none"
  BY <1>2 DEF CbStates
<1> HIDE DEF s
<1>5. /\ cb' \in [Hdsdr!Workers -> CbStates] /\ cb'[k] = s
      /\ \A w \in Hdsdr!Workers: w # k => cb'[w] = cb[w]
  BY <1>1, <1>3, <1>4, CbShape DEF HdsdrShapes
<1>6. HdsdrShapes' BY <1>1, <1>2, <1>5 DEF HdsdrShapes
<1>7. InItsPlace' BY <1>1, <1>2, <1>4, <1>5 DEF InItsPlace
<1>8. RxJoined' BY <1>1, <1>2 DEF RxJoined
<1>9. Hdsdr!LoUnderWay' BY <1>2 DEF Hdsdr!LoUnderWay
<1>10. LoFollows' BY <1>2, <1>9, LoKept
<1>11. Tamed' /\ Hdsdr!OneCaller' BY <1>2, <1>4, <1>5, CbAlone
<1>12. Hdsdr!BuffersOnce' BY <1>2, <1>4, <1>5, NoBufferMoves
<1>13. Noticed' BY <1>2, <1>4, <1>5, NoticedKept
<1> QED BY <1>6, <1>7, <1>8, <1>10, <1>11, <1>12, <1>13 DEF HdsdrInv

LEMMA CallbackStopKeeps ==
    ASSUME HdsdrInv, NEW k \in Hdsdr!Workers, Hdsdr!CallbackStop(k) PROVE HdsdrInv'
<1> DEFINE b == asks.loose \/ window.at \in Hdsdr!Starting
<1>1. HdsdrShapes /\ InItsPlace /\ RxJoined /\ Tamed BY DEF HdsdrInv
<1>2. /\ cb[k].at = "deliver" /\ cb[k].call = "none" /\ cb[k] \in CbStates /\ k = cbNow
      /\ flags.running /\ window.at # "start_fail"
      /\ UNCHANGED <<window, radio, tune, receiver, cbNow, free, filled>>
  BY <1>1 DEF Hdsdr!CallbackStop, HdsdrShapes, Hdsdr!MutexFree
<1>3. flags' \in FlagSet /\ flags'.running /\ flags'.stopCb = flags.stopCb
  BY <1>1, <1>2, RequestStopDoes DEF HdsdrShapes, Hdsdr!CallbackStop
<1> DEFINE s == [cb[k] EXCEPT !.call = "stop_rx"]
<1>4. cb' = [cb EXCEPT ![k] = s] BY DEF Hdsdr!CallbackStop
<1>5. s \in CbStates /\ s.at = "deliver" /\ s.buf = cb[k].buf /\ s.call = "stop_rx"
  BY <1>2 DEF CbStates
<1> HIDE DEF s
<1>6. /\ cb' \in [Hdsdr!Workers -> CbStates] /\ cb'[k] = s
      /\ \A w \in Hdsdr!Workers: w # k => cb'[w] = cb[w]
  BY <1>1, <1>4, <1>5, CbShape DEF HdsdrShapes
<1>7. /\ asks' \in LoHistories /\ asks'.loose = b /\ asks'.twice = asks.twice
      /\ asks'.orphans = asks.orphans /\ asks'.asked = asks.asked
  <2>1. b \in BOOLEAN BY <1>1 DEF HdsdrShapes, LoHistories
  <2> HIDE DEF b
  <2>2. asks' = [asks EXCEPT !.loose = b] BY DEF Hdsdr!CallbackStop, b
  <2> QED BY <1>1, <2>1, <2>2, LooseDoes DEF HdsdrShapes
<1>8. budget' \in [calls: Nat, fails: Nat] BY <1>1, BudgetTyped DEF HdsdrShapes, Hdsdr!CallbackStop
<1>9. HdsdrShapes' BY <1>1, <1>2, <1>3, <1>6, <1>7, <1>8 DEF HdsdrShapes
<1>10. InItsPlace' BY <1>1, <1>2, <1>5, <1>6 DEF InItsPlace
<1>11. RxJoined' BY <1>1, <1>2 DEF RxJoined
<1>12. Hdsdr!LoUnderWay => Hdsdr!LoUnderWay' BY <1>2, <1>6 DEF Hdsdr!LoUnderWay
<1>13. LoFollows' BY <1>2, <1>7, <1>12, LoKept
<1>14. ASSUME ~b PROVE StopsInCallback' /\ NothingRuns'
  <2>1. StopsInCallback /\ window.at \notin Hdsdr!Starting BY <1>1, <1>14 DEF Tamed
  <2>2. window.at # "stop_end" BY <1>1, <1>2 DEF RxJoined, Hdsdr!Workers
  <2>3. window.at \in GuiPlaces BY <1>1 DEF HdsdrShapes, GuiStates
  <2>4. window.at \in Waiting
    BY <1>2, <2>1, <2>2, <2>3 DEF Hdsdr!Starting, GuiPlaces, Waiting, SettingLo
  <2>5. StopsInCallback' BY <1>2, <1>3, <1>5, <1>6, <2>1, <2>4 DEF StopsInCallback
  <2>6. NothingRuns' BY <1>3 DEF NothingRuns
  <2> QED BY <2>5, <2>6
<1>15. Tamed' BY <1>7, <1>14 DEF Tamed
<1>16. Hdsdr!OneCaller' BY <1>2, <1>6, <1>7, CallersKept
<1>17. Hdsdr!BuffersOnce' BY <1>2, <1>5, <1>6, <1>7, NoBufferMoves
<1>18. Noticed' BY <1>2, <1>5, <1>6, NoticedKept
<1> QED BY <1>9, <1>10, <1>11, <1>13, <1>15, <1>16, <1>17, <1>18 DEF HdsdrInv

LEMMA CallbackJoinsKeeps ==
    ASSUME HdsdrInv, NEW k \in Hdsdr!Workers, Hdsdr!CallbackJoins(k) PROVE HdsdrInv'
<1>1. HdsdrShapes /\ InItsPlace /\ RxJoined /\ Tamed BY DEF HdsdrInv
<1>2. /\ cb[k].call = "stop_rx" /\ cb[k].at = "deliver" /\ receiver.at = "none"
      /\ UNCHANGED <<window, radio, tune, receiver, cbNow, free, filled, asks, budget>>
  BY <1>1 DEF Hdsdr!CallbackJoins, InItsPlace
<1>3. flags' \in FlagSet /\ flags'.running = flags.running /\ flags'.stopCb
  BY <1>1 DEF Hdsdr!CallbackJoins, HdsdrShapes, FlagSet
<1> DEFINE woken == Hdsdr!Wake(Hdsdr!Workers)
<1> DEFINE s == [woken[k] EXCEPT !.call = "stop_end"]
<1>4. cb' = [woken EXCEPT ![k] = s] BY DEF Hdsdr!CallbackJoins
<1>5. /\ woken \in [Hdsdr!Workers -> CbStates]
      /\ \A w \in Hdsdr!Workers:
            /\ woken[w].buf = cb[w].buf /\ woken[w].call = cb[w].call
            /\ woken[w].at = cb[w].at \/ (cb[w].at = "asleep" /\ woken[w].at = "check")
  BY <1>1, WakeDoes DEF HdsdrShapes
<1>6. woken[k] \in CbStates /\ woken[k].buf = cb[k].buf /\ woken[k].at = "deliver"
  BY <1>2, <1>5
<1> HIDE DEF woken
<1>7. s \in CbStates /\ s.at = "deliver" /\ s.buf = cb[k].buf /\ s.call = "stop_end"
  BY <1>6 DEF CbStates
<1> HIDE DEF s
<1>8. /\ cb' \in [Hdsdr!Workers -> CbStates] /\ cb'[k] = s
      /\ \A w \in Hdsdr!Workers: w # k => cb'[w] = woken[w]
  BY <1>4, <1>5, <1>7
<1>9. HdsdrShapes' BY <1>1, <1>2, <1>3, <1>8 DEF HdsdrShapes
<1>10. \A w \in Hdsdr!Workers:
          /\ cb'[w].buf = cb[w].buf /\ (w # k => cb'[w].call = cb[w].call)
          /\ cb'[w].at = cb[w].at \/ (cb[w].at = "asleep" /\ cb'[w].at = "check")
  BY <1>2, <1>5, <1>7, <1>8
<1>11. InItsPlace' BY <1>1, <1>2, <1>7, <1>8, <1>10 DEF InItsPlace
<1>12. RxJoined' BY <1>1, <1>2, <1>3 DEF RxJoined
<1>13. Hdsdr!LoUnderWay => Hdsdr!LoUnderWay' BY <1>2, <1>10 DEF Hdsdr!LoUnderWay
<1>14. LoFollows' BY <1>2, <1>13, LoKept
<1>15. StopsInCallback => StopsInCallback'
  BY <1>2, <1>3, <1>7, <1>8, <1>10 DEF StopsInCallback
<1>16. NothingRuns => NothingRuns' BY <1>2, <1>3 DEF NothingRuns
<1>17. Tamed' BY <1>1, <1>2, <1>15, <1>16 DEF Tamed
<1>18. Hdsdr!OneCaller' BY <1>2, <1>10, CallersKept
<1>19. Hdsdr!BuffersOnce' BY <1>2, <1>10, NoBufferMoves
<1>20. Noticed' BY <1>2, <1>10, NoticedKept
<1> QED BY <1>9, <1>11, <1>12, <1>14, <1>17, <1>18, <1>19, <1>20 DEF HdsdrInv

LEMMA CallbackStoppedKeeps ==
    ASSUME HdsdrInv, NEW k \in Hdsdr!Workers, Hdsdr!CallbackStopped(k) PROVE HdsdrInv'
<1>1. HdsdrShapes /\ InItsPlace /\ RxJoined /\ Tamed BY DEF HdsdrInv
<1>2. /\ cb[k].call = "stop_end" /\ cb[k].at = "deliver" /\ cb[k] \in CbStates
      /\ UNCHANGED <<window, radio, tune, receiver, cbNow, free, filled, asks, budget>>
  BY <1>1 DEF Hdsdr!CallbackStopped, InItsPlace, HdsdrShapes
<1>3. flags' \in FlagSet /\ ~flags'.running /\ flags'.stopCb = flags.stopCb
  BY <1>1, StoppedDoes DEF Hdsdr!CallbackStopped, HdsdrShapes
<1> DEFINE s == [cb[k] EXCEPT !.call = "none"]
<1>4. cb' = [cb EXCEPT ![k] = s] BY DEF Hdsdr!CallbackStopped
<1>5. s \in CbStates /\ s.at = "deliver" /\ s.buf = cb[k].buf /\ s.call = "none"
  BY <1>2 DEF CbStates
<1> HIDE DEF s
<1>6. /\ cb' \in [Hdsdr!Workers -> CbStates] /\ cb'[k] = s
      /\ \A w \in Hdsdr!Workers: w # k => cb'[w] = cb[w]
  BY <1>1, <1>4, <1>5, CbShape DEF HdsdrShapes
<1>7. HdsdrShapes' BY <1>1, <1>2, <1>3, <1>6 DEF HdsdrShapes
<1>8. InItsPlace' BY <1>1, <1>2, <1>5, <1>6 DEF InItsPlace
<1>9. RxJoined' BY <1>1, <1>2, <1>3 DEF RxJoined
<1>10. Hdsdr!LoUnderWay => Hdsdr!LoUnderWay' BY <1>2, <1>6 DEF Hdsdr!LoUnderWay
<1>11. LoFollows' BY <1>2, <1>10, LoKept
<1>12. ASSUME StopsInCallback PROVE StopsInCallback' /\ NothingRuns'
  <2>1. /\ receiver.at = "none" /\ flags.stopCb /\ window.at \in Waiting /\ k = cbNow
        /\ \A w \in Hdsdr!Workers: w # k => cb[w].call \notin {"stop_rx", "stop_end"}
    BY <1>2, <1>12 DEF StopsInCallback
  <2>2. StopsInCallback' BY <1>5, <1>6, <2>1 DEF StopsInCallback
  <2>3. NothingRuns' BY <1>2, <1>3, <2>1 DEF NothingRuns, Waiting, SettingLo
  <2> QED BY <2>2, <2>3
<1>13. Tamed' BY <1>1, <1>2, <1>12 DEF Tamed
<1>14. Hdsdr!OneCaller' BY <1>2, <1>6, CallersKept
<1>15. Hdsdr!BuffersOnce' BY <1>2, <1>5, <1>6, NoBufferMoves
<1>16. Noticed' BY <1>2, <1>5, <1>6, NoticedKept
<1> QED BY <1>7, <1>8, <1>9, <1>11, <1>13, <1>14, <1>15, <1>16 DEF HdsdrInv

\* The queues filled anew hold every buffer once.
LEMMA FilledAnew ==
    ASSUME Hdsdr!HdsdrParameters
    PROVE  LET anew == [i \in 1..NumBuffers |-> i]
           IN  anew \in Seq(Nat) /\ \A i \in 1..NumBuffers: Hdsdr!Used(anew, i) = 1
<1> DEFINE anew == [i \in 1..NumBuffers |-> i]
<1>1. anew \in [1..NumBuffers -> Nat] /\ DOMAIN anew = 1..NumBuffers /\ NumBuffers \in Nat
  BY DEF Hdsdr!HdsdrParameters
<1>2. anew \in Seq(Nat) BY <1>1
<1>3. ASSUME NEW i \in 1..NumBuffers PROVE Hdsdr!Used(anew, i) = 1
  <2>1. {n \in DOMAIN anew: anew[n] = i} = {i} BY <1>1
  <2>2. Cardinality({i}) = 1 BY FS_Singleton
  <2> QED BY <2>1, <2>2, CountsAlike DEF Hdsdr!Used
<1> QED BY <1>2, <1>3

LEMMA StartCbKeeps == ASSUME Hdsdr!HdsdrParameters, HdsdrInv, Hdsdr!StartCbThread PROVE HdsdrInv'
<1> DEFINE k == IF cbNow = 1 THEN 2 ELSE 1
<1> DEFINE given == (asks.orphans \ {k}) \cup (IF Hdsdr!Reaped(cbNow) THEN {} ELSE {cbNow})
<1>1. HdsdrShapes /\ InItsPlace /\ RxJoined /\ Hdsdr!OneCaller /\ Tamed BY DEF HdsdrInv
<1>2. k \in Hdsdr!Workers /\ k # 0 BY DEF Hdsdr!Workers
<1>3. /\ window.at = "start_cb" /\ cb[k].at = "none"
      /\ free' = [i \in 1..NumBuffers |-> i] /\ filled' = <<>>
      /\ UNCHANGED <<radio, tune, receiver>>
  BY DEF Hdsdr!StartCbThread
<1>4. cb[k].call = "none" /\ cb[k].buf = 0 /\ cb[k] \in CbStates
  BY <1>1, <1>2, <1>3 DEF InItsPlace, HdsdrShapes
<1>5. /\ asks' \in LoHistories /\ asks'.asked = asks.asked /\ asks'.loose = asks.loose
      /\ asks'.orphans = given /\ asks'.twice = Hdsdr!Held
  <2>1. Hdsdr!Held \in SUBSET Nat BY <1>1 DEF Hdsdr!Held, HdsdrShapes, RxStates, CbStates
  <2>2. given \in SUBSET Hdsdr!Workers
    BY <1>1 DEF HdsdrShapes, LoHistories, Hdsdr!Reaped, Hdsdr!Workers
  <2>3. asks' = [asks EXCEPT !.twice = Hdsdr!Held, !.orphans = given] BY DEF Hdsdr!StartCbThread
  <2>4. asks \in LoHistories BY <1>1 DEF HdsdrShapes
  <2> HIDE DEF given, Hdsdr!Held
  <2> QED BY <2>1, <2>2, <2>3, <2>4 DEF LoHistories
<1>6. \A w \in Hdsdr!Workers: w # k /\ cb[w].at # "none" => w \in given
  <2>1. ASSUME NEW w \in Hdsdr!Workers, w # k, cb[w].at # "none" PROVE w \in given
    <3>1. w # 0 BY DEF Hdsdr!Workers
    <3>2. CASE w = cbNow BY <2>1, <3>1, <3>2 DEF Hdsdr!Reaped
    <3>3. CASE w \in asks.orphans BY <2>1, <3>3
    <3> QED BY <1>1, <2>1, <3>2, <3>3 DEF Hdsdr!OneCaller
  <2> QED BY <2>1
<1> HIDE DEF k, given
<1>7. free' \in Seq(Nat) /\ filled' \in Seq(Nat) BY <1>3, FilledAnew
<1>8. ASSUME \A w \in Hdsdr!Workers: cb'[w].buf = cb[w].buf PROVE Hdsdr!BuffersOnce'
  <2> SUFFICES ASSUME NEW i \in 1..NumBuffers, i \notin Hdsdr!Held PROVE Hdsdr!Places(i)' <= 1
    BY <1>5 DEF Hdsdr!BuffersOnce
  <2>1. i # 0 OBVIOUS
  <2>2. receiver'.buf # i /\ {w \in Hdsdr!Workers: cb'[w].buf = i} = {}
    BY <1>3, <1>8, <2>1 DEF Hdsdr!Held
  <2>3. Hdsdr!Used(free', i) = 1 BY <1>3, FilledAnew
  <2>4. {n \in DOMAIN filled': filled'[n] = i} = {} BY <1>3
  <2>5. Hdsdr!Used(filled', i) = 0 BY <2>4, FS_EmptySet, CountsAlike DEF Hdsdr!Used
  <2>6. Hdsdr!Places(i)' = 1 + 0 + 0 + 0
    BY <2>2, <2>3, <2>5, FS_EmptySet, CountsAlike DEF Hdsdr!Places, Hdsdr!Used
  <2> QED BY <2>6
<1>9. StopsInCallback =>
         \A w \in Hdsdr!Workers: cb[w].call \notin {"stop_rx", "stop_end"}
  BY <1>3 DEF StopsInCallback, Waiting, SettingLo
<1>10. Noticed' BY <1>3 DEF Noticed, Dozing, Hdsdr!BlocksNoticed
<1>11. CASE /\ cb' = [cb EXCEPT ![k] = [Hdsdr!NoCb EXCEPT !.at = "check"]]
            /\ flags' = [flags EXCEPT !.stopCb = FALSE]
            /\ cbNow' = k /\ window' = Hdsdr!At("idle") /\ UNCHANGED budget
  <2>1. window' \in GuiStates /\ window'.at = "idle" BY <1>11, AtIs DEF GuiPlaces
  <2>2. flags' \in FlagSet /\ flags'.running = flags.running
    BY <1>1, <1>11 DEF HdsdrShapes, FlagSet
  <2> DEFINE s == [Hdsdr!NoCb EXCEPT !.at = "check"]
  <2>3. s \in CbStates /\ s.at = "check" /\ s.buf = 0 /\ s.call = "none" BY DEF Hdsdr!NoCb, CbStates
  <2> HIDE DEF s
  <2>4. /\ cb' \in [Hdsdr!Workers -> CbStates] /\ cb'[k] = s
        /\ \A w \in Hdsdr!Workers: w # k => cb'[w] = cb[w]
    BY <1>1, <1>2, <1>11, <2>3, CbShape DEF HdsdrShapes, s
  <2>5. HdsdrShapes' BY <1>1, <1>2, <1>3, <1>5, <1>7, <1>11, <2>1, <2>2, <2>4 DEF HdsdrShapes
  <2>6. InItsPlace' BY <1>1, <1>3, <2>3, <2>4 DEF InItsPlace
  <2>7. RxJoined' BY <1>1, <1>3, <2>1 DEF RxJoined, SettingLo
  <2>8. Hdsdr!LoUnderWay => Hdsdr!LoUnderWay' BY <1>3, <1>4, <2>1, <2>3, <2>4 DEF Hdsdr!LoUnderWay
  <2>9. LoFollows' BY <1>3, <1>5, <2>1, <2>8, LoKept DEF SettingLo
  <2>10. Hdsdr!OneCaller' BY <1>5, <1>6, <1>11, <2>4 DEF Hdsdr!OneCaller
  <2>11. StopsInCallback => StopsInCallback'
    BY <1>9, <2>3, <2>4 DEF StopsInCallback
  <2>12. NothingRuns => NothingRuns' BY <1>3, <2>1, <2>2 DEF NothingRuns
  <2>13. Tamed' BY <1>1, <1>5, <2>11, <2>12 DEF Tamed
  <2>14. Hdsdr!BuffersOnce' BY <1>4, <1>8, <2>3, <2>4
  <2> QED BY <1>10, <2>5, <2>6, <2>7, <2>9, <2>10, <2>13, <2>14 DEF HdsdrInv
<1>12. CASE /\ Hdsdr!Failing /\ Hdsdr!GoTo("start_fail")
            /\ flags' = [flags EXCEPT !.stopRx = TRUE, !.stopCb = FALSE]
            /\ cbNow' = 0 /\ UNCHANGED cb
  <2>1. window' \in GuiStates /\ window'.at = "start_fail"
    BY <1>1, <1>12, GoToDoes DEF HdsdrShapes, GuiPlaces
  <2>2. flags' \in FlagSet /\ flags'.running = flags.running
    BY <1>1, <1>12 DEF HdsdrShapes, FlagSet
  <2>3. budget' \in [calls: Nat, fails: Nat] BY <1>1, <1>12, BudgetTyped DEF HdsdrShapes
  <2>4. HdsdrShapes' BY <1>1, <1>3, <1>5, <1>7, <1>12, <2>1, <2>2, <2>3 DEF HdsdrShapes
  <2>5. InItsPlace' BY <1>1, <1>3, <1>12 DEF InItsPlace
  <2>6. RxJoined' BY <1>1, <1>3, <1>12, <2>1 DEF RxJoined, SettingLo
  <2>7. Hdsdr!LoUnderWay => Hdsdr!LoUnderWay' BY <1>3, <1>12, <2>1 DEF Hdsdr!LoUnderWay
  <2>8. LoFollows' BY <1>3, <1>5, <2>1, <2>7, LoKept DEF SettingLo
  <2>9. Hdsdr!OneCaller' BY <1>3, <1>5, <1>6, <1>12 DEF Hdsdr!OneCaller
  <2>10. StopsInCallback => StopsInCallback' BY <1>9, <1>12 DEF StopsInCallback
  <2>11. NothingRuns' BY <2>1 DEF NothingRuns, SettingLo
  <2>12. Tamed' BY <1>1, <1>5, <2>10, <2>11 DEF Tamed
  <2>13. Hdsdr!BuffersOnce' BY <1>8, <1>12
  <2> QED BY <1>10, <2>4, <2>5, <2>6, <2>8, <2>9, <2>12, <2>13 DEF HdsdrInv
<1> QED BY <1>11, <1>12 DEF Hdsdr!StartCbThread, k

LEMMA HdsdrStep == ASSUME Hdsdr!HdsdrParameters, HdsdrInv,
    [Hdsdr!HdsdrNext]_(Hdsdr!hdsdrVars) PROVE HdsdrInv'
<1>1. CASE Hdsdr!GuiCalls
  BY <1>1, OpenHWKeeps, AsksKeep, StartHWKeeps, SetHWLOKeeps DEF Hdsdr!GuiCalls
<1>2. CASE Hdsdr!GuiSteps
  BY <1>2, StartRxKeeps, StartCbKeeps, StartFailedKeeps, JoinRxKeeps, SignalCbKeeps,
     JoinCbKeeps, StopEndKeeps, SetSrateKeeps, LookDepthKeeps, DeferLoKeeps, SetLoKeeps
  DEF Hdsdr!GuiSteps
<1>3. CASE Hdsdr!RxSteps
  BY <1>3, RxSetupKeeps, RxLoopKeeps, ApplyPendingKeeps, TakeFreeKeeps, PushFilledKeeps
  DEF Hdsdr!RxSteps
<1>4. ASSUME NEW k \in Hdsdr!Workers, Hdsdr!CbSteps(k) PROVE HdsdrInv'
  BY <1>4, CbCheckKeeps, CbRestsKeep, CbGiveKeeps, CallbackDefersKeeps, CallbackJoinsKeeps,
     CallbackStoppedKeeps
  DEF Hdsdr!CbSteps
<1>5. ASSUME NEW k \in Hdsdr!Workers, Hdsdr!CallbackStop(k) PROVE HdsdrInv'
  BY <1>5, CallbackStopKeeps
<1>6. ASSUME NEW k \in Hdsdr!Workers, NEW f \in LoTunings, Hdsdr!CallbackLo(k, f) PROVE HdsdrInv'
  BY <1>6, CallbackLoKeeps
<1>7. CASE UNCHANGED Hdsdr!hdsdrVars
  <2>1. UNCHANGED <<window, radio, flags, tune, receiver, cb, cbNow, free, filled, asks, budget>>
    BY <1>7 DEF Hdsdr!hdsdrVars
  <2>2. HdsdrShapes' BY <2>1 DEF HdsdrInv, HdsdrShapes
  <2>3. InItsPlace' /\ Hdsdr!BuffersOnce' /\ Noticed' BY <2>1, GuiAlone
  <2>4. RxJoined' BY <2>1 DEF HdsdrInv, RxJoined
  <2>5. Hdsdr!LoUnderWay => Hdsdr!LoUnderWay' BY <2>1 DEF Hdsdr!LoUnderWay
  <2>6. LoFollows' BY <2>1, <2>5, LoKept
  <2>7. Tamed' /\ Hdsdr!OneCaller' BY <2>1, ThreadsUnmoved, CallersKept
  <2> QED BY <2>2, <2>3, <2>4, <2>6, <2>7 DEF HdsdrInv
<1> QED BY <1>1, <1>2, <1>3, <1>4, <1>5, <1>6, <1>7 DEF Hdsdr!HdsdrNext

LEMMA HdsdrSafe == ASSUME HdsdrInv PROVE Hdsdr!HostCallbacksSafe /\ Hdsdr!LoApplied
<1>1. RxJoined /\ LoFollows /\ Hdsdr!OneCaller /\ Tamed /\ Hdsdr!BuffersOnce /\ Hdsdr!BlocksNoticed
  BY DEF HdsdrInv, Noticed
<1>2. Hdsdr!LoApplied BY <1>1 DEF Hdsdr!LoApplied, LoFollows
<1>3. ASSUME window.at = "idle", ~flags.running, ~asks.loose
      PROVE  /\ receiver.at = "none"
             /\ \A k \in Hdsdr!Workers \ asks.orphans: cb[k].at = "none" \/ flags.stopCb
  <2>1. receiver.at = "none" /\ (cbNow # 0 => flags.stopCb) BY <1>1, <1>3 DEF Tamed, NothingRuns
  <2>2. \A k \in Hdsdr!Workers: k # 0 BY DEF Hdsdr!Workers
  <2> QED BY <1>1, <2>1, <2>2 DEF Hdsdr!OneCaller
<1>4. ASSUME ~radio.open
      PROVE  receiver.at = "none" /\ \A k \in Hdsdr!Workers \ asks.orphans: cb[k].at = "none"
  <2>1. receiver.at = "none" /\ cbNow = 0 BY <1>1, <1>4 DEF RxJoined
  <2>2. \A k \in Hdsdr!Workers: k # 0 BY DEF Hdsdr!Workers
  <2> QED BY <1>1, <2>1, <2>2 DEF Hdsdr!OneCaller
<1>5. Hdsdr!NobodyLeft BY <1>3, <1>4 DEF Hdsdr!NobodyLeft
<1> QED BY <1>1, <1>2, <1>5 DEF Hdsdr!HostCallbacksSafe

\* A buffer is in one place only, but for those a thread held when a start filled the
\* queues anew; HDSDR is called back by the thread whose handle is kept and those a
\* start gave up on; a closed source has no other thread, and a stopped one only
\* threads told to end, unless a failed call or a stop during a start left one; and
\* no callback thread sleeps through a block.
THEOREM HdsdrCalledByOne ==
    ASSUME Hdsdr!HdsdrParameters PROVE Hdsdr!HdsdrSpec => []Hdsdr!HostCallbacksSafe
<1>1. Hdsdr!HdsdrInit => HdsdrInv BY HdsdrInitially
<1>2. HdsdrInv /\ [Hdsdr!HdsdrNext]_(Hdsdr!hdsdrVars) => HdsdrInv' BY HdsdrStep
<1>3. HdsdrInv => Hdsdr!HostCallbacksSafe BY HdsdrSafe
<1> QED BY <1>1, <1>2, <1>3, PTL DEF Hdsdr!HdsdrSpec

\* When no change is under way, the device has the frequency that was asked for last,
\* or, if changes met each other or one failed, one of those asked for since, or the
\* one the device had; also when a change was deferred to the receiving thread.
THEOREM LoIsOneAsked == ASSUME Hdsdr!HdsdrParameters PROVE Hdsdr!HdsdrSpec => []Hdsdr!LoApplied
<1>1. Hdsdr!HdsdrInit => HdsdrInv BY HdsdrInitially
<1>2. HdsdrInv /\ [Hdsdr!HdsdrNext]_(Hdsdr!hdsdrVars) => HdsdrInv' BY HdsdrStep
<1>3. HdsdrInv => Hdsdr!LoApplied BY HdsdrSafe
<1> QED BY <1>1, <1>2, <1>3, PTL DEF Hdsdr!HdsdrSpec

-----------------------------------------------------------------------------
(* SoapyDevice *)

LockSets == SUBSET {"ctrl", "rx", "tx"}
Natives == {"rate", "tune", "start_rx", "stop_rx", "start_tx", "stop_tx"}
CallKinds == Natives \cup {"read", "write"}
CallStates == [call: Natives \cup {"none", "read", "write"}, locks: Seq(LockSets),
               holds: LockSets, todo: Seq(Natives), restart: SUBSET Soapy!Streams, rate: SoapyRates]

\* How far a call has come with its mutexes.
AllLocks(call) == CASE call = "rate" -> {"ctrl", "rx", "tx"} [] call = "tune" -> {"ctrl", "rx"}
                    [] call \in {"start_rx", "stop_rx", "read"} -> {"rx"}
                    [] call \in {"start_tx", "stop_tx", "write"} -> {"tx"}
SecondLocks(call) == IF call = "rate" THEN {"rx", "tx"} ELSE {"rx"}
Asked(me) == me.locks = Soapy!Locks(me.call) /\ me.holds = {} /\ me.todo = <<>>
HalfWay(me) ==
    /\ me.call \in {"rate", "tune"} /\ me.holds = {"ctrl"}
    /\ me.locks = <<SecondLocks(me.call)>> /\ me.todo = <<>>
Works(me) == me.locks = <<>> /\ me.holds = AllLocks(me.call)
\* A thread without a call holds nothing; one that waits has nothing to do yet; one that
\* works holds all of its mutexes.
Progress(me) ==
    \/ me.call = "none" /\ me.locks = <<>> /\ me.holds = {} /\ me.todo = <<>>
    \/ me.call \in CallKinds /\ (Asked(me) \/ HalfWay(me) \/ Works(me))
AllProgress == \A t \in Soapy!Threads: Progress(threads[t])
Exclusion == \A t, u \in Soapy!Threads: t # u => threads[t].holds \cap threads[u].holds = {}
\* A rate change has the streams to stop that are active and then the rate to set, or, with
\* the rate behind it, those to start that are not.
RateWork(me) ==
    /\ active \subseteq me.restart
    /\ me.todo = Soapy!StopsOf(active) \o <<"rate">> \/ me.todo = Soapy!StartsOf(me.restart \ active)
RatesWork ==
    ~soapyHist.streamFailed =>
        \A t \in Soapy!Threads: threads[t].call = "rate" /\ threads[t].locks = <<>>
                            => RateWork(threads[t])
\* The kept rate is the device's.
RateHonest == ~soapyHist.unsure => rateKept = native.rate
SoapyInv ==
    /\ Soapy!SoapyTypeOK /\ AllProgress /\ Exclusion /\ RatesWork /\ Soapy!RateKeepsStreams /\ RateHonest

-----------------------------------------------------------------------------

\* Sequences written out, joined.
LEMMA JoinTwo == ASSUME NEW a, NEW b PROVE <<a>> \o <<b>> = <<a, b>>
<1> DEFINE S == {a, b}
<1> DEFINE s == <<a>> \o <<b>>
<1>1. <<a>> \in Seq(S) /\ <<b>> \in Seq(S) /\ <<a, b>> \in Seq(S) OBVIOUS
<1>2. s \in Seq(S) /\ Len(s) = 2 BY <1>1
<1>3. s[1] = a /\ s[2] = b BY <1>1
<1>4. Len(<<a, b>>) = 2 OBVIOUS
<1> HIDE DEF S, s
<1>5. \A i \in 1..Len(s): s[i] = <<a, b>>[i] BY <1>2, <1>3
<1>6. s = <<a, b>> BY <1>1, <1>2, <1>4, <1>5, SeqEqual
<1> QED BY <1>6 DEF s

LEMMA JoinThree == ASSUME NEW a, NEW b, NEW c PROVE <<a, b>> \o <<c>> = <<a, b, c>>
<1> DEFINE S == {a, b, c}
<1> DEFINE s == <<a, b>> \o <<c>>
<1>1. <<a, b>> \in Seq(S) /\ <<c>> \in Seq(S) /\ <<a, b, c>> \in Seq(S) OBVIOUS
<1>2. s \in Seq(S) /\ Len(s) = 3 BY <1>1
<1>3. s[1] = a /\ s[2] = b /\ s[3] = c BY <1>1
<1>4. Len(<<a, b, c>>) = 3 OBVIOUS
<1> HIDE DEF S, s
<1>5. \A i \in 1..Len(s): s[i] = <<a, b, c>>[i] BY <1>2, <1>3
<1>6. s = <<a, b, c>> BY <1>1, <1>2, <1>4, <1>5, SeqEqual
<1> QED BY <1>6 DEF s

LEMMA JoinEmpty ==
    /\ \A a: <<>> \o <<a>> = <<a>> /\ <<a>> \o <<>> = <<a>>
    /\ <<>> \o <<>> = <<>>
<1>1. ASSUME NEW a PROVE <<>> \o <<a>> = <<a>> /\ <<a>> \o <<>> = <<a>> OBVIOUS
<1> QED BY <1>1

\* A list of calls made from a list of streams.
LEMMA MapOne ==
    ASSUME NEW f, NEW a PROVE [i \in 1..Len(<<a>>) |-> f[<<a>>[i]]] = <<f[a]>>
OBVIOUS

LEMMA StopLists ==
    /\ Soapy!StopsOf({}) = <<>> /\ Soapy!StopsOf({"rx"}) = <<"stop_rx">> /\ Soapy!StopsOf({"tx"}) = <<"stop_tx">>
    /\ Soapy!StopsOf({"rx", "tx"}) = <<"stop_tx", "stop_rx">>
    /\ Soapy!StartsOf({}) = <<>> /\ Soapy!StartsOf({"rx"}) = <<"start_rx">>
       /\ Soapy!StartsOf({"tx"}) = <<"start_tx">>
    /\ Soapy!StartsOf({"rx", "tx"}) = <<"start_rx", "start_tx">>
<1>1. /\ Soapy!Stops["rx"] = "stop_rx" /\ Soapy!Stops["tx"] = "stop_tx"
      /\ Soapy!Starts["rx"] = "start_rx" /\ Soapy!Starts["tx"] = "start_tx"
  BY DEF Soapy!Stops, Soapy!Starts
<1>2. /\ Soapy!Only({}, "rx") = <<>> /\ Soapy!Only({}, "tx") = <<>>
      /\ Soapy!Only({"rx"}, "rx") = <<"rx">> /\ Soapy!Only({"rx"}, "tx") = <<>>
      /\ Soapy!Only({"tx"}, "rx") = <<>> /\ Soapy!Only({"tx"}, "tx") = <<"tx">>
      /\ Soapy!Only({"rx", "tx"}, "rx") = <<"rx">> /\ Soapy!Only({"rx", "tx"}, "tx") = <<"tx">>
  BY DEF Soapy!Only
<1>3. Soapy!StopsOf({}) = <<>> /\ Soapy!StartsOf({}) = <<>>
  <2>1. [i \in 1..Len(<<>>) |-> Soapy!Stops[<<>>[i]]] = <<>>
        /\ [i \in 1..Len(<<>>) |-> Soapy!Starts[<<>>[i]]] = <<>>
    OBVIOUS
  <2> QED BY <1>2, <2>1, JoinEmpty DEF Soapy!StopsOf, Soapy!StartsOf
<1>4. /\ Soapy!Only({"rx"}, "tx") \o Soapy!Only({"rx"}, "rx") = <<"rx">>
      /\ Soapy!Only({"rx"}, "rx") \o Soapy!Only({"rx"}, "tx") = <<"rx">>
      /\ Soapy!Only({"tx"}, "tx") \o Soapy!Only({"tx"}, "rx") = <<"tx">>
      /\ Soapy!Only({"tx"}, "rx") \o Soapy!Only({"tx"}, "tx") = <<"tx">>
      /\ Soapy!Only({"rx", "tx"}, "tx") \o Soapy!Only({"rx", "tx"}, "rx") = <<"tx", "rx">>
      /\ Soapy!Only({"rx", "tx"}, "rx") \o Soapy!Only({"rx", "tx"}, "tx") = <<"rx", "tx">>
  BY <1>2, JoinEmpty, JoinTwo
<1>5. Soapy!StopsOf({"rx"}) = <<"stop_rx">> /\ Soapy!StopsOf({"tx"}) = <<"stop_tx">>
  <2>1. /\ Soapy!StopsOf({"rx"}) = [i \in 1..Len(<<"rx">>) |-> Soapy!Stops[<<"rx">>[i]]]
        /\ Soapy!StopsOf({"tx"}) = [i \in 1..Len(<<"tx">>) |-> Soapy!Stops[<<"tx">>[i]]]
    BY <1>4, Zenon DEF Soapy!StopsOf
  <2>2. Soapy!StopsOf({"rx"}) = <<Soapy!Stops["rx"]>> /\ Soapy!StopsOf({"tx"}) = <<Soapy!Stops["tx"]>>
    BY <2>1, MapOne, Zenon
  <2> QED BY <1>1, <2>2
<1>6. Soapy!StartsOf({"rx"}) = <<"start_rx">> /\ Soapy!StartsOf({"tx"}) = <<"start_tx">>
  <2>1. /\ Soapy!StartsOf({"rx"}) = [i \in 1..Len(<<"rx">>) |-> Soapy!Starts[<<"rx">>[i]]]
        /\ Soapy!StartsOf({"tx"}) = [i \in 1..Len(<<"tx">>) |-> Soapy!Starts[<<"tx">>[i]]]
    BY <1>4, Zenon DEF Soapy!StartsOf
  <2>2. Soapy!StartsOf({"rx"}) = <<Soapy!Starts["rx"]>> /\ Soapy!StartsOf({"tx"}) = <<Soapy!Starts["tx"]>>
    BY <2>1, MapOne, Zenon
  <2> QED BY <1>1, <2>2
<1>7. Soapy!StopsOf({"rx", "tx"}) = <<"stop_tx", "stop_rx">>
  <2>1. Soapy!StopsOf({"rx", "tx"}) = [i \in 1..Len(<<"tx", "rx">>) |-> Soapy!Stops[<<"tx", "rx">>[i]]]
    BY <1>4, Zenon DEF Soapy!StopsOf
  <2>2. [i \in 1..Len(<<"tx", "rx">>) |-> Soapy!Stops[<<"tx", "rx">>[i]]] = <<Soapy!Stops["tx"], Soapy!Stops["rx"]>>
    OBVIOUS
  <2> QED BY <1>1, <2>1, <2>2
<1>8. Soapy!StartsOf({"rx", "tx"}) = <<"start_rx", "start_tx">>
  <2>1. Soapy!StartsOf({"rx", "tx"}) = [i \in 1..Len(<<"rx", "tx">>) |-> Soapy!Starts[<<"rx", "tx">>[i]]]
    BY <1>4, Zenon DEF Soapy!StartsOf
  <2>2. [i \in 1..Len(<<"rx", "tx">>) |-> Soapy!Starts[<<"rx", "tx">>[i]]] = <<Soapy!Starts["rx"],
        Soapy!Starts["tx"]>>
    OBVIOUS
  <2> QED BY <1>1, <2>1, <2>2
<1> QED BY <1>3, <1>5, <1>6, <1>7, <1>8

LEMMA TwoLocks ==
    ASSUME NEW S, NEW a \in S, NEW b \in S
    PROVE  /\ <<a, b>> \in Seq(S) /\ <<a, b>> # <<>> /\ Len(<<a, b>>) = 2
           /\ Head(<<a, b>>) = a /\ Tail(<<a, b>>) = <<b>>
<1>1. <<a, b>> \in Seq(S) OBVIOUS
<1>2. <<a, b>> # <<>> OBVIOUS
<1>3. Len(<<a, b>>) = 2 OBVIOUS
<1>4. Head(<<a, b>>) = a OBVIOUS
<1>5. Tail(<<a, b>>) = <<b>> OBVIOUS
<1> QED BY <1>1, <1>2, <1>3, <1>4, <1>5


\* The mutexes of a call: the first it asks for, and what is left after it.
LEMMA LocksAre ==
    ASSUME NEW call \in CallKinds
    PROVE  /\ Soapy!Locks(call) \in Seq(LockSets) /\ Soapy!Locks(call) # <<>>
           /\ call \in {"rate", "tune"} => /\ Head(Soapy!Locks(call)) = {"ctrl"}
                                           /\ Tail(Soapy!Locks(call)) = <<SecondLocks(call)>>
                                           /\ Len(Soapy!Locks(call)) = 2
           /\ call \notin {"rate", "tune"} => /\ Head(Soapy!Locks(call)) = AllLocks(call)
                                              /\ Tail(Soapy!Locks(call)) = <<>>
                                              /\ Len(Soapy!Locks(call)) = 1
<1>1. CASE call = "rate"
  <2>1. Soapy!Locks(call) = <<{"ctrl"}, {"rx", "tx"}>> BY <1>1 DEF Soapy!Locks, Soapy!RateLocks
  <2>2. SecondLocks(call) = {"rx", "tx"} BY <1>1 DEF SecondLocks
  <2>3. {"ctrl"} \in LockSets /\ {"rx", "tx"} \in LockSets BY DEF LockSets
  <2> DEFINE a == {"ctrl"}
  <2> DEFINE b == {"rx", "tx"}
  <2> DEFINE l == Soapy!Locks(call)
  <2>7. l = <<a, b>> /\ a \in LockSets /\ b \in LockSets BY <2>1, <2>3
  <2> HIDE DEF a, b, l
  <2>8. l \in Seq(LockSets) /\ l # <<>> /\ Len(l) = 2 /\ Head(l) = a /\ Tail(l) = <<b>>
    BY <2>7, TwoLocks
  <2>4. /\ Soapy!Locks(call) \in Seq(LockSets) /\ Soapy!Locks(call) # <<>> /\ Len(Soapy!Locks(call)) = 2
        /\ Head(Soapy!Locks(call)) = {"ctrl"} /\ Tail(Soapy!Locks(call)) = <<{"rx", "tx"}>>
    BY <2>8 DEF a, b, l
  <2>5. Tail(Soapy!Locks(call)) = <<SecondLocks(call)>> BY <2>2, <2>4, Zenon
  <2>6. call \in {"rate", "tune"} BY <1>1
  <2> QED BY <2>4, <2>5, <2>6, Zenon
<1>2. CASE call = "tune"
  <2>1. Soapy!Locks(call) = <<{"ctrl"}, {"rx"}>> BY <1>2 DEF Soapy!Locks
  <2>2. SecondLocks(call) = {"rx"} BY <1>2 DEF SecondLocks
  <2>3. {"ctrl"} \in LockSets /\ {"rx"} \in LockSets BY DEF LockSets
  <2> DEFINE a == {"ctrl"}
  <2> DEFINE b == {"rx"}
  <2> DEFINE l == Soapy!Locks(call)
  <2>7. l = <<a, b>> /\ a \in LockSets /\ b \in LockSets BY <2>1, <2>3
  <2> HIDE DEF a, b, l
  <2>8. l \in Seq(LockSets) /\ l # <<>> /\ Len(l) = 2 /\ Head(l) = a /\ Tail(l) = <<b>>
    BY <2>7, TwoLocks
  <2>4. /\ Soapy!Locks(call) \in Seq(LockSets) /\ Soapy!Locks(call) # <<>> /\ Len(Soapy!Locks(call)) = 2
        /\ Head(Soapy!Locks(call)) = {"ctrl"} /\ Tail(Soapy!Locks(call)) = <<{"rx"}>>
    BY <2>8 DEF a, b, l
  <2>5. Tail(Soapy!Locks(call)) = <<SecondLocks(call)>> BY <2>2, <2>4, Zenon
  <2>6. call \in {"rate", "tune"} BY <1>2
  <2> QED BY <2>4, <2>5, <2>6, Zenon
<1>3. CASE call \in {"start_rx", "stop_rx", "read"}
  <2>1. Soapy!Locks(call) = <<{"rx"}>> /\ AllLocks(call) = {"rx"} BY <1>3 DEF Soapy!Locks, AllLocks
  <2>2. {"rx"} \in LockSets BY DEF LockSets
  <2> QED BY <1>3, <2>1, <2>2
<1>4. CASE call \in {"start_tx", "stop_tx", "write"}
  <2>1. Soapy!Locks(call) = <<{"tx"}>> /\ AllLocks(call) = {"tx"} BY <1>4 DEF Soapy!Locks, AllLocks
  <2>2. {"tx"} \in LockSets BY DEF LockSets
  <2> QED BY <1>4, <2>1, <2>2
<1> QED BY <1>1, <1>2, <1>3, <1>4 DEF CallKinds, Natives

LEMMA AllLocksAre ==
    ASSUME NEW call \in CallKinds
    PROVE  /\ AllLocks(call) \in LockSets /\ AllLocks(call) # {}
           /\ call \in {"rate", "tune"} => AllLocks(call) = {"ctrl"} \cup SecondLocks(call)
           /\ AllLocks(call) \cap AllLocks("rate") # {}
BY DEF AllLocks, SecondLocks, CallKinds, Natives, LockSets

\* The call of one thread changes.
LEMMA CallShape ==
    ASSUME Soapy!SoapyTypeOK, NEW t \in Soapy!Threads, NEW s \in CallStates,
           threads' = [threads EXCEPT ![t] = s]
    PROVE  /\ threads' \in [Soapy!Threads -> CallStates] /\ threads'[t] = s
           /\ \A u \in Soapy!Threads: u # t => threads'[u] = threads[u]
BY DEF Soapy!SoapyTypeOK, CallStates, LockSets, Natives

LEMMA SoapyTyped ==
    Soapy!SoapyTypeOK <=>
       /\ threads \in [Soapy!Threads -> CallStates]
       /\ active \subseteq Soapy!Streams /\ rateKept \in SoapyRates
       /\ native \in [on: SUBSET Soapy!Streams, rate: SoapyRates, room: BOOLEAN]
       /\ soapyHist \in [calls: Nat, transfers: Nat, fails: Nat, unsure: BOOLEAN,
                         streamFailed: BOOLEAN, lost: BOOLEAN, changed: BOOLEAN]
BY DEF Soapy!SoapyTypeOK, CallStates, LockSets, Natives

\* A thread that does not work on a rate, with mutexes nobody else has.
LEMMA CallSoapyKeeps ==
    ASSUME SoapyInv, NEW t \in Soapy!Threads, NEW s \in CallStates, Progress(s),
           threads' = [threads EXCEPT ![t] = s],
           \A u \in Soapy!Threads: u # t => s.holds \cap threads[u].holds = {},
           s.call = "rate" /\ s.locks = <<>> /\ ~soapyHist.streamFailed => RateWork(s),
           UNCHANGED <<active, rateKept, native>>,
           soapyHist'.streamFailed = soapyHist.streamFailed
    PROVE  /\ threads' \in [Soapy!Threads -> CallStates]
           /\ AllProgress' /\ Exclusion' /\ RatesWork'
<1>1. Soapy!SoapyTypeOK /\ AllProgress /\ Exclusion /\ RatesWork BY DEF SoapyInv
<1>2. /\ threads' \in [Soapy!Threads -> CallStates] /\ threads'[t] = s
      /\ \A u \in Soapy!Threads: u # t => threads'[u] = threads[u]
  BY <1>1, CallShape
<1>3. AllProgress' BY <1>1, <1>2 DEF AllProgress
<1>4. Exclusion' BY <1>1, <1>2 DEF Exclusion
<1>5. ASSUME NEW u \in Soapy!Threads, ~soapyHist.streamFailed,
             threads'[u].call = "rate" /\ threads'[u].locks = <<>>
      PROVE  RateWork(threads'[u])
  BY <1>1, <1>2, <1>5 DEF RatesWork
<1>6. RatesWork'
  <2>1. \A me: RateWork(me)' <=> (active' \subseteq me'.restart
            /\ (me'.todo = Soapy!StopsOf(active') \o <<"rate">>
                \/ me'.todo = Soapy!StartsOf(me'.restart \ active')))
    BY DEF RateWork
  <2>2. ASSUME NEW u \in Soapy!Threads, ~soapyHist.streamFailed,
               threads'[u].call = "rate" /\ threads'[u].locks = <<>>
        PROVE  RateWork(threads[u])'
    BY <1>5, <2>2 DEF RateWork
  <2> QED BY <2>2 DEF RatesWork
<1> QED BY <1>2, <1>3, <1>4, <1>6

LEMMA HistTyped ==
    ASSUME Soapy!SoapyTypeOK, Soapy!CallCounted \/ Soapy!Transfer
    PROVE  /\ soapyHist' \in [calls: Nat, transfers: Nat, fails: Nat, unsure: BOOLEAN,
                              streamFailed: BOOLEAN, lost: BOOLEAN, changed: BOOLEAN]
           /\ soapyHist'.streamFailed = soapyHist.streamFailed
           /\ soapyHist'.unsure = soapyHist.unsure /\ soapyHist'.changed = soapyHist.changed
<1> DEFINE c == soapyHist.calls + 1
<1> DEFINE f == soapyHist.transfers + 1
<1>1. c \in Nat /\ f \in Nat BY DEF Soapy!SoapyTypeOK
<1>2. \/ soapyHist' = [soapyHist EXCEPT !.calls = c]
      \/ soapyHist' = [soapyHist EXCEPT !.transfers = f]
  BY DEF Soapy!CallCounted, Soapy!Transfer
<1>3. soapyHist \in [calls: Nat, transfers: Nat, fails: Nat, unsure: BOOLEAN,
                     streamFailed: BOOLEAN, lost: BOOLEAN, changed: BOOLEAN]
  BY DEF Soapy!SoapyTypeOK
<1> HIDE DEF c, f
<1> QED BY <1>1, <1>2, <1>3

LEMMA NoCallIs ==
    ASSUME Soapy!SoapyParameters
    PROVE  /\ Soapy!NoCall \in CallStates /\ Soapy!NoCall.call = "none" /\ Soapy!NoCall.locks = <<>>
           /\ Soapy!NoCall.holds = {} /\ Soapy!NoCall.todo = <<>> /\ Progress(Soapy!NoCall)
<1>1. Soapy!Rate0 \in SoapyRates BY DEF Soapy!Rate0, Soapy!SoapyParameters
<1>2. Soapy!NoCall.call = "none" /\ Soapy!NoCall.locks = <<>> /\ Soapy!NoCall.holds = {} /\ Soapy!NoCall.todo = <<>>
  BY DEF Soapy!NoCall
<1>3. Soapy!NoCall \in CallStates BY <1>1 DEF Soapy!NoCall, CallStates, LockSets
<1> QED BY <1>2, <1>3 DEF Progress

LEMMA AskSoapyKeeps ==
    ASSUME Soapy!SoapyParameters, SoapyInv, NEW t \in Soapy!Threads, NEW call \in CallKinds,
           NEW r \in SoapyRates, Soapy!Ask(t, call, r), Soapy!CallCounted \/ Soapy!Transfer
    PROVE  SoapyInv'
<1>1. Soapy!SoapyTypeOK BY DEF SoapyInv
<1> DEFINE s == [Soapy!NoCall EXCEPT !.call = call, !.locks = Soapy!Locks(call), !.rate = r]
<1>2. threads' = [threads EXCEPT ![t] = s] /\ UNCHANGED <<active, rateKept, native>> BY DEF Soapy!Ask
<1>3. Soapy!Locks(call) \in Seq(LockSets) /\ Soapy!Locks(call) # <<>> BY LocksAre
<1>4. s \in CallStates /\ s.call = call /\ s.locks = Soapy!Locks(call) /\ s.holds = {} /\ s.todo = <<>>
  <2> DEFINE n == Soapy!NoCall
  <2> DEFINE l == Soapy!Locks(call)
  <2>1. n \in CallStates /\ n.holds = {} /\ n.todo = <<>> /\ l \in Seq(LockSets)
    BY <1>3, NoCallIs
  <2>2. s = [n EXCEPT !.call = call, !.locks = l, !.rate = r] OBVIOUS
  <2>3. call \in Natives \cup {"none", "read", "write"} BY DEF CallKinds
  <2> HIDE DEF n, l, s
  <2>4. s \in CallStates /\ s.call = call /\ s.locks = l /\ s.holds = {} /\ s.todo = <<>>
    BY <2>1, <2>2, <2>3 DEF CallStates
  <2> QED BY <2>4 DEF l
<1> HIDE DEF s
<1>5. Progress(s) BY <1>4 DEF Progress, Asked
<1>6. /\ soapyHist' \in [calls: Nat, transfers: Nat, fails: Nat, unsure: BOOLEAN,
                         streamFailed: BOOLEAN, lost: BOOLEAN, changed: BOOLEAN]
      /\ soapyHist'.streamFailed = soapyHist.streamFailed
      /\ soapyHist'.unsure = soapyHist.unsure /\ soapyHist'.changed = soapyHist.changed
  BY <1>1, HistTyped
<1>7. /\ threads' \in [Soapy!Threads -> CallStates]
      /\ AllProgress' /\ Exclusion' /\ RatesWork'
  BY <1>2, <1>3, <1>4, <1>5, <1>6, CallSoapyKeeps
<1>8. Soapy!SoapyTypeOK' BY <1>1, <1>2, <1>6, <1>7, SoapyTyped DEF Soapy!SoapyTypeOK, CallStates, LockSets, Natives
<1>9. Soapy!RateKeepsStreams' /\ RateHonest'
  BY <1>2, <1>6 DEF SoapyInv, Soapy!RateKeepsStreams, RateHonest
<1> QED BY <1>7, <1>8, <1>9 DEF SoapyInv

\* A call ends: its thread holds nothing and has no call.
LEMMA ReturnKeeps ==
    ASSUME Soapy!SoapyParameters, SoapyInv, NEW t \in Soapy!Threads, Soapy!Return(t),
           UNCHANGED <<active, rateKept, native>>,
           soapyHist'.streamFailed = soapyHist.streamFailed
    PROVE  /\ threads' \in [Soapy!Threads -> CallStates]
           /\ AllProgress' /\ Exclusion' /\ RatesWork'
<1> DEFINE s == Soapy!NoCall
<1>1. s \in CallStates /\ s.call = "none" /\ s.holds = {} /\ Progress(s) BY NoCallIs
<1>2. threads' = [threads EXCEPT ![t] = s] BY DEF Soapy!Return
<1> HIDE DEF s
<1> QED BY <1>1, <1>2, CallSoapyKeeps

\* The streams that a list is made of.
LEMMA StreamSets ==
    ASSUME NEW S \in SUBSET Soapy!Streams
    PROVE  S = {} \/ S = {"rx"} \/ S = {"tx"} \/ S = {"rx", "tx"}
BY DEF Soapy!Streams

LEMMA StopPlans ==
    /\ Soapy!StopsOf({}) \o <<"rate">> = <<"rate">>
    /\ Soapy!StopsOf({"rx"}) \o <<"rate">> = <<"stop_rx", "rate">>
    /\ Soapy!StopsOf({"tx"}) \o <<"rate">> = <<"stop_tx", "rate">>
    /\ Soapy!StopsOf({"rx", "tx"}) \o <<"rate">> = <<"stop_tx", "stop_rx", "rate">>
BY StopLists, JoinEmpty, JoinTwo, JoinThree

LEMMA ListsTyped ==
    ASSUME NEW S \in SUBSET Soapy!Streams
    PROVE  Soapy!StartsOf(S) \in Seq(Natives) /\ Soapy!StopsOf(S) \o <<"rate">> \in Seq(Natives)
<1>1. /\ <<>> \in Seq(Natives) /\ <<"rate">> \in Seq(Natives)
      /\ <<"stop_rx", "rate">> \in Seq(Natives) /\ <<"stop_tx", "rate">> \in Seq(Natives)
      /\ <<"stop_tx", "stop_rx", "rate">> \in Seq(Natives)
      /\ <<"start_rx">> \in Seq(Natives) /\ <<"start_tx">> \in Seq(Natives)
      /\ <<"start_rx", "start_tx">> \in Seq(Natives)
  BY DEF Natives
<1>2. CASE S = {} BY <1>1, <1>2, StopLists, StopPlans, Zenon
<1>3. CASE S = {"rx"} BY <1>1, <1>3, StopLists, StopPlans, Zenon
<1>4. CASE S = {"tx"} BY <1>1, <1>4, StopLists, StopPlans, Zenon
<1>5. CASE S = {"rx", "tx"} BY <1>1, <1>5, StopLists, StopPlans, Zenon
<1> QED BY <1>2, <1>3, <1>4, <1>5, StreamSets

\* The lists by their head and their tail.
LEMMA Heads ==
    /\ \A a: <<a>> # <<>> /\ Head(<<a>>) = a /\ Tail(<<a>>) = <<>>
    /\ \A a, b: <<a, b>> # <<>> /\ Head(<<a, b>>) = a /\ Tail(<<a, b>>) = <<b>>
    /\ \A a, b, c: <<a, b, c>> # <<>> /\ Head(<<a, b, c>>) = a /\ Tail(<<a, b, c>>) = <<b, c>>
<1>1. ASSUME NEW a PROVE <<a>> # <<>> /\ Head(<<a>>) = a /\ Tail(<<a>>) = <<>>
  <2>1. <<a>> # <<>> OBVIOUS
  <2>2. Head(<<a>>) = a OBVIOUS
  <2>3. Tail(<<a>>) = <<>> OBVIOUS
  <2> QED BY <2>1, <2>2, <2>3
<1>2. ASSUME NEW a, NEW b
      PROVE  <<a, b>> # <<>> /\ Head(<<a, b>>) = a /\ Tail(<<a, b>>) = <<b>>
  <2>1. <<a, b>> # <<>> OBVIOUS
  <2>2. Head(<<a, b>>) = a OBVIOUS
  <2>3. Tail(<<a, b>>) = <<b>> OBVIOUS
  <2> QED BY <2>1, <2>2, <2>3
<1>3. ASSUME NEW a, NEW b, NEW c
      PROVE  <<a, b, c>> # <<>> /\ Head(<<a, b, c>>) = a /\ Tail(<<a, b, c>>) = <<b, c>>
  <2>1. <<a, b, c>> # <<>> OBVIOUS
  <2>2. Head(<<a, b, c>>) = a OBVIOUS
  <2>3. Tail(<<a, b, c>>) = <<b, c>> OBVIOUS
  <2> QED BY <2>1, <2>2, <2>3
<1> QED BY <1>1, <1>2, <1>3, Zenon

LEMMA CallEndsKeeps ==
    ASSUME Soapy!SoapyParameters, SoapyInv, NEW t \in Soapy!Threads, Soapy!CallEnds(t)
    PROVE  SoapyInv'
<1>1. Soapy!SoapyTypeOK /\ AllProgress /\ Exclusion /\ RatesWork /\ Soapy!RateKeepsStreams /\ RateHonest
  BY DEF SoapyInv
<1>2. threads[t] \in CallStates /\ active \in SUBSET Soapy!Streams BY <1>1, SoapyTyped
<1> DEFINE c == soapyHist.changed \/ (threads[t].call = "rate" /\ active # threads[t].restart)
<1>3. /\ soapyHist' = [soapyHist EXCEPT !.changed = c] /\ UNCHANGED <<active, rateKept, native>>
      /\ Soapy!Return(t) /\ threads[t].locks = <<>> /\ threads[t].todo = <<>>
  BY DEF Soapy!CallEnds
<1>4. ~soapyHist.streamFailed => ~c
  <2> SUFFICES ASSUME ~soapyHist.streamFailed, threads[t].call = "rate" PROVE active = threads[t].restart
    BY <1>1 DEF Soapy!RateKeepsStreams
  <2>1. RateWork(threads[t]) BY <1>1, <1>3 DEF RatesWork
  <2> DEFINE S == threads[t].restart \ active
  <2>2. S \in SUBSET Soapy!Streams BY <1>2 DEF CallStates
  <2>3. Soapy!StopsOf(active) \o <<"rate">> # <<>> BY <1>2, StreamSets, StopPlans, Heads
  <2>4. Soapy!StartsOf(S) = <<>> BY <1>3, <2>1, <2>3 DEF RateWork
  <2> HIDE DEF S
  <2>6. <<"start_rx">> # <<>> /\ <<"start_tx">> # <<>> /\ <<"start_rx", "start_tx">> # <<>> BY Heads
  <2>7. Soapy!StartsOf({"rx"}) # <<>> /\ Soapy!StartsOf({"tx"}) # <<>> /\ Soapy!StartsOf({"rx", "tx"}) # <<>>
    BY <2>6, StopLists, Zenon
  <2>5. S = {} BY <2>2, <2>4, <2>7, StreamSets
  <2> QED BY <2>1, <2>5 DEF RateWork, S
<1>5. c \in BOOLEAN OBVIOUS
<1> HIDE DEF c
<1>6. soapyHist \in [calls: Nat, transfers: Nat, fails: Nat, unsure: BOOLEAN,
                     streamFailed: BOOLEAN, lost: BOOLEAN, changed: BOOLEAN]
  BY <1>1 DEF Soapy!SoapyTypeOK
<1>7. /\ soapyHist' \in [calls: Nat, transfers: Nat, fails: Nat, unsure: BOOLEAN,
                         streamFailed: BOOLEAN, lost: BOOLEAN, changed: BOOLEAN]
      /\ soapyHist'.streamFailed = soapyHist.streamFailed
      /\ soapyHist'.unsure = soapyHist.unsure /\ soapyHist'.changed = c
  BY <1>3, <1>5, <1>6
<1>8. threads' \in [Soapy!Threads -> CallStates] /\ AllProgress' /\ Exclusion' /\ RatesWork'
  BY <1>3, <1>7, ReturnKeeps
<1>9. Soapy!SoapyTypeOK'
  BY <1>1, <1>3, <1>7, <1>8 DEF Soapy!SoapyTypeOK, CallStates, LockSets, Natives
<1>10. Soapy!RateKeepsStreams' /\ RateHonest'
  BY <1>1, <1>3, <1>4, <1>7 DEF Soapy!RateKeepsStreams, RateHonest
<1> QED BY <1>8, <1>9, <1>10 DEF SoapyInv

LEMMA TransferEndsKeeps ==
    ASSUME Soapy!SoapyParameters, SoapyInv, Soapy!ReadEnds \/ Soapy!WriteEnds
    PROVE  SoapyInv'
<1>1. Soapy!SoapyTypeOK BY DEF SoapyInv
<1>2. PICK t \in Soapy!Threads: Soapy!Return(t) BY DEF Soapy!ReadEnds, Soapy!WriteEnds, Soapy!Threads
<1>3. UNCHANGED <<active, rateKept, native>> /\ soapyHist' = soapyHist BY DEF Soapy!ReadEnds, Soapy!WriteEnds
<1>4. threads' \in [Soapy!Threads -> CallStates] /\ AllProgress' /\ Exclusion' /\ RatesWork'
  BY <1>2, <1>3, ReturnKeeps
<1>5. Soapy!SoapyTypeOK' BY <1>1, <1>3, <1>4 DEF Soapy!SoapyTypeOK, CallStates, LockSets, Natives
<1>6. Soapy!RateKeepsStreams' /\ RateHonest' BY <1>3 DEF SoapyInv, Soapy!RateKeepsStreams, RateHonest
<1> QED BY <1>4, <1>5, <1>6 DEF SoapyInv

\* A thread takes the next of its mutexes.
LEMMA AcquireKeeps ==
    ASSUME Soapy!SoapyParameters, SoapyInv, NEW t \in Soapy!Threads, Soapy!Acquire(t)
    PROVE  SoapyInv'
<1>1. Soapy!SoapyTypeOK /\ AllProgress /\ Exclusion /\ RatesWork /\ Soapy!RateKeepsStreams /\ RateHonest
  BY DEF SoapyInv
<1> DEFINE me == threads[t]
<1> DEFINE last == Len(me.locks) = 1
<1> DEFINE h == me.holds \cup Head(me.locks)
<1> DEFINE w == IF last THEN Soapy!Work(me.call) ELSE <<>>
<1> DEFINE r == IF last THEN active ELSE {}
<1> DEFINE s == [me EXCEPT !.locks = Tail(me.locks), !.holds = h, !.todo = w, !.restart = r]
<1>2. me \in CallStates /\ active \in SUBSET Soapy!Streams /\ threads \in [Soapy!Threads -> CallStates]
  BY <1>1, SoapyTyped
<1>3. /\ threads' = [threads EXCEPT ![t] = s] /\ UNCHANGED <<active, rateKept, native, soapyHist>>
      /\ me.locks # <<>> /\ Soapy!Free(Head(me.locks))
  BY <1>2 DEF Soapy!Acquire
<1>4. me.call \in CallKinds /\ (Asked(me) \/ HalfWay(me))
  BY <1>1, <1>3 DEF AllProgress, Progress, Works
<1>5. /\ Tail(me.locks) \in Seq(LockSets) /\ h \in LockSets
  BY <1>2, <1>3 DEF CallStates, LockSets
<1>6. ASSUME last PROVE w \in Seq(Natives) /\ (me.call = "rate" => w = Soapy!StopsOf(active) \o <<"rate">>)
  <2>1. w = Soapy!Work(me.call) BY <1>6
  <2>2. CASE me.call = "rate" BY <1>2, <2>1, <2>2, ListsTyped DEF Soapy!Work
  <2>3. CASE me.call \in {"read", "write"} BY <2>1, <2>3 DEF Soapy!Work
  <2>4. CASE me.call \notin {"rate", "read", "write"}
    <3>1. w = <<me.call>> /\ me.call \in Natives BY <1>4, <2>1, <2>4 DEF Soapy!Work, CallKinds
    <3> DEFINE k == me.call
    <3> HIDE DEF w, k
    <3>2. w = <<k>> /\ k \in Natives BY <3>1 DEF k
    <3>3. w \in Seq(Natives) BY <3>2
    <3> QED BY <3>3, <2>4
  <2>5. me.call \in {"rate"} \cup {"read", "write"} \/ me.call \notin {"rate", "read", "write"}
    OBVIOUS
  <2>6. me.call = "rate" \/ me.call \in {"read", "write"} \/ me.call \notin {"rate", "read", "write"}
    BY <2>5
  <2> HIDE DEF w, me
  <2> QED BY <2>2, <2>3, <2>4, <2>6, Zenon
<1>7. w \in Seq(Natives) /\ r \in SUBSET Soapy!Streams
  <2>1. ~last => w = <<>> OBVIOUS
  <2>2. w \in Seq(Natives) BY <1>6, <2>1
  <2> QED BY <1>2, <2>2
<1>8. /\ s \in CallStates /\ s.call = me.call /\ s.locks = Tail(me.locks) /\ s.holds = h
      /\ s.todo = w /\ s.restart = r
  <2> HIDE DEF w, r, h, me, last
  <2> QED BY <1>2, <1>5, <1>7 DEF CallStates
<1>9. Progress(s) /\ (s.locks = <<>> => last)
  <2> DEFINE rest == Tail(me.locks)
  <2>1. CASE Asked(me) /\ me.call \in {"rate", "tune"}
    <3>1. /\ Head(me.locks) = {"ctrl"} /\ rest = <<SecondLocks(me.call)>> /\ Len(me.locks) = 2
          /\ me.holds = {}
      BY <1>4, <2>1, LocksAre DEF Asked
    <3>2. h = {"ctrl"} /\ ~last BY <3>1
    <3>3. w = <<>> BY <3>2
    <3>4. rest # <<>> BY <3>1
    <3> HIDE DEF s, w, h, rest, last
    <3>5. HalfWay(s) BY <1>8, <2>1, <3>1, <3>2, <3>3 DEF HalfWay, rest
    <3> QED BY <1>4, <1>8, <3>4, <3>5 DEF Progress, rest
  <2>2. CASE Asked(me) /\ me.call \notin {"rate", "tune"}
    <3>1. Head(me.locks) = AllLocks(me.call) /\ rest = <<>> /\ Len(me.locks) = 1 /\ me.holds = {}
      BY <1>4, <2>2, LocksAre DEF Asked
    <3>2. h = AllLocks(me.call) /\ last BY <3>1
    <3> HIDE DEF s, w, h, last
    <3>3. Works(s) BY <1>8, <3>1, <3>2 DEF Works, rest
    <3> QED BY <1>4, <1>8, <3>2, <3>3 DEF Progress
  <2>3. CASE HalfWay(me)
    <3> DEFINE b == SecondLocks(me.call)
    <3>1. me.locks = <<b>> /\ me.holds = {"ctrl"} /\ me.call \in {"rate", "tune"}
      BY <2>3 DEF HalfWay
    <3>2. AllLocks(me.call) = {"ctrl"} \cup b BY <1>4, <3>1, AllLocksAre
    <3>3. Head(me.locks) = b /\ rest = <<>> /\ Len(me.locks) = 1
      <4> HIDE DEF b
      <4>1. Head(<<b>>) = b /\ Tail(<<b>>) = <<>> /\ Len(<<b>>) = 1 BY Heads
      <4> QED BY <3>1, <4>1
    <3>4. h = AllLocks(me.call) /\ last BY <3>1, <3>2, <3>3
    <3> HIDE DEF s, w, h, last, b
    <3>5. Works(s) BY <1>8, <3>3, <3>4 DEF Works, rest
    <3> QED BY <1>4, <1>8, <3>4, <3>5 DEF Progress
  <2> QED BY <1>4, <2>1, <2>2, <2>3
<1>10. \A u \in Soapy!Threads: u # t => s.holds \cap threads[u].holds = {}
  BY <1>1, <1>3, <1>8 DEF Exclusion, Soapy!Free
<1>11. s.call = "rate" /\ s.locks = <<>> => RateWork(s)
  <2> SUFFICES ASSUME s.call = "rate", s.locks = <<>> PROVE RateWork(s) OBVIOUS
  <2>1. last BY <1>9
  <2>2. r = active BY <2>1
  <2>3. w = Soapy!StopsOf(active) \o <<"rate">> BY <1>6, <1>8, <2>1
  <2> HIDE DEF s, w, r
  <2> QED BY <1>8, <2>2, <2>3 DEF RateWork
<1> HIDE DEF s
<1>12. threads' \in [Soapy!Threads -> CallStates] /\ AllProgress' /\ Exclusion' /\ RatesWork'
  BY <1>3, <1>8, <1>9, <1>10, <1>11, CallSoapyKeeps
<1>13. Soapy!SoapyTypeOK' BY <1>1, <1>3, <1>12 DEF Soapy!SoapyTypeOK, CallStates, LockSets, Natives
<1>14. Soapy!RateKeepsStreams' /\ RateHonest' BY <1>1, <1>3 DEF Soapy!RateKeepsStreams, RateHonest
<1> QED BY <1>12, <1>13, <1>14 DEF SoapyInv

LEMMA PlanHeads ==
    /\ Head(<<"rate">>) = "rate" /\ Tail(<<"rate">>) = <<>>
    /\ Head(<<"stop_rx", "rate">>) = "stop_rx" /\ Tail(<<"stop_rx", "rate">>) = <<"rate">>
    /\ Head(<<"stop_tx", "rate">>) = "stop_tx" /\ Tail(<<"stop_tx", "rate">>) = <<"rate">>
    /\ Head(<<"stop_tx", "stop_rx", "rate">>) = "stop_tx"
    /\ Tail(<<"stop_tx", "stop_rx", "rate">>) = <<"stop_rx", "rate">>
    /\ Head(<<"start_rx">>) = "start_rx" /\ Tail(<<"start_rx">>) = <<>>
    /\ Head(<<"start_tx">>) = "start_tx" /\ Tail(<<"start_tx">>) = <<>>
    /\ Head(<<"start_rx", "start_tx">>) = "start_rx"
    /\ Tail(<<"start_rx", "start_tx">>) = <<"start_tx">>
<1>1. Head(<<"rate">>) = "rate" /\ Tail(<<"rate">>) = <<>> BY Heads
<1>2. /\ Head(<<"stop_rx", "rate">>) = "stop_rx" /\ Tail(<<"stop_rx", "rate">>) = <<"rate">>
      /\ Head(<<"stop_tx", "rate">>) = "stop_tx" /\ Tail(<<"stop_tx", "rate">>) = <<"rate">>
  BY Heads
<1>3. Head(<<"stop_tx", "stop_rx", "rate">>) = "stop_tx" BY Heads
<1>4. Tail(<<"stop_tx", "stop_rx", "rate">>) = <<"stop_rx", "rate">> BY Heads
<1>5. /\ Head(<<"start_rx">>) = "start_rx" /\ Tail(<<"start_rx">>) = <<>>
      /\ Head(<<"start_tx">>) = "start_tx" /\ Tail(<<"start_tx">>) = <<>>
  BY Heads
<1>6. /\ Head(<<"start_rx", "start_tx">>) = "start_rx"
      /\ Tail(<<"start_rx", "start_tx">>) = <<"start_tx">>
  BY Heads
<1> QED BY <1>1, <1>2, <1>3, <1>4, <1>5, <1>6, Zenon

\* One step of a rate change that succeeds leaves it the rest of its work.
LEMMA RateAdvances ==
    ASSUME NEW me \in CallStates, active \in SUBSET Soapy!Streams, RateWork(me), me.todo # <<>>,
           NEW c, c = Head(me.todo), NEW rest, rest = Tail(me.todo)
    PROVE  /\ Soapy!Noted(c) \in SUBSET me.restart
           /\ c = "rate" =>
                 rest \o Soapy!StartsOf(me.restart) \in {Soapy!StartsOf(me.restart \ Soapy!Noted(c))}
           /\ c # "rate" =>
                 rest \in {Soapy!StopsOf(Soapy!Noted(c)) \o <<"rate">>, Soapy!StartsOf(me.restart \ Soapy!Noted(c))}
<1> DEFINE R == me.restart
<1>1. R \in SUBSET Soapy!Streams /\ active \subseteq R BY DEF CallStates, RateWork
<1>2. CASE me.todo = Soapy!StopsOf(active) \o <<"rate">>
  <2>1. CASE active = {}
    <3>1. me.todo = <<"rate">> BY <1>2, <2>1, StopPlans, Zenon
    <3>2. c = "rate" /\ rest = <<>> BY <3>1, PlanHeads, Zenon
    <3>3. Soapy!Noted(c) = {} /\ R \ {} = R BY <2>1, <3>2 DEF Soapy!Noted
    <3>4. Soapy!StartsOf(R) \in Seq(Natives) BY <1>1, ListsTyped
    <3>5. <<>> \o Soapy!StartsOf(R) = Soapy!StartsOf(R) BY <3>4
    <3> HIDE DEF R
    <3>6. rest \o Soapy!StartsOf(R) = Soapy!StartsOf(R \ Soapy!Noted(c)) BY <3>2, <3>3, <3>5, Zenon
    <3> QED BY <3>2, <3>3, <3>6 DEF R
  <2>2. CASE active = {"rx"}
    <3>1. me.todo = <<"stop_rx", "rate">> BY <1>2, <2>2, StopPlans, Zenon
    <3>2. c = "stop_rx" /\ rest = <<"rate">> BY <3>1, PlanHeads, Zenon
    <3>3. Soapy!Noted(c) = {} BY <2>2, <3>2 DEF Soapy!Noted
    <3>4. rest = Soapy!StopsOf(Soapy!Noted(c)) \o <<"rate">> BY <3>2, <3>3, StopPlans, Zenon
    <3> QED BY <3>2, <3>3, <3>4
  <2>3. CASE active = {"tx"}
    <3>1. me.todo = <<"stop_tx", "rate">> BY <1>2, <2>3, StopPlans, Zenon
    <3>2. c = "stop_tx" /\ rest = <<"rate">> BY <3>1, PlanHeads, Zenon
    <3>3. Soapy!Noted(c) = {} BY <2>3, <3>2 DEF Soapy!Noted
    <3>4. rest = Soapy!StopsOf(Soapy!Noted(c)) \o <<"rate">> BY <3>2, <3>3, StopPlans, Zenon
    <3> QED BY <3>2, <3>3, <3>4
  <2>4. CASE active = {"rx", "tx"}
    <3>1. me.todo = <<"stop_tx", "stop_rx", "rate">> BY <1>2, <2>4, StopPlans, Zenon
    <3>2. c = "stop_tx" /\ rest = <<"stop_rx", "rate">> BY <3>1, PlanHeads, Zenon
    <3>3. Soapy!Noted(c) = {"rx"} BY <2>4, <3>2 DEF Soapy!Noted
    <3>4. rest = Soapy!StopsOf(Soapy!Noted(c)) \o <<"rate">> BY <3>2, <3>3, StopPlans, Zenon
    <3>5. Soapy!Noted(c) \in SUBSET R BY <1>1, <2>4, <3>3
    <3> QED BY <3>2, <3>4, <3>5
  <2> QED BY <2>1, <2>2, <2>3, <2>4, StreamSets
<1>3. CASE me.todo = Soapy!StartsOf(R \ active)
  <2> DEFINE S == R \ active
  <2>0. S \in SUBSET Soapy!Streams BY <1>1
  <2>1. CASE S = {} BY <1>3, <2>1, StopLists
  <2>2. CASE S = {"rx"}
    <3>1. me.todo = <<"start_rx">> BY <1>3, <2>2, StopLists
    <3>2. c = "start_rx" /\ rest = <<>> BY <3>1, PlanHeads, Zenon
    <3>3. Soapy!Noted(c) = active \cup {"rx"} BY <3>2 DEF Soapy!Noted
    <3>4. R \ Soapy!Noted(c) = {} /\ Soapy!Noted(c) \in SUBSET R BY <1>1, <2>2, <3>3
    <3> HIDE DEF R
    <3>5. rest = Soapy!StartsOf(R \ Soapy!Noted(c)) BY <3>2, <3>4, StopLists, Zenon
    <3> QED BY <3>2, <3>4, <3>5 DEF R
  <2>3. CASE S = {"tx"}
    <3>1. me.todo = <<"start_tx">> BY <1>3, <2>3, StopLists
    <3>2. c = "start_tx" /\ rest = <<>> BY <3>1, PlanHeads, Zenon
    <3>3. Soapy!Noted(c) = active \cup {"tx"} BY <3>2 DEF Soapy!Noted
    <3>4. R \ Soapy!Noted(c) = {} /\ Soapy!Noted(c) \in SUBSET R BY <1>1, <2>3, <3>3
    <3> HIDE DEF R
    <3>5. rest = Soapy!StartsOf(R \ Soapy!Noted(c)) BY <3>2, <3>4, StopLists, Zenon
    <3> QED BY <3>2, <3>4, <3>5 DEF R
  <2>4. CASE S = {"rx", "tx"}
    <3>1. me.todo = <<"start_rx", "start_tx">> BY <1>3, <2>4, StopLists
    <3>2. c = "start_rx" /\ rest = <<"start_tx">> BY <3>1, PlanHeads, Zenon
    <3>3. Soapy!Noted(c) = active \cup {"rx"} BY <3>2 DEF Soapy!Noted
    <3>4. R \ Soapy!Noted(c) = {"tx"} /\ Soapy!Noted(c) \in SUBSET R BY <1>1, <2>4, <3>3
    <3> HIDE DEF R
    <3>5. rest = Soapy!StartsOf(R \ Soapy!Noted(c)) BY <3>2, <3>4, StopLists, Zenon
    <3> QED BY <3>2, <3>4, <3>5 DEF R
  <2> HIDE DEF S
  <2>5. S = {} \/ S = {"rx"} \/ S = {"tx"} \/ S = {"rx", "tx"} BY <2>0, StreamSets
  <2> QED BY <2>1, <2>2, <2>3, <2>4, <2>5, Zenon
<1> QED BY <1>2, <1>3 DEF RateWork

\* What a rate change fails at, with the streams in order, is the rate.
LEMMA RateFails ==
    ASSUME NEW me \in CallStates, active \in SUBSET Soapy!Streams, RateWork(me), me.todo # <<>>,
           Head(me.todo) \notin {"start_rx", "start_tx", "stop_rx", "stop_tx"}
    PROVE  Head(me.todo) = "rate" /\ active = {}
<1> DEFINE R == me.restart
<1>1. R \in SUBSET Soapy!Streams BY DEF CallStates
<1>2. CASE me.todo = Soapy!StopsOf(active) \o <<"rate">>
  <2>1. CASE active = {}
    <3>1. me.todo = <<"rate">> BY <1>2, <2>1, StopPlans, Zenon
    <3> QED BY <2>1, <3>1, PlanHeads, Zenon
  <2>2. CASE active = {"rx"}
    <3>1. me.todo = <<"stop_rx", "rate">> BY <1>2, <2>2, StopPlans, Zenon
    <3>2. Head(me.todo) = "stop_rx" BY <3>1, PlanHeads, Zenon
    <3> QED BY <3>2
  <2>3. CASE active = {"tx"}
    <3>1. me.todo = <<"stop_tx", "rate">> BY <1>2, <2>3, StopPlans, Zenon
    <3>2. Head(me.todo) = "stop_tx" BY <3>1, PlanHeads, Zenon
    <3> QED BY <3>2
  <2>4. CASE active = {"rx", "tx"}
    <3>1. me.todo = <<"stop_tx", "stop_rx", "rate">> BY <1>2, <2>4, StopPlans, Zenon
    <3>2. Head(me.todo) = "stop_tx" BY <3>1, PlanHeads, Zenon
    <3> QED BY <3>2
  <2> QED BY <2>1, <2>2, <2>3, <2>4, StreamSets
<1>3. CASE me.todo = Soapy!StartsOf(R \ active)
  <2> DEFINE S == R \ active
  <2>0. S \in SUBSET Soapy!Streams BY <1>1
  <2>1. CASE S = {} BY <1>3, <2>1, StopLists
  <2>2. CASE S = {"rx"} \/ S = {"rx", "tx"}
    <3>1. me.todo = <<"start_rx">> \/ me.todo = <<"start_rx", "start_tx">>
      BY <1>3, <2>2, StopLists
    <3>2. Head(me.todo) = "start_rx" BY <3>1, PlanHeads, Zenon
    <3> QED BY <3>2
  <2>3. CASE S = {"tx"}
    <3>1. me.todo = <<"start_tx">> BY <1>3, <2>3, StopLists
    <3>2. Head(me.todo) = "start_tx" BY <3>1, PlanHeads, Zenon
    <3> QED BY <3>2
  <2> QED BY <2>0, <2>1, <2>2, <2>3, StreamSets
<1> QED BY <1>2, <1>3 DEF RateWork

\* A working rate change has the mutexes of every other call: nobody else works.
LEMMA RateIsAlone ==
    ASSUME SoapyInv, NEW t \in Soapy!Threads, NEW u \in Soapy!Threads, t # u,
           threads[t].call # "none", threads[t].locks = <<>>,
           threads[u].call = "rate", threads[u].locks = <<>>
    PROVE  FALSE
<1>1. /\ Progress(threads[t]) /\ Progress(threads[u])
      /\ threads[t].holds \cap threads[u].holds = {}
  BY DEF SoapyInv, AllProgress, Exclusion
<1>2. threads[t].call \in CallKinds /\ "rate" \in CallKinds BY <1>1 DEF Progress, CallKinds, Natives
<1>3. <<SecondLocks(threads[t].call)>> # <<>> /\ <<SecondLocks(threads[u].call)>> # <<>> BY Heads
<1>4. Works(threads[t]) BY <1>1, <1>2, <1>3, LocksAre DEF Progress, Asked, HalfWay
<1>5. Works(threads[u]) BY <1>1, <1>2, <1>3, LocksAre DEF Progress, Asked, HalfWay
<1> QED BY <1>1, <1>2, <1>4, <1>5, AllLocksAre DEF Works

\* A native call changes the calling thread's list, and what is active with it.
LEMMA NativeKeeps ==
    ASSUME SoapyInv, NEW t \in Soapy!Threads, NEW todo \in Seq(Natives), threads[t].todo # <<>>,
           threads' = [threads EXCEPT ![t].todo = todo],
           threads[t].call = "rate" /\ ~soapyHist'.streamFailed =>
               /\ active' \in SUBSET threads[t].restart
               /\ \/ todo = Soapy!StopsOf(active') \o <<"rate">>
                  \/ todo = Soapy!StartsOf(threads[t].restart \ active')
    PROVE  /\ threads' \in [Soapy!Threads -> CallStates]
           /\ AllProgress' /\ Exclusion' /\ RatesWork'
<1> DEFINE me == threads[t]
<1> DEFINE s == [me EXCEPT !.todo = todo]
<1>1. Soapy!SoapyTypeOK /\ AllProgress /\ Exclusion /\ RatesWork BY DEF SoapyInv
<1>2. me \in CallStates /\ threads \in [Soapy!Threads -> CallStates] BY <1>1, SoapyTyped
<1>3. threads' = [threads EXCEPT ![t] = s] BY <1>2
<1>4. /\ s \in CallStates /\ s.call = me.call /\ s.locks = me.locks /\ s.holds = me.holds
      /\ s.todo = todo /\ s.restart = me.restart
  <2> HIDE DEF me
  <2> QED BY <1>2 DEF CallStates
<1>5. me.call \in CallKinds /\ Works(me) BY <1>1 DEF AllProgress, Progress, Asked, HalfWay
<1> HIDE DEF s
<1>6. /\ threads' \in [Soapy!Threads -> CallStates] /\ threads'[t] = s
      /\ \A u \in Soapy!Threads: u # t => threads'[u] = threads[u]
  BY <1>1, <1>3, <1>4, CallShape
<1>7. Progress(s) BY <1>4, <1>5 DEF Progress, Works
<1>8. AllProgress' BY <1>1, <1>6, <1>7 DEF AllProgress
<1>9. Exclusion' BY <1>1, <1>4, <1>6 DEF Exclusion
<1>10. ASSUME NEW u \in Soapy!Threads, ~soapyHist'.streamFailed,
              threads'[u].call = "rate", threads'[u].locks = <<>>
       PROVE  RateWork(threads[u])'
  <2>1. CASE u = t BY <1>4, <1>6, <1>10, <2>1 DEF RateWork
  <2>2. CASE u # t
    <3>1. threads[u].call = "rate" /\ threads[u].locks = <<>> BY <1>6, <1>10, <2>2
    <3>2. me.call # "none" /\ me.locks = <<>> BY <1>5 DEF Works, CallKinds, Natives
    <3> QED BY <2>2, <3>1, <3>2, RateIsAlone
  <2> QED BY <2>1, <2>2
<1>11. RatesWork' BY <1>10 DEF RatesWork
<1> QED BY <1>6, <1>8, <1>9, <1>11

\* What a native call does to the device.
LEMMA OnDeviceIs ==
    ASSUME Soapy!SoapyTypeOK, NEW call \in Natives, NEW r \in SoapyRates
    PROVE  /\ Soapy!OnDevice(call, r) \in [on: SUBSET Soapy!Streams, rate: SoapyRates, room: BOOLEAN]
           /\ Soapy!OnDevice(call, r).rate = IF call = "rate" THEN r ELSE native.rate
           /\ Soapy!Noted(call) \in SUBSET Soapy!Streams
<1>1. native \in [on: SUBSET Soapy!Streams, rate: SoapyRates, room: BOOLEAN] /\ active \in SUBSET Soapy!Streams
  BY DEF Soapy!SoapyTypeOK
<1>2. Soapy!Noted(call) \in SUBSET Soapy!Streams BY <1>1 DEF Soapy!Noted, Soapy!Streams
<1>3. CASE call = "rate" BY <1>1, <1>2, <1>3 DEF Soapy!OnDevice
<1>4. CASE call \in {"start_rx", "start_tx", "stop_rx", "stop_tx"}
  <2>1. PICK on \in SUBSET Soapy!Streams: Soapy!OnDevice(call, r) = [native EXCEPT !.on = on]
    <3>1. /\ native.on \cup {"rx"} \in SUBSET Soapy!Streams /\ native.on \cup {"tx"} \in SUBSET Soapy!Streams
          /\ native.on \ {"rx"} \in SUBSET Soapy!Streams /\ native.on \ {"tx"} \in SUBSET Soapy!Streams
      BY <1>1 DEF Soapy!Streams
    <3> QED BY <1>4, <3>1 DEF Soapy!OnDevice
  <2> QED BY <1>1, <1>2, <1>4, <2>1
<1>5. CASE call = "tune" BY <1>1, <1>2, <1>5 DEF Soapy!OnDevice
<1> QED BY <1>3, <1>4, <1>5 DEF Natives

LEMMA NativeCallKeeps ==
    ASSUME Soapy!SoapyParameters, SoapyInv, NEW t \in Soapy!Threads, Soapy!NativeCall(t)
    PROVE  SoapyInv'
<1> DEFINE me == threads[t]
<1> DEFINE call == Head(me.todo)
<1> DEFINE rest == Tail(me.todo)
<1> DEFINE Hist == [calls: Nat, transfers: Nat, fails: Nat, unsure: BOOLEAN, streamFailed: BOOLEAN,
                    lost: BOOLEAN, changed: BOOLEAN]
<1>1. Soapy!SoapyTypeOK /\ AllProgress /\ Exclusion /\ RatesWork /\ Soapy!RateKeepsStreams /\ RateHonest
  BY DEF SoapyInv
<1>2. me \in CallStates /\ active \in SUBSET Soapy!Streams /\ soapyHist \in Hist /\ rateKept \in SoapyRates
  BY <1>1, SoapyTyped
<1>3. me.todo # <<>> BY DEF Soapy!NativeCall
<1>4. call \in Natives /\ rest \in Seq(Natives) /\ me.rate \in SoapyRates /\ me.restart \in SUBSET Soapy!Streams
  BY <1>2, <1>3 DEF CallStates
<1>5. Soapy!StartsOf(me.restart) \in Seq(Natives) BY <1>4, ListsTyped
<1>6. me.call = "rate" /\ ~soapyHist.streamFailed => RateWork(me)
  BY <1>1, <1>3 DEF RatesWork, AllProgress, Progress, Asked, HalfWay, Works
<1>7. /\ Soapy!OnDevice(call, me.rate) \in [on: SUBSET Soapy!Streams, rate: SoapyRates, room: BOOLEAN]
      /\ Soapy!OnDevice(call, me.rate).rate = IF call = "rate" THEN me.rate ELSE native.rate
      /\ Soapy!Noted(call) \in SUBSET Soapy!Streams
  BY <1>1, <1>4, OnDeviceIs
<1>8. CASE /\ native' = Soapy!OnDevice(call, me.rate) /\ active' = Soapy!Noted(call)
           /\ rateKept' = IF call = "rate" THEN me.rate ELSE rateKept
           /\ threads' = [threads EXCEPT ![t].todo =
                              rest \o IF call = "rate" THEN Soapy!StartsOf(me.restart) ELSE <<>>]
           /\ soapyHist' = [soapyHist EXCEPT !.unsure = @ /\ call # "rate"]
  <2> DEFINE todo == rest \o IF call = "rate" THEN Soapy!StartsOf(me.restart) ELSE <<>>
  <2> DEFINE un == soapyHist.unsure /\ call # "rate"
  <2>1. todo \in Seq(Natives)
    <3>1. (IF call = "rate" THEN Soapy!StartsOf(me.restart) ELSE <<>>) \in Seq(Natives) BY <1>5
    <3> QED BY <1>4, <3>1
  <2>2. un \in BOOLEAN /\ soapyHist' = [soapyHist EXCEPT !.unsure = un] BY <1>2, <1>8
  <2>3. /\ soapyHist' \in Hist /\ soapyHist'.unsure = un
        /\ soapyHist'.streamFailed = soapyHist.streamFailed /\ soapyHist'.changed = soapyHist.changed
    <3> HIDE DEF un
    <3> QED BY <1>2, <2>2
  <2>4. ASSUME me.call = "rate", ~soapyHist'.streamFailed
        PROVE  /\ active' \in SUBSET me.restart
               /\ todo = Soapy!StopsOf(active') \o <<"rate">> \/ todo = Soapy!StartsOf(me.restart \ active')
    <3>1. RateWork(me) BY <1>6, <2>3, <2>4
    <3>2. /\ Soapy!Noted(call) \in SUBSET me.restart
          /\ call = "rate"
             => rest \o Soapy!StartsOf(me.restart) \in {Soapy!StartsOf(me.restart \ Soapy!Noted(call))}
          /\ call # "rate" =>
                 rest \in {Soapy!StopsOf(Soapy!Noted(call)) \o <<"rate">>,
                    Soapy!StartsOf(me.restart \ Soapy!Noted(call))}
      <4> HIDE DEF me, call, rest
      <4>1. call = Head(me.todo) /\ rest = Tail(me.todo) BY DEF call, rest
      <4> QED BY <1>2, <1>3, <3>1, <4>1, RateAdvances
    <3>3. CASE call = "rate"
      <4>1. todo = rest \o Soapy!StartsOf(me.restart) BY <3>3
      <4> HIDE DEF todo, call, rest, me
      <4> QED BY <1>8, <3>2, <3>3, <4>1
    <3>4. CASE call # "rate"
      <4>1. todo = rest \o <<>> BY <3>4
      <4>2. todo = rest
        <5> HIDE DEF todo, rest
        <5> QED BY <1>4, <4>1
      <4> HIDE DEF todo, call, rest, me
      <4> QED BY <1>8, <3>2, <3>4, <4>2
    <3> QED BY <3>3, <3>4
  <2>5. threads' = [threads EXCEPT ![t].todo = todo] BY <1>8
  <2> HIDE DEF todo, un
  <2>6. threads' \in [Soapy!Threads -> CallStates] /\ AllProgress' /\ Exclusion' /\ RatesWork'
    BY <1>3, <2>1, <2>4, <2>5, NativeKeeps
  <2>7. rateKept' \in SoapyRates /\ active' \in SUBSET Soapy!Streams BY <1>2, <1>4, <1>7, <1>8
  <2>8. native' \in [on: SUBSET Soapy!Streams, rate: SoapyRates, room: BOOLEAN] BY <1>7, <1>8
  <2>9. Soapy!SoapyTypeOK' BY <2>3, <2>6, <2>7, <2>8 DEF Soapy!SoapyTypeOK, CallStates, LockSets, Natives
  <2>10. Soapy!RateKeepsStreams' BY <1>1, <2>3 DEF Soapy!RateKeepsStreams
  <2>11. RateHonest'
    <3> HIDE DEF call, me
    <3>1. CASE call = "rate" BY <1>7, <1>8, <3>1 DEF RateHonest
    <3>2. CASE call # "rate" BY <1>1, <1>7, <1>8, <2>3, <3>2 DEF RateHonest, un
    <3> QED BY <3>1, <3>2
  <2> QED BY <2>6, <2>9, <2>10, <2>11 DEF SoapyInv
<1>9. CASE /\ native' \in {native, Soapy!OnDevice(call, me.rate)} /\ UNCHANGED active
           /\ rateKept' = IF call = "rate" THEN Soapy!KeptIfFailed(me.rate) ELSE rateKept
           /\ threads' = [threads EXCEPT ![t].todo =
                              IF call = "rate" THEN Soapy!AfterRateError(me.restart) ELSE <<>>]
           /\ soapyHist' = [soapyHist EXCEPT !.fails = @ + 1,
                  !.unsure = @ \/ native'.rate # native.rate,
                  !.streamFailed = @ \/ call \in {"start_rx", "start_tx", "stop_rx", "stop_tx"}]
  <2> DEFINE todo == IF call = "rate" THEN Soapy!AfterRateError(me.restart) ELSE <<>>
  <2> DEFINE f == soapyHist.fails + 1
  <2> DEFINE un == soapyHist.unsure \/ native'.rate # native.rate
  <2> DEFINE sf == soapyHist.streamFailed \/ call \in {"start_rx", "start_tx", "stop_rx", "stop_tx"}
  <2>1. todo \in Seq(Natives) BY <1>5 DEF Soapy!AfterRateError
  <2>2. /\ f \in Nat /\ un \in BOOLEAN /\ sf \in BOOLEAN
        /\ soapyHist' = [soapyHist EXCEPT !.fails = f, !.unsure = un, !.streamFailed = sf]
    <3>1. f \in Nat BY <1>2
    <3>2. un \in BOOLEAN /\ sf \in BOOLEAN BY <1>2
    <3>3. soapyHist' = [soapyHist EXCEPT !.fails = f, !.unsure = un, !.streamFailed = sf] BY <1>9, Zenon
    <3> QED BY <3>1, <3>2, <3>3
  <2>3. /\ soapyHist' \in Hist /\ soapyHist'.unsure = un
        /\ soapyHist'.streamFailed = sf /\ soapyHist'.changed = soapyHist.changed
    <3> HIDE DEF un, f, sf
    <3> QED BY <1>2, <2>2
  <2>4. ASSUME me.call = "rate", ~soapyHist'.streamFailed
        PROVE  /\ active' \in SUBSET me.restart
               /\ todo = Soapy!StopsOf(active') \o <<"rate">> \/ todo = Soapy!StartsOf(me.restart \ active')
    <3>1. ~soapyHist.streamFailed /\ call \notin {"start_rx", "start_tx", "stop_rx", "stop_tx"}
      BY <2>3, <2>4
    <3>2. RateWork(me) BY <1>6, <2>4, <3>1
    <3>3. call = "rate" /\ active = {}
      <4> HIDE DEF me
      <4> QED BY <1>2, <1>3, <3>1, <3>2, RateFails
    <3>4. todo = Soapy!StartsOf(me.restart) BY <3>3 DEF Soapy!AfterRateError
    <3>5. active' = {} BY <1>9, <3>3
    <3>6. me.restart \ active' = me.restart BY <3>5
    <3> HIDE DEF todo, me
    <3> QED BY <3>4, <3>5, <3>6
  <2>5. threads' = [threads EXCEPT ![t].todo = todo] BY <1>9
  <2> HIDE DEF todo, un, f, sf
  <2>6. threads' \in [Soapy!Threads -> CallStates] /\ AllProgress' /\ Exclusion' /\ RatesWork'
    BY <1>3, <2>1, <2>4, <2>5, NativeKeeps
  <2>7. rateKept' = rateKept /\ rateKept' \in SoapyRates /\ active' \in SUBSET Soapy!Streams
    BY <1>2, <1>9 DEF Soapy!KeptIfFailed
  <2>8. native' \in [on: SUBSET Soapy!Streams, rate: SoapyRates, room: BOOLEAN]
    BY <1>1, <1>7, <1>9 DEF Soapy!SoapyTypeOK
  <2>9. Soapy!SoapyTypeOK' BY <2>3, <2>6, <2>7, <2>8 DEF Soapy!SoapyTypeOK, CallStates, LockSets, Natives
  <2>10. Soapy!RateKeepsStreams' BY <1>1, <2>3 DEF Soapy!RateKeepsStreams, sf
  <2>11. RateHonest' BY <1>1, <2>3, <2>7 DEF RateHonest, un
  <2> QED BY <2>6, <2>9, <2>10, <2>11 DEF SoapyInv
<1> QED BY <1>8, <1>9 DEF Soapy!NativeCall

\* The device fills and drains, and its word about that may be lost.
LEMMA RoomKeeps ==
    ASSUME SoapyInv, Soapy!Fills \/ Soapy!Drains \/ Soapy!LosesReady
    PROVE  SoapyInv'
<1> DEFINE f == soapyHist.fails + 1
<1>1. Soapy!SoapyTypeOK /\ AllProgress /\ Exclusion /\ RatesWork /\ Soapy!RateKeepsStreams /\ RateHonest
  BY DEF SoapyInv
<1>2. UNCHANGED <<threads, active, rateKept>> BY DEF Soapy!Fills, Soapy!Drains, Soapy!LosesReady
<1>3. /\ native' \in [on: SUBSET Soapy!Streams, rate: SoapyRates, room: BOOLEAN]
      /\ native'.rate = native.rate
  BY <1>1 DEF Soapy!SoapyTypeOK, Soapy!Fills, Soapy!Drains, Soapy!LosesReady
<1>4. /\ soapyHist' \in [calls: Nat, transfers: Nat, fails: Nat, unsure: BOOLEAN,
                         streamFailed: BOOLEAN, lost: BOOLEAN, changed: BOOLEAN]
      /\ soapyHist'.streamFailed = soapyHist.streamFailed
      /\ soapyHist'.unsure = soapyHist.unsure /\ soapyHist'.changed = soapyHist.changed
  <2>1. /\ soapyHist \in [calls: Nat, transfers: Nat, fails: Nat, unsure: BOOLEAN,
                          streamFailed: BOOLEAN, lost: BOOLEAN, changed: BOOLEAN]
        /\ f \in Nat
    BY <1>1 DEF Soapy!SoapyTypeOK
  <2>2. soapyHist' = soapyHist \/ soapyHist' = [soapyHist EXCEPT !.lost = TRUE, !.fails = f]
    BY DEF Soapy!Fills, Soapy!Drains, Soapy!LosesReady
  <2> HIDE DEF f
  <2> QED BY <2>1, <2>2
<1>5. Soapy!SoapyTypeOK' BY <1>1, <1>2, <1>3, <1>4 DEF Soapy!SoapyTypeOK
<1>6. AllProgress' /\ Exclusion' BY <1>1, <1>2 DEF AllProgress, Exclusion
<1>7. RatesWork' BY <1>1, <1>2, <1>4 DEF RatesWork, RateWork
<1>8. Soapy!RateKeepsStreams' /\ RateHonest' BY <1>1, <1>2, <1>3, <1>4 DEF Soapy!RateKeepsStreams, RateHonest
<1> QED BY <1>5, <1>6, <1>7, <1>8 DEF SoapyInv

LEMMA SoapyStarts ==
    ASSUME Soapy!SoapyParameters, Soapy!SoapyInit
    PROVE  SoapyInv
<1>1. Soapy!NoCall \in CallStates /\ Soapy!NoCall.call = "none" /\ Soapy!NoCall.holds = {} /\ Progress(Soapy!NoCall)
  BY NoCallIs
<1>2. threads \in [Soapy!Threads -> CallStates] /\ \A t \in Soapy!Threads: threads[t] = Soapy!NoCall
  BY <1>1 DEF Soapy!SoapyInit
<1>3. Soapy!Rate0 \in SoapyRates BY DEF Soapy!Rate0, Soapy!SoapyParameters
<1>4. /\ active \subseteq Soapy!Streams /\ rateKept \in SoapyRates
      /\ native \in [on: SUBSET Soapy!Streams, rate: SoapyRates, room: BOOLEAN]
  BY <1>3 DEF Soapy!SoapyInit
<1>5. soapyHist \in [calls: Nat, transfers: Nat, fails: Nat, unsure: BOOLEAN,
                     streamFailed: BOOLEAN, lost: BOOLEAN, changed: BOOLEAN]
  BY DEF Soapy!SoapyInit
<1>6. Soapy!SoapyTypeOK BY <1>2, <1>4, <1>5 DEF Soapy!SoapyTypeOK, CallStates, LockSets, Natives
<1>7. AllProgress /\ Exclusion BY <1>1, <1>2 DEF AllProgress, Exclusion
<1>8. RatesWork BY <1>1, <1>2 DEF RatesWork
<1>9. Soapy!RateKeepsStreams /\ RateHonest BY DEF Soapy!SoapyInit, Soapy!RateKeepsStreams, RateHonest
<1> QED BY <1>6, <1>7, <1>8, <1>9 DEF SoapyInv

LEMMA SoapySteps ==
    ASSUME Soapy!SoapyParameters, SoapyInv, [Soapy!SoapyNext]_(Soapy!soapyVars)
    PROVE  SoapyInv'
<1>1. Soapy!Rate0 \in SoapyRates BY DEF Soapy!Rate0, Soapy!SoapyParameters
<1>2. Soapy!Controllers \subseteq Soapy!Threads /\ "reader" \in Soapy!Threads /\ "writer" \in Soapy!Threads
  BY DEF Soapy!Threads
<1>3. ASSUME NEW t \in Soapy!Controllers, NEW call \in {"start_rx", "stop_rx", "start_tx", "stop_tx"},
             Soapy!Switch(t, call)
      PROVE  SoapyInv'
  <2>1. call \in CallKinds /\ t \in Soapy!Threads BY <1>2 DEF CallKinds, Natives
  <2> QED BY <1>1, <1>3, <2>1, AskSoapyKeeps DEF Soapy!Switch
<1>4. ASSUME NEW t \in Soapy!Controllers, Soapy!SetFrequency(t) PROVE SoapyInv'
  <2>1. "tune" \in CallKinds /\ t \in Soapy!Threads BY <1>2 DEF CallKinds, Natives
  <2> QED BY <1>1, <1>4, <2>1, AskSoapyKeeps DEF Soapy!SetFrequency
<1>5. ASSUME NEW t \in Soapy!Controllers, NEW r \in SoapyRates, Soapy!SetSampleRate(t, r) PROVE SoapyInv'
  <2>1. "rate" \in CallKinds /\ t \in Soapy!Threads BY <1>2 DEF CallKinds, Natives
  <2> QED BY <1>5, <2>1, AskSoapyKeeps DEF Soapy!SetSampleRate
<1>6. ASSUME NEW t \in Soapy!Controllers, Soapy!NativeCall(t) PROVE SoapyInv'
  BY <1>2, <1>6, NativeCallKeeps
<1>7. ASSUME NEW t \in Soapy!Controllers, Soapy!CallEnds(t) PROVE SoapyInv'
  BY <1>2, <1>7, CallEndsKeeps
<1>8. ASSUME NEW t \in Soapy!Threads, Soapy!Acquire(t) PROVE SoapyInv'
  BY <1>8, AcquireKeeps
<1>9. ASSUME Soapy!Read PROVE SoapyInv'
  <2>1. "read" \in CallKinds BY DEF CallKinds
  <2> QED BY <1>1, <1>2, <1>9, <2>1, AskSoapyKeeps DEF Soapy!Read
<1>10. ASSUME Soapy!Write PROVE SoapyInv'
  <2>1. "write" \in CallKinds BY DEF CallKinds
  <2> QED BY <1>1, <1>2, <1>10, <2>1, AskSoapyKeeps DEF Soapy!Write
<1>11. ASSUME Soapy!ReadEnds \/ Soapy!WriteEnds PROVE SoapyInv' BY <1>11, TransferEndsKeeps
<1>12. ASSUME Soapy!Fills \/ Soapy!Drains \/ Soapy!LosesReady PROVE SoapyInv' BY <1>12, RoomKeeps
<1>13. ASSUME UNCHANGED Soapy!soapyVars PROVE SoapyInv'
  <2>1. /\ threads' = threads /\ active' = active /\ rateKept' = rateKept /\ native' = native
        /\ soapyHist' = soapyHist
    BY <1>13 DEF Soapy!soapyVars
  <2>2. Soapy!SoapyTypeOK' BY <2>1 DEF SoapyInv, Soapy!SoapyTypeOK
  <2>3. AllProgress' /\ Exclusion' BY <2>1 DEF SoapyInv, AllProgress, Exclusion
  <2>4. RatesWork' BY <2>1 DEF SoapyInv, RatesWork, RateWork
  <2>5. Soapy!RateKeepsStreams' /\ RateHonest' BY <2>1 DEF SoapyInv, Soapy!RateKeepsStreams, RateHonest
  <2> QED BY <2>2, <2>3, <2>4, <2>5 DEF SoapyInv
<1> QED BY <1>3, <1>4, <1>5, <1>6, <1>7, <1>8, <1>9, <1>10, <1>11, <1>12, <1>13, Zenon DEF Soapy!SoapyNext

\* A thread that has all of its mutexes waits for none; one that has the control mutex
\* waits for those of the streams, which no waiting thread has; the others have none.
LEMMA NobodyWaitsInACircle == ASSUME SoapyInv PROVE Soapy!SoapyNoCircle
<1> SUFFICES ASSUME NEW waiting \in (SUBSET Soapy!Threads) \ {{}}
             PROVE  \E t \in waiting: Soapy!WaitsFor(t) \cap waiting = {}
  BY DEF Soapy!SoapyNoCircle
<1>1. AllProgress /\ waiting \subseteq Soapy!Threads /\ waiting # {} BY DEF SoapyInv
<1>2. CASE \E t \in waiting: threads[t].locks = <<>> BY <1>2 DEF Soapy!WaitsFor
<1>3. CASE \A t \in waiting: threads[t].locks # <<>>
  <2>1. \A t \in waiting: /\ threads[t].call \in CallKinds
                          /\ Asked(threads[t]) \/ HalfWay(threads[t])
    BY <1>1, <1>3 DEF AllProgress, Progress, Works
  <2>2. \A t \in waiting: threads[t].holds \subseteq {"ctrl"} BY <2>1 DEF Asked, HalfWay
  <2>3. CASE \E t \in waiting: HalfWay(threads[t])
    <3>1. PICK t \in waiting: HalfWay(threads[t]) BY <2>3
    <3> DEFINE b == SecondLocks(threads[t].call)
    <3>2. threads[t].locks = <<b>> BY <3>1 DEF HalfWay
    <3>3. "ctrl" \notin b BY DEF SecondLocks
    <3>4. Head(threads[t].locks) = b
      <4> HIDE DEF b
      <4>1. Head(<<b>>) = b BY Heads
      <4> QED BY <3>2, <4>1
    <3> HIDE DEF b
    <3>5. Soapy!WaitsFor(t) \cap waiting = {} BY <2>2, <3>3, <3>4 DEF Soapy!WaitsFor
    <3> QED BY <3>5
  <2>4. CASE \A t \in waiting: ~HalfWay(threads[t])
    <3>1. \A t \in waiting: threads[t].holds = {} BY <2>1, <2>4 DEF Asked
    <3>2. PICK t \in waiting: TRUE BY <1>1
    <3>3. Soapy!WaitsFor(t) \cap waiting = {} BY <3>1 DEF Soapy!WaitsFor
    <3> QED BY <3>3
  <2> QED BY <2>3, <2>4
<1> QED BY <1>2, <1>3

\* The order in which the mutexes are taken lets no threads wait in a circle.
THEOREM SoapyDeadlockFree == ASSUME Soapy!SoapyParameters PROVE Soapy!SoapySpec => []Soapy!SoapyNoCircle
<1>1. Soapy!SoapyInit => SoapyInv BY SoapyStarts
<1>2. SoapyInv /\ [Soapy!SoapyNext]_(Soapy!soapyVars) => SoapyInv' BY SoapySteps
<1>3. SoapyInv => Soapy!SoapyNoCircle BY NobodyWaitsInACircle
<1> QED BY <1>1, <1>2, <1>3, PTL DEF Soapy!SoapySpec

\* A rate change ends with the streams active that it found active, also when the device
\* refused the rate.
THEOREM RateRestoresStreams == ASSUME Soapy!SoapyParameters PROVE Soapy!SoapySpec => []Soapy!RateKeepsStreams
<1>1. Soapy!SoapyInit => SoapyInv BY SoapyStarts
<1>2. SoapyInv /\ [Soapy!SoapyNext]_(Soapy!soapyVars) => SoapyInv' BY SoapySteps
<1>3. SoapyInv => Soapy!RateKeepsStreams BY DEF SoapyInv
<1> QED BY <1>1, <1>2, <1>3, PTL DEF Soapy!SoapySpec

\* Time stamps become nanoseconds by the rate the device has, once one was set and no
\* answer to a rate command is missing.
THEOREM SoapyTimeIsHonest == ASSUME Soapy!SoapyParameters PROVE Soapy!SoapySpec => []Soapy!TimeBaseHonest
<1>1. Soapy!SoapyInit => SoapyInv BY SoapyStarts
<1>2. SoapyInv /\ [Soapy!SoapyNext]_(Soapy!soapyVars) => SoapyInv' BY SoapySteps
<1>3. SoapyInv => Soapy!TimeBaseHonest BY DEF SoapyInv, RateHonest, Soapy!TimeBaseHonest
<1> QED BY <1>1, <1>2, <1>3, PTL DEF Soapy!SoapySpec
=============================================================================
