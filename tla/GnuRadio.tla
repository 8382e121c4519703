------------------------------ MODULE GnuRadio ------------------------------
(***************************************************************************)
(* The GNU Radio source and sink on one device context: the scheduler's    *)
(* thread of each block, and a third thread that calls the setters.        *)
(* Source: src/gnuradio/lib.                                               *)
(*                                                                         *)
(* A block has its own mutex (d_mutex) and shares the context's            *)
(* (control_mutex) with the other block.  Both are derived from where the  *)
(* threads are: only the sections that ask for a second lock while holding *)
(* one take more than one step.  The scheduler calls start, work and stop  *)
(* of a block in one thread.  "freq" stands for every setting of a block   *)
(* but the sample rate, which the blocks share.  A command that failed was *)
(* executed or not when its call returns, and is not executed later.       *)
(***************************************************************************)
EXTENDS Naturals

CONSTANTS
    Rates, Tunings,     \* sample rates, other settings
    MaxSets,            \* bound: calls of a setter
    MaxFails            \* bound: device commands that fail

GnuRadioParameters ==
    /\ Rates # {} /\ Tunings # {}
    /\ MaxSets \in Nat /\ MaxFails \in Nat

VARIABLES
    context,    \* the shared device_context: common_configured and sample_rate
    dev,        \* what the device is set to
    block,      \* the blocks and where their threads are
    gui,        \* the setter under way
    hist,       \* history: the block that configured last, and a rate command failed
    used        \* bounds

gnuVars == <<context, dev, block, gui, hist, used>>

Blocks == {"rx", "tx"}
NoSetter == [at |-> "idle", block |-> "rx"]
AnyRate == CHOOSE r \in Rates: TRUE
AnyTuning == CHOOSE f \in Tunings: TRUE
NoCopy == [rate |-> AnyRate, freq |-> AnyTuning]
Fresh ==
    [at |-> "stopped", streaming |-> FALSE, dirty |-> TRUE, delayed |-> FALSE,
     rate |-> AnyRate, freq |-> AnyTuning, snap |-> NoCopy]

GnuRadioInit ==
    /\ context = [common |-> FALSE, rate |-> AnyRate]
    /\ dev \in [rate: {AnyRate}, freq: [Blocks -> {AnyTuning}]]
    /\ block = [b \in Blocks |-> Fresh] /\ gui = NoSetter
    /\ hist = [last |-> "none", unsure |-> FALSE] /\ used = [sets |-> 0, fails |-> 0]

\* d_mutex is kept by a setter or a start or stop that waits for control_mutex.
MutexFree(b) == ~(gui.at # "idle" /\ gui.block = b) /\ block[b].at \notin {"start", "arm", "stop"}
\* control_mutex is kept by a thread that waits for d_mutex to clear its flag.
ControlFree == \A b \in Blocks: block[b].at # "clear"

Wanted(b) == [rate |-> block[b].rate, freq |-> block[b].freq]
ThreadTo(b, place) == block' = [block EXCEPT ![b].at = place]

-----------------------------------------------------------------------------
(* device_context *)

\* configure_common_locked: the commands are left out if the rate is the one set.
RateSkipped(r) == context.common /\ context.rate = r

CommonConfigured(b, r) ==
    /\ context' = [common |-> TRUE, rate |-> r]
    /\ hist' = [last |-> b, unsure |-> hist.unsure /\ RateSkipped(r)]
RateNow(r) == IF RateSkipped(r) THEN dev.rate ELSE r

\* configure_rx_locked, configure_tx_locked.
Configured(b, r, f) ==
    /\ CommonConfigured(b, r)
    /\ dev' = [rate |-> RateNow(r), freq |-> [dev.freq EXCEPT ![b] = f]]
    /\ UNCHANGED used

\* A command throws: it may have been executed or not.
CommandFailed(b, r, f) ==
    /\ used.fails < MaxFails /\ used' = [used EXCEPT !.fails = @ + 1]
    /\ \/ /\ ~RateSkipped(r) /\ UNCHANGED context
          /\ hist' = [hist EXCEPT !.unsure = TRUE]
          /\ \E now \in {dev.rate, r}: dev' = [dev EXCEPT !.rate = now]
       \/ /\ CommonConfigured(b, r)
          /\ \E now \in {dev.freq[b], f}:
                dev' = [rate |-> RateNow(r), freq |-> [dev.freq EXCEPT ![b] = now]]

-----------------------------------------------------------------------------
(* start, stop and work of a block *)

Start(b) ==
    /\ block[b].at = "stopped" /\ MutexFree(b) /\ ThreadTo(b, "start")
    /\ UNCHANGED <<context, dev, gui, hist, used>>

\* apply_settings_locked; if it throws the flow graph does not start.
StartApplies(b) ==
    /\ block[b].at = "start" /\ ControlFree
    /\ \/ /\ Configured(b, block[b].rate, block[b].freq)
          /\ block' = [block EXCEPT ![b].at = "arm", ![b].dirty = FALSE,
                                    ![b].delayed = FALSE]
       \/ CommandFailed(b, block[b].rate, block[b].freq) /\ ThreadTo(b, "stopped")
    /\ UNCHANGED gui

\* control_mutex is taken anew for the commands that start the stream.
StartStream(b) ==
    /\ block[b].at = "arm" /\ ControlFree
    /\ \/ /\ block' = [block EXCEPT ![b].at = "work", ![b].streaming = TRUE]
          /\ UNCHANGED used
       \/ /\ used.fails < MaxFails /\ used' = [used EXCEPT !.fails = @ + 1]
          /\ ThreadTo(b, "stopped")
    /\ UNCHANGED <<context, dev, gui, hist>>

Stop(b) ==
    /\ block[b].at = "work" /\ MutexFree(b) /\ ThreadTo(b, "stop")
    /\ UNCHANGED <<context, dev, gui, hist, used>>

StopStream(b) ==
    /\ block[b].at = "stop" /\ ControlFree
    /\ block' = [block EXCEPT ![b].at = "stopped", ![b].streaming = FALSE]
    /\ UNCHANGED <<context, dev, gui, hist, used>>

\* apply_pending_settings: the settings are copied; after a failure only when
\* the delay is over.
CopySettings(b) ==
    /\ block[b].at = "work" /\ MutexFree(b)
    /\ \/ /\ block[b].dirty
          /\ block' = [block EXCEPT ![b].at = "apply",
                                    ![b].snap = Wanted(b)]
       \/ (~block[b].dirty \/ block[b].delayed) /\ ThreadTo(b, "run")
    /\ UNCHANGED <<context, dev, gui, hist, used>>

ApplyCopy(b) ==
    /\ block[b].at = "apply" /\ ControlFree
    /\ \/ Configured(b, block[b].snap.rate, block[b].snap.freq) /\ ThreadTo(b, "clear")
       \/ CommandFailed(b, block[b].snap.rate, block[b].snap.freq) /\ ThreadTo(b, "retry")
    /\ UNCHANGED gui

\* Mutant: the flag is cleared whatever was set meanwhile.
AnyCopy(b) == TRUE
CopyIsCurrent(b) == block[b].snap = Wanted(b)

ClearDirty(b) ==
    /\ block[b].at = "clear" /\ MutexFree(b)
    /\ block' = [block EXCEPT ![b].at = "run", ![b].snap = NoCopy,
                              ![b].dirty = @ /\ ~CopyIsCurrent(b),
                              ![b].delayed = @ /\ ~CopyIsCurrent(b)]
    /\ UNCHANGED <<context, dev, gui, hist, used>>

DelayRetry(b) ==
    /\ block[b].at = "retry" /\ MutexFree(b)
    /\ block' = [block EXCEPT ![b].at = "run", ![b].snap = NoCopy, ![b].delayed = TRUE]
    /\ UNCHANGED <<context, dev, gui, hist, used>>

\* The source receives, the sink sends, and work is called again.
Transfer(b) ==
    /\ block[b].at = "run" /\ MutexFree(b) /\ ThreadTo(b, "work")
    /\ UNCHANGED <<context, dev, gui, hist, used>>

-----------------------------------------------------------------------------
(* the setters *)

\* Mutant: a setter applies its value itself whether the block streams or not.
ApplyNow(b) == TRUE
NotStreaming(b) == ~block[b].streaming

Setter(b, set, place) ==
    /\ gui.at = "idle" /\ MutexFree(b)
    /\ used.sets < MaxSets /\ used' = [used EXCEPT !.sets = @ + 1]
    /\ block' = [block EXCEPT ![b] = set]
    /\ gui' = IF NotStreaming(b) THEN [at |-> place, block |-> b] ELSE NoSetter
    /\ UNCHANGED <<context, dev, hist>>

Changed(b) == [block[b] EXCEPT !.dirty = TRUE, !.delayed = FALSE]
SetSampleRate(b, r) == Setter(b, [Changed(b) EXCEPT !.rate = r], "set_rate")
SetCenterFreq(b, f) == Setter(b, [Changed(b) EXCEPT !.freq = f], "set_freq")

\* set_sample_rate configures the common part only; all of it follows at start.
SetterApplies ==
    LET b == gui.block  f == IF gui.at = "set_rate" THEN dev.freq[b] ELSE block[b].freq IN
    /\ gui.at # "idle" /\ ControlFree /\ gui' = NoSetter
    /\ \/ Configured(b, block[b].rate, f) /\ block' = [block EXCEPT ![b].dirty = FALSE]
       \/ CommandFailed(b, block[b].rate, f) /\ UNCHANGED block

-----------------------------------------------------------------------------

BlockSteps(b) ==
    \/ StartApplies(b) \/ StartStream(b) \/ StopStream(b) \/ CopySettings(b)
    \/ ApplyCopy(b) \/ ClearDirty(b) \/ DelayRetry(b) \/ Transfer(b)

GnuRadioNext ==
    \/ \E b \in Blocks:
          \/ Start(b) \/ Stop(b) \/ BlockSteps(b)
          \/ \E r \in Rates: SetSampleRate(b, r)
          \/ \E f \in Tunings: SetCenterFreq(b, f)
    \/ SetterApplies

GnuRadioSpec == GnuRadioInit /\ [][GnuRadioNext]_gnuVars

-----------------------------------------------------------------------------
(* properties *)

BlockStates ==
    [at: {"stopped", "start", "arm", "stop", "work", "apply", "clear", "retry", "run"},
     streaming: BOOLEAN, dirty: BOOLEAN, delayed: BOOLEAN, rate: Rates, freq: Tunings,
     snap: [rate: Rates, freq: Tunings]]

GnuRadioTypeOK ==
    /\ context \in [common: BOOLEAN, rate: Rates]
    /\ dev \in [rate: Rates, freq: [Blocks -> Tunings]]
    /\ block \in [Blocks -> BlockStates]
    /\ gui \in [at: {"idle", "set_rate", "set_freq"}, block: Blocks]
    /\ used.sets <= MaxSets /\ used.fails <= MaxFails

\* When a block streams and its flag is clear, the device has the block's own
\* settings, and its sample rate too if the other block did not set it since.
\* (After a failed rate command the rate is not known: going back to the rate
\* the context remembers sends no command.)
CleanIsApplied ==
    \A b \in Blocks:
        block[b].streaming /\ ~block[b].dirty =>
            /\ dev.freq[b] = block[b].freq
            /\ hist.last = b /\ ~hist.unsure => dev.rate = block[b].rate

\* The two mutexes are taken in both orders, and still no setter waits for ever:
\* it asks for the second only while the block's thread cannot ask for both.
NoCircularWait == \A b \in Blocks: ~(gui.at # "idle" /\ gui.block = b /\ block[b].at = "clear")
=============================================================================
