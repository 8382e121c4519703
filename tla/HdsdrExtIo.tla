----------------------------- MODULE HdsdrExtIo -----------------------------
(***************************************************************************)
(* The HDSDR plug-in (its Windows build): the calls of HDSDR, a thread     *)
(* that receives and fills buffers, and a thread that hands the buffers to *)
(* HDSDR's callback, which may itself call the plug-in.                    *)
(* Source: src/HDSDR/ExtIO_ANTSDR.cpp.                                     *)
(*                                                                         *)
(* Sections under the state's mutex are single steps, and so are those     *)
(* under the buffers' mutex; only the sleep of the callback thread and the *)
(* failed start, which holds the mutex while it joins, are spread out.     *)
(* The frequency stands for both deferred settings; the sample rate is     *)
(* modelled by what it does to the threads.                                *)
(***************************************************************************)
EXTENDS Naturals, Sequences, FiniteSets

CONSTANTS
    Tunings,        \* frequencies
    NumBuffers,     \* kNumCallbackBuffers
    MaxCalls,       \* bound: calls of HDSDR
    MaxFails        \* bound: calls of the device and thread creations that fail

HdsdrParameters ==
    Tunings # {} /\ NumBuffers \in Nat \ {0} /\ MaxCalls \in Nat /\ MaxFails \in Nat

VARIABLES
    gui,        \* the call of HDSDR's own thread under way
    dev,        \* the device is open, and the frequency it has
    flags,      \* running, rx_stream, stop_rx, stop_cb
    tune,       \* lo_hz and pending_lo
    rx,         \* the receiving thread
    cb,         \* the callback threads: the one started last and one it outlived
    cbNow,      \* the one whose handle is kept
    free, filled,   \* the two queues of buffer indices
    hist,       \* history: frequencies asked for, buffers and threads handed on, see below
    budget      \* bounds

hdsdrVars == <<gui, dev, flags, tune, rx, cb, cbNow, free, filled, hist, budget>>

Workers == {1, 2}
NoRx == [at |-> "none", lo |-> 0, buf |-> 0]
NoCb == [at |-> "none", buf |-> 0, call |-> "none"]
At(place) == [at |-> place, lo |-> 0, close |-> FALSE]

FirstLo == CHOOSE f \in Tunings: TRUE

HdsdrInit ==
    /\ gui = At("idle") /\ dev = [open |-> FALSE, lo |-> 0]
    /\ flags = [running |-> FALSE, stream |-> FALSE, stopRx |-> FALSE, stopCb |-> FALSE]
    /\ tune = [lo |-> FirstLo, pending |-> FALSE]
    /\ rx = NoRx /\ cb = [k \in Workers |-> NoCb] /\ cbNow = 0
    /\ free = <<>> /\ filled = <<>>
    /\ hist = [asked |-> {FirstLo}, twice |-> {}, orphans |-> {}, loose |-> FALSE]
    /\ budget = [calls |-> 0, fails |-> 0]

\* A failed start holds the mutex for ever while it waits for a thread.
MutexFree == gui.at # "start_fail"
\* The callback thread holds the buffers' mutex until it sleeps.
BuffersFree == \A k \in Workers: cb[k].at # "doze"
InCallback == \E k \in Workers: cb[k].at = "deliver"

Called == budget.calls < MaxCalls /\ budget' = [budget EXCEPT !.calls = @ + 1]
Failing == budget.fails < MaxFails /\ budget' = [budget EXCEPT !.fails = @ + 1]
CalledFailing ==
    /\ budget.calls < MaxCalls /\ budget.fails < MaxFails
    /\ budget' = [budget EXCEPT !.calls = @ + 1, !.fails = @ + 1]
GoTo(place) == gui' = [gui EXCEPT !.at = place]
Stopped(f) == [f EXCEPT !.running = FALSE, !.stream = FALSE]

\* History.  asked: the last frequency that was asked for while no change was under
\* way and those asked for since, with what the device had when one of them failed.
\* twice: the buffers a thread held when the queues were last filled anew.  orphans:
\* the callback threads whose handle a start gave up.  loose: a callback thread was
\* left alone by a call that failed, or stopped a source that was being started.
LoUnderWay ==
    \/ gui.at \in {"lo_depth", "lo_defer", "lo_set"} \/ tune.pending
    \/ rx.at = "apply" \/ \E k \in Workers: cb[k].call = "defer"
Asked(fs) == hist' = [hist EXCEPT !.asked = (IF LoUnderWay THEN @ ELSE {}) \cup fs]
LoFailed == hist' = [hist EXCEPT !.asked = @ \cup {dev.lo}]
Held == ({rx.buf} \cup {cb[k].buf: k \in Workers}) \ {0}
NotTold == cbNow # 0 /\ ~flags.stopCb
Wake(ws) == [k \in Workers |-> IF cb[k].at = "asleep" /\ k \in ws
                               THEN [cb[k] EXCEPT !.at = "check"] ELSE cb[k]]

-----------------------------------------------------------------------------
(* OpenHW, StartHW *)

OpenHW ==
    /\ gui.at = "idle" /\ ~dev.open
    /\ dev' = [open |-> TRUE, lo |-> tune.lo]
    /\ Asked({tune.lo})
    /\ UNCHANGED <<gui, flags, tune, rx, cb, cbNow, free, filled, budget>>

\* Mutant: the deferred frequency is forgotten before the device is configured
\* with the new one.
ForgetFirst(f) == dev' = [dev EXCEPT !.lo = tune.lo] /\ tune' = [lo |-> f, pending |-> FALSE]
\* configure_rf_locked with the new frequency, then pending_lo is cleared.
Configure(f) == dev' = [dev EXCEPT !.lo = f] /\ tune' = [lo |-> f, pending |-> FALSE]

\* A call of the device that throws has set the frequency or not.
SetOrNot(f) == dev' \in {dev, [dev EXCEPT !.lo = f]}

StartHW(f) ==
    /\ gui.at = "idle" /\ dev.open /\ ~flags.running
    /\ \/ /\ Called /\ Configure(f)
          /\ flags' = [flags EXCEPT !.stream = TRUE, !.running = TRUE]
          /\ Asked({f}) /\ GoTo("start_rx")
       \/ /\ CalledFailing /\ tune' = [tune EXCEPT !.lo = f]
          /\ flags' = Stopped(flags) /\ SetOrNot(f)
          /\ Asked({f, dev.lo}) /\ UNCHANGED gui
    /\ UNCHANGED <<rx, cb, cbNow, free, filled>>

\* start_rx_thread: the earlier thread is gone (its wait gives up after five
\* seconds, which is left out); a failed creation ends the call.
StartRxThread(place, next) ==
    /\ gui.at = place /\ rx.at = "none"
    /\ \/ /\ flags' = [flags EXCEPT !.stopRx = FALSE]
          /\ rx' = [NoRx EXCEPT !.at = "setup"] /\ GoTo(next) /\ UNCHANGED <<budget, hist>>
       \/ /\ Failing /\ flags' = [Stopped(flags) EXCEPT !.stopRx = FALSE]
          /\ gui' = At("idle") /\ UNCHANGED rx
          /\ hist' = [hist EXCEPT !.loose = @ \/ NotTold]
    /\ UNCHANGED <<dev, tune, cb, cbNow, free, filled>>

\* start_cb_thread: reap_cb_thread waits five seconds for an earlier thread and
\* gives up; then the queues are filled anew and the thread is started.
Reaped(k) == IF k = 0 THEN TRUE ELSE cb[k].at = "none"
StartCbThread ==
    LET k == IF cbNow = 1 THEN 2 ELSE 1 IN
    /\ gui.at = "start_cb" /\ BuffersFree /\ cb[k].at = "none"
    /\ free' = [i \in 1..NumBuffers |-> i] /\ filled' = <<>>
    /\ \/ /\ cb' = [cb EXCEPT ![k] = [NoCb EXCEPT !.at = "check"]]
          /\ flags' = [flags EXCEPT !.stopCb = FALSE]
          /\ cbNow' = k /\ gui' = At("idle") /\ UNCHANGED budget
       \/ /\ Failing /\ GoTo("start_fail")
          /\ flags' = [flags EXCEPT !.stopRx = TRUE, !.stopCb = FALSE]
          /\ cbNow' = 0 /\ UNCHANGED cb
    /\ hist' = [hist EXCEPT !.twice = Held,
                            !.orphans = (@ \ {k}) \cup (IF Reaped(cbNow) THEN {} ELSE {cbNow})]
    /\ UNCHANGED <<dev, tune, rx>>

\* The failed start joins the receiving thread with the mutex held.
StartFailed ==
    /\ gui.at = "start_fail" /\ rx.at = "none"
    /\ flags' = Stopped(flags) /\ gui' = At("idle")
    /\ UNCHANGED <<dev, tune, rx, cb, cbNow, free, filled, hist, budget>>

-----------------------------------------------------------------------------
(* StopHW, CloseHW, ExtIoSetSrate *)

RequestStop == flags' = [flags EXCEPT !.stopRx = TRUE]

StopHW ==
    /\ gui.at = "idle" /\ flags.running /\ Called
    /\ RequestStop /\ gui' = At("stop_rx")
    /\ UNCHANGED <<dev, tune, rx, cb, cbNow, free, filled, hist>>

\* Mutant: only a source that runs has threads to join.
CloseIfRunning ==
    gui' = [At(IF flags.running THEN "stop_rx" ELSE "stop_end") EXCEPT !.close = TRUE]
CloseInSteps == gui' = [At("stop_rx") EXCEPT !.close = TRUE]

\* CloseHW also stops what is left of a stream that does not run.
CloseHW ==
    /\ gui.at = "idle" /\ dev.open /\ Called
    /\ RequestStop /\ CloseInSteps
    /\ UNCHANGED <<dev, tune, rx, cb, cbNow, free, filled, hist>>

JoinRx ==
    /\ gui.at \in {"stop_rx", "rate_rx"} /\ rx.at = "none"
    /\ GoTo(IF gui.at = "stop_rx" THEN "stop_cb" ELSE "rate_set")
    /\ UNCHANGED <<dev, flags, tune, rx, cb, cbNow, free, filled, hist, budget>>

\* stop_cb is set and the callback threads are notified, without their mutex: a
\* thread that has looked and does not sleep yet misses it.
SignalCb ==
    /\ gui.at = "stop_cb" /\ GoTo("join_cb")
    /\ flags' = [flags EXCEPT !.stopCb = TRUE] /\ cb' = Wake(Workers)
    /\ UNCHANGED <<dev, tune, rx, cbNow, free, filled, hist, budget>>

\* Mutant: the callback thread is not waited for.
NotWaited == TRUE
CbGone == Reaped(cbNow)
JoinCb ==
    /\ gui.at = "join_cb" /\ CbGone /\ cbNow' = 0 /\ GoTo("stop_end")
    /\ hist' = [hist EXCEPT !.loose = @ /\ \E k \in Workers: cb[k].at # "none"]
    /\ UNCHANGED <<dev, flags, tune, rx, cb, free, filled, budget>>

StopEnd ==
    /\ gui.at = "stop_end" /\ flags' = Stopped(flags) /\ gui' = At("idle")
    /\ dev' = [dev EXCEPT !.open = @ /\ ~gui.close]
    /\ UNCHANGED <<tune, rx, cb, cbNow, free, filled, hist, budget>>

\* Refused inside the callback; otherwise the receiving thread is stopped, and
\* only that one.
SetSrate ==
    /\ gui.at = "idle" /\ ~InCallback /\ flags.running /\ Called
    /\ RequestStop /\ gui' = At("rate_rx")
    /\ UNCHANGED <<dev, tune, rx, cb, cbNow, free, filled, hist>>

\* The stream is released and the rate set; a failure returns here.
SetRate ==
    /\ gui.at = "rate_set"
    /\ \/ /\ flags' = [flags EXCEPT !.stream = TRUE, !.running = TRUE]
          /\ GoTo("rate_go") /\ UNCHANGED <<hist, budget>>
       \/ /\ Failing /\ flags' = Stopped(flags) /\ gui' = At("idle")
          /\ hist' = [hist EXCEPT !.loose = @ \/ NotTold]
    /\ UNCHANGED <<dev, tune, rx, cb, cbNow, free, filled>>

-----------------------------------------------------------------------------
(* SetHWLO *)

\* The value is exchanged; whoever calls with the value there is returns.
SetHWLO(f) ==
    /\ gui.at = "idle" /\ f # tune.lo /\ Called
    /\ tune' = [tune EXCEPT !.lo = f] /\ gui' = [At("lo_depth") EXCEPT !.lo = f]
    /\ Asked({f}) /\ UNCHANGED <<dev, flags, rx, cb, cbNow, free, filled>>

\* in_host_callback() looks at the whole process.
LookDepth ==
    /\ gui.at = "lo_depth" /\ GoTo(IF InCallback THEN "lo_defer" ELSE "lo_set")
    /\ UNCHANGED <<dev, flags, tune, rx, cb, cbNow, free, filled, hist, budget>>

DeferLo ==
    /\ gui.at = "lo_defer" /\ gui' = At("idle") /\ tune' = [tune EXCEPT !.pending = TRUE]
    /\ UNCHANGED <<dev, flags, rx, cb, cbNow, free, filled, hist, budget>>

\* The device directly.  A deferred change under way is lost or comes after it.
SetLo ==
    /\ gui.at = "lo_set" /\ gui' = At("idle")
    /\ \/ /\ dev' = [dev EXCEPT !.lo = IF dev.open THEN gui.lo ELSE @]
          /\ tune' = [tune EXCEPT !.pending = FALSE] /\ UNCHANGED <<hist, budget>>
       \/ /\ dev.open /\ Failing /\ SetOrNot(gui.lo) /\ LoFailed /\ UNCHANGED tune
    /\ UNCHANGED <<flags, rx, cb, cbNow, free, filled>>

-----------------------------------------------------------------------------
(* rx_worker *)

RxExit == rx' = NoRx
RxTo(place) == rx' = [NoRx EXCEPT !.at = place]

RxSetup ==
    /\ rx.at = "setup" /\ MutexFree
    /\ IF flags.stream THEN RxTo("loop") ELSE RxExit
    /\ UNCHANGED <<gui, dev, flags, tune, cb, cbNow, free, filled, hist, budget>>

\* apply_pending_rf_updates: first the flag, then the value.
TakePending ==
    rx' = [rx EXCEPT !.at = "apply", !.lo = tune.lo] /\ tune' = [tune EXCEPT !.pending = FALSE]

RxLoop ==
    /\ rx.at = "loop"
    /\ IF flags.stopRx THEN RxExit /\ UNCHANGED tune
       ELSE /\ MutexFree
            /\ IF dev.open /\ tune.pending THEN TakePending ELSE RxTo("fetch") /\ UNCHANGED tune
    /\ UNCHANGED <<gui, dev, flags, cb, cbNow, free, filled, hist, budget>>

\* Without the mutex; a failure is dropped.
ApplyPending ==
    /\ rx.at = "apply" /\ RxTo("fetch") /\ UNCHANGED tune
    /\ \/ dev' = [dev EXCEPT !.lo = rx.lo] /\ UNCHANGED <<hist, budget>>
       \/ Failing /\ SetOrNot(rx.lo) /\ LoFailed
    /\ UNCHANGED <<gui, flags, cb, cbNow, free, filled>>

FetchStream ==
    /\ rx.at = "fetch" /\ MutexFree
    /\ IF flags.stream THEN RxTo("recv") ELSE RxExit
    /\ UNCHANGED <<gui, dev, flags, tune, cb, cbNow, free, filled, hist, budget>>

\* A block is complete, or more has to be received, or the stream is restarted.
RxRecv ==
    /\ rx.at = "recv" /\ (RxTo("loop") \/ RxTo("block"))
    /\ UNCHANGED <<gui, dev, flags, tune, cb, cbNow, free, filled, hist, budget>>

\* If all buffers are busy the block is dropped.
TakeFree ==
    /\ rx.at = "block" /\ BuffersFree
    /\ IF free = <<>> THEN RxTo("loop") /\ UNCHANGED free
       ELSE rx' = [rx EXCEPT !.at = "fill", !.buf = Head(free)] /\ free' = Tail(free)
    /\ UNCHANGED <<gui, dev, flags, tune, cb, cbNow, filled, hist, budget>>

\* Mutant: the index is pushed without the buffers' mutex.
PushUnlocked == TRUE
PushLocked == BuffersFree
PushFilled ==
    /\ rx.at = "fill" /\ PushLocked
    /\ filled' = Append(filled, rx.buf) /\ RxTo("loop")
    /\ \/ (\A k \in Workers: cb[k].at # "asleep") /\ UNCHANGED cb
       \/ \E k \in Workers: cb[k].at = "asleep" /\ cb' = Wake({k})
    /\ UNCHANGED <<gui, dev, flags, tune, cbNow, free, hist, budget>>

-----------------------------------------------------------------------------
(* callback_worker and the calls HDSDR makes in its callback *)

CbTo(k, place) == cb' = [cb EXCEPT ![k].at = place]

CbCheck(k) ==
    /\ cb[k].at = "check" /\ BuffersFree
    /\ IF filled # <<>>
       THEN /\ cb' = [cb EXCEPT ![k].at = "look", ![k].buf = Head(filled)]
            /\ filled' = Tail(filled)
       ELSE CbTo(k, IF flags.stopCb THEN "none" ELSE "doze") /\ UNCHANGED filled
    /\ UNCHANGED <<gui, dev, flags, tune, rx, cbNow, free, hist, budget>>

CbSleep(k) ==
    /\ cb[k].at = "doze" /\ CbTo(k, "asleep")
    /\ UNCHANGED <<gui, dev, flags, tune, rx, cbNow, free, filled, hist, budget>>

\* Which callback it is stands under the state's mutex.
CbLook(k) ==
    /\ cb[k].at = "look" /\ MutexFree /\ CbTo(k, "deliver")
    /\ UNCHANGED <<gui, dev, flags, tune, rx, cbNow, free, filled, hist, budget>>

CbReturns(k) ==
    /\ cb[k].at = "deliver" /\ cb[k].call = "none" /\ CbTo(k, "give")
    /\ UNCHANGED <<gui, dev, flags, tune, rx, cbNow, free, filled, hist, budget>>

CbGive(k) ==
    /\ cb[k].at = "give" /\ BuffersFree
    /\ free' = Append(free, cb[k].buf)
    /\ cb' = [cb EXCEPT ![k].at = "check", ![k].buf = 0]
    /\ UNCHANGED <<gui, dev, flags, tune, rx, cbNow, filled, hist, budget>>

\* SetHWLO inside the callback is deferred.
CallbackLo(k, f) ==
    /\ cb[k].at = "deliver" /\ cb[k].call = "none" /\ f # tune.lo /\ Called
    /\ tune' = [tune EXCEPT !.lo = f] /\ cb' = [cb EXCEPT ![k].call = "defer"]
    /\ Asked({f}) /\ UNCHANGED <<gui, dev, flags, rx, cbNow, free, filled>>
CallbackDefers(k) ==
    /\ cb[k].call = "defer" /\ cb' = [cb EXCEPT ![k].call = "none"]
    /\ tune' = [tune EXCEPT !.pending = TRUE]
    /\ UNCHANGED <<gui, dev, flags, rx, cbNow, free, filled, hist, budget>>

\* Calls of HDSDR's thread that start the receiving thread.
Starting == {"start_rx", "start_cb", "rate_rx", "rate_set", "rate_go"}

\* StopHW inside the callback joins the receiving thread but not its own.
CallbackStop(k) ==
    /\ cb[k].at = "deliver" /\ cb[k].call = "none" /\ k = cbNow /\ MutexFree
    /\ flags.running /\ Called /\ RequestStop
    /\ cb' = [cb EXCEPT ![k].call = "stop_rx"]
    /\ hist' = [hist EXCEPT !.loose = @ \/ gui.at \in Starting]
    /\ UNCHANGED <<gui, dev, tune, rx, cbNow, free, filled>>
CallbackJoins(k) ==
    /\ cb[k].call = "stop_rx" /\ rx.at = "none"
    /\ flags' = [flags EXCEPT !.stopCb = TRUE]
    /\ cb' = [Wake(Workers) EXCEPT ![k].call = "stop_end"]
    /\ UNCHANGED <<gui, dev, tune, rx, cbNow, free, filled, hist, budget>>
CallbackStopped(k) ==
    /\ cb[k].call = "stop_end" /\ MutexFree
    /\ flags' = Stopped(flags) /\ cb' = [cb EXCEPT ![k].call = "none"]
    /\ UNCHANGED <<gui, dev, tune, rx, cbNow, free, filled, hist, budget>>

-----------------------------------------------------------------------------

GuiCalls == OpenHW \/ StopHW \/ CloseHW \/ SetSrate \/ \E f \in Tunings: StartHW(f) \/ SetHWLO(f)
GuiSteps ==
    \/ StartRxThread("start_rx", "start_cb") \/ StartRxThread("rate_go", "idle")
    \/ StartCbThread \/ StartFailed
    \/ JoinRx \/ SignalCb \/ JoinCb \/ StopEnd \/ SetRate
    \/ LookDepth \/ DeferLo \/ SetLo
RxSteps ==
    RxSetup \/ RxLoop \/ ApplyPending \/ FetchStream \/ RxRecv \/ TakeFree \/ PushFilled
CbSteps(k) ==
    \/ CbCheck(k) \/ CbSleep(k) \/ CbLook(k) \/ CbReturns(k) \/ CbGive(k)
    \/ CallbackDefers(k) \/ CallbackJoins(k) \/ CallbackStopped(k)

HdsdrNext ==
    \/ GuiCalls \/ GuiSteps \/ RxSteps
    \/ \E k \in Workers: CbSteps(k) \/ CallbackStop(k) \/ \E f \in Tunings: CallbackLo(k, f)

HdsdrSpec == HdsdrInit /\ [][HdsdrNext]_hdsdrVars

-----------------------------------------------------------------------------
(* properties *)

HdsdrTypeOK ==
    /\ dev.open \in BOOLEAN /\ tune.lo \in Tunings /\ tune.pending \in BOOLEAN
    /\ flags \in [running: BOOLEAN, stream: BOOLEAN, stopRx: BOOLEAN, stopCb: BOOLEAN]
    /\ rx.at \in {"none", "setup", "loop", "apply", "fetch", "recv", "block", "fill"}
    /\ \A k \in Workers:
          cb[k].at \in {"none", "check", "doze", "asleep", "look", "deliver", "give"}
    /\ cbNow \in {0} \cup Workers
    /\ hist.asked \subseteq Tunings /\ hist.orphans \subseteq Workers
    /\ budget.calls <= MaxCalls /\ budget.fails <= MaxFails

Used(q, i) == Cardinality({n \in DOMAIN q: q[n] = i})
Places(i) ==
    Used(free, i) + Used(filled, i) + (IF rx.buf = i THEN 1 ELSE 0)
    + Cardinality({k \in Workers: cb[k].buf = i})

\* A buffer is in one place only, so it is never filled while HDSDR reads it; but one
\* that a thread held when the last start filled the queues anew has two.
BuffersOnce == \A i \in (1..NumBuffers) \ hist.twice: Places(i) <= 1

\* HDSDR is called back by the thread whose handle is kept, and by those that a start
\* gave up on after five seconds.
OneCaller == \A k \in Workers: cb[k].at # "none" => k = cbNow \/ k \in hist.orphans

\* Once a source does not run, no thread is left but a callback thread told to end,
\* unless one got loose; and once it is closed none at all, also of those.
NobodyLeft ==
    gui.at = "idle" =>
        /\ ~flags.running /\ ~hist.loose =>
              rx.at = "none" /\ \A k \in Workers \ hist.orphans: cb[k].at = "none" \/ flags.stopCb
        /\ ~dev.open => rx.at = "none" /\ \A k \in Workers \ hist.orphans: cb[k].at = "none"

\* The callback threads do not all sleep while a block waits for HDSDR.
BlocksNoticed ==
    filled # <<>> /\ (\E k \in Workers: cb[k].at # "none")
    => \E k \in Workers: cb[k].at \notin {"none", "asleep"}

HostCallbacksSafe == BuffersOnce /\ OneCaller /\ NobodyLeft /\ BlocksNoticed

\* When no change is under way the device has the frequency that was asked for; if
\* changes met each other, that of one of them, and after a failure perhaps the one
\* before, but never an older one.
LoApplied ==
    /\ tune.lo \in hist.asked
    /\ dev.open /\ ~LoUnderWay => dev.lo \in hist.asked
=============================================================================
