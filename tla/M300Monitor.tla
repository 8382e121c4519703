----------------------------- MODULE M300Monitor -----------------------------
(***************************************************************************)
(* The IQ monitor of the M300: a window that starts and stops one          *)
(* receiving worker, asks it to take new settings while it streams, and    *)
(* draws the spectra it publishes under the axis of the settings shown.    *)
(* Source: src/example/m300/m300_iq_gui.cpp.  The centre frequency stands  *)
(* for all settings.  The device is external.                              *)
(***************************************************************************)
EXTENDS Naturals, Sequences, FiniteSetsExt

CONSTANTS
    Centers,            \* centre frequencies
    MaxEdits,           \* bound: settings changed, buttons pressed
    MaxSpectra,         \* bound: spectra published
    MaxDeviceFails      \* bound: device calls that fail

MonitorParameters ==
    Centers # {} /\ MaxEdits \in Nat /\ MaxSpectra \in Nat /\ MaxDeviceFails \in Nat

VARIABLES
    window,     \* steps of this frame yet to do, cfg.center_mhz, auto_init_ad9361, the
                \* `running` read as the frame began
    preview,    \* PreviewState: its flags, pending_config, the spectrum and its generation
    worker,     \* the thread: where it is, its cfg, stream_guard's _started
    m300,       \* the device: streaming, its centre frequency
    display,    \* SpectrumDisplayState: last generation, its centre, rows per centre
    spentIn     \* bounds, and the calls that failed

monitorVars == <<window, preview, worker, m300, display, spentIn>>

MonitorInit ==
    \E auto \in BOOLEAN:
      LET c == CHOOSE k \in Centers: TRUE IN
        /\ window = [steps |-> <<>>, center |-> c, auto |-> auto, running |-> FALSE]
        /\ preview = [running |-> FALSE, stop |-> FALSE, reconfigure |-> FALSE,
                      pending |-> c, spectrum |-> c, generation |-> 0]
        /\ worker = [at |-> "none", center |-> c, started |-> FALSE]
        /\ m300 = [streaming |-> FALSE, center |-> c]
        /\ display = [generation |-> 0, center |-> c, rows |-> [k \in Centers |-> 0]]
        /\ spentIn = [edits |-> 0, fails |-> 0]

Fails == spentIn.fails < MaxDeviceFails /\ spentIn' = [spentIn EXCEPT !.fails = @ + 1]
Smooth == UNCHANGED spentIn

-----------------------------------------------------------------------------
(* a frame: an edit or a button as its steps, and the drawing at its end *)

\* Mutant: the worker is told before it can read what to take.
FlagFirst == <<"flag", "pending", "clear">>
RequestSteps == <<"pending", "flag", "clear">>
StopSteps == <<"stop", "join">>
RestartSteps == StopSteps \o <<"start", "clear">>

\* The frame's own copy of `running` decides what is enabled and done.
Begin(running, c, steps) ==
    /\ window.steps = <<>> /\ preview.running = running /\ spentIn.edits < MaxEdits
    /\ window' = [window EXCEPT !.steps = steps \o <<"draw">>, !.center = c,
                                !.running = running]
    /\ spentIn' = [spentIn EXCEPT !.edits = @ + 1]
    /\ UNCHANGED <<preview, worker, m300, display>>
EditRunning(c) == Begin(TRUE, c, RequestSteps)
EditIdle(c) == c # window.center /\ Begin(FALSE, c, <<>>)
OtherBase == Begin(TRUE, window.center, RestartSteps)
Connect == Begin(FALSE, window.center, <<"start">>)
Disconnect == Begin(TRUE, window.center, StopSteps)
Draw ==
    /\ window.steps = <<>> /\ preview.generation # display.generation
    /\ window' = [window EXCEPT !.steps = <<"draw">>]
    /\ UNCHANGED <<preview, worker, m300, display, spentIn>>
CloseWindow ==
    /\ window.steps = <<>> /\ spentIn.edits < MaxEdits
    /\ window' = [window EXCEPT !.steps = StopSteps \o <<"gone">>]
    /\ spentIn' = [spentIn EXCEPT !.edits = @ + 1]
    /\ UNCHANGED <<preview, worker, m300, display>>

AtStep(s) == window.steps # <<>> /\ Head(window.steps) = s /\ s # "gone"
Go == window' = [window EXCEPT !.steps = Tail(@)] /\ Smooth

WritePending ==
    /\ AtStep("pending") /\ Go /\ preview' = [preview EXCEPT !.pending = window.center]
    /\ UNCHANGED <<worker, m300, display>>
RaiseFlag ==
    /\ AtStep("flag") /\ Go /\ preview' = [preview EXCEPT !.reconfigure = TRUE]
    /\ UNCHANGED <<worker, m300, display>>
RaiseStop ==
    /\ AtStep("stop") /\ Go /\ preview' = [preview EXCEPT !.stop = TRUE]
    /\ UNCHANGED <<worker, m300, display>>
JoinWorker ==
    /\ AtStep("join") /\ worker.at \in {"none", "ended"} /\ Go
    /\ worker' = [worker EXCEPT !.at = "none"] /\ UNCHANGED <<preview, m300, display>>

\* Mutant: a worker that ended by itself is not joined.
NotJoined == worker.at
JoinedFirst == IF worker.at = "ended" THEN "none" ELSE worker.at
\* A thread object assigned while it holds a thread ends the program.
StartPreview ==
    /\ AtStep("start") /\ UNCHANGED <<m300, display>>
    /\ IF preview.running THEN Go /\ UNCHANGED <<preview, worker>>
       ELSE /\ Go
            /\ preview' = [preview EXCEPT !.pending = window.center, !.stop = FALSE,
                                          !.reconfigure = FALSE, !.running = TRUE]
            /\ worker' = IF JoinedFirst = "none"
                         THEN [at |-> "open", center |-> window.center, started |-> FALSE]
                         ELSE [worker EXCEPT !.at = "terminated"]

NoRows == [k \in Centers |-> 0]
Clear ==
    /\ AtStep("clear") /\ Go /\ display' = [display EXCEPT !.rows = NoRows]
    /\ UNCHANGED <<preview, worker, m300>>
\* Mutant: only a request clears the rows.
NeverMoved == FALSE
Moved == display.center # window.center
\* Another centre clears the rows; then a spectrum not yet shown becomes one.
Consume ==
    LET rows == IF Moved THEN NoRows ELSE display.rows
        fresh == preview.generation # display.generation IN
    /\ AtStep("draw") /\ Go /\ UNCHANGED <<preview, worker, m300>>
    /\ display' = [generation |-> preview.generation, center |-> window.center,
                   rows |-> IF fresh THEN [rows EXCEPT ![preview.spectrum] = @ + 1] ELSE rows]

-----------------------------------------------------------------------------
(* rx_worker *)

At(place) == worker.at = place
Goes(place) == worker' = [worker EXCEPT !.at = place]
Throws == Fails /\ Goes("unwind")

OpenDevice ==
    /\ At("open") /\ UNCHANGED <<window, preview, m300, display>>
    /\ \/ Smooth /\ Goes("configure")
       \/ Throws
\* configure_ad9361 when it is wanted, the stream's own settings always.
Tuned == [m300 EXCEPT !.center = worker.center]
Configure ==
    /\ At("configure") /\ UNCHANGED <<window, preview, display>>
    /\ \/ Smooth /\ Goes("start") /\ m300' = IF window.auto THEN Tuned ELSE m300
       \/ Throws /\ m300' \in {m300, IF window.auto THEN Tuned ELSE m300}
\* The first stream begins at the loop's test, later ones at its recv.
StartStream(from, to) ==
    /\ At(from) /\ UNCHANGED <<window, preview, display>>
    /\ \/ /\ Smooth /\ m300' = [m300 EXCEPT !.streaming = TRUE]
          /\ worker' = [worker EXCEPT !.at = to, !.started = TRUE]
       \/ Throws /\ m300' \in {m300, [m300 EXCEPT !.streaming = TRUE]}

Loop ==
    /\ At("loop") /\ Smooth /\ UNCHANGED <<window, m300, display>>
    /\ IF preview.stop THEN Goes("finish") /\ UNCHANGED preview
       ELSE IF preview.reconfigure THEN Goes("take") /\ preview' = [preview EXCEPT !.reconfigure = FALSE]
       ELSE Goes("recv") /\ UNCHANGED preview
TakePending ==
    /\ At("take") /\ worker' = [worker EXCEPT !.at = "requiet", !.center = preview.pending]
    /\ Smooth /\ UNCHANGED <<window, preview, m300, display>>
\* Mutant: a guard stops nothing.
LeftOn == m300
Off == [m300 EXCEPT !.streaming = FALSE]
\* stream_guard's stop: both of its commands, or what a failure of one leaves.
GuardStops ==
    \/ Smooth /\ m300' = IF worker.started THEN Off ELSE m300
    \/ worker.started /\ Fails /\ m300' \in {m300, Off}
Quiet(from, to) ==
    /\ At(from) /\ GuardStops /\ worker' = [worker EXCEPT !.at = to, !.started = FALSE]
    /\ UNCHANGED <<window, preview, display>>
Reconfigure ==
    /\ At("reconfigure") /\ UNCHANGED <<window, preview, display>>
    /\ \/ Smooth /\ Goes("restart") /\ m300' = IF window.auto THEN Tuned ELSE m300
       \/ Throws /\ m300' \in {m300, IF window.auto THEN Tuned ELSE m300}

\* Nothing, samples enough for a spectrum, or an exception.
Recv ==
    /\ At("recv") /\ UNCHANGED <<window, preview, m300, display>>
    /\ \/ Smooth /\ Goes("loop")
       \/ Smooth /\ preview.generation < MaxSpectra /\ Goes("publish")
       \/ Throws
Publish ==
    /\ At("publish") /\ Goes("loop") /\ Smooth /\ UNCHANGED <<window, m300, display>>
    /\ preview' = [preview EXCEPT !.spectrum = m300.center, !.generation = @ + 1]
WorkerEnds ==
    /\ At("ending") /\ Goes("ended") /\ Smooth /\ UNCHANGED <<window, m300, display>>
    /\ preview' = [preview EXCEPT !.running = FALSE]

MonitorNext ==
    \/ \E c \in Centers: EditRunning(c) \/ EditIdle(c)
    \/ OtherBase \/ Connect \/ Disconnect \/ Draw \/ CloseWindow
    \/ WritePending \/ RaiseFlag \/ RaiseStop \/ JoinWorker \/ StartPreview \/ Clear \/ Consume
    \/ OpenDevice \/ Configure \/ StartStream("start", "loop") \/ Loop
    \/ TakePending \/ Quiet("requiet", "reconfigure") \/ Reconfigure
    \/ StartStream("restart", "recv") \/ Recv \/ Publish
    \/ Quiet("finish", "ending") \/ Quiet("unwind", "ending") \/ WorkerEnds

-----------------------------------------------------------------------------
(* properties *)

MonitorTypeOK ==
    /\ window.steps \in Seq(STRING) /\ Len(window.steps) < 8
    /\ window.center \in Centers /\ {window.auto, window.running} \subseteq BOOLEAN
    /\ preview \in [running: BOOLEAN, stop: BOOLEAN, reconfigure: BOOLEAN,
                    pending: Centers, spectrum: Centers, generation: 0..MaxSpectra]
    /\ worker \in [at: {"none", "open", "configure", "start", "loop", "take", "requiet",
                        "reconfigure", "restart", "recv", "publish", "finish", "unwind",
                        "ending", "ended", "terminated"},
                   center: Centers, started: BOOLEAN]
    /\ m300 \in [streaming: BOOLEAN, center: Centers]
    /\ display.rows \in [Centers -> 0..MaxSpectra] /\ display.generation \in 0..MaxSpectra

\* A worker that receives, with no request it has yet to see, streams with the
\* settings asked for last.
AskedIsApplied ==
    (worker.at = "recv" /\ window.steps = <<>> /\ window.auto /\ ~preview.reconfigure)
        => m300.streaming /\ m300.center = window.center

\* No worker, no stream, unless a call failed; a worker that streams has a stream,
\* and one that ended is joined before the next.
NoStreamLeft ==
    /\ worker.at # "terminated"
    /\ worker.at \in {"none", "ending", "ended"} /\ spentIn.fails = 0 => ~m300.streaming

\* After a change at most two rows are of the settings before it: the spectrum
\* published already, and the one that was on its way.
OldRowsBounded ==
    window.steps = <<>> /\ window.auto
        => MapThenSumSet(LAMBDA c: display.rows[c], Centers \ {window.center}) <= 2
=============================================================================
