---------------------------- MODULE SdrangelInput ----------------------------
(***************************************************************************)
(* The SDRangel input: its own flag, the worker's flag, the worker thread  *)
(* and what the device does.                                               *)
(* Source: src/sdrangel/iqtaxiinput.cpp, iqtaxi_backend.cpp and            *)
(* iqtaxi_worker.cpp.                                                      *)
(*                                                                         *)
(* The calls of the input are under its mutex, so there is one at a time.  *)
(* The settings are the address, the sample rate and those written while   *)
(* the stream runs, hot.  A device call that fails throws and may have     *)
(* been executed.  recv ends by its timeout, so a join ends.  Left out:    *)
(* deserialize(), which writes the settings without mutex and without      *)
(* applying them, and setters that copy them before they lock.             *)
(***************************************************************************)
EXTENDS Naturals

CONSTANTS
    MaxAsked,       \* bound: calls of SDRangel
    MaxExceptions   \* bound: device and stream calls that throw

SdrangelParameters == MaxAsked \in Nat /\ MaxExceptions \in Nat

VARIABLES
    input,      \* IqtaxiInput: _running, _settings, its call and what comes next in it
    worker,     \* IqtaxiWorker: _running, _settings, thread, address of its device, stream
    rig,        \* the device: whether it streams, its settings
    shown       \* history and bounds, see the properties

sdrangelVars == <<input, worker, rig, shown>>

Settings == [addr: {0, 1}, rate: {0, 1}, hot: {0, 1}]
AtFirst == [addr |-> 0, rate |-> 0, hot |-> 0]
NoDevice == 2

SdrangelInit ==
    /\ input = [running |-> FALSE, settings |-> AtFirst, at |-> "idle", next |-> "idle",
                starting |-> FALSE]
    /\ worker = [running |-> FALSE, settings |-> AtFirst, thread |-> "none",
                 device |-> NoDevice, stream |-> FALSE]
    /\ rig = [on |-> FALSE, settings |-> AtFirst]
    /\ shown = [asked |-> 0, thrown |-> 0, told |-> FALSE, unsure |-> FALSE,
                overwritten |-> FALSE, unstopped |-> FALSE]

Ask(h) == h.asked < MaxAsked /\ shown' = [h EXCEPT !.asked = @ + 1]
Go(place) == input' = [input EXCEPT !.at = place]
\* The call returns; start keeps the result as the input's flag.
Return(ok) == input' = [input EXCEPT !.at = "idle", !.starting = FALSE,
                            !.running = IF input.starting THEN ok ELSE @]
\* A call throws; the handler tells the GUI, by on_error.
Throws(h) == shown.thrown < MaxExceptions /\ shown' = [h EXCEPT !.thrown = @ + 1]
Tells(h) == [h EXCEPT !.told = TRUE]
Fails(h) == Throws(Tells(h)) /\ Return(FALSE)

-----------------------------------------------------------------------------
(* start, stop, applySettings of the input *)

\* A started input does not look whether anything still runs.
Start ==
    /\ input.at = "idle" /\ UNCHANGED rig
    /\ IF input.running THEN Ask(shown) /\ UNCHANGED <<input, worker>>
       ELSE /\ Ask([shown EXCEPT !.told = FALSE])
            /\ input' = [input EXCEPT !.at = "open", !.starting = TRUE]
            /\ worker' = [worker EXCEPT !.settings = input.settings]

\* stop_stream: the flag is exchanged; where it was set the thread is joined.
StopStream(call) ==
    /\ input' = [call EXCEPT !.at = IF worker.running THEN "join" ELSE "drop"]
    /\ worker' = [worker EXCEPT !.running = FALSE]

Stop ==
    /\ input.at = "idle" /\ Ask(shown) /\ UNCHANGED rig
    /\ StopStream([input EXCEPT !.next = "close"])

\* A call without a change returns at once; the input keeps what the worker refuses.
Apply(s) ==
    LET call == [input EXCEPT !.settings = s] IN
    /\ input.at = "idle" /\ s # input.settings /\ Ask(shown) /\ UNCHANGED rig
    /\ IF ~worker.running THEN input' = call /\ UNCHANGED worker
       ELSE IF s.addr # worker.settings.addr THEN StopStream([call EXCEPT !.next = "reopen"])
       ELSE IF s.rate # worker.settings.rate THEN StopStream([call EXCEPT !.next = "configure"])
       ELSE /\ input' = [call EXCEPT !.at = IF s = worker.settings THEN "idle" ELSE "hot"]
            /\ UNCHANGED worker

Join ==
    /\ input.at = "join" /\ worker.thread \in {"ended", "none"}
    /\ worker' = [worker EXCEPT !.thread = "none"] /\ Go(input.next)
    /\ UNCHANGED <<rig, shown>>

\* Without the flag only a leftover stream is stopped and dropped.
Drop ==
    /\ input.at = "drop" /\ Go(input.next) /\ worker' = [worker EXCEPT !.stream = FALSE]
    /\ rig' = [rig EXCEPT !.on = @ /\ ~worker.stream] /\ UNCHANGED shown

Close ==
    /\ input.at = "close"
    /\ input' = [input EXCEPT !.at = "idle", !.running = FALSE]
    /\ worker' = [worker EXCEPT !.device = NoDevice, !.stream = FALSE]
    /\ UNCHANGED <<rig, shown>>

Reopen ==
    /\ input.at = "reopen" /\ Go("open")
    /\ worker' = [worker EXCEPT !.device = NoDevice, !.stream = FALSE, !.settings = input.settings]
    /\ UNCHANGED <<rig, shown>>

\* open_device.  A start whose stream failed has kept the device and its lease,
\* which the next start meets: it fails, and lets go of it.
OpenDevice ==
    /\ input.at = "open"
    /\ IF worker.device = input.settings.addr
       THEN /\ worker' = [worker EXCEPT !.device = NoDevice] /\ UNCHANGED rig
            /\ shown' = Tells(shown) /\ Return(FALSE)
       ELSE \/ /\ worker' = [worker EXCEPT !.device = input.settings.addr]
               /\ rig' = [rig EXCEPT !.settings = input.settings]
               /\ shown' = [shown EXCEPT !.unsure = FALSE] /\ Go("stream")
            \/ /\ worker' = [worker EXCEPT !.device = NoDevice] /\ Fails(shown)
               /\ \E s \in {rig.settings, input.settings}: rig' = [rig EXCEPT !.settings = s]

\* Mutant: only the rate is written again.
RateOnly == [rig.settings EXCEPT !.rate = input.settings.rate]
\* The rate, the frequency and the gain.
Configured == input.settings

ConfigureDevice ==
    /\ input.at = "configure" /\ worker' = [worker EXCEPT !.settings = input.settings]
    /\ \/ /\ rig' = [rig EXCEPT !.settings = Configured]
          /\ shown' = [shown EXCEPT !.unsure = FALSE] /\ Go("stream")
       \/ /\ \E s \in {rig.settings, Configured}: rig' = [rig EXCEPT !.settings = s]
          /\ Fails([shown EXCEPT !.unsure = TRUE])

\* A thread object that was not joined must not be assigned.
StartStream ==
    /\ input.at = "stream"
    /\ \/ /\ rig' = [rig EXCEPT !.on = TRUE] /\ Return(TRUE)
          /\ worker' = [worker EXCEPT !.running = TRUE, !.stream = TRUE, !.thread = "loop"]
          /\ shown' = [shown EXCEPT !.overwritten = @ \/ worker.thread # "none"]
       \/ /\ \E on \in {rig.on, TRUE}: rig' = [rig EXCEPT !.on = on]
          /\ worker' = [worker EXCEPT !.stream = FALSE]
          /\ Fails([shown EXCEPT !.unstopped = TRUE])

\* Frequency and gain while the stream runs; some of it may be done when it fails.
HotApply ==
    /\ input.at = "hot"
    /\ \/ /\ rig' = [rig EXCEPT !.settings = input.settings]
          /\ worker' = [worker EXCEPT !.settings = input.settings] /\ UNCHANGED shown /\ Go("idle")
       \/ /\ \E s \in {rig.settings, input.settings}: rig' = [rig EXCEPT !.settings = s]
          /\ UNCHANGED worker /\ Fails([shown EXCEPT !.unsure = TRUE])

-----------------------------------------------------------------------------
(* worker_loop *)

\* Mutant: an exception of recv ends the thread silently.
Silent(h) == h
Report(h) == Tells(h)

Loop ==
    /\ worker.thread = "loop" /\ UNCHANGED <<input, rig, shown>>
    /\ worker' = [worker EXCEPT !.thread = IF worker.running THEN "recv" ELSE "ending"]

Receive ==
    /\ worker.thread = "recv" /\ UNCHANGED <<input, rig>>
    /\ \/ worker' = [worker EXCEPT !.thread = "loop"] /\ UNCHANGED shown
       \/ worker' = [worker EXCEPT !.thread = "ending"] /\ Throws(Report(shown))

\* Mutant: a thread that ends clears the flag.
Cleared == FALSE
\* The flag stays, so that the next stop joins the thread.
FlagKept == worker.running

\* The thread stops the stream itself and drops it.
ThreadEnds ==
    /\ worker.thread = "ending" /\ UNCHANGED input
    /\ worker' = [worker EXCEPT !.thread = "ended", !.stream = FALSE, !.running = FlagKept]
    /\ \/ rig' = [rig EXCEPT !.on = FALSE] /\ UNCHANGED shown
       \/ /\ \E on \in BOOLEAN: rig' = [rig EXCEPT !.on = on]
          /\ Throws([shown EXCEPT !.unstopped = TRUE])

SdrangelNext ==
    \/ Start \/ Stop \/ \E s \in Settings: Apply(s)
    \/ Join \/ Drop \/ Close \/ Reopen \/ OpenDevice \/ ConfigureDevice \/ StartStream \/ HotApply
    \/ Loop \/ Receive \/ ThreadEnds

SdrangelSpec == SdrangelInit /\ [][SdrangelNext]_sdrangelVars

-----------------------------------------------------------------------------
(* properties *)

SdrangelTypeOK ==
    /\ input \in [running: BOOLEAN, settings: Settings, starting: BOOLEAN,
                  at: {"idle", "open", "join", "drop", "close", "reopen", "configure", "stream", "hot"},
                  next: {"idle", "close", "reopen", "configure"}]
    /\ worker \in [running: BOOLEAN, settings: Settings, device: {0, 1, NoDevice}, stream: BOOLEAN,
                   thread: {"none", "loop", "recv", "ending", "ended"}]
    /\ rig \in [on: BOOLEAN, settings: Settings]
    /\ shown \in [asked: Nat, thrown: Nat, told: BOOLEAN, unsure: BOOLEAN, overwritten: BOOLEAN,
                  unstopped: BOOLEAN]

\* A worker thread is joined before the next one begins, and a stopped input has no
\* thread and no stream, and a quiet device unless the command itself failed.
WorkerJoined ==
    /\ ~shown.overwritten
    /\ (input.at = "idle" /\ ~input.running) =>
            worker.thread = "none" /\ ~worker.stream /\ (rig.on => shown.unstopped)

\* An input that says it runs has a thread that receives, or the GUI was told since
\* its start: recv may have thrown, or a change of its settings have failed half-way.
RunningOrTold ==
    (input.at = "idle" /\ input.running) =>
        worker.thread \in {"loop", "recv"} \/ shown.told

\* What runs has the settings the input shows, unless a command of them failed and
\* no reconfiguration has succeeded since.
SettingsShown ==
    (input.at = "idle" /\ worker.running /\ ~shown.unsure) => rig.settings = input.settings
=============================================================================
