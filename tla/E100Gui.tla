------------------------------- MODULE E100Gui -------------------------------
(***************************************************************************)
(* The console of the E100: a window whose buttons start and stop a        *)
(* receiving thread, a sending thread and a firmware update, change rate,  *)
(* frequency and TX source under them, and show spectra.                   *)
(* Source: src/example/e100/e100_gui.cpp.  The window's thread runs the    *)
(* handler of one button to its end; the handler is its list of steps yet  *)
(* to do, and the threads run between two of them.  The board is external. *)
(***************************************************************************)
EXTENDS Naturals, Sequences

CONSTANTS
    RateSet, LoSet, SizeSet,    \* sample rates, RX and TX LO and the gains, FFT sizes
    MaxPressed, MaxFailed       \* bounds: buttons pressed, commands that fail

GuiParameters ==
    /\ RateSet # {} /\ LoSet # {} /\ SizeSet # {}
    /\ MaxPressed \in Nat /\ MaxFailed \in Nat

VARIABLES
    todo,       \* the steps the handler has yet to do, and whether a try is around it
    options,    \* _cfg, _spectrum_fft_size, _running_tx_source
    live,       \* what is true of the window: _connected and the other flags,
                \* the device, its streams, the monitoring thread of the TX stream
    threads,    \* the three std::threads, and the size of the spectrum in work
    e100,       \* the board: receiving, sending, its source, rate and frequencies
    shown,      \* spectra shown of each FFT size, two or more count as two
    woes,       \* what a failed command left unsettled, and an update begun "early"
    pressed,    \* bounds
    over        \* how the program ended

guiVars == <<todo, options, live, threads, e100, shown, woes, pressed, over>>

NoRows == [s \in SizeSet |-> 0]

GuiInit ==
    /\ todo = [steps |-> <<>>, caught |-> FALSE]
    /\ options = [source |-> "iq", running |-> "iq", rate |-> CHOOSE r \in RateSet: TRUE,
                  lo |-> CHOOSE f \in LoSet: TRUE, size |-> CHOOSE s \in SizeSet: TRUE]
    /\ live = [connected |-> FALSE, rx |-> FALSE, tx |-> FALSE, streams |-> FALSE,
               monitor |-> FALSE, abort |-> FALSE, update |-> FALSE, finished |-> FALSE]
    /\ threads = [rx |-> "none", tx |-> "none", update |-> "none", size |-> options.size]
    /\ e100 = [rx |-> FALSE, tx |-> FALSE, source |-> "iq", rate |-> options.rate,
               word |-> options.rate, lo |-> options.lo]
    /\ shown = NoRows /\ woes = {} /\ over = "no"
    /\ pressed = [buttons |-> 0, failed |-> 0]

Set(record, field, value) == [record EXCEPT ![field] = value]

-----------------------------------------------------------------------------
(* handlers as steps *)

StopTx == <<"stopTx">>
StopRx == <<"stopRx">>
StopBoth == StopTx \o StopRx
Disconnect == StopBoth \o <<"drop">>
\* Mutant: the streams are stopped when their settings are through.
AppliedFirst == <<"commands", "streams", "source">> \o StopBoth
\* restart_rx and restart_tx are read at its begin, with the flags.
ApplySettings ==
    (IF live.tx THEN StopTx ELSE <<>>) \o (IF live.rx THEN StopRx ELSE <<>>)
    \o <<"commands", "streams", "source">>
    \o (IF live.rx THEN <<"startRx">> ELSE <<>>) \o (IF live.tx THEN <<"startTx">> ELSE <<>>)

\* The step at hand; what the handler goes on with; an exception.
AtStep(s) == over = "no" /\ todo.steps # <<>> /\ Head(todo.steps) = s
Go(more) == todo' = [todo EXCEPT !.steps = more \o Tail(@)]
Smooth == UNCHANGED <<pressed, over>>
Fails == pressed.failed < MaxFailed /\ pressed' = Set(pressed, "failed", pressed.failed + 1)
\* Nothing catches what StopTx throws in a handler without a try, nor in the destructor.
Throws ==
    /\ Fails /\ todo' = [todo EXCEPT !.steps = <<>>]
    /\ over' = IF todo.caught THEN over ELSE "exception"

Press(steps, caught) ==
    /\ over = "no" /\ todo.steps = <<>> /\ pressed.buttons < MaxPressed
    /\ todo' = [steps |-> steps, caught |-> caught]
    /\ pressed' = Set(pressed, "buttons", pressed.buttons + 1)
    /\ UNCHANGED <<over, threads, e100, shown, woes, live>>
KeepOptions == UNCHANGED options

PressConnect ==
    ~live.connected /\ KeepOptions /\ Press(Disconnect \o <<"open", "apply">>, TRUE)
PressDisconnect == live.connected /\ KeepOptions /\ Press(Disconnect, FALSE)
PressStartRx == ~live.rx /\ KeepOptions /\ Press(<<"startRx">>, TRUE)
PressStopRx == live.rx /\ KeepOptions /\ Press(StopRx, FALSE)
PressStartTx == ~live.tx /\ KeepOptions /\ Press(<<"startTx">>, TRUE)
PressStopTx == live.tx /\ KeepOptions /\ Press(StopTx, FALSE)
PressUpdate ==
    /\ ~live.update /\ KeepOptions
    /\ Press(<<"refresh", "checkUpdate">> \o StopBoth \o <<"startUpdate">>, TRUE)
\* A rate is applied with everything else, the frequencies and gains one by one.
ChooseRate(r) ==
    /\ options' = Set(options, "rate", r)
    /\ Press(IF live.connected THEN <<"apply">> ELSE <<>>, TRUE)
ChooseLo(f) ==
    /\ options' = Set(options, "lo", f)
    /\ Press(IF live.connected THEN <<"tune">> ELSE <<>>, TRUE)
\* The list is off while TX runs; the handler looks once more.
ChooseSource(s) ==
    /\ ~live.tx /\ options' = Set(options, "source", s)
    /\ Press(IF live.connected /\ live.streams THEN <<"source">> ELSE <<>>, TRUE)
ChooseDds ==
    /\ options.source = "dds" /\ KeepOptions
    /\ Press(IF live.connected /\ live.streams THEN <<"source">> ELSE <<>>, TRUE)
\* Mutant: the old spectra go before the new size is in place.
ClearFirst == <<"clearRows", "setSize">>
SizeSteps == <<"setSize", "clearRows">>
ChooseSize(s) ==
    /\ s # options.size /\ Press(SizeSteps, TRUE) /\ KeepOptions
Close ==
    /\ KeepOptions /\ Press(<<"waitUpdate">> \o StopBoth \o Disconnect \o <<"end">>, FALSE)

-----------------------------------------------------------------------------
(* steps of the handlers *)

\* stop_tx: the flag; a stream that ran is released, its monitor ended, a DDS silenced.
\* Mutant: a send that waits for the board is not released.
NotReleased(l) == Set(Set(l, "tx", FALSE), "monitor", FALSE)
Released(l) == [l EXCEPT !.tx = FALSE, !.monitor = FALSE, !.abort = live.streams]
TakeTxFlag ==
    /\ AtStep("stopTx") /\ Smooth
    /\ live' = IF live.tx THEN Released(live) ELSE live
    /\ Go((IF live.tx /\ live.streams /\ options.running = "dds" THEN <<"silence">> ELSE <<>>)
          \o <<"joinTx">> \o IF live.tx /\ live.streams THEN <<"quietTx">> ELSE <<>>)
    /\ UNCHANGED <<options, threads, e100, shown, woes>>
Unsent == IF \E i \in DOMAIN todo.steps: todo.steps[i] = "commands" THEN {"settings"} ELSE {}
Silence ==
    /\ AtStep("silence") /\ UNCHANGED <<options, live, threads, shown>>
    /\ \/ Smooth /\ Go(<<>>) /\ e100' = Set(e100, "source", "iq") /\ UNCHANGED woes
       \/ Throws /\ e100' \in {e100, Set(e100, "source", "iq")} /\ woes' = woes \cup {"source", "tx"} \cup Unsent

Ended(t) == threads[t] \in {"none", "ended"}
Join(step, t) ==
    /\ AtStep(step) /\ Ended(t) /\ Smooth /\ Go(<<>>)
    /\ threads' = Set(threads, t, "none")
    /\ UNCHANGED <<options, live, e100, shown, woes>>
\* set_stream_tx_stop, set_recv_param and set_rx_mode_exit: caught where they fail.
Quiet(step, t) ==
    /\ AtStep(step) /\ Go(<<>>) /\ UNCHANGED <<over, options, live, threads, shown>>
    /\ \/ UNCHANGED pressed /\ e100' = Set(e100, t, FALSE) /\ woes' = woes \ {t}
       \/ Fails /\ e100' \in {e100, Set(e100, t, FALSE)} /\ woes' = woes \cup {t}
TakeRxFlag ==
    /\ AtStep("stopRx") /\ Smooth /\ live' = Set(live, "rx", FALSE)
    /\ Go(<<"joinRx">> \o IF live.streams THEN <<"quietRx">> ELSE <<>>)
    /\ UNCHANGED <<options, threads, e100, shown, woes>>

\* Streams and device are destroyed: a monitoring thread ends with its stream.
Drop ==
    /\ AtStep("drop") /\ Smooth /\ Go(<<>>)
    /\ live' = [live EXCEPT !.connected = FALSE, !.streams = FALSE, !.monitor = FALSE, !.abort = FALSE]
    /\ UNCHANGED <<options, threads, e100, shown, woes>>
Open ==
    /\ AtStep("open") /\ UNCHANGED <<options, threads, e100, shown, woes>>
    /\ \/ Smooth /\ Go(<<>>) /\ live' = Set(live, "connected", TRUE)
       \/ Throws /\ UNCHANGED live
Apply ==
    /\ AtStep("apply") /\ Smooth /\ Go(ApplySettings)
    /\ UNCHANGED <<options, live, threads, e100, shown, woes>>
\* Channel, DMA mode, the rate and its reading back; then frequencies, gains, amplifier.
SendSettings ==
    /\ AtStep("commands") /\ UNCHANGED <<options, live, threads, shown>>
    /\ LET rated == Set(e100, "rate", options.rate)
           tuned == Set(rated, "lo", options.lo) IN
       \/ Smooth /\ Go(<<>>) /\ e100' = tuned /\ woes' = woes \ {"settings", "lo"}
       \/ Throws /\ e100' \in {e100, rated, tuned} /\ woes' = woes \cup {"settings", "lo"}
TuneLo ==
    /\ AtStep("tune") /\ UNCHANGED <<options, live, threads, shown>>
    /\ LET tuned == Set(e100, "lo", options.lo) IN
       \/ Smooth /\ Go(<<>>) /\ e100' = tuned /\ woes' = woes \ {"lo"}
       \/ Throws /\ e100' \in {e100, tuned} /\ woes' = woes \cup {"lo"}
\* The device has one stream of a kind: a new pointer to the same.
GetStreams ==
    /\ AtStep("streams") /\ Smooth /\ Go(<<>>) /\ live' = Set(live, "streams", TRUE)
    /\ UNCHANGED <<options, threads, e100, shown, woes>>

\* configure_tx_source: the DDS word is of the rate there is.
\* Mutant: a word computed once is kept.
KeptWord == e100.word
WordNow == options.rate
ConfigureSource ==
    /\ AtStep("source") /\ UNCHANGED <<options, live, threads, shown>>
    /\ LET word == IF options.source = "dds" THEN Set(e100, "word", WordNow) ELSE e100
           done == Set(word, "source", options.source) IN
       \/ live.streams /\ Smooth /\ Go(<<>>) /\ e100' = done /\ woes' = woes \ {"source"}
       \/ live.streams /\ Throws /\ e100' \in {e100, word, done} /\ woes' = woes \cup {"source"}

\* A thread object that holds an unjoined thread cannot take another: the program ends.
\* Mutant: an update that has ended is not joined before the next one.
NotJoined == <<>>
Joined == <<"waitUpdate">>
Spawn(t) ==
    IF threads[t] = "none" THEN threads' = Set(threads, t, "begin") /\ UNCHANGED over
    ELSE over' = "assigned" /\ UNCHANGED threads

\* Not without streams; not when it runs, which neither a button nor ApplySettings asks.
StartRx ==
    /\ AtStep("startRx") /\ UNCHANGED <<options, e100, woes>>
    /\ \/ /\ live.streams /\ ~live.rx /\ UNCHANGED pressed /\ Go(<<>>)
          /\ live' = Set(live, "rx", TRUE) /\ shown' = NoRows /\ Spawn("rx")
       \/ /\ ~live.streams /\ UNCHANGED <<live, threads, shown, over, pressed>>
          /\ todo' = [todo EXCEPT !.steps = <<>>]
StartTx ==
    /\ AtStep("startTx") /\ UNCHANGED <<options, live, threads, e100, shown, woes>>
    /\ UNCHANGED <<over, pressed>>
    /\ IF live.streams THEN Go(<<"source", "goTx">>) ELSE todo' = [todo EXCEPT !.steps = <<>>]
\* The monitor of a tone, the flag, what runs, and the thread; a DDS needs none.
GoTx ==
    /\ AtStep("goTx") /\ UNCHANGED <<pressed, e100, shown, woes>> /\ Go(<<>>)
    /\ live' = [live EXCEPT !.tx = TRUE, !.monitor = options.source = "iq",
                            !.abort = @ /\ options.source = "dds"]
    /\ options' = Set(options, "running", options.source)
    /\ IF options.source = "iq" THEN Spawn("tx") ELSE UNCHANGED <<threads, over>>

SetSize ==
    /\ AtStep("setSize") /\ Smooth /\ Go(<<>>)
    /\ options' \in {Set(options, "size", s): s \in SizeSet \ {options.size}}
    /\ UNCHANGED <<live, threads, e100, shown, woes>>
ClearRows ==
    /\ AtStep("clearRows") /\ Smooth /\ Go(<<>>) /\ shown' = NoRows
    /\ UNCHANGED <<options, live, threads, e100, woes>>

\* An update that has finished is joined, here and before each frame is drawn.
Refresh ==
    /\ AtStep("refresh") /\ Smooth /\ live' = Set(live, "finished", FALSE)
    /\ Go(IF live.finished THEN Joined ELSE <<>>)
    /\ woes' = woes \cup IF threads.update = "gap" THEN {"early"} ELSE {}
    /\ UNCHANGED <<options, threads, e100, shown>>
Frame ==
    /\ over = "no" /\ todo.steps = <<>> /\ live.finished /\ Smooth
    /\ todo' = [steps |-> <<"refresh">>, caught |-> FALSE]
    /\ UNCHANGED <<options, live, threads, e100, shown, woes>>
CheckUpdate ==
    /\ AtStep("checkUpdate") /\ Smooth
    /\ IF live.update THEN todo' = [todo EXCEPT !.steps = <<>>] ELSE Go(<<>>)
    /\ UNCHANGED <<options, live, threads, e100, shown, woes>>
\* No package, no script, a bad port: nothing was changed but the streams.
StartUpdate ==
    /\ AtStep("startUpdate") /\ UNCHANGED <<options, e100, shown, woes>>
    /\ \/ /\ UNCHANGED pressed /\ Go(<<>>)
          /\ live' = [live EXCEPT !.update = TRUE, !.finished = FALSE] /\ Spawn("update")
       \/ Throws /\ UNCHANGED <<live, threads>>
EndProgram ==
    /\ AtStep("end") /\ Go(<<>>) /\ over' = "closed"
    /\ UNCHANGED <<pressed, options, live, threads, e100, shown, woes>>

-----------------------------------------------------------------------------
(* the receiving thread *)

Thread(t, place) == threads' = Set(threads, t, place)
Runs(t, place) == over = "no" /\ threads[t] = place
\* Its catch: a status, and the flag.
Catch(t) ==
    /\ Runs(t, "catch") /\ live' = Set(live, t, FALSE) /\ Thread(t, "ended")
    /\ Smooth /\ UNCHANGED <<todo, options, e100, shown, woes>>
Dies(t) == Fails /\ Thread(t, "catch") /\ woes' = woes \cup {t}

RxBegin ==
    /\ Runs("rx", "begin") /\ UNCHANGED <<todo, options, live, shown, over>>
    /\ \/ UNCHANGED <<pressed, woes>> /\ Thread("rx", "loop") /\ e100' = Set(e100, "rx", TRUE)
       \/ Dies("rx") /\ e100' \in {e100, Set(e100, "rx", TRUE)}
Loop(t, next) ==
    /\ Runs(t, "loop") /\ Thread(t, IF live[t] THEN next ELSE "ended")
    /\ Smooth /\ UNCHANGED <<todo, options, live, e100, shown, woes>>
\* Nothing, or too soon for a plot; samples into the history; or an exception.
RxRecv ==
    /\ Runs("rx", "recv") /\ UNCHANGED <<todo, options, live, e100, shown, over>>
    /\ \/ Thread("rx", "loop") /\ UNCHANGED <<pressed, woes>>
       \/ Thread("rx", "compute") /\ UNCHANGED <<pressed, woes>>
       \/ Dies("rx")
\* The spectrum is of the size read here, outside the mutex.
RxCompute ==
    /\ Runs("rx", "compute") /\ threads' = [threads EXCEPT !.rx = "push", !.size = options.size]
    /\ Smooth /\ UNCHANGED <<todo, options, live, e100, shown, woes>>
RxPush ==
    /\ Runs("rx", "push") /\ Thread("rx", "loop")
    /\ shown' = [shown EXCEPT ![threads.size] = IF @ < 2 THEN @ + 1 ELSE 2]
    /\ Smooth /\ UNCHANGED <<todo, options, live, e100, woes>>

(* the sending thread *)

TxBegin ==
    /\ Runs("tx", "begin") /\ UNCHANGED <<todo, options, live, e100, shown, over>>
    /\ \/ UNCHANGED <<pressed, woes>> /\ Thread("tx", "loop")
       \/ Dies("tx")
\* A send waits while the board is full, unless released.
TxSend ==
    /\ Runs("tx", "send") /\ UNCHANGED <<todo, options, live, shown, over>>
    /\ \/ Thread("tx", "loop") /\ UNCHANGED <<pressed, woes>>
          /\ e100' \in {e100, Set(e100, "tx", TRUE)}
       \/ Dies("tx") /\ UNCHANGED e100

(* the update thread: the script, then two flags one after the other *)

UpdateRuns ==
    /\ Runs("update", "begin") /\ Thread("update", "gap") /\ live' = Set(live, "update", FALSE)
    /\ Smooth /\ UNCHANGED <<todo, options, e100, shown, woes>>
UpdateEnds ==
    /\ Runs("update", "gap") /\ Thread("update", "ended") /\ live' = Set(live, "finished", TRUE)
    /\ Smooth /\ UNCHANGED <<todo, options, e100, shown, woes>>

GuiNext ==
    \/ PressConnect \/ PressDisconnect \/ PressStartRx \/ PressStopRx
    \/ PressStartTx \/ PressStopTx \/ PressUpdate \/ Close
    \/ \E r \in RateSet: ChooseRate(r)
    \/ \E f \in LoSet: ChooseLo(f)
    \/ \E s \in {"iq", "dds"}: ChooseSource(s)
    \/ ChooseDds \/ \E s \in SizeSet: ChooseSize(s)
    \/ TakeTxFlag \/ Silence \/ Join("joinTx", "tx") \/ Quiet("quietTx", "tx")
    \/ TakeRxFlag \/ Join("joinRx", "rx") \/ Quiet("quietRx", "rx")
    \/ Join("waitUpdate", "update")
    \/ Drop \/ Open \/ Apply \/ SendSettings \/ TuneLo \/ GetStreams \/ ConfigureSource
    \/ StartRx \/ StartTx \/ GoTx \/ SetSize \/ ClearRows
    \/ Refresh \/ Frame \/ CheckUpdate \/ StartUpdate \/ EndProgram
    \/ RxBegin \/ Loop("rx", "recv") \/ RxRecv \/ RxCompute \/ RxPush \/ Catch("rx")
    \/ TxBegin \/ Loop("tx", "send") \/ TxSend \/ Catch("tx")
    \/ UpdateRuns \/ UpdateEnds

-----------------------------------------------------------------------------
(* properties *)

Places == {"none", "begin", "loop", "recv", "compute", "push", "send", "gap", "catch", "ended"}
GuiTypeOK ==
    /\ todo.steps \in Seq(STRING) /\ Len(todo.steps) < 16 /\ todo.caught \in BOOLEAN
    /\ options \in [source: {"iq", "dds"}, running: {"iq", "dds"},
                    rate: RateSet, lo: LoSet, size: SizeSet]
    /\ DOMAIN live = {"connected", "rx", "tx", "streams", "monitor", "abort", "update", "finished"}
    /\ threads \in [rx: Places, tx: Places, update: Places, size: SizeSet]
    /\ e100 \in [rx: BOOLEAN, tx: BOOLEAN, source: {"iq", "dds"},
                 rate: RateSet, word: RateSet, lo: LoSet]
    /\ shown \in [SizeSet -> 0..2] /\ woes \subseteq {"rx", "tx", "source", "settings", "lo", "early"}
    /\ over \in {"no", "closed", "exception", "assigned"}

Rest == over = "no" /\ todo.steps = <<>>

\* While nothing failed the program ends by being closed, but for an update started
\* in the moment between the two flags of the one before.
EndsByClosing ==
    over \in {"no", "closed"} \/ pressed.failed > 0 \/ "early" \in woes

\* Settings are sent, and the stream pointers replaced or dropped, while no thread
\* uses them; and no thread is left when the program has ended.
QuietWhileConfigured ==
    /\ (\E s \in {"commands", "streams", "open", "drop"}: AtStep(s)) => Ended("rx") /\ Ended("tx")
    /\ over = "closed" => \A t \in {"rx", "tx", "update"}: threads[t] = "none"

\* A join of the sending thread waits for no send that waits for the board.
SendReleased == AtStep("joinTx") /\ threads.tx = "send" => live.abort

\* What the window says of the board is so, unless a command failed: frequencies and
\* rate, a source with the DDS word of the rate, and a stopped stream is quiet.
BoardAsShown ==
    Rest =>
      /\ live.connected /\ "lo" \notin woes => e100.lo = options.lo
      /\ live.connected /\ "settings" \notin woes => e100.rate = options.rate
      /\ live.tx /\ "source" \notin woes =>
            /\ e100.source = options.source /\ options.running = options.source
            /\ options.source = "dds" => e100.word = options.rate
      /\ \A t \in {"rx", "tx"}: ~live[t] /\ t \notin woes => ~e100[t]

\* A spectrum of an earlier FFT size is shown at most once.
OneStaleRow == Rest => \A s \in SizeSet \ {options.size}: shown[s] <= 1
=============================================================================
