------------------------------- MODULE MCHosts -------------------------------
(* The settings layer, transfers, clock reference, the record and replay      *)
(* programs, the probes of an M300 and the other host programs.               *)
(* They share no state, so one run takes them in turn: each behaviour         *)
(* exercises one of them, the scene, and the others stay as they began.       *)
EXTENDS DeviceSettings, RecordReplay

VARIABLES
    scene,
    uhd, board, sensor, unsure, switched,                                   \* ClockReference
    gui, radio, flags, tune, rx, cb, cbNow, free, filled, hist, budget,     \* HdsdrExtIo
    context, tuned, block, widget, past, used,                              \* GnuRadio
    host, clock, stream, calls, uhdPast,                                    \* UhdRate
    rxs, epoch, txs, sent, uhdHist,                                         \* UhdStreams
    threads, active, rateKept, native, soapyHist,                           \* SoapyDevice
    input, worker, rig, shown,                                              \* SdrangelInput
    module, thread, held, sdrppRx, pipe, sdrppHist,                         \* SdrppSource
    unit, program, files, mishap,                                           \* RecordTools
    options, m300, probe, readers, queue, tally, fate,                      \* RxProbe
    order, sender, fpga, air, slips                                         \* TxProbe

Clock == INSTANCE ClockReference WITH
    used <- switched, Sources <- {"internal", "external"}, MaxSwitches <- 3, MaxTroubles <- 3
\* More calls, or two frequencies.
Threads == INSTANCE HdsdrExtIo WITH
    dev <- radio, Tunings <- {1}, NumBuffers <- 2, MaxCalls <- 4, MaxFails <- 1
Tuning == INSTANCE HdsdrExtIo WITH
    dev <- radio, Tunings <- {1, 2}, NumBuffers <- 2, MaxCalls <- 3, MaxFails <- 1
Flow == INSTANCE GnuRadio WITH
    dev <- tuned, gui <- widget, hist <- past,
    Rates <- {1, 2}, Tunings <- {1, 2}, MaxSets <- 2, MaxFails <- 1
UhdTime == INSTANCE UhdRate WITH
    Users <- {"u1", "u2"}, UhdRates <- {1, 2}, MaxSeconds <- 2, MaxCalls <- 5, MaxErrors <- 2
Uhd == INSTANCE UhdStreams WITH
    Streamers <- {"s1", "s2"}, Stamps <- {0, 4}, Sizes <- {1, 2}, MaxCommands <- 5, MaxThrows <- 2
Soapy == INSTANCE SoapyDevice WITH
    SoapyRates <- {1, 2}, MaxSoapyCalls <- 2, MaxTransfers <- 2, MaxSoapyFails <- 1
Sdrangel == INSTANCE SdrangelInput WITH MaxAsked <- 4, MaxExceptions <- 2
Sdrpp == INSTANCE SdrppSource WITH
    rx <- sdrppRx, spent <- sdrppHist, MaxClicks <- 5, MaxErrors <- 2
Tools == INSTANCE RecordTools WITH
    Length <- 2, WarmLength <- 1, MaxTakes <- 2, MaxTroubles <- 3
\* A block of two packets and a last one of one; losses of a packet and of a whole turn
\* of the sequence number.
RxTool == INSTANCE RxProbe WITH
    Reads <- 4, Warmup <- 1, Bulk <- 2, Depth <- 1, SeqValues <- 8, MaxReasonable <- 3,
    LossSizes <- {1, 8}, MaxSpent <- 2
TxTool == INSTANCE TxProbe WITH Packets <- 3, SeqValues <- 2, MaxTxTroubles <- 2

ASSUME
    /\ Clock!ClockParameters /\ Threads!HdsdrParameters /\ Tuning!HdsdrParameters
    /\ Flow!GnuRadioParameters /\ UhdTime!RateParameters /\ Uhd!UhdParameters
    /\ Soapy!SoapyParameters /\ Sdrangel!SdrangelParameters /\ Sdrpp!SdrppParameters
    /\ Tools!ToolParameters /\ RxTool!ProbeParameters /\ TxTool!TxProbeParameters

clockVars == <<uhd, board, sensor, unsure, switched>>
hdsdrVars == <<gui, radio, flags, tune, rx, cb, cbNow, free, filled, hist, budget>>
gnuVars == <<context, tuned, block, widget, past, used>>
rateVars == <<host, clock, stream, calls, uhdPast>>
streamVars == <<rxs, epoch, txs, sent, uhdHist>>
soapyVars == <<threads, active, rateKept, native, soapyHist>>
angelVars == <<input, worker, rig, shown>>
sdrppVars == <<module, thread, held, sdrppRx, pipe, sdrppHist>>
toolVars == <<unit, program, files, mishap>>
rxProbeVars == <<options, m300, probe, readers, queue, tally, fate>>
txProbeVars == <<order, sender, fpga, air, slips>>
probeVars == <<rxProbeVars, txProbeVars>>
deviceVars == <<settingsVars, transferVars, clockVars, toolVars, probeVars>>
uhdVars == <<rateVars, streamVars>>
sourceVars == <<soapyVars, angelVars, sdrppVars>>
hostVars == <<hdsdrVars, gnuVars, uhdVars, sourceVars>>
mcVars == <<scene, deviceVars, hostVars>>

DeviceScenes == {"settings", "transfer", "clock", "tools", "rxprobe", "txprobe"}
HostScenes == {"threads", "tuning", "flow", "uhdrate", "uhdstreams"}
SourceScenes == {"soapy", "sdrangel", "sdrpp"}

\* The program that waits while another part is at work.
Idle(p) == p.kind = "E100" /\ p.task = "record" /\ ~p.warm /\ ~unit.amp
\* The probe that reads: with all options and devices through the transport, whose set-up
\* is that of the other ways too; these with the defaults and a device set up before.
LeftAs(source, bytes, framed) ==
    m300.source = source /\ m300.bytes = bytes /\ m300.framed = framed
OneSetUp ==
    /\ ~options.keep
    /\ options.direct =>
        /\ options.init = "auto" /\ options.framer /\ ~options.test
        /\ m300.on /\ m300.chip = "good" /\ LeftAs("iq", "other", "other")
\* In the other scenes.
RxProbeIdles == options = RxTool!Defaults /\ m300.on /\ m300.chip = "good" /\ LeftAs("iq", "other", "other")
AnyOrder == CHOOSE o \in TxTool!Orders: o.channels = 1 /\ o.samples = 4 /\ o.bulk = 1

MCInit ==
    /\ scene \in DeviceScenes \cup HostScenes \cup SourceScenes
    /\ SettingsInit /\ TransferInit /\ (scene # "transfer" => ~Joined)
    /\ Clock!ClockInit /\ Tuning!HdsdrInit
    /\ Flow!GnuRadioInit /\ UhdTime!RateInit /\ Uhd!UhdInit /\ Soapy!SoapyInit
    /\ Sdrangel!SdrangelInit /\ Sdrpp!SdrppInit
    /\ Tools!ToolInit /\ (scene # "tools" => Idle(program))
    /\ scene = "rxprobe" \/ (scene # "rxprobe" /\ options = RxTool!Defaults)
    /\ RxTool!ProbeInit /\ OneSetUp /\ (scene # "rxprobe" => RxProbeIdles)
    /\ scene = "txprobe" \/ (scene # "txprobe" /\ order = AnyOrder)
    /\ TxTool!TxProbeInit /\ (scene # "txprobe" => fpga.chip = "good")
    /\ scene # "settings" => dev = [r \in Registers |-> CHOOSE v \in Values: TRUE]
    /\ scene # "uhdrate" => clock.rate = 1
    /\ scene # "soapy" => active = {}

DeviceNext ==
    \/ /\ UNCHANGED probeVars
       /\ \/ scene = "settings" /\ SettingsNext /\ UNCHANGED <<transferVars, clockVars, toolVars>>
          \/ scene = "transfer" /\ TransferNext /\ UNCHANGED <<settingsVars, clockVars, toolVars>>
          \/ scene = "clock" /\ Clock!ClockNext /\ UNCHANGED <<settingsVars, transferVars, toolVars>>
          \/ scene = "tools" /\ Tools!ToolNext /\ UNCHANGED <<settingsVars, transferVars, clockVars>>
    \/ /\ UNCHANGED <<settingsVars, transferVars, clockVars, toolVars>>
       /\ \/ scene = "rxprobe" /\ RxTool!ProbeNext /\ UNCHANGED txProbeVars
          \/ scene = "txprobe" /\ TxTool!TxProbeNext /\ UNCHANGED rxProbeVars

HostNext ==
    \/ scene = "threads" /\ Threads!HdsdrNext /\ UNCHANGED <<gnuVars, uhdVars>>
    \/ scene = "tuning" /\ Tuning!HdsdrNext /\ UNCHANGED <<gnuVars, uhdVars>>
    \/ scene = "flow" /\ Flow!GnuRadioNext /\ UNCHANGED <<hdsdrVars, uhdVars>>
    \/ scene = "uhdrate" /\ UhdTime!RateNext /\ UNCHANGED <<hdsdrVars, gnuVars, streamVars>>
    \/ scene = "uhdstreams" /\ Uhd!UhdNext /\ UNCHANGED <<hdsdrVars, gnuVars, rateVars>>

SourceNext ==
    \/ scene = "soapy" /\ Soapy!SoapyNext /\ UNCHANGED <<angelVars, sdrppVars>>
    \/ scene = "sdrangel" /\ Sdrangel!SdrangelNext /\ UNCHANGED <<soapyVars, sdrppVars>>
    \/ scene = "sdrpp" /\ Sdrpp!SdrppNext /\ UNCHANGED <<soapyVars, angelVars>>

MCNext ==
    /\ UNCHANGED scene
    /\ \/ scene \in DeviceScenes /\ DeviceNext /\ UNCHANGED hostVars
       \/ /\ scene \in HostScenes /\ HostNext
          /\ UNCHANGED <<deviceVars, sourceVars>>
       \/ /\ scene \in SourceScenes /\ SourceNext
          /\ UNCHANGED <<deviceVars, hdsdrVars, gnuVars, uhdVars>>

MCSpec == MCInit /\ [][MCNext]_mcVars

-----------------------------------------------------------------------------
(* properties of the run; CacheHonest is DeviceSettings' own, TransferExact   *)
(* RecordReplay's                                                              *)

\* The part at work keeps its variables in their types.
HostTypesOK ==
    CASE scene = "settings" -> SettingsTypeOK
      [] scene = "transfer" -> TransferTypeOK
      [] scene = "clock" -> Clock!ClockTypeOK
      [] scene = "threads" -> Threads!HdsdrTypeOK
      [] scene = "tuning" -> Tuning!HdsdrTypeOK
      [] scene = "flow" -> Flow!GnuRadioTypeOK
      [] scene = "uhdrate" -> UhdTime!RateTypeOK
      [] scene = "uhdstreams" -> Uhd!UhdTypeOK
      [] scene = "soapy" -> Soapy!SoapyTypeOK
      [] scene = "sdrangel" -> Sdrangel!SdrangelTypeOK
      [] scene = "sdrpp" -> Sdrpp!SdrppTypeOK
      [] scene = "tools" -> Tools!ToolTypeOK
      [] scene = "rxprobe" -> RxTool!ProbeTypeOK
      [] scene = "txprobe" -> TxTool!TxProbeTypeOK
\* The threads of the host programs: those of GNU Radio and SoapySDR do not wait for each
\* other in a circle, the join of SDR++ ends, and a stop of HDSDR (ExtIO_ANTSDR.cpp:880),
\* SDRangel or SDR++ leaves no thread behind, with the exceptions that NobodyLeft names;
\* HDSDR's buffers and callbacks are as BuffersOnce, OneCaller and BlocksNoticed say.
HostThreadsSafe ==
    /\ HostTypesOK /\ Threads!HostCallbacksSafe /\ Flow!NoCircularWait
    /\ scene = "soapy" => Soapy!SoapyNoCircle
    /\ Sdrangel!WorkerJoined /\ Sdrpp!JoinEnds /\ Sdrpp!SourceStopped
\* What a host program believes of the device is so: reference, rate, frequencies,
\* time base; started streams stream, or their user was told, and stopped ones are
\* quiet; sends continue where the last one ended; a change of the rate leaves the
\* streams as they were.  What a record program reports saved is its recording, and a
\* replay program that ends leaves the transmitter quiet (e200_replay_iq_test.cpp:509);
\* what a probe of an M300 reports lost, read or sent was so (m300_rx_iq_probe.cpp:1168,
\* m300_tx_iq_probe.cpp:525).
HostBeliefs ==
    /\ Clock!ClockTruthful /\ Tuning!LoApplied /\ Flow!CleanIsApplied
    /\ UhdTime!RatesAgree /\ UhdTime!TimeKept /\ Soapy!TimeBaseHonest
    /\ Uhd!StartedIsStreaming /\ Uhd!StoppedIsQuiet /\ Uhd!SendsContinue
    /\ Soapy!RateKeepsStreams
    /\ Sdrangel!RunningOrTold /\ Sdrangel!SettingsShown /\ Sdrpp!Tuned
    /\ scene = "tools" => Tools!RecordToolsRight
    /\ scene = "rxprobe" => RxTool!ProbeHonest
    /\ scene = "txprobe" => TxTool!SenderHonest
=============================================================================
