------------------------------- MODULE MCM300 -------------------------------
(* The parts of the M300 driver, the programs that replace the firmware of    *)
(* an M300 and of an E-series board, the consoles of an M300 and of an E100,  *)
(* the search for boards, the UHD device's properties, and of the M300 the    *)
(* converter cores, the format on the wire, the pins and the buffers, under   *)
(* one run: each behaviour exercises one, the others stay in their initial    *)
(* state.                                                                     *)
EXTENDS XdmaRing, M300Control, M300Tx, M300Rx

VARIABLES
    scene,
    tool, readback, chip, flash, fifo, pipe, luck,                             \* FlashUpdate
    ui, task, socket, lines, service, breaks,                                 \* UpdateTool
    ad9361, afe, reported, rfCall, unsure, rfSpent,                           \* M300RfControl
    handler, options, live, threads, e100, shown, woes, pressed, over,           \* E100Gui
    window, preview, rxWorker, m300, display, spentIn,                        \* M300Monitor
    finder, incoming, heard, copies, listed, asked, missed,                     \* Discovery
    usrp, usrpBoard, setters, usrpPast, turns,                                 \* UhdTree
    afeChip, adc, dac, told,                                                    \* AxiCores
    avx2, outgoing, wirePacket, arrived, copied, turn,                           \* M300Wire
    gpio, shadow, pinCall, pinsAsked, writer, pinsFound, flickered, pinSpent,       \* M300Platform
    memory, claimed, nextBuff, heldBuffs, reads, filled, written, onWire, sends,  \* XdmaBuffers
    form, frame, helper, posted, network, notes, formSpent                      \* UpdateForm

\* The receive stream of M300Rx ("words"): one buffer of interleaved words, long runs
\* and no failures.  Frames: one buffer per channel, restarts and commands that fail.
Frames == INSTANCE M300Rx WITH
    Sizes <- {4}, Requests <- {1, 3}, Separate <- TRUE, MaxPkts <- 2, MaxCalls <- 3, MaxFaults <- 2

\* Two erase blocks, the second not full.
Flash == INSTANCE FlashUpdate WITH
    got <- readback, NumChunks <- 3, PerBlock <- 2, MaxRuns <- 3, MaxFaults <- 2
Update == INSTANCE UpdateTool WITH
    trouble <- breaks, NumBlocks <- 2, MaxTasks <- 2, MaxLines <- 2, MaxBreaks <- 2
Form == INSTANCE UpdateForm WITH
    Places <- {"a", "b"}, MaxPresses <- 2, MaxEvents <- 1
Rf == INSTANCE M300RfControl WITH
    Rates <- {1, 6}, Tunings <- {1, 2}, Attens <- {1, 2}, MinBandwidth <- 2, MaxBandwidth <- 5,
    DefaultRate <- 6, DefaultTuning <- 1, DefaultAtten <- 1, MaxRfCalls <- 3, MaxRfFails <- 2
Console == INSTANCE E100Gui WITH
    todo <- handler, RateSet <- {1, 2}, LoSet <- {1, 2}, SizeSet <- {1, 2}, MaxPressed <- 4, MaxFailed <- 1
Monitor == INSTANCE M300Monitor WITH
    worker <- rxWorker, Centers <- {1, 2}, MaxEdits <- 3, MaxSpectra <- 3, MaxDeviceFails <- 1
Search == INSTANCE Discovery WITH
    pending <- incoming, inbox <- heard,
    Boards <- {"E100", "E206"}, Self <- "host", MaxCopies <- 2, MaxLate <- 1
Tree == INSTANCE UhdTree WITH
    fpga <- usrpBoard, prop <- setters, log <- usrpPast, Callers <- {"a", "b"}, MaxSets <- 4,
    Addresses <- {<<"iqtaxi", "-">>, <<"E200", "-">>, <<"iqtaxi", "M300">>}, MaxRefused <- 1
Cores == INSTANCE AxiCores WITH
    chip <- afeChip, Taps <- 9, Channels <- 2, Rates <- {0, 1000, 3000}, MaxCalls <- 4
Wire == INSTANCE M300Wire WITH
    packet <- wirePacket, taken <- copied,
    Byte <- 5, FullScale <- 20, Room <- 8, MaxPackets <- 2, MaxPieces <- 2
Platform == INSTANCE M300Platform WITH
    asked <- pinsAsked, found <- pinsFound, Pins <- {"RESETB", "CTL0"}, Defaults <- {"RESETB"},
    Byte <- 16, MaxPinCalls <- 4, MaxLostCommands <- 1
Buffers == INSTANCE XdmaBuffers WITH
    next <- nextBuff, held <- heldBuffs, queue <- filled, writing <- written,
    NumFrames <- 2, MaxSlots <- 3, Stride <- 3, Lengths <- {3, 4}, MaxTransfers <- 3

ASSUME
    /\ Cores!CoreParameters
    /\ Wire!WireParameters /\ Platform!PlatformParameters /\ Buffers!BuffersParameters
    /\ Tree!TreeParameters /\ Search!DiscoveryParameters
    /\ Rf!RfParameters /\ Console!GuiParameters /\ Monitor!MonitorParameters
    /\ Frames!RxParameters
    /\ Flash!FlashParameters /\ Update!UpdateParameters /\ Form!FormParameters

flashVars == <<tool, readback, chip, flash, fifo, pipe, luck>>
updateVars == <<ui, task, socket, lines, service, breaks>>
rfVars == <<ad9361, afe, reported, rfCall, unsure, rfSpent>>
guiVars == <<handler, options, live, threads, e100, shown, woes, pressed, over>>
monitorVars == <<window, preview, rxWorker, m300, display, spentIn>>
searchVars == <<finder, incoming, heard, copies, listed, asked, missed>>
treeVars == <<usrp, usrpBoard, setters, usrpPast, turns>>
coreVars == <<afeChip, adc, dac, told>>
wireVars == <<avx2, outgoing, wirePacket, arrived, copied, turn>>
pinVars == <<gpio, shadow, pinCall, pinsAsked, writer, pinsFound, flickered, pinSpent>>
buffVars == <<memory, claimed, nextBuff, heldBuffs, reads, filled, written, onWire, sends>>
formVars == <<form, frame, helper, posted, network, notes, formSpent>>
libVars == <<searchVars, treeVars, coreVars, wireVars, pinVars, buffVars, formVars>>
toolVars == <<flashVars, updateVars, rfVars, guiVars, monitorVars, libVars>>
mcVars == <<scene, toolVars, rxVars, ringVars, controlVars, txVars>>

\* The search's behaviours begin in more than one way; so do four other parts',
\* when they are the ones that run.
QuietNetwork ==
    finder.who = "uhd" /\ finder.device = "-" /\ \A b \in DOMAIN copies: copies[b] = 0

MCInit ==
    /\ scene \in {"ring", "control", "words", "frames", "tx", "flash", "update",
                 "rf", "console", "monitor", "search", "tree", "cores", "wire", "pins", "buffers",
                 "form"}
    /\ RingInit /\ ControlInit /\ TxInit /\ Init
    /\ Flash!FlashInit /\ Update!UpdateInit
    /\ Rf!RfInit /\ Console!GuiInit /\ Monitor!MonitorInit
    /\ scene # "monitor" => window.auto
    /\ Search!DiscoveryInit /\ (scene # "search" => QuietNetwork)
    /\ Tree!TreeInit /\ (scene # "tree" => ~usrpBoard.sync)
    /\ Cores!CoreInit /\ (scene # "cores" => afeChip.clock = 0)
    /\ Wire!WireInit /\ (scene # "wire" => avx2)
    /\ Platform!PlatformInit /\ (scene # "pins" => gpio = [out |-> {}, oe |-> {}])
    /\ Buffers!BuffersInit
    /\ Form!FormInit
    /\ scene # "form" => \A p \in DOMAIN network: ~network[p].tcp /\ ~network[p].udp

\* Bounds of the control scene: requests and answers under way between the
\* processes and the M300; and as the processes are alike, which of them begins.
FewUnderWay == Len(requests) + Len(answers) <= 2
OneBegins == log # <<>> => log[1].by = CHOOSE p \in Procs: TRUE

MCNext ==
    /\ UNCHANGED scene
    /\ \/ /\ UNCHANGED toolVars
          /\ \/ scene = "ring" /\ RingNext /\ UNCHANGED <<rxVars, controlVars, txVars>>
             \/ /\ scene = "control" /\ ControlNext /\ (FewUnderWay /\ OneBegins)'
                /\ UNCHANGED <<rxVars, ringVars, txVars>>
             \/ scene = "words" /\ Next /\ UNCHANGED <<ringVars, controlVars, txVars>>
             \/ scene = "frames" /\ Frames!Next /\ UNCHANGED <<ringVars, controlVars, txVars>>
             \/ scene = "tx" /\ TxNext /\ UNCHANGED <<rxVars, ringVars, controlVars>>
       \/ /\ \/ /\ UNCHANGED libVars
                /\ \/ /\ scene = "flash" /\ Flash!FlashNext
                      /\ UNCHANGED <<updateVars, rfVars, guiVars, monitorVars>>
                   \/ /\ scene = "update" /\ Update!UpdateNext
                      /\ UNCHANGED <<flashVars, rfVars, guiVars, monitorVars>>
                   \/ /\ scene = "rf" /\ Rf!RfNext
                      /\ UNCHANGED <<flashVars, updateVars, guiVars, monitorVars>>
                   \/ /\ scene = "console" /\ Console!GuiNext
                      /\ UNCHANGED <<flashVars, updateVars, rfVars, monitorVars>>
                   \/ /\ scene = "monitor" /\ Monitor!MonitorNext
                      /\ UNCHANGED <<flashVars, updateVars, rfVars, guiVars>>
             \/ /\ UNCHANGED <<flashVars, updateVars, rfVars, guiVars, monitorVars>>
                /\ \/ /\ UNCHANGED <<wireVars, pinVars, buffVars, formVars>>
                      /\ \/ scene = "search" /\ Search!DiscoveryNext /\ UNCHANGED <<treeVars, coreVars>>
                         \/ scene = "tree" /\ Tree!TreeNext /\ UNCHANGED <<searchVars, coreVars>>
                         \/ scene = "cores" /\ Cores!CoreNext /\ UNCHANGED <<searchVars, treeVars>>
                   \/ /\ UNCHANGED <<searchVars, treeVars, coreVars, formVars>>
                      /\ \/ scene = "wire" /\ Wire!WireNext /\ UNCHANGED <<pinVars, buffVars>>
                         \/ scene = "pins" /\ Platform!PlatformNext /\ UNCHANGED <<wireVars, buffVars>>
                         \/ scene = "buffers" /\ Buffers!BuffersNext /\ UNCHANGED <<wireVars, pinVars>>
                   \/ /\ scene = "form" /\ Form!FormNext
                      /\ UNCHANGED <<searchVars, treeVars, coreVars, wireVars, pinVars, buffVars>>
          /\ UNCHANGED <<rxVars, ringVars, controlVars, txVars>>

MCSpec == MCInit /\ [][MCNext]_mcVars /\ TxFairness

-----------------------------------------------------------------------------
(* properties of the run; the others are those of the modules by their names  *)

\* The part that runs keeps its variables in their types.
TypesOK ==
    CASE scene = "ring" -> RingTypeOK
      [] scene = "control" -> ControlTypeOK
      [] scene = "tx" -> TxTypeOK
      [] scene = "words" -> RxTypeOK
      [] scene = "frames" -> Frames!RxTypeOK
      [] scene = "flash" -> Flash!FlashTypeOK
      [] scene = "update" -> Update!UpdateTypeOK
      [] scene = "rf" -> Rf!RfTypeOK
      [] scene = "console" -> Console!GuiTypeOK
      [] scene = "monitor" -> Monitor!MonitorTypeOK
      [] scene = "search" -> Search!DiscoveryTypeOK
      [] scene = "tree" -> Tree!TreeTypeOK
      [] scene = "cores" -> Cores!CoreTypeOK
      [] scene = "wire" -> Wire!WireTypeOK
      [] scene = "pins" -> Platform!PlatformTypeOK
      [] scene = "buffers" -> Buffers!BuffersTypeOK
      [] scene = "form" -> Form!FormTypeOK
\* The cores' conversions and the choice of a tap over all inputs of the bound; they
\* do not depend on the state, so the first one suffices.
ConversionsRight == Cores!CoefficientsKept /\ Cores!TonesKept /\ Cores!EyeCentred
\* Nothing of an earlier run, command or connection is taken for this one's: no recv
\* returns its samples (m300_rx_streamer.cpp:474, 514); the flash tool's success means
\* the flash holds the image, and its commands meet an idle controller
\* (m300_flash_update.cpp:440, 490); the update window's success is the board's own
\* report, and its close waits for no connection
\* (iqtaxi_firmware_update_gui.cpp:207, 903), its search and its commands go by what the
\* form showed (iqtaxi_firmware_update_gui.cpp:706, 978); the RF controller skips only what the
\* chip has (m300_ad9361_ctrl.cpp:351); the monitor streams with what was asked for
\* last (m300_iq_gui.cpp:457), and both consoles show few spectra of settings gone.
\* A search for boards lists each that answers, once, ends, and what it lists can be
\* opened (iqtaxi_udp_discover.cpp:185, iqtaxi_impl.cpp:364, 546).  The time and the
\* time source that were set through UHD are the device's (iqtaxi_impl.cpp:1391, 1451).
\* The converter cores do what their objects remember (m300_axi_adc_core.c:529).
\* A packet and the caller's buffers hold the samples they should, whatever was in the
\* buffer before (m300_tx_streamer.cpp:480); the pins have the levels asked for, and
\* the registers the bytes (m300_noos_platform.cpp:78, 163); a received buffer holds
\* one packet until it is released, and the device gets what was committed
\* (xdma_zero_copy.cpp:107, 259).
NothingStale ==
    CASE scene \in {"words", "frames"} -> NoStaleSamples
      [] scene = "flash" -> Flash!FlashVerified /\ Flash!CommandsMeetIdleChip
      [] scene = "update" -> Update!CloseIsPrompt /\ Update!CompleteIsTrue
      [] scene = "rf" -> Rf!KeptIsChip /\ Rf!BandwidthFollows /\ Rf!ReportedIsKept
      [] scene = "console" ->
            /\ Console!EndsByClosing /\ Console!QuietWhileConfigured
            /\ Console!SendReleased /\ Console!BoardAsShown /\ Console!OneStaleRow
      [] scene = "monitor" ->
            Monitor!AskedIsApplied /\ Monitor!NoStreamLeft /\ Monitor!OldRowsBounded
      [] scene = "search" ->
            /\ Search!SearchComplete /\ Search!ListIsSound /\ Search!SearchBounded
            /\ Search!FoundAgain /\ Search!SerialPasses /\ Search!OneBus
      [] scene = "tree" ->
            /\ Tree!TimeIsLoaded /\ Tree!SourceIsKept /\ Tree!BuiltAsAsked
            /\ Tree!GainsInvert /\ Tree!OpenedAsFound
      [] scene = "cores" ->
            /\ Cores!ActiveAsAsked /\ Cores!CoefficientsApart /\ Cores!CalibratedInEye
            /\ Cores!ToneHonest
            /\ told.calls = 0 => ConversionsRight
      [] scene = "wire" ->
            /\ Wire!PacketExact /\ Wire!PiecesInOrder
            /\ turn = 0 => Wire!PacketsSurvive /\ Wire!ConversionsAgree
      [] scene = "pins" ->
            /\ Platform!LevelsAsAsked /\ Platform!OthersUntouched /\ Platform!NoFlicker
            /\ pinSpent.calls = 0 => Platform!TransfersExact
      [] scene = "buffers" ->
            /\ Buffers!HeldArePackets /\ Buffers!OnlyHeldAreClaimed /\ Buffers!WireIsCommitted
            /\ reads = 0 /\ sends = <<>> => Buffers!PoolFits
      [] scene = "form" -> Form!FormRight
      [] OTHER -> TRUE
=============================================================================
