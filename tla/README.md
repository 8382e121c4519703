# IQtaxi: a verification of the host library

IQtaxi is the host side of a family of software-defined radios. A common device
interface (`include/sdr/api`) is implemented for Ethernet devices (E100, E200,
E206) and for a PCIe device (M300), and adapters make it available to UHD,
GNU Radio, SoapySDR, SDRangel, SDR++ and HDSDR. This directory holds TLA+
specifications of the library, of its adapters and of the programs around it,
the TLC configurations that check them on small instances, and TLAPS proofs of
what matters most for every instance.

Paths are relative to the repository root; file names alone are unique below
`src/`. `PROJECT.json` maps each definition to the lines it models, and lists the
hazards each property is for.

1. [Inventory](#1-inventory) 2. [Modules](#2-modules) 3. [Runs, bounds,
fairness](#3-runs) 4. [What the violations mean](#4-what-the-violations-mean)
5. [What is excused, and what was seen](#5-what-is-excused-and-what-was-seen)
6. [Theorems](#6-theorems) 7. [Not modelled](#7-what-is-not-modelled)
8. [What is left](#8-what-is-left)

## 1. Inventory

### 1.1 The E-series driver

| Component | State | What is hard | What makes it correct |
|---|---|---|---|
| **RX stream** `super_recv_packet_handler.hpp`, over `udp_zero_copy.cpp`, `zero_copy.hpp`, `FIFO.hpp`, `udp_common.hpp` | pool of frames with a ring index and a claim per frame; worker thread; FIFO; the packet being read; continuity statistics; resume flag | worker, reader and control call share all of it; datagrams are lost, late, corrupt; commands go unanswered; `recv(2)` throws; the pool is smaller than the FIFO | every frame has one owner and comes back; one socket reader at a time; no sample of an old setting or stream; gaps reported once and counted; nobody waits for ever |
| **Control channel** `local_ctrl.cpp` | mutex, 16-bit sequence number, one socket | no retransmission: late answers meet later commands, late requests take effect behind them; wrap-around; errors that leak a frame | a command gets its own answer; one that returns took effect exactly once while pending |
| **TX stream** `super_send_packet_handler.hpp` | ready and stop flag, statistics with pause clock, packet counter, event queue | pause, ready and abort race the send loop; partial sends; monitoring that starts in a pause | contiguous samples, framed bursts, bounded lateness, honest statistics, sends that end |
| **Settings layer** `iqtaxi_udp_impl.cpp` | cached values with valid flags, settings mutex | a failed command may have been executed, or be executed later; a stream writes one register past the cache | the cache is wrong only about a command that went wrong, and never skips one that failed |
| **Clock reference** `clock_reference.hpp`, `iqtaxi_impl.cpp` | the selected source | rejected, accepted but unconfirmed, confirmed | the kept selection is the device's after each outcome |
| **Record and replay** `e200_impl.cpp`, `e100_impl.cpp`, `src/example/e*_record_iq_test.cpp`, `e*_replay_iq_test.cpp` | a capture and its read offset, an upload position, a replay that runs | the upload uses the control socket without its mutex; data of a call that gave up; a program that fails while its board transmits | what is reported saved or uploaded is the recording or the waveform; no transmitter is left on unnoticed |
| **Discovery** `iqtaxi_udp_discover.cpp`, `ANTSDRUtil.cpp`, `Registration.cpp`, `iqtaxi_impl.cpp` | a list under construction | every answer provokes another request; a plain search mixes up who confirms whom | it misses no board, ends, and what it lists can be opened |

### 1.2 The M300 driver

| Component | State | What is hard | What makes it correct |
|---|---|---|---|
| **Factory and lease** `device.cpp`, `m300_xdma_discovery.cpp`, `m300_xdma_impl.cpp` | an `flock` per address | processes race and die; the probe comes before the lease | one owner |
| **Register access** `m300_xdma_ctrl.cpp`, `m300_xdma_protocol.hpp`, `m300_noos_platform.cpp`, `m300_rf_ctrl.cpp` | sequence number; two copies of the pin registers | a timeout leaves an answer behind; two objects write whole registers from their copies | wrong answers do not shift later ones; pins and registers get what was asked |
| **DMA ring and buffers** `xdma_zero_copy.cpp`, `zero_copy.hpp`, `zero_copy.cpp` | lock, started flag, buffer claims | the ring outlives a process, the lock does not; every way out of a read must give the buffer back | the holder of the lock is alone; buffers hold one packet; the wire holds what was committed |
| **RX stream** `m300_rx_streamer.cpp` | framer and ring state, packet half read, statistics | eleven commands of a start, each of which may fail; restarts; bursts | no run delivers samples of another; losses add up; stamps are those of the first sample |
| **TX stream** `m300_tx_streamer.cpp` | queue, worker, callback pending | stop drains while a send fills; the callback runs without the mutex | contiguous wire, drained before off, the callback is never lost |
| **RF control** `m300_rf_ctrl.cpp`, `m300_ad9361_ctrl.cpp` | kept settings, initialised flag | a call that fails between two commands; calibrations mute TX | what is kept, and skipped, is what the chip has |
| **Converter cores** `m300_axi_adc_core.c`, `m300_axi_dac_core.c` | registers and the objects beside them | rounding at register widths; the choice of a delay tap | conversions within a step; the tap in the widest eye |

### 1.3 Adapters and programs

| Component | Threads and locks | What is hard |
|---|---|---|
| **UHD** `src/UHD/IQTAXI` | property tree without locks, `_ctrl_mutex`, streamers with a weak owner | rate changed while a streamer is made; START and STOP that fail; sends without a time; time and time source over one register |
| **GNU Radio** `src/gnuradio/lib` | scheduler threads, `d_mutex` and `control_mutex` taken in both orders | a setter against the deferred settings; a retry after a failure |
| **SoapySDR** `src/soapysdr/IQTAXI` | three mutexes | a rate change that stops and restarts both streams |
| **SDRangel** `src/sdrangel` | a worker that may die of an exception | flags against thread against device |
| **SDR++** `src/sdr++/main.cpp` | a worker that waits in SDR++'s stream | a join of a worker that waits for a reader |
| **HDSDR** `src/HDSDR` | receiving thread, callback thread, callbacks that call back | lost wake-up, refilled queues, a failed rate change |
| **E100 console, M300 monitor** `e100_gui.cpp`, `m300_iq_gui.cpp` | window, receiver, sender, updater | settings under running threads; spectra of settings gone; a thread that ends by itself |
| **M300 probes** `m300_rx_iq_probe.cpp`, `m300_tx_iq_probe.cpp` | reader threads, a queue of blocks, `next_block`; the writing program has one thread | two readers race for the last block; a device as an earlier program left it; a write that takes part of a batch |
| **Flash tool, update window** `m300_flash_update.cpp`, `iqtaxi_firmware_update_gui.cpp` | tool and FPGA; window, worker, board | status bits of the operation before; close while the worker waits; a search that types into the form |

Not modelled as components: firmware images and packaging, the vendored
AD9361 driver (section 7).

### 1.4 How they interact

A device object owns a control channel and, per direction, a data socket. A
setter of the settings layer is one or more commands of the control channel. A
retune (`with_rx_epoch_restart`, `iqtaxi_udp_impl.cpp:43`) stops the RX worker
through the stream, drains the data socket, sends the LO command and lets the
stream start again. The RX worker hands frames to `recv()` through the FIFO; the
frame goes back to the pool when the last holder releases it. The TX stream's
flow-control thread listens on the TX socket and wakes senders. An M300 object
holds the lease, one command channel, a ring for receiving and a device for
sending; starts and stops of its streams are sequences of commands on the
channel. The adapters call the streams from threads of their own and, in several
of them, the control calls from others. The tools talk to the board directly.

`CtrlChannel` implements `RegisterBus`: a command that returns took effect once, one
that fails may have taken effect or may do so later. The layers above have these
outcomes in the steps of each command. That a command which failed is executed
later, after others, is in `DeviceSettings` (`late`) and `RecordReplay` (answers and data that
wait for a later call). In `ClockReference`, `UhdRate`, `GnuRadio` and the other adapters a
command that fails was executed or not when its call returns, and never
later: what they show holds if the device has executed or dropped a command
by the time the caller has seen its timeout.

## 2. Modules

An operator commented `Mutant:` stands in front of the definition it perturbs. It
is a plausible bug: put in the place of that definition, it makes the property
that `PROJECT.json` names fail. No specification uses it.

A variable named for history, and the fields `excuse`, `doubt`, `unsure`, `met`,
`loose` and their like, are not in the code. They record what went wrong or what met
what, so that a property can say exactly when the code's promise ends. Section 5
lists these excuses: each is a behaviour of the program a reader may want to know.

### 2.1 Composition

| Module | What it is |
|---|---|
| `RegisterCommands`, `RegisterBus`, `CtrlChannel`, `MCCtrlChannel` | commands; the abstract bus; the channel that implements it; symmetry for TLC |
| `RxStream`, `TxFlow` | the E-series streams |
| `MCHosts` | `DeviceSettings`, `RecordReplay`, `RecordTools`, `RxProbe`, `TxProbe`, `ClockReference`, `HdsdrExtIo` (two bounds), `GnuRadio`, `UhdRate`, `UhdStreams`, `SoapyDevice`, `SdrangelInput`, `SdrppSource` |
| `MCM300` | `XdmaRing`, `M300Control`, `M300Rx` (two bounds), `M300Tx`, `M300RfControl`, `AxiCores`, `M300Wire`, `M300Platform`, `XdmaBuffers`, `FlashUpdate`, `UpdateTool`, `UpdateForm`, `E100Gui`, `M300Monitor`, `Discovery`, `UhdTree` |
| `*Proofs` | theorems about the module of that name; `RxDeliveryProofs` is the second one of `RxStream`, `DeviceProofs` that of `DeviceSettings` and `RecordReplay`, `M300Proofs` that of `XdmaRing`, `M300Control`, `M300Tx`, `FlashUpdate` and `UpdateTool`, `HostProofs` that of `GnuRadio`, `UhdStreams`, `UhdRate`, `SdrppSource`, `SdrangelInput`, `ClockReference`, `HdsdrExtIo` and `SoapyDevice` |

`MCHosts` and `MCM300` are not compositions in which the parts meet: the parts share
no state in the program (a host program is one process with one adapter; the
pieces of the M300 driver are separated by its mutexes). Each behaviour picks a
`scene` and exercises that part while the others keep their initial state, so the
states of the union are the sum, not the product, of the parts' states. Fairness
conditions speak of steps of one part and ask nothing of a part that is idle.
A property of such a run is the conjunction of the parts' properties.

### 2.2 RxStream

A sample is its position in the device's sample clock with the RF setting and
the START it was taken under; contents are abstracted. State and code:
`frame`/`nextBuff` are the frames' claims and `_next_recv_buff_index`; `wpc`,
`stopFlag`, `wbuf` the worker (`rx_thread_func`, `_rx_thread_stop`, the buffer it
holds); `fifo` is `_rx_fifo`; `pending` is `_pending_rx_buff` with its offset and
expectation; `cont` is `_continuity`; `cpc`, `call`, `out` one call of the
application's `recv()`; `kpc`, `op`, `resume`, `drained` one control call. The
worker's loop is split where another thread can see the difference: claim,
receive, push. The control call is split at the join, the flush, each command,
each drained datagram. Each command has three outcomes: answered, executed but
unanswered (the caller sees an exception), lost. The network loses, corrupts and
holds back datagrams as `NetFaults` allows; the kernel socket drops what does
not fit. The LO command answers with a status; a command the device refuses is
the "lost" outcome, since the setter throws in both.

An unsupported sample format makes `recv()` consume a packet and its
discontinuity mark without delivering it (`:434-458`); it is in `rx_session`, and
kept out of `rx_network`, whose `SegmentContract` speaks of delivered samples.

### 2.3 CtrlChannel and RegisterBus

`owner` is `_ctrl_mutex`, `txSeq` is `_tx_seq`, `pc`/`cmd`/`result` belong to the
calling threads. Requests and responses are sets in the network and the socket
buffer, so that they arrive in any order, may be lost, and may stay around for
later commands; `id` numbers commands for the history variables `sent` and
`effect` and is not visible to the code. A datagram outlives its command by at
most `Lifetime` others, fewer than there are sequence numbers: with more, an
answer that is 65536 commands late would be accepted, which no channel with a
16-bit number can prevent. A receive error leaks the claimed frame, after which
every command times out (`errors`).

`RegisterBus` has six actions: a call begins, takes effect, finishes with its
answer or is abandoned; an abandoned write stays in doubt and may take effect
later or never. The refinement maps the calls of `CtrlChannel` to pending
commands, `effect` to the answer of the one that holds the mutex and the writes
still in the network without a waiting caller to `doubt`. The device is external
code, modelled from what `wait_for_ack` and the setters expect: it executes a
request when it arrives and answers once. The network does not duplicate.

### 2.4 TxFlow

`spc` is the place in `send_impl`: head of the loop (`_stop_requested`), check of
`_ready_to_send`, wait on the condition variable, packet built and counted,
buffer released to the socket. `clock` is the caller's `time_stamp`, passed from
call to call; `left` and `sent` are the two counters of a call. A wait ends at
any time (20 ms timeout, READY, or abort). `ready`, `stopReq`, `stats` are shared
with the flow-control thread and with begin, end and abort. The device pauses
at `High` packets and is ready again at `Low`, reports through a queue of
datagrams, may repeat its last word, and sends asynchronous events. The send
ring never runs out of buffers, since a packet's buffer is released before the
next one is claimed; the timeout branch of `get_send_buff` is therefore not in the
model. A call has one buffer: the time stamp of a second buffer is left out.

### 2.5 E-series control: DeviceSettings, ClockReference, RecordReplay, RecordTools

* **DeviceSettings**: `cache` is every `_x`/`_x_valid` pair. A setter is the call that
  holds `_settings_mutex`: prepare (the epoch change of a retune), command, readback
  (sample rate only), finish. `late` are commands the host gave up on that the
  device still executes; a stream writes the channel enable past the cache.
  `CacheHonest` (proved) says the cache and the device agree unless a command of
  that register went wrong, and a setting that failed is never skipped.
* **ClockReference**: the command, its answer, the wait for readiness, and UHD's
  `_clock_source` with `ref_locked`, over signals that come and go (`ClockTruthful`).
* **RecordReplay**: one chunk after the other, over commands on the control bus
  (E200, E206) or on the record port (E100); which device it is (`Joined`) is chosen at
  the beginning. Datagrams are lost or late; calls give up and leave data and answers
  behind for the next. `TransferExact` (proved): a call that reports success moved exactly
  the data, over the split protocol unless leftovers or another thread's command met it.
* **RecordTools**: the programs around it: open with or without hello, radio
  settings read back, the warm-up recording, block and length, start, polling,
  chunks, the checks before and after; amplifier, upload, Ctrl-C, the stop guard.
  A chunk here arrives or throws. `FileIsRecording`, `FailsOnlyOnTrouble`, `AirIsQuiet`,
  `ReplaysAsAsked`; and over all inputs the agreement of the programs' length limits
  with the drivers', the nearest sample rate, and the pauses between packets.

### 2.6 Host adapters

* **HdsdrExtIo** (`gui`, `rx`, `cb`: HDSDR's thread, the receiver, the callback threads;
  `flags`, `tune`, `free`/`filled` the shared state). `HostCallbacksSafe`: a buffer is in one place
  unless a thread held it when a start refilled the queues (`BuffersOnce`); HDSDR is called
  by the thread started last, or by one whose handle a start gave up after its five seconds
  (`OneCaller`); a stop leaves no other thread, unless a call failed or a stop came from the
  callback during a start, and after `CloseHW` also those are gone (`NobodyLeft`); no block waits
  with all callback threads asleep (`BlocksNoticed`). `LoApplied`: the device ends with a
  frequency asked for since the last quiet moment, not always the last of them. What the code
  does to a busy buffer and to a sleeping callback thread is in section 5.
* **GnuRadio** (`block`: where each scheduler thread is; the mutexes follow from it):
  `CleanIsApplied` and `NoCircularWait`, both proved.
* **UhdRate**: tick rate of object, streamer and device agree, absolute time survives
  a rate change. **UhdStreams**: who owns the stream, what it believes of the
  device, and where the next send begins. **UhdTree**: construction, gains, time
  and time source behind the property tree, and which backend an address opens.
* **SoapyDevice**: three mutexes, threads that read, write and control;
  no circle of waits, a rate change keeps the streams, the time base is the device's.
* **SdrangelInput**, **SdrppSource**: flags, worker and device; a worker is joined
  before the next, a stopped input is quiet, what runs is what is shown or the user
  was told; SDR++'s join ends though the worker waits for a reader.
* **Discovery**: plain, SoapySDR and UHD searches over boards that answer several
  copies of a request, late or never.

### 2.7 M300

* **M300Control**: the processes with their lease, probe, session and sequence number,
  over one queue of requests and one of answers that whoever reads first gets. `log` is
  history: every request with the one whose answer it returned.
* **XdmaRing**: START, BUSY, recovery, STOP and unlock of transports that may crash;
  the two ways to read. **XdmaBuffers**: the pool, claims, the search for a header,
  every way out of a read, partial and failing writes.
* **M300Rx**: `job` holds the commands a start or stop has still to send, each of
  which may fail executed or not; `fpga` is the framer, `pend` and `call` the packet and
  the recv under way. Two instances: one buffer of words, and one per channel.
* **M300Tx**: sender, worker and controlling thread around `_send_queue`; the callback.
* **M300RfControl**: each call command by command over a chip that may mute itself.
* **AxiCores**: the cores' fixed-point formats, the tap choice, and the objects' memory.
* **M300Wire**, **M300Platform**: packets and samples with and without AVX2; pins and
  SPI registers through two objects with a copy each.
* **FlashUpdate**: erase, program, read back, compare, reboot, over up to three runs
  that may be killed. **UpdateTool**: window, worker and board until the window closes.
  **UpdateForm**: the form's fields frame by frame, the buttons, the search for a board.
* **E100Gui**, **M300Monitor**: a handler is the list of its steps, the threads run between.
* **RxProbe**: `Settled(Parse(line))` is the options of a command line, word by word in its
  order; `probe` the main thread from the set-up of the device to the report; `readers`
  and `queue` the threads that take blocks in turn (`next_block`) and the blocks the main
  thread waits for in turn; `tally` what is reported. The four ways to read (transport,
  loop, driver's ring, threads) share the measuring of a packet. `LossesAddUp`,
  `CleanIsContiguous`, `SuccessIsComplete`, `NobodyStuck`, `NothingLeft`, `MeasuredAsAsked` and,
  over all lines of three options, `OptionsAgree`.
* **TxProbe**: the layout of words and packets, their numbers over batches, and a write
  that fails in the middle of one: `SignalWhole`, `PacketsFit`, `PassIsTrue`.

## 3. Runs

| Run | What is explored | What it shows |
|---|---|---|
| `rx_session` | three of START, STOP, retune with answered, unanswered and lost commands, four packets, losses and corruption, two frames, FIFO of three | types; a stopped stream holds no frame; gaps are counted; one socket reader; positions only grow; no old sample after a retune or a START |
| `rx_network` | late and reordered datagrams, one receive error, both forms of `recv`, more frames than FIFO entries | a frame has one owner and none is lost, also on overwrite; a call returns one contiguous segment with the right gap flags |
| `rx_live` | perfect network, five packets, fewer frames than FIFO entries, fairness | the host loses nothing; the socket is drained; each control call ends |
| `rx_pinned` (violation) | frames fewer than FIFO entries, as deployed (2048 and 4096) | queued packets pin the pool, so the FIFO never drops its oldest entry as its comment says |
| `rx_race` (violation) | control calls overlap `recv()` | while a retune of a running stream drains the socket, a `recv()` has started the worker again, and both receive |
| `rx_stale_start` (violation) | START on a device that already streams | samples of the old stream arrive after the drain |
| `rx_leak` (violation) | START, one receive error, STOP answered and finished | the frame stays claimed though worker and FIFO are gone |
| `ctrl_bus` | two threads, four commands, sequence numbers of three values, lifetime two, bad replies, one receive error; threads and values symmetric | no foreign answer is accepted; the channel implements `RegisterBus` |
| `tx_flow` | three calls of three samples with two per packet, blocking or not, with burst flags; two of begin, end, abort; one repeated word, one event | types, contiguous packets, framed bursts, at most one late packet, pause clock, counts, sends that return |
| `hosts` | each part of `MCHosts`, with failing and unanswered commands and every interleaving of its threads | `CacheHonest`, `TransferExact`; `HostThreadsSafe`: no circle of waits in GNU Radio and SoapySDR, SDR++'s join ends, a stop leaves no thread behind, HDSDR's buffers and callbacks (2.6), each but for its excuse (section 5); `HostBeliefs`: what each part keeps of the device is so |
| `m300_parts` | each part of `MCM300` | `RingExclusive`, `OneOwner`, `StaleAnswerBounded`, `ActiveIsTrue`, `StampHonest`, `LossCounted`, `WireInOrder`, `DrainedBeforeOff`, `RelatchedOrPending`, `StopReturns`; `NothingStale`: nothing of an earlier run, setting, command or connection is taken for this one's |
| `m300_probe` (violation) | two processes probe one M300 and open it | the probe of a process that is then rejected reads the answer the owner waits for |

**Bounds.** Each is a constant named in its module.

* *RX.* A packet of two samples and requests of one and three reach every split: part
  of a packet, the rest of one and part of the next. Two frames and a FIFO of three
  have the deployed relation, four frames and a FIFO of two the other. Four or five
  packets cover a lost packet between two delivered ones, before and after a restart.
  Three control calls reach start, retune, stop and each followed by another after a
  failure. `SockCap` is at most `MaxDrain`: the code drains up to 65536 datagrams and asks
  for a socket buffer of 64 MiB, which holds fewer of the usual 1.4 KB datagrams.
* *Control and TX.* A counter of three values wraps within four commands and is the
  smallest that a lifetime of two allows. Three packets with a threshold of two go
  through ready, pause and ready again; two control operations reach end then begin.
* *hosts.* Two values of a setting, so that each can be the wrong one; two failures,
  so that the handling of a failure can fail too; three to five calls, so that a
  failed one, the one that meets its leftovers and one after that fit. A transfer of
  three units in blocks of two has a short last block. HDSDR is explored with two
  frequencies and three calls, and with one frequency and four. A recording has two
  blocks, its warm-up one; two recordings in a run; three troubles, so that a guard's
  stop can be lost after a lost command. The receiving probe reads five packets in
  blocks of two, the last block short, through a queue of one place per reader; the
  device loses one packet or a whole turn of the sequence number. All set-ups are
  explored with the transport, whose set-up is that of the other ways too; those
  begin on a device set up before (`OneSetUp`). The sending probe has three packets in
  batches of one and two, and a number of two values.
* *m300_parts.* Two channels and packets of four words give a short packet, a full one
  and a split in the middle of a sample time; the packet counter wraps within a
  behaviour. Three transports meet in the ring: one that runs, one that recovers, one
  that waits. In the control part at most two messages are under way
  (`FewUnderWay`), more than a command and a probe at once need, and as the processes
  are alike one of them is taken to begin (`OneBegins`; the runs of the others are
  renamings). Three flash runs fit two that fail in different ways and one that
  succeeds on what they left. Numbers with widths (bytes of 5 or 16 values, coefficients
  of 16 bits) keep their rounding and wrap-around; `MCM300` states each instance.

The search of `UpdateForm` sends nine requests to three destinations; one that arrives
is enough, so they are one step with the boards that heard. `UpdateForm` has one event
(something typed, a lost packet) per behaviour and two buttons.

**Deadlock** is checked in the RX runs. It is switched off where the program may stop:
callers that make no more calls, a tool that has ended.

**Fairness.** `LiveSpec` of `RxStream`: the worker runs, waits time out, a control call
that began goes on, and the application keeps calling `recv()`, as the loops of all
adapters do. The device and new control calls have none. `LiveSpec` of `TxFlow`: the
sending and the flow-control thread run; the device plays out what it has and
reports that it is ready. The last is an assumption about the network as well: READY
is sent once, and if it is lost a blocking send waits until it is aborted.
`TxFairness` of `M300Tx`: the steps of the thread in `stop`, of the sender in its call and
of the worker go on, each in a thread of its own.
New calls, new failures and messages have no fairness anywhere.

## 4. What the violations mean

They are disagreements between a statement of the repository and its code, with
the quotations in `PROJECT.json`. `rx_race` and `rx_leak` are code bugs reachable
with the adapters as they are (`src/sdrangel/iqtaxi_worker.cpp:301`,
`src/sdr++/main.cpp:509` call `recv()` on their own threads, and a retune joins the worker
that the next round of `recv()` starts again; one receive error is enough for the other).
`rx_pinned` and `rx_stale_start` are comments the
code does not live up to. `m300_probe`: the comment
at `device.cpp:77` says that a rejected process cannot disturb the owner, but
`makeDevice()` probes (`device.cpp:161`) before it takes the lease. The passing runs
state what holds when control calls and `recv()` do not overlap
(`ConcurrentControl = FALSE`) and START follows a STOP (`StopBeforeStart`).

## 5. What is excused, and what was seen

A property holds except where its excuse says. These are the excuses, and other
behaviours met while modelling that no statement of the repository contradicts.

**E-series driver and its tools.** After a timed-out `setSampleRate` the readback decides.
A recording read over the split protocol may hold data of an earlier call that gave
up. `read_iq_record_all` after a smaller length was configured returns the beginning
of the old recording. The replay guard is armed only after the start was answered, so
a lost answer leaves an E200 or E206 transmitting; so do two lost stops; the E100's
program has neither guard nor signal handler. The last two packets of a chunk have no
pause between them on an E200 or E206.

**UHD.** The owner of the receive stream is a weak pointer: a new streamer may START
while the destructor of the old one still has its STOP to send
(`iqtaxi_io_impl.cpp:18`). A streamer that reads the rate while it changes may keep the
old one until the next change. `set_time`'s writes of the time-sync register are
outside `_ctrl_mutex`: with an overlapping `update_time_source` the device may be left on
the old source or without the time; if the second write fails the bit stays up, and
the next `set_time` makes no edge. The first kept source is `UNKNOWN` (4), the load bit's
value, until the constructor sets "internal". On the M300 `set_time_next_pps` sets the
time at once. `set_frontend_mapping` constructs its exception without throwing it
(`iqtaxi_impl.cpp:1131`). A construction that fails leaves clock source and DMA settings.

**SoapySDR, SDRangel, SDR++.** Stops happen before the `try`: a `stopRx` that fails leaves TX
stopped. A lost READY leaves a writer with the mutex deactivation needs. `_sample_rate_hz`
is 1.0 until a rate is set. In SDRangel a failed `start_stream` keeps device and lease, so
that the next start finds the device busy (`iqtaxi_worker.cpp:45`); a failed rate change
leaves the input running without a stream, and later settings are accepted
silently; after a partly applied change, going back or repeating it sends nothing
(`iqtaxiinput.cpp:285`). SDR++'s `stopWriter` must come before the join, and does.

**HDSDR, GNU Radio.** `join_cb_thread` notifies without the mutex, so the callback thread may
sleep through its end (`ExtIO_ANTSDR.cpp:519`), and StopHW or CloseHW
waits for it for ever: no call of HDSDR is shown to return. A start whose wait for the earlier
thread gives up (`:471`) runs beside it, and refills queues while it holds a buffer (`:482`),
so that the receiving thread may fill the buffer HDSDR is reading (`twice` and `orphans` in
`HostCallbacksSafe`). A rate change that fails releases the
receiver and leaves the callback thread to the next close (`:1024`, `loose`); so does a start that fails
to create the receiving thread, and a stop that HDSDR calls in its callback during a start. A
start that cannot create the callback thread joins the receiving thread with `st.mutex` held,
which that thread takes in every round (`:869`): it may wait for ever. A deferred frequency that the
receiving thread has taken but not set and one that `SetHWLO` sets directly (`:919`) pass each other, so
the device may end with the earlier of the two while HDSDR shows the later (`asked` in
`LoApplied`). After a failed rate command GNU Radio's context may keep a rate the device has not.

**M300.** After a failed command going back to the kept rate or frequency sends nothing
(`m300_ad9361_ctrl.cpp:382`, `:430`); a failed initialisation leaks what it opened; getters
report 0 before the first setter. A write through one copy of the pins undoes what
the other object asked. Received buffers are handed out strictly in order: one the
program keeps stalls the pool; a second packet in one read is lost silently; a failed
write leaves a cut packet and nobody is told; a send buffer dropped without commit
would be written whole. `axi_adc_delay_calibrate` loses a one-tap gap behind two errors
and writes past its arrays with more than five gaps; a coefficient at 1.99997 or
above loses a carry; the first mask is compared with memory nobody set, and the
pattern monitor turns channels on behind it. A timed-out probe's late answer makes the
next probe fail. An owner that follows owners whose commands timed out may be given
several of their answers, one after the other, until its first own one, since `_seq`
starts at zero again. The vector conversion of NaN differs from the scalar one, and the
model has no NaN.

**Tools and consoles.** In the E100 console a receiving thread that fails stays joinable, so
that the next Start terminates the program (`e100_gui.cpp:1583`); an update started in the
moment between the two flags of the one before does too (`:1929`); nothing keeps a
stream from being started during an update. The M300 monitor counts a time-stamp gap at
every reconfiguration and does not undo a start that throws half-way. The update
window waits 30 s for a silent board; its search overwrites an address typed
meanwhile, reads the address under a mutex the typing does not take, and closes its
socket before it forgets its number (`iqtaxi_firmware_update_gui.cpp:706`); a UOE answer
with only an IP leaves the MAC of another board in the form.

**M300 probes.** With `--reader-threads 2` the reader that finds no block left ends the
queue (`m300_rx_iq_probe.cpp:1067`): the block the other still has, or its error, is
dropped and the program ends well. One of two readers may also fill the queue behind the
other's block, so that all three threads wait for ever. With threads the number of blocks is
fixed beforehand, so bytes that are no packet make the program stop short of what it was
asked to read. A failure leaves the device streaming. `--c2h-test-source --iq-source`
reads the converters and leaves chip and framer untouched. A packet the transport loses
when it writes it is not in the way of the sending probe's PASS
(`m300_tx_iq_probe.cpp:525`).

**Discovery.** The plain searches take any answer as confirmation. `{device: E206}` is
answered by two factories. UHD lists a board that answers both probe formats twice, and
drops the serial of a board when it begins with a byte of 80 to 99 decimal or is empty
(`iqtaxi_impl.cpp:335`).

## 6. Theorems

The theorems of a module `X` and their proofs are in `XProofs`, those of `DeviceSettings` and
`RecordReplay` in `DeviceProofs`, those of `XdmaRing`, `M300Control`, `M300Tx`, `FlashUpdate` and
`UpdateTool` in `M300Proofs`, the second part of those about `RxStream` in `RxDeliveryProofs`, and
those about the host programs in `HostProofs`. Modules that share names with others are instantiated
there (`Flash`, `Update`; `Sdrpp`, `Sdrangel`, `Clock`, `Hdsdr`, `Soapy`). All are for every value of the constants, under the assumptions named in the modules; what a
theorem asks beyond these is a hypothesis in its statement.

* **RxStream** (`ConcurrentControl = FALSE`): `TypeCorrect`, `FramesOwnedOnce`,
  `NoFrameLost`, `OneSocketReader`. Frame ownership is not inductive by itself:
  that a claim gives a fresh frame needs to know that the frame at the ring
  index is in nobody's hands, and that a flush releases what it should
  needs to know that no worker holds one. `IInv` adds `ProtocolInv` (from the join to
  the end of a control call there is no worker; the worker holds a buffer exactly
  at its push; the frame at the index is claimed while it receives) and
  `FramesAccounted`. The lemmas `UnheldUpdate` and `NextFrameUpdate` say which
  changes of the pool and of the index leave ownership alone.
* **RxStream, what is delivered** (`RxDeliveryProofs`, `ConcurrentControl = FALSE`). The proofs first
  abstract from frames: `Queued` and `InHand` are the packets in the FIFO and in the
  worker's hand, and a lemma per action says what it does to these and to the socket
  (`ControlViews` and its like). On top of `IInv` and of `QuietInv` (without a worker and
  outside a flush the stream is empty; a frame that is not free is held) each theorem has
  an invariant of its own:
  - `StopReleasesPool` follows from `QuietInv`.
  - `DeliveredInOrder`: `OrderInv`: socket, hand, queue and reader hold packets in the order of
    their stamps, and the reader's expectation is past none that is still to come.
  - `RetuneIsolated`, `StartIsolated`: while a control call drains, the drained datagrams and
    those still in the socket are at most `SockCap` when the device is still (`DrainInv`), and
    those beyond the rest of that budget have the new setting (`TuneInv`); nothing of an
    earlier stream is left where a START is sent (`StartInv`).
  - `SegmentsHonest`: `SegmentInv` says of a call at each place of its loop what it has
    collected (`Segment`), that its next sample continues it (`InCall`), and that the marks of the
    packet being read are those of the gap before it (`FlagsHonest`).
  - `GapsCounted`: the worker counts a gap when it pushes, the reader meets it later. `LedgerInv`:
    there are numbers, one per queued packet, that bound the gaps met with it and that the
    worker's statistics cover at the end of the queue.
  - `HostLosesNothing`: `PerfectInv`: the socket holds exactly the packets before the next one,
    and the worker expects the first of them.

  Their hypotheses are conditions of the deployment. `PoolBeforeFifo`: the FIFO has 4096
  places and the pool 2048 frames. `DrainCoversSocket`: see the bounds in section 3.
  `NoOvertaking`: a cable between board and host does not reorder; `rx_network` shows what holds
  when it does. `StopBeforeStart` and known formats: as the adapters use the stream.
  `NoReceiveErrors`: `recv(2)` on the socket does not fail; `rx_leak` shows what happens if it does.
* **CtrlChannel**: `TypeCorrect`, `AcceptedAnswerIsOwn`, `ChannelImplementsBus`.
  `IInv` says that one thread at a time waits and holds the mutex, that what is
  in the network is at most `Lifetime` commands old and carries its command's
  number modulo `SeqMod` (`InWindow`), and that request and response of the
  current command agree with what the device did (`OneExecution`). Because
  `Lifetime < SeqMod`, the number identifies the command (`SeqIdentifies`). The
  refinement has one step per action: sending is a stutter, executing the
  current request is `Effect`, a stale one `LateEffect`, accepting is `Finish`,
  a timeout or an error `Abandon`, a loss `Forget` or a stutter.
* **TxFlow**: `TypeCorrect`, `SamplesContiguous`, `BurstsFramed`, `AtMostOneLate`,
  `StatisticsAgree`, `PauseClockTrue`. `SendInv` adds to each property what the sending
  thread knows at each place of its loop: the next time stamp follows the last
  packet also in the middle of a call (`WireInv`), a call has sent nothing exactly
  until its first packet (`BurstInv`), a thread past the check has sent nothing
  since the last pause, one past the head nothing since the last abort
  (`LateInv`), and the count is ahead of the wire only between counting and
  release (`CountInv`). `SenderOwns` and `DeviceSteps` dispose of the steps of
  everybody else.
* **DeviceSettings**: `CacheIsHonest`, `SettingsTypeCorrect`. `CacheHonest` is not
  inductive: `SettingsInv` adds that a register with a command the device may still
  execute is in doubt (`LateDoubted`), that a call under way asks for a value the cache
  has not (`AskedAnew`), and that only the rate is read back (`OnlyRateReadBack`).
* **RecordReplay**: `TransferIsExact`, `TransferTypeCorrect`. That a finished call moved exactly the
  data says nothing of the call under way. `TransferInv` adds that no number on the answers'
  bus is ahead of the last command's (`Numbered`) and, for a call that met no leftovers, two
  things. While it reads (`Reading`): what it has and what is still in the record port's queue for
  this chunk are the next units of the device's take (`Chunk`). A datagram lost from the
  queue leaves too few and the call waits for ever or throws; it cannot shift the
  units behind it. With commands and data on one port, the chunk begins behind the answer to
  this very command (`Behind`). While it uploads (`Writing`): before the device has answered, what it
  still awaits and what is still to be sent add up to the chunk (`ChunkUnderWay`); once the answer to
  the last command is on its way (`Answered`), the device's memory holds the waveform up to the end of
  the chunk (`ChunkStored`). On the record port leftovers do not matter, because the wait for an answer drops
  them: the excuse of the property is asked for only over the split protocol.
* **GnuRadio**: `CleanBlocksAreApplied`, `LocksDoNotCross`. `GnuInv` adds to the property what
  the thread of a block knows at each place: what the context remembers is the
  device's rate unless a rate command failed (`RateRemembered`), a copy whose flag is
  about to be cleared is applied (`CopyApplied`), so is the configuration of a block
  about to stream (`ArmedIsApplied`), and a setter works on a stopped block (`Threads`).
* **UhdStreams**: `StreamersKnowTheDevice`, `BurstsContinue`. That a streamer's belief is the device's
  state needs to know whose belief counts: one streamer is the owner and beside it others at
  most die (`OneOwner`); what a call has still to do says what its streamer believes meanwhile
  (`StreamerShape`); and a device that streams has a streamer that knows, or that is about to
  stop it, unless a command failed (`SomebodyKnows`). `StampFollows`: the transport's
  stamp is where the last send ended, whatever the calls in between threw.
* **UhdRate**: `OneRateForAll`, `TimeSurvivesRates`. `RateInv`: a thread between the new rate and
  its publication is alone there and the object's rate is the device's (`OnePublisher`), so is a
  thread that creates a streamer (`OneCreator`), and the streamer has the device's rate whenever
  neither is under way (`StreamFollows`); in between it may have any. The time is a product of
  seconds and rate, and the division gives the seconds back whole (`WholeSeconds`).
* **SdrppSource**: `StoppedSourceIsGone`, `ShownIsTuned`. `SdrppInv` says for each step of start and
  stop what is there: the thread up to the join (`ThreadWhile`), a stopped writer from the
  first step of the stop to the one behind the join (`WriterStopped`), the device from the
  opening to the end (`HeldWhile`).
* **SdrangelInput**: `StoppedInputIsQuiet`, `ShownIsSo`. Two flags and a thread are related at
  every place of a call: the worker's flag outlives its thread but not the join
  (`FlagMeansThread`), only a call made on a running input reopens or reconfigures
  (`CallsOfRunning`), a thread that receives has the stream (`StreamIsHeld`).
* **ClockReference**: `KeptSourceIsSelected`. `ClockInv`: while a switch waits for readiness the
  device has what is wanted, otherwise what is kept.
* **HdsdrExtIo**: `HdsdrCalledByOne` (`HostCallbacksSafe`), `LoIsOneAsked` (`LoApplied`). Neither asks for
  more than the constants' assumption; where the code's promise ends is in the statement, as the
  buffers, threads and frequencies it speaks about. `HdsdrInv` has a part per question. For
  the frequency, `LoFollows`: while a change is under way the device's frequency and every copy of
  one (the caller's, the worker's) are among those asked for since, and without one the
  device's is. For the threads, `OneCaller`, and `Tamed` while no thread got loose: a stop by the callback meets
  neither a start nor a change of the rate (`StopsInCallback`), and a source that does not run has
  no thread but a callback thread told to end (`NothingRuns`); `RxJoined` says that behind its join there is no
  receiving thread, also after failures. For the buffers, `BuffersOnce` with the
  places where a thread holds one (`InItsPlace`); `UsedAppend`, `UsedTail` and `HoldersMove` count
  what a queue and the threads have when a buffer moves. For the blocks that wait, `Noticed`: a thread
  about to sleep has seen an empty queue and still has the mutex (`Dozing`).
* **SoapyDevice**: `SoapyDeadlockFree`, `RateRestoresStreams`, `SoapyTimeIsHonest`. A call that waits has none
  of its mutexes, or has the control mutex and waits for those of the streams; one that works has
  all of them (`AllProgress`), and no mutex has two holders (`Exclusion`): the first two facts break every circle.
  What a rate change has still to do is, with `active`, what it found at its begin: stops of what
  is active and then the rate, or starts of what is not active yet (`RatesWork`); `RateIsAlone`
  says that meanwhile no other call works, because each needs a mutex the rate change has.
* **XdmaRing**: `LockHolderIsAlone`, `RingTypeCorrect`. `RingInv`: a client that has started is
  on the ring and its engine runs (`StartedIsOn`, `StartedHasRing`), the lock is held only
  while the ring is in use (`LockOnlyInUse`), and a burst is its holder's
  (`BurstIsOwn`). The lemma `Alone`: while one client is on its way or on the ring, no
  other is.
* **M300Control**: `OwnerHoldsLease`, `StaleAnswersBounded`. `OneOwner` is inductive with the types
  (`LeaseInv`); `MoveKeepsLease` and `LeaveKeepsLease` say that a step of one process leaves
  the lease of the others. The bound on stale answers rests on `AnswerInv`. The requests whose answers are
  still to be read (`Way`: those in the kernel, then those on their way to the device) are in the
  order in which they were sent, and behind every request whose answer was returned
  (`PipeInv`). Each command of the session has a turn, the number of
  commands of the session that had returned before it, whose remainder is its
  sequence number (`Counts`). A command on the way is less than `SeqValues` turns behind
  (`Ahead`), because each one that returned took an answer ahead of it. So
  an answer whose number fits is of this very turn (`HeadIsRecent`): of a command that failed
  and after which none returned. The hypothesis, that the control device never holds
  more packets than there are sequence numbers, is that of a pipe of 65536 commands that nobody
  reads.
* **M300Rx** (`M300RxProofs`): `ActiveFlagTrue`, `StampsHonest`, `LossesCounted`, `NothingOfOldRuns`,
  `RxTypes`, from one invariant, `RxInv`, under `RxParameters`: packets hold whole sample times. What a start or stop has still to
  send is the end of its list (`JobInv`), so the number of steps left says which command comes
  next (`PlaceOf`) and what holds there: a start that has armed the framer has the stream enabled,
  one that will pulse has no packet of before (`StartFpga`, `StartHost`), a stop past its mode exit
  has stopped the FPGA (`StopInv`); a step that failed makes the call throw, and nothing is claimed of it
  (`CommandFails`). The ring holds packets in order, after those taken (`OrderInv`). For the losses,
  `LedgerInv`: there are a number `v` of the packet the statistics expect and a `k` such that the packets
  before `v`, less those seen and those reported lost, are `k` whole turns of the counter; a burst
  notes only its first number, so `v` may be behind. `Distance` is the arithmetic: the difference of two
  numbers modulo 2^16 is that of their packets less whole turns.
* **M300Tx**: `StopDrains`, `CallbackNeverLost`, `WrittenInOrder`. For the last, `OrderInv` is about the line
  of buffers that the worker still has to write (`Line`: in its hand, then queued) and the packet
  the sender would fill next (`NextUp`): each buffer is a chain of consecutive packets, the last
  packet of one is followed by the first of the next (`LineInv`), and the last packet on the
  wire by the first of the line unless a write was lost since (`WireInv`). `FilledChain` is the
  arithmetic of `send`: packet numbers modulo 2^16, the last packet short, at most `MaxAgg` per buffer.
  `TxInv` adds that an active stream has a worker not
  told to stop and that a send inside its lock and a stop exclude each other
  (`Exclusion`), and that a worker leaves nothing behind when it is gone (`WorkerEmpty`).
* **FlashUpdate**: `SuccessIsInTheFlash`, `FlashCommandsWait`. `FlashInv` says at each place of the tool
  what the controller may be doing (`OwnOperation`): an operation of a run that was killed ends
  before the next run erases anything, and one of this run has begun before the tool takes
  "not busy" for its end, because a chunk that was sent is still in the FIFO of a controller that has
  not begun (`SentIsThere`). From the start of the reading nothing changes the flash, so what was read
  is there (`ReadIsThere`), and the ring, restarted, holds the packet of the chunk that is asked for or
  none (`OnePacket`).
* **UpdateTool**: `ClosingNeverWaits`, `CompleteWasSaid`. `UpdateInv`: a task that looks at the flag has
  shown the window its socket, and a window that closes has set the flag (`FlagsMeet`): whichever
  is first, one sees the other. A completion among the lines, read or not, was said by a script
  that has completed (`ToldOnlyIfSo`).

**Only model-checked**: the properties that `MCM300` and `MCHosts` put together of several parts
(`TypesOK`, `NothingStale`, `HostThreadsSafe`, `HostBeliefs`). Of their parts `NoStaleSamples`,
`CleanIsApplied`, `NoCircularWait`, `JoinEnds`, `SourceStopped`, `WorkerJoined`, `ClockTruthful`, `RatesAgree`,
`TimeKept`, `StartedIsStreaming`, `StoppedIsQuiet`, `SendsContinue`, `RunningOrTold`, `SettingsShown`, `Tuned`,
`HostCallbacksSafe`, `LoApplied`, `SoapyNoCircle`, `RateKeepsStreams`, `TimeBaseHonest`,
`FlashVerified`, `CommandsMeetIdleChip`, `CloseIsPrompt`, `CompleteIsTrue`
and the types of the modules above are proved; the other parts are of modules without theorems:
`RecordTools`, `UhdTree`, `Discovery`, `AxiCores`,
`UpdateForm`, `M300RfControl`, `E100Gui`, `M300Monitor`,
`M300Wire`, `M300Platform`, `XdmaBuffers`, `RxProbe`, `TxProbe`. Liveness (`SocketDrains`, `ControlReturns`,
`SendReturns`, `StopReturns`) is out of reach of the prover, as is ENABLED, and so
is induction over data: what the folds and recursive functions of `M300Wire`,
`AxiCores` or `RecordTools` compute for every input is checked over bounded inputs only.

## 7. What is not modelled

* **Contents and formats** beyond `M300Wire` and `AxiCores`: sample values in the streams,
  PACKET and SYNC capture, the channel mask of the E-series, queue-depth statistics, logs.
* **Data races** beyond the interleavings of the steps above, destruction of objects in
  use, integer and NaN cases the builds leave undefined.
* **Hazards seen and left out**: with two channels the E-series worker rounds a time-stamp
  step up and the consumer down (`super_recv_packet_handler.hpp:595`); RX and TX streams of
  the M300 write one channel-enable register (`m300_tx_streamer.cpp:413`); `finish_rx_epoch_change`
  may throw after the cache was written (`iqtaxi_udp_impl.cpp:61`); the GNU Radio sink's pause
  (`tx_sink_impl.cpp:285`); `setTimestamp` is two commands without a mutex
  (`iqtaxi_udp_impl.cpp:217`). In the model, but not in a property: the
  second write of the channel enable of an M300 (excused by `began.disturbed`), another thread's command and
  old data over the split protocol (`outcome.met`), GNU Radio's rate after a failed rate command (`unsure`),
  HDSDR's stop that waits for ever. The notes of the hazards in `PROJECT.json` say so too.
* **Inputs left out**: a packet of an M300 with a header and no payload, which the FPGA does not
  send. `load_next_packet` would keep it and return false (`m300_rx_streamer.cpp:617`): `recv()` would end
  its call as after a timeout, and the next one would find a pending packet without words. `Sizes` is within
  `1..Full`.
* **Calls left out**: an upload that follows a failed one without `configure_iq_replay`. The call
  itself does not rewind the device (`e200_impl.cpp:415`); `WriteAll` is that call with the
  configuration in front of it, as the programs make it (`e200_replay_iq_test.cpp:509`,
  `e100_replay_iq_test.cpp:199`). Without it the upload would go on at the offset where the failed one
  ended. In `SdrangelInput`, `deserialize()` (`iqtaxiinput.cpp:117`), which writes `_settings` without
  the mutex and without applying them: on a running input they are shown and not on the
  device until the next change. The setters of rate and frequency copy `_settings` before the mutex
  (`:167`, `:179`), so that of two overlapping ones the later undoes the setting of the earlier; in the
  model a call is given whole settings and holds the mutex from its begin.
* **Programs**: the examples other than the record, replay and update tools and
  the two M300 probes (they exercise the modelled calls in a straight line); drawing, option parsing and
  file dialogs of the GUIs; the sine tables and register sequences of the converter
  cores; the default parameters of the AD9361.
* **Code nobody calls**: `chdr_header.cpp`, tick conversions of `time_spec.cpp`, the prefetch of
  `xdma_zero_copy.cpp`, `copy_channel_samples`.
* **Vendored code**: the AD9361 driver and Dear ImGui; the firmware is binary.

## 8. What is left

1. **Proofs**: the RF control of the M300, the record tools.
2. **Refinement**: the settings layer directly over `RegisterBus`; `RxStream` under the UHD
   and SoapySDR streamers instead of their one-step native calls.
3. **Several channels** in the E-series streams, with the two roundings of section 7.
4. **UHD**: the rest of the property tree and the receive streamer's conversion loop.
