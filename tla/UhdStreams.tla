------------------------------ MODULE UhdStreams ------------------------------
(***************************************************************************)
(* The streamers of the UHD device: who owns the receive stream and what   *)
(* it believes of the device, and the time stamps of what is sent.         *)
(* Source: src/UHD/IQTAXI/iqtaxi_rx_streamer.hpp, iqtaxi_tx_streamer.hpp   *)
(* and the ownership test of iqtaxi_io_impl.cpp.                           *)
(*                                                                         *)
(* A command of the native stream is one step; one that fails throws and   *)
(* may have been executed.  Two receive streamers can be under way at once *)
(* only while one of them is destroyed: the owner is kept by a weak        *)
(* pointer, which is empty before the destructor has sent its STOP.        *)
(***************************************************************************)
EXTENDS Naturals, Sequences

CONSTANTS
    Streamers,      \* receive streamers, made one after the other
    Stamps,         \* time stamps a program asks for
    Sizes,          \* samples of a send
    MaxCommands,    \* bound: calls of the program
    MaxThrows       \* bound: commands and sends that fail

UhdParameters ==
    Streamers # {} /\ Stamps \subseteq Nat /\ Sizes \subseteq Nat \ {0}
    /\ MaxCommands \in Nat /\ MaxThrows \in Nat

VARIABLES
    rxs,        \* each receive streamer: its life, _rx_stopped, commands to send
    epoch,      \* the device's receive stream: "off", "on", "burst"
    txs,        \* the send streamer: timestamp, has_time, the cached SOB
    sent,       \* the last send: where it began, whether it began where it had to
    uhdHist     \* history and bounds

uhdStreamVars == <<rxs, epoch, txs, sent, uhdHist>>

NewStreamer == [life |-> "none", stopped |-> TRUE, steps |-> <<>>]
Untimed == [timed |-> FALSE, stamp |-> 0]
NoSob == [kept |-> FALSE, time |-> Untimed]
Unknown == [known |-> FALSE, stamp |-> 0]

UhdInit ==
    /\ rxs = [s \in Streamers |-> NewStreamer] /\ epoch = "off"
    /\ txs = [stamp |-> 0, hasTime |-> FALSE, sob |-> NoSob]
    /\ sent = [next |-> Unknown, gap |-> FALSE, lostSob |-> FALSE]
    /\ uhdHist = [calls |-> 0, throws |-> 0, failed |-> FALSE, overlap |-> FALSE,
                  burst |-> FALSE]

Counted == uhdHist.calls < MaxCommands
Count(h) == uhdHist' = [h EXCEPT !.calls = @ + 1]
MayThrow == uhdHist.throws < MaxThrows

-----------------------------------------------------------------------------
(* the receive streamers *)

\* Mutant: nobody asks for the owner.
Anybody == TRUE
\* The weak pointer to the owner is empty.
Unowned == \A t \in Streamers: rxs[t].life # "live"

\* get_rx_stream
MakeStreamer(s) ==
    /\ rxs[s].life = "none" /\ Unowned
    /\ rxs' = [rxs EXCEPT ![s] = [NewStreamer EXCEPT !.life = "live"]]
    /\ Counted /\ Count([uhdHist EXCEPT !.overlap = @ \/ \E t \in Streamers: rxs[t].life = "dying"])
    /\ UNCHANGED <<epoch, txs, sent>>

Ready(s) == rxs[s].life = "live" /\ rxs[s].steps = <<>> /\ Counted
Order(s, stopped, steps) ==
    rxs' = [rxs EXCEPT ![s].stopped = stopped, ![s].steps = steps]

\* Mutant: the flag is cleared before the commands.
ClearedFirst == FALSE
StoppedUntilStarted == TRUE

\* A START of a streamer that is started is ignored; one that is stopped begins
\* with a STOP, whatever the device was left with.
StartContinuous(s) ==
    /\ Ready(s) /\ Count(uhdHist)
    /\ IF rxs[s].stopped THEN Order(s, StoppedUntilStarted, <<"stop", "exit", "start">>)
                         ELSE UNCHANGED rxs
    /\ UNCHANGED <<epoch, txs, sent>>

StopContinuous(s) ==
    /\ Ready(s) /\ Count(uhdHist)
    /\ IF rxs[s].stopped THEN UNCHANGED rxs ELSE Order(s, TRUE, <<"stop", "exit">>)
    /\ UNCHANGED <<epoch, txs, sent>>

\* A number of samples: the flag is cleared at once, and nobody sets it when the
\* device has sent them.
StartBurst(s) ==
    /\ Ready(s) /\ Count([uhdHist EXCEPT !.burst = TRUE])
    /\ Order(s, FALSE, <<"burst">>)
    /\ UNCHANGED <<epoch, txs, sent>>

\* The destructor stops what is not stopped.
Release(s) ==
    /\ rxs[s].life = "live" /\ rxs[s].steps = <<>>
    /\ rxs' = [rxs EXCEPT ![s] = [life |-> "dying", stopped |-> TRUE,
                    steps |-> IF rxs[s].stopped THEN <<>> ELSE <<"stop", "exit">>]]
    /\ UNCHANGED <<epoch, txs, sent, uhdHist>>

Gone(s) ==
    /\ rxs[s].life = "dying" /\ rxs[s].steps = <<>>
    /\ rxs' = [rxs EXCEPT ![s] = NewStreamer] /\ UNCHANGED <<epoch, txs, sent, uhdHist>>

Executed(step) == CASE step = "start" -> "on" [] step = "burst" -> "burst"
                    [] step = "stop" -> "off" [] OTHER -> epoch

RxCommand(s) ==
    /\ rxs[s].steps # <<>>
    /\ \/ /\ epoch' = Executed(Head(rxs[s].steps))
          /\ rxs' = [rxs EXCEPT ![s].steps = Tail(@),
                                ![s].stopped = @ /\ Head(rxs[s].steps) # "start"]
          \* A START that succeeds ends what earlier failures have left.
          /\ uhdHist' = [uhdHist EXCEPT !.failed = @ /\ Head(rxs[s].steps) # "start",
                                        !.burst = @ /\ Head(rxs[s].steps) # "start"]
       \/ /\ MayThrow /\ epoch' \in {epoch, Executed(Head(rxs[s].steps))}
          /\ rxs' = [rxs EXCEPT ![s].steps = <<>>]
          /\ uhdHist' = [uhdHist EXCEPT !.throws = @ + 1, !.failed = TRUE]
    /\ UNCHANGED <<txs, sent>>

BurstEnds == epoch = "burst" /\ epoch' = "off" /\ UNCHANGED <<rxs, txs, sent, uhdHist>>

-----------------------------------------------------------------------------
(* the send streamer: send is under a mutex and of one thread *)

\* A call without samples that begins a burst is kept for the next one.
SendSob(time) ==
    /\ Counted /\ Count(uhdHist) /\ txs' = [txs EXCEPT !.sob = [kept |-> TRUE, time |-> time]]
    /\ UNCHANGED <<rxs, epoch, sent>>

\* Mutant: what was sent is added to the stamp, which the transport has advanced.
AddedAgain(stamp, k) == stamp + k + k
Advanced(stamp, k) == stamp + k

\* Mutant: only a kept burst that has a time is attached.
TimedSob(n) == txs.sob.kept /\ txs.sob.time.timed
SobAttached(n) == txs.sob.kept /\ n # 0

\* A call with n samples, or with none that ends a burst, which sends one.  It
\* begins at its own time, at that of the kept SOB, or where the last one ended;
\* the very first without a time asks the device for it.
Send(n, time) ==
    LET with == SobAttached(n)
        eff == IF with /\ ~time.timed THEN txs.sob.time ELSE time
        padded == IF n = 0 THEN 1 ELSE n
        asks == ~eff.timed /\ ~txs.hasTime
        kept == IF with THEN NoSob ELSE txs.sob
    IN /\ Counted
       /\ \E stamp \in IF eff.timed THEN {eff.stamp} ELSE IF asks THEN Stamps ELSE {txs.stamp}:
          \E k \in 0..padded:
            \/ /\ IF k = padded THEN Count(uhdHist)
                  ELSE MayThrow /\ Count([uhdHist EXCEPT !.throws = @ + 1])
               /\ txs' = [stamp |-> Advanced(stamp, k), hasTime |-> TRUE, sob |-> kept]
               /\ sent' = [next |-> [known |-> TRUE, stamp |-> stamp + k],
                           gap |-> sent.next.known /\ ~eff.timed /\ stamp # sent.next.stamp,
                           lostSob |-> n # 0 /\ txs.sob.kept /\ ~with]
            \* The transport throws, with some samples sent, or the device does not
            \* tell its time: has_time is set all the same.
            \/ /\ MayThrow /\ Count([uhdHist EXCEPT !.throws = @ + 1])
               /\ txs' = [txs EXCEPT !.hasTime = TRUE, !.sob = kept]
               /\ sent' = [sent EXCEPT !.next = Unknown]
    /\ UNCHANGED <<rxs, epoch>>

UhdNext ==
    \/ \E s \in Streamers:
        \/ MakeStreamer(s) \/ StartContinuous(s) \/ StopContinuous(s) \/ StartBurst(s)
        \/ Release(s) \/ Gone(s) \/ RxCommand(s)
    \/ BurstEnds
    \/ \E time \in {Untimed} \cup [timed: {TRUE}, stamp: Stamps]:
        SendSob(time) \/ \E n \in Sizes \cup {0}: Send(n, time)

UhdSpec == UhdInit /\ [][UhdNext]_uhdStreamVars

-----------------------------------------------------------------------------
(* properties *)

UhdTypeOK ==
    /\ rxs \in [Streamers -> [life: {"none", "live", "dying"}, stopped: BOOLEAN,
                              steps: Seq({"stop", "exit", "start", "burst"})]]
    /\ epoch \in {"off", "on", "burst"}
    /\ txs \in [stamp: Nat, hasTime: BOOLEAN,
                sob: [kept: BOOLEAN, time: [timed: BOOLEAN, stamp: Nat]]]
    /\ sent \in [next: [known: BOOLEAN, stamp: Nat], gap: BOOLEAN, lostSob: BOOLEAN]

\* A streamer that believes to be started has a device that streams, whatever failed
\* before: so an ignored START is harmless.  Not after a burst, which ends by itself,
\* and not when a streamer was made while another was being destroyed.
StartedIsStreaming ==
    \A s \in Streamers: (rxs[s].life = "live" /\ rxs[s].steps = <<>> /\ ~rxs[s].stopped
                         /\ ~uhdHist.burst /\ ~uhdHist.overlap) => epoch = "on"

\* Without a failure since the last START, nobody streaming means a quiet device.
StoppedIsQuiet ==
    (\A s \in Streamers: rxs[s].stopped /\ rxs[s].steps = <<>>) /\ ~uhdHist.failed => epoch = "off"

\* A send without a time begins where the one before ended, and a kept SOB is on the
\* next samples: the bursts of a program are without gaps of the streamer's making.
SendsContinue == ~sent.gap /\ ~sent.lostSob
=============================================================================
