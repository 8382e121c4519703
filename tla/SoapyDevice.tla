----------------------------- MODULE SoapyDevice -----------------------------
(***************************************************************************)
(* The SoapySDR device: threads that read, write and control share three   *)
(* mutexes; a rate change stops the active streams and starts them again.  *)
(* Source: src/soapysdr/IQTAXI/iqtaxi_Settings.cpp, iqtaxi_Streaming.cpp.  *)
(*                                                                         *)
(* A native call is one step; one that fails throws and may have been      *)
(* executed.  A blocking native send ends when the device has room; a      *)
(* native recv ends by its timeout.                                        *)
(***************************************************************************)
EXTENDS Naturals, Sequences, FiniteSets

CONSTANTS
    SoapyRates,     \* sample rates
    MaxSoapyCalls,  \* bound: calls of the controlling threads
    MaxTransfers,   \* bound: reads and writes
    MaxSoapyFails   \* bound: native calls that fail, datagrams that are lost

SoapyParameters ==
    /\ \E r, s \in SoapyRates: r # s
    /\ MaxSoapyCalls \in Nat /\ MaxTransfers \in Nat
    /\ MaxSoapyFails \in Nat

VARIABLES
    threads,    \* the call of each thread, the native calls it has still to make
    active,     \* _rx_stream_active, _tx_stream_active
    rateKept,   \* _sample_rate_hz
    native,     \* the device: its streams, its rate, room for samples to send
    soapyHist   \* history and bounds

soapyVars == <<threads, active, rateKept, native, soapyHist>>

Streams == {"rx", "tx"}
\* Two threads that control, one that reads, one that writes.
Controllers == {"c1", "c2"}
Threads == Controllers \cup {"reader", "writer"}
Rate0 == CHOOSE r \in SoapyRates: TRUE
NoCall == [call |-> "none", locks |-> <<>>, holds |-> {}, todo |-> <<>>, restart |-> {},
           rate |-> Rate0]

\* The kept rate is a constant until a rate is set, and not what the device has.
SoapyInit ==
    /\ threads = [t \in Threads |-> NoCall] /\ active \in {{}, Streams}
    /\ rateKept = Rate0
    /\ native \in [on: {active}, rate: SoapyRates \ {Rate0}, room: {TRUE}]
    /\ soapyHist = [calls |-> 0, transfers |-> 0, fails |-> 0, unsure |-> TRUE, streamFailed |-> FALSE,
                    lost |-> FALSE, changed |-> FALSE]

\* Mutant: a rate change takes the streams' mutexes first.
StreamsFirst == <<{"rx", "tx"}, {"ctrl"}>>
\* The control mutex, then both of the streams, by std::lock.
RateLocks == <<{"ctrl"}, {"rx", "tx"}>>
\* The mutexes a call takes, one set after the other.
Locks(call) == CASE call = "rate" -> RateLocks
                 [] call = "tune" -> <<{"ctrl"}, {"rx"}>>
                 [] call \in {"start_rx", "stop_rx", "read"} -> <<{"rx"}>>
                 [] call \in {"start_tx", "stop_tx", "write"} -> <<{"tx"}>>
Free(locks) == \A t \in Threads: threads[t].holds \cap locks = {}
Ask(t, call, rate) ==
    /\ threads[t] = NoCall
    /\ threads' = [threads EXCEPT ![t] = [NoCall EXCEPT !.call = call, !.locks = Locks(call),
                                                        !.rate = rate]]
    /\ UNCHANGED <<active, rateKept, native>>
Return(t) == threads' = [threads EXCEPT ![t] = NoCall]
CallCounted ==
    /\ soapyHist.calls < MaxSoapyCalls /\ soapyHist' = [soapyHist EXCEPT !.calls = @ + 1]

-----------------------------------------------------------------------------
(* activateStream, deactivateStream and closeStream, setFrequency, setSampleRate *)

Only(streams, s) == IF s \in streams THEN <<s>> ELSE <<>>
Starts == [rx |-> "start_rx", tx |-> "start_tx"]
Stops == [rx |-> "stop_rx", tx |-> "stop_tx"]
\* Sending is stopped first and receiving started first.
StopsOf(streams) == [i \in 1..Len(Only(streams, "tx") \o Only(streams, "rx")) |->
                        Stops[(Only(streams, "tx") \o Only(streams, "rx"))[i]]]
StartsOf(streams) == [i \in 1..Len(Only(streams, "rx") \o Only(streams, "tx")) |->
                        Starts[(Only(streams, "rx") \o Only(streams, "tx"))[i]]]

Switch(t, call) == CallCounted /\ Ask(t, call, Rate0)
SetFrequency(t) == CallCounted /\ Ask(t, "tune", Rate0)
SetSampleRate(t, r) == CallCounted /\ Ask(t, "rate", r)

\* The streams that are active once all is held are stopped, and then started again.
Work(call) == IF call = "rate" THEN StopsOf(active) \o <<"rate">>
              ELSE IF call \in {"read", "write"} THEN <<>> ELSE <<call>>
Acquire(t) ==
    LET me == threads[t] IN
    /\ me.locks # <<>> /\ Free(Head(me.locks))
    /\ threads' = [threads EXCEPT ![t].locks = Tail(@), ![t].holds = @ \cup Head(me.locks),
            ![t].todo = IF Len(me.locks) = 1 THEN Work(me.call) ELSE <<>>,
            ![t].restart = IF Len(me.locks) = 1 THEN active ELSE {}]
    /\ UNCHANGED <<active, rateKept, native, soapyHist>>
Inside(t, call) == threads[t].call = call /\ threads[t].locks = <<>>

\* A native call: what it does to the device, and what is noted when it succeeds.
OnDevice(call, r) ==
    CASE call = "start_rx" -> [native EXCEPT !.on = @ \cup {"rx"}]
      [] call = "start_tx" -> [native EXCEPT !.on = @ \cup {"tx"}]
      [] call = "stop_rx" -> [native EXCEPT !.on = @ \ {"rx"}]
      [] call = "stop_tx" -> [native EXCEPT !.on = @ \ {"tx"}]
      [] call = "rate" -> [native EXCEPT !.rate = r]
      [] OTHER -> native
Noted(call) ==
    CASE call = "start_rx" -> active \cup {"rx"} [] call = "start_tx" -> active \cup {"tx"}
      [] call = "stop_rx" -> active \ {"rx"} [] call = "stop_tx" -> active \ {"tx"}
      [] OTHER -> active

\* Mutant: the rate is kept whether or not the device took it.
KeptAnyway(r) == r
KeptIfFailed(r) == rateKept

\* Mutant: a rate that was not taken leaves the streams stopped.
NothingToDo(streams) == <<>>
\* The handler of setSampleRate starts the streams again and rethrows.
AfterRateError(streams) == StartsOf(streams)

NativeCall(t) ==
    LET call == Head(threads[t].todo)
        rest == Tail(threads[t].todo)
        me == threads[t]
    IN /\ me.todo # <<>>
       /\ \/ /\ native' = OnDevice(call, me.rate) /\ active' = Noted(call)
             /\ rateKept' = IF call = "rate" THEN me.rate ELSE rateKept
             /\ threads' = [threads EXCEPT ![t].todo =
                                rest \o IF call = "rate" THEN StartsOf(me.restart) ELSE <<>>]
             /\ soapyHist' = [soapyHist EXCEPT !.unsure = @ /\ call # "rate"]
          \/ /\ soapyHist.fails < MaxSoapyFails
             /\ native' \in {native, OnDevice(call, me.rate)} /\ UNCHANGED active
             /\ rateKept' = IF call = "rate" THEN KeptIfFailed(me.rate) ELSE rateKept
             /\ threads' = [threads EXCEPT ![t].todo = IF call = "rate" THEN AfterRateError(me.restart) ELSE <<>>]
             /\ soapyHist' = [soapyHist EXCEPT !.fails = @ + 1,
                    !.unsure = @ \/ native'.rate # native.rate,
                    !.streamFailed = @ \/ call \in {"start_rx", "start_tx", "stop_rx", "stop_tx"}]

CallEnds(t) ==
    /\ threads[t].call # "none" /\ threads[t].locks = <<>> /\ threads[t].todo = <<>> /\ Return(t)
    /\ soapyHist' = [soapyHist EXCEPT !.changed =
                        @ \/ (threads[t].call = "rate" /\ active # threads[t].restart)]
    /\ UNCHANGED <<active, rateKept, native>>

-----------------------------------------------------------------------------
(* readStream, writeStream *)

Transfer == /\ soapyHist.transfers < MaxTransfers
            /\ soapyHist' = [soapyHist EXCEPT !.transfers = @ + 1]
Read == Ask("reader", "read", Rate0) /\ Transfer
Write == Ask("writer", "write", Rate0) /\ Transfer

\* Samples or a timeout.
ReadEnds == Inside("reader", "read") /\ Return("reader")
            /\ UNCHANGED <<active, rateKept, native, soapyHist>>

\* The native send waits until the device has room, with the mutex held.
WriteEnds == Inside("writer", "write") /\ native.room /\ Return("writer")
             /\ UNCHANGED <<active, rateKept, native, soapyHist>>

\* The device says once that it is full and once that it is not; the second may be lost.
Fills ==
    /\ native.room /\ "tx" \in native.on /\ native' = [native EXCEPT !.room = FALSE]
    /\ UNCHANGED <<threads, active, rateKept, soapyHist>>
Drains ==
    /\ ~native.room /\ ~soapyHist.lost /\ native' = [native EXCEPT !.room = TRUE]
    /\ UNCHANGED <<threads, active, rateKept, soapyHist>>
LosesReady ==
    /\ ~native.room /\ ~soapyHist.lost /\ soapyHist.fails < MaxSoapyFails
    /\ soapyHist' = [soapyHist EXCEPT !.lost = TRUE, !.fails = @ + 1]
    /\ UNCHANGED <<threads, active, rateKept, native>>

SoapyNext ==
    \/ \E t \in Controllers:
        \/ \E call \in {"start_rx", "stop_rx", "start_tx", "stop_tx"}: Switch(t, call)
        \/ SetFrequency(t) \/ \E r \in SoapyRates: SetSampleRate(t, r)
        \/ NativeCall(t) \/ CallEnds(t)
    \/ \E t \in Threads: Acquire(t)
    \/ Read \/ ReadEnds \/ Write \/ WriteEnds \/ Fills \/ Drains \/ LosesReady

SoapySpec == SoapyInit /\ [][SoapyNext]_soapyVars

-----------------------------------------------------------------------------
(* properties *)

SoapyTypeOK ==
    /\ LET natives == {"rate", "tune", "start_rx", "stop_rx", "start_tx", "stop_tx"}
           locks == SUBSET {"ctrl", "rx", "tx"}
       IN threads \in [Threads -> [call: natives \cup {"none", "read", "write"}, locks: Seq(locks),
                                   holds: locks, todo: Seq(natives), restart: SUBSET Streams,
                                   rate: SoapyRates]]
    /\ active \subseteq Streams /\ rateKept \in SoapyRates
    /\ native \in [on: SUBSET Streams, rate: SoapyRates, room: BOOLEAN]
    /\ soapyHist \in [calls: Nat, transfers: Nat, fails: Nat, unsure: BOOLEAN, streamFailed: BOOLEAN,
                      lost: BOOLEAN, changed: BOOLEAN]

\* A rate change leaves the streams as it found them, whether or not the device took
\* the rate, as long as the stops and starts themselves succeed.
RateKeepsStreams == ~soapyHist.streamFailed => ~soapyHist.changed

\* readStream turns time stamps into nanoseconds with the rate the device has, once a
\* rate was set, unless a rate command was executed and its answer lost, until the
\* next one succeeds.
TimeBaseHonest ==
    ~soapyHist.unsure => (rateKept = native.rate \/ \E t \in Controllers: threads[t].call = "rate")

\* The threads never wait in a circle, nor one for itself: the control mutex comes
\* before those of the streams, and these two are taken together.  A writer may
\* still wait for ever, for a datagram that was lost, with its mutex held.
WaitsFor(t) == IF threads[t].locks = <<>> THEN {}
               ELSE {u \in Threads: threads[u].holds \cap Head(threads[t].locks) # {}}
SoapyNoCircle ==
    \A waiting \in (SUBSET Threads) \ {{}}: \E t \in waiting: WaitsFor(t) \cap waiting = {}
=============================================================================
