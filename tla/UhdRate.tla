------------------------------- MODULE UhdRate -------------------------------
(***************************************************************************)
(* The sample rate and the time of the UHD device: set_rate from several   *)
(* threads, and the creation of a streamer, which is not under the same    *)
(* mutex.                                                                  *)
(* Source: src/UHD/IQTAXI/iqtaxi_impl.cpp and iqtaxi_io_impl.cpp.  The     *)
(* property tree is UHD's: update() of a property reads its publisher and  *)
(* passes what it read to the subscribers.                                 *)
(*                                                                         *)
(* The device counts samples, so its counter changes unit with the rate: a *)
(* second is as many ticks as the rate.  What happens under _ctrl_mutex    *)
(* and is seen by no one outside is one step, with the points at which a   *)
(* command may fail as alternatives; one that failed is not executed later.*)
(***************************************************************************)
EXTENDS Naturals, FiniteSets

CONSTANTS
    Users,          \* threads of the program
    UhdRates,       \* sample rates; defaultClockRate is the least
    MaxSeconds,     \* bound: seconds of the device's time
    MaxCalls,       \* bound: calls of the program
    MaxErrors       \* bound: commands that fail

RateParameters ==
    /\ UhdRates \subseteq Nat \ {0} /\ UhdRates # {} /\ Users # {} /\ IsFiniteSet(Users)
    /\ MaxSeconds \in Nat /\ MaxCalls \in Nat /\ MaxErrors \in Nat

VARIABLES
    host,       \* the device object: it exists, _tick_rate
    clock,      \* the device: its rate and its sample counter
    stream,     \* the streamer: it exists, the device object knows it, its _tick_rate
    calls,      \* the call of each thread
    uhdPast     \* history and bounds, see the properties

rateVars == <<host, clock, stream, calls, uhdPast>>

Default == CHOOSE r \in UhdRates: \A s \in UhdRates: r <= s
Resting == [at |-> "rest", want |-> Default, creates |-> FALSE]
NoStream == [made |-> FALSE, known |-> FALSE, rate |-> Default]

RateInit ==
    /\ host = [open |-> FALSE, tick |-> Default] /\ stream = NoStream
    /\ clock \in {[rate |-> r, ticks |-> 0]: r \in UhdRates}
    /\ calls = [u \in Users |-> Resting]
    /\ uhdPast = [seconds |-> 0, jumped |-> FALSE, dirty |-> FALSE, calls |-> 0, errors |-> 0]

\* _ctrl_mutex, and the mutex of get_rx_stream.
CtrlFree == \A u \in Users: calls[u].at # "publish"
SetupFree == \A u \in Users: ~calls[u].creates
AllRest == \A u \in Users: calls[u].at = "rest"
Begin(u, c) == /\ uhdPast.calls < MaxCalls /\ uhdPast' = [uhdPast EXCEPT !.calls = @ + 1]
               /\ calls' = [calls EXCEPT ![u] = c]
Move(u, place) == calls' = [calls EXCEPT ![u].at = place]
\* A call that throws; a streamer under creation is destroyed with it, and the
\* device object, if this was its constructor, never comes to be.
Thrown(u) ==
    /\ calls' = [calls EXCEPT ![u] = Resting]
    /\ stream' = IF calls[u].creates THEN NoStream ELSE stream

-----------------------------------------------------------------------------
(* the calls *)

\* The constructor sets the property tick_rate to the default.
OpenUhd(u) ==
    /\ ~host.open /\ AllRest
    /\ Begin(u, [Resting EXCEPT !.at = "open"]) /\ host' = [host EXCEPT !.tick = Default]
    /\ UNCHANGED <<clock, stream>>

CloseUhd ==
    /\ host.open /\ AllRest /\ host' = [host EXCEPT !.open = FALSE] /\ stream' = NoStream
    /\ UNCHANGED <<clock, calls, uhdPast>>

SetRate(u, r) ==
    /\ host.open /\ calls[u].at = "rest" /\ Begin(u, [Resting EXCEPT !.at = "set", !.want = r])
    /\ UNCHANGED <<host, clock, stream>>

\* get_rx_stream: one streamer at a time; it begins with the rate of the moment.
CreateStream(u) ==
    /\ host.open /\ calls[u].at = "rest" /\ SetupFree /\ ~stream.made
    /\ Begin(u, [Resting EXCEPT !.at = "register", !.creates = TRUE])
    /\ stream' = [NoStream EXCEPT !.made = TRUE, !.rate = host.tick]
    /\ UNCHANGED <<host, clock>>

\* From here on a rate change reaches it.
Register(u) ==
    /\ calls[u].at = "register" /\ Move(u, "look") /\ stream' = [stream EXCEPT !.known = TRUE]
    /\ UNCHANGED <<host, clock, uhdPast>>

\* update_tick_rate(get_tick_rate()): read, then written.
LookUp(u) ==
    /\ calls[u].at = "look" /\ calls' = [calls EXCEPT ![u].at = "update", ![u].want = host.tick]
    /\ UNCHANGED <<host, clock, stream, uhdPast>>

UpdateStream(u) ==
    /\ calls[u].at = "update" /\ Move(u, "get") /\ stream' = [stream EXCEPT !.rate = calls[u].want]
    /\ UNCHANGED <<host, clock, uhdPast>>

\* update() of the property: the rate is read under the mutex, and set under it.
GetRate(u) ==
    /\ calls[u].at = "get" /\ CtrlFree
    /\ \/ calls' = [calls EXCEPT ![u].at = "set", ![u].want = clock.rate]
          /\ UNCHANGED <<stream, uhdPast>>
       \/ /\ uhdPast.errors < MaxErrors /\ Thrown(u)
          /\ uhdPast' = [uhdPast EXCEPT !.errors = @ + 1]
    /\ UNCHANGED <<host, clock>>

ReleaseStream ==
    /\ stream.made /\ SetupFree /\ stream' = NoStream
    /\ UNCHANGED <<host, clock, calls, uhdPast>>

-----------------------------------------------------------------------------
(* set_sample_clock_preserving_time, update_tick_rate *)

\* Mutant: the kept rate alone is believed, whatever the device has.
KeptIsProof(r) == host.tick = r
AlreadySet(r) == host.tick = r /\ clock.rate = r

\* Mutant: the time is computed with the kept rate.
KeptRate == host.tick
\* The rate read back from the device.
OldRate == clock.rate

SetClock(u) ==
    LET r == calls[u].want
        seconds == clock.ticks \div OldRate
    IN /\ calls[u].at \in {"open", "set"} /\ CtrlFree
       /\ \/ /\ Move(u, "publish") /\ UNCHANGED <<stream, uhdPast>>
             /\ host' = [host EXCEPT !.tick = r]
             /\ clock' = IF AlreadySet(r) THEN clock ELSE [rate |-> r, ticks |-> seconds * r]
          \* A command fails: before the rate is set, before the counter, or behind it.
          \/ /\ uhdPast.errors < MaxErrors /\ Thrown(u)
             /\ clock' \in {clock, [clock EXCEPT !.rate = r], [rate |-> r, ticks |-> seconds * r]}
             /\ AlreadySet(r) => clock' = clock
             /\ UNCHANGED host
             /\ uhdPast' = [uhdPast EXCEPT !.errors = @ + 1, !.dirty = TRUE,
                                !.jumped = @ \/ (clock' = [clock EXCEPT !.rate = r] /\ clock' # clock)]

\* Mutant: a streamer is told only if the rate was not already set.
SometimesPublish(r) == IF clock.rate = host.tick THEN stream ELSE [stream EXCEPT !.rate = r]
Published(r) == IF stream.known THEN [stream EXCEPT !.rate = r] ELSE stream

Publish(u) ==
    /\ calls[u].at = "publish" /\ stream' = Published(host.tick)
    /\ calls' = [calls EXCEPT ![u] = Resting] /\ uhdPast' = [uhdPast EXCEPT !.dirty = FALSE]
    /\ host' = [host EXCEPT !.open = TRUE] /\ UNCHANGED clock

\* The device's time passes, also while a call is under way.
Second ==
    /\ uhdPast.seconds < MaxSeconds
    /\ uhdPast' = [uhdPast EXCEPT !.seconds = @ + 1]
    /\ clock' = [clock EXCEPT !.ticks = @ + clock.rate]
    /\ UNCHANGED <<host, stream, calls>>

RateNext ==
    \/ \E u \in Users:
        \/ OpenUhd(u) \/ \E r \in UhdRates: SetRate(u, r)
        \/ CreateStream(u) \/ Register(u) \/ LookUp(u) \/ UpdateStream(u) \/ GetRate(u)
        \/ SetClock(u) \/ Publish(u)
    \/ CloseUhd \/ ReleaseStream \/ Second

RateSpec == RateInit /\ [][RateNext]_rateVars

-----------------------------------------------------------------------------
(* properties *)

RateTypeOK ==
    /\ host \in [open: BOOLEAN, tick: UhdRates] /\ clock \in [rate: UhdRates, ticks: Nat]
    /\ stream \in [made: BOOLEAN, known: BOOLEAN, rate: UhdRates]
    /\ calls \in [Users -> [at: {"rest", "open", "set", "publish", "register", "look", "update", "get"},
                            want: UhdRates, creates: BOOLEAN]]
    /\ uhdPast \in [seconds: Nat, jumped: BOOLEAN, dirty: BOOLEAN, calls: Nat, errors: Nat]

\* Between calls the device object, the streamer and the device have one rate, also
\* if the streamer was made while the rate changed, and again after every failure
\* once a call has succeeded: time stamps are converted with the rate they count in.
RatesAgree ==
    (host.open /\ AllRest /\ ~uhdPast.dirty)
        => host.tick = clock.rate /\ (stream.made => stream.rate = clock.rate)

\* A rate change keeps the device's absolute time, whatever rate it was left at
\* by another program, unless a command failed between the rate and the counter.
TimeKept == ~uhdPast.jumped => clock.ticks = uhdPast.seconds * clock.rate
=============================================================================
