------------------------------- MODULE UhdTree -------------------------------
(***************************************************************************)
(* The UHD device behind its property tree: its construction, the gains,   *)
(* the frequencies, the time and the time source.                          *)
(* Source: src/UHD/IQTAXI/iqtaxi_impl.cpp (constructor, setup_radio and    *)
(* the publishers and subscribers they register).  The sample rate is in   *)
(* UhdRate, the clock source in ClockReference.                            *)
(*                                                                         *)
(* Setting a property runs its subscribers in the caller's thread; the     *)
(* tree takes no lock.  _ctrl_mutex is held for the two commands of        *)
(* setTimestamp and not for the two that follow on the time-sync register. *)
(* That register holds the time source in two bits; the device is taken    *)
(* to load the time that was set for it when the third bit rises.          *)
(***************************************************************************)
EXTENDS Integers, Sequences

CONSTANTS
    Callers,        \* threads of the program
    Addresses,      \* type and product of the device addresses it opens
    MaxSets,        \* bound: properties set, constructions begun
    MaxRefused      \* bound: commands that fail

Models == {"E100", "E200", "E206", "M300"}

TreeParameters ==
    /\ Addresses \subseteq (Models \cup {"iqtaxi"}) \X (Models \cup {"-"})
    /\ Callers # {} /\ MaxSets \in Nat /\ MaxRefused \in Nat

-----------------------------------------------------------------------------
(* The device address.                                                       *)

\* Mutant: the product outweighs the type.
ProductFirst(type, product) ==
    IF product # "-" THEN product ELSE IF type \in Models THEN type ELSE "E100"
\* The constructor's choice of the backend: an E-series type outweighs the
\* product, the product the series, and without any it is an E100.
Backend(type, product) ==
    IF type \in Models THEN type ELSE IF product # "-" THEN product ELSE "E100"

-----------------------------------------------------------------------------
(* Gains, in tenths of a dB; the tables have steps of one dB.                *)

Step == 10
\* profiles of DeviceProfile.hpp: receive gain, transmit attenuation
MaxGain(model) ==
    CASE model = "E100" -> 410 [] model = "E200" -> 750
      [] model = "E206" -> 420 [] model = "M300" -> 760
MaxAtten(model) == IF model \in {"E200", "M300"} THEN 890 ELSE 500

Clip(x, max) == IF x < 0 THEN 0 ELSE IF x > max THEN max ELSE x
Rounded(x) == ((x + Step \div 2) \div Step) * Step

\* Mutant: the gain is written as the attenuation.
NotInverted(model, gain) == Rounded(Clip(gain, MaxAtten(model)))
\* setGain: what it writes for a gain, as an attenuation.
TxAttenuation(model, gain) == MaxAtten(model) - Rounded(Clip(gain, MaxAtten(model)))
\* getGain inverts what it reads.
TxGain(model, atten) == MaxAtten(model) - atten
\* The receive gain is truncated, and the driver clips it at the top.
RxGain(model, gain) == Clip((gain \div Step) * Step, MaxGain(model))

-----------------------------------------------------------------------------

VARIABLES
    usrp,       \* the device object: whether it is there, its backend, the step of
                \* its construction, _time_source, and what threw
    fpga,       \* the device: DMA mode, amplifier, clock and time source, the third
                \* bit, the time that was set and the mode, the time it loaded
    prop,       \* the property each thread sets
    log,        \* history: calls that met another one, a command that failed
    turns       \* bounds

treeVars == <<usrp, fpga, prop, log, turns>>

\* time_source_t
External == 1
Internal == 2
NoSource == 3
Unknown == 4

Idle == [at |-> "idle", value |-> 0, met |-> FALSE]
Gone == [at |-> "none", model |-> "E100", step |-> 0, source |-> Unknown]

TreeInit ==
    /\ usrp = Gone
    /\ fpga \in [dma: {1}, amp: {TRUE}, clock: {"internal"}, source: {Internal},
                 sync: BOOLEAN, stamp: {0}, mode: {"now"}, time: {0}]
    /\ prop = [c \in Callers |-> Idle]
    /\ log = [failed |-> FALSE, crossed |-> FALSE, done |-> 0, clock |-> "internal"]
    /\ turns = [sets |-> 0, refused |-> 0]

Local == usrp.model # "M300"
Alone == \A c \in Callers: prop[c].at = "idle"
Turn == turns.sets < MaxSets /\ turns' = [turns EXCEPT !.sets = @ + 1]
Refused == turns.refused < MaxRefused /\ turns' = [turns EXCEPT !.refused = @ + 1]

\* Two threads that set the time, or its source, at once.
Meet(c) ==
    LET others == {d \in Callers \ {c}: prop[d].at # "idle"} IN
    [d \in Callers |-> IF d \in others THEN [prop[d] EXCEPT !.met = TRUE] ELSE prop[d]]
Met(c) == \E d \in Callers \ {c}: prop[d].at # "idle"

-----------------------------------------------------------------------------
(* construction *)

\* The constructor's commands: the backend with its lease, the DMA mode, the
\* amplifier of an E100, the time zero, the tick rate, which sets the time
\* again, the clock source and the time source.
Steps == <<"make", "dma", "amp", "time", "rate", "time", "clock", "source">>

Construct(c, address, source) ==
    /\ usrp.at = "none" /\ Alone /\ Turn
    /\ usrp' = [Gone EXCEPT !.at = "building", !.model = Backend(address[1], address[2]), !.step = 1]
    /\ prop' = [prop EXCEPT ![c] = [Idle EXCEPT !.at = "build"]]
    /\ log' = [log EXCEPT !.failed = FALSE, !.crossed = FALSE, !.done = 0, !.clock = source]
    /\ UNCHANGED fpga

\* A command throws: what the object set on the device stays, the object goes.
Abandon(c) ==
    /\ usrp' = Gone /\ prop' = [prop EXCEPT ![c] = Idle]

NextStep(c) ==
    IF usrp.step < Len(Steps)
    THEN usrp' = [usrp EXCEPT !.step = @ + 1] /\ prop' = [prop EXCEPT ![c].at = "build"]
    ELSE usrp' = [usrp EXCEPT !.at = "ready"] /\ prop' = [prop EXCEPT ![c] = Idle]

\* An M300 cannot follow an external clock.
Impossible == Steps[usrp.step] = "clock" /\ ~Local /\ log.clock = "external"

\* set_dma_mode, the amplifier's property with the driver's read back, the tick
\* rate, the clock source: done, or thrown.
BuildStep(c) ==
    LET step == Steps[usrp.step] IN
    /\ prop[c].at = "build" /\ step \notin {"time", "source"}
    /\ \/ /\ ~Impossible /\ NextStep(c) /\ UNCHANGED <<log, turns>>
          /\ fpga' = CASE step = "dma" -> [fpga EXCEPT !.dma = 0]
                       [] step = "amp" /\ usrp.model = "E100" -> [fpga EXCEPT !.amp = FALSE]
                       [] step = "clock" -> [fpga EXCEPT !.clock = log.clock]
                       [] OTHER -> fpga
       \/ /\ Abandon(c) /\ UNCHANGED <<fpga, log>>
          /\ IF Impossible THEN UNCHANGED turns ELSE Refused

\* The properties time/now and time_source/value, set by the constructor.
BuildTime(c) ==
    /\ prop[c].at = "build" /\ Steps[usrp.step] = "time"
    /\ prop' = [prop EXCEPT ![c].at = "latch", ![c].value = 0]
    /\ UNCHANGED <<usrp, fpga, log, turns>>

\* Mutant: the constructor leaves the time source alone.
SkipSource(c) == NextStep(c) /\ UNCHANGED <<fpga, log, turns>>
InitialSource(c) ==
    /\ prop' = [prop EXCEPT ![c].at = "compare", ![c].value = Internal]
    /\ UNCHANGED <<usrp, fpga, log, turns>>

BuildSource(c) ==
    /\ prop[c].at = "build" /\ Steps[usrp.step] = "source" /\ InitialSource(c)

\* The object is destroyed; its process may also die between two commands.
Destroy ==
    /\ usrp.at # "none" /\ usrp' = Gone /\ prop' = [c \in Callers |-> Idle]
    /\ IF Alone THEN UNCHANGED turns ELSE Refused
    /\ UNCHANGED <<fpga, log>>

-----------------------------------------------------------------------------
(* set_time, set_time_next_pps *)

\* A setter of a property: the time, by time/now and by time/cmd, the time at
\* the next PPS, the time source.
Set(c, at, value) ==
    /\ usrp.at = "ready" /\ prop[c].at = "idle" /\ Turn
    /\ prop' = [Meet(c) EXCEPT ![c] = [at |-> at, value |-> value, met |-> Met(c)]]
    /\ log' = [log EXCEPT !.crossed = @ \/ Met(c)]
    /\ UNCHANGED <<usrp, fpga>>
SetTime(c) == Set(c, "latch", turns.sets + 1)
SetTimeNextPps(c) == Set(c, "pps", turns.sets + 1)
SetTimeSource(c, s) == Set(c, "compare", s)

Return(c) == IF usrp.at = "building" THEN NextStep(c)
             ELSE prop' = [prop EXCEPT ![c] = Idle] /\ UNCHANGED usrp
\* A command is refused or has no answer: the call throws.
Throws(c) ==
    /\ Refused
    /\ IF usrp.at = "building" THEN Abandon(c)
       ELSE prop' = [prop EXCEPT ![c] = Idle] /\ UNCHANGED usrp

Latched(value, mode) == [fpga EXCEPT !.stamp = value, !.mode = mode]

\* set_time_sync under _ctrl_mutex: the value and the mode, or the value alone.
\* An M300 takes the value at once.
Latch(c) ==
    /\ prop[c].at = "latch"
    /\ \/ /\ UNCHANGED <<log, turns>>
          /\ IF Local
             THEN /\ fpga' = Latched(prop[c].value, "sync")
                  /\ prop' = [prop EXCEPT ![c].at = "raise"] /\ UNCHANGED usrp
             ELSE /\ fpga' = [Latched(prop[c].value, "now") EXCEPT !.time = prop[c].value]
                  /\ Return(c)
       \/ /\ Throws(c) /\ log' = [log EXCEPT !.failed = TRUE]
          /\ \E sent \in BOOLEAN:
                fpga' = IF sent THEN [fpga EXCEPT !.stamp = prop[c].value] ELSE fpga

LatchPps(c) ==
    /\ prop[c].at = "pps"
    /\ \/ Return(c) /\ fpga' = Latched(prop[c].value, "pps") /\ UNCHANGED <<log, turns>>
       \/ Throws(c) /\ log' = [log EXCEPT !.failed = TRUE] /\ UNCHANGED fpga

\* The time-sync register is written with a source and the third bit.
WithSource(source, bit) ==
    LET high == bit \/ source = Unknown
        rises == high /\ ~fpga.sync
    IN  [fpga EXCEPT !.source = source % 4, !.sync = high,
                     !.time = IF rises /\ fpga.mode = "sync" THEN fpga.stamp ELSE @]

\* The bit up, outside the mutex, with the source the object has.
Raise(c) ==
    /\ prop[c].at = "raise"
    /\ \/ /\ fpga' = WithSource(usrp.source, TRUE) /\ UNCHANGED <<usrp, log, turns>>
          /\ prop' = [prop EXCEPT ![c].at = "lower"]
       \/ Throws(c) /\ log' = [log EXCEPT !.failed = TRUE] /\ UNCHANGED fpga

\* Mutant: the bit stays up.
StaysUp == fpga
\* and down.
Lowered == WithSource(usrp.source, FALSE)

Lower(c) ==
    /\ prop[c].at = "lower"
    /\ \/ /\ fpga' = Lowered /\ Return(c) /\ UNCHANGED turns
          /\ log' = [log EXCEPT !.done = IF prop[c].met \/ usrp.at # "ready" THEN @
                                         ELSE prop[c].value]
       \/ Throws(c) /\ log' = [log EXCEPT !.failed = TRUE] /\ UNCHANGED fpga

-----------------------------------------------------------------------------
(* update_time_source *)

\* Mutant: the source is kept before the command.
KeptFirst(c) == [usrp EXCEPT !.source = prop[c].value]
\* It is kept behind the command.
KeptLater(c) == usrp

\* Without a command for the source it has.
Compare(c) ==
    /\ prop[c].at = "compare"
    /\ IF usrp.source # prop[c].value /\ Local
       THEN prop' = [prop EXCEPT ![c].at = "write"] /\ usrp' = KeptLater(c)
       ELSE prop' = [prop EXCEPT ![c].at = "keep"] /\ UNCHANGED usrp
    /\ UNCHANGED <<fpga, log, turns>>

Write(c) ==
    /\ prop[c].at = "write"
    /\ \/ /\ fpga' = WithSource(prop[c].value, FALSE)
          /\ prop' = [prop EXCEPT ![c].at = "keep"] /\ UNCHANGED <<usrp, log, turns>>
       \/ Throws(c) /\ UNCHANGED <<fpga, log>>

Keep(c) ==
    /\ prop[c].at = "keep"
    /\ usrp' = [usrp EXCEPT !.at = "ready", !.source = prop[c].value]
    /\ prop' = [prop EXCEPT ![c] = Idle]
    /\ UNCHANGED <<fpga, log, turns>>

TreeNext ==
    \/ \E c \in Callers:
        \/ \E address \in Addresses, source \in {"internal", "external"}:
              Construct(c, address, source)
        \/ BuildStep(c) \/ BuildTime(c) \/ BuildSource(c)
        \/ SetTime(c) \/ SetTimeNextPps(c)
        \/ \E s \in {External, Internal, NoSource}: SetTimeSource(c, s)
        \/ Latch(c) \/ LatchPps(c) \/ Raise(c) \/ Lower(c)
        \/ Compare(c) \/ Write(c) \/ Keep(c)
    \/ Destroy

TreeSpec == TreeInit /\ [][TreeNext]_treeVars

-----------------------------------------------------------------------------
(* properties *)

TreeTypeOK ==
    /\ usrp.at \in {"none", "building", "ready"} /\ usrp.step \in 0..Len(Steps)
    /\ usrp.model \in Models /\ usrp.source \in 1..4
    /\ fpga.source \in 0..3 /\ fpga.sync \in BOOLEAN /\ fpga.time \in Nat
    /\ \A c \in Callers: prop[c].at \in
          {"idle", "build", "latch", "pps", "raise", "lower", "compare", "write", "keep"}

\* A time that was set is the device's, when no other call met the one that set
\* it and no command failed since the object was made.  It needs the third bit
\* to be down before, although the constructor's first writes of an unknown
\* source, and whatever an earlier program left, put it up.
TimeIsLoaded ==
    usrp.at = "ready" /\ Alone /\ ~log.failed /\ ~log.crossed /\ log.done > 0
        /\ Local /\ fpga.mode = "sync"
            => fpga.time = log.done /\ ~fpga.sync

\* The time source the object keeps is the device's, whatever failed: a setter
\* that is asked for the kept one sends nothing.
SourceIsKept ==
    usrp.at = "ready" /\ Local /\ Alone /\ ~log.crossed => fpga.source = usrp.source

\* An object that is handed out has set what the constructor is to set,
\* whatever an earlier program, or an object that was abandoned, left behind.
BuiltAsAsked ==
    usrp.at = "ready" =>
        /\ fpga.dma = 0 /\ (usrp.model = "E100" => ~fpga.amp)
        /\ fpga.clock = log.clock /\ (~Local => fpga.clock = "internal")

\* UHD's transmit gain grows with the power: for every model what is read back
\* is the nearest step of what was set, a larger gain never gives a larger
\* attenuation, and the attenuation is one the driver does not clip.
GainsInvert ==
    \A model \in Models:
        /\ \A g \in -20..920:
              LET a == TxAttenuation(model, g)
                  back == TxGain(model, a) - Clip(g, MaxAtten(model))
              IN  /\ a \in 0..MaxAtten(model) /\ back \in -Step..Step
                  /\ a >= TxAttenuation(model, g + 1)
        /\ TxAttenuation(model, 0) = MaxAtten(model)
        /\ \A g \in 0..800: RxGain(model, g) <= g /\ RxGain(model, g) <= RxGain(model, g + 1)

\* A board that was found is opened as what it is (the type is the series'),
\* and one that is named by its type as that, whatever product is said.
OpenedAsFound ==
    \A m \in Models: Backend("iqtaxi", m) = m /\ \A p \in Models: Backend(m, p) = m
=============================================================================
