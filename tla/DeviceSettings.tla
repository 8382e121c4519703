--------------------------- MODULE DeviceSettings ---------------------------
(***************************************************************************)
(* The settings layer of an E-series device: every setter keeps the value  *)
(* it last wrote and skips the command when it is asked for it again.      *)
(* Source: src/driver/IQTAXI/iqtaxi_udp_impl.cpp.                          *)
(*                                                                         *)
(* A setter holds _settings_mutex for the whole call, so there is one at a *)
(* time.  A command may be executed and answered, executed without an      *)
(* answer in time, lost, executed after the caller gave up, or, for the    *)
(* local oscillators, refused.  A stream writes the channel-enable         *)
(* register without the cache.                                             *)
(***************************************************************************)
EXTENDS Naturals, FiniteSets

CONSTANTS
    Registers,      \* the cached settings
    RateRegister,   \* the one that is read back when its answer is missing
    EpochRegisters, \* those whose change restarts the RX stream
    StatusRegisters,\* those whose answer is a status
    StreamRegister, \* the channel enable
    Values,         \* values of a setting
    NoValue,        \* nothing cached yet
    MaxFaults       \* bound: commands and stream calls that go wrong

ASSUME SettingsAssumption ==
    /\ EpochRegisters \subseteq Registers \ {RateRegister}
    /\ StatusRegisters \subseteq Registers
    /\ NoValue \notin Values /\ MaxFaults \in Nat

VARIABLES
    cache,      \* _rx_freq and _rx_freq_valid, and so on
    dev,        \* what the device's register holds
    late,       \* commands given up by the host that the device still executes
    setter,     \* the call that holds the mutex
    hasStream,  \* get_rx_stream() was called
    doubt,      \* history: the device may differ from the cache
    unmet,      \* history: the value a command of the register failed with last
    faults      \* bound

settingsVars == <<cache, dev, late, setter, hasStream, doubt, unmet, faults>>

NoCall == [at |-> "idle", threw |-> FALSE]

SettingsInit ==
    /\ dev \in [Registers -> Values]
    /\ cache = [r \in Registers |-> IF r = StreamRegister THEN dev[r] ELSE NoValue]
    /\ late = {} /\ setter = NoCall /\ hasStream = FALSE
    /\ doubt = [r \in Registers |-> FALSE] /\ unmet = [r \in Registers |-> NoValue]
    /\ faults = 0

Fault == faults < MaxFaults /\ faults' = faults + 1
Step(to) == setter' = [setter EXCEPT !.at = to]
Return(err) == setter' = [NoCall EXCEPT !.threw = err]
GivenUp(r) == \E w \in late: w.reg = r

\* Mutant: the value is cached before it is sent.
CachedFirst(r, v) == cache' = [cache EXCEPT ![r] = v]
\* A call only compares; the cache is written when the answer is there.
CacheKept(r, v) == UNCHANGED cache

\* A setter asked for the cached value returns at once; any other one may
\* have to restart the RX stream first.
CallSetter(r, v) ==
    /\ setter.at = "idle" /\ cache[r] # v
    /\ CacheKept(r, v)
    /\ setter' = [at |-> IF r \in EpochRegisters /\ hasStream THEN "prepare" ELSE "command",
                  reg |-> r, value |-> v, restart |-> r \in EpochRegisters /\ hasStream,
                  err |-> FALSE]
    /\ UNCHANGED <<dev, late, hasStream, doubt, unmet, faults>>

\* with_rx_epoch_restart: when prepare throws, nothing else is done.
Prepare ==
    /\ setter.at = "prepare"
    /\ (Step("command") /\ UNCHANGED faults) \/ (Return(TRUE) /\ Fault)
    /\ UNCHANGED <<cache, dev, late, hasStream, doubt, unmet>>

\* After the command, the stream again or the return.
After(err) ==
    IF setter.restart THEN setter' = [setter EXCEPT !.at = "finish", !.err = err]
    ELSE Return(err)

Learn(r, v) ==
    /\ cache' = [cache EXCEPT ![r] = v]
    /\ doubt' = [doubt EXCEPT ![r] = GivenUp(r)]
    /\ unmet' = [unmet EXCEPT ![r] = NoValue]
Unmet(r) ==
    /\ doubt' = [doubt EXCEPT ![r] = TRUE]
    /\ unmet' = [unmet EXCEPT ![r] = setter.value]

\* The answer came, and a status of zero where there is one.
CommandDone ==
    /\ setter.at = "command"
    /\ dev' = [dev EXCEPT ![setter.reg] = setter.value]
    /\ Learn(setter.reg, setter.value) /\ After(FALSE)
    /\ UNCHANGED <<late, hasStream, faults>>

\* No answer in time: executed or not, or still to be executed.
CommandTimeout ==
    LET r == setter.reg IN
    /\ setter.at = "command" /\ Fault
    /\ \/ dev' \in {dev, [dev EXCEPT ![r] = setter.value]} /\ UNCHANGED late
       \/ late' = late \cup {[reg |-> r, value |-> setter.value]} /\ UNCHANGED dev
    /\ Unmet(r)
    /\ IF r = RateRegister THEN Step("readback") ELSE After(TRUE)
    /\ UNCHANGED <<cache, hasStream>>

\* check_lo_command_status throws on a status that is not zero.
CommandRefused ==
    /\ setter.at = "command" /\ setter.reg \in StatusRegisters /\ Fault
    /\ dev' \in {dev, [dev EXCEPT ![setter.reg] = setter.value]}
    /\ Unmet(setter.reg) /\ After(TRUE)
    /\ UNCHANGED <<cache, late, hasStream>>

\* Mutant: any answer to the readback confirms the new rate.
AnyRate(v) == TRUE
\* actual_rate == target_rate
SameRate(v) == dev[RateRegister] = v

\* setSampleRate reads the rate back; the command did its work, or the call throws.
Readback ==
    /\ setter.at = "readback"
    /\ \/ /\ SameRate(setter.value) /\ Learn(RateRegister, setter.value)
          /\ Return(FALSE) /\ UNCHANGED faults
       \/ /\ ~SameRate(setter.value) /\ Return(TRUE) /\ UNCHANGED <<cache, doubt, unmet, faults>>
       \/ Fault /\ Return(TRUE) /\ UNCHANGED <<cache, doubt, unmet>>
    /\ UNCHANGED <<dev, late, hasStream>>

\* finish_rx_epoch_change, in every case; its own failure is dropped when the
\* command had failed and thrown when it had not.
Finish ==
    /\ setter.at = "finish"
    /\ (Return(setter.err) /\ UNCHANGED faults) \/ (Return(TRUE) /\ Fault)
    /\ UNCHANGED <<cache, dev, late, hasStream, doubt, unmet>>

-----------------------------------------------------------------------------
(* the rest of the program and the device *)

GetRxStream ==
    /\ ~hasStream /\ hasStream' = TRUE
    /\ UNCHANGED <<cache, dev, late, setter, doubt, unmet, faults>>

\* set_rx_enable_chan of the RX streamer writes the register itself.
StreamWrites(v) ==
    /\ hasStream
    /\ dev' = [dev EXCEPT ![StreamRegister] = v]
    /\ doubt' = [doubt EXCEPT ![StreamRegister] = TRUE]
    /\ UNCHANGED <<cache, late, setter, hasStream, unmet, faults>>

LateExecution ==
    /\ \E w \in late: /\ dev' = [dev EXCEPT ![w.reg] = w.value]
                      /\ late' = late \ {w}
    /\ UNCHANGED <<cache, setter, hasStream, doubt, unmet, faults>>

SettingsNext ==
    \/ \E r \in Registers, v \in Values: CallSetter(r, v)
    \/ Prepare \/ CommandDone \/ CommandTimeout \/ CommandRefused \/ Readback \/ Finish
    \/ GetRxStream \/ LateExecution \/ \E v \in Values: StreamWrites(v)

SettingsSpec == SettingsInit /\ [][SettingsNext]_settingsVars

-----------------------------------------------------------------------------
(* properties *)

SetterStates ==
    [at: {"idle"}, threw: BOOLEAN] \cup
    [at: {"prepare", "command", "readback", "finish"}, reg: Registers, value: Values,
     restart: BOOLEAN, err: BOOLEAN]

SettingsTypeOK ==
    /\ cache \in [Registers -> Values \cup {NoValue}]
    /\ dev \in [Registers -> Values]
    /\ late \in SUBSET [reg: Registers, value: Values]
    /\ setter \in SetterStates
    /\ hasStream \in BOOLEAN
    /\ doubt \in [Registers -> BOOLEAN] /\ unmet \in [Registers -> Values \cup {NoValue}]
    /\ faults \in 0..MaxFaults

\* The setting the layer will skip is the one the device has, unless a command
\* for it went without an answer, was refused, or may still be executed, or a
\* stream wrote the register itself; and a setting whose command failed is not
\* skipped when the program asks for it again.
CacheHonest ==
    \A r \in Registers: cache[r] # NoValue =>
        /\ doubt[r] \/ cache[r] = dev[r]
        /\ cache[r] # unmet[r]
=============================================================================
