---------------------------- MODULE M300Platform ----------------------------
(***************************************************************************)
(* The pins and the SPI registers behind an M300's command channel, as the *)
(* AD9361 library (m300_noos_context) and m300_rf_ctrl use them.  Both     *)
(* keep their own copy of the two pin registers and write all of it.       *)
(* Sources: src/driver/M300/m300_noos_platform.cpp,                        *)
(* src/driver/M300/m300_rf_ctrl.cpp (construction and gpio_),              *)
(* src/driver/M300/m300_xdma_ctrl.cpp (gpio and SPI commands).             *)
(*                                                                         *)
(* Calls come one at a time (m300_rf_ctrl's mutex).  A register is the set *)
(* of its ones.  A command fails before the device has it, or after.       *)
(***************************************************************************)
EXTENDS Integers, Sequences, FiniteSets, FiniteSetsExt

CONSTANTS
    Pins,           \* the pins; those high and driven after a reset are Defaults
    Defaults,
    Byte,           \* values of a byte (2^8)
    MaxPinCalls,    \* bound: calls
    MaxLostCommands \* bound: commands that fail

PlatformParameters ==
    /\ Defaults \subseteq Pins /\ Byte \in Nat \ {0, 1}
    /\ MaxPinCalls \in Nat /\ MaxLostCommands \in Nat

VARIABLES
    gpio,           \* the pin registers: levels, and which pins are driven
    shadow,         \* each object's copy of them; an empty function before it exists
    pinCall,        \* the call under way
    asked,          \* the levels asked of pins through each object
    writer,         \* whose copy of the levels the device has, "-" after a failure
    found,          \* the levels the objects found, <<>> when they could not read them
    flickered,      \* the library drove a pin at another level than the one asked
    pinSpent        \* bounds: calls, failed commands

pinVars == <<gpio, shadow, pinCall, asked, writer, found, flickered, pinSpent>>

Quiet == [by |-> "-", step |-> "-"]

\* A board as another program has left it.
PlatformInit ==
    /\ gpio \in [out: SUBSET Pins, oe: SUBSET Pins]
    /\ shadow = <<>> /\ pinCall = Quiet /\ flickered = FALSE /\ writer = "-" /\ found = <<>>
    /\ asked = [noos |-> <<>>, rf |-> <<>>]
    /\ pinSpent = [calls |-> 0, lost |-> 0]

Outcomes == {"done", "lost", "unanswered"}
\* The outcome of a command; a failure counts.
Outcome(o) ==
    /\ o # "done" => pinSpent.lost < MaxLostCommands
    /\ pinSpent' = [calls |-> pinSpent.calls + (IF pinCall.by = "-" THEN 1 ELSE 0),
                    lost |-> pinSpent.lost + (IF o = "done" THEN 0 ELSE 1)]
Begins == pinCall.by = "-" /\ pinSpent.calls < MaxPinCalls

\* Mutant: the library's context takes a fresh board for granted.
AssumeFresh(ok) == [out |-> Defaults, oe |-> Pins]
\* The constructors read both registers; when one read fails they assume a fresh board.
FirstCopy(ok) == IF ok THEN gpio ELSE [out |-> Defaults, oe |-> Pins]

\* m300_rf_ctrl's constructor: the library's context first, then its own copy.
OpenPlatform ==
    /\ shadow = <<>> /\ pinSpent.calls < MaxPinCalls
    /\ \E noosOk, rfOk \in BOOLEAN:
         LET failed == Cardinality({k \in 1..2: ~<<noosOk, rfOk>>[k]}) IN
         /\ pinSpent.lost + failed <= MaxLostCommands
         /\ pinSpent' = [calls |-> pinSpent.calls + 1, lost |-> pinSpent.lost + failed]
         /\ shadow' = [noos |-> FirstCopy(noosOk), rf |-> FirstCopy(rfOk)]
         /\ found' = IF failed = 0 THEN [p \in Pins |-> p \in gpio.out] ELSE <<>>
    /\ UNCHANGED <<gpio, pinCall, asked, writer, flickered>>

Set(s, pin, high) == IF high THEN s \cup {pin} ELSE s \ {pin}
\* The device executes a command unless it is lost.
Write(register, value, o) ==
    IF o = "lost" THEN gpio ELSE [gpio EXCEPT ![register] = value]
Ask(by, pin, high) ==
    asked' = [asked EXCEPT ![by] = [p \in DOMAIN @ \cup {pin} |-> IF p = pin THEN high ELSE @[p]]]
\* A write of the levels.
Wrote(by, register, o) ==
    writer' = IF register # "out" THEN writer ELSE IF o = "done" THEN by ELSE "-"

\* Mutant: the device's levels are changed, and not those of the copy.
DevicesLevels(by, pin, high) == Set(gpio.out, pin, high)
\* The object's own copy, with the new level; kept even if the command fails.
NewLevels(by, pin, high) == Set(shadow[by].out, pin, high)

\* gpio_set_value of either object: the copy, then the whole register.
SetValue(by, pin, high) ==
    /\ shadow # <<>> /\ Begins
    /\ shadow' = [shadow EXCEPT ![by].out = NewLevels(by, pin, high)]
    /\ Ask(by, pin, high)
    /\ \E o \in Outcomes:
         Outcome(o) /\ gpio' = Write("out", shadow'[by].out, o) /\ Wrote(by, "out", o)
    /\ UNCHANGED <<pinCall, found, flickered>>

\* m300_rf_ctrl::gpio_set_direction: the level is not touched.
RfDirection(pin, output) ==
    /\ shadow # <<>> /\ Begins
    /\ shadow' = [shadow EXCEPT !.rf.oe = Set(@, pin, output)]
    /\ \E o \in Outcomes: Outcome(o) /\ gpio' = Write("oe", shadow'.rf.oe, o)
    /\ UNCHANGED <<pinCall, asked, writer, found, flickered>>

\* Mutant: the pin is driven before its level is written.
DriveFirst == <<"oe", "out">>
\* m300_noos_context::gpio_set_direction writes the levels, then the directions.
LevelFirst == <<"out", "oe">>

Flickers ==
    \E p \in gpio'.oe \ gpio.oe: (p \in gpio'.out) # (p \in shadow'.noos.out)
\* One of its commands; the first that fails ends the call.
Half(k) ==
    LET register == LevelFirst[k] IN
    \E o \in Outcomes:
        /\ Outcome(o) /\ gpio' = Write(register, shadow'.noos[register], o)
        /\ Wrote("noos", register, o)
        /\ pinCall' = IF k = 1 /\ o = "done" THEN [by |-> "noos", step |-> "second"] ELSE Quiet
        /\ flickered' = (flickered \/ Flickers)

NoosDirection(pin, output, high) ==
    /\ shadow # <<>> /\ Begins
    /\ shadow' = [shadow EXCEPT
         !.noos.out = IF output THEN Set(@, pin, high) ELSE @, !.noos.oe = Set(@, pin, output)]
    /\ IF output THEN Ask("noos", pin, high) ELSE UNCHANGED asked
    /\ Half(1)
    /\ UNCHANGED found
NoosDrive ==
    /\ pinCall.step = "second" /\ UNCHANGED <<shadow, asked, found>> /\ Half(2)

PlatformNext ==
    \/ OpenPlatform \/ NoosDrive
    \/ \E p \in Pins, high \in BOOLEAN:
         \/ \E by \in {"rf", "noos"}: SetValue(by, p, high)
         \/ RfDirection(p, high)
         \/ \E output \in BOOLEAN: (output \/ ~high) /\ NoosDirection(p, output, high)

-----------------------------------------------------------------------------
(* SPI: the command word of the AD9361 library, one command a byte or a burst *)

\* The library's 16 bits, high byte first: write, count - 1, address.
SpiMessage(write, count, reg, data) ==
    LET word == (IF write THEN 32768 ELSE 0) + 4096 * (count - 1) + reg
    IN  <<word \div 256, word % 256>> \o data

\* Mutant: three bits of count less one.
CountField(word) == (word \div 4096) % 8
\* ad9361_spi_count
SpiCount(word) == ((word \div 4096) % 8) + 1
SpiAddress(word) == word % 1024
SpiIsWrite(word) == word >= 32768

\* Addresses count down, within ten bits.
Address(reg, i) == (reg - i) % 1024

\* One command for each byte.
SplitWrites(reg, data) == [k \in DOMAIN data |-> <<Address(reg, k - 1), data[k]>>]

\* Mutant: the second argument continues where the first one stopped.
UnshiftedArg(data, first) ==
    MapThenSumSet(LAMBDA k: data[k] * Byte ^ (k - 1), DOMAIN data \cap first..first + 3)
\* ad9361_spi_write_burst: four bytes in each argument, the first one lowest.
BurstArg(data, first) ==
    MapThenSumSet(LAMBDA k: data[k] * Byte ^ (k - first), DOMAIN data \cap first..first + 3)
\* The FPGA takes the bytes out again.
BurstWrites(reg, count, arg1, arg2) ==
    [k \in 1..count |-> <<Address(reg, k - 1),
        ((IF k <= 4 THEN arg1 ELSE arg2) \div Byte ^ ((k - 1) % 4)) % Byte>>]

\* spi_transfer: the registers written or read, in order, or -EINVAL.
Transfer(message, burst) ==
    LET word == 256 * message[1] + message[2]
        count == SpiCount(word)
        data == SubSeq(message, 3, count + 2)
    IN  IF Len(message) < 3 \/ Len(message) < count + 2 THEN "EINVAL"
        ELSE IF SpiIsWrite(word) /\ count > 1 /\ burst
        THEN BurstWrites(SpiAddress(word), count, BurstArg(data, 1), BurstArg(data, 5))
        ELSE SplitWrites(SpiAddress(word), data)

-----------------------------------------------------------------------------
(* properties *)

PlatformTypeOK ==
    /\ gpio \in [out: SUBSET Pins, oe: SUBSET Pins]
    /\ shadow = <<>> \/ shadow \in [{"noos", "rf"} -> [out: SUBSET Pins, oe: SUBSET Pins]]
    /\ pinCall.step \in {"-", "second"} /\ writer \in {"-", "noos", "rf"}
    /\ \A by \in {"noos", "rf"}: DOMAIN asked[by] \subseteq Pins
    /\ pinSpent.calls \in 0..MaxPinCalls /\ pinSpent.lost \in 0..MaxLostCommands

\* After a command that succeeded the pins have every level asked through that object,
\* those of calls that failed too; the other object's may be undone
\* (m300_noos_platform.cpp:178, m300_rf_ctrl.cpp:103).
LevelsAsAsked ==
    writer # "-" => \A p \in DOMAIN asked[writer]: (p \in gpio.out) = asked[writer][p]

\* Opening a board and moving other pins leaves a pin as it was found, when the
\* registers could be read (m300_rf_ctrl.cpp:26, m300_noos_platform.cpp:53).
OthersUntouched ==
    \A p \in DOMAIN found \ (DOMAIN asked.noos \cup DOMAIN asked.rf): (p \in gpio.out) = found[p]

\* The library never drives a pin, RESETB first of all, at a level it was not asked for
\* (m300_noos_platform.cpp:163).
NoFlicker == ~flickered

\* A transfer touches the registers the library meant, counting down and wrapping, with
\* its bytes; a burst is the same as one command for each byte
\* (m300_noos_platform.cpp:78, 97; m300_xdma_ctrl.cpp:172).
TransfersExact ==
    \A count \in 1..8, reg \in {0, 1, 6, 7, 8, 1023}:
        LET data == [k \in 1..count |-> (Byte + 3 - 2 * k) % Byte]
            meant == [k \in 1..count |-> <<(reg + 1025 - k) % 1024, data[k]>>]
        IN  /\ \A burst \in BOOLEAN: Transfer(SpiMessage(TRUE, count, reg, data), burst) = meant
            /\ Transfer(SpiMessage(FALSE, count, reg, data), TRUE) = meant
            /\ Transfer(SpiMessage(TRUE, count, reg, Tail(data)), FALSE) = "EINVAL"
=============================================================================
