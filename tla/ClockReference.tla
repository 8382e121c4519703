--------------------------- MODULE ClockReference ---------------------------
(***************************************************************************)
(* Selecting the reference of an E-series device: the driver's transaction *)
(* (command, answer, wait for readiness) and the UHD device that keeps the *)
(* selected source.  Sources: src/driver/IQTAXI/clock_reference.hpp and    *)
(* src/UHD/IQTAXI/iqtaxi_impl.cpp (update_clock_source, get_ref_locked).   *)
(* A command without an answer was executed when its call throws, or never.*)
(***************************************************************************)
EXTENDS Naturals

CONSTANTS
    Sources,        \* what set_clock_source offers: "internal", "external"
    MaxSwitches,    \* bound: calls of update_clock_source
    MaxTroubles     \* bound: commands and reads without an answer, changes of
                    \* the external signal

ClockParameters ==
    /\ Sources \subseteq {"internal", "external"}
    /\ MaxSwitches \in Nat /\ MaxTroubles \in Nat

VARIABLES
    uhd,        \* _clock_source, and the call under way
    board,      \* the device: selected source, and its status bits
    sensor,     \* the last ref_locked, and whether it was true then
    unsure,     \* history: a source command went without an answer
    used        \* bounds

clockVars == <<uhd, board, sensor, unsure, used>>

ClockInit ==
    /\ uhd = [source |-> "internal", at |-> "idle", want |-> "internal", ready |-> TRUE]
    /\ board = [source |-> "internal", locked |-> FALSE, valid |-> FALSE, tenMHz |-> FALSE]
    /\ sensor = [said |-> FALSE, was |-> FALSE] /\ unsure = FALSE
    /\ used = [switches |-> 0, troubles |-> 0]

Trouble == used.troubles < MaxTroubles /\ used' = [used EXCEPT !.troubles = @ + 1]

\* Mutant: the selected source is not part of the condition.
AnySource(status, source) ==
    source = "internal" \/ (status.locked /\ status.valid /\ status.tenMHz)
\* clock_reference_ready: the manual mode needs no lock.
Ready(status, source) ==
    /\ status.source = source
    /\ source = "internal" \/ (status.locked /\ status.valid /\ status.tenMHz)

-----------------------------------------------------------------------------
(* update_clock_source, under _clock_mutex *)

\* Before the internal mode the loop's DAC value is read and written back.
UpdateSource(s) ==
    /\ uhd.at = "idle" /\ used.switches < MaxSwitches
    /\ used' = [used EXCEPT !.switches = @ + 1]
    /\ uhd' = [uhd EXCEPT !.at = IF s = "internal" THEN "dac" ELSE "command", !.want = s]
    /\ UNCHANGED <<board, sensor, unsure>>

\* Thrown to the caller; the source stays what it was.
Fails == uhd' = [uhd EXCEPT !.at = "idle", !.ready = FALSE]

PreserveDac ==
    /\ uhd.at = "dac"
    /\ (uhd' = [uhd EXCEPT !.at = "command"] /\ UNCHANGED used) \/ (Fails /\ Trouble)
    /\ UNCHANGED <<board, sensor, unsure>>

Selected == board' = [board EXCEPT !.source = uhd.want,
                                   !.locked = @ /\ board.source = uhd.want]

\* The command is answered with zero, refused, or not answered at all, executed
\* or not.
SelectSource ==
    /\ uhd.at = "command" /\ UNCHANGED sensor
    /\ \/ Selected /\ uhd' = [uhd EXCEPT !.at = "wait"] /\ unsure' = FALSE /\ UNCHANGED used
       \/ Trouble /\ Fails /\ UNCHANGED <<board, unsure>>
       \/ Trouble /\ Fails /\ Selected /\ unsure' = TRUE

\* wait_for_clock_reference: a status that is ready.
Confirmed ==
    /\ uhd.at = "wait" /\ Ready(board, uhd.want)
    /\ uhd' = [uhd EXCEPT !.at = "idle", !.source = uhd.want, !.ready = TRUE]
    /\ UNCHANGED <<board, sensor, unsure, used>>

\* Mutant: every failure leaves the selected source alone.
KeepSource == Fails
\* clock_reference_not_ready: the hardware accepted the switch.
NotReady == uhd' = [uhd EXCEPT !.at = "idle", !.source = uhd.want, !.ready = FALSE]

\* The time is over, or a read of the status failed.
NotConfirmed ==
    /\ uhd.at = "wait" /\ NotReady
    /\ (~Ready(board, uhd.want) /\ UNCHANGED used) \/ Trouble
    /\ UNCHANGED <<board, sensor, unsure>>

\* get_ref_locked reads the status and applies the same condition.
RefLocked ==
    /\ uhd.at = "idle"
    /\ sensor' = [said |-> Ready(board, uhd.source),
                  was |-> board.source = uhd.source /\
                          (uhd.source = "internal" \/ (board.locked /\ board.valid))]
    /\ UNCHANGED <<uhd, board, unsure, used>>

\* The reference signal appears or goes, and the loop locks or not.
Signal ==
    /\ Trouble
    /\ \E here, lock \in BOOLEAN:
          board' = [board EXCEPT !.valid = here, !.tenMHz = here,
                                 !.locked = here /\ lock /\ board.source = "external"]
    /\ UNCHANGED <<uhd, sensor, unsure>>

\* The loop of the selected external reference locks.
Lock ==
    /\ board.source = "external" /\ board.valid /\ board' = [board EXCEPT !.locked = TRUE]
    /\ UNCHANGED <<uhd, sensor, unsure, used>>

ClockNext ==
    \/ \E s \in Sources: UpdateSource(s)
    \/ PreserveDac \/ SelectSource \/ Confirmed \/ NotConfirmed \/ RefLocked \/ Signal \/ Lock

ClockSpec == ClockInit /\ [][ClockNext]_clockVars

-----------------------------------------------------------------------------
(* properties *)

ClockTypeOK ==
    /\ uhd \in [source: Sources, want: Sources, ready: BOOLEAN,
                at: {"idle", "dac", "command", "wait"}]
    /\ board \in [source: Sources, locked: BOOLEAN, valid: BOOLEAN, tenMHz: BOOLEAN]
    /\ sensor \in [said: BOOLEAN, was: BOOLEAN] /\ unsure \in BOOLEAN

\* The comments of clock_reference_not_ready and update_clock_source: the kept
\* source is the one the hardware selected, whether it is ready or not, and
\* ref_locked speaks about it.  Only a command that was executed without an
\* answer breaks this.
ClockTruthful ==
    /\ uhd.at \notin {"wait"} /\ ~unsure => uhd.source = board.source
    /\ sensor.said => sensor.was
=============================================================================
