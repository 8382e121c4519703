---------------------------- MODULE M300RfControl ----------------------------
(***************************************************************************)
(* The RF settings of the M300: what the controller keeps of them, what    *)
(* the AD9361 has, and what the getters report, over calls that fail       *)
(* between two commands.                                                   *)
(* Source: src/driver/M300/m300_ad9361_ctrl.cpp, m300_rf_ctrl.cpp.  One    *)
(* mutex spans each call, the TX worker's reapply included, so a call      *)
(* changes the chip command by command but meets no other call.  The       *)
(* vendored driver below is external: it executes a command or fails,      *)
(* executed or not, and one that calibrates may leave TX muted.            *)
(***************************************************************************)
EXTENDS Naturals, Sequences, SequencesExt

CONSTANTS
    Rates, Tunings, Attens,                     \* values, numbers
    MinBandwidth, MaxBandwidth,
    DefaultRate, DefaultTuning, DefaultAtten,   \* m300_ad9361_init_options
    MaxRfCalls, MaxRfFails                      \* bounds

RfParameters ==
    /\ Rates \subseteq Nat \ {0} /\ Tunings \subseteq Nat \ {0} /\ Attens \subseteq Nat \ {0}
    /\ DefaultRate \in Rates /\ DefaultTuning \in Tunings /\ DefaultAtten \in Attens
    /\ MinBandwidth \in Nat \ {0} /\ MaxBandwidth \in Nat /\ MinBandwidth <= MaxBandwidth

VARIABLES
    ad9361,     \* m300_ad9361_ctrl: initialized, bandwidth explicit, the kept settings
    afe,        \* the chip's settings
    reported,   \* m300_rf_ctrl: what its getters return, Unset before the first success
    rfCall,     \* the call under the mutex: op, value, where it is
    unsure,     \* settings whose last command failed
    rfSpent     \* bounds

rfVars == <<ad9361, afe, reported, rfCall, unsure, rfSpent>>

Settings == {"rate", "band", "rx", "tx", "att1", "att2"}
Unset == 0
Mute == 0       \* an attenuation nobody asks for
Automatic == 0  \* a bandwidth of 0 follows the rate
NoCall == [op |-> "none", value |-> 0, at |-> "none"]

RfInit ==
    /\ ad9361 = [initialized |-> FALSE, explicit |-> FALSE,
                 kept |-> [s \in Settings |-> Unset]]
    /\ afe = [s \in Settings |-> Unset] /\ reported = [s \in Settings |-> Unset]
    /\ rfCall = NoCall /\ unsure = {} /\ rfSpent = [calls |-> 0, fails |-> 0]

-----------------------------------------------------------------------------
(* what a call sends: settings, calibrations and checks in their order *)

Set(s, v) == [set |-> s, to |-> v]
Tune == Set("tune", 0)
Check == Set("check", 0)

Clamp(b) == IF b < MinBandwidth THEN MinBandwidth ELSE IF b > MaxBandwidth THEN MaxBandwidth ELSE b

\* Mutant: the calibrations of a call are the last it sends.
TunedLast(k) == <<>>
\* A calibration mutes TX and its nested cache may leave the mute behind.
Attenuation(k) == <<Set("att1", k.att1), Set("att2", k.att2)>>

\* Mutant: the bandwidth follows the rate, whoever asked for it.
AlwaysFollows(r) == <<Set("rate", r), Set("band", Clamp(r))>>
RateCommands(r) ==
    <<Set("rate", r)>> \o IF ad9361.explicit THEN <<>> ELSE <<Set("band", Clamp(r))>>

\* The defaults but for a first call that asks for a rate.
Options(rate) ==
    [rate |-> rate, band |-> Clamp(rate), rx |-> DefaultTuning, tx |-> DefaultTuning,
     att1 |-> DefaultAtten, att2 |-> DefaultAtten]
InitCommands(k) ==
    <<Set("rx", k.rx), Set("tx", k.tx), Set("band", k.band), Set("rate", k.rate),
      Set("band", k.band), Tune>> \o Attenuation(k) \o <<Check>>

\* What is kept is not sent again.
Skipped(op, v) == op \in {"rate", "rx", "tx"} /\ v = ad9361.kept[op]
Commands(op, v) ==
    LET k == ad9361.kept IN
    CASE Skipped(op, v) -> <<>>
      [] op = "rate" -> RateCommands(v) \o Attenuation(k) \o <<Check>>
      [] op = "band" -> <<Set("band", Clamp(IF v = Automatic THEN k.rate ELSE v))>>
                        \o Attenuation(k)
      [] op \in {"rx", "tx", "att1", "att2"} -> <<Set(op, v), Check>>
      [] op = "reapply" -> Attenuation(k) \o <<Check>>

\* The chip after a command: a calibration may mute both outputs.
After(chip, c) ==
    LET done == IF c.set \in Settings THEN [chip EXCEPT ![c.set] = c.to] ELSE chip IN
    {done} \cup IF c.set \in {"rate", "band", "tune"}
                THEN {[done EXCEPT !.att1 = Mute, !.att2 = Mute]} ELSE {}
Reached(commands) ==
    FoldLeft(LAMBDA chips, c: UNION {After(chip, c): chip \in chips}, {afe}, commands)

-----------------------------------------------------------------------------
(* one call: set_sample_rate, set_bandwidth, set_rx_freq, set_tx_freq, *)
(* set_tx_atten, or reapply_tx_attenuation of the TX worker            *)

Touched(commands) == {c.set: c \in ToSet(commands)} \cap Settings
Ends == rfCall' = NoCall
Throws(commands) ==
    /\ Ends /\ rfSpent.fails < MaxRfFails /\ rfSpent' = [rfSpent EXCEPT !.fails = @ + 1]
    /\ unsure' = unsure \cup Touched(commands) /\ UNCHANGED reported

Begin(op, v) ==
    /\ rfCall = NoCall /\ rfSpent.calls < MaxRfCalls
    /\ rfCall' = [op |-> op, value |-> v, at |-> IF ad9361.initialized THEN "act" ELSE "power"]
    /\ rfSpent' = [rfSpent EXCEPT !.calls = @ + 1]
    /\ UNCHANGED <<ad9361, afe, reported, unsure>>

\* Three good reads in a row, or a timeout before anything is sent.
WaitForPower ==
    /\ rfCall.at = "power" /\ UNCHANGED <<ad9361, afe>>
    /\ \/ rfCall' = [rfCall EXCEPT !.at = "init"] /\ UNCHANGED <<reported, unsure, rfSpent>>
       \/ Throws(<<>>)

\* The rate of a call that initialises is in the options: nothing else is left of it.
Reports(op, v) ==
    reported' = IF op \in {"band", "reapply"} THEN reported ELSE [reported EXCEPT ![op] = v]

InitChip ==
    /\ rfCall.at = "init"
    /\ LET k == Options(IF rfCall.op = "rate" THEN rfCall.value ELSE DefaultRate)
           commands == InitCommands(k) IN
       \/ /\ afe' \in Reached(commands) /\ unsure' = {}
          /\ ad9361' = [initialized |-> TRUE, explicit |-> FALSE, kept |-> k]
          /\ IF rfCall.op = "rate"
             THEN Ends /\ Reports("rate", rfCall.value)
             ELSE rfCall' = [rfCall EXCEPT !.at = "act"] /\ UNCHANGED reported
          /\ UNCHANGED rfSpent
       \/ /\ \E n \in 0..Len(commands): afe' \in Reached(SubSeq(commands, 1, n))
          /\ ad9361' = [ad9361 EXCEPT !.kept = k, !.explicit = FALSE]
          /\ Throws(commands)

\* Mutant: a setting is kept before its command is known to have worked.
KeptAtOnce(op, v) == [ad9361.kept EXCEPT ![op] = v]
\* The kept value a call leaves when a later command of it fails.
KeptIfThrown(op, v) == ad9361.kept
KeptNow(op, v) == IF op = "reapply" THEN ad9361.kept ELSE [ad9361.kept EXCEPT ![op] = v]

\* A bandwidth is kept before it is sent, the one a rate brings once the rate is set.
Act ==
    /\ rfCall.at = "act"
    /\ LET op == rfCall.op
           v == rfCall.value
           commands == Commands(op, v)
           explicit == IF op = "band" THEN v # Automatic ELSE ad9361.explicit
           band == IF op = "band" THEN Clamp(IF v = Automatic THEN ad9361.kept.rate ELSE v)
                   ELSE IF op = "rate" /\ ~explicit THEN Clamp(v) ELSE ad9361.kept.band IN
       \/ /\ afe' \in Reached(commands) /\ unsure' = unsure \ Touched(commands)
          /\ ad9361' = [ad9361 EXCEPT !.explicit = explicit,
                                      !.kept = IF Skipped(op, v) THEN @
                                               ELSE [KeptNow(IF op = "band" THEN "reapply" ELSE op, v)
                                                     EXCEPT !.band = band]]
          /\ Ends /\ Reports(op, v) /\ UNCHANGED rfSpent
       \/ /\ commands # <<>> /\ Throws(commands)
          /\ \E failed \in 1..Len(commands):
                /\ \E n \in {failed - 1, failed}: afe' \in Reached(SubSeq(commands, 1, n))
                /\ ad9361' = [ad9361 EXCEPT
                      !.explicit = explicit,
                      !.kept = [KeptIfThrown(op, v) EXCEPT
                                  !.band = IF op = "rate" /\ failed = 1 THEN @ ELSE band]]

RfNext ==
    \/ \E r \in Rates: Begin("rate", r)
    \/ \E b \in Rates \cup {Automatic}: Begin("band", b)
    \/ \E f \in Tunings, lo \in {"rx", "tx"}: Begin(lo, f)
    \/ \E a \in Attens, s \in {"att1", "att2"}: Begin(s, a)
    \/ Begin("reapply", 0)
    \/ WaitForPower \/ InitChip \/ Act

-----------------------------------------------------------------------------
(* properties *)

RfTypeOK ==
    /\ ad9361 \in [initialized: BOOLEAN, explicit: BOOLEAN, kept: [Settings -> Nat]]
    /\ afe \in [Settings -> Nat] /\ reported \in [Settings -> Nat]
    /\ rfCall \in [op: Settings \cup {"reapply", "none"}, value: Nat,
                   at: {"none", "power", "init", "act"}]
    /\ unsure \subseteq Settings /\ rfSpent \in [calls: Nat, fails: Nat]

AtRest == rfCall = NoCall /\ ad9361.initialized

\* What the controller keeps, and skips, is what the chip has: the attenuation too,
\* which every calibration may have muted.  Only a setting whose last command failed
\* may differ.
KeptIsChip == AtRest => \A s \in Settings \ unsure: afe[s] = ad9361.kept[s]

\* A bandwidth nobody asked for follows the rate, one that was asked for stays.
BandwidthFollows ==
    (AtRest /\ ~ad9361.explicit /\ {"rate", "band"} \cap unsure = {})
        => afe.band = Clamp(afe.rate)

\* A getter reports what is kept, once there was a call that set it.
ReportedIsKept ==
    rfCall = NoCall => \A s \in Settings: reported[s] # Unset =>
                          ad9361.initialized /\ reported[s] = ad9361.kept[s]
=============================================================================
