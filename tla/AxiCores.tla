------------------------------ MODULE AxiCores ------------------------------
(***************************************************************************)
(* The converter cores of the M300's FPGA as their drivers use them: start *)
(* of a core, active channels, pattern monitor, calibration of the input   *)
(* delay, I/Q correction and test tones.                                   *)
(* Source: src/driver/M300/noos_ad9361/m300_axi_adc_core.c and             *)
(* m300_axi_dac_core.c.                                                    *)
(*                                                                         *)
(* The conversions are functions of numbers, with the registers' widths;   *)
(* where a product would pass 2^31 the fraction is reduced first.  The     *)
(* state is what outlives a call: the registers and the two objects.       *)
(***************************************************************************)
EXTENDS Integers, FiniteSets, SequencesExt

CONSTANTS
    Taps,           \* taps of the input delay (32 in the code)
    Channels,       \* channels of a core, numbered from 0
    Rates,          \* interface clocks; 0: the clock does not run
    MaxCalls        \* bound: calls and changes of the clock or of the eye

CoreParameters == Taps \in Nat \ {0} /\ Channels \in Nat /\ Rates \subseteq Nat /\ MaxCalls \in Nat

-----------------------------------------------------------------------------
(* Both cores' coefficients, in signed magnitude: a sign bit, the integer bit, 14 bits of fraction.  A    *)
(* number is its integer part and its millionths; the sign is the integer    *)
(* part's, or the millionths' when that is 0.                                *)

SignBit == 32768
One == 16384

Magnitude(x) == IF x < 0 THEN -x ELSE x
Negative(n) == n[1] < 0 \/ (n[1] = 0 /\ n[2] < 0)

\* Mutant: the fraction is cut off.
Truncated(micro) == (micro * 512) \div 31250
Fraction(micro) == (micro * 512 + 15625) \div 31250

\* axi_dac_dds_to_signed_mag_fmt: the fraction is or-ed, so a carry is lost when
\* the integer bit is there already; an integer part beyond 1 is dropped.
ToSignedMagnitude(n) ==
    LET frac == Fraction(IF n[1] = 0 THEN Magnitude(n[2]) ELSE n[2])
        whole == IF n[1] \in {-1, 1} THEN One ELSE 0
    IN  (IF Negative(n) /\ n[1] >= -1 THEN SignBit ELSE 0)
          + (IF whole = One /\ frac = One THEN One ELSE whole + frac)

FromSignedMagnitude(reg) ==
    LET sign == IF reg >= SignBit THEN -1 ELSE 1
        whole == IF reg % SignBit >= One THEN sign ELSE 0
        micro == ((reg % One) * 15625 + 128) \div 256
    IN  <<whole, IF whole = 0 THEN sign * micro ELSE micro>>

Micro(n) == (IF Negative(n) THEN -1 ELSE 1) * (Magnitude(n[1]) * 1000000 + Magnitude(n[2]))

\* Mutant: the half does not tell scale and phase apart.
ChannelAlone(channel, phase) == channel % 2 = 0
\* The scale of an I channel and the phase of a Q channel are the first half.
FirstHalf(channel, phase) == (channel + phase) % 2 = 0

-----------------------------------------------------------------------------
(* Test tones: 16-bit increment and phase, scale in signed magnitude.        *)

Increment(freq, clock) ==
    LET val == ((freq * 65535) \div clock) % 65536
    IN  IF val % 2 = 0 THEN val + 1 ELSE val            \* | 1
ToneFrequency(incr, clock) == (incr * clock) \div 65535

\* Mutant: half a turn is not added before the division.
PhaseCut(milli) == ((milli * 4096) \div 22500) % 65536
\* Thousandths of a degree.
TonePhase(milli) == ((milli * 4096 + 11250) \div 22500) % 65536
PhaseOf(reg) == (reg * 11250 + 1024) \div 2048

ScaleMax == 1999000
\* Mutant: the scale is not limited.
Unlimited(micro) == Magnitude(micro)
Limited(micro) == IF Magnitude(micro) >= ScaleMax THEN ScaleMax ELSE Magnitude(micro)
ToneScale(micro) ==
    LET reg == (Limited(micro) * 256) \div 15625
    IN  IF micro < 0 /\ reg < SignBit THEN reg + SignBit ELSE reg % 65536
ScaleOf(reg) == (IF reg >= SignBit THEN -1 ELSE 1) * (((reg % SignBit) * 15625) \div 256)

-----------------------------------------------------------------------------
(* Calibration of the input delay: the taps without pattern errors are the   *)
(* eye; the middle of its widest part is chosen.                             *)

NoTap == Taps
Parts == 0..4

\* Mutant: an error's start is never forgotten.
KeptStart(s, t) == s
\* A valid tap behind errors forgets both starts, this tap's too.
ForgetStarts(s, t) == [s EXCEPT !.valid = NoTap, !.invalid = NoTap]

AtValid(s, t) ==
    LET begun == IF s.valid = NoTap THEN [s EXCEPT !.valid = t] ELSE s
        kept == IF begun.invalid # NoTap THEN ForgetStarts(begun, t) ELSE begun
    IN  [kept EXCEPT !.count[kept.part] = @ + 1]

\* At an error, and at the last tap.
AtInvalid(s, t) ==
    LET ended == IF s.invalid = NoTap THEN [s EXCEPT !.invalid = t] ELSE s
    IN  IF ended.valid = NoTap THEN ended
        ELSE [ended EXCEPT !.first[ended.part] = ended.valid, !.last[ended.part] = ended.invalid,
                           !.valid = NoTap, !.invalid = NoTap, !.part = @ + 1]

Scan(eye) ==
    FoldLeft(LAMBDA s, t: LET v == IF t \in eye THEN AtValid(s, t) ELSE s
                          IN  IF t \notin eye \/ t = Taps - 1 THEN AtInvalid(v, t) ELSE v,
             [valid |-> NoTap, invalid |-> NoTap, part |-> 0,
              count |-> [p \in Parts |-> 0], first |-> [p \in Parts |-> 0], last |-> [p \in Parts |-> 0]],
             [i \in 1..Taps |-> i - 1])

\* Mutant: the last part, however wide.
LastPart(s) == s.part - 1
Widest(s) == CHOOSE p \in Parts: /\ \A q \in Parts: s.count[q] <= s.count[p]
                                 /\ \A q \in Parts: q < p => s.count[q] < s.count[p]

\* (0 + 0 - 1) / 2 is 0 in C.
Middle(first, last) == IF first + last = 0 THEN 0 ELSE (first + last - 1) \div 2
ChosenTap(eye) == LET s == Scan(eye) IN Middle(s.first[Widest(s)], s.last[Widest(s)])

-----------------------------------------------------------------------------

VARIABLES
    chip,       \* the chip: the interface clock, the eye
    adc,        \* the receive core: its object (open, clock, mask), channels that
                \* are on, coefficients, tap
    dac,        \* the transmit core: its object (open, clock), increment, data source
    told        \* history: the mask that was asked, whether it was written and no
                \* monitor ran since, coefficients asked, tone asked, clock then,
                \* whether the clock is the one the transmit core was started with,
                \* what the last calibration returned, calls

coreVars == <<chip, adc, dac, told>>

Chans == 0..(Channels - 1)
Halves == {1, 2}

CoreInit ==
    /\ chip \in [clock: Rates, eye: {0..(Taps - 1)}]
    /\ adc = [open |-> FALSE, clock |-> 0, mask |-> {}, on |-> {},
              coef |-> [c \in Chans |-> [h \in Halves |-> 0]], tap |-> 0]
    /\ dac = [open |-> FALSE, clock |-> 0, incr |-> 0, sel |-> "dds"]
    /\ told = [mask |-> {}, exact |-> FALSE, coef |-> [c \in Chans |-> [p \in {0, 1} |-> <<0, 0>>]],
               tone |-> 0, at |-> 0, fresh |-> FALSE, tuned |-> "no", calls |-> 0]

Call == told.calls < MaxCalls
Told(t) == told' = [t EXCEPT !.calls = @ + 1]

\* The chip's rate changes, the board warms up.
Reclock(rate) ==
    /\ Call /\ chip' = [chip EXCEPT !.clock = rate] /\ UNCHANGED <<adc, dac>>
    /\ Told([told EXCEPT !.tuned = "no", !.fresh = FALSE])
Drift(eye) ==
    /\ Call /\ chip' = [chip EXCEPT !.eye = eye] /\ UNCHANGED <<adc, dac>>
    /\ Told([told EXCEPT !.tuned = "no"])

\* axi_adc_init: reset, every channel on; without a clock the object is freed.
\* The new object's mask is not set: malloc's memory.
InitAdc(mask) ==
    /\ Call /\ ~adc.open /\ UNCHANGED <<chip, dac>>
    /\ adc' = [adc EXCEPT !.on = Chans, !.open = chip.clock # 0,
                          !.clock = IF chip.clock # 0 THEN chip.clock ELSE @, !.mask = mask]
    /\ Told([told EXCEPT !.exact = FALSE])

RemoveAdc == /\ Call /\ adc.open /\ adc' = [adc EXCEPT !.open = FALSE]
             /\ Told(told) /\ UNCHANGED <<chip, dac>>

\* Mutant: the mask is not kept.
MaskLost(mask) == adc.mask
MaskKept(mask) == mask

\* axi_adc_update_active_channels: nothing for the mask it keeps.
UpdateActive(mask) ==
    /\ Call /\ adc.open /\ UNCHANGED <<chip, dac>>
    /\ IF mask = adc.mask
       THEN UNCHANGED adc /\ Told([told EXCEPT !.mask = mask])
       ELSE /\ adc' = [adc EXCEPT !.mask = MaskKept(mask), !.on = mask]
            /\ Told([told EXCEPT !.mask = mask, !.exact = TRUE])

\* axi_adc_pn_mon, alone and at every tap of a calibration: every channel on.
Monitored == [adc EXCEPT !.on = Chans]
Monitor ==
    /\ Call /\ adc.open /\ adc' = Monitored
    /\ Told([told EXCEPT !.exact = FALSE]) /\ UNCHANGED <<chip, dac>>

\* axi_adc_delay_calibrate.
Calibrate ==
    /\ Call /\ adc.open /\ UNCHANGED <<chip, dac>>
    /\ LET tap == IF chip.eye = {} THEN 0 ELSE ChosenTap(chip.eye)
       IN  adc' = [Monitored EXCEPT !.tap = tap]
    /\ Told([told EXCEPT !.exact = FALSE, !.tuned = IF chip.eye = {} THEN "failed" ELSE "ok"])

\* axi_adc_set_calib_phase_scale: refuses what it cannot hold.
SetCoefficient(c, phase, n) ==
    /\ Call /\ adc.open /\ UNCHANGED <<chip, dac>>
    /\ IF n[1] \in -1..1
       THEN /\ adc' = [adc EXCEPT !.coef[c][IF FirstHalf(c, phase) THEN 1 ELSE 2] = ToSignedMagnitude(n)]
            /\ Told([told EXCEPT !.coef[c][phase] = n])
       ELSE UNCHANGED adc /\ Told(told)
Coefficient(c, phase) == FromSignedMagnitude(adc.coef[c][IF FirstHalf(c, phase) THEN 1 ELSE 2])

\* Mutant: the object keeps the clock it read before the reset.
FirstClock(before, after) == before
LastClock(before, after) == after

\* axi_dac_init_begin reads the clock, which the core may not count yet.
FirstReading == {0, chip.clock}

\* axi_dac_init: the clock is read, the core is reset, the tones are set by that
\* clock (not without one) and the clock is read again.
InitDac(before, freq) ==
    /\ Call /\ ~dac.open /\ before \in FirstReading /\ UNCHANGED <<chip, adc>>
    /\ dac' = [dac EXCEPT !.open = chip.clock # 0, !.clock = LastClock(before, chip.clock), !.sel = "dds",
                          !.incr = IF before = 0 THEN @ ELSE Increment(freq, before)]
    /\ Told([told EXCEPT !.tone = freq, !.at = before, !.fresh = TRUE])

SetTone(freq) ==
    /\ Call /\ dac.open /\ dac.clock # 0 /\ UNCHANGED <<chip, adc>>
    /\ dac' = [dac EXCEPT !.incr = Increment(freq, dac.clock)]
    /\ Told([told EXCEPT !.tone = freq, !.at = dac.clock])

\* axi_dac_set_datasel; axi_dac_remove
SetDataSel(sel) == /\ Call /\ dac.open /\ dac' = [dac EXCEPT !.sel = sel]
                   /\ Told(told) /\ UNCHANGED <<chip, adc>>
RemoveDac == /\ Call /\ dac.open /\ dac' = [dac EXCEPT !.open = FALSE]
             /\ Told(told) /\ UNCHANGED <<chip, adc>>

Numbers == {<<0, -500000>>, <<1, 250000>>, <<2, 0>>}
Eyes == {{}, 1..(Taps - 2), {0, 1} \cup {Taps - 2, Taps - 1}}

CoreNext ==
    \/ \E rate \in Rates: Reclock(rate) \/ \E f \in {0, 100}: InitDac(rate, f)
    \/ \E eye \in Eyes: Drift(eye)
    \/ \E mask \in SUBSET Chans: InitAdc(mask) \/ UpdateActive(mask)
    \/ \E c \in Chans, phase \in {0, 1}, n \in Numbers: SetCoefficient(c, phase, n)
    \/ Monitor \/ Calibrate \/ RemoveAdc \/ RemoveDac
    \/ SetTone(100) \/ \E sel \in {"dds", "dma"}: SetDataSel(sel)

CoreSpec == CoreInit /\ [][CoreNext]_coreVars

-----------------------------------------------------------------------------
(* properties *)

CoreTypeOK ==
    /\ adc.on \subseteq Chans /\ adc.mask \subseteq Chans /\ adc.tap \in 0..(Taps - 1)
    /\ \A c \in Chans, h \in Halves: adc.coef[c][h] \in 0..65535
    /\ dac.incr \in 0..65535

\* The channels that were asked are those that are on, once a call wrote them.
\* Two things may come between and are excused: the first mask of an object,
\* which is compared with memory nobody set, and a monitor or a calibration,
\* which turns every channel on behind the kept mask.
ActiveAsAsked == adc.open /\ told.exact => adc.on = told.mask

\* A channel's scale and its phase, and the other channels', are set and read
\* back apart from each other.
CoefficientsApart ==
    \A c \in Chans, p \in {0, 1}:
        Magnitude(Micro(Coefficient(c, p)) - Micro(told.coef[c][p])) <= 31

\* A calibration that succeeds leaves the delay at a tap without errors.
CalibratedInEye == adc.open /\ told.tuned = "ok" => adc.tap \in chip.eye

\* While the interface clock is the one the core was started with, the object
\* knows it, and a tone set by it has the frequency that was asked, within a
\* step of the increment.  (A tone the start itself sets while the core still
\* shows no clock is left out: the refused call is ignored.)
ToneHonest ==
    dac.open /\ told.fresh =>
        /\ dac.clock = chip.clock
        /\ told.at = chip.clock => Magnitude(ToneFrequency(dac.incr, dac.clock) - told.tone) <= 2

\* What a coefficient holds, for integer parts the drivers accept: the nearest
\* value that can be held comes back, with its sign.  At 1.99997 and above the
\* carry of the fraction is lost.
CoefficientsKept ==
    \A whole \in -1..1, k \in -1000..1000:
        LET n == <<whole, IF whole = 0 THEN k * 999 ELSE Magnitude(k * 999)>>
            back == FromSignedMagnitude(ToSignedMagnitude(n))
        IN  whole = 0 \/ n[2] < 999970 => Magnitude(Micro(back) - Micro(n)) <= 31

\* Phases come back to three thousandths of a degree, on the circle; scales to a
\* step below, with their sign, and never beyond 1.999.
TonesKept ==
    /\ \A k \in 0..1800:
          LET milli == k * 200 - (IF k = 0 THEN 0 ELSE 1)
              d == Magnitude(PhaseOf(TonePhase(milli)) - milli)
          IN  d <= 3 \/ 360000 - d <= 3
    /\ \A k \in -2200..2200:
          LET back == ScaleOf(ToneScale(k * 1000))
              asked == IF Magnitude(k * 1000) > ScaleMax THEN (IF k < 0 THEN -ScaleMax ELSE ScaleMax) ELSE k * 1000
          IN  Magnitude(back - asked) <= 62

\* Every pattern of errors whose gaps are at least two taps wide: the chosen tap
\* is in the widest one, at most one tap beside its middle.
\* (A gap of a single tap behind two errors is lost: the calibration reports
\* success and may choose tap 0 although it has errors.)
GapAt(eye, a, b) == a..b \subseteq eye /\ a - 1 \notin eye /\ b + 1 \notin eye
EyeCentred ==
    \A eye \in SUBSET (0..(Taps - 1)) \ {{}}:
        LET gaps == {g \in eye \X eye: g[1] <= g[2] /\ GapAt(eye, g[1], g[2])}
            widths == {g[2] - g[1] + 1: g \in gaps}
            tap == ChosenTap(eye)
        IN  1 \notin widths =>
              \E g \in gaps: /\ \A w \in widths: w <= g[2] - g[1] + 1
                             /\ tap \in g[1]..g[2] /\ Magnitude(2 * tap - g[1] - g[2]) <= 2
=============================================================================
