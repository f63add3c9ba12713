------------------------------ MODULE CodecClock ------------------------------
(***************************************************************************)
(* The codec's clock: nau88l21.c, the clock controller that the audio path  *)
(* thread runs every FLL_UPDATE_INTERVAL_MS (path_common.c), and the "fll"  *)
(* command of the CLI.  Path thread and CLI thread both program the         *)
(* fraction of the codec's FLL, each with two I2C transfers, under no lock. *)
(* The numbers are the program's own: bytes, Hz and register values.        *)
(***************************************************************************)
EXTENDS Integers

CONSTANTS TARGET, BUFFER,      \* AUDIO_SPK_TARGET_BYTES, AUDIO_SPK_BUFFER_BYTES
          NOMINAL,             \* AUDIO_SAMPLE_RATE_HZ
          FLL_ADJUST_MAX_HZ, P_TERM_MAX_HZ, I_MAX_HZ,
          SourceOffsets,       \* Hz by which the source is off this codec's crystal
          CliRates,            \* rates typed after "fll"
          MaxFaults,           \* bound: failed I2C transfers
          MaxFll,              \* bound: "fll" commands
          Window               \* bound: controller periods in which both come and end

ASSUME ClockAssumption ==
    /\ {TARGET, BUFFER, NOMINAL, FLL_ADJUST_MAX_HZ, P_TERM_MAX_HZ, I_MAX_HZ,
        MaxFaults, MaxFll, Window} \subseteq Nat
    /\ 0 < TARGET /\ TARGET <= BUFFER
    \* Every rate the driver takes has a fraction of 24 bits and at most 100 MHz
    \* (nau88l21.c:80-87), so that -ERANGE is never its answer.
    /\ 46875 <= NOMINAL - FLL_ADJUST_MAX_HZ /\ NOMINAL + FLL_ADJUST_MAX_HZ <= 48828
    /\ SourceOffsets \subseteq Int /\ CliRates \subseteq Int

VARIABLES
    codec,           \* "reset", "fll", "lock", "output": bring-up; then "up", "dead", "none"
    fll7, fll8,      \* the codec's registers: high and low part of the fraction
    fixed, fixed_rate_hz,               \* struct fll_state fll
    upc, urate,      \* path thread in nau88l21_set_fll_target_rate_hz, its target
    cpc, crate,      \* CLI thread there, and its target
    i_sum, filter,   \* the controller's statics, in 1/200 Hz and 1/100 bytes
    fill,            \* bytes in the speaker FIFO and in the driver, in fifths
    offset,          \* the source against the crystal
    i2c_faults, fll_cmds, periods

regs == <<fll7, fll8>>
fll == <<fixed, fixed_rate_hz>>
updater == <<upc, urate>>
cli == <<cpc, crate>>
loop == <<i_sum, filter, fill>>
clock_vars == <<codec, regs, fll, updater, cli, loop, offset, i2c_faults, fll_cmds, periods>>

PI_DEN == 200    \* P_KI = 1/200
Clamp(x, m) == IF x > m THEN m ELSE IF x < -m THEN -m ELSE x
Trunc(a, b) == IF a >= 0 THEN a \div b ELSE -((-a) \div b)   \* C division

-------------------------------------------------------------------------------
(* The FLL: fraction = rate * 2048 * 2^24 / 8 MHz - 12 * 2^24, in two parts.  *)

\* nau88l21_compute_fll_frac, in steps that stay within 32 bits.
Frac(rate) == rate * 4294 + (rate * 15114) \div 15625 - 12 * 16777216
LOW_SIZE == 65536    \* FLL8 takes the low 16 bits, FLL7 the 8 above them
High(rate) == Frac(rate) \div LOW_SIZE
Low(rate) == Frac(rate) % LOW_SIZE

\* The rate that a pair of register values makes, to the nearest Hz.
RateOf(h, l) == (h * LOW_SIZE + l + 12 * 16777216 + 3717) \div 4295

Programmed(rate) == fll7 = High(rate) /\ fll8 = Low(rate)

\* -EINVAL of nau88l21_set_fll_target_rate_hz; the command's own test is the same.
InRange(rate) == rate \in NOMINAL - FLL_ADJUST_MAX_HZ .. NOMINAL + FLL_ADJUST_MAX_HZ

I2cFault == /\ i2c_faults < MaxFaults /\ periods < Window
            /\ i2c_faults' = i2c_faults + 1
I2cOk == UNCHANGED i2c_faults

ClockInit ==
    /\ codec = "reset" /\ fll7 = 0 /\ fll8 = 0
    /\ fixed = FALSE /\ fixed_rate_hz = 0
    /\ upc = "wait" /\ urate = 0 /\ cpc = "idle" /\ crate = 0
    /\ i_sum = 0 /\ filter = -1 /\ fill = 5 * TARGET
    /\ offset \in SourceOffsets
    /\ i2c_faults = 0 /\ fll_cmds = 0 /\ periods = 0

-------------------------------------------------------------------------------
(* nau88l21_init, in the I2S thread, before any audio and any command.  The   *)
(* first failed transfer ends it, and with it the I2S thread.                 *)

BringUpStep(from, to) ==
    /\ codec = from
    /\ \/ codec' = to /\ I2cOk
       \/ codec' = "dead" /\ I2cFault
    /\ UNCHANGED <<fll, updater, cli, loop, offset, fll_cmds, periods>>

\* Devices not ready: the driver never learns its bus.
NoDevice ==
    /\ codec = "reset" /\ codec' = "none" /\ I2cFault
    /\ UNCHANGED <<regs, fll, updater, cli, loop, offset, fll_cmds, periods>>

\* Reset, interface, divider, integer part of the FLL.
InitReset == BringUpStep("reset", "fll") /\ UNCHANGED regs

\* The nominal fraction, then the control registers that latch it.
InitFraction ==
    /\ BringUpStep("fll", "lock")
    /\ \/ fll7' = High(NOMINAL) /\ fll8' = Low(NOMINAL)
       \/ codec' = "dead" /\ fll7' \in {fll7, High(NOMINAL)} /\ UNCHANGED fll8

\* Switch to the FLL and wait for its lock.
InitLock == BringUpStep("lock", "output") /\ UNCHANGED regs

\* Conversion, volumes and the output path.
InitOutput == BringUpStep("output", "up") /\ UNCHANGED regs

BringUp == NoDevice \/ InitReset \/ InitFraction \/ InitLock \/ InitOutput

-------------------------------------------------------------------------------
(* The path thread: filter and controller.                                    *)

\* codec_level_filter_update, ten times in a period (every
\* EMA_FILTER_UPDATE_INTERVAL_MS), with weight 1/5 for the new level.
Filtered(old, bytes) ==
    LET f[k \in 0 .. 10] == IF k = 0 THEN old ELSE (100 * bytes + 4 * f[k - 1]) \div 5
    IN  IF old < 0 THEN 100 * bytes ELSE f[10]

\* FLL_UPDATE_INTERVAL_MS go by: 2/5 of a byte for each Hz the source is ahead
\* of the codec.  A codec that is down drains nothing, an empty buffer stops
\* the stream until it is filled to its target again, a full one drops.
LevelAfter ==
    LET next == fill + 2 * (NOMINAL + offset - RateOf(fll7, fll8))
    IN  IF codec # "up" \/ next > 5 * BUFFER THEN 5 * BUFFER
        ELSE IF next <= 0 THEN 5 * TARGET ELSE next

\* codec_clock_controller, from the error to the rate it asks for.
ErrorBytes(f) == TARGET - f \div 100
POut(error) == Clamp(Trunc(5 * error, 4), P_TERM_MAX_HZ)
\* Mutant of ISum: no integral.
ISumStuck(error) == i_sum
ISum(error) == Clamp(i_sum + error, I_MAX_HZ * PI_DEN)
Output(error) == Clamp(POut(error) + Trunc(ISum(error), PI_DEN), FLL_ADJUST_MAX_HZ)
\* Anti-windup: the integral gives way while the output is clamped.
WoundBack(error) ==
    LET raw == POut(error) + Trunc(ISum(error), PI_DEN)
    IN  IF raw > FLL_ADJUST_MAX_HZ /\ error < 0
        THEN (FLL_ADJUST_MAX_HZ - POut(error)) * PI_DEN
        ELSE IF raw < -FLL_ADJUST_MAX_HZ /\ error > 0
        THEN (-FLL_ADJUST_MAX_HZ - POut(error)) * PI_DEN
        ELSE ISum(error)
\* Mutant of Asked: the output is added.
AskedAhead(error) == NOMINAL + Output(error)
Asked(error) == NOMINAL - Output(error)

CodecSettled == codec \in {"up", "dead", "none"}

\* The next period; mutant: the fixed rate is not looked at.
PeriodUnpaused ==
    /\ CodecSettled /\ upc = "wait" /\ (cpc = "idle" \/ periods < Window)
    /\ fill' = LevelAfter
    /\ filter' = Filtered(filter, fill' \div 5)
    /\ LET error == ErrorBytes(filter')
       IN  i_sum' = WoundBack(error) /\ urate' = Asked(error) /\ upc' = "fll7"
    /\ periods' = IF periods < Window THEN periods + 1 ELSE periods
    /\ UNCHANGED <<codec, regs, fll, cli, offset, i2c_faults, fll_cmds>>

\* The next period: the level moves, is filtered, and unless a rate is fixed
\* at this instant the controller runs and enters the driver.
Period ==
    /\ CodecSettled /\ upc = "wait" /\ (cpc = "idle" \/ periods < Window)
    /\ fill' = LevelAfter
    /\ filter' = Filtered(filter, fill' \div 5)
    /\ \/ /\ ~fixed
          /\ LET error == ErrorBytes(filter')
             IN  /\ i_sum' = WoundBack(error) /\ urate' = Asked(error)
                 /\ upc' = IF codec # "none" /\ InRange(Asked(error)) THEN "fll7" ELSE "wait"
       \/ fixed /\ UNCHANGED <<i_sum, updater>>
    /\ periods' = IF periods < Window THEN periods + 1 ELSE periods
    /\ UNCHANGED <<codec, regs, fll, cli, offset, i2c_faults, fll_cmds>>

\* The two transfers of nau88l21_set_fll_target_rate_hz; the first that fails
\* ends the call.
PathHigh ==
    /\ upc = "fll7"
    /\ \/ fll7' = High(urate) /\ upc' = "fll8" /\ UNCHANGED urate /\ I2cOk
       \/ UNCHANGED fll7 /\ upc' = "wait" /\ urate' = 0 /\ I2cFault
    /\ UNCHANGED <<codec, fll8, fll, cli, loop, offset, fll_cmds, periods>>

\* Mutant of PathLow: the low part is left as it is.
PathLowLost ==
    /\ upc = "fll8" /\ upc' = "wait" /\ urate' = 0 /\ I2cOk
    /\ UNCHANGED <<codec, regs, fll, cli, loop, offset, fll_cmds, periods>>

PathLow ==
    /\ upc = "fll8" /\ upc' = "wait" /\ urate' = 0
    /\ \/ fll8' = Low(urate) /\ I2cOk
       \/ UNCHANGED fll8 /\ I2cFault
    /\ UNCHANGED <<codec, fll7, fll, cli, loop, offset, fll_cmds, periods>>

Updater == Period \/ PathHigh \/ PathLow

-------------------------------------------------------------------------------
(* The CLI thread: cli_cmd_fll.                                               *)

NextFll == fll_cmds < MaxFll /\ periods < Window /\ fll_cmds' = fll_cmds + 1

\* "fll auto".
FllAuto ==
    /\ CodecSettled /\ cpc = "idle" /\ NextFll
    /\ fixed' = FALSE /\ fixed_rate_hz' = 0
    /\ UNCHANGED <<codec, regs, updater, cli, loop, offset, i2c_faults, periods>>

\* "fll <rate>": refused when out of range or without a device; else the two
\* transfers, and only then, if both succeed, the controller is paused.
FllRate(rate) ==
    /\ CodecSettled /\ cpc = "idle" /\ NextFll
    /\ IF InRange(rate) /\ codec # "none"
       THEN cpc' = "fll7" /\ crate' = rate
       ELSE UNCHANGED cli
    /\ UNCHANGED <<codec, regs, fll, updater, loop, offset, i2c_faults, periods>>

CliHigh ==
    /\ cpc = "fll7"
    /\ \/ fll7' = High(crate) /\ cpc' = "fll8" /\ UNCHANGED crate /\ I2cOk
       \/ UNCHANGED fll7 /\ cpc' = "idle" /\ crate' = 0 /\ I2cFault
    /\ UNCHANGED <<codec, fll8, fll, updater, loop, offset, fll_cmds, periods>>

CliLow ==
    /\ cpc = "fll8"
    /\ \/ fll8' = Low(crate) /\ cpc' = "fixed" /\ UNCHANGED crate /\ I2cOk
       \/ UNCHANGED fll8 /\ cpc' = "idle" /\ crate' = 0 /\ I2cFault
    /\ UNCHANGED <<codec, fll7, fll, updater, loop, offset, fll_cmds, periods>>

\* fll_set_fixed, after the driver has returned.
CliFixed ==
    /\ cpc = "fixed"
    /\ fixed' = TRUE /\ fixed_rate_hz' = crate
    /\ cpc' = "idle" /\ crate' = 0
    /\ UNCHANGED <<codec, regs, updater, loop, offset, i2c_faults, fll_cmds, periods>>

FllCommand == FllAuto \/ \E rate \in CliRates : FllRate(rate)
CliWrites == CliHigh \/ CliLow \/ CliFixed

ClockNext == BringUp \/ Updater \/ FllCommand \/ CliWrites

ClockSpec == ClockInit /\ [][ClockNext]_clock_vars

-------------------------------------------------------------------------------
(* Properties.                                                               *)

HighPart == 0 .. 255
LowPart == 0 .. LOW_SIZE - 1

ClockTypeOK ==
    /\ codec \in {"reset", "fll", "lock", "output", "up", "dead", "none"}
    /\ fll7 \in HighPart /\ fll8 \in LowPart
    /\ fixed \in BOOLEAN /\ (fixed => InRange(fixed_rate_hz))
    /\ upc \in {"wait", "fll7", "fll8"} /\ (upc # "wait" => InRange(urate))
    /\ cpc \in {"idle", "fll7", "fll8", "fixed"} /\ (cpc # "idle" => InRange(crate))
    /\ i_sum \in -I_MAX_HZ * PI_DEN .. I_MAX_HZ * PI_DEN
    /\ filter \in -1 .. 100 * BUFFER /\ fill \in 1 .. 5 * BUFFER
    /\ i2c_faults \in 0 .. MaxFaults /\ fll_cmds \in 0 .. MaxFll

\* Left to itself the controller keeps the buffer between the levels at which
\* codec_clock_controller warns (20 % and 180 % of the target), for every
\* offset of the source: no underrun, no overflow.
LevelHeld ==
    codec = "up" /\ fll_cmds = 0 /\ i2c_faults = 0
        => fill \in TARGET .. 9 * TARGET

\* Whatever the commands and failed transfers before, a controller that is
\* not paused brings the level back to its target (within a tenth), from any
\* level, integral and register values they have left behind.
NearTarget == fill \in (9 * TARGET) \div 2 .. (11 * TARGET) \div 2
Converges == <>[](codec = "up" /\ ~fixed => NearTarget)

\* A fraction put together from two rates (nau88l21.c:518, 523 run by both
\* threads in turns) does not last while the controller runs: its next update
\* programs a whole rate again.
Whole == Programmed(RateOf(fll7, fll8))
TornHeals == (codec = "up" /\ ~Whole) ~> (Whole \/ fixed)

\* A paused controller is silent: with a rate fixed and no update under way,
\* only the CLI's own writes change the registers, and none starts.
PausedIsSilent ==
    [][fixed /\ upc = "wait" => upc' = "wait" /\ (cpc # "idle" \/ UNCHANGED regs)]_clock_vars

\* docs/firmware/nau88l21-codec.md says that fll_set_fixed(rate_hz) "Applies a
\* fixed target and pauses automatic path updates.": once it has returned and
\* no update is under way the registers hold the fixed target.
FixedTargetApplied ==
    fixed /\ upc = "wait" /\ cpc = "idle" => Programmed(fixed_rate_hz)
===============================================================================
