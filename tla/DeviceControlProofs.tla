--------------------------- MODULE DeviceControlProofs ------------------------
(***************************************************************************)
(* Theorems about DeviceControl, for every queue depth and FIFO size, every *)
(* limit of the controller and every set of offsets and rates.  That the    *)
(* level is held is a matter of the program's own numbers (ProgramNumbers), *)
(* with every offset of the source up to 300 Hz.                            *)
(***************************************************************************)
EXTENDS DeviceControl, Induction

-------------------------------------------------------------------------------
(* The link test.                                                             *)

\* Without a test the event is clear, and a thread that still waits on a queue
\* has done nothing yet since "linktest off".
LateInv ==
    /\ test_mode_running \in BOOLEAN /\ late_tx \in 0 .. 2 /\ late_rx \in 0 .. 2
    /\ TestOff => /\ ~test_event /\ lpc # "on"
                  /\ late_tx \in 0 .. 1 /\ (tpc = "blocked" => late_tx = 0)
                  /\ late_rx \in 0 .. 1 /\ (rpc = "blocked" => late_rx = 0)

LEMMA ZeroInRange == 0 \in 0 .. 1 /\ 0 \in 0 .. 2
  OBVIOUS

\* One more thing is counted up to two, while no test runs.
LEMMA LateCounts ==
    \A n \in 0 .. 2 : /\ Late(n) \in 0 .. 2 /\ (test_mode_running => Late(n) = n)
                      /\ (n = 0 => Late(n) \in 0 .. 1)
  BY DEF Late, TestOff

\* A step that leaves the command and the history alone, and makes no thread
\* wait on a queue, keeps it.
LEMMA LateQuiet ==
  ASSUME LateInv, UNCHANGED <<testmode, late_tx, late_rx>>,
         tpc' = "blocked" => tpc = "blocked", rpc' = "blocked" => rpc = "blocked"
  PROVE  LateInv'
  BY DEF LateInv, TestOff, testmode

\* The session serves a thread that waits, or nobody.
LEMMA SessionLate ==
  ASSUME LateInv, SessionTakes \/ SessionDelivers
  PROVE  LateInv'
  <1>1. CASE SessionTakes
    <2>1. CASE tpc = "blocked" /\ tpc' = "wait" /\ late_tx' = Late(late_tx)
      BY <1>1, <2>1, LateCounts DEF SessionTakes, LateInv, TestOff, ReceiveSide, testmode
    <2>2. CASE tpc # "blocked" /\ UNCHANGED <<tpc, late_tx>>
      BY <1>1, <2>2, LateQuiet DEF SessionTakes, ReceiveSide
    <2> QED BY <1>1, <2>1, <2>2 DEF SessionTakes
  <1>2. CASE SessionDelivers
    <2>1. CASE rpc = "blocked" /\ rpc' = "wait" /\ late_rx' = Late(late_rx)
      BY <1>2, <2>1, LateCounts DEF SessionDelivers, LateInv, TestOff, SendSide, testmode
    <2>2. CASE rpc # "blocked" /\ UNCHANGED <<rpc, late_rx>>
      BY <1>2, <2>2, LateQuiet DEF SessionDelivers, SendSide
    <2> QED BY <1>2, <2>1, <2>2 DEF SessionDelivers
  <1> QED BY <1>1, <1>2

\* A test thread starts something new only past the event, so in a test.
LEMMA TestersLate ==
  ASSUME LateInv, TestTx \/ TestRx
  PROVE  LateInv'
  <1>1. CASE TxOffers
    <2>1. test_mode_running /\ late_tx' \in 0 .. 2
      BY <1>1, LateCounts DEF TxOffers, LateInv, TestOff
    <2> QED BY <1>1, <2>1 DEF TxOffers, LateInv, TestOff, ReceiveSide, testmode
  <1>2. CASE TxGivesUp
    BY <1>2, LateQuiet DEF TxGivesUp, ReceiveSide
  <1>3. CASE TxWakes
    BY <1>3, LateQuiet DEF TxWakes, ReceiveSide
  <1>4. CASE RxSwallows
    <2>1. test_mode_running /\ late_rx' \in 0 .. 2
      BY <1>4, LateCounts DEF RxSwallows, LateInv, TestOff
    <2> QED BY <1>4, <2>1 DEF RxSwallows, LateInv, TestOff, SendSide, testmode
  <1>5. CASE RxTimesOut
    BY <1>5, LateQuiet DEF RxTimesOut, SendSide
  <1> QED BY <1>1, <1>2, <1>3, <1>4, <1>5 DEF TestTx, TestRx

\* The dongle's path and USB.
LEMMA DongleLate ==
  ASSUME LateInv, Dongle \/ UsbSpeaker \/ UsbMicrophone
  PROVE  LateInv'
  BY LateQuiet DEF Dongle, DongleRx, DongleTx, DongleWakes, UsbSpeaker, UsbMicrophone,
                   SendSide, ReceiveSide

\* The commands.
LEMMA CommandsLate ==
  ASSUME LateInv, TestOn \/ StartTraffic \/ StopTraffic
  PROVE  LateInv'
  <1>1. CASE TestOn BY <1>1 DEF TestOn, LateInv, TestOff
  <1>2. CASE StartTraffic
    BY <1>2 DEF StartTraffic, LateInv, TestOff, SendSide, ReceiveSide
  <1>3. CASE StopTraffic BY <1>3, ZeroInRange, Zenon DEF StopTraffic, LateInv, TestOff
  <1> QED BY <1>1, <1>2, <1>3

\* After "linktest off" each test thread does at most one more thing
\* (test_mode.c:60-64 against 106-141).
THEOREM AtMostOneLate == Spec => []OneLateEach
  <1>1. Init => LateInv BY ZeroInRange, Zenon DEF Init, LinkInit, LateInv, TestOff
  <1>2. LateInv /\ [Next]_vars => LateInv'
    <2> SUFFICES ASSUME LateInv, [Next]_vars PROVE LateInv' OBVIOUS
    <2>1. CASE CodecControl \/ UNCHANGED vars
      BY <2>1, LateQuiet DEF CodecControl, vars, link_vars, testmode
    <2>2. CASE RadioControl
      BY <2>2, SessionLate, TestersLate, DongleLate, CommandsLate DEF RadioControl, LinkNext
    <2> QED BY <2>1, <2>2 DEF Next
  <1>3. LateInv => OneLateEach BY DEF LateInv, OneLateEach
  <1> QED BY <1>1, <1>2, <1>3, PTL DEF Spec

-------------------------------------------------------------------------------
(* The codec's clock.                                                         *)

\* No command reaches the codec before its bring-up has ended.
BringUpInv == ~CodecSettled => ~fixed /\ cpc = "idle"

LEMMA ClockKeepsBringUp == BringUpInv /\ [ClockNext]_clock_vars => BringUpInv'
  <1> SUFFICES ASSUME BringUpInv, [ClockNext]_clock_vars PROVE BringUpInv' OBVIOUS
  <1> USE DEF BringUpInv, CodecSettled
  <1>1. CASE BringUp
    BY <1>1 DEF BringUp, NoDevice, InitReset, InitFraction, InitLock,
               InitOutput, BringUpStep, fll, cli
  <1>2. CASE Updater
    BY <1>2 DEF Updater, Period, PathHigh, PathLow, fll, cli
  <1>3. CASE FllCommand
    BY <1>3 DEF FllCommand, FllAuto, FllRate
  <1>4. CASE CliWrites
    BY <1>4 DEF CliWrites, CliHigh, CliLow, CliFixed, fll
  <1>5. CASE UNCHANGED clock_vars
    BY <1>5 DEF clock_vars, fll, cli
  <1> QED BY <1>1, <1>2, <1>3, <1>4, <1>5 DEF ClockNext

\* With a rate fixed and no update under way the path thread starts none and
\* writes nothing (path_headset.c:154-172 and path_wired.c:83-100 ask
\* fll_get_fixed_rate first).
LEMMA ClockIsSilent ==
  ASSUME BringUpInv, ClockNext, fixed, upc = "wait"
  PROVE  upc' = "wait" /\ (cpc # "idle" \/ UNCHANGED regs)
  <1>1. CodecSettled BY DEF BringUpInv
  <1>2. CASE BringUp
    BY <1>1, <1>2 DEF CodecSettled, BringUp, NoDevice, InitReset, InitFraction, InitLock,
                      InitOutput, BringUpStep
  <1>3. CASE Updater
    BY <1>3 DEF Updater, Period, PathHigh, PathLow, updater
  <1>4. CASE FllCommand
    BY <1>4 DEF FllCommand, FllAuto, FllRate, updater
  <1>5. CASE CliWrites
    BY <1>5 DEF CliWrites, CliHigh, CliLow, CliFixed, updater
  <1> QED BY <1>2, <1>3, <1>4, <1>5 DEF ClockNext

\* A paused controller is silent, whatever its gains.
THEOREM PauseHolds == Spec => PausedIsSilent
  <1>1. Init => BringUpInv BY DEF Init, ClockInit, BringUpInv
  <1>2. [Next]_vars => [ClockNext]_clock_vars
    BY DEF Next, CodecControl, RadioControl, vars
  <1>3. BringUpInv /\ [Next]_vars => BringUpInv' BY <1>2, ClockKeepsBringUp
  <1>4. BringUpInv /\ [Next]_vars
          => [fixed /\ upc = "wait" => upc' = "wait" /\ (cpc # "idle" \/ UNCHANGED regs)]_clock_vars
    BY <1>2, ClockIsSilent
  <1> QED BY <1>1, <1>3, <1>4, PTL DEF Spec, PausedIsSilent

-------------------------------------------------------------------------------
(* The numbers of the controller.                                             *)

\* The constants, one by one.
LEMMA ClockConstants ==
    /\ TARGET \in Nat /\ BUFFER \in Nat /\ NOMINAL \in Nat
    /\ FLL_ADJUST_MAX_HZ \in Nat /\ P_TERM_MAX_HZ \in Nat /\ I_MAX_HZ \in Nat
    /\ MaxFaults \in Nat /\ MaxFll \in Nat /\ Window \in Nat
    /\ 0 < TARGET /\ TARGET <= BUFFER
    /\ SourceOffsets \subseteq Int
  BY ClockAssumption, SMT

\* A rate that the driver takes has a fraction within the bound that
\* nau88l21.c:84 names.
LEMMA FractionFits ==
  ASSUME NEW rate, InRange(rate)
  PROVE  Frac(rate) \in Nat /\ Frac(rate) <= 8388608
  <1>1. rate \in Int /\ 46875 <= rate /\ rate <= 48828
    BY ClockAssumption, SMT DEF InRange
  <1>2. PICK q \in Int : q = (rate * 15114) \div 15625 BY <1>1, SMT
  <1>3. 15625 * q <= rate * 15114 /\ rate * 15114 < 15625 * q + 15625
    BY <1>1, <1>2, SMT
  <1>4. Frac(rate) = rate * 4294 + q - 201326592 BY <1>1, <1>2, SMT DEF Frac
  <1>5. q >= 45342 BY <1>1, <1>3, SMT
  <1>6. q <= 47231 BY <1>1, <1>3, SMT
  <1>7. PICK n \in Nat : n = Frac(rate) /\ n <= 8388608
    <2>1. rate * 4294 >= 201281250 BY <1>1, SMT
    <2>2. rate * 4294 <= 209667432 BY <1>1, SMT
    <2> QED BY <1>1, <1>4, <1>5, <1>6, <2>1, <2>2, SMT
  <1> QED BY <1>7, SMT

\* So its two parts fit the registers.
LEMMA PartsFit ==
  ASSUME NEW rate, InRange(rate)
  PROVE  High(rate) \in HighPart /\ Low(rate) \in LowPart
  <1>1. PICK n \in Nat : n = Frac(rate) /\ n <= 8388608 BY FractionFits, SMT
  <1>2. PICK w \in Nat : w = LOW_SIZE /\ w > 0 /\ 8388608 < 256 * w BY SMT DEF LOW_SIZE
  <1>3. PICK h \in Int, l \in Int : h = n \div w /\ l = n % w BY <1>2
  <1>4. 0 <= l /\ l < w BY <1>2, <1>3
  <1>5. 0 <= h /\ h <= 255
    <2>1. n = w * h + l BY <1>2, <1>3
    <2>2. CASE h < 0
      <3>1. w * (h + 1) <= 0 BY <1>2, <2>2
      <3> QED BY <1>4, <2>1, <3>1
    <2>3. CASE h > 255
      <3>1. w * (h - 256) >= 0 BY <1>2, <2>3
      <3> QED BY <1>1, <1>2, <1>4, <2>1, <3>1, SMT
    <2> QED BY <2>2, <2>3
  <1>6. High(rate) \in HighPart BY <1>1, <1>2, <1>3, <1>5, SMT DEF High, HighPart
  <1>7. Low(rate) \in LowPart BY <1>1, <1>2, <1>3, <1>4, SMT DEF Low, LowPart
  <1> QED BY <1>6, <1>7

\* The parts are numbers, 0 among them.
LEMMA Parts == 0 \in HighPart /\ 0 \in LowPart /\ HighPart \subseteq Int /\ LowPart \subseteq Int
  <1>1. PICK w \in Nat : w = LOW_SIZE /\ w > 0 BY SMT DEF LOW_SIZE
  <1> QED BY <1>1 DEF HighPart, LowPart

\* A clamped number is within its limits.
LEMMA Clamped ==
  ASSUME NEW x \in Int, NEW m \in Nat
  PROVE  Clamp(x, m) \in -m .. m
  BY DEF Clamp

\* C division of a number by a positive one is off by less than one.
LEMMA TruncatedNear ==
  ASSUME NEW x \in Int, NEW b \in {4, 200}
  PROVE  /\ Trunc(x, b) \in Int
         /\ x - b < b * Trunc(x, b) /\ b * Trunc(x, b) < x + b
         /\ x = 0 => Trunc(x, b) = 0
  <1>1. CASE x >= 0
    <2>1. PICK q \in Int : q = x \div b BY <1>1
    <2>2. b * q <= x /\ x < b * q + b BY <1>1, <2>1
    <2>3. Trunc(x, b) = q BY <1>1, <2>1 DEF Trunc
    <2> QED BY <1>1, <2>2, <2>3
  <1>2. CASE x < 0
    <2>1. PICK y \in Nat : y = -x BY <1>2
    <2>2. PICK q \in Int : q = y \div b BY <2>1
    <2>3. b * q <= y /\ y < b * q + b BY <2>1, <2>2
    <2>4. Trunc(x, b) = -q BY <1>2, <2>1, <2>2 DEF Trunc
    <2> QED BY <1>2, <2>1, <2>3, <2>4
  <1> QED BY <1>1, <1>2

\* C division by 200 brings the integral within its limit in Hz.
LEMMA Truncated ==
  ASSUME NEW x \in Int, NEW m \in Nat, -(200 * m) <= x, x <= 200 * m
  PROVE  Trunc(x, 200) \in -m .. m
  <1>1. x \in Int /\ 200 \in {4, 200} OBVIOUS
  <1>2. PICK q \in Int : q = Trunc(x, 200) /\ x - 200 < 200 * q /\ 200 * q < x + 200
    BY ONLY <1>1, TruncatedNear
  <1> QED BY <1>2

\* The proportional part has the sign of the error, or is 0.
LEMMA Proportional ==
  ASSUME NEW error \in Int
  PROVE  /\ POut(error) \in -P_TERM_MAX_HZ .. P_TERM_MAX_HZ
         /\ error < 0 => POut(error) <= 0
         /\ error > 0 => POut(error) >= 0
  <1>1. PICK t \in Int : /\ t = Trunc(5 * error, 4)
                         /\ error < 0 => t <= 0
                         /\ error > 0 => t >= 0
    <2>1. 5 * error \in Int /\ 4 \in {4, 200} OBVIOUS
    <2>2. /\ Trunc(5 * error, 4) \in Int
          /\ 5 * error - 4 < 4 * Trunc(5 * error, 4)
          /\ 4 * Trunc(5 * error, 4) < 5 * error + 4
      BY ONLY <2>1, TruncatedNear
    <2> QED BY <2>2
  <1>2. P_TERM_MAX_HZ \in Nat BY ClockConstants
  <1>3. POut(error) = Clamp(t, P_TERM_MAX_HZ) BY <1>1 DEF POut
  <1> QED BY <1>1, <1>2, <1>3 DEF Clamp

\* The integral stays within its limit, clamped or wound back: a wind-back
\* happens only where the clamped integral is further out.
LEMMA IntegralBounded ==
  ASSUME NEW error \in Int, i_sum \in Int
  PROVE  WoundBack(error) \in -I_MAX_HZ * PI_DEN .. I_MAX_HZ * PI_DEN
  <1>1. /\ FLL_ADJUST_MAX_HZ \in Nat /\ I_MAX_HZ \in Nat /\ P_TERM_MAX_HZ \in Nat
        /\ PI_DEN = 200
    BY ClockConstants DEF PI_DEN
  <1>2. PICK p \in Int : /\ p = POut(error)
                         /\ error < 0 => p <= 0
                         /\ error > 0 => p >= 0
    BY <1>1, Proportional
  <1>3. PICK s \in Int : s = ISum(error) /\ -(200 * I_MAX_HZ) <= s /\ s <= 200 * I_MAX_HZ
    <2>1. I_MAX_HZ * PI_DEN \in Nat /\ I_MAX_HZ * PI_DEN = 200 * I_MAX_HZ BY <1>1
    <2>2. i_sum + error \in Int OBVIOUS
    <2>3. ISum(error) \in -(I_MAX_HZ * PI_DEN) .. I_MAX_HZ * PI_DEN
      BY <2>1, <2>2, Clamped DEF ISum
    <2> QED BY <2>1, <2>3
  <1>4. PICK t \in Int : t = Trunc(ISum(error), PI_DEN) /\ -I_MAX_HZ <= t /\ t <= I_MAX_HZ
    <2>1. Trunc(s, 200) \in -I_MAX_HZ .. I_MAX_HZ BY <1>1, <1>3, Truncated
    <2>2. Trunc(ISum(error), PI_DEN) = Trunc(s, 200) BY <1>1, <1>3
    <2> QED BY <1>1, <2>1, <2>2
  <1>5. WoundBack(error) = IF p + t > FLL_ADJUST_MAX_HZ /\ error < 0
                           THEN (FLL_ADJUST_MAX_HZ - p) * 200
                           ELSE IF p + t < -FLL_ADJUST_MAX_HZ /\ error > 0
                           THEN (-FLL_ADJUST_MAX_HZ - p) * 200
                           ELSE s
    BY <1>1, <1>2, <1>3, <1>4 DEF WoundBack
  <1>6. -I_MAX_HZ * PI_DEN = -(200 * I_MAX_HZ) /\ I_MAX_HZ * PI_DEN = 200 * I_MAX_HZ
    BY <1>1
  <1>7. WoundBack(error) \in -(200 * I_MAX_HZ) .. 200 * I_MAX_HZ
    BY <1>1, <1>2, <1>3, <1>4, <1>5
  <1> QED BY <1>6, <1>7

\* The ten filter updates of a period are one after the other: the function
\* that Filtered defines by recursion exists.
Smoothed(bytes, x) == (100 * bytes + 4 * x) \div 5

LEMMA FilterRuns ==
  ASSUME NEW old, NEW bytes
  PROVE  \E f : /\ f = [k \in 0 .. 10 |-> IF k = 0 THEN old ELSE Smoothed(bytes, f[k - 1])]
                /\ Filtered(old, bytes) = IF old < 0 THEN 100 * bytes ELSE f[10]
  <1> DEFINE Runs(f, m) == f = [k \in 0 .. m |->
                                  IF k = 0 THEN old ELSE Smoothed(bytes, f[k - 1])]
             Solved == {m \in 0 .. 10 : \E f : Runs(f, m)}
  <1>1. 0 \in Solved
    <2> DEFINE f == [k \in 0 .. 0 |-> old]
    <2>1. \A k \in 0 .. 0 : k = 0 OBVIOUS
    <2>2. Runs(f, 0) BY <2>1
    <2>3. 0 \in 0 .. 10 OBVIOUS
    <2> HIDE DEF f, Runs
    <2> QED BY <2>2, <2>3
  <1>2. ASSUME NEW m \in 0 .. 10 - 1, m \in Solved PROVE m + 1 \in Solved
    <2>1. PICK f : Runs(f, m) BY <1>2
    <2> DEFINE g == [k \in 0 .. m + 1 |->
                       IF k = m + 1 THEN Smoothed(bytes, f[m]) ELSE f[k]]
    <2>2. ASSUME NEW k \in 0 .. m + 1
          PROVE  g[k] = IF k = 0 THEN old ELSE Smoothed(bytes, g[k - 1])
      <3>1. CASE k = m + 1
        <4>1. k # 0 /\ k - 1 = m /\ m \in 0 .. m + 1 /\ m # m + 1 BY <3>1
        <4>2. g[k] = Smoothed(bytes, f[m]) /\ g[m] = f[m] BY <3>1, <4>1
        <4> QED BY <3>1, <4>1, <4>2
      <3>2. CASE k # m + 1
        <4>1. k \in 0 .. m /\ g[k] = f[k] BY <3>2
        <4>2. f[k] = IF k = 0 THEN old ELSE Smoothed(bytes, f[k - 1]) BY <2>1, <4>1
        <4>3. k # 0 => k - 1 \in 0 .. m + 1 /\ k - 1 # m + 1 BY <4>1
        <4>4. k # 0 => g[k - 1] = f[k - 1] BY <4>3
        <4> QED BY <4>1, <4>2, <4>4
      <3> QED BY <3>1, <3>2
    <2>3. Runs(g, m + 1) BY <2>2
    <2>4. m + 1 \in 0 .. 10 OBVIOUS
    <2> QED BY <2>3, <2>4
  <1>3. 10 \in Solved
    <2>1. 10 \in 0 .. 10 /\ 10 \in Nat OBVIOUS
    <2> HIDE DEF Solved
    <2> QED BY <1>1, <1>2, <2>1, IntervalInduction
  <1>4. \E f : Runs(f, 10) BY <1>3
  <1> DEFINE f == CHOOSE f : Runs(f, 10)
  <1>5. Runs(f, 10) BY <1>4
  <1>6. Filtered(old, bytes) = IF old < 0 THEN 100 * bytes ELSE f[10]
    BY DEF Filtered, Smoothed
  <1> QED BY <1>5, <1>6

\* The filtered level lies within the buffer, like the level it follows.
LEMMA FilterInBuffer ==
  ASSUME NEW old \in -1 .. 100 * BUFFER, NEW bytes \in 0 .. BUFFER
  PROVE  Filtered(old, bytes) \in 0 .. 100 * BUFFER
  <1>1. PICK top \in Nat : top = 100 * BUFFER /\ 100 * bytes \in 0 .. top BY ClockConstants
  <1>2. PICK f : /\ f = [k \in 0 .. 10 |-> IF k = 0 THEN old ELSE Smoothed(bytes, f[k - 1])]
                 /\ Filtered(old, bytes) = IF old < 0 THEN 100 * bytes ELSE f[10]
    BY FilterRuns
  <1>3. CASE old < 0 BY <1>1, <1>2, <1>3
  <1>4. CASE old >= 0
    <2> DEFINE Bounded == {k \in 0 .. 10 : f[k] \in 0 .. top}
    <2>1. 0 \in Bounded
      <3>1. 0 \in 0 .. 10 OBVIOUS
      <3>2. f[0] = old BY <1>2, <3>1
      <3> QED BY <1>1, <1>4, <3>1, <3>2
    <2>2. ASSUME NEW k \in 0 .. 10 - 1, k \in Bounded PROVE k + 1 \in Bounded
      <3>1. k + 1 \in 0 .. 10 /\ k + 1 # 0 /\ (k + 1) - 1 = k OBVIOUS
      <3>2. f[k + 1] = Smoothed(bytes, f[k]) BY <1>2, <3>1
      <3>3. PICK x \in 0 .. top : x = f[k] BY <2>2
      <3>4. PICK y \in 0 .. top : y = 100 * bytes BY <1>1
      <3>5. PICK z \in Int : z = (y + 4 * x) \div 5 OBVIOUS
      <3>6. 5 * z <= y + 4 * x /\ y + 4 * x < 5 * z + 5 BY <3>5
      <3>7. z \in 0 .. top BY <1>1, <3>6
      <3>8. f[k + 1] = z BY <3>2, <3>3, <3>4, <3>5 DEF Smoothed
      <3> QED BY <3>1, <3>7, <3>8
    <2>3. 10 \in Bounded
      <3>1. 10 \in 0 .. 10 /\ 10 \in Nat OBVIOUS
      <3> HIDE DEF Bounded
      <3> QED BY <2>1, <2>2, <3>1, IntervalInduction
    <2> QED BY <1>1, <1>2, <1>4, <2>3
  <1> QED BY <1>3, <1>4

\* The level stays within the buffer, whatever the source and the codec do.
LEMMA LevelInBuffer ==
  ASSUME ClockTypeOK, offset \in SourceOffsets
  PROVE  LevelAfter \in 1 .. 5 * BUFFER /\ LevelAfter \div 5 \in 0 .. BUFFER
  <1>1. TARGET \in Nat /\ BUFFER \in Nat /\ 0 < TARGET /\ TARGET <= BUFFER
        /\ offset \in Int /\ NOMINAL \in Int /\ fill \in Int
    BY ClockConstants DEF ClockTypeOK
  <1>2. PICK rate \in Int : rate = RateOf(fll7, fll8)
    <2>1. fll7 \in Int /\ fll8 \in Int BY Parts DEF ClockTypeOK
    <2>2. LOW_SIZE \in Int BY SMT DEF LOW_SIZE
    <2> QED BY <2>1, <2>2, SMT DEF RateOf
  <1>3. PICK next \in Int : next = fill + 2 * (NOMINAL + offset - RateOf(fll7, fll8))
    BY <1>1, <1>2
  <1>4. LevelAfter = IF codec # "up" \/ next > 5 * BUFFER THEN 5 * BUFFER
                     ELSE IF next <= 0 THEN 5 * TARGET ELSE next
    BY <1>3 DEF LevelAfter
  <1>5. PICK n \in Int : n = LevelAfter /\ 1 <= n /\ n <= 5 * BUFFER BY <1>1, <1>3, <1>4
  <1>6. PICK q \in Int : q = n \div 5 BY <1>5
  <1>7. 5 * q <= n /\ n < 5 * q + 5 BY <1>5, <1>6
  <1> QED BY <1>1, <1>5, <1>6, <1>7

-------------------------------------------------------------------------------
(* The types.                                                                 *)

\* Each step of the clock keeps the registers, the rates under way and the
\* controller's statics within their ranges.
ClockInv == ClockTypeOK /\ offset \in SourceOffsets

\* A failed transfer and a command are counted within their bounds.
LEMMA ClockCounts ==
  ASSUME ClockTypeOK
  PROVE  /\ I2cFault \/ I2cOk => i2c_faults' \in 0 .. MaxFaults
         /\ NextFll => fll_cmds' \in 0 .. MaxFll
  BY ClockConstants DEF ClockTypeOK, I2cFault, I2cOk, NextFll

\* The bring-up programs the nominal rate.
LEMMA BringUpType == ClockInv /\ BringUp => ClockInv'
  <1> SUFFICES ASSUME ClockInv, BringUp PROVE ClockInv' OBVIOUS
  <1>1. InRange(NOMINAL) BY ClockConstants DEF InRange
  <1>2. /\ fll7' \in HighPart /\ fll8' \in LowPart
        /\ codec' \in {"reset", "fll", "lock", "output", "up", "dead", "none"}
        /\ I2cFault \/ I2cOk
        /\ UNCHANGED <<fll, updater, cli, loop, offset, fll_cmds, periods>>
    BY <1>1, PartsFit
    DEF ClockInv, ClockTypeOK, BringUp, NoDevice, InitReset, InitFraction, InitLock,
        InitOutput, BringUpStep, regs
  <1> QED BY <1>2, ClockCounts DEF ClockInv, ClockTypeOK, fll, updater, cli, loop, InRange

\* A period of the controller.
LEMMA PeriodType == ClockInv /\ Period => ClockInv'
  <1> SUFFICES ASSUME ClockInv, Period PROVE ClockInv' OBVIOUS
  <1>1. fill' \in 1 .. 5 * BUFFER /\ fill' \div 5 \in 0 .. BUFFER
    BY LevelInBuffer DEF ClockInv, Period
  <1>2. filter' \in 0 .. 100 * BUFFER
    <2>1. filter \in -1 .. 100 * BUFFER BY DEF ClockInv, ClockTypeOK
    <2> QED BY <1>1, <2>1, FilterInBuffer DEF Period
  <1>3. i_sum' \in -I_MAX_HZ * PI_DEN .. I_MAX_HZ * PI_DEN
    <2>1. i_sum \in -I_MAX_HZ * PI_DEN .. I_MAX_HZ * PI_DEN /\ i_sum \in Int
      BY ClockConstants DEF ClockInv, ClockTypeOK, PI_DEN
    <2>2. PICK f \in Int : f = filter' BY <1>2
    <2>3. TARGET - f \div 100 \in Int BY <2>2, ClockConstants
    <2>4. ErrorBytes(filter') \in Int BY <2>2, <2>3 DEF ErrorBytes
    <2>5. i_sum' = WoundBack(ErrorBytes(filter')) \/ i_sum' = i_sum
      BY DEF Period
    <2> QED BY <2>1, <2>4, <2>5, IntegralBounded
  <1>4. upc' \in {"wait", "fll7", "fll8"} /\ (upc' # "wait" => InRange(urate'))
    BY DEF ClockInv, ClockTypeOK, Period, updater
  <1>5. UNCHANGED <<codec, regs, fll, cli, offset, i2c_faults, fll_cmds>> BY DEF Period
  <1>6. filter' \in -1 .. 100 * BUFFER BY <1>2, ClockConstants
  <1> QED BY <1>1, <1>3, <1>4, <1>5, <1>6
      DEF ClockInv, ClockTypeOK, regs, fll, cli, InRange

\* A step that leaves the bring-up and the controller's statics alone.
LEMMA ClockStep ==
  ASSUME ClockInv, UNCHANGED <<codec, i_sum, filter, fill, offset>>,
         fll7' \in HighPart, fll8' \in LowPart,
         fixed' \in BOOLEAN, fixed' => InRange(fixed_rate_hz'),
         upc' \in {"wait", "fll7", "fll8"}, upc' # "wait" => InRange(urate'),
         cpc' \in {"idle", "fll7", "fll8", "fixed"}, cpc' # "idle" => InRange(crate'),
         i2c_faults' \in 0 .. MaxFaults, fll_cmds' \in 0 .. MaxFll
  PROVE  ClockInv'
  BY DEF ClockInv, ClockTypeOK, InRange

\* A transfer of the path thread.
LEMMA UpdateType == ClockInv /\ (PathHigh \/ PathLow) => ClockInv'
  <1> SUFFICES ASSUME ClockInv, PathHigh \/ PathLow PROVE ClockInv' OBVIOUS
  <1>1. UNCHANGED <<codec, i_sum, filter, fill, offset, fixed, fixed_rate_hz, cpc, crate, fll_cmds>>
    BY DEF PathHigh, PathLow, loop, fll, cli
  <1>2. i2c_faults' \in 0 .. MaxFaults
    BY ClockCounts DEF ClockInv, PathHigh, PathLow
  <1>3. upc # "wait" /\ InRange(urate) BY DEF ClockInv, ClockTypeOK, PathHigh, PathLow
  <1>4. fll7' = High(urate) \/ fll7' = fll7 BY DEF PathHigh, PathLow
  <1>5. fll8' = Low(urate) \/ fll8' = fll8 BY DEF PathHigh, PathLow
  <1>6. fll7' \in HighPart /\ fll8' \in LowPart
    BY <1>3, <1>4, <1>5, PartsFit DEF ClockInv, ClockTypeOK
  <1>7. upc' \in {"wait", "fll7", "fll8"} /\ (upc' # "wait" => urate' = urate)
    BY DEF PathHigh, PathLow
  <1> QED BY <1>1, <1>2, <1>3, <1>6, <1>7, ClockStep DEF ClockInv, ClockTypeOK

\* A transfer of the CLI thread, or its last word: the rate is fixed.
LEMMA CliType == ClockInv /\ CliWrites => ClockInv'
  <1> SUFFICES ASSUME ClockInv, CliWrites PROVE ClockInv' OBVIOUS
  <1>1. UNCHANGED <<codec, i_sum, filter, fill, offset, upc, urate, fll_cmds>>
    BY DEF CliWrites, CliHigh, CliLow, CliFixed, loop, updater
  <1>2. i2c_faults' \in 0 .. MaxFaults
    BY ClockCounts DEF ClockInv, ClockTypeOK, CliWrites, CliHigh, CliLow, CliFixed
  <1>3. cpc # "idle" /\ InRange(crate)
    BY DEF ClockInv, ClockTypeOK, CliWrites, CliHigh, CliLow, CliFixed
  <1>4. fll7' = High(crate) \/ fll7' = fll7
    BY DEF CliWrites, CliHigh, CliLow, CliFixed, regs
  <1>5. fll8' = Low(crate) \/ fll8' = fll8
    BY DEF CliWrites, CliHigh, CliLow, CliFixed, regs
  <1>6. fll7' \in HighPart /\ fll8' \in LowPart
    BY <1>3, <1>4, <1>5, PartsFit DEF ClockInv, ClockTypeOK
  <1>7. cpc' \in {"idle", "fll7", "fll8", "fixed"} /\ (cpc' # "idle" => crate' = crate)
    BY DEF CliWrites, CliHigh, CliLow, CliFixed
  <1>8. \/ UNCHANGED <<fixed, fixed_rate_hz>>
        \/ fixed' = TRUE /\ fixed_rate_hz' = crate
    BY DEF CliWrites, CliHigh, CliLow, CliFixed, fll
  <1>9. fixed' \in BOOLEAN /\ (fixed' => InRange(fixed_rate_hz'))
    <2>1. fixed \in BOOLEAN /\ (fixed => InRange(fixed_rate_hz))
      BY DEF ClockInv, ClockTypeOK
    <2>2. CASE UNCHANGED <<fixed, fixed_rate_hz>> BY <2>1, <2>2
    <2>3. CASE fixed' = TRUE /\ fixed_rate_hz' = crate BY <1>3, <2>3
    <2> QED BY <1>8, <2>2, <2>3
  <1>10. /\ upc' \in {"wait", "fll7", "fll8"} /\ (upc' # "wait" => InRange(urate'))
         /\ fll_cmds' \in 0 .. MaxFll
    BY <1>1 DEF ClockInv, ClockTypeOK
  <1>11. cpc' # "idle" => InRange(crate') BY <1>3, <1>7
  <1> QED BY <1>1, <1>2, <1>6, <1>7, <1>9, <1>10, <1>11, ClockStep

\* A command is typed: a rate out of range goes no further.
LEMMA CommandType == ClockInv /\ FllCommand => ClockInv'
  <1> SUFFICES ASSUME ClockInv, FllCommand PROVE ClockInv' OBVIOUS
  <1>1. UNCHANGED <<codec, fll7, fll8, i_sum, filter, fill, offset, upc, urate, i2c_faults>>
    BY DEF FllCommand, FllAuto, FllRate, regs, loop, updater
  <1>2. fll_cmds' \in 0 .. MaxFll
    BY ClockCounts DEF ClockInv, FllCommand, FllAuto, FllRate
  <1>3. \/ UNCHANGED <<cpc, crate>>
        \/ cpc' = "fll7" /\ InRange(crate')
    BY DEF FllCommand, FllAuto, FllRate, cli
  <1>4. \/ UNCHANGED <<fixed, fixed_rate_hz>>
        \/ fixed' = FALSE
    BY DEF FllCommand, FllAuto, FllRate, fll
  <1>5. fixed' \in BOOLEAN /\ (fixed' => InRange(fixed_rate_hz'))
    <2>1. fixed \in BOOLEAN /\ (fixed => InRange(fixed_rate_hz))
      BY DEF ClockInv, ClockTypeOK
    <2>2. CASE UNCHANGED <<fixed, fixed_rate_hz>> BY <2>1, <2>2
    <2>3. CASE fixed' = FALSE BY <2>3
    <2> QED BY <1>4, <2>2, <2>3
  <1>6. /\ cpc' \in {"idle", "fll7", "fll8", "fixed"}
        /\ cpc' # "idle" => InRange(crate')
    BY <1>3 DEF ClockInv, ClockTypeOK
  <1>7. /\ fll7' \in HighPart /\ fll8' \in LowPart /\ i2c_faults' \in 0 .. MaxFaults
        /\ upc' \in {"wait", "fll7", "fll8"} /\ (upc' # "wait" => InRange(urate'))
    BY <1>1 DEF ClockInv, ClockTypeOK
  <1> QED BY <1>1, <1>2, <1>5, <1>6, <1>7, ClockStep

LEMMA ClockTypeKept == ClockInv /\ [ClockNext]_clock_vars => ClockInv'
  <1>1. ClockInv /\ UNCHANGED clock_vars => ClockInv'
    BY DEF ClockInv, ClockTypeOK, clock_vars, regs, fll, updater, cli, loop, InRange
  <1> QED BY <1>1, BringUpType, PeriodType, UpdateType, CliType, CommandType
      DEF ClockNext, Updater

\* Each step of the link test keeps the queues and the FIFOs within their sizes.
LinkInv == LinkTypeOK /\ prop_rx_queue \in Seq({"mic", "other"})

LEMMA LinkTypeKept == LinkInv /\ [LinkNext]_link_vars => LinkInv'
  <1> SUFFICES ASSUME LinkInv, [LinkNext]_link_vars PROVE LinkInv' OBVIOUS
  <1>1. DEPTH \in Nat /\ OUT_CAP \in Nat /\ IN_CAP \in Nat /\ DEPTH > 0
    BY LinkTestAssumption
  <1>2. /\ prop_rx_queue \in Seq({"mic", "other"})
        /\ Len(prop_rx_queue) \in Nat /\ Len(prop_rx_queue) <= DEPTH
    BY DEF LinkInv, LinkTypeOK
  <1> USE DEF LinkNext, SessionTakes, SessionDelivers, TestTx, TestRx, TxOffers, TxGivesUp,
              TxWakes, RxSwallows, RxTimesOut, Dongle, DongleRx, DongleTx, DongleWakes,
              UsbSpeaker, UsbMicrophone, TestOn, StartTraffic, StopTraffic, link_vars,
              SendSide, ReceiveSide, dongle, testmode
  <1>3. prop_rx_queue' \in Seq({"mic", "other"}) /\ Len(prop_rx_queue') <= DEPTH
    <2>1. CASE UNCHANGED prop_rx_queue BY <1>2, <2>1
    <2>2. CASE prop_rx_queue # <<>> /\ prop_rx_queue' = Tail(prop_rx_queue)
      BY <1>1, <1>2, <2>2
    <2>3. CASE /\ Len(prop_rx_queue) < DEPTH
               /\ \E len \in {"mic", "other"} : prop_rx_queue' = Append(prop_rx_queue, len)
      BY <1>1, <1>2, <2>3
    <2> QED BY <2>1, <2>2, <2>3
  <1>4. \A i \in DOMAIN prop_rx_queue' : prop_rx_queue'[i] \in {"mic", "other"} BY <1>3
  <1>5. prop_tx_queue' \in 0 .. DEPTH
    BY <1>1 DEF LinkInv, LinkTypeOK
  <1>6. usb_out' \in 0 .. OUT_CAP
    BY <1>1 DEF LinkInv, LinkTypeOK
  <1>7. usb_in' \in 0 .. IN_CAP
    BY <1>1 DEF LinkInv, LinkTypeOK
  <1>8. paced' \in BOOLEAN
    BY DEF LinkInv, LinkTypeOK
  <1>9. /\ tpc' \in {"none", "wait", "blocked", "sleep"} /\ rpc' \in {"none", "wait", "blocked"}
        /\ dpc' \in {"rx", "tx", "sleep"} /\ lpc' \in {"idle", "on"}
    BY DEF LinkInv, LinkTypeOK
  <1> QED BY <1>3, <1>4, <1>5, <1>6, <1>7, <1>8, <1>9 DEF LinkInv, LinkTypeOK

\* At boot everything is within its range.
LEMMA ClockAtBoot == ASSUME ClockInit PROVE ClockInv
  <1>1. fill \in 1 .. 5 * BUFFER BY ClockConstants DEF ClockInit
  <1>2. filter \in -1 .. 100 * BUFFER BY ClockConstants DEF ClockInit
  <1>3. i_sum \in -I_MAX_HZ * PI_DEN .. I_MAX_HZ * PI_DEN
    <2>1. I_MAX_HZ * 200 \in Nat /\ i_sum = 0 /\ PI_DEN = 200
      BY ClockConstants DEF ClockInit, PI_DEN
    <2> QED BY <2>1
  <1>4. i2c_faults \in 0 .. MaxFaults /\ fll_cmds \in 0 .. MaxFll
    BY ClockConstants DEF ClockInit
  <1>5. fll7 \in HighPart /\ fll8 \in LowPart BY Parts DEF ClockInit
  <1> QED BY <1>1, <1>2, <1>3, <1>4, <1>5 DEF ClockInit, ClockInv, ClockTypeOK

\* Registers, rates, integral, filter, level and the queues of the link test
\* stay within their ranges: every rate that reaches the registers is one the
\* FLL can make (nau88l21.c:80-87), and the integral never winds up past its
\* limit (path_common.c).
THEOREM TypeCorrect == Spec => []TypeOK
  <1>1. Init => ClockInv /\ LinkInv
    <2> SUFFICES ASSUME Init PROVE ClockInv /\ LinkInv OBVIOUS
    <2>1. LinkInv
      <3>1. DEPTH \in Nat /\ OUT_CAP \in Nat /\ IN_CAP \in Nat BY LinkTestAssumption
      <3>2. prop_rx_queue \in Seq({"mic", "other"}) /\ Len(prop_rx_queue) = 0
        BY DEF Init, LinkInit
      <3>3. \A i \in DOMAIN prop_rx_queue : prop_rx_queue[i] \in {"mic", "other"} BY <3>2
      <3>4. paced \in BOOLEAN BY Zenon DEF Init, LinkInit
      <3>5. /\ prop_tx_queue \in 0 .. DEPTH /\ Len(prop_rx_queue) <= DEPTH
            /\ usb_out \in 0 .. OUT_CAP /\ usb_in \in 0 .. IN_CAP
        BY <3>1, <3>2 DEF Init, LinkInit
      <3>6. /\ tpc = "none" /\ rpc = "none" /\ dpc = "rx" /\ lpc = "idle"
        BY DEF Init, LinkInit
      <3> QED BY <3>2, <3>3, <3>4, <3>5, <3>6 DEF LinkInv, LinkTypeOK
    <2> QED BY <2>1, ClockAtBoot DEF Init
  <1>2. ClockInv /\ LinkInv /\ [Next]_vars => (ClockInv /\ LinkInv)'
    <2>1. [Next]_vars => [ClockNext]_clock_vars /\ [LinkNext]_link_vars
      BY DEF Next, CodecControl, RadioControl, vars
    <2> QED BY <2>1, ClockTypeKept, LinkTypeKept
  <1>3. ClockInv /\ LinkInv => TypeOK BY DEF ClockInv, LinkInv, TypeOK
  <1> QED BY <1>1, <1>2, <1>3, PTL DEF Spec

-------------------------------------------------------------------------------
(* The level.                                                                 *)

\* The program's own numbers (app_config, path_common.c), and any source within
\* the deviation that the driver expects of a board (nau88l21.c:127).
ProgramNumbers ==
    /\ TARGET = 960 /\ BUFFER = 1920 /\ NOMINAL = 48000
    /\ FLL_ADJUST_MAX_HZ = 800 /\ P_TERM_MAX_HZ = 400 /\ I_MAX_HZ = 400
    /\ SourceOffsets \subseteq -300 .. 300

\* Where level (x, fifths of a byte) and filter (f, hundredths), both seen from
\* the target, and what the integral has still to make up (s, 1/200 Hz) stay.
\* The level is never further out than what is missing, or on its way there:
\* when most is missing it cannot be on the other side.
InBand(x, f, s) ==
    /\ -60000 <= s /\ s <= 60000
    /\ -1450 <= x /\ x <= 1450
    /\ -60000 <= 40 * x - s /\ 40 * x - s <= 60000
    /\ -2500 <= f - 20 * x /\ f - 20 * x <= 2500

\* A rate comes back from its two parts.
LEMMA RateKept ==
  ASSUME NEW rate, InRange(rate)
  PROVE  RateOf(High(rate), Low(rate)) = rate
  <1>1. rate \in Int /\ 46875 <= rate /\ rate <= 48828
    BY ClockAssumption, SMT DEF InRange
  <1>2. PICK q \in Int : q = (rate * 15114) \div 15625 BY <1>1, SMT
  <1>3. 15625 * q <= rate * 15114 /\ rate * 15114 < 15625 * q + 15625
    BY <1>1, <1>2, SMT
  <1>4. Frac(rate) = rate * 4294 + q - 201326592 BY <1>1, <1>2, SMT DEF Frac
  <1>5. PICK w \in Nat : w = LOW_SIZE /\ w > 0 BY SMT DEF LOW_SIZE
  <1>6. PICK n \in Int : n = Frac(rate) BY FractionFits, SMT
  <1>7. PICK h \in Int, l \in Int : h = n \div w /\ l = n % w BY <1>5
  <1>8. n = h * w + l BY <1>5, <1>7
  <1>9. High(rate) = h /\ Low(rate) = l BY <1>5, <1>6, <1>7 DEF High, Low
  <1>10. RateOf(High(rate), Low(rate)) = (n + 201330309) \div 4295
    BY <1>5, <1>8, <1>9, SMT DEF RateOf
  <1>11. 4295 * rate <= n + 201330309 /\ n + 201330309 < 4295 * rate + 4295
    BY <1>1, <1>3, <1>4, <1>6, SMT
  <1>12. PICK r \in Int : r = (n + 201330309) \div 4295 BY SMT
  <1>13. 4295 * r <= n + 201330309 /\ n + 201330309 < 4295 * r + 4295 BY <1>12, SMT
  <1>14. r = rate BY <1>1, <1>11, <1>13, SMT
  <1> QED BY <1>10, <1>12, <1>14

\* An update of the filter takes a fifth of the distance.
LEMMA SmoothedCloser ==
  ASSUME NEW x \in Int, NEW bytes \in Int, NEW a \in Int, NEW b \in Int,
         4 * a + 4 <= 5 * b, -a <= x - 100 * bytes, x - 100 * bytes <= a
  PROVE  /\ Smoothed(bytes, x) \in Int
         /\ -b <= Smoothed(bytes, x) - 100 * bytes
         /\ Smoothed(bytes, x) - 100 * bytes <= b
  <1>1. PICK z \in Int : z = (100 * bytes + 4 * x) \div 5 OBVIOUS
  <1>2. 5 * z <= 100 * bytes + 4 * x /\ 100 * bytes + 4 * x < 5 * z + 5 BY <1>1
  <1>3. Smoothed(bytes, x) = z BY <1>1 DEF Smoothed
  <1> QED BY <1>2, <1>3

\* The ten updates of a period leave little more than a tenth of it.
LEMMA FilterCloses ==
  ASSUME NEW old \in Int, NEW bytes \in Int,
         old >= 0 => -20000 <= old - 100 * bytes /\ old - 100 * bytes <= 20000
  PROVE  /\ Filtered(old, bytes) \in Int
         /\ -2200 <= Filtered(old, bytes) - 100 * bytes
         /\ Filtered(old, bytes) - 100 * bytes <= 2200
  <1>1. PICK f : /\ f = [k \in 0 .. 10 |-> IF k = 0 THEN old ELSE Smoothed(bytes, f[k - 1])]
                 /\ Filtered(old, bytes) = IF old < 0 THEN 100 * bytes ELSE f[10]
    BY FilterRuns
  <1>2. CASE old < 0 BY <1>1, <1>2
  <1>3. CASE old >= 0
    <2> DEFINE Within(x, a) == x \in Int /\ -a <= x - 100 * bytes /\ x - 100 * bytes <= a
    <2>1. \A k \in 1 .. 10 : f[k] = Smoothed(bytes, f[k - 1])
      <3> TAKE k \in 1 .. 10
      <3>1. k \in 0 .. 10 /\ k # 0 OBVIOUS
      <3> QED BY <1>1, <3>1
    <2>2. /\ f[1] = Smoothed(bytes, f[0]) /\ f[2] = Smoothed(bytes, f[1])
          /\ f[3] = Smoothed(bytes, f[2]) /\ f[4] = Smoothed(bytes, f[3])
          /\ f[5] = Smoothed(bytes, f[4]) /\ f[6] = Smoothed(bytes, f[5])
          /\ f[7] = Smoothed(bytes, f[6]) /\ f[8] = Smoothed(bytes, f[7])
          /\ f[9] = Smoothed(bytes, f[8]) /\ f[10] = Smoothed(bytes, f[9])
      BY <2>1
    <2>3. Within(f[0], 20000)
      <3>1. 0 \in 0 .. 10 OBVIOUS
      <3>2. f[0] = old BY <1>1, <3>1
      <3> QED BY <1>3, <3>2
    <2>4. \A x : \A a, b \in Int :
            4 * a + 4 <= 5 * b /\ Within(x, a) => Within(Smoothed(bytes, x), b)
      BY SmoothedCloser
    <2> HIDE DEF Within
    <2>5. Within(f[1], 16001) /\ Within(f[2], 12802) BY <2>2, <2>3, <2>4
    <2>6. Within(f[3], 10243) /\ Within(f[4], 8196) BY <2>2, <2>4, <2>5
    <2>7. Within(f[5], 6558) /\ Within(f[6], 5248) BY <2>2, <2>4, <2>6
    <2>8. Within(f[7], 4200) /\ Within(f[8], 3361) BY <2>2, <2>4, <2>7
    <2>9. Within(f[9], 2690) /\ Within(f[10], 2200) BY <2>2, <2>4, <2>8
    <2> QED BY <1>1, <1>3, <2>9 DEF Within
  <1> QED BY <1>2, <1>3

\* One period: p and t are the parts of the output asked for last, for error e
\* and integral i, off the source's offset, and y the level that comes of it.
PeriodMoves(x, f, i, off, e, p, t, y) ==
    /\ {x, f, i, off, e, p, t, y} \subseteq Int
    /\ InBand(x, f, 200 * off + i)
    /\ -100 * e <= f /\ f < -100 * e + 100
    /\ 5 * e - 4 < 4 * p /\ 4 * p < 5 * e + 4
    /\ i - 200 < 200 * t /\ 200 * t < i + 200
    /\ y = x + 2 * (off + p + t)

\* The level comes no further out, and with much still to make up it is on the
\* side from which the integral goes back.
LEMMA LevelStaysInBand ==
  ASSUME NEW x, NEW f, NEW i, NEW off, NEW e, NEW p, NEW t, NEW y,
         PeriodMoves(x, f, i, off, e, p, t, y)
  PROVE  /\ -1450 <= y /\ y <= 1450
         /\ -59000 <= 40 * y - (200 * off + i) /\ 40 * y - (200 * off + i) <= 59000
         /\ -19500 <= f - 20 * y /\ f - 20 * y <= 19500
         /\ 200 * off + i >= 59600 => y >= 200
         /\ 200 * off + i <= -59600 => y <= -200
  <1> USE DEF PeriodMoves
  <1> DEFINE s == 200 * off + i
  <1>1. /\ 4000 * y <= 2000 * x + 40 * s - 100 * (f - 20 * x) + 24000
        /\ 4000 * y >= 2000 * x + 40 * s - 100 * (f - 20 * x) - 24000
    BY SMT
  <1>2. s \in Int /\ x \in Int /\ f \in Int /\ y \in Int BY SMT
  <1>3. InBand(x, f, s) OBVIOUS
  <1> HIDE DEF s, PeriodMoves
  <1>4. -1450 <= y /\ y <= 1450 BY <1>1, <1>2, <1>3, SMT DEF InBand
  <1>5. -59000 <= 40 * y - s /\ 40 * y - s <= 59000 BY <1>1, <1>2, <1>3, SMT DEF InBand
  <1>6. -19500 <= f - 20 * y /\ f - 20 * y <= 19500 BY <1>1, <1>2, <1>3, SMT DEF InBand
  <1>7. (s >= 59600 => y >= 200) /\ (s <= -59600 => y <= -200)
    BY <1>1, <1>2, <1>3, SMT DEF InBand
  <1> QED BY <1>4, <1>5, <1>6, <1>7 DEF s

\* The filter follows, and the integral moves by the error, or less where it is
\* clamped.
LEMMA BandKept ==
  ASSUME NEW y \in Int, NEW g \in Int, NEW s \in Int, NEW r \in Int, NEW e \in Int,
         -60000 <= s, s <= 60000, -1450 <= y, y <= 1450,
         -59000 <= 40 * y - s, 40 * y - s <= 59000,
         -2500 <= g - 20 * y, g - 20 * y <= 2500,
         s >= 59600 => y >= 200,
         s <= -59600 => y <= -200,
         -100 * e <= g, g < -100 * e + 100,
         \/ s <= r /\ r <= s + e
         \/ s + e <= r /\ r <= s
  PROVE  InBand(y, g, r)
  <1>1. -316 <= e /\ e <= 316 BY SMT
  <1>2. -316 <= r - s /\ r - s <= 316 BY <1>1, SMT
  <1>3. s >= 59600 => e <= 0 BY SMT
  <1>4. s <= -59600 => e >= 0 BY SMT
  <1>5. -60000 <= r /\ r <= 60000 BY <1>2, <1>3, <1>4, SMT
  <1> QED BY <1>2, <1>5, SMT DEF InBand

\* The level as the controller sees it: before the first period the filter is
\* set to the level itself.
FilterSeen == IF filter < 0 THEN 100 * TARGET ELSE filter

\* The rate that the last period has asked for.
AskedLast == NOMINAL - (POut(ErrorBytes(FilterSeen)) + Trunc(i_sum, PI_DEN))

\* Left to itself, with all transfers done, the controller keeps level, filter
\* and integral in their band, and the registers come to hold what it asked for.
LevelInv ==
    fll_cmds = 0 /\ i2c_faults = 0 =>
      /\ ~fixed /\ cpc = "idle"
      /\ codec \notin {"dead", "none"}
      /\ InBand(fill - 5 * TARGET, FilterSeen - 100 * TARGET, 200 * offset + i_sum)
      /\ codec # "up" => filter = -1 /\ i_sum = 0 /\ upc = "wait"
      /\ codec \in {"lock", "output"} => Programmed(NOMINAL)
      /\ codec = "up" =>
           \/ upc = "wait" /\ Programmed(AskedLast)
           \/ upc = "fll7" /\ urate = AskedLast
           \/ upc = "fll8" /\ urate = AskedLast /\ fll7 = High(urate)

\* The error behind the filter, rounded up to a byte.
LEMMA ErrorNear ==
  ASSUME ProgramNumbers, NEW f \in Int
  PROVE  /\ ErrorBytes(f) \in Int
         /\ -100 * ErrorBytes(f) <= f - 100 * 960
         /\ f - 100 * 960 < -100 * ErrorBytes(f) + 100
         /\ f = 100 * 960 => ErrorBytes(f) = 0
  <1>1. PICK k \in Int : k = f \div 100 OBVIOUS
  <1>2. 100 * k <= f /\ f < 100 * k + 100 BY <1>1
  <1>3. ErrorBytes(f) = 960 - k BY <1>1 DEF ErrorBytes, ProgramNumbers
  <1> QED BY <1>2, <1>3, SMT

\* Neither the output nor, in the band, its proportional part is ever clamped.
LEMMA OutputParts ==
  ASSUME ProgramNumbers, NEW e \in Int
  PROVE  /\ POut(e) \in -400 .. 400
         /\ -316 <= e /\ e <= 316 => 5 * e - 4 < 4 * POut(e) /\ 4 * POut(e) < 5 * e + 4
         /\ e = 0 => POut(e) = 0
  <1>1. PICK t \in Int : /\ t = Trunc(5 * e, 4)
                         /\ 5 * e - 4 < 4 * t /\ 4 * t < 5 * e + 4
                         /\ 5 * e = 0 => t = 0
    <2>1. 5 * e \in Int /\ 4 \in {4, 200} OBVIOUS
    <2>2. /\ Trunc(5 * e, 4) \in Int
          /\ 5 * e - 4 < 4 * Trunc(5 * e, 4) /\ 4 * Trunc(5 * e, 4) < 5 * e + 4
          /\ 5 * e = 0 => Trunc(5 * e, 4) = 0
      BY ONLY <2>1, TruncatedNear
    <2> QED BY <2>2
  <1>2. POut(e) = Clamp(t, 400) BY <1>1 DEF POut, ProgramNumbers
  <1> QED BY <1>1, <1>2, SMT DEF Clamp

\* What the period makes of the integral.
LEMMA IntegralMoves ==
  ASSUME ProgramNumbers, ClockInv, NEW e \in Int
  PROVE  /\ WoundBack(e) \in Int
         /\ Trunc(WoundBack(e), PI_DEN) \in -400 .. 400
         /\ \/ i_sum <= WoundBack(e) /\ WoundBack(e) <= i_sum + e
            \/ i_sum + e <= WoundBack(e) /\ WoundBack(e) <= i_sum
         /\ Output(e) = POut(e) + Trunc(WoundBack(e), PI_DEN)
  <1>1. POut(e) \in -400 .. 400 BY OutputParts
  <1>2. PICK m \in Nat : m = I_MAX_HZ * PI_DEN /\ m = 200 * 400
    BY SMT DEF ProgramNumbers, PI_DEN
  <1>3. PICK i \in Int : i = i_sum /\ -m <= i /\ i <= m
    <2>1. -I_MAX_HZ * PI_DEN = -m BY <1>2, SMT DEF ProgramNumbers, PI_DEN
    <2>2. i_sum \in -m .. m BY <1>2, <2>1 DEF ClockInv, ClockTypeOK
    <2> QED BY <2>2
  <1>4. PICK s \in Int : /\ s = ISum(e) /\ -m <= s /\ s <= m
                         /\ \/ i <= s /\ s <= i + e
                            \/ i + e <= s /\ s <= i
    <2>1. ISum(e) = Clamp(i + e, m) BY <1>2, <1>3 DEF ISum
    <2> QED BY <1>3, <2>1 DEF Clamp
  <1>5. PICK t \in -400 .. 400 : t = Trunc(ISum(e), PI_DEN)
    <2>1. 400 \in Nat /\ -(200 * 400) <= s /\ s <= 200 * 400 BY <1>2, <1>4, SMT
    <2>2. Trunc(s, 200) \in -400 .. 400 BY <2>1, Truncated
    <2> QED BY <1>4, <2>2 DEF PI_DEN
  <1>6. PICK p \in -400 .. 400 : p = POut(e) BY <1>1
  <1>7. p + t \in -800 .. 800 BY SMT
  <1>8. WoundBack(e) = ISum(e)
    <2>1. ~(p + t > 800) /\ ~(p + t < -800) BY <1>7
    <2> QED BY <1>5, <1>6, <2>1 DEF WoundBack, ProgramNumbers
  <1>9. Output(e) = p + t
    <2>1. Output(e) = Clamp(p + t, 800) BY <1>5, <1>6 DEF Output, ProgramNumbers
    <2> QED BY <1>7, <2>1 DEF Clamp
  <1> QED BY <1>3, <1>4, <1>5, <1>6, <1>8, <1>9

\* A rate within the two limits is one the driver takes.
LEMMA AskedInRange ==
  ASSUME ProgramNumbers, NEW p \in -400 .. 400, NEW t \in -400 .. 400
  PROVE  InRange(NOMINAL - (p + t))
  BY SMT DEF InRange, ProgramNumbers

\* A period: the codec drains at the rate asked for last, level, filter and
\* integral stay in the band, and the controller asks for the next rate.
LEMMA PeriodKeepsLevel ==
  ASSUME ProgramNumbers, ClockInv, LevelInv, Period, fll_cmds = 0, i2c_faults = 0
  PROVE  LevelInv'
  <1>1. /\ codec = "up" /\ ~fixed /\ cpc = "idle" /\ Programmed(AskedLast)
        /\ InBand(fill - 5 * TARGET, FilterSeen - 100 * TARGET, 200 * offset + i_sum)
    BY DEF LevelInv, Period, CodecSettled
  <1>2. /\ UNCHANGED <<codec, fll7, fll8, fixed, cpc, offset, fll_cmds, i2c_faults>>
        /\ fill' = LevelAfter /\ filter' = Filtered(filter, fill' \div 5)
        /\ i_sum' = WoundBack(ErrorBytes(filter')) /\ urate' = Asked(ErrorBytes(filter'))
        /\ InRange(Asked(ErrorBytes(filter'))) => upc' = "fll7"
    BY <1>1 DEF Period, regs, fll, cli
  <1>3. PICK i \in Int, off \in -300 .. 300 : i = i_sum /\ off = offset
    <2>1. i_sum \in Int BY ClockConstants DEF ClockInv, ClockTypeOK, PI_DEN
    <2>2. offset \in -300 .. 300 BY DEF ClockInv, ProgramNumbers
    <2> QED BY ONLY <2>1, <2>2
  <1>4. PICK x \in Int : fill = 4800 + x
    <2>1. fill \in Int BY ClockConstants DEF ClockInv, ClockTypeOK
    <2>2. fill = 4800 + (fill - 4800) /\ fill - 4800 \in Int BY <2>1
    <2> QED BY <2>2
  <1>5. PICK f \in Int : FilterSeen = 100 * 960 + f
    <2>1. filter \in Int BY ClockConstants DEF ClockInv, ClockTypeOK
    <2>2. PICK m \in Int : m = FilterSeen BY <2>1 DEF FilterSeen, ProgramNumbers
    <2>3. m = 100 * 960 + (m - 100 * 960) /\ m - 100 * 960 \in Int BY SMT
    <2> QED BY <2>2, <2>3
  <1>6. InBand(x, f, 200 * off + i)
    <2>1. fill - 5 * TARGET = x BY <1>4 DEF ProgramNumbers
    <2>2. FilterSeen - 100 * TARGET = f BY <1>5, SMT DEF ProgramNumbers
    <2> QED BY <1>1, <1>3, <2>1, <2>2
  <1>7. PICK e \in Int : e = ErrorBytes(FilterSeen) /\ -100 * e <= f /\ f < -100 * e + 100
    <2>1. PICK m \in Int : m = FilterSeen /\ m - 100 * 960 = f BY <1>5, SMT
    <2>2. /\ ErrorBytes(m) \in Int
          /\ -100 * ErrorBytes(m) <= m - 100 * 960
          /\ m - 100 * 960 < -100 * ErrorBytes(m) + 100
      BY ErrorNear
    <2> QED BY <2>1, <2>2
  <1>8. -316 <= e /\ e <= 316 BY <1>6, <1>7, SMT DEF InBand
  <1>9. PICK p \in -400 .. 400 : p = POut(e) /\ 5 * e - 4 < 4 * p /\ 4 * p < 5 * e + 4
    BY <1>8, OutputParts
  <1>10. PICK t \in -400 .. 400 : t = Trunc(i, 200) /\ i - 200 < 200 * t /\ 200 * t < i + 200
    <2>1. -(200 * 400) <= i /\ i <= 200 * 400 /\ 400 \in Nat
      <3>1. I_MAX_HZ * PI_DEN = 200 * 400 /\ -I_MAX_HZ * PI_DEN = -200 * 400
        BY SMT DEF ProgramNumbers, PI_DEN
      <3>2. i \in -I_MAX_HZ * PI_DEN .. I_MAX_HZ * PI_DEN BY <1>3 DEF ClockInv, ClockTypeOK
      <3> QED BY <3>1, <3>2, SMT
    <2>2. i \in Int /\ 200 \in {4, 200} OBVIOUS
    <2>3. Trunc(i, 200) \in -400 .. 400 BY ONLY <2>1, <2>2, Truncated, Zenon
    <2>4. i - 200 < 200 * Trunc(i, 200) /\ 200 * Trunc(i, 200) < i + 200
      BY ONLY <2>2, TruncatedNear
    <2> QED BY <2>3, <2>4
  <1>11. RateOf(fll7, fll8) = 48000 - (p + t)
    <2>1. AskedLast = NOMINAL - (p + t) BY <1>3, <1>7, <1>9, <1>10 DEF AskedLast, PI_DEN
    <2>2. InRange(NOMINAL - (p + t))
      <3>1. p \in -400 .. 400 /\ t \in -400 .. 400 /\ ProgramNumbers OBVIOUS
      <3> QED BY ONLY <3>1, AskedInRange, Zenon
    <2>3. InRange(AskedLast) BY ONLY <2>1, <2>2
    <2>4. RateOf(High(AskedLast), Low(AskedLast)) = AskedLast BY ONLY <2>3, RateKept
    <2>5. RateOf(fll7, fll8) = AskedLast BY <1>1, <2>4 DEF Programmed
    <2> QED BY <2>1, <2>5 DEF ProgramNumbers
  <1>12. PICK y \in Int : y = x + 2 * (off + p + t) OBVIOUS
  <1>13. /\ -1450 <= y /\ y <= 1450
         /\ -59000 <= 40 * y - (200 * off + i) /\ 40 * y - (200 * off + i) <= 59000
         /\ -19500 <= f - 20 * y /\ f - 20 * y <= 19500
         /\ 200 * off + i >= 59600 => y >= 200
         /\ 200 * off + i <= -59600 => y <= -200
    <2>1. {x, f, i, off, e, p, t, y} \subseteq Int OBVIOUS
    <2>2. PeriodMoves(x, f, i, off, e, p, t, y)
      BY ONLY <2>1, <1>6, <1>7, <1>9, <1>10, <1>12 DEF PeriodMoves
    <2> QED BY ONLY <2>2, LevelStaysInBand
  <1>14. fill' = 4800 + y
    <2>1. PICK n \in Int : n = fill + 2 * (NOMINAL + offset - RateOf(fll7, fll8)) /\ n = 4800 + y
      BY <1>3, <1>4, <1>11, <1>12 DEF ProgramNumbers
    <2>2. ~(n > 5 * BUFFER) /\ ~(n <= 0) BY <1>13, <2>1 DEF ProgramNumbers
    <2> QED BY <1>1, <1>2, <2>1, <2>2 DEF LevelAfter
  <1>15. PICK g \in Int : filter' = 100 * 960 + g /\ -2500 <= g - 20 * y /\ g - 20 * y <= 2500
    <2>1. PICK b \in Int : b = fill' \div 5 /\ 5 * b <= 4800 + y /\ 4800 + y < 5 * b + 5
      BY <1>14
    <2>2. PICK old \in Int : old = filter /\ (old >= 0 => old = 100 * 960 + f)
      BY <1>5, ClockConstants DEF ClockInv, ClockTypeOK, FilterSeen
    <2>3. old >= 0 => -20000 <= old - 100 * b /\ old - 100 * b <= 20000
      BY <1>13, <2>1, <2>2, SMT
    <2>4. PICK z \in Int : z = Filtered(old, b) /\ -2200 <= z - 100 * b /\ z - 100 * b <= 2200
      <3>1. old \in Int /\ b \in Int OBVIOUS
      <3>2. /\ Filtered(old, b) \in Int
            /\ -2200 <= Filtered(old, b) - 100 * b /\ Filtered(old, b) - 100 * b <= 2200
        BY ONLY <2>3, <3>1, FilterCloses
      <3> QED BY ONLY <3>2
    <2>5. PICK g \in Int : g = z - 100 * 960 BY SMT
    <2>6. z = 100 * 960 + g /\ -2500 <= g - 20 * y /\ g - 20 * y <= 2500 BY <2>1, <2>4, <2>5, SMT
    <2>7. filter' = z BY <1>2, <2>1, <2>2, <2>4
    <2>8. g \in Int OBVIOUS
    <2> QED BY ONLY <2>6, <2>7, <2>8
  <1>16. FilterSeen' = filter' /\ FilterSeen' - 100 * TARGET = g
    <2>1. ~(100 * 960 + g < 0) /\ (100 * 960 + g) - 100 * 960 = g BY <1>13, <1>15, SMT
    <2> QED BY <1>15, <2>1 DEF FilterSeen, ProgramNumbers
  <1>17. PICK d \in Int : d = ErrorBytes(filter') /\ -100 * d <= g /\ g < -100 * d + 100
    <2>1. PICK m \in Int : m = filter' /\ m - 100 * 960 = g BY <1>15, SMT
    <2>2. /\ ErrorBytes(m) \in Int
          /\ -100 * ErrorBytes(m) <= m - 100 * 960
          /\ m - 100 * 960 < -100 * ErrorBytes(m) + 100
      BY ErrorNear
    <2>3. ErrorBytes(m) \in Int /\ -100 * ErrorBytes(m) <= g /\ g < -100 * ErrorBytes(m) + 100
      <3>1. m - 100 * 960 = g BY ONLY <2>1, Zenon
      <3> QED BY ONLY <2>2, <3>1
    <2> QED BY ONLY <2>1, <2>3
  <1>18. PICK j \in Int : /\ j = i_sum'
                          /\ \/ i <= j /\ j <= i + d
                             \/ i + d <= j /\ j <= i
    BY <1>2, <1>3, <1>17, IntegralMoves
  <1>19. InBand(y, g, 200 * off + j)
    <2>1. PICK s \in Int : s = 200 * off + i /\ -60000 <= s /\ s <= 60000
      BY <1>6, SMT DEF InBand
    <2>2. PICK r \in Int : /\ r = 200 * off + j
                           /\ \/ s <= r /\ r <= s + d
                              \/ s + d <= r /\ r <= s
      <3>1. s + (j - i) = 200 * off + j /\ s + (j - i) \in Int BY <2>1
      <3>2. \/ s <= s + (j - i) /\ s + (j - i) <= s + d
            \/ s + d <= s + (j - i) /\ s + (j - i) <= s
        <4>1. i \in Int /\ j \in Int /\ d \in Int /\ s \in Int OBVIOUS
        <4>2. \/ i <= j /\ j <= i + d
              \/ i + d <= j /\ j <= i
          BY <1>18
        <4> QED BY ONLY <4>1, <4>2
      <3> QED BY ONLY <3>1, <3>2
    <2>3. y \in Int /\ g \in Int /\ d \in Int /\ s \in Int /\ r \in Int OBVIOUS
    <2>4. /\ -59000 <= 40 * y - s /\ 40 * y - s <= 59000
          /\ s >= 59600 => y >= 200
          /\ s <= -59600 => y <= -200
      BY ONLY <1>13, <2>1
    <2>5. InBand(y, g, r) BY ONLY <1>13, <1>15, <1>17, <2>1, <2>2, <2>3, <2>4, BandKept
    <2> QED BY <2>2, <2>5
  <1>20. InBand(fill - 5 * TARGET, FilterSeen - 100 * TARGET, 200 * offset + i_sum)'
    <2>1. fill' - 5 * TARGET = y BY <1>14 DEF ProgramNumbers
    <2> QED BY <1>2, <1>3, <1>16, <1>18, <1>19, <2>1
  <1>21. upc' = "fll7" /\ urate' = AskedLast'
    <2>1. PICK q \in -400 .. 400, u \in -400 .. 400 :
            q = POut(d) /\ u = Trunc(i_sum', PI_DEN) /\ Output(d) = q + u
      <3>1. ProgramNumbers /\ ClockInv /\ d \in Int OBVIOUS
      <3>2. POut(d) \in -400 .. 400 BY ONLY <3>1, OutputParts
      <3>3. /\ Trunc(WoundBack(d), PI_DEN) \in -400 .. 400
            /\ Output(d) = POut(d) + Trunc(WoundBack(d), PI_DEN)
        BY ONLY <3>1, IntegralMoves
      <3>4. i_sum' = WoundBack(d) BY ONLY <1>2, <1>17
      <3>5. Trunc(i_sum', PI_DEN) = Trunc(WoundBack(d), PI_DEN) BY ONLY <3>4, Zenon
      <3>6. /\ Trunc(i_sum', PI_DEN) \in -400 .. 400
            /\ Output(d) = POut(d) + Trunc(i_sum', PI_DEN)
        BY ONLY <3>3, <3>5, Zenon
      <3> QED BY ONLY <3>2, <3>6, Zenon
    <2>2. Asked(d) = NOMINAL - (q + u) BY <2>1 DEF Asked
    <2>3. InRange(Asked(d))
      <3>1. q \in -400 .. 400 /\ u \in -400 .. 400 /\ ProgramNumbers OBVIOUS
      <3>2. InRange(NOMINAL - (q + u)) BY ONLY <3>1, AskedInRange, Zenon
      <3> QED BY ONLY <2>2, <3>2
    <2>4. AskedLast' = NOMINAL - (q + u)
      BY <1>16, <1>17, <2>1 DEF AskedLast, ErrorBytes, POut, Clamp, Trunc
    <2> QED BY <1>2, <1>17, <2>2, <2>3, <2>4
  <1> QED BY <1>1, <1>2, <1>20, <1>21 DEF LevelInv

\* A step that leaves the controller and the codec's registers alone.
LEMMA LevelQuiet ==
  ASSUME LevelInv,
         UNCHANGED <<codec, fll7, fll8, fixed, upc, urate, cpc, i_sum, filter, fill, offset,
                     i2c_faults, fll_cmds>>
  PROVE  LevelInv'
  BY DEF LevelInv, InBand, FilterSeen, AskedLast, Programmed, High, Low, Frac, POut, ErrorBytes,
         Clamp, Trunc

\* The bring-up programs the nominal rate, which is what a controller that has
\* not run yet has asked for.
LEMMA BringUpLevel ==
  ASSUME ProgramNumbers, ClockInv, LevelInv, BringUp, fll_cmds = 0, i2c_faults' = 0
  PROVE  LevelInv'
  <1>1. i2c_faults = 0 /\ UNCHANGED i2c_faults
    BY ClockConstants DEF ClockInv, ClockTypeOK, BringUp, NoDevice, InitReset, InitFraction,
                          InitLock, InitOutput, BringUpStep, I2cFault, I2cOk
  <1>2. /\ UNCHANGED <<fixed, upc, urate, cpc, i_sum, filter, fill, offset, fll_cmds>>
        /\ \/ codec = "reset" /\ codec' = "fll"
           \/ codec = "fll" /\ codec' = "lock" /\ Programmed(NOMINAL)'
           \/ codec = "lock" /\ codec' = "output" /\ UNCHANGED <<fll7, fll8>>
           \/ codec = "output" /\ codec' = "up" /\ UNCHANGED <<fll7, fll8>>
    <2>1. ~I2cFault BY <1>1 DEF I2cFault
    <2> QED BY <2>1 DEF BringUp, NoDevice, InitReset, InitFraction, InitLock, InitOutput,
                        BringUpStep, regs, fll, updater, cli, loop, Programmed, High, Low, Frac
  <1>3. /\ ~fixed /\ cpc = "idle" /\ filter = -1 /\ i_sum = 0 /\ upc = "wait"
        /\ InBand(fill - 5 * TARGET, FilterSeen - 100 * TARGET, 200 * offset + i_sum)
        /\ codec \in {"lock", "output"} => Programmed(NOMINAL)
    BY <1>1, <1>2 DEF LevelInv
  <1>4. InBand(fill - 5 * TARGET, FilterSeen - 100 * TARGET, 200 * offset + i_sum)'
    BY <1>2, <1>3 DEF InBand, FilterSeen
  <1>5. AskedLast' = NOMINAL
    <2>1. PICK m \in Int : m = FilterSeen' /\ m = 100 * 960
      BY <1>2, <1>3 DEF FilterSeen, ProgramNumbers
    <2>2. ErrorBytes(m) = 0 BY <2>1, ErrorNear
    <2>3. POut(0) = 0 BY OutputParts
    <2>4. Trunc(i_sum', PI_DEN) = 0 BY <1>2, <1>3 DEF Trunc, PI_DEN
    <2>5. NOMINAL - (0 + 0) = NOMINAL BY ClockConstants
    <2>6. POut(ErrorBytes(FilterSeen')) = 0 BY <2>1, <2>2, <2>3
    <2>7. AskedLast' = NOMINAL - (POut(ErrorBytes(FilterSeen')) + Trunc(i_sum', PI_DEN))
      BY DEF AskedLast, POut, ErrorBytes, Clamp, Trunc
    <2> QED BY ONLY <2>4, <2>5, <2>6, <2>7
  <1>6. codec' \in {"lock", "output", "up"} => Programmed(NOMINAL)'
    BY <1>2, <1>3 DEF Programmed, High, Low, Frac
  <1>7. Programmed(NOMINAL)' => Programmed(AskedLast)'
    BY <1>5 DEF Programmed
  <1> QED BY <1>1, <1>2, <1>3, <1>4, <1>6, <1>7 DEF LevelInv

\* A transfer of the path thread that succeeds brings the registers a half of
\* the way to the rate asked for.
LEMMA TransferLevel ==
  ASSUME ProgramNumbers, ClockInv, LevelInv, PathHigh \/ PathLow, fll_cmds = 0, i2c_faults' = 0
  PROVE  LevelInv'
  <1>1. i2c_faults = 0 /\ ~I2cFault
    BY ClockConstants DEF ClockInv, ClockTypeOK, PathHigh, PathLow, I2cFault, I2cOk
  <1>2. /\ UNCHANGED <<codec, fixed, cpc, i_sum, filter, fill, offset, fll_cmds, i2c_faults>>
        /\ \/ upc = "fll7" /\ upc' = "fll8" /\ fll7' = High(urate) /\ UNCHANGED urate
           \/ upc = "fll8" /\ upc' = "wait" /\ UNCHANGED fll7 /\ fll8' = Low(urate)
    BY <1>1 DEF PathHigh, PathLow, I2cOk, loop, fll, cli
  <1>3. codec = "up" BY <1>1, <1>2 DEF LevelInv
  <1>4. AskedLast' = AskedLast
    BY <1>2 DEF AskedLast, FilterSeen, ErrorBytes, POut, Clamp, Trunc
  <1>5. InBand(fill - 5 * TARGET, FilterSeen - 100 * TARGET, 200 * offset + i_sum)'
    BY <1>1, <1>2 DEF LevelInv, InBand, FilterSeen
  <1>6. urate = AskedLast /\ (upc = "fll8" => fll7 = High(urate))
    BY <1>1, <1>2, <1>3 DEF LevelInv
  <1>7. \/ upc' = "fll8" /\ urate' = AskedLast' /\ fll7' = High(urate')
        \/ upc' = "wait" /\ fll7' = High(AskedLast') /\ fll8' = Low(AskedLast')
    BY <1>2, <1>4, <1>6
  <1> QED BY <1>1, <1>2, <1>3, <1>5, <1>7 DEF LevelInv, Programmed

LEMMA LevelKept == ProgramNumbers /\ ClockInv /\ LevelInv /\ [ClockNext]_clock_vars => LevelInv'
  <1> SUFFICES ASSUME ProgramNumbers, ClockInv, LevelInv, [ClockNext]_clock_vars,
                      fll_cmds' = 0, i2c_faults' = 0
               PROVE  LevelInv'
    BY DEF LevelInv
  <1>1. CASE BringUp
    <2>1. fll_cmds = 0
      BY <1>1 DEF BringUp, NoDevice, InitReset, InitFraction, InitLock, InitOutput, BringUpStep
    <2> QED BY <1>1, <2>1, BringUpLevel
  <1>2. CASE Period BY <1>2, PeriodKeepsLevel DEF Period
  <1>3. CASE PathHigh \/ PathLow
    <2>1. fll_cmds = 0 BY <1>3 DEF PathHigh, PathLow
    <2> QED BY <1>3, <2>1, TransferLevel
  <1>4. CASE FllCommand
    <2>1. fll_cmds' = fll_cmds + 1 /\ fll_cmds \in Nat
      BY <1>4, ClockConstants DEF FllCommand, FllAuto, FllRate, NextFll, ClockInv, ClockTypeOK
    <2> QED BY <2>1
  <1>5. CASE CliWrites
    <2>1. fll_cmds = 0 /\ cpc # "idle"
      BY <1>5 DEF CliWrites, CliHigh, CliLow, CliFixed
    <2>2. i2c_faults = 0
      BY <1>5, ClockConstants
      DEF CliWrites, CliHigh, CliLow, CliFixed, ClockInv, ClockTypeOK, I2cFault, I2cOk
    <2> QED BY <2>1, <2>2 DEF LevelInv
  <1>6. CASE UNCHANGED clock_vars
    BY <1>6, LevelQuiet DEF clock_vars, regs, fll, updater, cli, loop
  <1> QED BY <1>1, <1>2, <1>3, <1>4, <1>5, <1>6 DEF ClockNext, Updater

\* At boot the buffer is at its target.
LEMMA LevelAtBoot == ASSUME ProgramNumbers, ClockInit PROVE LevelInv
  <1>1. /\ codec = "reset" /\ ~fixed /\ cpc = "idle" /\ filter = -1 /\ i_sum = 0 /\ upc = "wait"
        /\ fill = 5 * TARGET /\ offset \in -300 .. 300
    BY DEF ClockInit, ProgramNumbers
  <1>2. fill - 5 * TARGET = 0 /\ FilterSeen - 100 * TARGET = 0
    BY <1>1 DEF FilterSeen, ProgramNumbers
  <1>3. PICK s \in Int : s = 200 * offset + i_sum /\ -60000 <= s /\ s <= 60000 BY <1>1
  <1>4. InBand(0, 0, s) BY <1>3, SMT DEF InBand
  <1> QED BY <1>1, <1>2, <1>3, <1>4 DEF LevelInv

\* Left to itself and with all transfers done the controller keeps the buffer
\* between the levels at which it warns, for every source that is no further off
\* than the driver expects: no underrun and no overflow (path_common.c:66).
THEOREM LevelIsHeld == ProgramNumbers /\ Spec => []LevelHeld
  <1> SUFFICES ASSUME ProgramNumbers PROVE Spec => []LevelHeld OBVIOUS
  <1>1. Init => ClockInv /\ LevelInv
    <2> SUFFICES ASSUME Init PROVE ClockInv /\ LevelInv OBVIOUS
    <2>1. ClockInv BY ClockAtBoot DEF Init
    <2> QED BY <2>1, LevelAtBoot DEF Init
  <1>2. [Next]_vars => [ClockNext]_clock_vars
    BY DEF Next, CodecControl, RadioControl, vars
  <1>3. ClockInv /\ LevelInv /\ [Next]_vars => ClockInv' /\ LevelInv'
    BY <1>2, ClockTypeKept, LevelKept
  <1>4. ClockInv /\ LevelInv => LevelHeld
    <2> SUFFICES ASSUME LevelInv, ClockInv, codec = "up", fll_cmds = 0, i2c_faults = 0
                 PROVE  fill \in TARGET .. 9 * TARGET
      BY DEF LevelHeld
    <2>1. PICK x \in Int : fill = 4800 + x
      <3>1. fill \in Int BY ClockConstants DEF ClockInv, ClockTypeOK
      <3>2. fill = 4800 + (fill - 4800) /\ fill - 4800 \in Int BY <3>1
      <3> QED BY <3>2
    <2>2. fill - 5 * TARGET = x BY <2>1 DEF ProgramNumbers
    <2>3. -1450 <= x /\ x <= 1450 BY <2>2 DEF LevelInv, InBand
    <2> QED BY <2>1, <2>3 DEF ProgramNumbers
  <1> QED BY <1>1, <1>3, <1>4, PTL DEF Spec

===============================================================================
