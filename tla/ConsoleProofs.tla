------------------------------ MODULE ConsoleProofs ---------------------------
(***************************************************************************)
(* Theorems about Console, for every set of modes, every line and queue     *)
(* length and every number of power and flash failures.                     *)
(***************************************************************************)
EXTENDS Console, Induction

\* A setting, or none, loads as a mode.
LEMMA LoadedIsMode ==
    /\ \A s : Loaded(s) \in Modes
    /\ \A m \in Modes : Loaded(m) = m /\ m # "none"
  BY ConsoleAssumption DEF Loaded

\* Losing power, whenever it happens, leaves the promise to the setting.
LEMMA PowerUpInv ==
  ASSUME ModeInv, PowerUp, UNCHANGED <<flash, promise>>
  PROVE  ModeInv'
  BY ConsoleAssumption DEF ModeInv, PowerUp, flash, promise

\* The boot thread and the start of USB.
LEMMA BootInv ==
  ASSUME ModeInv, LoadMode \/ StartPath \/ UsbStart
  PROVE  ModeInv'
  <1>1. CASE LoadMode
    <2>1. usb = "off" BY <1>1 DEF ModeInv, LoadMode
    <2>2. cpc \notin {"line", "saved", "rebooting"} /\ cli_msgq = <<>> BY <2>1 DEF ModeInv
    <2>3. /\ boot' = "loaded" /\ UNCHANGED <<nv_mode, acked, usb, cpc, cli_msgq, target>>
          /\ (current_mode' = Loaded(nv_mode) /\ misread' = misread) \/ misread'
          /\ current_mode' \in Modes
      BY <1>1, LoadedIsMode, ConsoleAssumption DEF LoadMode, console, thread
    <2> QED BY <2>1, <2>2, <2>3 DEF ModeInv
  <1>2. CASE StartPath
    BY <1>2 DEF ModeInv, StartPath, flash, console, thread, promise
  <1>3. CASE UsbStart
    BY <1>3 DEF ModeInv, UsbStart, flash, mode, console, thread, promise
  <1> QED BY <1>1, <1>2, <1>3

\* The USB callbacks touch nothing but lines and reports, on a booted device.
LEMMA UsbInv ==
  ASSUME ModeInv, (\E keys \in Keys : Packet(keys)) \/ LineState \/ Unmount
  PROVE  ModeInv'
  <1>1. usb = "up" /\ UNCHANGED <<flash, mode, usb, thread, promise>>
    BY DEF Packet, LineState, Unmount
  <1> QED BY <1>1 DEF ModeInv, flash, mode, thread, promise

\* A step of the CLI thread, one case for each.
LEMMA CliThreadInv == ModeInv /\ CliThread => ModeInv'
  <1> SUFFICES ASSUME ModeInv, CliThread PROVE ModeInv' OBVIOUS
  <1>1. CASE CliInit
    BY <1>1 DEF ModeInv, CliInit, flash, mode, promise
  <1>2. CASE GetLine
    BY <1>2 DEF ModeInv, GetLine, flash, mode, promise
  <1>3. CASE Answer
    BY <1>3 DEF ModeInv, Answer, flash, mode, console, promise
  <1>4. CASE WriteReport
    BY <1>4 DEF ModeInv, WriteReport, flash, mode, promise
  <1>5. CASE KeepMode
    <2>1. usb = "up" /\ boot = "done" /\ (~misread => current_mode = Loaded(nv_mode))
      BY <1>5 DEF ModeInv, KeepMode
    <2>2. /\ cpc' = "out" /\ acked' = current_mode
          /\ UNCHANGED <<nv_mode, usb, boot, current_mode, cli_msgq, misread>>
      BY <1>5 DEF KeepMode, flash, mode, console
    <2> QED BY <2>1, <2>2, LoadedIsMode DEF ModeInv
  <1>6. CASE \E m \in Modes : SaveMode(m)
    <2>1. PICK m \in Modes : SaveMode(m) BY <1>6
    <2>2. cpc = "line" /\ usb = "up" /\ UNCHANGED <<usb, boot, current_mode, cli_msgq>>
      BY <2>1 DEF ModeInv, SaveMode, mode, console
    <2>3. CASE nv_mode' = m /\ cpc' = "saved" /\ target' = m /\ acked' = "none"
      BY <2>2, <2>3, LoadedIsMode DEF ModeInv
    <2>4. CASE cpc' = "out" /\ UNCHANGED <<nv_mode, target, promise>>
      BY <2>2, <2>4 DEF ModeInv, promise
    <2> QED BY <2>1, <2>3, <2>4 DEF SaveMode
  <1>7. CASE ConfirmMode
    <2>1. /\ target = nv_mode /\ target \in Modes /\ usb = "up"
          /\ cpc' = "rebooting" /\ acked' = target
          /\ UNCHANGED <<nv_mode, usb, boot, current_mode, cli_msgq, misread>>
      BY <1>7 DEF ModeInv, ConfirmMode, flash, mode, console
    <2> QED BY <2>1, LoadedIsMode DEF ModeInv
  <1>8. CASE Reboot
    BY <1>8, PowerUpInv DEF Reboot
  <1> QED BY <1>1, <1>2, <1>3, <1>4, <1>5, <1>6, <1>7, <1>8 DEF CliThread

LEMMA InitModeInv == Init => ModeInv
  BY ConsoleAssumption DEF Init, ModeInv

LEMMA NextModeInv == ModeInv /\ [Next]_vars => ModeInv'
  <1> SUFFICES ASSUME ModeInv, [Next]_vars PROVE ModeInv' OBVIOUS
  <1>1. CASE LoadMode \/ StartPath \/ UsbStart BY <1>1, BootInv
  <1>2. CASE (\E keys \in Keys : Packet(keys)) \/ LineState \/ Unmount BY <1>2, UsbInv
  <1>3. CASE CliThread BY <1>3, CliThreadInv
  <1>4. CASE PowerLoss BY <1>4, PowerUpInv DEF PowerLoss
  <1>5. CASE UNCHANGED vars
    BY <1>5 DEF ModeInv, vars, flash, mode, console, thread, promise
  <1> QED BY <1>1, <1>2, <1>3, <1>4, <1>5 DEF Next

\* The promise needs no more than the invariant.
LEMMA ModeInvConfirms == ModeInv => AckedModeBoots
  BY DEF ModeInv, AckedModeBoots

\* A mode that "set mode" has confirmed is the one every later boot runs,
\* whatever the power does in between (cli.c:365-384, app_control.c:43-78).
THEOREM ConfirmedModeBoots == Spec => []AckedModeBoots
  <1>1. Spec => []ModeInv BY InitModeInv, NextModeInv, PTL DEF Spec
  <1> QED BY <1>1, ModeInvConfirms, PTL

\* The semaphore of app_control_await_boot keeps USB away from a mode that may
\* still change (app_control.c:66-97, usb_device.c:97-107).
THEOREM ModeStaysOnceUp == Spec => ModeFixedOnceUp
  <1>1. Spec => []ModeInv BY InitModeInv, NextModeInv, PTL DEF Spec
  <1>2. ModeInv /\ [Next]_vars => [usb = "up" => mode' = mode \/ usb' = "off"]_vars
    <2> SUFFICES ASSUME ModeInv, Next, usb = "up" PROVE mode' = mode \/ usb' = "off"
      OBVIOUS
    <2>1. boot = "done" BY DEF ModeInv
    <2>2. CASE LoadMode \/ StartPath \/ UsbStart
      BY <2>1, <2>2 DEF LoadMode, StartPath, UsbStart
    <2>3. CASE (\E keys \in Keys : Packet(keys)) \/ LineState \/ Unmount
      BY <2>3 DEF Packet, LineState, Unmount
    <2>4. CASE CliThread
      BY <2>4 DEF CliThread, CliInit, GetLine, Answer, WriteReport, KeepMode, SaveMode,
                  ConfirmMode, Reboot, PowerUp
    <2>5. CASE PowerLoss BY <2>5 DEF PowerLoss, PowerUp
    <2> QED BY <2>2, <2>3, <2>4, <2>5 DEF Next
  <1> QED BY <1>1, <1>2, PTL DEF Spec, ModeFixedOnceUp

-------------------------------------------------------------------------------
(* Lines: what the USB thread assembles, character by character.              *)

\* The state within the callback: the assembler's, and an overlong line has
\* been dropped with a report.
StateOK(s) ==
    /\ s \in [line : Seq({"b", "m"}), overflowed : BOOLEAN, head : Heads,
              lines : Seq(Histories \ {"no"}), reports : 0 .. DEPTH]
    /\ AssemblerOK(s.line, s.head, s.lines, s.reports)
    /\ s.overflowed => s.head # "no"

\* The recursion of the callback has a solution, and Assembled is its value.
LEMMA AssembledRuns ==
  ASSUME NEW ff, Len(ff) \in Nat
  PROVE  \E s : /\ s = [k \in 0 .. Len(ff) |->
                           IF k = 0 THEN Entered ELSE Assemble(s[k - 1], ff[k])]
                /\ Assembled(ff) = s[Len(ff)]
  <1> DEFINE Runs(s, m) == s = [k \in 0 .. m |->
                                  IF k = 0 THEN Entered ELSE Assemble(s[k - 1], ff[k])]
             Solved == {m \in 0 .. Len(ff) : \E s : Runs(s, m)}
  <1>1. 0 \in Solved
    <2> DEFINE s == [k \in 0 .. 0 |-> Entered]
    <2>1. \A k \in 0 .. 0 : k = 0 OBVIOUS
    <2>2. Runs(s, 0) BY <2>1
    <2>3. 0 \in 0 .. Len(ff) OBVIOUS
    <2> HIDE DEF s, Runs
    <2> QED BY <2>2, <2>3
  <1>2. ASSUME NEW m \in 0 .. Len(ff) - 1, m \in Solved PROVE m + 1 \in Solved
    <2>1. PICK s : Runs(s, m) BY <1>2
    <2> DEFINE t == [k \in 0 .. m + 1 |->
                       IF k = m + 1 THEN Assemble(s[m], ff[m + 1]) ELSE s[k]]
    <2>2. ASSUME NEW k \in 0 .. m + 1
          PROVE  t[k] = IF k = 0 THEN Entered ELSE Assemble(t[k - 1], ff[k])
      <3>1. CASE k = m + 1
        <4>1. k # 0 /\ k - 1 = m /\ m \in 0 .. m + 1 /\ m # m + 1 BY <3>1
        <4>2. t[k] = Assemble(s[m], ff[m + 1]) /\ t[m] = s[m] BY <3>1, <4>1
        <4> QED BY <3>1, <4>1, <4>2
      <3>2. CASE k # m + 1
        <4>1. k \in 0 .. m /\ t[k] = s[k] BY <3>2
        <4>2. s[k] = IF k = 0 THEN Entered ELSE Assemble(s[k - 1], ff[k])
          BY <2>1, <4>1
        <4>3. k # 0 => k - 1 \in 0 .. m + 1 /\ k - 1 # m + 1 BY <4>1
        <4>4. k # 0 => t[k - 1] = s[k - 1] BY <4>3
        <4> QED BY <4>1, <4>2, <4>4
      <3> QED BY <3>1, <3>2
    <2>3. Runs(t, m + 1) BY <2>2
    <2>4. m + 1 \in 0 .. Len(ff) OBVIOUS
    <2> QED BY <2>3, <2>4
  <1>3. Len(ff) \in Solved
    <2>1. Len(ff) \in 0 .. Len(ff) OBVIOUS
    <2> HIDE DEF Solved
    <2> QED BY <1>1, <1>2, <2>1, IntervalInduction
  <1>4. \E s : Runs(s, Len(ff)) BY <1>3
  <1> DEFINE s == CHOOSE s : Runs(s, Len(ff))
  <1>5. Runs(s, Len(ff)) BY <1>4
  <1>6. Assembled(ff) = s[Len(ff)] BY DEF Assembled
  <1> QED BY <1>5, <1>6

\* One character keeps the assembler's state, if a character that is not the
\* first of its line comes only where its line can continue; after a character
\* of a line, the line can continue.
LEMMA AssembleOK ==
  ASSUME NEW s, StateOK(s), NEW c \in {"b", "m", "n", "r"},
         c = "m" => Continues(s.line, s.head)
  PROVE  /\ StateOK(Assemble(s, c))
         /\ c \in {"b", "m"} => Continues(Assemble(s, c).line, Assemble(s, c).head)
  <1> DEFINE t == Assemble(s, c)
  <1>1. /\ s.line \in Seq({"b", "m"}) /\ Len(s.line) <= MAX /\ Len(s.line) \in Nat
        /\ s.overflowed \in BOOLEAN
        /\ s.head \in Heads /\ (s.line # <<>> => Head(s.line) = "b" \/ s.head # "no")
        /\ s.lines \in Seq(Histories \ {"no"}) /\ Len(s.lines) <= DEPTH
        /\ s.reports \in 0 .. DEPTH
        /\ s.overflowed => s.head # "no"
    BY DEF StateOK, AssemblerOK
  <1>2. MAX \in Nat /\ MAX # 0 /\ DEPTH \in Nat /\ DEPTH # 0
    BY ConsoleAssumption
  <1>3. /\ s \in [line : Seq({"b", "m"}), overflowed : BOOLEAN, head : Heads,
                  lines : Seq(Histories \ {"no"}), reports : 0 .. DEPTH]
        /\ <<>> \in Seq({"b", "m"}) /\ "no" \in Heads
    BY DEF StateOK, Heads
  <1>4. CASE c \in {"n", "r"}
    <2>1. /\ t = [s EXCEPT !.lines = t.lines, !.line = <<>>, !.overflowed = FALSE,
                           !.head = "no"]
          /\ t.lines = IF s.overflowed \/ s.line = <<>> THEN s.lines
                       ELSE PutLine(s.lines, Fate(s.line, s.head))
      BY <1>4 DEF Assemble, StateOK
    <2>2. s.line # <<>> => Fate(s.line, s.head) \in Histories \ {"no"}
      BY <1>1 DEF Fate, Histories, Heads
    <2>3. t.lines \in Seq(Histories \ {"no"}) /\ Len(t.lines) <= DEPTH
      BY <1>1, <1>2, <2>1, <2>2 DEF PutLine
    <2> HIDE DEF t
    <2>4. /\ t \in [line : Seq({"b", "m"}), overflowed : BOOLEAN, head : Heads,
                    lines : Seq(Histories \ {"no"}), reports : 0 .. DEPTH]
          /\ t.line = <<>> /\ t.overflowed = FALSE /\ t.head = "no"
          /\ t.reports = s.reports
      BY <1>3, <2>1, <2>3
    <2>5. StateOK(t)
      BY <1>1, <1>2, <2>3, <2>4 DEF StateOK, AssemblerOK, Heads
    <2> QED BY <1>4, <2>5 DEF t
  <1>5. CASE c \in {"b", "m"} /\ s.overflowed
    <2>1. t = s BY <1>5 DEF Assemble
    <2> QED BY <1>1, <1>5, <2>1 DEF Continues
  <1>6. CASE c \in {"b", "m"} /\ ~s.overflowed /\ Len(s.line) < MAX
    <2>1. t = [s EXCEPT !.line = Append(s.line, c)] BY <1>6 DEF Assemble
    <2>2. /\ Append(s.line, c) \in Seq({"b", "m"}) /\ Append(s.line, c) # <<>>
          /\ Len(Append(s.line, c)) <= MAX
      BY <1>1, <1>2, <1>6
    <2>3. Head(Append(s.line, c)) = IF s.line = <<>> THEN c ELSE Head(s.line)
      BY <1>1
    <2>4. Head(Append(s.line, c)) = "b" \/ s.head # "no"
      BY <1>1, <1>6, <2>3 DEF Continues
    <2>5. /\ t \in [line : Seq({"b", "m"}), overflowed : BOOLEAN, head : Heads,
                    lines : Seq(Histories \ {"no"}), reports : 0 .. DEPTH]
          /\ t.line = Append(s.line, c) /\ t.overflowed = s.overflowed
          /\ t.head = s.head /\ t.lines = s.lines /\ t.reports = s.reports
      BY <2>1, <2>2 DEF StateOK
    <2> HIDE DEF t
    <2>6. StateOK(t) BY <1>1, <2>2, <2>4, <2>5 DEF StateOK, AssemblerOK
    <2>7. Continues(t.line, t.head) BY <2>2, <2>5 DEF Continues
    <2> QED BY <2>6, <2>7 DEF t
  <1>7. CASE c \in {"b", "m"} /\ ~s.overflowed /\ ~(Len(s.line) < MAX)
    <2>1. t = [s EXCEPT !.line = <<>>, !.overflowed = TRUE,
                        !.reports = PutReport(s.reports), !.head = Reported(s.reports)]
      BY <1>7 DEF Assemble
    <2>2. /\ PutReport(s.reports) \in 0 .. DEPTH
          /\ Reported(s.reports) \in Heads /\ Reported(s.reports) # "no"
      BY <1>1, <1>2 DEF PutReport, Reported, Heads
    <2> HIDE DEF t
    <2>3. /\ t \in [line : Seq({"b", "m"}), overflowed : BOOLEAN, head : Heads,
                    lines : Seq(Histories \ {"no"}), reports : 0 .. DEPTH]
          /\ t.line = <<>> /\ t.head # "no" /\ t.lines = s.lines
      BY <1>3, <2>1, <2>2
    <2>4. t.head \in Heads /\ t.reports \in 0 .. DEPTH BY <2>3
    <2>5. StateOK(t) BY <1>1, <1>2, <2>3, <2>4 DEF StateOK, AssemblerOK
    <2>6. Continues(t.line, t.head) BY <2>3 DEF Continues
    <2> QED BY <2>5, <2>6 DEF t
  <1> QED BY <1>1, <1>4, <1>5, <1>6, <1>7

\* So does a whole FIFO.
LEMMA AssembledOK ==
  ASSUME StateOK(Entered), NEW ff \in Seq({"b", "m", "n", "r"}),
         \A i \in DOMAIN ff : ff[i] = "m" =>
            IF i = 1 THEN Continues(s_cli_line, cut) ELSE ff[i - 1] \in {"b", "m"}
  PROVE  /\ StateOK(Assembled(ff))
         /\ ff # <<>> /\ ff[Len(ff)] \in {"b", "m"}
              => Continues(Assembled(ff).line, Assembled(ff).head)
  <1>1. Len(ff) \in Nat /\ DOMAIN ff = 1 .. Len(ff) OBVIOUS
  <1>2. PICK s : /\ s = [k \in 0 .. Len(ff) |->
                            IF k = 0 THEN Entered ELSE Assemble(s[k - 1], ff[k])]
                 /\ Assembled(ff) = s[Len(ff)]
    BY <1>1, AssembledRuns
  <1> DEFINE Fine(k) == /\ StateOK(s[k])
                        /\ k > 0 /\ ff[k] \in {"b", "m"} => Continues(s[k].line, s[k].head)
             Good == {k \in 0 .. Len(ff) : Fine(k)}
  <1>3. 0 \in Good
    <2>1. s[0] = Entered BY <1>1, <1>2
    <2> QED BY <1>1, <2>1
  <1>4. ASSUME NEW k \in 0 .. Len(ff) - 1, k \in Good PROVE k + 1 \in Good
    <2>1. Fine(k) BY <1>4
    <2>2. /\ k + 1 \in 0 .. Len(ff) /\ k + 1 \in DOMAIN ff /\ k + 1 # 0 /\ (k + 1) - 1 = k
          /\ k # 0 => k \in DOMAIN ff
      BY <1>1
    <2>3. s[k + 1] = Assemble(s[k], ff[k + 1]) BY <1>2, <2>2
    <2>4. ff[k + 1] \in {"b", "m", "n", "r"} BY <1>1, <2>2
    <2>5. ff[k + 1] = "m" => Continues(s[k].line, s[k].head)
      <3>1. CASE k = 0
        <4>1. s[k] = Entered BY <1>1, <1>2, <3>1
        <4>2. s[k].line = s_cli_line /\ s[k].head = cut BY <4>1 DEF Entered
        <4> QED BY <2>2, <3>1, <4>2
      <3>2. CASE k # 0
        <4>1. k > 0 /\ k + 1 # 1 BY <3>2
        <4> QED BY <2>1, <2>2, <4>1
      <3> QED BY <3>1, <3>2
    <2>6. Fine(k + 1) BY <2>1, <2>3, <2>4, <2>5, AssembleOK
    <2> QED BY <2>2, <2>6
  <1>5. \A k \in 0 .. Len(ff) : k \in Good
    <2> HIDE DEF Good
    <2> QED BY <1>1, <1>3, <1>4, IntervalInduction
  <1>6. Fine(Len(ff)) BY <1>1, <1>5
  <1>7. ff # <<>> => Len(ff) > 0 BY <1>1
  <1> QED BY <1>2, <1>6, <1>7

\* A packet as characters: one for each key, a line's first exactly where the
\* host begins one.
LEMMA TypedOK ==
  ASSUME typing \in BOOLEAN, NEW keys \in Keys
  PROVE  /\ Len(keys) \in Nat /\ Len(keys) > 0 /\ DOMAIN keys = 1 .. Len(keys)
         /\ \A i \in DOMAIN keys : keys[i] \in {"x", "n", "r"}
         /\ Typed(keys) \in Seq({"b", "m", "n", "r"}) /\ Len(Typed(keys)) = Len(keys)
         /\ \A i \in DOMAIN keys :
              /\ Typed(keys)[i] \in {"b", "m"} <=> keys[i] = "x"
              /\ keys[i] # "x" => Typed(keys)[i] = keys[i]
              /\ Typed(keys)[i] = "m" =>
                    IF i = 1 THEN typing ELSE Typed(keys)[i - 1] \in {"b", "m"}
  <1>1. PICK n \in 1 .. PACKET : keys \in [1 .. n -> {"x", "n", "r"}]
    BY DEF Keys
  <1>2. n \in Nat /\ n > 0 BY ConsoleAssumption
  <1>3. keys \in Seq({"x", "n", "r"}) /\ Len(keys) = n /\ DOMAIN keys = 1 .. n
    BY <1>1, <1>2
  <1>4. \A i \in 1 .. n : keys[i] \in {"x", "n", "r"} BY <1>1
  <1>5. \A i \in 1 .. n :
          /\ Typed(keys)[i] \in {"b", "m", "n", "r"}
          /\ Typed(keys)[i] \in {"b", "m"} <=> keys[i] = "x"
          /\ keys[i] # "x" => Typed(keys)[i] = keys[i]
          /\ Typed(keys)[i] = "m" => IF i = 1 THEN typing ELSE keys[i - 1] = "x"
    BY <1>3, <1>4 DEF Typed
  <1>6. \A i \in 1 .. n : i # 1 => i - 1 \in 1 .. n BY <1>2
  <1>7. Typed(keys) \in [1 .. n -> {"b", "m", "n", "r"}]
    BY <1>3, <1>5 DEF Typed
  <1>8. Typed(keys) \in Seq({"b", "m", "n", "r"}) /\ Len(Typed(keys)) = n
    BY <1>2, <1>7
  <1> HIDE DEF Typed
  <1> QED BY <1>2, <1>3, <1>4, <1>5, <1>6, <1>8

\* What a concatenation is.
LEMMA Concatenation ==
  ASSUME NEW S, NEW s \in Seq(S), NEW t \in Seq(S)
  PROVE  /\ s \o t \in Seq(S) /\ Len(s \o t) = Len(s) + Len(t)
         /\ \A i \in 1 .. Len(s) + Len(t) :
              (s \o t)[i] = IF i <= Len(s) THEN s[i] ELSE t[i - Len(s)]
  OBVIOUS

\* The FIFO after a packet: each character that is not the first of its line
\* comes after one of the same line, or continues the line in hand.
LEMMA FifoOK ==
  ASSUME LineInv, NEW keys \in Keys, NEW ff, ff = rx_ff \o Typed(keys)
  PROVE  /\ ff \in Seq({"b", "m", "n", "r"}) /\ ff # <<>>
         /\ \A i \in DOMAIN ff : ff[i] = "m" =>
              IF i = 1 THEN Continues(s_cli_line, cut) ELSE ff[i - 1] \in {"b", "m"}
         /\ ff[Len(ff)] \in {"b", "m"} <=> Last(keys) = "x"
         /\ "n" \notin ToSet(keys) => ff \in Seq({"b", "m", "r"})
  <1> DEFINE a == Len(rx_ff)
             b == Len(keys)
             typed == Typed(keys)
  <1>1. /\ rx_ff \in Seq({"b", "m", "r"}) /\ typing \in BOOLEAN
        /\ \A i \in DOMAIN rx_ff : rx_ff[i] = "m" =>
              IF i = 1 THEN Continues(s_cli_line, cut) ELSE rx_ff[i - 1] # "r"
        /\ typing => IF rx_ff = <<>> THEN Continues(s_cli_line, cut)
                                     ELSE rx_ff[Len(rx_ff)] # "r"
    BY DEF LineInv, Last
  <1>2. /\ b \in Nat /\ b > 0 /\ DOMAIN keys = 1 .. b
        /\ \A i \in 1 .. b : keys[i] \in {"x", "n", "r"}
        /\ typed \in Seq({"b", "m", "n", "r"}) /\ Len(typed) = b
        /\ \A i \in 1 .. b :
              /\ typed[i] \in {"b", "m"} <=> keys[i] = "x"
              /\ keys[i] # "x" => typed[i] = keys[i]
              /\ typed[i] = "m" => IF i = 1 THEN typing ELSE typed[i - 1] \in {"b", "m"}
    BY <1>1, TypedOK
  <1> HIDE DEF typed
  <1>3. a \in Nat /\ DOMAIN rx_ff = 1 .. a /\ (rx_ff = <<>> <=> a = 0)
        /\ \A i \in 1 .. a : rx_ff[i] \in {"b", "m", "r"}
    BY <1>1
  <1>4. rx_ff \in Seq({"b", "m", "n", "r"})
    <2>1. rx_ff \in [1 .. a -> {"b", "m", "n", "r"}] BY <1>1, <1>3
    <2> QED BY <1>3, <2>1
  <1>5. ff = rx_ff \o typed BY DEF typed
  <1>6. ff \in Seq({"b", "m", "n", "r"}) /\ Len(ff) = a + b
    <2>1. typed \in Seq({"b", "m", "n", "r"}) /\ Len(typed) = b BY <1>2
    <2>2. ff \in Seq({"b", "m", "n", "r"}) /\ Len(ff) = Len(rx_ff) + Len(typed)
      BY <1>4, <1>5, <2>1, Concatenation
    <2> QED BY <2>1, <2>2
  <1>7. /\ DOMAIN ff = 1 .. a + b
        /\ \A i \in 1 .. a : ff[i] = rx_ff[i]
        /\ \A j \in 1 .. b : ff[a + j] = typed[j]
    <2>1. \A i \in 1 .. a + b : ff[i] = IF i <= a THEN rx_ff[i] ELSE typed[i - a]
      <3>1. typed \in Seq({"b", "m", "n", "r"}) /\ Len(typed) = b BY <1>2
      <3> QED BY <1>4, <1>5, <3>1, Concatenation
    <2>2. \A i \in 1 .. a : i \in 1 .. a + b /\ i <= a BY <1>2, <1>3
    <2>3. \A j \in 1 .. b : a + j \in 1 .. a + b /\ ~(a + j <= a) /\ (a + j) - a = j
      BY <1>2, <1>3
    <2>4. \A i \in 1 .. a : ff[i] = rx_ff[i] BY <2>1, <2>2
    <2>5. \A j \in 1 .. b : ff[a + j] = typed[j] BY <2>1, <2>3
    <2> QED BY <1>6, <2>4, <2>5
  <1> HIDE DEF a, b
  <1>8. ASSUME NEW i \in 1 .. a + b, ff[i] = "m"
        PROVE  IF i = 1 THEN Continues(s_cli_line, cut) ELSE ff[i - 1] \in {"b", "m"}
    <2>1. CASE i \in 1 .. a
      <3>1. i # 1 => i - 1 \in 1 .. a BY <1>3, <2>1
      <3> QED BY <1>1, <1>3, <1>7, <1>8, <2>1, <3>1
    <2>2. ASSUME NEW j \in 1 .. b, i = a + j
          PROVE  IF i = 1 THEN Continues(s_cli_line, cut) ELSE ff[i - 1] \in {"b", "m"}
      <3>1. typed[j] = "m" BY <1>7, <1>8, <2>2
      <3>2. CASE j = 1
        <4>1. typing BY <1>2, <3>1, <3>2
        <4>2. CASE a = 0
          <5>1. i = 1 BY <2>2, <3>2, <4>2
          <5> QED BY <1>1, <1>3, <4>1, <4>2, <5>1
        <4>3. CASE a # 0
          <5>1. i - 1 = a /\ i # 1 /\ a \in 1 .. a BY <1>3, <2>2, <3>2, <4>3
          <5>2. rx_ff[a] # "r" BY <1>1, <1>3, <4>1, <4>3 DEF a
          <5> QED BY <1>3, <1>7, <5>1, <5>2
        <4> QED BY <4>2, <4>3
      <3>3. CASE j # 1
        <4>1. j - 1 \in 1 .. b /\ i - 1 = a + (j - 1) /\ i # 1
          BY <1>2, <1>3, <2>2, <3>3
        <4>2. typed[j - 1] \in {"b", "m"} BY <1>2, <3>1, <3>3
        <4> QED BY <1>7, <4>1, <4>2
      <3> QED BY <3>2, <3>3
    <2>3. i \in 1 .. a \/ (\E j \in 1 .. b : i = a + j)
      <3>1. i \in 1 .. a \/ i - a \in 1 .. b BY <1>2, <1>3
      <3>2. i = a + (i - a) BY <1>3
      <3> QED BY <3>1, <3>2
    <2> QED BY <2>1, <2>2, <2>3
  <1>9. ff[Len(ff)] \in {"b", "m"} <=> Last(keys) = "x"
    <2>1. b \in 1 .. b BY <1>2
    <2>2. Last(keys) = keys[b] BY DEF Last, b
    <2>3. ff[Len(ff)] = typed[b] BY <1>6, <1>7, <2>1
    <2> QED BY <1>2, <2>1, <2>2, <2>3
  <1>10. ff # <<>> BY <1>2, <1>3, <1>6
  <1>11. ASSUME "n" \notin ToSet(keys) PROVE ff \in Seq({"b", "m", "r"})
    <2>1. \A i \in 1 .. b : keys[i] # "n" BY <1>2, <1>11 DEF ToSet
    <2>2. \A i \in 1 .. b : typed[i] \in {"b", "m", "r"} BY <1>2, <2>1
    <2>3. rx_ff \in Seq({"b", "m", "r"}) /\ typed \in Seq({"b", "m", "r"})
      <3>1. typed \in [1 .. b -> {"b", "m", "r"}] BY <1>2, <2>2
      <3> QED BY <1>1, <1>2, <3>1
    <2> QED BY <1>5, <2>3
  <1> QED BY <1>6, <1>7, <1>8, <1>9, <1>10, <1>11

\* The callbacks of a packet keep the invariant: the one for a newline drains
\* the FIFO into lines, the other keeps it or drops it with a report.
LEMMA PacketLine ==
  ASSUME LineInv, NEW keys \in Keys, Packet(keys)
  PROVE  LineInv'
  <1> DEFINE ff == rx_ff \o Typed(keys)
  <1>1. /\ usb = "up" /\ usb' = "up" /\ typing' = (Last(keys) = "x")
        /\ IF "n" \in ToSet(keys) THEN Wanted(ff) ELSE Received(ff)
    BY DEF Packet
  <1>2. /\ ff \in Seq({"b", "m", "n", "r"}) /\ ff # <<>>
        /\ \A i \in DOMAIN ff : ff[i] = "m" =>
              IF i = 1 THEN Continues(s_cli_line, cut) ELSE ff[i - 1] \in {"b", "m"}
        /\ ff[Len(ff)] \in {"b", "m"} <=> Last(keys) = "x"
        /\ "n" \notin ToSet(keys) => ff \in Seq({"b", "m", "r"})
    BY FifoOK
  <1>3. AssemblerOK(s_cli_line, cut, cli_msgq, cli_output_msgq) BY DEF LineInv
  <1>4. MAX \in Nat /\ MAX # 0 /\ DEPTH \in Nat /\ DEPTH # 0
    BY ConsoleAssumption
  <1> HIDE DEF ff
  <1>5. CASE Wanted(ff)
    <2>1. StateOK(Entered)
      BY <1>3 DEF StateOK, Entered, AssemblerOK
    <2>2. /\ StateOK(Assembled(ff))
          /\ ff[Len(ff)] \in {"b", "m"} => Continues(Assembled(ff).line, Assembled(ff).head)
      BY <1>2, <2>1, AssembledOK
    <2>3. /\ rx_ff' = <<>>
          /\ s_cli_line' = Assembled(ff).line /\ cut' = Assembled(ff).head
          /\ cli_msgq' = Assembled(ff).lines /\ cli_output_msgq' = Assembled(ff).reports
      BY <1>5 DEF Wanted
    <2>4. AssemblerOK(s_cli_line, cut, cli_msgq, cli_output_msgq)'
      BY <2>2, <2>3 DEF StateOK, AssemblerOK
    <2>5. typing' => Continues(s_cli_line, cut)'
      BY <1>1, <1>2, <2>2, <2>3 DEF Continues
    <2>6. rx_ff' \in Seq({"b", "m", "r"}) /\ Len(rx_ff') < MAX /\ DOMAIN rx_ff' = {}
      BY <1>4, <2>3
    <2> QED BY <1>1, <2>3, <2>4, <2>5, <2>6 DEF LineInv
  <1>6. CASE Received(ff) /\ ff \in Seq({"b", "m", "r"}) /\ Len(ff) < MAX
    <2>1. rx_ff' = ff /\ UNCHANGED <<s_cli_line, cut, cli_msgq, cli_output_msgq>>
      BY <1>6 DEF Received, console
    <2>2. AssemblerOK(s_cli_line, cut, cli_msgq, cli_output_msgq)'
      BY <1>3, <2>1 DEF AssemblerOK
    <2>3. typing' => rx_ff' # <<>> /\ Last(rx_ff)' # "r"
      BY <1>1, <1>2, <2>1 DEF Last
    <2>4. \A i \in DOMAIN rx_ff' : rx_ff'[i] = "m" =>
            IF i = 1 THEN Continues(s_cli_line, cut)' ELSE rx_ff'[i - 1] # "r"
      BY <1>2, <2>1 DEF Continues
    <2> QED BY <1>1, <1>6, <2>1, <2>2, <2>3, <2>4 DEF LineInv
  <1>7. CASE Received(ff) /\ ff \in Seq({"b", "m", "r"}) /\ ~(Len(ff) < MAX)
    <2>1. /\ rx_ff' = <<>> /\ s_cli_line' = <<>> /\ cli_msgq' = cli_msgq
          /\ cli_output_msgq' = PutReport(cli_output_msgq)
          /\ cut' = Reported(cli_output_msgq)
      BY <1>7 DEF Received
    <2>2. cut' \in Heads /\ cut' # "no" BY <2>1 DEF Reported, Heads
    <2>3. cli_output_msgq' \in 0 .. DEPTH
      BY <1>3, <1>4, <2>1 DEF AssemblerOK, PutReport
    <2>4. AssemblerOK(s_cli_line, cut, cli_msgq, cli_output_msgq)'
      <3>1. s_cli_line' \in Seq({"b", "m"}) /\ Len(s_cli_line') <= MAX BY <1>4, <2>1
      <3> QED BY <1>3, <2>1, <2>2, <2>3, <3>1 DEF AssemblerOK
    <2>5. Continues(s_cli_line, cut)' BY <2>2 DEF Continues
    <2>6. rx_ff' \in Seq({"b", "m", "r"}) /\ Len(rx_ff') < MAX /\ DOMAIN rx_ff' = {}
      BY <1>4, <2>1
    <2> QED BY <1>1, <2>1, <2>4, <2>5, <2>6 DEF LineInv
  <1> QED BY <1>1, <1>2, <1>5, <1>6, <1>7

\* Lines as power leaves them.
LEMMA EmptyLine ==
  /\ <<>> \in Seq({"b", "m"}) /\ <<>> \in Seq({"b", "m", "r"})
  /\ <<>> \in Seq(Histories \ {"no"}) /\ Len(<<>>) = 0 /\ DOMAIN <<>> = {}
  /\ "no" \in Heads /\ 0 < MAX /\ 0 <= MAX /\ 0 <= DEPTH /\ 0 \in 0 .. DEPTH
  /\ MAX \in Nat /\ DEPTH \in Nat
  BY ConsoleAssumption DEF Heads

\* A device without power holds no line and no report.
LEMMA PowerUpLine ==
  ASSUME PowerUp
  PROVE  LineInv'
  BY EmptyLine DEF PowerUp, LineInv, AssemblerOK

\* Every other step leaves the lines to the USB thread, takes the oldest one, or
\* forgets them.
LEMMA NextLine == LineInv /\ [Next]_vars => LineInv'
  <1> SUFFICES ASSUME LineInv, [Next]_vars PROVE LineInv' OBVIOUS
  <1>1. ASSUME UNCHANGED <<typing, rx_ff, s_cli_line, cut, cli_msgq, usb>>,
               \/ UNCHANGED cli_output_msgq
               \/ cli_output_msgq' =
                    IF cli_output_msgq > 0 THEN cli_output_msgq - 1 ELSE 0
        PROVE  LineInv'
    <2>1. cli_output_msgq' \in 0 .. DEPTH
      BY <1>1, EmptyLine DEF LineInv, AssemblerOK
    <2> QED BY <1>1, <2>1 DEF LineInv, AssemblerOK, Continues, Last
  <1>2. CASE LoadMode
    BY <1>1, <1>2 DEF LoadMode, assembler, console
  <1>3. CASE StartPath
    BY <1>1, <1>3 DEF StartPath, assembler, console
  <1>4. CASE UsbStart
    BY <1>4, EmptyLine DEF UsbStart, LineInv, AssemblerOK, console
  <1>5. CASE \E keys \in Keys : Packet(keys) BY <1>5, PacketLine
  <1>6. CASE LineState
    BY <1>6 DEF LineState, LineInv, AssemblerOK, Continues, console
  <1>7. CASE Unmount
    BY <1>7, EmptyLine DEF Unmount, LineInv, AssemblerOK, console
  <1>8. CASE CliInit
    BY <1>8, EmptyLine DEF CliInit, LineInv, AssemblerOK, Continues, Last, assembler
  <1>9. CASE GetLine
    <2>1. UNCHANGED <<typing, rx_ff, s_cli_line, cut, cli_output_msgq, usb>>
      BY <1>9 DEF GetLine, assembler
    <2>2. cli_msgq' \in Seq(Histories \ {"no"}) /\ Len(cli_msgq') <= DEPTH
      <3>1. cli_msgq \in Seq(Histories \ {"no"}) /\ Len(cli_msgq) <= DEPTH
        BY DEF LineInv, AssemblerOK
      <3>2. CASE UNCHANGED cli_msgq BY <3>1, <3>2
      <3>3. CASE cli_msgq # <<>> /\ cli_msgq' = Tail(cli_msgq)
        BY <3>1, <3>3, EmptyLine
      <3> QED BY <1>9, <3>2, <3>3 DEF GetLine
    <2> QED BY <2>1, <2>2 DEF LineInv, AssemblerOK, Continues, Last
  <1>10. CASE Answer \/ KeepMode \/ (\E m \in Modes : SaveMode(m)) \/ ConfirmMode
    BY <1>1, <1>10 DEF Answer, KeepMode, SaveMode, ConfirmMode, assembler, console
  <1>11. CASE WriteReport
    BY <1>1, <1>11 DEF WriteReport, assembler
  <1>12. CASE Reboot \/ PowerLoss
    BY <1>12, PowerUpLine DEF Reboot, PowerLoss
  <1>13. CASE UNCHANGED vars
    BY <1>1, <1>13 DEF vars, assembler, console
  <1> QED
    BY <1>2, <1>3, <1>4, <1>5, <1>6, <1>7, <1>8, <1>9, <1>10, <1>11, <1>12, <1>13
    DEF Next, CliThread

\* The lines in every reachable state.
LEMMA LineInvariant == Spec => []LineInv
  <1>1. Init => LineInv
    BY EmptyLine DEF Init, LineInv, AssemblerOK
  <1> QED BY <1>1, NextLine, PTL DEF Spec

\* No command is the silent tail of another: whatever the packets, the queues
\* and the line lengths, a line whose head was dropped is queued only after its
\* report was made, or found no room (usb_cdc.c:54-59, 66-96).
THEOREM TailsAreReported == Spec => []NoSilentTail
  <1>1. LineInv => NoSilentTail
    <2> SUFFICES ASSUME LineInv PROVE \A i \in DOMAIN cli_msgq : cli_msgq[i] # "no"
      BY DEF NoSilentTail, ToSet
    <2>1. cli_msgq \in Seq(Histories \ {"no"}) BY DEF LineInv, AssemblerOK
    <2> QED BY <2>1
  <1> QED BY <1>1, LineInvariant, PTL

\* The line buffer and both queues stay within their lengths, and between two
\* callbacks the FIFO has room for a newline and holds none.
THEOREM TypeCorrect == Spec => []TypeOK
  <1> DEFINE CtlInv ==
        /\ nv_mode \in Modes \cup {"none"} /\ current_mode \in Modes /\ target \in Modes
        /\ boot \in {"off", "loaded", "done"} /\ usb \in {"off", "up"}
        /\ cpc \in {"off", "get", "line", "out", "saved", "rebooting"}
        /\ acked \in Modes \cup {"none"} /\ misread \in BOOLEAN
  <1>1. Init => CtlInv BY ConsoleAssumption DEF Init
  <1>2. CtlInv /\ [Next]_vars => CtlInv'
    <2> SUFFICES ASSUME CtlInv, [Next]_vars PROVE CtlInv' OBVIOUS
    <2> USE ConsoleAssumption DEF flash, mode, thread, promise
    <2>1. CASE LoadMode \/ StartPath \/ UsbStart
      BY <2>1, LoadedIsMode DEF LoadMode, StartPath, UsbStart
    <2>2. CASE (\E keys \in Keys : Packet(keys)) \/ LineState \/ Unmount
      BY <2>2 DEF Packet, LineState, Unmount
    <2>3. CASE CliInit \/ GetLine \/ Answer \/ WriteReport \/ KeepMode \/ ConfirmMode
      BY <2>3 DEF CliInit, GetLine, Answer, WriteReport, KeepMode, ConfirmMode
    <2>4. CASE \E m \in Modes : SaveMode(m) BY <2>4 DEF SaveMode
    <2>5. CASE Reboot \/ PowerLoss BY <2>5 DEF Reboot, PowerLoss, PowerUp
    <2>6. CASE UNCHANGED vars BY <2>6 DEF vars
    <2> QED BY <2>1, <2>2, <2>3, <2>4, <2>5, <2>6 DEF Next, CliThread
  <1>3. CtlInv /\ LineInv => TypeOK
    <2> SUFFICES ASSUME CtlInv, LineInv PROVE TypeOK OBVIOUS
    <2>1. /\ rx_ff \in Seq({"b", "m", "r"}) /\ Len(rx_ff) < MAX
          /\ s_cli_line \in Seq({"b", "m"}) /\ Len(s_cli_line) <= MAX
          /\ Len(cli_msgq) <= DEPTH /\ cli_output_msgq \in 0 .. DEPTH /\ typing \in BOOLEAN
      BY DEF LineInv, AssemblerOK
    <2>2. ToSet(rx_ff) \subseteq {"b", "m", "r"} /\ ToSet(s_cli_line) \subseteq {"b", "m"}
      BY <2>1 DEF ToSet
    <2> QED BY <2>1, <2>2 DEF TypeOK
  <1> QED BY <1>1, <1>2, <1>3, LineInvariant, PTL DEF Spec
===============================================================================
