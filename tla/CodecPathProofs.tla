---------------------------- MODULE CodecPathProofs ---------------------------
(***************************************************************************)
(* Theorems about CodecPath, for every size of blocks, packets, FIFOs and   *)
(* slabs, every target level and every number of failures.                  *)
(***************************************************************************)
EXTENDS CodecPath, TLAPS

\* The queue holds at most one command.
LEMMA QueueOfOne ==
  ASSUME TypeOK
  PROVE  /\ i2s_cmdq # <<>> => Tail(i2s_cmdq) = <<>> /\ i2s_cmdq = <<Head(i2s_cmdq)>>
         /\ \A c \in Commands : i2s_cmdq = <<c>> => Head(i2s_cmdq) = c /\ i2s_cmdq # <<>>
         /\ <<"ACTIVATE">> # <<"DEACTIVATE">>
  <1>1. \A c \in Commands : /\ Head(<<c>>) = c /\ Tail(<<c>>) = <<>>
                            /\ <<c>> # <<>>
    OBVIOUS
  <1>2. <<"ACTIVATE">>[1] # <<"DEACTIVATE">>[1] OBVIOUS
  <1> QED BY <1>1, <1>2 DEF TypeOK

\* The sizes, one by one.
LEMMA Sizes ==
    /\ BLOCK \in Nat /\ SPK_PACKET \in Nat /\ MIC_PACKET \in Nat
    /\ TX_BLOCKS \in Nat /\ RX_BLOCKS \in Nat /\ BLOCK > 0
    /\ TARGET \in Nat /\ SPK_BUFFER \in Nat /\ MIC_BUFFER \in Nat /\ MaxFaults \in Nat
    /\ BLOCK <= TARGET /\ TARGET <= SPK_BUFFER
    /\ \A n \in UsbSizes : n \in Nat
  BY SizesAssumption

\* A failure is counted within its bound.
LEMMA FaultCount == TypeOK /\ (Fault \/ NoFault) => faults' \in 0 .. MaxFaults
  BY Sizes DEF TypeOK, Fault, NoFault

-------------------------------------------------------------------------------
(* Each step of the driver and of the I2S thread keeps the invariant. *)

\* The driver returns a block.
LEMMA DriverCompleteInv == PathInv /\ DriverComplete => PathInv'
  <1> SUFFICES ASSUME PathInv, DriverComplete PROVE PathInv' OBVIOUS
  <1> USE Sizes DEF PathInv, DriverComplete
  <1>1. TypeOK' BY DEF TypeOK, path
  <1>2. I2sInv' BY DEF TypeOK, I2sInv, path
  <1>3. QueueInv' BY DEF TypeOK, I2sInv, QueueInv, Committed, path
  <1> QED BY <1>1, <1>2, <1>3

\* The codec and the driver come up, or do not.
LEMMA I2sInitInv == PathInv /\ I2sInit => PathInv'
  <1> SUFFICES ASSUME PathInv, I2sInit PROVE PathInv' OBVIOUS
  <1>1. TypeOK' BY FaultCount DEF PathInv, I2sInit, TypeOK, IPcs, path
  <1>2. I2sInv' BY DEF PathInv, I2sInit, I2sInv, path
  <1>3. QueueInv' BY DEF PathInv, I2sInit, I2sInv, QueueInv, Committed, path
  <1> QED BY <1>1, <1>2, <1>3 DEF PathInv

\* A command is taken while inactive.
LEMMA GetCommandInv == PathInv /\ GetCommand => PathInv'
  <1> SUFFICES ASSUME PathInv, GetCommand PROVE PathInv' OBVIOUS
  <1> USE DEF PathInv, GetCommand
  <1>1. i2s_cmdq' = <<>>
    <2>1. TypeOK OBVIOUS
    <2> QED BY <2>1, QueueOfOne
  <1>2. ~Committed BY DEF QueueInv
  <1>3. pending = 0 /\ air = 0 BY <1>2 DEF Committed, TypeOK, I2sInv
  <1>4. CASE i2s_cmdq = <<"ACTIVATE">>
    <2>1. ipc' = "prefill" BY <1>4
    <2>2. stream_state' = "PLAYING" /\ ppc' # "put" BY <1>4 DEF QueueInv, path
    <2>3. TypeOK' BY <1>1, <2>1 DEF TypeOK, IPcs, path
    <2>4. I2sInv' BY <1>3, <2>1 DEF I2sInv
    <2> QED BY <1>1, <2>2, <2>3, <2>4 DEF QueueInv
  <1>5. CASE i2s_cmdq # <<"ACTIVATE">>
    <2>1. ipc' = "idle"
      <3>1. TypeOK OBVIOUS
      <3> QED BY <1>5, <3>1, QueueOfOne
    <2>2. TypeOK' BY <1>1, <2>1 DEF TypeOK, IPcs, path
    <2>3. I2sInv' BY <2>1 DEF I2sInv
    <2>4. ~Committed' BY <1>2, <2>1 DEF Committed
    <2> QED BY <1>1, <2>2, <2>3, <2>4 DEF QueueInv, path
  <1> QED BY <1>4, <1>5

\* A block leaves the FIFO, for the driver or for nowhere.
LEMMA TxBlockInv ==
  ASSUME PathInv, NEW next \in {"start", "poll"},
         \/ ipc = "prefill" /\ next = "start"
         \/ ipc = "submit" /\ next = "poll",
         TxBlock(next)
  PROVE  PathInv'
  <1> USE Sizes DEF PathInv, TxBlock
  <1>1. Committed /\ i2s_cmdq = <<>> /\ i2s_cmdq' = <<>>
        /\ stream_state' = "PLAYING" /\ ppc' # "put"
    BY DEF Committed, QueueInv, path
  <1>2. spk' \in 0 .. SPK_BUFFER BY DEF TypeOK
  <1>3. QueueInv' BY <1>1 DEF QueueInv
  <1>4. CASE /\ drv # "error" /\ air' = air + 1 /\ pending' = pending + 1
             /\ NoFault /\ UNCHANGED ipc
    <2>1. TypeOK' BY <1>2, <1>4 DEF TypeOK, NoFault, path
    <2>2. I2sInv' BY <1>4 DEF TypeOK, I2sInv
    <2> QED BY <1>3, <2>1, <2>2
  <1>5. CASE ipc' = next /\ UNCHANGED <<air, pending>> /\ (Fault \/ NoFault)
    <2>1. TypeOK' BY <1>2, <1>5, FaultCount DEF TypeOK, IPcs, path
    <2>2. I2sInv' BY <1>5 DEF TypeOK, I2sInv
    <2> QED BY <1>3, <2>1, <2>2
  <1> QED BY <1>4, <1>5

\* The thread leaves its loop over the FIFO.
LEMMA TxLoopEndsInv ==
  ASSUME PathInv, NEW next \in {"start", "poll"},
         \/ ipc = "prefill" /\ next = "start"
         \/ ipc = "submit" /\ next = "poll",
         TxLoopEnds(next)
  PROVE  PathInv'
  <1> USE DEF PathInv, TxLoopEnds
  <1>1. TypeOK' BY DEF TypeOK, IPcs, path
  <1>2. I2sInv' BY DEF TypeOK, I2sInv
  <1>3. QueueInv' BY DEF QueueInv, Committed, path
  <1> QED BY <1>1, <1>2, <1>3

\* The stream starts, or every try fails.
LEMMA StartInv == PathInv /\ Start => PathInv'
  <1> SUFFICES ASSUME PathInv, Start PROVE PathInv' OBVIOUS
  <1> USE Sizes DEF PathInv, Start
  <1>1. pending' = air /\ air \in Nat BY DEF TypeOK, I2sInv
  <1>2. CASE air > 0 /\ running' = TRUE /\ ipc' = "poll" /\ drv' = "run" /\ NoFault
             /\ UNCHANGED <<air, done>>
    <2>1. done = 0 BY DEF I2sInv
    <2>2. TypeOK' BY <1>2 DEF TypeOK, IPcs, path, NoFault
    <2>3. I2sInv' BY <1>1, <1>2, <2>1 DEF I2sInv
    <2>4. Committed BY <1>1, <1>2 DEF Committed
    <2>5. QueueInv' BY <2>4, <1>1, <1>2 DEF QueueInv, path
    <2> QED BY <2>2, <2>3, <2>5
  <1>3. CASE Drop /\ ipc' = "idle" /\ UNCHANGED running /\ (Fault \/ NoFault)
    <2>1. TypeOK' BY <1>3, FaultCount DEF TypeOK, IPcs, path, Drop
    <2>2. I2sInv' BY <1>3 DEF I2sInv, Drop
    <2>3. Committed' => Committed BY <1>3 DEF Committed
    <2>4. QueueInv' BY <2>3 DEF QueueInv, path
    <2> QED BY <2>1, <2>2, <2>4
  <1> QED BY <1>2, <1>3

\* The active loop looks for a command, and finds none.
LEMMA PollCommandInv == PathInv /\ PollCommand => PathInv'
  <1> SUFFICES ASSUME PathInv, PollCommand PROVE PathInv' OBVIOUS
  <1> USE DEF PathInv, PollCommand
  <1>1. Committed /\ i2s_cmdq = <<>> BY DEF Committed, QueueInv
  <1>2. ipc' = "read" /\ UNCHANGED <<i2s_cmdq, drv, air, done, running, pending>> BY <1>1
  <1>3. TypeOK' BY <1>2 DEF TypeOK, IPcs, path
  <1>4. I2sInv' BY <1>2 DEF I2sInv
  <1>5. QueueInv' BY <1>1, <1>2 DEF QueueInv, path
  <1> QED BY <1>3, <1>4, <1>5

\* A received block is paid for by a pending one.
LEMMA RxBlockInv == PathInv /\ RxBlock => PathInv'
  <1> SUFFICES ASSUME PathInv, RxBlock PROVE PathInv' OBVIOUS
  <1> USE Sizes DEF PathInv, RxBlock
  <1>1. pending = air + done /\ running BY DEF I2sInv
  <1>2. mic' \in 0 .. MIC_BUFFER BY DEF TypeOK, AtMost
  <1>3. TypeOK' BY <1>1, <1>2 DEF TypeOK, IPcs, path
  <1>4. I2sInv' BY <1>1 DEF TypeOK, I2sInv
  <1>5. QueueInv' BY DEF QueueInv, Committed, path
  <1> QED BY <1>3, <1>4, <1>5

\* A read fails and the stream is stopped.
LEMMA RxErrorInv == PathInv /\ RxError => PathInv'
  <1> SUFFICES ASSUME PathInv, RxError PROVE PathInv' OBVIOUS
  <1> USE Sizes DEF PathInv, RxError
  <1>1. running BY DEF I2sInv
  <1>2. /\ drv' = "ready" /\ air' = 0 /\ done' = 0
        /\ running' = FALSE /\ pending' = 0 /\ ipc' = "idle"
    BY <1>1 DEF Stop, Drop
  <1>3. faults' \in 0 .. MaxFaults
    BY DEF TypeOK, Fault, NoFault
  <1>4. UNCHANGED <<mode, spk, mic, i2s_cmdq, path>> OBVIOUS
  <1>5. TypeOK'
    <2> HIDE DEF RxError
    <2>1. /\ mode' \in Modes /\ spk' \in 0 .. SPK_BUFFER /\ mic' \in 0 .. MIC_BUFFER
          /\ i2s_cmdq' = <<>> \/ \E c \in Commands : i2s_cmdq' = <<c>>
      BY <1>4 DEF TypeOK
    <2>2. /\ ipc' \in IPcs /\ running' \in BOOLEAN /\ pending' \in Nat
          /\ drv' \in {"ready", "run", "error"}
      BY <1>2 DEF IPcs
    <2>3. air' \in 0 .. TX_BLOCKS /\ done' \in Nat BY <1>2
    <2>4. /\ ppc' \in PPcs /\ stream_state' \in {"BUFFERING", "PLAYING"}
          /\ spk_ff_bytes' \in 0 .. SPK_BUFFER
      BY <1>4 DEF TypeOK, path
    <2> QED BY <1>3, <2>1, <2>2, <2>3, <2>4 DEF TypeOK
  <1>6. I2sInv' BY <1>2 DEF I2sInv
  <1>7. QueueInv' BY <1>2 DEF QueueInv, Committed, path
  <1> QED BY <1>5, <1>6, <1>7

-------------------------------------------------------------------------------
(* Each step of the path thread and of USB keeps it. *)

\* While the I2S thread waits, an underrun means that nothing is committed.
LEMMA UnderrunWhileWaiting ==
  PathInv /\ I2sWaits /\ ppc = "decide" /\ Underrun
    => ~Committed /\ i2s_cmdq # <<"ACTIVATE">>
  <1> SUFFICES ASSUME PathInv, I2sWaits, ppc = "decide", Underrun
               PROVE  ~Committed /\ i2s_cmdq # <<"ACTIVATE">>
    OBVIOUS
  <1>1. pending = 0 /\ spk_ff_bytes < BLOCK BY DEF Underrun
  <1>2. i2s_cmdq # <<"ACTIVATE">>
    BY <1>1, Sizes DEF PathInv, TypeOK, QueueInv
  <1>3. ipc # "read" \/ done # 0 \/ drv # "run"
    BY <1>1 DEF PathInv, TypeOK, I2sInv
  <1>4. ipc \notin {"prefill", "poll", "read", "submit"} BY <1>3 DEF I2sWaits
  <1> QED BY <1>1, <1>2, <1>4 DEF Committed

\* A refilled buffer is one that holds a block now.
LEMMA RefilledHoldsBlock ==
  PathInv /\ ppc = "decide" /\ Refilled => ~Committed /\ spk >= BLOCK
  <1> SUFFICES ASSUME PathInv, ppc = "decide", Refilled
               PROVE  ~Committed /\ spk >= BLOCK
    OBVIOUS
  <1>1. ~Committed BY DEF PathInv, QueueInv, Refilled
  <1>2. pending = 0 BY <1>1 DEF Committed, PathInv, TypeOK
  <1>3. spk_ff_bytes >= TARGET
    BY <1>2, Sizes DEF Refilled, Level, PathInv, TypeOK
  <1>4. spk_ff_bytes <= spk BY DEF PathInv, QueueInv, Refilled
  <1> QED BY <1>1, <1>3, <1>4, Sizes DEF PathInv, TypeOK

\* Everything the I2S invariant speaks of, left alone.
LEMMA I2sInvKept == I2sInv /\ UNCHANGED i2s => I2sInv'
  BY DEF I2sInv, i2s

\* The level is read.
LEMMA SampleInv == PathInv /\ Sample => PathInv'
  <1> SUFFICES ASSUME PathInv, Sample PROVE PathInv' OBVIOUS
  <1> USE Sizes DEF PathInv, Sample
  <1>1. TypeOK' BY DEF TypeOK, PPcs, i2s
  <1>2. I2sInv' BY I2sInvKept
  <1>3. QueueInv' BY DEF TypeOK, QueueInv, Committed, i2s
  <1> QED BY <1>1, <1>2, <1>3

\* The path changes its state, or not.
LEMMA DecideInv == PathInv /\ I2sWaits /\ Decide => PathInv'
  <1> SUFFICES ASSUME PathInv, I2sWaits, Decide PROVE PathInv' OBVIOUS
  <1> USE Sizes DEF Decide
  <1>1. AfterPut \in {"spk", "sample"} BY DEF AfterPut
  <1>2. TypeOK'
    <2>1. stream_state' \in {"BUFFERING", "PLAYING"} BY DEF PathInv, TypeOK
    <2>2. ppc' \in PPcs BY <1>1 DEF PPcs
    <2> QED BY <2>1, <2>2 DEF PathInv, TypeOK, i2s
  <1>3. I2sInv' BY I2sInvKept DEF PathInv
  <1>4. Committed' <=> Committed BY DEF Committed, i2s
  <1>5. CASE Refilled /\ stream_state' = "PLAYING" /\ ppc' = "put"
    <2>1. ~Committed /\ spk >= BLOCK BY <1>5, RefilledHoldsBlock
    <2>2. i2s_cmdq # <<"ACTIVATE">> BY <1>5 DEF Refilled, PathInv, QueueInv
    <2>3. QueueInv' BY <1>4, <1>5, <2>1, <2>2 DEF QueueInv, i2s
    <2> QED BY <1>2, <1>3, <2>3 DEF PathInv
  <1>6. CASE Underrun /\ stream_state' = "BUFFERING" /\ ppc' = "put"
    <2>1. ~Committed /\ i2s_cmdq # <<"ACTIVATE">> BY <1>6, UnderrunWhileWaiting
    <2>2. QueueInv' BY <1>4, <1>6, <2>1 DEF QueueInv, i2s
    <2> QED BY <1>2, <1>3, <2>2 DEF PathInv
  <1>7. CASE ppc' = AfterPut /\ UNCHANGED stream_state
    <2>1. ppc' # "put" /\ ppc' # "decide" BY <1>1, <1>7
    <2>2. QueueInv' BY <1>4, <1>7, <2>1 DEF PathInv, QueueInv, i2s
    <2> QED BY <1>2, <1>3, <2>2 DEF PathInv
  <1> QED BY <1>5, <1>6, <1>7

\* A command goes into the free slot.
LEMMA PutCommandInv == PathInv /\ PutCommand => PathInv'
  <1> SUFFICES ASSUME PathInv, PutCommand PROVE PathInv' OBVIOUS
  <1> USE DEF PathInv, PutCommand
  <1>1. AfterPut \in {"spk", "sample"} BY DEF AfterPut
  <1>2. ~Committed /\ ~Committed' BY DEF QueueInv, Committed
  <1>3. I2sInv' BY DEF I2sInv
  <1>4. CASE stream_state = "PLAYING"
    <2>1. i2s_cmdq' = <<"ACTIVATE">> /\ spk >= BLOCK BY <1>4 DEF QueueInv
    <2>2. TypeOK' BY <1>1, <2>1 DEF TypeOK, PPcs, Commands
    <2>3. <<"ACTIVATE">> # <<"DEACTIVATE">> BY QueueOfOne
    <2>4. QueueInv' BY <1>1, <1>2, <1>4, <2>1, <2>3 DEF QueueInv
    <2> QED BY <1>3, <2>2, <2>4
  <1>5. CASE stream_state # "PLAYING"
    <2>1. i2s_cmdq' = <<"DEACTIVATE">> /\ stream_state = "BUFFERING"
      BY <1>5 DEF TypeOK
    <2>2. TypeOK' BY <1>1, <2>1 DEF TypeOK, PPcs, Commands
    <2>3. <<"ACTIVATE">> # <<"DEACTIVATE">> BY QueueOfOne
    <2>4. QueueInv' BY <1>1, <1>2, <2>1, <2>3 DEF QueueInv
    <2> QED BY <1>3, <2>2, <2>4
  <1> QED BY <1>4, <1>5

\* A FIFO level moves, and nothing else but the path's place; a full block in
\* the speaker FIFO stays there.
LEMMA LevelsMoveInv ==
  ASSUME PathInv, UNCHANGED <<mode, i2s, stream_state, spk_ff_bytes, faults>>,
         spk' \in 0 .. SPK_BUFFER, spk <= spk', mic' \in 0 .. MIC_BUFFER,
         ppc' \in {ppc, "mic", "sample"}, ppc = "put" => ppc' = "put"
  PROVE  PathInv'
  <1> USE Sizes DEF PathInv
  <1>1. TypeOK' BY DEF TypeOK, PPcs, i2s
  <1>2. I2sInv' BY I2sInvKept
  <1>3. Committed' <=> Committed BY DEF Committed, i2s
  <1>4. spk >= BLOCK => spk' >= BLOCK BY DEF TypeOK
  <1>5. ppc' = "put" <=> ppc = "put" OBVIOUS
  <1>6. ppc' = "decide" => ppc = "decide" OBVIOUS
  <1>7. spk_ff_bytes <= spk => spk_ff_bytes <= spk' BY DEF TypeOK
  <1>8. UNCHANGED i2s_cmdq BY DEF i2s
  <1>9. QueueInv'
    <2>1. UNCHANGED <<stream_state, spk_ff_bytes>> OBVIOUS
    <2>2. QueueInv OBVIOUS
    <2> HIDE Sizes DEF PathInv
    <2>3. (i2s_cmdq = <<"ACTIVATE">> =>
             /\ stream_state = "PLAYING" /\ ppc # "put" /\ spk >= BLOCK
             /\ ppc = "decide" => spk_ff_bytes >= BLOCK)'
      BY <1>4, <1>5, <1>6, <1>8, <2>1, <2>2 DEF QueueInv
    <2>4. (stream_state = "BUFFERING" /\ ppc = "decide" => spk_ff_bytes <= spk)'
      BY <1>6, <1>7, <2>1, <2>2 DEF QueueInv
    <2>5. (stream_state = "PLAYING" /\ ppc = "put" => spk >= BLOCK)'
      BY <1>4, <1>5, <2>1, <2>2 DEF QueueInv
    <2>6. (i2s_cmdq = <<"DEACTIVATE">> => stream_state = "BUFFERING" \/ ppc = "put")'
      BY <1>5, <1>8, <2>1, <2>2 DEF QueueInv
    <2>7. (Committed => stream_state = "PLAYING" /\ ppc # "put" /\ i2s_cmdq = <<>>)'
      BY <1>3, <1>5, <1>8, <2>1, <2>2 DEF QueueInv
    <2> QED BY <2>3, <2>4, <2>5, <2>6, <2>7 DEF QueueInv
  <1> QED BY <1>1, <1>2, <1>9

\* Packets into the speaker FIFO, out of the microphone FIFO, and USB.
LEMMA FifoStepsInv ==
  PathInv /\ (FillSpeaker \/ DrainMic \/ UsbOut \/ UsbIn) => PathInv'
  <1> SUFFICES ASSUME PathInv PROVE FillSpeaker \/ DrainMic \/ UsbOut \/ UsbIn => PathInv'
    OBVIOUS
  <1> USE Sizes
  <1>1. spk \in 0 .. SPK_BUFFER /\ mic \in 0 .. MIC_BUFFER BY DEF PathInv, TypeOK
  <1>2. ASSUME FillSpeaker PROVE PathInv'
    BY <1>1, <1>2, LevelsMoveInv DEF FillSpeaker
  <1>3. ASSUME DrainMic PROVE PathInv'
    BY <1>1, <1>3, LevelsMoveInv DEF DrainMic
  <1>4. ASSUME UsbOut PROVE PathInv'
    <2>1. spk' \in 0 .. SPK_BUFFER /\ spk <= spk' BY <1>1, <1>4 DEF UsbOut, AtMost
    <2> QED BY <1>1, <1>4, <2>1, LevelsMoveInv DEF UsbOut, path
  <1>5. ASSUME UsbIn PROVE PathInv'
    BY <1>1, <1>5, LevelsMoveInv DEF UsbIn, path
  <1> QED BY <1>2, <1>3, <1>4, <1>5

-------------------------------------------------------------------------------

\* The initial state satisfies the invariant.
LEMMA InitInv == Init => PathInv
  <1> SUFFICES ASSUME Init PROVE PathInv OBVIOUS
  <1> USE Sizes DEF Init
  <1>1. TypeOK
    <2>1. /\ mode \in Modes /\ spk \in 0 .. SPK_BUFFER /\ mic \in 0 .. MIC_BUFFER
          /\ air \in 0 .. TX_BLOCKS /\ done \in Nat /\ pending \in Nat
          /\ spk_ff_bytes \in 0 .. SPK_BUFFER /\ faults \in 0 .. MaxFaults
      OBVIOUS
    <2>2. ipc \in IPcs /\ ppc \in PPcs /\ i2s_cmdq = <<>> BY DEF IPcs, PPcs
    <2> QED BY <2>1, <2>2 DEF TypeOK
  <1>2. I2sInv BY DEF I2sInv
  <1>3. i2s_cmdq # <<"ACTIVATE">> /\ i2s_cmdq # <<"DEACTIVATE">> OBVIOUS
  <1>4. ~Committed BY DEF Committed
  <1>5. QueueInv BY <1>3, <1>4 DEF QueueInv
  <1> QED BY <1>1, <1>2, <1>5 DEF PathInv

\* Every step keeps the invariant.
LEMMA NextInv == PathInv /\ [Next]_vars => PathInv'
  <1> SUFFICES ASSUME PathInv, [Next]_vars PROVE PathInv' OBVIOUS
  <1>1. CASE I2sThread
    <2>1. ASSUME Prefill PROVE PathInv'
      BY <2>1, TxBlockInv, TxLoopEndsInv DEF Prefill
    <2>2. ASSUME Submit PROVE PathInv'
      BY <2>2, TxBlockInv, TxLoopEndsInv DEF Submit
    <2> QED
      BY <1>1, <2>1, <2>2, I2sInitInv, GetCommandInv, StartInv, PollCommandInv,
         RxBlockInv, RxErrorInv
      DEF I2sThread
  <1>2. CASE PathThread
    BY <1>2, SampleInv, DecideInv, PutCommandInv, FifoStepsInv DEF PathThread, PathStep
  <1>3. CASE DriverComplete BY <1>3, DriverCompleteInv
  <1>4. CASE UsbOut \/ UsbIn BY <1>4, FifoStepsInv
  <1>5. CASE UNCHANGED vars
    <2>1. UNCHANGED <<mode, i2s, stream_state, spk_ff_bytes, faults, spk, mic, ppc>>
      BY <1>5 DEF vars, path
    <2> QED BY <2>1, LevelsMoveInv, Sizes DEF PathInv, TypeOK
  <1> QED BY <1>1, <1>2, <1>3, <1>4, <1>5 DEF Next

\* The I2S thread, the path thread, the driver and the queue between them keep
\* PathInv (i2s.c, path_headset.c, path_wired.c), whatever the sizes.
THEOREM PathSafe == Spec => []PathInv
  BY InitInv, NextInv, PTL DEF Spec

\* The FIFOs, the slabs and the pending count stay within their sizes: no step
\* of any thread takes more than is there or puts more than fits.
THEOREM TypeCorrect == Spec => []TypeOK
  <1>1. PathInv => TypeOK BY DEF PathInv
  <1> QED BY <1>1, PathSafe, PTL

\* The pending count is exact while the stream runs: the assert of i2s.c:143
\* never fires.
THEOREM PendingIsExact == Spec => []PendingExact
  <1>1. PathInv => PendingExact BY DEF PathInv, I2sInv, PendingExact
  <1> QED BY <1>1, PathSafe, PTL

\* The active loop of the I2S thread never finds an ACTIVATE to throw away.
THEOREM NoActivateSwallowed == Spec => []ActivateNotSwallowed
  <1>1. PathInv => ActivateNotSwallowed
    <2> SUFFICES ASSUME PathInv, ipc = "poll" PROVE i2s_cmdq = <<>>
      BY QueueOfOne DEF ActivateNotSwallowed, PathInv
    <2> QED BY DEF PathInv, QueueInv, Committed
  <1> QED BY <1>1, PathSafe, PTL

\* While the driver sends, the path thread is in PLAYING and no command is on
\* its way.
THEOREM ThreadsAgree == Spec => []AgreeOnPlaying
  <1>1. PathInv => AgreeOnPlaying
    <2> SUFFICES ASSUME PathInv, drv = "run" PROVE Committed
      BY DEF AgreeOnPlaying, PathInv, QueueInv
    <2>1. running BY DEF PathInv, I2sInv
    <2> QED BY <2>1 DEF PathInv, I2sInv, Committed
  <1> QED BY <1>1, PathSafe, PTL

-------------------------------------------------------------------------------
(* The two threads implement PlaybackContract.  Every step is one of its      *)
(* steps, or leaves want, armed and sound as they are.                        *)

ContractStep == Contract!Next \/ UNCHANGED Contract!vars

\* Armed looks at the path's place only for a pending put.
LEMMA ArmedKept ==
  ASSUME UNCHANGED <<stream_state, i2s_cmdq>>,
         (stream_state = "PLAYING" /\ ppc = "put")' <=> (stream_state = "PLAYING" /\ ppc = "put"),
         (ipc \in {"prefill", "start"})' <=> (ipc \in {"prefill", "start"}),
         (drv = "run")' <=> (drv = "run")
  PROVE  ContractStep
  <1>1. Armed' <=> Armed BY DEF Armed
  <1>2. UNCHANGED <<stream_state = "PLAYING", Armed, drv = "run">> BY <1>1
  <1> QED BY <1>2 DEF ContractStep, Contract!vars

\* The stream ends, by itself or by a failure.
LEMMA SoundEnds ==
  ASSUME UNCHANGED <<stream_state, i2s_cmdq, ppc>>,
         (ipc \in {"prefill", "start"})' <=> (ipc \in {"prefill", "start"}),
         drv' # "run"
  PROVE  ContractStep
  <1>1. CASE drv = "run"
    <2>1. Armed' <=> Armed BY DEF Armed
    <2> QED BY <1>1, <2>1 DEF ContractStep, Contract!Next, Contract!End
  <1>2. CASE drv # "run" BY <1>2, ArmedKept
  <1> QED BY <1>1, <1>2

\* A command taken by the I2S thread keeps a wish armed.
LEMMA GetCommandContract == PathInv /\ GetCommand => ContractStep
  <1> SUFFICES ASSUME PathInv, GetCommand PROVE ContractStep OBVIOUS
  <1>1. TypeOK BY DEF PathInv
  <1>2. i2s_cmdq' = <<>> /\ UNCHANGED <<stream_state, ppc, drv>>
    BY <1>1, QueueOfOne DEF GetCommand, path
  <1>3. i2s_cmdq' # <<"ACTIVATE">> BY <1>2
  <1>4. Armed' <=> Armed
    <2>1. CASE i2s_cmdq = <<"ACTIVATE">>
      <3>1. ipc' = "prefill" BY <2>1 DEF GetCommand
      <3> QED BY <2>1, <3>1 DEF Armed
    <2>2. CASE i2s_cmdq # <<"ACTIVATE">>
      <3>1. ipc' = "idle" /\ ipc = "idle" BY <1>1, <2>2, QueueOfOne DEF GetCommand
      <3> QED BY <1>2, <1>3, <2>2, <3>1 DEF Armed
    <2> QED BY <2>1, <2>2
  <1>5. UNCHANGED <<stream_state = "PLAYING", Armed, drv = "run">> BY <1>2, <1>4
  <1> QED BY <1>5 DEF ContractStep, Contract!vars

\* A start uses up the wish: sound begins, or it is refused.
LEMMA StartContract == PathInv /\ Start => ContractStep
  <1> SUFFICES ASSUME PathInv, Start PROVE ContractStep OBVIOUS
  <1>1. Armed BY DEF Start, Armed
  <1>2. drv # "run" BY DEF PathInv, I2sInv, Start
  <1>3. UNCHANGED <<stream_state, ppc, i2s_cmdq>> BY DEF Start, path
  <1>4. CASE air > 0 /\ ipc' = "poll" /\ drv' = "run"
    <2>1. pending > 0 BY <1>4 DEF PathInv, TypeOK, I2sInv, Start
    <2>2. stream_state = "PLAYING" /\ ppc # "put" /\ i2s_cmdq = <<>>
      BY <2>1 DEF PathInv, QueueInv, Committed
    <2>3. ~Armed'
      <3>1. i2s_cmdq' # <<"ACTIVATE">> BY <1>3, <2>2
      <3> QED BY <1>3, <1>4, <2>2, <3>1 DEF Armed
    <2> QED BY <1>1, <1>2, <1>3, <1>4, <2>2, <2>3
            DEF ContractStep, Contract!Next, Contract!Begin
  <1>5. CASE Drop /\ ipc' = "idle"
    <2>1. drv' # "run" BY <1>5 DEF Drop
    <2>2. CASE Armed'
      <3>1. UNCHANGED <<stream_state = "PLAYING", Armed, drv = "run">>
        BY <1>1, <1>2, <1>3, <2>1, <2>2
      <3> QED BY <3>1 DEF ContractStep, Contract!vars
    <2>3. CASE ~Armed'
      BY <1>1, <1>2, <1>3, <2>1, <2>3 DEF ContractStep, Contract!Next, Contract!Refuse
    <2> QED BY <2>2, <2>3
  <1> QED BY <1>4, <1>5 DEF Start

\* Every step of the I2S thread and of the driver.
LEMMA I2sContract == PathInv /\ (I2sThread \/ DriverComplete) => ContractStep
  <1> SUFFICES ASSUME PathInv PROVE I2sThread \/ DriverComplete => ContractStep
    OBVIOUS
  <1>1. ASSUME I2sInit PROVE ContractStep
    BY <1>1, ArmedKept DEF I2sInit, path
  <1>2. ASSUME Prefill \/ Submit PROVE ContractStep
    <2>1. UNCHANGED <<stream_state, i2s_cmdq, ppc, drv>>
      BY <1>2 DEF Prefill, Submit, TxBlock, TxLoopEnds, path
    <2>2. \/ ipc = "prefill" /\ ipc' \in {ipc, "start"}
          \/ ipc = "submit" /\ ipc' \in {ipc, "poll"}
      BY <1>2 DEF Prefill, Submit, TxBlock, TxLoopEnds
    <2> QED BY <2>1, <2>2, ArmedKept
  <1>3. ASSUME PollCommand PROVE ContractStep
    <2>1. i2s_cmdq = <<>> /\ ipc = "poll" BY <1>3 DEF PollCommand, PathInv, QueueInv, Committed
    <2>2. UNCHANGED <<stream_state, i2s_cmdq, ppc, drv>> /\ ipc' = "read"
      BY <1>3, <2>1 DEF PollCommand, path
    <2> QED BY <2>1, <2>2, ArmedKept
  <1>4. ASSUME RxBlock PROVE ContractStep
    BY <1>4, ArmedKept DEF RxBlock, path
  <1>5. ASSUME RxError PROVE ContractStep
    <2>1. drv' # "run" BY <1>5 DEF RxError, Stop, Drop, PathInv, I2sInv
    <2> QED BY <1>5, <2>1, SoundEnds DEF RxError, path
  <1>6. ASSUME DriverComplete PROVE ContractStep
    <2>1. CASE drv' = "run" BY <1>6, <2>1, ArmedKept DEF DriverComplete, path
    <2>2. CASE drv' # "run" BY <1>6, <2>2, SoundEnds DEF DriverComplete, path
    <2> QED BY <2>1, <2>2
  <1> QED BY <1>1, <1>2, <1>3, <1>4, <1>5, <1>6, GetCommandContract, StartContract
          DEF I2sThread

\* Every step of the path thread and of USB.
LEMMA PathContract == PathInv /\ (PathThread \/ UsbOut \/ UsbIn) => ContractStep
  <1> SUFFICES ASSUME PathInv PROVE PathThread \/ UsbOut \/ UsbIn => ContractStep
    OBVIOUS
  <1>1. ASSUME Sample \/ FillSpeaker \/ DrainMic PROVE ContractStep
    BY <1>1, ArmedKept DEF Sample, FillSpeaker, DrainMic, i2s
  <1>2. ASSUME UsbOut \/ UsbIn PROVE ContractStep
    BY <1>2, ArmedKept DEF UsbOut, UsbIn, i2s, path
  <1>3. ASSUME I2sWaits, Decide PROVE ContractStep
    <2>1. UNCHANGED <<i2s_cmdq, ipc, drv>> /\ ppc = "decide" BY <1>3 DEF Decide, i2s
    <2>2. CASE Refilled /\ stream_state' = "PLAYING" /\ ppc' = "put"
      <3>1. ~Committed BY <2>1, <2>2, RefilledHoldsBlock
      <3>2. drv # "run" BY <3>1 DEF PathInv, I2sInv, Committed
      <3> QED BY <2>1, <2>2, <3>2
              DEF ContractStep, Contract!Next, Contract!Ask, Refilled, Armed
    <2>3. CASE Underrun /\ stream_state' = "BUFFERING" /\ ppc' = "put"
      <3>1. ~Committed BY <1>3, <2>1, <2>3, UnderrunWhileWaiting
      <3>2. drv # "run" BY <3>1 DEF PathInv, I2sInv, Committed
      <3>3. Armed' <=> Armed BY <2>1, <2>3 DEF Armed
      <3> QED BY <2>1, <2>3, <3>2, <3>3
              DEF ContractStep, Contract!Next, Contract!Withdraw, Underrun
    <2>4. CASE ppc' = AfterPut /\ UNCHANGED stream_state
      <3>1. ppc' # "put" BY <2>4 DEF AfterPut
      <3> QED BY <2>1, <2>4, <3>1, ArmedKept
    <2> QED BY <1>3, <2>2, <2>3, <2>4 DEF Decide
  <1>4. ASSUME PutCommand PROVE ContractStep
    <2>1. UNCHANGED <<stream_state, ipc, drv>> /\ ppc = "put" /\ ppc' # "put"
      BY <1>4 DEF PutCommand, AfterPut
    <2>2. Armed' <=> Armed
      <3>1. CASE stream_state = "PLAYING"
        BY <1>4, <2>1, <3>1 DEF PutCommand, Armed
      <3>2. CASE stream_state # "PLAYING"
        <4>1. i2s_cmdq # <<"ACTIVATE">> /\ i2s_cmdq' # <<"ACTIVATE">>
          BY <1>4, <3>2 DEF PutCommand, PathInv, QueueInv
        <4> QED BY <2>1, <3>2, <4>1 DEF Armed
      <3> QED BY <3>1, <3>2
    <2>3. UNCHANGED <<stream_state = "PLAYING", Armed, drv = "run">> BY <2>1, <2>2
    <2> QED BY <2>3 DEF ContractStep, Contract!vars
  <1> QED BY <1>1, <1>2, <1>3, <1>4 DEF PathThread, PathStep

\* The I2S thread, the path thread, the queue and the driver implement
\* PlaybackContract: each activation starts the stream at most once, and an
\* activation is withdrawn only in silence (i2s.c:206-268, path_headset.c:79-99).
THEOREM PathImplementsContract == Spec => ImplementsContract
  <1>1. Init => Contract!Init
    <2> SUFFICES ASSUME Init PROVE Contract!Init OBVIOUS
    <2>1. i2s_cmdq # <<"ACTIVATE">> BY DEF Init
    <2> QED BY <2>1 DEF Init, Contract!Init, Armed
  <1>2. PathInv /\ [Next]_vars => [Contract!Next]_(Contract!vars)
    <2> SUFFICES ASSUME PathInv, [Next]_vars PROVE ContractStep BY DEF ContractStep
    <2>1. CASE UNCHANGED vars
      <3>1. UNCHANGED <<stream_state, i2s_cmdq, ppc, ipc, drv>> BY <2>1 DEF vars, i2s, path
      <3> QED BY <3>1, ArmedKept
    <2> QED BY <2>1, I2sContract, PathContract DEF Next
  <1> QED BY <1>1, <1>2, PathSafe, PTL DEF Spec, ImplementsContract, Contract!Spec
==============================================================================
