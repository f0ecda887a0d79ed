---------------------------- MODULE MainLoopProof ---------------------------
(***************************************************************************)
(* Proofs about module MainLoop, for every buffer size, memory layout and  *)
(* set of reply sizes, and whatever the other stations do.                 *)
(***************************************************************************)
EXTENDS MainLoop, TLAPS

\* Where a submit returns to: "helpwait" is remembered only between a line
\* of process_help and the end of the wait for it.
ReturnsWell ==
    /\ ret = "helpwait" => pc \in {"submit", "arm", "start", "helpwait"}
    /\ pc = "helpwait" => ret = "helpwait"

\* The inductive invariant.
IInv ==
    /\ TypeOK
    /\ BuffersApart
    /\ ReturnsWell
    /\ FrameKept
    /\ SilenceTimed
    /\ NoLostStart
    /\ FramesCounted

USE DEF Buffers

\* There are two receive buffers.
LEMMA OtherBuffer == ASSUME NEW b \in Buffers
                     PROVE  Other(b) \in Buffers /\ Other(b) # b
BY DEF Other

\* The types hold after reset.
LEMMA InitType == Init => TypeOK
<1>. SUFFICES ASSUME Init PROVE TypeOK
  OBVIOUS
<1>. USE SizesAssumption, EnvironmentAssumption, LoopAssumption DEF Init, SerialInit
<1>1. RxTypeOK
  BY DEF RxTypeOK, Overflow
<1>2. LineTypeOK
  <2>1. chars \in Nat
    OBVIOUS
  <2>2. serial_tx_len \in 0 .. TX_LEN
    OBVIOUS
  <2>. QED BY <2>1, <2>2 DEF LineTypeOK
<1>3. said \in Seq(0 .. BUFLEN_MOD - 1)
  OBVIOUS
<1>4. UartTypeOK
  <2>. 0 \in 0 .. BUFLEN_MOD - 1
    BY SizesAssumption
  <2>. QED BY <1>3 DEF UartTypeOK
<1>. QED BY <1>1, <1>2, <1>4 DEF TypeOK, SerialTypeOK

\* The invariant holds after reset.
LEMMA InitIInv == Init => IInv
<1>. SUFFICES ASSUME Init PROVE IInv
  OBVIOUS
<1>1. TypeOK
  BY InitType
<1>2. BuffersApart /\ ReturnsWell /\ FrameKept /\ SilenceTimed /\ NoLostStart
  BY NoneAssumption
  DEF Init, SerialInit, BuffersApart, ReturnsWell, FrameKept, SilenceTimed, NoLostStart,
      Holding
<1>3. FramesCounted
  BY DEF Init, SerialInit, FramesCounted
<1>. QED BY <1>1, <1>2, <1>3 DEF IInv

\* Counting a frame keeps the counters numbers.
LEMMA CountType == ASSUME RxTypeOK, NEW c \in {"good", "flip_timeout", "too_long_rx", "too_long_tx"},
                          Count(c)
                   PROVE  /\ counts' \in [{"good", "flip_timeout", "too_long_rx", "too_long_tx"} -> Nat]
                          /\ counts'.good + counts'.flip_timeout + counts'.too_long_rx
                             = counts.good + counts.flip_timeout + counts.too_long_rx
                               + (IF c = "too_long_tx" THEN 0 ELSE 1)
<1>. DEFINE C == {"good", "flip_timeout", "too_long_rx", "too_long_tx"}
<1>1. counts \in [C -> Nat] /\ counts' = [counts EXCEPT ![c] = counts[c] + 1]
  BY DEF RxTypeOK, Count
<1>2. \A d \in C : counts'[d] = IF d = c THEN counts[d] + 1 ELSE counts[d]
  BY <1>1
<1>3. \A d \in C : counts[d] \in Nat
  BY <1>1
<1>4. /\ counts'["good"] = IF "good" = c THEN counts["good"] + 1 ELSE counts["good"]
      /\ counts'["flip_timeout"]
           = IF "flip_timeout" = c THEN counts["flip_timeout"] + 1 ELSE counts["flip_timeout"]
      /\ counts'["too_long_rx"]
           = IF "too_long_rx" = c THEN counts["too_long_rx"] + 1 ELSE counts["too_long_rx"]
  BY <1>2
<1>5. counts["good"] \in Nat /\ counts["flip_timeout"] \in Nat /\ counts["too_long_rx"] \in Nat
  BY <1>3
<1>6. c \in C /\ counts[c] + 1 \in Nat
  BY <1>3
<1>. HIDE DEF C
<1>7. counts' \in [C -> Nat]
  BY <1>1, <1>6
<1>8. counts'["good"] + counts'["flip_timeout"] + counts'["too_long_rx"]
        = counts["good"] + counts["flip_timeout"] + counts["too_long_rx"]
          + (IF c = "too_long_tx" THEN 0 ELSE 1)
  BY <1>4, <1>5
<1>. QED BY <1>7, <1>8 DEF C

\* The receive buffers, and storing one character.
Memory == [Buffers -> [0 .. RX_LEN - 1 -> Char \cup {NUL}]]

\* Storing a character keeps memory well-formed.
LEMMA WriteCell == ASSUME NEW m \in Memory, NEW b \in Buffers, NEW i \in 0 .. RX_LEN - 1,
                          NEW c \in Char \cup {NUL}
                   PROVE  [m EXCEPT ![b][i] = c] \in Memory
BY DEF Memory

\* Storing the NUL keeps memory well-formed.
LEMMA TerminateType == ASSUME RxTypeOK, serial_rx_front # None, Terminate
                       PROVE  serial_rx' \in Memory
<1>. DEFINE b == serial_rx_front
            n == serial_rx_front_len
<1>. serial_rx \in Memory
  BY DEF RxTypeOK, Memory
<1>1. CASE n < RX_LEN
  <2>1. n \in 0 .. RX_LEN - 1 /\ b \in Buffers
    BY <1>1, SizesAssumption DEF RxTypeOK, Overflow
  <2>2. serial_rx' = [serial_rx EXCEPT ![b][n] = NUL]
    BY <1>1 DEF Terminate
  <2>. HIDE DEF b, n
  <2>. QED BY <2>1, <2>2, WriteCell
<1>2. CASE n = RX_LEN /\ After[b] # None
  <2>1. After[b] \in Buffers /\ 0 \in 0 .. RX_LEN - 1
    BY <1>2, SizesAssumption, LayoutAssumption DEF RxTypeOK
  <2>2. serial_rx' = [serial_rx EXCEPT ![After[b]][0] = NUL]
    BY <1>2, SizesAssumption DEF Terminate
  <2>. HIDE DEF b, n
  <2>. QED BY <2>1, <2>2, WriteCell
<1>3. CASE ~(n < RX_LEN) /\ ~(n = RX_LEN /\ After[b] # None)
  BY <1>3 DEF Terminate
<1>. QED BY <1>1, <1>2, <1>3

\* serial_tx_i stays in its width.
LEMMA NextIndex == ASSUME NEW i \in Nat PROVE (i + 1) % BUFLEN_MOD \in 0 .. BUFLEN_MOD - 1
<1>1. BUFLEN_MOD \in Nat /\ BUFLEN_MOD > 0
  BY SizesAssumption
<1>2. \A k \in Nat, m \in Nat : m > 0 => k % m \in 0 .. m - 1
  OBVIOUS
<1>. QED BY <1>1, <1>2

-----------------------------------------------------------------------------
(* Every step keeps the types.                                             *)

\* Steps that change nothing keep the types.
LEMMA Unchanged == ASSUME TypeOK
                   PROVE  /\ UNCHANGED rxVars => RxTypeOK'
                          /\ UNCHANGED <<rx_state, tx_state, serial_tx_len, timer, chars>>
                               => LineTypeOK'
                          /\ UNCHANGED uartVars => UartTypeOK'
<1>. USE DEF TypeOK, SerialTypeOK
<1>1. UNCHANGED rxVars => RxTypeOK'
  BY DEF rxVars, RxTypeOK, Overflow
<1>2. UNCHANGED <<rx_state, tx_state, serial_tx_len, timer, chars>> => LineTypeOK'
  BY DEF LineTypeOK
<1>3. UNCHANGED uartVars => UartTypeOK'
  BY DEF uartVars, UartTypeOK
<1>. QED BY <1>1, <1>2, <1>3

\* transmit_now keeps the types.
LEMMA transmit_now_Type == ASSUME TypeOK, transmit_now PROVE UartTypeOK'
BY DEF TypeOK, SerialTypeOK, UartTypeOK, transmit_now

\* A frame ends: into the front buffer, or overboard.
LEMMA EndOfFrame ==
    ASSUME RxTypeOK, BuffersApart, FramesCounted, end_of_frame
    PROVE  /\ RxTypeOK' /\ BuffersApart' /\ FramesCounted'
           /\ serial_rx_i' = 0
           /\ serial_rx_front' # None
<1>1. serial_rx_i' = 0 /\ UNCHANGED serial_rx /\ frames' = frames + 1
  BY DEF end_of_frame
<1>2. PICK c \in {"good", "flip_timeout", "too_long_rx"} : Count(c)
  BY DEF end_of_frame
<1>3. /\ counts' \in [{"good", "flip_timeout", "too_long_rx", "too_long_tx"} -> Nat]
      /\ counts'.good + counts'.flip_timeout + counts'.too_long_rx
           = counts.good + counts.flip_timeout + counts.too_long_rx + 1
  BY <1>2, CountType
<1>4. /\ serial_rx_front' \in Buffers /\ serial_rx_back' \in Buffers
      /\ serial_rx_front' # serial_rx_back'
      /\ serial_rx_front_len' \in {serial_rx_front_len, serial_rx_i}
  BY OtherBuffer DEF end_of_frame, BuffersApart, RxTypeOK
<1>5. RxTypeOK'
  BY <1>1, <1>3, <1>4, SizesAssumption DEF RxTypeOK, Overflow
<1>6. FramesCounted'
  BY <1>1, <1>3 DEF FramesCounted
<1>. QED BY <1>1, <1>4, <1>5, <1>6, NoneAssumption DEF BuffersApart

\* What only the loop's position, the timer and the transmitter decide.
Shape == ReturnsWell /\ FrameKept /\ SilenceTimed /\ NoLostStart

\* The silence timer's interrupt keeps the invariant (serial.c:140-155).
LEMMA CompBStep == IInv /\ Step(TIMER2_COMPB_vect) => IInv'
<1>. SUFFICES ASSUME IInv, Step(TIMER2_COMPB_vect) PROVE IInv'
  OBVIOUS
<1>. USE DEF Step, TIMER2_COMPB_vect, IInv, TypeOK, SerialTypeOK
<1>1. CASE Phase1
  <2>1. /\ end_of_frame /\ rx_state' = "rx_end" /\ timer' = "on" /\ UNCHANGED uartVars
        /\ UNCHANGED <<tx_state, serial_tx_len, chars, pc, ret, lines>>
    BY <1>1 DEF Phase1
  <2>2. RxTypeOK' /\ BuffersApart' /\ FramesCounted' /\ serial_rx_i' = 0 /\ serial_rx_front' # None
    BY <2>1, EndOfFrame
  <2>3. LineTypeOK'
    BY <2>1 DEF LineTypeOK
  <2>4. Shape'
    BY <2>1, <2>2 DEF Shape, ReturnsWell, FrameKept, SilenceTimed, NoLostStart
  <2>. QED BY <2>1, <2>2, <2>3, <2>4, Unchanged DEF Shape
<1>2. CASE Phase2
  <2>1. /\ rx_state # "rx_active" /\ rx_state' = "rx_tx_ready" /\ timer' = "off"
        /\ UNCHANGED <<rxVars, tx_state, serial_tx_len, chars, pc, ret, lines>>
        /\ IF tx_state THEN transmit_now ELSE UNCHANGED uartVars
    BY <1>2 DEF Phase2
  <2>2. UartTypeOK'
    BY <2>1, Unchanged, transmit_now_Type
  <2>3. LineTypeOK'
    BY <2>1 DEF LineTypeOK
  <2>4. Shape'
    BY <2>1
    DEF Shape, ReturnsWell, FrameKept, Holding, SilenceTimed, NoLostStart, rxVars, transmit_now
  <2>5. BuffersApart' /\ FramesCounted'
    BY <2>1 DEF BuffersApart, FramesCounted, rxVars
  <2>. QED BY <2>1, <2>2, <2>3, <2>4, <2>5, Unchanged DEF Shape
<1>. QED BY <1>1, <1>2

\* A received character keeps the invariant (serial.c:275-299).
LEMMA ReceiveStep == IInv /\ Step(Hear) => IInv'
<1>. SUFFICES ASSUME IInv, NEW c \in Char, USART_RX_vect(c), UNCHANGED <<pc, ret, lines>>
              PROVE  IInv'
  BY DEF Step, Hear
<1>. USE DEF IInv, TypeOK, SerialTypeOK
<1>1. /\ chars > 0 /\ chars' = chars - 1 /\ timer' = "on" /\ rx_state' = "rx_active"
      /\ UNCHANGED <<serial_rx_back, serial_rx_front, serial_rx_front_len, counts, frames,
                     tx_state, serial_tx_len, uartVars>>
  BY DEF USART_RX_vect
<1>2. serial_rx_i' \in 1 .. RX_LEN \cup {Overflow} /\ serial_rx' \in Memory
  <2>. serial_rx \in Memory
    BY DEF RxTypeOK, Memory
  <2>1. CASE serial_rx_i >= RX_LEN
    BY <2>1, SizesAssumption DEF USART_RX_vect, RxTypeOK
  <2>2. CASE serial_rx_i < RX_LEN
    <3>1. serial_rx_i \in 0 .. RX_LEN - 1 /\ serial_rx_back \in Buffers
      BY <2>2, SizesAssumption DEF RxTypeOK, Overflow
    <3>2. /\ serial_rx' = [serial_rx EXCEPT ![serial_rx_back][serial_rx_i] = c]
          /\ serial_rx_i' = serial_rx_i + 1
      BY <2>2, <3>1, SizesAssumption DEF USART_RX_vect
    <3>3. serial_rx' \in Memory
      BY <3>1, <3>2, WriteCell
    <3>. QED BY <3>1, <3>2, <3>3, SizesAssumption
  <2>. QED BY <2>1, <2>2, SizesAssumption DEF RxTypeOK, Overflow
<1>3. serial_rx_i' > 0
  BY <1>2, SizesAssumption DEF Overflow
<1>4. RxTypeOK'
  BY <1>1, <1>2 DEF RxTypeOK, Memory, Overflow
<1>5. LineTypeOK'
  BY <1>1 DEF LineTypeOK
<1>6. Shape'
  BY <1>1, <1>3 DEF Shape, ReturnsWell, FrameKept, Holding, SilenceTimed, NoLostStart
<1>7. BuffersApart' /\ FramesCounted'
  BY <1>1 DEF BuffersApart, FramesCounted
<1>. QED BY <1>1, <1>4, <1>5, <1>6, <1>7, Unchanged DEF Shape

\* The transmitter's interrupts keep the invariant (serial.c:241-273).
LEMMA UartStep ==
    IInv /\ Step(USART_UDRE_vect \/ USART_TX_vect \/ Elapse \/ Shift) => IInv'
<1>. SUFFICES ASSUME IInv, Step(USART_UDRE_vect \/ USART_TX_vect \/ Elapse \/ Shift)
              PROVE  IInv'
  OBVIOUS
<1>. USE DEF Step, IInv, TypeOK, SerialTypeOK
<1>1. UNCHANGED <<rxVars, rx_state, serial_tx_len, chars, pc, ret, lines>>
  BY DEF USART_UDRE_vect, USART_TX_vect, Elapse, TimerMatch, Shift, ShiftDone
<1>2. RxTypeOK' /\ BuffersApart' /\ FramesCounted'
  BY <1>1, Unchanged DEF BuffersApart, FramesCounted, rxVars
<1>3. ReturnsWell' /\ FrameKept'
  BY <1>1 DEF ReturnsWell, FrameKept, Holding, rxVars
<1>4. CASE USART_UDRE_vect
  <2>1. LineTypeOK'
    BY <1>1, <1>4, Unchanged DEF USART_UDRE_vect
  <2>2. serial_tx_i \in Nat /\ serial_tx_i' \in 0 .. BUFLEN_MOD - 1
    BY <1>4, NextIndex DEF USART_UDRE_vect, UartTypeOK
  <2>3. UartTypeOK'
    BY <1>4, <2>2 DEF USART_UDRE_vect, UartTypeOK
  <2>4. SilenceTimed' /\ NoLostStart'
    BY <1>1, <1>4, <2>2, NoneAssumption
    DEF USART_UDRE_vect, UartTypeOK, SilenceTimed, NoLostStart, rxVars
  <2>. QED BY <1>2, <1>3, <1>1, <2>1, <2>3, <2>4
<1>5. CASE USART_TX_vect
  <2>1. LineTypeOK'
    BY <1>5 DEF USART_TX_vect, LineTypeOK
  <2>2. 0 \in 0 .. BUFLEN_MOD - 1
    BY SizesAssumption
  <2>3. UartTypeOK'
    BY <1>5, <2>2 DEF USART_TX_vect, UartTypeOK
  <2>4. SilenceTimed' /\ NoLostStart'
    BY <1>1, <1>5 DEF USART_TX_vect, SilenceTimed, NoLostStart, rxVars
  <2>. QED BY <1>2, <1>3, <1>1, <2>1, <2>3, <2>4
<1>6. CASE Elapse
  <2>1. LineTypeOK'
    BY <1>6, <1>1 DEF Elapse, TimerMatch, LineTypeOK
  <2>2. UartTypeOK'
    BY <1>6, Unchanged DEF Elapse, TimerMatch
  <2>3. SilenceTimed' /\ NoLostStart'
    BY <1>1, <1>6 DEF Elapse, TimerMatch, SilenceTimed, NoLostStart, rxVars, uartVars
  <2>. QED BY <1>2, <1>3, <1>1, <2>1, <2>2, <2>3
<1>7. CASE Shift
  <2>1. LineTypeOK'
    BY <1>7, Unchanged DEF Shift, ShiftDone
  <2>2. said' \in Seq(0 .. BUFLEN_MOD - 1)
    BY <1>7 DEF Shift, ShiftDone, UartTypeOK
  <2>3. UartTypeOK'
    BY <1>7, <2>2 DEF Shift, ShiftDone, UartTypeOK
  <2>4. SilenceTimed' /\ NoLostStart'
    BY <1>1, <1>7 DEF Shift, ShiftDone, SilenceTimed, NoLostStart, rxVars
  <2>. QED BY <1>2, <1>3, <1>1, <2>1, <2>3, <2>4
<1>. QED BY <1>4, <1>5, <1>6, <1>7

\* The main loop keeps the invariant (main.c:65-109).
LEMMA MainStep == IInv /\ Main => IInv'
<1>. SUFFICES ASSUME IInv, Main PROVE IInv'
  OBVIOUS
<1>. USE DEF IInv, TypeOK, SerialTypeOK
<1>1. CASE Sleep
  BY <1>1, Unchanged
  DEF Sleep, vars, serialVars, rxVars, uartVars, BuffersApart, ReturnsWell, FrameKept,
      Holding, SilenceTimed, NoLostStart, FramesCounted
<1>2. CASE Poll
  <2>1. /\ serial_rx_front # None /\ ~tx_state /\ pc = "idle" /\ Terminate
        /\ pc' \in {"ascii", "modbus", "overlong", "skip"}
        /\ UNCHANGED <<serial_rx_back, serial_rx_front, serial_rx_front_len, serial_rx_i,
                       counts, frames, rx_state, tx_state, serial_tx_len, timer, uartVars,
                       chars, ret, lines>>
    BY <1>2 DEF Poll, Route
  <2>2. RxTypeOK'
    BY <2>1, TerminateType DEF RxTypeOK, Memory, Overflow
  <2>3. Shape' /\ BuffersApart' /\ FramesCounted'
    BY <2>1
    DEF Shape, ReturnsWell, FrameKept, SilenceTimed, NoLostStart, BuffersApart, FramesCounted
  <2>. QED BY <2>1, <2>2, <2>3, Unchanged DEF Shape
<1>3. CASE \E i \in 0 .. RX_LEN - 1 : Tokenise(i)
  <2>. PICK i \in 0 .. RX_LEN - 1 : Tokenise(i)
    BY <1>3
  <2>1. /\ pc = "ascii"
        /\ serial_rx' = [serial_rx EXCEPT ![serial_rx_front][i] = NUL]
        /\ UNCHANGED <<serial_rx_back, serial_rx_front, serial_rx_front_len, serial_rx_i,
                       counts, frames, rx_state, tx_state, serial_tx_len, timer, uartVars,
                       chars, pc, ret, lines>>
    BY DEF Tokenise
  <2>2. serial_rx_front \in Buffers
    BY <2>1 DEF FrameKept, Holding, RxTypeOK
  <2>3. serial_rx' \in Memory
    BY <2>1, <2>2, WriteCell DEF RxTypeOK, Memory
  <2>4. RxTypeOK'
    BY <2>1, <2>3 DEF RxTypeOK, Memory, Overflow
  <2>5. Shape' /\ BuffersApart' /\ FramesCounted'
    BY <2>1
    DEF Shape, ReturnsWell, FrameKept, Holding, SilenceTimed, NoLostStart, BuffersApart,
        FramesCounted, uartVars
  <2>. QED BY <2>1, <2>4, <2>5, Unchanged DEF Shape
<1>4. CASE WriteLed
  <2>1. UartTypeOK'
    BY <1>4 DEF WriteLed, UartTypeOK
  <2>2. Shape' /\ BuffersApart' /\ FramesCounted'
    BY <1>4
    DEF WriteLed, Shape, ReturnsWell, FrameKept, Holding, SilenceTimed, NoLostStart,
        BuffersApart, FramesCounted, rxVars
  <2>3. UNCHANGED <<rxVars, rx_state, tx_state, serial_tx_len, timer, chars, pc, ret, lines>>
    BY <1>4 DEF WriteLed
  <2>. QED BY <2>1, <2>2, <2>3, Unchanged DEF Shape
<1>5. CASE HelpLine \/ HelpWait \/ Arm
  <2>1. UNCHANGED serialVars /\ lines' \in Nat
    BY <1>5 DEF HelpLine, HelpWait, Arm
  <2>2. Shape'
    BY <1>5, <2>1
    DEF HelpLine, HelpWait, Arm, Shape, ReturnsWell, FrameKept, Holding, SilenceTimed,
        NoLostStart, serialVars, rxVars, uartVars
  <2>3. BuffersApart' /\ FramesCounted' /\ RxTypeOK' /\ LineTypeOK' /\ UartTypeOK'
    BY <2>1, Unchanged DEF BuffersApart, FramesCounted, serialVars, rxVars
  <2>4. (/\ pc \in {"idle", "ascii", "modbus", "overlong", "skip", "submit", "arm",
                    "start", "helpwait"}
         /\ ret \in {"idle", "helpwait"})'
    BY <1>5 DEF HelpLine, HelpWait, Arm
  <2>. QED BY <2>1, <2>2, <2>3, <2>4 DEF Shape
<1>6. CASE Free
  <2>1. /\ pc \in {"ascii", "modbus", "overlong", "skip"}
        /\ serial_rx_front' = None
        /\ pc' \in {"idle", "submit"}
        /\ UNCHANGED <<serial_rx, serial_rx_back, serial_rx_front_len, serial_rx_i, counts,
                       frames, rx_state, tx_state, serial_tx_len, timer, uartVars, chars,
                       ret, lines>>
    BY <1>6 DEF Free, serial_free_message
  <2>2. RxTypeOK'
    BY <2>1 DEF RxTypeOK, Overflow
  <2>3. Shape' /\ BuffersApart' /\ FramesCounted'
    BY <2>1, NoneAssumption
    DEF Shape, ReturnsWell, FrameKept, Holding, SilenceTimed, NoLostStart, BuffersApart,
        FramesCounted, uartVars, RxTypeOK
  <2>. QED BY <2>1, <2>2, <2>3, Unchanged DEF Shape
<1>7. CASE \E n \in Replies : serial_tx_bin(n)
  <2>. PICK n \in Replies : serial_tx_bin(n)
    BY <1>7
  <2>1. /\ pc = "submit"
        /\ UNCHANGED <<serial_rx, serial_rx_back, serial_rx_front, serial_rx_front_len,
                       serial_rx_i, frames, rx_state, timer, serial_tx_i, UDRIE, TX_EN, udr,
                       shift, txc, led_flipped, chars, ret, lines>>
    BY DEF serial_tx_bin
  <2>2. \/ Count("too_long_tx") /\ pc' = ret /\ UNCHANGED <<tx_state, serial_tx_len, said>>
        \/ pc' = ret /\ UNCHANGED <<tx_state, serial_tx_len, said, counts>>
        \/ /\ n \in 1 .. TX_LEN /\ serial_tx_len' = n /\ tx_state' = TRUE /\ said' = << >>
           /\ pc' = "arm" /\ UNCHANGED counts
    BY DEF serial_tx_bin
  <2>3. /\ counts' \in [{"good", "flip_timeout", "too_long_rx", "too_long_tx"} -> Nat]
        /\ counts'.good + counts'.flip_timeout + counts'.too_long_rx
             = counts.good + counts.flip_timeout + counts.too_long_rx
    <3>1. CASE Count("too_long_tx")
      BY <3>1, CountType DEF RxTypeOK
    <3>2. CASE UNCHANGED counts
      BY <3>2 DEF RxTypeOK
    <3>. QED BY <2>2, <3>1, <3>2
  <2>4. RxTypeOK' /\ FramesCounted' /\ BuffersApart'
    BY <2>1, <2>3 DEF RxTypeOK, FramesCounted, BuffersApart, Overflow
  <2>5. LineTypeOK'
    <3>1. tx_state' \in BOOLEAN
      BY <2>2 DEF LineTypeOK
    <3>2. serial_tx_len' \in 0 .. TX_LEN
      BY <2>2 DEF LineTypeOK
    <3>. QED BY <2>1, <3>1, <3>2 DEF LineTypeOK
  <2>6. said' \in Seq(0 .. BUFLEN_MOD - 1)
    <3>1. said' = said \/ said' = << >>
      BY <2>2
    <3>2. said \in Seq(0 .. BUFLEN_MOD - 1) /\ << >> \in Seq(0 .. BUFLEN_MOD - 1)
      BY DEF UartTypeOK
    <3>. QED BY ONLY <3>1, <3>2
  <2>7. UartTypeOK'
    BY <2>1, <2>6 DEF UartTypeOK
  <2>8. Shape'
    BY <2>1, <2>2 DEF Shape, ReturnsWell, FrameKept, Holding, SilenceTimed, NoLostStart
  <2>9. pc' \in {"idle", "helpwait", "arm"}
    BY <2>2
  <2>. QED BY <2>1, <2>4, <2>5, <2>7, <2>8, <2>9 DEF Shape
<1>8. CASE Start
  <2>1. /\ pc = "start" /\ pc' = ret /\ transmit_now
        /\ UNCHANGED <<rxVars, rx_state, tx_state, serial_tx_len, timer, chars, ret, lines>>
    BY <1>8 DEF Start
  <2>2. Shape' /\ BuffersApart' /\ FramesCounted'
    BY <2>1
    DEF Shape, ReturnsWell, FrameKept, Holding, SilenceTimed, NoLostStart, BuffersApart,
        FramesCounted, rxVars, transmit_now
  <2>. QED BY <2>1, <2>2, Unchanged, transmit_now_Type DEF Shape
<1>. QED BY <1>1, <1>2, <1>3, <1>4, <1>5, <1>6, <1>7, <1>8 DEF Main

\* Every step keeps the invariant.
LEMMA NextIInv == IInv /\ [Next]_vars => IInv'
<1>. SUFFICES ASSUME IInv, [Next]_vars PROVE IInv'
  OBVIOUS
<1>1. CASE Main
  BY <1>1, MainStep
<1>2. CASE UNCHANGED vars
  BY <1>2, Unchanged
  DEF vars, serialVars, rxVars, uartVars, IInv, TypeOK, SerialTypeOK, BuffersApart,
      ReturnsWell, FrameKept, Holding, SilenceTimed, NoLostStart, FramesCounted
<1>3. CASE Step(Interrupts \/ Hear \/ Elapse \/ Shift)
  BY <1>3, CompBStep, ReceiveStep, UartStep DEF Step, Interrupts
<1>. QED BY <1>1, <1>2, <1>3 DEF Next, Step

\* Types, and the inductive invariant itself, hold of every behaviour.
THEOREM Invariance == Spec => []IInv
BY InitIInv, NextIInv, PTL DEF Spec

\* The types hold for every buffer size, layout and reply size.
THEOREM TypeCorrect == Spec => []TypeOK
BY Invariance, PTL DEF IInv

\* A reply requested by the main loop is never forgotten by the interrupt
\* handlers, whenever they come between the steps of serial_tx_bin.
THEOREM NoReplyForgotten == Spec => []NoLostStart
BY Invariance, PTL DEF IInv

\* The frame the main loop works on stays (serial.c:161-168, main.c:94-102).
THEOREM FrameSafe == Spec => []FrameKept
BY Invariance, PTL DEF IInv

\* The half of the double buffer that reception fills is not the one that was
\* delivered (serial.c:180-185).
THEOREM BuffersStayApart == Spec => []BuffersApart
BY Invariance, PTL DEF IInv

\* A frame that is half received has a timer that will end it
\* (serial.c:141-190).
THEOREM SilencesTimed == Spec => []SilenceTimed
BY Invariance, PTL DEF IInv

\* Each frame that ends is counted once.
THEOREM EveryFrameCounted == Spec => []FramesCounted
BY Invariance, PTL DEF IInv

-----------------------------------------------------------------------------
\* The time between the test of rx_state and transmit_now is long enough for
\* one character, and a frame that begins there has its timer just started.
StartsTimed ==
    pc = "start" =>
        \/ rx_state = "rx_tx_ready"
        \/ rx_state = "rx_active" /\ serial_rx_i = 1 /\ timer = "on"

\* Every step keeps the start timed: its silence cannot elapse, and a second
\* character does not come.
LEMMA StartsTimedStep == IInv /\ StartsTimed /\ [Next]_vars => StartsTimed'
<1>. SUFFICES ASSUME IInv, StartsTimed, [Next]_vars, pc' = "start" PROVE StartsTimed'
  BY DEF StartsTimed
<1>1. CASE Arm
  BY <1>1 DEF Arm, serialVars, StartsTimed, IInv, TypeOK
<1>2. CASE Main /\ ~Arm
  <2>1. UNCHANGED <<pc, rx_state, serial_rx_i, timer>>
    BY <1>2 DEF Main, Sleep, Poll, Route, WriteLed, HelpLine, HelpWait, Free, Start, Tokenise,
       serial_tx_bin, vars, serialVars, rxVars, IInv, TypeOK
  <2>. QED BY <2>1 DEF StartsTimed
<1>3. CASE Step(Hear)
  <2>1. PICK c \in Char : USART_RX_vect(c) /\ rx_state # "rx_active" /\ pc = "start"
    BY <1>3 DEF Step, Hear
  <2>2. serial_rx_i = 0 /\ serial_rx_i < RX_LEN
    BY <2>1, LoopAssumption, SizesAssumption DEF IInv, SilenceTimed, TypeOK, SerialTypeOK, RxTypeOK, Overflow
  <2>3. serial_rx_i' = 1 /\ rx_state' = "rx_active" /\ timer' = "on"
    BY <2>1, <2>2, LoopAssumption, SizesAssumption DEF USART_RX_vect
  <2>. QED BY <2>3 DEF StartsTimed
<1>4. CASE Step(Interrupts \/ Elapse \/ Shift)
  <2>1. pc = "start" /\ ~Elapse /\ ~Shift
    BY <1>4 DEF Step, Elapse, Shift, Instant
  <2>2. ~TIMER2_COMPB_vect
    BY <2>1 DEF TIMER2_COMPB_vect, StartsTimed, IInv, SilenceTimed
  <2>3. UNCHANGED <<rx_state, serial_rx_i, timer>>
    BY <1>4, <2>1, <2>2 DEF Step, Interrupts, USART_UDRE_vect, USART_TX_vect, rxVars
  <2>. QED BY <2>1, <2>3, <1>4 DEF Step, StartsTimed
<1>5. CASE UNCHANGED vars
  BY <1>5 DEF vars, serialVars, rxVars, StartsTimed
<1>. QED BY <1>1, <1>2, <1>3, <1>4, <1>5 DEF Next, Step

\* The line is taken only when it is free, but for one case: its first
\* character since then has come after the test of rx_state.  Only that test
\* can be overtaken, by one character; the start from the timer's interrupt
\* cannot (serial.c:132-137, 150-154).
InterruptedOnce ==
    [][~TX_EN /\ TX_EN' =>
          \/ rx_state' = "rx_tx_ready"
          \/ pc = "start" /\ rx_state' = "rx_active" /\ serial_rx_i' = 1]_vars

\* A step that takes the line.
LEMMA TakesLine ==
    IInv /\ StartsTimed /\ [Next]_vars =>
        [~TX_EN /\ TX_EN' =>
            \/ rx_state' = "rx_tx_ready"
            \/ pc = "start" /\ rx_state' = "rx_active" /\ serial_rx_i' = 1]_vars
<1>. SUFFICES ASSUME IInv, StartsTimed, Next, ~TX_EN, TX_EN'
              PROVE  \/ rx_state' = "rx_tx_ready"
                     \/ pc = "start" /\ rx_state' = "rx_active" /\ serial_rx_i' = 1
  BY DEF vars, serialVars, uartVars
<1>1. CASE Start
  BY <1>1 DEF Start, rxVars, StartsTimed
<1>2. CASE Main /\ ~Start
  <2>1. TX_EN' = TX_EN
    BY <1>2 DEF Main, Sleep, Poll, WriteLed, HelpLine, HelpWait, Free, Arm, Tokenise,
       serial_tx_bin, vars, serialVars, uartVars
  <2>. QED BY <2>1
<1>3. CASE TIMER2_COMPB_vect
  BY <1>3 DEF TIMER2_COMPB_vect, Phase1, Phase2, uartVars
<1>4. CASE USART_UDRE_vect \/ USART_TX_vect \/ Hear \/ Elapse \/ Shift
  BY <1>4
  DEF USART_UDRE_vect, USART_TX_vect, Hear, USART_RX_vect, Elapse, TimerMatch, Shift,
      ShiftDone, uartVars
<1>. QED BY <1>1, <1>2, <1>3, <1>4 DEF Next, Interrupts

\* On any bus, polite or not, at most the first character of a frame is
\* talked over (serial.c:132-137).
THEOREM TalksOverOne == Spec => InterruptedOnce
<1>1. Init => StartsTimed
  BY DEF Init, StartsTimed
<1>. QED BY <1>1, StartsTimedStep, TakesLine, Invariance, PTL DEF Spec, InterruptedOnce

=============================================================================
