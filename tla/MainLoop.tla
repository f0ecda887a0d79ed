------------------------------ MODULE MainLoop ------------------------------
(***************************************************************************)
(* The loop of avr/src/main.c over the serial driver of module Serial:     *)
(* take a frame, let an interface handle it, free the frame, send the      *)
(* reply.  Interrupts come between any two steps of the loop.              *)
(***************************************************************************)
EXTENDS Serial

CONSTANTS
    Alpha,       \* the characters isalpha() accepts
    WITH_ASCII, WITH_MODBUS, \* the interfaces built in
    Replies,     \* sizes the interfaces ask to send, 0 for no reply
    MaxLines     \* bound: lines printed by "help" in all

ASSUME LoopAssumption ==
    /\ RX_LEN >= 2
    /\ Alpha \subseteq Char
    /\ WITH_ASCII \in BOOLEAN /\ WITH_MODBUS \in BOOLEAN
    /\ Replies \subseteq Nat /\ MaxLines \in Nat

VARIABLES
    pc,    \* where the main loop is
    ret,   \* where it goes on after a submit
    lines  \* lines "help" may still print

vars == <<serialVars, pc, ret, lines>>

(* pc: "idle" around sleep_mode; "ascii", "modbus", "overlong" and "skip"  *)
(* holding a frame, in one branch of loop(); "submit" before               *)
(* serial_tx_line or serial_tx_bin; "arm" between lines 136 and 137 of     *)
(* serial.c; "start" before transmit_now; "helpwait" in process_help.      *)
Holding == pc \in {"ascii", "modbus", "overlong", "skip"} \/ ret = "helpwait"

TypeOK ==
    /\ SerialTypeOK
    /\ pc \in {"idle", "ascii", "modbus", "overlong", "skip", "submit", "arm",
               "start", "helpwait"}
    /\ ret \in {"idle", "helpwait"}
    /\ lines \in Nat

Init == SerialInit /\ pc = "idle" /\ ret = "idle" /\ lines = MaxLines

-----------------------------------------------------------------------------
\* A frame is textual when its second character is a letter, which a Modbus
\* function code never is.
AsciiAllowed ==
    LET is_ascii == serial_rx_front_len >= 2 /\ serial_rx[serial_rx_front][1] \in Alpha
    IN  WITH_ASCII /\ (WITH_MODBUS => is_ascii)

Route ==
    IF serial_rx_front_len > RX_LEN THEN IF AsciiAllowed THEN "overlong" ELSE "skip"
    ELSE IF AsciiAllowed THEN "ascii"
    ELSE IF WITH_MODBUS THEN "modbus" ELSE "skip"

\* Variant: a frame is taken while a reply is pending.
Poll_Eager ==
    /\ pc = "idle"
    /\ serial_rx_front # None
    /\ Terminate
    /\ pc' = Route
    /\ UNCHANGED <<serial_rx_back, serial_rx_front, serial_rx_front_len, serial_rx_i,
                   counts, frames, rx_state, tx_state, serial_tx_len, timer, uartVars,
                   chars, ret, lines>>

\* The top of loop(), up to the choice of the interface.  While there is
\* nothing to do the processor sleeps; each ADC conversion wakes it.
Poll ==
    /\ pc = "idle"
    /\ ~tx_state
    /\ serial_rx_front # None
    /\ Terminate
    /\ pc' = Route
    /\ UNCHANGED <<serial_rx_back, serial_rx_front, serial_rx_front_len, serial_rx_i,
                   counts, frames, rx_state, tx_state, serial_tx_len, timer, uartVars,
                   chars, ret, lines>>

\* Nothing to do: an early return of loop(), and back to sleep.
Sleep ==
    /\ pc = "idle"
    /\ tx_state \/ serial_rx_front = None
    /\ UNCHANGED vars

\* The text interface cuts the line into words in place.
Tokenise(i) ==
    /\ pc = "ascii"
    /\ i < serial_rx_front_len
    /\ serial_rx[serial_rx_front][i] # NUL
    /\ serial_rx' = [serial_rx EXCEPT ![serial_rx_front][i] = NUL]
    /\ UNCHANGED <<serial_rx_back, serial_rx_front, serial_rx_front_len, serial_rx_i,
                   counts, frames, rx_state, tx_state, serial_tx_len, timer, uartVars,
                   chars, pc, ret, lines>>

\* Both interfaces can write the LED coil.
WriteLed ==
    /\ pc \in {"ascii", "modbus"}
    /\ led_flipped
    /\ led_flipped' = FALSE
    /\ UNCHANGED <<rxVars, rx_state, tx_state, serial_tx_len, timer, serial_tx_i,
                   UDRIE, TX_EN, udr, shift, txc, said, chars, pc, ret, lines>>

\* process_help sends its lines itself and spins until each is sent.
HelpLine ==
    /\ pc = "ascii" /\ lines > 0
    /\ lines' = lines - 1
    /\ pc' = "submit" /\ ret' = "helpwait"
    /\ UNCHANGED serialVars

HelpWait ==
    /\ pc = "helpwait" /\ ~tx_state
    /\ pc' = "ascii" /\ ret' = "idle"
    /\ UNCHANGED <<serialVars, lines>>

\* Variant: a frame that is too long is not freed.
Free_NotOverlong ==
    /\ pc \in {"ascii", "modbus", "overlong", "skip"}
    /\ serial_rx_front' = IF pc = "overlong" THEN serial_rx_front ELSE None
    /\ pc' = IF pc = "skip" THEN "idle" ELSE "submit"
    /\ UNCHANGED <<serial_rx, serial_rx_back, serial_rx_front_len, serial_rx_i, counts,
                   frames, rx_state, tx_state, serial_tx_len, timer, uartVars, chars,
                   ret, lines>>

\* The frame is freed before the reply is submitted.
Free ==
    /\ pc \in {"ascii", "modbus", "overlong", "skip"}
    /\ serial_free_message
    /\ pc' = IF pc = "skip" THEN "idle" ELSE "submit"
    /\ UNCHANGED <<serial_rx, serial_rx_back, serial_rx_front_len, serial_rx_i, counts,
                   frames, rx_state, tx_state, serial_tx_len, timer, uartVars, chars,
                   ret, lines>>

\* serial_tx_line and serial_tx_bin up to the request; n counts the newline.
serial_tx_bin(n) ==
    /\ pc = "submit"
    /\ \/ /\ n > TX_LEN
          /\ Count("too_long_tx")
          /\ pc' = ret
          /\ UNCHANGED <<tx_state, serial_tx_len, said>>
       \/ /\ n = 0
          /\ pc' = ret
          /\ UNCHANGED <<tx_state, serial_tx_len, said, counts>>
       \/ /\ n \in 1 .. TX_LEN
          /\ serial_tx_len' = n
          /\ tx_state' = TRUE
          /\ said' = << >>
          /\ pc' = "arm"
          /\ UNCHANGED counts
    /\ UNCHANGED <<serial_rx, serial_rx_back, serial_rx_front, serial_rx_front_len,
                   serial_rx_i, frames, rx_state, timer, serial_tx_i, UDRIE, TX_EN, udr,
                   shift, txc, led_flipped, chars, ret, lines>>

\* Variant: the first silence is taken for a free line.
Arm_AfterFirst ==
    /\ pc = "arm"
    /\ pc' = IF rx_state # "rx_active" THEN "start" ELSE ret
    /\ UNCHANGED <<serialVars, ret, lines>>

\* The test of rx_state; an interrupt may come before transmit_now is called.
Arm ==
    /\ pc = "arm"
    /\ pc' = IF rx_state = "rx_tx_ready" THEN "start" ELSE ret
    /\ UNCHANGED <<serialVars, ret, lines>>

Start ==
    /\ pc = "start"
    /\ transmit_now
    /\ pc' = ret
    /\ UNCHANGED <<rxVars, rx_state, tx_state, serial_tx_len, timer, chars, ret, lines>>

-----------------------------------------------------------------------------
(* The few instructions at "arm" and "start" are shorter than a silence or *)
(* a byte on the wire: no silence elapses and no byte is sent meanwhile,   *)
(* and at most one character arrives.                                      *)
Instant == pc \in {"arm", "start"}

Main ==
    \/ Sleep \/ Poll \/ WriteLed \/ HelpLine \/ HelpWait \/ Free \/ Arm \/ Start
    \/ \E i \in 0 .. RX_LEN - 1 : Tokenise(i)
    \/ \E n \in Replies : serial_tx_bin(n)

Interrupts == TIMER2_COMPB_vect \/ USART_UDRE_vect \/ USART_TX_vect

Hear == \E c \in Char : (pc = "start" => rx_state # "rx_active") /\ USART_RX_vect(c)
Elapse == ~Instant /\ TimerMatch
Shift == ~Instant /\ ShiftDone

Next ==
    \/ Main
    \/ (Interrupts \/ Hear \/ Elapse \/ Shift) /\ UNCHANGED <<pc, ret, lines>>

Spec == Init /\ [][Next]_vars

Step(A) == A /\ UNCHANGED <<pc, ret, lines>>

(* The processor runs, its interrupt sources are served, the timer and the *)
(* UART run by themselves.  Nothing makes the other stations speak.        *)
Fairness ==
    /\ WF_vars(Main)
    /\ WF_vars(Step(TIMER2_COMPB_vect))
    /\ WF_vars(Step(USART_UDRE_vect))
    /\ WF_vars(Step(USART_TX_vect))
    /\ WF_vars(Step(Elapse))
    /\ WF_vars(Step(Shift))

FairSpec == Spec /\ Fairness

-----------------------------------------------------------------------------
(* Properties of the composition.                                          *)

\* The two halves of the double buffer never meet: reception fills one
\* buffer while the main loop reads the other (serial.c:180-185).
BuffersApart == serial_rx_front # serial_rx_back

\* While the main loop works on a frame, the frame is still there: no
\* interrupt frees or replaces it (serial.c:161-168, main.c:94-102).
FrameKept == Holding => serial_rx_front # None

\* A half-received frame always has a running timer that will end it, and
\* no character is left over from a frame that ended (serial.c:141-190).
SilenceTimed ==
    /\ (timer = "off") = (rx_state = "rx_tx_ready")
    /\ (rx_state = "rx_active") = (serial_rx_i > 0)

\* A requested reply is never forgotten: somebody is still going to start
\* it, or it is on its way out (serial.c:132-137, 150-154).
NoLostStart ==
    tx_state =>
        \/ pc \in {"arm", "start"} \/ timer # "off"
        \/ UDRIE \/ udr # None \/ shift # None \/ txc

\* Every frame that ended is counted exactly once (serial.c:158-175).
FramesCounted ==
    frames = counts.good + counts.flip_timeout + counts.too_long_rx

\* A reply is composed in serial_tx only while the transmitter reads
\* nothing from it (main.c:66-68, serial.c:260-262).
ReplyOwned ==
    pc \in {"ascii", "modbus", "overlong", "submit"} =>
        ~tx_state /\ ~UDRIE /\ udr = None /\ shift = None

\* Bytes leave only while the transceiver drives the line, and the line is
\* released when no reply is pending (serial.c:192-204, 244-257).
LineDriven ==
    /\ shift # None => TX_EN
    /\ TX_EN => tx_state

\* The line is taken only when it has been silent for two timeouts
\* (serial.c:132-135).
ListenFirst == [][~TX_EN /\ TX_EN' => rx_state' = "rx_tx_ready"]_vars

\* What reception promises, by the text of the buffers (module Inbox).
Least(x, y) == IF x < y THEN x ELSE y
Text(b, n) == [i \in 1 .. Least(n, RX_LEN) |-> serial_rx[b][i - 1]]
hearing == Text(serial_rx_back, serial_rx_i)
over == serial_rx_i > RX_LEN
inbox ==
    IF serial_rx_front = None THEN << >>
    ELSE <<[text |-> Text(serial_rx_front, serial_rx_front_len),
            over |-> serial_rx_front_len > RX_LEN,
            held |-> Holding]>>
Received == INSTANCE Inbox WITH Size <- RX_LEN, Spill <- \E b \in Buffers : After[b] # None
ImplementsInbox == Received!Spec

\* The same, without allowance for the NUL a full frame puts behind its buffer.
Intact == INSTANCE Inbox WITH Size <- RX_LEN, Spill <- FALSE
FramesIntact == Intact!Spec

\* What transmission promises (module Outbox).
phase == IF ~tx_state THEN "none" ELSE IF TX_EN THEN "speaking" ELSE "queued"
Sent == INSTANCE Outbox WITH MaxSize <- TX_LEN, size <- serial_tx_len
ImplementsOutbox == Sent!Spec

\* Every requested reply is over some time (serial.c:135: "interrupt
\* TIMER2_COMPB_vect will call transmit_now() later").
ReplySent == tx_state ~> ~tx_state

\* Every frame is answered or thrown away: the buffer gets free again.
FrameFreed == serial_rx_front # None ~> serial_rx_front = None

\* Once nobody speaks the line is found free.
LineFound == rx_state # "rx_tx_ready" ~> rx_state = "rx_tx_ready"
=============================================================================
