------------------------------- MODULE Serial -------------------------------
(***************************************************************************)
(* The RS-485 driver of the controller, avr/src/serial.c, with the part of *)
(* TIMER2 it uses (clock_arm_timer) and the UART it drives.                *)
(*                                                                         *)
(* A frame is received into the back buffer by USART_RX_vect; a first      *)
(* silence of the line ends it and flips the buffers, a second one makes   *)
(* the line free.  A reply is sent by USART_UDRE_vect and ended by         *)
(* USART_TX_vect.  Interrupt handlers run with interrupts disabled, so     *)
(* each is one action; what the main loop does between two of them is in   *)
(* module MainLoop.                                                        *)
(***************************************************************************)
EXTENDS Integers, Sequences

CONSTANTS
    RX_LEN,      \* SERIAL_RX_LEN, size of each receive buffer
    TX_LEN,      \* SERIAL_TX_LEN, size of the transmit buffer
    BUFLEN_MOD,  \* 2^8, the range of buflen_t
    Char,        \* what a received character can be
    NUL,         \* the string terminator
    None,        \* the NULL pointer, an empty hardware register
    After,       \* memory layout: the buffer right after a buffer, or None
    Polite,      \* nobody starts a frame while a reply is pending
    MaxChars     \* bound: characters other stations send

Buffers == {"a", "b"}

ASSUME SizesAssumption ==
    /\ RX_LEN \in Nat \ {0} /\ TX_LEN \in Nat \ {0} /\ BUFLEN_MOD \in Nat
    /\ RX_LEN < BUFLEN_MOD - 1
    /\ TX_LEN < BUFLEN_MOD
ASSUME NoneAssumption == None \notin Nat /\ None \notin Buffers
ASSUME NulAssumption == NUL \notin Char
ASSUME LayoutAssumption ==
    /\ After \in [Buffers -> Buffers \cup {None}]
    /\ \A b \in Buffers : After[b] # b
ASSUME EnvironmentAssumption == Polite \in BOOLEAN /\ MaxChars \in Nat

VARIABLES
    serial_rx,           \* contents of serial_rx_a and serial_rx_b
    serial_rx_back,      \* the buffer being filled
    serial_rx_front,     \* the buffer with a frame not yet freed, or None
    serial_rx_front_len, \* its length
    serial_rx_i,         \* receive position, Overflow after too many characters
    rx_state,            \* "rx_active", "rx_end" or "rx_tx_ready"
    tx_state,            \* is tx start requested
    serial_tx_len,       \* number of bytes to send
    serial_tx_i,         \* send position
    counts,              \* the error counters
    timer,               \* compare match B: "off", armed ("on") or matched ("due")
    UDRIE,               \* is USART_UDRE_vect enabled
    TX_EN,               \* direction of the transceiver: driving the line
    udr, shift,          \* UART data and shift registers: index of a byte, or None
    txc,                 \* UART transmit complete flag
    led_flipped,         \* has the indicator turned the LED away from its coil
    said,                \* history: indices of the bytes sent since the last submit
    frames,              \* history: number of frames that ended
    chars                \* characters the other stations may still send

rxVars == <<serial_rx, serial_rx_back, serial_rx_front, serial_rx_front_len,
            serial_rx_i, counts, frames>>
uartVars == <<serial_tx_i, UDRIE, TX_EN, udr, shift, txc, led_flipped, said>>
serialVars == <<rxVars, rx_state, tx_state, serial_tx_len, timer, uartVars, chars>>

Overflow == BUFLEN_MOD - 1  \* ~0 as a buflen_t

RxTypeOK ==
    /\ serial_rx \in [Buffers -> [0 .. RX_LEN - 1 -> Char \cup {NUL}]]
    /\ serial_rx_back \in Buffers
    /\ serial_rx_front \in Buffers \cup {None}
    /\ serial_rx_front_len \in 0 .. RX_LEN \cup {Overflow}
    /\ serial_rx_i \in 0 .. RX_LEN \cup {Overflow}
    /\ counts \in [{"good", "flip_timeout", "too_long_rx", "too_long_tx"} -> Nat]
    /\ frames \in Nat

LineTypeOK ==
    /\ rx_state \in {"rx_active", "rx_end", "rx_tx_ready"}
    /\ tx_state \in BOOLEAN
    /\ serial_tx_len \in 0 .. TX_LEN
    /\ timer \in {"off", "on", "due"}
    /\ chars \in Nat

UartTypeOK ==
    /\ serial_tx_i \in 0 .. BUFLEN_MOD - 1
    /\ UDRIE \in BOOLEAN /\ TX_EN \in BOOLEAN /\ txc \in BOOLEAN
    /\ udr \in 0 .. BUFLEN_MOD - 1 \cup {None}
    /\ shift \in 0 .. BUFLEN_MOD - 1 \cup {None}
    /\ led_flipped \in BOOLEAN
    /\ said \in Seq(0 .. BUFLEN_MOD - 1)

SerialTypeOK == RxTypeOK /\ LineTypeOK /\ UartTypeOK

SerialInit ==
    /\ serial_rx = [b \in Buffers |-> [i \in 0 .. RX_LEN - 1 |-> NUL]]
    /\ serial_rx_back = "a" /\ serial_rx_front = None
    /\ serial_rx_front_len = 0 /\ serial_rx_i = 0
    /\ rx_state = "rx_tx_ready" /\ tx_state = FALSE
    /\ serial_tx_len = 0 /\ serial_tx_i = 0
    /\ counts = [c \in {"good", "flip_timeout", "too_long_rx", "too_long_tx"} |-> 0]
    /\ timer = "off"
    /\ UDRIE = FALSE /\ TX_EN = FALSE /\ udr = None /\ shift = None /\ txc = FALSE
    /\ led_flipped = FALSE /\ said = << >> /\ frames = 0 /\ chars = MaxChars

-----------------------------------------------------------------------------
(* Pieces the handlers and the main loop share.                            *)

Count(counter) == counts' = [counts EXCEPT ![counter] = @ + 1]

Other(b) == CHOOSE o \in Buffers : o # b

\* The line direction and the interrupt go on together; the LED is toggled.
transmit_now ==
    /\ led_flipped' = ~led_flipped
    /\ TX_EN' = TRUE
    /\ UDRIE' = TRUE
    /\ UNCHANGED <<serial_tx_i, udr, shift, txc, said>>

\* Variants of end_of_frame a bug could make (for the mutation runs): the
\* back pointer is not flipped; the lock is not looked at; a dropped frame
\* frees the one being read; a dropped frame is not counted.
EndOfFrameVariant(flips, locks, keeps, counted) ==
    /\ frames' = frames + 1
    /\ serial_rx_i' = 0
    /\ UNCHANGED serial_rx
    /\ IF locks /\ serial_rx_front # None
       THEN /\ IF counted THEN Count("flip_timeout") ELSE UNCHANGED counts
            /\ serial_rx_front' = IF keeps THEN serial_rx_front ELSE None
            /\ UNCHANGED <<serial_rx_front_len, serial_rx_back>>
       ELSE /\ Count(IF serial_rx_i > RX_LEN THEN "too_long_rx" ELSE "good")
            /\ serial_rx_front_len' = serial_rx_i
            /\ serial_rx_front' = serial_rx_back
            /\ serial_rx_back' = IF flips THEN Other(serial_rx_back) ELSE serial_rx_back
end_of_frame_NoFlip == EndOfFrameVariant(FALSE, TRUE, TRUE, TRUE)
end_of_frame_NoLock == EndOfFrameVariant(TRUE, FALSE, TRUE, TRUE)
end_of_frame_FreesOld == EndOfFrameVariant(TRUE, TRUE, FALSE, TRUE)
end_of_frame_Uncounted == EndOfFrameVariant(TRUE, TRUE, TRUE, FALSE)

\* A frame the main loop has no room for is thrown away; the others flip
\* the buffers.
end_of_frame ==
    /\ frames' = frames + 1
    /\ serial_rx_i' = 0
    /\ UNCHANGED serial_rx
    /\ \/ /\ serial_rx_front # None
          /\ Count("flip_timeout")
          /\ UNCHANGED <<serial_rx_front, serial_rx_front_len, serial_rx_back>>
       \/ /\ serial_rx_front = None
          /\ Count(IF serial_rx_i > RX_LEN THEN "too_long_rx" ELSE "good")
          /\ serial_rx_front_len' = serial_rx_i
          /\ serial_rx_front' = serial_rx_back
          /\ serial_rx_back' = Other(serial_rx_back)

\* serial_get_message terminates the string: for a frame that fills its
\* buffer the NUL lands in whatever the linker placed behind it.  (For an
\* overflow it lands 2^8 - 1 bytes after the start, outside both buffers.)
Terminate ==
    LET b == serial_rx_front
        n == serial_rx_front_len
    IN  serial_rx' = IF n < RX_LEN THEN [serial_rx EXCEPT ![b][n] = NUL]
                     ELSE IF n = RX_LEN /\ After[b] # None
                     THEN [serial_rx EXCEPT ![After[b]][0] = NUL]
                     ELSE serial_rx

serial_free_message == serial_rx_front' = None

-----------------------------------------------------------------------------
(* Interrupt handlers.                                                     *)

\* Variant: the timer is not restarted for the second silence.
Phase1_NoRestart ==
    /\ rx_state = "rx_active"
    /\ rx_state' = "rx_end"
    /\ timer' = "off"
    /\ end_of_frame
    /\ UNCHANGED uartVars

\* First silence: end of frame, wait for another one.
Phase1 ==
    /\ rx_state = "rx_active"
    /\ rx_state' = "rx_end"
    /\ timer' = "on"
    /\ end_of_frame
    /\ UNCHANGED uartVars

\* Variant: a reply that waits is left waiting.
Phase2_NoStart ==
    /\ rx_state # "rx_active"
    /\ rx_state' = "rx_tx_ready"
    /\ timer' = "off"
    /\ UNCHANGED <<uartVars, rxVars>>

\* Second silence: the line is free, and a reply that waited for it starts.
Phase2 ==
    /\ rx_state # "rx_active"
    /\ rx_state' = "rx_tx_ready"
    /\ timer' = "off"
    /\ IF tx_state THEN transmit_now ELSE UNCHANGED uartVars
    /\ UNCHANGED rxVars

TIMER2_COMPB_vect ==
    /\ timer = "due"
    /\ Phase1 \/ Phase2
    /\ UNCHANGED <<tx_state, serial_tx_len, chars>>

\* Variant: > for >= in the overflow test.
USART_RX_vect_OffByOne(c) ==
    /\ chars > 0 /\ ~TX_EN
    /\ (Polite /\ tx_state) => rx_state = "rx_active"
    /\ chars' = chars - 1
    /\ timer' = "on"
    /\ rx_state' = "rx_active"
    /\ IF serial_rx_i > RX_LEN
       THEN serial_rx_i' = Overflow /\ UNCHANGED serial_rx
       ELSE /\ serial_rx' = [serial_rx EXCEPT ![serial_rx_back][serial_rx_i] = c]
            /\ serial_rx_i' = serial_rx_i + 1
    /\ UNCHANGED <<serial_rx_back, serial_rx_front, serial_rx_front_len, counts,
                   frames, tx_state, serial_tx_len, uartVars>>

\* ~RE is tied to DE on the board: nothing is heard while transmitting.
\* A polite station may end a frame while a reply is pending, but begin none.
USART_RX_vect(c) ==
    /\ chars > 0 /\ ~TX_EN
    /\ (Polite /\ tx_state) => rx_state = "rx_active"
    /\ chars' = chars - 1
    /\ timer' = "on"
    /\ rx_state' = "rx_active"
    /\ \/ /\ serial_rx_i >= RX_LEN
          /\ serial_rx_i' = Overflow
          /\ UNCHANGED serial_rx
       \/ /\ serial_rx_i < RX_LEN
          /\ serial_rx' = [serial_rx EXCEPT ![serial_rx_back][serial_rx_i] = c]
          /\ serial_rx_i' = serial_rx_i + 1
    /\ UNCHANGED <<serial_rx_back, serial_rx_front, serial_rx_front_len, counts,
                   frames, tx_state, serial_tx_len, uartVars>>

DataEmpty == UDRIE /\ udr = None  \* USART_UDRE_vect is pending

USART_UDRE_vect ==
    /\ DataEmpty
    /\ UDRIE' = (serial_tx_len # serial_tx_i + 1)
    /\ IF shift = None
       THEN shift' = serial_tx_i /\ UNCHANGED udr
       ELSE udr' = serial_tx_i /\ UNCHANGED shift
    /\ serial_tx_i' = (serial_tx_i + 1) % BUFLEN_MOD
    /\ UNCHANGED <<rxVars, rx_state, tx_state, serial_tx_len, timer, TX_EN, txc,
                   led_flipped, said, chars>>

\* Variants: the position is not rewound; the line is not released.
TxVariant(rewinds, releases) ==
    /\ txc /\ ~DataEmpty
    /\ txc' = FALSE
    /\ led_flipped' = ~led_flipped
    /\ serial_tx_i' = IF rewinds THEN 0 ELSE serial_tx_i
    /\ TX_EN' = (TX_EN /\ ~releases)
    /\ tx_state' = FALSE
    /\ UNCHANGED <<rxVars, rx_state, serial_tx_len, timer, UDRIE, udr, shift, said,
                   chars>>
USART_TX_vect_NoRewind == TxVariant(FALSE, TRUE)
USART_TX_vect_NoRelease == TxVariant(TRUE, FALSE)

\* USART_UDRE_vect has the lower vector number: it runs first.
USART_TX_vect ==
    /\ txc /\ ~DataEmpty
    /\ txc' = FALSE
    /\ led_flipped' = ~led_flipped
    /\ serial_tx_i' = 0
    /\ TX_EN' = FALSE
    /\ tx_state' = FALSE
    /\ UNCHANGED <<rxVars, rx_state, serial_tx_len, timer, UDRIE, udr, shift, said,
                   chars>>

-----------------------------------------------------------------------------
(* The hardware, which neither needs nor waits for the processor.          *)

\* Compare match B.
TimerMatch ==
    /\ timer = "on"
    /\ timer' = "due"
    /\ UNCHANGED <<rxVars, rx_state, tx_state, serial_tx_len, uartVars, chars>>

\* A byte has left.  It takes about a thousand instructions: a pending
\* USART_UDRE_vect has run before it is over.
ShiftDone ==
    /\ shift # None /\ ~DataEmpty
    /\ said' = Append(said, shift)
    /\ shift' = udr
    /\ udr' = None
    /\ txc' = (txc \/ udr = None)
    /\ UNCHANGED <<rxVars, rx_state, tx_state, serial_tx_len, timer, serial_tx_i,
                   UDRIE, TX_EN, led_flipped, chars>>
=============================================================================
