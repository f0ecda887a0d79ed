----------------------------- MODULE PoliteProof ----------------------------
(***************************************************************************)
(* What the driver achieves when no other station starts a frame while a   *)
(* reply is pending, and replies have at least three bytes (the shortest   *)
(* of the Modbus interface have five, those of the text interface three):  *)
(* the transmitter implements module Outbox.                               *)
(***************************************************************************)
EXTENDS MainLoopProof, SequenceTheorems

PoliteAssumption == Polite /\ Replies \cap {1, 2} = {}

\* The transmitter has nothing to do unless it drives the line.
AtRest ==
    ~TX_EN => ~UDRIE /\ udr = None /\ shift = None /\ ~txc /\ serial_tx_i = 0

\* Where the main loop and the receiver can be, by the state of the reply.
ReplyPhase ==
    /\ TX_EN => tx_state /\ rx_state = "rx_tx_ready"
    /\ pc \in {"ascii", "modbus", "overlong", "skip", "submit"} => ~tx_state
    /\ pc \in {"arm", "start"} => tx_state /\ ~txc
    /\ pc \in {"arm", "start"} \/ (tx_state /\ ~TX_EN) => said = << >>
    /\ pc = "start" => rx_state = "rx_tx_ready"
    /\ tx_state => serial_tx_len \in 3 .. TX_LEN

\* While the reply is sent: the bytes that left, the one leaving and the one
\* waiting are the first serial_tx_i bytes of the reply, in order.
Speaking ==
    TX_EN =>
        /\ said = [i \in 1 .. Len(said) |-> i - 1]
        /\ shift # None => shift = Len(said)
        /\ udr # None => shift # None /\ udr = Len(said) + 1
        /\ serial_tx_i = Len(said) + (IF shift = None THEN 0 ELSE 1)
                                   + (IF udr = None THEN 0 ELSE 1)
        /\ serial_tx_i <= serial_tx_len
        /\ UDRIE <=> serial_tx_i < serial_tx_len
        /\ txc <=> Len(said) = serial_tx_len

PInv == IInv /\ AtRest /\ ReplyPhase /\ Speaking

\* The invariant holds after reset.
LEMMA PInit == Init => PInv
<1>. SUFFICES ASSUME Init PROVE PInv
  OBVIOUS
<1>1. IInv
  BY InitIInv
<1>2. AtRest /\ ReplyPhase /\ Speaking
  BY DEF Init, SerialInit, AtRest, ReplyPhase, Speaking
<1>. QED BY <1>1, <1>2 DEF PInv

\* The types the polite steps need.
LEMMA Types ==
    ASSUME PInv
    PROVE  /\ serial_tx_i \in 0 .. BUFLEN_MOD - 1 /\ serial_tx_i \in Nat
           /\ serial_tx_len \in 0 .. TX_LEN
           /\ said \in Seq(0 .. BUFLEN_MOD - 1) /\ Len(said) \in Nat
           /\ UDRIE \in BOOLEAN /\ TX_EN \in BOOLEAN /\ txc \in BOOLEAN
           /\ tx_state \in BOOLEAN
<1>1. LineTypeOK /\ UartTypeOK
  BY DEF PInv, IInv, TypeOK, SerialTypeOK
<1>2. serial_tx_i \in 0 .. BUFLEN_MOD - 1 /\ said \in Seq(0 .. BUFLEN_MOD - 1)
  BY <1>1 DEF UartTypeOK
<1>3. serial_tx_i \in Nat /\ Len(said) \in Nat
  BY <1>2
<1>. QED BY <1>1, <1>2, <1>3 DEF LineTypeOK, UartTypeOK

\* What is known while a reply is leaving.
LEMMA SpeakingFacts ==
    ASSUME PInv, TX_EN
    PROVE  /\ said = [i \in 1 .. Len(said) |-> i - 1]
           /\ shift # None => shift = Len(said)
           /\ udr # None => shift # None /\ udr = Len(said) + 1
           /\ serial_tx_i = Len(said) + (IF shift = None THEN 0 ELSE 1)
                                      + (IF udr = None THEN 0 ELSE 1)
           /\ serial_tx_i <= serial_tx_len
           /\ UDRIE <=> serial_tx_i < serial_tx_len
           /\ txc <=> Len(said) = serial_tx_len
BY DEF PInv, Speaking

\* Where the transmitter is in the reply.
LEMMA Position ==
    ASSUME PInv, TX_EN
    PROVE  /\ shift = None => udr = None /\ serial_tx_i = Len(said)
           /\ shift # None /\ udr = None => serial_tx_i = Len(said) + 1
           /\ udr # None => shift # None /\ serial_tx_i = Len(said) + 2
           /\ serial_tx_i <= serial_tx_len /\ serial_tx_i \in Nat /\ serial_tx_len \in Nat
           /\ Len(said) \in Nat
           /\ Len(said) <= serial_tx_i
<1>1. /\ udr # None => shift # None
      /\ serial_tx_i = Len(said) + (IF shift = None THEN 0 ELSE 1) + (IF udr = None THEN 0 ELSE 1)
      /\ serial_tx_i <= serial_tx_len
  BY SpeakingFacts
<1>2. serial_tx_i \in Nat /\ serial_tx_len \in Nat /\ Len(said) \in Nat
  BY Types, SizesAssumption
<1>3. CASE shift = None
  BY <1>1, <1>2, <1>3
<1>4. CASE shift # None /\ udr = None
  BY <1>1, <1>2, <1>4
<1>5. CASE shift # None /\ udr # None
  BY <1>1, <1>2, <1>5
<1>. QED BY <1>1, <1>3, <1>4, <1>5

\* A step that leaves the transmitter alone, and the reply with it.
LEMMA Elsewhere ==
    ASSUME PInv, UNCHANGED <<UDRIE, TX_EN, udr, shift, txc, serial_tx_i, said, tx_state,
                             serial_tx_len>>,
           ReplyPhase'
    PROVE  AtRest' /\ Speaking' /\ UNCHANGED <<phase, serial_tx_len, said>>
<1>1. AtRest'
  BY DEF PInv, AtRest
<1>2. Speaking'
  BY DEF PInv, Speaking
<1>3. UNCHANGED phase
  BY DEF phase
<1>. QED BY <1>1, <1>2, <1>3

\* transmit_now is called at rest, or before a third byte of the reply has
\* been fetched: it starts the reply, or changes nothing.
LEMMA StartTransmit ==
    ASSUME PInv, transmit_now, tx_state, ~TX_EN \/ pc = "start",
           UNCHANGED <<tx_state, serial_tx_len>>
    PROVE  AtRest' /\ Speaking' /\ [Sent!Next]_(Sent!vars)
<1>. USE DEF transmit_now
<1>1. said = << >> /\ serial_tx_len \in 3 .. TX_LEN
  BY DEF PInv, ReplyPhase
<1>2. AtRest'
  BY DEF AtRest
<1>3. CASE ~TX_EN
  <2>1. /\ udr' = None /\ shift' = None /\ ~txc' /\ serial_tx_i' = 0 /\ UDRIE' = TRUE
        /\ said' = << >> /\ serial_tx_len' = serial_tx_len
    BY <1>1, <1>3 DEF PInv, AtRest
  <2>2. Speaking'
    <3>1. << >> = [i \in 1 .. 0 |-> i - 1] /\ Len(<< >>) = 0
      OBVIOUS
    <3>2. (said = [i \in 1 .. Len(said) |-> i - 1])' /\ Len(said') = 0
      BY <2>1, <3>1
    <3>3. 0 < serial_tx_len' /\ 0 <= serial_tx_len' /\ 0 # serial_tx_len'
      BY <1>1, <2>1, SizesAssumption
    <3>. QED BY <2>1, <3>2, <3>3 DEF Speaking
  <2>3. phase = "queued" /\ phase' = "speaking"
    BY <1>3 DEF phase
  <2>4. Sent!Begin
    BY <1>1, <2>1, <2>3 DEF Sent!Begin
  <2>. QED BY <1>2, <2>2, <2>4 DEF Sent!Next
<1>4. CASE TX_EN
  <2>1. serial_tx_i < serial_tx_len /\ UDRIE
    <3>1. Len(said) = 0
      BY <1>1
    <3>2. serial_tx_i \in 0 .. 2
      BY <1>4, <3>1, SpeakingFacts
    <3>3. serial_tx_i < serial_tx_len
      BY ONLY <3>2, <1>1, SizesAssumption
    <3>. QED BY <1>4, <3>3, SpeakingFacts
  <2>2. UNCHANGED <<UDRIE, TX_EN, udr, shift, txc, serial_tx_i, said, serial_tx_len>>
    <3>1. UDRIE = TRUE /\ TX_EN = TRUE
      BY <1>4, <2>1, Types
    <3>. QED BY <3>1
  <2>3. Speaking'
    BY ONLY PInv, <2>2 DEF PInv, Speaking
  <2>4. UNCHANGED <<phase, serial_tx_len, said>>
    BY <2>2 DEF phase
  <2>. QED BY <1>2, <2>3, <2>4 DEF Sent!vars
<1>. QED BY <1>3, <1>4

\* The silence timer's interrupt keeps the invariant.
LEMMA PCompB ==
    ASSUME PInv, Step(TIMER2_COMPB_vect)
    PROVE  AtRest' /\ ReplyPhase' /\ Speaking' /\ [Sent!Next]_(Sent!vars)
<1>. USE DEF Step, TIMER2_COMPB_vect
<1>0. ~TX_EN /\ pc # "start"
  BY DEF PInv, IInv, SilenceTimed, ReplyPhase
<1>1. CASE Phase1
  <2>1. UNCHANGED <<uartVars, tx_state, serial_tx_len, pc>>
    BY <1>1 DEF Phase1
  <2>2. ReplyPhase'
    BY <1>0, <2>1 DEF PInv, ReplyPhase, uartVars
  <2>. QED BY <2>1, <2>2, Elsewhere DEF uartVars, Sent!vars
<1>2. CASE Phase2
  <2>1. rx_state' = "rx_tx_ready" /\ UNCHANGED <<tx_state, serial_tx_len, pc>>
    BY <1>2 DEF Phase2
  <2>2. CASE ~tx_state
    <3>1. UNCHANGED uartVars
      BY <1>2, <2>2 DEF Phase2
    <3>2. ReplyPhase'
      BY <1>0, <2>1, <3>1 DEF PInv, ReplyPhase, uartVars
    <3>. QED BY <2>1, <3>1, <3>2, Elsewhere DEF uartVars, Sent!vars
  <2>3. CASE tx_state
    <3>1. transmit_now
      BY <1>2, <2>3 DEF Phase2
    <3>2. ReplyPhase'
      BY <1>0, <2>1, <2>3, <3>1 DEF PInv, ReplyPhase, transmit_now
    <3>. QED BY <1>0, <2>1, <2>3, <3>1, <3>2, StartTransmit
  <2>. QED BY <2>2, <2>3
<1>. QED BY <1>1, <1>2

\* A received character keeps the invariant.
LEMMA PReceive ==
    ASSUME Polite, PInv, Step(Hear)
    PROVE  AtRest' /\ ReplyPhase' /\ Speaking' /\ [Sent!Next]_(Sent!vars)
<1>1. PICK c \in Char : USART_RX_vect(c)
  BY DEF Step, Hear
<1>2. /\ UNCHANGED <<uartVars, tx_state, serial_tx_len, pc>>
      /\ ~TX_EN
      /\ tx_state => rx_state = "rx_active"
  BY <1>1 DEF USART_RX_vect, Step
<1>3. ReplyPhase'
  BY <1>2 DEF PInv, ReplyPhase, uartVars
<1>. QED BY <1>2, <1>3, Elsewhere DEF uartVars, Sent!vars

\* Fetching the next byte keeps the invariant.
LEMMA PFetch ==
    ASSUME PInv, Step(USART_UDRE_vect)
    PROVE  AtRest' /\ ReplyPhase' /\ Speaking' /\ [Sent!Next]_(Sent!vars)
<1>. USE DEF Step, USART_UDRE_vect, DataEmpty
<1>1. TX_EN /\ UDRIE /\ udr = None
  BY DEF PInv, AtRest
<1>2. UNCHANGED <<TX_EN, txc, said, tx_state, serial_tx_len, rx_state, pc>>
  OBVIOUS
<1>3. serial_tx_i < serial_tx_len /\ serial_tx_i \in Nat /\ serial_tx_len \in 0 .. TX_LEN
  BY <1>1, SpeakingFacts, Types
<1>4. serial_tx_i' = serial_tx_i + 1
  <2>1. serial_tx_i + 1 < BUFLEN_MOD /\ serial_tx_i + 1 \in Nat /\ BUFLEN_MOD \in Nat
    BY <1>3, SizesAssumption
  <2>2. \A k \in Nat, m \in Nat : k < m => k % m = k
    OBVIOUS
  <2>. QED BY <2>1, <2>2
<1>5. UDRIE' <=> serial_tx_i' < serial_tx_len'
  <2>1. CASE serial_tx_len = serial_tx_i + 1
    <3>1. ~UDRIE'
      BY <2>1
    <3>2. ~(serial_tx_i' < serial_tx_len')
      BY <1>2, <1>3, <1>4, <2>1
    <3>. QED BY <3>1, <3>2
  <2>2. CASE serial_tx_len # serial_tx_i + 1
    <3>1. serial_tx_i + 1 < serial_tx_len
      BY <1>3, <2>2, SizesAssumption
    <3>2. UDRIE'
      BY <2>2
    <3>. QED BY <1>2, <1>4, <3>1, <3>2
  <2>. QED BY <2>1, <2>2
<1>6. AtRest' /\ ReplyPhase'
  BY <1>1, <1>2 DEF PInv, AtRest, ReplyPhase
<1>7. serial_tx_i = Len(said) + (IF shift = None THEN 0 ELSE 1) /\ Len(said) \in Nat
  BY <1>1, SpeakingFacts, Types
<1>8. Len(said) + 1 # None /\ Len(said) # None
  BY <1>7, NoneAssumption
<1>9. Speaking'
  <2>1. /\ shift' # None => shift' = Len(said)
        /\ udr' # None => shift' # None /\ udr' = Len(said) + 1
        /\ serial_tx_i' = Len(said) + (IF shift' = None THEN 0 ELSE 1)
                                   + (IF udr' = None THEN 0 ELSE 1)
    <3>1. CASE shift = None
      BY <1>1, <1>4, <1>7, <1>8, <3>1
    <3>2. CASE shift # None
      BY <1>1, <1>4, <1>7, <1>8, <3>2, SpeakingFacts
    <3>. QED BY <3>1, <3>2
  <2>2. serial_tx_i' <= serial_tx_len'
    BY <1>2, <1>3, <1>4
  <2>3. txc' <=> Len(said') = serial_tx_len'
    BY <1>1, <1>2, SpeakingFacts
  <2>4. (said = [i \in 1 .. Len(said) |-> i - 1])'
    BY <1>1, <1>2, SpeakingFacts
  <2>5. said' = said
    BY <1>2
  <2>. QED BY ONLY <1>5, <2>1, <2>2, <2>3, <2>4, <2>5 DEF Speaking
<1>10. UNCHANGED <<phase, serial_tx_len, said>>
  BY <1>2 DEF phase
<1>. QED BY <1>6, <1>9, <1>10 DEF Sent!vars

\* A byte leaving keeps the invariant.
LEMMA PLeave ==
    ASSUME PInv, Step(Shift)
    PROVE  AtRest' /\ ReplyPhase' /\ Speaking' /\ [Sent!Next]_(Sent!vars)
<1>. USE DEF Step, Shift, ShiftDone, DataEmpty
<1>1. TX_EN /\ shift # None /\ pc \notin {"arm", "start"}
  BY DEF PInv, AtRest, Instant
<1>2. UNCHANGED <<TX_EN, UDRIE, serial_tx_i, tx_state, serial_tx_len, rx_state, pc>>
  OBVIOUS
<1>3. shift = Len(said) /\ Len(said) \in Nat /\ Len(said) # None /\ Len(said) + 1 # None
  BY <1>1, SpeakingFacts, Types, NoneAssumption
<1>4. /\ said' = Append(said, Len(said))
      /\ said \in Seq(0 .. BUFLEN_MOD - 1) /\ Len(said) \in 0 .. BUFLEN_MOD - 1
  BY <1>1, <1>3, Types DEF PInv, IInv, TypeOK, SerialTypeOK, UartTypeOK
<1>5. Len(said') = Len(said) + 1
  BY <1>4
<1>6. AtRest' /\ ReplyPhase'
  BY <1>1, <1>2 DEF PInv, AtRest, ReplyPhase
<1>7. serial_tx_i \in Nat /\ serial_tx_len \in Nat /\ serial_tx_i <= serial_tx_len
  BY <1>1, SpeakingFacts, Types, SizesAssumption
<1>8. (said = [i \in 1 .. Len(said) |-> i - 1])'
  <2>1. said = [i \in 1 .. Len(said) |-> i - 1]
    BY <1>1, SpeakingFacts
  <2>2. DOMAIN said' = 1 .. Len(said) + 1
    BY <1>4, <1>5
  <2>3. \A i \in 1 .. Len(said) + 1 : said'[i] = i - 1
    <3>1. TAKE i \in 1 .. Len(said) + 1
    <3>2. CASE i \in 1 .. Len(said)
      BY <1>4, <2>1, <3>2
    <3>3. CASE i = Len(said) + 1
      BY <1>3, <1>4, <3>3
    <3>. QED BY <1>3, <3>2, <3>3
  <2>4. said' \in Seq(0 .. BUFLEN_MOD - 1)
    BY <1>4
  <2>5. said' = [i \in DOMAIN said' |-> said'[i]]
    <3>1. said' \in [1 .. Len(said') -> 0 .. BUFLEN_MOD - 1]
      BY <2>4, LenProperties
    <3>. QED BY ONLY <3>1
  <2>. QED BY <1>5, <2>2, <2>3, <2>5
<1>9. Len(said) < serial_tx_len
  <2>1. Len(said) + 1 <= serial_tx_i
    BY <1>1, Position
  <2>. QED BY <1>3, <1>7, <2>1
<1>10. Speaking'
  <2>1. CASE udr = None
    <3>1. shift' = None /\ udr' = None /\ txc' = TRUE /\ ~UDRIE
      BY <2>1
    <3>2. serial_tx_i = Len(said) + 1 /\ serial_tx_i = serial_tx_len
      <4>1. serial_tx_i = serial_tx_len
        <5>1. ~(serial_tx_i < serial_tx_len)
          BY <1>1, <3>1, SpeakingFacts
        <5>. QED BY <1>7, <5>1
      <4>. QED BY <1>1, <2>1, <4>1, Position
    <3>3. ~UDRIE' /\ ~(serial_tx_i' < serial_tx_len') /\ serial_tx_i' <= serial_tx_len'
      BY <1>2, <1>7, <3>1, <3>2
    <3>. QED BY ONLY <1>2, <1>3, <1>5, <1>8, <3>1, <3>2, <3>3 DEF Speaking
  <2>2. CASE udr # None
    <3>1. udr = Len(said) + 1 /\ serial_tx_i = Len(said) + 2 /\ ~txc
      BY <1>1, <1>3, <1>7, <1>9, <2>2, SpeakingFacts, Position
    <3>2. shift' = Len(said) + 1 /\ udr' = None /\ ~txc'
      BY <2>2, <3>1
    <3>3. UDRIE <=> serial_tx_i < serial_tx_len
      BY <1>1, SpeakingFacts
    <3>4. Len(said) + 1 # serial_tx_len
      BY <1>3, <1>7, <3>1
    <3>. QED BY ONLY <1>2, <1>3, <1>5, <1>7, <1>8, <3>1, <3>2, <3>3, <3>4 DEF Speaking
  <2>. QED BY <2>1, <2>2
<1>11. Sent!Speak
  BY <1>1, <1>2, <1>4, <1>9 DEF Sent!Speak, phase, PInv, ReplyPhase
<1>. QED BY <1>6, <1>10, <1>11 DEF Sent!Next

\* The end of a reply keeps the invariant.
LEMMA PEnd ==
    ASSUME PInv, Step(USART_TX_vect)
    PROVE  AtRest' /\ ReplyPhase' /\ Speaking' /\ [Sent!Next]_(Sent!vars)
<1>. USE DEF Step, USART_TX_vect, DataEmpty
<1>1. txc /\ TX_EN
  BY DEF PInv, AtRest
<1>2. /\ ~TX_EN' /\ ~tx_state' /\ ~txc' /\ serial_tx_i' = 0
      /\ UNCHANGED <<UDRIE, udr, shift, said, serial_tx_len, pc, rx_state>>
  OBVIOUS
<1>3. Len(said) = serial_tx_len
  BY <1>1, SpeakingFacts
<1>4. ~UDRIE /\ udr = None /\ shift = None
  <2>1. serial_tx_i = Len(said)
    BY <1>1, <1>3, Position
  <2>2. udr = None /\ shift = None
    BY <1>1, <2>1, Position
  <2>. QED BY <1>1, <1>3, <2>1, <2>2, SpeakingFacts, Position
<1>5. pc \notin {"arm", "start"}
  BY <1>1 DEF PInv, ReplyPhase
<1>6. AtRest' /\ ReplyPhase' /\ Speaking'
  BY <1>2, <1>4, <1>5 DEF AtRest, ReplyPhase, Speaking
<1>7. Sent!Finish
  BY <1>1, <1>2, <1>3 DEF Sent!Finish, phase, PInv, ReplyPhase
<1>. QED BY <1>6, <1>7 DEF Sent!Next

\* The passing of silence keeps the invariant.
LEMMA PElapse ==
    ASSUME PInv, Step(Elapse)
    PROVE  AtRest' /\ ReplyPhase' /\ Speaking' /\ [Sent!Next]_(Sent!vars)
<1>1. UNCHANGED <<uartVars, tx_state, serial_tx_len, rx_state, pc>>
  BY DEF Step, Elapse, TimerMatch
<1>2. ReplyPhase'
  BY <1>1 DEF PInv, ReplyPhase, uartVars
<1>. QED BY <1>1, <1>2, Elsewhere DEF uartVars, Sent!vars

\* The main loop keeps the invariant.
LEMMA PMain ==
    ASSUME PoliteAssumption, PInv, Main
    PROVE  AtRest' /\ ReplyPhase' /\ Speaking' /\ [Sent!Next]_(Sent!vars)
<1>1. CASE Sleep \/ Poll \/ WriteLed \/ HelpLine \/ HelpWait \/ Free \/ Arm
           \/ \E i \in 0 .. RX_LEN - 1 : Tokenise(i)
  <2>1. UNCHANGED <<UDRIE, TX_EN, udr, shift, txc, serial_tx_i, said, tx_state,
                    serial_tx_len, rx_state>>
    BY <1>1
    DEF Sleep, Poll, WriteLed, HelpLine, HelpWait, Free, Arm, Tokenise, vars, serialVars,
        uartVars
  <2>2. /\ pc' \in {"ascii", "modbus", "overlong", "skip", "submit"} => ~tx_state
        /\ pc' \in {"arm", "start"} => pc = "arm"
        /\ pc' = "start" => rx_state = "rx_tx_ready"
    BY <1>1
    DEF Sleep, Poll, Route, WriteLed, HelpLine, HelpWait, Free, Arm, Tokenise, vars, PInv,
        IInv, TypeOK, ReplyPhase
  <2>3. ReplyPhase'
    BY <2>1, <2>2 DEF PInv, ReplyPhase
  <2>. QED BY <2>1, <2>3, Elsewhere DEF Sent!vars
<1>2. CASE \E n \in Replies : serial_tx_bin(n)
  <2>. PICK n \in Replies : serial_tx_bin(n)
    BY <1>2
  <2>1. /\ pc = "submit" /\ ~tx_state /\ ~TX_EN /\ ret \in {"idle", "helpwait"}
        /\ UNCHANGED <<UDRIE, TX_EN, udr, shift, txc, serial_tx_i, rx_state>>
    BY DEF serial_tx_bin, PInv, ReplyPhase, IInv, TypeOK
  <2>2. CASE pc' = ret /\ UNCHANGED <<tx_state, serial_tx_len, said>>
    <3>1. ReplyPhase'
      BY <2>1, <2>2 DEF PInv, ReplyPhase
    <3>. QED BY <2>1, <2>2, <3>1, Elsewhere DEF Sent!vars
  <2>3. CASE n \in 1 .. TX_LEN /\ serial_tx_len' = n /\ tx_state' = TRUE /\ said' = << >>
             /\ pc' = "arm"
    <3>1. n \in 3 .. TX_LEN
      BY <2>3, SizesAssumption DEF PoliteAssumption
    <3>2. ~TX_EN' /\ ~txc'
      BY <2>1 DEF PInv, AtRest
    <3>3. AtRest' /\ ReplyPhase' /\ Speaking'
      BY <2>1, <2>3, <3>1, <3>2 DEF PInv, AtRest, ReplyPhase, Speaking
    <3>4. Sent!Queue
      BY <2>1, <2>3, <3>2 DEF Sent!Queue, phase
    <3>. QED BY <3>3, <3>4 DEF Sent!Next
  <2>. QED BY <2>2, <2>3 DEF serial_tx_bin
<1>3. CASE Start
  <2>1. /\ pc = "start" /\ pc' = ret /\ transmit_now
        /\ UNCHANGED <<rx_state, tx_state, serial_tx_len>>
    BY <1>3 DEF Start
  <2>2. tx_state /\ rx_state = "rx_tx_ready" /\ ret \in {"idle", "helpwait"}
    BY <2>1 DEF PInv, ReplyPhase, IInv, TypeOK
  <2>3. AtRest' /\ Speaking' /\ [Sent!Next]_(Sent!vars)
    BY <2>1, <2>2, StartTransmit
  <2>4. ReplyPhase'
    BY <2>1, <2>2 DEF PInv, ReplyPhase, transmit_now
  <2>. QED BY <2>3, <2>4
<1>. QED BY <1>1, <1>2, <1>3 DEF Main

\* Every step keeps the invariant.
LEMMA PNext ==
    ASSUME PoliteAssumption, PInv, [Next]_vars
    PROVE  PInv' /\ [Sent!Next]_(Sent!vars)
<1>1. IInv'
  BY NextIInv DEF PInv
<1>2. CASE Main
  BY <1>1, <1>2, PMain DEF PInv
<1>3. CASE Step(Interrupts \/ Hear \/ Elapse \/ Shift)
  <2>1. \/ Step(TIMER2_COMPB_vect) \/ Step(USART_UDRE_vect) \/ Step(USART_TX_vect)
        \/ Step(Hear) \/ Step(Elapse) \/ Step(Shift)
    BY <1>3 DEF Step, Interrupts
  <2>. QED BY <1>1, <2>1, PCompB, PFetch, PEnd, PReceive, PElapse, PLeave
           DEF PoliteAssumption, PInv
<1>4. CASE UNCHANGED vars
  <2>1. UNCHANGED <<uartVars, tx_state, serial_tx_len, rx_state, pc>>
    BY <1>4 DEF vars, serialVars
  <2>2. ReplyPhase'
    BY <2>1 DEF PInv, ReplyPhase, uartVars
  <2>. QED BY <1>1, <2>1, <2>2, Elsewhere DEF PInv, uartVars, Sent!vars
<1>. QED BY <1>2, <1>3, <1>4 DEF Next, Step

-----------------------------------------------------------------------------
\* The outbox starts empty.
LEMMA SentInit == Init => Sent!Init
BY DEF Init, SerialInit, Sent!Init, phase

\* The invariant is inductive for polite stations.
LEMMA PInductive == ASSUME PoliteAssumption PROVE PInv /\ [Next]_vars => PInv'
BY PNext

\* Every step is one of the outbox or invisible.
LEMMA SentNext == ASSUME PoliteAssumption PROVE PInv /\ [Next]_vars => [Sent!Next]_(Sent!vars)
BY PNext

\* PInv is an invariant of the firmware on a polite bus.
THEOREM PoliteInvariance == ASSUME PoliteAssumption PROVE Spec => []PInv
<1>1. Init => PInv
  BY PInit
<1>2. PInv /\ [Next]_vars => PInv'
  BY PInductive
<1>. QED BY <1>1, <1>2, PTL DEF Spec

\* The transmitter implements the abstract outbox: each requested reply is
\* sent once, byte by byte in order, and no byte more.
THEOREM OutboxRefined == ASSUME PoliteAssumption PROVE Spec => ImplementsOutbox
<1>1. Init => Sent!Init
  BY SentInit
<1>2. PInv /\ [Next]_vars => [Sent!Next]_(Sent!vars)
  BY SentNext
<1>. QED BY <1>1, <1>2, PoliteInvariance, PTL DEF Spec, ImplementsOutbox, Sent!Spec

\* The main loop composes a reply only while nothing is being sent.
THEOREM ReplyBufferOwned == ASSUME PoliteAssumption PROVE Spec => []ReplyOwned
<1>1. PInv => ReplyOwned
  BY DEF PInv, ReplyOwned, AtRest, ReplyPhase
<1>. QED BY <1>1, PoliteInvariance, PTL

\* Bytes leave only while the transceiver drives the line.
THEOREM LineOwned == ASSUME PoliteAssumption PROVE Spec => []LineDriven
<1>1. PInv => LineDriven
  BY DEF PInv, LineDriven, AtRest, ReplyPhase
<1>. QED BY <1>1, PoliteInvariance, PTL

\* The line is taken only after two silences.
THEOREM ListensFirst == ASSUME PoliteAssumption PROVE Spec => ListenFirst
<1>1. PInv' => (~TX_EN /\ TX_EN' => rx_state' = "rx_tx_ready")
  BY DEF PInv, ReplyPhase
<1>. QED BY <1>1, PoliteInvariance, PTL DEF Spec, ListenFirst

=============================================================================
