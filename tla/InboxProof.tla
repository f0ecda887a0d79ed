----------------------------- MODULE InboxProof -----------------------------
(***************************************************************************)
(* The receiving half of the driver, under the main loop, implements the   *)
(* mailbox of module Inbox: for every buffer size, alphabet and memory     *)
(* layout, and whatever the other stations say.                            *)
(***************************************************************************)
EXTENDS MainLoopProof, SequenceTheorems

-----------------------------------------------------------------------------
(* The text of a buffer, and what a store does to it.                      *)

Cell == Char \cup {NUL}
Lengths == 0 .. RX_LEN \cup {Overflow}

\* MainLoop's Text, of any contents of the buffers.
TextOf(m, b, n) == [i \in 1 .. Least(n, RX_LEN) |-> m[b][i - 1]]

\* A text is not longer than its buffer.
LEMMA LeastOf == ASSUME NEW n \in Lengths
                 PROVE  /\ Least(n, RX_LEN) \in 0 .. RX_LEN
                        /\ n <= RX_LEN => Least(n, RX_LEN) = n
                        /\ n >= RX_LEN => Least(n, RX_LEN) = RX_LEN
                        /\ n \in Nat
BY SizesAssumption DEF Least, Lengths, Overflow

\* A text is a sequence of characters.
LEMMA TextSeq == ASSUME NEW m \in Memory, NEW b \in Buffers, NEW n \in Lengths
                 PROVE  /\ TextOf(m, b, n) \in Seq(Cell)
                        /\ Len(TextOf(m, b, n)) = Least(n, RX_LEN)
                        /\ DOMAIN TextOf(m, b, n) = 1 .. Least(n, RX_LEN)
                        /\ \A i \in 1 .. Least(n, RX_LEN) : TextOf(m, b, n)[i] = m[b][i - 1]
<1>. DEFINE k == Least(n, RX_LEN)
<1>1. k \in 0 .. RX_LEN
  BY LeastOf
<1>2. \A i \in 1 .. k : m[b][i - 1] \in Cell
  BY <1>1, SizesAssumption DEF Memory, Cell
<1>3. TextOf(m, b, n) = [i \in 1 .. k |-> m[b][i - 1]]
  BY DEF TextOf
<1>. HIDE DEF k
<1>4. TextOf(m, b, n) \in [1 .. k -> Cell] /\ k \in Nat
  BY <1>1, <1>2, <1>3, SizesAssumption
<1>5. TextOf(m, b, n) \in Seq(Cell)
  BY <1>4
<1>6. DOMAIN TextOf(m, b, n) = 1 .. k
  BY <1>3
<1>7. Len(TextOf(m, b, n)) = k
  BY <1>4, <1>5, <1>6, LenProperties
<1>. QED BY <1>3, <1>5, <1>6, <1>7 DEF k

Put(m, b, j, c) == [m EXCEPT ![b][j] = c]

\* A store, cell by cell.
LEMMA Stored == ASSUME NEW m \in Memory, NEW b \in Buffers, NEW j \in 0 .. RX_LEN - 1,
                       NEW c \in Cell
                PROVE  /\ Put(m, b, j, c) \in Memory
                       /\ \A d \in Buffers, i \in 0 .. RX_LEN - 1 :
                            Put(m, b, j, c)[d][i]
                              = IF d = b /\ i = j THEN c ELSE m[d][i]
BY WriteCell DEF Memory, Cell, Put

\* A character received behind a text is appended to it.
LEMMA TextHeard == ASSUME NEW m \in Memory, NEW b \in Buffers, NEW n \in 0 .. RX_LEN - 1,
                          NEW c \in Cell
                   PROVE  TextOf(Put(m, b, n, c), b, n + 1)
                            = Append(TextOf(m, b, n), c)
<1>. DEFINE w == Put(m, b, n, c)
            s == TextOf(w, b, n + 1)
            t == TextOf(m, b, n)
<1>1. /\ w \in Memory
      /\ \A i \in 0 .. RX_LEN - 1 : w[b][i] = IF i = n THEN c ELSE m[b][i]
  BY Stored
<1>2. n \in Lengths /\ n + 1 \in Lengths /\ n \in Nat /\ n + 1 <= RX_LEN /\ n <= RX_LEN
  BY SizesAssumption DEF Lengths
<1>3. Least(n, RX_LEN) = n /\ Least(n + 1, RX_LEN) = n + 1
  BY <1>2, LeastOf
<1>4. /\ s \in Seq(Cell) /\ Len(s) = n + 1
      /\ \A i \in 1 .. n + 1 : s[i] = w[b][i - 1]
  <2>. HIDE DEF w
  <2>. QED BY <1>1, <1>2, <1>3, TextSeq
<1>5. /\ t \in Seq(Cell) /\ Len(t) = n
      /\ \A i \in 1 .. n : t[i] = m[b][i - 1]
  BY <1>2, <1>3, TextSeq
<1>. HIDE DEF w, s, t
<1>6. /\ Append(t, c) \in Seq(Cell) /\ Len(Append(t, c)) = n + 1
      /\ \A i \in 1 .. n + 1 : Append(t, c)[i] = IF i = n + 1 THEN c ELSE t[i]
  BY <1>5, <1>2
<1>7. \A i \in 1 .. n + 1 : s[i] = Append(t, c)[i]
  <2>. SUFFICES ASSUME NEW i \in 1 .. n + 1 PROVE s[i] = Append(t, c)[i]
    OBVIOUS
  <2>1. i - 1 \in 0 .. RX_LEN - 1 /\ (i - 1 = n <=> i = n + 1) /\ (i # n + 1 => i \in 1 .. n)
    BY <1>2, SizesAssumption
  <2>. QED BY <1>1, <1>4, <1>5, <1>6, <2>1
<1>8. s = Append(t, c)
  BY <1>4, <1>6, <1>7, SeqEqual
<1>. QED BY <1>8 DEF s, t, w

\* A store outside a text leaves it alone.
LEMMA TextApart == ASSUME NEW m \in Memory, NEW b \in Buffers, NEW n \in Lengths,
                          NEW d \in Buffers, NEW j \in 0 .. RX_LEN - 1, NEW c \in Cell,
                          d # b \/ j >= Least(n, RX_LEN)
                   PROVE  TextOf(Put(m, d, j, c), b, n) = TextOf(m, b, n)
<1>. DEFINE w == Put(m, d, j, c)
            k == Least(n, RX_LEN)
<1>1. /\ w \in Memory
      /\ \A i \in 0 .. RX_LEN - 1 : w[b][i] = IF b = d /\ i = j THEN c ELSE m[b][i]
  BY Stored
<1>2. k \in 0 .. RX_LEN
  BY LeastOf
<1>3. TextOf(w, b, n) = [i \in 1 .. k |-> w[b][i - 1]] /\ TextOf(m, b, n) = [i \in 1 .. k |-> m[b][i - 1]]
  BY DEF TextOf
<1>4. d # b \/ j >= k
  OBVIOUS
<1>. HIDE DEF w, k
<1>5. \A i \in 1 .. k : w[b][i - 1] = m[b][i - 1]
  <2>. SUFFICES ASSUME NEW i \in 1 .. k PROVE w[b][i - 1] = m[b][i - 1]
    OBVIOUS
  <2>1. i - 1 \in 0 .. RX_LEN - 1 /\ i - 1 < k
    BY <1>2, SizesAssumption
  <2>2. ~(b = d /\ i - 1 = j)
    BY <1>2, <1>4, <2>1
  <2>. QED BY <1>1, <2>1, <2>2
<1>6. TextOf(w, b, n) = TextOf(m, b, n)
  BY <1>3, <1>5
<1>. QED BY <1>6 DEF w

\* A store inside a text changes that character of it.
LEMMA TextEdited == ASSUME NEW m \in Memory, NEW b \in Buffers, NEW n \in Lengths,
                           NEW j \in 0 .. RX_LEN - 1, NEW c \in Cell, j < Least(n, RX_LEN)
                    PROVE  /\ j + 1 \in DOMAIN TextOf(m, b, n)
                           /\ TextOf(Put(m, b, j, c), b, n)
                                = [TextOf(m, b, n) EXCEPT ![j + 1] = c]
<1>. DEFINE w == Put(m, b, j, c)
            k == Least(n, RX_LEN)
            s == TextOf(w, b, n)
            t == TextOf(m, b, n)
<1>1. /\ w \in Memory
      /\ \A i \in 0 .. RX_LEN - 1 : w[b][i] = IF i = j THEN c ELSE m[b][i]
  BY Stored
<1>2. k \in 0 .. RX_LEN /\ j < k
  BY LeastOf
<1>3. /\ s \in Seq(Cell) /\ Len(s) = k
      /\ \A i \in 1 .. k : s[i] = w[b][i - 1]
  <2>. HIDE DEF w
  <2>. QED BY <1>1, TextSeq
<1>4. /\ t \in Seq(Cell) /\ Len(t) = k /\ DOMAIN t = 1 .. k
      /\ \A i \in 1 .. k : t[i] = m[b][i - 1]
  BY TextSeq
<1>. HIDE DEF w, k, s, t
<1>5. j + 1 \in 1 .. k
  BY <1>2, SizesAssumption
<1>6. /\ [t EXCEPT ![j + 1] = c] \in Seq(Cell) /\ Len([t EXCEPT ![j + 1] = c]) = k
      /\ \A i \in 1 .. k : [t EXCEPT ![j + 1] = c][i] = IF i = j + 1 THEN c ELSE t[i]
  BY <1>4, <1>5, ExceptSeq
<1>7. \A i \in 1 .. k : s[i] = [t EXCEPT ![j + 1] = c][i]
  <2>. SUFFICES ASSUME NEW i \in 1 .. k PROVE s[i] = [t EXCEPT ![j + 1] = c][i]
    OBVIOUS
  <2>1. i - 1 \in 0 .. RX_LEN - 1 /\ (i - 1 = j <=> i = j + 1)
    BY <1>2, SizesAssumption
  <2>. QED BY <1>1, <1>3, <1>4, <1>6, <2>1
<1>8. s = [t EXCEPT ![j + 1] = c]
  BY <1>3, <1>6, <1>7, SeqEqual
<1>. QED BY <1>4, <1>5, <1>8 DEF s, t, w

-----------------------------------------------------------------------------
(* The mailbox.                                                            *)

Letter(t, o, h) == [text |-> t, over |-> o, held |-> h]

\* MainLoop's inbox, of any contents of the buffers and any state of the loop.
Parcel(m, b, n, h) == IF b = None THEN << >> ELSE <<Letter(TextOf(m, b, n), n > RX_LEN, h)>>

\* A mailbox with a letter.
LEMMA LetterFields ==
    ASSUME NEW box, NEW t, NEW o, NEW h, box = <<Letter(t, o, h)>>
    PROVE  box # << >> /\ box[1].text = t /\ box[1].over = o /\ box[1].held = h
BY DEF Letter

\* Taking the letter.
LEMMA LetterHeld ==
    ASSUME NEW box, NEW t, NEW o, NEW h, NEW u, box = <<Letter(t, o, h)>>
    PROVE  [box EXCEPT ![1].held = u] = <<Letter(t, o, u)>>
BY DEF Letter

\* What the abstract variables are, before and after a step.
LEMMA Mapped ==
    /\ hearing = TextOf(serial_rx, serial_rx_back, serial_rx_i)
    /\ over = (serial_rx_i > RX_LEN)
    /\ inbox = Parcel(serial_rx, serial_rx_front, serial_rx_front_len, Holding)
    /\ hearing' = TextOf(serial_rx', serial_rx_back', serial_rx_i')
    /\ over' = (serial_rx_i' > RX_LEN)
    /\ inbox' = Parcel(serial_rx', serial_rx_front', serial_rx_front_len', Holding')
BY DEF hearing, over, inbox, Text, TextOf, Parcel, Letter

\* What the invariant says about reception.
LEMMA Reception == ASSUME IInv
                   PROVE  /\ serial_rx \in Memory
                          /\ serial_rx_back \in Buffers
                          /\ serial_rx_i \in Lengths
                          /\ serial_rx_front \in Buffers \cup {None}
                          /\ serial_rx_front_len \in Lengths
                          /\ serial_rx_front # serial_rx_back
BY DEF IInv, TypeOK, SerialTypeOK, RxTypeOK, BuffersApart, Memory, Lengths

\* Steps that leave the buffers alone, and a held frame held, are invisible.
LEMMA Invisible ==
    ASSUME UNCHANGED <<serial_rx, serial_rx_back, serial_rx_front, serial_rx_front_len,
                       serial_rx_i>>,
           Holding' <=> Holding
    PROVE  UNCHANGED Received!vars
<1>1. hearing' = hearing /\ over' = over
  BY Mapped
<1>2. inbox' = inbox
  <2>. DEFINE h == Holding
  <2>1. Holding' = h
    BY DEF Holding
  <2>. QED BY <2>1, Mapped
<1>. QED BY <1>1, <1>2 DEF Received!vars

-----------------------------------------------------------------------------
(* Every step is a step of the mailbox, or invisible.                      *)

\* A character is heard (serial.c:275-299).
LEMMA HearImplements == ASSUME IInv, Step(Hear)
                        PROVE  \E c \in Char : Received!Hear(c)
<1>. PICK c \in Char : USART_RX_vect(c) /\ UNCHANGED <<pc, ret, lines>>
  BY DEF Step, Hear
<1>. DEFINE b == serial_rx_back
            n == serial_rx_i
<1>1. /\ UNCHANGED <<serial_rx_back, serial_rx_front, serial_rx_front_len, pc, ret>>
      /\ \/ n >= RX_LEN /\ n' = Overflow /\ UNCHANGED serial_rx
         \/ n < RX_LEN /\ serial_rx' = [serial_rx EXCEPT ![b][n] = c] /\ n' = n + 1
  BY DEF USART_RX_vect
<1>2. /\ serial_rx \in Memory /\ b \in Buffers /\ n \in Lengths
      /\ serial_rx_front \in Buffers \cup {None} /\ serial_rx_front_len \in Lengths
      /\ serial_rx_front # b
  BY Reception
<1>3. Len(hearing) = Least(n, RX_LEN)
  BY <1>2, TextSeq, Mapped
<1>. HIDE DEF b, n
<1>4. CASE n >= RX_LEN
  <2>1. n' = Overflow /\ UNCHANGED serial_rx
    BY <1>1, <1>2, <1>4, SizesAssumption DEF Lengths, Overflow
  <2>2. Len(hearing) = RX_LEN /\ Least(n, RX_LEN) = RX_LEN /\ Least(n', RX_LEN) = RX_LEN
    BY <1>2, <1>3, <1>4, <2>1, LeastOf, SizesAssumption DEF Lengths, Overflow
  <2>3. hearing' = hearing
    BY <1>1, <2>1, <2>2, Mapped DEF TextOf, b, n
  <2>4. over' = TRUE
    <3>1. serial_rx_i' > RX_LEN
      BY <2>1, SizesAssumption DEF Overflow, n
    <3>. QED BY <3>1 DEF over
  <2>5. inbox' = inbox
    <3>1. (Holding') = Holding
      BY <1>1 DEF Holding
    <3>. QED BY <1>1, <2>1, <3>1, Mapped
  <2>6. /\ hearing' = IF Len(hearing) < RX_LEN THEN Append(hearing, c) ELSE hearing
        /\ Len(hearing) = RX_LEN
    BY <2>2, <2>3, SizesAssumption
  <2>7. Received!Hear(c)
    BY <2>4, <2>5, <2>6 DEF Received!Hear
  <2>. QED BY <2>7
<1>5. CASE n < RX_LEN
  <2>1. /\ n \in 0 .. RX_LEN - 1 /\ n' = n + 1
        /\ serial_rx' = Put(serial_rx, b, n, c)
    BY <1>1, <1>2, <1>5, SizesAssumption DEF Lengths, Overflow, Put
  <2>2. Len(hearing) = n
    BY <1>2, <1>3, <2>1, LeastOf, SizesAssumption
  <2>3. c \in Cell
    BY DEF Cell
  <2>4. hearing' = Append(hearing, c)
    <3>1. hearing' = TextOf(Put(serial_rx, b, n, c), b, n + 1)
      BY <1>1, <2>1, Mapped DEF b, n
    <3>2. hearing = TextOf(serial_rx, b, n)
      BY Mapped DEF b, n
    <3>. QED BY <1>2, <2>1, <2>3, <3>1, <3>2, TextHeard
  <2>5. over' = FALSE
    <3>1. ~(serial_rx_i' > RX_LEN)
      BY <2>1, SizesAssumption DEF n
    <3>. QED BY <3>1 DEF over
  <2>6. inbox' = inbox
    <3>1. (Holding') = Holding
      BY <1>1 DEF Holding
    <3>2. CASE serial_rx_front = None
      BY <1>1, <3>2, Mapped DEF Parcel
    <3>3. CASE serial_rx_front # None
      <4>1. serial_rx_front \in Buffers
        BY <1>2, <3>3
      <4>2. TextOf(serial_rx', serial_rx_front, serial_rx_front_len)
              = TextOf(serial_rx, serial_rx_front, serial_rx_front_len)
        BY <1>2, <2>1, <2>3, <4>1, TextApart
      <4>. QED BY <1>1, <2>1, <3>1, <3>3, <4>2, Mapped DEF Parcel
    <3>. QED BY <3>2, <3>3
  <2>7. /\ hearing' = IF Len(hearing) < RX_LEN THEN Append(hearing, c) ELSE hearing
        /\ Len(hearing) # RX_LEN
    BY <2>1, <2>2, <2>4, SizesAssumption
  <2>8. Received!Hear(c)
    BY <2>5, <2>6, <2>7 DEF Received!Hear
  <2>. QED BY <2>8
<1>. QED BY <1>2, <1>4, <1>5, SizesAssumption DEF Lengths, Overflow

\* The first silence ends the frame, the second one is not seen
\* (serial.c:140-190).
LEMMA SilenceImplements == ASSUME IInv, Step(TIMER2_COMPB_vect)
                           PROVE  Received!End \/ UNCHANGED Received!vars
<1>. UNCHANGED <<pc, ret>>
  BY DEF Step
<1>1. CASE Phase1
  <2>. DEFINE b == serial_rx_back
              n == serial_rx_i
  <2>1. /\ serial_rx \in Memory /\ b \in Buffers /\ n \in Lengths
        /\ serial_rx_front \in Buffers \cup {None} /\ serial_rx_front_len \in Lengths
    BY Reception
  <2>2. /\ n > 0 /\ n' = 0 /\ UNCHANGED serial_rx
        /\ \/ /\ serial_rx_front # None
              /\ UNCHANGED <<serial_rx_front, serial_rx_front_len>>
           \/ /\ serial_rx_front = None
              /\ serial_rx_front_len' = n /\ serial_rx_front' = b
    BY <1>1 DEF Phase1, end_of_frame, IInv, SilenceTimed
  <2>3. hearing # << >>
    <3>1. Least(n, RX_LEN) # 0
      BY <2>1, <2>2, SizesAssumption DEF Lengths, Least
    <3>2. Len(hearing) = Least(n, RX_LEN)
      BY <2>1, TextSeq, Mapped
    <3>. QED BY <3>1, <3>2
  <2>4. hearing' = << >> /\ over' = FALSE
    <3>1. Least(0, RX_LEN) = 0
      BY SizesAssumption DEF Least
    <3>2. hearing' = [i \in 1 .. 0 |-> serial_rx'[serial_rx_back'][i - 1]]
      BY <2>2, <3>1, Mapped DEF TextOf
    <3>3. ~(serial_rx_i' > RX_LEN)
      BY <2>2, SizesAssumption
    <3>4. over' = FALSE
      BY <3>3 DEF over
    <3>. QED BY <3>2, <3>4
  <2>5. (Holding') = Holding
    BY DEF Holding
  <2>6. CASE serial_rx_front # None
    <3>1. inbox' = inbox /\ inbox # << >>
      BY <2>2, <2>5, <2>6, Mapped DEF Parcel
    <3>. QED BY <2>3, <2>4, <3>1 DEF Received!End
  <2>7. CASE serial_rx_front = None
    <3>1. inbox = << >>
      BY <2>7, Mapped DEF Parcel
    <3>2. Holding' = FALSE
      <4>1. ~Holding
        BY <2>7 DEF IInv, FrameKept
      <4>. QED BY <2>5, <4>1 DEF Holding
    <3>3. inbox' = <<Letter(hearing, over, FALSE)>>
      BY <2>1, <2>2, <2>7, <3>2, Mapped, NoneAssumption DEF Parcel
    <3>. QED BY <2>3, <2>4, <3>1, <3>3 DEF Received!End, Letter
  <2>. QED BY <2>6, <2>7
<1>2. CASE Phase2
  BY <1>2, Invisible DEF Phase2, rxVars, Holding
<1>. QED BY <1>1, <1>2 DEF Step, TIMER2_COMPB_vect

\* The main loop takes the frame, and terminates it (main.c:65-86,
\* serial.c:77-87).  The one store that can reach the other buffer is the
\* NUL behind a frame of RX_LEN characters.
LEMMA TakeImplements == ASSUME IInv, Poll PROVE Received!Take
<1>. DEFINE m == serial_rx
            f == serial_rx_front
            k == serial_rx_front_len
            b == serial_rx_back
            n == serial_rx_i
            t == TextOf(m, f, k)
            o == k > RX_LEN
<1>1. /\ m \in Memory /\ b \in Buffers /\ n \in Lengths
      /\ f \in Buffers /\ k \in Lengths /\ f # b /\ f # None
  BY Reception DEF Poll
<1>2. /\ Terminate /\ UNCHANGED <<f, k, b, n>>
      /\ pc = "idle" /\ pc' \in {"ascii", "modbus", "overlong", "skip"}
  BY DEF Poll, Route
<1>3. Holding = FALSE /\ Holding' = TRUE
  BY <1>2 DEF Holding, IInv, ReturnsWell
<1>4. inbox = <<Letter(t, o, FALSE)>>
  BY <1>1, <1>3, Mapped DEF Parcel
<1>5. over' = over
  BY <1>2 DEF over
<1>. HIDE DEF m, f, k, b, n, t, o
<1>6. /\ inbox # << >> /\ inbox[1].held = FALSE /\ inbox[1].text = t /\ inbox[1].over = o
      /\ [inbox EXCEPT ![1].held = TRUE] = <<Letter(t, o, TRUE)>>
  <2>. DEFINE yes == TRUE
              no == FALSE
  <2>1. inbox = <<Letter(t, o, no)>>
    BY <1>4
  <2>. HIDE DEF yes, no
  <2>2. /\ inbox # << >> /\ inbox[1].held = no /\ inbox[1].text = t /\ inbox[1].over = o
        /\ [inbox EXCEPT ![1].held = yes] = <<Letter(t, o, yes)>>
    BY <2>1, LetterFields, LetterHeld
  <2>. QED BY <2>2 DEF yes, no
<1>7. CASE k < RX_LEN
  <2>1. k \in 0 .. RX_LEN - 1 /\ NUL \in Cell /\ k >= Least(k, RX_LEN)
    BY <1>1, <1>7, LeastOf, SizesAssumption DEF Lengths, Overflow, Cell
  <2>2. m' = Put(m, f, k, NUL)
    BY <1>2, <1>7 DEF Terminate, Put, m, f, k
  <2>3. TextOf(m', f, k) = TextOf(m, f, k) /\ TextOf(m', b, n) = TextOf(m, b, n)
    BY <1>1, <2>1, <2>2, TextApart
  <2>4. hearing' = hearing
    BY <1>2, <2>3, Mapped DEF m, b, n
  <2>5. inbox' = <<Letter(t, o, TRUE)>>
    BY <1>1, <1>2, <1>3, <2>3, Mapped DEF Parcel, m, f, k, t, o
  <2>6. inbox' = [inbox EXCEPT ![1].held = TRUE]
    BY <1>6, <2>5
  <2>. QED BY <1>5, <1>6, <2>4, <2>6 DEF Received!Take
<1>8. CASE k = RX_LEN /\ After[f] # None
  <2>1. After[f] = b /\ b \in Buffers
    <3>1. After[f] \in Buffers \cup {None} /\ After[f] # f
      BY <1>1, LayoutAssumption
    <3>. QED BY <1>1, <1>8, <3>1 DEF Buffers
  <2>2. 0 \in 0 .. RX_LEN - 1 /\ NUL \in Cell
    BY SizesAssumption DEF Cell
  <2>3. m' = Put(m, b, 0, NUL)
    BY <1>2, <1>8, <2>1, SizesAssumption DEF Terminate, Put, m, f, k
  <2>4. TextOf(m', f, k) = TextOf(m, f, k)
    BY <1>1, <2>1, <2>2, <2>3, TextApart
  <2>5. inbox' = <<Letter(t, o, TRUE)>>
    BY <1>1, <1>2, <1>3, <2>4, Mapped DEF Parcel, m, f, k, t, o
  <2>6. inbox' = [inbox EXCEPT ![1].held = TRUE]
    BY <1>6, <2>5
  <2>7. Len(inbox[1].text) = RX_LEN
    <3>1. Len(t) = Least(k, RX_LEN)
      BY <1>1, TextSeq DEF t
    <3>2. Least(k, RX_LEN) = RX_LEN
      BY <1>8, SizesAssumption DEF Least
    <3>. QED BY <1>6, <3>1, <3>2
  <2>8. ~inbox[1].over
    <3>1. ~(k > RX_LEN)
      BY <1>8, SizesAssumption
    <3>. QED BY <1>6, <3>1 DEF o
  <2>9. CASE n = 0
    <3>1. 0 \in Lengths /\ 0 >= Least(0, RX_LEN)
      BY SizesAssumption DEF Lengths, Least
    <3>2. TextOf(m', b, n) = TextOf(m, b, n)
      BY <1>1, <2>2, <2>3, <2>9, <3>1, TextApart
    <3>3. hearing' = hearing
      BY <1>2, <3>2, Mapped DEF m, b, n
    <3>. QED BY <1>5, <1>6, <2>6, <3>3 DEF Received!Take
  <2>10. CASE n # 0
    <3>1. 0 < Least(n, RX_LEN)
      BY <1>1, <2>10, SizesAssumption DEF Lengths, Least, Overflow
    <3>2. 0 + 1 = 1
      OBVIOUS
    <3>3. 1 \in DOMAIN TextOf(m, b, n) /\ TextOf(m', b, n) = [TextOf(m, b, n) EXCEPT ![1] = NUL]
      BY <1>1, <2>2, <2>3, <3>1, <3>2, TextEdited
    <3>4. hearing = TextOf(m, b, n) /\ hearing' = TextOf(m', b, n)
      BY <1>2, Mapped DEF m, b, n
    <3>5. hearing # << >>
      BY <3>3, <3>4
    <3>6. hearing' = [hearing EXCEPT ![1] = NUL]
      BY <3>3, <3>4
    <3>7. \E d \in Buffers : After[d] # None
      BY <1>1, <1>8
    <3>. QED BY <1>5, <1>6, <2>6, <2>7, <2>8, <3>5, <3>6, <3>7 DEF Received!Take
  <2>. QED BY <2>9, <2>10
<1>9. CASE ~(k < RX_LEN) /\ ~(k = RX_LEN /\ After[f] # None)
  <2>1. m' = m
    BY <1>2, <1>9 DEF Terminate, m, f, k
  <2>2. hearing' = hearing
    BY <1>2, <2>1, Mapped DEF m, b, n
  <2>3. inbox' = <<Letter(t, o, TRUE)>>
    BY <1>1, <1>2, <1>3, <2>1, Mapped DEF Parcel, m, f, k, t, o
  <2>4. inbox' = [inbox EXCEPT ![1].held = TRUE]
    BY <1>6, <2>3
  <2>. QED BY <1>5, <1>6, <2>2, <2>4 DEF Received!Take
<1>. QED BY <1>7, <1>8, <1>9

\* The text interface cuts the line into words (parse.c, through ascii.c).
LEMMA EditImplements == ASSUME IInv, NEW i \in 0 .. RX_LEN - 1, Tokenise(i)
                        PROVE  Received!Edit
<1>. DEFINE m == serial_rx
            f == serial_rx_front
            k == serial_rx_front_len
            b == serial_rx_back
            n == serial_rx_i
            o == k > RX_LEN
<1>1. /\ pc = "ascii" /\ i < k /\ m' = Put(m, f, i, NUL)
      /\ UNCHANGED <<f, k, b, n, pc, ret>>
  BY DEF Tokenise, Put
<1>2. Holding = TRUE /\ Holding' = TRUE
  BY <1>1 DEF Holding
<1>3. /\ m \in Memory /\ b \in Buffers /\ n \in Lengths
      /\ f \in Buffers /\ k \in Lengths /\ f # b /\ f # None
  BY <1>2, Reception DEF IInv, FrameKept
<1>4. i \in Nat /\ i < Least(k, RX_LEN) /\ NUL \in Cell
  BY <1>1, <1>3, SizesAssumption DEF Lengths, Overflow, Least, Cell
<1>5. over' = over
  BY <1>1 DEF over
<1>6. inbox = <<Letter(TextOf(m, f, k), o, TRUE)>>
  BY <1>2, <1>3, Mapped DEF Parcel
<1>7. inbox' = <<Letter(TextOf(m', f, k), o, TRUE)>>
  BY <1>1, <1>2, <1>3, Mapped DEF Parcel
<1>. HIDE DEF m, f, k, b, n, o
<1>8. /\ i + 1 \in DOMAIN TextOf(m, f, k)
      /\ TextOf(m', f, k) = [TextOf(m, f, k) EXCEPT ![i + 1] = NUL]
  BY <1>1, <1>3, <1>4, TextEdited
<1>9. TextOf(m', b, n) = TextOf(m, b, n)
  BY <1>1, <1>3, <1>4, TextApart
<1>10. hearing' = hearing
  BY <1>1, <1>9, Mapped DEF m, b, n
<1>11. /\ inbox # << >> /\ inbox[1].held = TRUE /\ i + 1 \in DOMAIN inbox[1].text
       /\ inbox' = [inbox EXCEPT ![1].text[i + 1] = NUL]
  <2>. DEFINE yes == TRUE
              t == TextOf(m, f, k)
              u == TextOf(m', f, k)
  <2>1. /\ inbox = <<Letter(t, o, yes)>> /\ inbox' = <<Letter(u, o, yes)>>
        /\ i + 1 \in DOMAIN t /\ u = [t EXCEPT ![i + 1] = NUL]
    BY <1>6, <1>7, <1>8
  <2>. HIDE DEF yes, t, u
  <2>2. /\ inbox # << >> /\ inbox[1].held = yes /\ inbox[1].text = t
        /\ [inbox EXCEPT ![1].text[i + 1] = NUL] = <<Letter([t EXCEPT ![i + 1] = NUL], o, yes)>>
    <3>. DEFINE j == i + 1
    <3>. j \in DOMAIN t
      BY <2>1
    <3>. HIDE DEF j
    <3>. DEFINE box == inbox
    <3>1. box = <<Letter(t, o, yes)>>
      BY <2>1
    <3>. HIDE DEF box
    <3>2. box # << >> /\ box[1].held = yes /\ box[1].text = t
      BY <3>1, LetterFields
    <3>3. [box EXCEPT ![1].text[j] = NUL] = <<Letter([t EXCEPT ![j] = NUL], o, yes)>>
      BY <3>1 DEF Letter
    <3>. QED BY <3>2, <3>3 DEF j, box
  <2>. QED BY <2>1, <2>2 DEF yes
<1>. QED BY <1>5, <1>10, <1>11 DEF Received!Edit

\* The frame is given back (main.c:94-102).
LEMMA ReleaseImplements == ASSUME IInv, Free PROVE Received!Release
<1>1. /\ pc \in {"ascii", "modbus", "overlong", "skip"} /\ serial_rx_front' = None
      /\ UNCHANGED <<serial_rx, serial_rx_back, serial_rx_i>>
  BY DEF Free, serial_free_message
<1>2. Holding = TRUE
  BY <1>1 DEF Holding
<1>3. serial_rx_front # None
  BY <1>2 DEF IInv, FrameKept
<1>4. inbox # << >> /\ inbox[1].held = TRUE
  <2>. DEFINE t == TextOf(serial_rx, serial_rx_front, serial_rx_front_len)
              o == serial_rx_front_len > RX_LEN
              yes == TRUE
  <2>1. inbox = <<Letter(t, o, yes)>>
    BY <1>2, <1>3, Mapped DEF Parcel
  <2>. HIDE DEF t, o, yes
  <2>2. inbox # << >> /\ inbox[1].held = yes
    BY <2>1, LetterFields
  <2>. QED BY <2>2 DEF yes
<1>5. inbox' = << >>
  BY <1>1, Mapped DEF Parcel
<1>6. hearing' = hearing
  BY <1>1, Mapped
<1>7. over' = over
  BY <1>1 DEF over
<1>. QED BY <1>4, <1>5, <1>6, <1>7 DEF Received!Release

\* The other steps of the main loop are not seen by reception: a reply, or a
\* line of "help", is submitted without letting go of the frame.
LEMMA LoopImplements ==
    ASSUME IInv,
           \/ Sleep \/ WriteLed \/ HelpLine \/ HelpWait \/ Arm \/ Start
           \/ \E n \in Replies : serial_tx_bin(n)
    PROVE  UNCHANGED Received!vars
<1>1. UNCHANGED <<serial_rx, serial_rx_back, serial_rx_front, serial_rx_front_len, serial_rx_i>>
  BY DEF Sleep, WriteLed, HelpLine, HelpWait, Arm, Start, serial_tx_bin, vars, serialVars, rxVars
<1>2. Holding' <=> Holding
  BY DEF Sleep, WriteLed, HelpLine, HelpWait, Arm, Start, serial_tx_bin, vars, Holding,
         IInv, ReturnsWell, TypeOK
<1>. QED BY <1>1, <1>2, Invisible

\* Every step of the program is a step of the mailbox, or invisible to it.
LEMMA InboxStep == IInv /\ [Next]_vars => [Received!Next]_(Received!vars)
<1>. SUFFICES ASSUME IInv, [Next]_vars PROVE [Received!Next]_(Received!vars)
  OBVIOUS
<1>1. CASE Main
  BY <1>1, TakeImplements, EditImplements, ReleaseImplements, LoopImplements
  DEF Main, Received!Next
<1>2. CASE Step(TIMER2_COMPB_vect)
  BY <1>2, SilenceImplements DEF Received!Next
<1>3. CASE Step(Hear)
  BY <1>3, HearImplements DEF Received!Next
<1>4. CASE Step(USART_UDRE_vect \/ USART_TX_vect \/ Elapse \/ Shift)
  <2>1. UNCHANGED <<rxVars, pc, ret>>
    BY <1>4 DEF Step, USART_UDRE_vect, USART_TX_vect, Elapse, TimerMatch, Shift, ShiftDone
  <2>. QED BY <2>1, Invisible DEF rxVars, Holding
<1>5. CASE UNCHANGED vars
  BY <1>5, Invisible DEF vars, serialVars, rxVars, Holding
<1>. QED BY <1>1, <1>2, <1>3, <1>4, <1>5 DEF Next, Step, Interrupts

\* Reset leaves the mailbox empty.
LEMMA InboxInit == Init => Received!Init
<1>. SUFFICES ASSUME Init PROVE Received!Init
  OBVIOUS
<1>1. serial_rx_front = None /\ serial_rx_i = 0
  BY DEF Init, SerialInit
<1>2. Least(0, RX_LEN) = 0 /\ ~(0 > RX_LEN)
  BY SizesAssumption DEF Least
<1>3. hearing = [i \in 1 .. 0 |-> serial_rx[serial_rx_back][i - 1]]
  BY <1>1, <1>2, Mapped DEF TextOf
<1>4. hearing = << >>
  BY <1>3
<1>5. over = FALSE
  BY <1>1, <1>2 DEF over
<1>6. inbox = << >>
  BY <1>1, Mapped DEF Parcel
<1>. QED BY <1>4, <1>5, <1>6 DEF Received!Init

-----------------------------------------------------------------------------
(* What a reader should know.                                              *)

\* Reception implements the mailbox: a frame reaches the main loop as it was
\* heard, a frame nobody has room for is dropped whole, and a taken frame
\* changes only by the hand of its holder, but for the NUL of a full frame.
THEOREM InboxRefined == Spec => ImplementsInbox
BY InboxInit, InboxStep, Invariance, PTL DEF Spec, ImplementsInbox, Received!Spec

\* The NUL of a full frame is the only way frames are spoilt: where the
\* linker puts no receive buffer behind another, every frame stays intact.
THEOREM IntactWhereApart ==
    ASSUME \A b \in Buffers : After[b] = None
    PROVE  Spec => FramesIntact
<1>1. Received!Init => Intact!Init
  BY DEF Received!Init, Intact!Init
<1>2. [Received!Next]_(Received!vars) => [Intact!Next]_(Intact!vars)
  BY DEF Received!Next, Received!vars, Received!Hear, Received!End, Received!Take,
         Received!Edit, Received!Release, Intact!Next, Intact!vars, Intact!Hear, Intact!End,
         Intact!Take, Intact!Edit, Intact!Release
<1>. QED
  BY <1>1, <1>2, InboxRefined, PTL
  DEF ImplementsInbox, FramesIntact, Received!Spec, Intact!Spec

=============================================================================
