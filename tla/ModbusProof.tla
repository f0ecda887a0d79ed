----------------------------- MODULE ModbusProof ----------------------------
(***************************************************************************)
(* The Modbus interface keeps the promise of Assignments, answers what was *)
(* asked and stays inside its buffer, for all requests and words.          *)
(***************************************************************************)
EXTENDS Modbus, SequenceTheorems, TLAPS

Writes == {5, 6, 15, 16}
Reads == {1, 2, 3, 4}

\* What the checks of the handlers leave to be worked on, and how far it goes.
Accepted(f) == ~Dropped(f) /\ Refusal(f) = OK
Bounded(f, n) ==
    /\ f.function \in {1, 2, 3, 4, 15} => n <= f.count
    /\ f.function = 5 => n <= 1
    /\ f.function \in {6, 16} => 2 * n <= f.bytes

\* What is at hand at each place of an exchange.  Work that has begun is inside
\* the table, so that its addresses do not wrap.
Succeeded == (pc = "answered" /\ status = OK) \/ (pc = "idle" /\ verdict = "ok")
Phase ==
    /\ (verdict = "waiting") = (pc # "idle")
    /\ pc # "idle" \/ Succeeded => request \in Requests
    /\ pc = "sent" => done = 0 /\ tx = <<>>
    /\ pc = "working" =>
          /\ Accepted(request) /\ Bounded(request, done)
          /\ done > 0 => request.addr + done <= 15
          /\ request.function \in Reads => Len(tx) = done
    /\ Succeeded => Accepted(request) /\ Bounded(request, done) /\ ~More(request, done)

\* At the addresses worked on there were commands, and what power cuts spare of
\* the settings is as the request has it.
Holds(f, n, s) ==
    \A a \in f.addr .. f.addr + n - 1 :
        ~Continues(f, 0, a) =>
            \E c \in Begins(f, a) :
                c.name \in Persistent => s[c.name] = Data(f, a - f.addr, c.size)
Made ==
    request.function \in Writes /\ (pc = "working" \/ Succeeded) =>
        Holds(request, done, settings)

IInv == TypeOK /\ AnswerFits /\ Phase /\ Made

-----------------------------------------------------------------------------
(* The table of commands. *)

LEMMA TableRows ==
    ASSUME NEW c \in cmd_modbus
    PROVE  /\ c.addr \in 0 .. 14 /\ c.size \in {1, 2} /\ c.addr + c.size <= 15
           /\ c.type # "holding" => c.size = 1
           /\ c.type # "discrete"
           /\ c.type \in {"coil", "holding"} => c.name \in Settings /\ Len(Initial[c.name]) = c.size
           /\ c.type = "coil" => c.name \notin Persistent
  BY DEF cmd_modbus, Cmd, Settings, Coils, Initial, Persistent

\* No two commands meet.
LEMMA TableApart ==
    ASSUME NEW c \in cmd_modbus, NEW d \in cmd_modbus, c.type = d.type, NEW x \in Int,
           c.addr <= x, x < c.addr + c.size, d.addr <= x, x < d.addr + d.size
    PROVE  c = d
  BY DEF cmd_modbus, Cmd

LEMMA NamesApart ==
    ASSUME NEW c \in cmd_modbus, NEW d \in cmd_modbus, c.name = d.name
    PROVE  c = d
  BY DEF cmd_modbus, Cmd

\* What is found at an address inside the table begins there.
LEMMA FoundHere ==
    ASSUME NEW type, NEW a \in 0 .. WORD - 1, NEW c \in find_cmd(type, a)
    PROVE  c \in cmd_modbus /\ c.type = type /\ c.addr = a
<1>1. a % WORD = a
  BY ModbusAssumption
<1> QED BY <1>1 DEF find_cmd

LEMMA FoundOnce ==
    ASSUME NEW type, NEW a, NEW c \in find_cmd(type, a), NEW d \in find_cmd(type, a)
    PROVE  c = d
<1>1. c \in cmd_modbus /\ d \in cmd_modbus /\ c.type = d.type /\ c.addr = d.addr
  BY DEF find_cmd
<1>2. c.addr \in Int /\ c.size \in {1, 2} /\ d.size \in {1, 2}
  BY <1>1, TableRows
<1> QED BY ONLY <1>1, <1>2, TableApart

-----------------------------------------------------------------------------
(* Requests. *)

LEMMA RequestTyped ==
    ASSUME NEW f \in Requests
    PROVE  /\ f.unit \in Nat /\ f.function \in Nat /\ f.len \in Nat
           /\ f.addr \in 0 .. WORD - 1 /\ f.count \in 0 .. WORD - 1 /\ f.bytes \in 0 .. WORD - 1
           /\ f.data \in Seq(0 .. WORD - 1) /\ Len(f.data) \in Nat
<1>1. f \in Frames
  BY ModbusAssumption
<1>2. f.data \in Seq(0 .. WORD - 1)
  BY ONLY <1>1 DEF Frames
<1>3. Len(f.data) \in Nat
  BY ONLY <1>2, LenProperties
<1> QED BY ONLY <1>1, <1>2, <1>3 DEF Frames

LEMMA AcceptedLimits ==
    ASSUME NEW f \in Requests, Accepted(f)
    PROVE  /\ f.function \in Reads \cup Writes
           /\ f.function \in {3, 4} => 3 + 2 * f.count <= TX_LEN
           /\ f.function \in {6, 16} => Len(f.data) = f.bytes \div 2
<1>1. f.function \in Reads \cup Writes
  BY DEF Accepted, Refusal, OK, ILLEGAL_FUNCTION, Reads, Writes
<1>2. CASE f.function \in {3, 4}
  <2>1. ~(f.count > (TX_LEN - 3) \div 2)
    <3> DEFINE Long == f.count > (TX_LEN - 3) \div 2
    <3>1. Long => Refusal(f) # OK
      <4> HIDE DEF Long
      <4>1. Refusal(f) = IF f.len # 8 THEN ILLEGAL_FUNCTION
                         ELSE IF Long THEN SLAVE_OR_SERVER_FAILURE ELSE OK
        BY <1>2 DEF Refusal, Long
      <4> QED BY <4>1 DEF OK, ILLEGAL_FUNCTION, SLAVE_OR_SERVER_FAILURE
    <3> QED BY <3>1 DEF Accepted
  <2>2. f.count \in Nat /\ TX_LEN \in Nat /\ TX_LEN >= 8
    BY RequestTyped, ModbusAssumption
  <2>3. 3 + 2 * f.count <= TX_LEN
    BY ONLY <2>1, <2>2
  <2> QED BY <1>1, <1>2, <2>3
<1>3. CASE f.function = 6
  <2>1. f.bytes = 2 /\ Len(f.data) = 1
    BY <1>3, ModbusAssumption
  <2> QED BY <1>1, <1>3, <2>1
<1>4. CASE f.function = 16
  <2>1. f.len >= 9 /\ 9 + f.bytes = f.len
    BY <1>4, RequestTyped DEF Accepted, Refusal, OK, ILLEGAL_FUNCTION
  <2>2. Len(f.data) = (f.len - 9) \div 2 /\ f.bytes = f.len - 9
    BY <1>4, <2>1, ModbusAssumption, RequestTyped
  <2> QED BY <1>1, <1>4, <2>2
<1> QED BY <1>1, <1>2, <1>3, <1>4

LEMMA MoreMeans ==
    ASSUME NEW f, NEW n
    PROVE  /\ f.function \in {1, 2, 3, 4, 15} => More(f, n) = (n < f.count)
           /\ f.function = 5 => More(f, n) = (n < 1)
           /\ f.function \in {6, 16} => More(f, n) = (2 * n < f.bytes)
<1> DEFINE A == n < f.count
           B == n < 1
           C == 2 * n < f.bytes
<1>1. More(f, n) = CASE f.function \in {1, 2, 3, 4, 15} -> A
                     [] f.function = 5 -> B
                     [] f.function \in {6, 16} -> C
  BY DEF More
<1> HIDE DEF A, B, C
<1>2. f.function \in {1, 2, 3, 4, 15} => More(f, n) = A
  BY <1>1
<1>3. f.function = 5 => More(f, n) = B
  BY <1>1
<1>4. f.function \in {6, 16} => More(f, n) = C
  BY <1>1
<1> QED BY <1>2, <1>3, <1>4 DEF A, B, C

\* The data of a value, and of a coil.
LEMMA DataTyped ==
    ASSUME NEW f \in Requests, NEW n \in Nat, NEW size \in {1, 2}, n + size <= Len(f.data)
    PROVE  Data(f, n, size) \in Seq(0 .. WORD - 1) /\ Len(Data(f, n, size)) = size
<1>1. f.data \in Seq(0 .. WORD - 1) /\ Len(f.data) \in Nat
  BY RequestTyped
<1>2. \A i \in n + 1 .. n + size : f.data[i] \in 0 .. WORD - 1
  <2> SUFFICES ASSUME NEW i \in n + 1 .. n + size PROVE f.data[i] \in 0 .. WORD - 1
    OBVIOUS
  <2>1. i \in 1 .. Len(f.data)
    BY <1>1
  <2> QED BY ONLY <1>1, <2>1, ElementOfSeq
<1>3. n + 1 \in Int /\ n + size \in Int /\ n + 1 <= n + size /\ n + size - (n + 1) + 1 = size
  OBVIOUS
<1>4. /\ SubSeq(f.data, n + 1, n + size) \in Seq(0 .. WORD - 1)
      /\ Len(SubSeq(f.data, n + 1, n + size)) = size
  BY ONLY <1>2, <1>3, SubSeqProperties
<1> QED BY ONLY <1>4 DEF Data

LEMMA CarriedTyped ==
    ASSUME NEW f \in Requests, NEW n \in Nat
    PROVE  Carried(f, n) # {} /\ \A v \in Carried(f, n) : v \in 0 .. WORD - 1
<1>1. f.data \in Seq(0 .. WORD - 1) /\ Len(f.data) \in Nat
  BY RequestTyped
<1>2. CASE n < Len(f.data)
  <2>1. n + 1 \in 1 .. Len(f.data)
    BY <1>1, <1>2
  <2>2. f.data[n + 1] \in 0 .. WORD - 1
    BY ONLY <1>1, <2>1, ElementOfSeq
  <2> QED BY <1>2, <2>2 DEF Carried
<1>3. CASE ~(n < Len(f.data))
  BY <1>3, ModbusAssumption DEF Carried
<1> QED BY <1>2, <1>3

LEMMA SettingTyped ==
    ASSUME TypeOK, NEW s \in Settings, NEW v \in Seq(0 .. WORD - 1), Len(v) = Len(Initial[s]),
           settings' = [settings EXCEPT ![s] = v]
    PROVE  /\ settings' \in [Settings -> Seq(0 .. WORD - 1)]
           /\ \A x \in Settings : Len(settings'[x]) = Len(Initial[x])
  BY DEF TypeOK

Items == {c.name : c \in cmd_modbus} \X {1, 2}

LEMMA PartsTyped ==
    ASSUME NEW c \in cmd_modbus
    PROVE  /\ Parts(c) \in Seq(Items) /\ Len(Parts(c)) = c.size
           /\ \A k \in 1 .. c.size : Parts(c)[k] = <<c.name, k>>
<1>1. c.size \in {1, 2}
  BY TableRows
<1>2. \A k \in 1 .. c.size : <<c.name, k>> \in Items
  BY <1>1 DEF Items
<1>3. Parts(c) \in [1 .. c.size -> Items]
  BY <1>2 DEF Parts
<1>4. Parts(c) \in Seq(Items) /\ Len(Parts(c)) = c.size
  BY ONLY <1>1, <1>3
<1> QED BY <1>4 DEF Parts

-----------------------------------------------------------------------------
(* The invariant, action by action. *)

LEMMA InitialTyped == \A s \in Settings : Initial[s] \in Seq(0 .. WORD - 1)
<1>1. <<0>> \in Seq(0 .. WORD - 1) /\ <<0, 0>> \in Seq(0 .. WORD - 1)
  BY ModbusAssumption
<1>2. \A s \in Settings : Initial[s] = <<0>> \/ Initial[s] = <<0, 0>>
  BY DEF Initial
<1> QED BY ONLY <1>1, <1>2

LEMMA InitHolds == Init => IInv
<1> SUFFICES ASSUME Init PROVE IInv
  OBVIOUS
<1>1. settings \in [Settings -> Seq(0 .. WORD - 1)]
  BY InitialTyped DEF Init, Initial
<1>2. tx \in Seq({c.name : c \in cmd_modbus} \X {1, 2})
  BY DEF Init
<1>3. TypeOK
  BY <1>1, <1>2, ModbusAssumption DEF Init, TypeOK, OK
<1>4. AnswerFits
  BY ModbusAssumption DEF Init, AnswerFits, NoRequest
<1>5. Phase /\ Made
  BY DEF Init, Phase, Made, Succeeded, NoRequest, Writes
<1> QED BY <1>3, <1>4, <1>5 DEF IInv

LEMMA SendHolds == IInv /\ Send => IInv'
<1> SUFFICES ASSUME IInv, Send PROVE IInv'
  OBVIOUS
<1>1. TypeOK'
  BY ModbusAssumption DEF IInv, TypeOK, Send
<1>2. Phase' /\ Made'
  BY DEF Phase, Made, Send, Succeeded
<1>3. AnswerFits'
  BY ModbusAssumption DEF AnswerFits, Send
<1> QED BY <1>1, <1>2, <1>3 DEF IInv

LEMMA ReceiveHolds == IInv /\ Receive => IInv'
<1> SUFFICES ASSUME IInv, Receive PROVE IInv'
  OBVIOUS
<1>0. /\ pc = "sent" /\ done = 0 /\ tx = <<>> /\ request \in Requests
      /\ UNCHANGED <<settings, request, done, tx, verdict>>
  BY DEF IInv, Phase, Receive
<1>1. CASE pc' = "silent" /\ UNCHANGED status
  BY <1>0, <1>1 DEF IInv, TypeOK, AnswerFits, Phase, Made, Succeeded
<1>2. CASE /\ ~Dropped(request) /\ status' = Refusal(request)
           /\ pc' = IF status' = OK THEN "working" ELSE "answered"
  <2>1. status' \in {OK, ILLEGAL_FUNCTION, ILLEGAL_DATA_ADDRESS, SLAVE_OR_SERVER_FAILURE}
    BY <1>2 DEF Refusal
  <2>2. TypeOK'
    BY <1>0, <1>2, <2>1 DEF IInv, TypeOK
  <2>3. AnswerFits'
    BY <1>0, <1>2 DEF IInv, AnswerFits
  <2>4. Bounded(request, 0)
    BY <1>0, RequestTyped DEF Bounded
  <2>5. Phase'
    BY <1>0, <1>2, <2>4 DEF IInv, Phase, Succeeded, Accepted
  <2>6. Holds(request, 0, settings)
    BY <1>0, RequestTyped DEF Holds
  <2>7. Made'
    BY <1>0, <2>6 DEF Made
  <2> QED BY <2>2, <2>3, <2>5, <2>7 DEF IInv
<1> QED BY <1>1, <1>2 DEF Receive

LEMMA ExceptionHolds ==
    ASSUME IInv, pc = "working", fill_exception(ILLEGAL_DATA_ADDRESS)
    PROVE  IInv'
<1>1. status' # OK /\ pc' = "answered" /\ UNCHANGED <<settings, request, done, tx, verdict>>
  BY DEF fill_exception, OK, ILLEGAL_DATA_ADDRESS
<1>2. TypeOK'
  BY <1>1 DEF IInv, TypeOK, fill_exception
<1> QED BY <1>1, <1>2 DEF IInv, AnswerFits, Phase, Made, Succeeded

\* A command found at the place of work begins there, inside the table.
LEMMA AtHere ==
    ASSUME IInv, pc = "working", NEW c \in Here
    PROVE  /\ request \in Requests /\ Accepted(request) /\ Bounded(request, done) /\ done \in Nat
           /\ c \in cmd_modbus /\ c.type = Object(request.function)
           /\ c.addr = request.addr + done
           /\ request.addr + (done + c.size) <= 15
<1>1. request \in Requests /\ Accepted(request) /\ Bounded(request, done) /\ done \in Nat
  BY DEF IInv, TypeOK, Phase
<1>2. request.addr + done \in 0 .. WORD - 1
  <2>1. request.addr \in 0 .. WORD - 1
    BY <1>1, RequestTyped
  <2>2. done > 0 => request.addr + done <= 15
    BY DEF IInv, Phase
  <2> QED BY <1>1, <2>1, <2>2, ModbusAssumption
<1>3. c \in cmd_modbus /\ c.type = Object(request.function) /\ c.addr = request.addr + done
  BY <1>2, FoundHere DEF Here
<1>4. request.addr + (done + c.size) <= 15
  <2>1. c.addr + c.size <= 15 /\ c.size \in {1, 2} /\ request.addr \in Int
    BY <1>1, <1>3, TableRows, RequestTyped
  <2> QED BY ONLY <1>1, <1>3, <2>1
<1> QED BY <1>1, <1>3, <1>4

\* Work goes on behind a command.
LEMMA GoesOn ==
    ASSUME IInv, pc = "working", NEW c \in Here, done' = done + c.size,
           Bounded(request, done + c.size), request.function \in Reads => Len(tx') = done',
           UNCHANGED <<pc, request, status, verdict>>
    PROVE  Phase' /\ done' \in 0 .. WORD - 1
<1>1. c.size \in {1, 2} /\ request \in Requests /\ done \in Nat /\ Accepted(request)
      /\ request.addr + (done + c.size) <= 15
  BY AtHere, TableRows
<1>2. request.addr \in Nat
  BY <1>1, RequestTyped
<1>3. done' \in 0 .. WORD - 1
  BY <1>1, <1>2, ModbusAssumption
<1>4. Phase'
  BY <1>1 DEF IInv, Phase, Succeeded
<1> QED BY <1>3, <1>4

LEMMA ReadHolds ==
    ASSUME IInv, pc = "working", request.function \in Reads, NEW c \in Here, done' = done + c.size,
           tx' \in Seq({x.name : x \in cmd_modbus} \X {1, 2}),
           Bounded(request, done + c.size), Len(tx') = done + c.size,
           UNCHANGED <<settings, pc, request, status, verdict>>
    PROVE  IInv'
<1>1. Phase' /\ done' \in 0 .. WORD - 1
  BY GoesOn
<1>2. TypeOK'
  BY <1>1 DEF IInv, TypeOK
<1>3. AnswerFits'
  <2>1. request \in Requests /\ Accepted(request) /\ c.size \in {1, 2} /\ done \in Nat
    BY AtHere, TableRows
  <2>2. CASE request.function \in {3, 4}
    <3>1. 3 + 2 * request.count <= TX_LEN /\ request.count \in Nat
      BY <2>1, <2>2, AcceptedLimits, RequestTyped
    <3>2. done + c.size <= request.count
      BY <2>2 DEF Bounded
    <3>3. Len(tx') \in Nat
      BY LenProperties
    <3>4. 3 + 2 * Len(tx') <= TX_LEN
      BY <2>1, <3>1, <3>2, <3>3, ModbusAssumption
    <3> QED BY <3>4 DEF AnswerFits
  <2>3. CASE request.function \notin {3, 4}
    BY <2>3 DEF AnswerFits
  <2> QED BY <2>2, <2>3
<1>4. Made'
  BY DEF Made, Reads, Writes
<1> QED BY <1>1, <1>2, <1>3, <1>4 DEF IInv

LEMMA ReadBitsHolds == IInv /\ read_bits => IInv'
<1> SUFFICES ASSUME IInv, read_bits PROVE IInv'
  OBVIOUS
<1>0. pc = "working" /\ request.function \in {1, 2} /\ done < request.count
  <2>1. pc = "working" /\ request.function \in {1, 2} /\ More(request, done)
    BY DEF read_bits, Working
  <2> QED BY <2>1, MoreMeans
<1>1. CASE fill_exception(ILLEGAL_DATA_ADDRESS)
  BY <1>0, <1>1, ExceptionHolds
<1>2. ASSUME NEW c \in Here, tx' = Append(tx, <<c.name, 1>>), done' = done + 1,
             UNCHANGED <<settings, pc, request, status, verdict>>
      PROVE  IInv'
  <2>1. c \in cmd_modbus /\ c.type # "holding" /\ request \in Requests /\ done \in Nat
    BY <1>0, <1>2, AtHere DEF Object
  <2>2. c.size = 1
    BY <2>1, TableRows
  <2>3. <<c.name, 1>> \in {x.name : x \in cmd_modbus} \X {1, 2}
    BY <2>1
  <2>4. tx \in Seq({x.name : x \in cmd_modbus} \X {1, 2}) /\ Len(tx) = done
    BY <1>0 DEF IInv, TypeOK, Phase, Reads
  <2>5. tx' \in Seq({x.name : x \in cmd_modbus} \X {1, 2}) /\ Len(tx') = done + 1
    BY ONLY <1>2, <2>3, <2>4, AppendProperties
  <2>6. Bounded(request, done + 1)
    BY <1>0, <2>1, RequestTyped DEF Bounded
  <2> QED BY <1>0, <1>2, <2>2, <2>5, <2>6, ReadHolds DEF Reads
<1> QED BY <1>1, <1>2 DEF read_bits

LEMMA ReadRegistersHolds == IInv /\ read_registers => IInv'
<1> SUFFICES ASSUME IInv, read_registers PROVE IInv'
  OBVIOUS
<1>0. pc = "working" /\ request.function \in {3, 4}
  BY DEF read_registers, Working
<1>1. CASE fill_exception(ILLEGAL_DATA_ADDRESS)
  BY <1>0, <1>1, ExceptionHolds
<1>2. ASSUME NEW c \in Here, c.size <= request.count - done, tx' = tx \o Parts(c), done' = done + c.size,
             UNCHANGED <<settings, pc, request, status, verdict>>
      PROVE  IInv'
  <2>1. c \in cmd_modbus /\ request \in Requests /\ done \in Nat
    BY <1>0, <1>2, AtHere
  <2>2. c.size \in {1, 2} /\ request.count \in Nat
    BY <2>1, TableRows, RequestTyped
  <2>3. Parts(c) \in Seq({x.name : x \in cmd_modbus} \X {1, 2}) /\ Len(Parts(c)) = c.size
    BY <2>1, PartsTyped DEF Items
  <2>4. tx \in Seq({x.name : x \in cmd_modbus} \X {1, 2}) /\ Len(tx) = done
    BY <1>0 DEF IInv, TypeOK, Phase, Reads
  <2>5. tx' \in Seq({x.name : x \in cmd_modbus} \X {1, 2}) /\ Len(tx') = done + c.size
    BY ONLY <1>2, <2>3, <2>4, ConcatProperties
  <2>6. Bounded(request, done + c.size)
    BY <1>0, <1>2, <2>1, <2>2 DEF Bounded
  <2> QED BY <1>0, <1>2, <2>5, <2>6, ReadHolds DEF Reads
<1> QED BY <1>1, <1>2 DEF read_registers

\* A setter called for the command at the place of work.
LEMMA SetHolds ==
    ASSUME IInv, pc = "working", request.function \in Writes, NEW c \in Here, done' = done + c.size,
           NEW v \in Seq(0 .. WORD - 1), Len(v) = c.size,
           settings' = [settings EXCEPT ![c.name] = v],
           c.name \in Persistent => v = Data(request, done, c.size),
           c \in Begins(request, request.addr + done), request.addr + done \in Rest(request, 0),
           Bounded(request, done + c.size),
           UNCHANGED <<pc, request, tx, status, verdict>>
    PROVE  IInv'
<1>0. /\ request \in Requests /\ done \in Nat /\ c \in cmd_modbus /\ c.type = Object(request.function)
      /\ c.addr = request.addr + done /\ request.addr + (done + c.size) <= 15
  BY AtHere
<1>1. c.size \in {1, 2} /\ c.name \in Settings /\ Len(Initial[c.name]) = c.size
  BY <1>0, TableRows DEF Object, Writes
<1>2. Phase' /\ done' \in 0 .. WORD - 1
  BY GoesOn DEF Reads, Writes
<1>3. TypeOK'
  <2>1. /\ settings' \in [Settings -> Seq(0 .. WORD - 1)]
        /\ \A x \in Settings : Len(settings'[x]) = Len(Initial[x])
    BY <1>1, SettingTyped DEF IInv
  <2> QED BY <1>2, <2>1 DEF IInv, TypeOK
<1>4. AnswerFits'
  BY DEF IInv, AnswerFits
<1>5. Holds(request, done + c.size, settings')
  <2> SUFFICES ASSUME NEW a \in request.addr .. request.addr + (done + c.size) - 1,
                      ~Continues(request, 0, a)
               PROVE  \E d \in Begins(request, a) :
                        d.name \in Persistent =>
                            settings'[d.name] = Data(request, a - request.addr, d.size)
    BY DEF Holds
  <2>0. request.addr \in Nat
    BY <1>0, RequestTyped
  <2>. a \in Int /\ request.addr <= a /\ a < request.addr + (done + c.size)
    BY ONLY a \in request.addr .. request.addr + (done + c.size) - 1, <1>0, <1>1, <2>0
  <2>1. CASE a < request.addr + done
    <3>1. a \in request.addr .. request.addr + done - 1
      BY ONLY <1>0, <2>0, <2>1, a \in Int, request.addr <= a
    <3>2. PICK d \in Begins(request, a) :
            d.name \in Persistent => settings[d.name] = Data(request, a - request.addr, d.size)
      BY <3>1 DEF IInv, Made, Holds
    <3>3. a \in 0 .. WORD - 1
      <4>1. WORD \in Nat /\ WORD >= 16
        BY ModbusAssumption
      <4> QED BY ONLY <4>1, <1>0, <1>1, <2>0, a \in Int, request.addr <= a, a < request.addr + (done + c.size)
    <3>4. d \in cmd_modbus /\ d.addr = a
      BY <3>3, FoundHere DEF Begins
    <3>5. d # c
      BY <1>0, <2>0, <3>1, <3>4
    <3>6. d.name # c.name
      BY <1>0, <3>4, <3>5, NamesApart
    <3>7. d.name \in Persistent => settings'[d.name] = settings[d.name]
      BY <3>6 DEF IInv, TypeOK, Persistent, Settings, Coils
    <3> QED BY <3>2, <3>7
  <2>2. CASE a = request.addr + done
    <3>1. a - request.addr = done
      BY <1>0, <2>0, <2>2
    <3>2. settings'[c.name] = v
      BY <1>1 DEF IInv, TypeOK
    <3> QED BY <2>2, <3>1, <3>2
  <2>3. CASE a > request.addr + done
    <3>1. request.addr + done < a /\ a < (request.addr + done) + c.size
      BY ONLY <1>0, <1>1, <2>0, <2>3, a \in Int, a < request.addr + (done + c.size)
    <3>2. Continues(request, 0, a)
      BY ONLY <3>1, c \in Begins(request, request.addr + done), request.addr + done \in Rest(request, 0)
      DEF Continues
    <3> QED BY ONLY <3>2, ~Continues(request, 0, a)
  <2> QED BY ONLY <1>0, <2>0, <2>1, <2>2, <2>3, a \in Int
<1>6. Made'
  BY <1>5 DEF Made
<1> QED BY <1>2, <1>3, <1>4, <1>6 DEF IInv

\* Work that is left is on an object of the request, within its limits.
LEMMA WorkLeft ==
    ASSUME NEW f \in Requests, NEW n \in Nat, f.function \in Writes, Bounded(f, n), More(f, n)
    PROVE  /\ f.addr + n \in Rest(f, 0)
           /\ f.function \in {5, 15} => Bounded(f, n + 1)
<1>1. f.addr \in Nat /\ f.count \in Nat /\ f.bytes \in Nat
  BY RequestTyped
<1>2. CASE f.function = 5
  <2>1. n < 1 /\ Objects(f) = 1
    BY <1>2, MoreMeans DEF Objects
  <2> QED BY ONLY <1>1, <1>2, <2>1, n \in Nat DEF Rest, Bounded
<1>3. CASE f.function = 15
  <2>1. n < f.count
    BY <1>3, MoreMeans
  <2>2. Objects(f) = f.count
    BY <1>3 DEF Objects
  <2> QED BY ONLY <1>1, <1>3, <2>1, <2>2, n \in Nat DEF Rest, Bounded
<1>4. CASE f.function \in {6, 16}
  <2>1. 2 * n < f.bytes
    BY <1>4, MoreMeans
  <2>2. Objects(f) = (f.bytes + 1) \div 2
    BY <1>4 DEF Objects
  <2>3. n < (f.bytes + 1) \div 2
    BY ONLY <1>1, <2>1, n \in Nat
  <2>4. f.addr + n \in Rest(f, 0)
    BY ONLY <1>1, <2>2, <2>3, n \in Nat DEF Rest
  <2> QED BY <1>4, <2>4
<1> QED BY <1>2, <1>3, <1>4 DEF Writes

LEMMA BitWriteHolds == IInv /\ try_bit_write => IInv'
<1> SUFFICES ASSUME IInv, try_bit_write PROVE IInv'
  OBVIOUS
<1>0. pc = "working" /\ request.function \in {5, 15} /\ More(request, done)
  BY DEF try_bit_write, Working
<1>1. CASE fill_exception(ILLEGAL_DATA_ADDRESS)
  BY <1>0, <1>1, ExceptionHolds
<1>2. ASSUME NEW c \in Here, NEW value \in Carried(request, done),
             settings' = [settings EXCEPT ![c.name] = <<value>>], done' = done + 1,
             UNCHANGED <<pc, request, tx, status, verdict>>
      PROVE  IInv'
  <2>1. /\ request \in Requests /\ done \in Nat /\ c \in cmd_modbus /\ c.type = "coil"
        /\ Bounded(request, done)
    BY <1>0, <1>2, AtHere DEF Object
  <2>2. c.size = 1 /\ c.name \notin Persistent
    BY <2>1, TableRows
  <2>3. value \in 0 .. WORD - 1
    BY <1>2, <2>1, CarriedTyped
  <2>4. <<value>> \in Seq(0 .. WORD - 1) /\ Len(<<value>>) = 1
    BY <2>3
  <2>5. c \in Begins(request, request.addr + done)
    BY <2>1 DEF Begins, Here
  <2>6. request.addr + done \in Rest(request, 0) /\ Bounded(request, done + 1)
    BY <1>0, <2>1, WorkLeft DEF Writes
  <2> QED BY <1>0, <1>2, <2>2, <2>4, <2>5, <2>6, SetHolds DEF Writes
<1> QED BY <1>1, <1>2 DEF try_bit_write

LEMMA RegisterWriteHolds == IInv /\ try_register_write => IInv'
<1> SUFFICES ASSUME IInv, try_register_write PROVE IInv'
  OBVIOUS
<1>0. pc = "working" /\ request.function \in {6, 16} /\ More(request, done)
  BY DEF try_register_write, Working
<1>1. CASE fill_exception(ILLEGAL_DATA_ADDRESS)
  BY <1>0, <1>1, ExceptionHolds
<1>2. ASSUME NEW c \in Here, 2 * c.size <= request.bytes - 2 * done,
             settings' = [settings EXCEPT ![c.name] = Data(request, done, c.size)],
             done' = done + c.size,
             UNCHANGED <<pc, request, tx, status, verdict>>
      PROVE  IInv'
  <2>1. /\ request \in Requests /\ done \in Nat /\ c \in cmd_modbus /\ c.type = "holding"
        /\ Bounded(request, done) /\ Accepted(request)
    BY <1>0, <1>2, AtHere DEF Object
  <2>2. c.size \in {1, 2}
    BY <2>1, TableRows
  <2>3. request.bytes \in Nat /\ request.addr \in Nat /\ Len(request.data) = request.bytes \div 2
    BY <1>0, <2>1, RequestTyped, AcceptedLimits
  <2>4. done + c.size <= Len(request.data)
    BY ONLY <1>2, <2>1, <2>2, <2>3
  <2>5. Data(request, done, c.size) \in Seq(0 .. WORD - 1) /\ Len(Data(request, done, c.size)) = c.size
    BY ONLY <2>1, <2>2, <2>4, DataTyped
  <2>6. c \in Begins(request, request.addr + done)
    <3>1. (request.addr + done) - request.addr = done
      BY ONLY <2>1, <2>3
    <3> QED BY <1>2, <3>1 DEF Begins, Here
  <2>7. Bounded(request, done + c.size)
    <3>1. 2 * (done + c.size) <= request.bytes
      BY ONLY <1>2, <2>1, <2>2, <2>3
    <3> QED BY <1>0, <3>1 DEF Bounded
  <2>8. request.addr + done \in Rest(request, 0)
    BY <1>0, <2>1, WorkLeft DEF Writes
  <2> QED BY <1>0, <1>2, <2>5, <2>6, <2>7, <2>8, SetHolds DEF Writes
<1> QED BY <1>1, <1>2 DEF try_register_write

LEMMA FinishHolds == IInv /\ Finish => IInv'
<1> SUFFICES ASSUME IInv, Finish PROVE IInv'
  OBVIOUS
<1>1. /\ pc = "working" /\ ~More(request, done) /\ pc' = "answered"
      /\ status' = IF AnswerLen(request) + 2 > TX_LEN THEN SLAVE_OR_SERVER_FAILURE ELSE OK
      /\ UNCHANGED <<settings, request, done, tx, verdict>>
  BY DEF Finish
<1>2. TypeOK'
  BY <1>1 DEF IInv, TypeOK
<1>3. Phase' /\ Made'
  BY <1>1 DEF IInv, Phase, Made, Succeeded
<1>4. AnswerFits'
  <2> DEFINE Long == AnswerLen(request) + 2 > TX_LEN
  <2>1. status' = OK => ~Long
    <3>1. status' = IF Long THEN SLAVE_OR_SERVER_FAILURE ELSE OK
      BY <1>1
    <3> HIDE DEF Long
    <3> QED BY <3>1 DEF OK, SLAVE_OR_SERVER_FAILURE
  <2>2. AnswerLen(request) \in Int
    <3>1. request \in Requests
      BY <1>1 DEF IInv, Phase
    <3>2. request.count \in Nat
      BY <3>1, RequestTyped
    <3>3. Bytes(request.count) \in Int
      BY <3>2, ModbusAssumption DEF Bytes
    <3> QED BY <3>2, <3>3 DEF AnswerLen
  <2>3. status' = OK => AnswerLen(request) + 2 <= TX_LEN
    BY <2>1, <2>2, ModbusAssumption
  <2> QED BY <1>1, <2>3 DEF IInv, AnswerFits
<1> QED BY <1>2, <1>3, <1>4 DEF IInv

LEMMA LoseHolds == IInv /\ Lose => IInv'
  BY DEF IInv, TypeOK, AnswerFits, Phase, Made, Succeeded, Lose

LEMMA ConcludeHolds == IInv /\ Conclude => IInv'
  BY DEF IInv, TypeOK, AnswerFits, Phase, Made, Succeeded, Conclude

\* A power cut spares what is kept in EEPROM.
\* What is being written when the power is cut is a setting of the EEPROM.
LEMMA WritingTyped ==
    ASSUME IInv, Working({6, 16}), NEW cmd \in Writing
    PROVE  /\ pc = "working" /\ cmd \in Here /\ cmd.name \in Settings
           /\ cmd.name \in Persistent /\ Len(Initial[cmd.name]) = cmd.size
<1>1. pc = "working" /\ request.function \in {6, 16} /\ cmd \in Here /\ cmd.name \in Persistent
  BY DEF Working, Writing
<1>2. cmd \in cmd_modbus /\ cmd.type = "holding"
  BY <1>1, AtHere DEF Object
<1> QED BY <1>1, <1>2, TableRows

LEMMA PowerCutHolds == IInv /\ PowerCut => IInv'
<1> SUFFICES ASSUME IInv, PowerCut PROVE IInv'
  OBVIOUS
<1>1. /\ pc' = IF pc = "idle" THEN "idle" ELSE "silent"
      /\ UNCHANGED <<request, done, tx, status, verdict>>
  BY DEF PowerCut
<1>2. /\ InEeprom \in [Settings -> Seq(0 .. WORD - 1)]
      /\ \A s \in Settings : Len(InEeprom[s]) = Len(Initial[s])
  BY InitialTyped DEF IInv, TypeOK, InEeprom
<1>3. AnswerFits' /\ Phase'
  BY <1>1 DEF IInv, AnswerFits, Phase, Succeeded
<1>4. CASE settings' = InEeprom
  <2>1. TypeOK'
    BY <1>1, <1>2, <1>4 DEF IInv, TypeOK
  <2>2. \A s \in Persistent : settings'[s] = settings[s]
    BY <1>4 DEF InEeprom, Persistent, Settings, Coils
  <2>3. \A f, n : Holds(f, n, settings) => Holds(f, n, settings')
    BY <2>2 DEF Holds
  <2>4. Made'
    BY <1>1, <2>3 DEF IInv, Made, Succeeded
  <2> QED BY <1>3, <2>1, <2>4 DEF IInv
<1>5. ASSUME Working({6, 16}), NEW cmd \in Writing, NEW value \in Torn, Len(value) = cmd.size,
             settings' = [InEeprom EXCEPT ![cmd.name] = value]
      PROVE  IInv'
  <2>1. value \in Seq(0 .. WORD - 1)
    BY ModbusAssumption
  <2>2. pc = "working" /\ cmd.name \in Settings /\ Len(Initial[cmd.name]) = cmd.size
    BY <1>5, WritingTyped
  <2> HIDE DEF InEeprom
  <2>3. /\ settings' \in [Settings -> Seq(0 .. WORD - 1)]
        /\ \A s \in Settings : Len(settings'[s]) = Len(Initial[s])
    BY <1>2, <1>5, <2>1, <2>2
  <2>4. TypeOK' /\ Made'
    BY <1>1, <2>2, <2>3 DEF IInv, TypeOK, Made, Succeeded
  <2> QED BY <1>3, <2>4 DEF IInv
<1> QED BY <1>4, <1>5 DEF PowerCut

THEOREM Inductive == IInv /\ [Next]_vars => IInv'
<1> SUFFICES ASSUME IInv, [Next]_vars PROVE IInv'
  OBVIOUS
<1>1. CASE UNCHANGED vars
  BY <1>1 DEF IInv, TypeOK, AnswerFits, Phase, Made, Succeeded, vars
<1> QED
  BY <1>1, SendHolds, ReceiveHolds, ReadBitsHolds, ReadRegistersHolds, BitWriteHolds,
     RegisterWriteHolds, FinishHolds, LoseHolds, ConcludeHolds, PowerCutHolds DEF Next

\* The variables have their types in every reachable state.
THEOREM TypeCorrect == Spec => []TypeOK
<1>1. IInv => TypeOK
  BY DEF IInv
<1> QED BY <1>1, InitHolds, Inductive, PTL DEF Spec

\* Neither a register nor the checksum is written past the end of the transmit
\* buffer (modbus.c:173, 458).
THEOREM AnswersFit == Spec => []AnswerFits
<1>1. IInv => AnswerFits
  BY DEF IInv
<1> QED BY <1>1, InitHolds, Inductive, PTL DEF Spec

-----------------------------------------------------------------------------
(* What is left of a request. *)

LEMMA BeginsOnce ==
    ASSUME NEW f, NEW a, NEW c \in Begins(f, a)
    PROVE  Assignment(f, a) = [name |-> c.name, values |-> Value(f, c, a)]
<1>1. \A d \in Begins(f, a) : d = c
  BY FoundOnce DEF Begins
<1>2. (CHOOSE x \in Begins(f, a) : TRUE) = c
  BY <1>1
<1> QED BY <1>2 DEF Assignment

LEMMA NothingLeft ==
    ASSUME NEW f \in Requests, NEW n \in Nat, f.function \in Writes, ~More(f, n)
    PROVE  Objects(f) \in Nat /\ Objects(f) <= n
<1>1. f.count \in Nat /\ f.bytes \in Nat
  BY RequestTyped
<1>2. CASE f.function = 5
  <2>1. ~(n < 1)
    BY <1>2, MoreMeans
  <2>2. Objects(f) = 1
    BY <1>2 DEF Objects
  <2> QED BY <2>1, <2>2
<1>3. CASE f.function = 15
  <2>1. ~(n < f.count)
    BY <1>3, MoreMeans
  <2>2. Objects(f) = f.count
    BY <1>3 DEF Objects
  <2> QED BY ONLY <1>1, <2>1, <2>2, n \in Nat
<1>4. CASE f.function \in {6, 16}
  <2>1. ~(2 * n < f.bytes)
    BY <1>4, MoreMeans
  <2>2. Objects(f) = (f.bytes + 1) \div 2
    BY <1>4 DEF Objects
  <2> QED BY ONLY <1>1, <2>1, <2>2, n \in Nat
<1> QED BY <1>2, <1>3, <1>4 DEF Writes

\* The addresses of the assignments.
Places(f, n) == {a \in Rest(f, n) : ~Continues(f, n, a)}
PlanOf(f, S) == [a \in S |-> Assignment(f, a)]

LEMMA WantedIs ==
    ASSUME NEW f \in Requests, NEW n, Accepted(f)
    PROVE  /\ f.function \in Writes => Wanted(f, n) = PlanOf(f, Places(f, n))
           /\ f.function \in Reads => Wanted(f, n) = [a \in {} |-> Unknown]
  BY DEF Wanted, Accepted, PlanOf, Places, Writes, Reads

\* After a success the device keeps what the request assigned
\* (modbus.c:267-387).
THEOREM SuccessStays == Spec => []SuccessKept
<1>1. IInv => SuccessKept
  <2> SUFFICES ASSUME IInv, pc = "idle", verdict = "ok", NEW a \in DOMAIN Wanted(request, 0)
               PROVE  /\ Wanted(request, 0)[a] # Unknown
                      /\ Wanted(request, 0)[a].name \in Persistent =>
                            settings[Wanted(request, 0)[a].name] \in Wanted(request, 0)[a].values
    BY DEF SuccessKept
  <2> DEFINE f == request
  <2>1. /\ f \in Requests /\ Accepted(f) /\ ~More(f, done) /\ done \in Nat
        /\ f.function \in Writes => Holds(f, done, settings)
    BY DEF IInv, Phase, Succeeded, TypeOK, Made
  <2>2. f.function \in Writes
    BY <2>1, WantedIs, AcceptedLimits
  <2>3. Wanted(f, 0) = PlanOf(f, Places(f, 0))
    BY <2>1, <2>2, WantedIs
  <2>4. a \in Rest(f, 0) /\ ~Continues(f, 0, a) /\ Wanted(f, 0)[a] = Assignment(f, a)
    BY <2>3 DEF PlanOf, Places
  <2>5. f.addr \in Nat /\ Objects(f) \in Nat /\ Objects(f) <= done
    BY <2>1, <2>2, NothingLeft, RequestTyped
  <2>6. a \in f.addr .. f.addr + done - 1 /\ a - f.addr \in Nat
    BY ONLY <2>1, <2>4, <2>5 DEF Rest
  <2>7. PICK c \in Begins(f, a) :
            c.name \in Persistent => settings[c.name] = Data(f, a - f.addr, c.size)
    BY <2>1, <2>2, <2>4, <2>6 DEF Holds
  <2>8. Assignment(f, a) = [name |-> c.name, values |-> Value(f, c, a)]
    BY BeginsOnce
  <2>9. c \in cmd_modbus /\ c.type \in {"coil", "holding"}
    BY <2>2 DEF Begins, find_cmd, Object, Writes
  <2>10. Value(f, c, a) # {}
    BY <2>1, <2>6, CarriedTyped DEF Value
  <2>11. c.name \in Persistent => settings[c.name] \in Value(f, c, a)
    BY <2>7, <2>9, TableRows DEF Value
  <2>12. Assignment(f, a) # Unknown
    <3>1. Unknown.values = {}
      BY DEF Unknown
    <3>2. Assignment(f, a).values = Value(f, c, a)
      BY <2>8
    <3> QED BY <2>10, <3>1, <3>2
  <2> QED BY <2>4, <2>8, <2>11, <2>12
<1> QED BY <1>1, InitHolds, Inductive, PTL DEF Spec

-----------------------------------------------------------------------------
(* What an answer holds. *)

\* The k-th object a read asks for.
Item(f, k) ==
    LET c == CHOOSE c \in cmd_modbus :
                /\ c.type = Object(f.function)
                /\ c.addr <= f.addr + k - 1 /\ f.addr + k - 1 < c.addr + c.size
    IN  <<c.name, f.addr + k - c.addr>>

LEMMA ItemIs ==
    ASSUME NEW f, NEW k, f.addr \in Nat, k \in Nat, NEW c \in cmd_modbus, c.type = Object(f.function),
           c.addr <= f.addr + k - 1, f.addr + k - 1 < c.addr + c.size
    PROVE  Item(f, k) = <<c.name, f.addr + k - c.addr>>
<1> DEFINE Has(d) == /\ d.type = Object(f.function)
                     /\ d.addr <= f.addr + k - 1 /\ f.addr + k - 1 < d.addr + d.size
<1>1. Has(c)
  OBVIOUS
<1>2. \A d \in cmd_modbus : Has(d) => d = c
  <2> SUFFICES ASSUME NEW d \in cmd_modbus, Has(d) PROVE d = c
    OBVIOUS
  <2>1. f.addr + k - 1 \in Int
    OBVIOUS
  <2> QED BY <2>1, TableApart
<1> HIDE DEF Has
<1>3. (CHOOSE d \in cmd_modbus : Has(d)) = c
  BY ONLY <1>1, <1>2, c \in cmd_modbus
<1> QED BY <1>3 DEF Item, Has

Matches ==
    request.function \in Reads /\ (pc = "working" \/ (pc = "answered" /\ status = OK)) =>
        Len(tx) = done /\ \A k \in 1 .. done : tx[k] = Item(request, k)

\* What is read at the place of work is what was asked for there.
LEMMA ReadMatches ==
    ASSUME IInv, Matches, pc = "working", request.function \in Reads, NEW c \in Here,
           done' = done + c.size, tx' = tx \o Parts(c), UNCHANGED <<pc, request, status>>
    PROVE  Matches'
<1>1. /\ request \in Requests /\ done \in Nat /\ c \in cmd_modbus /\ c.type = Object(request.function)
      /\ c.addr = request.addr + done
  BY AtHere
<1>2. request.addr \in Nat /\ c.size \in {1, 2}
  BY <1>1, RequestTyped, TableRows
<1>3. /\ Parts(c) \in Seq(Items) /\ Len(Parts(c)) = c.size
      /\ \A k \in 1 .. c.size : Parts(c)[k] = <<c.name, k>>
  BY <1>1, PartsTyped
<1>4. tx \in Seq(Items) /\ Len(tx) = done /\ \A k \in 1 .. done : tx[k] = Item(request, k)
  BY DEF IInv, TypeOK, Matches, Items
<1>5. /\ Len(tx') = done + c.size
      /\ \A k \in 1 .. done + c.size : tx'[k] = IF k <= done THEN tx[k] ELSE Parts(c)[k - done]
  <2>1. /\ Len(tx \o Parts(c)) = Len(tx) + Len(Parts(c))
        /\ \A k \in 1 .. Len(tx) + Len(Parts(c)) :
              (tx \o Parts(c))[k] = IF k <= Len(tx) THEN tx[k] ELSE Parts(c)[k - Len(tx)]
    BY ONLY <1>3, <1>4, ConcatProperties
  <2> QED BY <1>3, <1>4, <2>1
<1>6. ASSUME NEW k \in 1 .. done + c.size
      PROVE  tx'[k] = Item(request, k)
  <2>1. CASE k <= done
    <3>1. k \in 1 .. done
      BY ONLY <1>1, <1>2, <1>6, <2>1
    <3> QED BY <1>4, <1>5, <1>6, <2>1, <3>1
  <2>2. CASE ~(k <= done)
    <3>1. k - done \in 1 .. c.size
      BY ONLY <1>1, <1>2, <1>6, <2>2
    <3>2. tx'[k] = <<c.name, k - done>>
      BY <1>3, <1>5, <1>6, <2>2, <3>1
    <3>3. /\ c.addr <= request.addr + k - 1 /\ request.addr + k - 1 < c.addr + c.size /\ k \in Nat
          /\ request.addr + k - c.addr = k - done
      BY ONLY <1>1, <1>2, <1>6, <2>2
    <3>4. Item(request, k) = <<c.name, request.addr + k - c.addr>>
      BY ONLY <1>1, <1>2, <3>3, ItemIs
    <3> QED BY <3>2, <3>3, <3>4
  <2> QED BY <2>1, <2>2
<1> QED BY <1>5, <1>6 DEF Matches

LEMMA MatchesStays == IInv /\ Matches /\ [Next]_vars => Matches'
<1> SUFFICES ASSUME IInv, Matches, [Next]_vars PROVE Matches'
  OBVIOUS
<1>1. CASE UNCHANGED vars
  BY <1>1 DEF Matches, vars
<1>2. CASE Send
  BY <1>2 DEF Matches, Send
<1>3. CASE Receive
  <2>1. done = 0 /\ tx = <<>> /\ UNCHANGED <<done, tx>>
    BY <1>3 DEF IInv, Phase, Receive
  <2> QED BY <2>1 DEF Matches
<1>4. CASE read_bits
  <2>1. pc = "working" /\ request.function \in {1, 2}
    BY <1>4 DEF read_bits, Working
  <2>2. CASE fill_exception(ILLEGAL_DATA_ADDRESS)
    BY <2>2 DEF Matches, fill_exception, OK, ILLEGAL_DATA_ADDRESS
  <2>3. ASSUME NEW c \in Here, tx' = Append(tx, <<c.name, 1>>), done' = done + 1,
               UNCHANGED <<settings, pc, request, status, verdict>>
        PROVE  Matches'
    <3>1. c \in cmd_modbus /\ c.type # "holding"
      BY <2>1, <2>3, AtHere DEF Object
    <3>2. c.size = 1
      BY <3>1, TableRows
    <3>3. Parts(c) = <<<<c.name, 1>>>>
      BY <3>2 DEF Parts
    <3>4. tx' = tx \o Parts(c)
      <4>1. tx \in Seq(Items) /\ <<c.name, 1>> \in Items
        BY <3>1 DEF IInv, TypeOK, Items
      <4> QED BY ONLY <2>3, <3>3, <4>1, AppendIsConcat
    <3> QED BY <2>1, <2>3, <3>2, <3>4, ReadMatches DEF Reads
  <2> QED BY <1>4, <2>2, <2>3 DEF read_bits
<1>5. CASE read_registers
  <2>1. pc = "working" /\ request.function \in Reads
    BY <1>5 DEF read_registers, Working, Reads
  <2>2. CASE fill_exception(ILLEGAL_DATA_ADDRESS)
    BY <2>2 DEF Matches, fill_exception, OK, ILLEGAL_DATA_ADDRESS
  <2>3. ASSUME NEW c \in Here, tx' = tx \o Parts(c), done' = done + c.size,
               UNCHANGED <<settings, pc, request, status, verdict>>
        PROVE  Matches'
    BY <2>1, <2>3, ReadMatches
  <2> QED BY <1>5, <2>2, <2>3 DEF read_registers
<1>6. CASE try_bit_write
  BY <1>6 DEF Matches, try_bit_write, Working, fill_exception, Reads
<1>7. CASE try_register_write
  BY <1>7 DEF Matches, try_register_write, Working, fill_exception, Reads
<1>8. CASE Finish
  BY <1>8 DEF Matches, Finish
<1>9. CASE Lose \/ Conclude \/ PowerCut
  BY <1>9 DEF Matches, Lose, Conclude, PowerCut
<1> QED BY <1>1, <1>2, <1>3, <1>4, <1>5, <1>6, <1>7, <1>8, <1>9 DEF Next

\* A good answer to a read has the objects asked for, each in its place
\* (modbus.c:107-212).
THEOREM AnswersMatch == Spec => []AnswerMatches
<1>1. IInv /\ Matches => AnswerMatches
  <2> SUFFICES ASSUME IInv, Matches, pc = "answered", status = OK, request.function \in {1, 2, 3, 4}
               PROVE  tx = Asked(request)
    BY DEF AnswerMatches
  <2>1. /\ request \in Requests /\ Bounded(request, done) /\ ~More(request, done) /\ done \in Nat
        /\ tx \in Seq(Items)
    BY DEF IInv, Phase, Succeeded, TypeOK, Items
  <2>2. done <= request.count /\ ~(done < request.count)
    BY <2>1, MoreMeans DEF Bounded
  <2>3. done = request.count
    BY <2>1, <2>2, RequestTyped
  <2>4. Len(tx) = done /\ \A k \in 1 .. done : tx[k] = Item(request, k)
    BY DEF Matches, Reads
  <2>5. tx = [k \in 1 .. request.count |-> Item(request, k)]
    <3>1. tx \in [1 .. done -> Items]
      BY <2>1, <2>4, LenProperties
    <3>2. tx = [k \in 1 .. done |-> tx[k]]
      BY ONLY <3>1
    <3> QED BY <2>3, <2>4, <3>2
  <2> QED BY <2>5 DEF Asked, Item
<1>2. Init => Matches
  BY DEF Init, Matches
<1> QED BY <1>1, <1>2, InitHolds, Inductive, MatchesStays, PTL DEF Spec

-----------------------------------------------------------------------------
(* The promise of Assignments. *)

Nothing == [a \in {} |-> Unknown]

\* What is left to be assigned at each place of an exchange.
LEMMA PlanAt ==
    /\ pc \in {"sent", "working"} => Plan = Wanted(request, done)
    /\ pc = "silent" => Plan = Abandoned
    /\ pc = "answered" /\ status # OK => Plan = Abandoned
    /\ pc = "answered" /\ status = OK => Plan = Nothing
    /\ pc = "idle" => Plan = Nothing
  BY DEF Plan, Nothing

LEMMA PlanNext ==
    /\ pc' \in {"sent", "working"} => Plan' = Wanted(request', done')
    /\ pc' = "silent" => Plan' = Abandoned
    /\ pc' = "answered" /\ status' # OK => Plan' = Abandoned
    /\ pc' = "answered" /\ status' = OK => Plan' = Nothing
    /\ pc' = "idle" => Plan' = Nothing
  BY DEF Plan, Nothing

\* A setting that is assigned is the first of the plan, and then no longer in
\* it, with all the addresses of its value.
LEMMA WantedAfterWrite ==
    ASSUME NEW f \in Requests, Accepted(f), f.function \in Writes, NEW n \in Nat,
           NEW c \in Begins(f, f.addr + n), f.addr + n \in Rest(f, n), f.addr + (n + c.size) <= 15
    PROVE  /\ f.addr + n \in DOMAIN Wanted(f, n)
           /\ \A b \in DOMAIN Wanted(f, n) : f.addr + n <= b
           /\ Wanted(f, n)[f.addr + n] = Assignment(f, f.addr + n)
           /\ Wanted(f, n + c.size) = [b \in DOMAIN Wanted(f, n) \ {f.addr + n} |-> Wanted(f, n)[b]]
<1> DEFINE a == f.addr + n
<1>1. f.addr \in Nat /\ f.count \in Nat /\ f.bytes \in Nat
  BY RequestTyped
<1>2. Objects(f) \in Int
  BY <1>1 DEF Objects
<1>3. c \in cmd_modbus /\ c.size \in {1, 2} /\ c.type = Object(f.function)
  BY TableRows DEF Begins, find_cmd
<1>4. a \in 0 .. WORD - 1 /\ a + 1 <= 15 /\ WORD \in Nat /\ WORD >= 16
  <2>1. WORD \in Nat /\ WORD >= 16
    BY ModbusAssumption
  <2> QED BY ONLY <1>1, <1>3, <2>1, n \in Nat, f.addr + (n + c.size) <= 15
<1>5. c.addr = a
  BY <1>4, FoundHere DEF Begins
<1>6. \A b \in Rest(f, n) : b \in Int /\ a <= b
  BY ONLY <1>1, <1>2, n \in Nat DEF Rest
<1>7. \A b \in Int : b \in Rest(f, n + c.size) <=> b \in Rest(f, n) /\ a + c.size <= b
  BY ONLY <1>1, <1>2, <1>3, n \in Nat DEF Rest
<1>8. ~Continues(f, n, a)
  BY ONLY <1>4, <1>6 DEF Continues
<1>9. Places(f, n + c.size) = Places(f, n) \ {a}
  <2>1. ASSUME NEW x \in Places(f, n + c.size)
        PROVE  x \in Places(f, n) \ {a}
    <3>1. x \in Int /\ x \in Rest(f, n) /\ a + c.size <= x /\ ~Continues(f, n + c.size, x)
      <4>1. x \in Rest(f, n + c.size) /\ ~Continues(f, n + c.size, x)
        BY <2>1 DEF Places
      <4>2. x \in Int
        BY <4>1 DEF Rest
      <4> QED BY <1>7, <4>1, <4>2
    <3>2. x # a
      BY ONLY <1>1, <1>3, <3>1, n \in Nat
    <3>3. ASSUME NEW b \in Rest(f, n), NEW d \in Begins(f, b), b < x, x < b + d.size
          PROVE  FALSE
      <4>1. b \in Int /\ a <= b
        BY <1>6, <3>3
      <4>2. CASE a + c.size <= b
        <5>1. b \in Rest(f, n + c.size)
          BY <1>7, <3>3, <4>1, <4>2
        <5> QED BY <3>1, <3>3, <5>1 DEF Continues
      <4>3. CASE b < a + c.size
        <5>1. b \in 0 .. WORD - 1
          BY ONLY <1>1, <1>3, <1>4, <4>1, <4>3, n \in Nat
        <5>2. d \in cmd_modbus /\ d.type = c.type /\ d.addr = b
          BY <1>3, <3>3, <5>1, FoundHere DEF Begins
        <5>3. d.size \in {1, 2}
          BY <5>2, TableRows
        <5>4. d = c
          BY ONLY <1>3, <1>5, <4>1, <4>3, <5>2, <5>3, TableApart
        <5> QED BY ONLY <1>1, <1>3, <1>5, <3>1, <3>3, <5>2, <5>4, n \in Nat
      <4> QED BY ONLY <1>1, <1>3, <4>1, <4>2, <4>3, n \in Nat
    <3> QED BY <3>1, <3>2, <3>3 DEF Places, Continues
  <2>2. ASSUME NEW x \in Places(f, n), x # a
        PROVE  x \in Places(f, n + c.size)
    <3>1. x \in Rest(f, n) /\ ~Continues(f, n, x)
      BY <2>2 DEF Places
    <3>2. x \in Int /\ a <= x
      BY <1>6, <3>1
    <3>3. ~(x < a + c.size)
      <4>1. a < x
        BY ONLY <1>1, <2>2, <3>2, n \in Nat
      <4> QED BY ONLY <3>1, <4>1, a \in Rest(f, n), c \in Begins(f, a) DEF Continues
    <3>4. x \in Rest(f, n + c.size)
      <4>1. a + c.size <= x
        BY ONLY <1>1, <1>3, <3>2, <3>3, n \in Nat
      <4> QED BY <1>7, <3>1, <3>2, <4>1
    <3>5. Rest(f, n + c.size) \subseteq Rest(f, n)
      <4>1. \A b \in Rest(f, n + c.size) : b \in Int
        BY DEF Rest
      <4> QED BY <1>7, <4>1
    <3>6. ~Continues(f, n + c.size, x)
      BY ONLY <3>1, <3>5 DEF Continues
    <3> QED BY <3>4, <3>6 DEF Places
  <2> QED BY <2>1, <2>2
<1>10. a \in Places(f, n) /\ \A b \in Places(f, n) : a <= b
  BY <1>6, <1>8 DEF Places
<1>11. /\ Wanted(f, n) = PlanOf(f, Places(f, n))
       /\ Wanted(f, n + c.size) = PlanOf(f, Places(f, n + c.size))
  BY WantedIs
<1> HIDE DEF a
<1>12. /\ a \in DOMAIN Wanted(f, n)
       /\ \A b \in DOMAIN Wanted(f, n) : a <= b
       /\ Wanted(f, n)[a] = Assignment(f, a)
       /\ Wanted(f, n + c.size) = [b \in DOMAIN Wanted(f, n) \ {a} |-> Wanted(f, n)[b]]
  BY ONLY <1>9, <1>10, <1>11 DEF PlanOf
<1> QED BY <1>12 DEF a

\* When nothing is left to work on, nothing is left to be assigned.
LEMMA WantedAtEnd ==
    ASSUME NEW f \in Requests, Accepted(f), NEW n \in Nat, ~More(f, n) \/ f.function \in Reads
    PROVE  Wanted(f, n) = Nothing
<1>1. CASE f.function \in Reads
  BY <1>1, WantedIs DEF Nothing
<1>2. CASE f.function \in Writes /\ ~More(f, n)
  <2>1. f.addr \in Nat /\ Objects(f) \in Nat /\ Objects(f) <= n
    BY <1>2, NothingLeft, RequestTyped
  <2>2. Rest(f, n) = {}
    BY ONLY <2>1, n \in Nat DEF Rest
  <2> QED BY <1>2, <2>2, WantedIs DEF Places, PlanOf, Nothing
<1> QED BY <1>1, <1>2, AcceptedLimits

\* Steps that end in "silent" or with an exception give the command up.
LEMMA GiveUp ==
    ASSUME IInv, pc \in {"sent", "working", "answered"},
           pc' = "silent" \/ (pc' = "answered" /\ status' # OK),
           UNCHANGED <<settings, verdict>>
    PROVE  Told!Next
<1>1. verdict = "waiting"
  BY DEF IInv, TypeOK, Phase
<1>2. Plan' = Abandoned
  BY PlanNext
<1> QED BY <1>1, <1>2 DEF Told!Next, Told!Abandon, Told!Abandoned, Abandoned, Told!Unknown, Unknown

LEMMA Stutters ==
    ASSUME UNCHANGED <<settings, verdict>>, Plan' = Plan
    PROVE  UNCHANGED Told!vars
  BY DEF Told!vars

LEMMA ExceptionRefines ==
    ASSUME IInv, pc = "working", fill_exception(ILLEGAL_DATA_ADDRESS)
    PROVE  Told!Next
  BY GiveUp DEF fill_exception, OK, ILLEGAL_DATA_ADDRESS

LEMMA SendRefines == IInv /\ Send => Told!Next
<1> SUFFICES ASSUME IInv, Send PROVE Told!Next
  OBVIOUS
<1>1. verdict # "waiting"
  BY DEF IInv, TypeOK, Phase, Send
<1> QED BY <1>1 DEF Send, Told!Next, Told!Ask

LEMMA ReceiveRefines == IInv /\ Receive => [Told!Next]_Told!vars
<1> SUFFICES ASSUME IInv, Receive PROVE [Told!Next]_Told!vars
  OBVIOUS
<1>0. pc = "sent" /\ UNCHANGED <<settings, request, done, verdict>>
  BY DEF Receive
<1>1. CASE pc' = "silent"
  BY <1>0, <1>1, GiveUp
<1>2. CASE pc' = "working"
  <2>1. Plan' = Plan
    BY <1>0, <1>2, PlanAt, PlanNext
  <2> QED BY <1>0, <2>1, Stutters
<1>3. CASE pc' = "answered" /\ status' # OK
  BY <1>0, <1>3, GiveUp
<1> QED BY <1>1, <1>2, <1>3 DEF Receive

\* A read has nothing to assign.
LEMMA ReadRefines ==
    ASSUME IInv, pc = "working", request.function \in Reads,
           UNCHANGED <<settings, pc, request, verdict>>, done' \in Nat
    PROVE  UNCHANGED Told!vars
<1>1. request \in Requests /\ Accepted(request) /\ done \in Nat
  BY DEF IInv, TypeOK, Phase
<1>2. Wanted(request, done) = Nothing /\ Wanted(request, done') = Nothing
  BY <1>1, WantedAtEnd
<1>3. Plan' = Plan
  BY <1>2, PlanAt, PlanNext
<1> QED BY <1>3, Stutters

LEMMA ReadBitsRefines == IInv /\ read_bits => [Told!Next]_Told!vars
<1> SUFFICES ASSUME IInv, read_bits PROVE [Told!Next]_Told!vars
  OBVIOUS
<1>0. pc = "working" /\ request.function \in Reads
  BY DEF read_bits, Working, Reads
<1>1. CASE fill_exception(ILLEGAL_DATA_ADDRESS)
  BY <1>0, <1>1, ExceptionRefines
<1>2. CASE done' = done + 1 /\ UNCHANGED <<settings, pc, request, status, verdict>>
  <2>1. done' \in Nat
    BY <1>2 DEF IInv, TypeOK
  <2> QED BY <1>0, <1>2, <2>1, ReadRefines
<1> QED BY <1>1, <1>2 DEF read_bits

LEMMA ReadRegistersRefines == IInv /\ read_registers => [Told!Next]_Told!vars
<1> SUFFICES ASSUME IInv, read_registers PROVE [Told!Next]_Told!vars
  OBVIOUS
<1>0. pc = "working" /\ request.function \in Reads
  BY DEF read_registers, Working, Reads
<1>1. CASE fill_exception(ILLEGAL_DATA_ADDRESS)
  BY <1>0, <1>1, ExceptionRefines
<1>2. ASSUME NEW c \in Here, done' = done + c.size,
             UNCHANGED <<settings, pc, request, status, verdict>>
      PROVE  UNCHANGED Told!vars
  <2>1. done' \in Nat
    <3>1. c.size \in {1, 2} /\ done \in Nat
      BY <1>0, AtHere, TableRows
    <3> QED BY <1>2, <3>1
  <2> QED BY <1>0, <1>2, <2>1, ReadRefines
<1> QED BY <1>1, <1>2 DEF read_registers

\* The setting at the place of work is the next one of the plan.
LEMMA PlanHere ==
    ASSUME IInv, pc = "working", request.function \in Writes, NEW c \in Here,
           c \in Begins(request, request.addr + done), request.addr + done \in Rest(request, done)
    PROVE  LET a == request.addr + done
           IN  /\ Plan = Wanted(request, done)
               /\ a \in DOMAIN Plan
               /\ \A b \in DOMAIN Plan : a <= b
               /\ Plan[a] = [name |-> c.name, values |-> Value(request, c, a)]
               /\ Wanted(request, done + c.size) = [b \in DOMAIN Plan \ {a} |-> Plan[b]]
<1> DEFINE a == request.addr + done
<1>1. /\ request \in Requests /\ Accepted(request) /\ done \in Nat
      /\ request.addr + (done + c.size) <= 15
  BY AtHere
<1>2. Plan = Wanted(request, done)
  BY PlanAt
<1>3. Assignment(request, a) = [name |-> c.name, values |-> Value(request, c, a)]
  BY BeginsOnce
<1>4. /\ a \in DOMAIN Wanted(request, done)
      /\ \A b \in DOMAIN Wanted(request, done) : a <= b
      /\ Wanted(request, done)[a] = Assignment(request, a)
      /\ Wanted(request, done + c.size) =
            [b \in DOMAIN Wanted(request, done) \ {a} |-> Wanted(request, done)[b]]
  BY <1>1, WantedAfterWrite
<1> QED BY ONLY <1>2, <1>3, <1>4

\* A setter call is the next assignment of the plan.
LEMMA SetRefines ==
    ASSUME IInv, pc = "working", request.function \in Writes, NEW c \in Here,
           c \in Begins(request, request.addr + done), request.addr + done \in Rest(request, done),
           NEW v \in Value(request, c, request.addr + done),
           settings' = [settings EXCEPT ![c.name] = v], done' = done + c.size,
           UNCHANGED <<pc, request, tx, status, verdict>>
    PROVE  Told!Next
<1> DEFINE a == request.addr + done
<1>1. /\ a \in DOMAIN Plan
      /\ \A b \in DOMAIN Plan : a <= b
      /\ Plan[a] = [name |-> c.name, values |-> Value(request, c, a)]
      /\ Wanted(request, done + c.size) = [b \in DOMAIN Plan \ {a} |-> Plan[b]]
  BY PlanHere
<1>2. Plan' = Wanted(request, done + c.size)
  BY PlanNext
<1>3. v \in Value(request, c, a)
  OBVIOUS
<1> HIDE DEF a
<1>4. settings' = [settings EXCEPT ![Plan[a].name] = v] /\ v \in Plan[a].values
  BY <1>1, <1>3
<1>5. verdict = "waiting" /\ UNCHANGED verdict
  BY DEF IInv, Phase, TypeOK
<1>6. Told!Assign
  BY ONLY <1>1, <1>2, <1>4, <1>5 DEF Told!Assign
<1> QED BY <1>6 DEF Told!Next

LEMMA AtRest ==
    ASSUME IInv, pc = "working", request.function \in Writes, More(request, done)
    PROVE  /\ request.addr + done \in Rest(request, done)
           /\ (request.addr + done) - request.addr = done
<1>1. request \in Requests /\ Bounded(request, done) /\ done \in Nat
  BY DEF IInv, TypeOK, Phase
<1>2. request.addr \in Nat /\ request.addr + done \in Rest(request, 0)
  BY <1>1, RequestTyped, WorkLeft
<1>3. request.addr + done <= request.addr + Objects(request) - 1
  BY <1>2 DEF Rest
<1>4. request.addr + done \in Rest(request, done)
  <2>1. Objects(request) \in Int
    BY <1>1, RequestTyped DEF Objects
  <2> QED BY ONLY <1>1, <1>2, <1>3, <2>1 DEF Rest
<1> QED BY <1>1, <1>2, <1>4

LEMMA BitWriteRefines == IInv /\ try_bit_write => Told!Next
<1> SUFFICES ASSUME IInv, try_bit_write PROVE Told!Next
  OBVIOUS
<1>0. pc = "working" /\ request.function \in {5, 15} /\ More(request, done)
  BY DEF try_bit_write, Working
<1>1. CASE fill_exception(ILLEGAL_DATA_ADDRESS)
  BY <1>0, <1>1, ExceptionRefines
<1>2. ASSUME NEW c \in Here, NEW value \in Carried(request, done),
             settings' = [settings EXCEPT ![c.name] = <<value>>], done' = done + 1,
             UNCHANGED <<pc, request, tx, status, verdict>>
      PROVE  Told!Next
  <2>1. c \in cmd_modbus /\ c.type = "coil"
    BY <1>0, <1>2, AtHere DEF Object
  <2>2. c.size = 1
    BY <2>1, TableRows
  <2>3. /\ request.addr + done \in Rest(request, done)
        /\ (request.addr + done) - request.addr = done
    BY <1>0, AtRest DEF Writes
  <2>4. c \in Begins(request, request.addr + done)
    BY <2>1 DEF Begins, Here
  <2>5. <<value>> \in Value(request, c, request.addr + done)
    BY <2>1, <2>3 DEF Value
  <2> QED BY <1>0, <1>2, <2>2, <2>3, <2>4, <2>5, SetRefines DEF Writes
<1> QED BY <1>1, <1>2 DEF try_bit_write

\* The registers at hand are a value of the plan if there are enough of them.
LEMMA RegistersHere ==
    ASSUME IInv, Working({6, 16}), NEW c \in Here, 2 * c.size <= request.bytes - 2 * done
    PROVE  /\ request.addr + done \in Rest(request, done)
           /\ c \in Begins(request, request.addr + done)
           /\ Value(request, c, request.addr + done) = {Data(request, done, c.size)}
<1>0. pc = "working" /\ request.function \in {6, 16} /\ More(request, done)
  BY DEF Working
<1>1. c.type = "holding"
  BY <1>0, AtHere DEF Object
<1>2. /\ request.addr + done \in Rest(request, done)
      /\ (request.addr + done) - request.addr = done
  BY <1>0, AtRest DEF Writes
<1>3. c \in Begins(request, request.addr + done)
  BY <1>2 DEF Begins, Here
<1>4. Value(request, c, request.addr + done) = {Data(request, done, c.size)}
  BY <1>1, <1>2 DEF Value
<1> QED BY <1>2, <1>3, <1>4

LEMMA RegisterWriteRefines == IInv /\ try_register_write => Told!Next
<1> SUFFICES ASSUME IInv, try_register_write PROVE Told!Next
  OBVIOUS
<1>0. pc = "working" /\ Working({6, 16}) /\ request.function \in Writes
  BY DEF try_register_write, Working, Writes
<1>1. CASE fill_exception(ILLEGAL_DATA_ADDRESS)
  BY <1>0, <1>1, ExceptionRefines
<1>2. ASSUME NEW c \in Here, 2 * c.size <= request.bytes - 2 * done,
             settings' = [settings EXCEPT ![c.name] = Data(request, done, c.size)],
             done' = done + c.size,
             UNCHANGED <<pc, request, tx, status, verdict>>
      PROVE  Told!Next
  <2>1. /\ request.addr + done \in Rest(request, done)
        /\ c \in Begins(request, request.addr + done)
        /\ Data(request, done, c.size) \in Value(request, c, request.addr + done)
    BY <1>0, <1>2, RegistersHere
  <2> QED BY <1>0, <1>2, <2>1, SetRefines
<1> QED BY <1>1, <1>2 DEF try_register_write

LEMMA FinishRefines == IInv /\ Finish => [Told!Next]_Told!vars
<1> SUFFICES ASSUME IInv, Finish PROVE [Told!Next]_Told!vars
  OBVIOUS
<1>1. /\ pc = "working" /\ ~More(request, done) /\ pc' = "answered"
      /\ UNCHANGED <<settings, request, done, tx, verdict>>
  BY DEF Finish
<1>2. CASE status' # OK
  BY <1>1, <1>2, GiveUp
<1>3. CASE status' = OK
  <2>1. request \in Requests /\ Accepted(request) /\ done \in Nat
    BY <1>1 DEF IInv, TypeOK, Phase
  <2>2. Plan = Nothing /\ Plan' = Nothing
    BY <1>1, <1>3, <2>1, WantedAtEnd, PlanAt, PlanNext
  <2> QED BY <1>1, <2>2, Stutters
<1> QED BY <1>2, <1>3

LEMMA ConcludeRefines == IInv /\ Conclude => Told!Next
<1> SUFFICES ASSUME IInv, Conclude PROVE Told!Next
  OBVIOUS
<1>1. verdict = "waiting" /\ UNCHANGED settings /\ Plan' = Nothing
  BY PlanNext DEF IInv, TypeOK, Phase, Conclude
<1>2. CASE verdict' = "ok"
  <2>1. Plan = Nothing
    BY <1>2, PlanAt DEF Conclude
  <2> QED BY <1>1, <1>2, <2>1 DEF Told!Next, Told!Succeed, Told!Nothing, Nothing, Told!Unknown, Unknown
<1>3. CASE verdict' = "failed"
  BY <1>1, <1>3 DEF Told!Next, Told!Fail, Told!Nothing, Nothing, Told!Unknown, Unknown
<1> QED BY <1>2, <1>3 DEF Conclude

\* A cut leaves the setting being written as it may, and the others as it should.
LEMMA PowerCutRefines == IInv /\ PowerCut => Told!Next
<1> SUFFICES ASSUME IInv, PowerCut PROVE Told!Next
  OBVIOUS
<1>1. Told!Kept = InEeprom
  BY DEF IInv, TypeOK, Told!Kept, InEeprom
<1>2. CASE settings' = InEeprom
  <2>1. Plan' \in {Plan, Abandoned}
    BY PlanAt, PlanNext DEF PowerCut
  <2> QED BY <1>1, <1>2, <2>1 DEF PowerCut, Told!Next, Told!PowerCut, Abandoned, Told!Abandoned, Told!Unknown, Unknown
<1>3. ASSUME Working({6, 16}), NEW cmd \in Writing, NEW value \in Torn, Len(value) = cmd.size,
             settings' = [InEeprom EXCEPT ![cmd.name] = value]
      PROVE  Told!Next
  <2> DEFINE a == request.addr + done
  <2>1. /\ pc = "working" /\ request.function \in Writes
        /\ cmd \in Here /\ cmd.name \in Persistent /\ cmd.name \in Settings
        /\ 2 * cmd.size <= request.bytes - 2 * done
        /\ settings[cmd.name] # Data(request, done, cmd.size)
    BY <1>3, WritingTyped DEF Writing, Working, Writes
  <2>2. /\ a \in Rest(request, done) /\ cmd \in Begins(request, a)
        /\ Value(request, cmd, a) = {Data(request, done, cmd.size)}
    BY <1>3, <2>1, RegistersHere
  <2>3. /\ a \in DOMAIN Plan
        /\ \A b \in DOMAIN Plan : a <= b
        /\ Plan[a] = [name |-> cmd.name, values |-> Value(request, cmd, a)]
    BY <2>1, <2>2, PlanHere
  <2> HIDE DEF a
  <2>4. Plan[a].name = cmd.name /\ settings[Plan[a].name] \notin Plan[a].values
    BY <2>1, <2>2, <2>3
  <2>5. settings' = [InEeprom EXCEPT ![cmd.name] = settings'[cmd.name]]
    <3>1. DOMAIN InEeprom = Settings
      BY DEF InEeprom
    <3> QED BY <1>3, <2>1, <3>1
  <2>6. Plan' = Abandoned
    BY <2>1, PlanNext DEF PowerCut
  <2>7. verdict = "waiting" /\ UNCHANGED verdict
    BY <2>1 DEF IInv, Phase, TypeOK, PowerCut
  <2>8. Told!Abandoned = Abandoned
    BY DEF Told!Abandoned, Abandoned, Told!Unknown, Unknown
  <2>9. Told!Spoil
    BY ONLY <1>1, <2>1, <2>3, <2>4, <2>5, <2>6, <2>7, <2>8 DEF Told!Spoil
  <2> QED BY <2>9 DEF Told!Next
<1> QED BY <1>2, <1>3 DEF PowerCut

LEMMA StepRefines == IInv /\ [Next]_vars => [Told!Next]_Told!vars
<1> SUFFICES ASSUME IInv, [Next]_vars PROVE [Told!Next]_Told!vars
  OBVIOUS
<1>1. CASE UNCHANGED vars
  <2>1. Plan' = Plan
    BY <1>1 DEF Plan, vars
  <2> QED BY <1>1, <2>1, Stutters DEF vars
<1>2. CASE Lose
  <2>1. pc' = "silent" /\ UNCHANGED <<settings, verdict>> /\ pc \in {"sent", "answered"}
    BY <1>2 DEF Lose
  <2> QED BY <2>1, GiveUp
<1> QED
  BY <1>1, <1>2, SendRefines, ReceiveRefines, ReadBitsRefines, ReadRegistersRefines,
     BitWriteRefines, RegisterWriteRefines, FinishRefines, ConcludeRefines, PowerCutRefines DEF Next

\* Whatever is requested, settings are assigned in the order of their addresses
\* and success is told only of a request all of whose assignments were made.  A
\* power cut, in the middle of a write to the EEPROM too, spoils at most the
\* setting being assigned, and never one that had its value already
\* (modbus.c:215-387, clock.c:139-158, juksautin.c:90-98).
THEOREM AssignmentsRefined == Spec => ImplementsAssignments
<1>1. Init => Told!Init
  BY PlanAt DEF Init, Told!Init, Told!Nothing, Nothing, Told!Unknown, Unknown
<1> QED BY <1>1, InitHolds, Inductive, StepRefines, PTL DEF Spec, ImplementsAssignments, Told!Spec
=============================================================================
