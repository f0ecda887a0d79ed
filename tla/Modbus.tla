------------------------------- MODULE Modbus -------------------------------
(***************************************************************************)
(* The Modbus interface, avr/src/interface/modbus.c with the binary        *)
(* readers and writers of cmd_functions.c and the table generated from     *)
(* commands.tsv, and a master that sends one request at a time.  A request *)
(* is worked on object by object, and the power may be cut in between, or  *)
(* while one of them is written to the EEPROM.                             *)
(* Requests and answers may get lost or spoiled on the way.                *)
(***************************************************************************)
EXTENDS Integers, Sequences

CONSTANTS
    TX_LEN,     \* SERIAL_TX_LEN
    WORD,       \* 2^16
    BITS,       \* of a byte
    Requests,   \* what a master may send
    Torn        \* what a value may hold whose bytes were only partly written

\* A frame, its fields as the handlers see them.  len counts every byte, crc
\* says whether the checksum is right, data holds the coils or registers.
Frames ==
    [unit : Nat, function : Nat, addr : 0 .. WORD - 1, count : 0 .. WORD - 1,
     bytes : 0 .. WORD - 1, data : Seq(0 .. WORD - 1), len : Nat, crc : BOOLEAN]

ASSUME ModbusAssumption ==
    /\ TX_LEN \in Nat /\ TX_LEN >= 8
    /\ BITS \in Nat \ {0} /\ WORD \in Nat /\ WORD > TX_LEN /\ WORD >= 16
    /\ Requests \subseteq Frames /\ Torn \subseteq Seq(0 .. WORD - 1)
    /\ \A f \in Requests :
          /\ f.function \in {5, 6} => Len(f.data) = 1
          /\ f.function = 6 => f.bytes = 2
          /\ f.function = 15 /\ f.len >= 9 => Len(f.data) = BITS * (f.len - 9)
          /\ f.function = 16 /\ f.len >= 9 => Len(f.data) = (f.len - 9) \div 2

Server == 1
OK == 0
ILLEGAL_FUNCTION == 1
ILLEGAL_DATA_ADDRESS == 2
SLAVE_OR_SERVER_FAILURE == 4

\* avr/commands.tsv: type, address, name, size in objects.
Cmd(type, addr, name, size) == [type |-> type, addr |-> addr, name |-> name, size |-> size]
cmd_modbus ==
    {Cmd("coil", 0, "led", 1), Cmd("coil", 1, "dummy", 1),
     Cmd("holding", 0, "time", 2), Cmd("holding", 2, "gmtoff", 2),
     Cmd("holding", 4, "next_turn", 2), Cmd("holding", 6, "gmtoff_turn", 2),
     Cmd("holding", 8, "target", 1),
     Cmd("input", 10, "k5_raw", 1), Cmd("input", 11, "accu", 1), Cmd("input", 12, "out", 1),
     Cmd("input", 13, "error", 1), Cmd("input", 14, "ratio", 1)}
Coils == {"led", "dummy"}
Settings == Coils \cup {"time", "gmtoff", "next_turn", "gmtoff_turn", "target"}
Persistent == {"gmtoff", "next_turn", "gmtoff_turn", "target"}

Object(function) ==
    CASE function \in {1, 5, 15} -> "coil"
      [] function = 2 -> "discrete"
      [] function \in {3, 6, 16} -> "holding"
      [] function = 4 -> "input"

\* The command at an address: a set of one, or of none.
find_cmd(type, addr) == {c \in cmd_modbus : c.type = type /\ c.addr = addr % WORD}

VARIABLES
    settings,  \* what each setter was last given, as a sequence of objects
    pc,        \* "idle", "sent", "working", "answered", or "silent": no answer will come
    request,
    done,      \* objects of the request worked on
    tx,        \* the objects read, each <<command, part>>
    status,    \* of the answer
    verdict    \* what the master made of it: "waiting", "ok", "failed"

vars == <<settings, pc, request, done, tx, status, verdict>>

Initial == [s \in Settings |-> IF s \in Coils \cup {"target"} THEN <<0>> ELSE <<0, 0>>]

NoRequest ==
    [unit |-> Server, function |-> 0, addr |-> 0, count |-> 0, bytes |-> 0, data |-> <<>>,
     len |-> 0, crc |-> FALSE]

Init ==
    /\ settings = Initial
    /\ pc = "idle" /\ request = NoRequest
    /\ done = 0 /\ tx = <<>> /\ status = OK /\ verdict = "failed"

-----------------------------------------------------------------------------
\* The rounding is done in 16 bits.
Bytes(bits) == ((bits + BITS - 1) % WORD) \div BITS

Dropped(f) == f.len < 6 \/ f.unit # Server \/ ~f.crc

\* The checks that precede the first getter or setter.
Refusal(f) ==
    CASE f.function \in {1, 2} ->
            IF f.len # 8 THEN ILLEGAL_FUNCTION
            ELSE IF Bytes(f.count) > TX_LEN - 3 THEN SLAVE_OR_SERVER_FAILURE
            ELSE OK
      [] f.function \in {3, 4} ->
            IF f.len # 8 THEN ILLEGAL_FUNCTION
            ELSE IF f.count > (TX_LEN - 3) \div 2 THEN SLAVE_OR_SERVER_FAILURE
            ELSE OK
      [] f.function \in {5, 6} -> IF f.len # 8 THEN ILLEGAL_FUNCTION ELSE OK
      [] f.function = 15 ->
            IF f.len < 9 THEN ILLEGAL_FUNCTION
            ELSE IF Bytes(f.count) # f.bytes \/ f.bytes # f.len - 9 THEN ILLEGAL_DATA_ADDRESS
            ELSE OK
      [] f.function = 16 -> IF f.len < 9 \/ 9 + f.bytes # f.len THEN ILLEGAL_FUNCTION ELSE OK
      [] OTHER -> ILLEGAL_FUNCTION

\* The loops of the handlers go on as long as this holds.
More(f, n) ==
    CASE f.function \in {1, 2, 3, 4, 15} -> n < f.count
      [] f.function = 5 -> n < 1
      [] f.function \in {6, 16} -> 2 * n < f.bytes

\* The answer without its checksum.
AnswerLen(f) ==
    CASE f.function \in {1, 2} -> 3 + Bytes(f.count)
      [] f.function \in {3, 4} -> 3 + 2 * f.count
      [] OTHER -> 6

\* The value of a coil; beyond the data there is the checksum.
Carried(f, n) == IF n < Len(f.data) THEN {f.data[n + 1]} ELSE {0, 1}

-----------------------------------------------------------------------------
Send ==
    /\ pc = "idle"
    /\ \E f \in Requests : request' = f
    /\ pc' = "sent" /\ verdict' = "waiting"
    /\ done' = 0 /\ tx' = <<>> /\ status' = OK
    /\ UNCHANGED settings

Receive ==
    /\ pc = "sent"
    /\ \/ /\ Dropped(request)
          /\ pc' = "silent" /\ UNCHANGED status
       \/ /\ ~Dropped(request)
          /\ status' = Refusal(request)
          /\ pc' = IF status' = OK THEN "working" ELSE "answered"
    /\ UNCHANGED <<settings, request, done, tx, verdict>>

Working(functions) == pc = "working" /\ request.function \in functions /\ More(request, done)
Here == find_cmd(Object(request.function), request.addr + done)

fill_exception(code) ==
    /\ status' = code /\ pc' = "answered"
    /\ UNCHANGED <<settings, request, done, tx, verdict>>

read_bits ==
    /\ Working({1, 2})
    /\ \/ Here = {} /\ fill_exception(ILLEGAL_DATA_ADDRESS)
       \/ \E cmd \in Here :
             /\ tx' = Append(tx, <<cmd.name, 1>>) /\ done' = done + 1
             /\ UNCHANGED <<settings, pc, request, status, verdict>>

\* A value of two registers is read whole or not at all.
Parts(cmd) == [part \in 1 .. cmd.size |-> <<cmd.name, part>>]
read_registers_Eager ==
    /\ Working({3, 4})
    /\ \/ Here = {} /\ fill_exception(ILLEGAL_DATA_ADDRESS)
       \/ \E cmd \in Here :
             /\ tx' = tx \o Parts(cmd)
             /\ done' = done + cmd.size
             /\ UNCHANGED <<settings, pc, request, status, verdict>>
read_registers ==
    /\ Working({3, 4})
    /\ \/ /\ \A cmd \in Here : cmd.size > request.count - done
          /\ fill_exception(ILLEGAL_DATA_ADDRESS)
       \/ \E cmd \in Here :
             /\ cmd.size <= request.count - done
             /\ tx' = tx \o Parts(cmd)
             /\ done' = done + cmd.size
             /\ UNCHANGED <<settings, pc, request, status, verdict>>

try_bit_write_Skip ==
    /\ Working({5, 15})
    /\ done' = done + 1
    /\ \/ Here = {} /\ UNCHANGED settings
       \/ \E cmd \in Here, value \in Carried(request, done) :
             settings' = [settings EXCEPT ![cmd.name] = <<value>>]
    /\ UNCHANGED <<pc, request, tx, status, verdict>>
try_bit_write ==
    /\ Working({5, 15})
    /\ \/ Here = {} /\ fill_exception(ILLEGAL_DATA_ADDRESS)
       \/ \E cmd \in Here, value \in Carried(request, done) :
             /\ settings' = [settings EXCEPT ![cmd.name] = <<value>>]
             /\ done' = done + 1
             /\ UNCHANGED <<pc, request, tx, status, verdict>>

\* Every setter answers MODBUS_OK.
Data(f, n, size) == SubSeq(f.data, n + 1, n + size)
try_register_write_Half ==
    /\ Working({6, 16})
    /\ \/ Here = {} /\ fill_exception(ILLEGAL_DATA_ADDRESS)
       \/ \E cmd \in Here, size \in 1 .. 2 :
             /\ IF 2 * cmd.size <= request.bytes - 2 * done THEN size = cmd.size ELSE size = 1
             /\ settings' = [settings EXCEPT ![cmd.name] = Data(request, done, size)]
             /\ done' = done + size
             /\ UNCHANGED <<pc, request, tx, status, verdict>>
try_register_write_Skip ==
    /\ Working({6, 16})
    /\ \/ /\ \A cmd \in Here : 2 * cmd.size > request.bytes - 2 * done
          /\ done' = done + 1 /\ UNCHANGED settings
       \/ \E cmd \in Here :
             /\ 2 * cmd.size <= request.bytes - 2 * done
             /\ settings' = [settings EXCEPT ![cmd.name] = Data(request, done, cmd.size)]
             /\ done' = done + cmd.size
    /\ UNCHANGED <<pc, request, tx, status, verdict>>
try_register_write ==
    /\ Working({6, 16})
    /\ \/ /\ \A cmd \in Here : 2 * cmd.size > request.bytes - 2 * done
          /\ fill_exception(ILLEGAL_DATA_ADDRESS)
       \/ \E cmd \in Here :
             /\ 2 * cmd.size <= request.bytes - 2 * done
             /\ settings' = [settings EXCEPT ![cmd.name] = Data(request, done, cmd.size)]
             /\ done' = done + cmd.size
             /\ UNCHANGED <<pc, request, tx, status, verdict>>

\* The rest of modbus_interface: the checksum has to fit, too.
Finish_Unchecked ==
    /\ pc = "working" /\ ~More(request, done)
    /\ pc' = "answered" /\ status' = OK
    /\ UNCHANGED <<settings, request, done, tx, verdict>>
Finish ==
    /\ pc = "working" /\ ~More(request, done)
    /\ pc' = "answered"
    /\ status' = IF AnswerLen(request) + 2 > TX_LEN THEN SLAVE_OR_SERVER_FAILURE ELSE OK
    /\ UNCHANGED <<settings, request, done, tx, verdict>>

\* A request or an answer does not get through.
Lose ==
    /\ pc \in {"sent", "answered"}
    /\ pc' = "silent"
    /\ UNCHANGED <<settings, request, done, tx, status, verdict>>

\* The master reads the answer, or waits in vain.
Conclude ==
    /\ pc \in {"answered", "silent"}
    /\ verdict' = IF pc = "answered" /\ status = OK THEN "ok" ELSE "failed"
    /\ pc' = "idle"
    /\ UNCHANGED <<settings, request, done, tx, status>>

\* The setter under way may be writing its value to the EEPROM, byte by byte and
\* only the bytes that differ.  All other settings are in RAM, which is lost.
InEeprom == [s \in Settings |-> IF s \in Persistent THEN settings[s] ELSE Initial[s]]
Writing ==
    {cmd \in Here :
        /\ cmd.name \in Persistent
        /\ 2 * cmd.size <= request.bytes - 2 * done
        /\ settings[cmd.name] # Data(request, done, cmd.size)}
PowerCut ==
    /\ \/ settings' = InEeprom
       \/ /\ Working({6, 16})
          /\ \E cmd \in Writing, value \in Torn :
                /\ Len(value) = cmd.size
                /\ settings' = [InEeprom EXCEPT ![cmd.name] = value]
    /\ pc' = IF pc = "idle" THEN "idle" ELSE "silent"
    /\ UNCHANGED <<request, done, tx, status, verdict>>

Next ==
    \/ Send \/ Receive \/ read_bits \/ read_registers \/ try_bit_write \/ try_register_write
    \/ Finish \/ Lose \/ Conclude \/ PowerCut

Spec == Init /\ [][Next]_vars

-----------------------------------------------------------------------------
TypeOK ==
    /\ settings \in [Settings -> Seq(0 .. WORD - 1)]
    /\ \A s \in Settings : Len(settings[s]) = Len(Initial[s])
    /\ pc \in {"idle", "sent", "working", "answered", "silent"}
    /\ request \in Requests \cup {NoRequest}
    /\ done \in 0 .. WORD - 1
    /\ tx \in Seq({c.name : c \in cmd_modbus} \X {1, 2})
    /\ status \in {OK, ILLEGAL_FUNCTION, ILLEGAL_DATA_ADDRESS, SLAVE_OR_SERVER_FAILURE}
    /\ verdict \in {"waiting", "ok", "failed"}

\* The assignments a request still asks for from its n-th object on: address
\* -> command and value, Unknown where no command begins or continues.
Unknown == [name |-> "unknown", values |-> {}]
Abandoned == [a \in {0} |-> Unknown]
Objects(f) ==
    IF f.function = 5 THEN 1 ELSE IF f.function = 15 THEN f.count ELSE (f.bytes + 1) \div 2
Rest(f, n) == f.addr + n .. f.addr + Objects(f) - 1
Begins(f, a) ==
    {c \in find_cmd(Object(f.function), a) :
        c.type = "holding" => 2 * c.size <= f.bytes - 2 * (a - f.addr)}
Continues(f, n, a) ==
    \E b \in Rest(f, n) : \E c \in Begins(f, b) : b < a /\ a < b + c.size
Value(f, c, a) ==
    IF c.type = "coil" THEN {<<v>> : v \in Carried(f, a - f.addr)}
    ELSE {Data(f, a - f.addr, c.size)}
Assignment(f, a) ==
    IF Begins(f, a) = {} THEN Unknown
    ELSE LET c == CHOOSE x \in Begins(f, a) : TRUE
         IN  [name |-> c.name, values |-> Value(f, c, a)]
Wanted(f, n) ==
    IF Dropped(f) \/ Refusal(f) # OK THEN Abandoned
    ELSE IF f.function \notin {5, 6, 15, 16} THEN [a \in {} |-> Unknown]
    ELSE [a \in {x \in Rest(f, n) : ~Continues(f, n, x)} |-> Assignment(f, a)]

\* Settings are assigned in order, a power cut spoils at most the one being
\* assigned, and the master is told of success only when all of them were
\* (modbus.c:215-387, clock.c:139-158, juksautin.c:90-98).
Plan ==
    CASE pc \in {"sent", "working"} -> Wanted(request, done)
      [] pc = "silent" \/ (pc = "answered" /\ status # OK) -> Abandoned
      [] OTHER -> [a \in {} |-> Unknown]
Told == INSTANCE Assignments WITH plan <- Plan
ImplementsAssignments == Told!Spec

\* After a success the device keeps what it was given, through power cuts, as
\* far as it is kept in EEPROM: the rule of the time zone is the master's.
SuccessKept ==
    pc = "idle" /\ verdict = "ok" =>
        LET plan == Wanted(request, 0)
        IN  \A a \in DOMAIN plan :
                /\ plan[a] # Unknown
                /\ plan[a].name \in Persistent => settings[plan[a].name] \in plan[a].values

\* A good answer to a read has just the objects asked for, in their places
\* (modbus.c:107-212).
Asked(f) ==
    [k \in 1 .. f.count |->
        LET c == CHOOSE c \in cmd_modbus :
                    /\ c.type = Object(f.function)
                    /\ c.addr <= f.addr + k - 1 /\ f.addr + k - 1 < c.addr + c.size
        IN  <<c.name, f.addr + k - c.addr>>]
AnswerMatches ==
    pc = "answered" /\ status = OK /\ request.function \in {1, 2, 3, 4} => tx = Asked(request)

\* Nothing is written beyond the transmit buffer: neither a register nor the
\* checksum (modbus.c:123, 173, 458).
AnswerFits ==
    /\ request.function \in {3, 4} => 3 + 2 * Len(tx) <= TX_LEN
    /\ pc = "answered" /\ status = OK => AnswerLen(request) + 2 <= TX_LEN
=============================================================================
