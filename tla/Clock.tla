------------------------------- MODULE Clock --------------------------------
(***************************************************************************)
(* The real-time clock, avr/src/clock.c: seconds counted by                *)
(* TIMER2_COMPA_vect, and time zone data kept in EEPROM and turned into    *)
(* what avr-libc expects.  The timer interrupt and a power cut come        *)
(* between any two steps of a setter or of a Modbus read.                  *)
(***************************************************************************)
EXTENDS ZoneRule

CONSTANTS
    BASE,        \* values of an EEPROM byte; a word has two bytes here
    CLOCK_B,     \* timer interrupts per second
    Times, Zones, Turns, \* the words the interfaces write
    LastTime     \* bound: the clock is not followed beyond it

ASSUME ClockAssumption ==
    /\ BASE \in Nat /\ BASE >= 2 /\ WORD = BASE * BASE
    /\ CLOCK_B \in Nat \ {0}
    /\ Times \subseteq Word /\ Zones \subseteq Word /\ Turns \subseteq Word
    /\ LastTime \in Word

VARIABLES
    system_time,  \* avr-libc's clock, seconds since 2000 (mod WORD)
    counter_b,
    is_set,
    utc_offset,   \* avr-libc's __utc_offset
    clock_turn_avr, clock_turn_offset,
    eeprom,       \* the bytes of ee_zone_now, ee_ts_turn and ee_zone_turn
    pc,           \* main loop: "idle", in a setter ("store", "store2",
                  \* "update"), or between the two getters of a "read"
    field, value, \* what the setter writes
    got,          \* the time a read has already put into its reply
    base, ticks,  \* history: time last set, timer interrupts since
    loaded        \* history: the words time zone data was last computed from

tzVars == <<utc_offset, clock_turn_avr, clock_turn_offset, loaded>>
timeVars == <<system_time, counter_b, is_set, base, ticks>>
mainVars == <<pc, field, value, got>>
vars == <<tzVars, timeVars, mainVars, eeprom>>

Byte == 0 .. BASE - 1
WordOf(bytes) == bytes[0] + BASE * bytes[1]
eeprom_read_dword(f) == WordOf(eeprom[f])
Memory(ee) == [f \in Fields |-> WordOf(ee[f])]

TypeOK ==
    /\ system_time \in Word /\ counter_b \in 1 .. CLOCK_B /\ is_set \in BOOLEAN
    /\ utc_offset \in Int /\ clock_turn_offset \in Int /\ clock_turn_avr \in Word
    /\ eeprom \in [Fields -> [{0, 1} -> Byte]]
    /\ pc \in {"idle", "store", "store2", "update", "read"}
    /\ field \in Fields /\ value \in Word /\ got \in Word
    /\ base \in Word /\ ticks \in Nat
    /\ loaded \in Rules

-----------------------------------------------------------------------------
\* The difference is that of two words, so it wraps.
TurnOffset(r) ==
    IF r["ts_turn"] = 0 THEN 0
    ELSE Signed((r["zone_turn"] - r["zone_now"]) % WORD, WORD)

\* avr-libc knows a base zone and a positive summer time offset: the base is
\* the smaller of the two offsets.
PseudoZone_Larger(r) ==
    LET zone_now == Signed(r["zone_now"], WORD)
        zone_turn == Signed(r["zone_turn"], WORD)
    IN  IF r["ts_turn"] = 0 \/ zone_now > zone_turn THEN zone_now ELSE zone_turn
PseudoZone(r) ==
    LET zone_now == Signed(r["zone_now"], WORD)
        zone_turn == Signed(r["zone_turn"], WORD)
    IN  IF r["ts_turn"] = 0 \/ zone_now < zone_turn THEN zone_now ELSE zone_turn

\* r is what the EEPROM holds.
update_tzdata(r) ==
    /\ utc_offset' = PseudoZone(r)
    /\ clock_turn_avr' = (r["ts_turn"] - UNIX_OFFSET) % WORD
    /\ clock_turn_offset' = TurnOffset(r)
    /\ loaded' = r

\* The summer time offset is returned as an int.
AbsInt(x) == LET a == IF x < 0 THEN -x ELSE x IN Signed(a % INT_MOD, INT_MOD)
unixy_dst(t) ==
    LET before_turn == t < clock_turn_avr
        towards_summer == clock_turn_offset > 0
        is_now_dst == before_turn # towards_summer
    IN  IF is_now_dst THEN AbsInt(clock_turn_offset) ELSE 0

clock_get_time_unix == (system_time + UNIX_OFFSET) % WORD
clock_get_gmtoff == utc_offset + unixy_dst(system_time)
clock_get_next_turn == eeprom_read_dword("ts_turn")
clock_get_gmtoff_turn == Signed(eeprom_read_dword("zone_turn"), WORD)

-----------------------------------------------------------------------------
\* The first boot finds the EEPROM as the programmer wrote it.
Init ==
    /\ eeprom = [f \in Fields |-> [i \in {0, 1} |-> 0]]
    /\ system_time = 0 /\ counter_b = CLOCK_B /\ is_set = FALSE
    /\ base = 0 /\ ticks = 0
    /\ loaded = [f \in Fields |-> 0]
    /\ utc_offset = 0 /\ clock_turn_offset = 0
    /\ clock_turn_avr = (0 - UNIX_OFFSET) % WORD
    /\ pc = "idle" /\ field = "zone_now" /\ value = 0 /\ got = 0

\* The byte a setter is to write next, if any.
Index == IF pc = "store" THEN 0 ELSE 1
NewByte == IF pc = "store" THEN value % BASE ELSE value \div BASE

\* RAM is lost.  A cut in the write of a byte leaves any value in it.
PowerCut ==
    /\ \/ UNCHANGED eeprom
       \/ /\ pc \in {"store", "store2"} /\ eeprom[field][Index] # NewByte
          /\ \E b \in Byte : eeprom' = [eeprom EXCEPT ![field][Index] = b]
    /\ update_tzdata(Memory(eeprom'))
    /\ system_time' = 0 /\ counter_b' = CLOCK_B /\ is_set' = FALSE
    /\ base' = 0 /\ ticks' = 0
    /\ pc' = "idle" /\ field' = "zone_now" /\ value' = 0 /\ got' = 0

TIMER2_COMPA_vect_NoReload ==
    /\ system_time < LastTime
    /\ ticks' = ticks + 1
    /\ counter_b' = counter_b - 1
    /\ system_time' = IF counter_b' = 0 THEN (system_time + 1) % WORD ELSE system_time
    /\ UNCHANGED <<is_set, base, tzVars, mainVars, eeprom>>
TIMER2_COMPA_vect ==
    /\ system_time < LastTime
    /\ ticks' = ticks + 1
    /\ IF counter_b > 1
       THEN counter_b' = counter_b - 1 /\ UNCHANGED system_time
       ELSE counter_b' = CLOCK_B /\ system_time' = (system_time + 1) % WORD
    /\ UNCHANGED <<is_set, base, tzVars, mainVars, eeprom>>

\* Interrupts are off: the tick counter and the time change together.
clock_set_time_unix_Unlocked(ts_now) ==
    /\ \/ /\ pc = "idle" /\ pc' = "set" /\ value' = ts_now
          /\ counter_b' = CLOCK_B /\ base' = system_time
          /\ UNCHANGED <<system_time, is_set>>
       \/ /\ pc = "set" /\ pc' = "idle" /\ ts_now = value /\ value' = 0
          /\ system_time' = (ts_now - UNIX_OFFSET) % WORD /\ is_set' = TRUE
          /\ base' = system_time' /\ UNCHANGED counter_b
    /\ ticks' = 0
    /\ UNCHANGED <<tzVars, field, got, eeprom>>
clock_set_time_unix(ts_now) ==
    /\ pc = "idle"
    /\ counter_b' = CLOCK_B
    /\ system_time' = (ts_now - UNIX_OFFSET) % WORD
    /\ is_set' = TRUE
    /\ base' = system_time' /\ ticks' = 0
    /\ UNCHANGED <<tzVars, mainVars, eeprom>>

\* The setters of the zone rule write one word, byte by byte, and then bring
\* the data derived from it up to date.
StartSet(f, w) ==
    /\ pc = "idle"
    /\ pc' = "store" /\ field' = f /\ value' = w
    /\ UNCHANGED <<tzVars, timeVars, got, eeprom>>

clock_set_gmtoff == \E z \in Zones : StartSet("zone_now", z)
clock_set_next_turn == \E ts \in Turns : StartSet("ts_turn", ts)
clock_set_gmtoff_turn == \E z \in Zones : StartSet("zone_turn", z)

StoreByte ==
    /\ pc \in {"store", "store2"}
    /\ eeprom' = [eeprom EXCEPT ![field][Index] = NewByte]
    /\ pc' = IF pc = "store" THEN "store2" ELSE "update"
    /\ UNCHANGED <<tzVars, timeVars, field, value, got>>

Update_Skipped ==
    /\ pc = "update"
    /\ pc' = "idle" /\ field' = "zone_now" /\ value' = 0
    /\ UNCHANGED <<tzVars, timeVars, got, eeprom>>
Update ==
    /\ pc = "update"
    /\ update_tzdata(Memory(eeprom))
    /\ pc' = "idle" /\ field' = "zone_now" /\ value' = 0
    /\ UNCHANGED <<timeVars, got, eeprom>>

\* A Modbus read of the registers of time and gmtoff calls one getter after
\* the other.
ReadTime ==
    /\ pc = "idle"
    /\ pc' = "read" /\ got' = clock_get_time_unix
    /\ UNCHANGED <<tzVars, timeVars, field, value, eeprom>>

ReadZone ==
    /\ pc = "read"
    /\ pc' = "idle" /\ got' = 0
    /\ UNCHANGED <<tzVars, timeVars, field, value, eeprom>>

Next ==
    \/ TIMER2_COMPA_vect \/ PowerCut
    \/ \E ts \in Times : clock_set_time_unix(ts)
    \/ clock_set_gmtoff \/ clock_set_next_turn \/ clock_set_gmtoff_turn
    \/ StoreByte \/ Update \/ ReadTime \/ ReadZone

Spec == Init /\ [][Next]_vars

-----------------------------------------------------------------------------
\* No tick is lost or counted twice, whenever the clock is set: the seconds
\* and the ticks of the current second add up to the interrupts since then
\* (clock.c:85-99, 201-208).
TicksCounted ==
    (system_time - base) * CLOCK_B + (CLOCK_B - counter_b) = ticks

\* Between two commands the time zone data in use is that of the EEPROM, so
\* the getters agree with it and a power cut changes nothing (clock.c:106-180).
RuleInForce ==
    pc \in {"idle", "read"} =>
        /\ loaded["zone_now"] = eeprom_read_dword("zone_now")
        /\ loaded["ts_turn"] = clock_get_next_turn
        /\ Signed(loaded["zone_turn"], WORD) = clock_get_gmtoff_turn

\* The offset shown is that of the rule at the current time, for sane rules,
\* and a power cut spoils at most the field being written (clock.c:106-180).
Shown == INSTANCE WallClock WITH
             now <- clock_get_time_unix, rule <- loaded, offset <- clock_get_gmtoff
ImplementsWallClock == Shown!Spec

\* The time and the offset of one Modbus answer belong together
\* (modbus.c:162-212 calls the getters one by one).
PairConsistent == [][ReadZone /\ Sane(loaded, got) => clock_get_gmtoff = Ref(loaded, got)]_vars
=============================================================================
