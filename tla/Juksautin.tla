----------------------------- MODULE Juksautin ------------------------------
(***************************************************************************)
(* Measurement and control, avr/src/juksautin.c and avr/src/adc.c.  The    *)
(* ADC interrupts the main loop after every conversion, selects the next   *)
(* channel, accounts for the one before and, on the NTC channel, decides   *)
(* whether the output pulls.  The main loop takes the accumulators and     *)
(* sets the target, and the power may be cut between any two steps.        *)
(*                                                                         *)
(* A handler returns before the next conversion is done (adc.h:10-12), so  *)
(* the main loop never runs between ADC_vect and the end of its handler.   *)
(***************************************************************************)
EXTENDS Integers

CONSTANTS
    SAMPLES,        \* values of a conversion, 2^10
    COUNT_MOD,      \* values of uint16_t
    SUM_MOD,        \* values of uint32_t
    MV_MULT, MV_DIV,
    INITIAL_MV,     \* the target the EEPROM is programmed with, 1 V
    BASE,           \* values of the low byte of a word
    Uses            \* ways the unit may be used: what each channel measures,
                    \* which input registers are read and which targets written

Channels == {0, 2, 3, 4, 8}
MvAccus == {"k5_raw", "int_temp", "outside_temp", "accumulator_temp"}
Accus == MvAccus \cup {"juksautin"}
Sample == 0 .. SAMPLES - 1
Word == 0 .. COUNT_MOD - 1

ASSUME JuksautinAssumption ==
    /\ SAMPLES \in Nat /\ SAMPLES >= 2 /\ 2 * SAMPLES <= COUNT_MOD
    /\ COUNT_MOD \in Nat /\ COUNT_MOD >= 4 /\ COUNT_MOD % 2 = 0
    /\ BASE \in Nat \ {0} /\ COUNT_MOD % BASE = 0
    /\ SUM_MOD = COUNT_MOD * COUNT_MOD
    /\ MV_MULT \in Nat /\ MV_DIV \in Nat /\ MV_DIV >= 2
    /\ MV_DIV <= MV_MULT /\ MV_MULT < 2 * MV_DIV /\ MV_MULT <= COUNT_MOD
    /\ MV_MULT * (3 * SAMPLES) < SUM_MOD  \* 8.4e5 of 4.3e9
    /\ INITIAL_MV \in Word
    /\ Uses \subseteq [inputs : [Channels -> SUBSET Sample],
                       registers : SUBSET (Accus \cup {"err"}),
                       targets : SUBSET Word]

VARIABLES
    use,         \* the way this unit is used, fixed for good
    ADMUX,       \* the channel being converted
    cycle,
    juksautus,   \* whether PIN_FB pulls
    accu, err,   \* v_accu
    target,
    ee_target,   \* its low and high byte
    pc, value,   \* main loop: idle, or in juksautin_set_target
    reply,       \* the register just read, 0 later on
    seen,        \* history: the samples since each accumulator was taken
    asked        \* history: the target last asked for, in millivolts

adcVars == <<ADMUX, cycle, juksautus>>
accuVars == <<accu, err, seen>>
targetVars == <<target, ee_target, pc, value, asked>>
vars == <<use, adcVars, accuVars, targetVars, reply>>

accu_mv_sum_max == (SUM_MOD - 1) \div MV_MULT - SAMPLES
accu_bool_sum_max == COUNT_MOD - 2

-----------------------------------------------------------------------------
\* Add a sample.  Halving drops the least significant bits when the count
\* wraps, or when the sum gets too large for the conversion.
Store_OnlyCount(a, val, max) ==
    LET sum == (a.sum + val) % SUM_MOD
        count == (a.count + 1) % COUNT_MOD
    IN  IF count = 0 THEN [sum |-> sum \div 2, count |-> COUNT_MOD \div 2]
        ELSE [sum |-> sum, count |-> count]
Store(a, val, max) ==
    LET sum == (a.sum + val) % SUM_MOD
        count == (a.count + 1) % COUNT_MOD
    IN  IF count = 0 THEN [sum |-> sum \div 2, count |-> COUNT_MOD \div 2]
        ELSE IF count % 2 = 0 /\ sum > max
             THEN [sum |-> sum \div 2, count |-> count \div 2]
             ELSE [sum |-> sum, count |-> count]

Empty == [sum |-> 0, count |-> 0]

\* What a division by zero returns is up to the run-time library.
Divide(n, d) == IF d = 0 THEN 0 .. SUM_MOD - 1 ELSE {n \div d}
to_millivolts(a) ==
    {(q \div MV_DIV) % COUNT_MOD : q \in Divide((a.sum * MV_MULT) % SUM_MOD, a.count)}
to_ratio16_Narrow(a) ==
    {q % COUNT_MOD : q \in Divide((a.sum * COUNT_MOD) % COUNT_MOD, a.count)}
to_ratio16(a) ==
    {q % COUNT_MOD : q \in Divide((a.sum * COUNT_MOD) % SUM_MOD, a.count)}

\* Millivolts to samples and back, rounded.
ToRaw(mv) == ((mv * MV_DIV + MV_DIV \div 2) \div MV_MULT) % COUNT_MOD
ToMillivolts(raw) == ((raw * MV_MULT + MV_MULT \div 2) \div MV_DIV) % COUNT_MOD
juksautin_get_target == ToMillivolts(target)

WordOf(bytes) == bytes.low + BASE * bytes.high
Bytes(w) == [low |-> w % BASE, high |-> w \div BASE]

-----------------------------------------------------------------------------
Init ==
    /\ use \in Uses
    /\ ADMUX = 8 /\ cycle = 0 /\ juksautus = FALSE
    /\ accu = [a \in Accus |-> Empty] /\ err = 0
    /\ seen = [a \in Accus \cup {"err"} |-> {}]
    /\ target = (INITIAL_MV * MV_DIV) \div MV_MULT
    /\ ee_target = Bytes(target)
    /\ asked = juksautin_get_target
    /\ pc = "idle" /\ value = 0 /\ reply = 0

\* RAM is lost, the EEPROM read again.  A byte is programmed only if it
\* differs, and may hold anything if the power fails meanwhile.
PowerCut ==
    /\ \/ UNCHANGED ee_target
       \/ /\ pc = "save" /\ ee_target.low # Bytes(value).low
          /\ \E b \in 0 .. BASE - 1 : ee_target' = [ee_target EXCEPT !.low = b]
       \/ /\ pc = "save2" /\ ee_target.high # Bytes(value).high
          /\ \E b \in 0 .. COUNT_MOD \div BASE - 1 : ee_target' = [ee_target EXCEPT !.high = b]
    /\ ADMUX' = 8 /\ cycle' = 0 /\ juksautus' = FALSE
    /\ accu' = [a \in Accus |-> Empty] /\ err' = 0
    /\ seen' = [a \in Accus \cup {"err"} |-> {}]
    /\ target' = WordOf(ee_target')
    /\ asked' = ToMillivolts(target')
    /\ pc' = "idle" /\ value' = 0 /\ reply' = 0 /\ UNCHANGED use

adc_channel_selection_Late ==
    CASE cycle' = 0 -> 8
      [] cycle' = 4 -> 2
      [] cycle' = 8 -> 3
      [] cycle' = 16 -> 4
      [] OTHER -> 0
adc_channel_selection ==
    CASE cycle' = 0 -> 8
      [] cycle' = 4 -> 2
      [] cycle' = 8 -> 3
      [] cycle' = 12 -> 4
      [] OTHER -> 0

AccuOf(chan) ==
    CASE chan = 0 -> "k5_raw"
      [] chan = 8 -> "int_temp"
      [] chan = 3 -> "outside_temp"
      [] chan = 4 -> "accumulator_temp"
      [] chan = 2 -> "err"

\* The interrupt first counts the period that has just ended, and then calls
\* the handler of the channel: one of four accumulators or the peak detector.
Account_LastError(chan, val) ==
    LET a == AccuOf(chan)
        on == IF juksautus THEN 1 ELSE 0
        counted == [accu EXCEPT !["juksautin"] = Store(@, on, accu_bool_sum_max)]
    IN  IF a = "err"
        THEN accu' = counted /\ err' = val
        ELSE accu' = [counted EXCEPT ![a] = Store(@, val, accu_mv_sum_max)] /\ UNCHANGED err
Account_NextChannel(chan, val) ==
    LET a == AccuOf(ADMUX')
        on == IF juksautus THEN 1 ELSE 0
        counted == [accu EXCEPT !["juksautin"] = Store(@, on, accu_bool_sum_max)]
    IN  IF a = "err"
        THEN accu' = counted /\ err' = IF err >= val THEN err ELSE val
        ELSE accu' = [counted EXCEPT ![a] = Store(@, val, accu_mv_sum_max)] /\ UNCHANGED err
Account(chan, val) ==
    LET a == AccuOf(chan)
        on == IF juksautus THEN 1 ELSE 0
        counted == [accu EXCEPT !["juksautin"] = Store(@, on, accu_bool_sum_max)]
    IN  IF a = "err"
        THEN accu' = counted /\ err' = IF err >= val THEN err ELSE val
        ELSE accu' = [counted EXCEPT ![a] = Store(@, val, accu_mv_sum_max)] /\ UNCHANGED err

Seen(chan, val) ==
    seen' = [seen EXCEPT !["juksautin"] = @ \cup {IF juksautus THEN 1 ELSE 0},
                         ![AccuOf(chan)] = @ \cup {val}]

ADC_vect_LongCycle ==
    /\ cycle' = (cycle + 1) % 32
    /\ ADMUX' = adc_channel_selection
    /\ \E val \in use.inputs[ADMUX] :
          /\ Account(ADMUX, val)
          /\ Seen(ADMUX, val)
          /\ juksautus' = IF ADMUX = 0 THEN val > target ELSE juksautus
    /\ reply' = 0 /\ UNCHANGED <<use, targetVars>>
ADC_vect ==
    /\ cycle' = (cycle + 1) % 16
    /\ ADMUX' = adc_channel_selection
    /\ \E val \in use.inputs[ADMUX] :
          /\ Account(ADMUX, val)
          /\ Seen(ADMUX, val)
          /\ juksautus' = IF ADMUX = 0 THEN val > target ELSE juksautus
    /\ reply' = 0 /\ UNCHANGED <<use, targetVars>>

\* take_accu reads and empties an accumulator with interrupts off.
Take_Unlocked(a) ==
    /\ pc \in {"idle", a} /\ a \in use.registers \cap Accus
    /\ LET first == pc = "idle"
           read == [accu[a] EXCEPT !.count = IF first THEN @ ELSE value]
       IN  /\ pc' = IF first THEN a ELSE "idle"
           /\ value' = IF first THEN read.count ELSE 0
           /\ reply' \in IF a = "juksautin" THEN to_ratio16(read) ELSE to_millivolts(read)
           /\ accu' = IF first THEN accu ELSE [accu EXCEPT ![a] = Empty]
           /\ seen' = IF first THEN seen ELSE [seen EXCEPT ![a] = {}]
    /\ UNCHANGED <<use, err, adcVars, target, ee_target, asked>>
Take(a) ==
    /\ pc = "idle" /\ a \in use.registers \cap Accus
    /\ reply' \in IF a = "juksautin" THEN to_ratio16(accu[a]) ELSE to_millivolts(accu[a])
    /\ accu' = [accu EXCEPT ![a] = Empty]
    /\ seen' = [seen EXCEPT ![a] = {}]
    /\ UNCHANGED <<use, err, adcVars, targetVars>>

juksautin_take_error ==
    /\ pc = "idle" /\ "err" \in use.registers
    /\ reply' = err /\ err' = 0
    /\ seen' = [seen EXCEPT !["err"] = {}]
    /\ UNCHANGED <<use, accu, adcVars, targetVars>>

\* The target takes effect first, as a whole, then it is saved byte by byte.
juksautin_set_target_Unlocked ==
    /\ \/ /\ pc = "idle" /\ pc' = "set"
          /\ \E mv \in use.targets : asked' = mv /\ value' = ToRaw(mv)
          /\ target' = WordOf([Bytes(target) EXCEPT !.high = Bytes(value').high])
       \/ /\ pc = "set" /\ pc' = "save"
          /\ target' = value /\ UNCHANGED <<asked, value>>
    /\ reply' = 0 /\ UNCHANGED <<use, adcVars, accuVars, ee_target>>
juksautin_set_target ==
    /\ pc = "idle"
    /\ \E mv \in use.targets : asked' = mv /\ target' = ToRaw(mv)
    /\ value' = target' /\ pc' = "save"
    /\ reply' = 0 /\ UNCHANGED <<use, adcVars, accuVars, ee_target>>

SaveTarget ==
    /\ \/ /\ pc = "save" /\ pc' = "save2"
          /\ ee_target' = [ee_target EXCEPT !.low = Bytes(value).low]
          /\ UNCHANGED value
       \/ /\ pc = "save2" /\ pc' = "idle"
          /\ ee_target' = [ee_target EXCEPT !.high = Bytes(value).high]
          /\ value' = 0
    /\ reply' = 0 /\ UNCHANGED <<use, adcVars, accuVars, target, asked>>

Next ==
    \/ PowerCut \/ ADC_vect
    \/ \E a \in Accus : Take(a)
    \/ juksautin_take_error \/ juksautin_set_target \/ SaveTarget

Spec == Init /\ [][Next]_vars
\* The ADC runs by itself.
LiveSpec == Spec /\ WF_vars(ADC_vect)

-----------------------------------------------------------------------------
TypeOK ==
    /\ use \in Uses /\ ADMUX \in Channels /\ cycle \in 0 .. 15 /\ juksautus \in BOOLEAN
    /\ accu \in [Accus -> [sum : 0 .. SUM_MOD - 1, count : Word]]
    /\ err \in Sample
    /\ target \in Word /\ ee_target \in [low : 0 .. BASE - 1, high : 0 .. COUNT_MOD \div BASE - 1]
    /\ pc \in {"idle", "save", "save2"} /\ value \in Word
    /\ reply \in Word
    /\ seen \in [Accus \cup {"err"} -> SUBSET Sample]
    /\ asked \in Word

\* The mean stays between the lowest and the highest sample since the
\* accumulator was taken, however often it was halved since, and samples never
\* get into the wrong accumulator (juksautin.c:147-157, 244-263, adc.c:94-107).
MeanFair ==
    \A a \in Accus :
        IF seen[a] = {} THEN accu[a] = Empty
        ELSE \E lo, hi \in seen[a] :
                /\ accu[a].count > 0
                /\ lo * accu[a].count <= accu[a].sum
                /\ accu[a].sum <= hi * accu[a].count

\* The conversions never overflow 32 bits (juksautin.c:32-40).
Factor(a) == IF a = "juksautin" THEN COUNT_MOD ELSE MV_MULT
NoOverflow == \A a \in Accus : accu[a].sum * Factor(a) < SUM_MOD

\* The error LED's value is the highest since it was taken (juksautin.c:125-134,
\* 237-241).
ErrorPeak ==
    IF seen["err"] = {} THEN err = 0
    ELSE err \in seen["err"] /\ \A v \in seen["err"] : v <= err

\* The target in use is at any moment, also while interrupts compare with it,
\* the one asked for within a millivolt, never a mixture of an old and a new
\* one, and between two commands it is the one saved (juksautin.c:73-107).
TargetKept ==
    /\ juksautin_get_target - asked \in -1 .. 1
    /\ pc = "idle" => target = WordOf(ee_target)

\* A register shows a mean of the samples since it was read (juksautin.c:160-163).
InMillivolts(sample) == (sample * MV_MULT) \div MV_DIV
MeanShown ==
    [][\A a \in MvAccus : Take(a) /\ seen[a] # {} =>
          \E lo, hi \in seen[a] : reply' \in InMillivolts(lo) .. InMillivolts(hi)]_vars

\* Unless the power fails again and again, every channel is measured again and
\* again (juksautin.c:173-203).
AllMeasured == \A c \in Channels : []<>(ADMUX = c) \/ []<><<PowerCut>>_vars

\* The duty cycle is exact to the last bit if one period at least did not
\* pull, however often its accumulator was halved (juksautin.c:165-170, 205-216).
DutyExact ==
    [][LET a == accu["juksautin"]
       IN  Take("juksautin") /\ 0 \in seen["juksautin"] =>
              reply' * a.count <= a.sum * COUNT_MOD /\ a.sum * COUNT_MOD < (reply' + 1) * a.count]_vars

\* "Get juksautin duty cycle in range 0-65535" (juksautin.h:29), "ratio scaled
\* up to full scale of 16 bit unsigned integer" (juksautin.c:165-166): an output
\* that always pulled shows the highest ratio.  It shows 0.
DutyFull ==
    [][Take("juksautin") /\ seen["juksautin"] = {1} => reply' = COUNT_MOD - 1]_vars
=============================================================================
