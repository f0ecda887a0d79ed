----------------------------- MODULE ClockProof -----------------------------
(***************************************************************************)
(* Clock proved for every byte and word size: types, the count of ticks,   *)
(* the rule in force, and that the clock implements WallClock.             *)
(***************************************************************************)
EXTENDS Clock, TLAPS

\* The remainders the clock's arithmetic needs, without %.
LEMMA ModWord ==
    /\ \A x \in Word : x % WORD = x
    /\ \A x \in WORD .. (2 * WORD - 1) : x % WORD = x - WORD
    /\ \A x \in (-WORD) .. -1 : x % WORD = x + WORD
  BY ZoneRuleAssumption DEF ZoneRuleAssumption, Word

\* An int that is in range is its own remainder.
LEMMA ModInt == \A x \in 0 .. INT_MOD - 1 : x % INT_MOD = x
  BY ZoneRuleAssumption DEF ZoneRuleAssumption

\* Halves are what they should be.
LEMMA Halves ==
    /\ WORD \in Nat /\ WORD \div 2 \in Nat /\ WORD = 2 * (WORD \div 2)
    /\ INT_MOD \in Nat /\ INT_MOD \div 2 \in Nat /\ INT_MOD = 2 * (INT_MOD \div 2)
    /\ INT_MOD \div 2 <= WORD \div 2
  BY ZoneRuleAssumption DEF ZoneRuleAssumption

\* A byte pair is a word, and a word's bytes are bytes.
LEMMA BytesWord == \A b \in [{0, 1} -> Byte] : WordOf(b) \in Word
  <1> SUFFICES ASSUME NEW b \in [{0, 1} -> Byte] PROVE WordOf(b) \in Word
    OBVIOUS
  <1> DEFINE lo == b[0]  hi == b[1]
  <1>1. lo \in 0 .. BASE - 1 /\ hi \in 0 .. BASE - 1 /\ BASE \in Nat /\ WORD = BASE * BASE
    BY ClockAssumption DEF ClockAssumption, Byte
  <1>2. BASE * hi \in Nat /\ BASE * hi <= BASE * (BASE - 1)
    BY ONLY <1>1
  <1>3. BASE * (BASE - 1) = WORD - BASE
    BY ONLY <1>1
  <1> QED
    BY <1>1, <1>2, <1>3 DEF WordOf, Word

\* The two bytes a setter writes are bytes.
LEMMA WordBytes == \A w \in Word : w % BASE \in Byte /\ w \div BASE \in Byte
  <1> SUFFICES ASSUME NEW w \in Word PROVE w % BASE \in Byte /\ w \div BASE \in Byte
    OBVIOUS
  <1>1. w \in Nat /\ w < BASE * BASE /\ BASE \in Nat /\ BASE >= 2
    BY ClockAssumption DEF ClockAssumption, Word
  <1>2. w % BASE \in 0 .. BASE - 1
    BY ONLY <1>1
  <1>3. w \div BASE \in 0 .. BASE - 1
    BY ONLY <1>1
  <1> QED
    BY <1>2, <1>3 DEF Byte

\* The words in EEPROM form a rule.
LEMMA MemoryRules == \A ee \in [Fields -> [{0, 1} -> Byte]] : Memory(ee) \in Rules
  BY BytesWord DEF Memory, Rules

\* A word read as signed is an integer.
LEMMA SignedInt == \A w \in Word : Signed(w, WORD) \in Int
  BY Halves DEF Signed, Word

-----------------------------------------------------------------------------
\* What avr-libc uses is derived from the rule that was loaded.
Derived ==
    /\ utc_offset = PseudoZone(loaded)
    /\ clock_turn_avr = (loaded["ts_turn"] - UNIX_OFFSET) % WORD
    /\ clock_turn_offset = TurnOffset(loaded)

\* The offset shown is the rule's: the heart of the refinement
\* (clock.c:106-137, 165-170, 214-221).
THEOREM OffsetCorrect ==
    system_time \in Word /\ loaded \in Rules /\ Derived
        => (Sane(loaded, clock_get_time_unix)
                => clock_get_gmtoff = Ref(loaded, clock_get_time_unix))
  <1> SUFFICES ASSUME system_time \in Word, loaded \in Rules, Derived,
                      Sane(loaded, clock_get_time_unix)
               PROVE  clock_get_gmtoff = Ref(loaded, clock_get_time_unix)
    OBVIOUS
  <1> DEFINE zn == Signed(loaded["zone_now"], WORD)
             zt == Signed(loaded["zone_turn"], WORD)
             turn == loaded["ts_turn"]
             now == clock_get_time_unix
             H == INT_MOD \div 2
  <1>1. /\ loaded["zone_now"] \in Word /\ loaded["zone_turn"] \in Word /\ turn \in Word
        /\ zn \in Int /\ zt \in Int /\ UNIX_OFFSET \in Word /\ UNIX_OFFSET > 0
    BY SignedInt, ZoneRuleAssumption DEF Rules, Fields, ZoneRuleAssumption, Word
  <1>2. now = system_time + UNIX_OFFSET /\ now \in Nat
    <2>1. now >= UNIX_OFFSET
      BY DEF Sane, Representable
    <2>2. CASE system_time + UNIX_OFFSET \in Word
      <3>1. now = system_time + UNIX_OFFSET
        BY <2>2, ModWord DEF clock_get_time_unix
      <3> QED
        BY <3>1, <1>1, Halves DEF Word
    <2>3. CASE system_time + UNIX_OFFSET \in WORD .. (2 * WORD - 1)
      <3>1. now = system_time + UNIX_OFFSET - WORD
        BY <2>3, <1>1, ModWord, Halves DEF clock_get_time_unix, Word
      <3> QED
        BY <3>1, <2>1, <1>1, Halves DEF Word
    <2> QED
      BY <2>2, <2>3, <1>1, Halves DEF Word
  <1>3. CASE turn = 0
    <2>1. utc_offset = zn /\ clock_turn_offset = 0
      BY <1>3 DEF Derived, PseudoZone, TurnOffset
    <2>2. unixy_dst(system_time) = 0
      BY <2>1, ModInt, Halves, ZoneRuleAssumption DEF unixy_dst, AbsInt, Signed, ZoneRuleAssumption
    <2> QED
      BY <1>3, <2>1, <2>2, <1>1 DEF Ref, clock_get_gmtoff
  <1>4. CASE turn # 0
    <2>1. zt - zn < H /\ zn - zt < H /\ H \in Nat /\ H <= WORD \div 2 /\ INT_MOD = 2 * H
      BY <1>4, <1>1, Halves DEF Sane, Near
    <2>2. clock_turn_avr = turn - UNIX_OFFSET /\ clock_turn_avr \in Word
      <3>1. turn >= UNIX_OFFSET
        BY <1>4 DEF Sane, Representable
      <3>2. turn - UNIX_OFFSET \in Word
        BY <3>1, <1>1, Halves DEF Word
      <3> QED
        BY <3>2, ModWord DEF Derived
    <2>3. clock_turn_offset = zt - zn
      <3>1. clock_turn_offset = Signed((loaded["zone_turn"] - loaded["zone_now"]) % WORD, WORD)
        BY <1>4 DEF Derived, TurnOffset
      <3>2. CASE loaded["zone_turn"] >= loaded["zone_now"]
        <4>1. (loaded["zone_turn"] - loaded["zone_now"]) % WORD = loaded["zone_turn"] - loaded["zone_now"]
          BY <3>2, <1>1, ModWord, Halves DEF Word
        <4> QED
          BY <4>1, <3>1, <3>2, <2>1, <1>1, Halves DEF Signed, Word
      <3>3. CASE loaded["zone_turn"] < loaded["zone_now"]
        <4>1. (loaded["zone_turn"] - loaded["zone_now"]) % WORD
                = loaded["zone_turn"] - loaded["zone_now"] + WORD
          BY <3>3, <1>1, ModWord, Halves DEF Word
        <4> QED
          BY <4>1, <3>1, <3>3, <2>1, <1>1, Halves DEF Signed, Word
      <3> QED
        BY <3>2, <3>3, <1>1 DEF Word
    <2>4. AbsInt(clock_turn_offset) = IF zt < zn THEN zn - zt ELSE zt - zn
      <3>1. \A a \in 0 .. H - 1 : Signed(a % INT_MOD, INT_MOD) = a
        BY <2>1, ModInt DEF Signed
      <3>2. CASE zt < zn
        BY <3>1, <3>2, <2>1, <2>3, <1>1 DEF AbsInt
      <3>3. CASE zt >= zn
        BY <3>1, <3>3, <2>1, <2>3, <1>1 DEF AbsInt
      <3> QED
        BY <3>2, <3>3, <1>1
    <2>5. (system_time < clock_turn_avr) <=> (now < turn)
      BY <2>2, <1>2, <1>1 DEF Word
    <2>6. utc_offset = IF zn < zt THEN zn ELSE zt
      BY <1>4 DEF Derived, PseudoZone
    <2>7. Ref(loaded, now) = IF now < turn THEN zn ELSE zt
      BY <1>4 DEF Ref
    <2>8. CASE zt > zn
      BY <2>8, <2>3, <2>4, <2>5, <2>6, <2>7, <1>1 DEF clock_get_gmtoff, unixy_dst
    <2>9. CASE zt <= zn
      BY <2>9, <2>3, <2>4, <2>5, <2>6, <2>7, <1>1 DEF clock_get_gmtoff, unixy_dst
    <2> QED
      BY <2>8, <2>9, <1>1
  <1> QED
    BY <1>3, <1>4

-----------------------------------------------------------------------------
\* Outside the field a setter is working on, the rule loaded is the rule stored.
Stored ==
    /\ pc \in {"idle", "read"} => loaded = Memory(eeprom)
    /\ \A f \in Fields \ {field} : loaded[f] = WordOf(eeprom[f])

Inv == TypeOK /\ Derived /\ Stored /\ TicksCounted

\* What update_tzdata_from_eeprom computes has the right types.
LEMMA DerivedFits ==
    \A r \in Rules :
        /\ PseudoZone(r) \in Int /\ TurnOffset(r) \in Int
        /\ (r["ts_turn"] - UNIX_OFFSET) % WORD \in Word
  <1> SUFFICES ASSUME NEW r \in Rules
               PROVE  /\ PseudoZone(r) \in Int /\ TurnOffset(r) \in Int
                      /\ (r["ts_turn"] - UNIX_OFFSET) % WORD \in Word
    OBVIOUS
  <1>1. \A x \in Int : x % WORD \in Word
    BY ZoneRuleAssumption DEF ZoneRuleAssumption, Word
  <1>2. r["zone_now"] \in Word /\ r["zone_turn"] \in Word /\ r["ts_turn"] \in Word
    BY DEF Rules, Fields
  <1>3. /\ UNIX_OFFSET \in Int /\ r["zone_turn"] - r["zone_now"] \in Int
        /\ r["ts_turn"] - UNIX_OFFSET \in Int
    BY <1>2, ZoneRuleAssumption DEF ZoneRuleAssumption, Word
  <1> QED
    BY <1>1, <1>2, <1>3, SignedInt DEF PseudoZone, TurnOffset

\* The first boot establishes the invariant.
LEMMA InitInv == Init => Inv
  <1> SUFFICES ASSUME Init PROVE Inv
    OBVIOUS
  <1> USE DEF Init
  <1>1. /\ BASE \in Nat /\ BASE >= 2 /\ CLOCK_B \in Nat /\ CLOCK_B > 0 /\ 0 \in Byte
        /\ WORD \in Nat /\ WORD > 0 /\ 0 \in Word
    BY ClockAssumption, ZoneRuleAssumption DEF ClockAssumption, ZoneRuleAssumption, Byte, Word
  <1>2. loaded \in Rules /\ loaded = Memory(eeprom)
    <2>1. \A f \in Fields : WordOf(eeprom[f]) = 0
      BY <1>1 DEF WordOf
    <2> QED
      BY <2>1, <1>1 DEF Memory, Rules
  <1>3. Derived
    BY <1>1, ZoneRuleAssumption DEF Derived, PseudoZone, TurnOffset, Fields, Signed, ZoneRuleAssumption
  <1>4. TypeOK
    <2>1. clock_turn_avr \in Word
      BY <1>2, <1>3, DerivedFits DEF Derived
    <2>2. "zone_now" \in Fields
      BY DEF Fields
    <2>3. eeprom \in [Fields -> [{0, 1} -> Byte]]
      BY <1>1
    <2>4. /\ counter_b \in 1 .. CLOCK_B /\ ticks \in Nat
          /\ utc_offset \in Int /\ clock_turn_offset \in Int
      BY <1>1
    <2>6. is_set \in BOOLEAN
      OBVIOUS
    <2>5. /\ system_time \in Word /\ base \in Word /\ value \in Word /\ got \in Word
          /\ field \in Fields /\ pc \in {"idle", "store", "store2", "update", "read"}
      BY <1>1, <2>2
    <2> QED
      BY ONLY <2>1, <2>2, <2>3, <2>4, <2>5, <2>6, <1>2 DEF TypeOK
  <1>5. Stored
    BY <1>2 DEF Stored, Memory
  <1>6. TicksCounted
    BY <1>1 DEF TicksCounted
  <1> QED
    BY <1>3, <1>4, <1>5, <1>6 DEF Inv

\* update_tzdata_from_eeprom leaves derived data that belong to the rule it read.
LEMMA Updated ==
    \A r \in Rules : update_tzdata(r) =>
        /\ Derived' /\ loaded' = r /\ loaded' \in Rules
        /\ utc_offset' \in Int /\ clock_turn_offset' \in Int /\ clock_turn_avr' \in Word
  BY DerivedFits DEF update_tzdata, Derived

\* A byte written leaves a well-formed memory and the other fields alone.
LEMMA ByteWritten ==
    ASSUME NEW ee \in [Fields -> [{0, 1} -> Byte]], NEW f \in Fields, NEW i \in {0, 1},
           NEW b \in Byte
    PROVE  /\ [ee EXCEPT ![f][i] = b] \in [Fields -> [{0, 1} -> Byte]]
           /\ \A g \in Fields \ {f} : [ee EXCEPT ![f][i] = b][g] = ee[g]
  OBVIOUS

\* The byte a setter is about to write is a byte of its word.
LEMMA NewByteFits == TypeOK /\ pc \in {"store", "store2"} => NewByte \in Byte /\ Index \in {0, 1}
  BY WordBytes DEF TypeOK, NewByte, Index

\* Facts about the constants that many steps need.
LEMMA Constants0 ==
    /\ 0 \in Word /\ "zone_now" \in Fields /\ "ts_turn" \in Fields /\ "zone_turn" \in Fields
    /\ CLOCK_B \in Nat /\ CLOCK_B > 0 /\ CLOCK_B \in 1 .. CLOCK_B
    /\ \A x \in Int : x % WORD \in Word
  BY ClockAssumption, ZoneRuleAssumption DEF ClockAssumption, ZoneRuleAssumption, Word, Fields

-----------------------------------------------------------------------------
\* The parts of the type invariant, by the code that changes them.
TimeTypeOK ==
    /\ system_time \in Word /\ counter_b \in 1 .. CLOCK_B
    /\ base \in Word /\ ticks \in Nat
FlagTypeOK == is_set \in BOOLEAN
TzTypeOK ==
    /\ utc_offset \in Int /\ clock_turn_offset \in Int /\ clock_turn_avr \in Word
    /\ loaded \in Rules
MainTypeOK ==
    /\ pc \in {"idle", "store", "store2", "update", "read"}
    /\ field \in Fields /\ value \in Word /\ got \in Word
MemoryTypeOK == eeprom \in [Fields -> [{0, 1} -> Byte]]

\* The type invariant is the conjunction of its parts.
LEMMA TypeParts ==
    TypeOK <=> TimeTypeOK /\ FlagTypeOK /\ TzTypeOK /\ MainTypeOK /\ MemoryTypeOK
  BY DEF TypeOK, TimeTypeOK, FlagTypeOK, TzTypeOK, MainTypeOK, MemoryTypeOK

TimeInv == TimeTypeOK /\ TicksCounted
ZoneInv == TzTypeOK /\ MainTypeOK /\ MemoryTypeOK /\ Derived /\ Stored

\* What a power cut leaves behind.
LEMMA PowerCutInv ==
    ASSUME Inv, PowerCut PROVE TimeInv' /\ FlagTypeOK' /\ ZoneInv'
  <1>0. MemoryTypeOK /\ MainTypeOK /\ TypeOK
    BY TypeParts DEF Inv
  <1>1. MemoryTypeOK'
    <2>1. CASE UNCHANGED eeprom
      BY <2>1, <1>0 DEF MemoryTypeOK
    <2>2. ASSUME pc \in {"store", "store2"}, NEW b \in Byte,
                 eeprom' = [eeprom EXCEPT ![field][Index] = b]
          PROVE  MemoryTypeOK'
      <3>1. Index \in {0, 1} /\ field \in Fields
        BY <1>0, <2>2, NewByteFits DEF MainTypeOK
      <3> QED
        BY <2>2, <3>1, <1>0, ByteWritten DEF MemoryTypeOK
    <2> QED
      BY <2>1, <2>2 DEF PowerCut
  <1>2. /\ Derived' /\ loaded' = Memory(eeprom') /\ TzTypeOK'
    <2>1. Memory(eeprom') \in Rules
      BY <1>1, MemoryRules DEF MemoryTypeOK
    <2>2. update_tzdata(Memory(eeprom'))
      BY DEF PowerCut
    <2> QED
      BY <2>1, <2>2, Updated DEF TzTypeOK
  <1>3. Stored'
    BY <1>2 DEF Stored, Memory
  <1>4. MainTypeOK'
    BY Constants0 DEF PowerCut, MainTypeOK
  <1>5. TimeInv'
    <2>1. system_time' = 0 /\ counter_b' = CLOCK_B /\ base' = 0 /\ ticks' = 0
      BY DEF PowerCut
    <2> QED
      BY <2>1, Constants0 DEF TimeInv, TimeTypeOK, TicksCounted
  <1>6. FlagTypeOK'
    BY DEF PowerCut, FlagTypeOK
  <1> QED
    BY <1>1, <1>2, <1>3, <1>4, <1>5, <1>6 DEF ZoneInv

\* Steps of the timer and of the time do not touch the zone data.
LEMMA ZoneInvUnchanged ==
    ASSUME ZoneInv, UNCHANGED <<tzVars, mainVars, eeprom>> PROVE ZoneInv'
  BY DEF ZoneInv, TzTypeOK, MainTypeOK, MemoryTypeOK, Derived, Stored, tzVars, mainVars

\* The timer interrupt counts (clock.c:201-208).
LEMMA TickInv ==
    ASSUME TimeInv, TIMER2_COMPA_vect PROVE TimeInv'
  <1> USE DEF TimeInv, TimeTypeOK, TicksCounted, TIMER2_COMPA_vect
  <1>1. LastTime \in Word /\ CLOCK_B \in Nat /\ CLOCK_B > 0 /\ WORD \in Nat
    BY Constants0, ClockAssumption, ZoneRuleAssumption DEF ClockAssumption, ZoneRuleAssumption
  <1>2. /\ system_time \in Nat /\ system_time + 1 \in Word
        /\ base \in Nat /\ counter_b \in Nat /\ ticks \in Nat
    BY <1>1 DEF Word
  <1>3. CASE counter_b > 1
    BY <1>1, <1>2, <1>3
  <1>4. CASE ~(counter_b > 1)
    <2>1. counter_b = 1 /\ counter_b' = CLOCK_B /\ ticks' = ticks + 1 /\ base' = base
      BY <1>2, <1>4
    <2>2. system_time' = system_time + 1
      BY <1>2, <1>4, ModWord
    <2>3. (system_time + 1 - base) * CLOCK_B = (system_time - base) * CLOCK_B + CLOCK_B
      BY ONLY <1>1, <1>2
    <2> QED
      BY <1>1, <1>2, <2>1, <2>2, <2>3
  <1> QED
    BY <1>3, <1>4

\* Setting the time restarts the count (clock.c:85-99).
LEMMA SetTimeInv ==
    ASSUME NEW ts \in Times, clock_set_time_unix(ts) PROVE TimeInv' /\ FlagTypeOK'
  <1>1. /\ counter_b' = CLOCK_B /\ system_time' \in Word
        /\ base' = system_time' /\ ticks' = 0
    <2>1. ts - UNIX_OFFSET \in Int
      BY ClockAssumption, ZoneRuleAssumption DEF ClockAssumption, ZoneRuleAssumption, Word
    <2> QED
      BY <2>1, Constants0 DEF clock_set_time_unix
  <1>2. TimeInv'
    <2>1. base' = system_time' /\ system_time' \in Int
      BY <1>1, Halves DEF Word
    <2>2. \A x \in Int : (x - x) * CLOCK_B + (CLOCK_B - CLOCK_B) = 0
      BY Constants0
    <2>3. TicksCounted'
      BY <1>1, <2>1, <2>2, Zenon DEF TicksCounted
    <2> QED
      BY <1>1, <2>3, Constants0 DEF TimeInv, TimeTypeOK
  <1> QED
    BY <1>2 DEF clock_set_time_unix, FlagTypeOK

\* A setter is called between two commands, when everything is stored.
LEMMA StartSetInv ==
    ASSUME ZoneInv, NEW f \in Fields, NEW w \in Word, StartSet(f, w) PROVE ZoneInv'
  <1>1. TzTypeOK' /\ MemoryTypeOK' /\ Derived'
    BY DEF ZoneInv, StartSet, tzVars, TzTypeOK, MemoryTypeOK, Derived
  <1>2. MainTypeOK'
    BY DEF ZoneInv, StartSet, MainTypeOK
  <1>3. Stored'
    BY DEF ZoneInv, StartSet, tzVars, Stored, Memory
  <1> QED
    BY <1>1, <1>2, <1>3 DEF ZoneInv

\* A setter disturbs only the field it writes.
LEMMA StoreByteInv ==
    ASSUME ZoneInv, TypeOK, StoreByte PROVE ZoneInv'
  <1>1. TzTypeOK' /\ Derived' /\ MainTypeOK'
    BY DEF ZoneInv, StoreByte, tzVars, TzTypeOK, Derived, MainTypeOK
  <1>2. /\ MemoryTypeOK'
        /\ \A g \in Fields \ {field} : eeprom'[g] = eeprom[g]
    <2>1. NewByte \in Byte /\ Index \in {0, 1} /\ field \in Fields
      BY NewByteFits DEF StoreByte, ZoneInv, MainTypeOK
    <2>2. eeprom' = [eeprom EXCEPT ![field][Index] = NewByte]
      BY DEF StoreByte
    <2> QED
      BY <2>1, <2>2, ByteWritten DEF ZoneInv, MemoryTypeOK
  <1>3. Stored'
    <2>1. loaded' = loaded /\ field' = field /\ pc' \notin {"idle", "read"}
      BY DEF StoreByte, tzVars
    <2> QED
      BY <2>1, <1>2 DEF ZoneInv, Stored
  <1> QED
    BY <1>1, <1>2, <1>3 DEF ZoneInv

\* A setter ends with the stored rule in use.
LEMMA UpdateInv ==
    ASSUME ZoneInv, Update PROVE ZoneInv'
  <1>1. Memory(eeprom) \in Rules
    BY MemoryRules DEF ZoneInv, MemoryTypeOK
  <1>2. Derived' /\ TzTypeOK' /\ loaded' = Memory(eeprom) /\ eeprom' = eeprom
    BY <1>1, Updated DEF Update, TzTypeOK
  <1>3. MainTypeOK' /\ MemoryTypeOK'
    BY Constants0 DEF Update, ZoneInv, MainTypeOK, MemoryTypeOK
  <1> QED
    BY <1>2, <1>3 DEF ZoneInv, Stored, Memory

\* Reading changes neither the rule nor the memory.
LEMMA ReadInv ==
    ASSUME ZoneInv, system_time \in Word, ReadTime \/ ReadZone PROVE ZoneInv'
  <1>1. TzTypeOK' /\ MemoryTypeOK' /\ Derived'
    BY DEF ZoneInv, ReadTime, ReadZone, tzVars, TzTypeOK, MemoryTypeOK, Derived
  <1>2. clock_get_time_unix \in Word
    BY Constants0, ZoneRuleAssumption DEF clock_get_time_unix, ZoneRuleAssumption, Word
  <1>3. MainTypeOK'
    BY <1>2, Constants0 DEF ZoneInv, ReadTime, ReadZone, MainTypeOK
  <1>4. Stored'
    BY DEF ZoneInv, ReadTime, ReadZone, tzVars, Stored, Memory
  <1> QED
    BY <1>1, <1>3, <1>4 DEF ZoneInv

\* One step per action: the timer and the time commands leave the zone data
\* alone, everything else leaves the time alone, and a power cut spares nothing.
LEMMA StepInv == Inv /\ [Next]_vars => Inv'
  <1> SUFFICES ASSUME Inv, [Next]_vars PROVE TimeInv' /\ FlagTypeOK' /\ ZoneInv'
    BY TypeParts DEF Inv, TimeInv, ZoneInv,
       TypeOK, TimeTypeOK, FlagTypeOK, TzTypeOK, MainTypeOK, MemoryTypeOK
  <1>0. TimeInv /\ FlagTypeOK /\ ZoneInv /\ TypeOK /\ system_time \in Word
    BY TypeParts DEF Inv, TimeInv, ZoneInv, TimeTypeOK
  <1>a. ASSUME UNCHANGED timeVars PROVE TimeInv' /\ FlagTypeOK'
    BY <1>0, <1>a DEF timeVars, TimeInv, TimeTypeOK, FlagTypeOK, TicksCounted
  <1>1. CASE TIMER2_COMPA_vect
    <2>1. UNCHANGED <<tzVars, mainVars, eeprom>> /\ is_set' = is_set
      BY <1>1 DEF TIMER2_COMPA_vect
    <2> QED
      BY <2>1, <1>0, <1>1, TickInv, ZoneInvUnchanged DEF FlagTypeOK
  <1>2. CASE PowerCut
    BY <1>2, PowerCutInv
  <1>3. ASSUME NEW ts \in Times, clock_set_time_unix(ts)
        PROVE  TimeInv' /\ FlagTypeOK' /\ ZoneInv'
    <2>1. UNCHANGED <<tzVars, mainVars, eeprom>>
      BY <1>3 DEF clock_set_time_unix
    <2> QED
      BY <2>1, <1>0, <1>3, SetTimeInv, ZoneInvUnchanged
  <1>4. ASSUME NEW f \in Fields, NEW w \in Word, StartSet(f, w)
        PROVE  TimeInv' /\ FlagTypeOK' /\ ZoneInv'
    <2>1. UNCHANGED timeVars
      BY <1>4 DEF StartSet
    <2> QED
      BY <2>1, <1>0, <1>4, <1>a, StartSetInv
  <1>5. CASE StoreByte
    <2>1. UNCHANGED timeVars
      BY <1>5 DEF StoreByte
    <2> QED
      BY <2>1, <1>0, <1>5, <1>a, StoreByteInv
  <1>6. CASE Update
    <2>1. UNCHANGED timeVars
      BY <1>6 DEF Update
    <2> QED
      BY <2>1, <1>0, <1>6, <1>a, UpdateInv
  <1>7. CASE ReadTime \/ ReadZone
    <2>1. UNCHANGED timeVars
      BY <1>7 DEF ReadTime, ReadZone
    <2> QED
      BY <2>1, <1>0, <1>7, <1>a, ReadInv
  <1>8. CASE UNCHANGED vars
    <2>1. UNCHANGED timeVars /\ UNCHANGED <<tzVars, mainVars, eeprom>>
      BY <1>8 DEF vars
    <2> QED
      BY <2>1, <1>0, <1>a, ZoneInvUnchanged
  <1>9. CASE clock_set_gmtoff \/ clock_set_next_turn \/ clock_set_gmtoff_turn
    <2>1. Zones \subseteq Word /\ Turns \subseteq Word
      BY ClockAssumption DEF ClockAssumption
    <2> QED
      BY <2>1, <1>4, <1>9, Constants0 DEF clock_set_gmtoff, clock_set_next_turn, clock_set_gmtoff_turn
  <1> QED
    BY <1>1, <1>2, <1>3, <1>5, <1>6, <1>7, <1>8, <1>9 DEF Next

\* Inv is an invariant of the clock, whatever the timer and power cuts interrupt.
THEOREM Invariance == Spec => []Inv
  <1> QED
    BY InitInv, StepInv, PTL DEF Spec

\* The types hold for every size of bytes, words and ints.
THEOREM TypeCorrect == Spec => []TypeOK
  <1>1. Inv => TypeOK
    BY DEF Inv
  <1> QED
    BY <1>1, Invariance, PTL

\* No tick is lost or counted twice (clock.c:85-99, 201-208).
THEOREM EveryTickCounted == Spec => []TicksCounted
  <1>1. Inv => TicksCounted
    BY DEF Inv
  <1> QED
    BY <1>1, Invariance, PTL

\* Between two commands the rule in use is the one stored (clock.c:106-180).
THEOREM RuleStored == Spec => []RuleInForce
  <1>1. Inv => RuleInForce
    BY Constants0 DEF Inv, Stored, RuleInForce, Memory, eeprom_read_dword,
       clock_get_next_turn, clock_get_gmtoff_turn
  <1> QED
    BY <1>1, Invariance, PTL

-----------------------------------------------------------------------------
\* WallClock means by a rule what the clock means by it.
LEMMA SameRule ==
    \A r, t : /\ Shown!Sane(r, t) <=> Sane(r, t)
             /\ Shown!Ref(r, t) = Ref(r, t)
  BY DEF Shown!Sane, Shown!Representable, Shown!Near, Shown!Signed, Shown!Ref,
         Sane, Representable, Near, Signed, Ref

OffsetIsRules ==
    Shown!Sane(loaded, clock_get_time_unix)
        => clock_get_gmtoff = Shown!Ref(loaded, clock_get_time_unix)

\* In every state of the clock the offset is the rule's.
LEMMA OffsetShownNow == Inv => OffsetIsRules
  BY SameRule, OffsetCorrect DEF Inv, TypeOK, OffsetIsRules

\* The same after a step.
LEMMA ShowsNext == Inv' => Shown!Shows
  <1>1. Inv' => OffsetIsRules'
    BY OffsetShownNow, PTL
  <1> QED
    BY <1>1 DEF OffsetIsRules, Shown!Shows

\* UNIX time is a word.
LEMMA TimeIsWord == ASSUME NEW s \in Word PROVE (s + UNIX_OFFSET) % WORD \in Word
  BY Constants0, ZoneRuleAssumption DEF ZoneRuleAssumption, Word

\* A second later is a second later in UNIX time too, across the wrap.
LEMMA NextSecond ==
    ASSUME NEW s \in Word, s + 1 \in Word
    PROVE  (s + 1 + UNIX_OFFSET) % WORD = (((s + UNIX_OFFSET) % WORD) + 1) % WORD
  <1>1. /\ s \in Nat /\ UNIX_OFFSET \in Nat /\ UNIX_OFFSET < WORD /\ s + 1 < WORD
        /\ WORD \in Nat /\ UNIX_OFFSET > 0
    BY ZoneRuleAssumption DEF ZoneRuleAssumption, Word
  <1>2. CASE s + UNIX_OFFSET < WORD
    <2>1. (s + UNIX_OFFSET) % WORD = s + UNIX_OFFSET
      BY <1>1, <1>2
    <2> QED
      BY <1>1, <2>1
  <1>3. CASE s + UNIX_OFFSET >= WORD
    <2>1. /\ (s + UNIX_OFFSET) % WORD = s + UNIX_OFFSET - WORD
          /\ (s + 1 + UNIX_OFFSET) % WORD = s + 1 + UNIX_OFFSET - WORD
      BY <1>1, <1>3
    <2> QED
      BY <1>1, <2>1
  <1> QED
    BY <1>1, <1>2, <1>3

\* Steps that leave time and zone data alone are invisible.
LEMMA Invisible == UNCHANGED <<system_time, tzVars>> => UNCHANGED Shown!vars
  BY DEF Shown!vars, tzVars, clock_get_time_unix, clock_get_gmtoff, unixy_dst, AbsInt, Signed

\* A new rule that differs from the old one at most in the field written.
LEMMA FieldChanges ==
    ASSUME Inv, Inv', loaded' = Memory(eeprom'),
           \A g \in Fields \ {field} : eeprom'[g] = eeprom[g]
    PROVE  Shown!OneFieldChanges
  <1>1. loaded \in Rules /\ loaded' \in Rules /\ field \in Fields
    BY DEF Inv, TypeOK
  <1>2. \A g \in Fields \ {field} : loaded'[g] = loaded[g]
    BY DEF Inv, Stored, Memory
  <1>3. loaded' = [loaded EXCEPT ![field] = loaded'[field]]
    BY <1>1, <1>2 DEF Rules
  <1> QED
    BY <1>1, <1>3 DEF Shown!OneFieldChanges, Shown!Fields, Shown!Word, Fields, Word, Rules

\* Every step of the clock is one of WallClock or invisible.
LEMMA StepRefines == Inv /\ Inv' /\ [Next]_vars => [Shown!Next]_Shown!vars
  <1> SUFFICES ASSUME Inv, Inv', [Next]_vars PROVE Shown!Next \/ UNCHANGED Shown!vars
    OBVIOUS
  <1>0. Shown!Shows /\ system_time \in Word /\ system_time' \in Word
    BY ShowsNext DEF Inv, TypeOK
  <1>1. CASE TIMER2_COMPA_vect
    <2>1. UNCHANGED tzVars /\ loaded' = loaded
      BY <1>1 DEF TIMER2_COMPA_vect, tzVars
    <2>2. CASE counter_b > 1
      BY <2>1, <2>2, <1>1, Invisible DEF TIMER2_COMPA_vect
    <2>3. CASE ~(counter_b > 1)
      <3>1. system_time + 1 \in Word /\ system_time' = (system_time + 1) % WORD
        BY <2>3, <1>1, <1>0, Halves, ClockAssumption DEF TIMER2_COMPA_vect, ClockAssumption, Word
      <3>2. system_time' = system_time + 1
        BY <3>1, ModWord
      <3>3. clock_get_time_unix' = (clock_get_time_unix + 1) % WORD
        BY <3>1, <3>2, <1>0, NextSecond DEF clock_get_time_unix
      <3>4. Shown!Second
        BY <3>3, <2>1, <1>0 DEF Shown!Second
      <3> QED
        BY <3>4 DEF Shown!Next
    <2> QED
      BY <2>2, <2>3
  <1>2. CASE PowerCut
    <2>1. clock_get_time_unix' = UNIX_OFFSET
      <3>1. UNIX_OFFSET \in Word /\ 0 + UNIX_OFFSET = UNIX_OFFSET
        BY ZoneRuleAssumption DEF ZoneRuleAssumption, Word
      <3> QED
        BY <3>1, <1>2, ModWord DEF PowerCut, clock_get_time_unix
    <2>2. loaded' = Memory(eeprom')
      BY <1>2 DEF PowerCut, update_tzdata
    <2>3. \A g \in Fields \ {field} : eeprom'[g] = eeprom[g]
      <3>1. ASSUME pc \in {"store", "store2"}, NEW b \in Byte,
                   eeprom' = [eeprom EXCEPT ![field][Index] = b]
            PROVE  \A g \in Fields \ {field} : eeprom'[g] = eeprom[g]
        BY <3>1, NewByteFits, ByteWritten DEF Inv, TypeOK
      <3> QED
        BY <3>1, <1>2 DEF PowerCut
    <2>4. Shown!PowerCut
      BY <2>1, <2>2, <2>3, <1>0, FieldChanges DEF Shown!PowerCut
    <2> QED
      BY <2>4 DEF Shown!Next
  <1>3. ASSUME NEW ts \in Times, clock_set_time_unix(ts) PROVE Shown!Next
    <2>1. clock_get_time_unix' \in Word /\ loaded' = loaded
      BY <1>3, <1>0, TimeIsWord DEF clock_set_time_unix, clock_get_time_unix, tzVars
    <2>2. Shown!SetTime
      BY <2>1, <1>0 DEF Shown!SetTime, Shown!Word, Word
    <2> QED
      BY <2>2 DEF Shown!Next
  <1>4. CASE Update
    <2>1. loaded' = Memory(eeprom') /\ clock_get_time_unix' = clock_get_time_unix
      BY <1>4 DEF Update, update_tzdata, timeVars, clock_get_time_unix, Memory
    <2>2. \A g \in Fields \ {field} : eeprom'[g] = eeprom[g]
      BY <1>4 DEF Update
    <2>3. Shown!SetField
      BY <2>1, <2>2, <1>0, FieldChanges DEF Shown!SetField
    <2> QED
      BY <2>3 DEF Shown!Next
  <1>5. CASE \/ clock_set_gmtoff \/ clock_set_next_turn \/ clock_set_gmtoff_turn
             \/ StoreByte \/ ReadTime \/ ReadZone \/ UNCHANGED vars
    <2>1. UNCHANGED <<system_time, tzVars>>
      BY <1>5 DEF clock_set_gmtoff, clock_set_next_turn, clock_set_gmtoff_turn, StartSet,
         StoreByte, ReadTime, ReadZone, vars, timeVars
    <2> QED
      BY <2>1, Invisible
  <1> QED
    BY <1>1, <1>2, <1>3, <1>4, <1>5 DEF Next

\* The clock counts seconds and shows the offset of its rule, whatever the
\* timer and power cuts do to the commands (clock.c:48-221).
THEOREM WallClockRefined == Spec => ImplementsWallClock
  <1>1. Init => Shown!Init
    <2> SUFFICES ASSUME Init PROVE Shown!Init
      OBVIOUS
    <2>1. Inv
      BY InitInv
    <2>2. clock_get_time_unix = UNIX_OFFSET
      <3>1. UNIX_OFFSET \in Word /\ 0 + UNIX_OFFSET = UNIX_OFFSET
        BY ZoneRuleAssumption DEF ZoneRuleAssumption, Word
      <3> QED
        BY <3>1, ModWord DEF Init, clock_get_time_unix
    <2>3. loaded \in Shown!Rules
      BY <2>1 DEF Inv, TypeOK, Shown!Rules, Shown!Fields, Shown!Word, Rules, Fields, Word
    <2> QED
      BY <2>1, <2>2, <2>3, OffsetShownNow DEF Shown!Init, OffsetIsRules
  <1> QED
    BY <1>1, StepRefines, Invariance, PTL DEF Spec, ImplementsWallClock, Shown!Spec

-----------------------------------------------------------------------------
\* The time a read has answered with is a time of this clock, not later than
\* its own: no command can set the clock back within a read.
ReadBefore ==
    pc = "read" =>
        \E s \in Word : s <= system_time /\ got = (s + UNIX_OFFSET) % WORD

\* The timer moves the clock forward, and nothing else moves it within a read.
LEMMA ReadBeforeStep == Inv /\ ReadBefore /\ [Next]_vars => ReadBefore'
  <1> SUFFICES ASSUME Inv, ReadBefore, [Next]_vars, pc' = "read" PROVE ReadBefore'
    BY DEF ReadBefore
  <1>0. system_time \in Word
    BY DEF Inv, TypeOK
  <1>1. CASE ReadTime
    <2>1. system_time' = system_time /\ got' = (system_time + UNIX_OFFSET) % WORD
      BY <1>1 DEF ReadTime, timeVars, clock_get_time_unix
    <2>2. system_time <= system_time
      BY <1>0, Halves DEF Word
    <2> QED
      BY <2>1, <2>2, <1>0 DEF ReadBefore
  <1>2. CASE TIMER2_COMPA_vect
    <2>1. pc = "read" /\ got' = got
      BY <1>2 DEF TIMER2_COMPA_vect, mainVars
    <2>2. PICK s \in Word : s <= system_time /\ got = (s + UNIX_OFFSET) % WORD
      BY <2>1 DEF ReadBefore
    <2>3. system_time' = system_time \/ system_time' = system_time + 1
      <3>1. system_time + 1 \in Word
        BY <1>2, <1>0, Halves, ClockAssumption DEF TIMER2_COMPA_vect, ClockAssumption, Word
      <3> QED
        BY <3>1, <1>2, ModWord DEF TIMER2_COMPA_vect
    <2>4. s <= system_time'
      BY <2>2, <2>3, <1>0, Halves DEF Word
    <2> QED
      BY <2>1, <2>2, <2>4 DEF ReadBefore
  <1>3. CASE UNCHANGED vars
    BY <1>3 DEF vars, timeVars, mainVars, ReadBefore
  <1> QED
    BY <1>1, <1>2, <1>3
    DEF Next, PowerCut, clock_set_time_unix, mainVars, clock_set_gmtoff, clock_set_next_turn,
        clock_set_gmtoff_turn, StartSet, StoreByte, Update, ReadZone

\* The two halves of a Modbus answer belong together unless the change of the
\* zone came between them (modbus.c:162-212).
PairUnlessTurn ==
    [][/\ ReadZone
       /\ Sane(loaded, got) /\ Sane(loaded, clock_get_time_unix)
       /\ loaded["ts_turn"] \notin got + 1 .. clock_get_time_unix
       => clock_get_gmtoff = Ref(loaded, got)]_vars

\* The rule means the same at two times with no change between them.
LEMMA SameOffset ==
    ASSUME NEW r \in Rules, NEW s \in Word, NEW t \in Word, s <= t,
           r["ts_turn"] \notin s + 1 .. t
    PROVE  Ref(r, s) = Ref(r, t)
  <1>1. r["ts_turn"] \in Nat /\ s \in Nat /\ t \in Nat
    BY Halves DEF Rules, Fields, Word
  <1>2. (s < r["ts_turn"]) <=> (t < r["ts_turn"])
    BY <1>1
  <1> QED
    BY <1>2 DEF Ref

\* The offset is read at the rule's meaning now, which is that of then.
LEMMA PairStep ==
    Inv /\ ReadBefore =>
        [/\ ReadZone
         /\ Sane(loaded, got) /\ Sane(loaded, clock_get_time_unix)
         /\ loaded["ts_turn"] \notin got + 1 .. clock_get_time_unix
         => clock_get_gmtoff = Ref(loaded, got)]_vars
  <1> SUFFICES ASSUME Inv, ReadBefore, ReadZone, Sane(loaded, got),
                      Sane(loaded, clock_get_time_unix),
                      loaded["ts_turn"] \notin got + 1 .. clock_get_time_unix
               PROVE  clock_get_gmtoff = Ref(loaded, got)
    OBVIOUS
  <1>1. system_time \in Word /\ loaded \in Rules /\ got \in Word /\ Derived
    BY DEF Inv, TypeOK
  <1>2. clock_get_gmtoff = Ref(loaded, clock_get_time_unix)
    BY <1>1, OffsetCorrect
  <1>3. PICK s \in Word : s <= system_time /\ got = (s + UNIX_OFFSET) % WORD
    BY DEF ReadZone, ReadBefore
  <1>4. /\ UNIX_OFFSET \in Nat /\ UNIX_OFFSET < WORD /\ WORD \in Nat
        /\ s \in Nat /\ system_time \in Nat /\ system_time < WORD
    BY <1>1, ZoneRuleAssumption DEF ZoneRuleAssumption, Word
  <1>5. clock_get_time_unix = system_time + UNIX_OFFSET /\ clock_get_time_unix \in Word
    <2>1. clock_get_time_unix \in Word
      BY <1>1, TimeIsWord DEF clock_get_time_unix
    <2>2. clock_get_time_unix >= UNIX_OFFSET
      BY DEF Sane, Representable
    <2>3. system_time + UNIX_OFFSET < WORD
      <3> SUFFICES ASSUME system_time + UNIX_OFFSET >= WORD PROVE FALSE
        BY <1>4
      <3>1. system_time + UNIX_OFFSET \in WORD .. (2 * WORD - 1)
        BY <1>4
      <3>2. clock_get_time_unix = system_time + UNIX_OFFSET - WORD
        BY <3>1, <1>1, <1>4, ModWord, Halves DEF clock_get_time_unix, Word
      <3> QED
        BY <3>2, <2>2, <1>4
    <2>4. system_time + UNIX_OFFSET \in Word
      BY <2>3, <1>4 DEF Word
    <2> QED
      BY <2>1, <2>4, ModWord DEF clock_get_time_unix
  <1>6. got = s + UNIX_OFFSET
    <2>1. s + UNIX_OFFSET \in Word
      BY <1>3, <1>4, <1>5 DEF Word
    <2> QED
      BY <2>1, <1>3, ModWord
  <1>7. got <= clock_get_time_unix
    BY <1>3, <1>4, <1>5, <1>6
  <1> QED
    BY <1>1, <1>2, <1>5, <1>7, SameOffset

\* A time and its offset differ only over the second of the change
\* (modbus.c:162-212).
THEOREM PairMostlyRight == Spec => PairUnlessTurn
  <1>1. Init => ReadBefore
    BY DEF Init, ReadBefore
  <1> QED
    BY <1>1, ReadBeforeStep, PairStep, Invariance, PTL DEF Spec, PairUnlessTurn
=============================================================================
