------------------------------ MODULE ZoneRule ------------------------------
(***************************************************************************)
(* A time zone rule of one change, "now this offset, from that moment on   *)
(* that one", as the comment at avr/src/clock.c:35-43 describes it: three  *)
(* words, of which two are offsets and signed.                             *)
(***************************************************************************)
EXTENDS Integers

CONSTANTS
    WORD,        \* 2^32
    INT_MOD,     \* 2^16, the range of int on this processor
    UNIX_OFFSET  \* the year 2000 in UNIX time, where avr-libc's clock starts

ASSUME ZoneRuleAssumption ==
    /\ INT_MOD \in Nat \ {0} /\ INT_MOD % 2 = 0
    /\ WORD \in Nat \ {0} /\ WORD % 2 = 0
    /\ INT_MOD <= WORD
    /\ UNIX_OFFSET \in 1 .. WORD - 1

Word == 0 .. WORD - 1
Fields == {"zone_now", "ts_turn", "zone_turn"}
Rules == [Fields -> Word]

\* A word of m values read as two's complement.
Signed(w, m) == IF w >= m \div 2 THEN w - m ELSE w

\* The offset to observe at time t; ts_turn = 0 says that no change is known.
Ref(r, t) ==
    IF r["ts_turn"] = 0 \/ t < r["ts_turn"] THEN Signed(r["zone_now"], WORD)
    ELSE Signed(r["zone_turn"], WORD)

\* Times and changes the clock can represent: not before the year 2000.
Representable(r, t) ==
    t >= UNIX_OFFSET /\ (r["ts_turn"] = 0 \/ r["ts_turn"] >= UNIX_OFFSET)

\* Offsets of which the difference is an int.
Near(r) ==
    LET d == Signed(r["zone_turn"], WORD) - Signed(r["zone_now"], WORD)
    IN  r["ts_turn"] # 0 => d < INT_MOD \div 2 /\ -d < INT_MOD \div 2

Sane(r, t) == Representable(r, t) /\ Near(r)
=============================================================================
