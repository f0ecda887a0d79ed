------------------------------ MODULE TzProof -------------------------------
(***************************************************************************)
(* The binary search of juksutil finds the transition in force, and the    *)
(* rule made from it is the zone's, for every sorted table and every time. *)
(***************************************************************************)
EXTENDS Tz, TLAPS

\* What is at hand at each place of the code.
Places ==
    /\ file \in Kinds /\ zone \in Zones /\ now \in Nows
    /\ pc \in {"open", "header", "table", "search", "close", "done"}
    /\ low \in Nat /\ high \in Nat
Bounds == pc = "search" => high <= zone.timecnt /\ (high = 0 => low = 0)
Mapping ==
    /\ pc = "open" => data = "none" /\ closes = 0
    /\ pc \in {"header", "table", "search"} =>
          data = "mapped" /\ closes = 0 /\ file \in {"old", "cut", "whole"}
    /\ pc = "close" =>
          CASE file = "missing" -> data = "none" /\ closes = 0
            [] file = "special" -> data = "none" /\ closes = 1
            [] file = "empty" -> data = "failed" /\ closes = 1
            [] OTHER -> data = "mapped" /\ closes = 0
Meant(z, s, d) ==
    Known(z, s) =>
        \A t \in s .. WORD - 1 : OneChange(z, s, t) => Observes(z, t, Ref(RuleOf(d), t))
Answered ==
    pc \in {"close", "done"} /\ file = "whole" => result /\ Meant(zone, now, dest)
IInv == Places /\ Bounds /\ Mapping /\ SearchSound /\ Answered /\ FileClosed

-----------------------------------------------------------------------------
(* Arithmetic of the words that carry the rule. *)

LEMMA WordRange == WORD \in Nat \ {0} /\ WORD % 2 = 0 /\ WORD = 2 * (WORD \div 2) /\ WORD \div 2 \in Nat
<1>1. WORD \in Nat \ {0} /\ WORD % 2 = 0
  BY ZoneRuleAssumption
<1> QED BY <1>1, SMT

\* An offset survives being sent as a word.
LEMMA SignedBack ==
    ASSUME NEW o \in -(WORD \div 2) .. WORD \div 2 - 1
    PROVE  Signed(o % WORD, WORD) = o
<1> DEFINE half == WORD \div 2
<1>1. WORD = 2 * half /\ half \in Nat /\ half > 0
  BY WordRange
<1>2. o \in Int /\ -half <= o /\ o < half
  BY <1>1
<1>3. CASE o >= 0
  <2>1. o % WORD = o
    BY <1>1, <1>2, <1>3
  <2> QED BY <2>1, <1>1, <1>2, <1>3 DEF Signed
<1>4. CASE o < 0
  <2>1. o % WORD = o + WORD
    BY <1>1, <1>2, <1>4
  <2> QED BY <2>1, <1>1, <1>2, <1>4 DEF Signed
<1> QED BY <1>2, <1>3, <1>4

\* A rule without a change shows one offset.
LEMMA SteadyRule ==
    ASSUME NEW o \in -(WORD \div 2) .. WORD \div 2 - 1, NEW t
    PROVE  Ref(RuleOf([gmtoff_now |-> o, transition |-> 0, gmtoff_after |-> 0]), t) = o
<1> DEFINE d == [gmtoff_now |-> o, transition |-> 0, gmtoff_after |-> 0]
<1>1. RuleOf(d)["zone_now"] = o % WORD /\ RuleOf(d)["ts_turn"] = 0 % WORD
  BY DEF RuleOf, Fields
<1>2. 0 % WORD = 0
  BY WordRange
<1> QED BY <1>1, <1>2, SignedBack DEF Ref

\* A rule with a change shows one offset before and the other after it.
LEMMA ChangingRule ==
    ASSUME NEW o \in -(WORD \div 2) .. WORD \div 2 - 1,
           NEW a \in -(WORD \div 2) .. WORD \div 2 - 1,
           NEW turn \in 1 .. WORD - 1, NEW t \in Nat
    PROVE  Ref(RuleOf([gmtoff_now |-> o, transition |-> turn, gmtoff_after |-> a]), t)
             = IF t < turn THEN o ELSE a
<1> DEFINE d == [gmtoff_now |-> o, transition |-> turn, gmtoff_after |-> a]
<1>1. /\ RuleOf(d)["zone_now"] = o % WORD
      /\ RuleOf(d)["ts_turn"] = turn % WORD
      /\ RuleOf(d)["zone_turn"] = a % WORD
  BY DEF RuleOf, Fields
<1>2. turn % WORD = turn /\ turn # 0
  BY WordRange
<1>3. Signed(o % WORD, WORD) = o /\ Signed(a % WORD, WORD) = a
  BY SignedBack
<1> HIDE DEF d
<1>4. Ref(RuleOf(d), t) = IF turn = 0 \/ t < turn THEN o ELSE a
  BY <1>1, <1>2, <1>3, Zenon DEF Ref
<1> QED BY <1>2, <1>4 DEF d

-----------------------------------------------------------------------------
(* The entries the search ends with. *)

\* The entry before the time asked for is in force as long as the next one is not.
LEMMA EntryInForce ==
    ASSUME NEW z, IsZone(z), NEW i \in 0 .. z.timecnt - 1, NEW t \in Int,
           z.transition[i] <= t,
           \A j \in 0 .. z.timecnt - 1 : i < j => t < z.transition[j]
    PROVE  Observes(z, t, z.info[z.type[i]])
<1>1. z.timecnt \in Nat /\ \A j \in 0 .. z.timecnt - 1 : z.transition[j] \in Int
  BY DEF IsZone
<1>2. InForce(z, i, t)
  <2> SUFFICES ASSUME NEW j \in 0 .. z.timecnt - 1, z.transition[j] <= t PROVE j <= i
    BY DEF InForce
  <2>1. ~(i < j)
    BY <1>1
  <2> QED BY <1>1, <2>1
<1> QED BY <1>2 DEF Observes

\* A function applied.
LEMMA Applied ==
    ASSUME NEW D, NEW R, NEW f \in [D -> R], NEW x \in D
    PROVE  f[x] \in R
  OBVIOUS

\* A type of a table has an offset of a word's range.
LEMMA TypeOffset ==
    ASSUME NEW z, IsZone(z), NEW i \in 0 .. z.timecnt - 1
    PROVE  /\ OffsetAt(z, i) = {z.info[z.type[i]]}
           /\ z.info[z.type[i]] \in -(WORD \div 2) .. WORD \div 2 - 1
<1>1. z.timecnt \in Nat /\ z.typecnt \in Nat /\ z.type[i] \in 0 .. z.typecnt - 1
  <2>1. z.timecnt \in Nat /\ z.typecnt \in 1 .. 255
    BY DEF IsZone
  <2>2. z.type \in [0 .. z.timecnt - 1 -> 0 .. z.typecnt - 1]
    BY DEF IsZone
  <2>3. z.type[i] \in 0 .. z.typecnt - 1
    BY ONLY <2>2, Applied, i \in 0 .. z.timecnt - 1
  <2> QED BY <2>1, <2>3
<1>2. i < z.timecnt /\ z.type[i] < z.typecnt
  BY <1>1
<1>3. z.info[z.type[i]] \in -(WORD \div 2) .. WORD \div 2 - 1
  BY <1>1 DEF IsZone
<1>4. TypeAt(z, i) = z.type[i]
  BY <1>2 DEF TypeAt
<1> QED BY <1>2, <1>3, <1>4 DEF OffsetAt

\* What the code fills in is the zone's rule.
LEMMA PopulateRight ==
    ASSUME NEW z, IsZone(z), \A k \in 0 .. z.timecnt - 1 : z.transition[k] < WORD,
           NEW s \in Nat, NEW l \in Nat, NEW h \in Nat,
           h <= z.timecnt, h = 0 => l = 0, l + 1 >= h,
           z.timecnt > 0 => l < h,
           l = 0 \/ z.transition[l] <= s,
           h = z.timecnt \/ s < z.transition[h],
           NEW before \in OffsetAt(z, l), NEW d,
           IF h = z.timecnt \/ OffsetAt(z, h) = {before}
           THEN d = [gmtoff_now |-> before, transition |-> 0, gmtoff_after |-> 0]
           ELSE \E after \in OffsetAt(z, h) :
                   d = [gmtoff_now |-> before, transition |-> z.transition[h], gmtoff_after |-> after]
    PROVE  Meant(z, s, d)
<1> DEFINE Steady == [gmtoff_now |-> before, transition |-> 0, gmtoff_after |-> 0]
<1> SUFFICES ASSUME Known(z, s), NEW t \in s .. WORD - 1, OneChange(z, s, t)
             PROVE  Observes(z, t, Ref(RuleOf(d), t))
  BY DEF Meant
<1>1. /\ z.timecnt \in Nat
      /\ \A j \in 0 .. z.timecnt - 1 : z.transition[j] \in Int
      /\ \A i, j \in 0 .. z.timecnt - 1 : i < j => z.transition[i] < z.transition[j]
  BY DEF IsZone
<1>2. WORD \in Nat /\ t \in Nat /\ s <= t /\ t \in Int
  BY WordRange
<1>3. CASE z.timecnt = 0
  <2>1. h = 0 /\ l = 0
    BY <1>3, <1>1
  <2>2. z.info[0] \in -(WORD \div 2) .. WORD \div 2 - 1 /\ 0 < z.typecnt
    <3>1. z.typecnt \in 1 .. 255
      BY DEF IsZone
    <3>2. z.info \in [0 .. z.typecnt - 1 -> -(WORD \div 2) .. WORD \div 2 - 1]
      BY DEF IsZone
    <3>3. 0 \in 0 .. z.typecnt - 1 /\ 0 < z.typecnt
      BY ONLY <3>1
    <3>4. z.info[0] \in -(WORD \div 2) .. WORD \div 2 - 1
      BY ONLY <3>2, <3>3, Applied
    <3> QED BY <3>3, <3>4
  <2>3. ~(z.info[0] < 0)
    BY <1>3, <2>2, WordRange DEF Known
  <2>4. before = z.info[0]
    BY <2>1, <2>2, <2>3, <1>3 DEF OffsetAt, TypeAt
  <2>5. Ref(RuleOf(Steady), t) = z.info[0]
    BY <2>2, <2>4, SteadyRule
  <2>6. Observes(z, t, z.info[0])
    BY <1>3 DEF Observes
  <2> QED BY <2>1, <2>5, <2>6, <1>3
<1>4. CASE z.timecnt > 0
  <2>1. l < h /\ h = l + 1 /\ l \in 0 .. z.timecnt - 1
    BY <1>4, <1>1
  <2>2. z.transition[l] <= s
    BY <1>4 DEF Known
  <2>3. before = z.info[z.type[l]] /\ before \in -(WORD \div 2) .. WORD \div 2 - 1
    BY <2>1, TypeOffset
  <2>4. Ref(RuleOf(Steady), t) = before
    BY <2>3, SteadyRule
  <2>5. z.transition[l] \in Int /\ z.transition[l] <= t
    BY <1>1, <1>2, <2>1, <2>2
  <2>6. CASE h = z.timecnt
    <3>1. \A j \in 0 .. z.timecnt - 1 : l < j => t < z.transition[j]
      BY <2>6, <2>1, <1>1
    <3>2. Observes(z, t, before)
      BY <3>1, <2>1, <2>3, <2>5, <1>2, EntryInForce
    <3> QED BY <3>2, <2>4, <2>6
  <2>7. CASE h < z.timecnt
    <3>1. h \in 0 .. z.timecnt - 1 /\ h # z.timecnt
      BY <2>7, <1>1
    <3>2. z.transition[h] \in 1 .. WORD - 1 /\ s < z.transition[h]
      <4>1. z.transition[h] \in Int /\ s < z.transition[h] /\ z.transition[h] < WORD
        BY <3>1, <1>1
      <4> QED BY <4>1, <1>2
    <3> DEFINE after == z.info[z.type[h]]
    <3>3. OffsetAt(z, h) = {after} /\ after \in -(WORD \div 2) .. WORD \div 2 - 1
      BY <3>1, TypeOffset
    <3> DEFINE Change == [gmtoff_now |-> before, transition |-> z.transition[h], gmtoff_after |-> after]
    <3>4. Ref(RuleOf(Change), t) = IF t < z.transition[h] THEN before ELSE after
      BY <3>2, <3>3, <2>3, <1>2, ChangingRule
    <3>5. Ref(RuleOf(d), t) = IF t < z.transition[h] THEN before ELSE after
      <4> HIDE DEF after
      <4>1. CASE after = before
        <5>1. d = Steady
          BY <4>1, <3>1, <3>3
        <5> QED BY <5>1, <4>1, <2>4
      <4>2. CASE after # before
        <5>1. d = Change
          BY <4>2, <3>1, <3>3
        <5> QED BY <5>1, <3>4
      <4> QED BY <4>1, <4>2
    <3>6. CASE t < z.transition[h]
      <4>1. \A j \in 0 .. z.timecnt - 1 : l < j => t < z.transition[j]
        <5> SUFFICES ASSUME NEW j \in 0 .. z.timecnt - 1, l < j PROVE t < z.transition[j]
          OBVIOUS
        <5>1. h = j \/ h < j
          BY <2>1
        <5>2. z.transition[h] <= z.transition[j] /\ z.transition[j] \in Int
          BY <5>1, <3>1, <1>1
        <5> QED BY <5>2, <3>6, <3>2, <1>2
      <4>2. Observes(z, t, before)
        BY <4>1, <2>1, <2>3, <2>5, <1>2, EntryInForce
      <4> QED BY <4>2, <3>5, <3>6
    <3>7. CASE ~(t < z.transition[h])
      <4>1. z.transition[h] <= t
        BY <3>7, <3>2, <1>2
      <4>2. \A j \in 0 .. z.timecnt - 1 : h < j => t < z.transition[j]
        BY <3>1, <3>2 DEF OneChange
      <4>3. Observes(z, t, after)
        BY <4>1, <4>2, <3>1, <1>2, EntryInForce
      <4> QED BY <4>3, <3>5, <3>7
    <3> QED BY <3>6, <3>7
  <2> QED BY <2>6, <2>7, <1>1
<1> QED BY <1>1, <1>3, <1>4

-----------------------------------------------------------------------------
LEMMA TablesGood ==
    ASSUME Places
    PROVE  /\ IsZone(zone) /\ \A k \in 0 .. zone.timecnt - 1 : zone.transition[k] < WORD
           /\ zone.timecnt \in Nat /\ now \in Nat
           /\ \A k \in 0 .. zone.timecnt - 1 : zone.transition[k] \in Int
<1>1. zone \in Zones /\ now \in Nat
  BY TzAssumption DEF Places
<1>2. IsZone(zone) /\ \A k \in 0 .. zone.timecnt - 1 : zone.transition[k] < WORD
  BY <1>1, TzAssumption
<1>3. zone.timecnt \in Nat /\ \A k \in 0 .. zone.timecnt - 1 : zone.transition[k] \in Int
  BY <1>2 DEF IsZone
<1> QED BY <1>1, <1>2, <1>3

\* The middle of an interval of two entries or more lies strictly inside it.
LEMMA MiddleInside ==
    ASSUME NEW l \in Nat, NEW h \in Nat, l + 1 < h
    PROVE  /\ (h + l) \div 2 \in Nat
           /\ l < (h + l) \div 2 /\ (h + l) \div 2 < h
  OBVIOUS

LEMMA SearchKeeps == IInv /\ search => Places' /\ Bounds' /\ SearchSound'
<1> SUFFICES ASSUME IInv, search PROVE Places' /\ Bounds' /\ SearchSound'
  OBVIOUS
<1> DEFINE mid == (high + low) \div 2
<1>1. low \in Nat /\ high \in Nat /\ low + 1 < high /\ pc = "search" /\ pc' = "search"
  BY DEF search, IInv, Places
<1>2. mid \in Nat /\ low < mid /\ mid < high
  BY <1>1, MiddleInside
<1>3. zone.timecnt \in Nat /\ now \in Nat /\ \A k \in 0 .. zone.timecnt - 1 : zone.transition[k] \in Int
  BY TablesGood DEF IInv
<1>4. high <= zone.timecnt
  BY <1>1 DEF IInv, Bounds
<1>5. zone.transition[mid] \in Int /\ mid < zone.timecnt /\ zone.timecnt > 0
  BY <1>2, <1>3, <1>4, <1>1
<1>6. /\ low = 0 \/ zone.transition[low] <= now
      /\ high = zone.timecnt \/ now < zone.transition[high]
  BY <1>1, <1>5 DEF IInv, SearchSound
<1>7. zone' = zone /\ now' = now /\ file' = file
  BY DEF search, asked
<1> HIDE DEF mid
<1>8. \/ now < zone.transition[mid] /\ high' = mid /\ low' = low
      \/ ~(now < zone.transition[mid]) /\ low' = mid /\ high' = high
  BY DEF search, mid
<1>9. Places'
  BY <1>1, <1>2, <1>7, <1>8 DEF IInv, Places
<1>10. Bounds'
  <2>1. high' <= zone.timecnt /\ high' # 0
    BY <1>1, <1>2, <1>3, <1>4, <1>5, <1>8
  <2> QED BY <2>1, <1>7 DEF Bounds
<1>11. SearchSound'
  <2>1. CASE now < zone.transition[mid] /\ high' = mid /\ low' = low
    BY <2>1, <1>1, <1>2, <1>3, <1>4, <1>5, <1>6, <1>7 DEF SearchSound
  <2>2. CASE ~(now < zone.transition[mid]) /\ low' = mid /\ high' = high
    BY <2>2, <1>1, <1>2, <1>3, <1>4, <1>5, <1>6, <1>7 DEF SearchSound
  <2> QED BY <2>1, <2>2, <1>8
<1> QED BY <1>9, <1>10, <1>11

LEMMA PopulateKeeps == IInv /\ populate => Answered'
<1> SUFFICES ASSUME IInv, populate PROVE Answered'
  OBVIOUS
<1>1. low \in Nat /\ high \in Nat /\ low + 1 >= high /\ pc = "search"
  BY DEF populate, IInv, Places
<1>2. /\ IsZone(zone) /\ \A k \in 0 .. zone.timecnt - 1 : zone.transition[k] < WORD
      /\ zone.timecnt \in Nat /\ now \in Nat
  BY TablesGood DEF IInv
<1>3. high <= zone.timecnt /\ (high = 0 => low = 0)
  BY <1>1 DEF IInv, Bounds
<1>4. /\ zone.timecnt > 0 => low < high
      /\ low = 0 \/ zone.transition[low] <= now
      /\ high = zone.timecnt \/ now < zone.transition[high]
  <2>1. CASE zone.timecnt > 0
    BY <2>1, <1>1 DEF IInv, SearchSound
  <2>2. CASE ~(zone.timecnt > 0)
    BY <2>2, <1>1, <1>2, <1>3
  <2> QED BY <2>1, <2>2
<1>5. PICK before \in OffsetAt(zone, low) :
         IF high = zone.timecnt \/ OffsetAt(zone, high) = {before}
         THEN dest' = [gmtoff_now |-> before, transition |-> 0, gmtoff_after |-> 0]
         ELSE \E after \in OffsetAt(zone, high) :
                 dest' = [gmtoff_now |-> before, transition |-> zone.transition[high],
                          gmtoff_after |-> after]
  BY DEF populate
<1>6. Meant(zone, now, dest')
  BY <1>1, <1>2, <1>3, <1>4, <1>5, PopulateRight
<1>7. result' = TRUE /\ zone' = zone /\ now' = now
  BY DEF populate, asked
<1> QED BY <1>6, <1>7 DEF Answered

THEOREM Inductive == Spec => []IInv
<1>1. Init => IInv
  <2> SUFFICES ASSUME Init PROVE IInv
    OBVIOUS
  <2>1. Places
    BY DEF Init, Places
  <2>2. Bounds /\ Mapping /\ SearchSound /\ Answered /\ FileClosed
    BY DEF Init, Bounds, Mapping, SearchSound, Answered, FileClosed
  <2> QED BY <2>1, <2>2 DEF IInv
<1>2. IInv /\ [Next]_vars => IInv'
  <2> SUFFICES ASSUME IInv, [Next]_vars PROVE IInv'
    OBVIOUS
  <2> USE DEF asked
  <2>1. CASE mmap_open
    <3>1. Places'
      BY <2>1 DEF IInv, Places, mmap_open
    <3>2. Mapping'
      BY <2>1 DEF IInv, Places, Mapping, mmap_open, Kinds
    <3>3. Bounds' /\ SearchSound' /\ FileClosed' /\ Answered'
      BY <2>1 DEF IInv, Places, Bounds, SearchSound, FileClosed, Answered, mmap_open, Kinds
    <3> QED BY <3>1, <3>2, <3>3 DEF IInv
  <2>2. CASE find_v2_header
    <3>1. Places'
      BY <2>2 DEF IInv, Places, find_v2_header
    <3>2. Mapping'
      BY <2>2 DEF IInv, Mapping, find_v2_header
    <3>3. Bounds' /\ SearchSound' /\ FileClosed' /\ Answered'
      BY <2>2 DEF IInv, Bounds, SearchSound, FileClosed, Answered, find_v2_header
    <3> QED BY <3>1, <3>2, <3>3 DEF IInv
  <2>3. CASE check_table
    <3>1. zone.timecnt \in Nat
      BY TablesGood DEF IInv
    <3>2. Places'
      BY <2>3, <3>1 DEF IInv, Places, check_table
    <3>3. Mapping'
      BY <2>3 DEF IInv, Mapping, check_table
    <3>4. Bounds' /\ SearchSound'
      BY <2>3, <3>1 DEF Bounds, SearchSound, check_table
    <3>5. FileClosed' /\ Answered'
      BY <2>3 DEF FileClosed, Answered, check_table
    <3> QED BY <3>2, <3>3, <3>4, <3>5 DEF IInv
  <2>4. CASE search
    <3>1. Mapping'
      BY <2>4 DEF IInv, Mapping, search
    <3>2. FileClosed' /\ Answered'
      BY <2>4 DEF FileClosed, Answered, search
    <3> QED BY <2>4, <3>1, <3>2, SearchKeeps DEF IInv
  <2>5. CASE populate
    <3>1. Places'
      BY <2>5 DEF IInv, Places, populate
    <3>2. Mapping'
      BY <2>5 DEF IInv, Mapping, populate
    <3>3. Bounds' /\ SearchSound' /\ FileClosed'
      BY <2>5 DEF Bounds, SearchSound, FileClosed, populate
    <3> QED BY <2>5, <3>1, <3>2, <3>3, PopulateKeeps DEF IInv
  <2>6. CASE mmap_close
    <3>1. Places'
      BY <2>6 DEF IInv, Places, mmap_close
    <3>2. Mapping' /\ Bounds' /\ SearchSound'
      BY <2>6 DEF Mapping, Bounds, SearchSound, mmap_close
    <3>3. Answered'
      BY <2>6 DEF IInv, Answered, mmap_close
    <3>4. FileClosed'
      BY <2>6 DEF IInv, Places, Kinds, Mapping, FileClosed, mmap_close
    <3> QED BY <3>1, <3>2, <3>3, <3>4 DEF IInv
  <2>7. CASE UNCHANGED vars
    <3>1. Places' /\ Bounds' /\ Mapping'
      BY <2>7 DEF IInv, Places, Bounds, Mapping, vars
    <3>2. SearchSound' /\ FileClosed'
      BY <2>7 DEF IInv, SearchSound, FileClosed, vars
    <3>3. Answered'
      BY <2>7 DEF IInv, Answered, vars
    <3> QED BY <3>1, <3>2, <3>3 DEF IInv
  <2> QED BY <2>1, <2>2, <2>3, <2>4, <2>5, <2>6, <2>7 DEF Next
<1> QED BY <1>1, <1>2, PTL DEF Spec

\* The search never leaves its table, and keeps the time asked for between its
\* two ends (tz.c:142-152).
THEOREM SearchStaysSound == Spec => []SearchSound
<1>1. IInv => SearchSound
  BY DEF IInv
<1> QED BY <1>1, Inductive, PTL

\* The rule sent to the device has the zone's offsets up to the second next
\* transition (tz.c:118-173, sync_clock.c:57-63).
THEOREM RulesRight == Spec => []RuleRight
<1>1. IInv => RuleRight
  BY DEF IInv, Answered, Meant, RuleRight, Found
<1> QED BY <1>1, Inductive, PTL

\* Every file that was opened, an empty one apart, is closed exactly once
\* (mmap.c:71-92).
THEOREM FilesClosed == Spec => []FileClosed
<1>1. IInv => FileClosed
  BY DEF IInv
<1> QED BY <1>1, Inductive, PTL

-----------------------------------------------------------------------------
\* What is left to do: the entries between the two ends of the search, and
\* the steps before and after it.
Left ==
    CASE pc = "open" -> zone.timecnt + 5
      [] pc = "header" -> zone.timecnt + 4
      [] pc = "table" -> zone.timecnt + 3
      [] pc = "search" -> IF low + 1 < high THEN high - low + 1 ELSE 2
      [] pc = "close" -> 1
      [] pc = "done" -> 0

\* Every step of the look-up leaves less to do (tz.c:143-152).
Shrinks == [][Left' < Left]_vars

\* What is left is a number.
LEMMA LeftNat == IInv => Left \in Nat
<1>. SUFFICES ASSUME IInv PROVE Left \in Nat
  OBVIOUS
<1>1. zone.timecnt \in Nat /\ low \in Nat /\ high \in Nat
  BY TablesGood DEF IInv, Places
<1>2. pc \in {"open", "header", "table", "search", "close", "done"}
  BY DEF IInv, Places
<1>. QED BY <1>1, <1>2 DEF Left

\* The search halves; the rest goes straight on.
LEMMA LeftLess == IInv /\ [Next]_vars => [Left' < Left]_vars
<1>. SUFFICES ASSUME IInv, Next PROVE Left' < Left
  OBVIOUS
<1>1. zone.timecnt \in Nat /\ low \in Nat /\ high \in Nat /\ zone' = zone
  BY TablesGood
  DEF IInv, Places, Next, mmap_open, find_v2_header, check_table, search, populate, mmap_close, asked
<1>2. CASE mmap_open
  BY <1>1, <1>2 DEF mmap_open, Left
<1>3. CASE find_v2_header
  BY <1>1, <1>3 DEF find_v2_header, Left
<1>4. CASE check_table
  BY <1>1, <1>4 DEF check_table, Left
<1>5. CASE search
  <2>. DEFINE mid == (high + low) \div 2
  <2>1. mid \in Nat /\ low < mid /\ mid < high /\ low + 1 < high
    BY <1>1, <1>5, MiddleInside DEF search
  <2>2. (high' = mid /\ low' = low) \/ (low' = mid /\ high' = high)
    BY <1>5 DEF search
  <2>. HIDE DEF mid
  <2>3. Left = high - low + 1
    BY <1>5, <2>1 DEF search, Left
  <2>4. Left' = IF low' + 1 < high' THEN high' - low' + 1 ELSE 2
    BY <1>5 DEF search, Left
  <2>. QED BY <1>1, <2>1, <2>2, <2>3, <2>4
<1>6. CASE populate
  BY <1>1, <1>6 DEF populate, Left
<1>7. CASE mmap_close
  BY <1>1, <1>7 DEF mmap_close, Left
<1>. QED BY <1>2, <1>3, <1>4, <1>5, <1>6, <1>7 DEF Next

\* A look-up is never longer than its table and a few steps, whatever is in
\* the table: what is left is a natural number, and less after each step.
THEOREM LookupShrinks == Spec => []( Left \in Nat ) /\ Shrinks
BY LeftNat, LeftLess, Inductive, PTL DEF Spec, Shrinks

-----------------------------------------------------------------------------
(* The rule sent is one the device's clock can follow: Sane is what module  *)
(* WallClock asks for before it promises that the clock shows a rule.       *)

\* No change after time s is larger than an int of the device reaches.
Gentle(z, s) ==
    \A i \in 1 .. z.timecnt - 1 :
        s < z.transition[i] =>
            LET change == z.info[z.type[i]] - z.info[z.type[i - 1]]
            IN  change < INT_MOD \div 2 /\ -change < INT_MOD \div 2

Follows(z, s, d) ==
    Gentle(z, s) /\ s >= UNIX_OFFSET => \A t \in s .. WORD - 1 : Sane(RuleOf(d), t)
Followed == pc \in {"close", "done"} /\ file = "whole" => Follows(zone, now, dest)

\* A rule without a change is sane from the year 2000 on.
LEMMA SteadySane ==
    ASSUME NEW o, NEW t \in Nat, t >= UNIX_OFFSET
    PROVE  Sane(RuleOf([gmtoff_now |-> o, transition |-> 0, gmtoff_after |-> 0]), t)
<1>. DEFINE d == [gmtoff_now |-> o, transition |-> 0, gmtoff_after |-> 0]
<1>1. RuleOf(d)["ts_turn"] = 0
  <2>1. RuleOf(d)["ts_turn"] = 0 % WORD
    BY DEF RuleOf, Fields
  <2>2. 0 % WORD = 0
    BY WordRange
  <2>. QED BY <2>1, <2>2
<1>. HIDE DEF d
<1>2. Sane(RuleOf(d), t)
  BY <1>1 DEF Sane, Representable, Near
<1>. QED BY <1>2 DEF d

\* A rule with a change is, if the change is later and its offsets are close.
LEMMA ChangingSane ==
    ASSUME NEW o \in -(WORD \div 2) .. WORD \div 2 - 1,
           NEW a \in -(WORD \div 2) .. WORD \div 2 - 1,
           a - o < INT_MOD \div 2, -(a - o) < INT_MOD \div 2,
           NEW turn \in 1 .. WORD - 1, turn >= UNIX_OFFSET,
           NEW t \in Nat, t >= UNIX_OFFSET
    PROVE  Sane(RuleOf([gmtoff_now |-> o, transition |-> turn, gmtoff_after |-> a]), t)
<1>. DEFINE d == [gmtoff_now |-> o, transition |-> turn, gmtoff_after |-> a]
<1>1. /\ RuleOf(d)["zone_now"] = o % WORD
      /\ RuleOf(d)["ts_turn"] = turn % WORD
      /\ RuleOf(d)["zone_turn"] = a % WORD
  BY DEF RuleOf, Fields
<1>2. turn % WORD = turn
  BY WordRange
<1>3. Signed(o % WORD, WORD) = o /\ Signed(a % WORD, WORD) = a
  BY SignedBack
<1>. HIDE DEF d
<1>4. Representable(RuleOf(d), t)
  BY <1>1, <1>2 DEF Representable
<1>5. Near(RuleOf(d))
  BY <1>1, <1>3 DEF Near
<1>6. Sane(RuleOf(d), t)
  BY <1>4, <1>5 DEF Sane
<1>. QED BY <1>6 DEF d

\* What the code fills in is a sane rule.
LEMMA PopulateSane ==
    ASSUME NEW z, IsZone(z), \A k \in 0 .. z.timecnt - 1 : z.transition[k] < WORD,
           NEW s \in Nat, NEW l \in Nat, NEW h \in Nat,
           h <= z.timecnt, l + 1 >= h, z.timecnt > 0 => l < h,
           h = z.timecnt \/ s < z.transition[h],
           NEW before \in OffsetAt(z, l), NEW d,
           IF h = z.timecnt \/ OffsetAt(z, h) = {before}
           THEN d = [gmtoff_now |-> before, transition |-> 0, gmtoff_after |-> 0]
           ELSE \E after \in OffsetAt(z, h) :
                   d = [gmtoff_now |-> before, transition |-> z.transition[h], gmtoff_after |-> after]
    PROVE  Follows(z, s, d)
<1>. SUFFICES ASSUME Gentle(z, s), s >= UNIX_OFFSET, NEW t \in s .. WORD - 1
              PROVE  Sane(RuleOf(d), t)
  BY DEF Follows
<1>1. z.timecnt \in Nat /\ \A j \in 0 .. z.timecnt - 1 : z.transition[j] \in Int
  BY DEF IsZone
<1>2. UNIX_OFFSET \in Nat /\ UNIX_OFFSET > 0 /\ t \in Nat /\ t >= UNIX_OFFSET /\ WORD \in Nat
  BY WordRange, ZoneRuleAssumption DEF Word
<1>3. CASE h = z.timecnt \/ OffsetAt(z, h) = {before}
  BY <1>2, <1>3, SteadySane
<1>4. CASE ~(h = z.timecnt \/ OffsetAt(z, h) = {before})
  <2>1. /\ h \in 0 .. z.timecnt - 1 /\ h # z.timecnt
        /\ l \in 0 .. z.timecnt - 1
    BY <1>4, <1>1
  <2>2. z.transition[h] \in 1 .. WORD - 1 /\ z.transition[h] >= UNIX_OFFSET
    <3>1. z.transition[h] \in Int /\ s < z.transition[h] /\ z.transition[h] < WORD
      BY <2>1, <1>1
    <3>. QED BY <3>1, <1>2
  <2>. DEFINE o == z.info[z.type[l]]  a == z.info[z.type[h]]
  <2>3. /\ before = o /\ OffsetAt(z, h) = {a}
        /\ o \in -(WORD \div 2) .. WORD \div 2 - 1 /\ a \in -(WORD \div 2) .. WORD \div 2 - 1
    BY <2>1, TypeOffset
  <2>4. a - o < INT_MOD \div 2 /\ -(a - o) < INT_MOD \div 2
    <3>1. h \in 1 .. z.timecnt - 1 /\ h - 1 = l /\ s < z.transition[h]
      BY <2>1, <1>1
    <3>. QED BY <3>1 DEF Gentle
  <2>. HIDE DEF o, a
  <2>5. d = [gmtoff_now |-> o, transition |-> z.transition[h], gmtoff_after |-> a]
    BY <1>4, <2>3
  <2>. QED BY <2>2, <2>3, <2>4, <2>5, <1>2, ChangingSane
<1>. QED BY <1>3, <1>4

\* The rule is filled in at the end of the search, and kept.
LEMMA FollowedStep == IInv /\ Followed /\ [Next]_vars => Followed'
<1>. SUFFICES ASSUME IInv, Followed, [Next]_vars, pc' \in {"close", "done"}, file' = "whole"
              PROVE  Follows(zone, now, dest)'
  BY DEF Followed
<1>1. CASE populate
  <2>1. low \in Nat /\ high \in Nat /\ low + 1 >= high /\ pc = "search"
    BY <1>1 DEF populate, IInv, Places
  <2>2. /\ IsZone(zone) /\ \A k \in 0 .. zone.timecnt - 1 : zone.transition[k] < WORD
        /\ zone.timecnt \in Nat /\ now \in Nat
    BY TablesGood DEF IInv
  <2>3. high <= zone.timecnt
    BY <2>1 DEF IInv, Bounds
  <2>4. /\ zone.timecnt > 0 => low < high
        /\ high = zone.timecnt \/ now < zone.transition[high]
    <3>1. CASE zone.timecnt > 0
      BY <3>1, <2>1 DEF IInv, SearchSound
    <3>2. CASE ~(zone.timecnt > 0)
      BY <3>2, <2>1, <2>2, <2>3
    <3>. QED BY <3>1, <3>2
  <2>5. PICK before \in OffsetAt(zone, low) :
           IF high = zone.timecnt \/ OffsetAt(zone, high) = {before}
           THEN dest' = [gmtoff_now |-> before, transition |-> 0, gmtoff_after |-> 0]
           ELSE \E after \in OffsetAt(zone, high) :
                   dest' = [gmtoff_now |-> before, transition |-> zone.transition[high],
                            gmtoff_after |-> after]
    BY <1>1 DEF populate
  <2>6. Follows(zone, now, dest')
    BY <2>1, <2>2, <2>3, <2>4, <2>5, PopulateSane
  <2>7. zone' = zone /\ now' = now
    BY <1>1 DEF populate, asked
  <2>. QED BY <2>6, <2>7
<1>2. CASE mmap_close \/ UNCHANGED vars
  <2>1. pc \in {"close", "done"} /\ file = "whole" /\ UNCHANGED <<zone, now, dest>>
    BY <1>2 DEF mmap_close, vars, asked
  <2>. QED BY <2>1 DEF Followed
<1>3. CASE mmap_open \/ find_v2_header \/ check_table \/ search
  BY <1>3 DEF mmap_open, find_v2_header, check_table, search, asked
<1>. QED BY <1>1, <1>2, <1>3 DEF Next

\* The rule sent is sane at every later time, so that a clock as WallClock has
\* it shows what the rule means; and up to the second next transition that is
\* the offset the zone observes (tz.c:118-173, clock.c:106-137).
DeviceFollows ==
    Found /\ Known(zone, now) /\ Gentle(zone, now) /\ now >= UNIX_OFFSET =>
        \A t \in now .. WORD - 1 :
            /\ Sane(RuleOf(dest), t)
            /\ OneChange(zone, now, t) => Observes(zone, t, Ref(RuleOf(dest), t))

\* What juksutil finds in a file is what the device's clock needs, for every
\* zone whose offsets are within an int of each other.
THEOREM DeviceShowsZone == Spec => []DeviceFollows
<1>1. Init => Followed
  BY DEF Init, Followed
<1>2. IInv /\ Followed => DeviceFollows
  BY DEF IInv, Answered, Meant, Followed, Follows, Found, DeviceFollows
<1>. QED BY <1>1, <1>2, FollowedStep, Inductive, PTL DEF Spec
=============================================================================
