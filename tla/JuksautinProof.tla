--------------------------- MODULE JuksautinProof ---------------------------
(***************************************************************************)
(* Juksautin proved for every sample, word and sum size and whatever the   *)
(* channels measure: types, the fairness of the means, the headroom of the *)
(* sums, the peak detector.                                                *)
(***************************************************************************)
EXTENDS Juksautin, TLAPS

Accumulator == [sum : 0 .. SUM_MOD - 1, count : Word]

\* The sum an accumulator may have reached: at an even count it was halved if
\* it was above max, and at an odd one a sample came on top of that.
Headroom(a, max, top) == a.sum <= IF a.count % 2 = 0 THEN max ELSE max + top

\* An accumulator is a mean of the samples of a set.
Mean(a, samples) ==
    IF samples = {} THEN a = Empty
    ELSE \E lo, hi \in samples :
            a.count > 0 /\ lo * a.count <= a.sum /\ a.sum <= hi * a.count

\* Sizes without % and \div.
LEMMA Sizes ==
    /\ COUNT_MOD \in Nat /\ COUNT_MOD >= 4 /\ SUM_MOD \in Nat /\ SUM_MOD > 0
    /\ COUNT_MOD \div 2 \in Nat /\ COUNT_MOD = 2 * (COUNT_MOD \div 2)
    /\ SAMPLES \in Nat /\ SAMPLES >= 2 /\ 2 * SAMPLES <= COUNT_MOD
    /\ MV_MULT \in Nat /\ MV_MULT > 0
    /\ SUM_MOD = COUNT_MOD * COUNT_MOD
  <1>1. COUNT_MOD \in Nat /\ COUNT_MOD >= 4
    BY JuksautinAssumption DEF JuksautinAssumption
  <1>2. COUNT_MOD * COUNT_MOD \in Nat /\ COUNT_MOD * COUNT_MOD > 0
    BY ONLY <1>1
  <1> QED
    BY <1>1, <1>2, JuksautinAssumption DEF JuksautinAssumption

\* The constants of the two kinds of sums leave room for a sample and more.
LEMMA Maxima ==
    /\ accu_mv_sum_max \in Nat /\ accu_bool_sum_max \in Nat
    /\ 2 * (SAMPLES - 1) <= accu_mv_sum_max
    /\ (accu_mv_sum_max + SAMPLES) * MV_MULT < SUM_MOD
    /\ 2 <= accu_bool_sum_max
    /\ (accu_bool_sum_max + 1) * COUNT_MOD < SUM_MOD
  <1> DEFINE q == (SUM_MOD - 1) \div MV_MULT
  <1>1. /\ MV_MULT * (3 * SAMPLES) < SUM_MOD /\ MV_MULT <= COUNT_MOD
    BY JuksautinAssumption DEF JuksautinAssumption
  <1>2. q \in Int /\ MV_MULT * q <= SUM_MOD - 1 /\ SUM_MOD - 1 < MV_MULT * q + MV_MULT
    BY ONLY Sizes
  <1>3. q >= 3 * SAMPLES
    BY ONLY <1>1, <1>2, Sizes
  <1>4. accu_mv_sum_max = q - SAMPLES
    BY DEF accu_mv_sum_max
  <1>5. (accu_mv_sum_max + SAMPLES) * MV_MULT < SUM_MOD
    BY <1>2, <1>4, Sizes
  <1>6. accu_bool_sum_max = COUNT_MOD - 2
    BY DEF accu_bool_sum_max
  <1>7. (COUNT_MOD - 2 + 1) * COUNT_MOD < SUM_MOD
    BY ONLY Sizes
  <1> QED
    BY <1>3, <1>4, <1>5, <1>6, <1>7, <1>2, Sizes

\* Halving an even count does not move the mean out of its bounds.
LEMMA Halving ==
    ASSUME NEW s \in Nat, NEW c \in Nat, c % 2 = 0, NEW lo \in Nat, NEW hi \in Nat,
           lo * c <= s, s <= hi * c
    PROVE  lo * (c \div 2) <= s \div 2 /\ s \div 2 <= hi * (c \div 2)
  <1> DEFINE h == c \div 2
  <1>1. h \in Nat /\ c = 2 * h
    OBVIOUS
  <1>2. lo * c = 2 * (lo * h) /\ hi * c = 2 * (hi * h) /\ lo * h \in Nat /\ hi * h \in Nat
    BY ONLY <1>1, lo \in Nat, hi \in Nat
  <1> QED
    BY <1>2

\* What Store returns, without %.
LEMMA StoreCases ==
    ASSUME NEW a \in Accumulator, NEW val \in Nat, NEW max \in Nat, NEW top \in Nat,
           val <= top, Headroom(a, max, top), 2 * top <= max, max + 2 * top < SUM_MOD
    PROVE  LET s == a.sum + val
               c == a.count + 1
               r == Store(a, val, max)
           IN  /\ s \in Nat /\ c \in 1 .. COUNT_MOD /\ s <= max + 2 * top
               /\ \/ /\ c % 2 = 0 /\ c > 0
                     /\ r = [sum |-> s \div 2, count |-> c \div 2]
                  \/ /\ c < COUNT_MOD /\ r = [sum |-> s, count |-> c]
                     /\ s <= IF c % 2 = 0 THEN max ELSE max + top
  <1> DEFINE s == a.sum + val
             c == a.count + 1
  <1>1. a.sum \in Nat /\ a.count \in Nat /\ a.count < COUNT_MOD
    BY Sizes DEF Accumulator, Word
  <1>2. s \in Nat /\ c \in 1 .. COUNT_MOD
    BY <1>1, Sizes
  <1>3. s <= max + 2 * top /\ (c % 2 = 1 => s <= max + top)
    BY <1>1 DEF Headroom
  <1>4. s % SUM_MOD = s
    BY <1>2, <1>3, Sizes
  <1>5. CASE c = COUNT_MOD
    <2>1. c % COUNT_MOD = 0 /\ c % 2 = 0 /\ COUNT_MOD \div 2 = c \div 2
      BY <1>5, Sizes
    <2>2. Store(a, val, max) = [sum |-> s \div 2, count |-> c \div 2]
      BY <2>1, <1>4 DEF Store
    <2> QED
      BY <2>1, <2>2, <1>2, <1>3
  <1>6. CASE c # COUNT_MOD
    <2>1. c % COUNT_MOD = c /\ c # 0 /\ c < COUNT_MOD
      BY <1>6, <1>2, Sizes
    <2>2. Store(a, val, max) = IF c % 2 = 0 /\ s > max
                               THEN [sum |-> s \div 2, count |-> c \div 2]
                               ELSE [sum |-> s, count |-> c]
      BY <2>1, <1>4 DEF Store
    <2> QED
      BY <2>1, <2>2, <1>2, <1>3
  <1> QED
    BY <1>5, <1>6

\* Store keeps the types and the headroom.
LEMMA StoreFits ==
    ASSUME NEW a \in Accumulator, NEW val \in Nat, NEW max \in Nat, NEW top \in Nat,
           val <= top, Headroom(a, max, top), 2 * top <= max, max + 2 * top < SUM_MOD
    PROVE  Store(a, val, max) \in Accumulator /\ Headroom(Store(a, val, max), max, top)
  <1> DEFINE s == a.sum + val
             c == a.count + 1
             r == Store(a, val, max)
  <1>1. s \in Nat /\ c \in 1 .. COUNT_MOD /\ s <= max + 2 * top
    BY StoreCases
  <1>2. CASE /\ c % 2 = 0 /\ r = [sum |-> s \div 2, count |-> c \div 2]
    <2>1. s \div 2 \in Nat /\ s \div 2 <= max /\ c \div 2 \in Nat /\ c \div 2 < COUNT_MOD
      BY <1>1, Sizes
    <2> QED
      BY <2>1, <1>2, Sizes DEF Accumulator, Word, Headroom
  <1>3. CASE /\ c < COUNT_MOD /\ r = [sum |-> s, count |-> c]
             /\ s <= IF c % 2 = 0 THEN max ELSE max + top
    BY <1>3, <1>1, Sizes DEF Accumulator, Word, Headroom
  <1> QED
    BY <1>2, <1>3, StoreCases

\* Store keeps the mean among the samples stored.
LEMMA StoreMean ==
    ASSUME NEW a \in Accumulator, NEW val \in Nat, NEW max \in Nat, NEW top \in Nat,
           val <= top, Headroom(a, max, top), 2 * top <= max, max + 2 * top < SUM_MOD,
           NEW samples \in SUBSET Nat, Mean(a, samples)
    PROVE  Mean(Store(a, val, max), samples \cup {val})
  <1> DEFINE s == a.sum + val
             c == a.count + 1
             r == Store(a, val, max)
  <1>1. s \in Nat /\ c \in 1 .. COUNT_MOD /\ a.sum \in Nat /\ a.count \in Nat
    BY StoreCases, Sizes DEF Accumulator, Word
  <1>2. PICK lo \in samples \cup {val}, hi \in samples \cup {val} : lo * c <= s /\ s <= hi * c
    <2>1. CASE samples = {}
      BY <2>1, <1>1 DEF Mean, Empty
    <2>2. CASE samples # {}
      <3>1. PICK l \in samples, h \in samples : l * a.count <= a.sum /\ a.sum <= h * a.count
        BY <2>2 DEF Mean
      <3>2. l \in Nat /\ h \in Nat
        OBVIOUS
      <3>3. /\ l * c = l * a.count + l /\ h * c = h * a.count + h
            /\ val * c = val * a.count + val
        <4>1. \A x, y \in Nat : x * (y + 1) = x * y + x
          OBVIOUS
        <4> QED
          BY <4>1, <3>2, <1>1
      <3>4. (val <= l => val * a.count <= l * a.count) /\ (val >= h => val * a.count >= h * a.count)
        BY ONLY <3>2, <1>1, val \in Nat
      <3>7. l * a.count \in Nat /\ h * a.count \in Nat /\ val * a.count \in Nat
        BY ONLY <3>2, <1>1, val \in Nat
      <3>5. \E x \in samples \cup {val} : x * c <= s
        <4>1. val >= l => l * c <= s
          BY ONLY <3>1, <3>2, <3>3, <3>7, <1>1, val \in Nat
        <4>2. val < l => val * c <= s
          BY ONLY <3>1, <3>2, <3>3, <3>4, <3>7, <1>1, val \in Nat
        <4> QED
          BY <4>1, <4>2, <3>2
      <3>6. \E x \in samples \cup {val} : s <= x * c
        <4>1. val <= h => s <= h * c
          BY ONLY <3>1, <3>2, <3>3, <3>7, <1>1, val \in Nat
        <4>2. val > h => s <= val * c
          BY ONLY <3>1, <3>2, <3>3, <3>4, <3>7, <1>1, val \in Nat
        <4> QED
          BY <4>1, <4>2, <3>2
      <3> QED
        BY <3>5, <3>6
    <2> QED
      BY <2>1, <2>2
  <1>3. lo \in Nat /\ hi \in Nat
    OBVIOUS
  <1>4. \/ c % 2 = 0 /\ c > 0 /\ r = [sum |-> s \div 2, count |-> c \div 2]
        \/ r = [sum |-> s, count |-> c]
    BY StoreCases
  <1>5. CASE c % 2 = 0 /\ c > 0 /\ r = [sum |-> s \div 2, count |-> c \div 2]
    <2>1. lo * (c \div 2) <= s \div 2 /\ s \div 2 <= hi * (c \div 2)
      BY <1>1, <1>2, <1>3, <1>5, Halving
    <2>2. c \div 2 > 0
      BY <1>1, <1>5
    <2> QED
      BY <2>1, <2>2, <1>5 DEF Mean
  <1>6. CASE r = [sum |-> s, count |-> c]
    BY <1>6, <1>1, <1>2 DEF Mean
  <1> QED
    BY <1>4, <1>5, <1>6

-----------------------------------------------------------------------------
MaxOf(a) == IF a = "juksautin" THEN accu_bool_sum_max ELSE accu_mv_sum_max
TopOf(a) == IF a = "juksautin" THEN 1 ELSE SAMPLES - 1

\* One accumulator with its history.
Fair(acc, a, samples) ==
    acc \in Accumulator /\ Headroom(acc, MaxOf(a), TopOf(a)) /\ Mean(acc, samples)

SamplesOf(a) == 0 .. TopOf(a)

AccuInv ==
    /\ DOMAIN accu = Accus /\ accu = [a \in Accus |-> accu[a]]
    /\ seen \in [Accus \cup {"err"} -> SUBSET Sample]
    /\ \A a \in Accus : Fair(accu[a], a, seen[a])
AdcTypeOK == ADMUX \in Channels /\ cycle \in 0 .. 15
PinTypeOK == juksautus \in BOOLEAN
ErrInv == err \in Sample /\ ErrorPeak
TargetTypeOK ==
    /\ target \in Word
    /\ ee_target \in [low : 0 .. BASE - 1, high : 0 .. COUNT_MOD \div BASE - 1]
    /\ pc \in {"idle", "save", "save2"} /\ value \in Word /\ asked \in Word

Inv == use \in Uses /\ AccuInv /\ AdcTypeOK /\ PinTypeOK /\ ErrInv /\ TargetTypeOK /\ reply \in Word

\* Nothing changes the way the unit is used.
LEMMA UseKept == Next => use' = use
  BY DEF Next, PowerCut, ADC_vect, Take, juksautin_take_error, juksautin_set_target, SaveTarget

\* A way of using the unit, part by part.
LEMMA UseTyped ==
    ASSUME use \in Uses
    PROVE  /\ use.inputs \in [Channels -> SUBSET Sample]
           /\ use.targets \subseteq Word
  BY JuksautinAssumption DEF JuksautinAssumption

\* The accumulators' maxima satisfy what Store needs.
LEMMA Room ==
    ASSUME NEW a \in Accus
    PROVE  /\ MaxOf(a) \in Nat /\ TopOf(a) \in Nat /\ 2 * TopOf(a) <= MaxOf(a)
           /\ (MaxOf(a) + TopOf(a)) * Factor(a) < SUM_MOD
           /\ MaxOf(a) + 2 * TopOf(a) < SUM_MOD
           /\ Factor(a) \in Nat /\ Factor(a) > 0
  <1>1. CASE a = "juksautin"
    <2>1. COUNT_MOD - 2 + 2 < SUM_MOD
      BY ONLY Sizes
    <2> QED
      BY <1>1, <2>1, Maxima, Sizes DEF MaxOf, TopOf, Factor, accu_bool_sum_max
  <1>2. CASE a # "juksautin"
    <2> DEFINE m == accu_mv_sum_max
    <2>1. m \in Nat /\ 2 * (SAMPLES - 1) <= m /\ (m + SAMPLES) * MV_MULT < SUM_MOD
      BY Maxima
    <2>2. SAMPLES \in Nat /\ SAMPLES >= 2 /\ MV_MULT \in Nat /\ MV_MULT > 0 /\ SUM_MOD \in Nat
      BY Sizes
    <2>3. (m + (SAMPLES - 1)) * MV_MULT < SUM_MOD
      BY ONLY <2>1, <2>2
    <2>4. m + 2 * (SAMPLES - 1) < SUM_MOD
      <3>1. MV_MULT >= 2
        BY JuksautinAssumption DEF JuksautinAssumption
      <3>2. 2 * (m + SAMPLES) <= (m + SAMPLES) * MV_MULT
        BY ONLY <3>1, <2>1, <2>2
      <3> QED
        BY ONLY <3>2, <2>1, <2>2
    <2> QED
      BY <1>2, <2>1, <2>2, <2>3, <2>4 DEF MaxOf, TopOf, Factor
  <1> QED
    BY <1>1, <1>2

\* Storing a sample keeps an accumulator fair.
LEMMA StoreFair ==
    ASSUME NEW a \in Accus, NEW acc, NEW samples \in SUBSET Sample,
           Fair(acc, a, samples), NEW val \in SamplesOf(a)
    PROVE  Fair(Store(acc, val, MaxOf(a)), a, samples \cup {val})
  <1>1. val \in Nat /\ val <= TopOf(a) /\ samples \in SUBSET Nat
    BY Room, Sizes DEF SamplesOf, Sample
  <1>2. /\ acc \in Accumulator /\ Headroom(acc, MaxOf(a), TopOf(a)) /\ Mean(acc, samples)
    BY DEF Fair
  <1>3. /\ MaxOf(a) \in Nat /\ TopOf(a) \in Nat /\ 2 * TopOf(a) <= MaxOf(a)
        /\ MaxOf(a) + 2 * TopOf(a) < SUM_MOD
    BY Room
  <1>4. /\ Store(acc, val, MaxOf(a)) \in Accumulator
        /\ Headroom(Store(acc, val, MaxOf(a)), MaxOf(a), TopOf(a))
    BY <1>1, <1>2, <1>3, StoreFits
  <1>5. Mean(Store(acc, val, MaxOf(a)), samples \cup {val})
    BY <1>1, <1>2, <1>3, StoreMean
  <1> QED
    BY <1>4, <1>5 DEF Fair

\* An empty accumulator is fair.
LEMMA EmptyFair == ASSUME NEW a \in Accus PROVE Fair(Empty, a, {})
  <1>1. Empty \in Accumulator
    BY Sizes DEF Empty, Accumulator, Word
  <1>2. Headroom(Empty, MaxOf(a), TopOf(a))
    BY Room DEF Headroom, Empty
  <1> QED
    BY <1>1, <1>2 DEF Fair, Mean

\* All accumulators empty, as after a reset.
LEMMA ResetAccus ==
    ASSUME accu' = [a \in Accus |-> Empty], seen' = [a \in Accus \cup {"err"} |-> {}], err' = 0
    PROVE  AccuInv' /\ ErrInv'
  <1>1. AccuInv'
    BY EmptyFair DEF AccuInv
  <1>2. 0 \in Sample
    BY Sizes DEF Sample
  <1> QED
    BY <1>1, <1>2 DEF ErrInv, ErrorPeak

\* The accumulator of every channel is one of the five places.
LEMMA ChannelAccus ==
    /\ "err" \notin Accus /\ "juksautin" \in Accus
    /\ AccuOf(2) = "err"
    /\ \A c \in Channels \ {2} : AccuOf(c) \in Accus /\ AccuOf(c) # "juksautin"
  BY DEF Accus, MvAccus, AccuOf, Channels

\* A family of sets of samples to one of which a sample is added.
LEMMA Grown ==
    ASSUME NEW D, NEW S, NEW f \in [D -> SUBSET S], NEW x, NEW v \in S
    PROVE  [f EXCEPT ![x] = @ \cup {v}] \in [D -> SUBSET S]
  OBVIOUS

\* The bookkeeping of ADC_vect keeps all accumulators fair.
LEMMA AccountFair ==
    ASSUME AccuInv, AdcTypeOK, ErrInv, NEW val \in Sample,
           Account(ADMUX, val), Seen(ADMUX, val)
    PROVE  AccuInv' /\ ErrInv'
  <1> DEFINE on == IF juksautus THEN 1 ELSE 0
             b == AccuOf(ADMUX)
  <1>1. on \in SamplesOf("juksautin") /\ on \in Sample
    BY Sizes DEF SamplesOf, TopOf, Sample
  <1>2. Fair(Store(accu["juksautin"], on, accu_bool_sum_max), "juksautin",
             seen["juksautin"] \cup {on})
    <2>1. MaxOf("juksautin") = accu_bool_sum_max
      BY DEF MaxOf
    <2>2. Fair(accu["juksautin"], "juksautin", seen["juksautin"]) /\ seen["juksautin"] \in SUBSET Sample
      BY ChannelAccus DEF AccuInv
    <2> QED
      BY <1>1, <2>1, <2>2, ChannelAccus, StoreFair
  <1>3. /\ seen' = [seen EXCEPT !["juksautin"] = @ \cup {on}, ![b] = @ \cup {val}]
        /\ seen' \in [Accus \cup {"err"} -> SUBSET Sample]
    <2>1. seen' = [seen EXCEPT !["juksautin"] = @ \cup {on}, ![b] = @ \cup {val}]
      BY DEF Seen
    <2>2. seen \in [Accus \cup {"err"} -> SUBSET Sample]
      BY DEF AccuInv
    <2> HIDE DEF on, b
    <2> DEFINE grown == [seen EXCEPT !["juksautin"] = @ \cup {on}]
    <2>3. grown \in [Accus \cup {"err"} -> SUBSET Sample]
      BY ONLY <1>1, <2>2, Grown
    <2>4. [grown EXCEPT ![b] = @ \cup {val}] \in [Accus \cup {"err"} -> SUBSET Sample]
      BY ONLY <2>3, val \in Sample, Grown
    <2> QED
      BY ONLY <2>1, <2>4
  <1>4. CASE b = "err"
    <2>1. /\ accu' = [accu EXCEPT !["juksautin"] = Store(@, on, accu_bool_sum_max)]
          /\ err' = IF err >= val THEN err ELSE val
      BY <1>4 DEF Account
    <2>2. AccuInv'
      <3>1. ASSUME NEW a \in Accus PROVE Fair(accu'[a], a, seen'[a])
        <4>1. CASE a = "juksautin"
          BY <4>1, <1>2, <1>3, <1>4, <2>1, ChannelAccus DEF AccuInv
        <4>2. CASE a # "juksautin"
          BY <4>2, <1>3, <1>4, <2>1, ChannelAccus DEF AccuInv
        <4> QED
          BY <4>1, <4>2
      <3> QED
        BY <3>1, <1>3, <2>1 DEF AccuInv
    <2>3. ErrInv'
      <3>1. seen'["err"] = seen["err"] \cup {val} /\ seen["err"] \in SUBSET Sample
        BY <1>3, <1>4, ChannelAccus DEF AccuInv
      <3>2. Sample \subseteq Nat
        BY Sizes DEF Sample
      <3>3. CASE seen["err"] = {}
        BY <3>1, <3>2, <3>3, <2>1 DEF ErrInv, ErrorPeak
      <3>4. CASE seen["err"] # {}
        <4>1. /\ err \in seen["err"] /\ \A v \in seen["err"] : v \in Nat /\ v <= err
              /\ err \in Nat /\ val \in Nat /\ err \in Sample
          BY <3>1, <3>2, <3>4 DEF ErrInv, ErrorPeak
        <4>2. CASE err >= val
          <5>1. err' = err
            BY <4>2, <2>1
          <5>2. \A v \in seen'["err"] : v <= err
            BY <3>1, <4>1, <4>2
          <5> QED
            BY <5>1, <5>2, <3>1, <4>1 DEF ErrInv, ErrorPeak
        <4>3. CASE ~(err >= val)
          <5>1. err' = val
            BY <4>3, <2>1
          <5>2. \A v \in seen'["err"] : v <= val
            BY <3>1, <4>1, <4>3
          <5> QED
            BY <5>1, <5>2, <3>1 DEF ErrInv, ErrorPeak
        <4> QED
          BY <4>2, <4>3
      <3> QED
        BY <3>3, <3>4
    <2> QED
      BY <2>2, <2>3
  <1>5. CASE b # "err"
    <2>1. b \in Accus /\ b # "juksautin"
      BY <1>5, ChannelAccus DEF AdcTypeOK
    <2>2. /\ accu' = [accu EXCEPT !["juksautin"] = Store(@, on, accu_bool_sum_max),
                                  ![b] = Store(@, val, accu_mv_sum_max)]
          /\ err' = err
      BY <1>5, <2>1 DEF Account, AccuInv
    <2>3. Fair(Store(accu[b], val, accu_mv_sum_max), b, seen[b] \cup {val})
      <3>1. MaxOf(b) = accu_mv_sum_max /\ val \in SamplesOf(b)
        BY <2>1 DEF MaxOf, SamplesOf, TopOf, Sample
      <3>2. Fair(accu[b], b, seen[b]) /\ seen[b] \in SUBSET Sample
        BY <2>1 DEF AccuInv
      <3> QED
        BY <3>1, <3>2, <2>1, StoreFair
    <2>4. AccuInv'
      <3>1. ASSUME NEW a \in Accus PROVE Fair(accu'[a], a, seen'[a])
        <4>1. CASE a = "juksautin"
          BY <4>1, <1>2, <1>3, <2>1, <2>2, ChannelAccus DEF AccuInv
        <4>2. CASE a = b
          BY <4>2, <1>3, <2>1, <2>2, <2>3, ChannelAccus DEF AccuInv
        <4>3. CASE a # "juksautin" /\ a # b
          BY <4>3, <1>3, <2>1, <2>2, ChannelAccus DEF AccuInv
        <4> QED
          BY <4>1, <4>2, <4>3
      <3> QED
        BY <3>1, <1>3, <2>2 DEF AccuInv
    <2>5. ErrInv'
      <3>1. seen'["err"] = seen["err"]
        BY <1>3, <2>1, ChannelAccus DEF AccuInv
      <3> QED
        BY <3>1, <2>2 DEF ErrInv, ErrorPeak
    <2> QED
      BY <2>4, <2>5
  <1> QED
    BY <1>4, <1>5

-----------------------------------------------------------------------------
\* Words and their two bytes.
LEMMA WordBytes ==
    /\ \A b \in [low : 0 .. BASE - 1, high : 0 .. COUNT_MOD \div BASE - 1] : WordOf(b) \in Word
    /\ \A w \in Word : /\ Bytes(w) \in [low : 0 .. BASE - 1, high : 0 .. COUNT_MOD \div BASE - 1]
                       /\ WordOf(Bytes(w)) = w
  <1> DEFINE h == COUNT_MOD \div BASE
  <1>1. BASE \in Nat /\ BASE > 0 /\ COUNT_MOD \in Nat /\ COUNT_MOD % BASE = 0 /\ COUNT_MOD > 0
    BY JuksautinAssumption, Sizes DEF JuksautinAssumption
  <1>2. COUNT_MOD = BASE * h /\ h \in Nat
    BY ONLY <1>1
  <1>3. \A x \in 0 .. BASE - 1, y \in 0 .. h - 1 : x + BASE * y \in 0 .. COUNT_MOD - 1
    <2> SUFFICES ASSUME NEW x \in 0 .. BASE - 1, NEW y \in 0 .. h - 1
                 PROVE  x + BASE * y \in 0 .. COUNT_MOD - 1
      OBVIOUS
    <2> HIDE DEF h
    <2>1. x \in Nat /\ x <= BASE - 1 /\ y \in Nat /\ y <= h - 1
      BY <1>1, <1>2
    <2>2. BASE * y \in Nat /\ BASE * y <= BASE * (h - 1) /\ BASE * (h - 1) = BASE * h - BASE
      BY ONLY <1>1, <1>2, <2>1
    <2> QED
      BY ONLY <1>1, <1>2, <2>1, <2>2
  <1>4. \A w \in 0 .. COUNT_MOD - 1 :
            /\ w % BASE \in 0 .. BASE - 1 /\ w \div BASE \in 0 .. h - 1
            /\ (w % BASE) + BASE * (w \div BASE) = w
    <2> SUFFICES ASSUME NEW w \in 0 .. COUNT_MOD - 1
                 PROVE  /\ w % BASE \in 0 .. BASE - 1 /\ w \div BASE \in 0 .. h - 1
                        /\ (w % BASE) + BASE * (w \div BASE) = w
      OBVIOUS
    <2> HIDE DEF h
    <2>1. w \in Nat /\ w < BASE * h
      BY <1>1, <1>2
    <2> QED
      BY ONLY <2>1, <1>1, <1>2
  <1> QED
    BY <1>3, <1>4 DEF WordOf, Bytes, Word

\* Steps that do not concern the measurements.
LEMMA AccusUnchanged ==
    ASSUME Inv, UNCHANGED accuVars PROVE AccuInv' /\ ErrInv'
  BY DEF Inv, accuVars, AccuInv, ErrInv, ErrorPeak

\* Steps that do not concern the ADC's registers.
LEMMA AdcUnchanged ==
    ASSUME Inv, UNCHANGED adcVars PROVE AdcTypeOK' /\ PinTypeOK'
  BY DEF Inv, adcVars, AdcTypeOK, PinTypeOK

\* Reading an accumulator gives a word, whatever a division by zero returns.
LEMMA TakenWord ==
    ASSUME NEW acc \in Accumulator
    PROVE  to_ratio16(acc) \subseteq Word /\ to_millivolts(acc) \subseteq Word
  <1>1. \A q \in Int : q % COUNT_MOD \in Word
    BY Sizes DEF Word
  <1>2. \A n, d \in Nat : Divide(n, d) \subseteq Int
    BY Sizes DEF Divide
  <1>3. /\ acc.sum \in Nat /\ acc.count \in Nat
        /\ (acc.sum * MV_MULT) % SUM_MOD \in Nat /\ (acc.sum * COUNT_MOD) % SUM_MOD \in Nat
    <2>1. acc.sum \in Nat /\ acc.count \in Nat
      BY Sizes DEF Accumulator, Word
    <2>2. \A x, y \in Nat : (x * y) % SUM_MOD \in Nat
      BY Sizes
    <2> QED
      BY <2>1, <2>2, Sizes
  <1>4. MV_DIV \in Nat /\ MV_DIV > 0
    BY JuksautinAssumption DEF JuksautinAssumption
  <1>5. \A q \in Int : q \div MV_DIV \in Int
    BY <1>4
  <1> QED
    BY <1>1, <1>2, <1>3, <1>5 DEF to_ratio16, to_millivolts

\* After a reset or the programming of the EEPROM.
LEMMA InitInv == Init => Inv
  <1> SUFFICES ASSUME Init PROVE Inv
    OBVIOUS
  <1>1. AccuInv
    BY EmptyFair, Sizes DEF Init, AccuInv, Sample
  <1>2. ErrInv
    BY Sizes DEF Init, ErrInv, ErrorPeak, Sample
  <1>3. AdcTypeOK /\ PinTypeOK
    <2>1. AdcTypeOK
      BY DEF Init, AdcTypeOK, Channels
    <2>2. PinTypeOK
      BY DEF Init, PinTypeOK
    <2> QED
      BY <2>1, <2>2
  <1>4. TargetTypeOK
    <2>1. target \in Word
      <3> DEFINE t == (INITIAL_MV * MV_DIV) \div MV_MULT
      <3>1. /\ INITIAL_MV \in Nat /\ INITIAL_MV < COUNT_MOD /\ MV_DIV \in Nat
            /\ MV_MULT \in Nat /\ MV_DIV <= MV_MULT /\ MV_MULT > 0
        BY JuksautinAssumption, Sizes DEF JuksautinAssumption, Word
      <3>2. INITIAL_MV * MV_DIV \in Nat /\ INITIAL_MV * MV_DIV <= INITIAL_MV * MV_MULT
        BY ONLY <3>1
      <3>3. t \in Nat /\ t <= INITIAL_MV
        BY ONLY <3>1, <3>2
      <3> QED
        BY <3>1, <3>3, Sizes DEF Init, Word
    <2>2. asked \in Word /\ value \in Word
      <3>1. \A q \in Int : q % COUNT_MOD \in Word
        BY Sizes DEF Word
      <3>2. (target * MV_MULT + MV_MULT \div 2) \div MV_DIV \in Int
        BY <2>1, Sizes, JuksautinAssumption DEF Word, JuksautinAssumption
      <3> QED
        BY <3>1, <3>2, Sizes DEF Init, juksautin_get_target, ToMillivolts, Word
    <2> QED
      BY <2>1, <2>2, WordBytes DEF Init, TargetTypeOK
  <1> QED
    BY <1>1, <1>2, <1>3, <1>4, Sizes DEF Init, Inv, Word

\* Targets are words, in both units.
LEMMA TargetWords ==
    /\ \A mv \in Word : ToRaw(mv) \in Word
    /\ \A raw \in Word : ToMillivolts(raw) \in Word
  <1>1. \A q \in Int : q % COUNT_MOD \in Word
    BY Sizes DEF Word
  <1>2. \A w \in Word : /\ (w * MV_DIV + MV_DIV \div 2) \div MV_MULT \in Int
                       /\ (w * MV_MULT + MV_MULT \div 2) \div MV_DIV \in Int
    BY Sizes, JuksautinAssumption DEF Word, JuksautinAssumption
  <1> QED
    BY <1>1, <1>2 DEF ToRaw, ToMillivolts

\* The conversion interrupt (adc.c:94-107, juksautin.c:173-241).
LEMMA AdcStep == Inv /\ ADC_vect => Inv'
  <1> SUFFICES ASSUME Inv, ADC_vect PROVE Inv'
    OBVIOUS
  <1>1. AccuInv' /\ ErrInv' /\ PinTypeOK'
    <2>1. PICK val \in use.inputs[ADMUX] :
              /\ Account(ADMUX, val) /\ Seen(ADMUX, val)
              /\ juksautus' = IF ADMUX = 0 THEN val > target ELSE juksautus
      BY DEF ADC_vect
    <2>2. val \in Sample
      BY UseTyped DEF Inv, AdcTypeOK
    <2>3. AccuInv' /\ ErrInv'
      BY <2>1, <2>2, AccountFair DEF Inv
    <2>4. juksautus' \in BOOLEAN
      <3>1. CASE ADMUX = 0
        <4>1. juksautus' = (val > target)
          BY <2>1, <3>1
        <4> QED
          BY <4>1
      <3>2. CASE ADMUX # 0
        <4>1. juksautus' = juksautus
          BY <2>1, <3>2
        <4>2. juksautus \in BOOLEAN
          BY DEF Inv, PinTypeOK
        <4> QED
          BY ONLY <4>1, <4>2
      <3> QED
        BY <3>1, <3>2
    <2> QED
      BY <2>3, <2>4 DEF PinTypeOK
  <1>2. AdcTypeOK'
    BY DEF ADC_vect, adc_channel_selection, Inv, AdcTypeOK, Channels
  <1>3. TargetTypeOK' /\ reply' \in Word
    BY Sizes DEF ADC_vect, targetVars, Inv, TargetTypeOK, Word
  <1> QED
    BY <1>1, <1>2, <1>3, UseKept DEF Inv, Next

\* Reading a register (juksautin.c:115-157).
LEMMA TakeStep == Inv /\ ((\E a \in Accus : Take(a)) \/ juksautin_take_error) => Inv'
  <1>1. ASSUME Inv, NEW a \in Accus, Take(a) PROVE Inv'
    <2>1. /\ accu' = [accu EXCEPT ![a] = Empty] /\ seen' = [seen EXCEPT ![a] = {}]
          /\ err' = err
      BY <1>1 DEF Take
    <2>2. AccuInv'
      BY <1>1, <2>1, EmptyFair DEF Inv, AccuInv
    <2>3. ErrInv'
      BY <1>1, <2>1, ChannelAccus DEF Inv, AccuInv, ErrInv, ErrorPeak
    <2>4. AdcTypeOK' /\ PinTypeOK' /\ TargetTypeOK'
      BY <1>1, AdcUnchanged DEF Take, targetVars, Inv, TargetTypeOK
    <2>5. reply' \in Word
      <3>1. accu[a] \in Accumulator
        BY <1>1 DEF Inv, AccuInv, Fair
      <3> QED
        BY <1>1, <3>1, TakenWord DEF Take
    <2> QED
      BY <1>1, <2>2, <2>3, <2>4, <2>5, UseKept DEF Inv, Next
  <1>2. ASSUME Inv, juksautin_take_error PROVE Inv'
    <2>1. accu' = accu /\ seen' = [seen EXCEPT !["err"] = {}] /\ err' = 0
      BY <1>2 DEF juksautin_take_error
    <2>2. AccuInv' /\ ErrInv'
      BY <1>2, <2>1, ChannelAccus, Sizes DEF Inv, AccuInv, ErrInv, ErrorPeak, Sample
    <2>3. AdcTypeOK' /\ PinTypeOK' /\ TargetTypeOK'
      BY <1>2, AdcUnchanged DEF juksautin_take_error, targetVars, Inv, TargetTypeOK
    <2>4. reply' \in Word
      BY <1>2, Sizes DEF juksautin_take_error, Inv, ErrInv, Sample, Word
    <2> QED
      BY <1>2, <2>2, <2>3, <2>4, UseKept DEF Inv, Next
  <1> QED
    BY <1>1, <1>2

\* Setting and saving the target (juksautin.c:90-98).
LEMMA TargetStep == Inv /\ (juksautin_set_target \/ SaveTarget) => Inv'
  <1> SUFFICES ASSUME Inv, juksautin_set_target \/ SaveTarget PROVE Inv'
    OBVIOUS
  <1>1. AccuInv' /\ ErrInv' /\ AdcTypeOK' /\ PinTypeOK' /\ reply' \in Word
    BY AccusUnchanged, AdcUnchanged, Sizes DEF juksautin_set_target, SaveTarget, Word
  <1>2. CASE juksautin_set_target
    <2>1. PICK mv \in use.targets : asked' = mv /\ target' = ToRaw(mv)
      BY <1>2 DEF juksautin_set_target
    <2>2. mv \in Word
      BY UseTyped DEF Inv
    <2>3. TargetTypeOK'
      BY <1>2, <2>1, <2>2, TargetWords DEF juksautin_set_target, Inv, TargetTypeOK
    <2> QED
      BY <1>1, <1>2, <2>3, UseKept DEF Inv, Next
  <1>3. CASE SaveTarget
    <2>1. Bytes(value) \in [low : 0 .. BASE - 1, high : 0 .. COUNT_MOD \div BASE - 1]
      BY WordBytes DEF Inv, TargetTypeOK
    <2>2. TargetTypeOK'
      BY <1>3, <2>1, Sizes DEF SaveTarget, Inv, TargetTypeOK, Word
    <2> QED
      BY <1>1, <1>3, <2>2, UseKept DEF Inv, Next
  <1> QED
    BY <1>2, <1>3

\* A power cut.
LEMMA CutStep == Inv /\ PowerCut => Inv'
  <1> SUFFICES ASSUME Inv, PowerCut PROVE Inv'
    OBVIOUS
  <1>1. AccuInv' /\ ErrInv'
    BY ResetAccus DEF PowerCut
  <1>2. AdcTypeOK' /\ PinTypeOK'
    <2>1. AdcTypeOK'
      BY DEF PowerCut, AdcTypeOK, Channels
    <2>2. PinTypeOK'
      BY DEF PowerCut, PinTypeOK
    <2> QED
      BY <2>1, <2>2
  <1>3. TargetTypeOK' /\ reply' \in Word
    <2>1. ee_target' \in [low : 0 .. BASE - 1, high : 0 .. COUNT_MOD \div BASE - 1]
      BY DEF PowerCut, Inv, TargetTypeOK
    <2> QED
      BY <2>1, WordBytes, TargetWords, Sizes DEF PowerCut, TargetTypeOK, Word
  <1> QED
    BY <1>1, <1>2, <1>3, UseKept DEF Inv, Next

\* Inv is an invariant, whatever is measured, read, written and cut short.
THEOREM Invariance == Spec => []Inv
  <1>1. Inv /\ [Next]_vars => Inv'
    <2> SUFFICES ASSUME Inv, [Next]_vars PROVE Inv'
      OBVIOUS
    <2>1. CASE UNCHANGED vars
      <3>1. UNCHANGED accuVars /\ UNCHANGED adcVars /\ UNCHANGED targetVars /\ reply' = reply
        BY <2>1 DEF vars
      <3>2. AccuInv' /\ ErrInv' /\ AdcTypeOK' /\ PinTypeOK'
        BY <3>1, AccusUnchanged, AdcUnchanged
      <3>3. TargetTypeOK'
        BY <3>1 DEF Inv, TargetTypeOK, targetVars
      <3>4. use' = use
        BY <2>1 DEF vars
      <3> QED
        BY <3>1, <3>2, <3>3, <3>4 DEF Inv
    <2> QED
      BY <2>1, AdcStep, TakeStep, TargetStep, CutStep DEF Next
  <1> QED
    BY <1>1, InitInv, PTL DEF Spec

\* The types hold for every size (juksautin.c:42-76).
THEOREM TypeCorrect == Spec => []TypeOK
  <1>1. Inv => TypeOK
    <2> SUFFICES ASSUME Inv PROVE TypeOK
      OBVIOUS
    <2>1. accu \in [Accus -> [sum : 0 .. SUM_MOD - 1, count : Word]]
      BY DEF Inv, AccuInv, Fair, Accumulator
    <2>2. juksautus \in BOOLEAN
      BY DEF Inv, PinTypeOK
    <2> QED
      BY <2>1, <2>2 DEF TypeOK, Inv, AccuInv, AdcTypeOK, ErrInv, TargetTypeOK
  <1> QED
    BY <1>1, Invariance, PTL

\* A mean is never below the lowest nor above the highest of the samples it
\* stands for, however often the accumulator was halved (juksautin.c:244-263).
THEOREM MeansFair == Spec => []MeanFair
  <1>1. Inv => MeanFair
    BY DEF Inv, AccuInv, Fair, Mean, MeanFair
  <1> QED
    BY <1>1, Invariance, PTL

\* The conversions to millivolts and to a ratio stay within 32 bits
\* (juksautin.c:32-40, 160-170).
THEOREM Headrooms == Spec => []NoOverflow
  <1>1. Inv => NoOverflow
    <2> SUFFICES ASSUME Inv, NEW a \in Accus PROVE accu[a].sum * Factor(a) < SUM_MOD
      BY DEF NoOverflow
    <2> DEFINE s == accu[a].sum
               m == MaxOf(a) + TopOf(a)
               f == Factor(a)
    <2>1. s \in Nat /\ s <= m
      <3>1. accu[a] \in Accumulator /\ Headroom(accu[a], MaxOf(a), TopOf(a))
        BY DEF Inv, AccuInv, Fair
      <3> QED
        BY <3>1, Room, Sizes DEF Accumulator, Headroom
    <2>2. m \in Nat /\ f \in Nat /\ m * f < SUM_MOD /\ SUM_MOD \in Nat
      BY Room, Sizes
    <2> HIDE DEF s, m, f
    <2>3. s * f <= m * f /\ s * f \in Nat /\ m * f \in Nat
      BY ONLY <2>1, <2>2
    <2>4. s * f < SUM_MOD
      BY ONLY <2>2, <2>3
    <2> QED
      BY <2>4 DEF s, f
  <1> QED
    BY <1>1, Invariance, PTL

\* The error LED's register is the highest sample since it was read
\* (juksautin.c:125-134, 237-241).
THEOREM PeakKept == Spec => []ErrorPeak
  <1>1. Inv => ErrorPeak
    BY DEF Inv, ErrInv
  <1> QED
    BY <1>1, Invariance, PTL

-----------------------------------------------------------------------------
\* Division by a positive number, as inequalities.
LEMMA Quotient ==
    ASSUME NEW n \in Nat, NEW d \in Nat, d > 0
    PROVE  n \div d \in Nat /\ d * (n \div d) <= n /\ n < d * (n \div d) + d
  OBVIOUS

\* A quotient between two multiples of the divisor.
LEMMA QuotientBetween ==
    ASSUME NEW n \in Nat, NEW d \in Nat, d > 0, NEW x \in Nat, NEW y \in Nat,
           d * x <= n, n <= d * y
    PROVE  x <= n \div d /\ n \div d <= y
  <1> DEFINE q == n \div d
  <1>1. q \in Nat /\ d * q <= n /\ n < d * q + d
    BY Quotient
  <1> HIDE DEF q
  <1>2. x < q + 1
    <2>1. d * x < d * (q + 1)
      BY ONLY <1>1, d * x <= n, d \in Nat, x \in Nat
    <2> QED
      BY ONLY <2>1, <1>1, d \in Nat, d > 0, x \in Nat
  <1>3. q <= y
    <2>1. d * q <= d * y
      BY ONLY <1>1, n <= d * y, d \in Nat, y \in Nat, n \in Nat
    <2> QED
      BY ONLY <2>1, <1>1, d \in Nat, d > 0, y \in Nat
  <1> QED
    BY <1>1, <1>2, <1>3 DEF q

\* Division keeps the order.
LEMMA QuotientOrder ==
    ASSUME NEW m \in Nat, NEW n \in Nat, m <= n, NEW d \in Nat, d > 0
    PROVE  m \div d <= n \div d
  <1> DEFINE p == m \div d
             q == n \div d
  <1>1. p \in Nat /\ d * p <= m /\ q \in Nat /\ n < d * q + d
    BY Quotient
  <1> HIDE DEF p, q
  <1>2. d * p < d * (q + 1)
    BY ONLY <1>1, m <= n, m \in Nat, n \in Nat, d \in Nat
  <1>3. p < q + 1
    BY ONLY <1>1, <1>2, d \in Nat, d > 0
  <1> QED
    BY <1>1, <1>3 DEF p, q

\* The register of a mean is between those of two of its samples.
LEMMA MeanInMillivolts ==
    ASSUME NEW acc \in Accumulator, NEW lo \in Sample, NEW hi \in Sample,
           acc.count > 0, lo * acc.count <= acc.sum, acc.sum <= hi * acc.count,
           acc.sum * MV_MULT < SUM_MOD
    PROVE  to_millivolts(acc) \subseteq InMillivolts(lo) .. InMillivolts(hi)
  <1> DEFINE s == acc.sum
             c == acc.count
             q == (s * MV_MULT) \div c
             d == MV_DIV
  <1>1. /\ s \in Nat /\ c \in Nat /\ c > 0 /\ lo \in Nat /\ hi \in Nat /\ hi < SAMPLES
        /\ MV_MULT \in Nat /\ d \in Nat /\ d > 0 /\ MV_MULT < 2 * d
        /\ 2 * SAMPLES <= COUNT_MOD /\ SAMPLES \in Nat /\ COUNT_MOD \in Nat
    BY Sizes, JuksautinAssumption DEF Accumulator, Word, Sample, JuksautinAssumption
  <1>2. s * MV_MULT \in Nat /\ lo * MV_MULT \in Nat /\ hi * MV_MULT \in Nat
    BY ONLY <1>1
  <1>3. lo * c <= s /\ s <= hi * c
    OBVIOUS
  <1>4. c * (lo * MV_MULT) <= s * MV_MULT /\ s * MV_MULT <= c * (hi * MV_MULT)
    <2> HIDE DEF s, c
    <2>1. (lo * c) * MV_MULT <= s * MV_MULT /\ s * MV_MULT <= (hi * c) * MV_MULT
      BY ONLY <1>1, <1>3
    <2>2. (lo * c) * MV_MULT = c * (lo * MV_MULT) /\ (hi * c) * MV_MULT = c * (hi * MV_MULT)
      BY ONLY <1>1
    <2> QED
      BY <2>1, <2>2
  <1>5. q \in Nat /\ lo * MV_MULT <= q /\ q <= hi * MV_MULT
    BY ONLY <1>1, <1>2, <1>4, QuotientBetween, Quotient
  <1>6. /\ q \div d \in Nat /\ InMillivolts(lo) <= q \div d /\ q \div d <= InMillivolts(hi)
    BY <1>1, <1>2, <1>5, QuotientOrder, Quotient DEF InMillivolts
  <1>7. InMillivolts(hi) \in Nat /\ InMillivolts(hi) < COUNT_MOD
    <2> DEFINE h == (hi * MV_MULT) \div d
    <2>1. h \in Nat /\ d * h <= hi * MV_MULT
      BY <1>1, <1>2, Quotient
    <2> HIDE DEF h, d
    <2>2. hi * MV_MULT <= hi * (2 * d) /\ hi * (2 * d) = d * (2 * hi)
      BY ONLY <1>1
    <2>3. d * h <= d * (2 * hi)
      BY ONLY <2>1, <2>2, <1>1, <1>2
    <2>4. h <= 2 * hi
      BY ONLY <2>1, <2>3, <1>1
    <2> QED
      BY <2>1, <2>4, <1>1 DEF InMillivolts, h, d
  <1>8. (s * MV_MULT) % SUM_MOD = s * MV_MULT
    BY <1>2, Sizes
  <1>9. to_millivolts(acc) = {(q \div d) % COUNT_MOD}
    BY <1>1, <1>8 DEF to_millivolts, Divide
  <1>10. (q \div d) % COUNT_MOD = q \div d
    BY <1>1, <1>6, <1>7
  <1>11. InMillivolts(lo) \in Nat
    BY <1>1, <1>2, Quotient DEF InMillivolts
  <1> QED
    BY <1>6, <1>7, <1>9, <1>10, <1>11

\* The register of a voltage shows a mean of what was measured since it was
\* last read (juksautin.c:115-163).
THEOREM MeansShown == Spec => MeanShown
  <1>1. Inv /\ [Next]_vars => [\A a \in MvAccus : Take(a) /\ seen[a] # {} =>
            \E lo, hi \in seen[a] : reply' \in InMillivolts(lo) .. InMillivolts(hi)]_vars
    <2> SUFFICES ASSUME Inv, NEW a \in MvAccus, Take(a), seen[a] # {}
                 PROVE  \E lo, hi \in seen[a] : reply' \in InMillivolts(lo) .. InMillivolts(hi)
      OBVIOUS
    <2>1. a \in Accus /\ a # "juksautin"
      BY DEF Accus, MvAccus
    <2>2. accu[a] \in Accumulator /\ Headroom(accu[a], MaxOf(a), TopOf(a)) /\ Mean(accu[a], seen[a])
      BY <2>1 DEF Inv, AccuInv, Fair
    <2>3. PICK lo \in seen[a], hi \in seen[a] :
              accu[a].count > 0 /\ lo * accu[a].count <= accu[a].sum /\ accu[a].sum <= hi * accu[a].count
      BY <2>2 DEF Mean
    <2>4. lo \in Sample /\ hi \in Sample
      BY <2>1 DEF Inv, AccuInv
    <2>5. accu[a].sum * MV_MULT < SUM_MOD
      <3> DEFINE s == accu[a].sum
                 m == MaxOf(a) + TopOf(a)
      <3>1. s \in Nat /\ s <= m
        BY <2>1, <2>2, Room, Sizes DEF Accumulator, Headroom
      <3>2. m \in Nat /\ m * MV_MULT < SUM_MOD /\ SUM_MOD \in Nat /\ MV_MULT \in Nat
        BY <2>1, Room, Sizes DEF Factor
      <3> HIDE DEF s, m
      <3>3. s * MV_MULT <= m * MV_MULT /\ s * MV_MULT \in Nat /\ m * MV_MULT \in Nat
        BY ONLY <3>1, <3>2
      <3>4. s * MV_MULT < SUM_MOD
        BY ONLY <3>2, <3>3
      <3> QED
        BY <3>4 DEF s
    <2>6. to_millivolts(accu[a]) \subseteq InMillivolts(lo) .. InMillivolts(hi)
      BY <2>2, <2>3, <2>4, <2>5, MeanInMillivolts
    <2>7. reply' \in to_millivolts(accu[a])
      BY <2>1 DEF Take
    <2> QED
      BY <2>3, <2>6, <2>7
  <1> QED
    BY <1>1, Invariance, PTL DEF Spec, MeanShown

-----------------------------------------------------------------------------
\* A target read back is within a millivolt of the one written: the resolution
\* is a little more than one (juksautin.c:90-107).
LEMMA Rounding ==
    ASSUME NEW mv \in 0 .. COUNT_MOD - 2
    PROVE  ToMillivolts(ToRaw(mv)) - mv \in -1 .. 1
  <1> DEFINE D == MV_DIV
             M == MV_MULT
             n == mv * D + D \div 2
             r == n \div M
             k == r * M + M \div 2
  <1>1. /\ D \in Nat /\ D >= 2 /\ M \in Nat /\ D <= M /\ M < 2 * D
        /\ mv \in Nat /\ mv <= COUNT_MOD - 2 /\ COUNT_MOD \in Nat
    BY JuksautinAssumption, Sizes DEF JuksautinAssumption
  <1> HIDE DEF D, M
  <1>2. mv * D \in Nat /\ mv * D <= mv * M /\ mv * M \in Nat
    BY ONLY <1>1
  <1>3. n \in Nat /\ 2 * n <= 2 * (mv * D) + D /\ 2 * n >= 2 * (mv * D) + D - 1
    BY ONLY <1>1, <1>2
  <1>4. r \in Nat /\ M * r <= n /\ n < M * r + M
    BY ONLY <1>1, <1>3, Quotient
  <1>5. r <= mv
    <2> HIDE DEF r, n
    <2>1. M * r < M * (mv + 1)
      BY ONLY <1>1, <1>2, <1>3, <1>4
    <2> QED
      BY ONLY <2>1, <1>1, <1>4
  <1>6. ToRaw(mv) = r
    BY <1>1, <1>4, <1>5 DEF ToRaw, D, M
  <1>7. /\ k \in Nat /\ 2 * k <= 2 * (M * r) + M /\ 2 * k >= 2 * (M * r) + M - 1
    <2> HIDE DEF r
    <2>1. M * r \in Nat /\ r * M = M * r
      BY ONLY <1>1, <1>4
    <2> QED
      BY ONLY <2>1, <1>1
  <1>8. k < mv * D + 2 * D /\ k >= mv * D - D
    <2> HIDE DEF r, n, k
    <2>1. M * r \in Nat
      BY ONLY <1>1, <1>4
    <2> QED
      BY ONLY <2>1, <1>1, <1>2, <1>3, <1>4, <1>7
  <1>9. k \div D \in Nat /\ D * (k \div D) <= k /\ k < D * (k \div D) + D
    BY ONLY <1>1, <1>7, Quotient
  <1>10. k \div D <= mv + 1 /\ k \div D >= mv - 1
    <2> DEFINE b == k \div D
    <2> HIDE DEF k, b
    <2>0. b \in Nat /\ D * b <= k /\ k < D * b + D /\ k \in Nat
      BY <1>7, <1>9 DEF b
    <2>1. D * b < D * (mv + 2)
      BY ONLY <2>0, <1>1, <1>2, <1>8
    <2>2. D * (mv - 1) < D * (b + 1)
      BY ONLY <2>0, <1>1, <1>2, <1>8
    <2>3. b < mv + 2
      BY ONLY <2>1, <2>0, <1>1
    <2>4. mv - 1 < b + 1
      BY ONLY <2>2, <2>0, <1>1
    <2> QED
      BY <2>3, <2>4, <2>0, <1>1 DEF b
  <1>11. ToMillivolts(r) = k \div D
    BY <1>1, <1>9, <1>10 DEF ToMillivolts, D, M
  <1> QED
    BY <1>6, <1>9, <1>10, <1>11, <1>1

\* While the target is being saved, what is still to be written is known.
Saving ==
    /\ pc = "idle" => target = WordOf(ee_target)
    /\ pc # "idle" => value = target
    /\ pc = "save2" => ee_target.low = Bytes(value).low
    /\ juksautin_get_target - asked \in -1 .. 1

\* The target in use is at any moment the one asked for within a millivolt, and
\* between any two commands the one saved (juksautin.c:73-107).
THEOREM TargetSaved ==
    ASSUME \A u \in Uses : u.targets \subseteq 0 .. COUNT_MOD - 2
    PROVE  Spec => []TargetKept
  <1>1. Init => Saving
    <2> SUFFICES ASSUME Init PROVE Saving
      OBVIOUS
    <2>1. target \in Word
      BY InitInv DEF Inv, TargetTypeOK
    <2>2. juksautin_get_target \in Int /\ juksautin_get_target - asked = 0
      BY <2>1, TargetWords, Sizes DEF Init, juksautin_get_target, Word
    <2> QED
      BY <2>1, <2>2, WordBytes DEF Init, Saving
  <1>2. Inv /\ Saving /\ [Next]_vars => Saving'
    <2> SUFFICES ASSUME Inv, Saving, [Next]_vars PROVE Saving'
      OBVIOUS
    <2>1. CASE PowerCut
      <3>1. target' = WordOf(ee_target') /\ asked' = ToMillivolts(target')
        BY <2>1 DEF PowerCut
      <3>2. target' \in Word
        BY <2>1, CutStep DEF Inv, TargetTypeOK
      <3>3. juksautin_get_target' = asked' /\ asked' \in Int
        BY <3>1, <3>2, TargetWords, Sizes DEF juksautin_get_target, Word
      <3>4. \A x \in Int : x - x \in -1 .. 1
        OBVIOUS
      <3>5. juksautin_get_target' - asked' \in -1 .. 1
        BY <3>3, <3>4, Zenon
      <3> QED
        BY <2>1, <3>1, <3>5 DEF PowerCut, Saving
    <2>2. CASE juksautin_set_target
      <3>1. PICK mv \in use.targets : asked' = mv /\ target' = ToRaw(mv)
        BY <2>2 DEF juksautin_set_target
      <3>2. juksautin_get_target' - asked' \in -1 .. 1
        BY <3>1, Rounding DEF juksautin_get_target, Inv
      <3> QED
        BY <2>2, <3>2 DEF juksautin_set_target, Saving
    <2>3. CASE SaveTarget
      <3>1. juksautin_get_target' = juksautin_get_target /\ asked' = asked /\ target' = target
        BY <2>3 DEF SaveTarget, juksautin_get_target
      <3>2. CASE pc = "save"
        BY <2>3, <3>1, <3>2 DEF SaveTarget, Saving, Inv, TargetTypeOK
      <3>3. CASE pc # "save"
        <4>1. /\ pc = "save2" /\ pc' = "idle" /\ value \in Word
              /\ ee_target' = [ee_target EXCEPT !.high = Bytes(value).high]
          BY <2>3, <3>3 DEF SaveTarget, Inv, TargetTypeOK
        <4>2. WordOf(ee_target') = WordOf(Bytes(value))
          BY <4>1 DEF WordOf, Saving, Inv, TargetTypeOK
        <4> QED
          BY <4>1, <4>2, <3>1, WordBytes DEF Saving
      <3> QED
        BY <3>2, <3>3
    <2>4. ASSUME UNCHANGED targetVars PROVE Saving'
      BY <2>4 DEF targetVars, Saving, juksautin_get_target
    <2>5. ADC_vect \/ (\E a \in Accus : Take(a)) \/ juksautin_take_error \/ UNCHANGED vars
              => UNCHANGED targetVars
      BY DEF ADC_vect, Take, juksautin_take_error, vars
    <2> QED
      BY <2>1, <2>2, <2>3, <2>4, <2>5 DEF Next
  <1>3. Saving => TargetKept
    BY DEF Saving, TargetKept
  <1> QED
    BY <1>1, <1>2, <1>3, Invariance, PTL DEF Spec

-----------------------------------------------------------------------------
(* The duty cycle is not a mean like the others: its samples are bits, and *)
(* what the sum lacks of the count must survive every halving.             *)

\* The sum is short of the count exactly if one of the periods did not pull.
Exact(acc, samples) ==
    /\ samples \subseteq {0, 1}
    /\ IF 0 \in samples THEN acc.sum < acc.count ELSE acc.sum = acc.count

Duty == Exact(accu["juksautin"], seen["juksautin"])

\* Halving an even count leaves a sum short of it short of it.
LEMMA HalvingShort ==
    ASSUME NEW s \in Nat, NEW c \in Nat, c % 2 = 0
    PROVE  (s < c => s \div 2 < c \div 2) /\ (s = c => s \div 2 = c \div 2)
  OBVIOUS

\* Counting one more period keeps the duty cycle exact.
LEMMA StoreExact ==
    ASSUME NEW acc, NEW samples \in SUBSET Sample, Fair(acc, "juksautin", samples),
           Exact(acc, samples), NEW on \in {0, 1}
    PROVE  Exact(Store(acc, on, accu_bool_sum_max), samples \cup {on})
  <1> DEFINE s == acc.sum + on
             c == acc.count + 1
             r == Store(acc, on, accu_bool_sum_max)
             all == samples \cup {on}
  <1>1. /\ MaxOf("juksautin") = accu_bool_sum_max /\ TopOf("juksautin") = 1
        /\ accu_bool_sum_max \in Nat /\ 2 <= accu_bool_sum_max
        /\ accu_bool_sum_max + 2 < SUM_MOD
    BY Room, ChannelAccus, Maxima DEF MaxOf, TopOf
  <1>2. /\ acc \in Accumulator /\ Headroom(acc, accu_bool_sum_max, 1)
        /\ acc.sum \in Nat /\ acc.count \in Nat
    BY <1>1, Sizes DEF Fair, Accumulator, Word
  <1>3. /\ s \in Nat /\ c \in Nat
        /\ \/ c % 2 = 0 /\ r = [sum |-> s \div 2, count |-> c \div 2]
           \/ r = [sum |-> s, count |-> c]
    <2>1. on \in Nat /\ on <= 1 /\ 2 * 1 <= accu_bool_sum_max /\ accu_bool_sum_max + 2 * 1 < SUM_MOD
      BY <1>1
    <2> QED
      BY <1>1, <1>2, <2>1, StoreCases
  <1>4. all \subseteq {0, 1} /\ IF 0 \in all THEN s < c ELSE s = c
    <2>1. CASE 0 \in samples
      BY <2>1, <1>2 DEF Exact
    <2>2. CASE 0 \notin samples
      BY <2>2, <1>2 DEF Exact
    <2> QED
      BY <2>1, <2>2
  <1> HIDE DEF s, c, r, all
  <1>5. IF 0 \in all THEN r.sum < r.count ELSE r.sum = r.count
    <2>1. CASE c % 2 = 0 /\ r = [sum |-> s \div 2, count |-> c \div 2]
      <3>1. (s < c => s \div 2 < c \div 2) /\ (s = c => s \div 2 = c \div 2)
        BY <1>3, <2>1, HalvingShort
      <3>2. r.sum = s \div 2 /\ r.count = c \div 2
        BY <2>1
      <3> QED
        BY <1>4, <3>1, <3>2
    <2>2. CASE r = [sum |-> s, count |-> c]
      BY <1>4, <2>2
    <2> QED
      BY <1>3, <2>1, <2>2
  <1> QED
    BY <1>4, <1>5 DEF Exact, r, all

\* Every step keeps the duty cycle exact.
LEMMA DutyStep == Inv /\ Duty /\ [Next]_vars => Duty'
  <1> SUFFICES ASSUME Inv, Duty, [Next]_vars PROVE Duty'
    OBVIOUS
  <1> DEFINE j == "juksautin"
  <1>1. /\ accu = [a \in Accus |-> accu[a]] /\ seen \in [Accus \cup {"err"} -> SUBSET Sample]
        /\ Fair(accu[j], j, seen[j]) /\ j \in Accus /\ "err" \notin Accus
    BY ChannelAccus DEF Inv, AccuInv
  <1>2. Exact(Empty, {})
    BY DEF Exact, Empty
  <1>3. CASE PowerCut
    <2>1. accu'[j] = Empty /\ seen'[j] = {}
      BY <1>1, <1>3 DEF PowerCut
    <2> QED
      BY <1>2, <2>1 DEF Duty
  <1>4. CASE ADC_vect
    <2> DEFINE on == IF juksautus THEN 1 ELSE 0
               b == AccuOf(ADMUX)
    <2>1. PICK val \in use.inputs[ADMUX] : Account(ADMUX, val) /\ Seen(ADMUX, val)
      BY <1>4 DEF ADC_vect
    <2>2. b # j
      BY ChannelAccus DEF Inv, AdcTypeOK, AccuOf
    <2>3. accu'[j] = Store(accu[j], on, accu_bool_sum_max)
      <3>1. CASE b = "err"
        <4>1. accu' = [accu EXCEPT ![j] = Store(@, on, accu_bool_sum_max)]
          BY <2>1, <3>1 DEF Account
        <4> QED
          BY <1>1, <4>1
      <3>2. CASE b # "err"
        <4>1. accu' = [accu EXCEPT ![j] = Store(@, on, accu_bool_sum_max),
                                   ![b] = Store(@, val, accu_mv_sum_max)]
          <5>1. b \in Accus
            BY <3>2, ChannelAccus DEF Inv, AdcTypeOK
          <5> QED
            BY <1>1, <2>1, <2>2, <3>2, <5>1 DEF Account
        <4> QED
          BY <1>1, <2>2, <4>1
      <3> QED
        BY <3>1, <3>2
    <2>4. seen'[j] = seen[j] \cup {on}
      <3>1. seen' = [seen EXCEPT ![j] = @ \cup {on}, ![b] = @ \cup {val}]
        BY <2>1 DEF Seen
      <3> QED
        BY <1>1, <2>2, <3>1
    <2>5. on \in {0, 1} /\ seen[j] \in SUBSET Sample
      BY <1>1
    <2> HIDE DEF on
    <2>6. Exact(Store(accu[j], on, accu_bool_sum_max), seen[j] \cup {on})
      BY <1>1, <2>5, StoreExact DEF Duty
    <2> QED
      BY <2>3, <2>4, <2>6 DEF Duty
  <1>5. ASSUME NEW a \in Accus, Take(a) PROVE Duty'
    <2>1. accu' = [accu EXCEPT ![a] = Empty] /\ seen' = [seen EXCEPT ![a] = {}]
      BY <1>5 DEF Take
    <2>2. CASE a = j
      BY <1>1, <1>2, <2>1, <2>2 DEF Duty
    <2>3. CASE a # j
      BY <1>1, <2>1, <2>3 DEF Duty
    <2> QED
      BY <2>2, <2>3
  <1>6. CASE juksautin_take_error
    <2>1. accu' = accu /\ seen' = [seen EXCEPT !["err"] = {}]
      BY <1>6 DEF juksautin_take_error
    <2> QED
      BY <1>1, <2>1 DEF Duty
  <1>7. CASE juksautin_set_target \/ SaveTarget \/ UNCHANGED vars
    <2>1. UNCHANGED <<accu, seen>>
      BY <1>7 DEF juksautin_set_target, SaveTarget, accuVars, vars
    <2> QED
      BY <2>1 DEF Duty
  <1> QED
    BY <1>3, <1>4, <1>5, <1>6, <1>7 DEF Next

\* The ratio of a sum short of its count, without % and \div.
LEMMA Ratio ==
    ASSUME NEW acc \in Accumulator, acc.sum < acc.count, acc.sum * COUNT_MOD < SUM_MOD
    PROVE  \A q \in to_ratio16(acc) :
              /\ q * acc.count <= acc.sum * COUNT_MOD
              /\ acc.sum * COUNT_MOD < (q + 1) * acc.count
  <1> DEFINE s == acc.sum
             c == acc.count
             n == s * COUNT_MOD
             q == n \div c
  <1>1. s \in Nat /\ c \in Nat /\ c > 0 /\ COUNT_MOD \in Nat /\ COUNT_MOD > 0
    BY Sizes DEF Accumulator, Word
  <1>2. n \in Nat /\ n % SUM_MOD = n
    BY <1>1, Sizes
  <1>3. to_ratio16(acc) = {q % COUNT_MOD}
    BY <1>1, <1>2 DEF to_ratio16, Divide
  <1>4. q \in Nat /\ c * q <= n /\ n < c * q + c
    BY <1>1, <1>2, Quotient
  <1>5. s < c
    OBVIOUS
  <1> HIDE DEF s, c, q
  <1>6. n < c * COUNT_MOD
    BY ONLY <1>1, <1>5
  <1> HIDE DEF n
  <1>7. c * q < c * COUNT_MOD
    BY ONLY <1>1, <1>2, <1>4, <1>6
  <1>8. q < COUNT_MOD
    BY ONLY <1>1, <1>4, <1>7
  <1>9. q % COUNT_MOD = q
    BY <1>1, <1>4, <1>8
  <1>10. q * c = c * q /\ (q + 1) * c = c * q + c
    BY ONLY <1>1, <1>4
  <1> QED
    BY <1>3, <1>4, <1>9, <1>10 DEF s, c, n

\* The duty cycle is exact to the last bit if one period at least did not pull
\* (juksautin.c:165-170, 205-216).
THEOREM DutyShown == Spec => DutyExact
  <1> DEFINE d == accu["juksautin"]
             x == seen["juksautin"]
             Shows == Take("juksautin") /\ 0 \in x =>
                        /\ reply' * d.count <= d.sum * COUNT_MOD
                        /\ d.sum * COUNT_MOD < (reply' + 1) * d.count
  <1>1. Init => Duty
    BY ChannelAccus DEF Init, Duty, Exact, Empty
  <1>2. Inv /\ Duty => Shows
    <2> SUFFICES ASSUME Inv, Duty, Take("juksautin"), 0 \in x
                 PROVE  /\ reply' * d.count <= d.sum * COUNT_MOD
                        /\ d.sum * COUNT_MOD < (reply' + 1) * d.count
      OBVIOUS
    <2>1. Fair(d, "juksautin", x)
      BY ChannelAccus DEF Inv, AccuInv
    <2>2. d \in Accumulator
      BY <2>1 DEF Fair
    <2>3. d.sum * COUNT_MOD < SUM_MOD
      <3> DEFINE s == d.sum
                 m == accu_bool_sum_max + 1
      <3>1. m \in Nat /\ m * COUNT_MOD < SUM_MOD /\ COUNT_MOD \in Nat /\ SUM_MOD \in Nat
        BY Maxima, Sizes
      <3>2. s \in Nat /\ s <= m
        BY <2>1, Maxima, Sizes DEF Fair, Headroom, MaxOf, TopOf, Accumulator
      <3> HIDE DEF s, m
      <3>3. s * COUNT_MOD <= m * COUNT_MOD /\ s * COUNT_MOD \in Nat /\ m * COUNT_MOD \in Nat
        BY ONLY <3>1, <3>2
      <3>4. s * COUNT_MOD < SUM_MOD
        BY ONLY <3>1, <3>3
      <3> QED
        BY <3>4 DEF s
    <2>4. reply' \in to_ratio16(d)
      BY DEF Take
    <2>5. d.sum < d.count
      BY DEF Duty, Exact
    <2> HIDE DEF d, x
    <2> QED
      BY <2>2, <2>3, <2>4, <2>5, Ratio
  <1>3. Inv /\ Duty =>
          [LET a == accu["juksautin"]
           IN  Take("juksautin") /\ 0 \in seen["juksautin"] =>
                  reply' * a.count <= a.sum * COUNT_MOD /\ a.sum * COUNT_MOD < (reply' + 1) * a.count]_vars
    BY <1>2
  <1> QED
    BY <1>1, <1>3, DutyStep, Invariance, PTL DEF Spec, DutyExact

=============================================================================
