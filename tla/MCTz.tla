-------------------------------- MODULE MCTz --------------------------------
(* Every sorted table of up to four transitions at five times, with three     *)
(* offsets of which two types may share one.                                  *)
EXTENDS Tz, FiniteSets, FiniteSetsExt

Moments == {-4, 2, 5, 6, 9}
Offsets == {-2, 0, 3}

\* The elements of a set of numbers in order, from index 0 on.
Sorted(S) ==
    [k \in 0 .. Cardinality(S) - 1 |->
        CHOOSE x \in S : Cardinality({y \in S : y < x}) = k]
Tables(n, typecnt) ==
    {[timecnt |-> Cardinality(S), typecnt |-> typecnt, transition |-> Sorted(S), type |-> ty, info |-> i] :
        S \in kSubset(n, Moments), ty \in [0 .. n - 1 -> 0 .. typecnt - 1],
        i \in [0 .. typecnt - 1 -> Offsets]}
SomeZones == UNION {Tables(n, 2) : n \in 0 .. 4}
FixedZones == Tables(0, 1)
=============================================================================
