----------------------------- MODULE WallClock ------------------------------
(***************************************************************************)
(* What the real-time clock promises: a count of seconds, and a UTC offset *)
(* that is the rule's for the current time.  The rule survives a power     *)
(* cut, but for the one field that was being written.                      *)
(***************************************************************************)
EXTENDS ZoneRule

VARIABLES now, rule, offset

vars == <<now, rule, offset>>

Shows == Sane(rule', now') => offset' = Ref(rule', now')

OneFieldChanges == \E f \in Fields : \E w \in Word : rule' = [rule EXCEPT ![f] = w]

Init ==
    /\ now = UNIX_OFFSET
    /\ rule \in Rules
    /\ Sane(rule, now) => offset = Ref(rule, now)

SetTime == now' \in Word /\ UNCHANGED rule /\ Shows

Second == now' = (now + 1) % WORD /\ UNCHANGED rule /\ Shows

SetField == UNCHANGED now /\ OneFieldChanges /\ Shows

PowerCut == now' = UNIX_OFFSET /\ OneFieldChanges /\ Shows

Next == SetTime \/ Second \/ SetField \/ PowerCut

Spec == Init /\ [][Next]_vars
=============================================================================
