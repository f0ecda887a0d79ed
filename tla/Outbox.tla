------------------------------- MODULE Outbox -------------------------------
(***************************************************************************)
(* What the sending half of the serial driver promises: a reply is queued, *)
(* then spoken byte by byte, each byte once and in order, and the line is  *)
(* released exactly when the last one has left.                            *)
(***************************************************************************)
EXTENDS Integers, Sequences

CONSTANT MaxSize
VARIABLES
    phase,  \* "none", "queued" or "speaking"
    size,   \* bytes of the reply
    said    \* positions of the bytes that have left

vars == <<phase, size, said>>

Init == phase = "none" /\ size = 0 /\ said = << >>

Queue ==
    /\ phase = "none"
    /\ phase' = "queued"
    /\ size' \in 1 .. MaxSize
    /\ said' = << >>

Begin ==
    /\ phase = "queued"
    /\ phase' = "speaking"
    /\ UNCHANGED <<size, said>>

Speak ==
    /\ phase = "speaking" /\ Len(said) < size
    /\ said' = Append(said, Len(said))
    /\ UNCHANGED <<phase, size>>

Finish ==
    /\ phase = "speaking" /\ Len(said) = size
    /\ phase' = "none"
    /\ UNCHANGED <<size, said>>

Next == Queue \/ Begin \/ Speak \/ Finish

Spec == Init /\ [][Next]_vars
=============================================================================
