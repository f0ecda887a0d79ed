------------------------------- MODULE Inbox --------------------------------
(***************************************************************************)
(* What the receiving half of the serial driver promises to the main loop: *)
(* a mailbox for one frame.  Characters are collected in the order they    *)
(* are heard, a frame that ends while the mailbox is occupied is dropped,  *)
(* and a taken frame changes only by the hand of its holder until it is    *)
(* released.                                                               *)
(***************************************************************************)
EXTENDS Integers, Sequences

CONSTANTS
    Size,   \* characters a frame can have
    Char, NUL,
    Spill   \* may taking a frame of Size characters spoil the next one?

VARIABLES
    hearing,  \* characters of the frame being heard
    over,     \* has it become too long
    inbox     \* << >>, or one frame

vars == <<hearing, over, inbox>>

Frame == [text : Seq(Char \cup {NUL}), over : BOOLEAN, held : BOOLEAN]

Init == hearing = << >> /\ over = FALSE /\ inbox = << >>

Hear(c) ==
    /\ hearing' = IF Len(hearing) < Size THEN Append(hearing, c) ELSE hearing
    /\ over' = (Len(hearing) = Size)
    /\ UNCHANGED inbox

End ==
    /\ hearing # << >>
    /\ hearing' = << >> /\ over' = FALSE
    /\ inbox' = IF inbox = << >>
                THEN <<[text |-> hearing, over |-> over, held |-> FALSE]>>
                ELSE inbox

Take ==
    /\ inbox # << >>
    /\ ~inbox[1].held
    /\ inbox' = [inbox EXCEPT ![1].held = TRUE]
    /\ \/ UNCHANGED hearing
       \/ /\ Spill /\ Len(inbox[1].text) = Size /\ ~inbox[1].over /\ hearing # << >>
          /\ hearing' = [hearing EXCEPT ![1] = NUL]
    /\ UNCHANGED over

Edit ==
    /\ inbox # << >>
    /\ inbox[1].held
    /\ \E i \in DOMAIN inbox[1].text : inbox' = [inbox EXCEPT ![1].text[i] = NUL]
    /\ UNCHANGED <<hearing, over>>

Release ==
    /\ inbox # << >>
    /\ inbox[1].held
    /\ inbox' = << >>
    /\ UNCHANGED <<hearing, over>>

Next == (\E c \in Char : Hear(c)) \/ End \/ Take \/ Edit \/ Release

Spec == Init /\ [][Next]_vars
=============================================================================
