---------------------------- MODULE MCJuksautin -----------------------------
(* Ten-bit samples become two bits, 16-bit words three. *)
EXTENDS Juksautin

\* Extreme samples on the fast channel, so that sums are as large and means as
\* far apart as they get.
Measured ==
    [inputs |-> [c \in Channels |-> CASE c = 0 -> {0, 3} [] c = 2 -> {1} [] OTHER -> {3}],
     registers |-> {"k5_raw", "juksautin"},
     targets |-> {}]
\* Targets written while the error value goes up and down; the other channels
\* measure different values, so that a sample in the wrong accumulator shows.
Controlled ==
    [inputs |-> [c \in Channels |-> CASE c = 0 -> {0} [] c = 2 -> {1, 3} [] c = 3 -> {1} [] c = 4 -> {2} [] c = 8 -> {3}],
     registers |-> {"err"},
     targets |-> {1, 6}]
AllUses == {Measured, Controlled}

\* Nothing but the duty cycle is read.
DutyRead ==
    {[inputs |-> [c \in Channels |-> {0, 3}], registers |-> {"juksautin"}, targets |-> {}]}
=============================================================================
