----------------------------- MODULE MCMainLoop -----------------------------
EXTENDS MainLoop

\* The linker puts serial_rx_b right behind serial_rx_a.
AfterValue == [b \in Buffers |-> IF b = "a" THEN "b" ELSE None]
=============================================================================
