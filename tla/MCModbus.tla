------------------------------ MODULE MCModbus ------------------------------
(* Words of five bits instead of sixteen, bytes of two coils: the rounding of  *)
(* a number of coils wraps at 31.                                              *)
EXTENDS Modbus

Frame(function, addr, count, bytes, data, len) ==
    [unit |-> Server, function |-> function, addr |-> addr, count |-> count, bytes |-> bytes,
     data |-> data, len |-> len, crc |-> TRUE]
Read(function, addr, count) == Frame(function, addr, count, 0, <<>>, 8)
WriteOne(function, addr, value) == Frame(function, addr, 0, 2, <<value>>, 8)
WriteCoils(addr, count, data) == Frame(15, addr, count, Len(data) \div 2, data, 9 + Len(data) \div 2)
WriteRegisters(addr, data) == Frame(16, addr, Len(data), 2 * Len(data), data, 9 + 2 * Len(data))

On == [k \in 1 .. 2 |-> 1]

\* What juksutil sends: the time and the rule, and a read of time and offset.
Sync(k) == WriteRegisters(0, [n \in 1 .. 8 |-> n + 8 * k])
Juksutil == {Sync(1), Sync(2), Read(3, 0, 4)}

\* Every function, well used and not: misaligned, cut in the middle of a value,
\* beyond the last command, too long, of the wrong length.
Others ==
    {Read(1, 0, 2), Read(1, 0, 3), Read(1, 0, 28), Read(1, 0, 31), Read(2, 0, 1),
     Read(3, 1, 2), Read(3, 0, 3), Read(3, 0, 6), Read(3, 0, 7), Read(4, 10, 5), Read(4, 13, 3),
     WriteOne(5, 0, 1), WriteOne(5, 1, 0), WriteOne(5, 2, 1),
     WriteOne(6, 8, 3), WriteOne(6, 2, 3),
     WriteCoils(0, 2, On), WriteCoils(0, 3, On \o On), WriteCoils(0, 31, <<>>), WriteCoils(0, 9, On),
     WriteRegisters(6, <<7, 8, 3>>), WriteRegisters(6, <<7, 8, 3, 4>>),
     WriteRegisters(3, <<4, 5>>), WriteRegisters(2, <<3, 4, 5>>),
     [WriteRegisters(2, <<3, 4>>) EXCEPT !.bytes = 5, !.len = 14],
     [WriteRegisters(2, <<3, 4>>) EXCEPT !.bytes = 2],
     Frame(7, 0, 0, 0, <<>>, 8), [Read(3, 0, 2) EXCEPT !.len = 9],
     [Sync(1) EXCEPT !.crc = FALSE], [WriteOne(6, 8, 5) EXCEPT !.unit = 2],
     Frame(3, 0, 0, 0, <<>>, 5), Frame(15, 0, 1, 0, <<>>, 8), Frame(16, 0, 1, 0, <<>>, 8)}

\* A value of one register and one of two that nobody sends.
TornValues == {<<31>>, <<31, 31>>}

SomeRequests == Juksutil \cup Others
=============================================================================
