------------------------------- MODULE MCAscii ------------------------------
(* Lines for the real buffers of 80 characters. *)
EXTENDS Ascii

Key(name, width) == [name |-> name, width |-> width, value |-> None, size |-> 0, stop |-> 0]
Assign(name, width, value, size) ==
    [name |-> name, width |-> width, value |-> value, size |-> size, stop |-> size]
Spoiled(name, width, size, stop) ==
    [name |-> name, width |-> width, value |-> 9, size |-> size, stop |-> stop]
Line(words) ==
    [words |-> words, end |-> "lf", letter |-> words[1].name \notin {"k5_raw", ""}, timed |-> FALSE]

Led == Key("led", 3)
Now == Key("now", 3)
GmtoffTurn == Key("gmtoff_turn", 11)
Foo == Key("foo", 3)

\* What juksutil sends to set the clock, at a given or at the current time.
Sync ==
    Line(<<Assign("time", 4, 1, 10), Assign("gmtoff", 6, 1, 6),
           Assign("next_turn", 9, 1, 10), Assign("gmtoff_turn", 11, 1, 6)>>)
Juksutil == {Sync, [Sync EXCEPT !.timed = TRUE], Line(<<Now>>)}

\* What a user may send: up to three words, good and bad.
Keys == {Led, Now, GmtoffTurn, Key("version", 7), Key("k5_raw", 6)}
Pool == Keys \cup
    {Foo, Assign("foo", 3, 1, 1), Assign("led", 3, 1, 1), Assign("gmtoff", 6, 2, 4), Assign("gmtoff", 6, 1, 4), Assign("now", 3, 1, 1),
     Spoiled("led", 3, 5, 1), Spoiled("target", 6, 4, 2), Spoiled("gmtoff", 6, 0, 0)}
Talk ==
    {Line(<<a>>) : a \in Pool} \cup {Line(<<a, b>>) : a, b \in Pool}
    \cup {Line(<<a, b, c>>) : a, b, c \in Keys \ {Led}}

\* Errors of each kind at each place, up to the end of a full line and beyond.
Places ==
    {Line(<<Spoiled("gmtoff", 6, n, n - 1)>>) : n \in 1 .. 73}
    \cup {Line(<<Assign("gmtoff", 6, 1, n), Spoiled("led", 3, 1, 0)>>) : n \in 20 .. 68}
    \cup {Line(<<Assign("gmtoff", 6, 1, n), Foo>>) : n \in 40 .. 68}

\* Not terminated, with a carriage return, empty (one begins with a NUL), and
\* with two spaces between words.
Odd ==
    {[Line(<<Led>>) EXCEPT !.end = "none"], [Sync EXCEPT !.end = "crlf"], Line(<<Key("help", 4)>>),
     Line(<<Key("", 0)>>), [Line(<<Key("", 0)>>) EXCEPT !.letter = TRUE],
     Line(<<Led, Key("", 0), Led>>)}

\* A value that nobody sends.
TornValues == {7}

SomeLines == Juksutil \cup Talk \cup Places \cup Odd
=============================================================================
