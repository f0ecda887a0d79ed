-------------------------------- MODULE Ascii -------------------------------
(***************************************************************************)
(* The text interface, avr/src/interface/ascii.c with the scanners and     *)
(* printers of cmd_functions.c and the table generated from commands.tsv,  *)
(* and juksutil, which sends one line at a time and reads one line back    *)
(* (juksutil/src/sync_clock.c, main.c).  A line is worked on word by word, *)
(* and the power may be cut in between, or while a value is written to the *)
(* EEPROM.                                                                 *)
(***************************************************************************)
EXTENDS Integers, Sequences, FiniteSets

CONSTANTS
    TX_LEN, RX_LEN,  \* SERIAL_TX_LEN, SERIAL_RX_LEN
    VERSION_LEN,     \* characters of version[]
    MAX_SECOND,      \* nanoseconds of a second
    Lines,           \* what juksutil, or somebody at a terminal, may send
    Torn,            \* what a value may be whose bytes were only partly written
    None             \* of a word: no value; of an answer: no error

\* A word is KEY or KEY=VALUE, seen by the number of its characters.  value is
\* what the scanner makes of it, stop how many characters of it the scanner
\* accepts.  letter tells of a line whether its second character is one, timed
\* whether it has to be sent at a full second.
Words ==
    [name : STRING, width : Nat, value : Int \cup {None}, size : Nat, stop : Nat]
Texts == [words : Seq(Words), end : {"lf", "crlf", "none"}, letter : BOOLEAN, timed : BOOLEAN]

Type ==
    [led |-> "bool", dummy |-> "bool", time |-> "int32", gmtoff |-> "int32",
     next_turn |-> "int32", gmtoff_turn |-> "int32", target |-> "int16", k5_raw |-> "int16",
     accu |-> "int16", out |-> "int16", error |-> "int16", ratio |-> "int16",
     version |-> "version", now |-> "now"]
Commands == DOMAIN Type
Settings == {"led", "dummy", "time", "gmtoff", "next_turn", "gmtoff_turn", "target"}
Persistent == {"gmtoff", "next_turn", "gmtoff_turn", "target"}
Initial == [s \in Settings |-> 0]

\* The characters a printer writes, or would write if there were room for them.
BUFLEN_MAX == 255
Printed(name, room) ==
    CASE Type[name] = "bool" -> {IF room >= 1 THEN 1 ELSE BUFLEN_MAX}
      [] Type[name] = "int16" -> 1 .. 6
      [] Type[name] = "int32" -> 1 .. 11
      [] Type[name] = "version" -> {VERSION_LEN}
      [] Type[name] = "now" -> IF room >= 25 THEN {24} ELSE {BUFLEN_MAX}

\* The error messages that name a place, by their length, and the others.
Located ==
    [unknown |-> 15, short |-> 32, readonly |-> 12, digit |-> 11, allowed |-> 32]
Plain == {"unterminated", "expecting", "overlong"}

ASSUME AsciiAssumption ==
    /\ TX_LEN \in Nat /\ TX_LEN >= 41 /\ RX_LEN \in Nat
    /\ None \notin DOMAIN Located \cup Plain
    /\ VERSION_LEN \in Nat /\ MAX_SECOND \in Nat \ {0}
    /\ Lines \subseteq Texts /\ Torn \subseteq Int
    /\ \A l \in Lines : \A k \in DOMAIN l.words :
          LET w == l.words[k]
          IN  w.stop <= w.size /\ (w.name \in Commands => w.width <= 11)

VARIABLES
    settings,  \* what each setter was last given
    pc,        \* "idle", "asleep", "sent", "working", "answered", or "silent"
    line,
    done,      \* words of the line worked on
    buf,       \* and where the next one starts
    out,       \* characters of the answer, a space after each value
    shown,     \* the values in it: of which word, and whether whole
    error,     \* None, or the message
    e_pos,     \* and its place in the line
    verdict    \* what juksutil made of it: "waiting", "ok", "failed"

answerVars == <<out, shown, error, e_pos>>
lineVars == <<line, done, buf>>
vars == <<settings, pc, lineVars, answerVars, verdict>>

Init ==
    /\ settings = Initial
    /\ pc = "idle" /\ line = None /\ done = 0 /\ buf = 0
    /\ out = 0 /\ shown = <<>> /\ error = None /\ e_pos = 0
    /\ verdict = "failed"

-----------------------------------------------------------------------------
Size(w) == IF w.value = None THEN w.width ELSE w.width + 1 + w.size

\* Words are separated by one space.
TextLen(l) ==
    LET first[k \in 0 .. Len(l.words)] == IF k = 0 THEN 0 ELSE first[k - 1] + Size(l.words[k]) + 1
    IN  first[Len(l.words)] - 1
LineLen(l) == TextLen(l) + (CASE l.end = "none" -> 0 [] l.end = "lf" -> 1 [] l.end = "crlf" -> 2)
Overlong(l) == LineLen(l) > RX_LEN

Help(l) == Len(l.words) = 1 /\ l.words[1].name = "help" /\ l.words[1].value = None

Word == line.words[done + 1]

-----------------------------------------------------------------------------
(* The transmit buffer as location_aware_error leaves it: a character of   *)
(* the message or of "At n: ", a space, a caret, a NUL, or what it was.    *)
Char(text, i) == <<text, i>>
Space == <<"space", 0>>
Caret == <<"caret", 0>>
NUL == <<"NUL", 0>>
Old == <<"old", 0>>
AtLen(place) == IF place < 10 THEN 6 ELSE IF place < 100 THEN 7 ELSE 8

\* snprintf() of a text of n characters at a position, cut at the end.
snprintf(tx, pos, text, n) ==
    [i \in 0 .. TX_LEN - 1 |->
        IF i < pos \/ i > pos + n THEN tx[i]
        ELSE IF i = pos + n \/ i = TX_LEN - 1 THEN NUL
        ELSE Char(text, i - pos)]

Padded(place) ==
    [i \in 0 .. TX_LEN - 1 |-> IF i = place THEN Caret ELSE IF i < place + 2 THEN Space ELSE Old]

\* Behind the caret if there is room, else before it, else without a caret.
\* Variant: the NUL of the message before the caret stays.
location_aware_error_Cut(place, n) ==
    LET behind == place + 2
        first == snprintf(Padded(place), behind, "message", n)
        before == place - n - 1
        blank == [i \in 0 .. TX_LEN - 1 |-> Old]
    IN  IF behind < TX_LEN /\ n + behind < TX_LEN THEN first
        ELSE IF behind < TX_LEN /\ n + 1 <= place
             THEN snprintf([first EXCEPT ![place + 1] = NUL], before, "message", n)
             ELSE snprintf(snprintf(blank, 0, "at", AtLen(place)), AtLen(place), "message", n)
location_aware_error(place, n) ==
    LET behind == place + 2
        first == snprintf(Padded(place), behind, "message", n)
        before == place - n - 1
        blank == [i \in 0 .. TX_LEN - 1 |-> Old]
    IN  IF behind < TX_LEN /\ n + behind < TX_LEN THEN first
        ELSE IF behind < TX_LEN /\ n + 1 <= place
             THEN [snprintf([first EXCEPT ![place + 1] = NUL], before, "message", n) EXCEPT ![place - 1] = Space]
             ELSE snprintf(snprintf(blank, 0, "at", AtLen(place)), AtLen(place), "message", n)

-----------------------------------------------------------------------------
Send ==
    /\ pc = "idle"
    /\ \E l \in Lines : line' = l
    /\ pc' = IF line'.timed THEN "asleep" ELSE "sent"
    /\ verdict' = "waiting" /\ done' = 0 /\ buf' = 0
    /\ UNCHANGED <<settings, answerVars>>

\* nanosleep() refuses a whole second of nanoseconds, and juksutil gives up.
exact_timestamp ==
    /\ pc = "asleep"
    /\ \E tv_nsec \in 0 .. MAX_SECOND - 1 :
          pc' = IF MAX_SECOND - tv_nsec > MAX_SECOND - 1 THEN "silent" ELSE "sent"
    /\ UNCHANGED <<settings, lineVars, answerVars, verdict>>

Answer(message, place) ==
    /\ pc' = "answered" /\ error' = message /\ e_pos' = place
    /\ UNCHANGED <<settings, lineVars, out, shown, verdict>>

\* The main loop takes what has no letter in the second place for Modbus, where
\* its checksum is wrong.  What is a line is checked before its words are.
Receive ==
    /\ pc = "sent"
    /\ \/ /\ ~line.letter
          /\ pc' = "silent"
          /\ UNCHANGED <<settings, lineVars, answerVars, verdict>>
       \/ line.letter /\ Overlong(line) /\ Answer("overlong", 0)
       \/ /\ line.letter /\ ~Overlong(line)
          /\ \/ line.end = "none" /\ Answer("unterminated", 0)
             \/ line.end # "none" /\ TextLen(line) <= 0 /\ Answer("expecting", 0)
             \/ line.end # "none" /\ Help(line) /\ Answer(None, 0)
             \/ /\ line.end # "none" /\ TextLen(line) > 0 /\ ~Help(line)
                /\ pc' = "working"
                /\ UNCHANGED <<settings, lineVars, answerVars, verdict>>

Working == pc = "working" /\ done < Len(line.words)
Advance == done' = done + 1 /\ buf' = buf + Size(Word) + 1 /\ UNCHANGED line

\* The space after a value has to fit, too.  Variants: a byte more is allowed;
\* the end is computed in 8 bits.
Fits_Exactly(end) == end <= TX_LEN
Fits(end) == end < TX_LEN
EndOf_Narrow(start, wrote) == start + ((wrote + 1) % 256)
EndOf(start, wrote) == start + wrote + 1

process_read ==
    /\ Working /\ Word.value = None
    /\ \/ Word.name \notin Commands /\ Answer("unknown", buf)
       \/ Word.name \in Commands /\ ~Fits(out + Word.width + 1) /\ Answer("short", buf)
       \/ /\ Word.name \in Commands /\ Fits(out + Word.width + 1)
          /\ LET start == out + Word.width + 1
             IN  \E wrote \in Printed(Word.name, TX_LEN - start) :
                    \/ ~Fits(EndOf(start, wrote)) /\ Answer("short", buf)
                    \/ /\ Fits(EndOf(start, wrote))
                       /\ out' = EndOf(start, wrote)
                       /\ shown' = Append(shown, [word |-> done + 1, whole |-> wrote < TX_LEN - start])
                       /\ Advance
                       /\ UNCHANGED <<settings, pc, error, e_pos, verdict>>

Set ==
    /\ settings' = [settings EXCEPT ![Word.name] = Word.value]
    /\ Advance
    /\ UNCHANGED <<pc, answerVars, verdict>>

\* An integer is refused where the scanner stopped, a switch as a whole.
Scans(w) == w.size > 0 /\ w.stop = w.size
BadValue == IF Type[Word.name] = "bool" THEN "allowed" ELSE "digit"
BadPlace == buf + Word.width + 1 + (IF Type[Word.name] = "bool" THEN 0 ELSE Word.stop)

\* Variant: what precedes the bad character is taken for the value.
process_write_Prefix ==
    /\ Working /\ Word.value # None
    /\ \/ Word.name \notin Commands /\ Answer("unknown", buf)
       \/ Word.name \in Commands \ Settings /\ Answer("readonly", buf)
       \/ Word.name \in Settings /\ Set
\* Variant: a value that cannot be scanned is passed over.
process_write_Skip ==
    /\ Working /\ Word.value # None
    /\ \/ Word.name \notin Commands /\ Answer("unknown", buf)
       \/ Word.name \in Commands \ Settings /\ Answer("readonly", buf)
       \/ /\ Word.name \in Settings /\ ~Scans(Word)
          /\ Advance
          /\ UNCHANGED <<settings, pc, answerVars, verdict>>
       \/ Word.name \in Settings /\ Scans(Word) /\ Set
process_write ==
    /\ Working /\ Word.value # None
    /\ \/ Word.name \notin Commands /\ Answer("unknown", buf)
       \/ Word.name \in Commands \ Settings /\ Answer("readonly", buf)
       \/ Word.name \in Settings /\ ~Scans(Word) /\ Answer(BadValue, BadPlace)
       \/ Word.name \in Settings /\ Scans(Word) /\ Set

\* The last space becomes the end of the answer; without values it is "OK".
Finish ==
    /\ pc = "working" /\ done = Len(line.words)
    /\ Answer(None, 0)

\* A line or its answer does not get through.
Lose ==
    /\ pc \in {"sent", "answered"}
    /\ pc' = "silent"
    /\ UNCHANGED <<settings, lineVars, answerVars, verdict>>

\* juksutil reads one line, or its alarm ends it.
Conclude ==
    /\ pc \in {"answered", "silent"}
    /\ verdict' = IF pc = "answered" /\ error = None THEN "ok" ELSE "failed"
    /\ pc' = "idle" /\ line' = IF verdict' = "ok" THEN line ELSE None
    /\ done' = 0 /\ buf' = 0 /\ out' = 0 /\ shown' = <<>> /\ error' = None /\ e_pos' = 0
    /\ UNCHANGED settings

\* The setter under way may be writing its value to the EEPROM, byte by byte and
\* only the bytes that differ.  A line that is not sent yet still will be.
InEeprom == [s \in Settings |-> IF s \in Persistent THEN settings[s] ELSE Initial[s]]
Writing ==
    /\ Working /\ Word.value # None
    /\ Word.name \in Persistent /\ Scans(Word)
    /\ settings[Word.name] # Word.value
PowerCut ==
    /\ \/ settings' = InEeprom
       \/ /\ Writing
          /\ \E value \in Torn : settings' = [InEeprom EXCEPT ![Word.name] = value]
    /\ pc' = IF pc \in {"idle", "asleep"} THEN pc ELSE "silent"
    /\ UNCHANGED <<lineVars, answerVars, verdict>>

Next ==
    \/ Send \/ exact_timestamp \/ Receive \/ process_read \/ process_write \/ Finish
    \/ Lose \/ Conclude \/ PowerCut

Spec == Init /\ [][Next]_vars

-----------------------------------------------------------------------------
TypeOK ==
    /\ settings \in [Settings -> Int]
    /\ pc \in {"idle", "asleep", "sent", "working", "answered", "silent"}
    /\ line \in Lines \cup {None}
    /\ done \in Nat /\ (pc = "working" => done <= Len(line.words))
    /\ buf \in Nat
    /\ out \in Nat
    /\ shown \in Seq([word : Nat, whole : BOOLEAN])
    /\ error \in {None} \cup DOMAIN Located \cup Plain
    /\ e_pos \in Nat
    /\ verdict \in {"waiting", "ok", "failed"}

\* The assignments a line still asks for after n words.
Unknown == [name |-> "unknown", values |-> {}]
Abandoned == [k \in {0} |-> Unknown]
Assignment(w) ==
    IF w.name \in Settings /\ Scans(w) THEN [name |-> w.name, values |-> {w.value}] ELSE Unknown
Wanted(l, n) ==
    IF ~l.letter \/ Overlong(l) \/ l.end = "none" THEN Abandoned
    ELSE [k \in {x \in n + 1 .. Len(l.words) : l.words[x].value # None} |-> Assignment(l.words[k])]

\* The same promise as over Modbus: the settings of a line are assigned in
\* order, a power cut spoils at most the one being assigned, and juksutil is told
\* of success only when all of them were (ascii.c:234-258, sync_clock.c:69-100).
Plan ==
    CASE pc \in {"asleep", "sent", "working"} -> Wanted(line, done)
      [] pc = "silent" \/ (pc = "answered" /\ error # None) -> Abandoned
      [] OTHER -> [k \in {} |-> Unknown]
Told == INSTANCE Assignments WITH plan <- Plan
ImplementsAssignments == Told!Spec

\* After a success the device keeps what the line last gave each setting,
\* through power cuts, as far as it is kept in EEPROM.
LastOf(l, k) ==
    \A j \in k + 1 .. Len(l.words) :
        l.words[j].name = l.words[k].name => l.words[j].value = None
SuccessKept ==
    pc = "idle" /\ verdict = "ok" =>
        \A k \in 1 .. Len(line.words) :
            LET w == line.words[k]
            IN  w.value # None =>
                    /\ w.name \in Settings
                    /\ w.name \in Persistent /\ LastOf(line, k) => settings[w.name] = w.value

\* A good answer has every value the line asked for, in its order, and none of
\* them is cut (ascii.c:56-91, cmd_functions.c:113-141, misc.c:31-41).
Reads(l, n) == {k \in 1 .. n : l.words[k].value = None}
Shows(values, l, n) ==
    /\ {values[k].word : k \in 1 .. Len(values)} = Reads(l, n)
    /\ \A j, k \in 1 .. Len(values) : j < k => values[j].word < values[k].word
    /\ \A k \in 1 .. Len(values) : values[k].whole
AnswerComplete ==
    pc = "answered" /\ error = None /\ ~Help(line) => Shows(shown, line, Len(line.words))

\* An answer, its values and the newline in place of the last space, never
\* passes the end of the buffer, and serial_tx_line finds its NUL
\* (ascii.c:74-90, serial.c:91-111).
AnswerFits == out < TX_LEN

\* An error message is sent whole wherever in the line the error is: next to a
\* caret at its place, or with that place as a number (ascii.c:93-144).
Visible(tx, i) == \A j \in 0 .. i : tx[j] # NUL
ErrorWhole(place, n) ==
    LET tx == location_aware_error(place, n)
    IN  /\ \E p \in 0 .. TX_LEN - n :
              /\ \A i \in 0 .. n - 1 : tx[p + i] = Char("message", i)
              /\ Visible(tx, p + n - 1)
        /\ \/ tx[place] = Caret /\ Visible(tx, place)
           \/ \A i \in 0 .. AtLen(place) - 1 : tx[i] = Char("at", i)
        /\ ~Visible(tx, TX_LEN - 1)
ErrorShown ==
    pc = "answered" /\ error \in DOMAIN Located => ErrorWhole(e_pos, Located[error])
=============================================================================
