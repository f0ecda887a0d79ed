# pumpunjuksautin: verification

Pumpunjuksautin ("pump trickster") is a small AVR controller that sits between a heat pump and its
outdoor sensor. It measures, makes the pump believe in a voltage other than the real one, keeps a
real-time clock with a time zone rule, and is commanded over a half-duplex RS-485 line in Modbus RTU
or in lines of text. `juksutil` is the program on the other end that sets the clock. This directory
holds TLA+ models of both, checked by TLC on small instances, and theorems about them checked by
TLAPS. All definitions are translated from the C source and from `avr/commands.tsv`; paths below are
relative to `src/`.

## 1. Inventory

| Component | Source | State it keeps | Operations | Talks to |
|---|---|---|---|---|
| Serial driver | `avr/src/serial.c`, compare match B of TIMER2 (`clock.c`) | two receive buffers and which is filled/held, receive index, `rx_state`, `tx_state`, send length and index, counters, direction of the line | 4 interrupt handlers; `serial_get_message`, `serial_free_message`, `serial_tx_line`, `serial_tx_bin`, `serial_is_transmitting` | UART and compare match B below, main loop above |
| Main loop | `avr/src/main.c` | none that lasts (position in `loop()`) | take a frame, choose an interface, free, send, sleep | driver, both interfaces |
| Clock | `avr/src/clock.c` | avr-libc time, tick counter, the rule in EEPROM and what is derived from it | tick interrupt; setters and getters of time, offset, next change | command functions |
| Measurement and pulldown | `avr/src/juksautin.c`, `avr/src/adc.c` | five accumulators, a peak, target, cycle, `juksautus` | `ADC_vect` and its handlers; taking an accumulator; target | command functions |
| Modbus interface | `avr/src/interface/modbus.c` | request and answer being built | eight functions, loops over coils or registers | command table |
| ASCII interface | `avr/src/interface/ascii.c` | the line (cut in place) and the answer | read, write, error message, help | command table; help sends by itself |
| Command table | `avr/commands.tsv`, `avr/generators/commands`, `avr/src/interface/cmd.h` | none | look-up by type and address or by name | `bsearch` |
| Command functions | `avr/src/cmd_functions.c`, `misc.c` | LED and dummy coil | scanners, printers, binary readers and writers | clock, juksautin |
| juksutil, synchronisation | `juksutil/src/sync_clock.c`, `main.c` | none | read the device's clock; set time and rule, in Modbus or text | libmodbus, serial port, device |
| juksutil, time zones | `juksutil/src/tz.c`, `mmap.c` | a mapped TZif file | find the next change of offset | file system |

The components interact by calls from the main loop downwards, by interrupts that change what the
main loop is reading, by the line (one master, any number of other stations), and by the EEPROM,
which outlives a power cut.

What is hard in them:

* **Interrupts between any two instructions of the main loop.** The driver has almost no critical
  sections: it relies on who may change which variable in which state. The start of a reply is a test
  and a call with interrupts enabled; the accumulators are taken, and the time and the
  target set, with interrupts disabled, since handlers use them at any moment.
* **Order.** A character, the silence after a frame and the timer's interrupt race; time and offset
  of one answer are two calls.
* **Limits.** An exactly full frame, an overflow marked `~0` in 8 bits, a 16-bit count and a 32-bit sum
  that wrap, a 16-bit `int` that carries an offset, a rounding that wraps at 65529 coils.
* **Failure.** Power cuts in the middle of an EEPROM word and between the words of a rule, requests and
  answers that get lost, commands of several assignments of which one fails.
* **Partial tables.** A zone without transitions, one that starts later, transitions that change nothing, files that
  are missing, empty, old or cut.
* **Progress.** A reply waits for a silence; `help` spins until its line is sent while it holds the
  receive buffer; the other stations owe nobody a silence.

What makes each component correct:

* *Serial driver*: the buffers never meet, a frame is delivered as heard or counted as lost, a reply is
  sent once, whole, on a free line, and is never forgotten.
* *Main loop*: a frame stays valid while it is handled, is always freed; a reply is composed only while
  the transmitter reads nothing.
* *Clock*: no tick lost; the offset shown is the rule's at any time, before and after a power cut.
* *Measurement*: a mean lies between its samples, and no arithmetic overflows on the way; the
  error value is the peak; a target that was acknowledged is used and stored.
* *Modbus*: settings are assigned whole, in order; success means all; an answer holds what was asked.
* *ASCII*: the same promise as Modbus, within the bounds of its buffers.
* *juksutil*: success is reported only when the device has the new rule; the next change it sends is the one
  in the zone file.

`PROJECT.json` lists every hazard with its line and the properties that would catch it.

## 2. Modules

```
Serial <- MainLoop <- MCMainLoop           Inbox, Outbox         abstract: reception, transmission
              ^---- MainLoopProof <- PoliteProof, InboxProof
ZoneRule <- WallClock                                            abstract: a clock with a rule
ZoneRule <- Clock <- MCClock               ClockProof
ZoneRule <- Tz <- MCTz                     TzProof
Juksautin <- MCJuksautin                   JuksautinProof
Assignments                                                      abstract: what a command promises
Modbus <- MCModbus                         ModbusProof
Ascii <- MCAscii                           AsciiProof
```

`A <- B`: B extends A, or has it as an instance. The two parts meet in `ZoneRule`: `Tz` shows that the rule `juksutil` sends means
the zone's offsets, `Modbus` and `Ascii` that a success means the words of the rule were assigned, and `Clock` that a
clock with these words shows what the rule means.

### Serial, MainLoop

`Serial` has one action per interrupt handler of `serial.c` (`TIMER2_COMPB_vect` with its two phases,
`USART_RX_vect`, `USART_UDRE_vect`, `USART_TX_vect`) and two for the hardware (`TimerMatch`, `ShiftDone`).
Handlers run with interrupts disabled, so each is one step. The variables have the names of the source;
`timer` is compare match B (off, armed, match pending); `udr`, `shift`, `txc` are the UART's data register,
shift register and transmit-complete flag, holding the *index* of a byte; `said`, `frames`, `chars` and
`led_flipped` (has the transmitter turned the LED away from its coil) are bookkeeping.

`MainLoop` adds the loop as a program counter, split wherever an interrupt can make a difference:

| `pc` | place |
|---|---|
| `idle` | `main.c:44-62`, around `sleep_mode` |
| `ascii`, `modbus`, `overlong`, `skip` | one branch of `loop()`, holding a frame |
| `submit` | before `serial_tx_line`/`serial_tx_bin` |
| `arm` | between `tx_state = true` and the test of `rx_state`, `serial.c:136-137` |
| `start` | between that test and `transmit_now` |
| `helpwait` | spinning in `process_help` |

An interface is seen by what it does to these variables: it may put NULs into the frame (`Tokenise`), write
the LED coil, print lines (`HelpLine`, `HelpWait`), and ask for a reply of some size. Sizes beyond the
transmit buffer occur too; the driver refuses and counts them.

What the model assumes of the hardware:

* The instructions at `arm` and `start` take less than a silence (14 bits at 9600 baud, `avr/CMakeLists.txt:47-51`, are 1.46 ms) and less than
  a byte (1 ms); one character can arrive there, no silence can elapse.
* `USART_UDRE_vect` is served before the byte before it has left.
* The receiver is off while the line is driven (`RE` is wired to `DE`).
* `serial_rx_b` lies right behind `serial_rx_a` (`AfterValue`), the layout the compiler's order of
  definition gives; the proofs hold for every layout. The NUL of an overflow lands 255 bytes behind the
  start of its buffer, outside both.

`Polite` says whether the others respect the line: nobody *begins* a frame while a reply is pending (a
frame under way may go on). That is how a Modbus master behaves, and no code in the firmware enforces it.

`Inbox` and `Outbox` are what the driver promises. `Inbox`: a text being heard, and at most one delivered
frame; a frame that ends is delivered, or dropped while another one is there; the receiver of a
delivered frame may only overwrite it with NULs. `Outbox`: a reply is queued, spoken byte by byte in order
from the first to the last, and over. The mappings are at the end of `MainLoop`.

### ZoneRule, WallClock, Clock

`ZoneRule` defines a rule (offset now, moment of change, offset then) and its reference meaning `Ref(r, t)`; `Sane`
excludes rules whose two offsets differ by more than a 16-bit `int` holds. `Clock` has the tick
interrupt, the setters (each writes its EEPROM word byte by byte, then calls `update_tzdata`), the getters, the two
getters of one Modbus read as two steps, and power cuts anywhere; a cut in a byte leaves any value in it.
`PseudoZone` and `unixy_dst` are the code's way to make avr-libc, which knows only a base zone and a
positive summer offset, follow an arbitrary change. `WallClock` is a clock that shows, at every time, the offset of a
rule of which commands change one field at a time.

### Juksautin

`ADC_vect` with `adc_channel_selection`, the juksautus accounting and the channel's handler are one step; `adc.h:10-12` demands
that a handler returns before the next conversion ends (104 us). Taking an accumulator and converting it is one step,
since `take_accu` disables interrupts and the rest is local (the mutant `Take_Unlocked` is what would happen otherwise).
`juksautin_set_target` is a step for the word in RAM, written with interrupts disabled, and one for each byte of EEPROM; a power cut
in a byte leaves any value in it. `use` is how the unit is used, chosen at the start for good: what its channels
measure, which registers are read and which targets written. Division by zero (a register read twice within one cycle of 16
conversions) returns anything. `seen` and `asked` are history.

### Modbus, Assignments

`Modbus` is one request at a time from a master: it is sent, received or lost, refused or worked on
one object per step (a coil, or a value of one or two registers), answered, and the answer is read or
lost. The command table is `commands.tsv`. Getters are abstract: the answer holds pairs of a command and a part.
Setters keep the objects they were given; what they do with them is in `Clock` and `Juksautin`, where the EEPROM is
written byte by byte. Here an EEPROM write is one step that the power may cut: `PowerCut` either leaves the settings as they are or
lets the one to be written next hold anything (`Writing`, `Torn`), the bytes of the write being the concern of those two modules.
The checksum is a field that is right or wrong. `Assignments` is the promise: the settings
of a command are assigned in the order of their addresses; those made are a prefix of those asked for; a cut may `Spoil` the
one being written, no other, and ends the command; success is told only when all were made. A request whose bit count wraps the rounding carries no bits for its
coils; what is written from behind the data is then any bit.
Not in it: an answer that comes after the master gave up (libmodbus waits 0.5 s, the device answers within
0.1 s), and other masters.

### Ascii

`Ascii` is the other way to give commands: one line at a time from `juksutil` (or from somebody at a terminal), worked on
word by word, with power cuts, in between or in the middle of an EEPROM write as in `Modbus`, and lines and answers that get lost. `Receive` is what the main loop and
`ascii_interface_read` (`ascii.c:190-228`) check of the line as a whole; `process_read` and `process_write` each do one
word; `Finish` ends the answer; `exact_timestamp` is the sleep of `juksutil` to the next full second, with the one
instant at which `nanosleep` refuses. A word is its command, the characters it has, the value its scanner finds and how
many of them it accepts; `buf` is where the next word starts, `out` how far the answer goes, and `shown` lists the values in
it. `Printed` says how much each printer of `cmd_functions.c` and `misc.c` may write into the room it is given, the
"would not fit" of each in its own way (`0xFF`, a `strlcpy` that tells the length it wanted). The error
message with its caret is modelled character by character (`location_aware_error`), since whether it stays whole is the question.
`ImplementsAssignments` is the promise of `Modbus`, word for word.
One line is finished before the next is sent; `help` is an answer of one line here, its sending by itself is in `MainLoop`.

### Tz

`Tz` is one look-up of `juksutil show-transition` or `sync-time`: `mmap_open` with its error paths, the check of the version,
the binary search as one action per halving (`tz.c:142-152`), the two entries it ends with (`populate`), and the clean-up
`mmap_close` that GLib runs on every return. The state is the search's interval, what the caller's variable holds, and how often
the descriptor was closed. `RuleOf` is how `sync_clock.c` puts the result into three words. `Observes` is the reference: the
offset of the last transition not later than a time, or the first type's. Restrictions: transitions fit a word (before 2106), as
the device's words do; the zone's rule in text behind the table is not read by the code either.
`Known` is the precondition of `RuleRight`: the time asked for is not before the first transition, and a zone without
transitions is not west of Greenwich; `gap` shows what happens there.

## 3. Runs

Every passing run explores all states; deadlock is checked (the timer, the ADC or the bus can always go on). Numbers of distinct
states are rounded.

| Run | Asks | Shows |
|---|---|---|
| `busy` | stations that talk whenever they like, with the fairness below | `BuffersApart`, `FrameKept`, `SilenceTimed`, `NoLostStart`, `FramesCounted`, that reception implements `Inbox`; a reply gets out (`ReplySent`), a frame is freed (`FrameFreed`), the line is found free (`LineFound`) |
| `polite` | nobody begins a frame while a reply is pending | a reply is composed while nothing is read from it (`ReplyOwned`), bytes leave on a driven line only (`LineDriven`), the line is taken only after two silences (`ListenFirst`), and transmission implements `Outbox` |
| `rule` | setters byte by byte, ticks and power cuts | no tick lost (`TicksCounted`), derived data is that of the EEPROM (`RuleInForce`), the clock implements `WallClock` |
| `control` | extreme samples, registers read at any time; the target set at any time, power cuts, in the middle of an EEPROM byte too | means stay within their samples (`MeanFair`), no conversion overflows (`NoOverflow`), what is read is such a mean (`MeanShown`); the duty cycle read is exact to the last bit if one period did not pull (`DutyExact`); the target in use is whole and the one asked for, and between commands the one saved (`TargetKept`); `ErrorPeak`; every channel measured again and again (`AllMeasured`) |
| `master` | requests of every function, good and bad, losses, power cuts, in the middle of an EEPROM write too | `SuccessKept`, `AnswerMatches`, `AnswerFits`, and that the interface implements `Assignments` |
| `zone` | every table of up to four transitions, every kind of file, times before, at and after each | `SearchSound`, `RuleRight`, `FileClosed`, and the look-up ends (`Ends`) |
| `line` | lines of up to three words, good and bad, errors at each place, losses, power cuts, in the middle of an EEPROM write too | `SuccessKept`, `AnswerComplete`, `AnswerFits`, `ErrorShown`, and that the interface implements `Assignments` |

Five runs show where the code does something else than it says:

* `full` (`FramesIntact`): `serial_get_message` terminates the frame in place. A frame of exactly 80
  characters is accepted as good, and its NUL is the first character of the other buffer, where the next frame may be
  arriving. `busy` shows, and `InboxRefined` proves, that nothing else ever happens to a frame (`Spill` of `Inbox`); with a
  layout in which neither buffer lies right behind the other nothing does at all (`IntactWhereApart`).
* `shout` (`ListenFirst`): a character that arrives between the test of `rx_state` and `transmit_now` does not keep the
  transmitter quiet. Never on a polite line (`polite`, and `ListensFirst` proved), and on any line at most the first character of
  a frame is talked over, and only by the start from the main loop (`TalksOverOne`).
* `pair` (`PairConsistent`): a tick at the moment of the change of offset, between the two getters of one read, makes `juksutil` show a
  time that is wrong by the change. No other moment does (`PairMostlyRight`).
* `duty` (`DutyFull`): an output that pulled in every period has the ratio 65536/65536, which the 16-bit result cuts to 0: a
  duty cycle of 100 % reads as none. `DutyExact` (`control`, proved as `DutyShown`) says that every lower ratio is exact.
* `gap` (`OffsetShown`): in a zone without transitions the type in force is read from behind an empty table. The byte there
  is 0 for offsets of 0 or more, and the first type is taken by luck; west of Greenwich it is 255, and the
  offset is read far outside the table.

Other defects met while reading, described by the models but without a run:

* Driver: when the silence timer's interrupt starts the reply between `serial.c:136` and 137, the test succeeds too and
  `transmit_now` is called twice: the LED is toggled three times in all and stays inverted until the next write. After the
  race of `shout` the timer runs while the reply is sent, so that the second silence starts it once more; the end is tested for
  equality (`serial.c:264`) and the index is already there, so the transmitter goes on until the index has wrapped (why
  `ImplementsOutbox` is stated of the polite line).
* Clock: `unixy_dst` returns a 16-bit `int`, so offsets 32768 s or more apart come out wrong (`Near` in `ZoneRule`;
  `ImplementsWallClock` is about the others).
* Measurement: a register read twice within a cycle of the ADC is divided by zero (`Divide`); a power cut while a target is saved
  leaves one that nobody asked for, and the next start uses it.
* Modbus: a write of 65529 coils or more has its length check wrapped (`Carried`); a failed read of input registers has emptied
  the accumulators before the failing one.
* ASCII: `k5_raw` on its own and an empty line have no letter in the second place, are taken for Modbus and never answered;
  unsigned words from 32768 on are printed as negative numbers (`cmd.h:55` has it as a TODO).
* `juksutil`: at an exact second `nanosleep` is asked for a whole second of nanoseconds and refuses, so nothing is sent
  (`exact_timestamp`; to the properties that is a command that failed); a caret in the first column is not recognised as an error (`main.c:165`); nothing flushes the port,
  so a late answer or a line of help is read by the next command as its own.
* Zones: before the first transition of a table its first entry is taken for the one in force; a transition that keeps the
  offset hides the next one, which does change it (`RuleRight` promises the offsets up to the second transition only);
  a file cut in its second table is a success with words nobody wrote; the descriptor of an empty file is closed twice
  (`FileClosed` is about every other file).

### Bounds

* Driver: buffers of 2 (reception) and 4 (transmission) characters, `buflen_t` of 8 values: an empty, a partial, a full and
  an overflowing frame, and an index that wraps, all occur. Two characters, of which one is a letter (a letter, or
  none, decides the route; content is compared by `Inbox`). The others send 3 characters in all (6 on the polite
  line): enough for a frame held, a frame dropped and a third being heard, and for one that overflows. One line of help;
  replies of 0, 3 and a refused 5 bytes (and of 4, a full buffer, on the polite line).
  The proofs have no such bounds.
* Clock: EEPROM words of two bytes of 4 values, an `int` of 8 values, a year 2000 at 2, 2 ticks per second,
  offsets of both signs, a moment of change and none. The difference of two offsets wraps, and there are rules that are not `Sane`.
  `LastTime` ends the observation shortly before the word wraps (in the year 2136).
* Measurement: samples of 4 values, counts of 8, sums of 64: each of the two reasons for halving occurs, at nearly the
  smallest sizes that fulfil the assumption on the constants. The unit is used in one of two ways (`AllUses`): one reads the means and the duty cycle
  of extreme samples, the other writes two targets and reads the error value while the slow channels measure different values.
  What is read and what is written share no variable but `target`, which the proofs take as arbitrary.
* Modbus: words of 32 values and 2 coils per byte, so that the rounding wraps at 31 coils; a transmit buffer of 16; a torn word is one value no request carries; 35 requests
  (`MCModbus`), among them both that `juksutil` sends, and each way to be misaligned, too long, cut or unknown.
* ASCII: the real buffers of 80 characters. What `juksutil` sends; every line of one and two words of fourteen, good and bad, and
  every line of three keys that are read, so that the answer runs past the buffer at each of its checks; a torn value nobody wrote; errors with a message behind the
  caret, before it and without one, at each place up to the end of a full line. A second has two nanoseconds: one at which the
  sleep is refused, one at which it is not.
* Zones: words of 16 values, every sorted table of up to four transitions at five moments (one before 1970), two types and three offsets
  of both signs, five times asked for. Four transitions make the search halve twice in either direction. `Stray` is what may be found
  where there is no table.

### Fairness

`FairSpec` (`MainLoop`): weak fairness of the loop (the processor runs; sleep is left at each conversion of the ADC), of
each interrupt that is pending, of the timer once armed, and of the UART while it has a byte. Nothing is assumed of the other stations
except that they do not talk forever (`MaxChars`): on a line that never falls silent the reply rightly waits.
`LiveSpec` (`Juksautin`): weak fairness of `ADC_vect`; the ADC runs freely.
`Spec` of `Tz`: weak fairness of its next step, since the program runs by itself.

## 4. Proofs

The theorems hold for all sizes, layouts, rules and tables the named assumptions on the constants allow.

* `MainLoopProof`: `IInv`, the type invariant and the safety invariants of `busy` with one addition, `ReturnsWell`
  (a line submitted by help returns to a frame that is held), is inductive. Hence `TypeCorrect`, `FrameSafe`, `BuffersStayApart`, `SilencesTimed`,
  `EveryFrameCounted` and `NoReplyForgotten`: wherever the interrupts fall, a requested reply has somebody who will start or finish it.
  `SilenceTimed` is what makes `NoLostStart` inductive: while the line is not free, the timer runs. `TalksOverOne` needs
  `StartsTimed` besides: behind the test of `rx_state` the line is free, or its first character has just restarted the timer.
* `InboxProof`: reception step by step. `TextSeq`, `TextHeard`, `TextApart` and `TextEdited` say what one store into memory does to the text of a
  buffer: a character heard lengthens the text of the back buffer and leaves the front one alone (the buffers stay apart, from
  `IInv`), a NUL falls into the text held, or at the start of the buffer behind it. Each action is then a step of `Inbox`
  (`HearImplements` to `ReleaseImplements`) or leaves its variables alone: `InboxRefined`, for every layout. Where no buffer has another
  behind it, the case of the spilled NUL is void: `IntactWhereApart`.
* `PoliteProof`: under `PoliteAssumption` (`Polite`, and replies of three bytes or more, which is what the
  interfaces produce), `ReplyPhase` says where the loop and the receiver are in each phase of a reply, `AtRest` that the
  transmitter is empty unless it drives the line, `Speaking` that sent, shifted and waiting bytes are the first ones of
  the reply. From it: `OutboxRefined` (each step is a step of `Outbox` or none), `ReplyBufferOwned`, `LineOwned`, `ListensFirst`.
* `ClockProof`: `OffsetCorrect`, a statement of arithmetic: for every sane rule and time, the pseudo zone plus the
  summer time offset is `Ref`. With the invariant that the derived data is that of `loaded` and `loaded` that of the
  EEPROM except inside a setter: `RuleStored`, `EveryTickCounted`, `WallClockRefined`. `PairMostlyRight` adds that a time read is not later
  than the clock's own (`ReadBefore`): a read cannot be overtaken by a command that sets the clock back.
* `JuksautinProof`: `Store` keeps `count * min <= sum <= count * max` through both kinds of halving (counts are halved only
  when even, so the bit the sum drops never takes it across a bound), and `sum` below the limit of the conversion: `MeansFair`,
  `Headrooms`, `MeansShown`. Further `PeakKept`, and `TargetSaved` for every target but the largest word, at every
  moment.
  `DutyShown`: the sum of the duty cycle is short of its count if one period at least did not pull (`Duty`), which both halvings keep, since
  the count is even when they come; so the quotient fits its word.
* `TzProof`, for every table of any size (`IsZone`: transitions in order, types in range, offsets that fit a word) and every time:
  `SearchSound` is inductive, as a half of an interval with its ends around the time is another. When the interval has shrunk to neighbours,
  they are the transition in force and the next one; that the rule made of them means the zone's offsets up to the transition after that
  is `PopulateRight`, from which `RulesRight` follows. `FilesClosed` goes with it.
  `LookupShrinks`: what is `Left` of a look-up is a natural number that gets smaller with each step, which is all of `Ends` but that the
  program goes on. `DeviceShowsZone` joins the zone to the clock: the rule sent satisfies `Sane`, on which `OffsetCorrect` and
  `WallClockRefined` rest, at every later time, if no change still to come moves the zone by more than an `int` of the
  device holds, nine hours (`Gentle`).
* `ModbusProof`, for every set of requests, from words of 16 values on (so that the table does not wrap): `Phase` says that what is worked on
  was accepted, how far the work may have got, and that it is inside the table once it has begun; `Holds` that at each address worked on
  there was a command whose setting is as the request has it. With the types and `AnswersFit` that is inductive. `WantedAfterWrite` is the step
  of the refinement: a value of two registers leaves the plan with both of its addresses. A cut in an EEPROM write spoils the first
  setting of what is left of the plan (`PlanHere`), so it is a `Spoil` of `Assignments`, which drops the rest. From these `AssignmentsRefined` and
  `SuccessStays`; `AnswersMatch` needs `Matches` besides, the same for a part of an answer.
* `AsciiProof`, for every set of lines, any line length, and transmit buffers of 41 characters or more: `Phase` (what is at hand at
  each place of an exchange) and `Made` (of the words worked on, each setting has what it was last given, as far as power cuts spare it)
  are inductive with the types and `AnswersFit`. From them `SuccessStays` and `AssignmentsRefined`; `AnswersComplete` needs
  a further invariant, `Complete`, of the values in an unfinished answer. `ErrorAnywhere` is a statement about `location_aware_error`
  alone: whatever the place, a message of up to 32 characters is found whole in the buffer, before its first NUL.

Every invariant and every action property or refinement of a passing run is the statement of a theorem. Only model-checked is
liveness (`ReplySent`, `FrameFreed`, `LineFound`, `AllMeasured`, `Ends`): fairness is out of the prover's reach. Properties of the polite line
(`ReplyOwned`, `LineDriven`, `ListenFirst`, `Outbox`) are proved under `PoliteAssumption` because they are false without it.

## 5. Not modelled

* `pull_serial_counters`, `clock_is_set`, `misc_pong`, `juksautin_compute_k5_real_voltage`: no caller.
* Register set-up (`clock_init`, `adc_init`, `serial_init`, fuses): configuration without behaviour of its own.
* `avr/generators/commands` sorts the table `bsearch` searches; the models take the table as generated.
* `juksutil`: option and date parsing, the set-up of the terminal (`serial.c`), and what it prints: no state that outlives a call.
* Answers that come after `juksutil` has given up, and two commands at a time: each model of an interface has one command, which ends
  before the next (see the plan).
* The digits of numbers and dates: scanners and printers are modelled by what they accept and how much they write.
* The rule in text behind a zone's table: not read by the code.
* Circuit board, enclosure, build.

## 6. Plan

1. *Driver and main loop, clock, measurement, Modbus* with their runs and proofs: done.
2. *Ascii* and *Tz* with their runs and proofs: done.
3. Proof that reception implements `Inbox`: done.
4. Late answers: a second command sent while the device still waits for a silence to answer the first one. The device answers in
   order and nothing flushes the port, so that each answer would be read by the command after the one it was meant for.
5. `Tz`, `Ascii` and `Clock` as one system: the rule of the zone holds on the device from a success on, and its clock
   is less than a second behind. `RuleRight`, `SuccessKept` and `ImplementsWallClock` are its three parts, `DeviceShowsZone` the joint between the first
   and the last.
6. A composition of `MainLoop` with two masters, to see what `Polite` costs when it does not hold.
