----------------------------- MODULE AsciiProof -----------------------------
(***************************************************************************)
(* The text interface keeps the promise of Assignments, stays inside its   *)
(* buffer and shows its errors whole, for all lines and places.            *)
(***************************************************************************)
EXTENDS Ascii, SequenceTheorems, TLAPS

\* What is at hand at each place of an exchange.
Taken(l) == l.letter /\ ~Overlong(l) /\ l.end # "none"
Phase ==
    /\ (verdict = "waiting") = (pc # "idle")
    /\ pc # "idle" => line \in Lines
    /\ pc \in {"asleep", "sent"} => done = 0
    /\ pc = "working" => Taken(line)

\* The words worked on had settings that can be assigned, and of these each has
\* what it was last given, as far as power cuts spare it.
LastUpTo(l, n, k) ==
    \A j \in k + 1 .. n : l.words[j].name = l.words[k].name => l.words[j].value = None
Holds(l, n, s) ==
    \A k \in 1 .. n :
        l.words[k].value # None =>
            /\ l.words[k].name \in Settings
            /\ l.words[k].name \in Persistent /\ LastUpTo(l, n, k) =>
                  s[l.words[k].name] = l.words[k].value
Made ==
    /\ pc = "working" => Holds(line, done, settings)
    /\ pc = "answered" /\ error = None => Holds(line, Len(line.words), settings)
    /\ pc = "idle" /\ verdict = "ok" => line \in Lines /\ Holds(line, Len(line.words), settings)

IInv == TypeOK /\ AnswerFits /\ Phase /\ Made

-----------------------------------------------------------------------------
(* Lines. *)

LEMMA LineTyped ==
    ASSUME NEW l \in Lines
    PROVE  /\ l \in Texts
           /\ l.words \in Seq(Words) /\ Len(l.words) \in Nat
           /\ \A k \in 1 .. Len(l.words) : l.words[k] \in Words
<1>1. l \in Texts
  BY AsciiAssumption
<1>2. l.words \in Seq(Words)
  BY ONLY <1>1 DEF Texts
<1>3. Len(l.words) \in Nat
  BY ONLY <1>2, LenProperties
<1>4. \A k \in 1 .. Len(l.words) : l.words[k] \in Words
  BY ONLY <1>2, ElementOfSeq
<1> QED BY <1>1, <1>2, <1>3, <1>4

LEMMA WordTyped ==
    ASSUME NEW l \in Lines, NEW k \in 1 .. Len(l.words)
    PROVE  LET w == l.words[k]
           IN  /\ w.name \in STRING /\ w.width \in Nat /\ w.size \in Nat /\ w.stop \in Nat
               /\ w.value \in Int \cup {None}
               /\ Size(w) \in Nat
<1>1. l.words[k] \in Words /\ l.words \in Seq(Words)
  BY LineTyped
<1> DEFINE w == l.words[k]
<1>2. w.name \in STRING /\ w.width \in Nat /\ w.size \in Nat /\ w.stop \in Nat /\ w.value \in Int \cup {None}
  BY ONLY <1>1 DEF Words
<1>3. Size(w) \in Nat
  BY ONLY <1>2 DEF Size
<1> QED BY <1>2, <1>3

-----------------------------------------------------------------------------
(* The invariant, action by action. *)

LEMMA InitHolds == Init => IInv
<1> SUFFICES ASSUME Init PROVE IInv
  OBVIOUS
<1>1. settings \in [Settings -> Int]
  BY DEF Init, Initial
<1>2. shown \in Seq([word : Nat, whole : BOOLEAN])
  BY DEF Init
<1>3. TypeOK
  BY <1>1, <1>2 DEF Init, TypeOK
<1>4. AnswerFits
  BY AsciiAssumption DEF Init, AnswerFits
<1>5. Phase /\ Made
  BY DEF Init, Phase, Made
<1> QED BY <1>3, <1>4, <1>5 DEF IInv

LEMMA SendHolds == IInv /\ Send => IInv'
<1> SUFFICES ASSUME IInv, Send PROVE IInv'
  OBVIOUS
<1>1. TypeOK'
  BY DEF IInv, TypeOK, Send, answerVars
<1>2. AnswerFits' /\ Phase' /\ Made'
  BY DEF IInv, AnswerFits, Phase, Made, Send, answerVars
<1> QED BY <1>1, <1>2 DEF IInv

LEMMA SleepHolds == IInv /\ exact_timestamp => IInv'
<1> SUFFICES ASSUME IInv, exact_timestamp PROVE IInv'
  OBVIOUS
<1>0. pc' \in {"silent", "sent"}
  BY DEF exact_timestamp
<1>1. TypeOK'
  BY <1>0 DEF IInv, TypeOK, exact_timestamp, lineVars, answerVars
<1>2. AnswerFits' /\ Phase' /\ Made'
  BY <1>0 DEF IInv, AnswerFits, Phase, Made, exact_timestamp, lineVars, answerVars
<1> QED BY <1>1, <1>2 DEF IInv

\* An error, or the answer to "help", ends the work on a line.
LEMMA AnswerHolds ==
    ASSUME IInv, NEW message \in {None} \cup DOMAIN Located \cup Plain, NEW place \in Nat,
           pc \in {"sent", "working"}, Answer(message, place),
           message = None => Holds(line, Len(line.words), settings)
    PROVE  IInv'
<1>1. TypeOK'
  BY DEF IInv, TypeOK, Answer, lineVars
<1>2. AnswerFits' /\ Phase'
  BY DEF IInv, AnswerFits, Phase, Answer, lineVars
<1>3. Made'
  BY DEF Made, Answer, lineVars
<1> QED BY <1>1, <1>2, <1>3 DEF IInv

LEMMA NoneIsNoError == None \notin DOMAIN Located \cup Plain
  BY AsciiAssumption

\* An error message ends it in any case.
LEMMA ErrorHolds ==
    ASSUME IInv, NEW message \in DOMAIN Located \cup Plain, NEW place \in Nat,
           pc \in {"sent", "working"}, Answer(message, place)
    PROVE  IInv'
  BY NoneIsNoError, AnswerHolds

LEMMA ReceiveHolds == IInv /\ Receive => IInv'
<1> SUFFICES ASSUME IInv, Receive PROVE IInv'
  OBVIOUS
<1>0. pc = "sent" /\ done = 0 /\ line \in Lines
  BY DEF Receive, IInv, Phase
<1>1. CASE ~line.letter /\ pc' = "silent" /\ UNCHANGED <<settings, lineVars, answerVars, verdict>>
  <2>1. TypeOK'
    BY <1>1 DEF IInv, TypeOK, lineVars, answerVars
  <2>2. AnswerFits' /\ Phase' /\ Made'
    BY <1>0, <1>1 DEF IInv, AnswerFits, Phase, Made, lineVars, answerVars
  <2> QED BY <2>1, <2>2 DEF IInv
<1>2. CASE Answer("overlong", 0) \/ Answer("unterminated", 0) \/ Answer("expecting", 0)
  BY <1>0, <1>2, ErrorHolds DEF Plain
<1>3. CASE Help(line) /\ Answer(None, 0)
  <2>1. Holds(line, Len(line.words), settings)
    BY <1>3 DEF Help, Holds
  <2> QED BY <1>0, <1>3, <2>1, AnswerHolds
<1>4. CASE /\ Taken(line) /\ pc' = "working"
           /\ UNCHANGED <<settings, lineVars, answerVars, verdict>>
  <2>1. Len(line.words) \in Nat
    BY <1>0, LineTyped
  <2>2. TypeOK'
    BY <1>0, <1>4, <2>1 DEF IInv, TypeOK, lineVars, answerVars
  <2>3. Holds(line, 0, settings)
    BY DEF Holds
  <2>4. AnswerFits' /\ Phase' /\ Made'
    BY <1>0, <1>4, <2>3 DEF IInv, AnswerFits, Phase, Made, lineVars, answerVars
  <2> QED BY <2>2, <2>4 DEF IInv
<1> QED BY <1>1, <1>2, <1>3, <1>4, Zenon DEF Receive, Taken

\* What is known while a word is worked on.
LEMMA AtWord ==
    ASSUME IInv, Working
    PROVE  /\ pc = "working" /\ line \in Lines /\ Taken(line) /\ Holds(line, done, settings)
           /\ done \in Nat /\ done + 1 \in 1 .. Len(line.words) /\ Len(line.words) \in Nat
           /\ Word = line.words[done + 1] /\ Size(Word) \in Nat
           /\ Word.width \in Nat /\ Word.stop \in Nat /\ Word.value \in Int \cup {None}
           /\ buf \in Nat /\ out \in Nat
<1>1. pc = "working" /\ line \in Lines /\ Taken(line) /\ Holds(line, done, settings)
  BY DEF IInv, Phase, Made, Working
<1>2. Len(line.words) \in Nat
  BY <1>1, LineTyped
<1>3. done \in Nat /\ buf \in Nat /\ out \in Nat /\ done < Len(line.words)
  BY DEF IInv, TypeOK, Working
<1>4. done + 1 \in 1 .. Len(line.words)
  BY <1>2, <1>3
<1>5. Word = line.words[done + 1]
  BY DEF Word
<1>6. Size(Word) \in Nat /\ Word.width \in Nat /\ Word.stop \in Nat /\ Word.value \in Int \cup {None}
  BY <1>1, <1>4, <1>5, WordTyped
<1> QED BY <1>1, <1>2, <1>3, <1>4, <1>5, <1>6

LEMMA PlaceTyped ==
    ASSUME IInv, Working
    PROVE  buf \in Nat /\ BadPlace \in Nat
  BY AtWord DEF BadPlace

\* A word that assigns nothing leaves what was made.
LEMMA NextHolds ==
    ASSUME NEW l, NEW n \in Nat, NEW s, l.words[n + 1].value = None, Holds(l, n, s)
    PROVE  Holds(l, n + 1, s)
<1> SUFFICES ASSUME NEW k \in 1 .. n + 1, l.words[k].value # None
             PROVE  /\ l.words[k].name \in Settings
                    /\ l.words[k].name \in Persistent /\ LastUpTo(l, n + 1, k) =>
                          s[l.words[k].name] = l.words[k].value
  BY DEF Holds
<1>1. k \in 1 .. n
  BY k # n + 1
<1>2. LastUpTo(l, n + 1, k) => LastUpTo(l, n, k)
  BY <1>1 DEF LastUpTo
<1> QED BY <1>1, <1>2 DEF Holds

LEMMA PrintedTyped ==
    ASSUME NEW name \in Commands, NEW room
    PROVE  Printed(name, room) \subseteq Nat
<1>1. VERSION_LEN \in Nat
  BY AsciiAssumption
<1>2. Type[name] \in {"bool", "int16", "int32", "version", "now"}
  BY DEF Commands, Type
<1> QED BY <1>1, <1>2 DEF Printed, BUFLEN_MAX

LEMMA ReadHolds == IInv /\ process_read => IInv'
<1> SUFFICES ASSUME IInv, process_read PROVE IInv'
  OBVIOUS
<1>0. Working /\ pc = "working" /\ Word.value = None
  BY DEF process_read, Working
<1>1. CASE \E m \in {"unknown", "short"} : Answer(m, buf)
  BY <1>0, <1>1, PlaceTyped, ErrorHolds DEF Located
<1>2. CASE \E n \in Nat, whole \in BOOLEAN :
             /\ out' = n /\ Fits(n)
             /\ shown' = Append(shown, [word |-> done + 1, whole |-> whole])
             /\ Advance
             /\ UNCHANGED <<settings, pc, error, e_pos, verdict>>
  <2>1. PICK n \in Nat, whole \in BOOLEAN :
             /\ out' = n /\ Fits(n)
             /\ shown' = Append(shown, [word |-> done + 1, whole |-> whole])
             /\ Advance
             /\ UNCHANGED <<settings, pc, error, e_pos, verdict>>
    BY <1>2
  <2>2. shown' \in Seq([word : Nat, whole : BOOLEAN])
    <3>1. shown \in Seq([word : Nat, whole : BOOLEAN])
      BY DEF IInv, TypeOK
    <3>2. [word |-> done + 1, whole |-> whole] \in [word : Nat, whole : BOOLEAN]
      BY <1>0, AtWord
    <3> QED BY ONLY <2>1, <3>1, <3>2, AppendProperties
  <2>3. line' = line /\ done' = done + 1 /\ buf' = buf + Size(Word) + 1
    BY <2>1 DEF Advance
  <2>4. done' \in Nat /\ done' <= Len(line'.words) /\ buf' \in Nat
    BY <1>0, <2>3, AtWord
  <2>5. TypeOK'
    BY <2>1, <2>2, <2>3, <2>4 DEF IInv, TypeOK
  <2>6. AnswerFits'
    BY <2>1 DEF AnswerFits, Fits
  <2>7. Phase'
    BY <1>0, <2>1, <2>3 DEF IInv, Phase
  <2>8. Holds(line, done + 1, settings)
    BY <1>0, AtWord, NextHolds
  <2>9. Made'
    BY <1>0, <2>1, <2>3, <2>8 DEF Made
  <2> QED BY <2>5, <2>6, <2>7, <2>9 DEF IInv
<1>3. \A start \in Nat, wrote \in Nat : EndOf(start, wrote) \in Nat
  BY DEF EndOf
<1>4. Word.name \in Commands =>
         out + Word.width + 1 \in Nat
         /\ \A wrote \in Printed(Word.name, TX_LEN - (out + Word.width + 1)) : wrote \in Nat
  <2>1. out + Word.width + 1 \in Nat
    BY <1>0, AtWord
  <2> QED BY <2>1, PrintedTyped
<1> QED
  <2>1. CASE Word.name \notin Commands \/ ~Fits(out + Word.width + 1)
    BY <1>1, <2>1 DEF process_read
  <2>2. CASE Word.name \in Commands /\ Fits(out + Word.width + 1)
    <3> DEFINE start == out + Word.width + 1
    <3>1. PICK wrote \in Printed(Word.name, TX_LEN - start) :
             \/ Answer("short", buf)
             \/ /\ Fits(EndOf(start, wrote))
                /\ out' = EndOf(start, wrote)
                /\ shown' = Append(shown, [word |-> done + 1, whole |-> wrote < TX_LEN - start])
                /\ Advance
                /\ UNCHANGED <<settings, pc, error, e_pos, verdict>>
      BY <1>0, <2>2 DEF process_read
    <3>2. EndOf(start, wrote) \in Nat /\ (wrote < TX_LEN - start) \in BOOLEAN
      BY <1>3, <1>4, <2>2
    <3> HIDE DEF start
    <3> QED BY <1>1, <1>2, <2>2, <3>1, <3>2
  <2> QED BY <2>1, <2>2

LEMMA WriteHolds == IInv /\ process_write => IInv'
<1> SUFFICES ASSUME IInv, process_write PROVE IInv'
  OBVIOUS
<1>0. Working /\ pc = "working" /\ Word.value # None
  BY DEF process_write, Working
<1>1. CASE \E m \in {"unknown", "readonly"} : Answer(m, buf)
  BY <1>0, <1>1, PlaceTyped, ErrorHolds DEF Located
<1>2. CASE Answer(BadValue, BadPlace)
  BY <1>0, <1>2, PlaceTyped, ErrorHolds DEF BadValue, Located
<1>3. CASE Word.name \in Settings /\ Set
  <2>0. settings \in [Settings -> Int] /\ Word.value \in Int
    BY <1>0, AtWord DEF IInv, TypeOK
  <2>1. settings' \in [Settings -> Int] /\ settings' = [settings EXCEPT ![Word.name] = Word.value]
    BY <1>3, <2>0 DEF Set
  <2>2. line' = line /\ done' = done + 1 /\ buf' = buf + Size(Word) + 1
    BY <1>3 DEF Set, Advance
  <2>3. done' \in Nat /\ done' <= Len(line'.words) /\ buf' \in Nat
    BY <1>0, <2>2, AtWord
  <2>4. UNCHANGED <<pc, answerVars, verdict>>
    BY <1>3 DEF Set
  <2>5. TypeOK' /\ AnswerFits'
    BY <2>1, <2>2, <2>3, <2>4 DEF IInv, TypeOK, AnswerFits, answerVars
  <2>6. Phase'
    BY <1>0, <2>2, <2>4 DEF IInv, Phase
  <2>7. Holds(line, done + 1, settings')
    <3>1. done \in Nat /\ Holds(line, done, settings) /\ Word = line.words[done + 1]
      BY <1>0, AtWord
    <3> SUFFICES ASSUME NEW k \in 1 .. done + 1, line.words[k].value # None
                 PROVE  /\ line.words[k].name \in Settings
                        /\ line.words[k].name \in Persistent /\ LastUpTo(line, done + 1, k) =>
                              settings'[line.words[k].name] = line.words[k].value
      BY DEF Holds
    <3>2. CASE k = done + 1
      BY <1>3, <2>0, <2>1, <3>1, <3>2
    <3>3. CASE k # done + 1
      <4>1. k \in 1 .. done
        BY <3>1, <3>3
      <4>2. ASSUME LastUpTo(line, done + 1, k)
            PROVE  LastUpTo(line, done, k) /\ line.words[k].name # Word.name
        <5>1. done + 1 \in k + 1 .. done + 1
          BY <3>1, <4>1
        <5>2. \A j \in k + 1 .. done : j \in k + 1 .. done + 1
          BY <3>1, <4>1
        <5> QED BY <1>0, <3>1, <4>2, <5>1, <5>2 DEF LastUpTo
      <4>3. line.words[k].name \in Settings
        BY <3>1, <4>1 DEF Holds
      <4>4. ASSUME line.words[k].name \in Persistent, LastUpTo(line, done + 1, k)
            PROVE  settings'[line.words[k].name] = line.words[k].value
        <5>1. settings[line.words[k].name] = line.words[k].value
          BY <3>1, <4>1, <4>2, <4>4 DEF Holds
        <5> QED BY ONLY <2>0, <2>1, <4>2, <4>3, <4>4, <5>1
      <4> QED BY <4>3, <4>4
    <3> QED BY <3>2, <3>3
  <2>8. Made'
    BY <1>0, <2>2, <2>4, <2>7 DEF Made, answerVars
  <2> QED BY <2>5, <2>6, <2>8 DEF IInv
<1> QED BY <1>1, <1>2, <1>3 DEF process_write

LEMMA FinishHolds == IInv /\ Finish => IInv'
<1> SUFFICES ASSUME IInv, Finish PROVE IInv'
  OBVIOUS
<1>1. pc = "working" /\ done = Len(line.words) /\ Answer(None, 0)
  BY DEF Finish
<1>2. Holds(line, Len(line.words), settings)
  BY <1>1 DEF IInv, Made
<1> QED BY <1>1, <1>2, AnswerHolds

LEMMA LoseHolds == IInv /\ Lose => IInv'
<1> SUFFICES ASSUME IInv, Lose PROVE IInv'
  OBVIOUS
<1>1. TypeOK'
  BY DEF IInv, TypeOK, Lose, lineVars, answerVars
<1>2. AnswerFits' /\ Phase' /\ Made'
  BY DEF IInv, AnswerFits, Phase, Made, Lose, lineVars, answerVars
<1> QED BY <1>1, <1>2 DEF IInv

LEMMA ConcludeHolds == IInv /\ Conclude => IInv'
<1> SUFFICES ASSUME IInv, Conclude PROVE IInv'
  OBVIOUS
<1>1. verdict' \in {"ok", "failed"} /\ line' \in {line, None}
  BY DEF Conclude
<1>2. shown' \in Seq([word : Nat, whole : BOOLEAN])
  BY DEF Conclude
<1>3. TypeOK'
  BY <1>1, <1>2 DEF IInv, TypeOK, Conclude
<1>4. AnswerFits' /\ Phase'
  BY <1>1, AsciiAssumption DEF IInv, AnswerFits, Phase, Conclude
<1>5. Made'
  BY DEF IInv, Phase, Made, Conclude
<1> QED BY <1>3, <1>4, <1>5 DEF IInv

LEMMA PowerCutHolds == IInv /\ PowerCut => IInv'
<1> SUFFICES ASSUME IInv, PowerCut PROVE IInv'
  OBVIOUS
<1>1. settings \in [Settings -> Int] /\ InEeprom \in [Settings -> Int]
  BY DEF IInv, TypeOK, InEeprom, Initial
<1>2. pc' = (IF pc \in {"idle", "asleep"} THEN pc ELSE "silent")
      /\ UNCHANGED <<lineVars, answerVars, verdict>>
  BY DEF PowerCut
<1>3. AnswerFits' /\ Phase'
  BY <1>2 DEF IInv, TypeOK, AnswerFits, Phase, lineVars, answerVars
<1>4. CASE settings' = InEeprom
  <2>1. TypeOK'
    BY <1>1, <1>2, <1>4 DEF IInv, TypeOK, lineVars, answerVars
  <2>2. \A l, n : Holds(l, n, settings) => Holds(l, n, settings')
    BY <1>1, <1>4 DEF Holds, InEeprom
  <2>3. Made'
    BY <1>2, <2>2 DEF IInv, Made, lineVars, answerVars
  <2> QED BY <1>3, <2>1, <2>3 DEF IInv
<1>5. ASSUME Writing, NEW value \in Torn, settings' = [InEeprom EXCEPT ![Word.name] = value]
      PROVE  IInv'
  <2>1. value \in Int /\ pc = "working"
    BY <1>5, AsciiAssumption DEF Writing, Working
  <2> HIDE DEF InEeprom
  <2>2. settings' \in [Settings -> Int]
    BY <1>1, <1>5, <2>1
  <2>3. TypeOK'
    BY <1>2, <2>2 DEF IInv, TypeOK, lineVars, answerVars
  <2>4. Made'
    BY <1>2, <2>1 DEF Made, lineVars, answerVars
  <2> QED BY <1>3, <2>3, <2>4 DEF IInv
<1> QED BY <1>4, <1>5 DEF PowerCut

THEOREM Inductive == IInv /\ [Next]_vars => IInv'
<1> SUFFICES ASSUME IInv, [Next]_vars PROVE IInv'
  OBVIOUS
<1>1. CASE UNCHANGED vars
  BY <1>1 DEF IInv, TypeOK, AnswerFits, Phase, Made, vars, lineVars, answerVars
<1> QED
  BY <1>1, SendHolds, SleepHolds, ReceiveHolds, ReadHolds, WriteHolds, FinishHolds,
     LoseHolds, ConcludeHolds, PowerCutHolds DEF Next

-----------------------------------------------------------------------------
(* Error messages. *)

LEMMA Characters ==
    /\ \A text \in {"message", "at"}: \A i : Char(text, i) # NUL
    /\ Space # NUL /\ Caret # NUL
  BY DEF Char, Space, Caret, NUL

\* A text that fits is written whole and terminated; all else stays.
LEMMA Written ==
    ASSUME NEW tx, NEW text, NEW pos \in Nat, NEW n \in Nat, pos + n < TX_LEN,
           NEW i \in 0 .. TX_LEN - 1
    PROVE  /\ i < pos => snprintf(tx, pos, text, n)[i] = tx[i]
           /\ pos <= i /\ i < pos + n => snprintf(tx, pos, text, n)[i] = Char(text, i - pos)
           /\ i = pos + n => snprintf(tx, pos, text, n)[i] = NUL
           /\ i > pos + n => snprintf(tx, pos, text, n)[i] = tx[i]
<1>1. TX_LEN \in Nat
  BY AsciiAssumption
<1>2. snprintf(tx, pos, text, n)[i] =
        IF i < pos \/ i > pos + n THEN tx[i]
        ELSE IF i = pos + n \/ i = TX_LEN - 1 THEN NUL
        ELSE Char(text, i - pos)
  BY DEF snprintf
<1>3. i < pos + n => i # TX_LEN - 1
  BY <1>1
<1> QED BY <1>1, <1>2, <1>3

\* What is written before the first character of a text stays, cut or not.
LEMMA Before ==
    ASSUME NEW tx, NEW text, NEW pos \in Nat, NEW n \in Nat,
           NEW i \in 0 .. TX_LEN - 1, i < pos
    PROVE  snprintf(tx, pos, text, n)[i] = tx[i]
  BY DEF snprintf

LEMMA PaddedAt ==
    ASSUME NEW place \in Nat, NEW i \in 0 .. TX_LEN - 1, i < place + 2
    PROVE  Padded(place)[i] = IF i = place THEN Caret ELSE Space
  BY DEF Padded

\* Behind the caret.
LEMMA ShownBehind ==
    ASSUME NEW place \in Nat, NEW n \in Nat, n + (place + 2) < TX_LEN
    PROVE  ErrorWhole(place, n)
<1> DEFINE tx == location_aware_error(place, n)
<1>1. TX_LEN \in Nat /\ place + 2 < TX_LEN
  BY AsciiAssumption
<1>2. tx = snprintf(Padded(place), place + 2, "message", n)
  BY <1>1 DEF location_aware_error
<1> HIDE DEF tx
<1>3. \A i \in 0 .. TX_LEN - 1 :
         /\ i < place + 2 => tx[i] = Padded(place)[i]
         /\ place + 2 <= i /\ i < place + 2 + n => tx[i] = Char("message", i - (place + 2))
         /\ i = place + 2 + n => tx[i] = NUL
  BY <1>1, <1>2, Written
<1>4. \A i \in 0 .. n - 1 : tx[(place + 2) + i] = Char("message", i)
  <2> TAKE i \in 0 .. n - 1
  <2>1. place + 2 + i \in 0 .. TX_LEN - 1 /\ (place + 2 + i) - (place + 2) = i
    BY <1>1
  <2> QED BY <1>3, <2>1
<1>5. Visible(tx, place + 2 + n - 1)
  <2> SUFFICES ASSUME NEW j \in 0 .. place + 2 + n - 1 PROVE tx[j] # NUL
    BY DEF Visible
  <2>1. j \in 0 .. TX_LEN - 1
    BY <1>1
  <2>2. CASE j < place + 2
    BY <1>3, <2>1, <2>2, PaddedAt, Characters
  <2>3. CASE ~(j < place + 2)
    BY <1>3, <2>1, <2>3, Characters
  <2> QED BY <2>2, <2>3
<1>6. tx[place] = Caret /\ Visible(tx, place)
  <2>1. place \in 0 .. TX_LEN - 1
    BY <1>1
  <2>2. tx[place] = Caret
    BY <1>3, <2>1, PaddedAt
  <2>3. \A j \in 0 .. place : j \in 0 .. place + 2 + n - 1
    OBVIOUS
  <2> QED BY <1>5, <2>2, <2>3 DEF Visible
<1>7. ~Visible(tx, TX_LEN - 1)
  <2>1. place + 2 + n \in 0 .. TX_LEN - 1
    BY <1>1
  <2> QED BY <1>3, <2>1 DEF Visible
<1>8. place + 2 \in 0 .. TX_LEN - n
  BY <1>1
<1> QED BY <1>4, <1>5, <1>6, <1>7, <1>8 DEF ErrorWhole, tx

\* Before the caret.
LEMMA ShownBefore ==
    ASSUME NEW place \in Nat, NEW n \in Nat,
           place + 2 < TX_LEN, ~(n + (place + 2) < TX_LEN), n + 1 <= place
    PROVE  ErrorWhole(place, n)
<1> DEFINE tx == location_aware_error(place, n)
           first == snprintf(Padded(place), place + 2, "message", n)
           cut == [first EXCEPT ![place + 1] = NUL]
           before == place - n - 1
           text == snprintf(cut, before, "message", n)
<1>1. TX_LEN \in Nat /\ before \in Nat /\ before + n = place - 1
  BY AsciiAssumption
<1>2. tx = [text EXCEPT ![place - 1] = Space]
  BY DEF location_aware_error
<1>3. \A i \in 0 .. TX_LEN - 1 : i < place + 2 => cut[i] = IF i = place + 1 THEN NUL ELSE Padded(place)[i]
  <2>1. \A i \in 0 .. TX_LEN - 1 : i < place + 2 => first[i] = Padded(place)[i]
    BY Before
  <2>2. DOMAIN first = 0 .. TX_LEN - 1
    BY DEF snprintf
  <2> QED BY <2>1, <2>2
<1> HIDE DEF cut
<1>4. \A i \in 0 .. TX_LEN - 1 :
         /\ i < before => text[i] = cut[i]
         /\ before <= i /\ i < before + n => text[i] = Char("message", i - before)
         /\ i > before + n => text[i] = cut[i]
  BY <1>1, Written
<1>5. DOMAIN text = 0 .. TX_LEN - 1
  BY DEF snprintf
<1> HIDE DEF text, tx
<1>6. \A i \in 0 .. TX_LEN - 1 : tx[i] = IF i = place - 1 THEN Space ELSE text[i]
  BY <1>2, <1>5
<1>7. \A i \in 0 .. n - 1 : tx[before + i] = Char("message", i)
  <2> TAKE i \in 0 .. n - 1
  <2>1. before + i \in 0 .. TX_LEN - 1 /\ before + i # place - 1 /\ (before + i) - before = i
    BY <1>1
  <2> QED BY <1>1, <1>4, <1>6, <2>1
<1>8. Visible(tx, place) /\ tx[place] = Caret
  <2>1. ASSUME NEW j \in 0 .. place PROVE tx[j] # NUL /\ (j = place => tx[j] = Caret)
    <3>1. j \in 0 .. TX_LEN - 1 /\ j < place + 2 /\ j # place + 1
      BY <1>1
    <3>2. CASE j = place - 1
      BY <1>6, <3>1, <3>2, Characters
    <3>3. CASE j # place - 1 /\ (j < before \/ j > before + n)
      <4>1. tx[j] = Padded(place)[j]
        BY <1>3, <1>4, <1>6, <3>1, <3>3
      <4> QED BY <3>1, <4>1, PaddedAt, Characters
    <3>4. CASE j # place - 1 /\ ~(j < before) /\ ~(j > before + n)
      <4>1. before <= j /\ j < before + n
        BY <1>1, <3>4
      <4>2. tx[j] = Char("message", j - before)
        BY <1>4, <1>6, <3>1, <3>4, <4>1
      <4> QED BY <1>1, <4>1, <4>2, Characters
    <3> QED BY <3>2, <3>3, <3>4
  <2> QED BY <2>1 DEF Visible
<1>9. Visible(tx, before + n - 1)
  <2>1. \A j \in 0 .. before + n - 1 : j \in 0 .. place
    BY <1>1
  <2> QED BY <1>8, <2>1 DEF Visible
<1>10. ~Visible(tx, TX_LEN - 1)
  <2>1. place + 1 \in 0 .. TX_LEN - 1 /\ place + 1 # place - 1 /\ place + 1 > before + n
    BY <1>1
  <2>2. tx[place + 1] = NUL
    BY <1>3, <1>4, <1>6, <2>1
  <2> QED BY <2>1, <2>2 DEF Visible
<1>11. before \in 0 .. TX_LEN - n
  BY <1>1
<1> QED BY <1>7, <1>8, <1>9, <1>10, <1>11 DEF ErrorWhole, tx

\* Without a caret.
LEMMA ShownAtNumber ==
    ASSUME NEW place \in Nat, NEW n \in Nat, AtLen(place) + n < TX_LEN,
           ~(place + 2 < TX_LEN /\ (n + (place + 2) < TX_LEN \/ n + 1 <= place))
    PROVE  ErrorWhole(place, n)
<1> DEFINE tx == location_aware_error(place, n)
           blank == [i \in 0 .. TX_LEN - 1 |-> Old]
           at == snprintf(blank, 0, "at", AtLen(place))
<1>1. TX_LEN \in Nat /\ AtLen(place) \in Nat /\ AtLen(place) < TX_LEN
  BY AsciiAssumption DEF AtLen
<1>2. tx = snprintf(at, AtLen(place), "message", n)
  BY DEF location_aware_error
<1>3. \A i \in 0 .. TX_LEN - 1 : i < AtLen(place) => at[i] = Char("at", i)
  <2> SUFFICES ASSUME NEW i \in 0 .. TX_LEN - 1, i < AtLen(place) PROVE at[i] = Char("at", i)
    OBVIOUS
  <2> HIDE DEF blank
  <2>1. at[i] = Char("at", i - 0)
    BY <1>1, Written
  <2> QED BY <2>1
<1> HIDE DEF at, tx
<1>4. \A i \in 0 .. TX_LEN - 1 :
         /\ i < AtLen(place) => tx[i] = at[i]
         /\ AtLen(place) <= i /\ i < AtLen(place) + n => tx[i] = Char("message", i - AtLen(place))
         /\ i = AtLen(place) + n => tx[i] = NUL
  BY <1>1, <1>2, Written
<1>5. \A i \in 0 .. n - 1 : tx[AtLen(place) + i] = Char("message", i)
  <2> TAKE i \in 0 .. n - 1
  <2>1. AtLen(place) + i \in 0 .. TX_LEN - 1 /\ (AtLen(place) + i) - AtLen(place) = i
    BY <1>1
  <2> QED BY <1>1, <1>4, <2>1
<1>6. \A i \in 0 .. AtLen(place) - 1 : tx[i] = Char("at", i)
  BY <1>1, <1>3, <1>4
<1>7. Visible(tx, AtLen(place) + n - 1)
  <2> SUFFICES ASSUME NEW j \in 0 .. AtLen(place) + n - 1 PROVE tx[j] # NUL
    BY DEF Visible
  <2>1. j \in 0 .. TX_LEN - 1
    BY <1>1
  <2>2. CASE j < AtLen(place)
    BY <1>1, <1>6, <2>2, Characters
  <2>3. CASE ~(j < AtLen(place))
    BY <1>1, <1>4, <2>1, <2>3, Characters
  <2> QED BY <2>2, <2>3
<1>8. ~Visible(tx, TX_LEN - 1)
  <2>1. AtLen(place) + n \in 0 .. TX_LEN - 1
    BY <1>1
  <2> QED BY <1>4, <2>1 DEF Visible
<1>9. AtLen(place) \in 0 .. TX_LEN - n
  BY <1>1
<1> QED BY <1>5, <1>6, <1>7, <1>8, <1>9 DEF ErrorWhole, tx

\* Whatever the place, one of the three ways shows a message of up to 32
\* characters whole (ascii.c:93-144).
THEOREM ErrorAnywhere ==
    ASSUME NEW place \in Nat, NEW n \in 0 .. 32
    PROVE  ErrorWhole(place, n)
<1>1. AtLen(place) + n < TX_LEN
  BY AsciiAssumption DEF AtLen
<1> QED BY <1>1, ShownBehind, ShownBefore, ShownAtNumber

\* Every error is shown whole with its place (ascii.c:93-144).
THEOREM ErrorsShown == Spec => []ErrorShown
<1>1. IInv => ErrorShown
  <2> SUFFICES ASSUME IInv, error \in DOMAIN Located PROVE ErrorWhole(e_pos, Located[error])
    BY DEF ErrorShown
  <2>1. Located[error] \in 0 .. 32
    BY DEF Located
  <2>2. e_pos \in Nat
    BY DEF IInv, TypeOK
  <2> QED BY <2>1, <2>2, ErrorAnywhere
<1> QED BY <1>1, InitHolds, Inductive, PTL DEF Spec

\* The variables have their types in every reachable state.
THEOREM TypeCorrect == Spec => []TypeOK
<1>1. IInv => TypeOK
  BY DEF IInv
<1> QED BY <1>1, InitHolds, Inductive, PTL DEF Spec

\* An answer never passes the end of the transmit buffer (ascii.c:74-90).
THEOREM AnswersFit == Spec => []AnswerFits
<1>1. IInv => AnswerFits
  BY DEF IInv
<1> QED BY <1>1, InitHolds, Inductive, PTL DEF Spec

\* A device keeps what a line assigned for which success was told
\* (ascii.c:230-258, sync_clock.c:69-100).
THEOREM SuccessStays == Spec => []SuccessKept
<1>1. IInv => SuccessKept
  BY DEF IInv, Made, Holds, LastUpTo, LastOf, SuccessKept
<1> QED BY <1>1, InitHolds, Inductive, PTL DEF Spec

-----------------------------------------------------------------------------
(* Answers. *)

\* What is shown is what the words worked on asked for.
Complete ==
    /\ pc \in {"idle", "asleep", "sent"} => shown = <<>>
    /\ pc = "working" => Shows(shown, line, done)
    /\ AnswerComplete

LEMMA NothingShown ==
    ASSUME NEW l
    PROVE  Shows(<<>>, l, 0)
  BY DEF Shows, Reads

\* A value is added for a word that reads.
LEMMA ShownRead ==
    ASSUME NEW l, NEW n \in Nat, NEW s \in Seq([word : Nat, whole : BOOLEAN]), Shows(s, l, n),
           l.words[n + 1].value = None
    PROVE  Shows(Append(s, [word |-> n + 1, whole |-> TRUE]), l, n + 1)
<1> DEFINE v == [word |-> n + 1, whole |-> TRUE]
           t == Append(s, v)
<1>1. /\ Len(s) \in Nat /\ Len(t) = Len(s) + 1
      /\ t[Len(s) + 1] = v
      /\ \A k \in 1 .. Len(s) : t[k] = s[k]
  <2>1. v \in [word : Nat, whole : BOOLEAN]
    OBVIOUS
  <2> HIDE DEF v
  <2> QED BY <2>1, LenProperties, AppendProperties
<1>2. v.word = n + 1 /\ v.whole
  OBVIOUS
<1> HIDE DEF v, t
<1>3. \A k \in 1 .. Len(t) : k \in 1 .. Len(s) \/ k = Len(s) + 1
  BY <1>1
<1>4. Reads(l, n + 1) = Reads(l, n) \cup {n + 1}
  <2>1. \A k : k \in 1 .. n + 1 <=> (k \in 1 .. n \/ k = n + 1)
    OBVIOUS
  <2> QED BY <2>1 DEF Reads
<1>5. \A k \in 1 .. Len(s) : s[k].word \in Reads(l, n) /\ s[k].word < n + 1
  <2>1. \A k \in 1 .. Len(s) : s[k].word \in Reads(l, n)
    BY DEF Shows
  <2> QED BY <2>1 DEF Reads
<1>6. {t[k].word : k \in 1 .. Len(t)} = Reads(l, n + 1)
  <2>1. \A k \in 1 .. Len(t) : t[k].word \in Reads(l, n + 1)
    BY <1>1, <1>2, <1>3, <1>4, <1>5
  <2>2. ASSUME NEW w \in Reads(l, n + 1) PROVE \E k \in 1 .. Len(t) : t[k].word = w
    <3>1. CASE w = n + 1
      <4>1. Len(s) + 1 \in 1 .. Len(t)
        BY <1>1
      <4> QED BY <1>1, <1>2, <3>1, <4>1
    <3>2. CASE w \in Reads(l, n)
      <4>1. PICK k \in 1 .. Len(s) : s[k].word = w
        BY <3>2 DEF Shows
      <4>2. k \in 1 .. Len(t)
        BY <1>1
      <4> QED BY <1>1, <4>1, <4>2
    <3> QED BY <1>4, <3>1, <3>2
  <2> QED BY <2>1, <2>2
<1>7. ASSUME NEW j \in 1 .. Len(t), NEW k \in 1 .. Len(t), j < k
      PROVE  t[j].word < t[k].word
  <2>1. j \in 1 .. Len(s)
    BY <1>1, <1>7
  <2>2. CASE k \in 1 .. Len(s)
    BY <1>1, <1>7, <2>1, <2>2 DEF Shows
  <2>3. CASE k = Len(s) + 1
    BY <1>1, <1>2, <1>5, <2>1, <2>3
  <2> QED BY <1>3, <2>2, <2>3
<1>8. \A k \in 1 .. Len(t) : t[k].whole
  BY <1>1, <1>2, <1>3 DEF Shows
<1> QED BY <1>6, <1>7, <1>8 DEF Shows, t, v

\* None is added for one that writes.
LEMMA ShownWrite ==
    ASSUME NEW l, NEW n \in Nat, NEW s, Shows(s, l, n), l.words[n + 1].value # None
    PROVE  Shows(s, l, n + 1)
<1>1. \A k : k \in 1 .. n + 1 <=> (k \in 1 .. n \/ k = n + 1)
  OBVIOUS
<1>2. Reads(l, n + 1) = Reads(l, n)
  BY <1>1 DEF Reads
<1> QED BY <1>2 DEF Shows

LEMMA ErrorLeavesComplete ==
    ASSUME NEW message \in DOMAIN Located \cup Plain, NEW place, Answer(message, place)
    PROVE  Complete'
  BY NoneIsNoError DEF Answer, Complete, AnswerComplete

LEMMA ReadCompletes == IInv /\ Complete /\ process_read => Complete'
<1> SUFFICES ASSUME IInv, Complete, process_read PROVE Complete'
  OBVIOUS
<1>0. Working /\ pc = "working" /\ Word.value = None
  BY DEF process_read, Working
<1>1. CASE \E m \in {"unknown", "short"} : Answer(m, buf)
  BY <1>1, ErrorLeavesComplete DEF Located
<1>2. CASE /\ Word.name \in Commands
           /\ \E wrote \in Printed(Word.name, TX_LEN - (out + Word.width + 1)) :
                 /\ Fits(EndOf(out + Word.width + 1, wrote))
                 /\ shown' = Append(shown, [word |-> done + 1,
                                           whole |-> wrote < TX_LEN - (out + Word.width + 1)])
                 /\ Advance
                 /\ UNCHANGED <<settings, pc, error, e_pos, verdict>>
  <2> DEFINE start == out + Word.width + 1
  <2>1. PICK wrote \in Printed(Word.name, TX_LEN - start) :
           /\ Fits(EndOf(start, wrote))
           /\ shown' = Append(shown, [word |-> done + 1, whole |-> wrote < TX_LEN - start])
           /\ Advance
           /\ UNCHANGED <<settings, pc, error, e_pos, verdict>>
    BY <1>2
  <2>2. start \in Nat /\ wrote \in Nat /\ TX_LEN \in Nat
    <3>1. start \in Nat /\ TX_LEN \in Nat
      BY <1>0, AtWord, AsciiAssumption
    <3> HIDE DEF start
    <3>2. Printed(Word.name, TX_LEN - start) \subseteq Nat
      BY ONLY <1>2, PrintedTyped
    <3> QED BY <3>1, <3>2
  <2> HIDE DEF start
  <2>3. (wrote < TX_LEN - start) = TRUE
    BY <2>1, <2>2 DEF Fits, EndOf
  <2>4. Shows(shown, line, done) /\ shown \in Seq([word : Nat, whole : BOOLEAN])
    BY <1>0 DEF Complete, IInv, TypeOK
  <2>5. line.words[done + 1].value = None /\ done \in Nat
    BY <1>0, AtWord
  <2>6. shown' = Append(shown, [word |-> done + 1, whole |-> TRUE])
    BY ONLY <2>1, <2>3
  <2>7. Shows(shown', line, done + 1)
    BY ONLY <2>4, <2>5, <2>6, ShownRead
  <2>8. pc' = "working" /\ line' = line /\ done' = done + 1
    BY <1>0, <2>1 DEF Advance
  <2> QED BY <2>7, <2>8 DEF Complete, AnswerComplete
<1> QED BY <1>1, <1>2 DEF process_read

LEMMA WriteCompletes == IInv /\ Complete /\ process_write => Complete'
<1> SUFFICES ASSUME IInv, Complete, process_write PROVE Complete'
  OBVIOUS
<1>0. Working /\ pc = "working" /\ Word.value # None
  BY DEF process_write, Working
<1>1. CASE \E m \in {"unknown", "readonly"} : Answer(m, buf)
  BY <1>1, ErrorLeavesComplete DEF Located
<1>2. CASE Answer(BadValue, BadPlace)
  BY <1>2, ErrorLeavesComplete DEF BadValue, Located
<1>3. CASE Set
  <2>1. pc' = "working" /\ line' = line /\ done' = done + 1 /\ shown' = shown
    BY <1>0, <1>3 DEF Set, Advance, answerVars
  <2>2. Shows(shown, line, done + 1)
    BY <1>0, AtWord, ShownWrite DEF Complete
  <2> QED BY <2>1, <2>2 DEF Complete, AnswerComplete
<1> QED BY <1>1, <1>2, <1>3 DEF process_write

LEMMA CompleteStays == IInv /\ Complete /\ [Next]_vars => Complete'
<1> SUFFICES ASSUME IInv, Complete, [Next]_vars PROVE Complete'
  OBVIOUS
<1>1. CASE UNCHANGED vars
  BY <1>1 DEF Complete, AnswerComplete, vars, lineVars, answerVars
<1>2. CASE Send
  BY <1>2 DEF Complete, AnswerComplete, Send, answerVars
<1>3. CASE exact_timestamp
  BY <1>3 DEF Complete, AnswerComplete, exact_timestamp, answerVars
<1>4. CASE Receive
  <2>1. pc = "sent" /\ shown = <<>> /\ done = 0
    BY <1>4 DEF Receive, Complete, IInv, Phase
  <2>2. CASE pc' \in {"silent", "working"} /\ UNCHANGED <<lineVars, answerVars>>
    BY <2>1, <2>2, NothingShown DEF Complete, AnswerComplete, lineVars, answerVars
  <2>3. CASE Answer("overlong", 0) \/ Answer("unterminated", 0) \/ Answer("expecting", 0)
    BY <2>3, ErrorLeavesComplete DEF Plain
  <2>4. CASE Help(line) /\ Answer(None, 0)
    BY <2>4 DEF Answer, Complete, AnswerComplete, lineVars
  <2> QED BY <1>4, <2>2, <2>3, <2>4 DEF Receive
<1>5. CASE Finish
  BY <1>5 DEF Finish, Answer, Complete, AnswerComplete, lineVars
<1>6. CASE Lose
  BY <1>6 DEF Lose, Complete, AnswerComplete, lineVars, answerVars
<1>7. CASE Conclude
  BY <1>7 DEF Conclude, Complete, AnswerComplete
<1>8. CASE PowerCut
  BY <1>8 DEF PowerCut, Complete, AnswerComplete, lineVars, answerVars
<1> QED
  BY <1>1, <1>2, <1>3, <1>4, <1>5, <1>6, <1>7, <1>8, ReadCompletes, WriteCompletes DEF Next

\* A good answer has all that was asked for, in order and whole (ascii.c:56-91).
THEOREM AnswersComplete == Spec => []AnswerComplete
<1>1. Init => Complete
  BY DEF Init, Complete, AnswerComplete
<1>2. Complete => AnswerComplete
  BY DEF Complete
<1> QED BY <1>1, <1>2, InitHolds, Inductive, CompleteStays, PTL DEF Spec

-----------------------------------------------------------------------------
(* The promise of Assignments. *)

Nothing == [k \in {} |-> Unknown]

\* What is left to be assigned at each place of an exchange.
LEMMA PlanAt ==
    /\ pc \in {"asleep", "sent", "working"} => Plan = Wanted(line, done)
    /\ pc = "silent" => Plan = Abandoned
    /\ pc = "answered" /\ error # None => Plan = Abandoned
    /\ pc = "answered" /\ error = None => Plan = Nothing
    /\ pc = "idle" => Plan = Nothing
  BY DEF Plan, Nothing

LEMMA PlanNext ==
    /\ pc' \in {"asleep", "sent", "working"} => Plan' = Wanted(line', done')
    /\ pc' = "silent" => Plan' = Abandoned
    /\ pc' = "answered" /\ error' # None => Plan' = Abandoned
    /\ pc' = "answered" /\ error' = None => Plan' = Nothing
    /\ pc' = "idle" => Plan' = Nothing
  BY DEF Plan, Nothing

\* The words of a line that assign something, from one of them on.
Assigning(l, n) == {k \in n + 1 .. Len(l.words) : l.words[k].value # None}

PlanOf(l, words) == [k \in words |-> Assignment(l.words[k])]

LEMMA WantedAt ==
    ASSUME NEW l \in Lines, NEW n, Taken(l)
    PROVE  Wanted(l, n) = PlanOf(l, Assigning(l, n))
  BY DEF Taken, Wanted, Assigning, PlanOf

\* A word that assigns nothing is not in the plan.
LEMMA WantedAfterRead ==
    ASSUME NEW l \in Lines, NEW n \in Nat, Taken(l), n + 1 \in 1 .. Len(l.words),
           l.words[n + 1].value = None
    PROVE  Wanted(l, n + 1) = Wanted(l, n)
<1>1. Len(l.words) \in Nat
  BY LineTyped
<1>2. Assigning(l, n + 1) = Assigning(l, n)
  <2>1. \A k \in n + 1 .. Len(l.words) : k = n + 1 \/ k \in (n + 1) + 1 .. Len(l.words)
    BY <1>1
  <2>2. \A k \in (n + 1) + 1 .. Len(l.words) : k \in n + 1 .. Len(l.words)
    BY <1>1
  <2> QED BY <2>1, <2>2 DEF Assigning
<1> QED BY ONLY <1>2, WantedAt, l \in Lines, Taken(l)

\* One that does is the first of the plan, and then no longer in it.
LEMMA WantedAfterWrite ==
    ASSUME NEW l \in Lines, NEW n \in Nat, Taken(l), n + 1 \in 1 .. Len(l.words),
           l.words[n + 1].value # None
    PROVE  /\ n + 1 \in DOMAIN Wanted(l, n)
           /\ \A b \in DOMAIN Wanted(l, n) : n + 1 <= b
           /\ Wanted(l, n)[n + 1] = Assignment(l.words[n + 1])
           /\ Wanted(l, n + 1) = [b \in DOMAIN Wanted(l, n) \ {n + 1} |-> Wanted(l, n)[b]]
<1>1. Len(l.words) \in Nat
  BY LineTyped
<1>2. n + 1 \in Assigning(l, n) /\ \A b \in Assigning(l, n) : n + 1 <= b
  BY <1>1 DEF Assigning
<1>3. Assigning(l, n + 1) = Assigning(l, n) \ {n + 1}
  <2>1. \A k \in n + 1 .. Len(l.words) : k = n + 1 \/ k \in (n + 1) + 1 .. Len(l.words)
    BY <1>1
  <2>2. \A k \in (n + 1) + 1 .. Len(l.words) : k \in n + 1 .. Len(l.words) /\ k # n + 1
    BY <1>1
  <2> QED BY <2>1, <2>2 DEF Assigning
<1>4. Wanted(l, n) = PlanOf(l, Assigning(l, n)) /\ Wanted(l, n + 1) = PlanOf(l, Assigning(l, n + 1))
  BY WantedAt
<1>5. DOMAIN Wanted(l, n) = Assigning(l, n)
  BY ONLY <1>4 DEF PlanOf
<1>6. Wanted(l, n)[n + 1] = Assignment(l.words[n + 1])
  BY ONLY <1>2, <1>4 DEF PlanOf
<1>7. Wanted(l, n + 1) = [b \in Assigning(l, n) \ {n + 1} |-> Wanted(l, n)[b]]
  BY ONLY <1>3, <1>4 DEF PlanOf
<1> QED BY <1>2, <1>5, <1>6, <1>7

\* At the end of a line, and for "help", nothing is left.
LEMMA WantedAtEnd ==
    ASSUME NEW l \in Lines, NEW n, Taken(l), Assigning(l, n) = {}
    PROVE  Wanted(l, n) = Nothing
  BY WantedAt DEF Nothing, PlanOf

\* Steps that end in "silent" or with an error give the command up.
LEMMA GiveUp ==
    ASSUME IInv, pc \in {"asleep", "sent", "working", "answered"},
           pc' = "silent" \/ (pc' = "answered" /\ error' # None),
           UNCHANGED <<settings, verdict>>
    PROVE  Told!Next
<1>1. verdict = "waiting"
  BY DEF IInv, TypeOK, Phase
<1>2. Plan' = Abandoned
  BY PlanNext
<1> QED BY <1>1, <1>2 DEF Told!Next, Told!Abandon, Told!Abandoned, Abandoned, Told!Unknown, Unknown

LEMMA Stutters ==
    ASSUME UNCHANGED <<settings, verdict>>, Plan' = Plan
    PROVE  UNCHANGED Told!vars
  BY DEF Told!vars

LEMMA SendRefines == IInv /\ Send => Told!Next
<1> SUFFICES ASSUME IInv, Send PROVE Told!Next
  OBVIOUS
<1>1. verdict # "waiting"
  BY DEF IInv, TypeOK, Phase, Send
<1> QED BY <1>1 DEF Send, Told!Next, Told!Ask

LEMMA SleepRefines == IInv /\ exact_timestamp => [Told!Next]_Told!vars
<1> SUFFICES ASSUME IInv, exact_timestamp PROVE [Told!Next]_Told!vars
  OBVIOUS
<1>1. pc = "asleep" /\ pc' \in {"silent", "sent"}
      /\ UNCHANGED <<settings, lineVars, answerVars, verdict>>
  BY DEF exact_timestamp
<1>2. CASE pc' = "silent"
  BY <1>1, <1>2, GiveUp
<1>3. CASE pc' = "sent"
  <2>1. Plan' = Plan
    BY <1>1, <1>3, PlanAt, PlanNext DEF lineVars
  <2> QED BY <1>1, <2>1, Stutters
<1> QED BY <1>1, <1>2, <1>3

LEMMA ErrorRefines ==
    ASSUME IInv, NEW message \in DOMAIN Located \cup Plain, NEW place,
           pc \in {"sent", "working"}, Answer(message, place)
    PROVE  Told!Next
<1>1. error' # None /\ pc' = "answered" /\ UNCHANGED <<settings, verdict>>
  BY NoneIsNoError DEF Answer
<1> QED BY <1>1, GiveUp

LEMMA ReceiveRefines == IInv /\ Receive => [Told!Next]_Told!vars
<1> SUFFICES ASSUME IInv, Receive PROVE [Told!Next]_Told!vars
  OBVIOUS
<1>0. pc = "sent" /\ done = 0 /\ line \in Lines
  BY DEF Receive, IInv, Phase
<1>1. CASE ~line.letter /\ pc' = "silent" /\ UNCHANGED <<settings, lineVars, answerVars, verdict>>
  BY <1>0, <1>1, GiveUp
<1>2. CASE Answer("overlong", 0) \/ Answer("unterminated", 0) \/ Answer("expecting", 0)
  BY <1>0, <1>2, ErrorRefines DEF Plain
<1>3. CASE Taken(line) /\ Help(line) /\ Answer(None, 0)
  <2>1. Assigning(line, 0) = {}
    BY <1>3 DEF Help, Assigning
  <2>2. Plan = Nothing
    BY <1>0, <1>3, <2>1, PlanAt, WantedAtEnd
  <2>3. Plan' = Nothing
    BY <1>3, PlanNext DEF Answer
  <2> QED BY <1>3, <2>2, <2>3, Stutters DEF Answer
<1>4. CASE pc' = "working" /\ UNCHANGED <<settings, lineVars, answerVars, verdict>>
  <2>1. Plan' = Plan
    BY <1>0, <1>4, PlanAt, PlanNext DEF lineVars
  <2> QED BY <1>4, <2>1, Stutters
<1> QED BY <1>1, <1>2, <1>3, <1>4, Zenon DEF Receive, Taken

LEMMA ReadRefines == IInv /\ process_read => [Told!Next]_Told!vars
<1> SUFFICES ASSUME IInv, process_read PROVE [Told!Next]_Told!vars
  OBVIOUS
<1>0. Working /\ pc = "working" /\ Word.value = None
  BY DEF process_read, Working
<1>1. CASE \E m \in {"unknown", "short"} : Answer(m, buf)
  BY <1>0, <1>1, ErrorRefines DEF Located
<1>2. CASE Advance /\ UNCHANGED <<settings, pc, error, e_pos, verdict>>
  <2>1. Plan = Wanted(line, done) /\ Plan' = Wanted(line, done + 1)
    BY <1>0, <1>2, PlanAt, PlanNext DEF Advance
  <2>2. Wanted(line, done + 1) = Wanted(line, done)
    BY <1>0, AtWord, WantedAfterRead
  <2> QED BY <1>2, <2>1, <2>2, Stutters
<1> QED BY <1>1, <1>2 DEF process_read

\* A setting whose value can be scanned is the next one of the plan.
LEMMA PlanHere ==
    ASSUME IInv, Working, Word.value # None, Word.name \in Settings, Scans(Word)
    PROVE  LET n == done + 1
           IN  /\ n \in DOMAIN Plan
               /\ \A b \in DOMAIN Plan : n <= b
               /\ Plan[n] = [name |-> Word.name, values |-> {Word.value}]
               /\ Wanted(line, n) = [b \in DOMAIN Plan \ {n} |-> Plan[b]]
<1> DEFINE n == done + 1
<1>1. Plan = Wanted(line, done)
  BY AtWord, PlanAt
<1>2. Word = line.words[n] /\ line \in Lines /\ n \in 1 .. Len(line.words)
  BY AtWord
<1>3. Assignment(Word) = [name |-> Word.name, values |-> {Word.value}]
  BY DEF Assignment
<1>4. /\ n \in DOMAIN Wanted(line, done)
      /\ \A b \in DOMAIN Wanted(line, done) : n <= b
      /\ Wanted(line, done)[n] = Assignment(line.words[n])
      /\ Wanted(line, n) = [b \in DOMAIN Wanted(line, done) \ {n} |-> Wanted(line, done)[b]]
  BY <1>2, AtWord, WantedAfterWrite
<1> HIDE DEF n
<1>5. /\ n \in DOMAIN Plan
      /\ \A b \in DOMAIN Plan : n <= b
      /\ Plan[n] = [name |-> Word.name, values |-> {Word.value}]
      /\ Wanted(line, n) = [b \in DOMAIN Plan \ {n} |-> Plan[b]]
  BY ONLY <1>1, <1>2, <1>3, <1>4
<1> QED BY <1>5 DEF n

LEMMA WriteRefines == IInv /\ process_write => Told!Next
<1> SUFFICES ASSUME IInv, process_write PROVE Told!Next
  OBVIOUS
<1>0. Working /\ pc = "working" /\ Word.value # None
  BY DEF process_write, Working
<1>1. CASE \E m \in {"unknown", "readonly"} : Answer(m, buf)
  BY <1>0, <1>1, ErrorRefines DEF Located
<1>2. CASE Answer(BadValue, BadPlace)
  BY <1>0, <1>2, ErrorRefines DEF BadValue, Located
<1>3. CASE Word.name \in Settings /\ Scans(Word) /\ Set
  <2> DEFINE n == done + 1
  <2>1. Plan' = Wanted(line, n)
    BY <1>0, <1>3, PlanNext DEF Set, Advance
  <2>2. /\ n \in DOMAIN Plan
        /\ \A b \in DOMAIN Plan : n <= b
        /\ Plan[n] = [name |-> Word.name, values |-> {Word.value}]
        /\ Wanted(line, n) = [b \in DOMAIN Plan \ {n} |-> Plan[b]]
    BY <1>0, <1>3, PlanHere
  <2>3. settings' = [settings EXCEPT ![Plan[n].name] = Word.value] /\ Word.value \in Plan[n].values
    BY <1>3, <2>2 DEF Set
  <2>4. verdict = "waiting" /\ UNCHANGED verdict
    BY <1>0, <1>3 DEF IInv, Phase, TypeOK, Set
  <2> HIDE DEF n
  <2>5. Told!Assign
    BY ONLY <2>1, <2>2, <2>3, <2>4 DEF Told!Assign
  <2> QED BY <2>5 DEF Told!Next
<1> QED BY <1>1, <1>2, <1>3 DEF process_write

LEMMA FinishRefines == IInv /\ Finish => [Told!Next]_Told!vars
<1> SUFFICES ASSUME IInv, Finish PROVE [Told!Next]_Told!vars
  OBVIOUS
<1>1. pc = "working" /\ done = Len(line.words) /\ Answer(None, 0) /\ line \in Lines /\ Taken(line)
  BY DEF Finish, IInv, Phase
<1>2. Assigning(line, done) = {}
  BY <1>1, LineTyped DEF Assigning
<1>3. Plan = Nothing /\ Plan' = Nothing
  BY <1>1, <1>2, WantedAtEnd, PlanAt, PlanNext DEF Answer
<1> QED BY <1>1, <1>3, Stutters DEF Answer

LEMMA ConcludeRefines == IInv /\ Conclude => Told!Next
<1> SUFFICES ASSUME IInv, Conclude PROVE Told!Next
  OBVIOUS
<1>1. verdict = "waiting" /\ UNCHANGED settings /\ Plan' = Nothing
  BY PlanNext DEF IInv, TypeOK, Phase, Conclude
<1>2. CASE verdict' = "ok"
  <2>1. Plan = Nothing
    BY <1>2, PlanAt DEF Conclude
  <2> QED BY <1>1, <1>2, <2>1 DEF Told!Next, Told!Succeed, Told!Nothing, Nothing, Told!Unknown, Unknown
<1>3. CASE verdict' = "failed"
  BY <1>1, <1>3 DEF Told!Next, Told!Fail, Told!Nothing, Nothing, Told!Unknown, Unknown
<1> QED BY <1>2, <1>3 DEF Conclude

\* A cut leaves the setting being written as it may, and the others as it should.
LEMMA PowerCutRefines == IInv /\ PowerCut => Told!Next
<1> SUFFICES ASSUME IInv, PowerCut PROVE Told!Next
  OBVIOUS
<1>1. Told!Kept = InEeprom /\ Told!Abandoned = Abandoned
  BY DEF IInv, TypeOK, Told!Kept, InEeprom, Told!Abandoned, Abandoned, Told!Unknown, Unknown
<1>2. CASE settings' = InEeprom
  <2>1. Plan' \in {Plan, Abandoned}
    <3>1. CASE pc \in {"idle", "asleep"}
      <4>1. pc' = pc /\ UNCHANGED lineVars
        BY <3>1 DEF PowerCut
      <4> QED BY <3>1, <4>1, PlanAt, PlanNext DEF lineVars
    <3>2. CASE pc \notin {"idle", "asleep"}
      BY <3>2, PlanNext DEF PowerCut
    <3> QED BY <3>1, <3>2
  <2> QED BY <1>1, <1>2, <2>1 DEF PowerCut, Told!Next, Told!PowerCut
<1>3. ASSUME Writing, NEW value \in Torn, settings' = [InEeprom EXCEPT ![Word.name] = value]
      PROVE  Told!Next
  <2> DEFINE n == done + 1
  <2>1. /\ Working /\ pc = "working" /\ Word.value # None /\ Word.name \in Settings /\ Scans(Word)
        /\ Word.name \in Persistent /\ settings[Word.name] # Word.value
    BY <1>3 DEF Writing, Working, Persistent, Settings
  <2>2. /\ n \in DOMAIN Plan
        /\ \A b \in DOMAIN Plan : n <= b
        /\ Plan[n] = [name |-> Word.name, values |-> {Word.value}]
    BY <2>1, PlanHere
  <2> HIDE DEF n
  <2>3. Plan[n].name = Word.name /\ settings[Plan[n].name] \notin Plan[n].values
    BY <2>1, <2>2
  <2>4. settings' = [InEeprom EXCEPT ![Word.name] = settings'[Word.name]]
    <3>1. DOMAIN InEeprom = Settings
      BY DEF InEeprom
    <3> QED BY <1>3, <2>1, <3>1
  <2>5. Plan' = Abandoned
    BY <2>1, PlanNext DEF PowerCut
  <2>6. verdict = "waiting" /\ UNCHANGED verdict
    BY <2>1 DEF IInv, Phase, TypeOK, PowerCut
  <2>7. Told!Spoil
    BY ONLY <1>1, <2>1, <2>2, <2>3, <2>4, <2>5, <2>6 DEF Told!Spoil
  <2> QED BY <2>7 DEF Told!Next
<1> QED BY <1>2, <1>3 DEF PowerCut

LEMMA StepRefines == IInv /\ [Next]_vars => [Told!Next]_Told!vars
<1> SUFFICES ASSUME IInv, [Next]_vars PROVE [Told!Next]_Told!vars
  OBVIOUS
<1>1. CASE UNCHANGED vars
  <2>1. Plan' = Plan
    BY <1>1 DEF Plan, vars, lineVars, answerVars
  <2> QED BY <1>1, <2>1, Stutters DEF vars
<1>2. CASE Lose
  <2>1. pc' = "silent" /\ UNCHANGED <<settings, verdict>> /\ pc \in {"sent", "answered"}
    BY <1>2 DEF Lose
  <2> QED BY <2>1, GiveUp
<1> QED
  BY <1>1, <1>2, SendRefines, SleepRefines, ReceiveRefines, ReadRefines, WriteRefines,
     FinishRefines, ConcludeRefines, PowerCutRefines DEF Next

\* Whatever lines are sent, the settings are assigned in the order of the line
\* and success is told only of a line all of whose assignments were made.  A
\* power cut, in the middle of a write to the EEPROM too, spoils at most the
\* setting being assigned, and never one that had its value already
\* (ascii.c:230-258, sync_clock.c:69-100).
THEOREM AssignmentsRefined == Spec => ImplementsAssignments
<1>1. Init => Told!Init
  BY PlanAt DEF Init, Told!Init, Told!Nothing, Nothing, Told!Unknown, Unknown
<1> QED BY <1>1, InitHolds, Inductive, StepRefines, PTL DEF Spec, ImplementsAssignments, Told!Spec
=============================================================================
