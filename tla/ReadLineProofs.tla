--------------------------- MODULE ReadLineProofs ---------------------------
(***************************************************************************)
(* Proofs about read() (ReadLine.tla): the array it is given, the line it  *)
(* gives back and the echo on the screen, for any length of the array, any *)
(* keyboard buffer and any width of the screen.                            *)
(***************************************************************************)
EXTENDS ReadLine, SequenceTheorems, TLAPS

\* The characters taken are in the array and leave a cell for the '\0'.
Inv ==
  /\ pc \in {"user", "loop", "back"}
  /\ len \in 0 .. LEN
  /\ s \in [0 .. LEN - 1 -> Key \cup {OLD, NUL}]
  /\ count \in 0 .. LEN - 1
  /\ count > 0 => count < len
  /\ OnlyItsCells

LEMMA ReturnInv ==
  ASSUME Inv, Return(count), UNCHANGED len
  PROVE  Inv'
BY ReadLineAssumption DEF Inv, Return, OnlyItsCells

LEMMA InvNext == Inv /\ [Next]_vars => Inv'
<1> SUFFICES ASSUME Inv, [Next]_vars
             PROVE  Inv'
  OBVIOUS
<1>1. ASSUME NEW ch \in Key \cup {ENTER, BS}, Arrive(ch)
      PROVE  Inv'
  BY <1>1 DEF Arrive, Inv, OnlyItsCells
<1>2. ASSUME NEW n \in 0 .. LEN, NEW col \in 0 .. WIDTH - 1, call(n, col)
      PROVE  Inv'
  BY <1>2, ReadLineAssumption DEF call, Inv, OnlyItsCells
<1>3. CASE enter
  BY <1>3, ReturnInv DEF enter
<1>4. CASE backspace
  <2>1. count' \in 0 .. LEN - 1 /\ (count' > 0 => count' < len)
    BY <1>4, ReadLineAssumption DEF backspace, Inv
  <2>2. pc' = "loop" /\ UNCHANGED <<pc, len, s>>
    BY <1>4 DEF backspace
  <2> QED
    BY <2>1, <2>2 DEF Inv, OnlyItsCells
<1>5. ASSUME NEW ch \in Key, store(ch)
      PROVE  Inv'
  BY <1>5, ReadLineAssumption DEF store, HasRoom, Inv, OnlyItsCells
<1>6. CASE full
  BY <1>6, ReturnInv DEF full
<1>7. CASE UNCHANGED vars
  BY <1>7 DEF vars, Inv, OnlyItsCells
<1> QED
  BY <1>1, <1>2, <1>3, <1>4, <1>5, <1>6, <1>7 DEF Next, sys_read

\* Whatever is typed, read() writes in the cells it was given only, and when it has
\* returned there is a '\0' behind the characters it counts.
THEOREM ReadStaysInside == Spec => []OnlyItsCells
<1>1. Init => Inv
  BY ReadLineAssumption DEF Init, Inv, OnlyItsCells
<1>2. Inv => OnlyItsCells
  BY DEF Inv
<1> QED
  BY <1>1, <1>2, InvNext, PTL DEF Spec

----------------------------------------------------------------------------
(* The line.                                                               *)

\* Line holds the first count cells of s.
LineSound ==
  /\ Line \in Seq(Key \cup {OLD, NUL}) /\ Len(Line) = count
  /\ Line = <<>> <=> count = 0
  /\ \A i \in 1 .. count : Line[i] = s[i - 1]

\* So it is in every state of read().
LEMMA LineFacts == Inv => LineSound
<1> SUFFICES ASSUME Inv
             PROVE  LineSound
  OBVIOUS
<1>1. count \in Nat /\ \A i \in 0 .. count - 1 : s[i] \in Key \cup {OLD, NUL}
  BY ReadLineAssumption DEF Inv
<1>2. Line \in [1 .. count -> Key \cup {OLD, NUL}]
  BY <1>1 DEF Line
<1>3. Line \in Seq(Key \cup {OLD, NUL}) /\ Len(Line) = count
  BY <1>1, <1>2
<1>4. \A i \in 1 .. count : Line[i] = s[i - 1]
  BY DEF Line
<1>5. Line = <<>> <=> count = 0
  BY <1>1, <1>3
<1> QED
  BY <1>3, <1>4, <1>5 DEF LineSound

\* What sys_read() does is what the editor does with the character it takes.
LEMMA EditorStep ==
  ASSUME Inv, [Next]_vars
  PROVE  \/ Editor!Take
         \/ \E ch \in Key \cup {ENTER, BS} : Editor!Type(ch)
         \/ \E n \in 0 .. LEN : Editor!Open(n)
         \/ UNCHANGED <<queue, Line, pc = "loop" /\ HasRoom>>
<1> DEFINE room == IF len > 0 THEN len - 1 ELSE 0
           open == pc = "loop" /\ HasRoom
<1>1. /\ count \in Nat /\ len \in Nat /\ LEN \in Nat /\ len <= LEN
      /\ s \in [0 .. LEN - 1 -> Key \cup {OLD, NUL}] /\ count \in 0 .. LEN - 1
  BY ReadLineAssumption DEF Inv
<1>sound. LineSound /\ LineSound'
  <2>1. Inv'
    BY InvNext
  <2>2. Inv' => LineSound'
    BY LineFacts, PTL
  <2> QED
    BY <2>1, <2>2, LineFacts
<1>2. ASSUME NEW ch \in Key \cup {ENTER, BS}, Arrive(ch)
      PROVE  Editor!Type(ch)
  BY <1>2 DEF Arrive, Editor!Type, Line, HasRoom
<1>3. ASSUME NEW n \in 0 .. LEN, NEW col \in 0 .. WIDTH - 1, call(n, col)
      PROVE  \E m \in 0 .. LEN : Editor!Open(m)
  <2> DEFINE m == IF n > 0 THEN n - 1 ELSE 0
  <2>1. m \in 0 .. LEN
    BY ReadLineAssumption
  <2>2. ~open /\ count' = 0 /\ len' = n /\ pc' = "loop" /\ queue' = queue
    BY <1>3 DEF call
  <2>3. Line' = <<>>
    BY <2>2, <1>sound DEF LineSound
  <2>4. open' = (m > 0) /\ room' = m
    BY <2>2, ReadLineAssumption DEF HasRoom
  <2> QED
    BY <2>1, <2>2, <2>3, <2>4 DEF Editor!Open
<1>4. CASE enter
  <2>1. /\ queue # <<>> /\ ENTER = Head(queue) /\ queue' = Tail(queue)
        /\ s' = [s EXCEPT ![count] = NUL] /\ pc' = "back" /\ count' = count /\ len' = len
        /\ open
    BY <1>4 DEF enter, kgetch, Return
  <2>2. Line' = Line
    BY <1>1, <2>1 DEF Line
  <2>3. Editor!Edited(Line, ENTER) = Line
    BY ReadLineAssumption DEF Editor!Edited
  <2>5. ~open' /\ room' = room
    BY <2>1
  <2>4. Editor!Take
    BY <2>1, <2>2, <2>3, <2>5 DEF Editor!Take
  <2> QED
    BY <2>4
<1>5. CASE backspace
  <2>1. /\ queue # <<>> /\ BS = Head(queue) /\ queue' = Tail(queue)
        /\ s' = s /\ pc' = "loop" /\ pc = "loop" /\ len' = len /\ HasRoom
        /\ count' = IF count > 0 THEN count - 1 ELSE 0
    BY <1>1, <1>5 DEF backspace, kgetch
  <2>2. count' \in Nat /\ HasRoom' /\ count' < room /\ BS # ENTER
    BY <1>1, <2>1, ReadLineAssumption DEF HasRoom
  <2>3. Line' = IF Line = <<>> THEN Line ELSE SubSeq(Line, 1, Len(Line) - 1)
    <3>1. CASE count = 0
      BY <1>1, <2>1, <3>1, <1>sound DEF LineSound
    <3>2. CASE count > 0
      <4>1. Len(Line) = count /\ Line # <<>>
        BY <1>1, <3>2, <1>sound DEF LineSound
      <4>2. SubSeq(Line, 1, count - 1) = [i \in 1 .. count - 1 |-> Line[i]]
        BY <1>1, <3>2, <4>1, <1>sound DEF LineSound
      <4>3. Line' = [i \in 1 .. count - 1 |-> Line[i]]
        BY <1>1, <2>1, <3>2 DEF Line
      <4> QED
        BY <4>1, <4>2, <4>3
    <3> QED
      BY <1>1, <3>1, <3>2
  <2>4. Len(Line') = count'
    BY <2>2, <1>sound DEF LineSound
  <2>5. Editor!Edited(Line, BS) = Line'
    BY <2>2, <2>3 DEF Editor!Edited
  <2>6. Editor!Take
    BY <2>1, <2>2, <2>4, <2>5 DEF Editor!Take
  <2> QED
    BY <2>6
<1>6. ASSUME NEW ch \in Key, store(ch)
      PROVE  Editor!Take
  <2>1. /\ queue # <<>> /\ ch = Head(queue) /\ queue' = Tail(queue)
        /\ s' = [s EXCEPT ![count] = ch] /\ count' = count + 1
        /\ pc' = "loop" /\ pc = "loop" /\ len' = len /\ HasRoom
    BY <1>6 DEF store, kgetch
  <2>2. count' \in Nat /\ (HasRoom' <=> count' < room) /\ ch # ENTER /\ ch # BS
    BY <1>1, <2>1, ReadLineAssumption DEF HasRoom
  <2>3. Line' = Append(Line, ch)
    <3>1. Len(Line) = count
      BY <1>1, <1>sound DEF LineSound
    <3>2. /\ Append(Line, ch) \in Seq(Key \cup {OLD, NUL})
          /\ Len(Append(Line, ch)) = count + 1
          /\ \A i \in 1 .. count + 1 :
               Append(Line, ch)[i] = IF i = count + 1 THEN ch ELSE Line[i]
      BY <1>1, <3>1, <1>sound DEF LineSound
    <3>3. Len(Line') = count + 1 /\ Line' \in Seq(Key \cup {OLD, NUL})
      BY <1>sound, <2>1 DEF LineSound
    <3>4. ASSUME NEW i \in 1 .. count + 1
          PROVE  Line'[i] = Append(Line, ch)[i]
      BY <1>1, <1>sound, <2>1, <3>2 DEF LineSound
    <3> QED
      BY <1>1, <3>2, <3>3, <3>4, SeqEqual
  <2>4. Len(Line') = count'
    BY <2>2, <1>sound DEF LineSound
  <2>5. Editor!Edited(Line, ch) = Line'
    BY <2>2, <2>3 DEF Editor!Edited
  <2> QED
    BY <2>1, <2>2, <2>4, <2>5 DEF Editor!Take
<1>7. CASE full
  <2>1. Line' = Line
    BY <1>1, <1>7 DEF full, Return, Line
  <2> QED
    BY <1>7, <2>1 DEF full, Return
<1>8. CASE UNCHANGED vars
  BY <1>8 DEF vars, Line, HasRoom
<1> QED
  BY <1>2, <1>3, <1>4, <1>5, <1>6, <1>7, <1>8 DEF Next, sys_read

\* What a call gives back is what the characters typed leave of the line, and it takes
\* no character after its end.
THEOREM ReadImplementsEditor == Spec => ReadEdits
<1>1. Init => Inv
  BY ReadLineAssumption DEF Init, Inv, OnlyItsCells
<1>2. Inv /\ [Next]_vars =>
        [\/ Editor!Take
         \/ \E ch \in Key \cup {ENTER, BS} : Editor!Type(ch)
         \/ \E n \in 0 .. LEN : Editor!Open(n)]_<<queue, Line, pc = "loop" /\ HasRoom>>
  BY EditorStep
<1> QED
  BY <1>1, <1>2, InvNext, PTL DEF Spec, ReadEdits

----------------------------------------------------------------------------
(* The echo.                                                               *)

Ink == Key \cup {BLANK}

\* A screen whose cursor is on line 0.
Top == [cell: [Cell -> Ink], line: {0}, col: 0 .. WIDTH - 1]

\* A string of one character, and one of three, on the console: what the recursive
\* function of console_putbytes() comes to.
LEMMA PutOne ==
  ASSUME NEW t, NEW a
  PROVE  console_putbytes(t, <<a>>) = console_putchar(t, a)
<1> DEFINE F(f) == [i \in 0 .. Len(<<a>>) |-> IF i = 0 THEN t ELSE console_putchar(f[i - 1], <<a>>[i])]
           put == CHOOSE f : f = F(f)
           g == [i \in 0 .. 1 |-> IF i = 0 THEN t ELSE console_putchar(t, a)]
<1>1. g = F(g)
  OBVIOUS
<1>2. put = F(put)
  <2> HIDE DEF F, g
  <2> QED
    BY <1>1
<1>3. console_putbytes(t, <<a>>) = put[Len(<<a>>)]
  BY DEF console_putbytes
<1>4. put[0] = t /\ put[1] = console_putchar(put[0], a)
  <2> HIDE DEF put
  <2> QED
    BY <1>2
<1> HIDE DEF put
<1> QED
  BY <1>3, <1>4

LEMMA PutThree ==
  ASSUME NEW t, NEW a, NEW b, NEW d
  PROVE  console_putbytes(t, <<a, b, d>>) = console_putchar(console_putchar(console_putchar(t, a), b), d)
<1> DEFINE F(f) == [i \in 0 .. Len(<<a, b, d>>) |->
                      IF i = 0 THEN t ELSE console_putchar(f[i - 1], <<a, b, d>>[i])]
           put == CHOOSE f : f = F(f)
           g == [i \in 0 .. 3 |-> IF i = 0 THEN t ELSE
                                  IF i = 1 THEN console_putchar(t, a) ELSE
                                  IF i = 2 THEN console_putchar(console_putchar(t, a), b) ELSE console_putchar(console_putchar(console_putchar(t, a), b), d)]
<1>1. g = F(g)
  OBVIOUS
<1>2. put = F(put)
  <2> HIDE DEF F, g
  <2> QED
    BY <1>1
<1>3. console_putbytes(t, <<a, b, d>>) = put[Len(<<a, b, d>>)]
  BY DEF console_putbytes
<1>4. put[0] = t /\ put[1] = console_putchar(put[0], a) /\ put[2] = console_putchar(put[1], b) /\ put[3] = console_putchar(put[2], d)
  <2> HIDE DEF put
  <2> QED
    BY <1>2
<1> HIDE DEF put
<1> QED
  BY <1>3, <1>4

\* A character before the last column stays on its line.
LEMMA PutInk ==
  ASSUME NEW t \in Top, NEW ch \in Ink, t.col + 1 < WIDTH
  PROVE  console_putchar(t, ch) = [cell |-> [t.cell EXCEPT ![t.col] = ch], line |-> 0,
                                   col |-> t.col + 1]
<1> DEFINE u == [cell |-> [t.cell EXCEPT ![t.col] = ch], line |-> 0, col |-> t.col + 1]
<1>1. WIDTH \in Nat /\ ch \notin {BS, ENTER}
  BY ReadLineAssumption DEF Ink
<1>2. t.line = 0 /\ t.col \in Nat /\ WIDTH * t.line + t.col = t.col
  <2>1. t.line = 0 /\ t.col \in 0 .. WIDTH - 1
    BY DEF Top
  <2>2. WIDTH * t.line = 0
    BY <1>1, <2>1
  <2> QED
    BY <1>1, <2>1, <2>2
<1>3. Inked(t, ch) = u
  <2>1. Inked(t, ch) = [t EXCEPT !.cell[t.col] = ch, !.col = @ + 1]
    BY <1>1, <1>2 DEF Inked
  <2> QED
    BY <2>1 DEF Top
<1>4. Moved(u, ch) = u
  BY <1>1 DEF Moved
<1>5. u.line = 0 /\ u.col = t.col + 1
  OBVIOUS
<1> HIDE DEF u
<1>6. WrapColumn(u) = u /\ WrapLine(u) = u /\ NewLine(u, t.line) = u
  BY <1>2, <1>5 DEF WrapColumn, WrapLine, NewLine, HEIGHT
<1> QED
  BY <1>3, <1>4, <1>6 DEF console_putchar, u

\* A Backspace after the first column takes the cursor back by one.
LEMMA PutBs ==
  ASSUME NEW t \in Top, t.col > 0
  PROVE  /\ console_putchar(t, BS) = [t EXCEPT !.col = t.col - 1]
         /\ console_putchar(t, BS) \in Top
<1> DEFINE u == [t EXCEPT !.col = t.col - 1]
<1>1. WIDTH \in Nat /\ BS # ENTER
  BY ReadLineAssumption
<1>2. t.line = 0 /\ t.col \in Nat /\ t.col < WIDTH
  BY <1>1 DEF Top
<1>3. u \in Top /\ u.line = 0 /\ u.col < WIDTH
  BY <1>1, <1>2 DEF Top
<1>4. Inked(t, BS) = t /\ Moved(t, BS) = u
  BY <1>1, <1>2 DEF Inked, Moved
<1>5. WrapColumn(u) = u /\ WrapLine(u) = u /\ NewLine(u, t.line) = u
  BY <1>2, <1>3 DEF WrapColumn, WrapLine, NewLine, HEIGHT
<1> QED
  BY <1>3, <1>4, <1>5 DEF console_putchar

\* While the prompt and the line fit in the width of the screen, the screen shows them.
Shown ==
  /\ term \in Top /\ term.col = start + count
  /\ \A i \in 0 .. WIDTH - 1 :
       term.cell[i] = IF i \in start .. start + count - 1 THEN s[i - start] ELSE BLANK

EchoInv ==
  /\ Inv
  /\ start \in 0 .. WIDTH - 1
  /\ pc = "loop" /\ start + len - 1 < WIDTH => Shown

LEMMA EchoNext == EchoInv /\ [Next]_vars => EchoInv'
<1> SUFFICES ASSUME EchoInv, [Next]_vars
             PROVE  start' \in 0 .. WIDTH - 1 /\ (pc' = "loop" /\ start' + len' - 1 < WIDTH => Shown')
  BY InvNext DEF EchoInv
<1>1. /\ WIDTH \in Nat /\ WIDTH > 1 /\ LEN \in Nat
      /\ len \in 0 .. LEN /\ count \in 0 .. LEN - 1 /\ start \in 0 .. WIDTH - 1
      /\ s \in [0 .. LEN - 1 -> Key \cup {OLD, NUL}]
  BY ReadLineAssumption DEF EchoInv, Inv
<1>2. ASSUME UNCHANGED <<pc, len, s, count, term, start>>
      PROVE  Shown' = Shown
  BY <1>2 DEF Shown
<1>3. ASSUME NEW ch \in Key \cup {ENTER, BS}, Arrive(ch)
      PROVE  start' \in 0 .. WIDTH - 1 /\ (pc' = "loop" /\ start' + len' - 1 < WIDTH => Shown')
  BY <1>2, <1>3 DEF Arrive, EchoInv
<1>4. ASSUME NEW n \in 0 .. LEN, NEW col \in 0 .. WIDTH - 1, call(n, col)
      PROVE  start' \in 0 .. WIDTH - 1 /\ (pc' = "loop" /\ start' + len' - 1 < WIDTH => Shown')
  <2>1. start' = col /\ count' = 0 /\ term' = Prompted(col)
    BY <1>4 DEF call
  <2>2. Prompted(col) \in Top
    BY <1>1 DEF Prompted, Top, Ink
  <2>3. \A i \in 0 .. WIDTH - 1 : Prompted(col).cell[i] = BLANK
    BY <1>1 DEF Prompted, Cell, HEIGHT
  <2>4. Prompted(col).col = col
    BY DEF Prompted
  <2> QED
    BY <1>1, <2>1, <2>2, <2>3, <2>4 DEF Shown
<1>5. CASE enter
  BY <1>5 DEF enter, Return, EchoInv
<1>6. CASE full
  BY <1>6 DEF full, Return, EchoInv
<1>7. CASE backspace
  <2>1. pc = "loop" /\ UNCHANGED <<pc, len, s, start>> /\ count < len - 1
    BY <1>7 DEF backspace, HasRoom
  <2>2. CASE count = 0 /\ UNCHANGED <<count, term>>
    BY <1>2, <2>1, <2>2 DEF EchoInv
  <2>3. CASE count > 0 /\ count' = count - 1 /\ term' = console_putbytes(term, <<BS, BLANK, BS>>)
    <3> SUFFICES ASSUME start + len - 1 < WIDTH
                 PROVE  Shown'
      BY <1>1, <2>1
    <3> DEFINE back == [term EXCEPT !.col = term.col - 1]
               blank == [term.cell EXCEPT ![start + count - 1] = BLANK]
               erased == [cell |-> blank, line |-> 0, col |-> start + count]
               last == [cell |-> blank, line |-> 0, col |-> start + count - 1]
    <3>1. Shown
      BY <2>1 DEF EchoInv
    <3>2. term \in Top /\ term.col = start + count /\ term.col > 0 /\ term.col < WIDTH
      BY <1>1, <2>1, <2>3, <3>1 DEF Shown
    <3>3. console_putchar(term, BS) = back /\ back \in Top
      BY <3>2, PutBs
    <3>4. back.col = start + count - 1 /\ back.cell = term.cell /\ back.col + 1 < WIDTH
      BY <1>1, <3>2 DEF Top
    <3>5. console_putchar(back, BLANK) = erased
      <4>1. console_putchar(back, BLANK) = [cell |-> [back.cell EXCEPT ![back.col] = BLANK],
                                            line |-> 0, col |-> back.col + 1]
        <5> HIDE DEF back
        <5> QED
          BY <3>3, <3>4, PutInk DEF Ink
      <4> HIDE DEF back
      <4> QED
        BY <1>1, <3>4, <4>1
    <3>6. erased \in Top /\ erased.col = start + count /\ erased.col > 0
      <4>1. blank \in [Cell -> Ink]
        BY <3>2 DEF Top, Ink
      <4> QED
        BY <1>1, <3>2, <4>1 DEF Top
    <3>7. console_putchar(erased, BS) = last /\ last \in Top
      <4>1. /\ console_putchar(erased, BS) = [erased EXCEPT !.col = erased.col - 1]
            /\ console_putchar(erased, BS) \in Top
        <5> HIDE DEF erased
        <5> QED
          BY <3>6, PutBs
      <4>2. [erased EXCEPT !.col = erased.col - 1] = last
        <5> HIDE DEF blank
        <5> QED
          BY <1>1
      <4> QED
        BY <4>1, <4>2
    <3>8. last.col = start + count - 1 /\ last.cell = blank
      OBVIOUS
    <3>9. term' = last
      <4> HIDE DEF back, erased, last
      <4> QED
        BY <2>3, <3>3, <3>5, <3>7, PutThree
    <3> HIDE DEF back, erased, last
    <3>10. /\ term' \in Top /\ term'.col = start' + count'
           /\ term'.cell = blank
      BY <1>1, <2>1, <2>3, <3>7, <3>8, <3>9
    <3>11. ASSUME NEW i \in 0 .. WIDTH - 1
           PROVE  term'.cell[i] = IF i \in start' .. start' + count' - 1 THEN s'[i - start'] ELSE BLANK
      <4>1. i \in DOMAIN term.cell
        BY <1>1, <3>2 DEF Top, Cell, HEIGHT
      <4>2. term.cell[i] = IF i \in start .. start + count - 1 THEN s[i - start] ELSE BLANK
        BY <3>1 DEF Shown
      <4> QED
        BY <1>1, <2>1, <2>3, <3>10, <4>1, <4>2
    <3> QED
      BY <3>10, <3>11 DEF Shown
  <2> QED
    BY <1>7, <2>2, <2>3 DEF backspace
<1>8. ASSUME NEW ch \in Key, store(ch)
      PROVE  start' \in 0 .. WIDTH - 1 /\ (pc' = "loop" /\ start' + len' - 1 < WIDTH => Shown')
  <2>1. /\ pc = "loop" /\ UNCHANGED <<pc, len, start>> /\ count < len - 1
        /\ s' = [s EXCEPT ![count] = ch] /\ count' = count + 1
        /\ term' = console_putbytes(term, <<ch>>)
    BY <1>8 DEF store, HasRoom
  <2> SUFFICES ASSUME start + len - 1 < WIDTH
               PROVE  Shown'
    BY <1>1, <2>1
  <2>2. Shown
    BY <2>1 DEF EchoInv
  <2>3. term \in Top /\ term.col = start + count /\ term.col + 1 < WIDTH
    BY <1>1, <2>1, <2>2 DEF Shown
  <2> DEFINE cell == [term.cell EXCEPT ![term.col] = ch]
  <2>4. term' = [cell |-> cell, line |-> 0, col |-> term.col + 1]
    <3>1. console_putchar(term, ch) = [cell |-> cell, line |-> 0, col |-> term.col + 1]
      BY <2>3, PutInk DEF Ink
    <3> HIDE DEF cell
    <3> QED
      BY <2>1, <3>1, PutOne
  <2>5. term' \in Top /\ term'.col = start' + count' /\ term'.cell = cell
    <3>1. cell \in [Cell -> Ink]
      BY <2>3 DEF Top, Ink
    <3>2. term.col + 1 \in 0 .. WIDTH - 1
      BY <1>1, <2>3
    <3> HIDE DEF cell
    <3> QED
      BY <1>1, <2>1, <2>3, <2>4, <3>1, <3>2 DEF Top
  <2>6. ASSUME NEW i \in 0 .. WIDTH - 1
        PROVE  term'.cell[i] = IF i \in start' .. start' + count' - 1 THEN s'[i - start'] ELSE BLANK
    <3>1. i \in DOMAIN term.cell
      BY <1>1, <2>3 DEF Top, Cell, HEIGHT
    <3>2. term.cell[i] = IF i \in start .. start + count - 1 THEN s[i - start] ELSE BLANK
      BY <2>2 DEF Shown
    <3>3. term'.cell[i] = IF i = start + count THEN ch ELSE term.cell[i]
      BY <2>3, <2>5, <3>1
    <3>4. s'[i - start'] = IF i = start + count THEN ch ELSE s[i - start]
      BY <1>1, <2>1
    <3>5. start' = start /\ count' = count + 1
      BY <2>1
    <3>6. i \in start' .. start' + count' - 1 <=> i \in start .. start + count - 1 \/ i = start + count
      BY <1>1, <3>5
    <3>7. i = start + count => i \notin start .. start + count - 1
      BY <1>1
    <3> HIDE DEF cell
    <3>8. CASE i = start + count
      BY <3>3, <3>4, <3>6, <3>8
    <3>9. CASE i # start + count
      BY <3>2, <3>3, <3>4, <3>6, <3>9
    <3> QED
      BY <3>8, <3>9
  <2> QED
    BY <2>4, <2>5, <2>6 DEF Shown
<1>9. CASE UNCHANGED vars
  BY <1>2, <1>9 DEF vars, EchoInv
<1> QED
  BY <1>3, <1>4, <1>5, <1>6, <1>7, <1>8, <1>9 DEF Next, sys_read

\* Whatever is typed, while the prompt and the line fit in the width of the screen, it
\* shows the line that the array holds, and a Backspace takes its character off both.
THEOREM EchoFollowsLine == Spec => []EchoIsTheLine
<1>1. Init => EchoInv
  BY ReadLineAssumption DEF Init, EchoInv, Inv, OnlyItsCells
<1>2. EchoInv => EchoIsTheLine
  BY DEF EchoInv, EchoIsTheLine, Shown, Top
<1> QED
  BY <1>1, <1>2, EchoNext, PTL DEF Spec
=============================================================================
