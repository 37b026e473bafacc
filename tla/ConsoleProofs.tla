--------------------------- MODULE ConsoleProofs ---------------------------
(***************************************************************************)
(* Proofs about Console.tla, for every size of the screen and every number *)
(* of processes that echo with interrupts on: where the cursor is, what    *)
(* the card shows of it, and what the screen shows of the text.            *)
(***************************************************************************)
EXTENDS Console, TLAPS

\* From the move of the cursor to the end of the tests that bring it back.
ColTest  == {"wrap_column", "wrap_start"}
LineTest == ColTest \cup {"line_start", "wrap_read", "wrap_next", "wrap_line", "top"}

\* A cursor outside the screen has a reader that is about to bring it back.
Homing ==
  /\ con.line >= VGA_HEIGHT => \E r \in Reader : pc[r] \in LineTest
  /\ con.col >= VGA_WIDTH => \E r \in Reader : pc[r] \in ColTest

\* clear_line() does not leave its line.
InLine == \A r \in Reader : pc[r] = "blank" => reg[r].col < VGA_WIDTH

Inv == TypeOK /\ Homing /\ InLine

LEMMA ByteFacts ==
  /\ 0 \in Byte
  /\ \A n \in Int : n % BYTE \in Byte
  /\ \A n \in Byte : n \in Nat /\ n - 1 \in Int
  /\ \A n \in Byte : n >= VGA_HEIGHT \/ n < VGA_HEIGHT
  /\ 0 < VGA_HEIGHT /\ 0 < VGA_WIDTH
BY ConsoleAssumption DEF Byte

LEMMA PositionType ==
  ASSUME NEW v, v.line \in Byte, v.col \in Byte
  PROVE  Low(v) \in Byte /\ High(v) \in Byte
<1>1. \A x, y, z \in Nat : x * y + z \in Nat
  OBVIOUS
<1>2. Position(v) \in Nat
  BY <1>1, ConsoleAssumption DEF Position, Byte
<1>3. BYTE \in Nat \ {0}
  BY ConsoleAssumption
<1>4. Position(v) \div BYTE \in Nat
  BY <1>2, <1>3
<1> QED
  BY <1>2, <1>4, ByteFacts DEF Low, High

LEMMA SetCursorFacts ==
  ASSUME NEW v \in Con
  PROVE  /\ set_cursor(v) \in Con
         /\ set_cursor(v).line = v.line /\ set_cursor(v).col = v.col
BY PositionType DEF set_cursor, Con

LEMMA ClearScreenFacts ==
  ASSUME NEW v \in Con
  PROVE  /\ clear_screen(v) \in Con
         /\ clear_screen(v).line = 0 /\ clear_screen(v).col = 0
<1> DEFINE w == [v EXCEPT !.scr_tab = [i \in Cell |-> "blank"], !.line = 0, !.col = 0,
                       !.fresh = {}, !.cleared = TRUE, !.mixed = @ /\ v.torn]
<1>1. (v.mixed /\ v.torn) \in BOOLEAN
  BY DEF Con
<1>2. w \in Con /\ w.line = 0 /\ w.col = 0
  BY <1>1, ByteFacts DEF Con
<1> QED
  BY <1>2, SetCursorFacts DEF clear_screen

LEMMA InkFacts ==
  ASSUME NEW v \in Con, NEW i
  PROVE  /\ Ink(v, i) \in Con /\ Ink(v, i).line = v.line /\ Ink(v, i).col = v.col
         /\ Blank(v, i) \in Con /\ Blank(v, i).line = v.line /\ Blank(v, i).col = v.col
BY DEF Ink, Blank, Con

LEMMA MoveFacts ==
  ASSUME NEW v \in Con, NEW ch
  PROVE  /\ \A line, col \in Byte : Advance(v, ch, line, col) \in Con
         /\ LineStart(v) \in Con
         /\ Move(v, ch) \in Con
<1>1. ASSUME NEW w \in Con, NEW line \in Byte, NEW col \in Byte
      PROVE  Advance(w, ch, line, col) \in Con
  <2>1. /\ (col + 1) % BYTE \in Byte /\ (line + 1) % BYTE \in Byte
        /\ (col + TAB) % BYTE \in Byte /\ (col - 1) % BYTE \in Byte
    BY ByteFacts, ConsoleAssumption DEF Byte
  <2> QED
    BY <2>1 DEF Advance, Con
<1>2. ASSUME NEW w \in Con
      PROVE  LineStart(w) \in Con
  BY ByteFacts DEF LineStart, Con
<1>3. v.line \in Byte /\ v.col \in Byte
  BY DEF Con
<1>4. Advance(v, ch, v.line, v.col) \in Con
  BY <1>1, <1>3
<1>5. Move(v, ch) \in Con
  BY <1>2, <1>4 DEF Move
<1> QED
  BY <1>1, <1>2, <1>5

LEMMA WrapColumnFacts ==
  ASSUME NEW v \in Con
  PROVE  /\ WrapColumn(v) \in Con
         /\ WrapColumn(v).col < VGA_WIDTH
<1>1. (v.line + 1) % BYTE \in Byte /\ v.col \in Byte
  BY ByteFacts DEF Byte, Con
<1>2. CASE v.col >= VGA_WIDTH
  BY <1>1, <1>2, ByteFacts DEF WrapColumn, Con
<1>3. CASE ~(v.col >= VGA_WIDTH)
  BY <1>1, <1>3, ConsoleAssumption DEF WrapColumn, Byte
<1> QED
  BY <1>2, <1>3

LEMMA WrapLineFacts ==
  ASSUME NEW v \in Con
  PROVE  /\ WrapLine(v) \in Con
         /\ WrapLine(v).line < VGA_HEIGHT
         /\ WrapLine(v).col = v.col
<1>1. CASE v.line >= VGA_HEIGHT
  BY <1>1, ByteFacts DEF WrapLine, Con
<1>2. CASE ~(v.line >= VGA_HEIGHT)
  BY <1>2, ConsoleAssumption DEF WrapLine, Con, Byte
<1> QED
  BY <1>1, <1>2

LEMMA NewLineFacts ==
  ASSUME NEW v \in Con
  PROVE  /\ NewLine(v) \in Con
         /\ NewLine(v).line = v.line /\ NewLine(v).col = v.col
<1>1. (v.stray \/ v.line >= VGA_HEIGHT) \in BOOLEAN /\ (v.mixed /\ v.torn) \in BOOLEAN
  BY DEF Con
<1> QED
  BY <1>1 DEF NewLine, Con

\* An uninterrupted console_putchar() leaves the cursor on the screen, wherever it
\* found it.
LEMMA PutcharFacts ==
  ASSUME NEW v \in Con, NEW ch
  PROVE  /\ console_putchar(v, ch) \in Con
         /\ console_putchar(v, ch).line < VGA_HEIGHT
         /\ console_putchar(v, ch).col < VGA_WIDTH
<1>1. CASE ch = "ff"
  BY <1>1, ClearScreenFacts, ByteFacts DEF console_putchar
<1>2. CASE ch # "ff"
  <2> DEFINE printed == IF ch = "ink" THEN Ink(v, Position(v)) ELSE v
             moved   == Move(printed, ch)
             wrapped == WrapLine(WrapColumn(moved))
  <2>1. printed \in Con
    BY InkFacts
  <2>3. moved \in Con
    BY <2>1, MoveFacts
  <2>4. wrapped \in Con /\ wrapped.line < VGA_HEIGHT /\ wrapped.col < VGA_WIDTH
    BY <2>3, WrapColumnFacts, WrapLineFacts
  <2>5. console_putchar(v, ch) = set_cursor(NewLine(wrapped))
    BY <1>2 DEF console_putchar
  <2> HIDE DEF wrapped
  <2> QED
    BY <2>4, <2>5, NewLineFacts, SetCursorFacts
<1> QED
  BY <1>1, <1>2

LEMMA BeginFacts ==
  ASSUME NEW v \in Con
  PROVE  /\ Begin(v) \in Con /\ Begin(v).line = v.line /\ Begin(v).col = v.col
         /\ Begin(v).last_line = v.last_line
         /\ Begin(v).scr_tab = v.scr_tab /\ Begin(v).fresh = v.fresh
<1>1. (~Quiet) \in BOOLEAN /\ (~Quiet /\ v.stray) \in BOOLEAN /\ (v.mixed \/ ~Quiet) \in BOOLEAN
  BY DEF Con
<1>2. Begin(v) \in Con /\ Begin(v).line = v.line /\ Begin(v).col = v.col
  BY <1>1 DEF Begin, Con
<1>3. /\ Begin(v).last_line = v.last_line
      /\ Begin(v).scr_tab = v.scr_tab /\ Begin(v).fresh = v.fresh
  BY DEF Begin, Con
<1> QED
  BY <1>2, <1>3

LEMMA InvInit == Init => Inv
<1> SUFFICES ASSUME Init
             PROVE  Inv
  OBVIOUS
<1>1. con \in Con /\ con.line = 0 /\ con.col = 0
  BY ByteFacts DEF Init, Con
<1>2. TypeOK
  BY <1>1, ByteFacts DEF Init, TypeOK, Kind, Label, Unloaded
<1>3. ~(0 >= VGA_HEIGHT) /\ ~(0 >= VGA_WIDTH)
  BY ConsoleAssumption
<1>4. InLine
  BY DEF Init, InLine
<1> QED
  BY <1>1, <1>2, <1>3, <1>4 DEF Inv, Homing

\* A step of reader r to label m: it may take the cursor off the screen on its way to the
\* tests only, and it leaves the tests with the cursor on the screen.
LEMMA StepInv ==
  ASSUME Inv, NEW r \in Reader, NEW m \in Label,
         pc' = [pc EXCEPT ![r] = m], c' \in [Reader -> Kind], con' \in Con,
         reg' \in [Reader -> [line: Byte, col: Byte]],
         \A q \in Reader \ {r} : reg'[q] = reg[q],
         m = "blank" => reg'[r].col < VGA_WIDTH,
         con'.line >= VGA_HEIGHT =>
           m \in LineTest \/ (con.line >= VGA_HEIGHT /\ pc[r] \notin LineTest),
         con'.col >= VGA_WIDTH =>
           m \in ColTest \/ (con.col >= VGA_WIDTH /\ pc[r] \notin ColTest)
  PROVE  Inv'
<1>1. /\ pc \in [Reader -> Label] /\ pc' \in [Reader -> Label] /\ pc'[r] = m
      /\ \A q \in Reader \ {r} : pc'[q] = pc[q]
  BY DEF Inv, TypeOK
<1>2. TypeOK'
  BY <1>1 DEF TypeOK
<1>3. Homing'
  BY <1>1 DEF Inv, Homing
<1>4. InLine'
  BY <1>1 DEF Inv, InLine
<1> QED
  BY <1>2, <1>3, <1>4 DEF Inv

\* What a reader that is inside loads, tests and sends leaves the cursor where it is.
LEMMA LoadInv ==
  ASSUME Inv, NEW r \in Reader, NEW m \in Label,
         pc' = [pc EXCEPT ![r] = m], c' \in [Reader -> Kind], con' \in Con,
         con'.line = con.line, con'.col = con.col,
         reg' \in [Reader -> [line: Byte, col: Byte]],
         \A q \in Reader \ {r} : reg'[q] = reg[q],
         m = "blank" => reg'[r].col < VGA_WIDTH,
         pc[r] \in LineTest => m \in LineTest \/ ~(con.line >= VGA_HEIGHT),
         pc[r] \in ColTest => m \in ColTest \/ ~(con.col >= VGA_WIDTH)
  PROVE  Inv'
BY StepInv

\* What a reader does next, one step at a time.
LEMMA EchoInv ==
  ASSUME Inv, NEW r \in Reader, EchoStep(r)
  PROVE  Inv'
<1>0. /\ con \in Con /\ con.line \in Byte /\ con.col \in Byte
      /\ c \in [Reader -> Kind] /\ pc \in [Reader -> Label]
      /\ reg \in [Reader -> [line: Byte, col: Byte]]
      /\ reg[r] \in [line: Byte, col: Byte] /\ reg[r].line \in Byte /\ reg[r].col \in Byte
      /\ Unloaded \in [line: Byte, col: Byte]
      /\ ~(0 >= VGA_HEIGHT) /\ ~(0 >= VGA_WIDTH)
  BY ByteFacts, ConsoleAssumption DEF Inv, TypeOK, Con, Unloaded
\* An access that reads.
<1>1. ASSUME NEW l, NEW m \in Label, NEW w \in [line: Byte, col: Byte], Load(r, l, w, m),
             l \notin LineTest \/ (m \in LineTest /\ l \notin ColTest), m # "blank"
      PROVE  Inv'
  <2>1. /\ pc[r] = l /\ pc' = [pc EXCEPT ![r] = m] /\ c' = c /\ con' = con
        /\ reg' = [reg EXCEPT ![r] = w]
    BY <1>1 DEF Load, Goto
  <2>2. reg' \in [Reader -> [line: Byte, col: Byte]] /\ \A q \in Reader \ {r} : reg'[q] = reg[q]
    BY <1>0, <2>1
  <2> QED
    BY <1>0, <1>1, <2>1, <2>2, LoadInv DEF ColTest, LineTest
<1>2. /\ [reg[r] EXCEPT !.line = con.line] \in [line: Byte, col: Byte]
      /\ [reg[r] EXCEPT !.col = con.col] \in [line: Byte, col: Byte]
      /\ [line |-> con.line, col |-> con.col] \in [line: Byte, col: Byte]
  BY <1>0
\* A test.
<1>3. ASSUME NEW l, NEW t, NEW yes \in Label, NEW no \in Label, Branch(r, l, t, yes, no),
             yes # "blank", no # "blank",
             l \in LineTest => IF t THEN yes \in LineTest
                               ELSE no \in LineTest \/ ~(con.line >= VGA_HEIGHT),
             l \in ColTest => IF t THEN yes \in ColTest
                              ELSE no \in ColTest \/ ~(con.col >= VGA_WIDTH)
      PROVE  Inv'
  <2> DEFINE m == IF t THEN yes ELSE no
  <2>1. /\ pc[r] = l /\ pc' = [pc EXCEPT ![r] = m] /\ c' = c /\ con' = con
        /\ reg' = [reg EXCEPT ![r] = Unloaded]
    BY <1>3 DEF Branch, Goto
  <2>2. reg' \in [Reader -> [line: Byte, col: Byte]] /\ \A q \in Reader \ {r} : reg'[q] = reg[q]
    BY <1>0, <2>1
  <2>3. m \in Label /\ m # "blank"
    BY <1>3
  <2>4. /\ l \in LineTest => m \in LineTest \/ ~(con.line >= VGA_HEIGHT)
        /\ l \in ColTest => m \in ColTest \/ ~(con.col >= VGA_WIDTH)
    BY <1>3
  <2> HIDE DEF m
  <2> QED
    BY <1>0, <2>1, <2>2, <2>3, <2>4, LoadInv
\* An access that writes.
<1>4. ASSUME NEW l, NEW m \in Label, NEW v \in Con, Store(r, l, v, m), m # "blank",
             v.line >= VGA_HEIGHT => m \in LineTest \/ (con.line >= VGA_HEIGHT /\ l \notin LineTest),
             v.col >= VGA_WIDTH => m \in ColTest \/ (con.col >= VGA_WIDTH /\ l \notin ColTest)
      PROVE  Inv'
  <2>1. /\ pc[r] = l /\ pc' = [pc EXCEPT ![r] = m] /\ c' = c /\ con' = v
        /\ reg' = [reg EXCEPT ![r] = Unloaded]
    BY <1>4 DEF Store, Goto
  <2>2. reg' \in [Reader -> [line: Byte, col: Byte]] /\ \A q \in Reader \ {r} : reg'[q] = reg[q]
    BY <1>0, <2>1
  <2> QED
    BY <1>0, <1>4, <2>1, <2>2, StepInv
<1>5. CASE \E ch \in Echo : echo(r, ch)
  <2>1. PICK ch \in Echo : echo(r, ch)
    BY <1>5
  <2> DEFINE m == CASE ch = "ink" -> "ink_line" [] ch = "bs"  -> "test" [] OTHER -> "read"
  <2>2. m \in {"ink_line", "test", "read"} /\ m \in Label
    BY DEF Label
  <2>3. /\ pc[r] = "out" /\ pc' = [pc EXCEPT ![r] = m] /\ c' = [c EXCEPT ![r] = ch]
        /\ con' = Begin(con) /\ reg' = reg
    BY <2>1 DEF echo
  <2>4. c' \in [Reader -> Kind] /\ con' \in Con /\ con'.line = con.line /\ con'.col = con.col
    BY <1>0, <2>3, BeginFacts, ConsoleAssumption DEF Echo
  <2> HIDE DEF m
  <2> QED
    BY <1>0, <2>2, <2>3, <2>4, LoadInv DEF LineTest, ColTest
<1>6. CASE ink(r)
  <2>1. CASE LoadLine(r, "ink_line", "ink_col") \/ LoadCol(r, "ink_col", "ink")
    BY <1>1, <1>2, <2>1 DEF LoadLine, LoadCol, Label, LineTest, ColTest
  <2>2. CASE Store(r, "ink", Ink(con, Position(reg[r])), "read")
    <3> DEFINE v == Ink(con, Position(reg[r]))
    <3>1. v \in Con /\ v.line = con.line /\ v.col = con.col
      BY <1>0, InkFacts
    <3> HIDE DEF v
    <3> QED
      BY <1>4, <2>2, <3>1 DEF v, Label, LineTest, ColTest
  <2> QED
    BY <1>6, <2>1, <2>2 DEF ink
<1>7. CASE move(r)
  <2>1. CASE Branch(r, "test", con.col > 0, "read", "wrap_column")
    BY <1>3, <2>1 DEF Label, LineTest, ColTest
  <2>2. CASE Load(r, "read", [line |-> con.line, col |-> con.col], "move")
    BY <1>1, <1>2, <2>2 DEF Label, LineTest, ColTest
  <2>3. CASE Store(r, "move", Advance(con, c[r], reg[r].line, reg[r].col),
                   IF c[r] = "nl" THEN "line_start" ELSE "wrap_column")
    <3> DEFINE v == Advance(con, c[r], reg[r].line, reg[r].col)
               m == IF c[r] = "nl" THEN "line_start" ELSE "wrap_column"
    <3>1. v \in Con
      BY <1>0, MoveFacts
    <3>2. c[r] = "nl" => v.col = con.col
      BY <1>0 DEF Advance, Con
    <3>3. c[r] # "nl" => v.line = con.line
      BY <1>0 DEF Advance, Con
    <3>4. /\ m \in Label /\ m \in LineTest /\ m # "blank"
          /\ v.col >= VGA_WIDTH => m \in ColTest \/ con.col >= VGA_WIDTH
      BY <3>2 DEF Label, LineTest, ColTest
    <3>5. Store(r, "move", v, m)
      BY <2>3
    <3> HIDE DEF v, m
    <3> QED
      BY <1>4, <3>1, <3>4, <3>5 DEF LineTest, ColTest
  <2>4. CASE Store(r, "line_start", LineStart(con), "wrap_column")
    <3>1. LineStart(con) \in Con
      BY <1>0, MoveFacts
    <3> QED
      BY <1>4, <2>4, <3>1 DEF Label, LineTest, ColTest
  <2> QED
    BY <1>7, <2>1, <2>2, <2>3, <2>4 DEF move
<1>8. CASE wrap_column(r)
  <2>1. CASE Branch(r, "wrap_column", con.col >= VGA_WIDTH, "wrap_start", "wrap_line")
    BY <1>3, <2>1 DEF Label, LineTest, ColTest
  <2>2. CASE Store(r, "wrap_start", LineStart(con), "wrap_read")
    <3>1. LineStart(con) \in Con /\ LineStart(con).col = 0
      BY <1>0, MoveFacts DEF LineStart, Con
    <3> QED
      BY <1>0, <1>4, <2>2, <3>1 DEF Label, LineTest, ColTest
  <2>3. CASE LoadLine(r, "wrap_read", "wrap_next")
    BY <1>1, <1>2, <2>3 DEF LoadLine, Label, LineTest, ColTest
  <2>4. CASE Store(r, "wrap_next", [con EXCEPT !.line = (reg[r].line + 1) % BYTE], "wrap_line")
    <3> DEFINE v == [con EXCEPT !.line = (reg[r].line + 1) % BYTE]
    <3>1. (reg[r].line + 1) % BYTE \in Byte
      BY <1>0, ByteFacts
    <3>2. v \in Con /\ v.col = con.col
      BY <1>0, <3>1 DEF Con
    <3> HIDE DEF v
    <3> QED
      BY <1>4, <2>4, <3>2 DEF v, Label, LineTest, ColTest
  <2> QED
    BY <1>8, <2>1, <2>2, <2>3, <2>4 DEF wrap_column
<1>9. CASE wrap_line(r)
  <2>1. CASE Branch(r, "wrap_line", con.line >= VGA_HEIGHT, "top", "new_line")
    BY <1>3, <2>1 DEF Label, LineTest, ColTest
  <2>2. CASE Store(r, "top", [con EXCEPT !.line = 0], "new_line")
    <3> DEFINE v == [con EXCEPT !.line = 0]
    <3>1. v \in Con /\ v.col = con.col /\ v.line = 0
      BY <1>0, ByteFacts DEF Con
    <3> HIDE DEF v
    <3> QED
      BY <1>0, <1>4, <2>2, <3>1 DEF v, Label, LineTest, ColTest
  <2> QED
    BY <1>9, <2>1, <2>2 DEF wrap_line
<1>10. CASE new_line(r)
  <2>1. CASE LoadLine(r, "new_line", "changed") \/ LoadLine(r, "last_read", "last_write")
    BY <1>1, <1>2, <2>1 DEF LoadLine, Label, LineTest, ColTest
  <2>2. CASE Branch(r, "changed", reg[r].line # con.last_line, "clear_line", "cursor_col")
    BY <1>3, <2>2 DEF Label, LineTest, ColTest
  <2>3. CASE clear_line(r)
    <3> DEFINE w == [line |-> con.line, col |-> 0]
    <3>1. /\ pc[r] = "clear_line" /\ pc' = [pc EXCEPT ![r] = "blank"] /\ c' = c
          /\ con' = [con EXCEPT !.fresh = {}] /\ reg' = [reg EXCEPT ![r] = w]
      BY <2>3 DEF clear_line, Goto
    <3>2. con' \in Con /\ con'.line = con.line /\ con'.col = con.col
      BY <1>0, <3>1 DEF Con
    <3>3. /\ reg' \in [Reader -> [line: Byte, col: Byte]] /\ reg'[r].col = 0
          /\ \A q \in Reader \ {r} : reg'[q] = reg[q]
      BY <1>0, <3>1, ByteFacts
    <3>4. "blank" \in Label /\ "clear_line" \notin LineTest /\ "clear_line" \notin ColTest
      BY DEF Label, LineTest, ColTest
    <3> QED
      BY <1>0, <3>1, <3>2, <3>3, <3>4, LoadInv, ByteFacts
  <2>4. CASE blank(r)
    <3> DEFINE last == reg[r].col = VGA_WIDTH - 1
               v    == Blank(con, Position(reg[r]))
               m    == IF last THEN "last_read" ELSE "blank"
               w    == IF last THEN Unloaded ELSE [line |-> reg[r].line, col |-> reg[r].col + 1]
    <3>1. /\ pc[r] = "blank" /\ pc' = [pc EXCEPT ![r] = m] /\ c' = c
          /\ con' = IF last THEN [v EXCEPT !.mixed = @ /\ con.torn] ELSE v
          /\ reg' = [reg EXCEPT ![r] = w]
      <4>1. pc[r] = "blank" /\ pc' = [pc EXCEPT ![r] = m] /\ c' = c
        BY <2>4 DEF blank, Goto
      <4>2. con' = IF last THEN [v EXCEPT !.mixed = @ /\ con.torn] ELSE v
        BY <2>4 DEF blank
      <4>3. reg' = [reg EXCEPT ![r] = w]
        BY <2>4 DEF blank
      <4> QED
        BY <4>1, <4>2, <4>3
    <3>2. con' \in Con /\ con'.line = con.line /\ con'.col = con.col
      <4>1. v \in Con /\ v.line = con.line /\ v.col = con.col
        BY <1>0, InkFacts
      <4> HIDE DEF v
      <4>2. (v.mixed /\ con.torn) \in BOOLEAN
        BY <1>0, <4>1 DEF Con
      <4>3. [v EXCEPT !.mixed = @ /\ con.torn] \in Con
        BY <4>1, <4>2 DEF Con
      <4>4. /\ [v EXCEPT !.mixed = @ /\ con.torn].line = con.line
            /\ [v EXCEPT !.mixed = @ /\ con.torn].col = con.col
        BY <4>1 DEF Con
      <4> QED
        BY <3>1, <4>1, <4>3, <4>4
    <3>3. w \in [line: Byte, col: Byte] /\ (~last => w.col < VGA_WIDTH)
      <4>1. reg[r].col < VGA_WIDTH
        BY <3>1 DEF Inv, InLine
      <4>2. ~last => reg[r].col + 1 \in Byte /\ reg[r].col + 1 < VGA_WIDTH
        <5>1. \A n \in Byte : n < VGA_WIDTH /\ n # VGA_WIDTH - 1
                               => n + 1 \in Byte /\ n + 1 < VGA_WIDTH
          BY ConsoleAssumption DEF Byte
        <5> QED
          BY <1>0, <4>1, <5>1
      <4>3. CASE last
        BY <1>0, <4>3
      <4>4. CASE ~last
        BY <1>0, <4>2, <4>4
      <4> QED
        BY <4>3, <4>4
    <3> HIDE DEF w
    <3>4. /\ reg' \in [Reader -> [line: Byte, col: Byte]] /\ reg'[r] = w
          /\ \A q \in Reader \ {r} : reg'[q] = reg[q]
      BY <1>0, <3>1, <3>3
    <3>5. m \in Label /\ (m = "blank" => reg'[r].col < VGA_WIDTH)
      BY <3>3, <3>4 DEF Label
    <3>6. "blank" \notin LineTest /\ "blank" \notin ColTest
      BY DEF LineTest, ColTest
    <3> HIDE DEF m
    <3> QED
      BY <1>0, <3>1, <3>2, <3>4, <3>5, <3>6, LoadInv
  <2>5. CASE Store(r, "last_write", [con EXCEPT !.last_line = reg[r].line], "cursor_col")
    <3> DEFINE v == [con EXCEPT !.last_line = reg[r].line]
    <3>1. v \in Con /\ v.col = con.col /\ v.line = con.line
      BY <1>0 DEF Con
    <3> HIDE DEF v
    <3> QED
      BY <1>4, <2>5, <3>1 DEF v, Label, LineTest, ColTest
  <2> QED
    BY <1>10, <2>1, <2>2, <2>3, <2>4, <2>5 DEF new_line
<1>11. CASE set_cursor_outb(r)
  <2>1. Low(reg[r]) \in Byte /\ High(reg[r]) \in Byte
    BY <1>0, PositionType
  <2>2. CASE LoadCol(r, "cursor_col", "cursor_line") \/ LoadLine(r, "cursor_line", "command_low")
    BY <1>1, <1>2, <2>2 DEF LoadLine, LoadCol, Label, LineTest, ColTest
  <2>3. ASSUME con' \in Con, con'.line = con.line, con'.col = con.col,
               c' \in [Reader -> Kind], reg' \in [Reader -> [line: Byte, col: Byte]],
               \A q \in Reader \ {r} : reg'[q] = reg[q],
               NEW m \in {"data_low", "command_high", "data_high", "out"},
               pc' = [pc EXCEPT ![r] = m],
               pc[r] \in {"command_low", "data_low", "command_high", "data_high"}
        PROVE  Inv'
    BY <2>3, LoadInv DEF Label, LineTest, ColTest
  <2>4. CASE command(r, "command_low", "low", "data_low")
    <3>1. con' \in Con /\ con'.line = con.line /\ con'.col = con.col
      BY <1>0, <2>4 DEF command, Con
    <3> QED
      BY <1>0, <2>3, <2>4, <3>1 DEF command, Goto
  <2>5. CASE command(r, "command_high", "high", "data_high")
    <3>1. con' \in Con /\ con'.line = con.line /\ con'.col = con.col
      BY <1>0, <2>5 DEF command, Con
    <3> QED
      BY <1>0, <2>3, <2>5, <3>1 DEF command, Goto
  <2>6. CASE data_low(r)
    <3>1. con' \in Con /\ con'.line = con.line /\ con'.col = con.col
      BY <1>0, <2>1, <2>6 DEF data_low, data, Con
    <3> QED
      BY <1>0, <2>3, <2>6, <3>1 DEF data_low, Goto
  <2>7. CASE data_high(r)
    <3>1. con' \in Con /\ con'.line = con.line /\ con'.col = con.col
      BY <1>0, <2>1, <2>7 DEF data_high, data, Con
    <3>2. /\ pc[r] = "data_high" /\ pc' = [pc EXCEPT ![r] = "out"]
          /\ c' = [c EXCEPT ![r] = "other"] /\ reg' = [reg EXCEPT ![r] = Unloaded]
      BY <2>7 DEF data_high
    <3>3. c' \in [Reader -> Kind] /\ reg' \in [Reader -> [line: Byte, col: Byte]]
          /\ \A q \in Reader \ {r} : reg'[q] = reg[q]
      BY <1>0, <3>2 DEF Kind
    <3> QED
      BY <2>3, <3>1, <3>2, <3>3
  <2> QED
    BY <1>11, <2>2, <2>4, <2>5, <2>6, <2>7 DEF set_cursor_outb
<1> QED
  BY <1>5, <1>6, <1>7, <1>8, <1>9, <1>10, <1>11 DEF EchoStep

LEMMA InvNext == Inv /\ [Next]_vars => Inv'
<1> SUFFICES ASSUME Inv, [Next]_vars
             PROVE  Inv'
  OBVIOUS
<1>1. CASE \E ch \in Char : sys_write(ch)
  <2>1. /\ con' \in Con /\ con'.line < VGA_HEIGHT /\ con'.col < VGA_WIDTH
        /\ con'.line \in Byte /\ con'.col \in Byte
    BY <1>1, PutcharFacts, BeginFacts DEF sys_write, Inv, TypeOK, Con
  <2>2. ~(con'.line >= VGA_HEIGHT) /\ ~(con'.col >= VGA_WIDTH)
    BY <2>1, ConsoleAssumption DEF Byte
  <2> QED
    BY <1>1, <2>1, <2>2 DEF sys_write, Inv, TypeOK, Homing, InLine
<1>2. CASE display_clock
  <2>1. con' \in Con /\ con'.line = con.line /\ con'.col = con.col
    BY <1>2 DEF display_clock, Inv, TypeOK, Con
  <2> QED
    BY <1>2, <2>1 DEF display_clock, Inv, TypeOK, Homing, InLine
<1>3. CASE \E r \in Reader : EchoStep(r)
  BY <1>3, EchoInv
<1>4. CASE UNCHANGED vars
  BY <1>4 DEF vars, Inv, TypeOK, Homing, InLine
<1> QED
  BY <1>1, <1>2, <1>3, <1>4 DEF Next

\* However many processes move the cursor at once, it is on the screen whenever none
\* of them is.
THEOREM CursorStaysOnScreen == Spec => [](TypeOK /\ CursorOnScreen)
<1>1. Inv => TypeOK /\ CursorOnScreen
  BY ConsoleAssumption DEF Inv, TypeOK, Homing, CursorOnScreen, Quiet, Con, Byte, LineTest, ColTest
<1> QED
  BY <1>1, InvInit, InvNext, PTL DEF Spec

----------------------------------------------------------------------------
(* The card, and the edge of the screen.                                   *)

OnScreen(v) == v.line < VGA_HEIGHT /\ v.col < VGA_WIDTH

\* The quotient and the rest.
LEMMA Parts ==
  ASSUME NEW x \in Nat, NEW y \in Nat \ {0}
  PROVE  x \div y \in Nat /\ x % y \in 0 .. y - 1 /\ x = y * (x \div y) + (x % y)
<1>1. x \in Int /\ y \in Int /\ y > 0
  OBVIOUS
<1>2. x % y \in 0 .. y - 1
  BY <1>1
<1>3. x = y * (x \div y) + (x % y)
  BY <1>1
<1>4. x \div y \in Nat
  <2>1. x \div y \in Int
    BY <1>1
  <2>2. x \div y >= 0
    BY <1>1
  <2> QED
    BY <2>1, <2>2
<1> QED
  BY <1>2, <1>3, <1>4

\* A cursor on the screen is a cell of its line, and two bytes hold it.
LEMMA PositionFacts ==
  ASSUME NEW v, v.line \in Byte, v.col \in Byte, OnScreen(v)
  PROVE  /\ Position(v) \in Cell
         /\ Position(v) \div VGA_WIDTH = v.line
         /\ High(v) * BYTE + Low(v) = Position(v)
<1> DEFINE a == v.line
           b == v.col
           p == Position(v)
<1>1. /\ a \in Nat /\ b \in Nat /\ a < VGA_HEIGHT /\ b < VGA_WIDTH
      /\ VGA_WIDTH \in Nat \ {0} /\ VGA_HEIGHT \in Nat \ {0} /\ BYTE \in Nat \ {0}
      /\ VGA_WIDTH <= BYTE /\ VGA_HEIGHT <= BYTE
  BY ConsoleAssumption DEF OnScreen, Byte
<1>2. p = VGA_WIDTH * a + b
  BY DEF Position
<1> HIDE DEF a, b, p
<1>3. /\ \A x, y \in Nat : x * y \in Nat
      /\ \A x, y, z \in Nat : x <= y => z * x <= z * y
      /\ \A x, y, z \in Nat : x <= y => x * z <= y * z
      /\ \A x, y \in Nat : x * (y + 1) = x * y + x
  OBVIOUS
<1>4. VGA_WIDTH * a + VGA_WIDTH <= VGA_WIDTH * VGA_HEIGHT
  <2>1. a + 1 \in Nat /\ a + 1 <= VGA_HEIGHT
    BY <1>1
  <2>2. VGA_WIDTH * (a + 1) <= VGA_WIDTH * VGA_HEIGHT
    BY <1>1, <1>3, <2>1
  <2>3. VGA_WIDTH * (a + 1) = VGA_WIDTH * a + VGA_WIDTH
    BY <1>1, <1>3
  <2> QED
    BY <2>2, <2>3
<1>5. p \in Nat /\ p < VGA_WIDTH * VGA_HEIGHT /\ VGA_WIDTH * VGA_HEIGHT \in Nat
  <2>1. VGA_WIDTH * a \in Nat /\ VGA_WIDTH * VGA_HEIGHT \in Nat
    BY <1>1, <1>3
  <2> QED
    BY <1>1, <1>2, <1>4, <2>1
<1>6. p \in Cell
  BY <1>5 DEF Cell
<1>7. p \div VGA_WIDTH = a
  BY <1>1, <1>2
<1>8. p < BYTE * BYTE
  <2>1. VGA_WIDTH * VGA_HEIGHT <= BYTE * VGA_HEIGHT /\ BYTE * VGA_HEIGHT <= BYTE * BYTE
    BY <1>1, <1>3
  <2>2. BYTE * VGA_HEIGHT \in Nat /\ BYTE * BYTE \in Nat
    BY <1>1, <1>3
  <2> QED
    BY <1>5, <2>1, <2>2
<1> DEFINE q == p \div BYTE
           r == p % BYTE
<1>9. q \in Nat /\ r \in 0 .. BYTE - 1 /\ p = BYTE * q + r
  <2>1. p \in Nat /\ BYTE \in Nat \ {0}
    BY <1>1, <1>5
  <2> HIDE DEF p
  <2> QED
    BY <2>1, Parts DEF q, r
<1>10. q < BYTE
  <2> HIDE DEF q, r
  <2> SUFFICES ASSUME BYTE <= q
               PROVE  FALSE
    BY <1>1, <1>9
  <2>1. BYTE * BYTE <= BYTE * q /\ BYTE * BYTE \in Nat /\ BYTE * q \in Nat
    BY <1>1, <1>3, <1>9
  <2> QED
    BY <1>5, <1>8, <1>9, <2>1
<1>11. High(v) = q /\ Low(v) = r
  <2>1. High(v) = q % BYTE /\ Low(v) = r
    BY DEF High, Low, p
  <2> HIDE DEF q, r
  <2>2. q % BYTE = q
    BY <1>1, <1>9, <1>10
  <2> QED
    BY <2>1, <2>2
<1>12. q * BYTE = BYTE * q
  <2> HIDE DEF q
  <2> QED
    BY <1>1, <1>9
<1> HIDE DEF q, r
<1>13. High(v) * BYTE + Low(v) = p
  BY <1>9, <1>11, <1>12
<1> QED
  BY <1>6, <1>7, <1>13 DEF a, p

\* What is on the screen, and what is remembered of it.
Text(v) == <<v.scr_tab, v.fresh, v.last_line, v.stray, v.torn, v.cleared, v.mixed>>

LEMMA TextFacts ==
  ASSUME NEW v \in Con
  PROVE  /\ Text(set_cursor(v)) = Text(v)
         /\ Text(WrapColumn(v)) = Text(v)
         /\ Text(WrapLine(v)) = Text(v)
         /\ Text(LineStart(v)) = Text(v)
         /\ \A ch, line, col : Text(Advance(v, ch, line, col)) = Text(v)
         /\ \A ch : Text(Move(v, ch)) = Text(v)
<1>1. Text(set_cursor(v)) = Text(v)
  BY DEF Text, set_cursor, Con
<1>2. Text(WrapColumn(v)) = Text(v)
  BY DEF Text, WrapColumn, Con
<1>3. Text(WrapLine(v)) = Text(v)
  BY DEF Text, WrapLine, Con
<1>4. ASSUME NEW w \in Con
      PROVE  Text(LineStart(w)) = Text(w)
  BY DEF Text, LineStart, Con
<1>5. ASSUME NEW ch, NEW line, NEW col
      PROVE  Text(Advance(v, ch, line, col)) = Text(v)
  BY DEF Text, Advance, Con
<1>6. ASSUME NEW ch
      PROVE  Text(Move(v, ch)) = Text(v)
  <2>1. Advance(v, ch, v.line, v.col) \in Con
    BY MoveFacts DEF Con
  <2> QED
    BY <1>4, <1>5, <2>1 DEF Move
<1> QED
  BY <1>1, <1>2, <1>3, <1>4, <1>5, <1>6

\* A character that is written, a cell and a line that are erased.
LEMMA DrawFacts ==
  ASSUME NEW v \in Con
  PROVE  /\ \A i \in Cell :
              /\ Ink(v, i).scr_tab = [v.scr_tab EXCEPT ![i] = "ink"]
              /\ Ink(v, i).fresh = v.fresh \cup {i}
              /\ Ink(v, i).stray = v.stray
              /\ Blank(v, i).scr_tab = [v.scr_tab EXCEPT ![i] = "blank"]
              /\ Blank(v, i).stray = v.stray
         /\ \A i : i \notin Cell => Ink(v, i).scr_tab = v.scr_tab /\ Ink(v, i).fresh = v.fresh
         /\ \A i : /\ Ink(v, i).last_line = v.last_line /\ Ink(v, i).torn = v.torn
                   /\ Ink(v, i).cleared = v.cleared /\ Ink(v, i).mixed = v.mixed
                   /\ Blank(v, i).last_line = v.last_line /\ Blank(v, i).torn = v.torn
                   /\ Blank(v, i).mixed = v.mixed
         /\ NewLine(v).torn = v.torn /\ NewLine(v).cleared = v.cleared
         /\ NewLine(v).last_line = v.line
         /\ NewLine(v).mixed => v.mixed
         /\ v.mixed /\ v.torn => NewLine(v).mixed
         /\ v.line < VGA_HEIGHT => NewLine(v).stray = v.stray
<1>1. v.line \in Nat /\ VGA_HEIGHT \in Nat
  BY ConsoleAssumption DEF Con, Byte
<1>2. ASSUME NEW i
      PROVE  /\ i \in Cell => /\ Ink(v, i).scr_tab = [v.scr_tab EXCEPT ![i] = "ink"]
                              /\ Ink(v, i).fresh = v.fresh \cup {i}
                              /\ Ink(v, i).stray = v.stray
             /\ i \notin Cell => Ink(v, i).scr_tab = v.scr_tab /\ Ink(v, i).fresh = v.fresh
             /\ Ink(v, i).last_line = v.last_line /\ Ink(v, i).torn = v.torn
             /\ Ink(v, i).cleared = v.cleared /\ Ink(v, i).mixed = v.mixed
  BY DEF Ink, Con
<1>3. ASSUME NEW i
      PROVE  /\ i \in Cell => /\ Blank(v, i).scr_tab = [v.scr_tab EXCEPT ![i] = "blank"]
                              /\ Blank(v, i).stray = v.stray
             /\ Blank(v, i).last_line = v.last_line /\ Blank(v, i).torn = v.torn
             /\ Blank(v, i).mixed = v.mixed
  BY DEF Blank, Con
<1>4. /\ NewLine(v).torn = v.torn /\ NewLine(v).cleared = v.cleared
      /\ NewLine(v).last_line = v.line
  BY DEF NewLine, Con
<1>5. (NewLine(v).mixed => v.mixed) /\ (v.mixed /\ v.torn => NewLine(v).mixed)
  <2>1. CASE v.line = v.last_line
    BY <2>1 DEF NewLine
  <2>2. CASE v.line # v.last_line
    <3>1. NewLine(v).mixed = (v.mixed /\ v.torn)
      BY <2>2 DEF NewLine, Con
    <3> QED
      BY <3>1
  <2> QED
    BY <2>1, <2>2
<1>6. v.line < VGA_HEIGHT => NewLine(v).stray = v.stray
  <2> SUFFICES ASSUME v.line < VGA_HEIGHT
               PROVE  NewLine(v).stray = v.stray
    OBVIOUS
  <2>1. ~(v.line >= VGA_HEIGHT)
    BY <1>1
  <2>2. (v.stray \/ v.line >= VGA_HEIGHT) = v.stray
    BY <2>1 DEF Con
  <2> QED
    BY <2>2 DEF NewLine, Con
<1> QED
  BY <1>2, <1>3, <1>4, <1>5, <1>6

\* The card after set_cursor().
LEMMA CardFacts ==
  ASSUME NEW v \in Con, OnScreen(v)
  PROVE  LET w == set_cursor(v) IN w.high * BYTE + w.low = Position(w)
<1> DEFINE w == set_cursor(v)
<1>1. w.low = Low(v) /\ w.high = High(v) /\ Position(w) = Position(v)
  BY SetCursorFacts DEF set_cursor, Con, Position
<1>2. High(v) * BYTE + Low(v) = Position(v)
  BY PositionFacts DEF Con
<1> HIDE DEF w
<1>3. w.high * BYTE + w.low = Position(w)
  BY <1>1, <1>2
<1> QED
  BY <1>3 DEF w

\* A character that begins with the cursor on the screen writes nothing outside it; and
\* the card shows where the character leaves the cursor.
LEMMA PutcharKeeps ==
  ASSUME NEW v \in Con, NEW ch
  PROVE  LET w == console_putchar(v, ch)
         IN  /\ w.high * BYTE + w.low = Position(w)
             /\ w.torn = v.torn /\ (v.mixed /\ v.torn => w.mixed)
             /\ OnScreen(v) /\ ~v.stray => ~w.stray
             /\ ch # "ff" => w.last_line = w.line /\ w.cleared = v.cleared
             /\ ch = "ff" => w.cleared
<1> DEFINE w == console_putchar(v, ch)
<1>1. CASE ch = "ff"
  <2> DEFINE u == [v EXCEPT !.scr_tab = [i \in Cell |-> "blank"], !.line = 0, !.col = 0,
                         !.fresh = {}, !.cleared = TRUE, !.mixed = @ /\ v.torn]
  <2>0. (v.mixed /\ v.torn) \in BOOLEAN
    BY DEF Con
  <2>1. /\ u \in Con /\ OnScreen(u)
        /\ u.torn = v.torn /\ u.stray = v.stray /\ u.cleared
        /\ v.mixed /\ v.torn => u.mixed
    BY <2>0, ByteFacts DEF Con, OnScreen
  <2>2. w = set_cursor(u)
    BY <1>1 DEF console_putchar, clear_screen
  <2> HIDE DEF u, w
  <2>3. w.high * BYTE + w.low = Position(w)
    BY <2>1, <2>2, CardFacts
  <2>4. /\ w.torn = v.torn /\ w.stray = v.stray /\ w.cleared
        /\ v.mixed /\ v.torn => w.mixed
    BY <2>1, <2>2, TextFacts DEF Text
  <2> QED
    BY <1>1, <2>3, <2>4 DEF w
<1>2. CASE ch # "ff"
  <2> DEFINE printed == IF ch = "ink" THEN Ink(v, Position(v)) ELSE v
             moved   == Move(printed, ch)
             column  == WrapColumn(moved)
             wrapped == WrapLine(column)
             erased  == NewLine(wrapped)
  <2>1. v.line \in Byte /\ v.col \in Byte
    BY DEF Con
  <2>2. /\ printed \in Con /\ printed.torn = v.torn /\ printed.cleared = v.cleared
        /\ printed.mixed = v.mixed
    BY InkFacts, DrawFacts
  <2>3. OnScreen(v) => printed.stray = v.stray
    BY <2>1, PositionFacts, DrawFacts
  <2> HIDE DEF printed
  <2>4. moved \in Con /\ Text(moved) = Text(printed)
    BY <2>2, MoveFacts, TextFacts
  <2> HIDE DEF moved
  <2>5. column \in Con /\ column.col < VGA_WIDTH /\ Text(column) = Text(moved)
    BY <2>4, WrapColumnFacts, TextFacts
  <2> HIDE DEF column
  <2>6. /\ wrapped \in Con /\ wrapped.line < VGA_HEIGHT /\ wrapped.col < VGA_WIDTH
        /\ Text(wrapped) = Text(column)
    BY <2>5, WrapLineFacts, TextFacts
  <2> HIDE DEF wrapped
  <2>7. /\ wrapped.torn = v.torn /\ wrapped.cleared = v.cleared /\ wrapped.mixed = v.mixed
        /\ OnScreen(v) => wrapped.stray = v.stray
    BY <2>2, <2>3, <2>4, <2>5, <2>6 DEF Text
  <2>8. /\ erased \in Con /\ OnScreen(erased) /\ erased.last_line = erased.line
        /\ erased.torn = wrapped.torn /\ erased.cleared = wrapped.cleared
        /\ erased.stray = wrapped.stray
        /\ wrapped.mixed /\ wrapped.torn => erased.mixed
    BY <2>6, NewLineFacts, DrawFacts DEF OnScreen
  <2> HIDE DEF erased
  <2>9. w = set_cursor(erased)
    BY <1>2 DEF console_putchar, printed, moved, column, wrapped, erased
  <2> HIDE DEF w
  <2>10. w.high * BYTE + w.low = Position(w)
    BY <2>8, <2>9, CardFacts
  <2>11. Text(w) = Text(erased) /\ w.line = erased.line
    BY <2>8, <2>9, TextFacts, SetCursorFacts
  <2> QED
    BY <1>2, <2>7, <2>8, <2>10, <2>11 DEF Text, w
<1> QED
  BY <1>1, <1>2

\* Unless a character was begun in the middle of another one, one reader at most is in
\* console_putchar(), what it has loaded of the cursor is up to date, and the card is where
\* it has left it.
Alone == ~con.torn => \A r, q \in Reader : pc[r] # "out" /\ pc[q] # "out" => r = q

Sending  == {"command_low", "data_low", "command_high", "data_high"}
WithLine == {"ink_col", "ink", "changed", "blank", "last_write"} \cup Sending
WithCol  == {"ink", "cursor_line"} \cup Sending

InStep(r) ==
  /\ pc[r] \in WithLine => reg[r].line = con.line
  /\ pc[r] \in WithCol => reg[r].col = con.col
  /\ pc[r] = "data_low" => con.command = "low"
  /\ pc[r] \in {"command_high", "data_high"} => con.low = Low(con)
  /\ pc[r] = "data_high" => con.command = "high"

Inside == con.stray => con.torn

WriteInv ==
  /\ Inv /\ Alone /\ CursorSynced /\ Inside
  /\ ~con.torn => \A r \in Reader : InStep(r)

\* A reader that is alone in console_putchar() finds the cursor on the screen, but for
\* the steps that bring it back there.
LEMMA AloneOnScreen ==
  ASSUME WriteInv, ~con.torn, NEW r \in Reader, pc[r] # "out"
  PROVE  /\ \A q \in Reader \ {r} : pc[q] = "out"
         /\ pc[r] \notin LineTest => OnScreen(con)
<1>1. \A q \in Reader \ {r} : pc[q] = "out"
  BY DEF WriteInv, Alone
<1>2. ASSUME pc[r] \notin LineTest
      PROVE  OnScreen(con)
  <2>1. \A q \in Reader : pc[q] \notin LineTest /\ pc[q] \notin ColTest
    BY <1>1, <1>2 DEF LineTest, ColTest
  <2>2. ~(con.line >= VGA_HEIGHT) /\ ~(con.col >= VGA_WIDTH)
    BY <2>1 DEF WriteInv, Inv, Homing
  <2> QED
    BY <2>2, ConsoleAssumption DEF WriteInv, Inv, TypeOK, Con, Byte, OnScreen
<1> QED
  BY <1>1, <1>2

LEMMA QuietOnScreen ==
  ASSUME Inv, Quiet
  PROVE  OnScreen(con)
<1>1. ~(con.line >= VGA_HEIGHT) /\ ~(con.col >= VGA_WIDTH)
  BY DEF Quiet, Inv, Homing, LineTest, ColTest
<1> QED
  BY <1>1, ConsoleAssumption DEF Inv, TypeOK, Con, Byte, OnScreen

\* Low() looks at the cursor only.
LEMMA LowFacts ==
  ASSUME NEW v, NEW w, v.line = w.line, v.col = w.col
  PROVE  Position(v) = Position(w) /\ Low(v) = Low(w) /\ High(v) = High(w)
BY DEF Position, Low, High

\* The cell that is erased is on the screen, as the line is.
LEMMA CellFacts ==
  ASSUME NEW v, v.line \in Byte, v.line < VGA_HEIGHT, v.col \in Byte, v.col < VGA_WIDTH
  PROVE  Position(v) \in Cell
BY PositionFacts DEF OnScreen

\* One step of a reader that nobody disturbs.
LEMMA WriteEcho ==
  ASSUME WriteInv, NEW r \in Reader, EchoStep(r), ~con'.torn
  PROVE  /\ \A q \in Reader \ {r} : pc[q] = "out" /\ pc'[q] = "out"
         /\ InStep(r)' /\ ~con'.stray
         /\ pc'[r] = "out" => con'.high * BYTE + con'.low = Position(con')
<1>1. /\ con \in Con /\ pc \in [Reader -> Label]
      /\ reg \in [Reader -> [line: Byte, col: Byte]] /\ reg[r] \in [line: Byte, col: Byte]
  BY DEF WriteInv, Inv, TypeOK
<1>2. con.line \in Byte /\ con.col \in Byte
  BY <1>1 DEF Con
<1>3. CASE \E ch \in Echo : echo(r, ch)
  <2>1. PICK ch \in Echo : echo(r, ch)
    BY <1>3
  <2>2. con'.torn = ~Quiet /\ con'.stray = (~Quiet /\ con.stray)
    BY <1>1, <2>1 DEF echo, Begin, Con
  <2>3. Quiet /\ ~con'.stray
    BY <2>2
  <2>4. pc'[r] \in {"ink_line", "test", "read"} /\ \A q \in Reader \ {r} : pc'[q] = pc[q]
    BY <1>1, <2>1 DEF echo
  <2> QED
    BY <2>3, <2>4 DEF Quiet, InStep, WithLine, WithCol, Sending
<1>4. ASSUME pc[r] # "out", con'.torn = con.torn
      PROVE  /\ ~con.torn /\ ~con.stray /\ InStep(r)
             /\ \A q \in Reader \ {r} : pc[q] = "out"
             /\ pc[r] \notin LineTest => OnScreen(con)
  <2>1. ~con.torn
    BY <1>4
  <2> QED
    BY <1>4, <2>1, AloneOnScreen DEF WriteInv, Inside
\* An access that reads, and what is true of it where it leads.
<1>5. ASSUME NEW l \in Label \ {"out"}, NEW m \in Label \ {"out"}, NEW w, Load(r, l, w, m),
             InStep(r) => /\ m \in WithLine => w.line = con.line
                          /\ m \in WithCol => w.col = con.col,
             m \notin {"data_low", "command_high", "data_high"}
      PROVE  /\ \A q \in Reader \ {r} : pc[q] = "out" /\ pc'[q] = "out"
             /\ InStep(r)' /\ ~con'.stray /\ pc'[r] # "out"
  <2>1. /\ pc[r] = l /\ con' = con /\ reg'[r] = w /\ pc'[r] = m
        /\ \A q \in Reader \ {r} : pc'[q] = pc[q]
    BY <1>1, <1>5 DEF Load, Goto
  <2> QED
    BY <1>4, <1>5, <2>1 DEF InStep
\* A step to a label where nothing is loaded.
<1>6. ASSUME NEW m \in Label \ (WithLine \cup WithCol \cup {"out"}), pc[r] # "out",
             pc' = [pc EXCEPT ![r] = m], con'.torn = con.torn, con'.stray = con.stray
      PROVE  /\ \A q \in Reader \ {r} : pc[q] = "out" /\ pc'[q] = "out"
             /\ InStep(r)' /\ ~con'.stray /\ pc'[r] # "out"
  <2>1. pc'[r] = m /\ \A q \in Reader \ {r} : pc'[q] = pc[q]
    BY <1>1, <1>6
  <2> QED
    BY <1>4, <1>6, <2>1 DEF InStep, WithLine, WithCol, Sending
<1>7. CASE ink(r)
  <2>1. CASE LoadLine(r, "ink_line", "ink_col")
    BY <1>1, <1>5, <2>1 DEF LoadLine, Label, WithLine, WithCol, Sending
  <2>2. CASE LoadCol(r, "ink_col", "ink")
    <3>1. Load(r, "ink_col", [reg[r] EXCEPT !.col = con.col], "ink") /\ pc[r] = "ink_col"
      BY <2>2 DEF LoadCol, Load
    <3>2. InStep(r) => reg[r].line = con.line
      BY <3>1 DEF InStep, WithLine
    <3> QED
      BY <1>1, <1>5, <3>1, <3>2 DEF Label
  <2>3. CASE Store(r, "ink", Ink(con, Position(reg[r])), "read")
    <3> DEFINE i == Position(reg[r])
    <3>1. con' = Ink(con, i) /\ pc[r] = "ink" /\ pc' = [pc EXCEPT ![r] = "read"]
      BY <2>3 DEF Store, Goto
    <3>2. con'.torn = con.torn
      BY <1>1, <3>1, DrawFacts
    <3>3. i = Position(con) /\ OnScreen(con)
      BY <1>4, <3>1, <3>2, LowFacts DEF InStep, WithLine, WithCol, LineTest, ColTest
    <3>4. i \in Cell
      BY <1>2, <3>3, PositionFacts
    <3>5. con'.stray = con.stray
      BY <1>1, <3>1, <3>4, DrawFacts
    <3> QED
      BY <1>6, <3>1, <3>2, <3>5 DEF Label, WithLine, WithCol, Sending
  <2> QED
    BY <1>7, <2>1, <2>2, <2>3 DEF ink
<1>8. CASE move(r) \/ wrap_column(r) \/ wrap_line(r)
  <2>1. con'.torn = con.torn /\ con'.stray = con.stray
    <3>1. CASE con' = con
      BY <3>1
    <3>2. CASE \E v : v \in {Advance(con, c[r], reg[r].line, reg[r].col), LineStart(con)} /\ con' = v
      BY <1>1, <3>2, TextFacts DEF Text
    <3>3. CASE \E l : con' = [con EXCEPT !.line = l]
      BY <1>1, <3>3 DEF Con
    <3> QED
      BY <1>8, <3>1, <3>2, <3>3
         DEF move, wrap_column, wrap_line, Load, LoadLine, Branch, Store
  <2>2. PICK m \in Label \ (WithLine \cup WithCol \cup {"out"}) : pc' = [pc EXCEPT ![r] = m]
    <3>1. {"read", "move", "wrap_column", "line_start", "wrap_start", "wrap_line", "wrap_read",
           "wrap_next", "top", "new_line"} \subseteq Label \ (WithLine \cup WithCol \cup {"out"})
      BY DEF Label, WithLine, WithCol, Sending
    <3> QED
      BY <1>8, <3>1 DEF move, wrap_column, wrap_line, Load, LoadLine, Branch, Store, Goto
  <2>3. pc[r] # "out"
    BY <1>8 DEF move, wrap_column, wrap_line, Load, LoadLine, Branch, Store
  <2> QED
    BY <1>6, <2>1, <2>2, <2>3
<1>9. CASE new_line(r)
  <2>1. CASE LoadLine(r, "new_line", "changed") \/ LoadLine(r, "last_read", "last_write")
    BY <1>1, <1>5, <2>1 DEF LoadLine, Label, WithLine, WithCol, Sending
  <2>2. CASE Branch(r, "changed", reg[r].line # con.last_line, "clear_line", "cursor_col")
    <3>1. /\ pc[r] = "changed" /\ con' = con
          /\ \/ pc' = [pc EXCEPT ![r] = "clear_line"] \/ pc' = [pc EXCEPT ![r] = "cursor_col"]
      BY <2>2 DEF Branch, Goto
    <3> QED
      BY <1>6, <3>1 DEF Label, WithLine, WithCol, Sending
  <2>3. CASE clear_line(r)
    <3>1. /\ pc[r] = "clear_line" /\ pc'[r] = "blank" /\ reg'[r].line = con.line
          /\ \A q \in Reader \ {r} : pc'[q] = pc[q]
      BY <1>1, <2>3 DEF clear_line, Goto
    <3>2. con'.line = con.line /\ con'.torn = con.torn /\ con'.stray = con.stray
      BY <1>1, <2>3 DEF clear_line, Con
    <3> QED
      BY <1>4, <3>1, <3>2 DEF InStep, WithCol, Sending
  <2>4. CASE blank(r)
    <3> DEFINE last == reg[r].col = VGA_WIDTH - 1
               v    == Blank(con, Position(reg[r]))
    <3>1. /\ pc[r] = "blank"
          /\ pc' = [pc EXCEPT ![r] = IF last THEN "last_read" ELSE "blank"]
      BY <2>4 DEF blank, Goto
    <3>2. con' = IF last THEN [v EXCEPT !.mixed = @ /\ con.torn] ELSE v
      BY <2>4 DEF blank
    <3>3. ~last => reg'[r].line = reg[r].line
      BY <1>1, <2>4 DEF blank
    <3>4. v \in Con /\ v.line = con.line /\ v.torn = con.torn
      BY <1>1, InkFacts, DrawFacts
    <3> HIDE DEF v
    <3>5. con'.line = con.line /\ con'.torn = con.torn /\ con'.stray = v.stray
      <4>1. LET w == [v EXCEPT !.mixed = @ /\ con.torn]
            IN  w.line = v.line /\ w.torn = v.torn /\ w.stray = v.stray
        BY <3>4 DEF Con
      <4> QED
        BY <3>2, <3>4, <4>1
    <3>6. OnScreen(con) /\ InStep(r) /\ ~con.stray /\ \A q \in Reader \ {r} : pc[q] = "out"
      BY <1>4, <3>1, <3>5 DEF LineTest, ColTest
    <3>7. reg[r].line = con.line /\ reg[r].col < VGA_WIDTH
      BY <3>1, <3>6 DEF InStep, WithLine, WriteInv, Inv, InLine
    <3>8. Position(reg[r]) \in Cell
      BY <1>1, <1>2, <3>6, <3>7, CellFacts DEF OnScreen
    <3>9. v.stray = con.stray
      BY <1>1, <3>8, DrawFacts DEF v
    <3>10. /\ pc'[r] = IF last THEN "last_read" ELSE "blank"
           /\ \A q \in Reader \ {r} : pc'[q] = pc[q]
      BY <1>1, <3>1
    <3> HIDE DEF last
    <3> QED
      BY <3>3, <3>5, <3>6, <3>7, <3>9, <3>10 DEF InStep, WithLine, WithCol, Sending
  <2>5. CASE Store(r, "last_write", [con EXCEPT !.last_line = reg[r].line], "cursor_col")
    <3>1. /\ con' = [con EXCEPT !.last_line = reg[r].line] /\ pc[r] = "last_write"
          /\ pc' = [pc EXCEPT ![r] = "cursor_col"]
      BY <2>5 DEF Store, Goto
    <3>2. con'.torn = con.torn /\ con'.stray = con.stray
      BY <1>1, <3>1 DEF Con
    <3> QED
      BY <1>6, <3>1, <3>2 DEF Label, WithLine, WithCol, Sending
  <2> QED
    BY <1>9, <2>1, <2>2, <2>3, <2>4, <2>5 DEF new_line
<1>10. CASE set_cursor_outb(r)
  <2>1. CASE LoadCol(r, "cursor_col", "cursor_line")
    BY <1>1, <1>5, <2>1 DEF LoadCol, Label, WithLine, WithCol, Sending
  <2>2. CASE LoadLine(r, "cursor_line", "command_low")
    <3>1. /\ Load(r, "cursor_line", [reg[r] EXCEPT !.line = con.line], "command_low")
          /\ pc[r] = "cursor_line"
      BY <2>2 DEF LoadLine, Load
    <3>2. InStep(r) => reg[r].col = con.col
      BY <3>1 DEF InStep, WithCol
    <3> QED
      BY <1>1, <1>5, <3>1, <3>2 DEF Label
  <2>3. CASE command(r, "command_low", "low", "data_low")
    <3>1. /\ con'.line = con.line /\ con'.col = con.col /\ con'.torn = con.torn
          /\ con'.stray = con.stray /\ con'.command = "low"
      BY <1>1, <2>3 DEF command, Con
    <3>2. /\ pc[r] = "command_low" /\ pc'[r] = "data_low" /\ reg' = reg
          /\ \A q \in Reader \ {r} : pc'[q] = pc[q]
      BY <1>1, <2>3 DEF command, Goto
    <3> QED
      BY <1>4, <3>1, <3>2 DEF InStep, WithLine, WithCol, Sending
  <2>4. CASE data_low(r)
    <3>1. /\ pc[r] = "data_low" /\ pc'[r] = "command_high" /\ reg' = reg
          /\ \A q \in Reader \ {r} : pc'[q] = pc[q]
      BY <1>1, <2>4 DEF data_low, Goto
    <3>2. /\ con'.line = con.line /\ con'.col = con.col /\ con'.torn = con.torn
          /\ con'.stray = con.stray
          /\ con.command = "low" => con'.low = Low(reg[r])
      BY <1>1, <2>4 DEF data_low, data, Con
    <3>3. con.command = "low" /\ reg[r].line = con.line /\ reg[r].col = con.col
      BY <1>4, <3>1, <3>2 DEF InStep, WithLine, WithCol, Sending
    <3>4. Low(reg[r]) = Low(con) /\ Low(con) = Low(con')
      BY <3>2, <3>3, LowFacts
    <3> QED
      BY <1>4, <3>1, <3>2, <3>3, <3>4 DEF InStep, WithLine, WithCol, Sending
  <2>5. CASE command(r, "command_high", "high", "data_high")
    <3>1. /\ con'.line = con.line /\ con'.col = con.col /\ con'.torn = con.torn
          /\ con'.stray = con.stray /\ con'.command = "high" /\ con'.low = con.low
      BY <1>1, <2>5 DEF command, Con
    <3>2. /\ pc[r] = "command_high" /\ pc'[r] = "data_high" /\ reg' = reg
          /\ \A q \in Reader \ {r} : pc'[q] = pc[q]
      BY <1>1, <2>5 DEF command, Goto
    <3>3. Low(con) = Low(con')
      BY <3>1, LowFacts
    <3> QED
      BY <1>4, <3>1, <3>2, <3>3 DEF InStep, WithLine, WithCol, Sending
  <2>6. CASE data_high(r)
    <3>1. pc[r] = "data_high" /\ pc'[r] = "out" /\ \A q \in Reader \ {r} : pc'[q] = pc[q]
      BY <1>1, <2>6 DEF data_high
    <3>2. /\ con'.line = con.line /\ con'.col = con.col /\ con'.torn = con.torn
          /\ con'.stray = con.stray
          /\ con.command = "high" => con'.high = High(reg[r]) /\ con'.low = con.low
      BY <1>1, <2>6 DEF data_high, data, Con
    <3>3. /\ con.command = "high" /\ reg[r].line = con.line /\ reg[r].col = con.col
          /\ con.low = Low(con) /\ OnScreen(con)
      BY <1>4, <3>1, <3>2 DEF InStep, WithLine, WithCol, Sending, LineTest, ColTest
    <3>4. High(reg[r]) = High(con) /\ Position(con') = Position(con)
      BY <3>2, <3>3, LowFacts
    <3>5. High(con) * BYTE + Low(con) = Position(con)
      BY <1>2, <3>3, PositionFacts
    <3> QED
      BY <1>4, <3>1, <3>2, <3>3, <3>4, <3>5 DEF InStep, WithLine, WithCol, Sending
  <2> QED
    BY <1>10, <2>1, <2>2, <2>3, <2>4, <2>5, <2>6 DEF set_cursor_outb
<1> QED
  BY <1>3, <1>7, <1>8, <1>9, <1>10 DEF EchoStep

LEMMA WriteNext == WriteInv /\ [Next]_vars => WriteInv'
<1> SUFFICES ASSUME WriteInv, [Next]_vars
             PROVE  WriteInv'
  OBVIOUS
<1>1. Inv'
  BY InvNext DEF WriteInv
<1>2. con \in Con /\ con' \in Con
  BY <1>1 DEF WriteInv, Inv, TypeOK
<1>3. ASSUME NEW ch \in Char, sys_write(ch)
      PROVE  WriteInv'
  <2> DEFINE v == Begin(con)
  <2>1. v \in Con /\ v.line = con.line /\ v.col = con.col
    BY <1>2, BeginFacts
  <2>2. v.torn = ~Quiet /\ v.stray = (~Quiet /\ con.stray)
    BY <1>2 DEF Begin, Con
  <2>3. con' = console_putchar(v, ch) /\ pc' = pc
    BY <1>3 DEF sys_write
  <2> HIDE DEF v
  <2>4. /\ con'.high * BYTE + con'.low = Position(con') /\ con'.torn = v.torn
        /\ OnScreen(v) /\ ~v.stray => ~con'.stray
    BY <2>1, <2>3, PutcharKeeps
  <2>5. CASE Quiet
    <3>1. OnScreen(v) /\ ~v.stray
      BY <2>1, <2>2, <2>5, QuietOnScreen DEF OnScreen, WriteInv
    <3> QED
      BY <1>1, <2>3, <2>4, <2>5, <3>1 DEF WriteInv, Alone, CursorSynced, Inside, InStep, Quiet, WithLine, WithCol, Sending
  <2>6. CASE ~Quiet
    <3>1. con'.torn
      BY <2>2, <2>4, <2>6
    <3> QED
      BY <1>1, <3>1 DEF WriteInv, Alone, CursorSynced, Inside
  <2> QED
    BY <2>5, <2>6
<1>4. CASE display_clock
  <2>1. /\ con'.line = con.line /\ con'.col = con.col /\ con'.torn = con.torn
        /\ con'.stray = con.stray /\ con'.command = con.command /\ con'.low = con.low
        /\ con'.high = con.high
    BY <1>2, <1>4 DEF display_clock, Con
  <2>2. Low(con') = Low(con) /\ Position(con') = Position(con)
    BY <2>1, LowFacts
  <2>3. pc' = pc /\ reg' = reg
    BY <1>4 DEF display_clock
  <2>4. \A r \in Reader : InStep(r) => InStep(r)'
    BY <2>1, <2>2, <2>3 DEF InStep
  <2> QED
    BY <1>1, <2>1, <2>2, <2>3, <2>4 DEF WriteInv, Alone, CursorSynced, Inside, Quiet
<1>5. ASSUME NEW r \in Reader, EchoStep(r)
      PROVE  WriteInv'
  <2>1. CASE con'.torn
    BY <1>1, <2>1 DEF WriteInv, Alone, CursorSynced, Inside
  <2>2. CASE ~con'.torn
    <3>1. /\ \A q \in Reader \ {r} : pc'[q] = "out"
          /\ InStep(r)' /\ ~con'.stray
          /\ pc'[r] = "out" => con'.high * BYTE + con'.low = Position(con')
      BY <1>5, <2>2, WriteEcho
    <3>2. \A q \in Reader : InStep(q)'
      BY <3>1 DEF InStep, WithLine, WithCol, Sending
    <3> QED
      BY <1>1, <3>1, <3>2 DEF WriteInv, Alone, CursorSynced, Inside, Quiet
  <2> QED
    BY <2>1, <2>2
<1>6. CASE UNCHANGED vars
  <2>1. Alone' = Alone /\ CursorSynced' = CursorSynced /\ Inside' = Inside
    BY <1>6 DEF vars, Alone, CursorSynced, Inside, Quiet
  <2>2. \A r \in Reader : InStep(r)' = InStep(r)
    BY <1>6 DEF vars, InStep
  <2> QED
    BY <1>1, <1>6, <2>1, <2>2 DEF WriteInv, vars
<1> QED
  BY <1>3, <1>4, <1>5, <1>6 DEF Next

LEMMA WriteInit == Init => WriteInv
<1> SUFFICES ASSUME Init
             PROVE  WriteInv
  OBVIOUS
<1>1. /\ con.line = 0 /\ con.col = 0 /\ con.low = 0 /\ con.high = 0 /\ ~con.torn /\ ~con.stray
      /\ \A r \in Reader : pc[r] = "out"
  BY DEF Init
<1>2. Position(con) = 0 /\ 0 * BYTE + 0 = 0
  BY <1>1, ConsoleAssumption DEF Position
<1> QED
  BY <1>1, <1>2, InvInit DEF WriteInv, Alone, CursorSynced, Inside, InStep, WithLine, WithCol, Sending

\* Once a character has been written that none was begun in the middle of, the card shows
\* the cursor where the console has it, on a screen of any size that two bytes can count.
THEOREM CardFollowsCursor == Spec => []CursorSynced
<1>1. WriteInv => CursorSynced
  BY DEF WriteInv
<1> QED
  BY <1>1, WriteInit, WriteNext, PTL DEF Spec

----------------------------------------------------------------------------
(* The text.                                                               *)

\* From the erasing of a line to the write of last_line, and behind it.
Erasing == {"blank", "last_read", "last_write"}
Showing == {"cursor_col", "cursor_line"} \cup Sending

\* What line l shows was written since the cursor came to its line.
Fresh(v, l) ==
  \A i \in Cell : i \div VGA_WIDTH = l /\ v.scr_tab[i] = "ink" => i \in v.fresh

\* last_line is up to date at the end of a character that nobody has cut.
Current ==
  /\ Quiet => con.cleared \/ con.line = con.last_line
  /\ \A r \in Reader : pc[r] \in Showing => con.line = con.last_line

\* What a reader that nobody disturbs has erased of its line.
Erased(r) ==
  pc[r] = "blank" => \A i \in Cell :
    i \div VGA_WIDTH = reg[r].line /\ i < Position(reg[r]) => con.scr_tab[i] # "ink"

\* What the screen shows, when every character since the line was erased was left alone.
Clean ==
  /\ Quiet => Fresh(con, con.line)
  /\ (\A r \in Reader : pc[r] \notin Erasing) => Fresh(con, con.last_line)
  /\ \A r \in Reader : pc[r] \in {"last_read", "last_write"} => Fresh(con, con.line)

TextInv ==
  /\ Inv
  /\ con.torn => con.mixed
  /\ ~con.torn => Current /\ \A r \in Reader : Erased(r)
  /\ ~con.mixed => Clean

\* Freshness looks at the text only; a character keeps it, the erasing of a line brings it.
LEMMA FreshFacts ==
  ASSUME NEW v \in Con, NEW l
  PROVE  /\ \A w : w.scr_tab = v.scr_tab /\ w.fresh = v.fresh => Fresh(w, l) = Fresh(v, l)
         /\ \A i : Fresh(v, l) => Fresh(Ink(v, i), l)
         /\ v.mixed \/ Fresh(v, v.last_line) => NewLine(v).mixed \/ Fresh(NewLine(v), v.line)
<1>1. ASSUME NEW w, w.scr_tab = v.scr_tab, w.fresh = v.fresh
      PROVE  Fresh(w, l) = Fresh(v, l)
  BY <1>1 DEF Fresh
<1>2. ASSUME NEW i, Fresh(v, l)
      PROVE  Fresh(Ink(v, i), l)
  <2>1. CASE i \in Cell
    <3>1. Ink(v, i).scr_tab = [v.scr_tab EXCEPT ![i] = "ink"] /\ Ink(v, i).fresh = v.fresh \cup {i}
      BY <2>1, DrawFacts
    <3>2. v.scr_tab \in [Cell -> {"blank", "ink", "clock"}]
      BY DEF Con
    <3> QED
      BY <1>2, <3>1, <3>2 DEF Fresh
  <2>2. CASE i \notin Cell
    <3>1. Ink(v, i).scr_tab = v.scr_tab /\ Ink(v, i).fresh = v.fresh
      BY <2>2, DrawFacts
    <3> QED
      BY <1>1, <1>2, <3>1
  <2> QED
    BY <2>1, <2>2
<1>3. ASSUME v.mixed \/ Fresh(v, v.last_line)
      PROVE  NewLine(v).mixed \/ Fresh(NewLine(v), v.line)
  <2>1. CASE v.line = v.last_line
    BY <1>3, <2>1 DEF NewLine
  <2>2. CASE v.line # v.last_line
    <3>1. NewLine(v).scr_tab = [i \in Cell |-> IF i \div VGA_WIDTH = v.line
                                                 THEN "blank" ELSE v.scr_tab[i]]
      BY <2>2 DEF NewLine, Con
    <3> QED
      BY <3>1 DEF Fresh
  <2> QED
    BY <2>1, <2>2
<1> QED
  BY <1>1, <1>2, <1>3

\* An uninterrupted character leaves the line that it comes to fresh.
LEMMA PutcharFresh ==
  ASSUME NEW v \in Con, NEW ch, v.mixed \/ Fresh(v, v.last_line)
  PROVE  LET w == console_putchar(v, ch)
         IN  w.mixed \/ (Fresh(w, w.last_line) /\ Fresh(w, w.line))
<1> DEFINE w == console_putchar(v, ch)
<1>1. CASE ch = "ff"
  <2>1. w.scr_tab = [i \in Cell |-> "blank"]
    BY <1>1 DEF console_putchar, clear_screen, set_cursor, Con
  <2> QED
    BY <2>1 DEF Fresh
<1>2. CASE ch # "ff"
  <2> DEFINE printed == IF ch = "ink" THEN Ink(v, Position(v)) ELSE v
             moved   == Move(printed, ch)
             column  == WrapColumn(moved)
             wrapped == WrapLine(column)
             erased  == NewLine(wrapped)
  <2>1. /\ printed \in Con /\ printed.last_line = v.last_line /\ printed.mixed = v.mixed
        /\ v.mixed \/ Fresh(printed, v.last_line)
    BY InkFacts, DrawFacts, FreshFacts
  <2> HIDE DEF printed
  <2>2. moved \in Con /\ Text(moved) = Text(printed)
    BY <2>1, MoveFacts, TextFacts
  <2> HIDE DEF moved
  <2>3. column \in Con /\ Text(column) = Text(moved)
    BY <2>2, WrapColumnFacts, TextFacts
  <2> HIDE DEF column
  <2>4. wrapped \in Con /\ Text(wrapped) = Text(column)
    BY <2>3, WrapLineFacts, TextFacts
  <2> HIDE DEF wrapped
  <2>5. /\ wrapped.last_line = v.last_line /\ wrapped.mixed = v.mixed
        /\ wrapped.scr_tab = printed.scr_tab /\ wrapped.fresh = printed.fresh
    BY <2>1, <2>2, <2>3, <2>4 DEF Text
  <2>6. wrapped.mixed \/ Fresh(wrapped, wrapped.last_line)
    BY <2>1, <2>5, FreshFacts
  <2>7. /\ erased \in Con /\ erased.last_line = wrapped.line /\ erased.line = wrapped.line
        /\ erased.mixed \/ Fresh(erased, wrapped.line)
    BY <2>4, <2>6, NewLineFacts, DrawFacts, FreshFacts
  <2> HIDE DEF erased
  <2>8. w = set_cursor(erased)
    BY <1>2 DEF console_putchar, printed, moved, column, wrapped, erased
  <2> HIDE DEF w
  <2>9. Text(w) = Text(erased) /\ w.line = erased.line
    BY <2>7, <2>8, TextFacts, SetCursorFacts
  <2>10. w.last_line = erased.line /\ w.mixed = erased.mixed
         /\ Fresh(w, erased.line) = Fresh(erased, erased.line)
    BY <2>7, <2>9, FreshFacts DEF Text
  <2> QED
    BY <2>7, <2>9, <2>10 DEF w
<1> QED
  BY <1>1, <1>2

\* The cells of a line that are before its last one.
LEMMA LineFacts ==
  ASSUME NEW l \in Byte, NEW col \in Byte, col < VGA_WIDTH, NEW i \in Cell, i \div VGA_WIDTH = l
  PROVE  /\ ~(i < VGA_WIDTH * l + 0) /\ i < VGA_WIDTH * l + VGA_WIDTH
         /\ i < VGA_WIDTH * l + (col + 1) => i < VGA_WIDTH * l + col \/ i = VGA_WIDTH * l + col
<1>1. l \in Nat /\ col \in Nat /\ i \in Nat /\ VGA_WIDTH \in Nat \ {0}
  BY ConsoleAssumption DEF Byte, Cell
<1>2. i % VGA_WIDTH \in 0 .. VGA_WIDTH - 1 /\ i = VGA_WIDTH * l + (i % VGA_WIDTH)
  BY <1>1, Parts
<1>3. VGA_WIDTH * l \in Nat
  <2>1. \A x, y \in Nat : x * y \in Nat
    OBVIOUS
  <2> QED
    BY <1>1, <2>1
<1> DEFINE n == VGA_WIDTH * l
           k == i % VGA_WIDTH
<1>4. n \in Nat /\ k \in 0 .. VGA_WIDTH - 1 /\ i = n + k
  BY <1>2, <1>3
<1> HIDE DEF n, k
<1>5. /\ ~(i < n + 0) /\ i < n + VGA_WIDTH
      /\ i < n + (col + 1) => i < n + col \/ i = n + col
  BY <1>1, <1>4
<1> QED
  BY <1>5 DEF n

\* What is true of the text when one reader at most is in console_putchar().
LEMMA LoneText ==
  ASSUME Inv', NEW r \in Reader, ~con'.torn, \A q \in Reader \ {r} : pc'[q] = "out",
         pc'[r] \in Showing \cup {"out"} => con'.line = con'.last_line,
         Erased(r)',
         ~con'.mixed /\ pc'[r] \notin Erasing => Fresh(con', con'.last_line),
         ~con'.mixed /\ pc'[r] \in {"last_read", "last_write"} => Fresh(con', con'.line)
  PROVE  TextInv'
<1>1. Current'
  BY DEF Current, Quiet, Showing, Sending
<1>2. \A q \in Reader : Erased(q)'
  BY DEF Erased
<1>3. ~con'.mixed => Clean'
  BY DEF Clean, Quiet, Erasing
<1> QED
  BY <1>1, <1>2, <1>3 DEF TextInv

LEMMA TextEcho ==
  ASSUME TextInv, WriteInv, NEW r \in Reader, EchoStep(r), Inv'
  PROVE  TextInv'
<1>1. /\ con \in Con /\ con' \in Con /\ pc \in [Reader -> Label]
      /\ reg \in [Reader -> [line: Byte, col: Byte]]
      /\ reg[r].line \in Byte /\ reg[r].col \in Byte /\ con.line \in Byte
  BY DEF TextInv, Inv, TypeOK, Con
<1>2. CASE \E ch \in Echo : echo(r, ch)
  <2>1. PICK ch \in Echo : echo(r, ch)
    BY <1>2
  <2>2. /\ con'.line = con.line /\ con'.last_line = con.last_line
        /\ con'.scr_tab = con.scr_tab /\ con'.fresh = con.fresh
        /\ con'.torn = ~Quiet /\ con'.mixed = (con.mixed \/ ~Quiet)
    BY <1>1, <2>1 DEF echo, Begin, Con
  <2>3. pc'[r] \in {"ink_line", "test", "read"} /\ \A q \in Reader \ {r} : pc'[q] = pc[q]
    BY <1>1, <2>1 DEF echo
  <2>4. CASE ~Quiet
    BY <2>2, <2>4 DEF TextInv
  <2>5. CASE Quiet
    <3>1. ~con'.mixed => Fresh(con', con'.last_line)
      BY <1>1, <2>2, <2>5, FreshFacts DEF TextInv, Clean, Quiet, Erasing
    <3>2. Erased(r)'
      BY <2>3 DEF Erased
    <3> QED
      BY <2>2, <2>3, <2>5, <3>1, <3>2, LoneText DEF Quiet, Showing, Sending
  <2> QED
    BY <2>4, <2>5
\* Unless a character was cut, the reader is alone.
<1>3. ASSUME pc[r] # "out", con'.torn = con.torn, con.torn => con'.mixed = con.mixed,
             NEW m, pc' = [pc EXCEPT ![r] = m],
             ~con.torn /\ m \in Showing \cup {"out"} => con'.line = con'.last_line,
             ~con.torn => Erased(r)',
             ~con.torn /\ ~con'.mixed /\ m \notin Erasing => Fresh(con', con'.last_line),
             ~con.torn /\ ~con'.mixed /\ m \in {"last_read", "last_write"}
               => Fresh(con', con'.line)
      PROVE  TextInv'
  <2>1. CASE con.torn
    BY <1>3, <2>1 DEF TextInv
  <2>2. CASE ~con.torn
    <3>1. \A q \in Reader \ {r} : pc'[q] = "out"
      BY <1>1, <1>3, <2>2, AloneOnScreen
    <3>2. pc'[r] = m
      BY <1>1, <1>3
    <3> QED
      BY <1>3, <2>2, <3>1, <3>2, LoneText
  <2> QED
    BY <2>1, <2>2
<1>4. ASSUME pc[r] # "out", ~con.torn
      PROVE  /\ InStep(r) /\ Erased(r)
             /\ pc[r] \in Showing => con.line = con.last_line
             /\ ~con.mixed /\ pc[r] \notin Erasing => Fresh(con, con.last_line)
             /\ ~con.mixed /\ pc[r] \in {"last_read", "last_write"} => Fresh(con, con.line)
  <2>1. \A q \in Reader \ {r} : pc[q] = "out"
    BY <1>4, AloneOnScreen
  <2> QED
    BY <1>4, <2>1 DEF TextInv, WriteInv, Current, Clean, Erasing
\* A step on the way to the change of line, whatever it does to the cursor.
<1>5. ASSUME pc[r] \notin {"out"} \cup Erasing, NEW m, m \notin Showing \cup {"out"} \cup Erasing,
             pc' = [pc EXCEPT ![r] = m],
             con'.torn = con.torn, con'.mixed = con.mixed, con'.last_line = con.last_line,
             Fresh(con, con.last_line) => Fresh(con', con.last_line)
      PROVE  TextInv'
  <2>1. Erased(r)'
    BY <1>1, <1>5 DEF Erased, Erasing
  <2> QED
    BY <1>3, <1>4, <1>5, <2>1 DEF Erasing
<1>6. ASSUME NEW w \in Con, Text(w) = Text(con)
      PROVE  /\ w.torn = con.torn /\ w.mixed = con.mixed /\ w.last_line = con.last_line
             /\ \A l : Fresh(w, l) = Fresh(con, l)
  BY <1>1, <1>6, FreshFacts DEF Text
<1>7. CASE ink(r)
  <2>1. CASE LoadLine(r, "ink_line", "ink_col") \/ LoadCol(r, "ink_col", "ink")
    BY <1>5, <2>1 DEF LoadLine, LoadCol, Load, Goto, Erasing, Showing, Sending
  <2>2. CASE Store(r, "ink", Ink(con, Position(reg[r])), "read")
    <3>1. /\ con' = Ink(con, Position(reg[r])) /\ pc[r] = "ink"
          /\ pc' = [pc EXCEPT ![r] = "read"]
      BY <2>2 DEF Store, Goto
    <3>2. /\ con'.torn = con.torn /\ con'.mixed = con.mixed /\ con'.last_line = con.last_line
          /\ Fresh(con, con.last_line) => Fresh(con', con.last_line)
      BY <1>1, <3>1, DrawFacts, FreshFacts
    <3> QED
      BY <1>5, <3>1, <3>2 DEF Erasing, Showing, Sending
  <2> QED
    BY <1>7, <2>1, <2>2 DEF ink
<1>8. CASE move(r) \/ wrap_column(r) \/ wrap_line(r)
  <2>1. Text(con') = Text(con)
    <3>1. CASE con' = con
      BY <3>1
    <3>2. CASE \E v : v \in {Advance(con, c[r], reg[r].line, reg[r].col), LineStart(con)} /\ con' = v
      BY <1>1, <3>2, TextFacts
    <3>3. CASE \E l : con' = [con EXCEPT !.line = l]
      BY <1>1, <3>3 DEF Con, Text
    <3> QED
      BY <1>8, <3>1, <3>2, <3>3
         DEF move, wrap_column, wrap_line, Load, LoadLine, Branch, Store
  <2>2. PICK m : m \notin Showing \cup {"out"} \cup Erasing /\ pc' = [pc EXCEPT ![r] = m]
    <3>1. \A m \in {"read", "move", "wrap_column", "line_start", "wrap_start", "wrap_line",
                    "wrap_read", "wrap_next", "top", "new_line"} :
            m \notin Showing \cup {"out"} \cup Erasing
      BY DEF Erasing, Showing, Sending
    <3> QED
      BY <1>8, <3>1 DEF move, wrap_column, wrap_line, Load, LoadLine, Branch, Store, Goto
  <2>3. pc[r] \notin {"out"} \cup Erasing
    BY <1>8 DEF move, wrap_column, wrap_line, Load, LoadLine, Branch, Store, Erasing
  <2> QED
    BY <1>1, <1>5, <1>6, <2>1, <2>2, <2>3
<1>9. CASE new_line(r)
  <2>1. CASE LoadLine(r, "new_line", "changed")
    BY <1>5, <2>1 DEF LoadLine, Load, Goto, Erasing, Showing, Sending
  <2>2. CASE Branch(r, "changed", reg[r].line # con.last_line, "clear_line", "cursor_col")
    <3>1. /\ pc[r] = "changed" /\ con' = con
          /\ pc' = [pc EXCEPT ![r] = IF reg[r].line # con.last_line THEN "clear_line"
                                                                    ELSE "cursor_col"]
      BY <2>2 DEF Branch, Goto
    <3>2. CASE reg[r].line # con.last_line
      BY <1>5, <3>1, <3>2 DEF Erasing, Showing, Sending
    <3>3. CASE reg[r].line = con.last_line
      <4>1. pc' = [pc EXCEPT ![r] = "cursor_col"] /\ pc[r] \notin Erasing /\ pc[r] # "out"
        BY <3>1, <3>3 DEF Erasing
      <4>2. ~con.torn => con'.line = con'.last_line
        BY <1>4, <3>1, <3>3 DEF InStep, WithLine
      <4>3. Erased(r)'
        BY <1>1, <4>1 DEF Erased
      <4> QED
        BY <1>3, <1>4, <3>1, <4>1, <4>2, <4>3
    <3> QED
      BY <3>2, <3>3
  <2>3. CASE clear_line(r)
    <3>1. /\ pc[r] = "clear_line" /\ pc' = [pc EXCEPT ![r] = "blank"]
          /\ reg'[r].line = con.line /\ reg'[r].col = 0
      BY <1>1, <2>3 DEF clear_line, Goto
    <3>2. con'.torn = con.torn /\ con'.mixed = con.mixed
      BY <1>1, <2>3 DEF clear_line, Con
    <3>3. Erased(r)'
      <4>1. \A i \in Cell : i \div VGA_WIDTH = con.line => ~(i < VGA_WIDTH * con.line + 0)
        BY <1>1, LineFacts, ByteFacts
      <4> QED
        BY <3>1, <4>1 DEF Erased, Position
    <3> QED
      BY <1>3, <3>1, <3>2, <3>3 DEF Erasing, Showing, Sending
  <2>4. CASE blank(r)
    <3> DEFINE last == reg[r].col = VGA_WIDTH - 1
               p    == Position(reg[r])
               v    == Blank(con, p)
    <3>1. /\ pc[r] = "blank"
          /\ pc' = [pc EXCEPT ![r] = IF last THEN "last_read" ELSE "blank"]
      BY <2>4 DEF blank, Goto
    <3>2. con' = IF last THEN [v EXCEPT !.mixed = @ /\ con.torn] ELSE v
      BY <2>4 DEF blank
    <3>3. ~last => reg'[r] = [line |-> reg[r].line, col |-> reg[r].col + 1]
      BY <1>1, <2>4 DEF blank
    <3>4. v \in Con /\ v.line = con.line /\ v.torn = con.torn /\ v.mixed = con.mixed
      BY <1>1, InkFacts, DrawFacts
    <3>5. p \in Cell => v.scr_tab = [con.scr_tab EXCEPT ![p] = "blank"]
      BY <1>1, DrawFacts
    <3> HIDE DEF v
    <3>6. /\ con'.line = con.line /\ con'.torn = con.torn /\ con'.scr_tab = v.scr_tab
          /\ con.torn => con'.mixed = con.mixed
      <4>1. LET w == [v EXCEPT !.mixed = @ /\ con.torn]
            IN  /\ w.line = v.line /\ w.torn = v.torn /\ w.scr_tab = v.scr_tab
                /\ con.torn => w.mixed = v.mixed
        BY <3>4 DEF Con
      <4> QED
        BY <3>2, <3>4, <4>1
    <3>7. reg[r].col < VGA_WIDTH
      BY <3>1 DEF TextInv, Inv, InLine
    <3>8. pc'[r] = IF last THEN "last_read" ELSE "blank"
      BY <1>1, <3>1
    <3>9. ASSUME ~con.torn
          PROVE  Erased(r)' /\ (last => Fresh(con', con'.line))
      <4>1. /\ con.line < VGA_HEIGHT /\ reg[r].line = con.line /\ Erased(r)
        BY <1>4, <3>1, <3>9, AloneOnScreen DEF OnScreen, InStep, WithLine, LineTest, ColTest
      <4>2. p \in Cell
        BY <1>1, <3>7, <4>1, CellFacts
      <4>3. con.scr_tab \in [Cell -> {"blank", "ink", "clock"}] /\ con'.scr_tab[p] = "blank"
            /\ \A i \in Cell \ {p} : con'.scr_tab[i] = con.scr_tab[i]
        BY <1>1, <3>5, <3>6, <4>2 DEF Con
      <4>4. p = VGA_WIDTH * reg[r].line + reg[r].col
        BY DEF Position
      <4> HIDE DEF p
      <4>5. ASSUME NEW i \in Cell, i \div VGA_WIDTH = reg[r].line,
                   i < VGA_WIDTH * reg[r].line + (reg[r].col + 1)
            PROVE  con'.scr_tab[i] # "ink"
        <5>1. i < p \/ i = p
          BY <1>1, <3>7, <4>4, <4>5, LineFacts
        <5> QED
          BY <3>1, <4>1, <4>3, <4>5, <5>1 DEF Erased, p
      <4>6. CASE last
        <5>1. ASSUME NEW i \in Cell, i \div VGA_WIDTH = reg[r].line
              PROVE  con'.scr_tab[i] # "ink"
          <6>1. i < VGA_WIDTH * reg[r].line + VGA_WIDTH
            BY <1>1, <3>7, <5>1, LineFacts
          <6>2. reg[r].col + 1 = VGA_WIDTH
            BY <4>6, ConsoleAssumption
          <6> QED
            BY <4>5, <5>1, <6>1, <6>2
        <5> QED
          BY <3>6, <3>8, <4>1, <4>6, <5>1 DEF Fresh, Erased
      <4>7. CASE ~last
        BY <3>3, <4>5, <4>7 DEF Erased, Position
      <4> QED
        BY <4>6, <4>7
    <3>10. CASE last
      BY <1>3, <3>1, <3>6, <3>9, <3>10 DEF Erasing, Showing, Sending
    <3>11. CASE ~last
      BY <1>3, <3>1, <3>6, <3>9, <3>11 DEF Erasing, Showing, Sending
    <3> QED
      BY <3>10, <3>11
  <2>5. CASE LoadLine(r, "last_read", "last_write")
    <3>1. /\ pc[r] = "last_read" /\ con' = con /\ pc' = [pc EXCEPT ![r] = "last_write"]
      BY <2>5 DEF LoadLine, Load, Goto
    <3>2. Erased(r)'
      BY <1>1, <3>1 DEF Erased
    <3> QED
      BY <1>3, <1>4, <3>1, <3>2 DEF Erasing, Showing, Sending
  <2>6. CASE Store(r, "last_write", [con EXCEPT !.last_line = reg[r].line], "cursor_col")
    <3>1. /\ con' = [con EXCEPT !.last_line = reg[r].line] /\ pc[r] = "last_write"
          /\ pc' = [pc EXCEPT ![r] = "cursor_col"]
      BY <2>6 DEF Store, Goto
    <3>2. /\ con'.torn = con.torn /\ con'.mixed = con.mixed /\ con'.line = con.line
          /\ con'.last_line = reg[r].line
          /\ con'.scr_tab = con.scr_tab /\ con'.fresh = con.fresh
      BY <1>1, <3>1 DEF Con
    <3>3. Fresh(con', con.line) = Fresh(con, con.line)
      BY <1>1, <3>2, FreshFacts
    <3>4. ~con.torn => con'.last_line = con.line
      BY <1>4, <3>1, <3>2 DEF InStep, WithLine
    <3>5. Erased(r)'
      BY <1>1, <3>1 DEF Erased
    <3> QED
      BY <1>3, <1>4, <3>1, <3>2, <3>3, <3>4, <3>5 DEF Erasing
  <2> QED
    BY <1>9, <2>1, <2>2, <2>3, <2>4, <2>5, <2>6 DEF new_line
<1>10. CASE set_cursor_outb(r)
  <2>1. /\ con'.line = con.line /\ con'.last_line = con.last_line
        /\ con'.torn = con.torn /\ con'.mixed = con.mixed
        /\ con'.scr_tab = con.scr_tab /\ con'.fresh = con.fresh
    <3>1. CASE con' = con
      BY <3>1
    <3>2. CASE command(r, "command_low", "low", "data_low") \/ data_low(r)
      BY <1>1, <3>2 DEF command, data_low, data, Con
    <3>3. CASE command(r, "command_high", "high", "data_high") \/ data_high(r)
      BY <1>1, <3>3 DEF command, data_high, data, Con
    <3> QED
      BY <1>10, <3>1, <3>2, <3>3 DEF set_cursor_outb, LoadLine, LoadCol, Load
  <2>2. pc[r] \in Showing /\ pc[r] \notin Erasing /\ pc[r] # "out"
    BY <1>10 DEF set_cursor_outb, LoadLine, LoadCol, Load, command, data_low, data_high,
                 Erasing, Showing, Sending
  <2>3. PICK m \in Showing \cup {"out"} : pc' = [pc EXCEPT ![r] = m]
    BY <1>10 DEF set_cursor_outb, LoadLine, LoadCol, Load, Goto, command, data_low, data_high,
                 Showing, Sending
  <2>4. Fresh(con', con.last_line) = Fresh(con, con.last_line)
    BY <1>1, <2>1, FreshFacts
  <2>5. m \notin Erasing /\ Erased(r)'
    BY <1>1, <2>3 DEF Erased, Erasing, Showing, Sending
  <2> QED
    BY <1>3, <1>4, <2>1, <2>2, <2>3, <2>4, <2>5 DEF Erasing
<1> QED
  BY <1>2, <1>7, <1>8, <1>9, <1>10 DEF EchoStep

LEMMA TextNext == TextInv /\ WriteInv /\ [Next]_vars => TextInv'
<1> SUFFICES ASSUME TextInv, WriteInv, [Next]_vars
             PROVE  TextInv'
  OBVIOUS
<1>1. Inv'
  BY InvNext DEF TextInv
<1>2. con \in Con
  BY DEF TextInv, Inv, TypeOK
<1>3. ASSUME NEW ch \in Char, sys_write(ch)
      PROVE  TextInv'
  <2> DEFINE v == Begin(con)
  <2>1. /\ v \in Con /\ v.last_line = con.last_line
        /\ v.scr_tab = con.scr_tab /\ v.fresh = con.fresh
    BY <1>2, BeginFacts
  <2>2. v.torn = ~Quiet /\ v.mixed = (con.mixed \/ ~Quiet)
    BY <1>2 DEF Begin, Con
  <2>3. con' = console_putchar(v, ch) /\ pc' = pc
    BY <1>3 DEF sys_write
  <2> HIDE DEF v
  <2>4. /\ con'.torn = v.torn /\ (v.mixed /\ v.torn => con'.mixed)
        /\ con'.cleared \/ con'.last_line = con'.line
    BY <2>1, <2>3, PutcharKeeps
  <2>5. CASE ~Quiet
    BY <1>1, <2>2, <2>4, <2>5 DEF TextInv
  <2>6. CASE Quiet
    <3>1. v.mixed \/ Fresh(v, v.last_line)
      BY <1>2, <2>1, <2>2, <2>6, FreshFacts DEF TextInv, Clean, Quiet, Erasing
    <3>2. con'.mixed \/ (Fresh(con', con'.last_line) /\ Fresh(con', con'.line))
      BY <2>1, <2>3, <3>1, PutcharFresh
    <3>3. \A r \in Reader : pc'[r] = "out"
      BY <2>3, <2>6 DEF Quiet
    <3>4. Current' /\ \A r \in Reader : Erased(r)'
      BY <2>4, <3>3 DEF Current, Erased, Showing, Sending
    <3>5. ~con'.mixed => Clean'
      BY <3>2, <3>3 DEF Clean
    <3> QED
      BY <1>1, <2>2, <2>4, <2>6, <3>4, <3>5 DEF TextInv
  <2> QED
    BY <2>5, <2>6
<1>4. CASE display_clock
  <2> DEFINE clock == VGA_WIDTH - CLOCK .. VGA_WIDTH - 1
  <2>1. /\ con'.line = con.line /\ con'.last_line = con.last_line /\ con'.cleared = con.cleared
        /\ con'.torn = con.torn /\ con'.mixed = con.mixed
        /\ con'.scr_tab = [i \in Cell |-> IF i \in clock THEN "clock" ELSE con.scr_tab[i]]
        /\ con'.fresh = con.fresh \ clock
    BY <1>2, <1>4 DEF display_clock, Con
  <2> HIDE DEF clock
  <2>2. /\ \A l : Fresh(con, l) => Fresh(con', l)
        /\ \A i \in Cell : con'.scr_tab[i] = "ink" => con.scr_tab[i] = "ink"
    BY <2>1 DEF Fresh
  <2>3. pc' = pc /\ reg' = reg
    BY <1>4 DEF display_clock
  <2>4. \A r \in Reader : Erased(r) => Erased(r)'
    BY <2>2, <2>3 DEF Erased
  <2>5. (Current => Current') /\ (Clean => Clean')
    BY <2>1, <2>2, <2>3 DEF Current, Clean, Quiet
  <2> QED
    BY <1>1, <2>1, <2>4, <2>5 DEF TextInv
<1>5. CASE \E r \in Reader : EchoStep(r)
  BY <1>1, <1>5, TextEcho
<1>6. CASE UNCHANGED vars
  <2>1. con' = con /\ pc' = pc /\ reg' = reg
    BY <1>6 DEF vars
  <2>2. Current' = Current /\ Clean' = Clean /\ \A r \in Reader : Erased(r)' = Erased(r)
    BY <2>1 DEF Current, Clean, Erased, Quiet
  <2> QED
    BY <1>1, <2>1, <2>2 DEF TextInv
<1> QED
  BY <1>3, <1>4, <1>5, <1>6 DEF Next

LEMMA TextInit == Init => TextInv
<1> SUFFICES ASSUME Init
             PROVE  TextInv
  OBVIOUS
<1>1. /\ con.line = con.last_line /\ con.scr_tab = [i \in Cell |-> "blank"] /\ ~con.torn
      /\ \A r \in Reader : pc[r] = "out"
  BY DEF Init
<1>2. \A l : Fresh(con, l)
  BY <1>1 DEF Fresh
<1> QED
  BY <1>1, <1>2, InvInit DEF TextInv, Current, Clean, Erased, Erasing, Showing, Sending

\* What the current line shows was written since the cursor came to it, from the first
\* line that a character leaves unmixed; and nothing is written outside a screen, of any
\* size, but by a character that comes in the middle of another one.
THEOREM InkStaysInPlace == Spec => []InkInPlace
<1>1. WriteInv /\ TextInv => InkInPlace
  BY DEF WriteInv, TextInv, Inside, InkInPlace, Clean, Fresh
<1> QED
  BY <1>1, WriteInit, WriteNext, TextInit, TextNext, PTL DEF Spec

\* A printable character that begins on the line that last_line names is not erased by the
\* change of line that it makes.
LEMMA PutcharKept ==
  ASSUME NEW v \in Con, OnScreen(v), v.line = v.last_line
  PROVE  console_putchar(v, "ink").scr_tab[Position(v)] = "ink"
<1> DEFINE p       == Position(v)
           printed == Ink(v, p)
           wrapped == WrapLine(WrapColumn(Move(printed, "ink")))
           erased  == NewLine(wrapped)
<1>1. v.line \in Byte /\ v.col \in Byte /\ p \in Cell /\ p \div VGA_WIDTH = v.line
  BY PositionFacts DEF Con
<1> HIDE DEF p
<1>2. printed \in Con /\ printed.last_line = v.last_line
  BY InkFacts, DrawFacts
<1>3. printed.scr_tab = [v.scr_tab EXCEPT ![p] = "ink"]
  BY <1>1, DrawFacts
<1>4. console_putchar(v, "ink") = set_cursor(erased)
  BY DEF console_putchar, p
<1> HIDE DEF printed
<1>5. wrapped \in Con /\ Text(wrapped) = Text(printed)
  <2> DEFINE moved  == Move(printed, "ink")
             column == WrapColumn(moved)
  <2>1. moved \in Con /\ Text(moved) = Text(printed)
    BY <1>2, MoveFacts, TextFacts
  <2> HIDE DEF moved
  <2>2. column \in Con /\ Text(column) = Text(moved)
    BY <2>1, WrapColumnFacts, TextFacts
  <2> HIDE DEF column
  <2>3. WrapLine(column) \in Con /\ Text(WrapLine(column)) = Text(column)
    BY <2>2, WrapLineFacts, TextFacts
  <2> QED
    BY <2>1, <2>2, <2>3 DEF moved, column
<1> HIDE DEF wrapped
<1>6. wrapped.scr_tab[p] = "ink" /\ wrapped.last_line = v.line
  <2>1. wrapped.scr_tab = printed.scr_tab /\ wrapped.last_line = printed.last_line
    BY <1>5 DEF Text
  <2>2. v.scr_tab \in [Cell -> {"blank", "ink", "clock"}]
    BY DEF Con
  <2> QED
    BY <1>1, <1>2, <1>3, <2>1, <2>2
<1>7. erased \in Con /\ erased.scr_tab[p] = "ink"
  <2>1. CASE wrapped.line = wrapped.last_line
    BY <1>5, <1>6, <2>1, NewLineFacts DEF NewLine
  <2>2. CASE wrapped.line # wrapped.last_line
    <3>1. erased.scr_tab = [i \in Cell |-> IF i \div VGA_WIDTH = wrapped.line
                                             THEN "blank" ELSE wrapped.scr_tab[i]]
      BY <1>5, <2>2 DEF NewLine, Con
    <3> QED
      BY <1>1, <1>5, <1>6, <2>2, <3>1, NewLineFacts
  <2> QED
    BY <2>1, <2>2
<1> HIDE DEF erased
<1>8. set_cursor(erased).scr_tab = erased.scr_tab
  BY <1>7, TextFacts DEF Text
<1> QED
  BY <1>4, <1>7, <1>8 DEF p

\* A printable character that cuts nobody, and follows one that cut nobody, stays where it
\* has been written, even when it is the last one of its line or of the screen.
THEOREM InkIsKept == Spec => InkKept
<1>1. ASSUME TextInv, Quiet, ~con.torn, ~con.cleared, sys_write("ink")
      PROVE  con'.scr_tab[Position(con)] = "ink"
  <2> DEFINE v == Begin(con)
  <2>1. con \in Con /\ OnScreen(con) /\ con.line = con.last_line
    BY <1>1, QuietOnScreen DEF TextInv, Current, Inv, TypeOK
  <2>2. /\ v \in Con /\ v.line = con.line /\ v.col = con.col /\ v.last_line = con.last_line
    BY <2>1, BeginFacts
  <2>3. con' = console_putchar(v, "ink")
    BY <1>1 DEF sys_write
  <2> HIDE DEF v
  <2>4. Position(v) = Position(con) /\ OnScreen(v) /\ v.line = v.last_line
    BY <2>1, <2>2, LowFacts DEF OnScreen
  <2> QED
    BY <2>2, <2>3, <2>4, PutcharKept
<1>2. TextInv /\ [Next]_vars =>
        [Quiet /\ ~con.torn /\ ~con.cleared /\ sys_write("ink") => con'.scr_tab[Position(con)] = "ink"]_vars
  BY <1>1
<1> QED
  BY <1>2, WriteInit, WriteNext, TextInit, TextNext, PTL DEF Spec, InkKept
=============================================================================
