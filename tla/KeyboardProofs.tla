--------------------------- MODULE KeyboardProofs ---------------------------
(***************************************************************************)
(* Proofs about Keyboard.tla, for every size of the buffer and every set   *)
(* of keys.                                                                *)
(***************************************************************************)
EXTENDS Keyboard, SequenceTheorems, TLAPS

\* What kgetch() relies on between its steps, and who may halt.
ReaderInv ==
  /\ pc \in {"load", "advance"} => kbd_head # kbd_tail
  /\ pc = "advance" => c = kbd_buffer[kbd_tail]
  /\ pc = "hlt" => IFlag
  /\ halted => IFlag

Inv == TypeOK /\ ReaderInv

LEMMA IndexFacts ==
  /\ 0 \in Index
  /\ \A i \in Index : (i + 1) % KBD_BUFFER_SIZE \in Index
  /\ \A i \in Index : (i + 1) % KBD_BUFFER_SIZE # i
BY KeyboardAssumption DEF Index

LEMMA InvInit == Init => Inv
BY IndexFacts DEF Init, Inv, TypeOK, ReaderInv

\* A push leaves what it does not fill alone, the oldest character above all.
LEMMA PushFacts ==
  ASSUME TypeOK, NEW ch \in Char, kbd_buffer_push(ch)
  PROVE  /\ kbd_buffer' \in [Index -> Char \cup {NoChar}]
         /\ kbd_head' \in Index /\ kbd_tail' = kbd_tail
         /\ kbd_head # kbd_tail =>
              kbd_head' # kbd_tail /\ kbd_buffer'[kbd_tail] = kbd_buffer[kbd_tail]
BY IndexFacts DEF TypeOK, kbd_buffer_push, bufVars

LEMMA HandlerFacts ==
  ASSUME TypeOK, port60 # NoCode, keyboard_handler_C(port60)
  PROVE  /\ kbd_buffer' \in [Index -> Char \cup {NoChar}]
         /\ kbd_head' \in Index /\ kbd_tail' = kbd_tail
         /\ shift_pressed' \in {0, 1}
         /\ kbd_head # kbd_tail =>
              kbd_head' # kbd_tail /\ kbd_buffer'[kbd_tail] = kbd_buffer[kbd_tail]
<1>1. port60 \in Scancode
  BY DEF TypeOK
<1>2. CASE port60.code = "down" /\ kbd_buffer_push(<<port60.key, shift_pressed>>)
           /\ UNCHANGED shift_pressed
  <2>1. port60.key \in Key
    BY <1>1, <1>2 DEF Scancode
  <2>2. <<port60.key, shift_pressed>> \in Char
    BY <2>1 DEF TypeOK, Char
  <2> QED
    BY <1>2, <2>2, PushFacts DEF TypeOK
<1>3. CASE UNCHANGED bufVars /\ shift_pressed' \in {0, 1}
  BY <1>3 DEF TypeOK, bufVars
<1> QED
  BY <1>2, <1>3 DEF keyboard_handler_C, TypeOK

LEMMA InvNext == Inv /\ [Next]_vars => Inv'
<1> SUFFICES ASSUME Inv, [Next]_vars
             PROVE  Inv'
  OBVIOUS
<1> USE DEF Inv, TypeOK, ReaderInv, Reader, At, bufVars, readerVars
<1>1. CASE Keys
  BY <1>1 DEF Keys, PressShift, ReleaseShift, TypeKey, OtherKey, Send, Scancode
<1>2. CASE handler_keyboard
  <2>1. /\ kbd_buffer' \in [Index -> Char \cup {NoChar}]
        /\ kbd_head' \in Index /\ kbd_tail' = kbd_tail
        /\ shift_pressed' \in {0, 1}
        /\ kbd_head # kbd_tail =>
             kbd_head' # kbd_tail /\ kbd_buffer'[kbd_tail] = kbd_buffer[kbd_tail]
    BY <1>2, HandlerFacts DEF handler_keyboard
  <2> QED
    BY <1>2, <2>1 DEF handler_keyboard
<1>3. CASE handler_timer
  BY <1>3 DEF handler_timer
<1>4. CASE call
  BY <1>4 DEF call
<1>5. CASE Kgetch
  <2>1. CASE check
    BY <2>1 DEF check
  <2>2. CASE sti
    BY <2>2 DEF sti
  <2>3. CASE hlt
    BY <2>3 DEF hlt
  <2>4. CASE load
    BY <2>4 DEF load
  <2>5. CASE advance
    BY <2>5, IndexFacts DEF advance
  <2>6. CASE again
    BY <2>6 DEF again
  <2>7. CASE iret
    BY <2>7 DEF iret
  <2> QED
    BY <1>5, <2>1, <2>2, <2>3, <2>4, <2>5, <2>6, <2>7 DEF Kgetch
<1>6. CASE UNCHANGED vars
  BY <1>6 DEF vars
<1> QED
  BY <1>1, <1>2, <1>3, <1>4, <1>5, <1>6 DEF Next

\* Every variable keeps its type, and the CPU never halts with interrupts masked.
THEOREM KeyboardSafe == Spec => [](TypeOK /\ NoDeafHalt)
<1>1. Inv => TypeOK /\ NoDeafHalt
  BY DEF Inv, ReaderInv, NoDeafHalt
<1> QED
  BY <1>1, InvInit, InvNext, PTL DEF Spec

----------------------------------------------------------------------------
(* The ring buffer is a bounded queue.                                     *)

LEMMA RingFacts ==
  ASSUME NEW h \in Index, NEW t \in Index
  PROVE  /\ (h + KBD_BUFFER_SIZE - t) % KBD_BUFFER_SIZE
              = IF h >= t THEN h - t ELSE h + KBD_BUFFER_SIZE - t
         /\ (h + 1) % KBD_BUFFER_SIZE = IF h + 1 = KBD_BUFFER_SIZE THEN 0 ELSE h + 1
         /\ \A i \in 1 .. KBD_BUFFER_SIZE :
              (t + i - 1) % KBD_BUFFER_SIZE
                = IF t + i - 1 < KBD_BUFFER_SIZE THEN t + i - 1
                                                 ELSE t + i - 1 - KBD_BUFFER_SIZE
BY KeyboardAssumption DEF Index

\* What the ring holds, cell by cell.
LEMMA RingProps ==
  ASSUME NEW h \in Index, NEW t \in Index, NEW b \in [Index -> Char \cup {NoChar}]
  PROVE  /\ RingLen(h, t) \in 0 .. KBD_BUFFER_SIZE - 1
         /\ RingLen(h, t) = IF h >= t THEN h - t ELSE h + KBD_BUFFER_SIZE - t
         /\ RingSeq(b, h, t) \in Seq(Char \cup {NoChar})
         /\ Len(RingSeq(b, h, t)) = RingLen(h, t)
         /\ \A i \in 1 .. RingLen(h, t) :
              RingSeq(b, h, t)[i] = b[IF t + i - 1 < KBD_BUFFER_SIZE
                                        THEN t + i - 1 ELSE t + i - 1 - KBD_BUFFER_SIZE]
<1>1. /\ RingLen(h, t) = IF h >= t THEN h - t ELSE h + KBD_BUFFER_SIZE - t
      /\ RingLen(h, t) \in 0 .. KBD_BUFFER_SIZE - 1
  BY RingFacts, KeyboardAssumption DEF RingLen, Index
<1>2. \A i \in 1 .. RingLen(h, t) :
        /\ (t + i - 1) % KBD_BUFFER_SIZE
             = IF t + i - 1 < KBD_BUFFER_SIZE THEN t + i - 1 ELSE t + i - 1 - KBD_BUFFER_SIZE
        /\ (t + i - 1) % KBD_BUFFER_SIZE \in Index
  <2>1. \A i \in 1 .. RingLen(h, t) : i \in 1 .. KBD_BUFFER_SIZE
    BY <1>1, KeyboardAssumption
  <2> QED
    BY <1>1, <2>1, RingFacts, KeyboardAssumption DEF Index
<1>3. RingSeq(b, h, t) \in Seq(Char \cup {NoChar}) /\ Len(RingSeq(b, h, t)) = RingLen(h, t)
  BY <1>1, <1>2 DEF RingSeq
<1>4. \A i \in 1 .. RingLen(h, t) : RingSeq(b, h, t)[i] = b[(t + i - 1) % KBD_BUFFER_SIZE]
  BY DEF RingSeq
<1> QED
  BY <1>1, <1>2, <1>3, <1>4

LEMMA QueueFacts ==
  ASSUME TypeOK
  PROVE  /\ Waiting \in 0 .. KBD_BUFFER_SIZE - 1
         /\ Waiting = IF kbd_head >= kbd_tail THEN kbd_head - kbd_tail
                                              ELSE kbd_head + KBD_BUFFER_SIZE - kbd_tail
         /\ Queue \in Seq(Char \cup {NoChar})
         /\ Len(Queue) = Waiting
         /\ \A i \in 1 .. Waiting :
              Queue[i] = kbd_buffer[IF kbd_tail + i - 1 < KBD_BUFFER_SIZE
                                      THEN kbd_tail + i - 1
                                      ELSE kbd_tail + i - 1 - KBD_BUFFER_SIZE]
BY RingProps DEF TypeOK, Waiting, Queue

LEMMA QueueFactsNext ==
  ASSUME TypeOK'
  PROVE  /\ Waiting' = IF kbd_head' >= kbd_tail' THEN kbd_head' - kbd_tail'
                                                 ELSE kbd_head' + KBD_BUFFER_SIZE - kbd_tail'
         /\ Queue' \in Seq(Char \cup {NoChar})
         /\ Len(Queue') = Waiting'
         /\ \A i \in 1 .. Waiting' :
              Queue'[i] = kbd_buffer'[IF kbd_tail' + i - 1 < KBD_BUFFER_SIZE
                                        THEN kbd_tail' + i - 1
                                        ELSE kbd_tail' + i - 1 - KBD_BUFFER_SIZE]
BY RingProps DEF TypeOK, Waiting, Queue

\* kbd_buffer_push appends the character, or loses it when the queue is full.
LEMMA PushRefines ==
  ASSUME TypeOK, TypeOK', NEW ch \in Char, kbd_buffer_push(ch), UNCHANGED returned
  PROVE  \/ Fifo!Push(ch)
         \/ Waiting = KBD_BUFFER_SIZE - 1 /\ UNCHANGED <<Queue, returned>>
<1> DEFINE nxt == (kbd_head + 1) % KBD_BUFFER_SIZE
<1>1. nxt = IF kbd_head + 1 = KBD_BUFFER_SIZE THEN 0 ELSE kbd_head + 1
  BY RingFacts DEF TypeOK
<1>2. /\ kbd_head \in 0 .. KBD_BUFFER_SIZE - 1 /\ kbd_tail \in 0 .. KBD_BUFFER_SIZE - 1
      /\ KBD_BUFFER_SIZE \in Nat \ {0, 1}
  BY KeyboardAssumption DEF TypeOK, Index
<1>3. CASE nxt = kbd_tail
  <2>1. UNCHANGED bufVars
    BY <1>3 DEF kbd_buffer_push
  <2>2. UNCHANGED Queue
    BY <2>1 DEF bufVars, Queue
  <2> HIDE DEF nxt
  <2>3. Waiting = KBD_BUFFER_SIZE - 1
    BY <1>1, <1>2, <1>3, QueueFacts
  <2> QED
    BY <2>2, <2>3
<1>4. CASE nxt # kbd_tail
  <2>1. /\ kbd_buffer' = [kbd_buffer EXCEPT ![kbd_head] = ch]
        /\ kbd_head' = nxt /\ kbd_tail' = kbd_tail
    BY <1>4 DEF kbd_buffer_push
  <2> HIDE DEF nxt
  <2>2. Waiting < KBD_BUFFER_SIZE - 1 /\ Waiting' = Waiting + 1
    BY <1>1, <1>2, <1>4, <2>1, QueueFacts, QueueFactsNext
  <2>3. /\ Queue' \in Seq(Char \cup {NoChar}) /\ Len(Queue') = Waiting + 1
        /\ \A i \in 1 .. Waiting + 1 :
             Queue'[i] = kbd_buffer'[IF kbd_tail + i - 1 < KBD_BUFFER_SIZE
                                       THEN kbd_tail + i - 1
                                       ELSE kbd_tail + i - 1 - KBD_BUFFER_SIZE]
    BY QueueFactsNext, <2>1, <2>2
  <2>4. Queue'[Waiting + 1] = ch
    <3> DEFINE cell == IF kbd_tail + (Waiting + 1) - 1 < KBD_BUFFER_SIZE
                         THEN kbd_tail + (Waiting + 1) - 1
                         ELSE kbd_tail + (Waiting + 1) - 1 - KBD_BUFFER_SIZE
    <3>1. cell = kbd_head
      BY <1>2, QueueFacts
    <3>2. kbd_buffer'[kbd_head] = ch
      BY <2>1 DEF TypeOK
    <3>3. Waiting + 1 \in 1 .. Waiting + 1
      BY QueueFacts
    <3>4. Queue'[Waiting + 1] = kbd_buffer'[cell]
      BY <2>3, <3>3
    <3> HIDE DEF cell
    <3> QED
      BY <3>1, <3>2, <3>4
  <2>5. \A i \in 1 .. Waiting : Queue'[i] = Queue[i]
    <3> SUFFICES ASSUME NEW i \in 1 .. Waiting
                 PROVE  Queue'[i] = Queue[i]
      OBVIOUS
    <3> DEFINE cell == IF kbd_tail + i - 1 < KBD_BUFFER_SIZE
                         THEN kbd_tail + i - 1 ELSE kbd_tail + i - 1 - KBD_BUFFER_SIZE
    <3>1. cell # kbd_head /\ cell \in Index
      BY <1>2, <2>2, QueueFacts DEF Index
    <3>2. kbd_buffer'[cell] = kbd_buffer[cell]
      BY <2>1, <3>1 DEF TypeOK
    <3>3. i \in 1 .. Waiting + 1
      BY QueueFacts
    <3>4. Queue'[i] = kbd_buffer'[cell]
      BY <2>3, <3>3
    <3>5. Queue[i] = kbd_buffer[cell]
      BY QueueFacts
    <3> QED
      BY <3>2, <3>4, <3>5
  <2>6. Queue' = Append(Queue, ch)
    <3>1. /\ Append(Queue, ch) \in Seq(Char \cup {NoChar})
          /\ Len(Append(Queue, ch)) = Waiting + 1
          /\ \A i \in 1 .. Waiting : Append(Queue, ch)[i] = Queue[i]
          /\ Append(Queue, ch)[Waiting + 1] = ch
      BY QueueFacts, AppendProperties
    <3>2. \A i \in 1 .. Len(Queue') : Queue'[i] = Append(Queue, ch)[i]
      BY <2>3, <2>4, <2>5, <3>1, QueueFacts
    <3> QED
      BY <2>3, <3>1, <3>2, SeqEqual
  <2> QED
    BY <2>2, <2>6, QueueFacts DEF Fifo!Push
<1> QED
  BY <1>3, <1>4

\* kgetch's last step takes the oldest character and returns it.
LEMMA AdvanceRefines ==
  ASSUME Inv, TypeOK', advance
  PROVE  Fifo!Pop
<1>1. /\ kbd_head # kbd_tail /\ c = kbd_buffer[kbd_tail] /\ returned' = c
      /\ kbd_tail' = (kbd_tail + 1) % KBD_BUFFER_SIZE
      /\ kbd_buffer' = kbd_buffer /\ kbd_head' = kbd_head /\ TypeOK
  BY DEF advance, At, Inv, ReaderInv
<1>2. /\ kbd_head \in 0 .. KBD_BUFFER_SIZE - 1 /\ kbd_tail \in 0 .. KBD_BUFFER_SIZE - 1
      /\ KBD_BUFFER_SIZE \in Nat \ {0, 1}
  BY <1>1, KeyboardAssumption DEF TypeOK, Index
<1>3. kbd_tail' = IF kbd_tail + 1 = KBD_BUFFER_SIZE THEN 0 ELSE kbd_tail + 1
  BY <1>1, RingFacts DEF TypeOK
<1>4. Waiting > 0 /\ Waiting' = Waiting - 1
  <2>1. Waiting = IF kbd_head >= kbd_tail THEN kbd_head - kbd_tail
                                          ELSE kbd_head + KBD_BUFFER_SIZE - kbd_tail
    BY <1>1, QueueFacts
  <2>2. Waiting' = IF kbd_head' >= kbd_tail' THEN kbd_head' - kbd_tail'
                                             ELSE kbd_head' + KBD_BUFFER_SIZE - kbd_tail'
    BY QueueFactsNext
  <2>3. Waiting' = IF kbd_head >= kbd_tail' THEN kbd_head - kbd_tail'
                                            ELSE kbd_head + KBD_BUFFER_SIZE - kbd_tail'
    BY <1>1, <2>2
  <2>4. kbd_head # kbd_tail
    BY <1>1
  <2> QED
    BY <1>2, <1>3, <2>1, <2>3, <2>4
<1>5. Queue # <<>> /\ Head(Queue) = kbd_buffer[kbd_tail]
  <2>1. 1 \in 1 .. Waiting /\ kbd_tail + 1 - 1 = kbd_tail
    BY <1>1, <1>2, <1>4, QueueFacts
  <2>2. Queue[1] = kbd_buffer[kbd_tail]
    BY <1>1, <1>2, <2>1, QueueFacts
  <2> QED
    BY <1>1, <1>4, <2>2, QueueFacts
<1>6. Queue' = Tail(Queue)
  <2>1. /\ Queue' \in Seq(Char \cup {NoChar}) /\ Len(Queue') = Waiting - 1
        /\ \A i \in 1 .. Waiting - 1 :
             Queue'[i] = kbd_buffer[IF kbd_tail' + i - 1 < KBD_BUFFER_SIZE
                                      THEN kbd_tail' + i - 1
                                      ELSE kbd_tail' + i - 1 - KBD_BUFFER_SIZE]
    BY <1>1, <1>4, QueueFactsNext
  <2>2. /\ Tail(Queue) \in Seq(Char \cup {NoChar}) /\ Len(Tail(Queue)) = Waiting - 1
        /\ \A i \in 1 .. Waiting - 1 : Tail(Queue)[i] = Queue[i + 1]
    BY <1>1, <1>5, QueueFacts, HeadTailProperties
  <2>3. \A i \in 1 .. Waiting - 1 : Queue'[i] = Queue[i + 1]
    <3> SUFFICES ASSUME NEW i \in 1 .. Waiting - 1
                 PROVE  Queue'[i] = Queue[i + 1]
      OBVIOUS
    <3>1. i + 1 \in 1 .. Waiting /\ i \in 1 .. KBD_BUFFER_SIZE - 1
      BY <1>1, <1>2, QueueFacts
    <3>2. Queue[i + 1] = kbd_buffer[IF kbd_tail + (i + 1) - 1 < KBD_BUFFER_SIZE
                                      THEN kbd_tail + (i + 1) - 1
                                      ELSE kbd_tail + (i + 1) - 1 - KBD_BUFFER_SIZE]
      BY <1>1, <3>1, QueueFacts
    <3>3. (IF kbd_tail' + i - 1 < KBD_BUFFER_SIZE
             THEN kbd_tail' + i - 1 ELSE kbd_tail' + i - 1 - KBD_BUFFER_SIZE)
          = (IF kbd_tail + (i + 1) - 1 < KBD_BUFFER_SIZE
               THEN kbd_tail + (i + 1) - 1 ELSE kbd_tail + (i + 1) - 1 - KBD_BUFFER_SIZE)
      BY <1>2, <1>3, <3>1
    <3> QED
      BY <2>1, <3>2, <3>3
  <2> QED
    BY <2>1, <2>2, <2>3, SeqEqual
<1> QED
  BY <1>1, <1>5, <1>6 DEF Fifo!Pop

LEMMA FifoNext == Inv /\ Inv' /\ [Next]_vars => [Fifo!Next]_<<Queue, returned>>
<1> SUFFICES ASSUME Inv, Inv', [Next]_vars
             PROVE  Fifo!Next \/ UNCHANGED <<Queue, returned>>
  BY DEF Fifo!Next
<1>1. TypeOK /\ TypeOK'
  BY DEF Inv
<1>2. CASE UNCHANGED <<bufVars, returned>>
  BY <1>2 DEF bufVars, Queue, Waiting
<1>3. CASE handler_keyboard
  <2>1. returned' = returned /\ keyboard_handler_C(port60) /\ port60 \in Scancode
    BY <1>1, <1>3 DEF handler_keyboard, readerVars, TypeOK
  <2>2. CASE port60.code = "down" /\ kbd_buffer_push(<<port60.key, shift_pressed>>)
    <3>1. <<port60.key, shift_pressed>> \in Char
      <4>1. port60.key \in Key
        BY <2>1, <2>2 DEF Scancode
      <4> QED
        BY <1>1, <4>1 DEF TypeOK, Char
    <3> QED
      BY <1>1, <2>1, <2>2, <3>1, PushRefines DEF Fifo!Next
  <2> QED
    BY <1>2, <2>1, <2>2 DEF keyboard_handler_C
<1>4. CASE advance
  BY <1>1, <1>4, AdvanceRefines DEF Fifo!Next
<1>5. CASE Keys \/ handler_timer \/ call \/ check \/ sti \/ hlt \/ load \/ again \/ iret
           \/ UNCHANGED vars
  <2>1. UNCHANGED <<bufVars, returned>>
    BY <1>5
       DEF Keys, PressShift, ReleaseShift, TypeKey, OtherKey, Send, handler_timer, call, check,
           sti, hlt, load, again, iret, vars, bufVars, readerVars
  <2> QED
    BY <1>2, <2>1
<1> QED
  BY <1>3, <1>4, <1>5 DEF Next, Kgetch

\* What is typed comes out at most once and in order, for every size of the buffer.
THEOREM KeyboardImplementsFifo == Spec => FifoOrder
<1>1. Init => Fifo!Init
  <2> SUFFICES ASSUME Init
               PROVE  Fifo!Init
    OBVIOUS
  <2>1. TypeOK
    BY InvInit DEF Inv
  <2>2. Waiting = 0
    BY <2>1, QueueFacts DEF Init
  <2>3. Queue = <<>>
    BY <2>1, <2>2, QueueFacts
  <2> QED
    BY <2>3 DEF Init, Fifo!Init
<1> QED
  BY <1>1, InvInit, InvNext, FifoNext, PTL DEF Spec, FifoOrder, Fifo!Spec

\* No character is lost but the one that finds the buffer full.
THEOREM KeyboardKeepsWhatFits == Spec => LostOnlyWhenFull
<1>1. ASSUME Inv, Inv', handler_keyboard,
             NEW key \in Key, port60 = [code |-> "down", key |-> key]
      PROVE  Waiting = KBD_BUFFER_SIZE - 1 \/ Queue' = Append(Queue, <<key, shift_pressed>>)
  <2>1. /\ TypeOK /\ TypeOK' /\ returned' = returned
        /\ port60.code = "down" /\ port60.key = key
    BY <1>1 DEF Inv, handler_keyboard, readerVars
  <2>2. kbd_buffer_push(<<key, shift_pressed>>)
    BY <1>1, <2>1 DEF handler_keyboard, keyboard_handler_C
  <2>3. <<key, shift_pressed>> \in Char
    BY <2>1 DEF TypeOK, Char
  <2> QED
    BY <2>1, <2>2, <2>3, PushRefines DEF Fifo!Push
<1>2. Inv /\ Inv' /\ [Next]_vars =>
        [\A key \in Key :
           handler_keyboard /\ port60 = [code |-> "down", key |-> key] =>
             \/ Waiting = KBD_BUFFER_SIZE - 1
             \/ Queue' = Append(Queue, <<key, shift_pressed>>)]_vars
  BY <1>1
<1> QED
  BY <1>2, InvInit, InvNext, PTL DEF Spec, LostOnlyWhenFull
=============================================================================
