----------------------------- MODULE LineEditor -----------------------------
(***************************************************************************)
(* What read() of n7OS promises: the characters typed wait in a queue, a   *)
(* call takes them one by one into a line, Backspace takes the last one    *)
(* back, and the call ends with Enter or when the line is full.  What is   *)
(* typed after that is for the next call.                                  *)
(***************************************************************************)
EXTENDS Naturals, Sequences

CONSTANTS
  Key,         \* the characters that go into a line
  ENTER, BS,   \* those that do not
  Capacity     \* how many characters can wait (63)

ASSUME LineEditorAssumption ==
  ENTER \notin Key /\ BS \notin Key /\ ENTER # BS /\ Capacity \in Nat \ {0}

VARIABLES
  queue,       \* the characters that wait
  line,        \* the line of the current call, or of the last one
  room,        \* how many characters that line may have
  open         \* a call is taking characters

Typed == Key \cup {ENTER, BS}

InitEditor == queue = <<>> /\ line = <<>> /\ room = 0 /\ open = FALSE

\* A character is typed; it is lost when the queue is full.
Type(ch) ==
  /\ queue' = IF Len(queue) < Capacity THEN Append(queue, ch) ELSE queue
  /\ UNCHANGED <<line, room, open>>

\* A call for at most n characters: there is nothing to wait for when n = 0.
Open(n) ==
  /\ ~open
  /\ line' = <<>> /\ room' = n /\ open' = (n > 0)
  /\ UNCHANGED queue

\* The line l once ch has been taken.
Edited(l, ch) ==
  CASE ch = ENTER -> l
    [] ch = BS    -> IF l = <<>> THEN l ELSE SubSeq(l, 1, Len(l) - 1)
    [] OTHER      -> Append(l, ch)

Take ==
  /\ open /\ queue # <<>>
  /\ queue' = Tail(queue)
  /\ line' = Edited(line, Head(queue))
  /\ open' = (Head(queue) # ENTER /\ Len(line') < room)
  /\ UNCHANGED room

NextEditor == Take \/ (\E ch \in Typed : Type(ch)) \/ (\E n \in Nat : Open(n))

SpecEditor == InitEditor /\ [][NextEditor]_<<queue, line, room, open>>
=============================================================================
