---------------------------- MODULE BoundedFifo ----------------------------
(***************************************************************************)
(* What the keyboard buffer of n7OS promises: the characters typed come    *)
(* out once each and in order; one that is lost changes nothing.  Which    *)
(* ones may be lost is stated in Keyboard.tla.                             *)
(***************************************************************************)
EXTENDS Naturals, Sequences

CONSTANTS
  Char,       \* the characters
  NoChar,     \* what out holds before the first character
  Capacity    \* how many characters can wait

VARIABLES
  queue,      \* the characters that wait
  out         \* the last one that was read

Init == queue = <<>> /\ out = NoChar

Push(c) ==
  /\ Len(queue) < Capacity
  /\ queue' = Append(queue, c)
  /\ UNCHANGED out

Pop ==
  /\ queue # <<>>
  /\ out' = Head(queue)
  /\ queue' = Tail(queue)

Next == Pop \/ \E c \in Char : Push(c)

Spec == Init /\ [][Next]_<<queue, out>>
=============================================================================
