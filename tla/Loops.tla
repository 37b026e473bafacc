------------------------------- MODULE Loops -------------------------------
(***************************************************************************)
(* The loops of n7OS' library, as functions of the number of turns made.   *)
(***************************************************************************)
EXTENDS Integers

\* What n turns make of a state, turn number j making turn(j, w) of w.
After(n, start, turn(_, _)) ==
  LET after[j \in 0 .. n] == IF j = 0 THEN start ELSE turn(j, after[j - 1])
  IN  after[n]

\* A pointer that goes up from a, n places at most, until it comes to one of stops.
Up(n, a, stops) == After(n, a, LAMBDA j, p : IF p \in stops THEN p ELSE p + 1)
=============================================================================
