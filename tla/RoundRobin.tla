----------------------------- MODULE RoundRobin -----------------------------
(***************************************************************************)
(* What the scheduler of n7OS promises: the CPU belongs to one process at  *)
(* a time and passes to the next one, in the order of the process table,   *)
(* for ever.  Process.tla is shown to implement this specification, with   *)
(* turn mapped to current_pid.                                             *)
(***************************************************************************)
EXTENDS Naturals

CONSTANT N          \* number of processes that share the CPU, at least 1

VARIABLE turn       \* the process that owns the CPU

TypeOK == turn \in 0 .. N - 1

Init == turn = 0

\* The CPU passes to the next process.
Next == turn' = (turn + 1) % N

Spec == Init /\ [][Next]_turn /\ WF_turn(Next)
=============================================================================
