----------------------------- MODULE AppsProofs -----------------------------
(***************************************************************************)
(* A proof about step 5 of the demo (Apps.tla), for any keyboard buffer    *)
(* and any lines.                                                          *)
(***************************************************************************)
EXTENDS Apps, TLAPS

\* Nothing is late while processus1 is awake, nor while a line it has begun is to come.
Inv ==
  /\ late \in {0, 1}
  /\ p1_active \/ p1 = "print" => late = 0

LEMMA ShellInv == Inv /\ Shell => Inv'
<1> SUFFICES ASSUME Inv, Shell
             PROVE  Inv'
  OBVIOUS
<1>1. CASE demo_process_activate
  BY <1>1 DEF demo_process_activate, Inv
<1>2. CASE demo_process_clear
  BY <1>2 DEF demo_process_clear, Inv
<1>3. CASE UNCHANGED <<p1, p1_active, late>>
  BY <1>3 DEF Inv
<1>4. ASSUME NEW l, ShellAt(l)
      PROVE  UNCHANGED <<p1, p1_active, late>>
  BY <1>4 DEF ShellAt
<1>5. CASE prompt \/ dispatch \/ choose \/ demo_read
  BY <1>3, <1>4, <1>5 DEF prompt, Ask, dispatch, choose, demo_read, Then
<1>6. CASE reading
  BY <1>3, <1>6 DEF reading
<1>7. CASE demo_keyboard \/ demo_process_poll \/ demo_process_take
  BY <1>3, <1>4, <1>7 DEF demo_keyboard, Then, demo_process_poll, demo_process_take
<1> QED
  BY <1>1, <1>2, <1>5, <1>6, <1>7 DEF Shell

LEMMA InvNext == Inv /\ [Next]_vars => Inv'
<1> SUFFICES ASSUME Inv, [Next]_vars
             PROVE  Inv'
  OBVIOUS
<1>1. CASE Shell
  BY <1>1, ShellInv
<1>2. CASE p1_test
  BY <1>2 DEF p1_test, Worker, Inv
<1>3. CASE p1_print
  BY <1>3 DEF p1_print, Worker, Inv
<1>4. CASE Preempt \/ (\E ch \in Typed : Press(ch)) \/ UNCHANGED vars
  BY <1>4 DEF Preempt, Press, vars, Inv
<1> QED
  BY <1>1, <1>2, <1>3, <1>4 DEF Next, Processus1

\* However the shell and processus1 are preempted, one line at most comes after the demo
\* has put processus1 to sleep.
THEOREM LateLineBounded == Spec => []OneLateLine
<1>1. Init => Inv
  BY DEF Init, Inv
<1>2. Inv => OneLateLine
  BY DEF Inv, OneLateLine
<1> QED
  BY <1>1, <1>2, InvNext, PTL DEF Spec
=============================================================================
