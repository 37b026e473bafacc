--------------------------- MODULE ProcessProofs ---------------------------
(***************************************************************************)
(* Proofs about Process.tla, for every number of slots and processes,      *)
(* every quantum and every modulus of the tick counter.                    *)
(***************************************************************************)
EXTENDS Process, TLAPS

USE DEF BOOT, NULL

----------------------------------------------------------------------------
(* Type correctness.                                                       *)

\* TypeOK, strengthened by what bounds the count of create_process() calls.
TypeInv == TypeOK /\ (pc[BOOT] \in {"publish", "context"} => k < NB_BOOT)

\* A switch keeps the saved contexts and the CPU's stack well formed.
LEMMA CtxSwType ==
  ASSUME TypeOK, NEW old \in PID, NEW n \in PID,
         NEW ret \in {"isr", "idle"}, ctx_sw(old, n, ret)
  PROVE  /\ regs' \in [PID -> Context]
         /\ esp' \in Stack \cup {NULL}
         /\ mode' \in {"base", "iret", "undefined"}
<1> DEFINE saved == [regs EXCEPT ![old] = [stk |-> esp, ret |-> ret]]
<1>1. saved \in [PID -> Context]
  BY DEF TypeOK, Context
<1>2. /\ regs' = [saved EXCEPT ![n] = [stk |-> saved[n].stk, ret |-> "stale"]]
      /\ esp' = saved[n].stk
      /\ mode' = CASE saved[n].ret = "isr" -> "iret"
                   [] saved[n].ret \in {"process_starter", "idle"} -> "base"
                   [] OTHER -> "undefined"
  BY DEF ctx_sw
<1>3. saved[n] \in Context
  BY <1>1
<1> HIDE DEF saved
<1>4. esp' \in Stack \cup {NULL}
  BY <1>2, <1>3 DEF Context
<1>5. mode' \in {"base", "iret", "undefined"}
  BY <1>2
<1>6. regs' \in [PID -> Context]
  BY <1>1, <1>2 DEF Context
<1> QED
  BY <1>4, <1>5, <1>6

LEMMA ScheduleIsrType ==
  ASSUME TypeOK, schedule_isr
  PROVE  /\ state' \in [PID -> {"LIBRE", "PRET", "ELU"}]
         /\ regs' \in [PID -> Context]
         /\ current_pid' \in PID
         /\ scheduling_enabled' \in BOOLEAN
         /\ esp' \in Stack \cup {NULL}
         /\ mode' \in {"base", "iret", "undefined"}
<1>1. CASE mode' = "iret" /\ UNCHANGED <<tableVars, esp>>
  BY <1>1 DEF TypeOK, tableVars
<1>2. CASE /\ \E n \in PID \ {current_pid} :
                /\ IsNext(current_pid, n)
                /\ state' = [Demote(state, current_pid) EXCEPT ![n] = "ELU"]
                /\ current_pid' = n
                /\ ctx_sw(current_pid, n, "isr")
           /\ UNCHANGED scheduling_enabled
  <2>1. PICK n \in PID :
             /\ state' = [Demote(state, current_pid) EXCEPT ![n] = "ELU"]
             /\ current_pid' = n
             /\ ctx_sw(current_pid, n, "isr")
    BY <1>2
  <2>2. state' \in [PID -> {"LIBRE", "PRET", "ELU"}]
    BY <2>1 DEF TypeOK, Demote
  <2>3. current_pid \in PID /\ scheduling_enabled' \in BOOLEAN
    BY <1>2 DEF TypeOK
  <2> QED
    BY <2>1, <2>2, <2>3, CtxSwType
<1> QED
  BY <1>1, <1>2 DEF schedule_isr

LEMMA TypeInit == Init => TypeInv
<1> SUFFICES ASSUME Init
             PROVE  TypeInv
  OBVIOUS
<1>1. 0 \in PID /\ 0 \in 0 .. NB_BOOT /\ 0 \in 0 .. TICK_MOD - 1
  BY ConstantsAssumption DEF PID
<1>2. state \in [PID -> {"LIBRE", "PRET", "ELU"}] /\ regs \in [PID -> Context]
  BY DEF Init, NoContext, Context
<1>3. pc \in [Stack -> Label]
  BY DEF Init, Label, CreateLabel
<1>4. pc[BOOT] \notin {"publish", "context"} /\ esp \in Stack
  BY DEF Init, Stack
<1> QED
  BY <1>1, <1>2, <1>3, <1>4 DEF Init, TypeInv, TypeOK

\* One action at a time; the two interrupt actions rest on ScheduleIsrType.
LEMMA TypeNext == TypeInv /\ [Next]_vars => TypeInv'
<1> SUFFICES ASSUME TypeInv, [Next]_vars
             PROVE  TypeInv'
  OBVIOUS
<1> USE DEF TypeInv, TypeOK, At, Goto, Straight, Own,
            tableVars, cpuVars, picVars, bootVars, idleVars
<1>1. /\ 0 \in PID /\ BOOT \in Stack /\ PID \subseteq Stack
      /\ IdleStack \subseteq Stack /\ BOOT \notin PID
  BY ConstantsAssumption DEF PID, Stack, IdleStack
<1>2. CASE Boot
  <2> USE DEF Label, CreateLabel, ScheduleLabel
  <2>1. CASE init_process
    BY <1>1, <2>1 DEF init_process, NoContext, Context
  <2>2. CASE find_free_slot
    BY <1>1, <2>2 DEF find_free_slot
  <2>3. CASE create_fails
    BY <1>1, <2>3, ConstantsAssumption DEF create_fails
  <2>4. CASE create_publish
    BY <1>1, <2>4 DEF create_publish
  <2>5. CASE create_context
    <3>1. regs' \in [PID -> Context]
      BY <1>1, <2>5 DEF create_context, Context
    <3>2. pc' \in [Stack -> Label] /\ pc'[BOOT] = "create"
      BY <1>1, <2>5 DEF create_context
    <3>3. k' \in 0 .. NB_BOOT
      BY <1>1, <2>5, ConstantsAssumption DEF create_context
    <3> QED
      BY <2>5, <3>1, <3>2, <3>3 DEF create_context
  <2>6. CASE all_created
    BY <1>1, <2>6 DEF all_created
  <2>7. CASE elect_idle
    BY <1>1, <2>7 DEF elect_idle
  <2>8. CASE start_scheduling
    BY <1>1, <2>8 DEF start_scheduling
  <2> QED
    BY <1>2, <2>1, <2>2, <2>3, <2>4, <2>5, <2>6, <2>7, <2>8 DEF Boot
<1>3. ASSUME NEW s \in IdleStack, IdleStep(s)
      PROVE  TypeInv'
  <2> USE DEF Label, ScheduleLabel, IdleLabel
  <2>1. CASE schedule_pick(s)
    BY <1>1, <2>1 DEF schedule_pick
  <2>2. CASE schedule_demote(s)
    BY <1>1, <2>2 DEF schedule_demote, Demote
  <2>3. CASE schedule_elect(s)
    BY <1>1, <2>3 DEF schedule_elect
  <2>4. CASE schedule_current(s)
    BY <1>1, <2>4 DEF schedule_current
  <2>5. CASE schedule_ctx_sw(s)
    <3>1. old_pid[s] \in PID /\ next[s] \in PID /\ ctx_sw(old_pid[s], next[s], "idle")
      BY <2>5 DEF schedule_ctx_sw
    <3>2. /\ regs' \in [PID -> Context]
          /\ esp' \in Stack \cup {NULL}
          /\ mode' \in {"base", "iret", "undefined"}
      BY <3>1, CtxSwType
    <3> QED
      BY <1>1, <2>5, <3>2 DEF schedule_ctx_sw
  <2>6. CASE idle_sti(s)
    BY <1>1, <2>6 DEF idle_sti, sti
  <2>7. CASE idle_hlt(s)
    BY <1>1, <2>7 DEF idle_hlt, hlt
  <2> QED
    BY <1>3, <2>1, <2>2, <2>3, <2>4, <2>5, <2>6, <2>7 DEF IdleStep
<1>4. ASSUME NEW s \in PID, process_starter(s) \/ SyscallStep(s) \/ BodyStep(s)
      PROVE  TypeInv'
  <2> USE DEF Label, ScheduleLabel, BodyLabel
  <2>1. CASE process_starter(s)
    BY <1>1, <2>1 DEF process_starter, sti
  <2>2. CASE SyscallStep(s)
    BY <1>1, <2>2, ZenonT(30) DEF SyscallStep, syscall_iret, kgetch_sti, kgetch_hlt, sti, hlt
  <2>3. CASE BodyStep(s)
    BY <1>1, <2>3, ZenonT(30) DEF BodyStep, int80, body_sti, body_hlt, body_returns, ended_hlt, sti, hlt
  <2> QED
    BY <1>4, <2>1, <2>2, <2>3
<1>5. CASE PitPulse
  BY <1>5 DEF PitPulse
<1>6. CASE handler_timer
  BY <1>6 DEF handler_timer
<1>7. CASE tick_handler_C
  <2>1. system_ticks' \in 0 .. TICK_MOD - 1
    BY <1>7, ConstantsAssumption DEF tick_handler_C
  <2>2. CASE schedule_isr
    BY <1>7, <2>1, <2>2, ScheduleIsrType DEF tick_handler_C
  <2>3. CASE mode' = "iret" /\ UNCHANGED <<tableVars, esp>>
    BY <1>7, <2>1, <2>3 DEF tick_handler_C
  <2> QED
    BY <1>7, <2>2, <2>3 DEF tick_handler_C
<1>8. CASE timer_iret
  BY <1>8 DEF timer_iret
<1>9. CASE OtherIrq
  BY <1>9 DEF OtherIrq
<1>10. CASE UNCHANGED vars
  BY <1>10 DEF vars
<1> QED
  BY <1>2, <1>3, <1>4, <1>5, <1>6, <1>7, <1>8, <1>9, <1>10 DEF Next, Kernel

\* Every variable keeps its type, in every instance, however long the boot takes.
THEOREM TypeCorrect == Spec => []TypeOK
<1>1. TypeInv => TypeOK
  BY DEF TypeInv
<1> QED
  BY <1>1, TypeInit, TypeNext, PTL DEF Spec

----------------------------------------------------------------------------
(* The invariant.  Two phases: the boot, until idle's schedule() has run,  *)
(* then round robin.                                                       *)

\* Slots create_process() has filled.
Done == IF k <= NB_PROC THEN k ELSE NB_PROC

\* The table once the processes exist and cur has the CPU.
Table(cur) ==
  \A p \in PID : state[p] = IF p >= Created THEN "LIBRE"
                            ELSE IF p = cur THEN "ELU" ELSE "PRET"

\* The table while the boot is at label pc[BOOT].
BootTable ==
  \A p \in PID :
    state[p] = CASE p >= Done -> IF pc[BOOT] = "context" /\ p = slot THEN "PRET" ELSE "LIBRE"
                 [] p < Done /\ p = 0 -> IF pc[BOOT] \in {"enable", "pick", "demote"}
                                           THEN "ELU" ELSE "PRET"
                 [] OTHER -> IF pc[BOOT] \in {"current", "ctx_sw"} /\ p = next[BOOT]
                               THEN "ELU" ELSE "PRET"

Fresh(p) == /\ regs[p] = [stk |-> p, ret |-> "process_starter"]
            /\ pc[p] = "process_starter"

PcInv ==
  /\ pc[BOOT] \in CreateLabel \cup ScheduleLabel \cup IdleLabel
  /\ pc[0] \in {"unused", "process_starter"}

BootInv ==
  pc[BOOT] \in CreateLabel \cup ScheduleLabel =>
    /\ esp = BOOT
    /\ mode # "undefined"
    /\ TicksRaised <= BootTicks
    /\ scheduling_enabled <=> pc[BOOT] \in ScheduleLabel
    /\ pc[BOOT] = "init_process" => k = 0
    /\ pc[BOOT] \in {"publish", "context"} => slot = k
    /\ pc[BOOT] \in {"elu", "enable"} \cup ScheduleLabel => k = NB_BOOT
    /\ \A p \in PID : p < Done => Fresh(p)
    /\ BootTable
    /\ pc[BOOT] \in {"demote", "elect", "current", "ctx_sw"} =>
         old_pid[BOOT] = 0 /\ next[BOOT] = 1 /\ 1 < Created
    /\ current_pid = IF pc[BOOT] = "ctx_sw" THEN next[BOOT] ELSE 0

RunInv ==
  pc[BOOT] \in IdleLabel =>
    /\ scheduling_enabled
    /\ mode # "undefined"
    /\ current_pid < Created
    /\ Table(current_pid)
    /\ esp = StackOf(current_pid)
    /\ \A p \in 0 .. Created - 1 : p # current_pid => Resumable(p)
    /\ \A p \in 1 .. Created - 1 : pc[p] \in BodyLabel \cup {"process_starter"}

FlagInv ==
  /\ halted => IFlag /\ mode = "base"
  /\ mode = "base" /\ pc[esp] \in {"idle_hlt", "body", "body_hlt", "kgetch_hlt", "ended"}
       => IFlag

Inv == TypeInv /\ PcInv /\ BootInv /\ RunInv /\ FlagInv

LEMMA CreatedRange == Created \in 1 .. NB_PROC /\ Created <= NB_BOOT
BY ConstantsAssumption DEF Created

LEMMA Successor ==
  ASSUME NEW x \in 0 .. Created - 1
  PROVE  (x + 1) % Created = IF x + 1 = Created THEN 0 ELSE x + 1
<1>1. Created \in 1 .. NB_PROC
  BY CreatedRange
<1> QED
  BY <1>1, ConstantsAssumption

\* The scan of schedule() finds the next process of the table, wherever the free
\* slots lead it: this is the round robin.
LEMMA PickNext ==
  ASSUME NEW cur \in 0 .. Created - 1, Table(cur), NEW n \in PID, IsNext(cur, n)
  PROVE  n = (cur + 1) % Created
<1>1. Created \in 1 .. NB_PROC /\ cur \in PID /\ NB_PROC \in Nat \ {0}
  BY CreatedRange, ConstantsAssumption DEF PID
<1>2. \A x \in PID, i \in 1 .. NB_PROC :
        (x + i) % NB_PROC = IF x + i < NB_PROC THEN x + i ELSE x + i - NB_PROC
  BY <1>1 DEF PID
<1>7. (cur + 1) % Created = IF cur + 1 = Created THEN 0 ELSE cur + 1
  BY Successor
<1>3. \A p \in PID : p >= Created => state[p] = "LIBRE"
  BY DEF Table
<1>4. state[cur] = "ELU" /\ \A p \in PID : p < Created /\ p # cur => state[p] = "PRET"
  BY <1>1 DEF Table
<1>5. CASE Created = 1
  <2>1. \A p \in PID : state[p] # "PRET"
    BY <1>1, <1>3, <1>4, <1>5 DEF PID
  <2>2. n = cur /\ cur = 0
    BY <1>5, <2>1 DEF IsNext
  <2> QED
    BY <1>5, <2>2
<1>6. CASE Created > 1
  <2>1. \E p \in PID : state[p] = "PRET"
    <3>1. CASE cur = 0
      BY <1>1, <1>4, <1>6, <3>1 DEF PID
    <3>2. CASE cur # 0
      BY <1>1, <1>4, <1>6, <3>2 DEF PID
    <3> QED
      BY <3>1, <3>2
  <2>2. PICK i \in 1 .. NB_PROC :
             /\ n = (cur + i) % NB_PROC
             /\ state[n] = "PRET"
             /\ \A j \in 1 .. i - 1 : state[(cur + j) % NB_PROC] # "PRET"
    BY <2>1 DEF IsNext
  <2>3. n < Created /\ n # cur
    BY <1>3, <1>4, <2>2, <1>1 DEF PID
  <2>4. CASE cur + 1 < Created
    <3>1. (cur + 1) % NB_PROC = cur + 1 /\ state[cur + 1] = "PRET"
      BY <1>1, <1>2, <1>4, <2>4 DEF PID
    <3>2. i = 1
      BY <1>1, <2>2, <3>1
    <3>3. n = cur + 1
      BY <2>2, <3>1, <3>2
    <3> QED
      BY <1>1, <2>4, <3>3
  <2>5. CASE cur + 1 = Created
    <3> DEFINE w == NB_PROC - cur
    <3>1. w \in 1 .. NB_PROC /\ cur + w = NB_PROC
      BY <1>1, <1>6, <2>5 DEF PID
    <3> HIDE DEF w
    <3>2. (cur + w) % NB_PROC = 0 /\ state[0] = "PRET"
      BY <1>1, <1>2, <1>4, <1>6, <2>5, <3>1 DEF PID
    <3>3. i <= w
      BY <1>1, <2>2, <3>1, <3>2
    <3>4. CASE i < w
      <4>0. cur + i < NB_PROC
        BY <1>1, <3>1, <3>4
      <4>1. n = cur + i
        BY <1>1, <1>2, <2>2, <4>0
      <4> QED
        BY <1>1, <2>3, <2>5, <4>1
    <3>5. CASE i = w
      <4>1. n = 0
        BY <2>2, <3>2, <3>5
      <4> QED
        BY <1>1, <1>7, <2>5, <4>1
    <3> QED
      BY <1>1, <3>1, <3>3, <3>4, <3>5
  <2> QED
    BY <1>1, <2>4, <2>5
<1> QED
  BY <1>1, <1>5, <1>6

LEMMA InvInit == Init => Inv
<1> SUFFICES ASSUME Init
             PROVE  Inv
  OBVIOUS
<1>1. TypeInv
  BY TypeInit
<1>2. 0 \in Stack /\ BOOT \in Stack /\ 0 # BOOT /\ Done = 0
  BY ConstantsAssumption DEF Stack, PID, Init, Done
<1>3. pc[BOOT] = "init_process" /\ pc[0] = "unused"
  BY <1>2 DEF Init
<1>4. PcInv /\ FlagInv /\ RunInv
  BY <1>3 DEF PcInv, FlagInv, RunInv, Init, CreateLabel, IdleLabel
<1>5. BootInv
  BY <1>2, <1>3, ConstantsAssumption
     DEF BootInv, BootTable, Init, ScheduleLabel, TicksRaised, PID
<1> QED
  BY <1>1, <1>4, <1>5 DEF Inv

\* kernel_start fills the table one slot at a time, then lets idle schedule.
LEMMA InvBoot == Inv /\ Boot => (PcInv /\ BootInv /\ RunInv /\ FlagInv)'
<1> SUFFICES ASSUME Inv, Boot
             PROVE  (PcInv /\ BootInv /\ RunInv /\ FlagInv)'
  OBVIOUS
<1> USE DEF At, Goto, Straight, tableVars, cpuVars, picVars, bootVars, idleVars
<1>1. /\ TypeOK /\ 0 \in PID /\ BOOT \in Stack /\ PID \subseteq Stack /\ BOOT \notin PID
      /\ NB_PROC \in Nat \ {0} /\ NB_BOOT \in Nat \ {0} /\ k \in Nat /\ PID = 0 .. NB_PROC - 1
      /\ Done \in Nat /\ Done <= NB_PROC
  BY ConstantsAssumption DEF Inv, TypeInv, TypeOK, PID, Stack, Done
<1>2. /\ esp = BOOT /\ mode = "base" /\ ~halted /\ pc[BOOT] \in CreateLabel
      /\ esp' = esp /\ mode' = mode /\ halted' = halted /\ IFlag' = IFlag
      /\ system_ticks' = system_ticks /\ irq0' = irq0
      /\ pc'[BOOT] \in CreateLabel \cup {"pick"}
  BY <1>1
     DEF Boot, init_process, find_free_slot, create_fails, create_publish, create_context,
         all_created, elect_idle, start_scheduling, CreateLabel, TypeOK
<1>3. /\ TicksRaised' <= BootTicks /\ current_pid = 0 /\ ~scheduling_enabled
      /\ \A p \in PID : p < Done => Fresh(p)
      /\ BootTable
      /\ pc[BOOT] = "init_process" => k = 0
      /\ pc[BOOT] \in {"publish", "context"} => slot = k /\ k < NB_BOOT
      /\ pc[BOOT] \in {"elu", "enable"} => k = NB_BOOT
  BY <1>2 DEF Inv, BootInv, TicksRaised, CreateLabel, ScheduleLabel, TypeInv
<1>4. PcInv'
  <2>1. pc'[0] = pc[0] \/ pc'[0] = "process_starter"
    BY <1>1
       DEF Boot, init_process, find_free_slot, create_fails, create_publish, create_context,
           all_created, elect_idle, start_scheduling, TypeOK
  <2> QED
    BY <1>2, <2>1 DEF Inv, PcInv, ScheduleLabel
<1>5. RunInv' /\ FlagInv'
  BY <1>2 DEF RunInv, FlagInv, CreateLabel, IdleLabel
<1>6. BootInv'
  <2> SUFFICES /\ scheduling_enabled' <=> pc'[BOOT] \in ScheduleLabel
               /\ pc'[BOOT] = "init_process" => k' = 0
               /\ pc'[BOOT] \in {"publish", "context"} => slot' = k'
               /\ pc'[BOOT] \in {"elu", "enable"} \cup ScheduleLabel => k' = NB_BOOT
               /\ \A p \in PID : p < Done' => Fresh(p)'
               /\ BootTable'
               /\ current_pid' = 0
    BY <1>2, <1>3 DEF BootInv, CreateLabel, ScheduleLabel
  <2> USE DEF TypeOK, ScheduleLabel
  <2>1. CASE init_process
    <3>1. Done' = 0 /\ k' = 0 /\ pc'[BOOT] = "create"
      BY <1>1, <1>3, <2>1 DEF init_process, Done
    <3>2. BootTable'
      BY <1>1, <2>1, <3>1 DEF init_process, BootTable
    <3> QED
      BY <1>1, <1>3, <2>1, <3>1, <3>2 DEF init_process
  <2>2. CASE find_free_slot
    <3>1. PICK s \in PID : IsFreeSlot(s) /\ slot' = s
      BY <2>2 DEF find_free_slot
    <3>2. /\ pc[BOOT] = "create" /\ pc'[BOOT] = "publish" /\ Done' = Done
          /\ \A p \in PID : state[p] = IF p >= Done THEN "LIBRE" ELSE "PRET"
      BY <1>1, <1>3, <2>2 DEF find_free_slot, Done, BootTable
    <3>3. s = Done
      BY <1>1, <3>1, <3>2 DEF IsFreeSlot
    <3>4. s = k
      BY <1>1, <3>3 DEF Done
    <3>5. BootTable'
      BY <1>1, <2>2, <3>2 DEF find_free_slot, BootTable
    <3>6. \A p \in PID : p < Done' => Fresh(p)'
      BY <1>1, <1>3, <2>2, <3>2 DEF find_free_slot, Fresh
    <3> QED
      BY <1>1, <1>3, <2>2, <3>1, <3>2, <3>4, <3>5, <3>6 DEF find_free_slot
  <2>3. CASE create_fails
    <3>1. /\ pc[BOOT] = "create" /\ pc' = pc /\ k' = k + 1
          /\ \A p \in PID : state[p] = IF p >= Done THEN "LIBRE" ELSE "PRET"
      BY <1>1, <1>3, <2>3 DEF create_fails, BootTable
    <3>2. Done = NB_PROC
      BY <1>1, <2>3, <3>1 DEF create_fails
    <3>3. Done' = Done
      BY <1>1, <3>1, <3>2 DEF Done
    <3>4. BootTable'
      BY <1>1, <2>3, <3>1, <3>3 DEF create_fails, BootTable
    <3>5. \A p \in PID : p < Done' => Fresh(p)'
      BY <1>1, <1>3, <2>3, <3>1, <3>3 DEF create_fails, Fresh
    <3> QED
      BY <1>1, <1>3, <2>3, <3>1, <3>4, <3>5 DEF create_fails
  <2>4. CASE create_publish
    <3>1. pc[BOOT] = "publish" /\ pc'[BOOT] = "context" /\ Done' = Done /\ slot' = slot
      BY <1>1, <2>4 DEF create_publish, Done
    <3>2. slot = Done
      BY <1>1, <1>3, <3>1 DEF Done
    <3>3. BootTable'
      BY <1>1, <1>3, <2>4, <3>1, <3>2 DEF create_publish, BootTable
    <3>4. \A p \in PID : p < Done' => Fresh(p)'
      BY <1>1, <1>3, <2>4, <3>1 DEF create_publish, Fresh
    <3> QED
      BY <1>1, <1>3, <2>4, <3>1, <3>3, <3>4 DEF create_publish
  <2>5. CASE create_context
    <3>1. pc[BOOT] = "context" /\ pc'[BOOT] = "create" /\ slot \in PID /\ slot = k /\ k' = k + 1
      BY <1>1, <1>3, <2>5 DEF create_context
    <3>2. Done = slot /\ Done' = slot + 1
      BY <1>1, <3>1 DEF Done
    <3>3. BootTable'
      BY <1>1, <1>3, <2>5, <3>1, <3>2 DEF create_context, BootTable
    <3>4. \A p \in PID : p < Done' => Fresh(p)'
      BY <1>1, <1>3, <2>5, <3>1, <3>2 DEF create_context, Fresh
    <3> QED
      BY <1>1, <1>3, <2>5, <3>1, <3>3, <3>4 DEF create_context
  <2>6. CASE all_created \/ elect_idle \/ start_scheduling
    <3>1. /\ Done' = Done /\ k' = k /\ k = NB_BOOT /\ regs' = regs
          /\ pc[BOOT] \in {"create", "elu", "enable"} /\ pc'[BOOT] \in {"elu", "enable", "pick"}
          /\ pc'[BOOT] = "pick" <=> start_scheduling
      BY <1>1, <1>3, <2>6 DEF all_created, elect_idle, start_scheduling, Done
    <3>2. 0 < Done
      BY <1>1, <3>1 DEF Done
    <3>3. BootTable'
      <4>1. CASE all_created
        BY <1>1, <1>3, <3>1, <4>1 DEF all_created, BootTable
      <4>2. CASE elect_idle
        BY <1>1, <1>3, <3>1, <3>2, <4>2 DEF elect_idle, BootTable
      <4>3. CASE start_scheduling
        BY <1>1, <1>3, <3>1, <4>3 DEF start_scheduling, BootTable
      <4> QED
        BY <2>6, <4>1, <4>2, <4>3
    <3>4. \A p \in PID : p < Done' => Fresh(p)'
      BY <1>1, <1>3, <2>6, <3>1 DEF all_created, elect_idle, start_scheduling, Fresh
    <3>5. current_pid' = 0 /\ (scheduling_enabled' <=> pc'[BOOT] = "pick")
      BY <1>1, <1>3, <2>6, <3>1 DEF all_created, elect_idle, start_scheduling
    <3> QED
      BY <1>3, <3>1, <3>3, <3>4, <3>5
  <2> QED
    BY <2>1, <2>2, <2>3, <2>4, <2>5, <2>6 DEF Boot
<1> QED
  BY <1>4, <1>5, <1>6

\* idle's own schedule() hands the CPU over once; then idle only waits.
LEMMA InvIdle ==
  ASSUME Inv, NEW s \in IdleStack, IdleStep(s)
  PROVE  (PcInv /\ BootInv /\ RunInv /\ FlagInv)'
<1> USE DEF At, Goto, Straight, Own, tableVars, cpuVars, picVars, bootVars, idleVars
<1>1. /\ TypeOK /\ 0 \in PID /\ BOOT \in Stack /\ PID \subseteq Stack /\ BOOT \notin PID
      /\ NB_PROC \in Nat \ {0} /\ PID = 0 .. NB_PROC - 1 /\ Created \in 1 .. NB_PROC
  BY ConstantsAssumption, CreatedRange DEF Inv, TypeInv, TypeOK, PID, Stack
<1>2. esp = s /\ pc[s] \in ScheduleLabel \cup IdleLabel /\ mode = "base" /\ ~halted
  BY DEF IdleStep, schedule_pick, schedule_demote, schedule_elect, schedule_current,
         schedule_ctx_sw, idle_sti, idle_hlt, sti, hlt, ScheduleLabel, IdleLabel
<1>3. s = BOOT
  BY <1>2 DEF Inv, PcInv, IdleStack, ScheduleLabel, IdleLabel
<1>4. CASE pc[BOOT] \in ScheduleLabel
  <2> USE DEF ScheduleLabel, TypeOK
  <2>1. /\ scheduling_enabled /\ TicksRaised <= BootTicks /\ k = NB_BOOT
        /\ \A p \in PID : p < Done => Fresh(p)
        /\ BootTable
        /\ pc[BOOT] # "pick" => old_pid[BOOT] = 0 /\ next[BOOT] = 1 /\ 1 < Created
        /\ current_pid = IF pc[BOOT] = "ctx_sw" THEN next[BOOT] ELSE 0
    BY <1>4 DEF Inv, BootInv
  <2>2. Done = Created
    BY <2>1 DEF Done, Created
  <2>3. CASE schedule_pick(s)
    <3>1. Table(0)
      BY <1>1, <1>3, <2>1, <2>2, <2>3 DEF schedule_pick, BootTable, Table
    <3>2. PICK n \in PID : /\ IsNext(0, n)
                           /\ next' = [next EXCEPT ![BOOT] = n]
                           /\ Goto(BOOT, IF n = 0 THEN "idle" ELSE "demote")
      BY <1>3, <2>1, <2>3 DEF schedule_pick
    <3>3. n = (0 + 1) % Created
      BY <1>1, <3>1, <3>2, PickNext
    <3>4. /\ n = IF Created = 1 THEN 0 ELSE 1
          /\ next'[BOOT] = n /\ old_pid'[BOOT] = 0
          /\ pc'[BOOT] = IF n = 0 THEN "idle" ELSE "demote"
          /\ pc'[0] = pc[0] /\ \A p \in PID : pc'[p] = pc[p]
      <4>0. 0 \in 0 .. Created - 1
        BY <1>1
      <4>1. (0 + 1) % Created = IF 0 + 1 = Created THEN 0 ELSE 0 + 1
        BY <4>0, Successor, Zenon
      <4> QED
        BY <1>1, <1>3, <2>1, <2>3, <3>2, <3>3, <4>1 DEF schedule_pick, IdleStack
    <3>5. UNCHANGED <<state, regs, current_pid, scheduling_enabled, esp, mode, halted, IFlag,
                      irq0, system_ticks, k, slot>>
      BY <2>3 DEF schedule_pick
    <3>6. CASE n = 0
      <4>1. PcInv' /\ BootInv' /\ FlagInv'
        BY <1>2, <1>3, <3>4, <3>5, <3>6
           DEF Inv, PcInv, BootInv, FlagInv, CreateLabel, IdleLabel
      <4>2. RunInv'
        BY <1>1, <1>2, <1>3, <2>1, <3>1, <3>4, <3>5, <3>6
           DEF RunInv, Table, StackOf, Resumable
      <4> QED
        BY <4>1, <4>2
    <3>7. CASE n # 0
      <4>1. PcInv' /\ RunInv' /\ FlagInv'
        BY <1>2, <1>3, <3>4, <3>5, <3>7 DEF Inv, PcInv, RunInv, FlagInv, IdleLabel
      <4>2. BootTable' /\ Done' = Done /\ TicksRaised' = TicksRaised
        BY <1>3, <2>1, <2>3, <3>4, <3>5, <3>7
           DEF schedule_pick, BootTable, Done, TicksRaised
      <4>3. BootInv'
        BY <1>1, <1>2, <1>3, <2>1, <2>3, <3>4, <3>5, <3>7, <4>2
           DEF schedule_pick, BootInv, Fresh, CreateLabel
      <4> QED
        BY <4>1, <4>3
    <3> QED
      BY <3>6, <3>7
  <2>4. CASE schedule_demote(s) \/ schedule_elect(s) \/ schedule_current(s)
    <3>1. /\ pc[BOOT] \in {"demote", "elect", "current"}
          /\ pc' = [pc EXCEPT ![BOOT] = CASE pc[BOOT] = "demote" -> "elect"
                                          [] pc[BOOT] = "elect" -> "current"
                                          [] pc[BOOT] = "current" -> "ctx_sw"]
          /\ UNCHANGED <<regs, scheduling_enabled, esp, mode, halted, IFlag,
                         irq0, system_ticks, k, slot, old_pid, next>>
      BY <1>3, <2>4 DEF schedule_demote, schedule_elect, schedule_current
    <3>2. /\ pc'[BOOT] \in {"elect", "current", "ctx_sw"} /\ pc'[0] = pc[0]
          /\ \A p \in PID : pc'[p] = pc[p]
      BY <1>1, <3>1
    <3>3. PcInv' /\ RunInv' /\ FlagInv'
      BY <1>2, <1>3, <3>1, <3>2 DEF Inv, PcInv, RunInv, FlagInv, IdleLabel
    <3>4. Done' = Done /\ TicksRaised' = TicksRaised /\ \A p \in PID : Fresh(p)' <=> Fresh(p)
      BY <3>1, <3>2 DEF Done, TicksRaised, Fresh
    <3>5. BootTable' /\ current_pid' = IF pc'[BOOT] = "ctx_sw" THEN next[BOOT] ELSE 0
      <4>1. CASE schedule_demote(s)
        BY <1>1, <1>3, <2>1, <2>2, <3>4, <4>1 DEF schedule_demote, Demote, BootTable
      <4>2. CASE schedule_elect(s)
        BY <1>1, <1>3, <2>1, <2>2, <3>4, <4>2 DEF schedule_elect, BootTable
      <4>3. CASE schedule_current(s)
        BY <1>1, <1>3, <2>1, <2>2, <3>4, <4>3 DEF schedule_current, BootTable
      <4> QED
        BY <2>4, <4>1, <4>2, <4>3
    <3>6. BootInv'
      BY <1>2, <1>3, <2>1, <3>1, <3>2, <3>4, <3>5 DEF BootInv
    <3> QED
      BY <3>3, <3>6
  <2>5. CASE schedule_ctx_sw(s)
    <3>1. /\ current_pid = 1 /\ old_pid[BOOT] = 0 /\ next[BOOT] = 1 /\ 1 < Created /\ 1 \in PID
          /\ Table(1) /\ \A p \in PID : p < Created => Fresh(p)
      BY <1>1, <1>3, <2>1, <2>2, <2>5 DEF schedule_ctx_sw, BootTable, Table
    <3>2. /\ pc'[BOOT] = "idle" /\ \A p \in PID : pc'[p] = pc[p]
          /\ UNCHANGED <<state, current_pid, scheduling_enabled, halted, IFlag>>
          /\ ctx_sw(0, 1, "idle")
      BY <1>1, <1>3, <2>5, <3>1 DEF schedule_ctx_sw
    <3>3. regs[1] = [stk |-> 1, ret |-> "process_starter"]
      BY <3>1 DEF Fresh
    <3>4. /\ esp' = 1 /\ mode' = "base"
          /\ regs'[0] = [stk |-> BOOT, ret |-> "idle"]
          /\ \A p \in PID : p > 1 => regs'[p] = regs[p]
      BY <1>1, <1>2, <1>3, <3>1, <3>2, <3>3 DEF ctx_sw
    <3>5. pc[1] = "process_starter"
      BY <3>1 DEF Fresh
    <3>6. PcInv' /\ BootInv' /\ FlagInv'
      BY <1>1, <1>2, <3>1, <3>2, <3>4, <3>5
         DEF Inv, PcInv, BootInv, FlagInv, CreateLabel, IdleLabel
    <3>7. \A p \in 0 .. Created - 1 : p # 1 => Resumable(p)'
      <4>1. Resumable(0)'
        BY <1>1, <3>2, <3>4 DEF Resumable, StackOf
      <4>2. ASSUME NEW p \in PID, 1 < p, p < Created
            PROVE  Resumable(p)'
        <5>1. regs'[p] = [stk |-> p, ret |-> "process_starter"] /\ pc'[p] = "process_starter"
          BY <3>1, <3>2, <3>4, <4>2 DEF Fresh
        <5> QED
          BY <1>1, <4>2, <5>1 DEF Resumable, StackOf
      <4> QED
        BY <1>1, <4>1, <4>2
    <3>8. RunInv'
      <4>1. \A p \in 1 .. Created - 1 : pc'[p] = "process_starter"
        BY <1>1, <3>1, <3>2 DEF Fresh
      <4>2. Table(current_pid)'
        BY <3>1, <3>2 DEF Table
      <4>3. esp' = StackOf(current_pid)' /\ current_pid' = 1
        BY <3>1, <3>2, <3>4 DEF StackOf
      <4> QED
        BY <2>1, <3>1, <3>2, <3>4, <3>7, <4>1, <4>2, <4>3 DEF RunInv
    <3> QED
      BY <3>6, <3>8
  <2> QED
    BY <1>3, <1>4, <2>3, <2>4, <2>5
       DEF IdleStep, idle_sti, idle_hlt, sti, hlt
<1>5. CASE pc[BOOT] \in IdleLabel
  <2>1. idle_sti(s) \/ idle_hlt(s)
    BY <1>3, <1>5
       DEF IdleStep, schedule_pick, schedule_demote, schedule_elect, schedule_current,
           schedule_ctx_sw, IdleLabel
  <2>2. /\ pc'[BOOT] \in IdleLabel /\ pc'[0] = pc[0] /\ \A p \in PID : pc'[p] = pc[p]
        /\ UNCHANGED <<tableVars, esp, mode>>
        /\ halted' \/ pc'[BOOT] = "idle_hlt" => IFlag'
    BY <1>1, <1>2, <1>3, <2>1
       DEF Inv, FlagInv, idle_sti, idle_hlt, sti, hlt, IdleLabel, TypeOK
  <2>3. RunInv
    BY DEF Inv
  <2>4. current_pid = 0
    BY <1>1, <1>2, <1>3, <1>5, <2>3 DEF RunInv, StackOf, TypeOK
  <2>5. PcInv' /\ BootInv' /\ FlagInv'
    BY <1>2, <1>3, <2>2 DEF Inv, PcInv, BootInv, FlagInv, CreateLabel, ScheduleLabel, IdleLabel
  <2>6. \A p \in 0 .. Created - 1 : p # 0 => Resumable(p)'
    BY <1>1, <1>5, <2>2, <2>3, <2>4 DEF RunInv, Resumable, StackOf
  <2>7. RunInv'
    BY <1>1, <1>5, <2>2, <2>3, <2>4, <2>6 DEF RunInv, Table, StackOf
  <2> QED
    BY <2>5, <2>7
<1> QED
  BY <1>2, <1>3, <1>4, <1>5

\* The code of a process keeps to its own stack.
LEMMA InvProcess ==
  ASSUME Inv, NEW s \in PID, process_starter(s) \/ SyscallStep(s) \/ BodyStep(s)
  PROVE  (PcInv /\ BootInv /\ RunInv /\ FlagInv)'
<1> USE DEF At, Goto, Own, tableVars, bootVars, idleVars, picVars
<1>1. /\ TypeOK /\ 0 \in PID /\ BOOT \in Stack /\ PID \subseteq Stack /\ BOOT \notin PID
      /\ NB_PROC \in Nat \ {0} /\ PID = 0 .. NB_PROC - 1 /\ Created \in 1 .. NB_PROC
  BY ConstantsAssumption, CreatedRange DEF Inv, TypeInv, TypeOK, PID, Stack
<1>2. esp = s /\ mode = "base" /\ ~halted
  BY DEF process_starter, SyscallStep, syscall_iret, kgetch_sti, kgetch_hlt, BodyStep, int80,
         body_sti, body_hlt, body_returns, ended_hlt, sti, hlt
<1>3. pc[BOOT] \in IdleLabel /\ RunInv
  BY <1>1, <1>2 DEF Inv, PcInv, BootInv
<1>4. s = current_pid /\ s # 0 /\ s \in 1 .. Created - 1
  BY <1>1, <1>2, <1>3 DEF RunInv, StackOf
<1>5. /\ \A t \in Stack : t # s => pc'[t] = pc[t]
      /\ pc'[s] \in BodyLabel
      /\ UNCHANGED <<tableVars, esp, mode>>
      /\ halted' \/ pc'[s] \in {"body", "body_hlt", "kgetch_hlt", "ended"} => IFlag'
  <2> USE DEF TypeOK, BodyLabel
  <2>1. CASE process_starter(s)
    BY <1>1, <1>2, <1>4, <2>1 DEF process_starter, sti
  <2>2. CASE SyscallStep(s)
    BY <1>1, <1>2, <2>2 DEF Inv, FlagInv, SyscallStep, syscall_iret, kgetch_sti, kgetch_hlt, sti, hlt
  <2>3. CASE BodyStep(s)
    BY <1>1, <1>2, <2>3
       DEF Inv, FlagInv, BodyStep, int80, body_sti, body_hlt, body_returns, ended_hlt, sti, hlt
  <2> QED
    BY <2>1, <2>2, <2>3
<1>6. pc'[BOOT] = pc[BOOT] /\ pc'[0] = pc[0]
  BY <1>1, <1>4, <1>5
<1>7. PcInv' /\ BootInv' /\ FlagInv'
  BY <1>2, <1>3, <1>5, <1>6
     DEF Inv, PcInv, BootInv, FlagInv, CreateLabel, ScheduleLabel, IdleLabel, BodyLabel
<1>8. \A p \in 0 .. Created - 1 : p # current_pid => Resumable(p)'
  <2> SUFFICES ASSUME NEW p \in 0 .. Created - 1, p # current_pid
               PROVE  Resumable(p)'
    OBVIOUS
  <2>1. Resumable(p)
    BY <1>3 DEF RunInv
  <2>2. StackOf(p) \in Stack /\ StackOf(p) # s
    BY <1>1, <1>4 DEF StackOf
  <2> QED
    BY <1>5, <2>1, <2>2 DEF Resumable
<1>9. RunInv'
  <2>1. \A p \in 1 .. Created - 1 : pc'[p] \in BodyLabel \cup {"process_starter"}
    BY <1>1, <1>3, <1>5 DEF RunInv
  <2>2. Table(current_pid)'
    BY <1>3, <1>5 DEF RunInv, Table
  <2> QED
    BY <1>3, <1>5, <1>8, <2>1, <2>2 DEF RunInv
<1> QED
  BY <1>7, <1>9

\* The timer, whatever it interrupts: it counts while the boot goes on, and once
\* the processes run it hands the CPU from one to the next.
LEMMA InvInterrupt ==
  ASSUME BootTicks < TIME_QUANTUM_MS, Inv,
         PitPulse \/ handler_timer \/ tick_handler_C \/ timer_iret \/ OtherIrq
  PROVE  (PcInv /\ BootInv /\ RunInv /\ FlagInv)'
<1> USE DEF tableVars, cpuVars, picVars, bootVars, idleVars
<1>1. /\ TypeOK /\ 0 \in PID /\ BOOT \in Stack /\ PID \subseteq Stack /\ BOOT \notin PID
      /\ NB_PROC \in Nat \ {0} /\ PID = 0 .. NB_PROC - 1 /\ Created \in 1 .. NB_PROC
  BY ConstantsAssumption, CreatedRange DEF Inv, TypeInv, TypeOK, PID, Stack
<1>2. UNCHANGED <<pc, k, slot, old_pid, next>>
  BY DEF PitPulse, handler_timer, tick_handler_C, timer_iret, OtherIrq
<1>3. ASSUME UNCHANGED <<tableVars, esp>>, mode' # "undefined",
             pc[BOOT] \in CreateLabel \cup ScheduleLabel => TicksRaised' <= BootTicks
      PROVE  PcInv' /\ BootInv' /\ RunInv'
  <2>1. PcInv'
    BY <1>2 DEF Inv, PcInv
  <2>2. BootTable' <=> BootTable
    BY <1>2, <1>3 DEF BootTable, Done
  <2>3. \A p \in PID : Fresh(p)' <=> Fresh(p)
    BY <1>2, <1>3 DEF Fresh
  <2>4. BootInv'
    BY <1>2, <1>3, <2>2, <2>3 DEF Inv, BootInv, Done
  <2>5. Table(current_pid)' <=> Table(current_pid)
    BY <1>3 DEF Table
  <2>6. \A p \in 0 .. Created - 1 : Resumable(p)' <=> Resumable(p)
    BY <1>2, <1>3 DEF Resumable
  <2>7. RunInv'
    BY <1>2, <1>3, <2>5, <2>6 DEF Inv, RunInv
  <2> QED
    BY <2>1, <2>4, <2>7
<1>4. CASE PitPulse
  <2>1. pc[BOOT] \in CreateLabel \cup ScheduleLabel => TicksRaised' <= BootTicks
    BY <1>1, <1>2, <1>4, ConstantsAssumption DEF PitPulse, Inv, BootInv, Booting, TicksRaised, TypeOK
  <2>2. mode # "undefined"
    BY DEF Inv, PcInv, BootInv, RunInv
  <2>3. FlagInv'
    BY <1>4 DEF PitPulse, Inv, FlagInv
  <2> QED
    BY <1>3, <1>4, <2>1, <2>2, <2>3 DEF PitPulse
<1>5. CASE handler_timer
  <2>1. pc[BOOT] \in CreateLabel \cup ScheduleLabel => TicksRaised' <= BootTicks
    BY <1>1, <1>2, <1>5 DEF handler_timer, Deliverable, Inv, BootInv, TicksRaised, TypeOK
  <2>2. FlagInv'
    BY <1>5 DEF handler_timer, FlagInv
  <2> QED
    BY <1>3, <1>5, <2>1, <2>2 DEF handler_timer
<1>6. CASE timer_iret
  <2>1. pc[BOOT] \in CreateLabel \cup ScheduleLabel => TicksRaised' <= BootTicks
    BY <1>1, <1>2, <1>6 DEF timer_iret, Inv, BootInv, TicksRaised, TypeOK
  <2>2. FlagInv'
    BY <1>6 DEF timer_iret, FlagInv
  <2> QED
    BY <1>3, <1>6, <2>1, <2>2 DEF timer_iret
<1>7. CASE OtherIrq
  <2>1. pc[BOOT] \in CreateLabel \cup ScheduleLabel => TicksRaised' <= BootTicks
    BY <1>1, <1>2, <1>7 DEF OtherIrq, Inv, BootInv, TicksRaised, TypeOK
  <2>2. FlagInv'
    BY <1>7 DEF OtherIrq, FlagInv
  <2> QED
    BY <1>3, <1>7, <2>1, <2>2 DEF OtherIrq
<1>8. CASE tick_handler_C
  <2>1. mode = "tick" /\ ~halted /\ halted' = halted /\ IFlag' = IFlag /\ irq0' = irq0
    BY <1>8 DEF tick_handler_C, Inv, FlagInv
  <2>2. CASE pc[BOOT] \in CreateLabel \cup ScheduleLabel
    \* Less than a quantum has elapsed, and the counter has not wrapped.
    <3>1. system_ticks' = system_ticks + 1 /\ system_ticks + 1 <= BootTicks
      <4>1. system_ticks \in Nat /\ system_ticks + 1 <= BootTicks
        BY <1>1, <2>1, <2>2, ConstantsAssumption DEF Inv, BootInv, TicksRaised, TypeOK
      <4>2. \A x \in Nat : x < TICK_MOD => x % TICK_MOD = x
        BY ConstantsAssumption
      <4> QED
        BY <1>8, <4>1, <4>2, ConstantsAssumption DEF tick_handler_C
    <3>2. system_ticks' % TIME_QUANTUM_MS # 0
      <4>1. \A x \in Nat : 0 < x /\ x < TIME_QUANTUM_MS => x % TIME_QUANTUM_MS # 0
        BY ConstantsAssumption
      <4> QED
        BY <1>1, <3>1, <4>1, ConstantsAssumption DEF TypeOK
    <3>3. mode' = "iret" /\ UNCHANGED <<tableVars, esp>>
      BY <1>8, <3>2 DEF tick_handler_C
    <3>4. TicksRaised' <= BootTicks
      BY <1>1, <2>1, <2>2, <3>1, <3>3 DEF Inv, BootInv, TicksRaised, TypeOK
    <3>5. FlagInv'
      BY <2>1, <3>3 DEF FlagInv
    <3> QED
      BY <1>3, <3>3, <3>4, <3>5
  <2>3. CASE pc[BOOT] \in IdleLabel
    <3>1. pc[BOOT] \notin CreateLabel \cup ScheduleLabel
      BY <2>3 DEF CreateLabel, ScheduleLabel, IdleLabel
    <3>2. CASE mode' = "iret" /\ UNCHANGED <<tableVars, esp>>
      BY <1>3, <2>1, <3>1, <3>2 DEF FlagInv
    <3>3. CASE \E n \in PID \ {current_pid} :
                 /\ IsNext(current_pid, n)
                 /\ state' = [Demote(state, current_pid) EXCEPT ![n] = "ELU"]
                 /\ current_pid' = n
                 /\ ctx_sw(current_pid, n, "isr")
                 /\ UNCHANGED scheduling_enabled
      <4>1. PICK n \in PID \ {current_pid} :
                 /\ IsNext(current_pid, n)
                 /\ state' = [Demote(state, current_pid) EXCEPT ![n] = "ELU"]
                 /\ current_pid' = n
                 /\ ctx_sw(current_pid, n, "isr")
                 /\ UNCHANGED scheduling_enabled
        BY <3>3
      <4> DEFINE c == current_pid
      <4>2. RunInv /\ c \in PID /\ c < Created /\ esp = StackOf(c) /\ Table(c) /\ state[c] = "ELU"
        BY <1>1, <2>3 DEF Inv, RunInv, TypeOK, Table
      <4>3. n < Created /\ n # c /\ state[n] = "PRET"
        BY <1>1, <4>1, <4>2 DEF IsNext, Table
      <4>4. Resumable(n)
        BY <1>1, <2>3, <4>2, <4>3 DEF RunInv
      <4>5. /\ esp' = StackOf(n)
            /\ mode' = IF regs[n].ret = "isr" THEN "iret" ELSE "base"
            /\ regs'[c] = [stk |-> StackOf(c), ret |-> "isr"]
            /\ \A p \in PID : p # c /\ p # n => regs'[p] = regs[p]
        BY <1>1, <4>1, <4>2, <4>3, <4>4 DEF ctx_sw, Resumable, TypeOK
      <4>6. Table(n)'
        BY <1>1, <4>1, <4>2, <4>3 DEF Table, Demote, TypeOK
      <4>7. \A p \in 0 .. Created - 1 : p # n => Resumable(p)'
        <5> SUFFICES ASSUME NEW p \in 0 .. Created - 1, p # n
                     PROVE  Resumable(p)'
          OBVIOUS
        <5>1. CASE p = c
          BY <4>5, <5>1 DEF Resumable
        <5>2. CASE p # c
          BY <1>1, <1>2, <2>3, <4>2, <4>5, <5>2 DEF RunInv, Resumable
        <5> QED
          BY <5>1, <5>2
      <4>8. RunInv'
        BY <1>2, <2>3, <4>1, <4>2, <4>3, <4>5, <4>6, <4>7 DEF RunInv
      <4>9. FlagInv'
        <5>1. mode' = "base" => pc'[esp'] \in {"process_starter", "idle"}
          BY <1>2, <4>4, <4>5 DEF Resumable
        <5> QED
          BY <2>1, <5>1 DEF FlagInv
      <4> QED
        BY <1>2, <3>1, <4>8, <4>9 DEF Inv, PcInv, BootInv
    <3> QED
      BY <1>8, <3>2, <3>3 DEF tick_handler_C, schedule_isr
  <2> QED
    BY <2>2, <2>3 DEF Inv, PcInv
<1> QED
  BY <1>4, <1>5, <1>6, <1>7, <1>8

LEMMA InvNext == BootTicks < TIME_QUANTUM_MS /\ Inv /\ [Next]_vars => Inv'
<1> SUFFICES ASSUME BootTicks < TIME_QUANTUM_MS, Inv, [Next]_vars
             PROVE  Inv'
  OBVIOUS
<1>1. TypeInv'
  BY TypeNext DEF Inv
<1>2. (PcInv /\ BootInv /\ RunInv /\ FlagInv)'
  <2>1. CASE Boot
    BY <2>1, InvBoot
  <2>2. CASE \E s \in IdleStack : IdleStep(s)
    BY <2>2, InvIdle
  <2>3. CASE \E s \in PID : process_starter(s) \/ SyscallStep(s) \/ BodyStep(s)
    BY <2>3, InvProcess
  <2>4. CASE PitPulse \/ handler_timer \/ tick_handler_C \/ timer_iret \/ OtherIrq
    BY <2>4, InvInterrupt
  <2>5. CASE UNCHANGED vars
    BY <2>5
       DEF vars, tableVars, cpuVars, picVars, bootVars, idleVars, Inv, PcInv, BootInv, RunInv,
           FlagInv, BootTable, Table, Fresh, Resumable, TicksRaised, Done
  <2> QED
    BY <2>1, <2>2, <2>3, <2>4, <2>5 DEF Next, Kernel
<1> QED
  BY <1>1, <1>2 DEF Inv

\* The invariant gives the properties the runs check.
LEMMA InvSafe == Inv => OneElected /\ ContextOwned /\ NoDeafHalt
<1> SUFFICES ASSUME Inv
             PROVE  OneElected /\ ContextOwned /\ NoDeafHalt
  OBVIOUS
<1>1. /\ TypeOK /\ NB_PROC \in Nat \ {0} /\ PID = 0 .. NB_PROC - 1 /\ Created \in 1 .. NB_PROC
  BY ConstantsAssumption, CreatedRange DEF Inv, TypeInv, PID
<1>2. NoDeafHalt
  BY DEF Inv, FlagInv, NoDeafHalt
<1>3. ASSUME Settled
      PROVE  /\ current_pid < Created /\ Table(current_pid) /\ esp = StackOf(current_pid)
             /\ mode # "undefined"
             /\ \A p \in 0 .. Created - 1 : p # current_pid => Resumable(p)
  <2>1. CASE pc[BOOT] \in CreateLabel \cup ScheduleLabel
    <3>1. pc[BOOT] \in {"pick", "demote"}
      BY <1>3, <2>1 DEF Inv, BootInv, Settled, IdleStack, ScheduleLabel
    <3>2. /\ k = NB_BOOT /\ BootTable /\ current_pid = 0 /\ esp = BOOT /\ mode # "undefined"
          /\ \A p \in PID : p < Done => Fresh(p)
      BY <2>1, <3>1 DEF Inv, BootInv, ScheduleLabel
    <3>3. Done = Created
      BY <3>2 DEF Done, Created
    <3>4. Table(0)
      BY <1>1, <3>1, <3>2, <3>3 DEF BootTable, Table
    <3>5. \A p \in 0 .. Created - 1 : p # 0 => Resumable(p)
      <4> SUFFICES ASSUME NEW p \in 0 .. Created - 1, p # 0
                   PROVE  Resumable(p)
        OBVIOUS
      <4>1. Fresh(p)
        BY <1>1, <3>2, <3>3
      <4> QED
        BY <1>1, <4>1 DEF Fresh, Resumable, StackOf
    <3> QED
      BY <1>1, <3>2, <3>4, <3>5 DEF StackOf
  <2>2. CASE pc[BOOT] \in IdleLabel
    BY <2>2 DEF Inv, RunInv
  <2> QED
    BY <2>1, <2>2 DEF Inv, PcInv
<1>4. OneElected
  BY <1>1, <1>3 DEF OneElected, Table, TypeOK
<1>5. ContextOwned
  BY <1>1, <1>3 DEF ContextOwned, Table, TypeOK
<1> QED
  BY <1>2, <1>4, <1>5

\* When the boot takes less than a quantum, exactly one process is ELU, it is
\* current_pid, it runs on its own stack, every other context is intact, and the
\* CPU never halts with interrupts masked.
THEOREM SchedulerSafe ==
  ASSUME BootTicks < TIME_QUANTUM_MS
  PROVE  Spec => [](OneElected /\ ContextOwned /\ NoDeafHalt)
<1>1. Inv /\ [Next]_vars => Inv'
  BY InvNext
<1>2. Init => Inv
  BY InvInit
<1> QED
  BY <1>1, <1>2, InvSafe, PTL DEF Spec

----------------------------------------------------------------------------
(* Round robin.                                                            *)

\* A step changes current_pid to the next process of the table, or not at all.
LEMMA TurnNext ==
  ASSUME BootTicks < TIME_QUANTUM_MS, Inv, [Next]_vars
  PROVE  current_pid' = current_pid \/ current_pid' = (current_pid + 1) % Created
<1> USE DEF tableVars, cpuVars, picVars, bootVars, idleVars, Straight, Own
<1>1. /\ TypeOK /\ Created \in 1 .. NB_PROC /\ NB_PROC \in Nat \ {0} /\ PID = 0 .. NB_PROC - 1
  BY ConstantsAssumption, CreatedRange DEF Inv, TypeInv, PID
<1>2. CASE \E s \in IdleStack : schedule_current(s)
  <2>1. PICK s \in IdleStack : schedule_current(s)
    BY <1>2
  <2>2. s = BOOT
    BY <2>1 DEF schedule_current, At, Inv, PcInv, IdleStack
  <2>3. current_pid = 0 /\ current_pid' = 1 /\ 1 < Created
    BY <2>1, <2>2 DEF schedule_current, At, Inv, BootInv, ScheduleLabel
  <2>4. 0 \in 0 .. Created - 1
    BY <1>1
  <2>5. (0 + 1) % Created = IF 0 + 1 = Created THEN 0 ELSE 0 + 1
    BY <2>4, Successor, Zenon
  <2> QED
    BY <1>1, <2>3, <2>5
<1>3. CASE tick_handler_C
  <2>1. CASE UNCHANGED tableVars
    BY <2>1
  <2>2. CASE \E n \in PID : IsNext(current_pid, n) /\ current_pid' = n /\ scheduling_enabled
    <3>1. PICK n \in PID : IsNext(current_pid, n) /\ current_pid' = n /\ scheduling_enabled
      BY <2>2
    <3>2. CASE pc[BOOT] \in IdleLabel
      <4>1. current_pid \in 0 .. Created - 1 /\ Table(current_pid)
        BY <1>1, <3>2 DEF Inv, RunInv, TypeOK
      <4> QED
        BY <3>1, <4>1, PickNext
    <3>3. CASE pc[BOOT] \in CreateLabel \cup ScheduleLabel
      <4>1. system_ticks \in Nat /\ system_ticks + 1 <= BootTicks
        BY <1>1, <1>3, <3>3, ConstantsAssumption
           DEF tick_handler_C, Inv, BootInv, TicksRaised, TypeOK
      <4>2. \A x \in Nat : x < TICK_MOD => x % TICK_MOD = x
        BY ConstantsAssumption
      <4>3. \A x \in Nat : 0 < x /\ x < TIME_QUANTUM_MS => x % TIME_QUANTUM_MS # 0
        BY ConstantsAssumption
      <4>4. system_ticks' = system_ticks + 1
        BY <1>3, <4>1, <4>2, ConstantsAssumption DEF tick_handler_C
      <4>5. system_ticks' % TIME_QUANTUM_MS # 0
        BY <4>1, <4>3, <4>4, ConstantsAssumption
      <4> QED
        BY <1>3, <4>5 DEF tick_handler_C
    <3> QED
      BY <3>2, <3>3 DEF Inv, PcInv
  <2> QED
    BY <1>3, <2>1, <2>2 DEF tick_handler_C, schedule_isr
<1>4. CASE Boot
  BY <1>4
     DEF Boot, init_process, find_free_slot, create_fails, create_publish, create_context,
         all_created, elect_idle, start_scheduling
<1>5. CASE \E s \in IdleStack : schedule_pick(s) \/ schedule_demote(s) \/ schedule_elect(s)
                                  \/ schedule_ctx_sw(s) \/ idle_sti(s) \/ idle_hlt(s)
  BY <1>5
     DEF schedule_pick, schedule_demote, schedule_elect, schedule_ctx_sw, idle_sti, idle_hlt,
         sti, hlt
<1>6. CASE \E s \in PID : process_starter(s) \/ SyscallStep(s) \/ BodyStep(s)
  BY <1>6
     DEF process_starter, SyscallStep, syscall_iret, kgetch_sti, kgetch_hlt, BodyStep, int80,
         body_sti, body_hlt, body_returns, ended_hlt, sti, hlt
<1>7. CASE PitPulse \/ handler_timer \/ timer_iret \/ OtherIrq \/ UNCHANGED vars
  BY <1>7 DEF PitPulse, handler_timer, timer_iret, OtherIrq, vars
<1> QED
  BY <1>2, <1>3, <1>4, <1>5, <1>6, <1>7 DEF Next, Kernel, IdleStep

\* When the boot takes less than a quantum, the CPU goes from each process to the
\* next one of the table, in the order RoundRobin promises.
THEOREM SchedulerImplementsRoundRobin ==
  ASSUME BootTicks < TIME_QUANTUM_MS
  PROVE  Spec => RR!Init /\ [][RR!Next]_current_pid
<1>1. Init => RR!Init
  BY DEF Init, RR!Init
<1>2. Inv /\ [Next]_vars => Inv'
  BY InvNext
<1>3. Inv /\ [Next]_vars => [RR!Next]_current_pid
  BY TurnNext DEF RR!Next
<1>4. Init => Inv
  BY InvInit
<1> QED
  BY <1>1, <1>2, <1>3, <1>4, PTL DEF Spec

----------------------------------------------------------------------------
(* However long the boot takes.  Once a quantum can end during the boot,   *)
(* schedule() is re-entered and the round robin above is lost; what is     *)
(* left is that nobody switches to a slot before it is filled, and that a  *)
(* saved context is live only until it is resumed.                         *)

Creating == pc[BOOT] \in CreateLabel

\* The code of slot p has a stack to go on from.
Usable(p) == regs[p].stk \in Stack /\ pc[regs[p].stk] # "unused"

\* ctx_sw can jump through the context of slot p.
Live(p) == regs[p].ret \in {"process_starter", "idle", "isr"}

\* While kernel_start fills the table nobody else runs, and slot 0 comes first.
CreateInv ==
  Creating =>
    /\ esp = BOOT
    /\ ~scheduling_enabled
    /\ current_pid = 0
    /\ pc[0] \in {"unused", "process_starter"}
    /\ pc[BOOT] = "init_process" => k = 0
    /\ k > 0 \/ pc[BOOT] = "context" => state[0] # "LIBRE"
    /\ pc[BOOT] = "publish" => state[0] # "LIBRE" \/ slot = 0
    /\ pc[BOOT] \in {"elu", "enable"} => k > 0
    /\ \A p \in PID : regs[p] \in {NoContext, [stk |-> p, ret |-> "process_starter"]}

\* schedule() has only filled slots to choose from, also when it is re-entered.
SwitchInv ==
  /\ esp \in Stack /\ pc[esp] # "unused" /\ pc[BOOT] # "unused"
  /\ \A p \in PID : state[p] # "LIBRE" => Usable(p) \/ (pc[BOOT] = "context" /\ p = slot)
  /\ ~Creating =>
       /\ state[current_pid] # "LIBRE"
       /\ \A s \in IdleStack :
            pc[s] \in {"demote", "elect", "current", "ctx_sw"} => state[next[s]] # "LIBRE"

\* No two live contexts share a stack, none is on the stack the CPU runs on, and
\* the one a process gave up by itself resumes where its stack says.
LiveInv ==
  mode # "undefined" =>
    \A p \in PID : Live(p) =>
      /\ regs[p].stk # esp
      /\ regs[p].ret \in {"process_starter", "idle"} => pc[regs[p].stk] = regs[p].ret
      /\ \A q \in PID \ {p} : Live(q) => regs[q].stk # regs[p].stk

LongInv == TypeInv /\ FlagInv /\ CreateInv /\ SwitchInv /\ LiveInv

LEMMA LongInit == Init => LongInv
<1> SUFFICES ASSUME Init
             PROVE  LongInv
  OBVIOUS
<1>1. /\ BOOT \in Stack /\ 0 \in Stack /\ 0 \in PID /\ pc[BOOT] = "init_process"
      /\ pc[0] = "unused" /\ k = 0 /\ ~halted
  BY ConstantsAssumption DEF Init, Stack, PID
<1>2. CreateInv /\ SwitchInv /\ LiveInv /\ FlagInv
  BY <1>1
     DEF Init, CreateInv, SwitchInv, LiveInv, FlagInv, Creating, CreateLabel, Usable, Live,
         NoContext
<1> QED
  BY <1>2, TypeInit DEF LongInv

\* A switch to a filled slot: its context was live and is used up, the one left
\* behind is live and the only one on its stack; or the jump is undefined.
LEMMA CtxSwLong ==
  ASSUME LongInv, ~Creating, mode # "undefined",
         NEW old \in PID, NEW n \in PID, state[n] # "LIBRE",
         NEW ret \in {"isr", "idle"}, ctx_sw(old, n, ret),
         pc' = IF ret = "idle" THEN [pc EXCEPT ![esp] = "idle"] ELSE pc
  PROVE  /\ esp' \in Stack /\ pc'[esp'] # "unused"
         /\ \A p \in PID : state[p] # "LIBRE" => Usable(p)'
         /\ LiveInv'
         /\ mode' = "base" => pc'[esp'] \in {"process_starter", "idle"}
<1> DEFINE saved == [regs EXCEPT ![old] = [stk |-> esp, ret |-> ret]]
<1>1. /\ TypeOK /\ esp \in Stack /\ pc[esp] # "unused" /\ pc \in [Stack -> Label]
      /\ regs \in [PID -> Context]
      /\ \A p \in PID : state[p] # "LIBRE" => Usable(p)
  BY DEF LongInv, TypeInv, SwitchInv, TypeOK, Creating, CreateLabel
<1>2. /\ saved \in [PID -> Context]
      /\ saved[old] = [stk |-> esp, ret |-> ret]
      /\ \A p \in PID \ {old} : saved[p] = regs[p]
  BY <1>1 DEF Context
<1>3. /\ regs' = [saved EXCEPT ![n] = [stk |-> saved[n].stk, ret |-> "stale"]]
      /\ esp' = saved[n].stk
      /\ mode' = CASE saved[n].ret = "isr" -> "iret"
                   [] saved[n].ret \in {"process_starter", "idle"} -> "base"
                   [] OTHER -> "undefined"
  BY DEF ctx_sw
<1> HIDE DEF saved
<1>4. \A s \in Stack : /\ pc'[s] = IF ret = "idle" /\ s = esp THEN "idle" ELSE pc[s]
                       /\ pc[s] # "unused" => pc'[s] # "unused"
  BY <1>1
<1>5. /\ \A p \in PID : state[p] # "LIBRE" \/ p = old =>
           saved[p].stk \in Stack /\ pc'[saved[p].stk] # "unused"
  BY <1>1, <1>2, <1>4 DEF Usable
<1>6. \A p \in PID :
        saved[p].ret \in {"process_starter", "idle", "isr"} =>
          /\ saved[p].ret \in {"process_starter", "idle"} => pc'[saved[p].stk] = saved[p].ret
          /\ \A q \in PID \ {p} :
               saved[q].ret \in {"process_starter", "idle", "isr"} => saved[q].stk # saved[p].stk
  <2> SUFFICES ASSUME NEW p \in PID, saved[p].ret \in {"process_starter", "idle", "isr"}
               PROVE  /\ saved[p].ret \in {"process_starter", "idle"} =>
                           pc'[saved[p].stk] = saved[p].ret
                      /\ \A q \in PID \ {p} :
                           saved[q].ret \in {"process_starter", "idle", "isr"} =>
                             saved[q].stk # saved[p].stk
    OBVIOUS
  <2>1. \A q \in PID : Live(q) =>
          /\ regs[q].stk # esp
          /\ regs[q].ret \in {"process_starter", "idle"} => pc[regs[q].stk] = regs[q].ret
          /\ \A r \in PID \ {q} : Live(r) => regs[r].stk # regs[q].stk
    BY DEF LongInv, LiveInv
  <2>2. \A q \in PID \ {old} : saved[q].ret \in {"process_starter", "idle", "isr"} =>
          Live(q) /\ saved[q].stk = regs[q].stk /\ saved[q].stk # esp
    BY <1>2, <2>1 DEF Live
  <2>3. CASE p = old
    BY <1>1, <1>2, <1>4, <2>2, <2>3
  <2>4. CASE p # old
    <3>1. Live(p) /\ saved[p] = regs[p] /\ saved[p].stk # esp
      BY <1>2, <2>2, <2>4
    <3>2. pc[regs[p].stk] = regs[p].ret => pc'[saved[p].stk] = saved[p].ret
      <4>1. regs[p].stk \in Stack \cup {NULL}
        BY <1>1 DEF Context
      <4>2. CASE ret = "idle"
        BY <1>1, <3>1, <4>1, <4>2
      <4>3. CASE ret # "idle"
        BY <3>1, <4>3
      <4> QED
        BY <4>2, <4>3
    <3>3. \A q \in PID \ {p} :
            saved[q].ret \in {"process_starter", "idle", "isr"} => saved[q].stk # saved[p].stk
      BY <1>2, <2>1, <2>2, <3>1
    <3> QED
      BY <2>1, <3>1, <3>2, <3>3
  <2> QED
    BY <2>3, <2>4
<1>7. \A p \in PID : regs'[p] = IF p = n THEN [stk |-> saved[n].stk, ret |-> "stale"]
                                ELSE saved[p]
  BY <1>2, <1>3
<1>8. \A p \in PID : state[p] # "LIBRE" => Usable(p)'
  BY <1>5, <1>7 DEF Usable
<1>9. LiveInv'
  <2> SUFFICES ASSUME mode' # "undefined"
               PROVE  \A p \in PID : Live(p)' =>
                        /\ regs'[p].stk # esp'
                        /\ regs'[p].ret \in {"process_starter", "idle"} =>
                             pc'[regs'[p].stk] = regs'[p].ret
                        /\ \A q \in PID \ {p} : Live(q)' => regs'[q].stk # regs'[p].stk
    BY DEF LiveInv
  <2>1. saved[n].ret \in {"process_starter", "idle", "isr"}
    BY <1>3
  <2>2. \A p \in PID : Live(p)' =>
          p # n /\ regs'[p] = saved[p] /\ saved[p].ret \in {"process_starter", "idle", "isr"}
    BY <1>7 DEF Live
  <2> QED
    BY <1>3, <1>6, <2>1, <2>2
<1>10. mode' = "base" => pc'[esp'] \in {"process_starter", "idle"}
  <2>1. mode' = "base" => saved[n].ret \in {"process_starter", "idle"}
    BY <1>3
  <2> QED
    BY <1>3, <1>6, <2>1
<1> QED
  BY <1>3, <1>5, <1>8, <1>9, <1>10

\* A step that touches neither the table nor the CPU's registers, and moves the
\* code of the current stack at most to a label where no switch is under way.
LEMMA OwnLong ==
  ASSUME LongInv, ~Creating, mode = "base",
         NEW m \in Label \ (CreateLabel \cup {"unused", "demote", "elect", "current", "ctx_sw"}),
         pc' = [pc EXCEPT ![esp] = m],
         UNCHANGED <<tableVars, esp, mode, next, slot, k>>
  PROVE  (CreateInv /\ SwitchInv /\ LiveInv)'
<1> USE DEF tableVars
<1>1. /\ TypeOK /\ esp \in Stack /\ pc \in [Stack -> Label] /\ regs \in [PID -> Context]
      /\ BOOT \in Stack /\ IdleStack \subseteq Stack
      /\ m # "unused" /\ m \notin CreateLabel
      /\ m \notin {"demote", "elect", "current", "ctx_sw"}
  BY ConstantsAssumption
     DEF LongInv, TypeInv, SwitchInv, TypeOK, Stack, IdleStack, PID
<1>2. \A s \in Stack : pc'[s] = IF s = esp THEN m ELSE pc[s]
  BY <1>1
<1>3. CreateInv' /\ ~Creating'
  BY <1>1, <1>2 DEF Creating, CreateInv
<1>4. SwitchInv'
  <2>1. pc[BOOT] # "context" /\ pc'[BOOT] # "context"
    BY <1>3 DEF Creating, CreateLabel
  <2>2. \A p \in PID : state'[p] # "LIBRE" => Usable(p)'
    BY <1>1, <1>2, <2>1 DEF LongInv, SwitchInv, Usable
  <2> QED
    BY <1>1, <1>2, <2>2 DEF LongInv, SwitchInv
<1>5. LiveInv'
  <2>1. \A p \in PID : Live(p)' = Live(p)
    BY DEF Live
  <2>2. \A p \in PID : Live(p) => regs[p].stk # esp /\ regs[p].stk \in Stack \cup {NULL}
    BY <1>1 DEF LongInv, LiveInv, Context
  <2>3. \A p \in PID : Live(p) => pc'[regs[p].stk] = pc[regs[p].stk]
    BY <1>1, <2>2
  <2> QED
    BY <2>1, <2>2, <2>3 DEF LongInv, LiveInv
<1> QED
  BY <1>3, <1>4, <1>5

\* While the table is filled.
LEMMA LongBoot == LongInv /\ Boot => (FlagInv /\ CreateInv /\ SwitchInv /\ LiveInv)'
<1> SUFFICES ASSUME LongInv, Boot
             PROVE  (FlagInv /\ CreateInv /\ SwitchInv /\ LiveInv)'
  OBVIOUS
<1> USE DEF At, Goto, Straight, tableVars, cpuVars, picVars, bootVars, idleVars
<1>1. /\ TypeOK /\ 0 \in PID /\ BOOT \in Stack /\ PID \subseteq Stack /\ BOOT \notin PID
      /\ NB_PROC \in Nat \ {0} /\ NB_BOOT \in Nat \ {0} /\ k \in Nat /\ PID = 0 .. NB_PROC - 1
      /\ pc \in [Stack -> Label] /\ regs \in [PID -> Context] /\ slot \in PID
      /\ state \in [PID -> {"LIBRE", "PRET", "ELU"}] /\ IdleStack = {BOOT, 0}
  BY ConstantsAssumption DEF LongInv, TypeInv, TypeOK, PID, Stack, IdleStack
<1>2. /\ esp = BOOT /\ mode = "base" /\ ~halted /\ pc[BOOT] \in CreateLabel
      /\ UNCHANGED <<esp, mode, halted, IFlag, current_pid, next>>
      /\ pc'[BOOT] \in CreateLabel \cup {"pick"}
  BY <1>1
     DEF Boot, init_process, find_free_slot, create_fails, create_publish, create_context,
         all_created, elect_idle, start_scheduling, CreateLabel
<1>3. CreateInv /\ Creating /\ SwitchInv
  BY <1>2 DEF LongInv, Creating
<1>4. FlagInv'
  BY <1>2 DEF FlagInv, CreateLabel
<1>5. /\ \A p \in PID : regs'[p] \in {NoContext, [stk |-> p, ret |-> "process_starter"]}
      /\ \A p \in PID : Live(p) => pc[regs[p].stk] = "process_starter"
  <2>1. \A p \in PID : regs[p] \in {NoContext, [stk |-> p, ret |-> "process_starter"]}
    BY <1>3 DEF CreateInv
  <2>2. \A p \in PID : Live(p) => pc[regs[p].stk] = "process_starter"
    BY <1>2, <2>1 DEF LongInv, LiveInv, Live, NoContext
  <2>3. CASE init_process
    BY <2>2, <2>3 DEF init_process
  <2>4. CASE create_context
    BY <1>1, <2>1, <2>2, <2>4 DEF create_context
  <2>5. CASE regs' = regs
    BY <2>1, <2>2, <2>5
  <2> QED
    BY <2>3, <2>4, <2>5
       DEF Boot, find_free_slot, create_fails, create_publish, all_created, elect_idle,
           start_scheduling
<1>6. LiveInv'
  <2>1. \A p \in PID : Live(p)' =>
          regs'[p].stk = p /\ regs'[p].ret = "process_starter"
    BY <1>5 DEF Live, NoContext
  <2>2. \A p \in PID : Live(p)' => pc'[p] = "process_starter"
    <3>1. CASE create_context
      <4>1. \A p \in PID : pc'[p] = IF p = slot THEN "process_starter" ELSE pc[p]
        BY <1>1, <3>1 DEF create_context
      <4>2. \A p \in PID \ {slot} : regs'[p] = regs[p]
        BY <1>1, <3>1 DEF create_context
      <4> QED
        BY <1>5, <2>1, <4>1, <4>2 DEF Live
    <3>2. CASE init_process
      BY <3>2 DEF init_process, Live, NoContext
    <3>3. CASE regs' = regs /\ \A p \in PID : pc'[p] = pc[p]
      BY <1>5, <2>1, <3>3 DEF Live
    <3> QED
      BY <1>1, <3>1, <3>2, <3>3
         DEF Boot, find_free_slot, create_fails, create_publish, all_created, elect_idle,
             start_scheduling
  <2> QED
    BY <1>1, <1>2, <2>1, <2>2 DEF LiveInv
<1>7. CreateInv' /\ (pc'[BOOT] = "pick" => state'[0] # "LIBRE")
  <2> USE DEF CreateInv, Creating, CreateLabel
  <2>1. CASE init_process
    BY <1>1, <1>2, <1>3, <1>5, <2>1 DEF init_process
  <2>2. CASE find_free_slot
    <3>1. state[0] # "LIBRE" \/ slot' = 0
      BY <1>1, <2>2 DEF find_free_slot, IsFreeSlot
    <3> QED
      BY <1>1, <1>2, <1>3, <1>5, <2>2, <3>1 DEF find_free_slot
  <2>3. CASE create_fails
    BY <1>1, <1>2, <1>3, <1>5, <2>3 DEF create_fails
  <2>4. CASE create_publish
    BY <1>1, <1>2, <1>3, <1>5, <2>4 DEF create_publish
  <2>5. CASE create_context
    BY <1>1, <1>2, <1>3, <1>5, <2>5 DEF create_context
  <2>6. CASE all_created
    BY <1>1, <1>2, <1>3, <1>5, <2>6 DEF all_created
  <2>7. CASE elect_idle
    BY <1>1, <1>2, <1>3, <1>5, <2>7 DEF elect_idle
  <2>8. CASE start_scheduling
    BY <1>1, <1>2, <1>3, <1>5, <2>8 DEF start_scheduling
  <2> QED
    BY <2>1, <2>2, <2>3, <2>4, <2>5, <2>6, <2>7, <2>8 DEF Boot
<1>8. SwitchInv'
  <2>1. /\ esp' \in Stack /\ pc'[esp'] # "unused" /\ pc'[BOOT] # "unused"
    BY <1>1, <1>2 DEF CreateLabel
  <2>2. \A p \in PID :
          state'[p] # "LIBRE" => Usable(p)' \/ (pc'[BOOT] = "context" /\ p = slot')
    <3>1. CASE init_process
      BY <3>1 DEF init_process
    <3>2. CASE create_publish
      <4>1. \A p \in PID \ {slot} : state'[p] = state[p] /\ regs'[p] = regs[p]
        BY <1>1, <3>2 DEF create_publish
      <4>2. \A s \in Stack : pc[s] # "unused" => pc'[s] # "unused"
        BY <1>1, <3>2 DEF create_publish
      <4>3. pc[BOOT] = "publish" /\ pc'[BOOT] = "context" /\ slot' = slot
        BY <1>1, <3>2 DEF create_publish
      <4> QED
        BY <1>3, <4>1, <4>2, <4>3 DEF SwitchInv, Usable
    <3>3. CASE create_context
      <4>1. /\ regs'[slot].stk = slot /\ pc'[slot] = "process_starter" /\ slot \in Stack
            /\ state' = state
            /\ \A p \in PID \ {slot} : regs'[p] = regs[p]
            /\ \A s \in Stack : pc[s] # "unused" => pc'[s] # "unused"
        BY <1>1, <3>3 DEF create_context
      <4>2. \A p \in PID \ {slot} : state'[p] # "LIBRE" => Usable(p)'
        BY <1>3, <4>1 DEF SwitchInv, Usable
      <4> QED
        BY <4>1, <4>2 DEF Usable
    <3>4. CASE elect_idle
      <4>1. /\ regs' = regs /\ pc[BOOT] = "elu" /\ slot' = slot
            /\ \A p \in PID : state'[p] # "LIBRE" => state[p] # "LIBRE" \/ p = 0
            /\ \A s \in Stack : pc[s] # "unused" => pc'[s] # "unused"
        BY <1>1, <3>4 DEF elect_idle
      <4>2. state[0] # "LIBRE"
        BY <1>1, <1>3, <4>1 DEF CreateInv
      <4> QED
        BY <1>1, <1>3, <4>1, <4>2 DEF SwitchInv, Usable
    <3>5. CASE find_free_slot \/ create_fails \/ all_created \/ start_scheduling
      <4>1. /\ regs' = regs /\ state' = state /\ pc[BOOT] # "context"
            /\ \A s \in Stack : pc[s] # "unused" => pc'[s] # "unused"
        BY <1>1, <3>5 DEF find_free_slot, create_fails, all_created, start_scheduling
      <4> QED
        BY <1>3, <4>1 DEF SwitchInv, Usable
    <3> QED
      BY <3>1, <3>2, <3>3, <3>4, <3>5 DEF Boot
  <2>3. ~Creating' => /\ state'[current_pid'] # "LIBRE"
                      /\ \A s \in IdleStack :
                           pc'[s] \notin {"demote", "elect", "current", "ctx_sw"}
    <3>1. ASSUME ~Creating'
          PROVE  start_scheduling /\ pc'[BOOT] = "pick"
      BY <1>1, <1>2, <3>1
         DEF Boot, init_process, find_free_slot, create_fails, create_publish, create_context,
             all_created, elect_idle, Creating, CreateLabel
    <3>2. pc[0] \in {"unused", "process_starter"}
      BY <1>3 DEF CreateInv
    <3> QED
      BY <1>1, <1>2, <1>3, <1>7, <3>1, <3>2 DEF start_scheduling, CreateInv
  <2> QED
    BY <2>1, <2>2, <2>3 DEF SwitchInv
<1> QED
  BY <1>4, <1>6, <1>7, <1>8

\* idle, and the schedule() it calls, alone or re-entered.
LEMMA LongIdle ==
  ASSUME LongInv, NEW s \in IdleStack, IdleStep(s)
  PROVE  (FlagInv /\ CreateInv /\ SwitchInv /\ LiveInv)'
<1> USE DEF At, Goto, Straight, Own, tableVars, cpuVars, picVars, bootVars, idleVars
<1>1. /\ TypeOK /\ 0 \in PID /\ BOOT \in Stack /\ PID \subseteq Stack /\ BOOT \notin PID
      /\ IdleStack \subseteq Stack /\ s \in Stack
      /\ pc \in [Stack -> Label] /\ regs \in [PID -> Context] /\ current_pid \in PID
      /\ state \in [PID -> {"LIBRE", "PRET", "ELU"}]
      /\ old_pid \in [IdleStack -> PID] /\ next \in [IdleStack -> PID]
  BY ConstantsAssumption DEF LongInv, TypeInv, TypeOK, PID, Stack, IdleStack
<1>2. esp = s /\ pc[s] \in ScheduleLabel \cup IdleLabel /\ mode = "base" /\ ~halted
  BY DEF IdleStep, schedule_pick, schedule_demote, schedule_elect, schedule_current,
         schedule_ctx_sw, idle_sti, idle_hlt, sti, hlt, ScheduleLabel, IdleLabel
<1>3. /\ ~Creating /\ CreateInv /\ SwitchInv /\ LiveInv
      /\ \A p \in PID : state[p] # "LIBRE" => Usable(p)
  BY <1>2
     DEF LongInv, CreateInv, SwitchInv, Creating, CreateLabel, ScheduleLabel, IdleLabel
<1>4. CASE idle_sti(s) \/ idle_hlt(s)
  <2>1. (CreateInv /\ SwitchInv /\ LiveInv)'
    <3>1. {"idle", "idle_hlt"} \subseteq
            Label \ (CreateLabel \cup {"unused", "demote", "elect", "current", "ctx_sw"})
      BY DEF Label, CreateLabel, IdleLabel
    <3> QED
      BY <1>2, <1>3, <1>4, <3>1, OwnLong DEF idle_sti, idle_hlt, sti, hlt
  <2>2. FlagInv'
    BY <1>1, <1>2, <1>4 DEF idle_sti, idle_hlt, sti, hlt, LongInv, FlagInv
  <2> QED
    BY <2>1, <2>2
\* The steps before the switch move the table under the eyes of the timer.
<1>5. ASSUME NEW m \in ScheduleLabel \cup IdleLabel,
             m # "idle_hlt",
             pc' = [pc EXCEPT ![s] = m],
             UNCHANGED <<regs, esp, mode, halted, IFlag, slot, scheduling_enabled>>,
             \A p \in PID : state'[p] # "LIBRE" <=> state[p] # "LIBRE",
             state[current_pid'] # "LIBRE",
             m \in {"demote", "elect", "current", "ctx_sw"} => state[next'[s]] # "LIBRE",
             \A r \in IdleStack \ {s} : next'[r] = next[r],
             current_pid' \in PID, next' \in [IdleStack -> PID]
      PROVE  (FlagInv /\ CreateInv /\ SwitchInv /\ LiveInv)'
  <2>1. /\ m \notin CreateLabel /\ m # "unused" /\ m # "context"
        /\ m \notin {"body", "body_hlt", "kgetch_hlt", "ended"}
    BY DEF ScheduleLabel, IdleLabel, CreateLabel
  <2>2. \A r \in Stack : pc'[r] = IF r = s THEN m ELSE pc[r]
    BY <1>1, <1>5
  <2>3. ~Creating' /\ CreateInv'
    BY <1>1, <1>3, <2>1, <2>2 DEF Creating, CreateInv
  <2>4. FlagInv'
    BY <1>1, <1>2, <1>5, <2>1, <2>2 DEF LongInv, FlagInv
  <2>5. LiveInv'
    <3>1. \A p \in PID : Live(p)' = Live(p)
      BY <1>5 DEF Live
    <3>2. \A p \in PID : Live(p) => regs[p].stk # s /\ regs[p].stk \in Stack \cup {NULL}
      BY <1>1, <1>2, <1>3 DEF LiveInv, Context
    <3>3. \A p \in PID : Live(p) => pc'[regs[p].stk] = pc[regs[p].stk]
      BY <1>1, <1>5, <3>2
    <3> QED
      BY <1>3, <1>5, <3>1, <3>3 DEF LiveInv
  <2>6. SwitchInv'
    <3>1. \A p \in PID : state'[p] # "LIBRE" => Usable(p)'
      BY <1>3, <1>5, <2>1, <2>2 DEF Usable
    <3>2. \A r \in IdleStack :
            pc'[r] \in {"demote", "elect", "current", "ctx_sw"} => state'[next'[r]] # "LIBRE"
      <4> SUFFICES ASSUME NEW r \in IdleStack,
                          pc'[r] \in {"demote", "elect", "current", "ctx_sw"}
                   PROVE  state[next'[r]] # "LIBRE"
        BY <1>5
      <4>1. CASE r = s
        BY <1>1, <1>5, <2>2, <4>1
      <4>2. CASE r # s
        BY <1>1, <1>3, <1>5, <2>2, <4>2 DEF SwitchInv
      <4> QED
        BY <4>1, <4>2
    <3> QED
      BY <1>1, <1>3, <1>5, <2>1, <2>2, <3>1, <3>2 DEF SwitchInv
  <2> QED
    BY <2>3, <2>4, <2>5, <2>6
<1>6. state[current_pid] # "LIBRE"
  BY <1>3 DEF SwitchInv
<1>7. pc[s] \in {"demote", "elect", "current", "ctx_sw"} => state[next[s]] # "LIBRE"
  BY <1>3 DEF SwitchInv
<1>8. CASE schedule_pick(s)
  <2>1. PICK n \in PID : /\ IsNext(current_pid, n)
                         /\ next' = [next EXCEPT ![s] = n]
                         /\ Goto(s, IF n = current_pid THEN "idle" ELSE "demote")
    BY <1>8 DEF schedule_pick
  <2>2. n # current_pid => state[n] = "PRET"
    BY <2>1 DEF IsNext
  <2> DEFINE m == IF n = current_pid THEN "idle" ELSE "demote"
  <2>3. m \in ScheduleLabel \cup IdleLabel /\ m # "idle_hlt" /\ pc' = [pc EXCEPT ![s] = m]
    BY <2>1 DEF ScheduleLabel, IdleLabel
  <2>4. m \in {"demote", "elect", "current", "ctx_sw"} => state[next'[s]] # "LIBRE"
    BY <1>1, <2>1, <2>2
  <2>5. next' \in [IdleStack -> PID] /\ \A r \in IdleStack \ {s} : next'[r] = next[r]
    BY <1>1, <2>1
  <2> HIDE DEF m
  <2> QED
    BY <1>1, <1>5, <1>6, <1>8, <2>3, <2>4, <2>5 DEF schedule_pick
<1>9. CASE schedule_demote(s)
  <2>1. \A p \in PID : state'[p] # "LIBRE" <=> state[p] # "LIBRE"
    BY <1>1, <1>9 DEF schedule_demote, Demote
  <2>2. state[next[s]] # "LIBRE" /\ "elect" \in ScheduleLabel
    BY <1>7, <1>9 DEF schedule_demote, ScheduleLabel
  <2> QED
    BY <1>1, <1>5, <1>6, <1>9, <2>1, <2>2 DEF schedule_demote
<1>10. CASE schedule_elect(s)
  <2>1. state[next[s]] # "LIBRE" /\ "current" \in ScheduleLabel
    BY <1>7, <1>10 DEF schedule_elect, ScheduleLabel
  <2>2. \A p \in PID : state'[p] # "LIBRE" <=> state[p] # "LIBRE"
    BY <1>1, <1>10, <2>1 DEF schedule_elect
  <2> QED
    BY <1>1, <1>5, <1>6, <1>10, <2>1, <2>2 DEF schedule_elect
<1>11. CASE schedule_current(s)
  <2>1. state[next[s]] # "LIBRE" /\ next[s] \in PID /\ "ctx_sw" \in ScheduleLabel
    BY <1>1, <1>7, <1>11 DEF schedule_current, ScheduleLabel
  <2> QED
    BY <1>1, <1>5, <1>11, <2>1 DEF schedule_current
<1>12. CASE schedule_ctx_sw(s)
  <2>1. /\ old_pid[s] \in PID /\ next[s] \in PID /\ state[next[s]] # "LIBRE"
        /\ ctx_sw(old_pid[s], next[s], "idle")
        /\ pc' = [pc EXCEPT ![esp] = "idle"]
        /\ UNCHANGED <<state, current_pid, scheduling_enabled, halted, slot, k, next>>
    BY <1>1, <1>2, <1>7, <1>12 DEF schedule_ctx_sw
  <2>2. /\ esp' \in Stack /\ pc'[esp'] # "unused"
        /\ \A p \in PID : state[p] # "LIBRE" => Usable(p)'
        /\ LiveInv'
        /\ mode' = "base" => pc'[esp'] \in {"process_starter", "idle"}
    BY <1>2, <1>3, <2>1, CtxSwLong
  <2>3. \A r \in Stack : pc'[r] = IF r = s THEN "idle" ELSE pc[r]
    BY <1>1, <1>2, <2>1
  <2>4. ~Creating' /\ CreateInv'
    BY <1>1, <1>3, <2>3 DEF Creating, CreateInv, CreateLabel
  <2>5. SwitchInv'
    BY <1>1, <1>3, <2>1, <2>2, <2>3 DEF SwitchInv
  <2>6. FlagInv'
    BY <1>2, <2>1, <2>2 DEF FlagInv
  <2> QED
    BY <2>2, <2>4, <2>5, <2>6
<1> QED
  BY <1>4, <1>8, <1>9, <1>10, <1>11, <1>12 DEF IdleStep

\* The code of the processes.
LEMMA LongProcess ==
  ASSUME LongInv, NEW s \in PID, process_starter(s) \/ SyscallStep(s) \/ BodyStep(s)
  PROVE  (FlagInv /\ CreateInv /\ SwitchInv /\ LiveInv)'
<1> USE DEF At, Goto, Own, tableVars, cpuVars, picVars, bootVars, idleVars
<1>1. /\ BOOT \notin PID /\ PID \subseteq Stack /\ pc \in [Stack -> Label]
  BY DEF LongInv, TypeInv, TypeOK, PID, Stack
<1>2. esp = s /\ mode = "base"
  BY DEF process_starter, SyscallStep, syscall_iret, kgetch_sti, kgetch_hlt, BodyStep, int80,
         body_sti, body_hlt, body_returns, ended_hlt, sti, hlt
<1>3. ~Creating
  BY <1>1, <1>2 DEF LongInv, CreateInv
<1>4. PICK m \in BodyLabel \cup {"pick"} :
           /\ pc' = [pc EXCEPT ![s] = m]
           /\ m \in {"body", "body_hlt", "kgetch_hlt", "ended"} => IFlag'
           /\ halted' => IFlag'
           /\ UNCHANGED <<tableVars, esp, mode, next, slot, k>>
  <2>1. CASE process_starter(s)
    BY <2>1 DEF process_starter, sti, BodyLabel
  <2>2. CASE SyscallStep(s)
    BY <1>2, <2>2
       DEF SyscallStep, syscall_iret, kgetch_sti, kgetch_hlt, sti, hlt, BodyLabel, LongInv, FlagInv
  <2>3. CASE BodyStep(s)
    BY <1>2, <2>3
       DEF BodyStep, int80, body_sti, body_hlt, body_returns, ended_hlt, sti, hlt, BodyLabel,
           LongInv, FlagInv
  <2> QED
    BY <2>1, <2>2, <2>3
<1>5. m \in Label \ (CreateLabel \cup {"unused", "demote", "elect", "current", "ctx_sw"})
  BY DEF Label, BodyLabel, ScheduleLabel, CreateLabel
<1>6. (CreateInv /\ SwitchInv /\ LiveInv)'
  BY <1>2, <1>3, <1>4, <1>5, OwnLong
<1>7. FlagInv'
  <2>1. pc'[esp'] = m /\ m # "idle_hlt"
    BY <1>1, <1>2, <1>4 DEF BodyLabel
  <2> QED
    BY <1>2, <1>4, <2>1 DEF FlagInv
<1> QED
  BY <1>6, <1>7

\* The timer: while the table is filled schedule() refuses to run, afterwards it
\* finds filled slots only.
LEMMA LongInterrupt ==
  ASSUME LongInv, PitPulse \/ handler_timer \/ tick_handler_C \/ timer_iret \/ OtherIrq
  PROVE  (FlagInv /\ CreateInv /\ SwitchInv /\ LiveInv)'
<1> USE DEF tableVars, cpuVars, picVars, bootVars, idleVars
<1>1. /\ TypeOK /\ current_pid \in PID /\ state \in [PID -> {"LIBRE", "PRET", "ELU"}]
      /\ UNCHANGED <<pc, k, slot, old_pid, next>>
  BY DEF LongInv, TypeInv, TypeOK, PitPulse, handler_timer, tick_handler_C, timer_iret, OtherIrq
<1>2. ASSUME UNCHANGED <<tableVars, esp>>, mode' # "undefined" => mode # "undefined"
      PROVE  CreateInv' /\ SwitchInv' /\ LiveInv'
  BY <1>1, <1>2 DEF LongInv, CreateInv, SwitchInv, LiveInv, Creating, Usable, Live
<1>3. CASE PitPulse \/ handler_timer \/ timer_iret \/ OtherIrq
  <2>1. FlagInv'
    BY <1>3 DEF PitPulse, handler_timer, timer_iret, OtherIrq, LongInv, FlagInv
  <2>2. UNCHANGED <<tableVars, esp>> /\ (mode' # "undefined" => mode # "undefined")
    BY <1>3 DEF PitPulse, handler_timer, timer_iret, OtherIrq
  <2> QED
    BY <1>2, <2>1, <2>2
<1>4. CASE tick_handler_C
  <2>1. mode = "tick" /\ ~halted /\ ~halted'
    BY <1>4 DEF tick_handler_C, LongInv, FlagInv
  <2>2. CASE mode' = "iret" /\ UNCHANGED <<tableVars, esp>>
    <3>1. FlagInv'
      BY <2>1, <2>2 DEF FlagInv
    <3> QED
      BY <1>2, <2>1, <2>2, <3>1
  <2>3. CASE \E n \in PID \ {current_pid} :
               /\ scheduling_enabled /\ UNCHANGED scheduling_enabled
               /\ IsNext(current_pid, n)
               /\ state' = [Demote(state, current_pid) EXCEPT ![n] = "ELU"]
               /\ current_pid' = n
               /\ ctx_sw(current_pid, n, "isr")
    <3>1. PICK n \in PID \ {current_pid} :
                 /\ scheduling_enabled /\ UNCHANGED scheduling_enabled
                 /\ IsNext(current_pid, n)
                 /\ state' = [Demote(state, current_pid) EXCEPT ![n] = "ELU"]
                 /\ current_pid' = n
                 /\ ctx_sw(current_pid, n, "isr")
      BY <2>3
    <3>2. ~Creating
      BY <3>1 DEF LongInv, CreateInv
    <3>3. state[n] = "PRET"
      BY <3>1 DEF IsNext
    <3>4. \A p \in PID : state'[p] # "LIBRE" <=> state[p] # "LIBRE"
      BY <1>1, <3>1, <3>3 DEF Demote
    <3>5. /\ esp' \in Stack /\ pc'[esp'] # "unused"
          /\ \A p \in PID : state[p] # "LIBRE" => Usable(p)'
          /\ LiveInv'
          /\ mode' = "base" => pc'[esp'] \in {"process_starter", "idle"}
      <4>1. n \in PID /\ ctx_sw(current_pid, n, "isr") /\ state[n] # "LIBRE"
        BY <3>1, <3>3
      <4>2. pc' = IF "isr" = "idle" THEN [pc EXCEPT ![esp] = "idle"] ELSE pc
        BY <1>1
      <4> HIDE DEF tableVars, cpuVars, picVars, bootVars, idleVars
      <4> QED
        BY <1>1, <2>1, <3>2, <4>1, <4>2, CtxSwLong
    <3>6. ~Creating' /\ CreateInv'
      BY <1>1, <3>2 DEF Creating, CreateInv
    <3>7. SwitchInv'
      <4>1. state'[current_pid'] # "LIBRE"
        BY <3>1, <3>3, <3>4
      <4>2. next \in [IdleStack -> PID]
        BY <1>1 DEF TypeOK
      <4>3. \A s \in IdleStack :
              pc'[s] \in {"demote", "elect", "current", "ctx_sw"} => state'[next'[s]] # "LIBRE"
        BY <1>1, <3>2, <3>4, <4>2 DEF LongInv, SwitchInv
      <4> QED
        BY <1>1, <3>4, <3>5, <4>1, <4>3 DEF LongInv, SwitchInv
    <3>8. FlagInv'
      BY <2>1, <3>5 DEF FlagInv
    <3> QED
      BY <3>5, <3>6, <3>7, <3>8
  <2> QED
    BY <1>4, <2>2, <2>3 DEF tick_handler_C, schedule_isr
<1> QED
  BY <1>3, <1>4

LEMMA LongNext == LongInv /\ [Next]_vars => LongInv'
<1> SUFFICES ASSUME LongInv, [Next]_vars
             PROVE  LongInv'
  OBVIOUS
<1>1. TypeInv'
  BY TypeNext DEF LongInv
<1>2. CASE UNCHANGED vars
  BY <1>1, <1>2
     DEF vars, tableVars, cpuVars, picVars, bootVars, idleVars, LongInv, FlagInv, CreateInv,
         SwitchInv, LiveInv, Creating, Usable, Live
<1>3. CASE Next
  BY <1>1, <1>3, LongBoot, LongIdle, LongProcess, LongInterrupt DEF Next, Kernel, LongInv
<1> QED
  BY <1>2, <1>3

\* The CPU never jumps into a slot that create_process() has not filled, however
\* early the timer fires and however often (process.c:17-19).
THEOREM NeverHalfCreated == Spec => []NoHalfCreated
<1>1. LongInv => NoHalfCreated
  BY DEF LongInv, SwitchInv, NoHalfCreated
<1> QED
  BY <1>1, LongInit, LongNext, PTL DEF Spec

\* The CPU never halts with interrupts masked, not even after a schedule() that
\* was re-entered: the contexts that are resumed with IF = 0 start with sti.
THEOREM NeverDeaf == Spec => []NoDeafHalt
<1>1. LongInv => NoDeafHalt
  BY DEF LongInv, FlagInv, NoDeafHalt
<1> QED
  BY <1>1, LongInit, LongNext, PTL DEF Spec
=============================================================================
