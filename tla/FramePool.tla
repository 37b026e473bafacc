----------------------------- MODULE FramePool -----------------------------
(***************************************************************************)
(* What the physical memory manager of n7OS promises: a frame belongs to   *)
(* one owner at a time, one that the boot keeps for the kernel is never    *)
(* given out, and a request is turned down only when no frame is left.     *)
(***************************************************************************)
EXTENDS Naturals

CONSTANT Frame       \* the frames of physical memory, 0 among them

VARIABLES
  free,              \* the frames nobody owns
  owned,             \* the frames that have been given out
  answer             \* what the last request was answered: a frame, or 0

Init == free = Frame /\ owned = {} /\ answer = 0

\* Once, before the first request, the kernel keeps the frames it occupies.
Keep(S) ==
  /\ free = Frame
  /\ free' = Frame \ S
  /\ UNCHANGED <<owned, answer>>

Give(f) ==
  /\ f \in free
  /\ free' = free \ {f}
  /\ owned' = owned \cup {f}
  /\ answer' = f

TurnDown ==
  /\ free = {}
  /\ answer' = 0
  /\ UNCHANGED <<free, owned>>

\* A caller chooses a free frame itself.
Choose(f) ==
  /\ f \in free
  /\ free' = free \ {f}
  /\ owned' = owned \cup {f}
  /\ UNCHANGED answer

TakeBack(f) ==
  /\ f \in owned
  /\ owned' = owned \ {f}
  /\ free' = free \cup {f}
  /\ UNCHANGED answer

Next ==
  \/ \E S \in SUBSET Frame : 0 \in S /\ Keep(S)
  \/ \E f \in Frame : Give(f) \/ Choose(f) \/ TakeBack(f)
  \/ TurnDown

Spec == Init /\ [][Next]_<<free, owned, answer>>
=============================================================================
