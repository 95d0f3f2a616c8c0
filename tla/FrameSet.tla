------------------------------ MODULE FrameSet ------------------------------
(***************************************************************************)
(* What AllocFrame and FreeFrame promise: a set of frame numbers in use,   *)
(* to which a caller adds a frame only if nobody uses it, and from which   *)
(* it removes a frame only if it is there.                                 *)
(***************************************************************************)
CONSTANTS Callers, Frames

VARIABLES
  used,    \* frame numbers in use
  holds    \* for each caller, the frames it allocated and has not freed

vars == <<used, holds>>

Init == used \subseteq Frames /\ holds = [c \in Callers |-> {}]

Alloc(c, n) ==
  /\ n \notin used
  /\ used' = used \cup {n}
  /\ holds' = [holds EXCEPT ![c] = @ \cup {n}]

Free(c, n) ==
  /\ n \in used
  /\ used' = used \ {n}
  /\ holds' = [holds EXCEPT ![c] = @ \ {n}]

Next == \E c \in Callers, n \in Frames : Alloc(c, n) \/ Free(c, n)

Spec == Init /\ [][Next]_vars

=============================================================================
