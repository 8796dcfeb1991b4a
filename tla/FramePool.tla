----------------------------- MODULE FramePool -----------------------------
(***************************************************************************)
(* What the physical frame allocator of src/src/frame.c promises to the    *)
(* rest of the kernel, without its free list and its bump pointer: a fixed *)
(* set of frames, each of which is held by at most one client at a time.   *)
(* An allocation may return any frame nobody holds, and the kernel panics  *)
(* for want of memory only when every frame is held.                       *)
(***************************************************************************)
CONSTANT Frames       \* the frames under management

VARIABLES
  owned,              \* frames handed out and not yet given back
  beat,               \* flips with every allocation, so that each is a step
  panicked            \* the kernel stopped in panic()

Init ==
  /\ owned = {}
  /\ beat = FALSE
  /\ panicked = FALSE

Alloc(f) ==
  /\ ~panicked
  /\ f \notin owned
  /\ owned' = owned \cup {f}
  /\ beat' = ~beat
  /\ UNCHANGED panicked

Release(f) ==
  /\ ~panicked
  /\ f \in owned
  /\ owned' = owned \ {f}
  /\ UNCHANGED <<beat, panicked>>

Exhausted ==
  /\ ~panicked
  /\ owned = Frames
  /\ panicked' = TRUE
  /\ UNCHANGED <<owned, beat>>

Next ==
  \/ \E f \in Frames : Alloc(f) \/ Release(f)
  \/ Exhausted

Spec == Init /\ [][Next]_<<owned, beat, panicked>>
=============================================================================
