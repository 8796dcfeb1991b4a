--------------------------- MODULE FrameAllocator ---------------------------
(***************************************************************************)
(* The physical frame allocator, src/src/frame.c: an intrusive LIFO free   *)
(* list in front of a bump pointer.                                        *)
(*                                                                         *)
(* The link of the free list is the first word of the free frame itself,   *)
(* the same word a client may overwrite while it holds the frame, so the   *)
(* model keeps that word of every frame in the variable memory.  Pointers  *)
(* are frame numbers (linear address / FRAME_SIZE): the code's pointers    *)
(* are LINEAR_START plus the address and a frame is the unit of ++.        *)
(***************************************************************************)
EXTENDS Integers, FiniteSets

CONSTANTS
  FmStart,            \* fm_start, fm_end: the byte range handed to
  FmEnd               \* init_frame_allocator by setup_frame_allocator

ASSUME BoundsAssumption == FmStart \in Nat /\ FmEnd \in Nat

VARIABLES
  freemem_start,      \* first frame never handed out yet
  freelist,           \* head of the free list, or NULL
  memory,             \* memory[f]: first word of frame f
  owned,              \* frames the clients hold (no variable of the code)
  beat,               \* flips with every allocation (no variable of the code)
  panicked            \* panic() was called; the CPU stays in hlt

vars == <<freemem_start, freelist, memory, owned, beat, panicked>>

NULL == -1            \* the null pointer; also a zeroed word

FRAME_SIZE == 4096                     \* DEFAULT_FRAME_SIZE
LINEAR_FRAMES == 134217728             \* addrshift512G / FRAME_SIZE

(* init_frame_allocator rounds the range inwards to whole frames.          *)
FirstFrame == (FmStart + (FRAME_SIZE - 1)) \div FRAME_SIZE
EndFrame   == FmEnd \div FRAME_SIZE    \* freemem_end, exclusive

Frames == FirstFrame .. (EndFrame - 1)
Word   == Frames \cup {NULL}

(***************************************************************************)
(* pointerToLinearAddress accepts a pointer of the linear window only      *)
(* strictly between LINEAR_START and LINEAR_END: not frame 0.              *)
(***************************************************************************)
IsLinear(f) == 0 < f /\ f < LINEAR_FRAMES

(* The range is one the allocator can work in: not inverted by the         *)
(* rounding, above frame 0 and inside the linear window.                   *)
RegionOK ==
  /\ FirstFrame <= EndFrame
  /\ 0 < FirstFrame
  /\ EndFrame <= LINEAR_FRAMES

Init ==
  /\ freemem_start = FirstFrame
  /\ freelist = NULL
  /\ memory \in [Frames -> Word]       \* whatever RAM holds at boot
  /\ owned = {}
  /\ beat = FALSE
  /\ panicked = FALSE

----------------------------------------------------------------------------
(* frame_alloc_internal returns f.                                         *)

\* Mutant: the popped frame stays at the head of the list.
AllocInternalKeepsHead(f) ==
  \/ /\ freelist # NULL
     /\ f = freelist
     /\ UNCHANGED <<freelist, freemem_start>>
  \/ /\ freelist = NULL
     /\ freemem_start # EndFrame
     /\ f = freemem_start
     /\ freemem_start' = freemem_start + 1
     /\ UNCHANGED freelist

\* Mutant: the bump pointer is not compared with freemem_end.
AllocInternalUnbounded(f) ==
  \/ /\ freelist # NULL
     /\ f = freelist
     /\ freelist' = memory[f]
     /\ UNCHANGED freemem_start
  \/ /\ freelist = NULL
     /\ f = freemem_start
     /\ freemem_start' = freemem_start + 1
     /\ UNCHANGED freelist

AllocInternal(f) ==
  \/ /\ freelist # NULL
     /\ f = freelist
     /\ freelist' = memory[f]
     /\ UNCHANGED freemem_start
  \/ /\ freelist = NULL
     /\ freemem_start # EndFrame
     /\ f = freemem_start
     /\ freemem_start' = freemem_start + 1
     /\ UNCHANGED freelist

OutOfFrames == freelist = NULL /\ freemem_start = EndFrame

(* pointerToLinearAddress on the way out: the caller gets f, or panic().   *)
Return(f) ==
  IF IsLinear(f)
    THEN owned' = owned \cup {f} /\ beat' = ~beat /\ UNCHANGED panicked
    ELSE panicked' = TRUE /\ UNCHANGED <<owned, beat>>

FrameAlloc ==
  /\ ~panicked
  /\ \E f \in {freelist, freemem_start} : AllocInternal(f) /\ Return(f)
  /\ UNCHANGED memory

\* Mutant: the clearing memset runs one frame too far.
FrameAllocZeroOverrun ==
  /\ ~panicked
  /\ \E f \in {freelist, freemem_start} :
       /\ AllocInternal(f)
       /\ memory' = [g \in Frames |-> IF g \in {f, f + 1} THEN NULL ELSE memory[g]]
       /\ Return(f)

FrameAllocZero ==
  /\ ~panicked
  /\ \E f \in {freelist, freemem_start} :
       /\ AllocInternal(f)
       /\ memory' = [memory EXCEPT ![f] = NULL]
       /\ Return(f)

(* Either allocation with no frame left ends in panic().                   *)
AllocPanic ==
  /\ ~panicked
  /\ OutOfFrames
  /\ panicked' = TRUE
  /\ UNCHANGED <<freemem_start, freelist, memory, owned, beat>>

\* Mutant: the freed frame is not linked to the rest of the list.
FrameDeallocUnlinked(f) ==
  /\ ~panicked
  /\ f \in owned
  /\ freelist' = f
  /\ owned' = owned \ {f}
  /\ UNCHANGED <<freemem_start, memory, beat, panicked>>

(* frame_dealloc does not check its argument: giving back only a frame one *)
(* holds, once, is the caller's part of the contract.                      *)
FrameDealloc(f) ==
  /\ ~panicked
  /\ f \in owned
  /\ memory' = [memory EXCEPT ![f] = freelist]
  /\ freelist' = f
  /\ owned' = owned \ {f}
  /\ UNCHANGED <<freemem_start, beat, panicked>>

(* A client stores anything in a frame it holds, the link word included.   *)
ClientWrite(f, w) ==
  /\ ~panicked
  /\ f \in owned
  /\ memory' = [memory EXCEPT ![f] = w]
  /\ UNCHANGED <<freemem_start, freelist, owned, beat, panicked>>

Next ==
  \/ FrameAlloc
  \/ FrameAllocZero
  \/ AllocPanic
  \/ \E f \in owned : FrameDealloc(f)
  \/ \E f \in owned, w \in Word : ClientWrite(f, w)

Spec == Init /\ [][Next]_vars

----------------------------------------------------------------------------
(* Properties.                                                             *)

(* The pointers and links stay inside the managed range.                   *)
TypeOK ==
  /\ freemem_start \in FirstFrame .. EndFrame
  /\ freelist \in Word
  /\ memory \in [Frames -> Word]
  /\ owned \subseteq Frames
  /\ beat \in BOOLEAN
  /\ panicked \in BOOLEAN

Untouched == freemem_start .. (EndFrame - 1)
Reclaimed == Frames \ (owned \cup Untouched)

(* s lists, head first and without repetition, the frames reached from     *)
(* freelist by following the links; the last link is NULL.                 *)
IsFreeChain(n, s) ==
  /\ freelist = IF n = 0 THEN NULL ELSE s[1]
  /\ \A i \in 1 .. n : memory[s[i]] = IF i = n THEN NULL ELSE s[i + 1]
  /\ \A i, j \in 1 .. n : s[i] = s[j] => i = j
  /\ \A i \in 1 .. n : s[i] \in Reclaimed
  /\ \A f \in Reclaimed : \E i \in 1 .. n : s[i] = f

(***************************************************************************)
(* Every frame is in exactly one place.  Frames of the bump region were    *)
(* never handed out, and the free list is an acyclic, NULL-terminated      *)
(* chain through all the other frames nobody holds: whatever the clients   *)
(* wrote in their frames, none is lost and none is listed twice            *)
(* (frame_alloc_internal, frame_dealloc).                                  *)
(***************************************************************************)
FreelistComplete ==
  /\ owned \cap Untouched = {}
  /\ \E n \in 0 .. Cardinality(Frames) : \E s \in [1 .. n -> Frames] : IsFreeChain(n, s)

(***************************************************************************)
(* The allocator implements the pool: it hands out only frames nobody      *)
(* holds, and panics only when every frame is held.                        *)
(***************************************************************************)
Pool == INSTANCE FramePool
PoolSpec == Pool!Spec

(***************************************************************************)
(* What frame.c:17 says of freemem_end, "first non-free address after last *)
(* page": whatever the range, no frame from there on is handed out.        *)
(***************************************************************************)
NothingPastFreememEnd == \A f \in owned : f < EndFrame

(***************************************************************************)
(* No operation of the allocator changes a frame a client keeps across it: *)
(* the links it writes and the frames it clears are all its own.           *)
(***************************************************************************)
ClientStep == \E f \in owned, w \in Word : ClientWrite(f, w)
OwnedMemoryStable ==
  [][ClientStep \/ \A f \in owned \cap owned' : memory'[f] = memory[f]]_vars
=============================================================================
