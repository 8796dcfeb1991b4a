------------------------ MODULE FrameAllocatorProofs ------------------------
(***************************************************************************)
(* Proofs about the frame allocator, for every byte range that satisfies   *)
(* RegionOK and every use the clients make of it.  The inductive invariant *)
(* is IInv: the types, and FreelistComplete.                               *)
(***************************************************************************)
EXTENDS FrameAllocator, FiniteSetTheorems, TLAPS

(* The bounds of the managed range are integers, and Frames is finite.     *)
LEMMA FramesFinite ==
  /\ FirstFrame \in Int
  /\ EndFrame \in Int
  /\ IsFiniteSet(Frames)
  /\ Cardinality(Frames) \in Nat
<1>1. FirstFrame \in Int /\ EndFrame \in Int
  BY BoundsAssumption DEF FirstFrame, EndFrame, FRAME_SIZE
<1>2. IsFiniteSet(Frames)
  BY <1>1, FS_Interval DEF Frames
<1> QED
  BY <1>1, <1>2, FS_CardinalityType

(* Every managed frame lies wholly inside the byte range that was handed   *)
(* to init_frame_allocator: both roundings go inwards.                     *)
THEOREM FramesInsideRange ==
  \A f \in Frames : FmStart <= f * FRAME_SIZE /\ (f + 1) * FRAME_SIZE <= FmEnd
BY BoundsAssumption DEF Frames, FirstFrame, EndFrame, FRAME_SIZE

(* A managed frame is a pointer the code can convert.                      *)
LEMMA FramesLinear == ASSUME RegionOK PROVE \A f \in Frames : IsLinear(f) /\ f # NULL
BY FramesFinite DEF RegionOK, Frames, IsLinear, NULL, LINEAR_FRAMES

----------------------------------------------------------------------------
(* The type invariant.                                                     *)

LEMMA TypeInit == ASSUME RegionOK, Init PROVE TypeOK
<1>1. freemem_start \in FirstFrame .. EndFrame
  BY FramesFinite DEF RegionOK, Init
<1> QED
  BY <1>1 DEF Init, TypeOK, Word

LEMMA TypeAllocInternal ==
  ASSUME RegionOK, TypeOK, NEW f, AllocInternal(f)
  PROVE  /\ f \in Frames
         /\ freemem_start' \in FirstFrame .. EndFrame
         /\ freelist' \in Word
BY FramesFinite DEF TypeOK, AllocInternal, Word, Frames

LEMMA TypeNext == ASSUME RegionOK, TypeOK, [Next]_vars PROVE TypeOK'
<1>1. CASE FrameAlloc
  BY <1>1, TypeAllocInternal DEF FrameAlloc, Return, TypeOK
<1>2. CASE FrameAllocZero
  BY <1>2, TypeAllocInternal DEF FrameAllocZero, Return, TypeOK, Word
<1>3. CASE AllocPanic
  BY <1>3 DEF AllocPanic, TypeOK
<1>4. ASSUME NEW f \in owned, FrameDealloc(f) PROVE TypeOK'
  BY <1>4 DEF FrameDealloc, TypeOK, Word
<1>5. ASSUME NEW f \in owned, NEW w \in Word, ClientWrite(f, w) PROVE TypeOK'
  BY <1>5 DEF ClientWrite, TypeOK
<1>6. CASE UNCHANGED vars
  BY <1>6 DEF vars, TypeOK
<1> QED
  BY <1>1, <1>2, <1>3, <1>4, <1>5, <1>6 DEF Next

(* The pointers and links of the allocator stay inside its range.          *)
THEOREM TypeCorrect == ASSUME RegionOK PROVE Spec => []TypeOK
<1>1. Init => TypeOK
  BY TypeInit
<1>2. TypeOK /\ [Next]_vars => TypeOK'
  BY TypeNext
<1> QED
  BY <1>1, <1>2, PTL DEF Spec

----------------------------------------------------------------------------
(* The free list.                                                          *)

IInv == TypeOK /\ FreelistComplete

(* A list of frames without repetition is no longer than the range.        *)
LEMMA ChainBound ==
  ASSUME NEW n \in Nat, NEW s \in [1 .. n -> Frames],
         \A i, j \in 1 .. n : s[i] = s[j] => i = j
  PROVE  n \in 0 .. Cardinality(Frames)
<1>1. s \in Injection(1 .. n, Frames)
  BY DEF Injection, IsInjective
<1>2. Cardinality(1 .. n) <= Cardinality(Frames)
  BY <1>1, FramesFinite, FS_Injection
<1>3. Cardinality(1 .. n) = n
  BY FS_Interval
<1> QED
  BY <1>2, <1>3, FramesFinite

(* An allocation served from the free list takes its first element off.    *)
LEMMA PopChain ==
  ASSUME IInv,
         freelist # NULL,
         freelist' = memory[freelist],
         freemem_start' = freemem_start,
         owned' = owned \cup {freelist},
         memory' \in [Frames -> Word],
         \A g \in Frames \ {freelist} : memory'[g] = memory[g]
  PROVE  FreelistComplete' /\ freelist \notin owned
<1>1. PICK n \in 0 .. Cardinality(Frames) : \E s \in [1 .. n -> Frames] : IsFreeChain(n, s)
  BY DEF IInv, FreelistComplete
<1>2. PICK s \in [1 .. n -> Frames] : IsFreeChain(n, s)
  BY <1>1
<1>3. n \in 1 .. Cardinality(Frames) /\ freelist = s[1] /\ freelist \in Reclaimed
  BY <1>2, FramesFinite DEF IsFreeChain
<1> DEFINE t == [i \in 1 .. (n - 1) |-> s[i + 1]]
<1>4. n - 1 \in 0 .. Cardinality(Frames) /\ t \in [1 .. (n - 1) -> Frames]
  BY <1>3, FramesFinite
<1>5. Reclaimed' = Reclaimed \ {freelist} /\ Untouched' = Untouched
  BY <1>3 DEF Reclaimed, Untouched
<1>6. (owned \cap Untouched)' = {}
  BY <1>3, <1>5 DEF IInv, FreelistComplete, Reclaimed
<1>7. IsFreeChain(n - 1, t)'
  <2>1. freelist' = IF n - 1 = 0 THEN NULL ELSE t[1]
    BY <1>2, <1>3, FramesFinite DEF IsFreeChain
  <2>2. ASSUME NEW i \in 1 .. (n - 1)
        PROVE  memory'[t[i]] = IF i = n - 1 THEN NULL ELSE t[i + 1]
    <3>1. i + 1 \in 1 .. n /\ 1 \in 1 .. n /\ i + 1 # 1 /\ t[i] = s[i + 1]
      BY <1>3, FramesFinite
    <3>2. s[i + 1] \in Frames \ {freelist}
      BY <3>1, <1>2, <1>3 DEF IsFreeChain
    <3>3. memory'[t[i]] = memory[s[i + 1]]
      BY <3>1, <3>2
    <3>4. memory[s[i + 1]] = IF i + 1 = n THEN NULL ELSE s[i + 2]
      BY <3>1, <1>2 DEF IsFreeChain
    <3> QED
      BY <3>3, <3>4, <1>3, FramesFinite
  <2>3. \A i, j \in 1 .. (n - 1) : t[i] = t[j] => i = j
    BY <1>2, <1>3, FramesFinite DEF IsFreeChain
  <2>4. ASSUME NEW i \in 1 .. (n - 1) PROVE t[i] \in Reclaimed'
    BY <1>2, <1>3, <1>5, FramesFinite DEF IsFreeChain
  <2>5. ASSUME NEW f \in Reclaimed' PROVE \E i \in 1 .. (n - 1) : t[i] = f
    <3>1. PICK j \in 1 .. n : s[j] = f
      BY <1>2, <1>5 DEF IsFreeChain
    <3>2. j - 1 \in 1 .. (n - 1) /\ t[j - 1] = f
      BY <3>1, <1>3, <1>5, FramesFinite
    <3> QED
      BY <3>2
  <2> QED
    BY <2>1, <2>2, <2>3, <2>4, <2>5 DEF IsFreeChain
<1>8. Cardinality(Frames)' = Cardinality(Frames)
  OBVIOUS
<1> QED
  BY <1>3, <1>4, <1>6, <1>7, <1>8 DEF FreelistComplete, Reclaimed

(* Steps that leave the frames of the free list and their words alone keep *)
(* the list as it is.                                                      *)
LEMMA SameChain ==
  ASSUME IInv,
         freelist' = freelist,
         Reclaimed' = Reclaimed,
         (owned \cap Untouched)' = {},
         \A g \in Reclaimed : memory'[g] = memory[g]
  PROVE  FreelistComplete'
<1>1. PICK n \in 0 .. Cardinality(Frames) : \E s \in [1 .. n -> Frames] : IsFreeChain(n, s)
  BY DEF IInv, FreelistComplete
<1>2. PICK s \in [1 .. n -> Frames] : IsFreeChain(n, s)
  BY <1>1
<1>3. IsFreeChain(n, s)'
  BY <1>2 DEF IsFreeChain
<1> QED
  BY <1>3 DEF FreelistComplete

(* A deallocation puts the frame in front of the list.                     *)
LEMMA PushChain ==
  ASSUME IInv, NEW f \in owned, FrameDealloc(f)
  PROVE  FreelistComplete'
<1>1. PICK n \in 0 .. Cardinality(Frames) : \E s \in [1 .. n -> Frames] : IsFreeChain(n, s)
  BY DEF IInv, FreelistComplete
<1>2. PICK s \in [1 .. n -> Frames] : IsFreeChain(n, s)
  BY <1>1
<1>3. n \in Nat /\ f \in Frames /\ f \notin Reclaimed /\ f \notin Untouched
  BY FramesFinite DEF IInv, TypeOK, FreelistComplete, Reclaimed
<1>4. Reclaimed' = Reclaimed \cup {f} /\ Untouched' = Untouched
  BY <1>3 DEF FrameDealloc, Reclaimed, Untouched
<1> DEFINE t == [i \in 1 .. (n + 1) |-> IF i = 1 THEN f ELSE s[i - 1]]
<1>5. t \in [1 .. (n + 1) -> Frames]
  BY <1>3
<1>6. \A i \in 1 .. n : s[i] \in Reclaimed /\ s[i] \in Frames /\ s[i] # f
  BY <1>2, <1>3 DEF IsFreeChain
<1>7. \A i, j \in 1 .. (n + 1) : t[i] = t[j] => i = j
  BY <1>2, <1>3, <1>6 DEF IsFreeChain
<1>8. n + 1 \in 0 .. Cardinality(Frames)
  <2>1. n + 1 \in Nat
    BY <1>3
  <2> HIDE DEF t
  <2> QED
    BY <2>1, <1>5, <1>7, ChainBound
<1>9. IsFreeChain(n + 1, t)'
  <2>1. freelist' = IF n + 1 = 0 THEN NULL ELSE t[1]
    BY <1>3 DEF FrameDealloc
  <2>2. ASSUME NEW i \in 1 .. (n + 1)
        PROVE  memory'[t[i]] = IF i = n + 1 THEN NULL ELSE t[i + 1]
    <3>1. CASE i = 1
      <4>1. memory'[t[i]] = freelist
        BY <3>1, <1>3 DEF FrameDealloc, IInv, TypeOK
      <4>2. n # 0 => 2 \in 1 .. (n + 1) /\ t[2] = s[1]
        BY <1>3
      <4> QED
        BY <3>1, <4>1, <4>2, <1>2, <1>3 DEF IsFreeChain
    <3>2. CASE i # 1
      <4>1. i - 1 \in 1 .. n /\ t[i] = s[i - 1]
        BY <3>2, <1>3
      <4>2. memory'[t[i]] = memory[s[i - 1]]
        BY <4>1, <1>6 DEF FrameDealloc, IInv, TypeOK
      <4>3. memory[s[i - 1]] = IF i - 1 = n THEN NULL ELSE s[(i - 1) + 1]
        BY <4>1, <1>2 DEF IsFreeChain
      <4>4. i # n + 1 => i + 1 \in 1 .. (n + 1) /\ t[i + 1] = s[(i - 1) + 1]
        BY <3>2, <1>3
      <4> QED
        BY <4>2, <4>3, <4>4, <1>3
    <3> QED
      BY <3>1, <3>2
  <2>3. \A i \in 1 .. (n + 1) : t[i] \in Reclaimed'
    BY <1>3, <1>4, <1>6
  <2>4. ASSUME NEW g \in Reclaimed' PROVE \E i \in 1 .. (n + 1) : t[i] = g
    <3>1. CASE g = f
      BY <3>1, <1>3
    <3>2. CASE g # f
      <4>1. PICK j \in 1 .. n : s[j] = g
        BY <3>2, <1>2, <1>4 DEF IsFreeChain
      <4>2. j + 1 \in 1 .. (n + 1) /\ t[j + 1] = g
        BY <4>1, <1>3
      <4> QED
        BY <4>2
    <3> QED
      BY <3>1, <3>2
  <2> QED
    BY <2>1, <2>2, <2>3, <2>4, <1>7 DEF IsFreeChain
<1>10. (owned \cap Untouched)' = {}
  BY <1>4 DEF IInv, FreelistComplete, FrameDealloc
<1>11. Cardinality(Frames)' = Cardinality(Frames)
  OBVIOUS
<1> QED
  BY <1>5, <1>8, <1>9, <1>10, <1>11 DEF FreelistComplete

(* What an allocation does, however it is served: the frame was free, and  *)
(* the free list is complete again afterwards.                             *)
LEMMA AllocStep ==
  ASSUME RegionOK, IInv, NEW f, AllocInternal(f), Return(f),
         memory' \in [Frames -> Word],
         \A g \in Frames \ {f} : memory'[g] = memory[g]
  PROVE  /\ f \in Frames \ owned
         /\ owned' = owned \cup {f} /\ beat' = ~beat /\ panicked' = panicked
         /\ FreelistComplete'
<1>1. f \in Frames
  BY TypeAllocInternal DEF IInv
<1>2. owned' = owned \cup {f} /\ beat' = ~beat /\ panicked' = panicked
  BY <1>1, FramesLinear DEF Return
<1>3. CASE freelist # NULL
  <2>1. freelist' = memory[freelist] /\ freemem_start' = freemem_start /\ f = freelist
    BY <1>3 DEF AllocInternal
  <2> QED
    BY <1>1, <1>2, <1>3, <2>1, PopChain
<1>4. CASE freelist = NULL
  <2>1. /\ f = freemem_start /\ freemem_start' = freemem_start + 1
        /\ freelist' = freelist /\ freemem_start # EndFrame
    BY <1>4 DEF AllocInternal
  <2>2. f \in Untouched /\ Untouched' = Untouched \ {f}
    BY <2>1, FramesFinite DEF Untouched, IInv, TypeOK
  <2>3. f \notin owned /\ (owned \cap Untouched)' = {}
    BY <1>2, <2>2 DEF IInv, FreelistComplete
  <2>4. Reclaimed' = Reclaimed
    BY <1>2, <2>2 DEF Reclaimed
  <2>5. \A g \in Reclaimed : memory'[g] = memory[g]
    BY <2>2 DEF Reclaimed
  <2> QED
    BY <1>1, <1>2, <2>1, <2>3, <2>4, <2>5, SameChain
<1> QED
  BY <1>3, <1>4

(* The frame cleared by frame_alloc_zero is the one that is handed out.    *)
LEMMA FrameAllocIsAllocStep ==
  ASSUME RegionOK, IInv, FrameAlloc \/ FrameAllocZero
  PROVE  /\ FreelistComplete'
         /\ \E f \in Frames \ owned :
              /\ owned' = owned \cup {f} /\ beat' = ~beat /\ panicked' = panicked
              /\ \A g \in Frames \ {f} : memory'[g] = memory[g]
<1>1. memory \in [Frames -> Word]
  BY DEF IInv, TypeOK
<1>2. CASE FrameAlloc
  <2>1. PICK f : AllocInternal(f) /\ Return(f)
    BY <1>2 DEF FrameAlloc
  <2>2. memory' = memory
    BY <1>2 DEF FrameAlloc
  <2> QED
    BY <1>1, <2>1, <2>2, AllocStep
<1>3. CASE FrameAllocZero
  <2>1. PICK f : AllocInternal(f) /\ Return(f) /\ memory' = [memory EXCEPT ![f] = NULL]
    BY <1>3 DEF FrameAllocZero
  <2>2. memory' \in [Frames -> Word] /\ \A g \in Frames \ {f} : memory'[g] = memory[g]
    BY <1>1, <2>1 DEF Word
  <2> QED
    BY <2>1, <2>2, AllocStep
<1> QED
  BY <1>2, <1>3

(* Initially the free list is empty and every frame is untouched.          *)
LEMMA ChainInit == ASSUME RegionOK, Init PROVE FreelistComplete
<1>1. Reclaimed = {} /\ owned \cap Untouched = {}
  BY FramesFinite DEF Init, Reclaimed, Untouched, Frames
<1>2. 0 \in 0 .. Cardinality(Frames) /\ << >> \in [1 .. 0 -> Frames]
  BY FramesFinite
<1>3. IsFreeChain(0, << >>)
  BY <1>1 DEF Init, IsFreeChain
<1> QED
  BY <1>1, <1>2, <1>3 DEF FreelistComplete

LEMMA ChainNext == ASSUME RegionOK, IInv, [Next]_vars PROVE FreelistComplete'
<1>1. CASE FrameAlloc
  BY <1>1, FrameAllocIsAllocStep
<1>2. CASE FrameAllocZero
  BY <1>2, FrameAllocIsAllocStep
<1>3. CASE AllocPanic
  <2>1. /\ freelist' = freelist /\ memory' = memory
        /\ owned' = owned /\ freemem_start' = freemem_start
    BY <1>3 DEF AllocPanic
  <2>2. Reclaimed' = Reclaimed /\ (owned \cap Untouched)' = {}
    BY <2>1 DEF Reclaimed, Untouched, IInv, FreelistComplete
  <2> QED
    BY <2>1, <2>2, SameChain
<1>4. ASSUME NEW f \in owned, FrameDealloc(f) PROVE FreelistComplete'
  BY <1>4, PushChain
<1>5. ASSUME NEW f \in owned, NEW w \in Word, ClientWrite(f, w) PROVE FreelistComplete'
  <2>1. Reclaimed' = Reclaimed /\ (owned \cap Untouched)' = {} /\ freelist' = freelist
    BY <1>5 DEF ClientWrite, Reclaimed, Untouched, IInv, FreelistComplete
  <2>2. \A g \in Reclaimed : memory'[g] = memory[g]
    BY <1>5 DEF ClientWrite, Reclaimed, IInv, TypeOK
  <2> QED
    BY <2>1, <2>2, SameChain
<1>6. CASE UNCHANGED vars
  <2>1. Reclaimed' = Reclaimed /\ (owned \cap Untouched)' = {}
    BY <1>6 DEF vars, Reclaimed, Untouched, IInv, FreelistComplete
  <2> QED
    BY <1>6, <2>1, SameChain DEF vars
<1> QED
  BY <1>1, <1>2, <1>3, <1>4, <1>5, <1>6 DEF Next

LEMMA Inductive == ASSUME RegionOK PROVE Spec => []IInv
<1>1. Init => IInv
  BY TypeInit, ChainInit DEF IInv
<1>2. IInv /\ [Next]_vars => IInv'
  BY TypeNext, ChainNext DEF IInv
<1> QED
  BY <1>1, <1>2, PTL DEF Spec

(* No frame is lost and none is listed twice, for every range and every    *)
(* history of allocations, deallocations and writes of the clients.        *)
THEOREM FreelistAlwaysComplete == ASSUME RegionOK PROVE Spec => []FreelistComplete
<1>1. IInv => FreelistComplete
  BY DEF IInv
<1> QED
  BY <1>1, Inductive, PTL

----------------------------------------------------------------------------
(* Refinement and isolation.                                               *)

(* With no frame left to hand out, the clients hold every frame.           *)
LEMMA PanicMeansExhausted ==
  ASSUME RegionOK, IInv, OutOfFrames
  PROVE  owned = Frames
<1>1. Untouched = {}
  BY FramesFinite DEF OutOfFrames, Untouched
<1>2. Reclaimed = {}
  <2>1. PICK n \in 0 .. Cardinality(Frames) : \E s \in [1 .. n -> Frames] : IsFreeChain(n, s)
    BY DEF IInv, FreelistComplete
  <2>2. PICK s \in [1 .. n -> Frames] : IsFreeChain(n, s)
    BY <2>1
  <2>3. n # 0 => s[1] = NULL /\ s[1] \in Frames
    BY <2>2, FramesFinite DEF OutOfFrames, IsFreeChain
  <2>4. n = 0
    BY <2>3, FramesLinear
  <2> QED
    BY <2>2, <2>4 DEF IsFreeChain
<1> QED
  BY <1>1, <1>2 DEF Reclaimed, IInv, TypeOK

(* The free list and the bump pointer implement the pool of frames: every  *)
(* step hands out a frame nobody held, takes one back, panics with every   *)
(* frame held, or is invisible to the pool.                                *)
THEOREM ImplementsPool == ASSUME RegionOK PROVE Spec => PoolSpec
<1>1. Init => Pool!Init
  BY DEF Init, Pool!Init
<1>2. IInv /\ [Next]_vars => [Pool!Next]_<<owned, beat, panicked>>
  <2> SUFFICES ASSUME IInv, [Next]_vars PROVE [Pool!Next]_<<owned, beat, panicked>>
    OBVIOUS
  <2>1. ASSUME FrameAlloc \/ FrameAllocZero PROVE Pool!Next
    <3>1. PICK f \in Frames \ owned : owned' = owned \cup {f} /\ beat' = ~beat /\ panicked' = panicked
      BY <2>1, FrameAllocIsAllocStep
    <3>2. ~panicked
      BY <2>1 DEF FrameAlloc, FrameAllocZero
    <3> QED
      BY <3>1, <3>2 DEF Pool!Next, Pool!Alloc
  <2>2. CASE AllocPanic
    BY <2>2, PanicMeansExhausted DEF AllocPanic, Pool!Next, Pool!Exhausted
  <2>3. ASSUME NEW f \in owned, FrameDealloc(f) PROVE Pool!Next
    <3>1. f \in Frames
      BY DEF IInv, TypeOK
    <3> QED
      BY <2>3, <3>1 DEF FrameDealloc, Pool!Next, Pool!Release
  <2>4. ASSUME NEW f \in owned, NEW w \in Word, ClientWrite(f, w)
        PROVE  UNCHANGED <<owned, beat, panicked>>
    BY <2>4 DEF ClientWrite
  <2>5. CASE UNCHANGED vars
    BY <2>5 DEF vars
  <2> QED
    BY <2>1, <2>2, <2>3, <2>4, <2>5 DEF Next
<1> QED
  BY <1>1, <1>2, Inductive, PTL DEF Spec, PoolSpec, Pool!Spec

(* The allocator never writes in a frame a client keeps.                   *)
THEOREM ClientsKeepTheirMemory == ASSUME RegionOK PROVE Spec => OwnedMemoryStable
<1>1. IInv /\ [Next]_vars
        => [ClientStep \/ \A f \in owned \cap owned' : memory'[f] = memory[f]]_vars
  <2> SUFFICES ASSUME IInv, [Next]_vars
               PROVE  \/ ClientStep
                      \/ \A f \in owned \cap owned' : memory'[f] = memory[f]
    OBVIOUS
  <2>1. ASSUME FrameAlloc \/ FrameAllocZero
        PROVE  \A f \in owned \cap owned' : memory'[f] = memory[f]
    BY <2>1, FrameAllocIsAllocStep DEF IInv, TypeOK
  <2>2. CASE AllocPanic
    BY <2>2 DEF AllocPanic
  <2>3. ASSUME NEW g \in owned, FrameDealloc(g)
        PROVE  \A f \in owned \cap owned' : memory'[f] = memory[f]
    BY <2>3 DEF FrameDealloc, IInv, TypeOK
  <2>4. ASSUME NEW f \in owned, NEW w \in Word, ClientWrite(f, w) PROVE ClientStep
    BY <2>4 DEF ClientStep
  <2>5. CASE UNCHANGED vars
    BY <2>5 DEF vars
  <2> QED
    BY <2>1, <2>2, <2>3, <2>4, <2>5 DEF Next
<1> QED
  BY <1>1, Inductive, PTL DEF Spec, OwnedMemoryStable
=============================================================================
