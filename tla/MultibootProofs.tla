-------------------------- MODULE MultibootProofs --------------------------
(***************************************************************************)
(* Proofs about the scan of the memory map, for every map and every size   *)
(* of the kernel.  The inductive invariant is IInv: the types, the loop    *)
(* invariant LongestSoFar, and where the range came from (RangeFound).     *)
(***************************************************************************)
EXTENDS Multiboot, TLAPS

(* The range is the part of the entry found that the kernel leaves free.   *)
RangeFound ==
  pc = "done" =>
    /\ biggest # 0
    /\ fm_start >= FREEMEMORY_START
    /\ fm_start >= mmap[biggest].base_addr
    /\ fm_end = mmap[biggest].base_addr + mmap[biggest].length

IInv == TypeOK /\ LongestSoFar /\ RangeFound

(* The fields of an entry are natural numbers.                             *)
LEMMA EntryTypes ==
  ASSUME TypeOK
  PROVE  /\ Len(mmap) \in Nat
         /\ \A e \in 1 .. Len(mmap) :
              mmap[e].base_addr \in Nat /\ mmap[e].length \in Nat /\ mmap[e].type \in Nat
<1>1. mmap \in Seq(Entry)
  BY MapsAssumption DEF TypeOK
<1>2. Len(mmap) \in Nat /\ \A e \in 1 .. Len(mmap) : mmap[e] \in Entry
  BY <1>1
<1>3. \A x \in Entry : x.base_addr \in Nat /\ x.length \in Nat /\ x.type \in Nat
  BY DEF Entry
<1> QED
  BY <1>2, <1>3

LEMMA InitIInv == ASSUME Init PROVE IInv
<1>1. mmap \in Seq(Entry)
  BY MapsAssumption DEF Init
<1>2. TypeOK
  BY <1>1 DEF Init, TypeOK
<1>3. LongestSoFar /\ RangeFound
  BY DEF Init, LongestSoFar, RangeFound
<1> QED
  BY <1>2, <1>3 DEF IInv

LEMMA ScanIInv == ASSUME IInv, ScanEntry PROVE IInv'
<1>1. /\ next \in 1 .. Len(mmap) /\ biggest \in 0 .. next - 1
      /\ next' = next + 1 /\ mmap' = mmap /\ pc' = pc /\ pc = "scan"
  BY EntryTypes DEF IInv, TypeOK, ScanEntry
<1>2. TypeOK'
  BY <1>1, EntryTypes DEF IInv, TypeOK, ScanEntry
<1>3. RangeFound'
  BY <1>1 DEF RangeFound
<1>4. LongestSoFar'
  <2>1. CASE Preferred(next)
    <3>1. biggest' = next /\ Usable(next)
      BY <2>1 DEF ScanEntry, Preferred, Usable
    <3>2. ASSUME NEW e \in 1 .. next' - 1, Usable(e)
          PROVE  mmap[e].length <= mmap[next].length /\ (e < next => mmap[e].length < mmap[next].length)
      <4>1. CASE e = next
        BY <4>1, <1>1, EntryTypes DEF IInv
      <4>2. CASE e # next
        <5>1. e \in 1 .. next - 1 /\ e \in 1 .. Len(mmap)
          BY <4>2, <1>1, EntryTypes DEF IInv
        <5>2. biggest # 0 /\ mmap[e].length <= mmap[biggest].length
          BY <5>1, <3>2 DEF IInv, LongestSoFar
        <5>3. mmap[biggest].length < mmap[next].length
          BY <2>1, <5>2, <1>1, EntryTypes DEF Preferred, IInv
        <5>4. biggest \in 1 .. Len(mmap)
          BY <5>2, <1>1, EntryTypes DEF IInv
        <5> QED
          BY <5>1, <5>2, <5>3, <5>4, <1>1, EntryTypes DEF IInv
      <4> QED
        BY <4>1, <4>2
    <3> QED
      BY <3>1, <3>2, <1>1 DEF LongestSoFar, Usable
  <2>2. CASE ~Preferred(next)
    <3>1. biggest' = biggest
      BY <2>2 DEF ScanEntry
    <3>2. ASSUME NEW e \in 1 .. next' - 1, Usable(e)
          PROVE  /\ biggest # 0
                 /\ mmap[e].length <= mmap[biggest].length
                 /\ e < biggest => mmap[e].length < mmap[biggest].length
      <4>1. CASE e = next
        <5>1. biggest # 0 /\ ~(mmap[e].length > mmap[biggest].length)
          BY <4>1, <2>2, <3>2 DEF Preferred, Usable
        <5>2. biggest \in 1 .. Len(mmap)
          BY <5>1, <1>1, EntryTypes DEF IInv
        <5> QED
          BY <5>1, <5>2, <4>1, <1>1, EntryTypes DEF IInv
      <4>2. CASE e # next
        <5>1. e \in 1 .. next - 1
          BY <4>2, <1>1, EntryTypes DEF IInv
        <5> QED
          BY <5>1, <3>2 DEF IInv, LongestSoFar
      <4> QED
        BY <4>1, <4>2
    <3>3. biggest # 0 => Usable(biggest)
      BY DEF IInv, LongestSoFar
    <3> QED
      BY <3>1, <3>2, <3>3, <1>1 DEF LongestSoFar, Usable
  <2> QED
    BY <2>1, <2>2
<1> QED
  BY <1>2, <1>3, <1>4 DEF IInv

LEMMA SetupIInv == ASSUME IInv, Setup PROVE IInv'
<1>1. /\ biggest \in 1 .. Len(mmap) /\ next = Len(mmap) + 1
      /\ UNCHANGED <<mmap, next, biggest>> /\ pc' = "done"
  BY EntryTypes DEF IInv, TypeOK, Setup
<1>2. /\ mmap[biggest].base_addr \in Nat /\ mmap[biggest].length \in Nat
      /\ FREEMEMORY_START \in Nat
  BY <1>1, EntryTypes, StartAssumption DEF IInv
<1>3. /\ fm_start' \in Nat /\ fm_end' \in Nat
      /\ fm_start' >= FREEMEMORY_START /\ fm_start' >= mmap[biggest].base_addr
      /\ fm_end' = mmap[biggest].base_addr + mmap[biggest].length
  BY <1>2 DEF Setup
<1>4. TypeOK'
  BY <1>1, <1>3 DEF IInv, TypeOK
<1>5. LongestSoFar'
  BY <1>1, EntryTypes DEF IInv, LongestSoFar, Usable
<1>6. RangeFound'
  BY <1>1, <1>3 DEF RangeFound
<1> QED
  BY <1>4, <1>5, <1>6 DEF IInv

LEMMA FaultIInv == ASSUME IInv, SetupWithoutMemory PROVE IInv'
<1>1. /\ biggest = 0 /\ next = Len(mmap) + 1 /\ pc' = "fault"
      /\ UNCHANGED <<mmap, next, biggest, fm_start, fm_end>>
  BY EntryTypes DEF IInv, TypeOK, SetupWithoutMemory
<1>2. TypeOK'
  BY <1>1 DEF IInv, TypeOK
<1>3. LongestSoFar'
  BY <1>1 DEF IInv, LongestSoFar, Usable
<1>4. RangeFound'
  BY <1>1 DEF RangeFound
<1> QED
  BY <1>2, <1>3, <1>4 DEF IInv

LEMMA Inductive == Spec => []IInv
<1>1. IInv /\ UNCHANGED vars => IInv'
  BY DEF IInv, TypeOK, LongestSoFar, RangeFound, Usable, vars
<1>2. IInv /\ [Next]_vars => IInv'
  BY <1>1, ScanIInv, SetupIInv, FaultIInv DEF Next
<1> QED
  BY <1>2, InitIInv, PTL DEF Spec

(* The scan stays inside the map.                                          *)
THEOREM TypeCorrect == Spec => []TypeOK
<1>1. IInv => TypeOK
  BY DEF IInv
<1> QED
  BY <1>1, Inductive, PTL

(* The region chosen is the first of the longest usable ones, of any map.  *)
THEOREM ChoosesLongest == Spec => []LongestSoFar
<1>1. IInv => LongestSoFar
  BY DEF IInv
<1> QED
  BY <1>1, Inductive, PTL

(* Every frame the allocator gets is usable memory outside the kernel, for *)
(* every memory map and every end of the kernel image.                     *)
THEOREM OnlyFreeFrames == Spec => []FramesAreFree
<1>1. IInv => FramesAreFree
  <2> SUFFICES ASSUME IInv, pc = "done", NEW f \in HandedOver
               PROVE  /\ f * FRAME_SIZE >= FREEMEMORY_START
                      /\ \E e \in 1 .. Len(mmap) :
                           /\ Usable(e)
                           /\ Inside(f, mmap[e].base_addr, mmap[e].base_addr + mmap[e].length)
    BY DEF FramesAreFree
  <2>1. /\ biggest \in 1 .. Len(mmap) /\ Usable(biggest)
        /\ fm_start >= FREEMEMORY_START /\ fm_start >= mmap[biggest].base_addr
        /\ fm_end = mmap[biggest].base_addr + mmap[biggest].length
    BY EntryTypes DEF IInv, TypeOK, LongestSoFar, RangeFound
  <2>2. /\ fm_start \in Nat /\ fm_end \in Nat /\ FREEMEMORY_START \in Nat
        /\ mmap[biggest].base_addr \in Nat
    BY <2>1, EntryTypes, StartAssumption DEF IInv, TypeOK
  <2>3. fm_start <= f * FRAME_SIZE /\ (f + 1) * FRAME_SIZE <= fm_end
    BY <2>2 DEF HandedOver, FRAME_SIZE
  <2>4. Inside(f, mmap[biggest].base_addr, mmap[biggest].base_addr + mmap[biggest].length)
    BY <2>1, <2>2, <2>3 DEF Inside, FRAME_SIZE, HandedOver
  <2>5. f * FRAME_SIZE >= FREEMEMORY_START
    BY <2>1, <2>2, <2>3 DEF FRAME_SIZE, HandedOver
  <2> QED
    BY <2>1, <2>4, <2>5
<1> QED
  BY <1>1, Inductive, PTL
=============================================================================
