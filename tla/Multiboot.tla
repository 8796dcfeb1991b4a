----------------------------- MODULE Multiboot -----------------------------
(***************************************************************************)
(* setup_frame_allocator of arch/x86_64/multiboot.c: the scan of the boot  *)
(* loader's memory map for the region the frame allocator is given.        *)
(*                                                                         *)
(* The map is a sequence of its entries; stepping by entry->size from one  *)
(* to the next is taking the next element.  No sum of an entry's base and  *)
(* length reaches 2^64.                                                    *)
(***************************************************************************)
EXTENDS Integers, Sequences

CONSTANTS
  Maps,               \* the memory maps the boot loader may pass
  FREEMEMORY_START    \* end of the kernel image, from linker.ld

Entry == [base_addr : Nat, length : Nat, type : Nat]

ASSUME MapsAssumption == Maps \subseteq Seq(Entry)
ASSUME StartAssumption == FREEMEMORY_START \in Nat

VARIABLES
  mmap,               \* the map in use
  next,               \* position of mmap_startb in the map
  biggest,            \* position of mmap_biggest_map, 0 for NULL
  pc,                 \* "scan", "done", or "fault"
  fm_start, fm_end    \* the arguments of init_frame_allocator

vars == <<mmap, next, biggest, pc, fm_start, fm_end>>

FRAME_SIZE == 4096
Available == 1        \* entry->type of memory that may be used

Init ==
  /\ mmap \in Maps
  /\ next = 1 /\ biggest = 0
  /\ pc = "scan"
  /\ fm_start = 0 /\ fm_end = 0

\* Mutant: an entry that may not be used is taken when it is the first.
PreferredAnyType(e) ==
  \/ biggest = 0
  \/ mmap[e].type = Available /\ mmap[e].length > mmap[biggest].length

\* Mutant: the entries are compared by their address.
PreferredHighest(e) ==
  /\ mmap[e].type = Available
  /\ biggest = 0 \/ mmap[e].base_addr > mmap[biggest].base_addr

(* Entry e replaces the one remembered.                                    *)
Preferred(e) ==
  /\ mmap[e].type = Available
  /\ biggest = 0 \/ mmap[e].length > mmap[biggest].length

\* Mutant: the entry after the one that was compared is remembered.
ScanEntryAdvancesFirst ==
  /\ pc = "scan" /\ next <= Len(mmap)
  /\ biggest' = IF Preferred(next) THEN next + 1 ELSE biggest
  /\ next' = next + 1
  /\ UNCHANGED <<mmap, pc, fm_start, fm_end>>

(* One turn of the loop over the entries.                                  *)
ScanEntry ==
  /\ pc = "scan" /\ next <= Len(mmap)
  /\ biggest' = IF Preferred(next) THEN next ELSE biggest
  /\ next' = next + 1
  /\ UNCHANGED <<mmap, pc, fm_start, fm_end>>

\* Mutant: the kernel image is not spared.
SetupOverKernel ==
  /\ pc = "scan" /\ next > Len(mmap)
  /\ biggest # 0
  /\ fm_start' = mmap[biggest].base_addr
  /\ fm_end' = mmap[biggest].base_addr + mmap[biggest].length
  /\ pc' = "done"
  /\ UNCHANGED <<mmap, next, biggest>>

(* After the loop: the region found, without the kernel's own memory.      *)
Setup ==
  /\ pc = "scan" /\ next > Len(mmap)
  /\ biggest # 0
  /\ fm_start' = IF mmap[biggest].base_addr > FREEMEMORY_START
                 THEN mmap[biggest].base_addr ELSE FREEMEMORY_START
  /\ fm_end' = mmap[biggest].base_addr + mmap[biggest].length
  /\ pc' = "done"
  /\ UNCHANGED <<mmap, next, biggest>>

(* With nothing found mmap_biggest_map->base_addr is read through NULL,    *)
(* which createKernelAddressSpace left unmapped; no fault handler is       *)
(* installed that early, and the machine resets.                           *)
SetupWithoutMemory ==
  /\ pc = "scan" /\ next > Len(mmap)
  /\ biggest = 0
  /\ pc' = "fault"
  /\ UNCHANGED <<mmap, next, biggest, fm_start, fm_end>>

Next == ScanEntry \/ Setup \/ SetupWithoutMemory

Spec == Init /\ [][Next]_vars

----------------------------------------------------------------------------
(* Properties.                                                             *)

TypeOK ==
  /\ mmap \in Maps
  /\ next \in 1 .. Len(mmap) + 1
  /\ biggest \in 0 .. next - 1
  /\ pc \in {"scan", "done", "fault"}
  /\ fm_start \in Nat /\ fm_end \in Nat

Usable(e) == mmap[e].type = Available

(***************************************************************************)
(* mmap_biggest_map is the first of the longest usable entries seen so     *)
(* far, in whatever order the firmware lists them, and NULL only if none   *)
(* was usable: the machine resets only when it has no memory to use.       *)
(***************************************************************************)
LongestSoFar ==
  /\ pc # "scan" => next = Len(mmap) + 1
  /\ biggest = 0 => \A e \in 1 .. next - 1 : ~Usable(e)
  /\ pc = "fault" => biggest = 0
  /\ biggest # 0 =>
       /\ Usable(biggest)
       /\ \A e \in 1 .. next - 1 : Usable(e) =>
            /\ mmap[e].length <= mmap[biggest].length
            /\ e < biggest => mmap[e].length < mmap[biggest].length

(* Frame f lies wholly inside the byte range from lo to hi.                *)
Inside(f, lo, hi) == lo <= f * FRAME_SIZE /\ (f + 1) * FRAME_SIZE <= hi

(* The frames init_frame_allocator makes of the range.                     *)
HandedOver ==
  ((fm_start + (FRAME_SIZE - 1)) \div FRAME_SIZE) .. (fm_end \div FRAME_SIZE - 1)

(***************************************************************************)
(* The whole frames of the range are memory of one usable entry and no     *)
(* part of the kernel, also where the entry begins inside the image or     *)
(* between two frames.                                                     *)
(***************************************************************************)
FramesAreFree ==
  pc = "done" =>
    \A f \in HandedOver :
      /\ f * FRAME_SIZE >= FREEMEMORY_START
      /\ \E e \in 1 .. Len(mmap) :
           Usable(e) /\ Inside(f, mmap[e].base_addr, mmap[e].base_addr + mmap[e].length)
=============================================================================
