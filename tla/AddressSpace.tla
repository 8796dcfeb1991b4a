---------------------------- MODULE AddressSpace ----------------------------
(***************************************************************************)
(* Page tables and address spaces: src/src/address_space.c over the tables *)
(* that src/src/memory.c builds at boot, with the callers' side of the     *)
(* contract (elf.c, userspace.c, map-dynamic.c).                           *)
(*                                                                         *)
(* A page table is a frame, or one of the four static tables of memory.c,  *)
(* and the variable entries holds what memory contains when it is read as  *)
(* page tables: in a frame that clients or nobody holds, garbage.  Frames  *)
(* come from the pool of FramePool; Candidates says which free frame the   *)
(* allocator may return next.                                              *)
(***************************************************************************)
EXTENDS Integers, Sequences, FiniteSets

CONSTANTS
  Frames,             \* frames of the allocator
  Candidates(_),      \* the free frames it may return
  kernel_pml4, kernel_pagedirtable, kernel_pagedir, kernel_linear,
  RAM,                \* physical memory as the big pages map it
  NULL,               \* address 0
  Index,              \* 0 .. 511, indexes of a table
  UserPages,          \* pages that callers map in a process
  DynamicPages,       \* pages of the range of handle_dynamic_fault
  FixedPages,         \* pages of the kernel image and the linear window
  MaxHeld,            \* bound: frames the clients take before they map one
  MaxSpaces           \* bound: address spaces created

Static == {kernel_pml4, kernel_pagedirtable, kernel_pagedir, kernel_linear}
Tables == Frames \cup Static

LINEAR == 256         \* the two entries init_address_space shares
KERNEL == 511

MapPages == UserPages \cup DynamicPages
Pages    == MapPages \cup FixedPages

ASSUME NodesAssumption ==
  /\ kernel_pml4 # kernel_pagedirtable /\ kernel_pml4 # kernel_pagedir
  /\ kernel_pml4 # kernel_linear /\ kernel_pagedirtable # kernel_pagedir
  /\ kernel_pagedirtable # kernel_linear /\ kernel_pagedir # kernel_linear
  /\ Frames \cap Static = {}
  /\ RAM \notin Tables /\ NULL \notin Tables \cup {RAM}
ASSUME FramesAssumption == IsFiniteSet(Frames)
ASSUME CandidatesAssumption ==
  \A S \in SUBSET Frames : Candidates(S) \subseteq S /\ (S # {} => Candidates(S) # {})
ASSUME PagesAssumption ==
  /\ Index \subseteq 0 .. 511 /\ {0, LINEAR, 510, KERNEL} \subseteq Index
  /\ Pages \subseteq Index \X Index \X Index \X Index
  /\ \A p \in UserPages : p[1] < LINEAR
  /\ \A p \in DynamicPages : p[1] = KERNEL /\ p[2] = 511
  /\ \A p \in FixedPages : p[1] = LINEAR \/ (p[1] = KERNEL /\ p[2] = 510 /\ p[3] < 16)

VARIABLES
  entries,            \* entries[t][i]: memory read as page tables
  free,               \* frames the allocator has
  held,               \* frames a client has, mapped nowhere
  place,              \* the path that leads to each table (no variable of the code)
  panicked            \* panic() was called; the CPU stays in hlt

vars == <<entries, free, held, place, panicked>>

(* An entry, its writable bit left out: it is set in all but kernel text.  *)
Entry(address, present, user, big) ==
  [address |-> address, present |-> present, user |-> user, big |-> big]
Zero          == Entry(NULL, FALSE, FALSE, FALSE)
ZeroTable     == [i \in Index |-> Zero]
Garbage       == [i \in Index |-> Entry(RAM, TRUE, TRUE, FALSE)]
TableEntry(t) == Entry(t, TRUE, TRUE, FALSE)
PageEntry(f, usermode) == Entry(f, TRUE, usermode, FALSE)

(* init_address_space                                                      *)
RootTable ==
  [i \in Index |-> IF i = LINEAR THEN Entry(kernel_linear, TRUE, FALSE, FALSE)
              ELSE IF i = KERNEL THEN TableEntry(kernel_pagedirtable)
              ELSE Zero]

(* createKernelAddressSpace                                                *)
KernelTables ==
  [t \in Tables |->
     IF t = kernel_pml4 THEN RootTable
     ELSE IF t = kernel_pagedirtable THEN [ZeroTable EXCEPT ![510] = TableEntry(kernel_pagedir)]
     ELSE IF t = kernel_pagedir
       THEN [i \in Index |-> IF i < 16 THEN Entry(RAM, TRUE, FALSE, TRUE) ELSE Zero]
     ELSE IF t = kernel_linear THEN [i \in Index |-> Entry(RAM, TRUE, FALSE, TRUE)]
     ELSE Garbage]

(* Entries 256 and 511 of every root lead to the kernel's own tables.      *)
ChildPlace(path, i) ==
  IF Len(path) = 1 /\ i \in {LINEAR, KERNEL} THEN <<kernel_pml4, i>> ELSE Append(path, i)

Init ==
  /\ entries = KernelTables
  /\ free = Frames
  /\ held = {}
  /\ place = [t \in Tables |-> IF t = kernel_pml4 THEN <<kernel_pml4>>
                          ELSE IF t = kernel_pagedirtable THEN <<kernel_pml4, KERNEL>>
                          ELSE IF t = kernel_pagedir THEN <<kernel_pml4, KERNEL, 510>>
                          ELSE IF t = kernel_linear THEN <<kernel_pml4, LINEAR>>
                          ELSE <<>>]
  /\ panicked = FALSE

Roots == {t \in Frames \cup {kernel_pml4} : place[t] = <<t>>}

----------------------------------------------------------------------------
(* resolve_pageentry.  A cursor is a pointer to an entry, together with    *)
(* the memory as the walk has changed it; failed once an allocation        *)
(* panicked.                                                               *)

Start(r, i) ==
  [entries |-> entries, free |-> free, place |-> place,
   table |-> r, index |-> i, failed |-> FALSE]

NewTable(c, f) ==
  [c EXCEPT !.entries = [@ EXCEPT ![f] = ZeroTable, ![c.table][c.index] = TableEntry(f)],
            !.free  = @ \ {f},
            !.place = [@ EXCEPT ![f] = ChildPlace(c.place[c.table], c.index)]]

(* Reading an entry; what is not one of the tables reads as garbage.       *)
Read(memory, t, i) == IF t \in Tables THEN memory[t][i] ELSE Garbage[i]

(* One level: from the entry the cursor is at to entry i of its table.     *)
Follow(c, i) ==
  LET e == Read(c.entries, c.table, c.index) IN
  IF c.failed \/ e.big THEN {c}
  ELSE IF e.present THEN {[c EXCEPT !.table = e.address, !.index = i]}
  ELSE IF c.free = {} THEN {[c EXCEPT !.failed = TRUE]}
  ELSE {[NewTable(c, f) EXCEPT !.table = f, !.index = i] : f \in Candidates(c.free)}

resolve_pageentry(r, p) ==
  UNION {UNION {UNION {Follow(c2, p[4]) :
    c2 \in Follow(c3, p[3])} : c3 \in Follow(c4, p[2])} : c4 \in {Start(r, p[1])}}

(* The cursor's memory becomes the memory, its entry set to e.             *)
Commit(c, e) ==
  /\ entries' = IF c.failed THEN c.entries
                ELSE [c.entries EXCEPT ![c.table][c.index] = e]
  /\ free' = c.free
  /\ place' = c.place
  /\ panicked' = c.failed

(* What the processor makes of address p in the space of root r: the       *)
(* access is a user's when every level allows it.                          *)
Unmapped == [frame |-> NULL, user |-> FALSE]
Mapping(f, user) == [frame |-> f, user |-> user]

Translate(r, p) ==
  LET e4 == Read(entries, r, p[1])
      e3 == Read(entries, e4.address, p[2])
      e2 == Read(entries, e3.address, p[3])
      e1 == Read(entries, e2.address, p[4])
  IN IF ~e4.present THEN Unmapped
     ELSE IF ~e3.present THEN Unmapped
     ELSE IF e3.big THEN Mapping(e3.address, e4.user /\ e3.user)
     ELSE IF ~e2.present THEN Unmapped
     ELSE IF e2.big THEN Mapping(e2.address, e4.user /\ e3.user /\ e2.user)
     ELSE IF ~e1.present THEN Unmapped
     ELSE Mapping(e1.address, e4.user /\ e3.user /\ e2.user /\ e1.user)

----------------------------------------------------------------------------
(* The operations, and what their callers do.                              *)

OutOfFrames ==
  /\ free = {}
  /\ panicked' = TRUE
  /\ UNCHANGED <<entries, free, held, place>>

(* A client takes a frame and stores in it whatever it likes.              *)
FrameAlloc ==
  /\ ~panicked
  /\ Cardinality(held) < MaxHeld
  /\ \/ \E f \in Candidates(free) :
          /\ free' = free \ {f}
          /\ held' = held \cup {f}
          /\ entries' = [entries EXCEPT ![f] = Garbage]
          /\ UNCHANGED <<place, panicked>>
     \/ OutOfFrames

FrameDealloc(f) ==
  /\ ~panicked
  /\ f \in held
  /\ free' = free \cup {f}
  /\ held' = held \ {f}
  /\ UNCHANGED <<entries, place, panicked>>

\* Mutant: init_address_space is not called.
create_address_space_empty ==
  /\ ~panicked
  /\ Cardinality(Roots) <= MaxSpaces
  /\ \/ \E f \in Candidates(free) :
          /\ free' = free \ {f}
          /\ entries' = [entries EXCEPT ![f] = ZeroTable]
          /\ place' = [place EXCEPT ![f] = <<f>>]
          /\ UNCHANGED <<held, panicked>>
     \/ OutOfFrames

create_address_space ==
  /\ ~panicked
  /\ Cardinality(Roots) <= MaxSpaces
  /\ \/ \E f \in Candidates(free) :
          /\ free' = free \ {f}
          /\ entries' = [entries EXCEPT ![f] = RootTable]
          /\ place' = [place EXCEPT ![f] = <<f>>]
          /\ UNCHANGED <<held, panicked>>
     \/ OutOfFrames

(* mmap of a frame the caller holds; whatever was mapped is forgotten.     *)
mmap(r, p, f) ==
  /\ ~panicked
  /\ f \in held
  /\ \E c \in resolve_pageentry(r, p) :
       /\ Commit(c, PageEntry(f, p \in UserPages))
       /\ held' = IF c.failed THEN held ELSE held \ {f}

\* Mutant: the entry is read for the result after it was cleared.
munmapReadsLate(r, p) ==
  /\ ~panicked
  /\ \E c \in resolve_pageentry(r, p) :
       /\ Commit(c, Zero)
       /\ UNCHANGED held

\* Mutant: the entry stays present.
munmapKeepsEntry(r, p) ==
  /\ ~panicked
  /\ \E c \in resolve_pageentry(r, p) :
       LET e == c.entries[c.table][c.index] IN
       /\ Commit(c, e)
       /\ held' = IF c.failed \/ e.address = NULL THEN held ELSE held \cup {e.address}

\* Mutant: the client takes address 0 for a frame.
munmapNothing(r, p) ==
  /\ ~panicked
  /\ \E c \in resolve_pageentry(r, p) :
       /\ Commit(c, Zero)
       /\ held' = IF c.failed THEN held ELSE held \cup {c.entries[c.table][c.index].address}

(* munmap returns the frame to its caller, or 0.                           *)
munmap(r, p) ==
  /\ ~panicked
  /\ \E c \in resolve_pageentry(r, p) :
       LET e == c.entries[c.table][c.index] IN
       /\ Commit(c, Zero)
       /\ held' = IF c.failed \/ e.address = NULL THEN held ELSE held \cup {e.address}

(* The callers map user pages in the space of a process and dynamic pages  *)
(* in the kernel's, here where nothing is mapped yet (see Processes).      *)
MapUnmapped(r, p, f) == Translate(r, p) = Unmapped /\ mmap(r, p, f)

Next ==
  \/ FrameAlloc
  \/ \E f \in held : FrameDealloc(f)
  \/ create_address_space
  \/ \E r \in Roots \ {kernel_pml4}, p \in UserPages : munmap(r, p) \/ \E f \in held : MapUnmapped(r, p, f)
  \/ \E p \in DynamicPages, f \in held : MapUnmapped(kernel_pml4, p, f)

Spec == Init /\ [][Next]_vars

----------------------------------------------------------------------------
(* Properties.                                                             *)

Nodes == Tables \cup {RAM, NULL}

TypeOK ==
  /\ entries \in [Tables -> [Index -> [address : Nodes, present : BOOLEAN,
                                      user : BOOLEAN, big : BOOLEAN]]]
  /\ free \subseteq Frames
  /\ held \subseteq Frames
  /\ DOMAIN place = Tables /\ \A t \in Tables : place[t] \in Seq(Tables \cup Index)
  /\ panicked \in BOOLEAN

InUse == {t \in Tables : place[t] # <<>>}

Parents(f) ==
  {x \in InUse \X Index : LET e == entries[x[1]][x[2]] IN e.present /\ e.address = f}

(***************************************************************************)
(* No frame is lost and none serves twice: each one is free, in a client's *)
(* hands, the root of a space, or entered in exactly one place of exactly  *)
(* one table (resolve_pageentry, mmap, munmap).                            *)
(***************************************************************************)
EveryFrameHasOneUse ==
  \A f \in Frames :
    \/ /\ f \in (free \cup held \cup Roots) /\ Parents(f) = {}
       /\ ~(f \in free /\ f \in held)
       /\ f \in Roots => f \notin (free \cup held)
    \/ /\ f \notin (free \cup held \cup Roots)
       /\ \E x \in Parents(f) : Parents(f) = {x}

(***************************************************************************)
(* What a process can touch is its own: a page of any space that user mode *)
(* reaches translates to a frame that is no page table, that the allocator *)
(* does not have, and that no other page of any space translates to.       *)
(***************************************************************************)
UserIsolation ==
  \A r \in Roots, p \in Pages :
    Translate(r, p).user =>
      LET f == Translate(r, p).frame IN
      /\ f \in Frames \ (free \cup InUse)
      /\ \A s \in Roots, q \in Pages : Translate(s, q).frame = f => s = r /\ q = p

(***************************************************************************)
(* The tables implement the maps of VirtualMemory: whatever tables an      *)
(* operation has to add on its way, it changes the translation of the one  *)
(* page it was asked for, in its one space, or for a kernel page in all.   *)
(***************************************************************************)
Virtual == INSTANCE VirtualMemory WITH
  Names <- Tables,
  KernelSpace <- kernel_pml4,
  KernelView <- [p \in Pages |-> IF p \in FixedPages THEN Mapping(RAM, FALSE) ELSE Unmapped],
  KernelPages <- {p \in Pages : p[1] \in {LINEAR, KERNEL}},
  map <- [r \in Roots |-> [p \in Pages |-> Translate(r, p)]]

VirtualMemorySpec == Virtual!Spec
=============================================================================
