--------------------------- MODULE VirtualMemory ---------------------------
(***************************************************************************)
(* What address spaces mean to the rest of the kernel, without page        *)
(* tables: a set of spaces, each a map from virtual pages to what they     *)
(* translate to.  The pages of the kernel half mean the same in every      *)
(* space; every other mapping belongs to one space alone.                  *)
(***************************************************************************)
CONSTANTS
  Names,              \* what may name an address space
  KernelSpace,        \* the name of the kernel's own space
  KernelView,         \* the translations of the kernel's space at boot
  Pages,              \* virtual pages
  KernelPages,        \* those of the kernel half
  Frames,             \* what a page can be mapped to
  Unmapped            \* the translation of a page without one

VARIABLES
  map,                \* map[s][p]: translation of page p in space s
  panicked            \* the kernel stopped in panic()

Spaces == DOMAIN map

Init ==
  /\ map = [s \in {KernelSpace} |-> KernelView]
  /\ panicked = FALSE

Create(s) ==
  /\ s \notin Spaces
  /\ Spaces' = Spaces \cup {s}
  /\ \A r \in Spaces' , p \in Pages :
       map'[r][p] = IF r \in Spaces THEN map[r][p]
                    ELSE IF p \in KernelPages THEN map[KernelSpace][p]
                    ELSE Unmapped

(* Only page p of space s changes its translation, a kernel page in every  *)
(* space.                                                                  *)
Remap(s, p) ==
  /\ Spaces' = Spaces
  /\ \A r \in Spaces, q \in Pages :
       map'[r][q] = IF q = p /\ (r = s \/ p \in KernelPages) THEN map'[s][p] ELSE map[r][q]

Mmap(s, p) ==
  /\ map[s][p] = Unmapped
  /\ map'[s][p].frame \in Frames
  /\ map'[s][p].user = (p \notin KernelPages)
  /\ Remap(s, p)

Munmap(s, p) ==
  /\ map[s][p] # Unmapped
  /\ map'[s][p] = Unmapped
  /\ Remap(s, p)

Operation ==
  \/ \E s \in Names : Create(s)
  \/ \E s \in Spaces, p \in Pages : Mmap(s, p) \/ Munmap(s, p)

Next ==
  /\ ~panicked
  /\ \/ Operation /\ UNCHANGED panicked
     \/ panicked' = TRUE /\ UNCHANGED map

Spec == Init /\ [][Next]_<<map, panicked>>
=============================================================================
