----------------------------- MODULE Processes -----------------------------
(***************************************************************************)
(* The processes of the boot modules: the loop of cstart (main.c) over     *)
(* make_userspace_process (userspace.c) and load_elf (elf.c), on the       *)
(* frames and page tables of AddressSpace.                                 *)
(*                                                                         *)
(* A module is its program headers and the length of its command line.     *)
(* The bytes of a frame are tokens: byte k of section s of module j is     *)
(* <<j, s, k>>, and section 0 of a module is its command line.  Nothing    *)
(* else runs until the loop is over; a step ends where frames are taken.   *)
(***************************************************************************)
EXTENDS AddressSpace

CONSTANTS
  DEFAULT_FRAME_SIZE, \* 4096
  STACK_ALIGNMENT,    \* 16
  BootModules         \* what the boot loader may have loaded

MAX_MODULES == 10     \* m[10] of cstart

Offsets == 0 .. DEFAULT_FRAME_SIZE - 1

(* The 9-bit fields of a page number, as resolve_pageentry cuts them.      *)
PagePath(n) == <<n \div (512 * 512 * 512), (n \div (512 * 512)) % 512, (n \div 512) % 512, n % 512>>

StackPage == <<255, 511, 511, 510>>     \* 0x7FFFFFFFF000 - DEFAULT_FRAME_SIZE

ASSUME SizesAssumption ==
  /\ STACK_ALIGNMENT \in Nat \ {0}
  /\ DEFAULT_FRAME_SIZE \in Nat \ {0} /\ DEFAULT_FRAME_SIZE % STACK_ALIGNMENT = 0

ProgramHeader ==
  [headerType : Nat, page : Nat, offset : Offsets, memsz : Nat, filesz : Nat]

(* What the code takes for granted: a place in m for every module, a       *)
(* command line that fits in a page with its NUL, segments in user pages   *)
(* below the stack and in memory no smaller than in the file.              *)
ASSUME ModulesAssumption ==
  \A modules \in BootModules :
    /\ modules \in Seq([headers : Seq(ProgramHeader), argSize : Offsets])
    /\ Len(modules) <= MAX_MODULES
    /\ \A j \in DOMAIN modules : \A s \in DOMAIN modules[j].headers :
         LET h == modules[j].headers[s] IN
         /\ h.filesz <= h.memsz
         /\ \A k \in 0 .. h.memsz - 1 :
              PagePath(h.page + (h.offset + k) \div DEFAULT_FRAME_SIZE) \in UserPages \ {StackPage}
ASSUME StackAssumption == StackPage \in UserPages

VARIABLES
  modules,            \* the boot modules
  data,               \* the bytes of each frame
  pc,
  i,                  \* the module being loaded (from 1 here)
  root,               \* its address space
  header,             \* its program header being loaded (from 1 here)
  section,            \* arguments of copy_section, as the loop changes them
  frame, stack,       \* the frames taken last for a page and for the stack
  tasks               \* scheduling_vector[0][128 ..], the struct tasks set up

processVars == <<modules, data, pc, i, root, header, section, frame, stack, tasks>>

NUL   == <<>>
Stale == <<0>>        \* what a frame held before it was allocated
ZeroPage == [o \in Offsets |-> NUL]

NoSection == [page |-> 0, offset |-> 0, start |-> 0, memsz |-> 0, filesz |-> 0]

ProcessesInit ==
  /\ Init
  /\ modules \in BootModules
  /\ data = [f \in Frames |-> [o \in Offsets |-> Stale]]
  /\ pc = "create" /\ i = 1 /\ root = kernel_pml4 /\ header = 1
  /\ section = NoSection
  /\ frame = NULL /\ stack = NULL
  /\ tasks = <<>>

SourceByte(j, s, k) == IF s = 0 /\ k = modules[j].argSize THEN NUL ELSE <<j, s, k>>

(* The bytes of frame f once n bytes were copied to offset at of it.       *)
memcpy(f, at, j, s, start, n) ==
  [o \in Offsets |-> IF at <= o /\ o < at + n THEN SourceByte(j, s, start + o - at) ELSE data[f][o]]

Goto(label) == pc' = IF panicked' THEN pc ELSE label

----------------------------------------------------------------------------
(* frame_alloc_zero; no frame when it panics.                              *)
Taken == IF held' = held THEN NULL ELSE CHOOSE f \in held' \ held : TRUE

\* Mutant: frame_alloc, which leaves the bytes alone.
frame_alloc_stale ==
  /\ FrameAlloc
  /\ UNCHANGED data

frame_alloc_zero ==
  /\ FrameAlloc
  /\ data' = IF panicked' THEN data ELSE [data EXCEPT ![Taken] = ZeroPage]

(* The next module: create_address_space; after the last, idle_loop.       *)
NextModule ==
  /\ pc = "create"
  /\ IF i > Len(modules)
     THEN pc' = "idle" /\ UNCHANGED <<vars, root>>
     ELSE /\ create_address_space
          /\ root' = IF panicked' THEN root ELSE CHOOSE f \in Roots' \ Roots : TRUE
          /\ Goto("headers")
  /\ header' = 1
  /\ UNCHANGED <<modules, data, i, section, frame, stack, tasks>>

\* Mutant: a header that is not PT_LOAD is not stepped over.
NextHeaderStays ==
  /\ pc = "headers"
  /\ LET headers == modules[i].headers IN
     IF header > Len(headers)
     THEN pc' = "stack" /\ UNCHANGED section
     ELSE LET h == headers[header] IN
          /\ h.headerType = 1
          /\ section' = [page |-> h.page, offset |-> h.offset, start |-> 0,
                         memsz |-> h.memsz, filesz |-> h.filesz]
          /\ pc' = "section"
  /\ UNCHANGED <<vars, modules, data, i, root, header, frame, stack, tasks>>

(* load_elf: the next program header; PT_LOAD goes to copy_section.        *)
NextHeader ==
  /\ pc = "headers"
  /\ LET headers == modules[i].headers IN
     IF header > Len(headers)
     THEN pc' = "stack" /\ UNCHANGED <<header, section>>
     ELSE LET h == headers[header] IN
          IF h.headerType = 1
          THEN /\ section' = [page |-> h.page, offset |-> h.offset, start |-> 0,
                              memsz |-> h.memsz, filesz |-> h.filesz]
               /\ pc' = "section"
               /\ UNCHANGED header
          ELSE header' = header + 1 /\ UNCHANGED <<section, pc>>
  /\ UNCHANGED <<vars, modules, data, i, root, frame, stack, tasks>>

\* Mutant: one page more when the section ends with a page.
MorePagesOneTooMany == section.memsz >= 0

(* copy_section: is there another page to do?                              *)
MorePages == section.memsz > 0

\* Mutant: the frame of the section's first page serves for all of them.
NextPageSameFrame ==
  /\ pc = "section"
  /\ IF MorePages
     THEN IF section.start = 0
          THEN frame_alloc_zero /\ frame' = Taken /\ Goto("copy") /\ UNCHANGED header
          ELSE /\ held' = held \cup {frame} /\ pc' = "copy"
               /\ UNCHANGED <<entries, free, place, panicked, data, frame, header>>
     ELSE /\ pc' = "headers"
          /\ header' = header + 1
          /\ UNCHANGED <<vars, data, frame>>
  /\ UNCHANGED <<modules, i, root, section, stack, tasks>>

NextPage ==
  /\ pc = "section"
  /\ IF MorePages
     THEN /\ frame_alloc_zero
          /\ frame' = Taken
          /\ Goto("copy")
          /\ UNCHANGED header
     ELSE /\ pc' = "headers"
          /\ header' = header + 1
          /\ UNCHANGED <<vars, data, frame>>
  /\ UNCHANGED <<modules, i, root, section, stack, tasks>>

\* Mutant: the offset of the first page is forgotten.
ToCopyWholePage(offset, filesz) ==
  IF filesz > DEFAULT_FRAME_SIZE THEN DEFAULT_FRAME_SIZE ELSE filesz

ToCopy(offset, filesz) ==
  IF filesz + offset > DEFAULT_FRAME_SIZE THEN DEFAULT_FRAME_SIZE - offset ELSE filesz

CopyPage ==
  /\ pc = "copy"
  /\ mmap(root, PagePath(section.page), frame)
  /\ LET to_copy == ToCopy(section.offset, section.filesz) IN
     IF panicked' THEN UNCHANGED <<data, section>>
     ELSE /\ data' = [data EXCEPT ![frame] =
                        memcpy(frame, section.offset, i, header, section.start, to_copy)]
          /\ section' = [page   |-> section.page + 1,
                         offset |-> 0,
                         start  |-> section.start + to_copy,
                         memsz  |-> section.memsz + section.offset - DEFAULT_FRAME_SIZE,
                         filesz |-> section.filesz - to_copy]
  /\ Goto("section")
  /\ UNCHANGED <<modules, i, root, header, frame, stack, tasks>>

(* make_userspace_process, after load_elf: a frame for the stack, one for  *)
(* the struct task, then the mapping, the command line and make_task.      *)
TakeStack ==
  /\ pc = "stack"
  /\ frame_alloc_zero
  /\ stack' = Taken
  /\ Goto("task")
  /\ UNCHANGED <<modules, i, root, header, section, frame, tasks>>

TakeTask ==
  /\ pc = "task"
  /\ frame_alloc_zero
  /\ frame' = Taken
  /\ Goto("launch")
  /\ UNCHANGED <<modules, i, root, header, section, stack, tasks>>

\* Mutant: rounded up, so that the NUL may have no room.
PaddedArgSizeTight(argSize) ==
  ((argSize + STACK_ALIGNMENT - 1) \div STACK_ALIGNMENT) * STACK_ALIGNMENT

PaddedArgSize(argSize) == (argSize \div STACK_ALIGNMENT) * STACK_ALIGNMENT + STACK_ALIGNMENT

(* The task starts at the top of its stack page, less the command line;    *)
(* rsp and rdi are offsets in that page.  It is scheduled at priority i.   *)
Launch ==
  /\ pc = "launch"
  /\ mmap(root, StackPage, stack)
  /\ LET argSize == modules[i].argSize
         top == DEFAULT_FRAME_SIZE - PaddedArgSize(argSize)
     IN IF panicked' THEN UNCHANGED <<data, tasks>>
        ELSE /\ data' = [data EXCEPT ![stack] = memcpy(stack, top, i, 0, 0, argSize + 1)]
             /\ tasks' = Append(tasks, [task |-> frame, rsp |-> top, rdi |-> top,
                                        address_space |-> root])
  /\ i' = IF panicked' THEN i ELSE i + 1
  /\ Goto("create")
  /\ UNCHANGED <<modules, root, header, section, frame, stack>>

ProcessesNext ==
  \/ NextModule
  \/ NextHeader
  \/ NextPage
  \/ CopyPage
  \/ TakeStack
  \/ TakeTask
  \/ Launch

----------------------------------------------------------------------------
(* Properties.                                                             *)

Bytes == {NUL, Stale} \cup ((1 .. MAX_MODULES) \X Nat \X Nat)

ProcessesTypeOK ==
  /\ TypeOK
  /\ modules \in BootModules
  /\ data \in [Frames -> [Offsets -> Bytes]]
  /\ pc \in {"create", "headers", "section", "copy", "stack", "task", "launch", "idle"}
  /\ i \in 1 .. Len(modules) + 1
  /\ root \in Roots
  /\ header \in Nat
  /\ section \in [page : Nat, offset : Offsets, start : Nat, memsz : Int, filesz : Nat]
  /\ frame \in Frames \cup {NULL} /\ stack \in Frames \cup {NULL}
  /\ tasks \in Seq([task : Frames, rsp : Offsets, rdi : Offsets, address_space : Roots])
  /\ Len(tasks) = i - 1

IsLoaded(j, s) == modules[j].headers[s].headerType = 1

(* The pages that header s of module j has bytes in.                       *)
PagesOf(j, s) ==
  LET h == modules[j].headers[s] IN
  {h.page + (h.offset + k) \div DEFAULT_FRAME_SIZE : k \in 0 .. h.memsz - 1}

(* The byte at address (page, offset) that a task reads.                   *)
Byte(t, page, offset) == data[Translate(t.address_space, page).frame][offset]

(***************************************************************************)
(* A scheduled task finds its program in memory: every byte of a segment   *)
(* is the byte of the file, or zero past filesz, wherever the segment      *)
(* starts in its first page and however many pages it takes.  The one      *)
(* exception is a page that a later segment shares, where copy_section     *)
(* maps a new frame over what was there.                                   *)
(***************************************************************************)
ProgramLoaded ==
  \A j \in DOMAIN tasks : \A s \in DOMAIN modules[j].headers :
    IsLoaded(j, s) =>
      LET h == modules[j].headers[s] IN
      \A k \in 0 .. h.memsz - 1 :
        LET n == h.page + (h.offset + k) \div DEFAULT_FRAME_SIZE
            Shared == \E s2 \in s + 1 .. Len(modules[j].headers) :
                        IsLoaded(j, s2) /\ n \in PagesOf(j, s2)
        IN Shared \/
             /\ Translate(tasks[j].address_space, PagePath(n)).user
             /\ Byte(tasks[j], PagePath(n), (h.offset + k) % DEFAULT_FRAME_SIZE)
                  = IF k < h.filesz THEN <<j, s, k>> ELSE NUL

(***************************************************************************)
(* A scheduled task finds its command line where rdi points, whole, with   *)
(* its NUL, above an aligned stack pointer and inside the stack page       *)
(* (make_userspace_process: the padding leaves room for the NUL even when  *)
(* the length is a multiple of 16).  From there to the end of the page     *)
(* there are zeros: testelf.c reads on after the NUL.                      *)
(***************************************************************************)
CommandLineOnStack ==
  \A j \in DOMAIN tasks :
    LET t == tasks[j]
        argSize == modules[j].argSize
    IN /\ t.rsp = t.rdi /\ t.rsp % STACK_ALIGNMENT = 0
       /\ t.rdi + argSize < DEFAULT_FRAME_SIZE
       /\ Translate(t.address_space, StackPage).user
       /\ \A o \in t.rdi .. DEFAULT_FRAME_SIZE - 1 :
            Byte(t, StackPage, o) = IF o - t.rdi < argSize THEN <<j, 0, o - t.rdi>> ELSE NUL

(***************************************************************************)
(* A task cannot reach what belongs to another task or to the kernel: no   *)
(* user page of any space is a struct task, and, as in AddressSpace, no    *)
(* page table, no free frame and no frame of another page.  In those       *)
(* frames it reads no byte of another module and nothing stale.            *)
(***************************************************************************)
ProcessIsolation ==
  /\ UserIsolation
  /\ \A j \in DOMAIN tasks, p \in UserPages :
       LET t == tasks[j]
           f == Translate(t.address_space, p).frame
       IN f # NULL =>
            /\ \A t2 \in {tasks[j2] : j2 \in DOMAIN tasks} : f # t2.task
            /\ \A o \in Offsets : data[f][o] = NUL \/ (data[f][o] # Stale /\ data[f][o][1] = j)

(***************************************************************************)
(* Loading takes the frames the programs need and no more: a struct task,  *)
(* the stack, one frame for every page of every segment, and a table for   *)
(* the start of every path to a page, the root for the empty one.  So      *)
(* cstart panics only when the memory is too small for the modules, and    *)
(* otherwise starts them all.                                              *)
(***************************************************************************)
PagesFor(j) ==
  UNION {{s} \X PagesOf(j, s) : s \in {t \in DOMAIN modules[j].headers : IsLoaded(j, t)}}

Prefixes(paths) == {SubSeq(p, 1, n) : p \in paths, n \in 0 .. 3}

FramesFor(j) ==
  {<<j, "task", <<>>>>, <<j, "stack", <<>>>>}
    \cup {<<j, "page", x>> : x \in PagesFor(j)}

TablesFor(j) ==
  {<<j, "table", q>> : q \in Prefixes({StackPage} \cup {PagePath(x[2]) : x \in PagesFor(j)})}

FramesForFirst(n) == UNION {FramesFor(j) \cup TablesFor(j) : j \in 1 .. n}

FramesAccounted ==
  /\ panicked => Cardinality(FramesForFirst(i)) > Cardinality(Frames)
  /\ ~panicked /\ pc = "create" => Cardinality(Frames \ free) = Cardinality(FramesForFirst(i - 1))
=============================================================================
