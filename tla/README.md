# metal-to-app in TLA+

metal-to-app is a small x86-64 kernel: GRUB loads it with a few user programs as
boot modules, it builds page tables and a frame allocator, makes one process of
each module and then switches between them whenever they yield. This directory
holds TLA+ models of its parts, the TLC runs that check them on small instances,
and proofs checked by TLAPS.

    tlc -config Kernel.cfg MCKernel       # check one run (PROJECT.json lists them)
    tlapm KernelProofs.tla                # check one module of proofs

Paths below are relative to the repository; the kernel is in `src/`
(`src/src/` seen from the directory above it, as `PROJECT.json` writes them).

## 1. Inventory

### How the parts interact

`bootstrap.s` enters long mode and calls `cstart` (`main.c`), which in order
builds the kernel's page tables (`memory.c`), chooses a range of physical memory
(`multiboot.c`) and gives it to the frame allocator (`frame.c`), loads segments,
gates and the interrupt controllers (`gdt.c`, `exceptions.c`, `interrupts.c`), sets
up the scheduler and the system calls, and turns every boot module into a task
(`initrd.c`, `userspace.c`, `elf.c`, which use `address_space.c`). It ends in
`idle_loop`, whose `int 201` starts the first task. From then on the kernel runs
only inside system calls (`syscall_asm.s`, `syscall_table.c`) and inside
`asm_reschedule` (`scheduler_asm.s`), which calls `scheduler()`.

Everything shares memory and one CPU. There is no timer and no device interrupt:
`enable_interrupts` masks all lines of both PICs (`Startup` checks that this works, the
other models rely on it). So control changes hands only at
`int 201`, and nothing interrupts the kernel; what makes the code hard is not
preemption but state that outlives a switch: registers in a save area, links
inside free frames, tables found through other tables, flags set before a switch
that takes effect later.

### The components

| component | state | operations | what is hard | what makes it correct |
|---|---|---|---|---|
| frame allocator `frame.c` | bump pointer, end, head of a list threaded through the free frames | alloc, alloc_zero, dealloc | the links are in memory clients wrote to; LIFO reuse; an end recognised by equality | no frame lost, none handed out twice, no write to a held frame, panic only when all are held |
| memory map `multiboot.c` | the longest usable entry so far | one scan at boot | order of entries; overlap with the kernel; ragged ends | only usable memory past the kernel is handed over |
| scheduler `scheduler.c` | 256 slots, flag per task, current task, round pointer | make_task, schedule, yield, suspend, resume | starvation; a suspended task in a slot or current; the circle's end | suspension is effective, urgent first, bounded overtaking, idle only when nothing is ready |
| context switch `scheduler_asm.s` | save area in `struct task`, IST stack, CR3 | save, choose, load | twenty registers in two orders; CR3 in the middle | each task has a CPU of its own |
| system calls `syscall*.{c,s}` | return address and flags on the user's stack | exit, write, abort, yield | other tasks run between call and return | return to the caller, with its registers and space |
| address spaces `address_space.c`, `memory.c` | page tables in frames and four static ones | create, mmap, munmap | tables made on the way, of frames with old contents; the kernel half shared by all | maps change only where asked; a frame has one use; processes are isolated |
| decoder `scancodes.c`, `processScancode` | up to 8 bytes | one byte | sequences of 1 to 8 bytes that contain each other; stray bytes | each key reported once; buffer always a beginning of a known code |
| keyboard controller `keyboard.c` | ring of 16 commands, configuration, what is on the wire | initps2, push, loop | answers mixed with scan codes, one per byte, repetitions, a full ring | commands leave the ring in order; each is done once; the decoder sees scan codes only |
| ELF loader `elf.c` | none | load_elf, copy_section | segments at any offset, bss, pages shared by segments | the file's bytes are where its headers say, zeros elsewhere |
| processes `userspace.c` | the stack and struct task of each | make, cleanup | frames that run out half-way; room for the command line | each task finds its program and its argument, and nobody else's |
| boot modules `initrd.c` | array of 10 | setup | more than 10 modules | all are started, in order |
| start-up `main.c`, `gdt.c`, `interrupts.c`, `exceptions.c`, `syscall.c` | descriptor tables, interrupt controllers, registers of SYSCALL | the calls of `cstart` | the order; faults and device lines in the middle; selectors derived from each other | no device interrupts, a fault always ends in a handler, privilege is right |
| console `print.c` | cursor | print, println | the last row | no write outside video memory (not modelled) |

`PROJECT.json` repeats the list with the source files, and under `hazards` what can
go wrong in each, with the line where it bites and the properties that look there.

## 2. Plan

1. *done* frame allocator (`FrameAllocator` implements `FramePool`), and the memory
   map that feeds it (`Multiboot`);
2. *done* scheduler (`Scheduler`), and its composition with context switch and
   system calls (`Kernel` extends it; implements `VirtualCPUs` and, again, `Scheduler`);
3. *done* address spaces (`AddressSpace`, over the pool, implements `VirtualMemory`);
4. *done* scan code decoder (`Scancodes`);
5. *done* boot modules, ELF loader and user processes (`Processes`, over
   `AddressSpace`);
6. *done* keyboard controller and command queue (`Keyboard` implements `CommandQueue`),
   with a device that asks for repetitions and sends scan codes in between;
7. *done* the processor's tables and the order of `cstart` (`Startup`), composed with the
   loop over the modules (`Boot` extends `Processes` and `Startup`);
8. *done* proofs: the boot (`BootProofs`), switch and system calls with the refinement
   of `VirtualCPUs` (`KernelProofs`), the tree of page tables and the refinement of
   `VirtualMemory` over it (`AddressSpaceProofs`), the keyboard driver with the
   refinement of `CommandQueue` (`KeyboardProofs`), and the decoder (`ScancodesProofs`);
9. *done* proofs for the loader (`ProcessesProofs`, over the tree of `AddressSpaceProofs`),
   which `BootProofs` composes with the processor's;
10. *done* proof that `Kernel` implements `Scheduler`, and that the frames are accounted for
    (`AccountInv`); what section 5 leaves to TLC, liveness, is out of the prover's reach.

Abstract specifications: a pool of frames, an array of virtual CPUs, a family of page
maps, a FIFO of commands.

## 3. Modules

### FramePool, FrameAllocator
The model keeps the first word of every frame in `memory`, because that word is the
link of the free list while the frame is free and the client's while it is held.
Initially it is arbitrary, and `ClientWrite` may store any word in a held frame. A
pointer is a frame number; the managed range comes from the byte range by the
two roundings of `init_frame_allocator`. `FrameAlloc` and `FrameAllocZero` are the
two allocations including the range test of `pointerToLinearAddress`, `AllocPanic`
is `panic()`. `frame_dealloc` checks nothing, so what it may be given is the
callers' obligation: a frame they hold. `owned` and `beat` are no variables of the
code: the frames held, and a bit that flips with each allocation, so that handing
out a frame a second time is visible in `FramePool`, where it is not allowed.

### Multiboot
One action per turn of the loop over the memory map, one for the range that is
computed from the entry found, one for the access through `NULL` when there is none
(the page is unmapped and no handler is installed yet). Sums of base and length are
assumed not to wrap.

### Scheduler
`slot[p]` is `scheduling_vector[0][128 + p].task`; a constant `Band` stands for 128.
The flags word of an entry is written and never read, and is left out. `TakeUrgent`,
`TakeRound` and `TakeIdle` are the three ways `scheduler()` returns; note
`ReadyTurns`, which has Band - 1 positions, as the code's loop has. `IdleYield` is
`int 201` of `idle_loop`: it happens once, because the task then is saved at `hlt`, and
resuming it there halts the CPU for good. `resume` and `schedule` do not switch.
Tasks other than user programs (the kernel tasks of the interface in `scheduler.h`,
which `test_scheduler.c` uses) may call everything; the user programs of today are
a special case, see `Kernel`.

### VirtualCPUs, Kernel
`Kernel` extends `Scheduler` by registers. A word is who computed it: `User(s, v, r)`
is version v of register r of the program in address space s, so a word in the
wrong place, or of the wrong task, is told apart. `asm_reschedule` is cut in
three: `SaveTask` (the pushes into `struct task`, order `PushOrder`), `CallScheduler`
(with the registers a C function may change lost), `LoadTask` (CR3, pops in
`PopOrder`, `iretq`). System calls run on the user's stack: `stack` holds the two words
`syscall_entry_asm` pushes there. A handler returns with any caller-saved register
changed or not. `abort` panics. A missing handler is a call of address 0, which faults
and halts, unless the program has something there: `load_elf` maps whatever addresses a
module names, and a program linked at 0 goes on in its own code with the kernel's
privilege. `PageZero` is the set of such programs; `CallPageZero` is that call, and as the
program may do anything from there on, the model ends (`at = "lost"`). `OwnSpace` is
stated up to that point: no other program gets there. Assumed is that a program makes
its system calls on a stack of its own with room for two words: the pushes are made with
the kernel's rights wherever RSP points, and what that overwrites is not modelled
(both are among the hazards). `cstart` makes and schedules one task after the other, as in the
loop over the boot modules. A user program may also execute `int 201` itself, for
which the gate is open. What `write` prints, and a fault while it reads its
argument, are left out.

The refinement mapping to `VirtualCPUs`: the context of a task is the CPU when it
runs, the save area when it does not, and while it is being saved the IST stack
and what is still untouched. To `Scheduler`: the flag that `exit` clears before the
switch counts as set until `CallScheduler`, where the abstract `Suspend` happens.

### VirtualMemory, AddressSpace
`entries[t]` is what table t contains; a table is a frame or one of the four static
ones of `memory.c`. A frame a client held reads as garbage (`Garbage`: a present user
entry), and `frame_alloc_zero` clears it; that is what makes `NewTable` matter.
`resolve_pageentry` walks level by level with a cursor (table, index, memory so
far): it stops at a big page, adds a table where none is present, or fails when no
frame is left. `Translate` is the processor's walk, with the user bit of all levels.
The callers' side: a frame that is mapped is one they hold, user pages go in the
space of a process and dynamic pages in the kernel's, and (`MapUnmapped`) nothing is
mapped yet at the page. `load_elf` does not keep to the last for segments that share a
page; `Processes` calls `mmap` without it. TLB entries are left out:
nothing of the code unmaps a page of a space in use. `place` is no variable of the
code: the path of indexes that leads to each table.

### Scancodes
`codeBuffer` is the sequence of its bytes. `Plain` is the function for everything but
the two recursive cases, which are its negation on a shortened code, so no recursion
is needed: a shortened code is never of their form. The tables are those of the
source, sixteen codes in a row. The keyboard sends make and break sequences of every
key of set 2; it sends no fake shifts (a hazard). `Noise` are bytes that arrive
between two keys.

### Processes
Extends `AddressSpace` by the loop of `cstart` over the boot modules. A module is its
program headers and the length of its command line. Bytes are tokens: byte k of
section s of module j, NUL, or stale, for what a frame held before; so a byte from the
wrong place, module or time is told apart. `pc` names the place in `cstart`,
`make_userspace_process`, `load_elf` and `copy_section`; a step ends where a frame is
taken, because that is where it may end in `panic()`. `section` holds the arguments of
`copy_section` as its loop changes them; `memsz` is signed, as there. The struct task is
what `tasks` records; its fields beyond stack pointer, argument and space are in
`Kernel`. Assumed of the modules (`ModulesAssumption`): at most ten, a command line
shorter than a page, segments in user pages below the stack, and the images
themselves out of the allocator's range.

### Startup
One action per call of `cstart` that touches the processor, `cstart` itself being the
sequence of their names, so that their order can be varied; `enable_interrupts` byte by
byte. The two 8259 controllers react to the bytes as they are documented to: a first one
starts an initialisation and opens all lines, three more belong to it, the next is the
mask. Faults go through `Entered`: the gate, and where it is missing fault 13 or 8, or a
reset. `Raise` lets devices raise their lines at any time. After `idle_loop` began, one
process enters and leaves the kernel by `syscall`, `sysretq` and `int 201`; of its
registers only the selectors are kept (the rest is in `Kernel`), and all flags words
the code makes have interrupts enabled. Idle comes back at its `hlt`. The handlers of
the device lines are not modelled: `NoDeviceInterrupt` says they are never entered.

### Boot
The composition: `cstart` from its first call to the first tasks. `LoadStep`,
`LoadPanics`, `LoadMakes` and `LoadEnds` are the loop over the modules: each is a step of
`Processes` together with what it does for the processor (nothing; the panic's
`int $200` through the gates of `Startup`; the selectors `make_task` writes; the return).
Everything else leaves the loader alone, and devices and faults may come between
any two steps.

### CommandQueue, Keyboard
`line` is what the port 0x60 will give, scan codes and answers in their order; `input` is
the controller's input buffer. `initps2` is one action per access, so that keys can be
pressed in between; the controller obeys commands at once. In the loop, looking at the
front, sending a byte, and reading the answer are steps, and pushes fall between
them. A command is the number of its push, `DataLength` how many bytes follow it. The
keyboard acknowledges or refuses each byte, as PS/2 keyboards do; the loop reads one
answer to a command. So there are two kinds of claims:
- of commands of any length: the ring is a queue (`RingQueueSpec` maps its contents to
  `CommandQueue`; a command is done when it is popped);
- until the loop takes a command with data (`NoDataYet`): the keyboard carries commands out as
  a queue (`CommandQueueSpec`: a command leaves the abstract queue when the keyboard has
  carried it out, while the ring still holds it until its answer is read), all of them in the
  end, and the decoder gets scan codes only.

With data, which `struct keyboardCommand` provides for (keyboard.c:75), the second kind is
false, which is why it ends where such a command is taken. The first byte is acknowledged,
the data byte sent, the acknowledgement read and the command popped; the answer to the data
byte is read as a scan code, also when it asks to repeat it, and the command is never
carried out.

Nothing in the repository calls the loop or pushes a command; the model is of the driver
as written. `MaxAccepted` bounds how often a command with data can be carried out again,
because a late refusal of an earlier attempt is taken for the answer.

## 4. Runs

| run | instance | states | what it shows |
|---|---|---|---|
| `frame_allocator` | 4 frames, ragged byte range, every initial memory | 11 thousand | `FreelistComplete`, `OwnedMemoryStable`, implements `FramePool` |
| `frame_region` | region 1 to 15 MiB, kernel to 20 MiB | violated | `NothingPastFreememEnd` fails |
| `multiboot` | maps of 0 to 3 entries, any order, 18 different entries | 7 thousand | `LongestSoFar`, `FramesAreFree` |
| `scheduler` | 3 tasks, band of 3, slots -3, -1, 0, 1, 2 | 76 thousand | safety, order and liveness of the scheduler |
| `scheduler_useful` | same, slots 0 and 1 only | violated | `NextUsefulTask` fails |
| `address_space` | 9 frames, 2 processes, 2 user pages, 1 dynamic page | 30 thousand | `EveryFrameHasOneUse`, `UserIsolation`; implements `VirtualMemory` |
| `kernel` | 2 programs, one of them linked at address 0, 2 versions, 5 system call numbers | 136 thousand | implements `VirtualCPUs` and `Scheduler`; `OwnSpace`, `SyscallReturnsToCaller` |
| `kernel_arguments` | same | violated | `ArgumentsSurvive` fails |
| `scancodes` | all keys, 10 stray bytes | 27 thousand | each key once, buffer always a prefix, the loop ends |
| `scancodes_keys` | all keys | violated | `CodeTellsKey` fails |
| `keyboard` | a ring of 4, 7 commands, the fifth with 2 bytes of data, the last with 1; 3 bytes on the line | 23 thousand | the ring implements `CommandQueue`, and, without data, ring and keyboard; `DecoderGetsScanCodes`, `EveryCommandDone` |
| `boot` | 21 frames of 4 bytes, 109 lists of up to two modules, a line of each controller, three faults | 35 thousand | `ProgramLoaded`, `CommandLineOnStack`, `ProcessIsolation`, `FramesAccounted`, `NoDeviceInterrupt`, `FaultsStopForGood`, `SegmentsFit`, `EveryModuleStarted` |

Bounds, and why they are enough.
*Frames*: with four, the free list has a head, a middle and an end while one more
frame is held. *Band* 3 is the least in which the round has a first, a last and one
other slot, and the position that the loop leaves out is none of those it starts at.
Three tasks can be current, waiting and suspended at once. *AddressSpace*: nine
frames are two spaces with their tables (four frames each) and one page, so that a frame
has to leave one space before it is mapped in the other, and the allocator runs dry in
the middle of a walk; ten, two complete spaces, were run for the invariants too. `MaxHeld` and `MaxSpaces` bound the clients; `Candidates` is the
lowest free frame, which loses nothing because no action compares frames. *Kernel*:
one version of a register is enough to tell tasks apart, two to tell stale
contents of the same task. *Scancodes*: all keys are there; the stray bytes are all that
mean something to the decoder (prefixes, the parts of long codes), zero, a key and
0xFA. `MaxReported` caps what is remembered of one key at three codes, one more than
a double report needs. *Multiboot*: the bases and lengths are no multiples of a frame
and one entry lies across the end of the kernel.
*Keyboard*: more commands
than the ring holds, so that it fills up and its positions wrap, once before the first
command with data; after it, commands without data and with data meet the late answers.
The proofs have a ring of any size. *Processes*: a
page of four bytes and an alignment of two have every remainder a segment and a command
line can leave; segments take up to four pages and cross from one page table to
the next; the first of two modules may or may not leave enough frames for the
second. *Startup*: gates, vectors and bytes are the real ones;
lines are independent of each other, so one of each controller is enough, and of the
faults there is one with a gate, one without and one whose missing gate is a double fault.

Deadlock checking is off where the system stops by design: `panic()`, `hlt` with
interrupts masked, the end of a boot-time scan.

**Fairness.** `Scheduler`: whoever runs goes on to yield (`WF` of `Yield` and
`IdleYield`). Scheduling is cooperative, so nothing else can be promised; the programs
of the repository yield in their endless loops. `Scancodes`: the loop of
`processScancode` goes on (`WF` of `Decode`): it is straight code on the one CPU.
`Boot`: so is `cstart` (`WF` of its steps). `Keyboard`: the same for the
driver; the keyboard answers (`WF`) and does not refuse the same byte of a command forever (`SF` of
`Accept`), without which no driver could do anything. `EveryCommandDone` also supposes
that keys are not pressed forever: the loop reads all scan codes before it looks at the
queue. Nothing else is assumed fair.

### Where code and description disagree
Four runs end in a counterexample, each against a sentence or a declaration of the repository:
a lone task that yields is not run again although it is ready (`scheduler_useful`;
scheduler_asm.s:3); frames are handed out past `freemem_end` when the longest memory
region lies below the end of the kernel (`frame_region`; frame.c:17); system calls
change argument registers the user library declares unchanged (`kernel_arguments`;
modules/vdso/src/vdso.c:20); left Alt is reported as the key A (`scancodes_keys`;
scancodes.h:9). `HaltLosesAtMostOne` says what does hold of the first.

Two more have no run. Commands with data get lost (section 3, Keyboard). And initps2 leaves
the keyboard's interrupt off where keyboard.c:66 says "Enable PS1 and IRQ 1 (keyboard)": the
line that would set the flag is a comment. Theorem `InitializationWorks` says what is left;
the loop polls, and a run could only restate the mask of keyboard.c:53.

Where the repository says nothing, the models only show what the code does. `UnknownByte`
takes a scan code that arrives while a command is under way for its answer and stops the
driver: `CommandQueue` has to allow it as `Confuse`. Segments that share a page lose the first
one's bytes and its frame: `ProgramLoaded` exempts such pages, and `FramesAccounted` counts
the frame as one the process costs. And a program linked at address 0 gets the kernel's
privilege by a system call without handler (`CallPageZero`).

## 5. Proofs

| module | theorems | assumption |
|---|---|---|
| `FrameAllocatorProofs` | types, `FreelistComplete`, `PoolSpec`, `OwnedMemoryStable`, `FramesInsideRange` | `RegionOK`: the range is not inverted, above frame 0 and inside the linear window |
| `MultibootProofs` | types, `LongestSoFar`, `FramesAreFree` | entries are natural numbers |
| `KernelProofs` | of the scheduler: types, `SuspendedNeverRuns`, `HaltLosesAtMostOne`, `EveryTurnComesNearer`, `UrgentFirst`; of the kernel: types, `OwnSpace`, `SyscallReturnsToCaller`, `VirtualCPUsSpec`, `SchedulerSpec` | Band > 0, priorities inside the vector, names told apart; finitely many tasks and a priority for each |
| `AddressSpaceProofs` | types, `EveryFrameHasOneUse`, `UserIsolation`, `VirtualMemorySpec` | the static tables are distinct and no frames; finitely many frames; the allocator returns a free frame; where the callers map |
| `KeyboardProofs` | types, `RingQueueSpec`, `DecoderGetsScanCodes`, `CommandQueueSpec`; what initps2 leaves, and that the loop sends the front of the ring | the ring has two places or more; a command has at most two bytes of data |
| `ScancodesProofs` | types, `BufferIsPrefix`, `EveryKeyReportedOnce` | stray bytes are bytes |
| `ProcessesProofs` | the lemmas of the loader: every action keeps `LoaderInv` and `AccountInv`, and what follows from them | those of `AddressSpaceProofs`; a page is a multiple of the stack's alignment; `ModulesAssumption` |
| `BootProofs` | types, `NoDeviceInterrupt`, `FaultsStopForGood`, `SegmentsFit`, `ProgramLoaded`, `CommandLineOnStack`, `ProcessIsolation`, `FramesAccounted` | those of `ProcessesProofs`; a line is one of the fifteen devices have; a fault has a vector below 32 |

*Frame allocator.* The inductive invariant is types and `FreelistComplete`: there is a
sequence s of distinct frames, from the head along the links to NULL, of exactly the
frames that are neither held nor untouched. It has to name the whole chain, because a
pop makes the head whatever the link says. A pop takes the first element off s
(`PopChain`), a deallocation puts one in front (`PushChain`), everything else leaves
the words of the chain alone (`SameChain`). From it, an empty list and an exhausted
bump pointer mean that the clients hold everything, which is what `FramePool` asks of
a panic. `RegionOK` is what `frame_region` shows to be needed.

*Memory map.* The loop invariant `LongestSoFar`, and that the range is the entry's
part past the kernel (`RangeFound`).

*Scheduler.* Types are inductive, with `round_schedule <= Band` (the code stores
pos + 1 without the modulus and takes the modulus on use). `SuspendedNeverRuns` is
inductive with them, because every operation that clears a flag also switches.
`HaltLosesAtMostOne` needs only that nothing runs once idle is at `hlt`. The action
properties follow from the arithmetic of `Position` and `Turn`: the k-th position has
turn k, so passing over k positions moves every later slot k + 1 nearer.

*Switch and system calls.* `KInv` says of every task that was made, and of idle: it has
its own address space, its selectors are a user's exactly when its instruction
pointer is, and while the kernel serves it (`Serves`) the return address and flags of its
`syscall` are on its stack and the registers a C function preserves are those at the
call. In the middle of a switch the context is spread over the IST stack, the save area
and the registers not yet touched, so all of it is stated on `Context`, which puts it
together at each stage. From that the refinement is a case per action: only an action
in which the task itself runs changes its context. That the pops undo the pushes rests
on the two orders naming the twenty fields of `struct task` at the same offsets.
That the kernel implements the scheduler needs `SwitchInv` besides: idle is at `cstart`
only until its one `int 201`, and what a switch has chosen may execute. The mapping
(`Flags`) counts the flag that `exit` clears as set until the scheduler is called, which
is the step `IdleYield`, `Yield` or `Suspend` of `Scheduler`; all others stutter but those
that make and schedule a process.

*Address spaces.* The inductive invariant `AInv` is that the page tables form a tree, with
the history variable `place` as the witness: below a root, the table at a path is the
only one there (`Places`); entries 256 and 511 of every root are those of the kernel's
(`RootsShare`); a present entry leads to the table whose place is one longer, or at the
last level to a page (`EntryFits`), which no other entry names (`OneEntry`); every table
but a root hangs by an entry (`Hangs`). These make the `Tree`. Apart from it stands that
whatever is neither free, held nor a root is entered somewhere (`Accounted`): `mmap` over a
page that is mapped, as `load_elf` calls it for segments that share a page, keeps the tree
and loses a frame. The invariant is proved first of one
level of the walk (`NewTable` hangs one table and fills it), then of the four levels
together, then of the entry `mmap` and `munmap` write. Two arguments carry it: a place
without an entry has no table at it, because whatever hangs is entered, so `NewTable` never
makes a second table of the same place; and `MapUnmapped` writes to an entry that is
not present, because the cursor's walk and the processor's end at the same
entry. `EveryFrameHasOneUse` reads off the last two parts; `UserIsolation` follows because
two walks that end at one address end at one entry, and so came the same way down.

*The maps.* From `AInv`, what a page translates to depends only on the last level:
if there is a table at the path `Down4` of the page with an entry for it, the way down
to it is there too (`PathUp`, by `Hangs`) and it is what the walk finds; if not, the
page is unmapped; the pages of the kernel image and the window are fixed. So a step that
leaves the last level alone (`SamePages`: hanging tables, allocations, a panic on the
way) is a stutter of `VirtualMemory`, writing one entry changes the one page whose walk
ends there (`SameEnd`), and with it the same page of the other spaces when the
kernel half is the way (`KernelWay`).

*Boot.* `BootInv` has four parts: which tables are loaded at which call of `cstart`, the
state of each controller after each of its bytes, what the processor does and whether
interrupts are enabled, and the selectors. They hold for any list of boot modules,
because the loader touches the processor only where it makes a task, ends, or panics.
That interrupts are enabled only after the last byte has masked all lines is
`NoDeviceInterrupt`; that from `lidt` on every fault finds a gate, its own or that of
fault 13 or 8, is `FaultsStopForGood`.

*The loader.* `LoaderInv` is said of views: `Sees(r)` is, for each user page of a space, whether
it is mapped for the user and the bytes of its frame. What load_elf is for is then a fact
about bytes in pages (`LoadedTo`: the headers before `header` are done, of that one the pages
below `Front`; a page that a later header has done may be that one's), and the
arithmetic of copy_section is an equation between what it has left and the header it
began with (`Copied`, `Reach`). Two lemmas connect views with tables: `TakeFrame`, that an
allocation shows nowhere, and `MapPage`, that `mmap` changes one page of one view and no other
space, whatever tables it adds or frames it takes; both rest on the tree and
on the lemmas of the refinement of `VirtualMemory`, and neither asks that the page was
unmapped. `Hands` keeps the frames apart: what was allocated and is not mapped yet, and
the struct tasks, are held, and what a page shows never is (`UserFrame`). `WellMade` says of each
task made so far that its view is complete, and its space is not the one being filled, which
is why the next module cannot disturb it. In `BootProofs` a step of the processor, a fault
or a device leaves all of it alone, and a panic leaves it as it was before the step.
`ProgramLoaded`, `CommandLineOnStack` and `ProcessIsolation` are read off.

*The frames a process costs.* `FramesAccounted` gives every use of a frame a name
(`FramesFor`: module and task, stack or page of a section; `TablesFor`: module and
beginning of a path) and compares the size of the set of names with the frames in use, so
that no sum is taken. It says something only between two modules and after a panic; what is
inductive, on top of `LoaderInv`, is `AccountInv`, at every step. The tables are not counted but found: their
places are those of the names in use so far (`PlacesOf(place) = {Site(sp, t) : t \in T}`), which
are those on the paths to the pages done (`Mapped`) and the roots of the spaces begun. So a
mapping that finds a table of an earlier page on its path, or of an earlier segment,
adds none, whatever shares what (`MapUses`, `MoreTables`). All other frames not free are counted
against the tasks, stacks and pages with a frame (`Backed`), one per allocation, which is
why a frame that a later segment unmaps is still counted. Names differ exactly when the
places do (`SitesDiffer`: the spaces differ, and a place determines its path), so both add up
to one cardinality (`CountsUp`). In a panic nothing is free and at least one name of the module being loaded has
no frame (`TooMany`), which is the strict inequality. The pages done grow one by one along a
section and are those of all segments at its end (`DoneGrows`, `DoneEnds`, `AllPagesDone`).

*Keyboard.* The ring is described by `Holds`: between begin and end lie the commands after the
p-th, in order (`RingPush`, `RingPop` and `RingFacts` are the arithmetic of positions that
wrap, for any size). `GInv` adds, for commands of any length, what is on the line and in the
configuration during initps2, and that the loop's command is the next after the p-th;
from it follow the types, what initps2 leaves (`InitializationWorks`), that the loop sends the
front of the ring (`FrontStays`), and `RingQueueSpec`.
`KInv` adds, until a command with data is taken (the commands taken are those before the p-th
and perhaps one more, `Earlier`), that outside the wait for an answer only scan codes
are on the line, and in it either the command is still with the controller, or exactly one
answer is on the line (`OneAnswer`). An acknowledged command has been carried out and not
popped, which is why p is the number carried out or one less, and why `CommandQueue` lets
push panic one command early.

*Decoder.* For any bytes on the line. `BufferInv`: the buffer never has more than eight bytes,
and when the loop of `processScancode` has ended it holds nothing or the beginning of a
code (`KeptCodes`). That no report is lost or doubled needs to know, for each key and each byte of
what the keyboard sends for it, what the buffer holds before that byte: a key's
code is a walk, a list of such pairs (`Walk`), among them that of Print Screen, whose
release loses its first F0 on the way. `KeyInv` says of a key under way that the buffer is where
the walk has it (`ByteNext`, and inside the loop `ByteHere` and `CodeOver`), that nothing was
reported before the last byte, and one code after it. The walks of all keys of the
table are checked class by class.

Only model-checked: the four liveness properties `ReadySlotIsServed`, `LoopEnds`,
`EveryCommandDone` and `EveryModuleStarted`, which need fairness and ENABLED, outside the
prover's reach. Every invariant, action property and refinement of a passing run is a
theorem.

## 6. Not modelled, and why

`bootstrap.s` is executed once, before anything else is there: its effect is the
initial state of `Startup`. The handlers of the device lines are never entered. What
handlers and system calls print is left out, and with it the console (`print.c`): one
offset into the video memory, which `println` rounds up to the next line without
the modulus that `print` takes, so that a message printed after a line on the last
row starts behind the screen; nothing but what is seen depends on it. The byte loops of the C library are what `memcpy` and `ZeroPage` of
`Processes` do. The bits of descriptors, gates and table registers are left out: the
models have what they mean. `cleanup` of `userspace.c` has no caller and none could
use it (it unmaps an address where no stack is, frees what `munmap` returns for it and
a task that is still scheduled). Where the boot loader puts the modules: `grub.cfg`
asks for the place right after the kernel, and the kernel's range begins at the next
2 MiB boundary; that they fit in between is an assumption. `test_scheduler.c` is written
for an older interface and not compiled. Several CPUs: `asm_get_cpuid` answers 0, no
other CPU is started, and the TODOs about atomicity in scheduler.c concern code not yet
written. The priority that
`schedule` does not check: `cstart`, its only caller, passes 0 to 9. `eoi` would
acknowledge line 8 at the wrong controller, and handlers that return would share one
stack; no device line is ever handled. `ps2command` does not wait until the controller
took the byte before: the controller of `Keyboard` obeys at once. The TLB, and what the handlers of faults do if they fault themselves.
