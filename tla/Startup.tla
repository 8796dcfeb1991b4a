------------------------------ MODULE Startup ------------------------------
(***************************************************************************)
(* What cstart (main.c) sets up for the processor before any process runs, *)
(* in its order: segments and task state (gdt.c), gates (exceptions.c,     *)
(* interrupts.c, scheduler.c), interrupt controllers (interrupts.c) and    *)
(* the registers of SYSCALL (syscall.c); then idle_loop and one process    *)
(* that enters the kernel and leaves it by every way there is.  Boot       *)
(* makes a specification of these steps.                                   *)
(*                                                                         *)
(* Devices raise their lines and the running code faults at any time.      *)
(* What the processor and the two 8259 controllers do is external.         *)
(***************************************************************************)
EXTENDS Integers, Sequences, FiniteSets

CONSTANTS
  Lines,              \* the device lines that may be raised, of 0 .. 15
  FaultVectors        \* the faults the running code may cause

ASSUME LinesAssumption == Lines \subseteq (0 .. 15) \ {2}   \* 2 is the slave
ASSUME FaultVectorsAssumption == FaultVectors \subseteq 0 .. 31

VARIABLES
  step,               \* index in cstart
  io,                 \* outb of enable_interrupts that is next
  gdt, gdtr,          \* descriptors of struct GDT; is it loaded?
  ist1, tr,           \* is tss.ist1 set? is the tss loaded?
  idt, idtr,          \* type of the gate of each vector; is the table loaded?
  interrupts,         \* are interrupts enabled?
  pic,                \* the two interrupt controllers
  raised,             \* lines that devices have raised
  star, lstar,        \* registers of SYSCALL
  cs, ss,             \* segment selectors
  current, saved,     \* the task that runs; the selectors saved in each task
  cpu                 \* "running", "halted", "reset" or "wild"

setup == <<gdt, gdtr, ist1, tr, idt, idtr, interrupts, io, pic, star, lstar>>
selectors == <<cs, ss, current, saved>>
startupVars == <<step, setup, raised, selectors, cpu>>

(* struct GDT.  The tss descriptor takes two of the 8-byte places.         *)
LayoutUserCodeFirst == <<"zero", "CS64", "DS", "CS32U", "CS64U", "DSU", "tss">>  \* Mutant
Layout  == <<"zero", "CS64", "DS", "CS32U", "DSU", "CS64U", "tss">>

Offset(name) == 8 * ((CHOOSE n \in DOMAIN Layout : Layout[n] = name) - 1)

NoSegment == [code |-> FALSE, dpl |-> 0, long_mode |-> FALSE, present |-> FALSE]
Segment(code, dpl) == [code |-> code, dpl |-> dpl, long_mode |-> code, present |-> TRUE]

(* init_gdt                                                                *)
Attributes ==
  [zero  |-> NoSegment,
   CS64  |-> Segment(TRUE, 0),
   DS    |-> Segment(FALSE, 0),
   CS32U |-> [Segment(TRUE, 0) EXCEPT !.long_mode = FALSE],
   DSU   |-> Segment(FALSE, 3),
   CS64U |-> Segment(TRUE, 3),
   tss   |-> NoSegment]

InitialisedGDT == [n \in DOMAIN Layout |-> Attributes[Layout[n]]]

(* The gates: a type for each vector that has one.                         *)
interrupt_gate == 14
trap_gate      == 15
NoGate         == 0
Vectors        == 0 .. 255

load_interrupt_fn(table, vectors, type) ==
  [v \in Vectors |-> IF v \in vectors THEN type ELSE table[v]]

ExceptionGates == {6, 8, 10, 11, 12, 13, 14, 17}
InterruptGates == ((32 .. 47) \ {34}) \cup {200}

----------------------------------------------------------------------------
(* The 8259 interrupt controllers (external).  A byte on the command port  *)
(* with bit 4 set starts an initialisation, which opens all lines; the     *)
(* next three bytes on the data port belong to it, later ones are masks.   *)

Idle8259 == [icw |-> 0, offset |-> 8, mask |-> 0]

Write8259(c, port, value) ==
  IF port = "command" THEN (IF value = 17 THEN [icw |-> 2, offset |-> c.offset, mask |-> 0] ELSE c)
  ELSE [icw    |-> IF c.icw \in {2, 3} THEN c.icw + 1 ELSE 0,
        offset |-> IF c.icw = 2 THEN value ELSE c.offset,
        mask   |-> IF c.icw = 0 THEN value ELSE c.mask]

Bit == <<1, 2, 4, 8, 16, 32, 64, 128>>

Masked(c, n) == (c.mask \div Bit[n + 1]) % 2 = 1

(* Line n interrupts the processor as soon as it is raised.                *)
Open(n) ==
  /\ interrupts
  /\ IF n < 8 THEN ~Masked(pic.master, n)
     ELSE ~Masked(pic.slave, n - 8) /\ ~Masked(pic.master, 2)

(* The bytes enable_interrupts writes: <<controller, port, value>>.        *)
outbShort ==                                 \* Mutant: no ICW4 for the slave
  << <<"master", "command", 17>>,  <<"slave", "command", 17>>,
     <<"master", "data", 32>>, <<"slave", "data", 40>>,
     <<"master", "data", 4>>,  <<"slave", "data", 2>>,
     <<"master", "data", 255>>, <<"slave", "data", 255>> >>
outb ==
  << <<"master", "command", 17>>,  <<"slave", "command", 17>>,
     <<"master", "data", 32>>, <<"slave", "data", 40>>,
     <<"master", "data", 4>>,  <<"slave", "data", 2>>,
     <<"master", "data", 1>>,  <<"slave", "data", 1>>,
     <<"master", "data", 255>>, <<"slave", "data", 255>> >>

----------------------------------------------------------------------------
(* How the processor enters a handler (external).  Every gate leads to the *)
(* segment CS64 on the stack ist1.                                         *)

Descriptor(selector) ==
  IF gdtr /\ selector \div 8 + 1 \in DOMAIN gdt THEN gdt[selector \div 8 + 1] ELSE NoSegment

Kernel64(s) == s.present /\ s.code /\ s.long_mode /\ s.dpl = 0

Enters(v) ==
  /\ idtr /\ idt[v] # NoGate
  /\ Kernel64(Descriptor(Offset("CS64")))
  /\ tr /\ ist1

(* A vector without gate is a fault of its own, 13, and one on top of      *)
(* these is the double fault, 8.                                           *)
Contributory == {0, 10, 11, 12, 13, 14}

Entered(v) ==
  IF Enters(v) THEN {v}
  ELSE IF v \notin Contributory /\ Enters(13) THEN {13}
  ELSE IF Enters(8) THEN {8} ELSE {}

(* All handlers but those of the device lines and of 201 print and halt;   *)
(* page_fault too, as handle_dynamic_fault always returns false.           *)
Stops(v) ==
  IF Entered(v) = {} THEN cpu' = "reset" /\ UNCHANGED interrupts
  ELSE \E w \in Entered(v) :
         /\ cpu' = "halted"
         /\ interrupts' = (interrupts /\ idt[w] = trap_gate)

StartupInit ==
  /\ step = 1 /\ io = 1
  /\ gdt = [n \in DOMAIN Layout |-> NoSegment] /\ gdtr = FALSE
  /\ ist1 = FALSE /\ tr = FALSE
  /\ idt = [v \in Vectors |-> NoGate] /\ idtr = FALSE
  /\ interrupts = FALSE
  /\ pic = [master |-> Idle8259, slave |-> Idle8259]
  /\ raised = {}
  /\ star = [user |-> 0, kernel |-> 0] /\ lstar = FALSE
  /\ cs = 16 /\ ss = 0             \* the segments of bootstrap.s
  /\ current = "idle" /\ saved = [t \in {"idle", "process"} |-> [cs |-> 0, ss |-> 0]]
  /\ cpu = "running"

----------------------------------------------------------------------------
(* The calls of cstart that touch the processor, in their order.           *)
cstartGatesLate ==      \* Mutant: the exceptions get their gates too late
  << "init_gdt", "init_tss", "load_gdt", "load_tss", "load_interrupts",
     "enable_interrupts", "load_exceptions", "init_scheduler", "setup_syscall",
     "processes", "idle_loop", "hlt" >>
cstart ==
  << "init_gdt", "init_tss", "load_gdt", "load_tss", "load_exceptions",
     "load_interrupts", "enable_interrupts", "init_scheduler", "setup_syscall",
     "processes", "idle_loop", "hlt" >>

Call(name) == cpu = "running" /\ current = "idle" /\ cstart[step] = name

Return == step' = step + 1 /\ UNCHANGED <<raised, cpu>>

init_gdt ==
  /\ Call("init_gdt") /\ Return
  /\ gdt' = InitialisedGDT
  /\ UNCHANGED <<gdtr, ist1, tr, idt, idtr, interrupts, io, pic, star, lstar, selectors>>

init_tss ==
  /\ Call("init_tss") /\ Return
  /\ ist1' = FALSE
  /\ UNCHANGED <<gdt, gdtr, tr, idt, idtr, interrupts, io, pic, star, lstar, selectors>>

load_gdt ==
  /\ Call("load_gdt") /\ Return
  /\ gdtr' = TRUE /\ cs' = Offset("CS64") /\ ss' = Offset("DS")
  /\ UNCHANGED <<gdt, ist1, tr, idt, idtr, interrupts, io, pic, star, lstar, current, saved>>

load_tss ==
  /\ Call("load_tss") /\ Return
  /\ ist1' = TRUE /\ tr' = TRUE
  /\ UNCHANGED <<gdt, gdtr, idt, idtr, interrupts, io, pic, star, lstar, selectors>>

load_exceptionsTrap ==  \* Mutant: trap gates, which leave interrupts enabled
  /\ Call("load_exceptions") /\ Return
  /\ idt' = load_interrupt_fn(idt, ExceptionGates, trap_gate)
  /\ UNCHANGED <<gdt, gdtr, ist1, tr, idtr, interrupts, io, pic, star, lstar, selectors>>

load_exceptions ==
  /\ Call("load_exceptions") /\ Return
  /\ idt' = load_interrupt_fn(idt, ExceptionGates, interrupt_gate)
  /\ UNCHANGED <<gdt, gdtr, ist1, tr, idtr, interrupts, io, pic, star, lstar, selectors>>

load_interrupts ==
  /\ Call("load_interrupts") /\ Return
  /\ idt' = load_interrupt_fn(idt, InterruptGates, interrupt_gate)
  /\ UNCHANGED <<gdt, gdtr, ist1, tr, idtr, interrupts, io, pic, star, lstar, selectors>>

(* One outb after the other, then lidt and sti.                            *)
enable_interrupts ==
  /\ Call("enable_interrupts")
  /\ IF io <= Len(outb)
     THEN /\ LET b == outb[io] IN pic' = [pic EXCEPT ![b[1]] = Write8259(@, b[2], b[3])]
          /\ io' = io + 1
          /\ UNCHANGED <<step, idtr, interrupts, raised, cpu>>
     ELSE /\ idtr' = TRUE /\ interrupts' = TRUE
          /\ Return
          /\ UNCHANGED <<io, pic>>
  /\ UNCHANGED <<gdt, gdtr, ist1, tr, idt, star, lstar, selectors>>

init_scheduler ==
  /\ Call("init_scheduler") /\ Return
  /\ idt' = load_interrupt_fn(idt, {201}, trap_gate)
  /\ UNCHANGED <<gdt, gdtr, ist1, tr, idtr, interrupts, io, pic, star, lstar, selectors>>

(* The user base is CS32U: SYSRET adds 8 for SS and 16 for a 64-bit CS.    *)
setup_syscall ==
  /\ Call("setup_syscall") /\ Return
  /\ star' = [user |-> Offset("CS32U"), kernel |-> Offset("CS64")]
  /\ lstar' = TRUE
  /\ UNCHANGED <<gdt, gdtr, ist1, tr, idt, idtr, interrupts, io, pic, selectors>>

(* What the loop over the modules (Boot) does for the processor: make_task *)
(* writes selectors, the loop ends, or frame_alloc panics with int $200.   *)
MakeProcess ==
  /\ Call("processes")
  /\ saved' = [saved EXCEPT !["process"] = [cs |-> Offset("CS64U") + 3, ss |-> Offset("DSU") + 3]]
  /\ UNCHANGED <<step, setup, raised, cs, ss, current, cpu>>

ProcessesMade ==
  /\ Call("processes") /\ Return
  /\ UNCHANGED <<setup, selectors>>

Panic ==
  /\ Call("processes")
  /\ Stops(200)
  /\ UNCHANGED <<step, gdt, gdtr, ist1, tr, idt, idtr, io, pic, star, lstar, raised, selectors>>

----------------------------------------------------------------------------
(* Switching tasks: int $201 (asm_reschedule) saves the selectors and irets *)
(* with those of the next task, whichever the scheduler takes.             *)

UserMode == cs % 8 = 3

IretFits(c, s) ==
  /\ Descriptor(c).present /\ Descriptor(c).code /\ Descriptor(c).long_mode
  /\ Descriptor(c).dpl = c % 8
  /\ Descriptor(s).present /\ ~Descriptor(s).code /\ Descriptor(s).dpl = c % 8

Reschedule(next) ==
  /\ saved' = [saved EXCEPT ![current] = [cs |-> cs, ss |-> ss]]
  /\ IF Entered(201) = {201} /\ IretFits(saved'[next].cs, saved'[next].ss)
     THEN /\ current' = next /\ cs' = saved'[next].cs /\ ss' = saved'[next].ss
          /\ UNCHANGED <<interrupts, cpu>>
     ELSE /\ Stops(13)
          /\ UNCHANGED <<current, cs, ss>>
  /\ UNCHANGED <<gdt, gdtr, ist1, tr, idt, idtr, io, pic, star, lstar, raised>>

Made(t) == t = "idle" \/ saved["process"].cs # 0

(* idle_loop's int $201.  When idle gets the processor back it is at hlt,  *)
(* which no interrupt ever ends.                                           *)
idle_loop ==
  /\ Call("idle_loop")
  /\ step' = step + 1
  /\ \E next \in {"idle", "process"} : Made(next) /\ Reschedule(next)

(* In a system call the process may yield, in kernel mode; in user mode it *)
(* may execute int $201, which every gate's dpl allows.                    *)
ProcessYields ==
  /\ cpu = "running" /\ current = "process"
  /\ \E next \in {"idle", "process"} : Reschedule(next)
  /\ UNCHANGED step

Syscall ==
  /\ cpu = "running" /\ current = "process" /\ UserMode
  /\ cs' = star.kernel /\ ss' = star.kernel + 8
  /\ cpu' = IF lstar THEN cpu ELSE "wild"
  /\ UNCHANGED <<step, setup, raised, current, saved>>

Sysret ==
  /\ cpu = "running" /\ current = "process" /\ ~UserMode
  /\ cs' = star.user + 16 + 3 /\ ss' = star.user + 8 + 3
  /\ UNCHANGED <<step, setup, raised, current, saved, cpu>>

(* The code that runs faults.                                              *)
Fault(v) ==
  /\ cpu = "running" /\ ~Call("hlt")
  /\ Stops(v)
  /\ UNCHANGED <<step, gdt, gdtr, ist1, tr, idt, idtr, io, pic, star, lstar, raised, selectors>>

(* A device raises its line; nothing ever acknowledges it.                 *)
Raise(n) ==
  /\ n \notin raised
  /\ raised' = raised \cup {n}
  /\ UNCHANGED <<step, setup, selectors, cpu>>

(* cstart as far as the modules.                                           *)
SetUpProcessor ==
  \/ init_gdt
  \/ init_tss
  \/ load_gdt
  \/ load_tss
  \/ load_exceptions
  \/ load_interrupts
  \/ enable_interrupts
  \/ init_scheduler
  \/ setup_syscall

(* From idle_loop on.                                                      *)
RunTasks ==
  \/ idle_loop
  \/ ProcessYields
  \/ Syscall
  \/ Sysret

Disturb ==
  \/ \E v \in FaultVectors : Fault(v)
  \/ \E n \in Lines : Raise(n)

----------------------------------------------------------------------------
(* Properties.                                                             *)

Controllers == [icw : {0, 2, 3, 4}, offset : 0 .. 255, mask : 0 .. 255]

(* None yet, those of bootstrap.s, the kernel's and a process's.           *)
Selectors == {[cs |-> 0, ss |-> 0], [cs |-> 16, ss |-> 0],
              [cs |-> Offset("CS64"), ss |-> Offset("DS")],
              [cs |-> Offset("CS64U") + 3, ss |-> Offset("DSU") + 3]}

StartupTypeOK ==
  /\ step \in DOMAIN cstart /\ io \in 1 .. Len(outb) + 1
  /\ gdt \in [DOMAIN Layout -> [code : BOOLEAN, dpl : {0, 3}, long_mode : BOOLEAN, present : BOOLEAN]]
  /\ {gdtr, ist1, tr, idtr, interrupts, lstar} \subseteq BOOLEAN
  /\ idt \in [Vectors -> {NoGate, interrupt_gate, trap_gate}]
  /\ pic \in [master : Controllers, slave : Controllers]
  /\ raised \subseteq Lines
  /\ star \in [user : 0 .. 63, kernel : 0 .. 63]
  /\ [cs |-> cs, ss |-> ss] \in Selectors
  /\ current \in {"idle", "process"} /\ saved \in [{"idle", "process"} -> Selectors]
  /\ cpu \in {"running", "halted", "reset", "wild"}

(***************************************************************************)
(* No device interrupts the processor, ever: neither while cstart still    *)
(* runs on the stack that all the gates use (STACK_BOTTOM is both), nor    *)
(* later.  All code of the kernel is written for that: the frame allocator *)
(* and the scheduler take no locks, and the other models let nothing in.   *)
(* It holds because the ten bytes reach the controllers in an order in     *)
(* which the last one of each is its mask, and sti comes after them.       *)
(***************************************************************************)
NoDeviceInterrupt == \A n \in raised : ~Open(n)

(***************************************************************************)
(* Once enable_interrupts returned, no fault of any code resets the        *)
(* machine, and no SYSCALL finds LSTAR unset (what the table of handlers   *)
(* holds is Kernel's): the fault is entered at its gate, or where it has   *)
(* none at that of fault 13 or 8, on a stack and in a segment that are     *)
(* there, whatever cstart still has to set up.  And the processor stays in *)
(* the handler for good, with its interrupts off ("no need to loop here,   *)
(* because interrupts are disabled as this is set as interrupt gate",      *)
(* exceptions.c:8), be it fault or panic.                                  *)
(***************************************************************************)
FaultsStopForGood ==
  idtr => /\ cpu \notin {"reset", "wild"}
          /\ cpu = "halted" => ~interrupts

(***************************************************************************)
(* Privilege is where the selectors say it is: whichever way the process   *)
(* came to where it runs (iret with make_task's selectors or saved ones,   *)
(* SYSCALL, SYSRET), code and stack segment are present, of one privilege, *)
(* and exactly those of the kernel or those make_task gave the process.    *)
(* The four selectors come from two numbers in STAR and the order of the   *)
(* descriptors in struct GDT.                                              *)
(***************************************************************************)
SegmentsFit ==
  current = "process" =>
    /\ IretFits(cs, ss)
    /\ <<cs, ss>> \in {<<Offset("CS64"), Offset("DS")>>, <<Offset("CS64U") + 3, Offset("DSU") + 3>>}
=============================================================================
