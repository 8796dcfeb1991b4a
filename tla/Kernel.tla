------------------------------- MODULE Kernel -------------------------------
(***************************************************************************)
(* Tasks, system calls and the context switch on top of the scheduler:     *)
(* src/src/scheduler_asm.s, syscall_asm.s, syscall_table.c, make_task of   *)
(* scheduler.c, and cstart of main.c, which makes one user task of every   *)
(* boot module.                                                            *)
(*                                                                         *)
(* Registers hold abstract words.  What matters of a word is whose it is:  *)
(* User(s, v, r) is what the program of address space s has in register r  *)
(* in version v of its computation.  The switch is cut where the task      *)
(* table, the flags or the CPU change hands, and nothing else can run in   *)
(* between (the PICs are masked).                                          *)
(***************************************************************************)
EXTENDS Scheduler, Sequences, FiniteSets

CONSTANTS
  KernelSpace,        \* kernel_address_space
  Versions,           \* bound: versions of a program's registers
  Syscalls,           \* values of rax at syscall, 0 .. 255
  PageZero            \* programs linked at address 0: load_elf maps that too

(* cstart schedules module i at priority i, of ten at most.                *)
ASSUME ModulesAssumption ==
  IsFiniteSet(Tasks) /\ 0 .. (Cardinality(Tasks) - 1) \subseteq Priorities
ASSUME PageZeroAssumption == PageZero \subseteq Tasks

VARIABLES
  cpu,                \* the registers of the processor, and cr3
  at,                 \* "run", how far asm_reschedule is, or "lost"
  ist,                \* what int 201 and the prologue pushed on the IST stack
  saved,              \* the register words of each struct task
  address_space,      \* the address_space field of each struct task
  stack,              \* rcx and r11 as syscall_entry_asm pushed them, by space
  called              \* registers at the last syscall (no variable of the code)

kvars == <<cpu, at, ist, saved, address_space, stack, called>>
allvars == <<vars, kvars>>

Threads == Tasks \cup {Idle}

(* Words.  A process's address space is named after its task.              *)
Zero         == <<"zero">>
User(s, v, r) == <<"user", s, v, r>>
Code(label)  == <<"kernel", label>>
Scratch      == <<"kernel", "scratch">>
Below(rsp)   == <<"below", rsp>>       \* further down the same stack
CS64  == <<"CS64">>
DS    == <<"DS">>
CS64U == <<"CS64U + 3">>
DSU   == <<"DSU + 3">>

(* struct task: its first twenty words, lowest address first.              *)
StructTask ==
  <<"SS", "RSP", "RFLAGS", "CS", "RIP", "rbp", "rax", "rbx", "rcx", "rdx", "rsi",
    "rdi", "r8", "r9", "r10", "r11", "r12", "r13", "r14", "r15">>
Registers == {StructTask[w] : w \in 1 .. 20}
Field(r)  == CHOOSE w \in 1 .. 20 : StructTask[w] = r

(* The order in which asm_reschedule pushes the registers, downwards from  *)
(* offset 0xa0, and pops them, upwards from offset 0.                      *)
PushOrder ==
  <<"r15", "r14", "r13", "r12", "r11", "r10", "r9", "r8", "rdi", "rsi", "rdx", "rcx",
    "rbx", "rax", "rbp", "RIP", "CS", "RFLAGS", "RSP", "SS">>

\* Mutant: two registers are popped in the wrong order.
PopOrderSwapped ==
  <<"SS", "RSP", "RFLAGS", "CS", "RIP", "rbp", "rax", "rbx", "rcx", "rdx", "rdi",
    "rsi", "r8", "r9", "r10", "r11", "r12", "r13", "r14", "r15">>

PopOrder ==
  <<"SS", "RSP", "RFLAGS", "CS", "RIP", "rbp", "rax", "rbx", "rcx", "rdx", "rsi",
    "rdi", "r8", "r9", "r10", "r11", "r12", "r13", "r14", "r15">>

(* Registers a C function may leave changed.                               *)
CallerSaved == {"rcx", "rdx", "rsi", "rdi", "r8", "r9", "r10", "r11"}

----------------------------------------------------------------------------
(* Boot.                                                                   *)

(* init_scheduler gives idle_loop_task its address space, and no register. *)
\* Mutant: init_scheduler does not set the address space.
IdleAddressSpaceUnset == Zero

IdleAddressSpace == KernelSpace

KernelInit ==
  /\ Init
  /\ cpu = [r \in Registers \cup {"cr3"} |->
              CASE r = "CS" -> CS64 [] r = "SS" -> DS [] r = "RIP" -> Code("cstart")
                [] r = "cr3" -> KernelSpace [] OTHER -> Code("boot")]
  /\ at = "run"
  /\ ist = <<>>
  /\ saved = [t \in Threads |-> [w \in 1 .. 20 |-> Zero]]
  /\ address_space = [t \in Threads |-> IF t = Idle THEN IdleAddressSpace ELSE Zero]
  /\ stack = [s \in Tasks |-> <<>>]
  /\ called = [t \in Tasks |-> <<>>]

(* The registers make_task sets; the others are zero, as the frame is.     *)
\* Mutant: user_mode is ignored for the code segment.
StartContextPrivileged(t) ==
  [r \in Registers |->
     CASE r = "CS" -> CS64 [] r = "SS" -> DSU
       [] r \in {"RIP", "RFLAGS", "RSP", "rdi"} -> User(t, 0, r)
       [] OTHER -> Zero]

StartContext(t) ==
  [r \in Registers |->
     CASE r = "CS" -> CS64U [] r = "SS" -> DSU
       [] r \in {"RIP", "RFLAGS", "RSP", "rdi"} -> User(t, 0, r)
       [] OTHER -> Zero]

InCstart  == at = "run" /\ current = Idle /\ cpu["RIP"] = Code("cstart")
Scheduled == {slot[p] : p \in Slots} \ {NULL}

(* make_userspace_process for the next boot module ...                     *)
MakeProcess(t) ==
  /\ InCstart
  /\ made = Scheduled
  /\ MakeTask(t)
  /\ saved' = [saved EXCEPT ![t] = [w \in 1 .. 20 |-> StartContext(t)[StructTask[w]]]]
  /\ address_space' = [address_space EXCEPT ![t] = t]
  /\ UNCHANGED <<cpu, at, ist, stack, called>>

(* ... and schedule(i, initrd_task, 0).                                    *)
ScheduleProcess(t) ==
  /\ InCstart
  /\ t \in made \ Scheduled
  /\ Schedule(Cardinality(Scheduled), t)
  /\ UNCHANGED kvars

----------------------------------------------------------------------------
(* asm_reschedule.                                                         *)

(* int 201 pushes SS, RSP, RFLAGS, CS and RIP on the IST stack, and the    *)
(* prologue rbp, rax and rbx, which it then uses.  Coming from user mode   *)
(* the processor loads SS with the null selector.                          *)
Interrupt(next) ==
  /\ at' = "entered"
  /\ ist' = [r \in {"SS", "RSP", "RFLAGS", "CS", "RIP", "rbp", "rax", "rbx"} |->
               IF r = "RIP" THEN next ELSE cpu[r]]
  /\ cpu' = [cpu EXCEPT !["rbp"] = Scratch, !["rax"] = Scratch, !["rbx"] = Scratch,
                        !["CS"] = CS64, !["RIP"] = Code("asm_reschedule"),
                        !["RSP"] = Code("ist1"),
                        !["SS"] = IF cpu["CS"] = CS64U THEN Zero ELSE @]

(* The registers of the interrupted code: on the IST stack or untouched.   *)
Interrupted(r) == IF r \in DOMAIN ist THEN ist[r] ELSE cpu[r]

SaveTask ==
  /\ at = "entered"
  /\ saved' = [saved EXCEPT ![current] = [w \in 1 .. 20 |-> Interrupted(PushOrder[21 - w])]]
  /\ at' = "saved"
  /\ UNCHANGED <<vars, cpu, ist, address_space, stack, called>>

\* Mutant: a task that was suspended is still eligible.
CallSchedulerAllMade ==
  /\ at = "saved"
  /\ Reschedule(made)
  /\ idlePc' = IF current = Idle THEN "hlt" ELSE idlePc
  /\ at' = "chosen"
  /\ cpu' = [r \in DOMAIN cpu |-> IF r \in CallerSaved THEN Scratch ELSE cpu[r]]
  /\ UNCHANGED <<slot, canExecute, made, ist, saved, address_space, stack, called>>

CallScheduler ==
  /\ at = "saved"
  /\ Reschedule(canExecute)
  /\ idlePc' = IF current = Idle THEN "hlt" ELSE idlePc
  /\ at' = "chosen"
  /\ cpu' = [r \in DOMAIN cpu |-> IF r \in CallerSaved THEN Scratch ELSE cpu[r]]
  /\ UNCHANGED <<slot, canExecute, made, ist, saved, address_space, stack, called>>

Popped(t, r) == saved[t][CHOOSE w \in 1 .. 20 : PopOrder[w] = r]

\* Mutant: CR3 is not loaded.
LoadTaskKeepsSpace ==
  /\ at = "chosen"
  /\ cpu' = [r \in DOMAIN cpu |-> IF r = "cr3" THEN cpu[r] ELSE Popped(current, r)]
  /\ at' = "run"
  /\ ist' = <<>>
  /\ UNCHANGED <<vars, saved, address_space, stack, called>>

(* CR3, the registers, and iretq.                                          *)
LoadTask ==
  /\ at = "chosen"
  /\ cpu' = [r \in DOMAIN cpu |->
               IF r = "cr3" THEN address_space[current] ELSE Popped(current, r)]
  /\ at' = "run"
  /\ ist' = <<>>
  /\ UNCHANGED <<vars, saved, address_space, stack, called>>

(* idle_loop: int 201, and hlt when it is resumed.                         *)
IdleLoop ==
  /\ InCstart
  /\ made = Scheduled
  /\ Interrupt(Code("hlt"))
  /\ UNCHANGED <<vars, saved, address_space, stack, called>>

----------------------------------------------------------------------------
(* User programs and system calls.                                         *)

InUser      == at = "run" /\ cpu["CS"] = CS64U
InCode(lbl) == at = "run" /\ cpu["RIP"] = Code(lbl)

UserRegisters == Registers \ {"CS", "SS"}

(* The program computes: new contents of all its registers.                *)
Compute(v) ==
  /\ InUser
  /\ cpu' = [r \in DOMAIN cpu |->
               IF r \in UserRegisters THEN User(cpu["cr3"], v, r) ELSE cpu[r]]
  /\ UNCHANGED <<vars, at, ist, saved, address_space, stack, called>>

(* Gate 201 has privilege level 3: a program may use it directly.          *)
UserInterrupt ==
  /\ InUser
  /\ Interrupt(cpu["RIP"])
  /\ UNCHANGED <<vars, saved, address_space, stack, called>>

(* syscall_table                                                           *)
Handler(n) == CASE n = 1  -> Code("syscall_exit")
                [] n = 4  -> Code("syscall_write")
                [] n = 17 -> Code("syscall_abort")
                [] n = 153 -> Code("syscall_yield")
                [] OTHER -> Zero

(* syscall with rax = n, and syscall_entry_asm up to its call.  The two    *)
(* pushes go where the program's RSP points, with the kernel's rights and  *)
(* unchecked: assumed is that this is the program's own stack and that it  *)
(* has room for them.                                                      *)
Syscall(n) ==
  /\ InUser
  /\ stack' = [stack EXCEPT ![cpu["cr3"]] = <<cpu["RIP"], cpu["RFLAGS"]>>]
  /\ cpu' = [cpu EXCEPT !["rcx"] = cpu["r10"], !["r11"] = cpu["RFLAGS"],
                        !["rax"] = Handler(n), !["RIP"] = Handler(n),
                        !["CS"] = CS64, !["SS"] = DS, !["RSP"] = Below(@)]
  /\ called' = [called EXCEPT ![current] = cpu]
  /\ UNCHANGED <<vars, at, ist, saved, address_space>>

(* yield() in a handler: int 201.                                          *)
syscall_yield ==
  /\ InCode("syscall_yield")
  /\ Interrupt(Code("return"))
  /\ UNCHANGED <<vars, saved, address_space, stack, called>>

(* suspend(NULL): the flag of the current task is cleared, then yield().   *)
syscall_exit ==
  /\ InCode("syscall_exit")
  /\ canExecute' = canExecute \ {current}
  /\ Interrupt(Code("return"))
  /\ UNCHANGED <<slot, made, current, round_schedule, idlePc,
                 saved, address_space, stack, called>>

syscall_write ==
  /\ InCode("syscall_write")
  /\ cpu' = [cpu EXCEPT !["RIP"] = Code("return")]
  /\ UNCHANGED <<vars, at, ist, saved, address_space, stack, called>>

(* abort panics; the call of a missing handler goes to address 0, and     *)
(* faults if no page is there.  The handler of either stays in hlt.        *)
Crash ==
  /\ at = "run"
  /\ \/ cpu["RIP"] = Code("syscall_abort")
     \/ cpu["RIP"] = Zero /\ cpu["cr3"] \notin PageZero
  /\ cpu' = [cpu EXCEPT !["RIP"] = Code("panic")]
  /\ UNCHANGED <<vars, at, ist, saved, address_space, stack, called>>

(* A program linked at address 0 goes on there with the privilege of the   *)
(* kernel.  It may do anything from here on: the model ends.               *)
CallPageZero ==
  /\ at = "run"
  /\ cpu["RIP"] = Zero /\ cpu["cr3"] \in PageZero
  /\ at' = "lost"
  /\ UNCHANGED <<vars, cpu, ist, saved, address_space, stack, called>>

\* Mutant: the two words are popped in the order they were pushed.
SyscallReturnSwapped ==
  /\ InCode("return")
  /\ \E clobbered \in {{}, CallerSaved} :
       cpu' = [r \in DOMAIN cpu |->
                 CASE r = "rax" -> Zero
                   [] r \in {"rcx", "RIP"} -> stack[cpu["cr3"]][2]
                   [] r \in {"r11", "RFLAGS"} -> stack[cpu["cr3"]][1]
                   [] r = "CS" -> CS64U [] r = "SS" -> DSU
                   [] r = "RSP" -> cpu[r][2]
                   [] r \in clobbered \ {"rcx", "r11"} -> Scratch
                   [] OTHER -> cpu[r]]
  /\ stack' = [stack EXCEPT ![cpu["cr3"]] = <<>>]
  /\ called' = [called EXCEPT ![current] = <<>>]
  /\ UNCHANGED <<vars, at, ist, saved, address_space>>

(* The handler returns 0, having changed any caller-saved register or not, *)
(* and syscall_entry_asm pops r11 and rcx for sysretq.                     *)
SyscallReturn ==
  /\ InCode("return")
  /\ \E clobbered \in {{}, CallerSaved} :
       cpu' = [r \in DOMAIN cpu |->
                 CASE r = "rax" -> Zero
                   [] r \in {"rcx", "RIP"} -> stack[cpu["cr3"]][1]
                   [] r \in {"r11", "RFLAGS"} -> stack[cpu["cr3"]][2]
                   [] r = "CS" -> CS64U [] r = "SS" -> DSU
                   [] r = "RSP" -> cpu[r][2]
                   [] r \in clobbered \ {"rcx", "r11"} -> Scratch
                   [] OTHER -> cpu[r]]
  /\ stack' = [stack EXCEPT ![cpu["cr3"]] = <<>>]
  /\ called' = [called EXCEPT ![current] = <<>>]
  /\ UNCHANGED <<vars, at, ist, saved, address_space>>

KernelNext ==
  \/ \E t \in Tasks : MakeProcess(t) \/ ScheduleProcess(t)
  \/ IdleLoop
  \/ SaveTask \/ CallScheduler \/ LoadTask
  \/ \E v \in Versions : Compute(v)
  \/ UserInterrupt
  \/ \E n \in Syscalls : Syscall(n)
  \/ syscall_yield \/ syscall_exit \/ syscall_write \/ Crash \/ CallPageZero
  \/ SyscallReturn

KernelSpec == KernelInit /\ [][KernelNext]_allvars

----------------------------------------------------------------------------
(* Properties.                                                             *)

Spaces == Tasks \cup {KernelSpace}

KernelTypeOK ==
  /\ DOMAIN cpu = Registers \cup {"cr3"}
  /\ cpu["cr3"] \in Spaces
  /\ cpu["CS"] \in {CS64, CS64U} /\ cpu["SS"] \in {DS, DSU, Zero}
  /\ at \in {"run", "entered", "saved", "chosen", "lost"}
  /\ \A t \in Threads : DOMAIN saved[t] = 1 .. 20
  /\ \A t \in made \cup {Idle} : address_space[t] \in Spaces

(* The context of a thread: its struct task, or the processor.             *)
Context(t) ==
  IF t # current \/ at \in {"saved", "chosen"}
    THEN [r \in Registers \cup {"cr3"} |->
            IF r = "cr3" THEN address_space[t] ELSE saved[t][Field(r)]]
    ELSE IF at = "entered" THEN [r \in DOMAIN cpu |-> Interrupted(r)]
    ELSE cpu

(***************************************************************************)
(* Every task has a processor of its own: neither the switch nor what      *)
(* another task does in between changes anything in its registers, its     *)
(* privilege or its address space (asm_reschedule, struct task).           *)
(***************************************************************************)
CPUs == INSTANCE VirtualCPUs WITH
  Nobody <- NULL,
  Boot <- Idle,
  current <- IF at \in {"run", "lost"} THEN current ELSE NULL,
  context <- [t \in Threads |-> Context(t)],
  Start <- LAMBDA t : [r \in Registers \cup {"cr3"} |->
                         IF r = "cr3" THEN t ELSE StartContext(t)[r]]

VirtualCPUsSpec == CPUs!Spec

(***************************************************************************)
(* The kernel runs the scheduler as specified: cut into its steps, with a  *)
(* flag that exit clears before the switch, yield and suspend are still    *)
(* the atomic operations of Scheduler.                                     *)
(***************************************************************************)
Sched == INSTANCE Scheduler WITH
  canExecute <- IF current \in Tasks /\ at # "chosen" THEN canExecute \cup {current}
                                                      ELSE canExecute
SchedulerSpec == Sched!Spec

(***************************************************************************)
(* Whatever runs, runs in its own address space, and a program runs with   *)
(* the privilege of a user, which the kernel's code never has              *)
(* (asm_reschedule, make_task).  The one exception: a program that has     *)
(* something at address 0 gets there with the privilege of the kernel, by  *)
(* the call of a handler that is missing (syscall_entry_asm).              *)
(***************************************************************************)
OwnSpace ==
  /\ at = "run" => /\ cpu["cr3"] = IF current = Idle THEN KernelSpace ELSE current
                   /\ cpu["CS"] = CS64U <=> cpu["RIP"][1] = "user"
  /\ at = "lost" => current \in PageZero

(***************************************************************************)
(* A system call returns to its caller behind the syscall instruction with *)
(* its flags, its stack and the callee-saved registers, whatever ran while *)
(* it was in the kernel (syscall_entry_asm over asm_reschedule).           *)
(***************************************************************************)
SyscallReturnsToCaller ==
  [][ SyscallReturn =>
        \A r \in Registers \ (CallerSaved \cup {"rax"}) : cpu'[r] = called[current][r] ]_allvars

(***************************************************************************)
(* What the asm statement of vdso.c says of a system call: of the argument *)
(* registers only rcx, r8, r9 and r10 are changed.                         *)
(***************************************************************************)
ArgumentsSurvive ==
  [][ SyscallReturn =>
        \A r \in {"rdi", "rsi", "rdx"} : cpu'[r] = called[current][r] ]_allvars
=============================================================================
