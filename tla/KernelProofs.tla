---------------------------- MODULE KernelProofs ----------------------------
(***************************************************************************)
(* The scheduler, for any set of tasks and bands of any size; then context *)
(* switch and system calls, for any number of tasks and a vector of any    *)
(* size: each task keeps its processor, its address space, its privilege   *)
(* and, over a system call, its registers.  Cut into its steps, the        *)
(* kernel runs the scheduler as specified.                                 *)
(***************************************************************************)
EXTENDS Kernel, FiniteSetTheorems, TLAPS

----------------------------------------------------------------------------
(* scheduler.c alone.  The invariants are inductive together; the two      *)
(* action properties follow from TypeOK and from what one scan of the      *)
(* vector does (the lemmas).                                               *)

IInv == TypeOK /\ SuspendedNeverRuns /\ HaltLosesAtMostOne

(* The positions of one round, in terms of the distance Turn: the loop     *)
(* sees exactly the slots that are not Band - 1 away.                      *)
LEMMA PositionOfTurn ==
  ASSUME TypeOK
  PROVE  /\ \A k \in 0 .. (Band - 2) :
              Position(k) \in RoundSlots /\ Turn(Position(k)) = k
         /\ \A q \in RoundSlots :
              Turn(q) \in 0 .. (Band - 1) /\ (Turn(q) # Band - 1 => Position(Turn(q)) = q)
<1> USE BandAssumption DEF TypeOK, RoundSlots, Turn
<1>1. \A x \in 0 .. (2 * Band - 1) : x % Band = IF x < Band THEN x ELSE x - Band
  OBVIOUS
<1>2. \A k \in 0 .. (Band - 2) :
        Position(k) = IF round_schedule + k < Band THEN round_schedule + k
                                                   ELSE round_schedule + k - Band
  <2> SUFFICES ASSUME NEW k \in 0 .. (Band - 2)
               PROVE  Position(k) = IF round_schedule + k < Band THEN round_schedule + k
                                                   ELSE round_schedule + k - Band
    OBVIOUS
  <2>1. round_schedule + k \in 0 .. (2 * Band - 1)
    OBVIOUS
  <2> QED BY <1>1, <2>1 DEF Position
<1>3. \A k \in 0 .. (Band - 2) : Position(k) \in RoundSlots /\ Turn(Position(k)) = k
  BY <1>2
<1>4. \A q \in RoundSlots : Turn(q) \in 0 .. (Band - 1)
  OBVIOUS
<1>5. ASSUME NEW q \in RoundSlots, Turn(q) # Band - 1  PROVE Position(Turn(q)) = q
  <2>1. Turn(q) \in 0 .. (Band - 2)
    BY <1>4, <1>5
  <2> QED BY <1>2, <2>1
<1> QED BY <1>3, <1>4, <1>5

(* One scan of the vector: who may get the CPU, where the round goes on,   *)
(* and what is not ready when idle is chosen.                              *)
LEMMA ScanResult ==
  ASSUME TypeOK
  PROVE  \A can \in SUBSET Tasks : Reschedule(can) =>
           /\ current' \in can \cup {Idle}
           /\ round_schedule' \in 0 .. Band
           /\ current' = Idle =>
                \A p \in Slots : slot[p] \in can => p \in RoundSlots /\ Turn(p) = Band - 1
           /\ current' = Idle => round_schedule' = round_schedule
<1> SUFFICES ASSUME NEW can \in SUBSET Tasks, Reschedule(can)
             PROVE  /\ current' \in can \cup {Idle}
                    /\ round_schedule' \in 0 .. Band
                    /\ current' = Idle =>
                         \A p \in Slots : slot[p] \in can => p \in RoundSlots /\ Turn(p) = Band - 1
                    /\ current' = Idle => round_schedule' = round_schedule
  OBVIOUS
<1>1. CASE TakeUrgent(can)
  BY <1>1, NamesAssumption DEF TakeUrgent, UrgentReady, TypeOK
<1>2. CASE TakeRound(can)
  <2> PICK k \in ReadyTurns(can) :
        current' = slot[Position(k)] /\ round_schedule' = Position(k) + 1
    BY <1>2 DEF TakeRound
  <2>1. k \in 0 .. (Band - 2) /\ slot[Position(k)] \in can
    BY DEF ReadyTurns
  <2>2. Position(k) \in 0 .. (Band - 1)
    BY <2>1, PositionOfTurn DEF RoundSlots
  <2> QED BY <2>1, <2>2, NamesAssumption, BandAssumption
<1>3. CASE TakeIdle(can)
  <2>1. ASSUME NEW p \in Slots, slot[p] \in can
        PROVE  p \in RoundSlots /\ Turn(p) = Band - 1
    <3>1. p \in RoundSlots
      BY <1>3, <2>1 DEF TakeIdle, UrgentReady, Slots
    <3>2. Turn(p) \in 0 .. (Band - 1) /\ (Turn(p) # Band - 1 => Position(Turn(p)) = p)
      BY <3>1, PositionOfTurn
    <3>3. Turn(p) # Band - 1 => Turn(p) \in ReadyTurns(can)
      BY <2>1, <3>2, BandAssumption DEF ReadyTurns
    <3> QED BY <1>3, <3>1, <3>3 DEF TakeIdle
  <2> QED BY <1>3, <2>1 DEF TakeIdle, TypeOK
<1> QED BY <1>1, <1>2, <1>3 DEF Reschedule

(* After a scan, each waiting slot of the round is nearer to its turn.     *)
LEMMA ScanProgress ==
  ASSUME TypeOK
  PROVE  \A can \in SUBSET Tasks : Reschedule(can) =>
           \/ /\ round_schedule' = round_schedule
              /\ \/ current' = Idle
                 \/ \E p \in UrgentSlots : current' = slot[p] /\ slot[p] \in can
           \/ \E p \in RoundSlots :
                /\ current' = slot[p] /\ slot[p] \in can
                /\ \A q \in RoundSlots \ {p} : slot[q] \in can => Turn(q)' < Turn(q)
<1> SUFFICES ASSUME NEW can \in SUBSET Tasks, Reschedule(can)
             PROVE  \/ /\ round_schedule' = round_schedule
                       /\ \/ current' = Idle
                          \/ \E p \in UrgentSlots : current' = slot[p] /\ slot[p] \in can
                    \/ \E p \in RoundSlots :
                         /\ current' = slot[p] /\ slot[p] \in can
                         /\ \A q \in RoundSlots \ {p} : slot[q] \in can => Turn(q)' < Turn(q)
  OBVIOUS
<1>1. CASE TakeUrgent(can)
  BY <1>1 DEF TakeUrgent, UrgentReady
<1>2. CASE TakeIdle(can)
  BY <1>2 DEF TakeIdle
<1>3. CASE TakeRound(can)
  <2> PICK k \in ReadyTurns(can) :
        /\ \A j \in ReadyTurns(can) : k <= j
        /\ current' = slot[Position(k)]
        /\ round_schedule' = Position(k) + 1
    BY <1>3 DEF TakeRound
  <2>1. k \in 0 .. (Band - 2) /\ slot[Position(k)] \in can
    BY DEF ReadyTurns
  <2>2. Position(k) \in RoundSlots /\ Turn(Position(k)) = k
    BY <2>1, PositionOfTurn
  <2>3. ASSUME NEW q \in RoundSlots \ {Position(k)}, slot[q] \in can
        PROVE  Turn(q)' < Turn(q)
    <3>1. Turn(q) \in 0 .. (Band - 1) /\ (Turn(q) # Band - 1 => Position(Turn(q)) = q)
      BY PositionOfTurn
    <3>2. Turn(q) > k
      BY <2>1, <2>3, <3>1, BandAssumption DEF ReadyTurns
    <3> QED
      BY <2>1, <2>2, <3>2, BandAssumption DEF Turn, RoundSlots, TypeOK
  <2> QED BY <2>1, <2>2, <2>3
<1> QED BY <1>1, <1>2, <1>3 DEF Reschedule

----------------------------------------------------------------------------
(* The inductive invariant.                                                *)

LEMMA InvInit == Init => IInv
<1> SUFFICES ASSUME Init PROVE IInv
  OBVIOUS
<1>1. TypeOK
  BY BandAssumption DEF Init, TypeOK
<1>2. SuspendedNeverRuns
  BY NamesAssumption DEF Init, SuspendedNeverRuns
<1>3. HaltLosesAtMostOne
  BY DEF Init, HaltLosesAtMostOne, Halted
<1> QED BY <1>1, <1>2, <1>3 DEF IInv

(* A step that ends in a switch, seen through the flags it leaves behind.  *)
LEMMA InvSwitch ==
  ASSUME TypeOK, Reschedule(canExecute'), canExecute' \in SUBSET made,
         UNCHANGED <<slot, made>>, idlePc' \in {"boot", "hlt"}
  PROVE  IInv'
<1>1. canExecute' \in SUBSET Tasks
  BY DEF TypeOK
<1>2. /\ current' \in canExecute' \cup {Idle}
      /\ round_schedule' \in 0 .. Band
      /\ current' = Idle =>
           \A p \in Slots : slot[p] \in canExecute' => p \in RoundSlots /\ Turn(p) = Band - 1
      /\ current' = Idle => round_schedule' = round_schedule
  BY <1>1, ScanResult
<1>3. TypeOK'
  BY <1>1, <1>2 DEF TypeOK
<1>4. SuspendedNeverRuns'
  BY <1>2, NamesAssumption DEF SuspendedNeverRuns
<1>5. HaltLosesAtMostOne'
  BY <1>2 DEF HaltLosesAtMostOne, Halted, Ready, Turn
<1> QED BY <1>3, <1>4, <1>5 DEF IInv

LEMMA InvNext == IInv /\ [Next]_vars => IInv'
<1> SUFFICES ASSUME IInv, [Next]_vars PROVE IInv'
  OBVIOUS
<1> USE DEF IInv
<1>1. ASSUME NEW t \in Tasks, MakeTask(t) PROVE IInv'
  <2>1. TypeOK'
    BY <1>1 DEF MakeTask, TypeOK
  <2>2. SuspendedNeverRuns'
    BY <1>1 DEF MakeTask, SuspendedNeverRuns
  <2>3. ~Halted'
    BY <1>1, NamesAssumption DEF MakeTask, KernelCode, Running, Halted
  <2> QED BY <2>1, <2>2, <2>3 DEF HaltLosesAtMostOne
<1>2. ASSUME NEW t \in Tasks, Suspend(t) PROVE IInv'
  BY <1>2, InvSwitch DEF Suspend, TypeOK
<1>3. ASSUME NEW t \in Tasks, Resume(t) PROVE IInv'
  <2>1. TypeOK'
    BY <1>3 DEF Resume, TypeOK
  <2>2. SuspendedNeverRuns'
    BY <1>3 DEF Resume, SuspendedNeverRuns
  <2>3. ~Halted'
    BY <1>3, NamesAssumption DEF Resume, TaskCode, Halted
  <2> QED BY <2>1, <2>2, <2>3 DEF HaltLosesAtMostOne
<1>4. ASSUME NEW p \in Priorities, NEW t \in Tasks \cup {NULL}, Schedule(p, t) PROVE IInv'
  <2>1. TypeOK'
    BY <1>4 DEF Schedule, TypeOK
  <2>2. SuspendedNeverRuns'
    BY <1>4 DEF Schedule, SuspendedNeverRuns
  <2>3. ~Halted'
    BY <1>4, NamesAssumption DEF Schedule, KernelCode, Running, Halted
  <2> QED BY <2>1, <2>2, <2>3 DEF HaltLosesAtMostOne
<1>5. CASE Yield
  <2>1. Reschedule(canExecute') /\ canExecute' = canExecute
    BY <1>5 DEF Yield
  <2> QED BY <1>5, <2>1, InvSwitch DEF Yield, TypeOK
<1>6. CASE IdleYield
  <2>1. Reschedule(canExecute') /\ canExecute' = canExecute
    BY <1>6 DEF IdleYield
  <2> QED BY <1>6, <2>1, InvSwitch DEF IdleYield, TypeOK
<1>7. CASE UNCHANGED vars
  BY <1>7 DEF vars, TypeOK, SuspendedNeverRuns, HaltLosesAtMostOne, Halted, Ready, Turn
<1> QED BY <1>1, <1>2, <1>3, <1>4, <1>5, <1>6, <1>7 DEF Next

----------------------------------------------------------------------------
(* The theorems.                                                           *)

(* Every reachable state satisfies the inductive invariant.                *)
LEMMA Invariance == Spec => []IInv
<1> QED BY InvInit, InvNext, PTL DEF Spec

(* The slots hold tasks or NULL, and the round stays within its band.      *)
THEOREM TypeCorrect == Spec => []TypeOK
<1>1. IInv => TypeOK
  BY DEF IInv
<1> QED BY Invariance, <1>1, PTL

(* A suspended task is never the one that runs.                            *)
THEOREM SuspendIsEffective == Spec => []SuspendedNeverRuns
<1>1. IInv => SuspendedNeverRuns
  BY DEF IInv
<1> QED BY Invariance, <1>1, PTL

(* Whatever the size of the band, the CPU halts with at most one slot      *)
(* ready, the one the scan leaves out.                                     *)
THEOREM HaltIsAlmostIdle == Spec => []HaltLosesAtMostOne
<1>1. IInv => HaltLosesAtMostOne
  BY DEF IInv
<1> QED BY Invariance, <1>1, PTL

(* What a switch of the specification is: a scan with the new flags.       *)
LEMMA SwitchScans ==
  ASSUME TypeOK, Switch
  PROVE  Reschedule(canExecute') /\ canExecute' \in SUBSET Tasks
<1>1. CASE Yield
  <2>1. canExecute' = canExecute
    BY <1>1 DEF Yield
  <2> QED BY <1>1, <2>1 DEF Yield, TypeOK
<1>2. CASE IdleYield
  <2>1. canExecute' = canExecute
    BY <1>2 DEF IdleYield
  <2> QED BY <1>2, <2>1 DEF IdleYield, TypeOK
<1>3. ASSUME NEW t \in Tasks, Suspend(t)
      PROVE  Reschedule(canExecute') /\ canExecute' \in SUBSET Tasks
  BY <1>3 DEF Suspend, TypeOK
<1> QED BY <1>1, <1>2, <1>3 DEF Switch

(* The waiting slots of the round come nearer at every switch: with        *)
(* Turn bounded by Band - 1, a ready slot is passed over fewer than Band   *)
(* times.                                                                  *)
THEOREM BoundedOvertaking == Spec => EveryTurnComesNearer
<1> DEFINE Step == \/ /\ round_schedule' = round_schedule
                      /\ Switch => current' = Idle \/ TakesUrgent
                   \/ \E p \in RoundSlots :
                        /\ current' = slot[p] /\ slot[p] \in canExecute'
                        /\ \A q \in RoundSlots \ {p} :
                             slot[q] \in canExecute' => Turn(q)' < Turn(q)
<1>1. ASSUME TypeOK, [Next]_vars PROVE [Step]_vars
  <2>1. CASE Switch
    BY <1>1, <2>1, SwitchScans, ScanProgress DEF TakesUrgent
  <2>2. CASE ~Switch
    BY <1>1, <2>2 DEF Next, Switch, MakeTask, Resume, Schedule
  <2> QED BY <2>1, <2>2
<1> QED BY <1>1, TypeCorrect, PTL DEF Spec, EveryTurnComesNearer

(* No switch passes over a ready urgent slot.                              *)
THEOREM UrgentSlotsFirst == Spec => UrgentFirst
<1> DEFINE Step == Switch =>
                     \A q \in UrgentSlots : slot[q] \in canExecute' =>
                       \E p \in UrgentSlots : p <= q /\ current' = slot[p]
<1>1. ASSUME TypeOK, [Next]_vars PROVE [Step]_vars
  <2> SUFFICES ASSUME Switch, NEW q \in UrgentSlots, slot[q] \in canExecute'
               PROVE  \E p \in UrgentSlots : p <= q /\ current' = slot[p]
    OBVIOUS
  <2>1. Reschedule(canExecute')
    BY <1>1, SwitchScans
  <2>2. UrgentReady(canExecute') # {} /\ q \in UrgentReady(canExecute')
    BY DEF UrgentReady
  <2>3. TakeUrgent(canExecute')
    BY <2>1, <2>2 DEF Reschedule, TakeRound, TakeIdle
  <2> QED BY <2>2, <2>3 DEF TakeUrgent, UrgentReady
<1> QED BY <1>1, TypeCorrect, PTL DEF Spec, UrgentFirst

----------------------------------------------------------------------------
(* Context switch and system calls.                                        *)

Words   == Registers \cup {"cr3"}
OnStack == {"SS", "RSP", "RFLAGS", "CS", "RIP", "rbp", "rax", "rbx"}

(* What every C function leaves alone, and syscall_entry_asm with it.      *)
Preserved == Registers \ (CallerSaved \cup {"rax", "RSP", "RIP", "RFLAGS", "CS", "SS"})

Own(t) == IF t = Idle THEN KernelSpace ELSE t

(* A context is a user's with a user's selectors, or the kernel's.         *)
Privilege(t, c) ==
  /\ c["CS"] \in {CS64, CS64U} /\ c["SS"] \in {DS, DSU, Zero}
  /\ c["CS"] = CS64U <=> c["RIP"][1] = "user"
  /\ c["CS"] = CS64U => c["SS"] = DSU /\ t # Idle
  /\ t = Idle => c["RIP"] \in {Code("cstart"), Code("hlt")}

(* The kernel, on behalf of t: what t had at its syscall is on the stack   *)
(* or in the registers still.                                              *)
Serves(t, c) ==
  /\ stack[t] = <<called[t]["RIP"], called[t]["RFLAGS"]>>
  /\ called[t]["RIP"][1] = "user"
  /\ called[t]["CS"] = CS64U /\ called[t]["SS"] = DSU
  /\ c["RSP"] = Below(called[t]["RSP"])
  /\ \A r \in Preserved : c[r] = called[t][r]

Good(t) ==
  /\ address_space[t] = Own(t) /\ Context(t)["cr3"] = Own(t)
  /\ Privilege(t, Context(t))
  /\ t # Idle /\ Context(t)["CS"] = CS64 => Serves(t, Context(t))

Shapes ==
  /\ cpu = [r \in Words |-> cpu[r]]
  /\ at \in {"run", "entered", "saved", "chosen", "lost"}
  /\ at = "entered" => DOMAIN ist = OnStack
  /\ saved = [t \in Threads |-> saved[t]] /\ \A t \in Threads : DOMAIN saved[t] = 1 .. 20
  /\ address_space = [t \in Threads |-> address_space[t]]
  /\ stack = [s \in Tasks |-> stack[s]]
  /\ called = [t \in Tasks |-> called[t]]
  /\ cpu["cr3"] \in Spaces /\ cpu["CS"] \in {CS64, CS64U} /\ cpu["SS"] \in {DS, DSU, Zero}

KInv ==
  /\ TypeOK
  /\ current \in made \cup {Idle}
  /\ Shapes
  /\ \A t \in made \cup {Idle} : Good(t)

----------------------------------------------------------------------------
(* The orders of scheduler_asm.s.                                          *)

LEMMA Names ==
  /\ Registers = {"SS", "RSP", "RFLAGS", "CS", "RIP", "rbp", "rax", "rbx", "rcx", "rdx", "rsi",
                  "rdi", "r8", "r9", "r10", "r11", "r12", "r13", "r14", "r15"}
  /\ "cr3" \notin Registers
  BY DEF Registers, StructTask

LEMMA PushedInOrder == \A w \in 1 .. 20 : PushOrder[21 - w] = StructTask[w]
  BY DEF StructTask, PushOrder

LEMMA FieldOfRegister == \A r \in Registers : Field(r) \in 1 .. 20 /\ StructTask[Field(r)] = r
  BY DEF Registers, Field

LEMMA PoppedFromField ==
  ASSUME NEW t, NEW r
  PROVE  Popped(t, r) = saved[t][Field(r)]
<1>1. StructTask = PopOrder
  BY DEF StructTask, PopOrder
<1> QED
  BY <1>1 DEF Popped, Field

(* The three steps of a switch, and system calls, register by register.    *)
LEMMA InterruptSaves ==
  ASSUME Shapes, NEW next, Interrupt(next)
  PROVE  /\ at' = "entered" /\ DOMAIN ist' = OnStack
         /\ cpu' = [r \in Words |-> cpu'[r]]
         /\ cpu'["cr3"] = cpu["cr3"] /\ cpu'["CS"] = CS64
         /\ cpu'["SS"] \in {Zero, cpu["SS"]}
         /\ \A r \in Words : Interrupted(r)' = IF r = "RIP" THEN next ELSE cpu[r]
<1>1. at' = "entered" /\ cpu' = [r \in Words |-> cpu'[r]]
  BY DEF Interrupt, Shapes
<1>2. \A r \in Words : r \notin OnStack => cpu'[r] = cpu[r]
  BY DEF Interrupt, OnStack, Shapes
<1>3. cpu'["CS"] = CS64
  BY Names DEF Interrupt, Words, Shapes
<1>4. cpu'["SS"] \in {Zero, cpu["SS"]}
  BY Names DEF Interrupt, Words, Shapes
<1>5. DOMAIN ist' = OnStack /\ \A r \in OnStack : ist'[r] = IF r = "RIP" THEN next ELSE cpu[r]
  BY DEF Interrupt, OnStack
<1> QED
  BY <1>1, <1>2, <1>3, <1>4, <1>5 DEF Interrupted, Words, OnStack

LEMMA SyscallRegisters ==
  ASSUME Shapes, NEW n, Syscall(n)
  PROVE  /\ cpu' = [r \in Words |-> cpu'[r]]
         /\ cpu'["CS"] = CS64 /\ cpu'["SS"] = DS
         /\ cpu'["RIP"] = Handler(n) /\ cpu'["RSP"] = Below(cpu["RSP"])
         /\ \A r \in Preserved \cup {"cr3"} : cpu'[r] = cpu[r]
<1>1. cpu' = [r \in Words |-> cpu'[r]]
  BY DEF Syscall, Shapes
<1>2. /\ cpu'["CS"] = CS64 /\ cpu'["SS"] = DS
      /\ cpu'["RIP"] = Handler(n) /\ cpu'["RSP"] = Below(cpu["RSP"])
  BY Names DEF Syscall, Shapes, Words
<1>3. \A r \in Preserved \cup {"cr3"} : cpu'[r] = cpu[r]
  BY Names DEF Syscall, Shapes, Words, Preserved, CallerSaved
<1> QED
  BY <1>1, <1>2, <1>3

LEMMA ReturnRegisters ==
  ASSUME Shapes, SyscallReturn
  PROVE  /\ cpu' = [r \in Words |-> cpu'[r]]
         /\ cpu'["CS"] = CS64U /\ cpu'["SS"] = DSU
         /\ cpu'["RIP"] = stack[cpu["cr3"]][1] /\ cpu'["RFLAGS"] = stack[cpu["cr3"]][2]
         /\ cpu'["RSP"] = cpu["RSP"][2]
         /\ \A r \in Preserved \cup {"cr3"} : cpu'[r] = cpu[r]
<1>1. cpu' = [r \in Words |-> cpu'[r]]
  BY DEF SyscallReturn, Shapes
<1>2. /\ cpu'["CS"] = CS64U /\ cpu'["SS"] = DSU
      /\ cpu'["RIP"] = stack[cpu["cr3"]][1] /\ cpu'["RFLAGS"] = stack[cpu["cr3"]][2]
      /\ cpu'["RSP"] = cpu["RSP"][2]
  BY Names DEF SyscallReturn, Shapes, Words, CallerSaved
<1>3. \A r \in Preserved \cup {"cr3"} : cpu'[r] = cpu[r]
  BY Names DEF SyscallReturn, Shapes, Words, Preserved, CallerSaved
<1> QED
  BY <1>1, <1>2, <1>3

LEMMA StartRegisters ==
  ASSUME NEW t
  PROVE  /\ StartContext(t)["CS"] = CS64U /\ StartContext(t)["SS"] = DSU
         /\ StartContext(t)["RIP"] = User(t, 0, "RIP")
  BY Names DEF StartContext

----------------------------------------------------------------------------
(* Contexts.                                                               *)

LEMMA InProcessor ==
  ASSUME Shapes, at = "run"
  PROVE  Context(current) = cpu
  BY DEF Context

(* Off the processor: the struct task.                                     *)
LEMMA InStruct ==
  ASSUME NEW t, t # current \/ at \in {"saved", "chosen"}
  PROVE  /\ Context(t) = [r \in Words |-> Context(t)[r]]
         /\ Context(t)["cr3"] = address_space[t]
         /\ \A r \in Registers : Context(t)[r] = saved[t][Field(r)]
  BY Names DEF Context, Words

LEMMA GoodKept ==
  ASSUME KInv, UNCHANGED <<current, made, kvars>>
  PROVE  \A t \in made \cup {Idle} : Good(t)'
<1>1. /\ current' = current /\ cpu' = cpu /\ at' = at /\ ist' = ist /\ saved' = saved
      /\ address_space' = address_space /\ stack' = stack /\ called' = called
  BY DEF kvars
<1>2. ASSUME NEW t \in made \cup {Idle}
      PROVE  Good(t)'
  <2>1. Context(t)' = Context(t) /\ Good(t)
    BY <1>1, <1>2 DEF Context, Interrupted, KInv
  <2> QED
    BY <1>1, <2>1 DEF Good, Serves
<1> QED
  BY <1>2

LEMMA OthersKeptHere ==
  ASSUME at \in {"run", "entered"}, at' \in {"run", "entered", "lost"},
         UNCHANGED <<current, saved, address_space>>,
         NEW t, t # current
  PROVE  Context(t)' = Context(t)
  BY DEF Context

----------------------------------------------------------------------------
(* The scheduler's variables under the kernel's steps.                     *)

LEMMA SlotsKept ==
  ASSUME KInv, UNCHANGED vars
  PROVE  TypeOK' /\ made' = made /\ current' \in made' \cup {Idle}
  BY DEF KInv, TypeOK, vars

LEMMA Levels == CS64 # CS64U
  BY DEF CS64, CS64U

(* A step of the running code changes its own context and what the kernel  *)
(* keeps for it.                                                           *)
LEMMA RunKeepsOthers ==
  ASSUME KInv, at = "run", at' \in {"run", "entered", "lost"},
         UNCHANGED <<current, made, saved, address_space>>,
         \A s \in Tasks \ {current} : stack'[s] = stack[s] /\ called'[s] = called[s],
         TypeOK', Shapes', Good(current)'
  PROVE  KInv'
<1>1. ASSUME NEW t \in made \cup {Idle}, t # current
      PROVE  Good(t)'
  <2>1. Context(t)' = Context(t)
    BY <1>1, OthersKeptHere
  <2>2. Good(t) /\ address_space'[t] = address_space[t]
    BY <1>1 DEF KInv
  <2>3. t # Idle => stack'[t] = stack[t] /\ called'[t] = called[t]
    BY <1>1 DEF KInv, TypeOK
  <2> QED
    BY <2>1, <2>2, <2>3 DEF Good, Serves
<1> QED
  BY <1>1 DEF KInv

(* How the running code is placed.                                         *)
LEMMA Placed ==
  ASSUME KInv, at = "run"
  PROVE  /\ current \in Threads
         /\ cpu["cr3"] = Own(current) /\ address_space[current] = Own(current)
         /\ Privilege(current, cpu)
         /\ current # Idle /\ cpu["CS"] = CS64 => Serves(current, cpu)
<1>1. current \in made \cup {Idle} /\ Good(current) /\ current \in Threads
  BY DEF KInv, TypeOK, Threads
<1>2. Context(current) = cpu
  BY InProcessor DEF KInv
<1> QED
  BY <1>1, <1>2 DEF Good

----------------------------------------------------------------------------
(* The steps of user programs and of system calls.                         *)

LEMMA ComputeKeepsInv ==
  ASSUME KInv, NEW v \in Versions, Compute(v)
  PROVE  KInv'
<1>1. /\ cpu' = [r \in Words |-> cpu'[r]]
      /\ cpu'["RIP"][1] = "user" /\ \A r \in {"cr3", "CS", "SS"} : cpu'[r] = cpu[r]
  BY Names DEF Compute, UserRegisters, Words, User, KInv, Shapes
<1>2. Shapes'
  BY <1>1 DEF Compute, Shapes, KInv
<1>3. at = "run" /\ cpu["CS"] = CS64U /\ Context(current)' = cpu'
  BY <1>2, InProcessor DEF Compute, InUser, Context
<1>4. UNCHANGED <<current, made, at, saved, address_space, stack, called>>
  BY DEF Compute, vars
<1>5. Privilege(current, cpu) /\ cpu["cr3"] = Own(current) /\ address_space[current] = Own(current)
  BY <1>3, Placed
<1>6. Privilege(current, cpu)'
  BY <1>1, <1>3, <1>4, <1>5 DEF Privilege
<1>7. Good(current)'
  BY <1>1, <1>3, <1>4, <1>5, <1>6, Levels DEF Good, Own
<1>8. TypeOK'
  BY SlotsKept DEF Compute
<1> QED
  BY <1>2, <1>3, <1>4, <1>7, <1>8, RunKeepsOthers

(* int 201, with what becomes of RIP.                                      *)
LEMMA InterruptKeepsInv ==
  ASSUME KInv, at = "run", NEW next, Interrupt(next),
         UNCHANGED <<current, made, saved, address_space, stack, called>>, TypeOK',
         next[1] = cpu["RIP"][1] \/ (cpu["CS"] = CS64 /\ next[1] # "user"),
         current = Idle => next \in {Code("cstart"), Code("hlt")}
  PROVE  KInv'
<1>1. Shapes
  BY DEF KInv
<1>2. Shapes'
  BY <1>1, InterruptSaves DEF Shapes
<1>3. \A r \in Words : Context(current)'[r] = IF r = "RIP" THEN next ELSE cpu[r]
  <2>1. Context(current)' = [r \in DOMAIN cpu' |-> Interrupted(r)']
    BY <1>1, InterruptSaves DEF Context
  <2>2. DOMAIN cpu' = Words
    BY <1>2 DEF Shapes
  <2> QED
    BY <1>1, <2>1, <2>2, InterruptSaves
<1>4. /\ Context(current)'["cr3"] = cpu["cr3"] /\ Context(current)'["CS"] = cpu["CS"]
      /\ Context(current)'["SS"] = cpu["SS"] /\ Context(current)'["RIP"] = next
      /\ Context(current)'["RSP"] = cpu["RSP"]
      /\ \A r \in Preserved : Context(current)'[r] = cpu[r]
  BY <1>3, Names DEF Words, Preserved
<1>5. Privilege(current, Context(current))'
  BY <1>4, Placed, Levels DEF Privilege
<1>6. (current # Idle /\ Context(current)["CS"] = CS64 => Serves(current, Context(current)))'
  BY <1>4, Placed DEF Serves
<1>7. Good(current)'
  BY <1>4, <1>5, <1>6, Placed DEF Good, Own
<1>8. at' = "entered"
  BY DEF Interrupt
<1> QED
  BY <1>2, <1>7, <1>8, RunKeepsOthers

LEMMA SyscallKeepsInv ==
  ASSUME KInv, NEW n \in Syscalls, Syscall(n)
  PROVE  KInv'
<1>1. at = "run" /\ cpu["CS"] = CS64U /\ at' = at
  BY DEF Syscall, InUser
<1>2. current \in Tasks /\ cpu["cr3"] = current /\ cpu["SS"] = DSU /\ cpu["RIP"][1] = "user"
  BY <1>1, Placed DEF Privilege, Own, Threads
<1>3. /\ stack' = [stack EXCEPT ![current] = <<cpu["RIP"], cpu["RFLAGS"]>>]
      /\ called' = [called EXCEPT ![current] = cpu]
  BY <1>2 DEF Syscall
<1>4. /\ stack'[current] = <<cpu["RIP"], cpu["RFLAGS"]>> /\ called'[current] = cpu
      /\ \A s \in Tasks \ {current} : stack'[s] = stack[s] /\ called'[s] = called[s]
      /\ stack' = [s \in Tasks |-> stack'[s]] /\ called' = [s \in Tasks |-> called'[s]]
  BY <1>2, <1>3 DEF KInv, Shapes
<1>5. Shapes'
  BY <1>4, SyscallRegisters DEF Syscall, Shapes, KInv
<1>6. Context(current)' = cpu'
  BY <1>1, <1>5 DEF Context, Syscall, vars
<1>7. Handler(n)[1] # "user"
  BY DEF Handler, Code, Zero
<1>8. UNCHANGED <<current, made, at, saved, address_space>>
  BY DEF Syscall, vars
<1>9. /\ cpu'["CS"] = CS64 /\ cpu'["SS"] = DS /\ cpu'["RIP"][1] # "user"
      /\ cpu'["RSP"] = Below(cpu["RSP"])
      /\ \A r \in Preserved \cup {"cr3"} : cpu'[r] = cpu[r]
  BY <1>7, SyscallRegisters DEF KInv
<1>10. Privilege(current, cpu)'
  BY <1>2, <1>8, <1>9, NamesAssumption, Levels DEF Privilege
<1>11. Serves(current, cpu)'
  BY <1>1, <1>2, <1>4, <1>8, <1>9 DEF Serves
<1>12. Good(current)'
  BY <1>1, <1>6, <1>8, <1>9, <1>10, <1>11, Placed DEF Good, Own
<1>13. TypeOK'
  BY SlotsKept DEF Syscall
<1> QED
  BY <1>1, <1>4, <1>5, <1>8, <1>12, <1>13, RunKeepsOthers

(* The steps that only move RIP on, in the kernel.                         *)
LEMMA KernelStepKeepsInv ==
  ASSUME KInv, at = "run", cpu["RIP"][1] # "user", NEW label, label \in {"return", "panic"},
         current # Idle,
         cpu' = [cpu EXCEPT !["RIP"] = Code(label)],
         UNCHANGED <<vars, at, ist, saved, address_space, stack, called>>
  PROVE  KInv'
<1>1. /\ cpu' = [r \in Words |-> cpu'[r]] /\ cpu'["RIP"] = Code(label)
      /\ \A r \in Words \ {"RIP"} : cpu'[r] = cpu[r]
  BY Names DEF KInv, Shapes, Words
<1>2. /\ \A r \in {"cr3", "CS", "SS", "RSP"} : cpu'[r] = cpu[r]
      /\ \A r \in Preserved : cpu'[r] = cpu[r]
  BY <1>1, Names DEF Words, Preserved
<1>3. Shapes'
  BY <1>1, <1>2 DEF Shapes, KInv
<1>4. Context(current)' = cpu'
  BY <1>3 DEF Context, vars
<1>5. cpu["CS"] = CS64 /\ cpu'["RIP"][1] # "user"
  BY <1>1, Placed DEF Privilege, Code
<1>6. Privilege(current, cpu)'
  BY <1>2, <1>5, Placed, Levels DEF Privilege, vars
<1>7. Serves(current, cpu)'
  BY <1>2, <1>5, Placed DEF Serves, vars
<1>8. Good(current)'
  BY <1>2, <1>4, <1>6, <1>7, Placed DEF Good, Own, vars
<1> QED
  BY <1>3, <1>8, SlotsKept, RunKeepsOthers DEF vars

LEMMA ReturnKeepsInv ==
  ASSUME KInv, SyscallReturn
  PROVE  KInv'
<1>1. at = "run" /\ cpu["RIP"] = Code("return") /\ at' = at
  BY DEF SyscallReturn, InCode
<1>2. current \in Tasks /\ cpu["cr3"] = current /\ Serves(current, cpu)
  <2>1. /\ current \in Threads /\ Privilege(current, cpu) /\ cpu["cr3"] = Own(current)
        /\ current # Idle /\ cpu["CS"] = CS64 => Serves(current, cpu)
    BY <1>1, Placed
  <2>2. cpu["RIP"] \notin {Code("cstart"), Code("hlt")} /\ cpu["RIP"][1] = "kernel"
    BY <1>1 DEF Code
  <2>3. current # Idle /\ cpu["CS"] = CS64
    BY <2>1, <2>2, Levels DEF Privilege
  <2> QED
    BY <2>1, <2>3 DEF Own, Threads
<1>3. stack' = [stack EXCEPT ![current] = <<>>] /\ called' = [called EXCEPT ![current] = <<>>]
  BY <1>2 DEF SyscallReturn
<1>4. /\ \A s \in Tasks \ {current} : stack'[s] = stack[s] /\ called'[s] = called[s]
      /\ stack' = [s \in Tasks |-> stack'[s]] /\ called' = [s \in Tasks |-> called'[s]]
  BY <1>2, <1>3 DEF KInv, Shapes
<1>5. Shapes'
  BY <1>4, ReturnRegisters DEF SyscallReturn, Shapes, KInv
<1>6. Context(current)' = cpu'
  BY <1>1, <1>5 DEF Context, SyscallReturn, vars
<1>7. cpu'["RIP"][1] = "user"
  BY <1>2, ReturnRegisters DEF Serves, KInv
<1>8. UNCHANGED <<current, made, at, saved, address_space>>
  BY DEF SyscallReturn, vars
<1>9. cpu'["CS"] = CS64U /\ cpu'["SS"] = DSU /\ cpu'["cr3"] = cpu["cr3"]
  BY ReturnRegisters DEF KInv
<1>10. Privilege(current, cpu)'
  BY <1>2, <1>7, <1>8, <1>9, NamesAssumption, Levels DEF Privilege
<1>11. Good(current)'
  BY <1>1, <1>6, <1>8, <1>9, <1>10, Placed, Levels DEF Good, Own
<1>12. TypeOK'
  BY SlotsKept DEF SyscallReturn
<1> QED
  BY <1>1, <1>4, <1>5, <1>8, <1>11, <1>12, RunKeepsOthers

(* Every int 201: of idle_loop, of a program, and of yield() in a handler. *)
LEMMA InterruptsKeepInv ==
  ASSUME KInv, IdleLoop \/ UserInterrupt \/ syscall_yield \/ syscall_exit
  PROVE  KInv'
<1>1. CASE IdleLoop
  <2>1. /\ at = "run" /\ current = Idle /\ Interrupt(Code("hlt"))
        /\ UNCHANGED <<vars, saved, address_space, stack, called>>
    BY <1>1 DEF IdleLoop, InCstart
  <2>2. cpu["CS"] = CS64 /\ Code("hlt")[1] # "user"
    BY <2>1, Placed DEF Privilege, Code
  <2> QED
    BY <2>1, <2>2, SlotsKept, InterruptKeepsInv DEF vars
<1>2. CASE UserInterrupt
  <2>1. /\ at = "run" /\ cpu["CS"] = CS64U /\ Interrupt(cpu["RIP"])
        /\ UNCHANGED <<vars, saved, address_space, stack, called>>
    BY <1>2 DEF UserInterrupt, InUser
  <2>2. current # Idle
    BY <2>1, Placed DEF Privilege
  <2> QED
    BY <2>1, <2>2, SlotsKept, InterruptKeepsInv DEF vars
<1>3. CASE syscall_yield \/ syscall_exit
  <2>1. /\ at = "run" /\ Interrupt(Code("return"))
        /\ cpu["RIP"] \in {Code("syscall_yield"), Code("syscall_exit")}
        /\ UNCHANGED <<current, made, saved, address_space, stack, called>>
    BY <1>3 DEF syscall_yield, syscall_exit, InCode, vars
  <2>2. /\ cpu["RIP"][1] = "kernel" /\ Code("return")[1] = "kernel"
        /\ cpu["RIP"] \notin {Code("cstart"), Code("hlt")}
    BY <2>1 DEF Code
  <2>3. current # Idle
    BY <2>1, <2>2, Placed DEF Privilege
  <2>4. TypeOK'
    BY <1>3, SlotsKept DEF syscall_yield, syscall_exit, KInv, TypeOK
  <2> QED
    BY <2>1, <2>2, <2>3, <2>4, InterruptKeepsInv
<1> QED
  BY <1>1, <1>2, <1>3

----------------------------------------------------------------------------
(* asm_reschedule.                                                         *)

(* At each of its stages the context of every thread is what it was.       *)
LEMMA SaveKeepsContext ==
  ASSUME KInv, SaveTask
  PROVE  /\ Shapes'
         /\ \A t \in Threads : Context(t)' = Context(t)
<1>1. /\ at = "entered" /\ at' = "saved"
      /\ UNCHANGED <<vars, cpu, ist, address_space, stack, called>>
      /\ current \in Threads /\ Shapes
  BY DEF SaveTask, KInv, TypeOK, Threads
<1>2. saved' = [saved EXCEPT ![current] = [w \in 1 .. 20 |-> Interrupted(PushOrder[21 - w])]]
  BY DEF SaveTask
<1>3. Shapes'
  BY <1>1, <1>2 DEF Shapes
<1>4. \A t \in Threads \ {current} : saved'[t] = saved[t]
  BY <1>1, <1>2 DEF Shapes
<1>5. \A w \in 1 .. 20 : saved'[current][w] = Interrupted(StructTask[w])
  BY <1>1, <1>2, PushedInOrder DEF Shapes
<1>6. \A r \in Registers : saved'[current][Field(r)] = Interrupted(r)
  BY <1>5, FieldOfRegister
<1>7. Context(current)' = Context(current)
  <2>1. Context(current) = [r \in Words |-> Interrupted(r)]
    BY <1>1 DEF Context, Shapes
  <2>2. Context(current)' = [r \in Words |-> IF r = "cr3" THEN address_space[current]
                                                          ELSE saved'[current][Field(r)]]
    BY <1>1 DEF Context, Words, vars
  <2>3. address_space[current] = Context(current)["cr3"]
    BY DEF KInv, Good
  <2>4. "cr3" \in Words
    BY DEF Words
  <2> QED
    BY <1>6, <2>1, <2>2, <2>3, <2>4 DEF Words
<1>8. \A t \in Threads \ {current} : Context(t)' = Context(t)
  BY <1>1, <1>4 DEF Context, vars
<1> QED
  BY <1>1, <1>3, <1>7, <1>8 DEF vars

LEMMA SwitchKeepsContext ==
  ASSUME KInv, CallScheduler
  PROVE  /\ Shapes' /\ TypeOK' /\ current' \in made \cup {Idle}
         /\ \A t \in Threads : Context(t)' = Context(t)
<1>1. /\ at = "saved" /\ at' = "chosen" /\ Reschedule(canExecute)
      /\ UNCHANGED <<slot, canExecute, made, ist, saved, address_space, stack, called>>
  BY DEF CallScheduler
<1>2. TypeOK /\ canExecute \in SUBSET Tasks /\ idlePc' \in {"boot", "hlt"}
  BY DEF KInv, TypeOK, CallScheduler
<1>3. current' \in canExecute \cup {Idle} /\ round_schedule' \in 0 .. Band
  BY <1>1, <1>2, ScanResult
<1>4. TypeOK' /\ current' \in made \cup {Idle}
  BY <1>1, <1>2, <1>3 DEF TypeOK
<1>5. \A r \in {"cr3", "CS", "SS"} : cpu'[r] = cpu[r]
  BY Names DEF CallScheduler, CallerSaved, KInv, Shapes, Words
<1>6. cpu' = [r \in Words |-> cpu'[r]]
  BY DEF CallScheduler, KInv, Shapes
<1>7. Shapes'
  BY <1>1, <1>5, <1>6 DEF Shapes, KInv
<1>8. \A t \in Threads : Context(t)' = Context(t)
  BY <1>1 DEF Context
<1> QED
  BY <1>4, <1>7, <1>8

LEMMA LoadKeepsContext ==
  ASSUME KInv, LoadTask
  PROVE  /\ Shapes'
         /\ \A t \in Threads : Context(t)' = Context(t)
<1>1. /\ at = "chosen" /\ at' = "run"
      /\ UNCHANGED <<vars, saved, address_space, stack, called>>
      /\ current \in Threads /\ Shapes /\ Good(current)
  BY DEF LoadTask, KInv, TypeOK, Threads
<1>2. cpu' = [r \in Words |-> IF r = "cr3" THEN address_space[current] ELSE saved[current][Field(r)]]
  BY <1>1, PoppedFromField DEF LoadTask, Shapes
<1>3. Context(current) = [r \in Words |-> IF r = "cr3" THEN address_space[current]
                                                      ELSE saved[current][Field(r)]]
  BY <1>1 DEF Context, Words
<1>4. Context(current)' = cpu'
  BY <1>1 DEF Context, vars
<1>5. \A t \in Threads \ {current} : Context(t)' = Context(t)
  BY <1>1 DEF Context, vars
<1>6. cpu' = Context(current) /\ cpu' = [r \in Words |-> cpu'[r]]
  BY <1>2, <1>3
<1>7. cpu'["cr3"] \in Spaces
  BY <1>1, <1>6 DEF Good, Own, Spaces, Threads
<1>8. Shapes'
  BY <1>1, <1>6, <1>7 DEF Shapes, Good, Privilege
<1>9. Context(current)' = Context(current)
  BY <1>4, <1>6
<1> QED
  BY <1>1, <1>5, <1>8, <1>9 DEF vars

LEMMA SwitchKeepsInv ==
  ASSUME KInv, SaveTask \/ CallScheduler \/ LoadTask
  PROVE  KInv'
<1>1. Shapes' /\ \A t \in made \cup {Idle} : Context(t)' = Context(t)
  <2>1. made \cup {Idle} \subseteq Threads
    BY DEF KInv, TypeOK, Threads
  <2> QED
    BY <2>1, SaveKeepsContext, SwitchKeepsContext, LoadKeepsContext
<1>2. TypeOK' /\ current' \in made \cup {Idle} /\ made' = made
  <2>1. CASE SaveTask
    BY <2>1, SlotsKept DEF SaveTask
  <2>2. CASE CallScheduler
    BY <2>2, SwitchKeepsContext DEF CallScheduler
  <2>3. CASE LoadTask
    BY <2>3, SlotsKept DEF LoadTask
  <2> QED
    BY <2>1, <2>2, <2>3
<1>3. UNCHANGED <<address_space, stack, called>>
  BY DEF SaveTask, CallScheduler, LoadTask
<1>4. ASSUME NEW t \in made \cup {Idle}
      PROVE  Good(t)'
  <2>1. Good(t) /\ Context(t)' = Context(t)
    BY <1>1, <1>4 DEF KInv
  <2> QED
    BY <1>3, <2>1 DEF Good, Serves
<1> QED
  BY <1>1, <1>2, <1>4 DEF KInv

----------------------------------------------------------------------------
(* cstart.                                                                 *)

LEMMA MakeContext ==
  ASSUME KInv, NEW t \in Tasks, MakeProcess(t)
  PROVE  /\ at = "run" /\ at' = "run" /\ current = Idle /\ current' = Idle /\ t \notin made
         /\ Shapes'
         /\ Context(t)' = [r \in Words |-> IF r = "cr3" THEN t ELSE StartContext(t)[r]]
         /\ \A u \in Threads \ {t} : Context(u)' = Context(u) /\ address_space'[u] = address_space[u]
         /\ address_space'[t] = t
<1>1. /\ at = "run" /\ at' = "run" /\ current = Idle /\ current' = Idle /\ t \notin made
      /\ cpu' = cpu /\ ist' = ist /\ stack' = stack /\ called' = called /\ Shapes
  BY DEF MakeProcess, InCstart, MakeTask, KInv
<1>2. t # Idle /\ t \in Threads
  BY NamesAssumption DEF Threads
<1>3. /\ saved' = [saved EXCEPT ![t] = [w \in 1 .. 20 |-> StartContext(t)[StructTask[w]]]]
      /\ address_space' = [address_space EXCEPT ![t] = t]
  BY DEF MakeProcess
<1>4. /\ address_space'[t] = t
      /\ \A w \in 1 .. 20 : saved'[t][w] = StartContext(t)[StructTask[w]]
      /\ \A u \in Threads \ {t} : saved'[u] = saved[u] /\ address_space'[u] = address_space[u]
  BY <1>1, <1>2, <1>3 DEF Shapes
<1>5. Shapes'
  BY <1>1, <1>3 DEF Shapes
<1>6. Context(t)' = [r \in Words |-> IF r = "cr3" THEN t ELSE StartContext(t)[r]]
  <2>1. \A r \in Registers : saved'[t][Field(r)] = StartContext(t)[r]
    BY <1>4, FieldOfRegister
  <2>2. Context(t)' = [r \in Words |-> IF r = "cr3" THEN address_space'[t] ELSE saved'[t][Field(r)]]
    BY <1>1, <1>2 DEF Context, Words
  <2> QED
    BY <1>4, <2>1, <2>2 DEF Words
<1>7. \A u \in Threads \ {t} : Context(u)' = Context(u)
  BY <1>1, <1>4 DEF Context
<1> QED
  BY <1>1, <1>4, <1>5, <1>6, <1>7

LEMMA MakeKeepsInv ==
  ASSUME KInv, NEW t \in Tasks, MakeProcess(t)
  PROVE  KInv'
<1>1. made' = made \cup {t} /\ stack' = stack /\ called' = called
  BY DEF MakeProcess, MakeTask
<1>2. TypeOK'
  BY DEF MakeProcess, MakeTask, KInv, TypeOK
<1>3. t # Idle
  BY NamesAssumption
<1>4. Good(t)'
  <2>1. \A r \in {"CS", "SS", "RIP"} : Context(t)'[r] = StartContext(t)[r]
    BY MakeContext, Names DEF Words
  <2>2. Context(t)'["cr3"] = t /\ address_space'[t] = t
    BY MakeContext DEF Words
  <2>3. /\ Context(t)'["CS"] = CS64U /\ Context(t)'["SS"] = DSU
        /\ Context(t)'["RIP"][1] = "user"
    BY <2>1, StartRegisters DEF User
  <2> QED
    BY <1>3, <2>2, <2>3, Levels DEF Good, Privilege, Own
<1>5. ASSUME NEW u \in made \cup {Idle}
      PROVE  Good(u)'
  <2>1. u \in Threads \ {t} /\ Good(u)
    BY <1>3, MakeContext DEF KInv, TypeOK, Threads
  <2>2. Context(u)' = Context(u) /\ address_space'[u] = address_space[u]
    BY <2>1, MakeContext
  <2> QED
    BY <1>1, <2>1, <2>2 DEF Good, Serves
<1> QED
  BY <1>1, <1>2, <1>4, <1>5, MakeContext DEF KInv

LEMMA ScheduleKeepsInv ==
  ASSUME KInv, NEW t \in Tasks, ScheduleProcess(t)
  PROVE  KInv'
<1>1. UNCHANGED <<canExecute, made, current, round_schedule, idlePc>> /\ UNCHANGED kvars
  BY DEF ScheduleProcess, Schedule
<1>2. slot' \in [Slots -> Tasks \cup {NULL}]
  BY DEF ScheduleProcess, Schedule, KInv, TypeOK
<1>3. TypeOK'
  BY <1>1, <1>2 DEF KInv, TypeOK
<1>4. Shapes'
  BY <1>1 DEF KInv, Shapes, kvars
<1>5. \A u \in made \cup {Idle} : Good(u)'
  BY <1>1, GoodKept
<1> QED
  BY <1>1, <1>3, <1>4, <1>5 DEF KInv

LEMMA KernelInitInv ==
  ASSUME KernelInit
  PROVE  KInv
<1>1. Init /\ at = "run" /\ current = Idle /\ made = {}
  BY DEF KernelInit, Init
<1>2. TypeOK
  BY <1>1, InvInit DEF IInv
<1>3. /\ cpu = [r \in Words |-> cpu[r]]
      /\ cpu["CS"] = CS64 /\ cpu["SS"] = DS /\ cpu["RIP"] = Code("cstart") /\ cpu["cr3"] = KernelSpace
  BY Names DEF KernelInit, Words
<1>4. Shapes
  BY <1>1, <1>3 DEF KernelInit, Shapes, Spaces
<1>5. address_space[Idle] = KernelSpace
  BY DEF KernelInit, IdleAddressSpace, Threads
<1>6. Context(Idle) = cpu
  BY <1>1 DEF Context
<1>7. Good(Idle)
  BY <1>3, <1>5, <1>6, Levels DEF Good, Own, Privilege, Code
<1> QED
  BY <1>1, <1>2, <1>4, <1>7 DEF KInv

LEMMA KernelNextInv ==
  ASSUME KInv, [KernelNext]_allvars
  PROVE  KInv'
<1>1. ASSUME NEW t \in Tasks, MakeProcess(t) \/ ScheduleProcess(t)
      PROVE  KInv'
  BY <1>1, MakeKeepsInv, ScheduleKeepsInv
<1>2. CASE IdleLoop \/ UserInterrupt \/ syscall_yield \/ syscall_exit
  BY <1>2, InterruptsKeepInv
<1>3. CASE SaveTask \/ CallScheduler \/ LoadTask
  BY <1>3, SwitchKeepsInv
<1>4. CASE \E v \in Versions : Compute(v)
  BY <1>4, ComputeKeepsInv
<1>5. CASE \E n \in Syscalls : Syscall(n)
  BY <1>5, SyscallKeepsInv
<1>6. CASE syscall_write \/ Crash
  <2>1. /\ at = "run"
        /\ cpu["RIP"] \in {Code("syscall_write"), Code("syscall_abort"), Zero}
        /\ \E label \in {"return", "panic"} : cpu' = [cpu EXCEPT !["RIP"] = Code(label)]
        /\ UNCHANGED <<vars, at, ist, saved, address_space, stack, called>>
    BY <1>6 DEF syscall_write, Crash, InCode
  <2>2. cpu["RIP"][1] # "user" /\ cpu["RIP"] \notin {Code("cstart"), Code("hlt")}
    BY <2>1 DEF Code, Zero
  <2>3. current # Idle
    BY <2>1, <2>2, Placed DEF Privilege
  <2> QED
    BY <2>1, <2>2, <2>3, KernelStepKeepsInv
<1>7. CASE SyscallReturn
  BY <1>7, ReturnKeepsInv
<1>8. CASE CallPageZero
  <2>1. /\ at = "run" /\ at' = "lost"
        /\ UNCHANGED <<vars, cpu, ist, saved, address_space, stack, called>>
    BY <1>8 DEF CallPageZero
  <2>2. TypeOK' /\ made' = made /\ current' = current
    BY <2>1, SlotsKept DEF vars
  <2>3. Shapes'
    BY <2>1 DEF KInv, Shapes
  <2>4. Context(current)' = Context(current)
    BY <2>1, <2>2 DEF Context
  <2>5. Good(current) /\ Good(current)'
    <3>1. Good(current)
      BY DEF KInv
    <3> QED
      BY <2>1, <2>2, <2>4, <3>1 DEF Good, Serves
  <2> QED
    BY <2>1, <2>2, <2>3, <2>5, RunKeepsOthers
<1>9. CASE UNCHANGED allvars
  <2>1. UNCHANGED <<vars, cpu, at, ist, saved, address_space, stack, called>>
    BY <1>9 DEF allvars, kvars
  <2>2. TypeOK' /\ current' \in made' \cup {Idle} /\ made' = made
    BY <2>1, SlotsKept
  <2>3. Shapes'
    BY <2>1 DEF KInv, Shapes
  <2>4. \A t \in made \cup {Idle} : Good(t)'
    BY <1>9, GoodKept DEF allvars, vars
  <2> QED
    BY <2>2, <2>3, <2>4 DEF KInv
<1> QED
  BY <1>1, <1>2, <1>3, <1>4, <1>5, <1>6, <1>7, <1>8, <1>9 DEF KernelNext

(***************************************************************************)
(* scheduler_asm.s, syscall_asm.s: every task that was made has its own    *)
(* address space, privilege and, in the kernel, its caller's registers.    *)
(***************************************************************************)
THEOREM KernelKeepsInv == KernelSpec => []KInv
<1>1. KernelInit => KInv
  BY KernelInitInv
<1>2. KInv /\ [KernelNext]_allvars => KInv'
  BY KernelNextInv
<1> QED
  BY <1>1, <1>2, PTL DEF KernelSpec

(***************************************************************************)
(* The registers, the task table and the stacks keep their shape.          *)
(***************************************************************************)
THEOREM KernelTypes == KernelSpec => []KernelTypeOK
<1>1. KInv => KernelTypeOK
  <2> SUFFICES ASSUME KInv PROVE KernelTypeOK
    OBVIOUS
  <2>1. DOMAIN cpu = Registers \cup {"cr3"}
    BY DEF KInv, Shapes, Words
  <2>2. \A t \in made \cup {Idle} : address_space[t] \in Spaces
    BY DEF KInv, TypeOK, Good, Own, Spaces
  <2> QED
    BY <2>1, <2>2 DEF KInv, Shapes, KernelTypeOK
<1> QED
  BY <1>1, KernelKeepsInv, PTL

(* Who runs at address 0 with the kernel's privilege.                      *)
LostInv == at = "lost" => current \in PageZero

LEMMA StepLoses ==
  ASSUME KInv, LostInv, [KernelNext]_allvars
  PROVE  LostInv'
<1>1. CASE CallPageZero
  <2>1. at = "run" /\ current' = current /\ cpu["RIP"] = Zero /\ cpu["cr3"] \in PageZero
    BY <1>1 DEF CallPageZero, vars
  <2>2. current # Idle
    BY <2>1, Placed DEF Privilege, Zero, Code
  <2>3. cpu["cr3"] = current
    BY <2>1, <2>2, Placed DEF Own
  <2> QED
    BY <2>1, <2>3 DEF LostInv
<1>2. CASE UNCHANGED allvars
  BY <1>2 DEF LostInv, allvars, vars, kvars
<1>3. CASE KernelNext /\ ~CallPageZero
  <2>1. at # "lost" /\ at' \in {at, "run", "entered", "saved", "chosen"}
    BY <1>3 DEF KernelNext, MakeProcess, ScheduleProcess, IdleLoop, SaveTask, CallScheduler,
                LoadTask, Compute, UserInterrupt, Syscall, syscall_yield, syscall_exit,
                syscall_write, Crash, SyscallReturn, InCstart, InUser, InCode, Interrupt, kvars
  <2> QED
    BY <2>1 DEF LostInv
<1> QED
  BY <1>1, <1>2, <1>3

(***************************************************************************)
(* asm_reschedule, make_task, syscall_entry_asm: whatever runs, runs in    *)
(* its own address space, and a program with the privilege of a user; only *)
(* one with a page at address 0 can come to run with the kernel's.         *)
(***************************************************************************)
THEOREM InOwnSpace == KernelSpec => []OwnSpace
<1>1. KInv /\ LostInv => OwnSpace
  BY Placed DEF OwnSpace, Own, Privilege, LostInv
<1>2. KernelInit => LostInv
  BY DEF KernelInit, LostInv
<1>3. KInv /\ LostInv /\ [KernelNext]_allvars => LostInv'
  BY StepLoses
<1> QED
  BY <1>1, <1>2, <1>3, KernelKeepsInv, PTL DEF KernelSpec

(***************************************************************************)
(* syscall_entry_asm over asm_reschedule: a system call returns behind the *)
(* syscall instruction, with all the registers a C function preserves.     *)
(***************************************************************************)
THEOREM CallerGoesOn == KernelSpec => SyscallReturnsToCaller
<1>1. ASSUME KInv, [KernelNext]_allvars
      PROVE  [ SyscallReturn => \A r \in Registers \ (CallerSaved \cup {"rax"}) :
                                  cpu'[r] = called[current][r] ]_allvars
  <2> SUFFICES ASSUME SyscallReturn, NEW r \in Registers \ (CallerSaved \cup {"rax"})
               PROVE  cpu'[r] = called[current][r]
    OBVIOUS
  <2>1. Shapes /\ at = "run" /\ cpu["RIP"][1] = "kernel"
        /\ cpu["RIP"] \notin {Code("cstart"), Code("hlt")}
    BY <1>1 DEF SyscallReturn, InCode, KInv, Code
  <2>2. Privilege(current, cpu) /\ cpu["cr3"] = Own(current)
        /\ (current # Idle /\ cpu["CS"] = CS64 => Serves(current, cpu))
    BY <1>1, <2>1, Placed
  <2>3. Serves(current, cpu) /\ cpu["cr3"] = current
    BY <2>1, <2>2, Levels DEF Privilege, Own
  <2>4. CASE r \in Preserved
    BY <2>1, <2>3, <2>4, ReturnRegisters DEF Serves
  <2>5. CASE r \in {"CS", "SS"}
    BY <2>1, <2>3, <2>5, ReturnRegisters DEF Serves
  <2>6. CASE r \in {"RIP", "RFLAGS"}
    BY <2>1, <2>3, <2>6, ReturnRegisters DEF Serves
  <2>7. CASE r = "RSP"
    BY <2>1, <2>3, <2>7, ReturnRegisters DEF Serves, Below
  <2> QED
    BY <2>4, <2>5, <2>6, <2>7 DEF Preserved
<1> QED
  BY <1>1, KernelKeepsInv, PTL DEF KernelSpec, SyscallReturnsToCaller

----------------------------------------------------------------------------
(* The context switch implements a processor for each thread.              *)

Contexts == [t \in Threads |-> Context(t)]
Holder   == IF at \in {"run", "lost"} THEN current ELSE NULL

LEMMA InitIsBoot ==
  ASSUME KernelInit
  PROVE  Holder = Idle
  BY DEF KernelInit, Init, Holder

LEMMA StepImplements ==
  ASSUME KInv, KInv', [KernelNext]_allvars
  PROVE  \/ \E t \in Threads : CPUs!Make(t)
         \/ CPUs!Run
         \/ CPUs!Dispatch
         \/ Contexts' = Contexts /\ Holder' = Holder
<1> USE DEF Contexts, Holder
<1>1. NULL \notin Threads /\ (at = "run" => current \in Threads)
  BY NamesAssumption, Placed DEF Threads
<1>2. ASSUME NEW t \in Tasks, MakeProcess(t)
      PROVE  CPUs!Make(t) /\ t \in Threads
  <2>1. Contexts' = [Contexts EXCEPT ![t] = [r \in Words |-> IF r = "cr3" THEN t ELSE StartContext(t)[r]]]
    BY <1>2, MakeContext DEF Threads
  <2>2. Holder = Idle /\ Holder' = Idle /\ Idle \notin {t, NULL}
    BY <1>2, MakeContext, NamesAssumption
  <2> QED
    BY <2>1, <2>2 DEF CPUs!Make, Words, Threads
<1>3. ASSUME at = "run", at' \in {"run", "entered", "lost"},
             UNCHANGED <<current, saved, address_space>>
      PROVE  CPUs!Run
  <2>1. \A t \in Threads \ {current} : Contexts'[t] = Contexts[t]
    BY <1>3, OthersKeptHere
  <2>2. Holder = current /\ Holder' \in {current, NULL} /\ current # NULL
    BY <1>1, <1>3
  <2> QED
    BY <2>1, <2>2 DEF CPUs!Run
<1>4. ASSUME NEW t \in Tasks, ScheduleProcess(t)
      PROVE  Contexts' = Contexts /\ Holder' = Holder
  BY <1>4 DEF ScheduleProcess, Schedule, kvars, Context, Interrupted
<1>5. CASE SaveTask
  <2>1. Contexts' = Contexts
    BY <1>5, SaveKeepsContext
  <2>2. Holder = NULL /\ Holder' = NULL
    BY <1>5 DEF SaveTask
  <2> QED
    BY <2>1, <2>2
<1>6. CASE CallScheduler
  <2>1. Contexts' = Contexts
    BY <1>6, SwitchKeepsContext
  <2>2. Holder = NULL /\ Holder' = NULL
    BY <1>6 DEF CallScheduler
  <2> QED
    BY <2>1, <2>2
<1>7. CASE LoadTask
  <2>1. Contexts' = Contexts
    BY <1>7, LoadKeepsContext
  <2>2. Holder = NULL /\ Holder' = current'
    BY <1>7 DEF LoadTask
  <2>3. current' \in Threads
    BY DEF KInv, TypeOK, Threads
  <2> QED
    BY <2>1, <2>2, <2>3 DEF CPUs!Dispatch
<1>8. CASE IdleLoop \/ UserInterrupt \/ syscall_yield \/ syscall_exit
  <2>1. /\ at = "run" /\ at' = "entered"
        /\ UNCHANGED <<current, saved, address_space>>
    BY <1>8 DEF IdleLoop, UserInterrupt, syscall_yield, syscall_exit, Interrupt,
                InCstart, InUser, InCode, vars
  <2> QED
    BY <2>1, <1>3
<1>9. CASE \/ \E v \in Versions : Compute(v)
           \/ \E n \in Syscalls : Syscall(n)
           \/ syscall_write \/ Crash \/ CallPageZero \/ SyscallReturn
  <2>1. at = "run" /\ at' \in {"run", "lost"} /\ UNCHANGED <<current, saved, address_space>>
    BY <1>9 DEF Compute, Syscall, syscall_write, Crash, CallPageZero, SyscallReturn, InUser, InCode,
                vars
  <2> QED
    BY <2>1, <1>3
<1>10. CASE UNCHANGED allvars
  BY <1>10 DEF allvars, vars, kvars, Context, Interrupted
<1> QED
  BY <1>2, <1>4, <1>5, <1>6, <1>7, <1>8, <1>9, <1>10 DEF KernelNext, Threads

(***************************************************************************)
(* scheduler_asm.s, struct task: every thread has a processor of its own,  *)
(* which no other thread and no switch changes.                            *)
(***************************************************************************)
THEOREM OwnProcessor == KernelSpec => VirtualCPUsSpec
<1>1. KernelInit => Holder = Idle
  BY InitIsBoot
<1>2. KInv /\ KInv' /\ [KernelNext]_allvars => [CPUs!Next]_<<Contexts, Holder>>
  BY StepImplements DEF CPUs!Next
<1> QED
  BY <1>1, <1>2, KernelKeepsInv, PTL DEF KernelSpec, VirtualCPUsSpec, CPUs!Spec, Contexts, Holder

----------------------------------------------------------------------------
(* The kernel implements the scheduler.                                    *)

(* The flags as the scheduler's specification has them: exit's counts as   *)
(* set until the switch.                                                   *)
Flags == IF current \in Tasks /\ at # "chosen" THEN canExecute \cup {current} ELSE canExecute

IdleStart == current = Idle /\ idlePc = "boot"

(* Idle is at cstart only while that runs, and switches away once; the     *)
(* task that was chosen may be.                                            *)
SwitchInv ==
  /\ Context(Idle)["RIP"] = Code("cstart") => at = "run" /\ IdleStart
  /\ current = Idle /\ at \in {"entered", "saved"} => IdleStart
  /\ current \in Tasks /\ at = "chosen" => current \in canExecute

LEMMA InitSwitches ==
  ASSUME KernelInit
  PROVE  SwitchInv
BY NamesAssumption DEF KernelInit, Init, SwitchInv, IdleStart

(* A step of the code that runs.                                           *)
LEMMA RunSwitches ==
  ASSUME KInv, SwitchInv, at = "run", at' \in {"run", "entered", "lost"},
         UNCHANGED <<current, idlePc, saved, address_space>>,
         current = Idle => at' = "run" /\ cpu' = cpu
  PROVE  SwitchInv'
<1>1. CASE current = Idle
  <2>1. Context(Idle)' = Context(Idle)
    BY <1>1 DEF Context
  <2> QED
    BY <1>1, <2>1 DEF SwitchInv, IdleStart
<1>2. CASE current # Idle
  <2>1. Context(Idle)' = Context(Idle)
    BY <1>2, OthersKeptHere
  <2> QED
    BY <1>2, <2>1 DEF SwitchInv, IdleStart
<1> QED
  BY <1>1, <1>2

LEMMA StepSwitches ==
  ASSUME KInv, SwitchInv, [KernelNext]_allvars
  PROVE  SwitchInv'
<1>0. Idle \notin Tasks /\ Idle \in Threads
  BY NamesAssumption DEF Threads
<1>1. ASSUME NEW t \in Tasks, MakeProcess(t)
      PROVE  SwitchInv'
  <2>1. /\ at = "run" /\ at' = "run" /\ current = Idle /\ current' = Idle
        /\ Context(Idle)' = Context(Idle)
    BY <1>0, <1>1, MakeContext
  <2>2. idlePc' = idlePc
    BY <1>1 DEF MakeProcess, MakeTask
  <2> QED
    BY <2>1, <2>2 DEF SwitchInv, IdleStart
<1>2. ASSUME NEW t \in Tasks, ScheduleProcess(t)
      PROVE  SwitchInv'
  BY <1>2, RunSwitches DEF ScheduleProcess, Schedule, InCstart, kvars
<1>3. CASE IdleLoop
  <2>1. /\ at = "run" /\ current = Idle /\ cpu["RIP"] = Code("cstart") /\ Interrupt(Code("hlt"))
        /\ UNCHANGED <<vars, saved, address_space>>
    BY <1>3 DEF IdleLoop, InCstart
  <2>2. IdleStart
    BY <2>1, InProcessor DEF SwitchInv, KInv
  <2>3. at' = "entered" /\ Interrupted("RIP")' = Code("hlt") /\ DOMAIN cpu' = Words
    BY <2>1, InterruptSaves, Names DEF KInv, Words
  <2>4. current' = Idle /\ idlePc' = idlePc
    BY <2>1 DEF vars
  <2>5. Context(Idle)'["RIP"] = Code("hlt")
    <3>1. Context(Idle)' = [r \in DOMAIN cpu' |-> Interrupted(r)']
      BY <2>3, <2>4 DEF Context
    <3> QED
      BY <2>3, <3>1, Names DEF Words
  <2>6. Code("hlt") # Code("cstart")
    BY DEF Code
  <2> QED
    BY <2>2, <2>3, <2>4, <2>5, <2>6 DEF SwitchInv, IdleStart
<1>4. CASE SaveTask \/ CallScheduler \/ LoadTask
  <2>1. Context(Idle)' = Context(Idle) /\ at # "run"
    BY <1>0, <1>4, SaveKeepsContext, SwitchKeepsContext, LoadKeepsContext
    DEF SaveTask, CallScheduler, LoadTask
  <2>2. Context(Idle)'["RIP"] # Code("cstart")
    BY <2>1 DEF SwitchInv
  <2>3. CASE SaveTask
    BY <2>2, <2>3 DEF SaveTask, vars, SwitchInv, IdleStart
  <2>4. CASE CallScheduler
    <3>1. at' = "chosen" /\ canExecute' = canExecute /\ current' \in canExecute \cup {Idle}
      <4>1. canExecute \in SUBSET Tasks /\ TypeOK
        BY DEF KInv, TypeOK
      <4> QED
        BY <2>4, <4>1, ScanResult DEF CallScheduler
    <3> QED
      BY <1>0, <2>2, <3>1 DEF SwitchInv
  <2>5. CASE LoadTask
    BY <2>2, <2>5 DEF LoadTask, SwitchInv
  <2> QED
    BY <1>4, <2>3, <2>4, <2>5
<1>5. CASE \/ \E v \in Versions : Compute(v)
           \/ \E n \in Syscalls : Syscall(n)
           \/ UserInterrupt \/ syscall_yield \/ syscall_exit \/ syscall_write \/ Crash
           \/ CallPageZero \/ SyscallReturn
  <2>1. /\ at = "run" /\ at' \in {"run", "entered", "lost"}
        /\ UNCHANGED <<current, idlePc, saved, address_space>>
    BY <1>5 DEF Compute, Syscall, UserInterrupt, syscall_yield, syscall_exit, syscall_write, Crash,
                CallPageZero, SyscallReturn, InUser, InCode, Interrupt, vars
  <2>2. \/ cpu["CS"] = CS64U
        \/ cpu["RIP"] \in {Code("syscall_yield"), Code("syscall_exit"), Code("syscall_write"),
                           Code("syscall_abort"), Zero, Code("return")}
    BY <1>5 DEF Compute, Syscall, UserInterrupt, syscall_yield, syscall_exit, syscall_write, Crash,
                CallPageZero, SyscallReturn, InUser, InCode
  <2>3. {Code("syscall_yield"), Code("syscall_exit"), Code("syscall_write"),
         Code("syscall_abort"), Zero, Code("return")} \cap {Code("cstart"), Code("hlt")} = {}
    BY DEF Code, Zero
  <2>4. current # Idle
    BY <2>1, <2>2, <2>3, Placed DEF Privilege
  <2> QED
    BY <2>1, <2>4, RunSwitches
<1>6. CASE UNCHANGED allvars
  <2>1. Context(Idle)' = Context(Idle)
    BY <1>6 DEF allvars, vars, kvars, Context, Interrupted
  <2> QED
    BY <1>6, <2>1 DEF allvars, vars, kvars, SwitchInv, IdleStart
<1> QED
  BY <1>1, <1>2, <1>3, <1>4, <1>5, <1>6 DEF KernelNext

(* cstart's int 201 is the only switch out of idle, which is left at the   *)
(* loop of main.c for good; sched_task chooses a task that may execute,    *)
(* and no interrupt comes before the switch is complete.                   *)
THEOREM KernelKeepsSwitchInv == KernelSpec => []SwitchInv
<1>1. KernelInit => SwitchInv
  BY InitSwitches
<1>2. KInv /\ SwitchInv /\ [KernelNext]_allvars => SwitchInv'
  BY StepSwitches
<1> QED
  BY <1>1, <1>2, KernelKeepsInv, PTL DEF KernelSpec

(* The operators of the specification do not depend on the flags.          *)
LEMMA SameScan ==
  ASSUME NEW can
  PROVE  Reschedule(can) => Sched!Reschedule(can)
BY DEF Reschedule, TakeUrgent, TakeRound, TakeIdle, UrgentReady, ReadyTurns, Position,
       UrgentSlots, RoundSlots,
       Sched!Reschedule, Sched!TakeUrgent, Sched!TakeRound, Sched!TakeIdle, Sched!UrgentReady,
       Sched!ReadyTurns, Sched!Position, Sched!UrgentSlots, Sched!RoundSlots

(* The priority of the next process.                                       *)
LEMMA NextPriority ==
  ASSUME KInv, NEW t \in Tasks \ Scheduled
  PROVE  Cardinality(Scheduled) \in Priorities
<1>1. Scheduled \subseteq Tasks \ {t}
  BY DEF Scheduled, KInv, TypeOK
<1>2. IsFiniteSet(Tasks) /\ IsFiniteSet(Tasks \ {t})
  BY ModulesAssumption, FS_RemoveElement
<1>3. Cardinality(Tasks \ {t}) = Cardinality(Tasks) - 1
  BY <1>2, FS_RemoveElement
<1>4. IsFiniteSet(Scheduled) /\ Cardinality(Scheduled) <= Cardinality(Tasks \ {t})
  BY <1>1, <1>2, FS_Subset
<1>5. Cardinality(Scheduled) \in Nat /\ Cardinality(Tasks) \in Nat
  BY <1>2, <1>4, FS_CardinalityType
<1> QED
  BY <1>3, <1>4, <1>5, ModulesAssumption

LEMMA StepSchedules ==
  ASSUME KInv, SwitchInv, [KernelNext]_allvars
  PROVE  [Sched!Next]_<<slot, Flags, made, current, round_schedule, idlePc>>
<1>0. /\ canExecute \subseteq made /\ made \subseteq Tasks /\ current \in made \cup {Idle}
      /\ Idle \notin Tasks
  BY NamesAssumption DEF KInv, TypeOK
<1>1. ASSUME NEW t \in Tasks, MakeProcess(t)
      PROVE  Sched!MakeTask(t)
  <2>1. /\ current = Idle /\ current' = Idle /\ MakeTask(t) /\ Context(Idle)["RIP"] = Code("cstart")
    BY <1>1, InProcessor DEF MakeProcess, InCstart, MakeTask, KInv
  <2>2. Flags = canExecute /\ Flags' = canExecute'
    BY <1>0, <2>1 DEF Flags
  <2>3. idlePc = "boot"
    BY <2>1 DEF SwitchInv, IdleStart
  <2>4. Sched!KernelCode
    BY <2>1, <2>3 DEF Sched!KernelCode, Sched!Running
  <2> QED
    BY <2>1, <2>2, <2>4 DEF MakeTask, Sched!MakeTask, Flags
<1>2. ASSUME NEW t \in Tasks, ScheduleProcess(t)
      PROVE  \E p \in Priorities : Sched!Schedule(p, t)
  <2>1. /\ current = Idle /\ current' = Idle /\ t \in made \ Scheduled
        /\ Schedule(Cardinality(Scheduled), t) /\ Context(Idle)["RIP"] = Code("cstart")
    BY <1>2, InProcessor DEF ScheduleProcess, InCstart, Schedule, KInv
  <2>2. Flags = canExecute /\ Flags' = canExecute'
    BY <1>0, <2>1 DEF Flags
  <2>3. idlePc = "boot"
    BY <2>1 DEF SwitchInv, IdleStart
  <2>4. Sched!KernelCode
    BY <2>1, <2>3 DEF Sched!KernelCode, Sched!Running
  <2>5. Cardinality(Scheduled) \in Priorities
    BY <2>1, NextPriority
  <2>6. Sched!Schedule(Cardinality(Scheduled), t)
    BY <2>1, <2>2, <2>4 DEF Schedule, Sched!Schedule, Flags
  <2> QED
    BY <2>5, <2>6
<1>3. CASE CallScheduler
  <2>1. /\ at = "saved" /\ at' = "chosen" /\ Reschedule(canExecute)
        /\ canExecute' = canExecute /\ slot' = slot /\ made' = made
        /\ idlePc' = IF current = Idle THEN "hlt" ELSE idlePc
    BY <1>3 DEF CallScheduler
  <2>2. Flags' = canExecute
    BY <2>1 DEF Flags
  <2>3. Sched!Reschedule(canExecute)
    BY <2>1, SameScan
  <2>4. CASE current = Idle
    <3>1. Flags = canExecute /\ idlePc = "boot"
      BY <1>0, <2>1, <2>4 DEF Flags, SwitchInv, IdleStart
    <3>2. Sched!IdleYield
      BY <2>1, <2>2, <2>3, <2>4, <3>1 DEF Sched!IdleYield, Flags
    <3> QED
      BY <3>2 DEF Sched!Next
  <2>5. CASE current \in Tasks /\ current \in canExecute
    <3>1. Flags = canExecute /\ idlePc' = idlePc
      BY <1>0, <2>1, <2>5 DEF Flags
    <3>2. Sched!Yield
      BY <2>1, <2>2, <2>3, <2>5, <3>1 DEF Sched!Yield, Sched!TaskCode, Flags
    <3> QED
      BY <3>2 DEF Sched!Next
  <2>6. CASE current \in Tasks /\ current \notin canExecute
    <3>1. Flags = canExecute \cup {current} /\ idlePc' = idlePc
      BY <1>0, <2>1, <2>6 DEF Flags
    <3>2. Flags' = Flags \ {current}
      BY <2>2, <2>6, <3>1
    <3>3. Sched!Suspend(current)
      BY <1>0, <2>1, <2>2, <2>3, <2>6, <3>1, <3>2 DEF Sched!Suspend, Sched!TaskCode, Flags
    <3> QED
      BY <2>6, <3>3 DEF Sched!Next
  <2> QED
    BY <1>0, <2>4, <2>5, <2>6
<1>4. ASSUME UNCHANGED vars, at' # "chosen", at = "chosen" /\ current \in Tasks => current \in canExecute
      PROVE  Flags' = Flags
  BY <1>4 DEF vars, Flags
<1>5. CASE LoadTask \/ SaveTask
  <2>1. UNCHANGED vars /\ at' # "chosen"
    BY <1>5 DEF LoadTask, SaveTask
  <2>2. at = "chosen" /\ current \in Tasks => current \in canExecute
    BY DEF SwitchInv
  <2> QED
    BY <1>4, <2>1, <2>2 DEF vars
<1>6. CASE syscall_exit
  <2>1. /\ at = "run" /\ at' = "entered" /\ canExecute' = canExecute \ {current}
        /\ UNCHANGED <<slot, made, current, round_schedule, idlePc>>
    BY <1>6 DEF syscall_exit, InCode, Interrupt
  <2>2. Flags' = Flags
    BY <1>0, <2>1 DEF Flags
  <2> QED
    BY <2>1, <2>2
<1>7. CASE \/ \E v \in Versions : Compute(v)
           \/ \E n \in Syscalls : Syscall(n)
           \/ IdleLoop \/ UserInterrupt \/ syscall_yield \/ syscall_write \/ Crash
           \/ CallPageZero \/ SyscallReturn
  <2>1. UNCHANGED vars /\ at = "run" /\ at' \in {"run", "entered", "lost"}
    BY <1>7 DEF Compute, Syscall, IdleLoop, UserInterrupt, syscall_yield, syscall_write, Crash,
                CallPageZero, SyscallReturn, InUser, InCode, InCstart, Interrupt
  <2>2. Flags' = Flags
    BY <1>4, <2>1
  <2> QED
    BY <2>1, <2>2 DEF vars
<1>8. CASE UNCHANGED allvars
  BY <1>8 DEF allvars, vars, kvars, Flags
<1> QED
  BY <1>1, <1>2, <1>3, <1>5, <1>6, <1>7, <1>8 DEF KernelNext, Sched!Next

(***************************************************************************)
(* scheduler_asm.s, syscall_table.c over scheduler.c: cut into its steps,  *)
(* with any number of processes, the kernel runs the scheduler as          *)
(* specified, so that what is proved of Scheduler holds of it.             *)
(***************************************************************************)
THEOREM KernelSchedules == KernelSpec => SchedulerSpec
<1>1. KernelInit => Sched!Init
  BY NamesAssumption DEF KernelInit, Init, Sched!Init, Slots, UrgentSlots, RoundSlots,
     Sched!Slots, Sched!UrgentSlots, Sched!RoundSlots
<1>2. KInv /\ SwitchInv /\ [KernelNext]_allvars =>
        [Sched!Next]_<<slot, Flags, made, current, round_schedule, idlePc>>
  BY StepSchedules
<1> QED
  BY <1>1, <1>2, KernelKeepsInv, KernelKeepsSwitchInv, PTL
  DEF KernelSpec, SchedulerSpec, Sched!Spec, Sched!vars, Flags
=============================================================================
