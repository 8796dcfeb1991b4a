----------------------------- MODULE Scheduler -----------------------------
(***************************************************************************)
(* The scheduler, src/src/scheduler.c: a vector of slots indexed by        *)
(* priority, scanned by scheduler() whenever the running code executes     *)
(* int 201.  Slots below 0 have strict priority, slots from 0 on share     *)
(* the CPU in a round.  asm_get_cpuid always answers 0, so there is one    *)
(* CPU, one row of scheduling_vector and one entry of current_task_table.  *)
(*                                                                         *)
(* The switch is atomic: enable_interrupts (arch/x86_64/interrupts.c)      *)
(* masks every line of both PICs, so nothing interrupts the kernel, and    *)
(* tasks give up the CPU only by themselves.  For the same reason the hlt  *)
(* of idle_loop is never left.                                             *)
(***************************************************************************)
EXTENDS Integers

CONSTANTS
  Tasks,              \* struct task objects other than idle_loop_task
  Idle,               \* idle_loop_task: cstart, then idle_loop of main.c
  NULL,               \* the null pointer in a slot
  Band,               \* 128: slots of each half of scheduling_vector[0]
  Priorities          \* the priorities callers pass to schedule()

ASSUME BandAssumption == Band \in Nat \ {0}
ASSUME NamesAssumption == Idle \notin Tasks /\ NULL \notin Tasks /\ NULL # Idle
ASSUME PrioritiesAssumption == Priorities \subseteq (-Band) .. (Band - 1)

VARIABLES
  slot,               \* scheduling_vector[0][128 + p].task, by priority p
  canExecute,         \* tasks whose TASK_FLAG_MASK_CAN_EXECUTE bit is set
  made,               \* tasks initialised by make_task
  current,            \* current_task_table[0]
  round_schedule,     \* static variable of scheduler()
  idlePc              \* where idle_loop_task is: "boot", or "hlt" once saved

vars == <<slot, canExecute, made, current, round_schedule, idlePc>>

UrgentSlots == (-Band) .. -1
RoundSlots  == 0 .. (Band - 1)
Slots       == UrgentSlots \cup RoundSlots

(* The bss: empty slots, no task made; init_scheduler makes cstart the     *)
(* current task under the name of idle_loop_task.                          *)
Init ==
  /\ slot = [p \in Slots |-> NULL]
  /\ canExecute = {}
  /\ made = {}
  /\ current = Idle
  /\ round_schedule = 0
  /\ idlePc = "boot"

----------------------------------------------------------------------------
(* scheduler(), run with the flags can.                                    *)

(* The position the second loop looks at in its k-th iteration.            *)
Position(k) == (round_schedule + k) % Band

(* get_if_can_execute for the slots the two loops look at: the loop over   *)
(* the round stops one position short of a full circle.                    *)
UrgentReady(can) == {p \in UrgentSlots : slot[p] \in can}
ReadyTurns(can)  == {k \in 0 .. (Band - 2) : slot[Position(k)] \in can}

TakeUrgent(can) ==
  \E p \in UrgentReady(can) :
    /\ \A q \in UrgentReady(can) : p <= q
    /\ current' = slot[p]
    /\ UNCHANGED round_schedule

\* Mutant: round_schedule is left at the slot that was taken.
TakeRoundStays(can) ==
  /\ UrgentReady(can) = {}
  /\ \E k \in ReadyTurns(can) :
       /\ \A j \in ReadyTurns(can) : k <= j
       /\ current' = slot[Position(k)]
       /\ round_schedule' = Position(k)

\* Mutant: the next round starts at the unwrapped position.
TakeRoundUnwrapped(can) ==
  /\ UrgentReady(can) = {}
  /\ \E k \in ReadyTurns(can) :
       /\ \A j \in ReadyTurns(can) : k <= j
       /\ current' = slot[Position(k)]
       /\ round_schedule' = round_schedule + k + 1

\* Mutant: the slots below 0 are not looked at first.
TakeRoundImpolite(can) ==
  \E k \in ReadyTurns(can) :
    /\ \A j \in ReadyTurns(can) : k <= j
    /\ current' = slot[Position(k)]
    /\ round_schedule' = Position(k) + 1

TakeRound(can) ==
  /\ UrgentReady(can) = {}
  /\ \E k \in ReadyTurns(can) :
       /\ \A j \in ReadyTurns(can) : k <= j
       /\ current' = slot[Position(k)]
       /\ round_schedule' = Position(k) + 1

\* Mutant: idle is chosen although a task of the round is ready.
TakeIdleEagerly(can) ==
  /\ UrgentReady(can) = {}
  /\ current' = Idle
  /\ UNCHANGED round_schedule

TakeIdle(can) ==
  /\ UrgentReady(can) = {}
  /\ ReadyTurns(can) = {}
  /\ current' = Idle
  /\ UNCHANGED round_schedule

Reschedule(can) == TakeUrgent(can) \/ TakeRound(can) \/ TakeIdle(can)

----------------------------------------------------------------------------
(* What the running code may do.  cstart makes and schedules tasks while   *)
(* it boots and then enters idle_loop; a task may call any of the          *)
(* interface of scheduler.h.                                               *)

Running(t) == current = t /\ (t = Idle => idlePc = "boot")
KernelCode == \E t \in Tasks \cup {Idle} : Running(t)
TaskCode   == current \in Tasks

(* make_task; a task object is initialised once.                           *)
MakeTask(t) ==
  /\ KernelCode
  /\ t \notin made
  /\ made' = made \cup {t}
  /\ canExecute' = canExecute \cup {t}
  /\ UNCHANGED <<slot, current, round_schedule, idlePc>>

(* schedule(p, t, flags) overwrites the slot, with a task or with NULL.    *)
Schedule(p, t) ==
  /\ KernelCode
  /\ t \in made \cup {NULL}
  /\ slot' = [slot EXCEPT ![p] = t]
  /\ UNCHANGED <<canExecute, made, current, round_schedule, idlePc>>

(* yield() by a task.                                                      *)
Yield ==
  /\ TaskCode
  /\ Reschedule(canExecute)
  /\ UNCHANGED <<slot, canExecute, made, idlePc>>

(* int 201 in idle_loop, after the boot.  The saved RIP is that of hlt.    *)
IdleYield ==
  /\ current = Idle /\ idlePc = "boot"
  /\ idlePc' = "hlt"
  /\ Reschedule(canExecute)
  /\ UNCHANGED <<slot, canExecute, made>>

\* Mutant: suspend returns to its caller without yielding.
SuspendWithoutYield(t) ==
  /\ TaskCode
  /\ t \in made
  /\ canExecute' = canExecute \ {t}
  /\ UNCHANGED <<slot, made, current, round_schedule, idlePc>>

(* suspend(t), and suspend(NULL) when t is the current task.               *)
Suspend(t) ==
  /\ TaskCode
  /\ t \in made
  /\ canExecute' = canExecute \ {t}
  /\ Reschedule(canExecute')
  /\ UNCHANGED <<slot, made, idlePc>>

(* resume(t) sets the flag and does not yield.                             *)
Resume(t) ==
  /\ TaskCode
  /\ t \in made
  /\ canExecute' = canExecute \cup {t}
  /\ UNCHANGED <<slot, made, current, round_schedule, idlePc>>

Next ==
  \/ \E t \in Tasks : MakeTask(t) \/ Suspend(t) \/ Resume(t)
  \/ \E p \in Priorities, t \in Tasks \cup {NULL} : Schedule(p, t)
  \/ Yield
  \/ IdleYield

Spec == Init /\ [][Next]_vars

(***************************************************************************)
(* Scheduling is cooperative.  The fairness says that whoever runs goes on *)
(* to execute int 201, as idle_loop, the tasks of test_scheduler.c and the *)
(* user program modules/testelf do in their endless loops.                 *)
(***************************************************************************)
FairSpec == Spec /\ WF_vars(Yield) /\ WF_vars(IdleYield)

----------------------------------------------------------------------------
(* Properties.                                                             *)

TypeOK ==
  /\ slot \in [Slots -> Tasks \cup {NULL}]
  /\ made \subseteq Tasks
  /\ canExecute \subseteq made
  /\ current \in Tasks \cup {Idle}
  /\ round_schedule \in 0 .. Band
  /\ idlePc \in {"boot", "hlt"}

Ready(p) == slot[p] \in canExecute
Halted   == current = Idle /\ idlePc = "hlt"

(* A task that was suspended, by itself or by another one, does not run    *)
(* before it is resumed: suspend ends in a yield that no longer finds it.  *)
SuspendedNeverRuns == current \in Tasks => current \in canExecute

(* How far the round is from slot p: 0 for the slot scanned first, Band-1  *)
(* for the one slot the loop leaves out.                                   *)
Turn(p) == IF p >= round_schedule THEN p - round_schedule
                                  ELSE p - round_schedule + Band

(***************************************************************************)
(* When the CPU comes to rest in idle_loop no urgent slot is ready and at  *)
(* most one slot of the round is, the one just before round_schedule: a    *)
(* bounded loss.                                                           *)
(***************************************************************************)
HaltLosesAtMostOne ==
  Halted => \A p \in Slots : Ready(p) => p \in RoundSlots /\ Turn(p) = Band - 1

Switch == Yield \/ IdleYield \/ \E t \in Tasks : Suspend(t)

TakesUrgent == \E p \in UrgentSlots : current' = slot[p] /\ slot[p] \in canExecute'

(***************************************************************************)
(* Whenever a switch gives the CPU to a slot of the round, every other     *)
(* slot that was waiting comes strictly nearer to its turn, and no other   *)
(* step moves it away.  A slot that stays ready is therefore passed over   *)
(* fewer than Band times, whatever is scheduled, suspended or resumed      *)
(* meanwhile.                                                              *)
(***************************************************************************)
EveryTurnComesNearer ==
  [][ \/ /\ round_schedule' = round_schedule
         /\ Switch => current' = Idle \/ TakesUrgent
      \/ \E p \in RoundSlots :
           /\ current' = slot[p] /\ slot[p] \in canExecute'
           /\ \A q \in RoundSlots \ {p} :
                slot[q] \in canExecute' => Turn(q)' < Turn(q) ]_vars

(***************************************************************************)
(* No switch passes over a ready urgent slot: the task that gets the CPU   *)
(* is then one of an urgent slot, and no more urgent slot is ready.        *)
(***************************************************************************)
UrgentFirst ==
  [][ Switch =>
        \A q \in UrgentSlots : slot[q] \in canExecute' =>
          \E p \in UrgentSlots : p <= q /\ current' = slot[p] ]_vars

(***************************************************************************)
(* With tasks that keep yielding, a slot of the round that is ready gets   *)
(* the CPU, unless it stops being ready, an urgent slot is ready, or idle  *)
(* takes over (HaltLosesAtMostOne says when).                              *)
(***************************************************************************)
ReadySlotIsServed ==
  \A p \in Priorities \cap RoundSlots :
    Ready(p) ~> \/ current = slot[p]
                \/ ~Ready(p)
                \/ \E q \in UrgentSlots : Ready(q)
                \/ current = Idle

(***************************************************************************)
(* What scheduler_asm.s says of the call of scheduler(): "I want to switch *)
(* to the next useful task".  The CPU does not halt with a task ready.     *)
(***************************************************************************)
NextUsefulTask == Halted => \A p \in Slots : ~Ready(p)
=============================================================================
