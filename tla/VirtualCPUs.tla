---------------------------- MODULE VirtualCPUs ----------------------------
(***************************************************************************)
(* What the context switch promises: every thread of control has a         *)
(* processor of its own.  Its registers, stack pointer, privilege and      *)
(* address space change by its own steps and by nothing another thread     *)
(* does, however often and wherever the one real processor is switched.    *)
(***************************************************************************)
CONSTANTS
  Threads,
  Nobody,             \* stands for no thread
  Boot,               \* the thread that is running at first
  Start(_)            \* the context a thread is made with

VARIABLES
  context,            \* context[t]: register contents of t's processor
  current             \* the thread that has the real one, Nobody in a switch

(* A thread is made by the one that runs.                                  *)
Make(t) ==
  /\ current \notin {t, Nobody}
  /\ context' = [context EXCEPT ![t] = Start(t)]
  /\ UNCHANGED current

(* The running thread computes, and may give up the processor with that.   *)
Run ==
  /\ current # Nobody
  /\ DOMAIN context' = Threads
  /\ \A t \in Threads \ {current} : context'[t] = context[t]
  /\ current' \in {current, Nobody}

(* Some thread goes on where it was.                                       *)
Dispatch ==
  /\ current = Nobody
  /\ current' \in Threads
  /\ UNCHANGED context

Next == (\E t \in Threads : Make(t)) \/ Run \/ Dispatch

Spec == current = Boot /\ [][Next]_<<context, current>>
=============================================================================
