-------------------------------- MODULE Boot --------------------------------
(***************************************************************************)
(* cstart (main.c) from its first call to idle_loop: the processor's setup *)
(* (Startup), then the loop that makes a process of each boot module       *)
(* (Processes), then the tasks, with faults and device lines at any time.  *)
(* createKernelAddressSpace and setup_frame_allocator are the initial      *)
(* state of AddressSpace.  The modules are loaded on the stack and with    *)
(* the gates set up before: a panic is int $200 through them.              *)
(***************************************************************************)
EXTENDS Processes, Startup

loaderVars == <<vars, processVars>>
bootVars   == <<startupVars, loaderVars>>

BootInit == StartupInit /\ ProcessesInit

(* Everything but the loop leaves the loader alone.                        *)
Processor == (SetUpProcessor \/ RunTasks) /\ UNCHANGED loaderVars
Environment == Disturb /\ UNCHANGED loaderVars

(* The loop: a step inside a module, one that panics, the last one of a    *)
(* module, the end.                                                        *)
LoadStep ==
  /\ Call("processes")
  /\ ProcessesNext
  /\ ~panicked' /\ tasks' = tasks /\ pc' # "idle"
  /\ UNCHANGED startupVars

LoadPanics == Panic /\ ProcessesNext /\ panicked'

LoadMakes == MakeProcess /\ ProcessesNext /\ Len(tasks') > Len(tasks)

LoadEnds == ProcessesMade /\ ProcessesNext /\ pc' = "idle"

Load ==
  \/ LoadStep
  \/ LoadPanics
  \/ LoadMakes
  \/ LoadEnds

BootNext ==
  \/ Processor
  \/ Load
  \/ Environment

(* cstart is straight code on the one CPU: nothing but a fault stops it.   *)
BootSpec == BootInit /\ [][BootNext]_bootVars /\ WF_bootVars(Processor \/ Load)

----------------------------------------------------------------------------
BootTypeOK == StartupTypeOK /\ ProcessesTypeOK

(***************************************************************************)
(* cstart comes to its end: every module is scheduled and idle_loop was    *)
(* reached, unless the processor stopped in a handler, for a fault or for  *)
(* want of frames.  All loops on the way end: that over the bytes for the  *)
(* controllers, over the headers of a module, whatever their types, and    *)
(* over the pages of a section, which counts memsz down past zero.         *)
(***************************************************************************)
EveryModuleStarted ==
  <>[](cpu # "running" \/ (cstart[step] \in {"idle_loop", "hlt"} /\ Len(tasks) = Len(modules)))
=============================================================================
