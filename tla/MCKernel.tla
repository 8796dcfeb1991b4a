------------------------------ MODULE MCKernel ------------------------------
(* Two tasks in a band of three slots, so that the round passes its end;   *)
(* the program of one has a page at address 0.                             *)
EXTENDS Kernel

CONSTANTS t1, t2

MCTasks == {t1, t2}
MCPageZero == {t1}
MCPriorities == 0 .. 1
MCSyscalls == {0, 1, 4, 17, 153}
=============================================================================
