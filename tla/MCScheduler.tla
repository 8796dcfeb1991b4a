---------------------------- MODULE MCScheduler ----------------------------
(* Three tasks and bands of three slots, of which callers use one urgent   *)
(* slot, the idle slots and the whole round, or, as cstart does, the round *)
(* without its last slot.                                                  *)
EXTENDS Scheduler

CONSTANTS t1, t2, t3

MCTasks == {t1, t2, t3}
MCPriorities == {-3, -1, 0, 1, 2}
MCRoundPriorities == {0, 1}
=============================================================================
