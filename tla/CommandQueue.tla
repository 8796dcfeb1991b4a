---------------------------- MODULE CommandQueue ----------------------------
(***************************************************************************)
(* What the keyboard driver promises to whoever gives it commands, without *)
(* its ring buffer, its loop and the bytes on the wire: commands are done  *)
(* in the order they were given, each one once, and the driver stops for   *)
(* want of room only when it holds about as many as it has room for.  Of   *)
(* the ring, "done" is removed; of the whole, carried out by the keyboard. *)
(***************************************************************************)
EXTENDS Integers, Sequences

CONSTANTS
  Commands,           \* what may be pushed
  Room                \* how many fit

VARIABLES
  todo,               \* commands not done yet, oldest first
  done,               \* commands done, oldest first
  driver              \* "running", or why it has stopped: "full", "confused"

Init == todo = <<>> /\ done = <<>> /\ driver = "running"

Push(c) ==
  /\ driver = "running"
  /\ Len(todo) < Room
  /\ todo' = Append(todo, c)
  /\ UNCHANGED <<done, driver>>

(* Also when the driver has stopped: the keyboard does not know.           *)
Execute ==
  /\ todo # <<>>
  /\ done' = Append(done, Head(todo))
  /\ todo' = Tail(todo)
  /\ UNCHANGED driver

(* One command may have been done without its room being free yet.         *)
Overflow ==
  /\ driver = "running" /\ driver' = "full"
  /\ Len(todo) \in Room - 1 .. Room
  /\ UNCHANGED <<todo, done>>

(* The driver takes something for an answer that is none, waiting for one. *)
Confuse ==
  /\ driver = "running" /\ driver' = "confused"
  /\ Len(todo) + Len(done) > 0
  /\ UNCHANGED <<todo, done>>

Next == (\E c \in Commands : Push(c)) \/ Execute \/ Overflow \/ Confuse

Spec == Init /\ [][Next]_<<todo, done, driver>>
=============================================================================
