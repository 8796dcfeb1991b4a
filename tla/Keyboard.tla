------------------------------ MODULE Keyboard ------------------------------
(***************************************************************************)
(* The keyboard driver of src/src/keyboard.c: initps2, the command queue   *)
(* and keyboard_test_loop, against the controller and a keyboard.          *)
(*                                                                         *)
(* A command is the number of its push.  The keyboard answers every byte   *)
(* of it; the loop reads one answer.  line is what port 0x60 will give,    *)
(* in order: bit 0 of port 0x64 says whether it is empty.  Commands may be *)
(* pushed at any time, as by an interrupt handler: the loop polls for      *)
(* them.  What processScancode makes of a byte is in Scancodes.            *)
(***************************************************************************)
EXTENDS Integers, Sequences, SequencesExt

CONSTANTS
  QueueSize,          \* length of kbdCommandQueue, 16
  DataLength(_),      \* data_length of the n-th command
  MaxCommands,        \* bound: commands pushed
  MaxAccepted,        \* bound: commands carried out, repetitions included
  MaxLine             \* bound: bytes waiting when a key is pressed

ASSUME SizeAssumption == QueueSize \in Nat /\ QueueSize > 1
ASSUME CommandAssumption ==
  MaxCommands \in Nat /\ \A n \in 1 .. MaxCommands : DataLength(n) \in 0 .. 2

WithoutData(n) == DataLength(n) = 0

VARIABLES
  kbdCommandQueue, kbdCommandQueueBegin, kbdCommandQueueEnd,
  pc,                 \* where the driver is
  nextCommand,        \* the loop's copy of the front, and
  sent,               \* how many of its bytes are sent
  cc,                 \* local variable of initps2
  line,               \* bytes from the controller and the keyboard
  input,              \* the byte in the controller's input buffer, if any
  config,             \* the controller's configuration byte, a set of flags
  refused,            \* the keyboard has refused a byte of this command
  accepted,           \* commands the keyboard has carried out
  pushed              \* number of commands pushed so far

queueVars  == <<kbdCommandQueue, kbdCommandQueueBegin, kbdCommandQueueEnd, pushed>>
deviceVars == <<input, refused, accepted>>
vars == <<queueVars, pc, nextCommand, sent, cc, line, config, deviceVars>>

Scan   == <<"scan code">>
Ack    == <<"0xfa">>
Resend == <<"0xfe">>
TestPassed == <<"0x55">>
ConfigByte(flags) == <<"config", flags>>

Flags == {"irq1", "irq12", "system", "port1 off", "port2 off", "translation"}

Mask == {"system", "port1 off", "port2 off"}    \* 0x34

Steps == <<"disable", "flush", "ask config", "read config", "write config", "self test",
           "read test", "scan", "command", "answer", "halted", "panic">>
Loop  == {"scan", "command", "answer"}
Stopped == pc \in {"halted", "panic"}

Init ==
  /\ kbdCommandQueue = [i \in 0 .. QueueSize - 1 |-> 0]
  /\ kbdCommandQueueBegin = 0 /\ kbdCommandQueueEnd = 0
  /\ pc = "disable"
  /\ nextCommand = 0 /\ sent = 0
  /\ cc = {}
  /\ line \in {<<>>, <<Scan>>}
  /\ input = <<>>
  /\ config \in {flags \cup {"system"} : flags \in SUBSET Flags}
  /\ refused = FALSE
  /\ accepted = <<>>
  /\ pushed = 0

----------------------------------------------------------------------------
(* The command queue.                                                      *)

kbdCommandQueueLength == (kbdCommandQueueEnd + QueueSize - kbdCommandQueueBegin) % QueueSize

\* Mutant: no room is kept free.
kbdCommandQueuePushUnchecked ==
  /\ ~Stopped /\ pushed < MaxCommands
  /\ pushed' = pushed + 1
  /\ kbdCommandQueue' = [kbdCommandQueue EXCEPT ![kbdCommandQueueEnd] = pushed + 1]
  /\ kbdCommandQueueEnd' = (kbdCommandQueueEnd + 1) % QueueSize
  /\ UNCHANGED <<kbdCommandQueueBegin, pc, nextCommand, sent, cc, line, config, deviceVars>>

kbdCommandQueuePush ==
  LET nextEnd == (kbdCommandQueueEnd + 1) % QueueSize IN
  /\ ~Stopped /\ pushed < MaxCommands
  /\ IF nextEnd = kbdCommandQueueBegin
       THEN pc' = "panic" /\ UNCHANGED queueVars
       ELSE /\ pushed' = pushed + 1
            /\ kbdCommandQueue' = [kbdCommandQueue EXCEPT ![kbdCommandQueueEnd] = pushed + 1]
            /\ kbdCommandQueueEnd' = nextEnd
            /\ UNCHANGED <<kbdCommandQueueBegin, pc>>
  /\ UNCHANGED <<nextCommand, sent, cc, line, config, deviceVars>>

----------------------------------------------------------------------------
(* initps2.  The controller obeys at once.                                 *)

At(from, to) == pc = from /\ pc' = to

DisablePorts ==
  /\ At("disable", "flush")
  /\ config' = config \cup {"port1 off", "port2 off"}
  /\ UNCHANGED <<queueVars, nextCommand, sent, cc, line, deviceVars>>

\* Mutant: only one byte is flushed.
FlushOne ==
  /\ At("flush", "ask config")
  /\ line' = IF line = <<>> THEN line ELSE Tail(line)
  /\ UNCHANGED <<queueVars, nextCommand, sent, cc, config, deviceVars>>

Flush ==
  /\ IF line = <<>> THEN At("flush", "ask config") /\ UNCHANGED line
                    ELSE At("flush", "flush") /\ line' = Tail(line)
  /\ UNCHANGED <<queueVars, nextCommand, sent, cc, config, deviceVars>>

AskConfig ==
  /\ At("ask config", "read config")
  /\ line' = Append(line, ConfigByte(config))
  /\ UNCHANGED <<queueVars, nextCommand, sent, cc, config, deviceVars>>

(* The byte may have been another than the one asked for.                  *)
ReadConfig ==
  /\ At("read config", "write config")
  /\ line # <<>>
  /\ \E flags \in IF Len(Head(line)) = 2 THEN {Head(line)[2]} ELSE SUBSET Flags :
       cc' = flags \cap Mask
  /\ line' = Tail(line)
  /\ UNCHANGED <<queueVars, nextCommand, sent, config, deviceVars>>

WriteConfig ==
  /\ At("write config", "self test")
  /\ input = <<>>
  /\ config' = cc
  /\ UNCHANGED <<queueVars, nextCommand, sent, cc, line, deviceVars>>

SelfTest ==
  /\ At("self test", "read test")
  /\ line' = Append(line, TestPassed)
  /\ UNCHANGED <<queueVars, nextCommand, sent, cc, config, deviceVars>>

(* The result is printed; then the first port is enabled.                  *)
ReadTest ==
  /\ At("read test", "scan")
  /\ line # <<>>
  /\ line' = Tail(line)
  /\ config' = config \ {"port1 off"}
  /\ UNCHANGED <<queueVars, nextCommand, sent, cc, deviceVars>>

initps2 == \/ DisablePorts \/ Flush \/ AskConfig \/ ReadConfig
           \/ WriteConfig \/ SelfTest \/ ReadTest

----------------------------------------------------------------------------
(* keyboard_test_loop.                                                     *)

ReadScanCode ==
  /\ At("scan", "scan")
  /\ line # <<>>
  /\ line' = Tail(line)
  /\ UNCHANGED <<queueVars, nextCommand, sent, cc, config, deviceVars>>

\* Mutant: the command is removed when it is taken, not when it is done.
TakeFrontPopped ==
  /\ At("scan", "command")
  /\ line = <<>>
  /\ kbdCommandQueueLength # 0
  /\ nextCommand' = kbdCommandQueue[kbdCommandQueueBegin]
  /\ sent' = 0
  /\ kbdCommandQueueBegin' = (kbdCommandQueueBegin + 1) % QueueSize
  /\ UNCHANGED <<kbdCommandQueue, kbdCommandQueueEnd, pushed, cc, line, config, deviceVars>>

TakeFront ==
  /\ At("scan", "command")
  /\ line = <<>>
  /\ kbdCommandQueueLength # 0
  /\ nextCommand' = kbdCommandQueue[kbdCommandQueueBegin]
  /\ sent' = 0
  /\ UNCHANGED <<queueVars, cc, line, config, deviceVars>>

(* ps2data: the command byte, then each byte of its data.                  *)
SendByte ==
  /\ pc = "command"
  /\ input = <<>>
  /\ input' = <<nextCommand, sent>>
  /\ sent' = sent + 1
  /\ pc' = IF sent = DataLength(nextCommand) THEN "answer" ELSE "command"
  /\ UNCHANGED <<queueVars, nextCommand, cc, line, config, refused, accepted>>

ReadAnswer(bytes, to) ==
  /\ At("answer", to)
  /\ line # <<>>
  /\ Head(line) \in bytes
  /\ line' = Tail(line)
  /\ UNCHANGED <<nextCommand, sent, cc, config, deviceVars>>

\* Mutant: the position does not wrap.
PopUnwrapped ==
  /\ kbdCommandQueueBegin' = kbdCommandQueueBegin + 1
  /\ UNCHANGED <<kbdCommandQueue, kbdCommandQueueEnd, pushed>>

kbdCommandQueuePop ==
  /\ kbdCommandQueueBegin' = (kbdCommandQueueBegin + 1) % QueueSize
  /\ UNCHANGED <<kbdCommandQueue, kbdCommandQueueEnd, pushed>>

Acknowledged == ReadAnswer({Ack}, "scan") /\ kbdCommandQueuePop

\* Mutant: a refused command is not repeated.
SendAgainNever == ReadAnswer({Resend}, "scan") /\ kbdCommandQueuePop

SendAgain == ReadAnswer({Resend}, "scan") /\ UNCHANGED queueVars

UnknownByte == ReadAnswer({Scan, TestPassed}, "halted") /\ UNCHANGED queueVars

LoopStep == \/ ReadScanCode \/ TakeFront \/ SendByte
            \/ Acknowledged \/ SendAgain \/ UnknownByte

----------------------------------------------------------------------------
(* The keyboard.                                                           *)

Enabled == "port1 off" \notin config

ScanCode ==
  /\ Enabled
  /\ Len(line) < MaxLine
  /\ line' = Append(line, Scan)
  /\ UNCHANGED <<queueVars, pc, nextCommand, sent, cc, config, deviceVars>>

(* It takes a byte and acknowledges it, or asks for a repetition; data of  *)
(* a command it has refused is no command to it either.                    *)
TakeByte(answer) ==
  LET done == input[2] = DataLength(input[1]) /\ answer = Ack
  IN /\ Enabled
     /\ input # <<>>
     /\ refused /\ input[2] > 0 => answer = Resend
     /\ done => Len(accepted) < MaxAccepted
     /\ line' = Append(line, answer)
     /\ refused' = (answer = Resend)
     /\ accepted' = IF done THEN Append(accepted, input[1]) ELSE accepted
     /\ input' = <<>>
     /\ UNCHANGED <<queueVars, pc, nextCommand, sent, cc, config>>

Next ==
  \/ kbdCommandQueuePush
  \/ initps2
  \/ LoopStep
  \/ ScanCode
  \/ TakeByte(Ack) \/ TakeByte(Resend)

Spec == Init /\ [][Next]_vars

(* The driver is code on a CPU nobody takes from it; the keyboard answers, *)
(* and does not refuse the same byte of a command forever.                 *)
Accept(i) == input # <<>> /\ input[2] = i /\ TakeByte(Ack)

FairSpec ==
  /\ Spec
  /\ WF_vars(initps2) /\ WF_vars(LoopStep)
  /\ WF_vars(TakeByte(Ack) \/ TakeByte(Resend))
  /\ \A i \in 0 .. 2 : SF_vars(Accept(i))

----------------------------------------------------------------------------
(* Properties.                                                             *)

TypeOK ==
  /\ kbdCommandQueue \in [0 .. QueueSize - 1 -> 0 .. MaxCommands]
  /\ kbdCommandQueueBegin \in 0 .. QueueSize - 1
  /\ kbdCommandQueueEnd \in 0 .. QueueSize - 1
  /\ pc \in ToSet(Steps)
  /\ nextCommand \in 0 .. MaxCommands /\ sent \in 0 .. 3
  /\ cc \subseteq Mask /\ config \subseteq Flags
  /\ input = <<>> \/ input \in (1 .. MaxCommands) \X (0 .. 2)
  /\ refused \in BOOLEAN
  /\ accepted \in Seq(1 .. MaxCommands)
  /\ pushed \in 0 .. MaxCommands

(***************************************************************************)
(* The ring is a queue: however pushes fall between the steps of the loop, *)
(* and whatever the keyboard answers, commands leave it in the order they  *)
(* were pushed, none twice and none overwritten, and push panics only when *)
(* it is full.                                                             *)
(***************************************************************************)
Popped == pushed - kbdCommandQueueLength

driverState == CASE pc = "panic" -> "full" [] pc = "halted" -> "confused" [] OTHER -> "running"

Ring == INSTANCE CommandQueue WITH
  Commands <- 1 .. MaxCommands,
  Room <- QueueSize - 1,
  todo <- [i \in 1 .. kbdCommandQueueLength |->
             kbdCommandQueue[(kbdCommandQueueBegin + i - 1) % QueueSize]],
  done <- [i \in 1 .. Popped |-> i],
  driver <- driverState

RingQueueSpec == Ring!Spec

(***************************************************************************)
(* Until the loop takes a command with data, the driver implements the     *)
(* queue up to the keyboard: whatever it asks to have repeated, commands   *)
(* are carried out in the order they were pushed, none twice and none      *)
(* lost.  With data it does not: the keyboard answers each byte and the    *)
(* loop reads one answer (keyboard.c:151), so the answer to the first byte *)
(* removes the command although the keyboard may refuse the rest.          *)
(***************************************************************************)
NoDataYet == \A n \in 1 .. nextCommand : WithoutData(n)

Outstanding == pushed - Len(accepted)

Todo == [i \in 1 .. Outstanding |->
           kbdCommandQueue[(kbdCommandQueueEnd - Outstanding + i - 1) % QueueSize]]

Queue == INSTANCE CommandQueue WITH
  Commands <- 1 .. MaxCommands,
  Room <- QueueSize - 1,
  todo <- Todo,
  done <- accepted,
  driver <- driverState

CommandQueueSpec ==
  Queue!Init /\ [][NoDataYet' => Queue!Next \/ UNCHANGED <<Todo, accepted, driverState>>]_vars

(***************************************************************************)
(* "read scan codes" says keyboard.c:138 of the inner loop: the decoder is *)
(* given scan codes, never an answer that was late, or the controller's.   *)
(* It holds until the loop takes a command with data: it reads one answer  *)
(* of those to its bytes, and takes the others for scan codes.             *)
(***************************************************************************)
DecoderGetsScanCodes == [][ReadScanCode /\ NoDataYet => Head(line) = Scan]_vars

(***************************************************************************)
(* Unless keys are pressed for ever, or the driver stops, every command    *)
(* pushed before any with data is carried out in the end.                  *)
(***************************************************************************)
EveryCommandDone ==
  <>[][~ScanCode]_vars =>
    \A n \in 1 .. MaxCommands :
      (pushed >= n /\ \A m \in 1 .. n : WithoutData(m)) ~> (n \in ToSet(accepted) \/ Stopped)
=============================================================================
