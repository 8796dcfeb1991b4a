--------------------------- MODULE KeyboardProofs ---------------------------
(***************************************************************************)
(* The keyboard driver with a ring of any size and any number of pushes:   *)
(* the ring and initps2 with commands of any length; what the keyboard     *)
(* carries out and the decoder is given, until one with data is taken.     *)
(***************************************************************************)
EXTENDS Keyboard, TLAPS

(* Positions of the ring.                                                  *)
LEMMA Wrap ==
  ASSUME NEW x \in Int
  PROVE  /\ x \in 0 .. QueueSize - 1 => x % QueueSize = x
         /\ x \in QueueSize .. 2 * QueueSize - 1 => x % QueueSize = x - QueueSize
         /\ x \in -QueueSize .. -1 => x % QueueSize = x + QueueSize
<1>1. x \in 0 .. QueueSize - 1 => x % QueueSize = x
  BY SizeAssumption, Z3
<1>2. x \in QueueSize .. 2 * QueueSize - 1 => x % QueueSize = x - QueueSize
  BY SizeAssumption, Z3
<1>3. x \in -QueueSize .. -1 => x % QueueSize = x + QueueSize
  BY SizeAssumption, Z3
<1> QED
  BY <1>1, <1>2, <1>3

Positions == 0 .. QueueSize - 1

Wrapped(x) == x % QueueSize

LEMMA Wraps ==
  ASSUME NEW x \in 0 .. 2 * QueueSize - 1
  PROVE  /\ Wrapped(x) = IF x < QueueSize THEN x ELSE x - QueueSize
         /\ Wrapped(x) \in Positions
<1>1. x \in Int /\ QueueSize \in Nat /\ QueueSize > 1
  BY SizeAssumption
<1>2. x \in 0 .. QueueSize - 1 \/ x \in QueueSize .. 2 * QueueSize - 1
  BY <1>1
<1>3. Wrapped(x) = IF x < QueueSize THEN x ELSE x - QueueSize
  BY <1>1, <1>2, Wrap DEF Wrapped
<1> QED
  BY <1>1, <1>2, <1>3 DEF Positions

LEMMA WrapsBelow ==
  ASSUME NEW x \in -QueueSize .. -1
  PROVE  Wrapped(x) = x + QueueSize
<1>1. x \in Int
  BY SizeAssumption
<1> QED
  BY <1>1, Wrap DEF Wrapped

(* A ring with these begin and end holds the commands after the p-th up to *)
(* the n-th, oldest first.                                                 *)
Holds(ring, begin, end, p, n) ==
  /\ ring \in [Positions -> 0 .. MaxCommands]
  /\ begin \in Positions /\ end \in Positions
  /\ p \in Nat /\ n \in 0 .. MaxCommands /\ n - p \in Positions
  /\ end = Wrapped(begin + (n - p))
  /\ \A i \in 1 .. n - p : ring[Wrapped(begin + i - 1)] = p + i

LEMMA EndIs ==
  ASSUME NEW ring, NEW b, NEW e, NEW p, NEW n, Holds(ring, b, e, p, n)
  PROVE  /\ QueueSize \in Nat /\ QueueSize > 1
         /\ b \in Positions /\ e \in Positions /\ n - p \in Positions /\ p \in Nat /\ n \in Nat
         /\ e = IF b + (n - p) < QueueSize THEN b + (n - p) ELSE b + (n - p) - QueueSize
<1>1. /\ QueueSize \in Nat /\ QueueSize > 1 /\ MaxCommands \in Nat
      /\ b \in Positions /\ e \in Positions /\ n - p \in Positions /\ p \in Nat
      /\ n \in 0 .. MaxCommands
      /\ e = Wrapped(b + (n - p))
  BY SizeAssumption, CommandAssumption DEF Holds
<1>2. b + (n - p) \in 0 .. 2 * QueueSize - 1
  BY <1>1 DEF Positions
<1>3. PICK x \in 0 .. 2 * QueueSize - 1 : x = b + (n - p)
  BY <1>2
<1>4. e = Wrapped(x)
  BY <1>1, <1>3, Zenon
<1>5. Wrapped(x) = IF x < QueueSize THEN x ELSE x - QueueSize
  BY Wraps
<1>6. e = IF x < QueueSize THEN x ELSE x - QueueSize
  BY <1>4, <1>5, Zenon
<1>7. b \in Int /\ n \in Int /\ p \in Int /\ e \in Int /\ x \in Int /\ x = b + (n - p)
  BY <1>1, <1>3 DEF Positions
<1>8. CASE x < QueueSize
  BY <1>1, <1>6, <1>7, <1>8
<1>9. CASE ~(x < QueueSize)
  BY <1>1, <1>6, <1>7, <1>9
<1> QED
  BY <1>8, <1>9

LEMMA RingFacts ==
  ASSUME NEW ring, NEW b, NEW e, NEW p, NEW n, Holds(ring, b, e, p, n)
  PROVE  /\ Wrapped(e + QueueSize - b) = n - p
         /\ Wrapped(e + 1) = b <=> n - p = QueueSize - 1
         /\ n - p > 0 => ring[b] = p + 1
<1>1. /\ QueueSize \in Nat /\ QueueSize > 1
      /\ b \in Positions /\ e \in Positions /\ n - p \in Positions /\ p \in Nat /\ n \in Nat
      /\ e = IF b + (n - p) < QueueSize THEN b + (n - p) ELSE b + (n - p) - QueueSize
  BY EndIs
<1>2. Wrapped(e + QueueSize - b) = n - p
  BY <1>1, Wraps, WrapsBelow DEF Positions
<1>3. Wrapped(e + 1) = IF e + 1 < QueueSize THEN e + 1 ELSE 0
  BY <1>1, Wraps, WrapsBelow DEF Positions
<1>4. Wrapped(e + 1) = b <=> n - p = QueueSize - 1
  BY <1>1, <1>3 DEF Positions
<1>5. n - p > 0 => ring[b] = p + 1
  <2>1. Wrapped(b + 1 - 1) = b
    BY <1>1, Wraps, WrapsBelow DEF Positions
  <2> QED
    BY <1>1, <2>1 DEF Holds
<1> QED
  BY <1>2, <1>4, <1>5

LEMMA RingPush ==
  ASSUME NEW ring, NEW b, NEW e, NEW p, NEW n, Holds(ring, b, e, p, n),
         n - p # QueueSize - 1, n < MaxCommands
  PROVE  Holds([ring EXCEPT ![e] = n + 1], b, Wrapped(e + 1), p, n + 1)
<1> DEFINE ring2 == [ring EXCEPT ![e] = n + 1]
<1>1. /\ QueueSize \in Nat /\ QueueSize > 1 /\ MaxCommands \in Nat
      /\ b \in Positions /\ e \in Positions /\ n - p \in Positions /\ p \in Nat /\ n \in Nat
      /\ ring \in [Positions -> 0 .. MaxCommands]
      /\ e = Wrapped(b + (n - p))
  BY SizeAssumption, CommandAssumption DEF Holds
<1>2. n + 1 \in 0 .. MaxCommands
  BY <1>1 DEF Positions
<1>5. (n + 1) - p \in Positions
  BY <1>1 DEF Positions
<1>3. ring2 \in [Positions -> 0 .. MaxCommands]
      /\ \A x \in Positions : ring2[x] = IF x = e THEN n + 1 ELSE ring[x]
  BY <1>1, <1>2
<1> HIDE DEF ring2
<1>4. Wrapped(e + 1) = Wrapped(b + ((n + 1) - p)) /\ Wrapped(e + 1) \in Positions
  <2> DEFINE x == e + 1
             y == b + ((n + 1) - p)
  <2>1. e = IF b + (n - p) < QueueSize THEN b + (n - p) ELSE b + (n - p) - QueueSize
    BY EndIs
  <2>2. x \in 0 .. 2 * QueueSize - 1 /\ y \in 0 .. 2 * QueueSize - 1
        /\ (y = x \/ (y = x + QueueSize /\ x < QueueSize))
    <3> HIDE DEF Wrapped
    <3>1. x \in 0 .. 2 * QueueSize - 1 /\ y \in 0 .. 2 * QueueSize - 1
      BY <1>1, <1>5 DEF Positions
    <3>2. y = b + (n - p) + 1
      BY <1>1 DEF Positions
    <3>3. CASE b + (n - p) < QueueSize
      BY <1>1, <2>1, <3>2, <3>3 DEF Positions
    <3>4. CASE ~(b + (n - p) < QueueSize)
      <4>1. /\ b \in Int /\ n \in Int /\ p \in Int /\ e \in Int
            /\ b < QueueSize /\ n + 1 - p < QueueSize
        BY <1>1, <1>5 DEF Positions
      <4>2. e = b + (n - p) - QueueSize
        BY <2>1, <3>4
      <4>3. y = x + QueueSize /\ x < QueueSize
        BY <1>1, <3>2, <4>1, <4>2
      <4> QED
        BY <3>1, <4>3
    <3> QED
      BY <3>1, <3>3, <3>4
  <2> HIDE DEF x, y
  <2>3. Wrapped(x) = IF x < QueueSize THEN x ELSE x - QueueSize
    BY <2>2, Wraps
  <2>4. Wrapped(y) = IF y < QueueSize THEN y ELSE y - QueueSize
    BY <2>2, Wraps
  <2>5. Wrapped(x) = Wrapped(y)
    BY <1>1, <2>2, <2>3, <2>4
  <2>6. Wrapped(x) \in Positions
    BY <2>2, Wraps
  <2> QED
    BY <2>5, <2>6 DEF x, y
<1>6. ASSUME NEW i \in 1 .. (n + 1) - p
      PROVE  ring2[Wrapped(b + i - 1)] = p + i
  <2>1. b + i - 1 \in 0 .. 2 * QueueSize - 1 /\ Wrapped(b + i - 1) \in Positions
    <3>1. b + i - 1 \in 0 .. 2 * QueueSize - 1
      BY <1>1, <1>5 DEF Positions
    <3> QED
      BY <3>1, Wraps
  <2>2. CASE i = (n + 1) - p
    <3>1. Wrapped(b + i - 1) = e
      BY <1>1, <2>2
    <3> QED
      BY <1>1, <1>3, <2>2, <3>1
  <2>3. CASE i # (n + 1) - p
    <3>1. i \in 1 .. n - p
      BY <1>1, <2>3 DEF Positions
    <3>2. Wrapped(b + i - 1) # e
      <4> DEFINE x == b + i - 1
      <4>1. Wrapped(x) = IF x < QueueSize THEN x ELSE x - QueueSize
        <5>1. x \in 0 .. 2 * QueueSize - 1
          BY <2>1
        <5> HIDE DEF x
        <5> QED
          BY <5>1, Wraps
      <4>2. e = IF b + (n - p) < QueueSize THEN b + (n - p) ELSE b + (n - p) - QueueSize
        BY EndIs
      <4> QED
        BY <1>1, <3>1, <4>1, <4>2 DEF Positions
    <3>3. ring[Wrapped(b + i - 1)] = p + i
      BY <3>1 DEF Holds
    <3> QED
      BY <1>3, <2>1, <3>2, <3>3
  <2> QED
    BY <2>2, <2>3
<1> QED
  BY <1>1, <1>2, <1>3, <1>4, <1>5, <1>6 DEF Holds, ring2

LEMMA RingPop ==
  ASSUME NEW ring, NEW b, NEW e, NEW p, NEW n, Holds(ring, b, e, p, n), n > p
  PROVE  Holds(ring, Wrapped(b + 1), e, p + 1, n)
<1>1. /\ QueueSize \in Nat /\ QueueSize > 1
      /\ b \in Positions /\ e \in Positions /\ n - p \in Positions /\ p \in Nat /\ n \in Nat
      /\ e = Wrapped(b + (n - p))
  BY SizeAssumption DEF Holds
<1> DEFINE c == Wrapped(b + 1)
<1>2. c = IF b + 1 < QueueSize THEN b + 1 ELSE 0
  BY <1>1, Wraps, WrapsBelow DEF Positions
<1> HIDE DEF c
<1>3. c \in Positions /\ n - (p + 1) \in Positions /\ p + 1 \in Nat
  BY <1>1, <1>2 DEF Positions
<1>4. e = Wrapped(c + (n - (p + 1)))
  BY <1>1, <1>2, Wraps, WrapsBelow DEF Positions
<1>5. ASSUME NEW i \in 1 .. n - (p + 1)
      PROVE  ring[Wrapped(c + i - 1)] = (p + 1) + i
  <2>1. Wrapped(c + i - 1) = Wrapped(b + (i + 1) - 1)
    BY <1>1, <1>2, <1>3, Wraps, WrapsBelow DEF Positions
  <2>2. i + 1 \in 1 .. n - p
    BY <1>1
  <2>3. ring[Wrapped(b + (i + 1) - 1)] = p + (i + 1)
    BY <2>2 DEF Holds
  <2> QED
    BY <1>1, <2>1, <2>3
<1> QED
  BY <1>3, <1>4, <1>5 DEF Holds, c

(* What CommandQueue looks at: the k-th may be carried out and not popped. *)
LEMMA RingTail ==
  ASSUME NEW ring, NEW b, NEW e, NEW p, NEW n, Holds(ring, b, e, p, n),
         NEW k \in {p, p + 1}, k <= n, NEW i \in 1 .. n - k
  PROVE  ring[Wrapped(e - (n - k) + i - 1)] = k + i
<1>1. /\ QueueSize \in Nat /\ QueueSize > 1
      /\ b \in Positions /\ e \in Positions /\ n - p \in Positions /\ p \in Nat /\ n \in Nat
      /\ e = IF b + (n - p) < QueueSize THEN b + (n - p) ELSE b + (n - p) - QueueSize
  BY EndIs
<1> DEFINE j == i + (k - p)
<1>2. j \in 1 .. n - p /\ p + j = k + i
  BY <1>1
<1>3. Wrapped(e - (n - k) + i - 1) = Wrapped(b + j - 1)
  <2>1. b + j - 1 \in 0 .. 2 * QueueSize - 1
    BY <1>1, <1>2 DEF Positions
  <2>2. e - (n - k) + i - 1 = b + j - 1 \/ e - (n - k) + i - 1 = (b + j - 1) - QueueSize
    BY <1>1
  <2> QED
    BY <1>1, <2>1, <2>2, Wraps, WrapsBelow
<1>4. ring[Wrapped(b + j - 1)] = p + j
  BY <1>2 DEF Holds
<1> QED
  BY <1>2, <1>3, <1>4

----------------------------------------------------------------------------
(* The bytes on the line.                                                  *)

Bytes == {Scan, Ack, Resend, TestPassed} \cup {ConfigByte(flags) : flags \in SUBSET Flags}

OnlyScans(l) == l \in Seq(Bytes) /\ \A j \in 1 .. Len(l) : l[j] = Scan

(* Scan codes and one answer among them.                                   *)
OneAnswer(l, a) ==
  /\ l \in Seq(Bytes)
  /\ \E j \in 1 .. Len(l) : l[j] = a /\ \A i \in 1 .. Len(l) : i # j => l[i] = Scan

LEMMA ByteFacts ==
  /\ Scan \in Bytes /\ Ack \in Bytes /\ Resend \in Bytes /\ TestPassed \in Bytes
  /\ Scan # Ack /\ Scan # Resend /\ Ack # Resend /\ Ack # TestPassed /\ Resend # TestPassed
<1>1. Scan # Ack /\ Scan # Resend /\ Ack # Resend /\ Ack # TestPassed /\ Resend # TestPassed
  BY DEF Scan, Ack, Resend, TestPassed
<1> QED
  BY <1>1 DEF Bytes

LEMMA ScansGrow ==
  ASSUME NEW l, OnlyScans(l)
  PROVE  /\ OnlyScans(Append(l, Scan))
         /\ \A a \in Bytes : OneAnswer(Append(l, a), a)
         /\ l # <<>> => OnlyScans(Tail(l)) /\ Head(l) = Scan
<1>1. OnlyScans(Append(l, Scan))
  BY ByteFacts DEF OnlyScans
<1>2. ASSUME NEW a \in Bytes PROVE OneAnswer(Append(l, a), a)
  <2>1. Append(l, a) \in Seq(Bytes) /\ Len(Append(l, a)) = Len(l) + 1 /\ Len(l) \in Nat
        /\ Append(l, a)[Len(l) + 1] = a /\ \A i \in 1 .. Len(l) : Append(l, a)[i] = Scan
    BY DEF OnlyScans
  <2>2. Len(l) + 1 \in 1 .. Len(l) + 1
        /\ \A i \in 1 .. Len(l) + 1 : i # Len(l) + 1 => i \in 1 .. Len(l)
    BY <2>1
  <2> QED
    BY <2>1, <2>2 DEF OneAnswer
<1>3. ASSUME l # <<>> PROVE OnlyScans(Tail(l)) /\ Head(l) = Scan
  BY <1>3 DEF OnlyScans
<1> QED
  BY <1>1, <1>2, <1>3

LEMMA AnswerStays ==
  ASSUME NEW l, NEW a, OneAnswer(l, a)
  PROVE  /\ OneAnswer(Append(l, Scan), a)
         /\ l # <<>>
         /\ a # Scan /\ Head(l) = a => OnlyScans(Tail(l))
         /\ Head(l) \in {a, Scan}
<1>1. PICK j \in 1 .. Len(l) : l[j] = a /\ \A i \in 1 .. Len(l) : i # j => l[i] = Scan
  BY DEF OneAnswer
<1>2. l \in Seq(Bytes) /\ Len(l) \in Nat /\ l # <<>>
  BY <1>1 DEF OneAnswer
<1>3. OneAnswer(Append(l, Scan), a)
  <2>1. Append(l, Scan) \in Seq(Bytes) /\ Len(Append(l, Scan)) = Len(l) + 1
        /\ Append(l, Scan)[Len(l) + 1] = Scan
        /\ \A i \in 1 .. Len(l) : Append(l, Scan)[i] = l[i]
    BY <1>2, ByteFacts
  <2>2. j \in 1 .. Len(l) + 1 /\ j # Len(l) + 1
        /\ \A i \in 1 .. Len(l) + 1 : i = Len(l) + 1 \/ i \in 1 .. Len(l)
    BY <1>1, <1>2
  <2> QED
    BY <1>1, <2>1, <2>2 DEF OneAnswer
<1>4. Head(l) = l[1] /\ 1 \in 1 .. Len(l)
  BY <1>2
<1>5. Head(l) \in {a, Scan}
  BY <1>1, <1>4
<1>6. ASSUME a # Scan, Head(l) = a PROVE OnlyScans(Tail(l))
  <2>1. j = 1
    BY <1>1, <1>4, <1>6
  <2>2. Tail(l) \in Seq(Bytes) /\ Len(Tail(l)) = Len(l) - 1
        /\ \A i \in 1 .. Len(l) - 1 : Tail(l)[i] = l[i + 1]
    BY <1>2
  <2>3. \A i \in 1 .. Len(l) - 1 : i + 1 \in 1 .. Len(l) /\ i + 1 # 1
    BY <1>2
  <2> QED
    BY <1>1, <2>1, <2>2, <2>3 DEF OnlyScans
<1> QED
  BY <1>2, <1>3, <1>5, <1>6

----------------------------------------------------------------------------
(* What holds of commands of any length.  The first p commands have left   *)
(* the ring; the loop sends the next one.                                  *)

InRing(p) == Holds(kbdCommandQueue, kbdCommandQueueBegin, kbdCommandQueueEnd, p, pushed)

Types ==
  /\ pc \in ToSet(Steps)
  /\ nextCommand \in 0 .. MaxCommands /\ sent \in 0 .. 3
  /\ cc \subseteq Mask /\ config \subseteq Flags
  /\ input = <<>> \/ input \in (1 .. MaxCommands) \X (0 .. 2)
  /\ refused \in BOOLEAN
  /\ accepted \in Seq(1 .. MaxCommands)

(* What is on the line, and what the controller is told, during initps2.   *)
Setup ==
  /\ pc \notin Loop /\ ~Stopped => input = <<>> /\ "system" \in config
  /\ pc \in {"disable", "flush"} => OnlyScans(line)
  /\ pc \in {"flush", "ask config", "read config"} => Mask \subseteq config
  /\ pc \in {"ask config", "write config", "self test"} => line = <<>>
  /\ pc = "read config" => line = <<ConfigByte(config)>>
  /\ pc = "write config" => cc = Mask /\ "port1 off" \in config
  /\ pc \in {"self test", "read test"} => config = Mask
  /\ pc = "read test" => line = <<TestPassed>>

Looping(p) ==
  /\ pc \in Loop => config = {"system", "port2 off"}
  /\ pc \in {"command", "answer"} => nextCommand = p + 1 /\ p + 1 <= pushed
  /\ pc = "command" => sent \in 0 .. DataLength(nextCommand)

G(p) == InRing(p) /\ Types /\ Setup /\ Looping(p)

LEMMA StepNames ==
  ToSet(Steps) = {"disable", "flush", "ask config", "read config", "write config", "self test",
                  "read test", "scan", "command", "answer", "halted", "panic"}
<1>1. DOMAIN Steps = 1 .. 12
  BY DEF Steps
<1>2. /\ Steps[1] = "disable" /\ Steps[2] = "flush" /\ Steps[3] = "ask config"
      /\ Steps[4] = "read config" /\ Steps[5] = "write config" /\ Steps[6] = "self test"
      /\ Steps[7] = "read test" /\ Steps[8] = "scan" /\ Steps[9] = "command"
      /\ Steps[10] = "answer" /\ Steps[11] = "halted" /\ Steps[12] = "panic"
  BY DEF Steps
<1>3. 1 .. 12 = {1, 2, 3, 4, 5, 6, 7, 8, 9, 10, 11, 12}
  OBVIOUS
<1>4. ToSet(Steps) = {Steps[i] : i \in {1, 2, 3, 4, 5, 6, 7, 8, 9, 10, 11, 12}}
  BY <1>1, <1>3 DEF ToSet
<1>5. {Steps[i] : i \in {1, 2, 3, 4, 5, 6, 7, 8, 9, 10, 11, 12}}
        = {Steps[1], Steps[2], Steps[3], Steps[4], Steps[5], Steps[6],
           Steps[7], Steps[8], Steps[9], Steps[10], Steps[11], Steps[12]}
  OBVIOUS
<1> QED
  BY <1>2, <1>4, <1>5

LEMMA Counts ==
  ASSUME NEW p \in 0 .. MaxCommands, InRing(p)
  PROVE  /\ MaxCommands \in Nat /\ p \in Nat /\ pushed \in 0 .. MaxCommands
         /\ pushed - p \in 0 .. QueueSize - 1 /\ p <= pushed /\ pushed \in Nat
<1>1. MaxCommands \in Nat /\ QueueSize \in Nat
  BY SizeAssumption, CommandAssumption
<1>2. p \in Nat /\ pushed \in 0 .. MaxCommands /\ pushed - p \in 0 .. QueueSize - 1
  BY DEF InRing, Holds, Positions
<1> QED
  BY <1>1, <1>2

LEMMA GStart == Init => G(0)
<1> SUFFICES ASSUME Init PROVE G(0)
  OBVIOUS
<1>1. /\ kbdCommandQueue = [i \in Positions |-> 0]
      /\ kbdCommandQueueBegin = 0 /\ kbdCommandQueueEnd = 0 /\ pushed = 0
  BY DEF Init, Positions
<1>2. pc = "disable" /\ nextCommand = 0 /\ sent = 0 /\ cc = {} /\ input = <<>> /\ refused = FALSE
      /\ accepted = <<>>
  BY DEF Init
<1>3. config \subseteq Flags /\ "system" \in config
  BY DEF Init, Flags
<1>4. OnlyScans(line)
  <2>1. CASE line = <<>>
    BY <2>1 DEF OnlyScans
  <2>2. CASE line = <<Scan>>
    BY <2>2, ByteFacts DEF OnlyScans
  <2> QED
    BY <2>1, <2>2 DEF Init
<1>5. InRing(0)
  <2>1. Wrapped(0) = 0 /\ 0 \in Positions
    BY SizeAssumption, Wraps DEF Positions
  <2> QED
    BY <1>1, <2>1, SizeAssumption, CommandAssumption DEF InRing, Holds
<1>6. Types
  <2>1. refused \in BOOLEAN
    BY <1>2, Zenon
  <2>2. pc \in ToSet(Steps)
    BY <1>2, StepNames
  <2> QED
    BY <1>2, <1>3, <2>1, <2>2, CommandAssumption DEF Types
<1>7. Setup /\ Looping(0)
  BY <1>2, <1>3, <1>4 DEF Setup, Looping, Loop, Stopped
<1> QED
  BY <1>5, <1>6, <1>7 DEF G

(* The loop's command is the next one, which is one of the pushed.         *)
LEMMA NextIs ==
  ASSUME NEW p \in 0 .. MaxCommands, InRing(p), p + 1 <= pushed
  PROVE  p + 1 \in 1 .. MaxCommands /\ p + 1 \in 1 .. pushed /\ DataLength(p + 1) \in 0 .. 2
<1>1. p + 1 \in 1 .. MaxCommands /\ p + 1 \in 1 .. pushed
  BY Counts
<1> QED
  BY <1>1, CommandAssumption

LEMMA GPush ==
  ASSUME NEW p \in 0 .. MaxCommands, G(p), kbdCommandQueuePush
  PROVE  G(p)'
<1> USE SizeAssumption, CommandAssumption
<1>1. /\ ~Stopped /\ pushed < MaxCommands
      /\ UNCHANGED <<nextCommand, sent, cc, line, config, input, refused, accepted>>
  BY DEF kbdCommandQueuePush, deviceVars
<1>2. Holds(kbdCommandQueue, kbdCommandQueueBegin, kbdCommandQueueEnd, p, pushed)
      /\ pushed \in 0 .. MaxCommands /\ p \in Nat
  BY Counts DEF G, InRing
<1>3. CASE Wrapped(kbdCommandQueueEnd + 1) = kbdCommandQueueBegin
  <2>1. pc' = "panic" /\ UNCHANGED queueVars
    BY <1>3 DEF kbdCommandQueuePush, Wrapped
  <2>2. InRing(p)'
    BY <1>2, <2>1 DEF InRing, queueVars
  <2>3. Types'
    BY <1>1, <2>1, StepNames DEF G, Types
  <2>4. Setup' /\ Looping(p)'
    BY <2>1 DEF Setup, Looping, Stopped, Loop
  <2> QED
    BY <2>2, <2>3, <2>4 DEF G
<1>4. CASE Wrapped(kbdCommandQueueEnd + 1) # kbdCommandQueueBegin
  <2>1. /\ pushed' = pushed + 1 /\ UNCHANGED <<kbdCommandQueueBegin, pc>>
        /\ kbdCommandQueue' = [kbdCommandQueue EXCEPT ![kbdCommandQueueEnd] = pushed + 1]
        /\ kbdCommandQueueEnd' = Wrapped(kbdCommandQueueEnd + 1)
    BY <1>4 DEF kbdCommandQueuePush, Wrapped
  <2>2. pushed - p # QueueSize - 1
    BY <1>2, <1>4, RingFacts
  <2>3. Holds(kbdCommandQueue', kbdCommandQueueBegin', kbdCommandQueueEnd', p, pushed')
    BY <1>1, <1>2, <2>1, <2>2, RingPush
  <2>4. InRing(p)'
    BY <2>3 DEF InRing
  <2>5. Types' /\ Setup'
    BY <1>1, <2>1 DEF G, Types, Setup, Stopped, Loop
  <2>6. Looping(p)'
    <3>1. p + 1 <= pushed => p + 1 <= pushed'
      BY <1>2, <2>1
    <3> QED
      BY <1>1, <2>1, <3>1, Zenon DEF G, Looping
  <2> QED
    BY <2>4, <2>5, <2>6 DEF G
<1> QED
  BY <1>3, <1>4

LEMMA OneByte ==
  ASSUME NEW x
  PROVE  Append(<<>>, x) = <<x>> /\ Head(<<x>>) = x /\ Tail(<<x>>) = <<>>
<1>1. <<x>> \in Seq({x}) /\ <<>> \in Seq({x}) /\ Len(<<x>>) = 1 /\ <<x>>[1] = x
  OBVIOUS
<1>2. Append(<<>>, x) = <<x>>
  BY <1>1
<1>3. Tail(<<x>>) = <<>>
  <2>1. Len(Tail(<<x>>)) = 0 /\ Tail(<<x>>) \in Seq({x})
    BY <1>1
  <2> QED
    BY <2>1
<1> QED
  BY <1>1, <1>2, <1>3

(* initps2 keeps the line and the controller as Setup says, and enters the *)
(* loop with nothing but scan codes on the line.                           *)
LEMMA SetupStep ==
  ASSUME Types, Setup, initps2
  PROVE  /\ cc' \subseteq Mask /\ config' \subseteq Flags /\ input' = <<>>
         /\ Setup'
         /\ pc' = "scan" => OnlyScans(line') /\ config' = {"system", "port2 off"}
<1>1. UNCHANGED <<queueVars, nextCommand, sent, input, refused, accepted>>
  BY DEF initps2, DisablePorts, Flush, AskConfig, ReadConfig, WriteConfig, SelfTest, ReadTest,
         deviceVars
<1>3. pc \in {"disable", "flush", "ask config", "read config", "write config", "self test",
              "read test"}
  BY DEF initps2, DisablePorts, Flush, AskConfig, ReadConfig, WriteConfig, SelfTest, ReadTest, At
<1>4. input = <<>> /\ "system" \in config /\ config \subseteq Flags /\ cc \subseteq Mask
  BY <1>3 DEF Setup, Types, Loop, Stopped
<1> USE <1>1, <1>4
<1>7. CASE DisablePorts
  <2>1. /\ pc = "disable" /\ pc' = "flush" /\ config' = config \cup {"port1 off", "port2 off"}
        /\ cc' = cc /\ line' = line
    BY <1>7 DEF DisablePorts, At
  <2>2. Mask \subseteq config' /\ config' \subseteq Flags /\ "system" \in config'
    BY <2>1 DEF Mask, Flags
  <2> QED
    BY <2>1, <2>2 DEF Setup, Loop, Stopped
<1>8. CASE Flush
  <2>1. /\ pc = "flush" /\ config' = config /\ cc' = cc
        /\ \/ pc' = "ask config" /\ line = <<>> /\ line' = <<>>
           \/ pc' = "flush" /\ line # <<>> /\ line' = Tail(line)
    BY <1>8 DEF Flush, At
  <2>2. OnlyScans(line) /\ Mask \subseteq config
    BY <2>1 DEF Setup
  <2>3. pc' = "flush" => OnlyScans(line')
    BY <2>1, <2>2, ScansGrow
  <2> QED
    BY <2>1, <2>2, <2>3 DEF Setup, Loop, Stopped
<1>9. CASE AskConfig
  <2>1. /\ pc = "ask config" /\ pc' = "read config" /\ config' = config /\ cc' = cc
        /\ line' = Append(line, ConfigByte(config))
    BY <1>9 DEF AskConfig, At
  <2>2. line' = <<ConfigByte(config')>> /\ Mask \subseteq config'
    <3>1. line = <<>> /\ Mask \subseteq config
      BY <2>1 DEF Setup
    <3> QED
      BY <2>1, <3>1, OneByte, Zenon
  <2> QED
    BY <2>1, <2>2 DEF Setup, Loop, Stopped
<1>10. CASE ReadConfig
  <2>1. /\ pc = "read config" /\ pc' = "write config" /\ config' = config /\ line' = Tail(line)
        /\ \E flags \in IF Len(Head(line)) = 2 THEN {Head(line)[2]} ELSE SUBSET Flags :
             cc' = flags \cap Mask
    BY <1>10 DEF ReadConfig, At
  <2>2. line = <<ConfigByte(config)>> /\ Mask \subseteq config
    BY <2>1 DEF Setup
  <2>3. Head(line) = ConfigByte(config) /\ line' = <<>>
    BY <2>1, <2>2, OneByte, Zenon
  <2>4. Len(Head(line)) = 2 /\ Head(line)[2] = config
    <3>1. Len(<<"config", config>>) = 2 /\ <<"config", config>>[2] = config
      OBVIOUS
    <3> QED
      BY <2>3, <3>1, Zenon DEF ConfigByte
  <2>5. cc' = config \cap Mask
    BY <2>1, <2>4
  <2>6. cc' = Mask /\ "port1 off" \in config
    BY <2>2, <2>5 DEF Mask
  <2> QED
    BY <2>1, <2>3, <2>6 DEF Setup, Loop, Stopped
<1>11. CASE WriteConfig
  <2>1. /\ pc = "write config" /\ pc' = "self test" /\ config' = cc /\ cc' = cc /\ line' = line
    BY <1>11 DEF WriteConfig, At
  <2>2. cc = Mask /\ line = <<>>
    BY <2>1 DEF Setup
  <2>3. Mask \subseteq Flags /\ "system" \in Mask
    BY DEF Mask, Flags
  <2> QED
    BY <2>1, <2>2, <2>3 DEF Setup, Loop, Stopped
<1>12. CASE SelfTest
  <2>1. /\ pc = "self test" /\ pc' = "read test" /\ config' = config /\ cc' = cc
        /\ line' = Append(line, TestPassed)
    BY <1>12 DEF SelfTest, At
  <2>2. config = Mask /\ line' = <<TestPassed>>
    <3>1. config = Mask /\ line = <<>>
      BY <2>1 DEF Setup
    <3> QED
      BY <2>1, <3>1, OneByte, Zenon
  <2> QED
    BY <2>1, <2>2 DEF Setup, Loop, Stopped
<1>13. CASE ReadTest
  <2>1. /\ pc = "read test" /\ pc' = "scan" /\ config' = config \ {"port1 off"} /\ cc' = cc
        /\ line' = Tail(line)
    BY <1>13 DEF ReadTest, At
  <2>2. config = Mask /\ line' = <<>>
    <3>1. config = Mask /\ line = <<TestPassed>>
      BY <2>1 DEF Setup
    <3> QED
      BY <2>1, <3>1, OneByte, Zenon
  <2>3. config' = {"system", "port2 off"}
    BY <2>1, <2>2 DEF Mask
  <2>4. OnlyScans(line')
    BY <2>2 DEF OnlyScans
  <2>5. config' \subseteq Flags /\ "system" \in config'
    BY <2>3 DEF Flags
  <2> QED
    BY <2>1, <2>3, <2>4, <2>5 DEF Setup, Loop, Stopped
<1> QED
  BY <1>7, <1>8, <1>9, <1>10, <1>11, <1>12, <1>13 DEF initps2

LEMMA GSetup ==
  ASSUME NEW p \in 0 .. MaxCommands, G(p), initps2
  PROVE  G(p)'
<1>1. UNCHANGED <<queueVars, nextCommand, sent, input, refused, accepted>>
  BY DEF initps2, DisablePorts, Flush, AskConfig, ReadConfig, WriteConfig, SelfTest, ReadTest,
         deviceVars
<1>2. pc' \in {"flush", "ask config", "read config", "write config", "self test", "read test",
               "scan"}
  BY DEF initps2, DisablePorts, Flush, AskConfig, ReadConfig, WriteConfig, SelfTest, ReadTest, At
<1>3. /\ cc' \subseteq Mask /\ config' \subseteq Flags
      /\ Setup'
      /\ pc' = "scan" => config' = {"system", "port2 off"}
  BY SetupStep DEF G
<1>4. InRing(p)'
  BY <1>1 DEF G, InRing, queueVars
<1>5. Types'
  BY <1>1, <1>2, <1>3, StepNames DEF G, Types
<1>6. Looping(p)'
  BY <1>2, <1>3 DEF Looping, Loop
<1> QED
  BY <1>3, <1>4, <1>5, <1>6 DEF G

LEMMA GTakeFront ==
  ASSUME NEW p \in 0 .. MaxCommands, G(p), TakeFront
  PROVE  G(p)'
<1>1. /\ UNCHANGED <<queueVars, cc, line, config, input, refused, accepted>>
      /\ pc = "scan" /\ pc' = "command" /\ sent' = 0
      /\ Wrapped(kbdCommandQueueEnd + QueueSize - kbdCommandQueueBegin) # 0
      /\ nextCommand' = kbdCommandQueue[kbdCommandQueueBegin]
  BY DEF TakeFront, At, deviceVars, kbdCommandQueueLength, Wrapped
<1>2. InRing(p)' /\ pushed' = pushed
  BY <1>1 DEF G, InRing, queueVars
<1>3. /\ MaxCommands \in Nat /\ p \in Nat /\ pushed \in 0 .. MaxCommands
      /\ pushed - p \in 0 .. QueueSize - 1 /\ p <= pushed
  BY Counts DEF G
<1>4. pushed - p # 0 /\ (pushed - p > 0 => kbdCommandQueue[kbdCommandQueueBegin] = p + 1)
  BY <1>1, RingFacts DEF G, InRing
<1>5. nextCommand' = p + 1 /\ p + 1 <= pushed /\ p + 1 \in 1 .. MaxCommands
  <2>1. pushed - p > 0 /\ p + 1 <= pushed /\ p + 1 \in 1 .. MaxCommands
    BY <1>3, <1>4
  <2> QED
    BY <1>1, <1>4, <2>1, Zenon
<1>6. DataLength(nextCommand') \in 0 .. 2
  BY <1>5, CommandAssumption
<1>7. Types'
  <2>1. pc' \in ToSet(Steps)
    BY <1>1, StepNames
  <2>2. sent' \in 0 .. 3 /\ nextCommand' \in 0 .. MaxCommands
    BY <1>1, <1>5, CommandAssumption
  <2> QED
    BY <1>1, <2>1, <2>2 DEF G, Types
<1>8. Setup'
  BY <1>1 DEF Setup, Loop, Stopped
<1>9. Looping(p)'
  <2>1. config = {"system", "port2 off"}
    BY <1>1 DEF G, Looping, Loop
  <2>2. sent' \in 0 .. DataLength(nextCommand')
    BY <1>1, <1>6
  <2> QED
    BY <1>1, <1>2, <1>5, <2>1, <2>2, Zenon DEF Looping
<1> QED
  BY <1>2, <1>7, <1>8, <1>9 DEF G

LEMMA GSendByte ==
  ASSUME NEW p \in 0 .. MaxCommands, G(p), SendByte
  PROVE  G(p)' /\ nextCommand = p + 1 /\ nextCommand \in 1 .. pushed
<1>1. /\ UNCHANGED <<queueVars, nextCommand, cc, line, config, refused, accepted>>
      /\ pc = "command" /\ input' = <<nextCommand, sent>> /\ sent' = sent + 1
      /\ pc' = IF sent = DataLength(nextCommand) THEN "answer" ELSE "command"
  BY DEF SendByte
<1>2. InRing(p)' /\ pushed' = pushed
  BY <1>1 DEF G, InRing, queueVars
<1>3. nextCommand = p + 1 /\ p + 1 <= pushed /\ config = {"system", "port2 off"}
  BY <1>1 DEF G, Looping, Loop
<1>4. /\ nextCommand \in 1 .. MaxCommands /\ nextCommand \in 1 .. pushed
      /\ DataLength(nextCommand) \in 0 .. 2
  BY <1>3, NextIs DEF G
<1>5. sent \in 0 .. DataLength(nextCommand)
  BY <1>1 DEF G, Looping
<1>6. Types'
  <2>1. input' \in (1 .. MaxCommands) \X (0 .. 2) /\ sent' \in 0 .. 3
    BY <1>1, <1>4, <1>5
  <2>2. pc' \in ToSet(Steps)
    BY <1>1, StepNames
  <2> QED
    BY <1>1, <2>1, <2>2 DEF G, Types
<1>7. Setup'
  BY <1>1 DEF Setup, Loop, Stopped
<1>8. Looping(p)'
  <2>1. pc' = "command" => sent' \in 0 .. DataLength(nextCommand)
    BY <1>1, <1>4, <1>5
  <2> QED
    BY <1>1, <1>2, <1>3, <2>1, Zenon DEF Looping
<1> QED
  BY <1>2, <1>3, <1>4, <1>6, <1>7, <1>8 DEF G

LEMMA GAcknowledged ==
  ASSUME NEW p \in 0 .. MaxCommands, G(p), Acknowledged
  PROVE  G(p + 1)' /\ p + 1 \in 0 .. MaxCommands /\ p < pushed
<1>1. /\ UNCHANGED <<nextCommand, sent, cc, config, input, refused, accepted>>
      /\ pc = "answer" /\ pc' = "scan"
      /\ kbdCommandQueueBegin' = Wrapped(kbdCommandQueueBegin + 1)
      /\ UNCHANGED <<kbdCommandQueue, kbdCommandQueueEnd, pushed>>
  BY DEF Acknowledged, ReadAnswer, At, deviceVars, kbdCommandQueuePop, Wrapped
<1>2. p + 1 <= pushed /\ config = {"system", "port2 off"}
  BY <1>1 DEF G, Looping, Loop
<1>3. p + 1 \in 0 .. MaxCommands /\ pushed > p /\ p < pushed
  <2>1. InRing(p)
    BY DEF G
  <2>2. p + 1 \in 1 .. MaxCommands /\ p + 1 \in 1 .. pushed
    BY <1>2, <2>1, NextIs
  <2>3. MaxCommands \in Nat /\ p \in Nat /\ pushed \in Nat
    BY <2>1, Counts
  <2> QED
    BY <2>2, <2>3
<1>4. Holds(kbdCommandQueue, Wrapped(kbdCommandQueueBegin + 1), kbdCommandQueueEnd, p + 1, pushed)
  BY <1>3, RingPop DEF G, InRing
<1>5. InRing(p + 1)'
  BY <1>1, <1>4, Zenon DEF InRing
<1>6. Types'
  BY <1>1, StepNames DEF G, Types
<1>7. Setup' /\ Looping(p + 1)'
  BY <1>1, <1>2 DEF Setup, Looping, Loop, Stopped
<1> QED
  BY <1>3, <1>5, <1>6, <1>7 DEF G

LEMMA GRead ==
  ASSUME NEW p \in 0 .. MaxCommands, G(p), ReadScanCode \/ SendAgain \/ UnknownByte
  PROVE  G(p)'
<1>1. /\ UNCHANGED <<queueVars, nextCommand, sent, cc, config, input, refused, accepted>>
      /\ pc \in {"scan", "answer"} /\ pc' \in {"scan", "halted"}
  BY DEF ReadScanCode, SendAgain, UnknownByte, ReadAnswer, At, deviceVars
<1>2. InRing(p)'
  BY <1>1 DEF G, InRing, queueVars
<1>3. Types'
  BY <1>1, StepNames DEF G, Types
<1>4. Setup' /\ Looping(p)'
  BY <1>1 DEF G, Setup, Looping, Loop, Stopped
<1> QED
  BY <1>2, <1>3, <1>4 DEF G

LEMMA GScanCode ==
  ASSUME NEW p \in 0 .. MaxCommands, G(p), ScanCode
  PROVE  G(p)'
<1>1. /\ UNCHANGED <<queueVars, pc, nextCommand, sent, cc, config, input, refused, accepted>>
      /\ "port1 off" \notin config /\ line' = Append(line, Scan)
  BY DEF ScanCode, Enabled, deviceVars
<1>2. InRing(p)' /\ Types' /\ Looping(p)'
  BY <1>1 DEF G, InRing, Types, Looping, queueVars
<1>3. pc \notin {"flush", "ask config", "read config", "write config", "self test", "read test"}
  BY <1>1 DEF G, Setup, Mask
<1>4. OnlyScans(line) => OnlyScans(line')
  BY <1>1, ScansGrow
<1>5. Setup'
  BY <1>1, <1>3, <1>4 DEF G, Setup, Loop, Stopped
<1> QED
  BY <1>2, <1>5 DEF G

LEMMA SeqGrows ==
  ASSUME NEW T, NEW s \in Seq(T), NEW x \in T
  PROVE  Append(s, x) \in Seq(T)
OBVIOUS

LEMMA GTakeByte ==
  ASSUME NEW p \in 0 .. MaxCommands, G(p), NEW a \in {Ack, Resend}, TakeByte(a)
  PROVE  G(p)' /\ pc \in {"scan", "command", "answer", "halted", "panic"}
<1>1. /\ UNCHANGED <<queueVars, pc, nextCommand, sent, cc, config>>
      /\ input # <<>> /\ input' = <<>> /\ refused' = (a = Resend)
      /\ accepted' = accepted \/ accepted' = Append(accepted, input[1])
  BY DEF TakeByte
<1>2. refused' \in BOOLEAN
  BY <1>1, Zenon
<1>3. accepted' \in Seq(1 .. MaxCommands)
  <2>1. input \in (1 .. MaxCommands) \X (0 .. 2) /\ accepted \in Seq(1 .. MaxCommands)
    BY <1>1 DEF G, Types
  <2>2. input[1] \in 1 .. MaxCommands
    BY <2>1
  <2>3. Append(accepted, input[1]) \in Seq(1 .. MaxCommands)
    BY <2>1, <2>2, SeqGrows
  <2> QED
    BY <1>1, <2>1, <2>3
<1>4. pc \in {"scan", "command", "answer", "halted", "panic"}
  BY <1>1, StepNames DEF G, Types, Setup, Loop, Stopped
<1>5. InRing(p)' /\ Types' /\ Looping(p)'
  BY <1>1, <1>2, <1>3 DEF G, InRing, Types, Looping, queueVars
<1>6. Setup'
  BY <1>1, <1>4 DEF Setup, Loop, Stopped
<1> QED
  BY <1>4, <1>5, <1>6 DEF G

LEMMA GStutter ==
  ASSUME NEW p \in 0 .. MaxCommands, G(p), UNCHANGED vars
  PROVE  G(p)'
<1>1. /\ UNCHANGED <<queueVars, pc, nextCommand, sent, cc, line, config>>
      /\ UNCHANGED <<input, refused, accepted>>
  BY DEF vars, deviceVars
<1>2. InRing(p)' /\ Types' /\ Looping(p)'
  BY <1>1 DEF G, InRing, Types, Looping, queueVars
<1>3. Setup'
  BY <1>1 DEF G, Setup, Stopped
<1> QED
  BY <1>2, <1>3 DEF G

GInv == \E p \in 0 .. MaxCommands : G(p)

LEMMA GNext == GInv /\ [Next]_vars => GInv'
<1> SUFFICES ASSUME GInv, [Next]_vars PROVE GInv'
  OBVIOUS
<1>1. PICK p \in 0 .. MaxCommands : G(p)
  BY DEF GInv
<1>2. CASE kbdCommandQueuePush
  BY <1>1, <1>2, GPush DEF GInv
<1>3. CASE initps2
  BY <1>1, <1>3, GSetup DEF GInv
<1>4. CASE LoopStep
  <2>1. CASE ReadScanCode \/ SendAgain \/ UnknownByte
    BY <1>1, <2>1, GRead DEF GInv
  <2>2. CASE TakeFront
    BY <1>1, <2>2, GTakeFront DEF GInv
  <2>3. CASE SendByte
    BY <1>1, <2>3, GSendByte DEF GInv
  <2>4. CASE Acknowledged
    BY <1>1, <2>4, GAcknowledged DEF GInv
  <2> QED
    BY <1>4, <2>1, <2>2, <2>3, <2>4 DEF LoopStep
<1>5. CASE ScanCode
  BY <1>1, <1>5, GScanCode DEF GInv
<1>6. CASE TakeByte(Ack) \/ TakeByte(Resend)
  BY <1>1, <1>6, GTakeByte DEF GInv
<1>7. CASE UNCHANGED vars
  BY <1>1, <1>7, GStutter DEF GInv
<1> QED
  BY <1>2, <1>3, <1>4, <1>5, <1>6, <1>7 DEF Next

LEMMA GAlways == Spec => []GInv
<1>1. Init => GInv
  BY GStart, CommandAssumption DEF GInv
<1> QED
  BY <1>1, GNext, PTL DEF Spec

(***************************************************************************)
(* kbdCommandQueuePush, kbdCommandQueuePop and ps2data never leave the     *)
(* ring, and never send more than the bytes of a command.                  *)
(***************************************************************************)
THEOREM KeyboardTypes == Spec => []TypeOK
<1>1. GInv => TypeOK
  BY DEF GInv, G, InRing, Holds, Positions, Types, TypeOK
<1> QED
  BY <1>1, GAlways, PTL

(***************************************************************************)
(* initps2 leaves the controller ready for a loop that polls, whatever     *)
(* keys were pressed: without translation, the keyboard's port on, and its *)
(* interrupt off.  "Enable PS1 and IRQ 1 (keyboard)" says keyboard.c:66 of *)
(* the end of it; the line that would set the flag is a comment.           *)
(***************************************************************************)
THEOREM InitializationWorks == Spec => [](pc \in Loop => config = {"system", "port2 off"})
<1>1. GInv => (pc \in Loop => config = {"system", "port2 off"})
  BY DEF GInv, G, Looping
<1> QED
  BY <1>1, GAlways, PTL

(***************************************************************************)
(* What keyboard_test_loop sends is the front of the ring until it pops    *)
(* it, whatever is pushed and answered meanwhile.                          *)
(***************************************************************************)
FrontIsSent ==
  pc \in {"command", "answer"} =>
    kbdCommandQueueLength # 0 /\ nextCommand = kbdCommandQueue[kbdCommandQueueBegin]

THEOREM FrontStays == Spec => []FrontIsSent
<1>1. GInv => FrontIsSent
  <2> SUFFICES ASSUME GInv, pc \in {"command", "answer"}
               PROVE  /\ kbdCommandQueueLength # 0
                      /\ nextCommand = kbdCommandQueue[kbdCommandQueueBegin]
    BY DEF FrontIsSent
  <2>1. PICK p \in 0 .. MaxCommands : G(p)
    BY DEF GInv
  <2>2. /\ p \in Nat /\ pushed \in 0 .. MaxCommands /\ MaxCommands \in Nat
        /\ nextCommand = p + 1 /\ p + 1 <= pushed
    BY <2>1, Counts DEF G, Looping
  <2>3. pushed - p > 0 /\ pushed - p # 0
    BY <2>2
  <2>4. /\ Wrapped(kbdCommandQueueEnd + QueueSize - kbdCommandQueueBegin) = pushed - p
        /\ pushed - p > 0 => kbdCommandQueue[kbdCommandQueueBegin] = p + 1
    BY <2>1, RingFacts DEF G, InRing
  <2>5. kbdCommandQueueLength = pushed - p
    BY <2>4 DEF kbdCommandQueueLength, Wrapped
  <2> QED
    BY <2>2, <2>3, <2>4, <2>5
<1> QED
  BY <1>1, GAlways, PTL

----------------------------------------------------------------------------
(* The ring as a queue.                                                    *)

After(c, n) == [i \in 1 .. n - c |-> c + i]

LEMMA AfterFacts ==
  ASSUME NEW c \in Nat, NEW n \in Nat, c <= n
  PROVE  /\ Len(After(c, n)) = n - c
         /\ After(c, n + 1) = Append(After(c, n), n + 1)
         /\ c < n => /\ After(c, n) # <<>> /\ Head(After(c, n)) = c + 1
                     /\ After(c + 1, n) = Tail(After(c, n))
         /\ c = n => After(c, n) = <<>>
<1>1. After(c, n) \in Seq(Nat) /\ Len(After(c, n)) = n - c
  BY DEF After
<1>2. After(c, n + 1) = Append(After(c, n), n + 1)
  BY <1>1 DEF After
<1>3. c < n => After(c, n) # <<>> /\ Head(After(c, n)) = c + 1
  BY <1>1 DEF After
<1>4. c < n => After(c + 1, n) = Tail(After(c, n))
  BY <1>1 DEF After
<1>5. c = n => After(c, n) = <<>>
  BY <1>1
<1> QED
  BY <1>1, <1>2, <1>3, <1>4, <1>5

Counted(n) == [i \in 1 .. n |-> i]

LEMMA Counting ==
  ASSUME NEW n \in Nat
  PROVE  /\ Counted(n) \in Seq(1 .. n)
         /\ Len(Counted(n)) = n
         /\ Append(Counted(n), n + 1) = Counted(n + 1)
         /\ Counted(0) = <<>>
<1>1. Counted(n) \in Seq(1 .. n) /\ Len(Counted(n)) = n
  BY DEF Counted
<1>2. Append(Counted(n), n + 1) = Counted(n + 1)
  BY <1>1 DEF Counted
<1>3. Counted(0) = <<>>
  BY DEF Counted
<1> QED
  BY <1>1, <1>2, <1>3

RingTodo == [i \in 1 .. kbdCommandQueueLength |->
               kbdCommandQueue[(kbdCommandQueueBegin + i - 1) % QueueSize]]

LEMMA RingShows ==
  ASSUME NEW ring, NEW b, NEW e, NEW p, NEW n, Holds(ring, b, e, p, n)
  PROVE  /\ n - Wrapped(e + QueueSize - b) = p
         /\ [i \in 1 .. Wrapped(e + QueueSize - b) |-> ring[Wrapped(b + i - 1)]] = After(p, n)
<1>1. Wrapped(e + QueueSize - b) = n - p /\ p \in Nat /\ n \in Nat
  BY RingFacts, EndIs
<1>2. n - (n - p) = p
  BY <1>1
<1>3. \A i \in 1 .. n - p : ring[Wrapped(b + i - 1)] = p + i
  BY DEF Holds
<1>4. [i \in 1 .. n - p |-> ring[Wrapped(b + i - 1)]] = After(p, n)
  BY <1>3, Zenon DEF After
<1> QED
  BY <1>1, <1>2, <1>4

LEMMA RingIs ==
  ASSUME NEW p \in 0 .. MaxCommands, G(p)
  PROVE  Popped = p /\ RingTodo = After(p, pushed)
<1>1. Holds(kbdCommandQueue, kbdCommandQueueBegin, kbdCommandQueueEnd, p, pushed)
  BY DEF G, InRing
<1>2. Popped = pushed - Wrapped(kbdCommandQueueEnd + QueueSize - kbdCommandQueueBegin)
  BY Zenon DEF Popped, kbdCommandQueueLength, Wrapped
<1>3. RingTodo = [i \in 1 .. Wrapped(kbdCommandQueueEnd + QueueSize - kbdCommandQueueBegin) |->
                    kbdCommandQueue[Wrapped(kbdCommandQueueBegin + i - 1)]]
  BY Zenon DEF RingTodo, kbdCommandQueueLength, Wrapped
<1>4. /\ pushed - Wrapped(kbdCommandQueueEnd + QueueSize - kbdCommandQueueBegin) = p
      /\ [i \in 1 .. Wrapped(kbdCommandQueueEnd + QueueSize - kbdCommandQueueBegin) |->
                    kbdCommandQueue[Wrapped(kbdCommandQueueBegin + i - 1)]] = After(p, pushed)
  BY <1>1, RingShows
<1> QED
  BY <1>2, <1>3, <1>4, Zenon

LEMMA RingIsNext ==
  ASSUME NEW p \in 0 .. MaxCommands, G(p)'
  PROVE  Popped' = p /\ RingTodo' = After(p, pushed')
<1>1. Holds(kbdCommandQueue', kbdCommandQueueBegin', kbdCommandQueueEnd', p, pushed')
  BY DEF G, InRing
<1>2. Popped' = pushed' - Wrapped(kbdCommandQueueEnd' + QueueSize - kbdCommandQueueBegin')
  BY Zenon DEF Popped, kbdCommandQueueLength, Wrapped
<1>3. RingTodo' = [i \in 1 .. Wrapped(kbdCommandQueueEnd' + QueueSize - kbdCommandQueueBegin') |->
                    kbdCommandQueue'[Wrapped(kbdCommandQueueBegin' + i - 1)]]
  BY Zenon DEF RingTodo, kbdCommandQueueLength, Wrapped
<1>4. /\ pushed' - Wrapped(kbdCommandQueueEnd' + QueueSize - kbdCommandQueueBegin') = p
      /\ [i \in 1 .. Wrapped(kbdCommandQueueEnd' + QueueSize - kbdCommandQueueBegin') |->
                    kbdCommandQueue'[Wrapped(kbdCommandQueueBegin' + i - 1)]] = After(p, pushed')
  BY <1>1, RingShows
<1> QED
  BY <1>2, <1>3, <1>4, Zenon

LEMMA RingStep ==
  ASSUME GInv, [Next]_vars
  PROVE  \/ driverState = "running" /\ Len(RingTodo) < QueueSize - 1
            /\ pushed + 1 \in 1 .. MaxCommands
            /\ RingTodo' = Append(RingTodo, pushed + 1) /\ UNCHANGED <<Popped, driverState>>
         \/ RingTodo # <<>> /\ Popped \in Nat /\ Popped' = Popped + 1
            /\ Head(RingTodo) = Popped + 1 /\ RingTodo' = Tail(RingTodo)
            /\ driverState' = driverState
         \/ driverState = "running" /\ driverState' = "full"
            /\ Len(RingTodo) \in (QueueSize - 1) - 1 .. QueueSize - 1
            /\ UNCHANGED <<RingTodo, Popped>>
         \/ driverState = "running" /\ driverState' = "confused" /\ Popped \in Nat
            /\ Len(RingTodo) + Popped > 0 /\ UNCHANGED <<RingTodo, Popped>>
         \/ UNCHANGED <<RingTodo, Popped, driverState>>
<1> USE SizeAssumption
<1>1. PICK p \in 0 .. MaxCommands : G(p)
  BY DEF GInv
<1>2. Popped = p /\ RingTodo = After(p, pushed)
  BY <1>1, RingIs
<1>3. /\ MaxCommands \in Nat /\ p \in Nat /\ pushed \in 0 .. MaxCommands
      /\ pushed - p \in 0 .. QueueSize - 1 /\ p <= pushed /\ pushed \in Nat
  BY <1>1, Counts DEF G
<1>4. Len(RingTodo) = pushed - p
  BY <1>2, <1>3, AfterFacts
<1>5. CASE kbdCommandQueuePush
  <2>1. ~Stopped /\ pushed < MaxCommands
    BY <1>5 DEF kbdCommandQueuePush
  <2>2. driverState = "running"
    BY <2>1 DEF driverState, Stopped
  <2>3. Popped' = p /\ RingTodo' = After(p, pushed')
    BY <1>1, <1>5, GPush, RingIsNext
  <2>4. CASE Wrapped(kbdCommandQueueEnd + 1) = kbdCommandQueueBegin
    <3>1. pc' = "panic" /\ pushed' = pushed
      BY <1>5, <2>4 DEF kbdCommandQueuePush, queueVars, Wrapped
    <3>2. pushed - p = QueueSize - 1
      BY <1>1, <2>4, RingFacts DEF G, InRing
    <3>3. driverState' = "full"
      BY <3>1 DEF driverState
    <3> QED
      BY <1>2, <1>3, <1>4, <2>2, <2>3, <3>1, <3>2, <3>3
  <2>5. CASE Wrapped(kbdCommandQueueEnd + 1) # kbdCommandQueueBegin
    <3>1. pushed' = pushed + 1 /\ pc' = pc
      BY <1>5, <2>5 DEF kbdCommandQueuePush, Wrapped
    <3>2. pushed - p # QueueSize - 1
      BY <1>1, <2>5, RingFacts DEF G, InRing
    <3>3. Len(RingTodo) < QueueSize - 1 /\ pushed + 1 \in 1 .. MaxCommands
      BY <1>3, <1>4, <2>1, <3>2
    <3>4. RingTodo' = Append(RingTodo, pushed + 1)
      BY <1>2, <1>3, <2>3, <3>1, AfterFacts
    <3>5. driverState' = driverState
      BY <3>1 DEF driverState
    <3> QED
      BY <1>2, <2>2, <2>3, <3>3, <3>4, <3>5
  <2> QED
    BY <2>4, <2>5
<1>6. CASE Acknowledged
  <2>1. Popped' = p + 1 /\ RingTodo' = After(p + 1, pushed') /\ p < pushed
    BY <1>1, <1>6, GAcknowledged, RingIsNext
  <2>2. pushed' = pushed /\ pc = "answer" /\ pc' = "scan"
    BY <1>6 DEF Acknowledged, ReadAnswer, At, kbdCommandQueuePop
  <2>3. /\ RingTodo # <<>> /\ Head(RingTodo) = p + 1 /\ RingTodo' = Tail(RingTodo)
    BY <1>2, <1>3, <2>1, <2>2, AfterFacts
  <2>4. driverState' = driverState
    BY <2>2 DEF driverState
  <2> QED
    BY <1>2, <1>3, <2>1, <2>3, <2>4
<1>7. CASE UnknownByte
  <2>1. Popped' = p /\ RingTodo' = After(p, pushed')
    BY <1>1, <1>7, GRead, RingIsNext
  <2>2. pushed' = pushed /\ pc = "answer" /\ pc' = "halted"
    BY <1>7 DEF UnknownByte, ReadAnswer, At, queueVars
  <2>3. p + 1 <= pushed
    BY <1>1, <2>2 DEF G, Looping
  <2>4. driverState = "running" /\ driverState' = "confused"
    BY <2>2 DEF driverState
  <2> QED
    BY <1>2, <1>3, <1>4, <2>1, <2>2, <2>3, <2>4
<1>8. CASE initps2 \/ ReadScanCode \/ TakeFront \/ SendByte \/ SendAgain \/ ScanCode
           \/ TakeByte(Ack) \/ TakeByte(Resend) \/ UNCHANGED vars
  <2>1. UNCHANGED queueVars
    BY <1>8
       DEF initps2, DisablePorts, Flush, AskConfig, ReadConfig, WriteConfig, SelfTest, ReadTest,
           ReadScanCode, TakeFront, SendByte, SendAgain, ScanCode, TakeByte, vars
  <2>2. pc' = pc \/ (pc \notin {"halted", "panic"} /\ pc' \notin {"halted", "panic"})
    BY <1>8
       DEF initps2, DisablePorts, Flush, AskConfig, ReadConfig, WriteConfig, SelfTest, ReadTest,
           ReadScanCode, TakeFront, SendByte, SendAgain, ReadAnswer, ScanCode, TakeByte, At, vars
  <2>3. UNCHANGED <<RingTodo, Popped>>
    BY <2>1 DEF RingTodo, Popped, kbdCommandQueueLength, queueVars
  <2>4. driverState' = driverState
    BY <2>2 DEF driverState
  <2> QED
    BY <2>3, <2>4
<1> QED
  BY <1>5, <1>6, <1>7, <1>8 DEF Next, LoopStep

(***************************************************************************)
(* kbdCommandQueuePush and kbdCommandQueuePop, as the loop uses them, make *)
(* a queue: commands leave it in the order of the pushes, each one once.   *)
(***************************************************************************)
THEOREM RingImplementsQueue == Spec => RingQueueSpec
<1>1. Init => Ring!Init
  <2> SUFFICES ASSUME Init PROVE Ring!Init
    OBVIOUS
  <2>1. Popped = 0 /\ RingTodo = After(0, pushed)
    BY GStart, RingIs, CommandAssumption
  <2>2. pc = "disable" /\ pushed = 0
    BY DEF Init
  <2>3. RingTodo = <<>>
    BY <2>1, <2>2, AfterFacts
  <2>4. Counted(Popped) = <<>>
    BY <2>1, Counting
  <2>5. driverState = "running"
    BY <2>2 DEF driverState
  <2> QED
    BY <2>3, <2>4, <2>5, Zenon DEF Ring!Init, RingTodo, Counted
<1>2. GInv /\ [Next]_vars => [Ring!Next]_<<RingTodo, Counted(Popped), driverState>>
  <2> SUFFICES ASSUME GInv, [Next]_vars
               PROVE  [Ring!Next]_<<RingTodo, Counted(Popped), driverState>>
    OBVIOUS
  <2>1. Popped \in Nat /\ Popped' = Popped + 1 =>
          Counted(Popped') = Append(Counted(Popped), Popped + 1)
    BY Counting
  <2>2. Popped' = Popped => Counted(Popped)' = Counted(Popped)
    BY DEF Counted
  <2>3. Popped \in Nat => Len(Counted(Popped)) = Popped
    BY Counting
  <2> QED
    BY <2>1, <2>2, <2>3, RingStep, Zenon
       DEF Ring!Next, Ring!Push, Ring!Execute, Ring!Overflow, Ring!Confuse, RingTodo, Counted
<1> QED
  BY <1>1, <1>2, GAlways, PTL DEF Spec, RingQueueSpec, Ring!Spec, RingTodo, Counted

----------------------------------------------------------------------------
(* Until a command with data is taken.  The keyboard has carried out as    *)
(* many as have left the ring, or one more; no byte and no answer of       *)
(* theirs is left over when the loop reads scan codes.                     *)

carried == Len(accepted)

Waiting(p) ==
  \/ p = carried /\ input = <<p + 1, 0>> /\ OnlyScans(line)
  \/ p = carried /\ input = <<>> /\ OneAnswer(line, Resend)
  \/ p = carried - 1 /\ input = <<>> /\ OneAnswer(line, Ack)

(* A command that the driver stopped for is still with the controller.     *)
Lent(p) == input = <<p + 1, 0>> /\ p + 1 <= pushed /\ p = carried /\ nextCommand = p + 1

Answered(p) ==
  /\ accepted = Counted(carried) /\ p \in {carried - 1, carried} /\ carried \in 0 .. pushed
  /\ pc \notin Loop /\ ~Stopped => p = carried
  /\ pc \in {"scan", "command"} => p = carried /\ input = <<>> /\ OnlyScans(line)
  /\ pc = "answer" => Waiting(p)
  /\ Stopped => input = <<>> \/ Lent(p)

I(p) == G(p) /\ Answered(p)

LEMMA CarriedUnchanged ==
  ASSUME accepted' = accepted
  PROVE  carried' = carried /\ (accepted = Counted(carried) => accepted' = Counted(carried'))
BY DEF carried

LEMMA AStart == Init => Answered(0)
<1> SUFFICES ASSUME Init PROVE Answered(0)
  OBVIOUS
<1>1. accepted = <<>> /\ pushed = 0 /\ pc = "disable"
  BY DEF Init
<1>2. carried = 0
  BY <1>1 DEF carried
<1>3. accepted = Counted(carried)
  BY <1>1, <1>2, Counting
<1> QED
  BY <1>1, <1>2, <1>3 DEF Answered, Loop, Stopped

LEMMA APush ==
  ASSUME NEW p \in 0 .. MaxCommands, I(p), kbdCommandQueuePush
  PROVE  Answered(p)'
<1>1. /\ ~Stopped /\ UNCHANGED <<line, input, accepted, nextCommand>>
      /\ \/ pc' = "panic" /\ pushed' = pushed
         \/ pc' = pc /\ pushed' = pushed + 1
  BY DEF kbdCommandQueuePush, deviceVars, queueVars
<1>2. carried' = carried /\ accepted' = Counted(carried')
  BY <1>1, CarriedUnchanged DEF I, Answered
<1>3. /\ MaxCommands \in Nat /\ p \in Nat /\ pushed \in 0 .. MaxCommands
      /\ carried \in 0 .. pushed
  BY Counts DEF I, G, Answered
<1>4. CASE pc' = "panic" /\ pushed' = pushed
  <2>1. input = <<>> \/ Lent(p)
    <3>1. CASE pc \in {"scan", "command"}
      BY <3>1 DEF I, Answered
    <3>2. CASE pc = "answer"
      BY <3>2 DEF I, Answered, Waiting, G, Looping, Lent
    <3>3. CASE pc \notin Loop
      BY <1>1, <3>3 DEF I, G, Setup
    <3> QED
      BY <3>1, <3>2, <3>3 DEF Loop
  <2> QED
    <3>1. Lent(p) => Lent(p)'
      BY <1>1, <1>2, <1>4 DEF Lent
    <3> QED
      BY <1>1, <1>2, <1>4, <2>1, <3>1 DEF I, Answered, Stopped, Loop
<1>5. CASE pc' = pc /\ pushed' = pushed + 1
  <2>1. carried' \in 0 .. pushed'
    BY <1>2, <1>3, <1>5
  <2>2. Waiting(p) => Waiting(p)'
    BY <1>1, <1>2 DEF Waiting
  <2> QED
    BY <1>1, <1>2, <1>5, <2>1, <2>2 DEF I, Answered, Stopped, Loop
<1> QED
  BY <1>1, <1>4, <1>5

LEMMA ASetup ==
  ASSUME NEW p \in 0 .. MaxCommands, I(p), initps2
  PROVE  Answered(p)'
<1>1. UNCHANGED <<queueVars, nextCommand, sent, input, refused, accepted>>
  BY DEF initps2, DisablePorts, Flush, AskConfig, ReadConfig, WriteConfig, SelfTest, ReadTest,
         deviceVars
<1>2. /\ pc \notin Loop /\ ~Stopped
      /\ pc' \in {"flush", "ask config", "read config", "write config", "self test", "read test",
                  "scan"}
  BY DEF initps2, DisablePorts, Flush, AskConfig, ReadConfig, WriteConfig, SelfTest, ReadTest, At,
         Loop, Stopped
<1>3. input' = <<>> /\ (pc' = "scan" => OnlyScans(line'))
  BY SetupStep DEF I, G
<1>4. carried' = carried /\ accepted' = Counted(carried')
  BY <1>1, CarriedUnchanged DEF I, Answered
<1> QED
  BY <1>1, <1>2, <1>3, <1>4 DEF I, Answered, Loop, Stopped, queueVars

LEMMA AReadScanCode ==
  ASSUME NEW p \in 0 .. MaxCommands, I(p), ReadScanCode
  PROVE  Answered(p)' /\ Head(line) = Scan
<1>1. /\ UNCHANGED <<queueVars, input, accepted>>
      /\ pc = "scan" /\ pc' = "scan" /\ line # <<>> /\ line' = Tail(line)
  BY DEF ReadScanCode, At, deviceVars
<1>2. OnlyScans(line) /\ input = <<>> /\ p = carried
  BY <1>1 DEF I, Answered
<1>3. OnlyScans(line') /\ Head(line) = Scan
  BY <1>1, <1>2, ScansGrow
<1>4. carried' = carried /\ accepted' = Counted(carried')
  BY <1>1, CarriedUnchanged DEF I, Answered
<1> QED
  BY <1>1, <1>2, <1>3, <1>4 DEF I, Answered, Loop, Stopped, queueVars

LEMMA ATakeFront ==
  ASSUME NEW p \in 0 .. MaxCommands, I(p), TakeFront
  PROVE  Answered(p)'
<1>1. UNCHANGED <<queueVars, line, input, accepted>> /\ pc = "scan" /\ pc' = "command"
  BY DEF TakeFront, At, deviceVars
<1>2. carried' = carried /\ accepted' = Counted(carried')
  BY <1>1, CarriedUnchanged DEF I, Answered
<1> QED
  BY <1>1, <1>2 DEF I, Answered, Loop, Stopped, queueVars

LEMMA ASendByte ==
  ASSUME NoDataYet, NEW p \in 0 .. MaxCommands, I(p), SendByte
  PROVE  Answered(p)'
<1>1. /\ UNCHANGED <<queueVars, line, accepted>>
      /\ pc = "command" /\ input' = <<nextCommand, sent>>
      /\ pc' = IF sent = DataLength(nextCommand) THEN "answer" ELSE "command"
  BY DEF SendByte
<1>2. nextCommand = p + 1 /\ nextCommand \in 1 .. pushed /\ pushed \in 0 .. MaxCommands
      /\ MaxCommands \in Nat
  BY GSendByte, Counts DEF I, G
<1>3. DataLength(nextCommand) = 0
  <2>1. nextCommand \in 1 .. nextCommand
    BY <1>2
  <2> QED
    BY <2>1 DEF NoDataYet, WithoutData
<1>4. sent = 0
  <2>1. sent \in 0 .. DataLength(nextCommand)
    BY <1>1 DEF I, G, Looping
  <2> QED
    BY <1>3, <2>1
<1>5. input' = <<p + 1, 0>> /\ pc' = "answer"
  BY <1>1, <1>2, <1>3, <1>4
<1>6. carried' = carried /\ accepted' = Counted(carried')
  BY <1>1, CarriedUnchanged DEF I, Answered
<1>7. OnlyScans(line) /\ p = carried
  BY <1>1 DEF I, Answered
<1>8. Waiting(p)'
  BY <1>1, <1>5, <1>6, <1>7 DEF Waiting
<1> QED
  BY <1>1, <1>5, <1>6, <1>7, <1>8 DEF I, Answered, Loop, Stopped, queueVars

(* The answer on the line is the keyboard's last word on the command.      *)
LEMMA Answers ==
  ASSUME NEW p \in 0 .. MaxCommands, I(p), pc = "answer", line # <<>>
  PROVE  /\ Head(line) = Ack => p = carried - 1 /\ input = <<>> /\ OnlyScans(Tail(line))
         /\ Head(line) = Resend => p = carried /\ input = <<>> /\ OnlyScans(Tail(line))
         /\ input = <<>> \/ Lent(p)
<1>1. Waiting(p) /\ p + 1 <= pushed /\ nextCommand = p + 1
  BY DEF I, Answered, G, Looping
<1>2. CASE p = carried /\ input = <<p + 1, 0>> /\ OnlyScans(line)
  BY <1>1, <1>2, ScansGrow, ByteFacts DEF Lent
<1>3. CASE p = carried /\ input = <<>> /\ OneAnswer(line, Resend)
  BY <1>3, AnswerStays, ByteFacts
<1>4. CASE p = carried - 1 /\ input = <<>> /\ OneAnswer(line, Ack)
  BY <1>4, AnswerStays, ByteFacts
<1> QED
  BY <1>1, <1>2, <1>3, <1>4 DEF Waiting

LEMMA AAnswer ==
  ASSUME NEW p \in 0 .. MaxCommands, I(p)
  PROVE  /\ Acknowledged => Answered(p + 1)'
         /\ SendAgain \/ UnknownByte => Answered(p)'
<1> SUFFICES ASSUME Acknowledged \/ SendAgain \/ UnknownByte
             PROVE  /\ Acknowledged => Answered(p + 1)'
                    /\ SendAgain \/ UnknownByte => Answered(p)'
  OBVIOUS
<1>1. /\ UNCHANGED <<input, accepted, pushed, nextCommand>>
      /\ pc = "answer" /\ line # <<>> /\ line' = Tail(line)
  BY DEF Acknowledged, SendAgain, UnknownByte, ReadAnswer, At, deviceVars, queueVars,
         kbdCommandQueuePop
<1>2. /\ Head(line) = Ack => p = carried - 1 /\ input = <<>> /\ OnlyScans(Tail(line))
      /\ Head(line) = Resend => p = carried /\ input = <<>> /\ OnlyScans(Tail(line))
      /\ input = <<>> \/ Lent(p)
  BY <1>1, Answers
<1>3. carried' = carried /\ accepted' = Counted(carried')
  BY <1>1, CarriedUnchanged DEF I, Answered
<1>4. carried \in 0 .. pushed /\ pushed \in Nat /\ p \in {carried - 1, carried}
  BY Counts DEF I, G, Answered
<1>5. CASE Acknowledged
  <2>1. Head(line) = Ack /\ pc' = "scan"
    BY <1>5 DEF Acknowledged, ReadAnswer, At
  <2>2. p + 1 = carried /\ input' = <<>> /\ OnlyScans(line')
    BY <1>1, <1>2, <1>4, <2>1
  <2>3. Answered(p + 1)'
    BY <1>1, <1>3, <1>4, <2>1, <2>2 DEF Answered, Loop, Stopped
  <2>4. ~SendAgain /\ ~UnknownByte
    BY <2>1, ByteFacts DEF SendAgain, UnknownByte, ReadAnswer
  <2> QED
    BY <2>3, <2>4
<1>6. CASE SendAgain
  <2>1. Head(line) = Resend /\ pc' = "scan"
    BY <1>6 DEF SendAgain, ReadAnswer, At
  <2>2. Answered(p)'
    BY <1>1, <1>2, <1>3, <1>4, <2>1 DEF Answered, Loop, Stopped
  <2>3. ~Acknowledged
    BY <2>1, ByteFacts DEF Acknowledged, ReadAnswer
  <2> QED
    BY <2>2, <2>3
<1>7. CASE UnknownByte
  <2>1. Head(line) \in {Scan, TestPassed} /\ pc' = "halted"
    BY <1>7 DEF UnknownByte, ReadAnswer, At
  <2>2. Answered(p)'
    BY <1>1, <1>2, <1>3, <1>4, <2>1 DEF Answered, Loop, Stopped, Lent
  <2>3. ~Acknowledged
    BY <2>1, ByteFacts DEF Acknowledged, ReadAnswer
  <2> QED
    BY <2>2, <2>3
<1> QED
  BY <1>5, <1>6, <1>7

LEMMA AScanCode ==
  ASSUME NEW p \in 0 .. MaxCommands, I(p), ScanCode
  PROVE  Answered(p)'
<1>1. UNCHANGED <<queueVars, pc, input, accepted, nextCommand>> /\ line' = Append(line, Scan)
  BY DEF ScanCode, deviceVars
<1>2. carried' = carried /\ accepted' = Counted(carried')
  BY <1>1, CarriedUnchanged DEF I, Answered
<1>3. OnlyScans(line) => OnlyScans(line')
  BY <1>1, ScansGrow
<1>4. \A a : OneAnswer(line, a) => OneAnswer(line', a)
  BY <1>1, AnswerStays
<1>5. Waiting(p) => Waiting(p)'
  BY <1>1, <1>2, <1>3, <1>4 DEF Waiting
<1> QED
  BY <1>1, <1>2, <1>3, <1>5 DEF I, Answered, Loop, Stopped, queueVars, Lent

(* The byte the keyboard takes is the next command to be carried out.      *)
LEMMA TakenByte ==
  ASSUME NoDataYet, NEW p \in 0 .. MaxCommands, I(p), NEW a \in {Ack, Resend}, TakeByte(a)
  PROVE  /\ pc \in {"answer", "halted", "panic"}
         /\ input = <<carried + 1, 0>> /\ carried + 1 <= pushed /\ p = carried
         /\ line' = Append(line, a) /\ input' = <<>>
         /\ accepted' = IF a = Ack THEN Append(accepted, carried + 1) ELSE accepted
         /\ carried' = IF a = Ack THEN carried + 1 ELSE carried
         /\ accepted' = Counted(carried')
<1>1. /\ input # <<>> /\ input' = <<>> /\ line' = Append(line, a)
      /\ accepted' = IF input[2] = DataLength(input[1]) /\ a = Ack
                       THEN Append(accepted, input[1]) ELSE accepted
  BY DEF TakeByte
<1>2. pc \in {"scan", "command", "answer", "halted", "panic"}
  BY GTakeByte DEF I
<1>3. /\ pc \in {"answer", "halted", "panic"}
      /\ input = <<p + 1, 0>> /\ p + 1 <= pushed /\ p = carried /\ nextCommand = p + 1
  <2>1. CASE pc = "answer"
    BY <1>1, <2>1 DEF I, G, Looping, Answered, Waiting
  <2>2. CASE pc \in {"halted", "panic"}
    BY <1>1, <2>2 DEF I, Answered, Stopped, Lent
  <2>3. pc \notin {"scan", "command"}
    BY <1>1 DEF I, Answered
  <2> QED
    BY <1>2, <2>1, <2>2, <2>3
<1>4. DataLength(p + 1) = 0
  <2>1. p + 1 \in 1 .. nextCommand
    BY <1>3, Counts DEF I, G
  <2> QED
    BY <2>1 DEF NoDataYet, WithoutData
<1>5. input[1] = p + 1 /\ input[2] = 0
  BY <1>3
<1>6. accepted' = IF a = Ack THEN Append(accepted, carried + 1) ELSE accepted
  BY <1>1, <1>3, <1>4, <1>5
<1>7. accepted = Counted(carried) /\ carried \in Nat
  BY <1>3, Counts DEF I, G, Answered
<1>8. carried' = (IF a = Ack THEN carried + 1 ELSE carried) /\ accepted' = Counted(carried')
  <2>1. CASE a = Ack
    <3>1. accepted' = Counted(carried + 1) /\ carried + 1 \in Nat
      <4>1. Append(Counted(carried), carried + 1) = Counted(carried + 1)
        BY <1>7, Counting
      <4>2. accepted' = Append(Counted(carried), carried + 1)
        BY <1>6, <1>7, <2>1, Zenon
      <4> QED
        BY <1>7, <4>1, <4>2
    <3>2. Len(accepted') = carried + 1
      BY <3>1, Counting
    <3>3. carried' = Len(accepted')
      BY DEF carried
    <3> QED
      BY <2>1, <3>1, <3>2, <3>3
  <2>2. CASE a # Ack
    BY <1>6, <1>7, <2>2 DEF carried
  <2> QED
    BY <2>1, <2>2
<1> QED
  BY <1>1, <1>3, <1>6, <1>8

LEMMA ATakeByte ==
  ASSUME NoDataYet, NEW p \in 0 .. MaxCommands, I(p), NEW a \in {Ack, Resend}, TakeByte(a)
  PROVE  Answered(p)'
<1>1. pc' = pc /\ pushed' = pushed
  BY DEF TakeByte, queueVars
<1>2. /\ pc \in {"answer", "halted", "panic"}
      /\ carried + 1 <= pushed /\ p = carried
      /\ line' = Append(line, a) /\ input' = <<>>
      /\ carried' = IF a = Ack THEN carried + 1 ELSE carried
      /\ accepted' = Counted(carried')
  BY TakenByte
<1>3. p \in Nat /\ pushed \in Nat
  BY Counts DEF I, G
<1>4. carried' \in 0 .. pushed' /\ p \in {carried' - 1, carried'}
  BY <1>1, <1>2, <1>3
<1>5. pc = "answer" => Waiting(p)'
  <2> SUFFICES ASSUME pc = "answer" PROVE Waiting(p)'
    OBVIOUS
  <2>1. OnlyScans(line)
    <3>1. Waiting(p) /\ input = <<carried + 1, 0>>
      BY TakenByte DEF I, Answered
    <3> QED
      BY <3>1 DEF Waiting
  <2>2. OneAnswer(line', a)
    BY <1>2, <2>1, ScansGrow, ByteFacts
  <2>3. CASE a = Ack
    <3>1. p = carried' - 1
      BY <1>2, <1>3, <2>3
    <3> QED
      BY <1>2, <2>2, <2>3, <3>1 DEF Waiting
  <2>4. CASE a = Resend
    <3>1. p = carried'
      BY <1>2, <2>4, ByteFacts
    <3> QED
      BY <1>2, <2>2, <2>4, <3>1 DEF Waiting
  <2> QED
    BY <2>3, <2>4
<1> QED
  BY <1>1, <1>2, <1>4, <1>5 DEF Answered, Loop, Stopped

LEMMA AStutter ==
  ASSUME NEW p \in 0 .. MaxCommands, I(p), UNCHANGED vars
  PROVE  Answered(p)'
<1>1. UNCHANGED <<pushed, pc, line, input, accepted, nextCommand>>
  BY DEF vars, deviceVars, queueVars
<1>2. carried' = carried
  BY <1>1, CarriedUnchanged
<1>3. Waiting(p) => Waiting(p)'
  BY <1>1, <1>2 DEF Waiting
<1> QED
  BY <1>1, <1>2, <1>3 DEF I, Answered, Stopped, Lent

J(p) == G(p) /\ nextCommand <= p + 1 /\ (NoDataYet => Answered(p))

KInv == \E p \in 0 .. MaxCommands : J(p)

(* The commands the loop has taken are those before, and perhaps one more. *)
LEMMA Earlier ==
  ASSUME NEW p \in 0 .. MaxCommands, J(p), [Next]_vars, NoDataYet'
  PROVE  NoDataYet /\ I(p)
<1>1. CASE TakeFront
  <2>1. nextCommand' = p + 1 /\ nextCommand \in Nat /\ nextCommand <= p + 1 /\ p \in Nat
    <3>1. Looping(p)' /\ pc' = "command"
      BY <1>1, GTakeFront DEF J, G, TakeFront, At
    <3>2. nextCommand \in Nat /\ p \in Nat
      BY Counts DEF J, G, Types
    <3> QED
      BY <3>1, <3>2 DEF Looping, J
  <2>2. \A n \in 1 .. nextCommand : n \in 1 .. nextCommand'
    BY <2>1
  <2> QED
    BY <2>2 DEF NoDataYet, I, J
<1>2. CASE ~TakeFront
  <2>1. nextCommand' = nextCommand
    BY <1>2
       DEF Next, kbdCommandQueuePush, initps2, DisablePorts, Flush, AskConfig, ReadConfig,
           WriteConfig, SelfTest, ReadTest, LoopStep, ReadScanCode, SendByte, Acknowledged,
           SendAgain, UnknownByte, ReadAnswer, ScanCode, TakeByte, vars
  <2> QED
    BY <2>1 DEF NoDataYet, I, J
<1> QED
  BY <1>1, <1>2

LEMMA KInvNext ==
  ASSUME KInv, [Next]_vars
  PROVE  KInv'
<1>1. PICK p \in 0 .. MaxCommands : J(p)
  BY DEF KInv
<1>2. G(p) /\ nextCommand <= p + 1 /\ p \in Nat
  BY <1>1, Counts DEF J, G
<1>3. NoDataYet' => NoDataYet /\ I(p)
  BY <1>1, Earlier
<1>4. ASSUME NEW q \in {p, p + 1}, q \in 0 .. MaxCommands, G(q)', nextCommand' <= q + 1,
             NoDataYet' => Answered(q)'
      PROVE  KInv'
  BY <1>4 DEF KInv, J
<1>5. CASE kbdCommandQueuePush
  <2>1. nextCommand' = nextCommand
    BY <1>5 DEF kbdCommandQueuePush
  <2> QED
    BY <1>2, <1>3, <1>4, <1>5, <2>1, GPush, APush
<1>6. CASE initps2
  <2>1. nextCommand' = nextCommand
    BY <1>6
       DEF initps2, DisablePorts, Flush, AskConfig, ReadConfig, WriteConfig, SelfTest, ReadTest
  <2> QED
    BY <1>2, <1>3, <1>4, <1>6, <2>1, GSetup, ASetup
<1>7. CASE LoopStep
  <2>1. CASE ReadScanCode
    <3>1. nextCommand' = nextCommand
      BY <2>1 DEF ReadScanCode
    <3> QED
      BY <1>2, <1>3, <1>4, <2>1, <3>1, GRead, AReadScanCode
  <2>2. CASE TakeFront
    <3>1. G(p)' /\ pc' = "command"
      BY <1>2, <2>2, GTakeFront DEF TakeFront, At
    <3>2. nextCommand' <= p + 1
      <4>1. Looping(p)'
        BY <3>1 DEF G
      <4>2. nextCommand' = p + 1
        BY <3>1, <4>1 DEF Looping
      <4> QED
        BY <1>2, <4>2
    <3> QED
      BY <1>2, <1>3, <1>4, <2>2, <3>1, <3>2, ATakeFront
  <2>3. CASE SendByte
    <3>1. nextCommand' = nextCommand
      BY <2>3 DEF SendByte
    <3> QED
      BY <1>2, <1>3, <1>4, <2>3, <3>1, GSendByte, ASendByte
  <2>4. CASE Acknowledged
    <3>1. nextCommand' = nextCommand
      BY <2>4 DEF Acknowledged, ReadAnswer
    <3>2. nextCommand' <= (p + 1) + 1
      BY <1>2, <3>1, GAcknowledged DEF G, Types
    <3>3. G(p + 1)' /\ p + 1 \in 0 .. MaxCommands
      BY <1>2, <2>4, GAcknowledged
    <3>4. NoDataYet' => Answered(p + 1)'
      BY <1>3, <2>4, AAnswer
    <3> QED
      BY <1>4, <3>2, <3>3, <3>4
  <2>5. CASE SendAgain \/ UnknownByte
    <3>1. nextCommand' = nextCommand
      BY <2>5 DEF SendAgain, UnknownByte, ReadAnswer
    <3> QED
      BY <1>2, <1>3, <1>4, <2>5, <3>1, GRead, AAnswer
  <2> QED
    BY <1>7, <2>1, <2>2, <2>3, <2>4, <2>5 DEF LoopStep
<1>8. CASE ScanCode
  <2>1. nextCommand' = nextCommand
    BY <1>8 DEF ScanCode
  <2> QED
    BY <1>2, <1>3, <1>4, <1>8, <2>1, GScanCode, AScanCode
<1>9. ASSUME NEW a \in {Ack, Resend}, TakeByte(a) PROVE KInv'
  <2>1. nextCommand' = nextCommand
    BY <1>9 DEF TakeByte
  <2>2. G(p)'
    BY <1>2, <1>9, GTakeByte
  <2>3. NoDataYet' => Answered(p)'
    BY <1>3, <1>9, ATakeByte
  <2> QED
    BY <1>2, <1>4, <2>1, <2>2, <2>3
<1>10. CASE UNCHANGED vars
  <2>1. nextCommand' = nextCommand
    BY <1>10 DEF vars
  <2> QED
    BY <1>2, <1>3, <1>4, <1>10, <2>1, GStutter, AStutter
<1> QED
  BY <1>5, <1>6, <1>7, <1>8, <1>9, <1>10 DEF Next

LEMMA KInvAlways == Spec => []KInv
<1>1. Init => KInv
  <2> SUFFICES ASSUME Init PROVE KInv
    OBVIOUS
  <2>1. G(0) /\ Answered(0) /\ 0 \in 0 .. MaxCommands
    BY GStart, AStart, CommandAssumption
  <2>2. nextCommand = 0
    BY DEF Init
  <2> QED
    BY <2>1, <2>2 DEF KInv, J
<1>2. KInv /\ [Next]_vars => KInv'
  BY KInvNext
<1> QED
  BY <1>1, <1>2, PTL DEF Spec

(***************************************************************************)
(* Until it takes a command with data, the inner loop of                   *)
(* keyboard_test_loop reads scan codes only: no answer and no byte of the  *)
(* controller is left for it.                                              *)
(***************************************************************************)
THEOREM OnlyScanCodesDecoded == Spec => DecoderGetsScanCodes
<1>1. KInv => [ReadScanCode /\ NoDataYet => Head(line) = Scan]_vars
  BY AReadScanCode DEF KInv, J, I
<1> QED
  BY <1>1, KInvAlways, PTL DEF Spec, DecoderGetsScanCodes

----------------------------------------------------------------------------
(* The refinement of CommandQueue by ring, loop and keyboard.              *)

LEMMA TodoIs ==
  ASSUME NEW p \in 0 .. MaxCommands, I(p)
  PROVE  Todo = After(carried, pushed)
<1>1. /\ Holds(kbdCommandQueue, kbdCommandQueueBegin, kbdCommandQueueEnd, p, pushed)
      /\ carried \in {p, p + 1} /\ carried <= pushed
  <2>1. p \in {carried - 1, carried} /\ carried \in 0 .. pushed /\ pushed \in Nat
    BY Counts DEF I, G, Answered
  <2> QED
    BY <2>1 DEF I, G, InRing
<1>2. Outstanding = pushed - carried
  BY DEF Outstanding, carried
<1>3. \A i \in 1 .. pushed - carried :
        kbdCommandQueue[Wrapped(kbdCommandQueueEnd - (pushed - carried) + i - 1)] = carried + i
  BY <1>1, RingTail
<1>4. Todo = [i \in 1 .. pushed - carried |->
                kbdCommandQueue[Wrapped(kbdCommandQueueEnd - (pushed - carried) + i - 1)]]
  BY <1>2, Zenon DEF Todo, Wrapped
<1> QED
  BY <1>3, <1>4, Zenon DEF After

LEMMA TodoAlways == KInv /\ NoDataYet => Todo = After(carried, pushed)
BY TodoIs DEF KInv, J, I

LEMMA TodoNext == KInv' /\ NoDataYet' => (Todo = After(carried, pushed))'
BY TodoAlways, PTL

LEMMA QueueStep ==
  ASSUME KInv, KInv', [Next]_vars, NoDataYet'
  PROVE  \/ driverState = "running" /\ Len(Todo) < QueueSize - 1
            /\ pushed + 1 \in 1 .. MaxCommands
            /\ Todo' = Append(Todo, pushed + 1) /\ UNCHANGED <<accepted, driverState>>
         \/ Todo # <<>> /\ accepted' = Append(accepted, Head(Todo)) /\ Todo' = Tail(Todo)
            /\ driverState' = driverState
         \/ driverState = "running" /\ driverState' = "full"
            /\ Len(Todo) \in (QueueSize - 1) - 1 .. QueueSize - 1 /\ UNCHANGED <<Todo, accepted>>
         \/ driverState = "running" /\ driverState' = "confused"
            /\ Len(Todo) + Len(accepted) > 0 /\ UNCHANGED <<Todo, accepted>>
         \/ UNCHANGED <<Todo, accepted, driverState>>
<1> USE SizeAssumption
<1>1. PICK p \in 0 .. MaxCommands : NoDataYet /\ I(p)
  BY Earlier DEF KInv
<1>2. Todo = After(carried, pushed) /\ Todo' = After(carried', pushed')
  BY <1>1, TodoAlways, TodoNext
<1>3. /\ MaxCommands \in Nat /\ p \in Nat /\ pushed \in 0 .. MaxCommands
      /\ pushed - p \in 0 .. QueueSize - 1
  BY <1>1, Counts DEF I, G
<1>4. carried \in 0 .. pushed /\ p \in {carried - 1, carried}
  BY <1>1 DEF I, Answered
<1>5. carried \in Nat /\ pushed \in Nat /\ carried <= pushed
  BY <1>3, <1>4
<1>6. Len(Todo) = pushed - carried /\ Len(accepted) = carried
  BY <1>2, <1>5, AfterFacts DEF carried
<1>7. CASE kbdCommandQueuePush
  <2>1. ~Stopped /\ pushed < MaxCommands /\ accepted' = accepted /\ carried' = carried
    BY <1>7 DEF kbdCommandQueuePush, deviceVars, carried
  <2>2. driverState = "running"
    BY <2>1 DEF driverState, Stopped
  <2>3. CASE Wrapped(kbdCommandQueueEnd + 1) = kbdCommandQueueBegin
    <3>1. pc' = "panic" /\ pushed' = pushed
      BY <1>7, <2>3 DEF kbdCommandQueuePush, queueVars, Wrapped
    <3>2. pushed - p = QueueSize - 1
      BY <1>1, <2>3, RingFacts DEF I, G, InRing
    <3>3. driverState' = "full" /\ Todo' = Todo
      BY <1>2, <2>1, <3>1 DEF driverState
    <3>4. Len(Todo) \in (QueueSize - 1) - 1 .. QueueSize - 1
      BY <1>3, <1>4, <1>5, <1>6, <3>2
    <3> QED
      BY <2>1, <2>2, <3>3, <3>4
  <2>4. CASE Wrapped(kbdCommandQueueEnd + 1) # kbdCommandQueueBegin
    <3>1. pushed' = pushed + 1 /\ pc' = pc
      BY <1>7, <2>4 DEF kbdCommandQueuePush, Wrapped
    <3>2. pushed - p # QueueSize - 1
      BY <1>1, <2>4, RingFacts DEF I, G, InRing
    <3>3. Len(Todo) < QueueSize - 1
      BY <1>3, <1>4, <1>5, <1>6, <3>2
    <3>4. Todo' = Append(Todo, pushed + 1)
      BY <1>2, <1>5, <2>1, <3>1, AfterFacts
    <3>5. driverState' = driverState /\ pushed + 1 \in 1 .. MaxCommands
      BY <1>3, <1>5, <2>1, <3>1 DEF driverState
    <3> QED
      BY <2>1, <2>2, <3>3, <3>4, <3>5
  <2> QED
    BY <2>3, <2>4
<1>8. CASE initps2 \/ ReadScanCode \/ TakeFront \/ SendByte \/ ScanCode \/ UNCHANGED vars
  <2>1. pushed' = pushed /\ accepted' = accepted /\ carried' = carried
    BY <1>8
       DEF initps2, DisablePorts, Flush, AskConfig, ReadConfig, WriteConfig, SelfTest, ReadTest,
           ReadScanCode, TakeFront, SendByte, ScanCode, vars, queueVars, deviceVars, carried
  <2>2. pc' = pc \/ (pc \notin {"halted", "panic"} /\ pc' \notin {"halted", "panic"})
    BY <1>8
       DEF initps2, DisablePorts, Flush, AskConfig, ReadConfig, WriteConfig, SelfTest, ReadTest,
           ReadScanCode, TakeFront, SendByte, ScanCode, At, vars
  <2> QED
    BY <1>2, <2>1, <2>2 DEF driverState
<1>9. CASE Acknowledged \/ SendAgain \/ UnknownByte
  <2>1. /\ pushed' = pushed /\ accepted' = accepted /\ carried' = carried
        /\ pc = "answer" /\ pc' \in {"scan", "halted"}
    BY <1>9
       DEF Acknowledged, SendAgain, UnknownByte, ReadAnswer, At, kbdCommandQueuePop, queueVars,
           deviceVars, carried
  <2>2. p + 1 <= pushed
    BY <1>1, <2>1 DEF I, G, Looping
  <2>3. Len(Todo) + Len(accepted) > 0
    BY <1>3, <1>5, <1>6, <2>2
  <2>4. driverState = "running" /\ driverState' \in {"running", "confused"}
    BY <2>1 DEF driverState
  <2> QED
    BY <1>2, <2>1, <2>3, <2>4
<1>10. ASSUME NEW a \in {Ack, Resend}, TakeByte(a)
       PROVE  \/ Todo # <<>> /\ accepted' = Append(accepted, Head(Todo)) /\ Todo' = Tail(Todo)
                 /\ driverState' = driverState
              \/ UNCHANGED <<Todo, accepted, driverState>>
  <2>1. pc' = pc /\ pushed' = pushed
    BY <1>10 DEF TakeByte, queueVars
  <2>2. driverState' = driverState
    BY <2>1 DEF driverState
  <2>3. /\ carried + 1 <= pushed
        /\ accepted' = IF a = Ack THEN Append(accepted, carried + 1) ELSE accepted
        /\ carried' = IF a = Ack THEN carried + 1 ELSE carried
    BY <1>1, <1>10, TakenByte
  <2>4. CASE a # Ack
    BY <1>2, <2>1, <2>2, <2>3, <2>4
  <2>5. CASE a = Ack
    <3>1. carried < pushed
      BY <1>5, <2>3
    <3>2. /\ After(carried, pushed) # <<>> /\ Head(After(carried, pushed)) = carried + 1
          /\ After(carried + 1, pushed) = Tail(After(carried, pushed))
      BY <1>5, <3>1, AfterFacts
    <3>3. accepted' = Append(accepted, carried + 1) /\ carried' = carried + 1
      BY <2>3, <2>5
    <3>4. Todo # <<>> /\ Head(Todo) = carried + 1 /\ Todo' = Tail(Todo)
      BY <1>2, <2>1, <3>2, <3>3, Zenon
    <3> QED
      BY <2>2, <3>3, <3>4
  <2> QED
    BY <2>4, <2>5
<1> QED
  BY <1>7, <1>8, <1>9, <1>10 DEF Next, LoopStep

(***************************************************************************)
(* Until the loop takes a command with data, it and the ring implement the *)
(* queue up to the keyboard: each command is carried out once, in the      *)
(* order of kbdCommandQueuePush, whatever is refused and repeated.         *)
(***************************************************************************)
THEOREM KeyboardImplementsQueue == Spec => CommandQueueSpec
<1>1. Init => Queue!Init
  <2> SUFFICES ASSUME Init PROVE Queue!Init
    OBVIOUS
  <2>1. pc = "disable" /\ accepted = <<>> /\ pushed = 0
    BY DEF Init
  <2>2. carried = 0
    BY <2>1 DEF carried
  <2>3. I(0)
    BY GStart, AStart DEF I
  <2>4. Todo = After(carried, pushed)
    BY <2>3, TodoIs, CommandAssumption
  <2>5. Todo = <<>>
    BY <2>1, <2>2, <2>4, AfterFacts
  <2>6. driverState = "running"
    BY <2>1 DEF driverState
  <2> QED
    BY <2>1, <2>5, <2>6, Zenon DEF Queue!Init
<1>2. KInv /\ KInv' /\ [Next]_vars =>
        [NoDataYet' => Queue!Next \/ UNCHANGED <<Todo, accepted, driverState>>]_vars
  BY QueueStep, Zenon
     DEF Queue!Next, Queue!Push, Queue!Execute, Queue!Overflow, Queue!Confuse
<1> QED
  BY <1>1, <1>2, KInvAlways, PTL DEF Spec, CommandQueueSpec
=============================================================================
