----------------------------- MODULE BootProofs -----------------------------
(***************************************************************************)
(* What cstart establishes, for all device lines, all faults and all boot  *)
(* modules, at any time of the boot and after it: for the processor, and,  *)
(* from the loader's invariant (ProcessesProofs), for the processes.       *)
(***************************************************************************)
EXTENDS Boot, ProcessesProofs

KernelSelectors == [cs |-> 8, ss |-> 16]
UserSelectors   == [cs |-> 43, ss |-> 35]

GateTypes == {NoGate, interrupt_gate, trap_gate}

(* What the setup has reached at each step of cstart.                      *)
TablesInv ==
  /\ step \in 1 .. 12
  /\ step > 1 => gdt = InitialisedGDT
  /\ step > 3 => gdtr
  /\ step > 4 => tr /\ ist1
  /\ idt \in [Vectors -> GateTypes]
  /\ \A v \in Vectors \ {201} : idt[v] # trap_gate
  /\ step > 5 => \A v \in ExceptionGates : idt[v] = interrupt_gate
  /\ step > 6 => \A v \in InterruptGates : idt[v] = interrupt_gate
  /\ step > 9 => lstar /\ star = [user |-> 24, kernel |-> 8]
  /\ idtr <=> step > 7

(* How far the initialisation of the two controllers is after io - 1 bytes *)
(* and that the last byte was the mask.                                    *)
ControllersInv ==
  /\ io \in 1 .. 11
  /\ step < 7 => io = 1
  /\ step > 7 => io = 11
  /\ pic \in [master : Controllers, slave : Controllers]
  /\ pic.master.icw = <<0, 2, 2, 3, 3, 4, 4, 0, 0, 0, 0>>[io]
  /\ pic.slave.icw = <<0, 0, 2, 2, 3, 3, 4, 4, 0, 0, 0>>[io]
  /\ io > 9 => pic.master.mask = 255
  /\ io > 10 => pic.slave.mask = 255

CpuInv ==
  /\ raised \subseteq Lines
  /\ interrupts \in BOOLEAN
  /\ cpu \in {"running", "halted", "reset"}
  /\ step <= 7 => ~interrupts /\ cpu # "halted"
  /\ step > 7 => cpu # "reset" /\ (cpu = "halted" => ~interrupts)

SelectorsInv ==
  /\ current \in {"idle", "process"}
  /\ saved = [t \in {"idle", "process"} |-> saved[t]]
  /\ saved["process"] \in {[cs |-> 0, ss |-> 0], KernelSelectors, UserSelectors}
  /\ current = "process" =>
       /\ step = 12
       /\ [cs |-> cs, ss |-> ss] \in {KernelSelectors, UserSelectors}

BootInv == TablesInv /\ ControllersInv /\ CpuInv /\ SelectorsInv

----------------------------------------------------------------------------
(* The descriptors and what follows of their order in struct GDT.          *)

LEMMA OffsetOfCS64 == Offset("CS64") = 8
  BY DEF Offset, Layout

LEMMA OffsetOfDS == Offset("DS") = 16
  BY DEF Offset, Layout

LEMMA OffsetOfCS32U == Offset("CS32U") = 24
  BY DEF Offset, Layout

LEMMA OffsetOfDSU == Offset("DSU") = 32
  BY DEF Offset, Layout

LEMMA OffsetOfCS64U == Offset("CS64U") = 40
  BY DEF Offset, Layout

LEMMA Descriptors ==
  ASSUME gdtr, gdt = InitialisedGDT
  PROVE  /\ Descriptor(0) = NoSegment
         /\ Descriptor(8) = Segment(TRUE, 0)
         /\ Descriptor(16) = Segment(FALSE, 0)
         /\ Descriptor(35) = Segment(FALSE, 3)
         /\ Descriptor(43) = Segment(TRUE, 3)
<1>1. DOMAIN InitialisedGDT = 1 .. 7
  BY DEF InitialisedGDT, Layout
<1>2. \A n \in 1 .. 7 : InitialisedGDT[n] = Attributes[Layout[n]]
  BY DEF InitialisedGDT, Layout
<1>3. /\ Attributes["zero"] = NoSegment
      /\ Attributes["CS64"] = Segment(TRUE, 0)
      /\ Attributes["DS"] = Segment(FALSE, 0)
      /\ Attributes["DSU"] = Segment(FALSE, 3)
      /\ Attributes["CS64U"] = Segment(TRUE, 3)
  BY DEF Attributes
<1>4. /\ Layout[1] = "zero" /\ Layout[2] = "CS64" /\ Layout[3] = "DS"
      /\ Layout[5] = "DSU" /\ Layout[6] = "CS64U"
  BY DEF Layout
<1>5. 0 \div 8 + 1 = 1 /\ 8 \div 8 + 1 = 2 /\ 16 \div 8 + 1 = 3 /\ 35 \div 8 + 1 = 5 /\ 43 \div 8 + 1 = 6
  OBVIOUS
<1>6. \A n \in 1 .. 7, c \in Nat : c \div 8 + 1 = n => Descriptor(c) = Attributes[Layout[n]]
  BY <1>1, <1>2 DEF Descriptor
<1>7. /\ Descriptor(0) = Attributes["zero"]
      /\ Descriptor(8) = Attributes["CS64"]
      /\ Descriptor(16) = Attributes["DS"]
      /\ Descriptor(35) = Attributes["DSU"]
      /\ Descriptor(43) = Attributes["CS64U"]
  <2> HIDE DEF Descriptor, Attributes, Layout
  <2> QED
    BY <1>4, <1>5, <1>6
<1> QED
  BY <1>3, <1>7

LEMMA Entrance ==
  ASSUME TablesInv, step > 7, NEW v \in Vectors
  PROVE  /\ Enters(v) <=> idt[v] # NoGate
         /\ Entered(v) \in SUBSET Vectors
         /\ Entered(v) # {}
         /\ \A w \in Entered(v) : idt[w] # NoGate /\ w \in {v, 8, 13}
<1>1. Kernel64(Descriptor(Offset("CS64")))
  <2>1. Descriptor(8) = Segment(TRUE, 0)
    <3>1. gdtr /\ gdt = InitialisedGDT
      BY DEF TablesInv
    <3> QED
      BY <3>1, Descriptors, Zenon
  <2>2. Kernel64(Segment(TRUE, 0))
    <3>1. /\ Segment(TRUE, 0).present = TRUE /\ Segment(TRUE, 0).code = TRUE
          /\ Segment(TRUE, 0).long_mode = TRUE /\ Segment(TRUE, 0).dpl = 0
      BY DEF Segment
    <3> QED
      BY <3>1, Zenon DEF Kernel64
  <2>3. Descriptor(Offset("CS64")) = Segment(TRUE, 0)
    BY <2>1, OffsetOfCS64
  <2> QED
    BY <2>2, <2>3, Zenon
<1>2. \A w \in Vectors : Enters(w) <=> idt[w] # NoGate
  BY <1>1 DEF TablesInv, Enters
<1>3. 8 \in Vectors /\ 13 \in Vectors /\ idt[8] # NoGate /\ idt[13] # NoGate
  BY DEF TablesInv, ExceptionGates, Vectors, NoGate, interrupt_gate
<1> QED
  BY <1>2, <1>3 DEF Entered

LEMMA StopsInHandler ==
  ASSUME TablesInv, CpuInv, step > 7, NEW v \in Vectors \ {201}, Stops(v)
  PROVE  cpu' = "halted" /\ interrupts' \in BOOLEAN /\ ~interrupts'
<1>1. PICK w \in Entered(v) : cpu' = "halted" /\ interrupts' = (interrupts /\ idt[w] = trap_gate)
  BY Entrance DEF Stops
<1>2. w \in Vectors /\ w # 201
  BY <1>1, Entrance
<1>3. idt[w] # trap_gate
  BY <1>2 DEF TablesInv
<1> QED
  BY <1>1, <1>3

LEMMA ResetsBeforeLidt ==
  ASSUME TablesInv, step <= 7, NEW v, Stops(v)
  PROVE  cpu' = "reset" /\ interrupts' = interrupts
<1>1. Entered(v) = {}
  BY DEF TablesInv, Entered, Enters
<1> QED
  BY <1>1 DEF Stops

----------------------------------------------------------------------------
(* One lemma per group of actions.                                         *)

LEMMA Order ==
  ASSUME step \in 1 .. 12, NEW name, Call(name)
  PROVE  /\ cstart[step] = name /\ cpu = "running" /\ current = "idle"
         /\ name = "init_gdt" => step = 1
         /\ name = "init_tss" => step = 2
         /\ name = "load_gdt" => step = 3
         /\ name = "load_tss" => step = 4
         /\ name = "load_exceptions" => step = 5
         /\ name = "load_interrupts" => step = 6
         /\ name = "enable_interrupts" => step = 7
         /\ name = "init_scheduler" => step = 8
         /\ name = "setup_syscall" => step = 9
         /\ name = "processes" => step = 10
         /\ name = "idle_loop" => step = 11
  BY DEF Call, cstart

LEMMA InitBootInv == StartupInit => BootInv
<1> SUFFICES ASSUME StartupInit PROVE BootInv
  OBVIOUS
<1>1. TablesInv
  BY DEF StartupInit, TablesInv, GateTypes, Vectors, NoGate, interrupt_gate, trap_gate
<1>2. ControllersInv
  BY DEF StartupInit, ControllersInv, Controllers, Idle8259
<1>3. CpuInv
  BY DEF StartupInit, CpuInv
<1>4. SelectorsInv
  BY DEF StartupInit, SelectorsInv
<1> QED
  BY <1>1, <1>2, <1>3, <1>4 DEF BootInv

LEMMA Writing ==
  ASSUME NEW c \in Controllers, NEW value \in 0 .. 255
  PROVE  /\ Write8259(c, "command", 17) \in Controllers
         /\ Write8259(c, "data", value) \in Controllers
         /\ Write8259(c, "command", 17).icw = 2
         /\ c.icw = 2 => Write8259(c, "data", value).icw = 3
         /\ c.icw = 3 => Write8259(c, "data", value).icw = 4
         /\ c.icw \notin {2, 3} => Write8259(c, "data", value).icw = 0
         /\ c.icw = 0 => Write8259(c, "data", value).mask = value
  BY DEF Write8259, Controllers

LEMMA ByteSent ==
  ASSUME ControllersInv, step = 7, step' = 7, io \in 1 .. 10, io' = io + 1,
         pic' = [pic EXCEPT ![outb[io][1]] = Write8259(@, outb[io][2], outb[io][3])]
  PROVE  ControllersInv'
<1> DEFINE m == pic.master
           s == pic.slave
<1>0. m \in Controllers /\ s \in Controllers
  BY DEF ControllersInv
<1>1. CASE io = 1
  <2>1. pic' = [pic EXCEPT !["master"] = Write8259(m, "command", 17)]
    BY <1>1 DEF outb
  <2>2. pic'.slave = s /\ pic'.master = Write8259(m, "command", 17)
    BY <2>1 DEF ControllersInv
  <2>3. m.icw = 0 /\ s.icw = 0
    BY <1>1 DEF ControllersInv
  <2>4. Write8259(m, "command", 17) \in Controllers /\ Write8259(m, "command", 17).icw = 2
    BY <1>0, <2>3, Writing, SMTT(30)
  <2>5. pic' \in [master : Controllers, slave : Controllers]
    BY <1>0, <2>1, <2>4 DEF ControllersInv
  <2> QED
    BY <1>1, <2>2, <2>3, <2>4, <2>5 DEF ControllersInv
<1>2. CASE io = 2
  <2>1. pic' = [pic EXCEPT !["slave"] = Write8259(s, "command", 17)]
    BY <1>2 DEF outb
  <2>2. pic'.master = m /\ pic'.slave = Write8259(s, "command", 17)
    BY <2>1 DEF ControllersInv
  <2>3. m.icw = 2 /\ s.icw = 0
    BY <1>2 DEF ControllersInv
  <2>4. Write8259(s, "command", 17) \in Controllers /\ Write8259(s, "command", 17).icw = 2
    BY <1>0, <2>3, Writing, SMTT(30)
  <2>5. pic' \in [master : Controllers, slave : Controllers]
    BY <1>0, <2>1, <2>4 DEF ControllersInv
  <2> QED
    BY <1>2, <2>2, <2>3, <2>4, <2>5 DEF ControllersInv
<1>3. CASE io = 3
  <2>1. pic' = [pic EXCEPT !["master"] = Write8259(m, "data", 32)]
    BY <1>3 DEF outb
  <2>2. pic'.slave = s /\ pic'.master = Write8259(m, "data", 32)
    BY <2>1 DEF ControllersInv
  <2>3. m.icw = 2 /\ s.icw = 2
    BY <1>3 DEF ControllersInv
  <2>4. Write8259(m, "data", 32) \in Controllers /\ Write8259(m, "data", 32).icw = 3
    BY <1>0, <2>3, Writing, SMTT(30)
  <2>5. pic' \in [master : Controllers, slave : Controllers]
    BY <1>0, <2>1, <2>4 DEF ControllersInv
  <2> QED
    BY <1>3, <2>2, <2>3, <2>4, <2>5 DEF ControllersInv
<1>4. CASE io = 4
  <2>1. pic' = [pic EXCEPT !["slave"] = Write8259(s, "data", 40)]
    BY <1>4 DEF outb
  <2>2. pic'.master = m /\ pic'.slave = Write8259(s, "data", 40)
    BY <2>1 DEF ControllersInv
  <2>3. m.icw = 3 /\ s.icw = 2
    BY <1>4 DEF ControllersInv
  <2>4. Write8259(s, "data", 40) \in Controllers /\ Write8259(s, "data", 40).icw = 3
    BY <1>0, <2>3, Writing, SMTT(30)
  <2>5. pic' \in [master : Controllers, slave : Controllers]
    BY <1>0, <2>1, <2>4 DEF ControllersInv
  <2> QED
    BY <1>4, <2>2, <2>3, <2>4, <2>5 DEF ControllersInv
<1>5. CASE io = 5
  <2>1. pic' = [pic EXCEPT !["master"] = Write8259(m, "data", 4)]
    BY <1>5 DEF outb
  <2>2. pic'.slave = s /\ pic'.master = Write8259(m, "data", 4)
    BY <2>1 DEF ControllersInv
  <2>3. m.icw = 3 /\ s.icw = 3
    BY <1>5 DEF ControllersInv
  <2>4. Write8259(m, "data", 4) \in Controllers /\ Write8259(m, "data", 4).icw = 4
    BY <1>0, <2>3, Writing, SMTT(30)
  <2>5. pic' \in [master : Controllers, slave : Controllers]
    BY <1>0, <2>1, <2>4 DEF ControllersInv
  <2> QED
    BY <1>5, <2>2, <2>3, <2>4, <2>5 DEF ControllersInv
<1>6. CASE io = 6
  <2>1. pic' = [pic EXCEPT !["slave"] = Write8259(s, "data", 2)]
    BY <1>6 DEF outb
  <2>2. pic'.master = m /\ pic'.slave = Write8259(s, "data", 2)
    BY <2>1 DEF ControllersInv
  <2>3. m.icw = 4 /\ s.icw = 3
    BY <1>6 DEF ControllersInv
  <2>4. Write8259(s, "data", 2) \in Controllers /\ Write8259(s, "data", 2).icw = 4
    BY <1>0, <2>3, Writing, SMTT(30)
  <2>5. pic' \in [master : Controllers, slave : Controllers]
    BY <1>0, <2>1, <2>4 DEF ControllersInv
  <2> QED
    BY <1>6, <2>2, <2>3, <2>4, <2>5 DEF ControllersInv
<1>7. CASE io = 7
  <2>1. pic' = [pic EXCEPT !["master"] = Write8259(m, "data", 1)]
    BY <1>7 DEF outb
  <2>2. pic'.slave = s /\ pic'.master = Write8259(m, "data", 1)
    BY <2>1 DEF ControllersInv
  <2>3. m.icw = 4 /\ s.icw = 4
    BY <1>7 DEF ControllersInv
  <2>4. Write8259(m, "data", 1) \in Controllers /\ Write8259(m, "data", 1).icw = 0
    BY <1>0, <2>3, Writing, SMTT(30)
  <2>5. pic' \in [master : Controllers, slave : Controllers]
    BY <1>0, <2>1, <2>4 DEF ControllersInv
  <2> QED
    BY <1>7, <2>2, <2>3, <2>4, <2>5 DEF ControllersInv
<1>8. CASE io = 8
  <2>1. pic' = [pic EXCEPT !["slave"] = Write8259(s, "data", 1)]
    BY <1>8 DEF outb
  <2>2. pic'.master = m /\ pic'.slave = Write8259(s, "data", 1)
    BY <2>1 DEF ControllersInv
  <2>3. m.icw = 0 /\ s.icw = 4
    BY <1>8 DEF ControllersInv
  <2>4. Write8259(s, "data", 1) \in Controllers /\ Write8259(s, "data", 1).icw = 0
    BY <1>0, <2>3, Writing, SMTT(30)
  <2>5. pic' \in [master : Controllers, slave : Controllers]
    BY <1>0, <2>1, <2>4 DEF ControllersInv
  <2> QED
    BY <1>8, <2>2, <2>3, <2>4, <2>5 DEF ControllersInv
<1>9. CASE io = 9
  <2>1. pic' = [pic EXCEPT !["master"] = Write8259(m, "data", 255)]
    BY <1>9 DEF outb
  <2>2. pic'.slave = s /\ pic'.master = Write8259(m, "data", 255)
    BY <2>1 DEF ControllersInv
  <2>3. m.icw = 0 /\ s.icw = 0
    BY <1>9 DEF ControllersInv
  <2>4. Write8259(m, "data", 255) \in Controllers /\ Write8259(m, "data", 255).icw = 0 /\ Write8259(m, "data", 255).mask = 255
    BY <1>0, <2>3, Writing, SMTT(30)
  <2>5. pic' \in [master : Controllers, slave : Controllers]
    BY <1>0, <2>1, <2>4 DEF ControllersInv
  <2> QED
    BY <1>9, <2>2, <2>3, <2>4, <2>5 DEF ControllersInv
<1>10. CASE io = 10
  <2>1. pic' = [pic EXCEPT !["slave"] = Write8259(s, "data", 255)]
    BY <1>10 DEF outb
  <2>2. pic'.master = m /\ pic'.slave = Write8259(s, "data", 255)
    BY <2>1 DEF ControllersInv
  <2>3. m.icw = 0 /\ s.icw = 0 /\ m.mask = 255
    BY <1>10 DEF ControllersInv
  <2>4. Write8259(s, "data", 255) \in Controllers /\ Write8259(s, "data", 255).icw = 0 /\ Write8259(s, "data", 255).mask = 255
    BY <1>0, <2>3, Writing, SMTT(30)
  <2>5. pic' \in [master : Controllers, slave : Controllers]
    BY <1>0, <2>1, <2>4 DEF ControllersInv
  <2> QED
    BY <1>10, <2>2, <2>3, <2>4, <2>5 DEF ControllersInv
<1> QED
  BY <1>1, <1>2, <1>3, <1>4, <1>5, <1>6, <1>7, <1>8, <1>9, <1>10

LEMMA LoadingGates ==
  ASSUME NEW table \in [Vectors -> GateTypes], NEW vectors, NEW type \in GateTypes
  PROVE  /\ load_interrupt_fn(table, vectors, type) \in [Vectors -> GateTypes]
         /\ \A v \in Vectors : load_interrupt_fn(table, vectors, type)[v]
                                = IF v \in vectors THEN type ELSE table[v]
  BY DEF load_interrupt_fn

LEMMA GateNumbers ==
  /\ NoGate # trap_gate /\ interrupt_gate # trap_gate /\ interrupt_gate # NoGate
  /\ interrupt_gate \in GateTypes /\ trap_gate \in GateTypes
  /\ ExceptionGates \subseteq Vectors \ {201} /\ InterruptGates \subseteq Vectors \ {201}
  BY DEF NoGate, trap_gate, interrupt_gate, GateTypes, ExceptionGates, InterruptGates, Vectors

LEMMA SetUpKeepsInv ==
  ASSUME BootInv, SetUpProcessor
  PROVE  BootInv'
<1> USE DEF BootInv
<1> step \in 1 .. 12
  BY DEF TablesInv
<1>1. CASE init_gdt
  <2>1. step = 1
    BY <1>1, Order DEF init_gdt
  <2>2. TablesInv'
    BY <1>1, <2>1 DEF init_gdt, Return, TablesInv
  <2>3. ControllersInv'
    BY <1>1, <2>1 DEF init_gdt, Return, ControllersInv
  <2>4. CpuInv'
    BY <1>1, <2>1 DEF init_gdt, Return, CpuInv
  <2>5. SelectorsInv'
    BY <1>1, <2>1 DEF init_gdt, Return, Call, SelectorsInv, selectors
  <2> QED
    BY <2>2, <2>3, <2>4, <2>5
<1>2. CASE init_tss
  <2>1. step = 2
    BY <1>2, Order DEF init_tss
  <2>2. TablesInv'
    BY <1>2, <2>1 DEF init_tss, Return, TablesInv
  <2>3. ControllersInv'
    BY <1>2, <2>1 DEF init_tss, Return, ControllersInv
  <2>4. CpuInv'
    BY <1>2, <2>1 DEF init_tss, Return, CpuInv
  <2>5. SelectorsInv'
    BY <1>2, <2>1 DEF init_tss, Return, Call, SelectorsInv, selectors
  <2> QED
    BY <2>2, <2>3, <2>4, <2>5
<1>3. CASE load_gdt
  <2>1. step = 3
    BY <1>3, Order DEF load_gdt
  <2>2. TablesInv'
    BY <1>3, <2>1 DEF load_gdt, Return, TablesInv
  <2>3. ControllersInv'
    BY <1>3, <2>1 DEF load_gdt, Return, ControllersInv
  <2>4. CpuInv'
    BY <1>3, <2>1 DEF load_gdt, Return, CpuInv
  <2>5. SelectorsInv'
    BY <1>3, <2>1 DEF load_gdt, Return, Call, SelectorsInv, selectors
  <2> QED
    BY <2>2, <2>3, <2>4, <2>5
<1>4. CASE load_tss
  <2>1. step = 4
    BY <1>4, Order DEF load_tss
  <2>2. TablesInv'
    BY <1>4, <2>1 DEF load_tss, Return, TablesInv
  <2>3. ControllersInv'
    BY <1>4, <2>1 DEF load_tss, Return, ControllersInv
  <2>4. CpuInv'
    BY <1>4, <2>1 DEF load_tss, Return, CpuInv
  <2>5. SelectorsInv'
    BY <1>4, <2>1 DEF load_tss, Return, Call, SelectorsInv, selectors
  <2> QED
    BY <2>2, <2>3, <2>4, <2>5
<1>5. CASE load_exceptions
  <2>1. step = 5
    BY <1>5, Order DEF load_exceptions
  <2>2. TablesInv'
    <3>1. idt' = load_interrupt_fn(idt, ExceptionGates, interrupt_gate)
      BY <1>5 DEF load_exceptions
    <3>2. /\ idt' \in [Vectors -> GateTypes]
          /\ \A v \in Vectors : idt'[v] = IF v \in ExceptionGates THEN interrupt_gate ELSE idt[v]
      BY <3>1, LoadingGates, GateNumbers DEF TablesInv
    <3> QED
      BY <1>5, <2>1, <3>2, GateNumbers DEF load_exceptions, Return, TablesInv
  <2>3. ControllersInv'
    BY <1>5, <2>1 DEF load_exceptions, Return, ControllersInv
  <2>4. CpuInv'
    BY <1>5, <2>1 DEF load_exceptions, Return, CpuInv
  <2>5. SelectorsInv'
    BY <1>5, <2>1 DEF load_exceptions, Return, Call, SelectorsInv, selectors
  <2> QED
    BY <2>2, <2>3, <2>4, <2>5
<1>6. CASE load_interrupts
  <2>1. step = 6
    BY <1>6, Order DEF load_interrupts
  <2>2. TablesInv'
    <3>1. idt' = load_interrupt_fn(idt, InterruptGates, interrupt_gate)
      BY <1>6 DEF load_interrupts
    <3>2. /\ idt' \in [Vectors -> GateTypes]
          /\ \A v \in Vectors : idt'[v] = IF v \in InterruptGates THEN interrupt_gate ELSE idt[v]
      BY <3>1, LoadingGates, GateNumbers DEF TablesInv
    <3> QED
      BY <1>6, <2>1, <3>2, GateNumbers DEF load_interrupts, Return, TablesInv
  <2>3. ControllersInv'
    BY <1>6, <2>1 DEF load_interrupts, Return, ControllersInv
  <2>4. CpuInv'
    BY <1>6, <2>1 DEF load_interrupts, Return, CpuInv
  <2>5. SelectorsInv'
    BY <1>6, <2>1 DEF load_interrupts, Return, Call, SelectorsInv, selectors
  <2> QED
    BY <2>2, <2>3, <2>4, <2>5
<1>7. CASE init_scheduler
  <2>1. step = 8
    BY <1>7, Order DEF init_scheduler
  <2>2. TablesInv'
    <3>1. idt' = load_interrupt_fn(idt, {201}, trap_gate)
      BY <1>7 DEF init_scheduler
    <3>2. /\ idt' \in [Vectors -> GateTypes]
          /\ \A v \in Vectors : idt'[v] = IF v \in {201} THEN trap_gate ELSE idt[v]
      BY <3>1, LoadingGates, GateNumbers DEF TablesInv
    <3> QED
      BY <1>7, <2>1, <3>2, GateNumbers DEF init_scheduler, Return, TablesInv
  <2>3. ControllersInv'
    BY <1>7, <2>1 DEF init_scheduler, Return, ControllersInv
  <2>4. CpuInv'
    BY <1>7, <2>1 DEF init_scheduler, Return, CpuInv
  <2>5. SelectorsInv'
    BY <1>7, <2>1 DEF init_scheduler, Return, Call, SelectorsInv, selectors
  <2> QED
    BY <2>2, <2>3, <2>4, <2>5
<1>8. CASE setup_syscall
  <2>1. step = 9
    BY <1>8, Order DEF setup_syscall
  <2>2. TablesInv'
    BY <1>8, <2>1, OffsetOfCS32U, OffsetOfCS64 DEF setup_syscall, Return, TablesInv
  <2>3. ControllersInv'
    BY <1>8, <2>1 DEF setup_syscall, Return, ControllersInv
  <2>4. CpuInv'
    BY <1>8, <2>1 DEF setup_syscall, Return, CpuInv
  <2>5. SelectorsInv'
    BY <1>8, <2>1 DEF setup_syscall, Return, Call, SelectorsInv, selectors
  <2> QED
    BY <2>2, <2>3, <2>4, <2>5
<1>9. CASE enable_interrupts
  <2>1. step = 7
    BY <1>9, Order DEF enable_interrupts
  <2>2. CASE io <= Len(outb)
    <3>1. io \in 1 .. 10 /\ io' = io + 1
      BY <1>9, <2>2 DEF enable_interrupts, ControllersInv, outb
    <3>2. pic' = [pic EXCEPT ![outb[io][1]] = Write8259(@, outb[io][2], outb[io][3])]
      BY <1>9, <2>2 DEF enable_interrupts
    <3>3. TablesInv'
      BY <1>9, <2>1, <2>2 DEF enable_interrupts, TablesInv
    <3>4. ControllersInv'
      <4>1. step' = 7
        BY <1>9, <2>1, <2>2 DEF enable_interrupts
      <4> QED
        BY <2>1, <3>1, <3>2, <4>1, ByteSent
    <3>5. CpuInv'
      BY <1>9, <2>1, <2>2 DEF enable_interrupts, CpuInv
    <3>6. SelectorsInv'
      BY <1>9, <2>1, <2>2 DEF enable_interrupts, Call, SelectorsInv, selectors
    <3> QED
      BY <3>3, <3>4, <3>5, <3>6
  <2>3. CASE ~(io <= Len(outb))
    <3>1. io = 11
      BY <2>3 DEF ControllersInv, outb
    <3>2. TablesInv'
      BY <1>9, <2>1, <2>3 DEF enable_interrupts, Return, TablesInv
    <3>3. ControllersInv'
      BY <1>9, <2>1, <2>3, <3>1 DEF enable_interrupts, Return, ControllersInv
    <3>4. CpuInv'
      BY <1>9, <2>1, <2>3 DEF enable_interrupts, Return, Call, CpuInv
    <3>5. SelectorsInv'
      BY <1>9, <2>1, <2>3 DEF enable_interrupts, Return, Call, SelectorsInv, selectors
    <3> QED
      BY <3>2, <3>3, <3>4, <3>5
  <2> QED
    BY <2>2, <2>3
<1> QED
  BY <1>1, <1>2, <1>3, <1>4, <1>5, <1>6, <1>7, <1>8, <1>9 DEF SetUpProcessor

LEMMA NullDoesNotFit ==
  ASSUME gdtr, gdt = InitialisedGDT, NEW c
  PROVE  ~IretFits(0, c)
<1>1. Descriptor(0) = NoSegment
  BY Descriptors, Zenon
<1>2. NoSegment.present = FALSE
  BY DEF NoSegment
<1> QED
  BY <1>1, <1>2, Zenon DEF IretFits

(* int $201, by idle or by the process.                                    *)
LEMMA RescheduleKeepsInv ==
  ASSUME BootInv, NEW next \in {"idle", "process"}, Reschedule(next),
         step > 9, step' = 12
  PROVE  BootInv'
<1> USE DEF BootInv
<1>1. TablesInv'
  BY DEF Reschedule, TablesInv
<1>2. ControllersInv'
  BY DEF Reschedule, TablesInv, ControllersInv
<1>3. /\ saved' = [saved EXCEPT ![current] = [cs |-> cs, ss |-> ss]]
      /\ saved' = [t \in {"idle", "process"} |-> saved'[t]]
      /\ saved'["process"] \in {[cs |-> 0, ss |-> 0], KernelSelectors, UserSelectors}
  BY DEF Reschedule, SelectorsInv
<1>4. CASE Entered(201) = {201} /\ IretFits(saved'[next].cs, saved'[next].ss)
  <2>1. /\ current' = next /\ cs' = saved'[next].cs /\ ss' = saved'[next].ss
        /\ interrupts' = interrupts /\ cpu' = cpu /\ raised' = raised
    BY <1>4 DEF Reschedule
  <2>2. CpuInv'
    BY <2>1 DEF CpuInv, TablesInv
  <2>3. next = "process" => saved'["process"].cs # 0
    <3>1. gdtr /\ gdt = InitialisedGDT
      BY DEF TablesInv
    <3> QED
      BY <1>4, <3>1, NullDoesNotFit
  <2>4. next = "process" => [cs |-> cs', ss |-> ss'] \in {KernelSelectors, UserSelectors}
    BY <1>3, <2>1, <2>3 DEF KernelSelectors, UserSelectors
  <2>5. SelectorsInv'
    BY <1>3, <2>1, <2>4 DEF SelectorsInv
  <2> QED
    BY <1>1, <1>2, <2>2, <2>5
<1>5. CASE ~(Entered(201) = {201} /\ IretFits(saved'[next].cs, saved'[next].ss))
  <2>1. Stops(13) /\ current' = current /\ cs' = cs /\ ss' = ss /\ raised' = raised
    BY <1>5 DEF Reschedule
  <2>2. cpu' = "halted" /\ interrupts' \in BOOLEAN /\ ~interrupts'
    <3>1. 13 \in Vectors \ {201} /\ step > 7
      BY DEF Vectors, TablesInv
    <3>2. Stops(13)
      BY <2>1
    <3> QED
      BY <3>1, <3>2, StopsInHandler, Zenon
  <2>3. CpuInv'
    BY <2>1, <2>2 DEF CpuInv
  <2>4. SelectorsInv'
    BY <1>3, <2>1 DEF SelectorsInv
  <2> QED
    BY <1>1, <1>2, <2>3, <2>4
<1> QED
  BY <1>4, <1>5

LEMMA RunKeepsInv ==
  ASSUME BootInv, RunTasks
  PROVE  BootInv'
<1> USE DEF BootInv
<1> step \in 1 .. 12
  BY DEF TablesInv
<1>1. CASE idle_loop
  <2>1. step = 11 /\ step' = 12
    BY <1>1, Order DEF idle_loop
  <2> QED
    BY <1>1, <2>1, RescheduleKeepsInv DEF idle_loop
<1>2. CASE ProcessYields
  <2>1. step = 12 /\ step' = 12
    BY <1>2 DEF ProcessYields, SelectorsInv
  <2> QED
    BY <1>2, <2>1, RescheduleKeepsInv DEF ProcessYields
<1>3. CASE Syscall
  <2>1. step = 12 /\ lstar /\ star = [user |-> 24, kernel |-> 8]
    BY <1>3 DEF Syscall, SelectorsInv, TablesInv
  <2>2. TablesInv'
    BY <1>3 DEF Syscall, TablesInv, setup
  <2>3. ControllersInv'
    BY <1>3 DEF Syscall, ControllersInv, setup
  <2>4. CpuInv'
    BY <1>3, <2>1 DEF Syscall, CpuInv, setup
  <2>5. SelectorsInv'
    BY <1>3, <2>1 DEF Syscall, SelectorsInv, KernelSelectors
  <2> QED
    BY <2>2, <2>3, <2>4, <2>5
<1>4. CASE Sysret
  <2>1. step = 12 /\ star = [user |-> 24, kernel |-> 8]
    BY <1>4 DEF Sysret, SelectorsInv, TablesInv
  <2>2. TablesInv'
    BY <1>4 DEF Sysret, TablesInv, setup
  <2>3. ControllersInv'
    BY <1>4 DEF Sysret, ControllersInv, setup
  <2>4. CpuInv'
    BY <1>4 DEF Sysret, CpuInv, setup
  <2>5. SelectorsInv'
    BY <1>4, <2>1 DEF Sysret, SelectorsInv, UserSelectors
  <2> QED
    BY <2>2, <2>3, <2>4, <2>5
<1> QED
  BY <1>1, <1>2, <1>3, <1>4 DEF RunTasks

(* The loop over the modules, as far as it touches the processor.          *)
LEMMA LoadKeepsInv ==
  ASSUME BootInv, MakeProcess \/ ProcessesMade \/ Panic
  PROVE  BootInv'
<1> USE DEF BootInv
<1> step \in 1 .. 12
  BY DEF TablesInv
<1>1. CASE MakeProcess
  <2>1. saved' = [saved EXCEPT !["process"] = UserSelectors]
    <3>1. Offset("CS64U") + 3 = 43 /\ Offset("DSU") + 3 = 35
      BY OffsetOfCS64U, OffsetOfDSU
    <3> QED
      BY <1>1, <3>1 DEF MakeProcess, UserSelectors
  <2>2. TablesInv'
    BY <1>1 DEF MakeProcess, TablesInv, setup
  <2>3. ControllersInv'
    BY <1>1 DEF MakeProcess, ControllersInv, setup
  <2>4. CpuInv'
    BY <1>1 DEF MakeProcess, CpuInv, setup
  <2>5. SelectorsInv'
    BY <1>1, <2>1 DEF MakeProcess, SelectorsInv
  <2> QED
    BY <2>2, <2>3, <2>4, <2>5
<1>2. CASE ProcessesMade
  <2>1. step = 10
    BY <1>2, Order DEF ProcessesMade
  <2>2. TablesInv'
    BY <1>2, <2>1 DEF ProcessesMade, Return, TablesInv, setup
  <2>3. ControllersInv'
    BY <1>2, <2>1 DEF ProcessesMade, Return, ControllersInv, setup
  <2>4. CpuInv'
    BY <1>2, <2>1 DEF ProcessesMade, Return, CpuInv, setup
  <2>5. SelectorsInv'
    BY <1>2, <2>1 DEF ProcessesMade, Return, Call, SelectorsInv, selectors
  <2> QED
    BY <2>2, <2>3, <2>4, <2>5
<1>3. CASE Panic
  <2>1. step = 10
    BY <1>3, Order DEF Panic
  <2>2. cpu' = "halted" /\ interrupts' \in BOOLEAN /\ ~interrupts'
    <3>1. 200 \in Vectors \ {201} /\ step > 7
      BY <2>1 DEF Vectors
    <3>2. Stops(200)
      BY <1>3 DEF Panic
    <3>3. TablesInv /\ CpuInv
      OBVIOUS
    <3> HIDE DEF BootInv
    <3> QED
      BY <3>1, <3>2, <3>3, StopsInHandler
  <2>3. TablesInv'
    BY <1>3 DEF Panic, TablesInv
  <2>4. ControllersInv'
    BY <1>3 DEF Panic, ControllersInv
  <2>5. CpuInv'
    BY <1>3, <2>1, <2>2 DEF Panic, CpuInv
  <2>6. SelectorsInv'
    BY <1>3 DEF Panic, SelectorsInv, selectors
  <2> QED
    BY <2>3, <2>4, <2>5, <2>6
<1> QED
  BY <1>1, <1>2, <1>3

LEMMA DisturbKeepsInv ==
  ASSUME BootInv, Disturb
  PROVE  BootInv'
<1> USE DEF BootInv
<1> step \in 1 .. 12
  BY DEF TablesInv
<1>1. CASE \E v \in FaultVectors : Fault(v)
  <2>1. PICK v \in FaultVectors : Fault(v)
    BY <1>1
  <2>2. v \in Vectors \ {201}
    BY FaultVectorsAssumption DEF Vectors
  <2>3. TablesInv'
    BY <2>1 DEF Fault, TablesInv
  <2>4. ControllersInv'
    BY <2>1 DEF Fault, ControllersInv
  <2>5. SelectorsInv'
    BY <2>1 DEF Fault, SelectorsInv, selectors
  <2>6. CASE step > 7
    <3>1. cpu' = "halted" /\ interrupts' \in BOOLEAN /\ ~interrupts'
      BY <2>1, <2>2, <2>6, StopsInHandler DEF Fault
    <3>2. CpuInv'
      BY <2>1, <2>6, <3>1 DEF Fault, CpuInv
    <3> QED
      BY <2>3, <2>4, <2>5, <3>2
  <2>7. CASE step <= 7
    <3>1. cpu' = "reset" /\ interrupts' = interrupts
      BY <2>1, <2>7, ResetsBeforeLidt DEF Fault
    <3>2. CpuInv'
      BY <2>1, <2>7, <3>1 DEF Fault, CpuInv
    <3> QED
      BY <2>3, <2>4, <2>5, <3>2
  <2> QED
    BY <2>6, <2>7
<1>2. CASE \E n \in Lines : Raise(n)
  <2>1. PICK n \in Lines : Raise(n)
    BY <1>2
  <2>2. TablesInv'
    BY <2>1 DEF Raise, TablesInv, setup
  <2>3. ControllersInv'
    BY <2>1 DEF Raise, ControllersInv, setup
  <2>4. CpuInv'
    BY <2>1 DEF Raise, CpuInv, setup
  <2>5. SelectorsInv'
    BY <2>1 DEF Raise, SelectorsInv, selectors
  <2> QED
    BY <2>2, <2>3, <2>4, <2>5
<1> QED
  BY <1>1, <1>2 DEF Disturb

LEMMA StutterKeepsInv ==
  ASSUME BootInv, UNCHANGED startupVars
  PROVE  BootInv'
  BY DEF BootInv, TablesInv, ControllersInv, CpuInv, SelectorsInv, startupVars, setup, selectors

(***************************************************************************)
(* What each call of cstart has set up holds from then on (main.c).        *)
(***************************************************************************)
THEOREM BootKeepsInv == BootSpec => []BootInv
<1>1. BootInit => BootInv
  BY InitBootInv DEF BootInit
<1>2. BootInv /\ [BootNext]_bootVars => BootInv'
  <2> SUFFICES ASSUME BootInv, [BootNext]_bootVars PROVE BootInv'
    OBVIOUS
  <2>1. CASE Processor
    BY <2>1, SetUpKeepsInv, RunKeepsInv DEF Processor
  <2>2. CASE Load
    BY <2>2, LoadKeepsInv, StutterKeepsInv DEF Load, LoadStep, LoadPanics, LoadMakes, LoadEnds
  <2>3. CASE Environment
    BY <2>3, DisturbKeepsInv DEF Environment
  <2>4. CASE UNCHANGED bootVars
    BY <2>4, StutterKeepsInv DEF bootVars
  <2> QED
    BY <2>1, <2>2, <2>3, <2>4 DEF BootNext
<1> QED
  BY <1>1, <1>2, PTL DEF BootSpec

(***************************************************************************)
(* enable_interrupts (interrupts.c): whatever lines there are and whenever *)
(* devices raise them, none interrupts the processor.                      *)
(***************************************************************************)
THEOREM NothingInterrupts == BootSpec => []NoDeviceInterrupt
<1>1. BootInv => NoDeviceInterrupt
  <2> SUFFICES ASSUME BootInv, NEW n \in raised, interrupts PROVE ~Open(n)
    BY DEF NoDeviceInterrupt, Open
  <2>1. n \in (0 .. 15) \ {2}
    BY LinesAssumption DEF BootInv, CpuInv
  <2>2. pic.master.mask = 255 /\ pic.slave.mask = 255
    BY DEF BootInv, CpuInv, ControllersInv, TablesInv
  <2>3. \A k \in 0 .. 7 : (255 \div Bit[k + 1]) % 2 = 1
    BY DEF Bit
  <2>4. CASE n < 8
    BY <2>1, <2>2, <2>3, <2>4 DEF Open, Masked
  <2>5. CASE ~(n < 8)
    <3>1. n - 8 \in 0 .. 7
      BY <2>1, <2>5
    <3> QED
      BY <2>2, <2>3, <2>5, <3>1 DEF Open, Masked
  <2> QED
    BY <2>4, <2>5
<1> QED
  BY <1>1, BootKeepsInv, PTL

(***************************************************************************)
(* exceptions.c, interrupts.c: after lidt every fault and every panic ends *)
(* in a handler, with interrupts off for good.                             *)
(***************************************************************************)
THEOREM FaultsStop == BootSpec => []FaultsStopForGood
<1>1. BootInv => FaultsStopForGood
  BY DEF BootInv, TablesInv, CpuInv, FaultsStopForGood
<1> QED
  BY <1>1, BootKeepsInv, PTL

(***************************************************************************)
(* init_gdt, make_task, asm_reschedule, setup_syscall: whatever the boot   *)
(* modules and whichever task the scheduler takes, a process runs with the *)
(* code and stack segment of the kernel or with those of a user.           *)
(***************************************************************************)
THEOREM PrivilegeFits == BootSpec => []SegmentsFit
<1>1. BootInv => SegmentsFit
  <2> SUFFICES ASSUME BootInv, current = "process" PROVE SegmentsFit
    BY DEF SegmentsFit
  <2>1. gdtr /\ gdt = InitialisedGDT
    BY DEF BootInv, TablesInv, SelectorsInv
  <2>2. /\ Descriptor(8) = Segment(TRUE, 0) /\ Descriptor(16) = Segment(FALSE, 0)
        /\ Descriptor(43) = Segment(TRUE, 3) /\ Descriptor(35) = Segment(FALSE, 3)
    BY <2>1, Descriptors, Zenon
  <2>3. \A d \in {0, 3} :
          /\ Segment(TRUE, d).present /\ Segment(TRUE, d).code
          /\ Segment(TRUE, d).long_mode /\ Segment(TRUE, d).dpl = d
          /\ Segment(FALSE, d).present /\ ~Segment(FALSE, d).code /\ Segment(FALSE, d).dpl = d
    BY DEF Segment
  <2>4. 8 % 8 = 0 /\ 43 % 8 = 3
    OBVIOUS
  <2>5. IretFits(8, 16)
    <3> HIDE DEF Descriptor
    <3> QED
      BY <2>2, <2>3, <2>4 DEF IretFits
  <2>6. IretFits(43, 35)
    BY <2>2, <2>3, <2>4 DEF IretFits
  <2>7. (cs = 8 /\ ss = 16) \/ (cs = 43 /\ ss = 35)
    BY DEF BootInv, SelectorsInv, KernelSelectors, UserSelectors
  <2>8. /\ Offset("CS64") = 8 /\ Offset("DS") = 16
        /\ Offset("CS64U") + 3 = 43 /\ Offset("DSU") + 3 = 35
    BY OffsetOfCS64, OffsetOfDS, OffsetOfCS64U, OffsetOfDSU
  <2> QED
    BY <2>5, <2>6, <2>7, <2>8 DEF SegmentsFit
<1> QED
  BY <1>1, BootKeepsInv, PTL

----------------------------------------------------------------------------
(* What the invariant leaves open before the calls that set it up.         *)
DescriptorType == [code : BOOLEAN, dpl : {0, 3}, long_mode : BOOLEAN, present : BOOLEAN]

RegistersInv ==
  /\ gdt \in [1 .. 7 -> DescriptorType]
  /\ gdtr \in BOOLEAN /\ ist1 \in BOOLEAN /\ tr \in BOOLEAN /\ lstar \in BOOLEAN /\ idtr \in BOOLEAN
  /\ star \in [user : 0 .. 63, kernel : 0 .. 63]
  /\ [cs |-> cs, ss |-> ss] \in Selectors
  /\ saved \in [{"idle", "process"} -> Selectors]

LEMMA SelectorsAre ==
  Selectors = {[cs |-> 0, ss |-> 0], [cs |-> 16, ss |-> 0], KernelSelectors, UserSelectors}
  BY OffsetOfCS64, OffsetOfDS, OffsetOfCS64U, OffsetOfDSU
  DEF Selectors, KernelSelectors, UserSelectors

LEMMA DescriptorTypes ==
  /\ DOMAIN Layout = 1 .. 7
  /\ NoSegment \in DescriptorType
  /\ InitialisedGDT \in [1 .. 7 -> DescriptorType]
<1>1. DOMAIN Layout = 1 .. 7 /\ \A n \in 1 .. 7 : Layout[n] \in DOMAIN Attributes
  BY DEF Layout, Attributes
<1>2. /\ NoSegment \in DescriptorType
      /\ \A code \in BOOLEAN, dpl \in {0, 3} : Segment(code, dpl) \in DescriptorType
  BY DEF NoSegment, Segment, DescriptorType
<1>3. [Segment(TRUE, 0) EXCEPT !.long_mode = FALSE] \in DescriptorType
  BY DEF Segment, DescriptorType
<1>4. \A name \in DOMAIN Attributes : Attributes[name] \in DescriptorType
  <2>1. DOMAIN Attributes = {"zero", "CS64", "DS", "CS32U", "DSU", "CS64U", "tss"}
    BY DEF Attributes
  <2>2. /\ Attributes["zero"] = NoSegment /\ Attributes["tss"] = NoSegment
        /\ Attributes["CS64"] = Segment(TRUE, 0) /\ Attributes["CS64U"] = Segment(TRUE, 3)
        /\ Attributes["DS"] = Segment(FALSE, 0) /\ Attributes["DSU"] = Segment(FALSE, 3)
        /\ Attributes["CS32U"] = [Segment(TRUE, 0) EXCEPT !.long_mode = FALSE]
    BY DEF Attributes
  <2> QED
    BY <1>2, <1>3, <2>1, <2>2
<1> QED
  BY <1>1, <1>2, <1>4 DEF InitialisedGDT

LEMMA InitRegisters ==
  ASSUME StartupInit
  PROVE  RegistersInv
<1>1. gdt \in [1 .. 7 -> DescriptorType]
  BY DescriptorTypes DEF StartupInit
<1>2. [cs |-> cs, ss |-> ss] \in Selectors /\ saved \in [{"idle", "process"} -> Selectors]
  BY SelectorsAre DEF StartupInit
<1>3. star \in [user : 0 .. 63, kernel : 0 .. 63]
  BY DEF StartupInit
<1> QED
  BY <1>1, <1>2, <1>3 DEF StartupInit, RegistersInv

LEMMA SetUpKeepsRegisters ==
  ASSUME RegistersInv, SetUpProcessor
  PROVE  RegistersInv'
<1>1. \/ UNCHANGED selectors
      \/ cs' = 8 /\ ss' = 16 /\ saved' = saved
  BY OffsetOfCS64, OffsetOfDS
  DEF SetUpProcessor, init_gdt, init_tss, load_gdt, load_tss, load_exceptions, load_interrupts,
      enable_interrupts, init_scheduler, setup_syscall, selectors
<1>2. [cs |-> cs', ss |-> ss'] \in Selectors /\ saved' \in [{"idle", "process"} -> Selectors]
  BY <1>1, SelectorsAre DEF RegistersInv, selectors, KernelSelectors
<1>3. gdt' = gdt \/ gdt' = InitialisedGDT
  BY DEF SetUpProcessor, init_gdt, init_tss, load_gdt, load_tss, load_exceptions, load_interrupts,
         enable_interrupts, init_scheduler, setup_syscall
<1>4. gdt' \in [1 .. 7 -> DescriptorType]
  BY <1>3, DescriptorTypes DEF RegistersInv
<1>5. star' = star \/ star' = [user |-> 24, kernel |-> 8]
  BY OffsetOfCS32U, OffsetOfCS64
  DEF SetUpProcessor, init_gdt, init_tss, load_gdt, load_tss, load_exceptions, load_interrupts,
      enable_interrupts, init_scheduler, setup_syscall
<1>6. star' \in [user : 0 .. 63, kernel : 0 .. 63]
  BY <1>5 DEF RegistersInv
<1>7. gdtr' \in BOOLEAN /\ ist1' \in BOOLEAN
  BY Zenon
  DEF RegistersInv, SetUpProcessor, init_gdt, init_tss, load_gdt, load_tss, load_exceptions,
      load_interrupts, enable_interrupts, init_scheduler, setup_syscall
<1>8. tr' \in BOOLEAN /\ lstar' \in BOOLEAN
  BY Zenon
  DEF RegistersInv, SetUpProcessor, init_gdt, init_tss, load_gdt, load_tss, load_exceptions,
      load_interrupts, enable_interrupts, init_scheduler, setup_syscall
<1>9. idtr' \in BOOLEAN
  BY Zenon
  DEF RegistersInv, SetUpProcessor, init_gdt, init_tss, load_gdt, load_tss, load_exceptions,
      load_interrupts, enable_interrupts, init_scheduler, setup_syscall
<1> QED
  BY <1>2, <1>4, <1>6, <1>7, <1>8, <1>9, Zenon DEF RegistersInv

(* From the loop over the modules on, only selectors move.                 *)
LEMMA RunKeepsRegisters ==
  ASSUME BootInv, RegistersInv, RunTasks \/ MakeProcess \/ ProcessesMade \/ Panic \/ Disturb
  PROVE  RegistersInv'
<1>1. /\ gdt' = gdt /\ gdtr' = gdtr /\ ist1' = ist1 /\ tr' = tr /\ idtr' = idtr
      /\ star' = star /\ lstar' = lstar
  BY DEF RunTasks, idle_loop, ProcessYields, Syscall, Sysret, Reschedule, MakeProcess,
         ProcessesMade, Panic, Disturb, Fault, Raise, setup
<1>2. ASSUME NEW next \in {"idle", "process"}, Reschedule(next)
      PROVE  /\ [cs |-> cs', ss |-> ss'] \in Selectors
             /\ saved' \in [{"idle", "process"} -> Selectors]
  <2>1. saved' = [saved EXCEPT ![current] = [cs |-> cs, ss |-> ss]]
    BY <1>2 DEF Reschedule
  <2>2. saved' \in [{"idle", "process"} -> Selectors]
    BY <2>1 DEF RegistersInv
  <2>3. \/ cs' = cs /\ ss' = ss
        \/ cs' = saved'[next].cs /\ ss' = saved'[next].ss
    BY <1>2 DEF Reschedule
  <2>4. \A s \in Selectors : [cs |-> s.cs, ss |-> s.ss] = s
    BY SelectorsAre DEF KernelSelectors, UserSelectors
  <2>5. saved'[next] \in Selectors
    BY <2>2
  <2> QED
    BY <2>2, <2>3, <2>4, <2>5 DEF RegistersInv
<1>3. /\ [cs |-> cs', ss |-> ss'] \in Selectors
      /\ saved' \in [{"idle", "process"} -> Selectors]
  <2>1. CASE idle_loop \/ ProcessYields
    BY <1>2, <2>1 DEF idle_loop, ProcessYields
  <2>2. CASE Syscall \/ Sysret
    <3>1. star.kernel = 8 /\ star.user = 24
      BY <2>2 DEF BootInv, SelectorsInv, TablesInv, Syscall, Sysret
    <3>2. \/ cs' = 8 /\ ss' = 16
          \/ cs' = 43 /\ ss' = 35
      BY <2>2, <3>1 DEF Syscall, Sysret
    <3>3. saved' = saved
      BY <2>2 DEF Syscall, Sysret
    <3> QED
      BY <3>2, <3>3, SelectorsAre DEF RegistersInv, KernelSelectors, UserSelectors
  <2>3. CASE MakeProcess
    <3>1. [cs |-> Offset("CS64U") + 3, ss |-> Offset("DSU") + 3] = UserSelectors
      BY OffsetOfCS64U, OffsetOfDSU DEF UserSelectors
    <3>2. saved' = [saved EXCEPT !["process"] = UserSelectors] /\ cs' = cs /\ ss' = ss
      BY <2>3, <3>1, Zenon DEF MakeProcess
    <3> QED
      BY <3>2, SelectorsAre DEF RegistersInv
  <2>4. CASE ProcessesMade \/ Panic \/ Disturb
    BY <2>4 DEF RegistersInv, ProcessesMade, Panic, Disturb, Fault, Raise, selectors
  <2> QED
    BY <2>1, <2>2, <2>3, <2>4 DEF RunTasks
<1> QED
  BY <1>1, <1>3, Zenon DEF RegistersInv

LEMMA TheLoaderRuns ==
  ASSUME Load
  PROVE  (MakeProcess \/ ProcessesMade \/ Panic \/ UNCHANGED startupVars) /\ ProcessesNext
  BY DEF Load, LoadStep, LoadPanics, LoadMakes, LoadEnds

(* The processor's tables and registers keep to their types, before their  *)
(* call of cstart and while tasks are switched.                            *)
THEOREM BootKeepsRegisters == BootSpec => []RegistersInv
<1>1. BootInit => RegistersInv
  BY InitRegisters DEF BootInit
<1>2. BootInv /\ RegistersInv /\ [BootNext]_bootVars => RegistersInv'
  <2> SUFFICES ASSUME BootInv, RegistersInv, [BootNext]_bootVars PROVE RegistersInv'
    OBVIOUS
  <2>1. ASSUME UNCHANGED startupVars PROVE RegistersInv'
    BY <2>1 DEF RegistersInv, startupVars, setup, selectors
  <2>2. CASE Processor
    BY <2>2, SetUpKeepsRegisters, RunKeepsRegisters DEF Processor
  <2>3. CASE Load
    BY <2>1, <2>3, TheLoaderRuns, RunKeepsRegisters
  <2>4. CASE Environment
    BY <2>4, RunKeepsRegisters DEF Environment
  <2>5. CASE UNCHANGED bootVars
    BY <2>1, <2>5 DEF bootVars
  <2> QED
    BY <2>2, <2>3, <2>4, <2>5 DEF BootNext
<1> QED
  BY <1>1, <1>2, BootKeepsInv, PTL DEF BootSpec

(***************************************************************************)
(* The loader's invariant holds from its first frame until the tasks run,  *)
(* for any boot modules, memory and page size: the processor's steps, the  *)
(* faults and the devices leave its variables alone.                       *)
(***************************************************************************)
THEOREM BootKeepsLoaderInv == BootSpec => []LoaderInv
<1>1. BootInit => LoaderInv
  BY InitLoaderInv DEF BootInit
<1>2. LoaderInv /\ [BootNext]_bootVars => LoaderInv'
  <2> SUFFICES ASSUME LoaderInv, [BootNext]_bootVars PROVE LoaderInv'
    OBVIOUS
  <2>1. CASE Load
    BY <2>1, TheLoaderRuns, LoaderStepKeeps
  <2>2. CASE UNCHANGED loaderVars
    BY <2>2, LoaderWaits DEF loaderVars
  <2> QED
    BY <2>1, <2>2 DEF BootNext, Processor, Environment, bootVars
<1> QED
  BY <1>1, <1>2, PTL DEF BootSpec

(* Every variable of the boot keeps to its type.                           *)
THEOREM BootTypes == BootSpec => []BootTypeOK
<1>1. BootInv /\ RegistersInv => StartupTypeOK
  <2> SUFFICES ASSUME BootInv, RegistersInv PROVE StartupTypeOK
    OBVIOUS
  <2>1. step \in DOMAIN cstart /\ io \in 1 .. Len(outb) + 1
    BY DEF BootInv, TablesInv, ControllersInv, cstart, outb
  <2>2. gdt \in [DOMAIN Layout -> [code : BOOLEAN, dpl : {0, 3}, long_mode : BOOLEAN, present : BOOLEAN]]
    BY DescriptorTypes DEF RegistersInv, DescriptorType
  <2>3. {gdtr, ist1, tr, idtr, interrupts, lstar} \subseteq BOOLEAN
    BY Zenon DEF BootInv, CpuInv, RegistersInv
  <2>4. /\ idt \in [Vectors -> {NoGate, interrupt_gate, trap_gate}]
        /\ pic \in [master : Controllers, slave : Controllers]
        /\ raised \subseteq Lines /\ current \in {"idle", "process"}
        /\ cpu \in {"running", "halted", "reset", "wild"}
    BY DEF BootInv, TablesInv, ControllersInv, CpuInv, SelectorsInv, GateTypes
  <2>5. /\ star \in [user : 0 .. 63, kernel : 0 .. 63]
        /\ [cs |-> cs, ss |-> ss] \in Selectors
        /\ saved \in [{"idle", "process"} -> Selectors]
    BY Zenon DEF RegistersInv
  <2> QED
    BY <2>1, <2>2, <2>3, <2>4, <2>5, Zenon DEF StartupTypeOK
<1>2. LoaderInv => ProcessesTypeOK
  BY LoaderIsTyped
<1> QED
  BY <1>1, <1>2, BootKeepsInv, BootKeepsRegisters, BootKeepsLoaderInv, PTL DEF BootTypeOK

(***************************************************************************)
(* load_elf (elf.c): a scheduled task finds every byte of its segments,    *)
(* for any headers, any page size and any memory.                          *)
(***************************************************************************)
THEOREM ProgramsAreLoaded == BootSpec => []ProgramLoaded
<1>1. LoaderInv => ProgramLoaded
  BY LoaderLoads
<1> QED
  BY <1>1, BootKeepsLoaderInv, PTL

(***************************************************************************)
(* make_userspace_process (userspace.c): a scheduled task finds its whole  *)
(* command line on an aligned stack, for every length below a page.        *)
(***************************************************************************)
THEOREM ArgumentsAreThere == BootSpec => []CommandLineOnStack
<1>1. LoaderInv => CommandLineOnStack
  BY LoaderArgues
<1> QED
  BY <1>1, BootKeepsLoaderInv, PTL

(***************************************************************************)
(* However many processes are made of however many pages, a user page is   *)
(* no struct task, no table and no frame of another page, and what a       *)
(* process reads in its pages is of its own module, or zero.               *)
(***************************************************************************)
THEOREM ProcessesAreIsolated == BootSpec => []ProcessIsolation
<1>1. LoaderInv => ProcessIsolation
  BY LoaderIsolates
<1> QED
  BY <1>1, BootKeepsLoaderInv, PTL

(* At any time of the loop the tables are those of the paths gone so far,  *)
(* each once, and the other frames in use are as many as the pages, stacks *)
(* and tasks that have theirs; after a panic, more were needed than exist. *)
THEOREM BootKeepsAccounts == BootSpec => []AccountInv
<1>1. BootInit => AccountInv
  BY InitAccounts DEF BootInit
<1>2. LoaderInv /\ AccountInv /\ [BootNext]_bootVars => AccountInv'
  <2> SUFFICES ASSUME LoaderInv, AccountInv, [BootNext]_bootVars PROVE AccountInv'
    OBVIOUS
  <2>1. CASE Load
    BY <2>1, TheLoaderRuns, StepAccounts
  <2>2. CASE UNCHANGED loaderVars
    BY <2>2, WaitsAccount DEF loaderVars
  <2> QED
    BY <2>1, <2>2 DEF BootNext, Processor, Environment, bootVars
<1> QED
  BY <1>1, <1>2, BootKeepsLoaderInv, PTL DEF BootSpec

(***************************************************************************)
(* cstart panics only where the memory is too small for the modules: what  *)
(* each made process has cost is a frame for every page, one for the       *)
(* stack, one for the task and one for every table on a path to a page,    *)
(* for any modules and however their segments and tables overlap.          *)
(***************************************************************************)
THEOREM NoFrameIsLost == BootSpec => []FramesAccounted
<1>1. LoaderInv /\ AccountInv => FramesAccounted
  BY AllAccounted
<1> QED
  BY <1>1, BootKeepsLoaderInv, BootKeepsAccounts, PTL
=============================================================================
