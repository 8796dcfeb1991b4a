--------------------------- MODULE ProcessesProofs ---------------------------
(***************************************************************************)
(* The processes that the loop of cstart makes, for any boot modules, any  *)
(* page size and any memory: what each of them finds in its pages, that    *)
(* nothing else is there, and how many frames all of this takes.           *)
(***************************************************************************)
EXTENDS Processes, AddressSpaceProofs, FiniteSetTheorems, SequenceTheorems

(***************************************************************************)
(* What a process sees of memory: for each page whether it is the user's   *)
(* and the bytes of its frame.  What load_elf and make_userspace_process   *)
(* are for is said of such views; frames and tables come in when a view is *)
(* shown to change, or to stay.                                            *)
(***************************************************************************)
Shown(E, D, r, p) ==
  LET m == Translation(E, r, p)
  IN [user |-> m.user, bytes |-> IF m.user THEN D[m.frame] ELSE ZeroPage]

View(E, D, r) == [p \in UserPages |-> Shown(E, D, r, p)]
Seen(bytes)   == [user |-> TRUE, bytes |-> bytes]

PageBytes == [Offsets -> Bytes]

(* What is there is of module j.                                           *)
Clean(j, byte) == byte = NUL \/ (byte # Stale /\ byte[1] = j)
Own(j, V)      == \A p \in UserPages : V[p].user => \A o \in Offsets : Clean(j, V[p].bytes[o])

(* Byte k of section s is where the program expects it.                    *)
Loads(h)     == h.headerType = 1
PageOf(h, k) == h.page + ((h.offset + k) \div DEFAULT_FRAME_SIZE)
PagesIn(h)   == {PageOf(h, k) : k \in 0 .. h.memsz - 1}
OffsetOf(h, k) == (h.offset + k) % DEFAULT_FRAME_SIZE

ByteOf(j, h, s, k) == IF k < h.filesz THEN <<j, s, k>> ELSE NUL

InPlace(j, V, h, s, k) ==
  /\ V[PagePath(PageOf(h, k))].user
  /\ V[PagePath(PageOf(h, k))].bytes[OffsetOf(h, k)] = ByteOf(j, h, s, k)

(* The headers hs are done before number head, and of that one the pages   *)
(* below front.  A page that a later header has done may be that one's.    *)
Finished(head, front, s, n) == s < head \/ (s = head /\ n < front)

Covered(hs, head, front, s, n) ==
  \E s2 \in s + 1 .. Len(hs) : Loads(hs[s2]) /\ n \in PagesIn(hs[s2]) /\ Finished(head, front, s2, n)

LoadedTo(j, V, hs, head, front) ==
  \A s \in DOMAIN hs : Loads(hs[s]) =>
    \A k \in 0 .. hs[s].memsz - 1 : Finished(head, front, s, PageOf(hs[s], k)) =>
      Covered(hs, head, front, s, PageOf(hs[s], k)) \/ InPlace(j, V, hs[s], s, k)

(* The command line of module j from byte top of the stack page on.        *)
Argued(j, V, argSize, top) ==
  /\ top \in Offsets /\ top % STACK_ALIGNMENT = 0 /\ top + argSize < DEFAULT_FRAME_SIZE
  /\ V[StackPage].user
  /\ \A o \in top .. DEFAULT_FRAME_SIZE - 1 :
       V[StackPage].bytes[o] = IF o - top < argSize THEN <<j, 0, o - top>> ELSE NUL

(* copy_section after some pages: the bytes before Reach are done, and     *)
(* those of the file among them are copied.                                *)
Reach(h, sec) == DEFAULT_FRAME_SIZE * (sec.page - h.page) + sec.offset - h.offset

Copied(h, sec) ==
  /\ sec.page = h.page => sec.offset = h.offset
  /\ sec.page >= h.page
  /\ sec.page > h.page => sec.offset = 0
  /\ sec.memsz = h.memsz - Reach(h, sec)
  /\ sec.filesz = h.filesz - sec.start
  /\ sec.start <= Reach(h, sec)
  /\ sec.start = Reach(h, sec) \/ sec.start = h.filesz

SectionType == [page : Nat, offset : Offsets, start : Nat, memsz : Int, filesz : Nat]

----------------------------------------------------------------------------
(* The inductive invariant.                                                *)

Loading == {"headers", "section", "copy", "stack", "task", "launch"}
Front   == IF pc \in {"section", "copy"} THEN section.page ELSE 0

Sees(r) == View(entries, data, r)

(* The frames that the loader has in its hands, and its types.             *)
IsTask(f) == \E j \in DOMAIN tasks : tasks[j].task = f

Hands ==
  /\ \A j \in DOMAIN tasks : tasks[j].task \in held
  /\ pc \in {"copy", "launch"} => frame \in held /\ ~IsTask(frame)
  /\ pc = "copy" => data[frame] = ZeroPage
  /\ pc \in {"task", "launch"} => stack \in held /\ ~IsTask(stack) /\ data[stack] = ZeroPage
  /\ pc = "launch" => stack # frame

(* A task that was made: its space is not the one being filled.            *)
WellMade(j) ==
  /\ pc \in Loading => tasks[j].address_space # root
  /\ Own(j, Sees(tasks[j].address_space))
  /\ LoadedTo(j, Sees(tasks[j].address_space), modules[j].headers, Len(modules[j].headers) + 1, 0)
  /\ tasks[j].rsp = tasks[j].rdi
  /\ Argued(j, Sees(tasks[j].address_space), modules[j].argSize, tasks[j].rdi)

(* The module being loaded.                                                *)
Progress ==
  pc \in Loading =>
    /\ i \in DOMAIN modules
    /\ header \in 1 .. Len(modules[i].headers) + 1
    /\ pc \in {"section", "copy"} =>
         /\ header \in DOMAIN modules[i].headers /\ Loads(modules[i].headers[header])
         /\ Copied(modules[i].headers[header], section)
    /\ pc = "copy" => section.memsz > 0
    /\ pc \in {"stack", "task", "launch"} => header = Len(modules[i].headers) + 1
    /\ Own(i, Sees(root))
    /\ LoadedTo(i, Sees(root), modules[i].headers, header, Front)

TaskType(spaces) == [task : Frames, rsp : Offsets, rdi : Offsets, address_space : spaces]

LoaderTypes ==
  /\ panicked \in BOOLEAN
  /\ modules \in BootModules
  /\ data \in [Frames -> PageBytes]
  /\ pc \in Loading \cup {"create", "idle"}
  /\ i \in 1 .. Len(modules) + 1
  /\ root \in Roots
  /\ header \in Nat
  /\ section \in SectionType
  /\ frame \in Frames \cup {NULL} /\ stack \in Frames \cup {NULL}
  /\ tasks \in Seq(TaskType(Roots))
  /\ Len(tasks) = i - 1

LoaderInv ==
  /\ Tree(entries, free, held, place)
  /\ LoaderTypes
  /\ Hands
  /\ Progress
  /\ \A j \in DOMAIN tasks : WellMade(j)

----------------------------------------------------------------------------
(* Numbers.                                                                *)

LEMMA FrameSize == DEFAULT_FRAME_SIZE \in Nat \ {0}
  BY SizesAssumption

LEMMA Split ==
  ASSUME NEW a \in Nat
  PROVE  /\ a \div DEFAULT_FRAME_SIZE \in Nat
         /\ a % DEFAULT_FRAME_SIZE \in 0 .. DEFAULT_FRAME_SIZE - 1
         /\ a = DEFAULT_FRAME_SIZE * (a \div DEFAULT_FRAME_SIZE) + (a % DEFAULT_FRAME_SIZE)
  BY FrameSize

LEMMA Joined ==
  ASSUME NEW q \in Nat, NEW o \in 0 .. DEFAULT_FRAME_SIZE - 1
  PROVE  /\ (DEFAULT_FRAME_SIZE * q + o) \div DEFAULT_FRAME_SIZE = q
         /\ (DEFAULT_FRAME_SIZE * q + o) % DEFAULT_FRAME_SIZE = o
  BY FrameSize

LEMMA Below ==
  ASSUME NEW a \in Nat, NEW q \in Nat, a < DEFAULT_FRAME_SIZE * q
  PROVE  a \div DEFAULT_FRAME_SIZE < q
  BY FrameSize

LEMMA Multiple ==
  ASSUME NEW a \in Nat \ {0}, NEW q \in Nat
  PROVE  a * q \in Nat /\ (a * q) % a = 0
  OBVIOUS

(* resolve_pageentry loses nothing of the number of a page.                *)
LEMMA PagePathInjective ==
  ASSUME NEW m \in Nat, NEW n \in Nat, PagePath(m) = PagePath(n)
  PROVE  m = n
<1>1. /\ m \div (512 * 512 * 512) = n \div (512 * 512 * 512)
      /\ (m \div (512 * 512)) % 512 = (n \div (512 * 512)) % 512
      /\ (m \div 512) % 512 = (n \div 512) % 512
      /\ m % 512 = n % 512
  BY DEF PagePath
<1> QED
  BY <1>1

(* What Launch takes off the stack: a multiple of the alignment, with room *)
(* for the NUL, and no more than the page.                                 *)
LEMMA PaddedFits ==
  ASSUME NEW argSize \in Offsets
  PROVE  LET top == DEFAULT_FRAME_SIZE - PaddedArgSize(argSize) IN
         top \in Offsets /\ top % STACK_ALIGNMENT = 0 /\ top + argSize < DEFAULT_FRAME_SIZE
<1> DEFINE A == STACK_ALIGNMENT
           q == argSize \div A
           m == DEFAULT_FRAME_SIZE \div A
<1>1. /\ A \in Nat \ {0} /\ DEFAULT_FRAME_SIZE \in Nat /\ argSize \in Nat
      /\ argSize < DEFAULT_FRAME_SIZE /\ DEFAULT_FRAME_SIZE % A = 0
  BY SizesAssumption DEF Offsets
<1>2. q \in Nat /\ argSize >= A * q /\ argSize < A * q + A
  BY <1>1
<1>3. m \in Nat /\ DEFAULT_FRAME_SIZE = A * m
  BY <1>1
<1>4. PaddedArgSize(argSize) = A * q + A
  BY <1>1, <1>2 DEF PaddedArgSize
<1> HIDE DEF q, m, A
<1>5. q < m
  BY <1>1, <1>2, <1>3
<1>6. m - q - 1 \in Nat
  BY <1>2, <1>3, <1>5
<1>7. DEFAULT_FRAME_SIZE - (A * q + A) = A * (m - q - 1)
  BY <1>1, <1>2, <1>3
<1>8. A * (m - q - 1) \in Nat /\ (A * (m - q - 1)) % A = 0
  BY <1>1, <1>6, Multiple
<1> QED
  BY <1>1, <1>2, <1>4, <1>7, <1>8 DEF Offsets, A

----------------------------------------------------------------------------
(* copy_section, one page at a time.                                       *)

HeaderFits(h) ==
  /\ h \in ProgramHeader /\ h.filesz <= h.memsz
  /\ \A k \in 0 .. h.memsz - 1 : PagePath(PageOf(h, k)) \in UserPages \ {StackPage}

(* Byte k in its page.                                                     *)
LEMMA ByteIsAt ==
  ASSUME NEW h \in ProgramHeader, NEW k \in 0 .. h.memsz - 1
  PROVE  /\ PageOf(h, k) \in Nat /\ PageOf(h, k) >= h.page
         /\ OffsetOf(h, k) \in 0 .. DEFAULT_FRAME_SIZE - 1
         /\ h.offset + k = DEFAULT_FRAME_SIZE * (PageOf(h, k) - h.page) + OffsetOf(h, k)
<1>1. h.page \in Nat /\ h.offset \in Nat /\ h.memsz \in Nat /\ k \in Nat
  BY FrameSize DEF ProgramHeader, Offsets
<1>2. h.offset + k \in Nat
  BY <1>1
<1> DEFINE a == h.offset + k
<1>3. /\ a \div DEFAULT_FRAME_SIZE \in Nat
      /\ a % DEFAULT_FRAME_SIZE \in 0 .. DEFAULT_FRAME_SIZE - 1
      /\ a = DEFAULT_FRAME_SIZE * (a \div DEFAULT_FRAME_SIZE) + (a % DEFAULT_FRAME_SIZE)
  BY <1>2, Split
<1>4. PageOf(h, k) = h.page + (a \div DEFAULT_FRAME_SIZE)
  BY DEF PageOf
<1>5. PageOf(h, k) - h.page = a \div DEFAULT_FRAME_SIZE
  BY <1>1, <1>3, <1>4
<1> QED
  BY <1>1, <1>3, <1>4, <1>5 DEF OffsetOf

(* As long as memsz is not used up, the next page has a byte in it.        *)
LEMMA NextByte ==
  ASSUME NEW h \in ProgramHeader, NEW sec \in SectionType, Copied(h, sec), sec.memsz > 0
  PROVE  /\ Reach(h, sec) \in 0 .. h.memsz - 1
         /\ PageOf(h, Reach(h, sec)) = sec.page
<1>1. /\ h.page \in Nat /\ h.offset \in Nat /\ h.offset < DEFAULT_FRAME_SIZE /\ h.memsz \in Nat
      /\ sec.page \in Nat /\ sec.offset \in 0 .. DEFAULT_FRAME_SIZE - 1 /\ sec.memsz \in Int
      /\ sec.start \in Nat
  BY FrameSize DEF ProgramHeader, SectionType, Offsets
<1>2. /\ sec.page >= h.page /\ sec.memsz = h.memsz - Reach(h, sec)
      /\ sec.start <= Reach(h, sec)
  BY DEF Copied
<1> DEFINE q == sec.page - h.page
<1>3. q \in Nat /\ h.page + q = sec.page
  BY <1>1, <1>2
<1>4. DEFAULT_FRAME_SIZE * q \in Nat
  BY <1>3, FrameSize
<1>5. Reach(h, sec) = DEFAULT_FRAME_SIZE * q + sec.offset - h.offset
  BY DEF Reach
<1> HIDE DEF q
<1>6. Reach(h, sec) \in 0 .. h.memsz - 1
  BY <1>1, <1>2, <1>4, <1>5
<1>7. h.offset + Reach(h, sec) = DEFAULT_FRAME_SIZE * q + sec.offset
  BY <1>1, <1>4, <1>5
<1>8. (h.offset + Reach(h, sec)) \div DEFAULT_FRAME_SIZE = q
  BY <1>1, <1>3, <1>7, Joined
<1> QED
  BY <1>3, <1>6, <1>8 DEF PageOf

(* Once it is, all bytes are below the next page.                          *)
LEMMA AllBelow ==
  ASSUME NEW h \in ProgramHeader, NEW sec \in SectionType, Copied(h, sec), ~(sec.memsz > 0),
         NEW k \in 0 .. h.memsz - 1
  PROVE  PageOf(h, k) < sec.page
<1>1. /\ h.page \in Nat /\ h.offset \in Nat /\ h.memsz \in Nat /\ k \in Nat /\ k < h.memsz
      /\ sec.page \in Nat /\ sec.offset \in Nat /\ sec.memsz \in Int
  BY FrameSize DEF ProgramHeader, SectionType, Offsets
<1>2. /\ sec.page >= h.page /\ sec.memsz = h.memsz - Reach(h, sec)
      /\ sec.page = h.page => sec.offset = h.offset
      /\ sec.page > h.page => sec.offset = 0
  BY DEF Copied
<1> DEFINE q == sec.page - h.page
<1>3. q \in Nat /\ h.page + q = sec.page
  BY <1>1, <1>2
<1>4. DEFAULT_FRAME_SIZE * q \in Nat
  BY <1>3, FrameSize
<1>5. Reach(h, sec) = DEFAULT_FRAME_SIZE * q + sec.offset - h.offset
  BY DEF Reach
<1>6. k < DEFAULT_FRAME_SIZE * q + sec.offset - h.offset
  <2> HIDE DEF q
  <2> QED
    BY <1>1, <1>2, <1>4, <1>5
<1>7. sec.offset = 0
  <2>1. CASE sec.page = h.page
    <3>1. q = 0 /\ sec.offset = h.offset
      BY <1>1, <1>2, <2>1
    <3>2. DEFAULT_FRAME_SIZE * q = 0
      BY <3>1, FrameSize
    <3> QED
      BY <1>1, <1>6, <3>1, <3>2
  <2> QED
    BY <1>1, <1>2, <2>1
<1> HIDE DEF q
<1>8. h.offset + k \in Nat /\ h.offset + k < DEFAULT_FRAME_SIZE * q
  BY <1>1, <1>4, <1>6, <1>7
<1>9. (h.offset + k) \div DEFAULT_FRAME_SIZE < q /\ (h.offset + k) \div DEFAULT_FRAME_SIZE \in Nat
  BY <1>3, <1>8, Below, Split
<1> QED
  BY <1>1, <1>3, <1>9 DEF PageOf

(* What CopyPage leaves of the arguments, and of the frame's bytes.        *)
Advanced(sec) ==
  [page   |-> sec.page + 1,
   offset |-> 0,
   start  |-> sec.start + ToCopy(sec.offset, sec.filesz),
   memsz  |-> sec.memsz + sec.offset - DEFAULT_FRAME_SIZE,
   filesz |-> sec.filesz - ToCopy(sec.offset, sec.filesz)]

LEMMA ToCopyFits ==
  ASSUME NEW offset \in 0 .. DEFAULT_FRAME_SIZE - 1, NEW filesz \in Nat
  PROVE  /\ ToCopy(offset, filesz) \in Nat
         /\ ToCopy(offset, filesz) <= filesz
         /\ ToCopy(offset, filesz) <= DEFAULT_FRAME_SIZE - offset
         /\ ToCopy(offset, filesz) = filesz \/ ToCopy(offset, filesz) = DEFAULT_FRAME_SIZE - offset
  BY FrameSize DEF ToCopy

LEMMA CopiedOn ==
  ASSUME NEW h \in ProgramHeader, NEW sec \in SectionType, Copied(h, sec)
  PROVE  Advanced(sec) \in SectionType /\ Copied(h, Advanced(sec))
<1>1. /\ h.page \in Nat /\ h.offset \in Nat /\ h.memsz \in Nat /\ h.filesz \in Nat
      /\ sec.page \in Nat /\ sec.offset \in 0 .. DEFAULT_FRAME_SIZE - 1 /\ sec.memsz \in Int
      /\ sec.start \in Nat /\ sec.filesz \in Nat
  BY FrameSize DEF ProgramHeader, SectionType, Offsets
<1>2. /\ sec.page >= h.page /\ sec.memsz = h.memsz - Reach(h, sec)
      /\ sec.filesz = h.filesz - sec.start /\ sec.start <= Reach(h, sec)
      /\ sec.start = Reach(h, sec) \/ sec.start = h.filesz
  BY DEF Copied
<1> DEFINE n == ToCopy(sec.offset, sec.filesz)
           q == sec.page - h.page
           s2 == Advanced(sec)
<1>3. /\ n \in Nat /\ n <= sec.filesz /\ n <= DEFAULT_FRAME_SIZE - sec.offset
      /\ n = sec.filesz \/ n = DEFAULT_FRAME_SIZE - sec.offset
  BY <1>1, ToCopyFits
<1>4. /\ s2.page = sec.page + 1 /\ s2.offset = 0 /\ s2.start = sec.start + n
      /\ s2.memsz = sec.memsz + sec.offset - DEFAULT_FRAME_SIZE /\ s2.filesz = sec.filesz - n
  BY DEF Advanced
<1>5. s2 \in SectionType
  <2>1. /\ sec.page + 1 \in Nat /\ 0 \in Offsets /\ sec.start + n \in Nat
        /\ sec.memsz + sec.offset - DEFAULT_FRAME_SIZE \in Int /\ sec.filesz - n \in Nat
    BY <1>1, <1>3, FrameSize DEF Offsets
  <2> QED
    BY <2>1 DEF SectionType, Advanced
<1>6. q \in Nat /\ DEFAULT_FRAME_SIZE * q \in Nat /\ s2.page - h.page = q + 1
  BY <1>1, <1>2, <1>4, FrameSize
<1>7. DEFAULT_FRAME_SIZE * (q + 1) = DEFAULT_FRAME_SIZE * q + DEFAULT_FRAME_SIZE
  BY <1>6, FrameSize
<1>8. Reach(h, sec) = DEFAULT_FRAME_SIZE * q + sec.offset - h.offset
  BY DEF Reach
<1>9. Reach(h, s2) = DEFAULT_FRAME_SIZE * (q + 1) + 0 - h.offset
  BY <1>4, <1>6 DEF Reach
<1> HIDE DEF n, q, s2
<1>10. Reach(h, sec) \in Int /\ Reach(h, s2) = Reach(h, sec) - sec.offset + DEFAULT_FRAME_SIZE
  BY <1>1, <1>6, <1>7, <1>8, <1>9, FrameSize
<1>11. s2.page > h.page
  BY <1>1, <1>2, <1>4
<1>12. s2.memsz = h.memsz - Reach(h, s2) /\ s2.filesz = h.filesz - s2.start
  <2>1. s2.memsz = h.memsz - Reach(h, s2)
    BY <1>1, <1>2, <1>4, <1>10, FrameSize
  <2>2. s2.filesz = h.filesz - s2.start
    BY <1>1, <1>2, <1>3, <1>4
  <2> QED
    BY <2>1, <2>2
<1>13. s2.start <= Reach(h, s2)
  BY <1>1, <1>2, <1>3, <1>4, <1>10, FrameSize
<1>14. s2.start = Reach(h, s2) \/ s2.start = h.filesz
  <2>1. CASE n = sec.filesz
    BY <1>1, <1>2, <1>4, <2>1
  <2>2. CASE n = DEFAULT_FRAME_SIZE - sec.offset /\ sec.start = Reach(h, sec)
    BY <1>1, <1>4, <1>10, <2>2, FrameSize
  <2>3. CASE n = DEFAULT_FRAME_SIZE - sec.offset /\ sec.start = h.filesz
    <3>1. sec.filesz = 0
      BY <1>1, <1>2, <2>3
    <3> QED
      BY <1>1, <1>3, <1>4, <2>3, <3>1
  <2> QED
    BY <1>2, <1>3, <2>1, <2>2, <2>3
<1>15. Copied(h, s2)
  <2>1. s2.page # h.page /\ s2.page >= h.page
    BY <1>1, <1>4, <1>11
  <2> QED
    BY <1>4, <1>12, <1>13, <1>14, <2>1 DEF Copied
<1> QED
  BY <1>5, <1>15 DEF s2

(* The bytes of a frame zeroed before and filled by copy_section.          *)
Contents(j, s, sec) ==
  [o \in Offsets |-> IF sec.offset <= o /\ o < sec.offset + ToCopy(sec.offset, sec.filesz)
                     THEN <<j, s, sec.start + o - sec.offset>> ELSE NUL]

LEMMA ContentsInPlace ==
  ASSUME NEW h \in ProgramHeader, h.filesz <= h.memsz, NEW sec \in SectionType, Copied(h, sec),
         NEW j, NEW s, NEW k \in 0 .. h.memsz - 1, PageOf(h, k) = sec.page
  PROVE  Contents(j, s, sec)[OffsetOf(h, k)] = ByteOf(j, h, s, k)
<1>1. /\ h.page \in Nat /\ h.offset \in Nat /\ h.memsz \in Nat /\ h.filesz \in Nat /\ k \in Nat
      /\ sec.page \in Nat /\ sec.offset \in 0 .. DEFAULT_FRAME_SIZE - 1 /\ sec.memsz \in Int
      /\ sec.start \in Nat /\ sec.filesz \in Nat
  BY FrameSize DEF ProgramHeader, SectionType, Offsets
<1>2. /\ sec.page >= h.page /\ sec.filesz = h.filesz - sec.start /\ sec.start <= Reach(h, sec)
      /\ sec.page = h.page => sec.offset = h.offset
      /\ sec.page > h.page => sec.offset = 0
      /\ sec.start = Reach(h, sec) \/ sec.start = h.filesz
  BY DEF Copied
<1> DEFINE n == ToCopy(sec.offset, sec.filesz)
           q == sec.page - h.page
           o == OffsetOf(h, k)
<1>3. /\ n \in Nat /\ n <= sec.filesz /\ n <= DEFAULT_FRAME_SIZE - sec.offset
      /\ n = sec.filesz \/ n = DEFAULT_FRAME_SIZE - sec.offset
  BY <1>1, ToCopyFits
<1>4. o \in 0 .. DEFAULT_FRAME_SIZE - 1 /\ h.offset + k = DEFAULT_FRAME_SIZE * q + o
  BY ByteIsAt
<1>5. q \in Nat /\ DEFAULT_FRAME_SIZE * q \in Nat
  BY <1>1, <1>2, FrameSize
<1>6. Reach(h, sec) = DEFAULT_FRAME_SIZE * q + sec.offset - h.offset
  BY DEF Reach
<1>7. o >= sec.offset
  <2>1. CASE sec.page = h.page
    <3>1. q = 0
      BY <1>1, <2>1
    <3>2. DEFAULT_FRAME_SIZE * q = 0
      BY <3>1, FrameSize
    <3> HIDE DEF q, o
    <3>3. h.offset + k = o
      BY <1>4, <3>2
    <3> QED
      BY <1>1, <1>2, <1>4, <2>1, <3>3
  <2>2. CASE sec.page # h.page
    <3>1. sec.offset = 0
      BY <1>1, <1>2, <2>2
    <3> QED
      BY <1>4, <3>1
  <2> QED
    BY <2>1, <2>2
<1>8. Contents(j, s, sec)[o] = IF sec.offset <= o /\ o < sec.offset + n
                               THEN <<j, s, sec.start + o - sec.offset>> ELSE NUL
  <2>1. o \in Offsets
    BY <1>4 DEF Offsets
  <2> HIDE DEF o
  <2> QED
    BY <2>1 DEF Contents
<1>9. ByteOf(j, h, s, k) = IF k < h.filesz THEN <<j, s, k>> ELSE NUL
  BY DEF ByteOf
<1> HIDE DEF n, q, o
<1>10. Reach(h, sec) \in Int /\ k = Reach(h, sec) + o - sec.offset
  BY <1>1, <1>4, <1>5, <1>6
<1>11. CASE o < sec.offset + n
  <2>1. sec.start = Reach(h, sec)
    <3>1. CASE sec.start = h.filesz
      <4>1. n = 0
        BY <1>1, <1>2, <1>3, <3>1
      <4> QED
        BY <1>1, <1>4, <1>7, <1>11, <4>1
    <3> QED
      BY <1>2, <3>1
  <2>2. k = sec.start + o - sec.offset
    BY <1>10, <2>1
  <2>3. k < h.filesz
    BY <1>1, <1>2, <1>3, <1>4, <1>11, <2>2
  <2> QED
    BY <1>7, <1>8, <1>9, <1>11, <2>2, <2>3 DEF o
<1>12. CASE ~(o < sec.offset + n)
  <2>1. n = sec.filesz
    BY <1>1, <1>3, <1>4, <1>12, FrameSize
  <2>2. ~(k < h.filesz)
    BY <1>1, <1>2, <1>4, <1>10, <1>12, <2>1
  <2> QED
    BY <1>8, <1>9, <1>12, <2>2 DEF o
<1> QED
  BY <1>11, <1>12

(* A byte of a module is of that module, and not what was there before.    *)
LEMMA LengthsDiffer ==
  ASSUME NEW s, NEW t, Len(s) # Len(t)
  PROVE  s # t
  BY Zenon

LEMMA SourceIsClean ==
  ASSUME NEW j \in 1 .. MAX_MODULES, NEW s \in Nat, NEW k \in Nat
  PROVE  <<j, s, k>> \in Bytes /\ Clean(j, <<j, s, k>>)
<1>1. <<j, s, k>> \in Bytes
  BY DEF Bytes
<1>2. <<j, s, k>> # <<0>>
  <2>1. Len(<<j, s, k>>) = 3 /\ Len(<<0>>) = 1
    OBVIOUS
  <2>2. Len(<<j, s, k>>) # Len(<<0>>)
    BY <2>1
  <2> QED
    BY <2>2, LengthsDiffer, Zenon
<1>3. <<j, s, k>>[1] = j
  OBVIOUS
<1> QED
  BY <1>1, <1>2, <1>3, Zenon DEF Clean, Stale

LEMMA NulIsClean ==
  ASSUME NEW j
  PROVE  NUL \in Bytes /\ Clean(j, NUL)
  BY DEF Bytes, Clean

LEMMA ContentsClean ==
  ASSUME NEW sec \in SectionType, NEW j \in 1 .. MAX_MODULES, NEW s \in Nat
  PROVE  /\ Contents(j, s, sec) \in PageBytes
         /\ \A o \in Offsets : Clean(j, Contents(j, s, sec)[o])
<1>1. ASSUME NEW o \in Offsets
      PROVE  Contents(j, s, sec)[o] \in Bytes /\ Clean(j, Contents(j, s, sec)[o])
  <2>1. o \in Nat /\ sec.offset \in Nat /\ sec.start \in Nat
    BY FrameSize DEF Offsets, SectionType
  <2>2. CASE sec.offset <= o /\ o < sec.offset + ToCopy(sec.offset, sec.filesz)
    <3> DEFINE k == sec.start + o - sec.offset
    <3>1. k \in Nat
      BY <2>1, <2>2
    <3>2. Contents(j, s, sec)[o] = <<j, s, k>>
      BY <2>2 DEF Contents
    <3> HIDE DEF k
    <3>3. <<j, s, k>> \in Bytes /\ Clean(j, <<j, s, k>>)
      BY <3>1, SourceIsClean
    <3> QED
      BY <3>2, <3>3
  <2>3. CASE ~(sec.offset <= o /\ o < sec.offset + ToCopy(sec.offset, sec.filesz))
    <3>1. Contents(j, s, sec)[o] = NUL
      BY <2>3 DEF Contents
    <3> QED
      BY <3>1, NulIsClean
  <2> QED
    BY <2>2, <2>3
<1>2. Contents(j, s, sec) = [o \in Offsets |-> Contents(j, s, sec)[o]]
  BY DEF Contents
<1> QED
  BY <1>1, <1>2 DEF PageBytes

----------------------------------------------------------------------------
(* The headers of a module, one after the other.                           *)

ModuleFits(m) ==
  /\ m.headers \in Seq(ProgramHeader) /\ m.argSize \in Offsets
  /\ \A s \in DOMAIN m.headers : HeaderFits(m.headers[s])

LEMMA ModulesFit ==
  ASSUME NEW ms \in BootModules
  PROVE  /\ Len(ms) \in Nat /\ Len(ms) <= MAX_MODULES /\ DOMAIN ms = 1 .. Len(ms)
         /\ \A j \in DOMAIN ms : ModuleFits(ms[j])
<1>1. /\ ms \in Seq([headers : Seq(ProgramHeader), argSize : Offsets])
      /\ Len(ms) <= MAX_MODULES
      /\ \A j \in DOMAIN ms : \A s \in DOMAIN ms[j].headers :
           LET h == ms[j].headers[s] IN
           /\ h.filesz <= h.memsz
           /\ \A k \in 0 .. h.memsz - 1 :
                PagePath(h.page + (h.offset + k) \div DEFAULT_FRAME_SIZE) \in UserPages \ {StackPage}
  BY ModulesAssumption
<1>2. ASSUME NEW j \in DOMAIN ms
      PROVE  ModuleFits(ms[j])
  <2> DEFINE R == [headers : Seq(ProgramHeader), argSize : Offsets]
  <2>0. ms \in Seq(R)
    BY <1>1
  <2> HIDE DEF R
  <2>a. ms[j] \in R
    BY <2>0
  <2>1. ms[j] \in [headers : Seq(ProgramHeader), argSize : Offsets]
    BY <2>a DEF R
  <2>2. ms[j].headers \in Seq(ProgramHeader) /\ ms[j].argSize \in Offsets
    BY <2>1
  <2>3. ASSUME NEW s \in DOMAIN ms[j].headers
        PROVE  HeaderFits(ms[j].headers[s])
    <3>1. ms[j].headers[s] \in ProgramHeader
      BY <2>2
    <3> QED
      BY <1>1, <3>1 DEF HeaderFits, PageOf
  <2> QED
    BY <2>2, <2>3 DEF ModuleFits
<1> QED
  BY <1>1, <1>2

LEMMA FirstHeader ==
  ASSUME NEW j, NEW V, NEW hs \in Seq(ProgramHeader)
  PROVE  LoadedTo(j, V, hs, 1, 0)
<1> SUFFICES ASSUME NEW s \in DOMAIN hs, NEW k \in 0 .. hs[s].memsz - 1,
                    Finished(1, 0, s, PageOf(hs[s], k))
             PROVE  FALSE
  BY DEF LoadedTo
<1>1. s \in Nat /\ s >= 1 /\ hs[s] \in ProgramHeader
  OBVIOUS
<1>2. PageOf(hs[s], k) \in Nat
  BY <1>1, ByteIsAt
<1> QED
  BY <1>1, <1>2 DEF Finished

(* Nothing more is done, in the pages that sections have.                  *)
LEMMA SameDone ==
  ASSUME NEW j, NEW V, NEW hs \in Seq(ProgramHeader),
         NEW head, NEW front, NEW head2, NEW front2, LoadedTo(j, V, hs, head, front),
         \A s \in DOMAIN hs : Loads(hs[s]) => \A k \in 0 .. hs[s].memsz - 1 :
           Finished(head, front, s, PageOf(hs[s], k)) <=> Finished(head2, front2, s, PageOf(hs[s], k))
  PROVE  LoadedTo(j, V, hs, head2, front2)
<1> SUFFICES ASSUME NEW s \in DOMAIN hs, Loads(hs[s]), NEW k \in 0 .. hs[s].memsz - 1,
                    Finished(head2, front2, s, PageOf(hs[s], k))
             PROVE  Covered(hs, head2, front2, s, PageOf(hs[s], k)) \/ InPlace(j, V, hs[s], s, k)
  BY DEF LoadedTo
<1>1. Covered(hs, head, front, s, PageOf(hs[s], k)) \/ InPlace(j, V, hs[s], s, k)
  BY DEF LoadedTo
<1>2. ASSUME Covered(hs, head, front, s, PageOf(hs[s], k))
      PROVE  Covered(hs, head2, front2, s, PageOf(hs[s], k))
  <2>1. PICK s2 \in s + 1 .. Len(hs) :
          Loads(hs[s2]) /\ PageOf(hs[s], k) \in PagesIn(hs[s2])
            /\ Finished(head, front, s2, PageOf(hs[s], k))
    BY <1>2 DEF Covered
  <2>2. s2 \in DOMAIN hs
    BY <2>1
  <2>3. PICK k2 \in 0 .. hs[s2].memsz - 1 : PageOf(hs[s], k) = PageOf(hs[s2], k2)
    BY <2>1 DEF PagesIn
  <2>4. Finished(head2, front2, s2, PageOf(hs[s], k))
    BY <2>1, <2>2, <2>3
  <2> QED
    BY <2>1, <2>4 DEF Covered
<1> QED
  BY <1>1, <1>2

(* A header that load_elf steps over.                                      *)
LEMMA SkipHeader ==
  ASSUME NEW j, NEW V, NEW hs \in Seq(ProgramHeader), NEW head \in DOMAIN hs,
         LoadedTo(j, V, hs, head, 0), ~Loads(hs[head])
  PROVE  LoadedTo(j, V, hs, head + 1, 0)
<1> SUFFICES ASSUME NEW s \in DOMAIN hs, Loads(hs[s]), NEW k \in 0 .. hs[s].memsz - 1
             PROVE  Finished(head, 0, s, PageOf(hs[s], k))
                      <=> Finished(head + 1, 0, s, PageOf(hs[s], k))
  BY SameDone
<1>1. s \in Nat /\ head \in Nat /\ hs[s] \in ProgramHeader /\ s # head
  OBVIOUS
<1>2. PageOf(hs[s], k) \in Nat
  BY <1>1, ByteIsAt
<1> QED
  BY <1>1, <1>2 DEF Finished

(* One that it loads, from its first page on ...                           *)
LEMMA StartSection ==
  ASSUME NEW j, NEW V, NEW hs \in Seq(ProgramHeader), NEW head \in DOMAIN hs,
         LoadedTo(j, V, hs, head, 0)
  PROVE  LoadedTo(j, V, hs, head, hs[head].page)
<1> SUFFICES ASSUME NEW s \in DOMAIN hs, Loads(hs[s]), NEW k \in 0 .. hs[s].memsz - 1
             PROVE  Finished(head, 0, s, PageOf(hs[s], k))
                      <=> Finished(head, hs[head].page, s, PageOf(hs[s], k))
  BY SameDone
<1>1. s \in Nat /\ head \in Nat /\ hs[s] \in ProgramHeader
  OBVIOUS
<1>2. PageOf(hs[s], k) \in Nat /\ PageOf(hs[s], k) >= hs[s].page /\ hs[s].page \in Nat
  BY <1>1, ByteIsAt DEF ProgramHeader
<1> QED
  BY <1>1, <1>2 DEF Finished

(* ... and to its last.                                                    *)
LEMMA EndSection ==
  ASSUME NEW j, NEW V, NEW hs \in Seq(ProgramHeader), NEW head \in DOMAIN hs,
         NEW sec \in SectionType, Copied(hs[head], sec), ~(sec.memsz > 0),
         LoadedTo(j, V, hs, head, sec.page)
  PROVE  LoadedTo(j, V, hs, head + 1, 0)
<1> SUFFICES ASSUME NEW s \in DOMAIN hs, Loads(hs[s]), NEW k \in 0 .. hs[s].memsz - 1
             PROVE  Finished(head, sec.page, s, PageOf(hs[s], k))
                      <=> Finished(head + 1, 0, s, PageOf(hs[s], k))
  BY SameDone
<1>1. s \in Nat /\ head \in Nat /\ hs[s] \in ProgramHeader
  OBVIOUS
<1>2. PageOf(hs[s], k) \in Nat
  BY <1>1, ByteIsAt
<1>3. s = head => PageOf(hs[s], k) < sec.page
  BY <1>1, AllBelow
<1> QED
  BY <1>1, <1>2, <1>3 DEF Finished

(* One page of it: the others stay as they are.                            *)
LEMMA OnePage ==
  ASSUME NEW j, NEW V, NEW V2, NEW hs \in Seq(ProgramHeader), NEW head \in DOMAIN hs,
         Loads(hs[head]), HeaderFits(hs[head]),
         NEW sec \in SectionType, Copied(hs[head], sec), sec.memsz > 0,
         LoadedTo(j, V, hs, head, sec.page),
         V2[PagePath(sec.page)] = Seen(Contents(j, head, sec)),
         \A p \in UserPages \ {PagePath(sec.page)} : V2[p] = V[p],
         \A s \in DOMAIN hs : HeaderFits(hs[s])
  PROVE  LoadedTo(j, V2, hs, head, sec.page + 1)
<1> SUFFICES ASSUME NEW s \in DOMAIN hs, Loads(hs[s]), NEW k \in 0 .. hs[s].memsz - 1,
                    Finished(head, sec.page + 1, s, PageOf(hs[s], k))
             PROVE  Covered(hs, head, sec.page + 1, s, PageOf(hs[s], k)) \/ InPlace(j, V2, hs[s], s, k)
  BY DEF LoadedTo
<1> DEFINE n == PageOf(hs[s], k)
<1>1. /\ s \in Nat /\ head \in Nat /\ hs[s] \in ProgramHeader /\ hs[head] \in ProgramHeader
      /\ sec.page \in Nat /\ hs[s].filesz <= hs[s].memsz
  BY DEF SectionType, HeaderFits
<1>2. n \in Nat /\ PagePath(n) \in UserPages
  BY <1>1, ByteIsAt DEF HeaderFits
<1>3. CASE s = head /\ n = sec.page
  <2>1. V2[PagePath(n)].user /\ V2[PagePath(n)].bytes = Contents(j, head, sec)
    BY <1>3 DEF Seen
  <2>2. Contents(j, head, sec)[OffsetOf(hs[s], k)] = ByteOf(j, hs[s], s, k)
    BY <1>1, <1>3, ContentsInPlace
  <2> QED
    BY <2>1, <2>2 DEF InPlace
<1>4. CASE s < head /\ n = sec.page
  <2>1. /\ Reach(hs[head], sec) \in 0 .. hs[head].memsz - 1
        /\ PageOf(hs[head], Reach(hs[head], sec)) = sec.page
    BY <1>1, NextByte
  <2>2. n \in PagesIn(hs[head])
    BY <1>4, <2>1 DEF PagesIn
  <2>3. Finished(head, sec.page + 1, head, n)
    BY <1>1, <1>4 DEF Finished
  <2>4. head \in s + 1 .. Len(hs)
    BY <1>1, <1>4
  <2> QED
    BY <2>2, <2>3, <2>4 DEF Covered
<1>5. CASE n # sec.page
  <2>1. Finished(head, sec.page, s, n)
    BY <1>1, <1>2, <1>5 DEF Finished
  <2>2. Covered(hs, head, sec.page, s, n) \/ InPlace(j, V, hs[s], s, k)
    BY <2>1 DEF LoadedTo
  <2>3. ASSUME Covered(hs, head, sec.page, s, n)
        PROVE  Covered(hs, head, sec.page + 1, s, n)
    <3>1. PICK s2 \in s + 1 .. Len(hs) :
            Loads(hs[s2]) /\ n \in PagesIn(hs[s2]) /\ Finished(head, sec.page, s2, n)
      BY <2>3 DEF Covered
    <3>2. Finished(head, sec.page + 1, s2, n)
      BY <1>1, <1>2, <3>1 DEF Finished
    <3> QED
      BY <3>1, <3>2 DEF Covered
  <2>4. PagePath(n) # PagePath(sec.page)
    BY <1>1, <1>2, <1>5, PagePathInjective
  <2>5. V2[PagePath(n)] = V[PagePath(n)]
    BY <1>2, <2>4
  <2>6. InPlace(j, V, hs[s], s, k) => InPlace(j, V2, hs[s], s, k)
    BY <2>5 DEF InPlace
  <2> QED
    BY <2>2, <2>3, <2>6
<1>6. s <= head
  BY <1>1, <1>2 DEF Finished
<1> QED
  BY <1>1, <1>3, <1>4, <1>5, <1>6

(* A page that belongs to no segment makes no difference.                  *)
LEMMA OtherPage ==
  ASSUME NEW j, NEW V, NEW V2, NEW hs \in Seq(ProgramHeader), NEW head, NEW front,
         LoadedTo(j, V, hs, head, front),
         \A s \in DOMAIN hs : HeaderFits(hs[s]),
         \A p \in UserPages \ {StackPage} : V2[p] = V[p]
  PROVE  LoadedTo(j, V2, hs, head, front)
<1> SUFFICES ASSUME NEW s \in DOMAIN hs, Loads(hs[s]), NEW k \in 0 .. hs[s].memsz - 1,
                    Finished(head, front, s, PageOf(hs[s], k))
             PROVE  Covered(hs, head, front, s, PageOf(hs[s], k)) \/ InPlace(j, V2, hs[s], s, k)
  BY DEF LoadedTo
<1>1. V2[PagePath(PageOf(hs[s], k))] = V[PagePath(PageOf(hs[s], k))]
  BY DEF HeaderFits
<1>2. Covered(hs, head, front, s, PageOf(hs[s], k)) \/ InPlace(j, V, hs[s], s, k)
  BY DEF LoadedTo
<1> QED
  BY <1>1, <1>2 DEF InPlace

----------------------------------------------------------------------------
(* The frames and tables below the views.                                  *)

LEMMA IndexRange == Index \subseteq 0 .. 511
  BY PagesAssumption

LEMMA UserPlaces ==
  ASSUME NEW p \in UserPages
  PROVE  p \in MapPages /\ p \in Pages /\ p \notin KernelPages
<1>1. p \in MapPages /\ p \in Pages
  BY DEF MapPages, Pages
<1>2. p[1] < LINEAR /\ p[1] \in Nat
  <2>1. p \in Index \X Index \X Index \X Index
    BY <1>1, PagesAssumption
  <2>2. p[1] \in Index
    BY <2>1
  <2>3. p[1] \in 0 .. 511
    BY <2>2, IndexRange
  <2>4. p[1] < LINEAR
    BY PagesAssumption
  <2> QED
    BY <2>3, <2>4
<1>3. p[1] # LINEAR /\ p[1] # KERNEL
  BY <1>2 DEF LINEAR, KERNEL
<1> QED
  BY <1>1, <1>3 DEF KernelPages

(* A user page has no frame, or one of its own that nobody holds.          *)
LEMMA UserFrame ==
  ASSUME NEW E, NEW F, NEW H, NEW P, Tree(E, F, H, P), NEW r \in RootsOf(P), NEW p \in UserPages
  PROVE  \/ Translation(E, r, p) = Unmapped
         \/ /\ Translation(E, r, p).user
            /\ Translation(E, r, p).frame \in Frames \ (F \cup H)
<1>1. r \in Tables /\ Level(P[r]) = 1 /\ p \in MapPages /\ p \in Pages
  BY UserPlaces DEF RootsOf
<1>2. CASE \A t \in Tables : ~Leads(E, P, r, p, t)
  BY <1>1, <1>2, TranslatesUnmapped
<1>3. CASE \E t \in Tables : Leads(E, P, r, p, t)
  <2>1. PICK t \in Tables : Leads(E, P, r, p, t)
    BY <1>3
  <2>2. Translation(E, r, p) = Mapping(E[t][p[4]].address, p \in UserPages)
    BY <1>1, <2>1, TranslatesMapped
  <2>3. P[t] = Down4(r, p) /\ E[t][p[4]].present /\ Level(Down4(r, p)) = 4 /\ p[4] \in Index
    BY <1>1, <2>1, PathPlaces DEF Leads
  <2>4. t \notin {kernel_pagedir, kernel_linear}
    BY <2>3, KernelPlaces DEF Tree, Places
  <2>5. E[t][p[4]].address \in Frames \ (F \cup H)
    <3>1. Level(P[t]) # 0 /\ ~(Level(P[t]) \in 1 .. 3)
      BY <2>3
    <3> QED
      BY <2>3, <2>4, <3>1, Naming
  <2>6. /\ Translation(E, r, p).frame = E[t][p[4]].address
        /\ Translation(E, r, p).user = (p \in UserPages)
    BY <2>2 DEF Mapping
  <2> QED
    BY <2>5, <2>6
<1> QED
  BY <1>2, <1>3

(* Bytes of a frame that is free or held are not seen.                     *)
LEMMA ShownDepends ==
  ASSUME NEW E, NEW F, NEW H, NEW P, Tree(E, F, H, P), NEW r \in RootsOf(P), NEW p \in UserPages,
         NEW E2, Translation(E2, r, p) = Translation(E, r, p),
         NEW D, NEW D2, \A f \in Frames \ (F \cup H) : D2[f] = D[f]
  PROVE  Shown(E2, D2, r, p) = Shown(E, D, r, p)
<1>1. CASE Translation(E, r, p) = Unmapped
  BY <1>1 DEF Shown, Unmapped
<1>2. CASE Translation(E, r, p).user /\ Translation(E, r, p).frame \in Frames \ (F \cup H)
  <2>1. D2[Translation(E2, r, p).frame] = D[Translation(E, r, p).frame]
    BY <1>2
  <2> QED
    BY <2>1 DEF Shown
<1> QED
  BY <1>1, <1>2, UserFrame

LEMMA SameView ==
  ASSUME NEW E, NEW D, NEW E2, NEW D2, NEW r,
         \A p \in UserPages : Shown(E2, D2, r, p) = Shown(E, D, r, p)
  PROVE  View(E2, D2, r) = View(E, D, r)
  BY DEF View

LEMMA RootsNow ==
  ASSUME Tree(entries, free, held, place)
  PROVE  Roots = RootsOf(place)
  BY RootsAre DEF Roots

LEMMA RootsNext ==
  ASSUME Tree(entries', free', held', place')
  PROVE  Roots' = RootsOf(place')
  BY RootsAre DEF Roots

(* frame_alloc_zero: a frame for the loader alone, or panic.               *)
LEMMA TakeFrame ==
  ASSUME Tree(entries, free, held, place), panicked \in BOOLEAN,
         data \in [Frames -> PageBytes], frame_alloc_zero
  PROVE  /\ Tree(entries', free', held', place') /\ panicked' \in BOOLEAN
         /\ data' \in [Frames -> PageBytes]
         /\ Roots' = Roots
         /\ \A r \in Roots : Sees(r)' = Sees(r)
         /\ panicked' => held' = held /\ data' = data /\ Taken = NULL
         /\ ~panicked' => /\ Taken \in Frames \ held /\ held' = held \cup {Taken}
                          /\ data'[Taken] = ZeroPage
                          /\ \A f \in held : data'[f] = data[f]
<1>1. FrameAlloc /\ data' = IF panicked' THEN data ELSE [data EXCEPT ![Taken] = ZeroPage]
  BY DEF frame_alloc_zero
<1>2. /\ Candidates(free) \subseteq free /\ free \subseteq Frames /\ held \subseteq Frames
      /\ free \cap held = {}
  BY CandidatesAssumption DEF Tree, Types
<1>3. CASE OutOfFrames
  <2>1. /\ panicked' = TRUE /\ entries' = entries /\ free' = free /\ held' = held /\ place' = place
    BY <1>3 DEF OutOfFrames
  <2>2. data' = data
    BY <1>1, <2>1
  <2>3. Taken = NULL
    BY <2>1 DEF Taken
  <2>4. Roots' = Roots
    BY <2>1 DEF Roots
  <2>5. \A r \in Roots : Sees(r)' = Sees(r)
    BY <2>1, <2>2 DEF Sees
  <2> QED
    BY <2>1, <2>2, <2>3, <2>4, <2>5
<1>4. CASE \E f \in Candidates(free) : /\ free' = free \ {f} /\ held' = held \cup {f}
                                       /\ entries' = [entries EXCEPT ![f] = Garbage]
                                       /\ UNCHANGED <<place, panicked>>
  <2>1. PICK f \in free : /\ free' = free \ {f} /\ held' = held \cup {f}
                          /\ entries' = [entries EXCEPT ![f] = Garbage]
                          /\ place' = place /\ panicked' = panicked
    BY <1>2, <1>4
  <2>2. ~panicked'
    BY <1>1, <2>1 DEF FrameAlloc
  <2>3. f \in Frames /\ f \notin held
    BY <1>2
  <2>4. Taken = f
    <3>1. held' # held /\ held' \ held = {f}
      BY <2>1, <2>3
    <3> QED
      BY <3>1 DEF Taken
  <2>5. Tree(entries', free', held', place')
    <3>1. Tree(Filled(entries, f, Garbage), free \ {f}, held \cup {f}, place)
      BY AllocKeepsTree
    <3>2. entries' = Filled(entries, f, Garbage)
      BY <2>1 DEF Filled
    <3> QED
      BY <2>1, <3>1, <3>2
  <2>6. data' = [data EXCEPT ![f] = ZeroPage]
    BY <1>1, <2>2, <2>4
  <2>7. ZeroPage \in PageBytes
    BY NulIsClean DEF ZeroPage, PageBytes
  <2>8. /\ data' \in [Frames -> PageBytes] /\ data'[f] = ZeroPage
        /\ \A g \in Frames \ {f} : data'[g] = data[g]
    BY <2>3, <2>6, <2>7
  <2>9. Roots' = Roots
    BY <2>1 DEF Roots
  <2>10. ASSUME NEW r \in Roots
         PROVE  Sees(r)' = Sees(r)
    <3>1. r \in RootsOf(place)
      BY RootsNow
    <3>2. \A u \in Tables : Level(place[u]) # 0 => entries'[u] = entries[u]
      <4>1. Level(place[f]) = 0 /\ entries \in EntryTables
        BY DEF Tree, Types, Places, EntryTables
      <4> QED
        BY <2>1, <4>1 DEF EntryTables
    <3>3. SamePages(entries, place, entries', place')
      BY <2>1, <3>2 DEF SamePages
    <3>4. ASSUME NEW p \in UserPages
          PROVE  Shown(entries', data', r, p) = Shown(entries, data, r, p)
      <4>1. Translation(entries', r, p) = Translation(entries, r, p)
        BY <2>5, <3>1, <3>3, UserPlaces, PagesStay DEF RootsOf
      <4>2. \A g \in Frames \ (free \cup held) : data'[g] = data[g]
        BY <2>8
      <4> QED
        BY <3>1, <4>1, <4>2, ShownDepends
    <3> QED
      BY <3>4, SameView DEF Sees
  <2>11. \A g \in held : data'[g] = data[g]
    BY <1>2, <2>3, <2>8
  <2> QED
    BY <2>1, <2>2, <2>3, <2>4, <2>5, <2>8, <2>9, <2>10, <2>11
<1> QED
  BY <1>1, <1>3, <1>4 DEF FrameAlloc

(* create_address_space: a space with no user page in it, or panic.        *)
LEMMA MakeSpace ==
  ASSUME Tree(entries, free, held, place), panicked \in BOOLEAN,
         create_address_space, data' = data
  PROVE  /\ Tree(entries', free', held', place') /\ panicked' \in BOOLEAN
         /\ held' = held
         /\ \A r \in Roots : r \in Roots' /\ Sees(r)' = Sees(r)
         /\ ~panicked' => /\ (CHOOSE f \in Roots' \ Roots : TRUE) \in Roots' \ Roots
                          /\ \A r \in Roots' \ Roots, p \in UserPages : ~Sees(r)'[p].user
<1>1. Candidates(free) \subseteq free /\ free \subseteq Frames
  BY CandidatesAssumption DEF Tree, Types
<1>2. CASE OutOfFrames
  <2>1. /\ panicked' = TRUE /\ entries' = entries /\ free' = free /\ held' = held /\ place' = place
    BY <1>2 DEF OutOfFrames
  <2>2. Roots' = Roots
    BY <2>1 DEF Roots
  <2>3. \A r \in Roots : Sees(r)' = Sees(r)
    BY <2>1 DEF Sees
  <2> QED
    BY <2>1, <2>2, <2>3
<1>3. CASE \E f \in Candidates(free) : /\ free' = free \ {f}
                                       /\ entries' = [entries EXCEPT ![f] = RootTable]
                                       /\ place' = [place EXCEPT ![f] = <<f>>]
                                       /\ UNCHANGED <<held, panicked>>
  <2>1. PICK f \in free : /\ free' = free \ {f}
                          /\ entries' = [entries EXCEPT ![f] = RootTable]
                          /\ place' = [place EXCEPT ![f] = <<f>>]
                          /\ held' = held /\ panicked' = panicked
    BY <1>1, <1>3
  <2>2. entries' = Filled(entries, f, RootTable) /\ place' = PutAt(place, f, Top(f))
    BY <2>1 DEF Filled, PutAt, Top
  <2>3. Tree(entries', free', held', place')
    <3>1. Tree(Filled(entries, f, RootTable), free \ {f}, held, PutAt(place, f, Top(f)))
      BY CreateKeepsTree
    <3> QED
      BY <2>1, <2>2, <3>1
  <2>4. /\ f \in Tables /\ Level(place[f]) = 0
        /\ \A s \in Tables : Level(place'[s]) = 1 <=> Level(place[s]) = 1 \/ s = f
        /\ \A s \in Tables, p \in Pages :
             Level(place[s]) = 1 => Translation(entries', s, p) = Translation(entries, s, p)
        /\ \A p \in Pages \ KernelPages : Translation(entries', f, p) = Unmapped
    BY <2>2, NewSpace
  <2>5. Roots = RootsOf(place) /\ Roots' = RootsOf(place')
    BY <2>3, RootsNow, RootsNext
  <2>6. Roots' \ Roots = {f} /\ \A r \in Roots : r \in Roots'
    BY <2>4, <2>5 DEF RootsOf
  <2>7. ASSUME NEW r \in Roots
        PROVE  Sees(r)' = Sees(r)
    <3>1. \A p \in UserPages : Shown(entries', data', r, p) = Shown(entries, data, r, p)
      <4>1. \A p \in UserPages : Translation(entries', r, p) = Translation(entries, r, p)
        BY <2>4, <2>5, UserPlaces DEF RootsOf
      <4> QED
        BY <2>5, <4>1, ShownDepends
    <3> QED
      BY <3>1, SameView DEF Sees
  <2>8. ASSUME NEW p \in UserPages
        PROVE  ~Sees(f)'[p].user
    <3>1. Translation(entries', f, p) = Unmapped
      BY <2>4, UserPlaces
    <3> QED
      BY <3>1 DEF Sees, View, Shown, Unmapped
  <2>9. (CHOOSE g \in Roots' \ Roots : TRUE) \in Roots' \ Roots
    BY <2>6
  <2> QED
    BY <2>1, <2>3, <2>6, <2>7, <2>8, <2>9
<1> QED
  BY <1>2, <1>3 DEF create_address_space

(* mmap of a user page: that page of that space shows the frame, whatever  *)
(* it showed before, and nothing else changes; or panic.                   *)
LEMMA MapPage ==
  ASSUME Tree(entries, free, held, place), panicked \in BOOLEAN, data \in [Frames -> PageBytes],
         NEW r \in Roots, NEW p \in UserPages, NEW f \in held, mmap(r, p, f),
         NEW b \in PageBytes, panicked' => data' = data, ~panicked' => data' = [data EXCEPT ![f] = b]
  PROVE  /\ Tree(entries', free', held', place') /\ panicked' \in BOOLEAN
         /\ data' \in [Frames -> PageBytes]
         /\ Roots' = Roots
         /\ held' = IF panicked' THEN held ELSE held \ {f}
         /\ panicked' => \A s \in Roots : Sees(s)' = Sees(s)
         /\ ~panicked' =>
              /\ Sees(r)'[p] = Seen(b)
              /\ \A q \in UserPages \ {p} : Sees(r)'[q] = Sees(r)[q]
              /\ \A s \in Roots \ {r} : Sees(s)' = Sees(s)
<1>1. PICK c \in resolve_pageentry(r, p) :
        /\ Commit(c, PageEntry(f, p \in UserPages))
        /\ held' = IF c.failed THEN held ELSE held \ {f}
  BY DEF mmap
<1>2. /\ p \in MapPages /\ p \in Pages /\ p \notin KernelPages
      /\ f \in Frames /\ held \subseteq Frames
  BY UserPlaces DEF Tree, Types
<1>3. /\ Tree(c.entries, c.free, held, c.place) /\ c.failed \in BOOLEAN
      /\ SamePages(entries, place, c.entries, c.place)
      /\ ~c.failed => /\ c.table \in Tables /\ c.index \in Index
                      /\ c.index = p[4] /\ c.place[c.table] = Down4(r, p)
                      /\ Level(c.place[c.table]) = 4
                      /\ UserHalf(c.place[c.table])
  BY <1>2, ResolvedAt
<1>4. free' = c.free /\ place' = c.place /\ panicked' = c.failed
  BY <1>1 DEF Commit
<1>5. data' \in [Frames -> PageBytes]
  <2>1. [data EXCEPT ![f] = b] \in [Frames -> PageBytes]
    BY <1>2
  <2> QED
    BY <2>1
<1>6. Roots = RootsOf(place) /\ RootsOf(place') = RootsOf(place)
  <2>1. RootsOf(place') = RootsOf(place)
    BY <1>3, <1>4 DEF RootsOf, SamePages
  <2> QED
    BY <2>1, RootsNow
<1>7. \A s \in Roots, q \in UserPages : Translation(c.entries, s, q) = Translation(entries, s, q)
  BY <1>3, <1>6, PagesStay, UserPlaces DEF RootsOf
<1>8. CASE c.failed
  <2>1. /\ entries' = c.entries /\ held' = held /\ panicked' /\ data' = data
    BY <1>1, <1>4, <1>8 DEF Commit
  <2>2. Tree(entries', free', held', place')
    BY <1>3, <1>4, <2>1
  <2>3. Roots' = Roots
    BY <1>6, <2>2, RootsNext
  <2>4. ASSUME NEW s \in Roots
        PROVE  Sees(s)' = Sees(s)
    <3>1. \A q \in UserPages : Shown(entries', data', s, q) = Shown(entries, data, s, q)
      BY <1>6, <1>7, <2>1, ShownDepends
    <3>2. View(entries', data', s) = View(entries, data, s)
      BY <3>1, SameView
    <3> QED
      BY <3>2 DEF Sees
  <2> QED
    BY <1>3, <1>4, <1>5, <2>1, <2>2, <2>3, <2>4
<1>9. CASE ~c.failed
  <2> DEFINE t == c.table
             e == PageEntry(f, UserHalf(c.place[t]))
  <2>0. UserHalf(c.place[t]) = TRUE /\ (p \in UserPages) = TRUE
    BY <1>3, <1>9 DEF UserHalf
  <2>1. entries' = Written(c.entries, t, p[4], e)
    BY <1>1, <1>3, <1>9, <2>0 DEF Commit, Written
  <2>2. held' = held \ {f} /\ ~panicked' /\ data' = [data EXCEPT ![f] = b]
    BY <1>1, <1>4, <1>9
  <2>3. Tree(entries', free', held', place')
    <3>1. Tree(Written(c.entries, t, c.index, e), c.free, held \ {f}, c.place)
      BY <1>3, <1>9, MapKeepsTree
    <3> QED
      BY <1>3, <1>4, <1>9, <2>1, <2>2, <3>1
  <2>4. e \in EntryType /\ e.present /\ e.address = f
    BY <1>2, <2>0, EntryTypes
  <2> HIDE DEF e
  <2>5. Roots' = Roots
    BY <1>6, <2>3, RootsNext
  <2>6. r \in Tables /\ Level(c.place[r]) = 1
    BY <1>4, <1>6 DEF RootsOf
  <2>7. /\ Translation(entries', r, p) = Mapping(f, p \in UserPages)
        /\ \A s \in Tables, q \in Pages :
             Level(c.place[s]) = 1 =>
               Translation(entries', s, q) = IF q = p /\ (s = r \/ p \in KernelPages)
                                             THEN Translation(entries', r, p)
                                             ELSE Translation(c.entries, s, q)
    <3>1. Tree(entries', free', held', c.place)
      BY <1>4, <2>3
    <3> QED
      BY <1>2, <1>3, <1>9, <2>1, <2>4, <2>6, <3>1, WrittenPage
  <2>8. Sees(r)'[p] = Seen(b)
    <3>1. Translation(entries', r, p) = Mapping(f, TRUE)
      BY <2>0, <2>7
    <3>2. data'[f] = b
      BY <1>2, <2>2
    <3>3. /\ Translation(entries', r, p).user = TRUE
          /\ data'[Translation(entries', r, p).frame] = b
      BY <3>1, <3>2 DEF Mapping
    <3>4. Shown(entries', data', r, p) = Seen(b)
      BY <3>3 DEF Shown, Seen
    <3> QED
      BY <3>4 DEF Sees, View
  <2>9. ASSUME NEW s \in Roots, NEW q \in UserPages, s # r \/ q # p
        PROVE  Shown(entries', data', s, q) = Shown(entries, data, s, q)
    <3>1. Translation(entries', s, q) = Translation(c.entries, s, q)
      <4>1. s \in Tables /\ Level(c.place[s]) = 1 /\ q \in Pages
        BY <1>4, <1>6, UserPlaces DEF RootsOf
      <4> QED
        BY <1>2, <2>7, <2>9, <4>1
    <3>2. Translation(entries', s, q) = Translation(entries, s, q)
      BY <1>7, <3>1
    <3>3. \A g \in Frames \ (free \cup held) : data'[g] = data[g]
      BY <2>2
    <3> QED
      BY <1>6, <3>2, <3>3, ShownDepends
  <2>10. ASSUME NEW q \in UserPages \ {p}
         PROVE  Sees(r)'[q] = Sees(r)[q]
    <3>1. Shown(entries', data', r, q) = Shown(entries, data, r, q)
      BY <2>9
    <3> QED
      BY <3>1 DEF Sees, View
  <2>11. ASSUME NEW s \in Roots \ {r}
         PROVE  Sees(s)' = Sees(s)
    <3>1. \A q \in UserPages : Shown(entries', data', s, q) = Shown(entries, data, s, q)
      BY <2>9
    <3>2. View(entries', data', s) = View(entries, data, s)
      BY <3>1, SameView
    <3> QED
      BY <3>2 DEF Sees
  <2> QED
    BY <1>3, <1>4, <1>5, <2>2, <2>3, <2>5, <2>8, <2>10, <2>11
<1> QED
  BY <1>3, <1>8, <1>9

----------------------------------------------------------------------------
(* The invariant: what an action of the loader leaves alone.               *)

LEMMA TaskFacts ==
  ASSUME NEW S, NEW ts \in Seq(TaskType(S)), NEW j \in DOMAIN ts
  PROVE  ts[j].address_space \in S /\ ts[j].task \in Frames
<1>1. ts[j] \in TaskType(S)
  OBVIOUS
<1> QED
  BY <1>1 DEF TaskType

LEMMA LoaderFacts ==
  ASSUME LoaderInv
  PROVE  /\ Tree(entries, free, held, place) /\ panicked \in BOOLEAN
         /\ data \in [Frames -> PageBytes]
         /\ root \in Roots /\ held \subseteq Frames
         /\ \A j \in DOMAIN tasks : tasks[j].task \in held /\ tasks[j].address_space \in Roots
<1>1. /\ Tree(entries, free, held, place) /\ panicked \in BOOLEAN
      /\ data \in [Frames -> PageBytes] /\ root \in Roots
  BY DEF LoaderInv, LoaderTypes
<1>2. held \subseteq Frames
  BY <1>1 DEF Tree, Types
<1>3. \A j \in DOMAIN tasks : tasks[j].task \in held
  BY DEF LoaderInv, Hands
<1>4. \A j \in DOMAIN tasks : tasks[j].address_space \in Roots
  BY TaskFacts DEF LoaderInv, LoaderTypes
<1> QED
  BY <1>1, <1>2, <1>3, <1>4

LEMMA ModuleFacts ==
  ASSUME LoaderInv, pc \in Loading
  PROVE  /\ i \in DOMAIN modules /\ i \in 1 .. MAX_MODULES
         /\ ModuleFits(modules[i])
         /\ modules[i].headers \in Seq(ProgramHeader) /\ modules[i].argSize \in Offsets
         /\ \A s \in DOMAIN modules[i].headers : HeaderFits(modules[i].headers[s])
         /\ header \in 1 .. Len(modules[i].headers) + 1
         /\ Own(i, Sees(root))
         /\ LoadedTo(i, Sees(root), modules[i].headers, header, Front)
<1>1. /\ i \in DOMAIN modules /\ header \in 1 .. Len(modules[i].headers) + 1
      /\ Own(i, Sees(root))
      /\ LoadedTo(i, Sees(root), modules[i].headers, header, Front)
  BY DEF LoaderInv, Progress
<1>2. modules \in BootModules
  BY DEF LoaderInv, LoaderTypes
<1>3. ModuleFits(modules[i]) /\ i \in 1 .. MAX_MODULES
  BY <1>1, <1>2, ModulesFit DEF MAX_MODULES
<1> QED
  BY <1>1, <1>3 DEF ModuleFits

LEMMA OneStays ==
  ASSUME NEW j \in DOMAIN tasks, tasks' = tasks, modules' = modules,
         Sees(tasks[j].address_space)' = Sees(tasks[j].address_space),
         pc' \in Loading => tasks[j].address_space # root',
         WellMade(j)
  PROVE  WellMade(j)'
  BY DEF WellMade

(* The tasks made before, while another is being made.                     *)
LEMMA TasksStay ==
  ASSUME LoaderInv, pc \in Loading, tasks' = tasks, modules' = modules, root' = root,
         \A r \in Roots \ {root} : Sees(r)' = Sees(r)
  PROVE  \A j \in DOMAIN tasks' : WellMade(j)'
<1> SUFFICES ASSUME NEW j \in DOMAIN tasks PROVE WellMade(j)'
  OBVIOUS
<1>1. WellMade(j) /\ tasks[j].address_space \in Roots /\ tasks[j].address_space # root
  BY LoaderFacts DEF LoaderInv, WellMade
<1> QED
  BY <1>1, OneStays

(* No frame in the hands of the loader.                                    *)
LEMMA EmptyHands ==
  ASSUME LoaderInv, tasks' = tasks, held' = held,
         pc' \in {"create", "headers", "section", "stack", "idle"}
  PROVE  Hands'
  BY LoaderFacts DEF Hands

----------------------------------------------------------------------------
(* The actions of the loader.                                              *)

LEMMA StartsCopied ==
  ASSUME NEW h \in ProgramHeader, NEW sec,
         sec = [page |-> h.page, offset |-> h.offset, start |-> 0,
                memsz |-> h.memsz, filesz |-> h.filesz]
  PROVE  sec \in SectionType /\ Copied(h, sec)
<1>1. /\ h.page \in Nat /\ h.offset \in Offsets /\ h.offset \in Nat /\ h.memsz \in Nat /\ h.filesz \in Nat
  BY FrameSize DEF ProgramHeader, Offsets
<1>2. /\ sec.page = h.page /\ sec.offset = h.offset /\ sec.start = 0 /\ sec.memsz = h.memsz
      /\ sec.filesz = h.filesz
  OBVIOUS
<1>3. sec.page - h.page = 0
  BY <1>1, <1>2
<1>4. Reach(h, sec) = DEFAULT_FRAME_SIZE * 0 + h.offset - h.offset
  BY <1>2, <1>3 DEF Reach
<1>5. Reach(h, sec) = 0
  BY <1>1, <1>4, FrameSize
<1>6. sec \in SectionType
  BY <1>1 DEF SectionType
<1> QED
  BY <1>1, <1>2, <1>5, <1>6 DEF Copied

LEMMA NextHeaderKeeps ==
  ASSUME LoaderInv, NextHeader
  PROVE  LoaderInv'
<1> DEFINE hs == modules[i].headers
<1>1. /\ pc = "headers" /\ pc \in Loading /\ Front = 0
  BY DEF NextHeader, Loading, Front
<1>2. /\ entries' = entries /\ free' = free /\ held' = held /\ place' = place /\ panicked' = panicked
      /\ modules' = modules /\ data' = data /\ i' = i /\ root' = root
      /\ frame' = frame /\ stack' = stack /\ tasks' = tasks
  BY DEF NextHeader, vars
<1>3. /\ i \in DOMAIN modules /\ hs \in Seq(ProgramHeader) /\ header \in 1 .. Len(hs) + 1
      /\ Own(i, Sees(root)) /\ LoadedTo(i, Sees(root), hs, header, 0)
  BY <1>1, ModuleFacts
<1>4. Roots' = Roots /\ \A r : Sees(r)' = Sees(r)
  BY <1>2 DEF Roots, Sees
<1>5. \A j \in DOMAIN tasks' : WellMade(j)'
  BY <1>1, <1>2, <1>4, TasksStay
<1>6. Tree(entries', free', held', place')
  BY <1>2, LoaderFacts
<1>7. ASSUME pc' \in {"headers", "section", "stack"}, header' \in Nat, section' \in SectionType
      PROVE  Hands' /\ LoaderTypes'
  <2>1. Hands'
    BY <1>2, <1>7, EmptyHands
  <2>2. LoaderTypes'
    BY <1>2, <1>4, <1>7 DEF LoaderInv, LoaderTypes, Loading
  <2> QED
    BY <2>1, <2>2
<1>8. section \in SectionType /\ header \in Nat
  BY DEF LoaderInv, LoaderTypes
<1>9. CASE header > Len(hs)
  <2>1. pc' = "stack" /\ header' = header /\ section' = section
    BY <1>9 DEF NextHeader
  <2>2. header = Len(hs) + 1
    BY <1>3, <1>9
  <2>3. Front' = 0
    BY <2>1 DEF Front
  <2>4. Progress'
    BY <1>2, <1>3, <1>4, <2>1, <2>2, <2>3 DEF Progress
  <2> QED
    BY <1>5, <1>6, <1>7, <1>8, <2>1, <2>4 DEF LoaderInv
<1>10. CASE header <= Len(hs) /\ hs[header].headerType = 1
  <2> DEFINE h == hs[header]
  <2>1. header \in DOMAIN hs /\ h \in ProgramHeader
    BY <1>3, <1>10
  <2>2. /\ pc' = "section" /\ header' = header
        /\ section' = [page |-> h.page, offset |-> h.offset, start |-> 0,
                       memsz |-> h.memsz, filesz |-> h.filesz]
    <3>1. ~(header > Len(hs))
      BY <1>3, <1>10
    <3> QED
      BY <1>10, <3>1 DEF NextHeader
  <2>3. section' \in SectionType /\ Copied(h, section')
    BY <2>1, <2>2, StartsCopied
  <2>4. Front' = h.page
    BY <2>2 DEF Front
  <2>5. LoadedTo(i, Sees(root), hs, header, h.page)
    BY <1>3, <2>1, StartSection
  <2>6. Progress'
    BY <1>2, <1>3, <1>4, <1>10, <2>1, <2>2, <2>3, <2>4, <2>5 DEF Progress, Loads
  <2> QED
    BY <1>5, <1>6, <1>7, <1>8, <2>2, <2>3, <2>6 DEF LoaderInv
<1>11. CASE header <= Len(hs) /\ hs[header].headerType # 1
  <2>1. header \in DOMAIN hs
    BY <1>3, <1>11
  <2>2. pc' = pc /\ header' = header + 1 /\ section' = section
    <3>1. ~(header > Len(hs))
      BY <1>3, <1>11
    <3> QED
      BY <1>11, <3>1 DEF NextHeader
  <2>3. Front' = 0
    BY <1>1, <2>2 DEF Front
  <2>4. LoadedTo(i, Sees(root), hs, header + 1, 0)
    BY <1>3, <1>11, <2>1, SkipHeader DEF Loads
  <2>5. header + 1 \in 1 .. Len(hs) + 1 /\ header + 1 \in Nat
    BY <1>3, <2>1
  <2>6. Progress'
    BY <1>1, <1>2, <1>3, <1>4, <2>2, <2>3, <2>4, <2>5 DEF Progress
  <2> QED
    BY <1>1, <1>5, <1>6, <1>7, <1>8, <2>2, <2>5, <2>6 DEF LoaderInv
<1> QED
  BY <1>3, <1>9, <1>10, <1>11

LEMMA NextPageKeeps ==
  ASSUME LoaderInv, NextPage
  PROVE  LoaderInv'
<1> DEFINE hs == modules[i].headers
<1>1. /\ pc = "section" /\ pc \in Loading /\ Front = section.page
  BY DEF NextPage, Loading, Front
<1>2. /\ modules' = modules /\ i' = i /\ root' = root
      /\ section' = section /\ stack' = stack /\ tasks' = tasks
  BY DEF NextPage
<1>3. /\ i \in DOMAIN modules /\ hs \in Seq(ProgramHeader) /\ header \in 1 .. Len(hs) + 1
      /\ Own(i, Sees(root)) /\ LoadedTo(i, Sees(root), hs, header, section.page)
  BY <1>1, ModuleFacts
<1>4. /\ section \in SectionType /\ header \in Nat /\ frame \in Frames \cup {NULL}
      /\ header \in DOMAIN hs /\ Loads(hs[header]) /\ Copied(hs[header], section)
  BY <1>1 DEF LoaderInv, LoaderTypes, Progress
<1>5. CASE MorePages
  <2>1. /\ frame_alloc_zero /\ frame' = Taken /\ header' = header
        /\ pc' = IF panicked' THEN pc ELSE "copy"
    BY <1>5 DEF NextPage, Goto
  <2>2. /\ Tree(entries', free', held', place') /\ panicked' \in BOOLEAN
        /\ data' \in [Frames -> PageBytes] /\ Roots' = Roots
        /\ \A r \in Roots : Sees(r)' = Sees(r)
        /\ panicked' => held' = held /\ data' = data /\ Taken = NULL
        /\ ~panicked' => /\ Taken \in Frames \ held /\ held' = held \cup {Taken}
                         /\ data'[Taken] = ZeroPage
    BY <2>1, LoaderFacts, TakeFrame
  <2>3. pc' \in {"section", "copy"} /\ Front' = section.page
    BY <1>1, <1>2, <2>1 DEF Front
  <2>4. section.memsz > 0
    BY <1>5 DEF MorePages
  <2>5. \A j \in DOMAIN tasks' : WellMade(j)'
    BY <1>1, <1>2, <2>2, TasksStay
  <2>6. Sees(root)' = Sees(root)
    BY <1>2, <2>2, LoaderFacts DEF Sees
  <2>7. Progress'
    BY <1>2, <1>3, <1>4, <2>1, <2>3, <2>4, <2>6 DEF Progress
  <2>8. LoaderTypes'
    <3>1. frame' \in Frames \cup {NULL}
      BY <2>1, <2>2
    <3> QED
      BY <1>2, <2>1, <2>2, <2>3, <3>1 DEF LoaderInv, LoaderTypes, Loading
  <2>9. Hands'
    <3>1. CASE panicked'
      BY <1>1, <1>2, <2>1, <2>2, <3>1, EmptyHands
    <3>2. CASE ~panicked'
      <4>1. pc' = "copy" /\ frame' \in held' /\ data'[frame'] = ZeroPage
        BY <2>1, <2>2, <3>2
      <4>2. \A j \in DOMAIN tasks' : tasks'[j].task \in held' /\ tasks'[j].task # frame'
        BY <1>2, <2>1, <2>2, <3>2, LoaderFacts
      <4> QED
        BY <4>1, <4>2 DEF Hands, IsTask
    <3> QED
      BY <3>1, <3>2
  <2> QED
    BY <2>2, <2>5, <2>7, <2>8, <2>9 DEF LoaderInv
<1>6. CASE ~MorePages
  <2>1. /\ pc' = "headers" /\ header' = header + 1 /\ data' = data /\ frame' = frame
        /\ entries' = entries /\ free' = free /\ held' = held /\ place' = place
        /\ panicked' = panicked
    BY <1>6 DEF NextPage, vars
  <2>2. Roots' = Roots /\ \A r : Sees(r)' = Sees(r)
    BY <2>1 DEF Roots, Sees
  <2>3. LoadedTo(i, Sees(root), hs, header + 1, 0)
    BY <1>3, <1>4, <1>6, EndSection DEF MorePages
  <2>4. header + 1 \in 1 .. Len(hs) + 1 /\ header + 1 \in Nat
    BY <1>3, <1>4
  <2>5. Front' = 0
    BY <2>1 DEF Front
  <2>6. \A j \in DOMAIN tasks' : WellMade(j)'
    BY <1>1, <1>2, <2>2, TasksStay
  <2>7. Progress'
    BY <1>2, <1>3, <2>1, <2>2, <2>3, <2>4, <2>5 DEF Progress
  <2>8. Tree(entries', free', held', place')
    BY <2>1, LoaderFacts
  <2>9. Hands'
    BY <1>2, <2>1, EmptyHands
  <2>10. LoaderTypes'
    BY <1>2, <1>4, <2>1, <2>2, <2>4 DEF LoaderInv, LoaderTypes, Loading
  <2> QED
    BY <2>6, <2>7, <2>8, <2>9, <2>10 DEF LoaderInv
<1> QED
  BY <1>5, <1>6

LEMMA TakeStackKeeps ==
  ASSUME LoaderInv, TakeStack
  PROVE  LoaderInv'
<1>1. /\ pc = "stack" /\ pc \in Loading /\ Front = 0
  BY DEF TakeStack, Loading, Front
<1>2. /\ modules' = modules /\ i' = i /\ root' = root /\ header' = header
      /\ section' = section /\ frame' = frame /\ tasks' = tasks
      /\ frame_alloc_zero /\ stack' = Taken
      /\ pc' = IF panicked' THEN pc ELSE "task"
  BY DEF TakeStack, Goto
<1>3. /\ Tree(entries', free', held', place') /\ panicked' \in BOOLEAN
      /\ data' \in [Frames -> PageBytes] /\ Roots' = Roots
      /\ \A r \in Roots : Sees(r)' = Sees(r)
      /\ panicked' => held' = held /\ data' = data /\ Taken = NULL
      /\ ~panicked' => /\ Taken \in Frames \ held /\ held' = held \cup {Taken}
                       /\ data'[Taken] = ZeroPage
  BY <1>2, LoaderFacts, TakeFrame
<1>4. pc' \in {"stack", "task"} /\ Front' = 0
  BY <1>1, <1>2 DEF Front
<1>5. \A j \in DOMAIN tasks' : WellMade(j)'
  BY <1>1, <1>2, <1>3, TasksStay
<1>6. Sees(root)' = Sees(root)
  BY <1>2, <1>3, LoaderFacts DEF Sees
<1>7. Progress'
  BY <1>1, <1>2, <1>4, <1>6 DEF LoaderInv, Progress, Loading
<1>8. LoaderTypes'
  <2>1. stack' \in Frames \cup {NULL}
    BY <1>2, <1>3
  <2> QED
    BY <1>2, <1>3, <1>4, <2>1 DEF LoaderInv, LoaderTypes, Loading
<1>9. Hands'
  <2>1. CASE panicked'
    BY <1>1, <1>2, <1>3, <2>1, EmptyHands
  <2>2. CASE ~panicked'
    <3>1. pc' = "task" /\ stack' \in held' /\ data'[stack'] = ZeroPage
      BY <1>2, <1>3, <2>2
    <3>2. \A j \in DOMAIN tasks' : tasks'[j].task \in held' /\ tasks'[j].task # stack'
      BY <1>2, <1>3, <2>2, LoaderFacts
    <3> QED
      BY <3>1, <3>2 DEF Hands, IsTask
  <2> QED
    BY <2>1, <2>2
<1> QED
  BY <1>3, <1>5, <1>7, <1>8, <1>9 DEF LoaderInv

LEMMA TakeTaskKeeps ==
  ASSUME LoaderInv, TakeTask
  PROVE  LoaderInv'
<1>1. /\ pc = "task" /\ pc \in Loading /\ Front = 0
  BY DEF TakeTask, Loading, Front
<1>2. /\ modules' = modules /\ i' = i /\ root' = root /\ header' = header
      /\ section' = section /\ stack' = stack /\ tasks' = tasks
      /\ frame_alloc_zero /\ frame' = Taken
      /\ pc' = IF panicked' THEN pc ELSE "launch"
  BY DEF TakeTask, Goto
<1>3. /\ Tree(entries', free', held', place') /\ panicked' \in BOOLEAN
      /\ data' \in [Frames -> PageBytes] /\ Roots' = Roots
      /\ \A r \in Roots : Sees(r)' = Sees(r)
      /\ panicked' => held' = held /\ data' = data /\ Taken = NULL
      /\ ~panicked' => /\ Taken \in Frames \ held /\ held' = held \cup {Taken}
                       /\ \A f \in held : data'[f] = data[f]
  BY <1>2, LoaderFacts, TakeFrame
<1>4. pc' \in {"task", "launch"} /\ Front' = 0
  BY <1>1, <1>2 DEF Front
<1>5. \A j \in DOMAIN tasks' : WellMade(j)'
  BY <1>1, <1>2, <1>3, TasksStay
<1>6. Sees(root)' = Sees(root)
  BY <1>2, <1>3, LoaderFacts DEF Sees
<1>7. Progress'
  BY <1>1, <1>2, <1>4, <1>6 DEF LoaderInv, Progress, Loading
<1>8. LoaderTypes'
  <2>1. frame' \in Frames \cup {NULL}
    BY <1>2, <1>3
  <2> QED
    BY <1>2, <1>3, <1>4, <2>1 DEF LoaderInv, LoaderTypes, Loading
<1>9. Hands'
  <2>1. stack \in held /\ ~IsTask(stack) /\ data[stack] = ZeroPage
    BY <1>1 DEF LoaderInv, Hands
  <2>2. data'[stack] = ZeroPage /\ stack \in held' /\ ~IsTask(stack)'
    BY <1>2, <1>3, <2>1 DEF IsTask
  <2>3. \A j \in DOMAIN tasks' : tasks'[j].task \in held'
    BY <1>2, <1>3, LoaderFacts
  <2>4. CASE panicked'
    BY <1>1, <1>2, <2>2, <2>3, <2>4 DEF Hands, IsTask
  <2>5. CASE ~panicked'
    <3>1. pc' = "launch" /\ frame' \in held' /\ frame' # stack'
      BY <1>2, <1>3, <2>1, <2>5
    <3>2. \A j \in DOMAIN tasks' : tasks'[j].task # frame'
      BY <1>2, <1>3, <2>5, LoaderFacts
    <3> QED
      BY <1>2, <2>2, <2>3, <3>1, <3>2 DEF Hands, IsTask
  <2> QED
    BY <2>4, <2>5
<1> QED
  BY <1>3, <1>5, <1>7, <1>8, <1>9 DEF LoaderInv

(* A page written and mapped where the process owns what it sees.          *)
LEMMA StillOwn ==
  ASSUME NEW j, NEW V, NEW V2, NEW p, Own(j, V), NEW b,
         V2[p] = Seen(b), \A o \in Offsets : Clean(j, b[o]),
         \A q \in UserPages \ {p} : V2[q] = V[q]
  PROVE  Own(j, V2)
<1> SUFFICES ASSUME NEW q \in UserPages, V2[q].user, NEW o \in Offsets
             PROVE  Clean(j, V2[q].bytes[o])
  BY DEF Own
<1>1. CASE q = p
  <2>1. V2[q].bytes = b
    BY <1>1 DEF Seen
  <2> QED
    BY <2>1
<1>2. CASE q # p
  BY <1>2 DEF Own
<1> QED
  BY <1>1, <1>2

LEMMA CopyPageKeeps ==
  ASSUME LoaderInv, CopyPage
  PROVE  LoaderInv'
<1> DEFINE hs == modules[i].headers
           h  == hs[header]
           p  == PagePath(section.page)
           b  == Contents(i, header, section)
<1>1. /\ pc = "copy" /\ pc \in Loading /\ Front = section.page
  BY DEF CopyPage, Loading, Front
<1>2. /\ modules' = modules /\ i' = i /\ root' = root /\ header' = header
      /\ frame' = frame /\ stack' = stack /\ tasks' = tasks
      /\ mmap(root, p, frame)
      /\ pc' = IF panicked' THEN pc ELSE "section"
      /\ panicked' => data' = data /\ section' = section
      /\ ~panicked' =>
           /\ data' = [data EXCEPT ![frame] =
                         memcpy(frame, section.offset, i, header, section.start,
                                ToCopy(section.offset, section.filesz))]
           /\ section' = Advanced(section)
  BY DEF CopyPage, Goto, Advanced
<1>3. /\ i \in DOMAIN modules /\ i \in 1 .. MAX_MODULES
      /\ hs \in Seq(ProgramHeader) /\ header \in 1 .. Len(hs) + 1
      /\ \A s \in DOMAIN hs : HeaderFits(hs[s])
      /\ Own(i, Sees(root)) /\ LoadedTo(i, Sees(root), hs, header, section.page)
  BY <1>1, ModuleFacts
<1>4. /\ section \in SectionType /\ header \in Nat
      /\ header \in DOMAIN hs /\ Loads(h) /\ Copied(h, section) /\ section.memsz > 0
      /\ frame \in held /\ ~IsTask(frame) /\ data[frame] = ZeroPage
  BY <1>1 DEF LoaderInv, LoaderTypes, Progress, Hands
<1>5. h \in ProgramHeader /\ HeaderFits(h)
  BY <1>3, <1>4
<1>6. p \in UserPages
  <2>1. /\ Reach(h, section) \in 0 .. h.memsz - 1
        /\ PageOf(h, Reach(h, section)) = section.page
    BY <1>4, <1>5, NextByte
  <2> QED
    BY <1>5, <2>1 DEF HeaderFits
<1>7. memcpy(frame, section.offset, i, header, section.start,
             ToCopy(section.offset, section.filesz)) = b
  <2>1. header # 0
    BY <1>4, <1>3
  <2>2. \A k : SourceByte(i, header, k) = <<i, header, k>>
    BY <2>1 DEF SourceByte
  <2>3. \A o \in Offsets : data[frame][o] = NUL
    BY <1>4 DEF ZeroPage
  <2> QED
    BY <2>2, <2>3 DEF memcpy, Contents
<1>8. b \in PageBytes /\ \A o \in Offsets : Clean(i, b[o])
  BY <1>3, <1>4, ContentsClean
<1> HIDE DEF b
<1>9. /\ panicked' => data' = data
      /\ ~panicked' => data' = [data EXCEPT ![frame] = b]
  BY <1>2, <1>7
<1>10. /\ Tree(entries', free', held', place') /\ panicked' \in BOOLEAN
       /\ data' \in [Frames -> PageBytes]
       /\ Roots' = Roots
       /\ held' = IF panicked' THEN held ELSE held \ {frame}
       /\ panicked' => \A s \in Roots : View(entries', data', s) = Sees(s)
       /\ ~panicked' =>
            /\ View(entries', data', root)[p] = Seen(b)
            /\ \A q \in UserPages \ {p} : View(entries', data', root)[q] = Sees(root)[q]
            /\ \A s \in Roots \ {root} : View(entries', data', s) = Sees(s)
  BY <1>2, <1>4, <1>6, <1>8, <1>9, LoaderFacts, MapPage DEF Sees
<1>11. \A j \in DOMAIN tasks' : WellMade(j)'
  BY <1>1, <1>2, <1>10, TasksStay DEF Sees
<1>12. CASE panicked'
  <2>1. /\ pc' = "copy" /\ held' = held /\ data' = data /\ section' = section
        /\ Sees(root)' = Sees(root)
    BY <1>1, <1>2, <1>10, <1>12, LoaderFacts DEF Sees
  <2>2. Progress'
    BY <1>1, <1>2, <2>1 DEF LoaderInv, Progress, Front
  <2>3. Hands'
    BY <1>1, <1>2, <2>1 DEF LoaderInv, Hands, IsTask
  <2>4. LoaderTypes'
    BY <1>2, <1>10, <2>1 DEF LoaderInv, LoaderTypes, Loading
  <2> QED
    BY <1>10, <1>11, <2>2, <2>3, <2>4 DEF LoaderInv
<1>13. CASE ~panicked'
  <2>1. /\ pc' = "section" /\ held' = held \ {frame} /\ section' = Advanced(section)
        /\ Front' = section.page + 1
    BY <1>2, <1>10, <1>13 DEF Front, Advanced
  <2>2. section' \in SectionType /\ Copied(h, section')
    BY <1>4, <1>5, <2>1, CopiedOn
  <2>3. /\ Sees(root)'[p] = Seen(b)
        /\ \A q \in UserPages \ {p} : Sees(root)'[q] = Sees(root)[q]
    BY <1>2, <1>10, <1>13 DEF Sees
  <2>4. Own(i, Sees(root)')
    <3> DEFINE V == Sees(root)
               V2 == Sees(root)'
    <3>1. V2[p] = Seen(b) /\ \A q \in UserPages \ {p} : V2[q] = V[q]
      BY <2>3
    <3>2. Own(i, V)
      BY <1>3
    <3> HIDE DEF V, V2, p
    <3>3. Own(i, V2)
      BY <1>8, <3>1, <3>2, StillOwn
    <3> QED
      BY <3>3 DEF V2
  <2>5. LoadedTo(i, Sees(root)', hs, header, section.page + 1)
    BY <1>3, <1>4, <1>5, <2>3, OnePage DEF b
  <2>6. Progress'
    BY <1>2, <1>3, <1>4, <2>1, <2>2, <2>4, <2>5 DEF Progress
  <2>7. \A j \in DOMAIN tasks' : tasks'[j].task \in held'
    BY <1>2, <1>4, <2>1, LoaderFacts DEF IsTask
  <2>8. Hands'
    BY <2>1, <2>7 DEF Hands
  <2>9. LoaderTypes'
    BY <1>2, <1>10, <2>1, <2>2 DEF LoaderInv, LoaderTypes, Loading
  <2> QED
    BY <1>10, <1>11, <2>6, <2>8, <2>9 DEF LoaderInv
<1> QED
  BY <1>12, <1>13

(* The bytes of the stack page that make_userspace_process leaves.         *)
StackBytes(j, argSize, top) ==
  [o \in Offsets |-> IF top <= o /\ o - top < argSize THEN <<j, 0, o - top>> ELSE NUL]

LEMMA StackBytesFit ==
  ASSUME NEW j \in 1 .. MAX_MODULES, NEW argSize \in Offsets, NEW top \in Offsets
  PROVE  /\ StackBytes(j, argSize, top) \in PageBytes
         /\ \A o \in Offsets : Clean(j, StackBytes(j, argSize, top)[o])
<1>1. ASSUME NEW o \in Offsets
      PROVE  /\ StackBytes(j, argSize, top)[o] \in Bytes
             /\ Clean(j, StackBytes(j, argSize, top)[o])
  <2>1. o \in Nat /\ top \in Nat /\ 0 \in Nat
    BY FrameSize DEF Offsets
  <2>2. CASE top <= o /\ o - top < argSize
    <3> DEFINE k == o - top
    <3>1. k \in Nat
      BY <2>1, <2>2
    <3>2. StackBytes(j, argSize, top)[o] = <<j, 0, k>>
      BY <2>2 DEF StackBytes
    <3> HIDE DEF k
    <3>3. <<j, 0, k>> \in Bytes /\ Clean(j, <<j, 0, k>>)
      BY <2>1, <3>1, SourceIsClean
    <3> QED
      BY <3>2, <3>3
  <2>3. CASE ~(top <= o /\ o - top < argSize)
    <3>1. StackBytes(j, argSize, top)[o] = NUL
      BY <2>3 DEF StackBytes
    <3> QED
      BY <3>1, NulIsClean
  <2> QED
    BY <2>2, <2>3
<1>2. StackBytes(j, argSize, top) = [o \in Offsets |-> StackBytes(j, argSize, top)[o]]
  BY DEF StackBytes
<1> QED
  BY <1>1, <1>2 DEF PageBytes

LEMMA ArgumentsCopied ==
  ASSUME NEW f \in Frames, data[f] = ZeroPage, NEW top \in Offsets,
         modules[i].argSize \in Offsets
  PROVE  memcpy(f, top, i, 0, 0, modules[i].argSize + 1) = StackBytes(i, modules[i].argSize, top)
<1> DEFINE a == modules[i].argSize
<1>1. ASSUME NEW o \in Offsets
      PROVE  (IF top <= o /\ o < top + (a + 1) THEN SourceByte(i, 0, 0 + o - top) ELSE data[f][o])
               = (IF top <= o /\ o - top < a THEN <<i, 0, o - top>> ELSE NUL)
  <2>1. o \in Nat /\ top \in Nat /\ a \in Nat
    BY FrameSize DEF Offsets
  <2>2. data[f][o] = NUL
    BY DEF ZeroPage
  <2>3. \A k : SourceByte(i, 0, k) = IF k = a THEN NUL ELSE <<i, 0, k>>
    BY DEF SourceByte
  <2>4. 0 + o - top = o - top
    BY <2>1
  <2> HIDE DEF a
  <2>5. CASE top <= o /\ o - top < a
    <3>1. o < top + (a + 1) /\ o - top # a
      BY <2>1, <2>5
    <3> QED
      BY <2>3, <2>4, <2>5, <3>1
  <2>6. CASE top <= o /\ o - top = a
    <3>1. o < top + (a + 1) /\ ~(o - top < a)
      BY <2>1, <2>6
    <3> QED
      BY <2>3, <2>4, <2>6, <3>1
  <2>7. CASE ~(top <= o) \/ o - top > a
    <3>1. ~(top <= o /\ o < top + (a + 1)) /\ ~(top <= o /\ o - top < a)
      BY <2>1, <2>7
    <3> QED
      BY <2>2, <3>1
  <2> QED
    BY <2>1, <2>5, <2>6, <2>7
<1> QED
  BY <1>1 DEF memcpy, StackBytes

LEMMA Argues ==
  ASSUME NEW j, NEW V, NEW argSize \in Offsets,
         V[StackPage] = Seen(StackBytes(j, argSize, DEFAULT_FRAME_SIZE - PaddedArgSize(argSize)))
  PROVE  Argued(j, V, argSize, DEFAULT_FRAME_SIZE - PaddedArgSize(argSize))
<1> DEFINE top == DEFAULT_FRAME_SIZE - PaddedArgSize(argSize)
<1>1. top \in Offsets /\ top % STACK_ALIGNMENT = 0 /\ top + argSize < DEFAULT_FRAME_SIZE
  BY PaddedFits
<1>2. V[StackPage].user /\ V[StackPage].bytes = StackBytes(j, argSize, top)
  BY DEF Seen
<1> HIDE DEF top
<1>3. ASSUME NEW o \in top .. DEFAULT_FRAME_SIZE - 1
      PROVE  StackBytes(j, argSize, top)[o] = IF o - top < argSize THEN <<j, 0, o - top>> ELSE NUL
  <2>1. o \in Offsets /\ top <= o
    BY <1>1, FrameSize DEF Offsets
  <2> QED
    BY <2>1 DEF StackBytes
<1>4. Argued(j, V, argSize, top)
  BY <1>1, <1>2, <1>3 DEF Argued
<1> QED
  BY <1>4 DEF top

LEMMA LaunchKeeps ==
  ASSUME LoaderInv, Launch
  PROVE  LoaderInv'
<1> DEFINE hs  == modules[i].headers
           a   == modules[i].argSize
           top == DEFAULT_FRAME_SIZE - PaddedArgSize(a)
           b   == StackBytes(i, a, top)
           new == [task |-> frame, rsp |-> top, rdi |-> top, address_space |-> root]
<1>1. /\ pc = "launch" /\ pc \in Loading /\ Front = 0
  BY DEF Launch, Loading, Front
<1>2. /\ modules' = modules /\ root' = root /\ header' = header /\ section' = section
      /\ frame' = frame /\ stack' = stack
      /\ mmap(root, StackPage, stack)
      /\ pc' = IF panicked' THEN pc ELSE "create"
      /\ i' = IF panicked' THEN i ELSE i + 1
      /\ panicked' => data' = data /\ tasks' = tasks
      /\ ~panicked' => /\ data' = [data EXCEPT ![stack] = memcpy(stack, top, i, 0, 0, a + 1)]
                       /\ tasks' = Append(tasks, new)
  BY DEF Launch, Goto
<1>3. /\ i \in DOMAIN modules /\ i \in 1 .. MAX_MODULES
      /\ hs \in Seq(ProgramHeader) /\ a \in Offsets
      /\ \A s \in DOMAIN hs : HeaderFits(hs[s])
      /\ Own(i, Sees(root)) /\ LoadedTo(i, Sees(root), hs, header, 0)
  BY <1>1, ModuleFacts
<1>4. /\ header = Len(hs) + 1
      /\ stack \in held /\ ~IsTask(stack) /\ data[stack] = ZeroPage
      /\ frame \in held /\ ~IsTask(frame) /\ stack # frame
  BY <1>1 DEF LoaderInv, Progress, Hands
<1>5. top \in Offsets
  BY <1>3, PaddedFits
<1>6. stack \in Frames /\ frame \in Frames
  BY <1>4, LoaderFacts
<1>7. memcpy(stack, top, i, 0, 0, a + 1) = b
  BY <1>3, <1>4, <1>5, <1>6, ArgumentsCopied
<1>8. b \in PageBytes /\ \A o \in Offsets : Clean(i, b[o])
  BY <1>3, <1>5, StackBytesFit
<1>9. /\ panicked' => data' = data
      /\ ~panicked' => data' = [data EXCEPT ![stack] = b]
  BY <1>2, <1>7
<1> HIDE DEF b
<1>10. /\ Tree(entries', free', held', place') /\ panicked' \in BOOLEAN
       /\ data' \in [Frames -> PageBytes]
       /\ Roots' = Roots
       /\ held' = IF panicked' THEN held ELSE held \ {stack}
       /\ panicked' => \A s \in Roots : View(entries', data', s) = Sees(s)
       /\ ~panicked' =>
            /\ View(entries', data', root)[StackPage] = Seen(b)
            /\ \A q \in UserPages \ {StackPage} : View(entries', data', root)[q] = Sees(root)[q]
            /\ \A s \in Roots \ {root} : View(entries', data', s) = Sees(s)
  BY <1>2, <1>4, <1>8, <1>9, LoaderFacts, MapPage, StackAssumption DEF Sees
<1>11. CASE panicked'
  <2>1. /\ pc' = "launch" /\ held' = held /\ data' = data /\ i' = i /\ tasks' = tasks
        /\ Sees(root)' = Sees(root) /\ Front' = 0
    BY <1>1, <1>2, <1>10, <1>11, LoaderFacts DEF Sees, Front
  <2>2. Progress'
    BY <1>1, <1>2, <2>1 DEF LoaderInv, Progress
  <2>3. Hands'
    BY <1>1, <1>2, <2>1 DEF LoaderInv, Hands, IsTask
  <2>4. LoaderTypes'
    BY <1>2, <1>10, <2>1 DEF LoaderInv, LoaderTypes, Loading
  <2>5. \A j \in DOMAIN tasks' : WellMade(j)'
    BY <1>1, <1>2, <1>10, <1>11, <2>1, TasksStay DEF Sees
  <2> QED
    BY <1>10, <2>2, <2>3, <2>4, <2>5 DEF LoaderInv
<1>12. CASE ~panicked'
  <2>1. /\ pc' = "create" /\ held' = held \ {stack} /\ i' = i + 1 /\ tasks' = Append(tasks, new)
    BY <1>2, <1>10, <1>12
  <2>2. /\ tasks \in Seq(TaskType(Roots)) /\ Len(tasks) = i - 1 /\ i \in Nat /\ root \in Roots
    BY <1>3 DEF LoaderInv, LoaderTypes
  <2>3. new \in TaskType(Roots)
    BY <1>5, <1>6, <2>2 DEF TaskType
  <2>4. /\ new.task = frame /\ new.rsp = top /\ new.rdi = top /\ new.address_space = root
    OBVIOUS
  <2> HIDE DEF new, top
  <2>5. /\ tasks' \in Seq(TaskType(Roots)) /\ Len(tasks') = i' - 1
        /\ DOMAIN tasks' = DOMAIN tasks \cup {i} /\ tasks'[i] = new
        /\ \A j \in DOMAIN tasks : j # i /\ tasks'[j] = tasks[j]
    BY <2>1, <2>2, <2>3
  <2>6. LoaderTypes'
    <3>1. i' \in 1 .. Len(modules') + 1
      <4>1. modules \in BootModules
        BY DEF LoaderInv, LoaderTypes
      <4> QED
        BY <1>2, <1>3, <2>1, <4>1, ModulesFit
    <3> QED
      BY <1>2, <1>10, <2>1, <2>5, <3>1 DEF LoaderInv, LoaderTypes, Loading
  <2>7. Progress'
    BY <2>1 DEF Progress, Loading
  <2>8. Hands'
    <3>1. \A j \in DOMAIN tasks' : tasks'[j].task \in held'
      <4>1. \A j \in DOMAIN tasks : tasks[j].task \in held \ {stack}
        BY <1>4, LoaderFacts DEF IsTask
      <4> QED
        BY <1>4, <2>1, <2>4, <2>5, <4>1
    <3> QED
      BY <2>1, <3>1 DEF Hands
  <2>9. ASSUME NEW j \in DOMAIN tasks
        PROVE  WellMade(j)'
    <3>1. /\ WellMade(j) /\ tasks[j].address_space \in Roots /\ tasks[j].address_space # root
      BY <1>1, LoaderFacts DEF LoaderInv, WellMade
    <3>2. tasks'[j] = tasks[j] /\ pc' \notin Loading
      BY <2>1, <2>5 DEF Loading
    <3>3. View(entries', data', tasks[j].address_space) = Sees(tasks[j].address_space)
      BY <1>10, <1>12, <3>1
    <3>4. Sees(tasks[j].address_space)' = Sees(tasks[j].address_space)
      BY <3>2, <3>3 DEF Sees
    <3> QED
      BY <1>2, <3>1, <3>2, <3>4 DEF WellMade
  <2>10. ASSUME NEW j, j = i
         PROVE  WellMade(j)'
    <3> DEFINE V  == Sees(root)
               V2 == View(entries', data', root)
    <3>1. V2[StackPage] = Seen(b) /\ \A q \in UserPages \ {StackPage} : V2[q] = V[q]
      BY <1>10, <1>12
    <3>2. Own(i, V) /\ LoadedTo(i, V, hs, Len(hs) + 1, 0)
      BY <1>3, <1>4
    <3>3. Sees(root)' = V2
      BY <1>2 DEF Sees
    <3> HIDE DEF V, V2
    <3>4. Own(i, V2)
      <4> DEFINE p == StackPage
      <4>1. V2[p] = Seen(b) /\ \A q \in UserPages \ {p} : V2[q] = V[q]
        BY <3>1
      <4> HIDE DEF p
      <4> QED
        BY <1>8, <3>2, <4>1, StillOwn
    <3>5. LoadedTo(i, V2, hs, Len(hs) + 1, 0)
      BY <1>3, <3>1, <3>2, OtherPage
    <3>6. Argued(i, V2, a, top)
      BY <1>3, <3>1, Argues DEF b, top
    <3>7. tasks'[j].address_space = root /\ tasks'[j].rsp = top /\ tasks'[j].rdi = top
      BY <2>4, <2>5, <2>10
    <3>8. View(entries', data', tasks'[j].address_space) = V2 /\ pc' \notin Loading
      BY <2>1, <3>7 DEF V2, Loading
    <3> QED
      BY <1>2, <2>10, <3>4, <3>5, <3>6, <3>7, <3>8 DEF WellMade, Sees
  <2> QED
    BY <1>10, <2>5, <2>6, <2>7, <2>8, <2>9, <2>10 DEF LoaderInv
<1> QED
  BY <1>11, <1>12

LEMMA MoreTasks ==
  ASSUME NEW S, NEW S2, S \subseteq S2, NEW ts \in Seq(TaskType(S))
  PROVE  ts \in Seq(TaskType(S2))
<1>1. TaskType(S) \subseteq TaskType(S2)
  BY DEF TaskType
<1> HIDE DEF TaskType
<1> QED
  BY <1>1

LEMMA NextModuleKeeps ==
  ASSUME LoaderInv, NextModule
  PROVE  LoaderInv'
<1>1. /\ pc = "create" /\ pc \notin Loading
      /\ modules' = modules /\ data' = data /\ i' = i /\ section' = section
      /\ frame' = frame /\ stack' = stack /\ tasks' = tasks /\ header' = 1
  BY DEF NextModule, Loading
<1>2. /\ LoaderTypes /\ i \in 1 .. Len(modules) + 1 /\ tasks \in Seq(TaskType(Roots))
      /\ data \in [Frames -> PageBytes]
      /\ \A j \in DOMAIN tasks : WellMade(j) /\ tasks[j].address_space \in Roots
  BY LoaderFacts DEF LoaderInv, LoaderTypes
<1>3. ASSUME /\ Tree(entries', free', held', place') /\ panicked' \in BOOLEAN /\ held' = held
             /\ \A r \in Roots : r \in Roots' /\ Sees(r)' = Sees(r)
             /\ root' \in Roots' /\ pc' \in {"create", "headers", "idle"} /\ Progress'
             /\ pc' \in Loading => root' \notin Roots
      PROVE  LoaderInv'
  <2>1. tasks \in Seq(TaskType(Roots'))
    BY <1>2, <1>3, MoreTasks
  <2>2. LoaderTypes'
    BY <1>1, <1>2, <1>3, <2>1 DEF LoaderTypes, Loading
  <2>3. Hands'
    BY <1>1, <1>3, EmptyHands
  <2>4. \A j \in DOMAIN tasks' : WellMade(j)'
    <3> SUFFICES ASSUME NEW j \in DOMAIN tasks PROVE WellMade(j)'
      BY <1>1
    <3>1. pc' \in Loading => tasks[j].address_space # root'
      BY <1>2, <1>3
    <3>2. Sees(tasks[j].address_space)' = Sees(tasks[j].address_space)
      BY <1>1, <1>2, <1>3 DEF Sees
    <3> QED
      BY <1>1, <1>2, <3>1, <3>2, OneStays
  <2> QED
    BY <1>3, <2>2, <2>3, <2>4 DEF LoaderInv
<1>4. CASE i > Len(modules)
  <2>1. /\ entries' = entries /\ free' = free /\ held' = held /\ place' = place
        /\ panicked' = panicked /\ root' = root /\ pc' = "idle"
    BY <1>4 DEF NextModule, vars
  <2>2. Progress'
    BY <2>1 DEF Progress, Loading
  <2>3. Roots' = Roots /\ \A r \in Roots : Sees(r)' = Sees(r)
    BY <1>1, <2>1 DEF Roots, Sees
  <2> QED
    BY <1>3, <2>1, <2>2, <2>3, LoaderFacts DEF Loading
<1>5. CASE ~(i > Len(modules))
  <2>1. /\ create_address_space
        /\ root' = IF panicked' THEN root ELSE CHOOSE f \in Roots' \ Roots : TRUE
        /\ pc' = IF panicked' THEN pc ELSE "headers"
    BY <1>5 DEF NextModule, Goto
  <2>2. /\ Tree(entries', free', held', place') /\ panicked' \in BOOLEAN /\ held' = held
        /\ \A r \in Roots : r \in Roots' /\ Sees(r)' = Sees(r)
        /\ ~panicked' => /\ (CHOOSE f \in Roots' \ Roots : TRUE) \in Roots' \ Roots
                         /\ \A r \in Roots' \ Roots, p \in UserPages : ~View(entries', data', r)[p].user
    BY <1>1, <2>1, LoaderFacts, MakeSpace DEF Sees
  <2>3. CASE panicked'
    <3>1. root' = root /\ pc' = "create"
      BY <1>1, <2>1, <2>3
    <3>2. Progress'
      BY <3>1 DEF Progress, Loading
    <3> QED
      BY <1>3, <2>2, <3>1, <3>2, LoaderFacts DEF Loading
  <2>4. CASE ~panicked'
    <3>1. root' \in Roots' \ Roots /\ pc' = "headers"
      BY <2>1, <2>2, <2>4
    <3>2. i \in DOMAIN modules /\ modules[i].headers \in Seq(ProgramHeader)
      <4>1. i \in DOMAIN modules
        BY <1>2, <1>5, ModulesFit DEF LoaderTypes
      <4> QED
        BY <1>2, <4>1, ModulesFit DEF LoaderTypes, ModuleFits
    <3>3. Own(i, Sees(root)')
      BY <2>2, <2>4, <3>1 DEF Own, Sees
    <3>4. LoadedTo(i, Sees(root)', modules[i].headers, 1, 0)
      BY <3>2, FirstHeader
    <3>5. Front' = 0
      BY <3>1 DEF Front
    <3>6. Progress'
      BY <1>1, <3>1, <3>2, <3>3, <3>4, <3>5 DEF Progress
    <3> QED
      BY <1>3, <2>2, <3>1, <3>6
  <2> QED
    BY <2>3, <2>4
<1> QED
  BY <1>4, <1>5

LEMMA InitLoaderInv ==
  ASSUME ProcessesInit
  PROVE  LoaderInv
<1>1. /\ Init /\ modules \in BootModules
      /\ data = [f \in Frames |-> [o \in Offsets |-> Stale]]
      /\ pc = "create" /\ i = 1 /\ root = kernel_pml4 /\ header = 1
      /\ section = NoSection /\ frame = NULL /\ stack = NULL /\ tasks = <<>>
  BY DEF ProcessesInit
<1>2. Tree(entries, free, held, place) /\ panicked \in BOOLEAN
  BY <1>1, InitTree DEF AInv
<1>3. root \in Roots
  BY <1>1, <1>2, RootsNow, StaticLevels, KernelPlaces DEF RootsOf
<1>4. data \in [Frames -> PageBytes]
  <2>1. [o \in Offsets |-> Stale] \in PageBytes
    BY DEF PageBytes, Bytes
  <2> QED
    BY <1>1, <2>1
<1>5. section \in SectionType
  BY <1>1, FrameSize DEF SectionType, NoSection, Offsets
<1>6. DOMAIN tasks = {} /\ Len(tasks) = 0
  BY <1>1
<1>7. LoaderTypes
  <2>1. tasks \in Seq(TaskType(Roots))
    BY <1>1
  <2>2. i \in 1 .. Len(modules) + 1
    BY <1>1, ModulesFit
  <2> QED
    BY <1>1, <1>2, <1>3, <1>4, <1>5, <1>6, <2>1, <2>2 DEF LoaderTypes
<1>8. Hands
  BY <1>1, <1>6 DEF Hands
<1>9. Progress
  BY <1>1 DEF Progress, Loading
<1> QED
  BY <1>2, <1>6, <1>7, <1>8, <1>9 DEF LoaderInv

(* What the processor and the devices do while the loop is not running.    *)
LEMMA LoaderWaits ==
  ASSUME LoaderInv, UNCHANGED <<vars, processVars>>
  PROVE  LoaderInv'
<1>1. /\ entries' = entries /\ free' = free /\ held' = held /\ place' = place /\ panicked' = panicked
      /\ modules' = modules /\ data' = data /\ pc' = pc /\ i' = i /\ root' = root
      /\ header' = header /\ section' = section /\ frame' = frame /\ stack' = stack /\ tasks' = tasks
  BY DEF vars, processVars
<1>2. Roots' = Roots /\ \A r : Sees(r)' = Sees(r)
  BY <1>1 DEF Roots, Sees
<1>3. LoaderTypes'
  BY <1>1, <1>2 DEF LoaderInv, LoaderTypes
<1>4. Hands'
  BY <1>1 DEF LoaderInv, Hands, IsTask
<1>5. Progress'
  BY <1>1, <1>2 DEF LoaderInv, Progress, Front
<1>6. \A j \in DOMAIN tasks : WellMade(j)'
  BY <1>1, <1>2, OneStays DEF LoaderInv, WellMade
<1> QED
  BY <1>1, <1>3, <1>4, <1>5, <1>6 DEF LoaderInv

LEMMA LoaderStepKeeps ==
  ASSUME LoaderInv, ProcessesNext
  PROVE  LoaderInv'
BY NextModuleKeeps, NextHeaderKeeps, NextPageKeeps, CopyPageKeeps, TakeStackKeeps, TakeTaskKeeps,
   LaunchKeeps DEF ProcessesNext

----------------------------------------------------------------------------
(* What follows for the properties of the runs.                            *)

LEMMA LoaderIsTyped ==
  ASSUME LoaderInv
  PROVE  ProcessesTypeOK
<1>1. Types(entries, free, held, place) /\ LoaderTypes
  BY DEF LoaderInv, Tree
<1>2. TypeOK
  BY <1>1 DEF Types, LoaderTypes, TypeOK, EntryType, PlaceSeq
<1> QED
  BY <1>1, <1>2 DEF LoaderTypes, ProcessesTypeOK, PageBytes, Loading, SectionType, TaskType

(* A page that is the user's shows the bytes of its frame.                 *)
LEMMA SeesPage ==
  ASSUME NEW r, NEW p \in UserPages
  PROVE  /\ Translate(r, p).user => Sees(r)[p].user /\ Sees(r)[p].bytes = data[Translate(r, p).frame]
         /\ Sees(r)[p].user => Translate(r, p).user
BY TranslateIs DEF Sees, View, Shown

LEMMA LoaderLoads ==
  ASSUME LoaderInv
  PROVE  ProgramLoaded
<1> SUFFICES ASSUME NEW j \in DOMAIN tasks, NEW s \in DOMAIN modules[j].headers, IsLoaded(j, s),
                    NEW k \in 0 .. modules[j].headers[s].memsz - 1
             PROVE  LET h == modules[j].headers[s]
                        n == PageOf(h, k)
                    IN \/ \E s2 \in s + 1 .. Len(modules[j].headers) :
                            IsLoaded(j, s2) /\ n \in PagesOf(j, s2)
                       \/ /\ Translate(tasks[j].address_space, PagePath(n)).user
                          /\ Byte(tasks[j], PagePath(n), OffsetOf(h, k))
                               = IF k < h.filesz THEN <<j, s, k>> ELSE NUL
  BY DEF ProgramLoaded, PageOf, OffsetOf
<1> DEFINE hs == modules[j].headers
           h  == hs[s]
           n  == PageOf(h, k)
           t  == tasks[j]
           V  == Sees(t.address_space)
<1>1. /\ modules \in BootModules /\ j \in DOMAIN modules
  <2>1. modules \in BootModules /\ i \in 1 .. Len(modules) + 1 /\ Len(tasks) = i - 1 /\ tasks \in Seq(TaskType(Roots))
    BY DEF LoaderInv, LoaderTypes
  <2> QED
    BY <2>1, ModulesFit
<1>2. hs \in Seq(ProgramHeader) /\ HeaderFits(h)
  BY <1>1, ModulesFit DEF ModuleFits
<1>3. LoadedTo(j, V, hs, Len(hs) + 1, 0) /\ Loads(h)
  BY DEF LoaderInv, WellMade, IsLoaded, Loads
<1>4. Finished(Len(hs) + 1, 0, s, n)
  BY <1>2 DEF Finished
<1>5. Covered(hs, Len(hs) + 1, 0, s, n) \/ InPlace(j, V, h, s, k)
  BY <1>3, <1>4 DEF LoadedTo
<1>6. CASE Covered(hs, Len(hs) + 1, 0, s, n)
  BY <1>6 DEF Covered, IsLoaded, Loads, PagesOf, PagesIn, PageOf
<1>7. CASE InPlace(j, V, h, s, k)
  <2>1. PagePath(n) \in UserPages
    BY <1>2 DEF HeaderFits
  <2> DEFINE p == PagePath(n)
             o == OffsetOf(h, k)
  <2>2. V[p].user /\ V[p].bytes[o] = IF k < h.filesz THEN <<j, s, k>> ELSE NUL
    BY <1>7 DEF InPlace, ByteOf
  <2> HIDE DEF p, o
  <2>3. /\ Translate(t.address_space, p).user
        /\ V[p].bytes = data[Translate(t.address_space, p).frame]
    BY <2>1, <2>2, SeesPage DEF p
  <2>4. Byte(t, p, o) = IF k < h.filesz THEN <<j, s, k>> ELSE NUL
    BY <2>2, <2>3 DEF Byte
  <2> QED
    BY <2>3, <2>4 DEF p, o
<1> QED
  BY <1>5, <1>6, <1>7

LEMMA LoaderArgues ==
  ASSUME LoaderInv
  PROVE  CommandLineOnStack
<1> SUFFICES ASSUME NEW j \in DOMAIN tasks
             PROVE  LET t == tasks[j]
                        argSize == modules[j].argSize
                    IN /\ t.rsp = t.rdi /\ t.rsp % STACK_ALIGNMENT = 0
                       /\ t.rdi + argSize < DEFAULT_FRAME_SIZE
                       /\ Translate(t.address_space, StackPage).user
                       /\ \A o \in t.rdi .. DEFAULT_FRAME_SIZE - 1 :
                            Byte(t, StackPage, o) = IF o - t.rdi < argSize THEN <<j, 0, o - t.rdi>> ELSE NUL
  BY DEF CommandLineOnStack
<1> DEFINE t == tasks[j]
           V == Sees(t.address_space)
<1>1. t.rsp = t.rdi /\ Argued(j, V, modules[j].argSize, t.rdi)
  BY DEF LoaderInv, WellMade
<1>2. /\ Translate(t.address_space, StackPage).user
      /\ V[StackPage].bytes = data[Translate(t.address_space, StackPage).frame]
  BY <1>1, SeesPage, StackAssumption DEF Argued
<1>3. \A o : Byte(t, StackPage, o) = V[StackPage].bytes[o]
  BY <1>2 DEF Byte
<1> HIDE DEF V, t
<1>4. /\ t.rsp % STACK_ALIGNMENT = 0 /\ t.rdi + modules[j].argSize < DEFAULT_FRAME_SIZE
      /\ \A o \in t.rdi .. DEFAULT_FRAME_SIZE - 1 :
           V[StackPage].bytes[o] = IF o - t.rdi < modules[j].argSize THEN <<j, 0, o - t.rdi>> ELSE NUL
  BY <1>1 DEF Argued
<1> QED
  BY <1>1, <1>2, <1>3, <1>4 DEF t

LEMMA LoaderIsolates ==
  ASSUME LoaderInv
  PROVE  ProcessIsolation
<1>1. UserIsolation
  BY LoaderFacts, TreeIsolates
<1>2. ASSUME NEW j \in DOMAIN tasks, NEW p \in UserPages,
             Translate(tasks[j].address_space, p).frame # NULL
      PROVE  LET f == Translate(tasks[j].address_space, p).frame IN
             /\ \A t2 \in {tasks[j2] : j2 \in DOMAIN tasks} : f # t2.task
             /\ \A o \in Offsets : Clean(j, data[f][o])
  <2> DEFINE r == tasks[j].address_space
             f == Translate(r, p).frame
  <2>1. Translation(entries, r, p) # Unmapped
    BY <1>2, TranslateIs DEF Unmapped
  <2>2. r \in RootsOf(place)
    BY LoaderFacts, RootsNow
  <2>3. Translate(r, p).user /\ f \notin held
    BY <2>1, <2>2, UserFrame, TranslateIs, LoaderFacts
  <2>4. \A j2 \in DOMAIN tasks : f # tasks[j2].task
    BY <2>3, LoaderFacts
  <2>5. Sees(r)[p].user /\ Sees(r)[p].bytes = data[f]
    BY <2>3, SeesPage
  <2>6. Own(j, Sees(r))
    BY DEF LoaderInv, WellMade
  <2> HIDE DEF r, f
  <2>7. \A o \in Offsets : Clean(j, data[f][o])
    BY <2>5, <2>6 DEF Own
  <2> QED
    BY <2>4, <2>7 DEF f, r
<1> QED
  BY <1>1, <1>2 DEF ProcessIsolation, Clean

----------------------------------------------------------------------------
(* The frames are accounted for.  Uses of frames are named as FramesFor    *)
(* and TablesFor do; the inductive invariant counts those so far.          *)

PageNames(j, pages) == {<<j, "page", x>> : x \in pages}
PathNames(j, paths) == {<<j, "table", q>> : q \in Prefixes(paths)}
PathsTo(pages)      == {PagePath(x[2]) : x \in pages}

(* The pages of the headers hs that are Finished.                          *)
SectionDone(hs, head, front, s) ==
  {<<s, n>> : n \in {m \in PagesIn(hs[s]) : Finished(head, front, s, m)}}
PagesDone(hs, head, front) ==
  UNION {SectionDone(hs, head, front, s) : s \in {t \in DOMAIN hs : Loads(hs[t])}}

(* Those of the module being loaded that are mapped, and those that have   *)
(* their frame.                                                            *)
Mapped == PagesDone(modules[i].headers, header, Front)
Backed == PagesDone(modules[i].headers, header, IF pc = "copy" THEN section.page + 1 ELSE Front)

OldFrames == UNION {FramesFor(j) : j \in 1 .. i - 1}
OldTables == UNION {TablesFor(j) : j \in 1 .. i - 1}

FrameNames ==
  OldFrames
    \cup (IF pc \in Loading THEN PageNames(i, Backed) ELSE {})
    \cup (IF pc \in {"task", "launch"} THEN {<<i, "stack", <<>>>>} ELSE {})
    \cup (IF pc = "launch" THEN {<<i, "task", <<>>>>} ELSE {})

TableNames ==
  OldTables
    \cup (IF pc \in Loading THEN {<<i, "table", <<>>>>} \cup PathNames(i, PathsTo(Mapped)) ELSE {})

(* The spaces of the modules begun, and the place of a table in them.      *)
Begun  == IF pc \in Loading THEN i ELSE i - 1
TheirSpaces ==
  [j \in 1 .. Begun |-> IF j \in DOMAIN tasks THEN tasks[j].address_space ELSE root]
PlaceOf(r, q) == Top(r) \o q
Site(sp, t)   == PlaceOf(sp[t[1]], t[3])

Used(P)     == {f \in Frames : Level(P[f]) # 0}
PlacesOf(P) == {P[f] : f \in Used(P)}

(* The tables are those of the names T in the spaces sp, each once, and    *)
(* there are as many other frames in use as names in S.                    *)
Counts(sp, F, P, S, T) ==
  /\ PlacesOf(P) = {Site(sp, t) : t \in T}
  /\ Cardinality(Frames \ (F \cup Used(P))) = Cardinality(S)

CountInv ==
  /\ TheirSpaces \in [1 .. Begun -> Roots \ {kernel_pml4}]
  /\ \A j, k \in 1 .. Begun : TheirSpaces[j] = TheirSpaces[k] => j = k
  /\ Counts(TheirSpaces, free, place, FrameNames, TableNames)

Overflows == Cardinality(FramesForFirst(i)) > Cardinality(Frames)

AccountInv == IF panicked THEN Overflows ELSE CountInv

----------------------------------------------------------------------------
(* Counting.                                                               *)

LEMMA FiniteImage ==
  ASSUME NEW S, IsFiniteSet(S), NEW f
  PROVE  IsFiniteSet({f[x] : x \in S})
<1> DEFINE T == {f[x] : x \in S}
           g == [x \in S |-> f[x]]
<1>1. g \in Surjection(S, T)
  BY DEF Surjection
<1> QED
  BY <1>1, FS_Surjection

LEMMA FiniteUnion ==
  ASSUME NEW S, IsFiniteSet(S), NEW f, \A x \in S : IsFiniteSet(f[x])
  PROVE  IsFiniteSet(UNION {f[x] : x \in S})
<1> DEFINE T == {f[x] : x \in S}
<1>1. IsFiniteSet(T)
  BY FiniteImage
<1>2. \A y \in T : IsFiniteSet(y)
  OBVIOUS
<1> HIDE DEF T
<1>3. IsFiniteSet(UNION T)
  BY <1>1, <1>2, FS_UNION
<1> QED
  BY <1>3 DEF T

(* Two sets with names from the same set, each name given once.            *)
LEMMA SameSize ==
  ASSUME NEW U, IsFiniteSet(U), NEW T, NEW g, NEW h,
         {g[f] : f \in U} = {h[t] : t \in T},
         \A e, f \in U : g[e] = g[f] => e = f,
         \A s, t \in T : h[s] = h[t] => s = t
  PROVE  IsFiniteSet(T) /\ Cardinality(T) = Cardinality(U)
<1> DEFINE b == [t \in T |-> CHOOSE f \in U : g[f] = h[t]]
<1>1. \A t \in T : b[t] \in U /\ g[b[t]] = h[t]
  <2> TAKE t \in T
  <2>1. h[t] \in {g[f] : f \in U}
    OBVIOUS
  <2>2. PICK f \in U : g[f] = h[t]
    BY <2>1
  <2> QED
    BY <2>2
<1>2. b \in [T -> U]
  BY <1>1
<1>3. \A f \in U : \E t \in T : b[t] = f
  <2> TAKE f \in U
  <2>1. g[f] \in {h[t] : t \in T}
    OBVIOUS
  <2>2. PICK t \in T : g[f] = h[t]
    BY <2>1
  <2>3. b[t] = f
    BY <1>1, <2>2
  <2> QED
    BY <2>3
<1>4. \A s, t \in T : b[s] = b[t] => s = t
  BY <1>1
<1> HIDE DEF b
<1>5. b \in Injection(T, U) /\ b \in Surjection(T, U)
  BY <1>2, <1>3, <1>4 DEF Injection, Surjection, IsInjective
<1> QED
  BY <1>5, FS_Injection

----------------------------------------------------------------------------
(* The uses of frames.                                                     *)

(* The parts of a name.                                                    *)
LEMMA NameParts ==
  ASSUME NEW j, NEW u, NEW x, NEW k, NEW v, NEW y, <<j, u, x>> = <<k, v, y>>
  PROVE  j = k /\ u = v /\ x = y
  OBVIOUS

LEMMA InPagesDone ==
  ASSUME NEW hs, NEW head, NEW front, NEW x
  PROVE  x \in PagesDone(hs, head, front) <=>
           \E s \in DOMAIN hs : Loads(hs[s]) /\
             \E n \in PagesIn(hs[s]) : x = <<s, n>> /\ Finished(head, front, s, n)
<1>1. x \in PagesDone(hs, head, front) <=>
        \E s \in DOMAIN hs : Loads(hs[s]) /\ x \in SectionDone(hs, head, front, s)
  BY DEF PagesDone
<1>2. \A s : x \in SectionDone(hs, head, front, s) <=>
        \E n \in PagesIn(hs[s]) : x = <<s, n>> /\ Finished(head, front, s, n)
  BY DEF SectionDone
<1> QED
  BY <1>1, <1>2

SectionPages(j, s) == {<<s, n>> : n \in PagesIn(modules[j].headers[s])}
LoadedSections(j)  == {t \in DOMAIN modules[j].headers : Loads(modules[j].headers[t])}

LEMMA PagesAre ==
  ASSUME NEW j
  PROVE  PagesFor(j) = UNION {SectionPages(j, s) : s \in LoadedSections(j)}
<1>1. \A s : PagesOf(j, s) = PagesIn(modules[j].headers[s])
  BY DEF PagesOf, PagesIn, PageOf
<1>2. ASSUME NEW s
      PROVE  {s} \X PagesOf(j, s) = SectionPages(j, s)
  <2> DEFINE A == PagesOf(j, s)
  <2>1. SectionPages(j, s) = {<<s, n>> : n \in A}
    BY <1>1 DEF SectionPages
  <2> HIDE DEF A
  <2>2. {s} \X A = {<<s, n>> : n \in A}
    OBVIOUS
  <2> QED
    BY <2>1, <2>2 DEF A
<1>3. {t \in DOMAIN modules[j].headers : IsLoaded(j, t)} = LoadedSections(j)
  BY DEF LoadedSections, IsLoaded, Loads
<1> QED
  BY <1>2, <1>3 DEF PagesFor

LEMMA InPagesFor ==
  ASSUME NEW j, NEW x
  PROVE  x \in PagesFor(j) <=>
           \E s \in DOMAIN modules[j].headers : Loads(modules[j].headers[s]) /\
             \E n \in PagesIn(modules[j].headers[s]) : x = <<s, n>>
<1>1. x \in PagesFor(j) <=> \E s \in LoadedSections(j) : x \in SectionPages(j, s)
  BY PagesAre
<1> QED
  BY <1>1 DEF SectionPages, LoadedSections

(* Which pages those are.                                                  *)
LEMMA PageFacts ==
  ASSUME NEW h, HeaderFits(h), NEW n \in PagesIn(h)
  PROVE  n \in Nat /\ PagePath(n) \in UserPages \ {StackPage}
<1>1. PICK k \in 0 .. h.memsz - 1 : n = PageOf(h, k)
  BY DEF PagesIn
<1>2. h \in ProgramHeader
  BY DEF HeaderFits
<1>3. n \in Nat
  BY <1>1, <1>2, ByteIsAt
<1> QED
  BY <1>1, <1>3 DEF HeaderFits

LEMMA AllPagesDone ==
  ASSUME NEW j, NEW front, ModuleFits(modules[j])
  PROVE  PagesDone(modules[j].headers, Len(modules[j].headers) + 1, front) = PagesFor(j)
<1> DEFINE hs == modules[j].headers
<1>1. \A s \in DOMAIN hs : \A n : Finished(Len(hs) + 1, front, s, n)
  BY DEF ModuleFits, Finished
<1>2. \A x : x \in PagesDone(hs, Len(hs) + 1, front) <=> x \in PagesFor(j)
  BY <1>1, InPagesDone, InPagesFor
<1> QED
  BY <1>2

LEMMA FinitePages ==
  ASSUME NEW j, ModuleFits(modules[j])
  PROVE  IsFiniteSet(PagesFor(j))
<1> DEFINE hs == modules[j].headers
           S == LoadedSections(j)
           f == [s \in S |-> SectionPages(j, s)]
<1>1. IsFiniteSet(S)
  <2>1. DOMAIN hs = 1 .. Len(hs) /\ Len(hs) \in Nat
    BY DEF ModuleFits
  <2>2. IsFiniteSet(1 .. Len(hs))
    BY <2>1, FS_Interval
  <2> QED
    BY <2>1, <2>2, FS_Subset DEF LoadedSections
<1>2. ASSUME NEW s \in S
      PROVE  IsFiniteSet(f[s])
  <2> DEFINE h == hs[s]
             g == [k \in 0 .. h.memsz - 1 |-> <<s, PageOf(h, k)>>]
  <2>1. h.memsz \in Nat
    BY DEF ModuleFits, HeaderFits, ProgramHeader, LoadedSections
  <2>2. IsFiniteSet(0 .. h.memsz - 1)
    BY <2>1, FS_Interval
  <2>3. IsFiniteSet({g[k] : k \in 0 .. h.memsz - 1})
    BY <2>2, FiniteImage
  <2>4. f[s] = {g[k] : k \in 0 .. h.memsz - 1}
    BY DEF PagesIn, SectionPages
  <2> QED
    BY <2>3, <2>4
<1>3. PagesFor(j) = UNION {f[s] : s \in S}
  BY PagesAre
<1> HIDE DEF f, S
<1> QED
  BY <1>1, <1>2, <1>3, FiniteUnion

----------------------------------------------------------------------------
(* Where the tables of a path are.                                         *)

LEMMA PrefixFacts ==
  ASSUME NEW p \in UserPages, NEW n \in 0 .. 3
  PROVE  /\ SubSeq(p, 1, n) \in Seq(Index) /\ Len(SubSeq(p, 1, n)) = n
         /\ \A k \in 1 .. n : SubSeq(p, 1, n)[k] = p[k]
<1>1. p[1] \in Index /\ p[2] \in Index /\ p[3] \in Index
  <2>1. p \in Index \X Index \X Index \X Index
    BY UserPlaces, PagesAssumption
  <2> QED
    BY <2>1
<1>2. \A k \in 1 .. n : p[k] \in Index
  <2>1. \A k \in 1 .. n : k = 1 \/ k = 2 \/ k = 3
    OBVIOUS
  <2> QED
    BY <1>1, <2>1
<1>3. SubSeq(p, 1, n) = [k \in 1 .. n |-> p[k]]
  <2>1. \A k \in 1 .. n : 1 + k - 1 = k
    OBVIOUS
  <2> QED
    BY <2>1
<1>4. [k \in 1 .. n |-> p[k]] \in Seq(Index)
  BY <1>2
<1> QED
  BY <1>3, <1>4

LEMMA PathPlace ==
  ASSUME NEW r \in Tables, NEW q \in Seq(Index)
  PROVE  /\ Top(r) \o q \in PlaceSeq /\ Level(Top(r) \o q) = Len(q) + 1
         /\ (Top(r) \o q)[1] = r
         /\ \A k \in 1 .. Len(q) : (Top(r) \o q)[k + 1] = q[k]
<1> DEFINE S == Tables \cup Index
<1>1. Top(r) \in Seq(S) /\ Len(Top(r)) = 1 /\ Top(r)[1] = r
  BY DEF Top
<1>2. q \in Seq(S) /\ Len(q) \in Nat
  OBVIOUS
<1> HIDE DEF S
<1>3. /\ Top(r) \o q \in Seq(S) /\ Len(Top(r) \o q) = 1 + Len(q)
      /\ \A k \in 1 .. 1 + Len(q) : (Top(r) \o q)[k] = IF k <= 1 THEN Top(r)[k] ELSE q[k - 1]
  BY <1>1, <1>2, ConcatProperties
<1>4. (Top(r) \o q)[1] = r
  BY <1>1, <1>2, <1>3
<1>5. ASSUME NEW k \in 1 .. Len(q)
      PROVE  (Top(r) \o q)[k + 1] = q[k]
  <2>1. k + 1 \in 1 .. 1 + Len(q) /\ ~(k + 1 <= 1) /\ (k + 1) - 1 = k
    BY <1>2
  <2> QED
    BY <1>3, <2>1
<1> QED
  BY <1>2, <1>3, <1>4, <1>5 DEF PlaceSeq, Level, S

(* Different tables have different names.                                  *)
LEMMA PathPlaceInjective ==
  ASSUME NEW r \in Tables, NEW s \in Tables, NEW p \in Seq(Index), NEW q \in Seq(Index),
         Top(r) \o p = Top(s) \o q
  PROVE  r = s /\ p = q
<1>1. Len(p) \in Nat /\ Len(q) \in Nat
  OBVIOUS
<1>2. /\ Level(Top(r) \o p) = Len(p) + 1 /\ (Top(r) \o p)[1] = r
      /\ \A k \in 1 .. Len(p) : (Top(r) \o p)[k + 1] = p[k]
  BY PathPlace
<1>3. /\ Level(Top(s) \o q) = Len(q) + 1 /\ (Top(s) \o q)[1] = s
      /\ \A k \in 1 .. Len(q) : (Top(s) \o q)[k + 1] = q[k]
  BY PathPlace
<1>4. r = s /\ Len(p) + 1 = Len(q) + 1
  BY <1>2, <1>3
<1>6. Len(p) = Len(q)
  BY <1>1, <1>4
<1>5. \A k \in 1 .. Len(p) : p[k] = q[k]
  <2> TAKE k \in 1 .. Len(p)
  <2>1. (Top(r) \o p)[k + 1] = p[k] /\ (Top(s) \o q)[k + 1] = q[k]
    BY <1>2, <1>3, <1>6
  <2> QED
    BY <2>1
<1> QED
  BY <1>4, <1>5, <1>6

LEMMA ChildAppends ==
  ASSUME NEW q \in PlaceSeq, NEW x \in Index, x < LINEAR
  PROVE  ChildPlace(q, x) = Append(q, x)
  BY IndexRange, ChildOfOther DEF Shared, LINEAR, KERNEL

LEMMA AppendAt ==
  ASSUME NEW q \in PlaceSeq, NEW x \in Index
  PROVE  /\ Level(q) = 1 => Append(q, x)[1] = q[1] /\ Append(q, x)[2] = x
         /\ Level(q) = 2 => /\ Append(q, x)[1] = q[1] /\ Append(q, x)[2] = q[2]
                            /\ Append(q, x)[3] = x
         /\ Level(q) = 3 => /\ Append(q, x)[1] = q[1] /\ Append(q, x)[2] = q[2]
                            /\ Append(q, x)[3] = q[3] /\ Append(q, x)[4] = x
<1>1. /\ Append(q, x)[Level(q) + 1] = x
      /\ \A n \in 1 .. Level(q) : Append(q, x)[n] = q[n]
  BY AppendFacts
<1>2. ASSUME Level(q) = 1
      PROVE  Append(q, x)[1] = q[1] /\ Append(q, x)[2] = x
  <2>1. Level(q) + 1 = 2 /\ 1 \in 1 .. Level(q)
    BY <1>2
  <2> QED
    BY <1>1, <2>1
<1>3. ASSUME Level(q) = 2
      PROVE  Append(q, x)[1] = q[1] /\ Append(q, x)[2] = q[2] /\ Append(q, x)[3] = x
  <2>1. Level(q) + 1 = 3 /\ 1 \in 1 .. Level(q) /\ 2 \in 1 .. Level(q)
    BY <1>3
  <2> QED
    BY <1>1, <2>1
<1>4. ASSUME Level(q) = 3
      PROVE  /\ Append(q, x)[1] = q[1] /\ Append(q, x)[2] = q[2]
             /\ Append(q, x)[3] = q[3] /\ Append(q, x)[4] = x
  <2>1. Level(q) + 1 = 4 /\ 1 \in 1 .. Level(q) /\ 2 \in 1 .. Level(q) /\ 3 \in 1 .. Level(q)
    BY <1>4
  <2> QED
    BY <1>1, <2>1
<1> QED
  BY <1>2, <1>3, <1>4

(* The place of the table that n steps down from root r lead to.           *)
Down(r, p, n) == IF n = 0 THEN Top(r) ELSE IF n = 1 THEN Down2(r, p)
                 ELSE IF n = 2 THEN Down3(r, p) ELSE Down4(r, p)

LEMMA DownFacts ==
  ASSUME NEW r \in Tables, NEW p \in UserPages
  PROVE  /\ Top(r)[1] = r
         /\ Down2(r, p)[1] = r /\ Down2(r, p)[2] = p[1]
         /\ Down3(r, p)[1] = r /\ Down3(r, p)[2] = p[1] /\ Down3(r, p)[3] = p[2]
         /\ Down4(r, p)[1] = r /\ Down4(r, p)[2] = p[1] /\ Down4(r, p)[3] = p[2]
         /\ Down4(r, p)[4] = p[3]
<1> DEFINE x == p[1]  y == p[2]  z == p[3]
           d1 == Top(r)  d2 == Down2(r, p)  d3 == Down3(r, p)  d4 == Down4(r, p)
<1>1. p \in Pages /\ x < LINEAR
  BY UserPlaces, PagesAssumption
<1>2. /\ x \in Index /\ y \in Index /\ z \in Index
      /\ d1 \in PlaceSeq /\ d2 \in PlaceSeq /\ d3 \in PlaceSeq
      /\ Level(d1) = 1 /\ Level(d2) = 2 /\ Level(d3) = 3
  BY <1>1, PathPlaces
<1>3. d2 = Append(d1, x)
  BY <1>1, <1>2, ChildAppends DEF Down2
<1>4. d3 = Append(d2, y)
  BY <1>2, ChildOfOther DEF Down3, Shared
<1>5. d4 = Append(d3, z)
  BY <1>2, ChildOfOther DEF Down4, Shared
<1>6. d1[1] = r
  BY DEF Top
<1> HIDE DEF x, y, z, d1, d2, d3, d4
<1>7. d2[1] = r /\ d2[2] = x
  BY <1>2, <1>3, <1>6, AppendAt
<1>8. d3[1] = r /\ d3[2] = x /\ d3[3] = y
  BY <1>2, <1>4, <1>7, AppendAt
<1>9. d4[1] = r /\ d4[2] = x /\ d4[3] = y /\ d4[4] = z
  BY <1>2, <1>5, <1>8, AppendAt
<1> QED
  BY <1>6, <1>7, <1>8, <1>9 DEF x, y, z, d1, d2, d3, d4

LEMMA PathPlaceAt ==
  ASSUME NEW r \in Tables, NEW p \in UserPages, NEW n \in 0 .. 3,
         NEW q, q = Top(r) \o SubSeq(p, 1, n)
  PROVE  /\ q \in PlaceSeq /\ Level(q) = n + 1 /\ q[1] = r
         /\ 1 <= n => q[2] = p[1]
         /\ 2 <= n => q[3] = p[2]
         /\ 3 <= n => q[4] = p[3]
<1> DEFINE t == SubSeq(p, 1, n)
<1>1. t \in Seq(Index) /\ Len(t) = n /\ \A k \in 1 .. n : t[k] = p[k]
  BY PrefixFacts
<1> HIDE DEF t
<1>2. /\ Top(r) \o t \in PlaceSeq /\ Level(Top(r) \o t) = n + 1 /\ (Top(r) \o t)[1] = r
      /\ \A k \in 1 .. n : (Top(r) \o t)[k + 1] = p[k]
  BY <1>1, PathPlace
<1>3. \A k \in 1 .. n, m \in 2 .. 4 : m = k + 1 => (Top(r) \o t)[m] = p[k]
  BY <1>2
<1>4. 2 \in 2 .. 4 /\ 3 \in 2 .. 4 /\ 4 \in 2 .. 4 /\ 2 = 1 + 1 /\ 3 = 2 + 1 /\ 4 = 3 + 1
  OBVIOUS
<1>5. (1 <= n => 1 \in 1 .. n) /\ (2 <= n => 2 \in 1 .. n) /\ (3 <= n => 3 \in 1 .. n)
  OBVIOUS
<1>6. q = Top(r) \o t
  BY DEF t
<1> QED
  BY <1>2, <1>3, <1>4, <1>5, <1>6

(* A place is where the path says once its parts are.                      *)
PartsOf(q, r, p, n) ==
  /\ q \in PlaceSeq /\ Level(q) = n + 1 /\ q[1] = r
  /\ 1 <= n => q[2] = p[1]
  /\ 2 <= n => q[3] = p[2]
  /\ 3 <= n => q[4] = p[3]

LEMMA SameParts ==
  ASSUME NEW r, NEW p, NEW n \in 0 .. 3, NEW q, NEW d,
         PartsOf(q, r, p, n), PartsOf(d, r, p, n)
  PROVE  q = d
<1>1. ASSUME NEW k \in 1 .. Level(q)
      PROVE  q[k] = d[k]
  <2>1. k = 1 \/ (k = 2 /\ 1 <= n) \/ (k = 3 /\ 2 <= n) \/ (k = 4 /\ 3 <= n)
    BY DEF PartsOf
  <2> QED
    BY <2>1 DEF PartsOf
<1> QED
  BY <1>1, SamePlace DEF PartsOf

LEMMA DownIs ==
  ASSUME NEW r \in Tables, NEW p \in UserPages, NEW n \in 0 .. 3
  PROVE  Top(r) \o SubSeq(p, 1, n) = Down(r, p, n)
<1>1. \A q : q = Top(r) \o SubSeq(p, 1, n) => PartsOf(q, r, p, n)
  BY PathPlaceAt, Zenon DEF PartsOf
<1>2. PartsOf(Down(r, p, n), r, p, n)
  <2>1. n = 0 \/ n = 1 \/ n = 2 \/ n = 3
    OBVIOUS
  <2>2. Down(r, p, n) \in PlaceSeq /\ Level(Down(r, p, n)) = n + 1
    BY <2>1, UserPlaces, PathPlaces DEF Down
  <2> QED
    BY <2>1, <2>2, DownFacts DEF Down, PartsOf
<1>3. \A q : PartsOf(q, r, p, n) => q = Down(r, p, n)
  BY <1>2, SameParts
<1> QED
  BY <1>1, <1>3, Zenon

----------------------------------------------------------------------------
(* A walk makes the tables of its path, each once.                         *)

StepsTo(r, p) == {Down(r, p, n) : n \in 0 .. 3}

LEMMA StepsAre ==
  ASSUME NEW r, NEW p
  PROVE  StepsTo(r, p) = {Top(r), Down2(r, p), Down3(r, p), Down4(r, p)}
<1>1. 0 .. 3 = {0, 1, 2, 3}
  OBVIOUS
<1>2. StepsTo(r, p) = {Down(r, p, n) : n \in {0, 1, 2, 3}}
  BY <1>1 DEF StepsTo
<1>3. /\ Down(r, p, 0) = Top(r) /\ Down(r, p, 1) = Down2(r, p)
      /\ Down(r, p, 2) = Down3(r, p) /\ Down(r, p, 3) = Down4(r, p)
  BY DEF Down
<1> QED
  BY <1>2, <1>3

(* The kernel's own tables are on no path of a process.                    *)
LEMMA StaticPlaces ==
  ASSUME NEW E, NEW F, NEW H, NEW P, Tree(E, F, H, P), NEW s \in Static,
         NEW r \in Frames, NEW p \in UserPages
  PROVE  P[s] \notin StepsTo(r, p)
<1> DEFINE k == kernel_pml4
<1>1. r \in Tables /\ r # k
  BY NodesAssumption DEF Tables, Static
<1>2. \A x \in StepsTo(r, p) : x[1] = r
  BY <1>1, StepsAre, DownFacts
<1>3. Top(k)[1] = k /\ Top(k) \in PlaceSeq /\ Level(Top(k)) = 1
  BY KernelPlaces DEF Top
<1>4. LINEAR \in Index /\ KERNEL \in Index /\ 510 \in Index
  BY PagesAssumption
<1>5. ChildPlace(Top(k), LINEAR)[1] = k /\ ChildPlace(Top(k), KERNEL)[1] = k
  <2>1. Shared(Top(k), LINEAR) /\ Shared(Top(k), KERNEL)
    BY <1>3 DEF Shared
  <2>2. ChildPlace(Top(k), LINEAR) = <<k, LINEAR>> /\ ChildPlace(Top(k), KERNEL) = <<k, KERNEL>>
    BY <2>1, ChildOfShared
  <2> QED
    BY <2>2
<1>6. ChildPlace(ChildPlace(Top(k), KERNEL), 510)[1] = k
  <2> DEFINE q == ChildPlace(Top(k), KERNEL)
  <2>1. q \in PlaceSeq /\ Level(q) = 2 /\ q[1] = k
    BY <1>5, KernelPlaces
  <2> HIDE DEF q
  <2>2. ChildPlace(q, 510) = Append(q, 510)
    BY <2>1, ChildOfOther DEF Shared
  <2>3. Append(q, 510)[1] = q[1]
    BY <1>4, <2>1, AppendAt
  <2> QED
    BY <2>1, <2>2, <2>3 DEF q
<1>7. P[s][1] = k
  BY <1>3, <1>5, <1>6 DEF Tree, Places, Static
<1> QED
  BY <1>1, <1>2, <1>7

LEMMA UsedFacts ==
  ASSUME NEW E, NEW F, NEW H, NEW P, Tree(E, F, H, P)
  PROVE  /\ Used(P) \in SUBSET Frames /\ F \cap Used(P) = {}
         /\ \A e, f \in Used(P) : P[e] = P[f] => e = f
  BY DEF Tree, Types, Places, Used, Tables

LEMMA UsedAfter ==
  ASSUME NEW P, NEW f \in Frames, NEW q, Level(q) # 0, f \in DOMAIN P, Level(P[f]) = 0
  PROVE  /\ Used(PutAt(P, f, q)) = Used(P) \cup {f}
         /\ PlacesOf(PutAt(P, f, q)) = PlacesOf(P) \cup {q}
<1> DEFINE P2 == PutAt(P, f, q)
<1>1. P2[f] = q /\ \A g \in Frames \ {f} : P2[g] = P[g]
  BY DEF PutAt
<1> HIDE DEF P2
<1>2. Used(P2) = Used(P) \cup {f} /\ f \notin Used(P)
  BY <1>1 DEF Used
<1>3. \A g \in Used(P) : P2[g] = P[g]
  BY <1>1, <1>2 DEF Used
<1>4. PlacesOf(P2) = PlacesOf(P) \cup {q}
  BY <1>1, <1>2, <1>3 DEF PlacesOf
<1> QED
  BY <1>2, <1>4 DEF P2

(* The walk so far: the places D of its path have their tables, and the    *)
(* frames that were free or tables still are.                              *)
Built(c, B, D) ==
  /\ c.free \cup Used(c.place) = free \cup Used(place)
  /\ PlacesOf(place) \subseteq PlacesOf(c.place)
  /\ PlacesOf(c.place) \subseteq PlacesOf(place) \cup B
  /\ c.failed => c.free = {} /\ \E x \in B : x \notin PlacesOf(c.place)
  /\ ~c.failed => D \subseteq PlacesOf(c.place)

LEMMA FollowMakes ==
  ASSUME NEW c, NEW q \in PlaceSeq, NEW m \in Index, NEW j \in Index,
         At(c, q, m), Level(q) \in 1 .. 3, q \notin BigPlaces, NEW B, NEW D,
         ChildPlace(q, m) \in B,
         \A E, F, H, P : Tree(E, F, H, P) => \A s \in Static : P[s] \notin B,
         Built(c, B, D), NEW d \in Follow(c, j), At(d, ChildPlace(q, m), j)
  PROVE  Built(d, B, D \cup {ChildPlace(q, m)})
<1> DEFINE E == c.entries  F == c.free  P == c.place  t == c.table  x == ChildPlace(q, m)
<1>1. CASE c.failed
  <2>1. d = c
    BY <1>1 DEF Follow
  <2> QED
    BY <1>1, <2>1 DEF Built
<1>2. CASE ~c.failed
  <2>1. /\ c = Cursor(E, F, P, t, m) /\ Tree(E, F, held, P)
        /\ t \in Tables /\ P[t] = q /\ c.index = m
    <3>1. c.failed # Yes
      BY <1>2 DEF Yes
    <3>2. c = Cursor(E, F, P, t, m) /\ Tree(E, F, held, P) /\ t \in Tables /\ P[t] = q
      BY <3>1 DEF At
    <3>3. c.index = m
      BY <3>2 DEF Cursor
    <3> QED
      BY <3>2, <3>3
  <2>2. /\ F \cup Used(P) = free \cup Used(place) /\ PlacesOf(place) \subseteq PlacesOf(P)
        /\ PlacesOf(P) \subseteq PlacesOf(place) \cup B /\ D \subseteq PlacesOf(P)
    BY <1>2 DEF Built
  <2>3. t \notin {kernel_pagedir, kernel_linear}
    BY <2>1 DEF Tree, Places, BigPlaces
  <2>4. Level(P[t]) \in 1 .. 3 /\ Level(P[t]) # 0 /\ Level(P[t]) # 4
    BY <2>1
  <2>5. EntryFits(E, F, held, P, t, m)
    BY <2>1, <2>4 DEF Tree
  <2>6. E[t][m] = Zero \/ (/\ ~E[t][m].big /\ E[t][m].address \in Tables
                           /\ P[E[t][m].address] = x)
    BY <2>1, <2>3, <2>4, <2>5 DEF EntryFits
  <2>7. ~E[t][m].big
    BY <2>6 DEF Zero, Entry
  <2>8. x \in PlaceSeq /\ Level(x) # 0
    <3>1. x \in PlaceSeq /\ Level(x) = Level(q) + 1
      BY ChildLevel
    <3> QED
      BY <3>1
  <2> HIDE DEF E, F, P, t, x
  <2>9. CASE E[t][m].present /\ d = Cursor(E, F, P, E[t][m].address, j)
    <3>1. d.free = F /\ d.place = P /\ d.failed = No
      BY <2>9 DEF Cursor
    <3>2. E[t][m].address \in Tables /\ P[E[t][m].address] = x
      BY <2>6, <2>9, EntryTypes
    <3>3. E[t][m].address \in Used(P)
      BY <2>1, <2>8, <3>2 DEF Used, Tables, x
    <3>4. x \in PlacesOf(P)
      BY <3>2, <3>3 DEF PlacesOf
    <3> QED
      BY <2>2, <3>1, <3>4 DEF Built, No, x
  <2>10. CASE ~E[t][m].present /\ F = {} /\ d = Stuck(E, F, P, t, m)
    <3>1. d.free = F /\ d.place = P /\ d.failed = Yes
      BY <2>10 DEF Stuck
    <3>2. \A u \in Tables : P[u] # ChildPlace(P[t], m)
      BY <2>1, <2>4, <2>10, PlaceIsNew
    <3>3. x \notin PlacesOf(P)
      BY <2>1, <3>2 DEF PlacesOf, Used, Tables, x
    <3> QED
      BY <2>2, <2>10, <3>1, <3>3 DEF Built, Yes, x
  <2>11. CASE ~E[t][m].present /\ Makes(E, F, P, t, m, j, d)
    <3>1. PICK f \in Candidates(F) :
            d = Cursor(Hung(E, t, m, f), F \ {f}, PutAt(P, f, ChildPlace(P[t], m)), f, j)
      BY <2>11 DEF Makes
    <3>2. d.free = F \ {f} /\ d.place = PutAt(P, f, x) /\ d.failed = No
      BY <2>1, <3>1 DEF Cursor, x
    <3>3. f \in F /\ f \in Frames /\ f \in DOMAIN P /\ Level(P[f]) = 0
      BY <2>1, CandidatesAssumption DEF Tree, Types, Places, Tables
    <3>4. /\ Used(PutAt(P, f, x)) = Used(P) \cup {f}
          /\ PlacesOf(PutAt(P, f, x)) = PlacesOf(P) \cup {x}
      BY <2>8, <3>3, UsedAfter
    <3> QED
      BY <2>2, <3>2, <3>3, <3>4 DEF Built, No, x
  <2>12. d \in Follow(Cursor(E, F, P, t, m), j)
    BY <2>1
  <2> QED
    BY <2>1, <2>7, <2>9, <2>10, <2>11, <2>12, FollowFacts
<1> QED
  BY <1>1, <1>2

LEMMA ResolveMakes ==
  ASSUME Tree(entries, free, held, place),
         NEW r \in Frames, Level(place[r]) = 1, NEW p \in UserPages,
         NEW c \in resolve_pageentry(r, p)
  PROVE  Built(c, StepsTo(r, p), StepsTo(r, p))
<1> DEFINE T3 == entries[r][p[1]].address
           T2 == entries[T3][p[2]].address
           W3 == Goes(Yes, r, p[1])
           W2 == Goes(W3, T3, p[2])
           c0 == Start(r, p[1])
           B  == StepsTo(r, p)
<1>0. PICK c3 \in Follow(c0, p[2]) : \E c2 \in Follow(c3, p[3]) : c \in Follow(c2, p[4])
  <2> DEFINE Last(d)   == UNION {Follow(x, p[4]) : x \in Follow(d, p[3])}
             Middle(d) == UNION {Last(x) : x \in Follow(d, p[2])}
  <2>1. resolve_pageentry(r, p) = UNION {Middle(d) : d \in {c0}}
    BY DEF resolve_pageentry
  <2> HIDE DEF Middle, c0
  <2>2. c \in Middle(c0)
    BY <2>1
  <2>3. PICK c3 \in Follow(c0, p[2]) : c \in Last(c3)
    BY <2>2 DEF Middle
  <2> QED
    BY <2>3
<1>1. PICK c2 \in Follow(c3, p[3]) : c \in Follow(c2, p[4])
  BY <1>0
<1>2. r \in Tables /\ p \in MapPages /\ p \in Pages
  BY UserPlaces DEF Tables
<1>3. /\ Top(r) \in PlaceSeq /\ Level(Top(r)) \in 1 .. 3 /\ Top(r) \notin BigPlaces
      /\ Down2(r, p) \in PlaceSeq /\ Level(Down2(r, p)) \in 1 .. 3 /\ Down2(r, p) \notin BigPlaces
      /\ Down3(r, p) \in PlaceSeq /\ Level(Down3(r, p)) \in 1 .. 3 /\ Down3(r, p) \notin BigPlaces
      /\ p[1] \in Index /\ p[2] \in Index /\ p[3] \in Index /\ p[4] \in Index
  BY <1>2, PathPlaces, PathIsFree
<1>4. /\ \A E, F, H, P : Tree(E, F, H, P) => \A s \in Static : P[s] \notin B
      /\ B = {Top(r), Down2(r, p), Down3(r, p), Down4(r, p)}
  BY StaticPlaces, StepsAre
<1>5. At(c0, Top(r), p[1]) /\ Walks(c0, r, Yes) /\ Built(c0, B, {Top(r)})
  <2>1. c0 = Cursor(entries, free, place, r, p[1])
    BY DEF Start, Cursor, No
  <2> HIDE DEF c0
  <2>2. /\ c0.entries = entries /\ c0.free = free /\ c0.place = place /\ c0.table = r
        /\ c0.failed = No
    BY <2>1 DEF Cursor
  <2>3. place[r] = Top(r)
    BY <1>2 DEF Tree, Places
  <2>4. Top(r) \in PlacesOf(place)
    BY <2>3 DEF PlacesOf, Used
  <2>5. At(c0, Top(r), p[1]) /\ Walks(c0, r, Yes)
    BY <1>2, <2>1, <2>2, <2>3 DEF At, Walks, Yes, SamePages
  <2>6. Built(c0, B, {Top(r)})
    BY <2>2, <2>4 DEF Built, No
  <2> QED
    BY <2>5, <2>6
<1> HIDE DEF c0, B
<1>6. At(c3, Down2(r, p), p[2]) /\ Walks(c3, T3, W3) /\ Built(c3, B, {Top(r), Down2(r, p)})
  <2>1. At(c3, ChildPlace(Top(r), p[1]), p[2]) /\ Walks(c3, T3, W3)
    BY <1>1, <1>3, <1>5, FollowGoesDown, ZenonT(60) DEF BigPlaces
  <2> HIDE DEF T3, W3
  <2>2. ChildPlace(Top(r), p[1]) = Down2(r, p)
    BY DEF Down2
  <2>3. Built(c3, B, {Top(r)} \cup {ChildPlace(Top(r), p[1])})
    BY <1>1, <1>3, <1>4, <1>5, <2>1, <2>2, FollowMakes
  <2>4. {Top(r)} \cup {Down2(r, p)} = {Top(r), Down2(r, p)}
    OBVIOUS
  <2> QED
    BY <2>1, <2>2, <2>3, <2>4
<1>7. /\ At(c2, Down3(r, p), p[3]) /\ Walks(c2, T2, W2)
      /\ Built(c2, B, {Top(r), Down2(r, p), Down3(r, p)})
  <2> HIDE DEF T3, W3
  <2>1. At(c2, ChildPlace(Down2(r, p), p[2]), p[3]) /\ Walks(c2, T2, W2)
    BY <1>1, <1>3, <1>6, FollowGoesDown DEF BigPlaces
  <2> HIDE DEF T2, W2
  <2>2. ChildPlace(Down2(r, p), p[2]) = Down3(r, p)
    BY DEF Down3
  <2>3. Built(c2, B, {Top(r), Down2(r, p)} \cup {ChildPlace(Down2(r, p), p[2])})
    BY <1>1, <1>3, <1>4, <1>6, <2>1, <2>2, FollowMakes
  <2>4. {Top(r), Down2(r, p)} \cup {Down3(r, p)} = {Top(r), Down2(r, p), Down3(r, p)}
    OBVIOUS
  <2> QED
    BY <2>1, <2>2, <2>3, <2>4
<1> HIDE DEF T2, W2
<1>8. At(c, ChildPlace(Down3(r, p), p[3]), p[4])
  BY <1>1, <1>3, <1>7, FollowGoesDown DEF BigPlaces
<1>9. ChildPlace(Down3(r, p), p[3]) = Down4(r, p)
  BY DEF Down4
<1>10. Built(c, B, {Top(r), Down2(r, p), Down3(r, p)} \cup {ChildPlace(Down3(r, p), p[3])})
  BY <1>1, <1>3, <1>4, <1>7, <1>8, <1>9, FollowMakes
<1>11. {Top(r), Down2(r, p), Down3(r, p)} \cup {Down4(r, p)} = B
  BY <1>4
<1> QED
  BY <1>9, <1>10, <1>11 DEF B

(* What each operation of the loader does to the count: mmap makes tables  *)
(* and nothing else, and fails with no frame left and a step missing.      *)
LEMMA MapUses ==
  ASSUME Tree(entries, free, held, place), NEW r \in Roots \ {kernel_pml4},
         NEW p \in UserPages, NEW f, mmap(r, p, f)
  PROVE  /\ free' \cup Used(place') = free \cup Used(place)
         /\ PlacesOf(place) \subseteq PlacesOf(place')
         /\ PlacesOf(place') \subseteq PlacesOf(place) \cup StepsTo(r, p)
         /\ ~panicked' => PlacesOf(place') = PlacesOf(place) \cup StepsTo(r, p)
         /\ panicked' => free' = {} /\ \E x \in StepsTo(r, p) : x \notin PlacesOf(place')
<1>1. PICK c \in resolve_pageentry(r, p) : Commit(c, PageEntry(f, p \in UserPages))
  BY DEF mmap
<1>2. free' = c.free /\ place' = c.place /\ panicked' = c.failed
  BY <1>1 DEF Commit
<1>3. r \in Frames /\ Level(place[r]) = 1
  BY RootLevel
<1>4. Built(c, StepsTo(r, p), StepsTo(r, p))
  BY <1>1, <1>3, ResolveMakes
<1> QED
  BY <1>2, <1>4 DEF Built

LEMMA TakeUses ==
  ASSUME Tree(entries, free, held, place), FrameAlloc
  PROVE  /\ place' = place
         /\ panicked' => free = {} /\ free' = {}
         /\ ~panicked' => \E f \in Frames \ Used(place) : f \in free /\ free' = free \ {f}
<1>1. Candidates(free) \subseteq free /\ free \subseteq Frames /\ free \cap Used(place) = {}
  BY CandidatesAssumption, UsedFacts DEF Tree, Types
<1>2. CASE OutOfFrames
  BY <1>2 DEF OutOfFrames
<1>3. CASE ~OutOfFrames
  BY <1>1, <1>3 DEF FrameAlloc
<1> QED
  BY <1>2, <1>3

LEMMA SpaceUses ==
  ASSUME Tree(entries, free, held, place), create_address_space
  PROVE  \/ panicked' /\ free = {} /\ free' = {} /\ place' = place
         \/ /\ ~panicked'
            /\ \E f \in Frames :
                 /\ f \in free /\ f \notin Roots /\ Roots' \ Roots = {f} /\ Roots \subseteq Roots'
                 /\ free' = free \ {f} /\ Used(place') = Used(place) \cup {f}
                 /\ PlacesOf(place') = PlacesOf(place) \cup {Top(f)}
<1>1. Candidates(free) \subseteq free /\ free \subseteq Frames
  BY CandidatesAssumption DEF Tree, Types
<1>2. CASE OutOfFrames
  BY <1>2 DEF OutOfFrames
<1>3. CASE ~OutOfFrames
  <2>1. PICK f \in free : /\ free' = free \ {f}
                          /\ entries' = [entries EXCEPT ![f] = RootTable]
                          /\ place' = [place EXCEPT ![f] = <<f>>]
                          /\ held' = held /\ panicked' = panicked
    BY <1>1, <1>3 DEF create_address_space
  <2>2. entries' = Filled(entries, f, RootTable) /\ place' = PutAt(place, f, Top(f))
    BY <2>1 DEF Filled, PutAt, Top
  <2>3. /\ f \in Frames /\ f \in Tables /\ Level(place[f]) = 0 /\ f \in DOMAIN place
        /\ Level(Top(f)) # 0
    BY <1>1, TopFacts DEF Tree, Types, Places, Tables
  <2>4. Used(place') = Used(place) \cup {f} /\ PlacesOf(place') = PlacesOf(place) \cup {Top(f)}
    BY <2>2, <2>3, UsedAfter
  <2>5. Tree(entries', free', held', place')
    <3>1. Tree(Filled(entries, f, RootTable), free \ {f}, held, PutAt(place, f, Top(f)))
      BY CreateKeepsTree
    <3> QED
      BY <2>1, <2>2, <3>1
  <2>6. \A s \in Tables : Level(place'[s]) = 1 <=> Level(place[s]) = 1 \/ s = f
    BY <2>2, NewSpace
  <2>7. Roots = RootsOf(place) /\ Roots' = RootsOf(place')
    BY <2>5, RootsNow, RootsNext
  <2>8. Roots' \ Roots = {f} /\ f \notin Roots /\ Roots \subseteq Roots'
    BY <2>3, <2>6, <2>7 DEF RootsOf
  <2>9. ~panicked'
    BY <2>1 DEF create_address_space
  <2> QED
    BY <2>1, <2>3, <2>4, <2>8, <2>9
<1> QED
  BY <1>2, <1>3

----------------------------------------------------------------------------
(* The names of uses.                                                      *)

LEMMA InFramesFor ==
  ASSUME NEW j, NEW x
  PROVE  x \in FramesFor(j) <=> \/ x = <<j, "task", <<>>>> \/ x = <<j, "stack", <<>>>>
                                \/ \E y \in PagesFor(j) : x = <<j, "page", y>>
  BY DEF FramesFor

LEMMA InPathNames ==
  ASSUME NEW j, NEW paths, NEW x
  PROVE  x \in PathNames(j, paths) <=>
           \E p \in paths, n \in 0 .. 3 : x = <<j, "table", SubSeq(p, 1, n)>>
  BY DEF PathNames, Prefixes

LEMMA PathNamesUnion ==
  ASSUME NEW j, NEW A, NEW B
  PROVE  PathNames(j, A \cup B) = PathNames(j, A) \cup PathNames(j, B)
<1>1. \A x : x \in PathNames(j, A \cup B) <=> x \in PathNames(j, A) \cup PathNames(j, B)
  BY InPathNames
<1> QED
  BY <1>1

LEMMA TablesAre ==
  ASSUME NEW j
  PROVE  TablesFor(j) = PathNames(j, PathsTo(PagesFor(j))) \cup PathNames(j, {StackPage})
<1>1. TablesFor(j) = PathNames(j, {StackPage} \cup PathsTo(PagesFor(j)))
  BY DEF TablesFor, PathNames, PathsTo
<1> QED
  BY <1>1, PathNamesUnion

(* All paths lead to user pages.                                           *)
LEMMA PathsFit ==
  ASSUME NEW j, ModuleFits(modules[j])
  PROVE  /\ StackPage \in UserPages
         /\ PathsTo(PagesFor(j)) \subseteq UserPages
<1>1. ASSUME NEW x \in PagesFor(j)
      PROVE  PagePath(x[2]) \in UserPages
  <2>1. PICK s \in DOMAIN modules[j].headers : \E n \in PagesIn(modules[j].headers[s]) : x = <<s, n>>
    BY InPagesFor
  <2>2. PICK n \in PagesIn(modules[j].headers[s]) : x = <<s, n>>
    BY <2>1
  <2>3. HeaderFits(modules[j].headers[s])
    BY DEF ModuleFits
  <2> QED
    BY <2>2, <2>3, PageFacts
<1> QED
  BY <1>1, StackAssumption DEF PathsTo

(* The names of tables in the first n spaces.                              *)
TableName(n, t) ==
  t[1] \in 1 .. n /\ t[2] = "table" /\ t[3] \in Seq(Index) /\ t = <<t[1], t[2], t[3]>>

LEMMA PathIsName ==
  ASSUME NEW n, NEW j \in 1 .. n, NEW paths \in SUBSET UserPages, NEW t \in PathNames(j, paths)
  PROVE  TableName(n, t) /\ t[1] = j
<1>1. PICK p \in paths, m \in 0 .. 3 : t = <<j, "table", SubSeq(p, 1, m)>>
  BY InPathNames
<1>2. SubSeq(p, 1, m) \in Seq(Index)
  BY PrefixFacts
<1> QED
  BY <1>1, <1>2 DEF TableName

LEMMA SitesDiffer ==
  ASSUME NEW n, NEW sp \in [1 .. n -> Frames],
         \A j, k \in 1 .. n : sp[j] = sp[k] => j = k,
         NEW s, NEW t, TableName(n, s), TableName(n, t), Site(sp, s) = Site(sp, t)
  PROVE  s = t
<1>1. sp[s[1]] \in Tables /\ sp[t[1]] \in Tables /\ s[3] \in Seq(Index) /\ t[3] \in Seq(Index)
  BY DEF TableName, Tables
<1>2. sp[s[1]] = sp[t[1]] /\ s[3] = t[3]
  <2>1. \A q, r \in Tables, x, y \in Seq(Index) : PlaceOf(q, x) = PlaceOf(r, y) => q = r /\ x = y
    BY PathPlaceInjective, Zenon DEF PlaceOf
  <2> QED
    BY <1>1, <2>1 DEF Site
<1>3. s[1] = t[1]
  BY <1>2 DEF TableName
<1> QED
  BY <1>2, <1>3 DEF TableName

LEMMA SitesOnPath ==
  ASSUME NEW j, NEW sp, sp[j] \in Frames, NEW p \in UserPages
  PROVE  {Site(sp, t) : t \in PathNames(j, {p})} = StepsTo(sp[j], p)
<1>1. \A n \in 0 .. 3 : Site(sp, <<j, "table", SubSeq(p, 1, n)>>) = Down(sp[j], p, n)
  BY DownIs DEF Site, PlaceOf, Tables
<1>2. \A t : t \in PathNames(j, {p}) <=> \E n \in 0 .. 3 : t = <<j, "table", SubSeq(p, 1, n)>>
  BY InPathNames
<1>3. \A y : y \in {Site(sp, t) : t \in PathNames(j, {p})} <=> y \in StepsTo(sp[j], p)
  <2> TAKE y
  <2>1. y \in StepsTo(sp[j], p) <=> \E n \in 0 .. 3 : y = Down(sp[j], p, n)
    BY DEF StepsTo
  <2>2. ASSUME y \in StepsTo(sp[j], p)
        PROVE  y \in {Site(sp, t) : t \in PathNames(j, {p})}
    <3>1. PICK n \in 0 .. 3 : y = Down(sp[j], p, n)
      BY <2>1, <2>2
    <3>2. <<j, "table", SubSeq(p, 1, n)>> \in PathNames(j, {p})
      BY <1>2
    <3> QED
      BY <1>1, <3>1, <3>2
  <2>3. ASSUME y \in {Site(sp, t) : t \in PathNames(j, {p})}
        PROVE  y \in StepsTo(sp[j], p)
    <3>1. PICK t \in PathNames(j, {p}) : y = Site(sp, t)
      BY <2>3
    <3>2. PICK n \in 0 .. 3 : t = <<j, "table", SubSeq(p, 1, n)>>
      BY <1>2
    <3>3. y = Down(sp[j], p, n)
      BY <1>1, <3>1, <3>2
    <3> QED
      BY <2>1, <3>3
  <2> QED
    BY <2>2, <2>3
<1> QED
  BY <1>3

----------------------------------------------------------------------------
(* What a count says, and how it goes on.                                  *)

SpacesDiffer(n, sp) == sp \in [1 .. n -> Frames] /\ \A j, k \in 1 .. n : sp[j] = sp[k] => j = k

Names(n, S, T) ==
  /\ IsFiniteSet(S) /\ \A x \in S : x[2] # "table"
  /\ \A t \in T : TableName(n, t)

LEMMA CountsUp ==
  ASSUME NEW E, NEW F, NEW H, NEW P, Tree(E, F, H, P), NEW n, NEW sp, SpacesDiffer(n, sp),
         NEW S, NEW T, Names(n, S, T), Counts(sp, F, P, S, T)
  PROVE  Cardinality(Frames \ F) = Cardinality(S \cup T)
<1> DEFINE U == Used(P)
           g == [f \in U |-> P[f]]
           h == [t \in T |-> Site(sp, t)]
<1>1. U \in SUBSET Frames /\ F \cap U = {} /\ \A e, f \in U : P[e] = P[f] => e = f
  BY UsedFacts
<1>2. {g[f] : f \in U} = {h[t] : t \in T}
  BY DEF Counts, PlacesOf
<1>3. \A s, t \in T : h[s] = h[t] => s = t
  BY SitesDiffer DEF SpacesDiffer, Names
<1>4. IsFiniteSet(U)
  BY <1>1, FramesAssumption, FS_Subset
<1> HIDE DEF h
<1>5. IsFiniteSet(T) /\ Cardinality(T) = Cardinality(U)
  <2>1. \A e, f \in U : g[e] = g[f] => e = f
    BY <1>1
  <2> HIDE DEF U, g
  <2> QED
    BY <1>2, <1>3, <1>4, <2>1, SameSize, ZenonT(60)
<1>6. S \cap T = {} /\ IsFiniteSet(S)
  BY DEF Names, TableName
<1>7. Cardinality(Frames \ (F \cup U)) = Cardinality(S)
  BY DEF Counts
<1> DEFINE R == Frames \ (F \cup U)
<1>8. IsFiniteSet(R) /\ R \cup U = Frames \ F /\ R \cap U = {}
  BY <1>1, FramesAssumption, FS_Subset
<1> HIDE DEF U, g, R
<1>9. Cardinality(R \cup U) = Cardinality(R) + Cardinality(U) - Cardinality({})
  BY <1>4, <1>8, FS_Union
<1>10. Cardinality(S \cup T) = Cardinality(S) + Cardinality(T) - Cardinality({})
  BY <1>5, <1>6, FS_Union
<1>11. Cardinality(R) = Cardinality(S)
  BY <1>7 DEF R
<1> QED
  BY <1>5, <1>8, <1>9, <1>10, <1>11

(* No frame is free and a use in W has none yet: W has too many.           *)
LEMMA TooMany ==
  ASSUME NEW E, NEW H, NEW P, Tree(E, {}, H, P), NEW n, NEW sp, SpacesDiffer(n, sp),
         NEW S, NEW T, Names(n, S, T), Counts(sp, {}, P, S, T),
         NEW W, IsFiniteSet(W), S \cup T \subseteq W, NEW z \in W, z \notin S \cup T
  PROVE  Cardinality(W) > Cardinality(Frames)
<1>1. Cardinality(Frames) = Cardinality(S \cup T)
  <2>1. Frames \ {} = Frames
    OBVIOUS
  <2> QED
    BY <2>1, CountsUp
<1>2. S \cup T \subseteq W /\ S \cup T # W
  OBVIOUS
<1>3. /\ Cardinality(S \cup T) <= Cardinality(W)
      /\ Cardinality(S \cup T) # Cardinality(W)
  BY <1>2, FS_Subset
<1>4. Cardinality(S \cup T) \in Nat /\ Cardinality(W) \in Nat
  BY FS_Subset, FS_CardinalityType
<1> QED
  BY <1>1, <1>3, <1>4

(* A frame for a use z, or panic with that one missing.                    *)
LEMMA OneMore ==
  ASSUME Tree(entries, free, held, place), FrameAlloc, NEW n, NEW sp, SpacesDiffer(n, sp),
         NEW S, NEW T, Names(n, S, T), Counts(sp, free, place, S, T),
         NEW z, z \notin S, z[2] # "table"
  PROVE  /\ ~panicked' => Counts(sp, free', place', S \cup {z}, T)
         /\ panicked' => \A W : IsFiniteSet(W) /\ S \cup T \cup {z} \subseteq W =>
                                  Cardinality(W) > Cardinality(Frames)
<1>1. /\ place' = place
      /\ panicked' => free = {}
      /\ ~panicked' => \E f \in Frames \ Used(place) : f \in free /\ free' = free \ {f}
  BY TakeUses
<1>2. z \notin T
  BY DEF Names, TableName
<1>3. ASSUME panicked', NEW W, IsFiniteSet(W), S \cup T \cup {z} \subseteq W
      PROVE  Cardinality(W) > Cardinality(Frames)
  <2>1. Tree(entries, {}, held, place) /\ Counts(sp, {}, place, S, T)
    BY <1>1, <1>3
  <2>2. S \cup T \subseteq W /\ z \in W /\ z \notin S \cup T
    BY <1>2, <1>3
  <2> QED
    BY <1>3, <2>1, <2>2, TooMany
<1>4. ASSUME ~panicked'
      PROVE  Counts(sp, free', place', S \cup {z}, T)
  <2> DEFINE U == Used(place)
             R == Frames \ (free \cup U)
  <2>1. PICK f \in Frames \ U : f \in free /\ free' = free \ {f}
    BY <1>1, <1>4
  <2>2. Frames \ (free' \cup U) = R \cup {f} /\ f \notin R
    BY <2>1
  <2>3. IsFiniteSet(R)
    BY FramesAssumption, FS_Subset
  <2>4. Cardinality(R) = Cardinality(S) /\ IsFiniteSet(S) /\ PlacesOf(place) = {Site(sp, t) : t \in T}
    BY DEF Counts, Names
  <2> HIDE DEF U, R
  <2>5. Cardinality(R \cup {f}) = Cardinality(R) + 1
    BY <2>2, <2>3, FS_AddElement
  <2>6. Cardinality(S \cup {z}) = Cardinality(S) + 1
    BY <2>4, FS_AddElement
  <2>7. Cardinality(Frames \ (free' \cup U)) = Cardinality(S \cup {z})
    BY <2>2, <2>4, <2>5, <2>6
  <2> QED
    BY <1>1, <2>4, <2>7 DEF Counts, U
<1> QED
  BY <1>3, <1>4

(* The tables of a path, or panic with one of them missing.                *)
LEMMA MoreTables ==
  ASSUME NEW p, NEW f,
         Tree(entries, free, held, place), Tree(entries', free', held', place'),
         SpacesDiffer(Begun, TheirSpaces), i \in 1 .. Begun, root \in Roots, TheirSpaces[i] = root,
         p \in UserPages, mmap(root, p, f), Names(Begun, FrameNames, TableNames),
         Counts(TheirSpaces, free, place, FrameNames, TableNames)
  PROVE  LET T == TableNames \cup PathNames(i, {p}) IN
         /\ ~panicked' => Counts(TheirSpaces, free', place', FrameNames, T)
         /\ panicked' => \A W : IsFiniteSet(W) /\ FrameNames \cup T \subseteq W =>
                                  Cardinality(W) > Cardinality(Frames)
<1> DEFINE N == PathNames(i, {p})
           B == StepsTo(root, p)
           Q == PlacesOf(place)
<1>1. root \in Frames /\ root \in Roots \ {kernel_pml4}
  BY NodesAssumption DEF SpacesDiffer, Static
<1>2. /\ free' \cup Used(place') = free \cup Used(place)
      /\ Q \subseteq PlacesOf(place') /\ PlacesOf(place') \subseteq Q \cup B
      /\ ~panicked' => PlacesOf(place') = Q \cup B
      /\ panicked' => free' = {} /\ \E x \in B : x \notin PlacesOf(place')
  BY <1>1, MapUses
<1>3. {Site(TheirSpaces, t) : t \in N} = B
  BY <1>1, SitesOnPath
<1>4. Q = {Site(TheirSpaces, t) : t \in TableNames}
  BY DEF Counts
<1>5. \A t \in TableNames \cup N : TableName(Begun, t)
  BY PathIsName DEF Names
<1> HIDE DEF N, B, Q
<1>6. {Site(TheirSpaces, t) : t \in TableNames \cup N} = Q \cup B
  BY <1>3, <1>4
<1>7. Cardinality(Frames \ (free' \cup Used(place'))) = Cardinality(FrameNames)
  BY <1>2 DEF Counts
<1>8. ASSUME ~panicked'
      PROVE  Counts(TheirSpaces, free', place', FrameNames, TableNames \cup N)
  BY <1>2, <1>6, <1>7, <1>8 DEF Counts
<1>9. ASSUME panicked', NEW W, IsFiniteSet(W), FrameNames \cup TableNames \cup N \subseteq W
      PROVE  Cardinality(W) > Cardinality(Frames)
  <2> DEFINE K == {t \in TableNames \cup N : Site(TheirSpaces, t) \in PlacesOf(place')}
  <2>1. PICK x \in B : x \notin PlacesOf(place')
    BY <1>2, <1>9
  <2>2. PICK z \in N : Site(TheirSpaces, z) = x
    BY <1>3
  <2>3. z \in W /\ z \notin FrameNames \cup K
    <3>1. z[2] = "table"
      BY <1>5 DEF TableName
    <3> QED
      BY <1>9, <2>1, <2>2, <3>1 DEF Names
  <2>4. PlacesOf(place') = {Site(TheirSpaces, t) : t \in K}
    <3>1. PlacesOf(place') \subseteq {Site(TheirSpaces, t) : t \in TableNames \cup N}
      BY <1>2, <1>6
    <3> QED
      BY <3>1
  <2>5. K \subseteq TableNames \cup N
    OBVIOUS
  <2> HIDE DEF K
  <2>6. Names(Begun, FrameNames, K) /\ FrameNames \cup K \subseteq W
    BY <1>5, <1>9, <2>5 DEF Names
  <2>7. Tree(entries', {}, held', place') /\ Counts(TheirSpaces, {}, place', FrameNames, K)
    BY <1>2, <1>7, <1>9, <2>4 DEF Counts
  <2> QED
    BY <1>9, <2>3, <2>6, <2>7, TooMany
<1> QED
  BY <1>8, <1>9 DEF N

(* A space more, or panic without its root.                                *)
WithSpace(n, sp, r) == [j \in 1 .. n + 1 |-> IF j \in 1 .. n THEN sp[j] ELSE r]

LEMMA OneSpace ==
  ASSUME NEW z, NEW r,
         Tree(entries, free, held, place), create_address_space, Begun \in Nat,
         SpacesDiffer(Begun, TheirSpaces), \A j \in 1 .. Begun : TheirSpaces[j] \in Roots,
         Names(Begun, FrameNames, TableNames),
         Counts(TheirSpaces, free, place, FrameNames, TableNames),
         z = <<Begun + 1, "table", <<>>>>, r = (CHOOSE f \in Roots' \ Roots : TRUE)
  PROVE  LET sp == WithSpace(Begun, TheirSpaces, r) IN
         /\ ~panicked' => /\ \A j, k \in 1 .. Begun + 1 : sp[j] = sp[k] => j = k
                          /\ Counts(sp, free', place', FrameNames, TableNames \cup {z})
         /\ panicked' => \A W : IsFiniteSet(W) /\ FrameNames \cup TableNames \cup {z} \subseteq W
                                  => Cardinality(W) > Cardinality(Frames)
<1> DEFINE sp2 == WithSpace(Begun, TheirSpaces, r)
<1>1. z \notin FrameNames \cup TableNames
  <2>1. z[1] = Begun + 1 /\ z[2] = "table" /\ Begun + 1 \notin 1 .. Begun
    OBVIOUS
  <2> QED
    BY <2>1 DEF Names, TableName
<1>2. ASSUME panicked', NEW W, IsFiniteSet(W), FrameNames \cup TableNames \cup {z} \subseteq W
      PROVE  Cardinality(W) > Cardinality(Frames)
  <2>1. free = {}
    BY <1>2, SpaceUses
  <2>2. Tree(entries, {}, held, place) /\ Counts(TheirSpaces, {}, place, FrameNames, TableNames)
    BY <2>1
  <2>3. FrameNames \cup TableNames \subseteq W /\ z \in W
    BY <1>2
  <2> QED
    BY <1>1, <1>2, <2>2, <2>3, TooMany
<1>3. ASSUME ~panicked'
      PROVE  /\ \A j, k \in 1 .. Begun + 1 : sp2[j] = sp2[k] => j = k
             /\ Counts(sp2, free', place', FrameNames, TableNames \cup {z})
  <2>1. PICK f \in Frames : /\ f \in free /\ f \notin Roots /\ Roots' \ Roots = {f}
                            /\ free' = free \ {f} /\ Used(place') = Used(place) \cup {f}
                            /\ PlacesOf(place') = PlacesOf(place) \cup {Top(f)}
    BY <1>3, SpaceUses
  <2>2. (CHOOSE g \in Roots' \ Roots : TRUE) = f
    BY <2>1
  <2>3. /\ sp2 \in [1 .. Begun + 1 -> Frames] /\ sp2[Begun + 1] = f
        /\ \A j \in 1 .. Begun : sp2[j] = TheirSpaces[j]
    BY <2>1, <2>2 DEF SpacesDiffer, WithSpace
  <2> HIDE DEF sp2
  <2>4. \A j, k \in 1 .. Begun + 1 : sp2[j] = sp2[k] => j = k
    <3>1. \A j \in 1 .. Begun + 1 : j \in 1 .. Begun \/ j = Begun + 1
      OBVIOUS
    <3>2. \A j \in 1 .. Begun : sp2[j] # f
      BY <2>1, <2>3
    <3> QED
      BY <2>3, <3>1, <3>2 DEF SpacesDiffer
  <2>5. Frames \ (free' \cup Used(place')) = Frames \ (free \cup Used(place))
    BY <2>1
  <2>6. Site(sp2, z) = Top(f)
    <3>1. Top(f) \o <<>> = Top(f)
      BY DEF Top
    <3> QED
      BY <2>3, <3>1 DEF Site, PlaceOf
  <2>7. \A t \in TableNames : Site(sp2, t) = Site(TheirSpaces, t)
    BY <2>3 DEF Names, TableName, Site
  <2>8. PlacesOf(place') = {Site(sp2, t) : t \in TableNames \cup {z}}
    <3>1. PlacesOf(place) = {Site(TheirSpaces, t) : t \in TableNames}
      BY DEF Counts
    <3> QED
      BY <2>1, <2>6, <2>7, <3>1
  <2> QED
    BY <2>4, <2>5, <2>8 DEF Counts, sp2
<1> QED
  BY <1>2, <1>3

----------------------------------------------------------------------------
(* The pages that are done.                                                *)

LEMMA DoneIsOf ==
  ASSUME NEW j, NEW head, NEW front
  PROVE  PagesDone(modules[j].headers, head, front) \subseteq PagesFor(j)
  BY InPagesDone, InPagesFor

LEMMA DoneStays ==
  ASSUME NEW hs, NEW head, NEW front, NEW head2, NEW front2,
         \A s \in DOMAIN hs : Loads(hs[s]) => \A k \in 0 .. hs[s].memsz - 1 :
           Finished(head, front, s, PageOf(hs[s], k)) <=> Finished(head2, front2, s, PageOf(hs[s], k))
  PROVE  PagesDone(hs, head2, front2) = PagesDone(hs, head, front)
<1>1. \A s \in DOMAIN hs : Loads(hs[s]) => \A n \in PagesIn(hs[s]) :
        Finished(head, front, s, n) <=> Finished(head2, front2, s, n)
  BY DEF PagesIn
<1>2. \A x : x \in PagesDone(hs, head2, front2) <=> x \in PagesDone(hs, head, front)
  BY <1>1, InPagesDone
<1> QED
  BY <1>2

LEMMA NoneDone ==
  ASSUME NEW hs \in Seq(ProgramHeader)
  PROVE  PagesDone(hs, 1, 0) = {}
<1> SUFFICES ASSUME NEW x \in PagesDone(hs, 1, 0) PROVE FALSE
  OBVIOUS
<1>1. PICK s \in DOMAIN hs : \E n \in PagesIn(hs[s]) : Finished(1, 0, s, n)
  BY InPagesDone
<1>2. PICK n \in PagesIn(hs[s]) : Finished(1, 0, s, n)
  BY <1>1
<1>3. PICK k \in 0 .. hs[s].memsz - 1 : n = PageOf(hs[s], k)
  BY DEF PagesIn
<1>4. s \in Nat /\ s >= 1 /\ hs[s] \in ProgramHeader
  OBVIOUS
<1>5. n \in Nat
  BY <1>3, <1>4, ByteIsAt
<1> QED
  BY <1>2, <1>4, <1>5 DEF Finished

LEMMA DoneSkips ==
  ASSUME NEW hs \in Seq(ProgramHeader), NEW head \in DOMAIN hs, ~Loads(hs[head])
  PROVE  PagesDone(hs, head + 1, 0) = PagesDone(hs, head, 0)
<1> SUFFICES ASSUME NEW s \in DOMAIN hs, Loads(hs[s]), NEW k \in 0 .. hs[s].memsz - 1
             PROVE  Finished(head, 0, s, PageOf(hs[s], k))
                      <=> Finished(head + 1, 0, s, PageOf(hs[s], k))
  BY DoneStays
<1>1. s \in Nat /\ head \in Nat /\ hs[s] \in ProgramHeader /\ s # head
  OBVIOUS
<1>2. PageOf(hs[s], k) \in Nat
  BY <1>1, ByteIsAt
<1> QED
  BY <1>1, <1>2 DEF Finished

LEMMA DoneStarts ==
  ASSUME NEW hs \in Seq(ProgramHeader), NEW head \in DOMAIN hs
  PROVE  PagesDone(hs, head, hs[head].page) = PagesDone(hs, head, 0)
<1> SUFFICES ASSUME NEW s \in DOMAIN hs, Loads(hs[s]), NEW k \in 0 .. hs[s].memsz - 1
             PROVE  Finished(head, 0, s, PageOf(hs[s], k))
                      <=> Finished(head, hs[head].page, s, PageOf(hs[s], k))
  BY DoneStays
<1>1. s \in Nat /\ head \in Nat /\ hs[s] \in ProgramHeader
  OBVIOUS
<1>2. PageOf(hs[s], k) \in Nat /\ PageOf(hs[s], k) >= hs[s].page /\ hs[s].page \in Nat
  BY <1>1, ByteIsAt DEF ProgramHeader
<1> QED
  BY <1>1, <1>2 DEF Finished

LEMMA DoneEnds ==
  ASSUME NEW hs \in Seq(ProgramHeader), NEW head \in DOMAIN hs,
         NEW sec \in SectionType, Copied(hs[head], sec), ~(sec.memsz > 0)
  PROVE  PagesDone(hs, head + 1, 0) = PagesDone(hs, head, sec.page)
<1> SUFFICES ASSUME NEW s \in DOMAIN hs, Loads(hs[s]), NEW k \in 0 .. hs[s].memsz - 1
             PROVE  Finished(head, sec.page, s, PageOf(hs[s], k))
                      <=> Finished(head + 1, 0, s, PageOf(hs[s], k))
  BY DoneStays
<1>1. s \in Nat /\ head \in Nat /\ hs[s] \in ProgramHeader
  OBVIOUS
<1>2. PageOf(hs[s], k) \in Nat
  BY <1>1, ByteIsAt
<1>3. s = head => PageOf(hs[s], k) < sec.page
  BY <1>1, AllBelow
<1> QED
  BY <1>1, <1>2, <1>3 DEF Finished

(* One page more.                                                          *)
LEMMA DoneGrows ==
  ASSUME NEW hs \in Seq(ProgramHeader), NEW head \in DOMAIN hs, Loads(hs[head]),
         NEW sec \in SectionType, Copied(hs[head], sec), sec.memsz > 0
  PROVE  /\ PagesDone(hs, head, sec.page + 1)
              = PagesDone(hs, head, sec.page) \cup {<<head, sec.page>>}
         /\ <<head, sec.page>> \notin PagesDone(hs, head, sec.page)
<1> DEFINE n0 == sec.page
<1>1. head \in Nat /\ hs[head] \in ProgramHeader /\ n0 \in Nat
  BY DEF SectionType
<1>2. n0 \in PagesIn(hs[head])
  <2>1. Reach(hs[head], sec) \in 0 .. hs[head].memsz - 1 /\ PageOf(hs[head], Reach(hs[head], sec)) = n0
    BY <1>1, NextByte
  <2> QED
    BY <2>1 DEF PagesIn
<1>3. ASSUME NEW s \in DOMAIN hs, NEW n \in PagesIn(hs[s])
      PROVE  s \in Nat /\ n \in Nat
  <2>1. PICK k \in 0 .. hs[s].memsz - 1 : n = PageOf(hs[s], k)
    BY DEF PagesIn
  <2>2. s \in Nat /\ hs[s] \in ProgramHeader
    OBVIOUS
  <2> QED
    BY <2>1, <2>2, ByteIsAt
<1> HIDE DEF n0
<1>4. \A s \in DOMAIN hs : \A n \in PagesIn(hs[s]) :
        Finished(head, n0 + 1, s, n) <=> Finished(head, n0, s, n) \/ (s = head /\ n = n0)
  BY <1>1, <1>3 DEF Finished
<1>5. ASSUME NEW x
      PROVE  x \in PagesDone(hs, head, n0 + 1)
               <=> x \in PagesDone(hs, head, n0) \/ x = <<head, n0>>
  <2>1. x = <<head, n0>> => x \in PagesDone(hs, head, n0 + 1)
    <3>1. Finished(head, n0 + 1, head, n0)
      BY <1>1 DEF Finished
    <3> QED
      BY <1>2, <3>1, InPagesDone
  <2>2. x \in PagesDone(hs, head, n0 + 1) => x \in PagesDone(hs, head, n0) \/ x = <<head, n0>>
    BY <1>4, InPagesDone
  <2>3. x \in PagesDone(hs, head, n0) => x \in PagesDone(hs, head, n0 + 1)
    BY <1>4, InPagesDone
  <2> QED
    BY <2>1, <2>2, <2>3
<1>6. <<head, n0>> \notin PagesDone(hs, head, n0)
  <2> SUFFICES ASSUME <<head, n0>> \in PagesDone(hs, head, n0) PROVE FALSE
    OBVIOUS
  <2>1. PICK s \in DOMAIN hs : \E n \in PagesIn(hs[s]) :
               <<head, n0>> = <<s, n>> /\ Finished(head, n0, s, n)
    BY InPagesDone
  <2>2. Finished(head, n0, head, n0)
    BY <2>1
  <2> QED
    BY <1>1, <2>2 DEF Finished
<1> QED
  BY <1>5, <1>6 DEF n0

LEMMA PathsGrow ==
  ASSUME NEW A, NEW s, NEW n
  PROVE  PathsTo(A \cup {<<s, n>>}) = PathsTo(A) \cup {PagePath(n)}
<1>1. PagePath(<<s, n>>[2]) = PagePath(n)
  OBVIOUS
<1>2. \A y : y \in PathsTo(A \cup {<<s, n>>}) <=> y \in PathsTo(A) \/ y = PagePath(<<s, n>>[2])
  BY DEF PathsTo
<1> QED
  BY <1>1, <1>2

(* The modules stay, and with them what is counted.                        *)
LEMMA UsesStay ==
  ASSUME modules' = modules
  PROVE  /\ \A j : FramesFor(j)' = FramesFor(j) /\ TablesFor(j)' = TablesFor(j)
         /\ \A n : FramesForFirst(n)' = FramesForFirst(n)
<1>1. ASSUME NEW j
      PROVE  PagesFor(j)' = PagesFor(j)
  <2>1. \A s : PagesOf(j, s)' = PagesOf(j, s)
    BY DEF PagesOf
  <2>2. \A s : IsLoaded(j, s)' <=> IsLoaded(j, s)
    BY DEF IsLoaded
  <2>3. {t \in DOMAIN modules'[j].headers : IsLoaded(j, t)'}
          = {t \in DOMAIN modules[j].headers : IsLoaded(j, t)}
    BY <2>2
  <2> QED
    BY <2>1, <2>3 DEF PagesFor
<1>2. \A j : FramesFor(j)' = FramesFor(j)
  BY <1>1 DEF FramesFor
<1>3. \A j : TablesFor(j)' = TablesFor(j)
  BY <1>1 DEF TablesFor
<1>4. \A n : FramesForFirst(n)' = FramesForFirst(n)
  BY <1>2, <1>3 DEF FramesForFirst
<1> QED
  BY <1>2, <1>3, <1>4

----------------------------------------------------------------------------
(* The names fit what they count.                                          *)

LEMMA InFirst ==
  ASSUME NEW n, NEW x
  PROVE  x \in FramesForFirst(n) <=> \E j \in 1 .. n : x \in FramesFor(j) \cup TablesFor(j)
  BY DEF FramesForFirst

LEMMA FinitePair ==
  ASSUME NEW a, NEW b
  PROVE  IsFiniteSet({a, b})
<1>1. IsFiniteSet({a})
  BY FS_Singleton
<1>2. IsFiniteSet({a} \cup {b})
  BY <1>1, FS_AddElement
<1>3. {a} \cup {b} = {a, b}
  OBVIOUS
<1> QED
  BY <1>2, <1>3

LEMMA InFrameNames ==
  ASSUME NEW x
  PROVE  x \in FrameNames <=>
           \/ \E j \in 1 .. i - 1 : x \in FramesFor(j)
           \/ pc \in Loading /\ x \in PageNames(i, Backed)
           \/ pc \in {"task", "launch"} /\ x = <<i, "stack", <<>>>>
           \/ pc = "launch" /\ x = <<i, "task", <<>>>>
<1>1. x \in OldFrames <=> \E j \in 1 .. i - 1 : x \in FramesFor(j)
  BY DEF OldFrames
<1> QED
  BY <1>1 DEF FrameNames

LEMMA InTableNames ==
  ASSUME NEW x
  PROVE  x \in TableNames <=>
           \/ \E j \in 1 .. i - 1 : x \in TablesFor(j)
           \/ pc \in Loading /\ (x = <<i, "table", <<>>>> \/ x \in PathNames(i, PathsTo(Mapped)))
<1>1. x \in OldTables <=> \E j \in 1 .. i - 1 : x \in TablesFor(j)
  BY DEF OldTables
<1> QED
  BY <1>1 DEF TableNames

LEMMA FinitePaths ==
  ASSUME NEW j, NEW paths, IsFiniteSet(paths)
  PROVE  IsFiniteSet(PathNames(j, paths))
<1> DEFINE K == paths \X (0 .. 3)
           g == [x \in K |-> <<j, "table", SubSeq(x[1], 1, x[2])>>]
<1>1. IsFiniteSet(K)
  <2>1. 0 \in Int /\ 3 \in Int
    OBVIOUS
  <2>2. IsFiniteSet(0 .. 3)
    BY <2>1, FS_Interval, Zenon
  <2> QED
    BY <2>2, FS_Product, Zenon
<1>2. IsFiniteSet({g[x] : x \in K})
  <2> HIDE DEF K, g
  <2> QED
    BY <1>1, FiniteImage
<1>3. ASSUME NEW y \in PathNames(j, paths)
      PROVE  y \in {g[x] : x \in K}
  <2>1. PICK p \in paths, n \in 0 .. 3 : y = <<j, "table", SubSeq(p, 1, n)>>
    BY InPathNames
  <2>2. <<p, n>> \in K /\ <<p, n>>[1] = p /\ <<p, n>>[2] = n
    OBVIOUS
  <2>3. g[<<p, n>>] = y
    BY <2>1, <2>2
  <2> QED
    BY <2>2, <2>3
<1> QED
  BY <1>2, <1>3, FS_Subset

LEMMA FiniteFirst ==
  ASSUME NEW n \in Nat, \A j \in 1 .. n : ModuleFits(modules[j])
  PROVE  IsFiniteSet(FramesForFirst(n))
<1> DEFINE f == [j \in 1 .. n |-> FramesFor(j) \cup TablesFor(j)]
<1>1. ASSUME NEW j \in 1 .. n
      PROVE  IsFiniteSet(f[j])
  <2> DEFINE A == {<<j, "task", <<>>>>, <<j, "stack", <<>>>>}
             g == [x \in PagesFor(j) |-> <<j, "page", x>>]
             h == [x \in PagesFor(j) |-> PagePath(x[2])]
  <2>1. IsFiniteSet(PagesFor(j))
    BY FinitePages
  <2>2. IsFiniteSet({g[x] : x \in PagesFor(j)}) /\ IsFiniteSet({h[x] : x \in PagesFor(j)})
    BY <2>1, FiniteImage
  <2>3. IsFiniteSet(A)
    BY FinitePair
  <2>4. IsFiniteSet(FramesFor(j))
    <3>1. FramesFor(j) = A \cup {g[x] : x \in PagesFor(j)}
      BY DEF FramesFor
    <3> HIDE DEF A, g
    <3> QED
      BY <2>2, <2>3, <3>1, FS_Union
  <2>5. IsFiniteSet(PathNames(j, PathsTo(PagesFor(j)))) /\ IsFiniteSet(PathNames(j, {StackPage}))
    <3>1. PathsTo(PagesFor(j)) = {h[x] : x \in PagesFor(j)}
      BY DEF PathsTo
    <3>2. IsFiniteSet({StackPage})
      BY FS_Singleton
    <3> QED
      BY <2>2, <3>1, <3>2, FinitePaths
  <2>6. IsFiniteSet(TablesFor(j))
    BY <2>5, TablesAre, FS_Union
  <2> QED
    BY <2>4, <2>6, FS_Union
<1>2. IsFiniteSet(1 .. n)
  BY FS_Interval
<1>3. FramesForFirst(n) = UNION {f[j] : j \in 1 .. n}
  BY DEF FramesForFirst
<1> HIDE DEF f
<1> QED
  BY <1>1, <1>2, <1>3, FiniteUnion

LEMMA ModulesBegun ==
  ASSUME LoaderInv
  PROVE  /\ i \in Nat /\ i >= 1 /\ i - 1 \in Nat /\ Begun \in Nat
         /\ Begun >= i - 1 /\ Begun <= i
         /\ Len(modules) \in Nat /\ i <= Len(modules) + 1
         /\ pc \in Loading => i \in DOMAIN modules /\ i <= Len(modules)
         /\ \A j \in 1 .. Begun : ModuleFits(modules[j])
         /\ i <= Len(modules) => \A j \in 1 .. i : ModuleFits(modules[j])
         /\ DOMAIN tasks = 1 .. i - 1
<1>1. modules \in BootModules /\ i \in 1 .. Len(modules) + 1 /\ Len(tasks) = i - 1
      /\ DOMAIN tasks = 1 .. Len(tasks)
  BY DEF LoaderInv, LoaderTypes
<1>2. /\ Len(modules) \in Nat /\ DOMAIN modules = 1 .. Len(modules)
      /\ \A j \in DOMAIN modules : ModuleFits(modules[j])
  BY <1>1, ModulesFit
<1>3. pc \in Loading => i \in DOMAIN modules
  BY DEF LoaderInv, Progress
<1>4. Begun = IF pc \in Loading THEN i ELSE i - 1
  BY DEF Begun
<1>5. Begun \in Nat /\ Begun <= Len(modules) /\ Begun >= i - 1 /\ Begun <= i
  BY <1>1, <1>2, <1>3, <1>4
<1> QED
  BY <1>1, <1>2, <1>3, <1>5

(* Those of the modules that are loaded ...                                *)
LEMMA OldNames ==
  ASSUME NEW j, NEW n, j \in 1 .. n, ModuleFits(modules[j])
  PROVE  /\ \A x \in FramesFor(j) : x[1] = j /\ x[2] # "table"
         /\ \A t \in TablesFor(j) : t[1] = j /\ TableName(n, t)
<1>1. \A x \in FramesFor(j) : x[1] = j /\ x[2] # "table"
  BY InFramesFor
<1>2. ASSUME NEW t \in TablesFor(j)
      PROVE  t[1] = j /\ TableName(n, t)
  <2>1. {StackPage} \subseteq UserPages /\ PathsTo(PagesFor(j)) \subseteq UserPages
    BY PathsFit
  <2>2. t \in PathNames(j, PathsTo(PagesFor(j))) \/ t \in PathNames(j, {StackPage})
    BY TablesAre
  <2> QED
    BY <2>1, <2>2, PathIsName
<1> QED
  BY <1>1, <1>2

(* ... and all.                                                            *)
LEMMA NamesFit ==
  ASSUME LoaderInv
  PROVE  /\ Names(Begun, FrameNames, TableNames)
         /\ FrameNames \cup TableNames \subseteq FramesForFirst(Begun)
         /\ \A x \in FrameNames \cup TableNames : x[1] \in 1 .. Begun
         /\ pc \in Loading => PathsTo(Mapped) \subseteq UserPages
<1> DEFINE hs == modules[i].headers
<1>1. /\ Begun \in Nat /\ i \in Nat /\ i >= 1 /\ \A j \in 1 .. i - 1 : j \in 1 .. Begun
      /\ \A j \in 1 .. Begun : ModuleFits(modules[j])
      /\ pc \in Loading => Begun = i
  BY ModulesBegun DEF Begun
<1>2. Mapped \subseteq PagesFor(i) /\ Backed \subseteq PagesFor(i)
  BY DoneIsOf DEF Mapped, Backed
<1>3. ASSUME pc \in Loading
      PROVE  /\ i \in 1 .. Begun /\ ModuleFits(modules[i])
             /\ PathsTo(Mapped) \subseteq PathsTo(PagesFor(i)) /\ PathsTo(Mapped) \subseteq UserPages
  <2>1. i \in 1 .. Begun /\ ModuleFits(modules[i])
    BY <1>1, <1>3
  <2>2. PathsTo(Mapped) \subseteq PathsTo(PagesFor(i))
    BY <1>2 DEF PathsTo
  <2> QED
    BY <2>1, <2>2, PathsFit
<1>4. ASSUME NEW x \in FrameNames
      PROVE  \E j \in 1 .. Begun : x \in FramesFor(j)
  <2>1. CASE \E j \in 1 .. i - 1 : x \in FramesFor(j)
    BY <1>1, <2>1
  <2>2. CASE /\ pc \in Loading
             /\ \/ x \in PageNames(i, Backed) \/ x = <<i, "stack", <<>>>> \/ x = <<i, "task", <<>>>>
    <3>1. x \in FramesFor(i)
      BY <1>2, <2>2 DEF FramesFor, PageNames
    <3> QED
      BY <1>3, <2>2, <3>1
  <2> QED
    BY <2>1, <2>2, InFrameNames DEF Loading
<1>5. ASSUME NEW t \in TableNames
      PROVE  TableName(Begun, t) /\ \E j \in 1 .. Begun : t \in TablesFor(j)
  <2>1. CASE \E j \in 1 .. i - 1 : t \in TablesFor(j)
    BY <1>1, <2>1, OldNames
  <2>2. CASE pc \in Loading /\ t \in PathNames(i, PathsTo(Mapped))
    <3>1. TableName(Begun, t)
      BY <1>3, <2>2, PathIsName
    <3>2. t \in PathNames(i, PathsTo(PagesFor(i)))
      BY <1>3, <2>2, InPathNames
    <3> QED
      BY <1>3, <2>2, <3>1, <3>2, TablesAre
  <2>3. CASE pc \in Loading /\ t = <<i, "table", <<>>>>
    <3>1. TableName(Begun, t)
      BY <1>3, <2>3 DEF TableName
    <3>2. t \in PathNames(i, {StackPage})
      <4>1. SubSeq(StackPage, 1, 0) = <<>> /\ 0 \in 0 .. 3
        OBVIOUS
      <4> QED
        BY <2>3, <4>1, InPathNames
    <3> QED
      BY <1>3, <2>3, <3>1, <3>2, TablesAre
  <2> QED
    BY <2>1, <2>2, <2>3, InTableNames
<1>6. FrameNames \cup TableNames \subseteq FramesForFirst(Begun)
  BY <1>4, <1>5, InFirst
<1>7. IsFiniteSet(FrameNames)
  <2>1. IsFiniteSet(FramesForFirst(Begun))
    BY <1>1, FiniteFirst
  <2> QED
    BY <1>6, <2>1, FS_Subset
<1>8. \A x \in FrameNames : x[1] \in 1 .. Begun /\ x[2] # "table"
  BY <1>1, <1>4, OldNames
<1>9. \A x \in FrameNames \cup TableNames : x[1] \in 1 .. Begun
  BY <1>5, <1>8 DEF TableName
<1> QED
  BY <1>3, <1>5, <1>6, <1>7, <1>8, <1>9 DEF Names

----------------------------------------------------------------------------
(* The invariant of the count: what all actions share.                     *)

LEMMA SpacesFit ==
  ASSUME LoaderInv, CountInv
  PROVE  /\ SpacesDiffer(Begun, TheirSpaces)
         /\ \A j \in 1 .. Begun : TheirSpaces[j] \in Roots
         /\ pc \in Loading => i \in 1 .. Begun /\ TheirSpaces[i] = root
<1>1. Roots \ {kernel_pml4} \subseteq Frames
  BY DEF Roots
<1>2. SpacesDiffer(Begun, TheirSpaces) /\ \A j \in 1 .. Begun : TheirSpaces[j] \in Roots
  BY <1>1 DEF CountInv, SpacesDiffer
<1>3. ASSUME pc \in Loading
      PROVE  i \in 1 .. Begun /\ TheirSpaces[i] = root
  <2>1. i \in 1 .. Begun /\ i \notin DOMAIN tasks
    BY <1>3, ModulesBegun DEF Begun
  <2> QED
    BY <2>1 DEF TheirSpaces
<1> QED
  BY <1>2, <1>3

LEMMA UsesFit ==
  ASSUME LoaderInv, pc \in Loading
  PROVE  /\ IsFiniteSet(FramesForFirst(i)) /\ FrameNames \cup TableNames \subseteq FramesForFirst(i)
         /\ FramesFor(i) \cup TablesFor(i) \subseteq FramesForFirst(i)
<1>1. i \in Nat /\ i >= 1 /\ Begun = i /\ \A j \in 1 .. i : ModuleFits(modules[j])
  BY ModulesBegun DEF Begun
<1>2. i \in 1 .. i
  BY <1>1
<1> QED
  BY <1>1, <1>2, FiniteFirst, NamesFit, InFirst

LEMMA TotalStays ==
  ASSUME modules' = modules, i' = i
  PROVE  /\ FramesForFirst(i)' = FramesForFirst(i)
         /\ OldFrames' = OldFrames /\ OldTables' = OldTables
<1>1. \A j : FramesFor(j)' = FramesFor(j) /\ TablesFor(j)' = TablesFor(j)
  BY UsesStay
<1> QED
  BY <1>1 DEF FramesForFirst, OldFrames, OldTables

(* While a module is loaded, its space and those before it stay.           *)
LEMMA SpacesStay ==
  ASSUME LoaderInv, pc \in Loading, pc' \in Loading, i' = i, root' = root, tasks' = tasks
  PROVE  Begun' = Begun /\ TheirSpaces' = TheirSpaces
  BY DEF Begun, TheirSpaces

LEMMA GoesOn ==
  ASSUME CountInv, ~panicked', Begun' = Begun, TheirSpaces' = TheirSpaces, Roots' = Roots,
         Counts(TheirSpaces, free', place', FrameNames', TableNames')
  PROVE  AccountInv'
<1>1. CountInv'
  BY DEF CountInv
<1> QED
  BY <1>1 DEF AccountInv

LEMMA AllocAccounts ==
  ASSUME LoaderInv, CountInv, pc \in Loading, FrameAlloc, Roots' = Roots,
         modules' = modules, i' = i, root' = root, tasks' = tasks, pc' \in Loading,
         NEW z \in FramesFor(i), z \notin FrameNames, z[2] # "table",
         ~panicked' => FrameNames' = FrameNames \cup {z} /\ TableNames' = TableNames
  PROVE  AccountInv'
<1>1. /\ ~panicked' => Counts(TheirSpaces, free', place', FrameNames \cup {z}, TableNames)
      /\ panicked' => \A W : IsFiniteSet(W) /\ FrameNames \cup TableNames \cup {z} \subseteq W =>
                               Cardinality(W) > Cardinality(Frames)
  <2>1. /\ Tree(entries, free, held, place) /\ SpacesDiffer(Begun, TheirSpaces)
        /\ Names(Begun, FrameNames, TableNames)
        /\ Counts(TheirSpaces, free, place, FrameNames, TableNames)
    BY LoaderFacts, SpacesFit, NamesFit DEF CountInv
  <2> QED
    BY <2>1, OneMore
<1>2. CASE panicked'
  <2>1. Cardinality(FramesForFirst(i)) > Cardinality(Frames)
    BY <1>1, <1>2, UsesFit
  <2>2. Overflows'
    BY <2>1, TotalStays DEF Overflows
  <2> QED
    BY <1>2, <2>2 DEF AccountInv
<1>3. CASE ~panicked'
  BY <1>1, <1>3, SpacesStay, GoesOn
<1> QED
  BY <1>2, <1>3

LEMMA MapAccounts ==
  ASSUME LoaderInv, CountInv, pc \in Loading, NEW p \in UserPages, NEW f, mmap(root, p, f),
         Tree(entries', free', held', place'), Roots' = Roots, modules' = modules,
         p = StackPage \/ p \in PathsTo(PagesFor(i)),
         panicked' => i' = i,
         ~panicked' => /\ Begun' = Begun /\ TheirSpaces' = TheirSpaces
                       /\ FrameNames' = FrameNames
                       /\ TableNames' = TableNames \cup PathNames(i, {p})
  PROVE  AccountInv'
<1>1. i \in 1 .. Begun /\ TheirSpaces[i] = root /\ root \in Roots
  BY SpacesFit, LoaderFacts
<1>2. /\ ~panicked' => Counts(TheirSpaces, free', place', FrameNames,
                              TableNames \cup PathNames(i, {p}))
      /\ panicked' =>
           \A W : IsFiniteSet(W) /\ FrameNames \cup TableNames \cup PathNames(i, {p}) \subseteq W =>
                    Cardinality(W) > Cardinality(Frames)
  <2>1. /\ Tree(entries, free, held, place) /\ SpacesDiffer(Begun, TheirSpaces)
        /\ Names(Begun, FrameNames, TableNames)
        /\ Counts(TheirSpaces, free, place, FrameNames, TableNames)
    BY LoaderFacts, SpacesFit, NamesFit DEF CountInv
  <2>2. i \in 1 .. Begun /\ root \in Roots /\ TheirSpaces[i] = root
    BY <1>1
  <2> QED
    BY <2>1, <2>2, MoreTables
<1>3. PathNames(i, {p}) \subseteq TablesFor(i)
  <2>1. \A t \in PathNames(i, {p}) :
          t \in PathNames(i, PathsTo(PagesFor(i))) \cup PathNames(i, {StackPage})
    BY InPathNames
  <2> QED
    BY <2>1, TablesAre
<1>4. CASE panicked'
  <2>1. Cardinality(FramesForFirst(i)) > Cardinality(Frames)
    BY <1>2, <1>3, <1>4, UsesFit
  <2>2. Overflows'
    BY <1>4, <2>1, TotalStays DEF Overflows
  <2> QED
    BY <1>4, <2>2 DEF AccountInv
<1>5. CASE ~panicked'
  BY <1>2, <1>5, GoesOn
<1> QED
  BY <1>4, <1>5

----------------------------------------------------------------------------
(* The names after a step.                                                 *)

LEMMA PageNamesUnion ==
  ASSUME NEW j, NEW A, NEW y
  PROVE  PageNames(j, A \cup {y}) = PageNames(j, A) \cup {<<j, "page", y>>}
  BY DEF PageNames

LEMMA DoneNext ==
  /\ Mapped' = PagesDone(modules'[i'].headers, header', Front')
  /\ Backed' = PagesDone(modules'[i'].headers, header',
                         IF pc' = "copy" THEN section'.page + 1 ELSE Front')
  BY DEF Mapped, Backed

LEMMA NamesNext ==
  /\ FrameNames' = OldFrames'
                     \cup (IF pc' \in Loading THEN PageNames(i', Backed') ELSE {})
                     \cup (IF pc' \in {"task", "launch"} THEN {<<i', "stack", <<>>>>} ELSE {})
                     \cup (IF pc' = "launch" THEN {<<i', "task", <<>>>>} ELSE {})
  /\ TableNames' = OldTables'
                     \cup (IF pc' \in Loading
                           THEN {<<i', "table", <<>>>>} \cup PathNames(i', PathsTo(Mapped')) ELSE {})
  BY DEF FrameNames, TableNames

(* No frame is taken and no page is done.                                  *)
LEMMA QuietAccounts ==
  ASSUME LoaderInv, AccountInv, UNCHANGED <<vars, modules, i, root, tasks>>,
         pc \in Loading, pc' \in Loading, Mapped' = Mapped, Backed' = Backed,
         pc' \in {"task", "launch"} <=> pc \in {"task", "launch"}, pc' = "launch" <=> pc = "launch"
  PROVE  AccountInv'
<1>1. /\ entries' = entries /\ free' = free /\ held' = held /\ place' = place /\ panicked' = panicked
      /\ modules' = modules /\ i' = i /\ root' = root /\ tasks' = tasks
  BY DEF vars
<1>2. CASE panicked
  <2>1. Overflows'
    BY <1>1, <1>2, TotalStays DEF AccountInv, Overflows
  <2> QED
    BY <1>1, <1>2, <2>1 DEF AccountInv
<1>3. CASE ~panicked
  <2>1. FrameNames' = FrameNames
    BY <1>1, NamesNext, TotalStays DEF FrameNames
  <2>2. TableNames' = TableNames
    BY <1>1, NamesNext, TotalStays DEF TableNames
  <2>3. Roots' = Roots
    BY <1>1 DEF Roots
  <2>4. CountInv /\ Counts(TheirSpaces, free, place, FrameNames, TableNames)
    BY <1>3 DEF AccountInv, CountInv
  <2> QED
    BY <1>1, <1>3, <2>1, <2>2, <2>3, <2>4, SpacesStay, GoesOn
<1> QED
  BY <1>2, <1>3

LEMMA NextHeaderAccounts ==
  ASSUME LoaderInv, AccountInv, NextHeader
  PROVE  AccountInv'
<1> DEFINE hs == modules[i].headers
<1>1. pc = "headers" /\ pc \in Loading /\ Front = 0
  BY DEF NextHeader, Loading, Front
<1>2. UNCHANGED <<vars, modules, i, root, tasks>> /\ modules' = modules /\ i' = i
  BY DEF NextHeader
<1>3. hs \in Seq(ProgramHeader) /\ header \in 1 .. Len(hs) + 1
  BY <1>1, ModuleFacts
<1>4. Mapped = PagesDone(hs, header, 0) /\ Backed = PagesDone(hs, header, 0)
  BY <1>1 DEF Mapped, Backed
<1>5. ASSUME pc' \in {"headers", "section", "stack"}, PagesDone(hs, header', Front') = PagesDone(hs, header, 0)
      PROVE  AccountInv'
  <2>1. Mapped' = Mapped /\ Backed' = Backed
    BY <1>2, <1>4, <1>5, DoneNext
  <2> QED
    BY <1>1, <1>2, <1>5, <2>1, QuietAccounts DEF Loading
<1>6. CASE header > Len(hs)
  <2>1. pc' = "stack" /\ header' = header
    BY <1>6 DEF NextHeader
  <2>2. Front' = 0
    BY <2>1 DEF Front
  <2> QED
    BY <1>5, <2>1, <2>2
<1>7. CASE ~(header > Len(hs)) /\ hs[header].headerType = 1
  <2>1. /\ pc' = "section" /\ header' = header
        /\ section' = [page |-> hs[header].page, offset |-> hs[header].offset, start |-> 0,
                       memsz |-> hs[header].memsz, filesz |-> hs[header].filesz]
    BY <1>7 DEF NextHeader
  <2>2. Front' = hs[header].page
    BY <2>1 DEF Front
  <2>3. header \in DOMAIN hs
    BY <1>3, <1>7
  <2> QED
    BY <1>3, <1>5, <2>1, <2>2, <2>3, DoneStarts
<1>8. CASE ~(header > Len(hs)) /\ hs[header].headerType # 1
  <2>1. pc' = pc /\ header' = header + 1
    BY <1>8 DEF NextHeader
  <2>2. Front' = 0
    BY <1>1, <2>1 DEF Front
  <2>3. header \in DOMAIN hs
    BY <1>3, <1>8
  <2> QED
    BY <1>1, <1>3, <1>5, <1>8, <2>1, <2>2, <2>3, DoneSkips DEF Loads
<1> QED
  BY <1>6, <1>7, <1>8

LEMMA NextPageAccounts ==
  ASSUME LoaderInv, AccountInv, NextPage
  PROVE  AccountInv'
<1> DEFINE hs == modules[i].headers
           z == <<i, "page", <<header, section.page>>>>
<1>1. /\ pc = "section" /\ pc \in Loading /\ Front = section.page
      /\ modules' = modules /\ i' = i /\ root' = root /\ section' = section /\ tasks' = tasks
  BY DEF NextPage, Loading, Front
<1>2. hs \in Seq(ProgramHeader)
  BY <1>1, ModuleFacts
<1>3. /\ header \in DOMAIN hs /\ Loads(hs[header]) /\ Copied(hs[header], section)
      /\ section \in SectionType
  BY <1>1 DEF LoaderInv, LoaderTypes, Progress
<1>4. Mapped = PagesDone(hs, header, section.page) /\ Backed = PagesDone(hs, header, section.page)
  BY <1>1 DEF Mapped, Backed
<1>5. CASE ~MorePages
  <2>1. UNCHANGED vars /\ pc' = "headers" /\ header' = header + 1
    BY <1>5 DEF NextPage
  <2>2. Front' = 0
    BY <2>1 DEF Front
  <2>3. PagesDone(hs, header + 1, 0) = PagesDone(hs, header, section.page)
    BY <1>2, <1>3, <1>5, DoneEnds DEF MorePages
  <2>4. Mapped' = Mapped /\ Backed' = Backed
    BY <1>1, <1>4, <2>1, <2>2, <2>3, DoneNext
  <2> QED
    BY <1>1, <2>1, <2>4, QuietAccounts DEF Loading
<1>6. CASE MorePages
  <2>1. frame_alloc_zero /\ pc' = (IF panicked' THEN pc ELSE "copy") /\ header' = header
    BY <1>6 DEF NextPage, Goto
  <2>2. FrameAlloc /\ ~panicked
    BY <2>1 DEF frame_alloc_zero, FrameAlloc
  <2>3. CountInv
    BY <2>2 DEF AccountInv
  <2>4. Roots' = Roots
    BY <2>1, LoaderFacts, TakeFrame
  <2>5. /\ PagesDone(hs, header, section.page + 1)
             = PagesDone(hs, header, section.page) \cup {<<header, section.page>>}
        /\ <<header, section.page>> \notin PagesDone(hs, header, section.page)
    BY <1>2, <1>3, <1>6, DoneGrows DEF MorePages
  <2>6. z \in FramesFor(i)
    <3>1. <<header, section.page>> \in PagesFor(i)
      BY <2>5, DoneIsOf
    <3> QED
      BY <3>1, InFramesFor
  <2>7. z \notin FrameNames
    <3>1. z \notin PageNames(i, Backed)
      BY <1>4, <2>5 DEF PageNames
    <3>2. \A j \in 1 .. i - 1 : z \notin FramesFor(j)
      <4> SUFFICES ASSUME NEW j \in 1 .. i - 1, z \in FramesFor(j) PROVE FALSE
        OBVIOUS
      <4>1. z[1] = j /\ z[1] = i
        BY InFramesFor
      <4> QED
        BY <4>1, ModulesBegun
    <3> QED
      BY <1>1, <3>1, <3>2, InFrameNames
  <2>8. z[2] # "table"
    OBVIOUS
  <2>9. ASSUME ~panicked'
        PROVE  FrameNames' = FrameNames \cup {z} /\ TableNames' = TableNames
    <3>1. pc' = "copy" /\ pc' \in Loading /\ Front' = section.page
      BY <1>1, <2>1, <2>9 DEF Loading, Front
    <3>2. Mapped' = Mapped /\ Backed' = Backed \cup {<<header, section.page>>}
      BY <1>1, <1>4, <2>1, <2>5, <3>1, DoneNext
    <3>3. PageNames(i, Backed') = PageNames(i, Backed) \cup {z}
      BY <3>2, PageNamesUnion
    <3> HIDE DEF z
    <3>4. FrameNames' = FrameNames \cup {z}
      BY <1>1, <3>1, <3>3, NamesNext, TotalStays DEF FrameNames
    <3>5. TableNames' = TableNames
      BY <1>1, <3>1, <3>2, NamesNext, TotalStays DEF TableNames
    <3> QED
      BY <3>4, <3>5
  <2>10. pc' \in Loading
    BY <1>1, <2>1 DEF Loading
  <2> HIDE DEF z
  <2> QED
    BY <1>1, <2>2, <2>3, <2>4, <2>6, <2>7, <2>8, <2>9, <2>10, AllocAccounts
<1> QED
  BY <1>5, <1>6

(* A mapping makes no space.                                               *)
LEMMA MapRoots ==
  ASSUME Tree(entries, free, held, place), Tree(entries', free', held', place'),
         NEW r, r \in Roots, NEW p, p \in UserPages, NEW f, mmap(r, p, f)
  PROVE  Roots' = Roots
<1>1. PICK c \in resolve_pageentry(r, p) : Commit(c, PageEntry(f, p \in UserPages))
  BY DEF mmap
<1>2. p \in MapPages
  BY UserPlaces
<1>3. SamePages(entries, place, c.entries, c.place) /\ place' = c.place
  BY <1>1, <1>2, ResolvedAt DEF Commit
<1>4. RootsOf(place') = RootsOf(place)
  BY <1>3 DEF RootsOf, SamePages
<1> QED
  BY <1>4, RootsNow, RootsNext

LEMMA CopyPageAccounts ==
  ASSUME LoaderInv, AccountInv, CopyPage
  PROVE  AccountInv'
<1> DEFINE hs == modules[i].headers
           p  == PagePath(section.page)
<1>1. /\ pc = "copy" /\ pc \in Loading /\ Front = section.page
      /\ modules' = modules /\ i' = i /\ root' = root /\ header' = header /\ tasks' = tasks
      /\ mmap(root, p, frame) /\ pc' = IF panicked' THEN pc ELSE "section"
      /\ ~panicked' => section'.page = section.page + 1
  BY DEF CopyPage, Loading, Front, Goto
<1>2. CountInv
  BY <1>1 DEF AccountInv, mmap
<1>3. /\ hs \in Seq(ProgramHeader) /\ ModuleFits(modules[i])
      /\ header \in DOMAIN hs /\ Loads(hs[header]) /\ Copied(hs[header], section)
      /\ section \in SectionType /\ section.memsz > 0
  BY <1>1, ModuleFacts DEF LoaderInv, LoaderTypes, Progress
<1>4. /\ Mapped = PagesDone(hs, header, section.page)
      /\ Backed = PagesDone(hs, header, section.page + 1)
  BY <1>1 DEF Mapped, Backed
<1>5. Backed = Mapped \cup {<<header, section.page>>}
  BY <1>3, <1>4, DoneGrows
<1>6. p \in PathsTo(PagesFor(i))
  <2>1. <<header, section.page>> \in PagesFor(i)
    BY <1>4, <1>5, DoneIsOf
  <2>2. <<header, section.page>>[2] = section.page
    OBVIOUS
  <2> QED
    BY <2>1, <2>2 DEF PathsTo
<1>7. p \in UserPages
  BY <1>3, <1>6, PathsFit
<1>8. Tree(entries', free', held', place')
  BY CopyPageKeeps DEF LoaderInv
<1>9. Roots' = Roots
  <2>1. Tree(entries, free, held, place) /\ root \in Roots /\ mmap(root, p, frame)
    BY <1>1, LoaderFacts
  <2> HIDE DEF p
  <2> QED
    BY <1>7, <1>8, <2>1, MapRoots
<1>10. ASSUME ~panicked'
       PROVE  /\ Begun' = Begun /\ TheirSpaces' = TheirSpaces
              /\ FrameNames' = FrameNames
              /\ TableNames' = TableNames \cup PathNames(i, {p})
  <2>1. pc' = "section" /\ pc' \in Loading /\ Front' = section.page + 1
    BY <1>1, <1>10 DEF Loading, Front
  <2>2. Mapped' = Mapped \cup {<<header, section.page>>} /\ Backed' = Backed
    BY <1>1, <1>4, <1>5, <2>1, DoneNext
  <2>3. PathNames(i, PathsTo(Mapped')) = PathNames(i, PathsTo(Mapped)) \cup PathNames(i, {p})
    <3>1. PathsTo(Mapped') = PathsTo(Mapped) \cup {p}
      BY <2>2, PathsGrow, Zenon
    <3> HIDE DEF p
    <3> QED
      BY <3>1, PathNamesUnion
  <2>4. FrameNames' = FrameNames
    BY <1>1, <2>1, <2>2, NamesNext, TotalStays DEF FrameNames
  <2> HIDE DEF p
  <2>5. TableNames' = TableNames \cup PathNames(i, {p})
    BY <1>1, <2>1, <2>3, NamesNext, TotalStays DEF TableNames
  <2> QED
    BY <1>1, <2>1, <2>4, <2>5, SpacesStay
<1> HIDE DEF p
<1> QED
  BY <1>1, <1>2, <1>6, <1>7, <1>8, <1>9, <1>10, MapAccounts

(* A frame that is not for a page.                                         *)
LEMMA FreshName ==
  ASSUME LoaderInv, NEW u, u \in {"stack", "task"}
  PROVE  /\ <<i, u, <<>>>> \in FramesFor(i)
         /\ \A j \in 1 .. i - 1 : <<i, u, <<>>>> \notin FramesFor(j)
         /\ <<i, u, <<>>>> \notin PageNames(i, Backed)
<1>1. <<i, u, <<>>>> \in FramesFor(i)
  BY InFramesFor
<1>2. ASSUME NEW j \in 1 .. i - 1, <<i, u, <<>>>> \in FramesFor(j)
      PROVE  FALSE
  <2>1. <<i, u, <<>>>>[1] = j
    BY <1>2, InFramesFor
  <2> QED
    BY <2>1, ModulesBegun
<1>3. <<i, u, <<>>>> \notin PageNames(i, Backed)
  BY DEF PageNames
<1> QED
  BY <1>1, <1>2, <1>3

LEMMA TakeStackAccounts ==
  ASSUME LoaderInv, AccountInv, TakeStack
  PROVE  AccountInv'
<1> DEFINE z == <<i, "stack", <<>>>>
<1>1. /\ pc = "stack" /\ pc \in Loading /\ Front = 0
      /\ modules' = modules /\ i' = i /\ root' = root /\ header' = header /\ tasks' = tasks
      /\ frame_alloc_zero /\ pc' = IF panicked' THEN pc ELSE "task"
  BY DEF TakeStack, Loading, Front, Goto
<1>2. FrameAlloc /\ CountInv
  BY <1>1 DEF AccountInv, frame_alloc_zero, FrameAlloc
<1>3. Roots' = Roots
  BY <1>1, LoaderFacts, TakeFrame
<1>4. z \in FramesFor(i) /\ z \notin FrameNames /\ z[2] # "table"
  <2>1. z \in FramesFor(i) /\ z[2] # "table" /\ z \notin PageNames(i, Backed)
        /\ \A j \in 1 .. i - 1 : z \notin FramesFor(j)
    BY FreshName
  <2> HIDE DEF z
  <2> QED
    BY <1>1, <2>1, InFrameNames
<1>5. ASSUME ~panicked'
      PROVE  FrameNames' = FrameNames \cup {z} /\ TableNames' = TableNames
  <2>1. pc' = "task" /\ pc' \in Loading /\ Front' = 0
    BY <1>1, <1>5 DEF Loading, Front
  <2>2. Mapped' = Mapped /\ Backed' = Backed
    BY <1>1, <2>1, DoneNext DEF Mapped, Backed
  <2>3. FrameNames' = FrameNames \cup {z}
    BY <1>1, <2>1, <2>2, NamesNext, TotalStays DEF FrameNames
  <2>4. TableNames' = TableNames
    BY <1>1, <2>1, <2>2, NamesNext, TotalStays DEF TableNames
  <2> QED
    BY <2>3, <2>4
<1>6. pc' \in Loading
  BY <1>1 DEF Loading
<1> HIDE DEF z
<1> QED
  BY <1>1, <1>2, <1>3, <1>4, <1>5, <1>6, AllocAccounts

LEMMA TakeTaskAccounts ==
  ASSUME LoaderInv, AccountInv, TakeTask
  PROVE  AccountInv'
<1> DEFINE z == <<i, "task", <<>>>>
<1>1. /\ pc = "task" /\ pc \in Loading /\ Front = 0
      /\ modules' = modules /\ i' = i /\ root' = root /\ header' = header /\ tasks' = tasks
      /\ frame_alloc_zero /\ pc' = IF panicked' THEN pc ELSE "launch"
  BY DEF TakeTask, Loading, Front, Goto
<1>2. FrameAlloc /\ CountInv
  BY <1>1 DEF AccountInv, frame_alloc_zero, FrameAlloc
<1>3. Roots' = Roots
  BY <1>1, LoaderFacts, TakeFrame
<1>4. z \in FramesFor(i) /\ z \notin FrameNames /\ z[2] # "table"
  <2>1. z \in FramesFor(i) /\ z[2] # "table" /\ z # <<i, "stack", <<>>>>
        /\ z \notin PageNames(i, Backed) /\ \A j \in 1 .. i - 1 : z \notin FramesFor(j)
    BY FreshName, NameParts
  <2> HIDE DEF z
  <2> QED
    BY <1>1, <2>1, InFrameNames
<1>5. ASSUME ~panicked'
      PROVE  FrameNames' = FrameNames \cup {z} /\ TableNames' = TableNames
  <2>1. pc' = "launch" /\ pc' \in Loading /\ Front' = 0
    BY <1>1, <1>5 DEF Loading, Front
  <2>2. Mapped' = Mapped /\ Backed' = Backed
    BY <1>1, <2>1, DoneNext DEF Mapped, Backed
  <2>3. FrameNames' = FrameNames \cup {z}
    BY <1>1, <2>1, <2>2, NamesNext, TotalStays DEF FrameNames
  <2>4. TableNames' = TableNames
    BY <1>1, <2>1, <2>2, NamesNext, TotalStays DEF TableNames
  <2> QED
    BY <2>3, <2>4
<1>6. pc' \in Loading
  BY <1>1 DEF Loading
<1> HIDE DEF z
<1> QED
  BY <1>1, <1>2, <1>3, <1>4, <1>5, <1>6, AllocAccounts

LEMMA LaunchAccounts ==
  ASSUME LoaderInv, AccountInv, Launch
  PROVE  AccountInv'
<1>1. /\ pc = "launch" /\ pc \in Loading /\ Front = 0
      /\ modules' = modules /\ root' = root /\ mmap(root, StackPage, stack)
      /\ panicked' => i' = i
      /\ ~panicked' => /\ i' = i + 1 /\ pc' = "create"
                       /\ \E t : t.address_space = root /\ tasks' = Append(tasks, t)
  BY DEF Launch, Loading, Front, Goto
<1>2. CountInv
  BY <1>1 DEF AccountInv, mmap
<1>3. /\ i \in Nat /\ i >= 1 /\ Begun = i /\ ModuleFits(modules[i])
      /\ DOMAIN tasks = 1 .. i - 1 /\ tasks \in Seq(TaskType(Roots)) /\ Len(tasks) = i - 1
  BY <1>1, ModulesBegun, ModuleFacts DEF Begun, LoaderInv, LoaderTypes
<1>4. Tree(entries', free', held', place')
  BY LaunchKeeps DEF LoaderInv
<1>5. Roots' = Roots
  <2>1. Tree(entries, free, held, place) /\ root \in Roots
    BY LoaderFacts
  <2> QED
    BY <1>1, <1>4, <2>1, StackAssumption, MapRoots
<1>6. Mapped = PagesFor(i) /\ Backed = PagesFor(i)
  <2>1. header = Len(modules[i].headers) + 1
    BY <1>1 DEF LoaderInv, Progress
  <2> QED
    BY <1>1, <1>3, <2>1, AllPagesDone DEF Mapped, Backed
<1>7. ASSUME ~panicked'
      PROVE  /\ Begun' = Begun /\ TheirSpaces' = TheirSpaces
             /\ FrameNames' = FrameNames
             /\ TableNames' = TableNames \cup PathNames(i, {StackPage})
  <2>1. i' = i + 1 /\ pc' = "create" /\ pc' \notin Loading
    BY <1>1, <1>7 DEF Loading
  <2>2. Begun' = Begun
    BY <1>3, <2>1 DEF Begun
  <2>3. TheirSpaces' = TheirSpaces
    <3>1. PICK t : t.address_space = root /\ tasks' = Append(tasks, t)
      BY <1>1, <1>7
    <3>2. /\ DOMAIN tasks' = 1 .. i /\ tasks'[i] = t
          /\ \A j \in 1 .. i - 1 : tasks'[j] = tasks[j]
      BY <1>3, <3>1
    <3>3. TheirSpaces = [j \in 1 .. i |-> IF j \in 1 .. i - 1 THEN tasks[j].address_space ELSE root]
      BY <1>3 DEF TheirSpaces
    <3>4. TheirSpaces' = [j \in 1 .. i |-> IF j \in 1 .. i THEN tasks'[j].address_space ELSE root']
      BY <1>3, <2>2, <3>2 DEF TheirSpaces
    <3>5. \A j \in 1 .. i : j \in 1 .. i - 1 \/ j = i
      BY <1>3
    <3> QED
      BY <1>3, <3>1, <3>2, <3>3, <3>4, <3>5
  <2>4. \A j : FramesFor(j)' = FramesFor(j) /\ TablesFor(j)' = TablesFor(j)
    BY <1>1, UsesStay
  <2>5. \A j : j \in 1 .. i' - 1 <=> j \in 1 .. i - 1 \/ j = i
    BY <1>3, <2>1
  <2>6. OldFrames' = OldFrames \cup FramesFor(i) /\ OldTables' = OldTables \cup TablesFor(i)
    BY <2>4, <2>5 DEF OldFrames, OldTables
  <2>7. FrameNames' = OldFrames' /\ TableNames' = OldTables'
    BY <2>1, NamesNext
  <2>8. FrameNames = OldFrames \cup FramesFor(i)
    <3>1. FramesFor(i) = {<<i, "task", <<>>>>, <<i, "stack", <<>>>>} \cup PageNames(i, PagesFor(i))
      BY DEF FramesFor, PageNames
    <3> QED
      BY <1>1, <1>6, <3>1 DEF FrameNames
  <2>9. TableNames \cup PathNames(i, {StackPage}) = OldTables \cup TablesFor(i)
    <3>1. <<i, "table", <<>>>> \in PathNames(i, {StackPage})
      <4>1. SubSeq(StackPage, 1, 0) = <<>> /\ 0 \in 0 .. 3
        OBVIOUS
      <4> QED
        BY <4>1, InPathNames
    <3>2. TableNames = OldTables \cup {<<i, "table", <<>>>>} \cup PathNames(i, PathsTo(PagesFor(i)))
      BY <1>1, <1>6 DEF TableNames
    <3> QED
      BY <3>1, <3>2, TablesAre
  <2> QED
    BY <2>2, <2>3, <2>6, <2>7, <2>8, <2>9
<1> QED
  BY <1>1, <1>2, <1>4, <1>5, <1>7, StackAssumption, MapAccounts

(* The table that a space begins with.                                     *)
LEMMA RootName ==
  ASSUME NEW j
  PROVE  <<j, "table", <<>>>> \in TablesFor(j)
<1>1. SubSeq(StackPage, 1, 0) = <<>> /\ 0 \in 0 .. 3
  OBVIOUS
<1>2. <<j, "table", <<>>>> \in PathNames(j, {StackPage})
  BY <1>1, InPathNames
<1> QED
  BY <1>2, TablesAre

(* A new space is none of those there were.                                *)
LEMMA RootsMore ==
  ASSUME Tree(entries, free, held, place), create_address_space
  PROVE  /\ \A r \in Roots : r \in Roots'
         /\ ~panicked' => (CHOOSE f \in Roots' \ Roots : TRUE) \in Roots' \ {kernel_pml4}
<1>1. kernel_pml4 \in Roots
  BY RootsNow, StaticLevels, KernelPlaces DEF RootsOf
<1>2. CASE panicked'
  <2>1. place' = place
    BY <1>2, SpaceUses
  <2> QED
    BY <1>2, <2>1 DEF Roots
<1>3. CASE ~panicked'
  <2>1. PICK f \in Frames : Roots' \ Roots = {f} /\ Roots \subseteq Roots'
    BY <1>3, SpaceUses
  <2>2. (CHOOSE g \in Roots' \ Roots : TRUE) = f
    BY <2>1
  <2> QED
    BY <1>1, <2>1, <2>2
<1> QED
  BY <1>2, <1>3

LEMMA NextModuleAccounts ==
  ASSUME LoaderInv, AccountInv, NextModule
  PROVE  AccountInv'
<1> DEFINE z == <<i, "table", <<>>>>
<1>1. /\ pc = "create" /\ pc \notin Loading
      /\ modules' = modules /\ i' = i /\ tasks' = tasks /\ header' = 1
  BY DEF NextModule, Loading
<1>2. /\ i \in Nat /\ i >= 1 /\ Begun = i - 1 /\ Begun \in Nat /\ i = Begun + 1
      /\ DOMAIN tasks = 1 .. Begun
  BY <1>1, ModulesBegun DEF Begun
<1>3. FrameNames = OldFrames /\ TableNames = OldTables
  BY <1>1 DEF FrameNames, TableNames
<1>4. FramesForFirst(i)' = FramesForFirst(i) /\ OldFrames' = OldFrames /\ OldTables' = OldTables
  BY <1>1, TotalStays
<1>5. CASE i > Len(modules)
  <2>1. /\ free' = free /\ place' = place /\ panicked' = panicked /\ root' = root
        /\ pc' = "idle" /\ pc' \notin Loading
    BY <1>5 DEF NextModule, vars, Loading
  <2>2. CASE panicked
    <3>1. Overflows'
      BY <1>1, <1>4, <2>2 DEF AccountInv, Overflows
    <3> QED
      BY <2>1, <2>2, <3>1 DEF AccountInv
  <2>3. CASE ~panicked
    <3>1. FrameNames' = FrameNames /\ TableNames' = TableNames
      BY <1>3, <1>4, <2>1, NamesNext
    <3>2. Begun' = Begun
      BY <1>1, <2>1 DEF Begun
    <3>3. TheirSpaces' = TheirSpaces /\ Roots' = Roots
      BY <1>1, <2>1, <3>2 DEF TheirSpaces, Roots
    <3>4. CountInv /\ Counts(TheirSpaces, free, place, FrameNames, TableNames)
      BY <2>3 DEF AccountInv, CountInv
    <3> QED
      BY <2>1, <2>3, <3>1, <3>2, <3>3, <3>4, GoesOn
  <2> QED
    BY <2>2, <2>3
<1>6. CASE ~(i > Len(modules))
  <2> DEFINE made == CHOOSE f \in Roots' \ Roots : TRUE
             sp2  == WithSpace(Begun, TheirSpaces, made)
  <2>1. /\ create_address_space
        /\ root' = IF panicked' THEN root ELSE CHOOSE f \in Roots' \ Roots : TRUE
        /\ pc' = IF panicked' THEN pc ELSE "headers"
    BY <1>6 DEF NextModule, Goto
  <2>2. CountInv
    BY <2>1 DEF AccountInv, create_address_space
  <2>3. /\ Tree(entries, free, held, place) /\ SpacesDiffer(Begun, TheirSpaces)
        /\ \A j \in 1 .. Begun : TheirSpaces[j] \in Roots
        /\ Names(Begun, FrameNames, TableNames)
        /\ Counts(TheirSpaces, free, place, FrameNames, TableNames)
    BY <2>2, LoaderFacts, SpacesFit, NamesFit DEF CountInv
  <2>4. /\ ~panicked' => /\ \A j, k \in 1 .. Begun + 1 : sp2[j] = sp2[k] => j = k
                         /\ Counts(sp2, free', place', FrameNames, TableNames \cup {z})
        /\ panicked' => \A W : IsFiniteSet(W) /\ FrameNames \cup TableNames \cup {z} \subseteq W
                                 => Cardinality(W) > Cardinality(Frames)
    <3>1. Begun \in Nat /\ z = <<Begun + 1, "table", <<>>>>
      BY <1>2
    <3> HIDE DEF z
    <3> QED
      BY <2>1, <2>3, <3>1, OneSpace
  <2>5. IsFiniteSet(FramesForFirst(i)) /\ FrameNames \cup TableNames \cup {z} \subseteq FramesForFirst(i)
    <3>1. i <= Len(modules)
      BY <1>2, <1>6, ModulesBegun
    <3>2. IsFiniteSet(FramesForFirst(i))
      BY <1>2, <3>1, ModulesBegun, FiniteFirst
    <3>3. FramesForFirst(Begun) \subseteq FramesForFirst(i)
      <4>1. \A j \in 1 .. Begun : j \in 1 .. i
        BY <1>2
      <4> QED
        BY <4>1, InFirst
    <3>4. z \in FramesForFirst(i)
      <4>1. i \in 1 .. i
        BY <1>2
      <4> QED
        BY <4>1, RootName, InFirst
    <3> QED
      BY <3>2, <3>3, <3>4, NamesFit
  <2>6. CASE panicked'
    <3>1. Overflows'
      BY <1>1, <1>4, <2>4, <2>5, <2>6 DEF Overflows
    <3> QED
      BY <2>6, <3>1 DEF AccountInv
  <2>7. CASE ~panicked'
    <3>1. pc' = "headers" /\ pc' \in Loading /\ Front' = 0 /\ root' = made
      BY <2>1, <2>7 DEF Loading, Front
    <3>2. Begun' = Begun + 1
      BY <1>1, <1>2, <3>1 DEF Begun
    <3>3. TheirSpaces' = sp2
      <4>1. TheirSpaces = [j \in 1 .. Begun |-> tasks[j].address_space]
        BY <1>2 DEF TheirSpaces
      <4>2. TheirSpaces' = [j \in 1 .. Begun + 1 |->
                              IF j \in 1 .. Begun THEN tasks[j].address_space ELSE root']
        BY <1>1, <1>2, <3>2 DEF TheirSpaces
      <4> QED
        BY <3>1, <4>1, <4>2 DEF WithSpace
    <3>4. Mapped' = {} /\ Backed' = {}
      <4>1. modules[i].headers \in Seq(ProgramHeader)
        <5>1. ModuleFits(modules[i])
          BY <1>2, <1>6, ModulesBegun
        <5> QED
          BY <5>1 DEF ModuleFits
      <4>2. PagesDone(modules[i].headers, 1, 0) = {}
        BY <4>1, NoneDone
      <4> QED
        BY <1>1, <3>1, <4>2, DoneNext
    <3>5. FrameNames' = FrameNames
      <4>1. PageNames(i, {}) = {}
        BY DEF PageNames
      <4> QED
        BY <1>1, <1>3, <1>4, <3>1, <3>4, <4>1, NamesNext
    <3>6. TableNames' = TableNames \cup {z}
      <4>1. PathNames(i, PathsTo({})) = {}
        BY DEF PathNames, PathsTo, Prefixes
      <4> QED
        BY <1>1, <1>3, <1>4, <3>1, <3>4, <4>1, NamesNext
    <3>7. TheirSpaces' \in [1 .. Begun' -> Roots' \ {kernel_pml4}]
      <4>1. \A r \in Roots : r \in Roots'
        BY <2>1, <2>3, RootsMore
      <4>2. \A j \in 1 .. Begun : TheirSpaces[j] \in Roots' \ {kernel_pml4}
        BY <2>2, <4>1 DEF CountInv
      <4>3. root' \in Roots' \ {kernel_pml4}
        BY <2>1, <2>3, <2>7, <3>1, RootsMore
      <4> QED
        BY <1>2, <3>1, <3>2, <3>3, <4>2, <4>3 DEF WithSpace
    <3>8. \A j, k \in 1 .. Begun' : TheirSpaces'[j] = TheirSpaces'[k] => j = k
      BY <2>4, <2>7, <3>2, <3>3
    <3> HIDE DEF sp2, z
    <3>9. Counts(TheirSpaces', free', place', FrameNames', TableNames')
      BY <2>4, <2>7, <3>3, <3>5, <3>6
    <3>10. CountInv'
      BY <3>7, <3>8, <3>9 DEF CountInv
    <3> QED
      BY <2>7, <3>10 DEF AccountInv
  <2> QED
    BY <2>6, <2>7
<1> QED
  BY <1>5, <1>6

----------------------------------------------------------------------------
(* The whole of the loop.                                                  *)

LEMMA NothingBegun ==
  ASSUME i = 1, pc \notin Loading
  PROVE  /\ Begun = 0 /\ FrameNames = {} /\ TableNames = {}
<1>1. 1 .. i - 1 = {}
  OBVIOUS
<1>2. OldFrames = {} /\ OldTables = {}
  BY <1>1 DEF OldFrames, OldTables
<1>3. pc \notin {"task", "launch"} /\ pc # "launch"
  BY DEF Loading
<1> QED
  BY <1>2, <1>3 DEF Begun, FrameNames, TableNames

LEMMA InitAccounts ==
  ASSUME ProcessesInit
  PROVE  AccountInv
<1>1. panicked = FALSE /\ free = Frames /\ pc = "create" /\ pc \notin Loading /\ i = 1
  BY DEF ProcessesInit, Init, Loading
<1>2. Begun = 0 /\ FrameNames = {} /\ TableNames = {}
  BY <1>1, NothingBegun
<1>3. Used(place) = {}
  BY <1>1, LoaderFacts, InitLoaderInv, UsedFacts DEF Used
<1>4. Counts(TheirSpaces, free, place, {}, {})
  <2>1. PlacesOf(place) = {Site(TheirSpaces, t) : t \in {}}
    BY <1>3 DEF PlacesOf
  <2>2. Frames \ (free \cup Used(place)) = {}
    BY <1>1
  <2> QED
    BY <2>1, <2>2 DEF Counts
<1>5. TheirSpaces \in [1 .. Begun -> Roots \ {kernel_pml4}]
  BY <1>2 DEF TheirSpaces
<1>6. 1 .. Begun = {}
  BY <1>2
<1>7. CountInv
  BY <1>2, <1>4, <1>5, <1>6 DEF CountInv
<1> QED
  BY <1>1, <1>7 DEF AccountInv

LEMMA WaitsAccount ==
  ASSUME AccountInv, UNCHANGED <<vars, processVars>>
  PROVE  AccountInv'
<1>1. /\ entries' = entries /\ free' = free /\ held' = held /\ place' = place /\ panicked' = panicked
      /\ modules' = modules /\ data' = data /\ pc' = pc /\ i' = i /\ root' = root
      /\ header' = header /\ section' = section /\ frame' = frame /\ stack' = stack /\ tasks' = tasks
  BY DEF vars, processVars
<1>2. CASE panicked
  <2>1. Overflows'
    BY <1>1, <1>2, TotalStays DEF AccountInv, Overflows
  <2> QED
    BY <1>1, <1>2, <2>1 DEF AccountInv
<1>3. CASE ~panicked
  <2>1. Mapped' = Mapped /\ Backed' = Backed
    BY <1>1, DoneNext DEF Mapped, Backed, Front
  <2>2. FrameNames' = FrameNames
    BY <1>1, <2>1, NamesNext, TotalStays DEF FrameNames
  <2>3. TableNames' = TableNames
    BY <1>1, <2>1, NamesNext, TotalStays DEF TableNames
  <2>4. Roots' = Roots /\ Begun' = Begun
    BY <1>1 DEF Roots, Begun
  <2>5. TheirSpaces' = TheirSpaces
    BY <1>1, <2>4 DEF TheirSpaces
  <2>6. CountInv /\ Counts(TheirSpaces, free, place, FrameNames, TableNames)
    BY <1>3 DEF AccountInv, CountInv
  <2> QED
    BY <1>1, <1>3, <2>2, <2>3, <2>4, <2>5, <2>6, GoesOn
<1> QED
  BY <1>2, <1>3

LEMMA StepAccounts ==
  ASSUME LoaderInv, AccountInv, ProcessesNext
  PROVE  AccountInv'
BY NextModuleAccounts, NextHeaderAccounts, NextPageAccounts, CopyPageAccounts, TakeStackAccounts,
   TakeTaskAccounts, LaunchAccounts DEF ProcessesNext

LEMMA AllAccounted ==
  ASSUME LoaderInv, AccountInv
  PROVE  FramesAccounted
<1>1. CASE panicked
  BY <1>1 DEF AccountInv, Overflows, FramesAccounted
<1>2. CASE ~panicked /\ pc # "create"
  BY <1>2 DEF FramesAccounted
<1>3. CASE ~panicked /\ pc = "create"
  <2>1. /\ Tree(entries, free, held, place) /\ SpacesDiffer(Begun, TheirSpaces)
        /\ Names(Begun, FrameNames, TableNames)
        /\ Counts(TheirSpaces, free, place, FrameNames, TableNames)
    BY <1>3, LoaderFacts, SpacesFit, NamesFit DEF AccountInv, CountInv
  <2>2. Cardinality(Frames \ free) = Cardinality(FrameNames \cup TableNames)
    BY <2>1, CountsUp
  <2>3. pc \notin Loading
    BY <1>3 DEF Loading
  <2>4. FrameNames = OldFrames /\ TableNames = OldTables
    BY <1>3, <2>3 DEF FrameNames, TableNames
  <2>5. OldFrames \cup OldTables = FramesForFirst(i - 1)
    BY DEF OldFrames, OldTables, FramesForFirst
  <2> QED
    BY <1>3, <2>2, <2>4, <2>5 DEF FramesAccounted
<1> QED
  BY <1>1, <1>2, <1>3
=============================================================================
