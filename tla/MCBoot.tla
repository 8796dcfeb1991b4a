------------------------------- MODULE MCBoot -------------------------------
(* Pages of four bytes.  The segments start at every offset of page 511,   *)
(* the last of a page table, and reach into the next one; a second segment *)
(* follows on the same page, on the next, or apart, or is not PT_LOAD.     *)
(* Two modules need 20 to 24 frames and there are 21.  One line of each    *)
(* controller, and a fault of each kind: with a gate, without one, and one *)
(* that makes a double fault without one.                                  *)
EXTENDS Boot

MCFrames == 1 .. 21
MCCandidates(S) == {f \in S : \A g \in S : f <= g}
MCIndex == {0, 1, 2, 255, 256, 510, 511}
MCUserPages == {PagePath(n) : n \in 511 .. 514} \cup {StackPage}
MCFixedPages == {<<511, 510, 0, 1>>, <<256, 0, 1, 0>>}

LoadHeader(page, offset, memsz, filesz) ==
  [headerType |-> 1, page |-> page, offset |-> offset, memsz |-> memsz, filesz |-> filesz]
NoteHeader == [LoadHeader(511, 0, 4, 4) EXCEPT !.headerType = 4]

Module(headers, argSize) == [headers |-> headers, argSize |-> argSize]

OneSegment ==
  {Module(<<LoadHeader(511, o, m, f)>>, m % 4) :
     o \in Offsets, m \in {0, 1, 3, 4, 5, 9}, f \in {0, 1, 4, 9}}
TwoSegments ==
  {Module(<<NoteHeader, LoadHeader(511, o, 5, 3), LoadHeader(n, 2, m, m)>>, 1) :
     o \in Offsets, n \in 511 .. 513, m \in {0, 3}}
Small == Module(<<LoadHeader(512, 1, 2, 1)>>, 3)

MCBootModules ==
  {<<>>} \cup {<<a>> : a \in {x \in OneSegment : x.headers[1].filesz <= x.headers[1].memsz}}
         \cup {<<a, Small>> : a \in TwoSegments}
         \cup {<<Small, a>> : a \in TwoSegments}

MCLines == {0, 12}
MCFaultVectors == {0, 3, 13}
=============================================================================
