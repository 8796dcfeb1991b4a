---------------------------- MODULE MCMultiboot ----------------------------
(* Up to three entries in any order, usable or not, at bases and of        *)
(* lengths that are no multiples of a frame; the kernel ends inside the    *)
(* first of them, or past it.                                              *)
EXTENDS Multiboot

MCEntries ==
  [base_addr : {0, 20000, 40000}, length : {6000, 16383, 20000}, type : {1, 2}]

MCMaps ==
  {m \in UNION {[1 .. n -> MCEntries] : n \in 0 .. 3} :
     \A i, j \in DOMAIN m : m[i].base_addr = m[j].base_addr => i = j}

MCFreememoryStart == 8192
=============================================================================
