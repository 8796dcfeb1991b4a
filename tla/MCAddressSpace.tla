--------------------------- MODULE MCAddressSpace ---------------------------
(* Nine frames hold a space with a user page mapped (a root, three tables  *)
(* and a frame) and another one with its tables, whose frame has to leave  *)
(* the first space before it can be mapped.                                *)
(* The two user pages share the tables of the upper two levels only.       *)
EXTENDS AddressSpace

MCNineFrames == 1 .. 9
MCCandidates(S) == {f \in S : \A g \in S : f <= g}
MCIndex == {0, 16, 256, 510, 511}
MCUserPages == {<<0, 0, 0, 0>>, <<0, 0, 511, 0>>}
MCDynamicPages == {<<511, 511, 0, 16>>}
MCFixedPages == {<<511, 510, 0, 16>>, <<256, 0, 16, 0>>}
=============================================================================
