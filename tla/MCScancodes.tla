---------------------------- MODULE MCScancodes ----------------------------
(* Every byte of a disturbed line that means something to the decoder, and *)
(* two that do not.                                                        *)
EXTENDS Scancodes

MCNoise == {0, 18, 20, 28, 119, 124, 224, 225, 240, 250}
=============================================================================
