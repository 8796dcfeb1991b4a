----------------------------- MODULE MCKeyboard -----------------------------
(* A ring of four: commands of one byte that go once around it, then one    *)
(* with two bytes of data, one more of a byte, and one with a byte of data. *)
EXTENDS Keyboard

MCDataLength(n) == CASE n = 5 -> 2 [] n = 7 -> 1 [] OTHER -> 0
=============================================================================
