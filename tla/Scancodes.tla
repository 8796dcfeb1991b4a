----------------------------- MODULE Scancodes -----------------------------
(***************************************************************************)
(* The keyboard decoder: ps2Set2ToUsb of src/src/scancodes.c and           *)
(* processScancode of src/src/keyboard.c, fed by a keyboard that sends     *)
(* scan code set 2, and by the bytes of a disturbed line.                  *)
(*                                                                         *)
(* codeBuffer is a 64 bit word into which bytes are shifted; here it is    *)
(* the sequence of its bytes, most significant first, without the zeros in *)
(* front.  Keys are the numbers of usb_hid_keys.h.                         *)
(***************************************************************************)
EXTENDS Integers, Sequences, FiniteSets, SequencesExt

CONSTANTS
  Noise               \* bytes that may arrive out of place

ASSUME NoiseAssumption == Noise \subseteq 0 .. 255

VARIABLES
  codeBuffer,         \* static variable of processScancode
  decoding,           \* inside the while loop of processScancode
  pending,            \* bytes the keyboard has still to send
  key,                \* what is being sent: a key of Keys, or none
  make,               \* whether it is a press (else a release)
  reported,           \* codes given to processUsbCode since then
  disturbed           \* bytes out of place have arrived

vars == <<codeBuffer, decoding, pending, key, make, reported, disturbed>>

KEY_NONE  == 0
KEY_SYSRQ == 70
KEY_PAUSE == 72

(* Single byte codes 0x00 .. 0x4F, sixteen in a row ...                    *)
LowKeys ==
  << <<0, 66, 0, 62, 60, 58, 59, 69, 0, 67, 65, 63, 61, 43, 53, 0>>,
     <<0, 4, 2, 0, 1, 20, 30, 0, 0, 0, 29, 22, 4, 26, 31, 0>>,
     <<0, 6, 27, 7, 8, 33, 32, 0, 0, 44, 25, 9, 23, 21, 34, 0>>,
     <<0, 17, 5, 11, 10, 28, 35, 0, 0, 0, 16, 13, 24, 36, 37, 0>>,
     <<0, 54, 14, 12, 18, 39, 38, 0, 0, 55, 56, 15, 51, 19, 45, 0>> >>
(* ... and 0x50 .. 0x8F.                                                   *)
HighKeys ==
  << <<0, 0, 52, 0, 47, 46, 0, 0, 57, 229, 40, 48, 0, 49, 0, 0>>,
     <<0, 0, 0, 0, 0, 0, 42, 0, 0, 89, 0, 92, 95, 0, 0, 0>>,
     <<98, 99, 90, 93, 94, 96, 41, 83, 68, 87, 91, 86, 85, 97, 71, 0>>,
     <<0, 0, 0, 64, 0, 0, 0, 0, 0, 0, 0, 0, 0, 0, 0, 0>> >>

SingleKey(b) ==
  IF b < 80 THEN LowKeys[b \div 16 + 1][(b % 16) + 1]
  ELSE IF b < 144 THEN HighKeys[b \div 16 - 4][(b % 16) + 1]
  ELSE KEY_NONE

(* The codes behind 0xE0 that are keys.                                    *)
ExtendedKeys ==
  {<<16, 240>>, <<17, 230>>, <<20, 228>>, <<21, 234>>, <<31, 227>>, <<32, 250>>, <<33, 238>>,
   <<35, 239>>, <<39, 231>>, <<40, 243>>, <<43, 251>>, <<47, 101>>, <<48, 242>>, <<50, 237>>,
   <<52, 232>>, <<55, 102>>, <<56, 241>>, <<59, 233>>, <<63, 248>>, <<74, 84>>, <<77, 235>>,
   <<90, 88>>, <<94, 249>>, <<105, 77>>, <<107, 80>>, <<108, 74>>, <<112, 73>>, <<113, 76>>,
   <<114, 81>>, <<116, 79>>, <<117, 82>>, <<122, 78>>, <<125, 75>>}

\* Mutant: the code is taken for the usage.
ExtendedKeyRaw(b) == 57344 + b

ExtendedKey(b) ==
  LET found == {x \in ExtendedKeys : x[1] = b} IN
  IF found = {} THEN KEY_NONE ELSE (CHOOSE x \in found : TRUE)[2]

PrintScreenMake  == <<224, 18, 224, 124>>              \* E0 12 E0 7C
PrintScreenBreak == <<224, 240, 124, 224, 240, 18>>    \* E0 F0 7C E0 F0 12
PauseMake        == <<225, 20, 119, 225, 240, 20, 240, 119>>

(* The longer codes that are the beginning of one: the second break code   *)
(* is kept as E0 7C E0 F0, for the F0 after the first E0 was taken out.    *)
LongKeptCodes ==
  {<<224, 18, 224>>, <<224, 124, 224>>, <<224, 124, 224, 240>>}
    \cup {SubSeq(PauseMake, 1, n) : n \in 2 .. 7}

(* What is put back in the buffer to wait for another byte.                *)
KeptCodes ==
  {<<>>, <<224>>, <<225>>, <<240>>, <<224, 240>>, <<224, 124>>, <<224, 18>>}
    \cup LongKeptCodes

Result(usb, buffer) == [usb |-> usb, buffer |-> buffer]

\* Mutant: the buffer is not cleared first.
PlainKeepsCode(code) ==
  IF code \in KeptCodes THEN Result(KEY_NONE, code)
  ELSE CASE Len(code) = 1 -> Result(SingleKey(code[1]), code)
         [] OTHER -> Result(KEY_NONE, <<>>)

\* Mutant: an unknown code stays in the buffer.
PlainKeepsUnknown(code) ==
  IF code \in KeptCodes THEN Result(KEY_NONE, code)
  ELSE CASE Len(code) = 1 -> Result(SingleKey(code[1]), <<>>)
         [] Len(code) = 2 /\ code[1] = 224 -> Result(ExtendedKey(code[2]), <<>>)
         [] OTHER -> Result(KEY_NONE, code)

(* ps2Set2ToUsb on a code that is not a break code.                        *)
Plain(code) ==
  IF code \in KeptCodes THEN Result(KEY_NONE, code)
  ELSE CASE Len(code) = 1 -> Result(SingleKey(code[1]), <<>>)
         [] Len(code) = 2 /\ code[1] = 224 -> Result(ExtendedKey(code[2]), <<>>)
         [] code = PrintScreenMake -> Result(KEY_SYSRQ, <<>>)
         [] code = <<224, 124, 224, 240, 18>> -> Result(-KEY_SYSRQ, <<>>)
         [] code = PauseMake -> Result(KEY_PAUSE, <<>>)
         [] OTHER -> Result(KEY_NONE, <<>>)

Negated(result) == [result EXCEPT !.usb = -@]

\* Mutant: a release is reported as the press is.
ps2Set2ToUsbUnsigned(code) ==
  CASE Len(code) = 3 /\ Front(code) = <<224, 240>> -> Plain(<<224, Last(code)>>)
    [] Len(code) = 2 /\ code[1] = 240 -> Plain(<<code[2]>>)
    [] OTHER -> Plain(code)

ps2Set2ToUsb(code) ==
  CASE Len(code) = 3 /\ Front(code) = <<224, 240>> -> Negated(Plain(<<224, Last(code)>>))
    [] Len(code) = 2 /\ code[1] = 240 -> Negated(Plain(<<code[2]>>))
    [] OTHER -> Plain(code)

(* codeBuffer <<= 8, plus the new byte: eight bytes are kept.              *)
Shifted(buffer, b) ==
  IF buffer = <<>> /\ b = 0 THEN <<>>
  ELSE IF Len(buffer) = 8 THEN Append(Tail(buffer), b)
  ELSE Append(buffer, b)

----------------------------------------------------------------------------
(* The keyboard: every key with its make and break sequence.               *)

Keys ==
  [kind : {"single"}, code : 1 .. 143] \cup [kind : {"extended"}, code : (1 .. 127) \ {18, 124}]
    \cup {[kind |-> "printscreen", code |-> 0], [kind |-> "pause", code |-> 0]}

Bytes(k, press) ==
  CASE k.kind = "single" -> IF press THEN <<k.code>> ELSE <<240, k.code>>
    [] k.kind = "extended" -> IF press THEN <<224, k.code>> ELSE <<224, 240, k.code>>
    [] k.kind = "printscreen" -> IF press THEN PrintScreenMake ELSE PrintScreenBreak
    [] OTHER -> IF press THEN PauseMake ELSE <<>>    \* PAUSE has no break code

(* The usage that belongs to a key, KEY_NONE if it has none.               *)
Usage(k) ==
  CASE k.kind = "single" -> SingleKey(k.code)
    [] k.kind = "extended" -> ExtendedKey(k.code)
    [] k.kind = "printscreen" -> KEY_SYSRQ
    [] OTHER -> KEY_PAUSE

(* Bound: no more than this many codes are remembered for one key.         *)
MaxReported == 3

NoKey == [kind |-> "none", code |-> 0]

Init ==
  /\ codeBuffer = <<>> /\ decoding = FALSE
  /\ pending = <<>> /\ key = NoKey /\ make = TRUE
  /\ reported = <<>>
  /\ disturbed = FALSE

Idle == pending = <<>> /\ ~decoding

Send(k, press) ==
  /\ Idle
  /\ Bytes(k, press) # <<>>
  /\ key' = k /\ make' = press
  /\ pending' = Bytes(k, press)
  /\ reported' = <<>>
  /\ UNCHANGED <<codeBuffer, decoding, disturbed>>

(* A byte arrives and processScancode is called with it ...                *)
Receive(b) ==
  /\ ~decoding
  /\ codeBuffer' = Shifted(codeBuffer, b)
  /\ decoding' = TRUE

ReceiveNext ==
  /\ pending # <<>>
  /\ Receive(Head(pending))
  /\ pending' = Tail(pending)
  /\ UNCHANGED <<key, make, reported, disturbed>>

(* ... out of place, between two keys.                                     *)
ReceiveNoise(b) ==
  /\ Idle
  /\ Receive(b)
  /\ disturbed' = TRUE
  /\ key' = NoKey /\ reported' = <<>>
  /\ UNCHANGED <<pending, make>>

(* One turn of its while loop.                                             *)
Decode ==
  /\ decoding
  /\ LET r == ps2Set2ToUsb(codeBuffer) IN
     /\ codeBuffer' = r.buffer
     /\ decoding' = (r.usb # KEY_NONE)
     /\ reported' = IF r.usb # KEY_NONE /\ Len(reported) < MaxReported
                     THEN Append(reported, r.usb) ELSE reported
  /\ UNCHANGED <<pending, key, make, disturbed>>

Next ==
  \/ \E k \in Keys, press \in BOOLEAN : Send(k, press)
  \/ ReceiveNext
  \/ \E b \in Noise : ReceiveNoise(b)
  \/ Decode

Spec == Init /\ [][Next]_vars
FairSpec == Spec /\ WF_vars(Decode)

----------------------------------------------------------------------------
(* Properties.                                                             *)

TypeOK ==
  /\ codeBuffer \in Seq(0 .. 255) /\ Len(codeBuffer) <= 8
  /\ decoding \in BOOLEAN
  /\ \A i \in DOMAIN reported : reported[i] \in -255 .. 255

(* Between two bytes the buffer is a proper beginning of a known code,     *)
(* after any bytes whatever: it is never so full that a shift pushes out   *)
(* a byte that is still needed.                                            *)
BufferIsPrefix == ~decoding => codeBuffer \in KeptCodes /\ Len(codeBuffer) < 8

(***************************************************************************)
(* On an undisturbed line each key press is reported as its usage once,    *)
(* each release as the negative of that once, keys without a usage not at  *)
(* all, and nothing is left in the buffer to spoil the next key: the F0 in *)
(* the middle of a break code and the double sequences of Print Screen     *)
(* included.                                                               *)
(***************************************************************************)
EveryKeyReportedOnce ==
  Idle /\ ~disturbed /\ key # NoKey =>
    /\ codeBuffer = <<>>
    /\ reported = IF Usage(key) = KEY_NONE THEN <<>>
                  ELSE <<IF make THEN Usage(key) ELSE -Usage(key)>>

(* The while loop of processScancode ends after every byte: the decoder    *)
(* never answers with a key out of what it left in the buffer itself.      *)
LoopEnds == decoding ~> ~decoding

(***************************************************************************)
(* scancodes.h says "Produced codes are in the usb_hid_keys.h file", where *)
(* the usages of the keyboard page name one key each: a code tells which   *)
(* key it was.                                                             *)
(***************************************************************************)
CodeTellsKey ==
  Idle /\ ~disturbed /\ reported # <<>> =>
    \A k \in Keys : Usage(k) = Usage(key) => k = key
=============================================================================
