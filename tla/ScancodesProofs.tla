-------------------------- MODULE ScancodesProofs --------------------------
(***************************************************************************)
(* What the decoder makes of any bytes and of every key, whatever the set  *)
(* of bytes that a disturbed line may carry.                               *)
(***************************************************************************)
EXTENDS Scancodes, SequenceTheorems, TLAPS

Byte == 0 .. 255

LEMMA BytesAreNumbers == \A b \in Byte : b \in Int
  BY DEF Byte

----------------------------------------------------------------------------
(* The codes the decoder keeps, one by one.                                *)

LEMMA PauseBytes ==
  /\ PauseMake \in Seq(Byte) /\ Len(PauseMake) = 8
  /\ PauseMake[1] = 225 /\ PauseMake[2] = 20 /\ PauseMake[3] = 119 /\ PauseMake[4] = 225
  /\ PauseMake[5] = 240 /\ PauseMake[6] = 20 /\ PauseMake[7] = 240 /\ PauseMake[8] = 119
  BY DEF PauseMake, Byte

LEMMA Pause2 == SubSeq(PauseMake, 1, 2) = <<225, 20>>
<1> DEFINE s == SubSeq(PauseMake, 1, 2)
<1>1. s \in Seq(Byte) /\ Len(s) = 2
  BY PauseBytes
<1>2. s[1] = PauseMake[1] /\ s[2] = PauseMake[2]
  BY PauseBytes
<1> HIDE DEF s
<1>3. s = <<s[1], s[2]>>
  BY <1>1, <1>2
<1> QED
  BY <1>2, <1>3, PauseBytes DEF s

LEMMA Pause3 == SubSeq(PauseMake, 1, 3) = <<225, 20, 119>>
<1> DEFINE s == SubSeq(PauseMake, 1, 3)
<1>1. s \in Seq(Byte) /\ Len(s) = 3
  BY PauseBytes
<1>2. s[1] = PauseMake[1] /\ s[2] = PauseMake[2] /\ s[3] = PauseMake[3]
  BY PauseBytes
<1> HIDE DEF s
<1>3. s = <<s[1], s[2], s[3]>>
  BY <1>1, <1>2
<1> QED
  BY <1>2, <1>3, PauseBytes DEF s

LEMMA Pause4 == SubSeq(PauseMake, 1, 4) = <<225, 20, 119, 225>>
<1> DEFINE s == SubSeq(PauseMake, 1, 4)
<1>1. s \in Seq(Byte) /\ Len(s) = 4
  BY PauseBytes
<1>2. s[1] = PauseMake[1] /\ s[2] = PauseMake[2] /\ s[3] = PauseMake[3] /\ s[4] = PauseMake[4]
  BY PauseBytes
<1> HIDE DEF s
<1>3. s = <<s[1], s[2], s[3], s[4]>>
  BY <1>1, <1>2
<1> QED
  BY <1>2, <1>3, PauseBytes DEF s

LEMMA Pause5 == SubSeq(PauseMake, 1, 5) = <<225, 20, 119, 225, 240>>
<1> DEFINE s == SubSeq(PauseMake, 1, 5)
<1>1. s \in Seq(Byte) /\ Len(s) = 5
  BY PauseBytes
<1>2. s[1] = PauseMake[1] /\ s[2] = PauseMake[2] /\ s[3] = PauseMake[3] /\ s[4] = PauseMake[4] /\ s[5] = PauseMake[5]
  BY PauseBytes
<1> HIDE DEF s
<1>3. s = <<s[1], s[2], s[3], s[4], s[5]>>
  BY <1>1, <1>2
<1> QED
  BY <1>2, <1>3, PauseBytes DEF s

LEMMA Pause6 == SubSeq(PauseMake, 1, 6) = <<225, 20, 119, 225, 240, 20>>
<1> DEFINE s == SubSeq(PauseMake, 1, 6)
<1>1. s \in Seq(Byte) /\ Len(s) = 6
  BY PauseBytes
<1>2. s[1] = PauseMake[1] /\ s[2] = PauseMake[2] /\ s[3] = PauseMake[3] /\ s[4] = PauseMake[4] /\ s[5] = PauseMake[5] /\ s[6] = PauseMake[6]
  BY PauseBytes
<1> HIDE DEF s
<1>3. s = <<s[1], s[2], s[3], s[4], s[5], s[6]>>
  BY <1>1, <1>2
<1> QED
  BY <1>2, <1>3, PauseBytes DEF s

LEMMA Pause7 == SubSeq(PauseMake, 1, 7) = <<225, 20, 119, 225, 240, 20, 240>>
<1> DEFINE s == SubSeq(PauseMake, 1, 7)
<1>1. s \in Seq(Byte) /\ Len(s) = 7
  BY PauseBytes
<1>2. s[1] = PauseMake[1] /\ s[2] = PauseMake[2] /\ s[3] = PauseMake[3] /\ s[4] = PauseMake[4] /\ s[5] = PauseMake[5] /\ s[6] = PauseMake[6] /\ s[7] = PauseMake[7]
  BY PauseBytes
<1> HIDE DEF s
<1>3. s = <<s[1], s[2], s[3], s[4], s[5], s[6], s[7]>>
  BY <1>1, <1>2
<1> QED
  BY <1>2, <1>3, PauseBytes DEF s

LEMMA KeptOneByOne ==
  KeptCodes =
    {<<>>, <<224>>, <<225>>, <<240>>, <<224, 240>>, <<224, 124>>, <<224, 18>>}
      \cup ({<<224, 18, 224>>, <<224, 124, 224>>, <<224, 124, 224, 240>>}
      \cup {<<225, 20>>, <<225, 20, 119>>, <<225, 20, 119, 225>>, <<225, 20, 119, 225, 240>>,
            <<225, 20, 119, 225, 240, 20>>, <<225, 20, 119, 225, 240, 20, 240>>})
<1>1. 2 .. 7 = {2, 3, 4, 5, 6, 7}
  OBVIOUS
<1>2. {SubSeq(PauseMake, 1, n) : n \in 2 .. 7} =
        {SubSeq(PauseMake, 1, 2), SubSeq(PauseMake, 1, 3), SubSeq(PauseMake, 1, 4),
         SubSeq(PauseMake, 1, 5), SubSeq(PauseMake, 1, 6), SubSeq(PauseMake, 1, 7)}
  BY <1>1, Zenon
<1>3. {SubSeq(PauseMake, 1, n) : n \in 2 .. 7} =
        {<<225, 20>>, <<225, 20, 119>>, <<225, 20, 119, 225>>, <<225, 20, 119, 225, 240>>,
         <<225, 20, 119, 225, 240, 20>>, <<225, 20, 119, 225, 240, 20, 240>>}
  BY <1>2, Pause2, Pause3, Pause4, Pause5, Pause6, Pause7
<1> QED
  BY <1>3 DEF KeptCodes, LongKeptCodes

(* What they have in common, and what tells them from the code of a key.   *)
Kept(c) ==
  /\ c \in Seq(Byte) /\ Len(c) < 8
  /\ Len(c) = 1 => c[1] \in {224, 225, 240}
  /\ Len(c) = 2 => c[1] = 225 \/ (c[1] = 224 /\ c[2] \in {240, 124, 18})
  /\ Len(c) = 3 => c[2] # 240
  /\ Len(c) = 4 => c[4] # 124
  /\ Len(c) = 5 => c[1] = 225

LEMMA KeptAreShort == \A c \in KeptCodes : Kept(c)
<1>1. Kept(<<>>)
  BY DEF Kept, Byte
<1>2. Kept(<<224>>)
  BY DEF Kept, Byte
<1>3. Kept(<<225>>)
  BY DEF Kept, Byte
<1>4. Kept(<<240>>)
  BY DEF Kept, Byte
<1>5. Kept(<<224, 240>>)
  BY DEF Kept, Byte
<1>6. Kept(<<224, 124>>)
  BY DEF Kept, Byte
<1>7. Kept(<<224, 18>>)
  BY DEF Kept, Byte
<1>8. Kept(<<224, 18, 224>>)
  BY DEF Kept, Byte
<1>9. Kept(<<224, 124, 224>>)
  BY DEF Kept, Byte
<1>10. Kept(<<224, 124, 224, 240>>)
  BY DEF Kept, Byte
<1>11. Kept(<<225, 20>>)
  BY DEF Kept, Byte
<1>12. Kept(<<225, 20, 119>>)
  BY DEF Kept, Byte
<1>13. Kept(<<225, 20, 119, 225>>)
  BY DEF Kept, Byte
<1>14. Kept(<<225, 20, 119, 225, 240>>)
  BY DEF Kept, Byte
<1>15. Kept(<<225, 20, 119, 225, 240, 20>>)
  BY DEF Kept, Byte
<1>16. Kept(<<225, 20, 119, 225, 240, 20, 240>>)
  BY DEF Kept, Byte
<1>17. \A c \in {<<>>, <<224>>, <<225>>, <<240>>, <<224, 240>>, <<224, 124>>, <<224, 18>>} :
         Kept(c)
  BY <1>1, <1>2, <1>3, <1>4, <1>5, <1>6, <1>7
<1>18. \A c \in {<<224, 18, 224>>, <<224, 124, 224>>, <<224, 124, 224, 240>>} :
         Kept(c)
  BY <1>8, <1>9, <1>10
<1>19. \A c \in {<<225, 20>>, <<225, 20, 119>>, <<225, 20, 119, 225>>, <<225, 20, 119, 225, 240>>,
                 <<225, 20, 119, 225, 240, 20>>, <<225, 20, 119, 225, 240, 20, 240>>} :
         Kept(c)
  BY <1>11, <1>12, <1>13, <1>14, <1>15, <1>16
<1> SUFFICES ASSUME NEW c \in KeptCodes
             PROVE  Kept(c)
  OBVIOUS
<1> QED
  BY KeptOneByOne, <1>17, <1>18, <1>19

LEMMA NothingIsKept == <<>> \in KeptCodes
  BY Zenon DEF KeptCodes

----------------------------------------------------------------------------
(* The tables.                                                             *)

LEMMA LowKeysAreUsages == \A r \in 1 .. 5 : \A c \in 1 .. 16 : LowKeys[r][c] \in Byte
<1>1. \A c \in 1 .. 16 : LowKeys[1][c] \in Byte
  BY DEF LowKeys, Byte
<1>2. \A c \in 1 .. 16 : LowKeys[2][c] \in Byte
  BY DEF LowKeys, Byte
<1>3. \A c \in 1 .. 16 : LowKeys[3][c] \in Byte
  BY DEF LowKeys, Byte
<1>4. \A c \in 1 .. 16 : LowKeys[4][c] \in Byte
  BY DEF LowKeys, Byte
<1>5. \A c \in 1 .. 16 : LowKeys[5][c] \in Byte
  BY DEF LowKeys, Byte
<1>6. 1 .. 5 = {1, 2, 3, 4, 5}
  OBVIOUS
<1> QED
  BY <1>1, <1>2, <1>3, <1>4, <1>5, <1>6, Zenon

LEMMA HighKeysAreUsages == \A r \in 1 .. 4 : \A c \in 1 .. 16 : HighKeys[r][c] \in Byte
<1>1. \A c \in 1 .. 16 : HighKeys[1][c] \in Byte
  BY DEF HighKeys, Byte
<1>2. \A c \in 1 .. 16 : HighKeys[2][c] \in Byte
  BY DEF HighKeys, Byte
<1>3. \A c \in 1 .. 16 : HighKeys[3][c] \in Byte
  BY DEF HighKeys, Byte
<1>4. \A c \in 1 .. 16 : HighKeys[4][c] \in Byte
  BY DEF HighKeys, Byte
<1>5. 1 .. 4 = {1, 2, 3, 4}
  OBVIOUS
<1> QED
  BY <1>1, <1>2, <1>3, <1>4, <1>5, Zenon

LEMMA SingleKeysAreUsages == \A b \in Byte : SingleKey(b) \in Byte
<1> SUFFICES ASSUME NEW b \in Byte
             PROVE  SingleKey(b) \in Byte
  OBVIOUS
<1>1. (b % 16) + 1 \in 1 .. 16
  BY DEF Byte
<1>2. CASE b < 80
  <2>1. b \div 16 + 1 \in 1 .. 5
    BY <1>2 DEF Byte
  <2> QED
    BY <1>1, <1>2, <2>1, LowKeysAreUsages DEF SingleKey
<1>3. CASE ~(b < 80) /\ b < 144
  <2>1. b \div 16 - 4 \in 1 .. 4
    BY <1>3 DEF Byte
  <2> QED
    BY <1>1, <1>3, <2>1, HighKeysAreUsages DEF SingleKey
<1>4. CASE ~(b < 80) /\ ~(b < 144)
  BY <1>4 DEF SingleKey, KEY_NONE, Byte
<1> QED
  BY <1>2, <1>3, <1>4

LEMMA ExtendedKeysAreUsages == \A b : ExtendedKey(b) \in Byte
<1>1. \A x \in ExtendedKeys : x[2] \in Byte
  BY DEF ExtendedKeys, Byte
<1> SUFFICES ASSUME NEW b
             PROVE  ExtendedKey(b) \in Byte
  OBVIOUS
<1> DEFINE found == {x \in ExtendedKeys : x[1] = b}
<1>2. CASE found = {}
  BY <1>2 DEF ExtendedKey, KEY_NONE, Byte
<1>3. CASE found # {}
  <2>1. (CHOOSE x \in found : TRUE) \in ExtendedKeys
    BY <1>3
  <2> QED
    BY <1>1, <1>3, <2>1 DEF ExtendedKey
<1> QED
  BY <1>2, <1>3

(* Every answer of the decoder is a usage or its negative, and it leaves   *)
(* in the buffer nothing or one of the codes it keeps.                     *)
Answers == [usb : -255 .. 255, buffer : KeptCodes]

LEMMA LongCodes ==
  Len(PrintScreenMake) = 4 /\ Len(<<224, 124, 224, 240, 18>>) = 5 /\ Len(PauseMake) = 8
  BY DEF PrintScreenMake, PauseMake

LEMMA LengthsDiffer ==
  ASSUME NEW s, NEW t, NEW m \in Nat, NEW n \in Nat, Len(s) = m, Len(t) = n, m # n
  PROVE  s # t
  BY Zenon

LEMMA ShortCodes ==
  ASSUME NEW code \in Seq(Byte), NEW n \in {1, 2}, Len(code) = n
  PROVE  code # PrintScreenMake /\ code # <<224, 124, 224, 240, 18>> /\ code # PauseMake
<1>1. n \in Nat /\ n # 4 /\ n # 5 /\ n # 8
  OBVIOUS
<1>2. 4 \in Nat /\ 5 \in Nat /\ 8 \in Nat
  OBVIOUS
<1>3. code # PrintScreenMake
  BY <1>1, <1>2, LongCodes, LengthsDiffer, Zenon
<1>4. code # <<224, 124, 224, 240, 18>>
  BY <1>1, <1>2, LongCodes, LengthsDiffer, Zenon
<1>5. code # PauseMake
  BY <1>1, <1>2, LongCodes, LengthsDiffer, Zenon
<1> QED
  BY <1>3, <1>4, <1>5

LEMMA PlainAnswers ==
  ASSUME NEW code \in Seq(Byte)
  PROVE  Plain(code) \in Answers
<1>1. CASE code \in KeptCodes
  BY <1>1 DEF Plain, Result, KEY_NONE, Answers
<1>2. CASE code \notin KeptCodes
  <2>1. CASE Len(code) = 1
    <3>a. code[1] \in Byte
      BY <2>1
    <3>b. SingleKey(code[1]) \in Byte
      BY <3>a, SingleKeysAreUsages
    <3>1. SingleKey(code[1]) \in -255 .. 255
      BY <3>b DEF Byte
    <3>2. Plain(code) = Result(SingleKey(code[1]), <<>>)
      <4>1. code # PrintScreenMake /\ code # <<224, 124, 224, 240, 18>> /\ code # PauseMake
        BY <2>1, 1 \in {1, 2}, ShortCodes
      <4> QED
        BY <1>2, <2>1, <4>1 DEF Plain
    <3> QED
      BY <3>1, <3>2, NothingIsKept DEF Result, Answers
  <2>2. CASE Len(code) = 2 /\ code[1] = 224
    <3>a. ExtendedKey(code[2]) \in Byte
      BY ExtendedKeysAreUsages
    <3>1. ExtendedKey(code[2]) \in -255 .. 255
      BY <3>a DEF Byte
    <3>2. Plain(code) = Result(ExtendedKey(code[2]), <<>>)
      <4>1. code # PrintScreenMake /\ code # <<224, 124, 224, 240, 18>> /\ code # PauseMake
        BY <2>2, 2 \in {1, 2}, ShortCodes
      <4> QED
        BY <1>2, <2>2, <4>1 DEF Plain
    <3> QED
      BY <3>1, <3>2, NothingIsKept DEF Result, Answers
  <2>3. CASE ~(Len(code) = 1) /\ ~(Len(code) = 2 /\ code[1] = 224)
    <3>1. Plain(code) \in {Result(KEY_SYSRQ, <<>>), Result(-KEY_SYSRQ, <<>>),
                           Result(KEY_PAUSE, <<>>), Result(KEY_NONE, <<>>)}
      BY <1>2, <2>3 DEF Plain
    <3> QED
      BY <3>1, NothingIsKept DEF Result, Answers, KEY_SYSRQ, KEY_PAUSE, KEY_NONE
  <2> QED
    BY <2>1, <2>2, <2>3
<1> QED
  BY <1>1, <1>2

LEMMA NegatedAnswers ==
  ASSUME NEW r \in Answers
  PROVE  Negated(r) \in Answers /\ Negated(r) = [usb |-> -r.usb, buffer |-> r.buffer]
  BY DEF Negated, Answers

LEMMA DecoderAnswers ==
  ASSUME NEW code \in Seq(Byte)
  PROVE  ps2Set2ToUsb(code) \in Answers
<1>1. CASE Len(code) = 3 /\ Front(code) = <<224, 240>>
  <2>1. 224 \in Byte
    BY DEF Byte
  <2>2. <<224, Last(code)>> \in Seq(Byte)
    BY <1>1, <2>1 DEF Last
  <2>3. ps2Set2ToUsb(code) = Negated(Plain(<<224, Last(code)>>))
    BY <1>1 DEF ps2Set2ToUsb
  <2>4. Plain(<<224, Last(code)>>) \in Answers
    BY <2>2, PlainAnswers
  <2>5. Negated(Plain(<<224, Last(code)>>)) \in Answers
    BY <2>4, NegatedAnswers
  <2> QED
    BY <2>3, <2>5
<1>2. CASE Len(code) = 2 /\ code[1] = 240
  <2>1. <<code[2]>> \in Seq(Byte)
    BY <1>2
  <2>2. ps2Set2ToUsb(code) = Negated(Plain(<<code[2]>>))
    BY <1>2 DEF ps2Set2ToUsb
  <2> QED
    BY <2>1, <2>2, PlainAnswers, NegatedAnswers
<1>3. CASE ~(Len(code) = 3 /\ Front(code) = <<224, 240>>) /\ ~(Len(code) = 2 /\ code[1] = 240)
  BY <1>3, PlainAnswers DEF ps2Set2ToUsb
<1> QED
  BY <1>1, <1>2, <1>3
----------------------------------------------------------------------------
(* How a byte is put behind the others.                                    *)

LEMMA Put ==
  ASSUME NEW s \in Seq(Byte), NEW b \in Byte, NEW n \in 0 .. 7, Len(s) = n, n > 0 \/ b # 0
  PROVE  /\ Shifted(s, b) \in Seq(Byte) /\ Len(Shifted(s, b)) = n + 1
         /\ \A m \in 1 .. n : Shifted(s, b)[m] = s[m]
         /\ Shifted(s, b)[n + 1] = b
<1>1. ~(Len(s) = 8)
  <2> SUFFICES ASSUME Len(s) = 8
               PROVE  FALSE
    OBVIOUS
  <2> QED
    OBVIOUS
<1>2. ~(s = <<>> /\ b = 0)
  OBVIOUS
<1>3. Shifted(s, b) = Append(s, b)
  BY <1>1, <1>2, Zenon DEF Shifted
<1> QED
  BY <1>3

LEMMA Literal1 ==
  ASSUME NEW t \in Seq(Byte), Len(t) = 1
  PROVE  t = <<t[1]>>
  OBVIOUS

LEMMA Literal2 ==
  ASSUME NEW t \in Seq(Byte), Len(t) = 2
  PROVE  t = <<t[1], t[2]>>
  OBVIOUS

LEMMA Literal3 ==
  ASSUME NEW t \in Seq(Byte), Len(t) = 3
  PROVE  t = <<t[1], t[2], t[3]>>
  OBVIOUS

LEMMA Literal4 ==
  ASSUME NEW t \in Seq(Byte), Len(t) = 4
  PROVE  t = <<t[1], t[2], t[3], t[4]>>
  OBVIOUS

LEMMA Literal5 ==
  ASSUME NEW t \in Seq(Byte), Len(t) = 5
  PROVE  t = <<t[1], t[2], t[3], t[4], t[5]>>
  OBVIOUS

LEMMA Literal6 ==
  ASSUME NEW t \in Seq(Byte), Len(t) = 6
  PROVE  t = <<t[1], t[2], t[3], t[4], t[5], t[6]>>
  OBVIOUS

LEMMA Literal7 ==
  ASSUME NEW t \in Seq(Byte), Len(t) = 7
  PROVE  t = <<t[1], t[2], t[3], t[4], t[5], t[6], t[7]>>
  OBVIOUS

LEMMA Literal8 ==
  ASSUME NEW t \in Seq(Byte), Len(t) = 8
  PROVE  t = <<t[1], t[2], t[3], t[4], t[5], t[6], t[7], t[8]>>
  OBVIOUS

LEMMA Put1 ==
  ASSUME NEW z \in Byte, z # 0
  PROVE  Shifted(<<>>, z) = <<z>>
<1>1. ~(<<>> = <<>> /\ z = 0) /\ ~(Len(<<>>) = 8)
  OBVIOUS
<1>2. Shifted(<<>>, z) = Append(<<>>, z)
  BY <1>1, Zenon DEF Shifted
<1>3. <<z>> \in Seq({z}) /\ <<>> \in Seq({z}) /\ Len(<<z>>) = 1 /\ <<z>>[1] = z
  OBVIOUS
<1>4. Append(<<>>, z) = <<z>>
  BY <1>3
<1> QED
  BY <1>2, <1>4

LEMMA Put2 ==
  ASSUME NEW a \in Byte, NEW z \in Byte
  PROVE  Shifted(<<a>>, z) = <<a, z>>
<1> DEFINE s == <<a>>
           t == Shifted(s, z)
<1>1. s \in Seq(Byte) /\ Len(s) = 1 /\ s[1] = a
  OBVIOUS
<1> HIDE DEF s
<1>2. /\ t \in Seq(Byte) /\ Len(t) = 1 + 1 /\ t[1 + 1] = z
      /\ \A m \in 1 .. 1 : t[m] = s[m]
  BY <1>1, 1 \in 0 .. 7, 1 > 0, Put
<1> HIDE DEF t
<1>3. t = <<a, z>>
  BY <1>1, <1>2, Literal2
<1> QED
  BY <1>3 DEF t, s

LEMMA Put3 ==
  ASSUME NEW a \in Byte, NEW b \in Byte, NEW z \in Byte
  PROVE  Shifted(<<a, b>>, z) = <<a, b, z>>
<1> DEFINE s == <<a, b>>
           t == Shifted(s, z)
<1>1. s \in Seq(Byte) /\ Len(s) = 2 /\ s[1] = a /\ s[2] = b
  OBVIOUS
<1> HIDE DEF s
<1>2. /\ t \in Seq(Byte) /\ Len(t) = 2 + 1 /\ t[2 + 1] = z
      /\ \A m \in 1 .. 2 : t[m] = s[m]
  BY <1>1, 2 \in 0 .. 7, 2 > 0, Put
<1> HIDE DEF t
<1>3. t = <<a, b, z>>
  BY <1>1, <1>2, Literal3
<1> QED
  BY <1>3 DEF t, s

LEMMA Put4 ==
  ASSUME NEW a \in Byte, NEW b \in Byte, NEW c \in Byte, NEW z \in Byte
  PROVE  Shifted(<<a, b, c>>, z) = <<a, b, c, z>>
<1> DEFINE s == <<a, b, c>>
           t == Shifted(s, z)
<1>1. s \in Seq(Byte) /\ Len(s) = 3 /\ s[1] = a /\ s[2] = b /\ s[3] = c
  OBVIOUS
<1> HIDE DEF s
<1>2. /\ t \in Seq(Byte) /\ Len(t) = 3 + 1 /\ t[3 + 1] = z
      /\ \A m \in 1 .. 3 : t[m] = s[m]
  BY <1>1, 3 \in 0 .. 7, 3 > 0, Put
<1> HIDE DEF t
<1>3. t = <<a, b, c, z>>
  BY <1>1, <1>2, Literal4
<1> QED
  BY <1>3 DEF t, s

LEMMA Put5 ==
  ASSUME NEW a \in Byte, NEW b \in Byte, NEW c \in Byte, NEW d \in Byte, NEW z \in Byte
  PROVE  Shifted(<<a, b, c, d>>, z) = <<a, b, c, d, z>>
<1> DEFINE s == <<a, b, c, d>>
           t == Shifted(s, z)
<1>1. s \in Seq(Byte) /\ Len(s) = 4 /\ s[1] = a /\ s[2] = b /\ s[3] = c /\ s[4] = d
  OBVIOUS
<1> HIDE DEF s
<1>2. /\ t \in Seq(Byte) /\ Len(t) = 4 + 1 /\ t[4 + 1] = z
      /\ \A m \in 1 .. 4 : t[m] = s[m]
  BY <1>1, 4 \in 0 .. 7, 4 > 0, Put
<1> HIDE DEF t
<1>3. t = <<a, b, c, d, z>>
  BY <1>1, <1>2, Literal5
<1> QED
  BY <1>3 DEF t, s

LEMMA Put6 ==
  ASSUME NEW a \in Byte, NEW b \in Byte, NEW c \in Byte, NEW d \in Byte, NEW e \in Byte, NEW z \in Byte
  PROVE  Shifted(<<a, b, c, d, e>>, z) = <<a, b, c, d, e, z>>
<1> DEFINE s == <<a, b, c, d, e>>
           t == Shifted(s, z)
<1>1. s \in Seq(Byte) /\ Len(s) = 5 /\ s[1] = a /\ s[2] = b /\ s[3] = c /\ s[4] = d /\ s[5] = e
  OBVIOUS
<1> HIDE DEF s
<1>2. /\ t \in Seq(Byte) /\ Len(t) = 5 + 1 /\ t[5 + 1] = z
      /\ \A m \in 1 .. 5 : t[m] = s[m]
  BY <1>1, 5 \in 0 .. 7, 5 > 0, Put
<1> HIDE DEF t
<1>3. t = <<a, b, c, d, e, z>>
  BY <1>1, <1>2, Literal6
<1> QED
  BY <1>3 DEF t, s

LEMMA Put7 ==
  ASSUME NEW a \in Byte, NEW b \in Byte, NEW c \in Byte, NEW d \in Byte, NEW e \in Byte, NEW f \in Byte, NEW z \in Byte
  PROVE  Shifted(<<a, b, c, d, e, f>>, z) = <<a, b, c, d, e, f, z>>
<1> DEFINE s == <<a, b, c, d, e, f>>
           t == Shifted(s, z)
<1>1. s \in Seq(Byte) /\ Len(s) = 6 /\ s[1] = a /\ s[2] = b /\ s[3] = c /\ s[4] = d /\ s[5] = e /\ s[6] = f
  OBVIOUS
<1> HIDE DEF s
<1>2. /\ t \in Seq(Byte) /\ Len(t) = 6 + 1 /\ t[6 + 1] = z
      /\ \A m \in 1 .. 6 : t[m] = s[m]
  BY <1>1, 6 \in 0 .. 7, 6 > 0, Put
<1> HIDE DEF t
<1>3. t = <<a, b, c, d, e, f, z>>
  BY <1>1, <1>2, Literal7
<1> QED
  BY <1>3 DEF t, s

LEMMA Put8 ==
  ASSUME NEW a \in Byte, NEW b \in Byte, NEW c \in Byte, NEW d \in Byte, NEW e \in Byte, NEW f \in Byte, NEW g \in Byte, NEW z \in Byte
  PROVE  Shifted(<<a, b, c, d, e, f, g>>, z) = <<a, b, c, d, e, f, g, z>>
<1> DEFINE s == <<a, b, c, d, e, f, g>>
           t == Shifted(s, z)
<1>1. s \in Seq(Byte) /\ Len(s) = 7 /\ s[1] = a /\ s[2] = b /\ s[3] = c /\ s[4] = d /\ s[5] = e /\ s[6] = f /\ s[7] = g
  OBVIOUS
<1> HIDE DEF s
<1>2. /\ t \in Seq(Byte) /\ Len(t) = 7 + 1 /\ t[7 + 1] = z
      /\ \A m \in 1 .. 7 : t[m] = s[m]
  BY <1>1, 7 \in 0 .. 7, 7 > 0, Put
<1> HIDE DEF t
<1>3. t = <<a, b, c, d, e, f, g, z>>
  BY <1>1, <1>2, Literal8
<1> QED
  BY <1>3 DEF t, s

----------------------------------------------------------------------------
(* What the decoder answers to each code a key sends.                      *)

LEMMA KeptStays == \A c \in KeptCodes : ps2Set2ToUsb(c) = Result(KEY_NONE, c)
<1> SUFFICES ASSUME NEW c \in KeptCodes
             PROVE  ps2Set2ToUsb(c) = Result(KEY_NONE, c)
  OBVIOUS
<1>1. Kept(c)
  BY KeptAreShort
<1>2. ~(Len(c) = 3 /\ Front(c) = <<224, 240>>)
  <2> SUFFICES ASSUME Len(c) = 3, Front(c) = <<224, 240>>
               PROVE  FALSE
    OBVIOUS
  <2>1. c \in Seq(Byte) /\ c[2] # 240
    BY <1>1 DEF Kept
  <2>2. Front(c)[2] = c[2]
    BY <2>1 DEF Front
  <2> QED
    BY <2>1, <2>2
<1>3. ~(Len(c) = 2 /\ c[1] = 240)
  BY <1>1 DEF Kept
<1>4. ps2Set2ToUsb(c) = Plain(c)
  BY <1>2, <1>3 DEF ps2Set2ToUsb
<1> QED
  BY <1>4 DEF Plain

LEMMA PlainSingle ==
  ASSUME NEW c \in 1 .. 143
  PROVE  Plain(<<c>>) = Result(SingleKey(c), <<>>)
<1>1. <<c>> \notin KeptCodes
  <2> SUFFICES ASSUME <<c>> \in KeptCodes
               PROVE  FALSE
    OBVIOUS
  <2>1. Kept(<<c>>)
    BY KeptAreShort
  <2>2. Len(<<c>>) = 1 /\ <<c>>[1] = c
    OBVIOUS
  <2> QED
    BY <2>1, <2>2 DEF Kept
<1>2. /\ <<c>> # PrintScreenMake /\ <<c>> # <<224, 124, 224, 240, 18>> /\ <<c>> # PauseMake
  BY DEF PrintScreenMake, PauseMake
<1>3. Len(<<c>>) = 1 /\ <<c>>[1] = c
  OBVIOUS
<1> QED
  BY <1>1, <1>2, <1>3 DEF Plain

LEMMA PlainExtended ==
  ASSUME NEW c \in (1 .. 127) \ {18, 124}
  PROVE  Plain(<<224, c>>) = Result(ExtendedKey(c), <<>>)
<1>1. <<224, c>> \notin KeptCodes
  <2> SUFFICES ASSUME <<224, c>> \in KeptCodes
               PROVE  FALSE
    OBVIOUS
  <2>1. Kept(<<224, c>>)
    BY KeptAreShort
  <2>2. Len(<<224, c>>) = 2 /\ <<224, c>>[1] = 224 /\ <<224, c>>[2] = c
    OBVIOUS
  <2> QED
    BY <2>1, <2>2 DEF Kept
<1>2. /\ <<224, c>> # PrintScreenMake /\ <<224, c>> # <<224, 124, 224, 240, 18>>
      /\ <<224, c>> # PauseMake
  BY DEF PrintScreenMake, PauseMake
<1>3. Len(<<224, c>>) = 2 /\ <<224, c>>[1] = 224 /\ <<224, c>>[2] = c
  OBVIOUS
<1> QED
  BY <1>1, <1>2, <1>3 DEF Plain

LEMMA NegatedResult ==
  ASSUME NEW u \in Byte
  PROVE  Negated(Result(u, <<>>)) = Result(-u, <<>>)
  BY DEF Negated, Result

LEMMA SingleCode ==
  ASSUME NEW c \in 1 .. 143
  PROVE  /\ ps2Set2ToUsb(<<c>>) = Result(SingleKey(c), <<>>)
         /\ ps2Set2ToUsb(<<240, c>>) = Result(-SingleKey(c), <<>>)
<1>1. SingleKey(c) \in Byte
  <2>1. c \in Byte
    BY DEF Byte
  <2> QED
    BY <2>1, SingleKeysAreUsages
<1>2. Len(<<c>>) = 1 /\ <<c>>[1] = c
  OBVIOUS
<1>3. Len(<<240, c>>) = 2 /\ <<240, c>>[1] = 240 /\ <<240, c>>[2] = c
  OBVIOUS
<1>4. ps2Set2ToUsb(<<c>>) = Plain(<<c>>)
  BY <1>2 DEF ps2Set2ToUsb
<1>5. ps2Set2ToUsb(<<240, c>>) = Negated(Plain(<<c>>))
  BY <1>3 DEF ps2Set2ToUsb
<1> QED
  BY <1>1, <1>4, <1>5, PlainSingle, NegatedResult

LEMMA FrontOfThree ==
  ASSUME NEW a \in Byte, NEW b \in Byte, NEW c \in Byte
  PROVE  Len(<<a, b, c>>) = 3 /\ Front(<<a, b, c>>) = <<a, b>> /\ Last(<<a, b, c>>) = c
<1>1. <<a, b, c>> \in Seq(Byte) /\ Len(<<a, b, c>>) = 3
  OBVIOUS
<1> DEFINE t == Front(<<a, b, c>>)
<1>2. t \in Seq(Byte) /\ Len(t) = 2 /\ t[1] = a /\ t[2] = b
  BY <1>1 DEF Front
<1> HIDE DEF t
<1>3. t = <<a, b>>
  BY <1>2, Literal2
<1>4. Last(<<a, b, c>>) = c
  BY DEF Last
<1> QED
  BY <1>1, <1>3, <1>4 DEF t

LEMMA ExtendedCode ==
  ASSUME NEW c \in (1 .. 127) \ {18, 124}
  PROVE  /\ ps2Set2ToUsb(<<224, c>>) = Result(ExtendedKey(c), <<>>)
         /\ ps2Set2ToUsb(<<224, 240, c>>) = Result(-ExtendedKey(c), <<>>)
<1>1. ExtendedKey(c) \in Byte
  BY ExtendedKeysAreUsages
<1>2. Len(<<224, c>>) = 2 /\ <<224, c>>[1] = 224
  OBVIOUS
<1>3. 224 \in Byte /\ 240 \in Byte /\ c \in Byte
  BY DEF Byte
<1>4. ps2Set2ToUsb(<<224, c>>) = Plain(<<224, c>>)
  BY <1>2 DEF ps2Set2ToUsb
<1>5. ps2Set2ToUsb(<<224, 240, c>>) = Negated(Plain(<<224, c>>))
  BY <1>3, FrontOfThree DEF ps2Set2ToUsb
<1> QED
  BY <1>1, <1>4, <1>5, PlainExtended, NegatedResult

(* Print Screen and Pause.                                                 *)
LEMMA LongCode ==
  /\ ps2Set2ToUsb(<<224, 18, 224, 124>>) = Result(KEY_SYSRQ, <<>>)
  /\ ps2Set2ToUsb(<<224, 240, 124>>) = Result(KEY_NONE, <<224, 124>>)
  /\ ps2Set2ToUsb(<<224, 124, 224, 240, 18>>) = Result(-KEY_SYSRQ, <<>>)
  /\ ps2Set2ToUsb(<<225, 20, 119, 225, 240, 20, 240, 119>>) = Result(KEY_PAUSE, <<>>)
<1>1. ps2Set2ToUsb(<<224, 18, 224, 124>>) = Result(KEY_SYSRQ, <<>>)
  <2>1. Len(<<224, 18, 224, 124>>) = 4 /\ <<224, 18, 224, 124>>[4] = 124
    OBVIOUS
  <2>2. <<224, 18, 224, 124>> \notin KeptCodes
    BY <2>1, KeptAreShort DEF Kept
  <2>3. ps2Set2ToUsb(<<224, 18, 224, 124>>) = Plain(<<224, 18, 224, 124>>)
    BY <2>1 DEF ps2Set2ToUsb
  <2>4. /\ <<224, 18, 224, 124>> # <<224, 124, 224, 240, 18>>
        /\ <<224, 18, 224, 124>> # <<225, 20, 119, 225, 240, 20, 240, 119>>
    OBVIOUS
  <2> QED
    BY <2>1, <2>2, <2>3, <2>4 DEF Plain, PrintScreenMake, PauseMake
<1>2. ps2Set2ToUsb(<<224, 240, 124>>) = Result(KEY_NONE, <<224, 124>>)
  <2>1. 224 \in Byte /\ 240 \in Byte /\ 124 \in Byte
    BY DEF Byte
  <2>2. ps2Set2ToUsb(<<224, 240, 124>>) = Negated(Plain(<<224, 124>>))
    BY <2>1, FrontOfThree DEF ps2Set2ToUsb
  <2>3. <<224, 124>> \in KeptCodes
    BY DEF KeptCodes
  <2>4. Plain(<<224, 124>>) = Result(KEY_NONE, <<224, 124>>)
    BY <2>3 DEF Plain
  <2> QED
    BY <2>2, <2>4 DEF Negated, Result, KEY_NONE
<1>3. ps2Set2ToUsb(<<224, 124, 224, 240, 18>>) = Result(-KEY_SYSRQ, <<>>)
  <2>1. Len(<<224, 124, 224, 240, 18>>) = 5 /\ <<224, 124, 224, 240, 18>>[1] = 224
    OBVIOUS
  <2>2. <<224, 124, 224, 240, 18>> \notin KeptCodes
    BY <2>1, KeptAreShort DEF Kept
  <2>3. ps2Set2ToUsb(<<224, 124, 224, 240, 18>>) = Plain(<<224, 124, 224, 240, 18>>)
    BY <2>1 DEF ps2Set2ToUsb
  <2>4. /\ <<224, 124, 224, 240, 18>> # <<224, 18, 224, 124>>
        /\ <<224, 124, 224, 240, 18>> # <<225, 20, 119, 225, 240, 20, 240, 119>>
    OBVIOUS
  <2> QED
    BY <2>1, <2>2, <2>3, <2>4 DEF Plain, PrintScreenMake, PauseMake
<1>4. ps2Set2ToUsb(<<225, 20, 119, 225, 240, 20, 240, 119>>) = Result(KEY_PAUSE, <<>>)
  <2> DEFINE p == <<225, 20, 119, 225, 240, 20, 240, 119>>
  <2>1. Len(p) = 8
    OBVIOUS
  <2>2. p \notin KeptCodes
    BY <2>1, KeptAreShort DEF Kept
  <2>3. ps2Set2ToUsb(p) = Plain(p)
    BY <2>1 DEF ps2Set2ToUsb
  <2>4. p # <<224, 124, 224, 240, 18>> /\ p # <<224, 18, 224, 124>>
    OBVIOUS
  <2> QED
    BY <2>1, <2>2, <2>3, <2>4 DEF Plain, PrintScreenMake, PauseMake
<1> QED
  BY <1>1, <1>2, <1>3, <1>4

----------------------------------------------------------------------------
(* A code is a walk: before byte n of it the buffer holds waits[n], and    *)
(* after the last byte the decoder answers u and clears the buffer.        *)

Walk(bytes, waits, u) ==
  /\ bytes \in Seq(Byte) /\ Len(bytes) \in 1 .. 8
  /\ waits[1] = <<>>
  /\ \A n \in 1 .. Len(bytes) : waits[n] \in KeptCodes
  /\ \A n \in 1 .. Len(bytes) - 1 :
       ps2Set2ToUsb(Shifted(waits[n], bytes[n])) = Result(KEY_NONE, waits[n + 1])
  /\ ps2Set2ToUsb(Shifted(waits[Len(bytes)], bytes[Len(bytes)])) = Result(u, <<>>)

LEMMA SinglePressWalk ==
  ASSUME NEW c \in 1 .. 143
  PROVE  Walk(<<c>>, << <<>> >>, SingleKey(c))
<1>1. c \in Byte /\ c # 0
  BY DEF Byte
<1>2. <<>> \in KeptCodes
  BY KeptOneByOne
<1>3. ps2Set2ToUsb(Shifted(<<>>, c)) = Result(SingleKey(c), <<>>)
  <2>1. Shifted(<<>>, c) = <<c>>
    BY <1>1, Put1
  <2> QED
    BY <2>1, SingleCode
<1> DEFINE bytes == <<c>>
           waits == << <<>> >>
<1>4. bytes \in Seq(Byte) /\ Len(bytes) = 1
  BY <1>1
<1>5. bytes[1] = c
  OBVIOUS
<1>6. /\ waits[1] = <<>>
  OBVIOUS
<1>7. 1 .. 1 = {1} /\ 1 .. 1 - 1 = {}
  OBVIOUS
<1> HIDE DEF bytes, waits
<1>8. \A n \in 1 .. 1 : waits[n] \in KeptCodes
  BY <1>2, <1>6, <1>7
<1>9. \A n \in 1 .. 1 - 1 :
        ps2Set2ToUsb(Shifted(waits[n], bytes[n])) = Result(KEY_NONE, waits[n + 1])
  BY <1>5, <1>6, <1>7
<1>10. Walk(bytes, waits, SingleKey(c))
  BY <1>3, <1>4, <1>5, <1>6, <1>8, <1>9 DEF Walk
<1> QED
  BY <1>10 DEF bytes, waits

LEMMA SingleReleaseWalk ==
  ASSUME NEW c \in 1 .. 143
  PROVE  Walk(<<240, c>>, << <<>>, <<240>> >>, -SingleKey(c))
<1>1. 240 \in Byte /\ c \in Byte /\ c # 0
  BY DEF Byte
<1>2. <<>> \in KeptCodes /\ <<240>> \in KeptCodes
  BY KeptOneByOne
<1>3. ps2Set2ToUsb(Shifted(<<>>, 240)) = Result(KEY_NONE, <<240>>)
  BY <1>1, <1>2, Put1, KeptStays
<1>4. ps2Set2ToUsb(Shifted(<<240>>, c)) = Result(-SingleKey(c), <<>>)
  <2>1. Shifted(<<240>>, c) = <<240, c>>
    BY <1>1, Put2
  <2> QED
    BY <2>1, SingleCode
<1> DEFINE bytes == <<240, c>>
           waits == << <<>>, <<240>> >>
<1>5. bytes \in Seq(Byte) /\ Len(bytes) = 2
  BY <1>1
<1>6. bytes[1] = 240 /\ bytes[2] = c
  OBVIOUS
<1>7. /\ waits[1] = <<>> /\ waits[2] = <<240>>
  OBVIOUS
<1>8. 1 .. 2 = {1, 2} /\ 1 .. 2 - 1 = {1}
  OBVIOUS
<1> HIDE DEF bytes, waits
<1>9. \A n \in 1 .. 2 : waits[n] \in KeptCodes
  BY <1>2, <1>7, <1>8
<1>10. \A n \in 1 .. 2 - 1 :
        ps2Set2ToUsb(Shifted(waits[n], bytes[n])) = Result(KEY_NONE, waits[n + 1])
  BY <1>3, <1>6, <1>7, <1>8
<1>11. Walk(bytes, waits, -SingleKey(c))
  BY <1>4, <1>5, <1>6, <1>7, <1>9, <1>10 DEF Walk
<1> QED
  BY <1>11 DEF bytes, waits

LEMMA ExtendedPressWalk ==
  ASSUME NEW c \in (1 .. 127) \ {18, 124}
  PROVE  Walk(<<224, c>>, << <<>>, <<224>> >>, ExtendedKey(c))
<1>1. 224 \in Byte /\ c \in Byte /\ c # 0
  BY DEF Byte
<1>2. <<>> \in KeptCodes /\ <<224>> \in KeptCodes
  BY KeptOneByOne
<1>3. ps2Set2ToUsb(Shifted(<<>>, 224)) = Result(KEY_NONE, <<224>>)
  BY <1>1, <1>2, Put1, KeptStays
<1>4. ps2Set2ToUsb(Shifted(<<224>>, c)) = Result(ExtendedKey(c), <<>>)
  <2>1. Shifted(<<224>>, c) = <<224, c>>
    BY <1>1, Put2
  <2> QED
    BY <2>1, ExtendedCode
<1> DEFINE bytes == <<224, c>>
           waits == << <<>>, <<224>> >>
<1>5. bytes \in Seq(Byte) /\ Len(bytes) = 2
  BY <1>1
<1>6. bytes[1] = 224 /\ bytes[2] = c
  OBVIOUS
<1>7. /\ waits[1] = <<>> /\ waits[2] = <<224>>
  OBVIOUS
<1>8. 1 .. 2 = {1, 2} /\ 1 .. 2 - 1 = {1}
  OBVIOUS
<1> HIDE DEF bytes, waits
<1>9. \A n \in 1 .. 2 : waits[n] \in KeptCodes
  BY <1>2, <1>7, <1>8
<1>10. \A n \in 1 .. 2 - 1 :
        ps2Set2ToUsb(Shifted(waits[n], bytes[n])) = Result(KEY_NONE, waits[n + 1])
  BY <1>3, <1>6, <1>7, <1>8
<1>11. Walk(bytes, waits, ExtendedKey(c))
  BY <1>4, <1>5, <1>6, <1>7, <1>9, <1>10 DEF Walk
<1> QED
  BY <1>11 DEF bytes, waits

LEMMA ExtendedReleaseWalk ==
  ASSUME NEW c \in (1 .. 127) \ {18, 124}
  PROVE  Walk(<<224, 240, c>>, << <<>>, <<224>>, <<224, 240>> >>, -ExtendedKey(c))
<1>1. 224 \in Byte /\ 240 \in Byte /\ c \in Byte /\ c # 0
  BY DEF Byte
<1>2. <<>> \in KeptCodes /\ <<224>> \in KeptCodes /\ <<224, 240>> \in KeptCodes
  BY KeptOneByOne
<1>3. ps2Set2ToUsb(Shifted(<<>>, 224)) = Result(KEY_NONE, <<224>>)
  BY <1>1, <1>2, Put1, KeptStays
<1>4. ps2Set2ToUsb(Shifted(<<224>>, 240)) = Result(KEY_NONE, <<224, 240>>)
  BY <1>1, <1>2, Put2, KeptStays
<1>5. ps2Set2ToUsb(Shifted(<<224, 240>>, c)) = Result(-ExtendedKey(c), <<>>)
  <2>1. Shifted(<<224, 240>>, c) = <<224, 240, c>>
    BY <1>1, Put3
  <2> QED
    BY <2>1, ExtendedCode
<1> DEFINE bytes == <<224, 240, c>>
           waits == << <<>>, <<224>>, <<224, 240>> >>
<1>6. bytes \in Seq(Byte) /\ Len(bytes) = 3
  BY <1>1
<1>7. bytes[1] = 224 /\ bytes[2] = 240 /\ bytes[3] = c
  OBVIOUS
<1>8. /\ waits[1] = <<>> /\ waits[2] = <<224>>
      /\ waits[3] = <<224, 240>>
  OBVIOUS
<1>9. 1 .. 3 = {1, 2, 3} /\ 1 .. 3 - 1 = {1, 2}
  OBVIOUS
<1> HIDE DEF bytes, waits
<1>10. \A n \in 1 .. 3 : waits[n] \in KeptCodes
  BY <1>2, <1>8, <1>9
<1>11. \A n \in 1 .. 3 - 1 :
        ps2Set2ToUsb(Shifted(waits[n], bytes[n])) = Result(KEY_NONE, waits[n + 1])
  BY <1>3, <1>4, <1>7, <1>8, <1>9
<1>12. Walk(bytes, waits, -ExtendedKey(c))
  BY <1>5, <1>6, <1>7, <1>8, <1>10, <1>11 DEF Walk
<1> QED
  BY <1>12 DEF bytes, waits

LEMMA PrintScreenPressWalk ==
  Walk(PrintScreenMake,
       << <<>>,
          <<224>>,
          <<224, 18>>,
          <<224, 18, 224>> >>,
       KEY_SYSRQ)
<1>1. 18 \in Byte /\ 124 \in Byte /\ 224 \in Byte
  BY DEF Byte
<1>2. /\ <<>> \in KeptCodes /\ <<224>> \in KeptCodes /\ <<224, 18>> \in KeptCodes
      /\ <<224, 18, 224>> \in KeptCodes
  BY KeptOneByOne
<1>3. ps2Set2ToUsb(Shifted(<<>>, 224)) = Result(KEY_NONE, <<224>>)
  BY <1>1, <1>2, Put1, KeptStays
<1>4. ps2Set2ToUsb(Shifted(<<224>>, 18)) = Result(KEY_NONE, <<224, 18>>)
  BY <1>1, <1>2, Put2, KeptStays
<1>5. ps2Set2ToUsb(Shifted(<<224, 18>>, 224)) = Result(KEY_NONE, <<224, 18, 224>>)
  BY <1>1, <1>2, Put3, KeptStays
<1>6. ps2Set2ToUsb(Shifted(<<224, 18, 224>>, 124)) = Result(KEY_SYSRQ, <<>>)
  <2>1. Shifted(<<224, 18, 224>>, 124) = <<224, 18, 224, 124>>
    BY <1>1, Put4
  <2> QED
    BY <2>1, LongCode
<1> DEFINE bytes == <<224, 18, 224, 124>>
           waits == << <<>>, <<224>>, <<224, 18>>, <<224, 18, 224>> >>
<1>7. bytes \in Seq(Byte) /\ Len(bytes) = 4
  BY <1>1
<1>8. bytes[1] = 224 /\ bytes[2] = 18 /\ bytes[3] = 224 /\ bytes[4] = 124
  OBVIOUS
<1>9. /\ waits[1] = <<>> /\ waits[2] = <<224>>
      /\ waits[3] = <<224, 18>> /\ waits[4] = <<224, 18, 224>>
  OBVIOUS
<1>10. 1 .. 4 = {1, 2, 3, 4} /\ 1 .. 4 - 1 = {1, 2, 3}
  OBVIOUS
<1> HIDE DEF bytes, waits
<1>11. \A n \in 1 .. 4 : waits[n] \in KeptCodes
  BY <1>2, <1>9, <1>10
<1>12. \A n \in 1 .. 4 - 1 :
        ps2Set2ToUsb(Shifted(waits[n], bytes[n])) = Result(KEY_NONE, waits[n + 1])
  BY <1>3, <1>4, <1>5, <1>8, <1>9, <1>10
<1>13. Walk(bytes, waits, KEY_SYSRQ)
  BY <1>6, <1>7, <1>8, <1>9, <1>11, <1>12 DEF Walk
<1> QED
  BY <1>13 DEF bytes, waits, PrintScreenMake

LEMMA PrintScreenReleaseWalk ==
  Walk(PrintScreenBreak,
       << <<>>,
          <<224>>,
          <<224, 240>>,
          <<224, 124>>,
          <<224, 124, 224>>,
          <<224, 124, 224, 240>> >>,
       -KEY_SYSRQ)
<1>1. 18 \in Byte /\ 124 \in Byte /\ 224 \in Byte /\ 240 \in Byte
  BY DEF Byte
<1>2. /\ <<>> \in KeptCodes /\ <<224>> \in KeptCodes /\ <<224, 240>> \in KeptCodes
      /\ <<224, 124>> \in KeptCodes /\ <<224, 124, 224>> \in KeptCodes /\ <<224, 124, 224, 240>> \in KeptCodes
  BY KeptOneByOne
<1>3. ps2Set2ToUsb(Shifted(<<>>, 224)) = Result(KEY_NONE, <<224>>)
  BY <1>1, <1>2, Put1, KeptStays
<1>4. ps2Set2ToUsb(Shifted(<<224>>, 240)) = Result(KEY_NONE, <<224, 240>>)
  BY <1>1, <1>2, Put2, KeptStays
<1>5. ps2Set2ToUsb(Shifted(<<224, 240>>, 124)) = Result(KEY_NONE, <<224, 124>>)
  <2>1. Shifted(<<224, 240>>, 124) = <<224, 240, 124>>
    BY <1>1, Put3
  <2> QED
    BY <2>1, LongCode, Zenon
<1>6. ps2Set2ToUsb(Shifted(<<224, 124>>, 224)) = Result(KEY_NONE, <<224, 124, 224>>)
  BY <1>1, <1>2, Put3, KeptStays
<1>7. ps2Set2ToUsb(Shifted(<<224, 124, 224>>, 240)) = Result(KEY_NONE, <<224, 124, 224, 240>>)
  BY <1>1, <1>2, Put4, KeptStays
<1>8. ps2Set2ToUsb(Shifted(<<224, 124, 224, 240>>, 18)) = Result(-KEY_SYSRQ, <<>>)
  <2>1. Shifted(<<224, 124, 224, 240>>, 18) = <<224, 124, 224, 240, 18>>
    BY <1>1, Put5
  <2> QED
    BY <2>1, LongCode
<1> DEFINE bytes == <<224, 240, 124, 224, 240, 18>>
           waits == << <<>>, <<224>>, <<224, 240>>, <<224, 124>>, <<224, 124, 224>>, <<224, 124, 224, 240>> >>
<1>9. bytes \in Seq(Byte) /\ Len(bytes) = 6
  BY <1>1
<1>10. /\ bytes[1] = 224 /\ bytes[2] = 240 /\ bytes[3] = 124 /\ bytes[4] = 224
      /\ bytes[5] = 240 /\ bytes[6] = 18
  OBVIOUS
<1>11. /\ waits[1] = <<>> /\ waits[2] = <<224>>
      /\ waits[3] = <<224, 240>> /\ waits[4] = <<224, 124>>
      /\ waits[5] = <<224, 124, 224>> /\ waits[6] = <<224, 124, 224, 240>>
  OBVIOUS
<1>12. 1 .. 6 = {1, 2, 3, 4, 5, 6} /\ 1 .. 6 - 1 = {1, 2, 3, 4, 5}
  OBVIOUS
<1> HIDE DEF bytes, waits
<1>13. \A n \in 1 .. 6 : waits[n] \in KeptCodes
  BY <1>2, <1>11, <1>12
<1>14. \A n \in 1 .. 6 - 1 :
        ps2Set2ToUsb(Shifted(waits[n], bytes[n])) = Result(KEY_NONE, waits[n + 1])
  <2>1. ps2Set2ToUsb(Shifted(waits[1], bytes[1])) = Result(KEY_NONE, waits[1 + 1])
    BY <1>3, <1>10, <1>11
  <2>2. ps2Set2ToUsb(Shifted(waits[2], bytes[2])) = Result(KEY_NONE, waits[2 + 1])
    BY <1>4, <1>10, <1>11
  <2>3. ps2Set2ToUsb(Shifted(waits[3], bytes[3])) = Result(KEY_NONE, waits[3 + 1])
    BY <1>5, <1>10, <1>11
  <2>4. ps2Set2ToUsb(Shifted(waits[4], bytes[4])) = Result(KEY_NONE, waits[4 + 1])
    BY <1>6, <1>10, <1>11
  <2>5. ps2Set2ToUsb(Shifted(waits[5], bytes[5])) = Result(KEY_NONE, waits[5 + 1])
    BY <1>7, <1>10, <1>11
  <2> QED
    BY <1>12, <2>1, <2>2, <2>3, <2>4, <2>5
<1>15. Walk(bytes, waits, -KEY_SYSRQ)
  BY <1>8, <1>9, <1>10, <1>11, <1>13, <1>14 DEF Walk
<1> QED
  BY <1>15 DEF bytes, waits, PrintScreenBreak

LEMMA PausePressWalk ==
  Walk(PauseMake,
       << <<>>,
          <<225>>,
          <<225, 20>>,
          <<225, 20, 119>>,
          <<225, 20, 119, 225>>,
          <<225, 20, 119, 225, 240>>,
          <<225, 20, 119, 225, 240, 20>>,
          <<225, 20, 119, 225, 240, 20, 240>> >>,
       KEY_PAUSE)
<1>1. 20 \in Byte /\ 119 \in Byte /\ 225 \in Byte /\ 240 \in Byte
  BY DEF Byte
<1>2. /\ <<>> \in KeptCodes /\ <<225>> \in KeptCodes /\ <<225, 20>> \in KeptCodes
      /\ <<225, 20, 119>> \in KeptCodes /\ <<225, 20, 119, 225>> \in KeptCodes /\ <<225, 20, 119, 225, 240>> \in KeptCodes
      /\ <<225, 20, 119, 225, 240, 20>> \in KeptCodes /\ <<225, 20, 119, 225, 240, 20, 240>> \in KeptCodes
  BY KeptOneByOne
<1>3. ps2Set2ToUsb(Shifted(<<>>, 225)) = Result(KEY_NONE, <<225>>)
  BY <1>1, <1>2, Put1, KeptStays
<1>4. ps2Set2ToUsb(Shifted(<<225>>, 20)) = Result(KEY_NONE, <<225, 20>>)
  BY <1>1, <1>2, Put2, KeptStays
<1>5. ps2Set2ToUsb(Shifted(<<225, 20>>, 119)) = Result(KEY_NONE, <<225, 20, 119>>)
  BY <1>1, <1>2, Put3, KeptStays
<1>6. ps2Set2ToUsb(Shifted(<<225, 20, 119>>, 225)) = Result(KEY_NONE, <<225, 20, 119, 225>>)
  BY <1>1, <1>2, Put4, KeptStays
<1>7. ps2Set2ToUsb(Shifted(<<225, 20, 119, 225>>, 240)) = Result(KEY_NONE, <<225, 20, 119, 225, 240>>)
  BY <1>1, <1>2, Put5, KeptStays
<1>8. ps2Set2ToUsb(Shifted(<<225, 20, 119, 225, 240>>, 20)) = Result(KEY_NONE, <<225, 20, 119, 225, 240, 20>>)
  BY <1>1, <1>2, Put6, KeptStays
<1>9. ps2Set2ToUsb(Shifted(<<225, 20, 119, 225, 240, 20>>, 240)) = Result(KEY_NONE, <<225, 20, 119, 225, 240, 20, 240>>)
  BY <1>1, <1>2, Put7, KeptStays
<1>10. ps2Set2ToUsb(Shifted(<<225, 20, 119, 225, 240, 20, 240>>, 119)) = Result(KEY_PAUSE, <<>>)
  <2>1. Shifted(<<225, 20, 119, 225, 240, 20, 240>>, 119) = <<225, 20, 119, 225, 240, 20, 240, 119>>
    BY <1>1, Put8
  <2> QED
    BY <2>1, LongCode
<1> DEFINE bytes == <<225, 20, 119, 225, 240, 20, 240, 119>>
           waits == << <<>>, <<225>>, <<225, 20>>, <<225, 20, 119>>, <<225, 20, 119, 225>>, <<225, 20, 119, 225, 240>>, <<225, 20, 119, 225, 240, 20>>, <<225, 20, 119, 225, 240, 20, 240>> >>
<1>11. bytes \in Seq(Byte) /\ Len(bytes) = 8
  BY <1>1
<1>12. /\ bytes[1] = 225 /\ bytes[2] = 20 /\ bytes[3] = 119 /\ bytes[4] = 225
      /\ bytes[5] = 240 /\ bytes[6] = 20 /\ bytes[7] = 240 /\ bytes[8] = 119
  OBVIOUS
<1>13. /\ waits[1] = <<>> /\ waits[2] = <<225>>
      /\ waits[3] = <<225, 20>> /\ waits[4] = <<225, 20, 119>>
      /\ waits[5] = <<225, 20, 119, 225>> /\ waits[6] = <<225, 20, 119, 225, 240>>
      /\ waits[7] = <<225, 20, 119, 225, 240, 20>> /\ waits[8] = <<225, 20, 119, 225, 240, 20, 240>>
  OBVIOUS
<1>14. 1 .. 8 = {1, 2, 3, 4, 5, 6, 7, 8} /\ 1 .. 8 - 1 = {1, 2, 3, 4, 5, 6, 7}
  OBVIOUS
<1> HIDE DEF bytes, waits
<1>15. \A n \in 1 .. 8 : waits[n] \in KeptCodes
  BY <1>2, <1>13, <1>14
<1>16. \A n \in 1 .. 8 - 1 :
        ps2Set2ToUsb(Shifted(waits[n], bytes[n])) = Result(KEY_NONE, waits[n + 1])
  <2>1. ps2Set2ToUsb(Shifted(waits[1], bytes[1])) = Result(KEY_NONE, waits[1 + 1])
    BY <1>3, <1>12, <1>13
  <2>2. ps2Set2ToUsb(Shifted(waits[2], bytes[2])) = Result(KEY_NONE, waits[2 + 1])
    BY <1>4, <1>12, <1>13
  <2>3. ps2Set2ToUsb(Shifted(waits[3], bytes[3])) = Result(KEY_NONE, waits[3 + 1])
    BY <1>5, <1>12, <1>13
  <2>4. ps2Set2ToUsb(Shifted(waits[4], bytes[4])) = Result(KEY_NONE, waits[4 + 1])
    BY <1>6, <1>12, <1>13
  <2>5. ps2Set2ToUsb(Shifted(waits[5], bytes[5])) = Result(KEY_NONE, waits[5 + 1])
    BY <1>7, <1>12, <1>13
  <2>6. ps2Set2ToUsb(Shifted(waits[6], bytes[6])) = Result(KEY_NONE, waits[6 + 1])
    BY <1>8, <1>12, <1>13
  <2>7. ps2Set2ToUsb(Shifted(waits[7], bytes[7])) = Result(KEY_NONE, waits[7 + 1])
    BY <1>9, <1>12, <1>13
  <2> QED
    BY <1>14, <2>1, <2>2, <2>3, <2>4, <2>5, <2>6, <2>7
<1>17. Walk(bytes, waits, KEY_PAUSE)
  BY <1>10, <1>11, <1>12, <1>13, <1>15, <1>16 DEF Walk
<1> QED
  BY <1>17 DEF bytes, waits, PauseMake

(* The usage with its sign, and what is reported of it.                    *)
Signed(k, press) == IF press THEN Usage(k) ELSE -Usage(k)

Expected(k, press) == IF Usage(k) = KEY_NONE THEN <<>> ELSE <<Signed(k, press)>>

WaitsOf(k, press) == CHOOSE w : Walk(Bytes(k, press), w, Signed(k, press))

LEMMA EveryKeyWalks ==
  ASSUME NEW k \in Keys, NEW press \in BOOLEAN, Bytes(k, press) # <<>>
  PROVE  Walk(Bytes(k, press), WaitsOf(k, press), Signed(k, press))
<1> SUFFICES \E w : Walk(Bytes(k, press), w, Signed(k, press))
  BY DEF WaitsOf
<1>1. CASE k.kind = "single"
  <2>1. k.code \in 1 .. 143
    <3>1. k \in [kind : {"single"}, code : 1 .. 143]
      BY <1>1 DEF Keys
    <3> QED
      BY <3>1
  <2>2. CASE press
    <3>1. Bytes(k, press) = <<k.code>> /\ Signed(k, press) = SingleKey(k.code)
      BY <1>1, <2>2 DEF Bytes, Signed, Usage
    <3> QED
      BY <2>1, <3>1, SinglePressWalk
  <2>3. CASE ~press
    <3>1. Bytes(k, press) = <<240, k.code>> /\ Signed(k, press) = -SingleKey(k.code)
      BY <1>1, <2>3 DEF Bytes, Signed, Usage
    <3> QED
      BY <2>1, <3>1, SingleReleaseWalk
  <2> QED
    BY <2>2, <2>3
<1>2. CASE k.kind = "extended"
  <2>1. k.code \in (1 .. 127) \ {18, 124}
    BY <1>2 DEF Keys
  <2>2. CASE press
    <3>1. Bytes(k, press) = <<224, k.code>> /\ Signed(k, press) = ExtendedKey(k.code)
      BY <1>2, <2>2 DEF Bytes, Signed, Usage
    <3> QED
      BY <2>1, <3>1, ExtendedPressWalk
  <2>3. CASE ~press
    <3>1. Bytes(k, press) = <<224, 240, k.code>> /\ Signed(k, press) = -ExtendedKey(k.code)
      BY <1>2, <2>3 DEF Bytes, Signed, Usage
    <3> QED
      BY <2>1, <3>1, ExtendedReleaseWalk
  <2> QED
    BY <2>2, <2>3
<1>3. CASE k.kind = "printscreen"
  <2>1. CASE press
    <3>1. Bytes(k, press) = PrintScreenMake /\ Signed(k, press) = KEY_SYSRQ
      BY <1>3, <2>1 DEF Bytes, Signed, Usage
    <3> QED
      BY <3>1, PrintScreenPressWalk
  <2>2. CASE ~press
    <3>1. Bytes(k, press) = PrintScreenBreak /\ Signed(k, press) = -KEY_SYSRQ
      BY <1>3, <2>2 DEF Bytes, Signed, Usage
    <3> QED
      BY <3>1, PrintScreenReleaseWalk
  <2> QED
    BY <2>1, <2>2
<1>4. CASE k.kind = "pause"
  <2>1. press
    BY <1>4 DEF Bytes
  <2>2. Bytes(k, press) = PauseMake /\ Signed(k, press) = KEY_PAUSE
    BY <1>4, <2>1 DEF Bytes, Signed, Usage
  <2> QED
    BY <2>2, PausePressWalk
<1> QED
  BY <1>1, <1>2, <1>3, <1>4 DEF Keys

LEMMA UsageIsByte ==
  ASSUME NEW k \in Keys
  PROVE  Usage(k) \in Byte
<1>1. CASE k.kind = "single"
  <2>1. k.code \in Byte
    BY <1>1 DEF Keys, Byte
  <2> QED
    BY <1>1, <2>1, SingleKeysAreUsages DEF Usage
<1>2. CASE k.kind = "extended"
  BY <1>2, ExtendedKeysAreUsages DEF Usage
<1>3. CASE k.kind \in {"printscreen", "pause"}
  BY <1>3 DEF Usage, KEY_SYSRQ, KEY_PAUSE, Byte
<1> QED
  BY <1>1, <1>2, <1>3 DEF Keys

----------------------------------------------------------------------------
(* The buffer, whatever bytes arrive.                                      *)

Codes == -255 .. 255

BufferInv ==
  /\ codeBuffer \in Seq(Byte) /\ Len(codeBuffer) <= 8
  /\ decoding \in BOOLEAN
  /\ ~decoding => codeBuffer \in KeptCodes
  /\ pending \in Seq(Byte)
  /\ reported \in Seq(Codes)

LEMMA ReceiveKeepsBuffer ==
  ASSUME BufferInv, NEW b \in Byte, Receive(b)
  PROVE  codeBuffer' \in Seq(Byte) /\ Len(codeBuffer') <= 8 /\ decoding'
<1>1. codeBuffer \in Seq(Byte) /\ Len(codeBuffer) < 8
  BY KeptAreShort DEF BufferInv, Receive, Kept
<1>2. codeBuffer' = Shifted(codeBuffer, b) /\ decoding'
  BY DEF Receive
<1>3. CASE codeBuffer = <<>> /\ b = 0
  <2>1. codeBuffer' = codeBuffer
    BY <1>2, <1>3, Zenon DEF Shifted
  <2> QED
    BY <1>1, <1>2, <2>1
<1>4. CASE ~(codeBuffer = <<>> /\ b = 0)
  <2>1. ~(Len(codeBuffer) = 8)
    <3> SUFFICES ASSUME Len(codeBuffer) = 8
                 PROVE  FALSE
      OBVIOUS
    <3> QED
      BY <1>1
  <2>2. codeBuffer' = Append(codeBuffer, b)
    BY <1>2, <1>4, <2>1, Zenon DEF Shifted
  <2> QED
    BY <1>1, <1>2, <2>2
<1> QED
  BY <1>3, <1>4

LEMMA BufferInvKept == BufferInv /\ [Next]_vars => BufferInv'
<1> SUFFICES ASSUME BufferInv, [Next]_vars
             PROVE  BufferInv'
  OBVIOUS
<1>1. ASSUME NEW k \in Keys, NEW press \in BOOLEAN, Send(k, press)
      PROVE  BufferInv'
  <2>1. Bytes(k, press) \in Seq(Byte)
    BY <1>1, EveryKeyWalks DEF Send, Walk
  <2>2. pending' = Bytes(k, press) /\ reported' = <<>> /\ UNCHANGED <<codeBuffer, decoding>>
    BY <1>1 DEF Send
  <2>3. <<>> \in Seq(Codes)
    OBVIOUS
  <2> QED
    BY <2>1, <2>2, <2>3 DEF BufferInv
<1>2. CASE ReceiveNext
  <2>1. pending \in Seq(Byte) /\ pending # <<>>
    BY <1>2 DEF ReceiveNext, BufferInv
  <2>2. Head(pending) \in Byte /\ Tail(pending) \in Seq(Byte)
    BY <2>1
  <2>3. codeBuffer' \in Seq(Byte) /\ Len(codeBuffer') <= 8 /\ decoding'
    BY <1>2, <2>2, ReceiveKeepsBuffer DEF ReceiveNext
  <2>4. decoding' \in BOOLEAN /\ pending' = Tail(pending) /\ reported' = reported
    BY <1>2 DEF ReceiveNext, Receive
  <2> QED
    BY <2>2, <2>3, <2>4 DEF BufferInv
<1>3. ASSUME NEW b \in Noise, ReceiveNoise(b)
      PROVE  BufferInv'
  <2>1. b \in Byte
    BY NoiseAssumption DEF Byte
  <2>2. codeBuffer' \in Seq(Byte) /\ Len(codeBuffer') <= 8 /\ decoding'
    BY <1>3, <2>1, ReceiveKeepsBuffer DEF ReceiveNoise
  <2>3. decoding' \in BOOLEAN /\ pending' = pending /\ reported' = <<>>
    BY <1>3 DEF ReceiveNoise, Receive
  <2>4. <<>> \in Seq(Codes)
    OBVIOUS
  <2> QED
    BY <2>2, <2>3, <2>4 DEF BufferInv
<1>4. CASE Decode
  <2> DEFINE r == ps2Set2ToUsb(codeBuffer)
  <2>1. r \in Answers
    BY DecoderAnswers DEF BufferInv
  <2>2. r.buffer \in KeptCodes /\ r.usb \in Codes
    BY <2>1 DEF Answers, Codes
  <2>3. /\ codeBuffer' = r.buffer /\ decoding' \in BOOLEAN /\ pending' = pending
        /\ reported' = reported \/ reported' = Append(reported, r.usb)
    BY <1>4 DEF Decode
  <2> HIDE DEF r
  <2>4. codeBuffer' \in Seq(Byte) /\ Len(codeBuffer') <= 8
    BY <2>2, <2>3, KeptAreShort DEF Kept
  <2>5. reported' \in Seq(Codes)
    <3>1. reported \in Seq(Codes)
      BY DEF BufferInv
    <3>2. Append(reported, r.usb) \in Seq(Codes)
      BY <2>2, <3>1
    <3> QED
      BY <2>3, <3>1, <3>2
  <2> QED
    BY <2>2, <2>3, <2>4, <2>5 DEF BufferInv
<1>5. CASE UNCHANGED vars
  BY <1>5 DEF vars, BufferInv
<1> QED
  BY <1>1, <1>2, <1>3, <1>4, <1>5 DEF Next

LEMMA BufferInvInit == Init => BufferInv
<1>1. <<>> \in Seq(Byte) /\ <<>> \in Seq(Codes) /\ Len(<<>>) <= 8
  OBVIOUS
<1> QED
  BY <1>1, NothingIsKept DEF Init, BufferInv

LEMMA Buffer == Spec => []BufferInv
  BY BufferInvInit, BufferInvKept, PTL DEF Spec

(* The types: the buffer holds at most the eight bytes of a 64 bit word,   *)
(* and no code outside the usages is given to processUsbCode.              *)
THEOREM DecoderTypes == Spec => []TypeOK
<1>1. BufferInv => TypeOK
  <2> SUFFICES ASSUME BufferInv
               PROVE  TypeOK
    OBVIOUS
  <2>1. codeBuffer \in Seq(0 .. 255)
    BY DEF BufferInv, Byte
  <2>2. \A i \in DOMAIN reported : reported[i] \in -255 .. 255
    <3>1. \A i \in DOMAIN reported : reported[i] \in Codes
      BY DEF BufferInv
    <3> QED
      BY <3>1 DEF Codes
  <2> QED
    BY <2>1, <2>2 DEF TypeOK, BufferInv
<1> QED
  BY Buffer, <1>1, PTL

(* Between two bytes the buffer holds the proper beginning of a code,      *)
(* whatever the line carried: no shift pushes out a byte still needed.     *)
THEOREM BufferHoldsBeginning == Spec => []BufferIsPrefix
<1>1. BufferInv => BufferIsPrefix
  BY KeptAreShort DEF BufferInv, BufferIsPrefix, Kept
<1> QED
  BY Buffer, <1>1, PTL

----------------------------------------------------------------------------
(* Where the decoder is in the code of the key that is being sent: byte n  *)
(* is the next to come, or has come, or the code is over.                  *)

Sent  == Bytes(key, make)
Waits == WaitsOf(key, make)

ByteNext(n) ==
  /\ pending = SubSeq(Sent, n, Len(Sent))
  /\ ~decoding /\ codeBuffer = Waits[n] /\ reported = <<>>

ByteHere(n) ==
  /\ pending = SubSeq(Sent, n + 1, Len(Sent))
  /\ decoding /\ codeBuffer = Shifted(Waits[n], Sent[n]) /\ reported = <<>>

CodeOver ==
  /\ pending = <<>> /\ codeBuffer = <<>>
  /\ reported = Expected(key, make)

KeyInv ==
  ~disturbed =>
    IF key = NoKey THEN ~decoding /\ codeBuffer = <<>> /\ pending = <<>>
    ELSE /\ key \in Keys /\ make \in BOOLEAN /\ Sent # <<>>
         /\ \/ \E n \in 1 .. Len(Sent) : ByteNext(n)
            \/ \E n \in 1 .. Len(Sent) : ByteHere(n)
            \/ CodeOver

LEMMA SentWalks ==
  ASSUME key \in Keys, make \in BOOLEAN, Sent # <<>>
  PROVE  Walk(Sent, Waits, Signed(key, make)) /\ Signed(key, make) \in Int
<1>1. Usage(key) \in Int
  <2>1. Usage(key) \in Byte
    BY UsageIsByte
  <2> QED
    BY <2>1, BytesAreNumbers
<1>2. Signed(key, make) \in Int
  BY <1>1 DEF Signed
<1> QED
  BY <1>2, EveryKeyWalks DEF Sent, Waits

LEMMA SuffixOfSent ==
  ASSUME NEW s \in Seq(Byte), NEW n \in 1 .. Len(s)
  PROVE  /\ SubSeq(s, n, Len(s)) # <<>>
         /\ Head(SubSeq(s, n, Len(s))) = s[n]
         /\ Tail(SubSeq(s, n, Len(s))) = SubSeq(s, n + 1, Len(s))
<1>1. Len(s) \in n .. Len(s)
  OBVIOUS
<1>2. SubSeq(s, n, Len(s)) # <<>>
  <2>1. Len(SubSeq(s, n, Len(s))) = Len(s) - n + 1
    OBVIOUS
  <2> SUFFICES ASSUME SubSeq(s, n, Len(s)) = <<>>
               PROVE  FALSE
    OBVIOUS
  <2>2. Len(SubSeq(s, n, Len(s))) = 0
    OBVIOUS
  <2> QED
    BY <2>1, <2>2
<1> QED
  BY <1>1, <1>2, HeadTailOfSubSeq

LEMMA SendKeepsKeyInv ==
  ASSUME KeyInv, NEW k \in Keys, NEW press \in BOOLEAN, Send(k, press)
  PROVE  KeyInv'
<1> SUFFICES ASSUME ~disturbed'
             PROVE  KeyInv'
  BY DEF KeyInv
<1>1. /\ pending = <<>> /\ ~decoding /\ ~disturbed
      /\ key' = k /\ make' = press /\ pending' = Bytes(k, press) /\ Bytes(k, press) # <<>>
      /\ reported' = <<>> /\ codeBuffer' = codeBuffer /\ ~decoding'
  BY DEF Send, Idle
<1>2. codeBuffer = <<>>
  <2>1. CASE key = NoKey
    BY <1>1, <2>1 DEF KeyInv
  <2>2. CASE key # NoKey
    <3>1. key \in Keys /\ make \in BOOLEAN /\ Sent # <<>>
      BY <1>1, <2>2 DEF KeyInv
    <3>2. Sent \in Seq(Byte)
      BY <3>1, SentWalks DEF Walk
    <3>3. ASSUME NEW n \in 1 .. Len(Sent), ByteNext(n)
          PROVE  FALSE
      BY <1>1, <3>2, <3>3, SuffixOfSent DEF ByteNext
    <3>4. ASSUME NEW n \in 1 .. Len(Sent), ByteHere(n)
          PROVE  FALSE
      BY <1>1, <3>4 DEF ByteHere
    <3>5. CodeOver
      BY <1>1, <2>2, <3>3, <3>4 DEF KeyInv
    <3> QED
      BY <3>5 DEF CodeOver
  <2> QED
    BY <2>1, <2>2
<1>3. Sent' = Bytes(k, press) /\ Waits' = WaitsOf(k, press)
  BY <1>1 DEF Sent, Waits
<1>4. Walk(Bytes(k, press), WaitsOf(k, press), Signed(k, press))
  BY <1>1, EveryKeyWalks
<1>5. /\ Bytes(k, press) \in Seq(Byte) /\ 1 \in 1 .. Len(Bytes(k, press))
      /\ WaitsOf(k, press)[1] = <<>>
  <2>1. /\ Bytes(k, press) \in Seq(Byte) /\ Len(Bytes(k, press)) \in 1 .. 8
        /\ WaitsOf(k, press)[1] = <<>>
    BY <1>4, Zenon DEF Walk
  <2>2. 1 \in 1 .. Len(Bytes(k, press))
    <3>1. \A m \in 1 .. 8 : 1 \in 1 .. m
      OBVIOUS
    <3> QED
      BY <2>1, <3>1, Zenon
  <2> QED
    BY <2>1, <2>2, Zenon
<1>6. SubSeq(Bytes(k, press), 1, Len(Bytes(k, press))) = Bytes(k, press)
  BY <1>5, SubSeqFull
<1>7. ByteNext(1)' /\ 1 \in 1 .. Len(Sent')
  BY <1>1, <1>2, <1>3, <1>5, <1>6, Zenon DEF ByteNext
<1>8. key' # NoKey
  BY <1>1 DEF Keys, NoKey
<1> QED
  BY <1>1, <1>3, <1>7, <1>8 DEF KeyInv

LEMMA ReceiveKeepsKeyInv == KeyInv /\ ReceiveNext => KeyInv'
<1> SUFFICES ASSUME KeyInv, ReceiveNext, ~disturbed'
             PROVE  KeyInv'
  BY DEF KeyInv
<1>1. /\ pending # <<>> /\ ~decoding /\ ~disturbed
      /\ codeBuffer' = Shifted(codeBuffer, Head(pending)) /\ decoding'
      /\ pending' = Tail(pending)
      /\ key' = key /\ make' = make /\ reported' = reported
  BY DEF ReceiveNext, Receive
<1>2. key # NoKey /\ key \in Keys /\ make \in BOOLEAN /\ Sent # <<>>
  BY <1>1 DEF KeyInv
<1>3. Sent \in Seq(Byte)
  BY <1>2, SentWalks DEF Walk
<1>4. Sent' = Sent /\ Waits' = Waits
  BY <1>1 DEF Sent, Waits
<1>5. PICK n \in 1 .. Len(Sent) : ByteNext(n)
  BY <1>1, <1>2 DEF KeyInv, ByteHere, CodeOver
<1>6. Head(pending) = Sent[n] /\ Tail(pending) = SubSeq(Sent, n + 1, Len(Sent))
  BY <1>3, <1>5, SuffixOfSent DEF ByteNext
<1>7. codeBuffer = Waits[n] /\ reported = <<>>
  BY <1>5 DEF ByteNext
<1>8. ByteHere(n)'
  BY <1>1, <1>4, <1>6, <1>7, Zenon DEF ByteHere
<1> QED
  BY <1>1, <1>2, <1>4, <1>8 DEF KeyInv

LEMMA DecodeKeepsKeyInv == KeyInv /\ Decode => KeyInv'
<1> SUFFICES ASSUME KeyInv, Decode, ~disturbed'
             PROVE  KeyInv'
  BY DEF KeyInv
<1> DEFINE r == ps2Set2ToUsb(codeBuffer)
<1>1. /\ decoding /\ ~disturbed
      /\ codeBuffer' = r.buffer
      /\ decoding' = (r.usb # KEY_NONE)
      /\ reported' = IF r.usb # KEY_NONE /\ Len(reported) < MaxReported
                     THEN Append(reported, r.usb) ELSE reported
      /\ key' = key /\ make' = make /\ pending' = pending
  BY DEF Decode
<1>2. key # NoKey /\ key \in Keys /\ make \in BOOLEAN /\ Sent # <<>>
  BY <1>1 DEF KeyInv
<1>3. Walk(Sent, Waits, Signed(key, make)) /\ Signed(key, make) \in Int
  BY <1>2, SentWalks
<1>4. Sent' = Sent /\ Waits' = Waits
  BY <1>1 DEF Sent, Waits
<1>5. Expected(key, make)' = Expected(key, make)
  BY <1>1 DEF Expected, Signed
<1> HIDE DEF r
<1>6. ASSUME NEW n \in 1 .. Len(Sent), ByteHere(n), n # Len(Sent)
      PROVE  KeyInv'
  <2>1. Len(Sent) \in Nat
    BY <1>3 DEF Walk
  <2>2. n \in 1 .. Len(Sent) - 1 /\ n + 1 \in 1 .. Len(Sent)
    BY <1>6, <2>1
  <2>3. r = Result(KEY_NONE, Waits[n + 1])
    BY <1>3, <1>6, <2>2 DEF r, Walk, ByteHere
  <2>4. r.usb = KEY_NONE /\ r.buffer = Waits[n + 1]
    BY <2>3 DEF Result
  <2>5. pending = SubSeq(Sent, n + 1, Len(Sent)) /\ reported = <<>>
    BY <1>6 DEF ByteHere
  <2>6. ByteNext(n + 1)'
    BY <1>1, <1>4, <2>4, <2>5, Zenon DEF ByteNext
  <2> QED
    BY <1>1, <1>2, <1>4, <2>2, <2>6 DEF KeyInv
<1>7. ASSUME ByteHere(Len(Sent))
      PROVE  KeyInv'
  <2>1. Len(Sent) \in Nat /\ Sent \in Seq(Byte)
    BY <1>3 DEF Walk
  <2>2. r = Result(Signed(key, make), <<>>)
    BY <1>3, <1>7 DEF r, Walk, ByteHere
  <2>3. r.usb = Signed(key, make) /\ r.buffer = <<>>
    BY <2>2 DEF Result
  <2>4. pending = SubSeq(Sent, Len(Sent) + 1, Len(Sent)) /\ reported = <<>>
    BY <1>7 DEF ByteHere
  <2>5. pending = <<>>
    BY <2>1, <2>4, SubSeqEmpty
  <2>6. Usage(key) \in Int /\ (Signed(key, make) = 0 <=> Usage(key) = 0)
    <3>1. Usage(key) \in Int
      <4>1. Usage(key) \in Byte
        BY <1>2, UsageIsByte
      <4> QED
        BY <4>1, BytesAreNumbers
    <3> QED
      BY <3>1 DEF Signed
  <2>7. reported' = Expected(key, make)
    <3>1. CASE Usage(key) = 0
      BY <1>1, <2>3, <2>4, <2>6, <3>1 DEF Expected, KEY_NONE
    <3>2. CASE Usage(key) # 0
      <4>1. Len(<<>>) < MaxReported
        BY DEF MaxReported
      <4>2. reported' = Append(<<>>, Signed(key, make))
        BY <1>1, <2>3, <2>4, <2>6, <3>2, <4>1 DEF KEY_NONE
      <4>3. Append(<<>>, Signed(key, make)) = <<Signed(key, make)>>
        <5> DEFINE u == Signed(key, make)
        <5>1. <<u>> \in Seq({u}) /\ <<>> \in Seq({u}) /\ Len(<<u>>) = 1 /\ <<u>>[1] = u
          OBVIOUS
        <5> HIDE DEF u
        <5>2. Append(<<>>, u) = <<u>>
          BY <5>1
        <5> QED
          BY <5>2 DEF u
      <4> QED
        BY <3>2, <4>2, <4>3 DEF Expected, KEY_NONE
    <3> QED
      BY <3>1, <3>2
  <2>8. CodeOver'
    BY <1>1, <1>5, <2>3, <2>5, <2>7, Zenon DEF CodeOver
  <2> QED
    BY <1>1, <1>2, <1>4, <2>8 DEF KeyInv
<1>8. ASSUME CodeOver
      PROVE  KeyInv'
  <2>1. r = Result(KEY_NONE, <<>>)
    BY <1>8, KeptStays, NothingIsKept DEF CodeOver, r
  <2>2. r.usb = KEY_NONE /\ r.buffer = <<>>
    BY <2>1 DEF Result
  <2>3. CodeOver'
    BY <1>1, <1>5, <1>8, <2>2, Zenon DEF CodeOver
  <2> QED
    BY <1>1, <1>2, <1>4, <2>3 DEF KeyInv
<1>9. ~\E n \in 1 .. Len(Sent) : ByteNext(n)
  BY <1>1 DEF ByteNext
<1> QED
  BY <1>1, <1>2, <1>6, <1>7, <1>8, <1>9 DEF KeyInv

LEMMA KeyInvKept == KeyInv /\ [Next]_vars => KeyInv'
<1> SUFFICES ASSUME KeyInv, [Next]_vars
             PROVE  KeyInv'
  OBVIOUS
<1>1. ASSUME NEW b \in Noise, ReceiveNoise(b)
      PROVE  KeyInv'
  BY <1>1 DEF ReceiveNoise, KeyInv
<1>2. CASE UNCHANGED vars
  BY <1>2 DEF vars, KeyInv, ByteNext, ByteHere, CodeOver, Sent, Waits, Expected, Signed
<1> QED
  BY <1>1, <1>2, SendKeepsKeyInv, ReceiveKeepsKeyInv, DecodeKeepsKeyInv DEF Next

(***************************************************************************)
(* On an undisturbed line every key press is reported as its usage once,   *)
(* each release as the negative of it once, and nothing is left in the     *)
(* buffer, whatever keys were pressed before and in whatever order.        *)
(***************************************************************************)
THEOREM KeysReportedOnce == Spec => []EveryKeyReportedOnce
<1>1. Init => KeyInv
  BY DEF Init, KeyInv
<1>2. KeyInv => EveryKeyReportedOnce
  <2> SUFFICES ASSUME KeyInv, pending = <<>>, ~decoding, ~disturbed, key # NoKey
               PROVE  codeBuffer = <<>> /\ reported = Expected(key, make)
    BY DEF EveryKeyReportedOnce, Idle, Expected, Signed
  <2>1. key \in Keys /\ make \in BOOLEAN /\ Sent # <<>>
    BY DEF KeyInv
  <2>2. Sent \in Seq(Byte)
    BY <2>1, SentWalks DEF Walk
  <2>3. ASSUME NEW n \in 1 .. Len(Sent), ByteNext(n)
        PROVE  FALSE
    BY <2>2, <2>3, SuffixOfSent DEF ByteNext
  <2>4. CodeOver
    BY <2>3 DEF KeyInv, ByteHere
  <2> QED
    BY <2>4 DEF CodeOver
<1> QED
  BY <1>1, <1>2, KeyInvKept, PTL DEF Spec
=============================================================================
