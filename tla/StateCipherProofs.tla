-------------------------- MODULE StateCipherProofs --------------------------
(***************************************************************************)
(* Padding is undone exactly, whatever the text; hence what is read under  *)
(* the key it was written with is what was written, no two texts are       *)
(* stored alike, and only text stored in the clear can make the bridge     *)
(* panic, which the shortest must.                                         *)
(***************************************************************************)
EXTENDS StateCipher, SequenceTheorems, FiniteSetTheorems, TLAPS

\* A padded text has the length of the text and of the padding.
LEMMA PaddedText ==
  ASSUME NEW text \in Seq(Byte)
  PROVE  /\ PaddingSize(text) \in 1..BlockSize
         /\ pad(text) \in Seq(Byte)
         /\ Len(pad(text)) = Len(text) + PaddingSize(text)
         /\ \A i \in 1..Len(text) : pad(text)[i] = text[i]
         /\ pad(text)[Len(pad(text))] = PaddingSize(text)
<1> DEFINE n == PaddingSize(text)
           padding == [i \in 1..n |-> n]
<1>1. Len(text) \in Nat
  OBVIOUS
<1>2. Len(text) % 16 \in 0..15
  BY <1>1, SMT
<1>3. n \in 1..BlockSize
  <2>1. PICK m \in 0..15 : Len(text) % 16 = m
    BY <1>2
  <2>2. n = 16 - m
    BY <2>1 DEF PaddingSize, BlockSize
  <2> HIDE DEF n
  <2> QED
    BY <2>2, SMT DEF BlockSize
<1>4. pad(text) = text \o padding
  BY DEF pad
<1> HIDE DEF n
<1>5. n \in Byte /\ n \in Nat
  BY <1>3, SMT DEF Byte, BlockSize
<1>6. padding \in Seq(Byte) /\ Len(padding) = n
  BY <1>5, SMT
<1>7. n # 0 => padding[n] = n
  BY <1>5, SMT
<1> HIDE DEF padding
<1>8. pad(text) \in Seq(Byte) /\ Len(pad(text)) = Len(text) + n
  <2>1. text \o padding \in Seq(Byte)
    BY <1>6
  <2>2. Len(text \o padding) = Len(text) + Len(padding)
    BY <1>6
  <2> QED
    BY <2>1, <2>2, <1>4, <1>6
<1>9. \A i \in 1..Len(text) : pad(text)[i] = text[i]
  BY <1>1, <1>4, <1>5, <1>6, ConcatProperties, SMT
<1>10. pad(text)[Len(pad(text))] = n
  <2>1. Len(pad(text)) \in 1..(Len(text) + Len(padding))
    BY <1>1, <1>3, <1>5, <1>6, <1>8, SMT DEF BlockSize
  <2>2. Len(pad(text)) > Len(text) /\ Len(pad(text)) - Len(text) = n
    BY <1>1, <1>3, <1>5, <1>8, SMT DEF BlockSize
  <2>3. pad(text)[Len(pad(text))] = padding[Len(pad(text)) - Len(text)]
    BY <2>1, <2>2, <1>1, <1>4, <1>5, <1>6, <1>8, ConcatProperties, SMT
  <2> QED
    BY <2>2, <2>3, <1>3, <1>7, SMT DEF BlockSize
<1> QED
  BY <1>3, <1>8, <1>9, <1>10 DEF n

\* pad makes a whole number of blocks, and at least one.
THEOREM PaddedToBlocks ==
  ASSUME NEW text \in Seq(Byte)
  PROVE  Len(pad(text)) % BlockSize = 0 /\ Len(pad(text)) >= BlockSize
<1>1. Len(text) \in Nat
  OBVIOUS
<1>2. Len(pad(text)) = Len(text) + (16 - (Len(text) % 16))
  BY PaddedText DEF PaddingSize, BlockSize
<1> QED
  BY <1>1, <1>2, SMT DEF BlockSize

\* unpad takes off what pad put on (cipher.go:76-92).
THEOREM UnpadPad ==
  ASSUME NEW text \in Seq(Byte)
  PROVE  unpad(pad(text)) = Text(text)
<1> DEFINE p == pad(text)
           n == PaddingSize(text)
<1>1. /\ n \in 1..BlockSize /\ p \in Seq(Byte) /\ Len(p) = Len(text) + n
      /\ \A i \in 1..Len(text) : p[i] = text[i]
      /\ p[Len(p)] = n
  BY PaddedText
<1> HIDE DEF p, n
<1>2. Len(text) \in Nat
  OBVIOUS
<1>3. p # <<>>
  BY <1>1, <1>2, SMT DEF BlockSize
<1>4. ~(p[Len(p)] > Len(p))
  BY <1>1, <1>2, SMT DEF BlockSize
<1>5. SubSeq(p, 1, Len(p) - p[Len(p)]) = text
  <2>1. Len(p) - p[Len(p)] = Len(text)
    BY <1>1, <1>2, SMT DEF BlockSize
  <2>2. SubSeq(p, 1, Len(text)) = text
    BY <1>1, <1>2, SMT DEF BlockSize
  <2> QED
    BY <2>1, <2>2
<1> QED
  BY <1>3, <1>4, <1>5 DEF unpad, p

\* No two texts are stored alike under one key (Encrypt and pad,
\* cipher.go:37-55, 76-81).
THEOREM EncryptInjective ==
  ASSUME NEW k \in Keys \cup {NoKey}, NEW s \in Texts, NEW t \in Texts,
         Encrypt(k, s) = Encrypt(k, t)
  PROVE  s = t
<1>1. s \in Seq(Byte) /\ t \in Seq(Byte)
  BY TextsAssumption
<1>2. CASE k = NoKey
  BY <1>2 DEF Encrypt
<1>3. CASE k # NoKey
  <2>1. pad(s) = pad(t)
    BY <1>3 DEF Encrypt
  <2>2. Text(s) = Text(t)
    BY <1>1, <2>1, UnpadPad
  <2> QED
    BY <2>2 DEF Text
<1> QED
  BY <1>2, <1>3

\* A text stored in the clear that decodes to less than a block, as null does,
\* leaves a bridge that has been given a key no other outcome than a panic
\* (cipher.go:60): it dies each time it reads the object.
THEOREM ShortClearTextPanics ==
  ASSUME NEW k \in Keys, NEW text \in Base64Texts,
         DecodedLength(text) < BlockSize
  PROVE  Decrypted(k, Encrypt(NoKey, text)) = {Panic}
<1>1. k # NoKey
  BY KeysAssumption
<1>2. Encrypt(NoKey, text) = [key |-> NoKey, bytes |-> text]
  BY DEF Encrypt
<1>3. Decrypted(k, Encrypt(NoKey, text)) = DecryptForeign(DecodedLength(text))
  BY <1>1, <1>2 DEF Decrypted
<1> QED
  BY <1>3 DEF DecryptForeign

\* An outcome is one of three kinds, and a panic only for no bytes at all.
LEMMA UnpadKinds ==
  ASSUME NEW text
  PROVE  /\ unpad(text).kind \in {"text", "error", "panic"}
         /\ unpad(text) = Panic => text = <<>>
BY DEF unpad, Text, Failed, Panic

\* Reading bytes another key, or none, has produced: a panic means that there
\* was nothing behind the IV.
LEMMA ForeignKinds ==
  ASSUME NEW n \in Nat, NEW o \in DecryptForeign(n)
  PROVE  /\ o.kind \in {"text", "error", "panic"}
         /\ o = Panic => n <= BlockSize
<1>1. CASE n < BlockSize
  BY <1>1, SMT DEF DecryptForeign, Panic, BlockSize
<1>2. CASE ~(n < BlockSize)
  <2>1. PICK b \in Arbitrary(n - BlockSize) : o = unpad(b)
    BY <1>2, Zenon DEF DecryptForeign
  <2>2. PICK last \in Byte :
          b = [i \in 1..(n - BlockSize) |-> IF i = n - BlockSize THEN last ELSE 0]
    BY <2>1, Zenon DEF Arbitrary
  <2>3. b = <<>> => n <= BlockSize
    <3>1. n - BlockSize \in Nat /\ DOMAIN b = 1..(n - BlockSize)
      BY <1>2, <2>2, SMT DEF BlockSize
    <3>2. b = <<>> => 1..(n - BlockSize) = {}
      BY <3>1, SMT
    <3> QED
      BY <3>1, <3>2, SMT DEF BlockSize
  <2> QED
    BY <2>1, <2>3, UnpadKinds
<1> QED
  BY <1>1, <1>2

LEMMA DecodedCounts ==
  ASSUME NEW text \in Seq(Byte)
  PROVE  DecodedLength(text) \in Nat
<1>1. DOMAIN text = 1..Len(text) /\ Len(text) \in Nat
  OBVIOUS
<1>2. IsFiniteSet(1..Len(text))
  BY <1>1, FS_Interval
<1>3. IsFiniteSet({i \in DOMAIN text : text[i] \notin Uncounted})
  BY <1>1, <1>2, FS_Subset
<1>4. Characters(text) \in Nat
  BY <1>3, FS_CardinalityType DEF Characters
<1>5. QED
  BY <1>4, SMT DEF DecodedLength

\* What the reader can find, whatever the key it reads under.
LEMMA DecryptedStored ==
  ASSUME NEW k \in Keys \cup {NoKey}, NEW j \in Keys \cup {NoKey},
         NEW text \in Texts, NEW o \in Decrypted(k, Encrypt(j, text))
  PROVE  /\ o.kind \in {"text", "error", "panic"}
         /\ k = j => o = Text(text)
         /\ o = Panic => /\ j = NoKey /\ text \in Base64Texts
                         /\ DecodedLength(text) <= BlockSize
<1> DEFINE s == Encrypt(j, text)
<1>1. text \in Seq(Byte) /\ Len(text) \in Nat
  BY TextsAssumption
<1>2. s.key = j /\ s.bytes = IF j = NoKey THEN text ELSE pad(text)
  BY DEF Encrypt
<1> HIDE DEF s
<1>3. CASE k = j /\ k # NoKey
  <2>1. o = unpad(pad(text))
    BY <1>2, <1>3 DEF Decrypted, s
  <2> QED
    BY <2>1, <1>1, <1>3, UnpadPad DEF Text, Panic
<1>4. CASE k = j /\ k = NoKey
  <2>1. o = Text(text)
    BY <1>2, <1>4 DEF Decrypted, s
  <2> QED
    BY <2>1, <1>4 DEF Text, Panic
<1>5. CASE k = NoKey /\ j # NoKey
  <2>1. o = Failed
    BY <1>2, <1>5 DEF Decrypted, s
  <2> QED
    BY <2>1, <1>5 DEF Failed, Panic
<1>6. CASE k # NoKey /\ j = NoKey
  <2>1. CASE text \in Base64Texts
    <3>1. o \in DecryptForeign(DecodedLength(text))
      BY <1>2, <1>6, <2>1 DEF Decrypted, s
    <3>2. DecodedLength(text) \in Nat
      BY <1>1, DecodedCounts
    <3> QED
      BY <3>1, <3>2, <1>6, <2>1, ForeignKinds
  <2>2. CASE text \notin Base64Texts
    <3>1. o = Failed
      BY <1>2, <1>6, <2>2 DEF Decrypted, s
    <3> QED
      BY <3>1, <1>6 DEF Failed, Panic
  <2> QED
    BY <2>1, <2>2
<1>7. CASE k # NoKey /\ j # NoKey /\ k # j
  <2>1. o \in DecryptForeign(BlockSize + Len(pad(text)))
    BY <1>2, <1>7 DEF Decrypted, s
  <2>2. Len(pad(text)) \in Nat /\ Len(pad(text)) >= BlockSize
    BY <1>1, PaddedText, PaddedToBlocks
  <2>3. BlockSize + Len(pad(text)) \in Nat /\ ~(BlockSize + Len(pad(text)) <= BlockSize)
    BY <2>2, SMT DEF BlockSize
  <2> QED
    BY <2>1, <2>3, <1>7, ForeignKinds
<1> QED
  BY <1>3, <1>4, <1>5, <1>6, <1>7

\* The three properties of the stored strings hold together.
IInv == TypeOK /\ ReadBack /\ PanicOnlyOnClearText

LEMMA IInvInit == Init => IInv
BY DEF Init, IInv, TypeOK, ReadBack, PanicOnlyOnClearText, Nothing, Panic

LEMMA IInvStep == IInv /\ [Next]_vars => IInv'
<1> SUFFICES ASSUME IInv, [Next]_vars
             PROVE  IInv'
  OBVIOUS
<1> USE DEF IInv
<1>1. CASE Write
  BY <1>1 DEF Write, TypeOK, ReadBack, PanicOnlyOnClearText, Nothing, Panic
<1>2. CASE Read
  <2>1. PICK j \in Keys \cup {NoKey} : stored = Encrypt(j, written)
    BY DEF TypeOK
  <2>2. stored.key = j
    BY <2>1 DEF Encrypt
  <2>3. /\ outcome' \in Decrypted(key, Encrypt(j, written))
        /\ key' = key /\ stored' = stored /\ written' = written
    BY <1>2, <2>1 DEF Read
  <2>4. /\ outcome'.kind \in {"text", "error", "panic"}
        /\ key = j => outcome' = Text(written)
        /\ outcome' = Panic => /\ j = NoKey /\ written \in Base64Texts
                               /\ DecodedLength(written) <= BlockSize
    BY <2>3, DecryptedStored DEF TypeOK
  <2>5. TypeOK'
    BY <2>3, <2>4 DEF TypeOK
  <2>6. ReadBack'
    BY <2>2, <2>3, <2>4 DEF ReadBack
  <2>7. PanicOnlyOnClearText'
    BY <2>2, <2>3, <2>4 DEF PanicOnlyOnClearText
  <2> QED
    BY <2>5, <2>6, <2>7
<1>3. CASE Restart
  BY <1>3 DEF Restart, TypeOK, ReadBack, PanicOnlyOnClearText, Nothing, Panic
<1>4. CASE UNCHANGED vars
  BY <1>4 DEF vars, TypeOK, ReadBack, PanicOnlyOnClearText
<1> QED
  BY <1>1, <1>2, <1>3, <1>4 DEF Next

\* What is stored is always what pad made of the text (cipher.go:76), or the text
\* itself, and a read ends in a text, an error or a panic.
THEOREM CipherTypes == Spec => []TypeOK
<1>1. IInv => TypeOK
  BY DEF IInv
<1> QED
  BY <1>1, IInvInit, IInvStep, PTL DEF Spec

\* Whatever keys the bridge is restarted with, what is read under the key it
\* was written with is what was written (cipher.go:38-92).
THEOREM ReadBackHolds == Spec => []ReadBack
<1>1. IInv => ReadBack
  BY DEF IInv
<1> QED
  BY <1>1, IInvInit, IInvStep, PTL DEF Spec

\* No string that has been encrypted makes the bridge panic, under any key.
THEOREM PanicOnlyOnClearTextHolds == Spec => []PanicOnlyOnClearText
<1>1. IInv => PanicOnlyOnClearText
  BY DEF IInv
<1> QED
  BY <1>1, IInvInit, IInvStep, PTL DEF Spec

=============================================================================
