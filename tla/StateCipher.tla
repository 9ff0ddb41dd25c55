----------------------------- MODULE StateCipher -----------------------------
(***************************************************************************)
(* Strings at rest: Terraform states and sensitive outputs are padded to   *)
(* the block size of AES, encrypted in CFB mode under a random IV and      *)
(* encoded in base64 if the bridge has an encryption key, and stored as    *)
(* they are if it has none.  The key may change with every restart.        *)
(*                                                                         *)
(* A stored string is the bytes that went into the cipher together with    *)
(* the key; reading it under the same key gives them back, under another   *)
(* key as many arbitrary bytes.  A string stored in the clear is read      *)
(* under a key as the bytes its base64 stands for, if it is base64 at all. *)
(***************************************************************************)
EXTENDS Integers, Sequences, FiniteSets

CONSTANTS
  Texts,        \* the strings the bridge stores
  Base64Texts,  \* those that happen to be valid base64, such as null
  Keys,         \* encryption keys of a length AES accepts
  NoKey         \* the environment variable is not set

BlockSize == 16

Byte == 0..255

ASSUME TextsAssumption ==
  /\ Texts \subseteq Seq(Byte)
  /\ Base64Texts \subseteq Texts
ASSUME KeysAssumption == NoKey \notin Keys

VARIABLES
  key,      \* the key of the running process
  stored,   \* what is stored: the key it went through and the bytes
  written,  \* history: the text that was given to be stored
  outcome   \* of reading it, since the last write or restart

vars == <<key, stored, written, outcome>>

-----------------------------------------------------------------------------
(* Padding: the last byte says how many bytes to take off.                 *)

PaddingSize(text) == BlockSize - (Len(text) % BlockSize)

\* Mutant: a text that fills its blocks is left as it is.
PadPartialBlock(text) ==
  IF Len(text) % BlockSize = 0 THEN text
  ELSE text \o [i \in 1..PaddingSize(text) |-> PaddingSize(text)]

pad(text) == text \o [i \in 1..PaddingSize(text) |-> PaddingSize(text)]

Text(t) == [kind |-> "text", text |-> t]
Failed  == [kind |-> "error", text |-> <<>>]
Panic   == [kind |-> "panic", text |-> <<>>]

\* Mutant: a whole block is taken for an error.
UnpadStrict(text) ==
  IF text = <<>> THEN Panic
  ELSE LET paddingSize == text[Len(text)]
       IN IF paddingSize >= BlockSize THEN Failed
          ELSE Text(SubSeq(text, 1, Len(text) - paddingSize))

\* The last byte of nothing is out of range.  A size of zero, or one above the
\* block size, is not looked at.
unpad(text) ==
  IF text = <<>> THEN Panic
  ELSE LET paddingSize == text[Len(text)]
       IN IF paddingSize > Len(text) THEN Failed
          ELSE Text(SubSeq(text, 1, Len(text) - paddingSize))

-----------------------------------------------------------------------------
(* The cipher.                                                             *)

\* n bytes of which only the last matters.
Arbitrary(n) == {[i \in 1..n |-> IF i = n THEN last ELSE 0] : last \in Byte}

\* encryptAndEncodeString: the bytes behind the IV, and the key.
Encrypt(k, text) ==
  [key |-> k, bytes |-> IF k = NoKey THEN text ELSE pad(text)]

\* What base64 does not count: line breaks, and = at the end.
Uncounted == {10, 13, 61}

Characters(s) == Cardinality({i \in DOMAIN s : s[i] \notin Uncounted})

\* How many bytes the base64 text s stands for: four characters are three, and
\* the two or three before = are one or two.
DecodedLength(s) == (3 * Characters(s)) \div 4

\* Decrypt of n bytes that this key did not encrypt: the first block is cut off
\* as the IV, which is out of range if there is none.
DecryptForeign(n) ==
  IF n < BlockSize THEN {Panic} ELSE {unpad(b) : b \in Arbitrary(n - BlockSize)}

\* decodeAndDecryptString, under key k.  An encrypted string read without a key
\* is taken for the text; base64 is not JSON, so its reader gives up.
Decrypted(k, s) ==
  CASE k = s.key /\ k # NoKey -> {unpad(s.bytes)}
    [] k = s.key /\ k = NoKey -> {Text(s.bytes)}
    [] k = NoKey /\ s.key # NoKey -> {Failed}
    [] k # NoKey /\ s.key = NoKey ->
         IF s.bytes \in Base64Texts THEN DecryptForeign(DecodedLength(s.bytes))
                                    ELSE {Failed}
    [] OTHER -> DecryptForeign(BlockSize + Len(s.bytes))

-----------------------------------------------------------------------------
Nothing == [kind |-> "nothing", text |-> <<>>]

Init ==
  /\ key \in Keys \cup {NoKey}
  /\ written \in Texts
  /\ stored = Encrypt(key, written)
  /\ outcome = Nothing

\* Mutant: the padding is lost on the way.
WriteUnpadded ==
  /\ written' \in Texts
  /\ stored' = [key |-> key, bytes |-> written']
  /\ outcome' = Nothing
  /\ UNCHANGED key

Write ==
  /\ written' \in Texts
  /\ stored' = Encrypt(key, written')
  /\ outcome' = Nothing
  /\ UNCHANGED key

Read ==
  /\ outcome' \in Decrypted(key, stored)
  /\ UNCHANGED <<key, stored, written>>

\* The bridge is started again, perhaps with another key.
Restart ==
  /\ key' \in Keys \cup {NoKey}
  /\ outcome' = Nothing
  /\ UNCHANGED <<stored, written>>

Next == Write \/ Read \/ Restart

Spec == Init /\ [][Next]_vars

-----------------------------------------------------------------------------
(* Properties.                                                             *)

\* What is stored is what pad made of the text, or the text itself
\* (encryptAndEncodeString, reconcile.go:692).
TypeOK ==
  /\ key \in Keys \cup {NoKey}
  /\ written \in Texts
  /\ \E k \in Keys \cup {NoKey} : stored = Encrypt(k, written)
  /\ outcome.kind \in {"nothing", "text", "error", "panic"}

\* Whatever the text, also if it is empty, fills its blocks exactly or ends in
\* bytes that look like padding: read under the key it was written with, it
\* comes back as it was (cipher.go:38-92).
ReadBack ==
  outcome # Nothing /\ stored.key = key => outcome = Text(written)

\* What has been encrypted can be read under any key without a panic: the slices
\* of Decrypt and unpad (cipher.go:60, 87) are out of range only for a text
\* stored in the clear that decodes as base64 to a block or less.
PanicOnlyOnClearText ==
  outcome = Panic =>
    /\ stored.key = NoKey
    /\ written \in Base64Texts
    /\ DecodedLength(written) <= BlockSize

=============================================================================
