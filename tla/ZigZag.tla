------------------------------- MODULE ZigZag -------------------------------
(***************************************************************************)
(* zigzag.go: a signed word as one to MaxBytes bytes of GroupBits payload  *)
(* bits each, least significant group first.  A continuation bit marks     *)
(* every byte but the last, except that the last of MaxBytes bytes has no  *)
(* such bit and carries one payload bit more ("LEB128-64b9B").  The        *)
(* unrolled branches of the code are one definition over the byte number.  *)
(*                                                                         *)
(* In the code GroupBits = 7 and MaxBytes = 9, which makes a byte 8 bits   *)
(* and the word 64.                                                        *)
(***************************************************************************)
EXTENDS Integers, Sequences

CONSTANTS GroupBits, MaxBytes

ASSUME ZigZagAssumption == GroupBits \in Nat \ {0} /\ MaxBytes \in Nat \ {0, 1}

\* The continuation bit, the bytes, and the signed words.
More == 2^GroupBits
Byte == 0..(2 * More - 1)
SignedMax == 2^(GroupBits * MaxBytes) - 1
Signed == -(SignedMax + 1)..SignedMax

\* (signedValue << 1) ^ (signedValue >> 63), as an unsigned word.
Zig(v) == IF v >= 0 THEN 2 * v ELSE -2 * v - 1

\* int64((value >> 1) ^ -(value & 1)).
Zag(u) == IF u % 2 = 0 THEN u \div 2 ELSE -(u \div 2) - 1

\* value >> (GroupBits * n).
Shifted(u, n) == u \div 2^(GroupBits * n)

\* The nesting depth at which the encoder finds nothing left to shift.
EncodedLength(u) ==
  CHOOSE n \in 1..MaxBytes :
    /\ n = MaxBytes \/ Shifted(u, n) = 0
    /\ \A k \in 1..(n - 1) : Shifted(u, k) # 0

\* zig_zag_encode_i64.
EncodeI64(v) ==
  LET u == Zig(v)
      n == EncodedLength(u)
  IN  [i \in 1..n |-> IF i < n THEN (Shifted(u, i - 1) % More) + More ELSE Shifted(u, i - 1) % (2 * More)]

\* Mutant of LastByte: the ninth byte continues like the others.
LastByte_Continues(buf, i) == buf[i] < More

\* The decoder stops at byte i.
LastByte(buf, i) == i = MaxBytes \/ buf[i] < More

\* The bytes read up to the last one, or up to the end of a buffer that ends before.
BytesRead(buf) ==
  LET stops == {i \in 1..Len(buf) : i <= MaxBytes /\ LastByte(buf, i)}
  IN  IF stops = {} THEN Len(buf) ELSE CHOOSE i \in stops : \A j \in stops : i <= j

\* The buffer ends before the number does.
Truncated(buf) ==
  buf # <<>> /\ BytesRead(buf) = Len(buf) /\ ~LastByte(buf, Len(buf))

\* The groups of the first n bytes; only the last of MaxBytes bytes is not masked.
GroupsOf(buf, n) ==
  LET sum[i \in 0..n] ==
        IF i = 0 THEN 0
        ELSE sum[i - 1] + (IF i < MaxBytes THEN buf[i] % More ELSE buf[i]) * 2^(GroupBits * (i - 1))
  IN  sum[n]

\* zig_zag_decode_i64: an empty buffer decodes to zero without consuming anything.
DecodeI64(buf) ==
  [value |-> IF Truncated(buf) THEN 0 ELSE Zag(GroupsOf(buf, BytesRead(buf))),
   n |-> BytesRead(buf), err |-> Truncated(buf)]
=============================================================================
