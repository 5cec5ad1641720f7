---------------------------- MODULE ScaleEncoder ----------------------------
(***************************************************************************)
(* Compact integers as a vault's numbers are hashed: scaleEncodeUint64 of  *)
(* app/src/crypto_helper.c and the four encodings it chooses from.  (The   *)
(* reader of such integers, in another file, is module Scale.)             *)
(*                                                                         *)
(* A number of 64 bits is its eight bytes, the least significant first, as *)
(* TLC's integers have 32 bits.                                            *)
(***************************************************************************)
EXTENDS Naturals, Sequences

Byte == 0 .. 255

UInt64 == [1 .. 8 -> Byte]

\* The low bytes of v << 2 | mode.
Shifted(v, mode, count) ==
    [k \in 1 .. count |->
        ((4 * v[k]) % 256) + (IF k = 1 THEN mode ELSE v[k - 1] \div 64)]

\* Mutant: the two bits that tell the encodings apart are left out.
scaleEncodeUint16WithoutMode(v) == Shifted(v, 0, 2)

scaleEncodeUint8(v) == Shifted(v, 0, 1)

scaleEncodeUint16(v) == Shifted(v, 1, 2)

scaleEncodeUint32(v) == Shifted(v, 2, 4)

\* The position of the last byte that is not zero (from clzll).
Needed(v) == CHOOSE n \in 1 .. 8 : v[n] # 0 /\ \A k \in n + 1 .. 8 : v[k] = 0

\* Mutant: the length in the first byte is one short.
scaleEncodeBigUintOffByOne(v) == <<4 * (Needed(v) - 5) + 3>> \o SubSeq(v, 1, Needed(v))

scaleEncodeBigUint(v) == <<4 * (Needed(v) - 4) + 3>> \o SubSeq(v, 1, Needed(v))

\* v <= MAX_UINT6, MAX_UINT14, MAX_UINT30: two bits less than one, two, four bytes.
LeavesTwoBits(v, bytes) == v[bytes] < 64 /\ \A k \in bytes + 1 .. 8 : v[k] = 0

\* Mutant: a number of 31 or 32 bits is put in four bytes.
scaleEncodeUint64Cut(v) ==
    IF LeavesTwoBits(v, 1) THEN scaleEncodeUint8(v)
    ELSE IF LeavesTwoBits(v, 2) THEN scaleEncodeUint16(v)
    ELSE IF \A k \in 5 .. 8 : v[k] = 0 THEN scaleEncodeUint32(v)
    ELSE scaleEncodeBigUint(v)

scaleEncodeUint64(v) ==
    IF LeavesTwoBits(v, 1) THEN scaleEncodeUint8(v)
    ELSE IF LeavesTwoBits(v, 2) THEN scaleEncodeUint16(v)
    ELSE IF LeavesTwoBits(v, 4) THEN scaleEncodeUint32(v)
    ELSE scaleEncodeBigUint(v)
=============================================================================
