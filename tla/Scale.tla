------------------------------- MODULE Scale -------------------------------
(***************************************************************************)
(* Compact integers: readCompactInt and _getValue of parser_impl_common.c. *)
(* The two low bits of the first byte choose an encoding of one, two, four *)
(* or more bytes; _getValue refuses some values that a shorter encoding    *)
(* holds, and every value above a limit.                                   *)
(*                                                                         *)
(* The limit is a parameter, 2^62 - 1 in the code: TLC's integers have 32  *)
(* bits, so a run scales it down.                                          *)
(***************************************************************************)
EXTENDS Integers, Sequences

CONSTANT MaxCompact

ASSUME CompactAssumption == MaxCompact \in Nat

UINT8_MAX == 255

\* No value: parser_value_out_of_range.
OutOfRange == -1

\* The bytes of the encoding that starts with this byte.
compactLen(first) ==
    CASE first % 4 = 0 -> 1
      [] first % 4 = 1 -> 2
      [] first % 4 = 2 -> 4
      [] first % 4 = 3 -> (first \div 4) + 4 + 1

AtLeast(minimum, value) == IF value < minimum THEN OutOfRange ELSE value

\* The little-endian number of the bytes from one to another position.
LittleEndian(bytes, from, to) ==
    LET v[k \in from .. to + 1] == IF k > to THEN 0 ELSE bytes[k] + 256 * v[k + 1]
    IN  v[from]

\* The least value of the four-byte encoding (16383 also fits in two bytes).
MinFourByte == 16383

bigValue(bytes) ==
    LET byte_length == (bytes[1] \div 4) + 4 IN
    IF byte_length > 8 THEN OutOfRange
    ELSE LET value == LittleEndian(bytes, 2, byte_length + 1) IN
         IF value > MaxCompact THEN OutOfRange ELSE value

getValue(bytes) ==
    CASE Len(bytes) = 1 -> bytes[1] \div 4
      [] Len(bytes) = 2 -> AtLeast(64, LittleEndian(bytes, 1, 2) \div 4)
      [] Len(bytes) = 4 ->
            AtLeast(MinFourByte, bytes[1] \div 4 + LittleEndian(bytes, 2, 4) * 64)
      [] OTHER -> bigValue(bytes)
=============================================================================
