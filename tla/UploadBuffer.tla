---------------------------- MODULE UploadBuffer ----------------------------
(***************************************************************************)
(* What the rest of the application relies on when it stores an upload: a  *)
(* bounded byte sequence that is either emptied, extended by a whole chunk *)
(* or, when the chunk does not fit, left as it was.  ApduSession stores    *)
(* its uploads in it, AnsweredBuffer is its specification.                 *)
(***************************************************************************)
EXTENDS Naturals, Sequences

CONSTANTS
    Byte,       \* The byte values that are told apart.
    Chunk,      \* The chunks a command may carry.
    Capacity    \* FLASH_BUFFER_SIZE, the longest upload that can be kept.

VARIABLE content

Fits(chunk) == Len(content) + Len(chunk) <= Capacity

Reset == content' = <<>>

Store(chunk) == Fits(chunk) /\ content' = content \o chunk

Refuse(chunk) == ~Fits(chunk) /\ UNCHANGED content
=============================================================================
