------------------------------ MODULE Zxblake3 ------------------------------
(***************************************************************************)
(* The hash wrapper, app/src/zxblake3.c: one static hasher for the whole   *)
(* application and a count of the bytes fed to it.  The state of BLAKE3 is *)
(* what was absorbed since the hasher was set up; a hash is that stream    *)
(* itself (no two streams collide).                                        *)
(*                                                                         *)
(* An input is a sequence of opaque pieces with its length in bytes beside *)
(* it.                                                                     *)
(***************************************************************************)
EXTENDS Naturals, Sequences

CONSTANT MAX_INPUT_LEN      \* 4095 in the code.

VARIABLES
    zxblake3,       \* What the hasher has absorbed.
    accumInLen      \* How many bytes that is.

\* Mutants: the hasher, or the count, is not reset.
hash_init_keeping_input ==
    /\ accumInLen' = 0
    /\ UNCHANGED zxblake3

hash_init_keeping_count ==
    /\ zxblake3' = <<>>
    /\ UNCHANGED accumInLen

hash_init ==
    /\ zxblake3' = <<>>
    /\ accumInLen' = 0

Accepts(inLen) == inLen # 0 /\ accumInLen + inLen <= MAX_INPUT_LEN

hash_update(in, inLen) ==
    /\ Accepts(inLen)
    /\ zxblake3' = zxblake3 \o in
    /\ accumInLen' = accumInLen + inLen

hash_update_refused(inLen) ==
    /\ ~Accepts(inLen)
    /\ UNCHANGED <<zxblake3, accumInLen>>

\* Finalising leaves the hasher as it is: more input could follow.
hash_finalize == zxblake3
=============================================================================
