-------------------------- MODULE MCAddressRequest --------------------------
(***************************************************************************)
(* Requests around every boundary of AddressRequest: the canonical order   *)
(* of the indexes for every position of the device's own key, one without  *)
(* a gap and one out of order; lengths that hold 0 to 9 keys, one byte off *)
(* or 256 bytes more, and shorter than the header.                         *)
(***************************************************************************)
EXTENDS AddressRequest

Slots == 0 .. MAX_MULTISIG_PUB_KEY - 1

MCPubkey == Slots

Skipping(gap) == [k \in Slots |-> [index |-> IF k < gap THEN k ELSE k + 1, pubkey |-> k]]

Swapped == [k \in Slots |-> [index |-> IF k = 0 THEN 1 ELSE IF k = 1 THEN 0 ELSE k, pubkey |-> k]]

Memories == {Skipping(gap) : gap \in {0, 1, 2, 7, 9, 10}} \cup {Swapped}

KeyBytes == {33 * n : n \in 0 .. 9}

Lengths(type) ==
    {HeaderSize(type) + n : n \in KeyBytes \cup {1, 32, 34, 256, 256 + 33, 256 + 66, 512}} \cup {0, 2}

MCRequests ==
    UNION {[type : {type}, length : Lengths(type), internalIndex : {0, 1, 2, 7, 9, 10},
            approvers : {0, 2, 9}, participants : {0, 1, 2, 3, 8, 9, 10}, keys : Memories] :
           type \in {"MULTISIG", "VAULT"}}
=============================================================================
