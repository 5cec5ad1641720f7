------------------------- MODULE MCAddressEncoding -------------------------
(***************************************************************************)
(* Requests for AddressEncoding: wallets of each key; accounts of one to   *)
(* three participants in every order, of ten and of eleven, with approvers *)
(* from none to one too many, and 65, which hashes like one; vaults with   *)
(* the numbers on both sides of every change of encoding.                  *)
(***************************************************************************)
EXTENDS AddressEncoding

\* A number from the bytes that are not zero at its upper end.
Num(low) == [k \in 1 .. 8 |-> IF k <= Len(low) THEN low[k] ELSE 0]

Times(b, n) == [k \in 1 .. n |-> b]

\* 0, 1, 2^6 - 1, 2^6, 2^14 - 1, 2^14, 2^30 - 1, 2^30.
Small ==
    {Num(<<>>), Num(<<1>>), Num(<<63>>), Num(<<64>>), Num(<<255, 63>>), Num(<<0, 64>>),
     Num(<<255, 255, 255, 63>>), Num(<<0, 0, 0, 64>>)}

\* 2^32 - 1, 2^32, 2^40 - 1, 2^56 - 1.
Large == {Num(Times(255, 4)), Num(<<0, 0, 0, 0, 1>>), Num(Times(255, 5)), Num(Times(255, 7))}

\* 2^56, 2^64 - 1: nine bytes.
TooLarge == {Num(<<0, 0, 0, 0, 0, 0, 0, 1>>), Num(Times(255, 8))}

NoNumbers == Times(Num(<<>>), 4)

Keys == {<<k>> : k \in Pubkey} \cup (Pubkey \X Pubkey) \cup (Pubkey \X Pubkey \X Pubkey)

Many(n) == Times(CHOOSE k \in Pubkey : TRUE, n)

Numbers ==
    {<<total, unlock, Num(<<>>), Num(<<64>>)>> : total, unlock \in Small \cup {Num(Times(255, 7))}}
    \cup {<<total, Num(<<1>>), start, end>> :
            total \in Large, start \in {Num(<<0, 64>>), Num(Times(255, 4))}, end \in Small}
    \cup {<<total, Num(<<>>), Num(<<>>), Num(<<>>)>> : total \in TooLarge}

MCRequests ==
    [type : {"WALLET"}, internal : Pubkey, approvers : {1}, keys : {<<>>}, numbers : {NoNumbers}]
    \cup
    [type : {"MULTISIG", "VESTING"}, internal : {CHOOSE k \in Pubkey : TRUE},
     approvers : {0, 1, 3, 11, 65}, keys : Keys \cup {Many(10), Many(11)}, numbers : {NoNumbers}]
    \cup
    [type : {"VAULT"}, internal : {CHOOSE k \in Pubkey : TRUE}, approvers : {1},
     keys : {Many(1)}, numbers : Numbers]
    \cup
    [type : {"VAULT"}, internal : {CHOOSE k \in Pubkey : TRUE}, approvers : {1, 2},
     keys : {Many(1), Many(2), Many(11)}, numbers : {NoNumbers}]
=============================================================================
