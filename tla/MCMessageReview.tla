--------------------------- MODULE MCMessageReview ---------------------------
(***************************************************************************)
(* Payloads of up to ten bytes: headers with a prefix of 0, 1 or 256 bytes *)
(* and a message of 0 or 1, before every body of up to three bytes that    *)
(* are a domain (1) or not one (7); some without a header; texts and bytes *)
(* that look alike when the one is written as the other; and the word      *)
(* "Empty".  Behind the memory the bytes are all 0 or all 1.               *)
(***************************************************************************)
EXTENDS MessageReview

MCByte == {0, 1, 2, 5, 7, 10, 11, 48, 55, 69, 109, 112, 116, 121}

MCMemSize == 10

Body == UNION {[1 .. n -> {1, 7}] : n \in 0 .. 3}

Header == {<<0, 0, 0, 0>>, <<1, 0, 0, 0>>, <<0, 0, 1, 0>>, <<1, 0, 1, 0>>, <<0, 1, 0, 0>>}

MCPayloads ==
    {header \o body : header \in Header, body \in Body}
    \cup {<<>>, <<1, 0, 1>>}
    \cup {<<0, 0, 2, 0, 1>> \o text : text \in {<<48, 55>>, <<7, 48>>, <<1, 48>>}}
    \cup {<<0, 0, 0, 0, domain>> : domain \in {10, 11}}
    \cup {<<0, 0, 5, 0, 1>> \o EmptyText}

MCBehinds == {[n \in 0 .. MaxUInt16 |-> b] : b \in {0, 1}}
=============================================================================
