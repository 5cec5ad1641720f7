----------------------------- MODULE MCTxBuffer -----------------------------
(***************************************************************************)
(* Two bytes of RAM and four of flash, of two values each, and chunks that *)
(* fit in RAM, in flash only, and in neither.                              *)
(***************************************************************************)
EXTENDS TxBuffer

MCByte == {0, 1}

MCChunk == UNION {[1 .. n -> MCByte] : n \in 0 .. 3} \cup {<<1, 0, 1, 0, 1>>}
=============================================================================
