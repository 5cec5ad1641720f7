--------------------------- MODULE MCApduSession ---------------------------
(***************************************************************************)
(* A small instance of ApduSession: three paths of which one is refused,   *)
(* two byte values, and a buffer of three bytes that two chunks overflow.  *)
(***************************************************************************)
EXTENDS ApduSession

CONSTANTS mainnet, testnet, zeros, a, b

MCByte == {a, b}
MCChunk == {<<>>, <<a>>, <<b>>, <<a, b>>}
MCCapacity == 3
MCPath == {mainnet, testnet, zeros}
MCValidPath == {mainnet, testnet}
\* One payload is a transaction only, one a message only, one both.
MCTxPayload == {<<a>>, <<a, b>>}
MCMessagePayload == {<<b>>, <<a, b>>}
=============================================================================
