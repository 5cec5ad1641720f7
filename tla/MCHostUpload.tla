---------------------------- MODULE MCHostUpload ----------------------------
(***************************************************************************)
(* A host that wants a transaction signed in two chunks, one that wants a  *)
(* message signed and one that wants the address of a vault, in one, with  *)
(* four disturbances and a buffer of three bytes.                          *)
(***************************************************************************)
EXTENDS HostUpload

CONSTANTS mainnet, zeros, a, b

MCByte == {a, b}
MCChunk == {<<a>>, <<b>>, <<a, b>>}
MCCapacity == 3
MCPath == {mainnet, zeros}
MCValidPath == {mainnet}
MCTxPayload == {<<a, b>>}
MCMessagePayload == {<<b>>}
MCJobs ==
    {[kind |-> "TX", path |-> mainnet, chunks |-> <<<<a>>, <<b>>>>],
     [kind |-> "MESSAGE", path |-> mainnet, chunks |-> <<<<b>>>>],
     [kind |-> "VAULT", path |-> mainnet, chunks |-> <<<<a, b>>>>]}
MCDisturbances == 4
=============================================================================
