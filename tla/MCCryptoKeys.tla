---------------------------- MODULE MCCryptoKeys ----------------------------
(***************************************************************************)
(* Two paths and two messages: one key or signature is told from another.  *)
(***************************************************************************)
EXTENDS CryptoKeys

CONSTANTS mainnet, testnet, m1, m2

MCPath == {mainnet, testnet}

MCMessage == {m1, m2}
=============================================================================
