--------------------------- MODULE AnsweredBuffer ---------------------------
(***************************************************************************)
(* The bounded sequence with its answers: every call on the upload memory  *)
(* does to the sequence what it answers.  TxBuffer implements it with the  *)
(* two memories of common/tx.c.                                            *)
(***************************************************************************)
EXTENDS UploadBuffer

\* The last call since the application started: a reset, or an append of chunk,
\* which was stored whole or not.
VARIABLE call

NoCall == [op |-> "none", chunk |-> <<>>, whole |-> FALSE]

ResetCall == [op |-> "reset", chunk |-> <<>>, whole |-> TRUE]

AppendCall(chunk, whole) == [op |-> "append", chunk |-> chunk, whole |-> whole]

Init == content = <<>> /\ call = NoCall

Restart == Reset /\ call' = NoCall

ResetAnswered == Reset /\ call' = ResetCall

StoreAnswered(chunk) == Store(chunk) /\ call' = AppendCall(chunk, TRUE)

RefuseAnswered(chunk) == Refuse(chunk) /\ call' = AppendCall(chunk, FALSE)

Next ==
    \/ Restart
    \/ ResetAnswered
    \/ \E chunk \in Chunk : StoreAnswered(chunk) \/ RefuseAnswered(chunk)

Spec == Init /\ [][Next]_<<content, call>>
=============================================================================
