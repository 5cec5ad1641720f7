------------------------------- MODULE Signer -------------------------------
(***************************************************************************)
(* What the device promises to its owner, without a word on how: it gives  *)
(* out a signature or a reviewed address only for the request it was       *)
(* asking about, and that request is the one the host uploaded, under the  *)
(* path the upload was opened with.  An upload is at most once a request.  *)
(***************************************************************************)
EXTENDS Sequences

CONSTANTS
    Byte,           \* The byte values that are told apart.
    Chunk,          \* The chunks a command may carry.
    ValidPath,      \* The HD paths of the mainnet and of the testnet.
    UploadKind,     \* What an upload may be a request for.
    AddressKind,    \* The single-key address, derived from a path alone.
    Closed,         \* No upload is open.
    NoRequest       \* The user is not asked anything.

VARIABLES
    upload,         \* The open upload, [path, data], or Closed.
    asked,          \* The request the user is asked about, or NoRequest.
    granted         \* The request the last answer granted, or NoRequest.

vars == <<upload, asked, granted>>

Request == [kind : UploadKind \cup AddressKind, path : ValidPath, payload : Seq(Byte)]

Upload == [path : ValidPath, data : Seq(Byte)]

Init ==
    /\ upload = Closed
    /\ asked = NoRequest
    /\ granted = NoRequest

-----------------------------------------------------------------------------

Open(path) ==
    /\ asked = NoRequest
    /\ upload' = [path |-> path, data |-> <<>>]
    /\ granted' = NoRequest
    /\ UNCHANGED asked

Extend(chunk) ==
    /\ asked = NoRequest
    /\ upload # Closed
    /\ upload' = [upload EXCEPT !.data = @ \o chunk]
    /\ granted' = NoRequest
    /\ UNCHANGED asked

Refuse ==
    /\ asked = NoRequest
    /\ upload' \in {upload, Closed}
    /\ granted' = NoRequest
    /\ UNCHANGED asked

\* The last chunk closes the upload and turns all of it into a question.
AskUpload(kind, chunk) ==
    /\ asked = NoRequest
    /\ upload # Closed
    /\ asked' = [kind |-> kind, path |-> upload.path, payload |-> upload.data \o chunk]
    /\ upload' = Closed
    /\ granted' = NoRequest

AskAddress(kind, path) ==
    /\ asked = NoRequest
    /\ asked' = [kind |-> kind, path |-> path, payload |-> <<>>]
    /\ upload' = Closed
    /\ granted' = NoRequest

\* Only a single-key address may be given without asking.
TellAddress(kind, path) ==
    /\ asked = NoRequest
    /\ granted' = [kind |-> kind, path |-> path, payload |-> <<>>]
    /\ upload' = Closed
    /\ UNCHANGED asked

Grant ==
    /\ asked # NoRequest
    /\ granted' = asked
    /\ asked' = NoRequest
    /\ UNCHANGED upload

\* The user refuses, signing fails, the link or the power is lost.
Withdraw ==
    /\ asked' = NoRequest
    /\ upload' \in {upload, Closed}
    /\ granted' = NoRequest

Next ==
    \/ \E path \in ValidPath : Open(path)
    \/ \E chunk \in Chunk : Extend(chunk)
    \/ Refuse
    \/ \E kind \in UploadKind, chunk \in Chunk : AskUpload(kind, chunk)
    \/ \E kind \in AddressKind, path \in ValidPath : AskAddress(kind, path) \/ TellAddress(kind, path)
    \/ Grant
    \/ Withdraw

Spec == Init /\ [][Next]_vars
=============================================================================
