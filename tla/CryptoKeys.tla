----------------------------- MODULE CryptoKeys -----------------------------
(***************************************************************************)
(* crypto_extractPublicKey and crypto_sign of app/src/crypto.c: a chain of *)
(* calls into the secure SDK (external), each of which may fail after it   *)
(* has written part of its result, over keys that lie on the stack.  Both  *)
(* end at the label catch_cx_error, which wipes the keys and, after a      *)
(* failure, the caller's array.                                            *)
(*                                                                         *)
(* What is derived, encoded and signed is opaque: a value is told by what  *)
(* it was made from.                                                       *)
(***************************************************************************)
CONSTANTS
    Path,           \* The paths that keys are derived for.
    Message,        \* What is to be signed.
    Empty           \* A message of length zero.

ASSUME MessageAssumption == Empty \notin Message

VARIABLES
    pc,             \* The next step.
    call,           \* The function that was called.
    hdPath,
    message,
    privateKeyData, \* On the stack, as are the next two.
    cx_privateKey,
    cx_publicKey,
    error,          \* As it is returned.
    out,            \* The caller's array: pubKey or signature.
    before          \* What lay there when it was handed over.

stack == <<privateKeyData, cx_privateKey, cx_publicKey>>

vars == <<pc, call, hdPath, message, stack, error, out, before>>

Call == {"crypto_extractPublicKey", "crypto_sign"}

Zero == [is |-> "zero"]

\* Whatever lay in the memory.
Garbage == [is |-> "garbage"]

Seed(path) == [is |-> "seed", of |-> path]

PrivateKey(seed) == [is |-> "private key", of |-> seed]

PublicKey(private) == [is |-> "public key", of |-> private]

Signature(private, m) == [is |-> "signature", of |-> private, message |-> m]

\* Part of a result: the call that was to write it has failed.
Part(result) == [is |-> "part", of |-> result]

Plain == {Zero, Garbage}

Seeds == {Seed(path) : path \in Path}

PrivateKeys == {PrivateKey(seed) : seed \in Seeds}

PublicKeys == {PublicKey(private) : private \in PrivateKeys}

Signatures == {Signature(private, m) : private \in PrivateKeys, m \in Message}

OrPart(results) == results \cup {Part(result) : result \in results}

Stages == {"idle", "derive", "private", "public", "generate", "write", "sign", "clean", "returned"}

\* Types of the state; each call finds what the one before it has made.
TypeOK ==
    /\ pc \in Stages
    /\ call \in Call
    /\ hdPath \in Path
    /\ message \in Message \cup {Empty}
    /\ privateKeyData \in Plain \cup OrPart(Seeds)
    /\ cx_privateKey \in Plain \cup OrPart(PrivateKeys)
    /\ cx_publicKey \in Plain \cup OrPart({Zero} \cup PublicKeys)
    /\ error \in {"zxerr_ok", "zxerr_unknown", "zxerr_invalid_crypto_settings"}
    /\ out \in Plain \cup OrPart(PublicKeys \cup Signatures)
    /\ before \in Plain
    /\ pc \in {"private", "public", "generate", "write", "sign"} =>
        privateKeyData = Seed(hdPath)
    /\ pc \in {"public", "generate", "write", "sign"} =>
        cx_privateKey = PrivateKey(Seed(hdPath))
    /\ pc \in {"public", "generate", "write"} => call = "crypto_extractPublicKey"
    /\ pc = "sign" => call = "crypto_sign" /\ message \in Message
    /\ pc = "write" => cx_publicKey = PublicKey(cx_privateKey)

-----------------------------------------------------------------------------

Init ==
    /\ pc = "idle"
    /\ call = "crypto_sign"
    /\ hdPath \in Path
    /\ message = Empty
    /\ privateKeyData = Zero
    /\ cx_privateKey = Zero
    /\ cx_publicKey = Zero
    /\ error = "zxerr_ok"
    /\ out = Zero
    /\ before = Zero

\* The stack holds the seed's array, zero, and two structures as they are.
Enter(function, array) ==
    /\ pc = "idle"
    /\ call' = function
    /\ hdPath' \in Path
    /\ privateKeyData' = Zero
    /\ cx_privateKey' = Garbage
    /\ cx_publicKey' = Garbage
    /\ out' = array
    /\ before' = array
    /\ error' = "zxerr_unknown"
    /\ pc' = "derive"

crypto_extractPublicKey ==
    /\ Enter("crypto_extractPublicKey", Zero)
    /\ message' = Empty

\* The signature goes where the command was.
crypto_sign ==
    /\ Enter("crypto_sign", Garbage)
    /\ message' \in Message

\* Nothing is touched, not even the array.
crypto_sign_refused ==
    /\ pc = "idle"
    /\ call' = "crypto_sign"
    /\ message' = Empty
    /\ out' = Garbage
    /\ before' = Garbage
    /\ error' = "zxerr_invalid_crypto_settings"
    /\ pc' = "returned"
    /\ UNCHANGED <<hdPath, stack>>

\* Mutant: a failure returns at once.
StageAfterFailureAtOnce == "returned"

\* CATCH_CXERROR goes to the label.
StageAfterFailure == "clean"

\* A call that is to write a result over an array.
Attempt(array, result, next) ==
    \/ array' = result /\ pc' = next
    \/ array' \in {array, Part(result)} /\ pc' = StageAfterFailure

\* Mutant: the private key is not set up.
StageAfterSeedAtOnce == IF call = "crypto_sign" THEN "sign" ELSE "public"

StageAfterSeed == "private"

DeriveSeed ==
    /\ pc = "derive"
    /\ Attempt(privateKeyData, Seed(hdPath), StageAfterSeed)
    /\ UNCHANGED <<call, hdPath, message, cx_privateKey, cx_publicKey, error, out, before>>

InitPrivateKey ==
    /\ pc = "private"
    /\ Attempt(cx_privateKey, PrivateKey(privateKeyData),
               IF call = "crypto_sign" THEN "sign" ELSE "public")
    /\ UNCHANGED <<call, hdPath, message, privateKeyData, cx_publicKey, error, out, before>>

InitPublicKey ==
    /\ pc = "public"
    /\ Attempt(cx_publicKey, Zero, "generate")
    /\ UNCHANGED <<call, hdPath, message, privateKeyData, cx_privateKey, error, out, before>>

GeneratePair ==
    /\ pc = "generate"
    /\ Attempt(cx_publicKey, PublicKey(cx_privateKey), "write")
    /\ UNCHANGED <<call, hdPath, message, privateKeyData, cx_privateKey, error, out, before>>

WritePublicKey ==
    /\ pc = "write"
    /\ out' = cx_publicKey
    /\ error' = "zxerr_ok"
    /\ pc' = "clean"
    /\ UNCHANGED <<call, hdPath, message, stack, before>>

SignMessage ==
    /\ pc = "sign"
    /\ LET signature == Signature(cx_privateKey, message) IN
        \/ out' = signature /\ error' = "zxerr_ok" /\ pc' = "clean"
        \/ out' \in {out, Part(signature)} /\ error' = error /\ pc' = StageAfterFailure
    /\ UNCHANGED <<call, hdPath, message, stack, before>>

\* Mutant: the array is left as the failed call left it.
WipedKeepingPart == out

\* What the label leaves in the caller's array.
Wiped == IF error = "zxerr_ok" THEN out ELSE Zero

\* catch_cx_error.
CleanUp ==
    /\ pc = "clean"
    /\ cx_privateKey' = Zero
    /\ privateKeyData' = Zero
    /\ out' = Wiped
    /\ pc' = "returned"
    /\ UNCHANGED <<call, hdPath, message, cx_publicKey, error, before>>

\* The caller has used the array; its stack is reused.
Return ==
    /\ pc = "returned"
    /\ pc' = "idle"
    /\ UNCHANGED <<call, hdPath, message, stack, error, out, before>>

Next ==
    \/ crypto_extractPublicKey \/ crypto_sign \/ crypto_sign_refused
    \/ DeriveSeed \/ InitPrivateKey \/ InitPublicKey \/ GeneratePair
    \/ WritePublicKey \/ SignMessage \/ CleanUp \/ Return

Spec == Init /\ [][Next]_vars

-----------------------------------------------------------------------------
\* Properties.

Secret == OrPart(Seeds) \cup OrPart(PrivateKeys)

\* No function returns and leaves a secret behind, whole or in part, whichever of the
\* calls into the SDK failed (crypto.c:56-63, 85-93).
NoSecretLeft ==
    pc \in {"idle", "returned"} =>
        privateKeyData \notin Secret /\ cx_privateKey \notin Secret /\ out \notin Secret

\* The caller finds the whole result of its own path and message and zxerr_ok, or an
\* error and nothing of any result (crypto.c:47-54, 81-91).
WholeResultOrNone ==
    pc = "returned" =>
        LET private == PrivateKey(Seed(hdPath))
            result == IF call = "crypto_sign" THEN Signature(private, message) ELSE PublicKey(private)
        IN  IF error = "zxerr_ok" THEN out = result ELSE out \in {Zero, before}
=============================================================================
