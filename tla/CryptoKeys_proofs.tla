-------------------------- MODULE CryptoKeys_proofs --------------------------
(***************************************************************************)
(* Proofs about CryptoKeys, for every set of paths and messages.           *)
(***************************************************************************)
EXTENDS CryptoKeys, TLAPS

\* What a call that went well leaves in its array.
Result ==
    IF call = "crypto_sign" THEN Signature(PrivateKey(Seed(hdPath)), message)
    ELSE PublicKey(PrivateKey(Seed(hdPath)))

Results == PublicKeys \cup Signatures

\* The keys are wiped whenever no function runs.
StackClean == pc \in {"idle", "returned"} => privateKeyData \in Plain /\ cx_privateKey \in Plain

\* Only the last call before the label sets the error to zxerr_ok.
FailedUntilDone ==
    pc \in {"derive", "private", "public", "generate", "write", "sign"} => error = "zxerr_unknown"

\* The array at the label, and what the label makes of it.
DoneIsWhole == pc = "clean" /\ error = "zxerr_ok" => out = Result /\ out \in Results

ReturnedIsWhole ==
    pc = "returned" =>
        IF error = "zxerr_ok" THEN out = Result /\ out \in Results ELSE out \in {Zero, before}

\* Between calls the array holds no part of anything.
ArrayPlain == pc = "idle" => out \in Plain \cup Results

\* A message of length zero never reaches the signature.
SignsAMessage ==
    pc \in {"derive", "private", "sign"} /\ call = "crypto_sign" => message \in Message

IInv ==
    /\ TypeOK /\ StackClean /\ SignsAMessage /\ FailedUntilDone
    /\ DoneIsWhole /\ ReturnedIsWhole /\ ArrayPlain

-----------------------------------------------------------------------------

\* A public key or a signature is no secret, nor is a cleared or an untouched array.
LEMMA ResultsAreNoSecrets == (Plain \cup Results) \cap Secret = {}
<1>1. Zero.is = "zero" /\ Garbage.is = "garbage"
    BY DEF Zero, Garbage
<1>2. \A private, m : PublicKey(private).is = "public key" /\ Signature(private, m).is = "signature"
    BY DEF PublicKey, Signature
<1>3. \A x : /\ Seed(x).is = "seed"
             /\ PrivateKey(x).is = "private key"
             /\ Part(x).is = "part"
    BY DEF Seed, PrivateKey, Part
<1>4. \A x \in Plain \cup Results : x.is \in {"zero", "garbage", "public key", "signature"}
    <2>1. \A x \in Plain : x.is \in {"zero", "garbage"}
        BY <1>1 DEF Plain
    <2>2. \A x \in PublicKeys : x.is = "public key"
        BY <1>2 DEF PublicKeys
    <2>3. \A x \in Signatures : x.is = "signature"
        <3>. TAKE x \in Signatures
        <3>1. PICK private \in PrivateKeys, m \in Message : x = Signature(private, m)
            BY DEF Signatures
        <3>. QED
            BY <1>2, <3>1
    <2>. QED
        BY <2>1, <2>2, <2>3 DEF Results
<1>5. \A x \in Secret : x.is \in {"seed", "private key", "part"}
    BY <1>3 DEF Secret, OrPart, Seeds, PrivateKeys
<1>. QED
    BY <1>4, <1>5

\* The whole public key or signature of a path is a result.
LEMMA WholeResults ==
    ASSUME NEW path \in Path
    PROVE  /\ Seed(path) \in Seeds
           /\ PrivateKey(Seed(path)) \in PrivateKeys
           /\ PublicKey(PrivateKey(Seed(path))) \in PublicKeys
           /\ \A m \in Message : Signature(PrivateKey(Seed(path)), m) \in Signatures
BY DEF Seeds, PrivateKeys, PublicKeys, Signatures

LEMMA InitInv == Init => IInv
BY DEF Init, IInv, TypeOK, Stages, Call, Plain, OrPart, StackClean, SignsAMessage, FailedUntilDone, DoneIsWhole,
    ReturnedIsWhole, ArrayPlain

\* A call starts on a clean stack; a refused one leaves everything as it was.
LEMMA EnterInv ==
    ASSUME IInv, crypto_extractPublicKey \/ crypto_sign \/ crypto_sign_refused
    PROVE  IInv'
<1>. USE DEF IInv, StackClean, SignsAMessage, FailedUntilDone, DoneIsWhole, ReturnedIsWhole, ArrayPlain
<1>1. CASE crypto_extractPublicKey
    BY <1>1 DEF crypto_extractPublicKey, Enter, TypeOK, Stages, Call, Plain, OrPart
<1>2. CASE crypto_sign
    BY <1>2 DEF crypto_sign, Enter, TypeOK, Stages, Call, Plain, OrPart
<1>3. CASE crypto_sign_refused
    BY <1>3 DEF crypto_sign_refused, stack, TypeOK, Stages, Call, Plain, OrPart
<1>. QED
    BY <1>1, <1>2, <1>3

\* Each call into the SDK is made with what the one before it has made.
LEMMA CallInv ==
    ASSUME IInv, DeriveSeed \/ InitPrivateKey \/ InitPublicKey \/ GeneratePair
    PROVE  IInv'
<1>. USE DEF IInv, StackClean, SignsAMessage, FailedUntilDone, DoneIsWhole, ReturnedIsWhole, ArrayPlain,
            Attempt, StageAfterFailure
<1>0. hdPath \in Path
    BY DEF TypeOK
<1>1. CASE DeriveSeed
    BY <1>0, <1>1, WholeResults DEF DeriveSeed, StageAfterSeed, TypeOK, Stages, OrPart
<1>2. CASE InitPrivateKey
    <2>1. cx_privateKey' \in Plain \cup OrPart(PrivateKeys)
        BY <1>0, <1>2, WholeResults DEF InitPrivateKey, TypeOK, OrPart
    <2>2. pc' # "clean" => cx_privateKey' = PrivateKey(Seed(hdPath)) /\ pc' \in {"sign", "public"}
        BY <1>2 DEF InitPrivateKey, TypeOK
    <2>3. pc' = "sign" => call = "crypto_sign" /\ message \in Message
        BY <1>2 DEF InitPrivateKey, TypeOK
    <2>. QED
        BY <1>2, <2>1, <2>2, <2>3 DEF InitPrivateKey, TypeOK, Stages, Call
<1>3. CASE InitPublicKey
    BY <1>3 DEF InitPublicKey, TypeOK, Stages, OrPart, Plain
<1>4. CASE GeneratePair
    <2>1. cx_privateKey = PrivateKey(Seed(hdPath))
        BY <1>4 DEF GeneratePair, TypeOK
    <2>2. cx_publicKey' \in Plain \cup OrPart({Zero} \cup PublicKeys)
        BY <1>0, <1>4, <2>1, WholeResults DEF GeneratePair, TypeOK, OrPart
    <2>3. pc' \in {"write", "clean"} /\ (pc' = "write" => cx_publicKey' = PublicKey(cx_privateKey))
        BY <1>4 DEF GeneratePair
    <2>. QED
        BY <1>4, <2>2, <2>3 DEF GeneratePair, TypeOK, Stages
<1>. QED
    BY <1>1, <1>2, <1>3, <1>4

\* The result goes into the array; the label wipes what is not one.
LEMMA ResultInv ==
    ASSUME IInv, WritePublicKey \/ SignMessage \/ CleanUp \/ Return
    PROVE  IInv'
<1>. USE DEF IInv, StackClean, SignsAMessage, FailedUntilDone, DoneIsWhole, ReturnedIsWhole, ArrayPlain
<1>0. hdPath \in Path
    BY DEF TypeOK
<1>1. CASE WritePublicKey
    <2>1. out' = Result' /\ out' \in PublicKeys
        BY <1>0, <1>1, WholeResults DEF WritePublicKey, Result, TypeOK
    <2>. QED
        BY <1>1, <2>1 DEF WritePublicKey, stack, Results, TypeOK, Stages, OrPart
<1>2. CASE SignMessage
    <2>1. /\ call = "crypto_sign" /\ message \in Message
          /\ Signature(cx_privateKey, message) = Result
          /\ Result \in Signatures
        BY <1>0, <1>2, WholeResults DEF SignMessage, Result, TypeOK
    <2>2. Result' = Result
        BY <1>2 DEF SignMessage, Result
    <2>3. out' \in Plain \cup OrPart(PublicKeys \cup Signatures)
        BY <1>2, <2>1 DEF SignMessage, TypeOK, OrPart
    <2>4. error' = "zxerr_ok" => out' = Result /\ out' \in Results
        BY <1>2, <2>1 DEF SignMessage, Results
    <2>5. pc' = "clean" /\ error' \in {"zxerr_ok", "zxerr_unknown"}
        BY <1>2 DEF SignMessage, StageAfterFailure
    <2>. QED
        BY <1>2, <2>2, <2>3, <2>4, <2>5 DEF SignMessage, stack, TypeOK, Stages
<1>3. CASE CleanUp
    <2>1. Result' = Result
        BY <1>3 DEF CleanUp, Result
    <2>. QED
        BY <1>3, <2>1 DEF CleanUp, Wiped, TypeOK, Stages, Plain
<1>4. CASE Return
    BY <1>4 DEF Return, stack, TypeOK, Stages, Plain
<1>. QED
    BY <1>1, <1>2, <1>3, <1>4

LEMMA NextInv == IInv /\ [Next]_vars => IInv'
<1>. SUFFICES ASSUME IInv, [Next]_vars PROVE IInv'
    OBVIOUS
<1>1. CASE UNCHANGED vars
    BY <1>1 DEF vars, stack, IInv, TypeOK, StackClean, SignsAMessage, FailedUntilDone, DoneIsWhole,
        ReturnedIsWhole, ArrayPlain, Result
<1>2. CASE Next
    BY <1>2, EnterInv, CallInv, ResultInv DEF Next
<1>. QED
    BY <1>1, <1>2

LEMMA Invariant == Spec => []IInv
BY InitInv, NextInv, PTL DEF Spec

-----------------------------------------------------------------------------

\* Every call finds what the one before it has made, for every path and message.
THEOREM KeysTypeCorrect == Spec => []TypeOK
<1>1. IInv => TypeOK
    BY DEF IInv
<1>. QED
    BY <1>1, Invariant, PTL

\* Whichever call fails, no secret is left when a function returns (crypto.c:56-63, 85-93).
THEOREM SecretsAreWiped == Spec => []NoSecretLeft
<1>1. IInv => NoSecretLeft
    <2>. SUFFICES ASSUME IInv, pc \in {"idle", "returned"}
                  PROVE  privateKeyData \notin Secret /\ cx_privateKey \notin Secret /\ out \notin Secret
        BY DEF NoSecretLeft
    <2>1. privateKeyData \in Plain /\ cx_privateKey \in Plain
        BY DEF IInv, StackClean
    <2>2. out \in Plain \cup Results
        BY DEF IInv, ReturnedIsWhole, ArrayPlain, TypeOK, Plain
    <2>. QED
        BY <2>1, <2>2, ResultsAreNoSecrets
<1>. QED
    BY <1>1, Invariant, PTL

\* A caller gets the key or the signature of its own path and message, or none of it
\* (crypto.c:47-54, 81-91).
THEOREM ResultsAreWhole == Spec => []WholeResultOrNone
<1>1. IInv => WholeResultOrNone
    BY DEF IInv, ReturnedIsWhole, WholeResultOrNone, Result
<1>. QED
    BY <1>1, Invariant, PTL
=============================================================================
