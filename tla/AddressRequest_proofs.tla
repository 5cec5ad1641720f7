----------------------- MODULE AddressRequest_proofs -----------------------
(***************************************************************************)
(* Proofs about AddressRequest for every set of requests, that is for any  *)
(* content of the memory a request is read from and any length of upload.  *)
(***************************************************************************)
EXTENDS AddressRequest, TLAPS

\* The loop invariants of the two loops, and what each stage has established.
LoopInv ==
    /\ pc \in {"match", "encode", "hash", "review"} => numberOfPubkeys + 1 = request.participants
    /\ pc = "match" =>
        /\ i <= numberOfPubkeys + 1
        /\ indexAux = tmpIndex(i, request.internalIndex)
        /\ KeysInPlace(request, i)
    /\ pc \in {"encode", "hash", "review"} => KeysInPlace(request, request.participants)
    /\ pc \in {"hash", "review"} => SettingsOK(request)
    /\ pc = "hash" => i <= request.participants /\ indexAux = tmpIndex(i, request.internalIndex)
    /\ pc \in {"hash", "review"} => hashed = ShownKeys(request, i)
    /\ pc = "review" => i = request.participants
    /\ pc \notin {"hash", "review"} => hashed = <<>>

IInv == TypeOK /\ LoopInv /\ WellFormedAccepted

-----------------------------------------------------------------------------

\* Appending its last value to the rest of a sequence gives the sequence.
LEMMA AppendLast ==
    ASSUME NEW n \in Nat, NEW S, NEW f \in [1 .. n + 1 -> S]
    PROVE  Append([k \in 1 .. n |-> f[k]], f[n + 1]) = f
<1> DEFINE s == [k \in 1 .. n |-> f[k]]
<1>1. s \in Seq(S) /\ Len(s) = n
    OBVIOUS
<1>2. f[n + 1] \in S
    OBVIOUS
<1>3. Append(s, f[n + 1]) = [k \in 1 .. n + 1 |-> IF k = n + 1 THEN f[n + 1] ELSE s[k]]
    BY <1>1, <1>2
<1> QED
    BY <1>3

\* The header is a header, the length a length.
LEMMA RequestFields ==
    ASSUME NEW r \in Request
    PROVE  /\ r.length \in Int /\ HeaderSize(r.type) \in Int
           /\ r.internalIndex \in 0 .. 255 /\ r.approvers \in 0 .. 255 /\ r.participants \in 0 .. 255
           /\ 0 <= r.participants
<1>1. r.length \in UInt16
    BY DEF Request
<1>2. r.length \in Int
    BY <1>1 DEF UInt16
<1>3. HeaderSize(r.type) \in Int
    BY DEF HeaderSize, BUFF_FIRST_ACCOUNT_INDEX, VAULT_INFO_SIZE
<1>4. r.internalIndex \in UInt8 /\ r.approvers \in UInt8 /\ r.participants \in UInt8
    BY DEF Request
<1>5. UInt8 = 0 .. 255
    BY DEF UInt8
<1> QED
    BY <1>2, <1>3, <1>4, <1>5

\* The number of keys a truncated size stands for.
LEMMA KeysOfSize ==
    ASSUME NEW r \in Request
    PROVE  (pubkeysBuffSize(r) \div PUBKEY_ITEM_SIZE) \in 0 .. 7
<1>1. pubkeysBuffSize(r) \in 0 .. 255
    BY RequestFields DEF pubkeysBuffSize
<1> QED
    BY <1>1 DEF PUBKEY_ITEM_SIZE

\* The size of a well-formed request is not truncated.
LEMMA WellFormedSize ==
    ASSUME NEW r \in Request, WellFormed(r, MostServed)
    PROVE  /\ pubkeysBuffSize(r) % PUBKEY_ITEM_SIZE = 0
           /\ (pubkeysBuffSize(r) \div PUBKEY_ITEM_SIZE) + 1 = r.participants
<1>1. r.participants \in 1 .. 8 /\ r.length = HeaderSize(r.type) + 33 * (r.participants - 1)
    BY DEF WellFormed, MostServed, PUBKEY_ITEM_SIZE
<1>2. r.length - HeaderSize(r.type) = 33 * (r.participants - 1)
    BY <1>1, RequestFields
<1>3. pubkeysBuffSize(r) = 33 * (r.participants - 1)
    BY <1>1, <1>2 DEF pubkeysBuffSize
<1> QED
    BY <1>1, <1>3 DEF PUBKEY_ITEM_SIZE

\* The initial state.
LEMMA InitIInv == Init => IInv
BY DEF Init, IInv, TypeOK, LoopInv, WellFormedAccepted, Stages

\* The types and the loop invariants are kept by every step.
LEMMA NextTypeOK == IInv /\ [Next]_vars => TypeOK'
<1> SUFFICES ASSUME IInv, [Next]_vars PROVE TypeOK'
    OBVIOUS
<1> USE DEF IInv, TypeOK, Stages
<1>1. CASE Receive
    BY <1>1, RequestAssumption DEF Receive
<1>2. CASE RefuseSizes
    BY <1>2 DEF RefuseSizes
<1>3. CASE AcceptSizes
    <2>1. numberOfPubkeys' \in 0 .. 7
        BY <1>3, KeysOfSize DEF AcceptSizes
    <2> QED
        BY <1>3, <2>1 DEF AcceptSizes
<1>4. CASE MatchInternal \/ MatchKey
    <2>1. request \in Request /\ request.internalIndex \in 0 .. 255
        BY <1>4, RequestFields DEF MatchInternal, MatchKey
    <2>2. i + 1 \in 0 .. 8 /\ indexAux + 1 \in 0 .. 8
        BY <1>4, <2>1 DEF MatchInternal, MatchKey, LoopInv, tmpIndex
    <2> QED
        BY <1>4, <2>2 DEF MatchInternal, MatchKey
<1>5. CASE RefuseKey \/ Matched \/ RefuseSettings \/ StartHash \/ HashDone
    BY <1>5 DEF RefuseKey, Matched, RefuseSettings, StartHash, HashDone
<1>8. CASE Dismiss
    BY <1>8 DEF Dismiss
<1>6. CASE HashInternal \/ HashKey
    <2>1. /\ request \in Request /\ request.internalIndex \in 0 .. 255
          /\ request.participants = numberOfPubkeys + 1
        BY <1>6, RequestFields DEF HashInternal, HashKey, LoopInv
    <2>2. i + 1 \in 0 .. 8 /\ indexAux + 1 \in 0 .. 8
        BY <1>6, <2>1 DEF HashInternal, HashKey, LoopInv, tmpIndex
    <2>3. request.keys[indexAux].pubkey \in Pubkey
        BY <2>1 DEF Request, MAX_MULTISIG_PUB_KEY
    <2>4. hashed' \in Seq(Pubkey \cup {Internal})
        BY <1>6, <2>3 DEF HashInternal, HashKey
    <2> QED
        BY <1>6, <2>2, <2>4 DEF HashInternal, HashKey
<1>7. CASE UNCHANGED vars
    BY <1>7 DEF vars
<1> QED
    BY <1>1, <1>2, <1>3, <1>4, <1>5, <1>6, <1>7, <1>8 DEF Next, Decide

\* A hash step appends the key that the screens show for the same participant.
LEMMA HashStep ==
    ASSUME IInv, pc = "hash", i < request.participants, NEW key \in Pubkey \cup {Internal},
           key = getPublicKey(i, request.internalIndex, request.keys)
    PROVE  Append(hashed, key) = ShownKeys(request, i + 1)
<1> DEFINE shown(k) == getPublicKey(k, request.internalIndex, request.keys)
           f == [k \in 1 .. i + 1 |-> shown(k - 1)]
<1>1. request \in Request /\ i \in 0 .. 8 /\ request.internalIndex \in 0 .. 255
      /\ i < numberOfPubkeys + 1 /\ numberOfPubkeys \in 0 .. 7
    BY RequestFields DEF IInv, TypeOK, LoopInv
<1>2. \A k \in 0 .. 8 : shown(k) \in Pubkey \cup {Internal}
    <2> SUFFICES ASSUME NEW k \in 0 .. 8 PROVE shown(k) \in Pubkey \cup {Internal}
        OBVIOUS
    <2>1. tmpIndex(k, request.internalIndex) \in 0 .. 9
        BY <1>1 DEF tmpIndex
    <2>2. request.keys[tmpIndex(k, request.internalIndex)].pubkey \in Pubkey
        BY <1>1, <2>1 DEF Request, MAX_MULTISIG_PUB_KEY
    <2> QED
        BY <2>2 DEF getPublicKey
<1>3. f \in [1 .. i + 1 -> Pubkey \cup {Internal}]
    BY <1>1, <1>2
<1>4. hashed = [k \in 1 .. i |-> f[k]]
    BY <1>1 DEF IInv, LoopInv, ShownKeys
<1>5. f[i + 1] = key
    BY <1>1
<1>6. f = ShownKeys(request, i + 1)
    BY DEF ShownKeys
<1> HIDE DEF f
<1> QED
    BY <1>1, <1>3, <1>4, <1>5, <1>6, AppendLast

\* The keys below the next participant are in place when its own is.
LEMMA NextKeyInPlace ==
    ASSUME NEW r \in Request, NEW n \in Nat, KeysInPlace(r, n),
           n # r.internalIndex => r.keys[tmpIndex(n, r.internalIndex)].index = n
    PROVE  KeysInPlace(r, n + 1)
BY DEF KeysInPlace

\* The index of the external keys starts at the first, stays on the device's own
\* participant and advances on every other.
LEMMA TmpIndexSteps ==
    ASSUME NEW k \in Nat, NEW own \in 0 .. 255
    PROVE  /\ tmpIndex(0, own) = 0
           /\ k = own => tmpIndex(k + 1, own) = tmpIndex(k, own)
           /\ k # own => tmpIndex(k + 1, own) = tmpIndex(k, own) + 1
BY DEF tmpIndex

\* The loop invariants are kept by every step.
LEMMA NextLoopInv == IInv /\ [Next]_vars => LoopInv'
<1> SUFFICES ASSUME IInv, [Next]_vars PROVE LoopInv'
    OBVIOUS
<1>1. CASE Receive
    BY <1>1 DEF Receive, IInv, LoopInv
<1>2. CASE RefuseSizes
    BY <1>2 DEF RefuseSizes, IInv, LoopInv
<1>3. CASE AcceptSizes
    <2>1. request.internalIndex \in 0 .. 255 /\ 0 <= request.participants
        <3>1. request \in Request
            BY <1>3 DEF AcceptSizes, IInv, TypeOK
        <3> QED
            BY <3>1, RequestFields
    <2>2. request' = request /\ i' = 0 /\ indexAux' = 0 /\ pc' = "match" /\ hashed' = <<>>
          /\ numberOfPubkeys' + 1 = request.participants
        BY <1>3 DEF AcceptSizes, IInv, LoopInv
    <2>3. indexAux' = tmpIndex(i', request'.internalIndex)
        BY <2>1, <2>2, TmpIndexSteps
    <2>4. KeysInPlace(request', i')
        BY <2>2 DEF KeysInPlace
    <2>5. i' <= numberOfPubkeys' + 1 /\ numberOfPubkeys' + 1 = request'.participants
        BY <2>1, <2>2
    <2> QED
        BY <2>2, <2>3, <2>4, <2>5 DEF LoopInv
<1>4. CASE MatchInternal \/ MatchKey
    <2>1. /\ request \in Request /\ request.internalIndex \in 0 .. 255 /\ i \in 0 .. 8
          /\ numberOfPubkeys \in 0 .. 7
        BY <1>4, RequestFields DEF MatchInternal, MatchKey, IInv, TypeOK
    <2>2. /\ request' = request /\ i' = i + 1 /\ i < numberOfPubkeys + 1
          /\ pc' = "match" /\ numberOfPubkeys' = numberOfPubkeys /\ hashed' = <<>>
        BY <1>4 DEF MatchInternal, MatchKey, IInv, LoopInv
    <2>3. /\ numberOfPubkeys + 1 = request.participants
          /\ indexAux = tmpIndex(i, request.internalIndex) /\ KeysInPlace(request, i)
        BY <1>4 DEF MatchInternal, MatchKey, IInv, LoopInv
    <2>4. indexAux' = IF i = request.internalIndex THEN indexAux ELSE indexAux + 1
        BY <1>4 DEF MatchInternal, MatchKey
    <2>5. indexAux' = tmpIndex(i + 1, request.internalIndex)
        <3>1. tmpIndex(i + 1, request.internalIndex) =
                IF i = request.internalIndex THEN indexAux ELSE indexAux + 1
            <4>1. i \in Nat
                BY <2>1
            <4> QED
                BY <4>1, <2>1, <2>3, TmpIndexSteps
        <3> QED
            BY <2>4, <3>1
    <2>6. i # request.internalIndex => request.keys[indexAux].index = i
        BY <1>4 DEF MatchInternal, MatchKey
    <2>7. KeysInPlace(request, i + 1)
        BY <2>1, <2>3, <2>6, NextKeyInPlace
    <2>8. i' <= numberOfPubkeys' + 1
        BY <2>1, <2>2
    <2> QED
        BY <2>2, <2>3, <2>5, <2>7, <2>8 DEF LoopInv
<1>5. CASE RefuseKey \/ RefuseSettings
    BY <1>5 DEF RefuseKey, RefuseSettings, IInv, LoopInv
<1>6. CASE Matched
    BY <1>6 DEF Matched, IInv, LoopInv
<1>7. CASE StartHash
    <2>1. request.internalIndex \in 0 .. 255 /\ 0 <= request.participants
        <3>1. request \in Request
            BY <1>7 DEF StartHash, IInv, TypeOK
        <3> QED
            BY <3>1, RequestFields
    <2>2. request' = request /\ i' = 0 /\ indexAux' = 0 /\ pc' = "hash" /\ hashed' = <<>>
          /\ numberOfPubkeys' = numberOfPubkeys /\ SettingsOK(request)
          /\ KeysInPlace(request, request.participants) /\ numberOfPubkeys + 1 = request.participants
        BY <1>7 DEF StartHash, IInv, LoopInv
    <2>3. indexAux' = tmpIndex(i', request'.internalIndex)
        BY <2>1, <2>2, TmpIndexSteps
    <2>4. hashed' = ShownKeys(request', i')
        BY <2>2 DEF ShownKeys
    <2>5. i' <= request'.participants
        BY <2>1, <2>2
    <2> QED
        BY <2>2, <2>3, <2>4, <2>5 DEF LoopInv
<1>8. CASE HashInternal \/ HashKey
    <2>1. /\ request \in Request /\ request.internalIndex \in 0 .. 255 /\ i \in 0 .. 8
          /\ request.participants \in 0 .. 255 /\ indexAux \in 0 .. 8 /\ i < request.participants
        BY <1>8, RequestFields DEF HashInternal, HashKey, IInv, TypeOK
    <2>2. /\ request' = request /\ i' = i + 1 /\ pc' = "hash" /\ numberOfPubkeys' = numberOfPubkeys
          /\ SettingsOK(request) /\ KeysInPlace(request, request.participants)
          /\ numberOfPubkeys + 1 = request.participants
          /\ indexAux = tmpIndex(i, request.internalIndex)
        BY <1>8 DEF HashInternal, HashKey, IInv, LoopInv
    <2>3. \E key \in Pubkey \cup {Internal} :
            key = getPublicKey(i, request.internalIndex, request.keys) /\ hashed' = Append(hashed, key)
        <3>1. request.keys[indexAux].pubkey \in Pubkey
            BY <2>1 DEF Request, MAX_MULTISIG_PUB_KEY
        <3> QED
            BY <1>8, <2>2, <3>1 DEF HashInternal, HashKey, getPublicKey
    <2>4. hashed' = ShownKeys(request, i + 1)
        BY <1>8, <2>3, HashStep DEF HashInternal, HashKey
    <2>5. indexAux' = IF i = request.internalIndex THEN indexAux ELSE indexAux + 1
        BY <1>8 DEF HashInternal, HashKey
    <2>6. indexAux' = tmpIndex(i + 1, request.internalIndex)
        <3>1. tmpIndex(i + 1, request.internalIndex) =
                IF i = request.internalIndex THEN indexAux ELSE indexAux + 1
            <4>1. i \in Nat
                BY <2>1
            <4> QED
                BY <4>1, <2>1, <2>2, TmpIndexSteps
        <3> QED
            BY <2>5, <3>1
    <2>7. i' <= request'.participants
        BY <2>1, <2>2
    <2> QED
        BY <2>2, <2>4, <2>6, <2>7 DEF LoopInv
<1>9. CASE HashDone
    BY <1>9 DEF HashDone, IInv, LoopInv
<1>10. CASE Dismiss
    BY <1>10 DEF Dismiss, IInv, LoopInv
<1>11. CASE UNCHANGED vars
    BY <1>11 DEF vars, IInv, LoopInv
<1> QED
    BY <1>1, <1>2, <1>3, <1>4, <1>5, <1>6, <1>7, <1>8, <1>9, <1>10, <1>11 DEF Next, Decide

\* A request that is refused is not well formed.
LEMMA NextWellFormedAccepted == IInv /\ [Next]_vars => WellFormedAccepted'
<1> SUFFICES ASSUME IInv, [Next]_vars PROVE WellFormedAccepted'
    OBVIOUS
<1> USE DEF IInv
<1>1. CASE RefuseSizes
    <2>1. ~WellFormed(request, MostServed)
        BY <1>1, WellFormedSize DEF RefuseSizes, TypeOK
    <2> QED
        BY <1>1, <2>1 DEF RefuseSizes, WellFormedAccepted
<1>2. CASE RefuseKey
    <2>1. /\ request.internalIndex \in 0 .. 255 /\ request.participants \in 0 .. 255
          /\ i \in 0 .. 8 /\ i < request.participants
          /\ i # request.internalIndex /\ i # request.keys[tmpIndex(i, request.internalIndex)].index
        BY <1>2, RequestFields DEF RefuseKey, TypeOK, LoopInv
    <2>2. ASSUME WellFormed(request, MostServed) PROVE FALSE
        <3>1. request.internalIndex < request.participants
            BY <2>2 DEF WellFormed
        <3>2. tmpIndex(i, request.internalIndex) \in 0 .. request.participants - 2
            <4>1. CASE i > request.internalIndex
                <5>1. tmpIndex(i, request.internalIndex) = i - 1
                    BY <4>1 DEF tmpIndex
                <5> QED
                    BY <2>1, <4>1, <5>1
            <4>2. CASE i < request.internalIndex
                <5>1. tmpIndex(i, request.internalIndex) = i
                    BY <2>1, <4>2 DEF tmpIndex
                <5> QED
                    BY <2>1, <3>1, <4>2, <5>1
            <4> QED
                BY <2>1, <4>1, <4>2
        <3>3. request.keys[tmpIndex(i, request.internalIndex)].index =
                IF tmpIndex(i, request.internalIndex) < request.internalIndex THEN tmpIndex(i, request.internalIndex) ELSE tmpIndex(i, request.internalIndex) + 1
            BY <2>2, <3>2 DEF WellFormed
        <3> QED
            BY <2>1, <3>3 DEF tmpIndex
    <2> QED
        BY <1>2, <2>2 DEF RefuseKey, WellFormedAccepted
<1>3. CASE RefuseSettings
    <2>1. WellFormed(request, MostServed) => SettingsOK(request)
        BY DEF WellFormed, MostServed, SettingsOK, MAX_MULTISIG_PUB_KEY
    <2> QED
        BY <1>3, <2>1 DEF RefuseSettings, WellFormedAccepted
<1>4. CASE Receive \/ AcceptSizes \/ MatchInternal \/ MatchKey \/ Matched \/ StartHash
           \/ HashInternal \/ HashKey \/ HashDone \/ Dismiss
    BY <1>4 DEF Receive, AcceptSizes, MatchInternal, MatchKey, Matched, StartHash,
                HashInternal, HashKey, HashDone, Dismiss, WellFormedAccepted
<1>5. CASE UNCHANGED vars
    BY <1>5 DEF vars, WellFormedAccepted
<1> QED
    BY <1>1, <1>2, <1>3, <1>4, <1>5 DEF Next, Decide

\* The invariant is inductive.
LEMMA IInvInductive == (Init => IInv) /\ (IInv /\ [Next]_vars => IInv')
BY InitIInv, NextTypeOK, NextLoopInv, NextWellFormedAccepted DEF IInv

\* The state keeps its types: the loops stay inside the array of keys.
THEOREM TypeCorrect == Spec => []TypeOK
<1>1. IInv => TypeOK
    BY DEF IInv
<1> QED
    BY <1>1, IInvInductive, PTL DEF Spec

\* What the user reads is what was hashed, key by key.
THEOREM ScreensShowTheHash == Spec => []ShownKeysAreHashedKeys
<1>1. IInv => ShownKeysAreHashedKeys
    BY DEF IInv, LoopInv, ShownKeysAreHashedKeys
<1> QED
    BY <1>1, IInvInductive, PTL DEF Spec

\* Well-formed requests of up to eight participants are served.
THEOREM WellFormedRequestsServed == Spec => []WellFormedAccepted
<1>1. IInv => WellFormedAccepted
    BY DEF IInv
<1> QED
    BY <1>1, IInvInductive, PTL DEF Spec

\* The settings and the indexes of an account on screen are sound.
THEOREM ReviewedAccountsSound == Spec => []ReviewedAccountIsSound
<1>1. IInv => ReviewedAccountIsSound
    <2> SUFFICES ASSUME IInv, pc = "review" PROVE ReviewedAccountIsSound
        BY DEF ReviewedAccountIsSound
    <2>1. request.approvers \in 0 .. 255
        BY RequestFields DEF IInv, TypeOK
    <2>2. SettingsOK(request) /\ KeysInPlace(request, request.participants)
        BY DEF IInv, LoopInv
    <2>3. 1 <= request.approvers /\ request.approvers <= request.participants
        BY <2>1, <2>2 DEF SettingsOK
    <2> QED
        BY <2>2, <2>3 DEF ReviewedAccountIsSound
<1> QED
    BY <1>1, IInvInductive, PTL DEF Spec

-----------------------------------------------------------------------------

\* The numbers the distance to the decision is counted in.
LEMMA Counts ==
    ASSUME IInv
    PROVE  /\ pc = "match" => i \in Nat /\ numberOfPubkeys \in 0 .. 7 /\ i <= numberOfPubkeys + 1
           /\ pc \in {"encode", "hash"} => request.participants \in 1 .. 8
           /\ pc = "hash" => i \in Nat /\ i <= request.participants
BY DEF IInv, TypeOK, LoopInv

\* Each step is one of the steps that were left.
LEMMA DecideStep ==
    ASSUME IInv, IInv', Decide
    PROVE  StepsLeft' \in 0 .. StepsLeft - 1
<1>1. CASE RefuseSizes
    BY <1>1 DEF RefuseSizes, StepsLeft
<1>2. CASE AcceptSizes
    <2>1. pc' = "match" /\ i' = 0 /\ numberOfPubkeys' \in 0 .. 7
        BY <1>2 DEF AcceptSizes, IInv, TypeOK
    <2>2. pc = "sizes"
        BY <1>2 DEF AcceptSizes
    <2>3. StepsLeft = 22
        BY <2>2 DEF StepsLeft
    <2>4. numberOfPubkeys' \in 0 .. 7
        BY <2>1
    <2>5. StepsLeft' = 12 + numberOfPubkeys' + 1 - i' /\ i' = 0
        BY <2>1 DEF StepsLeft
    <2>6. StepsLeft' \in 0 .. 21
        <3>1. \A n \in 0 .. 7 : 12 + n + 1 - 0 \in 0 .. 21
            OBVIOUS
        <3> QED
            BY <2>4, <2>5, <3>1
    <2>7. StepsLeft - 1 = 21
        BY <2>3
    <2> QED
        BY <2>6, <2>7
<1>3. CASE MatchInternal \/ MatchKey
    <2>1. pc = "match" /\ pc' = "match" /\ i' = i + 1 /\ i < numberOfPubkeys + 1
          /\ numberOfPubkeys' = numberOfPubkeys
        BY <1>3 DEF MatchInternal, MatchKey
    <2>2. i \in Nat /\ numberOfPubkeys \in 0 .. 7
        BY <2>1, Counts
    <2>3. StepsLeft = 12 + numberOfPubkeys + 1 - i /\ StepsLeft' = 12 + numberOfPubkeys' + 1 - i'
        BY <2>1 DEF StepsLeft
    <2> QED
        BY <2>1, <2>2, <2>3
<1>4. CASE RefuseKey \/ Matched
    <2>1. pc = "match" /\ pc' \in {"refused", "encode"}
        BY <1>4 DEF RefuseKey, Matched
    <2>2. StepsLeft = 12 + numberOfPubkeys + 1 - i /\ StepsLeft' \in {0, 11}
        BY <2>1 DEF StepsLeft
    <2> QED
        BY <2>1, <2>2, Counts
<1>5. CASE RefuseSettings
    BY <1>5 DEF RefuseSettings, StepsLeft
<1>6. CASE StartHash
    <2>1. pc = "encode" /\ pc' = "hash" /\ i' = 0 /\ request' = request
        BY <1>6 DEF StartHash
    <2>2. StepsLeft = 11 /\ StepsLeft' = 1 + request.participants - i'
        BY <2>1 DEF StepsLeft
    <2> QED
        BY <2>1, <2>2, Counts
<1>7. CASE HashInternal \/ HashKey
    <2>1. pc = "hash" /\ pc' = "hash" /\ i' = i + 1 /\ i < request.participants
          /\ request' = request
        BY <1>7 DEF HashInternal, HashKey
    <2>2. StepsLeft = 1 + request.participants - i /\ StepsLeft' = 1 + request.participants - i'
        BY <2>1 DEF StepsLeft
    <2> QED
        BY <2>1, <2>2, Counts
<1>8. CASE HashDone
    <2>1. pc = "hash" /\ pc' = "review" /\ i = request.participants
        BY <1>8 DEF HashDone
    <2>2. StepsLeft = 1 + request.participants - i /\ StepsLeft' = 0
        BY <2>1 DEF StepsLeft
    <2> QED
        BY <2>1, <2>2, Counts
<1> QED
    BY <1>1, <1>2, <1>3, <1>4, <1>5, <1>6, <1>7, <1>8 DEF Decide

\* The loops of the handler end, for any memory: what is left of RequestDecided is that
\* the handler runs.
THEOREM LoopsEnd == Spec => EveryStepDecides
<1>1. IInv /\ IInv' /\ [Next]_vars => [Decide => StepsLeft' \in 0 .. StepsLeft - 1]_vars
    BY DecideStep
<1> QED
    BY <1>1, IInvInductive, PTL DEF Spec, EveryStepDecides
=============================================================================
