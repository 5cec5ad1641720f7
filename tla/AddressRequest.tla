--------------------------- MODULE AddressRequest ---------------------------
(***************************************************************************)
(* A request for the address of a shared account: app/src/addr.c reads it  *)
(* out of the upload, app/src/crypto_helper.c hashes the keys of all the   *)
(* participants in order, and addr.c shows them.  The three walk the same  *)
(* array of external keys with an index of their own.                      *)
(*                                                                         *)
(* The upload is read through a struct laid over the buffer, so fields and *)
(* keys past its end are whatever the memory holds (an earlier upload, or  *)
(* zeros): a request here is the memory, of arbitrary content, with the    *)
(* length of the upload beside it.  Keys are opaque; indexes and counts    *)
(* are bytes.  (That the device fails to derive its own key, whatever the  *)
(* request, is in ApduSession.)                                            *)
(***************************************************************************)
EXTENDS Integers, Sequences

CONSTANTS
    Pubkey,         \* The keys of the participants, opaque.
    Internal,       \* The key this device derives from its HD path.
    Requests,       \* The requests that are made.
    NoRequest

BUFF_FIRST_ACCOUNT_INDEX == 3

VAULT_INFO_SIZE == 24

PUBKEY_ITEM_SIZE == 33

MAX_MULTISIG_PUB_KEY == 10

UInt8 == 0 .. 255

UInt16 == {n \in Nat : n < 2^16}

Request ==
    [type : {"MULTISIG", "VESTING", "VAULT"}, length : UInt16, internalIndex : UInt8,
     approvers : UInt8, participants : UInt8,
     keys : [0 .. MAX_MULTISIG_PUB_KEY - 1 -> [index : UInt8, pubkey : Pubkey]]]

ASSUME RequestAssumption ==
    /\ Requests \subseteq Request
    /\ NoRequest \notin Requests

VARIABLES
    request,        \* The memory behind addr_request, and the upload's length.
    pc,             \* The stage reached: see Stages.
    numberOfPubkeys,\* addr_request.optional_numberOfPubkeys.
    i,              \* The loop counter of the stage, a participant's index.
    indexAux,       \* The next external key of the stage.
    hashed          \* The keys fed to the hasher, in order.

vars == <<request, pc, numberOfPubkeys, i, indexAux, hashed>>

Stages == {"idle", "sizes", "match", "encode", "hash", "review", "refused"}

\* Types of the state; both loops stay inside the array of keys.
TypeOK ==
    /\ request \in Request \cup {NoRequest}
    /\ pc \in Stages
    /\ pc # "idle" => request \in Request
    /\ numberOfPubkeys \in 0 .. 7
    /\ i \in 0 .. 8
    /\ indexAux \in 0 .. 8
    /\ hashed \in Seq(Pubkey \cup {Internal})

\* The bytes before the first key, and the size of the rest in a uint8_t.
HeaderSize(type) ==
    BUFF_FIRST_ACCOUNT_INDEX + IF type = "VAULT" THEN VAULT_INFO_SIZE ELSE 0

pubkeysBuffSize(r) == (r.length - HeaderSize(r.type)) % 256

-----------------------------------------------------------------------------

Init ==
    /\ request = NoRequest
    /\ pc = "idle"
    /\ numberOfPubkeys = 0
    /\ i = 0
    /\ indexAux = 0
    /\ hashed = <<>>

Receive ==
    /\ pc = "idle"
    /\ request' \in Requests
    /\ pc' = "sizes"
    /\ UNCHANGED <<numberOfPubkeys, i, indexAux, hashed>>

RefuseSizes ==
    /\ pc = "sizes"
    /\ LET size == pubkeysBuffSize(request) IN
        \/ size % PUBKEY_ITEM_SIZE # 0
        \/ (size \div PUBKEY_ITEM_SIZE) + 1 # request.participants
    /\ pc' = "refused"
    /\ UNCHANGED <<request, numberOfPubkeys, i, indexAux, hashed>>

AcceptSizes ==
    /\ pc = "sizes"
    /\ LET size == pubkeysBuffSize(request) IN
        /\ size % PUBKEY_ITEM_SIZE = 0
        /\ numberOfPubkeys' = size \div PUBKEY_ITEM_SIZE
    /\ numberOfPubkeys' + 1 = request.participants
    /\ i' = 0
    /\ indexAux' = 0
    /\ pc' = "match"
    /\ UNCHANGED <<request, hashed>>

\* Mutant: the loop does not advance past the device's own index.
MatchInternalForever ==
    /\ pc = "match"
    /\ i < numberOfPubkeys + 1
    /\ i = request.internalIndex
    /\ UNCHANGED vars

\* The loop of readAddressRequest: every index but the device's own has its key,
\* in order.
MatchInternal ==
    /\ pc = "match"
    /\ i < numberOfPubkeys + 1
    /\ i = request.internalIndex
    /\ i' = i + 1
    /\ UNCHANGED <<request, pc, numberOfPubkeys, indexAux, hashed>>

MatchKey ==
    /\ pc = "match"
    /\ i < numberOfPubkeys + 1
    /\ i # request.internalIndex
    /\ i = request.keys[indexAux].index
    /\ i' = i + 1
    /\ indexAux' = indexAux + 1
    /\ UNCHANGED <<request, pc, numberOfPubkeys, hashed>>

RefuseKey ==
    /\ pc = "match"
    /\ i < numberOfPubkeys + 1
    /\ i # request.internalIndex
    /\ i # request.keys[indexAux].index
    /\ pc' = "refused"
    /\ UNCHANGED <<request, numberOfPubkeys, i, indexAux, hashed>>

Matched ==
    /\ pc = "match"
    /\ i = numberOfPubkeys + 1
    /\ pc' = "encode"
    /\ UNCHANGED <<request, numberOfPubkeys, i, indexAux, hashed>>

\* Mutants: unanimous accounts are refused; accounts without approvers are not.
SettingsNotUnanimous(r) ==
    /\ r.approvers < r.participants
    /\ r.approvers # 0
    /\ r.participants <= MAX_MULTISIG_PUB_KEY

SettingsWithoutApprovers(r) ==
    /\ r.approvers <= r.participants
    /\ r.participants <= MAX_MULTISIG_PUB_KEY

\* crypto_encodeAccountPubkey; for a vault, of its owner as a vesting account.
SettingsOK(r) ==
    /\ r.approvers <= r.participants
    /\ r.approvers # 0
    /\ r.participants <= MAX_MULTISIG_PUB_KEY

RefuseSettings ==
    /\ pc = "encode"
    /\ ~SettingsOK(request)
    /\ pc' = "refused"
    /\ UNCHANGED <<request, numberOfPubkeys, i, indexAux, hashed>>

\* Mutant: the hash goes on with the check's index of the external keys.
StartHashKeepingIndex ==
    /\ pc = "encode"
    /\ SettingsOK(request)
    /\ i' = 0
    /\ pc' = "hash"
    /\ UNCHANGED <<request, numberOfPubkeys, indexAux, hashed>>

StartHash ==
    /\ pc = "encode"
    /\ SettingsOK(request)
    /\ i' = 0
    /\ indexAux' = 0
    /\ pc' = "hash"
    /\ UNCHANGED <<request, numberOfPubkeys, hashed>>

\* Mutant: the device's own key is fed and the counter not advanced.
HashInternalRepeatedly ==
    /\ pc = "hash"
    /\ i < request.participants
    /\ i = request.internalIndex
    /\ hashed' = Append(hashed, Internal)
    /\ UNCHANGED <<request, pc, numberOfPubkeys, i, indexAux>>

HashInternal ==
    /\ pc = "hash"
    /\ i < request.participants
    /\ i = request.internalIndex
    /\ hashed' = Append(hashed, Internal)
    /\ i' = i + 1
    /\ UNCHANGED <<request, pc, numberOfPubkeys, indexAux>>

HashKey ==
    /\ pc = "hash"
    /\ i < request.participants
    /\ i # request.internalIndex
    /\ hashed' = Append(hashed, request.keys[indexAux].pubkey)
    /\ i' = i + 1
    /\ indexAux' = indexAux + 1
    /\ UNCHANGED <<request, pc, numberOfPubkeys>>

HashDone ==
    /\ pc = "hash"
    /\ i = request.participants
    /\ pc' = "review"
    /\ UNCHANGED <<request, numberOfPubkeys, i, indexAux, hashed>>

\* The reply, or the end of the review.  The next request starts with
\* clearAddressRequest and writes every field before it reads it.
Dismiss ==
    /\ pc \in {"review", "refused"}
    /\ pc' = "idle"
    /\ request' = NoRequest
    /\ numberOfPubkeys' = 0
    /\ i' = 0
    /\ indexAux' = 0
    /\ hashed' = <<>>

Decide ==
    \/ RefuseSizes \/ AcceptSizes
    \/ MatchInternal \/ MatchKey \/ RefuseKey \/ Matched
    \/ RefuseSettings \/ StartHash
    \/ HashInternal \/ HashKey \/ HashDone

Next ==
    \/ Receive
    \/ Decide
    \/ Dismiss

Spec == Init /\ [][Next]_vars

\* The handler runs without waiting for anyone until it refuses or shows.
FairSpec == Spec /\ WF_vars(Decide)

-----------------------------------------------------------------------------
\* The screens: multisigVesting_getItem and vault_getItem.

\* Mutant: the keys behind the device's own are not shifted.
sameIndex(index, internalIndex) == index

\* Where the key of a participant lies among the external keys.
tmpIndex(index, internalIndex) == IF index > internalIndex THEN index - 1 ELSE index

\* The key on screen for one index.
getPublicKey(index, internalIndex, keys) ==
    IF index = internalIndex THEN Internal ELSE keys[tmpIndex(index, internalIndex)].pubkey

\* The keys of all the participants, as the screens list them.
ShownKeys(r, count) == [k \in 1 .. count |-> getPublicKey(k - 1, r.internalIndex, r.keys)]

\* The keys of the first participants are where their indexes say.
KeysInPlace(r, count) ==
    \A k \in 0 .. count - 1 :
        k # r.internalIndex => r.keys[tmpIndex(k, r.internalIndex)].index = k

-----------------------------------------------------------------------------
\* Properties.

\* The screens list exactly the keys that were hashed, in the order they were
\* hashed, one per participant, for any memory the request is read from: three
\* different ways of skipping the device's own key agree (addr.c:72-83,
\* crypto_helper.c:160-169, addr.c:159-173).
ShownKeysAreHashedKeys ==
    pc = "review" =>
        /\ numberOfPubkeys + 1 = request.participants
        /\ hashed = ShownKeys(request, numberOfPubkeys + 1)

\* A well-formed request of up to the given number of participants: within the
\* settings, of the length its keys take, and with every index but the device's own.
WellFormed(r, most) ==
    /\ r.participants \in 1 .. most
    /\ r.approvers \in 1 .. r.participants
    /\ r.internalIndex < r.participants
    /\ r.length = HeaderSize(r.type) + PUBKEY_ITEM_SIZE * (r.participants - 1)
    /\ \A k \in 0 .. r.participants - 2 :
        r.keys[k].index = IF k < r.internalIndex THEN k ELSE k + 1

\* One more than the keys whose size a uint8_t can hold.
MostServed == 8

\* No well-formed request of up to eight participants is refused, whatever lies in
\* memory after it (addr.c:43-124, crypto_helper.c:149-152).
WellFormedAccepted == pc = "refused" => ~WellFormed(request, MostServed)

\* An account put on screen satisfies the settings check, and what is in its
\* external slots is what the indexes say (addr.c:67-83, crypto_helper.c:149).
ReviewedAccountIsSound ==
    pc = "review" =>
        /\ 1 <= request.approvers /\ request.approvers <= request.participants
        /\ KeysInPlace(request, request.participants)

\* Every request is decided: both loops end (addr.c:74, crypto_helper.c:162).
RequestDecided == pc = "sizes" ~> pc \in {"review", "refused"}

\* How many steps of the handler are left at most: the rounds of the loop at hand,
\* whichever keys come next, and the stages behind it.
StepsLeft ==
    CASE pc = "sizes" -> 22
      [] pc = "match" -> 12 + numberOfPubkeys + 1 - i
      [] pc = "encode" -> 11
      [] pc = "hash" -> 1 + request.participants - i
      [] OTHER -> 0

\* Every step of the handler brings its decision nearer, for any counts and indexes the
\* memory holds, those no participant has and those past the counter's end among them:
\* no round of a loop is repeated, and 22 steps decide (addr.c:74, crypto_helper.c:162).
EveryStepDecides == [][Decide => StepsLeft' \in 0 .. StepsLeft - 1]_vars

\* What the comments at addr.c:60 and addr.c:91 say of an accepted request: its
\* keys fill a whole number of items.
BufferIsMultipleOfItem ==
    pc = "review" =>
        /\ request.length >= HeaderSize(request.type)
        /\ (request.length - HeaderSize(request.type)) % PUBKEY_ITEM_SIZE = 0

\* What MAX_MULTISIG_PUB_KEY and docs/APDUSPEC.md:307-314 say of participants: an
\* account of up to ten is served.
TenParticipantsAccepted == pc = "refused" => ~WellFormed(request, MAX_MULTISIG_PUB_KEY)
=============================================================================
