-------------------------- MODULE AddressEncoding --------------------------
(***************************************************************************)
(* From a request to an address: crypto_fillAddress* of app/src/crypto.c   *)
(* and crypto_encode*Pubkey of app/src/crypto_helper.c over the one static *)
(* hasher of Zxblake3.  An address hashes a template that names the type,  *)
(* and the key of a wallet, or the settings and keys of an account, or the *)
(* numbers of a vault after the vesting address of its owner: a hash of    *)
(* its own, through the same hasher.  Refusals in the middle leave the     *)
(* hasher as it is for the next request.                                   *)
(*                                                                         *)
(* The keys of an account come here in the order of the participants       *)
(* (AddressRequest has how); keys are opaque.  A transaction's screen that *)
(* shows a key as a wallet address makes the same calls as a request for a *)
(* wallet.                                                                 *)
(***************************************************************************)
EXTENDS Zxblake3, ScaleEncoder

CONSTANTS
    Pubkey,         \* The keys, opaque.
    StrayByte,      \* What may lie behind the array encNum.
    Requests,       \* The requests that are made.
    NoRequest

ADDRESS_LENGTH == 24

PUB_KEY_LENGTH == 32

MAX_MULTISIG_PUB_KEY == 10

ENC_NUM_SIZE == 8

AccountType == {"WALLET", "MULTISIG", "VESTING", "VAULT"}

\* internal is the key the device derives; keys has it too, at its own index.
\* numbers: totalAmount, initialUnlockAmount, vestingStart, vestingEnd.
Request ==
    [type : AccountType, internal : Pubkey, approvers : Byte, keys : Seq(Pubkey),
     numbers : [1 .. 4 -> UInt64]]

\* A participant's index is a byte.
participants(r) == Len(r.keys)

ASSUME EncodingAssumption ==
    /\ Requests \subseteq Request
    /\ \A r \in Requests : participants(r) \in Byte
    /\ NoRequest \notin Requests
    /\ StrayByte \subseteq Byte

\* The longest input, an account of MAX_MULTISIG_PUB_KEY participants, is allowed.
ASSUME InputAssumption ==
    /\ MAX_INPUT_LEN \in Nat
    /\ MAX_INPUT_LEN >= ADDRESS_LENGTH + 2 + MAX_MULTISIG_PUB_KEY * PUB_KEY_LENGTH

VARIABLES
    request,        \* addr_request, or the account 0 wallet.
    pc,             \* The next step of the encoder: see Stages.
    encoding,       \* The type of the address that is being hashed.
    i,              \* The participants or numbers hashed so far.
    addressVesting, \* The owner's address, once it is there.
    response        \* What lies in the reply buffer and addrResponseLen covers.

localVars == <<encoding, i, addressVesting>>

hasherVars == <<zxblake3, accumInLen>>

vars == <<request, pc, localVars, response, hasherVars>>

Stages ==
    {"idle", "derive", "init", "template", "pubkey", "settings", "approvers", "participants",
     "keys", "vesting", "numbers", "finalize", "done", "refused", "failed"}

NoAddress == <<>>

NoResponse == [pubkey |-> {}, address |-> NoAddress]

-----------------------------------------------------------------------------
\* The pieces that are hashed.

\* Mutant: the type is missing from the template.
untypedTemplate(type) == <<"template", "UNKNOWN">>

\* ADDRESS_LENGTH bytes, all zero but the last.
template(type) == <<"template", type>>

key(pubkey) == <<"key", pubkey>>

byte(b) == <<"byte", b>>

bytes(s) == [k \in 1 .. Len(s) |-> byte(s[k])]

address(a) == <<"address", a>>

\* The last twenty bytes of the hash behind four zeros: still one per stream.
Address(hash) == hash

PlainPiece == ({"template"} \X AccountType) \cup ({"key"} \X Pubkey) \cup ({"byte"} \X Byte)

Piece == PlainPiece \cup ({"address"} \X Seq(PlainPiece))

\* Types of the state; the loops stay inside their arrays.
TypeOK ==
    /\ request \in Requests \cup {NoRequest}
    /\ pc \in Stages
    /\ pc # "idle" => request \in Requests
    /\ encoding \in AccountType
    /\ i \in 0 .. MAX_MULTISIG_PUB_KEY
    /\ addressVesting \in Seq(PlainPiece)
    /\ zxblake3 \in Seq(Piece)
    /\ accumInLen \in 0 .. MAX_INPUT_LEN
    /\ response = NoResponse \/ response \in [pubkey : Pubkey, address : Seq(Piece)]

-----------------------------------------------------------------------------

Init ==
    /\ request = NoRequest
    /\ pc = "idle"
    /\ encoding = "WALLET"
    /\ i = 0
    /\ addressVesting = NoAddress
    /\ response = NoResponse
    /\ zxblake3 = <<>>
    /\ accumInLen = 0

\* The reply buffer is cleared first.
FillAddress ==
    /\ pc = "idle"
    /\ request' \in Requests
    /\ pc' = "derive"
    /\ response' = NoResponse
    /\ UNCHANGED <<localVars, hasherVars>>

\* A failed derivation ends the request before anything is hashed.
ExtractPublicKeyFails ==
    /\ pc = "derive"
    /\ pc' = "failed"
    /\ UNCHANGED <<request, localVars, response, hasherVars>>

\* A vault begins with its owner, a vesting account.
FirstEncoding(type) == IF type = "VAULT" THEN "VESTING" ELSE type

ExtractPublicKey ==
    /\ pc = "derive"
    /\ encoding' = FirstEncoding(request.type)
    /\ pc' = "init"
    /\ UNCHANGED <<request, i, addressVesting, response, hasherVars>>

HashInit ==
    /\ pc = "init"
    /\ hash_init
    /\ i' = 0
    /\ pc' = "template"
    /\ UNCHANGED <<request, encoding, addressVesting, response>>

\* CHECK_PARSER_OK(zxblake3_hash_update(...)).
Update(in, inLen, next) ==
    \/ hash_update(in, inLen) /\ pc' = next
    \/ hash_update_refused(inLen) /\ pc' = "refused"

AfterTemplate(type) ==
    CASE type = "WALLET" -> "pubkey"
      [] type \in {"MULTISIG", "VESTING"} -> "settings"
      [] type = "VAULT" -> "vesting"

HashTemplate ==
    /\ pc = "template"
    /\ Update(<<template(encoding)>>, ADDRESS_LENGTH, AfterTemplate(encoding))
    /\ UNCHANGED <<request, localVars, response>>

HashWalletPubkey ==
    /\ pc = "pubkey"
    /\ Update(<<key(request.internal)>>, PUB_KEY_LENGTH, "finalize")
    /\ UNCHANGED <<request, localVars, response>>

\* Mutant: as many participants as a byte holds.
SettingsAcceptedUnbounded(r) == r.approvers <= participants(r) /\ r.approvers # 0

SettingsAccepted(r) ==
    /\ r.approvers <= participants(r)
    /\ r.approvers # 0
    /\ participants(r) <= MAX_MULTISIG_PUB_KEY

\* The hasher has absorbed the template by now and keeps it.
CheckSettings ==
    /\ pc = "settings"
    /\ pc' = IF SettingsAccepted(request) THEN "approvers" ELSE "refused"
    /\ UNCHANGED <<request, localVars, response, hasherVars>>

HashApprovers ==
    /\ pc = "approvers"
    /\ Update(<<byte((4 * request.approvers) % 256)>>, 1, "participants")
    /\ UNCHANGED <<request, localVars, response>>

HashParticipants ==
    /\ pc = "participants"
    /\ Update(<<byte((4 * participants(request)) % 256)>>, 1, "keys")
    /\ UNCHANGED <<request, localVars, response>>

HashKey ==
    /\ pc = "keys"
    /\ i < participants(request)
    /\ Update(<<key(request.keys[i + 1])>>, PUB_KEY_LENGTH, "keys")
    /\ i' = i + 1
    /\ UNCHANGED <<request, encoding, addressVesting, response>>

KeysDone ==
    /\ pc = "keys"
    /\ i = participants(request)
    /\ pc' = "finalize"
    /\ UNCHANGED <<request, localVars, response, hasherVars>>

HashVestingAddress ==
    /\ pc = "vesting"
    /\ Update(<<address(addressVesting)>>, ADDRESS_LENGTH, "numbers")
    /\ UNCHANGED <<request, localVars, response>>

\* An encoding longer than encNum is written past its end and read back from there:
\* undefined, so that the last byte is any that lies there.
ReadBack(encNum) ==
    {encNum} \cup
    {[encNum EXCEPT ![Len(encNum)] = stray] :
        stray \in IF Len(encNum) > ENC_NUM_SIZE THEN StrayByte ELSE {}}

updateScaleEncodedNumber ==
    /\ pc = "numbers"
    /\ i < 4
    /\ \E encNum \in ReadBack(scaleEncodeUint64(request.numbers[i + 1])) :
        Update(bytes(encNum), Len(encNum), "numbers")
    /\ i' = i + 1
    /\ UNCHANGED <<request, encoding, addressVesting, response>>

NumbersDone ==
    /\ pc = "numbers"
    /\ i = 4
    /\ pc' = "finalize"
    /\ UNCHANGED <<request, localVars, response, hasherVars>>

\* Mutant: the vault goes on with the hasher of its owner.
StageAfterOwnerKeepingHasher == "template"

\* The vault's own hash starts afresh.
StageAfterOwner == "init"

FinalizeOwner ==
    /\ pc = "finalize"
    /\ encoding # request.type
    /\ addressVesting' = Address(hash_finalize)
    /\ encoding' = "VAULT"
    /\ pc' = StageAfterOwner
    /\ UNCHANGED <<request, i, response, hasherVars>>

Finalize ==
    /\ pc = "finalize"
    /\ encoding = request.type
    /\ response' = [pubkey |-> request.internal, address |-> Address(hash_finalize)]
    /\ pc' = "done"
    /\ UNCHANGED <<request, localVars, hasherVars>>

\* The request is answered; its locals are gone, the hasher is not.
Dismiss ==
    /\ pc \in {"done", "refused", "failed"}
    /\ pc' = "idle"
    /\ request' = NoRequest
    /\ encoding' = "WALLET"
    /\ i' = 0
    /\ addressVesting' = NoAddress
    /\ response' = NoResponse
    /\ UNCHANGED hasherVars

Next ==
    \/ FillAddress \/ ExtractPublicKeyFails \/ ExtractPublicKey
    \/ HashInit \/ HashTemplate \/ HashWalletPubkey
    \/ CheckSettings \/ HashApprovers \/ HashParticipants \/ HashKey \/ KeysDone
    \/ HashVestingAddress \/ updateScaleEncodedNumber \/ NumbersDone
    \/ FinalizeOwner \/ Finalize
    \/ Dismiss

Spec == Init /\ [][Next]_vars

-----------------------------------------------------------------------------
\* Properties.

\* The input an account's address should hash.
AccountInput(type, r) ==
    <<template(type), byte((4 * r.approvers) % 256), byte((4 * participants(r)) % 256)>>
        \o [k \in 1 .. participants(r) |-> key(r.keys[k])]

Number(r, k) == bytes(scaleEncodeUint64(r.numbers[k]))

\* The input a request's address should hash.
Input(r) ==
    CASE r.type = "WALLET" -> <<template("WALLET"), key(r.internal)>>
      [] r.type \in {"MULTISIG", "VESTING"} -> AccountInput(r.type, r)
      [] r.type = "VAULT" ->
            <<template("VAULT"), address(Address(AccountInput("VESTING", r)))>>
                \o Number(r, 1) \o Number(r, 2) \o Number(r, 3) \o Number(r, 4)

\* The numbers of a request are small enough for encNum.
NumbersFit(r) ==
    r.type = "VAULT" => \A k \in 1 .. 4 : Len(scaleEncodeUint64(r.numbers[k])) <= ENC_NUM_SIZE

\* The address in the reply hashes the request it answers, all of it and nothing
\* else, whatever earlier requests left in the shared hasher, and although a vault's
\* own hash interrupts nothing of its owner's (crypto_helper.c:109-210).
AddressIsOfItsRequest ==
    pc = "done" /\ NumbersFit(request) =>
        response = [pubkey |-> request.internal, address |-> Address(Input(request))]

\* An account of at most MAX_MULTISIG_PUB_KEY participants that its approvers can satisfy.
Sound(r) == participants(r) \in 1 .. MAX_MULTISIG_PUB_KEY /\ r.approvers \in 1 .. participants(r)

\* Only an unsound account is refused: the count of the input, kept
\* across requests in a static, never runs into its limit, after any history of
\* complete and abandoned hashes (zxblake3.c:79, crypto_helper.c:149).
SoundRequestServed ==
    pc = "refused" => request.type # "WALLET" /\ ~Sound(request)

\* What an address stands for.
SameAccount(a, b) ==
    /\ a.type = b.type
    /\ IF a.type = "WALLET" THEN a.internal = b.internal
       ELSE a.approvers = b.approvers /\ a.keys = b.keys
    /\ a.type = "VAULT" => a.numbers = b.numbers

\* No other account that gets an address has this one: type, threshold, order of the
\* keys and all four numbers can be told from what is hashed.  Of an approvers' count
\* only six bits are hashed, so this needs the check of the settings to come first: 65
\* approvers would hash like 1 (crypto_helper.c:45-107, 129-210).
DistinctAccountsDistinctAddresses ==
    pc = "done" /\ NumbersFit(request) =>
        \A other \in Requests :
            (other.type = "WALLET" \/ Sound(other)) /\ response.address = Address(Input(other)) =>
                SameAccount(other, request)

\* The reader of compact integers (below its limit, out of reach of TLC's integers).
Reader == INSTANCE Scale WITH MaxCompact <- 2^30

\* Where each number begins in a run of encodings, as the reader finds it.
NumberStart(encoded) ==
    LET start[k \in 1 .. 5] ==
            IF k = 1 THEN 1
            ELSE IF start[k - 1] > Len(encoded) THEN start[k - 1]
            ELSE start[k - 1] + Reader!compactLen(encoded[start[k - 1]])
    IN  start

\* A number is read from its encoding; one of many bytes is compared byte by byte.
ReadsAs(encoded, v) ==
    IF Len(encoded) <= 4
    THEN Reader!getValue(encoded) = Reader!LittleEndian(v, 1, 4)
    ELSE /\ \A k \in 1 .. Len(encoded) - 1 : encoded[k + 1] = v[k]
         /\ \A k \in Len(encoded) .. 8 : v[k] = 0

\* The four numbers a vault's address hashes are those the application's own reader of
\* compact integers would read back, one after the other to the last byte: encoder and
\* decoder are two files and two authors (crypto_helper.c:45-107,
\* parser_impl_common.c:22-103).
HashedNumbersReadBack ==
    pc = "done" /\ request.type = "VAULT" /\ NumbersFit(request) =>
        LET encoded == [k \in 1 .. Len(response.address) - 2 |-> response.address[k + 2][2]]
            start == NumberStart(encoded)
        IN  /\ start[5] = Len(encoded) + 1
            /\ \A k \in 1 .. 4 :
                ReadsAs(SubSeq(encoded, start[k], start[k + 1] - 1), request.numbers[k])

\* What docs/APDUSPEC.md:320-321 says of a vault's amounts, any number of 64 bits: its
\* encoding fits the array it is written to.
NumbersFitTheirArray ==
    pc = "numbers" /\ i < 4 =>
        Len(scaleEncodeUint64(request.numbers[i + 1])) <= ENC_NUM_SIZE
=============================================================================
