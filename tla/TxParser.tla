------------------------------ MODULE TxParser ------------------------------
(***************************************************************************)
(* A transaction to sign: _read and its helpers (parser_impl.c,            *)
(* parser_impl_common.c, scale_helper.c) read the upload into tx_obj field *)
(* by field, parser_validate goes through the screens once, and the print  *)
(* functions of parser.c choose the field of each screen.                  *)
(*                                                                         *)
(* The order of the fields is data of the parser (todo): the method and    *)
(* the template's last byte append to it.  A field of bytes is its place   *)
(* in the upload, a number its value.  Texts and pages are left out.       *)
(***************************************************************************)
EXTENDS Scale

CONSTANTS
    GENESIS_LENGTH,
    ADDRESS_LENGTH,
    PUB_KEY_LENGTH,
    MAX_MULTISIG_PUB_KEY,
    UINT32_MAX,     \* The limit of the vesting layers (scaled down like MaxCompact).
    Payloads,       \* The uploads a host sends.
    Transactions    \* The transactions that hosts may mean by them.

\* Every screen of an account of MAX_MULTISIG_PUB_KEY keys has an index that an int8_t holds.
ASSUME LengthAssumption ==
    /\ GENESIS_LENGTH \in Nat \ {0} /\ ADDRESS_LENGTH \in Nat \ {0} /\ PUB_KEY_LENGTH \in Nat \ {0}
    /\ MAX_MULTISIG_PUB_KEY \in Nat \ {0} /\ 9 + 2 * MAX_MULTISIG_PUB_KEY <= 127
    /\ UINT32_MAX \in Nat
    /\ Payloads \subseteq Seq(0 .. 255)

TX_VERSION == 0

METHOD_SPAWN == 0
METHOD_SPEND == 16
METHOD_DRAIN_VAULT == 17

UNKNOWN == 0
WALLET == 1
MULTISIG == 2
VESTING == 3
VAULT == 4

\* The fields of fixed length, and their lengths.
FixedLength ==
    [name \in {"genesisId", "principal", "account_template", "destination", "vault", "owner",
             "walletPubkey", "pubkey"} |->
        CASE name = "genesisId" -> GENESIS_LENGTH
          [] name \in {"walletPubkey", "pubkey"} -> PUB_KEY_LENGTH
          [] OTHER -> ADDRESS_LENGTH]

\* The compact integers, and the width of each in tx_obj.
CompactMax ==
    [name \in {"tx_version", "methodSelector", "nonce", "gas_price", "amount", "approvers",
               "numberOfPubkeys", "totalAmount", "initialUnlockAmount", "vestingStart", "vestingEnd"} |->
        CASE name \in {"tx_version", "methodSelector", "approvers", "numberOfPubkeys"} -> UINT8_MAX
          [] name \in {"vestingStart", "vestingEnd"} -> UINT32_MAX
          [] OTHER -> MaxCompact]

FieldName == DOMAIN FixedLength \cup DOMAIN CompactMax

\* A field, and which of the keys it is.
Field == [name : FieldName, key : Nat]

Fields(names) == [k \in DOMAIN names |-> [name |-> names[k], key |-> 0]]

\* Where a field lies in an upload.
Part == [field : Field, ptr : Nat, len : Nat]

\* A transaction is its numbers, the type of the account it spawns, and the places of its fields.
ASSUME TransactionAssumption ==
    Transactions \subseteq [type : 0 .. 255, number : [DOMAIN CompactMax -> Nat], parts : Seq(Part)]

VARIABLES
    payload,        \* The upload.
    expert,         \* app_mode_expert().
    pc,             \* The stage reached.
    offset,         \* ctx_parsed_tx.offset.
    todo,           \* The fields still to be read.
    tx,             \* tx_obj: account_type, places of bytes, values of numbers.
    read            \* History: the fields read so far, with their places.

vars == <<payload, expert, pc, offset, todo, tx, read>>

Stages == {"idle", "read", "validate", "review", "refused"}

Slice == [ptr : Nat, len : Nat]

\* Types of the state; the cursor stays inside the upload.
TypeOK ==
    /\ payload \in Seq(0 .. 255)
    /\ expert \in BOOLEAN
    /\ pc \in Stages
    /\ offset \in 0 .. Len(payload)
    /\ todo \in Seq(Field)
    /\ tx \in [account_type : {UNKNOWN, WALLET, MULTISIG, VESTING, VAULT},
               bytes : [DOMAIN FixedLength -> Slice],
               pubkey : [0 .. MAX_MULTISIG_PUB_KEY - 1 -> Slice],
               number : [DOMAIN CompactMax -> Nat]]
    /\ read \in Seq(Part)

-----------------------------------------------------------------------------

NoBytes == [ptr |-> 0, len |-> 0]

\* MEMZERO(&tx_obj).
ClearedTx ==
    [account_type |-> UNKNOWN,
     bytes |-> [name \in DOMAIN FixedLength |-> NoBytes],
     pubkey |-> [k \in 0 .. MAX_MULTISIG_PUB_KEY - 1 |-> NoBytes],
     number |-> [name \in DOMAIN CompactMax |-> 0]]

\* Mutant: tx_parse starts from the last transaction's object.
KeptTx == tx

\* What tx_parse starts from.
StartTx == ClearedTx

Header == Fields(<<"genesisId", "tx_version", "principal", "methodSelector">>)

Init ==
    /\ payload = <<>>
    /\ expert \in BOOLEAN
    /\ pc = "idle"
    /\ offset = 0
    /\ todo = <<>>
    /\ tx = ClearedTx
    /\ read = <<>>

\* tx_parse, on the last chunk of a transaction.
Receive(upload) ==
    /\ pc = "idle"
    /\ payload' = upload
    /\ offset' = 0
    /\ todo' = Header
    /\ tx' = StartTx
    /\ read' = <<>>
    /\ pc' = IF upload = <<>> THEN "refused" ELSE "read"
    /\ UNCHANGED expert

\* The menu of the device.
ToggleExpert ==
    /\ pc = "idle"
    /\ expert' = ~expert
    /\ UNCHANGED <<payload, pc, offset, todo, tx, read>>

-----------------------------------------------------------------------------
\* _read.

Available(size) == offset + size <= Len(payload)

Refuse == pc' = "refused" /\ UNCHANGED <<offset, todo, tx, read>>

ReadNext(field, size) ==
    /\ offset' = offset + size
    /\ read' = Append(read, [field |-> field, ptr |-> offset, len |-> size])
    /\ UNCHANGED pc

\* Mutant: one byte is enough.
FitsOneByte(size) == Available(1)

Fits(size) == Available(size)

\* readFixedArray.
ReadBytes ==
    /\ pc = "read" /\ todo # <<>>
    /\ Head(todo).name \in DOMAIN FixedLength
    /\ LET field == Head(todo)
           size == FixedLength[field.name]
           slice == [ptr |-> offset, len |-> size]
       IN  IF Fits(size)
           THEN /\ ReadNext(field, size)
                /\ tx' = IF field.name = "pubkey"
                         THEN [tx EXCEPT !.pubkey[field.key] = slice]
                         ELSE [tx EXCEPT !.bytes[field.name] = slice]
                /\ todo' = Tail(todo)
           ELSE Refuse
    /\ UNCHANGED <<payload, expert>>

\* The last byte of the template.
accountType == LET template == tx.bytes["account_template"] IN payload[template.ptr + template.len]

SpawnedType == IF accountType \in {WALLET, MULTISIG, VESTING, VAULT} THEN accountType ELSE tx.account_type

SpawnFields(type) ==
    CASE type = WALLET -> Fields(<<"walletPubkey">>)
      [] type \in {MULTISIG, VESTING} -> Fields(<<"approvers", "numberOfPubkeys">>)
      [] type = VAULT -> Fields(<<"owner", "totalAmount", "initialUnlockAmount", "vestingStart", "vestingEnd">>)
      [] OTHER -> <<>>

\* Mutant: the destination of a drain is read before the vault.
MethodFieldsSwapped(methodSelector) ==
    CASE methodSelector = METHOD_SPAWN -> Fields(<<"account_template", "nonce", "gas_price">>)
      [] methodSelector = METHOD_SPEND -> Fields(<<"nonce", "gas_price", "destination", "amount">>)
      [] methodSelector = METHOD_DRAIN_VAULT ->
            Fields(<<"nonce", "gas_price", "destination", "vault", "amount">>)

MethodFields(methodSelector) ==
    CASE methodSelector = METHOD_SPAWN -> Fields(<<"account_template", "nonce", "gas_price">>)
      [] methodSelector = METHOD_SPEND -> Fields(<<"nonce", "gas_price", "destination", "amount">>)
      [] methodSelector = METHOD_DRAIN_VAULT ->
            Fields(<<"nonce", "gas_price", "vault", "destination", "amount">>)

KeyFields(count) == [k \in 1 .. count |-> [name |-> "pubkey", key |-> k - 1]]

\* What a number of the transaction makes the parser read next.
FieldsAfter(name, value) ==
    CASE name = "methodSelector" -> MethodFields(value)
      [] name = "gas_price" /\ tx.number["methodSelector"] = METHOD_SPAWN -> SpawnFields(accountType)
      [] name = "numberOfPubkeys" -> KeyFields(value)
      [] OTHER -> <<>>

\* The checks on a number, against the numbers read before it.
Accepted(name, value) ==
    /\ value \in 0 .. CompactMax[name]
    /\ name = "tx_version" => value = TX_VERSION
    /\ name = "methodSelector" => value \in {METHOD_SPAWN, METHOD_SPEND, METHOD_DRAIN_VAULT}
    /\ name = "approvers" => value <= MAX_MULTISIG_PUB_KEY
    /\ name = "numberOfPubkeys" => value \in tx.number["approvers"] .. MAX_MULTISIG_PUB_KEY
    /\ name = "initialUnlockAmount" => value <= tx.number["totalAmount"]
    /\ name = "vestingEnd" => tx.number["vestingStart"] <= value

\* readCompactU8, readCompactU32 and readCompactU64.
ReadCompact ==
    /\ pc = "read" /\ todo # <<>>
    /\ Head(todo).name \in DOMAIN CompactMax
    /\ IF Available(1) /\ Available(compactLen(payload[offset + 1]))
       THEN LET field == Head(todo)
                size == compactLen(payload[offset + 1])
                value == getValue(SubSeq(payload, offset + 1, offset + size))
            IN  IF value # OutOfRange /\ Accepted(field.name, value)
                THEN /\ ReadNext(field, size)
                     /\ todo' = Tail(todo) \o FieldsAfter(field.name, value)
                     /\ tx' = [tx EXCEPT !.number[field.name] = value,
                                         !.account_type =
                                            IF field.name = "gas_price" /\ tx.number["methodSelector"] = METHOD_SPAWN
                                            THEN SpawnedType ELSE @]
                ELSE Refuse
       ELSE Refuse
    /\ UNCHANGED <<payload, expert>>

\* Mutant: bytes behind the last field are accepted.
ParsedEnough == offset <= Len(payload)

\* Nothing may follow the last field.
AllParsed == offset = Len(payload)

ReadEnd ==
    /\ pc = "read" /\ todo = <<>>
    /\ pc' = IF AllParsed THEN "validate" ELSE "refused"
    /\ UNCHANGED <<payload, expert, offset, todo, tx, read>>

-----------------------------------------------------------------------------
\* The screens.

NoItem == [name |-> "none", key |-> 0]

Title(text) == [name |-> text, key |-> 0]

\* parser_getNumItems; 0 for parser_unexpected_value.
numItems(obj, inExpert) ==
    LET method == obj.number["methodSelector"] IN
    CASE method = METHOD_SPAWN /\ obj.account_type = WALLET -> IF inExpert THEN 7 ELSE 3
      [] method = METHOD_SPAWN /\ obj.account_type \in {MULTISIG, VESTING} ->
            (IF inExpert THEN 9 ELSE 5) + 2 * obj.number["numberOfPubkeys"]
      [] method = METHOD_SPAWN /\ obj.account_type = VAULT -> IF inExpert THEN 12 ELSE 8
      [] method = METHOD_SPEND -> IF inExpert THEN 8 ELSE 5
      [] method = METHOD_DRAIN_VAULT -> IF inExpert THEN 9 ELSE 6
      [] OTHER -> 0

WalletItems ==
    <<Title("Wallet spawn")>> \o
    Fields(<<"principal", "gas_price", "account_template", "nonce", "methodSelector", "genesisId">>)

VaultItems ==
    <<Title("Vault spawn")>> \o
    Fields(<<"principal", "gas_price", "owner", "totalAmount", "initialUnlockAmount", "vestingStart",
             "vestingEnd", "account_template", "nonce", "methodSelector", "genesisId">>)

SpendItems ==
    <<Title("Spend")>> \o
    Fields(<<"principal", "destination", "amount", "gas_price", "nonce", "methodSelector", "genesisId">>)

DrainItems ==
    <<Title("Vault drain")>> \o
    Fields(<<"principal", "vault", "destination", "amount", "gas_price", "nonce", "methodSelector",
             "genesisId">>)

pubkeysStart == 5

\* Mutant: the indexes behind the keys are one too low.
adjustedIdxOneLow(displayIdx, count) ==
    IF displayIdx < pubkeysStart THEN displayIdx
    ELSE IF displayIdx < pubkeysStart + 2 * count THEN pubkeysStart
    ELSE displayIdx - 2 * count

\* The case of printMultisigSpawn that shows a screen.
adjustedIdx(displayIdx, count) ==
    IF displayIdx < pubkeysStart THEN displayIdx
    ELSE IF displayIdx < pubkeysStart + 2 * count THEN pubkeysStart
    ELSE displayIdx - 2 * count + 1

\* Two screens a key: the key, and the address of its wallet.
KeyItem(displayIdx) ==
    LET tmpDisplayIdx == displayIdx - pubkeysStart IN
    [name |-> IF tmpDisplayIdx % 2 = 0 THEN "pubkey" ELSE "Address", key |-> tmpDisplayIdx \div 2]

\* Mutant: a vesting account is shown like any other.
multisigTitleOfBoth(type) == "Multisig spawn"

multisigTitle(type) == IF type = MULTISIG THEN "Multisig spawn" ELSE "Vesting spawn"

\* The cases of printMultisigSpawn; the keys' own is KeyItem.
MultisigCases(type) ==
    <<Title(multisigTitle(type))>> \o Fields(<<"principal", "gas_price", "numberOfPubkeys", "approvers">>) \o
    <<Title("Keys")>> \o Fields(<<"account_template", "nonce", "methodSelector", "genesisId">>)

CaseOf(items, displayIdx) == IF displayIdx < Len(items) THEN items[displayIdx + 1] ELSE NoItem

\* printTxnFields.
getItem(obj, displayIdx) ==
    LET method == obj.number["methodSelector"]
        count == obj.number["numberOfPubkeys"]
        adjusted == adjustedIdx(displayIdx, count)
    IN
    CASE method = METHOD_SPEND -> CaseOf(SpendItems, displayIdx)
      [] method = METHOD_DRAIN_VAULT -> CaseOf(DrainItems, displayIdx)
      [] method = METHOD_SPAWN /\ obj.account_type = WALLET -> CaseOf(WalletItems, displayIdx)
      [] method = METHOD_SPAWN /\ obj.account_type = VAULT -> CaseOf(VaultItems, displayIdx)
      [] method = METHOD_SPAWN /\ obj.account_type \in {MULTISIG, VESTING} ->
            IF adjusted = pubkeysStart THEN KeyItem(displayIdx) ELSE CaseOf(MultisigCases(obj.account_type), adjusted)
      [] OTHER -> NoItem

\* Mutant: the same comparison as tx_getItem's.
checkSanityLoose(items, displayIdx) == displayIdx <= items

checkSanity(items, displayIdx) == displayIdx < items

\* The index comes as an int8_t and is read as a uint8_t.
parser_getItem(displayIdx) ==
    LET idx == displayIdx % 256 IN
    IF checkSanity(numItems(tx, expert), idx) THEN getItem(tx, idx) ELSE NoItem

tx_getItem(displayIdx) ==
    IF displayIdx > numItems(tx, expert) THEN NoItem ELSE parser_getItem(displayIdx)

Screens == [idx \in 0 .. numItems(tx, expert) - 1 |-> parser_getItem(idx)]

\* parser_validate prints every item once and discards the text.
Validate ==
    /\ pc = "validate"
    /\ pc' = IF Screens # <<>> /\ \A idx \in DOMAIN Screens : Screens[idx] # NoItem
             THEN "review" ELSE "refused"
    /\ UNCHANGED <<payload, expert, offset, todo, tx, read>>

\* The review or the refusal is answered; tx_obj stays as it is.
Answer ==
    /\ pc \in {"review", "refused"}
    /\ pc' = "idle"
    /\ payload' = <<>>
    /\ offset' = 0
    /\ todo' = <<>>
    /\ read' = <<>>
    /\ UNCHANGED <<expert, tx>>

Next ==
    \/ \E upload \in Payloads : Receive(upload)
    \/ ToggleExpert
    \/ ReadBytes
    \/ ReadCompact
    \/ ReadEnd
    \/ Validate
    \/ Answer

Spec == Init /\ [][Next]_vars

-----------------------------------------------------------------------------
\* Properties.

\* The value tx_obj holds for a field that was read.
Stored(field) ==
    IF field.name = "pubkey" THEN tx.pubkey[field.key] ELSE tx.bytes[field.name]

\* An accepted upload is its fields and nothing else: they lie one behind the other
\* from the first byte to the last, and tx_obj holds of each what its own bytes say
\* (parser_impl.c:23-50, parser_impl_common.c:22-188).
FieldsTileTheUpload ==
    pc = "review" =>
        /\ read[1].ptr = 0
        /\ \A k \in 1 .. Len(read) :
            LET end == read[k].ptr + read[k].len IN
            /\ end = IF k = Len(read) THEN Len(payload) ELSE read[k + 1].ptr
            /\ IF read[k].field.name \in DOMAIN CompactMax
               THEN tx.number[read[k].field.name] = getValue(SubSeq(payload, read[k].ptr + 1, end))
               ELSE Stored(read[k].field) = [ptr |-> read[k].ptr, len |-> read[k].len]

\* Shown in expert mode only, and never: the version is a constant, and the address
\* of a wallet stands for its key.
ExpertOnly == {"account_template", "nonce", "methodSelector", "genesisId"}

NeverShown == {"tx_version", "walletPubkey"}

Hidden == NeverShown \cup IF expert THEN {} ELSE ExpertOnly

\* The screens show what was read: every field has its screen, no screen comes twice,
\* and none shows a field that this transaction does not have.  The parser, the number
\* of items and the items are three tables kept by hand (parser.c:79-132, 162-468).
ScreensShowTheTransaction ==
    pc = "review" =>
        LET fields == {read[k].field : k \in 1 .. Len(read)}
            shown == {Screens[idx] : idx \in DOMAIN Screens}
        IN  /\ \A m, n \in DOMAIN Screens : Screens[m] = Screens[n] => m = n
            /\ {field \in fields : field.name \notin Hidden} = {item \in shown : item.name \in FieldName}
            /\ {item.key : item \in {x \in shown : x.name = "Address"}} =
                {item.key : item \in {x \in shown : x.name = "pubkey"}}

\* Whatever index the view asks for, below the title's -1 and past the end included, it
\* gets a field exactly for the screens the owner is to see: none that only an expert
\* sees, although tx_getItem itself lets one index too many and every negative one
\* through (common/tx.c:115, parser.c:141-160).
NoOtherScreens ==
    pc = "review" =>
        \A displayIdx \in -128 .. 127 :
            tx_getItem(displayIdx) # NoItem <=> displayIdx \in DOMAIN Screens

-----------------------------------------------------------------------------
\* What a transaction is, as a host encodes it.

\* The fields of a transaction, in the order of their encoding.
Layout(t) ==
    LET method == t.number["methodSelector"] IN
    CASE method = METHOD_SPEND ->
            Fields(<<"genesisId", "tx_version", "principal", "methodSelector", "nonce", "gas_price",
                     "destination", "amount">>)
      [] method = METHOD_DRAIN_VAULT ->
            Fields(<<"genesisId", "tx_version", "principal", "methodSelector", "nonce", "gas_price",
                     "vault", "destination", "amount">>)
      [] method = METHOD_SPAWN /\ t.type = WALLET ->
            Fields(<<"genesisId", "tx_version", "principal", "methodSelector", "account_template", "nonce",
                     "gas_price", "walletPubkey">>)
      [] method = METHOD_SPAWN /\ t.type \in {MULTISIG, VESTING} ->
            Fields(<<"genesisId", "tx_version", "principal", "methodSelector", "account_template", "nonce",
                     "gas_price", "approvers", "numberOfPubkeys">>) \o
            [k \in 1 .. t.number["numberOfPubkeys"] |-> [name |-> "pubkey", key |-> k - 1]]
      [] method = METHOD_SPAWN /\ t.type = VAULT ->
            Fields(<<"genesisId", "tx_version", "principal", "methodSelector", "account_template", "nonce",
                     "gas_price", "owner", "totalAmount", "initialUnlockAmount", "vestingStart",
                     "vestingEnd">>)

\* The settings make sense.
Meaningful(t) ==
    LET number == t.number
        method == number["methodSelector"]
        spawns(types) == method = METHOD_SPAWN /\ t.type \in types
    IN
    /\ number["tx_version"] = TX_VERSION
    /\ method \in {METHOD_SPEND, METHOD_DRAIN_VAULT} \/ spawns({WALLET, MULTISIG, VESTING, VAULT})
    /\ spawns({MULTISIG, VESTING}) =>
        number["approvers"] <= number["numberOfPubkeys"] /\ number["numberOfPubkeys"] <= MAX_MULTISIG_PUB_KEY
    /\ spawns({VAULT}) =>
        number["initialUnlockAmount"] <= number["totalAmount"] /\ number["vestingStart"] <= number["vestingEnd"]

\* A field has its length, or is a number's encoding.
Encodes(upload, part, t) ==
    LET name == part.field.name
        end == part.ptr + part.len
    IN
    /\ name \in DOMAIN FixedLength => part.len = FixedLength[name]
    /\ name \in DOMAIN CompactMax =>
        /\ part.len > 0 /\ part.len = compactLen(upload[part.ptr + 1])
        /\ getValue(SubSeq(upload, part.ptr + 1, end)) = t.number[name]
        /\ t.number[name] <= CompactMax[name]
    /\ name = "account_template" => upload[end] = t.type

\* An upload is this transaction: its fields lie in it one behind the other.
IsTransaction(upload, t) ==
    /\ Meaningful(t)
    /\ Len(t.parts) = Len(Layout(t))
    /\ \A k \in 1 .. Len(t.parts) :
        LET end == t.parts[k].ptr + t.parts[k].len IN
        /\ t.parts[k].field = Layout(t)[k]
        /\ k = 1 => t.parts[k].ptr = 0
        /\ end <= Len(upload)
        /\ end = IF k = Len(t.parts) THEN Len(upload) ELSE t.parts[k + 1].ptr
        /\ Encodes(upload, t.parts[k], t)

\* The transaction that was read.
Reading == [type |-> tx.account_type, number |-> tx.number, parts |-> read]

\* The parser accepts the transactions and nothing else, and reads each as its host means it: what
\* is on screen is a transaction, one that a host means is not refused, and no
\* transaction is read as another (parser_impl.c:23-50, parser_impl_common.c:22-188).
ReadsTransactionsAsMeant ==
    /\ pc = "review" => IsTransaction(payload, Reading)
    /\ \A t \in Transactions :
        IsTransaction(payload, t) =>
            /\ pc # "refused"
            /\ pc = "review" =>
                /\ read = t.parts
                /\ tx.number["methodSelector"] = t.number["methodSelector"]
                /\ t.number["methodSelector"] = METHOD_SPAWN => tx.account_type = t.type
                /\ \A k \in DOMAIN t.parts :
                    LET name == t.parts[k].field.name IN
                    name \in DOMAIN CompactMax => tx.number[name] = t.number[name]

\* The bytes of a field of an upload.
BytesAt(upload, slice) == SubSeq(upload, slice.ptr + 1, slice.ptr + slice.len)

\* The field whose bytes a screen shows: the address of a key's wallet is told by the key.
Source(item) == IF item.name = "Address" THEN [name |-> "pubkey", key |-> item.key] ELSE item

\* What a screen shows: a number, bytes in hexadecimal or bech32, or its title alone.
Text(item, number, upload, slice) ==
    CASE item.name \in DOMAIN CompactMax -> number[item.name]
      [] Source(item).name \in DOMAIN FixedLength -> BytesAt(upload, slice)
      [] OTHER -> <<>>

\* The screens of the review, from what tx_obj holds.
ShownScreens ==
    [idx \in DOMAIN Screens |->
        LET item == Screens[idx] IN
        [item |-> item, text |-> Text(item, tx.number, payload, Stored(Source(item)))]]

\* The screens another upload, being this transaction, would have.
ScreensOf(upload, t) ==
    LET obj == [account_type |-> t.type, number |-> t.number]
        partOf(field) == CHOOSE part \in {t.parts[k] : k \in DOMAIN t.parts} : part.field = field
    IN  [idx \in 0 .. numItems(obj, expert) - 1 |->
            LET item == getItem(obj, idx) IN
            [item |-> item, text |-> Text(item, t.number, upload, partOf(Source(item)))]]

\* The owner can tell from the screens what is signed: a transaction that looks the same is of the
\* same method and for the same type of account, with the same keys, addresses and
\* amounts in the same fields.  Only the fields that have no screen, the nonce for one
\* who is no expert, and how a number is encoded may differ (parser.c:79-132, 162-468).
ScreensTellTheTransaction ==
    pc = "review" =>
        \A t \in Transactions : \A other \in Payloads :
            IsTransaction(other, t) /\ ScreensOf(other, t) = ShownScreens =>
                /\ tx.number["methodSelector"] = t.number["methodSelector"]
                /\ t.number["methodSelector"] = METHOD_SPAWN => tx.account_type = t.type
                /\ Len(read) = Len(t.parts)
                /\ \A k \in 1 .. Len(read) :
                    LET name == read[k].field.name IN
                    /\ t.parts[k].field = read[k].field
                    /\ name \notin Hidden =>
                        IF name \in DOMAIN CompactMax THEN tx.number[name] = t.number[name]
                        ELSE BytesAt(payload, read[k]) = BytesAt(other, t.parts[k])
=============================================================================
