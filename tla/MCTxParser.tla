----------------------------- MODULE MCTxParser -----------------------------
(***************************************************************************)
(* Transactions of every kind with lengths of one or two bytes and at most *)
(* three keys, built the way a host encodes: a list of fields, each with   *)
(* its bytes.  The uploads sent are the transactions, each with one field  *)
(* wrong, each cut off at every byte, and each with a byte too many.       *)
(***************************************************************************)
EXTENDS TxParser, SequencesExt

MCMaxCompact == 2^30 - 1

\* A number and its bytes; a small one takes one byte.
Code(value, bytes) == [value |-> value, bytes |-> bytes]

Enc(value) == Code(value, <<4 * value>>)

\* A list of one field.
Number(name, code) == <<[field |-> Fields(<<name>>)[1], value |-> code.value, bytes |-> code.bytes]>>

Data(name, bytes) == Number(name, Code(0, bytes))

\* 1; 64, the least of two bytes; 16383 and 16384 in four; 1 and the largest in five.
Numbers ==
    {Enc(1), Code(64, <<1, 1>>), Code(16383, <<254, 255, 0, 0>>), Code(16384, <<2, 0, 1, 0>>),
     Code(1, <<3, 1, 0, 0, 0>>), Code(2^30 - 1, <<3, 255, 255, 255, 63>>)}

\* 63 in two bytes, 16382 in four, above the limit, and more than eight bytes.
NotNumbers ==
    {Code(0, bytes) : bytes \in
        {<<253, 0>>, <<250, 255, 0, 0>>, <<3, 0, 0, 0, 64>>, <<23, 1, 0, 0, 0, 0, 0, 0, 0, 0>>}}

Start(version, method) ==
    Data("genesisId", <<9>>) \o Number("tx_version", version) \o
    Data("principal", <<5, 6>>) \o Number("methodSelector", method)

Spend(version, method, nonce) ==
    Start(version, method) \o Number("nonce", nonce) \o Number("gas_price", Enc(2)) \o
    Data("destination", <<7, 8>>) \o Number("amount", Enc(3))

Spends(numbers) == {Spend(Enc(0), Enc(METHOD_SPEND), nonce) : nonce \in numbers}

Drains ==
    {Start(Enc(0), Enc(METHOD_DRAIN_VAULT)) \o Number("nonce", Enc(1)) \o Number("gas_price", Enc(2)) \o
     Data("vault", <<7, 8>>) \o Data("destination", <<8, 9>>) \o Number("amount", amount) :
        amount \in {Enc(1), Code(64, <<1, 1>>)}}

Spawn(type) ==
    Start(Enc(0), Enc(METHOD_SPAWN)) \o Data("account_template", <<0, type>>) \o
    Number("nonce", Enc(1)) \o Number("gas_price", Enc(2))

Wallets == {Spawn(WALLET) \o Data("walletPubkey", <<7>>)}

Multisig(type, approvers, participants, keys) ==
    Spawn(type) \o Number("approvers", Enc(approvers)) \o Number("numberOfPubkeys", Enc(participants)) \o
    [k \in 1 .. keys |-> [field |-> [name |-> "pubkey", key |-> k - 1], value |-> 0, bytes |-> <<6 + k>>]]

Multisigs ==
    {Multisig(type, a, n, n) : type \in {MULTISIG, VESTING}, a \in {0, 1, 3}, n \in 3 .. 3} \cup
    {Multisig(MULTISIG, a, n, n) : a \in {0}, n \in 0 .. 2}

Vault(total, unlock, start, end) ==
    Spawn(VAULT) \o Data("owner", <<7, 8>>) \o Number("totalAmount", total) \o
    Number("initialUnlockAmount", unlock) \o Number("vestingStart", start) \o Number("vestingEnd", end)

\* 100, the limit, and 101.
Hundred == Code(100, <<145, 1>>)

Above == Code(101, <<149, 1>>)

Vaults ==
    {Vault(Enc(3), unlock, Enc(2), end) : unlock \in {Enc(0), Enc(3)}, end \in {Enc(2), Hundred}}

Encoded == Spends(Numbers) \cup Drains \cup Wallets \cup Multisigs \cup Vaults

Wrong ==
    Spends(NotNumbers) \cup
    {Spend(version, Enc(METHOD_SPEND), Enc(1)) : version \in {Enc(1), Code(0, <<1, 0>>)}} \cup
    {Spend(Enc(0), method, Enc(1)) : method \in {Enc(1), Code(64, <<1, 1>>)}} \cup
    {Spawn(UNKNOWN), Spawn(5), Spawn(5) \o Data("walletPubkey", <<7>>)} \cup
    {Multisig(MULTISIG, 2, 1, 1), Multisig(MULTISIG, 4, 4, 4), Multisig(VESTING, 3, 4, 4),
     Multisig(VESTING, 1, 2, 1), Multisig(MULTISIG, 1, 1, 2)} \cup
    {Vault(Enc(3), Enc(4), Enc(2), Enc(2)), Vault(Enc(3), Enc(3), Enc(2), Enc(1)),
     Vault(Enc(3), Enc(3), Enc(2), Above), Vault(Enc(3), Enc(3), Above, Above)}

\* The upload of a list of fields, and the transaction it means.
UploadOf(list) == FlattenSeq([k \in DOMAIN list |-> list[k].bytes])

Meant(list) ==
    [type |-> IF list[5].field.name = "account_template" THEN list[5].bytes[2] ELSE UNKNOWN,
     number |-> [name \in DOMAIN CompactMax |->
        FoldSeq(LAMBDA entry, value : IF entry.field.name = name THEN entry.value ELSE value, 0, list)],
     parts |-> [k \in DOMAIN list |->
        [field |-> list[k].field, ptr |-> Len(UploadOf(SubSeq(list, 1, k - 1))), len |-> Len(list[k].bytes)]]]

MCGrammar == {UploadOf(list) : list \in Encoded}

MCPayloads ==
    MCGrammar \cup {UploadOf(list) : list \in Wrong} \cup
    UNION {{SubSeq(p, 1, n) : n \in 0 .. Len(p) - 1} : p \in MCGrammar} \cup
    {p \o <<0>> : p \in MCGrammar}

MCTransactions == {Meant(list) : list \in Encoded \cup Wrong}

\* What is encoded here is a transaction, and the others are none.
ASSUME EncodedAssumption ==
    /\ \A list \in Encoded : IsTransaction(UploadOf(list), Meant(list))
    /\ \A list \in Wrong : ~IsTransaction(UploadOf(list), Meant(list))

\* Exactly the transactions a host encodes are put on screen (parser_impl.c:23-50,
\* parser_impl_common.c:22-188, parser.c:58-77).
AcceptsTheGrammar ==
    /\ pc = "review" => payload \in MCGrammar
    /\ pc = "refused" => payload \notin MCGrammar
=============================================================================
