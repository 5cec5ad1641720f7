-------------------------- MODULE TxParser_proofs --------------------------
(***************************************************************************)
(* Proofs about TxParser for any uploads, lengths and limits.  The value   *)
(* that a compact integer stands for is opaque here: getValue is whatever  *)
(* Scale says of its bytes.                                                *)
(***************************************************************************)
EXTENDS TxParser, TLAPS, SequenceTheorems

FieldNames ==
    {"genesisId", "principal", "account_template", "destination", "vault", "owner", "walletPubkey",
     "pubkey", "tx_version", "methodSelector", "nonce", "gas_price", "amount", "approvers",
     "numberOfPubkeys", "totalAmount", "initialUnlockAmount", "vestingStart", "vestingEnd"}

\* Fixed and compact fields have the names they have.
LEMMA Names ==
    /\ FieldName = FieldNames
    /\ \A name \in DOMAIN FixedLength : FixedLength[name] \in Nat
    /\ \A name \in DOMAIN CompactMax : CompactMax[name] \in Nat
    /\ DOMAIN FixedLength \cap DOMAIN CompactMax = {}
<1>1. FieldName = FieldNames
    BY DEF FieldName, FieldNames, FixedLength, CompactMax
<1>2. \A name \in DOMAIN FixedLength : FixedLength[name] \in Nat
    BY LengthAssumption DEF FixedLength
<1>3. \A name \in DOMAIN CompactMax : CompactMax[name] \in Nat
    BY LengthAssumption, CompactAssumption DEF CompactMax, UINT8_MAX
<1>4. DOMAIN FixedLength \cap DOMAIN CompactMax = {}
    BY DEF FixedLength, CompactMax
<1> QED
    BY <1>1, <1>2, <1>3, <1>4

\* A list of names is a list of fields.
LEMMA FieldsType ==
    ASSUME NEW names \in Seq(FieldName)
    PROVE  /\ Fields(names) \in Seq(Field) /\ Len(Fields(names)) = Len(names)
           /\ \A k \in 1 .. Len(names) : Fields(names)[k] = [name |-> names[k], key |-> 0]
<1>1. Fields(names) = [k \in 1 .. Len(names) |-> [name |-> names[k], key |-> 0]]
    BY DEF Fields
<1>2. \A k \in 1 .. Len(names) : [name |-> names[k], key |-> 0] \in Field
    BY DEF Field
<1> QED
    BY <1>1, <1>2

\* The fields a method brings.
LEMMA MethodFieldsType ==
    ASSUME NEW value \in {METHOD_SPAWN, METHOD_SPEND, METHOD_DRAIN_VAULT}
    PROVE  MethodFields(value) \in Seq(Field)
<1>1. /\ <<"account_template", "nonce", "gas_price">> \in Seq(FieldName)
      /\ <<"nonce", "gas_price", "destination", "amount">> \in Seq(FieldName)
      /\ <<"nonce", "gas_price", "vault", "destination", "amount">> \in Seq(FieldName)
    BY Names DEF FieldNames
<1>2. /\ Fields(<<"account_template", "nonce", "gas_price">>) \in Seq(Field)
      /\ Fields(<<"nonce", "gas_price", "destination", "amount">>) \in Seq(Field)
      /\ Fields(<<"nonce", "gas_price", "vault", "destination", "amount">>) \in Seq(Field)
    BY <1>1, FieldsType
<1> QED
    BY <1>2 DEF MethodFields, METHOD_SPAWN, METHOD_SPEND, METHOD_DRAIN_VAULT

\* The fields a template brings, whatever its last byte is.
LEMMA SpawnFieldsType ==
    ASSUME NEW type
    PROVE  SpawnFields(type) \in Seq(Field)
<1>1. /\ <<"walletPubkey">> \in Seq(FieldName)
      /\ <<"approvers", "numberOfPubkeys">> \in Seq(FieldName)
      /\ <<"owner", "totalAmount", "initialUnlockAmount", "vestingStart", "vestingEnd">> \in Seq(FieldName)
    BY Names DEF FieldNames
<1>2. /\ Fields(<<"walletPubkey">>) \in Seq(Field)
      /\ Fields(<<"approvers", "numberOfPubkeys">>) \in Seq(Field)
      /\ Fields(<<"owner", "totalAmount", "initialUnlockAmount", "vestingStart", "vestingEnd">>) \in Seq(Field)
    BY <1>1, FieldsType
<1>3. CASE type = WALLET
    BY <1>2, <1>3 DEF SpawnFields, WALLET, MULTISIG, VESTING, VAULT
<1>4. CASE type = MULTISIG \/ type = VESTING
    BY <1>2, <1>4 DEF SpawnFields, WALLET, MULTISIG, VESTING, VAULT
<1>5. CASE type = VAULT
    BY <1>2, <1>5 DEF SpawnFields, WALLET, MULTISIG, VESTING, VAULT
<1>6. CASE type # WALLET /\ type # MULTISIG /\ type # VESTING /\ type # VAULT
    BY <1>6 DEF SpawnFields
<1> QED
    BY <1>3, <1>4, <1>5, <1>6

\* The keys that a count brings.
LEMMA KeyFieldsType ==
    ASSUME NEW count \in Nat
    PROVE  /\ KeyFields(count) \in Seq(Field) /\ Len(KeyFields(count)) = count
           /\ \A k \in 1 .. count : KeyFields(count)[k] = [name |-> "pubkey", key |-> k - 1]
<1>1. "pubkey" \in FieldName
    BY Names DEF FieldNames
<1>2. \A k \in 1 .. count : [name |-> "pubkey", key |-> k - 1] \in Field
    BY <1>1 DEF Field
<1> QED
    BY <1>2 DEF KeyFields

\* The header.
LEMMA HeaderType ==
    /\ Header \in Seq(Field) /\ Len(Header) = 4
    /\ Header[1] = [name |-> "genesisId", key |-> 0] /\ Header[2] = [name |-> "tx_version", key |-> 0]
    /\ Header[3] = [name |-> "principal", key |-> 0]
    /\ Header[4] = [name |-> "methodSelector", key |-> 0]
<1> DEFINE names == <<"genesisId", "tx_version", "principal", "methodSelector">>
<1>1. names \in Seq(FieldName) /\ Len(names) = 4
    BY Names DEF FieldNames
<1>2. names[1] = "genesisId" /\ names[2] = "tx_version" /\ names[3] = "principal"
      /\ names[4] = "methodSelector"
    OBVIOUS
<1>3. Header = Fields(names)
    BY DEF Header
<1> HIDE DEF names
<1> QED
    BY <1>1, <1>2, <1>3, FieldsType

-----------------------------------------------------------------------------
\* The types.

TxType ==
    [account_type : {UNKNOWN, WALLET, MULTISIG, VESTING, VAULT},
     bytes : [DOMAIN FixedLength -> Slice],
     pubkey : [0 .. MAX_MULTISIG_PUB_KEY - 1 -> Slice],
     number : [DOMAIN CompactMax -> Nat]]

\* A cleared object.
LEMMA ClearedTxType == ClearedTx \in TxType
<1>1. NoBytes \in Slice
    BY DEF NoBytes, Slice
<1> QED
    BY <1>1 DEF ClearedTx, TxType

\* What reading a field of bytes does, when it is there.
LEMMA ReadBytesSteps ==
    ASSUME TypeOK, ReadBytes, pc' = "read"
    PROVE  LET field == Head(todo) size == FixedLength[field.name] IN
           /\ todo # <<>> /\ todo' = Tail(todo)
           /\ field \in Field /\ field.name \in DOMAIN FixedLength /\ size \in Nat
           /\ offset' = offset + size /\ offset' <= Len(payload)
           /\ read' = Append(read, [field |-> field, ptr |-> offset, len |-> size])
           /\ tx' \in TxType /\ tx'.number = tx.number /\ tx'.account_type = tx.account_type
           /\ tx'.bytes = IF field.name = "pubkey" THEN tx.bytes
                          ELSE [tx.bytes EXCEPT ![field.name] = [ptr |-> offset, len |-> size]]
           /\ tx'.pubkey = IF field.name # "pubkey" THEN tx.pubkey
                           ELSE [tx.pubkey EXCEPT ![field.key] = [ptr |-> offset, len |-> size]]
<1> DEFINE field == Head(todo)
           size == FixedLength[field.name]
           slice == [ptr |-> offset, len |-> size]
<1>1. todo # <<>> /\ todo \in Seq(Field) /\ field.name \in DOMAIN FixedLength /\ tx \in TxType
    BY DEF ReadBytes, TypeOK, TxType
<1>2. field \in Field
    BY <1>1
<1>3. size \in Nat /\ offset \in Nat
    BY <1>1, Names DEF TypeOK
<1>4. slice \in Slice
    BY <1>3 DEF Slice
<1>5. /\ Fits(size) /\ ReadNext(field, size) /\ todo' = Tail(todo)
      /\ tx' = IF field.name = "pubkey" THEN [tx EXCEPT !.pubkey[field.key] = slice]
               ELSE [tx EXCEPT !.bytes[field.name] = slice]
    BY DEF ReadBytes, Refuse
<1>6. /\ offset' = offset + size /\ offset' <= Len(payload)
      /\ read' = Append(read, [field |-> field, ptr |-> offset, len |-> size])
    BY <1>5 DEF ReadNext, Fits, Available
<1> HIDE DEF slice, size, field
<1>7. CASE field.name = "pubkey"
    <2>1. tx' = [tx EXCEPT !.pubkey = [tx.pubkey EXCEPT ![field.key] = slice]]
        BY <1>5, <1>7
    <2>2. [tx.pubkey EXCEPT ![field.key] = slice] \in [0 .. MAX_MULTISIG_PUB_KEY - 1 -> Slice]
        BY <1>1, <1>4 DEF TxType
    <2> QED
        BY <1>1, <1>2, <1>3, <1>5, <1>6, <1>7, <2>1, <2>2 DEF TxType, slice, size, field
<1>8. CASE field.name # "pubkey"
    <2>1. tx' = [tx EXCEPT !.bytes = [tx.bytes EXCEPT ![field.name] = slice]]
        BY <1>5, <1>8
    <2>2. [tx.bytes EXCEPT ![field.name] = slice] \in [DOMAIN FixedLength -> Slice]
        BY <1>1, <1>4 DEF TxType
    <2> QED
        BY <1>1, <1>2, <1>3, <1>5, <1>6, <1>8, <2>1, <2>2 DEF TxType, slice, size, field
<1> QED
    BY <1>7, <1>8

\* What reading a compact integer does, when it is accepted.
LEMMA ReadCompactSteps ==
    ASSUME TypeOK, ReadCompact, pc' = "read"
    PROVE  LET field == Head(todo)
               size == compactLen(payload[offset + 1])
               value == getValue(SubSeq(payload, offset + 1, offset + size))
           IN
           /\ todo # <<>> /\ todo' = Tail(todo) \o FieldsAfter(field.name, value)
           /\ field \in Field /\ field.name \in DOMAIN CompactMax /\ size \in Nat
           /\ value \in Nat /\ Accepted(field.name, value)
           /\ offset' = offset + size /\ offset' <= Len(payload)
           /\ read' = Append(read, [field |-> field, ptr |-> offset, len |-> size])
           /\ tx' \in TxType /\ tx'.bytes = tx.bytes /\ tx'.pubkey = tx.pubkey
           /\ tx'.number = [tx.number EXCEPT ![field.name] = value]
           /\ tx'.account_type = IF field.name = "gas_price" /\ tx.number["methodSelector"] = METHOD_SPAWN
                                 THEN SpawnedType ELSE tx.account_type
<1> DEFINE field == Head(todo)
           size == compactLen(payload[offset + 1])
           value == getValue(SubSeq(payload, offset + 1, offset + size))
           type == IF field.name = "gas_price" /\ tx.number["methodSelector"] = METHOD_SPAWN
                   THEN SpawnedType ELSE tx.account_type
<1>1. todo # <<>> /\ todo \in Seq(Field) /\ field.name \in DOMAIN CompactMax /\ tx \in TxType
    BY DEF ReadCompact, TypeOK, TxType
<1>2. field \in Field
    BY <1>1
<1>3. /\ Available(1) /\ Available(size) /\ Accepted(field.name, value)
      /\ ReadNext(field, size) /\ todo' = Tail(todo) \o FieldsAfter(field.name, value)
      /\ tx' = [tx EXCEPT !.number[field.name] = value, !.account_type = type]
    BY DEF ReadCompact, Refuse
<1>4. size \in Nat
    <2>1. offset \in 0 .. Len(payload) /\ payload \in Seq(0 .. 255) /\ offset + 1 <= Len(payload)
        BY <1>3 DEF Available, TypeOK
    <2>2. payload[offset + 1] \in 0 .. 255
        <3>1. offset + 1 \in 1 .. Len(payload)
            BY <2>1
        <3> QED
            BY <2>1, <3>1, ElementOfSeq
    <2> QED
        BY <2>2 DEF compactLen
<1>5. value \in Nat
    <2>1. CompactMax[field.name] \in Nat
        BY <1>1, Names
    <2>2. value \in 0 .. CompactMax[field.name]
        BY <1>3 DEF Accepted
    <2> HIDE DEF value
    <2> QED
        BY <2>1, <2>2
<1>6. type \in {UNKNOWN, WALLET, MULTISIG, VESTING, VAULT}
    BY <1>1 DEF TxType, SpawnedType
<1>7. /\ offset' = offset + size /\ offset' <= Len(payload)
      /\ read' = Append(read, [field |-> field, ptr |-> offset, len |-> size])
    BY <1>3 DEF ReadNext, Available
<1> HIDE DEF size, field, value, type
<1>8. tx' = [tx EXCEPT !.number = [tx.number EXCEPT ![field.name] = value], !.account_type = type]
    BY <1>3
<1>9. [tx.number EXCEPT ![field.name] = value] \in [DOMAIN CompactMax -> Nat]
    BY <1>1, <1>5 DEF TxType
<1>10. /\ tx' \in TxType /\ tx'.bytes = tx.bytes /\ tx'.pubkey = tx.pubkey
       /\ tx'.number = [tx.number EXCEPT ![field.name] = value] /\ tx'.account_type = type
    BY <1>1, <1>6, <1>8, <1>9 DEF TxType
<1> QED
    BY <1>1, <1>2, <1>3, <1>4, <1>5, <1>7, <1>10 DEF field, size, value, type

-----------------------------------------------------------------------------
\* The order of the fields.

\* The place of a field among those of any transaction that has it.
Rank(field) ==
    CASE field.name = "genesisId" -> 0
      [] field.name = "tx_version" -> 1
      [] field.name = "principal" -> 2
      [] field.name = "methodSelector" -> 3
      [] field.name = "account_template" -> 4
      [] field.name = "nonce" -> 5
      [] field.name = "gas_price" -> 6
      [] field.name \in {"vault", "walletPubkey", "approvers", "owner"} -> 7
      [] field.name \in {"destination", "numberOfPubkeys", "totalAmount"} -> 8
      [] field.name \in {"amount", "initialUnlockAmount"} -> 9
      [] field.name = "vestingStart" -> 10
      [] field.name = "vestingEnd" -> 11
      [] OTHER -> 12 + field.key

\* The fields that bring others with them.
BringsMore(field, method) ==
    \/ field.name \in {"methodSelector", "numberOfPubkeys"}
    \/ field.name = "gas_price" /\ method = METHOD_SPAWN

\* Fields to read lie in their order, and one that brings others is the last.
Listed(list, method) ==
    /\ \A j, k \in 1 .. Len(list) : j < k => Rank(list[j]) < Rank(list[k])
    /\ \A k \in 1 .. Len(list) :
        /\ BringsMore(list[k], method) => k = Len(list)
        /\ IF list[k].name = "pubkey" THEN list[k].key \in 0 .. MAX_MULTISIG_PUB_KEY - 1
           ELSE list[k].key = 0

\* Only behind a field of this rank.
Behind(rank, list) == \A k \in 1 .. Len(list) : rank < Rank(list[k])

\* Ranks are numbers.
LEMMA RankType == ASSUME NEW field \in Field PROVE Rank(field) \in Nat
BY DEF Field, Rank

\* A field has the rank of its name, a key that of its number.
LEMMA RankOfName ==
    ASSUME NEW f \in Field, NEW g \in Field, f.name = g.name, f.name # "pubkey" \/ f.key = g.key
    PROVE  Rank(f) = Rank(g)
<1>1. f.name \in FieldNames
    BY Names DEF Field
<1> QED
    BY <1>1 DEF Rank, FieldNames

\* The header is in the order of the ranks.
LEMMA HeaderListed == \A method : Listed(Header, method)
<1> SUFFICES ASSUME NEW method PROVE Listed(Header, method)
    OBVIOUS
<1>1. Rank(Header[1]) = 0 /\ Rank(Header[2]) = 1 /\ Rank(Header[3]) = 2 /\ Rank(Header[4]) = 3
    BY HeaderType DEF Rank
<1>2. \A j, k \in 1 .. 4 : j < k => Rank(Header[j]) < Rank(Header[k])
    BY <1>1
<1>3. \A k \in 1 .. 4 : Header[k].key = 0 /\ Header[k].name # "pubkey"
                       /\ (BringsMore(Header[k], method) => k = 4)
    BY HeaderType DEF BringsMore
<1> QED
    BY <1>2, <1>3, HeaderType DEF Listed

\* A list of fields, one rank above the other, is listed.
LEMMA MethodFieldsListed ==
    ASSUME NEW value \in {METHOD_SPAWN, METHOD_SPEND, METHOD_DRAIN_VAULT}
    PROVE  Listed(MethodFields(value), value) /\ Behind(3, MethodFields(value))
<1>1. CASE value = METHOD_SPAWN
    <2> DEFINE names == <<"account_template", "nonce", "gas_price">>
               list == Fields(names)
    <2>1. names \in Seq(FieldName) /\ Len(names) = 3
        BY Names DEF FieldNames
    <2>2. names[1] = "account_template" /\ names[2] = "nonce" /\ names[3] = "gas_price"
        OBVIOUS
    <2>3. MethodFields(value) = list
        BY <1>1 DEF MethodFields, METHOD_SPAWN, METHOD_SPEND, METHOD_DRAIN_VAULT
    <2> HIDE DEF names
    <2>4. /\ Len(list) = 3 /\ list[1] = [name |-> "account_template", key |-> 0]
          /\ list[2] = [name |-> "nonce", key |-> 0] /\ list[3] = [name |-> "gas_price", key |-> 0]
        BY <2>1, <2>2, FieldsType
    <2> HIDE DEF list
    <2>5. Rank(list[1]) = 4 /\ Rank(list[2]) = 5 /\ Rank(list[3]) = 6
        BY <2>4 DEF Rank
    <2>6. \A j, k \in 1 .. 3 : j < k => Rank(list[j]) < Rank(list[k])
        BY <2>5
    <2>7. \A k \in 1 .. 3 : list[k].key = 0 /\ list[k].name # "pubkey"
                           /\ (BringsMore(list[k], value) => k = 3)
        BY <2>4 DEF BringsMore
    <2>8. \A k \in 1 .. 3 : 3 < Rank(list[k])
        BY <2>5
    <2> QED
        BY <2>3, <2>4, <2>6, <2>7, <2>8 DEF Listed, Behind
<1>2. CASE value = METHOD_SPEND
    <2> DEFINE names == <<"nonce", "gas_price", "destination", "amount">>
               list == Fields(names)
    <2>1. names \in Seq(FieldName) /\ Len(names) = 4
        BY Names DEF FieldNames
    <2>2. names[1] = "nonce" /\ names[2] = "gas_price" /\ names[3] = "destination" /\ names[4] = "amount"
        OBVIOUS
    <2>3. MethodFields(value) = list
        BY <1>2 DEF MethodFields, METHOD_SPAWN, METHOD_SPEND, METHOD_DRAIN_VAULT
    <2> HIDE DEF names
    <2>4. /\ Len(list) = 4 /\ list[1] = [name |-> "nonce", key |-> 0]
          /\ list[2] = [name |-> "gas_price", key |-> 0] /\ list[3] = [name |-> "destination", key |-> 0]
          /\ list[4] = [name |-> "amount", key |-> 0]
        BY <2>1, <2>2, FieldsType
    <2> HIDE DEF list
    <2>5. Rank(list[1]) = 5 /\ Rank(list[2]) = 6 /\ Rank(list[3]) = 8 /\ Rank(list[4]) = 9
        BY <2>4 DEF Rank
    <2>6. \A j, k \in 1 .. 4 : j < k => Rank(list[j]) < Rank(list[k])
        BY <2>5
    <2>7. \A k \in 1 .. 4 : list[k].key = 0 /\ list[k].name # "pubkey" /\ ~BringsMore(list[k], value)
        BY <1>2, <2>4 DEF BringsMore, METHOD_SPAWN, METHOD_SPEND
    <2>8. \A k \in 1 .. 4 : 3 < Rank(list[k])
        BY <2>5
    <2> QED
        BY <2>3, <2>4, <2>6, <2>7, <2>8 DEF Listed, Behind
<1>3. CASE value = METHOD_DRAIN_VAULT
    <2> DEFINE names == <<"nonce", "gas_price", "vault", "destination", "amount">>
               list == Fields(names)
    <2>1. names \in Seq(FieldName) /\ Len(names) = 5
        BY Names DEF FieldNames
    <2>2. names[1] = "nonce" /\ names[2] = "gas_price" /\ names[3] = "vault" /\ names[4] = "destination"
          /\ names[5] = "amount"
        OBVIOUS
    <2>3. MethodFields(value) = list
        BY <1>3 DEF MethodFields, METHOD_SPAWN, METHOD_SPEND, METHOD_DRAIN_VAULT
    <2> HIDE DEF names
    <2>4. /\ Len(list) = 5 /\ list[1] = [name |-> "nonce", key |-> 0]
          /\ list[2] = [name |-> "gas_price", key |-> 0] /\ list[3] = [name |-> "vault", key |-> 0]
          /\ list[4] = [name |-> "destination", key |-> 0] /\ list[5] = [name |-> "amount", key |-> 0]
        BY <2>1, <2>2, FieldsType
    <2> HIDE DEF list
    <2>5. Rank(list[1]) = 5 /\ Rank(list[2]) = 6 /\ Rank(list[3]) = 7 /\ Rank(list[4]) = 8
          /\ Rank(list[5]) = 9
        BY <2>4 DEF Rank
    <2>6. \A j, k \in 1 .. 5 : j < k => Rank(list[j]) < Rank(list[k])
        BY <2>5
    <2>7. \A k \in 1 .. 5 : list[k].key = 0 /\ list[k].name # "pubkey" /\ ~BringsMore(list[k], value)
        BY <1>3, <2>4 DEF BringsMore, METHOD_SPAWN, METHOD_DRAIN_VAULT
    <2>8. \A k \in 1 .. 5 : 3 < Rank(list[k])
        BY <2>5
    <2> QED
        BY <2>3, <2>4, <2>6, <2>7, <2>8 DEF Listed, Behind
<1> QED
    BY <1>1, <1>2, <1>3

\* So are the fields of a template, whatever its last byte is.
LEMMA SpawnFieldsListed ==
    ASSUME NEW type, NEW method
    PROVE  Listed(SpawnFields(type), method) /\ Behind(6, SpawnFields(type))
<1>1. CASE type = WALLET
    <2> DEFINE names == <<"walletPubkey">>
               list == Fields(names)
    <2>1. names \in Seq(FieldName) /\ Len(names) = 1
        BY Names DEF FieldNames
    <2>2. names[1] = "walletPubkey"
        OBVIOUS
    <2>3. SpawnFields(type) = list
        BY <1>1 DEF SpawnFields, WALLET, MULTISIG, VESTING, VAULT
    <2> HIDE DEF names
    <2>4. Len(list) = 1 /\ list[1] = [name |-> "walletPubkey", key |-> 0]
        <3>1. Len(list) = Len(names) /\ \A k \in 1 .. Len(names) : list[k] = [name |-> names[k], key |-> 0]
            BY <2>1, FieldsType
        <3>2. 1 \in 1 .. 1
            OBVIOUS
        <3> HIDE DEF list
        <3> QED
            BY <2>1, <2>2, <3>1, <3>2
    <2> HIDE DEF list
    <2>5. Rank(list[1]) = 7
        BY <2>4 DEF Rank
    <2>6. \A j, k \in 1 .. 1 : j < k => Rank(list[j]) < Rank(list[k])
        BY <2>5
    <2>7. \A k \in 1 .. 1 : list[k].key = 0 /\ list[k].name # "pubkey"
                           /\ (BringsMore(list[k], method) => k = 1)
        BY <2>4 DEF BringsMore
    <2>8. \A k \in 1 .. 1 : 6 < Rank(list[k])
        BY <2>5
    <2> QED
        BY <2>3, <2>4, <2>6, <2>7, <2>8 DEF Listed, Behind
<1>2. CASE type = MULTISIG \/ type = VESTING
    <2> DEFINE names == <<"approvers", "numberOfPubkeys">>
               list == Fields(names)
    <2>1. names \in Seq(FieldName) /\ Len(names) = 2
        BY Names DEF FieldNames
    <2>2. names[1] = "approvers" /\ names[2] = "numberOfPubkeys"
        OBVIOUS
    <2>3. SpawnFields(type) = list
        BY <1>2 DEF SpawnFields, WALLET, MULTISIG, VESTING, VAULT
    <2> HIDE DEF names
    <2>4. Len(list) = 2 /\ list[1] = [name |-> "approvers", key |-> 0]
          /\ list[2] = [name |-> "numberOfPubkeys", key |-> 0]
        BY <2>1, <2>2, FieldsType
    <2> HIDE DEF list
    <2>5. Rank(list[1]) = 7 /\ Rank(list[2]) = 8
        BY <2>4 DEF Rank
    <2>6. \A j, k \in 1 .. 2 : j < k => Rank(list[j]) < Rank(list[k])
        BY <2>5
    <2>7. \A k \in 1 .. 2 : list[k].key = 0 /\ list[k].name # "pubkey"
                           /\ (BringsMore(list[k], method) => k = 2)
        BY <2>4 DEF BringsMore
    <2>8. \A k \in 1 .. 2 : 6 < Rank(list[k])
        BY <2>5
    <2> QED
        BY <2>3, <2>4, <2>6, <2>7, <2>8 DEF Listed, Behind
<1>3. CASE type = VAULT
    <2> DEFINE names == <<"owner", "totalAmount", "initialUnlockAmount", "vestingStart", "vestingEnd">>
               list == Fields(names)
    <2>1. names \in Seq(FieldName) /\ Len(names) = 5
        BY Names DEF FieldNames
    <2>2. names[1] = "owner" /\ names[2] = "totalAmount" /\ names[3] = "initialUnlockAmount"
          /\ names[4] = "vestingStart" /\ names[5] = "vestingEnd"
        OBVIOUS
    <2>3. SpawnFields(type) = list
        BY <1>3 DEF SpawnFields, WALLET, MULTISIG, VESTING, VAULT
    <2> HIDE DEF names
    <2>4. Len(list) = 5 /\ list[1] = [name |-> "owner", key |-> 0]
          /\ list[2] = [name |-> "totalAmount", key |-> 0]
          /\ list[3] = [name |-> "initialUnlockAmount", key |-> 0]
          /\ list[4] = [name |-> "vestingStart", key |-> 0]
          /\ list[5] = [name |-> "vestingEnd", key |-> 0]
        BY <2>1, <2>2, FieldsType
    <2> HIDE DEF list
    <2>5. Rank(list[1]) = 7 /\ Rank(list[2]) = 8 /\ Rank(list[3]) = 9 /\ Rank(list[4]) = 10
          /\ Rank(list[5]) = 11
        BY <2>4 DEF Rank
    <2>6. \A j, k \in 1 .. 5 : j < k => Rank(list[j]) < Rank(list[k])
        BY <2>5
    <2>7. \A k \in 1 .. 5 : list[k].key = 0 /\ list[k].name # "pubkey"
                           /\ (BringsMore(list[k], method) => k = 5)
        BY <2>4 DEF BringsMore
    <2>8. \A k \in 1 .. 5 : 6 < Rank(list[k])
        BY <2>5
    <2> QED
        BY <2>3, <2>4, <2>6, <2>7, <2>8 DEF Listed, Behind
<1>4. CASE type # WALLET /\ type # MULTISIG /\ type # VESTING /\ type # VAULT
    <2>1. SpawnFields(type) = <<>>
        BY <1>4 DEF SpawnFields
    <2> QED
        BY <2>1 DEF Listed, Behind
<1> QED
    BY <1>1, <1>2, <1>3, <1>4

\* So are the keys.
LEMMA KeyFieldsListed ==
    ASSUME NEW count \in 0 .. MAX_MULTISIG_PUB_KEY, NEW method
    PROVE  Listed(KeyFields(count), method) /\ Behind(8, KeyFields(count))
<1> DEFINE list == KeyFields(count)
<1>1. count \in Nat
    BY LengthAssumption
<1>2. Len(list) = count /\ \A k \in 1 .. count : list[k] = [name |-> "pubkey", key |-> k - 1]
    BY <1>1, KeyFieldsType
<1> HIDE DEF list
<1>3. \A k \in 1 .. count : Rank(list[k]) = 12 + (k - 1)
    BY <1>2 DEF Rank
<1>4. \A j, k \in 1 .. count : j < k => Rank(list[j]) < Rank(list[k])
    BY <1>1, <1>3
<1>5. \A k \in 1 .. count : list[k].key \in 0 .. MAX_MULTISIG_PUB_KEY - 1 /\ list[k].name = "pubkey"
                           /\ ~BringsMore(list[k], method)
    BY <1>1, <1>2, LengthAssumption DEF BringsMore
<1>6. \A k \in 1 .. count : 8 < Rank(list[k])
    BY <1>1, <1>3
<1> QED
    BY <1>2, <1>4, <1>5, <1>6 DEF Listed, Behind, list

\* What remains of a list behind its first field.
LEMMA TailListed ==
    ASSUME NEW list \in Seq(Field), list # <<>>, NEW method, Listed(list, method)
    PROVE  /\ Listed(Tail(list), method) /\ Behind(Rank(Head(list)), Tail(list))
           /\ BringsMore(Head(list), method) => Tail(list) = <<>>
           /\ Head(list) = list[1] /\ Tail(list) \in Seq(Field)
           /\ IF Head(list).name = "pubkey" THEN Head(list).key \in 0 .. MAX_MULTISIG_PUB_KEY - 1
              ELSE Head(list).key = 0
<1> DEFINE rest == Tail(list)
<1>1. /\ Len(list) \in Nat \ {0} /\ Head(list) = list[1] /\ rest \in Seq(Field)
      /\ Len(rest) = Len(list) - 1 /\ \A k \in 1 .. Len(rest) : rest[k] = list[k + 1]
    BY HeadTailProperties, EmptySeq
<1> HIDE DEF rest
<1>2. \A k \in 1 .. Len(rest) : k + 1 \in 1 .. Len(list) /\ 1 < k + 1
    BY <1>1
<1>3. 1 \in 1 .. Len(list)
    BY <1>1
<1>4. ASSUME NEW j \in 1 .. Len(rest), NEW k \in 1 .. Len(rest), j < k
      PROVE  Rank(rest[j]) < Rank(rest[k])
    <2>1. j + 1 \in 1 .. Len(list) /\ k + 1 \in 1 .. Len(list) /\ j + 1 < k + 1
        BY <1>2, <1>4
    <2>2. Rank(list[j + 1]) < Rank(list[k + 1])
        BY <2>1 DEF Listed
    <2> QED
        BY <1>1, <2>2
<1>5. \A k \in 1 .. Len(rest) :
        /\ BringsMore(rest[k], method) => k = Len(rest)
        /\ IF rest[k].name = "pubkey" THEN rest[k].key \in 0 .. MAX_MULTISIG_PUB_KEY - 1
           ELSE rest[k].key = 0
    BY <1>1, <1>2 DEF Listed
<1>6. \A k \in 1 .. Len(rest) : Rank(list[1]) < Rank(rest[k])
    BY <1>1, <1>2, <1>3 DEF Listed
<1>7. BringsMore(list[1], method) => rest = <<>>
    <2> SUFFICES ASSUME BringsMore(list[1], method) PROVE rest = <<>>
        OBVIOUS
    <2>1. Len(list) = 1
        BY <1>3 DEF Listed
    <2> QED
        BY <1>1, <2>1, EmptySeq
<1>8. IF list[1].name = "pubkey" THEN list[1].key \in 0 .. MAX_MULTISIG_PUB_KEY - 1 ELSE list[1].key = 0
    BY <1>3 DEF Listed
<1> QED
    BY <1>1, <1>4, <1>5, <1>6, <1>7, <1>8 DEF Listed, Behind, rest

-----------------------------------------------------------------------------
\* The invariant.

\* An object's value for a field.
HeldBy(obj, field) ==
    IF field.name = "pubkey" THEN obj.pubkey[field.key] ELSE obj.bytes[field.name]

\* An object holds what the bytes of a field say.
Holds(obj, upload, r) ==
    /\ r.field.name = "pubkey" => r.field.key \in 0 .. MAX_MULTISIG_PUB_KEY - 1
    /\ IF r.field.name \in DOMAIN CompactMax
       THEN obj.number[r.field.name] = getValue(SubSeq(upload, r.ptr + 1, r.ptr + r.len))
       ELSE HeldBy(obj, r.field) = [ptr |-> r.ptr, len |-> r.len]

\* What was read lies without gaps up to the cursor.
Tiles ==
    /\ IF read = <<>> THEN offset = 0
       ELSE read[1].ptr = 0 /\ read[Len(read)].ptr + read[Len(read)].len = offset
    /\ \A k \in 1 .. Len(read) - 1 : read[k].ptr + read[k].len = read[k + 1].ptr
    /\ \A k \in 1 .. Len(read) : Holds(tx, payload, read[k])

\* What is still to be read comes behind all that was, and so overwrites nothing.
Ahead ==
    /\ Listed(todo, tx.number["methodSelector"])
    /\ \A k \in 1 .. Len(read) : Behind(Rank(read[k].field), todo)
    /\ read # <<>> \/ todo # <<>>

IInv ==
    /\ TypeOK
    /\ tx.number["numberOfPubkeys"] <= MAX_MULTISIG_PUB_KEY
    /\ pc = "read" => Ahead
    /\ pc \in {"read", "validate", "review"} => Tiles
    /\ pc \in {"validate", "review"} => offset = Len(payload) /\ read # <<>>
    /\ pc = "review" => Screens # <<>> /\ \A idx \in DOMAIN Screens : Screens[idx] # NoItem

\* The invariant holds before the first upload.
LEMMA InitIInv == Init => IInv
<1> SUFFICES ASSUME Init PROVE IInv
    OBVIOUS
<1>1. tx \in TxType /\ tx.number["numberOfPubkeys"] = 0
    <2>1. tx = ClearedTx
        BY DEF Init
    <2>2. "numberOfPubkeys" \in DOMAIN CompactMax
        BY DEF CompactMax
    <2> QED
        BY <2>1, <2>2, ClearedTxType DEF ClearedTx
<1>2. TypeOK
    BY <1>1 DEF Init, TypeOK, TxType, Stages
<1> QED
    BY <1>1, <1>2, LengthAssumption DEF Init, IInv

\* Reading a compact integer that is accepted leaves a list of fields behind it.
LEMMA NextFields ==
    ASSUME IInv, ReadCompact, pc = "read", pc' = "read"
    PROVE  /\ todo' \in Seq(Field) /\ Listed(todo', tx'.number["methodSelector"])
           /\ Behind(Rank(Head(todo)), todo')
           /\ tx'.number["numberOfPubkeys"] <= MAX_MULTISIG_PUB_KEY
<1> DEFINE field == Head(todo)
           size == compactLen(payload[offset + 1])
           value == getValue(SubSeq(payload, offset + 1, offset + size))
           method == tx.number["methodSelector"]
           after == FieldsAfter(field.name, value)
           rest == Tail(todo)
<1>1. /\ todo # <<>> /\ todo' = rest \o after /\ field \in Field /\ field.name \in DOMAIN CompactMax
      /\ value \in Nat /\ Accepted(field.name, value)
      /\ tx'.number = [tx.number EXCEPT ![field.name] = value]
    BY ReadCompactSteps DEF IInv
<1>2. todo \in Seq(Field) /\ Listed(todo, method) /\ tx.number["numberOfPubkeys"] <= MAX_MULTISIG_PUB_KEY
      /\ tx.number \in [DOMAIN CompactMax -> Nat]
    BY DEF IInv, TypeOK, Ahead
<1>3. /\ Listed(rest, method) /\ Behind(Rank(field), rest) /\ rest \in Seq(Field)
      /\ BringsMore(field, method) => rest = <<>>
    BY <1>1, <1>2, TailListed
<1>4. "numberOfPubkeys" \in DOMAIN CompactMax /\ "methodSelector" \in DOMAIN CompactMax
    BY DEF CompactMax
<1> HIDE DEF value, rest, size, field, method
<1>5. tx'.number["numberOfPubkeys"] <= MAX_MULTISIG_PUB_KEY
    <2>1. CASE field.name = "numberOfPubkeys"
        <3>1. value \in tx.number["approvers"] .. MAX_MULTISIG_PUB_KEY
            BY <1>1, <2>1 DEF Accepted
        <3>2. tx.number["approvers"] \in Nat
            BY <1>2 DEF CompactMax
        <3> QED
            BY <1>1, <1>2, <1>4, <2>1, <3>1, <3>2, LengthAssumption
    <2>2. CASE field.name # "numberOfPubkeys"
        BY <1>1, <1>2, <1>4, <2>2
    <2> QED
        BY <2>1, <2>2
<1>6. CASE field.name = "methodSelector"
    <2> BringsMore(field, method)
        BY <1>6 DEF BringsMore
    <2>1. rest = <<>>
        BY <1>3
    <2>2. value \in {METHOD_SPAWN, METHOD_SPEND, METHOD_DRAIN_VAULT} /\ after = MethodFields(value)
        BY <1>1, <1>6 DEF Accepted, FieldsAfter
    <2>3. after \in Seq(Field) /\ Listed(after, value) /\ Behind(3, after)
        BY <2>2, MethodFieldsType, MethodFieldsListed
    <2>4. todo' = after
        BY <1>1, <2>1, <2>3, ConcatEmptySeq
    <2>5. tx'.number["methodSelector"] = value /\ Rank(field) = 3
        BY <1>1, <1>2, <1>4, <1>6 DEF Rank
    <2> QED
        BY <1>5, <2>3, <2>4, <2>5 DEF field
<1>7. ASSUME field.name # "methodSelector" PROVE tx'.number["methodSelector"] = method
    BY <1>1, <1>2, <1>4, <1>7 DEF method
<1>8. CASE field.name = "gas_price" /\ method = METHOD_SPAWN
    <2> BringsMore(field, method)
        BY <1>8 DEF BringsMore
    <2>1. rest = <<>>
        BY <1>3
    <2>2. after = SpawnFields(accountType)
        BY <1>8 DEF FieldsAfter, method
    <2>3. after \in Seq(Field) /\ Listed(after, method) /\ Behind(6, after)
        BY <2>2, SpawnFieldsType, SpawnFieldsListed
    <2>4. todo' = after
        BY <1>1, <2>1, <2>3, ConcatEmptySeq
    <2>5. Rank(field) = 6
        BY <1>8 DEF Rank
    <2> QED
        BY <1>5, <1>7, <1>8, <2>3, <2>4, <2>5 DEF field
<1>9. CASE field.name = "numberOfPubkeys"
    <2> BringsMore(field, method)
        BY <1>9 DEF BringsMore
    <2>1. rest = <<>>
        BY <1>3
    <2>2. after = KeyFields(value)
        BY <1>9 DEF FieldsAfter
    <2>3. value \in 0 .. MAX_MULTISIG_PUB_KEY
        <3>1. value <= MAX_MULTISIG_PUB_KEY
            <4>1. tx'.number["numberOfPubkeys"] = value
                BY <1>1, <1>2, <1>4, <1>9
            <4> QED
                BY <1>5, <4>1
        <3> QED
            BY <1>1, <3>1, LengthAssumption
    <2>4. after \in Seq(Field) /\ Listed(after, method) /\ Behind(8, after)
        BY <1>1, <2>2, <2>3, KeyFieldsType, KeyFieldsListed
    <2>5. todo' = after
        BY <1>1, <2>1, <2>4, ConcatEmptySeq
    <2>6. Rank(field) = 8
        BY <1>9 DEF Rank
    <2> QED
        BY <1>5, <1>7, <1>9, <2>4, <2>5, <2>6 DEF field
<1>10. CASE field.name \notin {"methodSelector", "numberOfPubkeys"}
            /\ ~(field.name = "gas_price" /\ method = METHOD_SPAWN)
    <2>1. after = <<>>
        BY <1>10 DEF FieldsAfter, method
    <2>2. todo' = rest
        BY <1>1, <1>3, <2>1, ConcatEmptySeq
    <2> QED
        BY <1>3, <1>5, <1>7, <1>10, <2>2 DEF field
<1> QED
    BY <1>6, <1>8, <1>9, <1>10

-----------------------------------------------------------------------------
\* One more field: none that was read is overwritten, for it ranks behind them all.

\* One more field behind the others.
LEMMA AppendTiles ==
    ASSUME IInv, pc = "read", NEW size \in Nat, NEW field \in Field,
           payload' = payload, offset' = offset + size,
           read' = Append(read, [field |-> field, ptr |-> offset, len |-> size]),
           Holds(tx', payload, [field |-> field, ptr |-> offset, len |-> size]),
           \A k \in 1 .. Len(read) : Holds(tx', payload, read[k])
    PROVE  Tiles' /\ read' # <<>> /\ read' \in Seq(Part)
<1> DEFINE entry == [field |-> field, ptr |-> offset, len |-> size]
<1>1. read \in Seq(Part) /\ offset \in Nat /\ Tiles
    BY DEF IInv, TypeOK, Part
<1>2. entry \in Part /\ entry.ptr = offset /\ entry.len = size
    BY <1>1 DEF Part
<1>3. read' = Append(read, entry) /\ Holds(tx', payload, entry)
    OBVIOUS
<1> HIDE DEF entry
<1>4. /\ Len(read) \in Nat /\ Len(read') = Len(read) + 1 /\ read'[Len(read) + 1] = entry
      /\ \A k \in 1 .. Len(read) : read'[k] = read[k]
      /\ read' \in Seq(Part)
    BY <1>1, <1>2, <1>3
<1>5. read'[Len(read')].ptr + read'[Len(read')].len = offset'
    BY <1>2, <1>4
<1>6. read'[1].ptr = 0
    <2>1. CASE read = <<>>
        <3>1. Len(read) = 0 /\ offset = 0
            BY <1>1, <2>1 DEF Tiles
        <3> QED
            BY <1>2, <1>4, <3>1
    <2>2. CASE read # <<>>
        <3>1. 1 \in 1 .. Len(read)
            BY <1>1, <1>4, <2>2, EmptySeq
        <3> QED
            BY <1>1, <1>4, <2>2, <3>1 DEF Tiles
    <2> QED
        BY <2>1, <2>2
<1>7. ASSUME NEW k \in 1 .. Len(read') - 1
      PROVE  read'[k].ptr + read'[k].len = read'[k + 1].ptr
    <2>1. k \in 1 .. Len(read)
        BY <1>4
    <2>2. CASE k = Len(read)
        <3>1. read # <<>>
            BY <2>1, <2>2
        <3>2. read[k].ptr + read[k].len = offset
            BY <1>1, <2>2, <3>1 DEF Tiles
        <3>3. read'[k + 1] = entry /\ read'[k] = read[k]
            BY <1>4, <2>1, <2>2
        <3> QED
            BY <1>2, <3>2, <3>3
    <2>3. CASE k # Len(read)
        <3>1. k \in 1 .. Len(read) - 1 /\ k + 1 \in 1 .. Len(read)
            BY <1>4, <2>1, <2>3
        <3>2. read[k].ptr + read[k].len = read[k + 1].ptr
            BY <1>1, <3>1 DEF Tiles
        <3>3. read'[k + 1] = read[k + 1] /\ read'[k] = read[k]
            BY <1>4, <2>1, <3>1
        <3> QED
            BY <3>2, <3>3
    <2> QED
        BY <2>2, <2>3
<1>8. ASSUME NEW k \in 1 .. Len(read')
      PROVE  Holds(tx', payload', read'[k])
    <2>1. k \in 1 .. Len(read) \/ k = Len(read) + 1
        BY <1>4
    <2> QED
        BY <1>3, <1>4, <2>1
<1>9. read' # <<>>
    BY <1>4
<1> QED
    BY <1>4, <1>5, <1>6, <1>7, <1>8, <1>9 DEF Tiles

\* The ranks of the fields that were read, the new one included, are below what is left.
LEMMA AppendAhead ==
    ASSUME IInv, pc = "read", todo # <<>>, NEW entry \in Part, entry.field = Head(todo),
           read' = Append(read, entry), todo' \in Seq(Field),
           Listed(todo', tx'.number["methodSelector"]), Behind(Rank(Head(todo)), todo')
    PROVE  Ahead' /\ \A k \in 1 .. Len(read) : read[k].field \in Field /\ Rank(read[k].field) < Rank(Head(todo))
<1>1. read \in Seq(Part) /\ todo \in Seq(Field) /\ Ahead
    BY DEF IInv, TypeOK, Part
<1>2. /\ Len(read) \in Nat /\ Len(read') = Len(read) + 1 /\ read'[Len(read) + 1] = entry
      /\ \A k \in 1 .. Len(read) : read'[k] = read[k]
      /\ \A k \in 1 .. Len(read) : read[k] \in Part
    BY <1>1
<1>3. Head(todo) = todo[1] /\ 1 \in 1 .. Len(todo) /\ Head(todo) \in Field
    BY <1>1, EmptySeq
<1>4. \A k \in 1 .. Len(read) : read[k].field \in Field /\ Rank(read[k].field) < Rank(Head(todo))
    BY <1>1, <1>2, <1>3 DEF Ahead, Behind, Part
<1>5. \A k \in 1 .. Len(todo') : todo'[k] \in Field
    OBVIOUS
<1>6. ASSUME NEW k \in 1 .. Len(read')
      PROVE  Behind(Rank(read'[k].field), todo')
    <2>1. CASE k \in 1 .. Len(read)
        <3> SUFFICES ASSUME NEW j \in 1 .. Len(todo')
                     PROVE  Rank(read[k].field) < Rank(todo'[j])
            BY <1>2, <2>1 DEF Behind
        <3>1. Rank(read[k].field) < Rank(Head(todo)) /\ Rank(Head(todo)) < Rank(todo'[j])
            BY <1>4, <2>1 DEF Behind
        <3>2. Rank(read[k].field) \in Nat /\ Rank(Head(todo)) \in Nat /\ Rank(todo'[j]) \in Nat
            BY <1>3, <1>4, <1>5, <2>1, RankType
        <3> QED
            BY <3>1, <3>2
    <2>2. CASE k = Len(read) + 1
        BY <1>2, <2>2
    <2> QED
        BY <1>2, <2>1, <2>2
<1>7. read' # <<>>
    BY <1>2
<1> QED
    BY <1>4, <1>6, <1>7 DEF Ahead

\* A refusal leaves the reader as it is.
LEMMA RefuseIInv ==
    ASSUME IInv, Refuse, UNCHANGED <<payload, expert>>
    PROVE  IInv'
<1>1. TypeOK' /\ tx'.number["numberOfPubkeys"] <= MAX_MULTISIG_PUB_KEY
    BY DEF IInv, TypeOK, Refuse, Stages
<1>2. pc' = "refused"
    BY DEF Refuse
<1> QED
    BY <1>1, <1>2 DEF IInv

\* Reading bytes keeps it.
LEMMA ReadBytesIInv == IInv /\ ReadBytes => IInv'
<1> SUFFICES ASSUME IInv, ReadBytes PROVE IInv'
    OBVIOUS
<1> DEFINE field == Head(todo)
           size == FixedLength[field.name]
           entry == [field |-> field, ptr |-> offset, len |-> size]
           slice == [ptr |-> offset, len |-> size]
<1>1. pc = "read" /\ UNCHANGED <<payload, expert>> /\ (Refuse \/ pc' = "read")
    BY DEF ReadBytes, ReadNext
<1>2. CASE Refuse
    BY <1>1, <1>2, RefuseIInv
<1>3. CASE pc' = "read"
    <2>1. TypeOK /\ offset \in Nat /\ payload' = payload /\ expert' = expert
        BY <1>1 DEF IInv, TypeOK
    <2>2. /\ todo # <<>> /\ todo' = Tail(todo)
          /\ field \in Field /\ field.name \in DOMAIN FixedLength /\ size \in Nat
          /\ offset' = offset + size /\ offset' <= Len(payload)
          /\ read' = Append(read, entry)
          /\ tx' \in TxType /\ tx'.number = tx.number
          /\ tx'.bytes = IF field.name = "pubkey" THEN tx.bytes ELSE [tx.bytes EXCEPT ![field.name] = slice]
          /\ tx'.pubkey = IF field.name # "pubkey" THEN tx.pubkey ELSE [tx.pubkey EXCEPT ![field.key] = slice]
        BY <1>3, <2>1, ReadBytesSteps
    <2>3. todo \in Seq(Field) /\ Listed(todo, tx.number["methodSelector"]) /\ tx \in TxType /\ Tiles
        BY <1>1 DEF IInv, TypeOK, TxType, Ahead
    <2>4. /\ Listed(todo', tx'.number["methodSelector"]) /\ Behind(Rank(Head(todo)), todo')
          /\ todo' \in Seq(Field)
          /\ field.name = "pubkey" => field.key \in 0 .. MAX_MULTISIG_PUB_KEY - 1
        BY <2>2, <2>3, TailListed
    <2>5. entry \in Part /\ entry.field = Head(todo)
        BY <2>1, <2>2 DEF Part
    <2> HIDE DEF entry
    <2>6. Ahead' /\ \A k \in 1 .. Len(read) : read[k].field \in Field /\ Rank(read[k].field) < Rank(field)
        BY <1>1, <2>2, <2>4, <2>5, AppendAhead
    <2> HIDE DEF size, field
    <2>7. Holds(tx', payload, entry)
        <3>1. field.name \notin DOMAIN CompactMax
            BY <2>2, Names
        <3>2. HeldBy(tx', field) = slice
            <4>1. CASE field.name = "pubkey"
                BY <2>2, <2>3, <2>4, <4>1 DEF HeldBy, TxType
            <4>2. CASE field.name # "pubkey"
                BY <2>2, <2>3, <4>2 DEF HeldBy, TxType
            <4> QED
                BY <4>1, <4>2
        <3> QED
            BY <2>4, <3>1, <3>2 DEF Holds, entry
    <2>8. ASSUME NEW k \in 1 .. Len(read) PROVE Holds(tx', payload, read[k])
        <3>1. Holds(tx, payload, read[k])
            BY <2>3 DEF Tiles
        <3>2. CASE read[k].field.name \in DOMAIN CompactMax
            BY <2>2, <3>1, <3>2 DEF Holds
        <3>3. CASE read[k].field.name \notin DOMAIN CompactMax
            <4>1. read[k].field.name = "pubkey" => read[k].field.key \in 0 .. MAX_MULTISIG_PUB_KEY - 1
                BY <3>1 DEF Holds
            <4> DEFINE f == read[k].field
            <4>2. f \in Field /\ Rank(f) < Rank(field) /\ f.name \notin DOMAIN CompactMax
                BY <2>6, <3>3
            <4>3. f.name = "pubkey" => f.key \in 0 .. MAX_MULTISIG_PUB_KEY - 1
                BY <4>1
            <4> HIDE DEF f, slice
            <4>4. field \in Field /\ field.name \in DOMAIN FixedLength /\ tx \in TxType /\ tx' \in TxType
                BY <2>2, <2>3
            <4>5. tx'.bytes = IF field.name = "pubkey" THEN tx.bytes ELSE [tx.bytes EXCEPT ![field.name] = slice]
                BY <2>2
            <4>6. tx'.pubkey = IF field.name # "pubkey" THEN tx.pubkey ELSE [tx.pubkey EXCEPT ![field.key] = slice]
                BY <2>2
            <4>7. f.name \in DOMAIN FixedLength
                BY <4>2 DEF Field, FieldName
            <4>8. f.name # field.name \/ (f.name = "pubkey" /\ f.key # field.key)
                <5>1. Rank(f) # Rank(field)
                    BY <4>2, <4>4, RankType
                <5> QED
                    BY <4>2, <4>4, <5>1, RankOfName
            <4>9. HeldBy(tx', f) = HeldBy(tx, f)
                <5>1. CASE f.name = "pubkey"
                    <6>1. tx'.pubkey[f.key] = tx.pubkey[f.key]
                        BY <4>3, <4>4, <4>6, <4>8, <5>1 DEF TxType
                    <6> QED
                        BY <5>1, <6>1 DEF HeldBy
                <5>2. CASE f.name # "pubkey"
                    <6>1. tx'.bytes[f.name] = tx.bytes[f.name]
                        BY <4>4, <4>5, <4>7, <4>8, <5>2 DEF TxType
                    <6> QED
                        BY <5>2, <6>1 DEF HeldBy
                <5> QED
                    BY <5>1, <5>2
            <4> QED
                BY <3>1, <3>3, <4>9 DEF Holds, f
        <3> QED
            BY <3>2, <3>3
    <2>9. Tiles' /\ read' # <<>> /\ read' \in Seq(Part)
        BY <1>1, <2>1, <2>2, <2>7, <2>8, AppendTiles DEF entry
    <2>10. TypeOK'
        BY <1>3, <2>1, <2>2, <2>4, <2>9 DEF TypeOK, TxType, Part, Stages
    <2>11. tx'.number["numberOfPubkeys"] <= MAX_MULTISIG_PUB_KEY
        BY <2>2 DEF IInv
    <2> QED
        BY <1>3, <2>6, <2>9, <2>10, <2>11 DEF IInv
<1> QED
    BY <1>1, <1>2, <1>3

\* Reading a number keeps it.
LEMMA ReadCompactIInv == IInv /\ ReadCompact => IInv'
<1> SUFFICES ASSUME IInv, ReadCompact PROVE IInv'
    OBVIOUS
<1> DEFINE field == Head(todo)
           size == compactLen(payload[offset + 1])
           value == getValue(SubSeq(payload, offset + 1, offset + size))
           entry == [field |-> field, ptr |-> offset, len |-> size]
<1>1. pc = "read" /\ UNCHANGED <<payload, expert>> /\ (Refuse \/ pc' = "read")
    BY DEF ReadCompact, ReadNext
<1>2. CASE Refuse
    BY <1>1, <1>2, RefuseIInv
<1>3. CASE pc' = "read"
    <2>1. TypeOK /\ offset \in Nat /\ payload' = payload /\ expert' = expert
        BY <1>1 DEF IInv, TypeOK
    <2>2. /\ todo # <<>> /\ field \in Field /\ field.name \in DOMAIN CompactMax /\ size \in Nat
          /\ offset' = offset + size /\ offset' <= Len(payload) /\ value \in Nat
          /\ read' = Append(read, entry)
          /\ tx' \in TxType /\ tx'.bytes = tx.bytes /\ tx'.pubkey = tx.pubkey
          /\ tx'.number = [tx.number EXCEPT ![field.name] = value]
        BY <1>3, <2>1, ReadCompactSteps
    <2>3. tx.number \in [DOMAIN CompactMax -> Nat] /\ Tiles
        BY <1>1 DEF IInv, TypeOK
    <2>4. /\ todo' \in Seq(Field) /\ Listed(todo', tx'.number["methodSelector"])
          /\ Behind(Rank(Head(todo)), todo')
          /\ tx'.number["numberOfPubkeys"] <= MAX_MULTISIG_PUB_KEY
        BY <1>1, <1>3, NextFields
    <2>5. entry \in Part /\ entry.field = Head(todo)
        BY <2>1, <2>2 DEF Part
    <2> HIDE DEF entry
    <2>6. Ahead' /\ \A k \in 1 .. Len(read) : read[k].field \in Field /\ Rank(read[k].field) < Rank(field)
        BY <1>1, <2>2, <2>4, <2>5, AppendAhead
    <2>7. Holds(tx', payload, entry)
        <3>1. field.name # "pubkey"
            BY <2>2 DEF CompactMax
        <3>2. tx'.number[field.name] = value
            BY <2>2, <2>3
        <3> QED
            BY <2>2, <3>1, <3>2 DEF Holds, entry
    <2> HIDE DEF field, size, value
    <2>8. ASSUME NEW k \in 1 .. Len(read) PROVE Holds(tx', payload, read[k])
        <3>1. Holds(tx, payload, read[k])
            BY <2>3 DEF Tiles
        <3>2. CASE read[k].field.name \in DOMAIN CompactMax
            <4>1. read[k].field \in Field /\ Rank(read[k].field) # Rank(field)
                BY <2>2, <2>6, RankType
            <4>2. field.name # "pubkey"
                BY <2>2 DEF CompactMax
            <4>3. read[k].field.name # field.name
                BY <2>2, <4>1, <4>2, RankOfName
            <4>4. tx'.number[read[k].field.name] = tx.number[read[k].field.name]
                BY <2>2, <2>3, <3>2, <4>3
            <4> QED
                BY <3>1, <3>2, <4>4 DEF Holds
        <3>3. CASE read[k].field.name \notin DOMAIN CompactMax
            BY <2>2, <3>1, <3>3 DEF Holds, HeldBy
        <3> QED
            BY <3>2, <3>3
    <2>9. Tiles' /\ read' # <<>> /\ read' \in Seq(Part)
        BY <1>1, <2>1, <2>2, <2>7, <2>8, AppendTiles DEF entry
    <2>10. TypeOK'
        <3>1. payload' \in Seq(0 .. 255) /\ expert' \in BOOLEAN /\ pc' \in Stages
            BY <1>3, <2>1 DEF TypeOK, Stages
        <3>2. offset' \in 0 .. Len(payload')
            BY <2>1, <2>2
        <3> QED
            BY <2>2, <2>4, <2>9, <3>1, <3>2 DEF TypeOK, TxType, Part
    <2> QED
        BY <1>3, <2>4, <2>6, <2>9, <2>10 DEF IInv
<1> QED
    BY <1>1, <1>2, <1>3

\* The other actions read nothing.
LEMMA NextIInv == IInv /\ [Next]_vars => IInv'
<1> SUFFICES ASSUME IInv, [Next]_vars PROVE IInv'
    OBVIOUS
<1>0. TypeOK /\ tx.number["numberOfPubkeys"] <= MAX_MULTISIG_PUB_KEY
    BY DEF IInv
<1>1. ASSUME NEW upload \in Payloads, Receive(upload) PROVE IInv'
    <2>1. upload \in Seq(0 .. 255)
        BY LengthAssumption
    <2>2. /\ payload' = upload /\ offset' = 0 /\ todo' = Header /\ tx' = ClearedTx /\ read' = <<>>
          /\ pc' \in {"refused", "read"} /\ expert' = expert
        BY <1>1 DEF Receive, StartTx
    <2>3. tx' \in TxType /\ tx'.number["numberOfPubkeys"] = 0
        <3>1. "numberOfPubkeys" \in DOMAIN CompactMax
            BY DEF CompactMax
        <3> QED
            BY <2>2, <3>1, ClearedTxType DEF ClearedTx
    <2>4. TypeOK'
        <3>1. 0 \in 0 .. Len(upload)
            BY <2>1
        <3> QED
            BY <1>0, <2>1, <2>2, <2>3, <3>1, HeaderType DEF TypeOK, TxType, Stages
    <2>5. Ahead'
        <3>1. Header # <<>> /\ Listed(Header, tx'.number["methodSelector"])
            BY HeaderType, HeaderListed, EmptySeq
        <3> QED
            BY <2>2, <3>1 DEF Ahead
    <2>6. Tiles'
        BY <2>2 DEF Tiles
    <2> QED
        BY <2>2, <2>3, <2>4, <2>5, <2>6, LengthAssumption DEF IInv
<1>2. CASE ToggleExpert
    <2>1. TypeOK' /\ pc' = "idle" /\ tx' = tx
        BY <1>0, <1>2 DEF ToggleExpert, TypeOK
    <2> QED
        BY <1>0, <2>1 DEF IInv
<1>3. CASE ReadBytes
    BY <1>3, ReadBytesIInv
<1>4. CASE ReadCompact
    BY <1>4, ReadCompactIInv
<1>5. CASE ReadEnd
    <2>1. /\ pc = "read" /\ todo = <<>> /\ UNCHANGED <<payload, expert, offset, todo, tx, read>>
          /\ pc' = "refused" \/ (pc' = "validate" /\ offset = Len(payload))
        BY <1>5 DEF ReadEnd, AllParsed
    <2>2. TypeOK'
        BY <1>0, <2>1 DEF TypeOK, Stages
    <2>3. Tiles /\ read # <<>>
        BY <2>1 DEF IInv, Ahead
    <2>4. Tiles'
        BY <2>1, <2>3 DEF Tiles
    <2> QED
        BY <1>0, <2>1, <2>2, <2>3, <2>4 DEF IInv
<1>6. CASE Validate
    <2>1. /\ pc = "validate" /\ UNCHANGED <<payload, expert, offset, todo, tx, read>>
          /\ pc' = "refused" \/ (pc' = "review" /\ Screens # <<>> /\ \A idx \in DOMAIN Screens : Screens[idx] # NoItem)
        BY <1>6 DEF Validate
    <2>2. TypeOK'
        BY <1>0, <2>1 DEF TypeOK, Stages
    <2>3. Tiles /\ read # <<>> /\ offset = Len(payload)
        BY <2>1 DEF IInv
    <2>4. Tiles'
        BY <2>1, <2>3 DEF Tiles
    <2>5. Screens' = Screens
        BY <2>1 DEF Screens, parser_getItem
    <2> QED
        BY <1>0, <2>1, <2>2, <2>3, <2>4, <2>5 DEF IInv
<1>7. CASE Answer
    <2>1. /\ pc' = "idle" /\ payload' = <<>> /\ offset' = 0 /\ todo' = <<>> /\ read' = <<>>
          /\ UNCHANGED <<expert, tx>>
        BY <1>7 DEF Answer
    <2>2. TypeOK'
        BY <1>0, <2>1 DEF TypeOK, Stages
    <2> QED
        BY <1>0, <2>1, <2>2 DEF IInv
<1>8. CASE UNCHANGED vars
    <2>1. UNCHANGED <<payload, expert, pc, offset, todo, tx, read>>
        BY <1>8 DEF vars
    <2>2. TypeOK'
        BY <1>0, <2>1 DEF TypeOK
    <2>3. Ahead => Ahead'
        BY <2>1 DEF Ahead
    <2>4. Tiles => Tiles'
        BY <2>1 DEF Tiles
    <2>5. Screens' = Screens
        BY <2>1 DEF Screens, parser_getItem
    <2> QED
        BY <1>0, <2>1, <2>2, <2>3, <2>4, <2>5 DEF IInv
<1> QED
    BY <1>1, <1>2, <1>3, <1>4, <1>5, <1>6, <1>7, <1>8 DEF Next

\* The invariant holds in every state that the parser reaches.
LEMMA AlwaysIInv == Spec => []IInv
<1> QED
    BY InitIInv, NextIInv, PTL DEF Spec

\* An int8_t holds the index of every item.
LEMMA ItemsOfReview ==
    ASSUME TypeOK, tx.number["numberOfPubkeys"] <= MAX_MULTISIG_PUB_KEY
    PROVE  numItems(tx, expert) \in 0 .. 127
<1>1. /\ tx.number["numberOfPubkeys"] \in 0 .. MAX_MULTISIG_PUB_KEY
      /\ tx.account_type \in {UNKNOWN, WALLET, MULTISIG, VESTING, VAULT} /\ expert \in BOOLEAN
    BY DEF TypeOK, CompactMax
<1> DEFINE items == numItems(tx, expert)
           method == tx.number["methodSelector"]
           count == tx.number["numberOfPubkeys"]
<1>2. count \in Nat /\ 9 + 2 * count <= 127
    BY <1>1, LengthAssumption
<1>3. items = (CASE method = METHOD_SPAWN /\ tx.account_type = WALLET -> IF expert THEN 7 ELSE 3
                 [] method = METHOD_SPAWN /\ tx.account_type \in {MULTISIG, VESTING} ->
                       (IF expert THEN 9 ELSE 5) + 2 * count
                 [] method = METHOD_SPAWN /\ tx.account_type = VAULT -> IF expert THEN 12 ELSE 8
                 [] method = METHOD_SPEND -> IF expert THEN 8 ELSE 5
                 [] method = METHOD_DRAIN_VAULT -> IF expert THEN 9 ELSE 6
                 [] OTHER -> 0)
    BY DEF numItems
<1> HIDE DEF items, method, count
<1>4. items \in 0 .. 127
    BY <1>1, <1>2, <1>3 DEF METHOD_SPAWN, METHOD_SPEND, METHOD_DRAIN_VAULT, WALLET, MULTISIG, VESTING, VAULT
<1> QED
    BY <1>4 DEF items

-----------------------------------------------------------------------------
\* The theorems.

\* The parser's state keeps its types and its cursor stays inside the upload, whatever
\* was uploaded (parser_impl.c:23-50, parser_impl_common.c:22-188).
THEOREM TypeCorrect == Spec => []TypeOK
<1>1. IInv => TypeOK
    BY DEF IInv
<1> QED
    BY <1>1, AlwaysIInv, PTL

\* An accepted upload is its fields, one behind the other from the first byte to the
\* last, and no field that was read is overwritten by a later one
\* (parser_impl.c:23-50, parser_impl_common.c:22-188).
THEOREM UploadsAreTheirFields == Spec => []FieldsTileTheUpload
<1>1. IInv => FieldsTileTheUpload
    <2> SUFFICES ASSUME IInv, pc = "review" PROVE FieldsTileTheUpload
        BY DEF FieldsTileTheUpload
    <2>1. Tiles /\ offset = Len(payload) /\ read # <<>> /\ read \in Seq(Part)
        BY DEF IInv, TypeOK, Part
    <2>2. /\ read[1].ptr = 0
          /\ \A k \in 1 .. Len(read) - 1 : read[k].ptr + read[k].len = read[k + 1].ptr
          /\ read[Len(read)].ptr + read[Len(read)].len = Len(payload)
          /\ \A k \in 1 .. Len(read) : Holds(tx, payload, read[k])
        BY <2>1 DEF Tiles
    <2>3. ASSUME NEW k \in 1 .. Len(read)
          PROVE  LET end == read[k].ptr + read[k].len IN
                 /\ end = IF k = Len(read) THEN Len(payload) ELSE read[k + 1].ptr
                 /\ IF read[k].field.name \in DOMAIN CompactMax
                    THEN tx.number[read[k].field.name] = getValue(SubSeq(payload, read[k].ptr + 1, end))
                    ELSE Stored(read[k].field) = [ptr |-> read[k].ptr, len |-> read[k].len]
        <3>1. k = Len(read) \/ k \in 1 .. Len(read) - 1
            BY <2>1
        <3>2. Holds(tx, payload, read[k])
            BY <2>2
        <3>3. read[k].ptr + read[k].len = IF k = Len(read) THEN Len(payload) ELSE read[k + 1].ptr
            BY <2>2, <3>1
        <3> QED
            BY <3>2, <3>3 DEF Holds, HeldBy, Stored
    <2> QED
        BY <2>2, <2>3 DEF FieldsTileTheUpload
<1> QED
    BY <1>1, AlwaysIInv, PTL

\* No index that fits the view's int8_t shows a screen past those of the mode, because
\* an account of MAX_MULTISIG_PUB_KEY keys still has fewer than 128 of them
\* (parser.c:79-160, common/tx.c:103-119).
THEOREM NoIndexShowsMore == Spec => []NoOtherScreens
<1>1. IInv => NoOtherScreens
    <2> SUFFICES ASSUME IInv, pc = "review" PROVE NoOtherScreens
        BY DEF NoOtherScreens
    <2> DEFINE items == numItems(tx, expert)
    <2>1. items \in 0 .. 127
        BY ItemsOfReview DEF IInv
    <2>2. /\ DOMAIN Screens = 0 .. items - 1
          /\ \A idx \in 0 .. items - 1 : Screens[idx] = parser_getItem(idx)
        BY DEF Screens
    <2>3. \A idx \in 0 .. items - 1 : parser_getItem(idx) # NoItem
        BY <2>2 DEF IInv
    <2>4. \A idx : tx_getItem(idx) = IF idx > items THEN NoItem ELSE parser_getItem(idx)
        BY DEF tx_getItem
    <2>5. \A idx : ~(idx % 256 < items) => parser_getItem(idx) = NoItem
        BY DEF parser_getItem, checkSanity
    <2> HIDE DEF items
    <2>6. ASSUME NEW displayIdx \in -128 .. 127
          PROVE  tx_getItem(displayIdx) # NoItem <=> displayIdx \in 0 .. items - 1
        <3>1. CASE displayIdx \in 0 .. items - 1
            BY <2>1, <2>3, <2>4, <3>1
        <3>2. CASE displayIdx >= items
            <4>1. displayIdx % 256 = displayIdx
                BY <2>1, <3>2
            <4>2. ~(displayIdx % 256 < items)
                BY <2>1, <3>2, <4>1
            <4>3. tx_getItem(displayIdx) = NoItem
                BY <2>4, <2>5, <4>2
            <4> QED
                BY <2>1, <3>2, <4>3
        <3>3. CASE displayIdx < 0
            <4>1. displayIdx % 256 = displayIdx + 256
                BY <3>3
            <4>2. ~(displayIdx % 256 < items)
                BY <2>1, <3>3, <4>1
            <4>3. tx_getItem(displayIdx) = NoItem
                BY <2>4, <2>5, <4>2
            <4> QED
                BY <2>1, <3>3, <4>3
        <3> QED
            BY <2>1, <3>1, <3>2, <3>3
    <2> QED
        BY <2>2, <2>6 DEF NoOtherScreens
<1> QED
    BY <1>1, AlwaysIInv, PTL

-----------------------------------------------------------------------------
\* Which fields a transaction has.

SetOf(list) == {list[k] : k \in 1 .. Len(list)}

Single(name) == [name |-> name, key |-> 0]

ReadFields == {read[k].field : k \in 1 .. Len(read)}

IsRead(name) == Single(name) \in ReadFields

\* The fields of the transaction, as far as it is known.
Planned ==
    SetOf(Header)
    \cup (IF IsRead("methodSelector") THEN SetOf(MethodFields(tx.number["methodSelector"])) ELSE {})
    \cup (IF IsRead("gas_price") /\ tx.number["methodSelector"] = METHOD_SPAWN
          THEN SetOf(SpawnFields(tx.account_type)) ELSE {})
    \cup (IF IsRead("numberOfPubkeys") THEN SetOf(KeyFields(tx.number["numberOfPubkeys"])) ELSE {})

\* What was read and what is still to be read are the fields of the transaction.
Complete ==
    /\ ReadFields \cup SetOf(todo) = Planned
    /\ IsRead("methodSelector") =>
        tx.number["methodSelector"] \in {METHOD_SPAWN, METHOD_SPEND, METHOD_DRAIN_VAULT}
    /\ ~IsRead("gas_price") => tx.account_type = UNKNOWN

CompleteInv ==
    /\ pc \in {"read", "validate", "review"} => Complete
    /\ pc \in {"validate", "review"} => todo = <<>>

\* The first of a list, and the others.
LEMMA SetOfTail ==
    ASSUME NEW S, NEW list \in Seq(S), list # <<>>
    PROVE  SetOf(list) = {Head(list)} \cup SetOf(Tail(list))
<1>1. /\ Len(list) \in Nat \ {0} /\ Head(list) = list[1] /\ Len(Tail(list)) = Len(list) - 1
      /\ \A k \in 1 .. Len(Tail(list)) : Tail(list)[k] = list[k + 1]
    BY HeadTailProperties, EmptySeq
<1> DEFINE rest == Tail(list)
<1> HIDE DEF rest
<1>2. \A k \in 1 .. Len(list) : k = 1 \/ (k - 1 \in 1 .. Len(rest) /\ rest[k - 1] = list[k])
    BY <1>1 DEF rest
<1>3. \A k \in 1 .. Len(rest) : k + 1 \in 1 .. Len(list) /\ rest[k] = list[k + 1]
    BY <1>1 DEF rest
<1>4. SetOf(list) = {list[1]} \cup SetOf(rest)
    BY <1>1, <1>2, <1>3 DEF SetOf
<1> QED
    BY <1>1, <1>4 DEF rest

\* The fields of two lists.
LEMMA SetOfConcat ==
    ASSUME NEW S, NEW a \in Seq(S), NEW b \in Seq(S)
    PROVE  SetOf(a \o b) = SetOf(a) \cup SetOf(b)
<1> DEFINE c == a \o b
<1>1. /\ Len(a) \in Nat /\ Len(b) \in Nat /\ Len(c) = Len(a) + Len(b)
      /\ \A k \in 1 .. Len(c) : c[k] = IF k <= Len(a) THEN a[k] ELSE b[k - Len(a)]
    BY ConcatProperties
<1> HIDE DEF c
<1>2. ASSUME NEW k \in 1 .. Len(c) PROVE c[k] \in SetOf(a) \cup SetOf(b)
    <2>1. CASE k <= Len(a)
        <3>1. k \in 1 .. Len(a) /\ c[k] = a[k]
            BY <1>1, <2>1
        <3> QED
            BY <3>1 DEF SetOf
    <2>2. CASE ~(k <= Len(a))
        <3>1. k - Len(a) \in 1 .. Len(b) /\ c[k] = b[k - Len(a)]
            BY <1>1, <2>2
        <3> QED
            BY <3>1 DEF SetOf
    <2> QED
        BY <2>1, <2>2
<1>3. ASSUME NEW k \in 1 .. Len(a) PROVE a[k] \in SetOf(c)
    <2>1. k \in 1 .. Len(c) /\ c[k] = a[k]
        BY <1>1
    <2> QED
        BY <2>1 DEF SetOf
<1>4. ASSUME NEW k \in 1 .. Len(b) PROVE b[k] \in SetOf(c)
    <2>1. Len(a) + k \in 1 .. Len(c) /\ c[Len(a) + k] = b[k]
        BY <1>1
    <2> QED
        BY <2>1 DEF SetOf
<1>5. SetOf(c) \subseteq SetOf(a) \cup SetOf(b)
    BY <1>2 DEF SetOf
<1>6. SetOf(a) \subseteq SetOf(c) /\ SetOf(b) \subseteq SetOf(c)
    BY <1>3, <1>4 DEF SetOf
<1> QED
    BY <1>5, <1>6 DEF c

\* An empty list has none.
LEMMA SetOfEmpty == SetOf(<<>>) = {}
BY DEF SetOf

\* What reading one more field changes.
LEMMA ReadFieldsStep ==
    ASSUME read \in Seq(Part), NEW entry \in Part, read' = Append(read, entry)
    PROVE  ReadFields' = ReadFields \cup {entry.field}
<1>1. /\ Len(read) \in Nat /\ Len(read') = Len(read) + 1 /\ read'[Len(read) + 1] = entry
      /\ \A k \in 1 .. Len(read) : read'[k] = read[k]
    OBVIOUS
<1>2. \A k \in 1 .. Len(read') : (k \in 1 .. Len(read) /\ read'[k] = read[k]) \/ read'[k] = entry
    BY <1>1
<1>3. \A k \in 1 .. Len(read) : k \in 1 .. Len(read') /\ read'[k] = read[k]
    BY <1>1
<1>4. Len(read) + 1 \in 1 .. Len(read')
    BY <1>1
<1> QED
    BY <1>1, <1>2, <1>3, <1>4 DEF ReadFields

\* The field that is read now was not read before, nor was any that ranks behind it.
LEMMA NotRead ==
    ASSUME IInv, pc = "read", todo # <<>>, NEW f, Rank(Head(todo)) <= Rank(f), f \in Field
    PROVE  f \notin ReadFields
<1>1. Ahead /\ read \in Seq(Part) /\ todo \in Seq(Field)
    BY DEF IInv, TypeOK, Part
<1>2. Head(todo) = todo[1] /\ 1 \in 1 .. Len(todo) /\ Head(todo) \in Field
    BY <1>1, EmptySeq
<1>3. \A k \in 1 .. Len(read) : read[k] \in Part
    BY <1>1
<1>4. ASSUME NEW k \in 1 .. Len(read), read[k].field = f PROVE FALSE
    <2>1. Rank(f) < Rank(Head(todo))
        BY <1>1, <1>2, <1>4 DEF Ahead, Behind
    <2>2. Rank(f) \in Nat /\ Rank(Head(todo)) \in Nat
        BY <1>2, RankType
    <2> QED
        BY <2>1, <2>2
<1> QED
    BY <1>4 DEF ReadFields

\* The three numbers that bring further fields, and their ranks.
LEMMA Bringers ==
    /\ Single("methodSelector") \in Field /\ Rank(Single("methodSelector")) = 3
    /\ Single("gas_price") \in Field /\ Rank(Single("gas_price")) = 6
    /\ Single("numberOfPubkeys") \in Field /\ Rank(Single("numberOfPubkeys")) = 8
    /\ Single("methodSelector") # Single("gas_price")
    /\ Single("methodSelector") # Single("numberOfPubkeys")
    /\ Single("gas_price") # Single("numberOfPubkeys")
<1>1. "methodSelector" \in FieldName /\ "gas_price" \in FieldName /\ "numberOfPubkeys" \in FieldName
    BY Names DEF FieldNames
<1> QED
    BY <1>1 DEF Single, Field, Rank

\* Reading bytes adds nothing to the plan.
LEMMA ReadBytesComplete ==
    ASSUME IInv, Complete, ReadBytes, pc = "read", pc' = "read"
    PROVE  Complete'
<1> DEFINE field == Head(todo)
           size == FixedLength[field.name]
           entry == [field |-> field, ptr |-> offset, len |-> size]
<1>1. TypeOK /\ offset \in Nat /\ read \in Seq(Part) /\ todo \in Seq(Field)
    BY DEF IInv, TypeOK, Part
<1>2. /\ todo # <<>> /\ todo' = Tail(todo)
      /\ field \in Field /\ field.name \in DOMAIN FixedLength /\ size \in Nat
      /\ read' = Append(read, entry)
      /\ tx'.number = tx.number /\ tx'.account_type = tx.account_type
    BY <1>1, ReadBytesSteps
<1>3. entry \in Part /\ entry.field = field
    BY <1>1, <1>2 DEF Part
<1> HIDE DEF entry, size
<1>4. ReadFields' = ReadFields \cup {field}
    BY <1>1, <1>2, <1>3, ReadFieldsStep
<1>5. SetOf(todo) = {field} \cup SetOf(todo')
    BY <1>1, <1>2, SetOfTail
<1>6. field.name \notin {"methodSelector", "gas_price", "numberOfPubkeys"}
    BY <1>2 DEF FixedLength
<1> HIDE DEF field
<1>7. field # Single("methodSelector") /\ field # Single("gas_price") /\ field # Single("numberOfPubkeys")
    BY <1>6 DEF Single
<1>8. /\ IsRead("methodSelector")' <=> IsRead("methodSelector")
      /\ IsRead("gas_price")' <=> IsRead("gas_price")
      /\ IsRead("numberOfPubkeys")' <=> IsRead("numberOfPubkeys")
    BY <1>4, <1>7 DEF IsRead
<1>9. Planned' = Planned
    BY <1>2, <1>8 DEF Planned
<1>10. ReadFields' \cup SetOf(todo') = ReadFields \cup SetOf(todo)
    BY <1>4, <1>5
<1> QED
    BY <1>2, <1>8, <1>9, <1>10 DEF Complete

\* Reading a number adds to the plan what it brings.
LEMMA ReadCompactComplete ==
    ASSUME IInv, Complete, ReadCompact, pc = "read", pc' = "read"
    PROVE  Complete'
<1> DEFINE field == Head(todo)
           size == compactLen(payload[offset + 1])
           value == getValue(SubSeq(payload, offset + 1, offset + size))
           entry == [field |-> field, ptr |-> offset, len |-> size]
           method == tx.number["methodSelector"]
           after == FieldsAfter(field.name, value)
<1>1. /\ TypeOK /\ offset \in Nat /\ read \in Seq(Part) /\ todo \in Seq(Field)
      /\ tx.number \in [DOMAIN CompactMax -> Nat] /\ Listed(todo, method)
    BY DEF IInv, TypeOK, Part, Ahead
<1>2. /\ todo # <<>> /\ todo' = Tail(todo) \o after
      /\ field \in Field /\ field.name \in DOMAIN CompactMax /\ size \in Nat
      /\ value \in Nat /\ Accepted(field.name, value)
      /\ read' = Append(read, entry)
      /\ tx'.number = [tx.number EXCEPT ![field.name] = value]
      /\ tx'.account_type = IF field.name = "gas_price" /\ method = METHOD_SPAWN
                            THEN SpawnedType ELSE tx.account_type
    BY <1>1, ReadCompactSteps
<1>3. entry \in Part /\ entry.field = field
    BY <1>1, <1>2 DEF Part
<1> HIDE DEF entry, size, value
<1>4. ReadFields' = ReadFields \cup {field}
    BY <1>1, <1>2, <1>3, ReadFieldsStep
<1>5. field = Single(field.name)
    <2>1. field.name # "pubkey"
        BY <1>2 DEF CompactMax
    <2>2. field.key = 0
        BY <1>1, <1>2, <2>1, TailListed
    <2> QED
        BY <1>2, <2>2 DEF Field, Single
<1>6. tx'.number["numberOfPubkeys"] <= MAX_MULTISIG_PUB_KEY
    BY NextFields
<1>7. after \in Seq(Field)
    <2>1. CASE field.name = "methodSelector"
        <3>1. value \in {METHOD_SPAWN, METHOD_SPEND, METHOD_DRAIN_VAULT} /\ after = MethodFields(value)
            BY <1>2, <2>1 DEF Accepted, FieldsAfter
        <3> QED
            BY <3>1, MethodFieldsType
    <2>2. CASE field.name = "gas_price" /\ method = METHOD_SPAWN
        <3>1. after = SpawnFields(accountType)
            BY <2>2 DEF FieldsAfter
        <3> QED
            BY <3>1, SpawnFieldsType
    <2>3. CASE field.name = "numberOfPubkeys"
        <3>1. after = KeyFields(value)
            BY <2>3 DEF FieldsAfter
        <3> QED
            BY <1>2, <3>1, KeyFieldsType
    <2>4. CASE field.name \notin {"methodSelector", "numberOfPubkeys"}
               /\ ~(field.name = "gas_price" /\ method = METHOD_SPAWN)
        <3>1. after = <<>>
            BY <2>4 DEF FieldsAfter
        <3> HIDE DEF after
        <3> QED
            BY <3>1
    <2> QED
        BY <2>1, <2>2, <2>3, <2>4
<1>8. ReadFields' \cup SetOf(todo') = (ReadFields \cup SetOf(todo)) \cup SetOf(after)
    <2>1. Tail(todo) \in Seq(Field)
        BY <1>1, <1>2, TailListed
    <2>2. SetOf(todo') = SetOf(Tail(todo)) \cup SetOf(after)
        <3> HIDE DEF after
        <3>1. SetOf(Tail(todo) \o after) = SetOf(Tail(todo)) \cup SetOf(after)
            BY <1>7, <2>1, SetOfConcat
        <3> QED
            BY <1>2, <3>1
    <2>3. SetOf(todo) = {field} \cup SetOf(Tail(todo))
        BY <1>1, <1>2, SetOfTail
    <2> QED
        BY <1>4, <2>2, <2>3
<1>9. \A name : Single(name) \in Field /\ Rank(field) <= Rank(Single(name)) => ~IsRead(name)
    BY <1>1, <1>2, NotRead DEF IsRead
<1>10. \A name : name # field.name => (IsRead(name)' <=> IsRead(name))
    BY <1>4, <1>5 DEF IsRead, Single
<1>11. \A name : name = field.name => IsRead(name)'
    BY <1>4, <1>5 DEF IsRead
<1>12. "methodSelector" \in DOMAIN CompactMax /\ "numberOfPubkeys" \in DOMAIN CompactMax
    BY DEF CompactMax
<1>13. /\ field.name # "methodSelector" => tx'.number["methodSelector"] = method
       /\ field.name # "numberOfPubkeys" => tx'.number["numberOfPubkeys"] = tx.number["numberOfPubkeys"]
       /\ tx'.number[field.name] = value
    BY <1>1, <1>2, <1>12
<1> HIDE DEF method, after, field
<1>14. Planned' = Planned \cup SetOf(after)
    <2>1. CASE field.name = "methodSelector"
        <3>1. after = MethodFields(value)
            BY <1>2, <2>1 DEF after, FieldsAfter
        <3>2. Rank(field) = 3
            BY <2>1 DEF Rank
        <3>3. ~IsRead("methodSelector") /\ ~IsRead("gas_price") /\ ~IsRead("numberOfPubkeys")
            BY <1>9, <3>2, Bringers
        <3>4. IsRead("methodSelector")' /\ ~IsRead("gas_price")' /\ ~IsRead("numberOfPubkeys")'
            BY <1>10, <1>11, <2>1, <3>3
        <3>5. Planned = SetOf(Header)
            BY <3>3 DEF Planned
        <3>6. Planned' = SetOf(Header) \cup SetOf(MethodFields(value))
            BY <1>13, <2>1, <3>4 DEF Planned
        <3> QED
            BY <3>1, <3>5, <3>6
    <2>2. CASE field.name = "gas_price" /\ method = METHOD_SPAWN
        <3>1. after = SpawnFields(accountType)
            BY <2>2 DEF after, method, FieldsAfter
        <3>2. Rank(field) = 6
            BY <2>2 DEF Rank
        <3>3. ~IsRead("gas_price") /\ ~IsRead("numberOfPubkeys")
            BY <1>9, <3>2, Bringers
        <3>4. /\ IsRead("gas_price")' /\ ~IsRead("numberOfPubkeys")'
              /\ IsRead("methodSelector")' <=> IsRead("methodSelector")
            BY <1>10, <1>11, <2>2, <3>3
        <3>5. SpawnFields(tx'.account_type) = SpawnFields(accountType)
            <4>1. tx.account_type = UNKNOWN
                BY <3>3 DEF Complete
            <4>2. CASE accountType \in {WALLET, MULTISIG, VESTING, VAULT}
                BY <1>2, <2>2, <4>2 DEF SpawnedType, field
            <4>3. CASE accountType \notin {WALLET, MULTISIG, VESTING, VAULT}
                <5>1. tx'.account_type = UNKNOWN
                    BY <1>2, <2>2, <4>1, <4>3 DEF SpawnedType, field
                <5>2. SpawnFields(UNKNOWN) = <<>>
                    BY DEF SpawnFields, UNKNOWN, WALLET, MULTISIG, VESTING, VAULT
                <5>3. SpawnFields(accountType) = <<>>
                    BY <4>3 DEF SpawnFields
                <5> QED
                    BY <5>1, <5>2, <5>3
            <4> QED
                BY <4>2, <4>3
        <3>6. Planned = SetOf(Header) \cup (IF IsRead("methodSelector") THEN SetOf(MethodFields(method)) ELSE {})
            BY <3>3 DEF Planned, method
        <3>7. Planned' = SetOf(Header) \cup (IF IsRead("methodSelector") THEN SetOf(MethodFields(method)) ELSE {})
                        \cup SetOf(SpawnFields(tx'.account_type))
            BY <1>13, <2>2, <3>4 DEF Planned
        <3> QED
            BY <3>1, <3>5, <3>6, <3>7
    <2>3. CASE field.name = "numberOfPubkeys"
        <3>1. after = KeyFields(value)
            BY <2>3 DEF after, FieldsAfter
        <3>2. Rank(field) = 8
            BY <2>3 DEF Rank
        <3>3. ~IsRead("numberOfPubkeys")
            BY <1>9, <3>2, Bringers
        <3>4. /\ IsRead("numberOfPubkeys")'
              /\ IsRead("methodSelector")' <=> IsRead("methodSelector")
              /\ IsRead("gas_price")' <=> IsRead("gas_price")
            BY <1>10, <1>11, <2>3
        <3>5. tx'.account_type = tx.account_type
            BY <1>2, <2>3 DEF field
        <3> QED
            BY <1>13, <2>3, <3>1, <3>3, <3>4, <3>5 DEF Planned, method
    <2>4. CASE field.name \notin {"methodSelector", "numberOfPubkeys"}
               /\ ~(field.name = "gas_price" /\ method = METHOD_SPAWN)
        <3>1. SetOf(after) = {}
            BY <2>4, SetOfEmpty DEF after, method, FieldsAfter
        <3>2. tx'.account_type = tx.account_type
            BY <1>2, <2>4 DEF field, method
        <3>3. /\ IsRead("methodSelector")' <=> IsRead("methodSelector")
              /\ IsRead("numberOfPubkeys")' <=> IsRead("numberOfPubkeys")
              /\ method = METHOD_SPAWN => (IsRead("gas_price")' <=> IsRead("gas_price"))
            BY <1>10, <2>4
        <3>4. Planned' = Planned
            BY <1>13, <2>4, <3>2, <3>3 DEF Planned, method
        <3> QED
            BY <3>1, <3>4
    <2> QED
        BY <2>1, <2>2, <2>3, <2>4
<1>15. IsRead("methodSelector")' =>
        tx'.number["methodSelector"] \in {METHOD_SPAWN, METHOD_SPEND, METHOD_DRAIN_VAULT}
    <2>1. CASE field.name = "methodSelector"
        <3>1. value \in {METHOD_SPAWN, METHOD_SPEND, METHOD_DRAIN_VAULT}
            BY <1>2, <2>1 DEF Accepted, field
        <3> QED
            BY <1>13, <2>1, <3>1
    <2>2. CASE field.name # "methodSelector"
        BY <1>10, <1>13, <2>2 DEF Complete, method
    <2> QED
        BY <2>1, <2>2
<1>16. ~IsRead("gas_price")' => tx'.account_type = UNKNOWN
    <2>1. CASE field.name = "gas_price"
        BY <1>11, <2>1
    <2>2. CASE field.name # "gas_price"
        BY <1>2, <1>10, <2>2 DEF Complete, field
    <2> QED
        BY <2>1, <2>2
<1> QED
    BY <1>8, <1>14, <1>15, <1>16 DEF Complete

\* Nothing is claimed before the first upload.
LEMMA InitComplete == Init => CompleteInv
BY DEF Init, CompleteInv

\* Every step keeps what was read and what is still to be read together complete.
LEMMA NextComplete == IInv /\ CompleteInv /\ [Next]_vars => CompleteInv'
<1> SUFFICES ASSUME IInv, CompleteInv, [Next]_vars PROVE CompleteInv'
    OBVIOUS
<1>1. ASSUME NEW upload \in Payloads, Receive(upload) PROVE CompleteInv'
    <2>1. /\ todo' = Header /\ tx' = ClearedTx /\ read' = <<>> /\ pc' \in {"refused", "read"}
        BY <1>1 DEF Receive, StartTx
    <2>2. ReadFields' = {}
        BY <2>1 DEF ReadFields
    <2>3. tx'.account_type = UNKNOWN
        BY <2>1 DEF ClearedTx
    <2>4. Planned' = SetOf(Header)
        BY <2>2 DEF Planned, IsRead
    <2>5. Complete'
        BY <2>1, <2>2, <2>3, <2>4 DEF Complete, IsRead
    <2> QED
        BY <2>1, <2>5 DEF CompleteInv
<1>2. CASE ToggleExpert
    BY <1>2 DEF ToggleExpert, CompleteInv
<1>3. CASE ReadBytes
    <2>1. pc = "read" /\ pc' \in {"read", "refused"}
        BY <1>3 DEF ReadBytes, ReadNext, Refuse
    <2>2. CASE pc' = "read"
        <3>1. Complete
            BY <2>1 DEF CompleteInv
        <3>2. Complete'
            BY <1>3, <2>1, <2>2, <3>1, ReadBytesComplete
        <3> QED
            BY <2>2, <3>2 DEF CompleteInv
    <2> QED
        BY <2>1, <2>2 DEF CompleteInv
<1>4. CASE ReadCompact
    <2>1. pc = "read" /\ pc' \in {"read", "refused"}
        BY <1>4 DEF ReadCompact, ReadNext, Refuse
    <2>2. CASE pc' = "read"
        <3>1. Complete
            BY <2>1 DEF CompleteInv
        <3>2. Complete'
            BY <1>4, <2>1, <2>2, <3>1, ReadCompactComplete
        <3> QED
            BY <2>2, <3>2 DEF CompleteInv
    <2> QED
        BY <2>1, <2>2 DEF CompleteInv
<1>5. ASSUME UNCHANGED <<todo, tx, read>>,
             \/ pc' \in {"idle", "refused"}
             \/ pc \in {"read", "validate", "review"} /\ todo = <<>>
      PROVE  CompleteInv'
    <2>1. Complete => Complete'
        BY <1>5 DEF Complete, ReadFields, Planned, IsRead
    <2> QED
        BY <1>5, <2>1 DEF CompleteInv
<1>6. CASE ReadEnd
    BY <1>5, <1>6 DEF ReadEnd
<1>7. CASE Validate
    <2>1. todo = <<>>
        BY <1>7 DEF Validate, CompleteInv
    <2> QED
        BY <1>5, <1>7, <2>1 DEF Validate
<1>8. CASE Answer
    BY <1>8 DEF Answer, CompleteInv
<1>9. CASE UNCHANGED vars
    <2>1. UNCHANGED <<pc, todo, tx, read>>
        BY <1>9 DEF vars
    <2>2. Complete => Complete'
        BY <2>1 DEF Complete, ReadFields, Planned, IsRead
    <2> QED
        BY <2>1, <2>2 DEF CompleteInv
<1> QED
    BY <1>1, <1>2, <1>3, <1>4, <1>6, <1>7, <1>8, <1>9 DEF Next

\* Both invariants, for the whole specification.
LEMMA AlwaysComplete == Spec => [](IInv /\ CompleteInv)
<1> QED
    BY InitIInv, NextIInv, InitComplete, NextComplete, PTL DEF Spec

-----------------------------------------------------------------------------
\* The screens.

Shown == {Screens[idx] : idx \in DOMAIN Screens}

\* The names of a list of fields as fields.
Singles(names) == {Single(name) : name \in names}

\* The fields of a list of names.
LEMMA SetOfFields ==
    ASSUME NEW names \in Seq(FieldName)
    PROVE  SetOf(Fields(names)) = Singles(SetOf(names))
<1>1. Len(Fields(names)) = Len(names)
      /\ \A k \in 1 .. Len(names) : Fields(names)[k] = Single(names[k])
    BY FieldsType DEF Single
<1> QED
    BY <1>1 DEF SetOf, Singles

\* A table of fields behind a title: its items by their index.
LEMMA TableItems ==
    ASSUME NEW names \in Seq(FieldName), NEW text, NEW idx \in Nat
    PROVE  CaseOf(<<Title(text)>> \o Fields(names), idx) =
            IF idx = 0 THEN Single(text) ELSE IF idx <= Len(names) THEN Single(names[idx]) ELSE NoItem
<1> DEFINE items == <<Title(text)>> \o Fields(names)
           front == <<Title(text)>>
<1>1. Len(Fields(names)) = Len(names) /\ Fields(names) \in Seq(Field)
      /\ \A k \in 1 .. Len(names) : Fields(names)[k] = Single(names[k])
    BY FieldsType DEF Single
<1>2. front \in Seq({Title(text)} \cup Field) /\ Len(front) = 1 /\ front[1] = Single(text)
    BY DEF Title, Single
<1>3. Fields(names) \in Seq({Title(text)} \cup Field)
    BY <1>1
<1>4. items = front \o Fields(names) /\ Len(names) \in Nat
    OBVIOUS
<1> HIDE DEF items, front
<1>5. Len(items) = 1 + Len(names)
      /\ \A k \in 1 .. Len(items) : items[k] = IF k <= 1 THEN front[k] ELSE Fields(names)[k - 1]
    <2> DEFINE S == {Title(text)} \cup Field
               rest == Fields(names)
    <2>1. front \in Seq(S) /\ rest \in Seq(S) /\ Len(front) = 1 /\ Len(rest) = Len(names) /\ items = front \o rest
        BY <1>1, <1>2, <1>3, <1>4
    <2> HIDE DEF S, rest
    <2>2. Len(items) = 1 + Len(names)
          /\ \A k \in 1 .. Len(items) : items[k] = IF k <= 1 THEN front[k] ELSE rest[k - 1]
        BY <2>1, ConcatProperties
    <2> QED
        BY <2>2 DEF rest
<1>6. CASE idx = 0
    BY <1>2, <1>4, <1>5, <1>6 DEF CaseOf, items
<1>7. CASE idx # 0 /\ idx <= Len(names)
    <2>1. idx + 1 \in 1 .. Len(items) /\ ~(idx + 1 <= 1) /\ idx + 1 - 1 = idx /\ idx \in 1 .. Len(names)
          /\ idx < Len(items)
        BY <1>4, <1>5, <1>7
    <2>2. items[idx + 1] = Single(names[idx])
        BY <1>1, <1>5, <2>1
    <2> QED
        BY <1>7, <2>1, <2>2 DEF CaseOf, items
<1>8. CASE idx > Len(names)
    BY <1>4, <1>5, <1>8 DEF CaseOf, items
<1> QED
    BY <1>4, <1>6, <1>7, <1>8

\* A table whose names are distinct shows each of its first fields once.
LEMMA TableShows ==
    ASSUME NEW names \in Seq(FieldName), NEW text, NEW items \in Nat \ {0}, items <= Len(names) + 1,
           text \notin FieldName, text # "Address",
           \A k \in 1 .. Len(names) : names[k] # "pubkey",
           \A j, k \in 1 .. Len(names) : names[j] = names[k] => j = k,
           DOMAIN Screens = 0 .. items - 1,
           \A idx \in 0 .. items - 1 : Screens[idx] = CaseOf(<<Title(text)>> \o Fields(names), idx)
    PROVE  /\ \A m, n \in DOMAIN Screens : Screens[m] = Screens[n] => m = n
           /\ {item \in Shown : item.name \in FieldName} = Singles({names[k] : k \in 1 .. items - 1})
           /\ {x \in Shown : x.name = "Address"} = {} /\ {x \in Shown : x.name = "pubkey"} = {}
<1>1. Len(names) \in Nat
    OBVIOUS
<1>2. \A idx \in 0 .. items - 1 :
        Screens[idx] = IF idx = 0 THEN Single(text) ELSE Single(names[idx])
    <2> SUFFICES ASSUME NEW idx \in 0 .. items - 1
                 PROVE  Screens[idx] = IF idx = 0 THEN Single(text) ELSE Single(names[idx])
        OBVIOUS
    <2>1. idx \in Nat /\ idx <= Len(names)
        BY <1>1
    <2> QED
        BY <2>1, TableItems
<1>3. \A k \in 1 .. items - 1 : k \in 1 .. Len(names) /\ k \in 0 .. items - 1 /\ k # 0
    BY <1>1
<1>4. \A k \in 1 .. items - 1 : names[k] \in FieldName
    BY <1>3
<1>5. 0 \in 0 .. items - 1 /\ Screens[0] = Single(text)
    BY <1>2
<1>6. \A k \in 1 .. items - 1 : Screens[k] = Single(names[k])
    BY <1>2, <1>3
<1>7. \A idx \in 0 .. items - 1 : idx = 0 \/ idx \in 1 .. items - 1
    OBVIOUS
<1>8. \A x : Single(x).name = x
    BY DEF Single
<1>9. ASSUME NEW m \in DOMAIN Screens, NEW n \in DOMAIN Screens, Screens[m] = Screens[n]
      PROVE  m = n
    <2>1. Screens[m].name = Screens[n].name
        BY <1>9
    <2> QED
        BY <1>3, <1>4, <1>5, <1>6, <1>7, <1>8, <2>1
<1>10. Shown = {Single(text)} \cup Singles({names[k] : k \in 1 .. items - 1})
    <2>1. Shown \subseteq {Single(text)} \cup Singles({names[k] : k \in 1 .. items - 1})
        BY <1>5, <1>6, <1>7 DEF Shown, Singles
    <2>2. {Single(text)} \cup Singles({names[k] : k \in 1 .. items - 1}) \subseteq Shown
        BY <1>3, <1>5, <1>6 DEF Shown, Singles
    <2> QED
        BY <2>1, <2>2
<1>11. {item \in Shown : item.name \in FieldName} = Singles({names[k] : k \in 1 .. items - 1})
    BY <1>4, <1>8, <1>10 DEF Singles
<1>12. \A item \in Shown : item.name # "Address" /\ item.name # "pubkey"
    <2>1. "Address" \notin FieldName /\ "pubkey" \in FieldName
        BY Names DEF FieldNames
    <2>2. \A name \in {names[k] : k \in 1 .. items - 1} : name # "Address" /\ name # "pubkey"
        BY <1>3, <1>4, <2>1
    <2> QED
        BY <1>8, <1>10, <2>1, <2>2 DEF Singles
<1> QED
    BY <1>9, <1>11, <1>12

\* Where the items of a review come from.
LEMMA ReviewScreens ==
    ASSUME IInv, pc = "review"
    PROVE  /\ numItems(tx, expert) \in 1 .. 127
           /\ DOMAIN Screens = 0 .. numItems(tx, expert) - 1
           /\ \A idx \in 0 .. numItems(tx, expert) - 1 : Screens[idx] = getItem(tx, idx)
<1> DEFINE items == numItems(tx, expert)
<1>1. DOMAIN Screens = 0 .. items - 1
      /\ \A idx \in 0 .. items - 1 : Screens[idx] = parser_getItem(idx)
    BY DEF Screens
<1>2. items \in 0 .. 127
    BY ItemsOfReview DEF IInv
<1>3. items # 0
    <2> SUFFICES ASSUME items = 0 PROVE FALSE
        OBVIOUS
    <2>1. Screens = [idx \in {} |-> parser_getItem(idx)]
        BY DEF Screens
    <2>2. Screens # <<>>
        BY DEF IInv
    <2> QED
        BY <2>1, <2>2
<1>4. ASSUME NEW idx \in 0 .. items - 1 PROVE Screens[idx] = getItem(tx, idx)
    <2> HIDE DEF items
    <2>1. idx % 256 = idx /\ idx < items
        BY <1>2
    <2>2. parser_getItem(idx) = getItem(tx, idx)
        BY <2>1 DEF parser_getItem, checkSanity, items
    <2> QED
        BY <1>1, <2>2
<1> QED
    BY <1>1, <1>2, <1>3, <1>4

\* The fields of each list.
LEMMA HeaderSet == SetOf(Header) = Singles({"genesisId", "tx_version", "principal", "methodSelector"})
<1> DEFINE names == <<"genesisId", "tx_version", "principal", "methodSelector">>
<1>1. names \in Seq(FieldName) /\ Len(names) = 4
    BY Names DEF FieldNames
<1>2. SetOf(names) = {"genesisId", "tx_version", "principal", "methodSelector"}
    <2>1. names[1] = "genesisId" /\ names[2] = "tx_version" /\ names[3] = "principal" /\ names[4] = "methodSelector"
        OBVIOUS
    <2> HIDE DEF names
    <2>2. \A k \in 1 .. 4 : k = 1 \/ k = 2 \/ k = 3 \/ k = 4
        OBVIOUS
    <2>3. SetOf(names) \subseteq {"genesisId", "tx_version", "principal", "methodSelector"}
        BY <1>1, <2>1, <2>2 DEF SetOf
    <2>4. {"genesisId", "tx_version", "principal", "methodSelector"} \subseteq SetOf(names)
        BY <1>1, <2>1 DEF SetOf
    <2> QED
        BY <2>3, <2>4
<1>3. Header = Fields(names)
    BY DEF Header
<1> HIDE DEF names
<1> QED
    BY <1>1, <1>2, <1>3, SetOfFields

\* The fields of a spawn.
LEMMA SpawnSet == SetOf(MethodFields(METHOD_SPAWN)) = Singles({"account_template", "nonce", "gas_price"})
<1> DEFINE names == <<"account_template", "nonce", "gas_price">>
<1>1. names \in Seq(FieldName) /\ Len(names) = 3
    BY Names DEF FieldNames
<1>2. SetOf(names) = {"account_template", "nonce", "gas_price"}
    <2>1. names[1] = "account_template" /\ names[2] = "nonce" /\ names[3] = "gas_price"
        OBVIOUS
    <2> HIDE DEF names
    <2>2. \A k \in 1 .. 3 : k = 1 \/ k = 2 \/ k = 3
        OBVIOUS
    <2>3. SetOf(names) \subseteq {"account_template", "nonce", "gas_price"}
        BY <1>1, <2>1, <2>2 DEF SetOf
    <2>4. {"account_template", "nonce", "gas_price"} \subseteq SetOf(names)
        BY <1>1, <2>1 DEF SetOf
    <2> QED
        BY <2>3, <2>4
<1>3. MethodFields(METHOD_SPAWN) = Fields(names)
    BY DEF MethodFields, METHOD_SPAWN, METHOD_SPEND, METHOD_DRAIN_VAULT
<1> HIDE DEF names
<1> QED
    BY <1>1, <1>2, <1>3, SetOfFields

\* The fields of a spend.
LEMMA SpendSet == SetOf(MethodFields(METHOD_SPEND)) = Singles({"nonce", "gas_price", "destination", "amount"})
<1> DEFINE names == <<"nonce", "gas_price", "destination", "amount">>
<1>1. names \in Seq(FieldName) /\ Len(names) = 4
    BY Names DEF FieldNames
<1>2. SetOf(names) = {"nonce", "gas_price", "destination", "amount"}
    <2>1. names[1] = "nonce" /\ names[2] = "gas_price" /\ names[3] = "destination" /\ names[4] = "amount"
        OBVIOUS
    <2> HIDE DEF names
    <2>2. \A k \in 1 .. 4 : k = 1 \/ k = 2 \/ k = 3 \/ k = 4
        OBVIOUS
    <2>3. SetOf(names) \subseteq {"nonce", "gas_price", "destination", "amount"}
        BY <1>1, <2>1, <2>2 DEF SetOf
    <2>4. {"nonce", "gas_price", "destination", "amount"} \subseteq SetOf(names)
        BY <1>1, <2>1 DEF SetOf
    <2> QED
        BY <2>3, <2>4
<1>3. MethodFields(METHOD_SPEND) = Fields(names)
    BY DEF MethodFields, METHOD_SPAWN, METHOD_SPEND, METHOD_DRAIN_VAULT
<1> HIDE DEF names
<1> QED
    BY <1>1, <1>2, <1>3, SetOfFields

\* The fields of a drain.
LEMMA DrainSet == SetOf(MethodFields(METHOD_DRAIN_VAULT)) = Singles({"nonce", "gas_price", "vault", "destination", "amount"})
<1> DEFINE names == <<"nonce", "gas_price", "vault", "destination", "amount">>
<1>1. names \in Seq(FieldName) /\ Len(names) = 5
    BY Names DEF FieldNames
<1>2. SetOf(names) = {"nonce", "gas_price", "vault", "destination", "amount"}
    <2>1. names[1] = "nonce" /\ names[2] = "gas_price" /\ names[3] = "vault" /\ names[4] = "destination" /\ names[5] = "amount"
        OBVIOUS
    <2> HIDE DEF names
    <2>2. \A k \in 1 .. 5 : k = 1 \/ k = 2 \/ k = 3 \/ k = 4 \/ k = 5
        OBVIOUS
    <2>3. SetOf(names) \subseteq {"nonce", "gas_price", "vault", "destination", "amount"}
        BY <1>1, <2>1, <2>2 DEF SetOf
    <2>4. {"nonce", "gas_price", "vault", "destination", "amount"} \subseteq SetOf(names)
        BY <1>1, <2>1 DEF SetOf
    <2> QED
        BY <2>3, <2>4
<1>3. MethodFields(METHOD_DRAIN_VAULT) = Fields(names)
    BY DEF MethodFields, METHOD_SPAWN, METHOD_SPEND, METHOD_DRAIN_VAULT
<1> HIDE DEF names
<1> QED
    BY <1>1, <1>2, <1>3, SetOfFields

\* The fields of a wallet.
LEMMA WalletSet == SetOf(SpawnFields(WALLET)) = Singles({"walletPubkey"})
<1> DEFINE names == <<"walletPubkey">>
<1>1. names \in Seq(FieldName) /\ Len(names) = 1
    BY Names DEF FieldNames
<1>2. SetOf(names) = {"walletPubkey"}
    <2>1. names[1] = "walletPubkey"
        OBVIOUS
    <2> HIDE DEF names
    <2>2. \A k \in 1 .. 1 : k = 1
        OBVIOUS
    <2>3. SetOf(names) \subseteq {"walletPubkey"}
        BY <1>1, <2>1, <2>2 DEF SetOf
    <2>4. {"walletPubkey"} \subseteq SetOf(names)
        BY <1>1, <2>1 DEF SetOf
    <2> QED
        BY <2>3, <2>4
<1>3. SpawnFields(WALLET) = Fields(names)
    BY DEF SpawnFields, WALLET, MULTISIG, VESTING, VAULT
<1> HIDE DEF names
<1> QED
    BY <1>1, <1>2, <1>3, SetOfFields

\* The fields of a multisig.
LEMMA MultisigSet == SetOf(SpawnFields(MULTISIG)) = Singles({"approvers", "numberOfPubkeys"})
<1> DEFINE names == <<"approvers", "numberOfPubkeys">>
<1>1. names \in Seq(FieldName) /\ Len(names) = 2
    BY Names DEF FieldNames
<1>2. SetOf(names) = {"approvers", "numberOfPubkeys"}
    <2>1. names[1] = "approvers" /\ names[2] = "numberOfPubkeys"
        OBVIOUS
    <2> HIDE DEF names
    <2>2. \A k \in 1 .. 2 : k = 1 \/ k = 2
        OBVIOUS
    <2>3. SetOf(names) \subseteq {"approvers", "numberOfPubkeys"}
        BY <1>1, <2>1, <2>2 DEF SetOf
    <2>4. {"approvers", "numberOfPubkeys"} \subseteq SetOf(names)
        BY <1>1, <2>1 DEF SetOf
    <2> QED
        BY <2>3, <2>4
<1>3. SpawnFields(MULTISIG) = Fields(names)
    BY DEF SpawnFields, WALLET, MULTISIG, VESTING, VAULT
<1> HIDE DEF names
<1> QED
    BY <1>1, <1>2, <1>3, SetOfFields

\* The fields of a vesting account.
LEMMA VestingSet == SetOf(SpawnFields(VESTING)) = Singles({"approvers", "numberOfPubkeys"})
<1> DEFINE names == <<"approvers", "numberOfPubkeys">>
<1>1. names \in Seq(FieldName) /\ Len(names) = 2
    BY Names DEF FieldNames
<1>2. SetOf(names) = {"approvers", "numberOfPubkeys"}
    <2>1. names[1] = "approvers" /\ names[2] = "numberOfPubkeys"
        OBVIOUS
    <2> HIDE DEF names
    <2>2. \A k \in 1 .. 2 : k = 1 \/ k = 2
        OBVIOUS
    <2>3. SetOf(names) \subseteq {"approvers", "numberOfPubkeys"}
        BY <1>1, <2>1, <2>2 DEF SetOf
    <2>4. {"approvers", "numberOfPubkeys"} \subseteq SetOf(names)
        BY <1>1, <2>1 DEF SetOf
    <2> QED
        BY <2>3, <2>4
<1>3. SpawnFields(VESTING) = Fields(names)
    BY DEF SpawnFields, WALLET, MULTISIG, VESTING, VAULT
<1> HIDE DEF names
<1> QED
    BY <1>1, <1>2, <1>3, SetOfFields

\* The fields of a vault.
LEMMA VaultSet == SetOf(SpawnFields(VAULT)) = Singles({"owner", "totalAmount", "initialUnlockAmount", "vestingStart", "vestingEnd"})
<1> DEFINE names == <<"owner", "totalAmount", "initialUnlockAmount", "vestingStart", "vestingEnd">>
<1>1. names \in Seq(FieldName) /\ Len(names) = 5
    BY Names DEF FieldNames
<1>2. SetOf(names) = {"owner", "totalAmount", "initialUnlockAmount", "vestingStart", "vestingEnd"}
    <2>1. names[1] = "owner" /\ names[2] = "totalAmount" /\ names[3] = "initialUnlockAmount" /\ names[4] = "vestingStart" /\ names[5] = "vestingEnd"
        OBVIOUS
    <2> HIDE DEF names
    <2>2. \A k \in 1 .. 5 : k = 1 \/ k = 2 \/ k = 3 \/ k = 4 \/ k = 5
        OBVIOUS
    <2>3. SetOf(names) \subseteq {"owner", "totalAmount", "initialUnlockAmount", "vestingStart", "vestingEnd"}
        BY <1>1, <2>1, <2>2 DEF SetOf
    <2>4. {"owner", "totalAmount", "initialUnlockAmount", "vestingStart", "vestingEnd"} \subseteq SetOf(names)
        BY <1>1, <2>1 DEF SetOf
    <2> QED
        BY <2>3, <2>4
<1>3. SpawnFields(VAULT) = Fields(names)
    BY DEF SpawnFields, WALLET, MULTISIG, VESTING, VAULT
<1> HIDE DEF names
<1> QED
    BY <1>1, <1>2, <1>3, SetOfFields

\* The keys of an account, as fields.
LEMMA KeySet ==
    ASSUME NEW count \in Nat
    PROVE  SetOf(KeyFields(count)) = {[name |-> "pubkey", key |-> k - 1] : k \in 1 .. count}
BY KeyFieldsType DEF SetOf

\* Names of either list.
LEMMA SinglesUnion == \A X, Y : Singles(X) \cup Singles(Y) = Singles(X \cup Y)
BY DEF Singles

\* A field is told by its name.
LEMMA SinglesNames == \A X, name : Single(name) \in Singles(X) <=> name \in X
<1>1. \A x, y : Single(x) = Single(y) <=> x = y
    BY DEF Single
<1> QED
    BY <1>1 DEF Singles

Method == tx.number["methodSelector"]

Keys == {[name |-> "pubkey", key |-> k - 1] : k \in 1 .. tx.number["numberOfPubkeys"]}

SpawnNames == {"genesisId", "tx_version", "principal", "methodSelector", "account_template", "nonce",
     "gas_price"}

\* The fields of a transaction on screen, by its method and its account's type.
LEMMA ReviewFields ==
    ASSUME IInv, CompleteInv, pc = "review"
    PROVE  /\ Method \in {METHOD_SPAWN, METHOD_SPEND, METHOD_DRAIN_VAULT}
           /\ Method = METHOD_SPEND => ReadFields = Singles(
                {"genesisId", "tx_version", "principal", "methodSelector", "nonce", "gas_price",
                 "destination", "amount"})
           /\ Method = METHOD_DRAIN_VAULT => ReadFields = Singles(
                {"genesisId", "tx_version", "principal", "methodSelector", "nonce", "gas_price",
                 "vault", "destination", "amount"})
           /\ Method = METHOD_SPAWN /\ tx.account_type = WALLET =>
                ReadFields = Singles(SpawnNames \cup {"walletPubkey"})
           /\ Method = METHOD_SPAWN /\ tx.account_type = VAULT =>
                ReadFields = Singles(SpawnNames \cup
                    {"owner", "totalAmount", "initialUnlockAmount", "vestingStart", "vestingEnd"})
           /\ Method = METHOD_SPAWN /\ tx.account_type \in {MULTISIG, VESTING} =>
                ReadFields = Singles(SpawnNames \cup {"approvers", "numberOfPubkeys"}) \cup Keys
<1>1. ReadFields = Planned /\ Complete
    BY SetOfEmpty DEF CompleteInv, Complete
<1>2. IsRead("methodSelector")
    <2>1. Single("methodSelector") \in SetOf(Header)
        BY HeaderSet, SinglesNames
    <2> QED
        BY <1>1, <2>1 DEF IsRead, Planned
<1>3. Method \in {METHOD_SPAWN, METHOD_SPEND, METHOD_DRAIN_VAULT}
    BY <1>1, <1>2 DEF Complete, Method
<1>4. SetOf(Header) \cup SetOf(MethodFields(Method)) \subseteq ReadFields
    BY <1>1, <1>2 DEF Planned, Method
<1>5. IsRead("gas_price")
    <2>1. Single("gas_price") \in SetOf(MethodFields(Method))
        <3>1. CASE Method = METHOD_SPAWN
            BY <3>1, SpawnSet, SinglesNames
        <3>2. CASE Method = METHOD_SPEND
            BY <3>2, SpendSet, SinglesNames
        <3>3. CASE Method = METHOD_DRAIN_VAULT
            BY <3>3, DrainSet, SinglesNames
        <3> QED
            BY <1>3, <3>1, <3>2, <3>3
    <2> QED
        BY <1>4, <2>1 DEF IsRead
<1> DEFINE base == SetOf(Header) \cup SetOf(MethodFields(Method))
           spawned == IF Method = METHOD_SPAWN THEN SetOf(SpawnFields(tx.account_type)) ELSE {}
           keys == IF IsRead("numberOfPubkeys") THEN SetOf(KeyFields(tx.number["numberOfPubkeys"])) ELSE {}
<1>6. ReadFields = base \cup spawned \cup keys
    BY <1>1, <1>2, <1>5 DEF Planned, Method
<1>7. tx.number["numberOfPubkeys"] \in Nat
    BY DEF IInv, TypeOK, CompactMax
<1>8. SetOf(KeyFields(tx.number["numberOfPubkeys"])) = Keys
    BY <1>7, KeySet DEF Keys
<1>9. Single("numberOfPubkeys") \notin Keys
    BY DEF Single, Keys
<1>10. IsRead("numberOfPubkeys") <=> Single("numberOfPubkeys") \in base \cup spawned
    <2> HIDE DEF base, spawned
    <2> QED
        BY <1>6, <1>8, <1>9 DEF IsRead
<1> HIDE DEF base, spawned, keys
<1>11. METHOD_SPAWN # METHOD_SPEND /\ METHOD_SPAWN # METHOD_DRAIN_VAULT
    BY DEF METHOD_SPAWN, METHOD_SPEND, METHOD_DRAIN_VAULT
<1>12. Method = METHOD_SPEND => ReadFields = Singles(
                {"genesisId", "tx_version", "principal", "methodSelector", "nonce", "gas_price",
                 "destination", "amount"})
    <2> SUFFICES ASSUME Method = METHOD_SPEND PROVE ReadFields = Singles(
                {"genesisId", "tx_version", "principal", "methodSelector", "nonce", "gas_price",
                 "destination", "amount"})
        OBVIOUS
    <2>1. base = Singles({"genesisId", "tx_version", "principal", "methodSelector", "nonce",
                         "gas_price", "destination", "amount"})
        BY HeaderSet, SpendSet, SinglesUnion DEF base
    <2>2. spawned = {}
        BY <1>11 DEF spawned
    <2>3. ~IsRead("numberOfPubkeys")
        BY <1>10, <2>1, <2>2, SinglesNames
    <2> QED
        BY <1>6, <2>1, <2>2, <2>3 DEF keys
<1>13. Method = METHOD_DRAIN_VAULT => ReadFields = Singles(
                {"genesisId", "tx_version", "principal", "methodSelector", "nonce", "gas_price",
                 "vault", "destination", "amount"})
    <2> SUFFICES ASSUME Method = METHOD_DRAIN_VAULT PROVE ReadFields = Singles(
                {"genesisId", "tx_version", "principal", "methodSelector", "nonce", "gas_price",
                 "vault", "destination", "amount"})
        OBVIOUS
    <2>1. base = Singles({"genesisId", "tx_version", "principal", "methodSelector", "nonce",
                         "gas_price", "vault", "destination", "amount"})
        BY HeaderSet, DrainSet, SinglesUnion DEF base
    <2>2. spawned = {}
        BY <1>11 DEF spawned
    <2>3. ~IsRead("numberOfPubkeys")
        BY <1>10, <2>1, <2>2, SinglesNames
    <2> QED
        BY <1>6, <2>1, <2>2, <2>3 DEF keys
<1>14. Method = METHOD_SPAWN => base = Singles(SpawnNames)
    BY HeaderSet, SpawnSet, SinglesUnion DEF base, SpawnNames
<1>15. Method = METHOD_SPAWN /\ tx.account_type = WALLET =>
        ReadFields = Singles(SpawnNames \cup {"walletPubkey"})
    <2> SUFFICES ASSUME Method = METHOD_SPAWN, tx.account_type = WALLET
                 PROVE  ReadFields = Singles(SpawnNames \cup {"walletPubkey"})
        OBVIOUS
    <2>1. base \cup spawned = Singles(SpawnNames \cup {"walletPubkey"})
        BY <1>14, WalletSet, SinglesUnion DEF spawned
    <2>2. ~IsRead("numberOfPubkeys")
        BY <1>10, <2>1, SinglesNames DEF SpawnNames
    <2> QED
        BY <1>6, <2>1, <2>2 DEF keys
<1>16. Method = METHOD_SPAWN /\ tx.account_type = VAULT =>
        ReadFields = Singles(SpawnNames \cup
            {"owner", "totalAmount", "initialUnlockAmount", "vestingStart", "vestingEnd"})
    <2> DEFINE names == {"owner", "totalAmount", "initialUnlockAmount", "vestingStart", "vestingEnd"}
    <2> SUFFICES ASSUME Method = METHOD_SPAWN, tx.account_type = VAULT
                 PROVE  ReadFields = Singles(SpawnNames \cup names)
        OBVIOUS
    <2>1. base \cup spawned = Singles(SpawnNames \cup names)
        BY <1>14, VaultSet, SinglesUnion DEF spawned
    <2>2. ~IsRead("numberOfPubkeys")
        BY <1>10, <2>1, SinglesNames DEF SpawnNames
    <2> QED
        BY <1>6, <2>1, <2>2 DEF keys
<1>17. Method = METHOD_SPAWN /\ tx.account_type \in {MULTISIG, VESTING} =>
        ReadFields = Singles(SpawnNames \cup {"approvers", "numberOfPubkeys"}) \cup Keys
    <2> SUFFICES ASSUME Method = METHOD_SPAWN, tx.account_type \in {MULTISIG, VESTING}
                 PROVE  ReadFields = Singles(SpawnNames \cup {"approvers", "numberOfPubkeys"}) \cup Keys
        OBVIOUS
    <2>1. base \cup spawned = Singles(SpawnNames \cup {"approvers", "numberOfPubkeys"})
        BY <1>14, MultisigSet, VestingSet, SinglesUnion DEF spawned
    <2>2. IsRead("numberOfPubkeys")
        BY <1>10, <2>1, SinglesNames
    <2> QED
        BY <1>6, <1>8, <2>1, <2>2 DEF keys
<1> QED
    BY <1>3, <1>12, <1>13, <1>15, <1>16, <1>17

\* Leaving some names out.
LEMMA SinglesLess == \A X, Y : {field \in Singles(X) : field.name \notin Y} = Singles(X \ Y)
<1>1. \A x : Single(x).name = x
    BY DEF Single
<1> QED
    BY <1>1 DEF Singles

-----------------------------------------------------------------------------
\* Every field has its screen, by the tables.

\* What ScreensShowTheTransaction asks of a review.
ScreensMatch ==
    /\ \A m, n \in DOMAIN Screens : Screens[m] = Screens[n] => m = n
    /\ {field \in ReadFields : field.name \notin Hidden} = {item \in Shown : item.name \in FieldName}
    /\ {item.key : item \in {x \in Shown : x.name = "Address"}} =
        {item.key : item \in {x \in Shown : x.name = "pubkey"}}

\* A table whose first items are the fields left to show shows the transaction.
LEMMA TableMatches ==
    ASSUME NEW names \in Seq(FieldName), NEW text, NEW X, NEW items \in Nat \ {0}, items <= Len(names) + 1,
           text \notin FieldName, text # "Address",
           \A k \in 1 .. Len(names) : names[k] # "pubkey",
           \A j, k \in 1 .. Len(names) : names[j] = names[k] => j = k,
           DOMAIN Screens = 0 .. items - 1,
           \A idx \in 0 .. items - 1 : Screens[idx] = CaseOf(<<Title(text)>> \o Fields(names), idx),
           ReadFields = Singles(X), X \ Hidden = {names[k] : k \in 1 .. items - 1}
    PROVE  ScreensMatch
<1>1. /\ \A m, n \in DOMAIN Screens : Screens[m] = Screens[n] => m = n
      /\ {item \in Shown : item.name \in FieldName} = Singles({names[k] : k \in 1 .. items - 1})
      /\ {x \in Shown : x.name = "Address"} = {} /\ {x \in Shown : x.name = "pubkey"} = {}
    BY TableShows
<1>2. {field \in ReadFields : field.name \notin Hidden} = Singles(X \ Hidden)
    BY SinglesLess
<1> QED
    BY <1>1, <1>2 DEF ScreensMatch

\* A wallet's spawn shows its fields.
LEMMA WalletMatches ==
    ASSUME IInv, CompleteInv, pc = "review", Method = METHOD_SPAWN, tx.account_type = WALLET
    PROVE  ScreensMatch
<1> DEFINE names == <<"principal", "gas_price", "account_template", "nonce", "methodSelector", "genesisId">>
           text == "Wallet spawn"
           X == SpawnNames \cup {"walletPubkey"}
           items == IF expert THEN 7 ELSE 3
<1>1. names \in Seq(FieldName) /\ Len(names) = 6
    BY Names DEF FieldNames
<1>2. /\ names[1] = "principal" /\ names[2] = "gas_price" /\ names[3] = "account_template"
      /\ names[4] = "nonce" /\ names[5] = "methodSelector" /\ names[6] = "genesisId"
    OBVIOUS
<1>3. text \notin FieldName /\ text # "Address"
    BY Names DEF FieldNames
<1>4. WalletItems = <<Title(text)>> \o Fields(names)
    BY DEF WalletItems
<1>5. expert \in BOOLEAN
    BY DEF IInv, TypeOK
<1>6. items \in Nat \ {0} /\ items <= 6 + 1
    OBVIOUS
<1>7. numItems(tx, expert) = items /\ \A idx : getItem(tx, idx) = CaseOf(WalletItems, idx)
    BY DEF numItems, getItem, Method, METHOD_SPAWN, METHOD_SPEND, METHOD_DRAIN_VAULT, WALLET, MULTISIG, VESTING,
           VAULT
<1>8. ReadFields = Singles(X)
    BY ReviewFields DEF METHOD_SPAWN, METHOD_SPEND, METHOD_DRAIN_VAULT
<1> HIDE DEF names, text, items
<1>9. \A k \in 1 .. 6 :
        \/ k = 1 \/ k = 2 \/ k = 3 \/ k = 4 \/ k = 5 \/ k = 6
    OBVIOUS
<1>10. \A k \in 1 .. 6 : names[k] # "pubkey"
    BY <1>2, <1>9
<1>11. \A j, k \in 1 .. 6 : names[j] = names[k] => j = k
    BY <1>2, <1>9
<1>12. X \ Hidden = {names[k] : k \in 1 .. items - 1}
    <2>1. CASE expert
        <3>1. items - 1 = 6 /\ Hidden = NeverShown
            BY <2>1 DEF items, Hidden
        <3>2. X \ NeverShown = {"principal", "gas_price", "account_template", "nonce", "methodSelector", "genesisId"}
            BY DEF SpawnNames, NeverShown
        <3>3. {names[k] : k \in 1 .. 6} = X \ NeverShown
            <4>1. {names[k] : k \in 1 .. 6} \subseteq X \ NeverShown
                BY <1>2, <1>9, <3>2
            <4>2. X \ NeverShown \subseteq {names[k] : k \in 1 .. 6}
                BY <1>2, <3>2
            <4> QED
                BY <4>1, <4>2
        <3> QED
            BY <3>1, <3>3
    <2>2. CASE ~expert
        <3>1. items - 1 = 2 /\ Hidden = NeverShown \cup ExpertOnly
            BY <2>2 DEF items, Hidden
        <3>2. X \ (NeverShown \cup ExpertOnly) = {"principal", "gas_price"}
            BY DEF SpawnNames, NeverShown, ExpertOnly
        <3>3. {names[k] : k \in 1 .. 2} = X \ (NeverShown \cup ExpertOnly)
            <4>1. \A k \in 1 .. 2 : k = 1 \/ k = 2
                OBVIOUS
            <4>2. {names[k] : k \in 1 .. 2} \subseteq X \ (NeverShown \cup ExpertOnly)
                BY <1>2, <3>2, <4>1
            <4>3. X \ (NeverShown \cup ExpertOnly) \subseteq {names[k] : k \in 1 .. 2}
                BY <1>2, <3>2
            <4> QED
                BY <4>2, <4>3
        <3> QED
            BY <3>1, <3>3
    <2> QED
        BY <1>5, <2>1, <2>2
<1>13. DOMAIN Screens = 0 .. items - 1
       /\ \A idx \in 0 .. items - 1 : Screens[idx] = CaseOf(<<Title(text)>> \o Fields(names), idx)
    BY <1>4, <1>7, ReviewScreens
<1> HIDE DEF X
<1> QED
    BY <1>1, <1>3, <1>6, <1>8, <1>10, <1>11, <1>12, <1>13, TableMatches

\* A vault's spawn shows its fields.
LEMMA VaultMatches ==
    ASSUME IInv, CompleteInv, pc = "review", Method = METHOD_SPAWN, tx.account_type = VAULT
    PROVE  ScreensMatch
<1> DEFINE names == <<"principal", "gas_price", "owner", "totalAmount", "initialUnlockAmount", "vestingStart",
                      "vestingEnd", "account_template", "nonce", "methodSelector", "genesisId">>
           text == "Vault spawn"
           X == SpawnNames \cup {"owner", "totalAmount", "initialUnlockAmount", "vestingStart", "vestingEnd"}
           items == IF expert THEN 12 ELSE 8
<1>1. names \in Seq(FieldName) /\ Len(names) = 11
    BY Names DEF FieldNames
<1>2. /\ names[1] = "principal" /\ names[2] = "gas_price" /\ names[3] = "owner"
      /\ names[4] = "totalAmount" /\ names[5] = "initialUnlockAmount" /\ names[6] = "vestingStart"
      /\ names[7] = "vestingEnd" /\ names[8] = "account_template" /\ names[9] = "nonce"
      /\ names[10] = "methodSelector" /\ names[11] = "genesisId"
    OBVIOUS
<1>3. text \notin FieldName /\ text # "Address"
    BY Names DEF FieldNames
<1>4. VaultItems = <<Title(text)>> \o Fields(names)
    BY DEF VaultItems
<1>5. expert \in BOOLEAN
    BY DEF IInv, TypeOK
<1>6. items \in Nat \ {0} /\ items <= 11 + 1
    OBVIOUS
<1>7. numItems(tx, expert) = items /\ \A idx : getItem(tx, idx) = CaseOf(VaultItems, idx)
    BY DEF numItems, getItem, Method, METHOD_SPAWN, METHOD_SPEND, METHOD_DRAIN_VAULT, WALLET, MULTISIG, VESTING,
           VAULT
<1>8. ReadFields = Singles(X)
    BY ReviewFields DEF METHOD_SPAWN, METHOD_SPEND, METHOD_DRAIN_VAULT
<1> HIDE DEF names, text, items
<1>9. \A k \in 1 .. 11 :
        \/ k = 1 \/ k = 2 \/ k = 3 \/ k = 4 \/ k = 5 \/ k = 6
        \/ k = 7 \/ k = 8 \/ k = 9 \/ k = 10 \/ k = 11
    OBVIOUS
<1>10. \A k \in 1 .. 11 : names[k] # "pubkey"
    BY <1>2, <1>9
<1>11. \A j, k \in 1 .. 11 : names[j] = names[k] => j = k
    BY <1>2, <1>9
<1>12. X \ Hidden = {names[k] : k \in 1 .. items - 1}
    <2>1. CASE expert
        <3>1. items - 1 = 11 /\ Hidden = NeverShown
            BY <2>1 DEF items, Hidden
        <3>2. X \ NeverShown = {"principal", "gas_price", "owner", "totalAmount", "initialUnlockAmount", "vestingStart",
                  "vestingEnd", "account_template", "nonce", "methodSelector", "genesisId"}
            BY DEF SpawnNames, NeverShown
        <3>3. {names[k] : k \in 1 .. 11} = X \ NeverShown
            <4>1. {names[k] : k \in 1 .. 11} \subseteq X \ NeverShown
                BY <1>2, <1>9, <3>2
            <4>2. X \ NeverShown \subseteq {names[k] : k \in 1 .. 11}
                BY <1>2, <3>2
            <4> QED
                BY <4>1, <4>2
        <3> QED
            BY <3>1, <3>3
    <2>2. CASE ~expert
        <3>1. items - 1 = 7 /\ Hidden = NeverShown \cup ExpertOnly
            BY <2>2 DEF items, Hidden
        <3>2. X \ (NeverShown \cup ExpertOnly) = {"principal", "gas_price", "owner", "totalAmount", "initialUnlockAmount", "vestingStart", "vestingEnd"}
            BY DEF SpawnNames, NeverShown, ExpertOnly
        <3>3. {names[k] : k \in 1 .. 7} = X \ (NeverShown \cup ExpertOnly)
            <4>1. \A k \in 1 .. 7 : k = 1 \/ k = 2 \/ k = 3 \/ k = 4 \/ k = 5 \/ k = 6 \/ k = 7
                OBVIOUS
            <4>2. {names[k] : k \in 1 .. 7} \subseteq X \ (NeverShown \cup ExpertOnly)
                BY <1>2, <3>2, <4>1
            <4>3. X \ (NeverShown \cup ExpertOnly) \subseteq {names[k] : k \in 1 .. 7}
                BY <1>2, <3>2
            <4> QED
                BY <4>2, <4>3
        <3> QED
            BY <3>1, <3>3
    <2> QED
        BY <1>5, <2>1, <2>2
<1>13. DOMAIN Screens = 0 .. items - 1
       /\ \A idx \in 0 .. items - 1 : Screens[idx] = CaseOf(<<Title(text)>> \o Fields(names), idx)
    BY <1>4, <1>7, ReviewScreens
<1> HIDE DEF X
<1> QED
    BY <1>1, <1>3, <1>6, <1>8, <1>10, <1>11, <1>12, <1>13, TableMatches

\* A spend shows its fields.
LEMMA SpendMatches ==
    ASSUME IInv, CompleteInv, pc = "review", Method = METHOD_SPEND
    PROVE  ScreensMatch
<1> DEFINE names == <<"principal", "destination", "amount", "gas_price", "nonce", "methodSelector",
                      "genesisId">>
           text == "Spend"
           X == {"genesisId", "tx_version", "principal", "methodSelector", "nonce", "gas_price",
                            "destination", "amount"}
           items == IF expert THEN 8 ELSE 5
<1>1. names \in Seq(FieldName) /\ Len(names) = 7
    BY Names DEF FieldNames
<1>2. /\ names[1] = "principal" /\ names[2] = "destination" /\ names[3] = "amount"
      /\ names[4] = "gas_price" /\ names[5] = "nonce" /\ names[6] = "methodSelector"
      /\ names[7] = "genesisId"
    OBVIOUS
<1>3. text \notin FieldName /\ text # "Address"
    BY Names DEF FieldNames
<1>4. SpendItems = <<Title(text)>> \o Fields(names)
    BY DEF SpendItems
<1>5. expert \in BOOLEAN
    BY DEF IInv, TypeOK
<1>6. items \in Nat \ {0} /\ items <= 7 + 1
    OBVIOUS
<1>7. numItems(tx, expert) = items /\ \A idx : getItem(tx, idx) = CaseOf(SpendItems, idx)
    BY DEF numItems, getItem, Method, METHOD_SPAWN, METHOD_SPEND, METHOD_DRAIN_VAULT, WALLET, MULTISIG, VESTING,
           VAULT
<1>8. ReadFields = Singles(X)
    BY ReviewFields DEF METHOD_SPAWN, METHOD_SPEND, METHOD_DRAIN_VAULT
<1> HIDE DEF names, text, items
<1>9. \A k \in 1 .. 7 :
        \/ k = 1 \/ k = 2 \/ k = 3 \/ k = 4 \/ k = 5 \/ k = 6
        \/ k = 7
    OBVIOUS
<1>10. \A k \in 1 .. 7 : names[k] # "pubkey"
    BY <1>2, <1>9
<1>11. \A j, k \in 1 .. 7 : names[j] = names[k] => j = k
    BY <1>2, <1>9
<1>12. X \ Hidden = {names[k] : k \in 1 .. items - 1}
    <2>1. CASE expert
        <3>1. items - 1 = 7 /\ Hidden = NeverShown
            BY <2>1 DEF items, Hidden
        <3>2. X \ NeverShown = {"principal", "destination", "amount", "gas_price", "nonce", "methodSelector",
                  "genesisId"}
            BY DEF SpawnNames, NeverShown
        <3>3. {names[k] : k \in 1 .. 7} = X \ NeverShown
            <4>1. {names[k] : k \in 1 .. 7} \subseteq X \ NeverShown
                BY <1>2, <1>9, <3>2
            <4>2. X \ NeverShown \subseteq {names[k] : k \in 1 .. 7}
                BY <1>2, <3>2
            <4> QED
                BY <4>1, <4>2
        <3> QED
            BY <3>1, <3>3
    <2>2. CASE ~expert
        <3>1. items - 1 = 4 /\ Hidden = NeverShown \cup ExpertOnly
            BY <2>2 DEF items, Hidden
        <3>2. X \ (NeverShown \cup ExpertOnly) = {"principal", "destination", "amount", "gas_price"}
            BY DEF SpawnNames, NeverShown, ExpertOnly
        <3>3. {names[k] : k \in 1 .. 4} = X \ (NeverShown \cup ExpertOnly)
            <4>1. \A k \in 1 .. 4 : k = 1 \/ k = 2 \/ k = 3 \/ k = 4
                OBVIOUS
            <4>2. {names[k] : k \in 1 .. 4} \subseteq X \ (NeverShown \cup ExpertOnly)
                BY <1>2, <3>2, <4>1
            <4>3. X \ (NeverShown \cup ExpertOnly) \subseteq {names[k] : k \in 1 .. 4}
                BY <1>2, <3>2
            <4> QED
                BY <4>2, <4>3
        <3> QED
            BY <3>1, <3>3
    <2> QED
        BY <1>5, <2>1, <2>2
<1>13. DOMAIN Screens = 0 .. items - 1
       /\ \A idx \in 0 .. items - 1 : Screens[idx] = CaseOf(<<Title(text)>> \o Fields(names), idx)
    BY <1>4, <1>7, ReviewScreens
<1> HIDE DEF X
<1> QED
    BY <1>1, <1>3, <1>6, <1>8, <1>10, <1>11, <1>12, <1>13, TableMatches

\* A drain shows its fields.
LEMMA DrainMatches ==
    ASSUME IInv, CompleteInv, pc = "review", Method = METHOD_DRAIN_VAULT
    PROVE  ScreensMatch
<1> DEFINE names == <<"principal", "vault", "destination", "amount", "gas_price", "nonce",
                      "methodSelector", "genesisId">>
           text == "Vault drain"
           X == {"genesisId", "tx_version", "principal", "methodSelector", "nonce", "gas_price",
                            "vault", "destination", "amount"}
           items == IF expert THEN 9 ELSE 6
<1>1. names \in Seq(FieldName) /\ Len(names) = 8
    BY Names DEF FieldNames
<1>2. /\ names[1] = "principal" /\ names[2] = "vault" /\ names[3] = "destination"
      /\ names[4] = "amount" /\ names[5] = "gas_price" /\ names[6] = "nonce"
      /\ names[7] = "methodSelector" /\ names[8] = "genesisId"
    OBVIOUS
<1>3. text \notin FieldName /\ text # "Address"
    BY Names DEF FieldNames
<1>4. DrainItems = <<Title(text)>> \o Fields(names)
    BY DEF DrainItems
<1>5. expert \in BOOLEAN
    BY DEF IInv, TypeOK
<1>6. items \in Nat \ {0} /\ items <= 8 + 1
    OBVIOUS
<1>7. numItems(tx, expert) = items /\ \A idx : getItem(tx, idx) = CaseOf(DrainItems, idx)
    BY DEF numItems, getItem, Method, METHOD_SPAWN, METHOD_SPEND, METHOD_DRAIN_VAULT, WALLET, MULTISIG, VESTING,
           VAULT
<1>8. ReadFields = Singles(X)
    BY ReviewFields DEF METHOD_SPAWN, METHOD_SPEND, METHOD_DRAIN_VAULT
<1> HIDE DEF names, text, items
<1>9. \A k \in 1 .. 8 :
        \/ k = 1 \/ k = 2 \/ k = 3 \/ k = 4 \/ k = 5 \/ k = 6
        \/ k = 7 \/ k = 8
    OBVIOUS
<1>10. \A k \in 1 .. 8 : names[k] # "pubkey"
    BY <1>2, <1>9
<1>11. \A j, k \in 1 .. 8 : names[j] = names[k] => j = k
    BY <1>2, <1>9
<1>12. X \ Hidden = {names[k] : k \in 1 .. items - 1}
    <2>1. CASE expert
        <3>1. items - 1 = 8 /\ Hidden = NeverShown
            BY <2>1 DEF items, Hidden
        <3>2. X \ NeverShown = {"principal", "vault", "destination", "amount", "gas_price", "nonce",
                  "methodSelector", "genesisId"}
            BY DEF SpawnNames, NeverShown
        <3>3. {names[k] : k \in 1 .. 8} = X \ NeverShown
            <4>1. {names[k] : k \in 1 .. 8} \subseteq X \ NeverShown
                BY <1>2, <1>9, <3>2
            <4>2. X \ NeverShown \subseteq {names[k] : k \in 1 .. 8}
                BY <1>2, <3>2
            <4> QED
                BY <4>1, <4>2
        <3> QED
            BY <3>1, <3>3
    <2>2. CASE ~expert
        <3>1. items - 1 = 5 /\ Hidden = NeverShown \cup ExpertOnly
            BY <2>2 DEF items, Hidden
        <3>2. X \ (NeverShown \cup ExpertOnly) = {"principal", "vault", "destination", "amount", "gas_price"}
            BY DEF SpawnNames, NeverShown, ExpertOnly
        <3>3. {names[k] : k \in 1 .. 5} = X \ (NeverShown \cup ExpertOnly)
            <4>1. \A k \in 1 .. 5 : k = 1 \/ k = 2 \/ k = 3 \/ k = 4 \/ k = 5
                OBVIOUS
            <4>2. {names[k] : k \in 1 .. 5} \subseteq X \ (NeverShown \cup ExpertOnly)
                BY <1>2, <3>2, <4>1
            <4>3. X \ (NeverShown \cup ExpertOnly) \subseteq {names[k] : k \in 1 .. 5}
                BY <1>2, <3>2
            <4> QED
                BY <4>2, <4>3
        <3> QED
            BY <3>1, <3>3
    <2> QED
        BY <1>5, <2>1, <2>2
<1>13. DOMAIN Screens = 0 .. items - 1
       /\ \A idx \in 0 .. items - 1 : Screens[idx] = CaseOf(<<Title(text)>> \o Fields(names), idx)
    BY <1>4, <1>7, ReviewScreens
<1> HIDE DEF X
<1> QED
    BY <1>1, <1>3, <1>6, <1>8, <1>10, <1>11, <1>12, <1>13, TableMatches

\* One list behind another.
LEMMA Joined ==
    ASSUME NEW S, NEW front \in Seq(S), NEW back \in Seq(S)
    PROVE  /\ front \o back \in Seq(S) /\ Len(front \o back) = Len(front) + Len(back)
           /\ \A k \in 1 .. Len(front) + Len(back) :
                (front \o back)[k] = IF k <= Len(front) THEN front[k] ELSE back[k - Len(front)]
<1>1. front \o back \in Seq(S) /\ Len(front \o back) = Len(front) + Len(back)
    OBVIOUS
<1> QED
    BY <1>1, ConcatProperties

\* A list over a set is a list over a larger one.
LEMMA Widened ==
    ASSUME NEW S, NEW T, S \subseteq T, NEW list \in Seq(S)
    PROVE  list \in Seq(T)
OBVIOUS

\* The cases of printMultisigSpawn by their index.
LEMMA MultisigCase ==
    ASSUME NEW type
    PROVE
    /\ CaseOf(MultisigCases(type), 0) = Single(multisigTitle(type))
    /\ CaseOf(MultisigCases(type), 1) = Single("principal") /\ CaseOf(MultisigCases(type), 2) = Single("gas_price")
    /\ CaseOf(MultisigCases(type), 3) = Single("numberOfPubkeys") /\ CaseOf(MultisigCases(type), 4) = Single("approvers")
    /\ CaseOf(MultisigCases(type), 6) = Single("account_template") /\ CaseOf(MultisigCases(type), 7) = Single("nonce")
    /\ CaseOf(MultisigCases(type), 8) = Single("methodSelector") /\ CaseOf(MultisigCases(type), 9) = Single("genesisId")
<1> DEFINE first == <<"principal", "gas_price", "numberOfPubkeys", "approvers">>
           last == <<"account_template", "nonce", "methodSelector", "genesisId">>
           title == <<Title(multisigTitle(type))>>
           keys == <<Title("Keys")>>
           early == Fields(first)
           late == Fields(last)
           S == {Title(multisigTitle(type)), Title("Keys")} \cup Field
<1>1. first \in Seq(FieldName) /\ Len(first) = 4 /\ last \in Seq(FieldName) /\ Len(last) = 4
    BY Names DEF FieldNames
<1>2. /\ first[1] = "principal" /\ first[2] = "gas_price" /\ first[3] = "numberOfPubkeys"
      /\ first[4] = "approvers" /\ last[1] = "account_template" /\ last[2] = "nonce"
      /\ last[3] = "methodSelector" /\ last[4] = "genesisId"
    OBVIOUS
<1>3. title \in Seq(S) /\ Len(title) = 1 /\ keys \in Seq(S) /\ Len(keys) = 1
    OBVIOUS
<1>4. title[1] = Single(multisigTitle(type))
    BY DEF Title, Single
<1>5. MultisigCases(type) = ((title \o early) \o keys) \o late
    BY DEF MultisigCases
<1> HIDE DEF first, last
<1>6. /\ early \in Seq(Field) /\ Len(early) = 4 /\ \A k \in 1 .. 4 : early[k] = Single(first[k])
      /\ late \in Seq(Field) /\ Len(late) = 4 /\ \A k \in 1 .. 4 : late[k] = Single(last[k])
    BY <1>1, FieldsType DEF Single
<1> HIDE DEF title, keys, early, late
<1> HIDE DEF title, keys, early, late
<1>7. early \in Seq(S) /\ late \in Seq(S)
    <2>1. Field \subseteq S
        OBVIOUS
    <2> HIDE DEF S
    <2> QED
        BY <1>6, <2>1, Widened
<1> HIDE DEF S
<1> DEFINE five == title \o early
           six == five \o keys
           ten == six \o late
<1>8. five \in Seq(S) /\ Len(five) = 5 /\ \A k \in 1 .. 5 : five[k] = IF k <= 1 THEN title[k] ELSE early[k - 1]
    <2>1. Len(title) = 1 /\ Len(early) = 4 /\ title \in Seq(S) /\ early \in Seq(S) /\ 1 + 4 = 5
        BY <1>3, <1>6, <1>7
    <2>2. /\ title \o early \in Seq(S) /\ Len(title \o early) = Len(title) + Len(early)
          /\ \A k \in 1 .. Len(title) + Len(early) :
                (title \o early)[k] = IF k <= Len(title) THEN title[k] ELSE early[k - Len(title)]
        BY <2>1, Joined
    <2> QED
        BY <2>1, <2>2 DEF five
<1> HIDE DEF five
<1>9. six \in Seq(S) /\ Len(six) = 6 /\ \A k \in 1 .. 6 : six[k] = IF k <= 5 THEN five[k] ELSE keys[k - 5]
    <2>1. Len(five) = 5 /\ Len(keys) = 1 /\ five \in Seq(S) /\ keys \in Seq(S) /\ 5 + 1 = 6
        BY <1>3, <1>8
    <2>2. /\ five \o keys \in Seq(S) /\ Len(five \o keys) = Len(five) + Len(keys)
          /\ \A k \in 1 .. Len(five) + Len(keys) :
                (five \o keys)[k] = IF k <= Len(five) THEN five[k] ELSE keys[k - Len(five)]
        BY <2>1, Joined
    <2> QED
        BY <2>1, <2>2 DEF six
<1> HIDE DEF six
<1>10. ten \in Seq(S) /\ Len(ten) = 10 /\ \A k \in 1 .. 10 : ten[k] = IF k <= 6 THEN six[k] ELSE late[k - 6]
    <2>1. Len(six) = 6 /\ Len(late) = 4 /\ six \in Seq(S) /\ late \in Seq(S) /\ 6 + 4 = 10
        BY <1>6, <1>7, <1>9
    <2>2. /\ six \o late \in Seq(S) /\ Len(six \o late) = Len(six) + Len(late)
          /\ \A k \in 1 .. Len(six) + Len(late) :
                (six \o late)[k] = IF k <= Len(six) THEN six[k] ELSE late[k - Len(six)]
        BY <2>1, Joined
    <2> QED
        BY <2>1, <2>2 DEF ten
<1>11. MultisigCases(type) = ten
    BY <1>5 DEF five, six
<1> HIDE DEF ten
<1>12. /\ ten[1] = title[1] /\ ten[2] = early[1] /\ ten[3] = early[2] /\ ten[4] = early[3] /\ ten[5] = early[4]
       /\ ten[7] = late[1] /\ ten[8] = late[2] /\ ten[9] = late[3] /\ ten[10] = late[4]
    BY <1>8, <1>9, <1>10
<1>13. \A idx \in 0 .. 9 : CaseOf(MultisigCases(type), idx) = ten[idx + 1]
    <2>1. Len(MultisigCases(type)) = 10
        BY <1>10, <1>11
    <2> QED
        BY <1>11, <2>1 DEF CaseOf
<1>14. /\ CaseOf(MultisigCases(type), 0) = ten[1] /\ CaseOf(MultisigCases(type), 1) = ten[2]
       /\ CaseOf(MultisigCases(type), 2) = ten[3] /\ CaseOf(MultisigCases(type), 3) = ten[4]
       /\ CaseOf(MultisigCases(type), 4) = ten[5] /\ CaseOf(MultisigCases(type), 6) = ten[7]
       /\ CaseOf(MultisigCases(type), 7) = ten[8] /\ CaseOf(MultisigCases(type), 8) = ten[9]
       /\ CaseOf(MultisigCases(type), 9) = ten[10]
    BY <1>13
<1>15. /\ early[1] = Single(first[1]) /\ early[2] = Single(first[2]) /\ early[3] = Single(first[3])
       /\ early[4] = Single(first[4]) /\ late[1] = Single(last[1]) /\ late[2] = Single(last[2])
       /\ late[3] = Single(last[3]) /\ late[4] = Single(last[4])
    BY <1>6
<1> QED
    BY <1>2, <1>12, <1>14, <1>15, <1>4

\* The screens of a spawn with several keys.
LEMMA MultisigScreens ==
    ASSUME IInv, pc = "review", Method = METHOD_SPAWN, tx.account_type \in {MULTISIG, VESTING},
           NEW count, count = tx.number["numberOfPubkeys"]
    PROVE  /\ count \in Nat
           /\ DOMAIN Screens = 0 .. (IF expert THEN 8 ELSE 4) + 2 * count
           /\ \A idx \in 0 .. 4 : Screens[idx] = CaseOf(MultisigCases(tx.account_type), idx)
           /\ \A k \in 0 .. count - 1 :
                /\ Screens[5 + 2 * k] = [name |-> "pubkey", key |-> k]
                /\ Screens[6 + 2 * k] = [name |-> "Address", key |-> k]
           /\ expert => \A k \in 6 .. 9 : Screens[2 * count + k - 1] = CaseOf(MultisigCases(tx.account_type), k)
<1>1. count \in Nat /\ expert \in BOOLEAN
    BY DEF IInv, TypeOK, CompactMax
<1>2. numItems(tx, expert) = (IF expert THEN 9 ELSE 5) + 2 * count
    BY DEF numItems, Method, METHOD_SPAWN, METHOD_SPEND, METHOD_DRAIN_VAULT, WALLET, MULTISIG, VESTING, VAULT
<1>3. \A idx : getItem(tx, idx) =
        IF adjustedIdx(idx, count) = 5 THEN KeyItem(idx) ELSE CaseOf(MultisigCases(tx.account_type), adjustedIdx(idx, count))
    BY DEF getItem, Method, METHOD_SPAWN, METHOD_SPEND, METHOD_DRAIN_VAULT, WALLET, MULTISIG, VESTING, VAULT,
           pubkeysStart
<1> DEFINE end == (IF expert THEN 8 ELSE 4) + 2 * count
<1>4. end \in Nat /\ numItems(tx, expert) - 1 = end
    BY <1>1, <1>2
<1>5. DOMAIN Screens = 0 .. end /\ \A idx \in 0 .. end : Screens[idx] = getItem(tx, idx)
    BY <1>4, ReviewScreens
<1>6. ASSUME NEW idx \in 0 .. 4 PROVE Screens[idx] = CaseOf(MultisigCases(tx.account_type), idx)
    <2>1. idx \in 0 .. end /\ adjustedIdx(idx, count) = idx /\ idx # 5
        BY <1>1 DEF adjustedIdx, pubkeysStart
    <2> QED
        BY <1>3, <1>5, <2>1
<1>7. ASSUME NEW k \in 0 .. count - 1
      PROVE  /\ Screens[5 + 2 * k] = [name |-> "pubkey", key |-> k]
             /\ Screens[6 + 2 * k] = [name |-> "Address", key |-> k]
    <2>1. k \in Nat /\ 5 + 2 * k \in 0 .. end /\ 6 + 2 * k \in 0 .. end
        BY <1>1
    <2>2. adjustedIdx(5 + 2 * k, count) = 5 /\ adjustedIdx(6 + 2 * k, count) = 5
        BY <1>1 DEF adjustedIdx, pubkeysStart
    <2>3. (5 + 2 * k - 5) % 2 = 0 /\ (5 + 2 * k - 5) \div 2 = k
        BY <2>1
    <2>4. (6 + 2 * k - 5) % 2 = 1 /\ (6 + 2 * k - 5) \div 2 = k
        BY <2>1
    <2>5. KeyItem(5 + 2 * k) = [name |-> "pubkey", key |-> k]
        BY <2>3 DEF KeyItem, pubkeysStart
    <2>6. KeyItem(6 + 2 * k) = [name |-> "Address", key |-> k]
        BY <2>4 DEF KeyItem, pubkeysStart
    <2> QED
        BY <1>3, <1>5, <2>1, <2>2, <2>5, <2>6
<1>8. ASSUME expert, NEW k \in 6 .. 9 PROVE Screens[2 * count + k - 1] = CaseOf(MultisigCases(tx.account_type), k)
    <2>1. 2 * count + k - 1 \in 0 .. end
        BY <1>1, <1>8
    <2>2. adjustedIdx(2 * count + k - 1, count) = k /\ k # 5
        BY <1>1 DEF adjustedIdx, pubkeysStart
    <2> QED
        BY <1>3, <1>5, <2>1, <2>2
<1> QED
    BY <1>1, <1>5, <1>6, <1>7, <1>8

\* The screen of an item of a spawn with several keys.
MultisigScreen(item, count) ==
    CASE item.name = "pubkey" -> 5 + 2 * item.key
      [] item.name = "Address" -> 6 + 2 * item.key
      [] item.name = "principal" -> 1
      [] item.name = "gas_price" -> 2
      [] item.name = "numberOfPubkeys" -> 3
      [] item.name = "approvers" -> 4
      [] item.name = "account_template" -> 5 + 2 * count
      [] item.name = "nonce" -> 6 + 2 * count
      [] item.name = "methodSelector" -> 7 + 2 * count
      [] item.name = "genesisId" -> 8 + 2 * count
      [] OTHER -> 0

\* A spawn with several keys shows its fields.
LEMMA MultisigMatches ==
    ASSUME IInv, CompleteInv, pc = "review", Method = METHOD_SPAWN, tx.account_type \in {MULTISIG, VESTING}
    PROVE  ScreensMatch
<1> DEFINE count == tx.number["numberOfPubkeys"]
           early == {"principal", "gas_price", "numberOfPubkeys", "approvers"}
           late == {"account_template", "nonce", "methodSelector", "genesisId"}
           text == multisigTitle(tx.account_type)
           keyOf(k) == [name |-> "pubkey", key |-> k]
           addressOf(k) == [name |-> "Address", key |-> k]
           end == (IF expert THEN 8 ELSE 4) + 2 * count
<1>1. /\ count \in Nat
      /\ DOMAIN Screens = 0 .. end
      /\ \A idx \in 0 .. 4 : Screens[idx] = CaseOf(MultisigCases(tx.account_type), idx)
      /\ \A k \in 0 .. count - 1 : Screens[5 + 2 * k] = keyOf(k) /\ Screens[6 + 2 * k] = addressOf(k)
      /\ expert => \A k \in 6 .. 9 : Screens[2 * count + k - 1] = CaseOf(MultisigCases(tx.account_type), k)
    BY MultisigScreens
<1>2. expert \in BOOLEAN
    BY DEF IInv, TypeOK
<1>3. ReadFields = Singles(SpawnNames \cup {"approvers", "numberOfPubkeys"}) \cup Keys
    BY ReviewFields
<1>4. Keys = {keyOf(k) : k \in 0 .. count - 1}
    <2>1. \A k \in 1 .. count : k - 1 \in 0 .. count - 1
        BY <1>1
    <2>2. \A k \in 0 .. count - 1 : k + 1 \in 1 .. count /\ k + 1 - 1 = k
        BY <1>1
    <2>3. Keys = {keyOf(k - 1) : k \in 1 .. count}
        BY DEF Keys
    <2> HIDE DEF count, keyOf
    <2>4. {keyOf(k - 1) : k \in 1 .. count} \subseteq {keyOf(k) : k \in 0 .. count - 1}
        BY <2>1
    <2>5. {keyOf(k) : k \in 0 .. count - 1} \subseteq {keyOf(k - 1) : k \in 1 .. count}
        <3> SUFFICES ASSUME NEW k \in 0 .. count - 1 PROVE keyOf(k) \in {keyOf(j - 1) : j \in 1 .. count}
            OBVIOUS
        <3>1. k + 1 \in 1 .. count /\ keyOf(k + 1 - 1) = keyOf(k)
            BY <2>2
        <3> QED
            BY <3>1
    <2> QED
        BY <2>3, <2>4, <2>5
<1>5. text \notin FieldName /\ "Address" \notin FieldName /\ "pubkey" \in FieldName /\ text # "Address"
      /\ early \subseteq FieldName /\ late \subseteq FieldName /\ text # "pubkey"
      /\ "pubkey" \notin early \cup late /\ "Address" \notin early \cup late
    BY Names DEF FieldNames, multisigTitle
<1>6. /\ Screens[0] = Single(text) /\ Screens[1] = Single("principal") /\ Screens[2] = Single("gas_price")
      /\ Screens[3] = Single("numberOfPubkeys") /\ Screens[4] = Single("approvers")
    <2>1. /\ Screens[0] = CaseOf(MultisigCases(tx.account_type), 0) /\ Screens[1] = CaseOf(MultisigCases(tx.account_type), 1)
          /\ Screens[2] = CaseOf(MultisigCases(tx.account_type), 2) /\ Screens[3] = CaseOf(MultisigCases(tx.account_type), 3)
          /\ Screens[4] = CaseOf(MultisigCases(tx.account_type), 4)
        BY <1>1
    <2>2. CaseOf(MultisigCases(tx.account_type), 0) = Single(text)
        BY MultisigCase
    <2> HIDE DEF text
    <2> QED
        BY <2>1, <2>2, MultisigCase
<1>7. expert => /\ Screens[2 * count + 5] = Single("account_template")
                /\ Screens[2 * count + 6] = Single("nonce")
                /\ Screens[2 * count + 7] = Single("methodSelector")
                /\ Screens[2 * count + 8] = Single("genesisId")
    <2> SUFFICES ASSUME expert
                 PROVE  /\ Screens[2 * count + 5] = Single("account_template")
                        /\ Screens[2 * count + 6] = Single("nonce")
                        /\ Screens[2 * count + 7] = Single("methodSelector")
                        /\ Screens[2 * count + 8] = Single("genesisId")
        OBVIOUS
    <2>1. \A k \in 6 .. 9 : Screens[2 * count + k - 1] = CaseOf(MultisigCases(tx.account_type), k)
        BY <1>1
    <2>2. /\ 2 * count + 6 - 1 = 2 * count + 5 /\ 2 * count + 7 - 1 = 2 * count + 6
          /\ 2 * count + 8 - 1 = 2 * count + 7 /\ 2 * count + 9 - 1 = 2 * count + 8
        BY <1>1
    <2>3. /\ Screens[2 * count + 6 - 1] = CaseOf(MultisigCases(tx.account_type), 6)
          /\ Screens[2 * count + 7 - 1] = CaseOf(MultisigCases(tx.account_type), 7)
          /\ Screens[2 * count + 8 - 1] = CaseOf(MultisigCases(tx.account_type), 8)
          /\ Screens[2 * count + 9 - 1] = CaseOf(MultisigCases(tx.account_type), 9)
        BY <2>1
    <2> QED
        BY <2>2, <2>3, MultisigCase
<1>8. ASSUME NEW idx \in 0 .. end
      PROVE  \/ idx = 0 \/ idx = 1 \/ idx = 2 \/ idx = 3 \/ idx = 4
             \/ \E k \in 0 .. count - 1 : idx = 5 + 2 * k
             \/ \E k \in 0 .. count - 1 : idx = 6 + 2 * k
             \/ expert /\ (\/ idx = 2 * count + 5 \/ idx = 2 * count + 6
                           \/ idx = 2 * count + 7 \/ idx = 2 * count + 8)
    <2>1. idx \in Nat /\ end = (IF expert THEN 8 ELSE 4) + 2 * count
        BY <1>1
    <2>2. CASE idx <= 4
        BY <2>1, <2>2
    <2>3. CASE idx >= 5 /\ idx < 5 + 2 * count
        <3> DEFINE k == (idx - 5) \div 2
        <3>1. k \in 0 .. count - 1 /\ (idx = 5 + 2 * k \/ idx = 6 + 2 * k)
            BY <1>1, <2>1, <2>3
        <3> QED
            BY <3>1
    <2>4. CASE idx >= 5 + 2 * count
        <3> HIDE DEF count, end
        <3>1. expert
            BY <1>1, <1>2, <2>1, <2>4
        <3>2. idx = 2 * count + 5 \/ idx = 2 * count + 6 \/ idx = 2 * count + 7 \/ idx = 2 * count + 8
            BY <1>1, <2>1, <2>4, <3>1
        <3> QED
            BY <3>1, <3>2
    <2> QED
        BY <1>1, <2>1, <2>2, <2>3, <2>4
<1> DEFINE names == early \cup IF expert THEN late ELSE {}
           keys == {keyOf(k) : k \in 0 .. count - 1}
           addresses == {addressOf(k) : k \in 0 .. count - 1}
<1>9. {field \in ReadFields : field.name \notin Hidden} = Singles(names) \cup keys
    <2>1. (SpawnNames \cup {"approvers", "numberOfPubkeys"}) \ Hidden = names
        <3>1. CASE expert
            BY <3>1 DEF SpawnNames, Hidden, NeverShown
        <3>2. CASE ~expert
            BY <3>2 DEF SpawnNames, Hidden, NeverShown, ExpertOnly
        <3> QED
            BY <1>2, <3>1, <3>2
    <2>2. "pubkey" \notin Hidden
        BY DEF Hidden, NeverShown, ExpertOnly
    <2>3. \A field \in keys : field.name \notin Hidden
        BY <2>2
    <2> DEFINE X == SpawnNames \cup {"approvers", "numberOfPubkeys"}
    <2>4. {field \in Singles(X) : field.name \notin Hidden} = Singles(X \ Hidden)
        BY SinglesLess
    <2>5. ReadFields = Singles(X) \cup keys
        BY <1>3, <1>4
    <2>6. X \ Hidden = names
        BY <2>1
    <2> HIDE DEF X, names, keys
    <2> QED
        BY <2>3, <2>4, <2>5, <2>6
<1>10. \A x : Single(x).name = x
    BY DEF Single
<1>11. \A idx \in 0 .. end : MultisigScreen(Screens[idx], count) = idx
    <2>1. MultisigScreen(Single(text), count) = 0
        <3>1. \A x : x \notin FieldName /\ x # "Address" => MultisigScreen(Single(x), count) = 0
            BY <1>10, Names DEF MultisigScreen, FieldNames
        <3> HIDE DEF text
        <3> QED
            BY <1>5, <3>1
    <2>2. /\ MultisigScreen(Single("principal"), count) = 1 /\ MultisigScreen(Single("gas_price"), count) = 2
          /\ MultisigScreen(Single("numberOfPubkeys"), count) = 3
          /\ MultisigScreen(Single("approvers"), count) = 4
        BY <1>10 DEF MultisigScreen
    <2>3. /\ MultisigScreen(Single("account_template"), count) = 2 * count + 5
          /\ MultisigScreen(Single("nonce"), count) = 2 * count + 6
          /\ MultisigScreen(Single("methodSelector"), count) = 2 * count + 7
          /\ MultisigScreen(Single("genesisId"), count) = 2 * count + 8
        BY <1>1, <1>10 DEF MultisigScreen
    <2>4. \A k : MultisigScreen(keyOf(k), count) = 5 + 2 * k /\ MultisigScreen(addressOf(k), count) = 6 + 2 * k
        BY DEF MultisigScreen
    <2> HIDE DEF count, text, end, keyOf, addressOf
    <2> SUFFICES ASSUME NEW idx \in 0 .. end PROVE MultisigScreen(Screens[idx], count) = idx
        OBVIOUS
    <2>5. CASE idx = 0 \/ idx = 1 \/ idx = 2 \/ idx = 3 \/ idx = 4
        BY <1>6, <2>1, <2>2, <2>5
    <2>6. CASE \E k \in 0 .. count - 1 : idx = 5 + 2 * k
        BY <1>1, <2>4, <2>6
    <2>7. CASE \E k \in 0 .. count - 1 : idx = 6 + 2 * k
        BY <1>1, <2>4, <2>7
    <2>8. ASSUME expert, \/ idx = 2 * count + 5 \/ idx = 2 * count + 6
                         \/ idx = 2 * count + 7 \/ idx = 2 * count + 8
          PROVE  MultisigScreen(Screens[idx], count) = idx
        BY <1>7, <2>3, <2>8
    <2> QED
        BY <1>8, <2>5, <2>6, <2>7, <2>8
<1>12. Shown = {Single(text)} \cup Singles(names) \cup keys \cup addresses
    <2>1. \A idx \in 0 .. end : Screens[idx] \in {Single(text)} \cup Singles(names) \cup keys \cup addresses
        <3>1. \A x \in early : Single(x) \in Singles(names)
            BY DEF Singles
        <3>2. expert => \A x \in late : Single(x) \in Singles(names)
            BY DEF Singles
        <3>3. /\ Single("principal") \in Singles(names) /\ Single("gas_price") \in Singles(names)
              /\ Single("numberOfPubkeys") \in Singles(names) /\ Single("approvers") \in Singles(names)
            BY <3>1
        <3>4. expert => /\ Single("account_template") \in Singles(names) /\ Single("nonce") \in Singles(names)
                        /\ Single("methodSelector") \in Singles(names) /\ Single("genesisId") \in Singles(names)
            BY <3>2
        <3>5. \A k \in 0 .. count - 1 : keyOf(k) \in keys /\ addressOf(k) \in addresses
            OBVIOUS
        <3> HIDE DEF count, text, end, keyOf, addressOf, names, keys, addresses
        <3> QED
            BY <1>1, <1>6, <1>7, <1>8, <3>3, <3>4, <3>5
    <2>2. \A idx \in 0 .. end : Screens[idx] \in Shown
        BY <1>1 DEF Shown
    <2>3. 0 \in 0 .. end /\ 1 \in 0 .. end /\ 2 \in 0 .. end /\ 3 \in 0 .. end /\ 4 \in 0 .. end
        BY <1>1
    <2>4. Single(text) \in Shown /\ \A x \in early : Single(x) \in Shown
        <3> HIDE DEF text, end
        <3> QED
            BY <1>6, <2>2, <2>3
    <2>5. expert => \A x \in late : Single(x) \in Shown
        <3>1. expert => /\ 2 * count + 5 \in 0 .. end /\ 2 * count + 6 \in 0 .. end
                        /\ 2 * count + 7 \in 0 .. end /\ 2 * count + 8 \in 0 .. end
            <4>1. expert => end = 2 * count + 8
                BY <1>1
            <4> HIDE DEF count, end
            <4> QED
                BY <1>1, <4>1
        <3> HIDE DEF count, end
        <3> QED
            BY <1>7, <2>2, <3>1
    <2>6. keys \subseteq Shown /\ addresses \subseteq Shown
        <3>1. \A k \in 0 .. count - 1 : 5 + 2 * k \in 0 .. end /\ 6 + 2 * k \in 0 .. end
            BY <1>1
        <3> HIDE DEF count, end, keyOf, addressOf
        <3>2. \A k \in 0 .. count - 1 : keyOf(k) \in Shown /\ addressOf(k) \in Shown
            BY <1>1, <2>2, <3>1
        <3> QED
            BY <3>2
    <2>7. Singles(names) \subseteq Shown
        BY <2>4, <2>5 DEF Singles
    <2> HIDE DEF text, end, names, keys, addresses
    <2>8. Shown \subseteq {Single(text)} \cup Singles(names) \cup keys \cup addresses
        BY <1>1, <2>1 DEF Shown
    <2> QED
        BY <2>4, <2>6, <2>7, <2>8
<1>13. /\ \A x \in keys : x.name = "pubkey"
       /\ \A x \in addresses : x.name = "Address"
       /\ \A x \in Singles(names) : x.name \in FieldName /\ x.name # "pubkey" /\ x.name # "Address"
    <2>1. (\A x \in keys : x.name = "pubkey") /\ \A x \in addresses : x.name = "Address"
        OBVIOUS
    <2>2. names \subseteq FieldName /\ "pubkey" \notin names /\ "Address" \notin names
        BY <1>5
    <2> HIDE DEF names
    <2>3. \A x \in Singles(names) : x.name \in FieldName /\ x.name # "pubkey" /\ x.name # "Address"
        BY <1>10, <2>2 DEF Singles
    <2> QED
        BY <2>1, <2>3
<1>14. {x.key : x \in keys} = 0 .. count - 1 /\ {x.key : x \in addresses} = 0 .. count - 1
    <2>1. \A k : keyOf(k).key = k /\ addressOf(k).key = k
        OBVIOUS
    <2> HIDE DEF keyOf, addressOf, count
    <2> QED
        BY <2>1
<1> HIDE DEF names, keys, addresses, text, end, count, keyOf, addressOf, early, late
<1>15. \A m, n \in DOMAIN Screens : Screens[m] = Screens[n] => m = n
    <2> SUFFICES ASSUME NEW m \in 0 .. end, NEW n \in 0 .. end, Screens[m] = Screens[n] PROVE m = n
        BY <1>1
    <2>1. MultisigScreen(Screens[m], count) = m /\ MultisigScreen(Screens[n], count) = n
        BY <1>11
    <2> QED
        BY <2>1
<1>16. {item \in Shown : item.name \in FieldName} = Singles(names) \cup keys
    BY <1>5, <1>10, <1>12, <1>13
<1>17. {x \in Shown : x.name = "Address"} = addresses /\ {x \in Shown : x.name = "pubkey"} = keys
    <2>1. Single(text).name # "Address" /\ Single(text).name # "pubkey"
        BY <1>5, <1>10
    <2> QED
        BY <1>12, <1>13, <2>1
<1> QED
    BY <1>9, <1>14, <1>15, <1>16, <1>17 DEF ScreensMatch

\* Every review shows its transaction.
LEMMA ReviewMatches ==
    ASSUME IInv, CompleteInv, pc = "review"
    PROVE  ScreensMatch
<1>1. Method \in {METHOD_SPAWN, METHOD_SPEND, METHOD_DRAIN_VAULT}
    BY ReviewFields
<1>2. tx.account_type \in {UNKNOWN, WALLET, MULTISIG, VESTING, VAULT}
    BY DEF IInv, TypeOK
<1>3. ~(Method = METHOD_SPAWN /\ tx.account_type = UNKNOWN)
    <2> SUFFICES ASSUME Method = METHOD_SPAWN, tx.account_type = UNKNOWN PROVE FALSE
        OBVIOUS
    <2>1. numItems(tx, expert) = 0
        BY DEF numItems, Method, METHOD_SPAWN, METHOD_SPEND, METHOD_DRAIN_VAULT, UNKNOWN, WALLET, MULTISIG,
               VESTING, VAULT
    <2> QED
        BY <2>1, ReviewScreens
<1> QED
    BY <1>1, <1>2, <1>3, WalletMatches, VaultMatches, SpendMatches, DrainMatches, MultisigMatches

\* For any uploads, lengths and limits, the screens show what was read, once each, and
\* nothing that this transaction does not have: the fields the parser reads, the number
\* of items and the items are three tables kept by hand (parser.c:79-132, 162-468).
THEOREM ScreensShowEveryField == Spec => []ScreensShowTheTransaction
<1>1. IInv /\ CompleteInv => ScreensShowTheTransaction
    <2> SUFFICES ASSUME IInv, CompleteInv, pc = "review" PROVE ScreensShowTheTransaction
        BY DEF ScreensShowTheTransaction
    <2>1. ScreensMatch
        BY ReviewMatches
    <2> QED
        BY <2>1 DEF ScreensMatch, ScreensShowTheTransaction, ReadFields, Shown, Hidden
<1> QED
    BY <1>1, AlwaysComplete, PTL

-----------------------------------------------------------------------------
\* The place of each field.

Methods == {METHOD_SPAWN, METHOD_SPEND, METHOD_DRAIN_VAULT}

\* The fields that a method and a template bring, one by one.
LEMMA MethodFieldsAt ==
    /\ Len(MethodFields(METHOD_SPAWN)) = 3
    /\ MethodFields(METHOD_SPAWN)[1] = Single("account_template")
    /\ MethodFields(METHOD_SPAWN)[2] = Single("nonce")
    /\ MethodFields(METHOD_SPAWN)[3] = Single("gas_price")
    /\ Len(MethodFields(METHOD_SPEND)) = 4
    /\ MethodFields(METHOD_SPEND)[1] = Single("nonce")
    /\ MethodFields(METHOD_SPEND)[2] = Single("gas_price")
    /\ MethodFields(METHOD_SPEND)[3] = Single("destination")
    /\ MethodFields(METHOD_SPEND)[4] = Single("amount")
    /\ Len(MethodFields(METHOD_DRAIN_VAULT)) = 5
    /\ MethodFields(METHOD_DRAIN_VAULT)[1] = Single("nonce")
    /\ MethodFields(METHOD_DRAIN_VAULT)[2] = Single("gas_price")
    /\ MethodFields(METHOD_DRAIN_VAULT)[3] = Single("vault")
    /\ MethodFields(METHOD_DRAIN_VAULT)[4] = Single("destination")
    /\ MethodFields(METHOD_DRAIN_VAULT)[5] = Single("amount")
<1> DEFINE spawn == <<"account_template", "nonce", "gas_price">>
           spend == <<"nonce", "gas_price", "destination", "amount">>
           drain == <<"nonce", "gas_price", "vault", "destination", "amount">>
<1>1. /\ spawn \in Seq(FieldName) /\ Len(spawn) = 3 /\ spend \in Seq(FieldName) /\ Len(spend) = 4
      /\ drain \in Seq(FieldName) /\ Len(drain) = 5
    BY Names DEF FieldNames
<1>2. /\ spawn[1] = "account_template" /\ spawn[2] = "nonce" /\ spawn[3] = "gas_price"
      /\ spend[1] = "nonce" /\ spend[2] = "gas_price" /\ spend[3] = "destination" /\ spend[4] = "amount"
      /\ drain[1] = "nonce" /\ drain[2] = "gas_price" /\ drain[3] = "vault" /\ drain[4] = "destination"
      /\ drain[5] = "amount"
    OBVIOUS
<1>3. /\ MethodFields(METHOD_SPAWN) = Fields(spawn) /\ MethodFields(METHOD_SPEND) = Fields(spend)
      /\ MethodFields(METHOD_DRAIN_VAULT) = Fields(drain)
    BY DEF MethodFields, METHOD_SPAWN, METHOD_SPEND, METHOD_DRAIN_VAULT
<1> HIDE DEF spawn, spend, drain
<1>4. /\ Len(Fields(spawn)) = 3 /\ \A k \in 1 .. 3 : Fields(spawn)[k] = Single(spawn[k])
      /\ Len(Fields(spend)) = 4 /\ \A k \in 1 .. 4 : Fields(spend)[k] = Single(spend[k])
      /\ Len(Fields(drain)) = 5 /\ \A k \in 1 .. 5 : Fields(drain)[k] = Single(drain[k])
    BY <1>1, FieldsType DEF Single
<1>5. /\ Fields(spawn)[1] = Single("account_template") /\ Fields(spawn)[2] = Single("nonce")
      /\ Fields(spawn)[3] = Single("gas_price")
    BY <1>2, <1>4
<1>6. /\ Fields(spend)[1] = Single("nonce") /\ Fields(spend)[2] = Single("gas_price")
      /\ Fields(spend)[3] = Single("destination") /\ Fields(spend)[4] = Single("amount")
    BY <1>2, <1>4
<1>7. /\ Fields(drain)[1] = Single("nonce") /\ Fields(drain)[2] = Single("gas_price")
      /\ Fields(drain)[3] = Single("vault") /\ Fields(drain)[4] = Single("destination")
      /\ Fields(drain)[5] = Single("amount")
    BY <1>2, <1>4
<1> QED
    BY <1>3, <1>4, <1>5, <1>6, <1>7

\* The fields that a template brings, one by one.
LEMMA SpawnFieldsAt ==
    /\ Len(SpawnFields(WALLET)) = 1 /\ SpawnFields(WALLET)[1] = Single("walletPubkey")
    /\ \A type \in {MULTISIG, VESTING} :
        /\ Len(SpawnFields(type)) = 2
        /\ SpawnFields(type)[1] = Single("approvers") /\ SpawnFields(type)[2] = Single("numberOfPubkeys")
    /\ Len(SpawnFields(VAULT)) = 5
    /\ SpawnFields(VAULT)[1] = Single("owner") /\ SpawnFields(VAULT)[2] = Single("totalAmount")
    /\ SpawnFields(VAULT)[3] = Single("initialUnlockAmount") /\ SpawnFields(VAULT)[4] = Single("vestingStart")
    /\ SpawnFields(VAULT)[5] = Single("vestingEnd")
    /\ \A type : type \notin {WALLET, MULTISIG, VESTING, VAULT} => SpawnFields(type) = <<>>
<1> DEFINE wallet == <<"walletPubkey">>
           multisig == <<"approvers", "numberOfPubkeys">>
           vault == <<"owner", "totalAmount", "initialUnlockAmount", "vestingStart", "vestingEnd">>
<1>1. /\ wallet \in Seq(FieldName) /\ Len(wallet) = 1 /\ multisig \in Seq(FieldName) /\ Len(multisig) = 2
      /\ vault \in Seq(FieldName) /\ Len(vault) = 5
    BY Names DEF FieldNames
<1>2. /\ wallet[1] = "walletPubkey" /\ multisig[1] = "approvers" /\ multisig[2] = "numberOfPubkeys"
      /\ vault[1] = "owner" /\ vault[2] = "totalAmount" /\ vault[3] = "initialUnlockAmount"
      /\ vault[4] = "vestingStart" /\ vault[5] = "vestingEnd"
    OBVIOUS
<1>3. /\ SpawnFields(WALLET) = Fields(wallet) /\ SpawnFields(VAULT) = Fields(vault)
      /\ \A type \in {MULTISIG, VESTING} : SpawnFields(type) = Fields(multisig)
    BY DEF SpawnFields, WALLET, MULTISIG, VESTING, VAULT
<1>4. \A type : type \notin {WALLET, MULTISIG, VESTING, VAULT} => SpawnFields(type) = <<>>
    BY DEF SpawnFields
<1> HIDE DEF wallet, multisig, vault
<1>5. /\ Len(Fields(wallet)) = 1 /\ \A k \in 1 .. 1 : Fields(wallet)[k] = Single(wallet[k])
      /\ Len(Fields(multisig)) = 2 /\ \A k \in 1 .. 2 : Fields(multisig)[k] = Single(multisig[k])
      /\ Len(Fields(vault)) = 5 /\ \A k \in 1 .. 5 : Fields(vault)[k] = Single(vault[k])
    BY <1>1, FieldsType DEF Single
<1>6. /\ Fields(wallet)[1] = Single("walletPubkey")
      /\ Fields(multisig)[1] = Single("approvers") /\ Fields(multisig)[2] = Single("numberOfPubkeys")
    BY <1>2, <1>5
<1>7. /\ Fields(vault)[1] = Single("owner") /\ Fields(vault)[2] = Single("totalAmount")
      /\ Fields(vault)[3] = Single("initialUnlockAmount") /\ Fields(vault)[4] = Single("vestingStart")
      /\ Fields(vault)[5] = Single("vestingEnd")
    BY <1>2, <1>5
<1> QED
    BY <1>3, <1>4, <1>5, <1>6, <1>7

\* The field at each place of a transaction with this method, type and number of keys.
At(k, method, type, count) ==
    IF k <= 4 THEN Header[k]
    ELSE IF method # METHOD_SPAWN \/ k <= 7 THEN MethodFields(method)[k - 4]
    ELSE IF type \notin {MULTISIG, VESTING} \/ k <= 9 THEN SpawnFields(type)[k - 7]
    ELSE KeyFields(count)[k - 9]

\* How many of its fields are known when so many were read.
Known(n, method, type, count) ==
    IF n < 4 THEN 4
    ELSE IF method # METHOD_SPAWN THEN 4 + Len(MethodFields(method))
    ELSE IF n < 7 THEN 7
    ELSE IF type \notin {MULTISIG, VESTING} THEN 7 + Len(SpawnFields(type))
    ELSE IF n < 9 THEN 9
    ELSE 9 + count

\* Places in numbers.
LEMMA KnownType ==
    ASSUME NEW n \in Nat, NEW method, NEW type, NEW count \in Nat, n >= 4 => method \in Methods
    PROVE  Known(n, method, type, count) \in Nat
<1>1. n < 4 \/ (method \in Methods /\ Len(MethodFields(method)) \in Nat)
    BY MethodFieldsAt DEF Methods
<1>2. Len(SpawnFields(type)) \in Nat
    BY SpawnFieldsType
<1> QED
    BY <1>1, <1>2 DEF Known

\* A field of a known place is a field, and the three that bring others have their places.
LEMMA FieldAt ==
    ASSUME NEW n \in Nat, NEW method, NEW type, NEW count \in Nat, n >= 4 => method \in Methods,
           NEW k \in 1 .. Known(n, method, type, count)
    PROVE  LET field == At(k, method, type, count) IN
           /\ field \in Field
           /\ field.name = "methodSelector" <=> k = 4
           /\ k > 4 /\ method = METHOD_SPAWN => (field.name = "gas_price" <=> k = 7)
           /\ field.name = "numberOfPubkeys" <=>
                method = METHOD_SPAWN /\ type \in {MULTISIG, VESTING} /\ k = 9
<1> SUFFICES ASSUME NEW field, field = At(k, method, type, count)
             PROVE  /\ field \in Field
                    /\ field.name = "methodSelector" <=> k = 4
                    /\ k > 4 /\ method = METHOD_SPAWN => (field.name = "gas_price" <=> k = 7)
                    /\ field.name = "numberOfPubkeys" <=>
                        method = METHOD_SPAWN /\ type \in {MULTISIG, VESTING} /\ k = 9
    OBVIOUS
<1>0. \A name \in FieldNames : Single(name) \in Field /\ Single(name).name = name
    BY Names DEF Single, Field
<1>1. CASE k <= 4
    <2>1. k = 1 \/ k = 2 \/ k = 3 \/ k = 4
        BY <1>1
    <2>2. field = Header[k] /\ Header[k] \in Field
        <3>1. Header \in Seq(Field) /\ k \in 1 .. Len(Header)
            BY <2>1, HeaderType
        <3>2. Header[k] \in Field
            BY <3>1, ElementOfSeq
        <3> QED
            BY <1>1, <3>2 DEF At
    <2>3. k # 9 /\ ~(k > 4)
        BY <1>1
    <2>4. Header[k].name # "numberOfPubkeys" /\ (Header[k].name = "methodSelector" <=> k = 4)
        BY <2>1, HeaderType
    <2> QED
        BY <2>2, <2>3, <2>4
<1>2. CASE k > 4 /\ method # METHOD_SPAWN
    <2>1. n >= 4 /\ k - 4 \in 1 .. Len(MethodFields(method))
        BY <1>2, MethodFieldsType DEF Known, Methods
    <2>2. field = MethodFields(method)[k - 4] /\ method \in {METHOD_SPEND, METHOD_DRAIN_VAULT}
        BY <1>2, <2>1 DEF At, Methods
    <2>3. field \in {Single(name) : name \in {"nonce", "gas_price", "vault", "destination", "amount"}}
        <3>1. CASE method = METHOD_SPEND
            <4>1. k - 4 = 1 \/ k - 4 = 2 \/ k - 4 = 3 \/ k - 4 = 4
                BY <2>1, <3>1, MethodFieldsAt
            <4> QED
                BY <2>2, <3>1, <4>1, MethodFieldsAt
        <3>2. CASE method = METHOD_DRAIN_VAULT
            <4>1. k - 4 = 1 \/ k - 4 = 2 \/ k - 4 = 3 \/ k - 4 = 4 \/ k - 4 = 5
                BY <2>1, <3>2, MethodFieldsAt
            <4> QED
                BY <2>2, <3>2, <4>1, MethodFieldsAt
        <3> QED
            BY <2>2, <3>1, <3>2
    <2>4. PICK name \in {"nonce", "gas_price", "vault", "destination", "amount"} : field = Single(name)
        BY <2>3
    <2>5. field \in Field /\ field.name # "methodSelector" /\ field.name # "numberOfPubkeys"
        BY <1>0, <2>4 DEF FieldNames
    <2> QED
        BY <1>2, <2>5
<1>3. CASE k > 4 /\ k <= 7 /\ method = METHOD_SPAWN
    <2>1. field = MethodFields(METHOD_SPAWN)[k - 4] /\ (k - 4 = 1 \/ k - 4 = 2 \/ k - 4 = 3)
        BY <1>3 DEF At
    <2>2. /\ k = 5 => field = Single("account_template")
          /\ k = 6 => field = Single("nonce")
          /\ k = 7 => field = Single("gas_price")
        BY <2>1, MethodFieldsAt
    <2>3. k = 5 \/ k = 6 \/ k = 7
        BY <1>3
    <2> QED
        BY <1>0, <1>3, <2>2, <2>3 DEF FieldNames
<1>4. CASE k > 7 /\ method = METHOD_SPAWN /\ type \in {MULTISIG, VESTING} /\ k <= 9
    <2>1. field = SpawnFields(type)[k - 7] /\ (k = 8 \/ k = 9)
        BY <1>4 DEF At
    <2>2. k = 8 => field = Single("approvers")
        BY <1>4, <2>1, SpawnFieldsAt
    <2>3. k = 9 => field = Single("numberOfPubkeys")
        BY <1>4, <2>1, SpawnFieldsAt
    <2> QED
        BY <1>0, <1>4, <2>1, <2>2, <2>3 DEF FieldNames
<1>5. CASE k > 9 /\ method = METHOD_SPAWN /\ type \in {MULTISIG, VESTING}
    <2>1. k - 9 \in 1 .. count
        BY <1>5 DEF Known
    <2>2. field = KeyFields(count)[k - 9]
        BY <1>5 DEF At
    <2>3. field = [name |-> "pubkey", key |-> k - 9 - 1] /\ field \in Field
        BY <2>1, <2>2, KeyFieldsType
    <2> QED
        BY <1>5, <2>3
<1>6. CASE k > 7 /\ method = METHOD_SPAWN /\ type \notin {MULTISIG, VESTING}
    <2>1. k - 7 \in 1 .. Len(SpawnFields(type))
        BY <1>6, SpawnFieldsType DEF Known
    <2>2. field = SpawnFields(type)[k - 7]
        BY <1>6 DEF At
    <2>3. type = WALLET \/ type = VAULT
        <3>1. Len(SpawnFields(type)) # 0
            BY <2>1
        <3>2. SpawnFields(type) # <<>>
            BY <3>1
        <3> QED
            BY <1>6, <3>2, SpawnFieldsAt
    <2>4. field \in {Single(name) : name \in
                {"walletPubkey", "owner", "totalAmount", "initialUnlockAmount", "vestingStart", "vestingEnd"}}
        <3>1. CASE type = WALLET
            <4>1. k - 7 = 1
                BY <2>1, <3>1, SpawnFieldsAt
            <4> QED
                BY <2>2, <3>1, <4>1, SpawnFieldsAt
        <3>2. CASE type = VAULT
            <4>1. k - 7 = 1 \/ k - 7 = 2 \/ k - 7 = 3 \/ k - 7 = 4 \/ k - 7 = 5
                BY <2>1, <3>2, SpawnFieldsAt
            <4> QED
                BY <2>2, <3>2, <4>1, SpawnFieldsAt
        <3> QED
            BY <2>3, <3>1, <3>2
    <2>5. PICK name \in {"walletPubkey", "owner", "totalAmount", "initialUnlockAmount", "vestingStart",
                         "vestingEnd"} : field = Single(name)
        BY <2>4
    <2>6. field \in Field /\ field.name = name
        BY <1>0, <2>5 DEF FieldNames
    <2> QED
        BY <1>6, <2>5, <2>6
<1> QED
    BY <1>1, <1>2, <1>3, <1>4, <1>5, <1>6

Type == tx.account_type

Count == tx.number["numberOfPubkeys"]

\* What is known does not depend on what is not.
LEMMA KnownAgrees ==
    ASSUME NEW n \in Nat, NEW m, NEW t, NEW c \in Nat, NEW mm, NEW tt, NEW cc \in Nat,
           n >= 4 => m = mm,
           n >= 7 /\ m = METHOD_SPAWN => t = tt,
           n >= 9 /\ m = METHOD_SPAWN /\ t \in {MULTISIG, VESTING} => c = cc
    PROVE  /\ Known(n, m, t, c) = Known(n, mm, tt, cc)
           /\ \A k \in 1 .. Known(n, m, t, c) : At(k, m, t, c) = At(k, mm, tt, cc)
<1>1. Known(n, m, t, c) = Known(n, mm, tt, cc)
    BY DEF Known
<1>2. ASSUME NEW k \in 1 .. Known(n, m, t, c) PROVE At(k, m, t, c) = At(k, mm, tt, cc)
    <2>1. CASE k <= 4
        BY <2>1 DEF At
    <2>2. CASE k > 4 /\ (m # METHOD_SPAWN \/ k <= 7)
        <3>1. n >= 4
            BY <2>2 DEF Known
        <3> QED
            BY <2>2, <3>1 DEF At
    <2>3. CASE k > 7 /\ m = METHOD_SPAWN
        <3>1. n >= 7
            BY <2>3 DEF Known
        <3>2. CASE t \notin {MULTISIG, VESTING} \/ k <= 9
            BY <2>3, <3>1, <3>2 DEF At
        <3>3. CASE t \in {MULTISIG, VESTING} /\ k > 9
            <4>1. n >= 9
                BY <2>3, <3>1, <3>3 DEF Known
            <4> QED
                BY <2>3, <3>1, <3>3, <4>1 DEF At
        <3> QED
            BY <3>2, <3>3
    <2> QED
        BY <2>1, <2>2, <2>3
<1> QED
    BY <1>1, <1>2

\* The fields read and the fields to read are those of the places known.
Sequenced ==
    /\ Len(read) >= 4 => Method \in Methods
    /\ Len(read) + Len(todo) = Known(Len(read), Method, Type, Count)
    /\ \A k \in 1 .. Len(read) : read[k].field = At(k, Method, Type, Count)
    /\ \A k \in 1 .. Len(todo) : todo[k] = At(Len(read) + k, Method, Type, Count)

\* The next field is the one at its place.
LEMMA NextIsAt ==
    ASSUME IInv, Sequenced, pc = "read", todo # <<>>
    PROVE  /\ Len(read) \in Nat /\ Len(todo) \in Nat /\ Len(todo) > 0 /\ Count \in Nat
           /\ Len(read) + 1 \in 1 .. Known(Len(read), Method, Type, Count)
           /\ Head(todo) = At(Len(read) + 1, Method, Type, Count)
<1>1. Len(read) \in Nat /\ Len(todo) \in Nat /\ Len(todo) > 0 /\ Head(todo) = todo[1]
    <2>1. read \in Seq(Part) /\ todo \in Seq(Field)
        BY DEF IInv, TypeOK
    <2> QED
        BY <2>1, EmptySeq
<1>2. Count \in Nat
    BY DEF IInv, TypeOK, CompactMax, Count
<1>3. Len(read) + Len(todo) = Known(Len(read), Method, Type, Count)
    BY DEF Sequenced
<1>4. 1 \in 1 .. Len(todo)
    BY <1>1
<1>5. todo[1] = At(Len(read) + 1, Method, Type, Count)
    BY <1>4 DEF Sequenced
<1> QED
    BY <1>1, <1>2, <1>3, <1>5

\* One more field is read: the list grows by it, and what follows is as the places say.
LEMMA SequencedStep ==
    ASSUME IInv, Sequenced, pc = "read", todo # <<>>, NEW entry \in Part, entry.field = Head(todo),
           read' = Append(read, entry), Count' \in Nat,
           Len(read) >= 4 => Method' = Method,
           Len(read) >= 7 /\ Method = METHOD_SPAWN => Type' = Type,
           Len(read) >= 9 /\ Method = METHOD_SPAWN /\ Type \in {MULTISIG, VESTING} => Count' = Count,
           Len(read) >= 3 => Method' \in Methods,
           Len(read) + 1 + Len(todo') = Known(Len(read) + 1, Method', Type', Count'),
           \A k \in 1 .. Len(todo') : todo'[k] = At(Len(read) + 1 + k, Method', Type', Count')
    PROVE  Sequenced'
<1> DEFINE n == Len(read)
<1>1. /\ n \in Nat /\ Count \in Nat /\ n + 1 \in 1 .. Known(n, Method, Type, Count)
      /\ Head(todo) = At(n + 1, Method, Type, Count)
    BY NextIsAt
<1>2. /\ Len(read') = n + 1 /\ read'[n + 1] = entry /\ \A k \in 1 .. n : read'[k] = read[k]
    BY DEF IInv, TypeOK
<1>3. \A k \in 1 .. Known(n, Method, Type, Count) :
        At(k, Method, Type, Count) = At(k, Method', Type', Count')
    <2>1. /\ n >= 4 => Method = Method'
          /\ n >= 7 /\ Method = METHOD_SPAWN => Type = Type'
          /\ n >= 9 /\ Method = METHOD_SPAWN /\ Type \in {MULTISIG, VESTING} => Count = Count'
          /\ n \in Nat /\ Count \in Nat /\ Count' \in Nat
        BY <1>1
    <2> HIDE DEF n
    <2> QED
        BY ONLY <2>1, KnownAgrees
<1>4. \A k \in 1 .. n : read[k].field = At(k, Method, Type, Count)
    BY DEF Sequenced
<1> HIDE DEF n
<1>5. \A k \in 1 .. n + 1 : read'[k].field = At(k, Method', Type', Count')
    <2> SUFFICES ASSUME NEW k \in 1 .. n + 1 PROVE read'[k].field = At(k, Method', Type', Count')
        OBVIOUS
    <2>1. k \in 1 .. Known(n, Method, Type, Count)
        <3> DEFINE all == Known(n, Method, Type, Count)
        <3>1. n + 1 \in 1 .. all /\ k \in 1 .. n + 1 /\ n \in Nat
            BY <1>1
        <3>2. all \in Int
            <4>1. n >= 4 => Method \in Methods
                BY DEF Sequenced, n
            <4> QED
                BY <1>1, <4>1, KnownType
        <3> HIDE DEF all
        <3>3. k \in 1 .. all
            BY <3>1, <3>2
        <3> QED
            BY <3>3 DEF all
    <2>2. CASE k = n + 1
        BY <1>1, <1>2, <1>3, <2>1, <2>2
    <2>3. CASE k # n + 1
        <3>1. k \in 1 .. n
            BY <1>1, <2>3
        <3> QED
            BY <1>2, <1>3, <1>4, <2>1, <3>1
    <2> QED
        BY <2>2, <2>3
<1>6. n + 1 >= 4 => Method' \in Methods
    BY <1>1 DEF n
<1> QED
    BY <1>2, <1>5, <1>6 DEF Sequenced, n

\* Nothing more becomes known at the other places.
LEMMA KnownNext ==
    ASSUME NEW n \in Nat, NEW m, NEW t, NEW c \in Nat, n + 1 # 4,
           ~(m = METHOD_SPAWN /\ n + 1 = 7),
           ~(m = METHOD_SPAWN /\ t \in {MULTISIG, VESTING} /\ n + 1 = 9)
    PROVE  Known(n + 1, m, t, c) = Known(n, m, t, c)
BY DEF Known

\* Reading bytes makes nothing known.
LEMMA ReadBytesSequenced ==
    ASSUME IInv, Sequenced, ReadBytes, pc = "read", pc' = "read"
    PROVE  Sequenced'
<1> DEFINE field == Head(todo)
           size == FixedLength[field.name]
           entry == [field |-> field, ptr |-> offset, len |-> size]
           n == Len(read)
<1>1. TypeOK /\ offset \in Nat /\ todo \in Seq(Field)
    BY DEF IInv, TypeOK
<1>2. /\ todo # <<>> /\ todo' = Tail(todo)
      /\ field \in Field /\ field.name \in DOMAIN FixedLength /\ size \in Nat
      /\ read' = Append(read, entry)
      /\ tx'.number = tx.number /\ tx'.account_type = tx.account_type
    BY <1>1, ReadBytesSteps
<1>3. entry \in Part /\ entry.field = field
    BY <1>1, <1>2 DEF Part
<1>4. Method' = Method /\ Type' = Type /\ Count' = Count
    BY <1>2 DEF Method, Type, Count
<1>5. /\ n \in Nat /\ Len(todo) \in Nat /\ Len(todo) > 0 /\ Count \in Nat
      /\ n + 1 \in 1 .. Known(n, Method, Type, Count)
      /\ field = At(n + 1, Method, Type, Count)
    BY <1>2, NextIsAt
<1>6. n >= 4 => Method \in Methods
    BY DEF Sequenced
<1>7. field.name \notin {"methodSelector", "gas_price", "numberOfPubkeys"}
    BY <1>2 DEF FixedLength
<1>8. /\ n + 1 # 4 /\ ~(Method = METHOD_SPAWN /\ n + 1 = 7)
      /\ ~(Method = METHOD_SPAWN /\ Type \in {MULTISIG, VESTING} /\ n + 1 = 9)
    <2> HIDE DEF field, n
    <2> QED
        BY <1>5, <1>6, <1>7, FieldAt
<1>9. Known(n + 1, Method, Type, Count) = Known(n, Method, Type, Count)
    <2> HIDE DEF n
    <2> QED
        BY <1>5, <1>8, KnownNext
<1>10. Len(todo') = Len(todo) - 1 /\ \A k \in 1 .. Len(todo) - 1 : todo'[k] = todo[k + 1]
    BY <1>1, <1>2
<1>11. n + Len(todo) = Known(n, Method, Type, Count)
       /\ \A k \in 1 .. Len(todo) : todo[k] = At(n + k, Method, Type, Count)
    BY DEF Sequenced
<1> HIDE DEF n, field, entry, size
<1>12. n + 1 + Len(todo') = Known(n + 1, Method, Type, Count)
    BY <1>5, <1>9, <1>10, <1>11
<1>13. \A k \in 1 .. Len(todo') : todo'[k] = At(n + 1 + k, Method, Type, Count)
    <2> SUFFICES ASSUME NEW k \in 1 .. Len(todo') PROVE todo'[k] = At(n + 1 + k, Method, Type, Count)
        OBVIOUS
    <2>1. k \in 1 .. Len(todo) - 1
        BY <1>10
    <2>2. k + 1 \in 1 .. Len(todo) /\ n + (k + 1) = n + 1 + k
        BY <1>5, <2>1
    <2>3. todo'[k] = todo[k + 1]
        BY <1>10, <2>1
    <2> QED
        BY <1>11, <2>2, <2>3
<1>14. n >= 3 => Method \in Methods
    BY <1>5, <1>6, <1>8
<1> QED
    BY <1>2, <1>3, <1>4, <1>5, <1>12, <1>13, <1>14, SequencedStep DEF n, field

\* The type of an account is known as soon as the fields it brings are.
LEMMA SpawnedFields ==
    ASSUME IInv, Complete, pc = "read", todo # <<>>, Head(todo).name = "gas_price"
    PROVE  tx.account_type = UNKNOWN /\ SpawnFields(SpawnedType) = SpawnFields(accountType)
<1>1. Head(todo) \in Field /\ todo \in Seq(Field)
    <2>1. todo \in Seq(Field)
        BY DEF IInv, TypeOK
    <2> QED
        BY <2>1
<1>2. Rank(Head(todo)) = 6
    BY DEF Rank
<1>3. ~IsRead("gas_price")
    BY <1>2, Bringers, NotRead DEF IsRead
<1>4. tx.account_type = UNKNOWN
    BY <1>3 DEF Complete
<1>5. CASE accountType \in {WALLET, MULTISIG, VESTING, VAULT}
    BY <1>4, <1>5 DEF SpawnedType
<1>6. CASE accountType \notin {WALLET, MULTISIG, VESTING, VAULT}
    <2>1. SpawnedType = UNKNOWN
        BY <1>4, <1>6 DEF SpawnedType
    <2>2. SpawnFields(UNKNOWN) = <<>>
        BY DEF SpawnFields, UNKNOWN, WALLET, MULTISIG, VESTING, VAULT
    <2>3. SpawnFields(accountType) = <<>>
        BY <1>6 DEF SpawnFields
    <2> QED
        BY <1>4, <2>1, <2>2, <2>3
<1> QED
    BY <1>4, <1>5, <1>6

\* A list of one, and another behind it.
LEMMA SoleTail ==
    ASSUME NEW list \in Seq(Field), Len(list) = 1, NEW after \in Seq(Field)
    PROVE  Tail(list) \o after = after
<1>0. list # <<>>
    <2>1. Len(list) # 0
        OBVIOUS
    <2> QED
        BY ONLY <2>1, list \in Seq(Field), EmptySeq
<1>1. Tail(list) \in Seq(Field) /\ Len(Tail(list)) = 0
    BY <1>0
<1>2. Tail(list) = <<>>
    BY <1>1, EmptySeq
<1> QED
    BY <1>2, ConcatEmptySeq

\* What an accepted number adds to what is to be read.
LEMMA ReadCompactSequenced ==
    ASSUME IInv, Complete, Sequenced, ReadCompact, pc = "read", pc' = "read"
    PROVE  Sequenced'
<1> DEFINE field == Head(todo)
           size == compactLen(payload[offset + 1])
           value == getValue(SubSeq(payload, offset + 1, offset + size))
           entry == [field |-> field, ptr |-> offset, len |-> size]
           after == FieldsAfter(field.name, value)
           n == Len(read)
           left == Len(todo)
<1>1. /\ TypeOK /\ offset \in Nat /\ todo \in Seq(Field) /\ Listed(todo, Method)
      /\ tx.number \in [DOMAIN CompactMax -> Nat]
    BY DEF IInv, TypeOK, Ahead, Method
<1>2. /\ todo # <<>> /\ todo' = Tail(todo) \o after
      /\ field \in Field /\ field.name \in DOMAIN CompactMax /\ size \in Nat
      /\ value \in Nat /\ Accepted(field.name, value)
      /\ read' = Append(read, entry)
      /\ tx'.number = [tx.number EXCEPT ![field.name] = value]
      /\ tx'.account_type = IF field.name = "gas_price" /\ Method = METHOD_SPAWN
                            THEN SpawnedType ELSE tx.account_type
    BY <1>1, ReadCompactSteps DEF Method
<1>3. entry \in Part /\ entry.field = field
    BY <1>1, <1>2 DEF Part
<1>4. "methodSelector" \in DOMAIN CompactMax /\ "numberOfPubkeys" \in DOMAIN CompactMax
    BY DEF CompactMax
<1> HIDE DEF value, size, entry
<1>5. /\ Method' = IF field.name = "methodSelector" THEN value ELSE Method
      /\ Count' = IF field.name = "numberOfPubkeys" THEN value ELSE Count
      /\ Type' = IF field.name = "gas_price" /\ Method = METHOD_SPAWN THEN SpawnedType ELSE Type
      /\ Count \in Nat /\ Count' \in Nat
    BY <1>1, <1>2, <1>4 DEF Method, Count, Type
<1>6. /\ n \in Nat /\ left \in Nat /\ left > 0
      /\ n + 1 \in 1 .. Known(n, Method, Type, Count)
      /\ field = At(n + 1, Method, Type, Count)
    BY <1>2, NextIsAt
<1>7. /\ n >= 4 => Method \in Methods
      /\ n + left = Known(n, Method, Type, Count)
      /\ \A k \in 1 .. left : todo[k] = At(n + k, Method, Type, Count)
    BY DEF Sequenced
<1>8. left = Len(todo) /\ Len(Tail(todo)) = left - 1 /\ \A k \in 1 .. left - 1 : Tail(todo)[k] = todo[k + 1]
      /\ Tail(todo) \in Seq(Field)
    BY <1>1, <1>2
<1> HIDE DEF n, field, left
<1>9. /\ field.name = "methodSelector" <=> n + 1 = 4
      /\ n + 1 > 4 /\ Method = METHOD_SPAWN => (field.name = "gas_price" <=> n + 1 = 7)
      /\ field.name = "numberOfPubkeys" <=>
            Method = METHOD_SPAWN /\ Type \in {MULTISIG, VESTING} /\ n + 1 = 9
    BY <1>5, <1>6, <1>7, FieldAt
<1>10. /\ n >= 4 => Method' = Method
       /\ n >= 7 /\ Method = METHOD_SPAWN => Type' = Type
       /\ n >= 9 /\ Method = METHOD_SPAWN /\ Type \in {MULTISIG, VESTING} => Count' = Count
    BY <1>5, <1>6, <1>9
<1>11. n >= 3 => Method' \in Methods
    <2>1. CASE n + 1 = 4
        <3>1. value \in Methods
            BY <1>2, <1>9, <2>1 DEF Accepted, Methods
        <3> QED
            BY <1>5, <1>9, <2>1, <3>1
    <2>2. CASE n + 1 # 4
        BY <1>6, <1>7, <1>10, <2>2
    <2> QED
        BY <2>1, <2>2
<1>12. CASE n + 1 = 4
    <2>1. field.name = "methodSelector" /\ Method' = value /\ value \in Methods
        <3>1. n >= 3 /\ field.name = "methodSelector"
            BY <1>6, <1>9, <1>12
        <3> QED
            BY <1>5, <1>11, <3>1
    <2>2. left = 1
        BY <1>6, <1>7, <1>12 DEF Known
    <2>3. after = MethodFields(value) /\ after \in Seq(Field)
        BY <2>1, MethodFieldsType DEF FieldsAfter, Methods
    <2>4. todo' = MethodFields(Method')
        <3> HIDE DEF after
        <3>1. Tail(todo) \o after = after
            BY <1>1, <1>8, <2>2, <2>3, SoleTail
        <3> QED
            BY <1>2, <2>2, <2>3, <3>1, <2>1
    <2>5. n + 1 + Len(todo') = Known(n + 1, Method', Type', Count')
        <3> DEFINE next == Len(todo')
                   now == n + 1
        <3>1. next \in Nat /\ next = Len(MethodFields(Method')) /\ (Method' = METHOD_SPAWN => next = 3)
            BY <2>1, <2>3, <2>4, MethodFieldsAt
        <3>2. now = 4
            BY <1>12
        <3> HIDE DEF next, now
        <3>3. now + next = Known(now, Method', Type', Count')
            <4>1. CASE Method' = METHOD_SPAWN
                <5>1. next = 3
                    BY <3>1, <4>1
                <5>2. Known(now, Method', Type', Count') = 7
                    BY <3>2, <4>1 DEF Known
                <5> QED
                    BY <3>2, <5>1, <5>2
            <4>2. CASE Method' # METHOD_SPAWN
                BY <3>1, <3>2, <4>2 DEF Known
            <4> QED
                BY <4>1, <4>2
        <3> QED
            BY <3>3 DEF now, next
    <2>6. \A k \in 1 .. Len(todo') : todo'[k] = At(n + 1 + k, Method', Type', Count')
        <3> SUFFICES ASSUME NEW k \in 1 .. Len(todo')
                     PROVE  todo'[k] = At(n + 1 + k, Method', Type', Count')
            OBVIOUS
        <3> DEFINE at == n + 1 + k
                   next == Len(todo')
        <3>1. at - 4 = k /\ ~(at <= 4)
            BY <1>6, <1>12
        <3>2. Method' # METHOD_SPAWN \/ at <= 7
            <4>1. Method' = METHOD_SPAWN => next = 3
                BY <2>4, MethodFieldsAt
            <4>2. k \in 1 .. next
                OBVIOUS
            <4> HIDE DEF next
            <4> QED
                BY <1>12, <4>1, <4>2
        <3>3. todo'[k] = MethodFields(Method')[k]
            BY <2>4
        <3> HIDE DEF at
        <3>4. At(at, Method', Type', Count') = MethodFields(Method')[k]
            BY <3>1, <3>2 DEF At
        <3> QED
            BY <3>3, <3>4 DEF at
    <2> QED
        BY <1>2, <1>3, <1>5, <1>10, <1>11, <2>5, <2>6, SequencedStep DEF n, field
<1>13. CASE n + 1 = 7 /\ Method = METHOD_SPAWN
    <2>1. field.name = "gas_price" /\ Method' = Method /\ Type' = SpawnedType
        BY <1>5, <1>6, <1>9, <1>10, <1>13
    <2>2. left = 1
        BY <1>6, <1>7, <1>13 DEF Known
    <2>3. SpawnFields(Type') = SpawnFields(accountType)
        BY <1>2, <2>1, SpawnedFields DEF field
    <2>4. after = SpawnFields(Type') /\ after \in Seq(Field)
        <3>1. tx.number["methodSelector"] = METHOD_SPAWN
            BY <1>13 DEF Method
        <3>2. after = SpawnFields(accountType)
            BY <2>1, <3>1 DEF FieldsAfter
        <3> HIDE DEF after
        <3> QED
            BY <2>3, <3>2, SpawnFieldsType
    <2>5. todo' = SpawnFields(Type')
        <3> HIDE DEF after
        <3>1. Tail(todo) \o after = after
            BY <1>1, <1>8, <2>2, <2>4, SoleTail
        <3> QED
            BY <1>2, <2>2, <2>4, <3>1
    <2>6. n + 1 + Len(todo') = Known(n + 1, Method', Type', Count')
        <3> DEFINE next == Len(todo')
                   now == n + 1
        <3>1. next \in Nat /\ next = Len(SpawnFields(Type')) /\ (Type' \in {MULTISIG, VESTING} => next = 2)
            BY <2>4, <2>5, SpawnFieldsAt
        <3>2. now = 7 /\ Method' = METHOD_SPAWN
            BY <1>13, <2>1
        <3> HIDE DEF next, now
        <3>3. now + next = Known(now, Method', Type', Count')
            BY <3>1, <3>2 DEF Known
        <3> QED
            BY <3>3 DEF now, next
    <2>7. \A k \in 1 .. Len(todo') : todo'[k] = At(n + 1 + k, Method', Type', Count')
        <3> SUFFICES ASSUME NEW k \in 1 .. Len(todo')
                     PROVE  todo'[k] = At(n + 1 + k, Method', Type', Count')
            OBVIOUS
        <3> DEFINE at == n + 1 + k
                   next == Len(todo')
        <3>1. at - 7 = k /\ ~(at <= 4) /\ ~(at <= 7) /\ Method' = METHOD_SPAWN
            BY <1>6, <1>13, <2>1
        <3>2. Type' \notin {MULTISIG, VESTING} \/ at <= 9
            <4>1. Type' \in {MULTISIG, VESTING} => next = 2
                BY <2>5, SpawnFieldsAt
            <4>2. k \in 1 .. next
                OBVIOUS
            <4> HIDE DEF next
            <4> QED
                BY <1>13, <4>1, <4>2
        <3>3. todo'[k] = SpawnFields(Type')[k]
            BY <2>5
        <3> HIDE DEF at
        <3>4. At(at, Method', Type', Count') = SpawnFields(Type')[k]
            BY <3>1, <3>2 DEF At
        <3> QED
            BY <3>3, <3>4 DEF at
    <2> QED
        BY <1>2, <1>3, <1>5, <1>10, <1>11, <2>6, <2>7, SequencedStep DEF n, field
<1>14. CASE n + 1 = 9 /\ Method = METHOD_SPAWN /\ Type \in {MULTISIG, VESTING}
    <2>1. field.name = "numberOfPubkeys" /\ Method' = Method /\ Type' = Type /\ Count' = value
        BY <1>5, <1>6, <1>9, <1>10, <1>14
    <2>2. left = 1
        BY <1>6, <1>7, <1>14 DEF Known
    <2>3. after = KeyFields(Count') /\ after \in Seq(Field) /\ Len(KeyFields(Count')) = Count'
        BY <1>5, <2>1, KeyFieldsType DEF FieldsAfter
    <2>4. todo' = KeyFields(Count')
        <3> HIDE DEF after
        <3>1. Tail(todo) \o after = after
            BY <1>1, <1>8, <2>2, <2>3, SoleTail
        <3> QED
            BY <1>2, <2>2, <2>3, <3>1, <2>1
    <2>5. n + 1 + Len(todo') = Known(n + 1, Method', Type', Count')
        BY <1>14, <2>1, <2>3, <2>4 DEF Known
    <2>6. \A k \in 1 .. Len(todo') : todo'[k] = At(n + 1 + k, Method', Type', Count')
        <3> SUFFICES ASSUME NEW k \in 1 .. Len(todo')
                     PROVE  todo'[k] = At(n + 1 + k, Method', Type', Count')
            OBVIOUS
        <3>1. k >= 1 /\ n + 1 + k - 9 = k /\ ~(n + 1 + k <= 4) /\ ~(n + 1 + k <= 7) /\ ~(n + 1 + k <= 9)
            BY <1>6, <1>14
        <3> QED
            BY <1>14, <2>1, <2>4, <3>1 DEF At
    <2> QED
        BY <1>2, <1>3, <1>5, <1>10, <1>11, <2>5, <2>6, SequencedStep DEF n, field
<1>15. CASE /\ n + 1 # 4 /\ ~(n + 1 = 7 /\ Method = METHOD_SPAWN)
            /\ ~(n + 1 = 9 /\ Method = METHOD_SPAWN /\ Type \in {MULTISIG, VESTING})
    <2>1. field.name \notin {"methodSelector", "numberOfPubkeys"}
        BY <1>9, <1>15
    <2>2. ~(n + 1 > 4 /\ field.name = "gas_price" /\ Method = METHOD_SPAWN)
        BY <1>9, <1>15
    <2>3. ~(field.name = "gas_price" /\ Method = METHOD_SPAWN)
        <3>1. CASE n + 1 > 4
            BY <2>2, <3>1
        <3>2. CASE n + 1 <= 4
            <4>1. field = Header[n + 1] /\ (n + 1 = 1 \/ n + 1 = 2 \/ n + 1 = 3 \/ n + 1 = 4)
                BY <1>6, <3>2 DEF At
            <4>2. Header[n + 1].name # "gas_price"
                BY <4>1, HeaderType
            <4> QED
                BY <4>1, <4>2
        <3> QED
            BY <1>6, <3>1, <3>2
    <2>4. after = <<>>
        BY <2>1, <2>3 DEF FieldsAfter, Method
    <2>5. todo' = Tail(todo)
        <3> HIDE DEF after
        <3> QED
            BY <1>2, <1>8, <2>4, ConcatEmptySeq
    <2>6. Method' = Method /\ Type' = Type /\ Count' = Count
        BY <1>5, <2>1, <2>3
    <2>7. Known(n + 1, Method, Type, Count) = Known(n, Method, Type, Count)
        BY <1>5, <1>6, <1>15, KnownNext
    <2>8. n + 1 + Len(todo') = Known(n + 1, Method', Type', Count')
        <3> DEFINE next == Len(todo')
                   known == Known(n, Method, Type, Count)
        <3>1. next = left - 1
            BY <1>8, <2>5
        <3>2. n + left = known
            BY <1>7
        <3> HIDE DEF next, known
        <3>3. n + 1 + next = known
            BY <1>6, <3>1, <3>2
        <3> QED
            BY <2>6, <2>7, <3>3 DEF next, known
    <2>9. \A k \in 1 .. Len(todo') : todo'[k] = At(n + 1 + k, Method', Type', Count')
        <3> SUFFICES ASSUME NEW k \in 1 .. Len(todo')
                     PROVE  todo'[k] = At(n + 1 + k, Method', Type', Count')
            OBVIOUS
        <3>1. k \in 1 .. left - 1
            BY <1>8, <2>5
        <3>2. k + 1 \in 1 .. left /\ n + (k + 1) = n + 1 + k
            BY <1>6, <3>1
        <3>3. todo'[k] = todo[k + 1]
            BY <1>8, <2>5, <3>1
        <3>4. todo[k + 1] = At(n + 1 + k, Method, Type, Count)
            BY <1>7, <3>2
        <3> QED
            BY <2>6, <3>3, <3>4
    <2> QED
        BY <1>2, <1>3, <1>5, <1>10, <1>11, <2>8, <2>9, SequencedStep DEF n, field
<1> QED
    BY <1>12, <1>13, <1>14, <1>15

\* A field takes the bytes it should.
Sized(upload, part) ==
    LET name == part.field.name IN
    /\ name \in DOMAIN FixedLength => part.len = FixedLength[name]
    /\ name \in DOMAIN CompactMax => part.len > 0 /\ part.len = compactLen(upload[part.ptr + 1])

\* The numbers read were checked, and the checks still hold.
Checked ==
    /\ IsRead("tx_version") => tx.number["tx_version"] = TX_VERSION
    /\ IsRead("numberOfPubkeys") => tx.number["approvers"] <= tx.number["numberOfPubkeys"]
    /\ IsRead("initialUnlockAmount") => tx.number["initialUnlockAmount"] <= tx.number["totalAmount"]
    /\ IsRead("vestingEnd") => tx.number["vestingStart"] <= tx.number["vestingEnd"]
    /\ \A name \in DOMAIN CompactMax : tx.number[name] <= CompactMax[name]
    /\ tx.account_type # UNKNOWN => accountType = tx.account_type
    /\ \A k \in 1 .. Len(read) : Sized(payload, read[k])

SequenceInv == pc \in {"read", "validate", "review"} => Sequenced /\ Checked

\* An encoding has a byte at least.
LEMMA EncodingHasBytes == ASSUME NEW first \in 0 .. 255 PROVE compactLen(first) \in Nat /\ compactLen(first) > 0
BY DEF compactLen

\* One more field keeps the others as they are.
LEMMA SizedStep ==
    ASSUME read \in Seq(Part), \A k \in 1 .. Len(read) : Sized(payload, read[k]),
           NEW entry \in Part, Sized(payload, entry), read' = Append(read, entry), payload' = payload
    PROVE  \A k \in 1 .. Len(read') : Sized(payload', read'[k])
<1>1. /\ Len(read) \in Nat /\ Len(read') = Len(read) + 1 /\ read'[Len(read) + 1] = entry
      /\ \A k \in 1 .. Len(read) : read'[k] = read[k]
    OBVIOUS
<1>2. \A k \in 1 .. Len(read') : k \in 1 .. Len(read) \/ k = Len(read) + 1
    BY <1>1
<1> QED
    BY <1>1, <1>2

\* The checks on the numbers stay true when bytes are read.
LEMMA ReadBytesChecked ==
    ASSUME IInv, Complete, Checked, ReadBytes, pc = "read", pc' = "read"
    PROVE  Checked'
<1> DEFINE field == Head(todo)
           size == FixedLength[field.name]
           slice == [ptr |-> offset, len |-> size]
           entry == [field |-> field, ptr |-> offset, len |-> size]
<1>1. TypeOK /\ offset \in Nat /\ read \in Seq(Part) /\ payload' = payload /\ tx \in TxType
    BY DEF IInv, TypeOK, TxType, ReadBytes
<1>2. /\ todo # <<>> /\ field \in Field /\ field.name \in DOMAIN FixedLength /\ size \in Nat
      /\ read' = Append(read, entry)
      /\ tx'.number = tx.number /\ tx'.account_type = tx.account_type
      /\ tx'.bytes = IF field.name = "pubkey" THEN tx.bytes ELSE [tx.bytes EXCEPT ![field.name] = slice]
    BY <1>1, ReadBytesSteps
<1>3. entry \in Part /\ entry.field = field /\ entry.len = size
    BY <1>1, <1>2 DEF Part
<1>4. Sized(payload, entry)
    BY <1>2, <1>3, Names DEF Sized
<1>5. \A k \in 1 .. Len(read') : Sized(payload', read'[k])
    <2>1. \A k \in 1 .. Len(read) : Sized(payload, read[k])
        BY DEF Checked
    <2> HIDE DEF entry
    <2> QED
        BY <1>1, <1>2, <1>3, <1>4, <2>1, SizedStep
<1>6. ReadFields' = ReadFields \cup {field}
    <2> HIDE DEF entry
    <2> QED
        BY <1>1, <1>2, <1>3, ReadFieldsStep
<1>7. field.name \notin {"tx_version", "numberOfPubkeys", "initialUnlockAmount", "vestingEnd"}
    BY <1>2 DEF FixedLength
<1>8. ASSUME NEW name \in {"tx_version", "numberOfPubkeys", "initialUnlockAmount", "vestingEnd"}
      PROVE  IsRead(name)' <=> IsRead(name)
    <2>1. field # Single(name)
        BY <1>7 DEF Single
    <2> QED
        BY <1>6, <2>1 DEF IsRead
<1>9. tx'.account_type # UNKNOWN => accountType' = tx'.account_type
    <2> SUFFICES ASSUME tx'.account_type # UNKNOWN PROVE accountType' = tx'.account_type
        OBVIOUS
    <2>1. IsRead("gas_price") /\ accountType = tx.account_type
        BY <1>2 DEF Complete, Checked
    <2>2. field.name # "account_template"
        <3> SUFFICES ASSUME field.name = "account_template" PROVE FALSE
            OBVIOUS
        <3>1. Rank(field) = 4
            BY DEF Rank
        <3> QED
            BY <1>2, <2>1, <3>1, Bringers, NotRead DEF IsRead
    <2>3. tx'.bytes["account_template"] = tx.bytes["account_template"]
        <3>1. "account_template" \in DOMAIN FixedLength
            BY DEF FixedLength
        <3> QED
            BY <1>1, <1>2, <2>2, <3>1 DEF TxType
    <2> QED
        BY <1>1, <1>2, <2>1, <2>3 DEF accountType
<1> HIDE DEF field, size, slice, entry
<1> QED
    BY <1>2, <1>5, <1>8, <1>9 DEF Checked

\* A number is checked when it is read, and those it was checked against are not read again.
LEMMA ReadCompactChecked ==
    ASSUME IInv, Complete, Checked, ReadCompact, pc = "read", pc' = "read"
    PROVE  Checked'
<1> DEFINE field == Head(todo)
           size == compactLen(payload[offset + 1])
           value == getValue(SubSeq(payload, offset + 1, offset + size))
           entry == [field |-> field, ptr |-> offset, len |-> size]
<1>1. /\ TypeOK /\ offset \in Nat /\ read \in Seq(Part) /\ payload' = payload /\ payload \in Seq(0 .. 255)
      /\ todo \in Seq(Field) /\ tx.number \in [DOMAIN CompactMax -> Nat] /\ Listed(todo, Method)
    BY DEF IInv, TypeOK, ReadCompact, Ahead, Method
<1>2. /\ todo # <<>> /\ field \in Field /\ field.name \in DOMAIN CompactMax /\ size \in Nat
      /\ value \in Nat /\ Accepted(field.name, value)
      /\ offset' = offset + size /\ offset' <= Len(payload)
      /\ read' = Append(read, entry) /\ tx'.bytes = tx.bytes
      /\ tx'.number = [tx.number EXCEPT ![field.name] = value]
      /\ tx'.account_type = IF field.name = "gas_price" /\ tx.number["methodSelector"] = METHOD_SPAWN
                            THEN SpawnedType ELSE tx.account_type
    BY <1>1, ReadCompactSteps
<1>3. entry \in Part /\ entry.field = field /\ entry.len = size /\ entry.ptr = offset
    BY <1>1, <1>2 DEF Part
<1>4. Sized(payload, entry)
    <2>1. offset + 1 <= Len(payload)
        BY DEF ReadCompact, Available, Refuse
    <2>2. payload[offset + 1] \in 0 .. 255
        <3>1. offset + 1 \in 1 .. Len(payload)
            BY <1>1, <2>1
        <3> QED
            BY <1>1, <3>1, ElementOfSeq
    <2>3. size > 0
        BY <2>2, EncodingHasBytes
    <2> QED
        BY <1>2, <1>3, <2>3, Names DEF Sized
<1> HIDE DEF size, value, entry
<1>5. \A k \in 1 .. Len(read') : Sized(payload', read'[k])
    <2>1. \A k \in 1 .. Len(read) : Sized(payload, read[k])
        BY DEF Checked
    <2> QED
        BY <1>1, <1>2, <1>3, <1>4, <2>1, SizedStep
<1>6. ReadFields' = ReadFields \cup {field}
    BY <1>1, <1>2, <1>3, ReadFieldsStep
<1>7. field = Single(field.name)
    <2>1. field.name # "pubkey"
        BY <1>2 DEF CompactMax
    <2>2. field.key = 0
        BY <1>1, <1>2, <2>1, TailListed
    <2> QED
        BY <1>2, <2>2 DEF Field, Single
<1>8. \A name : name # field.name => (IsRead(name)' <=> IsRead(name))
    BY <1>6, <1>7 DEF IsRead, Single
<1>9. \A name : Single(name) \in Field /\ Rank(field) <= Rank(Single(name)) => ~IsRead(name)
    BY <1>1, <1>2, NotRead DEF IsRead
<1>10. /\ Single("numberOfPubkeys") \in Field /\ Rank(Single("numberOfPubkeys")) = 8
       /\ Single("initialUnlockAmount") \in Field /\ Rank(Single("initialUnlockAmount")) = 9
       /\ Single("vestingEnd") \in Field /\ Rank(Single("vestingEnd")) = 11
    <2>1. /\ "numberOfPubkeys" \in FieldName /\ "initialUnlockAmount" \in FieldName
          /\ "vestingEnd" \in FieldName
        BY Names DEF FieldNames
    <2> QED
        BY <2>1 DEF Single, Field, Rank
<1>11. /\ {"tx_version", "approvers", "numberOfPubkeys", "totalAmount", "initialUnlockAmount",
          "vestingStart", "vestingEnd"} \subseteq DOMAIN CompactMax
    BY DEF CompactMax
<1>12. \A name \in DOMAIN CompactMax :
        tx'.number[name] = IF name = field.name THEN value ELSE tx.number[name]
    BY <1>1, <1>2
<1>13. IsRead("tx_version")' => tx'.number["tx_version"] = TX_VERSION
    <2>1. CASE field.name = "tx_version"
        BY <1>2, <1>11, <1>12, <2>1 DEF Accepted
    <2>2. CASE field.name # "tx_version"
        BY <1>8, <1>11, <1>12, <2>2 DEF Checked
    <2> QED
        BY <2>1, <2>2
<1>14. IsRead("numberOfPubkeys")' => tx'.number["approvers"] <= tx'.number["numberOfPubkeys"]
    <2>1. CASE field.name = "numberOfPubkeys"
        <3>1. value \in tx.number["approvers"] .. MAX_MULTISIG_PUB_KEY
            BY <1>2, <2>1 DEF Accepted
        <3>2. tx.number["approvers"] <= value
            BY <3>1
        <3>3. tx'.number["numberOfPubkeys"] = value /\ tx'.number["approvers"] = tx.number["approvers"]
            BY <1>11, <1>12, <2>1
        <3> QED
            BY <3>2, <3>3
    <2>2. CASE field.name = "approvers"
        <3>1. Rank(field) = 7
            BY <2>2 DEF Rank
        <3>2. ~IsRead("numberOfPubkeys")
            BY <1>9, <1>10, <3>1
        <3> QED
            BY <1>8, <2>2, <3>2
    <2>3. CASE field.name # "numberOfPubkeys" /\ field.name # "approvers"
        <3>1. /\ tx'.number["numberOfPubkeys"] = tx.number["numberOfPubkeys"]
              /\ tx'.number["approvers"] = tx.number["approvers"]
            BY <1>11, <1>12, <2>3
        <3> QED
            BY <1>8, <2>3, <3>1 DEF Checked
    <2> QED
        BY <2>1, <2>2, <2>3
<1>15. IsRead("initialUnlockAmount")' => tx'.number["initialUnlockAmount"] <= tx'.number["totalAmount"]
    <2>1. CASE field.name = "initialUnlockAmount"
        <3>1. value <= tx.number["totalAmount"]
            BY <1>2, <2>1 DEF Accepted
        <3>2. tx'.number["initialUnlockAmount"] = value /\ tx'.number["totalAmount"] = tx.number["totalAmount"]
            BY <1>11, <1>12, <2>1
        <3> QED
            BY <3>1, <3>2
    <2>2. CASE field.name = "totalAmount"
        <3>1. Rank(field) = 8
            BY <2>2 DEF Rank
        <3>2. ~IsRead("initialUnlockAmount")
            BY <1>9, <1>10, <3>1
        <3> QED
            BY <1>8, <2>2, <3>2
    <2>3. CASE field.name # "initialUnlockAmount" /\ field.name # "totalAmount"
        <3>1. /\ tx'.number["initialUnlockAmount"] = tx.number["initialUnlockAmount"]
              /\ tx'.number["totalAmount"] = tx.number["totalAmount"]
            BY <1>11, <1>12, <2>3
        <3> QED
            BY <1>8, <2>3, <3>1 DEF Checked
    <2> QED
        BY <2>1, <2>2, <2>3
<1>16. IsRead("vestingEnd")' => tx'.number["vestingStart"] <= tx'.number["vestingEnd"]
    <2>1. CASE field.name = "vestingEnd"
        <3>1. tx.number["vestingStart"] <= value
            BY <1>2, <2>1 DEF Accepted
        <3>2. tx'.number["vestingEnd"] = value /\ tx'.number["vestingStart"] = tx.number["vestingStart"]
            BY <1>11, <1>12, <2>1
        <3> QED
            BY <3>1, <3>2
    <2>2. CASE field.name = "vestingStart"
        <3>1. Rank(field) = 10
            BY <2>2 DEF Rank
        <3>2. ~IsRead("vestingEnd")
            BY <1>9, <1>10, <3>1
        <3> QED
            BY <1>8, <2>2, <3>2
    <2>3. CASE field.name # "vestingEnd" /\ field.name # "vestingStart"
        <3>1. /\ tx'.number["vestingEnd"] = tx.number["vestingEnd"]
              /\ tx'.number["vestingStart"] = tx.number["vestingStart"]
            BY <1>11, <1>12, <2>3
        <3> QED
            BY <1>8, <2>3, <3>1 DEF Checked
    <2> QED
        BY <2>1, <2>2, <2>3
<1>17. \A name \in DOMAIN CompactMax : tx'.number[name] <= CompactMax[name]
    <2>1. value <= CompactMax[field.name]
        <3>1. value \in 0 .. CompactMax[field.name]
            BY <1>2 DEF Accepted
        <3> QED
            BY <3>1
    <2> QED
        BY <1>12, <2>1 DEF Checked
<1>18. tx'.account_type # UNKNOWN => accountType' = tx'.account_type
    <2>1. accountType' = accountType
        BY <1>1, <1>2 DEF accountType
    <2>2. CASE field.name = "gas_price" /\ tx.number["methodSelector"] = METHOD_SPAWN
        BY <1>2, <2>1, <2>2 DEF SpawnedType, Checked
    <2>3. CASE ~(field.name = "gas_price" /\ tx.number["methodSelector"] = METHOD_SPAWN)
        BY <1>2, <2>1, <2>3 DEF Checked
    <2> QED
        BY <2>2, <2>3
<1> QED
    BY <1>5, <1>13, <1>14, <1>15, <1>16, <1>17, <1>18 DEF Checked

\* Nothing is claimed before the first upload.
LEMMA InitSequence == Init => SequenceInv
BY DEF Init, SequenceInv

\* Every step keeps the fields in their places.
LEMMA NextSequence == IInv /\ CompleteInv /\ SequenceInv /\ [Next]_vars => SequenceInv'
<1> SUFFICES ASSUME IInv, CompleteInv, SequenceInv, [Next]_vars PROVE SequenceInv'
    OBVIOUS
<1>1. ASSUME NEW upload \in Payloads, Receive(upload) PROVE SequenceInv'
    <2>1. /\ todo' = Header /\ tx' = ClearedTx /\ read' = <<>>
        BY <1>1 DEF Receive, StartTx
    <2>2. Len(read') = 0 /\ Len(todo') = 4
        BY <2>1, HeaderType
    <2>3. Sequenced'
        <3>1. Len(read') + Len(todo') = Known(Len(read'), Method', Type', Count')
            BY <2>2 DEF Known
        <3>2. \A k \in 1 .. Len(todo') : todo'[k] = At(Len(read') + k, Method', Type', Count')
            BY <2>1, <2>2 DEF At
        <3> QED
            BY <2>2, <3>1, <3>2 DEF Sequenced
    <2>4. ReadFields' = {} /\ tx'.account_type = UNKNOWN
        BY <2>1, <2>2 DEF ReadFields, ClearedTx
    <2>5. \A name \in DOMAIN CompactMax : tx'.number[name] <= CompactMax[name]
        <3>1. \A name \in DOMAIN CompactMax : tx'.number[name] = 0 /\ CompactMax[name] \in Nat
            BY <2>1, Names DEF ClearedTx
        <3> QED
            BY <3>1
    <2>6. Checked'
        BY <2>2, <2>4, <2>5 DEF Checked, IsRead
    <2> QED
        BY <2>3, <2>6 DEF SequenceInv
<1>2. CASE ToggleExpert
    BY <1>2 DEF ToggleExpert, SequenceInv
<1>3. CASE ReadBytes
    <2>1. pc = "read" /\ pc' \in {"read", "refused"}
        BY <1>3 DEF ReadBytes, ReadNext, Refuse
    <2>2. Complete /\ Sequenced /\ Checked
        BY <2>1 DEF CompleteInv, SequenceInv
    <2>3. CASE pc' = "read"
        BY <1>3, <2>1, <2>2, <2>3, ReadBytesSequenced, ReadBytesChecked DEF SequenceInv
    <2> QED
        BY <2>1, <2>3 DEF SequenceInv
<1>4. CASE ReadCompact
    <2>1. pc = "read" /\ pc' \in {"read", "refused"}
        BY <1>4 DEF ReadCompact, ReadNext, Refuse
    <2>2. Complete /\ Sequenced /\ Checked
        BY <2>1 DEF CompleteInv, SequenceInv
    <2>3. CASE pc' = "read"
        BY <1>4, <2>1, <2>2, <2>3, ReadCompactSequenced, ReadCompactChecked DEF SequenceInv
    <2> QED
        BY <2>1, <2>3 DEF SequenceInv
<1>5. ASSUME UNCHANGED <<payload, todo, tx, read>>,
             pc' \in {"read", "validate", "review"} => pc \in {"read", "validate", "review"}
      PROVE  SequenceInv'
    <2>1. Sequenced => Sequenced'
        BY <1>5 DEF Sequenced, Method, Type, Count
    <2>2. Checked => Checked'
        BY <1>5 DEF Checked, ReadFields, IsRead, accountType
    <2> QED
        BY <1>5, <2>1, <2>2 DEF SequenceInv
<1>6. CASE ReadEnd
    BY <1>5, <1>6 DEF ReadEnd
<1>7. CASE Validate
    BY <1>5, <1>7 DEF Validate
<1>8. CASE Answer
    BY <1>8 DEF Answer, SequenceInv
<1>9. CASE UNCHANGED vars
    BY <1>5, <1>9 DEF vars
<1> QED
    BY <1>1, <1>2, <1>3, <1>4, <1>6, <1>7, <1>8, <1>9 DEF Next

TransactionType == [type : 0 .. 255, number : [DOMAIN CompactMax -> Nat], parts : Seq(Part)]

-----------------------------------------------------------------------------
\* The layouts of the transactions.

\* The names of the fields of each; a spawn of several keys has them at its end.
SpendNames ==
    <<"genesisId", "tx_version", "principal", "methodSelector", "nonce", "gas_price", "destination", "amount">>

DrainNames ==
    <<"genesisId", "tx_version", "principal", "methodSelector", "nonce", "gas_price", "vault", "destination",
      "amount">>

WalletNames ==
    <<"genesisId", "tx_version", "principal", "methodSelector", "account_template", "nonce", "gas_price",
      "walletPubkey">>

VaultNames ==
    <<"genesisId", "tx_version", "principal", "methodSelector", "account_template", "nonce",
      "gas_price", "owner", "totalAmount", "initialUnlockAmount", "vestingStart", "vestingEnd">>

MultisigNames ==
    <<"genesisId", "tx_version", "principal", "methodSelector", "account_template", "nonce",
      "gas_price", "approvers", "numberOfPubkeys">>

\* The place of the first fields of any transaction.
LEMMA AtHeader ==
    ASSUME NEW m, NEW t, NEW c
    PROVE  /\ At(1, m, t, c) = Single("genesisId") /\ At(2, m, t, c) = Single("tx_version")
           /\ At(3, m, t, c) = Single("principal") /\ At(4, m, t, c) = Single("methodSelector")
BY HeaderType DEF At, Single

\* The place of the first fields of a spawn.
LEMMA AtSpawn ==
    ASSUME NEW m, m = METHOD_SPAWN, NEW t, NEW c
    PROVE  /\ At(5, m, t, c) = Single("account_template") /\ At(6, m, t, c) = Single("nonce")
           /\ At(7, m, t, c) = Single("gas_price")
BY MethodFieldsAt DEF At

\* The fields of a spend in their places.
LEMMA LayoutSpend ==
    ASSUME NEW t, NEW c, NEW list, list = Fields(SpendNames)
    PROVE  /\ Len(list) = 8 /\ Known(9, METHOD_SPEND, t, c) = 8
           /\ \A k \in 1 .. 8 : list[k] = At(k, METHOD_SPEND, t, c)
<1> DEFINE names == SpendNames
           m == METHOD_SPEND
<1>1. names \in Seq(FieldName) /\ Len(names) = 8
    BY Names DEF FieldNames, SpendNames
<1>2. /\ names[1] = "genesisId" /\ names[2] = "tx_version" /\ names[3] = "principal"
      /\ names[4] = "methodSelector" /\ names[5] = "nonce" /\ names[6] = "gas_price"
      /\ names[7] = "destination" /\ names[8] = "amount"
    BY DEF SpendNames
<1>3. list = Fields(names)
    OBVIOUS
<1> HIDE DEF names
<1>4. Len(list) = 8 /\ \A k \in 1 .. 8 : list[k] = Single(names[k])
    BY <1>1, <1>3, FieldsType DEF Single
<1>5. /\ At(5, m, t, c) = Single("nonce") /\ At(6, m, t, c) = Single("gas_price")
      /\ At(7, m, t, c) = Single("destination") /\ At(8, m, t, c) = Single("amount")
    BY MethodFieldsAt DEF At, METHOD_SPAWN, METHOD_SPEND
<1>6. Known(9, m, t, c) = 8
    <2>1. m # METHOD_SPAWN
        BY DEF METHOD_SPAWN, METHOD_SPEND
    <2> HIDE DEF m
    <2>2. Known(9, m, t, c) = 4 + Len(MethodFields(m))
        BY <2>1 DEF Known
    <2>3. Len(MethodFields(m)) = 4
        BY MethodFieldsAt DEF m
    <2> QED
        BY <2>2, <2>3
<1>7. ASSUME NEW k \in 1 .. 8 PROVE list[k] = At(k, m, t, c)
    <2>1. k = 1 \/ k = 2 \/ k = 3 \/ k = 4 \/ k = 5 \/ k = 6 \/ k = 7 \/ k = 8
        OBVIOUS
    <2> HIDE DEF m
    <2> QED
        BY <1>2, <1>4, <1>5, <2>1, AtHeader
<1> QED
    BY <1>4, <1>6, <1>7

\* The same for a drain of a vault.
LEMMA LayoutDrain ==
    ASSUME NEW t, NEW c, NEW list, list = Fields(DrainNames)
    PROVE  /\ Len(list) = 9 /\ Known(9, METHOD_DRAIN_VAULT, t, c) = 9
           /\ \A k \in 1 .. 9 : list[k] = At(k, METHOD_DRAIN_VAULT, t, c)
<1> DEFINE names == DrainNames
           m == METHOD_DRAIN_VAULT
<1>1. names \in Seq(FieldName) /\ Len(names) = 9
    BY Names DEF FieldNames, DrainNames
<1>2. /\ names[1] = "genesisId" /\ names[2] = "tx_version" /\ names[3] = "principal"
      /\ names[4] = "methodSelector" /\ names[5] = "nonce" /\ names[6] = "gas_price"
      /\ names[7] = "vault" /\ names[8] = "destination" /\ names[9] = "amount"
    BY DEF DrainNames
<1>3. list = Fields(names)
    OBVIOUS
<1> HIDE DEF names
<1>4. Len(list) = 9 /\ \A k \in 1 .. 9 : list[k] = Single(names[k])
    BY <1>1, <1>3, FieldsType DEF Single
<1>5. /\ At(5, m, t, c) = Single("nonce") /\ At(6, m, t, c) = Single("gas_price")
      /\ At(7, m, t, c) = Single("vault") /\ At(8, m, t, c) = Single("destination")
      /\ At(9, m, t, c) = Single("amount")
    BY MethodFieldsAt DEF At, METHOD_SPAWN, METHOD_DRAIN_VAULT
<1>6. Known(9, m, t, c) = 9
    <2>1. m # METHOD_SPAWN
        BY DEF METHOD_SPAWN, METHOD_DRAIN_VAULT
    <2> HIDE DEF m
    <2>2. Known(9, m, t, c) = 4 + Len(MethodFields(m))
        BY <2>1 DEF Known
    <2>3. Len(MethodFields(m)) = 5
        BY MethodFieldsAt DEF m
    <2> QED
        BY <2>2, <2>3
<1>7. ASSUME NEW k \in 1 .. 9 PROVE list[k] = At(k, m, t, c)
    <2>1. k = 1 \/ k = 2 \/ k = 3 \/ k = 4 \/ k = 5 \/ k = 6 \/ k = 7 \/ k = 8 \/ k = 9
        OBVIOUS
    <2> HIDE DEF m
    <2> QED
        BY <1>2, <1>4, <1>5, <2>1, AtHeader
<1> QED
    BY <1>4, <1>6, <1>7

\* The same for the spawn of a wallet.
LEMMA LayoutWallet ==
    ASSUME NEW c, NEW list, list = Fields(WalletNames)
    PROVE  /\ Len(list) = 8 /\ Known(9, METHOD_SPAWN, WALLET, c) = 8
           /\ \A k \in 1 .. 8 : list[k] = At(k, METHOD_SPAWN, WALLET, c)
<1> DEFINE names == WalletNames
           m == METHOD_SPAWN
           t == WALLET
<1>1. names \in Seq(FieldName) /\ Len(names) = 8
    BY Names DEF FieldNames, WalletNames
<1>2. /\ names[1] = "genesisId" /\ names[2] = "tx_version" /\ names[3] = "principal"
      /\ names[4] = "methodSelector" /\ names[5] = "account_template" /\ names[6] = "nonce"
      /\ names[7] = "gas_price" /\ names[8] = "walletPubkey"
    BY DEF WalletNames
<1>3. list = Fields(names)
    OBVIOUS
<1> HIDE DEF names
<1>4. Len(list) = 8 /\ \A k \in 1 .. 8 : list[k] = Single(names[k])
    BY <1>1, <1>3, FieldsType DEF Single
<1>5. At(8, m, t, c) = Single("walletPubkey")
    BY SpawnFieldsAt DEF At, WALLET, MULTISIG, VESTING
<1>6. Known(9, m, t, c) = 8
    <2>1. m = METHOD_SPAWN /\ t \notin {MULTISIG, VESTING}
        BY DEF WALLET, MULTISIG, VESTING
    <2> HIDE DEF m, t
    <2>2. Known(9, m, t, c) = 7 + Len(SpawnFields(t))
        BY <2>1 DEF Known
    <2>3. Len(SpawnFields(t)) = 1
        BY SpawnFieldsAt DEF m, t
    <2> QED
        BY <2>2, <2>3
<1>7. ASSUME NEW k \in 1 .. 8 PROVE list[k] = At(k, m, t, c)
    <2>1. k = 1 \/ k = 2 \/ k = 3 \/ k = 4 \/ k = 5 \/ k = 6 \/ k = 7 \/ k = 8
        OBVIOUS
    <2>2. m = METHOD_SPAWN
        OBVIOUS
    <2> HIDE DEF m, t
    <2> QED
        BY <1>2, <1>4, <1>5, <2>1, <2>2, AtHeader, AtSpawn
<1> QED
    BY <1>4, <1>6, <1>7

\* The same for the spawn of a vault.
LEMMA LayoutVault ==
    ASSUME NEW c, NEW list, list = Fields(VaultNames)
    PROVE  /\ Len(list) = 12 /\ Known(9, METHOD_SPAWN, VAULT, c) = 12
           /\ \A k \in 1 .. 12 : list[k] = At(k, METHOD_SPAWN, VAULT, c)
<1> DEFINE names == VaultNames
           m == METHOD_SPAWN
           t == VAULT
<1>1. names \in Seq(FieldName) /\ Len(names) = 12
    BY Names DEF FieldNames, VaultNames
<1>2. /\ names[1] = "genesisId" /\ names[2] = "tx_version" /\ names[3] = "principal"
      /\ names[4] = "methodSelector" /\ names[5] = "account_template" /\ names[6] = "nonce"
      /\ names[7] = "gas_price" /\ names[8] = "owner" /\ names[9] = "totalAmount"
      /\ names[10] = "initialUnlockAmount" /\ names[11] = "vestingStart" /\ names[12] = "vestingEnd"
    BY DEF VaultNames
<1>3. list = Fields(names)
    OBVIOUS
<1> HIDE DEF names
<1>4. Len(list) = 12 /\ \A k \in 1 .. 12 : list[k] = Single(names[k])
    BY <1>1, <1>3, FieldsType DEF Single
<1>5. /\ At(8, m, t, c) = Single("owner") /\ At(9, m, t, c) = Single("totalAmount")
      /\ At(10, m, t, c) = Single("initialUnlockAmount") /\ At(11, m, t, c) = Single("vestingStart")
      /\ At(12, m, t, c) = Single("vestingEnd")
    BY SpawnFieldsAt DEF At, VAULT, MULTISIG, VESTING
<1>6. Known(9, m, t, c) = 12
    <2>1. m = METHOD_SPAWN /\ t \notin {MULTISIG, VESTING}
        BY DEF VAULT, MULTISIG, VESTING
    <2> HIDE DEF m, t
    <2>2. Known(9, m, t, c) = 7 + Len(SpawnFields(t))
        BY <2>1 DEF Known
    <2>3. Len(SpawnFields(t)) = 5
        BY SpawnFieldsAt DEF m, t
    <2> QED
        BY <2>2, <2>3
<1>7. ASSUME NEW k \in 1 .. 12 PROVE list[k] = At(k, m, t, c)
    <2>1. \/ k = 1 \/ k = 2 \/ k = 3 \/ k = 4 \/ k = 5 \/ k = 6 \/ k = 7 \/ k = 8 \/ k = 9
          \/ k = 10 \/ k = 11 \/ k = 12
        OBVIOUS
    <2>2. m = METHOD_SPAWN
        OBVIOUS
    <2> HIDE DEF m, t
    <2> QED
        BY <1>2, <1>4, <1>5, <2>1, <2>2, AtHeader, AtSpawn
<1> QED
    BY <1>4, <1>6, <1>7

\* The same for the spawn of an account of several keys.
LEMMA LayoutMultisig ==
    ASSUME NEW t \in {MULTISIG, VESTING}, NEW c \in Nat, NEW list, list = Fields(MultisigNames) \o KeyFields(c)
    PROVE  /\ Len(list) = 9 + c /\ Known(9, METHOD_SPAWN, t, c) = 9 + c
           /\ \A k \in 1 .. 9 + c : list[k] = At(k, METHOD_SPAWN, t, c)
<1> DEFINE m == METHOD_SPAWN
           names == MultisigNames
           front == Fields(MultisigNames)
           keys == KeyFields(c)
<1>1. names \in Seq(FieldName) /\ Len(names) = 9
    BY Names DEF FieldNames, MultisigNames
<1>2. /\ names[1] = "genesisId" /\ names[2] = "tx_version" /\ names[3] = "principal"
      /\ names[4] = "methodSelector" /\ names[5] = "account_template" /\ names[6] = "nonce"
      /\ names[7] = "gas_price" /\ names[8] = "approvers" /\ names[9] = "numberOfPubkeys"
    BY DEF MultisigNames
<1> HIDE DEF names
<1>4. front \in Seq(Field) /\ Len(front) = 9 /\ \A k \in 1 .. 9 : front[k] = Single(names[k])
    BY <1>1, FieldsType DEF Single, names
<1>5. keys \in Seq(Field) /\ Len(keys) = c
    BY KeyFieldsType
<1>6. list = front \o keys
    OBVIOUS
<1> HIDE DEF front, keys
<1>7. /\ Len(list) = 9 + c
      /\ \A k \in 1 .. 9 + c : list[k] = IF k <= 9 THEN front[k] ELSE keys[k - 9]
    <2>1. front \in Seq(Field) /\ keys \in Seq(Field) /\ Len(front) = 9 /\ Len(keys) = c
        BY <1>4, <1>5
    <2>2. /\ Len(front \o keys) = Len(front) + Len(keys)
          /\ \A k \in 1 .. Len(front) + Len(keys) :
                (front \o keys)[k] = IF k <= Len(front) THEN front[k] ELSE keys[k - Len(front)]
        BY ONLY <2>1, ConcatProperties
    <2> QED
        BY <1>6, <2>1, <2>2
<1>8. At(8, m, t, c) = Single("approvers") /\ At(9, m, t, c) = Single("numberOfPubkeys")
    BY SpawnFieldsAt DEF At
<1>9. Known(9, m, t, c) = 9 + c
    BY DEF Known
<1>10. ASSUME NEW k \in 1 .. 9 + c PROVE list[k] = At(k, m, t, c)
    <2>1. CASE k > 9
        <3>1. list[k] = KeyFields(c)[k - 9]
            BY <1>7, <2>1 DEF keys
        <3>2. At(k, m, t, c) = KeyFields(c)[k - 9]
            BY <2>1 DEF At
        <3> QED
            BY <3>1, <3>2
    <2>2. CASE k <= 9
        <3>1. k = 1 \/ k = 2 \/ k = 3 \/ k = 4 \/ k = 5 \/ k = 6 \/ k = 7 \/ k = 8 \/ k = 9
            BY <2>2
        <3>2. m = METHOD_SPAWN /\ k \in 1 .. 9
            BY <2>2
        <3>3. list[k] = Single(names[k])
            BY <1>4, <1>7, <2>2, <3>2
        <3> HIDE DEF m
        <3> QED
            BY <1>2, <1>8, <3>1, <3>2, <3>3, AtHeader, AtSpawn
    <2>3. k <= 9 \/ k > 9
        OBVIOUS
    <2> QED
        BY <2>1, <2>2, <2>3
<1> QED
    BY <1>7, <1>9, <1>10

\* The layout of a transaction is its fields by their places.
LEMMA LayoutAt ==
    ASSUME NEW t \in TransactionType, Meaningful(t)
    PROVE  LET m == t.number["methodSelector"] c == t.number["numberOfPubkeys"] IN
           /\ m \in Methods /\ c \in Nat
           /\ m = METHOD_SPAWN => t.type \in {WALLET, MULTISIG, VESTING, VAULT}
           /\ Len(Layout(t)) = Known(9, m, t.type, c)
           /\ \A k \in 1 .. Len(Layout(t)) : Layout(t)[k] = At(k, m, t.type, c)
<1> DEFINE m == t.number["methodSelector"]
           c == t.number["numberOfPubkeys"]
           type == t.type
<1>1. c \in Nat
    <2>1. "numberOfPubkeys" \in DOMAIN CompactMax
        BY DEF CompactMax
    <2> QED
        BY <2>1 DEF TransactionType
<1>2. m \in Methods /\ (m = METHOD_SPAWN => type \in {WALLET, MULTISIG, VESTING, VAULT})
    BY DEF Meaningful, Methods, METHOD_SPAWN, METHOD_SPEND, METHOD_DRAIN_VAULT
<1> DEFINE Placed(list) ==
            /\ Len(list) = Known(9, m, type, c)
            /\ \A k \in 1 .. Len(list) : list[k] = At(k, m, type, c)
<1> SUFFICES ASSUME NEW list, list = Layout(t) PROVE Placed(list)
    BY <1>1, <1>2
<1>3. CASE m = METHOD_SPEND
    <2>1. list = Fields(SpendNames)
        BY <1>3 DEF Layout, SpendNames, METHOD_SPAWN, METHOD_SPEND, METHOD_DRAIN_VAULT
    <2>2. /\ Len(list) = 8 /\ Known(9, METHOD_SPEND, type, c) = 8
          /\ \A k \in 1 .. 8 : list[k] = At(k, METHOD_SPEND, type, c)
        BY ONLY <2>1, LayoutSpend
    <2> HIDE DEF m, type, c
    <2> QED
        BY <1>3, <2>2
<1>4. CASE m = METHOD_DRAIN_VAULT
    <2>1. list = Fields(DrainNames)
        BY <1>4 DEF Layout, DrainNames, METHOD_SPAWN, METHOD_SPEND, METHOD_DRAIN_VAULT
    <2>2. /\ Len(list) = 9 /\ Known(9, METHOD_DRAIN_VAULT, type, c) = 9
          /\ \A k \in 1 .. 9 : list[k] = At(k, METHOD_DRAIN_VAULT, type, c)
        BY ONLY <2>1, LayoutDrain
    <2> HIDE DEF m, type, c
    <2> QED
        BY <1>4, <2>2
<1>5. CASE m = METHOD_SPAWN /\ type = WALLET
    <2>1. list = Fields(WalletNames)
        BY <1>5 DEF Layout, WalletNames, METHOD_SPAWN, METHOD_SPEND, METHOD_DRAIN_VAULT, WALLET, MULTISIG, VESTING, VAULT
    <2>2. /\ Len(list) = 8 /\ Known(9, METHOD_SPAWN, WALLET, c) = 8
          /\ \A k \in 1 .. 8 : list[k] = At(k, METHOD_SPAWN, WALLET, c)
        BY ONLY <2>1, LayoutWallet
    <2> HIDE DEF m, type, c
    <2> QED
        BY <1>5, <2>2
<1>6. CASE m = METHOD_SPAWN /\ type = VAULT
    <2>1. list = Fields(VaultNames)
        BY <1>6 DEF Layout, VaultNames, METHOD_SPAWN, METHOD_SPEND, METHOD_DRAIN_VAULT, WALLET, MULTISIG, VESTING, VAULT
    <2>2. /\ Len(list) = 12 /\ Known(9, METHOD_SPAWN, VAULT, c) = 12
          /\ \A k \in 1 .. 12 : list[k] = At(k, METHOD_SPAWN, VAULT, c)
        BY ONLY <2>1, LayoutVault
    <2> HIDE DEF m, type, c
    <2> QED
        BY <1>6, <2>2
<1>7. CASE m = METHOD_SPAWN /\ type \in {MULTISIG, VESTING}
    <2>1. list = Fields(MultisigNames) \o [k \in 1 .. c |-> [name |-> "pubkey", key |-> k - 1]]
        <3>1. m = METHOD_SPAWN /\ m # METHOD_SPEND /\ m # METHOD_DRAIN_VAULT /\ type # WALLET /\ type # VAULT
            BY <1>7 DEF METHOD_SPAWN, METHOD_SPEND, METHOD_DRAIN_VAULT, WALLET, MULTISIG, VESTING, VAULT
        <3> QED
            BY <1>7, <3>1, Zenon DEF Layout, MultisigNames
    <2>2. KeyFields(c) = [k \in 1 .. c |-> [name |-> "pubkey", key |-> k - 1]]
        BY DEF KeyFields
    <2> HIDE DEF m, type, c
    <2>3. list = Fields(MultisigNames) \o KeyFields(c) /\ type \in {MULTISIG, VESTING} /\ c \in Nat
        BY ONLY <1>1, <1>7, <2>1, <2>2
    <2>4. /\ Len(list) = 9 + c /\ Known(9, METHOD_SPAWN, type, c) = 9 + c
          /\ \A k \in 1 .. 9 + c : list[k] = At(k, METHOD_SPAWN, type, c)
        BY ONLY <2>3, LayoutMultisig
    <2> QED
        BY <1>7, <2>4
<1> QED
    BY <1>2, <1>3, <1>4, <1>5, <1>6, <1>7 DEF Methods

\* Once as many are read as are known, the transaction is whole.
LEMMA KnownWhole ==
    ASSUME NEW n \in Nat, NEW m, NEW t, NEW c \in Nat, n >= 4 => m \in Methods
    PROVE  /\ n = Known(n, m, t, c) => n = Known(9, m, t, c)
           /\ m \in Methods => Known(n, m, t, c) <= Known(9, m, t, c) /\ Known(9, m, t, c) \in Nat
<1>1. Len(SpawnFields(t)) \in Nat
    BY SpawnFieldsType
<1>2. m \in Methods => Len(MethodFields(m)) \in Nat
    BY MethodFieldsAt DEF Methods
<1>3. n = Known(n, m, t, c) => n = Known(9, m, t, c)
    BY <1>1, <1>2 DEF Known
<1>4. m \in Methods => Known(n, m, t, c) <= Known(9, m, t, c) /\ Known(9, m, t, c) \in Nat
    BY <1>1, <1>2 DEF Known
<1> QED
    BY <1>3, <1>4

-----------------------------------------------------------------------------
\* What is on screen is a transaction.

\* What was read lies before the cursor.
WithinInv == pc \in {"read", "validate", "review"} => \A k \in 1 .. Len(read) : read[k].ptr + read[k].len <= offset

\* Nothing is claimed before the first upload.
LEMMA InitWithin == Init => WithinInv
BY DEF Init, WithinInv

\* One more field lies before the cursor that moves behind it.
LEMMA WithinStep ==
    ASSUME IInv, WithinInv, pc = "read", NEW size \in Nat, NEW field \in Field, offset' = offset + size,
           read' = Append(read, [field |-> field, ptr |-> offset, len |-> size])
    PROVE  WithinInv'
<1> DEFINE entry == [field |-> field, ptr |-> offset, len |-> size]
<1>1. read \in Seq(Part) /\ offset \in Nat /\ read' = Append(read, entry)
    BY DEF IInv, TypeOK
<1>2. entry \in Part /\ entry.ptr = offset /\ entry.len = size
    BY <1>1 DEF Part
<1> HIDE DEF entry
<1>3. /\ Len(read) \in Nat /\ Len(read') = Len(read) + 1 /\ read'[Len(read) + 1] = entry
      /\ \A k \in 1 .. Len(read) : read'[k] = read[k]
    BY <1>1, <1>2
<1>4. ASSUME NEW k \in 1 .. Len(read') PROVE read'[k].ptr + read'[k].len <= offset'
    <2>1. CASE k = Len(read) + 1
        BY <1>1, <1>2, <1>3, <2>1
    <2>2. CASE k # Len(read) + 1
        <3>1. k \in 1 .. Len(read)
            BY <1>3, <2>2
        <3>2. read[k] \in Part
            BY <1>1, <3>1, ElementOfSeq
        <3>3. read[k].ptr + read[k].len <= offset
            BY <3>1 DEF WithinInv
        <3>4. read[k].ptr \in Nat /\ read[k].len \in Nat
            BY <3>2 DEF Part
        <3> QED
            BY <1>1, <1>3, <3>1, <3>3, <3>4
    <2> QED
        BY <2>1, <2>2
<1> QED
    BY <1>4 DEF WithinInv

\* Every step keeps it.
LEMMA NextWithin == IInv /\ WithinInv /\ [Next]_vars => WithinInv'
<1> SUFFICES ASSUME IInv, WithinInv, [Next]_vars PROVE WithinInv'
    OBVIOUS
<1>0. TypeOK
    BY DEF IInv
<1>1. ASSUME NEW upload \in Payloads, Receive(upload) PROVE WithinInv'
    <2>1. Len(read') = 0
        BY <1>1 DEF Receive
    <2> QED
        BY <2>1 DEF WithinInv
<1>2. CASE ReadBytes
    <2>1. pc = "read" /\ pc' \in {"read", "refused"}
        BY <1>2 DEF ReadBytes, ReadNext, Refuse
    <2>2. CASE pc' = "read"
        BY <1>0, <1>2, <2>1, <2>2, ReadBytesSteps, WithinStep
    <2> QED
        BY <2>1, <2>2 DEF WithinInv
<1>3. CASE ReadCompact
    <2>1. pc = "read" /\ pc' \in {"read", "refused"}
        BY <1>3 DEF ReadCompact, ReadNext, Refuse
    <2>2. CASE pc' = "read"
        <3> DEFINE field == Head(todo)
                   size == compactLen(payload[offset + 1])
        <3>1. /\ field \in Field /\ size \in Nat /\ offset' = offset + size
              /\ read' = Append(read, [field |-> field, ptr |-> offset, len |-> size])
            BY <1>0, <1>3, <2>2, ReadCompactSteps
        <3> HIDE DEF field, size
        <3> QED
            BY <2>1, <3>1, WithinStep
    <2> QED
        BY <2>1, <2>2 DEF WithinInv
<1>4. ASSUME UNCHANGED <<offset, read>>,
             pc' \in {"read", "validate", "review"} => pc \in {"read", "validate", "review"}
      PROVE  WithinInv'
    BY <1>4 DEF WithinInv
<1>5. CASE ToggleExpert
    BY <1>4, <1>5 DEF ToggleExpert
<1>6. CASE ReadEnd
    BY <1>4, <1>6 DEF ReadEnd
<1>7. CASE Validate
    BY <1>4, <1>7 DEF Validate
<1>8. CASE Answer
    BY <1>8 DEF Answer, WithinInv
<1>9. CASE UNCHANGED vars
    BY <1>4, <1>9 DEF vars
<1> QED
    BY <1>1, <1>2, <1>3, <1>5, <1>6, <1>7, <1>8, <1>9 DEF Next

\* The account of a spawn on screen is of a type.
LEMMA ReviewType ==
    ASSUME IInv, CompleteInv, pc = "review", Method = METHOD_SPAWN
    PROVE  Type \in {WALLET, MULTISIG, VESTING, VAULT}
<1>1. tx.account_type \in {UNKNOWN, WALLET, MULTISIG, VESTING, VAULT}
    BY DEF IInv, TypeOK
<1>2. tx.account_type # UNKNOWN
    <2> SUFFICES ASSUME tx.account_type = UNKNOWN PROVE FALSE
        OBVIOUS
    <2>1. numItems(tx, expert) = 0
        BY DEF numItems, Method, METHOD_SPAWN, METHOD_SPEND, METHOD_DRAIN_VAULT, UNKNOWN, WALLET, MULTISIG,
               VESTING, VAULT
    <2> QED
        BY <2>1, ReviewScreens
<1> QED
    BY <1>1, <1>2 DEF Type

\* The settings on screen make sense.
LEMMA ReviewMeaningful ==
    ASSUME IInv, CompleteInv, SequenceInv, pc = "review"
    PROVE  Meaningful(Reading)
<1>1. Method \in Methods
    BY ReviewFields DEF Methods
<1>2. Method = METHOD_SPAWN => Type \in {WALLET, MULTISIG, VESTING, VAULT}
    BY ReviewType
<1>3. Checked /\ tx.number["numberOfPubkeys"] <= MAX_MULTISIG_PUB_KEY
    BY DEF SequenceInv, IInv
<1>4. IsRead("tx_version")
    <2>1. SpawnNames = {"genesisId", "tx_version", "principal", "methodSelector", "account_template", "nonce",
                        "gas_price"}
        BY DEF SpawnNames
    <2>2. CASE Method = METHOD_SPEND
        BY <2>2, ReviewFields, SinglesNames DEF IsRead
    <2>3. CASE Method = METHOD_DRAIN_VAULT
        BY <2>3, ReviewFields, SinglesNames DEF IsRead
    <2>4. CASE Method = METHOD_SPAWN
        BY <1>2, <2>1, <2>4, ReviewFields, SinglesNames DEF IsRead, Type
    <2> QED
        BY <1>1, <2>2, <2>3, <2>4 DEF Methods
<1>5. Method = METHOD_SPAWN /\ Type \in {MULTISIG, VESTING} => IsRead("numberOfPubkeys")
    BY ReviewFields, SinglesNames DEF IsRead, Type
<1>6. Method = METHOD_SPAWN /\ Type = VAULT => IsRead("initialUnlockAmount") /\ IsRead("vestingEnd")
    BY ReviewFields, SinglesNames DEF IsRead, Type
<1>7. Reading.number = tx.number /\ Reading.type = Type
    BY DEF Reading, Type
<1>8. tx.number["tx_version"] = TX_VERSION
    BY <1>3, <1>4 DEF Checked
<1>9. Method = METHOD_SPAWN /\ Type \in {MULTISIG, VESTING} =>
        tx.number["approvers"] <= tx.number["numberOfPubkeys"]
    BY <1>3, <1>5 DEF Checked
<1>10. Method = METHOD_SPAWN /\ Type \in {VAULT} =>
        /\ tx.number["initialUnlockAmount"] <= tx.number["totalAmount"]
        /\ tx.number["vestingStart"] <= tx.number["vestingEnd"]
    BY <1>3, <1>6 DEF Checked
<1> HIDE DEF Reading
<1> QED
    BY <1>1, <1>2, <1>3, <1>7, <1>8, <1>9, <1>10 DEF Meaningful, Method, Methods

\* A field on screen holds its number, or its bytes.
LEMMA ReviewEncodes ==
    ASSUME IInv, CompleteInv, SequenceInv, pc = "review", NEW k \in 1 .. Len(read)
    PROVE  Encodes(payload, read[k], Reading)
<1> SUFFICES ASSUME NEW r, r = read[k] PROVE Encodes(payload, r, Reading)
    OBVIOUS
<1>1. read \in Seq(Part) /\ Tiles /\ Checked
    BY DEF IInv, TypeOK, SequenceInv
<1>2. r \in Part
    BY <1>1, ElementOfSeq
<1>3. Holds(tx, payload, r) /\ Sized(payload, r)
    BY <1>1 DEF Tiles, Checked
<1>4. Reading.number = tx.number /\ Reading.type = tx.account_type
    BY DEF Reading
<1>5. r.field.name = "account_template" => payload[r.ptr + r.len] = tx.account_type
    <2> SUFFICES ASSUME r.field.name = "account_template" PROVE payload[r.ptr + r.len] = tx.account_type
        OBVIOUS
    <2>1. r.field \in ReadFields
        BY DEF ReadFields
    <2>2. Method = METHOD_SPAWN
        <3> SUFFICES ASSUME Method # METHOD_SPAWN PROVE FALSE
            OBVIOUS
        <3>1. Method = METHOD_SPEND \/ Method = METHOD_DRAIN_VAULT
            BY ReviewFields
        <3>2. \E X : ReadFields = Singles(X) /\ "account_template" \notin X
            BY <3>1, ReviewFields
        <3>3. PICK X : ReadFields = Singles(X) /\ "account_template" \notin X
            BY <3>2
        <3>4. PICK x \in X : r.field = Single(x)
            BY <2>1, <3>3 DEF Singles
        <3> QED
            BY <3>3, <3>4 DEF Single
    <2>3. tx.account_type # UNKNOWN
        BY <2>2, ReviewType DEF Type, UNKNOWN, WALLET, MULTISIG, VESTING, VAULT
    <2>4. accountType = tx.account_type
        BY <1>1, <2>3 DEF Checked
    <2>5. tx.bytes["account_template"] = [ptr |-> r.ptr, len |-> r.len]
        <3>1. "account_template" \notin DOMAIN CompactMax
            BY DEF CompactMax
        <3> QED
            BY <1>3, <3>1 DEF Holds, HeldBy
    <2> QED
        BY <2>4, <2>5 DEF accountType
<1>6. r.field.name \in DOMAIN CompactMax =>
        tx.number[r.field.name] = getValue(SubSeq(payload, r.ptr + 1, r.ptr + r.len))
    BY <1>3 DEF Holds
<1>7. r.field.name \in DOMAIN CompactMax => tx.number[r.field.name] <= CompactMax[r.field.name]
    BY <1>1 DEF Checked
<1> HIDE DEF Reading
<1> QED
    BY <1>3, <1>4, <1>5, <1>6, <1>7 DEF Encodes, Sized

\* What is on screen is a transaction.
LEMMA ReviewIsTransaction ==
    ASSUME IInv, CompleteInv, SequenceInv, WithinInv, pc = "review"
    PROVE  IsTransaction(payload, Reading)
<1> DEFINE n == Len(read)
<1>1. /\ read \in Seq(Part) /\ offset = Len(payload) /\ read # <<>> /\ Tiles /\ Sequenced
      /\ tx \in TxType /\ todo = <<>>
    BY DEF IInv, TypeOK, TxType, SequenceInv, CompleteInv
<1>2. Reading \in TransactionType /\ Reading.parts = read
    <2>1. tx.account_type \in 0 .. 255 /\ tx.number \in [DOMAIN CompactMax -> Nat]
        BY <1>1 DEF TxType, UNKNOWN, WALLET, MULTISIG, VESTING, VAULT
    <2> QED
        BY <1>1, <2>1 DEF Reading, TransactionType
<1>3. Meaningful(Reading)
    BY ReviewMeaningful
<1>4. /\ Method \in Methods /\ Count \in Nat
      /\ Len(Layout(Reading)) = Known(9, Method, Type, Count)
      /\ \A k \in 1 .. Len(Layout(Reading)) : Layout(Reading)[k] = At(k, Method, Type, Count)
    <2>1. Reading.number = tx.number /\ Reading.type = Type
        BY DEF Reading, Type
    <2> HIDE DEF Reading
    <2> QED
        BY <1>2, <1>3, <2>1, LayoutAt DEF Method, Count
<1>5. n \in Nat /\ n = Known(n, Method, Type, Count)
    <2>1. n \in Nat /\ Len(todo) = 0 /\ n + Len(todo) = Known(n, Method, Type, Count)
        BY <1>1 DEF Sequenced
    <2> HIDE DEF n
    <2> QED
        BY <2>1
<1>6. n = Len(Layout(Reading))
    <2> HIDE DEF n, Reading
    <2> QED
        BY <1>4, <1>5, KnownWhole
<1>7. ASSUME NEW k \in 1 .. n
      PROVE  /\ read[k].field = Layout(Reading)[k]
             /\ k = 1 => read[k].ptr = 0
             /\ read[k].ptr + read[k].len <= Len(payload)
             /\ read[k].ptr + read[k].len = IF k = n THEN Len(payload) ELSE read[k + 1].ptr
             /\ Encodes(payload, read[k], Reading)
    <2>1. read[k].field = Layout(Reading)[k]
        <3>1. read[k].field = At(k, Method, Type, Count)
            BY <1>1 DEF Sequenced
        <3> HIDE DEF n, Reading
        <3> QED
            BY <1>4, <1>6, <3>1
    <2>2. k = 1 => read[k].ptr = 0
        BY <1>1 DEF Tiles
    <2>3. read[k].ptr + read[k].len <= Len(payload)
        BY <1>1 DEF WithinInv
    <2>4. read[k].ptr + read[k].len = IF k = n THEN Len(payload) ELSE read[k + 1].ptr
        <3>1. CASE k = n
            BY <1>1, <3>1 DEF Tiles
        <3>2. CASE k # n
            <4>1. k \in 1 .. n - 1
                BY <1>5, <3>2
            <4> QED
                BY <1>1, <3>2, <4>1 DEF Tiles
        <3> QED
            BY <3>1, <3>2
    <2>5. Encodes(payload, read[k], Reading)
        BY ReviewEncodes
    <2> QED
        BY <2>1, <2>2, <2>3, <2>4, <2>5
<1> HIDE DEF Reading
<1> QED
    BY <1>2, <1>3, <1>6, <1>7 DEF IsTransaction

\* A table has an item for each of its indexes.
LEMMA TableHasItems ==
    ASSUME NEW names \in Seq(FieldName), NEW text, text # "none", NEW idx \in 0 .. Len(names)
    PROVE  CaseOf(<<Title(text)>> \o Fields(names), idx) # NoItem
<1> SUFFICES ASSUME NEW item, item = CaseOf(<<Title(text)>> \o Fields(names), idx) PROVE item # NoItem
    OBVIOUS
<1>1. idx \in Nat /\ (idx = 0 \/ idx \in 1 .. Len(names))
    OBVIOUS
<1>2. item = IF idx = 0 THEN Single(text) ELSE IF idx <= Len(names) THEN Single(names[idx]) ELSE NoItem
    BY <1>1, TableItems
<1>3. Single(text).name # "none" /\ NoItem.name = "none"
    BY DEF Single, NoItem
<1>4. CASE idx = 0
    BY <1>2, <1>3, <1>4
<1>5. CASE idx \in 1 .. Len(names)
    <2>1. names[idx] \in FieldNames
        BY <1>5, Names, ElementOfSeq
    <2>2. names[idx] # "none"
        BY <2>1 DEF FieldNames
    <2>3. Single(names[idx]).name # "none"
        BY <2>2 DEF Single
    <2>4. item = Single(names[idx])
        BY <1>2, <1>5
    <2> QED
        BY <1>3, <2>3, <2>4
<1> QED
    BY <1>1, <1>4, <1>5

\* The items of a spend.
LEMMA SpendHasItems == \A idx \in 0 .. 7 : CaseOf(SpendItems, idx) # NoItem
<1> DEFINE names == <<"principal", "destination", "amount", "gas_price", "nonce", "methodSelector", "genesisId">>
           text == "Spend"
<1>1. names \in Seq(FieldName) /\ Len(names) = 7 /\ text # "none"
    BY Names DEF FieldNames
<1>2. SpendItems = <<Title(text)>> \o Fields(names)
    BY DEF SpendItems
<1> HIDE DEF names, text
<1> QED
    BY <1>1, <1>2, TableHasItems

\* Those of a drain.
LEMMA DrainHasItems == \A idx \in 0 .. 8 : CaseOf(DrainItems, idx) # NoItem
<1> DEFINE names == <<"principal", "vault", "destination", "amount", "gas_price", "nonce", "methodSelector",
                      "genesisId">>
           text == "Vault drain"
<1>1. names \in Seq(FieldName) /\ Len(names) = 8
    BY Names DEF FieldNames
<1>2. DrainItems = <<Title(text)>> \o Fields(names) /\ text # "none"
    BY DEF DrainItems
<1> HIDE DEF names, text
<1> QED
    BY <1>1, <1>2, TableHasItems

\* Those of a wallet.
LEMMA WalletHasItems == \A idx \in 0 .. 6 : CaseOf(WalletItems, idx) # NoItem
<1> DEFINE names == <<"principal", "gas_price", "account_template", "nonce", "methodSelector", "genesisId">>
           text == "Wallet spawn"
<1>1. names \in Seq(FieldName) /\ Len(names) = 6
    BY Names DEF FieldNames
<1>2. WalletItems = <<Title(text)>> \o Fields(names) /\ text # "none"
    BY DEF WalletItems
<1> HIDE DEF names, text
<1> QED
    BY <1>1, <1>2, TableHasItems

\* Those of a vault.
LEMMA VaultHasItems == \A idx \in 0 .. 11 : CaseOf(VaultItems, idx) # NoItem
<1> DEFINE names == <<"principal", "gas_price", "owner", "totalAmount", "initialUnlockAmount", "vestingStart",
                      "vestingEnd", "account_template", "nonce", "methodSelector", "genesisId">>
           text == "Vault spawn"
<1>1. names \in Seq(FieldName) /\ Len(names) = 11
    BY Names DEF FieldNames
<1>2. VaultItems = <<Title(text)>> \o Fields(names) /\ text # "none"
    BY DEF VaultItems
<1> HIDE DEF names, text
<1> QED
    BY <1>1, <1>2, TableHasItems

\* Those of an account of several keys, its keys left out.
LEMMA MultisigHasItems ==
    ASSUME NEW type
    PROVE  \A idx \in (0 .. 9) \ {5} : CaseOf(MultisigCases(type), idx) # NoItem
<1> DEFINE text == multisigTitle(type)
<1>1. \A name : name # "none" => Single(name) # NoItem
    <2>1. NoItem.name = "none" /\ \A name : Single(name).name = name
        BY DEF Single, NoItem
    <2> QED
        BY <2>1
<1>2. text # "none" /\ CaseOf(MultisigCases(type), 0) = Single(text)
    BY MultisigCase DEF multisigTitle
<1> HIDE DEF text
<1>3. CaseOf(MultisigCases(type), 0) # NoItem
    BY <1>1, <1>2
<1>4. /\ CaseOf(MultisigCases(type), 1) # NoItem /\ CaseOf(MultisigCases(type), 2) # NoItem
      /\ CaseOf(MultisigCases(type), 3) # NoItem /\ CaseOf(MultisigCases(type), 4) # NoItem
      /\ CaseOf(MultisigCases(type), 6) # NoItem /\ CaseOf(MultisigCases(type), 7) # NoItem
      /\ CaseOf(MultisigCases(type), 8) # NoItem /\ CaseOf(MultisigCases(type), 9) # NoItem
    BY <1>1, MultisigCase
<1>5. \A idx \in (0 .. 9) \ {5} : \/ idx = 0 \/ idx = 1 \/ idx = 2 \/ idx = 3 \/ idx = 4
                                 \/ idx = 6 \/ idx = 7 \/ idx = 8 \/ idx = 9
    OBVIOUS
<1> QED
    BY <1>3, <1>4, <1>5

\* The screens of a known method, and of a known account when it is a spawn, are all there.
LEMMA ScreensPresent ==
    ASSUME TypeOK, tx.number["numberOfPubkeys"] <= MAX_MULTISIG_PUB_KEY, Method \in Methods,
           Method = METHOD_SPAWN => Type \in {WALLET, MULTISIG, VESTING, VAULT}
    PROVE  Screens # <<>> /\ \A idx \in DOMAIN Screens : Screens[idx] # NoItem
<1> DEFINE items == numItems(tx, expert)
           count == tx.number["numberOfPubkeys"]
<1>1. DOMAIN Screens = 0 .. items - 1 /\ \A idx \in 0 .. items - 1 : Screens[idx] = parser_getItem(idx)
    BY DEF Screens
<1>2. items \in 0 .. 127
    BY ItemsOfReview
<1>3. expert \in BOOLEAN /\ count \in Nat
    BY DEF TypeOK, CompactMax
<1>4. items > 0 /\ \A idx \in 0 .. items - 1 : getItem(tx, idx) # NoItem
    <2>1. CASE Method = METHOD_SPEND
        <3>1. items = (IF expert THEN 8 ELSE 5) /\ \A idx : getItem(tx, idx) = CaseOf(SpendItems, idx)
            BY <2>1 DEF numItems, getItem, Method, METHOD_SPAWN, METHOD_SPEND, METHOD_DRAIN_VAULT, WALLET,
                        MULTISIG, VESTING, VAULT
        <3> HIDE DEF items
        <3>2. items > 0 /\ items <= 8 /\ items \in Nat
            BY <1>3, <3>1
        <3> QED
            BY <3>1, <3>2, SpendHasItems
    <2>2. CASE Method = METHOD_DRAIN_VAULT
        <3>1. items = (IF expert THEN 9 ELSE 6) /\ \A idx : getItem(tx, idx) = CaseOf(DrainItems, idx)
            BY <2>2 DEF numItems, getItem, Method, METHOD_SPAWN, METHOD_SPEND, METHOD_DRAIN_VAULT, WALLET,
                        MULTISIG, VESTING, VAULT
        <3> HIDE DEF items
        <3>2. items > 0 /\ items <= 9 /\ items \in Nat
            BY <1>3, <3>1
        <3> QED
            BY <3>1, <3>2, DrainHasItems
    <2>3. CASE Method = METHOD_SPAWN /\ Type = WALLET
        <3>1. items = (IF expert THEN 7 ELSE 3) /\ \A idx : getItem(tx, idx) = CaseOf(WalletItems, idx)
            BY <2>3 DEF numItems, getItem, Method, Type, METHOD_SPAWN, METHOD_SPEND, METHOD_DRAIN_VAULT, WALLET,
                        MULTISIG, VESTING, VAULT
        <3> HIDE DEF items
        <3>2. items > 0 /\ items <= 7 /\ items \in Nat
            BY <1>3, <3>1
        <3> QED
            BY <3>1, <3>2, WalletHasItems
    <2>4. CASE Method = METHOD_SPAWN /\ Type = VAULT
        <3>1. items = (IF expert THEN 12 ELSE 8) /\ \A idx : getItem(tx, idx) = CaseOf(VaultItems, idx)
            BY <2>4 DEF numItems, getItem, Method, Type, METHOD_SPAWN, METHOD_SPEND, METHOD_DRAIN_VAULT, WALLET,
                        MULTISIG, VESTING, VAULT
        <3> HIDE DEF items
        <3>2. items > 0 /\ items <= 12 /\ items \in Nat
            BY <1>3, <3>1
        <3> QED
            BY <3>1, <3>2, VaultHasItems
    <2>5. CASE Method = METHOD_SPAWN /\ Type \in {MULTISIG, VESTING}
        <3>1. items = (IF expert THEN 9 ELSE 5) + 2 * count
            BY <2>5 DEF numItems, Method, Type, METHOD_SPAWN, METHOD_SPEND, METHOD_DRAIN_VAULT, WALLET, MULTISIG,
                        VESTING, VAULT
        <3>2. \A idx : getItem(tx, idx) =
                IF adjustedIdx(idx, count) = 5 THEN KeyItem(idx) ELSE CaseOf(MultisigCases(Type), adjustedIdx(idx, count))
            BY <2>5 DEF getItem, Method, Type, METHOD_SPAWN, METHOD_SPEND, METHOD_DRAIN_VAULT, WALLET, MULTISIG,
                        VESTING, VAULT, pubkeysStart
        <3> HIDE DEF items, count
        <3>3. items > 0 /\ items <= 9 + 2 * count /\ items \in Nat
            BY <1>3, <3>1
        <3>4. ASSUME NEW idx \in 0 .. items - 1 PROVE getItem(tx, idx) # NoItem
            <4>1. adjustedIdx(idx, count) \in 0 .. 9
                BY <1>3, <3>3 DEF adjustedIdx, pubkeysStart
            <4>2. KeyItem(idx).name # "none" /\ NoItem.name = "none"
                BY DEF KeyItem, NoItem
            <4>3. CASE adjustedIdx(idx, count) = 5
                <5>1. getItem(tx, idx) = KeyItem(idx)
                    BY <3>2, <4>3
                <5> QED
                    BY <4>2, <5>1
            <4>4. CASE adjustedIdx(idx, count) # 5
                BY <3>2, <4>1, <4>4, MultisigHasItems
            <4> QED
                BY <4>3, <4>4
        <3> QED
            BY <3>3, <3>4
    <2> QED
        BY <2>1, <2>2, <2>3, <2>4, <2>5 DEF Methods
<1>5. ASSUME NEW idx \in 0 .. items - 1 PROVE parser_getItem(idx) = getItem(tx, idx)
    <2> HIDE DEF items
    <2>1. idx % 256 = idx /\ idx < items
        BY <1>2
    <2> QED
        BY <2>1 DEF parser_getItem, checkSanity, items
<1>6. Screens # <<>>
    <2> HIDE DEF items
    <2>1. 0 \in DOMAIN Screens
        BY <1>1, <1>2, <1>4
    <2>2. DOMAIN <<>> = {}
        OBVIOUS
    <2> QED
        BY <2>1, <2>2
<1> HIDE DEF items
<1> QED
    BY <1>1, <1>4, <1>5, <1>6

-----------------------------------------------------------------------------
\* What a host means is read as it is meant.

\* The numbers that are checked against others come behind them.
LEMMA CheckedPlaces ==
    ASSUME NEW m \in Methods, NEW t, m = METHOD_SPAWN => t \in {WALLET, MULTISIG, VESTING, VAULT},
           NEW c \in Nat, NEW k \in 1 .. Known(9, m, t, c), NEW field, field = At(k, m, t, c)
    PROVE  /\ field.name = "approvers" => m = METHOD_SPAWN /\ t \in {MULTISIG, VESTING}
           /\ field.name = "numberOfPubkeys" =>
                /\ m = METHOD_SPAWN /\ t \in {MULTISIG, VESTING}
                /\ k = 9 /\ At(8, m, t, c) = Single("approvers")
           /\ field.name = "initialUnlockAmount" =>
                /\ m = METHOD_SPAWN /\ t = VAULT
                /\ k = 10 /\ At(9, m, t, c) = Single("totalAmount")
           /\ field.name = "vestingEnd" =>
                /\ m = METHOD_SPAWN /\ t = VAULT
                /\ k = 12 /\ At(11, m, t, c) = Single("vestingStart")
<1>0. \A name : Single(name).name = name
    BY DEF Single
<1>1. CASE k <= 4
    <2>1. k = 1 \/ k = 2 \/ k = 3 \/ k = 4
        BY <1>1
    <2>2. field.name \in {"genesisId", "tx_version", "principal", "methodSelector"}
        BY <1>0, <2>1, AtHeader
    <2> QED
        BY <2>2
<1>2. CASE k > 4 /\ m # METHOD_SPAWN
    <2>1. k - 4 \in 1 .. Len(MethodFields(m)) /\ Len(MethodFields(m)) \in Nat
        BY <1>2, MethodFieldsType DEF Known, Methods
    <2>2. field = MethodFields(m)[k - 4] /\ m \in {METHOD_SPEND, METHOD_DRAIN_VAULT}
        BY <1>2 DEF At, Methods
    <2>3. field.name \in {"nonce", "gas_price", "vault", "destination", "amount"}
        <3>1. CASE m = METHOD_SPEND
            <4>1. k - 4 = 1 \/ k - 4 = 2 \/ k - 4 = 3 \/ k - 4 = 4
                BY <2>1, <3>1, MethodFieldsAt
            <4> QED
                BY <1>0, <2>2, <3>1, <4>1, MethodFieldsAt
        <3>2. CASE m = METHOD_DRAIN_VAULT
            <4>1. k - 4 = 1 \/ k - 4 = 2 \/ k - 4 = 3 \/ k - 4 = 4 \/ k - 4 = 5
                BY <2>1, <3>2, MethodFieldsAt
            <4> QED
                BY <1>0, <2>2, <3>2, <4>1, MethodFieldsAt
        <3> QED
            BY <2>2, <3>1, <3>2
    <2> QED
        BY <2>3
<1>3. CASE k > 4 /\ k <= 7 /\ m = METHOD_SPAWN
    <2>1. k = 5 \/ k = 6 \/ k = 7
        BY <1>3
    <2>2. field.name \in {"account_template", "nonce", "gas_price"}
        BY <1>0, <1>3, <2>1, AtSpawn
    <2> QED
        BY <2>2
<1>4. CASE k > 7 /\ m = METHOD_SPAWN /\ t = WALLET
    <2>1. t \notin {MULTISIG, VESTING}
        BY <1>4 DEF WALLET, MULTISIG, VESTING
    <2>2. k = 8
        BY <1>4, <2>1, SpawnFieldsAt DEF Known
    <2>3. field = SpawnFields(t)[1]
        BY <1>4, <2>1, <2>2 DEF At
    <2>4. field.name = "walletPubkey"
        BY <1>0, <1>4, <2>3, SpawnFieldsAt
    <2> QED
        BY <2>4
<1>5. CASE k > 7 /\ m = METHOD_SPAWN /\ t = VAULT
    <2>1. t \notin {MULTISIG, VESTING}
        BY <1>5 DEF VAULT, MULTISIG, VESTING
    <2>2. k = 8 \/ k = 9 \/ k = 10 \/ k = 11 \/ k = 12
        BY <1>5, <2>1, SpawnFieldsAt DEF Known
    <2>3. /\ At(8, m, t, c) = SpawnFields(t)[1] /\ At(9, m, t, c) = SpawnFields(t)[2]
          /\ At(10, m, t, c) = SpawnFields(t)[3] /\ At(11, m, t, c) = SpawnFields(t)[4]
          /\ At(12, m, t, c) = SpawnFields(t)[5]
        BY <1>5, <2>1 DEF At
    <2>4. /\ At(8, m, t, c) = Single("owner") /\ At(9, m, t, c) = Single("totalAmount")
          /\ At(10, m, t, c) = Single("initialUnlockAmount") /\ At(11, m, t, c) = Single("vestingStart")
          /\ At(12, m, t, c) = Single("vestingEnd")
        BY <1>5, <2>3, SpawnFieldsAt
    <2>5. CASE k = 8
        <3>1. field.name = "owner"
            BY <1>0, <2>4, <2>5
        <3> QED
            BY <3>1
    <2>6. CASE k = 9
        <3>1. field.name = "totalAmount"
            BY <1>0, <2>4, <2>6
        <3> QED
            BY <3>1
    <2>7. CASE k = 10
        <3>1. field.name = "initialUnlockAmount"
            BY <1>0, <2>4, <2>7
        <3> QED
            BY <1>5, <2>4, <2>7, <3>1
    <2>8. CASE k = 11
        <3>1. field.name = "vestingStart"
            BY <1>0, <2>4, <2>8
        <3> QED
            BY <3>1
    <2>9. CASE k = 12
        <3>1. field.name = "vestingEnd"
            BY <1>0, <2>4, <2>9
        <3> QED
            BY <1>5, <2>4, <2>9, <3>1
    <2> QED
        BY <2>2, <2>5, <2>6, <2>7, <2>8, <2>9
<1>6. CASE k > 7 /\ k <= 9 /\ m = METHOD_SPAWN /\ t \in {MULTISIG, VESTING}
    <2>1. k = 8 \/ k = 9
        BY <1>6
    <2>2. At(8, m, t, c) = SpawnFields(t)[1] /\ At(9, m, t, c) = SpawnFields(t)[2]
        BY <1>6 DEF At
    <2>3. At(8, m, t, c) = Single("approvers") /\ At(9, m, t, c) = Single("numberOfPubkeys")
        BY <1>6, <2>2, SpawnFieldsAt
    <2>4. CASE k = 8
        <3>1. field.name = "approvers"
            BY <1>0, <2>3, <2>4
        <3> QED
            BY <1>6, <3>1
    <2>5. CASE k = 9
        <3>1. field.name = "numberOfPubkeys"
            BY <1>0, <2>3, <2>5
        <3> QED
            BY <1>6, <2>3, <2>5, <3>1
    <2> QED
        BY <2>1, <2>4, <2>5
<1>7. CASE k > 9 /\ m = METHOD_SPAWN /\ t \in {MULTISIG, VESTING}
    <2>1. k - 9 \in 1 .. c /\ field = KeyFields(c)[k - 9]
        BY <1>7 DEF Known, At
    <2>2. KeyFields(c)[k - 9] = [name |-> "pubkey", key |-> k - 9 - 1]
        BY <2>1, KeyFieldsType
    <2>3. field.name = "pubkey"
        BY <2>1, <2>2
    <2> QED
        BY <2>3
<1> QED
    BY <1>1, <1>2, <1>3, <1>4, <1>5, <1>6, <1>7

\* What a transaction is, by the places of its fields.
LEMMA TransactionAt ==
    ASSUME NEW upload, NEW t \in Transactions, IsTransaction(upload, t),
           NEW m, m = t.number["methodSelector"], NEW c, c = t.number["numberOfPubkeys"]
    PROVE  /\ t.parts \in Seq(Part) /\ t.number \in [DOMAIN CompactMax -> Nat]
           /\ m \in Methods /\ c \in Nat /\ Meaningful(t)
           /\ m = METHOD_SPAWN => t.type \in {WALLET, MULTISIG, VESTING, VAULT}
           /\ Len(t.parts) = Known(9, m, t.type, c) /\ Len(t.parts) \in Nat /\ Len(t.parts) >= 4
           /\ \A k \in 1 .. Len(t.parts) :
                /\ t.parts[k] \in Part
                /\ t.parts[k].field = At(k, m, t.type, c)
                /\ k = 1 => t.parts[k].ptr = 0
                /\ t.parts[k].ptr + t.parts[k].len <= Len(upload)
                /\ t.parts[k].ptr + t.parts[k].len =
                    IF k = Len(t.parts) THEN Len(upload) ELSE t.parts[k + 1].ptr
                /\ Encodes(upload, t.parts[k], t)
<1>1. t \in TransactionType
    BY TransactionAssumption DEF TransactionType
<1>2. t.parts \in Seq(Part) /\ t.number \in [DOMAIN CompactMax -> Nat]
    BY <1>1 DEF TransactionType
<1>3. Meaningful(t) /\ Len(t.parts) = Len(Layout(t))
    BY DEF IsTransaction
<1>4. /\ m \in Methods /\ c \in Nat
      /\ m = METHOD_SPAWN => t.type \in {WALLET, MULTISIG, VESTING, VAULT}
      /\ Len(Layout(t)) = Known(9, m, t.type, c)
      /\ \A k \in 1 .. Len(Layout(t)) : Layout(t)[k] = At(k, m, t.type, c)
    BY <1>1, <1>3, LayoutAt
<1>5. Known(9, m, t.type, c) >= 4 /\ Known(9, m, t.type, c) \in Nat
    <2>1. Known(0, m, t.type, c) = 4
        BY DEF Known
    <2> QED
        BY <1>4, <2>1, KnownWhole
<1>6. \A k \in 1 .. Len(t.parts) : t.parts[k] \in Part
    BY <1>2, ElementOfSeq
<1> QED
    BY <1>2, <1>3, <1>4, <1>5, <1>6 DEF IsTransaction

\* The parser follows a transaction: it read the first of its fields and is at the next.
Follows(t) ==
    /\ pc # "refused"
    /\ pc \in {"read", "validate", "review"} =>
        /\ Len(read) <= Len(t.parts)
        /\ \A k \in 1 .. Len(read) : read[k] = t.parts[k]
        /\ offset = IF Len(read) = Len(t.parts) THEN Len(payload) ELSE t.parts[Len(read) + 1].ptr
        /\ t.number["methodSelector"] = METHOD_SPAWN /\ Len(read) >= 7 => Type = t.type
    /\ pc \in {"validate", "review"} => Len(read) = Len(t.parts)

FollowsInv == \A t \in Transactions : IsTransaction(payload, t) => Follows(t)

\* The numbers read are the transaction's.
LEMMA NumbersAgree ==
    ASSUME IInv, pc \in {"read", "validate", "review"}, NEW t \in Transactions, IsTransaction(payload, t),
           Follows(t), NEW k \in 1 .. Len(read), NEW name \in DOMAIN CompactMax, t.parts[k].field.name = name
    PROVE  tx.number[name] = t.number[name]
<1>1. Tiles /\ read \in Seq(Part)
    BY DEF IInv, TypeOK
<1>2. Len(read) \in Nat /\ Len(read) <= Len(t.parts) /\ read[k] = t.parts[k]
    BY <1>1 DEF Follows
<1>3. k \in 1 .. Len(t.parts) /\ Encodes(payload, t.parts[k], t)
    BY <1>2, TransactionAt
<1>4. Holds(tx, payload, t.parts[k])
    BY <1>1, <1>2 DEF Tiles
<1>5. tx.number[name] = getValue(SubSeq(payload, t.parts[k].ptr + 1, t.parts[k].ptr + t.parts[k].len))
    BY <1>4 DEF Holds
<1>6. t.number[name] = getValue(SubSeq(payload, t.parts[k].ptr + 1, t.parts[k].ptr + t.parts[k].len))
    BY <1>3 DEF Encodes
<1> QED
    BY <1>5, <1>6

\* What is known of the upload is what is known of the transaction.
LEMMA Following ==
    ASSUME IInv, pc \in {"read", "validate", "review"}, NEW t \in Transactions, IsTransaction(payload, t),
           Follows(t),
           NEW m, m = t.number["methodSelector"], NEW c, c = t.number["numberOfPubkeys"], NEW n, n = Len(read)
    PROVE  /\ n \in Nat /\ n <= Len(t.parts)
           /\ n >= 4 => Method = m
           /\ Known(n, Method, Type, Count) = Known(n, m, t.type, c)
           /\ \A k \in 1 .. Known(n, m, t.type, c) :
                At(k, Method, Type, Count) = At(k, m, t.type, c)
<1>1. n \in Nat /\ n <= Len(t.parts) /\ Count \in Nat
    BY DEF IInv, TypeOK, Follows, Count, CompactMax
<1>2. /\ c \in Nat /\ m \in Methods /\ Len(t.parts) \in Nat
      /\ \A k \in 1 .. Len(t.parts) : t.parts[k].field = At(k, m, t.type, c)
    BY TransactionAt
<1>3. "methodSelector" \in DOMAIN CompactMax /\ "numberOfPubkeys" \in DOMAIN CompactMax
    BY DEF CompactMax
<1>4. n >= 4 => Method = m
    <2> SUFFICES ASSUME n >= 4 PROVE Method = m
        OBVIOUS
    <2>1. 4 \in 1 .. Len(read) /\ 4 \in 1 .. Len(t.parts)
        BY <1>1, <1>2
    <2>2. t.parts[4].field.name = "methodSelector"
        BY <1>2, <2>1, AtHeader DEF Single
    <2> QED
        BY <1>3, <2>1, <2>2, NumbersAgree DEF Method
<1>5. n >= 7 /\ Method = METHOD_SPAWN => Type = t.type
    BY <1>1, <1>4 DEF Follows
<1>6. n >= 9 /\ Method = METHOD_SPAWN /\ Type \in {MULTISIG, VESTING} => Count = c
    <2> SUFFICES ASSUME n >= 9, Method = METHOD_SPAWN, Type \in {MULTISIG, VESTING} PROVE Count = c
        OBVIOUS
    <2>1. 9 \in 1 .. Len(read) /\ 9 \in 1 .. Len(t.parts)
        BY <1>1, <1>2
    <2>2. m = METHOD_SPAWN /\ t.type \in {MULTISIG, VESTING}
        BY <1>1, <1>4, <1>5
    <2>3. t.parts[9].field = SpawnFields(t.type)[2]
        BY <1>2, <2>1, <2>2 DEF At
    <2>4. t.parts[9].field.name = "numberOfPubkeys"
        BY <2>2, <2>3, SpawnFieldsAt DEF Single
    <2> QED
        BY <1>3, <2>1, <2>4, NumbersAgree DEF Count
<1>7. /\ Known(n, Method, Type, Count) = Known(n, m, t.type, c)
      /\ \A k \in 1 .. Known(n, Method, Type, Count) :
            At(k, Method, Type, Count) = At(k, m, t.type, c)
    BY <1>1, <1>2, <1>4, <1>5, <1>6, KnownAgrees
<1> QED
    BY <1>1, <1>4, <1>7

\* The next field is the transaction's next.
LEMMA NextPart ==
    ASSUME IInv, SequenceInv, pc = "read", todo # <<>>, NEW t \in Transactions, IsTransaction(payload, t),
           Follows(t), NEW n, n = Len(read)
    PROVE  /\ n \in Nat /\ n + 1 \in 1 .. Len(t.parts)
           /\ Head(todo) = t.parts[n + 1].field
           /\ offset = t.parts[n + 1].ptr
<1> SUFFICES ASSUME NEW m, m = t.number["methodSelector"], NEW c, c = t.number["numberOfPubkeys"]
             PROVE  /\ n \in Nat /\ n + 1 \in 1 .. Len(t.parts)
                    /\ Head(todo) = t.parts[n + 1].field
                    /\ offset = t.parts[n + 1].ptr
    OBVIOUS
<1>1. Sequenced
    BY DEF SequenceInv
<1>2. /\ n \in Nat /\ Count \in Nat /\ n + 1 \in 1 .. Known(n, Method, Type, Count)
      /\ Head(todo) = At(n + 1, Method, Type, Count)
    BY <1>1, NextIsAt
<1>3. /\ Known(n, Method, Type, Count) = Known(n, m, t.type, c)
      /\ \A k \in 1 .. Known(n, m, t.type, c) : At(k, Method, Type, Count) = At(k, m, t.type, c)
    BY Following
<1>4. /\ c \in Nat /\ m \in Methods /\ Len(t.parts) = Known(9, m, t.type, c) /\ Len(t.parts) \in Nat
      /\ \A k \in 1 .. Len(t.parts) : t.parts[k].field = At(k, m, t.type, c)
    BY TransactionAt
<1>5. Known(n, m, t.type, c) <= Len(t.parts) /\ Known(n, m, t.type, c) \in Nat
    <2>1. Known(n, m, t.type, c) <= Known(9, m, t.type, c)
        BY <1>2, <1>4, KnownWhole
    <2>2. Known(n, m, t.type, c) \in Nat
        BY <1>2, <1>4, KnownType
    <2> QED
        BY <1>4, <2>1, <2>2
<1>6. n + 1 \in 1 .. Len(t.parts) /\ n # Len(t.parts)
    BY <1>2, <1>3, <1>4, <1>5
<1>7. Head(todo) = t.parts[n + 1].field
    BY <1>2, <1>3, <1>4, <1>6
<1>8. offset = t.parts[n + 1].ptr
    BY <1>6 DEF Follows
<1> QED
    BY <1>2, <1>6, <1>7, <1>8

\* The parser that reads the next field follows on.
LEMMA FollowsStep ==
    ASSUME IInv, pc = "read", pc' = "read", payload' = payload,
           NEW t \in Transactions, IsTransaction(payload, t), Follows(t), NEW n, n = Len(read),
           n + 1 \in 1 .. Len(t.parts), NEW entry, entry = t.parts[n + 1], offset = entry.ptr,
           read' = Append(read, entry), offset' = offset + entry.len,
           t.number["methodSelector"] = METHOD_SPAWN /\ n + 1 >= 7 => Type' = t.type
    PROVE  Follows(t)'
<1>1. read \in Seq(Part) /\ n \in Nat
    BY DEF IInv, TypeOK
<1>2. /\ t.parts \in Seq(Part) /\ Len(t.parts) \in Nat /\ entry \in Part
      /\ entry.ptr + entry.len = IF n + 1 = Len(t.parts) THEN Len(payload) ELSE t.parts[n + 1 + 1].ptr
    BY TransactionAt
<1>3. /\ Len(read') = n + 1 /\ read'[n + 1] = entry
      /\ \A k \in 1 .. n : read'[k] = read[k]
    BY <1>1, <1>2
<1>4. \A k \in 1 .. n : read[k] = t.parts[k]
    BY DEF Follows
<1>5. ASSUME NEW k \in 1 .. Len(read') PROVE read'[k] = t.parts[k]
    <2>1. k \in 1 .. n \/ k = n + 1
        BY <1>1, <1>3
    <2> QED
        BY <1>3, <1>4, <2>1
<1>6. Len(read') <= Len(t.parts)
    BY <1>2, <1>3
<1>7. offset' = IF Len(read') = Len(t.parts) THEN Len(payload') ELSE t.parts[Len(read') + 1].ptr
    BY <1>2, <1>3
<1> QED
    BY <1>3, <1>5, <1>6, <1>7 DEF Follows

\* A field of bytes is there, and the parser follows on.
LEMMA ReadBytesFollows ==
    ASSUME IInv, SequenceInv, ReadBytes, NEW t \in Transactions, IsTransaction(payload, t), Follows(t)
    PROVE  Follows(t)'
<1> DEFINE field == Head(todo)
           size == FixedLength[field.name]
           n == Len(read)
           m == t.number["methodSelector"]
           c == t.number["numberOfPubkeys"]
<1>1. pc = "read" /\ todo # <<>> /\ field.name \in DOMAIN FixedLength /\ payload' = payload
    BY DEF ReadBytes
<1> SUFFICES ASSUME NEW entry, entry = t.parts[n + 1] PROVE Follows(t)'
    OBVIOUS
<1>2. n \in Nat /\ n + 1 \in 1 .. Len(t.parts) /\ field = entry.field /\ offset = entry.ptr
    BY <1>1, NextPart
<1>3. /\ entry \in Part /\ entry.ptr + entry.len <= Len(payload) /\ Encodes(payload, entry, t)
      /\ entry.field = At(n + 1, m, t.type, c)
    BY <1>2, TransactionAt
<1>4. entry.len = size
    BY <1>1, <1>2, <1>3 DEF Encodes
<1>5. Fits(size)
    BY <1>2, <1>3, <1>4 DEF Fits, Available
<1>6. ReadNext(field, size)
    BY <1>1, <1>5 DEF ReadBytes
<1>7. pc' = "read"
    BY <1>1, <1>6 DEF ReadNext
<1>8. entry = [field |-> field, ptr |-> offset, len |-> size]
    BY <1>2, <1>3, <1>4 DEF Part
<1>9. read' = Append(read, entry) /\ offset' = offset + entry.len
    BY <1>4, <1>6, <1>8 DEF ReadNext
<1>10. Type' = Type
    <2>1. TypeOK
        BY DEF IInv
    <2> QED
        BY <1>7, <2>1, ReadBytesSteps DEF Type
<1>11. m = METHOD_SPAWN /\ n + 1 >= 7 => Type' = t.type
    <2> SUFFICES ASSUME m = METHOD_SPAWN, n + 1 >= 7 PROVE Type' = t.type
        OBVIOUS
    <2>1. n + 1 # 7
        <3> SUFFICES ASSUME n + 1 = 7 PROVE FALSE
            OBVIOUS
        <3>1. entry.field = At(7, m, t.type, c)
            BY <1>3
        <3>2. entry.field.name = "gas_price"
            BY <3>1, AtSpawn DEF Single
        <3> QED
            BY <1>1, <1>2, <3>2 DEF FixedLength
    <2>2. n >= 7
        BY <1>2, <2>1
    <2> QED
        BY <1>1, <1>10, <2>2 DEF Follows
<1> HIDE DEF n, field, size
<1> QED
    BY <1>1, <1>2, <1>7, <1>9, <1>11, FollowsStep DEF n

\* A number of a transaction passes the checks.
LEMMA PartAccepted ==
    ASSUME IInv, SequenceInv, pc = "read", NEW t \in Transactions, IsTransaction(payload, t), Follows(t),
           NEW n, n = Len(read), n + 1 \in 1 .. Len(t.parts),
           NEW name \in DOMAIN CompactMax, t.parts[n + 1].field.name = name
    PROVE  /\ t.number[name] \in Nat /\ t.number[name] # OutOfRange
           /\ Accepted(name, t.number[name])
<1> SUFFICES ASSUME NEW m, m = t.number["methodSelector"], NEW c, c = t.number["numberOfPubkeys"],
                    NEW k, k = n + 1
             PROVE  /\ t.number[name] \in Nat /\ t.number[name] # OutOfRange
                    /\ Accepted(name, t.number[name])
    OBVIOUS
<1>1. /\ t.number \in [DOMAIN CompactMax -> Nat] /\ m \in Methods /\ c \in Nat /\ Meaningful(t)
      /\ m = METHOD_SPAWN => t.type \in {WALLET, MULTISIG, VESTING, VAULT}
      /\ Len(t.parts) = Known(9, m, t.type, c) /\ Len(t.parts) \in Nat
      /\ \A j \in 1 .. Len(t.parts) : t.parts[j].field = At(j, m, t.type, c)
      /\ Encodes(payload, t.parts[k], t)
    BY TransactionAt
<1>2. n \in Nat /\ k \in 1 .. Len(t.parts)
    BY DEF IInv, TypeOK
<1>3. t.number[name] \in Nat /\ t.number[name] <= CompactMax[name] /\ CompactMax[name] \in Nat
    BY <1>1, Names DEF Encodes
<1>4. /\ name = "approvers" => m = METHOD_SPAWN /\ t.type \in {MULTISIG, VESTING}
      /\ name = "numberOfPubkeys" =>
            /\ m = METHOD_SPAWN /\ t.type \in {MULTISIG, VESTING}
            /\ k = 9 /\ At(8, m, t.type, c) = Single("approvers")
      /\ name = "initialUnlockAmount" =>
            /\ m = METHOD_SPAWN /\ t.type = VAULT
            /\ k = 10 /\ At(9, m, t.type, c) = Single("totalAmount")
      /\ name = "vestingEnd" =>
            /\ m = METHOD_SPAWN /\ t.type = VAULT
            /\ k = 12 /\ At(11, m, t.type, c) = Single("vestingStart")
    <2>1. k \in 1 .. Known(9, m, t.type, c)
        BY <1>1, <1>2
    <2>2. t.parts[k].field = At(k, m, t.type, c)
        BY <1>1, <1>2
    <2> SUFFICES ASSUME NEW field, field = At(k, m, t.type, c), field.name = name
                 PROVE  /\ name = "approvers" => m = METHOD_SPAWN /\ t.type \in {MULTISIG, VESTING}
                        /\ name = "numberOfPubkeys" =>
                            /\ m = METHOD_SPAWN /\ t.type \in {MULTISIG, VESTING}
                            /\ k = 9 /\ At(8, m, t.type, c) = Single("approvers")
                        /\ name = "initialUnlockAmount" =>
                            /\ m = METHOD_SPAWN /\ t.type = VAULT
                            /\ k = 10 /\ At(9, m, t.type, c) = Single("totalAmount")
                        /\ name = "vestingEnd" =>
                            /\ m = METHOD_SPAWN /\ t.type = VAULT
                            /\ k = 12 /\ At(11, m, t.type, c) = Single("vestingStart")
        BY <2>2
    <2> QED
        BY ONLY <1>1, <2>1, field = At(k, m, t.type, c), field.name = name, CheckedPlaces
<1>5. \A j \in 1 .. n : \A other \in DOMAIN CompactMax :
        At(j, m, t.type, c) = Single(other) => tx.number[other] = t.number[other]
    <2> SUFFICES ASSUME NEW j \in 1 .. n, NEW other \in DOMAIN CompactMax, At(j, m, t.type, c) = Single(other)
                 PROVE  tx.number[other] = t.number[other]
        OBVIOUS
    <2>1. j \in 1 .. Len(t.parts)
        BY <1>2
    <2>2. t.parts[j].field.name = other
        BY <1>1, <2>1 DEF Single
    <2> QED
        BY <2>2, NumbersAgree
<1>6. "approvers" \in DOMAIN CompactMax /\ "totalAmount" \in DOMAIN CompactMax /\ "vestingStart" \in DOMAIN CompactMax
    BY DEF CompactMax
<1>7. name = "tx_version" => t.number[name] = TX_VERSION
    BY <1>1 DEF Meaningful
<1>8. name = "methodSelector" => t.number[name] \in {METHOD_SPAWN, METHOD_SPEND, METHOD_DRAIN_VAULT}
    BY <1>1 DEF Methods
<1>9. m = METHOD_SPAWN /\ t.type \in {MULTISIG, VESTING} =>
        t.number["approvers"] <= t.number["numberOfPubkeys"] /\ t.number["numberOfPubkeys"] <= MAX_MULTISIG_PUB_KEY
    BY <1>1 DEF Meaningful
<1>10. m = METHOD_SPAWN /\ t.type = VAULT =>
        /\ t.number["initialUnlockAmount"] <= t.number["totalAmount"]
        /\ t.number["vestingStart"] <= t.number["vestingEnd"]
    BY <1>1 DEF Meaningful
<1>11. t.number["approvers"] \in Nat /\ t.number["numberOfPubkeys"] \in Nat /\ MAX_MULTISIG_PUB_KEY \in Nat
    BY <1>1, LengthAssumption DEF CompactMax
<1>12. name = "approvers" => t.number[name] <= MAX_MULTISIG_PUB_KEY
    BY <1>4, <1>9, <1>11
<1>13. name = "numberOfPubkeys" => t.number[name] \in tx.number["approvers"] .. MAX_MULTISIG_PUB_KEY
    <2> SUFFICES ASSUME name = "numberOfPubkeys"
                 PROVE  t.number[name] \in tx.number["approvers"] .. MAX_MULTISIG_PUB_KEY
        OBVIOUS
    <2>1. 8 \in 1 .. n
        BY <1>2, <1>4
    <2>2. tx.number["approvers"] = t.number["approvers"]
        BY <1>4, <1>5, <1>6, <2>1
    <2> QED
        BY <1>4, <1>9, <1>11, <2>2
<1>14. name = "initialUnlockAmount" => t.number[name] <= tx.number["totalAmount"]
    <2> SUFFICES ASSUME name = "initialUnlockAmount" PROVE t.number[name] <= tx.number["totalAmount"]
        OBVIOUS
    <2>1. 9 \in 1 .. n
        BY <1>2, <1>4
    <2>2. tx.number["totalAmount"] = t.number["totalAmount"]
        BY <1>4, <1>5, <1>6, <2>1
    <2> QED
        BY <1>4, <1>10, <2>2
<1>15. name = "vestingEnd" => tx.number["vestingStart"] <= t.number[name]
    <2> SUFFICES ASSUME name = "vestingEnd" PROVE tx.number["vestingStart"] <= t.number[name]
        OBVIOUS
    <2>1. 11 \in 1 .. n
        BY <1>2, <1>4
    <2>2. tx.number["vestingStart"] = t.number["vestingStart"]
        BY <1>4, <1>5, <1>6, <2>1
    <2> QED
        BY <1>4, <1>10, <2>2
<1>16. t.number[name] # OutOfRange
    BY <1>3 DEF OutOfRange
<1>17. t.number[name] \in 0 .. CompactMax[name]
    BY <1>3
<1> QED
    BY <1>3, <1>7, <1>8, <1>12, <1>13, <1>14, <1>15, <1>16, <1>17 DEF Accepted

\* The type of the account is the transaction's, once the template is read.
LEMMA TemplateAgrees ==
    ASSUME IInv, pc = "read", NEW t \in Transactions, IsTransaction(payload, t), Follows(t),
           t.number["methodSelector"] = METHOD_SPAWN, Len(read) >= 5
    PROVE  accountType = t.type /\ SpawnedType = t.type
<1> SUFFICES ASSUME NEW r, r = t.parts[5], NEW c, c = t.number["numberOfPubkeys"]
             PROVE  accountType = t.type /\ SpawnedType = t.type
    OBVIOUS
<1>1. Tiles /\ Len(read) \in Nat /\ Len(read) <= Len(t.parts) /\ Len(t.parts) \in Nat
    BY TransactionAt DEF IInv, TypeOK, Follows
<1>2. 5 \in 1 .. Len(read) /\ 5 \in 1 .. Len(t.parts)
    BY <1>1
<1>3. read[5] = r
    BY <1>1, <1>2 DEF Follows
<1>4. r.field = At(5, METHOD_SPAWN, t.type, c) /\ Encodes(payload, r, t)
    BY <1>2, TransactionAt
<1>5. r.field.name = "account_template"
    BY <1>4, AtSpawn DEF Single
<1>6. payload[r.ptr + r.len] = t.type
    BY <1>4, <1>5 DEF Encodes
<1>7. Holds(tx, payload, r)
    BY <1>1, <1>2, <1>3 DEF Tiles
<1>8. tx.bytes["account_template"] = [ptr |-> r.ptr, len |-> r.len]
    <2>1. "account_template" \notin DOMAIN CompactMax
        BY DEF CompactMax
    <2> QED
        BY <1>5, <1>7, <2>1 DEF Holds, HeldBy
<1>9. accountType = t.type
    BY <1>6, <1>8 DEF accountType
<1>10. t.type \in {WALLET, MULTISIG, VESTING, VAULT}
    BY TransactionAt
<1> QED
    BY <1>9, <1>10 DEF SpawnedType

\* A number is there and is accepted, and the parser follows on.
LEMMA ReadCompactFollows ==
    ASSUME IInv, SequenceInv, ReadCompact, NEW t \in Transactions, IsTransaction(payload, t), Follows(t)
    PROVE  Follows(t)'
<1> DEFINE field == Head(todo)
           size == compactLen(payload[offset + 1])
           value == getValue(SubSeq(payload, offset + 1, offset + size))
           n == Len(read)
           m == t.number["methodSelector"]
           c == t.number["numberOfPubkeys"]
<1>1. pc = "read" /\ todo # <<>> /\ field.name \in DOMAIN CompactMax /\ payload' = payload
    BY DEF ReadCompact
<1> SUFFICES ASSUME NEW entry, entry = t.parts[n + 1] PROVE Follows(t)'
    OBVIOUS
<1>2. n \in Nat /\ n + 1 \in 1 .. Len(t.parts) /\ field = entry.field /\ offset = entry.ptr
    BY <1>1, NextPart
<1>3. /\ entry \in Part /\ entry.ptr + entry.len <= Len(payload) /\ Encodes(payload, entry, t)
      /\ entry.field = At(n + 1, m, t.type, c)
    BY <1>2, TransactionAt
<1>4. entry.len = size /\ size > 0 /\ value = t.number[field.name]
    BY <1>1, <1>2, <1>3 DEF Encodes
<1>5. value # OutOfRange /\ Accepted(field.name, value)
    <2> HIDE DEF n, size, value
    <2>1. Accepted(field.name, t.number[field.name]) /\ t.number[field.name] # OutOfRange
        BY <1>1, <1>2, PartAccepted DEF n
    <2> QED
        BY <1>4, <2>1
<1>6. Available(1) /\ Available(size)
    <2> HIDE DEF size
    <2>1. offset \in Nat /\ size \in Nat /\ Len(payload) \in Nat /\ offset + size <= Len(payload)
        BY <1>2, <1>3, <1>4 DEF Part, IInv, TypeOK
    <2> QED
        BY <1>4, <2>1 DEF Available
<1>7. /\ ReadNext(field, size)
      /\ tx' = [tx EXCEPT !.number[field.name] = value,
                          !.account_type =
                             IF field.name = "gas_price" /\ tx.number["methodSelector"] = METHOD_SPAWN
                             THEN SpawnedType ELSE @]
    BY <1>5, <1>6 DEF ReadCompact
<1>8. pc' = "read"
    BY <1>1, <1>7 DEF ReadNext
<1>9. entry = [field |-> field, ptr |-> offset, len |-> size]
    BY <1>2, <1>3, <1>4 DEF Part
<1>10. read' = Append(read, entry) /\ offset' = offset + entry.len
    BY <1>4, <1>7, <1>9 DEF ReadNext
<1>11. Type' = IF field.name = "gas_price" /\ Method = METHOD_SPAWN THEN SpawnedType ELSE Type
    <2>1. TypeOK
        BY DEF IInv
    <2> QED
        BY <1>8, <2>1, ReadCompactSteps DEF Type, Method
<1> HIDE DEF field, size, value
<1>12. m = METHOD_SPAWN /\ n + 1 >= 7 => Type' = t.type
    <2> SUFFICES ASSUME m = METHOD_SPAWN, n + 1 >= 7 PROVE Type' = t.type
        OBVIOUS
    <2>1. Method = m
        <3>1. n >= 4
            BY <1>2
        <3> HIDE DEF n
        <3> QED
            BY <1>1, <3>1, Following DEF n
    <2>2. CASE n + 1 = 7
        <3>1. entry.field = At(7, m, t.type, c)
            BY <1>3, <2>2
        <3>2. field.name = "gas_price"
            BY <1>2, <3>1, AtSpawn DEF Single
        <3>3. n >= 5
            BY <1>2, <2>2
        <3>4. SpawnedType = t.type
            BY <1>1, <3>3, TemplateAgrees
        <3> QED
            BY <1>11, <2>1, <3>2, <3>4
    <2>3. CASE n + 1 # 7
        <3>1. n >= 7 /\ n + 1 > 4
            BY <1>2, <2>3
        <3>2. Type = t.type
            BY <1>1, <3>1 DEF Follows
        <3> QED
            BY <1>11, <2>1, <3>2, TemplateAgrees, <1>1, <3>1
    <2> QED
        BY <2>2, <2>3
<1> HIDE DEF n
<1> QED
    BY <1>1, <1>2, <1>8, <1>10, <1>12, FollowsStep DEF n

\* All of the transaction is read when nothing is left to be read.
LEMMA ReadEndFollows ==
    ASSUME IInv, SequenceInv, ReadEnd, NEW t \in Transactions, IsTransaction(payload, t), Follows(t)
    PROVE  Follows(t)'
<1> SUFFICES ASSUME NEW n, n = Len(read), NEW m, m = t.number["methodSelector"],
                    NEW c, c = t.number["numberOfPubkeys"]
             PROVE  Follows(t)'
    OBVIOUS
<1>1. pc = "read" /\ todo = <<>> /\ UNCHANGED <<payload, offset, read, tx>>
    BY DEF ReadEnd
<1>2. n \in Nat /\ n = Known(n, Method, Type, Count)
    <2>1. Len(read) + Len(todo) = Known(Len(read), Method, Type, Count)
        BY <1>1 DEF SequenceInv, Sequenced
    <2>2. Len(todo) = 0 /\ n \in Nat
        BY <1>1 DEF IInv, TypeOK
    <2> QED
        BY <2>1, <2>2
<1>3. Known(n, Method, Type, Count) = Known(n, m, t.type, c)
    BY <1>1, Following
<1>4. m \in Methods /\ c \in Nat /\ Len(t.parts) = Known(9, m, t.type, c)
    BY TransactionAt
<1>5. n = Len(t.parts)
    BY <1>2, <1>3, <1>4, KnownWhole
<1>6. offset = Len(payload)
    BY <1>1, <1>5 DEF Follows
<1>7. pc' = "validate"
    BY <1>6 DEF ReadEnd, AllParsed
<1> QED
    BY <1>1, <1>5, <1>7 DEF Follows, Type

\* A transaction has its screens.
LEMMA ValidateFollows ==
    ASSUME IInv, SequenceInv, Validate, NEW t \in Transactions, IsTransaction(payload, t), Follows(t)
    PROVE  Follows(t)'
<1> SUFFICES ASSUME NEW m, m = t.number["methodSelector"], NEW c, c = t.number["numberOfPubkeys"]
             PROVE  Follows(t)'
    OBVIOUS
<1>1. pc = "validate" /\ UNCHANGED <<payload, offset, read, tx>>
    BY DEF Validate
<1>2. /\ m \in Methods /\ Len(t.parts) >= 4 /\ Len(t.parts) = Known(9, m, t.type, c)
      /\ m = METHOD_SPAWN => t.type \in {WALLET, MULTISIG, VESTING, VAULT}
      /\ c \in Nat /\ Len(t.parts) \in Nat
    BY TransactionAt
<1>3. Len(read) = Len(t.parts)
    BY <1>1 DEF Follows
<1>4. Method = m
    BY <1>1, <1>2, <1>3, Following
<1>5. m = METHOD_SPAWN => Type = t.type
    <2> SUFFICES ASSUME m = METHOD_SPAWN PROVE Type = t.type
        OBVIOUS
    <2>1. Known(4, m, t.type, c) = 7
        BY DEF Known
    <2>2. Known(4, m, t.type, c) <= Known(9, m, t.type, c)
        BY ONLY <1>2, KnownWhole
    <2>3. Len(t.parts) >= 7
        BY ONLY <1>2, <2>1, <2>2
    <2> QED
        BY <1>1, <1>3, <2>3 DEF Follows
<1>6. Screens # <<>> /\ \A idx \in DOMAIN Screens : Screens[idx] # NoItem
    BY <1>2, <1>4, <1>5, ScreensPresent DEF IInv
<1>7. pc' = "review"
    BY <1>6 DEF Validate
<1> QED
    BY <1>1, <1>7 DEF Follows, Type

\* No transaction is an empty upload.
LEMMA EmptyIsNone == ASSUME NEW t \in Transactions, IsTransaction(<<>>, t) PROVE FALSE
<1> SUFFICES ASSUME NEW r, r = t.parts[1], NEW m, m = t.number["methodSelector"],
                    NEW c, c = t.number["numberOfPubkeys"]
             PROVE  FALSE
    OBVIOUS
<1>1. /\ 1 \in 1 .. Len(t.parts) /\ r \in Part /\ r.field = At(1, m, t.type, c) /\ r.ptr = 0
      /\ r.ptr + r.len <= Len(<<>>) /\ Encodes(<<>>, r, t)
    BY TransactionAt
<1>2. r.field.name = "genesisId"
    BY <1>1, AtHeader DEF Single
<1>3. "genesisId" \in DOMAIN FixedLength /\ FixedLength["genesisId"] = GENESIS_LENGTH
    BY DEF FixedLength
<1>4. r.len = GENESIS_LENGTH
    BY <1>1, <1>2, <1>3 DEF Encodes
<1> QED
    BY <1>1, <1>4, LengthAssumption DEF Part

\* Nothing is uploaded at the start.
LEMMA InitFollows == Init => FollowsInv
BY EmptyIsNone DEF Init, FollowsInv

\* Every step follows the transaction.
LEMMA NextFollows == IInv /\ SequenceInv /\ FollowsInv /\ [Next]_vars => FollowsInv'
<1> SUFFICES ASSUME IInv, SequenceInv, FollowsInv, [Next]_vars, NEW t \in Transactions, IsTransaction(payload', t)
             PROVE  Follows(t)'
    BY DEF FollowsInv
<1>1. ASSUME NEW upload \in Payloads, Receive(upload) PROVE Follows(t)'
    <2>1. payload' = upload /\ offset' = 0 /\ read' = <<>> /\ upload # <<>>
        BY <1>1, EmptyIsNone DEF Receive
    <2>2. pc' = "read"
        BY <1>1, <2>1 DEF Receive
    <2>3. Len(read') = 0 /\ Len(t.parts) \in Nat /\ Len(t.parts) >= 4 /\ 1 \in 1 .. Len(t.parts)
        BY <2>1, TransactionAt
    <2>4. t.parts[1].ptr = 0
        BY <2>3, TransactionAt
    <2> QED
        BY <2>1, <2>2, <2>3, <2>4 DEF Follows
<1>2. ASSUME payload' = payload PROVE IsTransaction(payload, t) /\ Follows(t)
    BY <1>2 DEF FollowsInv
<1>3. CASE ToggleExpert
    BY <1>2, <1>3 DEF ToggleExpert, Follows
<1>4. CASE ReadBytes
    BY <1>2, <1>4, ReadBytesFollows DEF ReadBytes
<1>5. CASE ReadCompact
    BY <1>2, <1>5, ReadCompactFollows DEF ReadCompact
<1>6. CASE ReadEnd
    BY <1>2, <1>6, ReadEndFollows DEF ReadEnd
<1>7. CASE Validate
    BY <1>2, <1>7, ValidateFollows DEF Validate
<1>8. CASE Answer
    BY <1>8, EmptyIsNone DEF Answer
<1>9. CASE UNCHANGED vars
    BY <1>2, <1>9 DEF vars, Follows, Type
<1> QED
    BY <1>1, <1>3, <1>4, <1>5, <1>6, <1>7, <1>8, <1>9 DEF Next

\* For any uploads and any transactions, the parser accepts the transactions and nothing
\* else, and reads each as its host means it (parser_impl.c:23-50,
\* parser_impl_common.c:22-188).
THEOREM TransactionsReadAsMeantAlways == Spec => []ReadsTransactionsAsMeant
<1>1. IInv /\ CompleteInv /\ SequenceInv /\ WithinInv /\ FollowsInv => ReadsTransactionsAsMeant
    <2> SUFFICES ASSUME IInv, CompleteInv, SequenceInv, WithinInv, FollowsInv PROVE ReadsTransactionsAsMeant
        OBVIOUS
    <2>1. pc = "review" => IsTransaction(payload, Reading)
        BY ReviewIsTransaction
    <2>2. ASSUME NEW t \in Transactions, IsTransaction(payload, t)
          PROVE  /\ pc # "refused"
                 /\ pc = "review" =>
                    /\ read = t.parts
                    /\ tx.number["methodSelector"] = t.number["methodSelector"]
                    /\ t.number["methodSelector"] = METHOD_SPAWN => tx.account_type = t.type
                    /\ \A k \in DOMAIN t.parts :
                        LET name == t.parts[k].field.name IN
                        name \in DOMAIN CompactMax => tx.number[name] = t.number[name]
        <3>1. Follows(t)
            BY <2>2 DEF FollowsInv
        <3>2. pc # "refused"
            BY <3>1 DEF Follows
        <3> SUFFICES ASSUME pc = "review"
                     PROVE  /\ read = t.parts
                            /\ tx.number["methodSelector"] = t.number["methodSelector"]
                            /\ t.number["methodSelector"] = METHOD_SPAWN => tx.account_type = t.type
                            /\ \A k \in DOMAIN t.parts : t.parts[k].field.name \in DOMAIN CompactMax =>
                                tx.number[t.parts[k].field.name] = t.number[t.parts[k].field.name]
            BY <3>2
        <3>3. /\ t.parts \in Seq(Part) /\ Len(t.parts) \in Nat /\ Len(t.parts) >= 4
              /\ t.number["methodSelector"] \in Methods /\ t.number["numberOfPubkeys"] \in Nat
              /\ Len(t.parts) = Known(9, t.number["methodSelector"], t.type, t.number["numberOfPubkeys"])
            BY <2>2, TransactionAt
        <3>4. read \in Seq(Part) /\ Len(read) = Len(t.parts) /\ \A k \in 1 .. Len(read) : read[k] = t.parts[k]
            BY <3>1 DEF IInv, TypeOK, Follows
        <3>5. read = t.parts
            BY ONLY <3>3, <3>4, SeqEqual
        <3>6. tx.number["methodSelector"] = t.number["methodSelector"]
            BY <2>2, <3>1, <3>3, <3>4, Following DEF Method
        <3>7. t.number["methodSelector"] = METHOD_SPAWN => tx.account_type = t.type
            <4> SUFFICES ASSUME NEW m, m = t.number["methodSelector"], m = METHOD_SPAWN,
                                NEW c, c = t.number["numberOfPubkeys"]
                         PROVE  tx.account_type = t.type
                OBVIOUS
            <4>1. Known(4, m, t.type, c) = 7
                BY DEF Known
            <4>2. c \in Nat /\ m \in Methods /\ Len(t.parts) = Known(9, m, t.type, c)
                BY <3>3
            <4>3. Known(4, m, t.type, c) <= Known(9, m, t.type, c)
                BY ONLY <4>2, KnownWhole
            <4>4. Len(t.parts) >= 7
                BY ONLY <4>1, <4>2, <4>3
            <4> QED
                BY <3>1, <3>4, <4>4 DEF Follows, Type
        <3>8. ASSUME NEW k \in DOMAIN t.parts, t.parts[k].field.name \in DOMAIN CompactMax
              PROVE  tx.number[t.parts[k].field.name] = t.number[t.parts[k].field.name]
            <4>1. k \in 1 .. Len(read)
                BY <3>3, <3>4
            <4> QED
                BY <2>2, <3>1, <3>8, <4>1, NumbersAgree
        <3> QED
            BY <3>5, <3>6, <3>7, <3>8
    <2> QED
        BY <2>1, <2>2 DEF ReadsTransactionsAsMeant
<1>2. Spec => [](IInv /\ CompleteInv /\ SequenceInv /\ WithinInv /\ FollowsInv)
    BY InitIInv, NextIInv, InitComplete, NextComplete, InitSequence, NextSequence, InitWithin, NextWithin,
       InitFollows, NextFollows, PTL DEF Spec
<1> QED
    BY <1>1, <1>2, PTL

-----------------------------------------------------------------------------
\* What looks the same is the same.

\* The ranks of the places.
RankOfPlace(k, method, type) ==
    IF method = METHOD_SPAWN THEN (IF type \notin {MULTISIG, VESTING} \/ k <= 9 THEN k - 1 ELSE k + 2)
    ELSE IF k <= 4 THEN k - 1
    ELSE IF method = METHOD_SPEND /\ k > 6 THEN k + 1
    ELSE k

\* The field at a place has its rank.
LEMMA RankAt ==
    ASSUME NEW m \in Methods, NEW t, m = METHOD_SPAWN => t \in {WALLET, MULTISIG, VESTING, VAULT},
           NEW c \in Nat, NEW k \in 1 .. Known(9, m, t, c)
    PROVE  Rank(At(k, m, t, c)) = RankOfPlace(k, m, t)
<1>1. \A name \in FieldNames : Single(name).name = name
    BY DEF Single
<1>2. CASE k <= 4
    <2>1. k = 1 \/ k = 2 \/ k = 3 \/ k = 4
        BY <1>2
    <2>2. /\ Rank(Single("genesisId")) = 0 /\ Rank(Single("tx_version")) = 1
          /\ Rank(Single("principal")) = 2 /\ Rank(Single("methodSelector")) = 3
        BY <1>1 DEF Rank, FieldNames
    <2>3. RankOfPlace(k, m, t) = k - 1
        BY <1>2 DEF RankOfPlace
    <2> QED
        BY <2>1, <2>2, <2>3, AtHeader
<1>3. CASE k > 4 /\ m = METHOD_SPEND
    <2>1. m # METHOD_SPAWN /\ m # METHOD_DRAIN_VAULT
        BY <1>3 DEF METHOD_SPAWN, METHOD_SPEND, METHOD_DRAIN_VAULT
    <2>2. Known(9, m, t, c) = 8
        BY <1>3, <2>1, MethodFieldsAt DEF Known
    <2>3. k = 5 \/ k = 6 \/ k = 7 \/ k = 8
        BY <1>3, <2>2
    <2>4. At(k, m, t, c) = MethodFields(METHOD_SPEND)[k - 4]
        BY <1>3, <2>1 DEF At
    <2>5. /\ Rank(Single("nonce")) = 5 /\ Rank(Single("gas_price")) = 6
          /\ Rank(Single("destination")) = 8 /\ Rank(Single("amount")) = 9
        BY <1>1 DEF Rank, FieldNames
    <2>6. RankOfPlace(k, m, t) = IF k > 6 THEN k + 1 ELSE k
        BY <1>3, <2>1 DEF RankOfPlace
    <2> QED
        BY <2>3, <2>4, <2>5, <2>6, MethodFieldsAt
<1>4. CASE k > 4 /\ m = METHOD_DRAIN_VAULT
    <2>1. m # METHOD_SPAWN /\ m # METHOD_SPEND
        BY <1>4 DEF METHOD_SPAWN, METHOD_SPEND, METHOD_DRAIN_VAULT
    <2>2. Known(9, m, t, c) = 9
        BY <1>4, <2>1, MethodFieldsAt DEF Known
    <2>3. k = 5 \/ k = 6 \/ k = 7 \/ k = 8 \/ k = 9
        BY <1>4, <2>2
    <2>4. At(k, m, t, c) = MethodFields(METHOD_DRAIN_VAULT)[k - 4]
        BY <1>4, <2>1 DEF At
    <2>5. /\ Rank(Single("nonce")) = 5 /\ Rank(Single("gas_price")) = 6 /\ Rank(Single("vault")) = 7
          /\ Rank(Single("destination")) = 8 /\ Rank(Single("amount")) = 9
        BY <1>1 DEF Rank, FieldNames
    <2>6. RankOfPlace(k, m, t) = k
        BY <1>4, <2>1 DEF RankOfPlace
    <2> QED
        BY <2>3, <2>4, <2>5, <2>6, MethodFieldsAt
<1>5. CASE k > 4 /\ k <= 7 /\ m = METHOD_SPAWN
    <2>1. k = 5 \/ k = 6 \/ k = 7
        BY <1>5
    <2>2. /\ Rank(Single("account_template")) = 4 /\ Rank(Single("nonce")) = 5 /\ Rank(Single("gas_price")) = 6
        BY <1>1 DEF Rank, FieldNames
    <2>3. RankOfPlace(k, m, t) = k - 1
        BY <1>5 DEF RankOfPlace
    <2> QED
        BY <1>5, <2>1, <2>2, <2>3, AtSpawn
<1>6. CASE k > 7 /\ m = METHOD_SPAWN /\ t \in {MULTISIG, VESTING} /\ k <= 9
    <2>1. k = 8 \/ k = 9
        BY <1>6
    <2>2. Rank(Single("approvers")) = 7 /\ Rank(Single("numberOfPubkeys")) = 8
        BY <1>1 DEF Rank, FieldNames
    <2>3. RankOfPlace(k, m, t) = k - 1 /\ At(k, m, t, c) = SpawnFields(t)[k - 7]
        BY <1>6 DEF RankOfPlace, At
    <2> QED
        BY <1>6, <2>1, <2>2, <2>3, SpawnFieldsAt
<1>7. CASE k > 9 /\ m = METHOD_SPAWN /\ t \in {MULTISIG, VESTING}
    <2>1. k - 9 \in 1 .. c
        BY <1>7 DEF Known
    <2>2. At(k, m, t, c) = [name |-> "pubkey", key |-> k - 9 - 1]
        BY <1>7, <2>1, KeyFieldsType DEF At
    <2>3. Rank([name |-> "pubkey", key |-> k - 9 - 1]) = 12 + (k - 9 - 1)
        BY DEF Rank
    <2>4. RankOfPlace(k, m, t) = k + 2
        BY <1>7 DEF RankOfPlace
    <2> QED
        BY <2>1, <2>2, <2>3, <2>4
<1>8. CASE k > 7 /\ m = METHOD_SPAWN /\ t = WALLET
    <2>1. t \notin {MULTISIG, VESTING}
        BY <1>8 DEF WALLET, MULTISIG, VESTING
    <2>2. Known(9, m, t, c) = 8
        BY <1>8, <2>1, SpawnFieldsAt DEF Known
    <2>3. k = 8
        BY <1>8, <2>2
    <2>4. RankOfPlace(k, m, t) = k - 1 /\ At(k, m, t, c) = SpawnFields(t)[k - 7]
        BY <1>8, <2>1 DEF RankOfPlace, At
    <2>5. Rank(Single("walletPubkey")) = 7
        BY <1>1 DEF Rank, FieldNames
    <2> QED
        BY <1>8, <2>3, <2>4, <2>5, SpawnFieldsAt
<1>9. CASE k > 7 /\ m = METHOD_SPAWN /\ t = VAULT
    <2>1. t \notin {MULTISIG, VESTING}
        BY <1>9 DEF VAULT, MULTISIG, VESTING
    <2>2. Known(9, m, t, c) = 12
        BY <1>9, <2>1, SpawnFieldsAt DEF Known
    <2>3. k = 8 \/ k = 9 \/ k = 10 \/ k = 11 \/ k = 12
        BY <1>9, <2>2
    <2>4. RankOfPlace(k, m, t) = k - 1 /\ At(k, m, t, c) = SpawnFields(t)[k - 7]
        BY <1>9, <2>1 DEF RankOfPlace, At
    <2>5. /\ Rank(Single("owner")) = 7 /\ Rank(Single("totalAmount")) = 8
          /\ Rank(Single("initialUnlockAmount")) = 9 /\ Rank(Single("vestingStart")) = 10
          /\ Rank(Single("vestingEnd")) = 11
        BY <1>1 DEF Rank, FieldNames
    <2> QED
        BY <1>9, <2>3, <2>4, <2>5, SpawnFieldsAt
<1> QED
    BY <1>2, <1>3, <1>4, <1>5, <1>6, <1>7, <1>8, <1>9 DEF Methods

\* No field is at two places.
LEMMA OnePlaceEach ==
    ASSUME NEW m \in Methods, NEW t, m = METHOD_SPAWN => t \in {WALLET, MULTISIG, VESTING, VAULT},
           NEW c \in Nat, NEW j \in 1 .. Known(9, m, t, c), NEW k \in 1 .. Known(9, m, t, c),
           At(j, m, t, c) = At(k, m, t, c)
    PROVE  j = k
<1>1. RankOfPlace(j, m, t) = RankOfPlace(k, m, t)
    BY RankAt
<1>2. j \in Nat /\ k \in Nat
    OBVIOUS
<1> QED
    BY <1>1, <1>2 DEF RankOfPlace

\* The title of each kind of transaction.
TitleOf(method, type) ==
    CASE method = METHOD_SPEND -> "Spend"
      [] method = METHOD_DRAIN_VAULT -> "Vault drain"
      [] method = METHOD_SPAWN /\ type = WALLET -> "Wallet spawn"
      [] method = METHOD_SPAWN /\ type = VAULT -> "Vault spawn"
      [] method = METHOD_SPAWN /\ type = MULTISIG -> "Multisig spawn"
      [] OTHER -> "Vesting spawn"

\* Each kind's own.
LEMMA Titles ==
    ASSUME NEW t
    PROVE  /\ TitleOf(METHOD_SPEND, t) = "Spend" /\ TitleOf(METHOD_DRAIN_VAULT, t) = "Vault drain"
           /\ TitleOf(METHOD_SPAWN, WALLET) = "Wallet spawn" /\ TitleOf(METHOD_SPAWN, VAULT) = "Vault spawn"
           /\ TitleOf(METHOD_SPAWN, MULTISIG) = "Multisig spawn" /\ TitleOf(METHOD_SPAWN, VESTING) = "Vesting spawn"
<1>1. /\ METHOD_SPAWN # METHOD_SPEND /\ METHOD_SPAWN # METHOD_DRAIN_VAULT /\ METHOD_SPEND # METHOD_DRAIN_VAULT
      /\ WALLET # VAULT /\ WALLET # MULTISIG /\ WALLET # VESTING /\ VAULT # MULTISIG /\ VAULT # VESTING
      /\ MULTISIG # VESTING
    BY DEF METHOD_SPAWN, METHOD_SPEND, METHOD_DRAIN_VAULT, WALLET, MULTISIG, VESTING, VAULT
<1> QED
    BY <1>1 DEF TitleOf

\* The titles tell the methods and the types of accounts apart.
LEMMA TitlesDiffer ==
    ASSUME NEW m \in Methods, NEW t, m = METHOD_SPAWN => t \in {WALLET, MULTISIG, VESTING, VAULT},
           NEW mm \in Methods, NEW tt, mm = METHOD_SPAWN => tt \in {WALLET, MULTISIG, VESTING, VAULT},
           TitleOf(m, t) = TitleOf(mm, tt)
    PROVE  m = mm /\ (m = METHOD_SPAWN => t = tt)
<1>1. CASE m = METHOD_SPEND
    <2>1. TitleOf(m, t) = "Spend"
        BY <1>1, Titles
    <2>2. mm = METHOD_SPEND
        BY <2>1, Titles DEF Methods
    <2> QED
        BY <1>1, <2>2 DEF METHOD_SPAWN, METHOD_SPEND
<1>2. CASE m = METHOD_DRAIN_VAULT
    <2>1. TitleOf(m, t) = "Vault drain"
        BY <1>2, Titles
    <2>2. mm = METHOD_DRAIN_VAULT
        BY <2>1, Titles DEF Methods
    <2> QED
        BY <1>2, <2>2 DEF METHOD_SPAWN, METHOD_DRAIN_VAULT
<1>3. CASE m = METHOD_SPAWN
    <2>1. mm = METHOD_SPAWN
        BY <1>3, Titles DEF Methods
    <2> QED
        BY <1>3, <2>1, Titles
<1> QED
    BY <1>1, <1>2, <1>3 DEF Methods

\* The first screen is the title, and an account of several keys tells their number on the fourth.
LEMMA FirstItems ==
    ASSUME NEW obj, NEW m \in Methods, m = obj.number["methodSelector"], NEW t, t = obj.account_type,
           m = METHOD_SPAWN => t \in {WALLET, MULTISIG, VESTING, VAULT}, obj.number["numberOfPubkeys"] \in Nat
    PROVE  /\ getItem(obj, 0) = Single(TitleOf(m, t))
           /\ m = METHOD_SPAWN /\ t \in {MULTISIG, VESTING} => getItem(obj, 3) = Single("numberOfPubkeys")
<1> DEFINE count == obj.number["numberOfPubkeys"]
<1>1. adjustedIdx(0, count) = 0 /\ adjustedIdx(3, count) = 3
    BY DEF adjustedIdx, pubkeysStart
<1>2. CASE m = METHOD_SPEND
    <2>1. getItem(obj, 0) = CaseOf(SpendItems, 0)
        BY <1>2 DEF getItem, METHOD_SPAWN, METHOD_SPEND, METHOD_DRAIN_VAULT
    <2>2. CaseOf(SpendItems, 0) = Single("Spend")
        <3> DEFINE names == <<"principal", "destination", "amount", "gas_price", "nonce", "methodSelector", "genesisId">>
        <3>1. names \in Seq(FieldName) /\ SpendItems = <<Title("Spend")>> \o Fields(names)
            BY Names DEF FieldNames, SpendItems
        <3> HIDE DEF names
        <3> QED
            BY <3>1, TableItems
    <2> QED
        BY <1>2, <2>1, <2>2, Titles DEF METHOD_SPAWN, METHOD_SPEND
<1>3. CASE m = METHOD_DRAIN_VAULT
    <2>1. getItem(obj, 0) = CaseOf(DrainItems, 0)
        BY <1>3 DEF getItem, METHOD_SPAWN, METHOD_SPEND, METHOD_DRAIN_VAULT
    <2>2. CaseOf(DrainItems, 0) = Single("Vault drain")
        <3> DEFINE names == <<"principal", "vault", "destination", "amount", "gas_price", "nonce", "methodSelector",
                              "genesisId">>
        <3>1. names \in Seq(FieldName) /\ DrainItems = <<Title("Vault drain")>> \o Fields(names)
            BY Names DEF FieldNames, DrainItems
        <3> HIDE DEF names
        <3> QED
            BY <3>1, TableItems
    <2> QED
        BY <1>3, <2>1, <2>2, Titles DEF METHOD_SPAWN, METHOD_DRAIN_VAULT
<1>4. CASE m = METHOD_SPAWN /\ t = WALLET
    <2>1. getItem(obj, 0) = CaseOf(WalletItems, 0)
        BY <1>4 DEF getItem, METHOD_SPAWN, METHOD_SPEND, METHOD_DRAIN_VAULT, WALLET, MULTISIG, VESTING, VAULT
    <2>2. CaseOf(WalletItems, 0) = Single("Wallet spawn")
        <3> DEFINE names == <<"principal", "gas_price", "account_template", "nonce", "methodSelector", "genesisId">>
        <3>1. names \in Seq(FieldName) /\ WalletItems = <<Title("Wallet spawn")>> \o Fields(names)
            BY Names DEF FieldNames, WalletItems
        <3> HIDE DEF names
        <3> QED
            BY <3>1, TableItems
    <2>3. TitleOf(m, t) = "Wallet spawn" /\ t \notin {MULTISIG, VESTING}
        BY <1>4, Titles DEF WALLET, MULTISIG, VESTING
    <2> QED
        BY <2>1, <2>2, <2>3
<1>5. CASE m = METHOD_SPAWN /\ t = VAULT
    <2>1. getItem(obj, 0) = CaseOf(VaultItems, 0)
        BY <1>5 DEF getItem, METHOD_SPAWN, METHOD_SPEND, METHOD_DRAIN_VAULT, WALLET, MULTISIG, VESTING, VAULT
    <2>2. CaseOf(VaultItems, 0) = Single("Vault spawn")
        <3> DEFINE names == <<"principal", "gas_price", "owner", "totalAmount", "initialUnlockAmount", "vestingStart",
                              "vestingEnd", "account_template", "nonce", "methodSelector", "genesisId">>
        <3>1. names \in Seq(FieldName) /\ VaultItems = <<Title("Vault spawn")>> \o Fields(names)
            BY Names DEF FieldNames, VaultItems
        <3> HIDE DEF names
        <3> QED
            BY <3>1, TableItems
    <2>3. TitleOf(m, t) = "Vault spawn" /\ t \notin {MULTISIG, VESTING}
        BY <1>5, Titles DEF VAULT, MULTISIG, VESTING
    <2> QED
        BY <2>1, <2>2, <2>3
<1>6. CASE m = METHOD_SPAWN /\ t \in {MULTISIG, VESTING}
    <2>1. \A idx : getItem(obj, idx) =
            IF adjustedIdx(idx, count) = 5 THEN KeyItem(idx) ELSE CaseOf(MultisigCases(t), adjustedIdx(idx, count))
        BY <1>6 DEF getItem, METHOD_SPAWN, METHOD_SPEND, METHOD_DRAIN_VAULT, WALLET, MULTISIG, VESTING, VAULT,
                    pubkeysStart
    <2> HIDE DEF count
    <2>2. getItem(obj, 0) = CaseOf(MultisigCases(t), 0) /\ getItem(obj, 3) = CaseOf(MultisigCases(t), 3)
        BY <1>1, <2>1
    <2>3. TitleOf(m, t) = multisigTitle(t)
        BY <1>6, Titles DEF multisigTitle, MULTISIG, VESTING
    <2> QED
        BY <2>2, <2>3, MultisigCase
<1> QED
    BY <1>2, <1>3, <1>4, <1>5, <1>6 DEF Methods

\* The part of a transaction that is a field.
PartOf(t, field) == CHOOSE part \in {t.parts[k] : k \in DOMAIN t.parts} : part.field = field

\* A number is shown as its value, a field of bytes as its bytes.
LEMMA TextOf ==
    ASSUME NEW item, NEW number, NEW upload, NEW slice
    PROVE  /\ item.name \in DOMAIN CompactMax => Text(item, number, upload, slice) = number[item.name]
           /\ item.name \notin DOMAIN CompactMax /\ Source(item).name \in DOMAIN FixedLength =>
                Text(item, number, upload, slice) = BytesAt(upload, slice)
<1>1. CASE item.name \in DOMAIN CompactMax
    <2>1. item.name \notin DOMAIN FixedLength /\ Source(item) = item
        <3>1. "Address" \notin DOMAIN CompactMax
            BY DEF CompactMax
        <3> QED
            BY <1>1, <3>1, Names DEF Source
    <2> QED
        BY <1>1, <2>1, Zenon DEF Text
<1>2. CASE item.name \notin DOMAIN CompactMax
    BY <1>2, Zenon DEF Text
<1> QED
    BY <1>1, <1>2

\* Equal screens have equal items and equal texts.
LEMMA SameScreens ==
    ASSUME NEW upload, NEW t, ScreensOf(upload, t) = ShownScreens, NEW idx \in DOMAIN Screens
    PROVE  /\ getItem([account_type |-> t.type, number |-> t.number], idx) = Screens[idx]
           /\ Text(Screens[idx], t.number, upload, PartOf(t, Source(Screens[idx]))) =
                Text(Screens[idx], tx.number, payload, Stored(Source(Screens[idx])))
<1> DEFINE obj == [account_type |-> t.type, number |-> t.number]
           theirs(i) == [item |-> getItem(obj, i),
                         text |-> Text(getItem(obj, i), t.number, upload, PartOf(t, Source(getItem(obj, i))))]
           mine(i) == [item |-> Screens[i],
                       text |-> Text(Screens[i], tx.number, payload, Stored(Source(Screens[i])))]
<1>1. ScreensOf(upload, t) = [i \in 0 .. numItems(obj, expert) - 1 |-> theirs(i)]
    BY Zenon DEF ScreensOf, PartOf
<1>2. ShownScreens = [i \in DOMAIN Screens |-> mine(i)]
    BY Zenon DEF ShownScreens
<1>3. theirs(idx) = mine(idx)
    <2> HIDE DEF theirs, mine, obj
    <2>1. DOMAIN ShownScreens = DOMAIN Screens /\ ShownScreens[idx] = mine(idx)
        BY <1>2
    <2>2. idx \in 0 .. numItems(obj, expert) - 1
        BY <1>1, <2>1
    <2> QED
        BY <1>1, <2>1, <2>2
<1> HIDE DEF obj
<1>4. theirs(idx).item = mine(idx).item /\ theirs(idx).text = mine(idx).text
    BY <1>3
<1>5. getItem(obj, idx) = Screens[idx]
    BY <1>4
<1>6. Text(getItem(obj, idx), t.number, upload, PartOf(t, Source(getItem(obj, idx)))) =
        Text(Screens[idx], tx.number, payload, Stored(Source(Screens[idx])))
    BY <1>4
<1> QED
    BY <1>5, <1>6 DEF obj


\* A transaction of the same screens is of the same kind, for the same number of keys.
LEMMA SameKind ==
    ASSUME IInv, CompleteInv, SequenceInv, WithinInv, pc = "review",
           NEW t \in Transactions, NEW upload, IsTransaction(upload, t), ScreensOf(upload, t) = ShownScreens
    PROVE  /\ Method = t.number["methodSelector"]
           /\ Method = METHOD_SPAWN => Type = t.type
           /\ Method = METHOD_SPAWN /\ Type \in {MULTISIG, VESTING} => Count = t.number["numberOfPubkeys"]
<1> SUFFICES ASSUME NEW m, m = t.number["methodSelector"], NEW c, c = t.number["numberOfPubkeys"]
             PROVE  /\ Method = m
                    /\ Method = METHOD_SPAWN => Type = t.type
                    /\ Method = METHOD_SPAWN /\ Type \in {MULTISIG, VESTING} => Count = c
    OBVIOUS
<1> DEFINE obj == [account_type |-> t.type, number |-> t.number]
<1>1. m \in Methods /\ c \in Nat /\ (m = METHOD_SPAWN => t.type \in {WALLET, MULTISIG, VESTING, VAULT})
    BY TransactionAt
<1>2. /\ Method \in Methods /\ Count \in Nat
      /\ Method = METHOD_SPAWN => Type \in {WALLET, MULTISIG, VESTING, VAULT}
    BY ReviewFields, ReviewType DEF Methods, IInv, TypeOK, Count, CompactMax
<1>3. /\ numItems(tx, expert) \in 1 .. 127 /\ DOMAIN Screens = 0 .. numItems(tx, expert) - 1
      /\ \A idx \in DOMAIN Screens : Screens[idx] = getItem(tx, idx)
    BY ReviewScreens
<1>4. 0 \in DOMAIN Screens
    <2> DEFINE items == numItems(tx, expert)
    <2>1. items \in 1 .. 127 /\ DOMAIN Screens = 0 .. items - 1
        BY <1>3
    <2> HIDE DEF items
    <2> QED
        BY <2>1
<1>5. getItem(obj, 0) = Single(TitleOf(m, t.type))
    BY <1>1, FirstItems
<1>6. /\ getItem(tx, 0) = Single(TitleOf(Method, Type))
      /\ Method = METHOD_SPAWN /\ Type \in {MULTISIG, VESTING} => getItem(tx, 3) = Single("numberOfPubkeys")
    BY <1>2, FirstItems DEF Method, Type, Count
<1>7. getItem(obj, 0) = Screens[0]
    BY <1>4, SameScreens
<1>8. Single(TitleOf(m, t.type)) = Single(TitleOf(Method, Type))
    <2> HIDE DEF obj
    <2> QED
        BY <1>3, <1>4, <1>5, <1>6, <1>7
<1>9. TitleOf(m, t.type) = TitleOf(Method, Type)
    BY <1>8 DEF Single
<1>10. Method = m /\ (Method = METHOD_SPAWN => Type = t.type)
    BY <1>1, <1>2, <1>9, TitlesDiffer
<1>11. ASSUME Method = METHOD_SPAWN, Type \in {MULTISIG, VESTING} PROVE Count = c
    <2>1. 3 \in DOMAIN Screens
        BY <1>11, MultisigScreens DEF Type
    <2>2. Screens[3] = Single("numberOfPubkeys")
        BY <1>3, <1>6, <1>11, <2>1
    <2>3. Text(Screens[3], t.number, upload, PartOf(t, Source(Screens[3]))) =
            Text(Screens[3], tx.number, payload, Stored(Source(Screens[3])))
        BY <2>1, SameScreens
    <2>4. Single("numberOfPubkeys").name = "numberOfPubkeys" /\ "numberOfPubkeys" \in DOMAIN CompactMax
        BY DEF Single, CompactMax
    <2>5. \A number, bytes, slice : Text(Single("numberOfPubkeys"), number, bytes, slice) = number["numberOfPubkeys"]
        BY <2>4, TextOf
    <2> QED
        BY <2>2, <2>3, <2>5 DEF Count
<1> QED
    BY <1>10, <1>11

\* Its fields are in the same places.
LEMMA SameFields ==
    ASSUME IInv, CompleteInv, SequenceInv, WithinInv, pc = "review",
           NEW t \in Transactions, NEW upload, IsTransaction(upload, t), ScreensOf(upload, t) = ShownScreens
    PROVE  /\ Len(read) = Len(t.parts) /\ Len(read) \in Nat
           /\ \A k \in 1 .. Len(read) : t.parts[k].field = read[k].field
           /\ \A j, k \in 1 .. Len(read) : t.parts[j].field = t.parts[k].field => j = k
<1> SUFFICES ASSUME NEW m, m = t.number["methodSelector"], NEW c, c = t.number["numberOfPubkeys"],
                    NEW type, type = t.type
             PROVE  /\ Len(read) = Len(t.parts) /\ Len(read) \in Nat
                    /\ \A k \in 1 .. Len(read) : t.parts[k].field = read[k].field
                    /\ \A j, k \in 1 .. Len(read) : t.parts[j].field = t.parts[k].field => j = k
    OBVIOUS
<1>1. /\ m \in Methods /\ c \in Nat /\ (m = METHOD_SPAWN => type \in {WALLET, MULTISIG, VESTING, VAULT})
      /\ Len(t.parts) = Known(9, m, type, c)
      /\ \A k \in 1 .. Len(t.parts) : t.parts[k].field = At(k, m, type, c)
    BY TransactionAt
<1>2. /\ Method = m /\ (Method = METHOD_SPAWN => Type = type)
      /\ Method = METHOD_SPAWN /\ Type \in {MULTISIG, VESTING} => Count = c
    BY SameKind
<1>3. /\ Sequenced /\ todo = <<>> /\ read \in Seq(Part) /\ Count \in Nat
    BY DEF SequenceInv, CompleteInv, IInv, TypeOK, Count, CompactMax
<1>4. Len(read) \in Nat /\ Len(read) = Known(Len(read), Method, Type, Count)
    BY <1>3 DEF Sequenced
<1>5. Len(read) = Known(9, Method, Type, Count)
    <2> DEFINE n == Len(read)
    <2>1. n \in Nat /\ n = Known(n, Method, Type, Count)
        BY <1>4
    <2> HIDE DEF n
    <2>2. n = Known(9, Method, Type, Count)
        BY <1>1, <1>2, <1>3, <2>1, KnownWhole
    <2> QED
        BY <2>2 DEF n
<1>6. /\ Known(9, Method, Type, Count) = Known(9, m, type, c)
      /\ \A k \in 1 .. Known(9, Method, Type, Count) : At(k, Method, Type, Count) = At(k, m, type, c)
    BY <1>1, <1>2, <1>3, KnownAgrees
<1>7. \A k \in 1 .. Len(read) : read[k].field = At(k, Method, Type, Count)
    BY <1>3 DEF Sequenced
<1>8. ASSUME NEW j \in 1 .. Len(read), NEW k \in 1 .. Len(read), t.parts[j].field = t.parts[k].field
      PROVE  j = k
    <2>1. At(j, m, type, c) = At(k, m, type, c)
        BY <1>1, <1>5, <1>6, <1>8
    <2> QED
        BY <1>1, <1>5, <1>6, <2>1, OnePlaceEach
<1> QED
    BY <1>1, <1>4, <1>5, <1>6, <1>7, <1>8

\* A field that has a screen is the same.
LEMMA SameField ==
    ASSUME IInv, CompleteInv, SequenceInv, WithinInv, pc = "review",
           NEW t \in Transactions, NEW upload, IsTransaction(upload, t), ScreensOf(upload, t) = ShownScreens,
           NEW k \in 1 .. Len(read), read[k].field.name \notin Hidden
    PROVE  IF read[k].field.name \in DOMAIN CompactMax
           THEN tx.number[read[k].field.name] = t.number[read[k].field.name]
           ELSE BytesAt(payload, read[k]) = BytesAt(upload, t.parts[k])
<1> SUFFICES ASSUME NEW field, field = read[k].field
             PROVE  IF field.name \in DOMAIN CompactMax THEN tx.number[field.name] = t.number[field.name]
                    ELSE BytesAt(payload, read[k]) = BytesAt(upload, t.parts[k])
    OBVIOUS
<1>1. field \in {x \in ReadFields : x.name \notin Hidden}
    BY DEF ReadFields
<1>2. field \in Shown /\ field.name \in FieldName
    BY <1>1, ReviewMatches DEF ScreensMatch
<1>3. PICK idx \in DOMAIN Screens : Screens[idx] = field
    BY <1>2 DEF Shown
<1>4. Source(field) = field
    <2>1. field.name # "Address"
        BY <1>2, Names DEF FieldNames
    <2> QED
        BY <2>1 DEF Source
<1>5. Text(field, t.number, upload, PartOf(t, field)) = Text(field, tx.number, payload, Stored(field))
    BY <1>3, <1>4, SameScreens
<1>6. CASE field.name \in DOMAIN CompactMax
    BY <1>5, <1>6, TextOf
<1>7. CASE field.name \notin DOMAIN CompactMax
    <2>1. field.name \in DOMAIN FixedLength
        BY <1>2, <1>7 DEF FieldName
    <2>2. BytesAt(upload, PartOf(t, field)) = BytesAt(payload, Stored(field))
        BY <1>4, <1>5, <1>7, <2>1, TextOf
    <2>3. Stored(field) = [ptr |-> read[k].ptr, len |-> read[k].len]
        <3>1. Holds(tx, payload, read[k])
            BY DEF IInv, Tiles
        <3> QED
            BY <1>7, <3>1 DEF Holds, HeldBy, Stored
    <2>4. BytesAt(payload, Stored(field)) = BytesAt(payload, read[k])
        <3> DEFINE held == [ptr |-> read[k].ptr, len |-> read[k].len]
        <3>1. held.ptr = read[k].ptr /\ held.len = read[k].len
            OBVIOUS
        <3>2. Stored(field) = held
            BY <2>3
        <3> HIDE DEF held
        <3> QED
            BY <3>1, <3>2, Zenon DEF BytesAt
    <2>5. PartOf(t, field) = t.parts[k]
        <3>1. /\ Len(read) = Len(t.parts) /\ Len(read) \in Nat /\ t.parts[k].field = field
              /\ \A j \in 1 .. Len(read) : t.parts[j].field = field => j = k
            BY SameFields
        <3>2. DOMAIN t.parts = 1 .. Len(read)
            <4>1. t.parts \in Seq(Part)
                BY TransactionAt
            <4> QED
                BY <3>1, <4>1
        <3>3. t.parts[k] \in {t.parts[j] : j \in DOMAIN t.parts}
            BY <3>2
        <3>4. \A part \in {t.parts[j] : j \in DOMAIN t.parts} : part.field = field => part = t.parts[k]
            BY <3>1, <3>2
        <3> QED
            BY <3>1, <3>3, <3>4 DEF PartOf
    <2> QED
        BY <1>7, <2>2, <2>4, <2>5
<1> QED
    BY <1>6, <1>7

\* For any uploads and any transactions, what looks the same on the screens is of the same method
\* and the same type of account, with the same keys, addresses and amounts in the same
\* fields: no two screens of a review look alike for different reasons
\* (parser.c:79-132, 162-468).
THEOREM ScreensTellTheTransactionAlways == Spec => []ScreensTellTheTransaction
<1>1. IInv /\ CompleteInv /\ SequenceInv /\ WithinInv => ScreensTellTheTransaction
    <2> SUFFICES ASSUME IInv, CompleteInv, SequenceInv, WithinInv, pc = "review",
                        NEW t \in Transactions, NEW other \in Payloads,
                        IsTransaction(other, t), ScreensOf(other, t) = ShownScreens
                 PROVE  /\ tx.number["methodSelector"] = t.number["methodSelector"]
                        /\ t.number["methodSelector"] = METHOD_SPAWN => tx.account_type = t.type
                        /\ Len(read) = Len(t.parts)
                        /\ \A k \in 1 .. Len(read) :
                            /\ t.parts[k].field = read[k].field
                            /\ read[k].field.name \notin Hidden =>
                                IF read[k].field.name \in DOMAIN CompactMax
                                THEN tx.number[read[k].field.name] = t.number[read[k].field.name]
                                ELSE BytesAt(payload, read[k]) = BytesAt(other, t.parts[k])
        BY Zenon DEF ScreensTellTheTransaction
    <2>1. /\ tx.number["methodSelector"] = t.number["methodSelector"]
          /\ t.number["methodSelector"] = METHOD_SPAWN => tx.account_type = t.type
        BY SameKind DEF Method, Type
    <2>2. Len(read) = Len(t.parts) /\ \A k \in 1 .. Len(read) : t.parts[k].field = read[k].field
        BY SameFields
    <2>3. ASSUME NEW k \in 1 .. Len(read), read[k].field.name \notin Hidden
          PROVE  IF read[k].field.name \in DOMAIN CompactMax
                 THEN tx.number[read[k].field.name] = t.number[read[k].field.name]
                 ELSE BytesAt(payload, read[k]) = BytesAt(other, t.parts[k])
        BY <2>3, SameField
    <2> QED
        BY <2>1, <2>2, <2>3
<1>2. Spec => [](IInv /\ CompleteInv /\ SequenceInv /\ WithinInv)
    BY InitIInv, NextIInv, InitComplete, NextComplete, InitSequence, NextSequence, InitWithin, NextWithin,
       PTL DEF Spec
<1> QED
    BY <1>1, <1>2, PTL
=============================================================================
