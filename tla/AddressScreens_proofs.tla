----------------------- MODULE AddressScreens_proofs -----------------------
(***************************************************************************)
(* Proofs about AddressScreens for every set of requests and of vaults and *)
(* any width of an int: what AddressRequest promises carries over to the   *)
(* reviews, and the three tables agree with their counts.                  *)
(***************************************************************************)
EXTENDS AddressScreens, AddressRequest_proofs, FiniteSetTheorems

\* The items the owner has got to are those that were shown.
ReviewInv ==
    reviewing # "none" =>
        /\ reached <= getNumItems
        /\ displayIdx < reached
        /\ Cardinality(shown) = reached
        /\ \A k \in 0 .. reached - 1 : getItem(k) \in shown
        /\ \A field \in shown : \E k \in 0 .. reached - 1 : field = getItem(k)

ScreensInv ==
    /\ IInv
    /\ ScreensTypeOK
    /\ reviewing = "wallet" => pc = "idle"
    /\ ReviewInv

-----------------------------------------------------------------------------
\* The tables.

\* The items of a wallet.
LEMMA WalletItems ==
    ASSUME NEW k \in 0 .. 127, expert \in BOOLEAN
    PROVE  /\ wallet_getNumItems \in 1 .. 2
           /\ k = 0 => wallet_getItem(k) = OwnAddress
           /\ k = 1 /\ expert => wallet_getItem(k) = YourPath
           /\ k >= wallet_getNumItems => wallet_getItem(k) = NoData
<1>1. CASE k = 0
    BY <1>1 DEF wallet_getNumItems, wallet_getItem
<1>2. CASE k = 1 /\ expert
    BY <1>2 DEF wallet_getNumItems, wallet_getItem
<1>3. CASE k # 0 /\ ~(k = 1 /\ expert)
    BY <1>3 DEF wallet_getNumItems, wallet_getItem
<1> QED
    BY <1>1, <1>2, <1>3

\* The key on screen for a participant of an account that was accepted.
LEMMA PubkeyItem ==
    ASSUME NEW n \in 0 .. 7, request \in Request
    PROVE  PubkeyField(n) = <<"Pubkey", n, getPublicKey(n, request.internalIndex, request.keys)>>
<1>1. request.internalIndex \in 0 .. 255
    BY RequestFields
<1>2. tmpIndex(n, request.internalIndex) \in 0 .. 9
    BY <1>1 DEF tmpIndex
<1>3. DOMAIN request.keys = 0 .. 9
    BY DEF Request, MAX_MULTISIG_PUB_KEY
<1>4. n % 256 = n
    OBVIOUS
<1> QED
    BY <1>2, <1>3, <1>4 DEF PubkeyField

\* The items of a shared account.
LEMMA AccountItems ==
    ASSUME NEW k \in 0 .. 127, request \in Request, numberOfPubkeys \in 0 .. 7
    PROVE  /\ multisigVesting_getNumItems = numberOfPubkeys + 5
           /\ k = 0 => multisigVesting_getItem(k) = <<AccountTitle(request.type), hashed>>
           /\ k = 1 => multisigVesting_getItem(k) = HDPath
           /\ k = 2 => multisigVesting_getItem(k) = <<"Participants", request.participants>>
           /\ k = 3 => multisigVesting_getItem(k) = <<"Validators", request.approvers>>
           /\ k \in 4 .. numberOfPubkeys + 4 =>
                multisigVesting_getItem(k) =
                    <<"Pubkey", k - 4, getPublicKey(k - 4, request.internalIndex, request.keys)>>
           /\ k >= multisigVesting_getNumItems => multisigVesting_getItem(k) = NoData
<1>1. k % 256 = k /\ multisigVesting_getNumItems = numberOfPubkeys + 5
    BY DEF multisigVesting_getNumItems
<1>2. k = 0 => multisigVesting_getItem(k) = <<AccountTitle(request.type), hashed>>
    BY <1>1 DEF multisigVesting_getItem
<1>3. k = 1 => multisigVesting_getItem(k) = HDPath
    BY <1>1 DEF multisigVesting_getItem
<1>4. k = 2 => multisigVesting_getItem(k) = <<"Participants", request.participants>>
    BY <1>1 DEF multisigVesting_getItem
<1>5. k = 3 => multisigVesting_getItem(k) = <<"Validators", request.approvers>>
    BY <1>1 DEF multisigVesting_getItem
<1>6. ASSUME k \in 4 .. numberOfPubkeys + 4
      PROVE  multisigVesting_getItem(k) =
                <<"Pubkey", k - 4, getPublicKey(k - 4, request.internalIndex, request.keys)>>
    <2>1. ~(k >= multisigVesting_getNumItems) /\ k # 0 /\ k # 1 /\ k # 2 /\ k # 3 /\ k # 255
        BY <1>1, <1>6
    <2>2. multisigVesting_getItem(k) = PubkeyField(k - 4)
        BY <1>1, <2>1 DEF multisigVesting_getItem
    <2>3. k - 4 \in 0 .. 7
        BY <1>6
    <2> QED
        BY <2>2, <2>3, PubkeyItem
<1>7. k >= multisigVesting_getNumItems => multisigVesting_getItem(k) = NoData
    BY DEF multisigVesting_getItem
<1> QED
    BY <1>1, <1>2, <1>3, <1>4, <1>5, <1>6, <1>7

\* The items of a vault.
LEMMA VaultItems ==
    ASSUME NEW k \in 0 .. 127, request \in Request, numberOfPubkeys \in 0 .. 7
    PROVE  /\ vault_getNumItems = numberOfPubkeys + 9
           /\ k = 0 => vault_getItem(k) = <<"Vault", hashed>>
           /\ k = 1 => vault_getItem(k) = HDPath
           /\ k = 2 => vault_getItem(k) = <<"TotalAmount", vault.totalAmount>>
           /\ k = 3 => vault_getItem(k) = <<"InitialUnlock", vault.initialUnlockAmount>>
           /\ k = 4 => vault_getItem(k) = <<"Start", AsInt(vault.vestingStart)>>
           /\ k = 5 => vault_getItem(k) = <<"End", AsInt(vault.vestingEnd)>>
           /\ k = 6 => vault_getItem(k) = <<"Participants", request.participants>>
           /\ k = 7 => vault_getItem(k) = <<"Validators", request.approvers>>
           /\ k \in 8 .. numberOfPubkeys + 8 =>
                vault_getItem(k) =
                    <<"Pubkey", k - 8, getPublicKey(k - 8, request.internalIndex, request.keys)>>
           /\ k >= vault_getNumItems => vault_getItem(k) = NoData
<1>1. k % 256 = k /\ vault_getNumItems = numberOfPubkeys + 9
    BY DEF vault_getNumItems
<1>2. k = 0 => vault_getItem(k) = <<"Vault", hashed>>
    BY <1>1 DEF vault_getItem
<1>3. k = 1 => vault_getItem(k) = HDPath
    BY <1>1 DEF vault_getItem
<1>4. k = 2 => vault_getItem(k) = <<"TotalAmount", vault.totalAmount>>
    BY <1>1 DEF vault_getItem
<1>5. k = 3 => vault_getItem(k) = <<"InitialUnlock", vault.initialUnlockAmount>>
    BY <1>1 DEF vault_getItem
<1>6. k = 4 => vault_getItem(k) = <<"Start", AsInt(vault.vestingStart)>>
    BY <1>1 DEF vault_getItem
<1>7. k = 5 => vault_getItem(k) = <<"End", AsInt(vault.vestingEnd)>>
    BY <1>1 DEF vault_getItem
<1>8. k = 6 => vault_getItem(k) = <<"Participants", request.participants>>
    BY <1>1 DEF vault_getItem
<1>9. k = 7 => vault_getItem(k) = <<"Validators", request.approvers>>
    BY <1>1 DEF vault_getItem
<1>10. ASSUME k \in 8 .. numberOfPubkeys + 8
       PROVE  vault_getItem(k) =
                <<"Pubkey", k - 8, getPublicKey(k - 8, request.internalIndex, request.keys)>>
    <2>1. ~(k >= vault_getNumItems) /\ k # 0 /\ k # 1 /\ k # 2 /\ k # 3 /\ k # 4 /\ k # 5 /\ k # 6 /\ k # 7 /\ k # 255
        BY <1>1, <1>10
    <2>2. vault_getItem(k) = PubkeyField(k - 8)
        BY <1>1, <2>1 DEF vault_getItem
    <2>3. k - 8 \in 0 .. 7
        BY <1>10
    <2> QED
        BY <2>2, <2>3, PubkeyItem
<1>11. k >= vault_getNumItems => vault_getItem(k) = NoData
    BY DEF vault_getItem
<1> QED
    BY <1>1, <1>2, <1>3, <1>4, <1>5, <1>6, <1>7, <1>8, <1>9, <1>10, <1>11

\* Labels tell the fields of a table apart, and the number of the key the keys.
LEMMA FieldsDiffer ==
    ASSUME NEW a, NEW b, NEW c, NEW d, NEW m, NEW n
    PROVE  /\ <<a, c>> = <<b, d>> => a = b
           /\ <<a, c>> = <<"Pubkey", n, d>> => a = "Pubkey"
           /\ <<"Pubkey", m, c>> = <<"Pubkey", n, d>> => m = n
<1>1. <<a, c>>[1] = a /\ <<b, d>>[1] = b
    OBVIOUS
<1>2. <<"Pubkey", n, d>>[1] = "Pubkey" /\ <<"Pubkey", n, d>>[2] = n /\ <<"Pubkey", m, c>>[2] = m
    OBVIOUS
<1> QED
    BY <1>1, <1>2

\* No field of a table is the one that says there is none.
LEMMA FieldsAreData ==
    ASSUME NEW a, NEW c, NEW n
    PROVE  <<a, c>> # NoData /\ <<"Pubkey", n, c>> # NoData
<1>1. Len(<<a, c>>) = 2 /\ Len(<<"Pubkey", n, c>>) = 3 /\ Len(NoData) = 1
    BY DEF NoData
<1> QED
    BY <1>1

\* What a table promises.
TableOK(num, item(_)) ==
    /\ num \in 0 .. 127
    /\ \A k \in 0 .. 127 : item(k) # NoData <=> k < num
    /\ \A k, m \in 0 .. num - 1 : item(k) = item(m) => k = m

LEMMA WalletTable == ASSUME expert \in BOOLEAN PROVE TableOK(wallet_getNumItems, wallet_getItem)
<1>1. OwnAddress # NoData /\ YourPath # NoData
    BY FieldsAreData DEF OwnAddress, YourPath
<1>2. OwnAddress # YourPath
    BY FieldsDiffer DEF OwnAddress, YourPath
<1>3. wallet_getNumItems = IF expert THEN 2 ELSE 1
    BY DEF wallet_getNumItems
<1>4. \A k \in 0 .. 127 : wallet_getItem(k) # NoData <=> k < wallet_getNumItems
    <2> SUFFICES ASSUME NEW k \in 0 .. 127
                 PROVE  wallet_getItem(k) # NoData <=> k < wallet_getNumItems
        OBVIOUS
    <2> QED
        BY <1>1, <1>3, WalletItems
<1>5. \A k, m \in 0 .. wallet_getNumItems - 1 : wallet_getItem(k) = wallet_getItem(m) => k = m
    <2> SUFFICES ASSUME NEW k \in 0 .. wallet_getNumItems - 1, NEW m \in 0 .. wallet_getNumItems - 1,
                        wallet_getItem(k) = wallet_getItem(m)
                 PROVE  k = m
        OBVIOUS
    <2>0. wallet_getItem(k) = wallet_getItem(m)
        OBVIOUS
    <2>1. k \in 0 .. 1 /\ m \in 0 .. 1 /\ k \in 0 .. 127 /\ m \in 0 .. 127
        BY <1>3
    <2>2. (k = 1 => expert) /\ (m = 1 => expert)
        BY <1>3
    <2>3. wallet_getItem(k) = IF k = 0 THEN OwnAddress ELSE YourPath
        BY <2>1, <2>2, WalletItems
    <2>4. wallet_getItem(m) = IF m = 0 THEN OwnAddress ELSE YourPath
        BY <2>1, <2>2, WalletItems
    <2>5. CASE k = 0
        BY <2>1, <2>3, <2>4, <2>5, <1>2
    <2>6. CASE k = 1
        <3>1. wallet_getItem(k) = YourPath
            BY <2>3, <2>6
        <3>2. m = 0 => wallet_getItem(m) = OwnAddress
            BY <2>4
        <3>3. m # 0
            BY <2>0, <3>1, <3>2, <1>2
        <3> QED
            BY <2>1, <2>6, <3>3
    <2> QED
        BY <2>1, <2>5, <2>6
<1>6. wallet_getNumItems \in 0 .. 127
    BY <1>3
<1> QED
    BY <1>4, <1>5, <1>6 DEF TableOK

LEMMA AccountTable ==
    ASSUME request \in Request, numberOfPubkeys \in 0 .. 7
    PROVE  TableOK(multisigVesting_getNumItems, multisigVesting_getItem)
<1> DEFINE item(k) == multisigVesting_getItem(k)
           label(k) == CASE k = 0 -> AccountTitle(request.type) [] k = 1 -> "HD Path"
                         [] k = 2 -> "Participants" [] k = 3 -> "Validators" [] OTHER -> "Pubkey"
<1>1. multisigVesting_getNumItems = numberOfPubkeys + 5
    BY DEF multisigVesting_getNumItems
<1>2. AccountTitle(request.type) \in {"Multisig", "Vesting", "Vault"}
    BY DEF Request, AccountTitle
<1>3. ASSUME NEW k \in 0 .. numberOfPubkeys + 4
      PROVE  /\ k < 4 => \E x : item(k) = <<label(k), x>>
             /\ k >= 4 => \E x : item(k) = <<"Pubkey", k - 4, x>>
    <2>1. k \in 0 .. 127
        BY <1>3
    <2>2. k >= 4 => \E x : item(k) = <<"Pubkey", k - 4, x>>
        <3>1. k >= 4 => item(k) =
                <<"Pubkey", k - 4, getPublicKey(k - 4, request.internalIndex, request.keys)>>
            BY <1>3, <2>1, AccountItems
        <3> HIDE DEF item
        <3> QED
            BY <3>1
    <2>3. k = 0 => item(k) = <<label(k), hashed>>
        BY <2>1, AccountItems
    <2>4. k = 1 => \E x : item(k) = <<label(k), x>>
        <3>1. k = 1 => item(k) = HDPath /\ label(k) = "HD Path"
            BY <2>1, AccountItems
        <3> HIDE DEF item, label
        <3> QED
            BY <3>1, Zenon DEF HDPath
    <2>5. k = 2 => item(k) = <<label(k), request.participants>>
        BY <2>1, AccountItems
    <2>6. k = 3 => item(k) = <<label(k), request.approvers>>
        BY <2>1, AccountItems
    <2> HIDE DEF item, label
    <2> QED
        BY <2>1, <2>2, <2>3, <2>4, <2>5, <2>6
<1>4. ASSUME NEW k \in 0 .. 127 PROVE item(k) # NoData <=> k < multisigVesting_getNumItems
    <2>1. CASE k < numberOfPubkeys + 5
        <3> HIDE DEF item, label
        <3>1. CASE k < 4
            <4>1. PICK x : item(k) = <<label(k), x>>
                BY <1>3, <2>1, <3>1
            <4> QED
                BY <1>1, <2>1, <4>1, FieldsAreData
        <3>2. CASE k >= 4
            <4>1. PICK x : item(k) = <<"Pubkey", k - 4, x>>
                BY <1>3, <2>1, <3>2
            <4> QED
                BY <1>1, <2>1, <4>1, FieldsAreData
        <3> QED
            BY <3>1, <3>2
    <2>2. CASE k >= numberOfPubkeys + 5
        BY <1>1, <2>2, AccountItems
    <2> QED
        BY <2>1, <2>2
<1>5. ASSUME NEW k \in 0 .. numberOfPubkeys + 4, NEW m \in 0 .. numberOfPubkeys + 4, item(k) = item(m)
      PROVE  k = m
    <2>1. k < 4 /\ m < 4 => label(k) = label(m)
        <3> HIDE DEF item, label
        <3> QED
            BY <1>3, <1>5, FieldsDiffer
    <2>2. \A n \in 0 .. 3 : label(n) # "Pubkey"
        BY <1>2
    <2>3. k < 4 /\ m < 4 /\ label(k) = label(m) => k = m
        <3>1. label(0) = AccountTitle(request.type) /\ label(1) = "HD Path"
              /\ label(2) = "Participants" /\ label(3) = "Validators"
            OBVIOUS
        <3>2. label(0) # label(1) /\ label(0) # label(2) /\ label(0) # label(3)
              /\ label(1) # label(2) /\ label(1) # label(3) /\ label(2) # label(3)
            BY <1>2, <3>1
        <3> HIDE DEF label
        <3>3. k < 4 /\ m < 4 => k \in {0, 1, 2, 3} /\ m \in {0, 1, 2, 3}
            OBVIOUS
        <3> QED
            BY <3>2, <3>3
    <2>4. k >= 4 /\ m >= 4 => k = m
        <3> HIDE DEF item, label
        <3>1. k >= 4 /\ m >= 4 => k - 4 = m - 4
            BY <1>3, <1>5, FieldsDiffer
        <3> QED
            BY <3>1
    <2>5. ~(k < 4 /\ m >= 4) /\ ~(m < 4 /\ k >= 4)
        <3> HIDE DEF item, label
        <3> QED
            BY <1>3, <1>5, <2>2, FieldsDiffer
    <2> HIDE DEF item, label
    <2> QED
        BY <2>1, <2>3, <2>4, <2>5
<1> HIDE DEF item
<1>6. \A k \in 0 .. 127 : item(k) # NoData <=> k < multisigVesting_getNumItems
    BY <1>4
<1>7. \A k, m \in 0 .. multisigVesting_getNumItems - 1 : item(k) = item(m) => k = m
    BY <1>1, <1>5
<1> QED
    BY <1>1, <1>6, <1>7 DEF TableOK, item
LEMMA VaultTable ==
    ASSUME request \in Request, numberOfPubkeys \in 0 .. 7
    PROVE  TableOK(vault_getNumItems, vault_getItem)
<1> DEFINE item(k) == vault_getItem(k)
           label(k) == CASE k = 0 -> "Vault" [] k = 1 -> "HD Path"
                         [] k = 2 -> "TotalAmount" [] k = 3 -> "InitialUnlock"
                         [] k = 4 -> "Start" [] k = 5 -> "End"
                         [] k = 6 -> "Participants" [] k = 7 -> "Validators" [] OTHER -> "Pubkey"
<1>1. vault_getNumItems = numberOfPubkeys + 9
    BY DEF vault_getNumItems
<1>3. ASSUME NEW k \in 0 .. numberOfPubkeys + 8
      PROVE  /\ k < 8 => \E x : item(k) = <<label(k), x>>
             /\ k >= 8 => \E x : item(k) = <<"Pubkey", k - 8, x>>
    <2>1. k \in 0 .. 127
        BY <1>3
    <2>2. k >= 8 => \E x : item(k) = <<"Pubkey", k - 8, x>>
        <3>1. k >= 8 => item(k) =
                <<"Pubkey", k - 8, getPublicKey(k - 8, request.internalIndex, request.keys)>>
            <4>1. k >= 8 => k \in 8 .. numberOfPubkeys + 8
                BY <1>3
            <4> QED
                BY <2>1, <4>1, VaultItems
        <3> HIDE DEF item
        <3> QED
            BY <3>1
    <2>3. k = 0 => item(k) = <<label(k), hashed>>
        BY <2>1, VaultItems
    <2>4. k = 1 => \E x : item(k) = <<label(k), x>>
        <3>1. k = 1 => item(k) = HDPath /\ label(k) = "HD Path"
            BY <2>1, VaultItems
        <3> HIDE DEF item, label
        <3> QED
            BY <3>1, Zenon DEF HDPath
    <2>5. k = 2 => item(k) = <<label(k), vault.totalAmount>>
        BY <2>1, VaultItems
    <2>6. k = 3 => item(k) = <<label(k), vault.initialUnlockAmount>>
        BY <2>1, VaultItems
    <2>7. k = 4 => item(k) = <<label(k), AsInt(vault.vestingStart)>>
        BY <2>1, VaultItems
    <2>8. k = 5 => item(k) = <<label(k), AsInt(vault.vestingEnd)>>
        BY <2>1, VaultItems
    <2>9. k = 6 => item(k) = <<label(k), request.participants>>
        BY <2>1, VaultItems
    <2>10. k = 7 => item(k) = <<label(k), request.approvers>>
        BY <2>1, VaultItems
    <2> HIDE DEF item, label
    <2> QED
        BY <2>1, <2>2, <2>3, <2>4, <2>5, <2>6, <2>7, <2>8, <2>9, <2>10
<1>4. ASSUME NEW k \in 0 .. 127 PROVE item(k) # NoData <=> k < vault_getNumItems
    <2>1. CASE k < numberOfPubkeys + 9
        <3> HIDE DEF item, label
        <3>1. CASE k < 8
            <4>1. PICK x : item(k) = <<label(k), x>>
                BY <1>3, <2>1, <3>1
            <4> QED
                BY <1>1, <2>1, <4>1, FieldsAreData
        <3>2. CASE k >= 8
            <4>1. PICK x : item(k) = <<"Pubkey", k - 8, x>>
                BY <1>3, <2>1, <3>2
            <4> QED
                BY <1>1, <2>1, <4>1, FieldsAreData
        <3> QED
            BY <3>1, <3>2
    <2>2. CASE k >= numberOfPubkeys + 9
        BY <1>1, <2>2, VaultItems
    <2> QED
        BY <2>1, <2>2
<1>5. ASSUME NEW k \in 0 .. numberOfPubkeys + 8, NEW m \in 0 .. numberOfPubkeys + 8, item(k) = item(m)
      PROVE  k = m
    <2>1. k < 8 /\ m < 8 => label(k) = label(m)
        <3> HIDE DEF item, label
        <3> QED
            BY <1>3, <1>5, FieldsDiffer
    <2>2. \A n \in 0 .. 7 : label(n) # "Pubkey"
        OBVIOUS
    <2>3. k < 8 /\ m < 8 /\ label(k) = label(m) => k = m
        <3>1. label(0) = "Vault" /\ label(1) = "HD Path" /\ label(2) = "TotalAmount"
              /\ label(3) = "InitialUnlock" /\ label(4) = "Start" /\ label(5) = "End"
              /\ label(6) = "Participants" /\ label(7) = "Validators"
            OBVIOUS
        <3>2. \A n, o \in {0, 1, 2, 3, 4, 5, 6, 7} : label(n) = label(o) => n = o
            <4> HIDE DEF label
            <4> QED
                BY <3>1
        <3> HIDE DEF label
        <3>3. k < 8 /\ m < 8 => k \in {0, 1, 2, 3, 4, 5, 6, 7} /\ m \in {0, 1, 2, 3, 4, 5, 6, 7}
            OBVIOUS
        <3> QED
            BY <3>2, <3>3
    <2>4. k >= 8 /\ m >= 8 => k = m
        <3> HIDE DEF item, label
        <3>1. k >= 8 /\ m >= 8 => k - 8 = m - 8
            BY <1>3, <1>5, FieldsDiffer
        <3> QED
            BY <3>1
    <2>5. ~(k < 8 /\ m >= 8) /\ ~(m < 8 /\ k >= 8)
        <3> HIDE DEF item, label
        <3> QED
            BY <1>3, <1>5, <2>2, FieldsDiffer
    <2> HIDE DEF item, label
    <2> QED
        BY <2>1, <2>3, <2>4, <2>5
<1> HIDE DEF item
<1>6. \A k \in 0 .. 127 : item(k) # NoData <=> k < vault_getNumItems
    BY <1>4
<1>7. \A k, m \in 0 .. vault_getNumItems - 1 : item(k) = item(m) => k = m
    BY <1>1, <1>5
<1> QED
    BY <1>1, <1>6, <1>7 DEF TableOK, item

\* The table of the review in progress.
LEMMA ReviewTable ==
    ASSUME TypeOK, ScreensTypeOK, reviewing # "none"
    PROVE  TableOK(getNumItems, getItem)
<1>1. CASE reviewing = "wallet"
    <2>1. getNumItems = wallet_getNumItems /\ \A k : getItem(k) = wallet_getItem(k)
        BY <1>1 DEF getNumItems, getItem
    <2>2. TableOK(wallet_getNumItems, wallet_getItem)
        BY WalletTable DEF ScreensTypeOK
    <2> QED
        BY <2>1, <2>2 DEF TableOK
<1>2. CASE reviewing = "multisigVesting"
    <2>1. getNumItems = multisigVesting_getNumItems /\ \A k : getItem(k) = multisigVesting_getItem(k)
        BY <1>2 DEF getNumItems, getItem
    <2>2. request \in Request /\ numberOfPubkeys \in 0 .. 7
        BY <1>2 DEF TypeOK, ScreensTypeOK
    <2>3. TableOK(multisigVesting_getNumItems, multisigVesting_getItem)
        BY <2>2, AccountTable
    <2> QED
        BY <2>1, <2>3 DEF TableOK
<1>3. CASE reviewing = "vault"
    <2>1. getNumItems = vault_getNumItems /\ \A k : getItem(k) = vault_getItem(k)
        BY <1>3 DEF getNumItems, getItem
    <2>2. request \in Request /\ numberOfPubkeys \in 0 .. 7
        BY <1>3 DEF TypeOK, ScreensTypeOK
    <2>3. TableOK(vault_getNumItems, vault_getItem)
        BY <2>2, VaultTable
    <2> QED
        BY <2>1, <2>3 DEF TableOK
<1> QED
    BY <1>1, <1>2, <1>3 DEF ScreensTypeOK

-----------------------------------------------------------------------------
\* The steps.

\* Every step of the reviews is a step of the requests, or none.
LEMMA ReviewsStepRequests == [ScreensNext]_allVars => [Next]_vars
BY DEF ScreensNext, allVars, Next, ReviewWallet, ReceiveAccount, DecideAccount, Scroll, CloseReview,
       DismissRefused, ToggleExpert

LEMMA InitScreensInv == ScreensInit => ScreensInv
<1> SUFFICES ASSUME ScreensInit PROVE ScreensInv
    OBVIOUS
<1>1. IInv
    BY InitIInv DEF ScreensInit
<1>2. ScreensTypeOK
    BY FS_EmptySet DEF ScreensInit, ScreensTypeOK, Init
<1>3. ReviewInv /\ (reviewing = "wallet" => pc = "idle")
    BY DEF ReviewInv, ScreensInit
<1> QED
    BY <1>1, <1>2, <1>3 DEF ScreensInv

\* Nothing the tables read changes while the owner scrolls.
LEMMA TableUnchanged ==
    ASSUME UNCHANGED <<vars, vault, expert, reviewing>>
    PROVE  getNumItems' = getNumItems /\ \A k : getItem(k)' = getItem(k)
BY DEF vars, getNumItems, wallet_getNumItems, multisigVesting_getNumItems, vault_getNumItems,
       getItem, wallet_getItem, multisigVesting_getItem, vault_getItem, PubkeyField

\* A review that is opened has shown nothing.
LEMMA OpenedReview ==
    ASSUME NEW table \in {"wallet", "multisigVesting", "vault"}, OpenReview(table), getNumItems' \in Nat
    PROVE  ReviewInv' /\ displayIdx' \in -1 .. 127 /\ reached' \in 0 .. 128 /\ IsFiniteSet(shown')
           /\ reviewing' = table
BY FS_EmptySet DEF OpenReview, ReviewInv

\* Scrolling.
LEMMA ScrollInv == ScreensInv /\ Scroll => ScreensTypeOK' /\ ReviewInv'
<1> SUFFICES ASSUME ScreensInv, Scroll PROVE ScreensTypeOK' /\ ReviewInv'
    OBVIOUS
<1> DEFINE num == getNumItems
           item(k) == getItem(k)
<1>1. TypeOK /\ ScreensTypeOK /\ reviewing # "none" /\ ReviewInv
    BY DEF ScreensInv, IInv, Scroll
<1>2. TableOK(getNumItems, getItem)
    BY <1>1, ReviewTable
<1>3. UNCHANGED <<vars, vault, expert, reviewing>>
    BY DEF Scroll
<1>4. num' = num /\ \A k : item(k)' = item(k)
    BY <1>3, TableUnchanged
<1>5. /\ displayIdx \in -1 .. 127 /\ reached \in 0 .. 128 /\ IsFiniteSet(shown)
      /\ reached <= num /\ displayIdx < reached /\ Cardinality(shown) = reached
      /\ \A k \in 0 .. reached - 1 : item(k) \in shown
      /\ \A field \in shown : \E k \in 0 .. reached - 1 : field = item(k)
    BY <1>1 DEF ScreensTypeOK, ReviewInv
<1>6. PICK idx \in -1 .. 127 :
        /\ idx \in {displayIdx - 1, displayIdx + 1}
        /\ IF item(idx) = NoData \/ idx < 0
           THEN /\ displayIdx' = IF item(idx) = NoData THEN displayIdx ELSE idx
                /\ UNCHANGED <<shown, reached>>
           ELSE /\ displayIdx' = idx
                /\ shown' = shown \cup {item(idx)}
                /\ reached' = IF idx + 1 > reached THEN idx + 1 ELSE reached
    BY DEF Scroll
<1> HIDE DEF num, item
<1>7. num \in 0 .. 127 /\ (\A k \in 0 .. 127 : item(k) # NoData <=> k < num)
      /\ (\A k, m \in 0 .. num - 1 : item(k) = item(m) => k = m)
    BY <1>2 DEF TableOK, num, item
<1>8. /\ displayIdx' \in -1 .. 127 /\ reached' \in 0 .. 128 /\ IsFiniteSet(shown')
      /\ reached' <= num /\ displayIdx' < reached' /\ Cardinality(shown') = reached'
      /\ \A k \in 0 .. reached' - 1 : item(k) \in shown'
      /\ \A field \in shown' : \E k \in 0 .. reached' - 1 : field = item(k)
    <2>1. CASE item(idx) = NoData \/ idx < 0
        <3>1. displayIdx' \in -1 .. 127 /\ displayIdx' < reached
            BY <1>5, <1>6, <2>1
        <3> QED
            BY <1>5, <1>6, <2>1, <3>1
    <2>2. CASE ~(item(idx) = NoData \/ idx < 0) /\ idx < reached
        <3>1. item(idx) \in shown
            BY <1>5, <1>6, <2>2
        <3>2. shown' = shown /\ reached' = reached /\ displayIdx' = idx
            BY <1>5, <1>6, <2>2, <3>1
        <3> QED
            BY <1>5, <1>6, <2>2, <3>2
    <2>3. CASE ~(item(idx) = NoData \/ idx < 0) /\ ~(idx < reached)
        <3>1. idx = reached /\ idx \in 0 .. 127
            BY <1>5, <1>6, <2>3
        <3>2. idx < num
            BY <1>7, <2>3, <3>1
        <3>3. item(idx) \notin shown
            <4> SUFFICES ASSUME item(idx) \in shown PROVE FALSE
                OBVIOUS
            <4>1. PICK k \in 0 .. reached - 1 : item(idx) = item(k)
                BY <1>5
            <4>2. k \in 0 .. num - 1 /\ idx \in 0 .. num - 1 /\ k # idx
                BY <1>5, <1>7, <3>1, <3>2
            <4> QED
                BY <1>7, <4>1, <4>2
        <3>4. /\ displayIdx' = idx /\ shown' = shown \cup {item(idx)} /\ reached' = reached + 1
            BY <1>5, <1>6, <2>3, <3>1
        <3>5. IsFiniteSet(shown') /\ Cardinality(shown') = reached + 1
            BY <1>5, <3>3, <3>4, FS_AddElement
        <3>6. \A k \in 0 .. reached' - 1 : item(k) \in shown'
            <4> SUFFICES ASSUME NEW k \in 0 .. reached' - 1 PROVE item(k) \in shown'
                OBVIOUS
            <4>1. k = idx \/ k \in 0 .. reached - 1
                BY <1>5, <3>1, <3>4
            <4> QED
                BY <1>5, <3>4, <4>1
        <3>7. \A field \in shown' : \E k \in 0 .. reached' - 1 : field = item(k)
            <4> SUFFICES ASSUME NEW field \in shown' PROVE \E k \in 0 .. reached' - 1 : field = item(k)
                OBVIOUS
            <4>1. CASE field \in shown
                <5>1. PICK k \in 0 .. reached - 1 : field = item(k)
                    BY <1>5, <4>1
                <5>2. k \in 0 .. reached' - 1
                    BY <1>5, <3>4
                <5> QED
                    BY <5>1, <5>2
            <4>2. CASE field = item(idx)
                <5>1. idx \in 0 .. reached' - 1
                    BY <1>5, <3>1, <3>4
                <5> QED
                    BY <4>2, <5>1
            <4> QED
                BY <3>4, <4>1, <4>2
        <3>8. /\ displayIdx' \in -1 .. 127 /\ reached' \in 0 .. 128 /\ reached' <= num
              /\ displayIdx' < reached'
            BY <1>5, <1>7, <3>1, <3>2, <3>4
        <3> QED
            BY <3>4, <3>5, <3>6, <3>7, <3>8
    <2> QED
        BY <2>1, <2>2, <2>3
<1>9. ScreensTypeOK'
    BY <1>1, <1>3, <1>8 DEF ScreensTypeOK, vars
<1>10. ReviewInv'
    <2>1. getNumItems' = num /\ \A k : getItem(k)' = item(k)
        BY <1>4 DEF num, item
    <2> QED
        BY <1>8, <2>1 DEF ReviewInv
<1> QED
    BY <1>9, <1>10

\* Every step keeps the invariant.
LEMMA NextScreensInv == ScreensInv /\ [ScreensNext]_allVars => ScreensInv'
<1> SUFFICES ASSUME ScreensInv, [ScreensNext]_allVars PROVE ScreensInv'
    OBVIOUS
<1>1. IInv /\ IInv' /\ TypeOK /\ TypeOK'
    BY ReviewsStepRequests, IInvInductive DEF ScreensInv, IInv
<1>2. ScreensTypeOK /\ ReviewInv /\ (reviewing = "wallet" => pc = "idle")
    BY DEF ScreensInv
<1>3. CASE ReviewWallet
    <2>1. OpenReview("wallet") /\ pc' = pc /\ pc = "idle" /\ request' = request /\ vault' = vault
          /\ expert' = expert
        BY <1>3 DEF ReviewWallet, vars
    <2>2. getNumItems' \in Nat
        BY <1>2, <2>1 DEF OpenReview, getNumItems, wallet_getNumItems
    <2>3. ReviewInv' /\ displayIdx' \in -1 .. 127 /\ reached' \in 0 .. 128 /\ IsFiniteSet(shown')
          /\ reviewing' = "wallet"
        BY <2>1, <2>2, OpenedReview
    <2>4. ScreensTypeOK'
        BY <1>2, <2>1, <2>3 DEF ScreensTypeOK
    <2> QED
        BY <1>1, <2>1, <2>3, <2>4 DEF ScreensInv
<1>4. CASE ReceiveAccount
    <2>1. /\ pc' = "sizes" /\ request' \in Requests /\ reviewing' = "none" /\ reviewing = "none"
          /\ vault' \in IF request'.type = "VAULT" THEN Vaults ELSE {NoVault}
          /\ UNCHANGED <<expert, displayIdx, shown, reached>>
        BY <1>4 DEF ReceiveAccount, Receive, screenVars
    <2>2. vault' # NoVault <=> request'.type = "VAULT"
        BY <2>1, ScreensAssumption
    <2>3. ScreensTypeOK' /\ ReviewInv'
        BY <1>2, <2>1, <2>2 DEF ScreensTypeOK, ReviewInv
    <2> QED
        BY <1>1, <2>1, <2>3 DEF ScreensInv
<1>5. CASE DecideAccount
    <2>1. /\ pc # "idle" /\ pc' # "idle" /\ pc # "review" /\ request' = request
          /\ reviewing = "none" /\ vault' = vault /\ expert' = expert
          /\ IF pc' = "review" THEN OpenReview(TableOf(request.type)) ELSE UNCHANGED screenVars
        BY <1>5 DEF DecideAccount, Decide, RefuseSizes, AcceptSizes, MatchInternal, MatchKey, RefuseKey,
                    Matched, RefuseSettings, StartHash, HashInternal, HashKey, HashDone
    <2>2. CASE pc' # "review"
        <3>1. UNCHANGED <<reviewing, displayIdx, shown, reached>>
            BY <2>1, <2>2 DEF screenVars
        <3>2. ScreensTypeOK' /\ ReviewInv'
            BY <1>2, <2>1, <2>2, <3>1 DEF ScreensTypeOK, ReviewInv
        <3> QED
            BY <1>1, <2>1, <3>1, <3>2 DEF ScreensInv
    <2>3. CASE pc' = "review"
        <3>1. OpenReview(TableOf(request.type)) /\ TableOf(request.type) \in {"multisigVesting", "vault"}
            BY <2>1, <2>3 DEF TableOf
        <3>2. numberOfPubkeys' \in 0 .. 7 /\ reviewing' = TableOf(request.type)
            BY <1>1, <3>1 DEF TypeOK, OpenReview
        <3>3. getNumItems' \in Nat
            BY <3>1, <3>2 DEF getNumItems, multisigVesting_getNumItems, vault_getNumItems
        <3>4. ReviewInv' /\ displayIdx' \in -1 .. 127 /\ reached' \in 0 .. 128 /\ IsFiniteSet(shown')
            BY <3>1, <3>3, OpenedReview
        <3>5. ScreensTypeOK'
            <4>1. vault # NoVault <=> request.type = "VAULT"
                BY <1>2, <2>1 DEF ScreensTypeOK
            <4>2. reviewing' = "vault" <=> vault' # NoVault
                BY <2>1, <3>2, <4>1 DEF TableOf
            <4> QED
                BY <1>2, <2>1, <2>3, <3>1, <3>2, <3>4, <4>1, <4>2 DEF ScreensTypeOK
        <3> QED
            BY <1>1, <3>1, <3>2, <3>4, <3>5 DEF ScreensInv
    <2> QED
        BY <2>2, <2>3
<1>6. CASE Scroll
    <2>1. UNCHANGED <<pc, reviewing>>
        BY <1>6 DEF Scroll, vars
    <2> QED
        BY <1>1, <1>2, <1>6, <2>1, ScrollInv DEF ScreensInv
<1>7. CASE CloseReview
    <2>1. /\ reviewing' = "none" /\ displayIdx' = -1 /\ shown' = {} /\ reached' = 0
          /\ vault' = NoVault /\ expert' = expert /\ reviewing # "none"
        BY <1>7 DEF CloseReview
    <2>2. pc' = "idle"
        BY <1>2, <1>7, <2>1 DEF CloseReview, Dismiss, vars, ScreensTypeOK
    <2>3. ScreensTypeOK' /\ ReviewInv'
        BY <1>2, <2>1, <2>2, FS_EmptySet DEF ScreensTypeOK, ReviewInv
    <2> QED
        BY <1>1, <2>2, <2>3 DEF ScreensInv
<1>8. CASE DismissRefused
    <2>1. pc = "refused" /\ pc' = "idle" /\ vault' = NoVault /\ UNCHANGED <<expert, screenVars>>
        BY <1>8 DEF DismissRefused, Dismiss
    <2>2. reviewing = "none" /\ UNCHANGED <<reviewing, displayIdx, shown, reached>>
        BY <1>2, <2>1 DEF ScreensTypeOK, screenVars
    <2>3. ScreensTypeOK' /\ ReviewInv'
        BY <1>2, <2>1, <2>2 DEF ScreensTypeOK, ReviewInv
    <2> QED
        BY <1>1, <2>1, <2>3 DEF ScreensInv
<1>9. CASE ToggleExpert
    <2>1. reviewing = "none" /\ expert' = ~expert /\ UNCHANGED <<vars, vault, screenVars>>
        BY <1>9 DEF ToggleExpert
    <2>2. ScreensTypeOK' /\ ReviewInv'
        BY <1>2, <2>1 DEF ScreensTypeOK, ReviewInv, vars, screenVars
    <2> QED
        BY <1>1, <1>2, <2>1, <2>2 DEF ScreensInv, vars, screenVars
<1>10. CASE UNCHANGED allVars
    <2>1. UNCHANGED <<vars, vault, expert, reviewing, displayIdx, shown, reached>>
        BY <1>10 DEF allVars, screenVars
    <2>2. getNumItems' = getNumItems /\ \A k : getItem(k)' = getItem(k)
        BY <2>1, TableUnchanged
    <2>3. ReviewInv'
        BY <1>2, <2>1, <2>2 DEF ReviewInv
    <2>4. ScreensTypeOK'
        BY <1>2, <2>1 DEF ScreensTypeOK, vars
    <2> QED
        BY <1>1, <1>2, <2>1, <2>3, <2>4 DEF ScreensInv, vars
<1> QED
    BY <1>3, <1>4, <1>5, <1>6, <1>7, <1>8, <1>9, <1>10 DEF ScreensNext

\* The state keeps its types, and the table on screen has the data it reads.
THEOREM ScreensTypeCorrect == ScreensSpec => []ScreensTypeOK
<1>1. ScreensInv => ScreensTypeOK
    BY DEF ScreensInv
<1> QED
    BY <1>1, InitScreensInv, NextScreensInv, PTL DEF ScreensSpec

\* The counts and the tables agree: every item once, and none behind the last.
THEOREM ItemsComeOnce == ScreensSpec => []EachItemOnce
<1>1. ScreensInv => EachItemOnce
    <2> SUFFICES ASSUME ScreensInv, reviewing # "none" PROVE EachItemOnce
        BY DEF EachItemOnce
    <2>1. TableOK(getNumItems, getItem)
        BY ReviewTable DEF ScreensInv, IInv
    <2>2. Cardinality(shown) = reached
        BY DEF ScreensInv, ReviewInv
    <2> QED
        BY <2>1, <2>2 DEF EachItemOnce, TableOK
<1> QED
    BY <1>1, InitScreensInv, NextScreensInv, PTL DEF ScreensSpec

-----------------------------------------------------------------------------
\* The fields.

\* The keys that were hashed, one per participant.
LEMMA HashedKeys ==
    ASSUME ScreensInv, pc = "review"
    PROVE  /\ request \in Request /\ numberOfPubkeys \in 0 .. 7
           /\ request.participants = numberOfPubkeys + 1 /\ Len(hashed) = numberOfPubkeys + 1
           /\ \A k \in 0 .. numberOfPubkeys :
                hashed[k + 1] = getPublicKey(k, request.internalIndex, request.keys)
<1>1. request \in Request /\ numberOfPubkeys \in 0 .. 7
    BY DEF ScreensInv, IInv, TypeOK
<1>2. request.participants = numberOfPubkeys + 1 /\ hashed = ShownKeys(request, numberOfPubkeys + 1)
    BY <1>1 DEF ScreensInv, IInv, LoopInv
<1>3. Len(hashed) = numberOfPubkeys + 1
    BY <1>1, <1>2 DEF ShownKeys
<1>4. \A k \in 0 .. numberOfPubkeys :
        hashed[k + 1] = getPublicKey(k, request.internalIndex, request.keys)
    BY <1>1, <1>2 DEF ShownKeys
<1> QED
    BY <1>1, <1>2, <1>3, <1>4

\* The keys' fields, by the numbers on screen.
LEMMA PubkeyFields ==
    ASSUME ScreensInv, pc = "review", NEW field
    PROVE  field \in {<<"Pubkey", k - 1, hashed[k]>> : k \in 1 .. Len(hashed)}
            <=> \E n \in 0 .. numberOfPubkeys :
                    field = <<"Pubkey", n, getPublicKey(n, request.internalIndex, request.keys)>>
<1> DEFINE shownKey(n) == getPublicKey(n, request.internalIndex, request.keys)
<1>1. numberOfPubkeys \in 0 .. 7 /\ Len(hashed) = numberOfPubkeys + 1
      /\ \A k \in 0 .. numberOfPubkeys : hashed[k + 1] = shownKey(k)
    BY HashedKeys
<1> HIDE DEF shownKey
<1>2. ASSUME NEW k \in 1 .. Len(hashed), field = <<"Pubkey", k - 1, hashed[k]>>
      PROVE  \E n \in 0 .. numberOfPubkeys : field = <<"Pubkey", n, shownKey(n)>>
    <2>1. k - 1 \in 0 .. numberOfPubkeys /\ (k - 1) + 1 = k
        BY <1>1, <1>2
    <2>2. hashed[k] = shownKey(k - 1)
        BY <1>1, <2>1
    <2> QED
        BY <1>2, <2>1, <2>2
<1>3. ASSUME NEW n \in 0 .. numberOfPubkeys, field = <<"Pubkey", n, shownKey(n)>>
      PROVE  \E k \in 1 .. Len(hashed) : field = <<"Pubkey", k - 1, hashed[k]>>
    <2>1. n + 1 \in 1 .. Len(hashed) /\ (n + 1) - 1 = n
        BY <1>1, <1>3
    <2>2. hashed[n + 1] = shownKey(n)
        BY <1>1, <1>3
    <2> QED
        BY <1>3, <2>1, <2>2
<1> QED
    BY <1>2, <1>3 DEF shownKey

\* At the end of a shared account.
LEMMA WholeAccount ==
    ASSUME ScreensInv, reviewing = "multisigVesting", reached = getNumItems
    PROVE  shown = HashedFields
<1> DEFINE item(k) == multisigVesting_getItem(k)
           keyItem(n) == <<"Pubkey", n, getPublicKey(n, request.internalIndex, request.keys)>>
           title == <<AccountTitle(request.type), hashed>>
           many == <<"Participants", request.participants>>
           least == <<"Validators", request.approvers>>
<1>1. pc = "review"
    BY DEF ScreensInv, ScreensTypeOK
<1>2. request \in Request /\ numberOfPubkeys \in 0 .. 7 /\ Len(hashed) = request.participants
    BY <1>1, HashedKeys
<1>3. reached = numberOfPubkeys + 5
    BY <1>2 DEF getNumItems, multisigVesting_getNumItems
<1>4. item(0) = title /\ item(1) = HDPath /\ item(2) = many /\ item(3) = least
    BY <1>2, AccountItems
<1>5. \A k \in 4 .. numberOfPubkeys + 4 : item(k) = keyItem(k - 4)
    <2> SUFFICES ASSUME NEW k \in 4 .. numberOfPubkeys + 4 PROVE item(k) = keyItem(k - 4)
        OBVIOUS
    <2>1. k \in 0 .. 127
        BY <1>2
    <2> QED
        BY <1>2, <2>1, AccountItems
<1>6. \A k : getItem(k) = item(k)
    BY DEF getItem
<1>7. /\ \A k \in 0 .. numberOfPubkeys + 4 : item(k) \in shown
      /\ \A field \in shown : \E k \in 0 .. numberOfPubkeys + 4 : field = item(k)
    <2>1. reached - 1 = numberOfPubkeys + 4
        BY <1>2, <1>3
    <2> QED
        BY <1>6, <2>1 DEF ScreensInv, ReviewInv
<1> HIDE DEF item
<1>8. ASSUME NEW field
      PROVE  field \in HashedFields
                <=> field \in {title, HDPath, many, least}
                    \/ \E n \in 0 .. numberOfPubkeys : field = keyItem(n)
    BY <1>1, <1>2, PubkeyFields DEF HashedFields
<1> HIDE DEF keyItem, title, many, least
<1>9. ASSUME NEW field \in HashedFields PROVE field \in shown
    <2>1. CASE field \in {title, HDPath, many, least}
        BY <1>2, <1>4, <1>7, <2>1
    <2>2. CASE \E n \in 0 .. numberOfPubkeys : field = keyItem(n)
        <3>1. PICK n \in 0 .. numberOfPubkeys : field = keyItem(n)
            BY <2>2
        <3>2. n + 4 \in 4 .. numberOfPubkeys + 4 /\ (n + 4) - 4 = n /\ n + 4 \in 0 .. numberOfPubkeys + 4
            BY <1>2
        <3>3. item(n + 4) = keyItem(n)
            BY <1>5, <3>2
        <3> QED
            BY <1>7, <3>1, <3>2, <3>3
    <2> QED
        BY <1>8, <1>9, <2>1, <2>2
<1>10. ASSUME NEW field \in shown PROVE field \in HashedFields
    <2>1. PICK k \in 0 .. numberOfPubkeys + 4 : field = item(k)
        BY <1>7, <1>10
    <2>2. CASE k \in 4 .. numberOfPubkeys + 4
        <3>1. k - 4 \in 0 .. numberOfPubkeys /\ field = keyItem(k - 4)
            BY <1>2, <1>5, <2>1, <2>2
        <3> QED
            BY <1>8, <3>1
    <2>3. CASE k \in {0, 1, 2, 3}
        BY <1>4, <1>8, <2>1, <2>3
    <2>4. k \in {0, 1, 2, 3} \/ k \in 4 .. numberOfPubkeys + 4
        BY <1>2
    <2> QED
        BY <2>2, <2>3, <2>4
<1> QED
    BY <1>9, <1>10
\* At the end of a vault.
LEMMA WholeVault ==
    ASSUME ScreensInv, reviewing = "vault", reached = getNumItems
    PROVE  shown = HashedFields
<1> DEFINE item(k) == vault_getItem(k)
           keyItem(n) == <<"Pubkey", n, getPublicKey(n, request.internalIndex, request.keys)>>
           title == <<"Vault", hashed>>
           total == <<"TotalAmount", vault.totalAmount>>
           unlock == <<"InitialUnlock", vault.initialUnlockAmount>>
           start == <<"Start", AsInt(vault.vestingStart)>>
           end == <<"End", AsInt(vault.vestingEnd)>>
           many == <<"Participants", request.participants>>
           least == <<"Validators", request.approvers>>
<1>1. pc = "review"
    BY DEF ScreensInv, ScreensTypeOK
<1>2. request \in Request /\ numberOfPubkeys \in 0 .. 7 /\ Len(hashed) = request.participants
    BY <1>1, HashedKeys
<1>3. reached = numberOfPubkeys + 9
    BY <1>2 DEF getNumItems, vault_getNumItems
<1>4. item(0) = title /\ item(1) = HDPath /\ item(2) = total /\ item(3) = unlock
      /\ item(4) = start /\ item(5) = end /\ item(6) = many /\ item(7) = least
    BY <1>2, VaultItems
<1>5. \A k \in 8 .. numberOfPubkeys + 8 : item(k) = keyItem(k - 8)
    <2> SUFFICES ASSUME NEW k \in 8 .. numberOfPubkeys + 8 PROVE item(k) = keyItem(k - 8)
        OBVIOUS
    <2>1. k \in 0 .. 127
        BY <1>2
    <2> QED
        BY <1>2, <2>1, VaultItems
<1>6. \A k : getItem(k) = item(k)
    BY DEF getItem
<1>7. /\ \A k \in 0 .. numberOfPubkeys + 8 : item(k) \in shown
      /\ \A field \in shown : \E k \in 0 .. numberOfPubkeys + 8 : field = item(k)
    <2>1. reached - 1 = numberOfPubkeys + 8
        BY <1>2, <1>3
    <2> QED
        BY <1>6, <2>1 DEF ScreensInv, ReviewInv
<1> HIDE DEF item
<1>8. ASSUME NEW field
      PROVE  field \in HashedFields
                <=> field \in {title, HDPath, total, unlock, start, end, many, least}
                    \/ \E n \in 0 .. numberOfPubkeys : field = keyItem(n)
    <2>1. title = <<AccountTitle(request.type), hashed>>
        <3>1. request.type = "VAULT"
            BY DEF ScreensInv, ScreensTypeOK
        <3> QED
            BY <3>1 DEF AccountTitle
    <2> QED
        BY <1>1, <1>2, <2>1, PubkeyFields DEF HashedFields, VaultFields
<1> HIDE DEF keyItem, title, total, unlock, start, end, many, least
<1>9. ASSUME NEW field \in HashedFields PROVE field \in shown
    <2>1. CASE field \in {title, HDPath, total, unlock, start, end, many, least}
        BY <1>2, <1>4, <1>7, <2>1
    <2>2. CASE \E n \in 0 .. numberOfPubkeys : field = keyItem(n)
        <3>1. PICK n \in 0 .. numberOfPubkeys : field = keyItem(n)
            BY <2>2
        <3>2. n + 8 \in 8 .. numberOfPubkeys + 8 /\ (n + 8) - 8 = n /\ n + 8 \in 0 .. numberOfPubkeys + 8
            BY <1>2
        <3>3. item(n + 8) = keyItem(n)
            BY <1>5, <3>2
        <3> QED
            BY <1>7, <3>1, <3>2, <3>3
    <2> QED
        BY <1>8, <1>9, <2>1, <2>2
<1>10. ASSUME NEW field \in shown PROVE field \in HashedFields
    <2>1. PICK k \in 0 .. numberOfPubkeys + 8 : field = item(k)
        BY <1>7, <1>10
    <2>2. CASE k \in 8 .. numberOfPubkeys + 8
        <3>1. k - 8 \in 0 .. numberOfPubkeys /\ field = keyItem(k - 8)
            BY <1>2, <1>5, <2>1, <2>2
        <3> QED
            BY <1>8, <3>1
    <2>3. CASE k \in {0, 1, 2, 3, 4, 5, 6, 7}
        BY <1>4, <1>8, <2>1, <2>3
    <2>4. k \in {0, 1, 2, 3, 4, 5, 6, 7} \/ k \in 8 .. numberOfPubkeys + 8
        BY <1>2
    <2> QED
        BY <2>2, <2>3, <2>4
<1> QED
    BY <1>9, <1>10
\* A number of 32 bits can be told from the int it is shown as.
LEMMA AsIntDiffers ==
    ASSUME NEW m \in UInt32, NEW n \in UInt32, AsInt(m) = AsInt(n)
    PROVE  m = n
<1>1. INT_MAX \in Nat /\ m \in 0 .. 2 * INT_MAX + 1 /\ n \in 0 .. 2 * INT_MAX + 1
    BY ScreensAssumption DEF UInt32
<1> QED
    BY <1>1 DEF AsInt

\* A vault can be told from its fields.
LEMMA VaultFieldsDiffer ==
    ASSUME NEW v \in Vaults, NEW w \in Vaults, NEW others,
           VaultFields(v) \subseteq VaultFields(w) \cup others,
           \A field \in others : field[1] \notin {"TotalAmount", "InitialUnlock", "Start", "End"}
    PROVE  v = w
<1> DEFINE text(name, x) == <<name, x>>
<1>1. \A name, x : text(name, x)[1] = name /\ text(name, x)[2] = x
    OBVIOUS
<1>2. \A u : VaultFields(u) =
        {text("TotalAmount", u.totalAmount), text("InitialUnlock", u.initialUnlockAmount),
         text("Start", AsInt(u.vestingStart)), text("End", AsInt(u.vestingEnd))}
    BY DEF VaultFields
<1> HIDE DEF text
<1>3. v.totalAmount = w.totalAmount
    <2>1. text("TotalAmount", v.totalAmount) \in VaultFields(w)
        BY <1>1, <1>2
    <2> QED
        BY <1>1, <1>2, <2>1
<1>4. v.initialUnlockAmount = w.initialUnlockAmount
    <2>1. text("InitialUnlock", v.initialUnlockAmount) \in VaultFields(w)
        BY <1>1, <1>2
    <2> QED
        BY <1>1, <1>2, <2>1
<1>5. AsInt(v.vestingStart) = AsInt(w.vestingStart)
    <2>1. text("Start", AsInt(v.vestingStart)) \in VaultFields(w)
        BY <1>1, <1>2
    <2> QED
        BY <1>1, <1>2, <2>1
<1>6. AsInt(v.vestingEnd) = AsInt(w.vestingEnd)
    <2>1. text("End", AsInt(v.vestingEnd)) \in VaultFields(w)
        BY <1>1, <1>2
    <2> QED
        BY <1>1, <1>2, <2>1
<1>7. v \in VaultInfo /\ w \in VaultInfo
    BY ScreensAssumption
<1>8. v.vestingStart = w.vestingStart /\ v.vestingEnd = w.vestingEnd
    BY <1>5, <1>6, <1>7, AsIntDiffers DEF VaultInfo
<1> QED
    BY <1>3, <1>4, <1>7, <1>8 DEF VaultInfo

\* Whoever has scrolled to the end has seen all that was hashed, and nothing else.
THEOREM OwnersSeeTheWholeAccount == ScreensSpec => []WholeAccountShown
<1>1. ScreensInv => WholeAccountShown
    <2> SUFFICES ASSUME ScreensInv, AtTheEnd, reviewing # "wallet" PROVE WholeAccountShown
        BY DEF WholeAccountShown
    <2>1. reached = getNumItems /\ reviewing \in {"multisigVesting", "vault"} /\ pc = "review"
        BY DEF AtTheEnd, ScreensInv, ScreensTypeOK
    <2>2. shown = HashedFields
        BY <2>1, WholeAccount, WholeVault
    <2>3. ASSUME reviewing = "vault", NEW v \in Vaults, VaultFields(v) \subseteq shown
          PROVE  v = vault
        <3> DEFINE others ==
                {<<AccountTitle(request.type), hashed>>, HDPath, <<"Participants", Len(hashed)>>,
                 <<"Validators", request.approvers>>}
                \cup {<<"Pubkey", k - 1, hashed[k]>> : k \in 1 .. Len(hashed)}
        <3>1. vault \in Vaults /\ request.type = "VAULT"
            BY <2>3 DEF ScreensInv, ScreensTypeOK
        <3>2. VaultFields(v) \subseteq VaultFields(vault) \cup others
            BY <2>2, <2>3 DEF HashedFields
        <3>3. \A field \in others : field[1] \notin {"TotalAmount", "InitialUnlock", "Start", "End"}
            <4>1. AccountTitle(request.type) = "Vault"
                BY <3>1 DEF AccountTitle
            <4>2. \A name, x : <<name, x>>[1] = name
                OBVIOUS
            <4>3. \A n, x : <<"Pubkey", n, x>>[1] = "Pubkey"
                OBVIOUS
            <4>4. HDPath[1] = "HD Path"
                BY DEF HDPath
            <4> SUFFICES ASSUME NEW field \in others
                         PROVE  field[1] \notin {"TotalAmount", "InitialUnlock", "Start", "End"}
                OBVIOUS
            <4>5. field[1] \in {"Vault", "HD Path", "Participants", "Validators", "Pubkey"}
                <5>1. CASE field \in {<<"Pubkey", k - 1, hashed[k]>> : k \in 1 .. Len(hashed)}
                    <6>1. PICK k \in 1 .. Len(hashed) : field = <<"Pubkey", k - 1, hashed[k]>>
                        BY <5>1
                    <6>2. field[1] = "Pubkey"
                        BY <4>3, <6>1
                    <6> QED
                        BY <6>2
                <5>2. CASE field = <<AccountTitle(request.type), hashed>>
                    BY <4>1, <4>2, <5>2
                <5>3. CASE field = HDPath
                    BY <4>4, <5>3
                <5>4. CASE field = <<"Participants", Len(hashed)>>
                    BY <4>2, <5>4
                <5>5. CASE field = <<"Validators", request.approvers>>
                    BY <4>2, <5>5
                <5> QED
                    BY <5>1, <5>2, <5>3, <5>4, <5>5
            <4> QED
                BY <4>5
        <3> HIDE DEF others
        <3> QED
            BY <3>1, <3>2, <3>3, VaultFieldsDiffer
    <2> QED
        BY <2>2, <2>3 DEF WholeAccountShown
<1> QED
    BY <1>1, InitScreensInv, NextScreensInv, PTL DEF ScreensSpec

\* The reviews implement the requests: all that AddressRequest promises holds of them.
THEOREM ReviewsImplementRequests == ScreensSpec => Spec
<1>1. ScreensInit => Init
    BY DEF ScreensInit
<1> QED
    BY <1>1, ReviewsStepRequests, PTL DEF ScreensSpec, Spec
=============================================================================
