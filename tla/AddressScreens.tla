--------------------------- MODULE AddressScreens ---------------------------
(***************************************************************************)
(* The review of an address: the three tables of app/src/addr.c (wallet,   *)
(* shared account, vault), each a number of items and a switch over the    *)
(* index, kept in step by hand.  The view asks for the number of items and *)
(* then for one after another, back and forth, and offers to approve after *)
(* the last (external).  This module composes the tables with              *)
(* AddressRequest, which has what the address was hashed from.             *)
(*                                                                         *)
(* A field on screen is a tuple of its label and its value; texts and the  *)
(* pages of a long value are left out.                                     *)
(***************************************************************************)
EXTENDS AddressRequest, FiniteSets

CONSTANTS
    INT_MAX,        \* The largest int: 2^31 - 1 in the code.
    Vaults,         \* The amounts and times of the vaults that are asked for.
    NoVault

UInt32 == 0 .. 2 * INT_MAX + 1

\* Of vault_account_t, what lies in front of the owner.
VaultInfo ==
    [totalAmount : Nat, initialUnlockAmount : Nat, vestingStart : UInt32, vestingEnd : UInt32]

ASSUME ScreensAssumption ==
    /\ INT_MAX \in Nat
    /\ Vaults \subseteq VaultInfo
    /\ NoVault \notin Vaults

VARIABLES
    vault,          \* The amounts and times in front of a vault's owner.
    expert,         \* app_mode_expert(); set in a menu, never during a review.
    reviewing,      \* The table in use: "none", "wallet", "multisigVesting", "vault".
    displayIdx,     \* The item on screen; -1 is the title.
    shown,          \* The fields shown so far.
    reached         \* How many items the owner has got to.

screenVars == <<reviewing, displayIdx, shown, reached>>

allVars == <<vars, vault, expert, screenVars>>

-----------------------------------------------------------------------------
\* The tables.

NoData == <<"no data">>

ReviewTitle(type) == <<"Review address", type>>

OwnAddress == <<"Address", "of this key">>

\* The path of a wallet, and of an account.
YourPath == <<"Your Path", "hdPath">>

HDPath == <<"HD Path", "hdPath">>

\* Mutant: the path is counted whether it is shown or not.
wallet_getNumItemsWithPath == 2

wallet_getNumItems == IF expert THEN 2 ELSE 1

wallet_getItem(idx) ==
    CASE idx = 0 -> OwnAddress
      [] idx = 1 /\ expert -> YourPath
      [] OTHER -> NoData

\* Mutant: the device's own key is not counted.
multisigVesting_getNumItemsWithoutOwnKey == (numberOfPubkeys + 4) % 256

multisigVesting_getNumItems == (numberOfPubkeys + 5) % 256

vault_getNumItems == (numberOfPubkeys + 7 + 2) % 256

\* The key of a participant, or of whatever slot a number out of range points to.
PubkeyField(index) ==
    LET tmpDisplayIdx == index % 256 IN
    <<"Pubkey", tmpDisplayIdx,
      IF tmpIndex(tmpDisplayIdx, request.internalIndex) \in DOMAIN request.keys
         \/ tmpDisplayIdx = request.internalIndex
      THEN getPublicKey(tmpDisplayIdx, request.internalIndex, request.keys)
      ELSE NoRequest>>

AccountTitle(type) ==
    CASE type = "MULTISIG" -> "Multisig" [] type = "VESTING" -> "Vesting" [] type = "VAULT" -> "Vault"

\* The index is compared as an int8_t and looked up as a uint8_t.
multisigVesting_getItem(idx) ==
    LET index == idx % 256 IN
    IF idx >= multisigVesting_getNumItems THEN NoData
    ELSE CASE index = 0 -> <<AccountTitle(request.type), hashed>>
           [] index = 1 -> HDPath
           [] index = 2 -> <<"Participants", request.participants>>
           [] index = 3 -> <<"Validators", request.approvers>>
           [] index = 255 -> ReviewTitle(request.type)
           [] OTHER -> PubkeyField(index - 4)

\* A uint32_t printed with %d.
AsInt(n) == IF n <= INT_MAX THEN n ELSE n - 2 * (INT_MAX + 1)

vault_getItem(idx) ==
    LET index == idx % 256 IN
    IF idx >= vault_getNumItems THEN NoData
    ELSE CASE index = 0 -> <<"Vault", hashed>>
           [] index = 1 -> HDPath
           [] index = 2 -> <<"TotalAmount", vault.totalAmount>>
           [] index = 3 -> <<"InitialUnlock", vault.initialUnlockAmount>>
           [] index = 4 -> <<"Start", AsInt(vault.vestingStart)>>
           [] index = 5 -> <<"End", AsInt(vault.vestingEnd)>>
           [] index = 6 -> <<"Participants", request.participants>>
           [] index = 7 -> <<"Validators", request.approvers>>
           [] index = 255 -> ReviewTitle("VAULT")
           [] OTHER -> PubkeyField(index - 8)

getNumItems ==
    CASE reviewing = "wallet" -> wallet_getNumItems
      [] reviewing = "multisigVesting" -> multisigVesting_getNumItems
      [] reviewing = "vault" -> vault_getNumItems

getItem(idx) ==
    CASE reviewing = "wallet" -> wallet_getItem(idx)
      [] reviewing = "multisigVesting" -> multisigVesting_getItem(idx)
      [] reviewing = "vault" -> vault_getItem(idx)

-----------------------------------------------------------------------------

ScreensInit ==
    /\ Init
    /\ vault = NoVault
    /\ expert \in BOOLEAN
    /\ reviewing = "none"
    /\ displayIdx = -1
    /\ shown = {}
    /\ reached = 0

OpenReview(table) ==
    /\ reviewing' = table
    /\ displayIdx' = -1
    /\ shown' = {}
    /\ reached' = 0

\* A wallet's address is on screen as soon as it is asked for.
ReviewWallet ==
    /\ pc = "idle"
    /\ reviewing = "none"
    /\ OpenReview("wallet")
    /\ UNCHANGED <<vars, vault, expert>>

ReceiveAccount ==
    /\ reviewing = "none"
    /\ Receive
    /\ vault' \in IF request'.type = "VAULT" THEN Vaults ELSE {NoVault}
    /\ UNCHANGED <<expert, screenVars>>

\* Mutant: a vault is a vesting account of its owner, and is reviewed as one.
TableOfOwner(type) == "multisigVesting"

TableOf(type) == IF type = "VAULT" THEN "vault" ELSE "multisigVesting"

\* The handler decides the request and opens the review of what it accepts.
DecideAccount ==
    /\ reviewing = "none"
    /\ Decide
    /\ IF pc' = "review"
       THEN OpenReview(TableOf(request.type))
       ELSE UNCHANGED screenVars
    /\ UNCHANGED <<vault, expert>>

\* The view moves by one item, or asks for one past the end and stays where it is.
Scroll ==
    /\ reviewing # "none"
    /\ \E idx \in {displayIdx - 1, displayIdx + 1} :
        /\ idx \in -1 .. 127
        /\ LET field == getItem(idx) IN
            IF field = NoData \/ idx < 0
            THEN /\ displayIdx' = IF field = NoData THEN displayIdx ELSE idx
                 /\ UNCHANGED <<shown, reached>>
            ELSE /\ displayIdx' = idx
                 /\ shown' = shown \cup {field}
                 /\ reached' = IF idx + 1 > reached THEN idx + 1 ELSE reached
    /\ UNCHANGED <<vars, vault, expert, reviewing>>

CloseReview ==
    /\ reviewing # "none"
    /\ reviewing' = "none"
    /\ displayIdx' = -1
    /\ shown' = {}
    /\ reached' = 0
    /\ vault' = NoVault
    /\ IF pc = "review" THEN Dismiss ELSE UNCHANGED vars
    /\ UNCHANGED expert

DismissRefused ==
    /\ pc = "refused"
    /\ Dismiss
    /\ vault' = NoVault
    /\ UNCHANGED <<expert, screenVars>>

\* The menu.
ToggleExpert ==
    /\ reviewing = "none"
    /\ pc = "idle"
    /\ expert' = ~expert
    /\ UNCHANGED <<vars, vault, screenVars>>

ScreensNext ==
    \/ ReviewWallet
    \/ ReceiveAccount
    \/ DecideAccount
    \/ Scroll
    \/ CloseReview
    \/ DismissRefused
    \/ ToggleExpert

ScreensSpec == ScreensInit /\ [][ScreensNext]_allVars

\* The handler runs by itself until it refuses or opens the review.
FairScreensSpec == ScreensSpec /\ WF_allVars(DecideAccount)

-----------------------------------------------------------------------------
\* Properties.

\* Types of the state; a table has the data it reads.
ScreensTypeOK ==
    /\ vault \in Vaults \cup {NoVault}
    /\ expert \in BOOLEAN
    /\ reviewing \in {"none", "wallet", "multisigVesting", "vault"}
    /\ displayIdx \in -1 .. 127
    /\ reached \in 0 .. 128
    /\ IsFiniteSet(shown)
    /\ pc = "review" <=> reviewing \in {"multisigVesting", "vault"}
    /\ vault # NoVault <=> pc # "idle" /\ request.type = "VAULT"
    /\ reviewing = "vault" <=> pc = "review" /\ vault # NoVault

\* The fields of a vault, its times the way an int reads them.
VaultFields(v) ==
    {<<"TotalAmount", v.totalAmount>>, <<"InitialUnlock", v.initialUnlockAmount>>,
     <<"Start", AsInt(v.vestingStart)>>, <<"End", AsInt(v.vestingEnd)>>}

\* The fields of what the address was hashed from, with the address and its path.
HashedFields ==
    {<<AccountTitle(request.type), hashed>>, HDPath,
     <<"Participants", Len(hashed)>>, <<"Validators", request.approvers>>}
    \cup {<<"Pubkey", k - 1, hashed[k]>> : k \in 1 .. Len(hashed)}
    \cup IF reviewing = "vault" THEN VaultFields(vault) ELSE {}

AtTheEnd == reviewing # "none" /\ reached = getNumItems

\* An owner who has scrolled through a shared account or a vault has seen everything its
\* address was hashed from, and nothing else: each participant's key under its own
\* number, the threshold and the vault's numbers.  The number of items, the switch and
\* the offset of the keys are three hand-kept counts in each table (addr.c:175-355).
\* Times from 2^31 on are shown as negative numbers, and yet no two vaults look the same.
WholeAccountShown ==
    AtTheEnd /\ reviewing # "wallet" =>
        /\ shown = HashedFields
        /\ reviewing = "vault" =>
            \A v \in Vaults : VaultFields(v) \subseteq shown => v = vault

\* Every item below the number of items is a field that no other item shows, and no
\* index from there on is one: the tables and their counts agree, for each type of
\* account, number of participants and mode (addr.c:126-157, 201-206, 280-286).
EachItemOnce ==
    reviewing # "none" =>
        /\ Cardinality(shown) = reached
        /\ \A idx \in 0 .. 127 : getItem(idx) # NoData <=> idx < getNumItems
=============================================================================
