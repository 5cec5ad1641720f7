-------------------------- MODULE MCAddressScreens --------------------------
(***************************************************************************)
(* The requests of MCAddressRequest, and well-formed ones of one to eight  *)
(* participants with the device's own key first, in the middle and last;   *)
(* vaults with times on both sides of the sign bit of an int of eight bits.*)
(***************************************************************************)
EXTENDS AddressScreens, MCAddressRequest

RequestOf(type, participants, internalIndex, approvers) ==
    [type |-> type, length |-> HeaderSize(type) + PUBKEY_ITEM_SIZE * (participants - 1),
     internalIndex |-> internalIndex, approvers |-> approvers, participants |-> participants,
     keys |-> Skipping(internalIndex)]

MCScreenRequests ==
    MCRequests \cup
    {RequestOf(type, participants, internalIndex, approvers) :
        type \in {"MULTISIG", "VESTING", "VAULT"}, participants \in 1 .. 8,
        internalIndex \in {0, 1, 4, 7}, approvers \in {1, 2}}

MCVaults ==
    {[totalAmount |-> 5, initialUnlockAmount |-> 2, vestingStart |-> start, vestingEnd |-> end] :
        start \in {127, 128}, end \in {255}}
=============================================================================
