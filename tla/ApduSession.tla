---------------------------- MODULE ApduSession ----------------------------
(***************************************************************************)
(* The command handler of the application: app/src/apdu_handler.c with the *)
(* callbacks of app/src/common/actions.h and the parts of common/tx.c,     *)
(* addr.c and crypto.c they call.  A host sends commands one at a time;    *)
(* five instructions share one chunked upload (P1 = init, add, last), one  *)
(* session flag and one HD path, and end in a review by the user.          *)
(*                                                                         *)
(* What a payload means is a parameter here (TxPayload, MessagePayload):   *)
(* the modules MessageReview and AddressRequest look inside.  The stored   *)
(* upload is the abstract one of UploadBuffer, which TxBuffer implements.  *)
(***************************************************************************)
EXTENDS Naturals, Sequences

CONSTANTS
    Byte,           \* The byte values that are told apart.
    Chunk,          \* The chunks a host sends.
    Capacity,       \* FLASH_BUFFER_SIZE.
    Path,           \* The HD paths a host sends, of the right length.
    ValidPath,      \* Those of the mainnet or the testnet.
    ZeroPath,       \* hdPath as the loader leaves it.
    BadLength,      \* A path field of the wrong length.
    TxPayload,      \* The uploads tx_parse accepts.
    MessagePayload, \* The uploads tx_message_parse accepts.
    Closed,
    NoRequest

AddressType == {"MULTISIG", "VESTING", "VAULT"}

Kind == AddressType \cup {"TX", "MESSAGE", "WALLET"}

Request == [kind : Kind, path : Path, payload : Seq(Byte)]

ASSUME BytesAssumption ==
    /\ Chunk \subseteq Seq(Byte)
    /\ Capacity \in Nat
    /\ TxPayload \subseteq Seq(Byte) \ {<<>>}
    /\ MessagePayload \subseteq Seq(Byte) \ {<<>>}

ASSUME PathAssumption ==
    /\ ValidPath \subseteq Path
    /\ ZeroPath \in Path \ ValidPath
    /\ BadLength \notin Path

ASSUME NothingAssumption ==
    /\ NoRequest \notin Request
    /\ Closed \notin [path : ValidPath, data : Seq(Byte)]

VARIABLES
    tx_initialized, \* The session flag (apdu_handler.c:35).
    hdPath,         \* The path all keys are derived from (parser.c:41).
    buffer,         \* The bytes buffering_get_buffer() returns.
    ctx,            \* What ctx_parsed_tx was last parsed as (tx.c:50).
    account_type,   \* addr_request.account_type (addr.c:32).
    io,             \* The address laid out in G_io_apdu_buffer, if any.
    review,         \* The callbacks of the review on screen, if any.
    locked,         \* The device has not validated its PIN.
    reply,          \* The last answer sent to the host.
    sent            \* History: what the host has handed over since it last
                    \* opened an upload, [path, data].

vars == <<tx_initialized, hdPath, buffer, ctx, account_type, io, review, locked, reply, sent>>

Buffer == INSTANCE UploadBuffer WITH content <- buffer

Status == {"OK", "NONE", "WRONG_LENGTH", "DATA_INVALID", "TX_NOT_INITIALIZED",
           "OUTPUT_BUFFER_TOO_SMALL", "INVALIDP1P2", "EXECUTION_ERROR", "CLA_NOT_SUPPORTED",
           "INS_NOT_SUPPORTED", "COMMAND_NOT_ALLOWED", "SIGN_VERIFY_ERROR", "REVIEW"}

ErrorText == {"none", "parser", "zxerr_unknown", "zxerr_invalid_crypto_settings"}

NoReview == [getItem |-> "none", approve |-> "none"]

Review == [getItem : {"none", "tx_getItem", "tx_message_getItem", "wallet_getItem",
                      "multisigVesting_getItem", "vault_getItem"},
           approve : {"none", "app_sign", "app_message_sign", "app_reply_address"}]

Reply == [sw : Status, text : ErrorText, granted : Request \cup {NoRequest}]

\* Types of the state.
TypeOK ==
    /\ tx_initialized \in BOOLEAN
    /\ hdPath \in Path
    /\ buffer \in Seq(Byte)
    /\ ctx \in {"NONE", "TX", "MESSAGE"}
    /\ account_type \in AddressType \cup {"UNKNOWN"}
    /\ io \in Request \cup {NoRequest}
    /\ review \in Review
    /\ locked \in BOOLEAN
    /\ reply \in Reply
    /\ sent \in [path : Path, data : Seq(Byte)]

-----------------------------------------------------------------------------
\* Answers.

Answered(sw) == reply' = [sw |-> sw, text |-> "none", granted |-> NoRequest]

AnsweredText(text) == reply' = [sw |-> "DATA_INVALID", text |-> text, granted |-> NoRequest]

Granted(request) == reply' = [sw |-> "OK", text |-> "none", granted |-> request]

\* The command keeps the screen: IO_ASYNCH_REPLY, the answer comes later.
Reviewing(callbacks) == review' = callbacks /\ Answered("REVIEW")

\* A command arrives only when the last one has been answered (external: io_exchange
\* does not return to app_main while IO_ASYNCH_REPLY is pending).
Received == review = NoReview

\* Every instruction but the version starts with CHECK_PIN_VALIDATED.
ReceivedUnlocked == Received /\ ~locked

\* The command is refused or answered at once: its bytes and the answer have
\* overwritten G_io_apdu_buffer, and nothing is put on the screen.
NoScreen == io' = NoRequest /\ UNCHANGED <<review, locked>>

-----------------------------------------------------------------------------
\* Power, link and lock.

Init ==
    /\ tx_initialized = FALSE
    /\ hdPath = ZeroPath
    /\ buffer = <<>>
    /\ ctx = "NONE"
    /\ account_type = "UNKNOWN"
    /\ io = NoRequest
    /\ review = NoReview
    /\ locked \in BOOLEAN
    /\ reply = [sw |-> "NONE", text |-> "none", granted |-> NoRequest]
    /\ sent = [path |-> ZeroPath, data |-> <<>>]

\* The application is left and started again: everything above is in RAM.
Restart ==
    /\ tx_initialized' = FALSE
    /\ hdPath' = ZeroPath
    /\ buffer' = <<>>
    /\ ctx' = "NONE"
    /\ account_type' = "UNKNOWN"
    /\ io' = NoRequest
    /\ review' = NoReview
    /\ Answered("NONE")
    /\ UNCHANGED <<locked, sent>>

\* EXCEPTION_IO_RESET goes through handleApdu to app_main, which starts the idle
\* view again.  No variable of the application is touched: an upload survives, and
\* so does what stands in the buffer of the last command.
IoReset ==
    /\ review' = NoReview
    /\ Answered("NONE")
    /\ UNCHANGED <<tx_initialized, hdPath, buffer, ctx, account_type, io, locked, sent>>

LockOrUnlock ==
    /\ locked' = ~locked
    /\ UNCHANGED <<tx_initialized, hdPath, buffer, ctx, account_type, io, review, reply, sent>>

-----------------------------------------------------------------------------
\* Commands that reach no handler, and the version.

sessionVars == <<tx_initialized, hdPath, buffer, ctx, account_type, sent>>

HandleGetVersion ==
    /\ Received
    /\ Answered("OK")
    /\ NoScreen
    /\ UNCHANGED sessionVars

Malformed ==
    /\ Received
    /\ \E sw \in {"CLA_NOT_SUPPORTED", "WRONG_LENGTH", "INS_NOT_SUPPORTED"} : Answered(sw)
    /\ NoScreen
    /\ UNCHANGED sessionVars

RefusedWhileLocked ==
    /\ Received
    /\ locked
    /\ Answered("COMMAND_NOT_ALLOWED")
    /\ NoScreen
    /\ UNCHANGED sessionVars

-----------------------------------------------------------------------------
\* Mutants: the length check is dropped; the session flag is left standing.
extractHDPathOfAnyLength(path) ==
    [tx_initialized |-> FALSE, hdPath |-> path,
     sw |-> IF path \in ValidPath THEN "OK" ELSE "DATA_INVALID"]

extractHDPathKeepingSession(path) ==
    [tx_initialized |-> tx_initialized,
     hdPath |-> IF path = BadLength THEN hdPath ELSE path,
     sw |-> IF path = BadLength THEN "WRONG_LENGTH"
            ELSE IF path \in ValidPath THEN "OK" ELSE "DATA_INVALID"]

\* The path field, read by GET_ADDR and by the init chunk of every upload.  The
\* session flag falls before anything is checked, and a path of the right length
\* is stored before it is recognised.
extractHDPath(path) ==
    [tx_initialized |-> FALSE,
     hdPath |-> IF path = BadLength THEN hdPath ELSE path,
     sw |-> IF path = BadLength THEN "WRONG_LENGTH"
            ELSE IF path \in ValidPath THEN "OK" ELSE "DATA_INVALID"]

PathField == Path \cup {BadLength}

HandleGetAddrRefused(path) ==
    LET field == extractHDPath(path) IN
    /\ ReceivedUnlocked
    /\ field.sw # "OK"
    /\ hdPath' = field.hdPath
    /\ tx_initialized' = field.tx_initialized
    /\ Answered(field.sw)
    /\ NoScreen
    /\ UNCHANGED <<buffer, ctx, account_type, sent>>

\* app_fill_address derives the key and encodes the address in place; if it fails
\* it throws, and otherwise the address is shown or answered at once.
HandleGetAddr(path, requireConfirmation) ==
    LET field == extractHDPath(path)
        address == [kind |-> "WALLET", path |-> field.hdPath, payload |-> <<>>]
    IN
    /\ ReceivedUnlocked
    /\ field.sw = "OK"
    /\ hdPath' = field.hdPath
    /\ tx_initialized' = field.tx_initialized
    /\ \/ Answered("EXECUTION_ERROR") /\ NoScreen
       \/ /\ requireConfirmation
          /\ io' = address
          /\ Reviewing([getItem |-> "wallet_getItem", approve |-> "app_reply_address"])
          /\ UNCHANGED locked
       \/ /\ ~requireConfirmation
          /\ io' = address
          /\ Granted(address)
          /\ UNCHANGED <<review, locked>>
    /\ UNCHANGED <<buffer, ctx, account_type, sent>>

-----------------------------------------------------------------------------
\* process_chunk, the same for the five instructions that end an upload.

InitUpload(path) ==
    LET field == extractHDPath(path) IN
    /\ ReceivedUnlocked
    /\ Buffer!Reset
    /\ hdPath' = field.hdPath
    /\ tx_initialized' = (field.sw = "OK" \/ field.tx_initialized)
    /\ sent' = [path |-> hdPath', data |-> <<>>]
    /\ Answered(field.sw)
    /\ NoScreen
    /\ UNCHANGED <<ctx, account_type>>

AddChunk(chunk) ==
    /\ ReceivedUnlocked
    /\ tx_initialized
    /\ Buffer!Store(chunk)
    /\ sent' = [sent EXCEPT !.data = @ \o chunk]
    /\ Answered("OK")
    /\ NoScreen
    /\ UNCHANGED <<tx_initialized, hdPath, ctx, account_type>>

\* Mutant: an overflow is reported, but the upload goes on.
SessionKeptAfterOverflow == tx_initialized

\* An upload that does not fit is given up, by the add as by the last chunk.
SessionAfterOverflow == FALSE

ChunkTooLong(chunk) ==
    /\ ReceivedUnlocked
    /\ tx_initialized
    /\ Buffer!Refuse(chunk)
    /\ tx_initialized' = SessionAfterOverflow
    /\ sent' = [sent EXCEPT !.data = @ \o chunk]
    /\ Answered("OUTPUT_BUFFER_TOO_SMALL")
    /\ NoScreen
    /\ UNCHANGED <<hdPath, ctx, account_type>>

\* (The length check at line 72 repeats handleApdu's: see Malformed.)
ChunkRefused ==
    /\ ReceivedUnlocked
    /\ \/ ~tx_initialized /\ Answered("TX_NOT_INITIALIZED")
       \/ Answered("INVALIDP1P2")
    /\ NoScreen
    /\ UNCHANGED sessionVars

\* The last chunk of an upload closes it whatever becomes of the payload.
SessionAfterLast == FALSE

LastChunk(chunk) ==
    /\ ReceivedUnlocked
    /\ tx_initialized
    /\ Buffer!Store(chunk)
    /\ tx_initialized' = SessionAfterLast
    /\ sent' = [sent EXCEPT !.data = @ \o chunk]
    /\ UNCHANGED <<hdPath, locked>>

-----------------------------------------------------------------------------
\* What the last chunk leads to.  The instruction of the last chunk alone decides
\* what the upload is read as.

\* An empty upload leaves the context as the previous command left it.
ContextAfter(format) == IF buffer' = <<>> THEN ctx ELSE format

\* Mutant: a copied function calls the parser of the original.
ParsedAsTransaction(format) == buffer' \in TxPayload

\* tx_parse and tx_message_parse return no error text.
Parsed(format) == buffer' \in IF format = "TX" THEN TxPayload ELSE MessagePayload

HandleSign(chunk) ==
    /\ LastChunk(chunk)
    /\ ctx' = ContextAfter("TX")
    /\ io' = NoRequest
    /\ IF Parsed("TX")
       THEN Reviewing([getItem |-> "tx_getItem", approve |-> "app_sign"])
       ELSE AnsweredText("parser") /\ UNCHANGED review
    /\ UNCHANGED account_type

HandleSignMessage(chunk) ==
    /\ LastChunk(chunk)
    /\ ctx' = ContextAfter("MESSAGE")
    /\ io' = NoRequest
    /\ IF Parsed("MESSAGE")
       THEN Reviewing([getItem |-> "tx_message_getItem", approve |-> "app_message_sign"])
       ELSE AnsweredText("parser") /\ UNCHANGED review
    /\ UNCHANGED account_type

\* Mutant: the type is not cleared.
clearNothing == account_type

\* clearAddressRequest leaves the type UNKNOWN.
clearAddressRequest == "UNKNOWN"

\* Whether the upload describes an account (valid) is AddressRequest's subject.
readAddressRequest(valid) ==
    IF clearAddressRequest # "UNKNOWN" THEN "zxerr_unknown"
    ELSE IF valid THEN "none" ELSE "zxerr_invalid_crypto_settings"

\* Mutant: a copied function keeps the type of the original.
FilledAsMultisig(type) == "MULTISIG"

\* The type each app_fill_address_* records once it has derived the address.
FilledType(type) == type

AccountGetItem(type) == IF type = "VAULT" THEN "vault_getItem" ELSE "multisigVesting_getItem"

\* The settings are refused, or the key or the encoding fails.
DerivationError == {"zxerr_invalid_crypto_settings", "zxerr_unknown"}

\* A failed derivation leaves the account type of the request behind.
HandleMultisig(type, chunk, valid, derived) ==
    LET error == readAddressRequest(valid) IN
    /\ LastChunk(chunk)
    /\ \/ /\ error # "none"
          /\ account_type' = clearAddressRequest
          /\ io' = NoRequest
          /\ AnsweredText(error)
          /\ UNCHANGED review
       \/ /\ error = "none" /\ ~derived
          /\ account_type' = type
          /\ io' = NoRequest
          /\ \E failure \in DerivationError : AnsweredText(failure)
          /\ UNCHANGED review
       \/ /\ error = "none" /\ derived
          /\ io' = [kind |-> type, path |-> hdPath, payload |-> buffer']
          /\ account_type' = FilledType(type)
          /\ Reviewing([getItem |-> AccountGetItem(type), approve |-> "app_reply_address"])
    /\ UNCHANGED ctx

-----------------------------------------------------------------------------
\* The user's answer.  The device takes no button while it is locked (external).

Answering(callback) ==
    /\ review.approve = callback
    /\ ~locked
    /\ review' = NoReview

AppSign ==
    /\ Answering("app_sign")
    /\ \/ Granted([kind |-> "TX", path |-> hdPath, payload |-> buffer])
       \/ Answered("SIGN_VERIFY_ERROR")
    /\ io' = NoRequest
    /\ UNCHANGED <<sessionVars, locked>>

\* What is signed is the upload without its four bytes of lengths (MessageReview).
AppMessageSign ==
    /\ Answering("app_message_sign")
    /\ \/ Granted([kind |-> "MESSAGE", path |-> hdPath, payload |-> buffer])
       \/ Answered("SIGN_VERIFY_ERROR")
    /\ io' = NoRequest
    /\ UNCHANGED <<sessionVars, locked>>

AppReplyAddress ==
    /\ Answering("app_reply_address")
    /\ Granted(io)
    /\ UNCHANGED <<sessionVars, io, locked>>

AppReject ==
    /\ review # NoReview
    /\ ~locked
    /\ review' = NoReview
    /\ Answered("COMMAND_NOT_ALLOWED")
    /\ io' = NoRequest
    /\ UNCHANGED <<sessionVars, locked>>

-----------------------------------------------------------------------------

Next ==
    \/ Restart
    \/ IoReset
    \/ LockOrUnlock
    \/ HandleGetVersion
    \/ Malformed
    \/ RefusedWhileLocked
    \/ \E path \in PathField :
        \/ HandleGetAddrRefused(path)
        \/ \E requireConfirmation \in BOOLEAN : HandleGetAddr(path, requireConfirmation)
        \/ InitUpload(path)
    \/ ChunkRefused
    \/ \E chunk \in Chunk :
        \/ AddChunk(chunk)
        \/ ChunkTooLong(chunk)
        \/ HandleSign(chunk)
        \/ HandleSignMessage(chunk)
        \/ \E type \in AddressType, valid, derived \in BOOLEAN :
            HandleMultisig(type, chunk, valid, derived)
    \/ AppSign
    \/ AppMessageSign
    \/ AppReplyAddress
    \/ AppReject

Spec == Init /\ [][Next]_vars

-----------------------------------------------------------------------------
\* Properties.

\* While chunks may still be added, or while the request they made is on screen,
\* the stored bytes and the path are exactly what the host handed over since it
\* opened the upload.  Instructions of five kinds, GET_ADDR, refusals, overflows,
\* resets and restarts may come in between (apdu_handler.c:35-110).
UploadReview == review.getItem \notin {"none", "wallet_getItem"}

UploadIntact ==
    tx_initialized \/ UploadReview =>
        /\ hdPath \in ValidPath
        /\ sent = [path |-> hdPath, data |-> buffer]

\* A review on screen can be rendered and answered: each callback finds the global
\* it reads (ctx_parsed_tx, addr_request, G_io_apdu_buffer) as its own instruction
\* left it, and an address waiting in the reply buffer is the one of the path, the
\* type and the bytes that the screens show (apdu_handler.c:113-206, actions.h:33-118).
ReviewCoherent ==
    /\ review.getItem = "none" <=> review.approve = "none"
    /\ review.getItem = "tx_getItem" => review.approve = "app_sign" /\ ctx = "TX"
    /\ review.getItem = "tx_message_getItem" =>
        review.approve = "app_message_sign" /\ ctx = "MESSAGE"
    /\ review.getItem = "wallet_getItem" =>
        /\ review.approve = "app_reply_address"
        /\ hdPath \in ValidPath
        /\ io = [kind |-> "WALLET", path |-> hdPath, payload |-> <<>>]
    /\ review.getItem \in {"multisigVesting_getItem", "vault_getItem"} =>
        /\ review.approve = "app_reply_address"
        /\ account_type \in IF review.getItem = "vault_getItem" THEN {"VAULT"}
                            ELSE {"MULTISIG", "VESTING"}
        /\ io = [kind |-> account_type, path |-> hdPath, payload |-> buffer]

\* What the callbacks of the current review put on the screen.  Each reads a
\* global that other commands write too: ctx_parsed_tx, addr_request.
ScreenKind ==
    CASE review.getItem = "tx_getItem" /\ ctx = "TX" -> "TX"
      [] review.getItem = "tx_message_getItem" /\ ctx = "MESSAGE" -> "MESSAGE"
      [] review.getItem = "wallet_getItem" -> "WALLET"
      [] review.getItem = "multisigVesting_getItem" /\ account_type \in {"MULTISIG", "VESTING"} -> account_type
      [] review.getItem = "vault_getItem" /\ account_type = "VAULT" -> "VAULT"
      [] OTHER -> "UNREADABLE"

Displayed ==
    [kind |-> ScreenKind, path |-> hdPath,
     payload |-> IF review.getItem = "wallet_getItem" THEN <<>> ELSE buffer]

\* The device may be asked to grant it: a path of the application, and bytes that the
\* parser of its own instruction accepts.  (For accounts see AddressRequest.)
Acceptable(request) ==
    /\ request.path \in ValidPath
    /\ request.kind = "TX" => request.payload \in TxPayload
    /\ request.kind = "MESSAGE" => request.payload \in MessagePayload

\* The parser looks at the upload when the last chunk arrives; what is signed is read
\* from the buffer again, and the path from its global, when the user approves.  Nothing
\* in between puts another request in their place, and nothing that the parser of its
\* instruction refused is ever shown or granted (apdu_handler.c:47-171, actions.h:73-110).
OnlyAcceptedGranted ==
    /\ review # NoReview => Acceptable(Displayed)
    /\ reply.granted # NoRequest => Acceptable(reply.granted)

\* The handler implements the promise of Signer: the request on screen is the
\* upload, complete and under its own path, and what is answered on approval is
\* the request on screen.
Promise == INSTANCE Signer WITH
    UploadKind <- Kind \ {"WALLET"},
    AddressKind <- {"WALLET"},
    upload <- IF tx_initialized THEN sent ELSE Closed,
    asked <- IF review = NoReview THEN NoRequest ELSE Displayed,
    granted <- reply.granted

ImplementsSigner == Promise!Spec

\* An address request the device can serve is put on screen, whatever requests failed
\* before it: the type that a failed one leaves behind never makes it busy (addr.c:37,
\* addr.c:44, apdu_handler.c:179-206).
AddressRequestNeverBusy ==
    [][\A type \in AddressType, chunk \in Chunk :
        HandleMultisig(type, chunk, TRUE, TRUE) => review' # NoReview]_vars

=============================================================================
