------------------------ MODULE ApduSession_proofs ------------------------
(***************************************************************************)
(* Proofs about ApduSession for every set of paths, chunks and payloads    *)
(* and every capacity: its invariants, that it implements Signer, and that *)
(* a host which retries its uploads (HostUpload) drives no other device.   *)
(***************************************************************************)
EXTENDS HostUpload, TLAPS

\* The state, apart from the types: what makes the step of every command safe.
IInv == TypeOK /\ UploadIntact /\ ReviewCoherent

-----------------------------------------------------------------------------

\* A stored chunk leaves a byte sequence.
LEMMA ChunkTypes ==
    ASSUME NEW data \in Seq(Byte), NEW chunk \in Chunk
    PROVE  data \o chunk \in Seq(Byte)
BY BytesAssumption

\* The answers of the handler are answers.
LEMMA ReplyTypes ==
    /\ \A sw \in Status : Answered(sw) => reply' \in Reply
    /\ \A text \in ErrorText : AnsweredText(text) => reply' \in Reply
    /\ \A request \in Request \cup {NoRequest} : Granted(request) => reply' \in Reply
<1>1. "none" \in ErrorText /\ "OK" \in Status /\ "DATA_INVALID" \in Status
    BY DEF ErrorText, Status
<1> QED
    BY <1>1 DEF Answered, AnsweredText, Granted, Reply

\* The words used below are status words.
LEMMA StatusWords ==
    /\ {"OK", "NONE", "REVIEW", "WRONG_LENGTH", "DATA_INVALID"} \subseteq Status
    /\ {"TX_NOT_INITIALIZED", "OUTPUT_BUFFER_TOO_SMALL", "INVALIDP1P2"} \subseteq Status
    /\ {"EXECUTION_ERROR", "CLA_NOT_SUPPORTED", "INS_NOT_SUPPORTED"} \subseteq Status
    /\ {"COMMAND_NOT_ALLOWED", "SIGN_VERIFY_ERROR"} \subseteq Status
BY DEF Status

\* The callbacks a handler installs.
LEMMA ReviewTypes ==
    /\ NoReview \in Review
    /\ [getItem |-> "tx_getItem", approve |-> "app_sign"] \in Review
    /\ [getItem |-> "tx_message_getItem", approve |-> "app_message_sign"] \in Review
    /\ [getItem |-> "wallet_getItem", approve |-> "app_reply_address"] \in Review
    /\ \A type \in AddressType :
        [getItem |-> AccountGetItem(type), approve |-> "app_reply_address"] \in Review
BY DEF Review, NoReview, AccountGetItem

\* The initial state is well typed.
LEMMA InitTypeOK == Init => TypeOK
<1> SUFFICES ASSUME Init PROVE TypeOK
    OBVIOUS
<1>1. reply \in Reply
    <2>1. "none" \in ErrorText /\ "NONE" \in Status
        BY DEF ErrorText, Status
    <2> QED
        BY <2>1 DEF Init, Reply
<1>2. hdPath \in Path /\ sent \in [path : Path, data : Seq(Byte)]
    BY PathAssumption DEF Init
<1> QED
    BY <1>1, <1>2, ReviewTypes DEF Init, TypeOK

\* Every step keeps the types.
LEMMA NextTypeOK == TypeOK /\ [Next]_vars => TypeOK'
<1> SUFFICES ASSUME TypeOK, [Next]_vars PROVE TypeOK'
    OBVIOUS
<1> USE DEF TypeOK
<1>1. CASE Restart
    <2>1. reply' \in Reply
        BY <1>1, ReplyTypes, StatusWords DEF Restart
    <2>2. hdPath' \in Path /\ review' \in Review
        BY <1>1, PathAssumption, ReviewTypes DEF Restart
    <2>3. buffer' \in Seq(Byte) /\ io' \in Request \cup {NoRequest}
        BY <1>1 DEF Restart
    <2>4. UNCHANGED <<locked, sent>> /\ ctx' = "NONE" /\ account_type' = "UNKNOWN"
        BY <1>1 DEF Restart
    <2>5. tx_initialized' = FALSE
        BY <1>1 DEF Restart
    <2> QED
        BY <2>1, <2>2, <2>3, <2>4, <2>5
<1>2. CASE IoReset
    <2>1. reply' \in Reply
        BY <1>2, ReplyTypes, StatusWords DEF IoReset
    <2> QED
        BY <1>2, <2>1, ReviewTypes DEF IoReset
<1>3. CASE LockOrUnlock
    BY <1>3 DEF LockOrUnlock
<1>4. CASE HandleGetVersion \/ Malformed \/ RefusedWhileLocked \/ ChunkRefused
    <2>1. reply' \in Reply
        BY <1>4, ReplyTypes, StatusWords
        DEF HandleGetVersion, Malformed, RefusedWhileLocked, ChunkRefused
    <2>2. NoScreen /\ UNCHANGED sessionVars
        BY <1>4 DEF HandleGetVersion, Malformed, RefusedWhileLocked, ChunkRefused
    <2> QED
        BY <2>1, <2>2 DEF NoScreen, sessionVars
<1>5. ASSUME NEW path \in PathField PROVE extractHDPath(path).hdPath \in Path
    BY <1>5 DEF extractHDPath, PathField
<1>6. ASSUME NEW path \in PathField PROVE extractHDPath(path).sw \in Status
    BY <1>6, StatusWords DEF extractHDPath
<1>7. ASSUME NEW path \in PathField, HandleGetAddrRefused(path) PROVE TypeOK'
    <2>1. reply' \in Reply
        BY <1>6, <1>7, ReplyTypes DEF HandleGetAddrRefused
    <2>2. tx_initialized' = FALSE
        BY <1>7 DEF HandleGetAddrRefused, extractHDPath
    <2> QED
        BY <1>5, <1>7, <2>1, <2>2 DEF HandleGetAddrRefused, NoScreen
<1>8. ASSUME NEW path \in PathField, NEW confirm \in BOOLEAN, HandleGetAddr(path, confirm)
      PROVE  TypeOK'
    <2> DEFINE address == [kind |-> "WALLET", path |-> extractHDPath(path).hdPath, payload |-> <<>>]
    <2>1. address \in Request
        BY <1>5 DEF Request, Kind
    <2>2. tx_initialized' = FALSE
        BY <1>8 DEF HandleGetAddr, extractHDPath
    <2>3. reply' \in Reply
        BY <1>8, <2>1, ReplyTypes, StatusWords DEF HandleGetAddr, Reviewing
    <2>4. io' \in Request \cup {NoRequest} /\ review' \in Review /\ locked' = locked
        BY <1>8, <2>1, ReviewTypes DEF HandleGetAddr, Reviewing, NoScreen
    <2> QED
        BY <1>5, <1>8, <2>2, <2>3, <2>4 DEF HandleGetAddr
<1>9. ASSUME NEW path \in PathField, InitUpload(path) PROVE TypeOK'
    <2>1. reply' \in Reply
        BY <1>6, <1>9, ReplyTypes DEF InitUpload
    <2>2. hdPath' \in Path
        BY <1>5, <1>9 DEF InitUpload
    <2> QED
        BY <1>9, <2>1, <2>2 DEF InitUpload, Buffer!Reset, NoScreen
<1>10. ASSUME NEW chunk \in Chunk, AddChunk(chunk) PROVE TypeOK'
    <2>1. reply' \in Reply
        BY <1>10, ReplyTypes, StatusWords DEF AddChunk
    <2> QED
        BY <1>10, <2>1, ChunkTypes DEF AddChunk, Buffer!Store, NoScreen
<1>11. ASSUME NEW chunk \in Chunk, ChunkTooLong(chunk) PROVE TypeOK'
    <2>1. reply' \in Reply
        BY <1>11, ReplyTypes, StatusWords DEF ChunkTooLong
    <2> QED
        BY <1>11, <2>1, ChunkTypes DEF ChunkTooLong, Buffer!Refuse, SessionAfterOverflow, NoScreen
<1>12. ASSUME NEW chunk \in Chunk, LastChunk(chunk)
       PROVE  /\ tx_initialized' \in BOOLEAN /\ hdPath' = hdPath /\ locked' = locked
              /\ buffer' \in Seq(Byte) /\ sent' \in [path : Path, data : Seq(Byte)]
    BY <1>12, ChunkTypes DEF LastChunk, Buffer!Store, SessionAfterLast
<1>13. ASSUME NEW chunk \in Chunk, HandleSign(chunk) PROVE TypeOK'
    <2>1. reply' \in Reply
        BY <1>13, ReplyTypes, StatusWords DEF HandleSign, Reviewing, ErrorText
    <2>2. LastChunk(chunk) /\ ctx' \in {"NONE", "TX", "MESSAGE"} /\ review' \in Review
        BY <1>13, ReviewTypes DEF HandleSign, Reviewing, ContextAfter
    <2> QED
        BY <1>12, <1>13, <2>1, <2>2 DEF HandleSign
<1>14. ASSUME NEW chunk \in Chunk, HandleSignMessage(chunk) PROVE TypeOK'
    <2>1. reply' \in Reply
        BY <1>14, ReplyTypes, StatusWords DEF HandleSignMessage, Reviewing, ErrorText
    <2>2. LastChunk(chunk) /\ ctx' \in {"NONE", "TX", "MESSAGE"} /\ review' \in Review
        BY <1>14, ReviewTypes DEF HandleSignMessage, Reviewing, ContextAfter
    <2> QED
        BY <1>12, <1>14, <2>1, <2>2 DEF HandleSignMessage
<1>15. ASSUME NEW chunk \in Chunk, NEW type \in AddressType, NEW valid \in BOOLEAN,
              NEW derived \in BOOLEAN, HandleMultisig(type, chunk, valid, derived)
       PROVE  TypeOK'
    <2>1. LastChunk(chunk) /\ ctx' = ctx
        BY <1>15 DEF HandleMultisig
    <2>2. [kind |-> type, path |-> hdPath, payload |-> buffer'] \in Request
        BY <1>12, <2>1 DEF Request, Kind
    <2>3. readAddressRequest(valid) \in ErrorText /\ DerivationError \subseteq ErrorText
        BY DEF readAddressRequest, DerivationError, ErrorText
    <2>4. reply' \in Reply
        BY <1>15, <2>3, ReplyTypes, StatusWords DEF HandleMultisig, Reviewing
    <2>5. io' \in Request \cup {NoRequest} /\ review' \in Review
        BY <1>15, <2>2, ReviewTypes DEF HandleMultisig, Reviewing
    <2>6. account_type' \in AddressType \cup {"UNKNOWN"}
        BY <1>15 DEF HandleMultisig, clearAddressRequest, FilledType
    <2> QED
        BY <1>12, <2>1, <2>4, <2>5, <2>6
<1>16. CASE AppSign
    <2>1. [kind |-> "TX", path |-> hdPath, payload |-> buffer] \in Request
        BY DEF Request, Kind
    <2>2. reply' \in Reply
        BY <1>16, <2>1, ReplyTypes, StatusWords DEF AppSign
    <2> QED
        BY <1>16, <2>2, ReviewTypes DEF AppSign, Answering, sessionVars
<1>17. CASE AppMessageSign
    <2>1. [kind |-> "MESSAGE", path |-> hdPath, payload |-> buffer] \in Request
        BY DEF Request, Kind
    <2>2. reply' \in Reply
        BY <1>17, <2>1, ReplyTypes, StatusWords DEF AppMessageSign
    <2> QED
        BY <1>17, <2>2, ReviewTypes DEF AppMessageSign, Answering, sessionVars
<1>18. CASE AppReplyAddress
    <2>1. reply' \in Reply
        BY <1>18, ReplyTypes DEF AppReplyAddress
    <2> QED
        BY <1>18, <2>1, ReviewTypes DEF AppReplyAddress, Answering, sessionVars
<1>19. CASE AppReject
    <2>1. reply' \in Reply
        BY <1>19, ReplyTypes, StatusWords DEF AppReject
    <2> QED
        BY <1>19, <2>1, ReviewTypes DEF AppReject, sessionVars
<1>20. CASE UNCHANGED vars
    BY <1>20 DEF vars
<1> QED
    BY <1>1, <1>2, <1>3, <1>4, <1>7, <1>8, <1>9, <1>10, <1>11, <1>13, <1>14, <1>15, <1>16,
       <1>17, <1>18, <1>19, <1>20 DEF Next

\* The state keeps its types.
THEOREM TypeCorrect == Spec => []TypeOK
<1>1. Init => TypeOK
    BY InitTypeOK
<1>2. TypeOK /\ [Next]_vars => TypeOK'
    BY NextTypeOK
<1> QED
    BY <1>1, <1>2, PTL DEF Spec

-----------------------------------------------------------------------------

\* A command that reaches no handler, or is refused before anything is read,
\* leaves the upload and the empty screen alone.
LEMMA IdleSteps ==
    (HandleGetVersion \/ Malformed \/ RefusedWhileLocked \/ ChunkRefused)
        => UNCHANGED <<review, tx_initialized, hdPath, buffer, ctx, account_type, sent>>
           /\ review = NoReview
BY DEF HandleGetVersion, Malformed, RefusedWhileLocked, ChunkRefused, NoScreen, sessionVars,
       Received, ReceivedUnlocked

\* The path field is one of the host's; the flag is down when it has been read.
LEMMA PathFieldRead ==
    ASSUME NEW path \in PathField
    PROVE  /\ extractHDPath(path).tx_initialized = FALSE
           /\ extractHDPath(path).sw = "OK" <=> path \in ValidPath
           /\ path \in ValidPath => extractHDPath(path).hdPath = path
BY PathAssumption DEF extractHDPath, PathField

\* A last chunk that is stored closes an intact upload.
LEMMA LastChunkIntact ==
    ASSUME TypeOK, UploadIntact, NEW chunk \in Chunk, LastChunk(chunk)
    PROVE  /\ hdPath \in ValidPath /\ hdPath' = hdPath /\ tx_initialized' = FALSE
           /\ sent' = [path |-> hdPath', data |-> buffer']
           /\ buffer' = buffer \o chunk
<1>1. sent = [path |-> hdPath, data |-> buffer] /\ hdPath \in ValidPath
    BY DEF UploadIntact, LastChunk
<1>2. sent' = [path |-> hdPath, data |-> buffer \o chunk]
    BY <1>1 DEF LastChunk
<1> QED
    BY <1>1, <1>2 DEF LastChunk, Buffer!Store, SessionAfterLast

\* What the reviews of an upload have in common.
LEMMA UploadReviewOpens ==
    ASSUME TypeOK, UploadIntact, NEW chunk \in Chunk, LastChunk(chunk)
    PROVE  UploadIntact'
BY LastChunkIntact DEF UploadIntact

\* The upload stays intact.
LEMMA NextUploadIntact == TypeOK /\ UploadIntact /\ [Next]_vars => UploadIntact'
<1> SUFFICES ASSUME TypeOK, UploadIntact, [Next]_vars PROVE UploadIntact'
    OBVIOUS
<1>1. CASE Restart
    BY <1>1 DEF Restart, UploadIntact, UploadReview, NoReview
<1>2. CASE IoReset
    BY <1>2 DEF IoReset, UploadIntact, UploadReview, NoReview
<1>3. CASE LockOrUnlock
    BY <1>3 DEF LockOrUnlock, UploadIntact, UploadReview
<1>4. CASE HandleGetVersion \/ Malformed \/ RefusedWhileLocked \/ ChunkRefused
    BY <1>4, IdleSteps DEF UploadIntact, UploadReview
<1>5. ASSUME NEW path \in PathField, HandleGetAddrRefused(path) PROVE UploadIntact'
    BY <1>5, PathFieldRead
    DEF HandleGetAddrRefused, NoScreen, ReceivedUnlocked, Received, UploadIntact, UploadReview, NoReview
<1>6. ASSUME NEW path \in PathField, NEW confirm \in BOOLEAN, HandleGetAddr(path, confirm)
      PROVE  UploadIntact'
    <2>1. tx_initialized' = FALSE
        BY <1>6, PathFieldRead DEF HandleGetAddr
    <2>2. review'.getItem \in {"none", "wallet_getItem"}
        BY <1>6 DEF HandleGetAddr, NoScreen, Reviewing, ReceivedUnlocked, Received, NoReview
    <2> QED
        BY <2>1, <2>2 DEF UploadIntact, UploadReview
<1>7. ASSUME NEW path \in PathField, InitUpload(path) PROVE UploadIntact'
    BY <1>7, PathFieldRead
    DEF InitUpload, Buffer!Reset, NoScreen, ReceivedUnlocked, Received, UploadIntact, UploadReview, NoReview
<1>8. ASSUME NEW chunk \in Chunk, AddChunk(chunk) PROVE UploadIntact'
    <2>1. sent = [path |-> hdPath, data |-> buffer] /\ hdPath \in ValidPath
        BY <1>8 DEF UploadIntact, AddChunk
    <2>2. sent' = [path |-> hdPath, data |-> buffer \o chunk]
        BY <1>8, <2>1 DEF AddChunk
    <2> QED
        BY <1>8, <2>1, <2>2 DEF AddChunk, Buffer!Store, UploadIntact
<1>9. ASSUME NEW chunk \in Chunk, ChunkTooLong(chunk) PROVE UploadIntact'
    BY <1>9 DEF ChunkTooLong, SessionAfterOverflow, NoScreen, ReceivedUnlocked, Received,
                UploadIntact, UploadReview, NoReview
<1>10. ASSUME NEW chunk \in Chunk, LastChunk(chunk) PROVE UploadIntact'
    BY <1>10, UploadReviewOpens
<1>11. CASE AppSign \/ AppMessageSign \/ AppReplyAddress \/ AppReject
    BY <1>11 DEF AppSign, AppMessageSign, AppReplyAddress, AppReject, Answering, sessionVars,
                 UploadIntact, UploadReview, NoReview
<1>12. CASE UNCHANGED vars
    BY <1>12 DEF vars, UploadIntact, UploadReview
<1> QED
    BY <1>1, <1>2, <1>3, <1>4, <1>5, <1>6, <1>7, <1>8, <1>9, <1>10, <1>11, <1>12
    DEF Next, HandleSign, HandleSignMessage, HandleMultisig

\* A step that leaves no review on screen leaves a coherent one.
LEMMA NoReviewCoherent == review' = NoReview => ReviewCoherent'
BY DEF ReviewCoherent, NoReview

\* A review stays coherent with the globals it reads.
LEMMA NextReviewCoherent == TypeOK /\ UploadIntact /\ ReviewCoherent /\ [Next]_vars => ReviewCoherent'
<1> SUFFICES ASSUME TypeOK, UploadIntact, ReviewCoherent, [Next]_vars PROVE ReviewCoherent'
    OBVIOUS
<1>1. CASE Restart \/ IoReset
    BY <1>1, NoReviewCoherent DEF Restart, IoReset
<1>2. CASE LockOrUnlock
    BY <1>2 DEF LockOrUnlock, ReviewCoherent
<1>3. CASE HandleGetVersion \/ Malformed \/ RefusedWhileLocked \/ ChunkRefused
    BY <1>3, IdleSteps, NoReviewCoherent
<1>4. ASSUME NEW path \in PathField, HandleGetAddrRefused(path) PROVE ReviewCoherent'
    BY <1>4, NoReviewCoherent DEF HandleGetAddrRefused, NoScreen, ReceivedUnlocked, Received
<1>5. ASSUME NEW path \in PathField, NEW confirm \in BOOLEAN, HandleGetAddr(path, confirm)
      PROVE  ReviewCoherent'
    <2>1. review = NoReview
        BY <1>5 DEF HandleGetAddr, ReceivedUnlocked, Received
    <2>2. hdPath' = path /\ path \in ValidPath /\ extractHDPath(path).hdPath = path
        BY <1>5, PathFieldRead DEF HandleGetAddr
    <2>3. CASE review' = NoReview
        BY <2>3, NoReviewCoherent
    <2>4. CASE /\ review' = [getItem |-> "wallet_getItem", approve |-> "app_reply_address"]
               /\ io' = [kind |-> "WALLET", path |-> hdPath', payload |-> <<>>]
        BY <2>2, <2>4 DEF ReviewCoherent
    <2> QED
        BY <1>5, <2>1, <2>2, <2>3, <2>4 DEF HandleGetAddr, NoScreen, Reviewing
<1>6. ASSUME NEW path \in PathField, InitUpload(path) PROVE ReviewCoherent'
    BY <1>6, NoReviewCoherent DEF InitUpload, NoScreen, ReceivedUnlocked, Received
<1>7. ASSUME NEW chunk \in Chunk, AddChunk(chunk) \/ ChunkTooLong(chunk) PROVE ReviewCoherent'
    BY <1>7, NoReviewCoherent DEF AddChunk, ChunkTooLong, NoScreen, ReceivedUnlocked, Received
<1>8. ASSUME NEW chunk \in Chunk, HandleSign(chunk) PROVE ReviewCoherent'
    <2>1. buffer' \in TxPayload => ctx' = "TX"
        BY <1>8, BytesAssumption DEF HandleSign, ContextAfter
    <2> QED
        BY <1>8, <2>1, NoReviewCoherent
        DEF HandleSign, Parsed, LastChunk, ReceivedUnlocked, Received, Reviewing, ReviewCoherent
<1>9. ASSUME NEW chunk \in Chunk, HandleSignMessage(chunk) PROVE ReviewCoherent'
    <2>1. buffer' \in MessagePayload => ctx' = "MESSAGE"
        BY <1>9, BytesAssumption DEF HandleSignMessage, ContextAfter
    <2> QED
        BY <1>9, <2>1, NoReviewCoherent
        DEF HandleSignMessage, Parsed, LastChunk, ReceivedUnlocked, Received, Reviewing, ReviewCoherent
<1>10. ASSUME NEW chunk \in Chunk, NEW type \in AddressType, NEW valid \in BOOLEAN,
              NEW derived \in BOOLEAN, HandleMultisig(type, chunk, valid, derived)
       PROVE  ReviewCoherent'
    <2>1. review = NoReview /\ hdPath' = hdPath
        BY <1>10 DEF HandleMultisig, LastChunk, ReceivedUnlocked, Received
    <2>2. CASE review' = NoReview
        BY <2>2, NoReviewCoherent
    <2>3. CASE /\ review' = [getItem |-> AccountGetItem(type), approve |-> "app_reply_address"]
               /\ io' = [kind |-> type, path |-> hdPath, payload |-> buffer']
               /\ account_type' = type
        BY <2>1, <2>3 DEF ReviewCoherent, AccountGetItem, AddressType
    <2> QED
        BY <1>10, <2>1, <2>2, <2>3 DEF HandleMultisig, Reviewing, FilledType
<1>11. CASE AppSign \/ AppMessageSign \/ AppReplyAddress \/ AppReject
    BY <1>11, NoReviewCoherent DEF AppSign, AppMessageSign, AppReplyAddress, AppReject, Answering
<1>12. CASE UNCHANGED vars
    BY <1>12 DEF vars, ReviewCoherent
<1> QED
    BY <1>1, <1>2, <1>3, <1>4, <1>5, <1>6, <1>7, <1>8, <1>9, <1>10, <1>11, <1>12 DEF Next

\* IInv holds initially and is kept by every step.
LEMMA IInvInductive == (Init => IInv) /\ (IInv /\ [Next]_vars => IInv')
<1>1. Init => UploadIntact /\ ReviewCoherent
    BY DEF Init, UploadIntact, UploadReview, ReviewCoherent, NoReview
<1> QED
    BY <1>1, InitTypeOK, NextTypeOK, NextUploadIntact, NextReviewCoherent DEF IInv

\* What may still be extended, and what the user is asked to approve, is what the
\* host handed over since it opened the upload, under the path it opened it with.
THEOREM UploadStaysIntact == Spec => []UploadIntact
<1>1. IInv => UploadIntact
    BY DEF IInv
<1> QED
    BY <1>1, IInvInductive, PTL DEF Spec

\* A review on screen finds what its callbacks read as its own instruction left it.
THEOREM ReviewsStayCoherent == Spec => []ReviewCoherent
<1>1. IInv => ReviewCoherent
    BY DEF IInv
<1> QED
    BY <1>1, IInvInductive, PTL DEF Spec

-----------------------------------------------------------------------------

\* The request on screen, by review.
LEMMA DisplayedNow ==
    ASSUME TypeOK, ReviewCoherent
    PROVE  /\ review.getItem = "tx_getItem" =>
                Displayed = [kind |-> "TX", path |-> hdPath, payload |-> buffer]
           /\ review.getItem = "tx_message_getItem" =>
                Displayed = [kind |-> "MESSAGE", path |-> hdPath, payload |-> buffer]
           /\ review.getItem = "wallet_getItem" => Displayed = io
           /\ review.getItem \in {"multisigVesting_getItem", "vault_getItem"} => Displayed = io
BY DEF ReviewCoherent, Displayed, ScreenKind

\* The user's answer grants the request on screen or nothing.
LEMMA AnswersDisplayed ==
    ASSUME TypeOK, ReviewCoherent
    PROVE  AppSign \/ AppMessageSign \/ AppReplyAddress \/ AppReject
                => reply'.granted \in {Displayed, NoRequest}
<1>1. AppSign => reply'.granted \in {Displayed, NoRequest}
    BY DisplayedNow DEF AppSign, Answering, Granted, Answered, ReviewCoherent, TypeOK, Review
<1>2. AppMessageSign => reply'.granted \in {Displayed, NoRequest}
    BY DisplayedNow DEF AppMessageSign, Answering, Granted, Answered, ReviewCoherent, TypeOK, Review
<1>3. AppReplyAddress => reply'.granted \in {Displayed, NoRequest}
    BY DisplayedNow DEF AppReplyAddress, Answering, Granted, Answered, ReviewCoherent, TypeOK, Review
<1>4. AppReject => reply'.granted = NoRequest
    BY DEF AppReject, Answered
<1> QED
    BY <1>1, <1>2, <1>3, <1>4

\* A review on screen asks for something.
LEMMA DisplayedIsRequest ==
    ASSUME TypeOK, UploadIntact, ReviewCoherent, review # NoReview
    PROVE  Displayed # NoRequest
<1>1. review.getItem # "none"
    BY DEF TypeOK, ReviewCoherent, Review, NoReview
<1>2. CASE review.getItem \in {"tx_getItem", "tx_message_getItem"}
    <2>1. Displayed \in Request
        BY <1>2, DisplayedNow DEF TypeOK, Request, Kind
    <2> QED
        BY <2>1, NothingAssumption
<1>3. CASE review.getItem \in {"wallet_getItem", "multisigVesting_getItem", "vault_getItem"}
    <2>1. Displayed = io
        BY <1>3, DisplayedNow
    <2>2. \E kind \in Kind, payload \in Seq(Byte) :
            io = [kind |-> kind, path |-> hdPath, payload |-> payload]
        <3>1. CASE review.getItem = "wallet_getItem"
            <4>1. io = [kind |-> "WALLET", path |-> hdPath, payload |-> <<>>]
                BY <3>1 DEF ReviewCoherent
            <4>2. "WALLET" \in Kind /\ <<>> \in Seq(Byte)
                BY DEF Kind
            <4> QED
                BY <4>1, <4>2
        <3>2. CASE review.getItem \in {"multisigVesting_getItem", "vault_getItem"}
            <4>1. account_type \in Kind
                BY <3>2 DEF ReviewCoherent, Kind, AddressType
            <4>2. io = [kind |-> account_type, path |-> hdPath, payload |-> buffer]
                BY <3>2 DEF ReviewCoherent
            <4> QED
                BY <4>1, <4>2 DEF TypeOK
        <3> QED
            BY <1>3, <3>1, <3>2
    <2>3. io \in Request
        BY <2>2 DEF TypeOK, Request
    <2> QED
        BY <2>1, <2>3, NothingAssumption
<1> QED
    BY <1>1, <1>2, <1>3 DEF TypeOK, Review

\* An open upload is not the absence of one.
LEMMA SentIsUpload ==
    ASSUME TypeOK, UploadIntact, tx_initialized
    PROVE  /\ sent # Closed
           /\ sent = [path |-> hdPath, data |-> buffer]
           /\ hdPath \in ValidPath
BY NothingAssumption DEF TypeOK, UploadIntact

\* The initial state is one of Signer.
LEMMA InitImplements == Init => Promise!Init
BY DEF Init, Promise!Init, NoReview

\* A last chunk that opens a review asks for the whole upload.
LEMMA LastChunkAsks ==
    ASSUME TypeOK, UploadIntact, NEW chunk \in Chunk, LastChunk(chunk),
           NEW kind \in Kind \ {"WALLET"},
           review' # NoReview, reply'.granted = NoRequest,
           Displayed' = [kind |-> kind, path |-> hdPath', payload |-> buffer']
    PROVE  Promise!AskUpload(kind, chunk)
<1>1. sent # Closed /\ sent = [path |-> hdPath, data |-> buffer]
    BY SentIsUpload DEF LastChunk
<1>2. review = NoReview /\ tx_initialized
    BY DEF LastChunk, ReceivedUnlocked, Received
<1>3. hdPath' = hdPath /\ buffer' = buffer \o chunk /\ tx_initialized' = FALSE
    BY LastChunkIntact
<1> QED
    BY <1>1, <1>2, <1>3 DEF Promise!AskUpload

\* A last chunk that opens no review closes the upload for nothing.
LEMMA LastChunkRefused ==
    ASSUME TypeOK, UploadIntact, NEW chunk \in Chunk, LastChunk(chunk),
           review' = NoReview, reply'.granted = NoRequest
    PROVE  Promise!Refuse
<1>1. review = NoReview /\ tx_initialized
    BY DEF LastChunk, ReceivedUnlocked, Received
<1>2. tx_initialized' = FALSE
    BY LastChunkIntact
<1> QED
    BY <1>1, <1>2 DEF Promise!Refuse

\* Every step is a step of Signer or leaves its variables alone.
LEMMA NextImplements == IInv /\ IInv' /\ [Next]_vars => [Promise!Next]_(Promise!vars)
<1> SUFFICES ASSUME IInv, IInv', [Next]_vars PROVE [Promise!Next]_(Promise!vars)
    OBVIOUS
<1> USE DEF IInv
<1>1. CASE Restart
    <2>1. Promise!Withdraw
        BY <1>1 DEF Restart, Answered, Promise!Withdraw
    <2> QED
        BY <2>1 DEF Promise!Next
<1>2. CASE IoReset
    <2>1. Promise!Withdraw
        BY <1>2 DEF IoReset, Answered, Promise!Withdraw
    <2> QED
        BY <2>1 DEF Promise!Next
<1>3. CASE LockOrUnlock
    BY <1>3 DEF LockOrUnlock, Promise!vars, Displayed, ScreenKind
<1>4. CASE HandleGetVersion \/ Malformed \/ RefusedWhileLocked \/ ChunkRefused
    <2>1. reply'.granted = NoRequest
        BY <1>4 DEF HandleGetVersion, Malformed, RefusedWhileLocked, ChunkRefused, Answered
    <2>2. Promise!Refuse
        BY <1>4, <2>1, IdleSteps DEF Promise!Refuse
    <2> QED
        BY <2>2 DEF Promise!Next
<1>5. ASSUME NEW path \in PathField, HandleGetAddrRefused(path) PROVE Promise!Next
    <2>1. Promise!Refuse
        BY <1>5, PathFieldRead
        DEF HandleGetAddrRefused, NoScreen, ReceivedUnlocked, Received, Answered, Promise!Refuse
    <2> QED
        BY <2>1 DEF Promise!Next
<1>6. ASSUME NEW path \in PathField, NEW confirm \in BOOLEAN, HandleGetAddr(path, confirm)
      PROVE  Promise!Next
    <2> DEFINE address == [kind |-> "WALLET", path |-> path, payload |-> <<>>]
    <2>1. review = NoReview /\ tx_initialized' = FALSE /\ hdPath' = path /\ path \in ValidPath
        BY <1>6, PathFieldRead DEF HandleGetAddr, ReceivedUnlocked, Received
    <2>2. CASE review' = NoReview /\ reply'.granted = NoRequest
        BY <2>1, <2>2 DEF Promise!Refuse, Promise!Next
    <2>3. CASE review' = NoReview /\ reply'.granted = address
        <3>1. Promise!TellAddress("WALLET", path)
            BY <2>1, <2>3 DEF Promise!TellAddress
        <3> QED
            BY <2>1, <3>1 DEF Promise!Next
    <2>4. CASE /\ review' = [getItem |-> "wallet_getItem", approve |-> "app_reply_address"]
               /\ reply'.granted = NoRequest
        <3>1. Displayed' = address /\ review' # NoReview
            BY <2>1, <2>4 DEF Displayed, ScreenKind, NoReview
        <3>2. Promise!AskAddress("WALLET", path)
            BY <2>1, <2>4, <3>1 DEF Promise!AskAddress
        <3> QED
            BY <2>1, <3>2 DEF Promise!Next
    <2> QED
        BY <1>6, <2>1, <2>2, <2>3, <2>4, PathFieldRead
        DEF HandleGetAddr, NoScreen, Reviewing, Answered, Granted
<1>7. ASSUME NEW path \in PathField, InitUpload(path) PROVE Promise!Next
    <2>1. review = NoReview /\ review' = NoReview /\ reply'.granted = NoRequest
        BY <1>7 DEF InitUpload, NoScreen, ReceivedUnlocked, Received, Answered
    <2>2. CASE path \in ValidPath
        <3>1. tx_initialized' /\ sent' = [path |-> path, data |-> <<>>]
            BY <1>7, <2>2, PathFieldRead DEF InitUpload
        <3>2. Promise!Open(path)
            BY <2>1, <3>1 DEF Promise!Open
        <3> QED
            BY <2>2, <3>2 DEF Promise!Next
    <2>3. CASE path \notin ValidPath
        <3>1. tx_initialized' = FALSE
            BY <1>7, <2>3, PathFieldRead DEF InitUpload
        <3> QED
            BY <2>1, <3>1 DEF Promise!Refuse, Promise!Next
    <2> QED
        BY <2>2, <2>3
<1>8. ASSUME NEW chunk \in Chunk, AddChunk(chunk) PROVE Promise!Next
    <2>1. Promise!Extend(chunk)
        BY <1>8, SentIsUpload
        DEF AddChunk, NoScreen, ReceivedUnlocked, Received, Answered, Promise!Extend
    <2> QED
        BY <2>1 DEF Promise!Next
<1>9. ASSUME NEW chunk \in Chunk, ChunkTooLong(chunk) PROVE Promise!Next
    <2>1. Promise!Refuse
        BY <1>9
        DEF ChunkTooLong, NoScreen, ReceivedUnlocked, Received, Answered, SessionAfterOverflow,
            Promise!Refuse
    <2> QED
        BY <2>1 DEF Promise!Next
<1>10. ASSUME NEW chunk \in Chunk, LastChunk(chunk), reply'.granted = NoRequest,
              \/ review' = NoReview
              \/ /\ review' # NoReview
                 /\ Displayed'.kind \in Kind \ {"WALLET"}
                 /\ Displayed' = [kind |-> Displayed'.kind, path |-> hdPath', payload |-> buffer']
       PROVE  Promise!Next
    <2>1. CASE review' = NoReview
        BY <1>10, <2>1, LastChunkRefused DEF Promise!Next
    <2>2. CASE review' # NoReview
        <3>1. Promise!AskUpload(Displayed'.kind, chunk)
            BY <1>10, <2>2, LastChunkAsks
        <3> QED
            BY <1>10, <2>2, <3>1 DEF Promise!Next
    <2> QED
        BY <2>1, <2>2
<1>11. ASSUME NEW chunk \in Chunk, HandleSign(chunk) \/ HandleSignMessage(chunk) PROVE Promise!Next
    <2>1. LastChunk(chunk) /\ review = NoReview /\ reply'.granted = NoRequest
        BY <1>11 DEF HandleSign, HandleSignMessage, LastChunk, ReceivedUnlocked, Received,
                     Reviewing, Answered, AnsweredText
    <2>2. CASE review'.getItem \in {"tx_getItem", "tx_message_getItem"}
        <3>1. review'.getItem = "tx_getItem" => ctx' = "TX"
            BY DEF ReviewCoherent
        <3>2. review'.getItem = "tx_message_getItem" => ctx' = "MESSAGE"
            BY DEF ReviewCoherent
        <3>3. \E kind \in {"TX", "MESSAGE"} :
                Displayed' = [kind |-> kind, path |-> hdPath', payload |-> buffer']
            BY <2>2, <3>1, <3>2 DEF Displayed, ScreenKind
        <3> QED
            BY <1>10, <2>1, <2>2, <3>3 DEF Kind, NoReview
    <2>3. CASE review' = NoReview
        BY <1>10, <2>1, <2>3
    <2> QED
        BY <1>11, <2>1, <2>2, <2>3 DEF HandleSign, HandleSignMessage, Reviewing
<1>12. ASSUME NEW chunk \in Chunk, NEW type \in AddressType, NEW valid \in BOOLEAN,
              NEW derived \in BOOLEAN, HandleMultisig(type, chunk, valid, derived)
       PROVE  Promise!Next
    <2>1. LastChunk(chunk) /\ review = NoReview /\ reply'.granted = NoRequest
        BY <1>12 DEF HandleMultisig, LastChunk, ReceivedUnlocked, Received,
                     Reviewing, Answered, AnsweredText
    <2>2. CASE review' = NoReview
        BY <1>10, <2>1, <2>2
    <2>3. CASE review'.getItem = AccountGetItem(type) /\ account_type' = type
        <3>1. Displayed' = [kind |-> type, path |-> hdPath', payload |-> buffer']
            BY <2>3 DEF Displayed, ScreenKind, AccountGetItem, AddressType
        <3> QED
            BY <1>10, <2>1, <2>3, <3>1 DEF Kind, AddressType, NoReview, AccountGetItem
    <2> QED
        BY <1>12, <2>1, <2>2, <2>3 DEF HandleMultisig, Reviewing, FilledType
<1>13. CASE AppSign \/ AppMessageSign \/ AppReplyAddress \/ AppReject
    <2>1. review # NoReview /\ review' = NoReview /\ UNCHANGED <<tx_initialized, sent>>
        BY <1>13 DEF AppSign, AppMessageSign, AppReplyAddress, AppReject, Answering, sessionVars,
                     NoReview
    <2>2. CASE reply'.granted = NoRequest
        BY <2>1, <2>2 DEF Promise!Withdraw, Promise!Next
    <2>3. CASE reply'.granted = Displayed
        <3>1. Promise!Grant
            BY <2>1, <2>3, DisplayedIsRequest DEF Promise!Grant
        <3> QED
            BY <3>1 DEF Promise!Next
    <2> QED
        BY <1>13, <2>2, <2>3, AnswersDisplayed
<1>14. CASE UNCHANGED vars
    BY <1>14 DEF vars, Promise!vars, Displayed, ScreenKind
<1> QED
    BY <1>1, <1>2, <1>3, <1>4, <1>5, <1>6, <1>7, <1>8, <1>9, <1>11, <1>12, <1>13, <1>14 DEF Next

\* The handler gives out nothing but what Signer allows.
THEOREM HandlerImplementsSigner == Spec => ImplementsSigner
<1> QED
    BY InitImplements, NextImplements, IInvInductive, PTL DEF Spec, ImplementsSigner, Promise!Spec

-----------------------------------------------------------------------------

\* A step that leaves no review on screen and grants nothing grants nothing wrong.
LEMMA NothingGranted ==
    review' = NoReview /\ reply'.granted = NoRequest => OnlyAcceptedGranted'
BY DEF OnlyAcceptedGranted

\* A last chunk leaves a path of the application behind.
LEMMA LastChunkPath ==
    ASSUME TypeOK, UploadIntact, NEW chunk \in Chunk, LastChunk(chunk)
    PROVE  hdPath' \in ValidPath
BY LastChunkIntact

\* What is shown, and what is granted, stays acceptable.
LEMMA NextOnlyAccepted ==
    IInv /\ IInv' /\ OnlyAcceptedGranted /\ [Next]_vars => OnlyAcceptedGranted'
<1> SUFFICES ASSUME IInv, IInv', OnlyAcceptedGranted, [Next]_vars PROVE OnlyAcceptedGranted'
    OBVIOUS
<1> USE DEF IInv
<1>1. CASE Restart \/ IoReset
    BY <1>1, NothingGranted DEF Restart, IoReset, Answered
<1>2. CASE LockOrUnlock \/ UNCHANGED vars
    <2>1. UNCHANGED <<review, reply, hdPath, buffer, ctx, account_type>>
        BY <1>2 DEF LockOrUnlock, vars
    <2> QED
        BY <2>1 DEF OnlyAcceptedGranted, Displayed, ScreenKind, Acceptable
<1>3. CASE HandleGetVersion \/ Malformed \/ RefusedWhileLocked \/ ChunkRefused
    <2>1. reply'.granted = NoRequest
        BY <1>3 DEF HandleGetVersion, Malformed, RefusedWhileLocked, ChunkRefused, Answered
    <2> QED
        BY <1>3, <2>1, IdleSteps, NothingGranted
<1>4. ASSUME NEW path \in PathField, HandleGetAddrRefused(path) \/ InitUpload(path)
      PROVE  OnlyAcceptedGranted'
    BY <1>4, NothingGranted
    DEF HandleGetAddrRefused, InitUpload, NoScreen, ReceivedUnlocked, Received, Answered
<1>5. ASSUME NEW path \in PathField, NEW confirm \in BOOLEAN, HandleGetAddr(path, confirm)
      PROVE  OnlyAcceptedGranted'
    <2> DEFINE address == [kind |-> "WALLET", path |-> path, payload |-> <<>>]
    <2>1. review = NoReview /\ hdPath' = path /\ path \in ValidPath
        BY <1>5, PathFieldRead DEF HandleGetAddr, ReceivedUnlocked, Received
    <2>2. Acceptable(address)
        BY <2>1 DEF Acceptable
    <2>3. reply'.granted \in {address, NoRequest}
        BY <1>5, <2>1, PathFieldRead DEF HandleGetAddr, Reviewing, Answered, Granted
    <2>4. review' # NoReview => Displayed' = address
        BY <1>5, <2>1 DEF HandleGetAddr, NoScreen, Reviewing, Displayed, ScreenKind
    <2> QED
        BY <2>2, <2>3, <2>4 DEF OnlyAcceptedGranted
<1>6. ASSUME NEW chunk \in Chunk, AddChunk(chunk) \/ ChunkTooLong(chunk)
      PROVE  OnlyAcceptedGranted'
    BY <1>6, NothingGranted
    DEF AddChunk, ChunkTooLong, NoScreen, ReceivedUnlocked, Received, Answered
<1>7. ASSUME NEW chunk \in Chunk, HandleSign(chunk) PROVE OnlyAcceptedGranted'
    <2>1. hdPath' \in ValidPath /\ review = NoReview
        BY <1>7, LastChunkPath DEF HandleSign, LastChunk, ReceivedUnlocked, Received
    <2>2. reply'.granted = NoRequest
        BY <1>7 DEF HandleSign, Reviewing, Answered, AnsweredText
    <2>3. CASE review' = NoReview
        BY <2>2, <2>3, NothingGranted
    <2>4. CASE review' # NoReview
        <3>1. review'.getItem = "tx_getItem" /\ buffer' \in TxPayload
            BY <1>7, <2>1, <2>4 DEF HandleSign, Parsed, Reviewing
        <3>2. Displayed' = [kind |-> "TX", path |-> hdPath', payload |-> buffer']
            BY <3>1 DEF ReviewCoherent, Displayed, ScreenKind
        <3> QED
            BY <2>1, <2>2, <3>1, <3>2 DEF OnlyAcceptedGranted, Acceptable
    <2> QED
        BY <2>3, <2>4
<1>8. ASSUME NEW chunk \in Chunk, HandleSignMessage(chunk) PROVE OnlyAcceptedGranted'
    <2>1. hdPath' \in ValidPath /\ review = NoReview
        BY <1>8, LastChunkPath DEF HandleSignMessage, LastChunk, ReceivedUnlocked, Received
    <2>2. reply'.granted = NoRequest
        BY <1>8 DEF HandleSignMessage, Reviewing, Answered, AnsweredText
    <2>3. CASE review' = NoReview
        BY <2>2, <2>3, NothingGranted
    <2>4. CASE review' # NoReview
        <3>1. review'.getItem = "tx_message_getItem" /\ buffer' \in MessagePayload
            BY <1>8, <2>1, <2>4 DEF HandleSignMessage, Parsed, Reviewing
        <3>2. Displayed' = [kind |-> "MESSAGE", path |-> hdPath', payload |-> buffer']
            BY <3>1 DEF ReviewCoherent, Displayed, ScreenKind
        <3> QED
            BY <2>1, <2>2, <3>1, <3>2 DEF OnlyAcceptedGranted, Acceptable
    <2> QED
        BY <2>3, <2>4
<1>9. ASSUME NEW chunk \in Chunk, NEW type \in AddressType, NEW valid \in BOOLEAN,
             NEW derived \in BOOLEAN, HandleMultisig(type, chunk, valid, derived)
      PROVE  OnlyAcceptedGranted'
    <2>1. hdPath' \in ValidPath /\ review = NoReview
        BY <1>9, LastChunkPath DEF HandleMultisig, LastChunk, ReceivedUnlocked, Received
    <2>2. reply'.granted = NoRequest
        BY <1>9 DEF HandleMultisig, Reviewing, Answered, AnsweredText
    <2>3. CASE review' = NoReview
        BY <2>2, <2>3, NothingGranted
    <2>4. CASE review' # NoReview
        <3>1. review'.getItem = AccountGetItem(type) /\ account_type' = type
            BY <1>9, <2>1, <2>4 DEF HandleMultisig, Reviewing, FilledType
        <3>2. Displayed'.kind = type /\ Displayed'.path = hdPath'
            BY <3>1 DEF Displayed, ScreenKind, AccountGetItem, AddressType
        <3> QED
            BY <2>1, <2>2, <3>2 DEF OnlyAcceptedGranted, Acceptable, AddressType
    <2> QED
        BY <2>3, <2>4
<1>10. CASE AppSign \/ AppMessageSign \/ AppReplyAddress \/ AppReject
    <2>1. review # NoReview /\ review' = NoReview
        BY <1>10 DEF AppSign, AppMessageSign, AppReplyAddress, AppReject, Answering, NoReview
    <2>2. reply'.granted \in {Displayed, NoRequest}
        BY <1>10, AnswersDisplayed
    <2>3. reply'.granted = Displayed => Acceptable(reply'.granted)
        BY <2>1 DEF OnlyAcceptedGranted
    <2> QED
        BY <2>1, <2>2, <2>3 DEF OnlyAcceptedGranted, Acceptable
<1> QED
    BY <1>1, <1>2, <1>3, <1>4, <1>5, <1>6, <1>7, <1>8, <1>9, <1>10 DEF Next

\* Nothing is shown or granted that the parser of its instruction did not accept, under
\* a path of the application.
THEOREM GrantsAreAccepted == Spec => []OnlyAcceptedGranted
<1>1. Init => OnlyAcceptedGranted
    BY DEF Init, OnlyAcceptedGranted
<1> QED
    BY <1>1, NextOnlyAccepted, IInvInductive, PTL DEF Spec

\* What an earlier request left in account_type never refuses a later one.
THEOREM FailedRequestsAreForgotten == Spec => AddressRequestNeverBusy
<1>1. ASSUME NEW type \in AddressType, NEW chunk \in Chunk, HandleMultisig(type, chunk, TRUE, TRUE)
      PROVE  review' # NoReview
    <2>1. readAddressRequest(TRUE) = "none"
        BY DEF readAddressRequest, clearAddressRequest
    <2>2. review' = [getItem |-> AccountGetItem(type), approve |-> "app_reply_address"]
        BY <1>1, <2>1 DEF HandleMultisig, Reviewing
    <2> QED
        BY <2>2 DEF NoReview
<1>2. [\A type \in AddressType, chunk \in Chunk :
            HandleMultisig(type, chunk, TRUE, TRUE) => review' # NoReview]_vars
    BY <1>1
<1> QED
    BY <1>2, PTL DEF AddressRequestNeverBusy
-----------------------------------------------------------------------------
\* The host that retries.

\* The chunks of a job are chunks, and the last one is among them.
LEMMA JobChunks ==
    ASSUME job \in Jobs
    PROVE  /\ job.path \in PathField
           /\ \A k \in 1 .. chunks : job.chunks[k] \in Chunk
           /\ chunks \in 1 .. chunks
BY JobsAssumption, PathAssumption DEF chunks, PathField

\* Host and owner use the device, they do not get past it.
LEMMA HostStepsAreSteps ==
    ASSUME job \in Jobs, [HostNext]_allVars
    PROVE  [Next]_vars /\ job' = job
<1> USE JobChunks
<1>1. CASE SendInit
    <2>1. InitUpload(job.path) /\ job' = job
        BY <1>1 DEF SendInit, HostHears
    <2> QED
        BY <2>1 DEF Next
<1>2. CASE SendAdd
    <2>1. at \in 1 .. chunks /\ job' = job
        BY <1>2 DEF SendAdd, HostHears, chunks
    <2>2. job.chunks[at] \in Chunk
        BY <2>1
    <2>3. AddChunk(job.chunks[at]) \/ ChunkTooLong(job.chunks[at]) \/ ChunkRefused
        BY <1>2 DEF SendAdd
    <2> QED
        BY <2>1, <2>2, <2>3 DEF Next
<1>3. CASE SendLast
    <2>1. job.chunks[at] \in Chunk /\ job' = job
        BY <1>3 DEF SendLast, HostHears
    <2>2. CASE HandleSign(job.chunks[at]) \/ HandleSignMessage(job.chunks[at])
        BY <2>1, <2>2 DEF Next
    <2>3. CASE \E valid \in BOOLEAN :
                job.kind \in AddressType /\ HandleMultisig(job.kind, job.chunks[at], valid, TRUE)
        BY <2>1, <2>3 DEF Next
    <2>4. CASE ChunkTooLong(job.chunks[at]) \/ ChunkRefused
        BY <2>1, <2>4 DEF Next
    <2> QED
        BY <1>3, <2>2, <2>3, <2>4 DEF SendLast
<1>4. CASE SendWhileLocked
    BY <1>4 DEF SendWhileLocked, HostHears, Next
<1>5. CASE HearAnswer
    BY <1>5 DEF HearAnswer
<1>6. CASE OwnerApproves \/ OwnerRejects \/ OwnerUnlocks
    BY <1>6 DEF OwnerApproves, OwnerRejects, OwnerUnlocks, hostVars, Next
<1>7. CASE Disturbed
    BY <1>7 DEF Disturbed
<1>8. CASE UNCHANGED allVars
    BY <1>8 DEF allVars, hostVars
<1> QED
    BY <1>1, <1>2, <1>3, <1>4, <1>5, <1>6, <1>7, <1>8 DEF HostNext, HostStep

\* Whatever a host wants and however often it repeats it, whoever else uses the link and
\* whatever the owner does: the device is the one of ApduSession, so that its invariants
\* and its promise hold in every run in which WantedGranted is checked.
THEOREM HostDrivesTheDevice == HostSpec => Spec
<1>1. HostInit => Init /\ job \in Jobs
    BY DEF HostInit
<1>2. job \in Jobs /\ [HostNext]_allVars => (job \in Jobs)' /\ [Next]_vars
    BY HostStepsAreSteps
<1> QED
    BY <1>1, <1>2, PTL DEF HostSpec, Spec
=============================================================================
